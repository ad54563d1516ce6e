--------------------------- MODULE NegotiationTurns ---------------------------
(***************************************************************************)
(* A session as its two agents play it, one action per turn: the agent     *)
(* reads the view, its LLM asks for any move, the runtime bounds it with   *)
(* negotiation-strategy.ts and seals the price it settled on, and the      *)
(* backend, which cannot see into the sealed envelope, bounds the move a   *)
(* second time with the same code and records the outcome.                 *)
(*                                                                         *)
(* The enclave trades on what the agent sealed; the counterpart, the       *)
(* envelope policy and the records go by what the backend bounded.  A move *)
(* without a price is not bounded again.  The turn keeps the moves apart;  *)
(* how the calls of a session overlap all the same, and what happens at    *)
(* its gate, is NegotiationSession's concern: a gate ends the game here.   *)
(***************************************************************************)
EXTENDS NegotiationStrategy, FiniteSets

CONSTANTS
  Claims,
  Pairs,        \* pairs of mandates: [buy, sell]
  LlmPrices,    \* prices an LLM asks for, in tenths of a cent
  LlmQuantities,
  Signers,      \* sides whose agent can sign a claim's credential
  MaxRounds

MandateOK(m) ==
  /\ m.style \in Styles
  /\ m.urgency \in Urgencies
  /\ {m.anchor, m.target} \subseteq Nat \ {0}
  /\ {m.partial, m.escalates} \subseteq BOOLEAN
  /\ m.ladder \in Seq(Claims)
  /\ m.required \in Seq(Claims)

ASSUME TurnsAssumption ==
  /\ None \notin Claims
  /\ \A pair \in Pairs : \A side \in Sides : MandateOK(pair[side])
  /\ LlmPrices \subseteq Nat
  /\ LlmQuantities \subseteq Nat
  /\ Signers \subseteq Sides
  /\ MaxRounds \in Nat

VARIABLES
  mandate,    \* negotiation_mandates of the session
  status,
  turn,
  round,
  standing,   \* [price, quantity] that the last row of a side shows
  sealed,     \* sealedStandingProposals, by what the enclave holds: the price
              \* and quantity the agent sealed, and how the agent got there
  recorded,   \* what the backend recorded of the sealed proposal
  requested,  \* rows of a side that ask for a claim
  revealed,   \* rows of a side that reveal a claim
  verified,   \* claims of a side that the enclave verified
  trade,
  unnamed     \* history: sides whose LLM asked for a disclosure without one
              \* of the claims it may ask for

vars == <<mandate, status, turn, round, standing, sealed, recorded, requested,
          revealed, verified, trade, unnamed>>

Other(side) == IF side = "buy" THEN "sell" ELSE "buy"
NoClaims == [c \in Claims |-> 0]

MovesOf(actions, quantities, claims, escalates) ==
  [action : actions, price : LlmPrices, quantity : quantities, claim : claims,
   escalates : escalates]

\* What an LLM may ask for, except to walk away.
Moves ==
  MovesOf({"propose", "accept", "hold"}, LlmQuantities, {None}, {FALSE})
    \cup MovesOf({"reveal", "request_disclosure"}, LlmQuantities,
                 Claims \cup {None}, {FALSE})
    \cup MovesOf({"counter"}, {0}, {None}, {TRUE})

Init ==
  /\ mandate \in Pairs
  /\ status = "active"
  /\ turn = "buy"
  /\ round = 0
  /\ standing = [s \in Sides |-> None]
  /\ sealed = [s \in Sides |-> None]
  /\ recorded = [s \in Sides |-> None]
  /\ requested = [s \in Sides |-> NoClaims]
  /\ revealed = [s \in Sides |-> NoClaims]
  /\ verified = [s \in Sides |-> {}]
  /\ trade = None
  /\ unnamed = {}

-----------------------------------------------------------------------------
(* Both validations see the same rows.  The backend looks past a row that   *)
(* shows no terms for the standing proposal, the agent does not: it takes  *)
(* the turn for an opening, which only a move without a price asks about.  *)

Context(side) ==
  [side |-> side, mandate |-> mandate[side],
   opening |-> standing[Other(side)] = None,
   received |-> verified[Other(side)],
   requested |-> requested[side], revealed |-> revealed[side]]

\* (Variant: the runtime forwards what the LLM asks for.)
DecisionRaw(side, move) ==
  IF move.action \in PricedActions /\ 0 \notin {move.price, move.quantity}
  THEN [move EXCEPT !.price = HalfUp(@, 10)]
  ELSE Validate(move, Context(side))

\* clampNegotiationDecision
Decision(side, move) == Validate(move, Context(side))

\* The second validation of a priced move; a reveal that comes out of it has no
\* credential and is a proposal.
Bounded(side, decision) ==
  LET claim == [decision EXCEPT !.price = 10 * @]
      bounded == Validate(claim, Context(side)) IN
  IF bounded.action = "reveal" THEN [bounded EXCEPT !.action = "propose"] ELSE bounded

GateSatisfied ==
  \A side \in Sides :
    \A i \in DOMAIN mandate[side].required :
      mandate[side].required[i] \in verified[Other(side)]

Crosses(bid, ask) == None \notin {bid, ask} /\ bid.price >= ask.price

\* The mover's own price, as recorded, and the execution price for the other.
MustEscalate(side, own, bid, ask) ==
  \/ /\ mandate[side].escalates
     /\ ~InsidePreferred(mandate[side], side, own.price, 1)
  \/ /\ mandate[Other(side)].escalates
     /\ ~InsidePreferred(mandate[Other(side)], Other(side), bid.price + ask.price, 2)

Terms(move) == [price |-> move.price, quantity |-> move.quantity]

-----------------------------------------------------------------------------
PassTurn(side) ==
  /\ turn' = Other(side)
  /\ round' = round + 1

\* The row of a move without a seal still shows its price.
RecordRow(side, move) ==
  /\ standing' = [standing EXCEPT ![side] = Terms(move)]
  /\ PassTurn(side)
  /\ UNCHANGED <<mandate, status, sealed, recorded, trade>>

\* What can come of a turn of `side`, over all that its LLM may ask for.
Plays(side) ==
  {LET decision == Decision(side, llm) IN
   [decision |-> decision,
    move |-> IF decision.action \in PricedActions
             THEN Bounded(side, decision) ELSE decision,
    restated |-> decision.action # llm.action,
    renamed |-> decision.action = llm.action /\ decision.claim # llm.claim] :
   llm \in Moves}

NoteDisclosure(side, renamed) ==
  unnamed' = IF renamed THEN unnamed \cup {side} ELSE unnamed

\* handleDisclosure: a claim is verified if its holder can sign it.
Reveal(side, move, renamed) ==
  /\ move.action = "reveal"
  /\ revealed' = [revealed EXCEPT ![side][move.claim] = @ + 1]
  /\ verified' = IF side \in Signers
                 THEN [verified EXCEPT ![side] = @ \cup {move.claim}] ELSE verified
  /\ NoteDisclosure(side, renamed)
  /\ RecordRow(side, move)
  /\ UNCHANGED requested

RequestDisclosure(side, move, renamed) ==
  /\ move.action = "request_disclosure"
  /\ requested' = [requested EXCEPT ![side][move.claim] = @ + 1]
  /\ NoteDisclosure(side, renamed)
  /\ RecordRow(side, move)
  /\ UNCHANGED <<revealed, verified>>

Hold(side, move) ==
  /\ move.action = "hold"
  /\ RecordRow(side, move)
  /\ UNCHANGED <<requested, revealed, verified, unnamed>>

WalkAway(side) ==
  /\ status' = "walked_away"
  /\ round' = round + 1
  /\ UNCHANGED <<mandate, turn, standing, sealed, recorded, requested, revealed,
                 verified, trade, unnamed>>

\* runPricedMove: seal what the agent sealed, cross it with the counterpart's
\* last seal, record what the backend bounded, and settle, gate or go on.  A
\* cross consumes both seals.
Priced(side, decision, bounded, restated) ==
  LET own == [price |-> decision.price, quantity |-> decision.quantity,
              restated |-> restated]
      bid == IF side = "buy" THEN own ELSE sealed["buy"]
      ask == IF side = "sell" THEN own ELSE sealed["sell"]
      crossed == Crosses(bid, ask)
      escalates == /\ crossed
                   /\ bounded.escalates \/ MustEscalate(side, bounded, bid, ask) IN
  /\ bounded.action \in PricedActions
  /\ bounded.quantity > 0
  /\ standing' = [standing EXCEPT ![side] = Terms(bounded)]
  /\ recorded' = [recorded EXCEPT ![side] = Terms(bounded)]
  /\ sealed' = IF crossed THEN [s \in Sides |-> None]
               ELSE [sealed EXCEPT ![side] = own]
  /\ \/ /\ ~escalates
        /\ ~crossed \/ ~GateSatisfied
        /\ PassTurn(side)
        /\ UNCHANGED <<status, trade>>
     \/ /\ escalates
        /\ status' = "awaiting_approval"
        /\ UNCHANGED <<turn, round, trade>>
     \/ /\ crossed /\ ~escalates /\ GateSatisfied
        /\ status' = "settled"
        /\ trade' = [bid |-> bid, ask |-> ask,
                     quantity |-> IF bid.quantity < ask.quantity
                                  THEN bid.quantity ELSE ask.quantity]
        /\ round' = round + 1
        /\ UNCHANGED turn
  /\ UNCHANGED <<mandate, requested, revealed, verified, unnamed>>

\* Nothing is left of the quantity under the ceiling: the row is a hold that
\* shows no terms, and the envelope is not sealed.
OutOfBand(side, bounded) ==
  /\ bounded.action \in PricedActions
  /\ bounded.quantity = 0
  /\ standing' = [standing EXCEPT ![side] = None]
  /\ PassTurn(side)
  /\ UNCHANGED <<mandate, status, sealed, recorded, requested, revealed,
                 verified, trade, unnamed>>

\* The API refuses a move whose quantity the agent's own validation brought
\* down to zero, and the turn stays with the agent.
Turn(side) ==
  /\ status = "active"
  /\ turn = side
  /\ round < MaxRounds
  /\ \/ \E play \in Plays(side) :
          /\ play.decision.quantity > 0
          /\ \/ Reveal(side, play.move, play.renamed)
             \/ RequestDisclosure(side, play.move, play.renamed)
             \/ Hold(side, play.move)
             \/ Priced(side, play.decision, play.move, play.restated)
             \/ OutOfBand(side, play.move)
     \/ WalkAway(side)

Expire ==
  /\ status = "active"
  /\ round >= MaxRounds
  /\ status' = "expired"
  /\ UNCHANGED <<mandate, turn, round, standing, sealed, recorded, requested,
                 revealed, verified, trade, unnamed>>

Next == (\E side \in Sides : Turn(side)) \/ Expire

Spec == Init /\ [][Next]_vars
-----------------------------------------------------------------------------
Rows == [Claims -> 0 .. MaxRounds]
SealOf(side) == [price : 1 .. MaxPrice(mandate[side], side),
                 quantity : 1 .. mandate[side].target, restated : BOOLEAN]

TypeOK ==
  /\ mandate \in Pairs
  /\ status \in {"active", "awaiting_approval", "settled", "walked_away", "expired"}
  /\ turn \in Sides
  /\ round \in 0 .. MaxRounds
  /\ standing \in [Sides -> [price : Nat, quantity : Nat] \cup {None}]
  /\ \A side \in Sides : sealed[side] \in SealOf(side) \cup {None}
  /\ recorded \in [Sides -> [price : Nat, quantity : Nat] \cup {None}]
  /\ requested \in [Sides -> Rows]
  /\ revealed \in [Sides -> Rows]
  /\ verified \in [Sides -> SUBSET Claims]
  /\ trade = None \/ trade \in [bid : SealOf("buy"), ask : SealOf("sell"), quantity : Nat]
  /\ unnamed \subseteq Sides

\* Twice the midpoint.
TradePrice == trade.bid.price + trade.ask.price

\* Whatever the LLMs ask for, a trade is within the walk-away prices and the
\* targets of both mandates, although the enclave trades on sealed terms that
\* the backend never sees (validateAgentDecision in the agent's runtime).
TradeWithinRails ==
  trade # None =>
    /\ 2 * WalkawayMin(mandate["sell"]) <= TradePrice
    /\ TradePrice <= 2 * WalkawayMax(mandate["buy"])
    /\ \A side \in Sides : trade.quantity <= mandate[side].target

\* What the backend records of a live proposal is what the agent sealed: the
\* second validation leaves the price alone and may only lower the quantity,
\* unless the runtime restated another move as the proposal.
RecordMatchesSeal ==
  \A side \in Sides :
    sealed[side] # None =>
      /\ recorded[side].price = sealed[side].price
      /\ sealed[side].restated \/ recorded[side].quantity <= sealed[side].quantity

\* Up to the rounding of a price and a quantity.
UnderCeiling(price, quantity, m) ==
  2 * price * quantity <= 2 * NotionalCeiling(m) * QtyUnit + price + quantity

\* A trade is under the notional ceiling of the buyer, unless its mandate sells
\* the full block only or its proposal was restated from another move.
DirectTradeUnderCeiling ==
  trade # None /\ mandate["buy"].partial /\ ~trade.bid.restated =>
    UnderCeiling(trade.bid.price, trade.quantity, mandate["buy"])

\* When the buyer's anchor is not below the seller's, the first two proposals
\* cross: two proposals are never open at once (derivedPriceBandFor).
AnchoredPairCrosses ==
  mandate["buy"].anchor >= mandate["sell"].anchor =>
    \E side \in Sides : sealed[side] = None

\* A claim is asked for once and revealed twice at most, also through accepts,
\* as long as the LLM names a claim that it may name (repeated-disclosure cap).
DisclosuresCapped ==
  \A side \in Sides \ unnamed : \A c \in Claims :
    requested[side][c] <= 1 /\ revealed[side][c] <= 2

\* The notional of a trade does not exceed the ceiling of a buyer that may trade
\* in part (README: validates every LLM decision before submission).
NotionalUnderCeiling ==
  trade # None /\ mandate["buy"].partial =>
    UnderCeiling(trade.bid.price, trade.quantity, mandate["buy"])
=============================================================================
