-------------------------- MODULE NegotiationStrategy --------------------------
(***************************************************************************)
(* negotiation-core/negotiation-strategy.ts: what an operator's mandate    *)
(* turns into, and what becomes of a move an LLM asks for.  Nothing here   *)
(* has a state; NegotiationTurns runs two agents and the backend on it.    *)
(*                                                                         *)
(* A mandate is [style, urgency, anchor, target, partial, escalates,       *)
(* ladder, required].  Money is in cents and quantities in the units that  *)
(* roundQty rounds to, QtyUnit of them to one unit of the asset; an LLM's  *)
(* price is in tenths of a cent, zero when it has none, and so is its      *)
(* quantity zero when it has none.  Confidence, reasoning, intent labels   *)
(* and the concession budget (which no code enforces) are left out.        *)
(***************************************************************************)
EXTENDS Integers, SequencesExt

CONSTANTS
  QtyUnit,  \* 10^6 in the code
  None

ASSUME StrategyAssumption == QtyUnit \in Nat \ {0}

Sides == {"buy", "sell"}
Styles == {"patient", "balanced", "aggressive", "relationship_first",
           "trust_first"}
Urgencies == {"low", "normal", "high", "critical"}
PricedActions == {"propose", "counter", "accept"}

-----------------------------------------------------------------------------
(* Rails.                                                                  *)

\* Math.round of a / b.
HalfUp(a, b) == (2 * a + b) \div (2 * b)

\* Band multiplier in tenths, urgency lean in hundredths.
StyleBand == [patient |-> 6, balanced |-> 10, aggressive |-> 16,
              relationship_first |-> 7, trust_first |-> 5]
StyleLean == [patient |-> -20, balanced |-> 0, aggressive |-> 30,
              relationship_first |-> -10, trust_first |-> -15]
UrgencyLean == [low |-> -30, normal |-> 0, high |-> 30, critical |-> 60]

BaseBandBps == 150

PriceBandBps ==
  [style \in Styles |-> [urgency \in Urgencies |->
    LET sum  == StyleLean[style] + UrgencyLean[urgency]
        lean == IF sum > 0 THEN sum ELSE 0 IN
    HalfUp(BaseBandBps * StyleBand[style] * (1000 + 6 * lean), 10000)]]

\* deriveExecutionRails
WalkawayMin(m) == HalfUp(m.anchor * (10000 - PriceBandBps[m.style][m.urgency]), 10000)
WalkawayMax(m) == HalfUp(m.anchor * (10000 + PriceBandBps[m.style][m.urgency]), 10000)
NotionalCeiling(m) == HalfUp(m.anchor * m.target, QtyUnit)

\* (Variant: both sides have the whole band.)
MinPriceSymmetric(m, side) == WalkawayMin(m)

\* derivedPriceBandFor
MinPrice(m, side) == IF side = "buy" THEN m.anchor ELSE WalkawayMin(m)

MaxPrice(m, side) == IF side = "buy" THEN WalkawayMax(m) ELSE m.anchor

\* preferredEnvelopeFor: half of the walk-away band, around the anchor.
PreferredMin(m, side) ==
  IF side = "buy" THEN m.anchor
  ELSE HalfUp(4 * m.anchor - (WalkawayMax(m) - WalkawayMin(m)), 4)
PreferredMax(m, side) ==
  IF side = "buy" THEN HalfUp(4 * m.anchor + (WalkawayMax(m) - WalkawayMin(m)), 4)
  ELSE m.anchor

\* priceInsidePreferredEnvelope, for a price over d.
InsidePreferred(m, side, price, d) ==
  price >= d * PreferredMin(m, side) /\ price <= d * PreferredMax(m, side)

-----------------------------------------------------------------------------
(* validateAgentDecision.                                                  *)

\* ctx: [side, mandate, opening: the counterpart has no standing price,
\* received: claims of the counterpart that were verified, requested, revealed:
\* how often this side has asked for or revealed a claim].

\* (Variant: no upper end.)
ClampPriceFloor(price, ctx) ==
  LET low == 10 * MinPrice(ctx.mandate, ctx.side) IN
  IF price = 0 THEN 10 * ctx.mandate.anchor
  ELSE IF price < low THEN low ELSE price

\* In tenths of a cent.
ClampPrice(price, ctx) ==
  LET low  == 10 * MinPrice(ctx.mandate, ctx.side)
      high == 10 * MaxPrice(ctx.mandate, ctx.side) IN
  IF price = 0 THEN 10 * ctx.mandate.anchor
  ELSE IF price < low THEN low
  ELSE IF price > high THEN high ELSE price

ClampQuantity(quantity, ctx) ==
  IF quantity \in 1 .. ctx.mandate.target THEN quantity ELSE ctx.mandate.target

\* restatedPropose, restatedHold and the moves without a price of their own:
\* the price and the quantity stay within the band and the target.
Restated(action, claim, move, ctx) ==
  [action |-> action, claim |-> claim,
   price |-> HalfUp(ClampPrice(move.price, ctx), 10),
   quantity |-> ClampQuantity(move.quantity, ctx),
   escalates |-> move.escalates]

Outstanding(ctx) == ToSet(ctx.mandate.required) \ ctx.received

\* The first of a list's claims that is in the set.
FirstIn(claims, set) ==
  LET hits == {k \in DOMAIN claims : claims[k] \in set} IN
  claims[CHOOSE k \in hits : \A j \in hits : k <= j]

\* An accept before all required claims are proven becomes the next request,
\* then the next reveal, then a proposal.
AcceptBlocked(move, ctx) ==
  LET required == ctx.mandate.required
      ladder   == ctx.mandate.ladder
      unasked  == {c \in Outstanding(ctx) : ctx.requested[c] = 0}
      unshown  == {c \in ToSet(ladder) : ctx.revealed[c] = 0} IN
  IF unasked # {}
  THEN Restated("request_disclosure", FirstIn(required, unasked), move, ctx)
  ELSE IF unshown # {} THEN Restated("reveal", FirstIn(ladder, unshown), move, ctx)
  ELSE Restated("propose", None, move, ctx)

\* (Variant: the claim that is named is not counted.)
DisclosureMoveUncapped(move, ctx, allowed, done, cap) ==
  IF allowed = <<>> THEN Restated("hold", None, move, ctx)
  ELSE IF ctx.opening THEN Restated("propose", None, move, ctx)
  ELSE LET known == move.claim # None /\ Contains(allowed, move.claim) IN
       Restated(move.action, IF known THEN move.claim ELSE allowed[1], move, ctx)

\* A reveal or a request: nothing to disclose is a hold, an opening turn and a
\* claim named once too often are proposals, an unknown claim is the first one.
DisclosureMove(move, ctx, allowed, done, cap) ==
  IF allowed = <<>> THEN Restated("hold", None, move, ctx)
  ELSE IF ctx.opening \/ (move.claim # None /\ done[move.claim] >= cap)
       THEN Restated("propose", None, move, ctx)
  ELSE LET known == move.claim # None /\ Contains(allowed, move.claim) IN
       Restated(move.action, IF known THEN move.claim ELSE allowed[1], move, ctx)

\* (Variant: the ceiling is not looked at.)
BoundedQuantityUncapped(price, quantity, m) ==
  IF ~m.partial /\ quantity < m.target THEN m.target ELSE quantity

\* The quantity shrinks to the ceiling, unless only the full block may trade.
BoundedQuantity(price, quantity, m) ==
  LET ceiling == NotionalCeiling(m)
      shrunk  == IF price * quantity > 10 * ceiling * QtyUnit
                 THEN HalfUp(10 * ceiling * QtyUnit, price) ELSE quantity IN
  IF ~m.partial /\ shrunk < m.target THEN m.target ELSE shrunk

\* propose, counter, accept, and hold, which the same lines bound.
BoundedMove(move, ctx) ==
  LET m     == ctx.mandate
      price == ClampPrice(move.price, ctx) IN
  [action |-> move.action, claim |-> None,
   price |-> HalfUp(price, 10),
   quantity |-> BoundedQuantity(price, ClampQuantity(move.quantity, ctx), m),
   escalates |-> \/ move.escalates
                 \/ m.escalates /\ ~InsidePreferred(m, ctx.side, price, 10)]

Validate(move, ctx) ==
  CASE move.action = "walkaway" ->
         [action |-> "walkaway", claim |-> None, price |-> 0, quantity |-> 0,
          escalates |-> move.escalates]
    [] move.action = "accept" /\ Outstanding(ctx) # {} -> AcceptBlocked(move, ctx)
    [] move.action = "reveal" ->
         DisclosureMove(move, ctx, ctx.mandate.ladder, ctx.revealed, 2)
    [] move.action = "request_disclosure" ->
         DisclosureMove(move, ctx, ctx.mandate.required, ctx.requested, 1)
    [] OTHER -> BoundedMove(move, ctx)
=============================================================================
