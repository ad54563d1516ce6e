-------------------------------- MODULE Deal --------------------------------
(***************************************************************************)
(* What a negotiation promises its two sides, whoever carries it out: a    *)
(* proposal is sealed once and stands until it is taken for a cross with   *)
(* one of the other side; a cross is in one pair of hands, where it is     *)
(* settled, put before an operator or let go, and never comes back; it is  *)
(* settled after the disclosures, and by an agent only inside both         *)
(* envelopes, by an operator only after an approval.  There is no row, no  *)
(* turn, no timer and no cache.  NegotiationSession implements it.         *)
(*                                                                         *)
(* Two failures pass for success in the code and are part of the promise:  *)
(* an entry that was not deleted stands on, and disclosures that cannot be *)
(* read count as made.  Both are remembered.                               *)
(***************************************************************************)
EXTENDS Integers, Sequences

CONSTANTS
  Operators, BidPrices, AskPrices, Escalates, MinEnvelope, MaxEnvelope, Requires

VARIABLES
  open,      \* proposals that stand
  seals,     \* how many proposals a side has sealed
  hand,      \* the cross that an agent or an operator may settle, if any
  gated,     \* crosses put before an operator
  trades,    \* crosses settled, in order
  revealed,  \* sides with a verified disclosure
  approved,  \* an operator has approved
  lapses     \* failures that pass for success

dvars == <<open, seals, hand, gated, trades, revealed, approved, lapses>>

Sides == {"buy", "sell"}
Brokers == Sides \cup Operators

Prices(side) == IF side = "buy" THEN BidPrices ELSE AskPrices

Init ==
  /\ open = {}
  /\ seals = [s \in Sides |-> 0]
  /\ hand = [c \in Brokers |-> {}]
  /\ gated = {}
  /\ trades = <<>>
  /\ revealed = {}
  /\ approved = FALSE
  /\ lapses = {}

Seal(side, price) ==
  /\ seals' = [seals EXCEPT ![side] = @ + 1]
  /\ open' = open \cup {[side |-> side, k |-> seals[side] + 1, price |-> price]}
  /\ UNCHANGED <<hand, gated, trades, revealed, approved, lapses>>

Reveal(side) ==
  /\ revealed' = revealed \cup {side}
  /\ UNCHANGED <<open, seals, hand, gated, trades, approved, lapses>>

Cross(c, bid, ask) ==
  /\ hand[c] = {}
  /\ {bid, ask} \subseteq open
  /\ bid.side = "buy" /\ ask.side = "sell"
  /\ bid.price >= ask.price
  /\ hand' = [hand EXCEPT ![c] = {<<bid, ask>>}]
  /\ \/ open' = open \ {bid, ask} /\ UNCHANGED lapses
     \/ /\ open' \in {open, open \ {bid}, open \ {ask}}
        /\ lapses' = lapses \cup {"undeleted"}
  /\ UNCHANGED <<seals, gated, trades, revealed, approved>>

Escalate(c) ==
  /\ hand[c] # {}
  /\ gated' = gated \cup hand[c]
  /\ hand' = [hand EXCEPT ![c] = {}]
  /\ UNCHANGED <<open, seals, trades, revealed, approved, lapses>>

Approve ==
  /\ gated # {}
  /\ approved' = TRUE
  /\ UNCHANGED <<open, seals, hand, gated, trades, revealed, lapses>>

Misread ==
  /\ lapses' = lapses \cup {"unread"}
  /\ UNCHANGED <<open, seals, hand, gated, trades, revealed, approved>>

LetGo(cs) ==
  /\ hand' = [c \in Brokers |-> IF c \in cs THEN {} ELSE hand[c]]
  /\ UNCHANGED <<open, seals, gated, trades, revealed, approved, lapses>>

Disclosed == \A side \in Requires : (Sides \ {side}) \subseteq revealed

\* Terms are compared at twice the midpoint.
Inside(side, bid, ask) ==
  IF side = "buy" THEN bid.price + ask.price <= MaxEnvelope[side]
  ELSE bid.price + ask.price >= MinEnvelope[side]

Settle(c, bid, ask) ==
  /\ <<bid, ask>> \in hand[c]
  /\ Disclosed \/ "unread" \in lapses
  /\ IF c \in Operators THEN approved
     ELSE \A side \in Escalates : Inside(side, bid, ask)
  /\ trades' = Append(trades, [bid |-> bid, ask |-> ask, by |-> c])
  /\ hand' = [hand EXCEPT ![c] = {}]
  /\ UNCHANGED <<open, seals, gated, revealed, approved, lapses>>

Next ==
  \/ \E side \in Sides : Reveal(side) \/ \E price \in Prices(side) : Seal(side, price)
  \/ \E c \in Brokers :
       \/ \E bid, ask \in open : Cross(c, bid, ask)
       \/ Escalate(c)
       \/ \E p \in hand[c] : Settle(c, p[1], p[2])
  \/ Approve
  \/ Misread
  \/ \E cs \in SUBSET Brokers : LetGo(cs)

Spec == Init /\ [][Next]_dvars
=============================================================================
