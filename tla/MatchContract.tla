---------------------------- MODULE MatchContract ----------------------------
(***************************************************************************)
(* The crossing arithmetic of the enclave's matching contract, shared by   *)
(* evaluate_match and evaluate_round.  Prices and quantities are naturals: *)
(* the contract's u128 values at wire scale.                               *)
(***************************************************************************)
EXTENDS Integers

CONSTANT MaxWord  \* the largest u128

ASSUME WordAssumption == MaxWord \in Nat

\* checked_add: the sum of the two prices must fit a word.
SumFits(buyPrice, sellPrice) == buyPrice + sellPrice <= MaxWord

\* Half the sum, an odd unit rounded up.
\* (Variant: the odd unit is added before the halving is compared, so that the
\* price can exceed the bid.)
MidpointRoundedAway(a, b) == ((a + b) \div 2) + 1
Midpoint(a, b) == ((a + b) \div 2) + ((a + b) % 2)

\* (Variant: an ask above the bid crosses.)
CrossesReversed(buyPrice, buyQuantity, sellPrice, sellQuantity) ==
  /\ buyPrice <= sellPrice
  /\ buyQuantity > 0
  /\ sellQuantity > 0
  /\ SumFits(buyPrice, sellPrice)

Crosses(buyPrice, buyQuantity, sellPrice, sellQuantity) ==
  /\ buyPrice >= sellPrice
  /\ buyQuantity > 0
  /\ sellQuantity > 0
  /\ SumFits(buyPrice, sellPrice)

MatchedQuantity(buyQuantity, sellQuantity) ==
  IF buyQuantity <= sellQuantity THEN buyQuantity ELSE sellQuantity
=============================================================================
