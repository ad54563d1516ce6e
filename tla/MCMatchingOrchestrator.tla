----------------------- MODULE MCMatchingOrchestrator -----------------------
(* The constants of MatchingOrchestrator's runs.                           *)
EXTENDS MatchingOrchestrator

CONSTANTS b1, s1, s2, instA, instB, instC, g1, g2, g3, usdc, wbtc

\* A buys, B and C sell.
MCInstitutionOf == [i \in Intents |->
  CASE i = b1 -> instA [] i = s1 -> instB [] OTHER -> instC]
MCAgentOf == [i \in Intents |->
  CASE i = b1 -> g1 [] i = s1 -> g2 [] OTHER -> g3]
MCSideOf == [i \in Intents |-> IF i = b1 THEN "buy" ELSE "sell"]
MCAssetOf == [i \in Intents |-> wbtc]

\* b1 reserves 8 of its 10.  s1 fills half of it at 3, which the wire carries
\* as 0, or as 4 at the limit of b1; s2 fills all of it at 10.
MCQuantity == [i \in Intents |-> IF i = s1 THEN 1 ELSE 2]
MCLimit == [i \in Intents |-> IF i = s1 THEN 1 ELSE 5]

\* Every account covers its reservation and the trade beside it ...
MCDeposit == [a \in Accounts |-> IF a[2] = usdc THEN 18 ELSE 4]
\* ... or B's holding covers its reservation alone.
MCTightDeposit == [a \in Accounts |->
  IF a[2] = usdc THEN 18 ELSE IF a[1] = instB THEN 1 ELSE 4]

MCMaxNotional == [i \in Intents |-> 10]
=============================================================================
