----------------------------- MODULE MCExchange -----------------------------
(* The constants of Exchange's run: two bids of two institutions and three *)
(* asks of a third, which together exceed its holding; one bid and one ask *)
(* do not cross.  A wire unit of cash is three products, so that b1        *)
(* reserves 6 and pays s1 its full 8.                                      *)
EXTENDS Exchange

CONSTANTS b1, b2, s1, s2, s3, instA, instB, instC, usdc, wbtc

MCInstitutionOf == [i \in Intents |->
  CASE i = b1 -> instA [] i = b2 -> instC [] OTHER -> instB]
MCSideOf == [i \in Intents |-> IF i \in {b1, b2} THEN "buy" ELSE "sell"]
MCAssetOf == [i \in Intents |-> wbtc]
MCQuantity == [i \in Intents |-> IF i = s2 THEN 1 ELSE 2]
MCLimit == [i \in Intents |->
  CASE i = b1 -> 4 [] i = s1 -> 3 [] OTHER -> 2]
MCDeposit == [a \in Accounts |-> IF a[2] = usdc THEN 8 ELSE 3]
=============================================================================
