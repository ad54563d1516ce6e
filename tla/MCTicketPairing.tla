---------------------------- MODULE MCTicketPairing ----------------------------
(* The constants of TicketPairing's run: two bids of one institution, a    *)
(* small bid of another with a malformed token, and two asks of a third.   *)
(* The second bid disallows a claim of the first ask, and the third is     *)
(* below the minimum of the second ask.                                    *)
EXTENDS TicketPairing

CONSTANTS b1, b2, b3, s1, s2, instA, instB, instC, wbtc, kyc, bad

Token(asset, side, institution) ==
  [asset |-> asset, side |-> side, institution |-> institution]

MCInstitutionOf == [t \in Tickets |->
  CASE t \in {b1, b2} -> instA [] t = b3 -> instC [] OTHER -> instB]
MCSideOf == [t \in Tickets |-> IF t \in {s1, s2} THEN "sell" ELSE "buy"]
MCAssetOf == [t \in Tickets |-> wbtc]
MCTokenOf == [t \in Tickets |->
  IF t = b3 THEN bad
  ELSE Token(wbtc, MCSideOf[t], MCInstitutionOf[t])]
MCTarget == [t \in Tickets |-> IF t = b3 THEN 1 ELSE 2]
MCMinimum == [t \in Tickets |-> IF t = s2 THEN 2 ELSE 1]
MCLadder == [t \in Tickets |-> IF t = s1 THEN {kyc} ELSE {}]
MCDisallowed == [t \in Tickets |-> IF t = b2 THEN {kyc} ELSE {}]
=============================================================================
