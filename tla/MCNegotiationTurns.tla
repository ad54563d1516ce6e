-------------------------- MODULE MCNegotiationTurns --------------------------
(* Four pairs of mandates: anchors that overlap, a buyer below the seller  *)
(* with the disclosures of both, a full block under escalation, and a      *)
(* buyer whose target is worth less than a cent: its ceiling is zero.      *)
EXTENDS NegotiationTurns

CONSTANTS kyc, aml

Mandate(style, urgency, anchor, target, partial, escalates, ladder, required) ==
  [style |-> style, urgency |-> urgency, anchor |-> anchor, target |-> target,
   partial |-> partial, escalates |-> escalates, ladder |-> ladder,
   required |-> required]

MCPairs == {
  [buy  |-> Mandate("balanced", "normal", 400, 1000, TRUE, FALSE, <<kyc>>, <<>>),
   sell |-> Mandate("patient", "low", 399, 1000, TRUE, TRUE, <<>>, <<kyc>>)],
  [buy  |-> Mandate("trust_first", "critical", 398, 1000, TRUE, TRUE, <<kyc>>, <<aml>>),
   sell |-> Mandate("balanced", "high", 400, 800, FALSE, FALSE, <<aml>>, <<kyc>>)],
  [buy  |-> Mandate("aggressive", "high", 400, 900, FALSE, TRUE, <<>>, <<>>),
   sell |-> Mandate("relationship_first", "normal", 402, 1000, TRUE, TRUE, <<>>, <<>>)],
  [buy  |-> Mandate("balanced", "normal", 400, 1, TRUE, FALSE, <<kyc>>, <<aml>>),
   sell |-> Mandate("patient", "low", 399, 1000, TRUE, FALSE, <<aml>>, <<>>)]}
MCLlmPrices == {0, 3800, 4015, 4100}
MCLlmQuantities == {0, 500}
=============================================================================
