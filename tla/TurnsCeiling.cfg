SPECIFICATION Spec
CONSTANTS
  kyc = kyc  aml = aml
  None = None
  Claims = {kyc, aml}
  QtyUnit = 1000
  Signers = {"buy", "sell"}
  MaxRounds = 5
  Pairs <- MCPairs
  LlmPrices <- MCLlmPrices
  LlmQuantities <- MCLlmQuantities
CHECK_DEADLOCK FALSE
INVARIANT NotionalUnderCeiling
