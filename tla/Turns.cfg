SPECIFICATION Spec
CONSTANTS
  kyc = kyc  aml = aml
  None = None
  Claims = {kyc, aml}
  QtyUnit = 1000
  Signers = {"buy", "sell"}
  MaxRounds = 6
  Pairs <- MCPairs
  LlmPrices <- MCLlmPrices
  LlmQuantities <- MCLlmQuantities
CHECK_DEADLOCK FALSE
INVARIANTS
  TypeOK
  TradeWithinRails
  RecordMatchesSeal
  DirectTradeUnderCeiling
  AnchoredPairCrosses
  DisclosuresCapped
