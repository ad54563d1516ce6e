SPECIFICATION FairSpec
CONSTANTS
  opA = opA  opB = opB  none = none
  Operators = {opA, opB}
  BidPrices = {3}
  AskPrices = {2}
  Escalates = {"sell"}
  MinEnvelope <- MCMinEnvelope
  MaxEnvelope <- MCMaxEnvelope
  Requires = {}
  None = none
  MaxRounds = 3
  MaxRoundNo = 3
  MaxSeals = 2
  MaxFaults = 0
CHECK_DEADLOCK FALSE
INVARIANTS
  DeclinedNeverTrades
PROPERTIES
  GateResolved
  SettlementEnds
