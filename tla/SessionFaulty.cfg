SPECIFICATION Spec
CONSTANTS
  opA = opA  opB = opB  none = none
  Operators = {opA}
  BidPrices = {2, 3}
  AskPrices = {2, 3}
  Escalates = {"sell"}
  MinEnvelope <- MCMinEnvelope
  MaxEnvelope <- MCMaxEnvelope
  Requires = {"sell"}
  None = none
  MaxRounds = 3
  MaxRoundNo = 3
  MaxSeals = 2
  MaxFaults = 1
CHECK_DEADLOCK FALSE
INVARIANTS
  ProposalsTradeOnce
  DisclosedBeforeTrade
  UnapprovedWithinEnvelope
PROPERTY ImplementsDeal
