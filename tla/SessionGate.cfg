SPECIFICATION Spec
CONSTANTS
  opA = opA  opB = opB  none = none
  Operators = {opA}
  BidPrices = {3}
  AskPrices = {2}
  Escalates = {"sell"}
  MinEnvelope <- MCMinEnvelope
  MaxEnvelope <- MCMaxEnvelope
  Requires = {}
  None = none
  MaxRounds = 3
  MaxRoundNo = 3
  MaxSeals = 2
  MaxFaults = 0
CHECK_DEADLOCK FALSE
INVARIANT GateHoldsACross
