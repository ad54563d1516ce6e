SPECIFICATION FairSpec
CONSTANTS
  i1 = i1  i2 = i2
  g1 = g1  g2 = g2
  acct = acct
  s1 = s1
  Intents = {i1, i2}
  Agents = {g1, g2}
  Accounts = {acct}
  Sweeps = {s1}
  AgentOf <- MCAgentOf
  AccountOf <- MCAccountOf
  Amount <- MCAmount
  Deposit <- MCDeposit
  SyncBalances = {1}
  MayRevoke = {g2}
  MaxTroubles = 1
CHECK_DEADLOCK FALSE
INVARIANTS
  TypeOK
  LockedIsReserved
  NoPhantomLock
  NoneStranded
PROPERTIES
  RowsSwept
  ReservationReturned
