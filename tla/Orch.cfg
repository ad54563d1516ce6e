SPECIFICATION FairSpec
CONSTANTS
  b1 = b1  s1 = s1  s2 = s2
  instA = instA  instB = instB  instC = instC
  g1 = g1  g2 = g2  g3 = g3
  usdc = usdc  wbtc = wbtc
  MaxWord = 100
  Intents = {b1, s1, s2}
  Institutions = {instA, instB, instC}
  Assets = {usdc, wbtc}
  Cash = usdc
  InstitutionOf <- MCInstitutionOf
  SideOf <- MCSideOf
  AssetOf <- MCAssetOf
  Quantity <- MCQuantity
  Limit <- MCLimit
  WireScale = 4
  Agents = {g1, g2, g3}
  AgentOf <- MCAgentOf
  Scoped = {b1, s1, s2}
  MaxNotional <- MCMaxNotional
  Deposit <- MCTightDeposit
  ReportsLocks = TRUE
  DeletesFail = FALSE
  MayExpire = {s1}
  MayCancel = {s1}
  MayRevoke = {g2}
  MaxFaults = 1
CHECK_DEADLOCK FALSE
INVARIANTS
  TypeOK
  NoPhantomLock
  EveryPairTried
PROPERTIES
  ImplementsVenue
  CallReturns
  CallAdvances
  RevokedNeverTrades
