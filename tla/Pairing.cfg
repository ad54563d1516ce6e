SPECIFICATION Spec
CONSTANTS
  b1 = b1  b2 = b2  b3 = b3  s1 = s1  s2 = s2
  instA = instA  instB = instB  instC = instC
  wbtc = wbtc  kyc = kyc  bad = bad
  Tickets = {b1, b2, b3, s1, s2}
  Institutions = {instA, instB, instC}
  Assets = {wbtc}
  Claims = {kyc}
  Malformed = bad
  Profiled = {b1, b2, b3, s1, s2}
  Partial = {}
  MaxFaults = 1
  InstitutionOf <- MCInstitutionOf
  SideOf <- MCSideOf
  AssetOf <- MCAssetOf
  TokenOf <- MCTokenOf
  Target <- MCTarget
  Minimum <- MCMinimum
  Ladder <- MCLadder
  Disallowed <- MCDisallowed
CHECK_DEADLOCK FALSE
INVARIANTS
  SessionsAreVerified
  UsedOnce
  NoneForgotten
  NoMissedPair
