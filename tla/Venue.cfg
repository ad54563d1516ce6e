SPECIFICATION Spec
CONSTANTS
  b1 = b1  b2 = b2  s1 = s1  s2 = s2  s3 = s3
  instA = instA  instB = instB  instC = instC
  usdc = usdc  wbtc = wbtc
  MaxWord = 100
  Intents = {b1, b2, s1, s2, s3}
  Institutions = {instA, instB, instC}
  Assets = {usdc, wbtc}
  Cash = usdc
  InstitutionOf <- MCInstitutionOf
  SideOf <- MCSideOf
  AssetOf <- MCAssetOf
  Quantity <- MCQuantity
  Limit <- MCLimit
  WireScale = 3
  Deposit <- MCDeposit
CHECK_DEADLOCK FALSE
INVARIANTS
  TypeOK
  OneTradePerOrder
  WithinReservation
  BooksBalance
