SPECIFICATION LedgerSpec
CONSTANTS
  z = z
  a = a
  b = b
  Addr <- MCAddr
  Zero = z
  Deployer = a
  Contracts <- MCContracts
  Restricted <- MCRestricted
  Heirs = {b}
  Grantees <- MCGrantees
  MaxUint = 3
  InitialSupply = 2
  TokenUnit = 2
  FrUnit = 1
  OwnerShare = 2
  MaxLevel = 3
  Spenders = {b}
  Values = {1}
  WorkPoints = {1}
  AdjustUnits = {}
INVARIANTS
  LedgerTypeOK
PROPERTIES
  SupplySpec
