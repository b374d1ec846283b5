SPECIFICATION LedgerSpec
CONSTANTS
  z = z
  a = a
  b = b
  Addr <- MCAddr
  Zero = z
  Deployer = a
  Contracts <- MCContracts
  Restricted <- MCRestricted
  Heirs = {}
  Grantees <- MCGrantees
  MaxUint = 5
  InitialSupply = 2
  TokenUnit = 2
  FrUnit = 1
  OwnerShare = 2
  MaxLevel = 3
  Spenders = {}
  Values = {1, 3}
  WorkPoints = {1}
  AdjustUnits = {1}
INVARIANTS
  SupplyBounds
  SupplyIsEarned
  TransferNeverOverflows
