SPECIFICATION HolonusCoinSpec
CONSTANTS
  z = z
  a = a
  b = b
  Addr <- MCAddr
  Zero = z
  Deployer = a
  Contracts <- MCContracts
  Restricted <- MCRestricted
  Heirs = {}
  Grantees = {"TokenERC20", "HolonusCoinService"}
  MaxUint = 6
  MaxLevel = 3
  InitialSupply = 2
  TokenUnit = 2
  FrUnit = 1
  OwnerShare = 2
  Spenders = {}
  Values = {2}
  WorkPoints = {1}
  AdjustUnits = {}
  RelUnit = 1
  TrustUnit = 1
  Evaluations <- MCEvaluations
  Trusts = {1}
  Grants = {4}
PROPERTIES
  LedgerOfTheService
