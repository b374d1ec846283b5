SPECIFICATION ReliabilitySpec
CONSTANTS
  z = z
  a = a
  b = b
  Addr <- MCAddr
  Zero = z
  Deployer = a
  Contracts <- MCContracts
  Restricted <- MCRestricted
  Heirs = {}
  Grantees = {"HolonusCoinService"}
  MaxUint = 5
  MaxLevel = 2
  RelUnit = 2
  TrustUnit = 1
  Evaluations <- MCEvaluations
  Trusts <- MCTrusts
  Grants = {0, 4}
INVARIANTS
  RelTypeOK
  ReliabilityIsAccounted
  TakeBackNeverFails
  ListsAgree
