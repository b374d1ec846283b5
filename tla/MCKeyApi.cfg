SPECIFICATION FairSpec
CONSTANTS
  k1 = k1
  k2 = k2
  k3 = k3
  KeyIds <- MCTwoIds
  Procs = {p, q}
  Users = {u}
  PubKeys = {a}
  None = None
  MaxTries = 2
  MaxMempool = 2
INVARIANTS
  TypeOK
  RegisteredKeyIsOnChain
  KeysIdNamesAKey
PROPERTIES
  EveryRequestIsAnswered
