SPECIFICATION Spec
CONSTANTS
  f1 = f1
  f2 = f2
  FileIds <- MCOneId
  Procs = {p, q}
  Users = {u}
  Uploads = {x}
  PubKeys = {a}
  Throwaway = Throwaway
  None = None
  MaxTries = 2
  MaxMempool = 2
  MayFail = FALSE
INVARIANTS
  SealedForItsOwner
