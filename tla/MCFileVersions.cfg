SPECIFICATION Spec
CONSTANTS
  f1 = f1
  f2 = f2
  FileIds <- MCFileIds
  Procs = {p, q}
  Users = {u}
  Uploads = {x, y}
  PubKeys = {a}
  Throwaway = Throwaway
  None = None
  MaxTries = 2
  MaxMempool = 2
  MayFail = FALSE
SYMMETRY Symm
INVARIANTS
  NoMixedVersions
