SPECIFICATION Spec
CONSTANTS
  k1 = k1
  k2 = k2
  k3 = k3
  KeyIds <- MCKeyIds
  Procs = {p}
  Users = {u, v}
  PubKeys = {a}
  None = None
  MaxTries = 2
  MaxMempool = 2
SYMMETRY Symm
INVARIANTS
  OnlyTheNamedKey
