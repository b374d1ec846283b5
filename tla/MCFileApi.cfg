SPECIFICATION FairSpec
CONSTANTS
  f1 = f1
  f2 = f2
  FileIds <- MCFileIds
  Procs = {p, q}
  Users = {u}
  Uploads = {x}
  PubKeys = {a}
  Throwaway = Throwaway
  None = None
  MaxTries = 2
  MaxMempool = 1
  MayFail = TRUE
INVARIANTS
  TypeOK
  StoredFileIsComplete
  ReadNeverDangles

PROPERTIES
  EveryRequestIsAnswered
