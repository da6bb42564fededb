SPECIFICATION Spec
CONSTANTS
  d = d
  o = o
  s1 = s1
  s2 = s2
  s3 = s3
  s4 = s4
  s5 = s5
  None = None
  Procs = {d, o}
  Daemons = {d}
  NoProc = None
  NoScan = None
  Files <- TwoFiles
  Scans = {s1, s2, s3}
  Kind <- AllPages
  Serial <- Duplicates
  Serials <- AllSerials
  First <- FirstOf
  UseDb = TRUE
  FreshNames = FALSE
  Events = {"crash", "lost", "query", "locreate", "lowrite", "begin", "commit"}
  MaxEvents = 1
INVARIANTS
  TypeOK
  OneWorker
  UniqueSerial
  IndInv
PROPERTY
  ImplementsRegistry
