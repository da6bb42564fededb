SPECIFICATION Spec
CONSTANTS
  d = d
  o = o
  s1 = s1
  s2 = s2
  s3 = s3
  s4 = s4
  s5 = s5
  None = None
  Procs = {d}
  Daemons = {d}
  NoProc = None
  NoScan = None
  Files <- ThreeFiles
  Scans = {s1, s2, s3}
  Kind <- AllPages
  Serial <- Duplicates
  Serials <- AllSerials
  First <- FirstOf
  UseDb = TRUE
  FreshNames = TRUE
  Events = {"crash", "lost", "connect", "query", "locreate",
            "begin", "lowrite", "commit"}
  MaxEvents = 2
INVARIANTS
  ProcessedHasResult
  RowBacked
PROPERTY
  ResultStable
