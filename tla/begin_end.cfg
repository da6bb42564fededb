SPECIFICATION Spec
CONSTANTS
  d = d
  o = o
  s1 = s1
  s2 = s2
  s3 = s3
  s4 = s4
  s5 = s5
  None = None
  Procs = {d}
  Daemons = {d}
  NoProc = None
  NoScan = None
  Files <- TwoFiles
  Scans = {s1, s2, s3, s4}
  Kind <- AllPages
  Serial <- Sheets
  Serials <- AllSerials
  First <- FirstOf
  UseDb = TRUE
  FreshNames = TRUE
  Events = {"locreate"}
  MaxEvents = 1
INVARIANT
  BeginEndBalanced
