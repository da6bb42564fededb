SPECIFICATION FairSpec
CONSTANTS
  d = d
  o = o
  s1 = s1
  s2 = s2
  s3 = s3
  s4 = s4
  s5 = s5
  None = None
  Procs = {d, o}
  Daemons = {d}
  NoProc = None
  NoScan = None
  Files <- TwoFiles
  Scans = {s1, s2, s3, s4, s5}
  Kind <- AllKinds
  Serial <- Sheets
  Serials <- AllSerials
  First <- FirstOf
  UseDb = FALSE
  FreshNames = TRUE
  Events = {"crash", "disk", "rename", "partial"}
  MaxEvents = 1
PROPERTIES
  NoScanLost
  OneShotEnds
