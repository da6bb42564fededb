---------------------------- MODULE MCScanDaemon ----------------------------
(***************************************************************************)
(* Instances of ScanDaemon for TLC.  A serial number is 10 * sheet + page, *)
(* page 0 being the first page of a sheet.                                 *)
(***************************************************************************)
EXTENDS ScanDaemon, TLC

CONSTANTS d, o,                \* a daemon and a one-shot run
          s1, s2, s3, s4, s5,  \* images
          None

Tif(n) == [base |-> n, ext |-> "tif"]
Jpg(n) == [base |-> n, ext |-> "jpg"]
TwoFiles   == {Tif(2), Jpg(1)}
ThreeFiles == {Tif(2), Tif(3), Jpg(1)}

AllSerials == {10, 11, 12, 20, 21}
FirstOf    == [n \in AllSerials |-> 10 * (n \div 10)]

(* What the images s1, s2, ... are, in order.                              *)
Assign(values) ==
  [s \in Scans |-> values[CHOOSE n \in 1..5 : s = <<s1, s2, s3, s4, s5>>[n]]]

AllPages    == [s \in Scans |-> "page"]
AllKinds    == Assign(<<"page", "corrupt", "lostbar", "undecoded", "nomarkers">>)
SomeCorrupt == Assign(<<"page", "page", "page", "corrupt">>)

(* A page, the same page again and the first page of its sheet.            *)
Duplicates  == Assign(<<11, 11, 10>>)
(* One sheet of three pages and one of two.                                *)
Sheets      == Assign(<<10, 11, 12, 20, 21>>)
=============================================================================
