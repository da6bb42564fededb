------------------------------ MODULE OchiState ------------------------------
(***************************************************************************)
(* The program ochi: every process that runs it, the spool directories,    *)
(* the result directory and the database they share.  One step of the      *)
(* model is what the program does between two effects that another         *)
(* process, a crash or a reader of the disk or of the database can see.    *)
(***************************************************************************)
EXTENDS Pola, FiniteSets

CONSTANTS
  Procs,       \* processes that may run the program
  Daemons,     \* those of them started as daemons (-d, or daemon=true)
  NoProc,      \* holder of the lock while nobody holds it
  Files,       \* file names of scan_directory: a base name and an extension
  Scans,       \* the scanned images
  NoScan,      \* no image: the file does not exist
  Kind,        \* Kind[s]: what the recognition makes of image s
  Serial,      \* Serial[s]: the serial number in the barcode of s
  Serials,     \* all serial numbers
  First,       \* First[s]: the serial of the first page of the same sheet
  UseDb,       \* use_database of ochi.conf
  FreshNames,  \* the scanner never uses a file name again
  Events,      \* the failures this instance admits
  MaxEvents    \* bound: how many failures happen in a behaviour

Kinds == {"corrupt",     \* loadimage cannot read it
          "nobarcode",   \* getCode finds no barcode in either orientation
          "lostbar",     \* found in the repaired image but not decoded, and
                         \* not found at all in the original one
          "undecoded",   \* found, but never decoded
          "nomarkers",   \* a page without upper or without right markers
          "page"}        \* a page

(* What process_scans goes on with once it has a barcode; "cut" is a page   *)
(* of which the scanner has not yet written the lower part.                 *)
Pages == {"nomarkers", "page", "cut"}

AllEvents == {"connect",  \* a connection to the database is refused
              "lost",     \* a connection breaks
              "query",    \* a statement outside begin-end fails
              "begin",    \* the statement "begin" fails
              "locreate", \* lo_creat fails
              "lowrite",  \* lo_open or lo_write fails
              "commit",   \* the server refuses to commit at "end"
              "disk",     \* fopen, fclose or pixWrite fails
              "rename",   \* rename fails
              "crash",    \* the process dies (SIGTERM, SIGKILL); the
                          \* machine goes on: nothing is ever fsynced, so
                          \* a power failure may cost what was closed
              "partial"}  \* the scanner is seen in the middle of a write

ASSUME ProcAssumption == Daemons \subseteq Procs /\ NoProc \notin Procs
ASSUME FileAssumption ==
  Files \subseteq [base : Nat, ext : {"tif", "jpg"}]
ASSUME ScanAssumption ==
  NoScan \notin Scans /\ Kind \in [Scans -> Kinds] /\ Serial \in [Scans -> Serials]
ASSUME SerialAssumption ==
  First \in [Serials -> Serials] /\ \A s \in Serials : First[First[s]] = First[s]
ASSUME EnvAssumption ==
  /\ UseDb \in BOOLEAN /\ FreshNames \in BOOLEAN
  /\ Events \subseteq AllEvents /\ MaxEvents \in Nat

VARIABLES
  pc,         \* where each process is
  lock,       \* holder of the lock on /var/lock/ochi
  job,        \* local variables of each process, see Job
  conn,       \* database connection of each process
  input,      \* scan_directory
  processed,  \* processed_directory
  partial,    \* files the scanner has not finished writing
  results,    \* result files of output_dir, by base name and extension
  png,        \* scaled pictures of output_dir, by base name
  pola,       \* table pola
  blobs,      \* large objects: the object with oid n is blobs[n]
  ignored,    \* history: the images in whose insertion "begin", lo_write or
              \* "end" failed, whose results db_insert_blob does not look at
  budget      \* failures still to come

procVars == <<pc, lock, job, conn>>
diskVars == <<input, processed, partial, results, png>>
dbVars   == <<pola, blobs, ignored>>
vars     == <<pc, lock, job, conn, input, processed, partial, results, png,
              pola, blobs, ignored, budget>>

-----------------------------------------------------------------------------
(* State                                                                   *)

Bases == {f.base : f \in Files}
Exts  == {"rez", "war"}

(* The verdict in column debug of a row: "err" where the file says "war".  *)
Debugs == {"rez", "err"}
DebugOf(e) == IF e = "war" THEN "err" ELSE "rez"

(* A file of output_dir or a large object: the image it was made from and  *)
(* whether all of it was written.                                          *)
Contents == [of : Scans \cup {NoScan}, whole : BOOLEAN]
Absent   == [of |-> NoScan, whole |-> FALSE]
Torn(s)  == [of |-> s, whole |-> FALSE]
Whole(s) == [of |-> s, whole |-> TRUE]
Made(s, seen) == [of |-> s, whole |-> seen # "cut"]

Rows == [ser_st : Serials, first_ser_st : Serials, first_id : Nat,
         image : Nat, debug : Debugs]

(* What process_scans and the functions it calls keep while they work: the *)
(* files of the list still to do, the file in work, the image in memory,   *)
(* how much of the page is in it, the extension its certainty asks for, the *)
(* large object and its content.                                           *)
Jobs == [todo : SUBSET Files, file : Files \cup {NoScan}, scan : Scans \cup {NoScan},
         seen : Pages, ext : Exts, oid : Nat, image : Contents]
Job(todo) == [todo |-> todo, file |-> NoScan, scan |-> NoScan, seen |-> "page",
              ext |-> "rez", oid |-> 0, image |-> Absent]

Dead     == {"off", "segv"}
Starting == {"main", "lock"}
Scanning == {"list", "connect", "load", "quarantine", "result", "text", "png",
             "rename"}
Storing  == {"begin", "creat", "write", "end", "insert"}
Labels   == Dead \cup Starting \cup Scanning \cup Storing
              \cup {"presence", "link", "sleep"}
ConnStates == {"none", "idle", "open", "aborted", "lost"}

(* Past lock_file: the processes that may touch the disk or the database.  *)
Working(p) == pc[p] \notin Dead \cup Starting

TypeOK ==
  /\ pc \in [Procs -> Labels]
  /\ lock \in Procs \cup {NoProc}
  /\ job \in [Procs -> Jobs]
  /\ conn \in [Procs -> ConnStates]
  /\ input \in [Files -> Scans \cup {NoScan}]
  /\ processed \in [Files -> Scans \cup {NoScan}]
  /\ partial \subseteq Files
  /\ results \in [Bases -> [Exts -> Contents]]
  /\ png \in [Bases -> Contents]
  /\ pola \in Seq(Rows)
  /\ blobs \in Seq(Contents)
  /\ ignored \subseteq Scans
  /\ budget \in Nat

Init ==
  /\ pc = [p \in Procs |-> "off"]
  /\ lock = NoProc
  /\ job = [p \in Procs |-> Job({})]
  /\ conn = [p \in Procs |-> "none"]
  /\ input = [f \in Files |-> NoScan]
  /\ processed = [f \in Files |-> NoScan]
  /\ partial = {}
  /\ results = [b \in Bases |-> [e \in Exts |-> Absent]]
  /\ png = [b \in Bases |-> Absent]
  /\ pola = << >>
  /\ blobs = << >>
  /\ ignored = {}
  /\ budget = MaxEvents

-----------------------------------------------------------------------------
(* Building blocks                                                         *)

At(p, l)   == pc[p] = l
Goto(p, l) == pc' = [pc EXCEPT ![p] = l]

Calm       == UNCHANGED budget
Failure(e) == e \in Events /\ budget > 0 /\ budget' = budget - 1

(* The process is gone: the kernel drops its lock, the server its session. *)
Die(p, how) ==
  /\ Goto(p, how)
  /\ lock' = IF lock = p THEN NoProc ELSE lock
  /\ job' = [job EXCEPT ![p] = Job({})]
  /\ conn' = [conn EXCEPT ![p] = "none"]

(* process_scans returns, connection closed: a daemon sleeps, a one-shot   *)
(* run exits.                                                              *)
EndPass(p) ==
  \/ /\ p \in Daemons
     /\ Goto(p, "sleep")
     /\ job' = [job EXCEPT ![p] = Job({})]
     /\ conn' = [conn EXCEPT ![p] = "none"]
     /\ UNCHANGED lock
  \/ /\ p \notin Daemons
     /\ Die(p, "off")

(* Back to the head of the loop of process_scans.                          *)
NextFile(p) ==
  /\ Goto(p, "load")
  /\ job' = [job EXCEPT ![p] = Job(@.todo)]

(* The order of the list: glob sorts the *.tif names, list_files appends   *)
(* the sorted *.jpg names.                                                 *)
Precedes(f, g) ==
  \/ f.ext = "tif" /\ g.ext = "jpg"
  \/ f.ext = g.ext /\ f.base < g.base

(* Process p is at the head of the loop and f is the next file of its list.*)
AtFile(p, f) ==
  /\ At(p, "load")
  /\ f \in job[p].todo
  /\ \A g \in job[p].todo \ {f} : Precedes(f, g)

(* What the recognition makes of file f.  One that is gone cannot be read.  *)
(* Whether a picture is complete is not asked, and the barcode stands in    *)
(* its top tenth: one the scanner has not finished may look like anything,  *)
(* also like a page of which the lower part is missing.                     *)
Looks(f) ==
  IF input[f] = NoScan THEN {"corrupt"}
  ELSE IF f \in partial /\ Kind[input[f]] # "corrupt" THEN Kinds \cup {"cut"}
  ELSE {Kind[input[f]]}

IsFirstPage(s) == First[Serial[s]] = Serial[s]

(* The extension of the result file.  The certainty of a student number is *)
(* read from freed memory, so it may fall on either side of                *)
(* SID_MIN_CERTAINTY; the pages that carry none are always certain.        *)
ExtsOf(s) == IF IsFirstPage(s) THEN Exts ELSE {"rez"}
=============================================================================
