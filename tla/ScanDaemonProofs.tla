-------------------------- MODULE ScanDaemonProofs --------------------------
(***************************************************************************)
(* Proofs about ScanDaemon for any processes, files, images, serials and   *)
(* failures.                                                               *)
(***************************************************************************)
EXTENDS ScanDaemon, FiniteSetTheorems, TLAPS

(* The links an UPDATE makes change neither the number of the rows nor any *)
(* serial number, and the table stays well typed (database.c:106).         *)
LEMMA LinkKeepsRows ==
  ASSUME NEW t \in Seq(Rows)
  PROVE  /\ Link(t) \in Seq(Rows)
         /\ DOMAIN Link(t) = DOMAIN t
         /\ \A i \in DOMAIN t : Link(t)[i].ser_st = t[i].ser_st
<1>1. t \in [1..Len(t) -> Rows] /\ DOMAIN t = 1..Len(t) /\ Len(t) \in Nat
  OBVIOUS
<1>2. ASSUME NEW s, Present(t, s)
      PROVE  RowOf(t, s) \in Nat
  BY <1>1, <1>2 DEF Present, RowOf
<1>3. \A i \in DOMAIN t : Link(t)[i] \in Rows /\ Link(t)[i].ser_st = t[i].ser_st
  <2> SUFFICES ASSUME NEW i \in DOMAIN t
               PROVE  Link(t)[i] \in Rows /\ Link(t)[i].ser_st = t[i].ser_st
    OBVIOUS
  <2>1. t[i] \in Rows
    BY <1>1
  <2>2. CASE t[i].first_id = NoRow /\ Present(t, t[i].first_ser_st)
    <3>1. Link(t)[i] = [t[i] EXCEPT !.first_id = RowOf(t, t[i].first_ser_st)]
      BY <2>2 DEF Link
    <3>2. RowOf(t, t[i].first_ser_st) \in Nat
      BY <1>2, <2>2
    <3> QED
      BY <2>1, <3>1, <3>2 DEF Rows
  <2>3. CASE ~(t[i].first_id = NoRow /\ Present(t, t[i].first_ser_st))
    BY <2>1, <2>3 DEF Link
  <2> QED
    BY <2>2, <2>3
<1>4. DOMAIN Link(t) = 1..Len(t) /\ Link(t) = [i \in 1..Len(t) |-> Link(t)[i]]
  BY <1>1 DEF Link
<1>5. Link(t) \in [1..Len(t) -> Rows]
  BY <1>1, <1>3, <1>4
<1>6. Link(t) \in Seq(Rows)
  BY <1>1, <1>5
<1> QED
  BY <1>1, <1>3, <1>4, <1>6

-----------------------------------------------------------------------------
(* A picture has a place in output_dir for every file.                     *)
LEMMA BaseOfFile == \A f \in Files : f.base \in Bases
  BY DEF Bases

LEMMA InitInv == Init => IndInv
<1> SUFFICES ASSUME Init PROVE IndInv
  OBVIOUS
<1> USE DEF Init
<1>1. TypeOK
  BY EnvAssumption DEF TypeOK, Labels, Dead, Jobs, Job, Pages, Contents, Absent,
     Exts, ConnStates
<1>2. JobOK /\ LockHeld /\ AbsentWhileStoring
  BY DEF JobOK, HasFile, HasScan, Storing, LockHeld, Working, Dead,
     AbsentWhileStoring
<1>3. UniqueSerial
  BY DEF UniqueSerial
<1> QED
  BY <1>1, <1>2, <1>3 DEF IndInv

(* Where a step may take a process and what it may do to its local         *)
(* variables: the cases of Die, EndPass and NextFile.                      *)
LEMMA EndPassCases ==
  ASSUME NEW p \in Procs, TypeOK, EndPass(p)
  PROVE  /\ \E l \in {"sleep", "off"} : pc' = [pc EXCEPT ![p] = l]
         /\ job' = [job EXCEPT ![p] = Job({})]
         /\ conn' = [conn EXCEPT ![p] = "none"]
         /\ lock' \in {lock, NoProc}
         /\ \A q \in Procs \ {p} : lock = q => lock' = q
         /\ pc'[p] = "sleep" => lock' = lock
  BY DEF EndPass, Die, Goto, TypeOK

LEMMA JobTyped == \A t \in SUBSET Files : Job(t) \in Jobs /\ Job(t).todo = t
  BY DEF Job, Jobs, Pages, Exts, Contents, Absent

-----------------------------------------------------------------------------
(* Mutual exclusion: a process gets past lock_file only while nobody holds *)
(* the lock, and whoever leaves gives it back.                             *)
LEMMA LockStep == TypeOK /\ LockHeld /\ [Next]_vars => LockHeld'
<1> SUFFICES ASSUME TypeOK, LockHeld, [Next]_vars, NEW q \in Procs, Working(q)'
             PROVE  lock' = q
  BY DEF LockHeld
<1> USE DEF Working, Dead, Starting
<1>w. Working(q) => lock = q
  BY DEF LockHeld
<1>t. pc \in [Procs -> Labels] /\ NoProc \notin Procs
  BY ProcAssumption DEF TypeOK
<1>1. ASSUME NEW f \in Files, NEW s \in Scans, Arrive(f, s) PROVE lock' = q
  BY <1>1, <1>w DEF Arrive, procVars
<1>2. ASSUME NEW f \in Files, FinishWriting(f) PROVE lock' = q
  BY <1>2, <1>w DEF FinishWriting, procVars
<1>3. ASSUME NEW p \in Procs, Start(p) PROVE lock' = q
  BY <1>3, <1>t, <1>w DEF Start, Goto
<1>4. ASSUME NEW p \in Procs, Crash(p) PROVE lock' = q
  BY <1>4, <1>t, <1>w DEF Crash, Die, Goto
<1>5. ASSUME NEW p \in Procs, DropConnection(p) PROVE lock' = q
  BY <1>5, <1>w DEF DropConnection
<1>6. ASSUME NEW p \in Procs, Step(p) PROVE lock' = q
  <2>1. CASE TestDbConnection(p)
    BY <2>1, <1>t, <1>w DEF TestDbConnection, Goto, Die
  <2>2. CASE LockFile(p)
    BY <2>2, <1>t, <1>w DEF LockFile, At, Goto, Die
  <2>3. CASE ListFiles(p)
    BY <2>3, <1>t, <1>w, EndPassCases DEF ListFiles, At, Goto, LockHeld
  <2>4. CASE ConnectDb(p)
    BY <2>4, <1>t, <1>w, EndPassCases DEF ConnectDb, At, Goto, LockHeld
  <2>5. CASE LoadFails(p)
    BY <2>5, <1>t, <1>w, EndPassCases DEF LoadFails, AtFile, At, LockHeld
  <2>6. CASE NoBarcode(p)
    BY <2>6, <1>t, <1>w DEF NoBarcode
  <2>7. CASE LoseBarcode(p)
    BY <2>7, <1>t, <1>w DEF LoseBarcode, Goto, Die, AtFile, At
  <2>8. CASE Undecoded(p)
    BY <2>8, <1>t, <1>w DEF Undecoded, Goto, AtFile, At
  <2>9. CASE Recognise(p)
    BY <2>9, <1>t, <1>w DEF Recognise, Goto, AtFile, At
  <2>10. CASE FinishPass(p)
    BY <2>10, <1>t, <1>w, EndPassCases DEF FinishPass, At, LockHeld
  <2>11. CASE Wake(p)
    BY <2>11, <1>t, <1>w DEF Wake, At, Goto, NextFile
  <2>12. CASE MoveFileToQuarantine(p)
    BY <2>12, <1>t, <1>w DEF MoveFileToQuarantine, At, Goto, Die, NextFile
  <2>13. CASE OpenResult(p)
    BY <2>13, <1>t, <1>w DEF OpenResult, At, Goto, Die
  <2>14. CASE WriteText(p)
    BY <2>14, <1>t, <1>w DEF WriteText, At, Goto, Die
  <2>15. CASE SavePng(p)
    BY <2>15, <1>t, <1>w DEF SavePng, At, Goto, NextFile
  <2>16. CASE RenameSource(p)
    BY <2>16, <1>t, <1>w DEF RenameSource, At, Goto, NextFile
  <2>17. CASE CheckScanPresence(p)
    BY <2>17, <1>t, <1>w DEF CheckScanPresence, At, Goto, NextFile
  <2>18. CASE BeginBlob(p)
    BY <2>18, <1>t, <1>w DEF BeginBlob, At, Goto, NextFile
  <2>19. CASE CreateBlob(p)
    BY <2>19, <1>t, <1>w DEF CreateBlob, At, Goto, NextFile
  <2>20. CASE WriteBlob(p)
    BY <2>20, <1>t, <1>w DEF WriteBlob, At, Goto, NextFile
  <2>21. CASE EndBlob(p)
    BY <2>21, <1>t, <1>w DEF EndBlob, At, Goto, NextFile
  <2>22. CASE InsertScan(p)
    BY <2>22, <1>t, <1>w DEF InsertScan, At, Goto, NextFile
  <2>23. CASE LinkFirst(p)
    BY <2>23, <1>t, <1>w DEF LinkFirst, At, Goto, NextFile
  <2> QED
    BY <1>6, <2>1, <2>2, <2>3, <2>4, <2>5, <2>6, <2>7, <2>8, <2>9, <2>10,
       <2>11, <2>12, <2>13, <2>14, <2>15, <2>16, <2>17, <2>18, <2>19, <2>20,
       <2>21, <2>22, <2>23 DEF Step
<1>7. CASE UNCHANGED vars
  BY <1>7, <1>w DEF vars
<1> QED
  BY <1>1, <1>2, <1>3, <1>4, <1>5, <1>6, <1>7 DEF Next, Environment

(* OneWorker is what LockHeld says of two processes.                       *)
LEMMA LockExcludes == LockHeld => OneWorker
  BY DEF LockHeld, OneWorker

-----------------------------------------------------------------------------
(* Type correctness, one group of variables after the other.  First the    *)
(* program counters, the lock and the connections.                         *)
LEMMA ProcTypeStep ==
  ASSUME TypeOK, [Next]_vars
  PROVE  /\ pc' \in [Procs -> Labels]
         /\ lock' \in Procs \cup {NoProc}
         /\ conn' \in [Procs -> ConnStates]
<1> DEFINE Goal == /\ pc' \in [Procs -> Labels]
                   /\ lock' \in Procs \cup {NoProc}
                   /\ conn' \in [Procs -> ConnStates]
<1>t. /\ pc \in [Procs -> Labels]
      /\ lock \in Procs \cup {NoProc}
      /\ conn \in [Procs -> ConnStates]
  BY DEF TypeOK
<1> USE DEF Labels, Dead, Starting, Scanning, Storing, ConnStates
<1>1. ASSUME NEW f \in Files, NEW s \in Scans, Arrive(f, s) PROVE Goal
  BY <1>1, <1>t DEF Arrive, procVars
<1>2. ASSUME NEW f \in Files, FinishWriting(f) PROVE Goal
  BY <1>2, <1>t DEF FinishWriting, procVars
<1>3. ASSUME NEW p \in Procs, Start(p) \/ Crash(p) \/ DropConnection(p) PROVE Goal
  BY <1>3, <1>t DEF Start, Crash, DropConnection, Die, Goto
<1>4. ASSUME NEW p \in Procs, Step(p) PROVE Goal
  <2>1. CASE ListFiles(p) \/ ConnectDb(p) \/ LoadFails(p) \/ FinishPass(p)
    BY <2>1, <1>t, EndPassCases DEF ListFiles, ConnectDb, LoadFails,
       FinishPass, At, Goto
  <2>2. CASE TestDbConnection(p) \/ LockFile(p) \/ LoseBarcode(p)
    BY <2>2, <1>t DEF TestDbConnection, LockFile, LoseBarcode, At, Goto, Die
  <2>3. CASE MoveFileToQuarantine(p) \/ OpenResult(p) \/ WriteText(p)
    BY <2>3, <1>t DEF MoveFileToQuarantine, OpenResult, WriteText, At, Goto,
       Die, NextFile
  <2>4. CASE NoBarcode(p) \/ Undecoded(p) \/ Recognise(p) \/ Wake(p)
             \/ SavePng(p) \/ RenameSource(p)
    BY <2>4, <1>t DEF NoBarcode, Undecoded, Recognise, Wake, SavePng,
       RenameSource, At, Goto, NextFile
  <2>5. CASE CheckScanPresence(p) \/ BeginBlob(p) \/ CreateBlob(p)
             \/ WriteBlob(p) \/ EndBlob(p) \/ InsertScan(p) \/ LinkFirst(p)
    BY <2>5, <1>t DEF CheckScanPresence, BeginBlob, CreateBlob, WriteBlob,
       EndBlob, InsertScan, LinkFirst, At, Goto, NextFile
  <2> QED
    BY <1>4, <2>1, <2>2, <2>3, <2>4, <2>5 DEF Step
<1>5. CASE UNCHANGED vars
  BY <1>5, <1>t DEF vars
<1> QED
  BY <1>1, <1>2, <1>3, <1>4, <1>5 DEF Next, Environment

(* The directories: only five steps of the program write them.             *)
LEMMA DiskTypeStep ==
  ASSUME TypeOK, JobOK, [Next]_vars
  PROVE  /\ input' \in [Files -> Scans \cup {NoScan}]
         /\ processed' \in [Files -> Scans \cup {NoScan}]
         /\ partial' \subseteq Files
         /\ results' \in [Bases -> [Exts -> Contents]]
         /\ png' \in [Bases -> Contents]
<1> DEFINE Goal == /\ input' \in [Files -> Scans \cup {NoScan}]
                   /\ processed' \in [Files -> Scans \cup {NoScan}]
                   /\ partial' \subseteq Files
                   /\ results' \in [Bases -> [Exts -> Contents]]
                   /\ png' \in [Bases -> Contents]
<1>t. /\ input \in [Files -> Scans \cup {NoScan}]
      /\ processed \in [Files -> Scans \cup {NoScan}]
      /\ partial \subseteq Files
      /\ results \in [Bases -> [Exts -> Contents]]
      /\ png \in [Bases -> Contents]
  BY DEF TypeOK
<1> USE DEF diskVars
<1>1. ASSUME NEW f \in Files, NEW s \in Scans, Arrive(f, s) PROVE Goal
  BY <1>1, <1>t DEF Arrive
<1>2. ASSUME NEW f \in Files, FinishWriting(f) PROVE Goal
  BY <1>2, <1>t DEF FinishWriting
<1>3. ASSUME NEW p \in Procs, Start(p) \/ Crash(p) \/ DropConnection(p) PROVE Goal
  BY <1>3, <1>t DEF Start, Crash, DropConnection
<1>4. ASSUME NEW p \in Procs, Step(p) PROVE Goal
  <2>a. At(p, "quarantine") \/ At(p, "rename") => input[job[p].file] \in Scans \cup {NoScan}
    BY <1>t DEF At, JobOK, HasFile, HasScan
  <2>b. At(p, "result") \/ At(p, "text") \/ At(p, "png") => job[p].scan \in Scans
    BY DEF At, JobOK, HasFile, HasScan
  <2>c. \A s \in Scans : /\ Torn(s) \in Contents
                         /\ \A k : Made(s, k) \in Contents
    BY DEF Made, Torn, Contents
  <2>r. OpenResult(p) \/ WriteText(p) => results' \in [Bases -> [Exts -> Contents]]
    <3>1. CASE OpenResult(p)
      <4>1. \/ results' = [results EXCEPT ![job[p].file.base][job[p].ext]
                                        = Torn(job[p].scan)]
            \/ results' = results
        BY <3>1 DEF OpenResult
      <4>2. Torn(job[p].scan) \in Contents
        BY <3>1, <2>b, <2>c DEF OpenResult
      <4>3. [results EXCEPT ![job[p].file.base][job[p].ext] = Torn(job[p].scan)]
              \in [Bases -> [Exts -> Contents]]
        BY <4>2, <1>t
      <4> QED
        BY <4>1, <4>3, <1>t
    <3>2. CASE WriteText(p)
      <4>1. \/ results' = [results EXCEPT ![job[p].file.base][job[p].ext]
                                        = Made(job[p].scan, job[p].seen)]
            \/ results' = results
        BY <3>2 DEF WriteText
      <4>2. Made(job[p].scan, job[p].seen) \in Contents
        BY <3>2, <2>b, <2>c DEF WriteText
      <4>3. [results EXCEPT ![job[p].file.base][job[p].ext]
                          = Made(job[p].scan, job[p].seen)]
              \in [Bases -> [Exts -> Contents]]
        BY <4>2, <1>t
      <4> QED
        BY <4>1, <4>3, <1>t
    <3> QED
      BY <3>1, <3>2
  <2>1. CASE MoveFileToQuarantine(p) \/ RenameSource(p)
    BY <2>1, <1>t, <2>a DEF MoveFileToQuarantine, RenameSource,
       MoveToProcessed, At
  <2>2. CASE OpenResult(p)
    BY <2>2, <1>t, <2>r DEF OpenResult, At
  <2>3. CASE WriteText(p)
    BY <2>3, <1>t, <2>r DEF WriteText, At
  <2>4. CASE SavePng(p)
    BY <2>4, <1>t, <2>b, <2>c DEF SavePng, At
  <2>5. CASE TestDbConnection(p) \/ LockFile(p) \/ ListFiles(p)
             \/ ConnectDb(p) \/ LoadFails(p) \/ NoBarcode(p)
             \/ LoseBarcode(p) \/ Undecoded(p) \/ Recognise(p)
    BY <2>5, <1>t DEF TestDbConnection, LockFile, ListFiles, ConnectDb,
       LoadFails, NoBarcode, LoseBarcode, Undecoded, Recognise
  <2>6. CASE FinishPass(p) \/ Wake(p) \/ CheckScanPresence(p) \/ BeginBlob(p)
             \/ CreateBlob(p) \/ WriteBlob(p) \/ EndBlob(p) \/ InsertScan(p)
             \/ LinkFirst(p)
    BY <2>6, <1>t DEF FinishPass, Wake, CheckScanPresence, BeginBlob,
       CreateBlob, WriteBlob, EndBlob, InsertScan, LinkFirst
  <2> QED
    BY <1>4, <2>1, <2>2, <2>3, <2>4, <2>5, <2>6 DEF Step
<1>5. CASE UNCHANGED vars
  BY <1>5, <1>t DEF vars
<1> QED
  BY <1>1, <1>2, <1>3, <1>4, <1>5 DEF Next, Environment

(* The tables and the count of the failures.                               *)
LEMMA DbTypeStep ==
  ASSUME TypeOK, JobOK, [Next]_vars
  PROVE  /\ pola' \in Seq(Rows) /\ blobs' \in Seq(Contents)
         /\ ignored' \subseteq Scans /\ budget' \in Nat
<1> DEFINE Goal == /\ pola' \in Seq(Rows) /\ blobs' \in Seq(Contents)
                   /\ ignored' \subseteq Scans /\ budget' \in Nat
<1>t. /\ pola \in Seq(Rows) /\ blobs \in Seq(Contents)
      /\ ignored \subseteq Scans /\ budget \in Nat
  BY DEF TypeOK
<1>b. \A e : Calm \/ Failure(e) => budget' \in Nat
  BY <1>t DEF Calm, Failure
<1> USE DEF dbVars
<1>1. ASSUME NEW f \in Files, NEW s \in Scans, Arrive(f, s) PROVE Goal
  BY <1>1, <1>t, <1>b DEF Arrive
<1>2. ASSUME NEW f \in Files, FinishWriting(f) PROVE Goal
  BY <1>2, <1>t DEF FinishWriting
<1>3. ASSUME NEW p \in Procs, Start(p) \/ Crash(p) \/ DropConnection(p) PROVE Goal
  BY <1>3, <1>t, <1>b DEF Start, Crash, DropConnection
<1>4. ASSUME NEW p \in Procs, Step(p) PROVE Goal
  <2>a. ASSUME At(p, "insert") PROVE RowFor(job[p]) \in Rows
    <3>1. job[p] \in Jobs /\ job[p].scan \in Scans
      BY <2>a DEF At, JobOK, HasFile, HasScan, Storing, TypeOK
    <3>2. job[p].oid \in Nat
      BY <3>1 DEF Jobs
    <3> QED
      BY <3>1, <3>2, ScanAssumption, SerialAssumption
         DEF RowFor, Rows, Debugs, DebugOf, NoRow
  <2>b. [blobs EXCEPT ![job[p].oid] = job[p].image] \in Seq(Contents)
    <3>1. job[p].image \in Contents
      BY DEF TypeOK, Jobs
    <3>2. blobs \in [1..Len(blobs) -> Contents] /\ Len(blobs) \in Nat
      BY <1>t
    <3>3. [blobs EXCEPT ![job[p].oid] = job[p].image] \in [1..Len(blobs) -> Contents]
      BY <3>1, <3>2
    <3> QED
      BY <3>2, <3>3
  <2>c. At(p, "insert") => Append(pola, RowFor(job[p])) \in Seq(Rows)
    BY <2>a, <1>t
  <2>s. pc[p] \in Storing => job[p].scan \in Scans
    BY DEF JobOK, HasFile, HasScan, Storing
  <2>d. pc[p] \in Storing => /\ Append(blobs, Absent) \in Seq(Contents)
                            /\ Append(blobs, Torn(job[p].scan)) \in Seq(Contents)
    BY <1>t, <2>s DEF Contents, Absent, Torn
  <2>g. pc[p] \in Storing /\ (Ignore(p) \/ UNCHANGED ignored) => ignored' \subseteq Scans
    BY <1>t, <2>s DEF Ignore
  <2>1. CASE CreateBlob(p)
    BY <2>1, <1>t, <1>b, <2>d DEF CreateBlob, At, Storing
  <2>2. CASE EndBlob(p)
    BY <2>2, <1>t, <1>b, <2>b, <2>g DEF EndBlob, At, Storing
  <2>3. CASE InsertScan(p)
    BY <2>3, <1>t, <1>b, <2>c DEF InsertScan
  <2>4. CASE LinkFirst(p)
    BY <2>4, <1>t, <1>b, LinkKeepsRows DEF LinkFirst
  <2>5. CASE ListFiles(p) \/ LoadFails(p) \/ NoBarcode(p) \/ LoseBarcode(p)
             \/ Undecoded(p) \/ Recognise(p) \/ FinishPass(p) \/ Wake(p)
             \/ LockFile(p)
    BY <2>5, <1>t DEF ListFiles, LoadFails, NoBarcode, LoseBarcode,
       Undecoded, Recognise, FinishPass, Wake, LockFile
  <2>6. CASE TestDbConnection(p) \/ ConnectDb(p) \/ MoveFileToQuarantine(p)
             \/ OpenResult(p) \/ WriteText(p) \/ SavePng(p)
             \/ RenameSource(p) \/ CheckScanPresence(p)
    BY <2>6, <1>t, <1>b DEF TestDbConnection, ConnectDb,
       MoveFileToQuarantine, OpenResult, WriteText, SavePng, RenameSource,
       CheckScanPresence
  <2>7. CASE BeginBlob(p) \/ WriteBlob(p)
    BY <2>7, <1>t, <1>b, <2>g DEF BeginBlob, WriteBlob, At, Storing
  <2> QED
    BY <1>4, <2>1, <2>2, <2>3, <2>4, <2>5, <2>6, <2>7 DEF Step
<1>5. CASE UNCHANGED vars
  BY <1>5, <1>t DEF vars
<1> QED
  BY <1>1, <1>2, <1>3, <1>4, <1>5 DEF Next, Environment

(* The local variables.                                                    *)
LEMMA JobTypeStep ==
  ASSUME TypeOK, JobOK, [Next]_vars
  PROVE  job' \in [Procs -> Jobs]
<1> DEFINE Goal == job' \in [Procs -> Jobs]
<1>t. job \in [Procs -> Jobs] /\ pc \in [Procs -> Labels]
  BY DEF TypeOK
<1>j. /\ Job({}) \in Jobs
      /\ \A p \in Procs : Job(job[p].todo) \in Jobs
      /\ \A p \in Procs : \A f : Job(job[p].todo \ {f}) \in Jobs
      /\ \A t \in SUBSET Files : Job(t) \in Jobs
  BY <1>t, JobTyped DEF Jobs
<1>1. ASSUME NEW f \in Files, NEW s \in Scans, Arrive(f, s) PROVE Goal
  BY <1>1, <1>t DEF Arrive, procVars
<1>2. ASSUME NEW f \in Files, FinishWriting(f) PROVE Goal
  BY <1>2, <1>t DEF FinishWriting, procVars
<1>3. ASSUME NEW p \in Procs, Start(p) \/ Crash(p) \/ DropConnection(p) PROVE Goal
  BY <1>3, <1>t, <1>j DEF Start, Crash, DropConnection, Die
<1>4. ASSUME NEW p \in Procs, Step(p) PROVE Goal
  <2>1. CASE ListFiles(p)
    BY <2>1, <1>t, <1>j, EndPassCases DEF ListFiles
  <2>2. CASE ConnectDb(p) \/ LoadFails(p) \/ FinishPass(p)
    BY <2>2, <1>t, <1>j, EndPassCases DEF ConnectDb, LoadFails, FinishPass
  <2>3. CASE Wake(p) \/ SavePng(p) \/ BeginBlob(p) \/ EndBlob(p)
             \/ InsertScan(p)
    BY <2>3, <1>t DEF Wake, SavePng, BeginBlob, EndBlob, InsertScan
  <2>4. CASE TestDbConnection(p) \/ LockFile(p) \/ LoseBarcode(p)
             \/ MoveFileToQuarantine(p) \/ OpenResult(p) \/ WriteText(p)
             \/ RenameSource(p) \/ CheckScanPresence(p) \/ LinkFirst(p)
    BY <2>4, <1>t, <1>j DEF TestDbConnection, LockFile, LoseBarcode,
       MoveFileToQuarantine, OpenResult, WriteText, RenameSource,
       CheckScanPresence, LinkFirst, Die, NextFile
  <2>5. CASE NoBarcode(p)
    <3> PICK f \in Files : job' = [job EXCEPT ![p].todo = @ \ {f}]
      BY <2>5 DEF NoBarcode
    <3> QED
      BY <1>t DEF Jobs
  <2>6. CASE Undecoded(p)
    <3> PICK f \in Files :
          job' = [job EXCEPT ![p] = [Job(@.todo \ {f}) EXCEPT !.file = f]]
      BY <2>6 DEF Undecoded
    <3>1. [Job(job[p].todo \ {f}) EXCEPT !.file = f] \in Jobs
      BY <1>j DEF Jobs
    <3> QED
      BY <3>1, <1>t
  <2>7. CASE Recognise(p)
    <3> PICK f \in Files, k \in Pages, e \in Exts :
          job' = [job EXCEPT ![p] = [Job(@.todo \ {f}) EXCEPT
                    !.file = f, !.scan = input[f], !.seen = k, !.ext = e]]
      BY <2>7 DEF Recognise, ExtsOf, Exts
    <3>1. input[f] \in Scans \cup {NoScan}
      BY DEF TypeOK
    <3>2. [Job(job[p].todo \ {f}) EXCEPT !.file = f, !.scan = input[f],
                                         !.seen = k, !.ext = e] \in Jobs
      BY <1>j, <3>1 DEF Jobs
    <3> QED
      BY <3>2, <1>t
  <2>8. CASE CreateBlob(p)
    <3>1. Len(blobs) + 1 \in Nat
      BY DEF TypeOK
    <3>2. [job[p] EXCEPT !.oid = Len(blobs) + 1] \in Jobs
      BY <1>t, <3>1 DEF Jobs
    <3>3. job' = [job EXCEPT ![p] = [@ EXCEPT !.oid = Len(blobs) + 1]] \/ job' = job
      BY <2>8 DEF CreateBlob
    <3> QED
      BY <3>2, <3>3, <1>t
  <2>9. CASE WriteBlob(p)
    <3>1. job[p].file.base \in Bases
      BY <2>9, BaseOfFile DEF WriteBlob, At, JobOK, HasFile, Storing
    <3>2. png[job[p].file.base] \in Contents
      BY <3>1 DEF TypeOK
    <3>3. [job[p] EXCEPT !.image = png[job[p].file.base]] \in Jobs
      BY <1>t, <3>2 DEF Jobs
    <3>4. job' = [job EXCEPT ![p] = [@ EXCEPT !.image = png[job[p].file.base]]]
      BY <2>9 DEF WriteBlob
    <3> QED
      BY <3>3, <3>4, <1>t
  <2> QED
    BY <1>4, <2>1, <2>2, <2>3, <2>4, <2>5, <2>6, <2>7, <2>8, <2>9 DEF Step
<1>5. CASE UNCHANGED vars
  BY <1>5, <1>t DEF vars
<1> QED
  BY <1>1, <1>2, <1>3, <1>4, <1>5 DEF Next, Environment

(* A process that is about to use its file or its image has it.            *)
LEMMA JobOKStep ==
  ASSUME TypeOK, JobOK, [Next]_vars
  PROVE  JobOK'
<1> SUFFICES ASSUME NEW q \in Procs
             PROVE  /\ pc'[q] \in HasFile => job'[q].file \in Files
                    /\ pc'[q] \in HasScan => job'[q].scan \in Scans
  BY DEF JobOK, HasFile, HasScan, Storing
<1> DEFINE Goal == /\ pc'[q] \in HasFile => job'[q].file \in Files
                   /\ pc'[q] \in HasScan => job'[q].scan \in Scans
<1>t. job \in [Procs -> Jobs] /\ pc \in [Procs -> Labels]
  BY DEF TypeOK
<1>j. /\ pc[q] \in HasFile => job[q].file \in Files
      /\ pc[q] \in HasScan => job[q].scan \in Scans
  BY DEF JobOK
<1> USE DEF HasFile, HasScan, Storing
<1>1. ASSUME NEW f \in Files, NEW s \in Scans, Arrive(f, s) PROVE Goal
  BY <1>1, <1>j DEF Arrive, procVars
<1>2. ASSUME NEW f \in Files, FinishWriting(f) PROVE Goal
  BY <1>2, <1>j DEF FinishWriting, procVars
<1>3. ASSUME NEW p \in Procs, Start(p) \/ Crash(p) \/ DropConnection(p) PROVE Goal
  BY <1>3, <1>t, <1>j DEF Start, Crash, DropConnection, Die, Goto
<1>4. ASSUME NEW p \in Procs, Step(p) PROVE Goal
  <2>1. CASE ListFiles(p) \/ ConnectDb(p) \/ LoadFails(p) \/ FinishPass(p)
    BY <2>1, <1>t, <1>j, EndPassCases DEF ListFiles, ConnectDb, LoadFails,
       FinishPass, At, Goto
  <2>2. CASE TestDbConnection(p) \/ LockFile(p) \/ LoseBarcode(p)
    BY <2>2, <1>t, <1>j DEF TestDbConnection, LockFile, LoseBarcode, Die, Goto
  <2>3. CASE MoveFileToQuarantine(p) \/ LinkFirst(p) \/ Wake(p)
    BY <2>3, <1>t, <1>j DEF MoveFileToQuarantine, LinkFirst, Wake, Die, Goto,
       NextFile
  <2>4. CASE OpenResult(p) \/ WriteText(p) \/ SavePng(p) \/ EndBlob(p)
             \/ InsertScan(p) \/ BeginBlob(p)
    BY <2>4, <1>t, <1>j DEF OpenResult, WriteText, SavePng, EndBlob,
       InsertScan, BeginBlob, Die, Goto, At
  <2>5. CASE RenameSource(p) \/ CheckScanPresence(p)
    BY <2>5, <1>t, <1>j DEF RenameSource, CheckScanPresence, Goto, At,
       NextFile
  <2>6. CASE NoBarcode(p)
    <3> PICK f \in Files : /\ At(p, "load")
                           /\ job' = [job EXCEPT ![p].todo = @ \ {f}]
      BY <2>6 DEF NoBarcode, AtFile
    <3> QED
      BY <2>6, <1>t, <1>j DEF NoBarcode, At
  <2>7. CASE Undecoded(p)
    <3> PICK f \in Files :
          job' = [job EXCEPT ![p] = [Job(@.todo \ {f}) EXCEPT !.file = f]]
      BY <2>7 DEF Undecoded
    <3>1. [Job(job[p].todo \ {f}) EXCEPT !.file = f].file = f
      BY DEF Job
    <3> QED
      BY <2>7, <3>1, <1>t, <1>j DEF Undecoded, Goto
  <2>8. CASE Recognise(p)
    <3> PICK f \in Files, k \in Pages, e \in Exts :
          /\ k \in Looks(f)
          /\ job' = [job EXCEPT ![p] = [Job(@.todo \ {f}) EXCEPT
                       !.file = f, !.scan = input[f], !.seen = k, !.ext = e]]
      BY <2>8 DEF Recognise, ExtsOf, Exts
    <3> DEFINE j == [Job(job[p].todo \ {f}) EXCEPT
                       !.file = f, !.scan = input[f], !.seen = k, !.ext = e]
    <3>1. j.file = f /\ j.scan = input[f]
      BY DEF Job
    <3>2. input[f] \in Scans
      BY DEF Looks, TypeOK, Pages
    <3>3. job' = [job EXCEPT ![p] = j] /\ pc' = [pc EXCEPT ![p] = "result"]
      BY <2>8 DEF Recognise, Goto
    <3> HIDE DEF j
    <3> QED
      BY <3>1, <3>2, <3>3, <1>t, <1>j
  <2>9. CASE CreateBlob(p) \/ WriteBlob(p)
    <3>1. \/ job' = job
          \/ \E x : job' = [job EXCEPT ![p] = [@ EXCEPT !.oid = x]]
          \/ \E x : job' = [job EXCEPT ![p] = [@ EXCEPT !.image = x]]
      BY <2>9 DEF CreateBlob, WriteBlob
    <3>2. job'[q].file = job[q].file /\ job'[q].scan = job[q].scan
      BY <3>1, <1>t DEF Jobs
    <3> QED
      BY <2>9, <3>2, <1>t, <1>j DEF CreateBlob, WriteBlob, Goto, At
  <2> QED
    BY <1>4, <2>1, <2>2, <2>3, <2>4, <2>5, <2>6, <2>7, <2>8, <2>9 DEF Step
<1>5. CASE UNCHANGED vars
  BY <1>5, <1>j DEF vars
<1> QED
  BY <1>1, <1>2, <1>3, <1>4, <1>5 DEF Next, Environment

LEMMA TypeStep == TypeOK /\ JobOK /\ [Next]_vars => TypeOK' /\ JobOK'
  BY ProcTypeStep, DiskTypeStep, DbTypeStep, JobTypeStep, JobOKStep DEF TypeOK

-----------------------------------------------------------------------------
(* No page twice: the answer of the presence check stays true until the    *)
(* INSERT, since the only process that could insert is the one that asked. *)
LEMMA AbsentStep ==
  TypeOK /\ LockHeld /\ AbsentWhileStoring /\ [Next]_vars => AbsentWhileStoring'
<1> SUFFICES ASSUME TypeOK, LockHeld, AbsentWhileStoring, [Next]_vars,
                    NEW q \in Procs, pc'[q] \in Storing
             PROVE  ~Present(pola', Serial[job'[q].scan])
  BY DEF AbsentWhileStoring, Present
<1> DEFINE Goal == ~Present(pola', Serial[job'[q].scan])
<1>t. job \in [Procs -> Jobs] /\ pc \in [Procs -> Labels] /\ pola \in Seq(Rows)
  BY DEF TypeOK
<1>a. pc[q] \in Storing => ~Present(pola, Serial[job[q].scan])
  BY DEF AbsentWhileStoring
<1> USE DEF Storing
<1>1. ASSUME NEW f \in Files, NEW s \in Scans, Arrive(f, s) PROVE Goal
  BY <1>1, <1>a DEF Arrive, procVars, dbVars
<1>2. ASSUME NEW f \in Files, FinishWriting(f) PROVE Goal
  BY <1>2, <1>a DEF FinishWriting, procVars, dbVars
<1>3. ASSUME NEW p \in Procs, Start(p) \/ Crash(p) \/ DropConnection(p) PROVE Goal
  BY <1>3, <1>t, <1>a DEF Start, Crash, DropConnection, Die, Goto, dbVars
<1>4. ASSUME NEW p \in Procs, Step(p) PROVE Goal
  <2>1. CASE ListFiles(p) \/ ConnectDb(p) \/ LoadFails(p) \/ FinishPass(p)
    BY <2>1, <1>t, <1>a, EndPassCases DEF ListFiles, ConnectDb, LoadFails,
       FinishPass, At, Goto, dbVars
  <2>2. CASE TestDbConnection(p) \/ LockFile(p) \/ LoseBarcode(p)
             \/ OpenResult(p) \/ WriteText(p) \/ SavePng(p)
    BY <2>2, <1>t, <1>a DEF TestDbConnection, LockFile, LoseBarcode,
       OpenResult, WriteText, SavePng, Die, Goto, dbVars
  <2>3. CASE NoBarcode(p) \/ Undecoded(p) \/ Recognise(p)
    BY <2>3, <1>t, <1>a DEF NoBarcode, Undecoded, Recognise, AtFile, At,
       Goto, dbVars
  <2>4. CASE Wake(p) \/ MoveFileToQuarantine(p) \/ RenameSource(p)
    BY <2>4, <1>t, <1>a DEF Wake, MoveFileToQuarantine, RenameSource, Die,
       Goto, NextFile, dbVars
  <2>5. CASE CheckScanPresence(p)
    BY <2>5, <1>t, <1>a DEF CheckScanPresence, Goto, NextFile, dbVars
  <2>6. CASE BeginBlob(p) \/ EndBlob(p)
    BY <2>6, <1>t, <1>a DEF BeginBlob, EndBlob, Goto, At, dbVars
  <2>7. CASE CreateBlob(p) \/ WriteBlob(p)
    <3>1. \/ job' = job
          \/ \E x : job' = [job EXCEPT ![p] = [@ EXCEPT !.oid = x]]
          \/ \E x : job' = [job EXCEPT ![p] = [@ EXCEPT !.image = x]]
      BY <2>7 DEF CreateBlob, WriteBlob
    <3>2. job'[q].scan = job[q].scan
      BY <3>1, <1>t DEF Jobs
    <3> QED
      BY <2>7, <3>2, <1>t, <1>a DEF CreateBlob, WriteBlob, Goto, At, dbVars
  <2>8. CASE InsertScan(p)
    <3>1. pc' = [pc EXCEPT ![p] = "link"] /\ pc[p] = "insert"
      BY <2>8 DEF InsertScan, Goto, At
    <3>2. q # p /\ pc[q] \in Storing
      BY <3>1, <1>t
    <3>3. lock = p /\ lock = q
      BY <3>1, <3>2 DEF LockHeld, Working, Dead, Starting
    <3> QED
      BY <3>2, <3>3
  <2>9. CASE LinkFirst(p)
    <3>2. pc[q] \in Storing /\ job'[q] = job[q]
      BY <2>9, <1>t DEF LinkFirst, NextFile, Goto
    <3>3. \A s : Present(pola', s) => Present(pola, s)
      <4>1. pola' = Link(pola) \/ pola' = pola
        BY <2>9 DEF LinkFirst
      <4> QED
        BY <4>1, <1>t, LinkKeepsRows DEF Present
    <3> QED
      BY <3>2, <3>3, <1>a
  <2> QED
    BY <1>4, <2>1, <2>2, <2>3, <2>4, <2>5, <2>6, <2>7, <2>8, <2>9 DEF Step
<1>5. CASE UNCHANGED vars
  BY <1>5, <1>a DEF vars
<1> QED
  BY <1>1, <1>2, <1>3, <1>4, <1>5 DEF Next, Environment

(* Only InsertScan adds a row, and the row it adds is of an absent page.   *)
LEMMA UniqueStep ==
  TypeOK /\ AbsentWhileStoring /\ UniqueSerial /\ [Next]_vars => UniqueSerial'
<1> SUFFICES ASSUME TypeOK, AbsentWhileStoring, UniqueSerial, [Next]_vars
             PROVE  UniqueSerial'
  OBVIOUS
<1>t. pola \in Seq(Rows)
  BY DEF TypeOK
<1>u. pola' = pola => UniqueSerial'
  BY DEF UniqueSerial
<1>1. ASSUME NEW f \in Files, NEW s \in Scans, Arrive(f, s) PROVE UniqueSerial'
  BY <1>1, <1>u DEF Arrive, dbVars
<1>2. ASSUME NEW f \in Files, FinishWriting(f) PROVE UniqueSerial'
  BY <1>2, <1>u DEF FinishWriting, dbVars
<1>3. ASSUME NEW p \in Procs, Start(p) \/ Crash(p) \/ DropConnection(p)
      PROVE  UniqueSerial'
  BY <1>3, <1>u DEF Start, Crash, DropConnection, dbVars
<1>4. ASSUME NEW p \in Procs, Step(p) PROVE UniqueSerial'
  <2>1. CASE InsertScan(p)
    <3>1. CASE pola' = Append(pola, RowFor(job[p]))
      <4>1. RowFor(job[p]).ser_st = Serial[job[p].scan]
        BY DEF RowFor
      <4>2. \A j \in DOMAIN pola : pola[j].ser_st # Serial[job[p].scan]
        BY <2>1 DEF InsertScan, At, AbsentWhileStoring, Storing, Present
      <4>3. /\ DOMAIN pola = 1..Len(pola) /\ Len(pola) \in Nat
            /\ DOMAIN pola' = 1..(Len(pola) + 1)
            /\ \A i \in DOMAIN pola : pola'[i] = pola[i]
            /\ pola'[Len(pola) + 1] = RowFor(job[p])
        BY <3>1, <1>t
      <4> QED
        BY <4>1, <4>2, <4>3 DEF UniqueSerial
    <3> QED
      BY <2>1, <3>1, <1>u DEF InsertScan
  <2>2. CASE LinkFirst(p)
    <3>1. pola' = Link(pola) \/ pola' = pola
      BY <2>2 DEF LinkFirst
    <3> QED
      BY <3>1, <1>u, <1>t, LinkKeepsRows DEF UniqueSerial
  <2>3. CASE TestDbConnection(p) \/ LockFile(p) \/ ListFiles(p)
             \/ ConnectDb(p) \/ LoadFails(p) \/ NoBarcode(p)
             \/ LoseBarcode(p) \/ Undecoded(p) \/ Recognise(p)
             \/ FinishPass(p) \/ Wake(p)
    BY <2>3, <1>u DEF TestDbConnection, LockFile, ListFiles, ConnectDb,
       LoadFails, NoBarcode, LoseBarcode, Undecoded, Recognise, FinishPass,
       Wake, dbVars
  <2>4. CASE MoveFileToQuarantine(p) \/ OpenResult(p) \/ WriteText(p)
             \/ SavePng(p) \/ RenameSource(p) \/ CheckScanPresence(p)
             \/ BeginBlob(p) \/ CreateBlob(p) \/ WriteBlob(p) \/ EndBlob(p)
    BY <2>4, <1>u DEF MoveFileToQuarantine, OpenResult, WriteText, SavePng,
       RenameSource, CheckScanPresence, BeginBlob, CreateBlob, WriteBlob,
       EndBlob, dbVars
  <2> QED
    BY <1>4, <2>1, <2>2, <2>3, <2>4 DEF Step
<1>5. CASE UNCHANGED vars
  BY <1>5, <1>u DEF vars
<1> QED
  BY <1>1, <1>2, <1>3, <1>4, <1>5 DEF Next, Environment

-----------------------------------------------------------------------------
(* The inductive invariant: a step from a state that satisfies it leads to *)
(* one that does, whatever fails and whoever runs (daemon.c, database.c).  *)
THEOREM Invariance == Spec => []IndInv
<1>1. IndInv /\ [Next]_vars => IndInv'
  BY TypeStep, LockStep, AbsentStep, UniqueStep DEF IndInv
<1> QED
  BY InitInv, <1>1, PTL DEF Spec

(* Every variable keeps its type: in particular each process has the file, *)
(* the image and the large object its next call needs.                     *)
THEOREM TypeCorrect == Spec => []TypeOK
<1>1. IndInv => TypeOK
  BY DEF IndInv
<1> QED
  BY Invariance, <1>1, PTL

(* lock_file lets one process at a time scan, however many are started,    *)
(* killed and started again (daemon.c:130, daemon.c:156-181).              *)
THEOREM MutualExclusion == Spec => []OneWorker
<1>1. IndInv => OneWorker
  BY LockExcludes DEF IndInv
<1> QED
  BY Invariance, <1>1, PTL

(* The table never holds two rows of one serial number, although only a    *)
(* SELECT some statements before the INSERT asks (database.c:91, 173).     *)
THEOREM NoPageTwice == Spec => []UniqueSerial
<1>1. IndInv => UniqueSerial
  BY DEF IndInv
<1> QED
  BY Invariance, <1>1, PTL

-----------------------------------------------------------------------------
(* The table implements the registry.  An UPDATE that finds nothing new to *)
(* link changes nothing, so that Table, in which all links are made, does  *)
(* not see it (database.c:106).                                            *)
Distinct(t) == \A i, j \in DOMAIN t : t[i].ser_st = t[j].ser_st => i = j

LEMMA RowOfDistinct ==
  ASSUME NEW t, Distinct(t), NEW j \in DOMAIN t
  PROVE  RowOf(t, t[j].ser_st) = j
  BY DEF Distinct, RowOf

LEMMA LinkTwice ==
  ASSUME NEW t \in Seq(Rows)
  PROVE  Link(Link(t)) = Link(t)
<1> DEFINE u == Link(t)
<1>1. DOMAIN t = 1..Len(t) /\ Len(t) \in Nat /\ \A i \in DOMAIN t : t[i] \in Rows
  OBVIOUS
<1>2. DOMAIN u = DOMAIN t /\ \A i \in DOMAIN t : u[i].ser_st = t[i].ser_st
  BY LinkKeepsRows
<1>3. \A s : Present(u, s) <=> Present(t, s)
  BY <1>2 DEF Present
<1>4. ASSUME NEW i \in DOMAIN t
      PROVE  ~(u[i].first_id = NoRow /\ Present(u, u[i].first_ser_st))
  <2>1. CASE t[i].first_id = NoRow /\ Present(t, t[i].first_ser_st)
    <3>1. u[i].first_id = RowOf(t, t[i].first_ser_st)
      BY <1>1, <2>1 DEF Link, Rows
    <3>2. RowOf(t, t[i].first_ser_st) \in DOMAIN t
      BY <2>1 DEF Present, RowOf
    <3> QED
      BY <1>1, <3>1, <3>2 DEF NoRow
  <2>2. CASE ~(t[i].first_id = NoRow /\ Present(t, t[i].first_ser_st))
    <3>1. u[i] = t[i]
      BY <2>2 DEF Link
    <3> QED
      BY <1>3, <2>2, <3>1
  <2> QED
    BY <2>1, <2>2
<1>5. Link(u) = [i \in DOMAIN u |-> u[i]]
  <2> HIDE DEF u
  <2> QED BY <1>2, <1>4 DEF Link
<1>6. u = [i \in DOMAIN u |-> u[i]]
  BY DEF Link
<1> QED
  BY <1>5, <1>6

LEMMA FunctionIsSequence ==
  ASSUME NEW S, NEW n \in Nat, NEW f \in [1..n -> S]
  PROVE  f \in Seq(S) /\ Len(f) = n
  OBVIOUS

(* What a reader sees of a table.                                          *)
Seen(t) == [i \in DOMAIN t |-> [ser_st       |-> t[i].ser_st,
                                first_ser_st |-> t[i].first_ser_st,
                                first_id     |-> t[i].first_id]]

LEMMA TableSeen == Table = Seen(Link(pola))
  BY DEF Table, Seen

(* A row that is inserted and the links it makes possible appear in Table  *)
(* in one step.                                                            *)
LEMMA LinkInserted ==
  ASSUME NEW t \in Seq(Rows), NEW r \in Rows, r.first_id = NoRow,
         Distinct(Append(t, r))
  PROVE  Seen(Link(Append(t, r))) =
           Link(Append(Seen(Link(t)), [ser_st       |-> r.ser_st,
                                       first_ser_st |-> r.first_ser_st,
                                       first_id     |-> NoRow]))
<1> DEFINE n == Len(t)
           a == Append(t, r)
           u == Link(t)
           row == [ser_st |-> r.ser_st, first_ser_st |-> r.first_ser_st, first_id |-> NoRow]
           b == Append(Seen(u), row)
           new == n + 1
<1>1. /\ n \in Nat /\ DOMAIN t = 1..n /\ DOMAIN a = 1..new /\ a[new] = r
      /\ \A i \in 1..n : a[i] = t[i] /\ t[i] \in Rows
      /\ \A i \in 1..new : a[i] \in Rows
  OBVIOUS
<1>2. DOMAIN u = 1..n /\ Seen(u) \in Seq([ser_st : Serials, first_ser_st : Serials, first_id : Nat])
      /\ Len(Seen(u)) = n /\ u \in Seq(Rows)
  <2>1. u \in Seq(Rows) /\ DOMAIN u = 1..n
    BY <1>1, LinkKeepsRows
  <2>2. \A i \in 1..n : u[i] \in Rows
    BY <2>1
  <2>3. Seen(u) \in [1..n -> [ser_st : Serials, first_ser_st : Serials, first_id : Nat]]
    BY <2>1, <2>2 DEF Seen, Rows
  <2> HIDE DEF u, n
  <2>4. Seen(u) \in Seq([ser_st : Serials, first_ser_st : Serials, first_id : Nat])
        /\ Len(Seen(u)) = n
    BY <1>1, <2>3, FunctionIsSequence
  <2> QED
    BY <2>1, <2>4
<1>3. /\ DOMAIN b = 1..new /\ b[new] = row
      /\ \A i \in 1..n : b[i] = Seen(u)[i]
  BY <1>1, <1>2
<1>4. \A i \in 1..n : /\ Seen(u)[i] = [ser_st       |-> u[i].ser_st,
                                       first_ser_st |-> u[i].first_ser_st,
                                       first_id     |-> u[i].first_id]
                      /\ u[i] = IF t[i].first_id = NoRow /\ Present(t, t[i].first_ser_st)
                                THEN [t[i] EXCEPT !.first_id = RowOf(t, t[i].first_ser_st)]
                                ELSE t[i]
  BY <1>1, <1>2 DEF Seen, Link
<1> HIDE DEF u
<1>5. /\ \A i \in 1..new : b[i].ser_st = a[i].ser_st /\ b[i].first_ser_st = a[i].first_ser_st
      /\ \A i \in 1..n : b[i].first_id = u[i].first_id
      /\ b[new].first_id = NoRow /\ a[new].first_id = NoRow
  <2>1. ASSUME NEW i \in 1..n
        PROVE  /\ b[i].ser_st = a[i].ser_st /\ b[i].first_ser_st = a[i].first_ser_st
               /\ b[i].first_id = u[i].first_id
    <3>1. b[i] = [ser_st |-> u[i].ser_st, first_ser_st |-> u[i].first_ser_st,
                  first_id |-> u[i].first_id]
      BY <1>3, <1>4
    <3>2. u[i].ser_st = t[i].ser_st /\ u[i].first_ser_st = t[i].first_ser_st
      <4>1. t[i] \in Rows
        BY <1>1
      <4> QED
        BY <1>4, <4>1 DEF Rows
    <3>3. a[i] = t[i]
      BY <1>1
    <3> HIDE DEF a, b
    <3> QED
      BY <3>1, <3>2, <3>3
  <2>2. /\ b[new].ser_st = a[new].ser_st /\ b[new].first_ser_st = a[new].first_ser_st
        /\ b[new].first_id = NoRow /\ a[new].first_id = NoRow
    <3>1. b[new] = row /\ a[new] = r
      BY <1>1, <1>3
    <3> HIDE DEF a, b
    <3> QED
      BY <3>1
  <2>3. n \in Nat /\ \A i \in 1..new : i \in 1..n \/ i = new
    BY <1>1
  <2> HIDE DEF a, b, n
  <2> QED
    BY <2>1, <2>2, <2>3
<1> HIDE DEF a, b, row
<1>6. Distinct(a) /\ Distinct(b)
  <2>1. Distinct(a)
    BY DEF a
  <2>2. Distinct(b)
    BY <1>1, <1>3, <1>5, <2>1 DEF Distinct
  <2> QED
    BY <2>1, <2>2
<1>7. \A s : Present(b, s) <=> Present(a, s)
  BY <1>1, <1>3, <1>5 DEF Present
<1>8. \A s : Present(a, s) => RowOf(b, s) = RowOf(a, s)
  <2> SUFFICES ASSUME NEW j \in 1..new PROVE RowOf(b, a[j].ser_st) = RowOf(a, a[j].ser_st)
    BY <1>1 DEF Present
  <2>1. RowOf(a, a[j].ser_st) = j
    BY <1>1, <1>6, RowOfDistinct
  <2>2. RowOf(b, b[j].ser_st) = j
    BY <1>3, <1>6, RowOfDistinct
  <2> QED
    BY <1>5, <2>1, <2>2
<1>9. \A s : Present(t, s) => Present(a, s) /\ RowOf(a, s) = RowOf(t, s)
  <2> SUFFICES ASSUME NEW j \in 1..n
               PROVE  /\ Present(a, t[j].ser_st)
                      /\ RowOf(a, t[j].ser_st) = RowOf(t, t[j].ser_st)
    BY <1>1 DEF Present
  <2>1. j \in 1..new /\ a[j].ser_st = t[j].ser_st
    BY <1>1
  <2>2. Distinct(t)
    BY <1>1, <1>6 DEF Distinct
  <2>3. RowOf(a, a[j].ser_st) = j /\ RowOf(t, t[j].ser_st) = j
    BY <1>1, <1>6, <2>1, <2>2, RowOfDistinct
  <2> QED
    BY <1>1, <2>1, <2>3 DEF Present
<1>10. ASSUME NEW i \in 1..new
       PROVE  Link(b)[i] = [ser_st       |-> Link(a)[i].ser_st,
                            first_ser_st |-> Link(a)[i].first_ser_st,
                            first_id     |-> Link(a)[i].first_id]
  <2> DEFINE f == a[i].first_ser_st
  <2>1. Link(a)[i] = IF a[i].first_id = NoRow /\ Present(a, f)
                     THEN [a[i] EXCEPT !.first_id = RowOf(a, f)] ELSE a[i]
    BY <1>1 DEF Link
  <2>2. Link(b)[i] = IF b[i].first_id = NoRow /\ Present(b, f)
                     THEN [b[i] EXCEPT !.first_id = RowOf(b, f)] ELSE b[i]
    BY <1>3, <1>5 DEF Link
  <2>3. b[i] = [ser_st |-> a[i].ser_st, first_ser_st |-> f, first_id |-> b[i].first_id]
    <3>1. CASE i = new
      BY <1>3, <1>5, <3>1 DEF row
    <3>2. CASE i \in 1..n
      <4>1. b[i] = [ser_st |-> u[i].ser_st, first_ser_st |-> u[i].first_ser_st,
                    first_id |-> u[i].first_id]
        BY <1>3, <1>4, <3>2
      <4>2. b[i].ser_st = a[i].ser_st /\ b[i].first_ser_st = a[i].first_ser_st
        BY <1>5
      <4> QED
        BY <4>1, <4>2
    <3> QED
      BY <1>1, <3>1, <3>2
  <2>4. a[i] \in Rows
    BY <1>1
  <2>5. CASE i = new
    <3>1. a[i].first_id = NoRow /\ b[i].first_id = NoRow
      BY <1>5, <2>5
    <3> QED
      BY <1>7, <1>8, <2>1, <2>2, <2>3, <2>4, <3>1 DEF Rows
  <2>6. CASE i \in 1..n
    <3>1. /\ a[i] = t[i] /\ b[i].first_id = u[i].first_id
          /\ u[i] = IF t[i].first_id = NoRow /\ Present(t, f)
                    THEN [t[i] EXCEPT !.first_id = RowOf(t, f)] ELSE t[i]
      BY <1>1, <1>4, <1>5, <2>6
    <3>2. CASE t[i].first_id # NoRow
      BY <2>1, <2>2, <2>3, <2>4, <3>1, <3>2 DEF Rows
    <3>3. CASE t[i].first_id = NoRow /\ Present(t, f)
      <4>1. b[i].first_id = RowOf(t, f)
        BY <2>4, <3>1, <3>3 DEF Rows
      <4>2. RowOf(t, f) # NoRow
        BY <1>1, <3>3 DEF RowOf, Present, NoRow
      <4>3. Link(b)[i] = b[i]
        BY <2>2, <4>1, <4>2
      <4>4. Link(a)[i] = [a[i] EXCEPT !.first_id = RowOf(t, f)]
        BY <1>9, <2>1, <3>1, <3>3
      <4> QED
        BY <2>3, <2>4, <4>1, <4>3, <4>4 DEF Rows
    <3>4. CASE t[i].first_id = NoRow /\ ~Present(t, f)
      <4>1. b[i].first_id = NoRow /\ a[i].first_id = NoRow
        BY <3>1, <3>4
      <4> QED
        BY <1>7, <1>8, <2>1, <2>2, <2>3, <2>4, <4>1 DEF Rows
    <3> QED
      BY <3>2, <3>3, <3>4
  <2> QED
    BY <1>1, <2>5, <2>6
<1>11. DOMAIN Link(b) = 1..new /\ DOMAIN Link(a) = 1..new
  BY <1>1, <1>3 DEF Link
<1>12. Link(b) = [i \in 1..new |-> Link(b)[i]]
  BY <1>3 DEF Link
<1>13. Seen(Link(a)) = Link(b)
  BY <1>10, <1>11, <1>12 DEF Seen
<1> QED
  BY <1>13 DEF a, b, u, row

(* What a step does to the table: nothing, an INSERT of a row that was     *)
(* absent, or the UPDATE.                                                  *)
LEMMA PolaStep ==
  ASSUME IndInv, [Next]_vars
  PROVE  \/ pola' \in {pola, Link(pola)}
         \/ \E p \in Procs : /\ pc[p] = "insert"
                             /\ pola' = Append(pola, RowFor(job[p]))
<1> DEFINE Goal == \/ pola' \in {pola, Link(pola)}
                   \/ \E p \in Procs : /\ pc[p] = "insert"
                                       /\ pola' = Append(pola, RowFor(job[p]))
<1>1. ASSUME NEW f \in Files, NEW s \in Scans, Arrive(f, s) PROVE Goal
  BY <1>1 DEF Arrive, dbVars
<1>2. ASSUME NEW f \in Files, FinishWriting(f) PROVE Goal
  BY <1>2 DEF FinishWriting, dbVars
<1>3. ASSUME NEW p \in Procs, Start(p) \/ Crash(p) \/ DropConnection(p) PROVE Goal
  BY <1>3 DEF Start, Crash, DropConnection, dbVars
<1>4. ASSUME NEW p \in Procs, Step(p) PROVE Goal
  <2>1. CASE InsertScan(p) \/ LinkFirst(p)
    BY <2>1 DEF InsertScan, LinkFirst, At
  <2>2. CASE TestDbConnection(p) \/ LockFile(p) \/ ListFiles(p)
             \/ ConnectDb(p) \/ LoadFails(p) \/ NoBarcode(p)
             \/ LoseBarcode(p) \/ Undecoded(p) \/ Recognise(p)
             \/ FinishPass(p) \/ Wake(p)
    BY <2>2 DEF TestDbConnection, LockFile, ListFiles, ConnectDb,
       LoadFails, NoBarcode, LoseBarcode, Undecoded, Recognise, FinishPass,
       Wake, dbVars
  <2>3. CASE MoveFileToQuarantine(p) \/ OpenResult(p) \/ WriteText(p)
             \/ SavePng(p) \/ RenameSource(p) \/ CheckScanPresence(p)
             \/ BeginBlob(p) \/ CreateBlob(p) \/ WriteBlob(p) \/ EndBlob(p)
    BY <2>3 DEF MoveFileToQuarantine, OpenResult, WriteText, SavePng,
       RenameSource, CheckScanPresence, BeginBlob, CreateBlob, WriteBlob,
       EndBlob, dbVars
  <2> QED
    BY <1>4, <2>1, <2>2, <2>3 DEF Step
<1>5. CASE UNCHANGED vars
  BY <1>5 DEF vars
<1> QED
  BY <1>1, <1>2, <1>3, <1>4, <1>5 DEF Next, Environment

(* The registry has operators of its own, which are those of Pola.         *)
LEMMA SameOperators ==
  /\ \A t, s : R!Present(t, s) <=> Present(t, s)
  /\ \A t : R!Link(t) = Link(t)
  /\ R!NoRow = NoRow
BY DEF R!Present, Present, R!Link, Link, R!RowOf, RowOf, R!NoRow, NoRow

(* A row is inserted: the page is registered.                              *)
LEMMA InsertRegisters ==
  ASSUME IndInv, IndInv', NEW p \in Procs, pc[p] = "insert",
         pola' = Append(pola, RowFor(job[p]))
  PROVE  R!Next
<1> DEFINE r == RowFor(job[p])
           s == Serial[job[p].scan]
<1>1. pola \in Seq(Rows) /\ pola' \in Seq(Rows) /\ job[p].scan \in Scans
  BY DEF IndInv, TypeOK, JobOK, HasScan, HasFile, Storing
<1>2. s \in Serials /\ First[s] \in Serials
  BY <1>1, ScanAssumption, SerialAssumption
<1>3. r.ser_st = s /\ r.first_ser_st = First[s] /\ r.first_id = NoRow
  BY DEF RowFor
<1>4. r \in Rows
  <2>1. pola'[Len(pola) + 1] = r /\ Len(pola) + 1 \in DOMAIN pola'
    BY <1>1
  <2> QED
    BY <1>1, <2>1
<1>5. Distinct(Append(pola, r))
  BY DEF IndInv, UniqueSerial, Distinct
<1>6. ~Present(pola, s)
  BY DEF IndInv, AbsentWhileStoring, Storing
<1>7. ~Present(Table, s)
  BY <1>1, <1>6, LinkKeepsRows, TableSeen DEF Present, Seen
<1>8. Table' = Seen(Link(Append(pola, r)))
  BY TableSeen DEF Table, Seen
<1> HIDE DEF r, s
<1>9. Table' = Link(Append(Table, [ser_st       |-> s,
                                   first_ser_st |-> First[s],
                                   first_id     |-> NoRow]))
  BY <1>1, <1>3, <1>4, <1>5, <1>8, LinkInserted, TableSeen
<1>10. R!Register(s)
  BY <1>7, <1>9, SameOperators DEF R!Register
<1> QED
  BY <1>2, <1>10 DEF R!Next

(* The table of the program, with the links still to be made already in    *)
(* it, is the abstract registry: whatever fails between the two statements *)
(* a reader who follows the links sees a page enter once, linked           *)
(* (database.c:66-215).                                                    *)
THEOREM TableIsRegistry == Spec => ImplementsRegistry
<1>1. Init => R!Init
  BY TableSeen DEF Init, R!Init, Table, Link
<1>2. ASSUME IndInv, IndInv', [Next]_vars
      PROVE  [R!Next]_Table
  <2>1. CASE pola' \in {pola, Link(pola)}
    <3>1. Link(pola') = Link(pola)
      BY <2>1, <1>2, LinkTwice DEF IndInv, TypeOK
    <3> QED
      BY <3>1 DEF Table
  <2>2. ASSUME NEW p \in Procs, pc[p] = "insert",
               pola' = Append(pola, RowFor(job[p]))
        PROVE  R!Next
    BY <1>2, <2>2, InsertRegisters
  <2> QED
    BY <1>2, <2>1, <2>2, PolaStep
<1> QED
  BY <1>1, <1>2, Invariance, PTL DEF Spec, ImplementsRegistry, R!Spec

-----------------------------------------------------------------------------
(* Directories.  A step changes the local state of the process that takes  *)
(* it and of no other.                                                     *)
LEMMA StepOfOne ==
  ASSUME TypeOK, NEW p \in Procs, Step(p), NEW q \in Procs, q # p
  PROVE  pc'[q] = pc[q] /\ job'[q] = job[q] /\ conn'[q] = conn[q]
<1>t. pc \in [Procs -> Labels] /\ job \in [Procs -> Jobs] /\ conn \in [Procs -> ConnStates]
  BY DEF TypeOK
<1>1. CASE ListFiles(p) \/ ConnectDb(p) \/ LoadFails(p) \/ FinishPass(p)
  BY <1>1, <1>t, EndPassCases DEF ListFiles, ConnectDb, LoadFails, FinishPass, Goto
<1>2. CASE TestDbConnection(p) \/ LockFile(p) \/ LoseBarcode(p) \/ Wake(p)
  BY <1>2, <1>t DEF TestDbConnection, LockFile, LoseBarcode, Wake, Goto, Die
<1>3. CASE NoBarcode(p) \/ Undecoded(p) \/ Recognise(p)
  BY <1>3, <1>t DEF NoBarcode, Undecoded, Recognise, Goto
<1>4. CASE MoveFileToQuarantine(p) \/ OpenResult(p) \/ WriteText(p)
           \/ SavePng(p) \/ RenameSource(p) \/ CheckScanPresence(p)
  BY <1>4, <1>t DEF MoveFileToQuarantine, OpenResult, WriteText, SavePng,
     RenameSource, CheckScanPresence, Goto, Die, NextFile
<1>5. CASE BeginBlob(p) \/ CreateBlob(p) \/ WriteBlob(p) \/ EndBlob(p)
           \/ InsertScan(p) \/ LinkFirst(p)
  BY <1>5, <1>t DEF BeginBlob, CreateBlob, WriteBlob, EndBlob, InsertScan,
     LinkFirst, Goto, NextFile
<1> QED
  BY <1>1, <1>2, <1>3, <1>4, <1>5 DEF Step

(* While one process works, no other is anywhere but at its start.         *)
LEMMA Alone ==
  ASSUME LockHeld, NEW p \in Procs, Working(p), NEW q \in Procs, q # p
  PROVE  ~Working(q)
  BY DEF LockHeld

(* A name is in one directory only, and the file a process works on is     *)
(* where it found it.                                                      *)
Writing == {"result", "text", "png", "rename"}
InPlace(p) ==
  /\ At(p, "quarantine") => input[job[p].file] # NoScan
  /\ pc[p] \in Writing => input[job[p].file] = job[p].scan
OneDirectory == \A f \in Files : processed[f] # NoScan => input[f] = NoScan
DirInv == OneDirectory /\ \A p \in Procs : InPlace(p)

LEMMA DirInit == Init => DirInv
  BY DEF Init, DirInv, OneDirectory, InPlace, At, Writing

(* The two steps that move a file, and what they find.                     *)
Moving(p) == pc[p] \in {"quarantine", "rename"}

LEMMA MoveFinds ==
  ASSUME IndInv, DirInv, NEW p \in Procs, Moving(p)
  PROVE  /\ job[p].file \in Files
         /\ input[job[p].file] # NoScan
         /\ processed[job[p].file] = NoScan
<1>1. job[p].file \in Files
  BY DEF IndInv, JobOK, HasFile, Moving
<1>2. input[job[p].file] # NoScan
  BY ScanAssumption DEF IndInv, JobOK, HasFile, HasScan, Moving, DirInv, InPlace, At, Writing
<1> QED
  BY <1>1, <1>2 DEF DirInv, OneDirectory

(* A step of the program leaves the directories alone or moves its file.   *)
LEMMA DirStepCases ==
  ASSUME TypeOK, NEW p \in Procs, Step(p)
  PROVE  \/ UNCHANGED <<input, processed>>
         \/ /\ Moving(p) /\ MoveToProcessed(job[p].file)
            /\ pc'[p] \in {"presence", "load"}
<1>1. CASE MoveFileToQuarantine(p) \/ RenameSource(p)
  BY <1>1 DEF TypeOK, MoveFileToQuarantine, RenameSource, Moving, At, Goto,
     NextFile
<1>2. CASE TestDbConnection(p) \/ LockFile(p) \/ ListFiles(p)
           \/ ConnectDb(p) \/ LoadFails(p) \/ NoBarcode(p)
           \/ LoseBarcode(p) \/ Undecoded(p) \/ Recognise(p)
           \/ FinishPass(p) \/ Wake(p)
  BY <1>2 DEF TestDbConnection, LockFile, ListFiles, ConnectDb, LoadFails,
     NoBarcode, LoseBarcode, Undecoded, Recognise, FinishPass, Wake, diskVars
<1>3. CASE OpenResult(p) \/ WriteText(p) \/ SavePng(p)
           \/ CheckScanPresence(p) \/ BeginBlob(p) \/ CreateBlob(p)
           \/ WriteBlob(p) \/ EndBlob(p) \/ InsertScan(p) \/ LinkFirst(p)
  BY <1>3 DEF OpenResult, WriteText, SavePng, CheckScanPresence, BeginBlob,
     CreateBlob, WriteBlob, EndBlob, InsertScan, LinkFirst, diskVars
<1> QED
  BY <1>1, <1>2, <1>3 DEF Step

(* Where a process gets a file to move or to write about.                  *)
LEMMA InPlaceOwnStep ==
  ASSUME IndInv, NEW p \in Procs, InPlace(p), Step(p)
  PROVE  InPlace(p)'
<1> USE DEF InPlace, At, Writing
<1>t. /\ pc \in [Procs -> Labels] /\ job \in [Procs -> Jobs]
      /\ input \in [Files -> Scans \cup {NoScan}]
  BY DEF IndInv, TypeOK
<1>1. CASE Undecoded(p)
  <2> PICK f \in Files :
        /\ "undecoded" \in Looks(f)
        /\ job' = [job EXCEPT ![p] = [Job(@.todo \ {f}) EXCEPT !.file = f]]
    BY <1>1 DEF Undecoded
  <2>1. [Job(job[p].todo \ {f}) EXCEPT !.file = f].file = f
    BY DEF Job
  <2>2. job'[p].file = f
    BY <2>1, <1>t
  <2>3. input[f] # NoScan
    BY DEF Looks
  <2> QED
    BY <1>1, <1>t, <2>2, <2>3 DEF Undecoded, Goto, diskVars
<1>2. CASE Recognise(p)
  <2> PICK f \in Files, k \in Pages, e \in Exts :
        job' = [job EXCEPT ![p] = [Job(@.todo \ {f}) EXCEPT
                  !.file = f, !.scan = input[f], !.seen = k, !.ext = e]]
    BY <1>2 DEF Recognise, ExtsOf, Exts
  <2> DEFINE j == [Job(job[p].todo \ {f}) EXCEPT
                     !.file = f, !.scan = input[f], !.seen = k, !.ext = e]
  <2>1. j.file = f /\ j.scan = input[f]
    BY DEF Job
  <2>2. job'[p] = j
    BY <1>t
  <2> HIDE DEF j
  <2> QED
    BY <1>2, <1>t, <2>1, <2>2 DEF Recognise, Goto, diskVars
<1>3. CASE OpenResult(p) \/ WriteText(p) \/ SavePng(p)
  BY <1>3, <1>t DEF OpenResult, WriteText, SavePng, Goto, Die
<1>4. CASE ListFiles(p) \/ ConnectDb(p) \/ LoadFails(p) \/ FinishPass(p)
  BY <1>4, <1>t, EndPassCases DEF IndInv, ListFiles, ConnectDb, LoadFails,
     FinishPass, Goto
<1>5. CASE TestDbConnection(p) \/ LockFile(p) \/ NoBarcode(p)
           \/ LoseBarcode(p) \/ Wake(p)
  <2> HIDE DEF At
  <2>1. pc'[p] \in {"lock", "off", "list", "load", "segv"}
    BY <1>5, <1>t DEF TestDbConnection, LockFile, NoBarcode, LoseBarcode,
       Wake, Goto, Die, AtFile, At
  <2> QED
    BY <2>1 DEF At
<1>6. CASE RenameSource(p) \/ CheckScanPresence(p) \/ BeginBlob(p)
           \/ CreateBlob(p) \/ WriteBlob(p) \/ EndBlob(p) \/ InsertScan(p)
           \/ LinkFirst(p)
  <2>1. pc'[p] \in Storing \cup {"presence", "link", "load"}
    BY <1>6, <1>t DEF RenameSource, CheckScanPresence, BeginBlob, CreateBlob,
       WriteBlob, EndBlob, InsertScan, LinkFirst, Goto, NextFile, Storing
  <2> QED
    BY <2>1 DEF Storing
<1>7. CASE MoveFileToQuarantine(p)
  BY <1>7, <1>t DEF MoveFileToQuarantine, Goto, NextFile, Die
<1> QED
  BY <1>1, <1>2, <1>3, <1>4, <1>5, <1>6, <1>7 DEF Step

LEMMA DirStep ==
  ASSUME FreshNames, IndInv, DirInv, [Next]_vars
  PROVE  DirInv'
<1>t. /\ input \in [Files -> Scans \cup {NoScan}]
      /\ processed \in [Files -> Scans \cup {NoScan}]
      /\ pc \in [Procs -> Labels] /\ job \in [Procs -> Jobs]
  BY DEF IndInv, TypeOK
<1>0. ASSUME UNCHANGED <<input, processed, job>>,
             \A q \in Procs : pc'[q] \in {pc[q], "main", "off"}
      PROVE  DirInv'
  BY <1>0 DEF DirInv, OneDirectory, InPlace, At, Writing
<1>1. ASSUME NEW f \in Files, NEW s \in Scans, Arrive(f, s) PROVE DirInv'
  <2>1. /\ input' = [input EXCEPT ![f] = s] /\ input[f] = NoScan
        /\ processed' = processed /\ processed[f] = NoScan
        /\ pc' = pc /\ job' = job
    BY <1>1 DEF Arrive, procVars
  <2>2. OneDirectory'
    BY <1>t, <2>1 DEF OneDirectory, DirInv
  <2>3. ASSUME NEW q \in Procs PROVE InPlace(q)'
    <3>1. pc[q] \in Writing \cup {"quarantine"} =>
            job[q].file \in Files /\ (pc[q] \in Writing => job[q].scan \in Scans)
      BY DEF IndInv, JobOK, HasFile, HasScan, Writing
    <3> QED
      BY <1>t, <2>1, <3>1, ScanAssumption DEF DirInv, InPlace, At, Writing
  <2> QED
    BY <2>2, <2>3 DEF DirInv
<1>2. ASSUME NEW f \in Files, FinishWriting(f) PROVE DirInv'
  BY <1>0, <1>2 DEF FinishWriting, procVars
<1>3. ASSUME NEW p \in Procs, Start(p) \/ DropConnection(p) PROVE DirInv'
  BY <1>0, <1>3, <1>t DEF Start, DropConnection, Goto, diskVars
<1>4. ASSUME NEW p \in Procs, Crash(p) PROVE DirInv'
  BY <1>4, <1>t DEF Crash, Die, Goto, diskVars, DirInv, OneDirectory,
     InPlace, At, Writing
<1>5. ASSUME NEW p \in Procs, Step(p) PROVE DirInv'
  <2>1. CASE UNCHANGED <<input, processed>>
    <3>1. OneDirectory'
      BY <2>1 DEF DirInv, OneDirectory
    <3>2. ASSUME NEW q \in Procs, q # p PROVE InPlace(q)'
      BY <1>5, <2>1, <3>2, StepOfOne DEF IndInv, DirInv, InPlace, At, Writing
    <3>3. InPlace(p)'
      BY <1>5, InPlaceOwnStep DEF DirInv
    <3> QED
      BY <3>1, <3>2, <3>3 DEF DirInv
  <2>2. CASE /\ Moving(p) /\ MoveToProcessed(job[p].file)
             /\ pc'[p] \in {"presence", "load"}
    <3>1. OneDirectory'
      BY <2>2, <1>t, MoveFinds DEF DirInv, OneDirectory, MoveToProcessed
    <3>2. ASSUME NEW q \in Procs PROVE InPlace(q)'
      <4>1. CASE q = p
        BY <2>2, <4>1 DEF InPlace, At, Writing
      <4>2. CASE q # p
        <5>1. ~Working(q)
          BY <2>2, <4>2, Alone DEF IndInv, Moving, Working, Dead, Starting
        <5>2. pc'[q] = pc[q]
          BY <1>5, <4>2, StepOfOne DEF IndInv
        <5> QED
          BY <5>1, <5>2 DEF Working, Dead, Starting, InPlace, At, Writing
      <4> QED
        BY <4>1, <4>2
    <3> QED
      BY <3>1, <3>2 DEF DirInv
  <2> QED
    BY <1>5, <2>1, <2>2, DirStepCases DEF IndInv
<1>6. CASE UNCHANGED vars
  BY <1>0, <1>6 DEF vars
<1> QED
  BY <1>1, <1>2, <1>3, <1>4, <1>5, <1>6 DEF Next, Environment

(* Whatever fails, an image that was delivered stays in one of the two     *)
(* directories, when the scanner does not use names again (imageio.c:143,  *)
(* imageio.c:166).                                                         *)
THEOREM ScansAreKept ==
  ASSUME FreshNames
  PROVE  Spec => NoScanLost
<1>1. ASSUME IndInv, DirInv, [Next]_vars
      PROVE  [\A s \in Scans : Kept(s) => Kept(s)']_vars
  <2> SUFFICES ASSUME NEW s \in Scans, NEW g \in Files, input[g] = s \/ processed[g] = s
               PROVE  input'[g] = s \/ processed'[g] = s
    BY DEF Kept
  <2>t. /\ input \in [Files -> Scans \cup {NoScan}]
        /\ processed \in [Files -> Scans \cup {NoScan}]
        /\ s # NoScan
    BY <1>1, ScanAssumption DEF IndInv, TypeOK
  <2>1. ASSUME NEW f \in Files, NEW x \in Scans, Arrive(f, x)
        PROVE  input'[g] = s \/ processed'[g] = s
    BY <2>1, <2>t DEF Arrive
  <2>2. CASE UNCHANGED <<input, processed>>
    BY <2>2
  <2>3. ASSUME NEW p \in Procs, Step(p)
        PROVE  input'[g] = s \/ processed'[g] = s
    BY <1>1, <2>t, <2>2, <2>3, DirStepCases, MoveFinds
       DEF IndInv, MoveToProcessed
  <2>4. CASE \/ \E f \in Files : FinishWriting(f)
             \/ \E p \in Procs : Start(p) \/ Crash(p) \/ DropConnection(p)
             \/ UNCHANGED vars
    BY <2>2, <2>4 DEF FinishWriting, Start, Crash, DropConnection, diskVars, vars
  <2> QED
    BY <1>1, <2>1, <2>3, <2>4 DEF Next, Environment
<1>2. IndInv /\ DirInv /\ [Next]_vars => DirInv'
  BY DirStep
<1> QED
  BY <1>1, <1>2, DirInit, Invariance, PTL DEF Spec, NoScanLost

-----------------------------------------------------------------------------
(* Results.  No two files of the spool share the name of their result.     *)
OneName == \A f, g \in Files : f.base = g.base => f = g

(* A step writes at most the result of the file the process is at.         *)
LEMMA ResultStepCases ==
  ASSUME TypeOK, NEW p \in Procs, Step(p)
  PROVE  \/ UNCHANGED <<results, png>>
         \/ /\ pc[p] \in Writing
            /\ \A b \in Bases : b # job[p].file.base =>
                 results'[b] = results[b] /\ png'[b] = png[b]
<1>t. results \in [Bases -> [Exts -> Contents]] /\ png \in [Bases -> Contents]
  BY DEF TypeOK
<1>1. CASE OpenResult(p) \/ WriteText(p)
  BY <1>1, <1>t DEF OpenResult, WriteText, At, Writing
<1>2. CASE SavePng(p)
  BY <1>2, <1>t DEF SavePng, At, Writing
<1>3. CASE TestDbConnection(p) \/ LockFile(p) \/ ListFiles(p)
           \/ ConnectDb(p) \/ LoadFails(p) \/ NoBarcode(p)
           \/ LoseBarcode(p) \/ Undecoded(p) \/ Recognise(p)
           \/ FinishPass(p) \/ Wake(p)
  BY <1>3 DEF TestDbConnection, LockFile, ListFiles, ConnectDb, LoadFails,
     NoBarcode, LoseBarcode, Undecoded, Recognise, FinishPass, Wake, diskVars
<1>4. CASE MoveFileToQuarantine(p) \/ RenameSource(p)
           \/ CheckScanPresence(p) \/ BeginBlob(p) \/ CreateBlob(p)
           \/ WriteBlob(p) \/ EndBlob(p) \/ InsertScan(p) \/ LinkFirst(p)
  BY <1>4 DEF MoveFileToQuarantine, RenameSource, CheckScanPresence,
     BeginBlob, CreateBlob, WriteBlob, EndBlob, InsertScan, LinkFirst, diskVars
<1> QED
  BY <1>1, <1>2, <1>3, <1>4 DEF Step

(* What has left the spool is finished.                                    *)
LEMMA Settled ==
  ASSUME FreshNames, OneName, IndInv, DirInv, [Next]_vars,
         NEW f \in Files, processed[f] # NoScan
  PROVE  /\ processed'[f] = processed[f]
         /\ results'[f.base] = results[f.base]
         /\ png'[f.base] = png[f.base]
<1>t. processed \in [Files -> Scans \cup {NoScan}]
  BY DEF IndInv, TypeOK
<1>1. ASSUME NEW g \in Files, NEW x \in Scans, Arrive(g, x)
      PROVE  UNCHANGED <<processed, results, png>>
  BY <1>1 DEF Arrive
<1>2. CASE \/ \E g \in Files : FinishWriting(g)
           \/ \E p \in Procs : Start(p) \/ Crash(p) \/ DropConnection(p)
           \/ UNCHANGED vars
  BY <1>2 DEF FinishWriting, Start, Crash, DropConnection, diskVars, vars
<1>3. ASSUME NEW p \in Procs, Step(p)
      PROVE  /\ processed'[f] = processed[f]
             /\ results'[f.base] = results[f.base]
             /\ png'[f.base] = png[f.base]
  <2>1. processed'[f] = processed[f]
    BY <1>3, <1>t, DirStepCases, MoveFinds DEF IndInv, MoveToProcessed
  <2>2. ASSUME pc[p] \in Writing PROVE job[p].file \in Files /\ job[p].file # f
    <3>1. job[p].file \in Files /\ job[p].scan # NoScan
      BY <2>2, ScanAssumption DEF IndInv, JobOK, HasFile, HasScan, Writing
    <3>2. input[job[p].file] # NoScan
      BY <2>2, <3>1 DEF DirInv, InPlace
    <3> QED
      BY <3>1, <3>2 DEF DirInv, OneDirectory
  <2>3. f.base \in Bases
    BY BaseOfFile
  <2> QED
    BY <1>3, <2>1, <2>2, <2>3, ResultStepCases DEF IndInv, OneName
<1> QED
  BY <1>1, <1>2, <1>3 DEF Next, Environment

(* No later pass, restart or duplicate touches the result, the picture or  *)
(* the source of what has left the spool, when names are used once         *)
(* (imageio.c:110-144).                                                    *)
THEOREM ResultsAreStable ==
  ASSUME FreshNames, OneName
  PROVE  Spec => ResultStable
<1>1. ASSUME IndInv, DirInv, [Next]_vars
      PROVE  [\A f \in Files : processed[f] # NoScan =>
                /\ processed'[f] = processed[f]
                /\ results'[f.base] = results[f.base]
                /\ png'[f.base] = png[f.base]]_vars
  BY <1>1, Settled
<1>2. IndInv /\ DirInv /\ [Next]_vars => DirInv'
  BY DirStep
<1> QED
  BY <1>1, <1>2, DirInit, Invariance, PTL DEF Spec, ResultStable

(* How far the result of the file in work has come, on a disk that never   *)
(* fails and with a scanner whose files appear complete.                   *)
SoundDisk == FreshNames /\ OneName /\ Events \cap {"disk", "partial"} = {}

Written(p) ==
  LET b == job[p].file.base IN
  /\ At(p, "quarantine") => Kind[input[job[p].file]] # "page"
  /\ pc[p] \in {"result", "text", "png"} => job[p].seen # "cut"
  /\ pc[p] \in {"png", "rename"} => results[b][job[p].ext] = Whole(job[p].scan)
  /\ At(p, "rename") => png[b] = Whole(job[p].scan)
ResInv == partial = {} /\ ProcessedHasResult /\ \A p \in Procs : Written(p)

LEMMA ResInit == Init => ResInv
  BY DEF Init, ResInv, ProcessedHasResult, Written, At

LEMMA WrittenOwnStep ==
  ASSUME SoundDisk, IndInv, NEW p \in Procs, Written(p), partial = {}, Step(p)
  PROVE  Written(p)'
<1> USE DEF Written, At
<1>t. /\ pc \in [Procs -> Labels] /\ job \in [Procs -> Jobs]
      /\ results \in [Bases -> [Exts -> Contents]]
      /\ png \in [Bases -> Contents]
  BY DEF IndInv, TypeOK
<1>f. ~Failure("disk")
  BY DEF SoundDisk, Failure
<1>e. job[p].ext \in Exts
  BY <1>t DEF Jobs
<1>b. pc[p] \in Writing => job[p].file.base \in Bases
  BY BaseOfFile DEF IndInv, JobOK, HasFile, Writing
<1>1. CASE Undecoded(p)
  <2> PICK f \in Files :
        /\ "undecoded" \in Looks(f)
        /\ job' = [job EXCEPT ![p] = [Job(@.todo \ {f}) EXCEPT !.file = f]]
    BY <1>1 DEF Undecoded
  <2>1. [Job(job[p].todo \ {f}) EXCEPT !.file = f].file = f
    BY DEF Job
  <2>2. job'[p].file = f
    BY <2>1, <1>t
  <2>3. Kind[input[f]] # "page"
    BY DEF Looks
  <2> QED
    BY <1>1, <1>t, <2>2, <2>3 DEF Undecoded, Goto, diskVars
<1>2. CASE Recognise(p)
  <2> PICK f \in Files, k \in Pages, e \in Exts :
        /\ k \in Looks(f)
        /\ job' = [job EXCEPT ![p] = [Job(@.todo \ {f}) EXCEPT
                     !.file = f, !.scan = input[f], !.seen = k, !.ext = e]]
    BY <1>2 DEF Recognise, ExtsOf, Exts
  <2>1. [Job(job[p].todo \ {f}) EXCEPT !.file = f, !.scan = input[f],
                                       !.seen = k, !.ext = e].seen = k
    BY DEF Job
  <2>2. job'[p].seen = k
    BY <2>1, <1>t
  <2>3. k # "cut"
    <3>1. input[f] \in Scans \cup {NoScan}
      BY DEF IndInv, TypeOK
    <3> QED
      BY <3>1, ScanAssumption DEF Looks, Kinds
  <2> QED
    BY <1>2, <1>t, <2>2, <2>3 DEF Recognise, Goto
<1>8. CASE OpenResult(p)
  BY <1>8, <1>t DEF OpenResult, Goto, Die
<1>w. \A s : \A k : k # "cut" => Made(s, k) = Whole(s)
  BY DEF Made, Whole
<1>3. CASE WriteText(p)
  <2>1. CASE pc'[p] = "segv"
    BY <2>1
  <2>2. CASE pc'[p] = "png"
    <3>1. results' = [results EXCEPT ![job[p].file.base][job[p].ext] = Whole(job[p].scan)]
          /\ job' = job /\ pc[p] = "text"
      BY <1>3, <1>f, <1>t, <1>w, <2>2 DEF WriteText, Die, Goto
    <3>2. job[p].file.base \in Bases
      BY <1>3, <1>b DEF WriteText, Writing
    <3> QED
      BY <1>t, <1>e, <2>2, <3>1, <3>2
  <2> QED
    BY <1>3, <1>t, <2>1, <2>2 DEF WriteText, Die, Goto
<1>4. CASE SavePng(p)
  <2>1. png' = [png EXCEPT ![job[p].file.base] = Whole(job[p].scan)]
    BY <1>4, <1>f, <1>w DEF SavePng
  <2>2. job[p].file.base \in Bases /\ pc[p] = "png"
    BY <1>4, <1>b DEF SavePng, Writing
  <2> QED
    BY <1>4, <1>t, <2>1, <2>2 DEF SavePng, Goto
<1>5. CASE ListFiles(p) \/ ConnectDb(p) \/ LoadFails(p) \/ FinishPass(p)
  BY <1>5, <1>t, EndPassCases DEF IndInv, ListFiles, ConnectDb, LoadFails,
     FinishPass, Goto
<1>6. CASE TestDbConnection(p) \/ LockFile(p) \/ NoBarcode(p)
           \/ LoseBarcode(p) \/ Wake(p)
  <2> HIDE DEF At
  <2>1. pc'[p] \in {"lock", "off", "list", "load", "segv"}
    BY <1>6, <1>t DEF TestDbConnection, LockFile, NoBarcode, LoseBarcode,
       Wake, Goto, Die, AtFile, At
  <2> QED
    BY <2>1 DEF At
<1>7. CASE RenameSource(p) \/ CheckScanPresence(p) \/ BeginBlob(p)
           \/ CreateBlob(p) \/ WriteBlob(p) \/ EndBlob(p) \/ InsertScan(p)
           \/ LinkFirst(p) \/ MoveFileToQuarantine(p)
  <2>1. pc'[p] \in Storing \cup {"presence", "link", "load", "off"}
    BY <1>7, <1>t DEF RenameSource, CheckScanPresence, BeginBlob, CreateBlob,
       WriteBlob, EndBlob, InsertScan, LinkFirst, Goto, NextFile, Storing,
       MoveFileToQuarantine, Die
  <2> QED
    BY <2>1 DEF Storing
<1> QED
  BY <1>1, <1>2, <1>3, <1>4, <1>5, <1>6, <1>7, <1>8 DEF Step

(* A page enters processed_directory when its result is complete.          *)
LEMMA MovedHasResult ==
  ASSUME IndInv, DirInv, NEW p \in Procs, Moving(p), Written(p)
  PROVE  LET s == input[job[p].file]
             b == job[p].file.base
         IN  Kind[s] = "page" => /\ \E e \in Exts : results[b][e] = Whole(s)
                                 /\ png[b] = Whole(s)
<1>1. job[p].ext \in Exts
  BY DEF IndInv, TypeOK, Jobs
<1> QED
  BY <1>1 DEF Moving, DirInv, InPlace, Writing, Written, At

LEMMA ResStep ==
  ASSUME SoundDisk, IndInv, DirInv, ResInv, [Next]_vars
  PROVE  ResInv'
<1>t. /\ input \in [Files -> Scans \cup {NoScan}]
      /\ processed \in [Files -> Scans \cup {NoScan}]
      /\ pc \in [Procs -> Labels] /\ job \in [Procs -> Jobs]
  BY DEF IndInv, TypeOK
<1>s. FreshNames /\ OneName
  BY DEF SoundDisk
<1>h. (\A f \in Files : processed'[f] = processed[f]) => ProcessedHasResult'
  BY <1>s, Settled DEF ResInv, ProcessedHasResult
<1>0. ASSUME UNCHANGED <<input, processed, results, png, job>>, partial' = {},
             \A q \in Procs : pc'[q] \in {pc[q], "main", "off"}
      PROVE  ResInv'
  BY <1>0, <1>h DEF ResInv, Written, At
<1>1. ASSUME NEW f \in Files, NEW s \in Scans, Arrive(f, s) PROVE ResInv'
  <2>1. /\ input' = [input EXCEPT ![f] = s] /\ input[f] = NoScan
        /\ UNCHANGED <<processed, results, png, pc, job>>
    BY <1>1 DEF Arrive, procVars
  <2>2. partial' = {}
    BY <1>1 DEF Arrive, SoundDisk, Failure, ResInv
  <2>3. ASSUME NEW q \in Procs PROVE Written(q)'
    <3>1. At(q, "quarantine") => job[q].file \in Files /\ input[job[q].file] # NoScan
      BY DEF IndInv, JobOK, HasFile, DirInv, InPlace, At
    <3> QED
      BY <1>t, <2>1, <3>1 DEF ResInv, Written, At
  <2> QED
    BY <1>h, <2>1, <2>2, <2>3 DEF ResInv
<1>2. ASSUME NEW f \in Files, FinishWriting(f) PROVE ResInv'
  BY <1>2 DEF FinishWriting, ResInv
<1>3. ASSUME NEW p \in Procs, Start(p) \/ DropConnection(p) PROVE ResInv'
  BY <1>0, <1>3, <1>t DEF Start, DropConnection, Goto, diskVars, ResInv
<1>4. ASSUME NEW p \in Procs, Crash(p) PROVE ResInv'
  <2>1. /\ UNCHANGED <<input, processed, results, png, partial>>
        /\ pc' = [pc EXCEPT ![p] = "off"] /\ job' = [job EXCEPT ![p] = Job({})]
    BY <1>4 DEF Crash, Die, Goto, diskVars
  <2> QED
    BY <1>h, <1>t, <2>1 DEF ResInv, Written, At
<1>5. ASSUME NEW p \in Procs, Step(p) PROVE ResInv'
  <2>1. partial' = {}
    <3>1. partial' = partial
      <4>1. CASE TestDbConnection(p) \/ LockFile(p) \/ ListFiles(p)
                 \/ ConnectDb(p) \/ LoadFails(p) \/ NoBarcode(p)
                 \/ LoseBarcode(p) \/ Undecoded(p) \/ Recognise(p)
                 \/ FinishPass(p) \/ Wake(p)
        BY <4>1 DEF TestDbConnection, LockFile, ListFiles, ConnectDb, LoadFails,
           NoBarcode, LoseBarcode, Undecoded, Recognise, FinishPass, Wake, diskVars
      <4>2. CASE MoveFileToQuarantine(p) \/ OpenResult(p) \/ WriteText(p)
                 \/ SavePng(p) \/ RenameSource(p) \/ CheckScanPresence(p)
                 \/ BeginBlob(p) \/ CreateBlob(p) \/ WriteBlob(p)
                 \/ EndBlob(p) \/ InsertScan(p) \/ LinkFirst(p)
        BY <4>2 DEF MoveFileToQuarantine, OpenResult, WriteText, SavePng,
           RenameSource, CheckScanPresence, BeginBlob, CreateBlob, WriteBlob,
           EndBlob, InsertScan, LinkFirst, diskVars
      <4> QED
        BY <1>5, <4>1, <4>2 DEF Step
    <3> QED
      BY <3>1 DEF ResInv
  <2>2. ProcessedHasResult'
    <3>1. CASE UNCHANGED <<input, processed>>
      BY <1>h, <3>1
    <3>2. CASE Moving(p) /\ MoveToProcessed(job[p].file)
      <4>1. UNCHANGED <<results, png>>
        BY <1>5, <3>2 DEF Step, Moving, At, AtFile,
           TestDbConnection, LockFile, ListFiles, ConnectDb, LoadFails,
           NoBarcode, LoseBarcode, Undecoded, Recognise, FinishPass, Wake,
           MoveFileToQuarantine, OpenResult, WriteText,
           SavePng, RenameSource, CheckScanPresence, BeginBlob, CreateBlob,
           WriteBlob, EndBlob, InsertScan, LinkFirst
      <4>2. \A f \in Files : f # job[p].file => processed'[f] = processed[f]
        BY <3>2, <1>t DEF MoveToProcessed
      <4>3. processed'[job[p].file] = input[job[p].file]
        BY <3>2, <1>t, <1>s, MoveFinds DEF MoveToProcessed
      <4>4. Written(p)
        BY DEF ResInv
      <4> QED
        BY <3>2, <4>1, <4>2, <4>3, <4>4, MovedHasResult DEF ResInv, ProcessedHasResult
    <3> QED
      BY <1>5, <3>1, <3>2, DirStepCases DEF IndInv
  <2>3. ASSUME NEW q \in Procs PROVE Written(q)'
    <3>1. CASE q = p
      BY <1>5, <3>1, WrittenOwnStep DEF ResInv
    <3>2. CASE q # p
      <4>1. pc'[q] = pc[q] /\ job'[q] = job[q]
        BY <1>5, <3>2, StepOfOne DEF IndInv
      <4>2. CASE Moving(p) \/ pc[p] \in Writing
        <5>1. ~Working(q)
          BY <3>2, <4>2, Alone DEF IndInv, Moving, Writing, Working, Dead, Starting
        <5> QED
          BY <4>1, <5>1 DEF Working, Dead, Starting, Written, At
      <4>3. CASE UNCHANGED <<input, results, png>>
        BY <4>1, <4>3 DEF ResInv, Written, At
      <4> QED
        BY <1>5, <4>2, <4>3, DirStepCases, ResultStepCases DEF IndInv
    <3> QED
      BY <3>1, <3>2
  <2> QED
    BY <2>1, <2>2, <2>3 DEF ResInv
<1>6. CASE UNCHANGED vars
  BY <1>0, <1>6 DEF vars, ResInv
<1> QED
  BY <1>1, <1>2, <1>3, <1>4, <1>5, <1>6 DEF Next, Environment

(* A page leaves the spool only when its result and its picture are        *)
(* completely on the disk, whatever crashes: a crash costs a repetition.   *)
(* A disk that fails is left out since nobody tests fclose and pixWrite    *)
(* (imageio.c:138, 142).                                                   *)
THEOREM ProcessedPagesHaveResults ==
  ASSUME SoundDisk
  PROVE  Spec => []ProcessedHasResult
<1>1. IndInv /\ DirInv /\ [Next]_vars => DirInv'
  BY DirStep DEF SoundDisk
<1>2. IndInv /\ DirInv /\ ResInv /\ [Next]_vars => ResInv'
  BY ResStep
<1>3. ResInv => ProcessedHasResult
  BY DEF ResInv
<1> QED
  BY <1>1, <1>2, <1>3, DirInit, ResInit, Invariance, PTL DEF Spec

-----------------------------------------------------------------------------
(* Rows.  Renaming does not fail either; statements and connections may.   *)
SoundStore == SoundDisk /\ "rename" \notin Events

(* From the presence check to the INSERT: the result is there and the      *)
(* source away; no row names the process's large object yet.  It gets its  *)
(* content in a transaction, unless a failure has been ignored, and is the *)
(* page's own when the row is inserted.                                    *)
Backed(p) ==
  LET j == job[p]
      b == job[p].file.base
  IN
  /\ pc[p] \in {"presence"} \cup Storing =>
       /\ processed[j.file] = j.scan
       /\ results[b][j.ext] = Whole(j.scan)
       /\ png[b] = Whole(j.scan)
  /\ At(p, "begin") => conn[p] \in {"idle", "lost"}
  /\ pc[p] \in {"creat", "write", "end"} =>
       conn[p] \in {"open", "lost"} \/ j.scan \in ignored
  /\ pc[p] \in {"write", "end"} =>
       /\ j.oid \in DOMAIN blobs /\ blobs[j.oid] \in {Torn(j.scan), Absent}
       /\ \A i \in DOMAIN pola : pola[i].image # j.oid
  /\ At(p, "end") => j.image = Whole(j.scan)
  /\ At(p, "insert") /\ conn[p] = "idle" =>
       j.oid \in DOMAIN blobs /\ OwnImage(j.scan, j.oid)
ImagesExist == \A i \in DOMAIN pola : pola[i].image \in DOMAIN blobs
StoreInv == ImagesExist /\ RowBacked /\ \A p \in Procs : Backed(p)

LEMMA StoreInit == Init => StoreInv
  BY DEF Init, StoreInv, ImagesExist, RowBacked, Backed, At, Storing

(* The links an UPDATE makes leave verdict and image alone.                *)
LEMMA LinkKeepsImages ==
  ASSUME NEW t \in Seq(Rows), NEW i \in DOMAIN t
  PROVE  Link(t)[i].image = t[i].image /\ Link(t)[i].debug = t[i].debug
<1>1. t[i] \in Rows
  OBVIOUS
<1>2. \/ Link(t)[i] = [t[i] EXCEPT !.first_id = RowOf(t, t[i].first_ser_st)]
      \/ Link(t)[i] = t[i]
  BY DEF Link
<1> QED
  BY <1>1, <1>2 DEF Rows

(* What a step does to the large objects: nothing, a new empty one behind  *)
(* the others, or the content of the one the process is writing.           *)
LEMMA BlobStep ==
  ASSUME TypeOK, NEW p \in Procs, Step(p)
  PROVE  \/ blobs' = blobs
         \/ At(p, "creat") /\ \E c : blobs' = Append(blobs, c)
         \/ At(p, "end") /\ blobs' = [blobs EXCEPT ![job[p].oid] = job[p].image]
<1>1. CASE CreateBlob(p) \/ EndBlob(p)
  BY <1>1 DEF CreateBlob, EndBlob
<1>2. CASE TestDbConnection(p) \/ LockFile(p) \/ ListFiles(p)
           \/ ConnectDb(p) \/ LoadFails(p) \/ NoBarcode(p)
           \/ LoseBarcode(p) \/ Undecoded(p) \/ Recognise(p)
           \/ FinishPass(p) \/ Wake(p)
  BY <1>2 DEF TestDbConnection, LockFile, ListFiles, ConnectDb, LoadFails,
     NoBarcode, LoseBarcode, Undecoded, Recognise, FinishPass, Wake, dbVars
<1>3. CASE MoveFileToQuarantine(p) \/ OpenResult(p) \/ WriteText(p)
           \/ SavePng(p) \/ RenameSource(p) \/ CheckScanPresence(p)
           \/ BeginBlob(p) \/ WriteBlob(p) \/ InsertScan(p) \/ LinkFirst(p)
  BY <1>3 DEF MoveFileToQuarantine, OpenResult, WriteText, SavePng,
     RenameSource, CheckScanPresence, BeginBlob, WriteBlob, InsertScan,
     LinkFirst, dbVars
<1> QED
  BY <1>1, <1>2, <1>3 DEF Step

(* What was ignored stays on record.                                       *)
LEMMA IgnoredStays ==
  ASSUME [Next]_vars
  PROVE  ignored \subseteq ignored'
<1>1. ASSUME NEW p \in Procs, Step(p) PROVE ignored \subseteq ignored'
  <2>1. CASE TestDbConnection(p) \/ LockFile(p) \/ ListFiles(p)
             \/ ConnectDb(p) \/ LoadFails(p) \/ NoBarcode(p)
             \/ LoseBarcode(p) \/ Undecoded(p) \/ Recognise(p)
             \/ FinishPass(p) \/ Wake(p)
    BY <2>1 DEF TestDbConnection, LockFile, ListFiles, ConnectDb, LoadFails,
       NoBarcode, LoseBarcode, Undecoded, Recognise, FinishPass, Wake, dbVars
  <2>2. CASE MoveFileToQuarantine(p) \/ OpenResult(p) \/ WriteText(p)
             \/ SavePng(p) \/ RenameSource(p) \/ CheckScanPresence(p)
             \/ CreateBlob(p) \/ InsertScan(p) \/ LinkFirst(p)
    BY <2>2 DEF MoveFileToQuarantine, OpenResult, WriteText, SavePng,
       RenameSource, CheckScanPresence, CreateBlob, InsertScan, LinkFirst, dbVars
  <2>3. CASE BeginBlob(p) \/ WriteBlob(p) \/ EndBlob(p)
    BY <2>3 DEF BeginBlob, WriteBlob, EndBlob, Ignore
  <2> QED
    BY <1>1, <2>1, <2>2, <2>3 DEF Step
<1>2. CASE \/ \E f \in Files, s \in Scans : Arrive(f, s)
           \/ \E f \in Files : FinishWriting(f)
           \/ \E p \in Procs : Start(p) \/ Crash(p) \/ DropConnection(p)
           \/ UNCHANGED vars
  BY <1>2 DEF Arrive, FinishWriting, Start, Crash, DropConnection, dbVars, vars
<1> QED
  BY <1>1, <1>2 DEF Next, Environment

(* The blobs that rows name stay as they are.                              *)
LEMMA NamedBlobsStay ==
  ASSUME IndInv, StoreInv, [Next]_vars, NEW i \in DOMAIN pola
  PROVE  /\ pola[i].image \in DOMAIN blobs'
         /\ blobs'[pola[i].image] = blobs[pola[i].image]
<1>t. blobs \in Seq(Contents)
  BY DEF IndInv, TypeOK
<1>i. pola[i].image \in DOMAIN blobs
  BY DEF StoreInv, ImagesExist
<1>1. CASE blobs' = blobs
  BY <1>1, <1>i
<1>2. ASSUME NEW p \in Procs, Step(p)
      PROVE  /\ pola[i].image \in DOMAIN blobs'
             /\ blobs'[pola[i].image] = blobs[pola[i].image]
  <2>1. CASE \E c : blobs' = Append(blobs, c)
    BY <1>t, <1>i, <2>1
  <2>2. CASE At(p, "end") /\ blobs' = [blobs EXCEPT ![job[p].oid] = job[p].image]
    <3>1. pola[i].image # job[p].oid
      BY <2>2 DEF StoreInv, Backed, At
    <3> QED
      BY <1>i, <2>2, <3>1
  <2> QED
    BY <1>1, <1>2, <2>1, <2>2, BlobStep DEF IndInv
<1>3. CASE \/ \E f \in Files, s \in Scans : Arrive(f, s)
           \/ \E f \in Files : FinishWriting(f)
           \/ \E p \in Procs : Start(p) \/ Crash(p) \/ DropConnection(p)
           \/ UNCHANGED vars
  BY <1>1, <1>3 DEF Arrive, FinishWriting, Start, Crash, DropConnection, dbVars, vars
<1> QED
  BY <1>2, <1>3 DEF Next, Environment

(* A page and its large object, seen from a row.                           *)
Backing(ser, dbg, img) ==
  \E f \in Files :
    LET s == processed[f] IN
    /\ s # NoScan /\ Serial[s] = ser
    /\ \E e \in Exts : DebugOf(e) = dbg /\ results[f.base][e] = Whole(s)
    /\ OwnImage(s, img)

LEMMA BackingStays ==
  ASSUME SoundStore, IndInv, DirInv, StoreInv, [Next]_vars,
         NEW i \in DOMAIN pola, NEW ser, NEW dbg, NEW img,
         pola[i].ser_st = ser, pola[i].debug = dbg, pola[i].image = img
  PROVE  Backing(ser, dbg, img)'
<1>1. PICK f \in Files :
        /\ processed[f] # NoScan /\ Serial[processed[f]] = ser
        /\ \E e \in Exts : DebugOf(e) = dbg /\ results[f.base][e] = Whole(processed[f])
        /\ OwnImage(processed[f], img)
  BY DEF StoreInv, RowBacked
<1>2. /\ processed'[f] = processed[f] /\ results'[f.base] = results[f.base]
  BY <1>1, Settled DEF SoundStore, SoundDisk
<1>3. blobs'[img] = blobs[img]
  BY NamedBlobsStay
<1> QED
  BY <1>1, <1>2, <1>3, IgnoredStays DEF Backing, OwnImage

LEMMA RowsStay ==
  ASSUME SoundStore, IndInv, DirInv, StoreInv, [Next]_vars,
         pola' \in {pola, Link(pola)}
  PROVE  ImagesExist' /\ RowBacked'
<1>1. /\ DOMAIN pola' = DOMAIN pola
      /\ \A i \in DOMAIN pola : /\ pola'[i].ser_st = pola[i].ser_st
                                /\ pola'[i].debug = pola[i].debug
                                /\ pola'[i].image = pola[i].image
  BY LinkKeepsRows, LinkKeepsImages DEF IndInv, TypeOK
<1>2. ImagesExist'
  BY <1>1, NamedBlobsStay DEF ImagesExist
<1>3. ASSUME NEW i \in DOMAIN pola'
      PROVE  \E ser, dbg, img : /\ ser = pola'[i].ser_st /\ dbg = pola'[i].debug
                                /\ img = pola'[i].image /\ Backing(ser, dbg, img)'
  <2> PICK ser, dbg, img : ser = pola[i].ser_st /\ dbg = pola[i].debug /\ img = pola[i].image
    OBVIOUS
  <2>1. Backing(ser, dbg, img)'
    BY <1>1, BackingStays
  <2> QED
    BY <1>1, <2>1
<1> QED
  BY <1>2, <1>3 DEF RowBacked, Backing, OwnImage

LEMMA BackedOwnStep ==
  ASSUME SoundStore, IndInv, DirInv, ResInv, StoreInv, NEW p \in Procs, Step(p)
  PROVE  Backed(p)'
<1> USE DEF Backed, At, Storing
<1>t. /\ pc \in [Procs -> Labels] /\ job \in [Procs -> Jobs]
      /\ conn \in [Procs -> ConnStates] /\ blobs \in Seq(Contents)
      /\ processed \in [Files -> Scans \cup {NoScan}]
      /\ job[p] \in Jobs
  BY DEF IndInv, TypeOK
<1>f. ~Failure("rename")
  BY DEF SoundStore, Failure
<1>b. Backed(p) /\ Written(p) /\ InPlace(p)
  BY DEF StoreInv, ResInv, DirInv
<1>1. CASE RenameSource(p)
  <2>1. CASE pc'[p] = "presence"
    <3>1. /\ MoveToProcessed(job[p].file) /\ job' = job
          /\ UNCHANGED <<results, png>> /\ pc[p] = "rename"
      BY <1>1, <1>f, <1>t, <2>1 DEF RenameSource, NextFile, Goto
    <3>2. job[p].file \in Files
      BY <3>1 DEF IndInv, JobOK, HasFile
    <3> QED
      BY <1>b, <1>t, <2>1, <3>1, <3>2 DEF MoveToProcessed, Written, InPlace, Writing
  <2>2. CASE pc'[p] = "load"
    BY <2>2
  <2> QED
    BY <1>1, <1>t, <2>1, <2>2 DEF RenameSource, Goto, NextFile
<1>2. CASE CheckScanPresence(p)
  BY <1>2, <1>b, <1>t DEF CheckScanPresence, Goto, NextFile, diskVars
<1>9. CASE BeginBlob(p)
  <2>1. CASE pc'[p] = "link"
    BY <2>1
  <2>2. CASE pc'[p] = "creat"
    <3>1. /\ UNCHANGED <<job, processed, results, png>> /\ pc[p] = "begin"
          /\ \/ conn' = [conn EXCEPT ![p] = IF @ = "idle" THEN "open" ELSE @]
             \/ Ignore(p)
      BY <1>9, <1>t, <2>2 DEF BeginBlob, Goto, diskVars
    <3>2. conn[p] \in {"idle", "lost"}
      BY <1>b, <3>1
    <3>3. conn'[p] \in {"open", "lost"} \/ job[p].scan \in ignored'
      BY <1>t, <3>1, <3>2 DEF Ignore
    <3> QED
      BY <1>b, <2>2, <3>1, <3>3
  <2> QED
    BY <1>9, <1>t, <2>1, <2>2 DEF BeginBlob, Goto
<1>3. CASE CreateBlob(p)
  <2>1. CASE pc'[p] = "link"
    BY <2>1
  <2>2. CASE pc'[p] = "write"
    <3>1. /\ conn' = conn /\ pc[p] = "creat"
          /\ blobs' = Append(blobs, IF conn[p] = "open" THEN Absent
                                   ELSE Torn(job[p].scan))
          /\ job' = [job EXCEPT ![p] = [@ EXCEPT !.oid = Len(blobs) + 1]]
          /\ UNCHANGED <<processed, results, png, pola, ignored>>
      BY <1>3, <1>t, <2>2 DEF CreateBlob, Goto, diskVars
    <3>2. /\ job'[p].oid = Len(blobs) + 1
          /\ job'[p].file = job[p].file /\ job'[p].scan = job[p].scan
          /\ job'[p].ext = job[p].ext
      BY <1>t, <3>1 DEF Jobs
    <3>3. /\ Len(blobs) + 1 \in DOMAIN blobs' /\ Len(blobs) + 1 \notin DOMAIN blobs
          /\ blobs'[Len(blobs) + 1] \in {Torn(job[p].scan), Absent}
      BY <1>t, <3>1
    <3>4. \A i \in DOMAIN pola : pola[i].image # Len(blobs) + 1
      BY <3>3 DEF StoreInv, ImagesExist
    <3> QED
      BY <1>b, <2>2, <3>1, <3>2, <3>3, <3>4
  <2> QED
    BY <1>3, <1>t, <2>1, <2>2 DEF CreateBlob, Goto
<1>4. CASE WriteBlob(p)
  <2>1. /\ UNCHANGED <<processed, results, png, pola, blobs>>
        /\ pc[p] = "write" /\ pc'[p] = "end"
        /\ job' = [job EXCEPT ![p] = [@ EXCEPT !.image = png[job[p].file.base]]]
        /\ (conn' = conn /\ ignored' = ignored) \/ Ignore(p)
    BY <1>4, <1>t DEF WriteBlob, Goto, diskVars
  <2>2. /\ job'[p].image = png[job[p].file.base] /\ job'[p].oid = job[p].oid
        /\ job'[p].file = job[p].file /\ job'[p].scan = job[p].scan
        /\ job'[p].ext = job[p].ext
    BY <1>t, <2>1 DEF Jobs
  <2>3. conn'[p] \in {"open", "lost"} \/ job'[p].scan \in ignored'
    BY <1>b, <2>1, <2>2 DEF Ignore
  <2> QED
    BY <1>b, <2>1, <2>2, <2>3
<1>5. CASE EndBlob(p)
  <2>1. /\ UNCHANGED <<job, processed, results, png, pola>>
        /\ pc[p] = "end" /\ pc'[p] = "insert"
        /\ conn' = [conn EXCEPT ![p] = IF @ = "lost" THEN @ ELSE "idle"]
    BY <1>5, <1>t DEF EndBlob, Goto, diskVars
  <2>2. \/ blobs' = [blobs EXCEPT ![job[p].oid] = job[p].image]
        \/ blobs' = blobs /\ conn[p] # "open" /\ ignored' = ignored
        \/ blobs' = blobs /\ Ignore(p)
    BY <1>5 DEF EndBlob
  <2>3. /\ job[p].oid \in DOMAIN blobs /\ blobs[job[p].oid] \in {Torn(job[p].scan), Absent}
        /\ conn[p] \in {"open", "lost"} \/ job[p].scan \in ignored
        /\ job[p].image = Whole(job[p].scan)
    BY <1>b, <2>1
  <2>4. job[p].oid \in DOMAIN blobs'
    BY <2>2, <2>3
  <2>5. conn'[p] = "idle" => OwnImage(job[p].scan, job[p].oid)'
    <3>1. CASE blobs' = [blobs EXCEPT ![job[p].oid] = job[p].image]
      BY <2>1, <2>3, <3>1 DEF OwnImage
    <3>2. CASE blobs' = blobs /\ conn[p] # "open" /\ ignored' = ignored
      BY <1>t, <2>1, <2>3, <3>2 DEF OwnImage
    <3>3. CASE blobs' = blobs /\ Ignore(p)
      BY <2>1, <2>3, <3>3 DEF OwnImage, Ignore
    <3> QED
      BY <2>2, <3>1, <3>2, <3>3
  <2> QED
    BY <1>b, <2>1, <2>4, <2>5
<1>6. CASE InsertScan(p) \/ LinkFirst(p) \/ MoveFileToQuarantine(p)
           \/ OpenResult(p) \/ WriteText(p) \/ SavePng(p)
  <2> HIDE DEF At
  <2>1. pc'[p] \in {"link", "load", "off", "text", "png", "rename", "segv"}
    BY <1>6, <1>t DEF InsertScan, LinkFirst, MoveFileToQuarantine, OpenResult,
       WriteText, SavePng, Goto, NextFile, Die
  <2> QED
    BY <2>1 DEF At
<1>7. CASE ListFiles(p) \/ ConnectDb(p) \/ LoadFails(p) \/ FinishPass(p)
  <2>1. pc'[p] \in {"sleep", "off", "connect", "load"}
    BY <1>7, <1>t, EndPassCases DEF IndInv, ListFiles, ConnectDb, LoadFails,
       FinishPass, Goto
  <2> QED
    BY <2>1
<1>8. CASE TestDbConnection(p) \/ LockFile(p) \/ NoBarcode(p)
           \/ LoseBarcode(p) \/ Wake(p) \/ Undecoded(p) \/ Recognise(p)
  <2> HIDE DEF At
  <2>1. pc'[p] \in {"lock", "off", "list", "load", "segv", "quarantine", "result"}
    BY <1>8, <1>t DEF TestDbConnection, LockFile, NoBarcode, LoseBarcode,
       Wake, Undecoded, Recognise, Goto, Die, AtFile, At
  <2> QED
    BY <2>1 DEF At
<1> QED
  BY <1>1, <1>2, <1>3, <1>4, <1>5, <1>6, <1>7, <1>8, <1>9 DEF Step

(* The row that is inserted is backed.                                     *)
LEMMA InsertBacked ==
  ASSUME SoundStore, IndInv, DirInv, StoreInv, [Next]_vars,
         NEW p \in Procs, InsertScan(p)
  PROVE  ImagesExist' /\ RowBacked'
<1>t. pola \in Seq(Rows) /\ job[p] \in Jobs
  BY DEF IndInv, TypeOK
<1>1. CASE pola' = pola
  BY <1>1, RowsStay
<1>2. CASE conn[p] = "idle" /\ pola' = Append(pola, RowFor(job[p]))
  <2> DEFINE n == Len(pola) + 1
  <2>1. /\ DOMAIN pola = 1..Len(pola) /\ Len(pola) \in Nat
        /\ DOMAIN pola' = 1..n
        /\ \A i \in DOMAIN pola : pola'[i] = pola[i]
        /\ pola'[n] = RowFor(job[p])
    BY <1>2, <1>t
  <2>2. UNCHANGED <<processed, results, blobs, ignored>> /\ pc[p] = "insert"
    BY DEF InsertScan, At, diskVars
  <2>3. /\ job[p].file \in Files /\ job[p].scan \in Scans /\ job[p].ext \in Exts
    BY <1>t, <2>2 DEF IndInv, JobOK, HasFile, HasScan, Storing, Jobs
  <2>4. /\ processed[job[p].file] = job[p].scan
        /\ results[job[p].file.base][job[p].ext] = Whole(job[p].scan)
        /\ job[p].oid \in DOMAIN blobs /\ OwnImage(job[p].scan, job[p].oid)
    BY <1>2, <2>2 DEF StoreInv, Backed, At, Storing
  <2>5. /\ pola'[n].ser_st = Serial[job[p].scan]
        /\ pola'[n].debug = DebugOf(job[p].ext)
        /\ pola'[n].image = job[p].oid
    BY <2>1 DEF RowFor
  <2> DEFINE Good(i) == /\ pola'[i].image \in DOMAIN blobs
                        /\ \E f \in Files :
                             LET s == processed[f] IN
                             /\ s # NoScan /\ Serial[s] = pola'[i].ser_st
                             /\ \E e \in Exts : /\ DebugOf(e) = pola'[i].debug
                                                /\ results[f.base][e] = Whole(s)
                             /\ OwnImage(s, pola'[i].image)
  <2>6. Good(n)
    BY <2>3, <2>4, <2>5, ScanAssumption
  <2>7. ASSUME NEW i \in DOMAIN pola PROVE Good(i)
    BY <2>1 DEF StoreInv, ImagesExist, RowBacked
  <2>8. \A i \in DOMAIN pola' : Good(i)
    BY <2>1, <2>6, <2>7
  <2> QED
    BY <2>2, <2>8 DEF ImagesExist, RowBacked, OwnImage
<1> QED
  BY <1>1, <1>2 DEF InsertScan

LEMMA StoreStep ==
  ASSUME SoundStore, IndInv, DirInv, ResInv, StoreInv, [Next]_vars
  PROVE  StoreInv'
<1>t. /\ pc \in [Procs -> Labels] /\ job \in [Procs -> Jobs]
      /\ conn \in [Procs -> ConnStates]
  BY DEF IndInv, TypeOK
<1>r. pola' = pola => ImagesExist' /\ RowBacked'
  BY RowsStay
<1>0. ASSUME UNCHANGED <<processed, results, png, pola, blobs, ignored>>,
             \A q \in Procs : \/ pc'[q] \in {"main", "off"}
                              \/ /\ pc'[q] = pc[q] /\ job'[q] = job[q]
                                 /\ conn'[q] \in {conn[q], "lost"}
      PROVE  StoreInv'
  <2>1. ASSUME NEW q \in Procs PROVE Backed(q)'
    <3>1. CASE pc'[q] \in {"main", "off"}
      BY <3>1 DEF Backed, At, Storing
    <3>2. CASE /\ pc'[q] = pc[q] /\ job'[q] = job[q]
               /\ conn'[q] \in {conn[q], "lost"}
      BY <1>0, <3>2 DEF StoreInv, Backed, At, OwnImage
    <3> QED
      BY <1>0, <3>1, <3>2
  <2> QED
    BY <1>0, <1>r, <2>1 DEF StoreInv
<1>1. ASSUME NEW f \in Files, NEW s \in Scans, Arrive(f, s) PROVE StoreInv'
  BY <1>0, <1>1 DEF Arrive, procVars, dbVars
<1>2. ASSUME NEW f \in Files, FinishWriting(f) PROVE StoreInv'
  BY <1>0, <1>2 DEF FinishWriting, procVars, dbVars
<1>3. ASSUME NEW p \in Procs, Start(p) \/ Crash(p) \/ DropConnection(p)
      PROVE  StoreInv'
  BY <1>0, <1>3, <1>t DEF Start, Crash, DropConnection, Die, Goto, diskVars, dbVars
<1>4. ASSUME NEW p \in Procs, Step(p) PROVE StoreInv'
  <2>1. ImagesExist' /\ RowBacked'
    <3>1. CASE InsertScan(p)
      BY <3>1, InsertBacked
    <3>2. CASE pola' \in {pola, Link(pola)}
      BY <3>2, RowsStay
    <3>3. CASE ~InsertScan(p)
      <4>1. pola' \in {pola, Link(pola)}
        <5>1. CASE TestDbConnection(p) \/ LockFile(p) \/ ListFiles(p)
                   \/ ConnectDb(p) \/ LoadFails(p) \/ NoBarcode(p)
                   \/ LoseBarcode(p) \/ Undecoded(p) \/ Recognise(p)
                   \/ FinishPass(p) \/ Wake(p)
          BY <5>1 DEF TestDbConnection, LockFile, ListFiles, ConnectDb,
             LoadFails, NoBarcode, LoseBarcode, Undecoded, Recognise,
             FinishPass, Wake, dbVars
        <5>2. CASE MoveFileToQuarantine(p) \/ OpenResult(p) \/ WriteText(p)
                   \/ SavePng(p) \/ RenameSource(p) \/ CheckScanPresence(p)
                   \/ BeginBlob(p) \/ CreateBlob(p) \/ WriteBlob(p)
                   \/ EndBlob(p) \/ LinkFirst(p)
          BY <5>2 DEF MoveFileToQuarantine, OpenResult, WriteText, SavePng,
             RenameSource, CheckScanPresence, BeginBlob, CreateBlob,
             WriteBlob, EndBlob, LinkFirst, dbVars
        <5> QED
          BY <1>4, <3>3, <5>1, <5>2 DEF Step
      <4> QED
        BY <3>2, <4>1
    <3> QED
      BY <3>1, <3>3
  <2>2. ASSUME NEW q \in Procs PROVE Backed(q)'
    <3>1. CASE q = p
      BY <1>4, <3>1, BackedOwnStep
    <3>2. CASE q # p
      <4>1. pc'[q] = pc[q] /\ job'[q] = job[q] /\ conn'[q] = conn[q]
        BY <1>4, <3>2, StepOfOne DEF IndInv
      <4>2. CASE Working(p)
        <5>1. ~Working(q)
          BY <3>2, <4>2, Alone DEF IndInv
        <5> QED
          BY <4>1, <5>1 DEF Working, Dead, Starting, Backed, At, Storing
      <4>3. CASE ~Working(p)
        <5>1. pc[p] \notin Writing /\ ~Moving(p) /\ ~At(p, "creat") /\ ~At(p, "end")
              /\ pc[p] \notin {"insert", "link"}
          BY <4>3 DEF Working, Dead, Starting, Writing, Moving, At
        <5>2. UNCHANGED <<processed, results, png>> /\ blobs' = blobs
          BY <1>4, <5>1, DirStepCases, ResultStepCases, BlobStep DEF IndInv
        <5>3. pola' = pola /\ ignored' = ignored
          <6>1. ~InsertScan(p) /\ ~LinkFirst(p)
            BY <5>1 DEF InsertScan, LinkFirst, At
          <6> QED
            BY <1>4, <4>3, <6>1 DEF Step, Working, Dead, Starting, At, AtFile,
               TestDbConnection, LockFile, ListFiles,
               ConnectDb, LoadFails, NoBarcode, LoseBarcode, Undecoded,
               Recognise, FinishPass, Wake, MoveFileToQuarantine, OpenResult,
               WriteText, SavePng, RenameSource, CheckScanPresence,
               BeginBlob, CreateBlob, WriteBlob, EndBlob, dbVars
        <5> QED
          BY <4>1, <5>2, <5>3 DEF StoreInv, Backed, At, OwnImage
      <4> QED
        BY <4>2, <4>3
    <3> QED
      BY <3>1, <3>2
  <2> QED
    BY <2>1, <2>2 DEF StoreInv
<1>5. CASE UNCHANGED vars
  BY <1>0, <1>5 DEF vars
<1> QED
  BY <1>1, <1>2, <1>3, <1>4, <1>5 DEF Next, Environment

(* A row is never ahead of the disk nor of its own picture, whatever       *)
(* crashes, connections and statements fail: the page is in                *)
(* processed_directory, its result complete and of the verdict the row     *)
(* gives, and its large object the page's own picture, committed and       *)
(* whole, unless a failure of "begin", lo_write or "end" was ignored in    *)
(* its insertion: then it may be empty or missing (database.c:66-219).     *)
THEOREM RowsAreBacked ==
  ASSUME SoundStore
  PROVE  Spec => []RowBacked
<1>1. IndInv /\ DirInv /\ [Next]_vars => DirInv'
  BY DirStep DEF SoundStore, SoundDisk
<1>2. IndInv /\ DirInv /\ ResInv /\ [Next]_vars => ResInv'
  BY ResStep DEF SoundStore
<1>3. IndInv /\ DirInv /\ ResInv /\ StoreInv /\ [Next]_vars => StoreInv'
  BY StoreStep
<1>4. StoreInv => RowBacked
  BY DEF StoreInv
<1> QED
  BY <1>1, <1>2, <1>3, <1>4, DirInit, ResInit, StoreInit, Invariance, PTL DEF Spec

-----------------------------------------------------------------------------
(* Links.  The UPDATE is still to come, on a connection that works, or     *)
(* there is nothing to link.                                               *)
LinkComes == \/ Link(pola) = pola
             \/ \E p \in Procs : At(p, "link") /\ conn[p] = "idle"

LEMMA LinkStep ==
  ASSUME Events \cap {"crash", "lost", "query"} = {},
         IndInv, LinkComes, [Next]_vars
  PROVE  LinkComes'
<1>t. /\ pc \in [Procs -> Labels] /\ conn \in [Procs -> ConnStates]
      /\ pola \in Seq(Rows)
  BY DEF IndInv, TypeOK
<1>f. ~Failure("crash") /\ ~Failure("lost") /\ ~Failure("query")
  BY DEF Failure
<1>0. ASSUME UNCHANGED <<pc, conn, pola>> PROVE LinkComes'
  BY <1>0 DEF LinkComes, At
<1>1. CASE \/ \E f \in Files, s \in Scans : Arrive(f, s)
           \/ \E f \in Files : FinishWriting(f)
           \/ UNCHANGED vars
  BY <1>0, <1>1 DEF Arrive, FinishWriting, procVars, dbVars, vars
<1>2. ASSUME NEW p \in Procs, Start(p) PROVE LinkComes'
  BY <1>2, <1>t DEF Start, Goto, Dead, dbVars, LinkComes, At
<1>3. ASSUME NEW p \in Procs, Crash(p) \/ DropConnection(p) PROVE LinkComes'
  BY <1>3, <1>f DEF Crash, DropConnection
<1>4. ASSUME NEW p \in Procs, Step(p) PROVE LinkComes'
  <2>1. CASE InsertScan(p)
    BY <1>f, <1>t, <2>1, Alone DEF InsertScan, Goto, At, LinkComes, IndInv,
       Working, Dead, Starting
  <2>2. CASE LinkFirst(p)
    <3>1. CASE pola' = Link(pola)
      BY <1>t, <3>1, LinkTwice DEF LinkComes
    <3>2. CASE conn[p] # "idle" /\ pola' = pola
      <4>1. \A q \in Procs : At(q, "link") => q = p
        BY <2>2, Alone DEF LinkFirst, At, IndInv, Working, Dead, Starting
      <4> QED
        BY <3>2, <4>1 DEF LinkComes
    <3> QED
      BY <1>f, <2>2, <3>1, <3>2 DEF LinkFirst
  <2>3. CASE ~InsertScan(p) /\ ~LinkFirst(p)
    <3>1. pola' = pola
      <4>1. CASE TestDbConnection(p) \/ LockFile(p) \/ ListFiles(p)
                 \/ ConnectDb(p) \/ LoadFails(p) \/ NoBarcode(p)
                 \/ LoseBarcode(p) \/ Undecoded(p) \/ Recognise(p)
                 \/ FinishPass(p) \/ Wake(p)
        BY <4>1 DEF TestDbConnection, LockFile, ListFiles, ConnectDb,
           LoadFails, NoBarcode, LoseBarcode, Undecoded, Recognise,
           FinishPass, Wake, dbVars
      <4>2. CASE MoveFileToQuarantine(p) \/ OpenResult(p) \/ WriteText(p)
                 \/ SavePng(p) \/ RenameSource(p) \/ CheckScanPresence(p)
                 \/ BeginBlob(p) \/ CreateBlob(p) \/ WriteBlob(p) \/ EndBlob(p)
        BY <4>2 DEF MoveFileToQuarantine, OpenResult, WriteText, SavePng,
           RenameSource, CheckScanPresence, BeginBlob, CreateBlob,
           WriteBlob, EndBlob, dbVars
      <4> QED
        BY <1>4, <2>3, <4>1, <4>2 DEF Step
    <3>2. CASE Link(pola) = pola
      BY <3>1, <3>2 DEF LinkComes
    <3>3. ASSUME NEW q \in Procs, At(q, "link"), conn[q] = "idle"
          PROVE  LinkComes'
      <4>1. q # p
        BY <1>4, <2>3, <3>3 DEF Step, At, AtFile,
           TestDbConnection, LockFile, ListFiles,
           ConnectDb, LoadFails, NoBarcode, LoseBarcode, Undecoded,
           Recognise, FinishPass, Wake, MoveFileToQuarantine, OpenResult,
           WriteText, SavePng, RenameSource, CheckScanPresence,
           BeginBlob, CreateBlob, WriteBlob, EndBlob
      <4> QED
        BY <1>4, <3>3, <4>1, StepOfOne DEF IndInv, LinkComes, At
    <3> QED
      BY <3>2, <3>3 DEF LinkComes
  <2> QED
    BY <2>1, <2>2, <2>3
<1> QED
  BY <1>1, <1>2, <1>3, <1>4 DEF Next, Environment

(* Between two pages every row whose first page is known points at it,     *)
(* whatever the order of the scans, as long as no process dies and no      *)
(* statement fails between the INSERT and the UPDATE (database.c:101-113). *)
THEOREM PagesAreLinked ==
  ASSUME Events \cap {"crash", "lost", "query"} = {}
  PROVE  Spec => []PagesLinked
<1>1. Init => LinkComes
  BY DEF Init, LinkComes, Link
<1>2. IndInv /\ LinkComes /\ [Next]_vars => LinkComes'
  BY LinkStep
<1>3. LinkComes => PagesLinked
  BY DEF LinkComes, PagesLinked
<1> QED
  BY <1>1, <1>2, <1>3, Invariance, PTL DEF Spec

-----------------------------------------------------------------------------
(* The end of a pass.  How many steps a process has to make at most before *)
(* it exits or sleeps: so many for each file that is left of the list, and *)
(* the rest of the steps for the file in work.                             *)
Idle  == Dead \cup {"sleep"}
Early == Starting \cup {"list"}

StepsLeft(l) ==
  CASE l \in {"list", "load"}                  -> 1
    [] l \in {"lock", "connect", "quarantine", "link"} -> 2
    [] l \in {"main", "insert"}                -> 3
    [] l = "end"      -> 4
    [] l = "write"    -> 5
    [] l = "creat"    -> 6
    [] l = "begin"    -> 7
    [] l = "presence" -> 8
    [] l = "rename"   -> 9
    [] l = "png"      -> 10
    [] l = "text"     -> 11
    [] l = "result"   -> 12
    [] l \in Idle     -> 0

FilesLeft(p) ==
  IF pc[p] \in Early THEN Cardinality(Files) + 1 ELSE Cardinality(job[p].todo)

PassLeft(p) ==
  IF pc[p] \in Idle THEN 0 ELSE 16 * FilesLeft(p) + StepsLeft(pc[p])

LEMMA StepsCounted ==
  \A l \in Labels : StepsLeft(l) \in 0..12 /\ (l \notin Idle => StepsLeft(l) > 0)
<1> SUFFICES ASSUME NEW l \in Labels
             PROVE  StepsLeft(l) \in 0..12 /\ (l \notin Idle => StepsLeft(l) > 0)
  OBVIOUS
<1> USE DEF StepsLeft, Idle, Dead
<1>1. CASE l \in Dead \cup {"sleep"}
  BY <1>1
<1>2. CASE l \in Starting
  <2>1. CASE l = "main"
    BY <2>1
  <2>2. CASE l = "lock"
    BY <2>2
  <2> QED
    BY <1>2, <2>1, <2>2 DEF Starting
<1>3. CASE l \in Scanning
  <2>1. CASE l = "list"
    BY <2>1
  <2>2. CASE l = "connect"
    BY <2>2
  <2>3. CASE l = "load"
    BY <2>3
  <2>4. CASE l = "quarantine"
    BY <2>4
  <2>5. CASE l = "result"
    BY <2>5
  <2>6. CASE l = "text"
    BY <2>6
  <2>7. CASE l = "png"
    BY <2>7
  <2>8. CASE l = "rename"
    BY <2>8
  <2> QED
    BY <1>3, <2>1, <2>2, <2>3, <2>4, <2>5, <2>6, <2>7, <2>8 DEF Scanning
<1>4. CASE l \in Storing \cup {"presence", "link"}
  <2>1. CASE l = "begin"
    BY <2>1
  <2>2. CASE l = "creat"
    BY <2>2
  <2>3. CASE l = "write"
    BY <2>3
  <2>4. CASE l = "end"
    BY <2>4
  <2>5. CASE l = "insert"
    BY <2>5
  <2>6. CASE l = "presence"
    BY <2>6
  <2>7. CASE l = "link"
    BY <2>7
  <2> QED
    BY <1>4, <2>1, <2>2, <2>3, <2>4, <2>5, <2>6, <2>7 DEF Storing
<1> QED
  BY <1>1, <1>2, <1>3, <1>4 DEF Labels

LEMMA FilesCounted ==
  ASSUME IsFiniteSet(Files), TypeOK, NEW p \in Procs
  PROVE  /\ FilesLeft(p) \in Nat
         /\ IsFiniteSet(job[p].todo)
         /\ Cardinality(job[p].todo) \in 0..Cardinality(Files)
         /\ Cardinality(Files) \in Nat
<1>1. job[p].todo \in SUBSET Files
  BY DEF TypeOK, Jobs
<1>2. /\ IsFiniteSet(job[p].todo) /\ Cardinality(job[p].todo) \in Nat
      /\ Cardinality(job[p].todo) <= Cardinality(Files)
      /\ Cardinality(Files) \in Nat
  BY <1>1, FS_Subset, FS_CardinalityType
<1> QED
  BY <1>2 DEF FilesLeft

(* Every step of the program but the end of the sleep: the process stops,  *)
(* it is on its way to its list, it takes a file from the list, or it goes *)
(* on with the file in work (daemon.c:183-311).                            *)
LEMMA StepCases ==
  ASSUME TypeOK, NEW p \in Procs, Step(p), ~Wake(p)
  PROVE  /\ pc[p] \notin Idle
         /\ \/ pc'[p] \in Idle
            \/ /\ pc[p] \in Early /\ pc'[p] \in Early
               /\ StepsLeft(pc'[p]) < StepsLeft(pc[p])
            \/ pc[p] \in Early /\ pc'[p] \in {"connect", "load"}
            \/ /\ pc[p] \notin Early /\ pc'[p] \notin Early
               /\ job'[p].todo = job[p].todo
               /\ StepsLeft(pc'[p]) < StepsLeft(pc[p])
            \/ /\ pc[p] = "load" /\ pc'[p] \notin Early
               /\ \E f \in job[p].todo : job'[p].todo = job[p].todo \ {f}
<1>t. pc \in [Procs -> Labels] /\ job \in [Procs -> Jobs]
  BY DEF TypeOK
<1>j. \A t \in SUBSET Files : Job(t).todo = t
  BY JobTyped
<1>s. job[p].todo \in SUBSET Files
  BY <1>t DEF Jobs
<1> USE DEF Idle, Early, Dead, Starting, At, Goto, StepsLeft
<1>1. CASE TestDbConnection(p) \/ LockFile(p)
  BY <1>1, <1>t DEF TestDbConnection, LockFile, Die
<1>2. CASE ListFiles(p)
  BY <1>2, <1>t, EndPassCases DEF ListFiles
<1>3. CASE ConnectDb(p)
  BY <1>3, <1>t, EndPassCases DEF ConnectDb
<1>4. CASE LoadFails(p) \/ FinishPass(p) \/ LoseBarcode(p)
  BY <1>4, <1>t, EndPassCases DEF LoadFails, FinishPass, LoseBarcode, AtFile, Die
<1>5. CASE NoBarcode(p)
  BY <1>5, <1>t DEF NoBarcode, AtFile, Jobs
<1>6. CASE Undecoded(p)
  <2>1. PICK f \in Files :
          /\ AtFile(p, f)
          /\ job' = [job EXCEPT ![p] = [Job(@.todo \ {f}) EXCEPT !.file = f]]
    BY <1>6 DEF Undecoded
  <2>2. job'[p].todo = job[p].todo \ {f}
    BY <2>1, <1>t DEF Job
  <2> QED
    BY <1>6, <1>t, <2>1, <2>2 DEF Undecoded, AtFile
<1>7. CASE Recognise(p)
  <2>1. PICK f \in Files :
          /\ AtFile(p, f)
          /\ \E k, e :
               job' = [job EXCEPT ![p] = [Job(@.todo \ {f}) EXCEPT
                         !.file = f, !.scan = input[f], !.seen = k, !.ext = e]]
    BY <1>7 DEF Recognise
  <2>2. job'[p].todo = job[p].todo \ {f}
    BY <2>1, <1>t DEF Job
  <2> QED
    BY <1>7, <1>t, <2>1, <2>2 DEF Recognise, AtFile
<1>8. CASE MoveFileToQuarantine(p) \/ OpenResult(p) \/ WriteText(p)
  BY <1>8, <1>t, <1>j, <1>s DEF MoveFileToQuarantine, OpenResult, WriteText,
     Die, NextFile
<1>9. CASE SavePng(p) \/ RenameSource(p)
  BY <1>9, <1>t, <1>j, <1>s DEF SavePng, RenameSource, NextFile
<1>10. CASE CheckScanPresence(p) \/ BeginBlob(p)
  BY <1>10, <1>t, <1>j, <1>s DEF CheckScanPresence, BeginBlob, NextFile
<1>11. CASE CreateBlob(p) \/ WriteBlob(p) \/ EndBlob(p)
  BY <1>11, <1>t DEF CreateBlob, WriteBlob, EndBlob, Jobs
<1>12. CASE InsertScan(p) \/ LinkFirst(p)
  BY <1>12, <1>t, <1>j, <1>s DEF InsertScan, LinkFirst, NextFile
<1> QED
  BY <1>1, <1>2, <1>3, <1>4, <1>5, <1>6, <1>7, <1>8, <1>9, <1>10, <1>11, <1>12
     DEF Step

LEMMA OwnStepShrinks ==
  ASSUME IsFiniteSet(Files), TypeOK, TypeOK', NEW p \in Procs, Step(p), ~Wake(p)
  PROVE  PassLeft(p)' < PassLeft(p)
<1> DEFINE n == FilesLeft(p)
           m == FilesLeft(p)'
           k == StepsLeft(pc[p])
           j == StepsLeft(pc'[p])
<1>t. pc \in [Procs -> Labels] /\ pc' \in [Procs -> Labels]
  BY DEF TypeOK
<1>1. /\ IsFiniteSet(job[p].todo)
      /\ Cardinality(job[p].todo) \in 0..Cardinality(Files)
      /\ Cardinality(Files) \in Nat /\ n \in Nat
  BY FilesCounted
<1>2. job'[p].todo \in SUBSET Files
  BY DEF TypeOK, Jobs
<1>3. Cardinality(job'[p].todo) \in 0..Cardinality(Files)
  BY <1>1, <1>2, FS_Subset, FS_CardinalityType
<1>4. /\ n = IF pc[p] \in Early THEN Cardinality(Files) + 1
             ELSE Cardinality(job[p].todo)
      /\ m = IF pc'[p] \in Early THEN Cardinality(Files) + 1
             ELSE Cardinality(job'[p].todo)
  BY DEF FilesLeft
<1>5. k \in 0..12 /\ j \in 0..12 /\ pc[p] \notin Idle /\ k > 0
  BY <1>t, StepsCounted, StepCases
<1>6. /\ PassLeft(p) = 16 * n + k
      /\ PassLeft(p)' = IF pc'[p] \in Idle THEN 0 ELSE 16 * m + j
  BY <1>5 DEF PassLeft
<1>7. m \in Nat
  BY <1>1, <1>3, <1>4
<1> HIDE DEF n, m, k, j
<1>8. \/ pc'[p] \in Idle
      \/ m = n /\ j < k
      \/ m < n
  <2>1. CASE pc[p] \in Early /\ pc'[p] \in Early /\ StepsLeft(pc'[p]) < StepsLeft(pc[p])
    BY <1>4, <2>1 DEF j, k
  <2>2. CASE pc[p] \in Early /\ pc'[p] \in {"connect", "load"}
    BY <1>1, <1>3, <1>4, <2>2 DEF Early, Starting
  <2>3. CASE /\ pc[p] \notin Early /\ pc'[p] \notin Early
             /\ job'[p].todo = job[p].todo
             /\ StepsLeft(pc'[p]) < StepsLeft(pc[p])
    BY <1>4, <2>3 DEF j, k
  <2>4. CASE /\ pc[p] = "load" /\ pc'[p] \notin Early
             /\ \E f \in job[p].todo : job'[p].todo = job[p].todo \ {f}
    <3>1. Cardinality(job'[p].todo) = Cardinality(job[p].todo) - 1
      BY <1>1, <2>4, FS_RemoveElement
    <3>2. pc[p] \notin Early
      BY <2>4 DEF Early, Starting
    <3> QED
      BY <1>1, <1>4, <2>4, <3>1, <3>2
  <2> QED
    BY <2>1, <2>2, <2>3, <2>4, StepCases
<1> QED
  BY <1>1, <1>5, <1>6, <1>7, <1>8

(* Half of OneShotEnds, the half that asks for no fairness: whatever it    *)
(* finds and whatever fails, every step of a process that is not asleep    *)
(* leaves it fewer to make, nobody else gives it more, and only a start or *)
(* the end of the sleep begin a new pass.  Files that arrive in the        *)
(* meantime wait (daemon.c:190: the list is made once).                    *)
THEOREM PassShrinks ==
  ASSUME IsFiniteSet(Files)
  PROVE  Spec => [][\A p \in Procs :
           /\ PassLeft(p) \in Nat /\ PassLeft(p)' \in Nat
           /\ Step(p) /\ ~Wake(p) => PassLeft(p)' < PassLeft(p)
           /\ PassLeft(p)' > PassLeft(p) => Start(p) \/ Wake(p)]_vars
<1>1. ASSUME TypeOK, TypeOK', Next, NEW p \in Procs
      PROVE  /\ PassLeft(p) \in Nat /\ PassLeft(p)' \in Nat
             /\ Step(p) /\ ~Wake(p) => PassLeft(p)' < PassLeft(p)
             /\ PassLeft(p)' > PassLeft(p) => Start(p) \/ Wake(p)
  <2>t. /\ pc \in [Procs -> Labels] /\ pc' \in [Procs -> Labels]
        /\ job \in [Procs -> Jobs] /\ job' \in [Procs -> Jobs]
    BY <1>1 DEF TypeOK
  <2>1. PassLeft(p) \in Nat
    <3>1. FilesLeft(p) \in Nat /\ StepsLeft(pc[p]) \in Nat
      BY <1>1, <2>t, FilesCounted, StepsCounted
    <3> QED
      BY <3>1 DEF PassLeft
  <2>2. PassLeft(p)' \in Nat
    <3>1. job'[p].todo \in SUBSET Files
      BY <2>t DEF Jobs
    <3>2. Cardinality(job'[p].todo) \in Nat /\ Cardinality(Files) \in Nat
      BY <3>1, FS_Subset, FS_CardinalityType
    <3>3. FilesLeft(p)' \in Nat /\ StepsLeft(pc'[p]) \in Nat
      BY <3>2, <2>t, StepsCounted DEF FilesLeft
    <3> QED
      BY <3>3 DEF PassLeft
  <2>3. Step(p) /\ ~Wake(p) => PassLeft(p)' < PassLeft(p)
    BY <1>1, OwnStepShrinks
  <2>4. ASSUME pc'[p] = pc[p], job'[p] = job[p]
        PROVE  PassLeft(p)' = PassLeft(p)
    BY <2>4 DEF PassLeft, FilesLeft
  <2>5. ASSUME NEW f \in Files, FinishWriting(f) \/ \E s \in Scans : Arrive(f, s)
        PROVE  PassLeft(p)' = PassLeft(p)
    BY <2>4, <2>5 DEF Arrive, FinishWriting, procVars
  <2>6. ASSUME NEW q \in Procs, Start(q) \/ Crash(q) \/ DropConnection(q)
        PROVE  PassLeft(p)' > PassLeft(p) => Start(p)
    <3>1. CASE DropConnection(q)
      BY <2>1, <2>4, <3>1 DEF DropConnection
    <3>2. CASE q # p /\ (Start(q) \/ Crash(q))
      BY <2>1, <2>4, <2>t, <3>2 DEF Start, Crash, Goto, Die
    <3>3. CASE q = p /\ Crash(q)
      <4>1. pc'[p] = "off"
        BY <2>t, <3>3 DEF Crash, Goto, Die
      <4>2. PassLeft(p)' = 0
        BY <4>1 DEF PassLeft, Idle, Dead
      <4> QED
        BY <2>1, <4>2
    <3> QED
      BY <2>6, <3>1, <3>2, <3>3
  <2>7. ASSUME NEW q \in Procs, Step(q)
        PROVE  PassLeft(p)' > PassLeft(p) => Wake(p)
    <3>1. CASE q = p
      BY <2>1, <2>2, <2>3, <2>7, <3>1
    <3>2. CASE q # p
      BY <1>1, <2>1, <2>4, <2>7, <3>2, StepOfOne
    <3> QED
      BY <3>1, <3>2
  <2>8. PassLeft(p)' > PassLeft(p) => Start(p) \/ Wake(p)
    <3>1. PassLeft(p)' = PassLeft(p) => ~(PassLeft(p)' > PassLeft(p))
      BY <2>1, <2>2
    <3>2. CASE Environment
      BY <2>5, <2>6, <3>1, <3>2 DEF Environment
    <3>3. CASE \E q \in Procs : Step(q)
      BY <2>7, <3>3
    <3> QED
      BY <1>1, <3>2, <3>3 DEF Next
  <2> QED
    BY <2>1, <2>2, <2>3, <2>8
<1>2. TypeOK /\ TypeOK' /\ [Next]_vars
      => [\A p \in Procs :
            /\ PassLeft(p) \in Nat /\ PassLeft(p)' \in Nat
            /\ Step(p) /\ ~Wake(p) => PassLeft(p)' < PassLeft(p)
            /\ PassLeft(p)' > PassLeft(p) => Start(p) \/ Wake(p)]_vars
  BY <1>1
<1> QED
  BY <1>2, TypeCorrect, PTL DEF Spec

-----------------------------------------------------------------------------
(* The lock belongs to a process that works: whoever exits, is killed or   *)
(* follows NULL has given it back, so the next start gets it               *)
(* (daemon.c:156-181).                                                     *)
LockIsUsed == \A p \in Procs : lock = p => Working(p)

LEMMA LockUsedStep == TypeOK /\ LockIsUsed /\ [Next]_vars => LockIsUsed'
<1> SUFFICES ASSUME TypeOK, LockIsUsed, [Next]_vars, NEW q \in Procs, lock' = q
             PROVE  Working(q)'
  BY DEF LockIsUsed
<1> USE DEF Working, Dead, Starting
<1>w. lock = q => Working(q)
  BY DEF LockIsUsed
<1>t. pc \in [Procs -> Labels] /\ NoProc \notin Procs
  BY ProcAssumption DEF TypeOK
<1>1. ASSUME NEW f \in Files, FinishWriting(f) \/ \E s \in Scans : Arrive(f, s)
      PROVE  Working(q)'
  BY <1>1, <1>w DEF Arrive, FinishWriting, procVars
<1>2. ASSUME NEW p \in Procs, Start(p) \/ Crash(p) \/ DropConnection(p)
      PROVE  Working(q)'
  BY <1>2, <1>t, <1>w DEF Start, Crash, DropConnection, Die, Goto
<1>3. ASSUME NEW p \in Procs, Step(p) PROVE Working(q)'
  <2>1. CASE p # q
    <3>1. pc'[q] = pc[q]
      BY <1>3, <2>1, StepOfOne
    <3>2. lock' = q => lock = q
      BY <1>3, <2>1, <1>t, EndPassCases DEF Step, TestDbConnection, LockFile,
         ListFiles, ConnectDb, LoadFails, NoBarcode, LoseBarcode, Undecoded,
         Recognise, FinishPass, Wake, MoveFileToQuarantine, OpenResult,
         WriteText, SavePng, RenameSource, CheckScanPresence, BeginBlob,
         CreateBlob, WriteBlob, EndBlob, InsertScan, LinkFirst, Die
    <3> QED
      BY <3>1, <3>2, <1>w
  <2>2. CASE p = q
    <3>1. CASE TestDbConnection(p) \/ LockFile(p) \/ LoseBarcode(p)
      BY <2>2, <3>1, <1>t, <1>w DEF TestDbConnection, LockFile, LoseBarcode,
         At, Goto, Die
    <3>2. CASE ListFiles(p) \/ ConnectDb(p) \/ LoadFails(p) \/ FinishPass(p)
      BY <2>2, <3>2, <1>t, <1>w DEF ListFiles, ConnectDb, LoadFails,
         FinishPass, At, AtFile, Goto, EndPass, Die
    <3>3. CASE NoBarcode(p) \/ Undecoded(p) \/ Recognise(p) \/ Wake(p)
      BY <2>2, <3>3, <1>t, <1>w DEF NoBarcode, Undecoded, Recognise, Wake,
         At, AtFile, Goto
    <3>4. CASE MoveFileToQuarantine(p) \/ OpenResult(p) \/ WriteText(p)
      BY <2>2, <3>4, <1>t, <1>w DEF MoveFileToQuarantine, OpenResult,
         WriteText, At, Goto, Die, NextFile
    <3>5. CASE SavePng(p) \/ RenameSource(p) \/ CheckScanPresence(p)
      BY <2>2, <3>5, <1>t, <1>w DEF SavePng, RenameSource,
         CheckScanPresence, At, Goto, NextFile
    <3>6. CASE \/ BeginBlob(p) \/ CreateBlob(p) \/ WriteBlob(p)
               \/ EndBlob(p) \/ InsertScan(p) \/ LinkFirst(p)
      BY <2>2, <3>6, <1>t, <1>w DEF BeginBlob, CreateBlob, WriteBlob,
         EndBlob, InsertScan, LinkFirst, At, Goto, NextFile
    <3> QED
      BY <1>3, <3>1, <3>2, <3>3, <3>4, <3>5, <3>6 DEF Step
  <2> QED
    BY <2>1, <2>2
<1>4. CASE UNCHANGED vars
  BY <1>4, <1>w DEF vars
<1>5. CASE Environment
  BY <1>1, <1>2, <1>5 DEF Environment
<1> QED
  BY <1>3, <1>4, <1>5 DEF Next

(* Nobody who is dead holds the lock: a run that ends has given it back.   *)
THEOREM LockGivenBack == Spec => [](\A p \in Procs : pc[p] \in Dead => lock # p)
<1>1. Init => LockIsUsed
  BY ProcAssumption DEF Init, LockIsUsed
<1>2. TypeOK /\ LockIsUsed /\ [Next]_vars => LockIsUsed'
  BY LockUsedStep
<1>3. LockIsUsed => \A p \in Procs : pc[p] \in Dead => lock # p
  BY DEF LockIsUsed, Working
<1> QED
  BY <1>1, <1>2, <1>3, TypeCorrect, PTL DEF Spec
=============================================================================
