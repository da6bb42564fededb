----------------------------- MODULE ScanDaemon -----------------------------
(***************************************************************************)
(* The steps of the program ochi and of its environment, their fairness,   *)
(* and the properties of the whole.  State and building blocks are in      *)
(* OchiState.                                                              *)
(***************************************************************************)
EXTENDS OchiState

-----------------------------------------------------------------------------
(* Wrong versions of steps, each with one bug the code could well have.    *)
(* The specification uses none of them: put in the place of the step it is *)
(* named after, each one breaks a property.                                *)

(* The result of lockf is not looked at.                                   *)
LockFileUntested(p) ==
  /\ At(p, "lock")
  /\ lock' = p
  /\ Goto(p, "list")
  /\ UNCHANGED <<job, conn, diskVars, dbVars, budget>>

(* The table is asked for the first page of the sheet.                     *)
CheckFirstPresence(p) ==
  /\ At(p, "presence")
  /\ \/ /\ conn[p] = "idle" /\ ~Present(pola, First[Serial[job[p].scan]])
        /\ Goto(p, "begin") /\ UNCHANGED job
     \/ /\ conn[p] # "idle" \/ Present(pola, First[Serial[job[p].scan]])
        /\ NextFile(p)
  /\ UNCHANGED <<lock, conn, diskVars, dbVars, budget>>

(* The source is moved away before its result is written.                  *)
OpenResultAfterRename(p) ==
  LET f == job[p].file IN
  /\ At(p, "result")
  /\ results' = [results EXCEPT ![f.base][job[p].ext] = Torn(job[p].scan)]
  /\ processed' = [processed EXCEPT ![f] = input[f]]
  /\ input' = [input EXCEPT ![f] = NoScan]
  /\ Goto(p, "text")
  /\ UNCHANGED <<lock, job, conn, partial, png, dbVars, budget>>

(* A broken connection is set up again in the middle of an insertion.      *)
EndBlobReconnecting(p) ==
  /\ At(p, "end")
  /\ blobs' = IF conn[p] = "open"
              THEN [blobs EXCEPT ![job[p].oid] = job[p].image] ELSE blobs
  /\ conn' = [conn EXCEPT ![p] = "idle"]
  /\ Goto(p, "insert")
  /\ UNCHANGED <<lock, job, diskVars, pola, ignored, budget>>

(* The source is copied and stays in scan_directory.                       *)
CopySource(p) ==
  /\ At(p, "rename")
  /\ processed' = [processed EXCEPT ![job[p].file] = input[job[p].file]]
  /\ Goto(p, "presence")
  /\ UNCHANGED <<lock, job, conn, input, partial, results, png, dbVars, budget>>

(* Only the row just inserted is linked.                                   *)
LinkNewest(p) ==
  /\ At(p, "link")
  /\ pola' = IF pola = << >> THEN pola
             ELSE [pola EXCEPT ![Len(pola)] = Link(pola)[Len(pola)]]
  /\ NextFile(p)
  /\ UNCHANGED <<lock, conn, diskVars, blobs, ignored, budget>>

(* The target of the quarantine is a directory that does not exist, and    *)
(* the source is removed all the same.                                     *)
MoveNowhere(p) ==
  /\ At(p, "quarantine")
  /\ input' = [input EXCEPT ![job[p].file] = NoScan]
  /\ NextFile(p)
  /\ UNCHANGED <<lock, conn, processed, partial, results, png, dbVars, budget>>

(* The verdict of the file name goes into column debug.                    *)
RowWithExtension(j) == [ser_st       |-> Serial[j.scan],
                        first_ser_st |-> First[Serial[j.scan]],
                        first_id     |-> NoRow,
                        image        |-> j.oid,
                        debug        |-> j.ext]

(* The UPDATE joins without comparing serial numbers.                      *)
LinkUnjoined(p) ==
  /\ At(p, "link")
  /\ pola' = [i \in DOMAIN pola |->
                IF pola[i].first_id = NoRow
                THEN [pola[i] EXCEPT !.first_id = Len(pola)] ELSE pola[i]]
  /\ NextFile(p)
  /\ UNCHANGED <<lock, conn, diskVars, blobs, ignored, budget>>

(* A daemon that cannot connect gives up.                                  *)
ConnectOrExit(p) ==
  /\ At(p, "connect")
  /\ \/ /\ Goto(p, "load")
        /\ conn' = [conn EXCEPT ![p] = "idle"]
        /\ Calm /\ UNCHANGED <<lock, job>>
     \/ Failure("connect") /\ Die(p, "off")
  /\ UNCHANGED <<diskVars, dbVars>>

(* Only first pages go into the database.                                  *)
RenameThenFirstOnly(p) ==
  /\ At(p, "rename")
  /\ processed' = [processed EXCEPT ![job[p].file] = input[job[p].file]]
  /\ input' = [input EXCEPT ![job[p].file] = NoScan]
  /\ \/ IsFirstPage(job[p].scan) /\ Goto(p, "presence") /\ UNCHANGED job
     \/ ~IsFirstPage(job[p].scan) /\ NextFile(p)
  /\ UNCHANGED <<lock, conn, partial, results, png, dbVars, budget>>

(* A file that cannot be read is tried again until it can.                 *)
LoadAgain(p) ==
  /\ \E f \in Files : AtFile(p, f) /\ "corrupt" \in Looks(f)
  /\ Goto(p, "list")
  /\ UNCHANGED <<lock, job, conn, diskVars, dbVars, budget>>

-----------------------------------------------------------------------------
(* The environment                                                         *)

(* The scanner puts image s under the name f.                              *)
Arrive(f, s) ==
  /\ input[f] = NoScan /\ f \notin partial
  /\ FreshNames => processed[f] = NoScan
  /\ \A g \in Files : input[g] # s /\ processed[g] # s
  /\ input' = [input EXCEPT ![f] = s]
  /\ \/ Calm /\ UNCHANGED partial
     \/ Failure("partial") /\ partial' = partial \cup {f}
  /\ UNCHANGED <<procVars, processed, results, png, dbVars>>

FinishWriting(f) ==
  /\ f \in partial
  /\ partial' = partial \ {f}
  /\ UNCHANGED <<procVars, input, processed, results, png, dbVars, budget>>

Start(p) ==
  /\ pc[p] \in Dead
  /\ Goto(p, "main")
  /\ UNCHANGED <<lock, job, conn, diskVars, dbVars, budget>>

Crash(p) ==
  /\ pc[p] \notin Dead
  /\ Failure("crash")
  /\ Die(p, "off")
  /\ UNCHANGED <<diskVars, dbVars>>

(* The server or the network drops the session; an open transaction is     *)
(* rolled back.                                                            *)
DropConnection(p) ==
  /\ conn[p] \in {"idle", "open", "aborted"}
  /\ Failure("lost")
  /\ conn' = [conn EXCEPT ![p] = "lost"]
  /\ UNCHANGED <<pc, lock, job, diskVars, dbVars>>

-----------------------------------------------------------------------------
(* main, daemonize, lock_file, process_scans                               *)

(* main tries the database before it asks for the lock.                    *)
TestDbConnection(p) ==
  /\ At(p, "main")
  /\ \/ Goto(p, "lock") /\ Calm /\ UNCHANGED <<lock, job, conn>>
     \/ UseDb /\ Failure("connect") /\ Die(p, "off")
  /\ UNCHANGED <<diskVars, dbVars>>

(* lockf(F_TLOCK): whoever does not get the lock exits.                    *)
LockFile(p) ==
  /\ At(p, "lock")
  /\ \/ lock = NoProc /\ lock' = p /\ Goto(p, "list") /\ UNCHANGED <<job, conn>>
     \/ lock # NoProc /\ Die(p, "off")
  /\ UNCHANGED <<diskVars, dbVars, budget>>

(* The list is a snapshot: files that arrive later wait for the next pass. *)
ListFiles(p) ==
  LET found == {f \in Files : input[f] # NoScan} IN
  /\ At(p, "list")
  /\ \/ found = {} /\ EndPass(p)
     \/ /\ found # {}
        /\ job' = [job EXCEPT ![p] = Job(found)]
        /\ Goto(p, IF UseDb THEN "connect" ELSE "load")
        /\ UNCHANGED <<lock, conn>>
  /\ UNCHANGED <<diskVars, dbVars, budget>>

ConnectDb(p) ==
  /\ At(p, "connect")
  /\ \/ /\ Goto(p, "load")
        /\ conn' = [conn EXCEPT ![p] = "idle"]
        /\ Calm /\ UNCHANGED <<lock, job>>
     \/ Failure("connect") /\ EndPass(p)
  /\ UNCHANGED <<diskVars, dbVars>>

(* loadimage returns NULL: the whole pass ends here.                       *)
LoadFails(p) ==
  /\ \E f \in Files : AtFile(p, f) /\ "corrupt" \in Looks(f)
  /\ EndPass(p)
  /\ UNCHANGED <<diskVars, dbVars, budget>>

(* No barcode, not even upside down: the file stays where it is.           *)
NoBarcode(p) ==
  /\ \E f \in Files :
       /\ AtFile(p, f) /\ "nobarcode" \in Looks(f)
       /\ job' = [job EXCEPT ![p].todo = @ \ {f}]
  /\ UNCHANGED <<pc, lock, conn, diskVars, dbVars, budget>>

(* The second getCode finds no barcode at all and returns NULL, which      *)
(* process_scans dereferences.                                             *)
LoseBarcode(p) ==
  /\ \E f \in Files : AtFile(p, f) /\ "lostbar" \in Looks(f)
  /\ Die(p, "segv")
  /\ UNCHANGED <<diskVars, dbVars, budget>>

Undecoded(p) ==
  /\ \E f \in Files :
       /\ AtFile(p, f) /\ "undecoded" \in Looks(f)
       /\ job' = [job EXCEPT ![p] = [Job(@.todo \ {f}) EXCEPT !.file = f]]
  /\ Goto(p, "quarantine")
  /\ UNCHANGED <<lock, conn, diskVars, dbVars, budget>>

(* Barcode, student number and answers are read.                           *)
Recognise(p) ==
  /\ \E f \in Files :
       /\ AtFile(p, f)
       /\ \E k \in Looks(f) \cap Pages, e \in ExtsOf(input[f]) :
            job' = [job EXCEPT ![p] = [Job(@.todo \ {f}) EXCEPT
                      !.file = f, !.scan = input[f], !.seen = k, !.ext = e]]
  /\ Goto(p, "result")
  /\ UNCHANGED <<lock, conn, diskVars, dbVars, budget>>

FinishPass(p) ==
  /\ At(p, "load") /\ job[p].todo = {}
  /\ EndPass(p)
  /\ UNCHANGED <<diskVars, dbVars, budget>>

(* The daemon's sleep(10) is over.                                         *)
Wake(p) ==
  /\ At(p, "sleep")
  /\ Goto(p, "list")
  /\ UNCHANGED <<lock, job, conn, diskVars, dbVars, budget>>

-----------------------------------------------------------------------------
(* imageio.c: moveFileToQuarantine, writerezfile                           *)

(* rename(2) from scan_directory to processed_directory.                   *)
MoveToProcessed(f) ==
  /\ processed' = [processed EXCEPT ![f] = input[f]]
  /\ input' = [input EXCEPT ![f] = NoScan]

(* The function says quarantine, its target is processed_directory.        *)
MoveFileToQuarantine(p) ==
  /\ At(p, "quarantine")
  /\ \/ /\ MoveToProcessed(job[p].file) /\ NextFile(p)
        /\ Calm /\ UNCHANGED <<lock, conn>>
     \/ Failure("rename") /\ Die(p, "off") /\ UNCHANGED <<input, processed>>
  /\ UNCHANGED <<partial, results, png, dbVars>>

(* fopen(.., "w") empties a file of an earlier attempt.  Its result is not *)
(* tested: the first fprintf to a NULL stream ends the process.            *)
OpenResult(p) ==
  LET b == job[p].file.base
      e == job[p].ext IN
  /\ At(p, "result")
  /\ \/ /\ results' = [results EXCEPT ![b][e] = Torn(job[p].scan)]
        /\ Goto(p, "text") /\ Calm /\ UNCHANGED <<lock, job, conn>>
     \/ Failure("disk") /\ Die(p, "segv") /\ UNCHANGED results
  /\ UNCHANGED <<input, processed, partial, png, dbVars>>

(* The text reaches the disk at fclose.  ans_array reads the first marker  *)
(* of each list even when there is none.                                   *)
WriteText(p) ==
  LET b == job[p].file.base
      e == job[p].ext IN
  /\ At(p, "text")
  /\ \/ /\ job[p].seen = "nomarkers"
        /\ Die(p, "segv") /\ Calm /\ UNCHANGED results
     \/ /\ job[p].seen # "nomarkers"
        /\ \/ Calm /\ results' = [results EXCEPT ![b][e] = Made(job[p].scan, job[p].seen)]
           \/ Failure("disk") /\ UNCHANGED results
        /\ Goto(p, "png") /\ UNCHANGED <<lock, job, conn>>
  /\ UNCHANGED <<input, processed, partial, png, dbVars>>

(* saveimage ignores what pixWrite returns: the old picture may stay, or   *)
(* part of the new one be written.                                         *)
SavePng(p) ==
  LET b == job[p].file.base IN
  /\ At(p, "png")
  /\ \/ Calm /\ png' = [png EXCEPT ![b] = Made(job[p].scan, job[p].seen)]
     \/ Failure("disk") /\ png' \in {png, [png EXCEPT ![b] = Torn(job[p].scan)]}
  /\ Goto(p, "rename")
  /\ UNCHANGED <<lock, job, conn, input, processed, partial, results, dbVars>>

(* A failed rename is only logged: the file is scanned again next time.    *)
RenameSource(p) ==
  /\ At(p, "rename")
  /\ \/ Calm /\ MoveToProcessed(job[p].file)
     \/ Failure("rename") /\ UNCHANGED <<input, processed>>
  /\ \/ UseDb /\ Goto(p, "presence") /\ UNCHANGED job
     \/ ~UseDb /\ NextFile(p)
  /\ UNCHANGED <<lock, conn, partial, results, png, dbVars>>

-----------------------------------------------------------------------------
(* database.c: db_insert_wrapper and what it calls                         *)

(* A failure whose message db_insert_blob throws away.                     *)
Ignore(p) == ignored' = ignored \cup {job[p].scan}

(* A failed query counts as "already there".                               *)
CheckScanPresence(p) ==
  /\ At(p, "presence")
  /\ \/ /\ conn[p] = "idle" /\ ~Present(pola, Serial[job[p].scan]) /\ Calm
        /\ Goto(p, "begin") /\ UNCHANGED job
     \/ /\ \/ Calm /\ \/ conn[p] # "idle"
                      \/ Present(pola, Serial[job[p].scan])
           \/ Failure("query")
        /\ NextFile(p)
  /\ UNCHANGED <<lock, conn, diskVars, dbVars>>

(* db_insert_blob opens the picture, then begins a transaction; whether it *)
(* could is not looked at.                                                 *)
BeginBlob(p) ==
  /\ At(p, "begin")
  /\ \/ png[job[p].file.base] = Absent /\ Goto(p, "link") /\ Calm
        /\ UNCHANGED <<conn, ignored>>
     \/ /\ png[job[p].file.base] # Absent /\ Goto(p, "creat")
        /\ \/ /\ Calm /\ UNCHANGED ignored
              /\ conn' = [conn EXCEPT ![p] = IF @ = "idle" THEN "open" ELSE @]
           \/ conn[p] = "idle" /\ Failure("begin") /\ Ignore(p) /\ UNCHANGED conn
  /\ UNCHANGED <<lock, job, diskVars, pola, blobs>>

(* A failing lo_creat aborts the transaction, and no "end" follows.        *)
(* Without a transaction the new object is there at once, and empty.       *)
CreateBlob(p) ==
  /\ At(p, "creat")
  /\ \/ /\ conn[p] \in {"idle", "open"} /\ Calm
        /\ blobs' = Append(blobs, IF conn[p] = "open" THEN Absent
                                 ELSE Torn(job[p].scan))
        /\ job' = [job EXCEPT ![p].oid = Len(blobs) + 1]
        /\ Goto(p, "write") /\ UNCHANGED conn
     \/ /\ \/ conn[p] \notin {"idle", "open"} /\ Calm /\ UNCHANGED conn
           \/ /\ conn[p] \in {"idle", "open"} /\ Failure("locreate")
              /\ conn' = [conn EXCEPT ![p] = IF @ = "open" THEN "aborted" ELSE @]
        /\ Goto(p, "link") /\ UNCHANGED <<job, blobs>>
  /\ UNCHANGED <<lock, diskVars, pola, ignored>>

(* lo_open and the loop of lo_write; an error is only logged.  Without a   *)
(* transaction the descriptor is gone before lo_write uses it.             *)
WriteBlob(p) ==
  /\ At(p, "write")
  /\ \/ Calm /\ UNCHANGED <<conn, ignored>>
     \/ /\ conn[p] = "open" /\ Failure("lowrite") /\ Ignore(p)
        /\ conn' = [conn EXCEPT ![p] = "aborted"]
  /\ job' = [job EXCEPT ![p].image = png[job[p].file.base]]
  /\ Goto(p, "end")
  /\ UNCHANGED <<lock, diskVars, pola, blobs>>

(* "end" commits, or rolls back what was aborted or what the server does   *)
(* not accept; blobId is returned whatever it did.                         *)
EndBlob(p) ==
  /\ At(p, "end")
  /\ \/ /\ conn[p] = "open" /\ Calm /\ UNCHANGED ignored
        /\ blobs' = [blobs EXCEPT ![job[p].oid] = job[p].image]
     \/ /\ \/ conn[p] # "open" /\ Calm /\ UNCHANGED ignored
           \/ conn[p] = "open" /\ Failure("commit") /\ Ignore(p)
        /\ UNCHANGED blobs
  /\ conn' = [conn EXCEPT ![p] = IF @ = "lost" THEN @ ELSE "idle"]
  /\ Goto(p, "insert")
  /\ UNCHANGED <<lock, job, diskVars, pola>>

RowFor(j) == [ser_st       |-> Serial[j.scan],
              first_ser_st |-> First[Serial[j.scan]],
              first_id     |-> NoRow,
              image        |-> j.oid,
              debug        |-> DebugOf(j.ext)]

InsertScan(p) ==
  /\ At(p, "insert")
  /\ \/ conn[p] = "idle" /\ Calm /\ pola' = Append(pola, RowFor(job[p]))
     \/ conn[p] # "idle" /\ Calm /\ UNCHANGED pola
     \/ conn[p] = "idle" /\ Failure("query") /\ UNCHANGED pola
  /\ Goto(p, "link")
  /\ UNCHANGED <<lock, job, conn, diskVars, blobs, ignored>>

(* The UPDATE at the end of db_insert_wrapper, whatever db_insert_scan     *)
(* returned; its own result is not looked at.                              *)
LinkFirst(p) ==
  /\ At(p, "link")
  /\ \/ conn[p] = "idle" /\ Calm /\ pola' = Link(pola)
     \/ conn[p] # "idle" /\ Calm /\ UNCHANGED pola
     \/ conn[p] = "idle" /\ Failure("query") /\ UNCHANGED pola
  /\ NextFile(p)
  /\ UNCHANGED <<lock, conn, diskVars, blobs, ignored>>

-----------------------------------------------------------------------------
Step(p) ==
  \/ TestDbConnection(p) \/ LockFile(p) \/ ListFiles(p) \/ ConnectDb(p)
  \/ LoadFails(p) \/ NoBarcode(p) \/ LoseBarcode(p) \/ Undecoded(p)
  \/ Recognise(p) \/ FinishPass(p) \/ Wake(p)
  \/ MoveFileToQuarantine(p)
  \/ OpenResult(p) \/ WriteText(p) \/ SavePng(p) \/ RenameSource(p)
  \/ CheckScanPresence(p) \/ BeginBlob(p) \/ CreateBlob(p) \/ WriteBlob(p)
  \/ EndBlob(p) \/ InsertScan(p) \/ LinkFirst(p)

Environment ==
  \/ \E f \in Files, s \in Scans : Arrive(f, s)
  \/ \E f \in Files : FinishWriting(f)
  \/ \E p \in Procs : Start(p) \/ Crash(p) \/ DropConnection(p)

Next == Environment \/ \E p \in Procs : Step(p)

Spec == Init /\ [][Next]_vars

(* A process that can go on does: nothing in the program waits for another *)
(* process.  The scanner finishes the files it began.  Nobody is obliged   *)
(* to start the program.                                                   *)
Fairness ==
  /\ \A p \in Procs : WF_vars(Step(p))
  /\ \A f \in Files : WF_vars(FinishWriting(f))

FairSpec == Spec /\ Fairness

-----------------------------------------------------------------------------
(* Safety                                                                  *)

(* Only one process at a time is past lock_file: daemon.c promises "only   *)
(* one copy", and everything below leans on it.                            *)
OneWorker == \A p, q \in Procs : Working(p) /\ Working(q) => p = q

(* No page is in the table twice, although the check for it and the INSERT *)
(* are separate statements with a transaction of their own between them,   *)
(* the table has no such constraint, and pages are scanned again.          *)
UniqueSerial ==
  \A i, j \in DOMAIN pola : pola[i].ser_st = pola[j].ser_st => i = j

(* Why: where a process uses its file and its image it has them, a worker  *)
(* holds the lock, and from the check to the INSERT the page is absent.    *)
HasFile == {"quarantine", "result", "text", "png", "rename", "presence"} \cup Storing
HasScan == HasFile \ {"quarantine"}
JobOK ==
  \A p \in Procs :
    /\ pc[p] \in HasFile => job[p].file \in Files
    /\ pc[p] \in HasScan => job[p].scan \in Scans
LockHeld == \A p \in Procs : Working(p) => lock = p
AbsentWhileStoring ==
  \A p \in Procs : pc[p] \in Storing => ~Present(pola, Serial[job[p].scan])
IndInv == TypeOK /\ JobOK /\ LockHeld /\ AbsentWhileStoring /\ UniqueSerial

(* A page has left the spool only when a result and a picture made from it *)
(* are completely on the disk: a crash costs a repetition, not a result.   *)
ProcessedHasResult ==
  \A f \in Files :
    LET s == processed[f] IN
    s # NoScan /\ Kind[s] = "page" =>
      /\ \E e \in Exts : results[f.base][e] = Whole(s)
      /\ png[f.base] = Whole(s)

(* A row is never ahead of the disk nor of its own image: the page it is   *)
(* about is in processed_directory, the result of the verdict in column    *)
(* debug is complete, and column image names the page's own picture, whole *)
(* and committed.  Only where one of the statements around the large       *)
(* object failed in this very insertion, whose results db_insert_blob does *)
(* not look at (database.c:195, 209, 217), may the object be empty or      *)
(* missing; it never is another page's.                                    *)
OwnImage(s, n) ==
  /\ blobs[n] \in {Whole(s), Torn(s), Absent}
  /\ s \notin ignored => blobs[n] = Whole(s)
RowBacked ==
  \A i \in DOMAIN pola : \E f \in Files :
    LET s == processed[f] IN
    /\ s # NoScan /\ Serial[s] = pola[i].ser_st
    /\ \E e \in Exts : DebugOf(e) = pola[i].debug /\ results[f.base][e] = Whole(s)
    /\ OwnImage(s, pola[i].image)

(* Whatever the order in which the pages of a sheet are scanned, between   *)
(* two pages every row whose first page is known points at it.             *)
PagesLinked == (\A p \in Procs : ~At(p, "link")) => Link(pola) = pola

(* Once the source of a result is in processed_directory, no later pass,   *)
(* restart or duplicate rewrites the result, the picture or the source.    *)
ResultStable ==
  [][\A f \in Files : processed[f] # NoScan =>
       /\ processed'[f] = processed[f]
       /\ results'[f.base] = results[f.base]
       /\ png'[f.base] = png[f.base]]_vars

(* Whatever fails, an image the scanner delivered is not lost: it stays in *)
(* one of the two directories, as long as file names are not used again.   *)
Kept(s) == \E f \in Files : input[f] = s \/ processed[f] = s
NoScanLost == [][\A s \in Scans : Kept(s) => Kept(s)']_vars

(* The table, with the links still to be made already in it, behaves as    *)
(* the registry: also after lost connections, failed statements, crashes.  *)
Table == [i \in DOMAIN Link(pola) |->
            [ser_st       |-> Link(pola)[i].ser_st,
             first_ser_st |-> Link(pola)[i].first_ser_st,
             first_id     |-> Link(pola)[i].first_id]]
R == INSTANCE Registry WITH table <- Table
ImplementsRegistry == R!Spec

-----------------------------------------------------------------------------
(* Liveness                                                                *)

Done(f, s) == processed[f] = s
Stuck(f) ==
  \E g \in Files :
    /\ Precedes(g, f) /\ input[g] # NoScan
    /\ Kind[input[g]] = "corrupt"

(* While a daemon runs, a page in scan_directory is processed, unless an   *)
(* unreadable file stands before it in the order of the list.  Unreadable  *)
(* files behind it and refused connections or renames only delay it.       *)
PageProcessed ==
  \A f \in Files, s \in Scans :
    (lock \in Daemons /\ input[f] = s /\ Kind[s] = "page")
      ~> (Done(f, s) \/ Stuck(f))

(* A page that has left the spool gets into the table.                     *)
PageRegistered ==
  \A s \in Scans :
    (Kind[s] = "page" /\ \E f \in Files : Done(f, s)) ~> Present(pola, Serial[s])

(* A one-shot run ends, whatever it finds, and gives the lock back.        *)
OneShotEnds ==
  \A p \in Procs \ Daemons : (pc[p] \notin Dead) ~> (pc[p] \in Dead /\ lock # p)

-----------------------------------------------------------------------------
(* What the program says of itself                                         *)

(* A scan whose barcode is not decoded goes to the quarantine directory,   *)
(* not among the processed scans (daemon.c:254, ochi.conf).                *)
UndecodedQuarantined ==
  \A f \in Files : processed[f] # NoScan => Kind[processed[f]] # "undecoded"

(* "If there is no barcode, move the file to another location and abort    *)
(* this page analysis" (daemon.c:249): the page, not the program.          *)
NoBarcodeNotFatal ==
  [][\A p \in Procs, f \in Files :
       AtFile(p, f) /\ Kind[input[f]] \in {"nobarcode", "lostbar", "undecoded"}
         => pc'[p] # "segv"]_vars

(* "Scan will not be inserted!" after an error with the large object       *)
(* (database.c:167): the object of a row exists.                           *)
RowHasImage == \A i \in DOMAIN pola : blobs[pola[i].image].of # NoScan

(* "blob operations must be in begin-end block" (database.c:195): between  *)
(* two scans no transaction is left without its "end".                     *)
BeginEndBalanced ==
  \A p \in Procs : At(p, "load") => conn[p] \notin {"open", "aborted"}
=============================================================================
