# Verification of ochi, the exam sheet reader of HAvOc

`ochi` is the optical recognition backend of HAvOc.  A scanner puts images of exam sheets into a spool
directory; ochi finds the barcode on each (sheet and page number), reads the student number with a neural
network and the answers from blackened squares, writes a result file and a scaled picture, moves the image
to another directory and, if configured, inserts a row with the picture as a large object into PostgreSQL.
Two further programs, `ocr_train` and `ocr_number`, train and try the older of its two networks.

This directory holds TLA+ modules translated from that code, TLC configurations that check them on small
instances, and TLAPS proofs for instances of every size.  Line numbers below refer to `src/src/`.

Contents: 1 inventory, 2 modules, 3 what each run checks, 4 bounds, 5 fairness, 6 what is proved,
7 where the code disagrees with itself, 8 what is not modelled, 9 plan, 10 how to run it.

## 1. Inventory

### Components

| component | code | state | operations | what makes it correct |
|---|---|---|---|---|
| process life cycle, lock | `main.c`, `daemon.c` | the process, the `lockf` lock on `/var/lock/ochi`, switches and configuration | start, test of the connection, fork, lock, loop of passes with `sleep(10)`, signal, exit | one process at a time handles files; a one-shot run ends |
| spool directory | `filesystem.c`, `imageio.c` | `scan_directory`, `processed_directory`, the list of a pass | `list_files` (all `*.tif`, then all `*.jpg`), `moveFileToQuarantine`, the rename in `writerezfile` | no image is lost; every page is processed in the end |
| result files | `imageio.c` | `.rez`/`.war` file and `.png` picture per image name | open, write, picture, rename of the source | what left the spool has a complete result; finished results are not rewritten |
| database | `database.c` | connection and its transaction, table `pola`, large objects | connect, presence check, `begin`, `lo_creat`, `lo_write`, `end`, `INSERT`, the `UPDATE` that links pages | a page is in the table once, with its image, and linked to the first page of its sheet whatever the order of arrival |
| page handling | `daemon.c` `process_scans`, `imageio.c`, `img_process.c` | pictures, barcode, student number and answers as heap blocks | load, repair, three attempts at the barcode, turning, reading, freeing | nothing is used after it was freed or before it was set; both pictures are turned together; what leaks is known |
| barcode | `bar_process.c` | the 13 digits | check digit, page number, code of the first page, serial number | the code of the first page is valid, leads from exactly the pages of a sheet to one row, and serial numbers tell pages apart |
| student number | `sid_process.c` | picture, digits, certainties | locate, cut, decode with a search over shifted cuts, decode again, keep digits for training (`-e`) | a digit that is reported was accepted at its place, and a place is given up only when every cut was rejected; a picture kept for training bears the digit it was read as |
| digit recogniser | `nnrok.c` | two matrices | predict | numerical |
| answers | `ans_process.c` | lists of marks, matrix of squares, answer string | locate marks, `sortmark`, `findanswer`, `generateobsoletestring` | marks in order and all there; the string names the blackened squares and no others, as long as it fits its block |
| training | `ocrlib/train.c`, `ocrlib/ocr_train.c` | network, best network, best error, count of pairs, network file | three ways to train, four ways to go on after an error, save | the best network met is the one saved; `-f` stops where it says; training ends |
| network library | `ocrlib/network.c`, `interpolation.c` | layers, weights, deltas | allocate, free, copy, overwrite, add and remove neurons, train, print, scan | one owner per block, but for the best network of a training that stops early; the best network is left alone; a cut file is refused or read as saved; connections keep their neurons |
| training files | `ocrlib/fileio.c`, `sample.c`, `ochi_prepare_train_file.c` | a text file of 32 x 32 digits, an array of samples | write, read line by line | what is whole in the file is read as it was written; reading ends |
| `ocr_number` | `ocrlib/ocr_number.c` | none | prints what the network says of every sample | |
| localization | `localization.c` | none | wording | |
| start script, packaging | `debian/init.d`, `configure.ac` | a pid file | start, stop, restart | |

### How they interact

* Processes share the two spool directories, the result directory, the lock file and the database; within
  one process everything is sequential.  Nothing but the lock coordinates processes, and several statements
  of `database.c` are right only because of it.
* The scanner writes into `scan_directory` at any time and is not told what becomes of its files.
* `process_scans` calls, per image, `loadimage`, `repair_scanned_image`, up to three times `getCode`, then
  `getSID` (first pages only), `getanswer`, `writerezfile`, `db_insert_wrapper` and the destroy functions.
  `writerezfile` moves the image away *before* the row is inserted.
* `ocr_train` calls one of the three `minimize_with_train_...` functions, which call the network library;
  the file it saves is loaded by `ocr_number` and by `get_sid_from_character_array2`.  The pictures that
  `ochi -e` keeps are what `ochi_prepare_train_file` makes the training file of, which `ocr_train` reads.

### Hard behaviour

* *Concurrency*: daemon and one-shot runs start at any moment (`daemon.c:167`); presence check and INSERT
  are separate statements (`database.c:91`); the scanner writes while ochi lists (`filesystem.c:37`).
* *Crashes and partial failure*: every write to the disk and every statement can fail alone, and most
  results are ignored; a process can die between any two of them and another starts with what it left.  Death of the
  process is meant throughout: nothing is ever synced to the disk, so that a power failure may also cost what was
  closed, and no result here speaks of one.
* *Order*: the pages of a sheet arrive in any order and in different passes; tif files go before jpg files,
  whatever their names; a file that cannot be read ends the pass.
* *Half-written input*: a scan that the scanner is still writing has its barcode at the top and may be read as a page.
* *Stale values*: the list of a pass, freed memory that decides between `.rez` and `.war` (`nnrok.c:63`),
  pointers left set by the destroy functions.
* *Loops that leave too little or too late*: a `break` that leaves one of two loops (`sid_process.c:96`), an end
  of file that is noticed one read too late (`ocrlib/fileio.c:43`).
* *Boundaries*: check digit 10, an average over no samples, early exit of `sortmark`, bias neurons behind the last neuron of a layer,
  a network file cut off in the middle.

`hazards` in PROJECT.json lists forty of them with their lines and properties.  Met while reading, and
without a property: the lock file is not truncated before a pid is written into it; `glob_t` lists and the
`PGconn` of failed connections leak, once a pass (PageReader counts what is lost page by page); the daemon's parent
exits before the lock is tried, so that a second
daemon seems to have started; `dfprintf` uses one `va_list` twice; the 13 digits and their end are copied into
14 bytes with nothing to spare; an `Oid` is printed with `%d`; `certainty` of `ocr_number.c` has 255 elements
without a test; `ans_array` appends to a string with an `sprintf` that also reads it; `find_bottom128x128`
of `sample.c` begins a row behind the last, and a picture that is equally dark everywhere is divided by 0; a
page without a barcode stays in the spool and is tried in every pass.

## 2. Modules

```
Registry (abstract) --EXTENDS--> Pola <--EXTENDS-- OchiState <-- ScanDaemon <-- MCScanDaemon
   ^                                                               |   ^------- ScanDaemonProofs
   +---------------- INSTANCE, refinement mapping -----------------+
PageReader    <--+-- MCPageReader     Training (abstract) <--EXTENDS--+-- OcrTrain <-- MCTraining
Barcode       <--+                    TrainingFile        <--EXTENDS--+      ^-------- TrainingProofs
Answers       <--+                    Network <-- MCNetwork, NetworkProofs
StudentNumber <--+                    DataLemmas <-- AnswersProofs, NetworkProofs, TrainingProofs
PageReader, Barcode, Answers and StudentNumber each have a ...Proofs module.
```

**Pola, OchiState, ScanDaemon** are the program as others see it: any number of processes, the directories,
the database.  One step is what happens between two effects that another process, a crash or a reader of
the disk can see.  `pc[p]` is the point of the code a process has reached, `job[p]` the local variables of
`process_scans` that matter later, `conn[p]` its connection (`idle`, `open` after `begin`, `aborted` after an
error inside it, `lost`).  A file of the disk is the image it was made from and whether it was written to the
end.  Each function is the sequence of actions named after its effects:

| code | actions |
|---|---|
| `main`, `test_db_connection`, `lock_file` | `Start`, `TestDbConnection`, `LockFile` |
| `process_scans`: list, connect, loop | `ListFiles`, `ConnectDb`, `LoadFails`, `NoBarcode`, `LoseBarcode`, `Undecoded`, `Recognise`, `FinishPass`, `Wake` |
| `moveFileToQuarantine` | `MoveFileToQuarantine` |
| `writerezfile` | `OpenResult`, `WriteText`, `SavePng`, `RenameSource` |
| `db_insert_wrapper`, `db_insert_blob`, `db_insert_scan` | `CheckScanPresence`, `BeginBlob`, `CreateBlob`, `WriteBlob`, `EndBlob`, `InsertScan`, `LinkFirst` |
| scanner, kernel, server | `Arrive`, `FinishWriting`, `Crash`, `DropConnection` |

An action that can fail has the failure as a disjunct, `Failure(e)`, which needs `e` among the constant
`Events` and takes one from `budget`.  What recognition makes of an image is its `Kind`; a file that the scanner has
not finished may look like anything (`Looks`), also like a page without its lower part, whose result and picture are
then not whole (`Made`).  `db_insert_blob` throws away what `begin`, `lo_write` and `end` return; a failure of one of
them takes its course (an object that is there at once and empty, or is rolled back), and the history variable
`ignored` remembers that it was in this image's insertion.

**Registry** is what the table promises to those who read it: a page enters once, stays, and is linked to
its first page in the very step in which both are known.  `ImplementsRegistry` maps the table of ScanDaemon,
with the links still to be made already in it, to the registry.

**PageReader** opens up the one step `Recognise` (and `LoadFails`, `NoBarcode`, `LoseBarcode`,
`Undecoded`): the order in which `process_scans` tries the repaired, the turned and the original picture,
and which heap block each pointer of the code names, allocates and frees.  The paths through PageReader end
in the outcomes that `Kind` has in ScanDaemon: `LoadFails` is `corrupt`, `NoBarcode` `nobarcode`,
`LostCode` `lostbar`, `NeverDecoded` `undecoded`, `WriteResult` to `dead` `nomarkers`, `Store` `page`.  `Store` is
`db_insert_wrapper`, with what its error paths leave allocated (`LeftBehind`, admitted by `DbFails`).
`CanReject` is FALSE for the recogniser that is compiled in, which always names a digit, and TRUE for
`get_sid_from_character_array2`, for which the second attempt of `getSID` was written.

**Barcode** is the arithmetic of `bar_process.c` on thirteen-digit codes.  OchiState assumes of serial
numbers only that the first page of a sheet is its own first page (`SerialAssumption`); the theorem
`SerialsOfSheets` derives that from the arithmetic.

**Answers** is `getanswer`, with `sortmark` comparison by comparison.  What `locate` finds is any list.  The two
loops of `generateobsoletestring` are one recursive function over the cells of the table (`ObsoleteString`), and so
is the room they need (`Bytes`); where it is more than the block has, `strcat` writes behind it (`Overrun`) and
nothing can be said of what follows.

**StudentNumber** is `getSID`.  `First` and `Search` are `decodeSID` (one step is one cut shown to the
recogniser), `Keep` is the switch `-e`, `Again` is `decodeMissSID`.  `Says` is all a recogniser may answer: the
compiled one names a digit always, with any certainty; the other one rejects below 85; without its network it
rejects everything and leaves the certainty as it was.  Numbers are read one after the other, because the
pictures of digits that lie on the disk are those of the number before.

**Training** is what `ocr_train` does once it has its two sets of samples: a network is its version, the error
of a version is any member of `Errors`, or not a number when there is no validation set.  How the sets are read
is one step each, which says only that the training set is never empty and that both fit their arrays.

**TrainingFile** opens those two steps up: the text `ochi_prepare_train_file` leaves, finished, stopped at a
digit without pictures, or killed, with its header or without; and the reader, call by call of `gzgets`, with an
end of file that is seen only by a read past it and a line buffer that keeps what an earlier call left.  `Text`
says of each line of a file which line of which sample it is.

**OcrTrain** composes the two into the whole program.  `ImplementsTraining` says that it is a Training:
the steps of the reader are stutters, the end of a file is `ReadTraining` or `ReadValidation`.

**Network** is the network library: blocks, pointers, swaps of structures by `memcpy`, index arithmetic, the
text file, in the hands of a program that trains: `StopAtSmallError` is the return of `minimize_with_train_...` that
forgets `best_net`.  Nothing in it computes with a weight but the two passes of training, so a weight is known by
where it comes from (which event gave it its value, at which connection) and not by its value; that is what
makes a weight at the wrong place visible.  The loops that print and read a file go through the connections
in the order `Earlier`; the place of one in the file is the number of those before it (`LoopOrder`).

**DataLemmas** has no state: induction over numbers, recursive functions, sequences and division, for the proofs.

Every module has a few "wrong versions" of definitions.  No specification uses them; each is a plausible
bug, and putting it in the place of the definition it is named after makes TLC report the property given in
`mutants` of PROJECT.json.

## 3. Runs

| run | instance | shows |
|---|---|---|
| `concurrent` | a daemon and a one-shot run, two file names that are used again, a page scanned twice and its first page, one crash, lost connection or failed statement, `begin` and `end` included, anywhere | `OneWorker`, `UniqueSerial`; the table implements `Registry` under all of it; the inductive invariant `IndInv` |
| `crash` | one daemon, three names, two failures | `ProcessedHasResult`, `RowBacked` (a row is never ahead of the disk, nor of its image unless the insertion had a failure nobody looks at), `ResultStable` (finished results are not rewritten) |
| `liveness` | one daemon, the three pages of a sheet in any order and an unreadable file, refused connections and failing renames, fair | `PageProcessed`, `PageRegistered`, `PagesLinked` |
| `oneshot` | daemon and one-shot run without database, scans of every kind, half-written files, full disk, fair | `OneShotEnds`, `NoScanLost` |
| `pages` | three pages in a row on any path, grey or not, a recogniser that may reject, insertions that may fail; beside it, pairs of 180 codes; beside it, up to four upper and two (or three) right marks in every order, with equal places, and every set of squares; beside it, two numbers in a row with each recogniser, with and without `-e`, located or not | `NoDangling`, `ReadUpright`, `PageClean`, `ReaderInv`; `CodesValid`, `LinksSheet`, `SerialsApart`; `MarksInOrder`, `MarksKept`, `AnswersRead`, and the inductive invariant `ReadInv`; `DigitsAccepted`, `KeptAsRead`, `UnlocatedAlike` |
| `training` | the whole of `ocr_train`: files that are finished, stopped, cut off in a line or missing, with and without a header; the three ways, with and without `-f` and a validation set, every sequence of four errors; a kill or a network that cannot be written at any moment; fair | `SamplesAsWritten`; `ImplementsTraining`; `BestWritten`, `BestSoFar`, `StopsAtBump`, `UnjudgedUnlearnt`, `Bounded`; `TrainEnds` |
| `network` | networks 1-1-1 and 2-1, growing to two neurons a layer, three changes of weights | `BlocksOwned`, `BestKept`, `ReadAsSaved`, `NeuronsKept` |
| `quarantine`, `lost_barcode`, `dangling_image`, `begin_end`, `network_growth` | violations, see 7 | |

What the properties say is written above each of them in the modules.  A few words on the ones that are
easily misread:

* `ProcessedHasResult` and `RowBacked` hold under crashes and failed statements (a crash is the death of the process,
  not of the machine), but not under a full disk or for scans that are read half-written:
  `saveimage` and `fclose` are not tested, so the run `crash` does not admit `disk` or `partial`.  They and
  `ResultStable` also need names that are used once (`FreshNames`) and that differ in more than the extension:
  `x.tif` and `x.jpg` share a result.
* No property says that every processed page has a row after a crash, because it is not so: a process that
  dies after the rename and before the INSERT loses the row, and no later pass sees the image.
  `PageRegistered` says that without crashes and failing statements it does get there.
* `RowBacked` lets the large object of a row be empty or missing only if `begin`, `lo_write` or `end` failed in the
  very insertion of that page (`ignored`); it is never the picture of another page.  With any other failure,
  crashes and lost connections included, the object is whole.
* `PageProcessed` and `PageRegistered` speak of a daemon that goes on running: the instance has no scan that kills it
  (`nomarkers`, `lostbar`), since such a scan stays first in the list of every later process, too.
* `NoDangling` allows NULL only where `MayBeNull` says, that is where the code or leptonica asks: the text of a code,
  the picture of a student number and its copy.  One more place is excepted by name: `barkoda` after the third
  `getCode`, where the code should ask and does not, which is the finding `lost_barcode`.
* `PageClean` excepts what `Lost` names, all of it leaks of the code: the normalised picture of every grey scan; with a
  recogniser that rejects, one picture per second attempt; and, if insertions may fail (`DbFails`), `query`,
  `first_ser` and the descriptor of the picture, which the early returns of `db_insert_scan` and `db_insert_blob` do
  not free.  What a pass allocates for itself (its list, its connection) is not counted.
* `AnswersRead` speaks of strings that fit their block and of fewer than 160 columns (the letter is a `char`).  With
  255 bytes there is room for 84 answers to questions of one digit, or for 63 of two; nothing tests it.
* `BlocksOwned` excepts the best network of a training that stopped because the error was small enough
  (`ocrlib/train.c:125`): it is a local variable, and nobody frees it.  A program trains once, so it is one block.
* `KeptAsRead` has two exceptions, both of the code: the search goes on after a digit was accepted, so the
  picture in the file is that of the last cut, which may have been rejected with a certainty above the limit of
  `-e`; and where no number was located nothing is cut, and the picture is one of an earlier page.
* `SamplesAsWritten` allows one sample more than the file holds: a reader that learns of the end only by reading
  past it takes what is in memory for a sample.  How often it does depends on how the file ends.
* `TrainEnds` excepts the file whose last line is a value and has a newline, which is how
  `ochi_prepare_train_file` ends it, and the file that is not there: reading may go on for ever (see 7).
* `ReadAsSaved` lets the last weight of a file lack digits: `fscanf` cannot notice.
* `NeuronsKept` says of both networks that weights and deltas are at the connections and nowhere else, and of growth
  and shrinking that deltas and the weights `net_add_neurons` copies move with their neurons.  Those are random ones:
  line 1249 randomises the old network where the comment above it speaks of the new neurons (see 7).

## 4. Bounds

TLC needs small instances.  The bounds, all of them constants of a configuration, and why they are enough:

* *Processes*: two, one of either kind.  The lock lets one in; a third is in the place of the second.  The
  theorems about the lock hold for any number.
* *Images and names*: up to five images, three names.  A hazard of order needs a page, its first page and a
  second copy; a hazard of the list needs an unreadable file before and behind a page.  Three names have
  both extensions and two names of one extension.
* *Events, MaxEvents*: which failures, and how many in a behaviour.  Two in `crash` allow a failure while a
  crash is being made up for; one in `concurrent`, because the second process multiplies the states.
* *MaxPages* = 3 in `pages`: what one page leaves behind shows in the next, and the third shows what has
  added up.  `Depths` = {1, 8} has a black-and-white and a grey scan, `DbFails` admits every way an insertion can fail.
* *Inputs*: codes with every page number, and 0, the middle and 9 at places of either weight, so that every
  check digit occurs; the theorem is about all codes.
* *UpFound, RightFound*: with four marks `sortmark` may leave its loop after one pass, in the middle or
  after the last one; three places for four marks force equal ones.  Two rows and up to four columns, and three
  rows with up to four columns, differ in number.  `StringBytes` = 34 stands for the 255 bytes of the answer string: eleven
  squares just fit, and the twelve of a black table of three rows and four columns do not.
* *Training*: four errors, of which one is below and one at `MaxError`; sets of up to three samples (`MaxSet`,
  `Room`) and `MaxTrainings` = 6
  give up to seven judgements and all three conditions to stop.  As the source initialises `max_trainings` to
  a constant and has no case for the switch `-t`, this number stands for that constant.
* *Student numbers*: `SidLength` = 2 with `Unkept` = {0} has a place that `-e` keeps and one it does not, and a
  place whose search ends before the next begins; `MaxX` = 2 and `MaxY` = 1 have a grid of 3 x 3 cuts, so that
  there are columns before and behind the one of the cut in the middle; `Certainties` has a value below both
  limits, between them and above them; the second of `MaxNumbers` = 2 numbers finds the pictures of the first.
* *Training files*: `Rows` = 2 lines a picture; up to three samples and `Room` = 3, so that a file may fill the
  array exactly and one sample too many overruns it; every prefix of every file, so that a run may have been
  killed between any two lines or within one.
* *Network*: one network with a hidden layer and one without, layers of one or two neurons: with one, the
  bias is next to the first neuron, with two there is a neuron before and one behind the place where
  neurons are added.  `MaxEvents` = 3 lets a network be created, trained and grown, or trained twice.

## 5. Fairness

`liveness` and `oneshot` assume (`FairSpec`) weak fairness of the steps of every process and of the
end of every write of the scanner.  It is what the kernel gives: a process of ochi never waits for another one
(`lockf` is called with `F_TLOCK` and fails at once), calls of the library return, `sleep(10)` ends.  Nobody
is obliged to start a process, to restart one that has died, or to deliver an image.  Failures are bounded by
`MaxEvents`; there is no fairness about them.  The database is assumed to answer, with an error if need be.

`PageProcessed` has the exception the code forces: an unreadable file that stands before a page in the order
of the list keeps it from ever being reached (`daemon.c:214`).

`training` assumes weak fairness of `Work`, that is of everything `ocr_train` does by itself: one program with
one thread, whose calls return.  That it is killed or cannot save is possible at any moment and never due.

## 6. What is proved

For every value of the constants that satisfies the named assumptions, checked by TLAPS.

| theorem | says | argument |
|---|---|---|
| `ScanDaemonProofs`: `Invariance`, `TypeCorrect`, `MutualExclusion`, `NoPageTwice` | one worker at a time; a page is in the table at most once | `IndInv`: whoever is past `lock_file` holds the lock (`LockHeld`); each process has the file and image it will use (`JobOK`); from the presence check to the INSERT the page is absent (`AbsentWhileStoring`). `UniqueSerial` alone is not inductive: an INSERT preserves it only because of the third part, the third part only because nobody else inserts, and that only because of the first |
| `TableIsRegistry` | the table implements the registry, whatever fails | under `IndInv` each step leaves the mapped table as it is or is `Register`. `PolaStep`: only `InsertScan` and `LinkFirst` touch the table. `LinkTwice`: linking what is linked changes nothing, so `LinkFirst` is a stutter. `LinkInserted`: the mapped table after an INSERT is what `Register` makes of the one before, for which the page must be new (`AbsentWhileStoring`) and rows unique |
| `ScansAreKept` | no image is lost | `DirInv`: an image is in one directory at most, and a process that is about to move one finds it in the spool (`InPlace`) |
| `ResultsAreStable` | a finished result is not touched again | `DirInv`: whoever writes a result still has its source in the spool, and no other image has that name |
| `ProcessedPagesHaveResults` | a page in `processed_directory` has its complete result and picture | `ResInv`: from step to step of `writerezfile` what was written is complete (`Written`), and nobody else writes it |
| `RowsAreBacked` | a row has its result, its moved scan and its own large object, which is whole unless a failure around it was ignored in that insertion | `StoreInv`: from the presence check to the INSERT the process has the first two, and its large object as far as it has come: open and empty, written, committed, or one of the three failures is on record in `ignored` (`Backed`); what a row has stays (`BackingStays`) |
| `PagesAreLinked` | between two pages all rows whose first page is known are linked | `LinkComes`: either all links are made or a process is at the UPDATE that makes them |
| `PassShrinks`, `LockGivenBack` | every step of a process that is not asleep leaves it fewer to make; who is gone does not hold the lock | `PassLeft`: sixteen steps for each file that is left of the list, and those still to make for the file in work. The list is made once per pass and each turn of the loop takes a file from it; what arrives in the meantime waits |
| `PageReaderProofs`: `ReaderInvariance`, `NothingDangles`, `NothingReadUpsideDown`, `NothingLost` | what is followed or freed is there, or NULL where `MayBeNull` allows it; what is read is upright; only `Lost` is lost, failed insertions included | `ReaderInv`: `Held` says for each point of the code which pointers own a block, `Owns` that they own exactly that one, `TurnInv` that both pictures are turned or none. `HeapInv` also says where a text must have been found, which is why it need not be asked for later. `NothingLost` adds that a pointer outside `Lost` has lost nothing when `Depths`, `CanReject` and `DbFails` are as they are |
| `BarcodeProofs`: `BarcodeCorrect`, `FirstCodesReadable`, `SerialsDiffer`, `SerialsOfSheets` | the code of the first page is readable and belongs to exactly the pages of the sheet; the twelve digits of `ser_st` determine the thirteenth | the check digit depends on the first twelve digits only; the leading digit has weight one, so two codes that differ there alone differ in the check digit. `SerialsOfSheets` derives `SerialAssumption` of OchiState |
| `AnswersProofs`: `SortmarkSorts`, `SortInvariant`, `SortmarkKeepsMarks` | `sortmark` sorts and keeps every mark, for lists of any length | `PassInv`: the last j marks are the greatest and in place, the mark at i is the greatest of this pass, and if nothing was moved what the pass has seen is in order; the last part makes the early exit right |
| `AnswersProofs`: `ReadInvariant`, `AnswersAreRead` | the answer string names the blackened squares and no others, each once, question by question, if it fits its block; it overruns the block only if the table would not fit were it black | `ReadInv` adds what the matrix holds (`SquaresRead`). `StringNames`, by induction over the cells: after k cells the string names the black ones among them, in order. `SquareNumbers`: row and column are quotient and remainder of the number of a cell, so each square is one cell. `BytesBounded`: no square needs more than the last row's number and two characters. The stride of the matrix must be the number of columns in both functions |
| `StudentNumberProofs`: `DigitsAreAccepted`, `PicturesKeptAsRead`, `UnlocatedIsAlike` | a digit was accepted at its place and a place given up only after every cut; pictures bear the digit they were read as, but for the exceptions | `SidInv`: how many cuts of a place have been shown follows from the shift of the cut, for grids of any size; a place before the current one is finished; of the place that is searched, what the digit, the certainty and the picture are since the last accepted cut |
| `TrainingProofs`: `TrainingTyped`, `BestIsKnown`, `BestIsWritten`, `BumpStops`, `UnjudgedIsUnlearnt`, `TrainingIsBounded` | the network saved is the best one met; with `-f` nothing is trained after the error went up; without a validation set the network of the beginning is saved; no more than `MaxTrainings` rounds | `TrainInv`: types, and the best error and the best network belong together; and that every round counts at least one pair, which needs a training set that is not empty |
| `TrainingProofs`: `ProgramTrains`, `ProgramWritesBest`, `ProgramStops` | the program with its files implements Training; what is proved of Training holds of it | one read past the end is needed to learn of the end, and it yields a sample, so the training set is not empty; a sample is read only while there is room. Each step is then one of Training or a stutter |
| `TrainingProofs`: `SamplesAreRead` | each whole sample is read as it was written, for pictures and arrays of any size and files cut off anywhere, with or without a header; at most one that is none comes behind them, and the last line tells whether | `LeftShaped`: every file that may have been left is, after a heading or none, q samples and r lines of the next, the last line perhaps torn (`Shape`). `FileInv`: between two calls the reader is behind a sample and all it has read are whole, or it has taken one too many and knows of the end; within a call it holds the first m lines of the next sample, or is at the end of a file that was cut short. `WholeIs`: the samples counted by their values are those of the shape |
| `TrainingProofs`: `TrainingShrinks`, `ReadingShrinks` | every step of training, and every read of a file that ends, leaves fewer to make | `TrainLeft` counts the rounds that are left, `ReadLeft` the lines that are left and then the calls until the picture is full. At the end of a file the buffer keeps its last line: if that is a row, it is taken until the picture is full (`EndInv`), and if it is none the loop would not stop, which is what `Ends` excepts |
| `NetworkProofs`: `EveryBlockOwned`, `BestIsKept` | one owner per block, however often structures are swapped, and nothing lost but the best network of a training that stopped at a small error; the best network changes only by becoming the other or by being let go | `Memory`: once a block is lost there is no best network any more (a program trains once), so at most two of the three blocks are in use and there is always an unused one |
| `NetworkProofs`: `GrowthMovesConnections` | for every network and every place in it: a connection that is moved keeps its delta, bias included, new ones begin with none, removal gives back what was copied | `Shift` is injective, and its image is what `Removed` looks up (`ShiftEmbeds`) |
| `NetworkProofs`: `CutFilesRefused`, `NeuronsAreKept` | a file cut off anywhere is refused or read as saved; both networks of the program have weights and deltas at their connections only, and keep their neurons when they grow | `NetInv`: every network in memory has its weights and deltas at its connections and nowhere else (`WellFormed`), and the file is a part of the text of such a one. `EarlierOrders`, `LoopOrderCovers`: the order of the loops is total, so no two connections have as many before them, and each place of the file is taken once. `CutIsRead`: `Scanned` finds every number at the place where `Text` put it. Grown, shrunk and loaded networks are `WellFormed` again, so `GrowthMovesConnections` applies to each of them |

The theorems about directories, results, rows and passes hold under named conditions on the constants, each of which the
code needs:

* `FreshNames`, names are used once (all but `PagesAreLinked`, `PassShrinks` and `TableIsRegistry`): `rename` replaces what has
  the name.  `OneName`, no two of them differ in the extension only (all theorems about results and rows, not
  `ScansAreKept`): `x.tif` and `x.jpg` share a result.
* `SoundDisk` (`ProcessedPagesHaveResults`): also no full disk and no image that is read half-written.
* `SoundStore` (`RowsAreBacked`): also no failing rename, after which the row is inserted all the same.  Crashes, lost
  connections and failures of every statement, of `begin`, `lo_write` and `end` too, are allowed: the theorem says
  what the large object may be after one of these three (the finding `dangling_image` is one of them).
* `PagesAreLinked`: no crash, lost connection or failing statement, since nothing makes up for an UPDATE that
  was not made until the next page of the sheet comes.
* `PassShrinks`: a directory has finitely many files (`IsFiniteSet(Files)`).

Assumptions on constants: `ProcAssumption`, `FileAssumption`, `ScanAssumption`, `SerialAssumption`,
`EnvAssumption` (OchiState), `ReaderAssumption`, `InputAssumption` (codes are valid: asked for by
`ZBAR_CFG_ADD_CHECK`, tested by nothing in the code, so that this is an assumption about the sheets and zbar),
`MarkAssumption`, `NumberAssumption`, `TrainingAssumption`, `FileAssumption` (TrainingFile), `ArrayAssumption`
(the array of the program has as many elements as Training says), `NetworkAssumption`.  TLC evaluates each of
them in the runs of its module.

Only model-checked is liveness: `PageProcessed`, `PageRegistered`, `OneShotEnds`, `TrainEnds`.  TLAPS does not
reason about ENABLED, and so not about fairness.  Of `OneShotEnds` and `TrainEnds` the other half is proved
(`PassShrinks` with `LockGivenBack`; `ReadingShrinks`, `TrainingShrinks`): a number that each step of the process
makes smaller.  Left to TLC is that the process can always make one and that fairness obliges it to.
Every other property of a run that passes is stated by a theorem.

Two of the proofs need induction over data: over the cells of a table, and over the digits that
`ochi_prepare_train_file` has pictures of.  The induction theorems of the library take a predicate as a parameter, which
the provers cannot instantiate.  `DataLemmas` states induction for a *set* of numbers instead (`Induction`): the numbers
outside the set, were there any, had a least one (`LeastNumber`), because the sets `0..n` are finite and inclusion of
finite sets is well-founded.  `Recursion` says that a function made value by value exists, which is what its
defining equation rests on.

The proofs asked of the modules that an order is stated by what comes before what, and a text by what each line of it
is: `LoopOrder` and `Text` are written so, rather than by sorting a set and joining sequences.

## 7. Where the code disagrees with itself

| run | found |
|---|---|
| `quarantine` | `moveFileToQuarantine` moves to `processed_directory` (`imageio.c:165`); the configured quarantine directory is never used |
| `lost_barcode` | a barcode that is found in the repaired picture, not decoded, and not found in the original one makes `process_scans` follow NULL (`daemon.c:250`), in every later run too |
| `dangling_image` | when `lo_write` fails, `end` rolls the large object back and the row that names it is inserted all the same (`database.c:219`); a failing `begin` or `end` goes unnoticed in the same way |
| `begin_end` | when `lo_creat` fails the transaction is never ended (`database.c:201`); the rest of the pass is moved away and not inserted |
| `network_growth` | `net_add_neurons` randomises the old network instead of the new neurons (`ocrlib/network.c:1249`); no program here calls it |

Seen, and no property broken by it: `net_add_neurons` documents `neuron == -1`, which its assertion excludes;
`net_set_weight`, `net_get_weight` and the two functions for a bias use layer `l` where the rest of the library
has that weight at layer `l + 1` (`ocrlib/network.c:413`, `432`); copies, grown
and saved networks forget `net_use_bias` and the error; `net_fbscan` does not test whether a weight was read
(the mutant of `ReadAsSaved`);
the switch `-t` of `ocr_train` is ignored.

What the models show where no text says otherwise:

* A training file made as `ocrlib/README` says (lines 15 to 30) ends with a newline.  The last read that finds
  something then does not set `gzeof`, and `fscan_training_digit` looks for a line of a picture in a buffer that
  nothing changes any more: it takes it for 32 lines, or for none and never returns (`ocrlib/fileio.c:43`, with
  zlib from 1.2.4 on).  A file that is missing is read for ever or beyond the array.
* A number that was not located is reported all the same: the recogniser is shown the same memory at every place.
* `best_net` is not freed when training stops because the error is small enough, and failed insertions lose memory and a
  descriptor each; `BlocksOwned` and `PageClean` except these, and say that there are no others.
* `-e` may keep the picture of an earlier page, or of a cut that was rejected, under the digit of this one.
* Training without a validation set compares with NaN, remembers nothing and saves the network of the beginning.

And of the start script, which is not modelled: it looks for a pid in `/var/run/ochi.pid`, but neither ochi nor
`start-stop-daemon`, which is called without `--make-pidfile`, writes one.

## 8. What is not modelled

* Images: deskewing, line removal, thresholds, locating barcodes, marks and squares, zbar.  What they find is
  an input of the models.
* Floating-point numbers: both recognisers, forward and backward pass, `sample.c`, `interpolation.c` (a
  table).  A comparison of errors is one of any two numbers.
* Formatting: the text of result files, of SQL statements and of the log, translations.
* Lack of memory: `malloc` and `PQexec` are taken to return something.  Overflow of the count of training pairs, an
  `int` that huge batches could wrap.  Power failures (see 1).
* `fork`, descriptors, the pid in the lock file; reading the configuration.
* The start script: a shell script around a pid file that nothing writes.  It shares no state with the program.
* `ocr_number`: it reads a file as `ocr_train` does (TrainingFile), and keeps nothing.
* `db_check_serial_validity`, `odstranimark`, `answerenhance`, `debugsquare`, the binary network format,
  `net_jolt`, single weights: nothing calls them.

## 9. Plan

Done, in this order: Pola, Registry, OchiState, ScanDaemon; PageReader; Barcode; Training; Answers; Network;
StudentNumber; TrainingFile; OcrTrain; the proofs of each, and the refinements of Registry and Training.

Left, should the code around it grow:

1. **Lifecycle**: fork, the parent that exits before the lock is tried, the pid in the lock file and
   `debian/init.d`, composed with `LockFile`.
2. **Composition**: PageReader, StudentNumber and Answers as a refinement of the one step `Recognise` of ScanDaemon.

Independent components may share a run: `pages` checks four modules side by side, which share no variable.

## 10. How to run it

In this directory:

```
tlasany ScanDaemon.tla                                   parse
tlc -workers 2 -config concurrent.cfg MCScanDaemon       concurrent, crash, liveness, oneshot,
                                                         quarantine, lost_barcode, dangling_image, begin_end
tlc -workers 2 -config pages.cfg MCPageReader
tlc -workers 2 -config training.cfg MCTraining
tlc -workers 2 -config network.cfg MCNetwork             network, network_growth
tlapm ScanDaemonProofs.tla                               DataLemmas and the six other ...Proofs modules
```

`concurrent` takes about two minutes, `network` one and a half, `pages` one, the others less; the proofs a few minutes each.
Deadlock is checked in the runs of MCScanDaemon, where nothing may stop for good because somebody can always
start the program; the other models end (`CHECK_DEADLOCK FALSE`) when the pages, the training or the bounded
events do.
