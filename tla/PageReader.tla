----------------------------- MODULE PageReader -----------------------------
(***************************************************************************)
(* What process_scans does with the pictures of gl_pathv, one after the    *)
(* other, between listing scan_directory and closing the database: which   *)
(* picture getCode is tried on, in which orientation, and which blocks of  *)
(* the heap every step allocates, follows and frees.                       *)
(*                                                                         *)
(* A pointer variable (or field) v of the code is an element of Pointers.  *)
(* The n-th block ever allocated for v has number n, 0 stands for NULL:    *)
(* at[v] is the block v points to, live[v] the blocks allocated for v that *)
(* nobody has freed, made[v] how many there have been.  An open file       *)
(* descriptor counts as a block.  What a function allocates and frees      *)
(* itself before it returns is left out, and so is what a pass allocates   *)
(* for itself: the list of files and the database connection.              *)
(***************************************************************************)
EXTENDS Naturals

CONSTANTS
  MaxPages,   \* gl_pathc, the number of files in the list; bound
  Depths,     \* bits per pixel of the scans
  CanReject,  \* the recogniser of digits may give a negative answer: TRUE for
              \* get_sid_from_character_array2, FALSE for the one compiled in
  DbFails     \* db_insert_scan may fail: to open the picture, to create the
              \* large object, or at the INSERT

ASSUME ReaderAssumption ==
  /\ MaxPages \in Nat \ {0} /\ Depths \subseteq Nat
  /\ CanReject \in BOOLEAN /\ DbFails \in BOOLEAN

Pointers ==
  {"pixs", "pixd",                    \* the original and the repaired picture
   "pixt",                            \* loadimage: normalised grey picture
   "bar", "barImg", "barText",        \* BAR and its fields img, barcode
   "sid", "sidImg", "sidText", "sidCert", \* SID and its fields
   "sidCopy",                         \* getSID: pixt
   "sidOld",                          \* what sidOldEnhance leaves in sid->img
   "ans",                             \* ANS with its markers, matrix, string
   "query", "firstSer",               \* db_insert_scan: query, first_ser
   "fd"}                              \* db_insert_blob: the descriptor fd

(* Pointers whose block is lost when the variable is given another value.  *)
Leaking == {"pixt", "sidOld", "query", "firstSer", "fd"}

VARIABLES
  pc,        \* the next step
  page,      \* index into gl_pathv, from 1
  try,       \* which getCode this is: on the repaired picture, on the turned
             \* one, or on the original one
  upright,   \* the sheet was fed the right way up
  turned,    \* pictures turned by pixRotate180
  at, live, made

heapVars == <<at, live, made>>
vars == <<pc, page, try, upright, turned, at, live, made>>

Tries == {"repaired", "turned", "original"}
Places == {"load", "repair", "find", "decode", "thicken", "decodeAgain",
           "check", "turn", "quarantine", "page", "sid", "sidAgain",
           "answers", "write", "store", "destroy",
           "end",     \* process_scans has returned
           "dead"}    \* the process has crashed or called exit

TypeOK ==
  /\ pc \in Places /\ try \in Tries
  /\ page \in 1..MaxPages + 1 /\ (page = MaxPages + 1 => pc = "end")
  /\ upright \in BOOLEAN /\ turned \subseteq {"pixs", "pixd"}
  /\ at \in [Pointers -> Nat] /\ made \in [Pointers -> Nat]
  /\ live \in [Pointers -> SUBSET Nat]

Init ==
  /\ pc = "load" /\ page = 1 /\ try = "repaired" /\ upright = TRUE /\ turned = {}
  /\ at = [v \in Pointers |-> 0] /\ made = [v \in Pointers |-> 0]
  /\ live = [v \in Pointers |-> {}]

-----------------------------------------------------------------------------
(* The heap.                                                               *)

(* The blocks of freed are given back and every v in new gets one; the     *)
(* pointers in null are set to NULL.  A v in freed and not in null keeps   *)
(* its value, like the argument of barDestroy.                             *)
Heap(freed, new, null) ==
  /\ made' = [v \in Pointers |-> IF v \in new THEN made[v] + 1 ELSE made[v]]
  /\ live' = [v \in Pointers |->
                (IF v \in freed THEN live[v] \ {at[v]} ELSE live[v])
                \cup (IF v \in new THEN {made[v] + 1} ELSE {})]
  /\ at' = [v \in Pointers |-> IF v \in new THEN made[v] + 1
                               ELSE IF v \in null THEN 0 ELSE at[v]]

Set(v) == at[v] # 0

(* What barDestroy, sidDestroy and ansDestroy free.                        *)
BarBlocks == {"bar", "barImg"} \cup {v \in {"barText"} : Set(v)}
SidBlocks == {"sid", "sidText", "sidCert"} \cup {v \in {"sidImg"} : Set(v)}

(* The picture getCode works on.                                           *)
Picture == IF try = "original" THEN "pixs" ELSE "pixd"
Upright(pix) == upright # (pix \in turned)

At(place) == pc = place
Goto(place) == pc' = place
Stay == UNCHANGED <<page, try, upright, turned>>

(* Wrong: the loop runs once too often.                                    *)
NextPageOffByOne ==
  /\ page' = page + 1
  /\ pc' = IF page = MaxPages + 1 THEN "end" ELSE "load"
  /\ UNCHANGED <<try, upright, turned>>

(* continue: the loop goes on with the next file, or ends.                 *)
NextPage ==
  /\ page' = page + 1
  /\ pc' = IF page = MaxPages THEN "end" ELSE "load"
  /\ UNCHANGED <<try, upright, turned>>

-----------------------------------------------------------------------------
(* Wrong versions of steps, used by no specification.                      *)

(* Only the repaired picture is turned.                                    *)
TurnRepaired ==
  /\ At("turn") /\ try = "repaired"
  /\ turned' = {"pixd"} /\ try' = "turned" /\ Goto("find")
  /\ UNCHANGED <<page, upright, heapVars>>

(* A page that is not the first one keeps the SID of the page before it.   *)
OtherPageKeepsSid ==
  /\ At("page")
  /\ Goto("answers")
  /\ Stay /\ UNCHANGED heapVars

(* The original picture is forgotten when there is no barcode.             *)
NoBarcodeKeepsOriginal ==
  /\ At("turn") /\ try = "turned"
  /\ Heap({"pixd"}, {}, {"pixs", "pixd"})
  /\ NextPage

-----------------------------------------------------------------------------
(* Steps.                                                                  *)

(* loadimage: a picture of more than one bit per pixel is normalised into  *)
(* pixt, and pixt is overwritten by the next conversion.                   *)
Load ==
  /\ At("load")
  /\ \E depth \in Depths :
       Heap({}, IF depth > 1 THEN {"pixs", "pixt"} ELSE {"pixs"}, {})
  /\ upright' \in BOOLEAN /\ turned' = {} /\ try' = "repaired"
  /\ Goto("repair")
  /\ UNCHANGED page

LoadFails ==
  /\ At("load")
  /\ Heap({}, {}, {"pixs"})
  /\ Goto("end") /\ Stay

(* repair_scanned_image: both pictures are replaced by deskewed ones.      *)
Repair ==
  /\ At("repair")
  /\ Heap({"pixs"}, {"pixs", "pixd"}, {})
  /\ Goto("find") /\ Stay

(* locateCode, in getCode: no barcode where one is expected ...            *)
NotFound ==
  /\ At("find")
  /\ Heap({}, {}, {"bar"})
  /\ Goto(IF try = "original" THEN "check" ELSE "turn") /\ Stay

(* ... or something that looks like one.                                   *)
Found ==
  /\ At("find")
  /\ Heap({}, {"bar", "barImg"}, {})
  /\ Goto("decode") /\ Stay

(* decodeCode: the corner of the barcode has to be the corner looked at.   *)
Decoded ==
  /\ pc \in {"decode", "decodeAgain"} /\ Upright(Picture)
  /\ Heap({}, {"barText"}, {})
  /\ Goto("check") /\ Stay

NotDecoded ==
  /\ pc \in {"decode", "decodeAgain"}
  /\ Heap({}, {}, {"barText"})
  /\ Goto(IF pc = "decode" THEN "thicken" ELSE "check") /\ Stay

(* "tryig another way".                                                    *)
Thicken ==
  /\ At("thicken")
  /\ Heap({"barImg"}, {"barImg"}, {})
  /\ Goto("decodeAgain") /\ Stay

(* No barcode: both pictures are turned and getCode is tried once more.    *)
Turn ==
  /\ At("turn") /\ try = "repaired"
  /\ turned' = {"pixs", "pixd"} /\ try' = "turned" /\ Goto("find")
  /\ UNCHANGED <<page, upright, heapVars>>

NoBarcode ==
  /\ At("turn") /\ try = "turned"
  /\ Heap({"pixs", "pixd"}, {}, {"pixs", "pixd"})
  /\ NextPage

(* A barcode that is not decoded is looked for in the original picture.    *)
TryOriginal ==
  /\ At("check") /\ try # "original" /\ ~Set("barText")
  /\ Heap(BarBlocks, {}, {"bar"})
  /\ try' = "original" /\ Goto("find")
  /\ UNCHANGED <<page, upright, turned>>

HasCode ==
  /\ At("check") /\ Set("bar") /\ Set("barText")
  /\ Heap({"pixs"}, {}, {"pixs"})
  /\ Goto("page") /\ Stay

(* barkoda is NULL and is followed all the same.                           *)
LostCode ==
  /\ At("check") /\ try = "original" /\ ~Set("bar")
  /\ Heap({"pixs"}, {}, {"pixs"})
  /\ Goto("dead") /\ Stay

NeverDecoded ==
  /\ At("check") /\ try = "original" /\ Set("bar") /\ ~Set("barText")
  /\ Heap({"pixs"} \cup BarBlocks, {}, {"pixs"})
  /\ Goto("quarantine") /\ Stay

Quarantine ==
  /\ At("quarantine")
  /\ \/ Heap({"pixd"}, {}, {"pixd"}) /\ NextPage
     \/ Goto("dead") /\ Stay /\ UNCHANGED heapVars

(* locateSID: with nothing in the corner there is no picture of the SID.   *)
FirstPage ==
  /\ At("page")
  /\ \/ Heap({}, {"sid", "sidImg"}, {})
     \/ Heap({}, {"sid"}, {"sidImg"})
  /\ Goto("sid") /\ Stay

OtherPage ==
  /\ At("page")
  /\ Heap({}, {"sid", "sidText", "sidCert"}, {"sidImg"})
  /\ Goto("answers") /\ Stay

(* getSID: pixCopy and decodeSID; without an x the copy is freed.          *)
ReadSid ==
  /\ At("sid")
  /\ \/ Heap({}, {"sidText", "sidCert"}, {"sidCopy"}) /\ Goto("answers")
     \/ /\ CanReject /\ Goto("sidAgain")
        /\ IF Set("sidImg") THEN Heap({}, {"sidText", "sidCert", "sidCopy"}, {})
                            ELSE Heap({}, {"sidText", "sidCert"}, {"sidCopy"})
  /\ Stay

(* sidOldEnhance frees the copy and makes another picture of it, which     *)
(* nothing points to once sid->img is the first picture again.             *)
ReadSidAgain ==
  /\ At("sidAgain")
  /\ IF Set("sidCopy") THEN Heap({"sidCopy"}, {"sidOld"}, {"sidCopy"})
                       ELSE UNCHANGED heapVars
  /\ Goto("answers") /\ Stay

ReadAnswers ==
  /\ At("answers")
  /\ Heap({}, {"ans"}, {})
  /\ Goto("write") /\ Stay

(* writerezfile; without markers it follows a NULL pointer, and so it does *)
(* when the result file cannot be opened.                                  *)
WriteResult ==
  /\ At("write")
  /\ pc' \in {"store", "dead"}
  /\ Stay /\ UNCHANGED heapVars

(* db_insert_wrapper.  db_insert_scan frees its query when the INSERT      *)
(* succeeds only, and nothing at all without a large object; db_insert_blob *)
(* leaves the picture open when lo_creat fails.                            *)
LeftBehind == {{"query", "firstSer"},        \* the picture cannot be opened
               {"query", "firstSer", "fd"},  \* lo_creat fails
               {"query"}}                    \* the INSERT fails
Store ==
  /\ At("store")
  /\ \/ UNCHANGED heapVars
     \/ DbFails /\ \E left \in LeftBehind : Heap({}, left, {})
  /\ Goto("destroy") /\ Stay

Destroy ==
  /\ At("destroy")
  /\ Heap({"ans", "pixd"} \cup SidBlocks \cup BarBlocks, {}, {"pixd"})
  /\ NextPage

Next ==
  \/ Load \/ LoadFails \/ Repair
  \/ NotFound \/ Found \/ Decoded \/ NotDecoded \/ Thicken
  \/ Turn \/ NoBarcode \/ TryOriginal \/ HasCode \/ LostCode \/ NeverDecoded
  \/ Quarantine \/ FirstPage \/ OtherPage \/ ReadSid \/ ReadSidAgain
  \/ ReadAnswers \/ WriteResult \/ Store \/ Destroy

Spec == Init /\ [][Next]_vars

-----------------------------------------------------------------------------
(* Properties.                                                             *)

(* The pointers that own a block when the step at pc begins.               *)
Held ==
  CASE pc = "repair" -> {"pixs"}
    [] pc \in {"find", "turn"} -> {"pixs", "pixd"}
    [] pc \in {"decode", "thicken", "decodeAgain"} ->
         {"pixs", "pixd", "bar", "barImg"}
    [] pc = "check" -> {"pixs", "pixd"}
         \cup IF Set("bar") THEN BarBlocks ELSE {}
    [] pc = "quarantine" -> {"pixd"}
    [] pc = "page" -> {"pixd"} \cup BarBlocks
    [] pc = "sid" -> {"pixd", "sid"} \cup BarBlocks
         \cup {v \in {"sidImg"} : Set(v)}
    [] pc = "sidAgain" -> {"pixd"} \cup BarBlocks \cup SidBlocks
         \cup {v \in {"sidCopy"} : Set(v)}
    [] pc = "answers" -> {"pixd"} \cup BarBlocks \cup SidBlocks
    [] pc \in {"write", "store", "destroy"} ->
         {"pixd", "ans"} \cup BarBlocks \cup SidBlocks
    [] OTHER -> {}

(* What the step at pc follows: getCode its picture, barDestroy and the    *)
(* rest of the loop the barcode and its text, writerezfile and             *)
(* db_insert_wrapper the answers, the digits and their certainties.        *)
Follows ==
  CASE pc = "repair" -> {"pixs"}
    [] pc = "find" -> {Picture}
    [] pc \in {"decode", "thicken", "decodeAgain"} -> {"bar", "barImg"}
    [] pc = "turn" -> {"pixs", "pixd"}
    [] pc = "check" -> {"pixs", "bar"} \cup {v \in {"barText"} : Set("bar")}
    [] pc = "quarantine" -> {"pixd"}
    [] pc = "page" -> {"pixd", "bar", "barText"}
    [] pc = "sid" -> {"sid", "sidImg"}
    [] pc = "sidAgain" -> {"sid", "sidImg", "sidText", "sidCert", "sidCopy"}
    [] pc = "answers" -> {"pixd"}
    [] pc = "write" -> {"pixd", "ans", "bar", "barText", "sid", "sidText", "sidCert"}
    [] pc = "store" -> {"ans", "bar", "barText", "sid", "sidText", "sidCert"}
    [] pc = "destroy" ->
         {"pixd", "ans", "bar", "barImg", "barText", "sid", "sidImg", "sidText", "sidCert"}
    [] OTHER -> {}

(* Where the code asks whether a pointer is NULL, or hands it to leptonica, *)
(* which does: the text of a code, the picture of a student number and its *)
(* copy.  It should ask for barkoda, too, after the third getCode; that it *)
(* does not is LostCode.                                                   *)
MayBeNull ==
  CASE pc = "check" -> {"barText"} \cup {v \in {"bar"} : try = "original"}
    [] pc \in {"sid", "sidAgain", "destroy"} -> {"sidImg", "sidCopy"}
    [] OTHER -> {}

(* A pointer that a step of a page follows or frees points to a block that *)
(* nobody has freed, or is NULL where that is allowed for: barDestroy,     *)
(* sidDestroy and ansDestroy leave barkoda, vpisna and answer pointing to  *)
(* what they have freed, getCode and locateSID may return without one.     *)
NoDangling ==
  \A v \in Follows : IF Set(v) THEN at[v] \in live[v] ELSE v \in MayBeNull

(* What the memory of a daemon grows by: the normalised picture of a scan  *)
(* that is not black and white, what a second reading of a student number  *)
(* leaves, and what an insertion that fails does.                          *)
Lost == (IF Depths \subseteq {1} THEN {} ELSE {"pixt"})
          \cup (IF CanReject THEN {"sidOld"} ELSE {})
          \cup (IF DbFails THEN {"query", "firstSer", "fd"} ELSE {})

(* At the head of the loop nothing else of the pages before is still       *)
(* allocated ("destroy all allocated space (hopefully)", daemon.c).        *)
PageClean == pc \in {"load", "end"} => \A v \in Pointers \ Lost : live[v] = {}

(* Student number and answers are read from a picture that is the right    *)
(* way up, whichever of the three calls of getCode found the barcode.      *)
ReadUpright ==
  pc \in {"page", "sid", "sidAgain", "answers", "write"} => Upright("pixd")

(* A pointer in Held owns a block, and nobody else has one but what        *)
(* Leaking has lost.                                                       *)
Owns(v) ==
  /\ v \in Held => at[v] # 0 /\ at[v] \in live[v]
  /\ v \notin Leaking => live[v] = IF v \in Held THEN {at[v]} ELSE {}

HeapInv ==
  /\ pc # "dead" => \A v \in Pointers : Owns(v)
  /\ pc = "check" /\ ~Set("bar") => try = "original"
  /\ pc \in {"page", "sid", "sidAgain", "answers", "write", "store", "destroy"} =>
       Set("barText")

(* Both pictures are turned or none is, and what is decoded is upright.    *)
TurnInv ==
  /\ turned \in {{}, {"pixs", "pixd"}}
  /\ pc = "check" /\ Set("bar") /\ Set("barText") => Upright(Picture)
  /\ ReadUpright

ReaderInv == TypeOK /\ HeapInv /\ TurnInv
=============================================================================
