---------------------------- MODULE StudentNumber ----------------------------
(***************************************************************************)
(* The digits of student numbers (getSID).  The picture of a number is cut *)
(* into places; each place is shown to the recogniser, and a place that it *)
(* rejects is cut again, shifted a little, over a grid of shifts.  A       *)
(* number with digits still missing is read once more from a picture that  *)
(* was enhanced differently.  With the switch -e the pictures of digits    *)
(* are kept, to train a network with.                                      *)
(*                                                                         *)
(* Certainties are in hundredths.  Numbers are read one after the other,   *)
(* because the pictures of one lie about when the next is read.            *)
(***************************************************************************)
EXTENDS Integers, FiniteSets

CONSTANTS
  SidLength,     \* digits of a number: 8
  Unkept,        \* places that are not kept for training: 0, 1 and 4
  Digits,        \* what a place may hold: 0..9
  MaxX, MaxY,    \* greatest shifts: 6 in steps of 2, and 2
  Certainties,   \* values of a certainty
  Recognisers,   \* among "compiled" (get_sid_from_character_array),
                 \* "lwneuralnet" (get_sid_from_character_array2) and
                 \* "unloadable" (the latter without its network)
  MaxNumbers     \* bound: numbers read one after the other

Accept  == 85    \* from where lwneuralnet accepts a digit
KeepAt  == 80    \* above which -e keeps its picture
Missing == -1    \* 'x', and what a recogniser returns that rejects
Nothing == -2    \* no picture in the file, no digit in the array yet
SidPlaces  == 0..SidLength - 1

ASSUME NumberAssumption ==
  /\ SidLength \in Nat \ {0} /\ Digits \subseteq Nat /\ Digits # {}
  /\ MaxX \in Nat /\ MaxX % 2 = 0 /\ MaxY \in Nat
  /\ Certainties \subseteq Nat /\ Certainties # {} /\ MaxNumbers \in Nat
  /\ Recognisers \subseteq {"compiled", "lwneuralnet", "unloadable"}

VARIABLES
  recogniser, extract,   \* the build's recogniser, switch -e
  step,       \* "locate", "first", "search", "keep", "again" or "done"
  place,      \* i of decodeSID and decodeMissSID
  cut,        \* j and k of decodeSID, the shift of the cut
  located,    \* whether sid->img is a picture
  memory,     \* what the recogniser says of num when nothing was cut into it
  digit,      \* sid->sid
  certainty,  \* sid->certainty
  pictures,   \* vpisna<i>.png of every place: what it was read as
  kept,       \* history: what was moved to numerals/
  accepted,   \* history: digits accepted at every place
  tries,      \* history: cuts shown to the recogniser at every place
  number      \* numbers begun

switches   == <<recogniser, extract>>
reading    == <<digit, certainty, pictures, accepted, tries>>
numberVars == <<switches, step, place, cut, located, memory, reading, kept, number>>

-----------------------------------------------------------------------------
(* What a recogniser may say of a cut at place p.  The compiled one names  *)
(* a digit always and reads its certainty from freed memory.  Without its  *)
(* network the other one leaves the certainty as it was.                   *)
Says(p) ==
  CASE recogniser = "compiled"    -> [rv : Digits, sure : Certainties]
    [] recogniser = "lwneuralnet" -> {v \in [rv : Digits \cup {Missing}, sure : Certainties] :
                                        v.rv = Missing <=> v.sure < Accept}
    [] recogniser = "unloadable"  -> [rv : {Missing}, sure : {certainty[p]}]

(* What it says of memory that nothing was written to.                     *)
OfUnset == {v.rv : v \in Says(0)}

-----------------------------------------------------------------------------
(* Wrong versions of definitions, used by no specification.                *)

(* num is allocated for every cut: what is in it differs each time.        *)
ShowFresh(p, v) ==
  /\ v \in Says(p)
  /\ certainty' = [certainty EXCEPT ![p] = v.sure]
  /\ pictures' = IF located THEN [pictures EXCEPT ![p] = v.rv] ELSE pictures
  /\ accepted' = [accepted EXCEPT ![p] = @ \cup ({v.rv} \ {Missing})]
  /\ tries' = [tries EXCEPT ![p] = @ + 1]

(* A cut that is rejected takes back the digit of an earlier one.          *)
TakenForgetful(v) == v.rv

(* -e does not look at the certainty.                                      *)
SureAlways(p) == extract

-----------------------------------------------------------------------------
(* chopSID and the recogniser.  Without a picture to cut from, num stays   *)
(* as it was and so does the file with the picture of the last cut.        *)
Show(p, v) ==
  /\ v \in Says(p) /\ (~located => v.rv = memory)
  /\ certainty' = [certainty EXCEPT ![p] = v.sure]
  /\ pictures' = IF located THEN [pictures EXCEPT ![p] = v.rv] ELSE pictures
  /\ accepted' = [accepted EXCEPT ![p] = @ \cup ({v.rv} \ {Missing})]
  /\ tries' = [tries EXCEPT ![p] = @ + 1]

NextPlace ==
  IF place + 1 < SidLength THEN step' = "first" /\ place' = place + 1
                           ELSE step' = "keep" /\ place' = 0

-----------------------------------------------------------------------------
InitNumber ==
  /\ recogniser \in Recognisers /\ extract \in BOOLEAN
  /\ step = "locate" /\ place = 0 /\ cut = <<0, 0>> /\ located = FALSE /\ memory = Missing
  /\ digit = [p \in SidPlaces |-> Nothing] /\ certainty = [p \in SidPlaces |-> 0]
  /\ pictures = [p \in SidPlaces |-> Nothing] /\ kept = {}
  /\ accepted = [p \in SidPlaces |-> {}] /\ tries = [p \in SidPlaces |-> 0] /\ number = 0

(* locateSID, and the arrays of decodeSID, whose memory is not set.        *)
Locate ==
  /\ step \in {"locate", "done"} /\ number < MaxNumbers
  /\ number' = number + 1
  /\ located' \in BOOLEAN /\ memory' \in OfUnset
  /\ digit' = [p \in SidPlaces |-> Nothing] /\ certainty' \in [SidPlaces -> Certainties]
  /\ accepted' = [p \in SidPlaces |-> {}] /\ tries' = [p \in SidPlaces |-> 0]
  /\ step' = "first" /\ place' = 0
  /\ UNCHANGED <<switches, cut, pictures, kept>>

First ==
  /\ step = "first"
  /\ \E v \in Says(place) :
       /\ Show(place, v)
       /\ digit' = [digit EXCEPT ![place] = v.rv]
       /\ \/ v.rv = Missing /\ step' = "search" /\ cut' = <<-MaxX, -MaxY>> /\ UNCHANGED place
          \/ v.rv # Missing /\ NextPlace /\ UNCHANGED cut
  /\ UNCHANGED <<switches, located, memory, kept, number>>

(* The break after an accepted digit leaves the loop over k only: the      *)
(* search goes on in the next column.                                      *)
NextCut(hit) ==
  \/ ~hit /\ cut[2] < MaxY
       /\ cut' = <<cut[1], cut[2] + 1>> /\ UNCHANGED <<step, place>>
  \/ (hit \/ cut[2] = MaxY) /\ cut[1] < MaxX
       /\ cut' = <<cut[1] + 2, -MaxY>> /\ UNCHANGED <<step, place>>
  \/ (hit \/ cut[2] = MaxY) /\ cut[1] = MaxX
       /\ NextPlace /\ UNCHANGED cut

Taken(v) == IF v.rv = Missing THEN digit[place] ELSE v.rv

(* The cut that is not shifted has been rejected before.                   *)
Search ==
  /\ step = "search"
  /\ \E v \in Says(place) :
       /\ cut = <<0, 0>> => v.rv = Missing
       /\ Show(place, v)
       /\ digit' = [digit EXCEPT ![place] = Taken(v)]
       /\ NextCut(v.rv # Missing)
  /\ UNCHANGED <<switches, located, memory, kept, number>>

(* -e.  The rename of a missing digit goes to a directory that is not      *)
(* there ('x' - '0' is 72).  Then getSID looks for an 'x'; the second      *)
(* attempt reads into memory of its own.                                   *)
Sure(p) == extract /\ certainty[p] > KeepAt

ToKeep == {p \in SidPlaces \ Unkept :
             Sure(p) /\ digit[p] # Missing /\ pictures[p] # Nothing}

Keep ==
  /\ step = "keep"
  /\ kept' = kept \cup {[dir |-> digit[p], read |-> pictures[p], sure |-> certainty[p],
                         cut |-> located] : p \in ToKeep}
  /\ pictures' = [p \in SidPlaces |-> IF p \in ToKeep THEN Nothing ELSE pictures[p]]
  /\ step' = IF \E p \in SidPlaces : digit[p] = Missing THEN "again" ELSE "done"
  /\ memory' \in OfUnset
  /\ UNCHANGED <<switches, place, cut, located, digit, certainty, accepted, tries, number>>

(* decodeMissSID, one place after the other.                               *)
Again ==
  /\ step = "again"
  /\ \/ digit[place] # Missing /\ UNCHANGED reading
     \/ digit[place] = Missing /\ \E v \in Says(place) :
          Show(place, v) /\ digit' = [digit EXCEPT ![place] = v.rv]
  /\ IF place + 1 < SidLength THEN place' = place + 1 /\ UNCHANGED step
                              ELSE place' = 0 /\ step' = "done"
  /\ UNCHANGED <<switches, cut, located, memory, kept, number>>

NextNumber == Locate \/ First \/ Search \/ Keep \/ Again

SpecNumber == InitNumber /\ [][NextNumber]_numberVars

-----------------------------------------------------------------------------
(* Properties.                                                             *)

Cuts == 1 + (MaxX + 1) * (2 * MaxY + 1)
Passed == {p \in SidPlaces : step \in {"keep", "again", "done"} \/ p < place}

(* Although the search goes on after a digit was accepted and comes by     *)
(* cuts that are rejected, no digit is lost or made up: a digit was        *)
(* accepted at its place, and a place is given up only when every cut of   *)
(* it has been rejected.                                                   *)
DigitsAccepted ==
  number > 0 => \A p \in Passed :
    IF digit[p] = Missing THEN accepted[p] = {} /\ tries[p] >= Cuts
                          ELSE digit[p] \in accepted[p]

(* A picture is kept under the digit it was read as.  It may be another    *)
(* one in two cases: a cut that was tried after the accepted one was       *)
(* rejected with a certainty between the two limits, or there was no       *)
(* number to cut and the picture is one of an earlier page.                *)
KeptAsRead ==
  \A k \in kept : k.read = k.dir \/ ~k.cut \/ (KeepAt < k.sure /\ k.sure < Accept)

(* Where no number was found, the same unset memory is shown to the        *)
(* recogniser for every place: the number that is written has one digit,   *)
(* or none, at all of them.                                                *)
UnlocatedAlike ==
  step \in {"keep", "done"} /\ ~located => \A p, q \in SidPlaces : digit[p] = digit[q]
=============================================================================
