------------------------ MODULE StudentNumberProofs ------------------------
(***************************************************************************)
(* Proofs about StudentNumber for numbers of any length, any grid of       *)
(* shifts, any set of digits and any of the recognisers.                   *)
(***************************************************************************)
EXTENDS StudentNumber, TLAPS

Row == 2 * MaxY + 1     \* cuts in a column of the grid

SidTyped ==
  /\ recogniser \in Recognisers /\ extract \in BOOLEAN
  /\ step \in {"locate", "first", "search", "keep", "again", "done"}
  /\ place \in SidPlaces /\ located \in BOOLEAN /\ memory \in Digits \cup {Missing}
  /\ digit \in [SidPlaces -> Digits \cup {Missing, Nothing}]
  /\ certainty \in [SidPlaces -> Int]
  /\ pictures \in [SidPlaces -> Digits \cup {Missing, Nothing}]
  /\ accepted \in [SidPlaces -> SUBSET Digits] /\ tries \in [SidPlaces -> Nat]
  /\ cut \in Int \X Int /\ number \in Nat
  /\ step = "locate" => number = 0
  /\ step = "keep" => place = 0

Searched(p) == step = "search" /\ p = place

(* A place that was read holds a digit that was accepted there; one that   *)
(* was not, or not yet, has no accepted digit.                             *)
ReadRight ==
  step # "locate" => \A p \in SidPlaces :
    IF p \in Passed \/ Searched(p)
      THEN (digit[p] = Missing /\ accepted[p] = {}) \/ digit[p] \in accepted[p]
      ELSE accepted[p] = {} /\ tries[p] = 0

(* Without its network the recogniser accepts nothing.                     *)
Unloaded == recogniser = "unloadable" => \A p \in SidPlaces : accepted[p] = {}

(* How far the search has come.                                            *)
SearchedFar ==
  /\ step # "locate" => \A p \in Passed : digit[p] = Missing => tries[p] >= Cuts
  /\ step = "search" =>
       /\ cut[1] \in -MaxX..MaxX /\ cut[2] \in -MaxY..MaxY
       /\ \E c \in 0..MaxX :
            /\ cut[1] = 2 * c - MaxX
            /\ digit[place] = Missing => tries[place] = 1 + c * Row + cut[2] + MaxY

(* The picture on the disk is that of the digit, or of a cut that was      *)
(* rejected after it.                                                      *)
PictureRight ==
  located => \A p \in SidPlaces :
    (step \in {"first", "search", "keep"} /\ (p \in Passed \/ Searched(p))) =>
      pictures[p] = digit[p] \/ (pictures[p] = Missing /\ certainty[p] < Accept)

(* All digits are what the recogniser says of the same memory.             *)
Alike ==
  ~located =>
    /\ step \in {"first", "search"} => \A p \in SidPlaces : p < place => digit[p] = memory
    /\ step = "search" => memory = Missing /\ digit[place] = Missing
    /\ step = "keep" => \A p \in SidPlaces : digit[p] = memory
    /\ step = "again" => \A p \in SidPlaces : digit[p] = IF p < place THEN memory ELSE Missing
    /\ step = "done" => \A p, q \in SidPlaces : digit[p] = digit[q]

SidInv ==
  SidTyped /\ ReadRight /\ Unloaded /\ SearchedFar /\ PictureRight /\ Alike /\ KeptAsRead

USE NumberAssumption DEF SidPlaces, Missing, Nothing

LEMMA Consts ==
  /\ Row \in Nat /\ Row = 2 * MaxY + 1 /\ Cuts = 1 + (MaxX + 1) * Row
  /\ \A c \in Int : (c + 1) * Row = c * Row + Row /\ c * Row \in Int
  BY DEF Row, Cuts

LEMMA Widen ==
  ASSUME NEW S, NEW T, NEW U, NEW f \in [S -> T], T \subseteq U
  PROVE  f \in [S -> U]
  OBVIOUS

LEMMA UnsetIs == SidTyped => OfUnset \subseteq Digits \cup {Missing}
<1> SUFFICES ASSUME SidTyped, NEW v \in Says(0) PROVE v.rv \in Digits \cup {Missing}
  BY DEF OfUnset
<1>1. CASE recogniser = "compiled"
  BY <1>1 DEF Says
<1>2. CASE recogniser = "lwneuralnet"
  BY <1>2 DEF Says
<1>3. CASE recogniser = "unloadable"
  BY <1>3 DEF Says
<1> QED
  BY <1>1, <1>2, <1>3 DEF SidTyped

LEMMA InitSid == InitNumber => SidInv
<1> SUFFICES ASSUME InitNumber PROVE SidInv
  OBVIOUS
<1>1. SidTyped
  <2>1. /\ digit \in [SidPlaces -> Digits \cup {Missing, Nothing}]
        /\ pictures \in [SidPlaces -> Digits \cup {Missing, Nothing}]
    BY DEF InitNumber
  <2>2. certainty \in [SidPlaces -> Int] /\ tries \in [SidPlaces -> Nat]
    BY DEF InitNumber
  <2>3. accepted \in [SidPlaces -> SUBSET Digits]
    BY DEF InitNumber
  <2>4. cut \in Int \X Int /\ place \in SidPlaces /\ number \in Nat
    BY DEF InitNumber
  <2>5. /\ step = "locate" /\ number = 0 /\ located \in BOOLEAN /\ memory \in Digits \cup {Missing}
        /\ recogniser \in Recognisers /\ extract \in BOOLEAN
    BY DEF InitNumber
  <2> QED
    BY <2>1, <2>2, <2>3, <2>4, <2>5 DEF SidTyped
<1>2. ReadRight /\ Unloaded /\ SearchedFar /\ PictureRight /\ Alike
  BY DEF InitNumber, ReadRight, Unloaded, SearchedFar, PictureRight, Alike
<1>3. KeptAsRead
  BY DEF InitNumber, KeptAsRead
<1> QED
  BY <1>1, <1>2, <1>3 DEF SidInv

(* What showing a cut to the recogniser changes.                           *)
LEMMA Shown ==
  ASSUME SidTyped, NEW p \in SidPlaces, NEW v \in Says(p), Show(p, v)
  PROVE  /\ v.rv \in Digits \cup {Missing} /\ v.sure \in Int
         /\ recogniser = "lwneuralnet" => (v.rv = Missing <=> v.sure < Accept)
         /\ recogniser = "compiled" => v.rv # Missing
         /\ recogniser = "unloadable" => v.rv = Missing
         /\ ~located => v.rv = memory
         /\ certainty' \in [SidPlaces -> Int] /\ certainty'[p] = v.sure
         /\ pictures' \in [SidPlaces -> Digits \cup {Missing, Nothing}]
         /\ located => pictures'[p] = v.rv
         /\ accepted' \in [SidPlaces -> SUBSET Digits]
         /\ accepted'[p] = accepted[p] \cup ({v.rv} \ {Missing})
         /\ tries' \in [SidPlaces -> Nat] /\ tries'[p] = tries[p] + 1
         /\ \A q \in SidPlaces \ {p} :
              /\ certainty'[q] = certainty[q] /\ pictures'[q] = pictures[q]
              /\ accepted'[q] = accepted[q] /\ tries'[q] = tries[q]
<1>1. /\ v.rv \in Digits \cup {Missing} /\ v.sure \in Int
      /\ recogniser = "lwneuralnet" => (v.rv = Missing <=> v.sure < Accept)
      /\ recogniser = "compiled" => v.rv # Missing
      /\ recogniser = "unloadable" => v.rv = Missing
  <2>1. CASE recogniser = "compiled"
    BY <2>1 DEF Says
  <2>2. CASE recogniser = "lwneuralnet"
    BY <2>2 DEF Says
  <2>3. CASE recogniser = "unloadable"
    BY <2>3 DEF Says, SidTyped
  <2> QED
    BY <2>1, <2>2, <2>3 DEF SidTyped
<1>2. ~located => v.rv = memory
  BY DEF Show
<1>3. /\ certainty' = [certainty EXCEPT ![p] = v.sure]
      /\ pictures' = IF located THEN [pictures EXCEPT ![p] = v.rv] ELSE pictures
      /\ accepted' = [accepted EXCEPT ![p] = @ \cup ({v.rv} \ {Missing})]
      /\ tries' = [tries EXCEPT ![p] = @ + 1]
  BY DEF Show
<1>4. certainty' \in [SidPlaces -> Int] /\ certainty'[p] = v.sure
  BY <1>1, <1>3 DEF SidTyped
<1>5. /\ pictures' \in [SidPlaces -> Digits \cup {Missing, Nothing}]
      /\ located => pictures'[p] = v.rv
  BY <1>1, <1>3 DEF SidTyped
<1>6. /\ accepted' \in [SidPlaces -> SUBSET Digits]
      /\ accepted'[p] = accepted[p] \cup ({v.rv} \ {Missing})
  <2>1. {v.rv} \ {Missing} \subseteq Digits
    BY <1>1
  <2> QED
    BY <2>1, <1>3 DEF SidTyped
<1>7. tries' \in [SidPlaces -> Nat] /\ tries'[p] = tries[p] + 1
  BY <1>3 DEF SidTyped
<1>8. ASSUME NEW q \in SidPlaces \ {p}
      PROVE  /\ certainty'[q] = certainty[q] /\ pictures'[q] = pictures[q]
             /\ accepted'[q] = accepted[q] /\ tries'[q] = tries[q]
  BY <1>3, <1>8 DEF SidTyped
<1> QED
  BY <1>1, <1>2, <1>4, <1>5, <1>6, <1>7, <1>8

LEMMA LocateStep ==
  ASSUME SidInv, Locate
  PROVE  SidInv'
<1>1. /\ step' = "first" /\ place' = 0 /\ number' = number + 1 /\ number \in Nat
      /\ located' \in BOOLEAN /\ memory' \in Digits \cup {Missing}
      /\ digit' = [p \in SidPlaces |-> Nothing] /\ certainty' \in [SidPlaces -> Certainties]
      /\ accepted' = [p \in SidPlaces |-> {}] /\ tries' = [p \in SidPlaces |-> 0]
      /\ UNCHANGED <<recogniser, extract, cut, pictures, kept>>
  BY UnsetIs DEF Locate, SidInv, SidTyped, switches
<1>2. SidTyped'
  <2>1. certainty' \in [SidPlaces -> Int]
    <3>1. Certainties \subseteq Int
      OBVIOUS
    <3> QED
      BY <1>1, <3>1, Widen
  <2>2. accepted' \in [SidPlaces -> SUBSET Digits] /\ tries' \in [SidPlaces -> Nat]
    BY <1>1
  <2>3. digit' \in [SidPlaces -> Digits \cup {Missing, Nothing}] /\ place' \in SidPlaces
    BY <1>1
  <2> QED
    BY <1>1, <2>1, <2>2, <2>3 DEF SidInv, SidTyped
<1>3. Passed' = {}
  BY <1>1 DEF Passed
<1>4. /\ \A p \in SidPlaces : ~Searched(p)'
      /\ \A p \in SidPlaces : accepted'[p] = {} /\ tries'[p] = 0
  BY <1>1 DEF Searched
<1>5. ReadRight' /\ Unloaded' /\ SearchedFar' /\ PictureRight' /\ Alike'
  BY <1>1, <1>3, <1>4 DEF ReadRight, Unloaded, SearchedFar, PictureRight, Alike
<1>6. KeptAsRead'
  BY <1>1 DEF SidInv, KeptAsRead
<1> QED
  BY <1>2, <1>5, <1>6 DEF SidInv

(* What is true of a place and not moved by a step stays true.             *)
LEMMA NextPlaceIs ==
  ASSUME SidTyped, step \in {"first", "search"}, NextPlace
  PROVE  /\ place' \in SidPlaces /\ step' \in {"first", "keep"}
         /\ Passed' = Passed \cup {place}
         /\ \A p \in SidPlaces : ~Searched(p)'
         /\ step' = "first" => place' = place + 1
         /\ step' = "keep" => place = SidLength - 1 /\ place' = 0
<1>1. place \in SidPlaces
  BY DEF SidTyped
<1>2. CASE place + 1 < SidLength
  <2>1. step' = "first" /\ place' = place + 1
    BY <1>2 DEF NextPlace
  <2>2. \A p \in SidPlaces : p < place + 1 <=> p < place \/ p = place
    BY <1>1
  <2> QED
    BY <1>1, <1>2, <2>1, <2>2 DEF Passed, Searched
<1>3. CASE ~(place + 1 < SidLength)
  <2>1. step' = "keep" /\ place' = 0 /\ place = SidLength - 1
    BY <1>1, <1>3 DEF NextPlace
  <2>2. \A p \in SidPlaces : p < place \/ p = place
    BY <1>1, <2>1
  <2> QED
    BY <1>1, <2>1, <2>2 DEF Passed, Searched
<1> QED
  BY <1>2, <1>3

LEMMA FirstStep ==
  ASSUME SidInv, First
  PROVE  SidInv'
<1> USE DEF SidInv
<1>1. PICK v \in Says(place) :
        /\ Show(place, v)
        /\ digit' = [digit EXCEPT ![place] = v.rv]
        /\ \/ v.rv = Missing /\ step' = "search" /\ cut' = <<-MaxX, -MaxY>> /\ place' = place
           \/ v.rv # Missing /\ NextPlace /\ cut' = cut
  BY DEF First
<1>2. /\ step = "first"
      /\ UNCHANGED <<recogniser, extract, located, memory, kept, number>>
  BY DEF First, switches
<1>3. place \in SidPlaces
  BY DEF SidTyped
<1>4. /\ v.rv \in Digits \cup {Missing}
      /\ v.rv = Missing /\ recogniser = "lwneuralnet" => v.sure < Accept
      /\ ~located => v.rv = memory
      /\ certainty' \in [SidPlaces -> Int] /\ certainty'[place] = v.sure
      /\ pictures' \in [SidPlaces -> Digits \cup {Missing, Nothing}]
      /\ located => pictures'[place] = v.rv
      /\ accepted' \in [SidPlaces -> SUBSET Digits]
      /\ accepted'[place] = accepted[place] \cup ({v.rv} \ {Missing})
      /\ tries' \in [SidPlaces -> Nat] /\ tries'[place] = tries[place] + 1
      /\ \A q \in SidPlaces \ {place} :
           /\ certainty'[q] = certainty[q] /\ pictures'[q] = pictures[q]
           /\ accepted'[q] = accepted[q] /\ tries'[q] = tries[q]
  BY <1>1, <1>3, Shown
<1>5. /\ digit' \in [SidPlaces -> Digits \cup {Missing, Nothing}] /\ digit'[place] = v.rv
      /\ \A q \in SidPlaces \ {place} : digit'[q] = digit[q]
  BY <1>1, <1>3, <1>4 DEF SidTyped
<1>6. accepted[place] = {} /\ tries[place] = 0 /\ place \notin Passed
  BY <1>2, <1>3 DEF ReadRight, Passed, Searched, SidTyped
<1>7. /\ Passed' = IF v.rv = Missing THEN Passed ELSE Passed \cup {place}
      /\ \A p \in SidPlaces : Searched(p)' <=> v.rv = Missing /\ p = place
      /\ \A p \in SidPlaces : ~Searched(p)
  <2>1. CASE v.rv = Missing
    BY <1>1, <1>2, <2>1 DEF Passed, Searched
  <2>2. CASE v.rv # Missing
    BY <1>1, <1>2, <2>2, NextPlaceIs DEF Searched
  <2> QED
    BY <2>1, <2>2
<1>8. /\ place' \in SidPlaces /\ step' \in {"first", "search", "keep"}
      /\ cut' \in Int \X Int /\ (step' = "keep" => place' = 0)
  <2>1. CASE v.rv = Missing
    BY <1>1, <1>3, <2>1
  <2>2. CASE v.rv # Missing
    BY <1>1, <1>2, <2>2, NextPlaceIs DEF SidTyped
  <2> QED
    BY <2>1, <2>2
<1>9. SidTyped'
  BY <1>2, <1>4, <1>5, <1>8 DEF SidTyped
<1>10. ReadRight'
  <2> SUFFICES ASSUME NEW p \in SidPlaces
               PROVE  (IF p \in Passed \/ Searched(p)
                        THEN (digit[p] = Missing /\ accepted[p] = {}) \/ digit[p] \in accepted[p]
                        ELSE accepted[p] = {} /\ tries[p] = 0)'
    BY DEF ReadRight
  <2>1. CASE p = place
    <3>1. (p \in Passed \/ Searched(p))'
      BY <1>7, <2>1
    <3>2. digit'[p] = v.rv /\ accepted'[p] = {v.rv} \ {Missing}
      BY <1>4, <1>5, <1>6, <2>1
    <3> QED
      BY <3>1, <3>2
  <2>2. CASE p # place
    <3>1. (p \in Passed \/ Searched(p))' <=> p \in Passed \/ Searched(p)
      BY <1>7, <2>2
    <3>2. digit'[p] = digit[p] /\ accepted'[p] = accepted[p] /\ tries'[p] = tries[p]
      BY <1>4, <1>5, <2>2
    <3> QED
      BY <1>2, <3>1, <3>2 DEF ReadRight
  <2> QED
    BY <2>1, <2>2
<1>15. Unloaded'
  <2> SUFFICES ASSUME recogniser = "unloadable", NEW p \in SidPlaces PROVE accepted'[p] = {}
    BY <1>2 DEF Unloaded
  <2>1. v.rv = Missing
    BY <1>1, <1>3, Shown
  <2> QED
    BY <1>4, <2>1 DEF Unloaded
<1>11. SearchedFar'
  <2>1. ASSUME NEW p \in Passed', digit'[p] = Missing
        PROVE  tries'[p] >= Cuts
    <3>1. p \in SidPlaces
      BY DEF Passed
    <3>2. p # place
      BY <1>3, <1>5, <1>6, <1>7, <2>1
    <3>4. p \in Passed
      BY <1>7, <3>2
    <3>5. p \in SidPlaces \ {place}
      BY <3>1, <3>2
    <3>6. digit'[p] = digit[p]
      BY <1>5, <3>5
    <3>7. tries'[p] = tries[p]
      BY <1>4, <3>5
    <3>3. p \in Passed /\ digit[p] = Missing /\ tries'[p] = tries[p]
      BY <2>1, <3>4, <3>6, <3>7
    <3> QED
      BY <1>2, <3>3 DEF SearchedFar
  <2>2. ASSUME step' = "search"
        PROVE  /\ cut'[1] \in -MaxX..MaxX /\ cut'[2] \in -MaxY..MaxY
               /\ \E c \in 0..MaxX :
                    /\ cut'[1] = 2 * c - MaxX
                    /\ digit'[place'] = Missing => tries'[place'] = 1 + c * Row + cut'[2] + MaxY
    <3>1. cut' = <<-MaxX, -MaxY>> /\ place' = place
      BY <1>1, <1>2, <2>2, NextPlaceIs
    <3>2. tries'[place] = 1 + 0 * Row + (-MaxY) + MaxY
      BY <1>4, <1>6, Consts
    <3> QED
      BY <3>1, <3>2
  <2> QED
    BY <2>1, <2>2 DEF SearchedFar
<1>12. PictureRight'
  <2> SUFFICES ASSUME located, NEW p \in SidPlaces, (p \in Passed \/ Searched(p))'
               PROVE  pictures'[p] = digit'[p] \/ (pictures'[p] = Missing /\ certainty'[p] < Accept)
    BY <1>2 DEF PictureRight
  <2>1. CASE p = place
    BY <1>4, <1>5, <2>1
  <2>2. CASE p # place
    <3>1. p \in Passed
      BY <1>7, <2>2
    <3>2. digit'[p] = digit[p] /\ pictures'[p] = pictures[p] /\ certainty'[p] = certainty[p]
      BY <1>4, <1>5, <2>2
    <3> QED
      BY <1>2, <3>1, <3>2 DEF PictureRight
  <2> QED
    BY <2>1, <2>2
<1>13. Alike'
  <2> SUFFICES ASSUME ~located
               PROVE  Alike'
    BY <1>2 DEF Alike
  <2>1. v.rv = memory /\ \A p \in SidPlaces : p < place => digit[p] = memory
    BY <1>2, <1>4 DEF Alike
  <2>2. \A p \in SidPlaces : p < place \/ p = place => digit'[p] = memory
    BY <1>5, <2>1
  <2>3. CASE v.rv = Missing
    <3>1. step' = "search" /\ place' = place /\ located' = located /\ memory' = memory
      BY <1>1, <1>2, <2>3
    <3>2. memory = Missing /\ digit'[place] = Missing
      BY <1>5, <2>1, <2>3
    <3> QED
      BY <2>2, <3>1, <3>2 DEF Alike
  <2>4. CASE v.rv # Missing
    <3>1. /\ step' \in {"first", "keep"}
          /\ step' = "first" => place' = place + 1
          /\ step' = "keep" => place = SidLength - 1
      BY <1>1, <1>2, <2>4, NextPlaceIs
    <3>2. step' = "first" => \A p \in SidPlaces : p < place' => digit'[p] = memory
      BY <1>3, <2>2, <3>1
    <3>3. step' = "keep" => \A p \in SidPlaces : digit'[p] = memory
      BY <1>3, <2>2, <3>1
    <3> QED
      BY <1>2, <3>1, <3>2, <3>3 DEF Alike
  <2> QED
    BY <2>3, <2>4
<1>14. KeptAsRead'
  BY <1>2 DEF KeptAsRead
<1> QED
  BY <1>9, <1>10, <1>11, <1>12, <1>13, <1>14, <1>15

LEMMA SearchStep ==
  ASSUME SidInv, Search
  PROVE  SidInv'
<1> USE DEF SidInv
<1>1. PICK v \in Says(place) :
        /\ Show(place, v)
        /\ digit' = [digit EXCEPT ![place] = Taken(v)]
        /\ NextCut(v.rv # Missing)
  BY DEF Search
<1>2. /\ step = "search"
      /\ UNCHANGED <<recogniser, extract, located, memory, kept, number>>
  BY DEF Search, switches
<1>3. place \in SidPlaces
  BY DEF SidTyped
<1>4. /\ v.rv \in Digits \cup {Missing}
      /\ v.rv = Missing /\ recogniser = "lwneuralnet" => v.sure < Accept
      /\ recogniser = "compiled" => v.rv # Missing
      /\ recogniser = "unloadable" => v.rv = Missing
      /\ ~located => v.rv = memory
      /\ certainty' \in [SidPlaces -> Int] /\ certainty'[place] = v.sure
      /\ pictures' \in [SidPlaces -> Digits \cup {Missing, Nothing}]
      /\ located => pictures'[place] = v.rv
      /\ accepted' \in [SidPlaces -> SUBSET Digits]
      /\ accepted'[place] = accepted[place] \cup ({v.rv} \ {Missing})
      /\ tries' \in [SidPlaces -> Nat] /\ tries'[place] = tries[place] + 1
      /\ \A q \in SidPlaces \ {place} :
           /\ certainty'[q] = certainty[q] /\ pictures'[q] = pictures[q]
           /\ accepted'[q] = accepted[q] /\ tries'[q] = tries[q]
  BY <1>1, <1>3, Shown
<1>5. /\ digit' \in [SidPlaces -> Digits \cup {Missing, Nothing}]
      /\ digit'[place] = IF v.rv = Missing THEN digit[place] ELSE v.rv
      /\ \A q \in SidPlaces \ {place} : digit'[q] = digit[q]
  BY <1>1, <1>3, <1>4 DEF SidTyped, Taken
<1>6. (digit[place] = Missing /\ accepted[place] = {}) \/ digit[place] \in accepted[place]
  BY <1>2, <1>3 DEF ReadRight, Searched
<1>7. /\ accepted[place] \subseteq Digits /\ tries[place] \in Nat
      /\ recogniser \in {"compiled", "lwneuralnet", "unloadable"}
  BY <1>3 DEF SidTyped
<1>8. PICK c \in 0..MaxX :
        /\ cut[1] = 2 * c - MaxX /\ cut[1] \in -MaxX..MaxX /\ cut[2] \in -MaxY..MaxY
        /\ digit[place] = Missing => tries[place] = 1 + c * Row + cut[2] + MaxY
  BY <1>2 DEF SearchedFar
<1>9. (step' = step /\ place' = place) \/ NextPlace
  BY <1>1 DEF NextCut
<1>10. /\ place' \in SidPlaces /\ step' \in {"first", "search", "keep"}
       /\ step' = "keep" => place' = 0
       /\ Passed' = IF step' = "search" THEN Passed ELSE Passed \cup {place}
       /\ step' = "search" => place' = place
       /\ \A p \in SidPlaces : Searched(p)' => p = place
       /\ Searched(place) /\ place \notin Passed
       /\ \A p \in SidPlaces : p # place => ~Searched(p)
       /\ step' = "first" => place' = place + 1
       /\ step' = "keep" => place = SidLength - 1
       /\ place \in Passed' \/ step' = "search"
  <2>1. Searched(place) /\ place \notin Passed /\ \A p \in SidPlaces : p # place => ~Searched(p)
    BY <1>2, <1>3 DEF Searched, Passed
  <2>2. CASE step' = step /\ place' = place
    BY <1>2, <1>3, <2>1, <2>2 DEF Passed, Searched
  <2>3. CASE NextPlace
    <3>1. /\ place' \in SidPlaces /\ step' \in {"first", "keep"}
          /\ Passed' = Passed \cup {place}
          /\ \A p \in SidPlaces : ~Searched(p)'
          /\ step' = "first" => place' = place + 1
          /\ step' = "keep" => place = SidLength - 1 /\ place' = 0
      BY <1>2, <2>3, NextPlaceIs
    <3>2. place \in Passed'
      BY <3>1
    <3> QED
      BY <2>1, <3>1, <3>2
  <2> QED
    BY <1>9, <2>2, <2>3 DEF Searched, Passed
<1>11. SidTyped'
  <2>1. cut' \in Int \X Int
    BY <1>1 DEF NextCut, SidTyped
  <2> QED
    BY <1>2, <1>4, <1>5, <1>10, <2>1 DEF SidTyped
<1>12. /\ digit'[place] = Missing => digit[place] = Missing /\ v.rv = Missing
       /\ (digit'[place] = Missing /\ accepted'[place] = {}) \/ digit'[place] \in accepted'[place]
  <2>1. CASE v.rv = Missing
    BY <1>4, <1>5, <1>6, <2>1
  <2>2. CASE v.rv # Missing
    BY <1>4, <1>5, <2>2
  <2> QED
    BY <2>1, <2>2
<1>13. ReadRight'
  <2> SUFFICES ASSUME NEW p \in SidPlaces
               PROVE  (IF p \in Passed \/ Searched(p)
                        THEN (digit[p] = Missing /\ accepted[p] = {}) \/ digit[p] \in accepted[p]
                        ELSE accepted[p] = {} /\ tries[p] = 0)'
    BY DEF ReadRight
  <2>1. CASE p = place
    <3>1. (p \in Passed \/ Searched(p))'
      BY <1>10, <2>1 DEF Searched
    <3> QED
      BY <1>12, <2>1, <3>1
  <2>2. CASE p # place
    <3>1. (p \in Passed \/ Searched(p))' <=> p \in Passed \/ Searched(p)
      BY <1>10, <2>2
    <3>2. digit'[p] = digit[p] /\ accepted'[p] = accepted[p] /\ tries'[p] = tries[p]
      BY <1>4, <1>5, <2>2
    <3> QED
      BY <1>2, <3>1, <3>2 DEF ReadRight
  <2> QED
    BY <2>1, <2>2
<1>14. Unloaded'
  <2> SUFFICES ASSUME recogniser = "unloadable", NEW p \in SidPlaces PROVE accepted'[p] = {}
    BY <1>2 DEF Unloaded
  <2>1. v.rv = Missing
    BY <1>4
  <2> QED
    BY <1>4, <2>1 DEF Unloaded
<1>15. SearchedFar'
  <2>1. ASSUME NEW p \in Passed', digit'[p] = Missing
        PROVE  tries'[p] >= Cuts
    <3>1. p \in SidPlaces
      BY DEF Passed
    <3>2. CASE p # place
      <4>1. p \in Passed /\ digit[p] = Missing /\ tries'[p] = tries[p]
        BY <1>4, <1>5, <1>10, <2>1, <3>1, <3>2
      <4> QED
        BY <1>2, <4>1 DEF SearchedFar
    <3>3. CASE p = place
      <4>1. digit[place] = Missing /\ v.rv = Missing
        BY <1>12, <2>1, <3>3
      <4>2. step' # "search"
        BY <1>10, <2>1, <3>3
      <4>3. cut[2] = MaxY /\ cut[1] = MaxX
        BY <1>1, <1>2, <4>1, <4>2 DEF NextCut
      <4>4. c = MaxX
        BY <1>8, <4>3
      <4>6. (MaxX + 1) * Row = MaxX * Row + Row /\ MaxX * Row \in Int
        BY Consts
      <4>7. tries[place] = 1 + c * Row + MaxY + MaxY /\ c * Row = MaxX * Row
        BY <1>8, <4>1, <4>3, <4>4
      <4>5. tries'[place] = 1 + MaxX * Row + 2 * MaxY + 1
        BY <1>4, <4>6, <4>7
      <4> QED
        BY <3>3, <4>5, <4>6, Consts
    <3> QED
      BY <3>2, <3>3
  <2>2. ASSUME step' = "search"
        PROVE  /\ cut'[1] \in -MaxX..MaxX /\ cut'[2] \in -MaxY..MaxY
               /\ \E d \in 0..MaxX :
                    /\ cut'[1] = 2 * d - MaxX
                    /\ digit'[place'] = Missing => tries'[place'] = 1 + d * Row + cut'[2] + MaxY
    <3>0. place' = place /\ ~NextPlace /\ c * Row \in Int
      BY <1>2, <1>10, <2>2, NextPlaceIs, Consts
    <3>1. CASE cut[2] < MaxY /\ cut' = <<cut[1], cut[2] + 1>>
      <4>1. digit'[place] = Missing => tries'[place] = 1 + c * Row + (cut[2] + 1) + MaxY
        BY <1>4, <1>7, <1>8, <1>12, <3>0
      <4>2. cut'[1] = 2 * c - MaxX /\ cut'[2] = cut[2] + 1
        BY <1>8, <3>1
      <4> QED
        BY <1>8, <3>0, <3>1, <4>1, <4>2
    <3>2. CASE /\ v.rv # Missing \/ cut[2] = MaxY
               /\ cut[1] < MaxX /\ cut' = <<cut[1] + 2, -MaxY>>
      <4>1. c + 1 \in 0..MaxX /\ cut'[1] = 2 * (c + 1) - MaxX /\ cut'[2] = -MaxY
        BY <1>8, <3>2
      <4>2. (c + 1) * Row = c * Row + Row
        BY Consts
      <4>3. digit'[place] = Missing =>
              tries'[place] = 1 + (c + 1) * Row + (-MaxY) + MaxY
        <5> SUFFICES ASSUME digit'[place] = Missing
                     PROVE  tries'[place] = 1 + (c + 1) * Row + (-MaxY) + MaxY
          OBVIOUS
        <5>1. cut[2] = MaxY /\ tries[place] = 1 + c * Row + cut[2] + MaxY
          BY <1>8, <1>12, <3>2
        <5>2. tries'[place] = 1 + c * Row + MaxY + MaxY + 1
          BY <1>4, <3>0, <5>1
        <5> QED
          BY <3>0, <4>2, <5>2, Consts
      <4>4. cut'[1] \in -MaxX..MaxX /\ cut'[2] \in -MaxY..MaxY
        BY <4>1
      <4> QED
        BY <3>0, <4>1, <4>3, <4>4
    <3> QED
      BY <1>1, <3>0, <3>1, <3>2 DEF NextCut
  <2> QED
    BY <2>1, <2>2 DEF SearchedFar
<1>16. PictureRight'
  <2> SUFFICES ASSUME located, NEW p \in SidPlaces, (p \in Passed \/ Searched(p))'
               PROVE  pictures'[p] = digit'[p] \/ (pictures'[p] = Missing /\ certainty'[p] < Accept)
    BY <1>2 DEF PictureRight
  <2>1. CASE p = place /\ recogniser = "unloadable"
    <3>1. pictures'[p] = Missing /\ digit'[p] = digit[p] /\ accepted[p] = {}
      BY <1>4, <1>5, <2>1 DEF Unloaded
    <3> QED
      BY <1>6, <2>1, <3>1
  <2>2. CASE p = place /\ recogniser # "unloadable"
    BY <1>4, <1>5, <1>7, <2>2
  <2>3. CASE p # place
    <3>1. p \in Passed
      BY <1>10, <2>3
    <3>2. digit'[p] = digit[p] /\ pictures'[p] = pictures[p] /\ certainty'[p] = certainty[p]
      BY <1>4, <1>5, <2>3
    <3> QED
      BY <1>2, <3>1, <3>2 DEF PictureRight
  <2> QED
    BY <2>1, <2>2, <2>3
<1>17. Alike'
  <2> SUFFICES ASSUME ~located
               PROVE  Alike'
    BY <1>2 DEF Alike
  <2>1. /\ v.rv = Missing /\ memory = Missing /\ digit'[place] = Missing
        /\ \A p \in SidPlaces : p < place => digit'[p] = memory
    BY <1>2, <1>3, <1>4, <1>5 DEF Alike
  <2>2. step' = "first" => \A p \in SidPlaces : p < place' => digit'[p] = memory
    BY <1>3, <1>10, <2>1
  <2>3. step' = "keep" => \A p \in SidPlaces : digit'[p] = memory
    BY <1>3, <1>10, <2>1
  <2>4. step' = "search" => place' = place
    BY <1>10
  <2> QED
    BY <1>2, <1>10, <2>1, <2>2, <2>3, <2>4 DEF Alike
<1>18. KeptAsRead'
  BY <1>2 DEF KeptAsRead
<1> QED
  BY <1>11, <1>13, <1>14, <1>15, <1>16, <1>17, <1>18

LEMMA KeepStep ==
  ASSUME SidInv, Keep
  PROVE  SidInv'
<1> USE DEF SidInv
<1>1. /\ step = "keep" /\ place = 0 /\ step' \in {"again", "done"}
      /\ step' = "again" => \E p \in SidPlaces : digit[p] = Missing
      /\ kept' = kept \cup {[dir |-> digit[p], read |-> pictures[p], sure |-> certainty[p],
                              cut |-> located] : p \in ToKeep}
      /\ pictures' = [p \in SidPlaces |-> IF p \in ToKeep THEN Nothing ELSE pictures[p]]
      /\ memory' \in Digits \cup {Missing}
      /\ UNCHANGED <<recogniser, extract, place, cut, located, digit, certainty, accepted,
                     tries, number>>
  BY UnsetIs DEF Keep, switches, SidTyped
<1>2. SidTyped'
  <2>1. pictures' \in [SidPlaces -> Digits \cup {Missing, Nothing}]
    BY <1>1 DEF SidTyped
  <2> QED
    BY <1>1, <2>1 DEF SidTyped
<1>3. /\ Passed' = SidPlaces /\ Passed = SidPlaces
      /\ \A p \in SidPlaces : ~Searched(p) /\ ~Searched(p)'
  BY <1>1 DEF Passed, Searched
<1>4. ReadRight' /\ Unloaded'
  BY <1>1, <1>3 DEF ReadRight, Unloaded
<1>5. SearchedFar' /\ PictureRight'
  BY <1>1, <1>3 DEF SearchedFar, PictureRight
<1>6. Alike'
  BY <1>1 DEF Alike
<1>7. KeptAsRead'
  <2> SUFFICES ASSUME NEW k \in kept'
               PROVE  k.read = k.dir \/ ~k.cut \/ (KeepAt < k.sure /\ k.sure < Accept)
    BY DEF KeptAsRead
  <2>1. CASE k \in kept
    BY <2>1 DEF KeptAsRead
  <2>2. CASE k \notin kept
    <3>1. PICK p \in ToKeep : k = [dir |-> digit[p], read |-> pictures[p],
                                   sure |-> certainty[p], cut |-> located]
      BY <1>1, <2>2
    <3>2. p \in SidPlaces /\ certainty[p] > KeepAt
      BY DEF ToKeep, Sure
    <3>3. CASE ~located
      BY <3>1, <3>3
    <3>4. CASE located
      <4>1. pictures[p] = digit[p] \/ (pictures[p] = Missing /\ certainty[p] < Accept)
        BY <1>1, <1>3, <3>2, <3>4 DEF PictureRight
      <4> QED
        BY <3>1, <3>2, <4>1 DEF SidTyped
    <3> QED
      BY <3>3, <3>4
  <2> QED
    BY <2>1, <2>2
<1> QED
  BY <1>2, <1>4, <1>5, <1>6, <1>7

LEMMA AgainStep ==
  ASSUME SidInv, Again
  PROVE  SidInv'
<1> USE DEF SidInv
<1>1. /\ step = "again" /\ step' \in {"again", "done"}
      /\ UNCHANGED <<recogniser, extract, cut, located, memory, kept, number>>
      /\ step' = "again" => place' = place + 1 /\ place' < SidLength
      /\ step' = "done" => place' = 0 /\ place + 1 >= SidLength
  BY DEF Again, switches, SidTyped
<1>2. place \in SidPlaces /\ place' \in SidPlaces
  BY <1>1 DEF SidTyped
<1>3. /\ Passed' = SidPlaces /\ Passed = SidPlaces
      /\ \A p \in SidPlaces : ~Searched(p) /\ ~Searched(p)'
  BY <1>1 DEF Passed, Searched
<1>4. CASE digit[place] # Missing /\ UNCHANGED reading
  <2>1. UNCHANGED <<digit, certainty, pictures, accepted, tries>>
    BY <1>4 DEF reading
  <2>2. SidTyped'
    BY <1>1, <1>2, <2>1 DEF SidTyped
  <2>3. ReadRight' /\ Unloaded'
    BY <1>1, <1>3, <2>1 DEF ReadRight, Unloaded
  <2>4. SearchedFar' /\ PictureRight' /\ KeptAsRead'
    BY <1>1, <1>3, <2>1 DEF SearchedFar, PictureRight, KeptAsRead
  <2>5. located
    BY <1>1, <1>2, <1>4 DEF Alike
  <2>6. Alike'
    BY <1>1, <2>5 DEF Alike
  <2> QED
    BY <2>2, <2>3, <2>4, <2>6
<1>5. ASSUME digit[place] = Missing, NEW v \in Says(place),
             Show(place, v), digit' = [digit EXCEPT ![place] = v.rv]
      PROVE  SidInv'
  <2>1. /\ v.rv \in Digits \cup {Missing}
        /\ recogniser = "unloadable" => v.rv = Missing
        /\ ~located => v.rv = memory
        /\ certainty' \in [SidPlaces -> Int]
        /\ pictures' \in [SidPlaces -> Digits \cup {Missing, Nothing}]
        /\ accepted' \in [SidPlaces -> SUBSET Digits]
        /\ accepted'[place] = accepted[place] \cup ({v.rv} \ {Missing})
        /\ tries' \in [SidPlaces -> Nat] /\ tries'[place] = tries[place] + 1
        /\ \A q \in SidPlaces \ {place} :
             accepted'[q] = accepted[q] /\ tries'[q] = tries[q]
    BY <1>2, <1>5, Shown
  <2>2. /\ digit' \in [SidPlaces -> Digits \cup {Missing, Nothing}] /\ digit'[place] = v.rv
        /\ \A q \in SidPlaces \ {place} : digit'[q] = digit[q]
    BY <1>2, <1>5, <2>1 DEF SidTyped
  <2>3. SidTyped'
    BY <1>1, <1>2, <2>1, <2>2 DEF SidTyped
  <2>4. accepted[place] = {}
    <3>1. accepted[place] \subseteq Digits /\ Missing \notin Digits
      BY <1>2 DEF SidTyped
    <3> QED
      BY <1>1, <1>2, <1>3, <1>5, <3>1 DEF ReadRight
  <2>5. ReadRight'
    <3> SUFFICES ASSUME NEW p \in SidPlaces
                 PROVE  (digit'[p] = Missing /\ accepted'[p] = {}) \/ digit'[p] \in accepted'[p]
      BY <1>3 DEF ReadRight
    <3>1. CASE p = place
      BY <2>1, <2>2, <2>4, <3>1
    <3>2. CASE p # place
      <4>1. digit'[p] = digit[p] /\ accepted'[p] = accepted[p]
        BY <2>1, <2>2, <3>2
      <4> QED
        BY <1>1, <1>3, <4>1 DEF ReadRight
    <3> QED
      BY <3>1, <3>2
  <2>6. Unloaded'
    BY <1>1, <2>1 DEF Unloaded
  <2>7. SearchedFar'
    <3> SUFFICES ASSUME NEW p \in SidPlaces, digit'[p] = Missing
                 PROVE  tries'[p] >= Cuts
      BY <1>1, <1>3 DEF SearchedFar
    <3>1. digit[p] = Missing
      BY <1>5, <2>2
    <3>2. tries[p] >= Cuts
      BY <1>1, <1>3, <3>1 DEF SearchedFar
    <3>3. tries[p] \in Nat /\ (tries'[p] = tries[p] \/ tries'[p] = tries[p] + 1)
      BY <2>1 DEF SidTyped
    <3>4. Cuts \in Int
      <4>1. (MaxX + 1) * Row \in Int
        BY Consts
      <4> QED
        BY <4>1, Consts
    <3> QED
      BY <3>2, <3>3, <3>4
  <2>8. PictureRight' /\ KeptAsRead'
    BY <1>1 DEF PictureRight, KeptAsRead
  <2>9. Alike'
    <3> SUFFICES ASSUME ~located
                 PROVE  Alike'
      BY <1>1 DEF Alike
    <3>1. /\ v.rv = memory
          /\ \A p \in SidPlaces : digit[p] = IF p < place THEN memory ELSE Missing
      BY <1>1, <2>1 DEF Alike
    <3>2. \A p \in SidPlaces : digit'[p] = IF p < place + 1 THEN memory ELSE Missing
      BY <1>2, <2>2, <3>1
    <3>3. step' = "done" => \A p \in SidPlaces : digit'[p] = memory
      BY <1>1, <1>2, <3>2
    <3> QED
      BY <1>1, <3>2, <3>3 DEF Alike
  <2> QED
    BY <2>3, <2>5, <2>6, <2>7, <2>8, <2>9
<1> QED
  BY <1>4, <1>5 DEF Again

LEMMA Unmoved == SidInv /\ UNCHANGED numberVars => SidInv'
  BY DEF SidInv, SidTyped, ReadRight, Unloaded, SearchedFar, PictureRight, Alike, KeptAsRead,
         Passed, Searched, numberVars, switches, reading

LEMMA NumberInvariant == SpecNumber => []SidInv
<1>1. SidInv /\ [NextNumber]_numberVars => SidInv'
  BY LocateStep, FirstStep, SearchStep, KeepStep, AgainStep, Unmoved DEF NextNumber
<1> QED
  BY InitSid, <1>1, PTL DEF SpecNumber

(* A digit of a number that was read was accepted at its place, and a      *)
(* place without a digit has been tried at every shift of the grid.        *)
THEOREM DigitsAreAccepted == SpecNumber => []DigitsAccepted
<1>1. SidInv => DigitsAccepted
  <2> SUFFICES ASSUME SidInv, number > 0, NEW p \in Passed
               PROVE  IF digit[p] = Missing THEN accepted[p] = {} /\ tries[p] >= Cuts
                                            ELSE digit[p] \in accepted[p]
    BY DEF DigitsAccepted
  <2>1. step # "locate" /\ p \in SidPlaces
    BY DEF SidInv, SidTyped, Passed
  <2>2. accepted[p] \subseteq Digits /\ Missing \notin Digits
    BY <2>1 DEF SidInv, SidTyped
  <2>3. (digit[p] = Missing /\ accepted[p] = {}) \/ digit[p] \in accepted[p]
    BY <2>1 DEF SidInv, ReadRight
  <2>4. digit[p] = Missing => tries[p] >= Cuts
    BY <2>1 DEF SidInv, SearchedFar
  <2> QED
    BY <2>2, <2>3, <2>4
<1> QED
  BY NumberInvariant, <1>1, PTL

(* What -e keeps is kept under the digit it was read as, but for the two   *)
(* exceptions that the property names.                                     *)
THEOREM PicturesKeptAsRead == SpecNumber => []KeptAsRead
<1>1. SidInv => KeptAsRead
  BY DEF SidInv
<1> QED
  BY NumberInvariant, <1>1, PTL

(* A number that was not located has the same digit, or none, everywhere.  *)
THEOREM UnlocatedIsAlike == SpecNumber => []UnlocatedAlike
<1>1. SidInv => UnlocatedAlike
  BY DEF SidInv, Alike, UnlocatedAlike
<1> QED
  BY NumberInvariant, <1>1, PTL
=============================================================================
