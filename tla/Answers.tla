------------------------------- MODULE Answers -------------------------------
(***************************************************************************)
(* The answers of one page (getanswer).  Marks along the upper edge of the *)
(* page head the columns of a table of squares, marks along the right edge *)
(* its rows.  They are found in no particular order, so both lists are     *)
(* sorted before the squares are looked at: the place of a mark in its     *)
(* list is the letter, or the number, that a blackened square gets in the  *)
(* answer string.                                                          *)
(*                                                                         *)
(* C's arrays start at 0 and the sequences here at 1; i, j and the index   *)
(* of mtx are those of the code.                                           *)
(***************************************************************************)
EXTENDS Integers, Sequences, FiniteSets

CONSTANTS
  UpFound,      \* lists of marks that locate may find along the upper edge
  RightFound,   \* and along the right edge
  StringBytes   \* the size of the block of ans_string: 255

Mark  == [x : Nat, y : Nat]    \* widths and heights are left out
Sides == {"up", "right"}

ASSUME MarkAssumption ==
  /\ UpFound \subseteq Seq(Mark) /\ RightFound \subseteq Seq(Mark)
  /\ StringBytes \in Nat

VARIABLES
  phase,    \* the side that is being sorted, "find", "string", "done", or
            \* "overrun", of which nothing can be said: strcat has written
            \* behind the end of ans_string
  found,    \* the marks of both sides as locate found them
  marks,    \* ans->up->mark and ans->right->mark
  i, j, s,  \* sortmark: place, pass, whether this pass has moved a mark
  black,    \* places, as pairs of an x and a y, with enough ink
  mtx,      \* ans->mtx
  answer    \* ans->ans_string: pairs of a question and a letter, 0 for 'a'

loop == <<i, j, s>>
answerVars == <<phase, found, marks, loop, black, mtx, answer>>

Number(t) == Len(marks[t])
Columns == Number("up")
Rows    == Number("right")

-----------------------------------------------------------------------------
(* Wrong versions of definitions, used by no specification.                *)

(* Both sides are sorted by x.                                             *)
KeyOfX(t, m) == m.x

(* The last pair of the list is not compared.                              *)
MorePairsShort(t) == i + 2 < Number(t)

(* The first mark of a pair is overwritten before it is saved.             *)
ExchangeLosing(a, k) == [a EXCEPT ![k] = a[k + 1]]

(* The string is made as if rows were as long as there are rows.           *)
GenerateTransposed ==
  /\ phase = "string" /\ phase' = "done"
  /\ LET string[k \in 0..Rows * Columns] ==
           IF k = 0 THEN << >>
           ELSE IF mtx[k - 1] = 1
                THEN Append(string[k - 1], <<(k - 1) \div Rows + 1, (k - 1) % Rows>>)
                ELSE string[k - 1]
     IN answer' = string[Rows * Columns]
  /\ UNCHANGED <<found, marks, loop, black, mtx>>

-----------------------------------------------------------------------------
Key(t, m) == IF t = "up" THEN m.x ELSE m.y

(* getanswer has located the marks of both sides.                          *)
InitAnswers ==
  /\ phase = "up"
  /\ found \in {[t \in Sides |-> IF t = "up" THEN u ELSE r] : u \in UpFound, r \in RightFound}
  /\ marks = found
  /\ i = 0 /\ j = 0 /\ s = 0
  /\ black = {} /\ mtx = << >> /\ answer = << >>

(* sortmark, one comparison at a time.                                     *)
MorePairs(t) == i + 1 < Number(t)

Exchange(a, k) == [a EXCEPT ![k] = a[k + 1], ![k + 1] = a[k]]

Compare(t) ==
  /\ phase = t /\ j < Number(t) /\ MorePairs(t)
  /\ IF Key(t, marks[t][i + 1]) > Key(t, marks[t][i + 2])
       THEN marks' = [marks EXCEPT ![t] = Exchange(@, i + 1)] /\ s' = 1
       ELSE UNCHANGED <<marks, s>>
  /\ i' = i + 1
  /\ UNCHANGED <<phase, found, j, black, mtx, answer>>

NextPass(t) ==
  /\ phase = t /\ j < Number(t) /\ ~MorePairs(t) /\ s = 1
  /\ j' = j + 1 /\ i' = 0 /\ s' = 0
  /\ UNCHANGED <<phase, found, marks, black, mtx, answer>>

(* The break of a pass that has moved nothing, or the end of the loop.     *)
Sorted(t) ==
  /\ phase = t
  /\ j >= Number(t) \/ (~MorePairs(t) /\ s = 0)
  /\ phase' = IF t = "up" THEN "right" ELSE "find"
  /\ i' = 0 /\ j' = 0 /\ s' = 0
  /\ UNCHANGED <<found, marks, black, mtx, answer>>

(* The squares of the table, row by row, and what is left of them is the   *)
(* one bit "more than 35 percent black".                                   *)
Index  == 0..(Rows * Columns - 1)
Squares == {marks["up"][c].x : c \in 1..Columns} \X {marks["right"][r].y : r \in 1..Rows}

FindAnswer ==
  /\ phase = "find" /\ phase' = "string"
  /\ black' \in SUBSET Squares
  /\ mtx' = [k \in Index |->
       IF <<marks["up"][(k % Columns) + 1].x, marks["right"][(k \div Columns) + 1].y>> \in black'
       THEN 1 ELSE 0]
  /\ UNCHANGED <<found, marks, loop, answer>>

(* The string grows by a question and a letter wherever mtx is 1.          *)
Named(k) == <<k \div Columns + 1, k % Columns>>
ObsoleteString ==
  LET string[k \in 0..Rows * Columns] ==
        IF k = 0 THEN << >>
        ELSE IF mtx[k - 1] = 1 THEN Append(string[k - 1], Named(k - 1))
                               ELSE string[k - 1]
  IN string[Rows * Columns]

(* What strcat has to find room for: a comma, the digits of the question   *)
(* and the letter of every black square, and the zero at the end.          *)
Length(n) == Cardinality({d \in 0..9 : 10^d <= n})
Bytes ==
  LET used[k \in 0..Rows * Columns] ==
        IF k = 0 THEN 1
        ELSE IF mtx[k - 1] = 1 THEN used[k - 1] + 2 + Length(Named(k - 1)[1])
                               ELSE used[k - 1]
  IN used[Rows * Columns]

Overrun ==
  /\ phase = "string" /\ Bytes > StringBytes
  /\ phase' = "overrun"
  /\ UNCHANGED <<found, marks, loop, black, mtx, answer>>

GenerateObsoleteString ==
  /\ phase = "string" /\ Bytes <= StringBytes
  /\ phase' = "done"
  /\ answer' = ObsoleteString
  /\ UNCHANGED <<found, marks, loop, black, mtx>>

NextAnswers ==
  \/ \E t \in Sides : Compare(t) \/ NextPass(t) \/ Sorted(t)
  \/ FindAnswer \/ GenerateObsoleteString \/ Overrun

SpecAnswers == InitAnswers /\ [][NextAnswers]_answerVars

-----------------------------------------------------------------------------
(* Properties.                                                             *)

AnswersTyped ==
  /\ phase \in Sides \cup {"find", "string", "done", "overrun"}
  /\ found \in [Sides -> Seq(Mark)] /\ marks \in [Sides -> Seq(Mark)]
  /\ i \in Nat /\ j \in Nat /\ s \in {0, 1}

SortedSides == {t \in Sides : phase \notin Sides \/ (t = "up" /\ phase = "right")}

(* When the squares are looked at, the columns are in the order of x and   *)
(* the rows in the order of y, although sortmark leaves its loop as soon   *)
(* as a pass has moved nothing.                                            *)
InOrder(t) ==
  \A k, l \in 1..Number(t) : k < l =>
    \/ t = "up" /\ marks[t][k].x <= marks[t][l].x
    \/ t = "right" /\ marks[t][k].y <= marks[t][l].y
MarksInOrder == \A t \in SortedSides : InOrder(t)

(* Sorting neither loses a mark nor doubles one: what is in the list is    *)
(* what was found, in another order.                                       *)
Permutations(n) ==
  {p \in [1..n -> 1..n] : \A k, l \in 1..n : k # l => p[k] # p[l]}
Rearranged(a, b) ==
  /\ Len(a) = Len(b)
  /\ \E p \in Permutations(Len(b)) : \A k \in 1..Len(b) : a[k] = b[p[k]]
MarksKept == \A t \in Sides : Rearranged(marks[t], found[t])

(* The answer string names exactly the blackened squares, each of them     *)
(* once and question by question: the question is the place of the row     *)
(* from above and the letter the place of the column from the left, as     *)
(* long as it is a character (the 160th column would be the zero).  The    *)
(* string has room for it, which nobody tests (ans_process.c:122-127),     *)
(* unless the whole table would not fit were it black.                     *)
Before(a, b) == a[1] < b[1] \/ (a[1] = b[1] /\ a[2] < b[2])
AnswersRead ==
  /\ phase = "done" /\ Columns < 160 =>
       /\ {answer[e] : e \in DOMAIN answer} =
            {a \in (1..Rows) \X (0..Columns - 1) :
               <<marks["up"][a[2] + 1].x, marks["right"][a[1]].y>> \in black}
       /\ \A e, f \in DOMAIN answer : e < f => Before(answer[e], answer[f])
  /\ phase = "overrun" => Rows * Columns * (2 + Length(Rows)) + 1 > StringBytes

(* What the proofs need while a list is being sorted: the last j marks are *)
(* in their places, the mark at place i is the greatest that this pass has *)
(* met, and if it has moved nothing, what it has met is in order.          *)
PassInv(t) ==
  LET n == Number(t)
      K(k) == Key(t, marks[t][k])
  IN /\ j <= n /\ (i < n \/ i = 0)
     /\ \A k \in (n - j + 1)..n : \A m \in 1..k : K(m) <= K(k)
     /\ i + 1 <= n - j => \A m \in 1..(i + 1) : K(m) <= K(i + 1)
     /\ i + 1 > n - j => \A m \in 1..(n - j) : K(m) <= K(n - j)
     /\ s = 0 /\ i < n => \A k \in 1..(i + 1) : \A m \in 1..k : K(m) <= K(k)
SortInv == AnswersTyped /\ MarksInOrder /\ MarksKept /\ \A t \in Sides : phase = t => PassInv(t)

(* And when it is read: mtx holds a 1 at the squares that are black.       *)
SquaresRead ==
  phase \in {"string", "done", "overrun"} =>
    \A k \in Index :
      mtx[k] = 1 <=>
        <<marks["up"][(k % Columns) + 1].x, marks["right"][(k \div Columns) + 1].y>> \in black
ReadInv == SortInv /\ SquaresRead /\ AnswersRead
=============================================================================
