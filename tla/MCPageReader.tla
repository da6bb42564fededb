---------------------------- MODULE MCPageReader ----------------------------
(***************************************************************************)
(* PageReader, Barcode, Answers and StudentNumber for TLC.  They share no  *)
(* variable: what the reader does with a page depends neither on the       *)
(* digits of its code, nor on its answers or its student number.  So one   *)
(* run checks the four side by side, without combining their states: three *)
(* of them rest in a fixed state while the fourth one moves.               *)
(***************************************************************************)
EXTENDS PageReader, Barcode, Answers, StudentNumber

(* Codes with every digit at the leading place, at the page number and at  *)
(* one place of either weight.                                             *)
Code(a, b, p, d) ==
  LET c == [n \in CodePlaces |-> CASE n = 0 -> a [] n = 1 -> b [] n = 7 -> p
                                   [] n = 8 -> d [] OTHER -> 0]
  IN [c EXCEPT ![12] = CheckDigit(c)]

SomeCodes == {Code(a, b, p, d) : a \in {0, 1, 9}, b \in {0, 3}, p \in Digit, d \in {0, 5, 7}}

(* Lists of marks: every order, with and without marks at the same place.  *)
(* The y of an upper mark and the x of a right one are what would be       *)
(* sorted by if the wrong coordinate were used.                            *)
Lists(S, most) == UNION {[1..n -> S] : n \in 0..most}

Uppers == Lists({[x |-> a, y |-> 4 - a] : a \in 1..3}, 4)
Rights == Lists({[x |-> 4 - b, y |-> b] : b \in 1..3}, 2) \cup
          {<<[x |-> 1, y |-> 3], [x |-> 2, y |-> 2], [x |-> 3, y |-> 1]>>}

-----------------------------------------------------------------------------
(* The states in which Barcode, Answers, PageReader and StudentNumber rest. *)
Zeros    == Code(0, 0, 0, 0)
ZeroCode == one = Zeros /\ two = Zeros
NoMarks  == found = [t \in Sides |-> << >>] /\ phase = "up"
AtStart  == pc = "load" /\ page = 1
Unread   == step = "locate" /\ recogniser = "compiled" /\ ~extract

InitPages ==
  /\ Init
  /\ \/ InitNumber /\ Unread /\ InitAnswers /\ NoMarks /\ InitCodes
     \/ InitNumber /\ Unread /\ InitCodes /\ ZeroCode /\ InitAnswers
     \/ InitCodes /\ ZeroCode /\ InitAnswers /\ NoMarks /\ InitNumber

NextPages ==
  \/ ZeroCode /\ NoMarks /\ Unread /\ Next /\ UNCHANGED <<one, two, answerVars, numberVars>>
  \/ AtStart /\ NoMarks /\ Unread /\ NextCodes /\ UNCHANGED <<vars, answerVars, numberVars>>
  \/ AtStart /\ ZeroCode /\ Unread /\ NextAnswers /\ UNCHANGED <<vars, one, two, numberVars>>
  \/ AtStart /\ ZeroCode /\ NoMarks /\ NextNumber /\ UNCHANGED <<vars, one, two, answerVars>>

SpecPages == InitPages /\ [][NextPages]_<<vars, one, two, answerVars, numberVars>>
=============================================================================
