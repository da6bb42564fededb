---------------------------- MODULE BarcodeProofs ----------------------------
(***************************************************************************)
(* Proofs about all thirteen-digit codes.                                  *)
(***************************************************************************)
EXTENDS Barcode, TLAPS

LEMMA TotalType == ASSUME NEW b \in Codes
                   PROVE  Total(b) \in Nat /\ \A i \in CodePlaces : b[i] \in 0..9
<1>1. \A i \in CodePlaces : b[i] \in 0..9
  BY DEF Codes, Digit
<1>2. \A i \in CodePlaces : b[i] \in Nat
  BY <1>1
<1>3. Even(b) \in Nat /\ Odd(b) \in Nat
  BY <1>2 DEF CodePlaces, Even, Odd
<1> QED
  BY <1>1, <1>3 DEF Total

(* The check digit is a digit: never the tenth character after '0'.        *)
LEMMA CheckDigitType == ASSUME NEW b \in Codes PROVE CheckDigit(b) \in Digit
  BY TotalType DEF CheckDigit, Digit

(* The check digit depends on the first twelve digits only.                *)
LEMMA CheckDigitOfPrefix ==
  ASSUME NEW b, NEW c, \A i \in 0..11 : b[i] = c[i]
  PROVE  CheckDigit(b) = CheckDigit(c)
<1>1. Even(b) = Even(c) /\ Odd(b) = Odd(c)
  BY DEF Even, Odd
<1> QED
  BY <1>1 DEF CheckDigit, Total

(* The code of the first page, digit by digit.                             *)
LEMMA FirstCodeDigits ==
  ASSUME NEW b \in Codes
  PROVE  /\ FirstCode(b) \in Codes /\ Valid(FirstCode(b))
         /\ FirstCode(b)[7] = 0
         /\ \A i \in CodePlaces \ {7, 12} : FirstCode(b)[i] = b[i]
<1> DEFINE c == [b EXCEPT ![7] = 0]
<1>1. c \in Codes /\ c[7] = 0 /\ \A i \in CodePlaces \ {7} : c[i] = b[i]
  BY DEF Codes, Digit, CodePlaces
<1> DEFINE d == [c EXCEPT ![12] = CheckDigit(c)]
<1> HIDE DEF c
<1>2. /\ d \in Codes /\ d[12] = CheckDigit(c)
      /\ \A i \in CodePlaces \ {12} : d[i] = c[i]
  BY <1>1, CheckDigitType DEF Codes, CodePlaces
<1>3. FirstCode(b) = d
  BY DEF FirstCode, c
<1> HIDE DEF d
<1>4. CheckDigit(d) = CheckDigit(c)
  BY <1>2, CheckDigitOfPrefix DEF CodePlaces
<1> QED
  BY <1>1, <1>2, <1>3, <1>4 DEF Valid, CodePlaces

(* Two codes with the same digits are the same.                            *)
LEMMA SameDigits ==
  ASSUME NEW b \in Codes, NEW c \in Codes, \A i \in CodePlaces : b[i] = c[i]
  PROVE  b = c
  BY DEF Codes

(* For valid codes the first twelve digits decide.                         *)
LEMMA PrefixDecides ==
  ASSUME NEW b, NEW c, Valid(b), Valid(c), \A i \in 0..11 : b[i] = c[i]
  PROVE  b = c
<1>1. b[12] = c[12]
  BY CheckDigitOfPrefix DEF Valid
<1>2. \A i \in CodePlaces : i \in 0..11 \/ i = 12
  BY DEF CodePlaces
<1> QED
  BY <1>1, <1>2, SameDigits DEF Valid

-----------------------------------------------------------------------------
LEMMA FirstCodeOfSheet ==
  ASSUME NEW b, NEW c, Valid(b), Valid(c)
  PROVE  /\ FirstCode(b) = FirstCode(c) <=> SameSheet(b, c)
         /\ FirstCode(b) = b <=> IsFirst(b)
<1>1. b \in Codes /\ c \in Codes
  BY DEF Valid
<1>2. ASSUME FirstCode(b) = FirstCode(c) PROVE SameSheet(b, c)
  BY <1>1, <1>2, FirstCodeDigits DEF SameSheet
<1>3. ASSUME SameSheet(b, c) PROVE FirstCode(b) = FirstCode(c)
  <2>1. \A i \in 0..11 : FirstCode(b)[i] = FirstCode(c)[i]
    <3> SUFFICES ASSUME NEW i \in 0..11 PROVE FirstCode(b)[i] = FirstCode(c)[i]
      OBVIOUS
    <3>1. i = 7 \/ i \in CodePlaces \ {7, 12}
      BY DEF CodePlaces
    <3> QED
      BY <1>1, <1>3, <3>1, FirstCodeDigits DEF SameSheet
  <2> QED
    BY <1>1, <2>1, FirstCodeDigits, PrefixDecides
<1>4. ASSUME FirstCode(b) = b PROVE IsFirst(b)
  BY <1>1, <1>4, FirstCodeDigits DEF IsFirst
<1>5. ASSUME IsFirst(b) PROVE FirstCode(b) = b
  <2>1. \A i \in 0..11 : FirstCode(b)[i] = b[i]
    <3> SUFFICES ASSUME NEW i \in 0..11 PROVE FirstCode(b)[i] = b[i]
      OBVIOUS
    <3>1. i = 7 \/ i \in CodePlaces \ {7, 12}
      BY DEF CodePlaces
    <3> QED
      BY <1>1, <1>5, <3>1, FirstCodeDigits DEF IsFirst
  <2> QED
    BY <1>1, <2>1, FirstCodeDigits, PrefixDecides
<1> QED
  BY <1>2, <1>3, <1>4, <1>5

(* The leading digit has weight one in the check digit, so that the twelve *)
(* digits of ser_st determine it.                                          *)
LEMMA SerialDecides ==
  ASSUME NEW b, NEW c, Valid(b), Valid(c), Serial(b) = Serial(c)
  PROVE  b = c
<1>1. \A i \in 1..12 : b[i] = c[i]
  BY DEF Serial
<1>2. /\ b \in Codes /\ c \in Codes /\ b[0] \in 0..9 /\ c[0] \in 0..9
      /\ \A i \in 1..12 : b[i] \in Nat
  BY TotalType DEF Valid, CodePlaces
<1>3. PICK r \in Nat : Total(b) = r + b[0] /\ Total(c) = r + c[0]
  <2>1. Even(b) \in Nat /\ Even(c) = Even(b)
    BY <1>1, <1>2 DEF Even
  <2>2. b[2] + b[4] + b[6] + b[8] + b[10] \in Nat
    BY <1>2
  <2> DEFINE rest == Even(b) * 3 + (b[2] + b[4] + b[6] + b[8] + b[10])
  <2>3. rest \in Nat
    BY <2>1, <2>2
  <2>4. Total(b) = rest + b[0] /\ Total(c) = rest + c[0]
    BY <1>1, <1>2, <2>1 DEF Total, Odd
  <2> QED
    BY <2>3, <2>4
<1>4. CheckDigit(b) = CheckDigit(c)
  BY <1>1 DEF Valid
<1>5. Total(b) % 10 = Total(c) % 10
  BY <1>2, <1>4, TotalType DEF CheckDigit
<1>6. b[0] = c[0]
  BY <1>2, <1>3, <1>5
<1>7. \A i \in CodePlaces : i = 0 \/ i \in 1..12
  BY DEF CodePlaces
<1> QED
  BY <1>1, <1>2, <1>6, <1>7, SameDigits

-----------------------------------------------------------------------------
(* Codes stay readable, pages are linked to the first page of their sheet, *)
(* and serial numbers tell pages apart, for all thirteen-digit codes.      *)
THEOREM BarcodeCorrect == SpecCodes => [](CodesValid /\ LinksSheet /\ SerialsApart)
<1>1. InitCodes => CodesValid
  BY InputAssumption DEF InitCodes, CodesValid
<1>2. CodesValid /\ [NextCodes]_<<one, two>> => CodesValid'
  BY FirstCodeDigits DEF CodesValid, NextCodes, Valid
<1>3. CodesValid => LinksSheet /\ SerialsApart
  BY FirstCodeOfSheet, SerialDecides DEF CodesValid, LinksSheet, SerialsApart
<1> QED
  BY <1>1, <1>2, <1>3, PTL DEF SpecCodes

(* Every code made for a first page can be read by a scanner: its check    *)
(* digit is right, and never the character after '9' (bar_process.c:209).  *)
THEOREM FirstCodesReadable == SpecCodes => []CodesValid
BY BarcodeCorrect, PTL

(* The twelve digits of ser_st determine the page (database.c:143, 171).   *)
THEOREM SerialsDiffer == SpecCodes => []SerialsApart
BY BarcodeCorrect, PTL

(* Serial numbers, and the column first_ser_st as a function of the column *)
(* ser_st, which is what the UPDATE that links a sheet takes it for.       *)
Serials == {Serial(b) : b \in {c \in Codes : Valid(c)}}
CodeOf(s) == CHOOSE b \in Codes : Valid(b) /\ Serial(b) = s
First == [s \in Serials |-> Serial(FirstCode(CodeOf(s)))]

(* What OchiState assumes of serial numbers (SerialAssumption) is so: the  *)
(* first page of a sheet is the first page of its own sheet, and a page is *)
(* a first page if the digit looked at in daemon.c is '0'.                 *)
THEOREM SerialsOfSheets ==
  /\ First \in [Serials -> Serials]
  /\ \A s \in Serials : First[First[s]] = First[s]
  /\ \A b \in Codes : Valid(b) => (First[Serial(b)] = Serial(b) <=> b[7] = 0)
<1>1. ASSUME NEW b \in Codes, Valid(b)
      PROVE  Serial(b) \in Serials /\ CodeOf(Serial(b)) = b
  <2>1. CodeOf(Serial(b)) \in Codes /\ Valid(CodeOf(Serial(b)))
        /\ Serial(CodeOf(Serial(b))) = Serial(b)
    BY <1>1 DEF CodeOf
  <2>2. CodeOf(Serial(b)) = b
    BY <1>1, <2>1, SerialDecides
  <2> QED
    BY <1>1, <2>2 DEF Serials
<1>2. ASSUME NEW b \in Codes, Valid(b)
      PROVE  /\ FirstCode(b) \in Codes /\ Valid(FirstCode(b))
             /\ First[Serial(b)] = Serial(FirstCode(b))
  BY <1>1, <1>2, FirstCodeDigits DEF First
<1>3. ASSUME NEW s \in Serials
      PROVE  \E b \in Codes : Valid(b) /\ s = Serial(b)
  BY DEF Serials
<1>4. First \in [Serials -> Serials]
  <2>1. \A s \in Serials : First[s] \in Serials
    BY <1>1, <1>2, <1>3
  <2> QED
    BY <2>1 DEF First
<1>5. ASSUME NEW s \in Serials PROVE First[First[s]] = First[s]
  <2>1. PICK b \in Codes : Valid(b) /\ s = Serial(b)
    BY <1>3
  <2>2. FirstCode(FirstCode(b)) = FirstCode(b)
    BY <2>1, FirstCodeDigits, FirstCodeOfSheet DEF IsFirst
  <2> QED
    BY <1>2, <2>1, <2>2
<1>6. ASSUME NEW b \in Codes, Valid(b)
      PROVE  First[Serial(b)] = Serial(b) <=> b[7] = 0
  BY <1>2, <1>6, SerialDecides, FirstCodeOfSheet DEF IsFirst
<1> QED
  BY <1>4, <1>5, <1>6
=============================================================================
