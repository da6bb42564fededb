------------------------------- MODULE Barcode -------------------------------
(***************************************************************************)
(* The barcode of a page: what it says about the page, and how the code of *)
(* the first page of the same sheet is made from it.  A code is the        *)
(* function from the places 0..12 of the string to its digits.             *)
(***************************************************************************)
EXTENDS Integers

Digit  == 0..9
CodePlaces == 0..12
Codes  == [CodePlaces -> Digit]

(* ean13_check_digit.                                                      *)
Even(b)  == b[1] + b[3] + b[5] + b[7] + b[9] + b[11]
Odd(b)   == b[0] + b[2] + b[4] + b[6] + b[8] + b[10]
Total(b) == Even(b) * 3 + Odd(b)
CheckDigit(b) == IF Total(b) % 10 = 0 THEN 0 ELSE 10 - (Total(b) % 10)

(* An EAN-13 code.  decodeCode asks zbar for codes whose check digit is    *)
(* right (ZBAR_CFG_ADD_CHECK) and takes what it gets: it tests neither the *)
(* kind of the symbol nor its length nor the check digit.  That the sheets *)
(* bear such codes and no others is an assumption about the sheets.        *)
Valid(b) == b \in Codes /\ b[12] = CheckDigit(b)

(* The digit at place 7 counts the pages of a sheet, from 0.               *)
PageNo(b) == b[7] + 1
IsFirst(b) == b[7] = 0

(* Wrong versions, used by no specification.                               *)

(* The check digit is that of the page itself.                             *)
FirstCodeUnchecked(b) == [b EXCEPT ![7] = 0]

(* The digit after the page number counts for the page number as well.     *)
FirstCodeTwoDigits(b) ==
  LET c == [b EXCEPT ![7] = 0, ![8] = 0] IN [c EXCEPT ![12] = CheckDigit(c)]

(* The serial number starts one digit later.                               *)
SerialShort(b) == [i \in 2..12 |-> b[i]]

(* bar_get_first_code: the code of the first page of the sheet of b.       *)
FirstCode(b) ==
  LET c == [b EXCEPT ![7] = 0] IN [c EXCEPT ![12] = CheckDigit(c)]

(* The column ser_st, barcode + 1: the code without its leading digit.     *)
Serial(b) == [i \in 1..12 |-> b[i]]

-----------------------------------------------------------------------------
(* Two scanned pages; what the daemon does with their codes is to replace  *)
(* them by the codes of their first pages.                                 *)
CONSTANT Inputs    \* bound: the codes TLC tries, assumed to be valid

ASSUME InputAssumption == \A b \in Inputs : Valid(b)

VARIABLES one, two

InitCodes == one \in Inputs /\ two \in Inputs
NextCodes == one' = FirstCode(one) /\ two' = FirstCode(two)
SpecCodes == InitCodes /\ [][NextCodes]_<<one, two>>

SameSheet(b, c) == \A i \in CodePlaces \ {7, 12} : b[i] = c[i]

(* The code made for the first page is one a scanner can read, whatever    *)
(* page it is made from: its check digit is right and is a digit           *)
(* (bar_process.c: "this fixes bug when : is returned instead of 0").      *)
CodesValid == Valid(one) /\ Valid(two)

(* Two pages are linked to the same first page exactly if they belong to   *)
(* one sheet, and a first page is linked to itself and to no other.        *)
LinksSheet ==
  /\ FirstCode(one) = FirstCode(two) <=> SameSheet(one, two)
  /\ FirstCode(one) = one <=> IsFirst(one)

(* ser_st tells pages apart although it lacks the leading digit, so that   *)
(* db_check_scan_presence never takes one page for another.                *)
SerialsApart == Serial(one) = Serial(two) => one = two
=============================================================================
