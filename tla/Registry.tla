------------------------------ MODULE Registry ------------------------------
(***************************************************************************)
(* What the database promises its readers, without connections,            *)
(* transactions or failures: a page is registered at most once, it stays,  *)
(* and the moment the first page of its sheet is known too, it points at   *)
(* that page, whichever of the two came first.                             *)
(***************************************************************************)
EXTENDS Pola

CONSTANTS
  Serials,   \* serial numbers printed on the pages
  First      \* First[s]: the serial of the first page of the sheet of s

VARIABLE table

Init == table = << >>

(* One page enters the table; the links it makes possible, its own and     *)
(* those of the pages that waited for it, appear in the same step.         *)
Register(s) ==
  /\ ~Present(table, s)
  /\ table' = Link(Append(table, [ser_st       |-> s,
                                  first_ser_st |-> First[s],
                                  first_id     |-> NoRow]))

Next == \E s \in Serials : Register(s)

Spec == Init /\ [][Next]_table
=============================================================================
