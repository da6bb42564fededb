-------------------------------- MODULE Pola --------------------------------
(***************************************************************************)
(* The table "pola" of the database, one row per scanned page, as          *)
(* database.c reads and writes it.  A table is a sequence: the primary     *)
(* key pola_id of a row is its position.  A row has at least the fields    *)
(* ser_st (serial of the page), first_ser_st (serial of the first page of  *)
(* the same sheet) and first_id (pola_id of that first page, NoRow while   *)
(* the column is NULL).                                                    *)
(***************************************************************************)
EXTENDS Integers, Sequences

NoRow == 0

(* db_check_scan_presence's SELECT: a row with this serial exists.         *)
Present(t, s) == \E j \in DOMAIN t : t[j].ser_st = s

(* The row an UPDATE ... FROM joins with.  Were there several, PostgreSQL  *)
(* would take an arbitrary one; UniqueSerial says there never are.         *)
RowOf(t, s) == CHOOSE j \in DOMAIN t : t[j].ser_st = s

(* The UPDATE of db_insert_wrapper: every row whose first_id is NULL gets  *)
(* the pola_id of the row that holds its first page, if there is one.      *)
Link(t) ==
  [i \in DOMAIN t |->
     IF t[i].first_id = NoRow /\ Present(t, t[i].first_ser_st)
     THEN [t[i] EXCEPT !.first_id = RowOf(t, t[i].first_ser_st)]
     ELSE t[i]]
=============================================================================
