-------------------------- MODULE PageReaderProofs --------------------------
(***************************************************************************)
(* Proofs about PageReader for any number of pages, any depths of the      *)
(* scans and either recogniser of digits, with a database that fails or    *)
(* one that does not.                                                      *)
(***************************************************************************)
EXTENDS PageReader, TLAPS

LEMMA InitReader == Init => ReaderInv
<1> SUFFICES ASSUME Init PROVE ReaderInv
  OBVIOUS
<1>1. TypeOK
  BY ReaderAssumption DEF Init, TypeOK, Places, Tries
<1>2. HeapInv
  BY DEF Init, HeapInv, Held, Owns, Set, Leaking
<1>3. TurnInv
  BY DEF Init, TurnInv, ReadUpright
<1> QED
  BY <1>1, <1>2, <1>3 DEF ReaderInv

(* Heap keeps the types.                                                   *)
LEMMA HeapTyped ==
  ASSUME TypeOK, NEW freed, NEW new, NEW null, Heap(freed, new, null)
  PROVE  /\ at' \in [Pointers -> Nat] /\ made' \in [Pointers -> Nat]
         /\ live' \in [Pointers -> SUBSET Nat]
<1>1. \A v \in Pointers : made[v] \in Nat /\ at[v] \in Nat /\ live[v] \in SUBSET Nat
  BY DEF TypeOK
<1>2. at' \in [Pointers -> Nat] /\ made' \in [Pointers -> Nat]
  BY <1>1 DEF Heap
<1>3. live' \in [Pointers -> SUBSET Nat]
  BY <1>1 DEF Heap
<1> QED
  BY <1>2, <1>3

LEMMA TypeReader == TypeOK /\ [Next]_vars => TypeOK'
<1> SUFFICES ASSUME TypeOK, [Next]_vars PROVE TypeOK'
  OBVIOUS
<1> USE DEF TypeOK
<1>1. /\ page' \in 1..MaxPages + 1 /\ (page' = MaxPages + 1 => pc' = "end")
      /\ pc' \in Places /\ try' \in Tries
      /\ upright' \in BOOLEAN /\ turned' \subseteq {"pixs", "pixd"}
  <2>1. CASE NextPage /\ pc \in {"turn", "quarantine", "destroy"}
    BY <2>1, ReaderAssumption DEF NextPage, Places
  <2>2. CASE UNCHANGED vars
    BY <2>2 DEF vars
  <2>3. CASE page' = page /\ pc' \in Places /\ pc # "end"
    <3>1. try' \in Tries /\ upright' \in BOOLEAN /\ turned' \subseteq {"pixs", "pixd"}
      BY <2>3
      DEF Load, LoadFails, Repair, NotFound, Found, Decoded, NotDecoded, Thicken,
          Turn, NoBarcode, TryOriginal, HasCode, LostCode, NeverDecoded,
          Quarantine, FirstPage, OtherPage, ReadSid, ReadSidAgain, ReadAnswers,
          WriteResult, Store, Destroy, Stay, At, Goto, Next, vars, NextPage, Tries
    <3> QED
      BY <2>3, <3>1
  <2> QED
    BY <2>1, <2>2, <2>3
    DEF Load, LoadFails, Repair, NotFound, Found, Decoded, NotDecoded, Thicken,
        Turn, NoBarcode, TryOriginal, HasCode, LostCode, NeverDecoded,
        Quarantine, FirstPage, OtherPage, ReadSid, ReadSidAgain, ReadAnswers,
        WriteResult, Store, Destroy, Stay, At, Goto, Next, Places
<1>2. \/ UNCHANGED heapVars
      \/ \E freed, new, null : Heap(freed, new, null)
  BY DEF Next, vars, heapVars, Load, LoadFails, Repair, NotFound, Found,
     Decoded,
      NotDecoded, Thicken, Turn, NoBarcode, TryOriginal, HasCode, LostCode,
      NeverDecoded, Quarantine, FirstPage, OtherPage, ReadSid, ReadSidAgain,
      ReadAnswers, WriteResult, Store, Destroy
<1>3. /\ at' \in [Pointers -> Nat] /\ made' \in [Pointers -> Nat]
      /\ live' \in [Pointers -> SUBSET Nat]
  BY <1>2, HeapTyped DEF heapVars
<1> QED
  BY <1>1, <1>3 DEF TypeOK

-----------------------------------------------------------------------------
(* A change of the heap that frees owned blocks only, and gives no pointer *)
(* a new value while it still owns a block, takes owners to owners.        *)
LEMMA OwnerStep ==
  ASSUME TypeOK, NEW v \in Pointers, Owns(v),
         NEW freed, NEW new, NEW null, Heap(freed, new, null),
         v \in freed => v \in Held,
         v \in Held /\ (v \in new \/ v \in null) => v \in freed,
         v \in Leaking => (v \notin Held)',
         v \notin Leaking =>
           ((v \in Held)' <=> v \in new \/ (v \in Held /\ v \notin freed))
  PROVE  Owns(v)'
<1>t. made[v] \in Nat
  BY DEF TypeOK
<1>1. at'[v] = IF v \in new THEN made[v] + 1
                ELSE IF v \in null THEN 0 ELSE at[v]
  BY DEF Heap
<1>2. live'[v] = (IF v \in freed THEN live[v] \ {at[v]} ELSE live[v])
                 \cup (IF v \in new THEN {made[v] + 1} ELSE {})
  BY DEF Heap
<1>l. CASE v \in Leaking
  BY <1>l DEF Owns
<1>3. CASE v \notin Leaking /\ v \in new
  <2>1. at'[v] # 0 /\ at'[v] \in live'[v]
    BY <1>t, <1>1, <1>2, <1>3
  <2>2. v \notin Leaking => live'[v] = {at'[v]}
    <3>1. v \notin Leaking => live[v] \ {at[v]} = {} /\ (v \notin freed => live[v] = {})
      BY <1>3 DEF Owns
    <3> QED
      BY <1>1, <1>2, <1>3, <3>1
  <2> QED
    BY <1>3, <2>1, <2>2 DEF Owns
<1>4. CASE v \notin Leaking /\ v \notin new /\ v \in freed
  <2>1. v \notin Leaking => live'[v] = {}
    BY <1>2, <1>4 DEF Owns
  <2> QED
    BY <1>4, <2>1 DEF Owns
<1>5. CASE v \notin Leaking /\ v \notin new /\ v \notin freed
  <2>1. live'[v] = live[v]
    BY <1>2, <1>5
  <2>2. v \in Held => at'[v] = at[v]
    BY <1>1, <1>5
  <2> QED
    BY <1>5, <2>1, <2>2 DEF Owns
<1> QED
  BY <1>l, <1>3, <1>4, <1>5

(* The heap: one step per action.  Each shows what becomes of the pointers *)
(* Held looks at, and that it takes owners to owners.                      *)
LEMMA OwnsStep ==
  ASSUME TypeOK, HeapInv, [Next]_vars, pc' # "dead", NEW v \in Pointers
  PROVE  Owns(v)'
<1>n. pc = "check" /\ at["bar"] = 0 => try = "original"
  BY DEF HeapInv, Set
<1>o. pc # "dead" => Owns(v)
  BY DEF HeapInv
<1>b. pc \in {"decode", "decodeAgain"} => at["bar"] # 0
  BY DEF HeapInv, Owns, Held, Pointers
<1>m. \A w \in Pointers : made[w] \in Nat
  BY DEF TypeOK
<1>p. \A freed, new, null : Heap(freed, new, null) => \A w \in Pointers :
        at'[w] = IF w \in new THEN made[w] + 1
                 ELSE IF w \in null THEN 0 ELSE at[w]
  BY DEF Heap
<1> USE DEF At, Goto, Set
<1>1. CASE Load
  <2>1. CASE Heap({}, {"pixs", "pixt"}, {})
    <3>1. /\ at'["bar"] = at["bar"] /\ at'["barText"] = at["barText"]
          /\ at'["sidImg"] = at["sidImg"] /\ at'["sidCopy"] = at["sidCopy"]
      BY <2>1, <1>m, <1>p DEF Pointers
    <3>2. v \notin Leaking =>
            ((v \in Held)' <=>
              v \in {"pixs", "pixt"} \/ (v \in Held /\ v \notin {}))
      BY <1>1, <2>1, <3>1, <1>n, <1>b DEF Load, Leaking, Held, BarBlocks,
         SidBlocks
    <3>3. /\ v \in {} => v \in Held
          /\ v \in Held /\ (v \in {"pixs", "pixt"} \/ v \in {}) => v \in {}
          /\ pc # "dead" /\ (v \in Leaking => (v \notin Held)')
      BY <1>1, <2>1, <1>n, <1>b DEF Load, Leaking, Held, BarBlocks, SidBlocks
    <3> QED
      BY <2>1, <3>2, <3>3, <1>o, OwnerStep
  <2>2. CASE Heap({}, {"pixs"}, {})
    <3>1. /\ at'["bar"] = at["bar"] /\ at'["barText"] = at["barText"]
          /\ at'["sidImg"] = at["sidImg"] /\ at'["sidCopy"] = at["sidCopy"]
      BY <2>2, <1>m, <1>p DEF Pointers
    <3>2. v \notin Leaking =>
            ((v \in Held)' <=> v \in {"pixs"} \/ (v \in Held /\ v \notin {}))
      BY <1>1, <2>2, <3>1, <1>n, <1>b DEF Load, Leaking, Held, BarBlocks,
         SidBlocks
    <3>3. /\ v \in {} => v \in Held
          /\ v \in Held /\ (v \in {"pixs"} \/ v \in {}) => v \in {}
          /\ pc # "dead" /\ (v \in Leaking => (v \notin Held)')
      BY <1>1, <2>2, <1>n, <1>b DEF Load, Leaking, Held, BarBlocks, SidBlocks
    <3> QED
      BY <2>2, <3>2, <3>3, <1>o, OwnerStep
  <2> QED
    BY <1>1, <2>1, <2>2 DEF Load
<1>2. CASE LoadFails
  <2>1. CASE Heap({}, {}, {"pixs"})
    <3>1. /\ at'["bar"] = at["bar"] /\ at'["barText"] = at["barText"]
          /\ at'["sidImg"] = at["sidImg"] /\ at'["sidCopy"] = at["sidCopy"]
      BY <2>1, <1>m, <1>p DEF Pointers
    <3>2. v \notin Leaking =>
            ((v \in Held)' <=> v \in {} \/ (v \in Held /\ v \notin {}))
      BY <1>2, <2>1, <3>1, <1>n, <1>b DEF LoadFails, Leaking, Held,
         BarBlocks, SidBlocks
    <3>3. /\ v \in {} => v \in Held
          /\ v \in Held /\ (v \in {} \/ v \in {"pixs"}) => v \in {}
          /\ pc # "dead" /\ (v \in Leaking => (v \notin Held)')
      BY <1>2, <2>1, <1>n, <1>b DEF LoadFails, Leaking, Held, BarBlocks,
         SidBlocks
    <3> QED
      BY <2>1, <3>2, <3>3, <1>o, OwnerStep
  <2> QED
    BY <1>2, <2>1 DEF LoadFails
<1>3. CASE Repair
  <2>1. CASE Heap({"pixs"}, {"pixs", "pixd"}, {})
    <3>1. /\ at'["bar"] = at["bar"] /\ at'["barText"] = at["barText"]
          /\ at'["sidImg"] = at["sidImg"] /\ at'["sidCopy"] = at["sidCopy"]
      BY <2>1, <1>m, <1>p DEF Pointers
    <3>2. v \notin Leaking =>
            ((v \in Held)' <=>
              v \in {"pixs", "pixd"} \/ (v \in Held /\ v \notin {"pixs"}))
      BY <1>3, <2>1, <3>1, <1>n, <1>b DEF Repair, Leaking, Held, BarBlocks,
         SidBlocks
    <3>3. /\ v \in {"pixs"} => v \in Held
          /\ v \in Held /\ (v \in {"pixs", "pixd"} \/ v \in {}) =>
               v \in {"pixs"}
          /\ pc # "dead" /\ (v \in Leaking => (v \notin Held)')
      BY <1>3, <2>1, <1>n, <1>b DEF Repair, Leaking, Held, BarBlocks, SidBlocks
    <3> QED
      BY <2>1, <3>2, <3>3, <1>o, OwnerStep
  <2> QED
    BY <1>3, <2>1 DEF Repair
<1>4. CASE NotFound
  <2>1. CASE Heap({}, {}, {"bar"})
    <3>1. /\ at'["bar"] = 0 /\ at'["barText"] = at["barText"]
          /\ at'["sidImg"] = at["sidImg"] /\ at'["sidCopy"] = at["sidCopy"]
      BY <2>1, <1>m, <1>p DEF Pointers
    <3>2. v \notin Leaking =>
            ((v \in Held)' <=> v \in {} \/ (v \in Held /\ v \notin {}))
      BY <1>4, <2>1, <3>1, <1>n, <1>b DEF NotFound, Leaking, Held,
         BarBlocks, SidBlocks
    <3>3. /\ v \in {} => v \in Held
          /\ v \in Held /\ (v \in {} \/ v \in {"bar"}) => v \in {}
          /\ pc # "dead" /\ (v \in Leaking => (v \notin Held)')
      BY <1>4, <2>1, <1>n, <1>b DEF NotFound, Leaking, Held, BarBlocks,
         SidBlocks
    <3> QED
      BY <2>1, <3>2, <3>3, <1>o, OwnerStep
  <2> QED
    BY <1>4, <2>1 DEF NotFound
<1>5. CASE Found
  <2>1. CASE Heap({}, {"bar", "barImg"}, {})
    <3>1. /\ at'["bar"] # 0 /\ at'["barText"] = at["barText"]
          /\ at'["sidImg"] = at["sidImg"] /\ at'["sidCopy"] = at["sidCopy"]
      BY <2>1, <1>m, <1>p DEF Pointers
    <3>2. v \notin Leaking =>
            ((v \in Held)' <=>
              v \in {"bar", "barImg"} \/ (v \in Held /\ v \notin {}))
      BY <1>5, <2>1, <3>1, <1>n, <1>b DEF Found, Leaking, Held, BarBlocks,
         SidBlocks
    <3>3. /\ v \in {} => v \in Held
          /\ v \in Held /\ (v \in {"bar", "barImg"} \/ v \in {}) => v \in {}
          /\ pc # "dead" /\ (v \in Leaking => (v \notin Held)')
      BY <1>5, <2>1, <1>n, <1>b DEF Found, Leaking, Held, BarBlocks, SidBlocks
    <3> QED
      BY <2>1, <3>2, <3>3, <1>o, OwnerStep
  <2> QED
    BY <1>5, <2>1 DEF Found
<1>6. CASE Decoded
  <2>1. CASE Heap({}, {"barText"}, {})
    <3>1. /\ at'["bar"] = at["bar"] /\ at'["barText"] # 0
          /\ at'["sidImg"] = at["sidImg"] /\ at'["sidCopy"] = at["sidCopy"]
      BY <2>1, <1>m, <1>p DEF Pointers
    <3>2. v \notin Leaking =>
            ((v \in Held)' <=>
              v \in {"barText"} \/ (v \in Held /\ v \notin {}))
      BY <1>6, <2>1, <3>1, <1>n, <1>b DEF Decoded, Leaking, Held, BarBlocks,
         SidBlocks
    <3>3. /\ v \in {} => v \in Held
          /\ v \in Held /\ (v \in {"barText"} \/ v \in {}) => v \in {}
          /\ pc # "dead" /\ (v \in Leaking => (v \notin Held)')
      BY <1>6, <2>1, <1>n, <1>b DEF Decoded, Leaking, Held, BarBlocks,
         SidBlocks
    <3> QED
      BY <2>1, <3>2, <3>3, <1>o, OwnerStep
  <2> QED
    BY <1>6, <2>1 DEF Decoded
<1>7. CASE NotDecoded
  <2>1. CASE Heap({}, {}, {"barText"})
    <3>1. /\ at'["bar"] = at["bar"] /\ at'["barText"] = 0
          /\ at'["sidImg"] = at["sidImg"] /\ at'["sidCopy"] = at["sidCopy"]
      BY <2>1, <1>m, <1>p DEF Pointers
    <3>2. v \notin Leaking =>
            ((v \in Held)' <=> v \in {} \/ (v \in Held /\ v \notin {}))
      BY <1>7, <2>1, <3>1, <1>n, <1>b DEF NotDecoded, Leaking, Held,
         BarBlocks, SidBlocks
    <3>3. /\ v \in {} => v \in Held
          /\ v \in Held /\ (v \in {} \/ v \in {"barText"}) => v \in {}
          /\ pc # "dead" /\ (v \in Leaking => (v \notin Held)')
      BY <1>7, <2>1, <1>n, <1>b DEF NotDecoded, Leaking, Held, BarBlocks,
         SidBlocks
    <3> QED
      BY <2>1, <3>2, <3>3, <1>o, OwnerStep
  <2> QED
    BY <1>7, <2>1 DEF NotDecoded
<1>8. CASE Thicken
  <2>1. CASE Heap({"barImg"}, {"barImg"}, {})
    <3>1. /\ at'["bar"] = at["bar"] /\ at'["barText"] = at["barText"]
          /\ at'["sidImg"] = at["sidImg"] /\ at'["sidCopy"] = at["sidCopy"]
      BY <2>1, <1>m, <1>p DEF Pointers
    <3>2. v \notin Leaking =>
            ((v \in Held)' <=>
              v \in {"barImg"} \/ (v \in Held /\ v \notin {"barImg"}))
      BY <1>8, <2>1, <3>1, <1>n, <1>b DEF Thicken, Leaking, Held, BarBlocks,
         SidBlocks
    <3>3. /\ v \in {"barImg"} => v \in Held
          /\ v \in Held /\ (v \in {"barImg"} \/ v \in {}) => v \in {"barImg"}
          /\ pc # "dead" /\ (v \in Leaking => (v \notin Held)')
      BY <1>8, <2>1, <1>n, <1>b DEF Thicken, Leaking, Held, BarBlocks,
         SidBlocks
    <3> QED
      BY <2>1, <3>2, <3>3, <1>o, OwnerStep
  <2> QED
    BY <1>8, <2>1 DEF Thicken
<1>9. CASE NoBarcode
  <2>1. CASE Heap({"pixs", "pixd"}, {}, {"pixs", "pixd"})
    <3>1. /\ at'["bar"] = at["bar"] /\ at'["barText"] = at["barText"]
          /\ at'["sidImg"] = at["sidImg"] /\ at'["sidCopy"] = at["sidCopy"]
      BY <2>1, <1>m, <1>p DEF Pointers
    <3>2. v \notin Leaking =>
            ((v \in Held)' <=>
              v \in {} \/ (v \in Held /\ v \notin {"pixs", "pixd"}))
      BY <1>9, <2>1, <3>1, <1>n, <1>b DEF NoBarcode, NextPage, Leaking,
         Held, BarBlocks, SidBlocks
    <3>3. /\ v \in {"pixs", "pixd"} => v \in Held
          /\ v \in Held /\ (v \in {} \/ v \in {"pixs", "pixd"}) =>
               v \in {"pixs", "pixd"}
          /\ pc # "dead" /\ (v \in Leaking => (v \notin Held)')
      BY <1>9, <2>1, <1>n, <1>b DEF NoBarcode, NextPage, Leaking, Held,
         BarBlocks, SidBlocks
    <3> QED
      BY <2>1, <3>2, <3>3, <1>o, OwnerStep
  <2> QED
    BY <1>9, <2>1 DEF NoBarcode, NextPage
<1>10. CASE TryOriginal
  <2>1. CASE Heap(BarBlocks, {}, {"bar"})
    <3>1. /\ at'["bar"] = 0 /\ at'["barText"] = at["barText"]
          /\ at'["sidImg"] = at["sidImg"] /\ at'["sidCopy"] = at["sidCopy"]
      BY <2>1, <1>m, <1>p DEF Pointers
    <3>2. v \notin Leaking =>
            ((v \in Held)' <=> v \in {} \/ (v \in Held /\ v \notin BarBlocks))
      BY <1>10, <2>1, <3>1, <1>n, <1>b DEF TryOriginal, Leaking, Held,
         BarBlocks, SidBlocks
    <3>3. /\ v \in BarBlocks => v \in Held
          /\ v \in Held /\ (v \in {} \/ v \in {"bar"}) => v \in BarBlocks
          /\ pc # "dead" /\ (v \in Leaking => (v \notin Held)')
      BY <1>10, <2>1, <1>n, <1>b DEF TryOriginal, Leaking, Held, BarBlocks,
         SidBlocks
    <3> QED
      BY <2>1, <3>2, <3>3, <1>o, OwnerStep
  <2> QED
    BY <1>10, <2>1 DEF TryOriginal
<1>11. CASE HasCode
  <2>1. CASE Heap({"pixs"}, {}, {"pixs"})
    <3>1. /\ at'["bar"] = at["bar"] /\ at'["barText"] = at["barText"]
          /\ at'["sidImg"] = at["sidImg"] /\ at'["sidCopy"] = at["sidCopy"]
      BY <2>1, <1>m, <1>p DEF Pointers
    <3>2. v \notin Leaking =>
            ((v \in Held)' <=> v \in {} \/ (v \in Held /\ v \notin {"pixs"}))
      BY <1>11, <2>1, <3>1, <1>n, <1>b DEF HasCode, Leaking, Held,
         BarBlocks, SidBlocks
    <3>3. /\ v \in {"pixs"} => v \in Held
          /\ v \in Held /\ (v \in {} \/ v \in {"pixs"}) => v \in {"pixs"}
          /\ pc # "dead" /\ (v \in Leaking => (v \notin Held)')
      BY <1>11, <2>1, <1>n, <1>b DEF HasCode, Leaking, Held, BarBlocks,
         SidBlocks
    <3> QED
      BY <2>1, <3>2, <3>3, <1>o, OwnerStep
  <2> QED
    BY <1>11, <2>1 DEF HasCode
<1>12. CASE NeverDecoded
  <2>1. CASE Heap({"pixs"} \cup BarBlocks, {}, {"pixs"})
    <3>1. /\ at'["bar"] = at["bar"] /\ at'["barText"] = at["barText"]
          /\ at'["sidImg"] = at["sidImg"] /\ at'["sidCopy"] = at["sidCopy"]
      BY <2>1, <1>m, <1>p DEF Pointers
    <3>2. v \notin Leaking =>
            ((v \in Held)' <=>
              v \in {} \/ (v \in Held /\ v \notin ({"pixs"} \cup BarBlocks)))
      BY <1>12, <2>1, <3>1, <1>n, <1>b DEF NeverDecoded, Leaking, Held,
         BarBlocks, SidBlocks
    <3>3. /\ v \in ({"pixs"} \cup BarBlocks) => v \in Held
          /\ v \in Held /\ (v \in {} \/ v \in {"pixs"}) =>
               v \in ({"pixs"} \cup BarBlocks)
          /\ pc # "dead" /\ (v \in Leaking => (v \notin Held)')
      BY <1>12, <2>1, <1>n, <1>b DEF NeverDecoded, Leaking, Held, BarBlocks,
         SidBlocks
    <3> QED
      BY <2>1, <3>2, <3>3, <1>o, OwnerStep
  <2> QED
    BY <1>12, <2>1 DEF NeverDecoded
<1>13. CASE FirstPage
  <2>1. CASE Heap({}, {"sid", "sidImg"}, {})
    <3>1. /\ at'["bar"] = at["bar"] /\ at'["barText"] = at["barText"]
          /\ at'["sidImg"] # 0 /\ at'["sidCopy"] = at["sidCopy"]
      BY <2>1, <1>m, <1>p DEF Pointers
    <3>2. v \notin Leaking =>
            ((v \in Held)' <=>
              v \in {"sid", "sidImg"} \/ (v \in Held /\ v \notin {}))
      BY <1>13, <2>1, <3>1, <1>n, <1>b DEF FirstPage, Leaking, Held,
         BarBlocks, SidBlocks
    <3>3. /\ v \in {} => v \in Held
          /\ v \in Held /\ (v \in {"sid", "sidImg"} \/ v \in {}) => v \in {}
          /\ pc # "dead" /\ (v \in Leaking => (v \notin Held)')
      BY <1>13, <2>1, <1>n, <1>b DEF FirstPage, Leaking, Held, BarBlocks,
         SidBlocks
    <3> QED
      BY <2>1, <3>2, <3>3, <1>o, OwnerStep
  <2>2. CASE Heap({}, {"sid"}, {"sidImg"})
    <3>1. /\ at'["bar"] = at["bar"] /\ at'["barText"] = at["barText"]
          /\ at'["sidImg"] = 0 /\ at'["sidCopy"] = at["sidCopy"]
      BY <2>2, <1>m, <1>p DEF Pointers
    <3>2. v \notin Leaking =>
            ((v \in Held)' <=> v \in {"sid"} \/ (v \in Held /\ v \notin {}))
      BY <1>13, <2>2, <3>1, <1>n, <1>b DEF FirstPage, Leaking, Held,
         BarBlocks, SidBlocks
    <3>3. /\ v \in {} => v \in Held
          /\ v \in Held /\ (v \in {"sid"} \/ v \in {"sidImg"}) => v \in {}
          /\ pc # "dead" /\ (v \in Leaking => (v \notin Held)')
      BY <1>13, <2>2, <1>n, <1>b DEF FirstPage, Leaking, Held, BarBlocks,
         SidBlocks
    <3> QED
      BY <2>2, <3>2, <3>3, <1>o, OwnerStep
  <2> QED
    BY <1>13, <2>1, <2>2 DEF FirstPage
<1>14. CASE OtherPage
  <2>1. CASE Heap({}, {"sid", "sidText", "sidCert"}, {"sidImg"})
    <3>1. /\ at'["bar"] = at["bar"] /\ at'["barText"] = at["barText"]
          /\ at'["sidImg"] = 0 /\ at'["sidCopy"] = at["sidCopy"]
      BY <2>1, <1>m, <1>p DEF Pointers
    <3>2. v \notin Leaking =>
            ((v \in Held)' <=>
              v \in {"sid", "sidText", "sidCert"} \/ (v \in Held /\ v \notin {}))
      BY <1>14, <2>1, <3>1, <1>n, <1>b DEF OtherPage, Leaking, Held,
         BarBlocks, SidBlocks
    <3>3. /\ v \in {} => v \in Held
          /\ v \in Held /\ (v \in {"sid", "sidText", "sidCert"} \/ v \in {"sidImg"}) =>
               v \in {}
          /\ pc # "dead" /\ (v \in Leaking => (v \notin Held)')
      BY <1>14, <2>1, <1>n, <1>b DEF OtherPage, Leaking, Held, BarBlocks,
         SidBlocks
    <3> QED
      BY <2>1, <3>2, <3>3, <1>o, OwnerStep
  <2> QED
    BY <1>14, <2>1 DEF OtherPage
<1>15. CASE ReadSid
  <2>1. CASE Heap({}, {"sidText", "sidCert"}, {"sidCopy"})
    <3>1. /\ at'["bar"] = at["bar"] /\ at'["barText"] = at["barText"]
          /\ at'["sidImg"] = at["sidImg"] /\ at'["sidCopy"] = 0
      BY <2>1, <1>m, <1>p DEF Pointers
    <3>2. v \notin Leaking =>
            ((v \in Held)' <=>
              v \in {"sidText", "sidCert"} \/ (v \in Held /\ v \notin {}))
      BY <1>15, <2>1, <3>1, <1>n, <1>b DEF ReadSid, Leaking, Held,
         BarBlocks, SidBlocks
    <3>3. /\ v \in {} => v \in Held
          /\ v \in Held /\ (v \in {"sidText", "sidCert"} \/ v \in {"sidCopy"}) =>
               v \in {}
          /\ pc # "dead" /\ (v \in Leaking => (v \notin Held)')
      BY <1>15, <2>1, <1>n, <1>b DEF ReadSid, Leaking, Held, BarBlocks,
         SidBlocks
    <3> QED
      BY <2>1, <3>2, <3>3, <1>o, OwnerStep
  <2>2. CASE Heap({},
                  {"sidText", "sidCert", "sidCopy"}, {}) /\ pc' = "sidAgain"
    <3>1. /\ at'["bar"] = at["bar"] /\ at'["barText"] = at["barText"]
          /\ at'["sidImg"] = at["sidImg"] /\ at'["sidCopy"] # 0
      BY <2>2, <1>m, <1>p DEF Pointers
    <3>2. v \notin Leaking =>
            ((v \in Held)' <=>
              v \in {"sidText", "sidCert", "sidCopy"} \/ (v \in Held /\ v \notin {}))
      BY <1>15, <2>2, <3>1, <1>n, <1>b DEF ReadSid, Leaking, Held,
         BarBlocks, SidBlocks
    <3>3. /\ v \in {} => v \in Held
          /\ v \in Held /\ (v \in {"sidText", "sidCert", "sidCopy"} \/ v \in {}) =>
               v \in {}
          /\ pc # "dead" /\ (v \in Leaking => (v \notin Held)')
      BY <1>15, <2>2, <1>n, <1>b DEF ReadSid, Leaking, Held, BarBlocks,
         SidBlocks
    <3> QED
      BY <2>2, <3>2, <3>3, <1>o, OwnerStep
  <2> QED
    BY <1>15, <2>1, <2>2 DEF ReadSid
<1>16. CASE ReadSidAgain
  <2>1. CASE Heap({"sidCopy"}, {"sidOld"}, {"sidCopy"}) /\ at["sidCopy"] # 0
    <3>1. /\ at'["bar"] = at["bar"] /\ at'["barText"] = at["barText"]
          /\ at'["sidImg"] = at["sidImg"] /\ at'["sidCopy"] = 0
      BY <2>1, <1>m, <1>p DEF Pointers
    <3>2. v \notin Leaking =>
            ((v \in Held)' <=>
              v \in {"sidOld"} \/ (v \in Held /\ v \notin {"sidCopy"}))
      BY <1>16, <2>1, <3>1, <1>n, <1>b DEF ReadSidAgain, Leaking, Held,
         BarBlocks, SidBlocks
    <3>3. /\ v \in {"sidCopy"} => v \in Held
          /\ v \in Held /\ (v \in {"sidOld"} \/ v \in {"sidCopy"}) =>
               v \in {"sidCopy"}
          /\ pc # "dead" /\ (v \in Leaking => (v \notin Held)')
      BY <1>16, <2>1, <1>n, <1>b DEF ReadSidAgain, Leaking, Held, BarBlocks,
         SidBlocks
    <3> QED
      BY <2>1, <3>2, <3>3, <1>o, OwnerStep
  <2>2. CASE UNCHANGED heapVars /\ at["sidCopy"] = 0
    BY <1>16, <2>2, <1>o DEF ReadSidAgain, heapVars, Owns, Leaking, Held,
       BarBlocks, SidBlocks
  <2> QED
    BY <1>16, <2>1, <2>2 DEF ReadSidAgain
<1>17. CASE ReadAnswers
  <2>1. CASE Heap({}, {"ans"}, {})
    <3>1. /\ at'["bar"] = at["bar"] /\ at'["barText"] = at["barText"]
          /\ at'["sidImg"] = at["sidImg"] /\ at'["sidCopy"] = at["sidCopy"]
      BY <2>1, <1>m, <1>p DEF Pointers
    <3>2. v \notin Leaking =>
            ((v \in Held)' <=> v \in {"ans"} \/ (v \in Held /\ v \notin {}))
      BY <1>17, <2>1, <3>1, <1>n, <1>b DEF ReadAnswers, Leaking, Held,
         BarBlocks, SidBlocks
    <3>3. /\ v \in {} => v \in Held
          /\ v \in Held /\ (v \in {"ans"} \/ v \in {}) => v \in {}
          /\ pc # "dead" /\ (v \in Leaking => (v \notin Held)')
      BY <1>17, <2>1, <1>n, <1>b DEF ReadAnswers, Leaking, Held, BarBlocks,
         SidBlocks
    <3> QED
      BY <2>1, <3>2, <3>3, <1>o, OwnerStep
  <2> QED
    BY <1>17, <2>1 DEF ReadAnswers
<1>18. CASE Destroy
  <2>1. CASE Heap({"ans", "pixd"} \cup SidBlocks \cup BarBlocks, {}, {"pixd"})
    <3>1. /\ at'["bar"] = at["bar"] /\ at'["barText"] = at["barText"]
          /\ at'["sidImg"] = at["sidImg"] /\ at'["sidCopy"] = at["sidCopy"]
      BY <2>1, <1>m, <1>p DEF Pointers
    <3>2. v \notin Leaking =>
            ((v \in Held)' <=>
              v \in {} \/ (v \in Held /\ v \notin ({"ans", "pixd"} \cup SidBlocks \cup BarBlocks)))
      BY <1>18, <2>1, <3>1, <1>n, <1>b DEF Destroy, NextPage, Leaking, Held,
         BarBlocks, SidBlocks
    <3>3. /\ v \in ({"ans", "pixd"} \cup SidBlocks \cup BarBlocks) => v \in Held
          /\ v \in Held /\ (v \in {} \/ v \in {"pixd"}) =>
               v \in ({"ans", "pixd"} \cup SidBlocks \cup BarBlocks)
          /\ pc # "dead" /\ (v \in Leaking => (v \notin Held)')
      BY <1>18, <2>1, <1>n, <1>b DEF Destroy, NextPage, Leaking, Held,
         BarBlocks, SidBlocks
    <3> QED
      BY <2>1, <3>2, <3>3, <1>o, OwnerStep
  <2> QED
    BY <1>18, <2>1 DEF Destroy, NextPage
<1>19. CASE Quarantine
  <2>1. CASE Heap({"pixd"}, {}, {"pixd"}) /\ pc' # "dead"
    <3>1. /\ at'["bar"] = at["bar"] /\ at'["barText"] = at["barText"]
          /\ at'["sidImg"] = at["sidImg"] /\ at'["sidCopy"] = at["sidCopy"]
      BY <2>1, <1>m, <1>p DEF Pointers
    <3>2. v \notin Leaking =>
            ((v \in Held)' <=> v \in {} \/ (v \in Held /\ v \notin {"pixd"}))
      BY <1>19, <2>1, <3>1, <1>n, <1>b DEF Quarantine, NextPage, Leaking,
         Held, BarBlocks, SidBlocks
    <3>3. /\ v \in {"pixd"} => v \in Held
          /\ v \in Held /\ (v \in {} \/ v \in {"pixd"}) => v \in {"pixd"}
          /\ pc # "dead" /\ (v \in Leaking => (v \notin Held)')
      BY <1>19, <2>1, <1>n, <1>b DEF Quarantine, NextPage, Leaking, Held,
         BarBlocks, SidBlocks
    <3> QED
      BY <2>1, <3>2, <3>3, <1>o, OwnerStep
  <2> QED
    BY <1>19, <2>1 DEF Quarantine, NextPage
<1>20. CASE Turn
  BY <1>20, <1>o DEF Turn, heapVars, Owns, Leaking, Held, BarBlocks, SidBlocks
<1>21. CASE WriteResult
  BY <1>21, <1>o DEF WriteResult, heapVars, Owns, Leaking, Held, BarBlocks,
     SidBlocks
<1>22. CASE Store
  <2>1. CASE UNCHANGED heapVars
    BY <1>22, <2>1, <1>o DEF Store, heapVars, Owns, Leaking, Held, BarBlocks,
       SidBlocks
  <2>2. ASSUME NEW left \in LeftBehind, Heap({}, left, {})
        PROVE  Owns(v)'
    <3>1. left \subseteq {"query", "firstSer", "fd"}
      BY DEF LeftBehind
    <3>2. /\ at'["bar"] = at["bar"] /\ at'["barText"] = at["barText"]
          /\ at'["sidImg"] = at["sidImg"] /\ at'["sidCopy"] = at["sidCopy"]
      BY <2>2, <3>1, <1>p DEF Pointers
    <3>3. v \notin Leaking =>
            ((v \in Held)' <=> v \in left \/ (v \in Held /\ v \notin {}))
      BY <1>22, <3>1, <3>2 DEF Store, Leaking, Held, BarBlocks, SidBlocks
    <3>4. /\ v \in {} => v \in Held
          /\ v \in Held /\ (v \in left \/ v \in {}) => v \in {}
          /\ pc # "dead" /\ (v \in Leaking => (v \notin Held)')
      BY <1>22, <3>1 DEF Store, Leaking, Held, BarBlocks, SidBlocks
    <3> QED
      BY <2>2, <3>3, <3>4, <1>o, OwnerStep
  <2> QED
    BY <1>22, <2>1, <2>2 DEF Store
<1>23. CASE LostCode
  BY <1>23 DEF LostCode, Goto
<1>24. CASE UNCHANGED vars
  BY <1>24, <1>o DEF vars, Owns, Leaking, Held, BarBlocks, SidBlocks
<1> QED
  BY <1>1, <1>2, <1>3, <1>4, <1>5, <1>6, <1>7, <1>8, <1>9, <1>10, <1>11,
     <1>12, <1>13, <1>14, <1>15, <1>16, <1>17, <1>18, <1>19, <1>20, <1>21,
     <1>22, <1>23, <1>24 DEF Next

(* When the retry on the original picture is due there is a barcode.       *)
LEMMA CheckStep ==
  ASSUME TypeOK, HeapInv, [Next]_vars, pc' = "check", at'["bar"] = 0
  PROVE  try' = "original"
<1>b. "bar" \in Pointers
  BY DEF Pointers
<1>1. CASE NotFound
  BY <1>1 DEF NotFound, Goto, Stay
<1>2. CASE Decoded \/ NotDecoded
  <2>1. at["bar"] # 0
    BY <1>2, <1>b DEF Decoded, NotDecoded, HeapInv, Owns, Held
  <2>2. at'["bar"] = at["bar"]
    BY <1>2, <1>b DEF Decoded, NotDecoded, Heap
  <2> QED
    BY <2>1, <2>2
<1>3. CASE UNCHANGED vars
  BY <1>3 DEF vars, HeapInv, Set
<1> QED
  BY <1>1, <1>2, <1>3
  DEF Next, Load, LoadFails, Repair, Found, Thicken, Turn, NoBarcode,
      TryOriginal, HasCode, LostCode, NeverDecoded, Quarantine, FirstPage,
      OtherPage, ReadSid, ReadSidAgain, ReadAnswers, WriteResult, Store,
      Destroy, NextPage, Goto

(* Once a page has a code it keeps its text until it is destroyed.         *)
LEMMA TextStep ==
  ASSUME HeapInv, [Next]_vars,
         pc' \in {"page", "sid", "sidAgain", "answers", "write", "store", "destroy"}
  PROVE  at'["barText"] # 0
<1>1. \A freed, new, null :
        Heap(freed, new, null) /\ "barText" \notin new \cup null =>
          at'["barText"] = at["barText"]
  BY DEF Heap, Pointers
<1>2. at["barText"] # 0
  BY DEF HeapInv, Set, Next, vars, Load, LoadFails, Repair, NotFound, Found,
     Decoded, NotDecoded, Thicken, Turn, NoBarcode, TryOriginal, HasCode,
     LostCode, NeverDecoded, Quarantine, FirstPage, OtherPage, ReadSid,
     ReadSidAgain, ReadAnswers, WriteResult, Store, Destroy, NextPage, At, Goto
<1>3. \/ UNCHANGED heapVars
      \/ \E freed, new, null :
           Heap(freed, new, null) /\ "barText" \notin new \cup null
  <2>1. CASE HasCode
    BY <2>1 DEF HasCode
  <2>2. CASE FirstPage
    BY <2>2 DEF FirstPage
  <2>3. CASE OtherPage
    BY <2>3 DEF OtherPage
  <2>4. CASE ReadSid
    BY <2>4 DEF ReadSid
  <2>5. CASE ReadSidAgain
    BY <2>5 DEF ReadSidAgain
  <2>6. CASE ReadAnswers
    BY <2>6 DEF ReadAnswers
  <2>7. CASE WriteResult
    BY <2>7 DEF WriteResult
  <2>8. CASE Store
    <3>1. \A left \in LeftBehind : "barText" \notin left \cup {}
      BY DEF LeftBehind
    <3> QED
      BY <2>8, <3>1 DEF Store
  <2>9. CASE UNCHANGED vars
    BY <2>9 DEF vars, heapVars
  <2> QED
    BY <2>1, <2>2, <2>3, <2>4, <2>5, <2>6, <2>7, <2>8, <2>9
    DEF Next, Load, LoadFails, Repair, NotFound, Found, Decoded, NotDecoded,
        Thicken, Turn, NoBarcode, TryOriginal, LostCode, NeverDecoded,
        Quarantine, Destroy, NextPage, Goto
<1> QED
  BY <1>1, <1>2, <1>3 DEF heapVars

LEMMA HeapStep == TypeOK /\ HeapInv /\ [Next]_vars => HeapInv'
  BY OwnsStep, CheckStep, TextStep DEF HeapInv, Set

-----------------------------------------------------------------------------
(* What has been decoded is upright, and turning takes both pictures.      *)
LEMMA TurnStep == TypeOK /\ HeapInv /\ TurnInv /\ [Next]_vars => TurnInv'
<1> SUFFICES ASSUME TypeOK, HeapInv, TurnInv, [Next]_vars PROVE TurnInv'
  OBVIOUS
<1> DEFINE Reading == {"page", "sid", "sidAgain", "answers", "write"}
<1>1. turned \in {{}, {"pixs", "pixd"}}
  BY DEF TurnInv
<1>2. pc \in Reading => (upright # ("pixd" \in turned))
  BY DEF TurnInv, ReadUpright, Upright
<1>3. turned' \in {{}, {"pixs", "pixd"}}
  BY <1>1
  DEF Next, vars, Load, LoadFails, Repair, NotFound, Found, Decoded, NotDecoded,
      Thicken, Turn, NoBarcode, TryOriginal, HasCode, LostCode, NeverDecoded,
      Quarantine, FirstPage, OtherPage, ReadSid, ReadSidAgain, ReadAnswers,
      WriteResult, Store, Destroy, NextPage, Stay
<1>4. ASSUME pc' = "check", at'["bar"] # 0, at'["barText"] # 0
      PROVE  Upright(Picture)'
  <2>1. CASE Decoded
    BY <2>1 DEF Decoded, Stay, Upright, Picture
  <2>2. CASE NotDecoded
    <3>1. at'["barText"] = 0
      BY <2>2 DEF NotDecoded, Heap, Pointers
    <3> QED
      BY <1>4, <3>1
  <2>3. CASE NotFound
    <3>1. at'["bar"] = 0
      BY <2>3 DEF NotFound, Heap, Pointers
    <3> QED
      BY <1>4, <3>1
  <2>4. CASE UNCHANGED vars
    BY <2>4, <1>4 DEF vars, TurnInv, Set, Upright, Picture
  <2> QED
    BY <1>4, <2>1, <2>2, <2>3, <2>4
    DEF Next, Load, LoadFails, Repair, Found, Thicken, Turn, NoBarcode,
        TryOriginal, HasCode, LostCode, NeverDecoded, Quarantine, FirstPage,
        OtherPage, ReadSid, ReadSidAgain, ReadAnswers, WriteResult, Store,
        Destroy, NextPage, Goto
<1>5. ASSUME pc' \in Reading PROVE Upright("pixd")'
  <2>1. CASE HasCode
    <3>1. Upright(Picture)
      BY <2>1 DEF HasCode, At, TurnInv
    <3>2. upright # ("pixd" \in turned)
      BY <1>1, <3>1 DEF Upright, Picture
    <3> QED
      BY <2>1, <3>2 DEF HasCode, Stay, Upright
  <2>2. CASE UNCHANGED <<upright, turned>> /\ pc \in Reading
    BY <2>2, <1>2 DEF Upright
  <2> QED
    BY <1>5, <2>1, <2>2
    DEF Next, vars, Load, LoadFails, Repair, NotFound, Found, Decoded,
        NotDecoded, Thicken, Turn, NoBarcode, TryOriginal, LostCode,
        NeverDecoded, Quarantine, FirstPage, OtherPage, ReadSid, ReadSidAgain,
        ReadAnswers, WriteResult, Store, Destroy, NextPage, Stay, At, Goto
<1> QED
  BY <1>3, <1>4, <1>5 DEF TurnInv, ReadUpright, Set

-----------------------------------------------------------------------------
(* The invariant that the theorems below follow from: the heap is what the *)
(* pointers of process_scans own, and what was decoded is upright.         *)
THEOREM ReaderInvariance == Spec => []ReaderInv
<1>1. ReaderInv /\ [Next]_vars => ReaderInv'
  BY TypeReader, HeapStep, TurnStep DEF ReaderInv
<1> QED
  BY InitReader, <1>1, PTL DEF Spec

(* A step of process_scans that follows or frees a pointer finds its block *)
(* there, on whichever path through getCode, getSID and the quarantine;    *)
(* NULL are only the text of a code, the picture of a student number and   *)
(* its copy, where the code asks, and barkoda after the third getCode,     *)
(* where it does not.                                                      *)
THEOREM NothingDangles == Spec => []NoDangling
<1>1. ReaderInv => NoDangling
  <2> SUFFICES ASSUME ReaderInv, NEW v \in Follows
               PROVE  IF Set(v) THEN at[v] \in live[v] ELSE v \in MayBeNull
    BY DEF NoDangling
  <2>1. pc # "dead"
    BY DEF Follows
  <2>2. v \in Pointers
    BY DEF Follows, Picture, Pointers
  <2>3. pc = "check" /\ ~Set("bar") => try = "original"
    BY DEF ReaderInv, HeapInv
  <2>4. pc \in {"page", "sid", "sidAgain", "answers", "write", "store", "destroy"} =>
          Set("barText")
    BY DEF ReaderInv, HeapInv
  <2>5. v \in Held \/ (~Set(v) /\ v \in MayBeNull)
    BY <2>3, <2>4
    DEF Follows, Held, BarBlocks, SidBlocks, Picture, MayBeNull
  <2>6. v \in Held => Set(v) /\ at[v] \in live[v]
    BY <2>1, <2>2 DEF ReaderInv, HeapInv, Owns, Set
  <2> QED
    BY <2>5, <2>6
<1> QED
  BY <1>1, ReaderInvariance, PTL

(* Digits and answers are read from a picture that is the right way up.    *)
THEOREM NothingReadUpsideDown == Spec => []ReadUpright
<1>1. ReaderInv => ReadUpright
  BY DEF ReaderInv, TurnInv
<1> QED
  BY <1>1, ReaderInvariance, PTL

(* What may be lost is lost in no other way: black and white scans make no *)
(* normalised picture, a recogniser that rejects nothing reads no number   *)
(* twice, and an insertion that succeeds leaves nothing behind.            *)
NoLeak ==
  /\ Depths \subseteq {1} => live["pixt"] = {}
  /\ ~CanReject => live["sidOld"] = {} /\ pc # "sidAgain"
  /\ ~DbFails => \A v \in {"query", "firstSer", "fd"} : live[v] = {}

LEMMA LeakStep ==
  ASSUME TypeOK, NoLeak, [Next]_vars
  PROVE  NoLeak'
<1>p. {"pixt", "sidOld", "query", "firstSer", "fd"} \subseteq Pointers
  BY DEF Pointers
<1>1. \A freed, new, null : \A v \in {"pixt", "sidOld", "query", "firstSer", "fd"} :
        Heap(freed, new, null) /\ v \notin new /\ live[v] = {} => live'[v] = {}
  BY <1>p DEF Heap
<1>2. UNCHANGED heapVars => live' = live
  BY DEF heapVars
<1>3. ASSUME Depths \subseteq {1} PROVE live'["pixt"] = {}
  <2>1. live["pixt"] = {}
    BY <1>3 DEF NoLeak
  <2>2. CASE Load
    <3>1. \A depth \in Depths : ~(depth > 1)
      BY <1>3
    <3>2. Heap({}, {"pixs"}, {})
      BY <2>2, <3>1 DEF Load
    <3> QED
      BY <1>1, <2>1, <3>2
  <2>3. CASE ~Load
    <3>1. \/ UNCHANGED heapVars
          \/ \E freed, new, null : Heap(freed, new, null) /\ "pixt" \notin new
      BY <2>3
      DEF Next, vars, heapVars, LoadFails, Repair, NotFound, Found, Decoded,
          NotDecoded, Thicken, Turn, NoBarcode, TryOriginal, HasCode, LostCode,
          NeverDecoded, Quarantine, FirstPage, OtherPage, ReadSid, ReadSidAgain,
          ReadAnswers, WriteResult, Store, LeftBehind, Destroy, At
    <3> QED
      BY <1>1, <1>2, <2>1, <3>1
  <2> QED
    BY <2>2, <2>3
<1>4. ASSUME ~CanReject PROVE live'["sidOld"] = {} /\ pc' # "sidAgain"
  <2>1. live["sidOld"] = {} /\ pc # "sidAgain"
    BY <1>4 DEF NoLeak
  <2>2. pc' # "sidAgain"
    BY <1>4, <2>1
    DEF Next, vars, Load, LoadFails, Repair, NotFound, Found, Decoded,
        NotDecoded, Thicken, Turn, NoBarcode, TryOriginal, HasCode, LostCode,
        NeverDecoded, Quarantine, FirstPage, OtherPage, ReadSid, ReadSidAgain,
        ReadAnswers, WriteResult, Store, Destroy, NextPage, Goto
  <2>3. \/ UNCHANGED heapVars
        \/ \E freed, new, null : Heap(freed, new, null) /\ "sidOld" \notin new
    BY <1>4, <2>1
    DEF Next, vars, heapVars, Load, LoadFails, Repair, NotFound, Found, Decoded,
        NotDecoded, Thicken, Turn, NoBarcode, TryOriginal, HasCode, LostCode,
        NeverDecoded, Quarantine, FirstPage, OtherPage, ReadSid, ReadSidAgain,
        ReadAnswers, WriteResult, Store, LeftBehind, Destroy, At
  <2> QED
    BY <1>1, <1>2, <2>1, <2>2, <2>3
<1>5. ASSUME ~DbFails, NEW v \in {"query", "firstSer", "fd"}
      PROVE  live'[v] = {}
  <2>1. live[v] = {}
    BY <1>5 DEF NoLeak
  <2>2. CASE Store
    BY <1>5, <1>2, <2>1, <2>2 DEF Store
  <2>3. CASE ~Store
    <3>1. \/ UNCHANGED heapVars
          \/ \E freed, new, null : Heap(freed, new, null) /\ v \notin new
      BY <2>3
      DEF Next, vars, heapVars, Load, LoadFails, Repair, NotFound, Found,
          Decoded, NotDecoded, Thicken, Turn, NoBarcode, TryOriginal, HasCode,
          LostCode, NeverDecoded, Quarantine, FirstPage, OtherPage, ReadSid,
          ReadSidAgain, ReadAnswers, WriteResult, Destroy, At
    <3> QED
      BY <1>1, <1>2, <2>1, <3>1
  <2> QED
    BY <2>2, <2>3
<1> QED
  BY <1>3, <1>4, <1>5 DEF NoLeak

(* Whatever path the pages take and however many there are, memory grows   *)
(* by nothing but what Lost names: with black and white scans, the         *)
(* recogniser that is compiled in and no insertion that fails, by nothing  *)
(* at all.                                                                 *)
THEOREM NothingLost == Spec => []PageClean
<1>1. Init => NoLeak
  BY DEF Init, NoLeak, Pointers
<1>2. TypeOK /\ NoLeak /\ [Next]_vars => NoLeak'
  BY LeakStep
<1>3. ReaderInv /\ NoLeak => PageClean
  <2> SUFFICES ASSUME ReaderInv, NoLeak, pc \in {"load", "end"},
                      NEW v \in Pointers \ Lost
               PROVE  live[v] = {}
    BY DEF PageClean
  <2>1. CASE v \in Leaking
    BY <2>1 DEF Leaking, NoLeak, Lost
  <2>2. CASE v \notin Leaking
    BY <2>2 DEF ReaderInv, HeapInv, Owns, Held
  <2> QED
    BY <2>1, <2>2
<1>4. ReaderInv => TypeOK
  BY DEF ReaderInv
<1> QED
  BY <1>1, <1>2, <1>3, <1>4, ReaderInvariance, PTL DEF Spec
=============================================================================
