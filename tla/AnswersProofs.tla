---------------------------- MODULE AnswersProofs ----------------------------
(***************************************************************************)
(* Proofs that sortmark puts the marks of both sides in order and keeps    *)
(* them all, whatever marks are found, many or few, at different places or *)
(* at the same one; and that the answer string then names the squares that *)
(* are black, in the order of reading.                                     *)
(***************************************************************************)
EXTENDS Answers, DataLemmas, TLAPS

(* Exchanging two neighbours of a rearranged list rearranges it again.     *)
LEMMA ExchangeRearranges ==
  ASSUME NEW a \in Seq(Mark), NEW b \in Seq(Mark), Rearranged(a, b),
         NEW k \in 1..Len(a), k + 1 \in 1..Len(a)
  PROVE  /\ Exchange(a, k) \in Seq(Mark)
         /\ Len(Exchange(a, k)) = Len(a)
         /\ Rearranged(Exchange(a, k), b)
<1> DEFINE n == Len(b)
           c == Exchange(a, k)
<1>1. n \in Nat /\ Len(a) = n
  BY DEF Rearranged
<1>2. c \in Seq(Mark) /\ Len(c) = n
  BY <1>1 DEF Exchange
<1>3. PICK p \in Permutations(n) : \A m \in 1..n : a[m] = b[p[m]]
  BY DEF Rearranged
<1> DEFINE q == [p EXCEPT ![k] = p[k + 1], ![k + 1] = p[k]]
<1>4. q \in Permutations(n)
  BY <1>1, <1>3 DEF Permutations
<1>5. \A m \in 1..n : c[m] = b[q[m]]
  <2> SUFFICES ASSUME NEW m \in 1..n PROVE c[m] = b[q[m]]
    OBVIOUS
  <2>0. p \in [1..n -> 1..n]
    BY <1>3 DEF Permutations
  <2>1. CASE m = k
    BY <1>1, <1>3, <2>0, <2>1 DEF Exchange
  <2>2. CASE m = k + 1
    BY <1>1, <1>3, <2>0, <2>2 DEF Exchange
  <2>3. CASE m # k /\ m # k + 1
    BY <1>1, <1>3, <2>0, <2>3 DEF Exchange
  <2> QED BY <2>1, <2>2, <2>3
<1> QED BY <1>1, <1>2, <1>4, <1>5 DEF Rearranged

LEMMA KeyIsNat ==
  ASSUME NEW t \in Sides, NEW m \in Mark
  PROVE  Key(t, m) \in Nat
BY DEF Key, Mark

LEMMA InitSort == InitAnswers => SortInv
<1> SUFFICES ASSUME InitAnswers PROVE SortInv
  OBVIOUS
<1>1. found \in [Sides -> Seq(Mark)] /\ marks = found /\ phase = "up" /\ i = 0 /\ j = 0 /\ s = 0
  BY MarkAssumption DEF InitAnswers, Sides
<1>2. AnswersTyped
  BY <1>1 DEF AnswersTyped, Sides
<1>3. MarksInOrder
  BY <1>1 DEF MarksInOrder, SortedSides, Sides
<1>4. ASSUME NEW t \in Sides PROVE Rearranged(marks[t], found[t])
  <2> DEFINE n == Len(found[t])
             p == [k \in 1..n |-> k]
  <2>1. n \in Nat /\ p \in Permutations(n)
    BY <1>1 DEF Permutations
  <2>2. \A k \in 1..n : marks[t][k] = found[t][p[k]]
    BY <1>1
  <2> QED BY <1>1, <2>1, <2>2 DEF Rearranged
<1>5. ASSUME NEW t \in Sides, phase = t PROVE PassInv(t)
  <2>1. marks[t] \in Seq(Mark) /\ Number(t) \in Nat
    BY <1>1 DEF Number
  <2> QED BY <1>1, <2>1, KeyIsNat DEF PassInv, Number
<1> QED BY <1>2, <1>3, <1>4, <1>5 DEF SortInv, MarksKept

(* One comparison, in its two cases: what happens to the keys.             *)
LEMMA ComparedKeys ==
  ASSUME SortInv, NEW t \in Sides, Compare(t)
  PROVE  /\ Number(t) \in Nat /\ marks'[t] \in Seq(Mark) /\ Number(t)' = Number(t)
         /\ \A u \in Sides : u # t => marks'[u] = marks[u]
         /\ marks' \in [Sides -> Seq(Mark)]
         /\ Rearranged(marks'[t], found[t])
         /\ \A m \in 1..Number(t) : m # i + 1 /\ m # i + 2 => marks'[t][m] = marks[t][m]
         /\ \/ /\ Key(t, marks[t][i + 1]) > Key(t, marks[t][i + 2]) /\ s' = 1
               /\ marks'[t][i + 1] = marks[t][i + 2] /\ marks'[t][i + 2] = marks[t][i + 1]
            \/ /\ Key(t, marks[t][i + 1]) <= Key(t, marks[t][i + 2]) /\ s' = s
               /\ marks'[t][i + 1] = marks[t][i + 1] /\ marks'[t][i + 2] = marks[t][i + 2]
<1> DEFINE n == Number(t)
<1>1. /\ marks \in [Sides -> Seq(Mark)] /\ found \in [Sides -> Seq(Mark)] /\ i \in Nat
      /\ Rearranged(marks[t], found[t])
  BY DEF SortInv, AnswersTyped, MarksKept
<1>2. n \in Nat /\ n = Len(marks[t]) /\ i + 1 \in 1..n /\ i + 2 \in 1..n
  BY <1>1 DEF Compare, MorePairs, Number
<1>3. marks[t][i + 1] \in Mark /\ marks[t][i + 2] \in Mark
  BY <1>1, <1>2
<1>4. Key(t, marks[t][i + 1]) \in Nat /\ Key(t, marks[t][i + 2]) \in Nat
  BY <1>3, KeyIsNat
<1>5. CASE Key(t, marks[t][i + 1]) > Key(t, marks[t][i + 2])
  <2>1. marks' = [marks EXCEPT ![t] = Exchange(marks[t], i + 1)] /\ s' = 1
    BY <1>5 DEF Compare
  <2>2. /\ Exchange(marks[t], i + 1) \in Seq(Mark)
        /\ Len(Exchange(marks[t], i + 1)) = Len(marks[t])
        /\ Rearranged(Exchange(marks[t], i + 1), found[t])
    BY <1>1, <1>2, ExchangeRearranges
  <2>3. marks'[t] = Exchange(marks[t], i + 1)
    BY <1>1, <2>1
  <2>4. /\ marks'[t][i + 1] = marks[t][i + 2] /\ marks'[t][i + 2] = marks[t][i + 1]
        /\ \A m \in 1..n : m # i + 1 /\ m # i + 2 => marks'[t][m] = marks[t][m]
    BY <1>1, <1>2, <2>3 DEF Exchange
  <2> QED BY <1>1, <1>2, <1>5, <2>1, <2>2, <2>3, <2>4 DEF Number
<1>6. CASE ~(Key(t, marks[t][i + 1]) > Key(t, marks[t][i + 2]))
  <2>1. marks' = marks /\ s' = s
    BY <1>6 DEF Compare
  <2> QED BY <1>1, <1>2, <1>4, <1>6, <2>1 DEF Number
<1> QED BY <1>5, <1>6

(* The greatest key of what a pass has met moves on with it, and the marks *)
(* that are in their places stay there.                                    *)
LEMMA ComparePass ==
  ASSUME SortInv, NEW t \in Sides, Compare(t)
  PROVE  PassInv(t)'
<1> DEFINE n == Number(t)
           K(m) == Key(t, marks[t][m])
           L(m) == Key(t, marks'[t][m])
<1>1. /\ n \in Nat /\ i \in Nat /\ j \in Nat /\ s \in {0, 1} /\ i + 1 < n /\ j < n
      /\ i' = i + 1 /\ j' = j /\ Number(t)' = n /\ marks \in [Sides -> Seq(Mark)]
  BY ComparedKeys DEF SortInv, AnswersTyped, Compare, MorePairs
<1>2. \A m \in 1..n : K(m) \in Nat /\ L(m) \in Nat
  <2>1. \A m \in 1..n : marks[t][m] \in Mark /\ marks'[t][m] \in Mark
    BY <1>1, ComparedKeys DEF Number
  <2> QED BY <2>1, KeyIsNat
<1>3. PassInv(t)
  BY DEF SortInv, Compare
<1>4. \A m \in 1..n : m # i + 1 /\ m # i + 2 => L(m) = K(m)
  BY ComparedKeys
<1>5. \/ K(i + 1) > K(i + 2) /\ s' = 1 /\ L(i + 1) = K(i + 2) /\ L(i + 2) = K(i + 1)
      \/ K(i + 1) <= K(i + 2) /\ s' = s /\ L(i + 1) = K(i + 1) /\ L(i + 2) = K(i + 2)
  BY ComparedKeys
<1>6. /\ \A k \in (n - j + 1)..n : \A m \in 1..k : K(m) <= K(k)
      /\ i + 1 <= n - j => \A m \in 1..(i + 1) : K(m) <= K(i + 1)
      /\ i + 1 > n - j => \A m \in 1..(n - j) : K(m) <= K(n - j)
      /\ s = 0 /\ i < n => \A k \in 1..(i + 1) : \A m \in 1..k : K(m) <= K(k)
  BY <1>3 DEF PassInv
<1> HIDE DEF n, K, L
<1>7. \A k \in (n - j + 1)..n : \A m \in 1..k : L(m) <= L(k)
  <2>1. CASE i + 2 > n - j
    <3>1. K(i + 1) <= K(i + 2)
      BY <1>1, <1>6, <2>1
    <3>2. \A m \in 1..n : L(m) = K(m)
      BY <1>1, <1>2, <1>4, <1>5, <3>1
    <3> QED BY <1>1, <1>6, <3>2
  <2>2. CASE i + 2 <= n - j
    <3> SUFFICES ASSUME NEW k \in (n - j + 1)..n, NEW m \in 1..k PROVE L(m) <= L(k)
      OBVIOUS
    <3>1. L(k) = K(k) /\ k \in 1..n /\ m \in 1..n /\ i + 1 \in 1..k /\ i + 2 \in 1..k
      BY <1>1, <1>4, <2>2
    <3>2. K(m) <= K(k) /\ K(i + 1) <= K(k) /\ K(i + 2) <= K(k)
      BY <1>6, <3>1
    <3>3. L(m) = K(m) \/ L(m) = K(i + 1) \/ L(m) = K(i + 2)
      BY <1>4, <1>5, <3>1
    <3> QED BY <3>1, <3>2, <3>3
  <2> QED BY <1>1, <2>1, <2>2
<1>8. i + 2 <= n - j => \A m \in 1..(i + 2) : L(m) <= L(i + 2)
  BY <1>1, <1>2, <1>4, <1>5, <1>6
<1>9. i + 2 > n - j => \A m \in 1..(n - j) : L(m) <= L(n - j)
  <2> SUFFICES ASSUME i + 2 > n - j PROVE \A m \in 1..(n - j) : L(m) <= L(n - j)
    OBVIOUS
  <2>1. K(i + 1) <= K(i + 2)
    BY <1>1, <1>6
  <2>2. \A m \in 1..n : L(m) = K(m)
    BY <1>1, <1>2, <1>4, <1>5, <2>1
  <2>3. \A m \in 1..(n - j) : K(m) <= K(n - j)
    <3>1. CASE i + 1 = n - j
      BY <1>1, <1>6, <3>1
    <3>2. CASE i + 1 # n - j
      BY <1>1, <1>6, <3>2
    <3> QED BY <3>1, <3>2
  <2> QED BY <1>1, <2>2, <2>3
<1>10. s' = 0 => \A k \in 1..(i + 2) : \A m \in 1..k : L(m) <= L(k)
  <2> SUFFICES ASSUME s' = 0, NEW k \in 1..(i + 2), NEW m \in 1..k PROVE L(m) <= L(k)
    OBVIOUS
  <2>1. K(i + 1) <= K(i + 2) /\ s = 0
    BY <1>5
  <2>2. \A q \in 1..n : L(q) = K(q)
    BY <1>1, <1>2, <1>4, <1>5, <2>1
  <2>3. k \in 1..n /\ m \in 1..n /\ i + 1 \in 1..n /\ i + 2 \in 1..n
    BY <1>1
  <2>4. CASE k = i + 2
    <3>1. m = i + 2 \/ K(m) <= K(i + 1)
      BY <1>1, <1>6, <2>1, <2>4
    <3> QED BY <1>2, <2>1, <2>2, <2>3, <2>4, <3>1
  <2>5. CASE k # i + 2
    <3>1. k \in 1..(i + 1)
      BY <1>1, <2>5
    <3> QED BY <1>1, <1>6, <2>1, <2>2, <2>3, <3>1
  <2> QED BY <2>4, <2>5
<1> QED BY <1>1, <1>7, <1>8, <1>9, <1>10 DEF PassInv, n, L

LEMMA CompareStep ==
  ASSUME SortInv, NEW t \in Sides, Compare(t)
  PROVE  SortInv'
<1>1. AnswersTyped'
  BY ComparedKeys DEF SortInv, AnswersTyped, Compare
<1>2. MarksInOrder'
  <2>1. SortedSides' = SortedSides /\ t \notin SortedSides
    BY DEF SortedSides, Sides, Compare
  <2>2. \A u \in SortedSides : marks'[u] = marks[u] /\ InOrder(u)
    BY <2>1, ComparedKeys DEF SortInv, MarksInOrder, SortedSides
  <2> QED BY <2>1, <2>2 DEF MarksInOrder, InOrder, Number
<1>3. MarksKept'
  BY ComparedKeys DEF SortInv, MarksKept, Compare
<1>4. ASSUME NEW u \in Sides, (phase = u)' PROVE PassInv(u)'
  BY <1>4, ComparePass DEF Compare
<1> QED BY <1>1, <1>2, <1>3, <1>4 DEF SortInv

(* The greatest key of a pass over n - j marks has come to place n - j.    *)
LEMMA NextPassStep ==
  ASSUME SortInv, NEW t \in Sides, NextPass(t)
  PROVE  SortInv'
<1> DEFINE n == Number(t)
           K(m) == Key(t, marks[t][m])
<1>1. /\ n \in Nat /\ i \in Nat /\ j \in Nat /\ i + 1 >= n /\ j < n
      /\ i' = 0 /\ j' = j + 1 /\ s' = 0 /\ UNCHANGED <<phase, found, marks>>
  BY DEF SortInv, AnswersTyped, NextPass, MorePairs, Number
<1>2. \A m \in 1..n : K(m) \in Nat
  <2>1. \A m \in 1..n : marks[t][m] \in Mark
    BY <1>1 DEF SortInv, AnswersTyped, Number
  <2> QED BY <2>1, KeyIsNat
<1>3. PassInv(t)
  BY DEF SortInv, NextPass
<1>4. /\ i < n \/ i = 0
      /\ \A k \in (n - j + 1)..n : \A m \in 1..k : K(m) <= K(k)
      /\ i + 1 <= n - j => \A m \in 1..(i + 1) : K(m) <= K(i + 1)
      /\ i + 1 > n - j => \A m \in 1..(n - j) : K(m) <= K(n - j)
  BY <1>3 DEF PassInv
<1> HIDE DEF n, K
<1>5. i + 1 = n
  BY <1>1, <1>4
<1>6. \A m \in 1..(n - j) : K(m) <= K(n - j)
  <2>1. CASE j = 0
    BY <1>1, <1>4, <1>5, <2>1
  <2>2. CASE j # 0
    BY <1>1, <1>4, <1>5, <2>2
  <2> QED BY <2>1, <2>2
<1>7. \A k \in (n - (j + 1) + 1)..n : \A m \in 1..k : K(m) <= K(k)
  <2> SUFFICES ASSUME NEW k \in (n - (j + 1) + 1)..n, NEW m \in 1..k PROVE K(m) <= K(k)
    OBVIOUS
  <2>1. CASE k = n - j
    BY <1>6, <2>1
  <2>2. CASE k # n - j
    BY <1>1, <1>4, <2>2
  <2> QED BY <2>1, <2>2
<1>8. K(1) <= K(1)
  BY <1>1, <1>2
<1>9. PassInv(t)'
  BY <1>1, <1>7, <1>8 DEF PassInv, Number, n, K
<1>10. AnswersTyped' /\ MarksKept' /\ MarksInOrder'
  BY <1>1 DEF SortInv, AnswersTyped, MarksKept, MarksInOrder, SortedSides, InOrder, Number
<1>11. phase' = t
  BY DEF NextPass
<1> QED BY <1>9, <1>10, <1>11 DEF SortInv

(* After a pass that has moved nothing, as after n passes, all is sorted.  *)
LEMMA SortedStep ==
  ASSUME SortInv, NEW t \in Sides, Sorted(t)
  PROVE  SortInv'
<1> DEFINE n == Number(t)
           K(m) == Key(t, marks[t][m])
<1>1. /\ n \in Nat /\ i \in Nat /\ j \in Nat /\ phase = t
      /\ i' = 0 /\ j' = 0 /\ s' = 0 /\ UNCHANGED <<found, marks>>
  BY DEF SortInv, AnswersTyped, Sorted, MorePairs, Number
<1>2. PassInv(t) /\ (j >= n \/ (i + 1 >= n /\ s = 0))
  BY <1>1 DEF SortInv, Sorted, MorePairs
<1>3. /\ j <= n /\ (i < n \/ i = 0)
      /\ \A k \in (n - j + 1)..n : \A m \in 1..k : K(m) <= K(k)
      /\ s = 0 /\ i < n => \A k \in 1..(i + 1) : \A m \in 1..k : K(m) <= K(k)
  BY <1>2 DEF PassInv
<1> HIDE DEF n, K
<1>4. \A k \in 1..n : \A m \in 1..k : K(m) <= K(k)
  <2>1. CASE j >= n
    BY <1>1, <1>3, <2>1
  <2>2. CASE i + 1 >= n /\ s = 0
    BY <1>1, <1>3, <2>2
  <2> QED BY <1>2, <2>1, <2>2
<1>5. InOrder(t)
  <2>1. \A k, l \in 1..n : k < l => K(k) <= K(l)
    BY <1>1, <1>4
  <2> QED BY <2>1 DEF InOrder, n, K, Key, Sides
<1>6. \A u \in SortedSides' : u \in SortedSides \/ u = t
  BY <1>1 DEF Sorted, SortedSides, Sides
<1>7. MarksInOrder'
  BY <1>1, <1>5, <1>6 DEF SortInv, MarksInOrder, InOrder, Number, SortedSides
<1>8. AnswersTyped' /\ MarksKept'
  BY <1>1 DEF SortInv, AnswersTyped, MarksKept, Sorted, Sides
<1>9. ASSUME NEW u \in Sides, (phase = u)' PROVE PassInv(u)'
  <2>1. marks[u] \in Seq(Mark) /\ Number(u) \in Nat
    BY DEF SortInv, AnswersTyped, Number
  <2>2. Number(u) >= 1 => Key(u, marks[u][1]) \in Nat
    BY <2>1, KeyIsNat DEF Number
  <2> QED BY <1>1, <2>1, <2>2 DEF PassInv, Number
<1> QED BY <1>7, <1>8, <1>9 DEF SortInv

(* The invariant of sortmark, which its two properties follow from: what   *)
(* the loops have put in place by the comparison they are at, for lists of *)
(* any length (ans_process.c:257-277).                                     *)
THEOREM SortInvariant == SpecAnswers => []SortInv
<1>1. ASSUME SortInv, [NextAnswers]_answerVars PROVE SortInv'
  <2>1. CASE \E t \in Sides : Compare(t) \/ NextPass(t) \/ Sorted(t)
    BY <1>1, <2>1, CompareStep, NextPassStep, SortedStep
  <2>2. CASE FindAnswer \/ GenerateObsoleteString \/ Overrun
    <3>1. phase' \notin Sides /\ phase \notin Sides /\ UNCHANGED <<found, marks, loop>>
          /\ phase' \in {"string", "done", "overrun"}
      BY <2>2 DEF FindAnswer, GenerateObsoleteString, Overrun, Sides
    <3> QED BY <1>1, <3>1 DEF SortInv, AnswersTyped, MarksInOrder, MarksKept, SortedSides, InOrder,
                              Number, loop
  <2>3. CASE UNCHANGED answerVars
    BY <1>1, <2>3 DEF answerVars, loop, SortInv, AnswersTyped, MarksInOrder, MarksKept, SortedSides,
                      InOrder, PassInv, Number
  <2> QED BY <1>1, <2>1, <2>2, <2>3 DEF NextAnswers
<1> QED BY InitSort, <1>1, PTL DEF SpecAnswers

(* The columns are looked at from left to right and the rows from above,   *)
(* however the marks were found: the early end of sortmark is no mistake.  *)
THEOREM SortmarkSorts == SpecAnswers => []MarksInOrder
BY SortInvariant, PTL DEF SortInv

(* sortmark loses no mark and doubles none, so the table has a row and a   *)
(* column for each mark that was found.                                    *)
THEOREM SortmarkKeepsMarks == SpecAnswers => []MarksKept
BY SortInvariant, PTL DEF SortInv

-----------------------------------------------------------------------------
(* The answer string.                                                      *)

(* Squares are named row by row, and in a row from left to right.          *)
LEMMA NamedInOrder ==
  ASSUME Columns \in Nat \ {0}, NEW m \in Nat, NEW k \in Nat, m < k
  PROVE  Before(Named(m), Named(k))
<1>1. PICK w \in Nat \ {0} : w = Columns
  OBVIOUS
<1>2. PICK p \in Nat, a \in 0..w - 1 : p = m \div w /\ a = m % w /\ m = p * w + a
  BY DivMod
<1>3. PICK q \in Nat, b \in 0..w - 1 : q = k \div w /\ b = k % w /\ k = q * w + b
  BY DivMod
<1>4. CASE q < p
  <2>1. PICK d \in Nat : p = q + d + 1
    <3>1. p - q - 1 \in Nat /\ p = q + (p - q - 1) + 1
      BY <1>4
    <3> QED
      BY <3>1
  <2>2. p * w = q * w + d * w + w /\ d * w >= 0
    BY <2>1
  <2> QED
    BY <1>2, <1>3, <2>2
<1>5. CASE q = p
  <2>1. a < b
    BY <1>2, <1>3, <1>5
  <2> QED
    BY <1>1, <1>2, <1>3, <1>5, <2>1 DEF Before, Named
<1>6. CASE p < q
  BY <1>1, <1>2, <1>3, <1>6 DEF Before, Named
<1> QED
  BY <1>4, <1>5, <1>6

(* What the string names after k squares.                                  *)
Names(string, k) ==
  /\ string \in Seq({Named(m) : m \in Nat})
  /\ \A e \in 1..Len(string) : \E m \in 0..k - 1 : mtx[m] = 1 /\ string[e] = Named(m)
  /\ \A m \in 0..k - 1 : mtx[m] = 1 => \E e \in 1..Len(string) : string[e] = Named(m)
  /\ \A e, f \in 1..Len(string) : e < f => Before(string[e], string[f])

LEMMA OneSquareMore ==
  ASSUME Columns \in Nat \ {0}, NEW k \in Nat, NEW string, Names(string, k)
  PROVE  Names(IF mtx[k] = 1 THEN Append(string, Named(k)) ELSE string, k + 1)
<1>1. CASE mtx[k] # 1
  <2>1. \A m \in 0..k : m = k \/ m \in 0..k - 1
    OBVIOUS
  <2> QED
    BY <1>1, <2>1 DEF Names
<1>2. CASE mtx[k] = 1
  <2> DEFINE longer == Append(string, Named(k))
             n == Len(string)
  <2>1. /\ longer \in Seq({Named(m) : m \in Nat})
        /\ n \in Nat /\ Len(longer) = n + 1 /\ longer[n + 1] = Named(k)
        /\ \A e \in 1..n : longer[e] = string[e]
    <3>1. PICK S : S = {Named(m) : m \in Nat}
      OBVIOUS
    <3>2. string \in Seq(S) /\ Named(k) \in S
      BY <3>1 DEF Names
    <3> QED
      BY <3>1, <3>2, AppendLaws
  <2> HIDE DEF longer
  <2>2. \A e \in 1..n + 1 : e = n + 1 \/ e \in 1..n
    BY <2>1
  <2>3. \A m \in 0..k : m = k \/ m \in 0..k - 1
    OBVIOUS
  <2>4. \A e \in 1..n + 1 : \E m \in 0..k : mtx[m] = 1 /\ longer[e] = Named(m)
    <3>1. ASSUME NEW e \in 1..n PROVE \E m \in 0..k : mtx[m] = 1 /\ longer[e] = Named(m)
      <4>1. PICK m \in 0..k - 1 : mtx[m] = 1 /\ string[e] = Named(m)
        BY DEF Names
      <4> QED
        BY <2>1, <4>1
    <3> QED
      BY <1>2, <2>1, <2>2, <3>1
  <2>5. \A m \in 0..k : mtx[m] = 1 => \E e \in 1..n + 1 : longer[e] = Named(m)
    <3>1. ASSUME NEW m \in 0..k - 1, mtx[m] = 1 PROVE \E e \in 1..n + 1 : longer[e] = Named(m)
      <4>1. PICK e \in 1..n : string[e] = Named(m)
        BY <3>1 DEF Names
      <4> QED
        BY <2>1, <4>1
    <3> QED
      BY <1>2, <2>1, <2>3, <3>1
  <2>6. ASSUME NEW e \in 1..n + 1, NEW f \in 1..n + 1, e < f
        PROVE  Before(longer[e], longer[f])
    <3>1. e \in 1..n /\ longer[e] = string[e]
      BY <2>1, <2>6
    <3>2. CASE f = n + 1
      <4>1. PICK m \in 0..k - 1 : longer[e] = Named(m)
        BY <3>1 DEF Names
      <4> QED
        BY <2>1, <3>2, <4>1, NamedInOrder
    <3>3. CASE f # n + 1
      BY <2>1, <2>2, <2>6, <3>1, <3>3 DEF Names
    <3> QED
      BY <3>2, <3>3
  <2>7. Names(longer, k + 1)
    BY <2>1, <2>4, <2>5, <2>6 DEF Names
  <2> QED
    BY <1>2, <2>7 DEF longer
<1> QED
  BY <1>1, <1>2

LEMMA StringNames ==
  ASSUME Rows * Columns \in Nat, Rows * Columns > 0 => Columns \in Nat \ {0}
  PROVE  Names(ObsoleteString, Rows * Columns)
<1>n. PICK n \in Nat : n = Rows * Columns
  OBVIOUS
<1> DEFINE S == Seq({Named(m) : m \in Nat})
           Is(f) == f = [k \in 0..n |->
                          IF k = 0 THEN << >>
                          ELSE IF mtx[k - 1] = 1 THEN Append(f[k - 1], Named(k - 1))
                          ELSE f[k - 1]]
           grow == [x \in (1..n) \X S |->
                     IF mtx[x[1] - 1] = 1 THEN Append(x[2], Named(x[1] - 1)) ELSE x[2]]
<1>1. /\ << >> \in S
      /\ \A k \in 1..n, x \in S :
           /\ grow[<<k, x>>] = IF mtx[k - 1] = 1 THEN Append(x, Named(k - 1)) ELSE x
           /\ grow[<<k, x>>] \in S
  <2>1. << >> \in S
    BY EmptyLaws
  <2>2. ASSUME NEW k \in 1..n, NEW x \in S
        PROVE  /\ grow[<<k, x>>] = IF mtx[k - 1] = 1 THEN Append(x, Named(k - 1)) ELSE x
               /\ grow[<<k, x>>] \in S
    <3>1. grow[<<k, x>>] = IF mtx[k - 1] = 1 THEN Append(x, Named(k - 1)) ELSE x
      <4> HIDE DEF S
      <4> QED
        OBVIOUS
    <3>2. PICK V : V = {Named(m) : m \in Nat}
      OBVIOUS
    <3>3. x \in Seq(V) /\ Named(k - 1) \in V
      BY <3>2
    <3>4. Append(x, Named(k - 1)) \in S
      BY <3>2, <3>3, AppendLaws
    <3> QED
      BY <3>1, <3>4
  <2> QED
    BY <2>1, <2>2
<1>2. PICK g \in [0..n -> S] : Iterates(g, << >>, grow, n)
  <2>1. PICK U, e : U = S /\ e = << >>
    OBVIOUS
  <2>2. e \in U /\ Steps(grow, n, U)
    BY <1>1, <2>1 DEF Steps
  <2> HIDE DEF grow
  <2>3. \E g \in [0..n -> U] : Iterates(g, e, grow, n)
    BY <2>2, Recursion
  <2> QED
    BY <2>1, <2>3
<1> HIDE DEF grow
<1>3. Is(g)
  <2>1. g = [k \in 0..n |-> g[k]]
    OBVIOUS
  <2>2. ASSUME NEW k \in 0..n
        PROVE  g[k] = IF k = 0 THEN << >>
                      ELSE IF mtx[k - 1] = 1 THEN Append(g[k - 1], Named(k - 1)) ELSE g[k - 1]
    <3>1. CASE k = 0
      BY <1>2, <3>1 DEF Iterates
    <3>2. CASE k # 0
      <4>1. k \in 1..n /\ g[k - 1] \in S
        BY <3>2
      <4>2. g[k] = grow[<<k, g[k - 1]>>]
        BY <1>2, <4>1 DEF Iterates
      <4> QED
        BY <1>1, <3>2, <4>1, <4>2
    <3> QED
      BY <3>1, <3>2
  <2> QED
    BY <2>1, <2>2
<1> DEFINE h == CHOOSE f : Is(f)
<1>4. Is(h)
  <2> HIDE DEF Is
  <2> QED
    BY <1>3
<1>5. ObsoleteString = h[n]
  BY <1>n DEF ObsoleteString
<1> DEFINE T == {k \in Nat : k <= n => Names(h[k], k)}
<1> HIDE DEF h
<1>6. 0 \in T
  <2>1. h[0] = << >>
    BY <1>4
  <2>2. h[0] \in Seq({Named(m) : m \in Nat}) /\ Len(h[0]) = 0
    BY <2>1, EmptyLaws
  <2>3. 1..Len(h[0]) = {} /\ 0..(0 - 1) = {}
    BY <2>2
  <2> QED
    BY <2>2, <2>3 DEF Names
<1>7. ASSUME NEW k \in Nat, k \in T PROVE k + 1 \in T
  <2> SUFFICES ASSUME k + 1 <= n PROVE Names(h[k + 1], k + 1)
    OBVIOUS
  <2>1. h[k + 1] = IF mtx[k] = 1 THEN Append(h[k], Named(k)) ELSE h[k]
    <3>1. k + 1 \in 0..n /\ k + 1 # 0 /\ (k + 1) - 1 = k
      OBVIOUS
    <3> QED
      BY <1>4, <3>1
  <2>2. Columns \in Nat \ {0} /\ Names(h[k], k)
    BY <1>n, <1>7
  <2> QED
    BY <2>1, <2>2, OneSquareMore
<1>8. n \in T
  <2> HIDE DEF T
  <2> QED
    BY <1>6, <1>7, Induction
<1> QED
  BY <1>n, <1>5, <1>8

(* Squares are numbered: a number below rows times columns is a row above  *)
(* and a place in the next one, and the other way round.                   *)
LEMMA SquareNumbers ==
  ASSUME NEW r \in Nat, NEW c \in Nat \ {0}
  PROVE  /\ \A m \in 0..r * c - 1 : m \div c \in 0..r - 1 /\ m % c \in 0..c - 1
         /\ \A q \in 0..r - 1, l \in 0..c - 1 :
              /\ q * c + l \in 0..r * c - 1
              /\ (q * c + l) \div c = q /\ (q * c + l) % c = l
<1>0. r * c \in Nat
  OBVIOUS
<1>1. ASSUME NEW m \in 0..r * c - 1 PROVE m \div c \in 0..r - 1 /\ m % c \in 0..c - 1
  <2>1. PICK q \in Nat, l \in 0..c - 1 : q = m \div c /\ l = m % c /\ m = q * c + l
    BY <1>0, DivMod
  <2>2. m \in Nat /\ m < r * c
    BY <1>0
  <2>3. CASE q >= r
    <3>1. PICK d \in Nat : q = r + d
      <4>1. q - r \in Nat /\ q = r + (q - r)
        BY <2>3
      <4> QED
        BY <4>1
    <3>2. q * c = r * c + d * c /\ d * c >= 0
      BY <3>1
    <3> QED
      BY <1>0, <2>1, <2>2, <3>2
  <2> QED
    BY <2>1, <2>3
<1>2. ASSUME NEW q \in 0..r - 1, NEW l \in 0..c - 1
      PROVE  /\ q * c + l \in 0..r * c - 1
             /\ (q * c + l) \div c = q /\ (q * c + l) % c = l
  <2>1. PICK d \in Nat : r = q + d + 1
    <3>1. r - q - 1 \in Nat /\ r = q + (r - q - 1) + 1
      OBVIOUS
    <3> QED
      BY <3>1
  <2>2. q * c \in Nat /\ d * c \in Nat /\ r * c = q * c + d * c + c
    BY <2>1
  <2> QED
    BY <1>0, <2>2, DivUnique
<1> QED
  BY <1>1, <1>2

(* Numbers have digits, and a smaller one has no more of them.             *)
LEMMA LengthLaws ==
  /\ \A n : Length(n) \in Nat
  /\ \A m, n \in Nat : m <= n => Length(m) <= Length(n)
<1>1. ASSUME NEW n PROVE IsFiniteSet({d \in 0..9 : 10^d <= n}) /\ Length(n) \in Nat
  <2>0. IsFiniteSet(0..9)
    <3>1. 0 \in Int /\ 9 \in Int
      OBVIOUS
    <3> QED
      BY <3>1, FS_Interval
  <2>1. {d \in 0..9 : 10^d <= n} \subseteq 0..9 /\ IsFiniteSet(0..9)
    BY <2>0
  <2>2. IsFiniteSet({d \in 0..9 : 10^d <= n})
    BY <2>1, FS_Subset
  <2> QED
    BY <2>2, FS_CardinalityType DEF Length
<1>2. ASSUME NEW m \in Nat, NEW n \in Nat, m <= n PROVE Length(m) <= Length(n)
  <2>1. \A d \in 0..9 : 10^d \in Int
    OBVIOUS
  <2>2. \A d \in 0..9 : 10^d <= m => 10^d <= n
    BY <1>2, <2>1
  <2>3. {d \in 0..9 : 10^d <= m} \subseteq {d \in 0..9 : 10^d <= n}
    BY <2>2
  <2> QED
    BY <1>1, <2>3, FS_Subset DEF Length
<1> QED
  BY <1>1, <1>2

(* The string is no longer than it would be for a table that is all black. *)
LEMMA BytesBounded ==
  ASSUME Rows \in Nat, Columns \in Nat
  PROVE  Bytes \in Nat /\ Bytes <= Rows * Columns * (2 + Length(Rows)) + 1
<1>n. PICK r \in Nat, c \in Nat, n \in Nat, w \in Nat :
        r = Rows /\ c = Columns /\ n = r * c /\ w = 2 + Length(r)
  <2>1. Rows * Columns \in Nat /\ 2 + Length(Rows) \in Nat
    BY LengthLaws
  <2> QED
    BY <2>1
<1> DEFINE more(k) == 2 + Length(Named(k - 1)[1])
           Is(f) == f = [k \in 0..n |->
                          IF k = 0 THEN 1
                          ELSE IF mtx[k - 1] = 1 THEN f[k - 1] + 2 + Length(Named(k - 1)[1])
                          ELSE f[k - 1]]
           grow == [x \in (1..n) \X Nat |->
                     IF mtx[x[1] - 1] = 1 THEN x[2] + 2 + Length(Named(x[1] - 1)[1]) ELSE x[2]]
<1>1. \A k \in 1..n, x \in Nat :
        /\ grow[<<k, x>>] = IF mtx[k - 1] = 1 THEN x + 2 + Length(Named(k - 1)[1]) ELSE x
        /\ grow[<<k, x>>] \in Nat
  BY LengthLaws
<1>2. PICK g \in [0..n -> Nat] : Iterates(g, 1, grow, n)
  <2>1. Steps(grow, n, Nat)
    BY <1>1 DEF Steps
  <2> HIDE DEF grow
  <2> QED
    BY <2>1, Recursion
<1> HIDE DEF grow
<1>3. Is(g)
  <2>1. g = [k \in 0..n |-> g[k]]
    OBVIOUS
  <2>2. ASSUME NEW k \in 0..n
        PROVE  g[k] = IF k = 0 THEN 1
                      ELSE IF mtx[k - 1] = 1 THEN g[k - 1] + 2 + Length(Named(k - 1)[1])
                      ELSE g[k - 1]
    <3>1. CASE k = 0
      BY <1>2, <3>1 DEF Iterates
    <3>2. CASE k # 0
      <4>1. k \in 1..n /\ g[k - 1] \in Nat
        BY <3>2
      <4>2. g[k] = grow[<<k, g[k - 1]>>]
        BY <1>2, <4>1 DEF Iterates
      <4> QED
        BY <1>1, <3>2, <4>1, <4>2
    <3> QED
      BY <3>1, <3>2
  <2> QED
    BY <2>1, <2>2
<1> DEFINE h == CHOOSE f : Is(f)
<1>4. Is(h)
  <2> HIDE DEF Is
  <2> QED
    BY <1>3
<1>5. Bytes = h[n]
  BY <1>n DEF Bytes
<1> DEFINE T == {k \in Nat : k <= n => h[k] \in Nat /\ h[k] <= k * w + 1}
<1> HIDE DEF h
<1>6. 0 \in T
  BY <1>4
<1>7. ASSUME NEW k \in Nat, k \in T PROVE k + 1 \in T
  <2> SUFFICES ASSUME k + 1 <= n PROVE h[k + 1] \in Nat /\ h[k + 1] <= (k + 1) * w + 1
    OBVIOUS
  <2>1. h[k + 1] = IF mtx[k] = 1 THEN h[k] + 2 + Length(Named(k)[1]) ELSE h[k]
    <3>1. k + 1 \in 0..n /\ k + 1 # 0 /\ (k + 1) - 1 = k
      OBVIOUS
    <3> QED
      BY <1>4, <3>1
  <2>2. h[k] \in Nat /\ h[k] <= k * w + 1
    BY <1>7
  <2>3. (k + 1) * w = k * w + w /\ k * w \in Nat
    OBVIOUS
  <2>4. Length(Named(k)[1]) \in Nat /\ 2 + Length(Named(k)[1]) <= w
    <3>1. k \in 0..r * c - 1 /\ c \in Nat \ {0}
      BY <1>n
    <3>2. k \div c \in 0..r - 1
      BY <3>1, SquareNumbers
    <3>3. Named(k)[1] = k \div c + 1
      BY <1>n DEF Named
    <3>4. Named(k)[1] \in Nat /\ Named(k)[1] <= r
      BY <3>2, <3>3
    <3>5. PICK m \in Nat : m = Named(k)[1] /\ m <= r
      BY <3>4
    <3>6. Length(m) \in Nat /\ Length(r) \in Nat /\ Length(m) <= Length(r)
      BY <3>5, LengthLaws
    <3>7. w = 2 + Length(r)
      BY <1>n
    <3> QED
      BY <3>5, <3>6, <3>7
  <2>5. PICK z \in Nat : z = Length(Named(k)[1])
    BY <2>4
  <2>6. PICK y \in Nat : y = k * w
    BY <2>3
  <2> QED
    BY <2>1, <2>2, <2>3, <2>4, <2>5, <2>6
<1>8. n \in T
  <2> HIDE DEF T
  <2> QED
    BY <1>6, <1>7, Induction
<1>9. Bytes \in Nat /\ Bytes <= n * w + 1
  BY <1>5, <1>8
<1> QED
  BY <1>n, <1>9

(* A square has a place in the table, and the string names it where its    *)
(* number is.                                                              *)
LEMMA StringStep ==
  ASSUME SortInv, SquaresRead, GenerateObsoleteString
  PROVE  AnswersRead'
<1>1. Columns \in Nat /\ Rows \in Nat
  BY DEF SortInv, AnswersTyped, Columns, Rows, Number, Sides
<1>2. PICK r \in Nat, c \in Nat : r = Rows /\ c = Columns
  BY <1>1
<1>3. r * c \in Nat /\ (r * c > 0 => c \in Nat \ {0})
  BY <1>2
<1>4. Names(answer', r * c)
  BY <1>2, <1>3, StringNames DEF GenerateObsoleteString
<1>5. /\ UNCHANGED <<marks, black, mtx>> /\ phase = "string" /\ phase' = "done"
      /\ UNCHANGED <<Rows, Columns>>
  BY DEF GenerateObsoleteString, Rows, Columns, Number
<1>6. DOMAIN answer' = 1..Len(answer') /\ Len(answer') \in Nat
  BY <1>4 DEF Names
<1> DEFINE Square(q, l) == <<marks["up"][l + 1].x, marks["right"][q + 1].y>>
<1>7. \A m \in 0..r * c - 1 : mtx[m] = 1 <=> Square(m \div c, m % c) \in black
  BY <1>2, <1>5 DEF SquaresRead, Index
<1>8. ASSUME NEW e \in 1..Len(answer')
      PROVE  /\ answer'[e] \in (1..r) \X (0..c - 1)
             /\ Square(answer'[e][1] - 1, answer'[e][2]) \in black
  <2>1. PICK m \in 0..r * c - 1 : mtx[m] = 1 /\ answer'[e] = Named(m)
    BY <1>4 DEF Names
  <2>2. c \in Nat \ {0}
    BY <1>3, <2>1
  <2>3. PICK q \in 0..r - 1, l \in 0..c - 1 : q = m \div c /\ l = m % c
    BY <1>2, <2>2, SquareNumbers
  <2>4. answer'[e] = <<q + 1, l>> /\ Square(q, l) \in black
    BY <1>2, <1>7, <2>1, <2>3 DEF Named
  <2> HIDE DEF Square
  <2>5. (q + 1) - 1 = q
    OBVIOUS
  <2> QED
    BY <2>4, <2>5
<1>9. ASSUME NEW q \in 1..r, NEW l \in 0..c - 1, Square(q - 1, l) \in black
      PROVE  \E e \in 1..Len(answer') : answer'[e] = <<q, l>>
  <2>1. c \in Nat \ {0} /\ q - 1 \in 0..r - 1
    BY <1>2
  <2>2. PICK m \in 0..r * c - 1 : m \div c = q - 1 /\ m % c = l
    BY <2>1, SquareNumbers
  <2>3. mtx[m] = 1
    BY <1>7, <1>9, <2>2
  <2>4. Named(m) = <<q, l>>
    BY <1>2, <2>2 DEF Named
  <2> QED
    BY <1>4, <2>3, <2>4 DEF Names
<1>10. {answer'[e] : e \in DOMAIN answer'} =
         {a \in (1..r) \X (0..c - 1) :
            <<marks["up"][a[2] + 1].x, marks["right"][a[1]].y>> \in black}
  <2>1. \A a \in (1..r) \X (0..c - 1) :
          Square(a[1] - 1, a[2]) = <<marks["up"][a[2] + 1].x, marks["right"][a[1]].y>>
    OBVIOUS
  <2>2. \A a \in (1..r) \X (0..c - 1) : \E q \in 1..r, l \in 0..c - 1 : a = <<q, l>>
    OBVIOUS
  <2> HIDE DEF Square
  <2>3. ASSUME NEW a \in (1..r) \X (0..c - 1), Square(a[1] - 1, a[2]) \in black
        PROVE  \E e \in DOMAIN answer' : a = answer'[e]
    <3>1. PICK q \in 1..r, l \in 0..c - 1 : a = <<q, l>>
      BY <2>2
    <3> QED
      BY <1>6, <1>9, <2>3, <3>1
  <2> QED
    BY <1>6, <1>8, <2>1, <2>3
<1>11. \A e, f \in DOMAIN answer' : e < f => Before(answer'[e], answer'[f])
  BY <1>4, <1>6 DEF Names
<1> QED
  BY <1>2, <1>5, <1>10, <1>11 DEF AnswersRead

(* The string is made of the squares that mtx says are black, and these    *)
(* are the ones FindAnswer found in the sorted table.                      *)
THEOREM ReadInvariant == SpecAnswers => []ReadInv
<1>1. InitAnswers => ReadInv
  BY InitSort DEF InitAnswers, ReadInv, SquaresRead, AnswersRead
<1>2. ASSUME ReadInv, SortInv', [NextAnswers]_answerVars PROVE ReadInv'
  <2>1. SortInv
    BY <1>2 DEF ReadInv
  <2>2. CASE \E t \in Sides : Compare(t) \/ NextPass(t) \/ Sorted(t)
    <3>1. phase' \notin {"string", "done", "overrun"}
      BY <2>2 DEF Compare, NextPass, Sorted, Sides
    <3> QED
      BY <1>2, <3>1 DEF ReadInv, SquaresRead, AnswersRead
  <2>3. CASE FindAnswer
    <3>1. /\ phase' = "string" /\ marks' = marks
          /\ mtx' = [k \in Index |->
               IF <<marks["up"][(k % Columns) + 1].x, marks["right"][(k \div Columns) + 1].y>> \in black'
               THEN 1 ELSE 0]
      BY <2>3 DEF FindAnswer
    <3>2. Index' = Index /\ Columns' = Columns
      BY <3>1 DEF Index, Rows, Columns, Number
    <3>3. SquaresRead'
      BY <3>1, <3>2 DEF SquaresRead
    <3> QED
      BY <1>2, <3>1, <3>3 DEF ReadInv, AnswersRead
  <2>4. CASE GenerateObsoleteString
    <3>1. SquaresRead /\ SquaresRead'
      BY <1>2, <2>4 DEF ReadInv, GenerateObsoleteString, SquaresRead, Index, Rows, Columns, Number
    <3> QED
      BY <1>2, <2>1, <2>4, <3>1, StringStep DEF ReadInv
  <2>6. CASE Overrun
    <3>1. /\ phase = "string" /\ phase' = "overrun" /\ Bytes > StringBytes
          /\ UNCHANGED <<marks, black, mtx>>
      BY <2>6 DEF Overrun
    <3>2. Rows' = Rows /\ Columns' = Columns /\ SquaresRead'
      BY <1>2, <3>1 DEF ReadInv, SquaresRead, Index, Rows, Columns, Number
    <3>3. Rows \in Nat /\ Columns \in Nat
      BY <2>1 DEF SortInv, AnswersTyped, Columns, Rows, Number, Sides
    <3>4. Bytes \in Nat /\ Bytes <= Rows * Columns * (2 + Length(Rows)) + 1
      BY <3>3, BytesBounded
    <3>5. PICK most \in Nat : most = Rows * Columns * (2 + Length(Rows)) + 1
      BY <3>3, LengthLaws
    <3>6. most > StringBytes
      BY <3>1, <3>4, <3>5, MarkAssumption
    <3>7. AnswersRead'
      BY <3>1, <3>2, <3>5, <3>6 DEF AnswersRead, Length
    <3> QED
      BY <1>2, <3>2, <3>7 DEF ReadInv
  <2>5. CASE UNCHANGED answerVars
    <3>1. UNCHANGED <<phase, marks, black, mtx, answer>>
      BY <2>5 DEF answerVars
    <3> QED
      BY <1>2, <3>1 DEF ReadInv, SquaresRead, AnswersRead, Index, Rows, Columns, Number
  <2> QED
    BY <1>2, <2>2, <2>3, <2>4, <2>5, <2>6 DEF NextAnswers
<1> QED
  BY <1>1, <1>2, SortInvariant, PTL DEF SpecAnswers

(* A student's answers are read as they were marked: the string names      *)
(* every blackened square by its row and column, once, in the order of the *)
(* questions, and no other square (ans_process.c:116-130), unless there    *)
(* are more columns than characters; and it stays within its block if the  *)
(* table, all black, would: 84 squares with less than ten rows, 63 with    *)
(* less than a hundred.                                                    *)
THEOREM AnswersAreRead == SpecAnswers => []AnswersRead
BY ReadInvariant, PTL DEF ReadInv
=============================================================================
