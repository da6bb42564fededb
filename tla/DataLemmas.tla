----------------------------- MODULE DataLemmas -----------------------------
(***************************************************************************)
(* Lemmas about data that the proofs of several components need.           *)
(*                                                                         *)
(* Induction on numbers is stated for a set and not for a predicate, so    *)
(* that it can be cited with a set of numbers in its place.  It rests on   *)
(* the fact that a set of numbers has a least member, which in turn comes  *)
(* from the order of the finite sets 0..n by inclusion.                    *)
(***************************************************************************)
EXTENDS Integers, Sequences, FiniteSetTheorems, WellFoundedInduction, TLAPS

(* A set of numbers that is not empty has a least member.                  *)
LEMMA LeastNumber ==
  ASSUME NEW T, T \subseteq Nat, T # {}
  PROVE  \E x \in T : \A y \in T : x <= y
<1> DEFINE F == {0..n : n \in T}
<1>1. F \subseteq FiniteSubsetsOf(Nat) /\ F # {}
  <2>1. \A n \in T : IsFiniteSet(0..n) /\ 0..n \subseteq Nat
    BY FS_Interval
  <2> QED
    BY <2>1 DEF FiniteSubsetsOf
<1>2. IsWellFoundedOn(StrictSubsetOrdering(Nat), FiniteSubsetsOf(Nat))
  BY FS_StrictSubsetOrderingWellFounded
<1>3. PICK s \in F : \A t \in F : ~(<<t, s>> \in StrictSubsetOrdering(Nat))
  <2> HIDE DEF F
  <2> QED
    BY <1>1, <1>2, WFMin
<1>4. PICK x \in T : s = 0..x
  OBVIOUS
<1>5. ASSUME NEW y \in T, ~(x <= y) PROVE FALSE
  <2>1. 0..y \subseteq 0..x /\ 0..y # 0..x /\ 0..y \in F /\ 0..x \subseteq Nat
    <3>1. x \in 0..x /\ x \notin 0..y
      BY <1>5
    <3> QED
     BY <1>5, <3>1
  <2> QED
    BY <1>3, <1>4, <2>1 DEF StrictSubsetOrdering
<1> QED
  BY <1>5

(* What holds of 0, and of n + 1 if it holds of n, holds of every number.  *)
LEMMA Induction ==
  ASSUME NEW T, 0 \in T, \A n \in Nat : n \in T => n + 1 \in T
  PROVE  Nat \subseteq T
<1> SUFFICES ASSUME ~(Nat \subseteq T) PROVE FALSE
  OBVIOUS
<1>1. PICK x \in Nat \ T : \A y \in Nat \ T : x <= y
  BY LeastNumber
<1> QED
  BY <1>1

(* A function that is made value by value: step[<<k, x>>] is the value at   *)
(* k when the one before it is x.                                          *)
Steps(step, n, S) == \A k \in 1..n, x \in S : step[<<k, x>>] \in S
Iterates(f, base, step, n) == f[0] = base /\ \A k \in 1..n : f[k] = step[<<k, f[k - 1]>>]

(* There is such a function: what the prover must know before it believes  *)
(* the equation of a recursive definition.                                 *)
LEMMA Recursion ==
  ASSUME NEW n \in Nat, NEW S, NEW base \in S,
         NEW step, Steps(step, n, S)
  PROVE  \E f \in [0..n -> S] : Iterates(f, base, step, n)
<1> USE DEF Steps, Iterates
<1> DEFINE Is(f, m) == f[0] = base /\ \A k \in 1..m : f[k] = step[<<k, f[k - 1]>>]
           T == {m \in Nat : m <= n => \E f \in [0..m -> S] : Is(f, m)}
<1>1. 0 \in T
  <2> DEFINE f == [k \in 0..0 |-> base]
  <2>1. f \in [0..0 -> S] /\ Is(f, 0)
    OBVIOUS
  <2> QED
    BY <2>1
<1>2. ASSUME NEW m \in Nat, m \in T PROVE m + 1 \in T
  <2> SUFFICES ASSUME m + 1 <= n PROVE \E g \in [0..m + 1 -> S] : Is(g, m + 1)
    OBVIOUS
  <2>1. PICK f \in [0..m -> S] : Is(f, m)
    BY <1>2
  <2> DEFINE g == [k \in 0..m + 1 |-> IF k = m + 1 THEN step[<<m + 1, f[m]>>] ELSE f[k]]
  <2>2. f[m] \in S /\ step[<<m + 1, f[m]>>] \in S
    BY <2>1
  <2>3. g \in [0..m + 1 -> S]
    BY <2>1, <2>2
  <2>4. g[0] = base
    BY <2>1
  <2>5. ASSUME NEW k \in 1..m + 1 PROVE g[k] = step[<<k, g[k - 1]>>]
    <3>1. CASE k = m + 1
      <4>1. k \in 0..m + 1 /\ k - 1 = m /\ m \in 0..m + 1 /\ m # m + 1
        BY <3>1
      <4>2. g[k] = step[<<m + 1, f[m]>>] /\ g[m] = f[m]
        BY <3>1, <4>1
      <4> HIDE DEF g
      <4> QED
        BY <3>1, <4>1, <4>2
    <3>2. CASE k # m + 1
      <4>1. k \in 1..m /\ k - 1 \in 0..m /\ k # 0
        BY <3>2
      <4>2. g[k] = f[k] /\ g[k - 1] = f[k - 1]
        BY <4>1
      <4>3. f[k] = step[<<k, f[k - 1]>>]
        BY <2>1, <4>1
      <4> QED
        BY <4>2, <4>3
    <3> QED
      BY <3>1, <3>2
  <2>6. Is(g, m + 1)
    <3> HIDE DEF g
    <3> QED
      BY <2>4, <2>5
  <2> QED
    BY <2>3, <2>6
<1>3. n \in T
  <2> HIDE DEF T
  <2> QED
    BY <1>1, <1>2, Induction
<1> QED
  BY <1>3

(* What it is to be empty, and to be one longer.                           *)
LEMMA EmptyLaws ==
  ASSUME NEW S
  PROVE  << >> \in Seq(S) /\ Len(<< >>) = 0
OBVIOUS

LEMMA AppendLaws ==
  ASSUME NEW S, NEW string \in Seq(S), NEW x \in S
  PROVE  /\ Len(string) \in Nat
         /\ Append(string, x) \in Seq(S)
         /\ Len(Append(string, x)) = Len(string) + 1
         /\ Append(string, x)[Len(string) + 1] = x
         /\ \A e \in 1..Len(string) : Append(string, x)[e] = string[e]
OBVIOUS

(* Where the members of a part of a sequence are.                          *)
LEMMA PartLaws ==
  ASSUME NEW S, NEW a \in Seq(S), NEW m \in Nat, NEW n \in Nat, m + n <= Len(a)
  PROVE  /\ SubSeq(a, m + 1, m + n) \in Seq(S)
         /\ Len(SubSeq(a, m + 1, m + n)) = n
         /\ \A k \in 1..n : SubSeq(a, m + 1, m + n)[k] = a[m + k]
OBVIOUS

(* Sequences are the same if they have the same members in the same places. *)
LEMMA SameSequence ==
  ASSUME NEW S, NEW T, NEW a \in Seq(S), NEW b \in Seq(T),
         Len(a) = Len(b), \A k \in 1..Len(a) : a[k] = b[k]
  PROVE  a = b
OBVIOUS

(* Division with remainder, and that there is one way to do it.            *)
LEMMA DivMod ==
  ASSUME NEW n \in Nat, NEW w \in Nat \ {0}
  PROVE  /\ n \div w \in Nat /\ n % w \in 0..w - 1
         /\ n = (n \div w) * w + (n % w)
OBVIOUS

LEMMA DivUnique ==
  ASSUME NEW w \in Nat \ {0}, NEW q \in Nat, NEW r \in 0..w - 1
  PROVE  /\ q * w + r \in Nat
         /\ (q * w + r) \div w = q /\ (q * w + r) % w = r
<1> DEFINE n == q * w + r
           p == n \div w
           m == n % w
<1>0. n \in Nat
  OBVIOUS
<1>1. p \in Nat /\ m \in 0..w - 1 /\ n = p * w + m
  <2> HIDE DEF n
  <2> QED
    BY <1>0, DivMod
<1>2. (p - q) * w = r - m
  BY <1>0, <1>1
<1>3. p - q = 0
  BY <1>1, <1>2
<1> QED
  BY <1>0, <1>1, <1>3
=============================================================================
