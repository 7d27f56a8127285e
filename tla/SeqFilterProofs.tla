-------------------------- MODULE SeqFilterProofs --------------------------
(***************************************************************************)
(* Induction, and what is left of a filtered sequence.  The induction      *)
(* theorems of the library take an operator, which the provers cannot      *)
(* instantiate: here it is on a set, and a proof by induction names the    *)
(* set of the numbers for which its claim holds.                           *)
(***************************************************************************)
EXTENDS SeqFilter, WellFoundedInduction, FiniteSetTheorems, SequenceTheorems, TLAPS

----------------------------------------------------------------------------
(* Induction on the natural numbers, with a set in place of a predicate. *)
LEMMA SetInduction ==
  ASSUME NEW S, 0 \in S, \A n \in Nat : n \in S => n + 1 \in S
  PROVE  Nat \subseteq S
<1> SUFFICES ASSUME Nat \ S # {} PROVE FALSE
  OBVIOUS
<1>1. IsWellFoundedOn(OpToRel(<, Nat), Nat)
  BY NatLessThanWellFounded
<1>2. \E x \in Nat \ S : \A y \in Nat \ S : ~(<<y, x>> \in OpToRel(<, Nat))
  BY <1>1, WFMin
<1>3. PICK x \in Nat \ S : \A y \in Nat \ S : ~(y < x)
  BY <1>2 DEF OpToRel
<1>4. x # 0 /\ x - 1 \in Nat /\ x - 1 < x
  BY <1>3
<1> QED
  BY <1>3, <1>4

Step(s, keep, before, n) == IF s[n] \in keep THEN Append(before, s[n]) ELSE before

LEMMA PrefixesExist ==
  ASSUME NEW s, NEW keep, Len(s) \in Nat
  PROVE  LET left == FilteredPrefixes(s, keep)
         IN left = [n \in 0..Len(s) |-> IF n = 0 THEN <<>> ELSE Step(s, keep, left[n - 1], n)]
<1> DEFINE next(f, n) == IF n = 0 THEN <<>> ELSE Step(s, keep, f[n - 1], n)
           Defined == {N \in Nat : \E f : f = [n \in 0..N |-> next(f, n)]}
<1>1. 0 \in Defined
  <2> DEFINE f == [n \in 0..0 |-> <<>>]
  <2>1. f = [n \in 0..0 |-> next(f, n)]
    OBVIOUS
  <2> HIDE DEF f
  <2> QED
    BY <2>1
<1>2. ASSUME NEW N \in Nat, N \in Defined
      PROVE  N + 1 \in Defined
  <2> PICK f : f = [n \in 0..N |-> next(f, n)]
    BY <1>2
  <2> DEFINE g == [n \in 0..N + 1 |-> IF n = N + 1 THEN Step(s, keep, f[N], n) ELSE f[n]]
  <2>1. \A n \in 0..N + 1 : g[n] = next(g, n)
    OBVIOUS
  <2>2. g = [n \in 0..N + 1 |-> next(g, n)]
    BY <2>1
  <2> HIDE DEF g
  <2> QED
    BY <2>2
<1>3. Len(s) \in Defined
  <2> HIDE DEF Defined
  <2>1. Nat \subseteq Defined
    BY <1>1, <1>2, SetInduction
  <2> QED
    BY <2>1
<1>4. \E f : f = [n \in 0..Len(s) |-> next(f, n)]
  BY <1>3
<1>5. FilteredPrefixes(s, keep) = CHOOSE f : f = [n \in 0..Len(s) |-> next(f, n)]
  BY DEF FilteredPrefixes, Step
<1> QED
  BY <1>4, <1>5

OneEach(s) == \A i, j \in DOMAIN s : s[i] = s[j] => i = j

LEMMA AppendOne ==
  ASSUME NEW T, NEW u \in Seq(T), NEW x \in T
  PROVE  /\ Append(u, x) \in Seq(T) /\ Len(Append(u, x)) = Len(u) + 1
         /\ ToSet(Append(u, x)) = ToSet(u) \union {x}
         /\ OneEach(u) /\ x \notin ToSet(u) => OneEach(Append(u, x))
<1>1. /\ Append(u, x) \in Seq(T) /\ Len(Append(u, x)) = Len(u) + 1 /\ Len(u) \in Nat
      /\ DOMAIN Append(u, x) = 1..Len(u) + 1 /\ DOMAIN u = 1..Len(u)
      /\ \A i \in 1..Len(u) : Append(u, x)[i] = u[i]
      /\ Append(u, x)[Len(u) + 1] = x
  OBVIOUS
<1>2. ToSet(Append(u, x)) = ToSet(u) \union {x}
  <2>1. ToSet(Append(u, x)) \subseteq ToSet(u) \union {x}
    BY <1>1 DEF ToSet
  <2>2. ToSet(u) \subseteq ToSet(Append(u, x))
    BY <1>1 DEF ToSet
  <2>3. x \in ToSet(Append(u, x))
    BY <1>1 DEF ToSet
  <2> QED
    BY <2>1, <2>2, <2>3
<1>3. OneEach(u) /\ x \notin ToSet(u) => OneEach(Append(u, x))
  BY <1>1 DEF ToSet, OneEach
<1> QED
  BY <1>1, <1>2, <1>3

(* What is left of a sequence are its elements that are kept, each once if it
   was there once. *)
LEMMA FilterLeaves ==
  ASSUME NEW T, NEW s \in Seq(T), NEW keep
  PROVE  /\ Filter(s, keep) \in Seq(T) /\ Len(Filter(s, keep)) <= Len(s)
         /\ ToSet(Filter(s, keep)) = ToSet(s) \intersect keep
         /\ OneEach(s) => OneEach(Filter(s, keep))
<1> DEFINE left == FilteredPrefixes(s, keep)
           before(n) == {s[i] : i \in 1..n}
           Right(n) == /\ left[n] \in Seq(T) /\ Len(left[n]) <= n
                       /\ ToSet(left[n]) = before(n) \intersect keep
                       /\ OneEach(s) => OneEach(left[n])
           Done == {n \in Nat : n <= Len(s) => Right(n)}
<1>1. Len(s) \in Nat /\ DOMAIN s = 1..Len(s) /\ \A i \in 1..Len(s) : s[i] \in T
  OBVIOUS
<1>2. left = [n \in 0..Len(s) |-> IF n = 0 THEN <<>> ELSE Step(s, keep, left[n - 1], n)]
  BY <1>1, PrefixesExist
<1> HIDE DEF left
<1>3. 0 \in Done
  <2>1. left[0] = <<>>
    BY <1>1, <1>2
  <2>2. Right(0)
    BY <2>1 DEF ToSet, OneEach
  <2> QED
    BY <2>2
<1>4. ASSUME NEW n \in Nat, n \in Done
      PROVE  n + 1 \in Done
  <2> SUFFICES ASSUME n + 1 <= Len(s) PROVE Right(n + 1)
    OBVIOUS
  <2>1. Right(n)
    BY <1>1, <1>4
  <2>2. left[n + 1] = Step(s, keep, left[n], n + 1)
    BY <1>1, <1>2
  <2>3. before(n + 1) = before(n) \union {s[n + 1]} /\ s[n + 1] \in T
    BY <1>1
  <2>4. OneEach(s) => s[n + 1] \notin before(n)
    BY <1>1 DEF OneEach
  <2>5. CASE s[n + 1] \in keep
    <3>1. left[n + 1] = Append(left[n], s[n + 1])
      BY <2>2, <2>5 DEF Step
    <3> HIDE DEF before
    <3>2. s[n + 1] \in ToSet(left[n]) => s[n + 1] \in before(n)
      BY <2>1
    <3> QED
      BY <2>1, <2>3, <2>4, <2>5, <3>1, <3>2, AppendOne
  <2>6. CASE s[n + 1] \notin keep
    <3>1. left[n + 1] = left[n]
      BY <2>2, <2>6 DEF Step
    <3> HIDE DEF before
    <3> QED
      BY <2>1, <2>3, <2>6, <3>1
  <2> QED
    BY <2>5, <2>6
<1>5. Right(Len(s))
  <2> HIDE DEF Right
  <2>1. Nat \subseteq Done
    <3> HIDE DEF Done
    <3> QED
      BY <1>3, <1>4, SetInduction
  <2> QED
    BY <1>1, <2>1
<1>6. Filter(s, keep) = left[Len(s)]
  BY DEF Filter, left
<1>7. before(Len(s)) = ToSet(s)
  BY <1>1 DEF ToSet
<1> QED
  BY <1>5, <1>6, <1>7

(* A sequence with one of each has as many places as elements. *)
LEMMA OneEachCounts ==
  ASSUME NEW T, NEW s \in Seq(T), OneEach(s)
  PROVE  IsFiniteSet(ToSet(s)) /\ Cardinality(ToSet(s)) = Len(s)
<1>1. Len(s) \in Nat /\ DOMAIN s = 1..Len(s)
  OBVIOUS
<1>2. s \in Bijection(1..Len(s), ToSet(s))
  BY <1>1 DEF ToSet, OneEach, Bijection, Injection, Surjection, IsInjective
<1>3. Cardinality(1..Len(s)) = Len(s) /\ IsFiniteSet(1..Len(s))
  BY <1>1, FS_Interval
<1> QED
  BY <1>2, <1>3, FS_Bijection DEF ExistsBijection
=============================================================================
