----------------------------- MODULE CacheProofs -----------------------------
(***************************************************************************)
(* Proofs about Cache, for any number of keys, any limits and any clock.   *)
(*                                                                         *)
(* The facts proved hold together: that Set keeps the cache within its     *)
(* bound by evicting a single entry needs the list to name every stored    *)
(* key exactly once; that a snapshot is never half-written needs the       *)
(* temporary file to be whole when it is renamed.                          *)
(***************************************************************************)
EXTENDS Cache, SequenceTheorems, FiniteSetTheorems, WellFoundedInduction, TLAPS

-----------------------------------------------------------------------------
(* Induction and sums.  The library's induction theorems take an operator  *)
(* as a parameter; that < is well founded is stated of sets, and is enough.*)

(* Induction over the natural numbers, for a set: a least number outside   *)
(* it would have a predecessor in it.                                      *)
LEMMA Induction ==
  ASSUME NEW S, 0 \in S, \A n \in Nat : n \in S => n + 1 \in S
  PROVE  Nat \subseteq S
<1> DEFINE R == {p \in Nat \X Nat : p[1] < p[2]}
           T == Nat \ S
<1>1. IsWellFoundedOn(R, Nat)
  BY NatLessThanWellFounded DEF OpToRel
<1> HIDE DEF R
<1> SUFFICES ASSUME T # {} PROVE FALSE
  OBVIOUS
<1>2. PICK m \in T : \A n \in T : ~(<<n, m>> \in R)
  <2> HIDE DEF T
  <2>1. T \subseteq Nat
    BY DEF T
  <2> QED BY <1>1, <2>1, WFMin
<1>3. m \in Nat /\ m - 1 \in Nat
  OBVIOUS
<1>4. <<m - 1, m>> \in R
  BY <1>3 DEF R
<1> QED BY <1>2, <1>3, <1>4

(* The greatest element of a set of numbers up to n.                       *)
LEMMA MaxIs ==
  ASSUME NEW n \in Nat, NEW s, s \subseteq 1 .. n, s # {}
  PROVE  Max(s) \in s /\ \A x \in s : x <= Max(s)
<1> DEFINE S == {i \in Nat : \A t \in SUBSET (1 .. i) : t # {} => \E m \in t : \A x \in t : x <= m}
<1>1. 0 \in S
  <2>1. \A t \in SUBSET (1 .. 0) : t = {}
    OBVIOUS
  <2> QED BY <2>1
<1>2. ASSUME NEW i \in Nat, i \in S PROVE i + 1 \in S
  <2> SUFFICES ASSUME NEW t \in SUBSET (1 .. i + 1), t # {} PROVE \E m \in t : \A x \in t : x <= m
    OBVIOUS
  <2>1. CASE i + 1 \in t
    BY <2>1
  <2>2. CASE i + 1 \notin t
    <3>1. t \subseteq 1 .. i
      BY <2>2
    <3> QED BY <1>2, <3>1
  <2> QED BY <2>1, <2>2
<1> HIDE DEF S
<1>3. n \in S
  BY <1>1, <1>2, Induction
<1>4. \E m \in s : \A x \in s : m >= x
  BY <1>3 DEF S
<1> QED BY <1>4 DEF Max

(* What a fold from the left over n places computes, if every step takes   *)
(* a number to a number: step[<<a, i>>] is what place i makes of a.        *)
Folds(F, n, step, base) ==
    F = [s \in SUBSET (1 .. n) |-> IF s = {} THEN base ELSE step[<<F[s \ {Max(s)}], Max(s)>>]]

LEMMA FoldExists ==
  ASSUME NEW n \in Nat, NEW step \in [Nat \X (1 .. n) -> Nat], NEW base \in Nat
  PROVE  \E F \in [SUBSET (1 .. n) -> Nat] : Folds(F, n, step, base)
<1> DEFINE Upto(i, F) == \A s \in SUBSET (1 .. i) :
                F[s] = IF s = {} THEN base ELSE step[<<F[s \ {Max(s)}], Max(s)>>]
           Has(i) == \E F \in [SUBSET (1 .. i) -> Nat] : Upto(i, F)
           S == {i \in Nat : i <= n => Has(i)}
<1>1. 0 \in S
  <2> DEFINE F == [s \in SUBSET (1 .. 0) |-> base]
  <2>1. F \in [SUBSET (1 .. 0) -> Nat] /\ \A s \in SUBSET (1 .. 0) : s = {} /\ F[s] = base
    OBVIOUS
  <2> QED BY <2>1
<1>2. ASSUME NEW i \in Nat, i \in S PROVE i + 1 \in S
  <2> HIDE DEF Has
  <2> SUFFICES ASSUME i + 1 <= n PROVE Has(i + 1)
    OBVIOUS
  <2>0. Has(i)
    BY <1>2
  <2>1. PICK F \in [SUBSET (1 .. i) -> Nat] : Upto(i, F)
    BY <2>0 DEF Has
  <2> DEFINE G == [s \in SUBSET (1 .. i + 1) |->
                      IF i + 1 \in s THEN step[<<F[s \ {i + 1}], i + 1>>] ELSE F[s]]
  <2>2. \A s \in SUBSET (1 .. i + 1) : s \ {i + 1} \in SUBSET (1 .. i) /\ (i + 1 \notin s => s \in SUBSET (1 .. i))
    OBVIOUS
  <2>3. i + 1 \in 1 .. n
    OBVIOUS
  <2>4. ASSUME NEW s \in SUBSET (1 .. i + 1) PROVE G[s] \in Nat
    <3>1. CASE i + 1 \in s
      <4>1. <<F[s \ {i + 1}], i + 1>> \in Nat \X (1 .. n)
        BY <2>1, <2>2, <2>3
      <4> QED BY <3>1, <4>1
    <3>2. CASE i + 1 \notin s
      BY <2>1, <2>2, <3>2
    <3> QED BY <3>1, <3>2
  <2>5. ASSUME NEW s \in SUBSET (1 .. i + 1)
        PROVE  G[s] = IF s = {} THEN base ELSE step[<<G[s \ {Max(s)}], Max(s)>>]
    <3>1. CASE i + 1 \in s
      <4>1. Max(s) \in s /\ i + 1 <= Max(s)
        BY <3>1, MaxIs, i + 1 \in Nat
      <4>2. Max(s) = i + 1
        <5>1. Max(s) \in 1 .. i + 1
          BY <4>1
        <5> QED BY <4>1, <5>1
      <4>3. s \ {i + 1} \in SUBSET (1 .. i + 1) /\ i + 1 \notin s \ {i + 1}
        OBVIOUS
      <4>4. G[s \ {i + 1}] = F[s \ {i + 1}]
        BY <4>3
      <4> QED BY <3>1, <4>2, <4>4
    <3>2. CASE i + 1 \notin s
      <4>1. s \in SUBSET (1 .. i) /\ G[s] = F[s]
        BY <2>2, <3>2
      <4>2. CASE s = {}
        BY <2>1, <4>1, <4>2
      <4>3. CASE s # {}
        <5>1. s \ {Max(s)} \in SUBSET (1 .. i + 1) /\ i + 1 \notin s \ {Max(s)}
          BY <3>2
        <5>2. G[s \ {Max(s)}] = F[s \ {Max(s)}]
          BY <5>1
        <5> QED BY <2>1, <4>1, <4>3, <5>2
      <4> QED BY <4>2, <4>3
    <3> QED BY <3>1, <3>2
  <2>6. G \in [SUBSET (1 .. i + 1) -> Nat]
    BY <2>4
  <2> QED BY <2>5, <2>6 DEF Has
<1> HIDE DEF S, Has
<1>3. n \in S
  BY <1>1, <1>2, Induction
<1>0. Has(n)
  BY <1>3 DEF S
<1>4. PICK F \in [SUBSET (1 .. n) -> Nat] : Upto(n, F)
  BY <1>0 DEF Has
<1>5. F = [s \in SUBSET (1 .. n) |-> F[s]]
  OBVIOUS
<1>6. Folds(F, n, step, base)
  BY <1>4, <1>5 DEF Folds
<1> QED BY <1>6

(* The interval from 1 to i and its last element.                          *)
LEMMA LastOfInterval ==
  ASSUME NEW i \in Nat, i # 0
  PROVE  1 .. i # {} /\ Max(1 .. i) = i /\ (1 .. i) \ {i} = 1 .. i - 1
<1>1. i \in 1 .. i
  OBVIOUS
<1>2. Max(1 .. i) \in 1 .. i /\ i <= Max(1 .. i)
  BY <1>1, MaxIs
<1> QED BY <1>1, <1>2

(* P[i] is the sum of the first i of the numbers w.                        *)
Adds(P, w, n) == P \in [0 .. n -> Nat] /\ P[0] = 0 /\ \A i \in 1 .. n : P[i] = P[i - 1] + w[i]

(* Sums of the same numbers are the same.                                  *)
LEMMA AddsAgree ==
  ASSUME NEW n \in Nat, NEW m \in Nat, NEW j \in Nat, j <= n, j <= m,
         NEW w, NEW v, NEW P, NEW Q, Adds(P, w, n), Adds(Q, v, m),
         \A i \in 1 .. j : w[i] = v[i]
  PROVE  P[j] = Q[j]
<1> DEFINE S == {i \in Nat : i <= j => P[i] = Q[i]}
<1>1. 0 \in S
  BY DEF Adds
<1>2. ASSUME NEW i \in Nat, i \in S PROVE i + 1 \in S
  <2> SUFFICES ASSUME i + 1 <= j PROVE P[i + 1] = Q[i + 1]
    OBVIOUS
  <2>1. i + 1 \in 1 .. n /\ i + 1 \in 1 .. m /\ i + 1 \in 1 .. j /\ (i + 1) - 1 = i
    OBVIOUS
  <2>2. P[i + 1] = P[i] + w[i + 1] /\ Q[i + 1] = Q[i] + v[i + 1]
    BY <2>1 DEF Adds
  <2> QED BY <1>2, <2>1, <2>2
<1> HIDE DEF S
<1>3. j \in S
  BY <1>1, <1>2, Induction
<1> QED BY <1>3 DEF S

(* v is w without the element at p.                                        *)
Lacks(v, w, p, n) == \A i \in 1 .. n - 1 : v[i] = IF i < p THEN w[i] ELSE w[i + 1]

(* Leaving the number at p out of a sum takes it off the total.            *)
LEMMA AddsWithout ==
  ASSUME NEW n \in Nat, NEW m \in Nat, m = n - 1, NEW p \in 1 .. n, NEW w, NEW v, NEW P, NEW Q,
         w \in [1 .. n -> Nat], Adds(P, w, n), Adds(Q, v, m), Lacks(v, w, p, n)
  PROVE  P[n] = Q[m] + w[p]
<1>0. /\ \A i \in 0 .. n : P[i] \in Nat
      /\ \A i \in 0 .. n - 1 : Q[i] \in Nat
      /\ \A i \in 1 .. n : P[i] = P[i - 1] + w[i]
      /\ \A i \in 1 .. n - 1 : Q[i] = Q[i - 1] + v[i]
      /\ \A i \in 1 .. n - 1 : v[i] = IF i < p THEN w[i] ELSE w[i + 1]
  BY DEF Adds, Lacks
<1>1. P[p - 1] = Q[p - 1]
  <2>1. p - 1 \in Nat /\ p - 1 <= n /\ p - 1 <= n - 1 /\ n - 1 \in Nat
        /\ \A i \in 1 .. p - 1 : w[i] = v[i]
    BY <1>0
  <2> QED BY <2>1, AddsAgree
<1> DEFINE S == {i \in Nat : p + i <= n => P[p + i] = Q[p + i - 1] + w[p]}
<1>2. 0 \in S
  BY <1>0, <1>1
<1>3. ASSUME NEW i \in Nat, i \in S PROVE i + 1 \in S
  <2> SUFFICES ASSUME p + (i + 1) <= n PROVE P[p + (i + 1)] = Q[p + (i + 1) - 1] + w[p]
    OBVIOUS
  <2> DEFINE a == p + i
  <2>1. /\ a \in Nat /\ a \in 1 .. n - 1 /\ a + 1 \in 1 .. n /\ ~(a < p)
        /\ a - 1 \in 0 .. n - 1 /\ a \in 0 .. n - 1
    OBVIOUS
  <2>2. P[a + 1] = P[(a + 1) - 1] + w[a + 1]
    BY <1>0, <2>1
  <2>3. Q[a] = Q[a - 1] + w[a + 1]
    BY <1>0, <2>1
  <2>4. P[a] = Q[a - 1] + w[p]
    BY <1>3
  <2>5. p + (i + 1) = a + 1 /\ p + (i + 1) - 1 = a /\ (a + 1) - 1 = a
    OBVIOUS
  <2>6. Q[a - 1] \in Nat /\ w[p] \in Nat /\ w[a + 1] \in Nat
    BY <1>0, <2>1
  <2>7. P[a + 1] = Q[a] + w[p]
    <3> HIDE DEF a
    <3>1. \A x, y, z \in Nat : (x + y) + z = (x + z) + y
      OBVIOUS
    <3>2. P[a + 1] = (Q[a - 1] + w[p]) + w[a + 1]
      BY <2>2, <2>4, <2>5
    <3> QED BY <2>3, <2>6, <3>1, <3>2
  <2> QED BY <2>5, <2>7
<1> HIDE DEF S
<1>4. n - p \in S
  BY <1>2, <1>3, Induction, n - p \in Nat
<1>5. p + (n - p) = n
  OBVIOUS
<1> QED BY <1>4, <1>5 DEF S

-----------------------------------------------------------------------------
(* Lists without repetition: what the operations on the recency list do.   *)

Listing(s) == s \in Seq(Keys) /\ IsInjective(s)

(* Removing the element of a key takes that key, and no other, off.        *)
LEMMA WithoutProperties ==
  ASSUME NEW s, Listing(s), NEW k \in Range(s)
  PROVE  /\ Listing(Without(s, k))
         /\ Len(Without(s, k)) = Len(s) - 1
         /\ Range(Without(s, k)) = Range(s) \ {k}
         /\ \E p \in 1 .. Len(s) : s[p] = k /\ Lacks(Without(s, k), s, p, Len(s))
<1> DEFINE i == Position(s, k)
<1> DEFINE a == SubSeq(s, 1, i - 1)
<1> DEFINE b == SubSeq(s, i + 1, Len(s))
<1>0. /\ s \in Seq(Keys)
      /\ Len(s) \in Nat
      /\ DOMAIN s = 1 .. Len(s)
      /\ \A j \in 1 .. Len(s) : s[j] \in Keys
      /\ \A p, q \in 1 .. Len(s) : s[p] = s[q] => p = q
  BY LenProperties, ElementOfSeq DEF Listing, IsInjective
<1>1. i \in 1 .. Len(s) /\ s[i] = k
  BY <1>0 DEF Position, Range
<1>2. /\ a \in Seq(Keys)
      /\ Len(a) = i - 1
      /\ \A j \in 1 .. i - 1 : a[j] = s[j]
  <2>1. \A j \in 1 .. i - 1 : s[j] \in Keys
    BY <1>0, <1>1
  <2>2. /\ a \in Seq(Keys)
        /\ Len(a) = IF 1 <= i - 1 THEN i - 1 - 1 + 1 ELSE 0
        /\ \A j \in 1 .. i - 1 - 1 + 1 : a[j] = s[1 + j - 1]
    BY <1>0, <1>1, <2>1, SubSeqProperties
  <2> QED BY <1>0, <1>1, <2>2
<1>3. /\ b \in Seq(Keys)
      /\ Len(b) = Len(s) - i
      /\ \A j \in 1 .. Len(s) - i : b[j] = s[i + j]
  <2>1. \A j \in i + 1 .. Len(s) : s[j] \in Keys
    BY <1>0, <1>1
  <2>2. /\ b \in Seq(Keys)
        /\ Len(b) = IF i + 1 <= Len(s) THEN Len(s) - (i + 1) + 1 ELSE 0
        /\ \A j \in 1 .. Len(s) - (i + 1) + 1 : b[j] = s[(i + 1) + j - 1]
    BY <1>0, <1>1, <2>1, SubSeqProperties
  <2> QED BY <1>0, <1>1, <2>2
<1>4. Without(s, k) = a \o b
  BY DEF Without, RemoveAt
<1> HIDE DEF i, a, b
<1>5. /\ a \o b \in Seq(Keys)
      /\ Len(a \o b) = Len(s) - 1
      /\ \A j \in 1 .. Len(s) - 1 : (a \o b)[j] = IF j < i THEN s[j] ELSE s[j + 1]
  <2>1. /\ a \o b \in Seq(Keys)
        /\ Len(a \o b) = Len(a) + Len(b)
        /\ \A j \in 1 .. Len(a) + Len(b) : (a \o b)[j] = IF j <= Len(a) THEN a[j] ELSE b[j - Len(a)]
    BY <1>2, <1>3, ConcatProperties
  <2>2. Len(a) + Len(b) = Len(s) - 1
    BY <1>0, <1>1, <1>2, <1>3
  <2>3. ASSUME NEW j \in 1 .. Len(s) - 1
        PROVE  (a \o b)[j] = IF j < i THEN s[j] ELSE s[j + 1]
    <3>1. CASE j < i
      BY <1>0, <1>1, <1>2, <2>1, <2>2, <2>3, <3>1
    <3>2. CASE ~(j < i)
      <4>1. (a \o b)[j] = b[j - (i - 1)] /\ j - (i - 1) \in 1 .. Len(s) - i
        BY <1>0, <1>1, <1>2, <2>1, <2>2, <2>3, <3>2
      <4>2. i + (j - (i - 1)) = j + 1
        BY <1>0, <1>1
      <4> QED BY <1>3, <3>2, <4>1, <4>2
    <3> QED BY <3>1, <3>2
  <2> QED BY <2>1, <2>2, <2>3
<1> DEFINE t == a \o b
<1>6. DOMAIN t = 1 .. Len(s) - 1
  BY <1>5, LenProperties
<1>7. IsInjective(t)
  <2> HIDE DEF t
  <2>1. ASSUME NEW p \in 1 .. Len(s) - 1, NEW q \in 1 .. Len(s) - 1, t[p] = t[q]
        PROVE  p = q
    <3>1. t[p] = (IF p < i THEN s[p] ELSE s[p + 1]) /\ t[q] = (IF q < i THEN s[q] ELSE s[q + 1])
      BY <1>5 DEF t
    <3>2. /\ p \in 1 .. Len(s) /\ p + 1 \in 1 .. Len(s)
          /\ q \in 1 .. Len(s) /\ q + 1 \in 1 .. Len(s)
      BY <1>0
    <3>3. CASE p < i /\ q < i
      BY <1>0, <2>1, <3>1, <3>2, <3>3
    <3>4. CASE p < i /\ ~(q < i)
      <4>1. p = q + 1
        BY <1>0, <2>1, <3>1, <3>2, <3>4
      <4> QED BY <1>0, <1>1, <3>4, <4>1
    <3>5. CASE ~(p < i) /\ q < i
      <4>1. p + 1 = q
        BY <1>0, <2>1, <3>1, <3>2, <3>5
      <4> QED BY <1>0, <1>1, <3>5, <4>1
    <3>6. CASE ~(p < i) /\ ~(q < i)
      <4>1. p + 1 = q + 1
        BY <1>0, <2>1, <3>1, <3>2, <3>6
      <4> QED BY <1>0, <4>1
    <3> QED BY <3>3, <3>4, <3>5, <3>6
  <2> QED BY <1>6, <2>1 DEF IsInjective
<1>8. Range(t) = Range(s) \ {k}
  <2> HIDE DEF t
  <2>1. ASSUME NEW x \in Range(t)
        PROVE  x \in Range(s) \ {k}
    <3>1. PICK j \in 1 .. Len(s) - 1 : x = t[j]
      BY <1>6 DEF Range
    <3>2. x = IF j < i THEN s[j] ELSE s[j + 1]
      BY <1>5, <3>1 DEF t
    <3>3. j \in 1 .. Len(s) /\ j + 1 \in 1 .. Len(s)
      BY <1>0
    <3> QED BY <1>0, <1>1, <3>2, <3>3 DEF Range
  <2>2. ASSUME NEW x \in Range(s) \ {k}
        PROVE  x \in Range(t)
    <3>1. PICK j \in 1 .. Len(s) : x = s[j]
      BY <1>0 DEF Range
    <3>2. j # i
      BY <1>1, <3>1
    <3>3. CASE j < i
      <4>1. j \in 1 .. Len(s) - 1 /\ t[j] = x
        BY <1>0, <1>1, <1>5, <3>1, <3>3 DEF t
      <4> QED BY <1>6, <4>1 DEF Range
    <3>4. CASE j > i
      <4>1. j - 1 \in 1 .. Len(s) - 1 /\ ~(j - 1 < i) /\ (j - 1) + 1 = j
        BY <1>0, <1>1, <3>1, <3>4
      <4>2. t[j - 1] = x
        BY <1>5, <3>1, <4>1 DEF t
      <4> QED BY <1>6, <4>1, <4>2 DEF Range
    <3> QED BY <1>0, <1>1, <3>1, <3>2, <3>3, <3>4
  <2> QED BY <2>1, <2>2
<1>9. Lacks(t, s, i, Len(s))
  BY <1>5 DEF Lacks
<1> QED BY <1>1, <1>4, <1>5, <1>7, <1>8, <1>9 DEF Listing

(* Putting a new key in front.                                             *)
LEMMA ConsProperties ==
  ASSUME NEW s, Listing(s), NEW k \in Keys, k \notin Range(s)
  PROVE  /\ Listing(Cons(k, s))
         /\ Len(Cons(k, s)) = Len(s) + 1
         /\ Range(Cons(k, s)) = Range(s) \cup {k}
         /\ Cons(k, s)[1] = k /\ Lacks(s, Cons(k, s), 1, Len(s) + 1)
<1>0. /\ s \in Seq(Keys)
      /\ Len(s) \in Nat
      /\ DOMAIN s = 1 .. Len(s)
      /\ \A p, q \in 1 .. Len(s) : s[p] = s[q] => p = q
  BY LenProperties DEF Listing, IsInjective
<1>1. <<k>> \in Seq(Keys) /\ Len(<<k>>) = 1 /\ <<k>>[1] = k
  OBVIOUS
<1> DEFINE t == Cons(k, s)
<1>2. /\ t \in Seq(Keys)
      /\ Len(t) = Len(s) + 1
      /\ \A j \in 1 .. Len(s) + 1 : t[j] = IF j = 1 THEN k ELSE s[j - 1]
  <2>1. /\ <<k>> \o s \in Seq(Keys)
        /\ Len(<<k>> \o s) = Len(<<k>>) + Len(s)
        /\ \A j \in 1 .. Len(<<k>>) + Len(s) :
              (<<k>> \o s)[j] = IF j <= Len(<<k>>) THEN <<k>>[j] ELSE s[j - Len(<<k>>)]
    BY <1>0, <1>1, ConcatProperties
  <2>2. t = <<k>> \o s
    BY DEF Cons
  <2> HIDE DEF t
  <2>3. Len(<<k>>) + Len(s) = Len(s) + 1
    BY <1>0, <1>1
  <2>4. ASSUME NEW j \in 1 .. Len(s) + 1
        PROVE  t[j] = IF j = 1 THEN k ELSE s[j - 1]
    <3>1. t[j] = IF j <= 1 THEN <<k>>[j] ELSE s[j - 1]
      BY <1>1, <2>1, <2>2, <2>3
    <3> QED BY <1>0, <1>1, <3>1
  <2> QED BY <2>1, <2>2, <2>3, <2>4
<1> HIDE DEF t
<1>3. DOMAIN t = 1 .. Len(s) + 1
  BY <1>2, LenProperties
<1>4. \A j \in 2 .. Len(s) + 1 : t[j] # k
  <2>1. ASSUME NEW j \in 2 .. Len(s) + 1 PROVE t[j] # k
    <3>1. j - 1 \in 1 .. Len(s) /\ t[j] = s[j - 1]
      BY <1>0, <1>2
    <3> QED BY <1>0, <3>1 DEF Range
  <2> QED BY <2>1
<1>5. IsInjective(t)
  <2>1. ASSUME NEW p \in 1 .. Len(s) + 1, NEW q \in 1 .. Len(s) + 1, t[p] = t[q]
        PROVE  p = q
    <3>1. CASE p = 1 \/ q = 1
      BY <1>0, <1>2, <1>4, <2>1, <3>1
    <3>2. CASE p # 1 /\ q # 1
      <4>1. p - 1 \in 1 .. Len(s) /\ q - 1 \in 1 .. Len(s) /\ s[p - 1] = s[q - 1]
        BY <1>0, <1>2, <2>1, <3>2
      <4>2. p - 1 = q - 1
        BY <1>0, <4>1
      <4> QED BY <1>0, <4>2
    <3> QED BY <3>1, <3>2
  <2> QED BY <1>3, <2>1 DEF IsInjective
<1>6. Range(t) = Range(s) \cup {k}
  <2>1. ASSUME NEW x \in Range(t) PROVE x \in Range(s) \cup {k}
    <3>1. PICK j \in 1 .. Len(s) + 1 : x = t[j]
      BY <1>3 DEF Range
    <3>2. j # 1 => j - 1 \in 1 .. Len(s)
      BY <1>0
    <3> QED BY <1>0, <1>2, <3>1, <3>2 DEF Range
  <2>2. k \in Range(t)
    <3>1. 1 \in 1 .. Len(s) + 1 /\ t[1] = k
      BY <1>0, <1>2
    <3> QED BY <1>3, <3>1 DEF Range
  <2>3. ASSUME NEW x \in Range(s) PROVE x \in Range(t)
    <3>1. PICK j \in 1 .. Len(s) : x = s[j]
      BY <1>0 DEF Range
    <3>2. j + 1 \in 1 .. Len(s) + 1 /\ j + 1 # 1 /\ (j + 1) - 1 = j
      BY <1>0
    <3>3. t[j + 1] = x
      BY <1>2, <3>1, <3>2
    <3> QED BY <1>3, <3>2, <3>3 DEF Range
  <2> QED BY <2>1, <2>2, <2>3
<1>7. t[1] = k /\ Lacks(s, t, 1, Len(s) + 1)
  <2>1. t[1] = k
    BY <1>0, <1>2
  <2>2. ASSUME NEW j \in 1 .. (Len(s) + 1) - 1 PROVE s[j] = IF j < 1 THEN t[j] ELSE t[j + 1]
    <3>1. j + 1 \in 1 .. Len(s) + 1 /\ j + 1 # 1 /\ (j + 1) - 1 = j /\ ~(j < 1)
      BY <1>0
    <3> QED BY <1>2, <3>1
  <2> QED BY <2>1, <2>2 DEF Lacks
<1> QED BY <1>2, <1>5, <1>6, <1>7 DEF Listing, t

(* Moving a key to the front changes neither the length nor the members.   *)
LEMMA MoveToFrontProperties ==
  ASSUME NEW s, Listing(s), NEW k \in Range(s)
  PROVE  /\ Listing(MoveToFront(s, k))
         /\ Len(MoveToFront(s, k)) = Len(s)
         /\ Range(MoveToFront(s, k)) = Range(s)
<1>1. k \in Keys /\ Len(s) \in Nat
  BY RangeOfSeq, LenProperties DEF Listing
<1>2. /\ Listing(Without(s, k))
      /\ Len(Without(s, k)) = Len(s) - 1
      /\ Range(Without(s, k)) = Range(s) \ {k}
  BY WithoutProperties
<1>3. /\ Listing(Cons(k, Without(s, k)))
      /\ Len(Cons(k, Without(s, k))) = Len(Without(s, k)) + 1
      /\ Range(Cons(k, Without(s, k))) = Range(Without(s, k)) \cup {k}
  BY <1>1, <1>2, ConsProperties
<1>4. Range(MoveToFront(s, k)) = Range(s)
  BY <1>2, <1>3 DEF MoveToFront
<1> QED BY <1>1, <1>2, <1>3, <1>4 DEF MoveToFront

(* Keeping the first n elements of a list.                                 *)
LEMMA PrefixProperties ==
  ASSUME NEW s, Listing(s), NEW n \in Nat, n <= Len(s)
  PROVE  /\ Listing(SubSeq(s, 1, n))
         /\ Len(SubSeq(s, 1, n)) = n
         /\ \A j \in 1 .. n : SubSeq(s, 1, n)[j] = s[j]
         /\ Range(SubSeq(s, 1, n)) = {s[j] : j \in 1 .. n}
         /\ Range(SubSeq(s, 1, n)) \subseteq Range(s)
<1>0. /\ s \in Seq(Keys)
      /\ Len(s) \in Nat
      /\ DOMAIN s = 1 .. Len(s)
      /\ \A j \in 1 .. Len(s) : s[j] \in Keys
      /\ \A p, q \in 1 .. Len(s) : s[p] = s[q] => p = q
  BY LenProperties, ElementOfSeq DEF Listing, IsInjective
<1> DEFINE t == SubSeq(s, 1, n)
<1>1. /\ t \in Seq(Keys)
      /\ Len(t) = n
      /\ \A j \in 1 .. n : t[j] = s[j]
  <2>1. \A j \in 1 .. n : s[j] \in Keys
    BY <1>0
  <2>2. /\ t \in Seq(Keys)
        /\ Len(t) = IF 1 <= n THEN n - 1 + 1 ELSE 0
        /\ \A j \in 1 .. n - 1 + 1 : t[j] = s[1 + j - 1]
    BY <2>1, SubSeqProperties
  <2> QED BY <2>2
<1> HIDE DEF t
<1>2. DOMAIN t = 1 .. n
  BY <1>1, LenProperties
<1>3. IsInjective(t)
  BY <1>0, <1>1, <1>2 DEF IsInjective
<1>4. Range(t) = {s[j] : j \in 1 .. n}
  BY <1>1, <1>2 DEF Range
<1>5. Range(t) \subseteq Range(s)
  BY <1>0, <1>4 DEF Range
<1> QED BY <1>1, <1>3, <1>4, <1>5 DEF Listing, t

(* A list cut to a bound.                                                  *)
LEMMA ShortenedProperties ==
  ASSUME NEW s, Listing(s), NEW n \in Nat
  PROVE  /\ Listing(Shortened(s, n))
         /\ Len(Shortened(s, n)) <= n
         /\ Range(Shortened(s, n)) \subseteq Range(s)
<1>1. Len(s) \in Nat
  BY LenProperties DEF Listing
<1>2. CASE Len(s) > n
  BY <1>1, <1>2, PrefixProperties DEF Shortened
<1>3. CASE ~(Len(s) > n)
  BY <1>1, <1>3 DEF Shortened
<1> QED BY <1>2, <1>3

(* Cutting off the element at the back.                                    *)
LEMMA FrontProperties ==
  ASSUME NEW s, Listing(s), Len(s) # 0
  PROVE  /\ Listing(Front(s))
         /\ Len(Front(s)) = Len(s) - 1
         /\ Last(s) \in Range(s)
         /\ Range(Front(s)) = Range(s) \ {Last(s)}
         /\ Last(s) = s[Len(s)] /\ Lacks(Front(s), s, Len(s), Len(s))
<1> DEFINE n == Len(s)
<1>0. /\ n \in Nat /\ n # 0
      /\ DOMAIN s = 1 .. n
      /\ \A p, q \in 1 .. n : s[p] = s[q] => p = q
  BY LenProperties DEF Listing, IsInjective
<1>1. Front(s) = SubSeq(s, 1, n - 1) /\ Last(s) = s[n]
  BY DEF Front, Last
<1>2. n = Len(s)
  OBVIOUS
<1> HIDE DEF n
<1>3. n - 1 \in Nat /\ n - 1 <= n /\ n \in 1 .. n
  BY <1>0
<1>4. /\ Listing(SubSeq(s, 1, n - 1))
      /\ Len(SubSeq(s, 1, n - 1)) = n - 1
      /\ Range(SubSeq(s, 1, n - 1)) = {s[j] : j \in 1 .. n - 1}
      /\ \A j \in 1 .. n - 1 : SubSeq(s, 1, n - 1)[j] = s[j]
  BY <1>2, <1>3, PrefixProperties
<1>5. Range(s) \ {s[n]} = {s[j] : j \in 1 .. n - 1}
  <2>1. ASSUME NEW x \in Range(s) \ {s[n]} PROVE x \in {s[j] : j \in 1 .. n - 1}
    <3>1. PICK j \in 1 .. n : x = s[j]
      BY <1>0 DEF Range
    <3>2. j # n
      BY <3>1
    <3>3. j \in 1 .. n - 1
      BY <1>0, <3>1, <3>2
    <3> QED BY <3>1, <3>3
  <2>2. ASSUME NEW j \in 1 .. n - 1 PROVE s[j] \in Range(s) \ {s[n]}
    <3>1. j \in 1 .. n /\ j # n
      BY <1>0
    <3> QED BY <1>0, <1>3, <3>1 DEF Range
  <2> QED BY <2>1, <2>2
<1>6. s[n] \in Range(s)
  BY <1>0, <1>3 DEF Range
<1>7. Lacks(SubSeq(s, 1, n - 1), s, n, n)
  BY <1>0, <1>4 DEF Lacks
<1> QED BY <1>1, <1>2, <1>4, <1>5, <1>6, <1>7

-----------------------------------------------------------------------------
(* Types.                                                                  *)

StoredType == items \in [Keys -> Entry \cup {None}]

(* A stored entry is an entry.                                             *)
LEMMA PresentIsEntry ==
  ASSUME NEW k \in Keys, StoredType, Present(k)
  PROVE  items[k] \in Entry
BY DEF StoredType, Present

(* The time to live given to an entry is a number.                         *)
LEMMA ClampType ==
  ASSUME config \in Config, NEW ttl \in TTLs
  PROVE  clampTTL(ttl) \in Nat
BY CacheAssumption DEF Config, clampTTL

(* Set builds an entry.                                                    *)
LEMMA NewEntryType ==
  ASSUME now \in Nat, config \in Config, NEW v \in Values, NEW ttl \in TTLs
  PROVE  NewEntry(v, ttl) \in Entry
<1>1. clampTTL(ttl) \in Nat
  BY ClampType
<1>2. config.staleWindow \in Nat
  BY DEF Config
<1>3. 0 \in 0 .. PrefetchHits
  BY CacheAssumption
<1> QED BY <1>1, <1>2, <1>3 DEF NewEntry, Entry

(* Counting a lookup gives an entry and leaves its mark alone.             *)
LEMMA HitType ==
  ASSUME NEW e \in Entry
  PROVE  Hit(e) \in Entry /\ Hit(e).refreshing = e.refreshing
<1>1. PrefetchHits \in Nat
  BY CacheAssumption
<1>2. e.hits \in 0 .. PrefetchHits
  BY DEF Entry
<1>3. (IF e.hits < PrefetchHits THEN e.hits + 1 ELSE e.hits) \in 0 .. PrefetchHits
  BY <1>1, <1>2
<1> QED BY <1>3 DEF Hit, Entry

(* And it leaves the message alone.                                        *)
LEMMA HitKeepsValue ==
  ASSUME NEW e \in Entry
  PROVE  Hit(e).value = e.value
BY DEF Hit, Entry

(* Whatever is posted, the limits in force stay in order and above zero.   *)
LEMMA NewConfigType ==
  ASSUME config \in Config, NEW u \in Updates
  PROVE  NewConfig(u) \in Config
<1>1. u \in ConfigUpdate
  BY CacheAssumption
<1>2. ASSUME NEW value \in Int \cup {None}, NEW least \in Nat, NEW current \in Nat, current >= least
      PROVE  Posted(value, least, current) \in Nat /\ Posted(value, least, current) >= least
  BY <1>2 DEF Posted
<1>3. \A a, b \in Nat : AtLeast(a, b) \in Nat /\ AtLeast(a, b) >= b
  BY DEF AtLeast
<1> DEFINE entries == Posted(u.maxEntries, 1, config.maxEntries)
           minTTL == Posted(u.minTTL, 1, config.minTTL)
           maxTTL == Posted(u.maxTTL, 1, config.maxTTL)
           window == Posted(u.staleWindow, 0, config.staleWindow)
           age == Posted(u.staleMaxAge, 0, config.staleMaxAge)
<1>4. /\ entries \in Nat /\ entries >= 1
      /\ minTTL \in Nat /\ minTTL >= 1
      /\ maxTTL \in Nat /\ maxTTL >= 1
      /\ window \in Nat
      /\ age \in Nat
  <2>1. /\ config.maxEntries \in Nat /\ config.maxEntries >= 1
        /\ config.minTTL \in Nat /\ config.minTTL >= 1
        /\ config.maxTTL \in Nat /\ config.maxTTL >= 1
        /\ config.staleWindow \in Nat /\ config.staleWindow >= 0
        /\ config.staleMaxAge \in Nat /\ config.staleMaxAge >= 0
    BY DEF Config
  <2>2. /\ u.maxEntries \in Int \cup {None}
        /\ u.minTTL \in Int \cup {None}
        /\ u.maxTTL \in Int \cup {None}
        /\ u.staleWindow \in Int \cup {None}
        /\ u.staleMaxAge \in Int \cup {None}
    BY <1>1 DEF ConfigUpdate
  <2>3. entries \in Nat /\ entries >= 1
    BY <1>2, <2>1, <2>2
  <2>4. minTTL \in Nat /\ minTTL >= 1
    BY <1>2, <2>1, <2>2
  <2>5. maxTTL \in Nat /\ maxTTL >= 1
    BY <1>2, <2>1, <2>2
  <2>6. window \in Nat /\ age \in Nat
    BY <1>2, <2>1, <2>2
  <2> QED BY <2>3, <2>4, <2>5, <2>6
<1>5. NewConfig(u) = [maxEntries |-> entries, minTTL |-> minTTL, maxTTL |-> AtLeast(maxTTL, minTTL),
                      staleWindow |-> window, staleMaxAge |-> AtLeast(age, window)]
  BY DEF NewConfig
<1> HIDE DEF entries, minTTL, maxTTL, window, age
<1>6. /\ AtLeast(maxTTL, minTTL) \in Nat /\ AtLeast(maxTTL, minTTL) >= minTTL
      /\ AtLeast(age, window) \in Nat /\ AtLeast(age, window) >= window
  BY <1>3, <1>4
<1> QED BY <1>4, <1>5, <1>6 DEF Config

(* A snapshot read back gives entries with no mark, and negative entries.  *)
LEMMA RevivedType ==
  ASSUME NEW snap \in Snapshot
  PROVE  /\ Revived(snap) \in [Keys -> Entry \cup {None}]
         /\ \A k \in Keys : Revived(snap)[k] # None <=> k \in Loadable(snap)
         /\ \A k \in Keys : Revived(snap)[k] # None => Revived(snap)[k].refreshing = FALSE
         /\ NegativeLoaded(snap) \in [Keys -> NegativeEntry \cup {None}]
<1>1. snap.items \in [Keys -> Entry \cup {None}] /\ snap.negative \in [Keys -> NegativeEntry \cup {None}]
  BY DEF Snapshot
<1>2. ASSUME NEW k \in Keys, k \in Loadable(snap)
      PROVE  /\ Revived(snap)[k] \in Entry
             /\ Revived(snap)[k].refreshing = FALSE
  <2>1. snap.items[k] \in Entry
    BY <1>1, <1>2 DEF Loadable
  <2>2. Revived(snap)[k] = [snap.items[k] EXCEPT !.refreshing = FALSE]
    BY <1>2 DEF Revived
  <2> QED BY <2>1, <2>2 DEF Entry
<1>3. ASSUME NEW k \in Keys, k \notin Loadable(snap)
      PROVE  Revived(snap)[k] = None
  BY <1>3 DEF Revived
<1>4. Revived(snap) = [k \in Keys |-> Revived(snap)[k]]
  BY DEF Revived
<1>5. Revived(snap) \in [Keys -> Entry \cup {None}]
  BY <1>2, <1>3, <1>4
<1>6. NegativeLoaded(snap) \in [Keys -> NegativeEntry \cup {None}]
  BY <1>1 DEF NegativeLoaded
<1>7. None \notin Entry
  BY NoneAssumption
<1> QED BY <1>2, <1>3, <1>5, <1>6, <1>7

-----------------------------------------------------------------------------
(* The sizes of the entries f holds under the keys of s.                   *)

Sized(f, s) == s \in Seq(Keys) /\ \A k \in Range(s) : f[k] \in Entry

SizesOf(f, s) == [i \in 1 .. Len(s) |-> Size(s[i], f[s[i]].value)]

LEMMA SumIs ==
  ASSUME NEW s \in Seq(Keys), NEW f, SizesOf(f, s) \in [1 .. Len(s) -> Nat]
  PROVE  \E P : Adds(P, SizesOf(f, s), Len(s)) /\ SumOfSizes(f, s) = P[Len(s)]
<1> DEFINE n == Len(s)
           w == SizesOf(f, s)
           step == [p \in Nat \X (1 .. n) |-> p[1] + w[p[2]]]
           Eq(F) == F = [t \in SUBSET (1 .. n) |->
                           IF t = {} THEN 0 ELSE F[t \ {Max(t)}] + Size(s[Max(t)], f[s[Max(t)]].value)]
           G == CHOOSE F : Eq(F)
<1>1. n \in Nat /\ DOMAIN s = 1 .. n /\ w \in [1 .. n -> Nat]
      /\ \A i \in 1 .. n : w[i] = Size(s[i], f[s[i]].value)
  BY DEF SizesOf
<1>2. SumOfSizes(f, s) = G[1 .. n]
  BY <1>1 DEF SumOfSizes, FoldLeft, MapThenFoldSet
<1>3. Eq(G)
  <2> HIDE DEF w, n
  <2>1. step \in [Nat \X (1 .. n) -> Nat]
    BY <1>1
  <2>2. PICK F \in [SUBSET (1 .. n) -> Nat] : Folds(F, n, step, 0)
    BY <1>1, <2>1, FoldExists
  <2>3. ASSUME NEW t \in SUBSET (1 .. n), t # {}
        PROVE  F[t] = F[t \ {Max(t)}] + Size(s[Max(t)], f[s[Max(t)]].value)
    <3>1. Max(t) \in 1 .. n
      BY <1>1, <2>3, MaxIs
    <3>2. F[t] = step[<<F[t \ {Max(t)}], Max(t)>>] /\ F[t \ {Max(t)}] \in Nat
      BY <2>2, <2>3 DEF Folds
    <3>3. <<F[t \ {Max(t)}], Max(t)>> \in Nat \X (1 .. n)
      BY <3>1, <3>2
    <3> QED BY <1>1, <3>1, <3>2, <3>3
  <2>4. F[{}] = 0 /\ F = [t \in SUBSET (1 .. n) |-> F[t]]
    BY <2>2 DEF Folds
  <2>5. Eq(F)
    BY <2>3, <2>4
  <2> HIDE DEF Eq
  <2> QED BY <2>5
<1> HIDE DEF G, w, n
<1> DEFINE P == [i \in 0 .. n |-> G[1 .. i]]
<1>4. G[{}] = 0
  BY <1>3
<1>5. ASSUME NEW i \in 1 .. n PROVE G[1 .. i] = G[1 .. i - 1] + w[i]
  <2>1. 1 .. i \in SUBSET (1 .. n) /\ i \in Nat /\ i # 0
    BY <1>1
  <2>2. 1 .. i # {} /\ Max(1 .. i) = i /\ (1 .. i) \ {i} = 1 .. i - 1
    BY <2>1, LastOfInterval
  <2>3. G[1 .. i] = G[(1 .. i) \ {Max(1 .. i)}] + Size(s[Max(1 .. i)], f[s[Max(1 .. i)]].value)
    BY <1>3, <2>1, <2>2
  <2> QED BY <1>1, <2>2, <2>3
<1>6. \A i \in 0 .. n : G[1 .. i] \in Nat
  <2> DEFINE S == {i \in Nat : i <= n => G[1 .. i] \in Nat}
  <2>1. 0 \in S
    <3>1. 1 .. 0 = {}
      OBVIOUS
    <3> QED BY <1>4, <3>1
  <2>2. ASSUME NEW i \in Nat, i \in S PROVE i + 1 \in S
    <3> SUFFICES ASSUME i + 1 <= n PROVE G[1 .. i + 1] \in Nat
      OBVIOUS
    <3>1. i + 1 \in 1 .. n /\ (i + 1) - 1 = i /\ G[1 .. i] \in Nat
      BY <1>1, <2>2
    <3>2. G[1 .. i + 1] = G[1 .. i] + w[i + 1]
      BY <1>5, <3>1
    <3> QED BY <1>1, <3>1, <3>2
  <2> HIDE DEF S
  <2>3. Nat \subseteq S
    BY <2>1, <2>2, Induction
  <2> QED BY <1>1, <2>3 DEF S
<1>7. Adds(P, w, n)
  <2>1. P \in [0 .. n -> Nat]
    BY <1>6
  <2>2. P[0] = 0
    <3>1. 1 .. 0 = {} /\ 0 \in 0 .. n
      BY <1>1
    <3> QED BY <1>4, <3>1
  <2>3. ASSUME NEW i \in 1 .. n PROVE P[i] = P[i - 1] + w[i]
    <3>1. i \in 0 .. n /\ i - 1 \in 0 .. n
      BY <1>1
    <3> QED BY <1>5, <3>1
  <2> QED BY <2>1, <2>2, <2>3 DEF Adds
<1>8. P[n] = SumOfSizes(f, s)
  BY <1>1, <1>2
<1> QED BY <1>7, <1>8 DEF w, n

(* The size of an entry is a number.                                       *)
LEMMA SizeType ==
  ASSUME NEW k \in Keys, NEW e \in Entry
  PROVE  Size(k, e.value) \in Nat
<1>1. KeySize[k] \in Nat
  BY CacheAssumption
<1>2. ValueSize[e.value] \in Nat
  BY CacheAssumption DEF Entry
<1> QED BY <1>1, <1>2 DEF Size

(* And so are the sizes of the entries on a list.                          *)
LEMMA SizesType ==
  ASSUME NEW f, NEW s, Sized(f, s)
  PROVE  /\ Len(s) \in Nat
         /\ SizesOf(f, s) \in [1 .. Len(s) -> Nat]
         /\ \A i \in 1 .. Len(s) : SizesOf(f, s)[i] = Size(s[i], f[s[i]].value)
<1>1. Len(s) \in Nat /\ \A i \in 1 .. Len(s) : s[i] \in Keys
  BY LenProperties, ElementOfSeq DEF Sized
<1>2. \A i \in 1 .. Len(s) : f[s[i]] \in Entry
  BY LenProperties DEF Sized, Range
<1>3. \A i \in 1 .. Len(s) : Size(s[i], f[s[i]].value) \in Nat
  BY <1>1, <1>2, SizeType
<1> QED BY <1>1, <1>3 DEF SizesOf

LEMMA SumType ==
  ASSUME NEW f, NEW s, Sized(f, s)
  PROVE  SumOfSizes(f, s) \in Nat
<1>1. Len(s) \in Nat /\ SizesOf(f, s) \in [1 .. Len(s) -> Nat] /\ s \in Seq(Keys)
  BY SizesType DEF Sized
<1>2. PICK P : Adds(P, SizesOf(f, s), Len(s)) /\ SumOfSizes(f, s) = P[Len(s)]
  BY <1>1, SumIs
<1> QED BY <1>1, <1>2 DEF Adds

(* The sum depends on the list and the messages stored under its keys.     *)
LEMMA SumSame ==
  ASSUME NEW f, NEW g, NEW s, Sized(f, s), Sized(g, s),
         \A k \in Range(s) : f[k].value = g[k].value
  PROVE  SumOfSizes(f, s) = SumOfSizes(g, s)
<1>1. /\ Len(s) \in Nat /\ s \in Seq(Keys)
      /\ SizesOf(f, s) \in [1 .. Len(s) -> Nat]
      /\ SizesOf(g, s) \in [1 .. Len(s) -> Nat]
      /\ \A i \in 1 .. Len(s) : SizesOf(f, s)[i] = Size(s[i], f[s[i]].value)
      /\ \A i \in 1 .. Len(s) : SizesOf(g, s)[i] = Size(s[i], g[s[i]].value)
  BY SizesType DEF Sized
<1>2. PICK P : Adds(P, SizesOf(f, s), Len(s)) /\ SumOfSizes(f, s) = P[Len(s)]
  BY <1>1, SumIs
<1>3. PICK Q : Adds(Q, SizesOf(g, s), Len(s)) /\ SumOfSizes(g, s) = Q[Len(s)]
  BY <1>1, SumIs
<1>4. \A i \in 1 .. Len(s) : SizesOf(f, s)[i] = SizesOf(g, s)[i]
  <2>1. \A i \in 1 .. Len(s) : s[i] \in Range(s)
    BY LenProperties DEF Sized, Range
  <2> QED BY <1>1, <2>1
<1>5. P[Len(s)] = Q[Len(s)]
  BY <1>1, <1>2, <1>3, <1>4, AddsAgree
<1> QED BY <1>2, <1>3, <1>5

(* What is stored under other keys does not matter.                        *)
LEMMA SumElsewhere ==
  ASSUME NEW f, NEW g, NEW s, Sized(f, s), \A k \in Range(s) : g[k] = f[k]
  PROVE  Sized(g, s) /\ SumOfSizes(g, s) = SumOfSizes(f, s)
<1>1. Sized(g, s)
  BY DEF Sized
<1> QED BY <1>1, SumSame

(* A list t that lacks one of the keys of s, at p: the sums differ by its  *)
(* size.                                                                   *)
LEMMA SumLess ==
  ASSUME NEW f, NEW s, NEW t, Sized(f, s), Sized(f, t), NEW p \in 1 .. Len(s), Len(t) = Len(s) - 1,
         Lacks(t, s, p, Len(s))
  PROVE  SumOfSizes(f, s) = SumOfSizes(f, t) + Size(s[p], f[s[p]].value)
<1> DEFINE w == SizesOf(f, s)
           v == SizesOf(f, t)
<1>1. /\ Len(s) \in Nat /\ s \in Seq(Keys) /\ t \in Seq(Keys) /\ Len(t) \in Nat
      /\ w \in [1 .. Len(s) -> Nat]
      /\ v \in [1 .. Len(t) -> Nat]
      /\ \A i \in 1 .. Len(s) : w[i] = Size(s[i], f[s[i]].value)
      /\ \A i \in 1 .. Len(t) : v[i] = Size(t[i], f[t[i]].value)
  BY SizesType DEF Sized
<1>2. PICK P : Adds(P, w, Len(s)) /\ SumOfSizes(f, s) = P[Len(s)]
  BY <1>1, SumIs
<1>3. PICK Q : Adds(Q, v, Len(t)) /\ SumOfSizes(f, t) = Q[Len(t)]
  BY <1>1, SumIs
<1> HIDE DEF w, v
<1>4. ASSUME NEW i \in 1 .. Len(s) - 1 PROVE v[i] = IF i < p THEN w[i] ELSE w[i + 1]
  <2>1. i \in 1 .. Len(t) /\ i \in 1 .. Len(s) /\ i + 1 \in 1 .. Len(s)
    BY <1>1
  <2>2. t[i] = IF i < p THEN s[i] ELSE s[i + 1]
    BY DEF Lacks
  <2> QED BY <1>1, <2>1, <2>2
<1>5. P[Len(s)] = Q[Len(t)] + w[p]
  <2>1. Lacks(v, w, p, Len(s))
    BY <1>4 DEF Lacks
  <2> SUFFICES ASSUME NEW n \in Nat, NEW m \in Nat, n = Len(s), m = Len(t)
               PROVE  P[n] = Q[m] + w[p]
    BY <1>1
  <2>2. /\ m = n - 1 /\ p \in 1 .. n /\ w \in [1 .. n -> Nat]
        /\ Adds(P, w, n) /\ Adds(Q, v, m) /\ Lacks(v, w, p, n)
    BY <1>1, <1>2, <1>3, <2>1
  <2> QED BY <2>2, AddsWithout
<1> QED BY <1>1, <1>2, <1>3, <1>5

(* Folding Released over the end of a list, from the back, leaves the sum  *)
(* of its beginning.                                                       *)
LEMMA ReleasedBeyondIs ==
  ASSUME NEW f, NEW s, Sized(f, s), NEW n \in Nat
  PROVE  ReleasedBeyond(s, f, n, SumOfSizes(f, s)) = SumOfSizes(f, Shortened(s, n))
<1> DEFINE L == Len(s)
           w == SizesOf(f, s)
           base == SumOfSizes(f, s)
           r == Reverse(SubSeq(s, n + 1, L))
           d == Len(r)
           step == [p \in Nat \X (1 .. d) |-> Released(p[1], w[L + 1 - p[2]])]
           Eq(F) == F = [t \in SUBSET (1 .. d) |->
                           IF t = {} THEN base
                           ELSE Released(F[t \ {Max(t)}], Size(r[Max(t)], f[r[Max(t)]].value))]
           G == CHOOSE F : Eq(F)
<1>1. /\ L \in Nat /\ s \in Seq(Keys) /\ DOMAIN s = 1 .. L /\ \A i \in 1 .. L : s[i] \in Keys
      /\ w \in [1 .. L -> Nat]
      /\ \A i \in 1 .. L : w[i] = Size(s[i], f[s[i]].value)
  BY SizesType, LenProperties, ElementOfSeq DEF Sized
<1>2. PICK P : Adds(P, w, L) /\ base = P[L]
  BY <1>1, SumIs
<1>3. /\ d = (IF n < L THEN L - n ELSE 0)
      /\ DOMAIN r = 1 .. d
      /\ \A j \in 1 .. d : r[j] = s[L + 1 - j]
  <2> DEFINE b == SubSeq(s, n + 1, L)
  <2>1. /\ b \in Seq(Keys)
        /\ Len(b) = IF n + 1 <= L THEN L - (n + 1) + 1 ELSE 0
        /\ \A j \in 1 .. L - (n + 1) + 1 : b[j] = s[(n + 1) + j - 1]
    <3>1. \A j \in n + 1 .. L : s[j] \in Keys
      BY <1>1
    <3> QED BY <1>1, <3>1, SubSeqProperties
  <2>2. Len(b) = IF n < L THEN L - n ELSE 0
    BY <1>1, <2>1
  <2>3. r = [j \in 1 .. Len(b) |-> b[(Len(b) - j) + 1]]
    BY DEF Reverse
  <2> HIDE DEF b, L
  <2>4. d = Len(b) /\ DOMAIN r = 1 .. Len(b)
    <3> HIDE DEF r
    <3>1. Len(b) \in Nat
      BY <2>1, LenProperties
    <3>2. \A j \in 1 .. Len(b) : b[(Len(b) - j) + 1] \in Keys
      BY <2>1, <3>1, ElementOfSeq
    <3>3. r \in Seq(Keys) /\ DOMAIN r = 1 .. Len(b)
      BY <2>3, <3>1, <3>2, IsASeq
    <3>4. DOMAIN r = 1 .. Len(r) /\ Len(r) \in Nat
      BY <3>3, LenProperties
    <3> QED BY <3>1, <3>3, <3>4
  <2>5. ASSUME NEW j \in 1 .. Len(b) PROVE r[j] = s[L + 1 - j]
    <3>1. n < L /\ Len(b) = L - n
      BY <1>1, <2>2
    <3>2. (Len(b) - j) + 1 \in 1 .. L - (n + 1) + 1 /\ (n + 1) + ((Len(b) - j) + 1) - 1 = L + 1 - j
      BY <1>1, <3>1
    <3> QED BY <2>1, <2>3, <3>2
  <2> QED BY <2>2, <2>4, <2>5
<1>4. ReleasedBeyond(s, f, n, base) = G[1 .. d]
  BY <1>3 DEF ReleasedBeyond, FoldLeft, MapThenFoldSet
<1> HIDE DEF L, w, base, r, d
<1>5. d \in Nat /\ d <= L /\ \A j \in 1 .. d : L + 1 - j \in 1 .. L /\ w[L + 1 - j] = Size(r[j], f[r[j]].value)
  BY <1>1, <1>3
<1>6. P \in [0 .. L -> Nat] /\ P[0] = 0 /\ \A i \in 1 .. L : P[i] = P[i - 1] + w[i]
  BY <1>2 DEF Adds
<1>7. Eq(G)
  <2>1. step \in [Nat \X (1 .. d) -> Nat]
    <3>1. ASSUME NEW a \in Nat, NEW j \in 1 .. d PROVE Released(a, w[L + 1 - j]) \in Nat
      <4>1. w[L + 1 - j] \in Nat
        BY <1>1, <1>5
      <4> QED BY <4>1 DEF Released
    <3> QED BY <3>1
  <2>2. PICK F \in [SUBSET (1 .. d) -> Nat] : Folds(F, d, step, base)
    <3>1. base \in Nat
      BY <1>1, <1>2, <1>6
    <3> QED BY <1>5, <2>1, <3>1, FoldExists
  <2>3. ASSUME NEW t \in SUBSET (1 .. d), t # {}
        PROVE  F[t] = Released(F[t \ {Max(t)}], Size(r[Max(t)], f[r[Max(t)]].value))
    <3>1. Max(t) \in 1 .. d
      BY <1>5, <2>3, MaxIs
    <3>2. F[t] = step[<<F[t \ {Max(t)}], Max(t)>>] /\ F[t \ {Max(t)}] \in Nat
      BY <2>2, <2>3 DEF Folds
    <3>3. <<F[t \ {Max(t)}], Max(t)>> \in Nat \X (1 .. d)
      BY <3>1, <3>2
    <3> QED BY <1>5, <3>1, <3>2, <3>3
  <2>4. F[{}] = base /\ F = [t \in SUBSET (1 .. d) |-> F[t]]
    BY <2>2 DEF Folds
  <2>5. Eq(F)
    BY <2>3, <2>4
  <2> HIDE DEF Eq
  <2> QED BY <2>5
<1> HIDE DEF G
<1> DEFINE S == {j \in Nat : j <= d => G[1 .. j] = P[L - j]}
<1>8. 0 \in S
  <2>1. 1 .. 0 = {} /\ L - 0 = L
    BY <1>1
  <2>2. {} \in SUBSET (1 .. d)
    OBVIOUS
  <2> QED BY <1>2, <1>7, <2>1, <2>2
<1>9. ASSUME NEW j \in Nat, j \in S PROVE j + 1 \in S
  <2> SUFFICES ASSUME j + 1 <= d PROVE G[1 .. j + 1] = P[L - (j + 1)]
    OBVIOUS
  <2>1. 1 .. j + 1 \in SUBSET (1 .. d) /\ j + 1 \in 1 .. d
    BY <1>5
  <2>2. 1 .. j + 1 # {} /\ Max(1 .. j + 1) = j + 1 /\ (1 .. j + 1) \ {j + 1} = 1 .. (j + 1) - 1
    BY LastOfInterval, j + 1 # 0, j + 1 \in Nat
  <2>3. (j + 1) - 1 = j
    OBVIOUS
  <2>4. G[1 .. j + 1] = Released(G[1 .. j], w[L + 1 - (j + 1)])
    BY <1>5, <1>7, <2>1, <2>2, <2>3
  <2>5. /\ L - j \in 1 .. L /\ L + 1 - (j + 1) = L - j /\ L - (j + 1) = (L - j) - 1
        /\ (L - j) - 1 \in 0 .. L
    BY <1>1, <1>5
  <2>6. P[L - j] = P[(L - j) - 1] + w[L - j] /\ P[(L - j) - 1] \in Nat /\ w[L - j] \in Nat
    BY <1>1, <1>6, <2>5
  <2>7. G[1 .. j] = P[L - j]
    BY <1>5, <1>9
  <2> QED BY <2>4, <2>5, <2>6, <2>7 DEF Released
<1> HIDE DEF S
<1>10. d \in S
  BY <1>5, <1>8, <1>9, Induction
<1>11. G[1 .. d] = P[L - d]
  BY <1>5, <1>10 DEF S
<1>12. SumOfSizes(f, Shortened(s, n)) = P[L - d]
  <2>1. CASE n < L
    <3> DEFINE t == SubSeq(s, 1, n)
    <3>1. t \in Seq(Keys) /\ Len(t) = n /\ \A j \in 1 .. n : t[j] = s[j]
      <4>1. \A j \in 1 .. n : s[j] \in Keys
        BY <1>1, <2>1
      <4>2. /\ t \in Seq(Keys)
            /\ Len(t) = IF 1 <= n THEN n - 1 + 1 ELSE 0
            /\ \A j \in 1 .. n - 1 + 1 : t[j] = s[1 + j - 1]
        BY <4>1, SubSeqProperties
      <4> QED BY <4>2
    <3>2. Shortened(s, n) = t
      BY <1>1, <2>1 DEF Shortened, L
    <3> HIDE DEF t
    <3>3. Sized(f, t)
      <4>1. \A j \in 1 .. n : j \in 1 .. L
        BY <1>1, <2>1
      <4>2. \A j \in 1 .. n : s[j] \in Range(s)
        BY <1>1, <4>1 DEF Range
      <4>3. Range(t) \subseteq Range(s)
        <5>1. DOMAIN t = 1 .. n
          BY <3>1, LenProperties
        <5> QED BY <3>1, <4>2, <5>1 DEF Range
      <4> QED BY <3>1, <4>3 DEF Sized
    <3>4. /\ SizesOf(f, t) \in [1 .. Len(t) -> Nat]
          /\ \A i \in 1 .. Len(t) : SizesOf(f, t)[i] = Size(t[i], f[t[i]].value)
      BY <3>3, SizesType
    <3>5. PICK Q : Adds(Q, SizesOf(f, t), Len(t)) /\ SumOfSizes(f, t) = Q[Len(t)]
      BY <3>1, <3>4, SumIs
    <3>6. \A i \in 1 .. n : w[i] = SizesOf(f, t)[i]
      <4>1. \A i \in 1 .. n : i \in 1 .. L
        BY <1>1, <2>1
      <4> QED BY <1>1, <3>1, <3>4, <4>1
    <3>7. P[n] = Q[n]
      BY <1>1, <1>2, <2>1, <3>1, <3>5, <3>6, AddsAgree
    <3>8. L - d = n
      BY <1>1, <1>3, <2>1
    <3> QED BY <3>1, <3>2, <3>5, <3>7, <3>8
  <2>2. CASE ~(n < L)
    <3>1. Shortened(s, n) = s /\ L - d = L
      BY <1>1, <1>3, <2>2 DEF Shortened, L
    <3> QED BY <1>2, <3>1 DEF base
  <2> QED BY <2>1, <2>2
<1> QED BY <1>4, <1>11, <1>12 DEF base

-----------------------------------------------------------------------------
(* The inductive invariant.                                                *)

StoreInv ==
    /\ Listing(lru)
    /\ StoredType
    /\ ListMatchesMap
    /\ WithinCapacity
    /\ RefreshHasOwner

(* What is renamed over the snapshot is a whole snapshot.                  *)
DiskInv == SnapshotIsWhole /\ (persist = "written" => tmp \in Snapshot)

IInv == TypeOK /\ StoreInv /\ DiskInv

(* The keys on the list are the keys stored.                               *)
LEMMA ListedIffPresent ==
  ASSUME StoreInv, NEW k \in Keys
  PROVE  Present(k) <=> k \in Range(lru)
BY DEF StoreInv, ListMatchesMap

(* removeElementLocked keeps the list and the map in agreement.            *)
LEMMA DropKeepsStore ==
  ASSUME StoreInv, NEW k \in Keys, Present(k), Drop(k), config' = config, refreshes' = refreshes,
         config \in Config
  PROVE  StoreInv'
<1>1. k \in Range(lru)
  BY ListedIffPresent
<1>2. /\ Listing(lru')
      /\ Len(lru') = Len(lru) - 1
      /\ Range(lru') = Range(lru) \ {k}
  BY <1>1, WithoutProperties DEF Drop, StoreInv
<1>3. items' = [items EXCEPT ![k] = None]
  BY DEF Drop
<1>4. StoredType'
  BY <1>3 DEF StoreInv, StoredType
<1>5. ListMatchesMap'
  BY <1>2, <1>3 DEF StoreInv, StoredType, ListMatchesMap, Present, Listing
<1>6. WithinCapacity'
  <2>1. Len(lru) \in Nat /\ config.maxEntries \in Nat
    BY LenProperties DEF StoreInv, Listing, Config
  <2> QED BY <1>2, <2>1 DEF StoreInv, WithinCapacity
<1>7. RefreshHasOwner'
  BY <1>3 DEF StoreInv, StoredType, RefreshHasOwner, Present
<1> QED BY <1>2, <1>4, <1>5, <1>6, <1>7 DEF StoreInv

(* Moving a stored key to the front and storing an entry under it.         *)
LEMMA TouchKeepsStore ==
  ASSUME StoreInv, NEW k \in Keys, Present(k), NEW e \in Entry,
         lru' = MoveToFront(lru, k), items' = [items EXCEPT ![k] = e], config' = config,
         RefreshHasOwner'
  PROVE  StoreInv'
<1>1. k \in Range(lru)
  BY ListedIffPresent
<1>2. /\ Listing(lru')
      /\ Len(lru') = Len(lru)
      /\ Range(lru') = Range(lru)
  BY <1>1, MoveToFrontProperties DEF StoreInv
<1>3. e # None
  BY NoneAssumption
<1>4. StoredType'
  BY DEF StoreInv, StoredType
<1>5. ListMatchesMap'
  BY <1>2, <1>3 DEF StoreInv, StoredType, ListMatchesMap, Present, Listing
<1>6. WithinCapacity'
  BY <1>2 DEF StoreInv, WithinCapacity
<1> QED BY <1>2, <1>4, <1>5, <1>6 DEF StoreInv

(* An empty list and an empty map.                                         *)
LEMMA EmptyStore ==
  ASSUME lru' = << >>, items' = Empty, config' \in Config
  PROVE  StoreInv'
<1>1. Listing(lru') /\ Range(lru') = {} /\ Len(lru') = 0
  BY DEF Listing, IsInjective, Range
<1>2. StoredType'
  BY DEF StoredType, Empty
<1>3. ListMatchesMap'
  BY <1>1 DEF ListMatchesMap, Present, Empty, Listing
<1>4. WithinCapacity'
  <2>1. config'.maxEntries \in Nat
    BY DEF Config
  <2> QED BY <1>1, <2>1 DEF WithinCapacity
<1>5. RefreshHasOwner'
  BY DEF RefreshHasOwner, Present, Empty
<1> QED BY <1>1, <1>2, <1>3, <1>4, <1>5 DEF StoreInv

(* Cutting a list that names the keys of a map, and keeping in the map     *)
(* what is left on the list.                                               *)
LEMMA ShortenKeepsStore ==
  ASSUME NEW s, Listing(s), NEW f \in [Keys -> Entry \cup {None}],
         \A k \in Keys : f[k] # None <=> k \in Range(s),
         config' \in Config,
         lru' = Shortened(s, config'.maxEntries), items' = Kept(f, lru'),
         \A k \in Keys : (f[k] # None /\ f[k].refreshing) => refreshes'[k] > 0
  PROVE  StoreInv'
<1>1. config'.maxEntries \in Nat
  BY DEF Config
<1>2. /\ Listing(lru')
      /\ Len(lru') <= config'.maxEntries
      /\ Range(lru') \subseteq Range(s)
  BY <1>1, ShortenedProperties
<1>3. items' = [k \in Keys |-> IF k \in Range(lru') THEN f[k] ELSE None]
  BY DEF Kept
<1>4. StoredType'
  BY <1>3 DEF StoredType
<1>5. ListMatchesMap'
  BY <1>2, <1>3 DEF ListMatchesMap, Present, Listing
<1>6. RefreshHasOwner'
  BY <1>3 DEF RefreshHasOwner, Present
<1> QED BY <1>2, <1>4, <1>5, <1>6 DEF StoreInv, WithinCapacity

(* Set of a new key, with the eviction it may need.                        *)
LEMMA InsertKeepsStore ==
  ASSUME TypeOK, StoreInv, NEW k \in Keys, NEW v \in Values, NEW ttl \in TTLs, Insert(k, v, ttl)
  PROVE  StoreInv'
<1> DEFINE grown == Cons(k, lru)
           added == [items EXCEPT ![k] = NewEntry(v, ttl)]
           oldest == Last(grown)
<1>1. k \notin Range(lru)
  BY ListedIffPresent DEF Insert
<1>2. /\ Listing(grown)
      /\ Len(grown) = Len(lru) + 1
      /\ Range(grown) = Range(lru) \cup {k}
  BY <1>1, ConsProperties DEF StoreInv
<1>3. NewEntry(v, ttl) \in Entry /\ NewEntry(v, ttl) # None /\ NewEntry(v, ttl).refreshing = FALSE
  <2>1. NewEntry(v, ttl) \in Entry
    BY NewEntryType DEF TypeOK
  <2>2. NewEntry(v, ttl).refreshing = FALSE
    BY DEF NewEntry
  <2> QED BY <2>1, <2>2, NoneAssumption
<1>4. /\ added \in [Keys -> Entry \cup {None}]
      /\ \A x \in Keys : added[x] # None <=> x \in Range(grown)
      /\ \A x \in Keys : (added[x] # None /\ added[x].refreshing) => refreshes'[x] > 0
  <2>1. added \in [Keys -> Entry \cup {None}]
    BY <1>3 DEF StoreInv, StoredType
  <2>2. \A x \in Keys : added[x] # None <=> x \in Range(grown)
    BY <1>2, <1>3 DEF StoreInv, StoredType, ListMatchesMap, Present
  <2>3. refreshes' = refreshes
    BY DEF Insert
  <2>4. \A x \in Keys : (added[x] # None /\ added[x].refreshing) => refreshes[x] > 0
    BY <1>3 DEF StoreInv, StoredType, RefreshHasOwner, Present
  <2> QED BY <2>1, <2>2, <2>3, <2>4
<1>5. /\ lru' = IF Len(grown) > config.maxEntries THEN Front(grown) ELSE grown
      /\ items' = IF Len(grown) > config.maxEntries THEN [added EXCEPT ![oldest] = None] ELSE added
      /\ config' = config
  BY DEF Insert
<1>6. /\ Len(lru) \in Nat /\ config.maxEntries \in Nat
      /\ Len(lru) <= config.maxEntries
  BY LenProperties DEF StoreInv, Listing, WithinCapacity, TypeOK, Config
<1> HIDE DEF grown, added, oldest
<1>7. CASE Len(grown) > config.maxEntries
  <2>1. Len(grown) # 0
    BY <1>2, <1>6
  <2>2. /\ Listing(Front(grown))
        /\ Len(Front(grown)) = Len(grown) - 1
        /\ oldest \in Range(grown)
        /\ Range(Front(grown)) = Range(grown) \ {oldest}
    BY <1>2, <2>1, FrontProperties DEF oldest
  <2>3. lru' = Front(grown) /\ items' = [added EXCEPT ![oldest] = None]
    BY <1>5, <1>7
  <2>4. StoredType'
    BY <1>4, <2>3 DEF StoredType
  <2>5. ListMatchesMap'
    BY <1>4, <2>2, <2>3 DEF ListMatchesMap, Present, Listing
  <2>6. WithinCapacity'
    BY <1>2, <1>5, <1>6, <2>2, <2>3 DEF WithinCapacity
  <2>7. RefreshHasOwner'
    BY <1>4, <2>3 DEF RefreshHasOwner, Present
  <2> QED BY <2>2, <2>3, <2>4, <2>5, <2>6, <2>7 DEF StoreInv
<1>8. CASE ~(Len(grown) > config.maxEntries)
  <2>1. lru' = grown /\ items' = added
    BY <1>5, <1>8
  <2>2. StoredType'
    BY <1>4, <2>1 DEF StoredType
  <2>3. ListMatchesMap'
    BY <1>2, <1>4, <2>1 DEF ListMatchesMap, Present, Listing
  <2>4. WithinCapacity'
    BY <1>2, <1>5, <1>6, <1>8, <2>1 DEF WithinCapacity
  <2>5. RefreshHasOwner'
    BY <1>4, <2>1 DEF RefreshHasOwner, Present
  <2> QED BY <1>2, <2>1, <2>2, <2>3, <2>4, <2>5 DEF StoreInv
<1> QED BY <1>7, <1>8

(* Load goes through the entries it keeps in some order.                   *)
LEMMA LoadedOrder ==
  ASSUME TypeOK, StartLoad
  PROVE  \E order : /\ Listing(order) /\ Range(order) = Loadable(file)
                    /\ Sized(Revived(file), order)
                    /\ LoadSnapshot(file, order)
<1> DEFINE L == Loadable(file)
<1>1. file \in Snapshot
  BY DEF TypeOK, StartLoad, Files
<1>2. PICK order \in Bijection(1 .. Cardinality(L), L) : LoadSnapshot(file, order)
  BY DEF StartLoad
<1>3. L \subseteq Keys /\ Cardinality(L) \in Nat
  <2>1. L \subseteq Keys
    BY DEF Loadable
  <2>2. IsFiniteSet(L)
    BY <2>1, CacheAssumption, FS_Subset
  <2> QED BY <2>1, <2>2, FS_CardinalityType
<1>4. /\ order \in [1 .. Cardinality(L) -> L]
      /\ IsInjective(order)
      /\ \A k \in L : \E j \in 1 .. Cardinality(L) : order[j] = k
  BY <1>2 DEF Bijection, Injection, Surjection
<1>5. \A k \in L : Revived(file)[k] \in Entry
  BY <1>1, <1>3, RevivedType
<1> HIDE DEF L
<1>6. Listing(order) /\ Range(order) = L
  <2>1. order \in Seq(Keys)
    BY <1>3, <1>4, IsASeq
  <2>2. DOMAIN order = 1 .. Cardinality(L)
    BY <1>4
  <2> QED BY <1>4, <2>1, <2>2 DEF Listing, Range
<1>7. Sized(Revived(file), order)
  BY <1>5, <1>6 DEF Sized, Listing
<1> QED BY <1>2, <1>6, <1>7 DEF L

(* Restart from a snapshot.                                                *)
LEMMA LoadKeepsStore ==
  ASSUME TypeOK, StartLoad
  PROVE  StoreInv' /\ negative' \in [Keys -> NegativeEntry \cup {None}]
<1>1. file \in Snapshot
  BY DEF TypeOK, StartLoad, Files
<1> DEFINE L == Loadable(file)
           f == Revived(file)
<1>2. PICK order : Listing(order) /\ Range(order) = L /\ LoadSnapshot(file, order)
  BY LoadedOrder
<1>3. /\ f \in [Keys -> Entry \cup {None}]
      /\ \A k \in Keys : f[k] # None <=> k \in L
      /\ \A k \in Keys : f[k] # None => f[k].refreshing = FALSE
      /\ NegativeLoaded(file) \in [Keys -> NegativeEntry \cup {None}]
  BY <1>1, RevivedType
<1> HIDE DEF L, f
<1>4. /\ lru' = Shortened(order, config.maxEntries)
      /\ items' = Kept(f, lru')
      /\ negative' = NegativeLoaded(file)
      /\ config' = config
  BY <1>2 DEF LoadSnapshot, StartLoad, f
<1>5. config' \in Config
  BY <1>4 DEF TypeOK
<1>6. StoreInv'
  BY <1>2, <1>3, <1>4, <1>5, ShortenKeepsStore
<1> QED BY <1>3, <1>4, <1>6

(* Every step of the cache keeps the invariant.                            *)
LEMMA StepKeepsInvariant == IInv /\ [Next]_vars => IInv'
<1> SUFFICES ASSUME TypeOK, StoreInv, DiskInv, [Next]_vars
             PROVE  TypeOK' /\ StoreInv' /\ DiskInv'
  BY DEF IInv
<1>0. /\ config \in Config
      /\ StoredType
      /\ \A k \in Keys : Present(k) => items[k] \in Entry
  BY DEF TypeOK, StoredType, Present
<1>t. ASSUME StoreInv', now' \in Nat, up' \in BOOLEAN, config' \in Config,
             negative' \in [Keys -> NegativeEntry \cup {None}], refreshes' \in [Keys -> Nat],
             UNCHANGED diskVars
      PROVE  TypeOK' /\ StoreInv' /\ DiskInv'
  <2>1. lru' \in Seq(Keys) /\ items' \in [Keys -> Entry \cup {None}]
    BY <1>t DEF StoreInv, Listing, StoredType
  <2> QED BY <1>t, <2>1 DEF TypeOK, diskVars, DiskInv, SnapshotIsWhole
<1>u. ASSUME UNCHANGED <<lru, items, config, refreshes>> PROVE StoreInv'
  BY <1>u DEF StoreInv, Listing, StoredType, ListMatchesMap, WithinCapacity, RefreshHasOwner, Present
<1>1. ASSUME NEW k \in Keys, NEW v \in Values, NEW ttl \in TTLs, Replace(k, v, ttl)
      PROVE  TypeOK' /\ StoreInv' /\ DiskInv'
  <2>1. NewEntry(v, ttl) \in Entry /\ NewEntry(v, ttl).refreshing = FALSE
    BY NewEntryType DEF TypeOK, NewEntry
  <2>2. /\ Present(k) /\ lru' = MoveToFront(lru, k)
        /\ items' = [items EXCEPT ![k] = NewEntry(v, ttl)]
        /\ UNCHANGED <<now, up, config, negative, refreshes, diskVars>>
    BY <1>1 DEF Replace
  <2>3. RefreshHasOwner'
    BY <2>1, <2>2 DEF RefreshHasOwner, Present, StoreInv, StoredType
  <2>4. StoreInv'
    BY <2>1, <2>2, <2>3, TouchKeepsStore
  <2> QED BY <1>t, <2>2, <2>4 DEF TypeOK
<1>2. ASSUME NEW k \in Keys, NEW v \in Values, NEW ttl \in TTLs, Insert(k, v, ttl)
      PROVE  TypeOK' /\ StoreInv' /\ DiskInv'
  <2>1. StoreInv'
    BY <1>2, InsertKeepsStore
  <2>2. UNCHANGED <<now, up, config, negative, refreshes, diskVars>>
    BY <1>2 DEF Insert
  <2> QED BY <1>t, <2>1, <2>2 DEF TypeOK
<1>3. ASSUME NEW k \in Keys, NEW rcode \in RCodes, NEW ttl \in TTLs, SetNegative(k, rcode, ttl)
      PROVE  TypeOK' /\ StoreInv' /\ DiskInv'
  <2>1. UNCHANGED <<now, up, config, lru, items, refreshes, diskVars>>
    BY <1>3 DEF SetNegative, storeVars
  <2>2. clampTTL(ttl) \in Nat
    BY <1>0, ClampType
  <2>3. negative' \in [Keys -> NegativeEntry \cup {None}]
    BY <1>3, <2>2 DEF SetNegative, TypeOK, NegativeEntry
  <2> QED BY <1>t, <1>u, <2>1, <2>3 DEF TypeOK
<1>4. ASSUME NEW k \in Keys, GetHit(k)
      PROVE  TypeOK' /\ StoreInv' /\ DiskInv'
  <2> DEFINE e == Hit(items[k])
  <2>1. Present(k) /\ lru' = MoveToFront(lru, k) /\ UNCHANGED <<now, up, config, negative, diskVars>>
    BY <1>4 DEF GetHit
  <2>2. e \in Entry /\ e.refreshing = items[k].refreshing
    BY <1>0, <2>1, HitType
  <2>3. \/ /\ items' = [items EXCEPT ![k] = [e EXCEPT !.refreshing = TRUE]]
           /\ refreshes' = [refreshes EXCEPT ![k] = @ + 1]
        \/ items' = [items EXCEPT ![k] = e] /\ refreshes' = refreshes
    BY <1>4 DEF GetHit
  <2> HIDE DEF e
  <2>4. CASE /\ items' = [items EXCEPT ![k] = [e EXCEPT !.refreshing = TRUE]]
             /\ refreshes' = [refreshes EXCEPT ![k] = @ + 1]
    <3>1. [e EXCEPT !.refreshing = TRUE] \in Entry
      BY <2>2 DEF Entry
    <3>2. refreshes' \in [Keys -> Nat] /\ refreshes'[k] > 0
      BY <2>4 DEF TypeOK
    <3>3. RefreshHasOwner'
      BY <2>4, <3>2 DEF RefreshHasOwner, Present, StoreInv, StoredType, TypeOK
    <3>4. StoreInv'
      BY <2>1, <2>4, <3>1, <3>3, TouchKeepsStore
    <3> QED BY <1>t, <2>1, <3>2, <3>4 DEF TypeOK
  <2>5. CASE items' = [items EXCEPT ![k] = e] /\ refreshes' = refreshes
    <3>1. RefreshHasOwner'
      BY <2>1, <2>2, <2>5 DEF RefreshHasOwner, Present, StoreInv, StoredType
    <3>2. StoreInv'
      BY <2>1, <2>2, <2>5, <3>1, TouchKeepsStore
    <3> QED BY <1>t, <2>1, <2>5, <3>2 DEF TypeOK
  <2> QED BY <2>3, <2>4, <2>5
<1>5. ASSUME NEW k \in Keys, GetMissKept(k)
      PROVE  TypeOK' /\ StoreInv' /\ DiskInv'
  <2>1. /\ Present(k) /\ lru' = MoveToFront(lru, k)
        /\ items' = [items EXCEPT ![k] = Hit(items[k])]
        /\ UNCHANGED <<now, up, config, negative, refreshes, diskVars>>
    BY <1>5 DEF GetMissKept
  <2>2. Hit(items[k]) \in Entry /\ Hit(items[k]).refreshing = items[k].refreshing
    BY <1>0, <2>1, HitType
  <2>3. RefreshHasOwner'
    BY <2>1, <2>2 DEF RefreshHasOwner, Present, StoreInv, StoredType
  <2>4. StoreInv'
    BY <2>1, <2>2, <2>3, TouchKeepsStore
  <2> QED BY <1>t, <2>1, <2>4 DEF TypeOK
<1>6. ASSUME NEW k \in Keys, GetMissDropped(k) \/ StaleOnErrorDropped(k)
      PROVE  TypeOK' /\ StoreInv' /\ DiskInv'
  <2>1. Present(k) /\ Drop(k) /\ UNCHANGED <<now, up, config, negative, refreshes, diskVars>>
    BY <1>6 DEF GetMissDropped, StaleOnErrorDropped
  <2>2. StoreInv'
    BY <1>0, <2>1, DropKeepsStore
  <2> QED BY <1>t, <2>1, <2>2 DEF TypeOK
<1>7. ASSUME NEW k \in Keys, GetNegativeExpired(k)
      PROVE  TypeOK' /\ StoreInv' /\ DiskInv'
  <2>1. UNCHANGED <<now, up, config, lru, items, refreshes, diskVars>>
    BY <1>7 DEF GetNegativeExpired, storeVars
  <2>2. negative' \in [Keys -> NegativeEntry \cup {None}]
    BY <1>7 DEF GetNegativeExpired, TypeOK
  <2> QED BY <1>t, <1>u, <2>1, <2>2 DEF TypeOK
<1>8. ASSUME NEW k \in Keys, RefreshDone(k)
      PROVE  TypeOK' /\ StoreInv' /\ DiskInv'
  <2>1. /\ refreshes[k] > 0
        /\ refreshes' = [refreshes EXCEPT ![k] = @ - 1]
        /\ items' = [items EXCEPT ![k] = IF @ = None THEN None ELSE [@ EXCEPT !.refreshing = FALSE]]
        /\ UNCHANGED <<now, up, config, lru, negative, diskVars>>
    BY <1>8 DEF RefreshDone
  <2>2. refreshes' \in [Keys -> Nat]
    BY <2>1 DEF TypeOK
  <2>3. CASE items[k] = None
    <3>1. items' = items
      BY <1>0, <2>1, <2>3 DEF StoredType
    <3>2. RefreshHasOwner'
      BY <2>1, <2>3, <3>1 DEF RefreshHasOwner, Present, StoreInv, TypeOK
    <3>3. StoreInv'
      BY <2>1, <3>1, <3>2 DEF StoreInv, StoredType, ListMatchesMap, WithinCapacity, Present, Listing
    <3> QED BY <1>t, <2>1, <2>2, <3>3 DEF TypeOK
  <2>4. CASE items[k] # None
    <3> DEFINE e == [items[k] EXCEPT !.refreshing = FALSE]
    <3>1. e \in Entry /\ e.refreshing = FALSE
      <4>1. items[k] \in Entry
        BY <1>0, <2>4 DEF Present
      <4> QED BY <4>1 DEF Entry
    <3>2. items' = [items EXCEPT ![k] = e]
      BY <1>0, <2>1, <2>4 DEF StoredType
    <3>3. e # None
      BY <3>1, NoneAssumption
    <3> HIDE DEF e
    <3>4. StoredType'
      BY <1>0, <3>1, <3>2 DEF StoredType
    <3>5. ListMatchesMap'
      BY <1>0, <2>1, <2>4, <3>2, <3>3 DEF StoreInv, StoredType, ListMatchesMap, Present
    <3>6. RefreshHasOwner'
      BY <1>0, <2>1, <3>1, <3>2 DEF StoreInv, StoredType, RefreshHasOwner, Present, TypeOK
    <3>7. StoreInv'
      BY <2>1, <3>4, <3>5, <3>6 DEF StoreInv, WithinCapacity, Listing
    <3> QED BY <1>t, <2>1, <2>2, <3>7 DEF TypeOK
  <2> QED BY <2>3, <2>4
<1>9. ASSUME NEW k \in Keys, Delete(k)
      PROVE  TypeOK' /\ StoreInv' /\ DiskInv'
  <2>1. /\ negative' = [negative EXCEPT ![k] = None]
        /\ UNCHANGED <<now, up, config, refreshes, diskVars>>
        /\ (Present(k) /\ Drop(k)) \/ UNCHANGED <<lru, items>>
    BY <1>9 DEF Delete, storeVars
  <2>2. StoreInv'
    BY <1>0, <1>u, <2>1, DropKeepsStore
  <2>3. negative' \in [Keys -> NegativeEntry \cup {None}]
    BY <2>1 DEF TypeOK
  <2> QED BY <1>t, <2>1, <2>2, <2>3 DEF TypeOK
<1>10. CASE Flush
  <2>1. /\ lru' = << >> /\ items' = Empty /\ negative' = Empty
        /\ UNCHANGED <<now, up, config, refreshes, diskVars>>
    BY <1>10 DEF Flush
  <2>2. StoreInv'
    BY <1>0, <2>1, EmptyStore
  <2>3. negative' \in [Keys -> NegativeEntry \cup {None}]
    BY <2>1 DEF Empty
  <2> QED BY <1>t, <2>1, <2>2, <2>3 DEF TypeOK
<1>11. ASSUME NEW u \in Updates, ApplyRuntimeConfig(u)
       PROVE  TypeOK' /\ StoreInv' /\ DiskInv'
  <2>1. /\ config' = NewConfig(u)
        /\ lru' = Shortened(lru, config'.maxEntries)
        /\ items' = Kept(items, lru')
        /\ UNCHANGED <<now, up, negative, refreshes, diskVars>>
    BY <1>11 DEF ApplyRuntimeConfig
  <2>2. config' \in Config
    BY <1>0, <2>1, NewConfigType
  <2>3. /\ Listing(lru)
        /\ items \in [Keys -> Entry \cup {None}]
        /\ \A k \in Keys : items[k] # None <=> k \in Range(lru)
        /\ \A k \in Keys : (items[k] # None /\ items[k].refreshing) => refreshes'[k] > 0
    BY <2>1 DEF StoreInv, StoredType, ListMatchesMap, RefreshHasOwner, Present
  <2>4. StoreInv'
    BY <2>1, <2>2, <2>3, ShortenKeepsStore
  <2> QED BY <1>t, <2>1, <2>2, <2>4 DEF TypeOK
<1>12. CASE PersistCopy \/ PersistOpen \/ PersistWrite \/ PersistRename \/ PersistFails
  <2>1. UNCHANGED <<now, up, config, lru, items, negative, refreshes>>
    BY <1>12 DEF PersistCopy, PersistOpen, PersistWrite, PersistRename, PersistFails, storeVars
  <2>2. StoreInv'
    BY <1>u, <2>1
  <2>3. EmptySnapshot \in Snapshot
    BY DEF EmptySnapshot, Snapshot, Empty
  <2>4. persist' \in PersistSteps /\ copy' \in Snapshot /\ tmp' \in Files /\ file' \in Files
    <3>1. CASE PersistCopy
      BY <3>1 DEF PersistCopy, TypeOK, PersistSteps, Snapshot
    <3>2. CASE PersistOpen
      BY <3>2 DEF PersistOpen, TypeOK, PersistSteps, Files
    <3>3. CASE PersistWrite
      BY <3>3 DEF PersistWrite, TypeOK, PersistSteps, Files
    <3>4. CASE PersistRename
      BY <2>3, <3>4 DEF PersistRename, TypeOK, PersistSteps, Files
    <3>5. CASE PersistFails
      BY <2>3, <3>5 DEF PersistFails, TypeOK, PersistSteps
    <3> QED BY <1>12, <3>1, <3>2, <3>3, <3>4, <3>5
  <2>5. DiskInv'
    <3>1. CASE PersistCopy \/ PersistOpen \/ PersistFails
      BY <3>1 DEF PersistCopy, PersistOpen, PersistFails, DiskInv, SnapshotIsWhole
    <3>2. CASE PersistWrite
      BY <3>2 DEF PersistWrite, DiskInv, SnapshotIsWhole, TypeOK
    <3>3. CASE PersistRename
      BY <3>3, NoneAssumption DEF PersistRename, DiskInv, SnapshotIsWhole
    <3> QED BY <1>12, <3>1, <3>2, <3>3
  <2> QED BY <2>1, <2>2, <2>4, <2>5 DEF TypeOK
<1>13. CASE Stop
  <2>1. /\ lru' = << >> /\ items' = Empty /\ negative' = Empty /\ config' = InitConfig
        /\ up' = FALSE /\ refreshes' = [k \in Keys |-> 0]
        /\ persist' = "idle" /\ copy' = EmptySnapshot
        /\ UNCHANGED <<now, tmp, file>>
    BY <1>13 DEF Stop
  <2>2. config' \in Config
    BY <2>1, CacheAssumption
  <2>3. StoreInv'
    BY <2>1, <2>2, EmptyStore
  <2>4. EmptySnapshot \in Snapshot /\ Empty \in [Keys -> NegativeEntry \cup {None}]
    BY DEF EmptySnapshot, Snapshot, Empty
  <2>5. DiskInv'
    BY <2>1 DEF DiskInv, SnapshotIsWhole
  <2>6. lru' \in Seq(Keys) /\ items' \in [Keys -> Entry \cup {None}]
    BY <2>3 DEF StoreInv, Listing, StoredType
  <2>7. TypeOK'
    BY <2>1, <2>2, <2>4, <2>6 DEF TypeOK, PersistSteps
  <2> QED BY <2>3, <2>5, <2>7
<1>14. CASE StartEmpty
  <2>1. up' = TRUE /\ UNCHANGED <<now, config, lru, items, negative, refreshes, diskVars>>
    BY <1>14 DEF StartEmpty, storeVars
  <2> QED BY <1>t, <1>u, <2>1 DEF TypeOK
<1>15. CASE StartLoad
  <2>1. up' = TRUE /\ UNCHANGED <<now, config, refreshes, diskVars>>
    BY <1>15 DEF StartLoad
  <2>2. StoreInv' /\ negative' \in [Keys -> NegativeEntry \cup {None}]
    BY <1>15, LoadKeepsStore
  <2> QED BY <1>t, <2>1, <2>2 DEF TypeOK
<1>16. CASE Tick
  <2>1. now' = now + 1 /\ UNCHANGED <<up, config, lru, items, negative, refreshes, diskVars>>
    BY <1>16 DEF Tick, storeVars
  <2>2. now' \in Nat
    BY <2>1 DEF TypeOK
  <2> QED BY <1>t, <1>u, <2>1, <2>2 DEF TypeOK
<1>17. CASE UNCHANGED vars
  <2>1. UNCHANGED <<now, up, config, lru, items, negative, refreshes, diskVars>>
    BY <1>17 DEF vars, storeVars
  <2> QED BY <1>t, <1>u, <2>1 DEF TypeOK
<1> QED BY <1>1, <1>2, <1>3, <1>4, <1>5, <1>6, <1>7, <1>8, <1>9, <1>10, <1>11, <1>12, <1>13,
           <1>14, <1>15, <1>16, <1>17 DEF Next, Lookup

(* The empty cache satisfies it.                                           *)
LEMMA InitInvariant == Init => IInv
<1> SUFFICES ASSUME Init PROVE IInv
  OBVIOUS
<1>1. config \in Config
  BY CacheAssumption DEF Init
<1>2. Listing(lru) /\ Range(lru) = {} /\ Len(lru) = 0
  BY DEF Init, Listing, IsInjective, Range
<1>3. StoredType
  BY DEF Init, StoredType, Empty
<1>4. ListMatchesMap
  BY <1>2 DEF Init, ListMatchesMap, Present, Empty, Listing
<1>5. WithinCapacity
  <2>1. config.maxEntries \in Nat
    BY <1>1 DEF Config
  <2> QED BY <1>2, <2>1 DEF WithinCapacity
<1>6. RefreshHasOwner
  BY DEF Init, RefreshHasOwner, Present, Empty
<1>7. DiskInv
  BY NoneAssumption DEF Init, DiskInv, SnapshotIsWhole
<1>8. EmptySnapshot \in Snapshot /\ Empty \in [Keys -> NegativeEntry \cup {None}]
  BY DEF EmptySnapshot, Snapshot, Empty
<1>9. TypeOK
  <2>1. lru \in Seq(Keys) /\ items \in [Keys -> Entry \cup {None}]
    BY <1>2, <1>3 DEF Listing, StoredType
  <2> QED BY <1>1, <1>8, <2>1 DEF Init, TypeOK, PersistSteps, Files
<1> QED BY <1>2, <1>3, <1>4, <1>5, <1>6, <1>7, <1>9 DEF IInv, StoreInv

(* The inductive invariant holds of every behaviour of the cache.          *)
THEOREM Invariance == Spec => []IInv
<1>1. Init => IInv
  BY InitInvariant
<1>2. IInv /\ [Next]_vars => IInv'
  BY StepKeepsInvariant
<1> QED BY <1>1, <1>2, PTL DEF Spec

-----------------------------------------------------------------------------
(* The memory estimate.                                                    *)

(* The entries on the list have sizes, whatever else is stored.            *)
LEMMA StoreIsSized ==
  ASSUME StoreInv
  PROVE  Sized(items, lru)
<1>1. lru \in Seq(Keys) /\ Range(lru) \subseteq Keys
  BY RangeOfSeq DEF StoreInv, Listing
<1>2. \A k \in Range(lru) : items[k] \in Entry
  BY <1>1, ListedIffPresent, PresentIsEntry DEF StoreInv
<1> QED BY <1>1, <1>2 DEF Sized

(* Taking a key off the list takes its size off the sum.                   *)
LEMMA SumWithout ==
  ASSUME NEW f, NEW s, Sized(f, s), Listing(s), NEW k \in Range(s)
  PROVE  /\ Sized(f, Without(s, k))
         /\ SumOfSizes(f, s) = SumOfSizes(f, Without(s, k)) + Size(k, f[k].value)
<1> DEFINE t == Without(s, k)
<1>1. /\ Listing(t)
      /\ Len(t) = Len(s) - 1
      /\ Range(t) = Range(s) \ {k}
      /\ \E p \in 1 .. Len(s) : s[p] = k /\ Lacks(t, s, p, Len(s))
  BY WithoutProperties
<1> HIDE DEF t
<1>2. Sized(f, t)
  BY <1>1 DEF Sized, Listing
<1>3. PICK p \in 1 .. Len(s) : s[p] = k /\ Lacks(t, s, p, Len(s))
  BY <1>1
<1>4. SumOfSizes(f, s) = SumOfSizes(f, t) + Size(s[p], f[s[p]].value)
  BY <1>1, <1>2, <1>3, SumLess
<1> QED BY <1>2, <1>3, <1>4 DEF t

(* Putting a key in front adds its size.                                   *)
LEMMA SumCons ==
  ASSUME NEW f, NEW s, Sized(f, s), Listing(s), NEW k \in Keys, k \notin Range(s), f[k] \in Entry
  PROVE  /\ Sized(f, Cons(k, s))
         /\ SumOfSizes(f, Cons(k, s)) = SumOfSizes(f, s) + Size(k, f[k].value)
<1> DEFINE t == Cons(k, s)
<1>1. /\ Listing(t)
      /\ Len(t) = Len(s) + 1
      /\ Range(t) = Range(s) \cup {k}
      /\ t[1] = k /\ Lacks(s, t, 1, Len(s) + 1)
  BY ConsProperties
<1> HIDE DEF t
<1>2. Sized(f, t)
  BY <1>1 DEF Sized, Listing
<1>3. Len(s) \in Nat /\ Len(s) = Len(t) - 1 /\ 1 \in 1 .. Len(t) /\ Lacks(s, t, 1, Len(t))
  BY <1>1, LenProperties DEF Listing
<1>4. SumOfSizes(f, t) = SumOfSizes(f, s) + Size(t[1], f[t[1]].value)
  BY <1>2, <1>3, SumLess
<1> QED BY <1>1, <1>2, <1>4 DEF t

(* removeElementLocked: the guard against underflow is never needed.       *)
LEMMA DropKeepsMemory ==
  ASSUME StoreInv, MemoryIsExact, NEW k \in Keys, Present(k), Drop(k)
  PROVE  MemoryIsExact'
<1>1. k \in Range(lru)
  BY ListedIffPresent
<1>2. Listing(lru) /\ Sized(items, lru) /\ StoredType
  BY StoreIsSized DEF StoreInv
<1>3. /\ lru' = Without(lru, k)
      /\ items' = [items EXCEPT ![k] = None]
      /\ memory' = Released(memory, Size(k, items[k].value))
  BY DEF Drop
<1>4. /\ Sized(items, lru')
      /\ memory = SumOfSizes(items, lru') + Size(k, items[k].value)
      /\ Range(lru') = Range(lru) \ {k}
  BY <1>1, <1>2, <1>3, SumWithout, WithoutProperties DEF MemoryIsExact
<1>5. SumOfSizes(items, lru') \in Nat /\ Size(k, items[k].value) \in Nat
  <2>1. items[k] \in Entry
    BY <1>2, PresentIsEntry
  <2> QED BY <1>4, <2>1, SumType, SizeType
<1>6. memory' = SumOfSizes(items, lru')
  BY <1>3, <1>4, <1>5 DEF Released
<1>7. SumOfSizes(items', lru') = SumOfSizes(items, lru')
  <2>1. \A x \in Range(lru') : x \in Keys /\ items'[x] = items[x]
    <3>1. Range(lru') \subseteq Keys
      BY <1>4, RangeOfSeq DEF Sized
    <3> QED BY <1>2, <1>3, <1>4, <3>1 DEF StoredType
  <2> QED BY <1>4, <2>1, SumElsewhere
<1> QED BY <1>6, <1>7 DEF MemoryIsExact

(* Moving a stored key to the front and storing an entry under it.         *)
Touch(k, e) == lru' = MoveToFront(lru, k) /\ items' = [items EXCEPT ![k] = e]

LEMMA TouchKeepsMemory ==
  ASSUME StoreInv, MemoryIsExact, NEW k \in Keys, Present(k), NEW e \in Entry, Touch(k, e),
         memory' = (memory - Size(k, items[k].value)) + Size(k, e.value)
  PROVE  MemoryIsExact'
<1> DEFINE t == Without(lru, k)
<1>1. k \in Range(lru)
  BY ListedIffPresent
<1>2. Listing(lru) /\ Sized(items, lru) /\ StoredType
  BY StoreIsSized DEF StoreInv
<1>3. /\ Sized(items, t) /\ Listing(t) /\ Range(t) = Range(lru) \ {k}
      /\ memory = SumOfSizes(items, t) + Size(k, items[k].value)
  BY <1>1, <1>2, SumWithout, WithoutProperties DEF MemoryIsExact
<1>4. lru' = Cons(k, t)
  BY DEF Touch, MoveToFront
<1> HIDE DEF t
<1>5. \A x \in Range(t) : x \in Keys /\ items'[x] = items[x]
  <2>1. Range(t) \subseteq Keys
    BY <1>3, RangeOfSeq DEF Sized
  <2> QED BY <1>2, <1>3, <2>1 DEF StoredType, Touch
<1>6. items'[k] = e
  BY <1>2 DEF StoredType, Touch
<1>7. Sized(items', t) /\ SumOfSizes(items', t) = SumOfSizes(items, t)
  BY <1>3, <1>5, SumElsewhere
<1>8. SumOfSizes(items', lru') = SumOfSizes(items', t) + Size(k, e.value)
  BY <1>3, <1>4, <1>6, <1>7, SumCons
<1>9. SumOfSizes(items, t) \in Nat /\ Size(k, items[k].value) \in Nat /\ Size(k, e.value) \in Nat
  <2>1. items[k] \in Entry
    BY <1>2, PresentIsEntry
  <2> QED BY <1>3, <2>1, SumType, SizeType
<1> QED BY <1>3, <1>7, <1>8, <1>9 DEF MemoryIsExact

(* A lookup moves an entry and changes its counters, not its message.      *)
LEMMA LookupKeepsMemory ==
  ASSUME StoreInv, MemoryIsExact, NEW k \in Keys, Present(k), NEW e \in Entry, Touch(k, e),
         memory' = memory,
         e.value = items[k].value
  PROVE  MemoryIsExact'
<1>1. memory \in Nat
  BY StoreIsSized, SumType DEF MemoryIsExact
<1>2. Size(k, e.value) \in Nat
  BY SizeType
<1>3. memory' = (memory - Size(k, items[k].value)) + Size(k, e.value)
  BY <1>1, <1>2
<1> QED BY <1>3, TouchKeepsMemory

(* Set of a new key, with the eviction it may need.                        *)
LEMMA InsertKeepsMemory ==
  ASSUME TypeOK, StoreInv, MemoryIsExact,
         NEW k \in Keys, NEW v \in Values, NEW ttl \in TTLs, Insert(k, v, ttl)
  PROVE  MemoryIsExact'
<1> DEFINE grown == Cons(k, lru)
           added == [items EXCEPT ![k] = NewEntry(v, ttl)]
           oldest == Last(grown)
           total == memory + Size(k, v)
<1>1. k \notin Range(lru)
  BY ListedIffPresent DEF Insert
<1>2. Listing(lru) /\ Sized(items, lru) /\ StoredType
  BY StoreIsSized DEF StoreInv
<1>3. NewEntry(v, ttl) \in Entry /\ NewEntry(v, ttl).value = v
  BY NewEntryType DEF TypeOK, NewEntry
<1>4. added[k] = NewEntry(v, ttl) /\ \A x \in Range(lru) : x \in Keys /\ added[x] = items[x]
  <2>1. Range(lru) \subseteq Keys
    BY <1>2, RangeOfSeq DEF Sized
  <2> QED BY <1>1, <1>2, <2>1 DEF StoredType
<1>5. /\ lru' = IF Len(grown) > config.maxEntries THEN Front(grown) ELSE grown
      /\ items' = IF Len(grown) > config.maxEntries THEN [added EXCEPT ![oldest] = None] ELSE added
      /\ memory' = IF Len(grown) > config.maxEntries
                   THEN Released(total, Size(oldest, added[oldest].value)) ELSE total
  BY DEF Insert
<1>6. DOMAIN added = Keys
  BY <1>2 DEF StoredType
<1>7. /\ Listing(grown)
      /\ Len(grown) = Len(lru) + 1 /\ Len(lru) \in Nat
      /\ Range(grown) = Range(lru) \cup {k}
  BY <1>1, <1>2, ConsProperties, LenProperties DEF Listing
<1> HIDE DEF added
<1>8. Sized(added, lru) /\ SumOfSizes(added, lru) = memory
  BY <1>2, <1>4, SumElsewhere DEF MemoryIsExact
<1>9. Sized(added, grown) /\ SumOfSizes(added, grown) = total
  BY <1>1, <1>2, <1>3, <1>4, <1>8, SumCons
<1> HIDE DEF grown, total
<1>10. CASE Len(grown) > config.maxEntries
  <2> DEFINE t == Front(grown)
  <2>1. /\ Listing(t)
        /\ Len(t) = Len(grown) - 1
        /\ oldest \in Range(grown)
        /\ Range(t) = Range(grown) \ {oldest}
        /\ oldest = grown[Len(grown)] /\ Lacks(t, grown, Len(grown), Len(grown))
    BY <1>7, FrontProperties
  <2>2. lru' = t /\ items' = [added EXCEPT ![oldest] = None]
        /\ memory' = Released(total, Size(oldest, added[oldest].value))
    BY <1>5, <1>10
  <2> HIDE DEF t, oldest
  <2>3. Sized(added, t)
    BY <1>9, <2>1 DEF Sized, Listing
  <2>4. total = SumOfSizes(added, t) + Size(oldest, added[oldest].value)
    <3>1. Len(grown) \in 1 .. Len(grown)
      BY <1>7
    <3> QED BY <1>9, <2>1, <2>3, <3>1, SumLess
  <2>5. SumOfSizes(added, t) \in Nat /\ Size(oldest, added[oldest].value) \in Nat
    <3>1. oldest \in Keys
      BY <1>9, <2>1, RangeOfSeq DEF Sized
    <3>2. added[oldest] \in Entry
      BY <1>9, <2>1 DEF Sized
    <3> QED BY <2>3, <3>1, <3>2, SumType, SizeType
  <2>6. memory' = SumOfSizes(added, t)
    BY <2>2, <2>4, <2>5 DEF Released
  <2>7. \A x \in Range(t) : items'[x] = added[x]
    <3>1. Range(t) \subseteq Keys
      BY <2>3, RangeOfSeq DEF Sized
    <3> QED BY <1>6, <2>1, <2>2, <3>1
  <2>8. SumOfSizes(items', t) = SumOfSizes(added, t)
    BY <2>3, <2>7, SumElsewhere
  <2> QED BY <2>2, <2>6, <2>8 DEF MemoryIsExact
<1>11. CASE ~(Len(grown) > config.maxEntries)
  BY <1>5, <1>9, <1>11 DEF MemoryIsExact
<1> QED BY <1>10, <1>11

(* Evicting from the back until the list fits releases what is evicted.    *)
LEMMA ShortenKeepsMemory ==
  ASSUME NEW s, Listing(s), NEW f, Sized(f, s), NEW n \in Nat,
         lru' = Shortened(s, n), items' = Kept(f, lru'),
         memory' = ReleasedBeyond(s, f, n, SumOfSizes(f, s))
  PROVE  MemoryIsExact'
<1>1. memory' = SumOfSizes(f, lru')
  BY ReleasedBeyondIs
<1>2. Listing(lru') /\ Range(lru') \subseteq Range(s) /\ Range(s) \subseteq Keys
  BY ShortenedProperties, RangeOfSeq DEF Sized
<1>3. Sized(f, lru')
  BY <1>2 DEF Sized, Listing
<1>4. \A x \in Range(lru') : items'[x] = f[x]
  BY <1>2 DEF Kept
<1>5. SumOfSizes(items', lru') = SumOfSizes(f, lru')
  BY <1>3, <1>4, SumElsewhere
<1> QED BY <1>1, <1>5 DEF MemoryIsExact

(* Nothing stored, nothing counted.                                        *)
LEMMA EmptySum ==
  ASSUME NEW f
  PROVE  SumOfSizes(f, << >>) = 0
<1>1. Sized(f, << >>) /\ Len(<< >>) = 0
  BY DEF Sized, Range
<1>2. PICK P : Adds(P, SizesOf(f, << >>), Len(<< >>)) /\ SumOfSizes(f, << >>) = P[Len(<< >>)]
  BY <1>1, SizesType, SumIs DEF Sized
<1> QED BY <1>1, <1>2 DEF Adds

(* Every step of the cache keeps the estimate exact.                       *)
LEMMA StepKeepsMemory == IInv /\ MemoryIsExact /\ [Next]_vars => MemoryIsExact'
<1> SUFFICES ASSUME TypeOK, StoreInv, MemoryIsExact, [Next]_vars
             PROVE  MemoryIsExact'
  BY DEF IInv
<1>0. /\ config \in Config
      /\ StoredType
      /\ \A k \in Keys : Present(k) => items[k] \in Entry
  BY DEF TypeOK, StoredType, Present
<1>u. ASSUME UNCHANGED storeVars PROVE MemoryIsExact'
  BY <1>u DEF MemoryIsExact, storeVars
<1>1. ASSUME NEW k \in Keys, NEW v \in Values, NEW ttl \in TTLs, Replace(k, v, ttl)
      PROVE  MemoryIsExact'
  <2>1. NewEntry(v, ttl) \in Entry /\ NewEntry(v, ttl).value = v
    BY NewEntryType DEF TypeOK, NewEntry
  <2>2. /\ Present(k) /\ lru' = MoveToFront(lru, k)
        /\ items' = [items EXCEPT ![k] = NewEntry(v, ttl)]
        /\ memory' = (memory - Size(k, items[k].value)) + Size(k, NewEntry(v, ttl).value)
    BY <1>1, <2>1 DEF Replace
  <2> QED BY <2>1, <2>2, TouchKeepsMemory DEF Touch
<1>2. ASSUME NEW k \in Keys, NEW v \in Values, NEW ttl \in TTLs, Insert(k, v, ttl)
      PROVE  MemoryIsExact'
  BY <1>2, InsertKeepsMemory
<1>3. ASSUME NEW k \in Keys, NEW rcode \in RCodes, NEW ttl \in TTLs, SetNegative(k, rcode, ttl)
      PROVE  MemoryIsExact'
  BY <1>3, <1>u DEF SetNegative
<1>4. ASSUME NEW k \in Keys, GetHit(k)
      PROVE  MemoryIsExact'
  <2> DEFINE e == Hit(items[k])
             m == [e EXCEPT !.refreshing = TRUE]
  <2>1. Present(k) /\ lru' = MoveToFront(lru, k) /\ memory' = memory
        /\ (items' = [items EXCEPT ![k] = m] \/ items' = [items EXCEPT ![k] = e])
    BY <1>4 DEF GetHit
  <2>2. e \in Entry /\ e.value = items[k].value
    BY <1>0, <2>1, HitType, HitKeepsValue
  <2> HIDE DEF e
  <2>3. m \in Entry /\ m.value = items[k].value
    BY <2>2 DEF Entry
  <2> HIDE DEF m
  <2> QED BY <2>1, <2>2, <2>3, LookupKeepsMemory DEF Touch
<1>5. ASSUME NEW k \in Keys, GetMissKept(k)
      PROVE  MemoryIsExact'
  <2>1. /\ Present(k) /\ lru' = MoveToFront(lru, k) /\ memory' = memory
        /\ items' = [items EXCEPT ![k] = Hit(items[k])]
    BY <1>5 DEF GetMissKept
  <2>2. Hit(items[k]) \in Entry /\ Hit(items[k]).value = items[k].value
    BY <1>0, <2>1, HitType, HitKeepsValue
  <2> QED BY <2>1, <2>2, LookupKeepsMemory DEF Touch
<1>6. ASSUME NEW k \in Keys, GetMissDropped(k) \/ StaleOnErrorDropped(k)
      PROVE  MemoryIsExact'
  BY <1>6, DropKeepsMemory DEF GetMissDropped, StaleOnErrorDropped
<1>7. ASSUME NEW k \in Keys, GetNegativeExpired(k)
      PROVE  MemoryIsExact'
  BY <1>7, <1>u DEF GetNegativeExpired
<1>8. ASSUME NEW k \in Keys, RefreshDone(k)
      PROVE  MemoryIsExact'
  <2>1. /\ items' = [items EXCEPT ![k] = IF @ = None THEN None ELSE [@ EXCEPT !.refreshing = FALSE]]
        /\ lru' = lru /\ memory' = memory
    BY <1>8 DEF RefreshDone
  <2>2. Sized(items, lru) /\ Range(lru) \subseteq Keys
    BY StoreIsSized, RangeOfSeq DEF Sized
  <2>3. ASSUME NEW x \in Range(lru) PROVE items'[x] \in Entry /\ items'[x].value = items[x].value
    <3>1. x \in Keys /\ items[x] \in Entry /\ items[x] # None
      BY <2>2, NoneAssumption DEF Sized
    <3>2. items'[x] = items[x] \/ items'[x] = [items[x] EXCEPT !.refreshing = FALSE]
      BY <1>0, <2>1, <3>1 DEF StoredType
    <3> QED BY <3>1, <3>2 DEF Entry
  <2>4. Sized(items', lru)
    BY <2>2, <2>3 DEF Sized
  <2>5. SumOfSizes(items', lru) = SumOfSizes(items, lru)
    BY <2>2, <2>3, <2>4, SumSame
  <2> QED BY <2>1, <2>5 DEF MemoryIsExact
<1>9. ASSUME NEW k \in Keys, Delete(k)
      PROVE  MemoryIsExact'
  BY <1>9, <1>u, DropKeepsMemory DEF Delete
<1>10. CASE Flush \/ Stop
  <2>1. lru' = << >> /\ memory' = 0
    BY <1>10 DEF Flush, Stop
  <2> QED BY <2>1, EmptySum DEF MemoryIsExact
<1>11. ASSUME NEW u \in Updates, ApplyRuntimeConfig(u)
       PROVE  MemoryIsExact'
  <2> DEFINE n == config'.maxEntries
  <2>1. /\ config' = NewConfig(u)
        /\ lru' = Shortened(lru, n)
        /\ items' = Kept(items, lru')
        /\ memory' = ReleasedBeyond(lru, items, n, SumOfSizes(items, lru))
    BY <1>11 DEF ApplyRuntimeConfig, MemoryIsExact
  <2>2. n \in Nat
    <3>1. config' \in Config
      BY <1>0, <2>1, NewConfigType
    <3> QED BY <3>1 DEF Config
  <2> HIDE DEF n
  <2> QED BY <2>1, <2>2, StoreIsSized, ShortenKeepsMemory DEF StoreInv
<1>12. CASE StartLoad
  <2>1. PICK order : /\ Listing(order) /\ Sized(Revived(file), order)
                     /\ LoadSnapshot(file, order)
    BY <1>12, LoadedOrder
  <2> DEFINE n == config.maxEntries
             f == Revived(file)
  <2>2. /\ lru' = Shortened(order, n)
        /\ items' = Kept(f, lru')
        /\ memory' = ReleasedBeyond(order, f, n, SumOfSizes(f, order))
    BY <2>1 DEF LoadSnapshot
  <2>3. n \in Nat
    BY <1>0 DEF Config
  <2> HIDE DEF n, f
  <2>4. Sized(f, order)
    BY <2>1 DEF f
  <2> QED BY <2>1, <2>2, <2>3, <2>4, ShortenKeepsMemory
<1>13. CASE \/ PersistCopy \/ PersistOpen \/ PersistWrite \/ PersistRename \/ PersistFails
            \/ StartEmpty \/ Tick \/ UNCHANGED vars
  BY <1>13, <1>u DEF PersistCopy, PersistOpen, PersistWrite, PersistRename, PersistFails,
                     StartEmpty, Tick, vars
<1> QED BY <1>1, <1>2, <1>3, <1>4, <1>5, <1>6, <1>7, <1>8, <1>9, <1>10, <1>11, <1>12, <1>13
        DEF Next, Lookup

-----------------------------------------------------------------------------
(* What the reader should know.                                            *)

(* The fields of the cache keep their types and the limits their order.    *)
THEOREM TypeCorrect == Spec => []TypeOK
<1>1. IInv => TypeOK
  BY DEF IInv
<1> QED BY <1>1, Invariance, PTL

(* However the limit is changed and whatever is loaded, the cache holds at *)
(* most maxEntries entries.                                                *)
THEOREM CapacityIsKept == Spec => []WithinCapacity
<1>1. IInv => WithinCapacity
  BY DEF IInv, StoreInv
<1> QED BY <1>1, Invariance, PTL

(* The list and the map of the cache never disagree.                       *)
THEOREM ListAndMapAgree == Spec => []ListMatchesMap
<1>1. IInv => ListMatchesMap
  BY DEF IInv, StoreInv
<1> QED BY <1>1, Invariance, PTL

(* The estimate reported by the cache is the sum of the sizes of what it   *)
(* stores, whatever was replaced, evicted, expired, resized or reloaded:   *)
(* the underflow guard of removeElementLocked never bites.                 *)
THEOREM MemoryEstimateIsExact == Spec => []MemoryIsExact
<1>1. Init => MemoryIsExact
  BY EmptySum DEF Init, MemoryIsExact
<1>2. IInv /\ MemoryIsExact /\ [Next]_vars => MemoryIsExact'
  BY StepKeepsMemory
<1> QED BY <1>1, <1>2, Invariance, PTL DEF Spec

(* A mark left by maybePrefetchLocked always has a goroutine behind it.    *)
THEOREM RefreshIsOwned == Spec => []RefreshHasOwner
<1>1. IInv => RefreshHasOwner
  BY DEF IInv, StoreInv
<1> QED BY <1>1, Invariance, PTL

(* No crash during Persist leaves a half-written snapshot in place.        *)
THEOREM CrashLeavesWholeSnapshot == Spec => []SnapshotIsWhole
<1>1. IInv => SnapshotIsWhole
  BY DEF IInv, DiskInv
<1> QED BY <1>1, Invariance, PTL
=============================================================================
