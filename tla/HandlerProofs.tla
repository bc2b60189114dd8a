----------------------------- MODULE HandlerProofs -----------------------------
(***************************************************************************)
(* Proofs about Handler: the state is well formed, no client gets more     *)
(* than a burst and what is earned, response rate limiting silences no     *)
(* client and passes at most two limits a second, for every number of      *)
(* callers, clients, questions and response codes and whatever settings    *)
(* are posted.                                                             *)
(*                                                                         *)
(* What the histories are allowed to be is bounded by what the buckets     *)
(* hold.  A client's excess is what its bucket has given away: together    *)
(* with the tokens left and the most the bucket may be refilled by, it     *)
(* fits the greatest burst.  A bucket that is swept has nothing left to    *)
(* remember, as a burst is earned by the time it is.  A tuple's silence is *)
(* no longer than what its window counts since the last response it let    *)
(* slip.  What a tuple owes, where every response that passed owes         *)
(* slip - 1 that are withheld, fits what its window has counted and one    *)
(* limit more for the windows before it.                                   *)
(***************************************************************************)
EXTENDS Handler, FiniteSetTheorems, WellFoundedInduction, TLAPS

MaxLimit == Greatest({p.limit : p \in AllSettings})

(* The limiter's settings were posted or given at the start.               *)
RateSettingsOK == limiter.rate <= MaxRate /\ limiter.burst <= MaxBurst

(* What was admitted, what is left and what may be earned fit a burst.     *)
BucketCovers(e, b) == e = 0 \/ e + GCAge * b.tokens + b.idle * Earned <= GCAge * MaxBurst

ExcessInv ==
    /\ RateSettingsOK
    /\ \A c \in Clients :
          IF limiter.buckets[c] = None THEN excess[c] = 0 ELSE BucketCovers(excess[c], limiter.buckets[c])

(* A tuple's silence fits the count of its window.                         *)
SilenceInv ==
    SlipIsFixed =>
        /\ rrl.slip = InitSettings.slip
        /\ \A t \in Tuples :
              /\ silent[t] < InitSettings.slip
              /\ rrl.buckets[t] # None => silent[t] <= rrl.buckets[t].slipped % InitSettings.slip

-----------------------------------------------------------------------------
(* Induction and sums.                                                     *)

(* Induction over the natural numbers, for a set: a least number outside   *)
(* it would have a predecessor in it.                                      *)
LEMMA Induction ==
    ASSUME NEW S, 0 \in S, \A n \in Nat : n \in S => n + 1 \in S
    PROVE  Nat \subseteq S
<1> DEFINE R == {p \in Nat \X Nat : p[1] < p[2]}
           T == Nat \ S
<1>1. IsWellFoundedOn(R, Nat)
  BY NatLessThanWellFounded DEF OpToRel
<1> HIDE DEF R
<1> SUFFICES ASSUME T # {} PROVE FALSE
  OBVIOUS
<1>2. PICK m \in T : \A n \in T : ~(<<n, m>> \in R)
  <2> HIDE DEF T
  <2>1. T \subseteq Nat
    BY DEF T
  <2> QED  BY <1>1, <2>1, WFMin
<1>3. m \in Nat /\ m - 1 \in Nat
  OBVIOUS
<1>4. <<m - 1, m>> \in R
  BY <1>3 DEF R
<1> QED  BY <1>2, <1>3, <1>4

(* P[i] is the sum of those of the first i of the numbers w whose place is *)
(* in s.                                                                   *)
Adds(P, w, s, n) ==
    /\ P \in [0 .. n -> Nat]
    /\ P[0] = 0
    /\ \A i \in 1 .. n : P[i] = P[i - 1] + (IF i \in s THEN w[i] ELSE 0)

LEMMA AddsExists ==
    ASSUME NEW n \in Nat, NEW w, \A i \in 1 .. n : w[i] \in Nat, NEW s
    PROVE  \E P : Adds(P, w, s, n)
<1> DEFINE Has(m) == \E P : Adds(P, w, s, m)
           S == {m \in Nat : m <= n => Has(m)}
<1>1. 0 \in S
  <2> DEFINE P == [i \in 0 .. 0 |-> 0]
  <2>1. Adds(P, w, s, 0)
    BY DEF Adds
  <2> QED  BY <2>1
<1>2. ASSUME NEW m \in Nat, m \in S  PROVE m + 1 \in S
  <2> SUFFICES ASSUME m + 1 <= n  PROVE Has(m + 1)
    OBVIOUS
  <2>1. PICK P : Adds(P, w, s, m)
    BY <1>2
  <2> DEFINE more == IF m + 1 \in s THEN w[m + 1] ELSE 0
             Q == [i \in 0 .. m + 1 |-> IF i = m + 1 THEN P[m] + more ELSE P[i]]
  <2>2. more \in Nat /\ P \in [0 .. m -> Nat] /\ P[0] = 0 /\ P[m] \in Nat
    BY <2>1 DEF Adds
  <2>3. Q \in [0 .. m + 1 -> Nat] /\ Q[0] = 0
    BY <2>2
  <2>4. ASSUME NEW i \in 1 .. m + 1  PROVE Q[i] = Q[i - 1] + (IF i \in s THEN w[i] ELSE 0)
    <3>1. CASE i = m + 1
      BY <3>1
    <3>2. CASE i # m + 1
      <4>1. i \in 1 .. m /\ i \in 0 .. m + 1 /\ i - 1 \in 0 .. m + 1 /\ i - 1 # m + 1
        BY <3>2
      <4>2. P[i] = P[i - 1] + (IF i \in s THEN w[i] ELSE 0)
        BY <2>1, <4>1 DEF Adds
      <4> QED  BY <3>2, <4>1, <4>2
    <3> QED  BY <3>1, <3>2
  <2>5. Adds(Q, w, s, m + 1)
    BY <2>3, <2>4 DEF Adds
  <2> QED  BY <2>5
<1> HIDE DEF S, Has
<1>3. n \in S
  BY <1>1, <1>2, Induction
<1> QED  BY <1>3 DEF S, Has

(* Two such sums over the same first m numbers are the same.               *)
LEMMA AddsAgree ==
    ASSUME NEW n \in Nat, NEW k \in Nat, NEW m \in Nat, m <= n, m <= k,
           NEW w, NEW v, NEW s, NEW P, NEW Q, Adds(P, w, s, n), Adds(Q, v, s, k),
           \A i \in 1 .. m : w[i] = v[i]
    PROVE  P[m] = Q[m]
<1> DEFINE S == {i \in Nat : i <= m => P[i] = Q[i]}
<1>1. 0 \in S
  BY DEF Adds
<1>2. ASSUME NEW i \in Nat, i \in S  PROVE i + 1 \in S
  <2> SUFFICES ASSUME i + 1 <= m  PROVE P[i + 1] = Q[i + 1]
    OBVIOUS
  <2>1. i + 1 \in 1 .. n /\ i + 1 \in 1 .. k /\ i + 1 \in 1 .. m /\ (i + 1) - 1 = i
    OBVIOUS
  <2>2. /\ P[i + 1] = P[i] + (IF i + 1 \in s THEN w[i + 1] ELSE 0)
        /\ Q[i + 1] = Q[i] + (IF i + 1 \in s THEN v[i + 1] ELSE 0)
    BY <2>1 DEF Adds
  <2> QED  BY <1>2, <2>1, <2>2
<1> HIDE DEF S
<1>3. m \in S
  BY <1>1, <1>2, Induction
<1> QED  BY <1>3 DEF S

(* A place more adds its number.                                           *)
LEMMA AddsMore ==
    ASSUME NEW n \in Nat, NEW w, \A i \in 1 .. n : w[i] \in Nat, NEW s, NEW x \in 1 .. n, x \in s,
           NEW P, NEW Q, Adds(P, w, s, n), Adds(Q, w, s \ {x}, n)
    PROVE  P[n] = w[x] + Q[n]
<1> DEFINE S == {i \in Nat : i <= n => P[i] = Q[i] + (IF x <= i THEN w[x] ELSE 0)}
<1>0. w[x] \in Nat /\ \A i \in 0 .. n : P[i] \in Nat /\ Q[i] \in Nat
  BY DEF Adds
<1>1. 0 \in S
  BY DEF Adds
<1>2. ASSUME NEW i \in Nat, i \in S  PROVE i + 1 \in S
  <2> SUFFICES ASSUME i + 1 <= n  PROVE P[i + 1] = Q[i + 1] + (IF x <= i + 1 THEN w[x] ELSE 0)
    OBVIOUS
  <2>1. i + 1 \in 1 .. n /\ (i + 1) - 1 = i /\ i \in 0 .. n
    OBVIOUS
  <2>2. /\ P[i + 1] = P[i] + (IF i + 1 \in s THEN w[i + 1] ELSE 0)
        /\ Q[i + 1] = Q[i] + (IF i + 1 \in s \ {x} THEN w[i + 1] ELSE 0)
        /\ w[i + 1] \in Nat
    BY <2>1 DEF Adds
  <2>3. P[i] = Q[i] + (IF x <= i THEN w[x] ELSE 0)
    BY <1>2
  <2>4. CASE x = i + 1
    BY <1>0, <2>1, <2>2, <2>3, <2>4
  <2>5. CASE x # i + 1
    <3>1. (x <= i + 1) <=> (x <= i)
      BY <2>5
    <3>2. (i + 1 \in s \ {x}) <=> (i + 1 \in s)
      BY <2>5
    <3> QED  BY <1>0, <2>1, <2>2, <2>3, <3>1, <3>2
  <2> QED  BY <2>4, <2>5
<1> HIDE DEF S
<1>3. n \in S
  BY <1>1, <1>2, Induction
<1>4. P[n] = Q[n] + w[x]
  BY <1>3 DEF S
<1> QED  BY <1>0, <1>4

(* The library's sum, which takes the places in an unspecified order, is   *)
(* the sum in order.                                                       *)
LEMMA SumIs ==
    ASSUME NEW n \in Nat, NEW w, \A i \in 1 .. n : w[i] \in Nat
    PROVE  \E P : Adds(P, w, 1 .. n, n) /\ SumFunctionOnSet(w, 1 .. n) = P[n]
<1> DEFINE c(s) == CHOOSE x \in s : TRUE
           Eq(F) == F = [s \in SUBSET (1 .. n) |-> IF s = {} THEN 0 ELSE w[c(s)] + F[s \ {c(s)}]]
           G == CHOOSE F : Eq(F)
           A(s) == CHOOSE P : Adds(P, w, s, n)
           H == [s \in SUBSET (1 .. n) |-> A(s)[n]]
<1>1. SumFunctionOnSet(w, 1 .. n) = G[1 .. n]
  BY DEF SumFunctionOnSet, FoldFunctionOnSet, MapThenFoldSet
<1>2. \A s : Adds(A(s), w, s, n)
  BY AddsExists
<1>3. \A s \in SUBSET (1 .. n) : s # {} => c(s) \in s
  OBVIOUS
<1> HIDE DEF A, c
<1>4. H[{}] = 0
  <2>1. Adds(A({}), w, {}, n)
    BY <1>2
  <2> DEFINE P == A({})
             S == {i \in Nat : i <= n => P[i] = 0}
  <2>2. 0 \in S
    BY <2>1 DEF Adds
  <2>3. ASSUME NEW i \in Nat, i \in S  PROVE i + 1 \in S
    <3> SUFFICES ASSUME i + 1 <= n  PROVE P[i + 1] = 0
      OBVIOUS
    <3>1. i + 1 \in 1 .. n /\ (i + 1) - 1 = i /\ i + 1 \notin {}
      OBVIOUS
    <3>2. P[i + 1] = P[i] + 0
      BY <2>1, <3>1 DEF Adds
    <3> QED  BY <2>3, <3>2
  <2> HIDE DEF S
  <2>4. n \in S
    BY <2>2, <2>3, Induction
  <2> QED  BY <2>4 DEF S
<1>5. ASSUME NEW s \in SUBSET (1 .. n), s # {}  PROVE H[s] = w[c(s)] + H[s \ {c(s)}]
  <2> DEFINE x == c(s)
  <2>1. x \in s /\ x \in 1 .. n /\ s \ {x} \in SUBSET (1 .. n)
    BY <1>3, <1>5
  <2> HIDE DEF x
  <2>2. Adds(A(s), w, s, n) /\ Adds(A(s \ {x}), w, s \ {x}, n)
    BY <1>2
  <2>3. A(s)[n] = w[x] + A(s \ {x})[n]
    BY <2>1, <2>2, AddsMore
  <2> QED  BY <2>1, <2>3 DEF x
<1>6. Eq(G)
  <2>1. H = [s \in SUBSET (1 .. n) |-> H[s]]
    OBVIOUS
  <2> HIDE DEF H
  <2>2. Eq(H)
    BY <1>4, <1>5, <2>1
  <2> HIDE DEF Eq
  <2> QED  BY <2>2
<1> HIDE DEF G, H
<1> DEFINE T == {k \in Nat : \A s \in SUBSET (1 .. n) : Cardinality(s) = k => G[s] = H[s]}
<1>7. \A s \in SUBSET (1 .. n) : IsFiniteSet(s) /\ Cardinality(s) \in Nat
  BY FS_Interval, FS_Subset, FS_CardinalityType, 1 \in Int, n \in Int
<1>8. 0 \in T
  <2>1. \A s \in SUBSET (1 .. n) : Cardinality(s) = 0 => s = {}
    BY <1>7, FS_EmptySet
  <2> QED  BY <1>4, <1>6, <2>1
<1>9. ASSUME NEW k \in Nat, k \in T  PROVE k + 1 \in T
  <2> SUFFICES ASSUME NEW s \in SUBSET (1 .. n), Cardinality(s) = k + 1  PROVE G[s] = H[s]
    OBVIOUS
  <2>1. s # {}
    BY FS_EmptySet
  <2>2. c(s) \in s /\ s \ {c(s)} \in SUBSET (1 .. n)
    BY <1>3, <2>1
  <2>3. Cardinality(s \ {c(s)}) = k
    <3>1. Cardinality(s \ {c(s)}) = Cardinality(s) - 1
      BY <1>7, <2>2, FS_RemoveElement
    <3> QED  BY <3>1
  <2>4. G[s \ {c(s)}] = H[s \ {c(s)}]
    BY <1>9, <2>2, <2>3
  <2>5. G[s] = w[c(s)] + G[s \ {c(s)}]
    BY <1>6, <2>1
  <2> QED  BY <1>5, <2>1, <2>4, <2>5
<1> HIDE DEF T
<1>10. G[1 .. n] = H[1 .. n]
  <2>1. 1 .. n \in SUBSET (1 .. n) /\ Cardinality(1 .. n) \in Nat
    BY <1>7
  <2>2. Cardinality(1 .. n) \in T
    BY <1>8, <1>9, <2>1, Induction
  <2> QED  BY <2>1, <2>2 DEF T
<1>11. SumFunctionOnSet(w, 1 .. n) = A(1 .. n)[n]
  BY <1>1, <1>10 DEF H
<1> QED  BY <1>2, <1>11

(* The sum of the first m numbers.                                         *)
SumTo(w, m) == SumFunctionOnSet(w, 1 .. m)

LEMMA SumToNext ==
    ASSUME NEW n \in Nat, NEW w, \A i \in 1 .. n : w[i] \in Nat
    PROVE  /\ SumTo(w, 0) = 0
           /\ \A m \in 0 .. n : SumTo(w, m) \in Nat
           /\ \A m \in 1 .. n : SumTo(w, m) = SumTo(w, m - 1) + w[m]
<1>1. ASSUME NEW m \in 0 .. n
      PROVE  \E P : Adds(P, w, 1 .. n, m) /\ SumTo(w, m) = P[m]
  <2>1. m \in Nat /\ \A i \in 1 .. m : i \in 1 .. n /\ w[i] \in Nat
    OBVIOUS
  <2>2. PICK P : Adds(P, w, 1 .. m, m) /\ SumFunctionOnSet(w, 1 .. m) = P[m]
    BY <2>1, SumIs
  <2>3. Adds(P, w, 1 .. n, m)
    BY <2>1, <2>2 DEF Adds
  <2> QED  BY <2>2, <2>3 DEF SumTo
<1>2. ASSUME NEW m \in 0 .. n  PROVE SumTo(w, m) \in Nat
  <2>1. PICK P : Adds(P, w, 1 .. n, m) /\ SumTo(w, m) = P[m]
    BY <1>1
  <2> QED  BY <2>1 DEF Adds
<1>3. SumTo(w, 0) = 0
  <2>1. PICK P : Adds(P, w, 1 .. n, 0) /\ SumTo(w, 0) = P[0]
    BY <1>1
  <2> QED  BY <2>1 DEF Adds
<1>4. ASSUME NEW m \in 1 .. n  PROVE SumTo(w, m) = SumTo(w, m - 1) + w[m]
  <2>1. m \in 0 .. n /\ m - 1 \in 0 .. n /\ m \in Nat /\ m - 1 \in Nat
    OBVIOUS
  <2>2. PICK P : Adds(P, w, 1 .. n, m) /\ SumTo(w, m) = P[m]
    BY <1>1, <2>1
  <2>3. PICK Q : Adds(Q, w, 1 .. n, m - 1) /\ SumTo(w, m - 1) = Q[m - 1]
    BY <1>1, <2>1
  <2>4. P[m - 1] = Q[m - 1]
    <3> DEFINE k == m - 1
    <3>1. k \in Nat /\ k <= m /\ Adds(Q, w, 1 .. n, k)
      BY <2>1, <2>3
    <3> HIDE DEF k
    <3>2. P[k] = Q[k]
      BY <2>1, <2>2, <3>1, AddsAgree
    <3> QED  BY <3>2 DEF k
  <2>5. P[m] = P[m - 1] + w[m]
    BY <2>2 DEF Adds
  <2> QED  BY <2>2, <2>3, <2>4, <2>5
<1> QED  BY <1>2, <1>3, <1>4

-----------------------------------------------------------------------------
(* The limiters.                                                           *)

LEMMA GreatestIs ==
    ASSUME NEW S, NEW m \in S, \A v \in S : v <= m
    PROVE  Greatest(S) \in S /\ \A v \in S : v <= Greatest(S)
BY DEF Greatest

(* The bounds of the settings, which the limiter respects, and what is     *)
(* earned: a burst in the age at which a bucket is swept.                  *)
LEMMA Bounds ==
    /\ MaxRate \in Nat \ {0} /\ MaxBurst \in Nat
    /\ \A p \in AllSettings : p.rate \in Nat /\ p.burst \in Nat /\ p.limit \in Nat /\ p.slip \in Nat
    /\ \A p \in AllSettings : p.rate <= MaxRate /\ p.burst <= MaxBurst
    /\ Earned \in Nat \ {0} /\ MaxBurst <= Earned /\ GCAge * MaxRate <= Earned
    /\ GCAge \in Nat \ {0}
<1> DEFINE Rates == {p.rate : p \in AllSettings}
           Bursts == {p.burst : p \in AllSettings}
<1>1. \A p \in AllSettings : p.rate \in Nat /\ p.burst \in Nat /\ p.limit \in Nat /\ p.slip \in Nat
  BY HandlerAssumption
<1>2. MaxRate \in Rates /\ \A v \in Rates : v <= MaxRate
  <2>1. PICK p \in AllSettings : \A q \in AllSettings : q.rate <= p.rate
    BY HandlerAssumption
  <2>2. p.rate \in Rates /\ \A v \in Rates : v <= p.rate
    BY <2>1
  <2> HIDE DEF Rates
  <2>3. Greatest(Rates) \in Rates /\ \A v \in Rates : v <= Greatest(Rates)
    BY <2>2, GreatestIs
  <2> QED  BY <2>3 DEF MaxRate, Rates
<1>3. MaxBurst \in Bursts /\ \A v \in Bursts : v <= MaxBurst
  <2>1. PICK p \in AllSettings : \A q \in AllSettings : q.burst <= p.burst
    BY HandlerAssumption
  <2>2. p.burst \in Bursts /\ \A v \in Bursts : v <= p.burst
    BY <2>1
  <2> HIDE DEF Bursts
  <2>3. Greatest(Bursts) \in Bursts /\ \A v \in Bursts : v <= Greatest(Bursts)
    BY <2>2, GreatestIs
  <2> QED  BY <2>3 DEF MaxBurst, Bursts
<1>4. PICK p \in AllSettings : MaxRate = p.rate
  BY <1>2
<1>5. PICK q \in AllSettings : MaxBurst = q.burst
  BY <1>3
<1>6. InitSettings.rate \in Nat \ {0} /\ InitSettings.rate <= MaxRate
  BY <1>1, <1>2, HandlerAssumption DEF AllSettings
<1>7. MaxRate \in Nat \ {0}
  BY <1>1, <1>4, <1>6
<1>8. GCAge \in Nat \ {0} /\ GCAge * MaxRate \in Nat \ {0}
  <2>1. GCAge \in Nat \ {0}
    BY LimitersAssumption
  <2>2. \A a, b \in Nat \ {0} : a * b \in Nat \ {0}
    OBVIOUS
  <2> QED  BY <1>7, <2>1, <2>2
<1>9. MaxBurst \in Nat
  BY <1>1, <1>5
<1> HIDE DEF Rates, Bursts
<1>10. Earned \in Nat \ {0} /\ MaxBurst <= Earned /\ GCAge * MaxRate <= Earned
  BY <1>8, <1>9 DEF Earned
<1>11. \A v \in AllSettings : v.rate <= MaxRate /\ v.burst <= MaxBurst
  BY <1>2, <1>3 DEF Rates, Bursts
<1> QED  BY <1>1, <1>7, <1>8, <1>9, <1>10, <1>11

LEMMA SweptRate ==
    ASSUME NEW K, NEW r \in RateLimiters(K)
    PROVE  /\ Swept(r) \in RateLimiters(K)
           /\ Swept(r).rate = r.rate /\ Swept(r).burst = r.burst
           /\ \A k \in K : \/ Swept(r).buckets[k] = r.buckets[k]
                           \/ /\ Swept(r).buckets[k] = None
                              /\ r.buckets[k] # None /\ r.buckets[k].idle = GCAge + 1
<1>1. CASE r.sinceGC >= GCInterval
  <2>1. Swept(r) = [r EXCEPT !.buckets = gcLocked(@), !.sinceGC = 0]
    BY <1>1 DEF Swept
  <2>2. DOMAIN r.buckets = K /\ \A k \in K : r.buckets[k] \in TokenBucket \cup {None}
    BY DEF RateLimiters
  <2>3. \A k \in K : gcLocked(r.buckets)[k] = IF r.buckets[k] # None /\ r.buckets[k].idle > GCAge THEN None ELSE r.buckets[k]
    BY <2>2 DEF gcLocked
  <2>4. gcLocked(r.buckets) \in [K -> TokenBucket \cup {None}]
    BY <2>2 DEF gcLocked
  <2>5. \A k \in K : \/ gcLocked(r.buckets)[k] = r.buckets[k]
                     \/ /\ gcLocked(r.buckets)[k] = None
                        /\ r.buckets[k] # None /\ r.buckets[k].idle = GCAge + 1
    BY <2>2, <2>3, LimitersAssumption DEF TokenBucket
  <2>6. 0 \in 0 .. GCInterval
    BY LimitersAssumption
  <2> QED  BY <2>1, <2>4, <2>5, <2>6 DEF RateLimiters
<1>2. CASE ~(r.sinceGC >= GCInterval)
  BY <1>2 DEF Swept
<1> QED  BY <1>1, <1>2

LEMMA SweptRRL ==
    ASSUME NEW K, NEW r \in RRLs(K)
    PROVE  /\ Swept(r) \in RRLs(K)
           /\ Swept(r).limit = r.limit /\ Swept(r).slip = r.slip
           /\ \A k \in K : \/ Swept(r).buckets[k] = r.buckets[k]
                           \/ /\ Swept(r).buckets[k] = None
                              /\ r.buckets[k] # None /\ r.buckets[k].idle = GCAge + 1
<1>1. CASE r.sinceGC >= GCInterval
  <2>1. Swept(r) = [r EXCEPT !.buckets = gcLocked(@), !.sinceGC = 0]
    BY <1>1 DEF Swept
  <2>2. DOMAIN r.buckets = K /\ \A k \in K : r.buckets[k] \in Window \cup {None}
    BY DEF RRLs
  <2>3. \A k \in K : \/ gcLocked(r.buckets)[k] = r.buckets[k]
                     \/ /\ gcLocked(r.buckets)[k] = None
                        /\ r.buckets[k] # None /\ r.buckets[k].idle = GCAge + 1
    BY <2>2, LimitersAssumption DEF gcLocked, Window
  <2>4. gcLocked(r.buckets) \in [K -> Window \cup {None}]
    BY <2>2 DEF gcLocked
  <2>5. 0 \in 0 .. GCInterval
    BY LimitersAssumption
  <2> QED  BY <2>1, <2>3, <2>4, <2>5 DEF RRLs
<1>2. CASE ~(r.sinceGC >= GCInterval)
  BY <1>2 DEF Swept
<1> QED  BY <1>1, <1>2

LEMMA RateTickIs ==
    ASSUME NEW K, NEW r \in RateLimiters(K)
    PROVE  /\ RateTick(r) \in RateLimiters(K)
           /\ RateTick(r).rate = r.rate /\ RateTick(r).burst = r.burst
           /\ \A k \in K : RateTick(r).buckets[k] =
                 IF r.buckets[k] = None THEN None
                 ELSE [r.buckets[k] EXCEPT !.idle = Smaller(@ + 1, GCAge + 1)]
<1> DEFINE older(b) == [b EXCEPT !.idle = Smaller(@ + 1, GCAge + 1)]
           aged == [k \in K |-> IF r.buckets[k] = None THEN None ELSE older(r.buckets[k])]
<1>1. DOMAIN r.buckets = K /\ \A k \in K : r.buckets[k] \in TokenBucket \cup {None}
  BY DEF RateLimiters
<1>2. RateTick(r) = [r EXCEPT !.sinceGC = Smaller(@ + 1, GCInterval), !.buckets = aged]
  BY <1>1 DEF RateTick, Aged
<1>3. \A b \in TokenBucket : older(b) \in TokenBucket
  BY LimitersAssumption DEF Smaller, TokenBucket
<1>4. aged \in [K -> TokenBucket \cup {None}]
  <2> HIDE DEF older
  <2> QED  BY <1>1, <1>3
<1>5. Smaller(r.sinceGC + 1, GCInterval) \in 0 .. GCInterval
  BY LimitersAssumption DEF Smaller, RateLimiters
<1>6. \A k \in K : aged[k] = IF r.buckets[k] = None THEN None ELSE older(r.buckets[k])
  OBVIOUS
<1>7. \A k \in K : older(r.buckets[k]) = [r.buckets[k] EXCEPT !.idle = Smaller(@ + 1, GCAge + 1)]
  OBVIOUS
<1> HIDE DEF aged, older
<1> QED  BY <1>2, <1>4, <1>5, <1>6, <1>7 DEF RateLimiters

(* A window a tick later.                                                  *)
WindowAged(b, new) ==
    /\ new \in Window
    /\ new.count = b.count /\ new.slipped = b.slipped
    /\ new.idle = Smaller(b.idle + 1, GCAge + 1)
    /\ new.age = Smaller(b.age + 1, Second)

LEMMA RRLTickIs ==
    ASSUME NEW K, NEW r \in RRLs(K)
    PROVE  /\ RRLTick(r) \in RRLs(K)
           /\ RRLTick(r).limit = r.limit /\ RRLTick(r).slip = r.slip
           /\ \A k \in K : IF r.buckets[k] = None THEN RRLTick(r).buckets[k] = None
                           ELSE WindowAged(r.buckets[k], RRLTick(r).buckets[k])
<1> DEFINE older(b) == [b EXCEPT !.idle = Smaller(@ + 1, GCAge + 1), !.age = Smaller(@ + 1, Second)]
           aged == [k \in K |-> IF r.buckets[k] = None THEN None ELSE older(r.buckets[k])]
<1>1. DOMAIN r.buckets = K /\ \A k \in K : r.buckets[k] \in Window \cup {None}
  BY DEF RRLs
<1>2. RRLTick(r) = [r EXCEPT !.sinceGC = Smaller(@ + 1, GCInterval), !.buckets = aged]
  BY <1>1 DEF RRLTick, Aged
<1>3. \A b \in Window : WindowAged(b, older(b))
  <2> SUFFICES ASSUME NEW b \in Window  PROVE WindowAged(b, older(b))
    OBVIOUS
  <2>1. Smaller(b.idle + 1, GCAge + 1) \in 0 .. GCAge + 1 /\ Smaller(b.age + 1, Second) \in 0 .. Second
    BY LimitersAssumption DEF Smaller, Window
  <2> QED  BY <2>1 DEF WindowAged, Window
<1>4. aged \in [K -> Window \cup {None}]
  <2> HIDE DEF older
  <2> QED  BY <1>1, <1>3 DEF WindowAged
<1>5. Smaller(r.sinceGC + 1, GCInterval) \in 0 .. GCInterval
  BY LimitersAssumption DEF Smaller, RRLs
<1>6. \A k \in K : IF r.buckets[k] = None THEN aged[k] = None ELSE WindowAged(r.buckets[k], aged[k])
  <2> HIDE DEF older
  <2> QED  BY <1>1, <1>3
<1> HIDE DEF aged, older
<1> QED  BY <1>2, <1>4, <1>5, <1>6 DEF RRLs

LEMMA RateUpdateIs ==
    ASSUME NEW K, NEW r \in RateLimiters(K), NEW rate \in Nat, NEW burst \in Nat
    PROVE  /\ RateUpdate(r, rate, burst) \in RateLimiters(K)
           /\ RateUpdate(r, rate, burst).buckets = r.buckets
           /\ RateUpdate(r, rate, burst).rate \in {rate, r.rate}
           /\ RateUpdate(r, rate, burst).burst \in {burst, r.burst}
<1>1. RateUpdate(r, rate, burst) = [r EXCEPT !.rate = OrElse(rate, r.rate), !.burst = OrElse(burst, r.burst)]
  BY DEF RateUpdate
<1>2. /\ OrElse(rate, r.rate) \in Nat \ {0} /\ OrElse(rate, r.rate) \in {rate, r.rate}
      /\ OrElse(burst, r.burst) \in Nat \ {0} /\ OrElse(burst, r.burst) \in {burst, r.burst}
  BY DEF OrElse, RateLimiters
<1> QED  BY <1>1, <1>2 DEF RateLimiters

LEMMA RRLUpdateIs ==
    ASSUME NEW K, NEW r \in RRLs(K), NEW limit \in Nat, NEW slip \in Nat
    PROVE  /\ RRLUpdate(r, limit, slip) \in RRLs(K)
           /\ RRLUpdate(r, limit, slip).buckets = r.buckets
           /\ RRLUpdate(r, limit, slip).slip = IF slip > 0 THEN slip ELSE r.slip
           /\ RRLUpdate(r, limit, slip).limit \in {limit, r.limit}
<1>1. RRLUpdate(r, limit, slip) = [r EXCEPT !.limit = OrElse(limit, r.limit), !.slip = OrElse(slip, r.slip)]
  BY DEF RRLUpdate
<1>2. /\ OrElse(limit, r.limit) \in Nat \ {0} /\ OrElse(limit, r.limit) \in {limit, r.limit}
      /\ OrElse(slip, r.slip) \in Nat \ {0} /\ OrElse(slip, r.slip) = IF slip > 0 THEN slip ELSE r.slip
  BY DEF OrElse, RRLs
<1> QED  BY <1>1, <1>2 DEF RRLs

(* The tokens at hand are no more than the burst and than what is left and *)
(* earned.                                                                 *)
LEMMA TokensType ==
    ASSUME NEW K, NEW r \in RateLimiters(K), NEW k \in K
    PROVE  /\ Tokens(r, k) \in Nat /\ Tokens(r, k) <= r.burst
           /\ r.buckets[k] # None =>
                 Tokens(r, k) <= r.buckets[k].tokens + r.buckets[k].idle * r.rate
<1>1. CASE r.buckets[k] = None
  BY <1>1 DEF Tokens, RateLimiters
<1>2. CASE r.buckets[k] # None
  <2> DEFINE b == r.buckets[k]
  <2>1. b.tokens \in Nat /\ b.idle \in Nat /\ r.rate \in Nat /\ r.burst \in Nat
    BY <1>2, LimitersAssumption DEF RateLimiters, TokenBucket
  <2>2. Tokens(r, k) = Smaller(r.burst, b.tokens + b.idle * r.rate)
    BY <1>2 DEF Tokens, Refilled
  <2> HIDE DEF b
  <2>3. b.idle * r.rate \in Nat
    BY <2>1
  <2>4. Tokens(r, k) \in Nat /\ Tokens(r, k) <= r.burst /\ Tokens(r, k) <= b.tokens + b.idle * r.rate
    BY <2>1, <2>2, <2>3 DEF Smaller
  <2> QED  BY <2>4 DEF b
<1> QED  BY <1>1, <1>2

LEMMA RateAllowIs ==
    ASSUME NEW K, NEW r \in RateLimiters(K), NEW k \in K
    PROVE  LET n == Tokens(Swept(r), k) IN
           /\ n \in Nat /\ RateAllows(r, k) \in BOOLEAN
           /\ RateAllows(r, k) <=> n >= 1
           /\ RateAllow(r, k) \in RateLimiters(K)
           /\ RateAllow(r, k).rate = r.rate /\ RateAllow(r, k).burst = r.burst
           /\ RateAllow(r, k).buckets[k] = [tokens |-> IF RateAllows(r, k) THEN n - 1 ELSE n, idle |-> 0]
<1> DEFINE n == Tokens(Swept(r), k)
           s == Swept(r)
           new == [tokens |-> IF RateAllows(r, k) THEN n - 1 ELSE n, idle |-> 0]
<1>1. s \in RateLimiters(K) /\ s.rate = r.rate /\ s.burst = r.burst
  BY SweptRate
<1>2. n \in Nat
  <2> HIDE DEF s
  <2>1. Tokens(s, k) \in Nat
    BY <1>1, TokensType
  <2> QED  BY <2>1 DEF s
<1>3. RateAllows(r, k) \in BOOLEAN /\ (RateAllows(r, k) <=> n >= 1)
  BY DEF RateAllows
<1>4. new \in TokenBucket
  <2>1. (IF RateAllows(r, k) THEN n - 1 ELSE n) \in Nat
    BY <1>2, <1>3
  <2> QED  BY <2>1, LimitersAssumption DEF TokenBucket
<1>5. RateAllow(r, k) = [s EXCEPT !.buckets[k] = new]
  BY DEF RateAllow
<1> HIDE DEF s, new
<1>6. /\ RateAllow(r, k) \in RateLimiters(K)
      /\ RateAllow(r, k).rate = s.rate /\ RateAllow(r, k).burst = s.burst
      /\ RateAllow(r, k).buckets[k] = new
  BY <1>1, <1>4, <1>5 DEF RateLimiters
<1> QED  BY <1>1, <1>2, <1>3, <1>6 DEF s, new

(* The buckets of other clients are swept at most.                         *)
LEMMA RateAllowOthers ==
    ASSUME NEW K, NEW r \in RateLimiters(K), NEW k \in K
    PROVE  \A j \in K \ {k} : RateAllow(r, k).buckets[j] = Swept(r).buckets[j]
<1> DEFINE s == Swept(r)
<1>1. s \in RateLimiters(K)
  BY SweptRate
<1>2. \E new : RateAllow(r, k) = [s EXCEPT !.buckets[k] = new]
  BY DEF RateAllow
<1> HIDE DEF s
<1>3. \A j \in K \ {k} : RateAllow(r, k).buckets[j] = s.buckets[j]
  BY <1>1, <1>2 DEF RateLimiters
<1> QED  BY <1>3 DEF s

LEMMA CountedType ==
    ASSUME NEW b \in Window \cup {None}
    PROVE  /\ Counted(b) \in Window
           /\ \/ Counted(b).slipped = 0 /\ Counted(b).count = 1
              \/ b # None /\ Counted(b).slipped = b.slipped
<1>1. FirstOfWindow \in Window /\ FirstOfWindow.slipped = 0 /\ FirstOfWindow.count = 1
  BY LimitersAssumption DEF FirstOfWindow, Window
<1>2. CASE b = None \/ b.age >= Second
  BY <1>1, <1>2 DEF Counted
<1>3. CASE ~(b = None \/ b.age >= Second)
  <2>1. Counted(b) = [b EXCEPT !.count = @ + 1, !.idle = 0]
    BY <1>3 DEF Counted
  <2>2. b \in Window /\ 0 \in 0 .. GCAge + 1
    BY <1>3, LimitersAssumption
  <2>3. b.count + 1 \in Nat
    BY <2>2 DEF Window
  <2>4. Counted(b) \in Window /\ Counted(b).slipped = b.slipped
    BY <2>1, <2>2, <2>3 DEF Window
  <2> QED  BY <1>3, <2>4
<1> QED  BY <1>2, <1>3

LEMMA RRLAllowIs ==
    ASSUME NEW K, NEW r \in RRLs(K), NEW k \in K
    PROVE  LET w == Counted(Swept(r).buckets[k]) IN
           /\ w \in Window /\ RRLAllows(r, k) \in BOOLEAN
           /\ \/ w.slipped = 0 /\ w.count = 1
              \/ r.buckets[k] # None /\ w.slipped = r.buckets[k].slipped
           /\ RRLAllow(r, k) \in RRLs(K)
           /\ RRLAllow(r, k).limit = r.limit /\ RRLAllow(r, k).slip = r.slip
           /\ RRLAllow(r, k).buckets[k].slipped = IF w.count > r.limit THEN w.slipped + 1 ELSE w.slipped
           /\ \A j \in K \ {k} : RRLAllow(r, k).buckets[j] = Swept(r).buckets[j]
<1> DEFINE w == Counted(Swept(r).buckets[k])
           s == Swept(r)
           new == IF w.count > r.limit THEN [w EXCEPT !.slipped = @ + 1] ELSE w
<1>1. s \in RRLs(K) /\ s.limit = r.limit /\ s.slip = r.slip /\ s.buckets[k] \in {r.buckets[k], None}
  BY SweptRRL
<1>2. s.buckets[k] \in Window \cup {None}
  BY <1>1 DEF RRLs
<1>3. /\ w \in Window
      /\ \/ w.slipped = 0 /\ w.count = 1
         \/ s.buckets[k] # None /\ w.slipped = s.buckets[k].slipped
  <2> DEFINE b == s.buckets[k]
  <2> HIDE DEF b
  <2>1. /\ Counted(b) \in Window
        /\ \/ Counted(b).slipped = 0 /\ Counted(b).count = 1
           \/ b # None /\ Counted(b).slipped = b.slipped
    BY <1>2, CountedType DEF b
  <2> QED  BY <2>1 DEF b
<1>4. RRLAllow(r, k) = [s EXCEPT !.buckets[k] = new]
  BY DEF RRLAllow
<1>5. RRLAllows(r, k) \in BOOLEAN
  BY DEF RRLAllows
<1> HIDE DEF w, s
<1>6. new \in Window /\ new.slipped = IF w.count > r.limit THEN w.slipped + 1 ELSE w.slipped
  BY <1>3 DEF Window
<1> HIDE DEF new
<1>7. /\ RRLAllow(r, k) \in RRLs(K)
      /\ RRLAllow(r, k).limit = s.limit /\ RRLAllow(r, k).slip = s.slip
      /\ RRLAllow(r, k).buckets[k] = new
      /\ \A j \in K \ {k} : RRLAllow(r, k).buckets[j] = s.buckets[j]
  BY <1>1, <1>4, <1>6 DEF RRLs
<1> QED  BY <1>1, <1>3, <1>5, <1>6, <1>7 DEF w, s

(* The bucket Allow leaves, as the fields it has.                          *)
LEMMA RRLAllowBucket ==
    ASSUME NEW K, NEW r \in RRLs(K), NEW k \in K,
           NEW w \in Window, w = Counted(Swept(r).buckets[k]), NEW new, new = RRLAllow(r, k).buckets[k]
    PROVE  /\ new \in Window /\ new # None
           /\ new.count = w.count /\ new.age = w.age /\ new.idle = w.idle
           /\ new.slipped = IF w.count > r.limit THEN w.slipped + 1 ELSE w.slipped
<1> DEFINE s == Swept(r)
           n == IF w.count > r.limit THEN [w EXCEPT !.slipped = @ + 1] ELSE w
<1>1. s \in RRLs(K)
  BY SweptRRL
<1>2. RRLAllow(r, k) = [s EXCEPT !.buckets[k] = n]
  BY DEF RRLAllow
<1> HIDE DEF s
<1>3. /\ n \in Window
      /\ n.count = w.count /\ n.age = w.age /\ n.idle = w.idle
      /\ n.slipped = IF w.count > r.limit THEN w.slipped + 1 ELSE w.slipped
  BY DEF Window
<1> HIDE DEF n
<1>4. RRLAllow(r, k).buckets[k] = n
  BY <1>1, <1>2, <1>3 DEF RRLs
<1> QED  BY <1>3, <1>4, LimitersAssumption
-----------------------------------------------------------------------------
(* The state is well formed.                                               *)

LimitersOK ==
    /\ limiter \in RateLimiters(Clients)
    /\ rrl \in RRLs(Tuples)
    /\ {rrlEnabled, allowRecursive} \subseteq BOOLEAN

CallsOK ==
    /\ pc \in [Goroutines -> {"idle", "limit", "decode", "resolve", "rrl", "account"}]
    /\ packet \in [Goroutines -> Packets \cup {None}]
    /\ response \in [Goroutines -> Responses \cup {None}]
    /\ \A g \in Goroutines :
          /\ packet[g] # None <=> pc[g] # "idle"
          /\ response[g] # None <=> pc[g] \in {"rrl", "account"}

HistoryOK ==
    /\ clientIP \in 0 .. ClientTable
    /\ excess \in [Clients -> Nat]
    /\ recent \in [Tuples -> [1 .. Second -> [seen : Nat, passed : Nat]]]
    /\ silent \in [Tuples -> Nat]

LEMMA TypeParts == TypeOK <=> LimitersOK /\ CallsOK /\ HistoryOK
BY DEF TypeOK, LimitersOK, CallsOK, HistoryOK

LEMMA InitSettingsOK ==
    /\ InitSettings.rate \in Nat \ {0} /\ InitSettings.burst \in Nat \ {0}
    /\ InitSettings.limit \in Nat \ {0} /\ InitSettings.slip \in Nat \ {0}
    /\ {InitSettings.rrlEnabled, InitSettings.allowRecursive} \subseteq BOOLEAN
BY HandlerAssumption DEF AllSettings

LEMMA InitType == Init => TypeOK
<1> SUFFICES ASSUME Init  PROVE TypeOK
  OBVIOUS
<1>1. LimitersOK
  <2>1. limiter \in RateLimiters(Clients)
    BY InitSettingsOK, LimitersAssumption DEF Init, NewRateLimiter, RateLimiters
  <2>2. rrl \in RRLs(Tuples)
    BY InitSettingsOK, LimitersAssumption DEF Init, NewRRL, RRLs
  <2> QED  BY <2>1, <2>2, InitSettingsOK DEF Init, LimitersOK
<1>2. CallsOK
  BY DEF Init, CallsOK
<1>3. HistoryOK
  BY HandlerAssumption DEF Init, HistoryOK, Nothing
<1> QED  BY <1>1, <1>2, <1>3, TypeParts

(* A caller that is at work has a packet, of a client, and what it moves   *)
(* on to.                                                                  *)
LEMMA PacketOf ==
    ASSUME TypeOK, NEW g \in Goroutines, pc[g] # "idle"
    PROVE  packet[g] \in Packets /\ packet[g].client \in Clients /\ packet[g].question \in Questions
BY HandlerAssumption DEF TypeOK

LEMMA TupleType ==
    ASSUME TypeOK, NEW g \in Goroutines, pc[g] = "rrl"
    PROVE  TupleOf(packet[g], response[g].rcode) \in Tuples
<1>1. packet[g].client \in Clients /\ packet[g].question \in Questions
  BY PacketOf
<1>2. response[g] \in Responses
  BY DEF TypeOK
<1> QED  BY <1>1, <1>2 DEF Tuples, TupleOf, Responses

LEMMA GotoOK ==
    ASSUME CallsOK, NEW g \in Goroutines, NEW step, Goto(g, step), UNCHANGED <<packet, response>>,
           \/ pc[g] \in {"limit", "decode"} /\ step \in {"decode", "resolve"}
           \/ pc[g] = "rrl" /\ step = "account"
    PROVE  CallsOK'
BY DEF CallsOK, Goto

LEMMA ReturnOK ==
    ASSUME CallsOK, NEW g \in Goroutines, Return(g)
    PROVE  CallsOK'
BY DEF CallsOK, Return, Goto

LEMMA RespondOK ==
    ASSUME CallsOK, NEW g \in Goroutines, pc[g] = "resolve", NEW r \in Responses,
           response' = [response EXCEPT ![g] = r], Goto(g, "rrl"), UNCHANGED packet
    PROVE  CallsOK'
<1>1. r # None
  BY HandlerAssumption
<1> QED  BY <1>1 DEF CallsOK, Goto

LEMMA TypeStep == TypeOK /\ [Next]_vars => TypeOK'
<1> SUFFICES ASSUME TypeOK, [Next]_vars  PROVE LimitersOK' /\ CallsOK' /\ HistoryOK'
  BY TypeParts DEF TypeOK, LimitersOK, CallsOK, HistoryOK
<1>0. LimitersOK /\ CallsOK /\ HistoryOK
  BY TypeParts
<1>1. ASSUME NEW g \in Goroutines, NEW p \in Packets, Receive(g, p)  PROVE LimitersOK' /\ CallsOK' /\ HistoryOK'
  <2>1. LimitersOK' /\ HistoryOK'
    BY <1>0, <1>1 DEF Receive, LimitersOK, HistoryOK, settingVars
  <2>2. CASE UNCHANGED callVars
    BY <1>0, <2>1, <2>2 DEF CallsOK, callVars
  <2>3. CASE ~ UNCHANGED callVars
    <3>1. /\ pc[g] = "idle" /\ packet' = [packet EXCEPT ![g] = p] /\ UNCHANGED response
          /\ \E step \in {"limit", "decode"} : Goto(g, step)
      BY <1>1, <2>3 DEF Receive
    <3>2. p # None
      BY HandlerAssumption
    <3> QED  BY <1>0, <2>1, <3>1, <3>2 DEF CallsOK, Goto
  <2> QED  BY <2>2, <2>3
<1>2. ASSUME NEW g \in Goroutines, Limit(g)  PROVE LimitersOK' /\ CallsOK' /\ HistoryOK'
  <2> DEFINE ip == packet[g].client
  <2>1. ip \in Clients /\ pc[g] = "limit"
    BY <1>2, PacketOf DEF Limit
  <2>2. limiter' \in RateLimiters(Clients)
    BY <1>0, <1>2, <2>1, RateAllowIs DEF Limit, LimitersOK
  <2>3. LimitersOK'
    BY <1>0, <1>2, <2>2 DEF Limit, LimitersOK, settingVars
  <2>4. HistoryOK'
    BY <1>0, <1>2, <2>1, LimitersAssumption DEF Limit, HistoryOK
  <2>5. CASE Goto(g, "decode") /\ UNCHANGED <<packet, response>>
    BY <1>0, <2>1, <2>3, <2>4, <2>5, GotoOK
  <2>6. CASE Return(g)
    BY <1>0, <2>3, <2>4, <2>6, ReturnOK
  <2> QED  BY <1>2, <2>5, <2>6 DEF Limit
<1>3. ASSUME NEW g \in Goroutines, Reject(g) \/ EncodeFails(g)  PROVE LimitersOK' /\ CallsOK' /\ HistoryOK'
  <2>1. LimitersOK' /\ HistoryOK'
    BY <1>0, <1>3 DEF Reject, EncodeFails, LimitersOK, HistoryOK, settingVars, historyVars
  <2> QED  BY <1>0, <1>3, <2>1, ReturnOK DEF Reject, EncodeFails
<1>4. ASSUME NEW g \in Goroutines, StartResolve(g) \/ SkipRRL(g)  PROVE LimitersOK' /\ CallsOK' /\ HistoryOK'
  <2>1. LimitersOK' /\ HistoryOK'
    BY <1>0, <1>4 DEF StartResolve, SkipRRL, LimitersOK, HistoryOK, settingVars, historyVars
  <2> QED  BY <1>0, <1>4, <2>1, GotoOK DEF StartResolve, SkipRRL
<1>5. ASSUME NEW g \in Goroutines, ResolveFails(g)  PROVE LimitersOK' /\ CallsOK' /\ HistoryOK'
  <2>1. LimitersOK' /\ HistoryOK'
    BY <1>0, <1>5 DEF ResolveFails, LimitersOK, HistoryOK, settingVars, historyVars
  <2>2. [rcode |-> "SERVFAIL", tc |-> FALSE, traced |-> FALSE] \in Responses
    BY HandlerAssumption DEF Responses
  <2> QED  BY <1>0, <1>5, <2>1, <2>2, RespondOK DEF ResolveFails
<1>6. ASSUME NEW g \in Goroutines, NEW rcode \in RCodes, NEW large \in BOOLEAN, Resolved(g, rcode, large)
      PROVE  LimitersOK' /\ CallsOK' /\ HistoryOK'
  <2>1. LimitersOK' /\ HistoryOK'
    BY <1>0, <1>6 DEF Resolved, LimitersOK, HistoryOK, settingVars, historyVars
  <2> DEFINE cut == large /\ packet[g].proto = "udp" /\ ~packet[g].edns
             r == [rcode |-> rcode, tc |-> cut, traced |-> TRUE]
  <2>2. cut \in BOOLEAN
    OBVIOUS
  <2>3. r \in Responses
    <3> HIDE DEF cut
    <3> QED  BY <2>2 DEF Responses
  <2>4. pc[g] = "resolve" /\ response' = [response EXCEPT ![g] = r] /\ Goto(g, "rrl") /\ UNCHANGED packet
    BY <1>6 DEF Resolved
  <2> HIDE DEF r
  <2> QED  BY <1>0, <2>1, <2>3, <2>4, RespondOK
<1>7. ASSUME NEW g \in Goroutines, CheckRRL(g)  PROVE LimitersOK' /\ CallsOK' /\ HistoryOK'
  <2> DEFINE tuple == TupleOf(packet[g], response[g].rcode)
             passes == RRLAllows(rrl, tuple)
             now == [seen |-> recent[tuple][1].seen + 1, passed |-> recent[tuple][1].passed + (IF passes THEN 1 ELSE 0)]
  <2>1. tuple \in Tuples /\ pc[g] = "rrl"
    BY <1>7, TupleType DEF CheckRRL
  <2>2. /\ rrl' = RRLAllow(rrl, tuple)
        /\ \/ Goto(g, "account") /\ UNCHANGED <<packet, response>>
           \/ Return(g)
        /\ recent' = [recent EXCEPT ![tuple] = [@ EXCEPT ![1] = now]]
        /\ silent' = [silent EXCEPT ![tuple] = IF passes THEN 0 ELSE @ + 1]
        /\ UNCHANGED <<limiter, settingVars, clientIP, excess>>
    BY <1>7 DEF CheckRRL
  <2> HIDE DEF tuple, passes
  <2>3. rrl' \in RRLs(Tuples)
    BY <1>0, <2>1, <2>2, RRLAllowIs DEF LimitersOK
  <2>4. LimitersOK'
    BY <1>0, <2>2, <2>3 DEF LimitersOK, settingVars
  <2>5. recent' \in [Tuples -> [1 .. Second -> [seen : Nat, passed : Nat]]]
    <3>1. 1 \in 1 .. Second
      BY LimitersAssumption
    <3>2. recent[tuple] \in [1 .. Second -> [seen : Nat, passed : Nat]]
      BY <1>0, <2>1 DEF HistoryOK
    <3>3. now \in [seen : Nat, passed : Nat]
      <4>1. recent[tuple][1] \in [seen : Nat, passed : Nat]
        BY <3>1, <3>2
      <4>2. /\ recent[tuple][1].seen + 1 \in Nat
            /\ recent[tuple][1].passed + (IF passes THEN 1 ELSE 0) \in Nat
        BY <4>1
      <4> QED  BY <4>2
    <3> HIDE DEF now
    <3>4. [recent[tuple] EXCEPT ![1] = now] \in [1 .. Second -> [seen : Nat, passed : Nat]]
      BY <3>2, <3>3
    <3> QED  BY <1>0, <2>2, <3>4 DEF HistoryOK
  <2>6. silent' \in [Tuples -> Nat]
    BY <1>0, <2>1, <2>2 DEF HistoryOK
  <2>7. HistoryOK'
    BY <1>0, <2>2, <2>5, <2>6 DEF HistoryOK
  <2>8. CallsOK'
    BY <1>0, <2>1, <2>2, GotoOK, ReturnOK
  <2> QED  BY <2>4, <2>7, <2>8
<1>8. ASSUME NEW g \in Goroutines, Account(g)  PROVE LimitersOK' /\ CallsOK' /\ HistoryOK'
  <2>1. LimitersOK'
    BY <1>0, <1>8 DEF Account, LimitersOK, settingVars
  <2>2. recordQueryClient(clientIP) \in 0 .. ClientTable
    BY <1>0, HandlerAssumption DEF HistoryOK, recordQueryClient
  <2>3. HistoryOK'
    BY <1>0, <1>8, <2>2 DEF Account, HistoryOK, historyVars
  <2> QED  BY <1>0, <1>8, <2>1, <2>3, ReturnOK DEF Account
<1>9. ASSUME NEW p \in Posts, ApplyRuntimeSettings(p)  PROVE LimitersOK' /\ CallsOK' /\ HistoryOK'
  <2>1. CallsOK' /\ HistoryOK'
    BY <1>0, <1>9 DEF ApplyRuntimeSettings, PostRecursion, PostRRLEnabled, PostRate, PostRRL,
                      CallsOK, HistoryOK, callVars, historyVars
  <2>2. /\ p.rate \in Nat /\ p.burst \in Nat /\ p.limit \in Nat /\ p.slip \in Nat
        /\ {p.rrlEnabled, p.allowRecursive} \subseteq BOOLEAN
    BY HandlerAssumption DEF AllSettings
  <2>3. CASE PostRecursion(p) \/ PostRRLEnabled(p)
    BY <1>0, <2>1, <2>2, <2>3 DEF PostRecursion, PostRRLEnabled, LimitersOK
  <2>4. CASE PostRate(p)
    BY <1>0, <2>1, <2>2, <2>4, RateUpdateIs DEF PostRate, LimitersOK, settingVars
  <2>5. CASE PostRRL(p)
    BY <1>0, <2>1, <2>2, <2>5, RRLUpdateIs DEF PostRRL, LimitersOK, settingVars
  <2> QED  BY <1>9, <2>3, <2>4, <2>5 DEF ApplyRuntimeSettings
<1>10. CASE Tick
  <2>1. LimitersOK'
    BY <1>0, <1>10, RateTickIs, RRLTickIs DEF Tick, LimitersOK, settingVars
  <2>2. CallsOK'
    BY <1>0, <1>10 DEF Tick, CallsOK, callVars
  <2>3. excess' \in [Clients -> Nat]
    BY <1>0, <1>10, Bounds DEF Tick, HistoryOK
  <2>4. recent' \in [Tuples -> [1 .. Second -> [seen : Nat, passed : Nat]]]
    <3> SUFFICES ASSUME NEW t \in Tuples, NEW i \in 1 .. Second
                 PROVE  (IF i = 1 THEN Nothing ELSE recent[t][i - 1]) \in [seen : Nat, passed : Nat]
      BY <1>10 DEF Tick
    <3>1. i # 1 => i - 1 \in 1 .. Second
      BY LimitersAssumption
    <3> QED  BY <1>0, <3>1 DEF HistoryOK, Nothing
  <2> QED  BY <1>0, <1>10, <2>1, <2>2, <2>3, <2>4 DEF Tick, HistoryOK
<1>11. CASE UNCHANGED vars
  BY <1>0, <1>11 DEF vars, settingVars, callVars, historyVars, LimitersOK, CallsOK, HistoryOK
<1> QED
  BY <1>1, <1>2, <1>3, <1>4, <1>5, <1>6, <1>7, <1>8, <1>9, <1>10, <1>11 DEF Next, HandlePacket

(* Limiters, callers and histories are well formed in every reachable      *)
(* state: buckets belong to clients and tuples, a caller has a packet and  *)
(* a response exactly where HandlePacket has one, and h.queryClientIP      *)
(* never grows past its limit.                                             *)
THEOREM TypeCorrect == Spec => []TypeOK
<1>1. Init => TypeOK
  BY InitType
<1>2. TypeOK /\ [Next]_vars => TypeOK'
  BY TypeStep
<1> QED  BY <1>1, <1>2, PTL DEF Spec
-----------------------------------------------------------------------------
(* The rate limit.                                                         *)

(* A bucket that covers the excess covers it after a tick, in which the    *)
(* excess decays.                                                          *)
LEMMA CoversAfterTick ==
    ASSUME NEW e \in Nat, NEW b \in TokenBucket, BucketCovers(e, b)
    PROVE  BucketCovers(IF e > Earned THEN e - Earned ELSE 0, [b EXCEPT !.idle = Smaller(@ + 1, GCAge + 1)])
<1> DEFINE later == [b EXCEPT !.idle = Smaller(@ + 1, GCAge + 1)]
<1>1. CASE e <= Earned
  BY <1>1, Bounds DEF BucketCovers
<1>2. CASE e > Earned
  <2>1. /\ b.tokens \in Nat /\ b.idle \in Nat /\ b.idle <= GCAge + 1
        /\ later.tokens = b.tokens /\ later.idle = Smaller(b.idle + 1, GCAge + 1)
    BY LimitersAssumption DEF TokenBucket
  <2>2. e + GCAge * b.tokens + b.idle * Earned <= GCAge * MaxBurst
    BY <1>2, Bounds DEF BucketCovers
  <2>3. later.idle \in Nat /\ later.idle <= b.idle + 1
    BY <2>1, LimitersAssumption DEF Smaller
  <2>4. /\ b.idle * Earned \in Nat /\ later.idle * Earned \in Nat
        /\ (b.idle + 1) * Earned = b.idle * Earned + Earned
        /\ GCAge * b.tokens \in Nat /\ GCAge * MaxBurst \in Nat
    BY <2>1, <2>3, Bounds
  <2>5. later.idle * Earned <= (b.idle + 1) * Earned
    <3>1. \A i, j, m \in Nat : i <= j => i * m <= j * m
      OBVIOUS
    <3> QED  BY <2>1, <2>3, <3>1, Bounds
  <2>6. GCAge * later.tokens = GCAge * b.tokens
    BY <2>1
  <2> HIDE DEF later
  <2>7. (e - Earned) + GCAge * later.tokens + later.idle * Earned <= GCAge * MaxBurst
    BY <2>2, <2>4, <2>5, <2>6, Bounds
  <2> QED  BY <1>2, <2>7 DEF BucketCovers, later
<1> QED  BY <1>1, <1>2, Bounds

(* A bucket old enough to be swept has nothing to answer for.              *)
LEMMA SweptCoversNothing ==
    ASSUME NEW e \in Nat, NEW b \in TokenBucket, BucketCovers(e, b), b.idle = GCAge + 1
    PROVE  e = 0
<1>1. GCAge * Earned \in Nat /\ (GCAge + 1) * Earned = GCAge * Earned + Earned
  BY Bounds
<1>2. GCAge * MaxBurst \in Nat /\ GCAge * MaxBurst <= GCAge * Earned
  <2>1. \A i, j, m \in Nat : i <= j => m * i <= m * j /\ m * i \in Nat
    OBVIOUS
  <2> QED  BY <2>1, Bounds
<1>3. GCAge * b.tokens \in Nat
  BY Bounds DEF TokenBucket
<1> QED  BY <1>1, <1>2, <1>3, Bounds DEF BucketCovers

(* What holds of a client in ExcessInv.                                    *)
ClientCovered(e, b) == IF b = None THEN e = 0 ELSE BucketCovers(e, b)

LEMMA SweptCovers ==
    ASSUME NEW r \in RateLimiters(Clients), NEW c \in Clients, NEW e \in Nat, ClientCovered(e, r.buckets[c])
    PROVE  ClientCovered(e, Swept(r).buckets[c])
<1>1. CASE Swept(r).buckets[c] = r.buckets[c]
  BY <1>1
<1>2. CASE Swept(r).buckets[c] # r.buckets[c]
  <2>1. Swept(r).buckets[c] = None /\ r.buckets[c] # None /\ r.buckets[c].idle = GCAge + 1
    BY <1>2, SweptRate
  <2>2. r.buckets[c] \in TokenBucket
    BY <2>1 DEF RateLimiters
  <2>3. e = 0
    BY <2>1, <2>2, SweptCoversNothing DEF ClientCovered
  <2> QED  BY <2>1, <2>3 DEF ClientCovered
<1> QED  BY <1>1, <1>2

(* What Allow takes from a bucket it adds to the excess.                   *)
LEMMA AllowCovers ==
    ASSUME NEW r \in RateLimiters(Clients), NEW c \in Clients, NEW e \in Nat, ClientCovered(e, r.buckets[c]),
           r.rate <= MaxRate, r.burst <= MaxBurst
    PROVE  ClientCovered(IF RateAllows(r, c) THEN e + GCAge ELSE e, RateAllow(r, c).buckets[c])
<1> DEFINE s == Swept(r)
           n == Tokens(s, c)
           new == RateAllow(r, c).buckets[c]
           f == IF RateAllows(r, c) THEN e + GCAge ELSE e
<1>1. s \in RateLimiters(Clients) /\ s.rate = r.rate /\ s.burst = r.burst
  BY SweptRate
<1>2. ClientCovered(e, s.buckets[c])
  BY SweptCovers
<1>3. /\ n \in Nat /\ (RateAllows(r, c) <=> n >= 1)
      /\ new = [tokens |-> IF RateAllows(r, c) THEN n - 1 ELSE n, idle |-> 0]
  BY RateAllowIs
<1>4. /\ n <= s.burst
      /\ s.buckets[c] # None => n <= s.buckets[c].tokens + s.buckets[c].idle * s.rate
  <2> HIDE DEF s
  <2> QED  BY <1>1, TokensType
<1>5. new \in TokenBucket /\ new.idle = 0 /\ new # None
  <2>1. (IF RateAllows(r, c) THEN n - 1 ELSE n) \in Nat
    BY <1>3
  <2> HIDE DEF new, n
  <2>2. new \in TokenBucket /\ new.idle = 0
    BY <1>3, <2>1, LimitersAssumption DEF TokenBucket
  <2> QED  BY <2>2, LimitersAssumption
<1>6. f + GCAge * new.tokens = e + GCAge * n /\ f \in Nat
  <2>1. n \in Nat /\ n - 1 \in Int /\ GCAge * (n - 1) = GCAge * n - GCAge /\ GCAge * n \in Nat
    BY <1>3, Bounds
  <2>2. new.tokens = IF RateAllows(r, c) THEN n - 1 ELSE n
    BY <1>3
  <2> HIDE DEF n, new
  <2> QED  BY <2>1, <2>2, Bounds
<1>7. 0 * Earned = 0
  BY Bounds
<1> HIDE DEF n, new, f, s
<1>8. s.burst \in Nat /\ s.burst <= MaxBurst
  BY <1>1 DEF RateLimiters
<1>9. SUFFICES e + GCAge * n <= GCAge * MaxBurst
  <2>1. GCAge * new.tokens \in Nat /\ GCAge * n \in Nat /\ GCAge * MaxBurst \in Nat
    BY <1>3, <1>5, Bounds DEF TokenBucket
  <2>2. f + GCAge * new.tokens + new.idle * Earned <= GCAge * MaxBurst
    BY <1>5, <1>6, <1>7, <1>9, <2>1
  <2> QED  BY <1>5, <2>2 DEF ClientCovered, BucketCovers, f, new
<1>10. \A i, j, m \in Nat : i <= j => m * i <= m * j /\ m * i \in Nat
  OBVIOUS
<1>11. CASE e = 0
  <2>1. n <= MaxBurst
    BY <1>3, <1>4, <1>8, Bounds
  <2> QED  BY <1>3, <1>10, <1>11, <2>1, Bounds
<1>12. CASE e # 0
  <2> DEFINE b == s.buckets[c]
  <2>1. b # None /\ BucketCovers(e, b)
    BY <1>2, <1>12 DEF ClientCovered
  <2>2. b \in TokenBucket
    BY <1>1, <2>1 DEF RateLimiters
  <2>3. b.tokens \in Nat /\ b.idle \in Nat /\ s.rate \in Nat /\ s.rate <= MaxRate
    BY <1>1, <2>2, LimitersAssumption DEF TokenBucket, RateLimiters
  <2>4. e + GCAge * b.tokens + b.idle * Earned <= GCAge * MaxBurst
    BY <1>12, <2>1 DEF BucketCovers
  <2>5. n <= b.tokens + b.idle * s.rate
    BY <1>4, <2>1
  <2> HIDE DEF b
  <2>6. /\ b.idle * s.rate \in Nat /\ b.tokens + b.idle * s.rate \in Nat
        /\ GCAge * n <= GCAge * (b.tokens + b.idle * s.rate)
    BY <1>3, <1>10, <2>3, <2>5, Bounds
  <2>7. GCAge * (b.idle * s.rate) <= b.idle * Earned
    <3>1. GCAge * s.rate <= Earned /\ GCAge * s.rate \in Nat
      <4>1. GCAge * s.rate <= GCAge * MaxRate /\ GCAge * s.rate \in Nat /\ GCAge * MaxRate \in Nat
        BY <1>10, <2>3, Bounds
      <4> QED  BY <4>1, Bounds
    <3>2. b.idle * (GCAge * s.rate) <= b.idle * Earned
      BY <1>10, <2>3, <3>1, Bounds
    <3>3. \A i, j, m \in Nat : m * (i * j) = i * (m * j)
      OBVIOUS
    <3>4. GCAge * (b.idle * s.rate) = b.idle * (GCAge * s.rate)
      BY <2>3, <3>3, Bounds
    <3> QED  BY <3>2, <3>4
  <2>8. GCAge * (b.tokens + b.idle * s.rate) = GCAge * b.tokens + GCAge * (b.idle * s.rate)
    <3>1. \A i, j, m \in Nat : m * (i + j) = m * i + m * j
      OBVIOUS
    <3> QED  BY <2>3, <2>6, <3>1, Bounds
  <2>9. /\ GCAge * n \in Nat /\ GCAge * b.tokens \in Nat /\ GCAge * (b.idle * s.rate) \in Nat
        /\ b.idle * Earned \in Nat /\ GCAge * MaxBurst \in Nat
    BY <1>3, <1>10, <2>3, <2>6, Bounds
  <2> QED  BY <2>4, <2>6, <2>7, <2>8, <2>9
<1> QED  BY <1>11, <1>12

LEMMA ExcessInit == Init => ExcessInv
<1> SUFFICES ASSUME Init  PROVE ExcessInv
  OBVIOUS
<1>1. InitSettings \in AllSettings
  BY DEF AllSettings
<1> QED  BY <1>1, Bounds DEF Init, ExcessInv, RateSettingsOK, NewRateLimiter

LEMMA ExcessStep == TypeOK /\ ExcessInv /\ [Next]_vars => ExcessInv'
<1> SUFFICES ASSUME TypeOK, ExcessInv, [Next]_vars  PROVE ExcessInv'
  OBVIOUS
<1>0. /\ RateSettingsOK /\ limiter \in RateLimiters(Clients) /\ excess \in [Clients -> Nat]
      /\ \A c \in Clients : ClientCovered(excess[c], limiter.buckets[c])
  BY DEF ExcessInv, ClientCovered, TypeOK
<1>1. SUFFICES RateSettingsOK' /\ \A c \in Clients : ClientCovered(excess'[c], limiter'.buckets[c])
  BY DEF ExcessInv, ClientCovered, BucketCovers, Earned, MaxRate, MaxBurst, Greatest
<1>2. ASSUME NEW g \in Goroutines, Limit(g)
      PROVE  RateSettingsOK' /\ \A c \in Clients : ClientCovered(excess'[c], limiter'.buckets[c])
  <2> DEFINE ip == packet[g].client
  <2>1. ip \in Clients
    BY <1>2, PacketOf DEF Limit
  <2>2. /\ limiter' = RateAllow(limiter, ip)
        /\ excess' = [excess EXCEPT ![ip] = IF RateAllows(limiter, ip) THEN @ + GCAge ELSE @]
    <3>1. CASE RateAllows(limiter, ip)
      BY <1>2, <3>1 DEF Limit
    <3>2. CASE ~RateAllows(limiter, ip)
      BY <1>0, <1>2, <3>2 DEF Limit
    <3> QED  BY <3>1, <3>2
  <2> HIDE DEF ip
  <2>3. limiter'.rate = limiter.rate /\ limiter'.burst = limiter.burst
    BY <1>0, <2>1, <2>2, RateAllowIs
  <2>4. RateSettingsOK'
    <3>1. limiter'.rate <= MaxRate /\ limiter'.burst <= MaxBurst
      BY <1>0, <2>3 DEF RateSettingsOK
    <3> QED  BY <3>1 DEF RateSettingsOK, MaxRate, MaxBurst
  <2>5. ClientCovered(excess'[ip], limiter'.buckets[ip])
    <3>1. excess'[ip] = IF RateAllows(limiter, ip) THEN excess[ip] + GCAge ELSE excess[ip]
      BY <1>0, <2>1, <2>2
    <3> QED  BY <1>0, <2>1, <2>2, <3>1, AllowCovers DEF RateSettingsOK
  <2>6. ASSUME NEW c \in Clients \ {ip}  PROVE ClientCovered(excess'[c], limiter'.buckets[c])
    <3>1. limiter'.buckets[c] = Swept(limiter).buckets[c]
      <4>1. \A j \in Clients \ {ip} : RateAllow(limiter, ip).buckets[j] = Swept(limiter).buckets[j]
        BY <1>0, <2>1, RateAllowOthers
      <4> QED  BY <2>2, <4>1
    <3>2. excess'[c] = excess[c] /\ excess[c] \in Nat
      BY <1>0, <2>2
    <3> QED  BY <1>0, <3>1, <3>2, SweptCovers
  <2> QED  BY <2>4, <2>5, <2>6
<1>3. ASSUME NEW p \in Posts, PostRate(p)
      PROVE  RateSettingsOK' /\ \A c \in Clients : ClientCovered(excess'[c], limiter'.buckets[c])
  <2>1. /\ p.rate \in Nat /\ p.burst \in Nat /\ p.rate <= MaxRate /\ p.burst <= MaxBurst
    BY Bounds DEF AllSettings
  <2>2. limiter' = RateUpdate(limiter, p.rate, p.burst) /\ UNCHANGED excess
    BY <1>3 DEF PostRate, historyVars
  <2>3. /\ limiter'.buckets = limiter.buckets
        /\ limiter'.rate \in {p.rate, limiter.rate} /\ limiter'.burst \in {p.burst, limiter.burst}
    <3>1. limiter \in RateLimiters(Clients) /\ p.rate \in Nat /\ p.burst \in Nat
      BY <1>0, <2>1
    <3> QED  BY <2>2, <3>1, RateUpdateIs
  <2>4. limiter'.rate <= MaxRate /\ limiter'.burst <= MaxBurst
    BY <1>0, <2>1, <2>3 DEF RateSettingsOK
  <2>5. RateSettingsOK'
    BY <2>4 DEF RateSettingsOK, MaxRate, MaxBurst
  <2> QED  BY <1>0, <2>2, <2>3, <2>5
<1>4. CASE Tick
  <2>1. /\ limiter' = RateTick(limiter)
        /\ excess' = [c \in Clients |-> IF excess[c] > Earned THEN excess[c] - Earned ELSE 0]
    BY <1>4 DEF Tick
  <2>2. RateSettingsOK'
    BY <1>0, <2>1, RateTickIs DEF RateSettingsOK, MaxRate, MaxBurst
  <2>3. ASSUME NEW c \in Clients  PROVE ClientCovered(excess'[c], limiter'.buckets[c])
    <3> DEFINE b == limiter.buckets[c]
    <3>1. limiter'.buckets[c] = IF b = None THEN None ELSE [b EXCEPT !.idle = Smaller(@ + 1, GCAge + 1)]
      BY <1>0, <2>1, RateTickIs
    <3>2. excess'[c] = (IF excess[c] > Earned THEN excess[c] - Earned ELSE 0) /\ excess[c] \in Nat
      BY <1>0, <2>1
    <3>3. CASE b = None
      BY <1>0, <3>1, <3>2, <3>3, Bounds DEF ClientCovered
    <3>4. CASE b # None
      <4>1. b \in TokenBucket /\ BucketCovers(excess[c], b)
        BY <1>0, <3>4 DEF RateLimiters, ClientCovered
      <4>2. limiter'.buckets[c] \in TokenBucket /\ limiter'.buckets[c] # None
        <5>1. [b EXCEPT !.idle = Smaller(@ + 1, GCAge + 1)] \in TokenBucket
          BY <4>1, LimitersAssumption DEF TokenBucket, Smaller
        <5> QED  BY <3>1, <3>4, <5>1, LimitersAssumption
      <4>3. BucketCovers(excess'[c], limiter'.buckets[c])
        BY <3>1, <3>2, <3>4, <4>1, CoversAfterTick
      <4> QED  BY <4>2, <4>3 DEF ClientCovered
    <3> QED  BY <3>3, <3>4
  <2> QED  BY <2>2, <2>3
<1>5. CASE UNCHANGED <<limiter, excess>>
  BY <1>0, <1>5 DEF RateSettingsOK, MaxRate, MaxBurst
<1>6. ASSUME NEW g \in Goroutines, HandlePacket(g)  PROVE Limit(g) \/ UNCHANGED <<limiter, excess>>
  BY <1>6 DEF HandlePacket, Receive, Reject, StartResolve, ResolveFails, EncodeFails, Resolved,
              CheckRRL, SkipRRL, Account, historyVars
<1>7. ASSUME NEW p \in Posts, ApplyRuntimeSettings(p)  PROVE PostRate(p) \/ UNCHANGED <<limiter, excess>>
  BY <1>7 DEF ApplyRuntimeSettings, PostRecursion, PostRRLEnabled, PostRRL, historyVars
<1>8. CASE UNCHANGED vars
  BY <1>5, <1>8 DEF vars, historyVars
<1> QED  BY <1>2, <1>3, <1>4, <1>5, <1>6, <1>7, <1>8 DEF Next

LEMMA ExcessIsWithin == TypeOK /\ ExcessInv => WithinRate
<1> SUFFICES ASSUME TypeOK, ExcessInv, NEW c \in Clients  PROVE excess[c] <= GCAge * MaxBurst
  BY DEF WithinRate
<1>1. excess[c] \in Nat /\ GCAge * MaxBurst \in Nat
  BY Bounds DEF TypeOK
<1>2. CASE excess[c] = 0
  BY <1>1, <1>2
<1>3. CASE excess[c] # 0
  <2> DEFINE b == limiter.buckets[c]
  <2>1. b # None /\ excess[c] + GCAge * b.tokens + b.idle * Earned <= GCAge * MaxBurst
    BY <1>3 DEF ExcessInv, BucketCovers
  <2>2. b.tokens \in Nat /\ b.idle \in Nat
    BY <2>1, LimitersAssumption DEF TypeOK, RateLimiters, TokenBucket
  <2> HIDE DEF b
  <2>3. b.idle * Earned \in Nat /\ GCAge * b.tokens \in Nat
    BY <2>2, Bounds
  <2> QED  BY <1>1, <2>1, <2>3
<1> QED  BY <1>2, <1>3

(* Over every stretch of time the limiter admits of a client at most the   *)
(* greatest burst and what is earned meanwhile: by the greatest rate or,   *)
(* where that is more, a burst in each GCAge, since Allow throws buckets   *)
(* that were idle for so long away and starts them full again.  For any    *)
(* positive rates and bursts that Update is given, in any order.           *)
THEOREM ClientsStayWithinRate == Spec => []WithinRate
<1>1. Init => TypeOK /\ ExcessInv
  BY InitType, ExcessInit
<1>2. TypeOK /\ ExcessInv /\ [Next]_vars => (TypeOK /\ ExcessInv)'
  BY TypeStep, ExcessStep
<1>3. TypeOK /\ ExcessInv => WithinRate
  BY ExcessIsWithin
<1> QED  BY <1>1, <1>2, <1>3, PTL DEF Spec
-----------------------------------------------------------------------------
(* Response rate limiting.                                                 *)

LEMMA ModDef ==
    ASSUME NEW n \in Nat, NEW k \in Nat \ {0}
    PROVE  n = (n \div k) * k + (n % k)
OBVIOUS

LEMMA RemainderIsUnique ==
    ASSUME NEW k \in Nat \ {0}, NEW a \in Nat, NEW b \in Nat,
           NEW r \in 0 .. (k - 1), NEW s \in 0 .. (k - 1), a * k + r = b * k + s
    PROVE  r = s
<1>1. ASSUME NEW i \in Nat, NEW j \in Nat, i < j  PROVE i * k + k <= j * k
  <2>1. (i + 1) * k <= j * k
    BY <1>1
  <2> QED  BY <2>1
<1>2. a * k \in Nat /\ b * k \in Nat
  OBVIOUS
<1>3. CASE a = b
  BY <1>2, <1>3
<1>4. CASE a < b
  <2>1. a * k + k <= b * k
    BY <1>1, <1>4
  <2> QED  BY <1>2, <2>1
<1>5. CASE b < a
  <2>1. b * k + k <= a * k
    BY <1>1, <1>5
  <2> QED  BY <1>2, <2>1
<1> QED  BY <1>3, <1>4, <1>5

(* Counting on, the remainder grows by one unless it wraps to zero.        *)
LEMMA ModNext ==
    ASSUME NEW n \in Nat, NEW k \in Nat \ {0}, (n + 1) % k # 0
    PROVE  (n + 1) % k = (n % k) + 1
<1> DEFINE a == n \div k
           b == (n + 1) \div k
           r == n % k
           s == ((n + 1) % k) - 1
<1>1. a \in Nat /\ b \in Nat /\ r \in 0 .. (k - 1) /\ s + 1 \in 1 .. (k - 1) /\ s \in 0 .. (k - 1)
  OBVIOUS
<1>2. n = a * k + r
  BY ModDef
<1>3. n + 1 = b * k + ((n + 1) % k) /\ (n + 1) % k = s + 1
  BY ModDef
<1> HIDE DEF a, b, r, s
<1>4. a * k \in Nat /\ b * k \in Nat
  BY <1>1
<1>5. a * k + r = b * k + s
  BY <1>1, <1>2, <1>3, <1>4
<1>6. r = s
  BY <1>1, <1>5, RemainderIsUnique
<1> QED  BY <1>3, <1>6 DEF r

(* A response that is withheld is counted over the limit, and the count    *)
(* moves one on towards the response that slips.                           *)
LEMMA WithheldIsCounted ==
    ASSUME NEW K, NEW r \in RRLs(K), NEW k \in K, ~RRLAllows(r, k)
    PROVE  /\ r.buckets[k] # None
           /\ RRLAllow(r, k).buckets[k].slipped \in Nat
           /\ RRLAllow(r, k).buckets[k].slipped % r.slip = (r.buckets[k].slipped % r.slip) + 1
<1> DEFINE w == Counted(Swept(r).buckets[k])
<1>1. /\ w \in Window
      /\ \/ w.slipped = 0 /\ w.count = 1
         \/ r.buckets[k] # None /\ w.slipped = r.buckets[k].slipped
      /\ RRLAllow(r, k).buckets[k].slipped = IF w.count > r.limit THEN w.slipped + 1 ELSE w.slipped
  BY RRLAllowIs
<1>2. w.count > r.limit /\ (w.slipped + 1) % r.slip # 0
  BY DEF RRLAllows, Slips
<1> HIDE DEF w
<1>3. r.limit \in Nat \ {0} /\ r.slip \in Nat \ {0} /\ w.slipped \in Nat
  BY <1>1 DEF RRLs, Window
<1>4. r.buckets[k] # None /\ w.slipped = r.buckets[k].slipped
  BY <1>1, <1>2, <1>3
<1>5. (w.slipped + 1) % r.slip = (w.slipped % r.slip) + 1
  BY <1>2, <1>3, ModNext
<1> QED  BY <1>1, <1>2, <1>3, <1>4, <1>5

LEMMA SilenceInit == Init => SilenceInv
BY InitSettingsOK DEF Init, SilenceInv, NewRRL

LEMMA SilenceStep == TypeOK /\ SilenceInv /\ [Next]_vars => SilenceInv'
<1> SUFFICES ASSUME TypeOK, SilenceInv, [Next]_vars, SlipIsFixed  PROVE SilenceInv'
  BY DEF SilenceInv, SlipIsFixed, AllSettings
<1> DEFINE slip == InitSettings.slip
           Heard(n, b) == n < slip /\ (b # None => n <= b.slipped % slip)
<1>0. /\ rrl.slip = slip /\ slip \in Nat \ {0} /\ rrl \in RRLs(Tuples) /\ silent \in [Tuples -> Nat]
      /\ \A t \in Tuples : Heard(silent[t], rrl.buckets[t])
  BY InitSettingsOK DEF SilenceInv, TypeOK
<1>1. SUFFICES rrl'.slip = slip /\ \A t \in Tuples : Heard(silent'[t], rrl'.buckets[t])
  BY DEF SilenceInv
<1>2. ASSUME NEW g \in Goroutines, CheckRRL(g)
      PROVE  rrl'.slip = slip /\ \A t \in Tuples : Heard(silent'[t], rrl'.buckets[t])
  <2> DEFINE tuple == TupleOf(packet[g], response[g].rcode)
  <2>1. tuple \in Tuples
    BY <1>2, TupleType DEF CheckRRL
  <2>2. /\ rrl' = RRLAllow(rrl, tuple)
        /\ silent' = [silent EXCEPT ![tuple] = IF RRLAllows(rrl, tuple) THEN 0 ELSE @ + 1]
    BY <1>2 DEF CheckRRL
  <2> HIDE DEF tuple
  <2>3. rrl' \in RRLs(Tuples) /\ rrl'.slip = slip
    BY <1>0, <2>1, <2>2, RRLAllowIs
  <2>4. \A t \in Tuples : rrl'.buckets[t] # None => rrl'.buckets[t].slipped % slip \in 0 .. (slip - 1)
    <3>1. \A n \in Nat : n % slip \in 0 .. (slip - 1)
      BY <1>0
    <3>2. \A t \in Tuples : rrl'.buckets[t] # None => rrl'.buckets[t].slipped \in Nat
      BY <2>3 DEF RRLs, Window
    <3> QED  BY <3>1, <3>2
  <2>7. Heard(silent'[tuple], rrl'.buckets[tuple])
    <3>1. CASE RRLAllows(rrl, tuple)
      <4>1. silent'[tuple] = 0
        BY <1>0, <2>1, <2>2, <3>1
      <4> QED  BY <1>0, <2>1, <2>4, <4>1
    <3>2. CASE ~RRLAllows(rrl, tuple)
      <4>1. silent'[tuple] = silent[tuple] + 1
        BY <1>0, <2>1, <2>2, <3>2
      <4>2. /\ rrl.buckets[tuple] # None
            /\ rrl'.buckets[tuple].slipped \in Nat
            /\ rrl'.buckets[tuple].slipped % slip = (rrl.buckets[tuple].slipped % slip) + 1
        BY <1>0, <2>1, <2>2, <3>2, WithheldIsCounted
      <4>3. rrl'.buckets[tuple].slipped % slip < slip
        BY <1>0, <4>2
      <4>4. silent[tuple] <= rrl.buckets[tuple].slipped % slip /\ silent[tuple] \in Nat
        BY <1>0, <2>1, <4>2
      <4>5. rrl.buckets[tuple].slipped % slip \in Nat
        <5>1. rrl.buckets[tuple].slipped \in Nat
          BY <1>0, <2>1, <4>2 DEF RRLs, Window
        <5> QED  BY <1>0, <5>1
      <4> QED  BY <1>0, <4>1, <4>2, <4>3, <4>4, <4>5
    <3> QED  BY <3>1, <3>2
  <2>8. ASSUME NEW t \in Tuples \ {tuple}  PROVE Heard(silent'[t], rrl'.buckets[t])
    <3>1. rrl'.buckets[t] \in {rrl.buckets[t], None}
      <4>1. \A j \in Tuples \ {tuple} : RRLAllow(rrl, tuple).buckets[j] = Swept(rrl).buckets[j]
        BY <1>0, <2>1, RRLAllowIs
      <4>2. Swept(rrl).buckets[t] \in {rrl.buckets[t], None}
        BY <1>0, SweptRRL
      <4> QED  BY <2>2, <4>1, <4>2
    <3>2. silent'[t] = silent[t]
      BY <1>0, <2>2
    <3> QED  BY <1>0, <3>1, <3>2
  <2> QED  BY <2>3, <2>7, <2>8
<1>3. ASSUME NEW p \in Posts, PostRRL(p)
      PROVE  rrl'.slip = slip /\ \A t \in Tuples : Heard(silent'[t], rrl'.buckets[t])
  <2>1. p.limit \in Nat /\ p.slip \in Nat /\ p.slip \in {0, slip}
    BY Bounds DEF SlipIsFixed, AllSettings
  <2>2. rrl' = RRLUpdate(rrl, p.limit, p.slip) /\ UNCHANGED silent
    BY <1>3 DEF PostRRL, historyVars
  <2>3. rrl'.buckets = rrl.buckets /\ rrl'.slip = slip
    <3>1. /\ RRLUpdate(rrl, p.limit, p.slip).buckets = rrl.buckets
          /\ RRLUpdate(rrl, p.limit, p.slip).slip = IF p.slip > 0 THEN p.slip ELSE rrl.slip
      <4>1. rrl \in RRLs(Tuples) /\ p.limit \in Nat /\ p.slip \in Nat
        BY <1>0, <2>1
      <4> QED  BY <4>1, RRLUpdateIs, Zenon
    <3> QED  BY <1>0, <2>1, <2>2, <3>1
  <2> QED  BY <1>0, <2>2, <2>3
<1>4. CASE Tick
  <2>1. rrl' = RRLTick(rrl) /\ UNCHANGED silent
    BY <1>4 DEF Tick
  <2> QED  BY <1>0, <2>1, RRLTickIs DEF WindowAged
<1>5. CASE UNCHANGED <<rrl, silent>>
  BY <1>0, <1>5
<1>6. ASSUME NEW g \in Goroutines, HandlePacket(g)  PROVE CheckRRL(g) \/ UNCHANGED <<rrl, silent>>
  BY <1>6 DEF HandlePacket, Receive, Limit, Reject, StartResolve, ResolveFails, EncodeFails, Resolved,
              SkipRRL, Account, historyVars
<1>7. ASSUME NEW p \in Posts, ApplyRuntimeSettings(p)  PROVE PostRRL(p) \/ UNCHANGED <<rrl, silent>>
  BY <1>7 DEF ApplyRuntimeSettings, PostRecursion, PostRRLEnabled, PostRate, historyVars
<1>8. CASE UNCHANGED vars
  BY <1>5, <1>8 DEF vars, historyVars
<1> QED  BY <1>2, <1>3, <1>4, <1>5, <1>6, <1>7, <1>8 DEF Next

(* As long as slip keeps its value, of slip responses in a row that RRL    *)
(* sees for one client and response code at least one is sent, wherever    *)
(* windows begin, however limits change and whichever buckets are swept.   *)
THEOREM NobodyGoesUnheard == Spec => []NobodyIsSilenced
<1>1. Init => TypeOK /\ SilenceInv
  BY InitType, SilenceInit
<1>2. TypeOK /\ SilenceInv /\ [Next]_vars => (TypeOK /\ SilenceInv)'
  BY TypeStep, SilenceStep
<1>3. SilenceInv => NobodyIsSilenced
  BY DEF SilenceInv, NobodyIsSilenced
<1> QED  BY <1>1, <1>2, <1>3, PTL DEF Spec
-----------------------------------------------------------------------------
(* What response rate limiting lets pass in a second.                      *)

(* What of the last second RRL has let pass beyond its due.  A response    *)
(* that passes owes slip - 1 that are withheld.                            *)
Weight == InitSettings.slip - 1
In(h, f) == [i \in 1 .. Second |-> h[i][f]]
Debt(h, n) == Weight * SumTo(In(h, "passed"), n) - (SumTo(In(h, "seen"), n) - SumTo(In(h, "passed"), n))
Due(x) == Weight * x.passed - (x.seen - x.passed)

(* What the responses of the last n ticks may owe: the window that is open *)
(* accounts for those it counted up to the limit, less the responses       *)
(* withheld since the last that slipped; the windows before it for a limit *)
(* more, if the n ticks reach back to them.                                *)
Allowance(b, n) ==
    (Smaller(b.count, MaxLimit) + (IF n <= b.age THEN 0 ELSE MaxLimit)) * Weight
        - (b.slipped % InitSettings.slip)

Covered(h, b) ==
    IF b = None THEN \A n \in 0 .. Second : Debt(h, n) <= MaxLimit * Weight
    ELSE /\ b.count >= 1
         /\ b.age >= Smaller(b.idle, Second)
         /\ \A n \in 0 .. Second : Debt(h, n) <= Allowance(b, n)

DebtInv ==
    SlipIsFixed =>
        /\ rrl.slip = InitSettings.slip
        /\ rrl.limit <= MaxLimit
        /\ \A t \in Tuples : Covered(recent[t], rrl.buckets[t])

History == [1 .. Second -> [seen : Nat, passed : Nat]]

LEMMA WeightType ==
    /\ InitSettings.slip \in Nat \ {0}
    /\ Weight \in Nat /\ Weight + 1 = InitSettings.slip
    /\ \A a, b \in Int : (a + b) * Weight = a * Weight + b * Weight
    /\ \A a, b \in Int : Weight * (a + b) = Weight * a + Weight * b
    /\ \A a, b \in Int : a <= b => a * Weight <= b * Weight
    /\ \A a \in Int : a * Weight \in Int /\ Weight * a \in Int
    /\ \A a \in Nat : a * Weight \in Nat
<1>1. InitSettings.slip \in Nat \ {0} /\ Weight \in Nat /\ Weight + 1 = InitSettings.slip
  BY InitSettingsOK DEF Weight
<1> HIDE DEF Weight
<1>2. \A k \in Nat : /\ \A a, b \in Int : (a + b) * k = a * k + b * k
                     /\ \A a, b \in Int : k * (a + b) = k * a + k * b
                     /\ \A a, b \in Int : a <= b => a * k <= b * k
                     /\ \A a \in Int : a * k \in Int /\ k * a \in Int
                     /\ \A a \in Nat : a * k \in Nat
  OBVIOUS
<1> QED  BY <1>1, <1>2

LEMMA DebtNext ==
    ASSUME NEW h \in History
    PROVE  /\ Debt(h, 0) = 0
           /\ \A n \in 0 .. Second : Debt(h, n) \in Int
           /\ \A n \in 1 .. Second : Debt(h, n) = Debt(h, n - 1) + Due(h[n])
           /\ \A n \in 1 .. Second : Due(h[n]) \in Int
<1> DEFINE p == In(h, "passed")
           s == In(h, "seen")
<1>0. Second \in Nat
  BY LimitersAssumption
<1>1. \A i \in 1 .. Second : p[i] = h[i].passed /\ s[i] = h[i].seen /\ p[i] \in Nat /\ s[i] \in Nat
  BY DEF In, History
<1> HIDE DEF p, s
<1>2. /\ SumTo(p, 0) = 0
      /\ \A m \in 0 .. Second : SumTo(p, m) \in Nat
      /\ \A m \in 1 .. Second : SumTo(p, m) = SumTo(p, m - 1) + p[m]
  BY <1>0, <1>1, SumToNext
<1>3. /\ SumTo(s, 0) = 0
      /\ \A m \in 0 .. Second : SumTo(s, m) \in Nat
      /\ \A m \in 1 .. Second : SumTo(s, m) = SumTo(s, m - 1) + s[m]
  BY <1>0, <1>1, SumToNext
<1>4. \A n : Debt(h, n) = Weight * SumTo(p, n) - (SumTo(s, n) - SumTo(p, n))
  BY DEF Debt, p, s
<1>5. Debt(h, 0) = 0
  <2>1. Weight * 0 = 0
    BY WeightType
  <2> QED  BY <1>2, <1>3, <1>4, <2>1
<1>6. \A n \in 0 .. Second : Debt(h, n) \in Int
  BY <1>2, <1>3, <1>4, WeightType
<1>7. ASSUME NEW n \in 1 .. Second
      PROVE  Debt(h, n) = Debt(h, n - 1) + Due(h[n]) /\ Due(h[n]) \in Int
  <2> DEFINE a == SumTo(p, n - 1)
             b == SumTo(s, n - 1)
             c == p[n]
             d == s[n]
  <2>1. n \in 0 .. Second /\ n - 1 \in 0 .. Second
    BY <1>0
  <2>2. /\ a \in Nat /\ b \in Nat /\ c \in Nat /\ d \in Nat
        /\ SumTo(p, n) = a + c /\ SumTo(s, n) = b + d
        /\ Due(h[n]) = Weight * c - (d - c)
    BY <1>1, <1>2, <1>3, <2>1 DEF Due
  <2>3. Debt(h, n) = Weight * (a + c) - ((b + d) - (a + c)) /\ Debt(h, n - 1) = Weight * a - (b - a)
    BY <1>4, <2>2
  <2> HIDE DEF a, b, c, d
  <2>4. Weight * (a + c) = Weight * a + Weight * c /\ Weight * a \in Int /\ Weight * c \in Int
    BY <2>2, WeightType
  <2> QED  BY <2>2, <2>3, <2>4
<1> QED  BY <1>5, <1>6, <1>7

(* A response more in the present tick.                                    *)
LEMMA DebtCounted ==
    ASSUME NEW h \in History, NEW g \in History, NEW passes \in BOOLEAN,
           g = [h EXCEPT ![1] = [seen |-> @.seen + 1, passed |-> @.passed + (IF passes THEN 1 ELSE 0)]]
    PROVE  \A n \in 1 .. Second : Debt(g, n) = Debt(h, n) + (IF passes THEN Weight ELSE -1)
<1> DEFINE add == IF passes THEN Weight ELSE -1
           S == {n \in Nat : n + 1 <= Second => Debt(g, n + 1) = Debt(h, n + 1) + add}
<1>0. Second \in Nat \ {0} /\ 1 \in 1 .. Second /\ 0 \in 0 .. Second
  BY LimitersAssumption
<1>1. add \in Int
  BY WeightType
<1>2. Due(g[1]) = Due(h[1]) + add
  <2>1. /\ h[1].seen \in Nat /\ h[1].passed \in Nat
        /\ g[1].seen = h[1].seen + 1 /\ g[1].passed = h[1].passed + (IF passes THEN 1 ELSE 0)
    BY <1>0 DEF History
  <2>2. \A a \in Nat : Weight * (a + 1) = Weight * a + Weight /\ Weight * (a + 0) = Weight * a
    BY WeightType
  <2>3. Weight * h[1].passed \in Int /\ Weight \in Nat
    BY <2>1, WeightType
  <2>4. CASE passes
    <3>1. Due(g[1]) = Weight * (h[1].passed + 1) - ((h[1].seen + 1) - (h[1].passed + 1))
      BY <2>1, <2>4 DEF Due
    <3> QED  BY <2>1, <2>2, <2>3, <2>4, <3>1 DEF Due
  <2>5. CASE ~passes
    <3>1. Due(g[1]) = Weight * (h[1].passed + 0) - ((h[1].seen + 1) - (h[1].passed + 0))
      BY <2>1, <2>5 DEF Due
    <3> QED  BY <2>1, <2>2, <2>3, <2>5, <3>1 DEF Due
  <2> QED  BY <2>4, <2>5
<1> HIDE DEF add
<1>3. 0 \in S
  <2>1. Debt(g, 1) = 0 + Due(g[1]) /\ Debt(h, 1) = 0 + Due(h[1]) /\ Due(h[1]) \in Int
    <3>1. 1 - 1 = 0
      OBVIOUS
    <3>2. /\ Debt(g, 1) = Debt(g, 1 - 1) + Due(g[1]) /\ Debt(h, 1) = Debt(h, 1 - 1) + Due(h[1])
          /\ Debt(g, 0) = 0 /\ Debt(h, 0) = 0 /\ Due(h[1]) \in Int
      BY <1>0, DebtNext
    <3> QED  BY <3>1, <3>2
  <2>2. 0 + 1 = 1
    OBVIOUS
  <2> QED  BY <1>1, <1>2, <2>1, <2>2
<1>4. ASSUME NEW n \in Nat, n \in S  PROVE n + 1 \in S
  <2> SUFFICES ASSUME (n + 1) + 1 <= Second  PROVE Debt(g, (n + 1) + 1) = Debt(h, (n + 1) + 1) + add
    OBVIOUS
  <2> DEFINE m == (n + 1) + 1
  <2>1. m \in 1 .. Second /\ m # 1 /\ m - 1 = n + 1 /\ n + 1 \in 0 .. Second
    BY <1>0
  <2>2. Debt(g, m) = Debt(g, m - 1) + Due(g[m]) /\ Debt(h, m) = Debt(h, m - 1) + Due(h[m])
        /\ Due(h[m]) \in Int /\ Debt(h, m - 1) \in Int
    BY <2>1, DebtNext
  <2>3. g[m] = h[m]
    BY <2>1 DEF History
  <2>4. Debt(g, m - 1) = Debt(h, m - 1) + add
    BY <1>0, <1>4, <2>1
  <2> HIDE DEF m
  <2>5. Debt(g, m) = Debt(h, m) + add
    BY <1>1, <2>2, <2>3, <2>4
  <2> QED  BY <2>5 DEF m
<1> HIDE DEF S
<1>5. Nat \subseteq S
  BY <1>3, <1>4, Induction
<1>6. ASSUME NEW n \in 1 .. Second  PROVE Debt(g, n) = Debt(h, n) + add
  <2>1. n - 1 \in S /\ (n - 1) + 1 = n /\ n <= Second
    BY <1>0, <1>5
  <2> QED  BY <2>1 DEF S
<1> QED  BY <1>6 DEF add

(* A tick later.                                                           *)
LEMMA DebtShifted ==
    ASSUME NEW h \in History, NEW g \in History,
           g = [i \in 1 .. Second |-> IF i = 1 THEN Nothing ELSE h[i - 1]]
    PROVE  \A n \in 1 .. Second : Debt(g, n) = Debt(h, n - 1)
<1> DEFINE S == {n \in Nat : n + 1 <= Second => Debt(g, n + 1) = Debt(h, n)}
<1>0. Second \in Nat \ {0} /\ 1 \in 1 .. Second /\ 0 \in 0 .. Second
  BY LimitersAssumption
<1>1. 0 \in S
  <2>1. Due(g[1]) = 0
    <3>1. g[1].passed = 0 /\ g[1].seen = 0
      BY <1>0 DEF Nothing
    <3>2. Weight * 0 = 0
      BY WeightType
    <3> QED  BY <3>1, <3>2 DEF Due
  <2>2. Debt(g, 1) = Debt(g, 1 - 1) + Due(g[1]) /\ Debt(g, 0) = 0 /\ Debt(h, 0) = 0
    BY <1>0, DebtNext
  <2>3. 1 - 1 = 0 /\ 0 + 1 = 1
    OBVIOUS
  <2> QED  BY <2>1, <2>2, <2>3
<1>2. ASSUME NEW n \in Nat, n \in S  PROVE n + 1 \in S
  <2> SUFFICES ASSUME (n + 1) + 1 <= Second  PROVE Debt(g, (n + 1) + 1) = Debt(h, n + 1)
    OBVIOUS
  <2> DEFINE m == n + 1
  <2>1. m \in 1 .. Second /\ m + 1 \in 1 .. Second /\ m + 1 # 1 /\ (m + 1) - 1 = m /\ m - 1 = n
    BY <1>0
  <2>2. /\ Debt(g, m + 1) = Debt(g, (m + 1) - 1) + Due(g[m + 1])
        /\ Debt(h, m) = Debt(h, m - 1) + Due(h[m])
    BY <2>1, DebtNext
  <2>3. g[m + 1] = h[m]
    BY <2>1
  <2>4. Debt(g, m) = Debt(h, n)
    BY <1>0, <1>2, <2>1
  <2> HIDE DEF m
  <2>5. Debt(g, m + 1) = Debt(h, m)
    BY <2>1, <2>2, <2>3, <2>4
  <2> QED  BY <2>5 DEF m
<1> HIDE DEF S
<1>3. Nat \subseteq S
  BY <1>1, <1>2, Induction
<1>4. ASSUME NEW n \in 1 .. Second  PROVE Debt(g, n) = Debt(h, n - 1)
  <2>1. n - 1 \in S /\ (n - 1) + 1 = n /\ n <= Second
    BY <1>0, <1>3
  <2> QED  BY <2>1 DEF S
<1> QED  BY <1>4

LEMMA LimitBound ==
    /\ MaxLimit \in Nat \ {0}
    /\ \A p \in AllSettings : p.limit <= MaxLimit
<1> DEFINE Limits == {p.limit : p \in AllSettings}
<1>1. PICK p \in AllSettings : \A q \in AllSettings : q.limit <= p.limit
  BY HandlerAssumption
<1>2. p.limit \in Limits /\ \A v \in Limits : v <= p.limit
  BY <1>1
<1> HIDE DEF Limits
<1>3. Greatest(Limits) \in Limits /\ \A v \in Limits : v <= Greatest(Limits)
  BY <1>2, GreatestIs
<1>4. MaxLimit = Greatest(Limits)
  BY DEF MaxLimit, Limits
<1>5. /\ \A q \in AllSettings : q.limit \in Nat /\ q.limit \in Limits
      /\ \E q \in AllSettings : MaxLimit = q.limit
  BY <1>3, <1>4, Bounds DEF Limits
<1>6. InitSettings \in AllSettings /\ InitSettings.limit # 0
  BY InitSettingsOK DEF AllSettings
<1>7. \A q \in AllSettings : q.limit <= MaxLimit
  BY <1>3, <1>4, <1>5
<1> QED  BY <1>5, <1>6, <1>7

(* When the count wraps, the remainder was the greatest there is.          *)
LEMMA ModWrap ==
    ASSUME NEW n \in Nat, NEW k \in Nat \ {0}, (n + 1) % k = 0
    PROVE  n % k = k - 1
<1> DEFINE a == n \div k
           b == (n + 1) \div k
           r == n % k
<1>1. a \in Nat /\ b \in Nat /\ r \in 0 .. (k - 1) /\ k - 1 \in 0 .. (k - 1)
  OBVIOUS
<1>2. n = a * k + r
  BY ModDef
<1>3. n + 1 = b * k + 0
  BY ModDef
<1> HIDE DEF a, b, r
<1>4. b # 0
  <2>1. 0 * k = 0
    OBVIOUS
  <2> QED  BY <1>3, <2>1
<1>5. b - 1 \in Nat /\ (b - 1) * k = b * k - k /\ b * k \in Nat /\ a * k \in Nat /\ (b - 1) * k \in Nat
  BY <1>1, <1>4
<1>6. a * k + r = (b - 1) * k + (k - 1)
  BY <1>1, <1>2, <1>3, <1>5
<1>7. r = k - 1
  BY <1>1, <1>5, <1>6, RemainderIsUnique
<1> QED  BY <1>7 DEF r

(* What a window allows, in the terms the proofs use.                      *)
LEMMA AllowanceIs ==
    ASSUME NEW b \in Window, b.count >= 1
    PROVE  /\ Smaller(b.count, MaxLimit) \in 1 .. MaxLimit
           /\ b.slipped % InitSettings.slip \in 0 .. Weight
           /\ \A n \in 0 .. Second : Allowance(b, n) \in Nat
           /\ \A n \in 0 .. Second : n <= b.age => Allowance(b, n) <= MaxLimit * Weight
           /\ \A n \in 0 .. Second : Allowance(b, n) <= 2 * MaxLimit * Weight
<1> DEFINE m == Smaller(b.count, MaxLimit)
           r == b.slipped % InitSettings.slip
<1>1. b.count \in Nat /\ b.slipped \in Nat
  BY DEF Window
<1>2. m \in 1 .. MaxLimit
  BY <1>1, LimitBound DEF Smaller
<1>3. r \in 0 .. Weight
  BY <1>1, WeightType
<1> HIDE DEF m, r
<1>4. ASSUME NEW x \in {0, MaxLimit}
      PROVE  /\ (m + x) * Weight \in Nat
             /\ Weight <= (m + x) * Weight
             /\ (m + x) * Weight <= (MaxLimit + x) * Weight
  <2>1. m + x \in Nat /\ 1 <= m + x /\ m + x <= MaxLimit + x /\ MaxLimit + x \in Nat
    BY <1>2, LimitBound
  <2>2. 1 * Weight = Weight
    BY WeightType
  <2> HIDE DEF Weight
  <2>3. 1 * Weight <= (m + x) * Weight
    BY <2>1, WeightType
  <2> QED  BY <2>1, <2>2, <2>3, WeightType
<1>5. \A n \in 0 .. Second : Allowance(b, n) = (m + (IF n <= b.age THEN 0 ELSE MaxLimit)) * Weight - r
  BY DEF Allowance, m, r
<1>6. ASSUME NEW n \in 0 .. Second  PROVE Allowance(b, n) \in Nat
  <2> DEFINE x == IF n <= b.age THEN 0 ELSE MaxLimit
  <2>1. x \in {0, MaxLimit} /\ Allowance(b, n) = (m + x) * Weight - r
    BY <1>5
  <2> HIDE DEF x
  <2> DEFINE u == (m + x) * Weight
  <2>2. u \in Nat /\ Weight <= u
    BY <1>4, <2>1
  <2>3. Allowance(b, n) = u - r /\ Weight \in Nat
    BY <2>1, WeightType
  <2> HIDE DEF u, Weight
  <2> QED  BY <1>3, <2>2, <2>3
<1>7. ASSUME NEW n \in 0 .. Second, n <= b.age  PROVE Allowance(b, n) <= MaxLimit * Weight
  <2>1. Allowance(b, n) = (m + 0) * Weight - r
    BY <1>5, <1>7
  <2>2. (m + 0) * Weight <= (MaxLimit + 0) * Weight /\ (m + 0) * Weight \in Nat
    BY <1>4
  <2>3. MaxLimit + 0 = MaxLimit /\ MaxLimit * Weight \in Nat
    BY LimitBound, WeightType
  <2> QED  BY <1>3, <2>1, <2>2, <2>3, WeightType
<1>8. ASSUME NEW n \in 0 .. Second  PROVE Allowance(b, n) <= 2 * MaxLimit * Weight
  <2>1. 2 * MaxLimit = MaxLimit + MaxLimit /\ MaxLimit \in Nat
    BY LimitBound
  <2>2. (MaxLimit + MaxLimit) * Weight \in Nat /\ (MaxLimit + MaxLimit) * Weight = MaxLimit * Weight + MaxLimit * Weight
        /\ MaxLimit * Weight \in Nat
    BY <2>1, WeightType
  <2>3. CASE n <= b.age
    BY <1>6, <1>7, <2>1, <2>2, <2>3
  <2>4. CASE ~(n <= b.age)
    <3>1. Allowance(b, n) = (m + MaxLimit) * Weight - r
      BY <1>5, <2>4
    <3>2. (m + MaxLimit) * Weight <= (MaxLimit + MaxLimit) * Weight /\ (m + MaxLimit) * Weight \in Nat
      BY <1>4
    <3> QED  BY <1>3, <2>1, <2>2, <3>1, <3>2, WeightType
  <2> QED  BY <2>3, <2>4
<1> QED  BY <1>2, <1>3, <1>6, <1>7, <1>8 DEF m, r

(* A window that is over allows no more than a limit.                      *)
LEMMA OverCovered ==
    ASSUME NEW h \in History, NEW b \in Window \cup {None}, Covered(h, b), b = None \/ b.age >= Second
    PROVE  \A n \in 0 .. Second : Debt(h, n) <= MaxLimit * Weight
<1>1. CASE b = None
  BY <1>1 DEF Covered
<1>2. CASE b # None
  <2>1. b \in Window /\ b.age = Second /\ b.count >= 1 /\ Second \in Nat
    BY <1>2, LimitersAssumption DEF Covered, Window
  <2>2. ASSUME NEW n \in 0 .. Second  PROVE Debt(h, n) <= MaxLimit * Weight
    <3>1. Debt(h, n) <= Allowance(b, n) /\ n <= b.age
      BY <1>2, <2>1 DEF Covered
    <3>2. Allowance(b, n) <= MaxLimit * Weight /\ Allowance(b, n) \in Nat
      BY <2>1, <3>1, AllowanceIs
    <3>3. Debt(h, n) \in Int /\ MaxLimit * Weight \in Nat
      BY DebtNext, LimitBound, WeightType
    <3> QED  BY <3>1, <3>2, <3>3
  <2> QED  BY <2>2
<1> QED  BY <1>1, <1>2

LEMMA SweptCovered ==
    ASSUME NEW K, NEW r \in RRLs(K), NEW k \in K, NEW h \in History, Covered(h, r.buckets[k])
    PROVE  Covered(h, Swept(r).buckets[k])
<1> DEFINE b == r.buckets[k]
<1>1. CASE Swept(r).buckets[k] = b
  BY <1>1
<1>2. CASE Swept(r).buckets[k] # b
  <2>1. Swept(r).buckets[k] = None /\ b # None /\ b.idle = GCAge + 1
    BY <1>2, SweptRRL
  <2>2. b \in Window
    BY <2>1 DEF RRLs
  <2> HIDE DEF b
  <2>3. b.age >= Second
    BY <2>1, <2>2, LimitersAssumption DEF Covered, b, Smaller, Window
  <2>4. Covered(h, b)
    BY DEF b
  <2>5. \A n \in 0 .. Second : Debt(h, n) <= MaxLimit * Weight
    BY <2>2, <2>3, <2>4, OverCovered
  <2> QED  BY <2>1, <2>5 DEF Covered
<1> QED  BY <1>1, <1>2

(* Allow, for the tuple that asks.                                         *)
LEMMA AllowCovered ==
    ASSUME NEW K, NEW r \in RRLs(K), NEW k \in K, r.slip = InitSettings.slip, r.limit <= MaxLimit,
           NEW h \in History, NEW g \in History, Covered(h, r.buckets[k]),
           g = [h EXCEPT ![1] = [seen |-> @.seen + 1, passed |-> @.passed + (IF RRLAllows(r, k) THEN 1 ELSE 0)]]
    PROVE  Covered(g, RRLAllow(r, k).buckets[k])
<1> DEFINE b == Swept(r).buckets[k]
           w == Counted(b)
           new == RRLAllow(r, k).buckets[k]
           passes == RRLAllows(r, k)
<1>1. Covered(h, b)
  BY SweptCovered
<1>2. b \in Window \cup {None}
  BY SweptRRL DEF RRLs
<1>3. w \in Window
  <2> HIDE DEF b
  <2> QED  BY <1>2, CountedType
<1>4. passes \in BOOLEAN /\ (passes <=> (w.count > r.limit => (w.slipped + 1) % InitSettings.slip = 0))
  BY DEF RRLAllows, Slips
<1>5. /\ new \in Window /\ new # None
      /\ new.count = w.count /\ new.age = w.age /\ new.idle = w.idle
      /\ new.slipped = IF w.count > r.limit THEN w.slipped + 1 ELSE w.slipped
  <2>1. w = Counted(Swept(r).buckets[k]) /\ new = RRLAllow(r, k).buckets[k]
    OBVIOUS
  <2> HIDE DEF w, new
  <2> QED  BY <1>3, <2>1, RRLAllowBucket
<1>6. \A n \in 1 .. Second : Debt(g, n) = Debt(h, n) + (IF passes THEN Weight ELSE -1)
  <2>1. g = [h EXCEPT ![1] = [seen |-> @.seen + 1, passed |-> @.passed + (IF passes THEN 1 ELSE 0)]]
    OBVIOUS
  <2> HIDE DEF passes
  <2> QED  BY <1>4, <2>1, DebtCounted
<1>7. Debt(g, 0) = 0 /\ \A n \in 0 .. Second : Debt(h, n) \in Int /\ Debt(g, n) \in Int
  BY DebtNext
<1>8. r.limit \in Nat \ {0}
  BY DEF RRLs
<1>9. w = Counted(b)
  OBVIOUS
<1> HIDE DEF b, w, new, passes
<1>10. SUFFICES /\ new.count >= 1 /\ new.age >= Smaller(new.idle, Second)
                /\ \A n \in 1 .. Second : Debt(h, n) + (IF passes THEN Weight ELSE -1) <= Allowance(new, n)
  <2>1. Allowance(new, 0) \in Nat
    BY <1>5, <1>10, AllowanceIs, LimitersAssumption
  <2>2. \A n \in 0 .. Second : n = 0 \/ n \in 1 .. Second
    BY LimitersAssumption
  <2>3. ASSUME NEW n \in 0 .. Second  PROVE Debt(g, n) <= Allowance(new, n)
    <3>1. CASE n = 0
      BY <1>7, <2>1, <3>1
    <3>2. CASE n \in 1 .. Second
      BY <1>6, <1>10, <3>2
    <3> QED  BY <2>2, <3>1, <3>2
  <2> QED  BY <1>5, <1>10, <2>3 DEF Covered, new
<1>11. CASE b = None \/ b.age >= Second
  <2>1. w = FirstOfWindow
    BY <1>9, <1>11 DEF Counted
  <2>2. new.count = 1 /\ new.age = 0 /\ new.idle = 0 /\ new.slipped = 0 /\ passes
    BY <1>4, <1>5, <1>8, <2>1 DEF FirstOfWindow
  <2>3. Smaller(1, MaxLimit) = 1 /\ 0 % InitSettings.slip = 0 /\ Smaller(0, Second) = 0
    BY LimitBound, WeightType, LimitersAssumption DEF Smaller
  <2>4. ASSUME NEW n \in 1 .. Second  PROVE Debt(h, n) + Weight <= Allowance(new, n)
    <3>1. n \in 0 .. Second /\ ~(n <= 0)
      BY LimitersAssumption
    <3>2. Allowance(new, n) = (1 + MaxLimit) * Weight - 0
      BY <2>2, <2>3, <3>1 DEF Allowance
    <3>3. Debt(h, n) <= MaxLimit * Weight /\ Debt(h, n) \in Int
      BY <1>1, <1>2, <1>7, <1>11, <3>1, OverCovered
    <3>4. (1 + MaxLimit) * Weight = 1 * Weight + MaxLimit * Weight /\ 1 * Weight = Weight
          /\ MaxLimit * Weight \in Nat /\ Weight \in Nat
      BY LimitBound, WeightType
    <3> QED  BY <3>2, <3>3, <3>4
  <2> QED  BY <2>2, <2>3, <2>4
<1>12. CASE b # None /\ ~(b.age >= Second)
  <2> DEFINE m == Smaller(b.count, MaxLimit)
             q == Smaller(new.count, MaxLimit)
             x(n) == IF n <= b.age THEN 0 ELSE MaxLimit
             old == b.slipped % InitSettings.slip
             later == new.slipped % InitSettings.slip
  <2>1. /\ b \in Window /\ b.count >= 1 /\ b.count \in Nat /\ b.slipped \in Nat /\ b.age \in Nat
        /\ \A n \in 0 .. Second : Debt(h, n) <= Allowance(b, n)
    BY <1>1, <1>2, <1>12, LimitersAssumption DEF Covered, Window
  <2>2. w.count = b.count + 1 /\ w.idle = 0 /\ w.age = b.age /\ w.slipped = b.slipped
    <3>1. w = [b EXCEPT !.count = @ + 1, !.idle = 0]
      BY <1>9, <1>12 DEF Counted
    <3> QED  BY <2>1, <3>1 DEF Window
  <2>3. new.count >= 1 /\ new.age >= Smaller(new.idle, Second)
    BY <1>5, <2>1, <2>2, LimitersAssumption DEF Smaller
  <2>4. \A n \in 0 .. Second : /\ Allowance(b, n) = (m + x(n)) * Weight - old
                               /\ Allowance(new, n) = (q + x(n)) * Weight - later
                               /\ x(n) \in Nat
    BY <1>5, <2>2, LimitBound DEF Allowance
  <2>5. m \in Nat /\ q \in Nat /\ old \in 0 .. Weight /\ later \in 0 .. Weight
    BY <1>5, <2>1, <2>3, AllowanceIs
  <2>6. m <= q /\ (new.count <= MaxLimit => q = m + 1)
    BY <1>5, <2>1, <2>2, LimitBound DEF Smaller
  <2>7. \/ passes /\ q = m + 1 /\ later = old
        \/ ~passes /\ later = old + 1
        \/ passes /\ old = Weight /\ later = 0
    <3>1. CASE w.count > r.limit
      <4>1. new.slipped = b.slipped + 1
        BY <1>5, <2>2, <3>1
      <4>2. CASE (b.slipped + 1) % InitSettings.slip = 0
        <5>1. old = InitSettings.slip - 1
          BY <2>1, <4>2, ModWrap, WeightType
        <5> QED  BY <1>4, <2>2, <4>1, <4>2, <5>1 DEF Weight
      <4>3. CASE (b.slipped + 1) % InitSettings.slip # 0
        <5>1. (b.slipped + 1) % InitSettings.slip = old + 1
          BY <2>1, <4>3, ModNext, WeightType
        <5> QED  BY <1>4, <2>2, <3>1, <4>1, <4>3, <5>1
      <4> QED  BY <4>2, <4>3
    <3>2. CASE ~(w.count > r.limit)
      <4>1. new.slipped = b.slipped /\ passes
        BY <1>4, <1>5, <2>2, <3>2
      <4>2. new.count <= MaxLimit
        BY <1>5, <1>8, <2>1, <2>2, <3>2, LimitBound
      <4> QED  BY <2>6, <4>1, <4>2
    <3> QED  BY <3>1, <3>2
  <2> HIDE DEF m, q, x, old, later
  <2>8. ASSUME NEW n \in 1 .. Second
        PROVE  Debt(h, n) + (IF passes THEN Weight ELSE -1) <= Allowance(new, n)
    <3>1. n \in 0 .. Second
      BY LimitersAssumption
    <3> DEFINE u == (m + x(n)) * Weight
               v == (q + x(n)) * Weight
    <3>2. /\ Debt(h, n) <= u - old /\ Debt(h, n) \in Int /\ x(n) \in Nat
          /\ Allowance(new, n) = v - later
      BY <1>7, <2>1, <2>4, <3>1
    <3>3. u \in Int /\ v \in Int /\ u <= v
      BY <2>5, <2>6, <3>2, WeightType
    <3>4. q = m + 1 => v = u + Weight
      <4>1. SUFFICES ASSUME q = m + 1  PROVE v = u + Weight
        OBVIOUS
      <4>2. q + x(n) = (m + x(n)) + 1
        BY <2>5, <3>2, <4>1
      <4>3. ((m + x(n)) + 1) * Weight = (m + x(n)) * Weight + 1 * Weight /\ 1 * Weight = Weight
        BY <2>5, <3>2, WeightType
      <4> QED  BY <4>2, <4>3
    <3> HIDE DEF u, v
    <3> QED  BY <2>5, <2>7, <3>2, <3>3, <3>4, WeightType
  <2> QED  BY <2>3, <2>8
<1> QED  BY <1>11, <1>12

(* A tick later.                                                           *)
LEMMA TickCovered ==
    ASSUME NEW h \in History, NEW g \in History, NEW b \in Window \cup {None}, NEW new,
           g = [i \in 1 .. Second |-> IF i = 1 THEN Nothing ELSE h[i - 1]],
           IF b = None THEN new = None ELSE WindowAged(b, new), Covered(h, b)
    PROVE  Covered(g, new)
<1>0. Second \in Nat \ {0}
  BY LimitersAssumption
<1>1. ASSUME NEW n \in 1 .. Second
      PROVE  n - 1 \in 0 .. Second /\ Debt(g, n) = Debt(h, n - 1)
  BY <1>0, DebtShifted
<1>2. Debt(g, 0) = 0
  BY DebtNext
<1>3. \A n \in 0 .. Second : n = 0 \/ n \in 1 .. Second
  BY <1>0
<1>4. CASE b = None
  <2>1. MaxLimit * Weight \in Nat
    BY LimitBound, WeightType
  <2>2. \A n \in 0 .. Second : Debt(h, n) <= MaxLimit * Weight
    BY <1>4 DEF Covered
  <2>3. ASSUME NEW n \in 0 .. Second  PROVE Debt(g, n) <= MaxLimit * Weight
    <3>1. CASE n = 0
      BY <1>2, <2>1, <3>1
    <3>2. CASE n \in 1 .. Second
      BY <1>1, <2>2, <3>2
    <3> QED  BY <1>3, <3>1, <3>2
  <2> QED  BY <1>4, <2>3 DEF Covered
<1>5. CASE b # None
  <2>1. /\ b \in Window /\ b.count >= 1 /\ b.age >= Smaller(b.idle, Second)
        /\ \A n \in 0 .. Second : Debt(h, n) <= Allowance(b, n)
    BY <1>5 DEF Covered
  <2>2. /\ new \in Window /\ new # None
        /\ new.count = b.count /\ new.slipped = b.slipped
        /\ new.idle = Smaller(b.idle + 1, GCAge + 1)
        /\ new.age = Smaller(b.age + 1, Second)
    BY <1>5, LimitersAssumption DEF WindowAged
  <2>3. new.age >= Smaller(new.idle, Second)
    BY <2>1, <2>2, LimitersAssumption DEF Smaller, Window
  <2>4. ASSUME NEW n \in 1 .. Second  PROVE Allowance(new, n) = Allowance(b, n - 1)
    <3>1. (n <= new.age) <=> (n - 1 <= b.age)
      BY <2>1, <2>2, LimitersAssumption DEF Smaller, Window
    <3> QED  BY <2>2, <3>1 DEF Allowance
  <2>5. Allowance(new, 0) \in Nat
    BY <2>1, <2>2, AllowanceIs, LimitersAssumption
  <2>6. ASSUME NEW n \in 0 .. Second  PROVE Debt(g, n) <= Allowance(new, n)
    <3>1. CASE n = 0
      BY <1>2, <2>5, <3>1
    <3>2. CASE n \in 1 .. Second
      <4>1. n - 1 \in 0 .. Second /\ Debt(g, n) = Debt(h, n - 1)
        BY <1>1, <3>2
      <4>2. Debt(h, n - 1) <= Allowance(b, n - 1) /\ Allowance(new, n) = Allowance(b, n - 1)
        BY <2>1, <2>4, <3>2, <4>1
      <4> QED  BY <4>1, <4>2
    <3> QED  BY <1>3, <3>1, <3>2
  <2> QED  BY <2>1, <2>2, <2>3, <2>6 DEF Covered
<1> QED  BY <1>4, <1>5

LEMMA DivBound ==
    ASSUME NEW a \in Int, NEW w \in Int, NEW k \in Nat \ {0}, a * k <= w
    PROVE  a <= w \div k
<1> DEFINE d == w \div k
<1>1. d \in Int /\ w < d * k + k
  OBVIOUS
<1> HIDE DEF d
<1>2. SUFFICES ASSUME d + 1 <= a  PROVE FALSE
  BY <1>1 DEF d
<1>3. (d + 1) * k <= a * k /\ (d + 1) * k = d * k + k
  BY <1>1, <1>2
<1> QED  BY <1>1, <1>3

LEMMA DebtOfNothing ==
    ASSUME NEW h \in History, \A i \in 1 .. Second : h[i] = Nothing
    PROVE  \A n \in 0 .. Second : Debt(h, n) = 0
<1> DEFINE S == {n \in Nat : n <= Second => Debt(h, n) = 0}
<1>0. Second \in Nat
  BY LimitersAssumption
<1>1. 0 \in S
  BY DebtNext
<1>2. ASSUME NEW n \in Nat, n \in S  PROVE n + 1 \in S
  <2> SUFFICES ASSUME n + 1 <= Second  PROVE Debt(h, n + 1) = 0
    OBVIOUS
  <2> DEFINE m == n + 1
  <2>1. m \in 1 .. Second /\ m - 1 = n /\ Debt(h, n) = 0
    BY <1>0, <1>2
  <2>2. Due(h[m]) = 0
    <3>1. h[m].passed = 0 /\ h[m].seen = 0
      BY <2>1 DEF Nothing
    <3>2. Weight * 0 = 0
      BY WeightType
    <3> QED  BY <3>1, <3>2 DEF Due
  <2>3. Debt(h, m) = Debt(h, m - 1) + Due(h[m])
    BY <2>1, DebtNext
  <2> HIDE DEF m
  <2>4. Debt(h, m) = 0
    BY <2>1, <2>2, <2>3
  <2> QED  BY <2>4 DEF m
<1> HIDE DEF S
<1>3. Nat \subseteq S
  BY <1>1, <1>2, Induction
<1> QED  BY <1>0, <1>3 DEF S

LEMMA DebtInit == Init => DebtInv
<1> SUFFICES ASSUME Init, SlipIsFixed
             PROVE  /\ rrl.slip = InitSettings.slip
                    /\ rrl.limit <= MaxLimit
                    /\ \A t \in Tuples : Covered(recent[t], rrl.buckets[t])
  BY DEF DebtInv
<1>1. /\ rrl.slip = InitSettings.slip /\ rrl.limit = InitSettings.limit
      /\ \A t \in Tuples : rrl.buckets[t] = None
  BY InitSettingsOK DEF Init, NewRRL
<1>2. InitSettings.limit <= MaxLimit
  BY LimitBound DEF AllSettings
<1>3. ASSUME NEW t \in Tuples  PROVE Covered(recent[t], None)
  <2>1. recent[t] \in History /\ \A i \in 1 .. Second : recent[t][i] = Nothing
    BY DEF Init, History, Nothing
  <2>2. \A n \in 0 .. Second : Debt(recent[t], n) = 0
    BY <2>1, DebtOfNothing
  <2>3. MaxLimit * Weight \in Nat
    BY LimitBound, WeightType
  <2> QED  BY <2>2, <2>3 DEF Covered
<1> QED  BY <1>1, <1>2, <1>3

LEMMA DebtStep == TypeOK /\ DebtInv /\ [Next]_vars => DebtInv'
<1> SUFFICES ASSUME TypeOK, DebtInv, [Next]_vars, SlipIsFixed  PROVE DebtInv'
  BY DEF DebtInv, SlipIsFixed, AllSettings
<1> DEFINE Fixed(r) == r.slip = InitSettings.slip /\ r.limit <= MaxLimit
<1>0. /\ rrl \in RRLs(Tuples) /\ recent \in [Tuples -> History] /\ Fixed(rrl)
      /\ \A t \in Tuples : Covered(recent[t], rrl.buckets[t])
  BY DEF DebtInv, TypeOK, History
<1>1. SUFFICES Fixed(rrl') /\ \A t \in Tuples : Covered(recent'[t], rrl'.buckets[t])
  BY DEF DebtInv, Covered, Debt, Allowance, Weight, MaxLimit, Greatest
<1>2. TypeOK'
  BY TypeStep
<1>3. rrl' \in RRLs(Tuples) /\ recent' \in [Tuples -> History]
  BY <1>2 DEF TypeOK, History
<1>4. ASSUME NEW g \in Goroutines, CheckRRL(g)
      PROVE  Fixed(rrl') /\ \A t \in Tuples : Covered(recent'[t], rrl'.buckets[t])
  <2> DEFINE tuple == TupleOf(packet[g], response[g].rcode)
  <2>1. tuple \in Tuples
    BY <1>4, TupleType DEF CheckRRL
  <2>2. /\ rrl' = RRLAllow(rrl, tuple)
        /\ recent' = [recent EXCEPT ![tuple][1] =
              [seen |-> @.seen + 1, passed |-> @.passed + (IF RRLAllows(rrl, tuple) THEN 1 ELSE 0)]]
    BY <1>4 DEF CheckRRL
  <2> HIDE DEF tuple
  <2>3. Fixed(rrl')
    BY <1>0, <2>1, <2>2, RRLAllowIs
  <2>4. Covered(recent'[tuple], rrl'.buckets[tuple])
    <3> DEFINE h == recent[tuple]
               f == recent'[tuple]
    <3>1. h \in History /\ f \in History
      BY <1>0, <1>3, <2>1
    <3>2. f = [h EXCEPT ![1] =
                  [seen |-> @.seen + 1, passed |-> @.passed + (IF RRLAllows(rrl, tuple) THEN 1 ELSE 0)]]
      BY <1>0, <2>1, <2>2
    <3>3. Covered(h, rrl.buckets[tuple])
      BY <1>0, <2>1
    <3> HIDE DEF h, f
    <3>4. Covered(f, RRLAllow(rrl, tuple).buckets[tuple])
      BY <1>0, <2>1, <3>1, <3>2, <3>3, AllowCovered
    <3> QED  BY <2>2, <3>4 DEF f
  <2>5. ASSUME NEW t \in Tuples \ {tuple}  PROVE Covered(recent'[t], rrl'.buckets[t])
    <3>1. rrl'.buckets[t] = Swept(rrl).buckets[t]
      <4>1. \A j \in Tuples \ {tuple} : RRLAllow(rrl, tuple).buckets[j] = Swept(rrl).buckets[j]
        BY <1>0, <2>1, RRLAllowIs
      <4> QED  BY <2>2, <4>1
    <3>2. recent'[t] = recent[t] /\ recent[t] \in History
      BY <1>0, <2>2
    <3>3. Covered(recent[t], Swept(rrl).buckets[t])
      BY <1>0, <3>2, SweptCovered
    <3> QED  BY <3>1, <3>2, <3>3
  <2> QED  BY <2>3, <2>4, <2>5
<1>5. ASSUME NEW p \in Posts, PostRRL(p)
      PROVE  Fixed(rrl') /\ \A t \in Tuples : Covered(recent'[t], rrl'.buckets[t])
  <2>1. p.limit \in Nat /\ p.slip \in Nat /\ p.slip \in {0, InitSettings.slip} /\ p.limit <= MaxLimit
    BY Bounds, LimitBound DEF SlipIsFixed, AllSettings
  <2>2. rrl' = RRLUpdate(rrl, p.limit, p.slip) /\ UNCHANGED recent
    BY <1>5 DEF PostRRL, historyVars
  <2>3. /\ rrl'.buckets = rrl.buckets
        /\ rrl'.slip = IF p.slip > 0 THEN p.slip ELSE rrl.slip
        /\ rrl'.limit \in {p.limit, rrl.limit}
    <3>1. rrl \in RRLs(Tuples) /\ p.limit \in Nat /\ p.slip \in Nat
      BY <1>0, <2>1
    <3>2. /\ RRLUpdate(rrl, p.limit, p.slip).buckets = rrl.buckets
          /\ RRLUpdate(rrl, p.limit, p.slip).slip = IF p.slip > 0 THEN p.slip ELSE rrl.slip
          /\ RRLUpdate(rrl, p.limit, p.slip).limit \in {p.limit, rrl.limit}
      BY <3>1, RRLUpdateIs, Zenon
    <3> QED  BY <2>2, <3>2
  <2>4. Fixed(rrl')
    BY <1>0, <2>1, <2>3
  <2> QED  BY <1>0, <2>2, <2>3, <2>4
<1>6. CASE Tick
  <2>1. /\ rrl' = RRLTick(rrl)
        /\ recent' = [t \in Tuples |-> [i \in 1 .. Second |-> IF i = 1 THEN Nothing ELSE recent[t][i - 1]]]
    BY <1>6 DEF Tick
  <2>2. Fixed(rrl')
    BY <1>0, <2>1, RRLTickIs
  <2>3. ASSUME NEW t \in Tuples  PROVE Covered(recent'[t], rrl'.buckets[t])
    <3> DEFINE h == recent[t]
               f == recent'[t]
               b == rrl.buckets[t]
               new == rrl'.buckets[t]
    <3>1. h \in History /\ f \in History /\ b \in Window \cup {None} /\ Covered(h, b)
      BY <1>0, <1>3 DEF RRLs
    <3>2. f = [i \in 1 .. Second |-> IF i = 1 THEN Nothing ELSE h[i - 1]]
      BY <2>1
    <3>3. IF b = None THEN new = None ELSE WindowAged(b, new)
      BY <1>0, <2>1, RRLTickIs
    <3> HIDE DEF h, f, b, new
    <3>4. Covered(f, new)
      BY <3>1, <3>2, <3>3, TickCovered
    <3> QED  BY <3>4 DEF f, new
  <2> QED  BY <2>2, <2>3
<1>7. CASE UNCHANGED <<rrl, recent>>
  BY <1>0, <1>7
<1>8. ASSUME NEW g \in Goroutines, HandlePacket(g)  PROVE CheckRRL(g) \/ UNCHANGED <<rrl, recent>>
  BY <1>8 DEF HandlePacket, Receive, Limit, Reject, StartResolve, ResolveFails, EncodeFails, Resolved,
              SkipRRL, Account, historyVars
<1>9. ASSUME NEW p \in Posts, ApplyRuntimeSettings(p)  PROVE PostRRL(p) \/ UNCHANGED <<rrl, recent>>
  BY <1>9 DEF ApplyRuntimeSettings, PostRecursion, PostRRLEnabled, PostRate, historyVars
<1>10. CASE UNCHANGED vars
  BY <1>7, <1>10 DEF vars, historyVars
<1> QED  BY <1>4, <1>5, <1>6, <1>7, <1>8, <1>9, <1>10 DEF Next

(* What a tuple owes is at most two limits, whatever its window.           *)
LEMMA CoveredOwes ==
    ASSUME NEW h \in History, NEW b \in Window \cup {None}, Covered(h, b)
    PROVE  Debt(h, Second) <= 2 * MaxLimit * Weight
<1>1. Second \in 0 .. Second /\ Debt(h, Second) \in Int
  BY DebtNext, LimitersAssumption
<1>2. CASE b = None
  <2>1. Debt(h, Second) <= MaxLimit * Weight
    BY <1>1, <1>2 DEF Covered
  <2>2. MaxLimit \in Int /\ 2 * MaxLimit \in Int /\ MaxLimit <= 2 * MaxLimit
    BY LimitBound
  <2>3. MaxLimit * Weight <= 2 * MaxLimit * Weight /\ MaxLimit * Weight \in Int /\ 2 * MaxLimit * Weight \in Int
    BY <2>2, WeightType
  <2> QED  BY <1>1, <2>1, <2>3
<1>3. CASE b # None
  <2>1. b \in Window /\ b.count >= 1 /\ Debt(h, Second) <= Allowance(b, Second)
    BY <1>1, <1>3 DEF Covered
  <2>2. Allowance(b, Second) <= 2 * MaxLimit * Weight /\ Allowance(b, Second) \in Nat
    BY <1>1, <2>1, AllowanceIs
  <2>3. 2 * MaxLimit * Weight \in Int
    BY LimitBound, WeightType
  <2> QED  BY <1>1, <2>1, <2>2, <2>3
<1> QED  BY <1>2, <1>3

LEMMA DebtLimits == TypeOK /\ DebtInv => ResponsesAreLimited
<1> SUFFICES ASSUME TypeOK, DebtInv, SlipIsFixed, NEW t \in Tuples
             PROVE  Total(t, "passed") <=
                       2 * MaxLimit + (Total(t, "seen") - Total(t, "passed")) \div (InitSettings.slip - 1)
  BY DEF ResponsesAreLimited, MaxLimit
<1> DEFINE h == recent[t]
           b == rrl.buckets[t]
           passed == Total(t, "passed")
           seen == Total(t, "seen")
<1>1. h \in History /\ b \in Window \cup {None} /\ Covered(h, b)
  BY DEF TypeOK, DebtInv, History, RRLs
<1>2. passed = SumTo(In(h, "passed"), Second) /\ seen = SumTo(In(h, "seen"), Second)
  BY DEF Total, SumFunction, In, SumTo
<1>3. passed \in Nat /\ seen \in Nat
  <2>1. Second \in Nat /\ Second \in 0 .. Second
    BY LimitersAssumption
  <2>2. \A i \in 1 .. Second : In(h, "passed")[i] \in Nat /\ In(h, "seen")[i] \in Nat
    BY <1>1 DEF In, History
  <2> HIDE DEF h, passed, seen
  <2> QED  BY <1>2, <2>1, <2>2, SumToNext
<1>4. Debt(h, Second) = Weight * passed - (seen - passed)
  BY <1>2 DEF Debt
<1> HIDE DEF h, b, passed, seen
<1>5. Weight * passed - (seen - passed) <= 2 * MaxLimit * Weight
  BY <1>1, <1>4, CoveredOwes
<1>6. Weight \in Nat \ {0} /\ MaxLimit \in Nat
  BY WeightType, LimitBound DEF SlipIsFixed, Weight
<1> DEFINE l == 2 * MaxLimit
<1>7. l \in Nat /\ l * Weight \in Int /\ passed * Weight \in Int /\ Weight * passed = passed * Weight
  BY <1>3, <1>6
<1> HIDE DEF Weight
<1>8. (passed - l) * Weight = passed * Weight - l * Weight
  BY <1>3, <1>6, <1>7
<1>9. (passed - l) * Weight <= seen - passed
  BY <1>3, <1>5, <1>7, <1>8
<1>10. passed - l <= (seen - passed) \div Weight /\ (seen - passed) \div Weight \in Int
  BY <1>3, <1>6, <1>7, <1>9, DivBound
<1>11. passed <= l + (seen - passed) \div Weight
  BY <1>3, <1>7, <1>10
<1> QED  BY <1>11 DEF Weight, passed, seen, l

(* In every second RRL passes, of one client and response code, at most    *)
(* twice the greatest limit apart from those it lets slip, and each that   *)
(* slips has slip - 1 withheld: wherever the windows that Allow opens lie  *)
(* in that second, whichever gcLocked throws away and however Update       *)
(* changes the limit.                                                      *)
THEOREM ResponsesStayLimited == Spec => []ResponsesAreLimited
<1>1. Init => TypeOK /\ DebtInv
  BY InitType, DebtInit
<1>2. TypeOK /\ DebtInv /\ [Next]_vars => (TypeOK /\ DebtInv)'
  BY TypeStep, DebtStep
<1>3. TypeOK /\ DebtInv => ResponsesAreLimited
  BY DebtLimits
<1> QED  BY <1>1, <1>2, <1>3, PTL DEF Spec
=============================================================================
