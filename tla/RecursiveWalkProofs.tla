------------------------- MODULE RecursiveWalkProofs -------------------------
(***************************************************************************)
(* Proofs about RecursiveWalk, for any names, servers, limits and answers. *)
(*                                                                         *)
(* The bound on the queries is inductive in the form "MaxRecursionDepth    *)
(* for every CNAME followed, and one for every step since": a CNAME ends a *)
(* run of at most MaxRecursionDepth steps.                                 *)
(***************************************************************************)
EXTENDS RecursiveWalk, FiniteSetTheorems, TLAPS

(* What is asked at a turn of the loop is a name and a type that occur.    *)
LEMMA QueryStateType ==
  ASSUME TypeOK, steps < MaxRecursionDepth
  PROVE  /\ QueryName \in Names
         /\ QueryType \in Types
         /\ QueryState \in QueryStates
<1>1. Minimized(qname, steps) \in Names
  <2>1. qname \in Names /\ qname \in Seq(Labels) /\ Len(qname) \in Nat /\ steps \in Nat
    BY WalkAssumption DEF TypeOK
  <2>2. \A i \in 0 .. Len(qname) : SubSeq(qname, 1, i) \in Names
    BY <2>1, WalkAssumption
  <2>3. CASE steps + 1 > Len(qname)
    BY <2>1, <2>3 DEF Minimized
  <2>4. CASE ~(steps + 1 > Len(qname))
    <3>1. steps + 1 \in 0 .. Len(qname)
      BY <2>1, <2>4
    <3> QED BY <2>2, <2>4, <3>1 DEF Minimized
  <2> QED BY <2>3, <2>4
<1>2. QueryName \in Names
  BY <1>1 DEF QueryName, TypeOK
<1>3. QueryType \in Types
  BY WalkAssumption DEF QueryType, TypeOK
<1> QED BY <1>2, <1>3 DEF QueryState, QueryStates, TypeOK

(* A response read is one of Replies, and its referral a set of addresses. *)
LEMMA ReplyType ==
  ASSUME TypeOK, steps < MaxRecursionDepth, NEW r \in World(QueryName, QueryType, servers) \ {Failed}
  PROVE  /\ \A c \in CNAMEsOf(r) : c.target \in Names
         /\ nextReferralServers(r) \subseteq Addresses
<1>1. QueryName \in Names /\ QueryType \in Types /\ servers \in SUBSET Addresses
  BY QueryStateType DEF TypeOK
<1>2. r \in Replies
  BY <1>1, WalkAssumption
<1>3. \A c \in CNAMEsOf(r) : c.target \in Names
  BY <1>2 DEF CNAMEsOf, Replies
<1>4. GlueServers(r) \subseteq Addresses
  BY <1>2 DEF GlueServers, Replies
<1>5. UNION {LookupIPs(h) : h \in r.ns.hosts} \subseteq Addresses
  BY <1>2, WalkAssumption DEF Replies
<1> QED BY <1>3, <1>4, <1>5 DEF nextReferralServers

-----------------------------------------------------------------------------
(* Types.                                                                  *)

(* Every resolution starts in a state of the right type.                   *)
LEMMA InitType == Init => TypeOK
BY WalkAssumption DEF Init, TypeOK

(* Every turn of the loop keeps the types.                                 *)
LEMMA StepType == TypeOK /\ [Next]_vars => TypeOK'
<1> SUFFICES ASSUME TypeOK, [Next]_vars PROVE TypeOK'
  OBVIOUS
<1> USE DEF TypeOK
<1>0. /\ MaxRecursionDepth \in Nat /\ MaxCNAMEDepth \in Nat /\ RootServers \subseteq Addresses
      /\ \A x \in Responses \cup Failures : x \in {"running"} \cup Responses \cup Failures
  BY WalkAssumption
<1>a. ASSUME Asks
      PROVE  /\ steps < MaxRecursionDepth
             /\ visitedStates' \subseteq QueryStates
             /\ queries' \in Nat
             /\ steps + 1 \in 0 .. MaxRecursionDepth
  <2>1. steps < MaxRecursionDepth
    BY <1>a DEF Asks
  <2>2. QueryState \in QueryStates
    BY <2>1, QueryStateType
  <2> QED BY <1>0, <1>a, <2>1, <2>2 DEF Asks
<1>r. ASSUME NEW x \in Responses \cup Failures, Return(x), steps' \in 0 .. MaxRecursionDepth,
             visitedStates' \subseteq QueryStates, queries' \in Nat
      PROVE  TypeOK'
  BY <1>r DEF Return
<1>1. CASE DepthExceeded
  BY <1>1 DEF DepthExceeded, Return, Failures
<1>2. CASE LoopDetected
  <2>a. steps < MaxRecursionDepth /\ steps \in 0 .. MaxRecursionDepth
    BY <1>2, Zenon DEF LoopDetected
  <2>1. steps + 1 \in 0 .. MaxRecursionDepth
    <3> HIDE DEF TypeOK
    <3> QED BY <1>0, <2>a
  <2>2. steps' \in 0 .. MaxRecursionDepth /\ visitedStates' \subseteq QueryStates /\ queries' \in Nat
    BY <1>2, <2>1 DEF LoopDetected
  <2>3. Return("referral loop")
    BY <1>2 DEF LoopDetected
  <2> QED BY <1>r, <2>2, <2>3 DEF Failures
<1>3. CASE QueryFails
  BY <1>a, <1>r, <1>3 DEF QueryFails, Failures
<1>4. ASSUME NEW r \in World(QueryName, QueryType, servers) \ {Failed}, HandleReply(r)
      PROVE  TypeOK'
  <2>1. CASE MinimizedNameError(r)
    BY <1>a, <2>1 DEF MinimizedNameError
  <2>2. CASE NameError(r)
    BY <1>a, <1>r, <2>2 DEF NameError, Responses
  <2>3. CASE CNAMEDepthExceeded(r)
    BY <1>a, <1>r, <2>3 DEF CNAMEDepthExceeded, Failures
  <2>4. CASE CNAMELoop(r)
    BY <1>a, <1>r, <2>4 DEF CNAMELoop, Failures
  <2>5. CASE FollowCNAME(r)
    <3>1. Asks /\ cnameDepth < MaxCNAMEDepth
      BY <2>5 DEF FollowCNAME
    <3>2. PICK c \in CNAMEsOf(r) : qname' = c.target /\ visitedCNAME' = visitedCNAME \cup {c.target}
      BY <2>5 DEF FollowCNAME
    <3>3. c.target \in Names
      BY <1>a, <3>1, ReplyType
    <3>4. cnameDepth + 1 \in 0 .. MaxCNAMEDepth /\ 0 \in 0 .. MaxRecursionDepth
      BY <1>0, <3>1
    <3> QED BY <1>0, <1>a, <2>5, <3>1, <3>2, <3>3, <3>4 DEF FollowCNAME
  <2>6. CASE Conclude(r)
    BY <1>a, <1>r, <2>6 DEF Conclude, Responses
  <2>7. CASE Refer(r)
    <3>1. Asks
      BY <2>7 DEF Refer
    <3>2. nextReferralServers(r) \subseteq Addresses
      BY <1>a, <3>1, ReplyType
    <3> QED BY <1>a, <2>7, <3>1, <3>2 DEF Refer
  <2>8. CASE NoReferral(r)
    BY <1>a, <1>r, <2>8 DEF NoReferral, Responses, Failures
  <2> QED BY <1>4, <2>1, <2>2, <2>3, <2>4, <2>5, <2>6, <2>7, <2>8 DEF HandleReply
<1>5. CASE UNCHANGED vars
  BY <1>5 DEF vars
<1> QED BY <1>1, <1>2, <1>3, <1>4, <1>5 DEF Next

(* The state of a resolution keeps its types: in particular the number of  *)
(* CNAMEs followed and of steps stay within their limits.                  *)
THEOREM TypeCorrect == Spec => []TypeOK
BY InitType, StepType, PTL DEF Spec

-----------------------------------------------------------------------------
(* The bound on the queries.                                               *)

Budget(d, n) == d * MaxRecursionDepth + n
Bound == queries <= Budget(cnameDepth, steps)

(* Starting on a CNAME's target costs what was left of the steps.          *)
LEMMA NextBudget ==
  ASSUME NEW d \in Nat, NEW n \in Nat, n + 1 <= MaxRecursionDepth
  PROVE  /\ Budget(d, n) \in Nat
         /\ Budget(d, n + 1) = Budget(d, n) + 1
         /\ Budget(d, n) + 1 <= Budget(d + 1, 0)
<1>1. MaxRecursionDepth \in Nat
  BY WalkAssumption
<1>2. d * MaxRecursionDepth \in Nat
  BY <1>1
<1>3. (d + 1) * MaxRecursionDepth = d * MaxRecursionDepth + MaxRecursionDepth
  BY <1>1
<1> DEFINE p == d * MaxRecursionDepth
           q == (d + 1) * MaxRecursionDepth
<1>4. /\ Budget(d, n) = p + n
      /\ Budget(d, n + 1) = p + (n + 1)
      /\ Budget(d + 1, 0) = q + 0
  BY DEF Budget
<1>5. p \in Nat /\ q = p + MaxRecursionDepth
  BY <1>2, <1>3
<1> HIDE DEF p, q
<1> QED BY <1>1, <1>4, <1>5

(* Every turn sends at most one query and pays for it with a step.         *)
LEMMA StepBound == TypeOK /\ Bound /\ [Next]_vars => Bound'
<1> SUFFICES ASSUME TypeOK, Bound, [Next]_vars PROVE Bound'
  OBVIOUS
<1>0. /\ cnameDepth \in Nat /\ steps \in Nat /\ queries \in Nat
      /\ MaxRecursionDepth \in Nat /\ MaxCNAMEDepth \in Nat
  BY WalkAssumption DEF TypeOK
<1>a. ASSUME steps < MaxRecursionDepth
      PROVE  /\ Budget(cnameDepth, steps) \in Nat
             /\ Budget(cnameDepth, steps + 1) = Budget(cnameDepth, steps) + 1
             /\ Budget(cnameDepth, steps) + 1 <= Budget(cnameDepth + 1, 0)
  BY <1>0, <1>a, NextBudget
<1>b. ASSUME Asks, steps' = steps + 1, cnameDepth' = cnameDepth
      PROVE  Bound'
  <2>1. steps < MaxRecursionDepth /\ queries' = queries + 1
    BY <1>b DEF Asks
  <2> QED BY <1>0, <1>a, <1>b, <2>1 DEF Bound
<1>1. CASE DepthExceeded
  BY <1>1 DEF DepthExceeded, Return, Bound
<1>2. CASE LoopDetected
  <2>1. steps < MaxRecursionDepth /\ steps' = steps + 1 /\ queries' = queries /\ cnameDepth' = cnameDepth
    BY <1>2 DEF LoopDetected, Return
  <2> QED BY <1>0, <1>a, <2>1 DEF Bound
<1>3. CASE QueryFails
  BY <1>b, <1>3 DEF QueryFails, Return
<1>4. ASSUME NEW r \in World(QueryName, QueryType, servers) \ {Failed}, HandleReply(r)
      PROVE  Bound'
  <2>1. CASE FollowCNAME(r)
    <3>1. /\ steps < MaxRecursionDepth /\ queries' = queries + 1
          /\ cnameDepth' = cnameDepth + 1 /\ steps' = 0
      BY <2>1 DEF FollowCNAME, Asks
    <3>2. Budget(cnameDepth + 1, 0) \in Nat
      BY <1>0 DEF Budget
    <3> QED BY <1>0, <1>a, <3>1, <3>2 DEF Bound
  <2>2. CASE ~FollowCNAME(r)
    <3>1. Asks /\ steps' = steps + 1 /\ cnameDepth' = cnameDepth
      BY <1>4, <2>2 DEF HandleReply, MinimizedNameError, NameError, CNAMEDepthExceeded, CNAMELoop,
                        Conclude, Refer, NoReferral, Return
    <3> QED BY <1>b, <3>1
  <2> QED BY <2>1, <2>2
<1>5. CASE UNCHANGED vars
  BY <1>5 DEF vars, Bound
<1> QED BY <1>1, <1>2, <1>3, <1>4, <1>5 DEF Next

(* However servers refer and alias, a resolution sends at most             *)
(* (MaxCNAMEDepth + 1) * MaxRecursionDepth queries.                        *)
THEOREM WalkIsBounded == Spec => []QueriesAreBounded
<1>1. Init => TypeOK /\ Bound
  <2>1. Init => Bound
    BY WalkAssumption DEF Init, Bound, Budget
  <2> QED BY <2>1, InitType
<1>2. (TypeOK /\ Bound) /\ [Next]_vars => (TypeOK /\ Bound)'
  BY StepType, StepBound
<1>3. TypeOK /\ Bound => QueriesAreBounded
  <2> SUFFICES ASSUME TypeOK, Bound PROVE QueriesAreBounded
    OBVIOUS
  <2>0. /\ cnameDepth \in Nat /\ cnameDepth <= MaxCNAMEDepth
        /\ steps \in Nat /\ steps <= MaxRecursionDepth /\ queries \in Nat
        /\ MaxRecursionDepth \in Nat /\ MaxCNAMEDepth \in Nat
    BY WalkAssumption DEF TypeOK
  <2>1. cnameDepth * MaxRecursionDepth <= MaxCNAMEDepth * MaxRecursionDepth
    <3>1. PICK k \in Nat : MaxCNAMEDepth = cnameDepth + k
      <4>1. MaxCNAMEDepth - cnameDepth \in Nat /\ MaxCNAMEDepth = cnameDepth + (MaxCNAMEDepth - cnameDepth)
        BY <2>0
      <4> QED BY <4>1
    <3>2. MaxCNAMEDepth * MaxRecursionDepth = cnameDepth * MaxRecursionDepth + k * MaxRecursionDepth
      BY <2>0, <3>1
    <3>3. k * MaxRecursionDepth \in Nat /\ cnameDepth * MaxRecursionDepth \in Nat
      BY <2>0
    <3> QED BY <3>2, <3>3
  <2>2. (MaxCNAMEDepth + 1) * MaxRecursionDepth = MaxCNAMEDepth * MaxRecursionDepth + MaxRecursionDepth
    BY <2>0
  <2>3. cnameDepth * MaxRecursionDepth \in Nat /\ MaxCNAMEDepth * MaxRecursionDepth \in Nat
    BY <2>0
  <2>4. queries <= cnameDepth * MaxRecursionDepth + steps
    BY DEF Bound, Budget
  <2> DEFINE p == cnameDepth * MaxRecursionDepth
             q == MaxCNAMEDepth * MaxRecursionDepth
             b == (MaxCNAMEDepth + 1) * MaxRecursionDepth
  <2>5. p \in Nat /\ q \in Nat /\ p <= q /\ b = q + MaxRecursionDepth /\ queries <= p + steps
    BY <2>1, <2>2, <2>3, <2>4
  <2> HIDE DEF p, q, b
  <2>6. queries <= b
    BY <2>0, <2>5
  <2> QED BY <2>4, <2>6 DEF QueriesAreBounded, b
<1> QED BY <1>1, <1>2, <1>3, PTL DEF Spec

-----------------------------------------------------------------------------
(* No question twice.                                                      *)

Asked == IsFiniteSet(visitedStates) /\ NeverAsksTwice

(* Every query sent adds to the states visited.                            *)
LEMMA StepAsked == TypeOK /\ Asked /\ [Next]_vars => Asked'
<1> SUFFICES ASSUME TypeOK, Asked, [Next]_vars PROVE Asked'
  OBVIOUS
<1>1. \/ Asks
      \/ UNCHANGED <<visitedStates, queries>>
  BY DEF Next, DepthExceeded, LoopDetected, QueryFails, HandleReply, MinimizedNameError, NameError,
         CNAMEDepthExceeded, CNAMELoop, FollowCNAME, Conclude, Refer, NoReferral, vars
<1>2. CASE Asks
  <2>1. /\ QueryState \notin visitedStates
        /\ visitedStates' = visitedStates \cup {QueryState}
        /\ queries' = queries + 1
    BY <1>2 DEF Asks
  <2>2. /\ IsFiniteSet(visitedStates \cup {QueryState})
        /\ Cardinality(visitedStates \cup {QueryState}) = Cardinality(visitedStates) + 1
    BY <2>1, FS_AddElement DEF Asked
  <2> QED BY <2>1, <2>2 DEF Asked, NeverAsksTwice
<1>3. CASE UNCHANGED <<visitedStates, queries>>
  BY <1>3 DEF Asked, NeverAsksTwice
<1> QED BY <1>1, <1>2, <1>3

(* A resolution never puts the same question to the same servers again.    *)
THEOREM WalkNeverRepeats == Spec => []NeverAsksTwice
<1>1. Init => TypeOK /\ Asked
  <2>1. Init => Asked
    BY FS_EmptySet DEF Init, Asked, NeverAsksTwice
  <2> QED BY <2>1, InitType
<1>2. (TypeOK /\ Asked) /\ [Next]_vars => (TypeOK /\ Asked)'
  BY StepType, StepAsked
<1>3. TypeOK /\ Asked => NeverAsksTwice
  BY DEF Asked
<1> QED BY <1>1, <1>2, <1>3, PTL DEF Spec
=============================================================================
