------------------------- MODULE UpstreamQueryProofs -------------------------
(***************************************************************************)
(* Proofs about UpstreamQuery, for any finite set of servers and any       *)
(* number of calls, posters and query ids.                                 *)
(*                                                                         *)
(* The invariant has four layers, each proved from the ones before it.     *)
(* TypeInv: the types, and what the stage of a call or a worker says about *)
(* its breaker, its attempts and its outcome.  IdInv: only a worker that   *)
(* waits for a reply holds a query id.  RaceInv: how the workers of a call *)
(* and its collector share the channel.  BreakerInv: what the counters of  *)
(* a breaker owe to the run of results reported to it.                     *)
(***************************************************************************)
EXTENDS UpstreamQuery, SequenceTheorems, FiniteSetTheorems, TLAPS

Asking == {"attempt", "udp", "dial", "tcp"}
HasId == {"udp", "dial", "tcp"}
Decided == {"backoff", "report", "observe", "send", "exit"}

(* A server is fetched before it is asked and asked before it is reported; *)
(* a worker that asks has attempts left.                                   *)
StageInv ==
    /\ \A c \in Calls : pc[c] = "allow" =>
          /\ current[c] \in Servers /\ breakers[current[c]] # None
          /\ current[c] \notin todo[c] /\ wpc[c][current[c]] = "none"
    /\ \A c \in Calls, s \in Servers :
          /\ s \in todo[c] => wpc[c][s] = "none"
          /\ wpc[c][s] \in Asking \cup {"none"} => attempt[c][s] < Retries
          /\ wpc[c][s] \in Decided => result[c][s] # "none"
          /\ wpc[c][s] # "none" => breakers[s] # None

TypeInv == TypeOK /\ StageInv

Outcomes == Successes \cup Errors

WorkersOK ==
    /\ wpc \in [Calls -> [Servers -> WorkerStates]]
    /\ attempt \in [Calls -> [Servers -> 0 .. Retries]]
    /\ qid \in [Calls -> [Servers -> QueryIDs \cup {None}]]
    /\ result \in [Calls -> [Servers -> Outcomes \cup {"none"}]]

(* A step of worker (c, s) to stage w with a failed attempts, query id i   *)
(* and outcome r, which leaves every other worker alone.                   *)
Moved(c, s, w, a, i, r) ==
    /\ WorkersOK'
    /\ wpc'[c][s] = w
    /\ attempt'[c][s] = a
    /\ qid'[c][s] = i
    /\ result'[c][s] = r
    /\ \A d \in Calls, t \in Servers : d # c \/ t # s =>
          /\ wpc'[d][t] = wpc[d][t]
          /\ attempt'[d][t] = attempt[d][t]
          /\ qid'[d][t] = qid[d][t]
          /\ result'[d][t] = result[d][t]

(* Only a worker that waits for a reply holds an id.                       *)
IdInv ==
    /\ \A c \in Calls, s \in Servers : qid[c][s] # None => wpc[c][s] \in HasId
    /\ UniqueQueryIDs

(* The servers that will send nothing more to the channel of c: those that *)
(* were refused or whose worker is gone.                                   *)
Spent(c) ==
    {s \in asked[c] : /\ s \notin todo[c]
                      /\ wpc[c][s] \in {"none", "exit"}
                      /\ ~(pc[c] = "allow" /\ current[c] = s)}

(* The channel never holds more results than servers are spent; it is      *)
(* closed only when no worker is left; and while the call collects, the    *)
(* reply of a worker that is gone is still in the channel.                 *)
CallInv(c) ==
    /\ todo[c] \subseteq asked[c]
    /\ pc[c] = "allow" => current[c] \in asked[c]
    /\ \A s \in Servers : wpc[c][s] # "none" => s \in asked[c]
    /\ closed[c] => Quiescent(c) /\ pc[c] \in {"collect", "answered", "error"}
    /\ pc[c] = "error" => Quiescent(c) /\ \A s \in Servers : result[c][s] \notin Successes
    /\ \A s \in Servers : wpc[c][s] = "none" => result[c][s] \notin Successes
    /\ pc[c] \in {"start", "allow", "collect"} =>
          \A s \in Servers : wpc[c][s] = "exit" /\ result[c][s] \in Successes =>
              \E i \in 1 .. Len(resultCh[c]) : resultCh[c][i] \in Successes
    /\ Len(resultCh[c]) <= Cardinality(Spent(c))

RaceInv == \A c \in Calls : CallInv(c)

(* The thresholds a breaker may have been given.                           *)
Known == Settings \cup {InitialLimits}

(* What the counters of breaker b owe to the run n of equal results.       *)
BreakerOK(b, n) ==
    /\ b.limits \in Known
    /\ b.state = "closed" => b.failures < StreakCap /\ (b.failures > 0 => b.failures <= -n)
    /\ b.state = "half_open" => b.successes < StreakCap /\ (b.successes > 0 => b.successes <= n)

BreakerInv ==
    /\ limits \in Known
    /\ \A c \in Calls : snapshot[c] \in Known
    /\ \A p \in Posters : pending[p] # None => pending[p] \in Known
    /\ \A s \in Servers : breakers[s] # None => BreakerOK(breakers[s], streak[s])

-----------------------------------------------------------------------------
(* One worker of one call is changed.                                      *)
LEMMA NestedUpdate ==
  ASSUME NEW C, NEW S, NEW T, NEW F \in [C -> [S -> T]], NEW c \in C, NEW s \in S, NEW x \in T,
         NEW G, G = [F EXCEPT ![c][s] = x]
  PROVE  /\ G \in [C -> [S -> T]]
         /\ G[c][s] = x
         /\ \A d \in C, t \in S : d # c \/ t # s => G[d][t] = F[d][t]
OBVIOUS

(* What the two reports do, state by state and field by field.             *)
LEMMA OnSuccessByState ==
  ASSUME NEW b \in Breakers
  PROVE  /\ OnSuccess(b) \in Breakers
         /\ OnSuccess(b).limits = b.limits
         /\ b.state = "closed" => OnSuccess(b).state = "closed" /\ OnSuccess(b).failures = 0
         /\ b.state = "half_open" =>
               IF b.successes + 1 >= b.limits.successThreshold
               THEN OnSuccess(b).state = "closed" /\ OnSuccess(b).failures = 0
               ELSE OnSuccess(b).state = "half_open" /\ OnSuccess(b).successes = b.successes + 1
         /\ b.state = "open" => OnSuccess(b).state = "open"
<1> USE DEF Breakers, States, Thresholds
<1>1. CASE b.state = "closed"
  <2>1. OnSuccess(b) = [b EXCEPT !.failures = 0]
    BY <1>1 DEF OnSuccess
  <2> QED BY <1>1, <2>1
<1>2. CASE b.state = "half_open" /\ b.successes + 1 >= b.limits.successThreshold
  <2>1. OnSuccess(b) = [b EXCEPT !.state = "closed", !.failures = 0, !.successes = 0]
    BY <1>2 DEF OnSuccess
  <2>2. [b EXCEPT !.state = "closed", !.failures = 0, !.successes = 0] \in Breakers
    OBVIOUS
  <2> QED BY <1>2, <2>1, <2>2
<1>3. CASE b.state = "half_open" /\ ~(b.successes + 1 >= b.limits.successThreshold)
  <2>1. OnSuccess(b) = [b EXCEPT !.successes = b.successes + 1]
    BY <1>3 DEF OnSuccess
  <2> QED BY <1>3, <2>1
<1>4. CASE b.state = "open"
  BY <1>4 DEF OnSuccess
<1> QED BY <1>1, <1>2, <1>3, <1>4

LEMMA OnFailureByState ==
  ASSUME NEW b \in Breakers
  PROVE  /\ OnFailure(b) \in Breakers
         /\ OnFailure(b).limits = b.limits
         /\ b.state = "closed" =>
               IF b.failures + 1 >= b.limits.failureThreshold
               THEN OnFailure(b).state = "open"
               ELSE OnFailure(b).state = "closed" /\ OnFailure(b).failures = b.failures + 1
         /\ b.state # "closed" => OnFailure(b).state = "open"
<1> USE DEF Breakers, States, Thresholds
<1>1. CASE b.state = "closed"
  <2> DEFINE counted == [b EXCEPT !.failures = b.failures + 1]
  <2>1. /\ counted \in Breakers
        /\ counted.failures = b.failures + 1 /\ counted.limits = b.limits /\ counted.state = "closed"
    BY <1>1
  <2>2. OnFailure(b) = IF counted.failures >= b.limits.failureThreshold THEN Trip(counted) ELSE counted
    BY <1>1 DEF OnFailure
  <2> HIDE DEF counted
  <2>3. Trip(counted) \in Breakers /\ Trip(counted).limits = counted.limits /\ Trip(counted).state = "open"
    BY <2>1 DEF Trip
  <2> QED BY <1>1, <2>1, <2>2, <2>3
<1>2. CASE b.state = "half_open"
  <2>1. OnFailure(b) = [Trip(b) EXCEPT !.failures = b.limits.failureThreshold]
    BY <1>2 DEF OnFailure
  <2>2. Trip(b) \in Breakers /\ Trip(b).limits = b.limits /\ Trip(b).state = "open"
    BY DEF Trip
  <2> QED BY <1>2, <2>1, <2>2
<1>3. CASE b.state = "open"
  <2>1. OnFailure(b) = [b EXCEPT !.elapsed = 0]
    BY <1>3 DEF OnFailure
  <2> QED BY <1>3, <2>1
<1> QED BY <1>1, <1>2, <1>3

(* The breaker's methods return breakers and keep its tunables.            *)
LEMMA BreakerOps ==
  ASSUME NEW b \in Breakers, NEW t \in Thresholds
  PROVE  /\ NewCircuitBreaker(t) \in Breakers /\ NewCircuitBreaker(t).limits = t
         /\ Allow(b) \in Breakers /\ Allow(b).limits = b.limits
         /\ UpdateConfig(b, t) \in Breakers /\ UpdateConfig(b, t).limits = t
         /\ Age(b, Horizon) \in Breakers /\ Age(b, Horizon).limits = b.limits
<1> USE DEF Breakers, States, Thresholds
<1>1. NewCircuitBreaker(t) \in Breakers /\ NewCircuitBreaker(t).limits = t
  BY DEF NewCircuitBreaker
<1>2. Allow(b) \in Breakers /\ Allow(b).limits = b.limits
  BY DEF Allow
<1>3. UpdateConfig(b, t) \in Breakers /\ UpdateConfig(b, t).limits = t
  BY DEF UpdateConfig
<1>4. Age(b, Horizon) \in Breakers /\ Age(b, Horizon).limits = b.limits
  BY UpstreamAssumption DEF Age
<1> QED BY <1>1, <1>2, <1>3, <1>4

LEMMA InitTypeInv == Init => TypeInv
<1> SUFFICES ASSUME Init PROVE TypeInv
  OBVIOUS
<1>1. TypeOK
  BY UpstreamAssumption DEF Init, TypeOK, CallStates, WorkerStates, Successes, Errors
<1>2. StageInv
  BY UpstreamAssumption DEF Init, StageInv, Asking, Decided
<1> QED BY <1>1, <1>2 DEF TypeInv

-----------------------------------------------------------------------------
(* What each step of a worker does to the workers.                         *)
LEMMA SendQueryMoves ==
  ASSUME WorkersOK, NEW c \in Calls, NEW s \in Servers, NEW id \in QueryIDs, SendQuery(c, s, id)
  PROVE  Moved(c, s, "udp", attempt[c][s], id, result[c][s])
<1>1. /\ qid' = [qid EXCEPT ![c][s] = id] /\ wpc' = [wpc EXCEPT ![c][s] = "udp"]
      /\ UNCHANGED <<attempt, result>>
  BY DEF SendQuery
<1>2. "udp" \in WorkerStates
  BY DEF WorkerStates
<1> QED BY <1>1, <1>2, NestedUpdate DEF WorkersOK, Moved

LEMMA EndAttemptMoves ==
  ASSUME WorkersOK, NEW c \in Calls, NEW s \in Servers, NEW outcome \in Outcomes, EndAttempt(c, s, outcome),
         attempt[c][s] < Retries
  PROVE  Moved(c, s, IF outcome \in Successes THEN "report" ELSE "backoff",
               IF outcome \in Successes THEN attempt[c][s] ELSE attempt[c][s] + 1, None, outcome)
<1> DEFINE w == IF outcome \in Successes THEN "report" ELSE "backoff"
           a == IF outcome \in Successes THEN attempt[c][s] ELSE attempt[c][s] + 1
<1>1. /\ qid' = [qid EXCEPT ![c][s] = None] /\ result' = [result EXCEPT ![c][s] = outcome]
      /\ wpc' = [wpc EXCEPT ![c][s] = w] /\ attempt' = [attempt EXCEPT ![c][s] = a]
  BY DEF EndAttempt
<1>2. w \in WorkerStates /\ a \in 0 .. Retries
  BY UpstreamAssumption DEF WorkerStates, WorkersOK
<1> SUFFICES Moved(c, s, w, a, None, outcome)
  OBVIOUS
<1> HIDE DEF w, a
<1> QED BY <1>1, <1>2, NestedUpdate DEF WorkersOK, Moved

LEMMA StageMoves ==
  ASSUME WorkersOK, NEW c \in Calls, NEW s \in Servers, NEW w \in WorkerStates,
         wpc' = [wpc EXCEPT ![c][s] = w], UNCHANGED <<attempt, qid, result>>
  PROVE  Moved(c, s, w, attempt[c][s], qid[c][s], result[c][s])
BY NestedUpdate DEF WorkersOK, Moved

LEMMA BackoffCancelledMoves ==
  ASSUME WorkersOK, NEW c \in Calls, NEW s \in Servers, BackoffCancelled(c, s)
  PROVE  Moved(c, s, "report", attempt[c][s], qid[c][s], "cancelled")
<1>1. /\ result' = [result EXCEPT ![c][s] = "cancelled"] /\ wpc' = [wpc EXCEPT ![c][s] = "report"]
      /\ UNCHANGED <<attempt, qid>>
  BY DEF BackoffCancelled
<1>2. "report" \in WorkerStates /\ "cancelled" \in Outcomes
  BY DEF WorkerStates, Outcomes, Errors
<1> QED BY <1>1, <1>2, NestedUpdate DEF WorkersOK, Moved

-----------------------------------------------------------------------------
LEMMA MovedKeepsTypes ==
  ASSUME TypeInv, NEW c \in Calls, NEW s \in Servers, NEW w, NEW a, NEW i, NEW r,
         Moved(c, s, w, a, i, r), wpc[c][s] # "none", w # "none",
         w \in Asking => a < Retries, w \in Decided => r # "none",
         UNCHANGED <<limits, pending, pc, snapshot, asked, todo, current, cancelled, closed>>,
         inFlight' \subseteq QueryIDs,
         upstream' \in [Servers -> {"unknown", "ok", "error"}],
         resultCh' \in [Calls -> Seq(Outcomes)],
         streak' \in [Servers -> -StreakCap .. StreakCap],
         breakers' \in [Servers -> Breakers \cup {None}],
         \A t \in Servers : breakers[t] # None => breakers'[t] # None
  PROVE  TypeInv'
<1>1. TypeOK'
  BY DEF TypeInv, TypeOK, Moved, WorkersOK, Outcomes
<1>2. ASSUME NEW d \in Calls, pc'[d] = "allow"
      PROVE  /\ current'[d] \in Servers /\ breakers'[current'[d]] # None
             /\ current'[d] \notin todo'[d] /\ wpc'[d][current'[d]] = "none"
  <2>1. /\ current[d] \in Servers /\ breakers[current[d]] # None
        /\ current[d] \notin todo[d] /\ wpc[d][current[d]] = "none"
    BY <1>2 DEF TypeInv, StageInv
  <2> QED BY <2>1 DEF Moved
<1>3. ASSUME NEW d \in Calls, NEW t \in Servers
      PROVE  /\ t \in todo'[d] => wpc'[d][t] = "none"
             /\ wpc'[d][t] \in Asking \cup {"none"} => attempt'[d][t] < Retries
             /\ wpc'[d][t] \in Decided => result'[d][t] # "none"
             /\ wpc'[d][t] # "none" => breakers'[t] # None
  <2>1. CASE d = c /\ t = s
    <3>1. breakers'[s] # None /\ s \notin todo'[c]
      BY DEF TypeInv, StageInv
    <3>2. wpc'[d][t] = w /\ attempt'[d][t] = a /\ result'[d][t] = r
      BY <2>1 DEF Moved
    <3> QED BY <2>1, <3>1, <3>2
  <2>2. CASE d # c \/ t # s
    <3>1. wpc'[d][t] = wpc[d][t] /\ attempt'[d][t] = attempt[d][t] /\ result'[d][t] = result[d][t]
      BY <2>2 DEF Moved
    <3>2. /\ t \in todo[d] => wpc[d][t] = "none"
          /\ wpc[d][t] \in Asking \cup {"none"} => attempt[d][t] < Retries
          /\ wpc[d][t] \in Decided => result[d][t] # "none"
          /\ wpc[d][t] # "none" => breakers[t] # None
      BY DEF TypeInv, StageInv
    <3> QED BY <3>1, <3>2
  <2> QED BY <2>1, <2>2
<1> QED BY <1>1, <1>2, <1>3 DEF TypeInv, StageInv

LEMMA WorkerStepKeepsTypes ==
  ASSUME TypeInv, NEW c \in Calls, NEW s \in Servers, WorkerStep(c, s)
  PROVE  TypeInv'
<1> USE DEF Asking, Decided
<1>0. /\ WorkersOK /\ inFlight \subseteq QueryIDs
      /\ upstream \in [Servers -> {"unknown", "ok", "error"}]
      /\ resultCh \in [Calls -> Seq(Outcomes)]
      /\ streak \in [Servers -> -StreakCap .. StreakCap]
      /\ breakers \in [Servers -> Breakers \cup {None}]
      /\ wpc[c][s] \in Asking => attempt[c][s] < Retries
      /\ wpc[c][s] \in Decided => result[c][s] \in Outcomes
      /\ wpc[c][s] # "none" => breakers[s] \in Breakers
  BY DEF TypeInv, TypeOK, StageInv, WorkersOK, Outcomes
<1>1. ASSUME NEW id \in QueryIDs, SendQuery(c, s, id) PROVE TypeInv'
  <2>1. Moved(c, s, "udp", attempt[c][s], id, result[c][s])
    BY <1>0, <1>1, SendQueryMoves
  <2>2. /\ wpc[c][s] = "attempt" /\ inFlight' = inFlight \cup {id}
        /\ UNCHANGED <<limits, pending, pc, snapshot, asked, todo, current, cancelled, closed,
                       upstream, resultCh, streak, breakers>>
    BY <1>1 DEF SendQuery, callVars
  <2> QED BY <1>0, <2>1, <2>2, MovedKeepsTypes
<1>2. ASSUME NEW outcome \in Outcomes, EndAttempt(c, s, outcome), wpc[c][s] \in Asking PROVE TypeInv'
  <2> DEFINE w == IF outcome \in Successes THEN "report" ELSE "backoff"
             a == IF outcome \in Successes THEN attempt[c][s] ELSE attempt[c][s] + 1
  <2>1. Moved(c, s, w, a, None, outcome)
    BY <1>0, <1>2, EndAttemptMoves
  <2>2. /\ inFlight' = inFlight \ {qid[c][s]}
        /\ UNCHANGED <<limits, pending, pc, snapshot, asked, todo, current, cancelled, closed,
                       upstream, resultCh, streak, breakers>>
    BY <1>2 DEF EndAttempt, callVars
  <2>3. w \notin Asking /\ w # "none" /\ outcome # "none" /\ wpc[c][s] # "none" /\ inFlight' \subseteq QueryIDs
    BY <1>0, <1>2, <2>2 DEF Outcomes, Successes, Errors
  <2> HIDE DEF w, a
  <2> QED BY <1>0, <2>1, <2>2, <2>3, MovedKeepsTypes
<1>3. CASE AttemptFailsLocally(c, s)
  BY <1>2, <1>3 DEF AttemptFailsLocally, Outcomes, Errors
<1>4. CASE \E outcome \in Successes \cup {"failed"} : FinishUDP(c, s, outcome)
  BY <1>2, <1>4 DEF FinishUDP, Outcomes, Errors
<1>5. CASE DialFails(c, s)
  <2>1. (IF cancelled[c] THEN "cancelled" ELSE "failed") \in Outcomes
    BY DEF Outcomes, Errors
  <2> QED BY <1>2, <1>5, <2>1 DEF DialFails
<1>6. CASE \E outcome \in Successes \cup {"failed"} : FinishTCP(c, s, outcome)
  BY <1>2, <1>6 DEF FinishTCP, Outcomes, Errors
<1>7. CASE Truncated(c, s) \/ DialTCP(c, s) \/ BackoffOver(c, s)
  <2>1. PICK w \in WorkerStates :
           /\ wpc' = [wpc EXCEPT ![c][s] = w]
           /\ w # "none"
           /\ w \in Asking => attempt[c][s] < Retries
           /\ w \in Decided => wpc[c][s] \in Decided
    BY <1>0, <1>7 DEF Truncated, DialTCP, BackoffOver, WorkerStates
  <2>2. /\ wpc[c][s] # "none"
        /\ UNCHANGED <<limits, pending, pc, snapshot, asked, todo, current, cancelled, closed,
                       inFlight, upstream, resultCh, streak, breakers, attempt, qid, result>>
    BY <1>7 DEF Truncated, DialTCP, BackoffOver, callVars
  <2>3. Moved(c, s, w, attempt[c][s], qid[c][s], result[c][s])
    BY <1>0, <2>1, <2>2, StageMoves
  <2>4. w \in Decided => result[c][s] # "none"
    BY <1>0, <2>1 DEF Outcomes, Successes, Errors
  <2> HIDE DEF Asking, Decided
  <2>5. /\ inFlight' \subseteq QueryIDs
        /\ upstream' \in [Servers -> {"unknown", "ok", "error"}]
        /\ resultCh' \in [Calls -> Seq(Outcomes)]
        /\ streak' \in [Servers -> -StreakCap .. StreakCap]
        /\ breakers' \in [Servers -> Breakers \cup {None}]
        /\ \A t \in Servers : breakers[t] # None => breakers'[t] # None
    BY <1>0, <2>2
  <2>6. /\ wpc[c][s] # "none" /\ w # "none"
        /\ w \in Asking => attempt[c][s] < Retries
        /\ UNCHANGED <<limits, pending, pc, snapshot, asked, todo, current, cancelled, closed>>
    BY <2>1, <2>2
  <2> QED BY <2>3, <2>4, <2>5, <2>6, MovedKeepsTypes
<1>8. CASE BackoffCancelled(c, s)
  <2>1. Moved(c, s, "report", attempt[c][s], qid[c][s], "cancelled")
    BY <1>0, <1>8, BackoffCancelledMoves
  <2>2. /\ wpc[c][s] = "backoff"
        /\ UNCHANGED <<limits, pending, pc, snapshot, asked, todo, current, cancelled, closed,
                       inFlight, upstream, resultCh, streak, breakers>>
    BY <1>8 DEF BackoffCancelled, callVars
  <2> QED BY <1>0, <2>1, <2>2, MovedKeepsTypes
<1>9. CASE ReportToBreaker(c, s)
  <2>1. /\ wpc[c][s] = "report" /\ wpc' = [wpc EXCEPT ![c][s] = "observe"]
        /\ breakers' = [breakers EXCEPT ![s] = IF result[c][s] \in Successes THEN OnSuccess(@) ELSE OnFailure(@)]
        /\ streak' = [streak EXCEPT ![s] = Extend(@, result[c][s] \in Successes)]
        /\ UNCHANGED <<limits, pending, pc, snapshot, asked, todo, current, cancelled, closed,
                       inFlight, upstream, resultCh, attempt, qid, result>>
    BY <1>9 DEF ReportToBreaker, callVars
  <2>2. Moved(c, s, "observe", attempt[c][s], qid[c][s], result[c][s])
    BY <1>0, <2>1, StageMoves DEF WorkerStates
  <2>3. breakers[s] \in Breakers /\ OnSuccess(breakers[s]) \in Breakers /\ OnFailure(breakers[s]) \in Breakers
    BY <1>0, <2>1, OnSuccessByState, OnFailureByState
  <2>4. /\ breakers' \in [Servers -> Breakers \cup {None}]
        /\ \A t \in Servers : breakers[t] # None => breakers'[t] # None
    BY <1>0, <2>1, <2>3, UpstreamAssumption
  <2>5. Extend(streak[s], result[c][s] \in Successes) \in -StreakCap .. StreakCap
    BY <1>0, UpstreamAssumption DEF Extend
  <2>6. streak' \in [Servers -> -StreakCap .. StreakCap]
    BY <1>0, <2>1, <2>5
  <2>7. result[c][s] # "none"
    BY <1>0, <2>1 DEF Outcomes, Successes, Errors
  <2> QED BY <1>0, <2>1, <2>2, <2>4, <2>6, <2>7, MovedKeepsTypes
<1>10. CASE ObserveResult(c, s)
  <2>1. /\ wpc[c][s] = "observe" /\ wpc' = [wpc EXCEPT ![c][s] = "send"]
        /\ upstream' = [upstream EXCEPT ![s] = IF result[c][s] \in Successes THEN "ok" ELSE "error"]
        /\ UNCHANGED <<limits, pending, pc, snapshot, asked, todo, current, cancelled, closed,
                       inFlight, breakers, streak, resultCh, attempt, qid, result>>
    BY <1>10 DEF ObserveResult, callVars
  <2>2. Moved(c, s, "send", attempt[c][s], qid[c][s], result[c][s])
    BY <1>0, <2>1, StageMoves DEF WorkerStates
  <2>3. upstream' \in [Servers -> {"unknown", "ok", "error"}] /\ result[c][s] # "none"
    BY <1>0, <2>1 DEF Outcomes, Successes, Errors
  <2> QED BY <1>0, <2>1, <2>2, <2>3, MovedKeepsTypes
<1>11. CASE SendResult(c, s)
  <2>1. /\ wpc[c][s] = "send" /\ wpc' = [wpc EXCEPT ![c][s] = "exit"]
        /\ resultCh' = [resultCh EXCEPT ![c] = Append(@, result[c][s])]
        /\ UNCHANGED <<limits, pending, pc, snapshot, asked, todo, current, cancelled, closed,
                       inFlight, breakers, streak, upstream, attempt, qid, result>>
    BY <1>11 DEF SendResult
  <2>2. Moved(c, s, "exit", attempt[c][s], qid[c][s], result[c][s])
    BY <1>0, <2>1, StageMoves DEF WorkerStates
  <2>3. result[c][s] \in Outcomes /\ result[c][s] # "none"
    BY <1>0, <2>1 DEF Outcomes, Successes, Errors
  <2>4. resultCh' \in [Calls -> Seq(Outcomes)]
    BY <1>0, <2>1, <2>3
  <2> QED BY <1>0, <2>1, <2>2, <2>3, <2>4, MovedKeepsTypes
<1> QED BY <1>1, <1>3, <1>4, <1>5, <1>6, <1>7, <1>8, <1>9, <1>10, <1>11 DEF WorkerStep

LEMMA CallStepKeepsTypes ==
  ASSUME TypeInv, NEW c \in Calls, CallStep(c)
  PROVE  TypeInv'
<1> USE DEF CallStates
<1>0. /\ breakers \in [Servers -> Breakers \cup {None}]
      /\ resultCh \in [Calls -> Seq(Outcomes)]
      /\ snapshot[c] \in Thresholds
      /\ pc[c] = "allow" => current[c] \in Servers /\ breakers[current[c]] \in Breakers
  BY DEF TypeInv, TypeOK, StageInv, Outcomes
<1>1. ASSUME NEW s \in Servers, GetBreaker(c, s) PROVE TypeInv'
  <2>1. /\ pc' = [pc EXCEPT ![c] = "allow"]
        /\ todo' = [todo EXCEPT ![c] = @ \ {s}]
        /\ current' = [current EXCEPT ![c] = s]
        /\ breakers' = [breakers EXCEPT ![s] = IF @ = None THEN NewCircuitBreaker(snapshot[c]) ELSE @]
        /\ UNCHANGED <<limits, pending, inFlight, upstream, snapshot, asked, cancelled, resultCh, closed,
                       wpc, attempt, qid, result, streak>>
    BY <1>1 DEF GetBreaker, workerVars
  <2>2. NewCircuitBreaker(snapshot[c]) \in Breakers
    BY <1>0 DEF NewCircuitBreaker, Breakers, States
  <2>3. /\ breakers' \in [Servers -> Breakers \cup {None}]
        /\ breakers'[s] # None
        /\ \A t \in Servers : breakers[t] # None => breakers'[t] # None
    BY <1>0, <2>1, <2>2, UpstreamAssumption
  <2>4. TypeOK'
    BY <2>1, <2>3 DEF TypeInv, TypeOK
  <2>5. todo[c] \subseteq Servers /\ s \in todo[c] /\ \A d \in Calls : todo'[d] \subseteq todo[d]
    BY <1>1, <2>1 DEF GetBreaker, TypeInv, TypeOK
  <2>6. ASSUME NEW d \in Calls, pc'[d] = "allow"
        PROVE  /\ current'[d] \in Servers /\ breakers'[current'[d]] # None
               /\ current'[d] \notin todo'[d] /\ wpc'[d][current'[d]] = "none"
    <3>1. CASE d = c
      BY <2>1, <2>3, <2>5, <3>1 DEF TypeInv, TypeOK, StageInv
    <3>2. CASE d # c
      <4>1. pc[d] = "allow" /\ current'[d] = current[d]
        BY <2>1, <2>6, <3>2 DEF TypeInv, TypeOK
      <4> QED BY <2>1, <2>3, <2>5, <4>1 DEF TypeInv, StageInv
    <3> QED BY <3>1, <3>2
  <2>7. ASSUME NEW d \in Calls, NEW t \in Servers
        PROVE  /\ t \in todo'[d] => wpc'[d][t] = "none"
               /\ wpc'[d][t] \in Asking \cup {"none"} => attempt'[d][t] < Retries
               /\ wpc'[d][t] \in Decided => result'[d][t] # "none"
               /\ wpc'[d][t] # "none" => breakers'[t] # None
    BY <2>1, <2>3, <2>5 DEF TypeInv, StageInv
  <2> QED BY <2>4, <2>6, <2>7 DEF TypeInv, StageInv
<1>2. CASE StartWorker(c)
  <2> DEFINE s == current[c]
  <2>1. /\ pc[c] = "allow" /\ pc' = [pc EXCEPT ![c] = "start"]
        /\ breakers' = [breakers EXCEPT ![s] = Allow(@)]
        /\ wpc' = [wpc EXCEPT ![c][s] = "attempt"]
        /\ current' = [current EXCEPT ![c] = None]
        /\ UNCHANGED <<limits, pending, inFlight, upstream, snapshot, asked, todo, cancelled,
                       resultCh, closed, attempt, qid, result, streak>>
    BY <1>2 DEF StartWorker
  <2>2. /\ s \in Servers /\ breakers[s] \in Breakers /\ Allow(breakers[s]) \in Breakers
        /\ s \notin todo[c] /\ wpc[c][s] = "none" /\ attempt[c][s] < Retries
    BY <1>0, <2>1, BreakerOps, UpstreamAssumption DEF TypeInv, StageInv
  <2> HIDE DEF s
  <2>3. /\ breakers' \in [Servers -> Breakers \cup {None}]
        /\ breakers'[s] # None
        /\ \A t \in Servers : breakers[t] # None => breakers'[t] # None
    BY <1>0, <2>1, <2>2, UpstreamAssumption
  <2>4. Moved(c, s, "attempt", attempt[c][s], qid[c][s], result[c][s])
    BY <2>1, <2>2, StageMoves DEF TypeInv, TypeOK, WorkersOK, WorkerStates, Outcomes
  <2>5. TypeOK'
    BY <2>1, <2>3, <2>4 DEF TypeInv, TypeOK, Moved, WorkersOK, Outcomes
  <2>6. ASSUME NEW d \in Calls, pc'[d] = "allow"
        PROVE  /\ current'[d] \in Servers /\ breakers'[current'[d]] # None
               /\ current'[d] \notin todo'[d] /\ wpc'[d][current'[d]] = "none"
    <3>1. d # c /\ pc[d] = "allow" /\ current'[d] = current[d]
      BY <2>1, <2>6 DEF TypeInv, TypeOK
    <3>2. /\ current[d] \in Servers /\ breakers[current[d]] # None
          /\ current[d] \notin todo[d] /\ wpc[d][current[d]] = "none"
      BY <3>1 DEF TypeInv, StageInv
    <3> QED BY <2>1, <2>3, <2>4, <3>1, <3>2 DEF Moved
  <2>7. ASSUME NEW d \in Calls, NEW t \in Servers
        PROVE  /\ t \in todo'[d] => wpc'[d][t] = "none"
               /\ wpc'[d][t] \in Asking \cup {"none"} => attempt'[d][t] < Retries
               /\ wpc'[d][t] \in Decided => result'[d][t] # "none"
               /\ wpc'[d][t] # "none" => breakers'[t] # None
    <3>1. CASE d = c /\ t = s
      BY <2>1, <2>2, <2>3, <2>4, <3>1 DEF Moved, Decided
    <3>2. CASE d # c \/ t # s
      <4>1. wpc'[d][t] = wpc[d][t] /\ attempt'[d][t] = attempt[d][t] /\ result'[d][t] = result[d][t]
        BY <2>4, <3>2 DEF Moved
      <4>2. /\ t \in todo[d] => wpc[d][t] = "none"
            /\ wpc[d][t] \in Asking \cup {"none"} => attempt[d][t] < Retries
            /\ wpc[d][t] \in Decided => result[d][t] # "none"
            /\ wpc[d][t] # "none" => breakers[t] # None
        BY DEF TypeInv, StageInv
      <4> QED BY <2>1, <2>3, <4>1, <4>2
    <3> QED BY <3>1, <3>2
  <2> QED BY <2>5, <2>6, <2>7 DEF TypeInv, StageInv
<1>3. CASE RefuseServer(c)
  <2>1. /\ pc[c] = "allow" /\ pc' = [pc EXCEPT ![c] = "start"]
        /\ upstream' = [upstream EXCEPT ![current[c]] = "error"]
        /\ resultCh' = [resultCh EXCEPT ![c] = Append(@, "open")]
        /\ current' = [current EXCEPT ![c] = None]
        /\ UNCHANGED <<limits, pending, breakers, inFlight, snapshot, asked, todo, cancelled, closed,
                       wpc, attempt, qid, result, streak>>
    BY <1>3 DEF RefuseServer, workerVars
  <2>2. resultCh' \in [Calls -> Seq(Outcomes)]
    BY <1>0, <2>1 DEF Outcomes, Errors
  <2>3. TypeOK'
    BY <1>0, <2>1, <2>2 DEF TypeInv, TypeOK, Outcomes
  <2>4. StageInv'
    BY <2>1 DEF TypeInv, TypeOK, StageInv
  <2> QED BY <2>3, <2>4 DEF TypeInv
<1>4. CASE FinishStart(c) \/ AllFailed(c)
  <2>1. \E stage \in {"collect", "error"}, done \in BOOLEAN :
           pc' = [pc EXCEPT ![c] = stage] /\ cancelled' = [cancelled EXCEPT ![c] = done]
    BY <1>4 DEF FinishStart, AllFailed, TypeInv, TypeOK
  <2>2. UNCHANGED <<limits, pending, breakers, inFlight, upstream, snapshot, asked, todo, current,
                    resultCh, closed, wpc, attempt, qid, result, streak>>
    BY <1>4 DEF FinishStart, AllFailed, workerVars
  <2>3. TypeOK'
    BY <2>1, <2>2 DEF TypeInv, TypeOK
  <2>4. StageInv'
    BY <2>1, <2>2 DEF TypeInv, TypeOK, StageInv
  <2> QED BY <2>3, <2>4 DEF TypeInv
<1>5. CASE Receive(c)
  <2>1. /\ pc[c] = "collect" /\ resultCh[c] # << >>
        /\ resultCh' = [resultCh EXCEPT ![c] = Tail(@)]
        /\ UNCHANGED <<limits, pending, breakers, inFlight, upstream, snapshot, asked, todo, current,
                       closed, wpc, attempt, qid, result, streak>>
    BY <1>5 DEF Receive, workerVars
  <2>2. \E stage \in {"collect", "answered"}, done \in BOOLEAN :
           pc' = [pc EXCEPT ![c] = stage] /\ cancelled' = [cancelled EXCEPT ![c] = done]
    BY <1>5, <2>1 DEF Receive, TypeInv, TypeOK
  <2>3. resultCh' \in [Calls -> Seq(Outcomes)]
    <3>1. Tail(resultCh[c]) \in Seq(Outcomes)
      BY <1>0, <2>1
    <3> QED BY <1>0, <2>1, <3>1
  <2>4. TypeOK'
    BY <2>1, <2>2, <2>3 DEF TypeInv, TypeOK, Outcomes
  <2>5. StageInv'
    BY <2>1, <2>2 DEF TypeInv, TypeOK, StageInv
  <2> QED BY <2>4, <2>5 DEF TypeInv
<1>6. CASE CloseChannel(c)
  <2>1. /\ closed' = [closed EXCEPT ![c] = TRUE]
        /\ UNCHANGED <<limits, pending, breakers, inFlight, upstream, pc, snapshot, asked, todo, current,
                       cancelled, resultCh, wpc, attempt, qid, result, streak>>
    BY <1>6 DEF CloseChannel, workerVars
  <2>2. TypeOK'
    BY <2>1 DEF TypeInv, TypeOK
  <2>3. StageInv'
    BY <2>1 DEF TypeInv, StageInv
  <2> QED BY <2>2, <2>3 DEF TypeInv
<1> QED BY <1>1, <1>2, <1>3, <1>4, <1>5, <1>6 DEF CallStep

LEMMA BeginKeepsTypes ==
  ASSUME TypeInv, NEW c \in Calls, NEW servers \in SUBSET Servers, Begin(c, servers)
  PROVE  TypeInv'
<1>1. /\ pc' = [pc EXCEPT ![c] = "start"]
      /\ snapshot' = [snapshot EXCEPT ![c] = limits]
      /\ asked' = [asked EXCEPT ![c] = servers]
      /\ todo' = [todo EXCEPT ![c] = servers]
      /\ cancelled' = [cancelled EXCEPT ![c] = FALSE]
      /\ resultCh' = [resultCh EXCEPT ![c] = << >>]
      /\ closed' = [closed EXCEPT ![c] = FALSE]
      /\ wpc' = [wpc EXCEPT ![c] = [s \in Servers |-> "none"]]
      /\ attempt' = [attempt EXCEPT ![c] = [s \in Servers |-> 0]]
      /\ result' = [result EXCEPT ![c] = [s \in Servers |-> "none"]]
      /\ UNCHANGED <<limits, pending, breakers, inFlight, upstream, current, qid, streak>>
  BY DEF Begin
<1>2. /\ [s \in Servers |-> "none"] \in [Servers -> WorkerStates]
      /\ [s \in Servers |-> 0] \in [Servers -> 0 .. Retries]
      /\ [s \in Servers |-> "none"] \in [Servers -> Successes \cup Errors \cup {"none"}]
      /\ << >> \in Seq(Successes \cup Errors)
  BY UpstreamAssumption DEF WorkerStates
<1>3. TypeOK'
  BY <1>1, <1>2 DEF TypeInv, TypeOK, CallStates
<1>4. ASSUME NEW d \in Calls, pc'[d] = "allow"
      PROVE  /\ current'[d] \in Servers /\ breakers'[current'[d]] # None
             /\ current'[d] \notin todo'[d] /\ wpc'[d][current'[d]] = "none"
  <2>1. d # c /\ pc[d] = "allow" /\ todo'[d] = todo[d] /\ wpc'[d] = wpc[d]
    BY <1>1, <1>4 DEF TypeInv, TypeOK
  <2> QED BY <1>1, <2>1 DEF TypeInv, StageInv
<1>5. ASSUME NEW d \in Calls, NEW t \in Servers
      PROVE  /\ t \in todo'[d] => wpc'[d][t] = "none"
             /\ wpc'[d][t] \in Asking \cup {"none"} => attempt'[d][t] < Retries
             /\ wpc'[d][t] \in Decided => result'[d][t] # "none"
             /\ wpc'[d][t] # "none" => breakers'[t] # None
  <2>1. CASE d = c
    <3>1. wpc'[c][t] = "none" /\ attempt'[c][t] = 0
      BY <1>1 DEF TypeInv, TypeOK
    <3> QED BY <2>1, <3>1, UpstreamAssumption DEF Decided
  <2>2. CASE d # c
    <3>1. todo'[d] = todo[d] /\ wpc'[d] = wpc[d] /\ attempt'[d] = attempt[d] /\ result'[d] = result[d]
      BY <1>1, <2>2 DEF TypeInv, TypeOK
    <3> QED BY <1>1, <3>1 DEF TypeInv, StageInv
  <2> QED BY <2>1, <2>2
<1> QED BY <1>3, <1>4, <1>5 DEF TypeInv, StageInv

(* The steps that only touch settings, breakers and the clock.             *)
Elsewhere ==
    \/ \E p \in Posters, t \in Settings : PostSettings(p, t)
    \/ \E p \in Posters : UpdateBreakers(p)
    \/ ListUpstreams
    \/ Tick

LEMMA ElsewhereKeepsTypes ==
  ASSUME TypeInv, Elsewhere
  PROVE  TypeInv'
<1>1. UNCHANGED <<inFlight, upstream, pc, snapshot, asked, todo, current, resultCh, closed, cancelled,
                  wpc, attempt, qid, result, streak>>
  BY DEF Elsewhere, PostSettings, UpdateBreakers, ListUpstreams, Tick, callVars, workerVars
<1>2. /\ limits' \in Thresholds
      /\ pending' \in [Posters -> Thresholds \cup {None}]
  BY UpstreamAssumption
  DEF Elsewhere, PostSettings, UpdateBreakers, ListUpstreams, Tick, TypeInv, TypeOK
<1>3. /\ breakers' \in [Servers -> Breakers \cup {None}]
      /\ \A t \in Servers : breakers[t] # None => breakers'[t] # None
  <2>0. breakers \in [Servers -> Breakers \cup {None}] /\ limits \in Thresholds
    BY DEF TypeInv, TypeOK
  <2>1. CASE \E p \in Posters, t \in Settings : PostSettings(p, t)
    BY <2>0, <2>1 DEF PostSettings
  <2>2. ASSUME NEW p \in Posters, UpdateBreakers(p)
        PROVE  /\ breakers' \in [Servers -> Breakers \cup {None}]
               /\ \A t \in Servers : breakers[t] # None => breakers'[t] # None
    <3>1. pending[p] \in Thresholds
      BY <2>2 DEF UpdateBreakers, TypeInv, TypeOK
    <3>2. \A t \in Servers : breakers[t] # None =>
            UpdateConfig(breakers[t], pending[p]) \in Breakers /\ UpdateConfig(breakers[t], pending[p]) # None
      BY <2>0, <3>1, BreakerOps, UpstreamAssumption
    <3>3. breakers' = [t \in Servers |-> IF breakers[t] = None THEN None
                                         ELSE UpdateConfig(breakers[t], pending[p])]
      BY <2>2 DEF UpdateBreakers
    <3> QED BY <3>2, <3>3
  <2>3. CASE ListUpstreams
    <3>1. NewCircuitBreaker(limits) \in Breakers /\ NewCircuitBreaker(limits) # None
      BY <2>0, UpstreamAssumption DEF NewCircuitBreaker, Breakers, States
    <3>2. breakers' = [t \in Servers |-> IF breakers[t] = None THEN NewCircuitBreaker(limits)
                                         ELSE breakers[t]]
      BY <2>3 DEF ListUpstreams
    <3> QED BY <2>0, <3>1, <3>2
  <2>4. CASE Tick
    <3>1. \A t \in Servers : breakers[t] # None =>
            Age(breakers[t], Horizon) \in Breakers /\ Age(breakers[t], Horizon) # None
      BY <2>0, BreakerOps, UpstreamAssumption
    <3>2. breakers' = [t \in Servers |-> IF breakers[t] = None THEN None ELSE Age(breakers[t], Horizon)]
      BY <2>4 DEF Tick
    <3> QED BY <3>1, <3>2
  <2> QED BY <2>1, <2>2, <2>3, <2>4 DEF Elsewhere
<1>4. TypeOK'
  BY <1>1, <1>2, <1>3 DEF TypeInv, TypeOK
<1>5. StageInv'
  BY <1>1, <1>3 DEF TypeInv, StageInv
<1> QED BY <1>4, <1>5 DEF TypeInv

LEMMA CancelKeepsTypes ==
  ASSUME TypeInv, NEW c \in Calls, CancelParent(c)
  PROVE  TypeInv'
<1>1. /\ cancelled' = [cancelled EXCEPT ![c] = TRUE]
      /\ UNCHANGED <<limits, pending, breakers, inFlight, upstream, pc, snapshot, asked, todo, current,
                     resultCh, closed, wpc, attempt, qid, result, streak>>
  BY DEF CancelParent, callVars, workerVars
<1>2. TypeOK'
  BY <1>1 DEF TypeInv, TypeOK
<1>3. StageInv'
  BY <1>1 DEF TypeInv, StageInv
<1> QED BY <1>2, <1>3 DEF TypeInv

LEMMA NextKeepsTypes == TypeInv /\ [Next]_vars => TypeInv'
<1> SUFFICES ASSUME TypeInv, [Next]_vars PROVE TypeInv'
  OBVIOUS
<1>1. CASE UNCHANGED vars
  <2>1. UNCHANGED <<limits, pending, breakers, inFlight, upstream, pc, snapshot, asked, todo, current,
                    resultCh, closed, cancelled, wpc, attempt, qid, result, streak>>
    BY <1>1 DEF vars, callVars, workerVars
  <2>2. TypeOK'
    BY <2>1 DEF TypeInv, TypeOK
  <2>3. StageInv'
    BY <2>1 DEF TypeInv, StageInv
  <2> QED BY <2>2, <2>3 DEF TypeInv
<1>2. CASE Next
  BY <1>2, BeginKeepsTypes, CallStepKeepsTypes, CancelKeepsTypes, WorkerStepKeepsTypes, ElsewhereKeepsTypes
  DEF Next, Elsewhere
<1> QED BY <1>1, <1>2

(* The resolver's tables, channels and workers keep their types; in        *)
(* particular no worker exceeds Retries attempts and a breaker's method is *)
(* never called on a missing breaker.                                      *)
THEOREM TypeCorrect == Spec => []TypeOK
<1>1. Spec => []TypeInv
  BY InitTypeInv, NextKeepsTypes, PTL DEF Spec
<1>2. TypeInv => TypeOK
  BY DEF TypeInv
<1> QED BY <1>1, <1>2, PTL

-----------------------------------------------------------------------------
(* The ids in flight.                                                      *)
LEMMA SameIdsKeepIds ==
  ASSUME IdInv, UNCHANGED <<qid, inFlight>>,
         \A c \in Calls, s \in Servers : qid[c][s] # None => wpc'[c][s] \in HasId
  PROVE  IdInv'
BY DEF IdInv, UniqueQueryIDs

LEMMA SendKeepsIds ==
  ASSUME TypeInv, IdInv, NEW c \in Calls, NEW s \in Servers, NEW id \in QueryIDs, SendQuery(c, s, id)
  PROVE  IdInv'
<1>1. Moved(c, s, "udp", attempt[c][s], id, result[c][s])
  BY SendQueryMoves DEF TypeInv, TypeOK, WorkersOK, Outcomes
<1>2. wpc[c][s] = "attempt" /\ id \notin inFlight /\ inFlight' = inFlight \cup {id}
  BY DEF SendQuery
<1>3. qid[c][s] = None /\ id # None
  BY <1>2, UpstreamAssumption DEF IdInv, HasId
<1>4. \A d \in Calls, t \in Servers : qid[d][t] # id
  BY <1>2 DEF IdInv, UniqueQueryIDs
<1>5. \A d \in Calls, t \in Servers : qid'[d][t] = IF d = c /\ t = s THEN id ELSE qid[d][t]
  BY <1>1 DEF Moved
<1>6. \A d \in Calls, t \in Servers : qid'[d][t] # None => wpc'[d][t] \in HasId
  BY <1>1, <1>5 DEF Moved, IdInv, HasId
<1>7. ASSUME NEW d \in Calls, NEW e \in Calls, NEW t \in Servers, NEW u \in Servers,
             qid'[d][t] = qid'[e][u], qid'[d][t] # None
      PROVE  d = e /\ t = u
  <2>1. qid[d][t] = qid[e][u] /\ qid[d][t] # None => d = e /\ t = u
    BY DEF IdInv, UniqueQueryIDs
  <2> QED BY <1>4, <1>5, <1>7, <2>1
<1>8. ASSUME NEW j \in QueryIDs
      PROVE  j \in inFlight' <=> \E d \in Calls, t \in Servers : qid'[d][t] = j
  <2>1. j \in inFlight <=> \E d \in Calls, t \in Servers : qid[d][t] = j
    BY DEF IdInv, UniqueQueryIDs
  <2>2. j # None
    BY UpstreamAssumption
  <2> QED BY <1>2, <1>3, <1>5, <2>1, <2>2
<1> QED BY <1>6, <1>7, <1>8 DEF IdInv, UniqueQueryIDs

LEMMA EndKeepsIds ==
  ASSUME TypeInv, IdInv, NEW c \in Calls, NEW s \in Servers, NEW outcome \in Outcomes,
         wpc[c][s] \in Asking, EndAttempt(c, s, outcome)
  PROVE  IdInv'
<1>1. \E w, a : Moved(c, s, w, a, None, outcome)
  BY EndAttemptMoves DEF TypeInv, TypeOK, StageInv, WorkersOK, Outcomes
<1>2. inFlight' = inFlight \ {qid[c][s]}
  BY DEF EndAttempt
<1>3. \A d \in Calls, t \in Servers : qid'[d][t] = IF d = c /\ t = s THEN None ELSE qid[d][t]
  BY <1>1 DEF Moved
<1>4. \A d \in Calls, t \in Servers : qid'[d][t] # None => wpc'[d][t] \in HasId
  <2> SUFFICES ASSUME NEW d \in Calls, NEW t \in Servers, qid'[d][t] # None PROVE wpc'[d][t] \in HasId
    OBVIOUS
  <2>1. d # c \/ t # s
    BY <1>3
  <2>2. wpc'[d][t] = wpc[d][t]
    BY <1>1, <2>1 DEF Moved
  <2> QED BY <1>3, <2>1, <2>2 DEF IdInv
<1>5. ASSUME NEW d \in Calls, NEW e \in Calls, NEW t \in Servers, NEW u \in Servers,
             qid'[d][t] = qid'[e][u], qid'[d][t] # None
      PROVE  d = e /\ t = u
  <2>1. qid[d][t] = qid[e][u] /\ qid[d][t] # None => d = e /\ t = u
    BY DEF IdInv, UniqueQueryIDs
  <2> QED BY <1>3, <1>5, <2>1
<1>6. ASSUME NEW j \in QueryIDs
      PROVE  j \in inFlight' <=> \E d \in Calls, t \in Servers : qid'[d][t] = j
  <2>1. j \in inFlight <=> \E d \in Calls, t \in Servers : qid[d][t] = j
    BY DEF IdInv, UniqueQueryIDs
  <2>2. j # None
    BY UpstreamAssumption
  <2>3. \A d \in Calls, t \in Servers : qid[d][t] = j /\ qid[c][s] = j => d = c /\ t = s
    BY <2>2 DEF IdInv, UniqueQueryIDs
  <2>4. CASE qid[c][s] = j
    BY <1>2, <1>3, <2>2, <2>3, <2>4
  <2>5. CASE qid[c][s] # j
    BY <1>2, <1>3, <2>1, <2>2, <2>5
  <2> QED BY <2>4, <2>5
<1> QED BY <1>4, <1>5, <1>6 DEF IdInv, UniqueQueryIDs

LEMMA WorkerStepKeepsIds ==
  ASSUME TypeInv, IdInv, NEW c \in Calls, NEW s \in Servers, WorkerStep(c, s)
  PROVE  IdInv'
<1>1. CASE \E id \in QueryIDs : SendQuery(c, s, id)
  BY <1>1, SendKeepsIds
<1>2. CASE \/ AttemptFailsLocally(c, s) \/ DialFails(c, s)
           \/ \E outcome \in Successes \cup {"failed"} : FinishUDP(c, s, outcome) \/ FinishTCP(c, s, outcome)
  <2>1. wpc[c][s] \in Asking /\ \E outcome \in Outcomes : EndAttempt(c, s, outcome)
    BY <1>2 DEF AttemptFailsLocally, DialFails, FinishUDP, FinishTCP, Asking, Outcomes, Errors
  <2> QED BY <2>1, EndKeepsIds
<1>3. CASE \/ Truncated(c, s) \/ DialTCP(c, s) \/ BackoffOver(c, s) \/ BackoffCancelled(c, s)
           \/ ReportToBreaker(c, s) \/ ObserveResult(c, s) \/ SendResult(c, s)
  <2>1. UNCHANGED <<qid, inFlight>>
    BY <1>3 DEF Truncated, DialTCP, BackoffOver, BackoffCancelled, ReportToBreaker, ObserveResult,
                SendResult
  <2>2. PICK w \in WorkerStates : /\ wpc' = [wpc EXCEPT ![c][s] = w]
                                  /\ wpc[c][s] \in HasId => w \in HasId
    BY <1>3 DEF Truncated, DialTCP, BackoffOver, BackoffCancelled, ReportToBreaker, ObserveResult,
                SendResult, WorkerStates, HasId
  <2>3. \A d \in Calls, t \in Servers : qid[d][t] # None => wpc'[d][t] \in HasId
    BY <2>2 DEF IdInv, TypeInv, TypeOK
  <2> QED BY <2>1, <2>3, SameIdsKeepIds
<1> QED BY <1>1, <1>2, <1>3 DEF WorkerStep

LEMMA NextKeepsIds == TypeInv /\ IdInv /\ [Next]_vars => IdInv'
<1> SUFFICES ASSUME TypeInv, IdInv, [Next]_vars PROVE IdInv'
  OBVIOUS
<1>1. ASSUME UNCHANGED <<wpc, qid, inFlight>> PROVE IdInv'
  BY <1>1, SameIdsKeepIds DEF IdInv
<1>2. ASSUME NEW c \in Calls, NEW servers \in SUBSET Servers, Begin(c, servers) PROVE IdInv'
  <2>1. /\ UNCHANGED <<qid, inFlight>> /\ Quiescent(c)
        /\ wpc' = [wpc EXCEPT ![c] = [s \in Servers |-> "none"]]
    BY <1>2 DEF Begin
  <2>2. \A d \in Calls, t \in Servers : qid[d][t] # None => wpc'[d][t] \in HasId
    BY <2>1 DEF IdInv, TypeInv, TypeOK, Quiescent, HasId
  <2> QED BY <2>1, <2>2, SameIdsKeepIds
<1>3. ASSUME NEW c \in Calls, StartWorker(c) PROVE IdInv'
  <2>1. /\ UNCHANGED <<qid, inFlight>> /\ pc[c] = "allow"
        /\ wpc' = [wpc EXCEPT ![c][current[c]] = "attempt"]
    BY <1>3 DEF StartWorker
  <2>2. current[c] \in Servers /\ wpc[c][current[c]] = "none"
    BY <2>1 DEF TypeInv, StageInv
  <2>3. \A d \in Calls, t \in Servers : qid[d][t] # None => wpc'[d][t] \in HasId
    BY <2>1, <2>2 DEF IdInv, TypeInv, TypeOK, HasId
  <2> QED BY <2>1, <2>3, SameIdsKeepIds
<1>4. ASSUME NEW c \in Calls,
             \/ \E s \in Servers : GetBreaker(c, s)
             \/ RefuseServer(c) \/ FinishStart(c) \/ Receive(c) \/ CloseChannel(c) \/ AllFailed(c)
             \/ CancelParent(c)
      PROVE  IdInv'
  BY <1>1, <1>4
  DEF GetBreaker, RefuseServer, FinishStart, Receive, CloseChannel, AllFailed, CancelParent, workerVars
<1>5. CASE Elsewhere
  BY <1>1, <1>5 DEF Elsewhere, PostSettings, UpdateBreakers, ListUpstreams, Tick, workerVars
<1>6. CASE UNCHANGED vars
  BY <1>1, <1>6 DEF vars, workerVars
<1> QED BY <1>2, <1>3, <1>4, <1>5, <1>6, WorkerStepKeepsIds DEF Next, CallStep, Elsewhere

(* No two queries in flight share an id and none is leaked, whatever the   *)
(* number of calls, servers and ids: queryOnce releases the id it took on  *)
(* every return.                                                           *)
THEOREM QueryIDsAreUnique == Spec => []UniqueQueryIDs
<1>1. Init => IdInv
  BY UpstreamAssumption DEF Init, IdInv, UniqueQueryIDs
<1>2. Spec => [](TypeInv /\ IdInv)
  BY <1>1, InitTypeInv, NextKeepsTypes, NextKeepsIds, PTL DEF Spec
<1>3. IdInv => UniqueQueryIDs
  BY DEF IdInv
<1> QED BY <1>2, <1>3, PTL

-----------------------------------------------------------------------------
LEMMA SpentIsFinite ==
  ASSUME TypeOK, NEW c \in Calls
  PROVE  /\ IsFiniteSet(asked[c]) /\ IsFiniteSet(Spent(c))
         /\ Spent(c) \subseteq asked[c]
         /\ Cardinality(Spent(c)) \in Nat
<1>1. asked[c] \subseteq Servers /\ Spent(c) \subseteq asked[c]
  BY DEF TypeOK, Spent
<1>2. IsFiniteSet(asked[c]) /\ IsFiniteSet(Spent(c))
  BY <1>1, UpstreamAssumption, FS_Subset
<1> QED BY <1>1, <1>2, FS_CardinalityType

(* A step that leaves a call's own state alone.                            *)
LEMMA SameCall ==
  ASSUME NEW d \in Calls, CallInv(d), pc'[d] = pc[d], asked'[d] = asked[d], todo'[d] = todo[d],
         current'[d] = current[d], closed'[d] = closed[d], resultCh'[d] = resultCh[d],
         wpc'[d] = wpc[d], result'[d] = result[d]
  PROVE  CallInv(d)'
<1>1. Spent(d)' = Spent(d)
  BY DEF Spent
<1>2. Quiescent(d)' <=> Quiescent(d)
  BY DEF Quiescent
<1> QED BY <1>1, <1>2 DEF CallInv

(* A worker that was busy and stays busy.                                  *)
LEMMA BusyWorkerKeepsCall ==
  ASSUME NEW c \in Calls, NEW s \in Servers, NEW w, NEW a, NEW i, NEW r,
         Moved(c, s, w, a, i, r), CallInv(c), TypeInv,
         wpc[c][s] \notin {"none", "exit"}, w \notin {"none", "exit"},
         UNCHANGED <<pc, asked, todo, current, closed, resultCh>>
  PROVE  CallInv(c)'
<1>1. \A t \in Servers : t # s => wpc'[c][t] = wpc[c][t] /\ result'[c][t] = result[c][t]
  BY DEF Moved
<1>2. wpc'[c][s] = w
  BY DEF Moved
<1>3. ~Quiescent(c) /\ ~closed[c] /\ pc[c] # "error"
  BY DEF Quiescent, CallInv
<1>4. asked[c] \subseteq Servers
  BY DEF TypeInv, TypeOK
<1>5. Spent(c)' = Spent(c)
  BY <1>1, <1>2, <1>4 DEF Spent
<1>6. ~closed'[c] /\ pc'[c] # "error"
  BY <1>3
<1>7. /\ todo'[c] \subseteq asked'[c]
      /\ pc'[c] = "allow" => current'[c] \in asked'[c]
      /\ Len(resultCh'[c]) <= Cardinality(Spent(c)')
  BY <1>5 DEF CallInv
<1>8. /\ \A t \in Servers : wpc'[c][t] # "none" => t \in asked'[c]
      /\ \A t \in Servers : wpc'[c][t] = "none" => result'[c][t] \notin Successes
  BY <1>1, <1>2 DEF CallInv
<1>9. pc'[c] \in {"start", "allow", "collect"} =>
        \A t \in Servers : wpc'[c][t] = "exit" /\ result'[c][t] \in Successes =>
            \E j \in 1 .. Len(resultCh'[c]) : resultCh'[c][j] \in Successes
  BY <1>1, <1>2 DEF CallInv
<1> QED BY <1>6, <1>7, <1>8, <1>9 DEF CallInv

LEMMA SendKeepsCall ==
  ASSUME TypeInv, NEW c \in Calls, NEW s \in Servers, CallInv(c), SendResult(c, s)
  PROVE  CallInv(c)'
<1>1. /\ wpc[c][s] = "send" /\ wpc' = [wpc EXCEPT ![c][s] = "exit"]
      /\ resultCh' = [resultCh EXCEPT ![c] = Append(@, result[c][s])]
      /\ UNCHANGED <<pc, asked, todo, current, closed, attempt, qid, result>>
  BY DEF SendResult
<1>2. /\ wpc'[c][s] = "exit" /\ \A t \in Servers : t # s => wpc'[c][t] = wpc[c][t]
      /\ asked[c] \subseteq Servers /\ resultCh[c] \in Seq(Outcomes) /\ result[c][s] \in Outcomes
      /\ resultCh'[c] = Append(resultCh[c], result[c][s])
  BY <1>1 DEF TypeInv, TypeOK, StageInv, Outcomes, Decided
<1>3. ~Quiescent(c) /\ ~closed[c] /\ pc[c] # "error" /\ s \in asked[c] /\ s \notin todo[c]
  BY <1>1 DEF Quiescent, CallInv, TypeInv, StageInv
<1>4. ~(pc[c] = "allow" /\ current[c] = s)
  BY <1>1 DEF TypeInv, StageInv
<1>5. s \notin Spent(c) /\ Spent(c)' = Spent(c) \cup {s}
  BY <1>1, <1>2, <1>3, <1>4 DEF Spent
<1>6. Cardinality(Spent(c)') = Cardinality(Spent(c)) + 1 /\ Cardinality(Spent(c)) \in Nat
  BY <1>5, SpentIsFinite, FS_AddElement DEF TypeInv
<1>7. Len(resultCh'[c]) = Len(resultCh[c]) + 1 /\ Len(resultCh[c]) \in Nat
  BY <1>2
<1>8. Len(resultCh'[c]) <= Cardinality(Spent(c)')
  BY <1>6, <1>7 DEF CallInv
<1>9. pc'[c] \in {"start", "allow", "collect"} =>
        \A t \in Servers : wpc'[c][t] = "exit" /\ result'[c][t] \in Successes =>
            \E j \in 1 .. Len(resultCh'[c]) : resultCh'[c][j] \in Successes
  <2> SUFFICES ASSUME pc[c] \in {"start", "allow", "collect"}, NEW t \in Servers, wpc'[c][t] = "exit",
                      result[c][t] \in Successes
               PROVE  \E j \in 1 .. Len(resultCh'[c]) : resultCh'[c][j] \in Successes
    BY <1>1
  <2>1. CASE t = s
    <3>1. resultCh'[c][Len(resultCh[c]) + 1] = result[c][s]
      BY <1>2
    <3> QED BY <1>7, <2>1, <3>1
  <2>2. CASE t # s
    <3>1. PICK j \in 1 .. Len(resultCh[c]) : resultCh[c][j] \in Successes
      BY <1>2, <2>2 DEF CallInv
    <3>2. resultCh'[c][j] = resultCh[c][j] /\ j \in 1 .. Len(resultCh'[c])
      BY <1>2, <1>7
    <3> QED BY <3>1, <3>2
  <2> QED BY <2>1, <2>2
<1>10. /\ todo'[c] \subseteq asked'[c]
       /\ pc'[c] = "allow" => current'[c] \in asked'[c]
       /\ \A t \in Servers : wpc'[c][t] # "none" => t \in asked'[c]
       /\ \A t \in Servers : wpc'[c][t] = "none" => result'[c][t] \notin Successes
  BY <1>1, <1>2, <1>3 DEF CallInv
<1> QED BY <1>1, <1>3, <1>8, <1>9, <1>10 DEF CallInv

LEMMA WorkerStepKeepsRace ==
  ASSUME TypeInv, RaceInv, NEW c \in Calls, NEW s \in Servers, WorkerStep(c, s)
  PROVE  RaceInv'
<1>0. CallInv(c) /\ WorkersOK
  BY DEF RaceInv, TypeInv, TypeOK, WorkersOK, Outcomes
<1>1. \A d \in Calls \ {c} : CallInv(d)'
  <2> SUFFICES ASSUME NEW d \in Calls, d # c PROVE CallInv(d)'
    OBVIOUS
  <2>1. /\ UNCHANGED <<pc, asked, todo, current, closed>>
        /\ resultCh'[d] = resultCh[d] /\ wpc'[d] = wpc[d] /\ result'[d] = result[d]
    BY DEF WorkerStep, SendQuery, AttemptFailsLocally, FinishUDP, Truncated, DialTCP, DialFails, FinishTCP,
           BackoffOver, BackoffCancelled, ReportToBreaker, ObserveResult, SendResult, EndAttempt, callVars,
           TypeInv, TypeOK
  <2> QED BY <2>1, SameCall DEF RaceInv
<1>2. CallInv(c)'
  <2>1. ASSUME NEW id \in QueryIDs, SendQuery(c, s, id) PROVE CallInv(c)'
    <3>1. wpc[c][s] = "attempt" /\ UNCHANGED <<pc, asked, todo, current, closed, resultCh>>
      BY <2>1 DEF SendQuery, callVars
    <3> QED BY <1>0, <2>1, <3>1, SendQueryMoves, BusyWorkerKeepsCall
  <2>2. CASE \/ AttemptFailsLocally(c, s) \/ DialFails(c, s)
             \/ \E outcome \in Successes \cup {"failed"} : FinishUDP(c, s, outcome) \/ FinishTCP(c, s, outcome)
    <3>1. wpc[c][s] \in Asking /\ \E outcome \in Outcomes : EndAttempt(c, s, outcome)
      BY <2>2 DEF AttemptFailsLocally, DialFails, FinishUDP, FinishTCP, Asking, Outcomes, Errors
    <3>2. PICK outcome \in Outcomes : EndAttempt(c, s, outcome)
      BY <3>1
    <3>3. attempt[c][s] < Retries
      BY <3>1 DEF TypeInv, StageInv
    <3>4. PICK w, a : w \in {"report", "backoff"} /\ Moved(c, s, w, a, None, outcome)
      BY <1>0, <3>2, <3>3, EndAttemptMoves
    <3>5. UNCHANGED <<pc, asked, todo, current, closed, resultCh>>
      BY <3>2 DEF EndAttempt, callVars
    <3> QED BY <1>0, <3>1, <3>4, <3>5, BusyWorkerKeepsCall DEF Asking
  <2>3. CASE \/ Truncated(c, s) \/ DialTCP(c, s) \/ BackoffOver(c, s) \/ ReportToBreaker(c, s)
             \/ ObserveResult(c, s)
    <3>1. PICK w \in WorkerStates \ {"none", "exit"} : wpc' = [wpc EXCEPT ![c][s] = w]
      BY <2>3 DEF Truncated, DialTCP, BackoffOver, ReportToBreaker, ObserveResult, WorkerStates
    <3>2. /\ wpc[c][s] \notin {"none", "exit"}
          /\ UNCHANGED <<pc, asked, todo, current, closed, resultCh, attempt, qid, result>>
      BY <2>3 DEF Truncated, DialTCP, BackoffOver, ReportToBreaker, ObserveResult, callVars
    <3> QED BY <1>0, <3>1, <3>2, StageMoves, BusyWorkerKeepsCall
  <2>4. CASE BackoffCancelled(c, s)
    <3>1. wpc[c][s] = "backoff" /\ UNCHANGED <<pc, asked, todo, current, closed, resultCh>>
      BY <2>4 DEF BackoffCancelled, callVars
    <3> QED BY <1>0, <2>4, <3>1, BackoffCancelledMoves, BusyWorkerKeepsCall
  <2>5. CASE SendResult(c, s)
    BY <1>0, <2>5, SendKeepsCall
  <2> QED BY <2>1, <2>2, <2>3, <2>4, <2>5 DEF WorkerStep
<1> QED BY <1>1, <1>2 DEF RaceInv

LEMMA BeginKeepsCall ==
  ASSUME TypeInv, NEW c \in Calls, NEW servers \in SUBSET Servers, Begin(c, servers)
  PROVE  CallInv(c)'
<1>1. /\ pc'[c] = "start" /\ asked'[c] = servers /\ todo'[c] = servers /\ resultCh'[c] = << >>
      /\ closed'[c] = FALSE
      /\ \A s \in Servers : wpc'[c][s] = "none" /\ result'[c][s] = "none"
  BY DEF Begin, TypeInv, TypeOK
<1>2. Cardinality(Spent(c)') \in Nat
  <2>1. Spent(c)' \subseteq Servers
    BY <1>1 DEF Spent
  <2> QED BY <2>1, UpstreamAssumption, FS_Subset, FS_CardinalityType
<1> QED BY <1>1, <1>2 DEF CallInv, Successes

LEMMA GetBreakerKeepsCall ==
  ASSUME TypeInv, NEW c \in Calls, NEW s \in Servers, CallInv(c), GetBreaker(c, s)
  PROVE  CallInv(c)'
<1>1. /\ pc[c] = "start" /\ s \in todo[c] /\ pc'[c] = "allow" /\ todo'[c] = todo[c] \ {s} /\ current'[c] = s
      /\ UNCHANGED <<asked, resultCh, closed, wpc, result>>
  BY DEF GetBreaker, workerVars, TypeInv, TypeOK
<1>2. Spent(c)' = Spent(c)
  BY <1>1 DEF Spent
<1> QED BY <1>1, <1>2 DEF CallInv

LEMMA StartWorkerKeepsCall ==
  ASSUME TypeInv, NEW c \in Calls, CallInv(c), StartWorker(c)
  PROVE  CallInv(c)'
<1> DEFINE s == current[c]
<1>1. /\ pc[c] = "allow" /\ pc'[c] = "start" /\ wpc' = [wpc EXCEPT ![c][s] = "attempt"] /\ current'[c] = None
      /\ UNCHANGED <<asked, todo, resultCh, closed, result>>
  BY DEF StartWorker, TypeInv, TypeOK
<1>2. s \in Servers /\ s \in asked[c] /\ s \notin todo[c] /\ asked[c] \subseteq Servers
  BY <1>1 DEF TypeInv, TypeOK, StageInv, CallInv
<1> HIDE DEF s
<1>3. wpc'[c][s] = "attempt" /\ \A t \in Servers : t # s => wpc'[c][t] = wpc[c][t]
  BY <1>1, <1>2 DEF TypeInv, TypeOK
<1>4. Spent(c)' = Spent(c)
  BY <1>1, <1>2, <1>3 DEF Spent, s
<1>5. ~closed[c]
  BY <1>1 DEF CallInv
<1>6. \A t \in Servers : wpc'[c][t] = "exit" => wpc[c][t] = "exit"
  BY <1>3
<1>7. \A t \in Servers : wpc'[c][t] = "none" => wpc[c][t] = "none"
  BY <1>3
<1>8. \A t \in Servers : wpc'[c][t] # "none" => t \in asked[c]
  BY <1>2, <1>3 DEF CallInv
<1> QED BY <1>1, <1>4, <1>5, <1>6, <1>7, <1>8 DEF CallInv

LEMMA RefuseServerKeepsCall ==
  ASSUME TypeInv, NEW c \in Calls, CallInv(c), RefuseServer(c)
  PROVE  CallInv(c)'
<1> DEFINE s == current[c]
<1>1. /\ pc[c] = "allow" /\ pc'[c] = "start" /\ resultCh'[c] = Append(resultCh[c], "open")
      /\ current'[c] = None
      /\ UNCHANGED <<asked, todo, closed, wpc, result>>
  BY DEF RefuseServer, workerVars, TypeInv, TypeOK
<1>2. s \in asked[c] /\ s \notin todo[c] /\ wpc[c][s] = "none" /\ ~closed[c]
  BY <1>1 DEF TypeInv, StageInv, CallInv
<1>3. s \notin Spent(c) /\ Spent(c)' = Spent(c) \cup {s}
  BY <1>1, <1>2 DEF Spent
<1> HIDE DEF s
<1>4. Cardinality(Spent(c)') = Cardinality(Spent(c)) + 1 /\ Cardinality(Spent(c)) \in Nat
  BY <1>3, SpentIsFinite, FS_AddElement DEF TypeInv
<1>5. resultCh[c] \in Seq(Outcomes) /\ "open" \in Outcomes
  BY DEF TypeInv, TypeOK, Outcomes, Errors
<1>6. /\ Len(resultCh[c]) \in Nat /\ Len(resultCh'[c]) = Len(resultCh[c]) + 1
      /\ \A j \in 1 .. Len(resultCh[c]) : resultCh'[c][j] = resultCh[c][j]
  BY <1>1, <1>5
<1>7. Len(resultCh'[c]) <= Cardinality(Spent(c)')
  BY <1>4, <1>6 DEF CallInv
<1>8. (\E j \in 1 .. Len(resultCh[c]) : resultCh[c][j] \in Successes)
         => \E j \in 1 .. Len(resultCh'[c]) : resultCh'[c][j] \in Successes
  BY <1>6
<1> QED BY <1>1, <1>2, <1>7, <1>8 DEF CallInv

LEMMA FinishStartKeepsCall ==
  ASSUME TypeInv, NEW c \in Calls, CallInv(c), FinishStart(c)
  PROVE  CallInv(c)'
<1>1. /\ pc[c] = "start" /\ pc'[c] = (IF Started(c) THEN "collect" ELSE "error")
      /\ UNCHANGED <<asked, todo, current, resultCh, closed, wpc, result>>
  BY DEF FinishStart, workerVars, TypeInv, TypeOK
<1>2. Spent(c)' = Spent(c)
  BY <1>1 DEF Spent
<1>3. ~closed[c]
  BY <1>1 DEF CallInv
<1>4. pc'[c] = "error" => Quiescent(c)' /\ \A s \in Servers : result'[c][s] \notin Successes
  BY <1>1 DEF Started, Quiescent, CallInv
<1> QED BY <1>1, <1>2, <1>3, <1>4 DEF CallInv

LEMMA ReceiveKeepsCall ==
  ASSUME TypeInv, NEW c \in Calls, CallInv(c), Receive(c)
  PROVE  CallInv(c)'
<1> DEFINE ch == resultCh[c]
<1>1. /\ pc[c] = "collect" /\ ch # << >> /\ ch \in Seq(Outcomes)
      /\ resultCh'[c] = Tail(ch)
      /\ pc'[c] = (IF Head(ch) \in Successes THEN "answered" ELSE "collect")
      /\ UNCHANGED <<asked, todo, current, closed, wpc, result>>
  BY DEF Receive, workerVars, TypeInv, TypeOK, Outcomes
<1>2. Spent(c)' = Spent(c) /\ (Quiescent(c)' <=> Quiescent(c))
  BY <1>1 DEF Spent, Quiescent
<1>3. Cardinality(Spent(c)) \in Nat /\ Len(ch) <= Cardinality(Spent(c))
  BY SpentIsFinite DEF CallInv, TypeInv
<1> HIDE DEF ch
<1>4. /\ Len(ch) \in Nat \ {0} /\ Len(Tail(ch)) = Len(ch) - 1 /\ Head(ch) = ch[1]
      /\ \A j \in 1 .. Len(Tail(ch)) : Tail(ch)[j] = ch[j + 1]
  BY <1>1, EmptySeq
<1>5. Len(resultCh'[c]) <= Cardinality(Spent(c)')
  BY <1>1, <1>2, <1>3, <1>4
<1>6. ASSUME pc'[c] = "collect", NEW s \in Servers, wpc[c][s] = "exit", result[c][s] \in Successes
      PROVE  \E j \in 1 .. Len(resultCh'[c]) : resultCh'[c][j] \in Successes
  <2>1. PICK j \in 1 .. Len(ch) : ch[j] \in Successes
    BY <1>1, <1>6 DEF CallInv, ch
  <2>2. j # 1
    BY <1>1, <1>4, <1>6, <2>1
  <2>3. j - 1 \in 1 .. Len(Tail(ch)) /\ Tail(ch)[j - 1] = ch[j]
    BY <1>4, <2>1, <2>2
  <2> QED BY <1>1, <2>1, <2>3
<1>7. pc'[c] \in {"start", "allow", "collect"} =>
        \A s \in Servers : wpc'[c][s] = "exit" /\ result'[c][s] \in Successes =>
            \E j \in 1 .. Len(resultCh'[c]) : resultCh'[c][j] \in Successes
  BY <1>1, <1>6
<1> QED BY <1>1, <1>2, <1>5, <1>7 DEF CallInv

LEMMA CloseChannelKeepsCall ==
  ASSUME TypeInv, NEW c \in Calls, CallInv(c), CloseChannel(c)
  PROVE  CallInv(c)'
<1>1. /\ pc[c] \in {"collect", "answered"} /\ Quiescent(c)
      /\ UNCHANGED <<pc, asked, todo, current, resultCh, wpc, result>>
  BY DEF CloseChannel, workerVars
<1>2. Spent(c)' = Spent(c) /\ Quiescent(c)'
  BY <1>1 DEF Spent, Quiescent
<1> QED BY <1>1, <1>2 DEF CallInv

LEMMA AllFailedKeepsCall ==
  ASSUME TypeInv, NEW c \in Calls, CallInv(c), AllFailed(c)
  PROVE  CallInv(c)'
<1>1. /\ pc[c] = "collect" /\ closed[c] /\ resultCh[c] = << >> /\ pc'[c] = "error"
      /\ UNCHANGED <<asked, todo, current, resultCh, closed, wpc, result>>
  BY DEF AllFailed, workerVars, TypeInv, TypeOK
<1>2. Spent(c)' = Spent(c) /\ (Quiescent(c)' <=> Quiescent(c))
  BY <1>1 DEF Spent, Quiescent
<1>3. Quiescent(c) /\ Len(resultCh[c]) = 0
  BY <1>1 DEF CallInv
<1>4. \A s \in Servers : result[c][s] \notin Successes
  BY <1>1, <1>3 DEF CallInv, Quiescent
<1> QED BY <1>1, <1>2, <1>3, <1>4 DEF CallInv

LEMMA CallStepKeepsRace ==
  ASSUME TypeInv, RaceInv, NEW c \in Calls, CallStep(c)
  PROVE  RaceInv'
<1>1. CallInv(c)'
  <2>1. CallInv(c)
    BY DEF RaceInv
  <2> QED BY <2>1, GetBreakerKeepsCall, StartWorkerKeepsCall, RefuseServerKeepsCall, FinishStartKeepsCall,
             ReceiveKeepsCall, CloseChannelKeepsCall, AllFailedKeepsCall DEF CallStep
<1>2. ASSUME NEW d \in Calls, d # c PROVE CallInv(d)'
  <2>1. /\ pc'[d] = pc[d] /\ asked'[d] = asked[d] /\ todo'[d] = todo[d] /\ current'[d] = current[d]
        /\ closed'[d] = closed[d] /\ resultCh'[d] = resultCh[d] /\ wpc'[d] = wpc[d] /\ result'[d] = result[d]
    BY <1>2 DEF CallStep, GetBreaker, StartWorker, RefuseServer, FinishStart, Receive, CloseChannel,
                AllFailed, workerVars, TypeInv, TypeOK
  <2> QED BY <2>1, SameCall DEF RaceInv
<1> QED BY <1>1, <1>2 DEF RaceInv

LEMMA NextKeepsRace == TypeInv /\ RaceInv /\ [Next]_vars => RaceInv'
<1> SUFFICES ASSUME TypeInv, RaceInv, [Next]_vars PROVE RaceInv'
  OBVIOUS
<1>1. ASSUME UNCHANGED <<pc, asked, todo, current, closed, resultCh, wpc, result>> PROVE RaceInv'
  BY <1>1, SameCall DEF RaceInv
<1>2. ASSUME NEW c \in Calls, NEW servers \in SUBSET Servers, Begin(c, servers) PROVE RaceInv'
  <2>1. CallInv(c)'
    BY <1>2, BeginKeepsCall
  <2>2. ASSUME NEW d \in Calls, d # c PROVE CallInv(d)'
    <3>1. /\ pc'[d] = pc[d] /\ asked'[d] = asked[d] /\ todo'[d] = todo[d] /\ current'[d] = current[d]
          /\ closed'[d] = closed[d] /\ resultCh'[d] = resultCh[d] /\ wpc'[d] = wpc[d] /\ result'[d] = result[d]
      BY <1>2, <2>2 DEF Begin, TypeInv, TypeOK
    <3> QED BY <3>1, SameCall DEF RaceInv
  <2> QED BY <2>1, <2>2 DEF RaceInv
<1>3. CASE Elsewhere \/ (\E c \in Calls : CancelParent(c)) \/ UNCHANGED vars
  BY <1>1, <1>3
  DEF Elsewhere, PostSettings, UpdateBreakers, ListUpstreams, Tick, CancelParent, vars, callVars, workerVars
<1> QED BY <1>2, <1>3, CallStepKeepsRace, WorkerStepKeepsRace DEF Next, Elsewhere

LEMMA InitRaceInv == Init => RaceInv
<1> SUFFICES ASSUME Init, NEW c \in Calls PROVE CallInv(c)
  BY DEF RaceInv
<1>1. /\ pc[c] = "idle" /\ asked[c] = {} /\ todo[c] = {} /\ resultCh[c] = << >> /\ closed[c] = FALSE
      /\ \A s \in Servers : wpc[c][s] = "none" /\ result[c][s] = "none"
  BY DEF Init
<1>2. Cardinality(Spent(c)) \in Nat
  BY InitTypeInv, SpentIsFinite DEF TypeInv
<1> QED BY <1>1, <1>2 DEF CallInv, Successes

LEMMA RaceInvariant == Spec => [](TypeInv /\ RaceInv)
BY InitTypeInv, NextKeepsTypes, InitRaceInv, NextKeepsRace, PTL DEF Spec

(* queryFastest returns an error only when none of its workers has a       *)
(* success: no reply is lost between worker, closer and collector.         *)
THEOREM ErrorOnlyWithoutReply == Spec => []ErrorMeansNoReply
<1>1. RaceInv => ErrorMeansNoReply
  BY DEF RaceInv, CallInv, ErrorMeansNoReply, Quiescent
<1> QED BY <1>1, RaceInvariant, PTL

(* The channel made with one slot per server is open and has a free slot   *)
(* whenever a worker sends, so that no worker leaks when the collector has *)
(* left with the first success.                                            *)
THEOREM SendsNeverBlock == Spec => []SendNeverBlocks
<1>1. TypeInv /\ RaceInv => SendNeverBlocks
  <2> SUFFICES ASSUME TypeInv, RaceInv, NEW c \in Calls, NEW s \in Servers, wpc[c][s] = "send"
               PROVE  ~closed[c] /\ Len(resultCh[c]) < Capacity(c)
    BY DEF SendNeverBlocks
  <2>1. CallInv(c)
    BY DEF RaceInv
  <2>2. ~closed[c] /\ s \in asked[c] /\ s \notin Spent(c)
    BY <2>1 DEF CallInv, Quiescent, Spent
  <2>3. /\ IsFiniteSet(asked[c]) /\ IsFiniteSet(Spent(c)) /\ Spent(c) \subseteq asked[c]
        /\ Spent(c) # asked[c]
    BY <2>2, SpentIsFinite DEF TypeInv
  <2>4. /\ Cardinality(Spent(c)) \in Nat /\ Cardinality(asked[c]) \in Nat
        /\ Cardinality(Spent(c)) < Cardinality(asked[c])
    BY <2>3, FS_Subset, FS_CardinalityType
  <2>5. Len(resultCh[c]) <= Cardinality(Spent(c)) /\ Len(resultCh[c]) \in Nat
    BY <2>1 DEF CallInv, TypeInv, TypeOK
  <2> QED BY <2>2, <2>4, <2>5 DEF Capacity
<1> QED BY <1>1, RaceInvariant, PTL

-----------------------------------------------------------------------------
(* The breakers.                                                           *)
LEMMA KnownLimits ==
  ASSUME NEW t \in Known
  PROVE  /\ t \in Thresholds
         /\ t.failureThreshold \in Nat \ {0} /\ t.failureThreshold <= StreakCap
         /\ t.successThreshold \in Nat \ {0} /\ t.successThreshold <= StreakCap
         /\ StreakCap \in Nat \ {0}
BY UpstreamAssumption DEF Known, Thresholds

LEMMA SuccessKeepsBreaker ==
  ASSUME NEW b \in Breakers, NEW n \in -StreakCap .. StreakCap, BreakerOK(b, n)
  PROVE  /\ BreakerOK(OnSuccess(b), Extend(n, TRUE))
         /\ b.state = "closed" => OnSuccess(b).state # "open"
         /\ b.state = "half_open" /\ OnSuccess(b).state = "closed"
                => Extend(n, TRUE) >= b.limits.successThreshold
<1> DEFINE a == OnSuccess(b)  m == Extend(n, TRUE)
<1>1. /\ b.limits \in Known /\ b.failures \in Nat /\ b.successes \in Nat
      /\ b.state \in {"closed", "open", "half_open"}
      /\ b.limits.successThreshold \in Nat \ {0} /\ b.limits.successThreshold <= StreakCap
      /\ StreakCap \in Nat \ {0}
  BY KnownLimits DEF BreakerOK, Breakers, States
<1>2. m \in Int /\ m = IF n < 0 THEN 1 ELSE IF n < StreakCap THEN n + 1 ELSE n
  BY <1>1 DEF Extend
<1>3. a \in Breakers /\ a.limits = b.limits
  BY OnSuccessByState
<1> HIDE DEF m
<1>4. CASE b.state = "closed"
  <2>1. a.state = "closed" /\ a.failures = 0
    BY <1>4, OnSuccessByState
  <2> HIDE DEF a
  <2>2. BreakerOK(a, m)
    BY <1>1, <1>3, <2>1 DEF BreakerOK
  <2> QED BY <1>4, <2>1, <2>2 DEF a, m
<1>5. CASE b.state = "half_open"
  <2>0. b.successes < StreakCap /\ (b.successes > 0 => b.successes <= n)
    BY <1>5 DEF BreakerOK
  <2>1. IF b.successes + 1 >= b.limits.successThreshold
        THEN a.state = "closed" /\ a.failures = 0
        ELSE a.state = "half_open" /\ a.successes = b.successes + 1
    BY <1>5, OnSuccessByState
  <2> HIDE DEF a
  <2>2. b.successes + 1 <= m \/ m = StreakCap
    BY <1>1, <1>2, <2>0
  <2>3. CASE b.successes + 1 >= b.limits.successThreshold
    <3>1. BreakerOK(a, m)
      BY <1>1, <1>3, <2>1, <2>3 DEF BreakerOK
    <3>2. m >= b.limits.successThreshold
      BY <1>1, <1>2, <2>2, <2>3
    <3> QED BY <1>5, <3>1, <3>2 DEF a, m
  <2>4. CASE ~(b.successes + 1 >= b.limits.successThreshold)
    <3>1. a.state = "half_open" /\ a.successes = b.successes + 1
      BY <2>1, <2>4
    <3>2. a.successes < StreakCap /\ a.successes <= m
      BY <1>1, <1>2, <2>0, <2>2, <2>4, <3>1
    <3>3. BreakerOK(a, m)
      BY <1>1, <1>3, <3>1, <3>2 DEF BreakerOK
    <3> QED BY <1>5, <3>1, <3>3 DEF a, m
  <2> QED BY <2>3, <2>4
<1>6. CASE b.state = "open"
  <2>1. a.state = "open"
    BY <1>6, OnSuccessByState
  <2> HIDE DEF a
  <2>2. BreakerOK(a, m)
    BY <1>1, <1>3, <2>1 DEF BreakerOK
  <2> QED BY <1>6, <2>1, <2>2 DEF a, m
<1> QED BY <1>1, <1>4, <1>5, <1>6

LEMMA FailureKeepsBreaker ==
  ASSUME NEW b \in Breakers, NEW n \in -StreakCap .. StreakCap, BreakerOK(b, n)
  PROVE  /\ BreakerOK(OnFailure(b), Extend(n, FALSE))
         /\ b.state # "closed" => OnFailure(b).state = "open"
         /\ b.state = "closed" /\ OnFailure(b).state = "open"
                => -Extend(n, FALSE) >= b.limits.failureThreshold
<1> DEFINE a == OnFailure(b)  m == Extend(n, FALSE)
<1>1. /\ b.limits \in Known /\ b.failures \in Nat /\ b.successes \in Nat
      /\ b.limits.failureThreshold \in Nat \ {0} /\ b.limits.failureThreshold <= StreakCap
      /\ StreakCap \in Nat \ {0}
  BY KnownLimits DEF BreakerOK, Breakers
<1>2. m \in Int /\ m = IF n > 0 THEN -1 ELSE IF n > -StreakCap THEN n - 1 ELSE n
  BY <1>1 DEF Extend
<1>3. a \in Breakers /\ a.limits = b.limits
  BY OnFailureByState
<1> HIDE DEF m
<1>4. CASE b.state # "closed"
  <2>1. a.state = "open"
    BY <1>4, OnFailureByState
  <2> HIDE DEF a
  <2>2. BreakerOK(a, m)
    BY <1>1, <1>3, <2>1 DEF BreakerOK
  <2> QED BY <1>4, <2>1, <2>2 DEF a, m
<1>5. CASE b.state = "closed"
  <2>0. b.failures < StreakCap /\ (b.failures > 0 => b.failures <= -n)
    BY <1>5 DEF BreakerOK
  <2>1. IF b.failures + 1 >= b.limits.failureThreshold
        THEN a.state = "open"
        ELSE a.state = "closed" /\ a.failures = b.failures + 1
    BY <1>5, OnFailureByState
  <2> HIDE DEF a
  <2>2. b.failures + 1 <= -m \/ m = -StreakCap
    BY <1>1, <1>2, <2>0
  <2>3. CASE b.failures + 1 >= b.limits.failureThreshold
    <3>1. BreakerOK(a, m)
      BY <1>1, <1>3, <2>1, <2>3 DEF BreakerOK
    <3>2. -m >= b.limits.failureThreshold
      BY <1>1, <1>2, <2>2, <2>3
    <3> QED BY <1>5, <3>1, <3>2 DEF a, m
  <2>4. CASE ~(b.failures + 1 >= b.limits.failureThreshold)
    <3>1. a.state = "closed" /\ a.failures = b.failures + 1
      BY <2>1, <2>4
    <3>2. a.failures < StreakCap /\ a.failures <= -m
      BY <1>1, <1>2, <2>0, <2>2, <2>4, <3>1
    <3>3. BreakerOK(a, m)
      BY <1>1, <1>3, <3>1, <3>2 DEF BreakerOK
    <3> QED BY <1>5, <3>1, <3>3 DEF a, m
  <2> QED BY <2>3, <2>4
<1> QED BY <1>4, <1>5

(* What a step may do to the breaker of server s.                          *)
BreakerStep(s) ==
    /\ breakers'[s] # None => BreakerOK(breakers'[s], streak'[s])
    /\ (breakers[s] # None /\ breakers[s].state = "closed" /\ breakers'[s].state = "open")
           => -streak'[s] >= breakers[s].limits.failureThreshold
    /\ (breakers[s] # None /\ breakers[s].state = "half_open" /\ breakers'[s].state = "closed")
           => streak'[s] >= breakers[s].limits.successThreshold

LEMMA SameBreaker ==
  ASSUME BreakerInv, NEW s \in Servers, breakers'[s] = breakers[s], streak'[s] = streak[s]
  PROVE  BreakerStep(s)
BY DEF BreakerInv, BreakerStep

LEMMA NewBreaker ==
  ASSUME NEW s \in Servers, NEW t \in Known, breakers[s] = None, breakers'[s] = NewCircuitBreaker(t)
  PROVE  BreakerStep(s)
BY KnownLimits DEF NewCircuitBreaker, BreakerStep, BreakerOK

LEMMA QuietBreaker ==
  ASSUME TypeInv, BreakerInv, NEW s \in Servers, breakers[s] # None, streak'[s] = streak[s],
         \/ breakers'[s] = Allow(breakers[s])
         \/ breakers'[s] = Age(breakers[s], Horizon)
         \/ \E t \in Known : breakers'[s] = UpdateConfig(breakers[s], t)
  PROVE  BreakerStep(s)
<1> DEFINE b == breakers[s]  a == breakers'[s]
<1>1. b \in Breakers /\ BreakerOK(b, streak[s])
  BY DEF TypeInv, TypeOK, BreakerInv
<1>2. a.limits \in Known
  <2>1. b.limits \in Known
    BY <1>1 DEF BreakerOK
  <2> QED BY <1>1, <2>1 DEF Allow, Age, UpdateConfig, Breakers
<1>3. /\ a.state = b.state \/ (b.state = "open" /\ a.state = "half_open" /\ a.successes = 0)
      /\ a.state = b.state => a.failures = b.failures /\ a.successes = b.successes
  BY <1>1 DEF Allow, Age, UpdateConfig, Breakers
<1>4. BreakerOK(a, streak[s])
  <2>1. StreakCap > 0
    BY <1>2, KnownLimits
  <2> HIDE DEF a, b
  <2> QED BY <1>1, <1>2, <1>3, <2>1 DEF BreakerOK
<1> QED BY <1>3, <1>4 DEF BreakerStep

LEMMA ReportBreaker ==
  ASSUME TypeInv, BreakerInv, NEW c \in Calls, NEW s \in Servers, ReportToBreaker(c, s)
  PROVE  \A t \in Servers : BreakerStep(t)
<1> DEFINE b == breakers[s]  n == streak[s]
<1>1. /\ wpc[c][s] = "report"
      /\ breakers' = [breakers EXCEPT ![s] = IF result[c][s] \in Successes THEN OnSuccess(@) ELSE OnFailure(@)]
      /\ streak' = [streak EXCEPT ![s] = Extend(@, result[c][s] \in Successes)]
  BY DEF ReportToBreaker
<1>2. b \in Breakers /\ b # None /\ n \in -StreakCap .. StreakCap /\ BreakerOK(b, n)
  BY <1>1 DEF TypeInv, TypeOK, StageInv, BreakerInv
<1>3. \A t \in Servers \ {s} : BreakerStep(t)
  BY <1>1, SameBreaker DEF TypeInv, TypeOK
<1>4. breakers'[s] = IF result[c][s] \in Successes THEN OnSuccess(b) ELSE OnFailure(b)
  BY <1>1 DEF TypeInv, TypeOK
<1>5. streak'[s] = Extend(n, result[c][s] \in Successes)
  BY <1>1 DEF TypeInv, TypeOK
<1>6. CASE result[c][s] \in Successes
  <2>1. (result[c][s] \in Successes) = TRUE
    BY <1>6
  <2>2. streak'[s] = Extend(n, TRUE)
    BY <1>5, <2>1, Zenon
  <2> QED BY <1>2, <1>3, <1>4, <1>6, <2>2, SuccessKeepsBreaker DEF BreakerStep
<1>7. CASE result[c][s] \notin Successes
  <2>1. (result[c][s] \in Successes) = FALSE
    BY <1>7
  <2>2. streak'[s] = Extend(n, FALSE)
    BY <1>5, <2>1, Zenon
  <2> QED BY <1>2, <1>3, <1>4, <1>7, <2>2, FailureKeepsBreaker DEF BreakerStep
<1> QED BY <1>6, <1>7

LEMMA NextStepsBreakers ==
  ASSUME TypeInv, BreakerInv, [Next]_vars
  PROVE  \A s \in Servers : BreakerStep(s)
<1>1. ASSUME UNCHANGED <<breakers, streak>> PROVE \A s \in Servers : BreakerStep(s)
  BY <1>1, SameBreaker
<1>2. ASSUME NEW c \in Calls, NEW s \in Servers, GetBreaker(c, s) PROVE \A t \in Servers : BreakerStep(t)
  <2>1. /\ breakers' = [breakers EXCEPT ![s] = IF @ = None THEN NewCircuitBreaker(snapshot[c]) ELSE @]
        /\ UNCHANGED streak
    BY <1>2 DEF GetBreaker
  <2>2. \A t \in Servers : breakers'[t] = breakers[t]
                           \/ (breakers[t] = None /\ breakers'[t] = NewCircuitBreaker(snapshot[c]))
    BY <2>1 DEF TypeInv, TypeOK
  <2>3. snapshot[c] \in Known
    BY DEF BreakerInv
  <2> QED BY <2>1, <2>2, <2>3, SameBreaker, NewBreaker
<1>3. ASSUME NEW c \in Calls, StartWorker(c) PROVE \A t \in Servers : BreakerStep(t)
  <2>1. pc[c] = "allow" /\ breakers' = [breakers EXCEPT ![current[c]] = Allow(@)] /\ UNCHANGED streak
    BY <1>3 DEF StartWorker
  <2>2. current[c] \in Servers /\ breakers[current[c]] # None
    BY <2>1 DEF TypeInv, StageInv
  <2>3. \A t \in Servers : breakers'[t] = breakers[t]
                           \/ (breakers[t] # None /\ breakers'[t] = Allow(breakers[t]))
    BY <2>1, <2>2 DEF TypeInv, TypeOK
  <2> QED BY <2>1, <2>3, SameBreaker, QuietBreaker
<1>4. ASSUME NEW p \in Posters, UpdateBreakers(p) PROVE \A t \in Servers : BreakerStep(t)
  <2>1. /\ pending[p] # None /\ UNCHANGED streak
        /\ breakers' = [t \in Servers |-> IF breakers[t] = None THEN None
                                          ELSE UpdateConfig(breakers[t], pending[p])]
    BY <1>4 DEF UpdateBreakers
  <2>2. pending[p] \in Known
    BY <2>1 DEF BreakerInv
  <2>3. \A t \in Servers : breakers'[t] = breakers[t]
                           \/ (breakers[t] # None /\ breakers'[t] = UpdateConfig(breakers[t], pending[p]))
    BY <2>1
  <2> QED BY <2>1, <2>2, <2>3, SameBreaker, QuietBreaker
<1>5. CASE ListUpstreams
  <2>1. /\ breakers' = [t \in Servers |-> IF breakers[t] = None THEN NewCircuitBreaker(limits)
                                          ELSE breakers[t]]
        /\ UNCHANGED streak
    BY <1>5 DEF ListUpstreams
  <2>2. limits \in Known
    BY DEF BreakerInv
  <2>3. \A t \in Servers : breakers'[t] = breakers[t]
                           \/ (breakers[t] = None /\ breakers'[t] = NewCircuitBreaker(limits))
    BY <2>1
  <2> QED BY <2>1, <2>2, <2>3, SameBreaker, NewBreaker
<1>6. CASE Tick
  <2>1. /\ breakers' = [t \in Servers |-> IF breakers[t] = None THEN None ELSE Age(breakers[t], Horizon)]
        /\ UNCHANGED streak
    BY <1>6 DEF Tick
  <2>2. \A t \in Servers : breakers'[t] = breakers[t]
                           \/ (breakers[t] # None /\ breakers'[t] = Age(breakers[t], Horizon))
    BY <2>1
  <2> QED BY <2>1, <2>2, SameBreaker, QuietBreaker
<1>7. ASSUME NEW c \in Calls,
             \/ \E servers \in SUBSET Servers : Begin(c, servers)
             \/ RefuseServer(c) \/ FinishStart(c) \/ Receive(c) \/ CloseChannel(c) \/ AllFailed(c)
             \/ CancelParent(c)
      PROVE  \A t \in Servers : BreakerStep(t)
  BY <1>1, <1>7
  DEF Begin, RefuseServer, FinishStart, Receive, CloseChannel, AllFailed, CancelParent
<1>8. ASSUME NEW c \in Calls, NEW s \in Servers, WorkerStep(c, s) PROVE \A t \in Servers : BreakerStep(t)
  <2>1. CASE ReportToBreaker(c, s)
    BY <2>1, ReportBreaker
  <2>2. CASE ~ReportToBreaker(c, s)
    <3>1. UNCHANGED <<breakers, streak>>
      BY <1>8, <2>2
      DEF WorkerStep, SendQuery, AttemptFailsLocally, FinishUDP, Truncated, DialTCP, DialFails, FinishTCP,
          BackoffOver, BackoffCancelled, ObserveResult, SendResult, EndAttempt
    <3> QED BY <1>1, <3>1
  <2> QED BY <2>1, <2>2
<1>9. CASE (\E p \in Posters, t \in Settings : PostSettings(p, t)) \/ UNCHANGED vars
  BY <1>1, <1>9 DEF PostSettings, vars
<1> QED BY <1>2, <1>3, <1>4, <1>5, <1>6, <1>7, <1>8, <1>9 DEF Next, CallStep

LEMMA NextKeepsBreakers == TypeInv /\ BreakerInv /\ [Next]_vars => BreakerInv'
<1> SUFFICES ASSUME TypeInv, BreakerInv, [Next]_vars PROVE BreakerInv'
  OBVIOUS
<1>1. \A s \in Servers : breakers'[s] # None => BreakerOK(breakers'[s], streak'[s])
  BY NextStepsBreakers DEF BreakerStep
<1>2. ASSUME UNCHANGED <<limits, pending, snapshot>> PROVE BreakerInv'
  BY <1>1, <1>2 DEF BreakerInv, BreakerOK
<1>3. ASSUME NEW c \in Calls, NEW servers \in SUBSET Servers, Begin(c, servers) PROVE BreakerInv'
  <2>1. snapshot' = [snapshot EXCEPT ![c] = limits] /\ UNCHANGED <<limits, pending>>
    BY <1>3 DEF Begin
  <2>2. \A d \in Calls : snapshot'[d] \in Known
    BY <2>1 DEF BreakerInv, TypeInv, TypeOK
  <2> QED BY <1>1, <2>1, <2>2 DEF BreakerInv, BreakerOK
<1>4. ASSUME NEW p \in Posters, NEW t \in Settings, PostSettings(p, t) PROVE BreakerInv'
  <2>1. limits' = t /\ pending' = [pending EXCEPT ![p] = t] /\ UNCHANGED snapshot
    BY <1>4 DEF PostSettings, callVars
  <2>2. \A q \in Posters : pending'[q] # None => pending'[q] \in Known
    BY <2>1 DEF BreakerInv, TypeInv, TypeOK, Known
  <2> QED BY <1>1, <2>1, <2>2 DEF BreakerInv, BreakerOK, Known
<1>5. ASSUME NEW p \in Posters, UpdateBreakers(p) PROVE BreakerInv'
  <2>1. pending' = [pending EXCEPT ![p] = None] /\ UNCHANGED <<limits, snapshot>>
    BY <1>5 DEF UpdateBreakers, callVars
  <2>2. \A q \in Posters : pending'[q] # None => pending'[q] \in Known
    BY <2>1 DEF BreakerInv, TypeInv, TypeOK
  <2> QED BY <1>1, <2>1, <2>2 DEF BreakerInv, BreakerOK
<1>6. CASE \E c \in Calls : CallStep(c) \/ CancelParent(c)
  BY <1>2, <1>6
  DEF CallStep, GetBreaker, StartWorker, RefuseServer, FinishStart, Receive, CloseChannel, AllFailed,
      CancelParent, callVars
<1>7. CASE \E c \in Calls, s \in Servers : WorkerStep(c, s)
  BY <1>2, <1>7
  DEF WorkerStep, SendQuery, AttemptFailsLocally, FinishUDP, Truncated, DialTCP, DialFails, FinishTCP,
      BackoffOver, BackoffCancelled, ReportToBreaker, ObserveResult, SendResult, EndAttempt, callVars
<1>8. CASE ListUpstreams \/ Tick \/ UNCHANGED vars
  BY <1>2, <1>8 DEF ListUpstreams, Tick, vars, callVars
<1> QED BY <1>3, <1>4, <1>5, <1>6, <1>7, <1>8 DEF Next

LEMMA BreakerInvariant == Spec => [](TypeInv /\ BreakerInv)
<1>1. Init => BreakerInv
  BY DEF Init, BreakerInv, Known
<1> QED BY <1>1, InitTypeInv, NextKeepsTypes, NextKeepsBreakers, PTL DEF Spec

(* OnFailure opens a closed circuit only when as many failures in a row    *)
(* were reported as the threshold in force asks for, also across settings  *)
(* that change the threshold in between.                                   *)
THEOREM TripsAreEarned == Spec => TripNeedsConsecutiveFailures
<1> DEFINE Step == \A s \in Servers :
          (breakers[s] # None /\ breakers[s].state = "closed" /\ breakers'[s].state = "open")
              => -streak'[s] >= breakers[s].limits.failureThreshold
<1>1. TypeInv /\ BreakerInv /\ [Next]_vars => [Step]_vars
  BY NextStepsBreakers DEF BreakerStep
<1> QED BY <1>1, BreakerInvariant, PTL DEF Spec, TripNeedsConsecutiveFailures

(* OnSuccess closes a half-open circuit only when as many successes in a   *)
(* row were reported as the threshold in force asks for.                   *)
THEOREM RecoveriesAreEarned == Spec => CloseNeedsConsecutiveSuccesses
<1> DEFINE Step == \A s \in Servers :
          (breakers[s] # None /\ breakers[s].state = "half_open" /\ breakers'[s].state = "closed")
              => streak'[s] >= breakers[s].limits.successThreshold
<1>1. TypeInv /\ BreakerInv /\ [Next]_vars => [Step]_vars
  BY NextStepsBreakers DEF BreakerStep
<1> QED BY <1>1, BreakerInvariant, PTL DEF Spec, CloseNeedsConsecutiveSuccesses
=============================================================================
