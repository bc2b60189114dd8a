---------------------------- MODULE UpstreamQuery ----------------------------
(***************************************************************************)
(* How the resolver asks upstream servers (internal/resolver/iterative.go  *)
(* with the breaker table of resolver.go and the query ids of              *)
(* internal/security/qid_randomizer.go).                                   *)
(*                                                                         *)
(* A call of queryFastest asks its breaker of every server it is given and *)
(* starts one goroutine (a worker) per server that may be asked.  Each     *)
(* worker tries up to Retries times, tells the breaker how it went, notes  *)
(* the result in the upstream table and sends it to the call's buffered    *)
(* channel.  The call returns on the first success and cancels its         *)
(* context; the other workers finish on their own.  Meanwhile settings are *)
(* posted, which changes the thresholds of the breakers in two steps.      *)
(*                                                                         *)
(* The network is the environment: a datagram may be lost, a server may be *)
(* down, a reply may be invalid, truncated or carry an error code.         *)
(***************************************************************************)
EXTENDS CircuitBreaker, Sequences, FiniteSets

CONSTANTS
    Servers,      \* addresses of upstream servers
    Calls,        \* concurrent invocations of queryFastest
    Posters,      \* concurrent POST /settings requests
    QueryIDs,     \* the 16-bit ids an upstream query may carry
    Retries,      \* cfg.Retries: attempts per worker
    Settings,     \* threshold records that may be posted
    InitialLimits,\* thresholds the process starts with
    Horizon,      \* bound on the age of a failure that is told apart
    StreakCap,    \* bound on the length of a run of equal results
    None          \* no breaker, no query id, nothing pending

ASSUME UpstreamAssumption ==
    /\ IsFiniteSet(Servers)
    /\ Retries \in Nat \ {0}
    /\ InitialLimits \in Thresholds
    /\ Settings \subseteq Thresholds
    /\ Horizon \in Nat
    /\ StreakCap \in Nat
    /\ \A t \in Settings \cup {InitialLimits} :
          t.failureThreshold <= StreakCap /\ t.successThreshold <= StreakCap
    /\ None \notin QueryIDs
    /\ None \notin Thresholds
    /\ None \notin Breakers
    /\ None \notin Servers

VARIABLES
    limits,       \* the breaker part of r.cfg
    pending,      \* per poster: thresholds stored in r.cfg, not yet in the breakers
    breakers,     \* r.breakers
    inFlight,     \* QueryIDRandomizer.inFlight
    upstream,     \* r.upstream: LastError of a server, as "unknown", "ok" or "error"
    pc,           \* per call: where queryFastest is
    snapshot,     \* per call: the thresholds in its copy of the configuration
    asked,        \* per call: the servers it was given
    todo,         \* per call: servers of the start loop not looked at yet
    current,      \* per call: the server whose breaker was just fetched
    cancelled,    \* per call: its context is done
    resultCh,     \* per call: the result channel
    closed,       \* per call: the result channel is closed
    wpc,          \* per call and server: where the worker is
    attempt,      \* per call and server: failed attempts so far
    qid,          \* per call and server: the query id it holds
    result,       \* per call and server: outcome of the last attempt
    streak        \* history, per server: n > 0 if the last n results reported for it were
                  \* successes, n < 0 if the last -n were failures

callVars == <<pc, snapshot, asked, todo, current, resultCh, closed>>
workerVars == <<wpc, attempt, qid, result>>
vars == <<limits, pending, breakers, inFlight, upstream, callVars, cancelled, workerVars, streak>>

(* "reply" is a validated answer, "servfail" a validated reply with an     *)
(* error code: both are results without an error.  "failed" stands for a   *)
(* timeout or a reply that does not validate, "local" for an attempt that  *)
(* could not be sent, "cancelled" for one given up because the call was    *)
(* over, "open" for a server whose circuit refused the call.               *)
Successes == {"reply", "servfail"}
Errors == {"failed", "local", "cancelled", "open"}

CallStates == {"idle", "start", "allow", "collect", "answered", "error"}
WorkerStates == {"none", "attempt", "udp", "dial", "tcp", "backoff", "report", "observe", "send", "exit"}

Returned(c) == pc[c] \in {"answered", "error"}

(* No goroutine of the call is left: what a fresh call starts from.        *)
Quiescent(c) == \A s \in Servers : wpc[c][s] \in {"none", "exit"}

TypeOK ==
    /\ limits \in Thresholds
    /\ pending \in [Posters -> Thresholds \cup {None}]
    /\ breakers \in [Servers -> Breakers \cup {None}]
    /\ inFlight \subseteq QueryIDs
    /\ upstream \in [Servers -> {"unknown", "ok", "error"}]
    /\ pc \in [Calls -> CallStates]
    /\ snapshot \in [Calls -> Thresholds]
    /\ asked \in [Calls -> SUBSET Servers]
    /\ todo \in [Calls -> SUBSET Servers]
    /\ current \in [Calls -> Servers \cup {None}]
    /\ cancelled \in [Calls -> BOOLEAN]
    /\ resultCh \in [Calls -> Seq(Successes \cup Errors)]
    /\ closed \in [Calls -> BOOLEAN]
    /\ wpc \in [Calls -> [Servers -> WorkerStates]]
    /\ attempt \in [Calls -> [Servers -> 0 .. Retries]]
    /\ qid \in [Calls -> [Servers -> QueryIDs \cup {None}]]
    /\ result \in [Calls -> [Servers -> Successes \cup Errors \cup {"none"}]]
    /\ streak \in [Servers -> -StreakCap .. StreakCap]

Init ==
    /\ limits = InitialLimits
    /\ pending = [p \in Posters |-> None]
    /\ breakers = [s \in Servers |-> None]
    /\ inFlight = {}
    /\ upstream = [s \in Servers |-> "unknown"]
    /\ pc = [c \in Calls |-> "idle"]
    /\ snapshot = [c \in Calls |-> InitialLimits]
    /\ asked = [c \in Calls |-> {}]
    /\ todo = [c \in Calls |-> {}]
    /\ current = [c \in Calls |-> None]
    /\ cancelled = [c \in Calls |-> FALSE]
    /\ resultCh = [c \in Calls |-> << >>]
    /\ closed = [c \in Calls |-> FALSE]
    /\ wpc = [c \in Calls |-> [s \in Servers |-> "none"]]
    /\ attempt = [c \in Calls |-> [s \in Servers |-> 0]]
    /\ qid = [c \in Calls |-> [s \in Servers |-> None]]
    /\ result = [c \in Calls |-> [s \in Servers |-> "none"]]
    /\ streak = [s \in Servers |-> 0]

-----------------------------------------------------------------------------
(* The call: queryFastest.                                                 *)

(* A resolution with its own copy of the configuration queries the servers *)
(* of the zone it has reached.                                             *)
Begin(c, servers) ==
    /\ pc[c] \in {"idle", "answered", "error"}
    /\ Quiescent(c)
    /\ pc' = [pc EXCEPT ![c] = "start"]
    /\ snapshot' = [snapshot EXCEPT ![c] = limits]
    /\ asked' = [asked EXCEPT ![c] = servers]
    /\ todo' = [todo EXCEPT ![c] = servers]
    /\ cancelled' = [cancelled EXCEPT ![c] = FALSE]
    /\ resultCh' = [resultCh EXCEPT ![c] = << >>]
    /\ closed' = [closed EXCEPT ![c] = FALSE]
    /\ wpc' = [wpc EXCEPT ![c] = [s \in Servers |-> "none"]]
    /\ attempt' = [attempt EXCEPT ![c] = [s \in Servers |-> 0]]
    /\ result' = [result EXCEPT ![c] = [s \in Servers |-> "none"]]
    /\ UNCHANGED <<limits, pending, breakers, inFlight, upstream, current, qid, streak>>

(* getBreaker: a missing breaker is created from the call's own copy of    *)
(* the configuration.                                                      *)
GetBreaker(c, s) ==
    /\ pc[c] = "start"
    /\ s \in todo[c]
    /\ pc' = [pc EXCEPT ![c] = "allow"]
    /\ todo' = [todo EXCEPT ![c] = @ \ {s}]
    /\ current' = [current EXCEPT ![c] = s]
    /\ breakers' = [breakers EXCEPT ![s] = IF @ = None THEN NewCircuitBreaker(snapshot[c]) ELSE @]
    /\ UNCHANGED <<limits, pending, inFlight, upstream, snapshot, asked, cancelled, resultCh, closed,
                   workerVars, streak>>

(* The breaker lets the request through: a worker is started.              *)
StartWorker(c) ==
    LET s == current[c] IN
    /\ pc[c] = "allow"
    /\ Allows(breakers[s])
    /\ breakers' = [breakers EXCEPT ![s] = Allow(@)]
    /\ wpc' = [wpc EXCEPT ![c][s] = "attempt"]
    /\ pc' = [pc EXCEPT ![c] = "start"]
    /\ current' = [current EXCEPT ![c] = None]
    /\ UNCHANGED <<limits, pending, inFlight, upstream, snapshot, asked, todo, cancelled,
                   resultCh, closed, attempt, qid, result, streak>>

(* The circuit is open: the refusal is noted and becomes the result.       *)
RefuseServer(c) ==
    LET s == current[c] IN
    /\ pc[c] = "allow"
    /\ ~Allows(breakers[s])
    /\ upstream' = [upstream EXCEPT ![s] = "error"]
    /\ resultCh' = [resultCh EXCEPT ![c] = Append(@, "open")]
    /\ pc' = [pc EXCEPT ![c] = "start"]
    /\ current' = [current EXCEPT ![c] = None]
    /\ UNCHANGED <<limits, pending, breakers, inFlight, snapshot, asked, todo, cancelled,
                   closed, workerVars, streak>>

Started(c) == \E s \in Servers : wpc[c][s] # "none"

(* Mutant: no early return when every circuit is open.                     *)
FinishStart_NoEarlyReturn(c) ==
    /\ pc[c] = "start"
    /\ todo[c] = {}
    /\ pc' = [pc EXCEPT ![c] = "collect"]
    /\ UNCHANGED <<limits, pending, breakers, inFlight, upstream, snapshot, asked, todo, current,
                   cancelled, resultCh, closed, workerVars, streak>>

(* Every server has been looked at: the call waits for results, or gives   *)
(* up at once when all circuits are open.                                  *)
FinishStart(c) ==
    /\ pc[c] = "start"
    /\ todo[c] = {}
    /\ pc' = [pc EXCEPT ![c] = IF Started(c) THEN "collect" ELSE "error"]
    /\ cancelled' = [cancelled EXCEPT ![c] = ~Started(c) \/ @]
    /\ UNCHANGED <<limits, pending, breakers, inFlight, upstream, snapshot, asked, todo, current,
                   resultCh, closed, workerVars, streak>>

(* The collector takes the next result; the first success ends the call    *)
(* and cancels the context the workers share.                              *)
Receive(c) ==
    LET won == Head(resultCh[c]) \in Successes IN
    /\ pc[c] = "collect"
    /\ resultCh[c] # << >>
    /\ resultCh' = [resultCh EXCEPT ![c] = Tail(@)]
    /\ pc' = [pc EXCEPT ![c] = IF won THEN "answered" ELSE @]
    /\ cancelled' = [cancelled EXCEPT ![c] = won \/ @]
    /\ UNCHANGED <<limits, pending, breakers, inFlight, upstream, snapshot, asked, todo, current,
                   closed, workerVars, streak>>

(* Mutant: the channel is closed without waiting for the workers.          *)
CloseChannel_NoWait(c) ==
    /\ pc[c] \in {"collect", "answered"}
    /\ Started(c)
    /\ ~closed[c]
    /\ closed' = [closed EXCEPT ![c] = TRUE]
    /\ UNCHANGED <<limits, pending, breakers, inFlight, upstream, pc, snapshot, asked, todo,
                   current, cancelled, resultCh, workerVars, streak>>

(* The closing goroutine: wg.Wait, then close(resultCh).                   *)
CloseChannel(c) ==
    /\ pc[c] \in {"collect", "answered"}
    /\ Started(c)
    /\ ~closed[c]
    /\ Quiescent(c)
    /\ closed' = [closed EXCEPT ![c] = TRUE]
    /\ UNCHANGED <<limits, pending, breakers, inFlight, upstream, pc, snapshot, asked, todo, current,
                   cancelled, resultCh, workerVars, streak>>

(* The channel is closed and drained without a success.                    *)
AllFailed(c) ==
    /\ pc[c] = "collect"
    /\ closed[c]
    /\ resultCh[c] = << >>
    /\ pc' = [pc EXCEPT ![c] = "error"]
    /\ cancelled' = [cancelled EXCEPT ![c] = TRUE]
    /\ UNCHANGED <<limits, pending, breakers, inFlight, upstream, snapshot, asked, todo, current,
                   resultCh, closed, workerVars, streak>>

(* The context the call was given is cancelled from outside: the client of *)
(* the HTTP API went away, or the process is shutting down.                *)
CancelParent(c) ==
    /\ pc[c] \in {"start", "allow", "collect"}
    /\ ~cancelled[c]
    /\ cancelled' = [cancelled EXCEPT ![c] = TRUE]
    /\ UNCHANGED <<limits, pending, breakers, inFlight, upstream, callVars, workerVars, streak>>

-----------------------------------------------------------------------------
(* The worker: queryWithRetries over queryOnce.                            *)

(* Mutant: the id drawn is not looked up among those in flight.            *)
SendQuery_NoLookup(c, s, id) ==
    /\ wpc[c][s] = "attempt"
    /\ inFlight' = inFlight \cup {id}
    /\ qid' = [qid EXCEPT ![c][s] = id]
    /\ wpc' = [wpc EXCEPT ![c][s] = "udp"]
    /\ UNCHANGED <<limits, pending, breakers, upstream, callVars, cancelled, attempt, result, streak>>

(* queryOnce takes an id no query in flight has and sends the datagram.    *)
SendQuery(c, s, id) ==
    /\ wpc[c][s] = "attempt"
    /\ id \notin inFlight
    /\ inFlight' = inFlight \cup {id}
    /\ qid' = [qid EXCEPT ![c][s] = id]
    /\ wpc' = [wpc EXCEPT ![c][s] = "udp"]
    /\ UNCHANGED <<limits, pending, breakers, upstream, callVars, cancelled, attempt, result,
                   streak>>

(* An attempt is over: its id is released (the deferred Release) and the   *)
(* worker reports a success, or waits before it tries again.               *)
EndAttempt(c, s, outcome) ==
    /\ inFlight' = inFlight \ {qid[c][s]}
    /\ qid' = [qid EXCEPT ![c][s] = None]
    /\ result' = [result EXCEPT ![c][s] = outcome]
    /\ attempt' = [attempt EXCEPT ![c][s] = IF outcome \in Successes THEN @ ELSE @ + 1]
    /\ wpc' = [wpc EXCEPT ![c][s] = IF outcome \in Successes THEN "report" ELSE "backoff"]
    /\ UNCHANGED <<limits, pending, breakers, upstream, callVars, cancelled, streak>>

(* No id could be drawn in 1024 tries, no socket opened, or the send       *)
(* failed: the attempt ends before anything reached the server.            *)
AttemptFailsLocally(c, s) ==
    /\ wpc[c][s] = "attempt"
    /\ EndAttempt(c, s, "local")

(* The datagram is answered, or nothing valid arrives before the deadline. *)
(* The wait does not look at the context.                                  *)
FinishUDP(c, s, outcome) ==
    /\ wpc[c][s] = "udp"
    /\ EndAttempt(c, s, outcome)

(* A truncated answer: the query is repeated over TCP under the same id.   *)
Truncated(c, s) ==
    /\ wpc[c][s] = "udp"
    /\ wpc' = [wpc EXCEPT ![c][s] = "dial"]
    /\ UNCHANGED <<limits, pending, breakers, inFlight, upstream, callVars, cancelled, attempt,
                   qid, result, streak>>

(* DialContext fails when the call's context is done.                      *)
DialTCP(c, s) ==
    /\ wpc[c][s] = "dial"
    /\ ~cancelled[c]
    /\ wpc' = [wpc EXCEPT ![c][s] = "tcp"]
    /\ UNCHANGED <<limits, pending, breakers, inFlight, upstream, callVars, cancelled, attempt,
                   qid, result, streak>>

DialFails(c, s) ==
    /\ wpc[c][s] = "dial"
    /\ EndAttempt(c, s, IF cancelled[c] THEN "cancelled" ELSE "failed")

FinishTCP(c, s, outcome) ==
    /\ wpc[c][s] = "tcp"
    /\ EndAttempt(c, s, outcome)

(* Mutant: one attempt too many.                                           *)
BackoffOver_OffByOne(c, s) ==
    /\ wpc[c][s] = "backoff"
    /\ wpc' = [wpc EXCEPT ![c][s] = IF attempt[c][s] <= Retries THEN "attempt" ELSE "report"]
    /\ UNCHANGED <<limits, pending, breakers, inFlight, upstream, callVars, cancelled, attempt,
                   qid, result, streak>>

(* time.After: the backoff is waited out after the last attempt too.       *)
BackoffOver(c, s) ==
    /\ wpc[c][s] = "backoff"
    /\ wpc' = [wpc EXCEPT ![c][s] = IF attempt[c][s] < Retries THEN "attempt" ELSE "report"]
    /\ UNCHANGED <<limits, pending, breakers, inFlight, upstream, callVars, cancelled, attempt,
                   qid, result, streak>>

(* ctx.Done: the worker gives up, and the context's error is its result.   *)
BackoffCancelled(c, s) ==
    /\ wpc[c][s] = "backoff"
    /\ cancelled[c]
    /\ result' = [result EXCEPT ![c][s] = "cancelled"]
    /\ wpc' = [wpc EXCEPT ![c][s] = "report"]
    /\ UNCHANGED <<limits, pending, breakers, inFlight, upstream, callVars, cancelled, attempt,
                   qid, streak>>

(* The run of equal results that another result makes.                     *)
Extend(n, ok) ==
    IF ok THEN IF n < 0 THEN 1 ELSE IF n < StreakCap THEN n + 1 ELSE n
    ELSE IF n > 0 THEN -1 ELSE IF n > -StreakCap THEN n - 1 ELSE n

(* OnSuccess or OnFailure, decided by the error alone.                     *)
ReportToBreaker(c, s) ==
    LET ok == result[c][s] \in Successes IN
    /\ wpc[c][s] = "report"
    /\ breakers' = [breakers EXCEPT ![s] = IF ok THEN OnSuccess(@) ELSE OnFailure(@)]
    /\ streak' = [streak EXCEPT ![s] = Extend(@, ok)]
    /\ wpc' = [wpc EXCEPT ![c][s] = "observe"]
    /\ UNCHANGED <<limits, pending, inFlight, upstream, callVars, cancelled, attempt, qid, result>>

(* observeUpstreamResult.                                                  *)
ObserveResult(c, s) ==
    /\ wpc[c][s] = "observe"
    /\ upstream' = [upstream EXCEPT ![s] = IF result[c][s] \in Successes THEN "ok" ELSE "error"]
    /\ wpc' = [wpc EXCEPT ![c][s] = "send"]
    /\ UNCHANGED <<limits, pending, breakers, inFlight, callVars, cancelled, attempt, qid, result,
                   streak>>

(* Mutants: a channel with a single slot, and one with none, where a send  *)
(* needs the collector to be receiving.                                    *)
Capacity_One(c) == 1

SendResult_Unbuffered(c, s) ==
    /\ wpc[c][s] = "send"
    /\ pc[c] = "collect"
    /\ resultCh[c] = << >>
    /\ resultCh' = [resultCh EXCEPT ![c] = Append(@, result[c][s])]
    /\ wpc' = [wpc EXCEPT ![c][s] = "exit"]
    /\ UNCHANGED <<limits, pending, breakers, inFlight, upstream, pc, snapshot, asked, todo,
                   current, cancelled, closed, attempt, qid, result, streak>>

(* The channel's capacity is the number of servers asked: a slot per       *)
(* server, so the send never waits for the collector.                      *)
Capacity(c) == Cardinality(asked[c])

SendResult(c, s) ==
    /\ wpc[c][s] = "send"
    /\ Len(resultCh[c]) < Capacity(c)
    /\ resultCh' = [resultCh EXCEPT ![c] = Append(@, result[c][s])]
    /\ wpc' = [wpc EXCEPT ![c][s] = "exit"]
    /\ UNCHANGED <<limits, pending, breakers, inFlight, upstream, pc, snapshot, asked, todo, current,
                   cancelled, closed, attempt, qid, result, streak>>

-----------------------------------------------------------------------------
(* Settings, the upstream listing and the passage of time.                 *)

(* ApplyRuntimeSettings, first half: the configuration is replaced.        *)
PostSettings(p, t) ==
    /\ pending[p] = None
    /\ limits' = t
    /\ pending' = [pending EXCEPT ![p] = t]
    /\ UNCHANGED <<breakers, inFlight, upstream, callVars, cancelled, workerVars, streak>>

(* Second half: under breakerMu every breaker in the table is updated.     *)
UpdateBreakers(p) ==
    /\ pending[p] # None
    /\ breakers' = [s \in Servers |-> IF breakers[s] = None THEN None
                                      ELSE UpdateConfig(breakers[s], pending[p])]
    /\ pending' = [pending EXCEPT ![p] = None]
    /\ UNCHANGED <<limits, inFlight, upstream, callVars, cancelled, workerVars, streak>>

(* RootServers and UpstreamStatuses create the breakers they list.         *)
ListUpstreams ==
    /\ \E s \in Servers : breakers[s] = None
    /\ breakers' = [s \in Servers |-> IF breakers[s] = None THEN NewCircuitBreaker(limits)
                                      ELSE breakers[s]]
    /\ UNCHANGED <<limits, pending, inFlight, upstream, callVars, cancelled, workerVars,
                   streak>>

Tick ==
    /\ \E s \in Servers : breakers[s] # None /\ breakers[s].elapsed < Horizon
    /\ breakers' = [s \in Servers |-> IF breakers[s] = None THEN None ELSE Age(breakers[s], Horizon)]
    /\ UNCHANGED <<limits, pending, inFlight, upstream, callVars, cancelled, workerVars,
                   streak>>

-----------------------------------------------------------------------------
CallStep(c) ==
    \/ \E s \in Servers : GetBreaker(c, s)
    \/ StartWorker(c)
    \/ RefuseServer(c)
    \/ FinishStart(c)
    \/ Receive(c)
    \/ CloseChannel(c)
    \/ AllFailed(c)

WorkerStep(c, s) ==
    \/ \E id \in QueryIDs : SendQuery(c, s, id)
    \/ AttemptFailsLocally(c, s)
    \/ \E outcome \in Successes \cup {"failed"} : FinishUDP(c, s, outcome)
    \/ Truncated(c, s)
    \/ DialTCP(c, s)
    \/ DialFails(c, s)
    \/ \E outcome \in Successes \cup {"failed"} : FinishTCP(c, s, outcome)
    \/ BackoffOver(c, s)
    \/ BackoffCancelled(c, s)
    \/ ReportToBreaker(c, s)
    \/ ObserveResult(c, s)
    \/ SendResult(c, s)

Next ==
    \/ \E c \in Calls, servers \in SUBSET Servers \ {{}} : Begin(c, servers)
    \/ \E c \in Calls : CallStep(c) \/ CancelParent(c)
    \/ \E c \in Calls, s \in Servers : WorkerStep(c, s)
    \/ \E p \in Posters, t \in Settings : PostSettings(p, t)
    \/ \E p \in Posters : UpdateBreakers(p)
    \/ ListUpstreams
    \/ Tick

(* Goroutines are scheduled, sockets have deadlines and backoffs are       *)
(* finite: every started call and worker keeps taking steps.  Nothing      *)
(* obliges clients to ask, settings to be posted or replies to arrive.     *)
Fairness ==
    /\ \A c \in Calls : WF_vars(CallStep(c))
    /\ \A c \in Calls, s \in Servers : WF_vars(WorkerStep(c, s))

Spec == Init /\ [][Next]_vars
FairSpec == Spec /\ Fairness
-----------------------------------------------------------------------------
(* Properties.                                                             *)

(* Never two upstream queries in flight under one query id, and no id is   *)
(* leaked: the ids marked in use are exactly those some worker holds, also *)
(* across the TCP fallback and every error return of queryOnce.            *)
UniqueQueryIDs ==
    /\ \A c, d \in Calls : \A s, t \in Servers :
          (qid[c][s] = qid[d][t] /\ qid[c][s] # None) => (c = d /\ s = t)
    /\ \A id \in QueryIDs : id \in inFlight <=> \E c \in Calls, s \in Servers : qid[c][s] = id

(* queryFastest reports an error only when no server it asked answered: a  *)
(* late success is never lost between the workers, the closing of the      *)
(* channel and the collector.                                              *)
ErrorMeansNoReply ==
    \A c \in Calls : pc[c] = "error" =>
        \A s \in Servers : wpc[c][s] \in {"none", "exit"} /\ result[c][s] \notin Successes

(* A worker that is about to send its result finds the channel open and    *)
(* with a free slot, whether or not the collector is still there.          *)
SendNeverBlocks ==
    \A c \in Calls, s \in Servers :
        wpc[c][s] = "send" => ~closed[c] /\ Len(resultCh[c]) < Capacity(c)

(* A circuit leaves closed only after failureThreshold failures in a row,  *)
(* however the results of concurrent calls interleave.                     *)
TripNeedsConsecutiveFailures ==
    [][\A s \in Servers :
          (breakers[s] # None /\ breakers[s].state = "closed" /\ breakers'[s].state = "open")
              => -streak'[s] >= breakers[s].limits.failureThreshold]_vars

(* A circuit closes again only after successThreshold successes in a row.  *)
CloseNeedsConsecutiveSuccesses ==
    [][\A s \in Servers :
          (breakers[s] # None /\ breakers[s].state = "half_open" /\ breakers'[s].state = "closed")
              => streak'[s] >= breakers[s].limits.successThreshold]_vars

(* Every call of queryFastest returns, whatever the network does.          *)
CallsReturn == \A c \in Calls : (pc[c] = "start") ~> Returned(c)

(* No goroutine outlives its call for ever: a worker that was started      *)
(* exits, also when the collector has stopped receiving.                   *)
WorkersExit == \A c \in Calls, s \in Servers : (wpc[c][s] = "attempt") ~> (wpc[c][s] = "exit")
=============================================================================
