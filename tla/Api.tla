--------------------------------- MODULE Api ---------------------------------
(***************************************************************************)
(* The parts of the API that run side by side: the streams, and a request  *)
(* that fans out, whose workers resolve names.  Resolve ends in            *)
(* publishTrace, which publishes the events of the resolution through the  *)
(* hub while it holds the mutex of the history: whoever kept a publisher   *)
(* waiting would keep every resolution waiting.                            *)
(***************************************************************************)
EXTENDS WebSocket, Bulk

CONSTANTS
    Asked,   \* what requests ask for: how many items, and how many at once
    Events   \* events a resolution publishes

ASSUME ApiAssumption ==
    Publishers = Items /\ Asked \subseteq Nat \X Int /\ Events \in Nat

VARIABLES
    trace,     \* of each worker: "no", "publishing" (it holds historyMu) or "kept"
    published  \* events each worker has published

traceVars == <<trace, published>>
vars == <<wsVars, bulkVars, traceVars>>

Init ==
    /\ WebSocketInit /\ BulkInit
    /\ trace = [i \in Items |-> "no"]
    /\ published = [i \in Items |-> 0]

Request ==
    /\ \E a \in Asked : StartBulk(a[1], a[2]) \/ StartCompare(a[1])
    /\ UNCHANGED <<wsVars, traceVars>>

WorkerBegins(i) == (Spawn(i) \/ TakeSlot(i)) /\ UNCHANGED <<wsVars, traceVars>>

(* publishTrace.                                                           *)
LockHistory(i) ==
    /\ worker[i] = "working" /\ kind = "bulk" /\ trace[i] = "no"
    /\ \A j \in Items : trace[j] # "publishing"
    /\ trace' = [trace EXCEPT ![i] = "publishing"]
    /\ UNCHANGED <<wsVars, bulkVars, published>>

Publish(i) ==
    /\ trace[i] = "publishing" /\ published[i] < Events
    /\ PublishBegin(i, WritersWait)
    /\ published' = [published EXCEPT ![i] = @ + 1]
    /\ UNCHANGED <<streamVars, bulkVars, trace>>

PublishOn(i) ==
    /\ (\E s \in Streams : Offer(i, s)) \/ PublishEnd(i)
    /\ UNCHANGED <<streamVars, bulkVars, traceVars>>

UnlockHistory(i) ==
    /\ trace[i] = "publishing" /\ i \notin readers
    /\ trace' = [trace EXCEPT ![i] = "kept"]
    /\ UNCHANGED <<wsVars, bulkVars, published>>

(* What compare asks for goes to the servers directly and leaves no trace. *)
Resolved(i) ==
    /\ kind = "bulk" => trace[i] = "kept"
    /\ SetResult(i)
    /\ UNCHANGED <<wsVars, traceVars>>

WorkerStep(i) ==
    \/ WorkerBegins(i) \/ LockHistory(i) \/ Publish(i) \/ PublishOn(i) \/ UnlockHistory(i) \/ Resolved(i)
    \/ WorkerEnds(i) /\ UNCHANGED <<wsVars, traceVars>>

RequestStep == (NothingToSpawn \/ WriteResults) /\ UNCHANGED <<wsVars, traceVars>>

Stream(s) == StreamStep(s) /\ UNCHANGED <<bulkVars, traceVars>>
Drain(s) == DrainStep(s) /\ UNCHANGED <<bulkVars, traceVars>>
Arrives(s) ==
    /\ Refuse(s) \/ AcceptWebSocket(s, "subscribing") \/ AcceptWebSocket(s, "select")
    /\ UNCHANGED <<bulkVars, traceVars>>
Turns(s) ==
    \E into \in {"lively", "silent", "stalled", "gone"} :
        ClientTurns(s, into) /\ UNCHANGED <<bulkVars, traceVars>>
ShutsDown == Shutdown /\ UNCHANGED <<bulkVars, traceVars>>

Next ==
    \/ Request \/ RequestStep \/ ShutsDown
    \/ \E i \in Items : WorkerStep(i)
    \/ \E s \in Streams : Stream(s) \/ Drain(s) \/ Arrives(s) \/ Turns(s)

(* Goroutines run, and Resolve returns (UpstreamQuery's CallsReturn).      *)
Fairness ==
    /\ WF_vars(RequestStep)
    /\ \A i \in Items : WF_vars(WorkerStep(i))
    /\ \A s \in Streams : StreamFairness(s)

Spec == Init /\ [][Next]_vars
FairSpec == Spec /\ Fairness

TypeOK ==
    /\ WebSocketTypeOK /\ BulkTypeOK
    /\ trace \in [Items -> {"no", "publishing", "kept"}]
    /\ published \in [Items -> 0 .. Events]

(* A request for many names is answered, whatever the clients of the       *)
(* streams do: the workers' slots come back, none of them is kept waiting  *)
(* by a subscriber that takes no events or by one that leaves, and there   *)
(* is a slot to be had.                                                    *)
RequestsAreAnswered == request = "spawning" ~> request = "answered"
=============================================================================
