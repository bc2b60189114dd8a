------------------------------ MODULE ApiProofs ------------------------------
(***************************************************************************)
(* Proofs about Api, for any number of streams, of items and of events,    *)
(* and any limits.                                                         *)
(*                                                                         *)
(* A channel is closed only by Unsubscribe, which needs the lock for       *)
(* writing: what publishers still have to offer is then nothing, and       *)
(* whatever they begin later they offer to those subscribed by then.  The  *)
(* results are whole because the wait group counts exactly the workers     *)
(* that have been started and have not ended.                              *)
(***************************************************************************)
EXTENDS Api, FiniteSetTheorems, TLAPS

MainStates == {"idle", "subscribing", "select", "locking", "writing", "leaving", "closing", "ended"}
Subscribed == {"select", "locking", "writing", "leaving"}

HubInv ==
    /\ main \in [Streams -> MainStates]
    /\ subs \subseteq Streams /\ closed \subseteq Streams
    /\ offers \in [Publishers -> SUBSET Streams]
    /\ \A p \in Publishers : offers[p] \subseteq subs /\ (p \notin readers => offers[p] = {})
    /\ \A s \in subs : main[s] \in Subscribed
    /\ \A s \in closed : main[s] \in {"closing", "ended"}

(* A step that changes no more than where the handler of a stream is.      *)
LEMMA MainMoves ==
  ASSUME HubInv, UNCHANGED <<subs, closed, readers, offers>>,
         NEW s \in Streams, NEW where \in MainStates, main' = [main EXCEPT ![s] = where],
         s \in subs => where \in Subscribed,
         s \in closed => where \in {"closing", "ended"}
  PROVE  HubInv'
<1>1. main' \in [Streams -> MainStates] /\ main'[s] = where /\ \A t \in Streams \ {s} : main'[t] = main[t]
  BY DEF HubInv
<1>2. \A t \in subs : main'[t] \in Subscribed
  BY <1>1 DEF HubInv
<1>3. \A t \in closed : main'[t] \in {"closing", "ended"}
  BY <1>1 DEF HubInv
<1> QED BY <1>1, <1>2, <1>3 DEF HubInv

LEMMA HubUntouched ==
  ASSUME HubInv, UNCHANGED <<subs, closed, readers, offers, main>>
  PROVE  HubInv'
BY DEF HubInv

(* The steps of the handler of a stream.                                   *)
LEMMA StreamKeepsHub ==
  ASSUME HubInv, NEW s \in Streams, StreamStep(s)
  PROVE  HubInv'
<1> USE DEF MainTo, hubVars, MainStates, Subscribed
<1>1. CASE SubscribeStream(s)
  <2>1. /\ main[s] = "subscribing" /\ subs' = subs \cup {s} /\ UNCHANGED <<closed, readers, offers>>
        /\ main' = [main EXCEPT ![s] = "select"]
    BY <1>1 DEF SubscribeStream, Subscribe
  <2>2. s \notin closed
    BY <2>1 DEF HubInv
  <2>3. main' \in [Streams -> MainStates] /\ main'[s] = "select" /\ \A t \in Streams \ {s} : main'[t] = main[t]
    BY <2>1 DEF HubInv
  <2>4. \A t \in subs' : main'[t] \in Subscribed
    BY <2>1, <2>3 DEF HubInv
  <2>5. \A t \in closed' : main'[t] \in {"closing", "ended"}
    BY <2>1, <2>2, <2>3 DEF HubInv
  <2> QED BY <2>1, <2>3, <2>4, <2>5 DEF HubInv
<1>2. CASE TakeEvent(s) \/ Tick(s) \/ MainLocks(s)
  <2>1. PICK where \in {"locking", "writing"} :
           main[s] \in {"select", "locking"} /\ main' = [main EXCEPT ![s] = where]
    BY <1>2 DEF TakeEvent, Tick, MainLocks
  <2>2. UNCHANGED <<subs, closed, readers, offers>>
    BY <1>2 DEF TakeEvent, Tick, MainLocks, Receive
  <2>3. s \notin closed
    BY <2>1 DEF HubInv
  <2> QED BY <2>1, <2>2, <2>3, MainMoves
<1>3. CASE SeeDone(s) \/ MainWrites(s)
  <2>1. PICK where \in {Returning(s), "select"} :
           main[s] \in {"select", "writing"} /\ main' = [main EXCEPT ![s] = where]
    BY <1>3 DEF SeeDone, MainWrites, AfterWrite
  <2>2. UNCHANGED <<subs, closed, readers, offers>>
    BY <1>3 DEF SeeDone, MainWrites
  <2>3. s \notin closed
    BY <2>1 DEF HubInv
  <2>4. where \in MainStates /\ (s \in subs => where \in Subscribed)
    BY <2>1 DEF Returning
  <2> QED BY <2>1, <2>2, <2>3, <2>4, MainMoves
<1>4. CASE Leave(s)
  <2>1. /\ main[s] = "leaving" /\ readers = {} /\ subs' = subs \ {s} /\ closed' = closed \cup (subs \cap {s})
        /\ main' = [main EXCEPT ![s] = "closing"] /\ UNCHANGED <<readers, offers>>
    BY <1>4 DEF Leave, Unsubscribe
  <2>2. \A p \in Publishers : offers[p] = {}
    BY <2>1 DEF HubInv
  <2>3. main' \in [Streams -> MainStates] /\ main'[s] = "closing" /\ \A t \in Streams \ {s} : main'[t] = main[t]
    BY <2>1 DEF HubInv
  <2>4. \A t \in subs' : main'[t] \in Subscribed
    BY <2>1, <2>3 DEF HubInv
  <2>5. \A t \in closed' : main'[t] \in {"closing", "ended"}
    BY <2>1, <2>3 DEF HubInv
  <2> QED BY <2>1, <2>2, <2>3, <2>4, <2>5 DEF HubInv
<1>5. CASE CloseConn(s)
  <2>1. main[s] = "closing" /\ main' = [main EXCEPT ![s] = "ended"] /\ UNCHANGED <<subs, closed, readers, offers>>
    BY <1>5 DEF CloseConn
  <2>2. s \notin subs
    BY <2>1 DEF HubInv
  <2> QED BY <2>1, <2>2, MainMoves
<1> QED BY <1>1, <1>2, <1>3, <1>4, <1>5 DEF StreamStep

(* The steps of a publisher.                                               *)
LEMMA PublisherKeepsHub ==
  ASSUME HubInv, NEW p \in Publishers, UNCHANGED main,
         PublishBegin(p, WritersWait) \/ (\E s \in Streams : Offer(p, s)) \/ PublishEnd(p)
  PROVE  HubInv'
<1>1. CASE PublishBegin(p, WritersWait)
  <2>1. UNCHANGED <<subs, closed>> /\ readers' = readers \cup {p} /\ offers' = [offers EXCEPT ![p] = subs]
    BY <1>1 DEF PublishBegin
  <2>2. offers' \in [Publishers -> SUBSET Streams] /\ offers'[p] = subs
        /\ \A q \in Publishers \ {p} : offers'[q] = offers[q]
    BY <2>1 DEF HubInv
  <2>3. \A q \in Publishers : offers'[q] \subseteq subs' /\ (q \notin readers' => offers'[q] = {})
    BY <2>1, <2>2 DEF HubInv
  <2> QED BY <2>1, <2>2, <2>3 DEF HubInv
<1>2. CASE \E s \in Streams : Offer(p, s)
  <2>1. PICK s \in Streams : offers' = [offers EXCEPT ![p] = @ \ {s}] /\ UNCHANGED <<subs, closed, readers>>
    BY <1>2 DEF Offer
  <2>2. offers' \in [Publishers -> SUBSET Streams] /\ offers'[p] = offers[p] \ {s}
        /\ \A q \in Publishers \ {p} : offers'[q] = offers[q]
    BY <2>1 DEF HubInv
  <2>3. \A q \in Publishers : offers'[q] \subseteq subs' /\ (q \notin readers' => offers'[q] = {})
    BY <2>1, <2>2 DEF HubInv
  <2> QED BY <2>1, <2>2, <2>3 DEF HubInv
<1>3. CASE PublishEnd(p)
  <2>1. UNCHANGED <<subs, closed, offers>> /\ readers' = readers \ {p} /\ offers[p] = {}
    BY <1>3 DEF PublishEnd
  <2> QED BY <2>1 DEF HubInv
<1> QED BY <1>1, <1>2, <1>3

LEMMA NextKeepsHub == HubInv /\ [Next]_vars => HubInv'
<1> SUFFICES ASSUME HubInv, [Next]_vars PROVE HubInv'
  OBVIOUS
<1> USE DEF wsVars, hubVars, streamVars
<1>1. CASE UNCHANGED wsVars
  BY <1>1, HubUntouched
<1>2. CASE ShutsDown
  BY <1>2, HubUntouched DEF ShutsDown, Shutdown
<1>3. ASSUME NEW i \in Items, WorkerStep(i) PROVE HubInv'
  <2>1. CASE Publish(i) \/ PublishOn(i)
    <3>1. i \in Publishers /\ UNCHANGED main
      BY <2>1, ApiAssumption DEF Publish, PublishOn
    <3> QED BY <2>1, <3>1, PublisherKeepsHub DEF Publish, PublishOn
  <2>2. CASE ~(Publish(i) \/ PublishOn(i))
    BY <1>1, <1>3, <2>2 DEF WorkerStep, WorkerBegins, LockHistory, UnlockHistory, Resolved
  <2> QED BY <2>1, <2>2
<1>4. ASSUME NEW s \in Streams, Stream(s) PROVE HubInv'
  BY <1>4, StreamKeepsHub DEF Stream
<1>5. ASSUME NEW s \in Streams, Drain(s) \/ Turns(s) PROVE HubInv'
  <2>1. UNCHANGED <<subs, closed, readers, offers, main>>
    BY <1>5 DEF Drain, DrainStep, Turns, ClientTurns, ReadOther, ReadControl, ReadFails, ReadTimeout, DrainLocks, DrainWrites
  <2> QED BY <2>1, HubUntouched
<1>6. ASSUME NEW s \in Streams, Arrives(s) PROVE HubInv'
  <2>1. PICK where \in {"ended", "subscribing", "select"} :
           /\ main[s] = "idle" /\ main' = [main EXCEPT ![s] = where]
           /\ UNCHANGED <<subs, closed, readers, offers>>
    BY <1>6 DEF Arrives, Refuse, AcceptWebSocket, MainTo
  <2>2. s \notin subs /\ s \notin closed
    BY <2>1 DEF HubInv, Subscribed
  <2> QED BY <2>1, <2>2, MainMoves DEF MainStates
<1>7. CASE Request \/ RequestStep
  BY <1>1, <1>7 DEF Request, RequestStep
<1> QED BY <1>1, <1>2, <1>3, <1>4, <1>5, <1>6, <1>7 DEF Next, vars

(* No publisher sends on a closed channel, however many there are and      *)
(* however streams come and go while they publish.                         *)
THEOREM ChannelsAreSafe == Spec => []NoSendOnClosedChannel
<1>1. Init => HubInv
  BY DEF Init, WebSocketInit, HubInit, HubInv, MainStates, Subscribed
<1>2. HubInv => NoSendOnClosedChannel
  BY DEF HubInv, NoSendOnClosedChannel, Subscribed
<1> QED BY <1>1, <1>2, NextKeepsHub, PTL DEF Spec
-----------------------------------------------------------------------------
(* Requests that fan out.                                                  *)

WorkerStates == {"none", "queued", "working", "releasing", "done"}

(* Workers that were started and have not ended.                           *)
Live == {i \in Items : worker[i] \in {"queued", "working", "releasing"}}

RequestInv ==
    /\ worker \in [Items -> WorkerStates]
    /\ items \in 0 .. MaxItems
    /\ counted = Cardinality(Live)
    /\ \A i \in Items : worker[i] \in {"releasing", "done"} => i \in results
    /\ request \in {"waiting", "answered"} => \A i \in 1 .. items : worker[i] # "none"
    /\ request = "answered" => Live = {}

(* A step of one worker that leaves the handler where it is, and the count *)
(* right.                                                                  *)
LEMMA WorkerMoves ==
  ASSUME RequestInv, UNCHANGED <<request, items>>, request # "answered",
         NEW i \in Items, NEW to \in WorkerStates \ {"none"}, worker' = [worker EXCEPT ![i] = to],
         results \subseteq results', to \in {"releasing", "done"} => i \in results',
         counted' = Cardinality(Live')
  PROVE  RequestInv'
<1>1. worker' \in [Items -> WorkerStates] /\ worker'[i] = to /\ \A j \in Items \ {i} : worker'[j] = worker[j]
  BY DEF RequestInv
<1>2. \A j \in Items : worker'[j] \in {"releasing", "done"} => j \in results'
  BY <1>1 DEF RequestInv
<1>3. \A j \in 1 .. items : j \in Items
  BY BulkAssumption DEF RequestInv, Items
<1>4. request \in {"waiting", "answered"} => \A j \in 1 .. items : worker'[j] # "none"
  BY <1>1, <1>3 DEF RequestInv
<1> QED BY <1>1, <1>2, <1>4 DEF RequestInv

LEMMA LiveIsFinite == IsFiniteSet(Live)
<1>1. IsFiniteSet(Items)
  BY BulkAssumption, FS_Interval DEF Items
<1> QED BY <1>1, FS_Subset DEF Live

LEMMA NextKeepsRequest == RequestInv /\ [Next]_vars => RequestInv'
<1> SUFFICES ASSUME RequestInv, [Next]_vars PROVE RequestInv'
  OBVIOUS
<1>0. CASE UNCHANGED bulkVars
  BY <1>0 DEF RequestInv, Live, bulkVars
<1>1. CASE Request
  <2>1. ASSUME NEW n \in Nat PROVE Smaller(n, MaxItems) \in 0 .. MaxItems
    BY BulkAssumption DEF Smaller
  <2>2. PICK a \in Asked : StartBulk(a[1], a[2]) \/ StartCompare(a[1])
    BY <1>1 DEF Request
  <2>3. a[1] \in Nat
    BY <2>2, ApiAssumption
  <2>4. /\ request' = "spawning" /\ items' = Smaller(a[1], MaxItems)
        /\ UNCHANGED <<worker, counted, results>>
    BY <2>2 DEF StartBulk, StartCompare, Accept
  <2> QED BY <2>1, <2>3, <2>4 DEF RequestInv, Live
<1>2. CASE RequestStep
  <2>1. CASE NothingToSpawn
    BY <2>1 DEF NothingToSpawn, RequestInv, Live
  <2>2. CASE WriteResults
    <3>1. Live = {}
      BY <2>2, LiveIsFinite, FS_EmptySet DEF WriteResults, RequestInv
    <3> QED BY <2>2, <3>1 DEF WriteResults, RequestInv, Live
  <2> QED BY <1>2, <2>1, <2>2 DEF RequestStep
<1>3. ASSUME NEW i \in Items, Spawn(i) PROVE RequestInv'
  <2>1. /\ request = "spawning" /\ i <= items /\ worker[i] = "none"
        /\ \A j \in 1 .. i - 1 : worker[j] # "none"
        /\ worker' = [worker EXCEPT ![i] = "queued"] /\ counted' = counted + 1
        /\ request' = IF i = items THEN "waiting" ELSE request
        /\ UNCHANGED <<items, results>>
    BY <1>3 DEF Spawn
  <2>2. worker' \in [Items -> WorkerStates] /\ worker'[i] = "queued" /\ \A j \in Items \ {i} : worker'[j] = worker[j]
    BY <2>1 DEF RequestInv, WorkerStates
  <2>3. Live' = Live \cup {i} /\ i \notin Live
    BY <2>1, <2>2 DEF Live
  <2>4. counted' = Cardinality(Live')
    BY <2>1, <2>3, LiveIsFinite, FS_AddElement DEF RequestInv
  <2>5. i = items => \A j \in 1 .. items : worker'[j] # "none"
    <3>1. i \in Int /\ \A j \in 1 .. items : j \in Items
      BY BulkAssumption DEF RequestInv, Items
    <3>2. ASSUME i = items, NEW j \in 1 .. items PROVE worker'[j] # "none"
      <4>1. CASE j = i
        BY <4>1, <2>2
      <4>2. CASE j # i
        <5>1. j \in 1 .. i - 1
          BY <3>1, <3>2, <4>2 DEF RequestInv
        <5> QED BY <2>1, <2>2, <3>1, <4>2, <5>1
      <4> QED BY <4>1, <4>2
    <3> QED BY <3>2
  <2>6. \A j \in Items : worker'[j] \in {"releasing", "done"} => j \in results'
    BY <2>1, <2>2 DEF RequestInv
  <2> QED BY <2>1, <2>2, <2>4, <2>5, <2>6 DEF RequestInv
<1>4. ASSUME NEW i \in Items, TakeSlot(i) \/ SetResult(i) PROVE RequestInv'
  <2>1. PICK to \in {"working", "releasing"} :
           /\ worker[i] \in {"queued", "working"} /\ worker' = [worker EXCEPT ![i] = to]
           /\ results \subseteq results' /\ (to = "releasing" => i \in results')
           /\ UNCHANGED <<request, items, counted>>
    BY <1>4 DEF TakeSlot, SetResult
  <2>2. i \in Live /\ request # "answered"
    BY <2>1 DEF Live, RequestInv
  <2>3. Live' = Live
    BY <2>1 DEF Live, RequestInv
  <2> QED BY <2>1, <2>2, <2>3, WorkerMoves DEF RequestInv, WorkerStates
<1>5. ASSUME NEW i \in Items, WorkerEnds(i) PROVE RequestInv'
  <2>1. /\ worker[i] = "releasing" /\ worker' = [worker EXCEPT ![i] = "done"] /\ counted' = counted - 1
        /\ UNCHANGED <<request, items, results>>
    BY <1>5 DEF WorkerEnds
  <2>2. i \in Live /\ request # "answered" /\ i \in results
    BY <2>1 DEF Live, RequestInv
  <2>3. Live' = Live \ {i}
    BY <2>1 DEF Live, RequestInv
  <2>4. counted' = Cardinality(Live')
    BY <2>1, <2>2, <2>3, LiveIsFinite, FS_RemoveElement DEF RequestInv
  <2> QED BY <2>1, <2>2, <2>4, WorkerMoves DEF WorkerStates
<1>6. ASSUME NEW i \in Items, WorkerStep(i) PROVE RequestInv'
  <2>1. CASE Spawn(i) \/ TakeSlot(i) \/ SetResult(i) \/ WorkerEnds(i)
    BY <2>1, <1>3, <1>4, <1>5
  <2>2. CASE ~(Spawn(i) \/ TakeSlot(i) \/ SetResult(i) \/ WorkerEnds(i))
    BY <1>0, <1>6, <2>2 DEF WorkerStep, WorkerBegins, LockHistory, Publish, PublishOn, UnlockHistory, Resolved
  <2> QED BY <2>1, <2>2
<1>7. CASE ShutsDown \/ \E s \in Streams : Stream(s) \/ Drain(s) \/ Arrives(s) \/ Turns(s)
  BY <1>0, <1>7 DEF ShutsDown, Stream, Drain, Arrives, Turns
<1> QED BY <1>0, <1>1, <1>2, <1>6, <1>7 DEF Next, vars

(* A request is answered only with whole results that nobody writes to any *)
(* more, for any number of items and of slots.                             *)
THEOREM AnswersAreWhole == Spec => []ResultsAreWhole
<1>1. Init => RequestInv
  <2> SUFFICES ASSUME Init PROVE RequestInv
    OBVIOUS
  <2>1. Live = {}
    BY DEF Init, BulkInit, Live
  <2> QED BY <2>1, FS_EmptySet, BulkAssumption DEF Init, BulkInit, RequestInv, WorkerStates
<1>2. RequestInv => ResultsAreWhole
  <2> SUFFICES ASSUME RequestInv, request = "answered", NEW i \in 1 .. items
               PROVE  i \in results /\ worker[i] = "done"
    BY DEF ResultsAreWhole
  <2>1. i \in Items
    BY BulkAssumption DEF RequestInv, Items
  <2>2. worker[i] \in WorkerStates /\ worker[i] # "none" /\ i \notin Live
    BY <2>1 DEF RequestInv
  <2>3. worker[i] = "done"
    BY <2>1, <2>2 DEF Live, WorkerStates
  <2> QED BY <2>1, <2>3 DEF RequestInv
<1> QED BY <1>1, <1>2, NextKeepsRequest, PTL DEF Spec
=============================================================================
