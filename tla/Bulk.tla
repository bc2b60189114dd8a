-------------------------------- MODULE Bulk --------------------------------
(***************************************************************************)
(* The requests of internal/api/handlers.go that fan out: bulk, which      *)
(* resolves many names with a limit on how many at once, and compare,      *)
(* which asks every server at once.  One goroutine per item writes its own *)
(* place of the results; the handler waits for all of them.                *)
(***************************************************************************)
EXTENDS Integers, FiniteSets

CONSTANTS
    MaxItems,            \* maxBulkQueries, 100 in the code, and maxCompareServers, 8
    DefaultConcurrency,  \* 10 in the code
    MaxConcurrency       \* maxBulkConcurrency: 20 in the code

ASSUME BulkAssumption ==
    MaxItems \in Nat /\ DefaultConcurrency \in Nat \ {0} /\ MaxConcurrency \in Nat \ {0}

Items == 1 .. MaxItems

VARIABLES
    request,  \* "none", "spawning", "waiting" or "answered"
    kind,     \* "bulk" or "compare"
    items,    \* how many items were asked for
    slots,    \* the capacity of sem
    worker,   \* of each item: "none", "queued", "working", "releasing" or "done"
    counted,  \* workers the wait group counts
    results   \* items whose place in the results is written, with an answer or an error

bulkVars == <<request, kind, items, slots, worker, counted, results>>

BulkInit ==
    /\ request = "none" /\ kind = "bulk" /\ items = 0 /\ slots = 0 /\ counted = 0
    /\ worker = [i \in Items |-> "none"]
    /\ results = {}

Smaller(a, b) == IF a < b THEN a ELSE b

(* What the request asks for, within limits and never below 1 while there  *)
(* is an item.                                                             *)
Concurrency(asked, n) ==
    LET limited == Smaller(IF asked <= 0 THEN DefaultConcurrency ELSE asked, MaxConcurrency)
    IN  IF n > 0 THEN Smaller(limited, n) ELSE limited

Accept(which, n, capacity) ==
    /\ request = "none"
    /\ request' = "spawning"
    /\ kind' = which
    /\ items' = n
    /\ slots' = capacity
    /\ UNCHANGED <<worker, counted, results>>

(* More queries than the limit are cut off before the concurrency is set.  *)
StartBulk(n, asked) == LET kept == Smaller(n, MaxItems) IN Accept("bulk", kept, Concurrency(asked, kept))

(* No semaphore: as if there were a slot for everybody.                    *)
StartCompare(n) == n > 0 /\ Accept("compare", Smaller(n, MaxItems), Smaller(n, MaxItems))

(* The worker adds itself to the wait group once it runs.                  *)
Spawn_AddsLate(i) ==
    /\ request = "spawning" /\ i <= items /\ worker[i] = "none"
    /\ \A j \in 1 .. i - 1 : worker[j] # "none"
    /\ worker' = [worker EXCEPT ![i] = "queued"]
    /\ request' = IF i = items THEN "waiting" ELSE request
    /\ UNCHANGED <<kind, items, slots, counted, results>>

(* wg.Add, then the goroutine; after the last one the handler waits.       *)
Spawn(i) ==
    /\ request = "spawning" /\ i <= items /\ worker[i] = "none"
    /\ \A j \in 1 .. i - 1 : worker[j] # "none"
    /\ worker' = [worker EXCEPT ![i] = "queued"]
    /\ counted' = counted + 1
    /\ request' = IF i = items THEN "waiting" ELSE request
    /\ UNCHANGED <<kind, items, slots, results>>

NothingToSpawn ==
    /\ request = "spawning" /\ items = 0
    /\ request' = "waiting"
    /\ UNCHANGED <<kind, items, slots, worker, counted, results>>

Working == {i \in Items : worker[i] \in {"working", "releasing"}}

(* A place in sem.                                                         *)
TakeSlot(i) ==
    /\ worker[i] = "queued" /\ Cardinality(Working) < slots
    /\ worker' = [worker EXCEPT ![i] = "working"]
    /\ UNCHANGED <<request, kind, items, slots, counted, results>>

(* Resolve, or resolveViaServer, came back with an answer or an error.     *)
SetResult(i) ==
    /\ worker[i] = "working"
    /\ results' = results \cup {i}
    /\ worker' = [worker EXCEPT ![i] = "releasing"]
    /\ UNCHANGED <<request, kind, items, slots, counted>>

(* The deferred calls: the slot is given back, then the wait group told.   *)
WorkerEnds(i) ==
    /\ worker[i] = "releasing"
    /\ worker' = [worker EXCEPT ![i] = "done"]
    /\ counted' = counted - 1
    /\ UNCHANGED <<request, kind, items, slots, results>>

WriteResults ==
    /\ request = "waiting" /\ counted = 0
    /\ request' = "answered"
    /\ UNCHANGED <<kind, items, slots, worker, counted, results>>

BulkTypeOK ==
    /\ request \in {"none", "spawning", "waiting", "answered"}
    /\ kind \in {"bulk", "compare"}
    /\ items \in 0 .. MaxItems /\ slots \in Nat /\ counted \in 0 .. MaxItems
    /\ worker \in [Items -> {"none", "queued", "working", "releasing", "done"}]
    /\ results \subseteq Items

(* The results a request is answered with are whole: every item asked for  *)
(* has been resolved, or failed, by the time the handler reads them, and   *)
(* nobody writes to them any more.                                         *)
ResultsAreWhole ==
    request = "answered" =>
        \A i \in 1 .. items : i \in results /\ worker[i] = "done"
=============================================================================
