------------------------------ MODULE EventHub ------------------------------
(***************************************************************************)
(* The hubs events are published through: EventHub of                      *)
(* internal/resolver/pipeline.go, and the querySubs of                     *)
(* internal/server/handler.go, which are the same code for another type.   *)
(*                                                                         *)
(* A publisher holds the lock for reading while it offers its event to one *)
(* subscriber after the other; whoever subscribes or leaves needs it for   *)
(* writing.  The lock is Go's RWMutex: readers share it, and once somebody *)
(* waits to write no further reader gets in.                               *)
(***************************************************************************)
EXTENDS Integers, FiniteSets

CONSTANTS
    Streams,     \* subscribers, each with a channel of its own
    Publishers,  \* goroutines that publish
    Buffer       \* events a channel holds: 256 in the code

ASSUME HubAssumption == Buffer \in Nat \ {0}

VARIABLES
    subs,     \* the subscribers
    queued,   \* how many events each channel holds
    closed,   \* channels that were closed
    readers,  \* publishers that hold the lock for reading
    offers    \* subscribers each of them still has to offer its event to

hubVars == <<subs, queued, closed, readers, offers>>

HubInit ==
    /\ subs = {} /\ closed = {} /\ readers = {}
    /\ queued = [s \in Streams |-> 0]
    /\ offers = [p \in Publishers |-> {}]

Subscribe(s) ==
    /\ readers = {}
    /\ subs' = subs \cup {s}
    /\ UNCHANGED <<queued, closed, readers, offers>>

(* The channel leaves the map and is closed without the lock.              *)
Unsubscribe_Unlocked(s) ==
    /\ subs' = subs \ {s}
    /\ closed' = closed \cup (subs \cap {s})
    /\ UNCHANGED <<queued, readers, offers>>

Unsubscribe(s) ==
    /\ readers = {}
    /\ subs' = subs \ {s}
    /\ closed' = closed \cup (subs \cap {s})
    /\ UNCHANGED <<queued, readers, offers>>

(* Publish: the lock, if nobody waits to write.                            *)
PublishBegin(p, writersWait) ==
    /\ p \notin readers /\ ~writersWait
    /\ readers' = readers \cup {p}
    /\ offers' = [offers EXCEPT ![p] = subs]
    /\ UNCHANGED <<subs, queued, closed>>

(* The send waits for room.                                                *)
Offer_Waits(p, s) ==
    /\ s \in offers[p] /\ queued[s] < Buffer
    /\ queued' = [queued EXCEPT ![s] = @ + 1]
    /\ offers' = [offers EXCEPT ![p] = @ \ {s}]
    /\ UNCHANGED <<subs, closed, readers>>

(* An event for a subscriber whose channel is full is lost to it.          *)
Offer(p, s) ==
    /\ s \in offers[p]
    /\ queued' = [queued EXCEPT ![s] = IF @ < Buffer THEN @ + 1 ELSE @]
    /\ offers' = [offers EXCEPT ![p] = @ \ {s}]
    /\ UNCHANGED <<subs, closed, readers>>

PublishEnd(p) ==
    /\ p \in readers /\ offers[p] = {}
    /\ readers' = readers \ {p}
    /\ UNCHANGED <<subs, queued, closed, offers>>

Receive(s) ==
    /\ queued[s] > 0
    /\ queued' = [queued EXCEPT ![s] = @ - 1]
    /\ UNCHANGED <<subs, closed, readers, offers>>

HubTypeOK ==
    /\ subs \subseteq Streams /\ closed \subseteq Streams /\ readers \subseteq Publishers
    /\ queued \in [Streams -> 0 .. Buffer]
    /\ offers \in [Publishers -> SUBSET Streams]
=============================================================================
