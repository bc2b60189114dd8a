-------------------------------- MODULE Cache --------------------------------
(***************************************************************************)
(* The answer cache (internal/cache): a map of positive entries threaded   *)
(* on a least-recently-used list, a map of negative entries, the memory    *)
(* estimate, the background refreshes a lookup may start, the settings     *)
(* that can change while the process runs, and the snapshot written at     *)
(* shutdown and read back at startup.                                      *)
(*                                                                         *)
(* Every method runs under the cache's mutex and is one action, except     *)
(* Persist, which releases the lock after copying the entries and then     *)
(* writes and renames a file: a crash may come between any two of those.   *)
(*                                                                         *)
(* An entry's value and lastGood are set together from one message and     *)
(* never separately, so they are one field here.  Hit and miss counters    *)
(* are left out: no operation reads them.                                  *)
(***************************************************************************)
EXTENDS Integers, Sequences, FiniteSets, SequencesExt

CONSTANTS
    Keys,           \* cache keys: a lower-cased name and a type
    Values,         \* messages
    Encodable,      \* the messages that survive encoding to wire format
    KeySize,        \* length of a key
    ValueSize,      \* estimated size of a message (its wire length)
    RCodes,         \* response codes of negative answers
    TTLs,           \* time-to-live values callers ask for
    PersistPath,    \* whether a path for the snapshot is configured
    InitConfig,     \* the limits the process starts with
    Updates,        \* the limits that may be posted at run time
    PrefetchHits,   \* lookups before an entry is worth refreshing: 3 in the code
    PrefetchPart,   \* refresh in the last 1/PrefetchPart of the lifetime: 10 in the code
    MaxRefreshes,   \* bound on refresh goroutines per key
    MaxTime,        \* bound on the clock
    None,           \* no entry, no file, a setting that was not posted
    Partial         \* a file that holds only the beginning of a snapshot

Config ==
    {c \in [maxEntries : Nat \ {0}, minTTL : Nat \ {0}, maxTTL : Nat \ {0},
            staleWindow : Nat, staleMaxAge : Nat] :
        c.minTTL <= c.maxTTL /\ c.staleWindow <= c.staleMaxAge}

(* RuntimeConfigUpdate: any of the limits may be left out.                 *)
ConfigUpdate ==
    [maxEntries : Int \cup {None}, minTTL : Int \cup {None}, maxTTL : Int \cup {None},
     staleWindow : Int \cup {None}, staleMaxAge : Int \cup {None}]

ASSUME CacheAssumption ==
    /\ IsFiniteSet(Keys)
    /\ Encodable \subseteq Values
    /\ KeySize \in [Keys -> Nat]
    /\ ValueSize \in [Values -> Nat]
    /\ TTLs \subseteq Nat
    /\ PersistPath \in BOOLEAN
    /\ InitConfig \in Config
    /\ Updates \subseteq ConfigUpdate
    /\ PrefetchHits \in Nat
    /\ PrefetchPart \in Nat \ {0}
    /\ MaxRefreshes \in Nat
    /\ MaxTime \in Nat

Entry ==
    [value : Values, lastGoodAt : Nat, expiresAt : Nat, staleUntil : Nat,
     hits : 0 .. PrefetchHits, refreshing : BOOLEAN]
NegativeEntry == [rcode : RCodes, expiresAt : Nat]

(* What Persist writes: both maps, in no particular order.                 *)
Snapshot == [items : [Keys -> Entry \cup {None}], negative : [Keys -> NegativeEntry \cup {None}]]

ASSUME NoneAssumption ==
    /\ None \notin Entry \cup NegativeEntry \cup Snapshot \cup Int
    /\ Partial \notin Snapshot \cup {None}

VARIABLES
    now,        \* the clock
    up,         \* the process is running
    config,     \* the limits in force
    lru,        \* keys of the positive entries, most recently used first
    items,      \* the positive entries
    negative,   \* the negative entries
    memory,     \* stats.MemoryBytes
    refreshes,  \* refresh goroutines running per key
    persist,    \* how far the Persist of the shutdown has got
    copy,       \* the entries Persist has copied
    tmp,        \* the temporary file
    file        \* the snapshot file

storeVars == <<lru, items, memory>>
diskVars == <<persist, copy, tmp, file>>
vars == <<now, up, config, storeVars, negative, refreshes, diskVars>>

Files == {None, Partial} \cup Snapshot
PersistSteps == {"idle", "copied", "writing", "written", "done"}

(* memory has no line here: that it is a number follows from MemoryIsExact.*)
TypeOK ==
    /\ now \in Nat
    /\ up \in BOOLEAN
    /\ config \in Config
    /\ lru \in Seq(Keys)
    /\ items \in [Keys -> Entry \cup {None}]
    /\ negative \in [Keys -> NegativeEntry \cup {None}]
    /\ refreshes \in [Keys -> Nat]
    /\ persist \in PersistSteps
    /\ copy \in Snapshot
    /\ tmp \in Files
    /\ file \in Files

Empty == [k \in Keys |-> None]
EmptySnapshot == [items |-> Empty, negative |-> Empty]

Init ==
    /\ now = 0
    /\ up = TRUE
    /\ config = InitConfig
    /\ lru = << >>
    /\ items = Empty
    /\ negative = Empty
    /\ memory = 0
    /\ refreshes = [k \in Keys |-> 0]
    /\ persist = "idle"
    /\ copy = EmptySnapshot
    /\ tmp = None
    /\ file = None

-----------------------------------------------------------------------------
(* The list and the map.                                                   *)

Present(k) == items[k] # None
Position(s, k) == CHOOSE i \in 1 .. Len(s) : s[i] = k
Without(s, k) == RemoveAt(s, Position(s, k))
MoveToFront(s, k) == Cons(k, Without(s, k))

Size(k, v) == KeySize[k] + ValueSize[v]

(* removeElementLocked subtracts the size unless that would underflow.     *)
Released(m, size) == IF m >= size THEN m - size ELSE 0

(* Mutant: the element stays on the list.                                  *)
Drop_MapOnly(k) ==
    /\ items' = [items EXCEPT ![k] = None]
    /\ memory' = Released(memory, Size(k, items[k].value))
    /\ UNCHANGED lru

(* removeElementLocked.                                                    *)
Drop(k) ==
    /\ lru' = Without(lru, k)
    /\ items' = [items EXCEPT ![k] = None]
    /\ memory' = Released(memory, Size(k, items[k].value))

clampTTL(ttl) ==
    IF ttl < config.minTTL THEN config.minTTL
    ELSE IF ttl > config.maxTTL THEN config.maxTTL
    ELSE ttl

NewEntry(v, ttl) ==
    [value |-> v, lastGoodAt |-> now, expiresAt |-> now + clampTTL(ttl),
     staleUntil |-> now + clampTTL(ttl) + config.staleWindow, hits |-> 0, refreshing |-> FALSE]

(* Mutant: the size of the entry replaced is not given back.               *)
Replace_NoRelease(k, v, ttl) ==
    /\ up
    /\ Present(k)
    /\ items' = [items EXCEPT ![k] = NewEntry(v, ttl)]
    /\ lru' = MoveToFront(lru, k)
    /\ memory' = memory + Size(k, v)
    /\ UNCHANGED <<now, up, config, negative, refreshes, diskVars>>

(* Set replaces an entry in place.                                         *)
Replace(k, v, ttl) ==
    /\ up
    /\ Present(k)
    /\ items' = [items EXCEPT ![k] = NewEntry(v, ttl)]
    /\ lru' = MoveToFront(lru, k)
    /\ memory' = (memory - Size(k, items[k].value)) + Size(k, v)
    /\ UNCHANGED <<now, up, config, negative, refreshes, diskVars>>

(* Set adds an entry at the front and, if the list has grown past its      *)
(* bound, evicts the one at the back.                                      *)
Insert(k, v, ttl) ==
    LET grown == Cons(k, lru)
        added == [items EXCEPT ![k] = NewEntry(v, ttl)]
        total == memory + Size(k, v)
        oldest == Last(grown)
        full == Len(grown) > config.maxEntries
    IN
    /\ up
    /\ ~Present(k)
    /\ lru' = IF full THEN Front(grown) ELSE grown
    /\ items' = IF full THEN [added EXCEPT ![oldest] = None] ELSE added
    /\ memory' = IF full THEN Released(total, Size(oldest, added[oldest].value)) ELSE total
    /\ UNCHANGED <<now, up, config, negative, refreshes, diskVars>>

-----------------------------------------------------------------------------
(* Lookups.                                                                *)

Fresh(e) == now < e.expiresAt
Stale(e) == now >= e.expiresAt /\ now < e.staleUntil
WithinMaxAge(e) == now - e.lastGoodAt <= config.staleMaxAge

Hit(e) == [e EXCEPT !.hits = IF e.hits < PrefetchHits THEN e.hits + 1 ELSE e.hits]

(* maybePrefetchLocked, asked of the entry after the hit was counted.      *)
WantsRefresh(e) ==
    /\ ~e.refreshing
    /\ e.hits >= PrefetchHits
    /\ (e.expiresAt - now) * PrefetchPart <= e.expiresAt - e.lastGoodAt

(* Get serves an entry that is fresh or inside its stale window, and may   *)
(* start a goroutine that refreshes it.                                    *)
GetHit(k) ==
    LET e == Hit(items[k]) IN
    /\ up
    /\ Present(k)
    /\ Fresh(e) \/ Stale(e)
    /\ lru' = MoveToFront(lru, k)
    /\ \/ /\ WantsRefresh(e)
          /\ refreshes[k] < MaxRefreshes
          /\ items' = [items EXCEPT ![k] = [e EXCEPT !.refreshing = TRUE]]
          /\ refreshes' = [refreshes EXCEPT ![k] = @ + 1]
       \/ /\ ~WantsRefresh(e)
          /\ items' = [items EXCEPT ![k] = e]
          /\ UNCHANGED refreshes
    /\ UNCHANGED <<now, up, config, memory, negative, diskVars>>

(* Get finds an entry past its stale window but young enough to be served  *)
(* if the upstream servers fail: a miss that keeps the entry.              *)
GetMissKept(k) ==
    LET e == Hit(items[k]) IN
    /\ up
    /\ Present(k)
    /\ ~Fresh(e) /\ ~Stale(e)
    /\ WithinMaxAge(e)
    /\ lru' = MoveToFront(lru, k)
    /\ items' = [items EXCEPT ![k] = e]
    /\ UNCHANGED <<now, up, config, memory, negative, refreshes, diskVars>>

(* Get drops an entry that is of no use any more.                          *)
GetMissDropped(k) ==
    /\ up
    /\ Present(k)
    /\ ~Fresh(items[k]) /\ ~Stale(items[k])
    /\ ~WithinMaxAge(items[k])
    /\ Drop(k)
    /\ UNCHANGED <<now, up, config, negative, refreshes, diskVars>>

(* The deferred function of the refresh goroutine: it clears the mark of   *)
(* whatever entry is stored under the key by then.                         *)
RefreshDone(k) ==
    /\ up
    /\ refreshes[k] > 0
    /\ refreshes' = [refreshes EXCEPT ![k] = @ - 1]
    /\ items' = [items EXCEPT ![k] = IF @ = None THEN None ELSE [@ EXCEPT !.refreshing = FALSE]]
    /\ UNCHANGED <<now, up, config, lru, memory, negative, diskVars>>

(* GetStaleOnError drops an entry that has become too old to be served.    *)
StaleOnErrorDropped(k) ==
    /\ up
    /\ Present(k)
    /\ ~WithinMaxAge(items[k])
    /\ Drop(k)
    /\ UNCHANGED <<now, up, config, negative, refreshes, diskVars>>

SetNegative(k, rcode, ttl) ==
    /\ up
    /\ negative' = [negative EXCEPT ![k] = [rcode |-> rcode, expiresAt |-> now + clampTTL(ttl)]]
    /\ UNCHANGED <<now, up, config, storeVars, refreshes, diskVars>>

(* A negative entry is still served at the instant it expires.             *)
NegativeServed(k) == negative[k] # None /\ now <= negative[k].expiresAt

(* GetNegative removes an entry it finds expired.                          *)
GetNegativeExpired(k) ==
    /\ up
    /\ negative[k] # None
    /\ ~NegativeServed(k)
    /\ negative' = [negative EXCEPT ![k] = None]
    /\ UNCHANGED <<now, up, config, storeVars, refreshes, diskVars>>

-----------------------------------------------------------------------------
(* Administration.                                                         *)

Delete(k) ==
    /\ up
    /\ negative' = [negative EXCEPT ![k] = None]
    /\ \/ Present(k) /\ Drop(k)
       \/ ~Present(k) /\ UNCHANGED storeVars
    /\ UNCHANGED <<now, up, config, refreshes, diskVars>>

Flush ==
    /\ up
    /\ lru' = << >>
    /\ items' = Empty
    /\ negative' = Empty
    /\ memory' = 0
    /\ UNCHANGED <<now, up, config, refreshes, diskVars>>

AtLeast(a, b) == IF a < b THEN b ELSE a

(* A posted limit counts if it is there and not below its minimum.         *)
Posted(value, least, current) == IF value # None /\ value >= least THEN value ELSE current

(* Mutant: the limits are not put in order.                                *)
NewConfig_Unordered(u) ==
    [maxEntries |-> Posted(u.maxEntries, 1, config.maxEntries),
     minTTL |-> Posted(u.minTTL, 1, config.minTTL),
     maxTTL |-> Posted(u.maxTTL, 1, config.maxTTL),
     staleWindow |-> Posted(u.staleWindow, 0, config.staleWindow),
     staleMaxAge |-> Posted(u.staleMaxAge, 0, config.staleMaxAge)]

NewConfig(u) ==
    LET minTTL == Posted(u.minTTL, 1, config.minTTL)
        window == Posted(u.staleWindow, 0, config.staleWindow)
    IN
    [maxEntries |-> Posted(u.maxEntries, 1, config.maxEntries),
     minTTL |-> minTTL,
     maxTTL |-> AtLeast(Posted(u.maxTTL, 1, config.maxTTL), minTTL),
     staleWindow |-> window,
     staleMaxAge |-> AtLeast(Posted(u.staleMaxAge, 0, config.staleMaxAge), window)]

(* Keep the first n of the list: evictOldestLocked until the list fits.    *)
Shortened(s, n) == IF Len(s) > n THEN SubSeq(s, 1, n) ELSE s
Kept(f, s) == [k \in Keys |-> IF k \in Range(s) THEN f[k] ELSE None]

(* The memory left after the entries of s beyond the first n are evicted,  *)
(* oldest first.                                                           *)
ReleasedBeyond(s, f, n, m) ==
    FoldLeft(LAMBDA total, k : Released(total, Size(k, f[k].value)), m,
             Reverse(SubSeq(s, n + 1, Len(s))))

(* Entries already stored keep the times they were given.                  *)
ApplyRuntimeConfig(u) ==
    /\ up
    /\ config' = NewConfig(u)
    /\ lru' = Shortened(lru, config'.maxEntries)
    /\ items' = Kept(items, lru')
    /\ memory' = ReleasedBeyond(lru, items, config'.maxEntries, memory)
    /\ UNCHANGED <<now, up, negative, refreshes, diskVars>>

-----------------------------------------------------------------------------
(* Persistence and restart.                                                *)

(* Persist, called once when the process shuts down, copies both maps      *)
(* under the read lock; entries that cannot be encoded are skipped.        *)
(* Requests and refreshes still running go on using the cache meanwhile.   *)
PersistCopy ==
    /\ up
    /\ PersistPath
    /\ persist = "idle"
    /\ persist' = "copied"
    /\ copy' = [items |-> [k \in Keys |-> IF Present(k) /\ items[k].value \in Encodable
                                          THEN items[k] ELSE None],
                negative |-> negative]
    /\ UNCHANGED <<now, up, config, storeVars, negative, refreshes, tmp, file>>

(* Mutant: the snapshot is written in place.                               *)
PersistOpen_InPlace ==
    /\ up
    /\ persist = "copied"
    /\ persist' = "writing"
    /\ file' = Partial
    /\ UNCHANGED <<now, up, config, storeVars, negative, refreshes, copy, tmp>>

(* os.WriteFile truncates the temporary file and fills it.                 *)
PersistOpen ==
    /\ up
    /\ persist = "copied"
    /\ persist' = "writing"
    /\ tmp' = Partial
    /\ UNCHANGED <<now, up, config, storeVars, negative, refreshes, copy, file>>

PersistWrite ==
    /\ up
    /\ persist = "writing"
    /\ persist' = "written"
    /\ tmp' = copy
    /\ UNCHANGED <<now, up, config, storeVars, negative, refreshes, copy, file>>

(* os.Rename replaces the snapshot file in one step.                       *)
PersistRename ==
    /\ up
    /\ persist = "written"
    /\ persist' = "done"
    /\ file' = tmp
    /\ tmp' = None
    /\ copy' = EmptySnapshot
    /\ UNCHANGED <<now, up, config, storeVars, negative, refreshes>>

(* Persist gives up on an error of the file system.                        *)
PersistFails ==
    /\ up
    /\ persist \in {"copied", "writing", "written"}
    /\ persist' = "done"
    /\ copy' = EmptySnapshot
    /\ UNCHANGED <<now, up, config, storeVars, negative, refreshes, tmp, file>>

(* The process ends or is killed: only the files survive.                  *)
Stop ==
    /\ up
    /\ up' = FALSE
    /\ lru' = << >>
    /\ items' = Empty
    /\ negative' = Empty
    /\ memory' = 0
    /\ refreshes' = [k \in Keys |-> 0]
    /\ persist' = "idle"
    /\ copy' = EmptySnapshot
    /\ config' = InitConfig
    /\ UNCHANGED <<now, tmp, file>>

(* What Load keeps of a snapshot.                                          *)
Loadable(snap) == {k \in Keys : snap.items[k] # None /\ now <= snap.items[k].staleUntil}

(* Mutant: the mark is saved and read back.                                *)
Revived_KeepsMark(snap) ==
    [k \in Keys |-> IF k \in Loadable(snap) THEN snap.items[k] ELSE None]

(* A loaded entry is not being refreshed, whatever it was when saved.      *)
Revived(snap) ==
    [k \in Keys |-> IF k \in Loadable(snap) THEN [snap.items[k] EXCEPT !.refreshing = FALSE]
                   ELSE None]

SumOfSizes(f, s) == FoldLeft(LAMBDA sum, k : sum + Size(k, f[k].value), 0, s)

NegativeLoaded(snap) ==
    [k \in Keys |-> IF snap.negative[k] # None /\ now < snap.negative[k].expiresAt
                   THEN snap.negative[k] ELSE None]

(* Mutant: the snapshot is loaded whole.                                   *)
LoadSnapshot_NoEviction(snap, order) ==
    /\ lru' = order
    /\ items' = Revived(snap)
    /\ memory' = SumOfSizes(Revived(snap), order)
    /\ negative' = NegativeLoaded(snap)

(* Mutant: what is evicted still counts as memory.                         *)
LoadSnapshot_CountsEvicted(snap, order) ==
    /\ lru' = Shortened(order, config.maxEntries)
    /\ items' = Kept(Revived(snap), lru')
    /\ memory' = SumOfSizes(Revived(snap), order)
    /\ negative' = NegativeLoaded(snap)

(* Load: the entries come back in the order of the file, which is that of  *)
(* a Go map, and those beyond the bound are evicted.                       *)
LoadSnapshot(snap, order) ==
    /\ lru' = Shortened(order, config.maxEntries)
    /\ items' = Kept(Revived(snap), lru')
    /\ memory' = ReleasedBeyond(order, Revived(snap), config.maxEntries,
                               SumOfSizes(Revived(snap), order))
    /\ negative' = NegativeLoaded(snap)

(* Startup: a missing or unreadable file leaves the cache empty.           *)
StartEmpty ==
    /\ ~up
    /\ file \in {None, Partial}
    /\ up' = TRUE
    /\ UNCHANGED <<now, config, storeVars, negative, refreshes, diskVars>>

StartLoad ==
    /\ ~up
    /\ file \notin {None, Partial}
    /\ up' = TRUE
    /\ \E order \in Bijection(1 .. Cardinality(Loadable(file)), Loadable(file)) :
          LoadSnapshot(file, order)
    /\ UNCHANGED <<now, config, refreshes, diskVars>>

Tick ==
    /\ now < MaxTime
    /\ now' = now + 1
    /\ UNCHANGED <<up, config, storeVars, negative, refreshes, diskVars>>

-----------------------------------------------------------------------------
Lookup(k) ==
    \/ GetHit(k)
    \/ GetMissKept(k)
    \/ GetMissDropped(k)
    \/ StaleOnErrorDropped(k)
    \/ GetNegativeExpired(k)

Next ==
    \/ \E k \in Keys, v \in Values, ttl \in TTLs : Replace(k, v, ttl) \/ Insert(k, v, ttl)
    \/ \E k \in Keys, rcode \in RCodes, ttl \in TTLs : SetNegative(k, rcode, ttl)
    \/ \E k \in Keys : Lookup(k) \/ RefreshDone(k) \/ Delete(k)
    \/ \E u \in Updates : ApplyRuntimeConfig(u)
    \/ Flush
    \/ PersistCopy \/ PersistOpen \/ PersistWrite \/ PersistRename \/ PersistFails
    \/ Stop \/ StartEmpty \/ StartLoad
    \/ Tick

Spec == Init /\ [][Next]_vars

-----------------------------------------------------------------------------
(* Properties.                                                             *)

(* The cache never holds more entries than its limit, though Set evicts    *)
(* at most one entry and the limit can be lowered at any time.             *)
WithinCapacity == Len(lru) <= config.maxEntries

(* The recency list and the map agree: the list names every stored key     *)
(* exactly once.  A key listed but not stored would make the eviction loop *)
(* dereference a removed entry; one stored but not listed never leaves.    *)
ListMatchesMap ==
    /\ \A k \in Keys : Present(k) <=> k \in Range(lru)
    /\ IsInjective(lru)

(* The memory estimate is the sum of the sizes of the stored entries, after*)
(* any sequence of replacement, eviction, expiry, reload and resizing; so  *)
(* the guard against underflow never hides a loss.                         *)
MemoryIsExact ==
    memory = SumOfSizes(items, lru)

(* An entry marked as being refreshed has a goroutine that will clear the  *)
(* mark; otherwise it would never be refreshed again.                      *)
RefreshHasOwner ==
    \A k \in Keys : (Present(k) /\ items[k].refreshing) => refreshes[k] > 0

(* A crash at any point of Persist leaves no half-written snapshot behind. *)
SnapshotIsWhole == file # Partial
=============================================================================
