------------------------------- MODULE Resolver -------------------------------
(***************************************************************************)
(* Resolve of internal/resolver/resolver.go over the cache: concurrent     *)
(* requests and background refreshes look a name up in the blocklist, the  *)
(* negative and the positive entries, resolve it otherwise, store what     *)
(* they learned and note a trace.                                          *)
(*                                                                         *)
(* The cache is the module Cache, one of whose actions is taken at every   *)
(* call Resolve makes of it; its limits do not change here and nothing is  *)
(* persisted, which Cache itself covers.  The walk to the authoritative    *)
(* servers is RecursiveWalk's business: here it fails, brings an error     *)
(* code or brings what is true at that moment, and what is true may change *)
(* at any time.                                                            *)
(***************************************************************************)
EXTENDS Integers, Sequences, FiniteSets, SequencesExt

CONSTANTS
    Keys,           \* cache keys: a lower-cased name and a type
    Values,         \* answers
    Denials,        \* NXDOMAIN and NODATA
    TTLs,           \* times to live in responses
    InitConfig,     \* limits of the cache
    RefreshKey,     \* the key the refresh callback resolves for a key
    PrefetchHits,   \* lookups before an entry is worth refreshing: 3 in the code
    PrefetchPart,   \* refresh in the last 1/PrefetchPart of the lifetime: 10 in the code
    Requests,       \* goroutines in Resolve
    QueryIDs,       \* ids of queries in the history
    HistorySize,    \* queries remembered: 1000 in the code
    MaxTime,        \* bound on the clock
    None,           \* no entry, nothing
    Partial         \* a file that holds only the beginning of a snapshot

ASSUME ResolverAssumption ==
    /\ TTLs \subseteq Nat
    /\ RefreshKey \in [Keys -> Keys]
    /\ HistorySize \in Nat \ {0}
    /\ Values \cap Denials = {}
    /\ None \notin Values \cup Denials \cup Keys \cup QueryIDs \cup Int

VARIABLES
    now, lru, items, negative, memory, refreshes,   \* those of Cache that change here
    up, config, persist, copy, tmp, file,           \* those of Cache that do not
    pc,         \* per request: where Resolve is
    key,        \* per request: what it asks for
    id,         \* per request: its query id
    origin,     \* per request: the key whose entry it refreshes, or None for a client's
    reply,      \* per request: what was found, and where
    blocked,    \* keys whose names are on the blocklist
    history,    \* ids of the queries remembered, oldest first
    traces,     \* ids of the queries whose events are kept
    truth,      \* what the authoritative servers say
    ended,      \* when a fact stopped to be true
    learned     \* when an answer was last stored, None if it was removed on purpose

fixedVars == <<up, config, persist, copy, tmp, file>>
cacheVars == <<lru, items, negative, memory, refreshes, fixedVars>>
requestVars == <<pc, key, id, origin, reply>>
logVars == <<history, traces>>
worldVars == <<truth, ended, learned>>
vars == <<now, cacheVars, requestVars, blocked, logVars, worldVars>>

Store == INSTANCE Cache WITH
    Encodable <- Values, KeySize <- [k \in Keys |-> 1], ValueSize <- [v \in Values |-> 1],
    RCodes <- Denials, PersistPath <- FALSE, Updates <- {}, MaxRefreshes <- Cardinality(Requests)

(* What Cache assumes of its constants.                                    *)
ASSUME StoreAssumption ==
    /\ IsFiniteSet(Keys) /\ IsFiniteSet(Requests)
    /\ InitConfig \in Store!Config
    /\ PrefetchHits \in Nat /\ PrefetchPart \in Nat \ {0}
    /\ MaxTime \in Nat
    /\ None \notin Store!Entry \cup Store!NegativeEntry \cup Store!Snapshot \cup Int
    /\ Partial \notin Store!Snapshot \cup {None}

Facts == Values \cup Denials
Stages == {"idle", "start", "negative", "positive", "walk", "store", "publish", "refreshed"}
Sources == {"blocklist", "negative", "fresh", "stale", "upstream", "rcode", "last good", "servfail"}
Replies == [fact : Facts \cup {None}, from : Sources]

TypeOK ==
    /\ now \in 0 .. MaxTime
    /\ pc \in [Requests -> Stages]
    /\ key \in [Requests -> Keys]
    /\ id \in [Requests -> QueryIDs \cup {None}]
    /\ origin \in [Requests -> Keys \cup {None}]
    /\ reply \in [Requests -> Replies \cup {None}]
    /\ \A r \in Requests :
          /\ pc[r] = "idle" => id[r] = None /\ origin[r] = None
          /\ reply[r] # None <=> pc[r] \in {"store", "publish", "refreshed"}
    /\ blocked \subseteq Keys
    /\ history \in Seq(QueryIDs)
    /\ traces \subseteq QueryIDs
    /\ truth \in [Keys -> Facts]
    /\ ended \in [Keys -> [Facts -> Nat \cup {None}]]
    /\ learned \in [Keys -> Nat \cup {None}]

Init ==
    /\ Store!Init
    /\ pc = [r \in Requests |-> "idle"]
    /\ key \in [Requests -> Keys]
    /\ id = [r \in Requests |-> None]
    /\ origin = [r \in Requests |-> None]
    /\ reply = [r \in Requests |-> None]
    /\ blocked = {}
    /\ history = << >>
    /\ traces = {}
    /\ truth \in [Keys -> Facts]
    /\ ended = [k \in Keys |-> [f \in Facts |-> None]]
    /\ learned = [k \in Keys |-> None]
-----------------------------------------------------------------------------
(* Resolve.                                                                *)

Fresh(i) == i \notin Range(history) /\ \A r \in Requests : id[r] # i

(* A client's question arrives; it gets an id of its own.                  *)
Ask(r, k, i) ==
    /\ pc[r] = "idle"
    /\ Fresh(i)
    /\ pc' = [pc EXCEPT ![r] = "start"]
    /\ key' = [key EXCEPT ![r] = k]
    /\ id' = [id EXCEPT ![r] = i]
    /\ UNCHANGED <<now, cacheVars, origin, reply, blocked, logVars, worldVars>>

(* Resolve has what it will return.                                        *)
Found(r, fact, from) ==
    /\ reply' = [reply EXCEPT ![r] = [fact |-> fact, from |-> from]]
    /\ pc' = [pc EXCEPT ![r] = "publish"]

(* How names match the lines of the list is left to the set.               *)
IsBlocked(k) == k \in blocked

(* A blocked name is answered at once; nothing is stored for it.           *)
CheckBlocklist(r) ==
    /\ pc[r] = "start"
    /\ \/ IsBlocked(key[r]) /\ Found(r, None, "blocklist")
       \/ ~IsBlocked(key[r]) /\ pc' = [pc EXCEPT ![r] = "negative"] /\ UNCHANGED reply
    /\ UNCHANGED <<now, cacheVars, key, id, origin, blocked, logVars, worldVars>>

(* GetNegative: a denial is served before the answers are looked at.       *)
ServeNegative(r) ==
    /\ pc[r] = "negative"
    /\ Store!NegativeServed(key[r])
    /\ Found(r, negative[key[r]].rcode, "negative")
    /\ UNCHANGED <<now, cacheVars, key, id, origin, blocked, logVars, worldVars>>

PassNegative(r) ==
    /\ pc[r] = "negative"
    /\ \/ Store!GetNegativeExpired(key[r])
       \/ negative[key[r]] = None /\ UNCHANGED <<now, cacheVars>>
    /\ pc' = [pc EXCEPT ![r] = "positive"]
    /\ UNCHANGED <<key, id, origin, reply, blocked, logVars, worldVars>>

(* Get finds an answer to serve.                                           *)
HitEntry(r) ==
    /\ pc[r] = "positive"
    /\ Store!GetHit(key[r])
    /\ reply' = [reply EXCEPT ![r] = [fact |-> items[key[r]].value,
                                      from |-> IF Store!Fresh(items[key[r]]) THEN "fresh" ELSE "stale"]]

ServeHit(r) ==
    /\ HitEntry(r)
    /\ refreshes' = refreshes
    /\ pc' = [pc EXCEPT ![r] = "publish"]
    /\ UNCHANGED <<key, id, origin, blocked, logVars, worldVars>>

(* The hit also starts a goroutine, which calls Resolve in its turn.       *)
ServeHitAndRefresh(r, f, i) ==
    /\ HitEntry(r)
    /\ refreshes' # refreshes
    /\ pc[f] = "idle"
    /\ Fresh(i)
    /\ pc' = [pc EXCEPT ![r] = "publish", ![f] = "start"]
    /\ key' = [key EXCEPT ![f] = RefreshKey[key[r]]]
    /\ id' = [id EXCEPT ![f] = i]
    /\ origin' = [origin EXCEPT ![f] = key[r]]
    /\ UNCHANGED <<blocked, logVars, worldVars>>

(* Mutant: what is past its stale window is thrown away.                   *)
Miss_Drops(r) ==
    /\ pc[r] = "positive"
    /\ \/ /\ items[key[r]] # None
          /\ ~Store!Fresh(items[key[r]]) /\ ~Store!Stale(items[key[r]])
          /\ Store!Drop(key[r])
          /\ UNCHANGED <<now, negative, refreshes, fixedVars>>
       \/ items[key[r]] = None /\ UNCHANGED <<now, cacheVars>>
    /\ pc' = [pc EXCEPT ![r] = "walk"]
    /\ UNCHANGED <<key, id, origin, reply, blocked, logVars, worldVars>>

(* Get misses.                                                             *)
Miss(r) ==
    /\ pc[r] = "positive"
    /\ \/ Store!GetMissKept(key[r])
       \/ Store!GetMissDropped(key[r])
       \/ items[key[r]] = None /\ UNCHANGED <<now, cacheVars>>
    /\ pc' = [pc EXCEPT ![r] = "walk"]
    /\ UNCHANGED <<key, id, origin, reply, blocked, logVars, worldVars>>

(* The walk brings what is true when the last server answers.              *)
WalkAnswers(r) ==
    /\ pc[r] = "walk"
    /\ reply' = [reply EXCEPT ![r] = [fact |-> truth[key[r]], from |-> "upstream"]]
    /\ pc' = [pc EXCEPT ![r] = "store"]
    /\ UNCHANGED <<now, cacheVars, key, id, origin, blocked, logVars, worldVars>>

(* The walk brings a response that is not cached: an error code, or        *)
(* neither an answer nor a denial.                                         *)
WalkBringsNothing(r) ==
    /\ pc[r] = "walk"
    /\ Found(r, None, "rcode")
    /\ UNCHANGED <<now, cacheVars, key, id, origin, blocked, logVars, worldVars>>

(* Mutant: the age of the last answer is not looked at.                    *)
ServeLastGood_AnyAge(r) ==
    /\ pc[r] = "walk"
    /\ items[key[r]] # None
    /\ Found(r, items[key[r]].value, "last good")
    /\ UNCHANGED <<now, cacheVars, key, id, origin, blocked, logVars, worldVars>>

(* The walk fails: GetStaleOnError offers the last answer if it is young   *)
(* enough.                                                                 *)
ServeLastGood(r) ==
    LET e == items[key[r]] IN
    /\ pc[r] = "walk"
    /\ e # None
    /\ Store!WithinMaxAge(e)
    /\ Found(r, e.value, "last good")
    /\ UNCHANGED <<now, cacheVars, key, id, origin, blocked, logVars, worldVars>>

Fail(r) ==
    /\ pc[r] = "walk"
    /\ \/ Store!StaleOnErrorDropped(key[r])
       \/ items[key[r]] = None /\ UNCHANGED <<now, cacheVars>>
    /\ Found(r, None, "servfail")
    /\ UNCHANGED <<key, id, origin, blocked, logVars, worldVars>>

(* SetNegative for a denial, Set for an answer, for the time the response  *)
(* names.  An answer leaves a denial of the same key where it is, and a    *)
(* denial an answer.                                                       *)
StoreResult(r, ttl) ==
    LET k == key[r]
        fact == reply[r].fact
    IN
    /\ pc[r] = "store"
    /\ \/ fact \in Denials /\ Store!SetNegative(k, fact, ttl) /\ UNCHANGED learned
       \/ /\ fact \in Values
          /\ Store!Replace(k, fact, ttl) \/ Store!Insert(k, fact, ttl)
          /\ learned' = [j \in Keys |-> IF j = k THEN now ELSE IF items'[j] = None THEN None
                                        ELSE learned[j]]
    /\ pc' = [pc EXCEPT ![r] = "publish"]
    /\ UNCHANGED <<key, id, origin, reply, blocked, logVars, truth, ended>>

(* Mutant: the events of a forgotten query are kept.                       *)
Publish_KeepsTrace(r) ==
    LET full == Len(history) >= HistorySize IN
    /\ pc[r] = "publish"
    /\ history' = Append(IF full THEN Tail(history) ELSE history, id[r])
    /\ traces' = traces \cup {id[r]}
    /\ id' = [id EXCEPT ![r] = None]
    /\ pc' = [pc EXCEPT ![r] = IF origin[r] = None THEN "idle" ELSE "refreshed"]
    /\ reply' = [reply EXCEPT ![r] = IF origin[r] = None THEN None ELSE @]
    /\ UNCHANGED <<now, cacheVars, key, origin, blocked, worldVars>>

(* publishTrace: the query is remembered, and the oldest forgotten with    *)
(* its events when the history is full.  Then Resolve returns.             *)
Publish(r) ==
    LET full == Len(history) >= HistorySize IN
    /\ pc[r] = "publish"
    /\ history' = Append(IF full THEN Tail(history) ELSE history, id[r])
    /\ traces' = (IF full THEN traces \ {Head(history)} ELSE traces) \cup {id[r]}
    /\ id' = [id EXCEPT ![r] = None]
    /\ pc' = [pc EXCEPT ![r] = IF origin[r] = None THEN "idle" ELSE "refreshed"]
    /\ reply' = [reply EXCEPT ![r] = IF origin[r] = None THEN None ELSE @]
    /\ UNCHANGED <<now, cacheVars, key, origin, blocked, worldVars>>

(* Mutant: the goroutine ends and the mark stays.                          *)
FinishRefresh_KeepsMark(r) ==
    /\ pc[r] = "refreshed"
    /\ refreshes' = [refreshes EXCEPT ![origin[r]] = @ - 1]
    /\ pc' = [pc EXCEPT ![r] = "idle"]
    /\ origin' = [origin EXCEPT ![r] = None]
    /\ reply' = [reply EXCEPT ![r] = None]
    /\ UNCHANGED <<now, lru, items, negative, memory, fixedVars, key, id, blocked, logVars, worldVars>>

(* The callback is over and its goroutine takes the mark away.             *)
FinishRefresh(r) ==
    /\ pc[r] = "refreshed"
    /\ Store!RefreshDone(origin[r])
    /\ pc' = [pc EXCEPT ![r] = "idle"]
    /\ origin' = [origin EXCEPT ![r] = None]
    /\ reply' = [reply EXCEPT ![r] = None]
    /\ UNCHANGED <<key, id, blocked, logVars, worldVars>>

-----------------------------------------------------------------------------
(* Administration and the world.                                           *)

DeleteEntry(k) ==
    /\ Store!Delete(k)
    /\ learned' = [learned EXCEPT ![k] = None]
    /\ UNCHANGED <<requestVars, blocked, logVars, truth, ended>>

FlushCache ==
    /\ Store!Flush
    /\ learned' = [k \in Keys |-> None]
    /\ UNCHANGED <<requestVars, blocked, logVars, truth, ended>>

ReplaceBlocklist(names) ==
    /\ names # blocked
    /\ blocked' = names
    /\ UNCHANGED <<now, cacheVars, requestVars, logVars, worldVars>>

(* The owner of a zone changes it.                                         *)
ChangeZone(k, fact) ==
    /\ truth[k] # fact
    /\ truth' = [truth EXCEPT ![k] = fact]
    /\ ended' = [ended EXCEPT ![k][truth[k]] = now]
    /\ UNCHANGED <<now, cacheVars, requestVars, blocked, logVars, learned>>

(* The clock's unit is long against the time a result is in hand.          *)
PassTime ==
    /\ \A r \in Requests : pc[r] \notin {"store", "publish"}
    /\ Store!Tick
    /\ UNCHANGED <<requestVars, blocked, logVars, worldVars>>

-----------------------------------------------------------------------------
Step(r) ==
    \/ CheckBlocklist(r)
    \/ ServeNegative(r)
    \/ PassNegative(r)
    \/ ServeHit(r)
    \/ \E f \in Requests, i \in QueryIDs : ServeHitAndRefresh(r, f, i)
    \/ Miss(r)
    \/ WalkAnswers(r)
    \/ WalkBringsNothing(r)
    \/ ServeLastGood(r)
    \/ Fail(r)
    \/ \E ttl \in TTLs : StoreResult(r, ttl)
    \/ Publish(r)
    \/ FinishRefresh(r)

Next ==
    \/ \E r \in Requests, k \in Keys, i \in QueryIDs : Ask(r, k, i)
    \/ \E r \in Requests : Step(r)
    \/ \E k \in Keys : DeleteEntry(k)
    \/ FlushCache
    \/ \E names \in SUBSET Keys : ReplaceBlocklist(names)
    \/ \E k \in Keys, fact \in Facts : ChangeZone(k, fact)
    \/ PassTime

Spec == Init /\ [][Next]_vars

-----------------------------------------------------------------------------
(* Properties.                                                             *)

(* How long a fact has been untrue.                                        *)
Outdated(k, fact) == IF truth[k] = fact THEN 0 ELSE now - ended[k][fact]
WasTrue(k, fact) == truth[k] = fact \/ ended[k][fact] # None

(* How outdated a reply may be, by where it was found.                     *)
Allowance(from) ==
    CASE from \in {"negative", "fresh"} -> InitConfig.maxTTL
      [] from = "stale" -> InitConfig.maxTTL + InitConfig.staleWindow
      [] from = "last good" -> InitConfig.staleMaxAge
      [] from = "upstream" -> 0

(* Nothing is made up and nothing is served for too long: whatever Resolve *)
(* returns was said by the authoritative servers of that very name, no     *)
(* longer ago than the limits allow, though requests, refreshes, deletions *)
(* and changes of the zone interleave at will.                             *)
NothingOutlivesItsLimit ==
    \A r \in Requests :
        (pc[r] = "publish" /\ reply[r].fact # None) =>
            /\ WasTrue(key[r], reply[r].fact)
            /\ Outdated(key[r], reply[r].fact) <= Allowance(reply[r].from)

(* A resolution that fails upstream ends in an error only if no answer was *)
(* stored for the key in the last staleMaxAge, or it was removed since: no *)
(* lookup before it throws the last good answer away.                      *)
ErrorMeansNothingKnown ==
    [][\A r \in Requests :
          (pc[r] = "walk" /\ pc'[r] = "publish" /\ reply'[r].from = "servfail") =>
              \/ learned[key[r]] = None
              \/ now - learned[key[r]] > InitConfig.staleMaxAge]_vars

(* The events kept are exactly those of the queries in the history, which  *)
(* stays within its bound.                                                 *)
TracesMatchHistory ==
    /\ Len(history) <= HistorySize
    /\ traces = Range(history)

(* An entry that is marked as being refreshed has a goroutine in Resolve   *)
(* that was started for that very key and takes the mark away in the end   *)
(* (cache.go:221): otherwise it would never be refreshed again.  The entry *)
(* may have been replaced, deleted and stored again since, another refresh *)
(* of the key may have started or ended meanwhile, and what the goroutine  *)
(* resolves need not be the key it was started for (resolver.go:148).      *)
MarkHasRefresher ==
    \A k \in Keys : (items[k] # None /\ items[k].refreshing) => \E r \in Requests : origin[r] = k
=============================================================================
