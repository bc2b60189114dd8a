---------------------------- MODULE ResolverProofs ----------------------------
(***************************************************************************)
(* Proofs about Resolver, for any number of requests, keys and answers.    *)
(*                                                                         *)
(* That the traces match the history rests on the ids: a query's id is its *)
(* own from the moment it starts until the query is forgotten.             *)
(*                                                                         *)
(* That nothing outlives its limit follows from when things ceased to be   *)
(* true: an entry was true when it was learned and says when that was, and *)
(* a request on its way out holds what was true within its allowance.      *)
(* That failures are honest needs, beside this, that learned is the age of *)
(* the entry, and what CacheProofs shows of the cache: its invariant is    *)
(* taken over here for the cache that Resolve uses.  That refresh marks    *)
(* have their goroutine needs that an idle one refreshes nothing, so that  *)
(* starting one takes none away.                                           *)
(***************************************************************************)
EXTENDS Resolver, SequenceTheorems, FiniteSetTheorems, TLAPS

RequestsOK ==
    /\ pc \in [Requests -> Stages]
    /\ key \in [Requests -> Keys]
    /\ origin \in [Requests -> Keys \cup {None}]
    /\ \A r \in Requests : pc[r] = "refreshed" => origin[r] # None
    /\ \A r \in Requests : pc[r] = "idle" => origin[r] = None

(* A step that moves one request and leaves what it asks for alone.        *)
LEMMA RequestMoves ==
  ASSUME RequestsOK, UNCHANGED <<key, origin>>,
         NEW r \in Requests, NEW stage \in Stages \ {"refreshed", "idle"}, pc' = [pc EXCEPT ![r] = stage]
  PROVE  RequestsOK'
<1>1. pc' \in [Requests -> Stages] /\ pc'[r] = stage /\ \A q \in Requests \ {r} : pc'[q] = pc[q]
  BY DEF RequestsOK
<1> QED BY <1>1 DEF RequestsOK

LEMMA StepKeepsRequests ==
  ASSUME RequestsOK, NEW r \in Requests, Step(r)
  PROVE  RequestsOK'
<1> USE DEF Stages
<1>1. CASE \/ CheckBlocklist(r) \/ ServeNegative(r) \/ PassNegative(r) \/ ServeHit(r) \/ Miss(r)
           \/ WalkAnswers(r) \/ WalkBringsNothing(r) \/ ServeLastGood(r) \/ Fail(r)
           \/ \E ttl \in TTLs : StoreResult(r, ttl)
  <2>1. UNCHANGED <<key, origin>> /\ \E stage \in Stages \ {"refreshed", "idle"} : pc' = [pc EXCEPT ![r] = stage]
    BY <1>1 DEF CheckBlocklist, ServeNegative, PassNegative, ServeHit, Miss, WalkAnswers,
                WalkBringsNothing, ServeLastGood, Fail, StoreResult, Found
  <2> QED BY <2>1, RequestMoves
<1>2. ASSUME NEW f \in Requests, NEW i \in QueryIDs, ServeHitAndRefresh(r, f, i) PROVE RequestsOK'
  <2>1. /\ pc' = [pc EXCEPT ![r] = "publish", ![f] = "start"]
        /\ key' = [key EXCEPT ![f] = RefreshKey[key[r]]]
        /\ origin' = [origin EXCEPT ![f] = key[r]]
    BY <1>2 DEF ServeHitAndRefresh
  <2>2. key[r] \in Keys /\ RefreshKey[key[r]] \in Keys
    BY ResolverAssumption DEF RequestsOK
  <2>3. pc' \in [Requests -> Stages] /\ key' \in [Requests -> Keys] /\ origin' \in [Requests -> Keys \cup {None}]
    BY <2>1, <2>2 DEF RequestsOK
  <2>4. ASSUME NEW q \in Requests, pc'[q] = "refreshed" PROVE origin'[q] # None
    BY <2>1, <2>4 DEF RequestsOK
  <2>5. ASSUME NEW q \in Requests, pc'[q] = "idle" PROVE origin'[q] = None
    BY <2>1, <2>5 DEF RequestsOK
  <2> QED BY <2>3, <2>4, <2>5 DEF RequestsOK
<1>3. CASE Publish(r)
  <2>1. /\ pc' = [pc EXCEPT ![r] = IF origin[r] = None THEN "idle" ELSE "refreshed"]
        /\ UNCHANGED <<key, origin>>
    BY <1>3 DEF Publish
  <2> QED BY <2>1 DEF RequestsOK
<1>4. CASE FinishRefresh(r)
  <2>1. /\ pc' = [pc EXCEPT ![r] = "idle"] /\ origin' = [origin EXCEPT ![r] = None]
        /\ UNCHANGED key
    BY <1>4 DEF FinishRefresh
  <2> QED BY <2>1 DEF RequestsOK
<1> QED BY <1>1, <1>2, <1>3, <1>4 DEF Step

LEMMA NextKeepsRequests == RequestsOK /\ [Next]_vars => RequestsOK'
<1> SUFFICES ASSUME RequestsOK, [Next]_vars PROVE RequestsOK'
  OBVIOUS
<1>0. CASE UNCHANGED requestVars
  BY <1>0 DEF RequestsOK, requestVars
<1>1. ASSUME NEW r \in Requests, NEW k \in Keys, NEW i \in QueryIDs, Ask(r, k, i) PROVE RequestsOK'
  <2>1. pc' = [pc EXCEPT ![r] = "start"] /\ key' = [key EXCEPT ![r] = k] /\ UNCHANGED origin
    BY <1>1 DEF Ask
  <2> QED BY <2>1 DEF RequestsOK, Stages
<1>2. CASE \/ \E k \in Keys : DeleteEntry(k)
           \/ FlushCache
           \/ \E names \in SUBSET Keys : ReplaceBlocklist(names)
           \/ \E k \in Keys, fact \in Facts : ChangeZone(k, fact)
           \/ PassTime
  BY <1>0, <1>2 DEF DeleteEntry, FlushCache, ReplaceBlocklist, ChangeZone, PassTime
<1>3. CASE UNCHANGED vars
  BY <1>0, <1>3 DEF vars
<1> QED BY <1>1, <1>2, <1>3, StepKeepsRequests DEF Next
-----------------------------------------------------------------------------
(* The history.                                                            *)

Ids == QueryIDs \cup {None}

HistoryOK ==
    /\ pc \in [Requests -> Stages]
    /\ id \in [Requests -> Ids]
    /\ history \in Seq(QueryIDs) /\ IsInjective(history) /\ Len(history) <= HistorySize
    /\ traces = Range(history)
    /\ \A r \in Requests : pc[r] \notin {"idle", "refreshed"} => id[r] # None
    /\ \A r \in Requests : id[r] # None => id[r] \notin Range(history)
    /\ \A r, q \in Requests : r # q /\ id[r] # None => id[q] # id[r]

(* What forgetting the oldest and appending a new one do to a history in   *)
(* which nothing occurs twice.                                             *)
LEMMA ForgetOldest ==
  ASSUME NEW S, NEW s \in Seq(S), s # << >>, IsInjective(s)
  PROVE  /\ Tail(s) \in Seq(S) /\ Len(Tail(s)) = Len(s) - 1
         /\ IsInjective(Tail(s)) /\ Range(Tail(s)) = Range(s) \ {Head(s)}
<1>1. /\ Tail(s) \in Seq(S) /\ Len(Tail(s)) = Len(s) - 1 /\ Len(s) \in Nat /\ Len(s) > 0
      /\ \A i \in 1 .. Len(s) - 1 : Tail(s)[i] = s[i + 1]
      /\ Head(s) = s[1] /\ DOMAIN s = 1 .. Len(s) /\ DOMAIN Tail(s) = 1 .. Len(s) - 1
  BY HeadTailProperties, EmptySeq, LenProperties
<1>2. IsInjective(Tail(s))
  BY <1>1 DEF IsInjective
<1>3. ASSUME NEW x \in Range(Tail(s)) PROVE x \in Range(s) \ {Head(s)}
  <2>1. PICK i \in 1 .. Len(s) - 1 : x = s[i + 1]
    BY <1>1 DEF Range
  <2>2. i + 1 \in DOMAIN s /\ 1 \in DOMAIN s /\ i + 1 # 1
    BY <1>1
  <2> QED BY <1>1, <2>1, <2>2 DEF Range, IsInjective
<1>4. ASSUME NEW x \in Range(s), x # Head(s) PROVE x \in Range(Tail(s))
  <2>1. PICK i \in 1 .. Len(s) : x = s[i]
    BY <1>1 DEF Range
  <2>2. i - 1 \in 1 .. Len(s) - 1 /\ (i - 1) + 1 = i
    BY <1>1, <1>4, <2>1
  <2>3. Tail(s)[i - 1] = x
    BY <1>1, <2>1, <2>2
  <2> QED BY <1>1, <2>2, <2>3 DEF Range
<1> QED BY <1>1, <1>2, <1>3, <1>4

LEMMA Remember ==
  ASSUME NEW S, NEW s \in Seq(S), IsInjective(s), NEW e \in S, e \notin Range(s)
  PROVE  /\ Append(s, e) \in Seq(S) /\ Len(Append(s, e)) = Len(s) + 1
         /\ IsInjective(Append(s, e)) /\ Range(Append(s, e)) = Range(s) \cup {e}
<1> DEFINE t == Append(s, e)
<1>1. /\ t \in Seq(S) /\ Len(t) = Len(s) + 1 /\ Len(s) \in Nat
      /\ \A i \in 1 .. Len(s) : t[i] = s[i]
      /\ t[Len(s) + 1] = e /\ DOMAIN s = 1 .. Len(s) /\ DOMAIN t = 1 .. Len(s) + 1
  BY AppendProperties, LenProperties
<1> HIDE DEF t
<1>2. \A i \in 1 .. Len(s) : t[i] # e
  BY <1>1 DEF Range
<1>3. ASSUME NEW i \in DOMAIN t, NEW j \in DOMAIN t, t[i] = t[j] PROVE i = j
  <2>1. CASE i \in 1 .. Len(s) /\ j \in 1 .. Len(s)
    BY <1>1, <1>3, <2>1 DEF IsInjective
  <2>2. CASE i = Len(s) + 1 \/ j = Len(s) + 1
    BY <1>1, <1>2, <1>3, <2>2
  <2> QED BY <1>1, <2>1, <2>2
<1>4. ASSUME NEW x \in Range(t) PROVE x \in Range(s) \cup {e}
  <2>1. PICK i \in 1 .. Len(s) + 1 : x = t[i]
    BY <1>1 DEF Range
  <2>2. CASE i \in 1 .. Len(s)
    BY <1>1, <2>1, <2>2 DEF Range
  <2>3. CASE i = Len(s) + 1
    BY <1>1, <2>1, <2>3
  <2> QED BY <1>1, <2>2, <2>3
<1>5. ASSUME NEW x \in Range(s) \cup {e} PROVE x \in Range(t)
  <2>1. CASE x \in Range(s)
    <3>1. PICK i \in 1 .. Len(s) : x = s[i]
      BY <1>1, <2>1 DEF Range
    <3>2. i \in DOMAIN t /\ t[i] = x
      BY <1>1, <3>1
    <3> QED BY <3>2 DEF Range
  <2>2. CASE x = e
    <3>1. Len(s) + 1 \in DOMAIN t
      BY <1>1
    <3> QED BY <1>1, <2>2, <3>1 DEF Range
  <2> QED BY <2>1, <2>2
<1>6. IsInjective(t)
  BY <1>3 DEF IsInjective
<1> QED BY <1>1, <1>4, <1>5, <1>6 DEF t

LEMMA LiveMoves ==
  ASSUME HistoryOK, UNCHANGED <<id, history, traces>>,
         NEW r \in Requests, pc[r] \notin {"idle", "refreshed"},
         NEW stage \in Stages, pc' = [pc EXCEPT ![r] = stage]
  PROVE  HistoryOK'
<1>1. pc' \in [Requests -> Stages] /\ \A q \in Requests \ {r} : pc'[q] = pc[q]
  BY DEF HistoryOK
<1>2. \A q \in Requests : pc'[q] \notin {"idle", "refreshed"} => id[q] # None
  BY <1>1 DEF HistoryOK
<1> QED BY <1>1, <1>2 DEF HistoryOK

(* A request takes an id nobody has.                                       *)
LEMMA TakesFreshId ==
  ASSUME HistoryOK, UNCHANGED <<history, traces>>, pc' \in [Requests -> Stages],
         NEW r \in Requests, NEW i \in QueryIDs, Fresh(i), id' = [id EXCEPT ![r] = i],
         \A q \in Requests \ {r} : pc'[q] \notin {"idle", "refreshed"} => pc[q] \notin {"idle", "refreshed"}
  PROVE  HistoryOK'
<1>1. i # None /\ i \notin Range(history) /\ \A q \in Requests : id[q] # i
  BY ResolverAssumption DEF Fresh
<1>2. id' \in [Requests -> Ids] /\ id'[r] = i /\ \A q \in Requests \ {r} : id'[q] = id[q]
  BY DEF HistoryOK, Ids
<1>3. \A q \in Requests : pc'[q] \notin {"idle", "refreshed"} => id'[q] # None
  BY <1>1, <1>2 DEF HistoryOK
<1>4. \A q \in Requests : id'[q] # None => id'[q] \notin Range(history)
  BY <1>1, <1>2 DEF HistoryOK
<1>5. \A p, q \in Requests : p # q /\ id'[p] # None => id'[q] # id'[p]
  BY <1>1, <1>2 DEF HistoryOK
<1> QED BY <1>2, <1>3, <1>4, <1>5 DEF HistoryOK

LEMMA PublishKeepsHistory ==
  ASSUME HistoryOK, NEW r \in Requests, Publish(r)
  PROVE  HistoryOK'
<1> DEFINE full == Len(history) >= HistorySize
           left == IF full THEN Tail(history) ELSE history
<1>1. /\ pc[r] = "publish" /\ history' = Append(left, id[r])
      /\ traces' = (IF full THEN traces \ {Head(history)} ELSE traces) \cup {id[r]}
      /\ id' = [id EXCEPT ![r] = None]
      /\ pc' = [pc EXCEPT ![r] = IF origin[r] = None THEN "idle" ELSE "refreshed"]
  BY DEF Publish
<1>2. id[r] \in QueryIDs /\ id[r] # None /\ id[r] \notin Range(history)
  BY <1>1 DEF HistoryOK, Ids
<1>3. Len(history) \in Nat /\ HistorySize \in Nat \ {0}
  BY LenProperties, ResolverAssumption DEF HistoryOK
<1>4. /\ left \in Seq(QueryIDs) /\ IsInjective(left) /\ Len(left) <= HistorySize - 1
      /\ Range(left) = IF full THEN Range(history) \ {Head(history)} ELSE Range(history)
  <2>1. CASE full
    <3>1. history # << >>
      BY <1>3, <2>1, EmptySeq
    <3> QED BY <1>3, <2>1, <3>1, ForgetOldest DEF HistoryOK
  <2>2. CASE ~full
    BY <1>3, <2>2 DEF HistoryOK
  <2> QED BY <2>1, <2>2
<1> HIDE DEF left, full
<1>5. id[r] \notin Range(left)
  BY <1>2, <1>4
<1>6. /\ history' \in Seq(QueryIDs) /\ Len(history') = Len(left) + 1
      /\ IsInjective(history') /\ Range(history') = Range(left) \cup {id[r]}
  BY <1>1, <1>2, <1>4, <1>5, Remember
<1>7. Len(history') <= HistorySize
  BY <1>3, <1>4, <1>6, LenProperties
<1>8. traces' = Range(history')
  BY <1>1, <1>4, <1>6 DEF HistoryOK
<1>9. /\ id' \in [Requests -> Ids] /\ id'[r] = None /\ \A q \in Requests \ {r} : id'[q] = id[q]
      /\ pc' \in [Requests -> Stages] /\ pc'[r] \in {"idle", "refreshed"}
      /\ \A q \in Requests \ {r} : pc'[q] = pc[q]
  BY <1>1 DEF HistoryOK, Ids, Stages
<1>10. \A q \in Requests : pc'[q] \notin {"idle", "refreshed"} => id'[q] # None
  BY <1>9 DEF HistoryOK
<1>11. \A q \in Requests : id'[q] # None => id'[q] \notin Range(history')
  <2>1. ASSUME NEW q \in Requests, id'[q] # None PROVE id'[q] \notin Range(history')
    <3>1. q # r /\ id'[q] = id[q]
      BY <1>9, <2>1
    <3>2. id[q] \notin Range(history) /\ id[q] # id[r]
      BY <1>2, <2>1, <3>1 DEF HistoryOK
    <3> QED BY <1>4, <1>6, <3>1, <3>2
  <2> QED BY <2>1
<1>12. \A p, q \in Requests : p # q /\ id'[p] # None => id'[q] # id'[p]
  BY <1>9 DEF HistoryOK
<1> QED BY <1>6, <1>7, <1>8, <1>9, <1>10, <1>11, <1>12 DEF HistoryOK

LEMMA NextKeepsHistory == HistoryOK /\ [Next]_vars => HistoryOK'
<1> SUFFICES ASSUME HistoryOK, [Next]_vars PROVE HistoryOK'
  OBVIOUS
<1>0. CASE UNCHANGED <<pc, id, logVars>>
  BY <1>0 DEF HistoryOK, logVars
<1>1. ASSUME NEW r \in Requests, NEW k \in Keys, NEW i \in QueryIDs, Ask(r, k, i) PROVE HistoryOK'
  <2>1. /\ Fresh(i) /\ pc' = [pc EXCEPT ![r] = "start"] /\ id' = [id EXCEPT ![r] = i]
        /\ UNCHANGED <<history, traces>>
    BY <1>1 DEF Ask, logVars
  <2>2. pc' \in [Requests -> Stages] /\ \A q \in Requests \ {r} : pc'[q] = pc[q]
    BY <2>1 DEF HistoryOK, Stages
  <2> QED BY <2>1, <2>2, TakesFreshId
<1>2. ASSUME NEW r \in Requests, Step(r) PROVE HistoryOK'
  <2>1. CASE \/ CheckBlocklist(r) \/ ServeNegative(r) \/ PassNegative(r) \/ ServeHit(r) \/ Miss(r)
             \/ WalkAnswers(r) \/ WalkBringsNothing(r) \/ ServeLastGood(r) \/ Fail(r)
             \/ \E ttl \in TTLs : StoreResult(r, ttl)
    <3>1. /\ UNCHANGED <<id, history, traces>> /\ pc[r] \notin {"idle", "refreshed"}
          /\ \E stage \in Stages : pc' = [pc EXCEPT ![r] = stage]
      BY <2>1 DEF CheckBlocklist, ServeNegative, PassNegative, ServeHit, HitEntry, Miss, WalkAnswers,
                  WalkBringsNothing, ServeLastGood, Fail, StoreResult, Found, logVars, Stages
    <3> QED BY <3>1, LiveMoves
  <2>2. ASSUME NEW f \in Requests, NEW i \in QueryIDs, ServeHitAndRefresh(r, f, i) PROVE HistoryOK'
    <3>1. /\ Fresh(i) /\ pc' = [pc EXCEPT ![r] = "publish", ![f] = "start"] /\ id' = [id EXCEPT ![f] = i]
          /\ UNCHANGED <<history, traces>> /\ pc[r] = "positive"
      BY <2>2 DEF ServeHitAndRefresh, HitEntry, logVars
    <3>2. pc' \in [Requests -> Stages] /\ \A q \in Requests \ {f} : pc'[q] = pc[q] \/ q = r
      BY <3>1 DEF HistoryOK, Stages
    <3> QED BY <3>1, <3>2, TakesFreshId
  <2>3. CASE FinishRefresh(r)
    <3>1. UNCHANGED <<id, history, traces>> /\ pc' = [pc EXCEPT ![r] = "idle"]
      BY <2>3 DEF FinishRefresh, logVars
    <3>2. /\ pc' \in [Requests -> Stages]
          /\ \A q \in Requests : pc'[q] \notin {"idle", "refreshed"} => id[q] # None
      BY <3>1 DEF HistoryOK, Stages
    <3> QED BY <3>1, <3>2 DEF HistoryOK
  <2> QED BY <1>2, <2>1, <2>2, <2>3, PublishKeepsHistory DEF Step
<1>3. CASE \/ UNCHANGED vars
           \/ \E k \in Keys : DeleteEntry(k)
           \/ FlushCache
           \/ \E names \in SUBSET Keys : ReplaceBlocklist(names)
           \/ \E k \in Keys, fact \in Facts : ChangeZone(k, fact)
           \/ PassTime
  BY <1>0, <1>3 DEF vars, requestVars, DeleteEntry, FlushCache, ReplaceBlocklist, ChangeZone, PassTime
<1> QED BY <1>1, <1>2, <1>3 DEF Next

(* publishTrace keeps the events of exactly the queries it remembers, and  *)
(* no more of them than the history holds.                                 *)
THEOREM NoTraceLeaks == Spec => []TracesMatchHistory
<1>1. Init => HistoryOK
  <2> SUFFICES ASSUME Init PROVE HistoryOK
    OBVIOUS
  <2>1. history \in Seq(QueryIDs) /\ IsInjective(history) /\ Len(history) = 0 /\ Range(history) = {}
    BY EmptySeq DEF Init, IsInjective, Range
  <2>2. pc \in [Requests -> Stages] /\ id \in [Requests -> Ids]
    BY DEF Init, Stages, Ids
  <2>3. \A r \in Requests : pc[r] = "idle" /\ id[r] = None
    BY DEF Init
  <2>4. traces = Range(history) /\ Len(history) <= HistorySize
    BY <2>1, ResolverAssumption DEF Init
  <2> QED BY <2>1, <2>2, <2>3, <2>4 DEF HistoryOK
<1>2. HistoryOK => TracesMatchHistory
  BY DEF HistoryOK, TracesMatchHistory
<1> QED BY <1>1, <1>2, NextKeepsHistory, PTL DEF Spec
-----------------------------------------------------------------------------
(* How old answers get.                                                    *)

Served == {"negative", "fresh", "stale", "last good", "upstream"}

(* The servers of k said f at t or later: they still do, or stopped after. *)
(* world and ends stand for truth and ended.                               *)
HeldSince(world, ends, k, f, t) == world[k] = f \/ (ends[k][f] # None /\ ends[k][f] >= t)

WorldOK ==
    /\ now \in Nat /\ config = InitConfig
    /\ truth \in [Keys -> Facts]
    /\ ended \in [Keys -> [Facts -> Nat \cup {None}]]

(* An entry was true when it was learned, and expires in time.             *)
AnswerOK(world, ends, time, k, e) ==
    /\ e \in Store!Entry
    /\ e.lastGoodAt <= time
    /\ e.expiresAt <= e.lastGoodAt + InitConfig.maxTTL
    /\ e.staleUntil <= e.lastGoodAt + InitConfig.maxTTL + InitConfig.staleWindow
    /\ HeldSince(world, ends, k, e.value, e.lastGoodAt)

DenialOK(world, ends, time, k, e) ==
    /\ e \in Store!NegativeEntry
    /\ e.expiresAt - InitConfig.maxTTL <= time
    /\ HeldSince(world, ends, k, e.rcode, e.expiresAt - InitConfig.maxTTL)

EntriesOK ==
    /\ DOMAIN items = Keys /\ DOMAIN negative = Keys
    /\ \A k \in Keys : items[k] # None => AnswerOK(truth, ended, now, k, items[k])
    /\ \A k \in Keys : negative[k] # None => DenialOK(truth, ended, now, k, negative[k])

(* A request on its way out holds something no more outdated than allowed. *)
ReplyOK(world, ends, time, k, p) ==
    /\ p.fact \in Facts /\ p.from \in Served
    /\ HeldSince(world, ends, k, p.fact, time - Allowance(p.from))

RepliesOK ==
    /\ DOMAIN reply = Requests
    /\ \A r \in Requests : pc[r] = "store" => reply[r].fact # None /\ reply[r].from = "upstream"
    /\ \A r \in Requests : pc[r] \in {"store", "publish"} /\ reply[r].fact # None =>
          ReplyOK(truth, ended, now, key[r], reply[r])

AgeInv == RequestsOK /\ WorldOK /\ EntriesOK /\ RepliesOK

LEMMA LimitsOK ==
    /\ InitConfig.minTTL \in Nat /\ InitConfig.maxTTL \in Nat /\ InitConfig.minTTL <= InitConfig.maxTTL
    /\ InitConfig.staleWindow \in Nat /\ InitConfig.staleMaxAge \in Nat
    /\ \A from \in Served : Allowance(from) \in Nat
<1>1. /\ InitConfig.minTTL \in Nat /\ InitConfig.maxTTL \in Nat /\ InitConfig.minTTL <= InitConfig.maxTTL
      /\ InitConfig.staleWindow \in Nat /\ InitConfig.staleMaxAge \in Nat
  BY StoreAssumption DEF Store!Config
<1>2. ASSUME NEW from \in Served  PROVE Allowance(from) \in Nat
  <2>1. CASE from \in {"negative", "fresh"}
    BY <1>1, <2>1 DEF Allowance
  <2>2. CASE from = "stale"
    BY <1>1, <2>2 DEF Allowance
  <2>3. CASE from = "last good"
    BY <1>1, <2>3 DEF Allowance
  <2>4. CASE from = "upstream"
    BY <2>4 DEF Allowance
  <2> QED  BY <2>1, <2>2, <2>3, <2>4 DEF Served
<1> QED  BY <1>1, <1>2

LEMMA AllowanceIs ==
    /\ Allowance("negative") = InitConfig.maxTTL
    /\ Allowance("fresh") = InitConfig.maxTTL
    /\ Allowance("stale") = InitConfig.maxTTL + InitConfig.staleWindow
    /\ Allowance("last good") = InitConfig.staleMaxAge
<1>1. Allowance("negative") = InitConfig.maxTTL
  BY DEF Allowance
<1>2. Allowance("fresh") = InitConfig.maxTTL
  BY DEF Allowance
<1>3. Allowance("stale") = InitConfig.maxTTL + InitConfig.staleWindow
  BY DEF Allowance
<1>4. Allowance("last good") = InitConfig.staleMaxAge
  BY DEF Allowance
<1> QED  BY <1>1, <1>2, <1>3, <1>4

(* What held at a time still held then after the zone changed.             *)
HoldingStays ==
    \A k \in Keys, f \in Facts, t \in Int :
        t <= now /\ HeldSince(truth, ended, k, f, t) => HeldSince(truth', ended', k, f, t)

LEMMA StepLeavesWorld ==
  ASSUME NEW r \in Requests, Step(r)
  PROVE  UNCHANGED <<now, config, truth, ended>>
<1>1. CASE \/ CheckBlocklist(r) \/ ServeNegative(r) \/ WalkAnswers(r) \/ WalkBringsNothing(r)
           \/ ServeLastGood(r) \/ Publish(r)
  BY <1>1 DEF CheckBlocklist, ServeNegative, WalkAnswers, WalkBringsNothing, ServeLastGood, Publish,
              cacheVars, fixedVars, worldVars
<1>2. CASE PassNegative(r) \/ Miss(r) \/ Fail(r)
  BY <1>2 DEF PassNegative, Miss, Fail, cacheVars, fixedVars, worldVars, Store!GetNegativeExpired,
              Store!GetMissKept, Store!GetMissDropped, Store!StaleOnErrorDropped
<1>3. CASE ServeHit(r) \/ \E f \in Requests, i \in QueryIDs : ServeHitAndRefresh(r, f, i)
  BY <1>3 DEF ServeHit, ServeHitAndRefresh, HitEntry, worldVars, Store!GetHit
<1>4. CASE FinishRefresh(r)
  BY <1>4 DEF FinishRefresh, worldVars, Store!RefreshDone
<1>5. ASSUME NEW ttl \in TTLs, StoreResult(r, ttl)  PROVE UNCHANGED <<now, config, truth, ended>>
  BY <1>5 DEF StoreResult, Store!SetNegative, Store!Replace, Store!Insert
<1> QED  BY <1>1, <1>2, <1>3, <1>4, <1>5 DEF Step

LEMMA WorldStep ==
  ASSUME WorldOK, [Next]_vars
  PROVE  WorldOK' /\ HoldingStays /\ (now' = now \/ (PassTime /\ now' = now + 1))
<1>1. CASE UNCHANGED <<now, config, truth, ended>>
  BY <1>1 DEF WorldOK, HoldingStays
<1>2. ASSUME NEW j \in Keys, NEW fact \in Facts, ChangeZone(j, fact)
      PROVE  WorldOK' /\ HoldingStays /\ now' = now
  <2>1. /\ truth' = [truth EXCEPT ![j] = fact] /\ ended' = [ended EXCEPT ![j][truth[j]] = now]
        /\ now' = now /\ config' = config
    BY <1>2 DEF ChangeZone, cacheVars, fixedVars
  <2>2. truth[j] \in Facts /\ ended[j] \in [Facts -> Nat \cup {None}] /\ now \in Nat
    BY DEF WorldOK
  <2>3. truth' \in [Keys -> Facts] /\ \A k \in Keys : truth'[k] = IF k = j THEN fact ELSE truth[k]
    BY <2>1 DEF WorldOK
  <2>4. /\ ended' \in [Keys -> [Facts -> Nat \cup {None}]]
        /\ \A k \in Keys, f \in Facts : ended'[k][f] = IF k = j /\ f = truth[j] THEN now ELSE ended[k][f]
    BY <2>1, <2>2 DEF WorldOK
  <2>5. now # None
    BY <2>2, ResolverAssumption
  <2>6. ASSUME NEW k \in Keys, NEW f \in Facts, NEW t \in Int, t <= now, HeldSince(truth, ended, k, f, t)
        PROVE  HeldSince(truth', ended', k, f, t)
    <3>1. CASE k = j /\ f = truth[j]
      BY <2>2, <2>4, <2>5, <2>6, <3>1 DEF HeldSince
    <3>2. CASE ~(k = j /\ f = truth[j])
      BY <2>3, <2>4, <2>6, <3>2 DEF HeldSince
    <3> QED  BY <3>1, <3>2
  <2> QED  BY <2>1, <2>2, <2>3, <2>4, <2>6 DEF WorldOK, HoldingStays
<1>3. CASE PassTime
  <2>1. now' = now + 1 /\ UNCHANGED <<config, truth, ended>>
    BY <1>3 DEF PassTime, worldVars, Store!Tick
  <2> QED  BY <1>3, <2>1 DEF WorldOK, HoldingStays
<1>4. ASSUME NEW r \in Requests, Step(r)  PROVE UNCHANGED <<now, config, truth, ended>>
  BY <1>4, StepLeavesWorld
<1>5. CASE \/ UNCHANGED vars
           \/ \E r \in Requests, k \in Keys, i \in QueryIDs : Ask(r, k, i)
           \/ \E names \in SUBSET Keys : ReplaceBlocklist(names)
  BY <1>1, <1>5 DEF vars, cacheVars, fixedVars, worldVars, Ask, ReplaceBlocklist
<1>6. CASE (\E k \in Keys : DeleteEntry(k)) \/ FlushCache
  BY <1>1, <1>6 DEF DeleteEntry, FlushCache, Store!Delete, Store!Flush
<1> QED  BY <1>1, <1>2, <1>3, <1>4, <1>5, <1>6 DEF Next

(* An entry that is there after a step but was not just stored was there   *)
(* before, with the same answer and the same times.                        *)
SameAnswer(d, e) ==
    /\ d \in Store!Entry /\ d.value = e.value /\ d.lastGoodAt = e.lastGoodAt
    /\ d.expiresAt = e.expiresAt /\ d.staleUntil = e.staleUntil

EntryStays(k) ==
    /\ items'[k] # None => items[k] # None /\ SameAnswer(items'[k], items[k])
    /\ negative'[k] # None => negative'[k] = negative[k]

EntriesStay == DOMAIN items' = Keys /\ DOMAIN negative' = Keys /\ \A k \in Keys : EntryStays(k)

LEMMA SameAnswers ==
  ASSUME NEW e \in Store!Entry
  PROVE  /\ SameAnswer(e, e) /\ SameAnswer(Store!Hit(e), e)
         /\ SameAnswer([Store!Hit(e) EXCEPT !.refreshing = TRUE], e)
         /\ SameAnswer([e EXCEPT !.refreshing = FALSE], e)
<1>1. SameAnswer(Store!Hit(e), e)
  BY StoreAssumption DEF SameAnswer, Store!Entry, Store!Hit
<1>2. \A d \in Store!Entry, b \in BOOLEAN : SameAnswer([d EXCEPT !.refreshing = b], d)
  BY DEF SameAnswer, Store!Entry
<1> QED  BY <1>1, <1>2 DEF SameAnswer

LEMMA AnswerIsKnown ==
  ASSUME EntriesOK, NEW k \in Keys, items[k] # None
  PROVE  items[k] \in Store!Entry
BY DEF EntriesOK, AnswerOK

LEMMA UntouchedStay ==
  ASSUME EntriesOK, UNCHANGED <<items, negative>>
  PROVE  EntriesStay
<1>1. ASSUME NEW k \in Keys, items[k] # None  PROVE SameAnswer(items[k], items[k])
  BY <1>1, AnswerIsKnown, SameAnswers
<1> QED  BY <1>1 DEF EntriesOK, EntriesStay, EntryStays

(* The entry of one key is dropped or touched, the others are left alone.  *)
LEMMA TouchedStay ==
  ASSUME EntriesOK, UNCHANGED negative, NEW k \in Keys, NEW e, items' = [items EXCEPT ![k] = e],
         e # None => items[k] # None /\ SameAnswer(e, items[k])
  PROVE  EntriesStay
<1>1. /\ DOMAIN items' = Keys /\ DOMAIN negative' = Keys /\ items'[k] = e
      /\ \A j \in Keys \ {k} : items'[j] = items[j]
  BY DEF EntriesOK
<1>2. ASSUME NEW j \in Keys, items[j] # None  PROVE SameAnswer(items[j], items[j])
  BY <1>2, AnswerIsKnown, SameAnswers
<1>3. ASSUME NEW j \in Keys  PROVE EntryStays(j)
  BY <1>1, <1>2 DEF EntryStays
<1> QED  BY <1>1, <1>3 DEF EntriesStay

(* A request that does not store adds nothing to the cache.                *)
LEMMA RequestKeepsEntries ==
  ASSUME RequestsOK, EntriesOK, NEW r \in Requests, Step(r), \A ttl \in TTLs : ~StoreResult(r, ttl)
  PROVE  EntriesStay
<1> DEFINE k == key[r]
<1>0. k \in Keys
  BY DEF RequestsOK
<1>1. CASE UNCHANGED <<now, cacheVars>>
  BY <1>1, UntouchedStay DEF cacheVars
<1>2. CASE Store!GetNegativeExpired(k)
  <2>1. negative' = [negative EXCEPT ![k] = None] /\ UNCHANGED items
    BY <1>2 DEF Store!GetNegativeExpired, Store!storeVars
  <2>2. ASSUME NEW j \in Keys, items[j] # None  PROVE SameAnswer(items[j], items[j])
    BY <2>2, AnswerIsKnown, SameAnswers
  <2>3. /\ DOMAIN negative' = Keys /\ \A j \in Keys : negative'[j] # None => negative'[j] = negative[j]
    BY <2>1 DEF EntriesOK
  <2> QED  BY <2>1, <2>2, <2>3 DEF EntriesOK, EntriesStay, EntryStays
<1>3. CASE Store!GetHit(k) \/ Store!GetMissKept(k)
  <2>1. /\ UNCHANGED negative /\ items[k] # None
        /\ \E e \in {Store!Hit(items[k]), [Store!Hit(items[k]) EXCEPT !.refreshing = TRUE]} :
              items' = [items EXCEPT ![k] = e]
    BY <1>3 DEF Store!GetHit, Store!GetMissKept, Store!Present
  <2>2. PICK e : SameAnswer(e, items[k]) /\ items' = [items EXCEPT ![k] = e]
    BY <1>0, <2>1, AnswerIsKnown, SameAnswers
  <2> QED  BY <1>0, <2>1, <2>2, TouchedStay
<1>4. CASE Store!GetMissDropped(k) \/ Store!StaleOnErrorDropped(k)
  <2>1. UNCHANGED negative /\ items' = [items EXCEPT ![k] = None]
    BY <1>4 DEF Store!GetMissDropped, Store!StaleOnErrorDropped, Store!Drop
  <2> QED  BY <1>0, <2>1, TouchedStay
<1>5. CASE FinishRefresh(r)
  <2> DEFINE o == origin[r]
             e == IF items[o] = None THEN None ELSE [items[o] EXCEPT !.refreshing = FALSE]
  <2>1. o \in Keys
    BY <1>5 DEF FinishRefresh, RequestsOK
  <2>2. UNCHANGED negative /\ items' = [items EXCEPT ![o] = e]
    BY <1>5, <2>1 DEF FinishRefresh, Store!RefreshDone, EntriesOK
  <2>3. e # None => items[o] # None /\ SameAnswer(e, items[o])
    BY <2>1, AnswerIsKnown, SameAnswers
  <2> HIDE DEF e, o
  <2> QED  BY <2>1, <2>2, <2>3, TouchedStay
<1> QED  BY <1>1, <1>2, <1>3, <1>4, <1>5
         DEF Step, CheckBlocklist, ServeNegative, PassNegative, ServeHit, ServeHitAndRefresh, HitEntry,
             Miss, WalkAnswers, WalkBringsNothing, ServeLastGood, Fail, Publish

(* Only StoreResult puts anything new into the cache.                      *)
LEMMA OnlyStoreAdds ==
  ASSUME RequestsOK, EntriesOK, [Next]_vars,
         \A r \in Requests, ttl \in TTLs : ~StoreResult(r, ttl)
  PROVE  EntriesStay
<1>1. CASE UNCHANGED <<items, negative>>
  BY <1>1, UntouchedStay
<1>2. ASSUME NEW r \in Requests, Step(r)  PROVE EntriesStay
  BY <1>2, RequestKeepsEntries
<1>3. ASSUME NEW k \in Keys, DeleteEntry(k)  PROVE EntriesStay
  <2>1. /\ negative' = [negative EXCEPT ![k] = None]
        /\ items' = [items EXCEPT ![k] = None] \/ UNCHANGED items
    BY <1>3 DEF DeleteEntry, Store!Delete, Store!Drop, Store!storeVars
  <2>2. ASSUME NEW j \in Keys, items[j] # None  PROVE SameAnswer(items[j], items[j])
    BY <2>2, AnswerIsKnown, SameAnswers
  <2>3. /\ DOMAIN negative' = Keys /\ \A j \in Keys : negative'[j] # None => negative'[j] = negative[j]
        /\ DOMAIN items' = Keys /\ \A j \in Keys : items'[j] # None => items'[j] = items[j]
    BY <2>1 DEF EntriesOK
  <2> QED  BY <2>2, <2>3 DEF EntriesStay, EntryStays
<1>4. CASE FlushCache
  BY <1>4 DEF FlushCache, Store!Flush, Store!Empty, EntriesStay, EntryStays
<1>5. CASE \/ UNCHANGED vars
           \/ \E r \in Requests, k \in Keys, i \in QueryIDs : Ask(r, k, i)
           \/ \E names \in SUBSET Keys : ReplaceBlocklist(names)
           \/ \E k \in Keys, fact \in Facts : ChangeZone(k, fact)
           \/ PassTime
  BY <1>1, <1>5 DEF vars, cacheVars, Ask, ReplaceBlocklist, ChangeZone, PassTime, Store!Tick, Store!storeVars
<1> QED  BY <1>2, <1>3, <1>4, <1>5 DEF Next

(* Store!Entry and denials stay true of their past.                            *)
LEMMA AnswerStays ==
  ASSUME WorldOK, HoldingStays, now' \in Nat, now' >= now, NEW k \in Keys, NEW d, NEW e,
         AnswerOK(truth, ended, now, k, e), SameAnswer(d, e)
  PROVE  AnswerOK(truth', ended', now', k, d)
<1>1. /\ e.value \in Facts /\ e.lastGoodAt \in Int /\ e.lastGoodAt <= now
      /\ HeldSince(truth, ended, k, e.value, e.lastGoodAt)
  BY DEF AnswerOK, Store!Entry, Facts
<1>2. HeldSince(truth', ended', k, e.value, e.lastGoodAt)
  BY <1>1 DEF HoldingStays
<1>3. e.lastGoodAt <= now'
  BY <1>1 DEF WorldOK
<1> QED  BY <1>2, <1>3 DEF AnswerOK, SameAnswer

LEMMA DenialStays ==
  ASSUME WorldOK, HoldingStays, now' \in Nat, now' >= now, NEW k \in Keys, NEW e,
         DenialOK(truth, ended, now, k, e)
  PROVE  DenialOK(truth', ended', now', k, e)
<1> DEFINE t == e.expiresAt - InitConfig.maxTTL
<1>1. t \in Int /\ t <= now /\ e.rcode \in Facts /\ HeldSince(truth, ended, k, e.rcode, t)
  BY LimitsOK DEF DenialOK, Store!NegativeEntry, Facts
<1>2. HeldSince(truth', ended', k, e.rcode, t)
  BY <1>1 DEF HoldingStays
<1>3. t <= now'
  BY <1>1 DEF WorldOK
<1> QED  BY <1>2, <1>3 DEF DenialOK

LEMMA StayingIsOK ==
  ASSUME WorldOK, HoldingStays, now' \in Nat, now' >= now, EntriesOK, EntriesStay
  PROVE  EntriesOK'
<1>1. ASSUME NEW k \in Keys, items'[k] # None  PROVE AnswerOK(truth', ended', now', k, items'[k])
  <2>1. items[k] # None /\ SameAnswer(items'[k], items[k])
    BY <1>1 DEF EntriesStay, EntryStays
  <2>2. AnswerOK(truth, ended, now, k, items[k])
    BY <2>1 DEF EntriesOK
  <2> QED  BY <2>1, <2>2, AnswerStays
<1>2. ASSUME NEW k \in Keys, negative'[k] # None  PROVE DenialOK(truth', ended', now', k, negative'[k])
  <2>1. negative'[k] = negative[k]
    BY <1>2 DEF EntriesStay, EntryStays
  <2>2. DenialOK(truth, ended, now, k, negative[k])
    BY <1>2, <2>1 DEF EntriesOK
  <2> QED  BY <2>1, <2>2, DenialStays
<1> QED  BY <1>1, <1>2 DEF EntriesOK, EntriesStay, AnswerOK, DenialOK

(* What StoreResult stores is what the walk brought just now.              *)
LEMMA StoringIsOK ==
  ASSUME AgeInv, NEW r \in Requests, NEW ttl \in TTLs, StoreResult(r, ttl)
  PROVE  EntriesOK'
<1> DEFINE k == key[r]
           fact == reply[r].fact
           life == Store!clampTTL(ttl)
<1>1. /\ k \in Keys /\ now \in Nat /\ config = InitConfig
      /\ fact \in Facts /\ HeldSince(truth, ended, k, fact, now)
  <2>1. pc[r] = "store"
    BY DEF StoreResult
  <2>2. ReplyOK(truth, ended, now, k, reply[r]) /\ reply[r].from = "upstream"
    BY <2>1 DEF AgeInv, RepliesOK
  <2>3. now - Allowance("upstream") = now
    BY DEF AgeInv, WorldOK, Allowance
  <2> QED  BY <2>2, <2>3 DEF AgeInv, RequestsOK, WorldOK, ReplyOK
<1>2. life \in Nat /\ life <= InitConfig.maxTTL
  <2>1. ttl \in Nat
    BY ResolverAssumption
  <2> QED  BY <1>1, <2>1, LimitsOK DEF Store!clampTTL
<1>3. UNCHANGED <<now, truth, ended>>
  BY DEF StoreResult, Store!SetNegative, Store!Replace, Store!Insert
<1>4. ASSUME NEW j \in Keys  PROVE /\ items[j] # None => AnswerOK(truth, ended, now, j, items[j])
                                   /\ negative[j] # None => DenialOK(truth, ended, now, j, negative[j])
  BY DEF AgeInv, EntriesOK
<1>5. CASE fact \in Denials /\ Store!SetNegative(k, fact, ttl)
  <2> DEFINE new == [rcode |-> fact, expiresAt |-> now + life]
  <2>1. negative' = [negative EXCEPT ![k] = new] /\ UNCHANGED items
    BY <1>5 DEF Store!SetNegative, Store!storeVars
  <2> HIDE DEF life
  <2>2. DenialOK(truth, ended, now, k, new)
    <3>1. new \in Store!NegativeEntry /\ new.expiresAt = now + life /\ new.rcode = fact
      BY <1>1, <1>2, <1>5 DEF Store!NegativeEntry
    <3>2. (now + life) - InitConfig.maxTTL \in Int /\ (now + life) - InitConfig.maxTTL <= now
      BY <1>1, <1>2, LimitsOK
    <3>3. HeldSince(truth, ended, k, fact, (now + life) - InitConfig.maxTTL)
      <4>1. truth[k] # fact => ended[k][fact] \in Nat /\ ended[k][fact] >= now
        BY <1>1 DEF AgeInv, WorldOK, HeldSince
      <4>2. truth[k] # fact => ended[k][fact] # None
        BY <1>1 DEF HeldSince
      <4> QED  BY <1>1, <3>2, <4>1, <4>2 DEF HeldSince
    <3> HIDE DEF new
    <3> QED  BY <3>1, <3>2, <3>3 DEF DenialOK
  <2> HIDE DEF new
  <2>3. /\ DOMAIN negative' = Keys /\ DOMAIN items' = Keys /\ negative'[k] = new
        /\ \A j \in Keys \ {k} : negative'[j] = negative[j]
    BY <1>1, <2>1 DEF AgeInv, EntriesOK
  <2> QED  BY <1>3, <1>4, <2>1, <2>2, <2>3 DEF EntriesOK, AnswerOK, DenialOK
<1>6. CASE fact \in Values /\ (Store!Replace(k, fact, ttl) \/ Store!Insert(k, fact, ttl))
  <2> DEFINE new == Store!NewEntry(fact, ttl)
  <2>1. /\ UNCHANGED negative /\ DOMAIN items' = Keys
        /\ \A j \in Keys : items'[j] \in {None, IF j = k THEN new ELSE items[j]}
    <3>1. CASE Store!Replace(k, fact, ttl)
      BY <3>1 DEF Store!Replace, AgeInv, EntriesOK
    <3>2. CASE Store!Insert(k, fact, ttl)
      <4>1. /\ UNCHANGED negative
            /\ \/ \E oldest : items' = [[items EXCEPT ![k] = new] EXCEPT ![oldest] = None]
               \/ items' = [items EXCEPT ![k] = new]
        BY <3>2 DEF Store!Insert
      <4> HIDE DEF new
      <4> QED  BY <4>1 DEF AgeInv, EntriesOK
    <3> QED  BY <1>6, <3>1, <3>2
  <2>2. /\ new \in Store!Entry /\ new.value = fact /\ new.lastGoodAt = now
        /\ new.expiresAt = now + life /\ new.staleUntil = now + life + InitConfig.staleWindow
    <3>1. new = [value |-> fact, lastGoodAt |-> now, expiresAt |-> now + life,
                 staleUntil |-> now + life + InitConfig.staleWindow, hits |-> 0, refreshing |-> FALSE]
      BY <1>1 DEF Store!NewEntry
    <3>2. now + life \in Nat /\ now + life + InitConfig.staleWindow \in Nat
      <4> HIDE DEF life
      <4> QED  BY <1>1, <1>2, LimitsOK
    <3> HIDE DEF new, life
    <3> QED  BY <1>1, <1>6, <3>1, <3>2, StoreAssumption DEF Store!Entry
  <2> HIDE DEF new, life
  <2>3. AnswerOK(truth, ended, now, k, new)
    BY <1>1, <1>2, <2>2, LimitsOK DEF AnswerOK
  <2>4. \A j \in Keys : items'[j] # None => AnswerOK(truth, ended, now, j, items'[j])
    BY <1>4, <2>1, <2>3
  <2> QED  BY <1>3, <1>4, <2>1, <2>4 DEF EntriesOK, AnswerOK, DenialOK, AgeInv
<1> QED  BY <1>5, <1>6 DEF StoreResult

Leaving == {"store", "publish"}

LEMMA HeldEarlier ==
  ASSUME WorldOK, NEW k \in Keys, NEW f \in Facts, NEW s \in Int, NEW t \in Int, s <= t,
         HeldSince(truth, ended, k, f, t)
  PROVE  HeldSince(truth, ended, k, f, s)
<1>1. ended[k][f] # None => ended[k][f] \in Nat
  BY DEF WorldOK
<1> QED  BY <1>1 DEF HeldSince

(* While the clock stands still the reply of a request that does not move  *)
(* stays good.                                                             *)
LEMMA ReplyStays ==
  ASSUME WorldOK, HoldingStays, now' = now, NEW k \in Keys, NEW p, ReplyOK(truth, ended, now, k, p)
  PROVE  ReplyOK(truth', ended', now', k, p)
<1> DEFINE t == now - Allowance(p.from)
<1>1. t \in Int /\ t <= now /\ p.fact \in Facts /\ HeldSince(truth, ended, k, p.fact, t)
  BY LimitsOK DEF ReplyOK, WorldOK
<1>2. HeldSince(truth', ended', k, p.fact, t)
  BY <1>1 DEF HoldingStays
<1> QED  BY <1>2 DEF ReplyOK

LEMMA OthersStay ==
  ASSUME AgeInv, HoldingStays, now' = now, NEW movers, DOMAIN reply' = Requests,
         \A q \in Requests \ movers : pc'[q] \in Leaving =>
            pc'[q] = pc[q] /\ key'[q] = key[q] /\ reply'[q] = reply[q],
         \A r \in Requests \cap movers :
            /\ pc'[r] = "store" => reply'[r].fact # None /\ reply'[r].from = "upstream"
            /\ pc'[r] \in Leaving /\ reply'[r].fact # None =>
                  ReplyOK(truth', ended', now', key'[r], reply'[r])
  PROVE  RepliesOK'
<1>1. ASSUME NEW q \in Requests \ movers, pc'[q] \in Leaving
      PROVE  /\ pc'[q] = "store" => reply'[q].fact # None /\ reply'[q].from = "upstream"
             /\ reply'[q].fact # None => ReplyOK(truth', ended', now', key'[q], reply'[q])
  <2>1. pc[q] = pc'[q] /\ key'[q] = key[q] /\ reply'[q] = reply[q] /\ key[q] \in Keys
    BY <1>1 DEF AgeInv, RequestsOK
  <2>2. /\ pc[q] = "store" => reply[q].fact # None /\ reply[q].from = "upstream"
        /\ reply[q].fact # None => ReplyOK(truth, ended, now, key[q], reply[q])
    BY <1>1, <2>1 DEF AgeInv, RepliesOK, Leaving
  <2> QED  BY <2>1, <2>2, ReplyStays DEF AgeInv
<1> QED  BY <1>1 DEF RepliesOK, ReplyOK, HeldSince, Leaving, Allowance

LEMMA FoundIsOK ==
  ASSUME AgeInv, NEW r \in Requests, UNCHANGED <<now, truth, ended, key>>,
         NEW fact, NEW from, NEW stage \in Leaving,
         reply' = [reply EXCEPT ![r] = [fact |-> fact, from |-> from]],
         pc' = [pc EXCEPT ![r] = stage],
         stage = "store" => fact # None /\ from = "upstream",
         fact # None => ReplyOK(truth, ended, now, key[r], [fact |-> fact, from |-> from])
  PROVE  RepliesOK'
<1>1. HoldingStays
  BY DEF HoldingStays
<1>2. /\ pc'[r] = stage /\ reply'[r] = [fact |-> fact, from |-> from] /\ DOMAIN reply' = Requests
      /\ \A q \in Requests \ {r} : pc'[q] = pc[q] /\ reply'[q] = reply[q]
  BY DEF AgeInv, RequestsOK, RepliesOK
<1>3. reply'[r].fact = fact /\ reply'[r].from = from
  BY <1>2
<1>4. fact # None => ReplyOK(truth', ended', now', key'[r], reply'[r])
  BY <1>2
<1> DEFINE movers == {r}
<1>5. \A q \in Requests \ movers : pc'[q] \in Leaving =>
            pc'[q] = pc[q] /\ key'[q] = key[q] /\ reply'[q] = reply[q]
  BY <1>2
<1>6. \A q \in Requests \cap movers :
            /\ pc'[q] = "store" => reply'[q].fact # None /\ reply'[q].from = "upstream"
            /\ pc'[q] \in Leaving /\ reply'[q].fact # None =>
                  ReplyOK(truth', ended', now', key'[q], reply'[q])
  BY <1>2, <1>3, <1>4
<1>7. now' = now /\ DOMAIN reply' = Requests
  BY <1>2
<1> HIDE DEF movers
<1> QED  BY <1>1, <1>5, <1>6, <1>7, OthersStay

(* What the cache serves is no older than the limits allow.                *)
LEMMA ServedIsOK ==
  ASSUME AgeInv, NEW k \in Keys, items[k] # None
  PROVE  LET e == items[k] IN
         /\ e.value # None
         /\ Store!Fresh(e) => ReplyOK(truth, ended, now, k, [fact |-> e.value, from |-> "fresh"])
         /\ Store!Stale(e) => ReplyOK(truth, ended, now, k, [fact |-> e.value, from |-> "stale"])
         /\ Store!WithinMaxAge(e) => ReplyOK(truth, ended, now, k, [fact |-> e.value, from |-> "last good"])
<1> DEFINE e == items[k]
<1>1. AnswerOK(truth, ended, now, k, e)
  BY DEF AgeInv, EntriesOK
<1>2. /\ e.value \in Facts /\ e.lastGoodAt \in Nat /\ e.expiresAt \in Nat /\ e.staleUntil \in Nat
      /\ e.expiresAt <= e.lastGoodAt + InitConfig.maxTTL
      /\ e.staleUntil <= e.lastGoodAt + InitConfig.maxTTL + InitConfig.staleWindow
      /\ HeldSince(truth, ended, k, e.value, e.lastGoodAt)
  BY <1>1 DEF AnswerOK, Store!Entry, Facts
<1>3. now \in Nat /\ config = InitConfig /\ WorldOK
  BY DEF AgeInv, WorldOK
<1> HIDE DEF e
<1>4. ASSUME NEW from \in Served, now - Allowance(from) <= e.lastGoodAt
      PROVE  ReplyOK(truth, ended, now, k, [fact |-> e.value, from |-> from])
  <2>1. now - Allowance(from) \in Int
    BY <1>3, LimitsOK
  <2>2. HeldSince(truth, ended, k, e.value, now - Allowance(from))
    BY <1>2, <1>3, <1>4, <2>1, HeldEarlier
  <2> QED  BY <1>2, <2>2 DEF ReplyOK
<1>5. Store!Fresh(e) => now - Allowance("fresh") <= e.lastGoodAt
  <2>1. Store!Fresh(e) => now - InitConfig.maxTTL <= e.lastGoodAt
    BY <1>2, <1>3, LimitsOK DEF Store!Fresh
  <2> QED  BY <2>1, AllowanceIs, Zenon
<1>6. Store!Stale(e) => now - Allowance("stale") <= e.lastGoodAt
  <2>1. Store!Stale(e) => now - (InitConfig.maxTTL + InitConfig.staleWindow) <= e.lastGoodAt
    BY <1>2, <1>3, LimitsOK DEF Store!Stale
  <2> QED  BY <2>1, AllowanceIs, Zenon
<1>7. Store!WithinMaxAge(e) => now - Allowance("last good") <= e.lastGoodAt
  <2>1. Store!WithinMaxAge(e) => now - InitConfig.staleMaxAge <= e.lastGoodAt
    BY <1>2, <1>3, LimitsOK DEF Store!WithinMaxAge
  <2> QED  BY <2>1, AllowanceIs, Zenon
<1>8. e.value # None
  BY <1>2, ResolverAssumption DEF Facts
<1>9. {"fresh", "stale", "last good"} \subseteq Served
  BY DEF Served
<1>10. /\ Store!Fresh(e) => ReplyOK(truth, ended, now, k, [fact |-> e.value, from |-> "fresh"])
       /\ Store!Stale(e) => ReplyOK(truth, ended, now, k, [fact |-> e.value, from |-> "stale"])
       /\ Store!WithinMaxAge(e) => ReplyOK(truth, ended, now, k, [fact |-> e.value, from |-> "last good"])
  BY <1>4, <1>5, <1>6, <1>7, <1>9
<1> QED  BY <1>8, <1>10 DEF e

(* The hit is counted before the entry is judged, which changes no time.   *)
LEMMA HitIsServed ==
  ASSUME AgeInv, NEW k \in Keys, Store!GetHit(k)
  PROVE  items[k] # None /\ (Store!Fresh(items[k]) \/ Store!Stale(items[k])) /\ now' = now
<1>1. /\ items[k] # None /\ now' = now
      /\ Store!Fresh(Store!Hit(items[k])) \/ Store!Stale(Store!Hit(items[k]))
  BY DEF Store!GetHit, Store!Present
<1>2. items[k] \in Store!Entry
  BY <1>1, AnswerIsKnown DEF AgeInv
<1>3. SameAnswer(Store!Hit(items[k]), items[k])
  BY <1>2, SameAnswers
<1> QED  BY <1>1, <1>3 DEF SameAnswer, Store!Fresh, Store!Stale

LEMMA StepKeepsReplies ==
  ASSUME AgeInv, NEW r \in Requests, Step(r), UNCHANGED <<now, truth, ended>>
  PROVE  RepliesOK'
<1>0. /\ key[r] \in Keys /\ HoldingStays /\ WorldOK /\ DOMAIN pc = Requests /\ DOMAIN reply = Requests
  BY DEF AgeInv, RequestsOK, RepliesOK, HoldingStays
(* r goes nowhere near the end, or keeps what it has.                      *)
<1>1. ASSUME \A q \in Requests : pc'[q] \in Leaving =>
                pc'[q] = pc[q] /\ key'[q] = key[q] /\ reply'[q] = reply[q],
             DOMAIN reply' = Requests
      PROVE  RepliesOK'
  <2>1. Requests \ {} = Requests /\ Requests \cap {} = {}
    OBVIOUS
  <2> QED  BY <1>0, <1>1, <2>1, OthersStay
<1>2. ASSUME NEW from, Found(r, None, from), UNCHANGED key  PROVE RepliesOK'
  <2>1. "publish" \in Leaving /\ "publish" # "store"
    BY DEF Leaving
  <2> QED  BY <1>2, <2>1, FoundIsOK DEF Found
<1>3. CASE CheckBlocklist(r)
  <2>1. CASE Found(r, None, "blocklist")
    BY <1>2, <1>3, <2>1 DEF CheckBlocklist
  <2>2. CASE pc' = [pc EXCEPT ![r] = "negative"] /\ UNCHANGED reply
    BY <1>0, <1>1, <1>3, <2>2 DEF CheckBlocklist, Leaving
  <2> QED  BY <1>3, <2>1, <2>2 DEF CheckBlocklist
<1>4. CASE ServeNegative(r)
  <2> DEFINE e == negative[key[r]]
  <2>1. /\ Found(r, e.rcode, "negative") /\ UNCHANGED key
        /\ e # None /\ now <= e.expiresAt
    BY <1>4 DEF ServeNegative, Store!NegativeServed
  <2>2. /\ e.rcode \in Facts /\ e.expiresAt \in Nat
        /\ HeldSince(truth, ended, key[r], e.rcode, e.expiresAt - InitConfig.maxTTL)
    BY <1>0, <2>1 DEF AgeInv, EntriesOK, DenialOK, Store!NegativeEntry, Facts
  <2> HIDE DEF e
  <2>3. HeldSince(truth, ended, key[r], e.rcode, now - Allowance("negative"))
    <3>1. /\ now - Allowance("negative") \in Int /\ e.expiresAt - InitConfig.maxTTL \in Int
          /\ now - Allowance("negative") <= e.expiresAt - InitConfig.maxTTL
      <4>1. /\ now - InitConfig.maxTTL \in Int /\ e.expiresAt - InitConfig.maxTTL \in Int
            /\ now - InitConfig.maxTTL <= e.expiresAt - InitConfig.maxTTL
        BY <1>0, <2>1, <2>2, LimitsOK DEF WorldOK
      <4> QED  BY <4>1, AllowanceIs, Zenon
    <3> QED  BY <1>0, <2>2, <3>1, HeldEarlier
  <2>4. ReplyOK(truth, ended, now, key[r], [fact |-> e.rcode, from |-> "negative"])
    BY <2>2, <2>3 DEF ReplyOK, Served
  <2>5. "publish" \in Leaving /\ "publish" # "store"
    BY DEF Leaving
  <2> QED  BY <2>1, <2>4, <2>5, FoundIsOK DEF Found
<1>5. CASE PassNegative(r) \/ Miss(r)
  <2>1. UNCHANGED <<key, reply>> /\ \E stage \in {"positive", "walk"} : pc' = [pc EXCEPT ![r] = stage]
    BY <1>5 DEF PassNegative, Miss
  <2> QED  BY <1>0, <1>1, <2>1 DEF Leaving
<1>6. ASSUME HitEntry(r)
      PROVE  LET p == [fact |-> items[key[r]].value,
                       from |-> IF Store!Fresh(items[key[r]]) THEN "fresh" ELSE "stale"] IN
             /\ reply' = [reply EXCEPT ![r] = p] /\ pc[r] = "positive"
             /\ ReplyOK(truth, ended, now, key[r], p)
  <2>1. /\ pc[r] = "positive" /\ Store!GetHit(key[r])
        /\ reply' = [reply EXCEPT ![r] =
              [fact |-> items[key[r]].value, from |-> IF Store!Fresh(items[key[r]]) THEN "fresh" ELSE "stale"]]
    BY <1>6 DEF HitEntry
  <2>2. items[key[r]] # None /\ (Store!Fresh(items[key[r]]) \/ Store!Stale(items[key[r]]))
    BY <1>0, <2>1, HitIsServed
  <2> QED  BY <1>0, <2>1, <2>2, ServedIsOK
<1>7. CASE ServeHit(r)
  <2>1. HitEntry(r) /\ pc' = [pc EXCEPT ![r] = "publish"] /\ UNCHANGED key
    BY <1>7 DEF ServeHit
  <2>2. "publish" \in Leaving /\ "publish" # "store"
    BY DEF Leaving
  <2> QED  BY <1>6, <2>1, <2>2, FoundIsOK
<1>8. ASSUME NEW f \in Requests, NEW i \in QueryIDs, ServeHitAndRefresh(r, f, i)  PROVE RepliesOK'
  <2> DEFINE p == [fact |-> items[key[r]].value,
                   from |-> IF Store!Fresh(items[key[r]]) THEN "fresh" ELSE "stale"]
  <2>1. /\ HitEntry(r) /\ pc[f] = "idle" /\ pc' = [pc EXCEPT ![r] = "publish", ![f] = "start"]
        /\ key' = [key EXCEPT ![f] = RefreshKey[key[r]]]
    BY <1>8 DEF ServeHitAndRefresh
  <2>2. /\ reply' = [reply EXCEPT ![r] = p] /\ pc[r] = "positive" /\ ReplyOK(truth, ended, now, key[r], p)
    BY <1>6, <2>1
  <2> HIDE DEF p
  <2>3. f # r /\ DOMAIN key = Requests
    BY <2>1, <2>2 DEF AgeInv, RequestsOK
  <2>4. /\ pc'[r] = "publish" /\ pc'[f] = "start" /\ key'[r] = key[r] /\ reply'[r] = p
        /\ DOMAIN reply' = Requests
        /\ \A q \in Requests \ {r, f} : pc'[q] = pc[q] /\ key'[q] = key[q] /\ reply'[q] = reply[q]
    BY <1>0, <2>1, <2>2, <2>3
  <2>5. /\ \A q \in Requests \ {r} : pc'[q] \in Leaving =>
              pc'[q] = pc[q] /\ key'[q] = key[q] /\ reply'[q] = reply[q]
        /\ \A q \in Requests \cap {r} :
              /\ pc'[q] = "store" => reply'[q].fact # None /\ reply'[q].from = "upstream"
              /\ pc'[q] \in Leaving /\ reply'[q].fact # None =>
                    ReplyOK(truth', ended', now', key'[q], reply'[q])
    BY <2>2, <2>4 DEF Leaving
  <2> QED  BY <1>0, <2>4, <2>5, OthersStay
<1>9. CASE WalkAnswers(r)
  <2>1. /\ reply' = [reply EXCEPT ![r] = [fact |-> truth[key[r]], from |-> "upstream"]]
        /\ pc' = [pc EXCEPT ![r] = "store"] /\ UNCHANGED key
    BY <1>9 DEF WalkAnswers
  <2>2. truth[key[r]] \in Facts /\ truth[key[r]] # None
    BY <1>0, ResolverAssumption DEF WorldOK, Facts
  <2>3. ReplyOK(truth, ended, now, key[r], [fact |-> truth[key[r]], from |-> "upstream"])
    BY <2>2 DEF ReplyOK, HeldSince, Served
  <2>4. "store" \in Leaving
    BY DEF Leaving
  <2> QED  BY <2>1, <2>2, <2>3, <2>4, FoundIsOK
<1>10. CASE WalkBringsNothing(r) \/ Fail(r)
  BY <1>2, <1>10 DEF WalkBringsNothing, Fail
<1>11. CASE ServeLastGood(r)
  <2> DEFINE e == items[key[r]]
  <2>1. e # None /\ Store!WithinMaxAge(e) /\ Found(r, e.value, "last good") /\ UNCHANGED key
    BY <1>11 DEF ServeLastGood
  <2>2. ReplyOK(truth, ended, now, key[r], [fact |-> e.value, from |-> "last good"])
    BY <1>0, <2>1, ServedIsOK
  <2>3. "publish" \in Leaving /\ "publish" # "store"
    BY DEF Leaving
  <2> HIDE DEF e
  <2> QED  BY <2>1, <2>2, <2>3, FoundIsOK DEF Found
<1>12. ASSUME NEW ttl \in TTLs, StoreResult(r, ttl)  PROVE RepliesOK'
  <2>1. pc[r] = "store" /\ pc' = [pc EXCEPT ![r] = "publish"] /\ UNCHANGED <<key, reply>>
    BY <1>12 DEF StoreResult
  <2>2. ReplyOK(truth, ended, now, key[r], reply[r])
    BY <2>1 DEF AgeInv, RepliesOK
  <2>3. /\ \A q \in Requests \ {r} : pc'[q] \in Leaving =>
              pc'[q] = pc[q] /\ key'[q] = key[q] /\ reply'[q] = reply[q]
        /\ \A q \in Requests \cap {r} :
              /\ pc'[q] = "store" => reply'[q].fact # None /\ reply'[q].from = "upstream"
              /\ pc'[q] \in Leaving /\ reply'[q].fact # None =>
                    ReplyOK(truth', ended', now', key'[q], reply'[q])
    BY <1>0, <2>1, <2>2
  <2> QED  BY <1>0, <2>1, <2>3, OthersStay
<1>13. CASE Publish(r) \/ FinishRefresh(r)
  <2>1. /\ UNCHANGED key /\ \E stage \in {"idle", "refreshed"} : pc' = [pc EXCEPT ![r] = stage]
        /\ \E p : reply' = [reply EXCEPT ![r] = p]
    BY <1>13 DEF Publish, FinishRefresh
  <2> QED  BY <1>0, <1>1, <2>1 DEF Leaving
<1> QED  BY <1>3, <1>4, <1>5, <1>7, <1>8, <1>9, <1>10, <1>11, <1>12, <1>13 DEF Step

LEMMA AgeStep == AgeInv /\ [Next]_vars => AgeInv'
<1> SUFFICES ASSUME AgeInv, [Next]_vars  PROVE AgeInv'
  OBVIOUS
<1>1. RequestsOK' /\ WorldOK' /\ HoldingStays /\ (now' = now \/ (PassTime /\ now' = now + 1))
  BY NextKeepsRequests, WorldStep DEF AgeInv
<1>2. now \in Nat /\ now' \in Nat /\ now' >= now
  BY <1>1 DEF AgeInv, WorldOK
<1>3. EntriesOK'
  <2>1. CASE \E r \in Requests, ttl \in TTLs : StoreResult(r, ttl)
    BY <2>1, StoringIsOK
  <2>2. CASE \A r \in Requests, ttl \in TTLs : ~StoreResult(r, ttl)
    <3>1. EntriesStay
      BY <2>2, OnlyStoreAdds DEF AgeInv
    <3> QED  BY <1>1, <1>2, <3>1, StayingIsOK DEF AgeInv
  <2> QED  BY <2>1, <2>2
<1>4. RepliesOK'
  <2>1. ASSUME NEW r \in Requests, Step(r)  PROVE RepliesOK'
    <3>1. UNCHANGED <<now, truth, ended>>
      BY <2>1, StepLeavesWorld
    <3> QED  BY <2>1, <3>1, StepKeepsReplies
  <2>2. CASE PassTime
    <3>1. \A q \in Requests : pc'[q] \notin {"store", "publish"}
      BY <2>2 DEF PassTime, requestVars
    <3>2. DOMAIN reply' = Requests
      BY <2>2 DEF PassTime, requestVars, AgeInv, RepliesOK
    <3> QED  BY <3>1, <3>2 DEF RepliesOK
  <2>3. ASSUME now' = now, DOMAIN reply' = Requests,
               \A q \in Requests : pc'[q] \in Leaving =>
                  pc'[q] = pc[q] /\ key'[q] = key[q] /\ reply'[q] = reply[q]
        PROVE  RepliesOK'
    <3>1. Requests \ {} = Requests /\ Requests \cap {} = {}
      OBVIOUS
    <3> QED  BY <1>1, <2>3, <3>1, OthersStay
  <2>4. ASSUME NEW r \in Requests, NEW k \in Keys, NEW i \in QueryIDs, Ask(r, k, i)  PROVE RepliesOK'
    <3>1. /\ pc' = [pc EXCEPT ![r] = "start"] /\ key' = [key EXCEPT ![r] = k]
          /\ UNCHANGED <<reply, now>>
      BY <2>4 DEF Ask
    <3> QED  BY <2>3, <3>1 DEF AgeInv, RequestsOK, RepliesOK, Leaving
  <2>5. CASE \/ UNCHANGED vars
             \/ \E k \in Keys : DeleteEntry(k)
             \/ FlushCache
             \/ \E names \in SUBSET Keys : ReplaceBlocklist(names)
             \/ \E k \in Keys, fact \in Facts : ChangeZone(k, fact)
    <3>1. UNCHANGED <<pc, key, reply, now>>
      BY <2>5 DEF vars, requestVars, DeleteEntry, FlushCache, ReplaceBlocklist, ChangeZone, Store!Delete, Store!Flush
    <3> QED  BY <2>3, <3>1 DEF AgeInv, RepliesOK
  <2> QED  BY <2>1, <2>2, <2>4, <2>5 DEF Next
<1> QED  BY <1>1, <1>3, <1>4 DEF AgeInv

LEMMA AgeInit == Init => AgeInv
<1> SUFFICES ASSUME Init  PROVE AgeInv
  OBVIOUS
<1>1. RequestsOK
  BY DEF Init, RequestsOK, Stages
<1>2. WorldOK
  BY DEF Init, Store!Init, WorldOK
<1>3. EntriesOK
  BY DEF Init, Store!Init, Store!Empty, EntriesOK
<1>4. RepliesOK
  BY DEF Init, RepliesOK
<1> QED  BY <1>1, <1>2, <1>3, <1>4 DEF AgeInv

(* Whatever Resolve returns was said by the servers of that very name no   *)
(* longer ago than the limits of the cache allow, however requests,        *)
(* refreshes, deletions and changes of the zone interleave.                *)
THEOREM AnswersAreInTime == Spec => []NothingOutlivesItsLimit
<1>1. AgeInv => NothingOutlivesItsLimit
  <2> SUFFICES ASSUME AgeInv, NEW r \in Requests, pc[r] = "publish", reply[r].fact # None
               PROVE  /\ WasTrue(key[r], reply[r].fact)
                      /\ Outdated(key[r], reply[r].fact) <= Allowance(reply[r].from)
    BY DEF NothingOutlivesItsLimit
  <2> DEFINE k == key[r]
             f == reply[r].fact
             a == Allowance(reply[r].from)
  <2>1. ReplyOK(truth, ended, now, k, reply[r]) /\ k \in Keys /\ now \in Nat
    BY DEF AgeInv, RepliesOK, RequestsOK, WorldOK
  <2>2. f \in Facts /\ a \in Nat /\ HeldSince(truth, ended, k, f, now - a)
    BY <2>1, LimitsOK DEF ReplyOK
  <2>3. ended[k][f] \in Nat \cup {None}
    BY <2>1, <2>2 DEF AgeInv, WorldOK
  <2> HIDE DEF k, f, a
  <2>4. WasTrue(k, f) /\ Outdated(k, f) <= a
    BY <2>1, <2>2, <2>3 DEF WasTrue, Outdated, HeldSince
  <2> QED  BY <2>4 DEF k, f, a
<1> QED  BY <1>1, AgeInit, AgeStep, PTL DEF Spec
-----------------------------------------------------------------------------
(* What is known of the cache holds here too: CacheProofs, for the cache   *)
(* that Resolve uses.                                                      *)
Proved == INSTANCE CacheProofs WITH
    Encodable <- Values, KeySize <- [k \in Keys |-> 1], ValueSize <- [v \in Values |-> 1],
    RCodes <- Denials, PersistPath <- FALSE, Updates <- {}, MaxRefreshes <- Cardinality(Requests)

LEMMA CacheAssumptionsHold == Proved!CacheAssumption /\ Proved!NoneAssumption
<1>1. IsFiniteSet(Keys) /\ Cardinality(Requests) \in Nat
  BY StoreAssumption, FS_CardinalityType
<1>2. Proved!CacheAssumption
  BY <1>1, StoreAssumption, ResolverAssumption
  DEF Proved!CacheAssumption, Proved!Config, Store!Config, Proved!IsFiniteSet, IsFiniteSet
<1>3. Proved!NoneAssumption
  BY StoreAssumption
  DEF Proved!NoneAssumption, Proved!Entry, Store!Entry, Proved!NegativeEntry, Store!NegativeEntry,
      Proved!Snapshot, Store!Snapshot
<1> QED  BY <1>2, <1>3

(* The steps of the two instances are the same, one by one.                *)
LEMMA SameSteps ==
  ASSUME NEW k, NEW v, NEW ttl
  PROVE  /\ Store!GetHit(k) => Proved!GetHit(k)
         /\ Store!GetMissKept(k) => Proved!GetMissKept(k)
         /\ Store!GetMissDropped(k) => Proved!GetMissDropped(k)
         /\ Store!StaleOnErrorDropped(k) => Proved!StaleOnErrorDropped(k)
         /\ Store!GetNegativeExpired(k) => Proved!GetNegativeExpired(k)
         /\ Store!RefreshDone(k) => Proved!RefreshDone(k)
         /\ Store!Delete(k) => Proved!Delete(k)
         /\ Store!SetNegative(k, v, ttl) => Proved!SetNegative(k, v, ttl)
         /\ Store!Replace(k, v, ttl) => Proved!Replace(k, v, ttl)
         /\ Store!Insert(k, v, ttl) => Proved!Insert(k, v, ttl)
         /\ Store!Flush => Proved!Flush
         /\ Store!Tick => Proved!Tick
<1>1. Store!GetHit(k) => Proved!GetHit(k)
  BY DEF Store!GetHit, Store!Hit, Store!Present, Store!Fresh, Store!Stale, Store!WantsRefresh,
         Store!MoveToFront, Store!Without, Store!Position, Store!Cons, Store!RemoveAt, Store!diskVars,
         Proved!GetHit, Proved!Hit, Proved!Present, Proved!Fresh, Proved!Stale, Proved!WantsRefresh,
         Proved!MoveToFront, Proved!Without, Proved!Position, Proved!Cons, Proved!RemoveAt,
         Proved!diskVars
<1>2. Store!GetMissKept(k) => Proved!GetMissKept(k)
  BY DEF Store!GetMissKept, Store!Hit, Store!Present, Store!Fresh, Store!Stale, Store!WithinMaxAge,
         Store!MoveToFront, Store!Without, Store!Position, Store!Cons, Store!RemoveAt, Store!diskVars,
         Proved!GetMissKept, Proved!Hit, Proved!Present, Proved!Fresh, Proved!Stale,
         Proved!WithinMaxAge, Proved!MoveToFront, Proved!Without, Proved!Position, Proved!Cons,
         Proved!RemoveAt, Proved!diskVars
<1>3. Store!GetMissDropped(k) => Proved!GetMissDropped(k)
  BY DEF Store!GetMissDropped, Store!Present, Store!Fresh, Store!Stale, Store!WithinMaxAge, Store!Drop,
         Store!Released, Store!Size, Store!Without, Store!Position, Store!RemoveAt, Store!diskVars,
         Proved!GetMissDropped, Proved!Present, Proved!Fresh, Proved!Stale, Proved!WithinMaxAge,
         Proved!Drop, Proved!Released, Proved!Size, Proved!Without, Proved!Position, Proved!RemoveAt,
         Proved!diskVars
<1>4. Store!StaleOnErrorDropped(k) => Proved!StaleOnErrorDropped(k)
  BY DEF Store!StaleOnErrorDropped, Store!Present, Store!WithinMaxAge, Store!Drop, Store!Released,
         Store!Size, Store!Without, Store!Position, Store!RemoveAt, Store!diskVars,
         Proved!StaleOnErrorDropped, Proved!Present, Proved!WithinMaxAge, Proved!Drop, Proved!Released,
         Proved!Size, Proved!Without, Proved!Position, Proved!RemoveAt, Proved!diskVars
<1>5. Store!GetNegativeExpired(k) => Proved!GetNegativeExpired(k)
  BY DEF Store!GetNegativeExpired, Store!NegativeServed, Store!storeVars, Store!diskVars,
         Proved!GetNegativeExpired, Proved!NegativeServed, Proved!storeVars, Proved!diskVars
<1>6. Store!RefreshDone(k) => Proved!RefreshDone(k)
  BY DEF Store!RefreshDone, Store!diskVars, Proved!RefreshDone, Proved!diskVars
<1>7. Store!Delete(k) => Proved!Delete(k)
  BY DEF Store!Delete, Store!Present, Store!Drop, Store!Released, Store!Size, Store!Without,
         Store!Position, Store!RemoveAt, Store!storeVars, Store!diskVars, Proved!Delete, Proved!Present,
         Proved!Drop, Proved!Released, Proved!Size, Proved!Without, Proved!Position, Proved!RemoveAt,
         Proved!storeVars, Proved!diskVars
<1>8. Store!SetNegative(k, v, ttl) => Proved!SetNegative(k, v, ttl)
  BY DEF Store!SetNegative, Store!clampTTL, Store!storeVars, Store!diskVars, Proved!SetNegative,
         Proved!clampTTL, Proved!storeVars, Proved!diskVars
<1>9. Store!Replace(k, v, ttl) => Proved!Replace(k, v, ttl)
  BY DEF Store!Replace, Store!Present, Store!NewEntry, Store!clampTTL, Store!MoveToFront, Store!Without,
         Store!Position, Store!Cons, Store!RemoveAt, Store!Size, Store!diskVars, Proved!Replace,
         Proved!Present, Proved!NewEntry, Proved!clampTTL, Proved!MoveToFront, Proved!Without,
         Proved!Position, Proved!Cons, Proved!RemoveAt, Proved!Size, Proved!diskVars
<1>10. Store!Insert(k, v, ttl) => Proved!Insert(k, v, ttl)
  BY DEF Store!Insert, Store!Present, Store!NewEntry, Store!clampTTL, Store!Cons, Store!Size,
         Store!Released, Store!Last, Store!Front, Store!diskVars, Proved!Insert, Proved!Present,
         Proved!NewEntry, Proved!clampTTL, Proved!Cons, Proved!Size, Proved!Released, Proved!Last,
         Proved!Front, Proved!diskVars
<1>11. Store!Flush => Proved!Flush
  BY DEF Store!Flush, Store!Empty, Store!diskVars, Proved!Flush, Proved!Empty, Proved!diskVars
<1>12. Store!Tick => Proved!Tick
  BY DEF Store!Tick, Store!storeVars, Store!diskVars, Proved!Tick, Proved!storeVars, Proved!diskVars
<1> QED  BY <1>1, <1>2, <1>3, <1>4, <1>5, <1>6, <1>7, <1>8, <1>9, <1>10, <1>11, <1>12

LEMMA StepOfProvedCache ==
  ASSUME RequestsOK, [Next]_vars
  PROVE  [Proved!Next]_(Proved!vars)
<1>1. CASE UNCHANGED <<now, cacheVars>>
  BY <1>1 DEF cacheVars, fixedVars, Proved!vars, Proved!storeVars, Proved!diskVars
<1>2. ASSUME NEW r \in Requests, Step(r)  PROVE [Proved!Next]_(Proved!vars)
  <2>0. key[r] \in Keys
    BY DEF RequestsOK
  <2>1. CASE \/ CheckBlocklist(r) \/ ServeNegative(r) \/ WalkAnswers(r) \/ WalkBringsNothing(r)
             \/ ServeLastGood(r) \/ Publish(r)
    BY <1>1, <2>1 DEF CheckBlocklist, ServeNegative, WalkAnswers, WalkBringsNothing, ServeLastGood, Publish
  <2>2. CASE \/ PassNegative(r) \/ ServeHit(r) \/ Miss(r) \/ Fail(r)
             \/ \E f \in Requests, i \in QueryIDs : ServeHitAndRefresh(r, f, i)
    <3>1. \/ UNCHANGED <<now, cacheVars>>
          \/ Store!GetNegativeExpired(key[r]) \/ Store!GetHit(key[r]) \/ Store!GetMissKept(key[r])
          \/ Store!GetMissDropped(key[r]) \/ Store!StaleOnErrorDropped(key[r])
      BY <2>2 DEF PassNegative, ServeHit, ServeHitAndRefresh, HitEntry, Miss, Fail
    <3>2. UNCHANGED <<now, cacheVars>> \/ Proved!Lookup(key[r])
      BY <3>1, SameSteps DEF Proved!Lookup
    <3> QED  BY <1>1, <2>0, <3>2 DEF Proved!Next
  <2>3. ASSUME NEW ttl \in TTLs, StoreResult(r, ttl)  PROVE Proved!Next
    <3> DEFINE fact == reply[r].fact
    <3>1. \/ fact \in Denials /\ Store!SetNegative(key[r], fact, ttl)
          \/ fact \in Values /\ (Store!Replace(key[r], fact, ttl) \/ Store!Insert(key[r], fact, ttl))
      BY <2>3 DEF StoreResult
    <3> HIDE DEF fact
    <3>2. \/ fact \in Denials /\ Proved!SetNegative(key[r], fact, ttl)
          \/ fact \in Values /\ (Proved!Replace(key[r], fact, ttl) \/ Proved!Insert(key[r], fact, ttl))
      BY <3>1, SameSteps
    <3> QED  BY <2>0, <2>3, <3>2 DEF Proved!Next
  <2>4. CASE FinishRefresh(r)
    <3>1. Proved!RefreshDone(origin[r]) /\ origin[r] \in Keys
      BY <2>4, SameSteps DEF FinishRefresh, RequestsOK
    <3> QED  BY <3>1 DEF Proved!Next
  <2> QED  BY <1>2, <2>1, <2>2, <2>3, <2>4 DEF Step
<1>3. ASSUME NEW k \in Keys, DeleteEntry(k)  PROVE Proved!Next
  BY <1>3, SameSteps DEF DeleteEntry, Proved!Next
<1>4. CASE FlushCache \/ PassTime
  BY <1>4, SameSteps DEF FlushCache, PassTime, Proved!Next
<1>5. CASE \/ UNCHANGED vars
           \/ \E r \in Requests, k \in Keys, i \in QueryIDs : Ask(r, k, i)
           \/ \E names \in SUBSET Keys : ReplaceBlocklist(names)
           \/ \E k \in Keys, fact \in Facts : ChangeZone(k, fact)
  BY <1>1, <1>5 DEF vars, Ask, ReplaceBlocklist, ChangeZone
<1> QED  BY <1>2, <1>3, <1>4, <1>5 DEF Next

LEMMA CacheStaysSound ==
  ASSUME RequestsOK, Proved!IInv, [Next]_vars
  PROVE  Proved!IInv'
BY StepOfProvedCache, CacheAssumptionsHold, Proved!StepKeepsInvariant
-----------------------------------------------------------------------------
(* When a resolution may fail.                                             *)

(* learned is the age of the entry, if there is one; an entry that is gone *)
(* without having been deleted, flushed or evicted got too old.            *)
Forgettable(time, when) == when = None \/ time - when > InitConfig.staleMaxAge

LearnedInv ==
    /\ learned \in [Keys -> Nat \cup {None}]
    /\ \A k \in Keys : IF items[k] = None THEN Forgettable(now, learned[k])
                                          ELSE learned[k] = items[k].lastGoodAt

KnowledgeInv == AgeInv /\ Proved!IInv /\ LearnedInv

(* A request makes only entries that are too old disappear, unless it      *)
(* stores one.                                                             *)
LEMMA DropsAreOld ==
  ASSUME AgeInv, NEW r \in Requests, Step(r), \A ttl \in TTLs : ~StoreResult(r, ttl),
         NEW k \in Keys, items[k] # None, items'[k] = None
  PROVE  now - items[k].lastGoodAt > InitConfig.staleMaxAge
<1>0. /\ key[r] \in Keys /\ DOMAIN items = Keys /\ config = InitConfig
      /\ \A j \in Keys : items[j] # None => items[j] \in Store!Entry
  BY AnswerIsKnown DEF AgeInv, RequestsOK, EntriesOK, WorldOK
<1>1. \A d, e : SameAnswer(d, e) => d # None
  BY StoreAssumption DEF SameAnswer
<1>2. CASE UNCHANGED items
  BY <1>2
<1>3. CASE Store!GetHit(key[r]) \/ Store!GetMissKept(key[r])
  <2>1. /\ items[key[r]] # None
        /\ \E e \in {Store!Hit(items[key[r]]), [Store!Hit(items[key[r]]) EXCEPT !.refreshing = TRUE]} :
              items' = [items EXCEPT ![key[r]] = e]
    BY <1>3 DEF Store!GetHit, Store!GetMissKept, Store!Present
  <2>2. PICK e : e # None /\ items' = [items EXCEPT ![key[r]] = e]
    BY <1>0, <1>1, <2>1, SameAnswers
  <2> QED  BY <1>0, <2>2
<1>4. CASE Store!GetMissDropped(key[r]) \/ Store!StaleOnErrorDropped(key[r])
  <2>1. ~Store!WithinMaxAge(items[key[r]]) /\ items' = [items EXCEPT ![key[r]] = None]
    BY <1>4 DEF Store!GetMissDropped, Store!StaleOnErrorDropped, Store!Drop
  <2>2. k = key[r]
    BY <1>0, <2>1
  <2>3. now \in Nat /\ items[k].lastGoodAt \in Nat /\ InitConfig.staleMaxAge \in Nat
    BY <1>0, LimitsOK DEF AgeInv, WorldOK, Store!Entry
  <2> QED  BY <1>0, <2>1, <2>2, <2>3 DEF Store!WithinMaxAge
<1>5. CASE FinishRefresh(r)
  <2> DEFINE o == origin[r]
             e == IF items[o] = None THEN None ELSE [items[o] EXCEPT !.refreshing = FALSE]
  <2>1. o \in Keys
    BY <1>5 DEF FinishRefresh, AgeInv, RequestsOK
  <2>2. items' = [items EXCEPT ![o] = e]
    BY <1>0, <1>5, <2>1 DEF FinishRefresh, Store!RefreshDone
  <2>3. items[o] # None => e # None
    BY <1>0, <1>1, <2>1, SameAnswers
  <2> HIDE DEF e, o
  <2> QED  BY <1>0, <2>1, <2>2, <2>3
<1>6. UNCHANGED <<now, cacheVars>> => UNCHANGED items
  BY DEF cacheVars
<1>7. Store!GetNegativeExpired(key[r]) => UNCHANGED items
  BY DEF Store!GetNegativeExpired, Store!storeVars
<1> QED  BY <1>2, <1>3, <1>4, <1>5, <1>6, <1>7
         DEF Step, CheckBlocklist, ServeNegative, PassNegative, ServeHit, ServeHitAndRefresh, HitEntry,
             Miss, WalkAnswers, WalkBringsNothing, ServeLastGood, Fail, Publish

(* What Set adds is not what it evicts: a key without an entry is not on   *)
(* the list, and the list has room for one.                                *)
LEMMA AddedIsKept ==
  ASSUME Proved!IInv, config = InitConfig, NEW k \in Keys, items[k] = None,
         Len(Store!Cons(k, lru)) > config.maxEntries
  PROVE  Store!Last(Store!Cons(k, lru)) # k
<1>1. lru \in Seq(Keys) /\ \A i \in DOMAIN lru : lru[i] # k
  <2>1. lru \in Seq(Keys) /\ Proved!ListMatchesMap
    BY DEF Proved!IInv, Proved!TypeOK, Proved!StoreInv
  <2>2. k \notin Proved!Range(lru)
    BY <2>1 DEF Proved!ListMatchesMap, Proved!Present
  <2> QED  BY <2>1, <2>2 DEF Proved!Range
<1>2. config.maxEntries \in Nat \ {0}
  BY StoreAssumption DEF Store!Config
<1>3. <<k>> \in Seq(Keys) /\ Len(<<k>>) = 1
  OBVIOUS
<1> DEFINE grown == <<k>> \o lru
<1>4. /\ Len(lru) \in Nat /\ DOMAIN lru = 1 .. Len(lru) /\ Len(grown) = 1 + Len(lru)
      /\ \A i \in 1 .. Len(grown) : grown[i] = IF i <= 1 THEN <<k>>[i] ELSE lru[i - 1]
  BY <1>1, <1>3, ConcatProperties, LenProperties
<1>5. Store!Cons(k, lru) = grown /\ Store!Last(grown) = grown[Len(grown)]
  BY DEF Store!Cons, Store!Last
<1> HIDE DEF grown
<1>6. Len(grown) \in 1 .. Len(grown) /\ ~(Len(grown) <= 1) /\ Len(grown) - 1 \in DOMAIN lru
  BY <1>2, <1>4, <1>5
<1>7. grown[Len(grown)] = lru[Len(grown) - 1]
  BY <1>4, <1>6
<1> QED  BY <1>1, <1>5, <1>6, <1>7

LEMMA StoringKeepsLearned ==
  ASSUME KnowledgeInv, NEW r \in Requests, NEW ttl \in TTLs, StoreResult(r, ttl)
  PROVE  LearnedInv'
<1> DEFINE k == key[r]
           fact == reply[r].fact
           new == Store!NewEntry(fact, ttl)
<1>1. /\ k \in Keys /\ now \in Nat /\ config = InitConfig /\ DOMAIN items = Keys
      /\ learned \in [Keys -> Nat \cup {None}]
  BY DEF KnowledgeInv, AgeInv, RequestsOK, WorldOK, EntriesOK, LearnedInv
<1>2. now' = now
  BY DEF StoreResult, Store!SetNegative, Store!Replace, Store!Insert
<1>3. CASE Store!SetNegative(k, fact, ttl) /\ UNCHANGED learned
  <2>1. UNCHANGED items
    BY <1>3 DEF Store!SetNegative, Store!storeVars
  <2> QED  BY <1>2, <1>3, <2>1 DEF KnowledgeInv, LearnedInv, Forgettable
<1>4. CASE /\ fact \in Values /\ (Store!Replace(k, fact, ttl) \/ Store!Insert(k, fact, ttl))
           /\ learned' = [j \in Keys |-> IF j = k THEN now ELSE IF items'[j] = None THEN None ELSE learned[j]]
  <2>1. new.lastGoodAt = now /\ new # None
    <3> DEFINE life == Store!clampTTL(ttl)
    <3>1. new = [value |-> fact, lastGoodAt |-> now, expiresAt |-> now + life,
                 staleUntil |-> now + life + config.staleWindow, hits |-> 0, refreshing |-> FALSE]
      BY DEF Store!NewEntry
    <3>2. life \in Nat
      BY <1>1, LimitsOK, ResolverAssumption DEF Store!clampTTL
    <3> HIDE DEF life
    <3>3. now + life \in Nat /\ now + life + config.staleWindow \in Nat /\ 0 \in 0 .. PrefetchHits
      BY <1>1, <3>2, LimitsOK, StoreAssumption
    <3> HIDE DEF new
    <3>4. new \in Store!Entry
      BY <1>1, <1>4, <3>1, <3>3 DEF Store!Entry
    <3> QED  BY <3>1, <3>4, StoreAssumption
  <2>2. items'[k] = new /\ \A j \in Keys \ {k} : items'[j] \in {None, items[j]}
    <3>1. CASE Store!Replace(k, fact, ttl)
      BY <1>1, <3>1 DEF Store!Replace
    <3>2. CASE Store!Insert(k, fact, ttl)
      <4> DEFINE oldest == Store!Last(Store!Cons(k, lru))
                 full == Len(Store!Cons(k, lru)) > config.maxEntries
      <4>1. /\ items[k] = None
            /\ items' = IF full THEN [[items EXCEPT ![k] = new] EXCEPT ![oldest] = None]
                        ELSE [items EXCEPT ![k] = new]
        BY <3>2 DEF Store!Insert, Store!Present
      <4>2. full => oldest # k
        BY <1>1, <4>1, AddedIsKept DEF KnowledgeInv
      <4> HIDE DEF new, oldest, full
      <4> QED  BY <1>1, <4>1, <4>2
    <3> QED  BY <1>4, <3>1, <3>2
  <2> HIDE DEF new
  <2>3. learned' \in [Keys -> Nat \cup {None}]
    BY <1>1, <1>4
  <2>4. ASSUME NEW j \in Keys  PROVE IF items'[j] = None THEN Forgettable(now', learned'[j])
                                                         ELSE learned'[j] = items'[j].lastGoodAt
    <3>1. CASE j = k
      BY <1>4, <2>1, <2>2, <3>1
    <3>2. CASE j # k
      BY <1>4, <2>2, <3>2 DEF KnowledgeInv, LearnedInv, Forgettable
    <3> QED  BY <3>1, <3>2
  <2> QED  BY <2>3, <2>4 DEF LearnedInv, Forgettable
<1> QED  BY <1>3, <1>4 DEF StoreResult

LEMMA LearnedStep == KnowledgeInv /\ [Next]_vars => LearnedInv'
<1> SUFFICES ASSUME KnowledgeInv, [Next]_vars  PROVE LearnedInv'
  OBVIOUS
<1>0. /\ AgeInv /\ LearnedInv /\ now \in Nat /\ InitConfig.staleMaxAge \in Nat
      /\ learned \in [Keys -> Nat \cup {None}]
  BY LimitsOK DEF KnowledgeInv, AgeInv, WorldOK, LearnedInv
<1>1. CASE UNCHANGED <<items, now, learned>>
  BY <1>0, <1>1 DEF LearnedInv, Forgettable
<1>2. ASSUME NEW r \in Requests, Step(r)  PROVE LearnedInv'
  <2>1. CASE \E ttl \in TTLs : StoreResult(r, ttl)
    BY <2>1, StoringKeepsLearned
  <2>2. CASE \A ttl \in TTLs : ~StoreResult(r, ttl)
    <3>1. UNCHANGED learned
      BY <1>2, <2>2 DEF Step, CheckBlocklist, ServeNegative, PassNegative, ServeHit, ServeHitAndRefresh,
                        Miss, WalkAnswers, WalkBringsNothing, ServeLastGood, Fail, Publish, FinishRefresh, worldVars
    <3>2. UNCHANGED now
      BY <1>2, StepLeavesWorld
    <3>3. \A k \in Keys : items'[k] # None => items[k] # None /\ items'[k].lastGoodAt = items[k].lastGoodAt
      <4>1. EntriesStay
        BY <1>0, <1>2, <2>2, RequestKeepsEntries DEF AgeInv
      <4> QED  BY <4>1 DEF EntriesStay, EntryStays, SameAnswer
    <3>4. ASSUME NEW k \in Keys  PROVE IF items'[k] = None THEN Forgettable(now', learned'[k])
                                                           ELSE learned'[k] = items'[k].lastGoodAt
      <4>1. CASE items'[k] # None
        BY <1>0, <3>1, <3>3, <4>1 DEF LearnedInv
      <4>2. CASE items'[k] = None /\ items[k] = None
        BY <1>0, <3>1, <3>2, <4>2 DEF LearnedInv
      <4>3. CASE items'[k] = None /\ items[k] # None
        <5>1. now - items[k].lastGoodAt > InitConfig.staleMaxAge
          BY <1>0, <1>2, <2>2, <4>3, DropsAreOld
        <5>2. learned[k] = items[k].lastGoodAt
          BY <1>0, <4>3 DEF LearnedInv
        <5> QED  BY <3>1, <3>2, <4>3, <5>1, <5>2 DEF Forgettable
      <4> QED  BY <4>1, <4>2, <4>3
    <3> QED  BY <1>0, <3>1, <3>4 DEF LearnedInv, Forgettable
  <2> QED  BY <2>1, <2>2
<1>3. ASSUME NEW k \in Keys, DeleteEntry(k)  PROVE LearnedInv'
  <2>1. /\ learned' = [learned EXCEPT ![k] = None] /\ now' = now
        /\ items' = [items EXCEPT ![k] = None] \/ (items[k] = None /\ UNCHANGED items)
    BY <1>3 DEF DeleteEntry, Store!Delete, Store!Drop, Store!Present, Store!storeVars
  <2>2. items'[k] = None /\ learned'[k] = None /\ \A j \in Keys \ {k} : items'[j] = items[j] /\ learned'[j] = learned[j]
    BY <1>0, <2>1 DEF AgeInv, EntriesOK
  <2> QED  BY <1>0, <2>1, <2>2 DEF LearnedInv, Forgettable
<1>4. CASE FlushCache
  BY <1>4 DEF FlushCache, Store!Flush, Store!Empty, LearnedInv, Forgettable
<1>5. CASE PassTime
  <2>1. now' = now + 1 /\ UNCHANGED <<items, learned>>
    BY <1>5 DEF PassTime, Store!Tick, Store!storeVars, worldVars
  <2>2. \A k \in Keys : Forgettable(now, learned[k]) => Forgettable(now', learned[k])
    BY <1>0, <2>1 DEF Forgettable
  <2> QED  BY <1>0, <2>1, <2>2 DEF LearnedInv, Forgettable
<1>6. CASE \/ UNCHANGED vars
           \/ \E r \in Requests, k \in Keys, i \in QueryIDs : Ask(r, k, i)
           \/ \E names \in SUBSET Keys : ReplaceBlocklist(names)
           \/ \E k \in Keys, fact \in Facts : ChangeZone(k, fact)
  BY <1>1, <1>6 DEF vars, cacheVars, worldVars, Ask, ReplaceBlocklist, ChangeZone
<1> QED  BY <1>2, <1>3, <1>4, <1>5, <1>6 DEF Next

LEMMA KnowledgeInit == Init => KnowledgeInv
<1> SUFFICES ASSUME Init  PROVE KnowledgeInv
  OBVIOUS
<1>1. Proved!Init
  BY DEF Init, Store!Init, Store!Empty, Store!EmptySnapshot, Proved!Init, Proved!Empty, Proved!EmptySnapshot
<1>2. Proved!IInv
  BY <1>1, CacheAssumptionsHold, Proved!InitInvariant
<1>3. LearnedInv
  BY DEF Init, Store!Init, Store!Empty, LearnedInv, Forgettable
<1> QED  BY <1>2, <1>3, AgeInit DEF KnowledgeInv

LEMMA KnowledgeStep == KnowledgeInv /\ [Next]_vars => KnowledgeInv'
<1> SUFFICES ASSUME KnowledgeInv, [Next]_vars  PROVE KnowledgeInv'
  OBVIOUS
<1>1. AgeInv'
  BY AgeStep DEF KnowledgeInv
<1>2. Proved!IInv'
  BY CacheStaysSound DEF KnowledgeInv, AgeInv
<1>3. LearnedInv'
  BY LearnedStep
<1> QED  BY <1>1, <1>2, <1>3 DEF KnowledgeInv

(* A request that fails does so in Fail, whose lookup finds nothing young  *)
(* enough.                                                                 *)
LEMMA FailureIsHonest ==
  ASSUME KnowledgeInv, [Next]_vars, NEW r \in Requests,
         pc[r] = "walk", pc'[r] = "publish", reply'[r].from = "servfail"
  PROVE  learned[key[r]] = None \/ now - learned[key[r]] > InitConfig.staleMaxAge
<1>0. /\ DOMAIN pc = Requests /\ DOMAIN reply = Requests /\ key[r] \in Keys /\ config = InitConfig
      /\ AgeInv /\ LearnedInv
  BY DEF KnowledgeInv, AgeInv, RequestsOK, RepliesOK, WorldOK
<1>1. pc' # pc
  BY <1>0
<1>2. ASSUME NEW q \in Requests, NEW k \in Keys, NEW i \in QueryIDs, Ask(q, k, i)  PROVE FALSE
  BY <1>0, <1>2 DEF Ask
<1>3. PICK q \in Requests : Step(q)
  BY <1>1, <1>2 DEF Next, vars, requestVars, DeleteEntry, FlushCache, ReplaceBlocklist, ChangeZone, PassTime
<1>4. q = r /\ Fail(r)
  <2>1. CASE \/ CheckBlocklist(q) \/ ServeNegative(q) \/ PassNegative(q) \/ ServeHit(q)
             \/ WalkAnswers(q) \/ Miss(q) \/ Publish(q) \/ FinishRefresh(q)
             \/ \E ttl \in TTLs : StoreResult(q, ttl)
             \/ \E f \in Requests, i \in QueryIDs : ServeHitAndRefresh(q, f, i)
    BY <1>0, <2>1 DEF CheckBlocklist, ServeNegative, PassNegative, ServeHit, ServeHitAndRefresh, HitEntry,
                      WalkAnswers, Miss, Publish, FinishRefresh, StoreResult, Found
  <2>2. CASE WalkBringsNothing(q) \/ ServeLastGood(q)
    <3>1. PICK fact, from : Found(q, fact, from) /\ from \in {"rcode", "last good"}
      BY <2>2 DEF WalkBringsNothing, ServeLastGood
    <3>2. q = r
      BY <1>0, <3>1 DEF Found
    <3> QED  BY <1>0, <3>1, <3>2 DEF Found
  <2>3. CASE Fail(q)
    BY <1>0, <2>3 DEF Fail, Found
  <2> QED  BY <1>3, <2>1, <2>2, <2>3 DEF Step
<1>5. CASE items[key[r]] = None
  BY <1>0, <1>5 DEF LearnedInv, Forgettable
<1>6. CASE items[key[r]] # None
  <2>1. ~Store!WithinMaxAge(items[key[r]])
    BY <1>4, <1>6 DEF Fail, Store!StaleOnErrorDropped
  <2>2. learned[key[r]] = items[key[r]].lastGoodAt
    BY <1>0, <1>6 DEF LearnedInv
  <2>3. now \in Nat /\ items[key[r]].lastGoodAt \in Nat /\ InitConfig.staleMaxAge \in Nat
    BY <1>0, <1>6, AnswerIsKnown, LimitsOK DEF AgeInv, WorldOK, Store!Entry
  <2> QED  BY <1>0, <2>1, <2>2, <2>3 DEF Store!WithinMaxAge
<1> QED  BY <1>5, <1>6

(* Resolve reports a failure only if nothing was stored for the key within *)
(* staleMaxAge, or it was deleted, flushed or evicted since: no lookup and *)
(* no refresh, of this or another request, takes away what GetStaleOnError *)
(* would have served.                                                      *)
THEOREM FailuresAreHonest == Spec => ErrorMeansNothingKnown
<1>1. KnowledgeInv /\ [Next]_vars =>
        [\A r \in Requests :
            (pc[r] = "walk" /\ pc'[r] = "publish" /\ reply'[r].from = "servfail") =>
                \/ learned[key[r]] = None
                \/ now - learned[key[r]] > InitConfig.staleMaxAge]_vars
  BY FailureIsHonest
<1> QED  BY <1>1, KnowledgeInit, KnowledgeStep, PTL DEF Spec, ErrorMeansNothingKnown
-----------------------------------------------------------------------------
(* Refresh marks.                                                          *)

Marked(e) == e # None /\ e.refreshing

(* What a step that starts and ends no refresh may do to the marks.        *)
LEMMA FewerMarks ==
  ASSUME MarkHasRefresher, UNCHANGED origin, \A k \in Keys : Marked(items'[k]) => Marked(items[k])
  PROVE  MarkHasRefresher'
BY DEF MarkHasRefresher, Marked

LEMMA MarksOfHit ==
  ASSUME NEW e \in Store!Entry
  PROVE  /\ Store!Hit(e).refreshing = e.refreshing
         /\ [e EXCEPT !.refreshing = FALSE].refreshing = FALSE
BY StoreAssumption DEF Store!Entry, Store!Hit

(* One key's entry is replaced by one without a mark that was not there.   *)
LEMMA OneChanges ==
  ASSUME EntriesOK, NEW k \in Keys, NEW e, items' = [items EXCEPT ![k] = e], Marked(e) => Marked(items[k])
  PROVE  \A j \in Keys : Marked(items'[j]) => Marked(items[j])
BY DEF EntriesOK

LEMMA StoringMarksNothing ==
  ASSUME AgeInv, NEW r \in Requests, NEW ttl \in TTLs, StoreResult(r, ttl)
  PROVE  \A j \in Keys : Marked(items'[j]) => Marked(items[j])
<1> DEFINE k == key[r]
           fact == reply[r].fact
           new == Store!NewEntry(fact, ttl)
           grown == Store!Cons(k, lru)
           added == [items EXCEPT ![k] = new]
           oldest == Store!Last(grown)
<1>1. k \in Keys /\ DOMAIN items = Keys
  BY DEF AgeInv, RequestsOK, EntriesOK
<1>2. ~Marked(new)
  BY DEF Marked, Store!NewEntry
<1>3. UNCHANGED items \/ items' = added \/ items' = [added EXCEPT ![oldest] = None]
  BY DEF StoreResult, Store!SetNegative, Store!storeVars, Store!Replace, Store!Insert
<1> HIDE DEF new, oldest, k
<1>4. \A j \in Keys : items'[j] \in {items[j], new, None}
  BY <1>1, <1>3
<1> QED  BY <1>2, <1>4 DEF Marked

(* Only a hit that starts a refresh marks an entry, and only the end of a  *)
(* refresh takes a goroutine away.                                         *)
LEMMA StepKeepsMarks ==
  ASSUME AgeInv, refreshes \in [Keys -> Nat], MarkHasRefresher, NEW r \in Requests, Step(r)
  PROVE  MarkHasRefresher'
<1> DEFINE k == key[r]
<1>0. k \in Keys /\ EntriesOK /\ RequestsOK /\ None \notin Keys
  BY ResolverAssumption DEF AgeInv, RequestsOK
<1>1. CASE CheckBlocklist(r) \/ ServeNegative(r) \/ PassNegative(r) \/ WalkAnswers(r) \/ WalkBringsNothing(r)
           \/ ServeLastGood(r) \/ Publish(r)
  <2>1. UNCHANGED <<items, origin>>
    BY <1>1 DEF CheckBlocklist, ServeNegative, PassNegative, WalkAnswers, WalkBringsNothing, ServeLastGood,
                Publish, cacheVars, Store!GetNegativeExpired, Store!storeVars
  <2> QED  BY <2>1, FewerMarks
<1>2. CASE ServeHit(r)
  <2>1. UNCHANGED <<origin, refreshes>> /\ Store!GetHit(k)
    BY <1>2 DEF ServeHit, HitEntry
  <2>2. items[k] # None /\ items[k] \in Store!Entry
    BY <1>0, <2>1, AnswerIsKnown DEF Store!GetHit, Store!Present
  <2>3. items' = [items EXCEPT ![k] = Store!Hit(items[k])]
    <3>1. refreshes' # [refreshes EXCEPT ![k] = @ + 1]
      BY <1>0, <2>1
    <3> QED  BY <2>1, <3>1 DEF Store!GetHit
  <2>4. Marked(Store!Hit(items[k])) => Marked(items[k])
    BY <2>2, MarksOfHit DEF Marked
  <2> QED  BY <1>0, <2>1, <2>3, <2>4, OneChanges, FewerMarks
<1>3. ASSUME NEW f \in Requests, NEW i \in QueryIDs, ServeHitAndRefresh(r, f, i)  PROVE MarkHasRefresher'
  <2>1. /\ Store!GetHit(k) /\ pc[f] = "idle" /\ origin' = [origin EXCEPT ![f] = k]
        /\ \A j \in Keys \ {k} : items'[j] = items[j]
    BY <1>0, <1>3 DEF ServeHitAndRefresh, HitEntry, Store!GetHit, EntriesOK
  <2>2. origin[f] = None /\ origin'[f] = k /\ \A q \in Requests \ {f} : origin'[q] = origin[q]
    BY <1>0, <2>1 DEF RequestsOK
  <2>3. ASSUME NEW j \in Keys, items'[j] # None, items'[j].refreshing  PROVE \E q \in Requests : origin'[q] = j
    <3>1. CASE j = k
      BY <2>2, <3>1
    <3>2. CASE j # k
      <4>1. PICK q \in Requests : origin[q] = j
        BY <2>1, <2>3, <3>2 DEF MarkHasRefresher
      <4>2. q # f
        BY <1>0, <2>2, <4>1
      <4> QED  BY <2>2, <4>1, <4>2
    <3> QED  BY <3>1, <3>2
  <2> QED  BY <2>3 DEF MarkHasRefresher
<1>4. CASE Miss(r) \/ Fail(r)
  <2>1. UNCHANGED origin
    BY <1>4 DEF Miss, Fail
  <2>2. CASE Store!GetMissKept(k)
    <3>1. items[k] # None /\ items' = [items EXCEPT ![k] = Store!Hit(items[k])]
      BY <2>2 DEF Store!GetMissKept, Store!Present
    <3>2. Marked(Store!Hit(items[k])) => Marked(items[k])
      BY <1>0, <3>1, AnswerIsKnown, MarksOfHit DEF Marked
    <3> QED  BY <1>0, <2>1, <3>1, <3>2, OneChanges, FewerMarks
  <2>3. CASE Store!GetMissDropped(k) \/ Store!StaleOnErrorDropped(k)
    <3>1. items' = [items EXCEPT ![k] = None] /\ ~Marked(None)
      BY <2>3 DEF Store!GetMissDropped, Store!StaleOnErrorDropped, Store!Drop, Marked
    <3> QED  BY <1>0, <2>1, <3>1, OneChanges, FewerMarks
  <2>4. CASE UNCHANGED <<now, cacheVars>>
    BY <2>1, <2>4, FewerMarks DEF cacheVars
  <2> QED  BY <1>4, <2>2, <2>3, <2>4 DEF Miss, Fail
<1>5. ASSUME NEW ttl \in TTLs, StoreResult(r, ttl)  PROVE MarkHasRefresher'
  <2>1. UNCHANGED origin
    BY <1>5 DEF StoreResult
  <2> QED  BY <1>5, <2>1, StoringMarksNothing, FewerMarks
<1>6. CASE FinishRefresh(r)
  <2> DEFINE o == origin[r]
  <2>1. /\ o \in Keys /\ origin' = [origin EXCEPT ![r] = None]
        /\ items' = [items EXCEPT ![o] = IF @ = None THEN None ELSE [@ EXCEPT !.refreshing = FALSE]]
    BY <1>0, <1>6 DEF FinishRefresh, Store!RefreshDone, RequestsOK
  <2>2. /\ items'[o] = IF items[o] = None THEN None ELSE [items[o] EXCEPT !.refreshing = FALSE]
        /\ \A j \in Keys \ {o} : items'[j] = items[j]
    BY <1>0, <2>1 DEF EntriesOK
  <2>3. ~Marked(items'[o])
    <3>1. CASE items[o] = None
      BY <2>2, <3>1 DEF Marked
    <3>2. CASE items[o] # None
      <4>1. items[o] \in Store!Entry
        BY <1>0, <2>1, <3>2, AnswerIsKnown
      <4>2. [items[o] EXCEPT !.refreshing = FALSE].refreshing = FALSE
        BY <4>1, MarksOfHit
      <4> QED  BY <2>2, <3>2, <4>2 DEF Marked
    <3> QED  BY <3>1, <3>2
  <2>4. \A q \in Requests \ {r} : origin'[q] = origin[q]
    BY <1>0, <2>1 DEF RequestsOK
  <2>5. ASSUME NEW j \in Keys, items'[j] # None, items'[j].refreshing  PROVE \E q \in Requests : origin'[q] = j
    <3>1. j # o
      BY <2>3, <2>5 DEF Marked
    <3>2. PICK q \in Requests : origin[q] = j
      BY <2>2, <2>5, <3>1 DEF MarkHasRefresher
    <3> QED  BY <2>4, <3>1, <3>2
  <2> QED  BY <2>5 DEF MarkHasRefresher
<1> QED  BY <1>1, <1>2, <1>3, <1>4, <1>5, <1>6 DEF Step

LEMMA MarksStay == KnowledgeInv /\ MarkHasRefresher /\ [Next]_vars => MarkHasRefresher'
<1> SUFFICES ASSUME KnowledgeInv, MarkHasRefresher, [Next]_vars  PROVE MarkHasRefresher'
  OBVIOUS
<1>0. AgeInv /\ EntriesOK /\ refreshes \in [Keys -> Nat]
  BY DEF KnowledgeInv, AgeInv, Proved!IInv, Proved!TypeOK
<1>1. CASE UNCHANGED <<items, origin>>
  BY <1>1, FewerMarks
<1>2. ASSUME NEW k \in Keys, DeleteEntry(k)  PROVE MarkHasRefresher'
  <2>1. UNCHANGED origin /\ (items' = [items EXCEPT ![k] = None] \/ UNCHANGED items) /\ ~Marked(None)
    BY <1>2 DEF DeleteEntry, requestVars, Store!Delete, Store!Drop, Store!storeVars, Marked
  <2> QED  BY <1>0, <1>1, <2>1, OneChanges, FewerMarks
<1>3. CASE FlushCache
  <2>1. UNCHANGED origin /\ \A j \in Keys : ~Marked(items'[j])
    BY <1>3 DEF FlushCache, requestVars, Store!Flush, Store!Empty, Marked
  <2> QED  BY <2>1, FewerMarks
<1>4. CASE \/ UNCHANGED vars
           \/ \E r \in Requests, k \in Keys, i \in QueryIDs : Ask(r, k, i)
           \/ \E names \in SUBSET Keys : ReplaceBlocklist(names)
           \/ \E k \in Keys, fact \in Facts : ChangeZone(k, fact)
           \/ PassTime
  BY <1>1, <1>4 DEF vars, cacheVars, requestVars, Ask, ReplaceBlocklist, ChangeZone, PassTime, Store!Tick,
                    Store!storeVars
<1> QED  BY <1>0, <1>2, <1>3, <1>4, StepKeepsMarks DEF Next

(* However requests, refreshes and deletions interleave, an entry marked   *)
(* as being refreshed has a goroutine on its way that was started for its  *)
(* key and clears the mark of whatever is stored there when it ends.       *)
THEOREM MarksHaveRefreshers == Spec => []MarkHasRefresher
<1>1. Init => KnowledgeInv /\ MarkHasRefresher
  <2>1. Init => MarkHasRefresher
    BY DEF Init, Store!Init, Store!Empty, MarkHasRefresher
  <2> QED  BY <2>1, KnowledgeInit
<1>2. KnowledgeInv /\ MarkHasRefresher /\ [Next]_vars => (KnowledgeInv /\ MarkHasRefresher)'
  BY KnowledgeStep, MarksStay
<1> QED  BY <1>1, <1>2, PTL DEF Spec
=============================================================================
