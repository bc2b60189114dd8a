# Verification of the DNS resolver

TLA+ modules that model the recursive DNS resolver of this repository, TLC
configurations that check them on small instances, and proofs that TLAPS checks
for every value of the constants.  `PROJECT.json` lists the components, the
runs, the lines each definition models (`map`), the hazards of the code and the
theorems.

## The system

One Go process answers DNS queries over UDP, TCP and DoT, resolves them
from the root servers down, caches what it learns, and offers an HTTP API and
WebSocket streams for observation and administration.

| component | state it keeps | operations | module |
|---|---|---|---|
| process (`cmd/server/main.go`) | root context, readiness, drain deadline | start, signal, cancel, drain, persist, exit | `Servers`, `Cache` |
| UDP server (`server/udp.go`) | socket, bounded queue, pool of workers, running flag | Start, readLoop, worker, Shutdown | `Servers` |
| TCP and DoT servers (`server/tcp.go`, `dot.go`) | listener, semaphore, wait group, running flag | Start, acceptLoop, refuseConn, serveConn, Shutdown | `Servers` |
| DNS handler (`server/handler.go`) | flags, table of clients, subscribers | HandlePacket, ApplyRuntimeSettings | `Handler` |
| rate limiter, RRL (`security/`) | a bucket per client, a window per response tuple | Allow, sweep, Update | `Limiters` |
| resolver (`resolver/resolver.go`) | history, traces, breakers, upstream table | Resolve, prefetch callback, publishTrace | `Resolver` |
| blocklist (`resolver/blocklist.go`) | exact names and suffixes | Replace, IsBlocked | a set in `Resolver` |
| recursive walk (`resolver/recursive.go`, `qname_minimization.go`, `bailiwick.go`) | per resolution: servers, depths, visited states | one turn of the loop per response | `RecursiveWalk` |
| upstream queries (`resolver/iterative.go`) | per call: result channel, workers, context; query ids in flight | queryFastest, queryWithRetries, queryOnce, queryTCP | `UpstreamQuery` |
| circuit breaker (`resolver/circuit_breaker.go`) | per server: state, counters, time of last failure | Allow, OnSuccess, OnFailure, UpdateConfig | `CircuitBreaker` |
| cache (`cache/`) | map, LRU list, negative map, memory estimate, limits, snapshot file | Get, Set, negatives, Delete, Flush, ApplyRuntimeConfig, Persist, Load | `Cache` |
| event hub (`resolver/pipeline.go`; the handler's `querySubs`) | subscribers' channels, under an RWMutex | Subscribe, Publish, Unsubscribe | `EventHub` |
| WebSockets (`api/websocket.go`) | per stream: connection, its mutex, two goroutines | wsTrace, wsQueries, wsMetrics, drainWebSocketControl | `WebSocket` |
| bulk and compare requests (`api/handlers.go`) | semaphore, wait group, places of results | fan out, wait, answer | `Bulk` |
| wire format (`protocol/`) | reader's position, table of suffixes | Decode, Encode | `Wire`, `Decoder`, `Encoder` |

How they interact: a UDP worker or the goroutine of a connection calls
HandlePacket, which asks the limiter, calls Resolve, asks RRL and returns bytes.
Resolve reads the blocklist and the cache, runs the walk on a miss, stores what
it found and notes a trace.  Each turn of the walk calls queryFastest, which
asks the breakers and starts a worker per server.  A hit on an entry near its
end starts a goroutine that calls Resolve again.  The API posts settings to
handler, limiters, resolver, breakers and cache while all of this goes on, each
part under its own lock.  On a signal main cancels the root context, which
watchers in every server wait for, calls Shutdown of each server and persists
the cache.  Every resolution ends by publishing its events through the hub while
it holds the mutex of the history; the streams of the API subscribe there.  All
packets, from clients and from servers, go through Decode, and all replies
through Encode.

What is hard here: goroutines that outlive the call that started them; a channel
closed by one goroutine while others send; two parties racing to shut a server
down; settings that change between two steps of a request; entries that are
fresh, stale or only good enough after an error, while refreshes, deletions and
the zones themselves change; servers whose answers are arbitrary; crashes while
the snapshot is written; clients of streams that stop reading while two
goroutines share their connection; packets whose pointers and lengths are
anything.  `PROJECT.json` lists these hazards at their lines with
the properties that would catch them.

## The modules

A message, a name or a payload is a value from a small set; every guard, early
return, error path and order of updates is kept.

**CircuitBreaker** gives breakers as records and their methods as functions.
The time of the last failure is kept as an age, capped where `Allow` stops
telling ages apart.

**UpstreamQuery** has calls of queryFastest (`pc`), a worker per call and server
(`wpc`), the result channel, the set of ids in flight and the table of breakers.
Getting a breaker, asking it, starting a worker, sending a query, receiving a
reply by UDP, dialling TCP, backing off, reporting to the breaker, updating the
upstream table and sending the result are separate steps, so that all
interleavings of two calls and of posted settings occur.  A reply is an answer
or an error code, a failure is a timeout or a reply that does not validate.

**Cache** has the map (`items`), the list (`lru`), negative entries, the memory
estimate, the limits, the refreshes under way, and the two files of Persist.
Every method holds the lock throughout and is one action, except Persist, whose
copy, truncation, write and rename are four steps between which the process may
die (`Stop`) and start again (`StartLoad`, `StartEmpty`).  A crash is one of the
process, not of the machine: the code does not call fsync.

**RecursiveWalk** is one resolution.  A state is the loop at its head; an action
is one turn, by how it ends.  What servers say is the constant operator `World`,
a set of replies for a question and the servers asked.

**Resolver** instantiates `Cache` and adds requests in Resolve, the history and
traces, the blocklist and the truth at the authoritative servers, which changes
at will.  It takes one action of `Cache` at every call of the cache.  The walk
brings what is true when it ends, an error code, or fails.  Time does not pass
between the end of the walk and the storing of its result: the code bounds that
only by its speed, and the unit of time is long against it.

**Servers** is the life of the process: `main` step by step, for each server its
flag, socket, watcher and the body of Shutdown, the UDP reader with queue and
workers, and connections from the kernel's backlog to their end.

**Limiters** gives the token bucket and RRL as functions on their state;
**Handler** has goroutines in HandlePacket over them, split where locks are
taken, and settings posted in four steps.

**EventHub** is the hub: a publisher takes the lock for reading, offers its event
to one subscriber after the other and gives the lock back; a subscriber comes and
goes under the lock for writing, and closes its channel then.  Once a writer waits
no further reader gets in, as with Go's RWMutex.  An event is a place in a bounded
channel.

**WebSocket** has the two goroutines of each stream over `EventHub`: the handler,
which selects, writes and in the end unsubscribes and closes, and the reader,
which answers pings and closes.  Taking the connection's mutex and writing under
it are separate steps, since writes have no deadline and end only when the client
reads or the connection is closed.  A client is lively, silent, stalled (it sends
but does not read) or gone, and turns from one to the other at will.

**Bulk** is a request that fans out: its limits, a goroutine per item, the
semaphore and the wait group.  **Api** composes it with the streams: the workers
of the request are the publishers, each of which takes `historyMu`, publishes and
lets go.

**Wire** gives names, their compression and the layout of each type of record's
data as a sequence of fields, in the order in which parseRData takes them, its
tests of the length included.  A packet is a sequence of cells: an octet of a name
is a cell, a number of any width is one.  **Decoder** takes a pointer, a label or a
field at a step and has a state for a slice out of range, which in Go is a panic.
**Encoder** writes a question, a record's head or a field at a step, with the table
of suffixes.  **RoundTrip** joins them: a packet is decoded, encoded again and
decoded by its receiver; or the server composes a message itself, whose data has
the fields of its type (`Fits`), as the Go types of the data have.  strings.ToLower,
by which names are compared, works octet by octet on ASCII and by Go's tables of
runes otherwise: the tables are the constant operator `LowerRunes`, of which nothing
is assumed.  strings.TrimSpace, by which names are trimmed, is modelled on octets for
all Unicode spaces (`Spaces`).  NormalizeCounts also refuses more than 65535 entries
of a section; no packet has room for them, so the limit of the packet refuses them
here.  The widths of numbers are gone with the cells: that the constants parseRData
compares lengths with (18 for RRSIG, 4 for DS and so on) are the octets of the numbers
read next was compared by hand.

`MC*` modules hold constants for TLC; `MCRecursiveWalk` also holds the claim of a
document that the code does not keep.

## The runs

| run | instance | what it shows |
|---|---|---|
| `Upstream_race` | 1 call, 2 servers, 2 ids, 2 attempts each | ids are unique and none leaks; an error means nobody answered; sends neither block nor hit a closed channel; calls return and workers exit |
| `Upstream_settings` | 2 calls, 1 server, thresholds tightened on the way | circuits open and close only after the runs of results their thresholds ask for |
| `Cache_store` | 2 keys, room for 2, posts that shrink it or cross the TTL limits | list and map agree, the memory estimate is exact |
| `Cache_persist` | 2 keys, room for 1 that may grow, crashes and restarts | capacity and memory estimate, across reload too; no half-written snapshot; no orphaned refresh mark |
| `Walk_wild` | 4 names, 2 servers, depth 3, 2 CNAMEs, any reply | bounded queries, no question asked twice of the same servers |
| `Walk_tree` | 4 zones on two servers each, 11 names | the walk returns what the zones say |
| `Resolver_serve` | 2 goroutines, 1 key, 3 units of time | nothing made up or served beyond its limit; no last good answer lost; traces match history; a refresh mark has a goroutine that clears it |
| `Servers_life` | 1 worker, 1 stream server with 1 slot, 2 connections | no send to a closed queue, readiness only while listening, a shutdown that ends, an accept loop that does not stall |
| `Handler_limits` | 2 goroutines, 1 client, 5 packets a second, unbounded time | what the limiter grants a client, and what RRL passes, and never withholds, of a client, question and response code |
| `Wire_trip` | one question followed by up to 5 arbitrary cells; one record of each type with arbitrary data and length; every message of a question, an MX and a SOA over 8 names | decoding never panics and ends; what is encoded with ASCII names decodes to the same message up to letter case and blanks at the ends of names; the first question of the message sent arrives octet by octet |
| `Api_streams` | 1 stream, a bulk or compare request with 2 workers that publish, full channels, shutdown | no send on a closed channel; results whole when the request is answered; streams end; requests are answered whatever clients do |

One run states a line of `SPEC.md` that the code does not keep: `Walk_alias`
(SPEC.md:142).  With minimised names, which are the default, an alias to a name
under the same top-level domain ends in "referral loop detected", since the states
visited for the alias are kept when its target starts again at the root.

### Bounds

Two calls, requests or goroutines are enough for a race of two; the third party
is the clock, a poster or the environment, which need no goroutine.  Two keys
with room for one or two make eviction, replacement and resizing happen.  One
stream server suffices, since stream servers share nothing but main's loop
over `Order`, which is exercised with the UDP server before it.  Times are small
numbers in the order the code demands (minTTL <= maxTTL, staleWindow <=
staleMaxAge), large enough that an entry goes through fresh, stale, kept for
errors and dropped.  `PrefetchHits` and `PrefetchPart` are scaled down with
them.  In `Handler` and `CircuitBreaker` moments are ages capped where the code
stops telling them apart, so that time is not bounded at all.  In `Wire_trip` a
name has at most 3 labels and 8 octets and a pointer reaches offset 19 of at most
60 cells, so that names, chains of pointers and offsets beyond a pointer's reach
all occur at their limits.  In `Api_streams` a channel holds one event and two are
published, so that it is full; the request asks for more items than the limit, for
none, and for fewer slots than items.  Streams share nothing but the hub, and one
that subscribes, stalls and leaves while two publishers go on meets every state of
its lock.  In `Handler_limits` there is one client with one question: buckets and
windows of different tuples share only the settings, a second tuple makes the state
space too large for TLC, and the theorems cover any number of them.  A posted burst is
more than an idle bucket earns before it is swept, so that sweeping gives something
away.  The bounds named
in the modules are `MaxTime`, `MaxRefreshes`, `MaxPackets`, `Horizon` and
`StreakCap` (the history of a streak is counted no further than the thresholds).

Deadlock is checked except in the walk and the round trip, which end, in the
servers, which exit, and in the API, whose request is answered and whose streams
end.  Symmetry is used for keys, requests, calls, ids and goroutines, and never
with a liveness property.

### Fairness

`UpstreamQuery`: weak fairness of each call and each worker.  Goroutines are
scheduled, sockets have deadlines and backoffs are finite, so each step is taken
or replaced by its failure.  Nothing obliges replies to arrive or settings to be
posted.

`Servers`: weak fairness of main after a signal, the drain timer, readLoop,
acceptLoop and a Shutdown in progress.  None is assumed of clients, of
HandlePacket, of watchers or of signals: `ShutdownEnds` must hold although
workers never finish, and does by the drain timer; `ConnectionsAreTaken` must
hold although clients keep their slots, and does because the accept loop refuses
instead of waiting.

`RoundTrip`: weak fairness of the steps of Decode, a plain call.  `DecodingEnds` is
then that its loops end, whatever pointers the packet holds.

`Api`: weak fairness of every goroutine; strong fairness of the select's branch for
the end of the process, since select chooses at random among what is ready, and of
the lock of the connection's mutex, since Go's mutex hands itself to a waiter that
has waited long; the read deadline passes if a client is silent.  Nothing is assumed
of what clients send, read or of their going: `StreamsEnd` is about streams whose
client goes, falls silent or takes its frames while the process shuts down, and
`RequestsAreAnswered` about any.

### Mutants

Every property of a passing run has a mutant: a definition changed as a plausible
slip would change it (`PROJECT.json`, `mutants`; operators named `X_Slip` beside
`X`), under which the same run finds the property violated.

## What is proved

`CacheProofs`, from `CacheAssumption` (finite keys, ordered initial limits, times
and sizes that are numbers): the invariant

    IInv == TypeOK /\ StoreInv /\ DiskInv

is inductive.  `StoreInv` joins capacity, the agreement of list and map, and the
ownership of refresh marks.  They need each other: Set evicts a single entry,
which keeps the bound only if the list names every stored key once, and dropping
an entry keeps the agreement only for a list without repetition.  `DiskInv` says
that what is about to be renamed over the snapshot is whole.  The lemmas below it
say what removing, moving, prepending and cutting do to a list without
repetition.  Conclusions: `TypeCorrect`, `CapacityIsKept`, `ListAndMapAgree`,
`RefreshIsOwned`, `CrashLeavesWholeSnapshot`, for any number of keys, limits and
restarts.  `MemoryEstimateIsExact` says that the estimate, which every operation
adds to or takes from, stays the sum of the sizes of what is stored, taken in the
order of the list.  `Induction` (a set of numbers that holds 0 and with every number
the next one holds all of them) is derived from the library's theorem that every set
of numbers has a least one; with it, what taking an element out of a list, putting one
in front and reordering do to the sum is shown for lists of any length.

`RecursiveWalkProofs`, from `WalkAssumption` (the parents of a name are names,
replies of the declared form): `TypeCorrect`; `WalkIsBounded`, a resolution sends
at most `(MaxCNAMEDepth + 1) * MaxRecursionDepth` queries whatever servers say,
by the stronger "MaxRecursionDepth for each CNAME followed and one for each step
since"; `WalkNeverRepeats`, the number of queries is the number of visited
states.

`ResolverProofs`, from `ResolverAssumption`, for any number of requests, keys and
ids: `MarksHaveRefreshers`, an entry marked as being refreshed has a goroutine in
Resolve that was started for its key and clears the mark in the end.  The cache alone
counts its refreshes (`RefreshHasOwner`); here it is a goroutine that must still be on
its way.  It needs `RequestsOK`, that a refresh remembers the key it was started for,
which may be another than the one it resolves, and that an idle goroutine refreshes
nothing, so that starting one takes none away; and the invariant of `CacheProofs`,
since a Set evicts other entries than its own.
`NoTraceLeaks`, by `HistoryOK`: ids are unique among queries under way and in the
history, so forgetting the oldest forgets the events of nobody else.
Two more results also rest on `StoreAssumption`, what `Cache` assumes of the
constants the two share.  `AnswersAreInTime`, by `AgeInv`: the moments at which an
answer ceased to be true are compared with the moment an entry was learned, never
with the present, so that the argument survives the passing of time; entries expire
no later than maxTTL after they were learned, and what a request carries out is
within the allowance of the place it came from.  `FailuresAreHonest`, by
`KnowledgeInv`, which adds that `learned` is the age of the stored entry and that an
entry gone without being deleted, flushed or evicted was too old.  Which entries a
Set evicts depends on the agreement of list and map, so the invariant of
`CacheProofs` is needed here: `Proved` instantiates that module,
`CacheAssumptionsHold` shows its assumptions for this use, and its inductive step
is cited, not proved again.

`UpstreamQueryProofs`, from `UpstreamAssumption` (finitely many servers, streaks
counted at least as far as the thresholds), for any number of calls, servers, ids
and retries.  The invariant is built in layers.  `TypeInv` joins `TypeOK` with what the stage of a worker says of
its fields: a worker has a breaker, one that asks has attempts left.  `IdInv` adds
that only a worker waiting for a reply holds an id; hence `QueryIDsAreUnique`.
`RaceInv` says that a call's channel holds no more results than there are servers
that will send nothing more, that it is closed only when no worker is left, and that
while the call collects, the reply of a worker that is gone is still in it; hence
`SendsNeverBlock` (the channel has a slot for each server asked) and
`ErrorOnlyWithoutReply`.  `BreakerInv` bounds a breaker's counters by the run
of equal reports; hence the action properties `TripsAreEarned` and
`RecoveriesAreEarned`, which cover concurrent reports and thresholds changed by
posted settings in between.

`ServersProofs`, from `ServersAssumption` (finite sets of workers and connections;
stream servers are started in sequence, none twice), for any number of servers,
workers and connections, by `BaseOK /\ LifeInv /\ ConnInv /\ CountInv`.  `LifeInv`
ties the stage of main to which servers are untouched and which listen, and says that
the body of Shutdown runs only once the root context is cancelled and closes the
queue only after the reader is gone; hence `QueueClosesAfterReader` and
`ReadyServersListen`.  `ConnInv` says that a connection is in one place only, without
which a slot could be counted twice, and `CountInv` that the semaphore and the wait
group are the numbers of connections that hold a slot and are waited for, which is
part of `TypeCorrect`.

`HandlerProofs`, from `HandlerAssumption` and `LimitersAssumption`, for any number
of callers, clients, questions, response codes and settings: `TypeCorrect`;
`ClientsStayWithinRate`, by `ExcessInv`: what a client was admitted beyond what it
earned, the tokens left and what idle time may still earn fit the greatest burst.
The excess alone is not inductive, since a bucket that is swept starts full again.
What a tick earns (`Earned`) is therefore the greater of the rate and of a burst per
`GCAge`: by the time a bucket is swept its client has earned a burst, and then the
excess is zero.  No relation of posted bursts to posted rates is assumed.  `NobodyGoesUnheard`, by `SilenceInv`: the silence of a client is at most
what its window has counted modulo slip, so a window that begins anew, and forgets
the count, does so with a response that passes and ends the silence.
`ResponsesStayLimited`, by `DebtInv`: let every response that passed owe slip - 1
that are withheld.  What the responses of the last n ticks owe, for every n up to a
second, is at most what the open window accounts for (a response up to the limit
each, less those withheld since the last that slipped), and one limit more if n
reaches back before the window.  The bound must be kept for every n, since a tick
later it is the last n - 1 ticks that count; and a window may be swept only because
it is over by then.  The assumptions on settings are that they are
numbers and flags, that the initial ones are positive, and that among those that may
be posted there is a greatest rate, a greatest burst and a greatest limit (they are
machine integers).  The results on RRL are for a slip that is not changed.

`DecoderProofs`, from `PacketsAssumption` (packets are sequences of numbers):
`DecodeIsSafe`, for packets of any length and content and any limits.  The
invariant says that the fields left to be taken are `Guarded`: a field that is read
without looking (numbers, a counted string's length, the rest) is preceded by one
that has looked far enough, and a name, after which the position may lie anywhere,
never comes directly before such a field.  `Reached` says what is then known of the
position.  That the layout of every type is guarded is a lemma of its own, and it
is where a type added carelessly would fail.
`TheQuestionIsEchoed`, for any message that is composed or was decoded, its names
ASCII or not, whose first question has no blanks at the ends of its name, also needs
`MessagesAssumption` (composed messages are well typed, and their data fits its type)
and that an offset a pointer can name has 14 bits (`WireAssumption`).  `OpenInv` says that the packet begins with
the counts, the labels of the first question and a zero from the moment that
question is written: its name cannot be compressed, since the table is empty then,
and the length SetLength patches comes later.  `EchoInv` follows the receiver along
those cells: the labels read so far are the first of the question's, and the
position is where they end.  That the labels joined again are the name, with its last
dot (`NameIsKept`), is where the blanks come in.  Both need to know what a fold over a list of labels
and a count of dots compute for any text; that is proved by induction over the
natural numbers (`Induction`, stated for a set, which the provers can instantiate).
`WhatIsSentArrives`, for messages whose names are ASCII and from the same assumptions,
says that `RoundTripKeeps` holds: what the encoder accepts is decoded, and to the same
message up to the case of names and blanks at their ends.
Its invariant `KeepInv` has three parts beyond those of the echo.  `LayInv` lays out
the packet while it is written: a set of entries says which labels are to be read at
which offset, each suffix in the table leads to one of them, a pointer leads to one
before the name it ends, and the cell SetLength patches lies under none; the parts of
the message and the fields of the data lie one after the other at known positions.
That a suffix found in lower case has labels like those looked for needs that a text
of labels without dots can be cut in one way only (`DottedInjective`), and that lower
case keeps lengths, which it does for ASCII only (below).  `ShapeInv`
says that data which was understood has the fields of its type, whether it came in or
is being read.  `Progress` follows the receiver: the labels read and those the layout
has at the position are together those of the name, the pointers followed so far led
further and further back and were no more than the labels allow, and the fields read
are the same as those sent; so no limit, loop or length check that the message passed
can stop it now.  Data that was not understood is compared cell by cell.

`ApiProofs`, from `ApiAssumption` and `BulkAssumption` (workers are the publishers,
limits are positive numbers), for any number of streams, items and events:
`ChannelsAreSafe`, by `HubInv`: what a publisher still has to offer goes to present
subscribers, and only holders of the lock have anything to offer; a channel is
closed only when its handler is past the select.  `AnswersAreWhole`, by
`RequestInv`: the wait group counts exactly the workers that were started and have
not ended, a worker that has ended has written its result, and once the handler
waits every item has a worker.

Only model-checked: liveness (`CallsReturn`, `WorkersExit`, `ShutdownEnds`,
`ConnectionsAreTaken`, `DecodingEnds`, `StreamsEnd`, `RequestsAreAnswered`), which
TLAPS does not reach under fairness; and `FindsTheTruth`, which is about one tree.

## Known from reading, without a run

* A background refresh calls Resolve, which answers from the entry that is to be
  refreshed (resolver.go:155; SPEC.md:186 says "refresh in background goroutine");
  `Resolver` has it.
* The watcher woken by `cancel()` may win the flag of Shutdown; main's own call then
  returns at once and the process exits while queries are being handled
  (SPEC.md:198 says "wait up to 30s for in-flight goroutines"); `Servers` has it.
* A connection accepted before its listener was closed joins the wait group after
  Shutdown has begun to wait (tcp.go:62), and is not waited for.
* When the HTTP server fails, the servers stop and main goes on waiting for a signal.
* A half-open circuit lets every request through, not one (SPEC.md:435).
* A reply with an error code counts as a success of the server (SPEC.md:440).
* Servers that lose a race are cancelled, and that counts as their failure.
* Retries go on although the circuit has opened meanwhile (SPEC.md:446).
* A breaker created by a call in flight has the thresholds of the call's start.
* A stale hit starts a refresh only from the third lookup on (SPEC.md:187 has no
  such condition), and lowered limits of staleness do not reach stored entries.
* Load drops entries past their stale window, though their last good answer could
  still be served after an error; the order of recency is not saved.
* NODATA for a minimised name that has only names below it is taken for the
  answer about the full name (SPEC.md:397 speaks of NXDOMAIN only).
* RRL counts in windows that begin with a response, not in a sliding window
  (SPEC.md:402): `ResponsesAreLimited` states what follows from that.
* Nothing bounds the number of negative entries.
* A wildcard of the blocklist also matches names that end in its letters without
  a dot before them.
* HandlePacket changes the message that Resolve returned (its id, and its sections
  for a client without EDNS) while streams and traces may hold the same message.
* What the encoder accepts need not decode, or not to the same names, if names are not
  ASCII (encoder.go:91; SPEC.md:855 asks for "Round-trip encode→decode").  Lower case may
  be shorter: with a question of one label of 21 kelvin signs (U+212A, three octets, k in
  lower case), a record whose name is three labels of 63 octets and one of 21 k is
  compressed against the question and has 257 octets for the receiver, which refuses it.
  And strings.ToLower makes one and the same of all octets that are not valid UTF-8.
  `Wire` has both; `RoundTripKeeps` is stated for ASCII.
* The encoder trims blanks at the ends of a name, also where they are octets of a label:
  a record of the name " a." is sent on as one of "a." (encoder.go:108).  `Wire` has it;
  `RoundTripKeeps` and `QuestionIsEchoed` say nothing of such names.
* The question of a response is that of the message Resolve returned, from upstream or
  from the cache, in the case the resolver asked in, and not the client's, whose case
  may differ (handler.go:186, iterative.go:164); `QuestionIsEchoed` is about the
  message that is sent.
* A walk that cannot resolve the names of a delegation's servers is left without servers
  and returns the referral as the answer (recursive.go:206).  `RecursiveWalk` has it,
  and the runs with any reply meet it; in `Walk_tree` such lookups always succeed.
* NS, PTR, MX and SRV do not compare where their names end with the length of
  their data; decoding goes on at the length.
* A client that sends a ping and does not read leaves the reader waiting for the
  mutex which the handler holds in Write: both goroutines and the subscription stay
  until the client goes, even when the process is told to end (websocket.go:55, 159).
* wsTrace sets a read deadline of 24 hours beside the reader's 65 seconds
  (websocket.go:198): whichever is set last is in force.
* Events are published while `historyMu` is held; `RequestsAreAnswered` shows that
  this keeps nobody waiting for ever.
* If the burst is more than two minutes of the rate, which posted settings may make it,
  a client that stays away for two minutes finds a whole burst again and so gets more
  than its rate; `WithinRate` counts that as earned.
* RRL is by client, question and response code (handler.go:219): a client with several
  questions may have more responses withheld in a row than slip, and more passed than
  the limit.
* The prefetch callback returns at once for a key it cannot take apart, that of a name
  which contains "|" (resolver.go:144); the refresh then ends as it began, as one that
  is served from the cache does in `Resolver`.

## Not modelled

Logging, metrics and tracing decide nothing.  The HTTP handlers
other than bulk and compare translate requests into operations modelled here.
Ports and the case of names are random choices without state.  Configuration is read once, and its values are constants here.
The web interface is outside the process.

## Plan

In order of what the behaviour of the system depends on; the first seven are done.

1. `CircuitBreaker`, `UpstreamQuery`: the race for an answer.
2. `Cache`, `CacheProofs`.
3. `RecursiveWalk`, `RecursiveWalkProofs`.
4. `Resolver`, which composes 2 with the requests; `ResolverProofs`.
5. `Servers`, `Limiters`, `Handler`.
6. `EventHub`, `WebSocket`, `Bulk`, and `Api`, which composes them; `ApiProofs`.
7. `Wire`, `Decoder`, `Encoder`, and `RoundTrip`, which composes them;
   `DecoderProofs`.
8. Messages shared between the handler, the traces and the streams; wildcards of the
   blocklist.
9. Refinement: `Cache` implements an abstract store that returns only what was stored
   and is not older than its limit.
10. Proofs of 1 and 5: `UpstreamQueryProofs`, `ServersProofs`, `HandlerProofs`, and the
   age of answers in `ResolverProofs` (done); the sums of `MemoryIsExact` and
   `ResponsesAreLimited`, `QuestionIsEchoed` and `RoundTripKeeps` (done).

## Running

    tlc -workers 2 -config Cache_store.cfg MCCache
    tlapm CacheProofs.tla

Each `.cfg` belongs to the `MC` module of the same component.
