------------------------------ MODULE WebSocket ------------------------------
(***************************************************************************)
(* The streams of internal/api/websocket.go.  A stream is served by two    *)
(* goroutines over one connection: the handler (wsTrace, wsQueries,        *)
(* wsMetrics), which writes events and pings, and drainWebSocketControl,   *)
(* which reads what the client sends and answers pings and closes.  They   *)
(* share the mutex of wsConn, which is held while a frame is written.      *)
(*                                                                         *)
(* A write ends only when the client takes the frame or the connection is  *)
(* over: writes have no deadline.  "stalled" stands for a client whose     *)
(* receive buffer is full; what still fits into it is part of "lively".    *)
(***************************************************************************)
EXTENDS EventHub

VARIABLES
    main,    \* the handler of each stream
    drain,   \* its drainWebSocketControl
    mu,      \* who holds the mutex of the connection: "main", "drain" or "nobody"
    client,  \* "lively", "silent" (neither reads nor sends), "stalled" (sends, does not read) or "gone"
    shut,    \* connections closed by this side
    done     \* ctx is cancelled: the process is shutting down

streamVars == <<main, drain, mu, client, shut, done>>
wsVars == <<hubVars, streamVars>>

WebSocketInit ==
    /\ HubInit
    /\ main = [s \in Streams |-> "idle"]
    /\ drain = [s \in Streams |-> "none"]
    /\ mu = [s \in Streams |-> "nobody"]
    /\ client = [s \in Streams |-> "lively"]
    /\ shut = {}
    /\ done = FALSE

Broken(s) == s \in shut \/ client[s] = "gone"

(* RWMutex.Lock was called.                                                *)
WritersWait == \E s \in Streams : main[s] \in {"subscribing", "leaving"}

MainTo(s, where) == main' = [main EXCEPT ![s] = where]
DrainTo(s, where) == drain' = [drain EXCEPT ![s] = where]
-----------------------------------------------------------------------------
(* acceptWebSocket refuses the request, or the connection is taken over    *)
(* and its reader started.  wsTrace and wsQueries subscribe to a hub,      *)
(* wsMetrics has only a ticker.                                            *)
Refuse(s) ==
    /\ main[s] = "idle"
    /\ MainTo(s, "ended")
    /\ UNCHANGED <<hubVars, drain, mu, client, shut, done>>

AcceptWebSocket(s, then) ==
    /\ main[s] = "idle"
    /\ MainTo(s, then)
    /\ DrainTo(s, "reading")
    /\ UNCHANGED <<hubVars, mu, client, shut, done>>

SubscribeStream(s) ==
    /\ main[s] = "subscribing"
    /\ Subscribe(s)
    /\ MainTo(s, "select")
    /\ UNCHANGED <<drain, mu, client, shut, done>>

(* The select: an event, the ping, or the end of the process.              *)
TakeEvent(s) ==
    /\ main[s] = "select" /\ s \in subs
    /\ Receive(s)
    /\ MainTo(s, "locking")
    /\ UNCHANGED <<drain, mu, client, shut, done>>

Tick(s) ==
    /\ main[s] = "select"
    /\ MainTo(s, "locking")
    /\ UNCHANGED <<hubVars, drain, mu, client, shut, done>>

(* Where the handler returns to: its deferred Unsubscribe, if it has       *)
(* subscribed, and then Close.                                             *)
Returning(s) == IF s \in subs THEN "leaving" ELSE "closing"

SeeDone(s) ==
    /\ main[s] = "select" /\ done
    /\ MainTo(s, Returning(s))
    /\ UNCHANGED <<hubVars, drain, mu, client, shut, done>>

(* writeFrame.                                                             *)
MainLocks(s) ==
    /\ main[s] = "locking" /\ mu[s] = "nobody"
    /\ mu' = [mu EXCEPT ![s] = "main"]
    /\ MainTo(s, "writing")
    /\ UNCHANGED <<hubVars, drain, client, shut, done>>

AfterWrite(s) == IF Broken(s) THEN Returning(s) ELSE "select"

MainWrites(s) ==
    /\ main[s] = "writing" /\ (Broken(s) \/ client[s] = "lively")
    /\ mu' = [mu EXCEPT ![s] = "nobody"]
    /\ MainTo(s, AfterWrite(s))
    /\ UNCHANGED <<hubVars, drain, client, shut, done>>

Leave(s) ==
    /\ main[s] = "leaving"
    /\ Unsubscribe(s)
    /\ MainTo(s, "closing")
    /\ UNCHANGED <<drain, mu, client, shut, done>>

CloseConn(s) ==
    /\ main[s] = "closing"
    /\ shut' = shut \cup {s}
    /\ MainTo(s, "ended")
    /\ UNCHANGED <<hubVars, drain, mu, client, done>>
-----------------------------------------------------------------------------
(* The reader returns and leaves the connection to the handler.            *)
DrainReturns_LeavesOpen(s) == DrainTo(s, "ended") /\ UNCHANGED shut

(* drainWebSocketControl: whenever it returns it closes the connection.    *)
DrainReturns(s) == DrainTo(s, "ended") /\ shut' = shut \cup {s}

(* A frame that is no control frame, or broken.                            *)
ReadOther(s) ==
    /\ drain[s] = "reading" /\ ~Broken(s) /\ client[s] # "silent"
    /\ DrainReturns(s)
    /\ UNCHANGED <<hubVars, main, mu, client, done>>

(* A ping or a close frame is answered.                                    *)
ReadControl(s, answer) ==
    /\ drain[s] = "reading" /\ ~Broken(s) /\ client[s] # "silent"
    /\ DrainTo(s, answer)
    /\ UNCHANGED <<hubVars, main, mu, client, shut, done>>

ReadFails(s) ==
    /\ drain[s] = "reading" /\ Broken(s)
    /\ DrainReturns(s)
    /\ UNCHANGED <<hubVars, main, mu, client, done>>

(* Nothing came within the deadline.  Pongs, which change nothing else,    *)
(* start it again.                                                         *)
ReadTimeout(s) ==
    /\ drain[s] = "reading" /\ ~Broken(s)
    /\ DrainReturns(s)
    /\ UNCHANGED <<hubVars, main, mu, client, done>>

DrainLocks(s) ==
    /\ drain[s] \in {"pong", "close"} /\ mu[s] = "nobody"
    /\ mu' = [mu EXCEPT ![s] = "drain"]
    /\ DrainTo(s, IF drain[s] = "pong" THEN "writing pong" ELSE "writing close")
    /\ UNCHANGED <<hubVars, main, client, shut, done>>

(* After a pong it goes on reading, unless the write failed or the process *)
(* ends.                                                                   *)
DrainWrites(s) ==
    /\ drain[s] \in {"writing pong", "writing close"} /\ (Broken(s) \/ client[s] = "lively")
    /\ mu' = [mu EXCEPT ![s] = "nobody"]
    /\ IF drain[s] = "writing pong" /\ ~Broken(s) /\ ~done
       THEN DrainTo(s, "reading") /\ UNCHANGED shut
       ELSE DrainReturns(s)
    /\ UNCHANGED <<hubVars, main, client, done>>
-----------------------------------------------------------------------------
(* The client turns, and in the end goes.                                  *)
ClientTurns(s, into) ==
    /\ client[s] \notin {"gone", into}
    /\ client' = [client EXCEPT ![s] = into]
    /\ UNCHANGED <<hubVars, main, drain, mu, shut, done>>

Shutdown ==
    /\ ~done /\ done' = TRUE
    /\ UNCHANGED <<hubVars, main, drain, mu, client, shut>>

StreamStep(s) ==
    \/ SubscribeStream(s) \/ TakeEvent(s) \/ Tick(s) \/ SeeDone(s)
    \/ MainLocks(s) \/ MainWrites(s) \/ Leave(s) \/ CloseConn(s)

DrainStep(s) ==
    \/ ReadOther(s) \/ ReadControl(s, "pong") \/ ReadControl(s, "close") \/ ReadFails(s)
    \/ ReadTimeout(s) \/ DrainLocks(s) \/ DrainWrites(s)

(* Both goroutines run; a frame is taken by a client that reads; the read  *)
(* deadline passes when a client is silent.  Nothing is assumed of what    *)
(* clients send, or that they go.                                          *)
StreamFairness(s) ==
    /\ WF_wsVars(StreamStep(s))
    /\ SF_wsVars(SeeDone(s))
    /\ SF_wsVars(MainLocks(s)) /\ SF_wsVars(DrainLocks(s))
    /\ WF_wsVars(ReadFails(s) \/ DrainWrites(s))
    /\ WF_wsVars(client[s] = "silent" /\ ReadTimeout(s))

WebSocketTypeOK ==
    /\ HubTypeOK
    /\ main \in [Streams -> {"idle", "subscribing", "select", "locking", "writing", "leaving", "closing", "ended"}]
    /\ drain \in [Streams -> {"none", "reading", "pong", "close", "writing pong", "writing close", "ended"}]
    /\ mu \in [Streams -> {"main", "drain", "nobody"}]
    /\ client \in [Streams -> {"lively", "silent", "stalled", "gone"}]
    /\ shut \subseteq Streams
    /\ done \in BOOLEAN

(* Nobody sends on a closed channel, which would end the process: the      *)
(* handler of a stream leaves the hub and closes its channel only when no  *)
(* publisher is about to offer it an event.                                *)
NoSendOnClosedChannel == \A p \in Publishers : offers[p] \cap closed = {}

Over(s) == main[s] = "ended" /\ drain[s] \in {"none", "ended"} /\ s \notin subs

(* Streams end: both goroutines return and the subscription is given back, *)
(* wherever they were,                                                     *)
(*   - when the client has gone;                                           *)
(*   - when the process shuts down and the client takes its frames;        *)
(*   - when the client neither reads nor sends any more: the reader's      *)
(*     deadline passes, and its Close ends a write the handler is stuck    *)
(*     in, which has none.                                                 *)
(* A client that sends a ping and does not read is no such case: the       *)
(* reader then waits for the mutex the handler holds.                      *)
StreamsEnd ==
    \A s \in Streams :
        /\ (client[s] = "gone" /\ main[s] # "idle") ~> Over(s)
        /\ (done /\ main[s] # "idle") ~> (Over(s) \/ client[s] # "lively")
        /\ (client[s] = "silent" /\ drain[s] = "reading") ~> (Over(s) \/ client[s] # "silent")
=============================================================================
