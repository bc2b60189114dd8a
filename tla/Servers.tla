------------------------------- MODULE Servers -------------------------------
(***************************************************************************)
(* The servers DNS queries come in by (internal/server/udp.go, tcp.go and  *)
(* dot.go) and their life from start to shutdown (cmd/server/main.go).     *)
(*                                                                         *)
(* The UDP server has one goroutine that reads datagrams and a fixed pool  *)
(* of workers behind a bounded queue.  A stream server (TCP, and DoT which *)
(* differs only in its listener) has one goroutine that accepts            *)
(* connections and one per connection it serves, of which there are at     *)
(* most MaxConn.  Every server also has a watcher that shuts it down when  *)
(* the root context is cancelled; main shuts the servers down as well, one *)
(* after the other, and whoever comes first does the work.                 *)
(*                                                                         *)
(* What HandlePacket does with a query is left to the module Handler; here *)
(* it takes a while and ends in a reply or in none.  A datagram is         *)
(* anonymous: the queue is its length.                                     *)
(***************************************************************************)
EXTENDS Integers, Sequences, FiniteSets, SequencesExt

CONSTANTS
    Workers,     \* goroutines of the UDP pool
    Streams,     \* the stream servers, in the order main starts them
    Conns,       \* connections of clients
    MaxConn,     \* connections a stream server serves at a time
    None         \* nobody, nothing

Order == <<"udp">> \o Streams
Servers == Range(Order)
QueueSize == 2 * Cardinality(Workers)

ASSUME ServersAssumption ==
    /\ IsFiniteSet(Workers) /\ Workers # {}
    /\ IsFiniteSet(Conns)
    /\ Streams \in Seq(Range(Streams))
    /\ MaxConn \in Nat \ {0}
    /\ IsInjective(Order)
    /\ None \notin Conns /\ None \notin Servers

VARIABLES
    main,       \* where main is
    turn,       \* the position in Order of the server main starts or stops
    ready,      \* dnsReady
    cancelled,  \* rootCtx is done
    expired,    \* shutdownCtx is done
    http,       \* the HTTP server listens
    running,    \* per server: the atomic flag
    open,       \* per server: its socket or listener
    watcher,    \* per server: the goroutine waiting for rootCtx
    stopper,    \* per server: "main" or "watcher", whoever runs the body of Shutdown
    stopping,   \* per server: where the body of Shutdown is
    reader,     \* where readLoop is
    queue,      \* datagrams in the queue
    closed,     \* the queue is closed
    worker,     \* per worker: where it is
    backlog,    \* per stream: connections the kernel holds for Accept
    acceptor,   \* per stream: where acceptLoop is
    accepted,   \* per stream: the connection acceptLoop holds
    sem,        \* per stream: tokens in the semaphore
    wg,         \* per stream: counter of the wait group
    conn,       \* per connection: what becomes of it
    at          \* per connection: the stream it was made to

mainVars == <<main, turn, ready, cancelled, expired, http>>
shutVars == <<watcher, stopper, stopping>>
udpVars == <<reader, queue, closed, worker>>
streamVars == <<backlog, acceptor, accepted, sem, wg, conn, at>>
vars == <<mainVars, running, open, shutVars, udpVars, streamVars>>

StreamSet == Range(Streams)
MainSteps == {"start", "ready", "run", "cancel", "http", "stop", "wait", "persist", "exit"}
StopSteps == {"no", "close", "readers", "drain", "ended"}
ConnSteps == {"none", "pending", "accepted", "reading", "handling", "closing", "released", "refusing"}

(* Connections whose goroutine holds a token of the semaphore, and those   *)
(* whose goroutine is counted by the wait group.                           *)
Holding(s) == {c \in Conns : at[c] = s /\ conn[c] \in {"reading", "handling", "closing"}}
Counted(s) == Holding(s) \cup {c \in Conns : at[c] = s /\ conn[c] = "released"}

TypeOK ==
    /\ main \in MainSteps
    /\ turn \in 1 .. Len(Order)
    /\ {ready, cancelled, expired, http, closed} \subseteq BOOLEAN
    /\ running \in [Servers -> BOOLEAN]
    /\ open \in [Servers -> BOOLEAN]
    /\ watcher \in [Servers -> BOOLEAN]
    /\ stopper \in [Servers -> {"main", "watcher", None}]
    /\ stopping \in [Servers -> StopSteps]
    /\ reader \in {"none", "read", "offer", "exit"}
    /\ queue \in 0 .. QueueSize
    /\ worker \in [Workers -> {"none", "idle", "handling", "exit"}]
    /\ backlog \in [StreamSet -> Seq(Conns)]
    /\ acceptor \in [StreamSet -> {"none", "accept", "admit", "exit"}]
    /\ accepted \in [StreamSet -> Conns \cup {None}]
    /\ conn \in [Conns -> ConnSteps]
    /\ at \in [Conns -> StreamSet]
    /\ sem = [s \in StreamSet |-> Cardinality(Holding(s))]
    /\ wg = [s \in StreamSet |-> Cardinality(Counted(s))]

Init ==
    /\ main = "start" /\ turn = 1
    /\ ready = FALSE /\ cancelled = FALSE /\ expired = FALSE /\ http = TRUE
    /\ running = [s \in Servers |-> FALSE]
    /\ open = [s \in Servers |-> FALSE]
    /\ watcher = [s \in Servers |-> FALSE]
    /\ stopper = [s \in Servers |-> None]
    /\ stopping = [s \in Servers |-> "no"]
    /\ reader = "none" /\ queue = 0 /\ closed = FALSE
    /\ worker = [w \in Workers |-> "none"]
    /\ backlog = [s \in StreamSet |-> << >>]
    /\ acceptor = [s \in StreamSet |-> "none"]
    /\ accepted = [s \in StreamSet |-> None]
    /\ sem = [s \in StreamSet |-> 0]
    /\ wg = [s \in StreamSet |-> 0]
    /\ conn = [c \in Conns |-> "none"]
    /\ at \in [Conns -> StreamSet]
-----------------------------------------------------------------------------
(* The UDP server.                                                         *)

StartUDP ==
    /\ reader' = "read"
    /\ worker' = [w \in Workers |-> "idle"]
    /\ UNCHANGED <<queue, closed, streamVars>>

(* ReadFromUDP returns a datagram.                                         *)
ReadDatagram ==
    /\ reader = "read" /\ open["udp"]
    /\ reader' = "offer"
    /\ UNCHANGED <<mainVars, running, open, shutVars, queue, closed, worker, streamVars>>

(* ReadFromUDP fails on the closed socket.                                 *)
ReadFails ==
    /\ reader = "read" /\ ~open["udp"] /\ ~running["udp"]
    /\ reader' = "exit"
    /\ UNCHANGED <<mainVars, running, open, shutVars, queue, closed, worker, streamVars>>

(* The three ways out of readLoop's select.                                *)
Enqueue ==
    /\ reader = "offer" /\ queue < QueueSize
    /\ queue' = queue + 1
    /\ reader' = "read"
    /\ UNCHANGED <<mainVars, running, open, shutVars, closed, worker, streamVars>>

GiveUpReading ==
    /\ reader = "offer" /\ cancelled
    /\ reader' = "exit"
    /\ UNCHANGED <<mainVars, running, open, shutVars, queue, closed, worker, streamVars>>

DropDatagram ==
    /\ reader = "offer" /\ queue = QueueSize /\ ~cancelled
    /\ reader' = "read"
    /\ UNCHANGED <<mainVars, running, open, shutVars, queue, closed, worker, streamVars>>

TakeDatagram(w) ==
    /\ worker[w] = "idle" /\ queue > 0
    /\ queue' = queue - 1
    /\ worker' = [worker EXCEPT ![w] = "handling"]
    /\ UNCHANGED <<mainVars, running, open, shutVars, reader, closed, streamVars>>

(* The worker's select sees the cancelled context, or the closed and empty *)
(* queue.                                                                  *)
WorkerExits(w) ==
    /\ worker[w] = "idle"
    /\ cancelled \/ (closed /\ queue = 0)
    /\ worker' = [worker EXCEPT ![w] = "exit"]
    /\ UNCHANGED <<mainVars, running, open, shutVars, reader, queue, closed, streamVars>>

(* HandlePacket returns: with a reply, which is written and the error not  *)
(* looked at, or with an error or a drop.  The worker goes on.             *)
WorkerHandled(w) ==
    /\ worker[w] = "handling"
    /\ worker' = [worker EXCEPT ![w] = "idle"]
    /\ UNCHANGED <<mainVars, running, open, shutVars, reader, queue, closed, streamVars>>
-----------------------------------------------------------------------------
(* Stream servers.                                                         *)

StartStream(s) ==
    /\ acceptor' = [acceptor EXCEPT ![s] = "accept"]
    /\ UNCHANGED <<udpVars, backlog, accepted, sem, wg, conn, at>>

(* A client connects: the kernel completes the handshake while the         *)
(* listener is open.                                                       *)
Connect(c, s) ==
    /\ conn[c] = "none" /\ open[s]
    /\ conn' = [conn EXCEPT ![c] = "pending"]
    /\ at' = [at EXCEPT ![c] = s]
    /\ backlog' = [backlog EXCEPT ![s] = Append(@, c)]
    /\ UNCHANGED <<mainVars, running, open, shutVars, udpVars, acceptor, accepted, sem, wg>>

Accept(s) ==
    /\ acceptor[s] = "accept" /\ open[s] /\ backlog[s] # << >>
    /\ acceptor' = [acceptor EXCEPT ![s] = "admit"]
    /\ accepted' = [accepted EXCEPT ![s] = Head(backlog[s])]
    /\ backlog' = [backlog EXCEPT ![s] = Tail(@)]
    /\ conn' = [conn EXCEPT ![Head(backlog[s])] = "accepted"]
    /\ UNCHANGED <<mainVars, running, open, shutVars, udpVars, sem, wg, at>>

AcceptFails(s) ==
    /\ acceptor[s] = "accept" /\ ~open[s] /\ ~running[s]
    /\ acceptor' = [acceptor EXCEPT ![s] = "exit"]
    /\ UNCHANGED <<mainVars, running, open, shutVars, udpVars, backlog, accepted, sem, wg, conn, at>>

(* The accepted connection goes to a goroutine of its own.                 *)
HandOver(s, step) ==
    /\ acceptor[s] = "admit"
    /\ acceptor' = [acceptor EXCEPT ![s] = "accept"]
    /\ accepted' = [accepted EXCEPT ![s] = None]
    /\ conn' = [conn EXCEPT ![accepted[s]] = step]
    /\ UNCHANGED <<mainVars, running, open, shutVars, udpVars, backlog, at>>

Admit(s) ==
    /\ sem[s] < MaxConn
    /\ HandOver(s, "reading")
    /\ sem' = [sem EXCEPT ![s] = @ + 1]
    /\ wg' = [wg EXCEPT ![s] = @ + 1]

(* acceptLoop waits for a slot instead.                                    *)
Refuse_Waits(s) ==
    /\ sem[s] > MaxConn
    /\ HandOver(s, "refusing")
    /\ UNCHANGED <<sem, wg>>

(* At the limit a goroutine outside the wait group answers REFUSED.        *)
Refuse(s) ==
    /\ sem[s] = MaxConn
    /\ HandOver(s, "refusing")
    /\ UNCHANGED <<sem, wg>>

Proceed(c, from, to) ==
    /\ conn[c] = from
    /\ conn' = [conn EXCEPT ![c] = to]
    /\ UNCHANGED <<mainVars, running, open, shutVars, udpVars, backlog, acceptor, accepted, at>>

(* The refused client has its answer, or the two seconds are over.         *)
RefuseEnds(c) == Proceed(c, "refusing", "none") /\ UNCHANGED <<sem, wg>>

(* A whole query was read in time.                                         *)
ReadQuery(c) == Proceed(c, "reading", "handling") /\ UNCHANGED <<sem, wg>>

(* The client closed the connection, or the idle time is over.             *)
ReadEnds(c) == Proceed(c, "reading", "closing") /\ UNCHANGED <<sem, wg>>

(* HandlePacket returns: the reply is written and the next query awaited;  *)
(* without a reply, or if it cannot be written, the connection ends.       *)
ConnHandled(c) ==
    /\ \E next \in {"reading", "closing"} : Proceed(c, "handling", next)
    /\ UNCHANGED <<sem, wg>>

(* The wait group left without freeing the slot.                           *)
ReleaseSlot_Forgets(c) ==
    /\ Proceed(c, "closing", "released")
    /\ UNCHANGED <<sem, wg>>

(* The deferred calls of serveConn: the connection is closed and the slot  *)
(* freed, then the wait group left.                                        *)
ReleaseSlot(c) ==
    /\ Proceed(c, "closing", "released")
    /\ sem' = [sem EXCEPT ![at[c]] = @ - 1]
    /\ UNCHANGED wg

LeaveGroup(c) ==
    /\ Proceed(c, "released", "none")
    /\ wg' = [wg EXCEPT ![at[c]] = @ - 1]
    /\ UNCHANGED sem
-----------------------------------------------------------------------------
(* Shutdown: only the caller that finds the flag set does anything.        *)

Swap(s, who) ==
    /\ running' = [running EXCEPT ![s] = FALSE]
    /\ IF running[s]
       THEN stopper' = [stopper EXCEPT ![s] = who] /\ stopping' = [stopping EXCEPT ![s] = "close"]
       ELSE UNCHANGED <<stopper, stopping>>

(* The goroutine of Start that waits for the root context.                 *)
WatcherStops(s) ==
    /\ watcher[s] /\ cancelled
    /\ watcher' = [watcher EXCEPT ![s] = FALSE]
    /\ Swap(s, "watcher")
    /\ UNCHANGED <<mainVars, open, udpVars, streamVars>>

(* The socket is closed; connections nobody accepted are reset.            *)
CloseSocket(s) ==
    /\ stopping[s] = "close"
    /\ open' = [open EXCEPT ![s] = FALSE]
    /\ stopping' = [stopping EXCEPT ![s] = IF s = "udp" THEN "readers" ELSE "drain"]
    /\ IF s = "udp"
       THEN UNCHANGED streamVars
       ELSE /\ backlog' = [backlog EXCEPT ![s] = << >>]
            /\ conn' = [c \in Conns |-> IF c \in Range(backlog[s]) THEN "none" ELSE conn[c]]
            /\ UNCHANGED <<acceptor, accepted, sem, wg, at>>
    /\ UNCHANGED <<mainVars, running, watcher, stopper, udpVars>>

(* The queue is closed while readLoop may be sending to it.                *)
CloseQueue_NoWait ==
    /\ stopping["udp"] = "readers"
    /\ closed' = TRUE
    /\ stopping' = [stopping EXCEPT !["udp"] = "drain"]
    /\ UNCHANGED <<mainVars, running, open, watcher, stopper, reader, queue, worker, streamVars>>

(* readWG.Wait, then the queue is closed.                                  *)
CloseQueue ==
    /\ stopping["udp"] = "readers" /\ reader = "exit"
    /\ closed' = TRUE
    /\ stopping' = [stopping EXCEPT !["udp"] = "drain"]
    /\ UNCHANGED <<mainVars, running, open, watcher, stopper, reader, queue, worker, streamVars>>

Idle(s) == IF s = "udp" THEN \A w \in Workers : worker[w] = "exit" ELSE wg[s] = 0

(* The wait for the goroutines is not bounded by the context.              *)
StopReturns_NoDeadline(s) ==
    /\ stopping[s] = "drain"
    /\ Idle(s)
    /\ stopping' = [stopping EXCEPT ![s] = "ended"]
    /\ UNCHANGED <<mainVars, running, open, watcher, stopper, udpVars, streamVars>>

(* The select at the end of Shutdown; only main's context has a deadline.  *)
StopReturns(s) ==
    /\ stopping[s] = "drain"
    /\ Idle(s) \/ (stopper[s] = "main" /\ expired)
    /\ stopping' = [stopping EXCEPT ![s] = "ended"]
    /\ UNCHANGED <<mainVars, running, open, watcher, stopper, udpVars, streamVars>>
-----------------------------------------------------------------------------
(* main.                                                                   *)

(* The process ends, with all its goroutines and sockets.                  *)
Exit ==
    /\ main' = "exit"
    /\ http' = FALSE
    /\ running' = [s \in Servers |-> FALSE]
    /\ open' = [s \in Servers |-> FALSE]
    /\ watcher' = [s \in Servers |-> FALSE]
    /\ stopping' = [s \in Servers |-> "ended"]
    /\ reader' = "exit"
    /\ worker' = [w \in Workers |-> "exit"]
    /\ acceptor' = [s \in StreamSet |-> "exit"]
    /\ accepted' = [s \in StreamSet |-> None]
    /\ backlog' = [s \in StreamSet |-> << >>]
    /\ conn' = [c \in Conns |-> "none"]
    /\ sem' = [s \in StreamSet |-> 0]
    /\ wg' = [s \in StreamSet |-> 0]
    /\ UNCHANGED <<turn, ready, cancelled, expired, stopper, queue, closed, at>>

(* The servers are started one after the other.                            *)
StartServer ==
    /\ main = "start"
    /\ LET s == Order[turn] IN
       /\ running' = [running EXCEPT ![s] = TRUE]
       /\ open' = [open EXCEPT ![s] = TRUE]
       /\ watcher' = [watcher EXCEPT ![s] = TRUE]
       /\ IF s = "udp" THEN StartUDP ELSE StartStream(s)
    /\ IF turn < Len(Order)
       THEN turn' = turn + 1 /\ main' = main
       ELSE turn' = 1 /\ main' = "ready"
    /\ UNCHANGED <<ready, cancelled, expired, http, stopper, stopping>>

(* The address is taken, or the certificate cannot be read: os.Exit.       *)
StartFails == main = "start" /\ Exit

Advance(from, to) ==
    /\ main = from
    /\ main' = to
    /\ UNCHANGED <<running, open, shutVars, udpVars, streamVars>>

BecomeReady ==
    /\ Advance("ready", "run")
    /\ ready' = TRUE
    /\ UNCHANGED <<turn, cancelled, expired, http>>

(* Readiness is taken back only when everything is over.                   *)
Signal_StaysReady ==
    /\ Advance("run", "cancel")
    /\ UNCHANGED <<turn, ready, cancelled, expired, http>>

(* SIGINT or SIGTERM.                                                      *)
Signal ==
    /\ Advance("run", "cancel")
    /\ ready' = FALSE
    /\ UNCHANGED <<turn, cancelled, expired, http>>

CancelRoot ==
    /\ Advance("cancel", "http")
    /\ cancelled' = TRUE
    /\ UNCHANGED <<turn, ready, expired, http>>

(* ListenAndServe fails: the root context is cancelled, main is not told.  *)
HTTPFails ==
    /\ http
    /\ http' = FALSE
    /\ cancelled' = TRUE
    /\ UNCHANGED <<main, turn, ready, expired, running, open, shutVars, udpVars, streamVars>>

(* httpSrv.Shutdown returns, in time or not.                               *)
StopHTTP ==
    /\ Advance("http", "stop")
    /\ http' = FALSE
    /\ UNCHANGED <<turn, ready, cancelled, expired>>

(* ShutdownDrainTimeout is over.                                           *)
DrainTimeout ==
    /\ main \in {"http", "stop", "wait"}
    /\ ~expired
    /\ expired' = TRUE
    /\ UNCHANGED <<main, turn, ready, cancelled, http, running, open, shutVars, udpVars, streamVars>>

(* main calls Shutdown of the next server ...                              *)
StopServer ==
    /\ main = "stop"
    /\ main' = "wait"
    /\ Swap(Order[turn], "main")
    /\ UNCHANGED <<turn, ready, cancelled, expired, http, open, watcher, udpVars, streamVars>>

(* ... which returns at once if the watcher was first.                     *)
ServerStopped ==
    /\ main = "wait"
    /\ stopper[Order[turn]] # "main" \/ stopping[Order[turn]] = "ended"
    /\ IF turn < Len(Order)
       THEN turn' = turn + 1 /\ main' = "stop"
       ELSE turn' = turn /\ main' = "persist"
    /\ UNCHANGED <<ready, cancelled, expired, http, running, open, shutVars, udpVars, streamVars>>

(* cacheStore.Persist, and the end of the process.                         *)
PersistAndExit == main = "persist" /\ Exit
-----------------------------------------------------------------------------
UDPStep ==
    \/ ReadDatagram \/ ReadFails \/ Enqueue \/ GiveUpReading \/ DropDatagram
    \/ \E w \in Workers : TakeDatagram(w) \/ WorkerExits(w) \/ WorkerHandled(w)

StreamStep ==
    \/ \E s \in StreamSet : Accept(s) \/ AcceptFails(s) \/ Admit(s) \/ Refuse(s)
    \/ \E c \in Conns :
          \/ \E s \in StreamSet : Connect(c, s)
          \/ RefuseEnds(c) \/ ReadQuery(c) \/ ReadEnds(c) \/ ConnHandled(c)
          \/ ReleaseSlot(c) \/ LeaveGroup(c)

StopStep ==
    \/ \E s \in Servers : WatcherStops(s) \/ CloseSocket(s) \/ StopReturns(s)
    \/ CloseQueue

MainStep ==
    \/ StartServer \/ StartFails \/ BecomeReady \/ Signal \/ CancelRoot \/ HTTPFails \/ StopHTTP
    \/ DrainTimeout \/ StopServer \/ ServerStopped \/ PersistAndExit

Next == UDPStep \/ StreamStep \/ StopStep \/ MainStep

Spec == Init /\ [][Next]_vars

(* The goroutines of main, of readLoop, of acceptLoop and of a Shutdown in *)
(* progress go on when they can, and the drain timeout fires.  Nothing is  *)
(* assumed of clients, of signals, of the watchers, of HandlePacket or of  *)
(* deadlines on connections.                                               *)
Fairness ==
    /\ WF_vars(CancelRoot \/ StopHTTP \/ StopServer \/ ServerStopped \/ PersistAndExit)
    /\ WF_vars(DrainTimeout)
    /\ WF_vars(ReadFails \/ Enqueue \/ GiveUpReading \/ DropDatagram)
    /\ WF_vars(CloseQueue)
    /\ \A s \in Servers : WF_vars(CloseSocket(s) \/ StopReturns(s))
    /\ \A s \in StreamSet : WF_vars(Accept(s) \/ AcceptFails(s) \/ Admit(s) \/ Refuse(s))

FairSpec == Spec /\ Fairness
-----------------------------------------------------------------------------
(* The queue is closed only when readLoop can no longer send to it: a send *)
(* on a closed channel would end the process.                              *)
NoSendOnClosedQueue == closed => reader = "exit"

(* Whoever asks the HTTP server is told "ready" only while every DNS       *)
(* server listens: readiness is taken back before the context is           *)
(* cancelled, which makes the watchers close the sockets.                  *)
ReadyMeansListening == http /\ ready => \A s \in Servers : open[s]

(* A shutdown signal ends the process whatever clients and upstream        *)
(* servers do.                                                             *)
ShutdownEnds == main = "cancel" ~> main = "exit"

(* acceptLoop never gets stuck: every connection is soon served, refused   *)
(* or reset, also when all slots are taken by clients that keep asking.    *)
ConnectionsAreTaken ==
    \A c \in Conns : conn[c] \in {"pending", "accepted"} ~> conn[c] \notin {"pending", "accepted"}
=============================================================================
