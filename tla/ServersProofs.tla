---------------------------- MODULE ServersProofs ----------------------------
(***************************************************************************)
(* Proofs about Servers, for any finite pool of workers, any sequence of   *)
(* stream servers and any finite set of connections.                       *)
(*                                                                         *)
(* The invariant has four parts.  BaseOK: the types.  LifeInv: what the    *)
(* stage of main and of a Shutdown says about flags, sockets and readLoop. *)
(* ConnInv: a connection waits in one backlog, or is held by one acceptor, *)
(* or is somebody else's.  CountInv: the semaphore and the wait group of a *)
(* stream server count its connections.                                    *)
(***************************************************************************)
EXTENDS Servers, FiniteSetTheorems, SequenceTheorems, TLAPS

(* TypeOK without the counts.                                              *)
BaseOK ==
    /\ main \in MainSteps
    /\ turn \in 1 .. Len(Order)
    /\ ready \in BOOLEAN /\ cancelled \in BOOLEAN /\ expired \in BOOLEAN
    /\ http \in BOOLEAN /\ closed \in BOOLEAN
    /\ running \in [Servers -> BOOLEAN]
    /\ open \in [Servers -> BOOLEAN]
    /\ watcher \in [Servers -> BOOLEAN]
    /\ stopper \in [Servers -> {"main", "watcher", None}]
    /\ stopping \in [Servers -> StopSteps]
    /\ reader \in {"none", "read", "offer", "exit"}
    /\ queue \in 0 .. QueueSize
    /\ worker \in [Workers -> {"none", "idle", "handling", "exit"}]
    /\ backlog \in [StreamSet -> Seq(Conns)]
    /\ acceptor \in [StreamSet -> {"none", "accept", "admit", "exit"}]
    /\ accepted \in [StreamSet -> Conns \cup {None}]
    /\ conn \in [Conns -> ConnSteps]
    /\ at \in [Conns -> StreamSet]

(* Servers main has not started are untouched; a socket is closed only by  *)
(* the body of Shutdown, which runs once, and only after the root context  *)
(* is cancelled.                                                           *)
LifeInv ==
    /\ main = "start" =>
          /\ \A i \in turn .. Len(Order) : stopping[Order[i]] = "no" /\ ~watcher[Order[i]]
          /\ \A i \in 1 .. turn - 1 : stopping[Order[i]] = "no" => open[Order[i]]
    /\ main \notin {"start", "exit"} => \A s \in Servers : stopping[s] = "no" => open[s]
    /\ \A s \in Servers : running[s] => stopping[s] = "no"
    /\ closed => reader = "exit" /\ stopping["udp"] \in {"drain", "ended"}
    /\ ready => main = "run"
    /\ main \in {"http", "stop", "wait", "persist"} => cancelled
    /\ http /\ main \in {"start", "ready", "run", "cancel"} => ~cancelled
    /\ ~cancelled /\ main # "exit" => \A s \in Servers : stopping[s] = "no"

(* A connection is in one place only.                                      *)
ConnInv ==
    /\ \A s \in StreamSet : \A i \in 1 .. Len(backlog[s]) :
          conn[backlog[s][i]] = "pending" /\ at[backlog[s][i]] = s
    /\ \A s \in StreamSet : \A i, j \in 1 .. Len(backlog[s]) : backlog[s][i] = backlog[s][j] => i = j
    /\ \A s \in StreamSet : acceptor[s] = "admit" =>
          accepted[s] \in Conns /\ conn[accepted[s]] = "accepted" /\ at[accepted[s]] = s

CountInv ==
    /\ sem = [s \in StreamSet |-> Cardinality(Holding(s))]
    /\ wg = [s \in StreamSet |-> Cardinality(Counted(s))]

(* UDP comes first, and no server is started twice.                        *)
LEMMA OrderFacts ==
  /\ Len(Order) \in Nat \ {0}
  /\ Order[1] = "udp"
  /\ \A i \in 1 .. Len(Order) : Order[i] \in Servers
  /\ \A i, j \in 1 .. Len(Order) : Order[i] = Order[j] => i = j
  /\ \A s \in Servers : \E i \in 1 .. Len(Order) : Order[i] = s
  /\ "udp" \in Servers
  /\ StreamSet = Servers \ {"udp"}
<1>1. Streams \in Seq(Range(Streams)) /\ IsInjective(Order)
  BY ServersAssumption
<1>2. /\ Len(Order) = Len(Streams) + 1 /\ Len(Streams) \in Nat /\ DOMAIN Order = 1 .. Len(Order)
      /\ DOMAIN Streams = 1 .. Len(Streams)
      /\ Order[1] = "udp"
      /\ \A i \in 1 .. Len(Streams) : Order[i + 1] = Streams[i]
  BY <1>1 DEF Order
<1>3. Len(Order) \in Nat \ {0} /\ 1 \in 1 .. Len(Order)
  BY <1>2
<1>4. \A i, j \in 1 .. Len(Order) : Order[i] = Order[j] => i = j
  BY <1>1, <1>2 DEF IsInjective
<1>5. Servers = {Order[i] : i \in 1 .. Len(Order)}
  BY <1>2 DEF Servers, Range
<1>6. StreamSet = {Streams[i] : i \in 1 .. Len(Streams)}
  BY <1>2 DEF StreamSet, Range
<1>7. StreamSet \subseteq Servers \ {"udp"}
  <2> SUFFICES ASSUME NEW i \in 1 .. Len(Streams) PROVE Streams[i] \in Servers /\ Streams[i] # "udp"
    BY <1>6
  <2>1. i + 1 \in 1 .. Len(Order) /\ Order[i + 1] = Streams[i] /\ i + 1 # 1
    BY <1>2
  <2> QED BY <1>2, <1>3, <1>4, <1>5, <2>1
<1>8. Servers \ {"udp"} \subseteq StreamSet
  <2> SUFFICES ASSUME NEW i \in 1 .. Len(Order), Order[i] # "udp" PROVE Order[i] \in StreamSet
    BY <1>5
  <2>1. i # 1 /\ i - 1 \in 1 .. Len(Streams) /\ Order[(i - 1) + 1] = Streams[i - 1] /\ (i - 1) + 1 = i
    BY <1>2
  <2> QED BY <1>6, <2>1
<1> QED BY <1>2, <1>3, <1>4, <1>5, <1>7, <1>8

LEMMA QueueSizeType == QueueSize \in Nat
BY ServersAssumption, FS_CardinalityType DEF QueueSize

LEMMA InitInv == Init => BaseOK /\ LifeInv /\ ConnInv /\ CountInv
<1> SUFFICES ASSUME Init PROVE BaseOK /\ LifeInv /\ ConnInv /\ CountInv
  OBVIOUS
<1>0. [s \in StreamSet |-> << >>] \in [StreamSet -> Seq(Conns)]
  OBVIOUS
<1>5. 1 \in 1 .. Len(Order) /\ 0 \in 0 .. QueueSize
  BY OrderFacts, QueueSizeType
<1>1. BaseOK
  BY <1>0, <1>5 DEF Init, BaseOK, MainSteps, StopSteps, ConnSteps
<1>2. LifeInv
  BY OrderFacts DEF Init, LifeInv
<1>3. ConnInv
  BY DEF Init, ConnInv
<1>4. CountInv
  <2>1. \A s \in StreamSet : Holding(s) = {} /\ Counted(s) = {}
    BY DEF Init, Holding, Counted
  <2> QED BY <2>1, FS_EmptySet DEF Init, CountInv
<1> QED BY <1>1, <1>2, <1>3, <1>4

-----------------------------------------------------------------------------
LEMMA UDPStepKeepsBase ==
  ASSUME BaseOK, UDPStep
  PROVE  BaseOK'
<1>1. UNCHANGED <<main, turn, ready, cancelled, expired, http, running, open, watcher, stopper, stopping, closed,
                  backlog, acceptor, accepted, sem, wg, conn, at>>
  BY DEF UDPStep, ReadDatagram, ReadFails, Enqueue, GiveUpReading, DropDatagram, TakeDatagram, WorkerExits,
         WorkerHandled, mainVars, shutVars, streamVars
<1>2. reader' \in {"none", "read", "offer", "exit"}
  BY DEF BaseOK, UDPStep, ReadDatagram, ReadFails, Enqueue, GiveUpReading, DropDatagram, TakeDatagram,
         WorkerExits, WorkerHandled
<1>3. queue' \in 0 .. QueueSize
  BY QueueSizeType
  DEF BaseOK, UDPStep, ReadDatagram, ReadFails, Enqueue, GiveUpReading, DropDatagram, TakeDatagram,
      WorkerExits, WorkerHandled
<1>4. worker' \in [Workers -> {"none", "idle", "handling", "exit"}]
  BY DEF BaseOK, UDPStep, ReadDatagram, ReadFails, Enqueue, GiveUpReading, DropDatagram, TakeDatagram,
         WorkerExits, WorkerHandled
<1> QED BY <1>1, <1>2, <1>3, <1>4 DEF BaseOK

LEMMA StreamStepKeepsBase ==
  ASSUME BaseOK, ConnInv, StreamStep
  PROVE  BaseOK'
<1>1. UNCHANGED <<main, turn, ready, cancelled, expired, http, running, open, watcher, stopper, stopping, closed,
                  reader, queue, worker>>
  BY DEF StreamStep, Accept, AcceptFails, Admit, Refuse, HandOver, Connect, RefuseEnds, ReadQuery, ReadEnds,
         ConnHandled, ReleaseSlot, LeaveGroup, Proceed, mainVars, shutVars, udpVars
<1> USE DEF ConnSteps
<1>2. acceptor' \in [StreamSet -> {"none", "accept", "admit", "exit"}] /\ at' \in [Conns -> StreamSet]
  <2>1. UNCHANGED acceptor
        \/ \E s, step : step \in {"accept", "admit", "exit"} /\ acceptor' = [acceptor EXCEPT ![s] = step]
    BY DEF StreamStep, Accept, AcceptFails, Admit, Refuse, HandOver, Connect, RefuseEnds, ReadQuery, ReadEnds,
           ConnHandled, ReleaseSlot, LeaveGroup, Proceed
  <2>2. UNCHANGED at \/ \E c \in Conns, s \in StreamSet : at' = [at EXCEPT ![c] = s]
    BY DEF StreamStep, Accept, AcceptFails, Admit, Refuse, HandOver, Connect, RefuseEnds, ReadQuery, ReadEnds,
           ConnHandled, ReleaseSlot, LeaveGroup, Proceed
  <2>3. acceptor' \in [StreamSet -> {"none", "accept", "admit", "exit"}]
    BY <2>1 DEF BaseOK
  <2>4. at' \in [Conns -> StreamSet]
    BY <2>2 DEF BaseOK
  <2> QED BY <2>3, <2>4
<1>4. conn' \in [Conns -> ConnSteps]
  <2>1. UNCHANGED conn \/ \E c, step : step \in ConnSteps /\ conn' = [conn EXCEPT ![c] = step]
    BY DEF StreamStep, Accept, AcceptFails, Admit, Refuse, HandOver, Connect, RefuseEnds, ReadQuery, ReadEnds,
           ConnHandled, ReleaseSlot, LeaveGroup, Proceed
  <2> QED BY <2>1 DEF BaseOK
<1>3. /\ backlog' \in [StreamSet -> Seq(Conns)]
      /\ accepted' \in [StreamSet -> Conns \cup {None}]
  <2>1. ASSUME NEW c \in Conns, NEW s \in StreamSet, Connect(c, s)
        PROVE  backlog' \in [StreamSet -> Seq(Conns)] /\ UNCHANGED accepted
    BY <2>1 DEF BaseOK, Connect
  <2>2. ASSUME NEW s \in StreamSet, Accept(s)
        PROVE  backlog' \in [StreamSet -> Seq(Conns)] /\ accepted' \in [StreamSet -> Conns \cup {None}]
    <3>1. backlog[s] \in Seq(Conns) /\ backlog[s] # << >>
      BY <2>2 DEF BaseOK, Accept
    <3>2. Head(backlog[s]) \in Conns /\ Tail(backlog[s]) \in Seq(Conns)
      BY <3>1
    <3> QED BY <2>2, <3>2 DEF BaseOK, Accept
  <2>3. CASE \/ \E s \in StreamSet : AcceptFails(s) \/ Admit(s) \/ Refuse(s)
             \/ \E c \in Conns : \/ RefuseEnds(c) \/ ReadQuery(c) \/ ReadEnds(c) \/ ConnHandled(c)
                                  \/ ReleaseSlot(c) \/ LeaveGroup(c)
    BY <2>3 DEF BaseOK, AcceptFails, Admit, Refuse, HandOver, RefuseEnds, ReadQuery, ReadEnds,
                ConnHandled, ReleaseSlot, LeaveGroup, Proceed
  <2> QED BY <2>1, <2>2, <2>3 DEF BaseOK, StreamStep
<1> QED BY <1>1, <1>2, <1>3, <1>4 DEF BaseOK

LEMMA StopStepKeepsBase ==
  ASSUME BaseOK, StopStep
  PROVE  BaseOK'
<1> USE DEF StopSteps, ConnSteps
<1>1. ASSUME NEW s \in Servers, WatcherStops(s) PROVE BaseOK'
  <2>1. UNCHANGED <<main, turn, ready, cancelled, expired, http, open, closed, reader, queue, worker,
                    backlog, acceptor, accepted, conn, at>>
    BY <1>1 DEF WatcherStops, mainVars, udpVars, streamVars
  <2>2. /\ running' \in [Servers -> BOOLEAN] /\ watcher' \in [Servers -> BOOLEAN]
        /\ stopper' \in [Servers -> {"main", "watcher", None}] /\ stopping' \in [Servers -> StopSteps]
    BY <1>1 DEF WatcherStops, Swap, BaseOK
  <2> QED BY <2>1, <2>2 DEF BaseOK
<1>2. ASSUME NEW s \in Servers, CloseSocket(s) PROVE BaseOK'
  <2>1. UNCHANGED <<main, turn, ready, cancelled, expired, http, running, watcher, stopper, closed, reader, queue,
                    worker, acceptor, accepted, at>>
    BY <1>2 DEF CloseSocket, mainVars, udpVars, streamVars
  <2>2. /\ open' \in [Servers -> BOOLEAN] /\ stopping' \in [Servers -> StopSteps]
    BY <1>2 DEF CloseSocket, BaseOK
  <2>3. backlog' \in [StreamSet -> Seq(Conns)] /\ conn' \in [Conns -> ConnSteps]
    <3>1. CASE s = "udp"
      BY <1>2, <3>1 DEF CloseSocket, BaseOK, streamVars
    <3>2. CASE s # "udp"
      <4>1. /\ backlog' = [backlog EXCEPT ![s] = << >>]
            /\ conn' = [c \in Conns |-> IF c \in Range(backlog[s]) THEN "none" ELSE conn[c]]
        BY <1>2, <3>2 DEF CloseSocket
      <4>2. << >> \in Seq(Conns)
        OBVIOUS
      <4> QED BY <4>1, <4>2 DEF BaseOK
    <3> QED BY <3>1, <3>2
  <2> QED BY <2>1, <2>2, <2>3 DEF BaseOK
<1>3. CASE CloseQueue \/ \E s \in Servers : StopReturns(s)
  <2>1. UNCHANGED <<main, turn, ready, cancelled, expired, http, running, open, watcher, stopper, reader, queue,
                    worker, backlog, acceptor, accepted, conn, at>>
    BY <1>3 DEF CloseQueue, StopReturns, mainVars, udpVars, streamVars
  <2>2. stopping' \in [Servers -> StopSteps]
    BY <1>3, OrderFacts DEF CloseQueue, StopReturns, BaseOK
  <2>3. closed' \in BOOLEAN
    BY <1>3 DEF CloseQueue, StopReturns, BaseOK, udpVars
  <2> QED BY <2>1, <2>2, <2>3 DEF BaseOK
<1> QED BY <1>1, <1>2, <1>3 DEF StopStep

LEMMA ExitKeepsBase ==
  ASSUME BaseOK, Exit
  PROVE  BaseOK'
<1>1. [s \in StreamSet |-> << >>] \in [StreamSet -> Seq(Conns)]
  OBVIOUS
<1> QED BY <1>1 DEF BaseOK, Exit, MainSteps, StopSteps, ConnSteps

LEMMA StartKeepsBase ==
  ASSUME BaseOK, StartServer
  PROVE  BaseOK'
<1> DEFINE s == Order[turn]
<1>1. s \in Servers /\ (s = "udp" \/ s \in StreamSet)
  BY OrderFacts DEF BaseOK
<1>2. UNCHANGED <<ready, cancelled, expired, http, stopper, stopping>>
  BY DEF StartServer
<1>3. /\ running' = [running EXCEPT ![s] = TRUE] /\ open' = [open EXCEPT ![s] = TRUE]
      /\ watcher' = [watcher EXCEPT ![s] = TRUE]
      /\ IF s = "udp" THEN StartUDP ELSE StartStream(s)
  BY DEF StartServer
<1>4. main' \in MainSteps /\ turn' \in 1 .. Len(Order)
  BY OrderFacts DEF StartServer, BaseOK, MainSteps
<1> HIDE DEF s
<1>5. /\ running' \in [Servers -> BOOLEAN] /\ open' \in [Servers -> BOOLEAN] /\ watcher' \in [Servers -> BOOLEAN]
  BY <1>1, <1>3 DEF BaseOK
<1>6. CASE s = "udp"
  BY <1>2, <1>3, <1>4, <1>5, <1>6 DEF StartUDP, BaseOK, streamVars
<1>7. CASE s # "udp"
  <2>1. /\ acceptor' = [acceptor EXCEPT ![s] = "accept"]
        /\ UNCHANGED <<reader, queue, closed, worker, backlog, accepted, conn, at>>
    BY <1>3, <1>7 DEF StartStream, udpVars
  <2>2. acceptor' \in [StreamSet -> {"none", "accept", "admit", "exit"}]
    BY <1>1, <1>7, <2>1 DEF BaseOK
  <2> QED BY <1>2, <1>4, <1>5, <2>1, <2>2 DEF BaseOK
<1> QED BY <1>6, <1>7

LEMMA MainStepKeepsBase ==
  ASSUME BaseOK, MainStep
  PROVE  BaseOK'
<1> USE DEF MainSteps, StopSteps
<1>1. CASE StartFails \/ PersistAndExit
  BY <1>1, ExitKeepsBase DEF StartFails, PersistAndExit
<1>2. CASE BecomeReady \/ Signal \/ CancelRoot \/ StopHTTP
  <2>1. main' \in MainSteps /\ UNCHANGED <<turn, expired, running, open, shutVars, udpVars, streamVars>>
    BY <1>2 DEF BecomeReady, Signal, CancelRoot, StopHTTP, Advance
  <2>2. ready' \in BOOLEAN /\ cancelled' \in BOOLEAN /\ http' \in BOOLEAN
    BY <1>2 DEF BecomeReady, Signal, CancelRoot, StopHTTP, BaseOK
  <2> QED BY <2>1, <2>2 DEF BaseOK, shutVars, udpVars, streamVars
<1>3. CASE HTTPFails \/ DrainTimeout
  <2>1. UNCHANGED <<main, turn, ready, running, open, shutVars, udpVars, streamVars>>
    BY <1>3 DEF HTTPFails, DrainTimeout
  <2>2. expired' \in BOOLEAN /\ cancelled' \in BOOLEAN /\ http' \in BOOLEAN
    BY <1>3 DEF HTTPFails, DrainTimeout, BaseOK
  <2> QED BY <2>1, <2>2 DEF BaseOK, shutVars, udpVars, streamVars
<1>4. CASE ServerStopped
  BY <1>4, OrderFacts DEF ServerStopped, BaseOK, shutVars, udpVars, streamVars
<1>5. CASE StopServer
  <2>1. UNCHANGED <<turn, ready, cancelled, expired, http, open, watcher, closed, reader, queue, worker,
                    backlog, acceptor, accepted, conn, at>> /\ main' = "wait"
    BY <1>5 DEF StopServer, udpVars, streamVars
  <2>2. Order[turn] \in Servers
    BY OrderFacts DEF BaseOK
  <2>3. /\ running' \in [Servers -> BOOLEAN]
        /\ stopper' \in [Servers -> {"main", "watcher", None}] /\ stopping' \in [Servers -> StopSteps]
    BY <1>5, <2>2 DEF StopServer, Swap, BaseOK
  <2> QED BY <2>1, <2>3 DEF BaseOK
<1> QED BY <1>1, <1>2, <1>3, <1>4, <1>5, StartKeepsBase DEF MainStep

-----------------------------------------------------------------------------
LEMMA UDPStepKeepsLife ==
  ASSUME BaseOK, LifeInv, UDPStep
  PROVE  LifeInv'
<1>1. UNCHANGED <<main, turn, ready, cancelled, http, running, open, watcher, stopping, closed>>
  BY DEF UDPStep, ReadDatagram, ReadFails, Enqueue, GiveUpReading, DropDatagram, TakeDatagram, WorkerExits,
         WorkerHandled, mainVars, shutVars
<1>2. reader = "exit" => reader' = "exit"
  BY DEF UDPStep, ReadDatagram, ReadFails, Enqueue, GiveUpReading, DropDatagram, TakeDatagram, WorkerExits,
         WorkerHandled
<1> QED BY <1>1, <1>2 DEF LifeInv

LEMMA StreamStepKeepsLife ==
  ASSUME LifeInv, StreamStep
  PROVE  LifeInv'
<1>1. UNCHANGED <<main, turn, ready, cancelled, http, running, open, watcher, stopping, closed, reader>>
  BY DEF StreamStep, Accept, AcceptFails, Admit, Refuse, HandOver, Connect, RefuseEnds, ReadQuery, ReadEnds,
         ConnHandled, ReleaseSlot, LeaveGroup, Proceed, mainVars, shutVars, udpVars
<1> QED BY <1>1 DEF LifeInv

(* Shutdown is entered: the caller that finds the flag set runs the body.  *)
LEMMA SwapKeepsLife ==
  ASSUME BaseOK, LifeInv, NEW s \in Servers, NEW who, Swap(s, who), cancelled,
         main = "start" => \A i \in turn .. Len(Order) : Order[i] # s,
         main' = main \/ (main = "stop" /\ main' = "wait"),
         UNCHANGED <<turn, ready, cancelled, http, open, closed, reader>>,
         \A t \in Servers : watcher'[t] => watcher[t]
  PROVE  LifeInv'
<1>1. /\ running' = [running EXCEPT ![s] = FALSE]
      /\ stopping' = stopping \/ (stopping[s] = "no" /\ stopping' = [stopping EXCEPT ![s] = "close"])
  BY DEF Swap, LifeInv
<1>2. \A t \in Servers : stopping'[t] = "no" => stopping[t] = "no"
  BY <1>1 DEF BaseOK
<1>3. \A t \in Servers : t # s => stopping'[t] = stopping[t]
  BY <1>1 DEF BaseOK
<1>4. \A t \in Servers : running'[t] => stopping'[t] = "no"
  BY <1>1, <1>3 DEF BaseOK, LifeInv
<1>5. closed => stopping'["udp"] \in {"drain", "ended"}
  BY <1>1, <1>3, OrderFacts DEF BaseOK, LifeInv
<1>6. main = "start" => /\ \A i \in turn .. Len(Order) : stopping'[Order[i]] = "no" /\ ~watcher'[Order[i]]
                        /\ \A i \in 1 .. turn - 1 : stopping'[Order[i]] = "no" => open[Order[i]]
  BY <1>2, <1>3, OrderFacts DEF BaseOK, LifeInv
<1> QED BY <1>2, <1>4, <1>5, <1>6 DEF LifeInv

LEMMA StopStepKeepsLife ==
  ASSUME BaseOK, LifeInv, StopStep
  PROVE  LifeInv'
<1>1. ASSUME NEW s \in Servers, WatcherStops(s) PROVE LifeInv'
  <2>1. /\ watcher[s] /\ cancelled /\ Swap(s, "watcher") /\ watcher' = [watcher EXCEPT ![s] = FALSE]
        /\ UNCHANGED <<main, turn, ready, cancelled, http, open, closed, reader>>
    BY <1>1 DEF WatcherStops, mainVars, udpVars
  <2>2. main = "start" => \A i \in turn .. Len(Order) : Order[i] # s
    BY <2>1 DEF LifeInv
  <2>3. \A t \in Servers : watcher'[t] => watcher[t]
    BY <2>1 DEF BaseOK
  <2> QED BY <2>1, <2>2, <2>3, SwapKeepsLife
<1>2. ASSUME NEW s \in Servers, NEW step \in StopSteps \ {"no"}, stopping[s] # "no",
             stopping' = [stopping EXCEPT ![s] = step],
             \A t \in Servers : open'[t] = open[t] \/ t = s,
             closed' => reader = "exit" /\ stopping'["udp"] \in {"drain", "ended"},
             UNCHANGED <<main, turn, ready, cancelled, http, running, watcher, reader>>
      PROVE  LifeInv'
  <2>1. \A t \in Servers : stopping'[t] = "no" <=> stopping[t] = "no"
    BY <1>2 DEF BaseOK
  <2>2. \A t \in Servers : stopping'[t] = "no" /\ open[t] => open'[t]
    BY <1>2, <2>1
  <2>3. main = "start" => /\ \A i \in turn .. Len(Order) : stopping'[Order[i]] = "no" /\ ~watcher'[Order[i]]
                          /\ \A i \in 1 .. turn - 1 : stopping'[Order[i]] = "no" => open'[Order[i]]
    <3> SUFFICES ASSUME main = "start"
                 PROVE /\ \A i \in turn .. Len(Order) : stopping'[Order[i]] = "no" /\ ~watcher'[Order[i]]
                       /\ \A i \in 1 .. turn - 1 : stopping'[Order[i]] = "no" => open'[Order[i]]
      OBVIOUS
    <3>1. turn \in 1 .. Len(Order) /\ \A i \in 1 .. Len(Order) : Order[i] \in Servers
      BY OrderFacts DEF BaseOK
    <3>2. (\A i \in turn .. Len(Order) : i \in 1 .. Len(Order)) /\ (\A i \in 1 .. turn - 1 : i \in 1 .. Len(Order))
      BY <3>1
    <3> QED BY <1>2, <2>1, <2>2, <3>1, <3>2 DEF LifeInv
  <2> QED BY <1>2, <2>1, <2>2, <2>3 DEF LifeInv
<1>3. ASSUME NEW s \in Servers, CloseSocket(s) PROVE LifeInv'
  <2>1. /\ stopping[s] = "close" /\ open' = [open EXCEPT ![s] = FALSE]
        /\ stopping' = [stopping EXCEPT ![s] = IF s = "udp" THEN "readers" ELSE "drain"]
        /\ UNCHANGED <<main, turn, ready, cancelled, http, running, watcher, reader, closed>>
    BY <1>3 DEF CloseSocket, mainVars, udpVars
  <2>2. closed => s # "udp" /\ stopping'["udp"] \in {"drain", "ended"}
    BY <2>1, OrderFacts DEF BaseOK, LifeInv
  <2> QED BY <1>2, <2>1, <2>2 DEF BaseOK, LifeInv, StopSteps
<1>4. ASSUME NEW s \in Servers, StopReturns(s) PROVE LifeInv'
  <2>1. /\ stopping[s] = "drain" /\ stopping' = [stopping EXCEPT ![s] = "ended"]
        /\ UNCHANGED <<main, turn, ready, cancelled, http, running, open, watcher, reader, closed>>
    BY <1>4 DEF StopReturns, mainVars, udpVars
  <2>2. closed => stopping'["udp"] \in {"drain", "ended"}
    BY <2>1, OrderFacts DEF BaseOK, LifeInv
  <2> QED BY <1>2, <2>1, <2>2 DEF LifeInv, StopSteps
<1>5. CASE CloseQueue
  <2>1. /\ stopping["udp"] = "readers" /\ stopping' = [stopping EXCEPT !["udp"] = "drain"] /\ reader = "exit"
        /\ UNCHANGED <<main, turn, ready, cancelled, http, running, open, watcher, reader>>
    BY <1>5 DEF CloseQueue, mainVars
  <2>2. stopping'["udp"] = "drain"
    BY <2>1, OrderFacts DEF BaseOK
  <2> QED BY <1>2, <2>1, <2>2, OrderFacts DEF StopSteps
<1> QED BY <1>1, <1>3, <1>4, <1>5 DEF StopStep

LEMMA MainStepKeepsLife ==
  ASSUME BaseOK, LifeInv, MainStep
  PROVE  LifeInv'
<1>1. CASE StartFails \/ PersistAndExit
  <2>1. main \in {"start", "persist"} /\ Exit
    BY <1>1 DEF StartFails, PersistAndExit
  <2>2. /\ main' = "exit" /\ reader' = "exit" /\ ready' = ready /\ \A s \in Servers : ~running'[s] /\ stopping'[s] = "ended"
    BY <2>1 DEF Exit
  <2>3. ~ready
    BY <2>1 DEF LifeInv
  <2> QED BY <2>2, <2>3, OrderFacts DEF LifeInv
<1>2. CASE BecomeReady \/ Signal \/ CancelRoot \/ StopHTTP
  BY <1>2 DEF BecomeReady, Signal, CancelRoot, StopHTTP, Advance, LifeInv, shutVars, udpVars
<1>3. CASE HTTPFails \/ DrainTimeout
  BY <1>3 DEF HTTPFails, DrainTimeout, LifeInv, shutVars, udpVars
<1>4. CASE ServerStopped
  BY <1>4 DEF ServerStopped, LifeInv, shutVars, udpVars
<1>5. CASE StopServer
  <2>1. /\ main = "stop" /\ main' = "wait" /\ Swap(Order[turn], "main")
        /\ UNCHANGED <<turn, ready, cancelled, http, open, watcher, closed, reader>>
    BY <1>5 DEF StopServer, udpVars
  <2>2. Order[turn] \in Servers /\ cancelled
    BY <2>1, OrderFacts DEF BaseOK, LifeInv
  <2> QED BY <2>1, <2>2, SwapKeepsLife
<1>6. CASE StartServer
  <2> DEFINE s == Order[turn]
  <2>1. /\ main = "start" /\ running' = [running EXCEPT ![s] = TRUE] /\ open' = [open EXCEPT ![s] = TRUE]
        /\ watcher' = [watcher EXCEPT ![s] = TRUE]
        /\ UNCHANGED <<ready, cancelled, http, stopping>>
    BY <1>6 DEF StartServer
  <2>2. /\ IF s = "udp" THEN StartUDP ELSE StartStream(s)
        /\ IF turn < Len(Order) THEN turn' = turn + 1 /\ main' = "start" ELSE turn' = 1 /\ main' = "ready"
    BY <1>6 DEF StartServer
  <2>3. turn \in 1 .. Len(Order) /\ s \in Servers /\ stopping[s] = "no" /\ Len(Order) \in Nat
    BY <2>1, OrderFacts DEF BaseOK, LifeInv
  <2>4. closed' = closed /\ (closed => reader' = "exit")
    <3>1. CASE s = "udp"
      BY <2>2, <2>3, <3>1 DEF StartUDP, LifeInv
    <3>2. CASE s # "udp"
      BY <2>2, <3>2 DEF StartStream, LifeInv, udpVars
    <3> QED BY <3>1, <3>2
  <2>5. \A t \in Servers : /\ t # s => open'[t] = open[t] /\ running'[t] = running[t] /\ watcher'[t] = watcher[t]
                           /\ open[t] => open'[t]
    BY <2>1 DEF BaseOK
  <2>6. open'[s]
    BY <2>1, <2>3 DEF BaseOK
  <2>7. \A i \in 1 .. turn : stopping[Order[i]] = "no" => open'[Order[i]]
    <3> SUFFICES ASSUME NEW i \in 1 .. turn, stopping[Order[i]] = "no" PROVE open'[Order[i]]
      OBVIOUS
    <3>1. CASE i = turn
      BY <2>6, <3>1
    <3>2. CASE i # turn
      <4>1. i \in 1 .. turn - 1 /\ Order[i] \in Servers
        BY <2>3, <3>2, OrderFacts
      <4> QED BY <2>1, <2>5, <4>1 DEF LifeInv
    <3> QED BY <3>1, <3>2
  <2>8. CASE turn < Len(Order)
    <3>1. turn' = turn + 1 /\ main' = "start"
      BY <2>2, <2>8
    <3>2. ASSUME NEW i \in turn + 1 .. Len(Order) PROVE stopping[Order[i]] = "no" /\ ~watcher'[Order[i]]
      <4>1. i \in turn .. Len(Order) /\ i \in 1 .. Len(Order) /\ i # turn
        BY <2>3, <3>2
      <4>2. Order[i] \in Servers /\ Order[i] # s
        BY <2>3, <4>1, OrderFacts
      <4> QED BY <2>1, <2>5, <4>1, <4>2 DEF LifeInv
    <3>3. \A i \in 1 .. turn' - 1 : stopping'[Order[i]] = "no" => open'[Order[i]]
      BY <2>1, <2>3, <2>7, <3>1
    <3>4. \A t \in Servers : running'[t] => stopping'[t] = "no"
      BY <2>1, <2>3, <2>5 DEF LifeInv
    <3> QED BY <2>1, <2>4, <3>1, <3>2, <3>3, <3>4 DEF LifeInv
  <2>9. CASE ~(turn < Len(Order))
    <3>1. main' = "ready" /\ turn = Len(Order)
      BY <2>2, <2>3, <2>9
    <3>2. \A t \in Servers : stopping'[t] = "no" => open'[t]
      BY <2>1, <2>7, <3>1, OrderFacts
    <3>3. \A t \in Servers : running'[t] => stopping'[t] = "no"
      BY <2>1, <2>3, <2>5 DEF LifeInv
    <3> QED BY <2>1, <2>4, <3>1, <3>2, <3>3 DEF LifeInv
  <2> QED BY <2>8, <2>9
<1> QED BY <1>1, <1>2, <1>3, <1>4, <1>5, <1>6 DEF MainStep

-----------------------------------------------------------------------------
LEMMA ConnectKeepsConns ==
  ASSUME BaseOK, ConnInv, NEW c \in Conns, NEW s \in StreamSet, Connect(c, s)
  PROVE  ConnInv'
<1>1. /\ conn[c] = "none" /\ conn' = [conn EXCEPT ![c] = "pending"] /\ at' = [at EXCEPT ![c] = s]
      /\ backlog' = [backlog EXCEPT ![s] = Append(@, c)] /\ UNCHANGED <<acceptor, accepted>>
  BY DEF Connect
<1>2. /\ conn'[c] = "pending" /\ at'[c] = s
      /\ \A d \in Conns : d # c => conn'[d] = conn[d] /\ at'[d] = at[d]
  BY <1>1 DEF BaseOK
<1>3. \A t \in StreamSet : \A i \in 1 .. Len(backlog[t]) : backlog[t][i] \in Conns /\ backlog[t][i] # c
  BY <1>1 DEF BaseOK, ConnInv
<1>4. /\ \A t \in StreamSet : t # s => backlog'[t] = backlog[t]
      /\ backlog'[s] = Append(backlog[s], c) /\ backlog[s] \in Seq(Conns)
  BY <1>1 DEF BaseOK
<1>5. /\ Len(backlog[s]) \in Nat /\ Len(backlog'[s]) = Len(backlog[s]) + 1
      /\ backlog'[s][Len(backlog[s]) + 1] = c
      /\ \A i \in 1 .. Len(backlog[s]) : backlog'[s][i] = backlog[s][i]
  BY <1>4
<1>6. ASSUME NEW t \in StreamSet, NEW i \in 1 .. Len(backlog'[t])
      PROVE  conn'[backlog'[t][i]] = "pending" /\ at'[backlog'[t][i]] = t
  <2>1. CASE t = s /\ i = Len(backlog[s]) + 1
    BY <1>2, <1>5, <2>1
  <2>2. CASE ~(t = s /\ i = Len(backlog[s]) + 1)
    <3>1. i \in 1 .. Len(backlog[t]) /\ backlog'[t][i] = backlog[t][i]
      BY <1>4, <1>5, <2>2
    <3> QED BY <1>2, <1>3, <3>1 DEF ConnInv
  <2> QED BY <2>1, <2>2
<1>7. ASSUME NEW t \in StreamSet, NEW i \in 1 .. Len(backlog'[t]), NEW j \in 1 .. Len(backlog'[t]),
             backlog'[t][i] = backlog'[t][j]
      PROVE  i = j
  <2>1. CASE t # s
    BY <1>4, <1>7, <2>1 DEF ConnInv
  <2>2. CASE t = s
    <3>1. \A k \in 1 .. Len(backlog'[s]) : k = Len(backlog[s]) + 1 \/ k \in 1 .. Len(backlog[s])
      BY <1>5
    <3>2. \A k \in 1 .. Len(backlog[s]) : backlog'[s][k] # c
      BY <1>3, <1>5
    <3>3. CASE i \in 1 .. Len(backlog[s]) /\ j \in 1 .. Len(backlog[s])
      <4>1. backlog[s][i] = backlog[s][j]
        BY <1>5, <1>7, <2>2, <3>3
      <4> QED BY <3>3, <4>1 DEF ConnInv
    <3>4. CASE i = Len(backlog[s]) + 1 \/ j = Len(backlog[s]) + 1
      BY <1>5, <1>7, <2>2, <3>1, <3>2, <3>4
    <3> QED BY <2>2, <3>1, <3>3, <3>4
  <2> QED BY <2>1, <2>2
<1>8. ASSUME NEW t \in StreamSet, acceptor'[t] = "admit"
      PROVE  accepted'[t] \in Conns /\ conn'[accepted'[t]] = "accepted" /\ at'[accepted'[t]] = t
  <2>1. accepted[t] \in Conns /\ conn[accepted[t]] = "accepted" /\ at[accepted[t]] = t
    BY <1>1, <1>8 DEF ConnInv
  <2>2. accepted[t] # c
    BY <1>1, <2>1
  <2> QED BY <1>1, <1>2, <2>1, <2>2
<1> QED BY <1>6, <1>7, <1>8 DEF ConnInv

LEMMA AcceptKeepsConns ==
  ASSUME BaseOK, ConnInv, NEW s \in StreamSet, Accept(s)
  PROVE  ConnInv'
<1> DEFINE c == Head(backlog[s])
<1>1. /\ backlog[s] # << >> /\ backlog[s] \in Seq(Conns)
      /\ acceptor' = [acceptor EXCEPT ![s] = "admit"] /\ accepted' = [accepted EXCEPT ![s] = c]
      /\ backlog' = [backlog EXCEPT ![s] = Tail(@)] /\ conn' = [conn EXCEPT ![c] = "accepted"]
      /\ UNCHANGED at
  BY DEF Accept, BaseOK
<1>2. /\ Len(backlog[s]) \in Nat \ {0} /\ c = backlog[s][1] /\ c \in Conns
      /\ Len(Tail(backlog[s])) = Len(backlog[s]) - 1
      /\ \A i \in 1 .. Len(Tail(backlog[s])) : Tail(backlog[s])[i] = backlog[s][i + 1]
  BY <1>1, EmptySeq
<1> HIDE DEF c
<1>3. conn[c] = "pending" /\ at[c] = s
  BY <1>2 DEF ConnInv
<1>4. conn'[c] = "accepted" /\ \A d \in Conns : d # c => conn'[d] = conn[d]
  BY <1>1, <1>2 DEF BaseOK
<1>5. backlog'[s] = Tail(backlog[s]) /\ \A t \in StreamSet : t # s => backlog'[t] = backlog[t]
  BY <1>1 DEF BaseOK
<1>6. ASSUME NEW t \in StreamSet, NEW i \in 1 .. Len(backlog'[t])
      PROVE  /\ backlog'[t][i] \in Conns /\ backlog'[t][i] # c
             /\ conn[backlog'[t][i]] = "pending" /\ at[backlog'[t][i]] = t
  <2>1. CASE t = s
    <3>0. i \in 1 .. Len(Tail(backlog[s])) /\ backlog'[s][i] = backlog[s][i + 1]
      BY <1>2, <1>5, <2>1
    <3>1. /\ i + 1 \in 1 .. Len(backlog[s]) /\ i + 1 # 1 /\ 1 \in 1 .. Len(backlog[s])
          /\ backlog'[s][i] = backlog[s][i + 1]
      BY <1>2, <3>0
    <3>2. backlog[s][i + 1] \in Conns
      BY <1>1, <3>1
    <3> QED BY <1>2, <2>1, <3>1, <3>2 DEF ConnInv
  <2>2. CASE t # s
    <3>1. i \in 1 .. Len(backlog[t]) /\ backlog'[t][i] = backlog[t][i] /\ backlog[t] \in Seq(Conns)
      BY <1>5, <2>2 DEF BaseOK
    <3>2. backlog[t][i] \in Conns
      BY <3>1
    <3>3. conn[backlog[t][i]] = "pending" /\ at[backlog[t][i]] = t
      BY <3>1 DEF ConnInv
    <3> QED BY <1>3, <2>2, <3>1, <3>2, <3>3
  <2> QED BY <2>1, <2>2
<1>7. ASSUME NEW t \in StreamSet, NEW i \in 1 .. Len(backlog'[t]), NEW j \in 1 .. Len(backlog'[t]),
             backlog'[t][i] = backlog'[t][j]
      PROVE  i = j
  <2>1. CASE t # s
    BY <1>5, <1>7, <2>1 DEF ConnInv
  <2>2. CASE t = s
    <3>1. \A k \in 1 .. Len(backlog'[s]) : k + 1 \in 1 .. Len(backlog[s]) /\ backlog'[s][k] = backlog[s][k + 1]
      BY <1>2, <1>5
    <3>2. i + 1 = j + 1
      BY <1>7, <2>2, <3>1 DEF ConnInv
    <3> QED BY <3>2
  <2> QED BY <2>1, <2>2
<1>8. ASSUME NEW t \in StreamSet, acceptor'[t] = "admit"
      PROVE  accepted'[t] \in Conns /\ conn'[accepted'[t]] = "accepted" /\ at'[accepted'[t]] = t
  <2>1. CASE t = s
    BY <1>1, <1>2, <1>3, <1>4, <2>1 DEF BaseOK
  <2>2. CASE t # s
    <3>1. acceptor[t] = "admit" /\ accepted'[t] = accepted[t]
      BY <1>1, <1>8, <2>2 DEF BaseOK
    <3>2. accepted[t] \in Conns /\ conn[accepted[t]] = "accepted" /\ at[accepted[t]] = t
      BY <3>1 DEF ConnInv
    <3>3. accepted[t] # c
      BY <1>3, <3>2
    <3> QED BY <1>1, <1>4, <3>1, <3>2, <3>3
  <2> QED BY <2>1, <2>2
<1>9. ASSUME NEW t \in StreamSet, NEW i \in 1 .. Len(backlog'[t])
      PROVE  conn'[backlog'[t][i]] = "pending" /\ at'[backlog'[t][i]] = t
  <2>1. /\ backlog'[t][i] \in Conns /\ backlog'[t][i] # c
        /\ conn[backlog'[t][i]] = "pending" /\ at[backlog'[t][i]] = t
    BY <1>6
  <2>2. conn'[backlog'[t][i]] = conn[backlog'[t][i]]
    BY <1>4, <2>1
  <2> QED BY <1>1, <2>1, <2>2
<1> QED BY <1>7, <1>8, <1>9 DEF ConnInv

(* A connection that is neither waiting nor just accepted moves on, or the *)
(* accepted one is handed over.                                            *)
LEMMA MoveKeepsConns ==
  ASSUME BaseOK, ConnInv, NEW c \in Conns, NEW step, conn[c] # "pending", conn' = [conn EXCEPT ![c] = step],
         \A s \in StreamSet : acceptor'[s] = "admit" => acceptor[s] = "admit" /\ accepted'[s] = accepted[s] /\ accepted[s] # c,
         UNCHANGED <<backlog, at>>
  PROVE  ConnInv'
<1>1. \A d \in Conns : d # c => conn'[d] = conn[d]
  BY DEF BaseOK
<1>2. \A s \in StreamSet : \A i \in 1 .. Len(backlog[s]) : backlog[s][i] \in Conns
  BY DEF BaseOK
<1> QED BY <1>1, <1>2 DEF ConnInv

LEMMA StreamStepKeepsConns ==
  ASSUME BaseOK, ConnInv, StreamStep
  PROVE  ConnInv'
<1>1. ASSUME NEW s \in StreamSet, AcceptFails(s) PROVE ConnInv'
  BY <1>1 DEF AcceptFails, ConnInv, BaseOK
<1>2. ASSUME NEW s \in StreamSet, NEW step, HandOver(s, step) PROVE ConnInv'
  <2>1. /\ acceptor[s] = "admit" /\ acceptor' = [acceptor EXCEPT ![s] = "accept"]
        /\ accepted' = [accepted EXCEPT ![s] = None] /\ conn' = [conn EXCEPT ![accepted[s]] = step]
        /\ UNCHANGED <<backlog, at>>
    BY <1>2 DEF HandOver
  <2>2. accepted[s] \in Conns /\ conn[accepted[s]] = "accepted" /\ at[accepted[s]] = s
    BY <2>1 DEF ConnInv
  <2>3. \A t \in StreamSet : acceptor'[t] = "admit" => acceptor[t] = "admit" /\ accepted'[t] = accepted[t]
                                                       /\ accepted[t] # accepted[s]
    BY <2>1, <2>2 DEF BaseOK, ConnInv
  <2> QED BY <2>1, <2>2, <2>3, MoveKeepsConns
<1>3. ASSUME NEW c \in Conns, NEW from \in {"refusing", "reading", "handling", "closing", "released"}, NEW to,
             Proceed(c, from, to)
      PROVE  ConnInv'
  <2>1. conn[c] = from /\ conn' = [conn EXCEPT ![c] = to] /\ UNCHANGED <<backlog, acceptor, accepted, at>>
    BY <1>3 DEF Proceed
  <2>2. \A t \in StreamSet : acceptor[t] = "admit" => accepted[t] # c
    BY <2>1 DEF ConnInv
  <2> QED BY <2>1, <2>2, MoveKeepsConns
<1>4. CASE \E s \in StreamSet : Admit(s) \/ Refuse(s)
  BY <1>2, <1>4 DEF Admit, Refuse
<1>5. CASE \E c \in Conns : \/ RefuseEnds(c) \/ ReadQuery(c) \/ ReadEnds(c) \/ ConnHandled(c)
                            \/ ReleaseSlot(c) \/ LeaveGroup(c)
  BY <1>3, <1>5 DEF RefuseEnds, ReadQuery, ReadEnds, ConnHandled, ReleaseSlot, LeaveGroup
<1> QED BY <1>1, <1>4, <1>5, ConnectKeepsConns, AcceptKeepsConns DEF StreamStep

LEMMA CloseSocketKeepsConns ==
  ASSUME BaseOK, ConnInv, NEW s \in Servers, CloseSocket(s)
  PROVE  ConnInv'
<1>1. CASE s = "udp"
  BY <1>1 DEF CloseSocket, ConnInv, streamVars
<1>2. CASE s # "udp"
  <2>1. /\ backlog' = [backlog EXCEPT ![s] = << >>]
        /\ conn' = [c \in Conns |-> IF c \in Range(backlog[s]) THEN "none" ELSE conn[c]]
        /\ UNCHANGED <<acceptor, accepted, at>>
    BY <1>2 DEF CloseSocket
  <2>2. s \in StreamSet
    BY <1>2, OrderFacts
  <2>3. \A c \in Conns : at[c] # s \/ conn[c] # "pending" => conn'[c] = conn[c]
    <3> SUFFICES ASSUME NEW c \in Conns, at[c] # s \/ conn[c] # "pending" PROVE c \notin Range(backlog[s])
      BY <2>1
    <3>1. backlog[s] \in Seq(Conns) /\ DOMAIN backlog[s] = 1 .. Len(backlog[s])
      BY <2>2 DEF BaseOK
    <3> QED BY <2>2, <3>1 DEF Range, ConnInv
  <2>4. ASSUME NEW t \in StreamSet, t # s
        PROVE  /\ backlog'[t] = backlog[t]
               /\ \A i \in 1 .. Len(backlog[t]) : conn'[backlog[t][i]] = "pending" /\ at[backlog[t][i]] = t
    <3>1. backlog'[t] = backlog[t] /\ backlog[t] \in Seq(Conns)
      BY <2>1, <2>4 DEF BaseOK
    <3>2. \A i \in 1 .. Len(backlog[t]) : backlog[t][i] \in Conns
      BY <3>1
    <3> QED BY <2>3, <2>4, <3>1, <3>2 DEF ConnInv
  <2>5. Len(backlog'[s]) = 0
    BY <2>1, <2>2 DEF BaseOK
  <2>6. ASSUME NEW t \in StreamSet, acceptor'[t] = "admit"
        PROVE  accepted'[t] \in Conns /\ conn'[accepted'[t]] = "accepted" /\ at'[accepted'[t]] = t
    BY <2>1, <2>3, <2>6 DEF ConnInv
  <2>7. ASSUME NEW t \in StreamSet, NEW i \in 1 .. Len(backlog'[t])
        PROVE  conn'[backlog'[t][i]] = "pending" /\ at'[backlog'[t][i]] = t
    BY <2>1, <2>4, <2>5
  <2>8. ASSUME NEW t \in StreamSet, NEW i \in 1 .. Len(backlog'[t]), NEW j \in 1 .. Len(backlog'[t]),
               backlog'[t][i] = backlog'[t][j]
        PROVE  i = j
    BY <2>4, <2>5, <2>8 DEF ConnInv
  <2> QED BY <2>6, <2>7, <2>8 DEF ConnInv
<1> QED BY <1>1, <1>2

(* The steps that leave connections alone.                                 *)
LEMMA SameConns ==
  ASSUME ConnInv, CountInv, UNCHANGED streamVars
  PROVE  ConnInv' /\ CountInv'
BY DEF ConnInv, CountInv, Holding, Counted, streamVars

LEMMA ExitKeepsConns ==
  ASSUME Exit
  PROVE  ConnInv' /\ CountInv'
<1>1. ConnInv'
  BY DEF Exit, ConnInv
<1>2. \A s \in StreamSet : Holding(s)' = {} /\ Counted(s)' = {}
  BY DEF Exit, Holding, Counted
<1>3. CountInv'
  BY <1>2, FS_EmptySet DEF Exit, CountInv
<1> QED BY <1>1, <1>3

LEMMA StartKeepsConns ==
  ASSUME BaseOK, ConnInv, CountInv, StartServer
  PROVE  ConnInv' /\ CountInv'
<1> DEFINE s == Order[turn]
<1>1. IF s = "udp" THEN StartUDP ELSE StartStream(s)
  BY DEF StartServer
<1>2. CASE s = "udp"
  BY <1>1, <1>2, SameConns DEF StartUDP
<1>3. CASE s # "udp"
  <2>1. s \in StreamSet
    BY <1>3, OrderFacts DEF BaseOK
  <2>2. acceptor' = [acceptor EXCEPT ![s] = "accept"] /\ UNCHANGED <<backlog, accepted, sem, wg, conn, at>>
    BY <1>1, <1>3 DEF StartStream
  <2> HIDE DEF s
  <2>3. \A t \in StreamSet : acceptor'[t] = "admit" => acceptor[t] = "admit"
    BY <2>1, <2>2 DEF BaseOK
  <2>4. ConnInv'
    BY <2>2, <2>3 DEF ConnInv
  <2>5. CountInv'
    BY <2>2 DEF CountInv, Holding, Counted
  <2> QED BY <2>4, <2>5
<1> QED BY <1>2, <1>3

-----------------------------------------------------------------------------
LEMMA ConnSetsAreFinite ==
  ASSUME NEW s
  PROVE  IsFiniteSet(Holding(s)) /\ IsFiniteSet(Counted(s))
<1>1. Holding(s) \subseteq Conns /\ Counted(s) \subseteq Conns
  BY DEF Holding, Counted
<1> QED BY <1>1, ServersAssumption, FS_Subset

LEMMA SameCounts ==
  ASSUME CountInv, UNCHANGED <<sem, wg>>,
         \A s \in StreamSet : Holding(s)' = Holding(s) /\ Counted(s)' = Counted(s)
  PROVE  CountInv'
BY DEF CountInv

LEMMA StreamStepKeepsCounts ==
  ASSUME BaseOK, ConnInv, CountInv, StreamStep
  PROVE  CountInv'
<1> DEFINE Held == {"reading", "handling", "closing"}
<1>1. ASSUME NEW s \in StreamSet, AcceptFails(s) PROVE CountInv'
  BY <1>1 DEF AcceptFails, CountInv, Holding, Counted
<1>2. ASSUME NEW c \in Conns, NEW step, conn' = [conn EXCEPT ![c] = step],
             conn[c] \notin Held \cup {"released"}, step \notin Held \cup {"released"},
             \A d \in Conns : d # c => at'[d] = at[d], UNCHANGED <<sem, wg>>
      PROVE  CountInv'
  <2>1. \A d \in Conns : d # c => conn'[d] = conn[d]
    BY <1>2 DEF BaseOK
  <2>2. conn'[c] = step
    BY <1>2 DEF BaseOK
  <2>3. \A s \in StreamSet : Holding(s)' = Holding(s) /\ Counted(s)' = Counted(s)
    BY <1>2, <2>1, <2>2 DEF Holding, Counted
  <2> QED BY <1>2, <2>3, SameCounts
<1>3. ASSUME NEW c \in Conns, NEW s \in StreamSet, Connect(c, s) PROVE CountInv'
  <2>1. /\ conn[c] = "none" /\ conn' = [conn EXCEPT ![c] = "pending"] /\ UNCHANGED <<sem, wg>>
        /\ at' = [at EXCEPT ![c] = s]
    BY <1>3 DEF Connect
  <2> QED BY <1>2, <2>1 DEF BaseOK
<1>4. ASSUME NEW s \in StreamSet, Accept(s) PROVE CountInv'
  <2>1. /\ backlog[s] # << >> /\ backlog[s] \in Seq(Conns)
        /\ conn' = [conn EXCEPT ![Head(backlog[s])] = "accepted"] /\ UNCHANGED <<sem, wg, at>>
    BY <1>4 DEF Accept, BaseOK
  <2>2. Head(backlog[s]) \in Conns /\ conn[Head(backlog[s])] = "pending"
    BY <2>1, EmptySeq DEF ConnInv
  <2> QED BY <1>2, <2>1, <2>2
<1>5. ASSUME NEW s \in StreamSet, Refuse(s) PROVE CountInv'
  <2>1. /\ acceptor[s] = "admit" /\ conn' = [conn EXCEPT ![accepted[s]] = "refusing"] /\ UNCHANGED <<sem, wg, at>>
    BY <1>5 DEF Refuse, HandOver
  <2>2. accepted[s] \in Conns /\ conn[accepted[s]] = "accepted"
    BY <2>1 DEF ConnInv
  <2> QED BY <1>2, <2>1, <2>2
<1>6. ASSUME NEW s \in StreamSet, Admit(s) PROVE CountInv'
  <2> DEFINE c == accepted[s]
  <2>1. /\ acceptor[s] = "admit" /\ conn' = [conn EXCEPT ![c] = "reading"] /\ UNCHANGED at
        /\ sem' = [sem EXCEPT ![s] = @ + 1] /\ wg' = [wg EXCEPT ![s] = @ + 1]
    BY <1>6 DEF Admit, HandOver
  <2>2. c \in Conns /\ conn[c] = "accepted" /\ at[c] = s
    BY <2>1 DEF ConnInv
  <2> HIDE DEF c
  <2>3. conn'[c] = "reading" /\ \A d \in Conns : d # c => conn'[d] = conn[d]
    BY <2>1, <2>2 DEF BaseOK
  <2>4. \A t \in StreamSet : t # s => Holding(t)' = Holding(t) /\ Counted(t)' = Counted(t)
    BY <2>1, <2>2, <2>3 DEF Holding, Counted
  <2>5. /\ c \notin Holding(s) /\ Holding(s)' = Holding(s) \cup {c}
        /\ c \notin Counted(s) /\ Counted(s)' = Counted(s) \cup {c}
    BY <2>1, <2>2, <2>3 DEF Holding, Counted
  <2>6. /\ Cardinality(Holding(s)') = Cardinality(Holding(s)) + 1
        /\ Cardinality(Counted(s)') = Cardinality(Counted(s)) + 1
    BY <2>5, ConnSetsAreFinite, FS_AddElement
  <2> QED BY <2>1, <2>4, <2>6 DEF CountInv
<1>7. ASSUME NEW c \in Conns, ReadQuery(c) \/ ReadEnds(c) \/ ConnHandled(c) PROVE CountInv'
  <2>1. PICK step \in Held : conn[c] \in Held /\ conn' = [conn EXCEPT ![c] = step] /\ UNCHANGED <<sem, wg, at>>
    BY <1>7 DEF ReadQuery, ReadEnds, ConnHandled, Proceed
  <2>2. conn'[c] = step /\ \A d \in Conns : d # c => conn'[d] = conn[d]
    BY <2>1 DEF BaseOK
  <2>3. \A s \in StreamSet : Holding(s)' = Holding(s) /\ Counted(s)' = Counted(s)
    BY <2>1, <2>2 DEF Holding, Counted
  <2> QED BY <2>1, <2>3, SameCounts
<1>8. ASSUME NEW c \in Conns, RefuseEnds(c) PROVE CountInv'
  BY <1>2, <1>8 DEF RefuseEnds, Proceed
<1>9. ASSUME NEW c \in Conns, ReleaseSlot(c) PROVE CountInv'
  <2>1. /\ conn[c] = "closing" /\ conn' = [conn EXCEPT ![c] = "released"] /\ UNCHANGED <<at, wg>>
        /\ sem' = [sem EXCEPT ![at[c]] = @ - 1]
    BY <1>9 DEF ReleaseSlot, Proceed
  <2>2. at[c] \in StreamSet /\ conn'[c] = "released" /\ \A d \in Conns : d # c => conn'[d] = conn[d]
    BY <2>1 DEF BaseOK
  <2>3. \A t \in StreamSet : Counted(t)' = Counted(t) /\ (t # at[c] => Holding(t)' = Holding(t))
    BY <2>1, <2>2 DEF Holding, Counted
  <2>4. c \in Holding(at[c]) /\ Holding(at[c])' = Holding(at[c]) \ {c}
    BY <2>1, <2>2 DEF Holding
  <2>5. Cardinality(Holding(at[c]) \ {c}) = Cardinality(Holding(at[c])) - 1
    BY <2>4, ConnSetsAreFinite, FS_RemoveElement
  <2>6. \A t \in StreamSet : sem'[t] = Cardinality(Holding(t)')
    BY <2>1, <2>2, <2>3, <2>4, <2>5 DEF CountInv
  <2> QED BY <2>1, <2>3, <2>6 DEF CountInv
<1>10. ASSUME NEW c \in Conns, LeaveGroup(c) PROVE CountInv'
  <2>1. /\ conn[c] = "released" /\ conn' = [conn EXCEPT ![c] = "none"] /\ UNCHANGED <<at, sem>>
        /\ wg' = [wg EXCEPT ![at[c]] = @ - 1]
    BY <1>10 DEF LeaveGroup, Proceed
  <2>2. at[c] \in StreamSet /\ conn'[c] = "none" /\ \A d \in Conns : d # c => conn'[d] = conn[d]
    BY <2>1 DEF BaseOK, ConnSteps
  <2>3. \A t \in StreamSet : Holding(t)' = Holding(t) /\ (t # at[c] => Counted(t)' = Counted(t))
    BY <2>1, <2>2 DEF Holding, Counted
  <2>4. c \in Counted(at[c]) /\ Counted(at[c])' = Counted(at[c]) \ {c}
    BY <2>1, <2>2 DEF Holding, Counted
  <2>5. Cardinality(Counted(at[c]) \ {c}) = Cardinality(Counted(at[c])) - 1
    BY <2>4, ConnSetsAreFinite, FS_RemoveElement
  <2> QED BY <2>1, <2>2, <2>3, <2>4, <2>5 DEF CountInv
<1> QED BY <1>1, <1>3, <1>4, <1>5, <1>6, <1>7, <1>8, <1>9, <1>10 DEF StreamStep

LEMMA CloseSocketKeepsCounts ==
  ASSUME BaseOK, ConnInv, CountInv, NEW s \in Servers, CloseSocket(s)
  PROVE  CountInv'
<1>1. CASE s = "udp"
  BY <1>1, SameConns DEF CloseSocket
<1>2. CASE s # "udp"
  <2>1. /\ conn' = [c \in Conns |-> IF c \in Range(backlog[s]) THEN "none" ELSE conn[c]]
        /\ UNCHANGED <<sem, wg, at>>
    BY <1>2 DEF CloseSocket
  <2>2. s \in StreamSet
    BY <1>2, OrderFacts
  <2>3. \A c \in Conns : c \in Range(backlog[s]) => conn[c] = "pending"
    <3>1. DOMAIN backlog[s] = 1 .. Len(backlog[s])
      BY <2>2 DEF BaseOK
    <3> QED BY <2>2, <3>1 DEF Range, ConnInv
  <2>4. \A c \in Conns : conn'[c] = conn[c] \/ (conn[c] = "pending" /\ conn'[c] = "none")
    BY <2>1, <2>3
  <2>5. \A t \in StreamSet : Holding(t)' = Holding(t) /\ Counted(t)' = Counted(t)
    BY <2>1, <2>4 DEF Holding, Counted
  <2> QED BY <2>1, <2>5, SameCounts
<1> QED BY <1>1, <1>2

-----------------------------------------------------------------------------
Inv == BaseOK /\ LifeInv /\ ConnInv /\ CountInv

LEMMA NextKeepsInv == Inv /\ [Next]_vars => Inv'
<1> SUFFICES ASSUME BaseOK, LifeInv, ConnInv, CountInv, [Next]_vars
             PROVE  BaseOK' /\ LifeInv' /\ ConnInv' /\ CountInv'
  BY DEF Inv
<1>1. CASE UDPStep
  <2>1. UNCHANGED streamVars
    BY <1>1 DEF UDPStep, ReadDatagram, ReadFails, Enqueue, GiveUpReading, DropDatagram, TakeDatagram, WorkerExits,
                WorkerHandled
  <2> QED BY <1>1, <2>1, UDPStepKeepsBase, UDPStepKeepsLife, SameConns
<1>2. CASE StreamStep
  BY <1>2, StreamStepKeepsBase, StreamStepKeepsLife, StreamStepKeepsConns, StreamStepKeepsCounts
<1>3. CASE StopStep
  <2>1. CASE \E s \in Servers : CloseSocket(s)
    BY <2>1, CloseSocketKeepsConns, CloseSocketKeepsCounts, <1>3, StopStepKeepsBase, StopStepKeepsLife
  <2>2. CASE CloseQueue \/ \E s \in Servers : WatcherStops(s) \/ StopReturns(s)
    <3>1. UNCHANGED streamVars
      BY <2>2 DEF CloseQueue, WatcherStops, StopReturns
    <3> QED BY <1>3, <3>1, StopStepKeepsBase, StopStepKeepsLife, SameConns
  <2> QED BY <1>3, <2>1, <2>2 DEF StopStep
<1>4. CASE MainStep
  <2>1. BaseOK' /\ LifeInv'
    BY <1>4, MainStepKeepsBase, MainStepKeepsLife
  <2>2. CASE StartFails \/ PersistAndExit
    BY <2>1, <2>2, ExitKeepsConns DEF StartFails, PersistAndExit
  <2>3. CASE StartServer
    BY <2>1, <2>3, StartKeepsConns
  <2>4. CASE \/ BecomeReady \/ Signal \/ CancelRoot \/ HTTPFails \/ StopHTTP \/ DrainTimeout \/ StopServer
             \/ ServerStopped
    <3>1. UNCHANGED streamVars
      BY <2>4 DEF BecomeReady, Signal, CancelRoot, HTTPFails, StopHTTP, DrainTimeout, StopServer, ServerStopped,
                  Advance
    <3> QED BY <2>1, <3>1, SameConns
  <2> QED BY <1>4, <2>2, <2>3, <2>4 DEF MainStep
<1>5. CASE UNCHANGED vars
  <2>1. UNCHANGED <<main, turn, ready, cancelled, expired, http, running, open, watcher, stopper, stopping,
                    reader, queue, closed, worker, backlog, acceptor, accepted, sem, wg, conn, at>>
    BY <1>5 DEF vars, mainVars, shutVars, udpVars, streamVars
  <2>2. BaseOK'
    BY <2>1 DEF BaseOK
  <2>3. LifeInv'
    BY <2>1 DEF LifeInv
  <2> QED BY <2>1, <2>2, <2>3, SameConns DEF streamVars
<1> QED BY <1>1, <1>2, <1>3, <1>4, <1>5 DEF Next

LEMMA Invariant == Spec => []Inv
<1>1. Init => Inv
  BY InitInv DEF Inv
<1> QED BY <1>1, NextKeepsInv, PTL DEF Spec

(* The servers' state keeps its type.  In particular the queue holds no    *)
(* more than its size, and the semaphore and the wait group of a stream    *)
(* server count exactly the connections whose goroutine holds a slot and   *)
(* those it still has to wait for: no slot is lost or freed twice.         *)
THEOREM TypeCorrect == Spec => []TypeOK
<1>1. Inv => TypeOK
  BY DEF Inv, BaseOK, CountInv, TypeOK
<1> QED BY <1>1, Invariant, PTL

(* Shutdown closes the queue of the UDP server only after readLoop is      *)
(* gone, whichever of main and the watcher runs it: no datagram is sent on *)
(* a closed channel.                                                       *)
THEOREM QueueClosesAfterReader == Spec => []NoSendOnClosedQueue
<1>1. Inv => NoSendOnClosedQueue
  BY DEF Inv, LifeInv, NoSendOnClosedQueue
<1> QED BY <1>1, Invariant, PTL

(* While the HTTP server answers and says ready, every DNS server listens: *)
(* main says so after the last Start and takes it back before the root     *)
(* context is cancelled, and a failure of the HTTP server, which cancels   *)
(* it as well, leaves nobody to ask.                                       *)
THEOREM ReadyServersListen == Spec => []ReadyMeansListening
<1>1. Inv => ReadyMeansListening
  BY DEF Inv, BaseOK, LifeInv, ReadyMeansListening
<1> QED BY <1>1, Invariant, PTL
=============================================================================
