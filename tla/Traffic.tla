------------------------------- MODULE Traffic ------------------------------
(***************************************************************************)
(* Bounced data connections: TrafficBncSessions, TrafficBncSession with    *)
(* its PasvListener, PasvConn and PortConn, the ListenPortManager they     *)
(* share, and what they see of the IOManager.                              *)
(*                                                                         *)
(* The worker handles one event at a time from the data queue (its order   *)
(* is module OrderedDelivery's), so a handler is one step, except for the  *)
(* loop of activate().  The IO thread accepts, connects, reads and drains: *)
(* it holds socketinfomaplock while it handles what polling.wait() gave    *)
(* it, and the worker waits for the lock.  What the control connections do *)
(* is the environment's: Activate and Disconnect are the two calls they    *)
(* make, at any moment.                                                    *)
(*                                                                         *)
(* A socket id that nothing remembers any more is used again here, where   *)
(* the code counts upwards: ids are only ever compared.                    *)
(***************************************************************************)
EXTENDS Integers, Sequences, FiniteSets

CONSTANTS
    Owners,         \* the BncSessionClients, one TrafficBncSessions each
    MaxSessions,    \* bound: sessions in the list of one owner
    Ports,          \* the passive port range
    MaxQueue,       \* bound: what the environment leaves waiting in the queue
    MaxBatch,       \* bound: events polling.wait() returns at one time
    SockIds,        \* bound: sockets known to somebody at one time
    NoSock,         \* -1
    NoPort,         \* listenport before the first listen()
    Sequential      \* TRUE: peers connect once, and nothing overtakes that

ASSUME NumbersAssumption ==
    /\ MaxSessions \in Nat \ {0}
    /\ MaxQueue \in Nat
    /\ MaxBatch \in Nat \ {0}
ASSUME NamesAssumption == NoSock \notin SockIds /\ NoPort \notin Ports
ASSUME SequentialAssumption == Sequential \in BOOLEAN

Sessions == Owners \X (1 .. MaxSessions)

VARIABLES
    made,           \* how many sessions an owner's list holds
    state,          \* TrafficBncSession::state
    listenport,     \* PasvListener::listenport
    pasvlistener, pasvconn, portconn,   \* sockid of the three
    availableports, unavailableports,
    socketinfomap,
    batch,          \* the poll events the IO thread has still to handle
    locked,         \* it has begun to handle them
    queue,          \* events dispatched to the three classes, and Login marks
    control,        \* whether an owner's control connections are up
    activating      \* the session the worker is in the activate() of, or none

ports == <<availableports, unavailableports>>
conns == <<pasvlistener, pasvconn, portconn>>
io    == <<batch, locked>>
vars  == <<made, state, listenport, conns, ports, socketinfomap, io, queue, control, activating>>

-----------------------------------------------------------------------------
(* Sockets.  `unsent' stands for a send queue that is not empty; then the  *)
(* socket is polled for OUT.  `twin' is the connection whose bytes this    *)
(* one is to carry: what the pairing in pasvConnected means.               *)

Types == {"UNUSED", "TCP_SERVER", "TCP_PLAIN_LISTEN", "TCP_CONNECTING", "TCP_PLAIN"}
Unused == [type |-> "UNUSED", port |-> NoPort, er |-> <<>>, polled |-> FALSE,
           unsent |-> FALSE, closing |-> FALSE, twin |-> NoSock]

Open == {x \in SockIds : socketinfomap[x].type # "UNUSED"}
Events == [type : {"NEW", "LISTENFAIL", "CONNECTED", "FAIL", "PASVDATA", "PORTDATA",
                   "PASVCLOSED", "PORTCLOSED"},
           to : Sessions, sock : SockIds \cup {NoSock}, new : SockIds \cup {NoSock}]
Login(o) == [type |-> "LOGIN", to |-> <<o, 1>>, sock |-> NoSock, new |-> NoSock]
Event(type, s, x) == [type |-> type, to |-> s, sock |-> x, new |-> NoSock]

Members == UNION {{pasvlistener[s], pasvconn[s], portconn[s]} : s \in Sessions}
Mentioned == UNION {{queue[i].sock, queue[i].new} : i \in DOMAIN queue}
Held == Members \cup Mentioned \cup {e[1] : e \in batch} \cup Open
Known == Held \cup {socketinfomap[x].twin : x \in Open}
Free == SockIds \ Known
Fresh == CHOOSE x \in Free : TRUE

\* closeSocket() of every socket in S: it stays while it has data to send.
CloseSockets(m, S) ==
    [x \in SockIds |-> IF x \notin S \/ m[x].type = "UNUSED" THEN m[x]
                       ELSE IF m[x].unsent THEN [m[x] EXCEPT !.closing = TRUE]
                       ELSE Unused]

\* closeSocketIntern()
Remove(m, x) == [m EXCEPT ![x] = Unused]

\* Ids that steps already begun will take: a NEW needs one for its PortConn,
\* activate() one for its listener.
News == {queue[i] : i \in {j \in DOMAIN queue : queue[j].type = "NEW"}}
Reserved == Cardinality(News) + IF activating = <<>> THEN 0 ELSE 1
Room(n) == Cardinality(Free) >= Reserved + n

Mine(o) == {s \in Sessions : s[1] = o /\ s[2] <= made[o]}
Awaiting == {s \in Sessions : state[s] = "AWAITING_PASV"}

TypeOK ==
    /\ made \in [Owners -> 0 .. MaxSessions]
    /\ state \in [Sessions -> {"INACTIVE", "AWAITING_PASV", "ACTIVE"}]
    /\ listenport \in [Sessions -> Ports \cup {NoPort}]
    /\ pasvlistener \in [Sessions -> SockIds \cup {NoSock}]
    /\ pasvconn \in [Sessions -> SockIds \cup {NoSock}]
    /\ portconn \in [Sessions -> SockIds \cup {NoSock}]
    /\ availableports \in SUBSET Ports /\ unavailableports \in SUBSET Ports
    /\ socketinfomap \in
         [SockIds -> [type : Types, port : Ports \cup {NoPort}, er : Sessions \cup {<<>>},
                      polled : BOOLEAN, unsent : BOOLEAN, closing : BOOLEAN,
                      twin : SockIds \cup {NoSock}]]
    /\ batch \in SUBSET (SockIds \X {"IN", "OUT"})
    /\ locked \in BOOLEAN
    /\ queue \in Seq(Events \cup {Login(o) : o \in Owners})
    /\ control \in [Owners -> {"up", "down"}]
    /\ activating \in Sessions \cup {<<>>}

Init ==
    /\ made = [o \in Owners |-> 0]
    /\ state = [s \in Sessions |-> "INACTIVE"]
    /\ listenport = [s \in Sessions |-> NoPort]
    /\ pasvlistener = [s \in Sessions |-> NoSock]
    /\ pasvconn = [s \in Sessions |-> NoSock]
    /\ portconn = [s \in Sessions |-> NoSock]
    /\ availableports = Ports /\ unavailableports = {}
    /\ socketinfomap = [x \in SockIds |-> Unused]
    /\ batch = {} /\ locked = FALSE
    /\ queue = <<>>
    /\ control = [o \in Owners |-> "up"]
    /\ activating = <<>>

-----------------------------------------------------------------------------
(* The worker: calls made for a control connection.                        *)

\* The worker is between two handlers, and can have the lock.
Idle == activating = <<>> /\ ~locked
Listens == activating # <<>> /\ ~locked

\* releasePort() of every port in P.
Release(P) ==
    /\ availableports' = availableports \cup (P \cap Ports)
    /\ unavailableports' = unavailableports \ P

\* What Sequential keeps apart: a connection accepted for o is not known yet.
Overtaken(o) == Sequential => \A e \in News : e.to[1] # o

\* Seeded fault: the ports of dropped listeners are not given back.
DropListeners_KeepPorts(S) ==
    /\ state' = [s \in Sessions |-> IF s \in S THEN "INACTIVE" ELSE state[s]]
    /\ pasvlistener' = [s \in Sessions |-> IF s \in S THEN NoSock ELSE pasvlistener[s]]
    /\ socketinfomap' = CloseSockets(socketinfomap, {pasvlistener[s] : s \in S})
    /\ UNCHANGED ports

\* dropListener() of the sessions in S, which are awaiting.
DropListeners(S) ==
    /\ state' = [s \in Sessions |-> IF s \in S THEN "INACTIVE" ELSE state[s]]
    /\ pasvlistener' = [s \in Sessions |-> IF s \in S THEN NoSock ELSE pasvlistener[s]]
    /\ socketinfomap' = CloseSockets(socketinfomap, {pasvlistener[s] : s \in S})
    /\ Release({listenport[s] : s \in S})

\* TrafficBncSessions::activate: every listener of the list is dropped; the
\* first session not active then, or else a new one, is activated.
Activate(o) ==
    /\ Idle /\ control[o] = "up" /\ Overtaken(o)
    /\ Room(1) /\ Len(queue) < MaxQueue
    /\ DropListeners(Mine(o) \cap Awaiting)
    /\ \E i \in 1 .. MaxSessions :
        /\ i > made[o] \/ state[<<o, i>>] # "ACTIVE"
        /\ \A k \in 1 .. i - 1 : k <= made[o] /\ state[<<o, k>>] = "ACTIVE"
        /\ made' = [made EXCEPT ![o] = IF i > @ THEN i ELSE @]
        /\ activating' = <<o, i>>
    /\ UNCHANGED <<listenport, pasvconn, portconn, queue, control, io>>

\* bind() and listen() cannot succeed on a port another socket listens on.
Bound(p) == \E x \in SockIds \ {pasvlistener[activating]} :
                socketinfomap[x].type = "TCP_SERVER" /\ socketinfomap[x].port = p

\* The loop of TrafficBncSession::activate: acquirePort(), then
\* PasvListener::listen(), which begins with disconnect().
ListenFails ==
    /\ Listens
    /\ \E p \in availableports :
        /\ availableports' = availableports \ {p}
        /\ unavailableports' = unavailableports \cup {p}
        /\ listenport' = [listenport EXCEPT ![activating] = p]
    /\ socketinfomap' = CloseSockets(socketinfomap, {pasvlistener[activating]})
    /\ pasvlistener' = [pasvlistener EXCEPT ![activating] = NoSock]
    /\ queue' = Append(queue, Event("LISTENFAIL", activating, NoSock))
    /\ UNCHANGED <<made, state, pasvconn, portconn, control, activating, io>>

Listening ==
    /\ Listens /\ Free # {}
    /\ \E p \in availableports :
        /\ ~Bound(p)
        /\ availableports' = availableports \ {p}
        /\ listenport' = [listenport EXCEPT ![activating] = p]
        /\ socketinfomap' =
             [CloseSockets(socketinfomap, {pasvlistener[activating]}) EXCEPT ![Fresh] =
                [Unused EXCEPT !.type = "TCP_SERVER", !.port = p, !.er = activating,
                               !.polled = TRUE]]
    /\ pasvlistener' = [pasvlistener EXCEPT ![activating] = Fresh]
    /\ state' = [state EXCEPT ![activating] = "AWAITING_PASV"]
    /\ activating' = <<>>
    /\ UNCHANGED <<made, pasvconn, portconn, unavailableports, queue, control, io>>

\* No port left: -1.
Exhausted ==
    /\ Listens /\ availableports = {}
    /\ activating' = <<>>
    /\ UNCHANGED <<made, state, listenport, conns, ports, socketinfomap, queue, control, io>>

\* Seeded fault: ports are released whether or not they are still held.
Disconnect_ReleaseAlways(o) ==
    /\ Idle /\ control[o] = "up" /\ Overtaken(o) /\ Len(queue) < MaxQueue
    /\ socketinfomap' = CloseSockets(socketinfomap,
         UNION {{pasvconn[s], portconn[s], pasvlistener[s]} : s \in Mine(o)})
    /\ pasvconn' = [s \in Sessions |-> IF s \in Mine(o) THEN NoSock ELSE pasvconn[s]]
    /\ portconn' = [s \in Sessions |-> IF s \in Mine(o) THEN NoSock ELSE portconn[s]]
    /\ pasvlistener' = [s \in Sessions |-> IF s \in Mine(o) THEN NoSock ELSE pasvlistener[s]]
    /\ Release({listenport[s] : s \in Mine(o)})
    /\ state' = [s \in Sessions |-> IF s \in Mine(o) THEN "INACTIVE" ELSE state[s]]
    /\ control' = [control EXCEPT ![o] = "down"]
    /\ queue' = Append(queue, Login(o))
    /\ UNCHANGED <<made, listenport, activating, io>>

\* TrafficBncSessions::disconnect, when either control connection ends.  The
\* next one can only be ready behind what is in the queue now.
Disconnect(o) ==
    /\ Idle /\ control[o] = "up" /\ Overtaken(o) /\ Len(queue) < MaxQueue
    /\ socketinfomap' = CloseSockets(socketinfomap,
         UNION {{pasvconn[s], portconn[s], pasvlistener[s]} : s \in Mine(o)})
    /\ pasvconn' = [s \in Sessions |-> IF s \in Mine(o) THEN NoSock ELSE pasvconn[s]]
    /\ portconn' = [s \in Sessions |-> IF s \in Mine(o) THEN NoSock ELSE portconn[s]]
    /\ pasvlistener' = [s \in Sessions |-> IF s \in Mine(o) THEN NoSock ELSE pasvlistener[s]]
    /\ Release({listenport[s] : s \in Mine(o) \cap Awaiting})
    /\ state' = [s \in Sessions |-> IF s \in Mine(o) THEN "INACTIVE" ELSE state[s]]
    /\ control' = [control EXCEPT ![o] = "down"]
    /\ queue' = Append(queue, Login(o))
    /\ UNCHANGED <<made, listenport, activating, io>>

\* ListenPortManager::tick: the hour of an unavailable port is over.
Expire(p) ==
    /\ Idle /\ p \in unavailableports
    /\ Release({p})
    /\ UNCHANGED <<made, state, listenport, conns, socketinfomap, queue, control, activating, io>>

-----------------------------------------------------------------------------
(* The IO thread.                                                          *)

Connected(x) == socketinfomap[x].type \in {"TCP_PLAIN_LISTEN", "TCP_PLAIN"}
Polled == {x \in Open : socketinfomap[x].polled}

\* Seeded fault: polled for both directions at once.
Direction_Both(x) == "INOUT"

\* A socket is polled for one direction at a time.
Direction(x) ==
    IF socketinfomap[x].type = "TCP_CONNECTING" \/ socketinfomap[x].unsent THEN "OUT" ELSE "IN"

\* polling.wait(), while the worker goes on.
PollWait ==
    /\ batch = {}
    /\ \E S \in SUBSET Polled :
        /\ Cardinality(S) \in 1 .. MaxBatch /\ Len(queue) + Cardinality(S) <= MaxQueue
        /\ batch' = {<<x, Direction(x)>> : x \in S}
    /\ UNCHANGED <<made, state, listenport, conns, ports, socketinfomap, locked, queue, control,
                   activating>>

\* The event of x in the batch is handled, under the lock.
Take(x, dir) ==
    /\ <<x, dir>> \in batch
    /\ batch' = batch \ {<<x, dir>>}
    /\ locked' = (batch' # {})
    /\ UNCHANGED <<made, state, listenport, conns, ports, control, activating>>

Push(e) == queue' = Append(queue, e)
PushUnless(closing, e) == IF closing THEN UNCHANGED queue ELSE Push(e)

\* The socket is gone, or accept(), read(), write() finds nothing to do.
Nothing(x, dir) ==
    /\ Take(x, dir)
    /\ socketinfomap[x].type # "TCP_CONNECTING"
    /\ UNCHANGED <<socketinfomap, queue>>

\* handleTCPServerIn: the new socket has no receiver and is not polled.
Accept(x) ==
    /\ Take(x, "IN")
    /\ socketinfomap[x].type = "TCP_SERVER"
    /\ Sequential => \A e \in News : e.sock # x
    /\ Room(2)
    /\ socketinfomap' = [socketinfomap EXCEPT ![Fresh] = [Unused EXCEPT !.type = "TCP_PLAIN_LISTEN"]]
    /\ Push([type |-> "NEW", to |-> socketinfomap[x].er, sock |-> x, new |-> Fresh])

\* handleTCPConnectingOut: no error.
Connect(x) ==
    /\ Take(x, "OUT")
    /\ socketinfomap[x].type = "TCP_CONNECTING"
    /\ socketinfomap' = [socketinfomap EXCEPT ![x].type = "TCP_PLAIN"]
    /\ PushUnless(socketinfomap[x].closing, Event("CONNECTED", socketinfomap[x].er, x))

\* The connection is refused, or fails otherwise.
Fail(x) ==
    /\ socketinfomap[x].type = "TCP_CONNECTING"
    /\ socketinfomap' = Remove(socketinfomap, x)
    /\ PushUnless(socketinfomap[x].closing, Event("FAIL", socketinfomap[x].er, x))

ConnectFails(x) == Take(x, "OUT") /\ Fail(x)

\* IOManager::tick, which the worker runs: five seconds are over.
ConnectTimeout(x) ==
    /\ Idle /\ Len(queue) < MaxQueue
    /\ Fail(x)
    /\ UNCHANGED <<made, state, listenport, conns, ports, io, control, activating>>

\* The event for whichever of the two classes has the socket.
Notice(x, pasv, port) ==
    Event(IF socketinfomap[x].type = "TCP_PLAIN" THEN port ELSE pasv, socketinfomap[x].er, x)
Data(x) == Notice(x, "PASVDATA", "PORTDATA")
Closed(x) == Notice(x, "PASVCLOSED", "PORTCLOSED")

\* handleTCPPlainIn (bound: one block of a socket waits in the queue).  The
\* socket may have been told to close since polling.wait().
ReadData(x) ==
    /\ Take(x, "IN")
    /\ Connected(x)
    /\ \A i \in DOMAIN queue : queue[i] # Data(x)
    /\ UNCHANGED socketinfomap
    /\ Push(Data(x))

ReadEnd(x) ==
    /\ Take(x, "IN")
    /\ Connected(x)
    /\ socketinfomap' = Remove(socketinfomap, x)
    /\ Push(Closed(x))

\* handleTCPPlainOut, the send queue emptied.
Drain(x) ==
    /\ Take(x, "OUT")
    /\ Connected(x)
    /\ socketinfomap' = IF socketinfomap[x].closing THEN Remove(socketinfomap, x)
                        ELSE [socketinfomap EXCEPT ![x].unsent = FALSE]
    /\ UNCHANGED queue

\* handleTCPPlainOut, write() failed.
WriteFails(x) ==
    /\ Take(x, "OUT")
    /\ Connected(x)
    /\ socketinfomap' = Remove(socketinfomap, x)
    /\ PushUnless(socketinfomap[x].closing, Closed(x))

-----------------------------------------------------------------------------
(* The worker: event handlers.                                             *)

At(type) == Idle /\ queue # <<>> /\ Head(queue).type = type
Receiver == Head(queue).to
Handled == queue' = Tail(queue)

\* PasvListener::FDNew, pasvConnected, and disconnect() of the listener.
\* Neither the session's state nor the listener the event came from is
\* looked at.  Connecting may fail at once, with a FAIL.
HandleNew ==
    /\ At("NEW") /\ Free # {}
    /\ LET s == Receiver
           p == Head(queue).new
           closed == CloseSockets(socketinfomap, {pasvlistener[s]})
           paired == [closed EXCEPT ![p] = [@ EXCEPT !.er = s, !.twin = Fresh]]
       IN
       /\ state' = [state EXCEPT ![s] = "ACTIVE"]
       /\ pasvconn' = [pasvconn EXCEPT ![s] = p]
       /\ portconn' = [portconn EXCEPT ![s] = Fresh]
       /\ Release({listenport[s]})
       /\ pasvlistener' = [pasvlistener EXCEPT ![s] = NoSock]
       /\ \/ /\ socketinfomap' = [paired EXCEPT ![Fresh] =
                  [Unused EXCEPT !.type = "TCP_CONNECTING", !.er = s, !.polled = TRUE, !.twin = p]]
             /\ Handled
          \/ /\ socketinfomap' = paired
             /\ queue' = Append(Tail(queue), Event("FAIL", s, Fresh))
    /\ UNCHANGED <<made, listenport, control, activating, io>>

\* PasvListener::FDFail assigns to its parameter.
HandleListenFail ==
    /\ At("LISTENFAIL")
    /\ Handled
    /\ UNCHANGED <<made, state, listenport, conns, ports, socketinfomap, control, activating, io>>

\* portConnected: resume(pasvconn).
HandleConnected ==
    /\ At("CONNECTED")
    /\ LET p == pasvconn[Receiver]
       IN  socketinfomap' = IF p \in Open THEN [socketinfomap EXCEPT ![p].polled = TRUE]
                                          ELSE socketinfomap
    /\ Handled
    /\ UNCHANGED <<made, state, listenport, conns, ports, control, activating, io>>

\* PortConn::FDFail, portConnectFailure: portconn keeps its socket id.
HandleFail ==
    /\ At("FAIL")
    /\ socketinfomap' = CloseSockets(socketinfomap, {pasvconn[Receiver]})
    /\ pasvconn' = [pasvconn EXCEPT ![Receiver] = NoSock]
    /\ state' = [state EXCEPT ![Receiver] = "INACTIVE"]
    /\ Handled
    /\ UNCHANGED <<made, listenport, pasvlistener, portconn, ports, control, activating, io>>

\* sendData() on y, with its setPollWrite: nothing when there is no such socket.
Send(y) ==
    socketinfomap' =
        IF y \in Open THEN [socketinfomap EXCEPT ![y].unsent = TRUE, ![y].polled = TRUE]
                      ELSE socketinfomap

\* Whatever socket the data came from.
Destination == IF Head(queue).type = "PASVDATA" THEN portconn[Receiver] ELSE pasvconn[Receiver]

HandleData ==
    /\ At("PASVDATA") \/ At("PORTDATA")
    /\ Send(Destination)
    /\ Handled
    /\ UNCHANGED <<made, state, listenport, conns, ports, control, activating, io>>

Finished(s) == state' = [state EXCEPT ![s] = "INACTIVE"]

\* Seeded fault: the session object's other connection stays open.
HandlePasvClosed_KeepPort ==
    /\ At("PASVCLOSED")
    /\ IF pasvconn[Receiver] = Head(queue).sock THEN Finished(Receiver) ELSE UNCHANGED state
    /\ Handled
    /\ UNCHANGED <<made, listenport, conns, socketinfomap, ports, control, activating, io>>

\* PasvConn::FDDisconnected (which resets its parameter), pasvConnClosed.
HandlePasvClosed ==
    /\ At("PASVCLOSED")
    /\ IF pasvconn[Receiver] = Head(queue).sock
         THEN /\ socketinfomap' = CloseSockets(socketinfomap, {portconn[Receiver]})
              /\ portconn' = [portconn EXCEPT ![Receiver] = NoSock]
              /\ Finished(Receiver)
         ELSE UNCHANGED <<socketinfomap, portconn, state>>
    /\ Handled
    /\ UNCHANGED <<made, listenport, pasvlistener, pasvconn, ports, control, activating, io>>

\* Seeded fault: the session object's other connection stays open.
HandlePortClosed_KeepPasv ==
    /\ At("PORTCLOSED")
    /\ IF portconn[Receiver] = Head(queue).sock
         THEN portconn' = [portconn EXCEPT ![Receiver] = NoSock] /\ Finished(Receiver)
         ELSE UNCHANGED <<portconn, state>>
    /\ Handled
    /\ UNCHANGED <<made, listenport, pasvlistener, pasvconn, socketinfomap, ports, control,
                   activating, io>>

\* PortConn::FDDisconnected, portConnClosed.
HandlePortClosed ==
    /\ At("PORTCLOSED")
    /\ IF portconn[Receiver] = Head(queue).sock
         THEN /\ socketinfomap' = CloseSockets(socketinfomap, {pasvconn[Receiver]})
              /\ portconn' = [portconn EXCEPT ![Receiver] = NoSock]
              /\ pasvconn' = [pasvconn EXCEPT ![Receiver] = NoSock]
              /\ Finished(Receiver)
         ELSE UNCHANGED <<socketinfomap, portconn, pasvconn, state>>
    /\ Handled
    /\ UNCHANGED <<made, listenport, pasvlistener, ports, control, activating, io>>

\* The owner's next pair of control connections is ready.
HandleLogin ==
    /\ At("LOGIN")
    /\ control' = [control EXCEPT ![Receiver[1]] = "up"]
    /\ Handled
    /\ UNCHANGED <<made, state, listenport, conns, ports, socketinfomap, activating, io>>

-----------------------------------------------------------------------------
Handle ==
    \/ HandleNew \/ HandleListenFail \/ HandleConnected \/ HandleFail \/ HandleData
    \/ HandlePasvClosed \/ HandlePortClosed \/ HandleLogin

IOStep(x) ==
    \/ Accept(x) \/ Connect(x) \/ ConnectFails(x)
    \/ ReadData(x) \/ ReadEnd(x) \/ Drain(x) \/ WriteFails(x)
    \/ \E dir \in {"IN", "OUT"} : Nothing(x, dir)

Next ==
    \/ \E o \in Owners : Activate(o) \/ Disconnect(o)
    \/ ListenFails \/ Listening \/ Exhausted
    \/ \E p \in Ports : Expire(p)
    \/ PollWait
    \/ \E x \in SockIds : IOStep(x) \/ ConnectTimeout(x)
    \/ Handle

Spec == Init /\ [][Next]_vars

-----------------------------------------------------------------------------
(* A port that cannot be acquired is in use by exactly one session that    *)
(* awaits a connection on it, with its listener open, or else waits for    *)
(* its hour: acquirePort, releasePort and markPortUnavailable are called   *)
(* in pairs however a transfer ends.                                       *)
NoPortLeak ==
    \A p \in Ports \ (availableports \cup unavailableports) :
        \E s \in Awaiting : listenport[s] = p
PortsHeld ==
    \A s \in Awaiting :
        /\ listenport[s] \notin availableports \cup unavailableports
        /\ socketinfomap[pasvlistener[s]].type = "TCP_SERVER"
        /\ \A t \in Awaiting : listenport[t] = listenport[s] => t = s

(* Somebody will close every socket: it is closing already, or the NEW     *)
(* that announces it waits in the queue, or a session that is not inactive *)
(* has it for its listener or one of its two connections.                  *)
SocketsHeld ==
    \A x \in Open :
        \/ socketinfomap[x].closing
        \/ \E e \in News : e.new = x
        \/ \E s \in Awaiting : pasvlistener[s] = x
        \/ \E s \in Sessions : state[s] = "ACTIVE" /\ x \in {pasvconn[s], portconn[s]}

(* What one connection sends reaches only the connection it was paired     *)
(* with: FDData does not look at the socket id, so an event left in the    *)
(* queue by an earlier transfer must find no later one.                    *)
NoCrossTalk ==
    queue # <<>> /\ Head(queue).type \in {"PASVDATA", "PORTDATA"} /\ Destination \in Open
        => socketinfomap[Destination].twin = Head(queue).sock

(* A session that awaits a connection becomes active with a connection its *)
(* own listener accepted, not with one left from a listener dropped for a  *)
(* newer PASV: that closes the newer listener, and the transfer the client *)
(* then asks for stalls.  FDNew does not look (pasvlistener.cpp:31), so    *)
(* this is false without Sequential, which supposes what it says.          *)
OwnConnection ==
    [][\A s \in Awaiting : state'[s] = "ACTIVE" => Head(queue).sock = pasvlistener[s]]_vars
=============================================================================
