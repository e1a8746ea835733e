--------------------------- MODULE SocketLifecycle --------------------------
(***************************************************************************)
(* One TCP socket of Core::IOManager from its registration to its end:     *)
(* resolving, connecting, reading and writing in the clear, the steps of a *)
(* TLS handshake, reading and writing under TLS, and closing.              *)
(*                                                                         *)
(* Three threads: the worker (calls of the receiver, tick(),               *)
(* asyncTaskComplete()), the IO thread, and the resolver.  The IO thread   *)
(* holds socketinfomaplock but in polling.wait(); what epoll_wait returned *)
(* may be out of date when it gets the lock back.                          *)
(*                                                                         *)
(* The socket listens immediately (every caller but PasvConn) and is not   *)
(* paused: Relay and WorkManager have the pauses.  The two roles in a      *)
(* handshake differ only in the call of OpenSSL and are one here.          *)
(***************************************************************************)
EXTENDS Integers, Sequences

CONSTANTS
    Timeout,        \* CONNECT_TIMEOUT_MS / TICKPERIOD
    MaxSend,        \* bound: blocks the receiver sends
    MaxData         \* bound: blocks the peer sends

ASSUME TimeoutAssumption == Timeout \in Nat \ {0}
ASSUME BoundsAssumption == MaxSend \in Nat /\ MaxData \in Nat

VARIABLES
    type,       \* SocketInfo::type; "erased" when not in socketinfomap any more
    closing,    \* SocketInfo::closing
    sendqueue,  \* SocketInfo::sendqueue: for each block how far TLS was, see Link
    epoll,      \* what the descriptor is registered for
    connecttime,\* its entry of connecttimemap
    resolver,   \* the asynchronous task: answers wait in the worker's queue
    iopc, ready,\* IOManager::run
    slip,       \* ghost: what went wrong when a handshake began, see Slips
    wanted,     \* ghost: the receiver has not called closeSocket()
    told,       \* ghost: the events dispatched
    wire,       \* ghost: what was written, and how
    sent, got   \* blocks sent by the receiver, by the peer

sock   == <<type, closing, sendqueue, epoll, connecttime>>
io     == <<iopc, ready>>
counts == <<sent, got>>
vars   == <<sock, resolver, io, slip, wanted, told, wire, counts>>

Off == -1       \* no entry in connecttimemap
None == "none"

Blocks   == {"open", "asked", "secret"}
EventNames == {"CONNECTING", "CONNECTED", "DATA", "SENDCOMPLETE", "SSL_SUCCESS", "DISCONNECTED", "FAIL"}
Reports  == [event : EventNames, named : BOOLEAN]
Writings == [data : Blocks \cup {"hello"}, tls : BOOLEAN]

\* What the receiver had sent was written in part only; the SocketInfo was used
\* after it was erased, in silence or with a DISCONNECTED from what is left of it.
Slips == {"none", "cut", "erased", "stray"}

TypeOK ==
    /\ type \in {"unused", "resolving", "connecting", "plain", "negotiate", "redo", "ssl", "erased"}
    /\ closing \in BOOLEAN
    /\ sendqueue \in Seq(Blocks)
    /\ epoll \in {None, "IN", "OUT"}
    /\ connecttime \in {Off} \cup 0 .. Timeout - 1
    /\ resolver \in {None, "running", "found", "failed"}
    /\ iopc \in {"wait", "lock", "negotiate", "read"}
    /\ ready \in {"IN", "OUT"}
    /\ slip \in Slips /\ wanted \in BOOLEAN
    /\ told \in Seq(Reports)
    /\ wire \in Seq(Writings)
    /\ sent \in 0 .. MaxSend /\ got \in 0 .. MaxData

Init ==
    /\ type = "unused" /\ closing = FALSE /\ sendqueue = <<>>
    /\ epoll = None /\ connecttime = Off /\ resolver = None
    /\ iopc = "wait" /\ ready = "IN"
    /\ slip = "none" /\ wanted = TRUE
    /\ told = <<>> /\ wire = <<>>
    /\ sent = 0 /\ got = 0

Registered == type \notin {"unused", "erased"}
Connected == type \in {"plain", "negotiate", "redo", "ssl"}
LockFree == iopc \in {"wait", "lock"}

Event(e) == [event |-> e, named |-> TRUE]
Nameless(e) == [event |-> e, named |-> FALSE]      \* its sockid is -1
Tell(e) == told' = Append(told, Event(e))
TellUnlessClosing(e) == IF closing THEN UNCHANGED told ELSE Tell(e)

\* setPollRead(), setPollWrite(): EPOLL_CTL_MOD, which needs a registration
SetPoll(dir) == epoll' = IF epoll = None THEN None ELSE dir

\* closeSocketIntern()
CloseIntern ==
    /\ type' = "erased" /\ sendqueue' = <<>>
    /\ epoll' = None /\ connecttime' = Off
    /\ UNCHANGED closing

-----------------------------------------------------------------------------
(* The worker: registering a socket, and the resolver's answer.            *)

\* handleTCPNameResolution(): the name cannot be resolved; its id is not told.
ResolveFails ==
    /\ IF closing THEN UNCHANGED told ELSE told' = Append(told, Nameless("FAIL"))
    /\ CloseIntern

\* socket(), getAddressToBind(), bind() or connect() fails: told even when closing.
Refused == Tell("FAIL") /\ CloseIntern

\* Seeded fault: connecttimemap has no entry while the socket connects.
Connects_NoTimer(async) ==
    /\ type' = "connecting" /\ connecttime' = Off /\ epoll' = "OUT"
    /\ IF async THEN TellUnlessClosing("CONNECTING") ELSE UNCHANGED told
    /\ UNCHANGED <<closing, sendqueue>>

\* connect() is in progress.
Connects(async) ==
    /\ type' = "connecting" /\ connecttime' = 0 /\ epoll' = "OUT"
    /\ IF async THEN TellUnlessClosing("CONNECTING") ELSE UNCHANGED told
    /\ UNCHANGED <<closing, sendqueue>>

\* registerTCPClientSocket() with an address: resolveHost(false) succeeds or fails.
RegisterNumeric ==
    /\ type = "unused" /\ LockFree
    /\ ResolveFails \/ Refused \/ Connects(FALSE)
    /\ UNCHANGED <<resolver, io, slip, wanted, wire, counts>>

\* registerTCPClientSocket() with a name: the task goes to an async worker.
RegisterName ==
    /\ type = "unused" /\ LockFree
    /\ type' = "resolving" /\ connecttime' = 0 /\ resolver' = "running"
    /\ UNCHANGED <<closing, sendqueue, epoll, io, slip, wanted, told, wire, counts>>

\* handleTCPServerIn(), then registerTCPServerClientSocket() in the handler of FDNew
Accept ==
    /\ type = "unused" /\ LockFree
    /\ type' = "plain" /\ epoll' = "IN"
    /\ UNCHANGED <<closing, sendqueue, connecttime, resolver, io, slip, wanted, told, wire, counts>>

\* resolveHost(true) on the async worker: the answer is kept in the SocketInfo,
\* if there still is one, and ASYNC_COMPLETE is dispatched.
ResolverAnswers ==
    /\ resolver = "running" /\ LockFree
    /\ resolver' \in {"found", "failed"}
    /\ UNCHANGED <<sock, io, slip, wanted, told, wire, counts>>

\* Seeded fault: the socket's being gone is not noticed.
AsyncComplete_NoLookup ==
    /\ resolver \in {"found", "failed"} /\ LockFree
    /\ \/ resolver = "failed" /\ ResolveFails
       \/ resolver = "found" /\ (Refused \/ Connects(TRUE))
    /\ resolver' = None
    /\ UNCHANGED <<io, slip, wanted, wire, counts>>

\* asyncTaskComplete()
AsyncComplete ==
    /\ resolver \in {"found", "failed"} /\ LockFree
    /\ \/ type = "erased" /\ UNCHANGED <<sock, told>>
       \/ type # "erased" /\ resolver = "failed" /\ ResolveFails
       \/ type # "erased" /\ resolver = "found" /\ (Refused \/ Connects(TRUE))
    /\ resolver' = None
    /\ UNCHANGED <<io, slip, wanted, wire, counts>>

\* tick(): 50 ms more
Tick ==
    /\ connecttime # Off /\ LockFree
    /\ IF connecttime + 1 < Timeout
       THEN /\ connecttime' = connecttime + 1
            /\ UNCHANGED <<type, closing, sendqueue, epoll, told>>
       ELSE TellUnlessClosing("FAIL") /\ CloseIntern
    /\ UNCHANGED <<resolver, io, slip, wanted, wire, counts>>

-----------------------------------------------------------------------------
(* The worker: what a receiver calls.                                      *)

\* How far TLS is when the receiver sends: not asked for, asked for but not begun,
\* begun.  Receivers send in all three: BncSession::FDData() forwards what the client
\* sends whatever the state of the handshake with the server.
Link == CASE type \in {"redo", "ssl"} -> "secret"
          [] type = "negotiate" -> "asked"
          [] OTHER -> "open"

\* sendData()
SendData ==
    /\ Registered /\ wanted /\ LockFree /\ sent < MaxSend
    /\ sendqueue' = Append(sendqueue, Link) /\ sent' = sent + 1
    /\ IF type \in {"plain", "ssl"} THEN SetPoll("OUT") ELSE UNCHANGED epoll
    /\ UNCHANGED <<type, closing, connecttime, resolver, io, slip, wanted, told, wire, got>>

\* closeSocket(): at once, or when the send queue is empty
CloseSocket ==
    /\ Registered /\ wanted /\ LockFree
    /\ wanted' = FALSE
    /\ IF sendqueue = <<>> THEN CloseIntern
       ELSE closing' = TRUE /\ UNCHANGED <<type, sendqueue, epoll, connecttime>>
    /\ UNCHANGED <<resolver, io, slip, told, wire, counts>>

\* negotiateSSLConnect(), negotiateSSLAccept()
Negotiate ==
    /\ type = "plain" /\ wanted /\ LockFree
    /\ type' = "negotiate" /\ SetPoll("OUT")
    /\ UNCHANGED <<closing, sendqueue, connecttime, resolver, io, slip, wanted, told, wire, counts>>

-----------------------------------------------------------------------------
(* The IO thread.                                                          *)

Back == iopc' = "wait" /\ UNCHANGED ready

\* polling.wait() returns: the socket is ready for what it is polled for.
PollWait ==
    /\ iopc = "wait" /\ epoll # None
    /\ iopc' = "lock" /\ ready' = epoll
    /\ UNCHANGED <<sock, resolver, slip, wanted, told, wire, counts>>

\* The events run() has a handler for, by the type of the socket
Expected == CASE type \in {"connecting", "negotiate"} -> {"OUT"}
              [] type = "redo" -> {"IN"}
              [] type \in {"plain", "ssl"} -> {"IN", "OUT"}
              [] OTHER -> {}

\* The socket is gone, or was turned round in between: nothing is done.
OutOfDate ==
    /\ iopc = "lock" /\ ready \notin Expected
    /\ Back
    /\ UNCHANGED <<sock, resolver, slip, wanted, told, wire, counts>>

\* DISCONNECTED is dispatched, on a failed write only unless the socket is closing.
ReadEnds  == Tell("DISCONNECTED") /\ CloseIntern
WriteEnds == TellUnlessClosing("DISCONNECTED") /\ CloseIntern

\* Seeded fault: the direction stays OUT.
ConnectingOut_NoPollRead ==
    /\ iopc = "lock" /\ type = "connecting" /\ ready = "OUT"
    /\ \/ TellUnlessClosing("FAIL") /\ CloseIntern
       \/ /\ TellUnlessClosing("CONNECTED")
          /\ type' = "plain" /\ connecttime' = Off
          /\ UNCHANGED <<closing, sendqueue, epoll>>
    /\ Back
    /\ UNCHANGED <<resolver, slip, wanted, wire, counts>>

\* handleTCPConnectingOut(): failed, or connected.  A socket that is closing has
\* something to send.
ConnectingOut ==
    /\ iopc = "lock" /\ type = "connecting" /\ ready = "OUT"
    /\ \/ TellUnlessClosing("FAIL") /\ CloseIntern
       \/ /\ TellUnlessClosing("CONNECTED")
          /\ type' = "plain" /\ connecttime' = Off
          /\ IF sendqueue = <<>> THEN SetPoll("IN") ELSE UNCHANGED epoll
          /\ UNCHANGED <<closing, sendqueue>>
    /\ Back
    /\ UNCHANGED <<resolver, slip, wanted, wire, counts>>

Receive == got < MaxData /\ got' = got + 1 /\ Tell("DATA") /\ UNCHANGED sock

\* handleTCPPlainIn(): data, the end, or nothing (EAGAIN)
PlainIn ==
    /\ iopc = "lock" /\ type = "plain" /\ ready = "IN"
    /\ \/ Receive
       \/ ReadEnds /\ UNCHANGED got
       \/ UNCHANGED <<sock, told, got>>
    /\ Back
    /\ UNCHANGED <<resolver, slip, wanted, wire, sent>>

\* handleTCPSSLIn(): SSL_read() until there is nothing left, or the end
SslIn ==
    /\ \/ iopc = "lock" /\ type = "ssl" /\ ready = "IN"
       \/ iopc = "read"
    /\ \/ Receive /\ iopc' = "read" /\ UNCHANGED ready
       \/ ReadEnds /\ Back /\ UNCHANGED got
       \/ Back /\ UNCHANGED <<sock, told, got>>
    /\ UNCHANGED <<resolver, slip, wanted, wire, sent>>

\* The first n blocks of the send queue are on the wire.
Written(n, tls) == wire' = wire \o [i \in 1 .. n |-> [data |-> sendqueue[i], tls |-> tls]]
Rest(n) == SubSeq(sendqueue, n + 1, Len(sendqueue))

\* Seeded fault: a socket told to close stays when its last block is written.
WritesAll_KeepOpen(dir) ==
    /\ sendqueue' = <<>> /\ SetPoll(dir)
    /\ IF closing THEN UNCHANGED told ELSE Tell("SENDCOMPLETE")
    /\ UNCHANGED <<type, closing, connecttime>>

\* The whole queue is written: the socket closes, or is told FDSendComplete.
WritesAll(dir) ==
    IF closing THEN CloseIntern /\ UNCHANGED told
    ELSE /\ sendqueue' = <<>> /\ SetPoll(dir)
         /\ Tell("SENDCOMPLETE")
         /\ UNCHANGED <<type, closing, connecttime>>

\* handleTCPPlainOut(), handleTCPSSLOut(): all is written, or the peer takes no
\* more for now, or the link is broken.
Writes(tls, dir) ==
    \/ Written(Len(sendqueue), tls) /\ WritesAll(dir)
    \/ \E n \in 0 .. Len(sendqueue) - 1 :
          /\ Written(n, tls)
          /\ \/ /\ sendqueue' = Rest(n)
                /\ UNCHANGED <<type, closing, epoll, connecttime, told>>
             \/ WriteEnds

Out ==
    /\ iopc = "lock" /\ type \in {"plain", "ssl"} /\ ready = "OUT"
    /\ Writes(type = "ssl", "IN")
    /\ Back
    /\ UNCHANGED <<resolver, slip, wanted, counts>>

\* handleTCPSSLNegotiationOut(), first part: what is still to be sent goes in the
\* clear (handleTCPPlainOut(socketinfo, false)).
FlushClear ==
    /\ iopc = "lock" /\ type = "negotiate" /\ ready = "OUT" /\ sendqueue # <<>>
    /\ Writes(FALSE, "OUT")
    /\ slip' = IF type' = "negotiate" /\ sendqueue' # <<>> THEN "cut" ELSE slip
    /\ iopc' = "negotiate"
    /\ UNCHANGED <<ready, resolver, wanted, counts>>

\* Seeded fault: what waits to be sent does not go first.
StartsHandshake_NoFlush == iopc = "lock" /\ type = "negotiate" /\ ready = "OUT"

StartsHandshake ==
    \/ iopc = "negotiate"
    \/ iopc = "lock" /\ type = "negotiate" /\ ready = "OUT" /\ sendqueue = <<>>

\* SSL_connect() or SSL_accept() has succeeded.
Secured(dir) ==
    /\ type' = "ssl" /\ TellUnlessClosing("SSL_SUCCESS")
    /\ SetPoll(dir)
    /\ UNCHANGED <<closing, sendqueue, connecttime>>

\* Seeded fault: the direction is left as it is after the first step.
Handshake_StaysOut ==
    /\ StartsHandshake /\ type = "negotiate"
    /\ wire' = Append(wire, [data |-> "hello", tls |-> FALSE])
    /\ \/ Secured(IF sendqueue = <<>> THEN "IN" ELSE "OUT")
       \/ /\ type' = "redo"
          /\ UNCHANGED <<closing, sendqueue, epoll, connecttime, told>>
       \/ WriteEnds
    /\ Back
    /\ UNCHANGED <<resolver, slip, wanted, counts>>

\* handleTCPSSLNegotiationOut(), second part: the first step of the handshake
Handshake ==
    /\ StartsHandshake /\ type = "negotiate"
    /\ wire' = Append(wire, [data |-> "hello", tls |-> FALSE])
    /\ \/ Secured(IF sendqueue = <<>> THEN "IN" ELSE "OUT")
       \/ /\ type' = "redo" /\ SetPoll("IN")
          /\ UNCHANGED <<closing, sendqueue, connecttime, told>>
       \/ WriteEnds
    /\ Back
    /\ UNCHANGED <<resolver, slip, wanted, counts>>

\* The same when the first part has erased the SocketInfo: SSL_connect() on a
\* closed descriptor fails, and whatever is left of the socket's memory decides
\* whether DISCONNECTED is dispatched.  `told' has the events of live sockets.
HandshakeErased ==
    /\ iopc = "negotiate" /\ type = "erased"
    /\ slip' \in {"erased", "stray"}
    /\ Back
    /\ UNCHANGED <<sock, resolver, wanted, told, wire, counts>>

\* handleTCPSSLNegotiationIn(): a later step of the handshake
NegotiationIn ==
    /\ iopc = "lock" /\ type = "redo" /\ ready = "IN"
    /\ \/ Secured(IF sendqueue = <<>> THEN "IN" ELSE "OUT")
       \/ UNCHANGED <<sock, told>>
       \/ WriteEnds
    /\ Back
    /\ UNCHANGED <<resolver, slip, wanted, wire, counts>>

-----------------------------------------------------------------------------
Receiver == RegisterNumeric \/ RegisterName \/ Accept \/ SendData \/ CloseSocket \/ Negotiate
Handle == OutOfDate \/ ConnectingOut \/ PlainIn \/ SslIn \/ Out \/ FlushClear \/ Handshake
          \/ HandshakeErased \/ NegotiationIn

Next == Receiver \/ ResolverAnswers \/ AsyncComplete \/ Tick \/ PollWait \/ Handle

Spec == Init /\ [][Next]_vars

\* A peer never answers connect() for certain; one that has connected takes what
\* is sent to it, and goes through with a handshake or gives up.
PeerReady == PollWait /\ type # "connecting"
Drains    == Out /\ sendqueue' = <<>>
Concludes == NegotiationIn /\ type' # "redo"

Fairness ==
    /\ WF_vars(Tick) /\ WF_vars(Handle) /\ WF_vars(PeerReady)
    /\ SF_vars(Drains) /\ SF_vars(Concludes)

FairSpec == Spec /\ Fairness

-----------------------------------------------------------------------------
(* The abstract specification, and how a SocketInfo maps to it.            *)

Life == CASE type = "unused" -> "unused"
          [] type \in {"resolving", "connecting"} -> "pending"
          [] type = "plain" -> "open"
          [] type \in {"negotiate", "redo"} -> "handshake"
          [] type = "ssl" -> "secure"
          [] OTHER -> "ended"

Promised == INSTANCE SocketEvents WITH life <- Life, wanted <- wanted, told <- told

\* A live socket's receiver is told what the comments of IOManager promise: one verdict on
\* the connection, then data and the outcome of a handshake, DISCONNECTED once and
\* last, no end in silence unless it closed the socket, and no success after that
\* (registerTCPClientSocket .. negotiateSSLAccept, iomanager.h).
Promise == Promised!Spec

\* A socket is polled for what it waits for: to connect, to begin a handshake or
\* to write it is polled for writing, in the later steps of a handshake and with
\* nothing to send for reading.  A socket polled for the other direction hangs.
Watched ==
    /\ type \in {"connecting", "negotiate"} => epoll = "OUT"
    /\ type = "redo" => epoll = "IN"
    /\ type \in {"plain", "ssl"} => epoll = IF sendqueue = <<>> THEN "IN" ELSE "OUT"
    /\ ~Connected /\ type # "connecting" => epoll = None

\* The link changes sides once, with the first step of a handshake, and in step with
\* the send queue: what is written behind that step is under TLS, and so is all that
\* was sent after it; what was sent before, the 234 that announces TLS among it, goes
\* ahead in the clear, but for what a first write that was cut leaves over.
OnTheRightSide ==
    /\ \A i \in 1 .. Len(wire) : wire[i].data = "secret" => wire[i].tls
    /\ \A i, j \in 1 .. Len(wire) :
          i < j /\ (wire[i].tls \/ wire[i].data = "hello") => wire[j].tls
    /\ slip # "cut" => \A i \in 1 .. Len(wire) : wire[i].tls => wire[i].data = "secret"

\* Nothing that was sent after TLS was asked for is written in the clear.
AskedIsSecret == \A i \in 1 .. Len(wire) : wire[i].data = "asked" => wire[i].tls

\* handleTCPSSLNegotiationOut() does not go on with a SocketInfo that
\* handleTCPPlainOut() has erased.
ErasedNotUsed == slip \notin {"erased", "stray"}

\* Every FDFail names the socket it is about (the parameter sockid of FDFail).
FailNamesSocket == \A i \in 1 .. Len(told) : told[i].named

\* A registered socket connects or fails, although no name server and no peer
\* need ever answer: tick() ends both waits.
Settles == type \in {"resolving", "connecting"} ~> type \notin {"resolving", "connecting"}

\* A handshake ends, by FDSSLSuccess, FDDisconnected or closeSocket().
HandshakeEnds == type \in {"negotiate", "redo"} ~> type \in {"ssl", "erased"}

\* closeSocket() closes: what is still to be sent, connecting and a handshake
\* only delay it.
ClosedGoes == ~wanted ~> type = "erased"
=============================================================================
