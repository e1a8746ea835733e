-------------------------------- MODULE Relay -------------------------------
(***************************************************************************)
(* Two connections whose data is forwarded to each other: the PasvConn and *)
(* PortConn of an active TrafficBncSession (and likewise the two control   *)
(* connections of an established BncSession without traffic bouncing).     *)
(* How the sending side of Core::IOManager, the pauses of the receivers    *)
(* and the overload pauses of the worker work together.                    *)
(*                                                                         *)
(* A socket is polled for one direction at a time, OUT while it has data   *)
(* to send, and a paused socket is not polled at all: reading from one     *)
(* peer stops writing to that peer.  The sockets are plain: TLS reads      *)
(* until there is nothing left.                                            *)
(***************************************************************************)
EXTENDS Integers, Sequences, FiniteSets

CONSTANTS
    A, B,           \* the two connections
    OverloadSize,   \* OVERLOAD_SIZE
    ReadySize,      \* READY_SIZE
    MaxSend,        \* MAX_SEND_BUFFER, in blocks
    Blocks          \* bound: blocks each peer sends

Socks == {A, B}
Twin(x) == IF x = A THEN B ELSE A

ASSUME TwoSocks == A # B
ASSUME SizesAssumption ==
    OverloadSize \in Nat /\ ReadySize \in Nat /\ MaxSend \in Nat /\ Blocks \in [Socks -> Nat]

VARIABLES
    got,            \* blocks read from a peer: they are numbered
    written,        \* blocks written to a peer
    open, closing,  \* sockets in socketinfomap, those told to close
    sendqueue,
    direction, paused,              \* SocketInfo
    polled,         \* what the epoll set has the socket for
    autopaused, manuallypaused,
    iopc, batch, cur,               \* IOManager::run
    wpc, full,      \* WorkManager::run; the socket a handler is about to pause
    queue,          \* the events for the worker: while it is "busy" the first is in its hand
    overloaded,                     \* WorkManager
    conn,           \* connections whose receiver has a sockid
    connpaused      \* PasvConn::paused, PortConn::paused

peers == <<got, written>>
sock  == <<open, closing, sendqueue, direction, paused, polled, autopaused, manuallypaused>>
iovar == <<iopc, batch, cur>>
vars  == <<peers, sock, iovar, wpc, full, queue, overloaded, conn, connpaused>>

Event(type, x, n) == [type |-> type, sock |-> x, num |-> n]
Types == {"DATA", "SENDCOMPLETE", "DISCONNECTED"}
None == "none"

TypeOK ==
    /\ got \in [Socks -> Nat] /\ written \in [Socks -> Nat]
    /\ open \in SUBSET Socks /\ closing \in SUBSET open
    /\ sendqueue \in [Socks -> Seq(Nat)]
    /\ direction \in [Socks -> {"IN", "OUT"}]
    /\ paused \in [Socks -> BOOLEAN]
    /\ polled \in [Socks -> {"IN", "OUT", None}]
    /\ autopaused \in SUBSET open /\ manuallypaused \in SUBSET open
    /\ iopc \in {"poll", "lock", "next", "size", "return"}
    /\ batch \in SUBSET (Socks \X {"IN", "OUT"})
    /\ cur \in Socks
    /\ wpc \in {"idle", "busy", "pausing", "ready", "clear", "notify"} /\ full \in Socks
    /\ queue \in Seq([type : Types, sock : Socks, num : Nat])
    /\ overloaded \in BOOLEAN
    /\ conn \in SUBSET Socks /\ connpaused \in SUBSET Socks

\* Both connections are established, and nothing has been sent yet.
Init ==
    /\ got = [x \in Socks |-> 0] /\ written = [x \in Socks |-> 0]
    /\ open = Socks /\ closing = {}
    /\ sendqueue = [x \in Socks |-> <<>>]
    /\ direction = [x \in Socks |-> "IN"]
    /\ paused = [x \in Socks |-> FALSE]
    /\ polled = [x \in Socks |-> "IN"]
    /\ autopaused = {} /\ manuallypaused = {}
    /\ iopc = "poll" /\ batch = {} /\ cur = A
    /\ wpc = "idle" /\ full = A
    /\ queue = <<>> /\ overloaded = FALSE
    /\ conn = Socks /\ connpaused = {}

-----------------------------------------------------------------------------
(* What the IOManager does to a socket.                                    *)

\* Seeded fault: the socket stays in autopaused.
CloseIntern_KeepPause(x) ==
    /\ open' = open \ {x} /\ closing' = closing \ {x}
    /\ sendqueue' = [sendqueue EXCEPT ![x] = <<>>]
    /\ polled' = [polled EXCEPT ![x] = None]
    /\ UNCHANGED <<direction, paused, autopaused, manuallypaused>>

\* closeSocketIntern()
CloseIntern(x) ==
    /\ open' = open \ {x} /\ closing' = closing \ {x}
    /\ sendqueue' = [sendqueue EXCEPT ![x] = <<>>]
    /\ polled' = [polled EXCEPT ![x] = None]
    /\ autopaused' = autopaused \ {x} /\ manuallypaused' = manuallypaused \ {x}
    /\ UNCHANGED <<direction, paused>>

\* closeSocket()
CloseSocket(x) ==
    \/ /\ x \in open /\ sendqueue[x] = <<>>
       /\ CloseIntern(x)
    \/ /\ x \in open /\ sendqueue[x] # <<>>
       /\ closing' = closing \cup {x}
       /\ UNCHANGED <<open, sendqueue, direction, paused, polled, autopaused, manuallypaused>>
    \/ x \notin open /\ UNCHANGED sock

\* Seeded fault: a paused socket is polled again.
SetPoll_Always(x, dir) ==
    /\ direction' = [direction EXCEPT ![x] = dir]
    /\ polled' = [polled EXCEPT ![x] = dir]

\* setPollRead(), setPollWrite()
SetPoll(x, dir) ==
    /\ direction' = [direction EXCEPT ![x] = dir]
    /\ polled' = IF paused[x] THEN polled ELSE [polled EXCEPT ![x] = dir]

\* pause(), which a receiver calls at most once before resume()
Pause(x) ==
    /\ manuallypaused' = manuallypaused \cup {x}
    /\ paused' = [paused EXCEPT ![x] = TRUE]
    /\ polled' = [polled EXCEPT ![x] = None]

\* Seeded fault: SocketInfo::paused is not reset.
Resume_StaysPaused(x) ==
    /\ manuallypaused' = manuallypaused \ {x}
    /\ polled' = IF x \in autopaused THEN polled ELSE [polled EXCEPT ![x] = direction[x]]
    /\ UNCHANGED paused

\* resume() of a socket in the map
Resume(x) ==
    /\ manuallypaused' = manuallypaused \ {x}
    /\ IF x \in autopaused THEN UNCHANGED <<paused, polled>>
       ELSE /\ paused' = [paused EXCEPT ![x] = FALSE]
            /\ polled' = [polled EXCEPT ![x] = direction[x]]

-----------------------------------------------------------------------------
(* The IO thread.  It holds the lock from "next" to "poll".                *)

LockFree == iopc \in {"poll", "lock"}
Push(e) == queue' = Append(queue, e)

\* A peer has sent a block, has closed, or has room for what we send.
PollWait ==
    /\ iopc = "poll"
    /\ \E S \in SUBSET {x \in open : polled[x] # None} :
        /\ S # {} /\ batch' = {<<x, polled[x]>> : x \in S}
    /\ iopc' = "lock"
    /\ UNCHANGED <<peers, sock, cur, wpc, full, queue, overloaded, conn, connpaused>>

Lock ==
    /\ iopc = "lock" /\ iopc' = "next"
    /\ UNCHANGED <<peers, sock, batch, cur, wpc, full, queue, overloaded, conn, connpaused>>

Unlock ==
    /\ iopc = "next" /\ batch = {} /\ iopc' = "poll"
    /\ UNCHANGED <<peers, sock, batch, cur, wpc, full, queue, overloaded, conn, connpaused>>

Take(x, dir) ==
    /\ iopc = "next" /\ <<x, dir>> \in batch
    /\ batch' = batch \ {<<x, dir>>}
    /\ UNCHANGED <<wpc, full, overloaded, conn, connpaused>>

\* The socket was closed meanwhile, or there is nothing to read.
Skip(x, dir) ==
    /\ Take(x, dir)
    /\ x \notin open \/ dir = "IN"
    /\ UNCHANGED <<peers, sock, iopc, cur, queue>>

\* handleTCPPlainIn, whatever direction the socket is polled for by now.
Read(x) ==
    /\ Take(x, "IN") /\ x \in open
    /\ got[x] < Blocks[x]
    /\ got' = [got EXCEPT ![x] = @ + 1]
    /\ Push(Event("DATA", x, got'[x]))
    /\ iopc' = "size" /\ cur' = x
    /\ UNCHANGED <<written, sock>>

\* highprioqueue.size() + dataqueue.size(): what the worker has popped does not count.
Size == IF wpc = "busy" THEN Len(queue) - 1 ELSE Len(queue)

\* overload()
Overload ==
    /\ iopc = "size" /\ iopc' = "return"
    /\ overloaded' = (overloaded \/ Size >= OverloadSize)
    /\ UNCHANGED <<peers, sock, batch, cur, wpc, full, queue, conn, connpaused>>

\* dispatchFDData returns the flag it reads now: autoPause().
Return ==
    /\ iopc = "return"
    /\ IF overloaded
         THEN /\ autopaused' = autopaused \cup {cur}
              /\ paused' = [paused EXCEPT ![cur] = TRUE]
              /\ polled' = [polled EXCEPT ![cur] = None]
         ELSE UNCHANGED <<autopaused, paused, polled>>
    /\ iopc' = "next"
    /\ UNCHANGED <<peers, open, closing, sendqueue, direction, manuallypaused, batch, cur, wpc, full,
                   queue, overloaded, conn, connpaused>>

\* handleTCPPlainIn: the peer has closed.
ReadEnd(x) ==
    /\ Take(x, "IN") /\ x \in open
    /\ CloseIntern(x)
    /\ Push(Event("DISCONNECTED", x, 0))
    /\ UNCHANGED <<peers, iopc, cur>>

\* Seeded fault: the socket is read from before its queue is emptied.
WriteSome_ThenRead(x) ==
    /\ Take(x, "OUT") /\ x \in open
    /\ \E k \in 1 .. Len(sendqueue[x]) - 1 :
        /\ written' = [written EXCEPT ![x] = @ + k]
        /\ sendqueue' = [sendqueue EXCEPT ![x] = SubSeq(@, k + 1, Len(@))]
    /\ SetPoll(x, "IN")
    /\ UNCHANGED <<got, open, closing, paused, autopaused, manuallypaused, iopc, cur, queue>>

\* handleTCPPlainOut: some blocks are written, then EAGAIN.
WriteSome(x) ==
    /\ Take(x, "OUT") /\ x \in open
    /\ \E k \in 1 .. Len(sendqueue[x]) - 1 :
        /\ written' = [written EXCEPT ![x] = @ + k]
        /\ sendqueue' = [sendqueue EXCEPT ![x] = SubSeq(@, k + 1, Len(@))]
    /\ UNCHANGED <<got, open, closing, direction, paused, polled, autopaused, manuallypaused,
                   iopc, cur, queue>>

\* Seeded faults: no SENDCOMPLETE; closing is not looked at.
WriteAll_Silent(x) ==
    /\ Take(x, "OUT") /\ x \in open
    /\ written' = [written EXCEPT ![x] = @ + Len(sendqueue[x])]
    /\ IF x \in closing
         THEN CloseIntern(x)
         ELSE /\ sendqueue' = [sendqueue EXCEPT ![x] = <<>>]
              /\ SetPoll(x, "IN")
              /\ UNCHANGED <<open, closing, paused, autopaused, manuallypaused>>
    /\ UNCHANGED <<got, iopc, cur, queue>>


\* handleTCPPlainOut: everything is written.
WriteAll(x) ==
    /\ Take(x, "OUT") /\ x \in open
    /\ written' = [written EXCEPT ![x] = @ + Len(sendqueue[x])]
    /\ \/ x \in closing /\ CloseIntern(x) /\ UNCHANGED queue
       \/ /\ x \notin closing
          /\ sendqueue' = [sendqueue EXCEPT ![x] = <<>>]
          /\ SetPoll(x, "IN")
          /\ Push(Event("SENDCOMPLETE", x, 0))
          /\ UNCHANGED <<open, closing, paused, autopaused, manuallypaused>>
    /\ UNCHANGED <<got, iopc, cur>>

\* handleTCPPlainOut: write() fails.
WriteFails(x) ==
    /\ Take(x, "OUT") /\ x \in open
    /\ CloseIntern(x)
    /\ IF x \in closing THEN UNCHANGED queue ELSE Push(Event("DISCONNECTED", x, 0))
    /\ UNCHANGED <<peers, iopc, cur>>

-----------------------------------------------------------------------------
(* The worker.                                                             *)

\* The event leaves the queues before its handler asks for the lock.
Pop ==
    /\ wpc = "idle" /\ queue # <<>> /\ wpc' = "busy"
    /\ UNCHANGED <<peers, sock, iovar, full, queue, overloaded, conn, connpaused>>

At(type, x) == wpc = "busy" /\ queue # <<>>
               /\ Head(queue).type = type /\ Head(queue).sock = x
Handled == queue' = Tail(queue) /\ UNCHANGED <<peers, iovar, overloaded>>
Done == Handled /\ wpc' = "ready" /\ UNCHANGED full

\* Seeded fault: what does not fit is not queued.
SendData_Drop(y, n) ==
    /\ sendqueue' = IF Len(sendqueue[y]) < MaxSend THEN [sendqueue EXCEPT ![y] = Append(@, n)]
                                                   ELSE sendqueue
    /\ direction' = [direction EXCEPT ![y] = "OUT"]

\* sendData(): the queue has no limit, what it returns is advice.
SendData(y, n) ==
    /\ sendqueue' = [sendqueue EXCEPT ![y] = Append(@, n)]
    /\ direction' = [direction EXCEPT ![y] = "OUT"]

\* what sendData() returns
TooMuch(q) == Len(q) > MaxSend

\* FDData of the receiver of x: what it is told of the other's send queue
\* decides whether x is to be paused.
HandleData(x) ==
    /\ At("DATA", x) /\ LockFree
    /\ LET y == Twin(x) IN
       \/ /\ y \in conn \cap open
          /\ SendData(y, Head(queue).num)
          /\ polled' = IF paused[y] THEN polled ELSE [polled EXCEPT ![y] = "OUT"]
          /\ IF TooMuch(sendqueue'[y]) /\ x \notin connpaused
               THEN connpaused' = connpaused \cup {x} /\ full' = x /\ wpc' = "pausing"
               ELSE wpc' = "ready" /\ UNCHANGED <<connpaused, full>>
       \/ y \notin conn \cap open /\ wpc' = "ready"
          /\ UNCHANGED <<sendqueue, direction, polled, connpaused, full>>
    /\ Handled
    /\ UNCHANGED <<open, closing, paused, autopaused, manuallypaused, conn>>

\* pause(), under the lock again.
PauseFull ==
    /\ wpc = "pausing" /\ LockFree /\ wpc' = "ready"
    /\ IF full \in open THEN Pause(full) ELSE UNCHANGED <<manuallypaused, paused, polled>>
    /\ UNCHANGED <<peers, open, closing, sendqueue, direction, autopaused, iovar, full, queue,
                   overloaded, conn, connpaused>>

\* FDSendComplete of the receiver of x: the other connection is resumed.
HandleSendComplete(x) ==
    /\ At("SENDCOMPLETE", x)
    /\ Twin(x) \in connpaused => LockFree
    /\ connpaused' = connpaused \ {Twin(x)}
    /\ IF Twin(x) \in connpaused /\ Twin(x) \in conn \cap open
         THEN Resume(Twin(x)) ELSE UNCHANGED <<manuallypaused, paused, polled>>
    /\ Done
    /\ UNCHANGED <<open, closing, sendqueue, direction, autopaused, conn>>

\* FDDisconnected of the receiver of x: the other connection is closed.
HandleDisconnected(x) ==
    /\ At("DISCONNECTED", x) /\ LockFree
    /\ IF x \in conn
         THEN /\ conn' = {}
              /\ IF Twin(x) \in conn THEN CloseSocket(Twin(x)) ELSE UNCHANGED sock
         ELSE UNCHANGED <<conn, sock>>
    /\ Done
    /\ UNCHANGED connpaused

\* A tick wakes the worker now and again; with more events in the queue it
\* would change nothing.
HandleTick ==
    /\ wpc = "idle" /\ Len(queue) <= ReadySize
    /\ wpc' = "ready"
    /\ UNCHANGED <<peers, sock, iovar, full, queue, overloaded, conn, connpaused>>

CheckReady ==
    /\ wpc = "ready"
    /\ wpc' = IF overloaded /\ Len(queue) <= ReadySize THEN "clear" ELSE "idle"
    /\ UNCHANGED <<peers, sock, iovar, full, queue, overloaded, conn, connpaused>>

Clear ==
    /\ wpc = "clear" /\ wpc' = "notify"
    /\ overloaded' = FALSE
    /\ UNCHANGED <<peers, sock, iovar, full, queue, conn, connpaused>>

\* workerReady()
Notify ==
    /\ wpc = "notify" /\ LockFree /\ wpc' = "idle"
    /\ LET woken == autopaused \ manuallypaused
       IN  /\ paused' = [x \in Socks |-> paused[x] /\ x \notin woken]
           /\ polled' = [x \in Socks |-> IF x \in woken THEN direction[x] ELSE polled[x]]
    /\ autopaused' = {}
    /\ UNCHANGED <<peers, open, closing, sendqueue, direction, manuallypaused, iovar, full,
                   queue, overloaded, conn, connpaused>>

-----------------------------------------------------------------------------
IONext ==
    \/ PollWait \/ Lock \/ Unlock \/ Overload \/ Return
    \/ \E x \in Socks :
        \/ Read(x) \/ ReadEnd(x) \/ WriteSome(x) \/ WriteAll(x) \/ WriteFails(x)
        \/ \E dir \in {"IN", "OUT"} : Skip(x, dir)

WorkerNext ==
    \/ Pop \/ PauseFull \/ HandleTick \/ CheckReady \/ Clear \/ Notify
    \/ \E x \in Socks : HandleData(x) \/ HandleSendComplete(x) \/ HandleDisconnected(x)

Next == IONext \/ WorkerNext

\* A peer reads what is written to it, in the end, and polling.wait() returns
\* every descriptor that is ready; the threads go on, and a ticking worker still pops.
PollOut(x) == PollWait /\ <<x, "OUT">> \in batch'

\* The worker gets socketinfomaplock in the end.
TakesLock ==
    \/ PauseFull \/ Notify
    \/ \E x \in Socks : HandleData(x) \/ HandleSendComplete(x) \/ HandleDisconnected(x)

Fairness ==
    /\ WF_vars(IONext /\ iopc # "poll") /\ WF_vars(WorkerNext)
    /\ SF_vars(Pop) /\ SF_vars(TakesLock)
    /\ \A x \in Socks : SF_vars(PollOut(x))

Spec == Init /\ [][Next]_vars
FairSpec == Spec /\ Fairness

-----------------------------------------------------------------------------
\* Where in the queue the data read from x is.
DataOf(x) == {i \in DOMAIN queue : queue[i].type = "DATA" /\ queue[i].sock = x}

(* Nothing is lost, doubled or put out of order on the way from one peer   *)
(* to the other, as long as the connection to the latter is open: what is  *)
(* in its send queue, and then in the worker's queue, is what was read and *)
(* not written yet.                                                        *)
Conserved ==
    \A y \in conn \cap open :
        LET x == Twin(y)
            sent == written[y] + Len(sendqueue[y])
        IN  /\ \A i \in DOMAIN sendqueue[y] : sendqueue[y][i] = written[y] + i
            /\ {queue[i].num : i \in DataOf(x)} = sent + 1 .. got[x]
            /\ \A i, j \in DataOf(x) : i < j => queue[i].num < queue[j].num

(* A connection is paused because the other's send queue was full: it is   *)
(* never left so without the SENDCOMPLETE that resumes it, in the queue or *)
(* to come.                                                                *)
PauseEnds ==
    \A x \in connpaused \cap open :
        Twin(x) \in conn \cap open =>
            \/ sendqueue[Twin(x)] # <<>>
            \/ \E i \in DOMAIN queue : queue[i] = Event("SENDCOMPLETE", Twin(x), 0)

(* The two connections do not wait for each other.  A paused socket is not *)
(* written to, so if both are paused neither send queue empties: one of    *)
(* them has been emptied already, and its SENDCOMPLETE is in the queue.    *)
(* This rests on the sizes, 2 * OVERLOAD_SIZE blocks of buffer in the      *)
(* code; with a buffer below OVERLOAD_SIZE the two do wait for each other. *)
NoStandoff ==
    manuallypaused = Socks => \E i \in DOMAIN queue : queue[i].type = "SENDCOMPLETE"

(* A send queue is not limited by itself (sendData() takes all), but by    *)
(* the pause of the other connection: the block behind MAX_SEND_BUFFER     *)
(* leads to it, and what waits for the worker by then is sent as well.  As *)
(* in WorkManager that is OVERLOAD_SIZE and two, when READY_SIZE is less:  *)
(* one more before and one after a workerReady() that wanted the lock.     *)
BufferBound ==
    ReadySize < OverloadSize =>
        \A y \in Socks : Len(sendqueue[y]) <= MaxSend + 1 + OverloadSize + 2

(* A socket told to close, which waits until its send queue is emptied, is *)
(* not one that its receiver paused and has forgotten.                     *)
NoneStuck == closing \cap manuallypaused = {}

(* The peers catch up: what is read from one is written to the other, in   *)
(* the end, unless that connection fails.                                  *)
Relayed ==
    \A x \in Socks :
        written[Twin(x)] < got[x] ~> (written[Twin(x)] = got[x] \/ Twin(x) \notin open)

=============================================================================
