----------------------------- MODULE WorkManager ----------------------------
(***************************************************************************)
(* The path from a socket to the worker thread: Core::WorkManager with its *)
(* three queues, its semaphore and its overload flags, and the reading     *)
(* side of Core::IOManager, which pauses sockets while the worker is       *)
(* overloaded.                                                             *)
(*                                                                         *)
(* Threads: the IO thread (program counter iopc), the worker thread (wpc), *)
(* and those that only dispatch: the tick thread, the async workers and    *)
(* the detached threads signal handlers create.  A dispatch is two         *)
(* critical sections, queue.push and event.post; `posting' holds the       *)
(* threads between the two.                                                *)
(*                                                                         *)
(* The IO thread holds socketinfomaplock from the end of one               *)
(* polling.wait() to the start of the next.                                *)
(***************************************************************************)
EXTENDS SignalEvents, Sequences

CONSTANTS
    Socks,          \* the sockets registered with the IOManager
    TLS,            \* those of type TCP_SSL; the others are read once per event
    Async,          \* async worker threads (ASYNC_WORKERS)
    OverloadSize,   \* OVERLOAD_SIZE
    ReadySize,      \* READY_SIZE
    LowAfter,       \* blocks one TLS read may take before its socket's prio is LOW
    IO, Worker, Ticker,     \* the three threads that run all the time
    NoSock,         \* the IO thread handles no socket
    Quota,          \* bound: events a source produces
    MaxTicks,       \* bound: ticks waiting in the high priority queue
    SlowTicks       \* TRUE: the worker drains its queues between two ticks

\* Signals name the detached threads that set them.
Threads == {IO, Worker, Ticker} \cup Async \cup Signals

\* What produces events that must be handled in order: the sockets, each async
\* worker, and the handlers, which dispatch on the worker thread.
Sources == Socks \cup Async \cup {Worker}

ASSUME SocksAssumption == TLS \subseteq Socks /\ NoSock \notin Socks
ASSUME ThreadsAssumption ==
    /\ IO \notin {Worker, Ticker} \cup Async \cup Signals
    /\ Ticker \notin Sources
    /\ Socks \cap Threads = {}
ASSUME SizesAssumption ==
    /\ ReadySize \in Nat /\ OverloadSize \in Nat /\ LowAfter \in Nat
    /\ Quota \in [Sources -> Nat] /\ MaxTicks \in Nat /\ SlowTicks \in BOOLEAN

VARIABLES
    highprioqueue, dataqueue, lowprioqueue,
    event,          \* the semaphore the worker waits on
    posting,        \* threads that have pushed and not yet posted
    overloaded, lowpriooverloaded,
    wpc,            \* where WorkManager::run is
    iopc,           \* where IOManager::run is
    batch,          \* sockets polling.wait() returned that are not handled yet
    cur,            \* the socket being handled
    blocknum,       \* full blocks read so far by this handleTCPSSLIn
    last,           \* what follows the dispatch: "more", "stop", "close"
    unread, total,  \* queues overload() has still to size, and their sum so far
    open,           \* sockets in socketinfomap
    prio,           \* their prio
    paused, polled, \* SocketInfo::paused; file descriptors in the epoll set
    autopaused, manuallypaused,
    sent, recv      \* events each source has pushed, and the worker has handled

queues == <<highprioqueue, dataqueue, lowprioqueue>>
flags  == <<overloaded, lowpriooverloaded>>
locals == <<cur, blocknum, last, unread, total>>
iovars == <<iopc, batch, locals>>
pauses == <<paused, polled, autopaused, manuallypaused>>
socks  == <<open, prio, sent>>
vars   == <<signalVars, queues, event, posting, flags, wpc, iovars, pauses, socks, recv>>

\* An event: its source and its number there.  Ticks are all the same.
NextOf(s) == [src |-> s, num |-> sent[s] + 1]
Tick == [src |-> Ticker, num |-> 0]
Events == [src : Sources, num : Nat] \cup {Tick}
Sizes == [high |-> Len(highprioqueue), data |-> Len(dataqueue), low |-> Len(lowprioqueue)]
Pending == Len(highprioqueue) + Len(dataqueue) + Len(lowprioqueue)

TypeOK ==
    /\ SignalTypeOK
    /\ highprioqueue \in Seq(Events)
    /\ dataqueue \in Seq(Events)
    /\ lowprioqueue \in Seq(Events)
    /\ event \in Nat
    /\ posting \in SUBSET Threads
    /\ overloaded \in BOOLEAN /\ lowpriooverloaded \in BOOLEAN
    /\ wpc \in {"wait", "select", "signal", "high", "data", "low", "handle",
                "ready", "clear", "notify"}
    /\ iopc \in {"poll", "lock", "next", "read", "post", "size", "return", "after"}
    /\ batch \in SUBSET Socks
    /\ cur \in Socks \cup {NoSock}
    /\ blocknum \in Nat
    /\ last \in {"more", "stop", "close"}
    /\ unread \in SUBSET {"high", "data", "low"}
    /\ total \in Nat
    /\ open \in SUBSET Socks
    /\ prio \in [Socks -> {"normal", "low"}]
    /\ paused \in [Socks -> BOOLEAN]
    /\ polled \in SUBSET Socks
    /\ autopaused \in SUBSET Socks
    /\ manuallypaused \in SUBSET Socks
    /\ sent \in [Sources -> Nat]
    /\ recv \in [Sources -> Nat]

Init ==
    /\ SignalInit
    /\ highprioqueue = <<>> /\ dataqueue = <<>> /\ lowprioqueue = <<>>
    /\ event = 0
    /\ posting = {}
    /\ overloaded = FALSE /\ lowpriooverloaded = FALSE
    /\ wpc = "wait"
    /\ iopc = "poll"
    /\ batch = {} /\ cur = NoSock /\ blocknum = 0 /\ last = "stop"
    /\ unread = {} /\ total = 0
    /\ open = Socks
    /\ prio = [s \in Socks |-> "normal"]
    /\ paused = [s \in Socks |-> FALSE]
    /\ polled = Socks
    /\ autopaused = {} /\ manuallypaused = {}
    /\ sent = [s \in Sources |-> 0]
    /\ recv = [s \in Sources |-> 0]

-----------------------------------------------------------------------------
(* Dispatching: push, then post.                                           *)

PushHigh(e) == highprioqueue' = Append(highprioqueue, e) /\ UNCHANGED <<dataqueue, lowprioqueue>>
PushData(e) == dataqueue' = Append(dataqueue, e) /\ UNCHANGED <<highprioqueue, lowprioqueue>>
PushLow(e)  == lowprioqueue' = Append(lowprioqueue, e) /\ UNCHANGED <<highprioqueue, dataqueue>>

\* eventqueues[prio]->push(e)
Push(p, e) == IF p = "low" THEN PushLow(e) ELSE PushData(e)

\* Seeded fault: the semaphore does not count.
Posted_Binary(t) ==
    /\ t \in posting
    /\ posting' = posting \ {t}
    /\ event' = 1

\* event.post() by thread t, which had pushed.
Posted(t) ==
    /\ t \in posting
    /\ posting' = posting \ {t}
    /\ event' = event + 1

\* A thread other than the IO thread ends its dispatch.
Post(t) ==
    /\ Posted(t)
    /\ UNCHANGED <<signalVars, queues, flags, wpc, iovars, pauses, socks, recv>>

\* The worker is blocked in event.wait().
Idle == wpc = "wait" /\ event = 0 /\ posting = {}

\* TickPoke's thread: dispatchTick.
DispatchTick ==
    /\ Ticker \notin posting
    /\ Len(highprioqueue) < MaxTicks
    /\ SlowTicks => Idle
    /\ PushHigh(Tick)
    /\ posting' = posting \cup {Ticker}
    /\ UNCHANGED <<signalVars, event, flags, wpc, iovars, pauses, socks, recv>>

\* Push the next event of s with priority p.
PushNext(s, p) ==
    /\ sent[s] < Quota[s]
    /\ Push(p, NextOf(s))
    /\ sent' = [sent EXCEPT ![s] = @ + 1]

\* An async worker: dispatchAsyncTaskComplete.
AsyncComplete(a) ==
    /\ a \notin posting
    /\ PushNext(a, "normal")
    /\ posting' = posting \cup {a}
    /\ UNCHANGED <<signalVars, event, flags, wpc, iovars, pauses, open, prio, recv>>

\* Seeded fault: the result of set() is ignored.
DispatchSignal_AlwaysPost(x) ==
    /\ x \notin posting
    /\ Store(x) \/ Coalesce(x)
    /\ posting' = posting \cup {x}
    /\ UNCHANGED <<queues, event, flags, wpc, iovars, pauses, socks, recv>>

\* A detached signal thread: dispatchSignal posts only when set() returned
\* true.  A set() that finds every slot taken by other signals ends the process
\* (signalevents.cpp:28); one thread at a time stores a given signal.  cbbncd
\* registers none.
DispatchSignal(x) ==
    /\ \/ x \notin posting /\ Store(x) /\ posting' = posting \cup {x}
       \/ Coalesce(x) /\ UNCHANGED posting
    /\ UNCHANGED <<queues, event, flags, wpc, iovars, pauses, socks, recv>>

-----------------------------------------------------------------------------
(* The IO thread.                                                          *)

LockFree == iopc \in {"poll", "lock"}

\* polling.wait(events): some of the registered descriptors are readable.
PollWait ==
    /\ iopc = "poll"
    /\ \E b \in SUBSET polled : b # {} /\ batch' = b
    /\ iopc' = "lock"
    /\ UNCHANGED <<signalVars, queues, event, posting, flags, wpc, locals, pauses, socks, recv>>

\* socketinfomaplock.lock()
Lock ==
    /\ iopc = "lock"
    /\ iopc' = "next"
    /\ UNCHANGED <<signalVars, queues, event, posting, flags, wpc, batch, locals, pauses,
                   socks, recv>>

\* The next event of the batch; a socket closed meanwhile is skipped.  The
\* event is handled whether or not the socket has been paused since.
NextEvent ==
    /\ iopc = "next"
    /\ \E s \in batch :
        /\ batch' = batch \ {s}
        /\ IF s \in open THEN iopc' = "read" /\ cur' = s
                         ELSE UNCHANGED <<iopc, cur>>
    /\ UNCHANGED <<signalVars, queues, event, posting, flags, wpc, blocknum, last, unread,
                   total, pauses, socks, recv>>

\* The batch is done: socketinfomaplock.unlock().
Unlock ==
    /\ iopc = "next" /\ batch = {}
    /\ iopc' = "poll"
    /\ UNCHANGED <<signalVars, queues, event, posting, flags, wpc, batch, locals, pauses,
                   socks, recv>>

\* The socket's handler returns; its locals go out of scope.
Handled ==
    /\ iopc' = "next"
    /\ cur' = NoSock /\ blocknum' = 0 /\ last' = "stop"
    /\ unread' = {} /\ total' = 0

\* read(), SSL_read() or accept() finds nothing.
ReadNothing ==
    /\ iopc \in {"read", "after"}
    /\ Handled
    /\ UNCHANGED <<signalVars, queues, event, posting, flags, wpc, batch, pauses, socks, recv>>

\* Push the socket's next event with the socket's prio.
Dispatch(p, next) ==
    /\ PushNext(cur, p)
    /\ last' = next
    /\ iopc' = "post"
    /\ posting' = posting \cup {IO}
    /\ UNCHANGED <<signalVars, event, flags, wpc, batch, cur, unread, total, pauses, open, recv>>

\* Seeded fault: dispatched with the default priority.
ReadLast_DefaultPrio ==
    /\ iopc = "read"
    /\ Dispatch("normal", "stop")
    /\ UNCHANGED <<blocknum, prio>>

\* handleTCPPlainIn, handleTCPServerIn, and the partial block that ends
\* handleTCPSSLIn: dispatch, and no more after it.
ReadLast ==
    /\ iopc = "read"
    /\ Dispatch(prio[cur], "stop")
    /\ UNCHANGED <<blocknum, prio>>

\* handleTCPSSLIn: a full block, after which it reads again.
ReadBlock ==
    /\ iopc = "read" /\ cur \in TLS
    /\ prio' = IF blocknum > LowAfter THEN [prio EXCEPT ![cur] = "low"] ELSE prio
    /\ blocknum' = blocknum + 1
    /\ Dispatch(prio'[cur], "more")

\* The peer closed, or the read failed: dispatchEventDisconnected.
ReadEnd ==
    /\ iopc \in {"read", "after"}
    /\ Dispatch(prio[cur], "close")
    /\ UNCHANGED <<blocknum, prio>>

\* event.post(); after a DISCONNECTED closeSocketIntern, otherwise overload().
Closed(s) ==
    /\ open' = open \ {s}
    /\ polled' = polled \ {s}
    /\ autopaused' = autopaused \ {s}
    /\ manuallypaused' = manuallypaused \ {s}
    /\ UNCHANGED paused

IOPost ==
    /\ iopc = "post"
    /\ Posted(IO)
    /\ IF last = "close"
         THEN Closed(cur) /\ Handled
         ELSE /\ iopc' = "size"
              /\ unread' = IF prio[cur] = "low" THEN {"high", "data", "low"}
                                                ELSE {"high", "data"}
              /\ UNCHANGED <<cur, blocknum, last, total, pauses, open>>
    /\ UNCHANGED <<signalVars, queues, flags, wpc, batch, prio, sent, recv>>

\* overload(), lowPrioOverload(): the sizes are added up one queue at a time,
\* in whatever order the compiler chose.
ReadSize ==
    /\ iopc = "size"
    /\ \E q \in unread :
        /\ total' = total + Sizes[q]
        /\ unread' = unread \ {q}
    /\ UNCHANGED <<signalVars, queues, event, posting, flags, wpc, iopc, batch, cur, blocknum,
                   last, pauses, socks, recv>>

\* The flags are only ever set here.
SetFlags ==
    /\ iopc = "size" /\ unread = {}
    /\ lowpriooverloaded' = (lowpriooverloaded \/ total >= OverloadSize)
    /\ overloaded' = (overloaded \/ (prio[cur] # "low" /\ total >= OverloadSize))
    /\ iopc' = "return"
    /\ UNCHANGED <<signalVars, queues, event, posting, wpc, batch, cur, blocknum, last,
                   unread, total, pauses, socks, recv>>

\* Seeded fault: the descriptor stays in the epoll set.
AutoPause_StillPolled(s) ==
    /\ autopaused' = autopaused \cup {s}
    /\ paused' = [paused EXCEPT ![s] = TRUE]
    /\ UNCHANGED <<polled, manuallypaused>>

\* autoPause(socketinfo)
AutoPause(s) ==
    /\ autopaused' = autopaused \cup {s}
    /\ paused' = [paused EXCEPT ![s] = TRUE]
    /\ polled' = polled \ {s}
    /\ UNCHANGED manuallypaused

\* dispatchFDData returns the flag it reads now; handleTCPSSLIn ignores it
\* after a full block (its `pause' is tested behind an endless loop).
Return ==
    /\ iopc = "return"
    /\ IF last = "stop" /\ (IF prio[cur] = "low" THEN lowpriooverloaded ELSE overloaded)
         THEN AutoPause(cur)
         ELSE UNCHANGED pauses
    /\ \/ /\ cur \notin TLS
          /\ Handled
       \/ /\ cur \in TLS
          /\ iopc' = IF last = "more" THEN "read" ELSE "after"
          /\ total' = 0
          /\ UNCHANGED <<cur, blocknum, last, unread>>
    /\ UNCHANGED <<signalVars, queues, event, posting, flags, wpc, batch, socks, recv>>

-----------------------------------------------------------------------------
(* The worker thread: WorkManager::run.                                    *)

\* event.wait()
Wait ==
    /\ wpc = "wait" /\ event > 0
    /\ event' = event - 1
    /\ wpc' = "select"
    /\ UNCHANGED <<signalVars, queues, posting, flags, iovars, pauses, socks, recv>>

\* signalevents.hasEvent()
HasEvent ==
    /\ wpc = "select"
    /\ wpc' = IF hasevent # 0 THEN "signal" ELSE "high"
    /\ UNCHANGED <<signalVars, queues, event, posting, flags, iovars, pauses, socks, recv>>

\* getClearFirst() and the signal's handler; nothing follows in that branch.
HandleSignal ==
    /\ wpc = "signal"
    /\ GetClearFirst
    /\ wpc' = "wait"
    /\ UNCHANGED <<queues, event, posting, flags, iovars, pauses, socks, recv>>

\* Pop the head e of a queue and enter its handler.
Enter(e) ==
    /\ recv' = IF e.src \in Sources THEN [recv EXCEPT ![e.src] = e.num] ELSE recv
    /\ wpc' = "handle"
    /\ UNCHANGED <<signalVars, event, posting, flags, iovars, pauses, socks>>

PopHigh ==
    /\ wpc = "high" /\ highprioqueue # <<>>
    /\ highprioqueue' = Tail(highprioqueue) /\ UNCHANGED <<dataqueue, lowprioqueue>>
    /\ Enter(Head(highprioqueue))

PopData ==
    /\ wpc = "data" /\ dataqueue # <<>>
    /\ dataqueue' = Tail(dataqueue) /\ UNCHANGED <<highprioqueue, lowprioqueue>>
    /\ Enter(Head(dataqueue))

\* pop() blocks while the queue is empty.
PopLow ==
    /\ wpc = "low" /\ lowprioqueue # <<>>
    /\ lowprioqueue' = Tail(lowprioqueue) /\ UNCHANGED <<highprioqueue, dataqueue>>
    /\ Enter(Head(lowprioqueue))

\* if (highprioqueue.size()) ... else if (dataqueue.size()) ... else
Skip ==
    /\ \/ wpc = "high" /\ highprioqueue = <<>> /\ wpc' = "data"
       \/ wpc = "data" /\ dataqueue = <<>> /\ wpc' = "low"
    /\ UNCHANGED <<signalVars, queues, event, posting, flags, iovars, pauses, socks, recv>>

-----------------------------------------------------------------------------
(* What a handler may do to this part of the system.                       *)

\* IOManager::pause(s)
Pause(s) ==
    /\ wpc = "handle" /\ LockFree
    /\ s \in open \ manuallypaused
    /\ manuallypaused' = manuallypaused \cup {s}
    /\ paused' = [paused EXCEPT ![s] = TRUE]
    /\ polled' = polled \ {s}
    /\ UNCHANGED <<signalVars, queues, event, posting, flags, wpc, iovars, autopaused, socks, recv>>

\* Seeded fault: the overload pause is forgotten.
Resume_IgnoreAuto(s) ==
    /\ wpc = "handle" /\ LockFree
    /\ s \in open
    /\ manuallypaused' = manuallypaused \ {s}
    /\ paused' = [paused EXCEPT ![s] = FALSE]
    /\ polled' = polled \cup {s}
    /\ UNCHANGED <<signalVars, queues, event, posting, flags, wpc, iovars, autopaused, socks, recv>>

\* IOManager::resume(s)
Resume(s) ==
    /\ wpc = "handle" /\ LockFree
    /\ s \in open
    /\ manuallypaused' = manuallypaused \ {s}
    /\ IF s \notin autopaused
         THEN /\ paused' = [paused EXCEPT ![s] = FALSE]
              /\ polled' = polled \cup {s}
         ELSE UNCHANGED <<paused, polled>>
    /\ UNCHANGED <<signalVars, queues, event, posting, flags, wpc, iovars, autopaused, socks, recv>>

\* IOManager::closeSocket(s), nothing left to send
Close(s) ==
    /\ wpc = "handle" /\ LockFree
    /\ s \in open
    /\ Closed(s)
    /\ UNCHANGED <<signalVars, queues, event, posting, flags, wpc, iovars, prio, sent, recv>>

\* A handler dispatches (a CONNECTING, a FAIL, an application message).
HandlerDispatch ==
    /\ wpc = "handle" /\ Worker \notin posting
    /\ PushNext(Worker, "normal")
    /\ posting' = posting \cup {Worker}
    /\ UNCHANGED <<signalVars, event, flags, wpc, iovars, pauses, open, prio, recv>>

\* The handler returns.
HandlerReturn ==
    /\ wpc = "handle" /\ Worker \notin posting
    /\ wpc' = "ready"
    /\ UNCHANGED <<signalVars, queues, event, posting, flags, iovars, pauses, socks, recv>>

\* Seeded fault: the low priority flag is not looked at.
CheckReady_HighOnly ==
    /\ wpc = "ready"
    /\ wpc' = IF overloaded /\ Pending <= ReadySize THEN "clear" ELSE "wait"
    /\ UNCHANGED <<signalVars, queues, event, posting, flags, iovars, pauses, socks, recv>>

\* if ((overloaded || lowpriooverloaded) && sizes <= READY_SIZE).  Only this
\* thread pops, so the sizes read one by one are those of one moment between.
CheckReady ==
    /\ wpc = "ready"
    /\ wpc' = IF (overloaded \/ lowpriooverloaded) /\ Pending <= ReadySize
                THEN "clear" ELSE "wait"
    /\ UNCHANGED <<signalVars, queues, event, posting, flags, iovars, pauses, socks, recv>>

ClearFlags ==
    /\ wpc = "clear"
    /\ overloaded' = FALSE /\ lowpriooverloaded' = FALSE
    /\ wpc' = "notify"
    /\ UNCHANGED <<signalVars, queues, event, posting, iovars, pauses, socks, recv>>

\* IOManager::workerReady()
WorkerReady ==
    /\ autopaused' = {}
    /\ paused' = [s \in Socks |-> paused[s] /\ s \notin autopaused \ manuallypaused]
    /\ polled' = polled \cup (autopaused \ manuallypaused)
    /\ UNCHANGED manuallypaused

Notify ==
    /\ wpc = "notify" /\ LockFree
    /\ WorkerReady
    /\ wpc' = "wait"
    /\ UNCHANGED <<signalVars, queues, event, posting, flags, iovars, socks, recv>>

-----------------------------------------------------------------------------
IONext ==
    \/ PollWait \/ Lock \/ NextEvent \/ Unlock
    \/ ReadNothing \/ ReadLast \/ ReadBlock \/ ReadEnd
    \/ IOPost \/ ReadSize \/ SetFlags \/ Return

WorkerNext ==
    \/ Wait \/ HasEvent \/ HandleSignal
    \/ PopHigh \/ PopData \/ PopLow \/ Skip
    \/ HandlerDispatch \/ HandlerReturn
    \/ CheckReady \/ ClearFlags \/ Notify
    \/ \E s \in Socks : Pause(s) \/ Resume(s) \/ Close(s)

Next ==
    \/ IONext
    \/ WorkerNext
    \/ DispatchTick
    \/ \E a \in Async : AsyncComplete(a)
    \/ \E x \in Signals : DispatchSignal(x)
    \/ \E t \in Threads \ {IO} : Post(t)

\* Every thread that can go on does, and ticks keep coming.  polling.wait()
\* may wait for ever, and so may a handler choose not to pause or resume.
Fairness ==
    /\ WF_vars(Lock \/ NextEvent \/ Unlock \/ ReadNothing \/ IOPost \/ ReadSize
               \/ SetFlags \/ Return)
    /\ WF_vars(Wait \/ HasEvent \/ HandleSignal \/ PopHigh \/ PopData \/ PopLow \/ Skip
               \/ CheckReady \/ ClearFlags)
    /\ WF_vars(HandlerReturn)
    /\ SF_vars(Notify)
    /\ WF_vars(DispatchTick)
    /\ \A t \in Threads \ {IO} : WF_vars(Post(t))

Spec == Init /\ [][Next]_vars
FairSpec == Spec /\ Fairness

-----------------------------------------------------------------------------
(* The worker took the semaphore once for every push, so by the time it    *)
(* reaches lowprioqueue.pop(), WorkManager::run's last resort, there is an *)
(* event to pop: it never blocks there, with ticks and signals behind it.  *)
PopNeverBlocks == wpc = "low" => lowprioqueue # <<>>

(* Why: every token of the semaphore, with the one the worker holds        *)
(* between event.wait() and its pop and those about to be posted, stands   *)
(* for one event in a queue or one slot set.                               *)
Held == IF wpc \in {"select", "signal", "high", "data", "low"} THEN 1 ELSE 0
Tokens == event + Held + Cardinality(posting) = Pending + hasevent

(* getClearFirst() is entered with a slot set: its assert(false) is out of *)
(* reach (signalevents.cpp:48).                                            *)
ClearFindsSignal == (wpc = "signal" => SetSlots # {}) /\ ~aborted

(* Outside the lock, the three records the IOManager keeps of a pause      *)
(* agree: a socket that is open is in the epoll set exactly when it is not *)
(* paused, and it is paused for one of the two reasons on record.          *)
PauseConsistent ==
    \A s \in open :
        /\ paused[s] <=> s \in autopaused \cup manuallypaused
        /\ s \in polled <=> ~paused[s]

(* Back-pressure works: a socket that is not TLS is paused at most one      *)
(* event after OVERLOAD_SIZE.  It may have one more event queued before    *)
(* and after a workerReady() that was waiting for the lock, and one flag   *)
(* may be lost to the worker's clearing; no more than that piles up.       *)
SockEvents(q) == Cardinality({i \in DOMAIN q : q[i].src \in Socks})
QueueBounded ==
    SockEvents(dataqueue) + SockEvents(lowprioqueue) <= OverloadSize + 2 * Cardinality(Socks)

(* The events of a source reach the worker in the order they were          *)
(* dispatched, although a socket's priority may drop while some of its     *)
(* events wait in another queue (iomanager.cpp:1048).                      *)
Delivery == INSTANCE OrderedDelivery WITH Sources <- Sources, sent <- sent, recv <- recv
InOrder == Delivery!Spec

(* A socket paused for overload is read again: the flag that workerReady   *)
(* depends on may be set after the worker has drained its queues, and then *)
(* only a tick makes the worker look at it.                                *)
AutopauseEnds == \A s \in Socks : s \in autopaused ~> s \notin autopaused

(* Every event dispatched is handled.                                      *)
AllDelivered == Delivery!FairSpec
=============================================================================
