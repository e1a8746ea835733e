---------------------------- MODULE RelayProofs ----------------------------
(***************************************************************************)
(* Relay: what is forwarded is conserved, and a receiver that was paused   *)
(* for the other's full buffer has its SENDCOMPLETE to come.  The order of *)
(* the data in the worker's queue is stated for a queue and an interval    *)
(* (Numbered), with one lemma for each way the queue changes.              *)
(***************************************************************************)
EXTENDS Relay, FiniteSetTheorems, TLAPS

-----------------------------------------------------------------------------
(* Types.                                                                  *)

Events == [type : Types, sock : Socks, num : Nat]

\* The IO thread holds the lock from the read to the pause: nothing closes
\* the socket it has read from in between.
Reading == iopc \in {"size", "return"} => cur \in open
TypeInv == TypeOK /\ Reading

LEMMA TwinTwin == \A x \in Socks : Twin(x) \in Socks /\ Twin(x) # x /\ Twin(Twin(x)) = x
BY TwoSocks DEF Socks, Twin

LEMMA EventType == \A t \in Types, x \in Socks, n \in Nat : Event(t, x, n) \in Events
BY DEF Event, Events

\* The queue is used at its head and its tail.
LEMMA QueuePop ==
    ASSUME NEW q \in Seq(Events), q # <<>>
    PROVE  Head(q) \in Events /\ Tail(q) \in Seq(Events)
OBVIOUS

LEMMA QueuePush ==
    ASSUME NEW q \in Seq(Events), NEW e \in Events
    PROVE  Append(q, e) \in Seq(Events)
OBVIOUS

LEMMA CloseType ==
    ASSUME TypeOK, NEW x \in Socks, CloseIntern(x)
    PROVE  /\ open' \in SUBSET Socks /\ closing' \in SUBSET open'
           /\ sendqueue' \in [Socks -> Seq(Nat)]
           /\ polled' \in [Socks -> {"IN", "OUT", None}]
           /\ direction' \in [Socks -> {"IN", "OUT"}] /\ paused' \in [Socks -> BOOLEAN]
           /\ autopaused' \in SUBSET open' /\ manuallypaused' \in SUBSET open'
BY DEF TypeOK, CloseIntern

LEMMA TypeInit == Init => TypeInv
<1> SUFFICES ASSUME Init PROVE TypeInv
  OBVIOUS
<1>1. A \in Socks
  BY DEF Socks
<1>2. queue \in Seq(Events) /\ sendqueue \in [Socks -> Seq(Nat)]
  BY DEF Init
<1> QED
  BY <1>1, <1>2 DEF Init, TypeInv, TypeOK, Reading, Events, None

\* What the IO thread does keeps the types.
LEMMA TypeIO ==
    ASSUME TypeInv, IONext
    PROVE  TypeInv'
<1> USE SizesAssumption DEF TypeInv, Reading
<1> USE DEF Events
<1>1. CASE PollWait
  <2>1. \A x \in open : polled[x] # None => polled[x] \in {"IN", "OUT"}
    BY DEF TypeOK
  <2>2. batch' \in SUBSET (Socks \X {"IN", "OUT"})
    BY <1>1, <2>1 DEF PollWait, TypeOK
  <2> QED
    BY <1>1, <2>2 DEF PollWait, TypeOK, peers, sock
<1>2. CASE Lock
  BY <1>2 DEF Lock, TypeOK, peers, sock
<1>3. CASE Unlock
  BY <1>3 DEF Unlock, TypeOK, peers, sock
<1>4. CASE Overload
  BY <1>4 DEF Overload, TypeOK, peers, sock
<1>5. CASE Return
  <2>1. cur \in open
    BY <1>5 DEF Return
  <2>2. /\ autopaused' \in SUBSET open /\ paused' \in [Socks -> BOOLEAN]
        /\ polled' \in [Socks -> {"IN", "OUT", None}]
    BY <1>5, <2>1 DEF Return, TypeOK
  <2> QED
    BY <1>5, <2>2 DEF Return, TypeOK, peers
<1>6. ASSUME NEW x \in Socks, Read(x)
      PROVE  TypeInv'
  <2>1. got[x] + 1 \in Nat /\ got' = [got EXCEPT ![x] = @ + 1] /\ got'[x] = got[x] + 1
    BY <1>6 DEF Read, TypeOK
  <2>2. queue' \in Seq(Events)
    BY <1>6, <2>1, QueuePush, EventType DEF Read, Push, TypeOK, Types
  <2>3. /\ batch' \in SUBSET (Socks \X {"IN", "OUT"}) /\ UNCHANGED <<wpc, full, overloaded, conn, connpaused>>
        /\ UNCHANGED <<written, open, closing, sendqueue, direction, paused, polled, autopaused, manuallypaused>>
        /\ iopc' = "size" /\ cur' = x /\ x \in open
    BY <1>6 DEF Read, Take, TypeOK, sock
  <2>4. got' \in [Socks -> Nat]
    BY <2>1 DEF TypeOK
  <2> QED
    BY <2>2, <2>3, <2>4 DEF TypeOK
<1>7. ASSUME NEW x \in Socks, ReadEnd(x)
      PROVE  TypeInv'
  <2>1. queue' \in Seq(Events)
    BY <1>7, QueuePush, EventType DEF ReadEnd, Push, TypeOK, Types
  <2>2. TypeOK'
    BY <1>7, <2>1, CloseType DEF ReadEnd, Take, TypeOK, peers
  <2> QED
    BY <1>7, <2>2 DEF ReadEnd, Take
<1>8. ASSUME NEW x \in Socks, WriteSome(x)
      PROVE  TypeInv'
  <2>1. PICK k \in 1 .. Len(sendqueue[x]) - 1 :
            /\ written' = [written EXCEPT ![x] = @ + k]
            /\ sendqueue' = [sendqueue EXCEPT ![x] = SubSeq(@, k + 1, Len(@))]
    BY <1>8 DEF WriteSome
  <2>2. sendqueue[x] \in Seq(Nat) /\ written[x] \in Nat
    BY DEF TypeOK
  <2>3. SubSeq(sendqueue[x], k + 1, Len(sendqueue[x])) \in Seq(Nat) /\ written[x] + k \in Nat
    BY <2>2
  <2> QED
    BY <1>8, <2>1, <2>3 DEF WriteSome, Take, TypeOK
<1>9. ASSUME NEW x \in Socks, WriteAll(x)
      PROVE  TypeInv'
  <2>1. written' \in [Socks -> Nat]
    <3>1. sendqueue[x] \in Seq(Nat) /\ written[x] \in Nat
      BY DEF TypeOK
    <3>2. written[x] + Len(sendqueue[x]) \in Nat
      BY <3>1
    <3> QED
      BY <1>9, <3>2 DEF WriteAll, TypeOK
  <2>2. CASE x \in closing
    <3>1. CloseIntern(x) /\ UNCHANGED queue
      BY <1>9, <2>2 DEF WriteAll
    <3> QED
      BY <1>9, <2>1, <3>1, CloseType DEF WriteAll, Take, TypeOK
  <2>3. CASE x \notin closing
    <3>1. queue' \in Seq(Events)
      <4>1. Event("SENDCOMPLETE", x, 0) \in Events
        BY EventType DEF Types
      <4>2. Push(Event("SENDCOMPLETE", x, 0))
        BY <1>9, <2>3 DEF WriteAll
      <4> QED
        BY <4>1, <4>2, QueuePush DEF Push, TypeOK
    <3>0. /\ sendqueue' = [sendqueue EXCEPT ![x] = <<>>] /\ SetPoll(x, "IN")
          /\ UNCHANGED <<open, closing, paused, autopaused, manuallypaused, got, iopc, cur>>
      BY <1>9, <2>3 DEF WriteAll
    <3>2. /\ sendqueue' \in [Socks -> Seq(Nat)] /\ direction' \in [Socks -> {"IN", "OUT"}]
          /\ polled' \in [Socks -> {"IN", "OUT", None}]
          /\ UNCHANGED <<open, closing, paused, autopaused, manuallypaused, got, iopc, cur>>
      BY <3>0 DEF SetPoll, TypeOK
    <3>3. /\ batch' \in SUBSET (Socks \X {"IN", "OUT"}) /\ UNCHANGED <<wpc, full, overloaded, conn, connpaused>>
      BY <1>9 DEF WriteAll, Take, TypeOK
    <3> QED
      BY <2>1, <3>1, <3>2, <3>3 DEF TypeOK
  <2> QED
    BY <2>2, <2>3
<1>10. ASSUME NEW x \in Socks, WriteFails(x)
       PROVE  TypeInv'
  <2>1. queue' \in Seq(Events)
    <3>1. Event("DISCONNECTED", x, 0) \in Events
      BY EventType DEF Types
    <3>2. queue' = queue \/ queue' = Append(queue, Event("DISCONNECTED", x, 0))
      BY <1>10 DEF WriteFails, Push
    <3>3. queue \in Seq(Events)
      BY DEF TypeOK
    <3> QED
      BY <3>1, <3>2, <3>3, QueuePush
  <2> QED
    BY <1>10, <2>1, CloseType DEF WriteFails, Take, TypeOK, peers
<1>11. ASSUME NEW x \in Socks, NEW dir \in {"IN", "OUT"}, Skip(x, dir)
       PROVE  TypeInv'
  BY <1>11 DEF Skip, Take, TypeOK, peers, sock
<1> QED
  BY <1>1, <1>2, <1>3, <1>4, <1>5, <1>6, <1>7, <1>8, <1>9, <1>10, <1>11 DEF IONext

\* What the worker does keeps the types.
LEMMA HandledType ==
    ASSUME TypeOK, NEW t \in Types, NEW x \in Socks, At(t, x), Handled
    PROVE  /\ Head(queue) \in Events /\ queue' \in Seq(Events)
           /\ UNCHANGED <<got, written, iopc, batch, cur, overloaded>>
<1>1. queue \in Seq(Events) /\ queue # <<>>
  BY DEF TypeOK, Events, At
<1> QED
  BY <1>1, QueuePop DEF Handled, peers, iovar

LEMMA TypeData ==
    ASSUME TypeInv, NEW x \in Socks, HandleData(x)
    PROVE  TypeInv'
<1> DEFINE y == Twin(x)
<1>1. y \in Socks
  BY TwinTwin
<1>2. /\ At("DATA", x) /\ LockFree /\ Handled
      /\ UNCHANGED <<open, closing, paused, autopaused, manuallypaused, conn>>
  BY DEF HandleData
<1>3. /\ Head(queue) \in Events /\ queue' \in Seq(Events)
      /\ UNCHANGED <<got, written, iopc, batch, cur, overloaded>>
  BY <1>2, HandledType DEF Types, TypeInv
<1>4. TypeOK
  BY DEF TypeInv
<1>5. /\ sendqueue' \in [Socks -> Seq(Nat)] /\ direction' \in [Socks -> {"IN", "OUT"}]
      /\ polled' \in [Socks -> {"IN", "OUT", None}]
      /\ connpaused' \in SUBSET Socks /\ full' \in Socks /\ wpc' \in {"ready", "pausing"}
  <2>1. CASE y \in conn \cap open
    <3>1. /\ SendData(y, Head(queue).num)
          /\ polled' = IF paused[y] THEN polled ELSE [polled EXCEPT ![y] = "OUT"]
      BY <2>1 DEF HandleData
    <3>2. Head(queue).num \in Nat /\ sendqueue[y] \in Seq(Nat)
      BY <1>1, <1>3, <1>4 DEF Events, TypeOK
    <3>3. Append(sendqueue[y], Head(queue).num) \in Seq(Nat)
      BY <3>2
    <3>4. /\ sendqueue' \in [Socks -> Seq(Nat)] /\ direction' \in [Socks -> {"IN", "OUT"}]
          /\ polled' \in [Socks -> {"IN", "OUT", None}]
      BY <1>1, <1>4, <3>1, <3>3 DEF SendData, TypeOK
    <3>5. \/ connpaused' = connpaused \cup {x} /\ full' = x /\ wpc' = "pausing"
          \/ wpc' = "ready" /\ UNCHANGED <<connpaused, full>>
      BY <2>1 DEF HandleData
    <3>6. connpaused' \in SUBSET Socks /\ full' \in Socks /\ wpc' \in {"ready", "pausing"}
      BY <1>4, <3>5 DEF TypeOK
    <3> QED
      BY <3>4, <3>6
  <2>2. CASE y \notin conn \cap open
    <3>1. wpc' = "ready" /\ UNCHANGED <<sendqueue, direction, polled, connpaused, full>>
      BY <2>2 DEF HandleData
    <3> QED
      BY <1>4, <3>1 DEF TypeOK
  <2> QED
    BY <2>1, <2>2
<1>6. Reading'
  BY <1>2, <1>3 DEF TypeInv, Reading
<1> QED
  BY <1>2, <1>3, <1>4, <1>5, <1>6 DEF TypeInv, TypeOK, Events

LEMMA TypeSendComplete ==
    ASSUME TypeInv, NEW x \in Socks, HandleSendComplete(x)
    PROVE  TypeInv'
<1>1. /\ Handled /\ At("SENDCOMPLETE", x) /\ wpc' = "ready"
      /\ UNCHANGED <<open, closing, sendqueue, direction, autopaused, conn, full>>
  BY DEF HandleSendComplete, Done
<1>2. /\ queue' \in Seq(Events)
      /\ UNCHANGED <<got, written, iopc, batch, cur, overloaded>>
  BY <1>1, HandledType DEF Types, TypeInv
<1>3. TypeOK /\ Twin(x) \in Socks
  BY TwinTwin DEF TypeInv
<1>4. (Twin(x) \in open /\ Resume(Twin(x))) \/ UNCHANGED <<manuallypaused, paused, polled>>
  BY DEF HandleSendComplete
<1>5. /\ manuallypaused' \in SUBSET open /\ paused' \in [Socks -> BOOLEAN]
      /\ polled' \in [Socks -> {"IN", "OUT", None}]
  BY <1>3, <1>4 DEF Resume, TypeOK
<1>6. connpaused' \in SUBSET Socks
  BY <1>3 DEF HandleSendComplete, TypeOK
<1> QED
  BY <1>1, <1>2, <1>3, <1>5, <1>6 DEF TypeInv, TypeOK, Reading, Events

LEMMA TypeCloseSocket ==
    ASSUME TypeOK, NEW x \in Socks, CloseSocket(x)
    PROVE  /\ open' \in SUBSET Socks /\ closing' \in SUBSET open'
           /\ sendqueue' \in [Socks -> Seq(Nat)]
           /\ polled' \in [Socks -> {"IN", "OUT", None}]
           /\ direction' \in [Socks -> {"IN", "OUT"}] /\ paused' \in [Socks -> BOOLEAN]
           /\ autopaused' \in SUBSET open' /\ manuallypaused' \in SUBSET open'
<1>1. CASE CloseIntern(x)
  BY <1>1, CloseType
<1>2. CASE ~CloseIntern(x)
  BY <1>2 DEF CloseSocket, TypeOK, sock
<1> QED
  BY <1>1, <1>2

LEMMA TypeDisconnected ==
    ASSUME TypeInv, NEW x \in Socks, HandleDisconnected(x)
    PROVE  TypeInv'
<1>1. /\ Handled /\ At("DISCONNECTED", x) /\ LockFree /\ wpc' = "ready"
      /\ UNCHANGED <<connpaused, full>>
  BY DEF HandleDisconnected, Done
<1>2. /\ queue' \in Seq(Events)
      /\ UNCHANGED <<got, written, iopc, batch, cur, overloaded>>
  BY <1>1, HandledType DEF Types, TypeInv
<1>3. TypeOK /\ Twin(x) \in Socks
  BY TwinTwin DEF TypeInv
<1>4. (CloseSocket(Twin(x)) \/ UNCHANGED sock) /\ conn' \in SUBSET Socks
  BY <1>3 DEF HandleDisconnected, TypeOK
<1>5. /\ open' \in SUBSET Socks /\ closing' \in SUBSET open'
      /\ sendqueue' \in [Socks -> Seq(Nat)]
      /\ polled' \in [Socks -> {"IN", "OUT", None}]
      /\ direction' \in [Socks -> {"IN", "OUT"}] /\ paused' \in [Socks -> BOOLEAN]
      /\ autopaused' \in SUBSET open' /\ manuallypaused' \in SUBSET open'
  <2>1. CASE CloseSocket(Twin(x))
    BY <1>3, <2>1, TypeCloseSocket
  <2>2. CASE UNCHANGED sock
    BY <1>3, <2>2 DEF TypeOK, sock
  <2> QED
    BY <1>4, <2>1, <2>2
<1>6. Reading'
  BY <1>1, <1>2 DEF Reading, LockFree
<1> QED
  BY <1>1, <1>2, <1>3, <1>4, <1>5, <1>6 DEF TypeInv, TypeOK, Events

LEMMA TypeWorker ==
    ASSUME TypeInv, WorkerNext
    PROVE  TypeInv'
<1>1. CASE HandleTick
  BY <1>1 DEF HandleTick, TypeInv, TypeOK, Reading, peers, sock, iovar
<1>2. CASE CheckReady
  BY <1>2 DEF CheckReady, TypeInv, TypeOK, Reading, peers, sock, iovar
<1>3. CASE Clear
  BY <1>3 DEF Clear, TypeInv, TypeOK, Reading, peers, sock, iovar
<1>4. CASE Notify
  <2>1. TypeOK /\ Reading
    BY DEF TypeInv
  <2>2. paused' \in [Socks -> BOOLEAN] /\ polled' \in [Socks -> {"IN", "OUT", None}] /\ autopaused' = {}
    BY <1>4, <2>1 DEF Notify, TypeOK
  <2> QED
    BY <1>4, <2>1, <2>2 DEF Notify, TypeInv, TypeOK, Reading, peers, iovar
<1>5. CASE Pop
  BY <1>5 DEF Pop, TypeInv, TypeOK, Reading, peers, sock, iovar
<1>6. CASE PauseFull
  <2>1. TypeOK /\ Reading
    BY DEF TypeInv
  <2>2. /\ paused' \in [Socks -> BOOLEAN] /\ polled' \in [Socks -> {"IN", "OUT", None}]
        /\ manuallypaused' \in SUBSET open
    BY <1>6, <2>1 DEF PauseFull, Pause, TypeOK
  <2> QED
    BY <1>6, <2>1, <2>2 DEF PauseFull, TypeInv, TypeOK, Reading, peers, iovar
<1> QED
  BY <1>1, <1>2, <1>3, <1>4, <1>5, <1>6, TypeData, TypeSendComplete, TypeDisconnected DEF WorkerNext

LEMMA TypeStep == TypeInv /\ [Next]_vars => TypeInv'
<1> SUFFICES ASSUME TypeInv, [Next]_vars PROVE TypeInv'
  OBVIOUS
<1>1. CASE UNCHANGED vars
  BY <1>1 DEF vars, peers, sock, iovar, TypeInv, TypeOK, Reading
<1> QED
  BY <1>1, TypeIO, TypeWorker DEF Next

(* The variables of Relay keep their types: in particular a socket that is *)
(* closed, by its peer or for the other side, is in none of the sets of    *)
(* paused and closing sockets (iomanager.cpp:598).                         *)
THEOREM TypeCorrect == Spec => []TypeOK
<1>1. TypeInv => TypeOK
  BY DEF TypeInv
<1> QED
  BY <1>1, TypeInit, TypeStep, PTL DEF Spec

-----------------------------------------------------------------------------
(* The data of x in a queue: its places, and that it is numbered from .. to *)
(* in this order.                                                          *)

Places(q, x) == {i \in DOMAIN q : q[i].type = "DATA" /\ q[i].sock = x}
Increasing(q, x) == \A i, j \in Places(q, x) : i < j => q[i].num < q[j].num
Numbered(q, x, from, to) ==
    /\ \A i \in Places(q, x) : q[i].num \in from .. to
    /\ \A n \in from .. to : \E i \in Places(q, x) : q[i].num = n
    /\ Increasing(q, x)

\* What is queued behind it does not matter,
LEMMA PushOther ==
    ASSUME NEW q \in Seq(Events), NEW e \in Events, NEW x, NEW from, NEW to,
           ~(e.type = "DATA" /\ e.sock = x), Numbered(q, x, from, to)
    PROVE  Numbered(Append(q, e), x, from, to)
<1>1. Places(Append(q, e), x) = Places(q, x)
  BY DEF Places
<1>2. \A i \in Places(q, x) : Append(q, e)[i] = q[i]
  BY DEF Places
<1> QED
  BY <1>1, <1>2 DEF Numbered, Increasing

\* the next block of x goes behind it,
LEMMA PushNext ==
    ASSUME NEW q \in Seq(Events), NEW x \in Socks, NEW from \in Nat, NEW to \in Nat, from <= to + 1,
           Numbered(q, x, from, to)
    PROVE  Numbered(Append(q, Event("DATA", x, to + 1)), x, from, to + 1)
<1> DEFINE e == Event("DATA", x, to + 1)
           r == Append(q, e)
           k == Len(q) + 1
<1>1. e \in Events /\ e.type = "DATA" /\ e.sock = x /\ e.num = to + 1
  BY EventType DEF Event, Types
<1> HIDE DEF e
<1>2. /\ Len(q) \in Nat /\ DOMAIN r = 1 .. k /\ r[k] = e
      /\ DOMAIN q = 1 .. Len(q) /\ \A i \in DOMAIN q : r[i] = q[i]
  BY <1>1
<1> HIDE DEF r, k
<1>3. Places(r, x) = Places(q, x) \cup {k} /\ \A i \in Places(q, x) : r[i] = q[i] /\ i < k /\ i \in Nat
  BY <1>1, <1>2 DEF Places, k
<1>4. \A i \in Places(q, x) : r[i].num \in from .. to
  BY <1>3 DEF Numbered
<1>5. \A i \in Places(r, x) : r[i].num \in from .. to + 1
  BY <1>1, <1>2, <1>3, <1>4
<1>6. ASSUME NEW n \in from .. to + 1 PROVE \E i \in Places(r, x) : r[i].num = n
  <2>1. CASE n = to + 1
    BY <1>1, <1>2, <1>3, <2>1
  <2>2. CASE n \in from .. to
    BY <1>3, <2>2 DEF Numbered
  <2> QED
    BY <2>1, <2>2
<1>7. ASSUME NEW i \in Places(r, x), NEW j \in Places(r, x), i < j PROVE r[i].num < r[j].num
  <2>1. i \in Places(q, x)
    BY <1>2, <1>3, <1>7 DEF k
  <2>2. CASE j = k
    BY <1>1, <1>2, <1>4, <2>1, <2>2
  <2>3. CASE j \in Places(q, x)
    BY <1>3, <1>7, <2>1, <2>3 DEF Numbered, Increasing
  <2> QED
    BY <1>3, <2>2, <2>3
<1> QED
  BY <1>5, <1>6, <1>7 DEF Numbered, Increasing, r, e

\* and what is handled in front of it leaves it one place further on.
Shifted(q, t, x) ==
    /\ \A i \in Places(t, x) : i + 1 \in Places(q, x) /\ t[i] = q[i + 1] /\ i \in Nat \ {0}
    /\ \A i \in Places(q, x) : i # 1 => i - 1 \in Places(t, x) /\ t[i - 1] = q[i]
    /\ \A i \in Places(q, x) : i \in Nat \ {0}
    /\ 1 \in Places(q, x) <=> Head(q).type = "DATA" /\ Head(q).sock = x
    /\ Head(q) = q[1]

LEMMA PopPlaces ==
    ASSUME NEW q \in Seq(Events), q # <<>>, NEW x
    PROVE  Shifted(q, Tail(q), x)
<1>1. /\ Len(q) \in Nat \ {0} /\ DOMAIN q = 1 .. Len(q) /\ DOMAIN Tail(q) = 1 .. Len(q) - 1
      /\ \A i \in 1 .. Len(q) - 1 : Tail(q)[i] = q[i + 1]
      /\ Head(q) = q[1]
  OBVIOUS
<1>2. ASSUME NEW i \in Places(Tail(q), x)
      PROVE  i + 1 \in Places(q, x) /\ Tail(q)[i] = q[i + 1] /\ i \in Nat \ {0}
  BY <1>1, <1>2 DEF Places
<1>3. ASSUME NEW i \in Places(q, x), i # 1
      PROVE  i - 1 \in Places(Tail(q), x) /\ Tail(q)[i - 1] = q[i]
  <2>1. i \in 2 .. Len(q) /\ i - 1 \in 1 .. Len(q) - 1 /\ (i - 1) + 1 = i
    BY <1>1, <1>3 DEF Places
  <2>2. Tail(q)[i - 1] = q[i]
    BY <1>1, <2>1
  <2> QED
    BY <1>1, <2>1, <2>2 DEF Places
<1> QED
  BY <1>1, <1>2, <1>3 DEF Places, Shifted

LEMMA PopOther ==
    ASSUME NEW q \in Seq(Events), q # <<>>, NEW x, NEW from, NEW to,
           ~(Head(q).type = "DATA" /\ Head(q).sock = x), Numbered(q, x, from, to)
    PROVE  Numbered(Tail(q), x, from, to)
<1> DEFINE t == Tail(q)
<1>0. Shifted(q, t, x)
  BY PopPlaces
<1> HIDE DEF t
<1>1. 1 \notin Places(q, x)
  BY <1>0 DEF Shifted
<1>2. \A i \in Places(t, x) : i + 1 \in Places(q, x) /\ t[i] = q[i + 1] /\ i \in Nat \ {0}
  BY <1>0 DEF Shifted
<1>3. \A i \in Places(q, x) : i - 1 \in Places(t, x) /\ t[i - 1] = q[i]
  BY <1>0, <1>1 DEF Shifted
<1>4. \A n \in from .. to : \E i \in Places(t, x) : t[i].num = n
  BY <1>3 DEF Numbered
<1>5. ASSUME NEW i \in Places(t, x), NEW j \in Places(t, x), i < j PROVE t[i].num < t[j].num
  <2>1. i + 1 < j + 1
    BY <1>2, <1>5
  <2> QED
    BY <1>2, <2>1 DEF Numbered, Increasing
<1> QED
  BY <1>2, <1>4, <1>5 DEF Numbered, Increasing, t

\* The first of it is the next to be sent.
LEMMA PopNext ==
    ASSUME NEW q \in Seq(Events), q # <<>>, NEW x, NEW from \in Nat, NEW to \in Nat,
           Head(q).type = "DATA", Head(q).sock = x, Numbered(q, x, from, to)
    PROVE  Head(q).num = from /\ from <= to /\ Numbered(Tail(q), x, from + 1, to)
<1> DEFINE t == Tail(q)
<1>0. Shifted(q, t, x)
  BY PopPlaces
<1> HIDE DEF t
<1>1. 1 \in Places(q, x) /\ Head(q) = q[1]
  BY <1>0 DEF Shifted
<1>2. \A i \in Places(t, x) : i + 1 \in Places(q, x) /\ t[i] = q[i + 1] /\ i \in Nat \ {0}
  BY <1>0 DEF Shifted
<1>3. \A i \in Places(q, x) : i # 1 => i - 1 \in Places(t, x) /\ t[i - 1] = q[i]
  BY <1>0 DEF Shifted
<1>4. \A i \in Places(q, x) : i \in Nat \ {0}
  BY <1>0 DEF Shifted
<1>5. q[1].num \in from .. to /\ from <= to
  BY <1>1 DEF Numbered
<1>6. PICK i \in Places(q, x) : q[i].num = from
  BY <1>5 DEF Numbered
<1>7. q[1].num = from
  <2>1. CASE i = 1
    BY <1>6, <2>1
  <2>2. CASE i > 1
    BY <1>1, <1>5, <1>6, <2>2 DEF Numbered, Increasing
  <2> QED
    BY <1>4, <2>1, <2>2
<1>8. ASSUME NEW j \in Places(t, x) PROVE t[j].num \in from + 1 .. to
  <2>1. j + 1 \in Places(q, x) /\ 1 < j + 1 /\ t[j] = q[j + 1]
    BY <1>2, <1>4
  <2>2. q[1].num < q[j + 1].num /\ q[j + 1].num \in from .. to
    BY <1>1, <2>1 DEF Numbered, Increasing
  <2> QED
    BY <1>7, <2>1, <2>2
<1>9. ASSUME NEW n \in from + 1 .. to PROVE \E j \in Places(t, x) : t[j].num = n
  <2>1. PICK j \in Places(q, x) : q[j].num = n
    BY DEF Numbered
  <2>2. j # 1
    BY <1>7, <2>1
  <2> QED
    BY <1>3, <2>1, <2>2
<1>10. ASSUME NEW j \in Places(t, x), NEW k \in Places(t, x), j < k PROVE t[j].num < t[k].num
  <2>1. j + 1 < k + 1
    BY <1>2, <1>10
  <2> QED
    BY <1>2, <2>1 DEF Numbered, Increasing
<1> QED
  BY <1>1, <1>5, <1>7, <1>8, <1>9, <1>10 DEF Numbered, Increasing, t

-----------------------------------------------------------------------------
(* Conserved, for one connection and with what it leaves unsaid: no more   *)
(* has been sent than read.                                                *)

Sent(y) == written[y] + Len(sendqueue[y])
Side(y) ==
    /\ \A i \in DOMAIN sendqueue[y] : sendqueue[y][i] = written[y] + i
    /\ Sent(y) <= got[Twin(y)]
    /\ Numbered(queue, Twin(y), Sent(y) + 1, got[Twin(y)])
Sides == \A y \in conn \cap open : Side(y)

LEMMA SidesConserved == Sides => Conserved
<1> SUFFICES ASSUME Sides, NEW y \in conn \cap open
             PROVE  LET x == Twin(y)
                        sent == written[y] + Len(sendqueue[y])
                    IN  /\ \A i \in DOMAIN sendqueue[y] : sendqueue[y][i] = written[y] + i
                        /\ {queue[i].num : i \in DataOf(x)} = sent + 1 .. got[x]
                        /\ \A i, j \in DataOf(x) : i < j => queue[i].num < queue[j].num
  BY DEF Conserved
<1>1. Side(y) /\ DataOf(Twin(y)) = Places(queue, Twin(y))
  BY DEF Sides, DataOf, Places
<1> QED
  BY <1>1 DEF Side, Sent, Numbered, Increasing

LEMMA SidesInit == Init => Sides
<1> SUFFICES ASSUME Init, NEW y \in Socks PROVE Side(y)
  BY DEF Init, Sides
<1>1. Twin(y) \in Socks
  BY TwinTwin
<1> QED
  BY <1>1 DEF Init, Side, Sent, Numbered, Increasing, Places

\* Nothing of x changes: an event is pushed or handled that is not its data.
Elsewhere(x) ==
    \/ UNCHANGED queue
    \/ \E e \in Events : ~(e.type = "DATA" /\ e.sock = x) /\ Push(e)
    \/ /\ queue # <<>> /\ queue' = Tail(queue)
       /\ ~(Head(queue).type = "DATA" /\ Head(queue).sock = x)

LEMMA ElsewhereNumbered ==
    ASSUME TypeOK, NEW x, Elsewhere(x), NEW from, NEW to, Numbered(queue, x, from, to)
    PROVE  Numbered(queue', x, from, to)
<1>1. queue \in Seq(Events)
  BY DEF TypeOK, Events
<1>2. CASE UNCHANGED queue
  BY <1>2
<1>3. CASE \E e \in Events : ~(e.type = "DATA" /\ e.sock = x) /\ Push(e)
  BY <1>1, <1>3, PushOther DEF Push
<1>4. CASE /\ queue # <<>> /\ queue' = Tail(queue)
           /\ ~(Head(queue).type = "DATA" /\ Head(queue).sock = x)
  BY <1>1, <1>4, PopOther
<1> QED
  BY <1>2, <1>3, <1>4 DEF Elsewhere

LEMMA SideSame ==
    ASSUME TypeOK, NEW y \in Socks, Side(y), Elsewhere(Twin(y)), sendqueue'[y] = sendqueue[y],
           written'[y] = written[y], got'[Twin(y)] = got[Twin(y)]
    PROVE  Side(y)'
<1>1. Sent(y)' = Sent(y)
  BY DEF Sent
<1>2. Numbered(queue', Twin(y), Sent(y) + 1, got[Twin(y)])
  BY ElsewhereNumbered DEF Side
<1> QED
  BY <1>1, <1>2 DEF Side

\* A block is read from the twin of y,
LEMMA SideRead ==
    ASSUME TypeOK, NEW y \in Socks, Side(y), Read(Twin(y))
    PROVE  Side(y)'
<1> DEFINE x == Twin(y)
<1>1. x \in Socks
  BY TwinTwin
<1>2. /\ got[x] \in Nat /\ Sent(y) \in Nat /\ Sent(y) + 1 \in Nat /\ queue \in Seq(Events) /\ Sent(y) <= got[x]
      /\ Numbered(queue, x, Sent(y) + 1, got[x])
  BY <1>1 DEF TypeOK, Sent, Side, Events
<1>3. got'[x] = got[x] + 1 /\ queue' = Append(queue, Event("DATA", x, got[x] + 1)) /\ UNCHANGED <<written, sendqueue>>
  BY <1>1 DEF Read, Push, TypeOK, sock
<1> HIDE DEF x
<1>4. Sent(y) + 1 <= got[x] + 1
  BY <1>2
<1>5. Numbered(queue', x, Sent(y) + 1, got[x] + 1)
  BY <1>1, <1>2, <1>3, <1>4, PushNext
<1>6. Sent(y)' = Sent(y)
  BY <1>3 DEF Sent
<1>7. Sent(y)' <= got'[x]
  BY <1>2, <1>3, <1>6
<1> QED
  BY <1>3, <1>5, <1>6, <1>7 DEF Side, x

\* sent on to y,
LEMMA SideData ==
    ASSUME TypeOK, NEW y \in Socks, y \in conn \cap open, Side(y), HandleData(Twin(y))
    PROVE  Side(y)'
<1> DEFINE x == Twin(y)
           n == Head(queue).num
<1>1. x \in Socks /\ Twin(x) = y
  BY TwinTwin
<1>2. /\ got[x] \in Nat /\ written[y] \in Nat /\ sendqueue[y] \in Seq(Nat) /\ queue \in Seq(Events)
      /\ Sent(y) = written[y] + Len(sendqueue[y])
      /\ Numbered(queue, x, Sent(y) + 1, got[x])
  BY <1>1 DEF TypeOK, Sent, Side, Events
<1>3. /\ queue # <<>> /\ Head(queue).type = "DATA" /\ Head(queue).sock = x
      /\ queue' = Tail(queue) /\ UNCHANGED <<got, written>>
  BY DEF HandleData, At, Handled, peers
<1>4. SendData(y, n)
  BY <1>1 DEF HandleData
<1>5. sendqueue'[y] = Append(sendqueue[y], n)
  BY <1>4 DEF SendData, TypeOK
<1>6. n = Sent(y) + 1 /\ Sent(y) + 1 <= got[x] /\ Numbered(queue', x, Sent(y) + 1 + 1, got[x])
  <2>1. Sent(y) + 1 \in Nat
    BY <1>2
  <2> QED
    BY <1>2, <1>3, <2>1, PopNext
<1> HIDE DEF x, n
<1>a. Len(sendqueue[y]) \in Nat /\ Sent(y) \in Nat /\ n \in Nat
  BY <1>2, <1>6
<1>7. Sent(y)' = Sent(y) + 1
  <2>1. Sent(y)' = written[y] + Len(Append(sendqueue[y], n))
    BY <1>3, <1>5 DEF Sent
  <2>2. n \in Nat /\ Len(Append(sendqueue[y], n)) = Len(sendqueue[y]) + 1
    BY <1>2, <1>a
  <2> QED
    BY <1>2, <1>a, <2>1, <2>2
<1>8. ASSUME NEW i \in DOMAIN sendqueue'[y] PROVE sendqueue'[y][i] = written'[y] + i
  <2>1. n \in Nat /\ i \in 1 .. Len(sendqueue[y]) + 1
    BY <1>2, <1>5, <1>6
  <2>2. CASE i = Len(sendqueue[y]) + 1
    <3>1. sendqueue'[y][i] = n
      BY <1>2, <1>5, <2>1, <2>2
    <3> QED
      BY <1>2, <1>3, <1>6, <1>a, <2>2, <3>1
  <2>3. CASE i \in 1 .. Len(sendqueue[y])
    <3>1. sendqueue'[y][i] = sendqueue[y][i] /\ i \in DOMAIN sendqueue[y]
      BY <1>2, <1>5, <2>1, <2>3
    <3> QED
      BY <1>3, <3>1 DEF Side
  <2> QED
    BY <1>2, <2>1, <2>2, <2>3
<1> QED
  BY <1>3, <1>6, <1>7, <1>8 DEF Side, x

\* and written, alone or with others.
LEMMA SideWritten ==
    ASSUME TypeOK, NEW y \in Socks, Side(y), NEW k \in 0 .. Len(sendqueue[y]), Elsewhere(Twin(y)),
           written'[y] = written[y] + k, sendqueue'[y] = SubSeq(sendqueue[y], k + 1, Len(sendqueue[y])),
           UNCHANGED got
    PROVE  Side(y)'
<1>1. sendqueue[y] \in Seq(Nat) /\ written[y] \in Nat
  BY DEF TypeOK
<1>2. /\ Len(sendqueue'[y]) = Len(sendqueue[y]) - k
      /\ DOMAIN sendqueue'[y] = 1 .. Len(sendqueue[y]) - k
      /\ \A i \in 1 .. Len(sendqueue[y]) - k : sendqueue'[y][i] = sendqueue[y][k + i]
  <2>1. sendqueue[y] \in Seq(Nat) /\ k \in 0 .. Len(sendqueue[y]) /\ Len(sendqueue[y]) \in Nat
    BY <1>1
  <2>2. sendqueue'[y] = SubSeq(sendqueue[y], k + 1, Len(sendqueue[y]))
    OBVIOUS
  <2> QED
    BY ONLY <2>1, <2>2
<1>3. Sent(y)' = Sent(y)
  BY <1>1, <1>2 DEF Sent
<1>4. ASSUME NEW i \in DOMAIN sendqueue'[y] PROVE sendqueue'[y][i] = written'[y] + i
  <2>1. k + i \in DOMAIN sendqueue[y]
    BY <1>1, <1>2
  <2>2. sendqueue[y][k + i] = written[y] + (k + i) /\ sendqueue'[y][i] = sendqueue[y][k + i]
    BY <1>1, <1>2, <2>1 DEF Side
  <2>3. k \in Int /\ i \in Int
    BY <1>1, <1>2
  <2> QED
    BY <1>1, <2>2, <2>3
<1>5. Numbered(queue', Twin(y), Sent(y) + 1, got[Twin(y)])
  BY ElsewhereNumbered DEF Side
<1> QED
  BY <1>3, <1>4, <1>5 DEF Side

\* An event that is not data leaves the data of everyone where it is.
LEMMA PushElsewhere ==
    ASSUME NEW x, NEW s \in Socks, NEW t \in {"SENDCOMPLETE", "DISCONNECTED"}, Push(Event(t, s, 0))
    PROVE  Elsewhere(x)
<1>1. Event(t, s, 0) \in Events /\ Event(t, s, 0).type = t
  BY EventType DEF Event, Types
<1> QED
  BY <1>1 DEF Elsewhere

LEMMA PopElsewhere ==
    ASSUME NEW x, NEW s, NEW t \in Types, At(t, s), queue' = Tail(queue), t # "DATA" \/ s # x
    PROVE  Elsewhere(x)
BY DEF At, Elsewhere

\* Nothing is opened again.
LEMMA OpenShrinks ==
    ASSUME TypeInv, Next
    PROVE  open' \subseteq open /\ conn' \subseteq conn
<1> USE DEF sock, CloseIntern
<1>1. CASE IONext
  <2>1. ASSUME NEW x \in Socks,
               \/ Read(x) \/ ReadEnd(x) \/ WriteSome(x) \/ WriteAll(x) \/ WriteFails(x)
               \/ \E dir \in {"IN", "OUT"} : Skip(x, dir)
        PROVE  open' \subseteq open /\ conn' = conn
    BY <2>1 DEF Read, ReadEnd, WriteSome, WriteAll, WriteFails, Skip, Take
  <2> QED
    BY <1>1, <2>1 DEF IONext, PollWait, Lock, Unlock, Overload, Return
<1>2. CASE WorkerNext
  <2>1. ASSUME NEW x \in Socks, HandleDisconnected(x) PROVE open' \subseteq open /\ conn' \subseteq conn
    BY <2>1 DEF HandleDisconnected, CloseSocket
  <2> QED
    BY <1>2, <2>1 DEF WorkerNext, Pop, PauseFull, HandleTick, CheckReady, Clear, Notify, HandleData,
                      HandleSendComplete
<1> QED
  BY <1>1, <1>2 DEF Next

LEMMA SidesIO ==
    ASSUME TypeInv, NEW y \in Socks, y \in open', Side(y), IONext
    PROVE  Side(y)'
<1> USE DEF Elsewhere
<1> DEFINE Same == /\ UNCHANGED <<written, got>> /\ sendqueue'[y] = sendqueue[y] /\ Elsewhere(Twin(y))
<1>0. TypeOK
  BY DEF TypeInv
<1>1. Same => Side(y)'
  BY <1>0, SideSame
<1>2. CASE PollWait \/ Lock \/ Unlock \/ Overload \/ Return
  BY <1>1, <1>2 DEF PollWait, Lock, Unlock, Overload, Return, peers, sock
<1>3. ASSUME NEW x \in Socks, Read(x) PROVE Side(y)'
  <2>1. CASE x = Twin(y)
    BY <1>0, <1>3, <2>1, SideRead
  <2>2. CASE x # Twin(y)
    <3>1. Event("DATA", x, got'[x]) \in Events /\ Event("DATA", x, got'[x]).sock = x
      <4>1. got'[x] \in Nat
        BY <1>0, <1>3 DEF Read, TypeOK
      <4> QED
        BY <4>1, EventType DEF Event, Types
    <3>2. Elsewhere(Twin(y))
      BY <1>3, <2>2, <3>1 DEF Read
    <3>3. got'[Twin(y)] = got[Twin(y)] /\ UNCHANGED <<written, sendqueue>>
      BY <1>0, <1>3, <2>2, TwinTwin DEF Read, sock, TypeOK
    <3> QED
      BY <1>0, <3>2, <3>3, SideSame
  <2> QED
    BY <2>1, <2>2
<1>4. ASSUME NEW x \in Socks, ReadEnd(x) PROVE Side(y)'
  <2>1. x # y /\ sendqueue'[y] = sendqueue[y]
    BY <1>0, <1>4 DEF ReadEnd, CloseIntern, TypeOK
  <2>2. Elsewhere(Twin(y))
    BY <1>4, PushElsewhere DEF ReadEnd
  <2> QED
    BY <1>1, <1>4, <2>1, <2>2 DEF ReadEnd, peers
<1>5. ASSUME NEW x \in Socks, WriteFails(x) PROVE Side(y)'
  <2>1. x # y /\ sendqueue'[y] = sendqueue[y]
    BY <1>0, <1>5 DEF WriteFails, CloseIntern, TypeOK
  <2>2. Elsewhere(Twin(y))
    BY <1>5, PushElsewhere DEF WriteFails
  <2> QED
    BY <1>1, <1>5, <2>1, <2>2 DEF WriteFails, peers
<1>6. ASSUME NEW x \in Socks, WriteSome(x) PROVE Side(y)'
  <2>1. PICK k \in 1 .. Len(sendqueue[x]) - 1 :
            /\ written' = [written EXCEPT ![x] = @ + k]
            /\ sendqueue' = [sendqueue EXCEPT ![x] = SubSeq(@, k + 1, Len(@))]
    BY <1>6 DEF WriteSome
  <2>2. UNCHANGED <<queue, got>>
    BY <1>6 DEF WriteSome
  <2>3. CASE x = y
    <3>1. written'[y] = written[y] + k /\ sendqueue'[y] = SubSeq(sendqueue[y], k + 1, Len(sendqueue[y]))
      BY <1>0, <2>1, <2>3 DEF TypeOK
    <3>2. k \in 0 .. Len(sendqueue[y])
      BY <2>3
    <3> QED
      BY <1>0, <2>2, <3>1, <3>2, SideWritten
  <2>4. CASE x # y
    BY <1>0, <2>1, <2>2, <2>4, SideSame DEF TypeOK
  <2> QED
    BY <2>3, <2>4
<1>7. ASSUME NEW x \in Socks, WriteAll(x) PROVE Side(y)'
  <2>1. Elsewhere(Twin(y))
    <3>1. UNCHANGED queue \/ Push(Event("SENDCOMPLETE", x, 0))
      BY <1>7 DEF WriteAll
    <3> QED
      BY <3>1, PushElsewhere
  <2>2. UNCHANGED got /\ written' = [written EXCEPT ![x] = @ + Len(sendqueue[x])]
    BY <1>7 DEF WriteAll
  <2>3. sendqueue' = [sendqueue EXCEPT ![x] = <<>>]
    BY <1>7 DEF WriteAll, CloseIntern
  <2>4. CASE x = y
    <3>1. sendqueue[y] \in Seq(Nat)
      BY <1>0 DEF TypeOK
    <3>2. SubSeq(sendqueue[y], Len(sendqueue[y]) + 1, Len(sendqueue[y])) = <<>>
      BY <3>1
    <3>3. /\ written'[y] = written[y] + Len(sendqueue[y]) /\ sendqueue'[y] = <<>>
          /\ Len(sendqueue[y]) \in 0 .. Len(sendqueue[y])
      BY <1>0, <2>2, <2>3, <2>4, <3>1 DEF TypeOK
    <3> QED
      BY <1>0, <2>1, <2>2, <3>2, <3>3, SideWritten
  <2>5. CASE x # y
    <3>1. written'[y] = written[y] /\ sendqueue'[y] = sendqueue[y]
      BY <1>0, <2>2, <2>3, <2>5 DEF TypeOK
    <3> QED
      BY <1>0, <2>1, <2>2, <3>1, SideSame
  <2> QED
    BY <2>4, <2>5
<1>8. ASSUME NEW x \in Socks, NEW dir \in {"IN", "OUT"}, Skip(x, dir) PROVE Side(y)'
  BY <1>1, <1>8 DEF Skip, peers, sock
<1> QED
  BY <1>2, <1>3, <1>4, <1>5, <1>6, <1>7, <1>8 DEF IONext

LEMMA SidesWorker ==
    ASSUME TypeInv, NEW y \in conn \cap open, y \in conn', Side(y), WorkerNext
    PROVE  Side(y)'
<1> USE DEF Elsewhere
<1>0. TypeOK /\ y \in Socks
  BY DEF TypeInv, TypeOK
<1>1. CASE Pop \/ PauseFull \/ HandleTick \/ CheckReady \/ Clear \/ Notify
  BY <1>0, <1>1, SideSame DEF Pop, PauseFull, HandleTick, CheckReady, Clear, Notify, peers, sock
<1>2. ASSUME NEW x \in Socks, HandleData(x) PROVE Side(y)'
  <2>1. CASE x = Twin(y)
    BY <1>0, <1>2, <2>1, SideData
  <2>2. CASE x # Twin(y)
    <3>1. Elsewhere(Twin(y)) /\ UNCHANGED <<got, written>>
      BY <1>2, <2>2, PopElsewhere DEF HandleData, Handled, peers, Types
    <3>2. Twin(x) # y /\ Twin(x) \in Socks
      BY <1>0, <2>2, TwinTwin
    <3>3. sendqueue'[y] = sendqueue[y]
      BY <1>0, <1>2, <3>2 DEF HandleData, SendData, TypeOK
    <3> QED
      BY <1>0, <3>1, <3>3, SideSame
  <2> QED
    BY <2>1, <2>2
<1>3. ASSUME NEW x \in Socks, HandleSendComplete(x) PROVE Side(y)'
  <2>1. Elsewhere(Twin(y)) /\ UNCHANGED <<got, written, sendqueue>>
    BY <1>3, PopElsewhere DEF HandleSendComplete, Done, Handled, peers, Types
  <2> QED
    BY <1>0, <2>1, SideSame
<1>4. ASSUME NEW x \in Socks, HandleDisconnected(x) PROVE Side(y)'
  <2>1. Elsewhere(Twin(y)) /\ UNCHANGED <<got, written>>
    BY <1>4, PopElsewhere DEF HandleDisconnected, Done, Handled, peers, Types
  <2>2. UNCHANGED sendqueue
    BY <1>4 DEF HandleDisconnected, sock
  <2> QED
    BY <1>0, <2>1, <2>2, SideSame
<1> QED
  BY <1>1, <1>2, <1>3, <1>4 DEF WorkerNext

LEMMA SidesStep == TypeInv /\ Sides /\ [Next]_vars => Sides'
<1> SUFFICES ASSUME TypeInv, Sides, [Next]_vars, NEW y \in conn' \cap open' PROVE Side(y)'
  BY DEF Sides
<1>1. CASE Next
  <2>1. y \in conn \cap open /\ y \in Socks
    BY <1>1, OpenShrinks DEF TypeInv, TypeOK
  <2> QED
    BY <1>1, <2>1, SidesIO, SidesWorker DEF Next, Sides
<1>2. CASE UNCHANGED vars
  <2>1. Side(y) /\ y \in Socks
    BY <1>2 DEF Sides, vars, sock, TypeInv, TypeOK
  <2> QED
    BY <1>2, <2>1, SideSame DEF vars, peers, sock, TypeInv, Elsewhere
<1> QED
  BY <1>1, <1>2

(* What one peer sends reaches the other whole, once and in its order, as  *)
(* long as the connection to it is open: however the reads, the worker's   *)
(* events, the partial writes and the pauses interleave, and with any      *)
(* sizes (trafficbncsession.cpp:81, iomanager.cpp:554 and 883).            *)
THEOREM NothingLost == Spec => []Conserved
<1>1. Init => TypeInv /\ Sides
  BY TypeInit, SidesInit
<1>2. TypeInv /\ Sides /\ [Next]_vars => (TypeInv /\ Sides)'
  BY TypeStep, SidesStep
<1> QED
  BY <1>1, <1>2, SidesConserved, PTL DEF Spec

-----------------------------------------------------------------------------
(* PauseEnds.                                                              *)

Complete(y) == Event("SENDCOMPLETE", y, 0)
Coming(y) == \E i \in DOMAIN queue : queue[i] = Complete(y)
Awaited(y) == sendqueue[y] # <<>> \/ Coming(y)

\* A SENDCOMPLETE stays in the queue until it is handled,
LEMMA ComingStays ==
    ASSUME TypeOK, NEW y, Coming(y),
           \/ UNCHANGED queue
           \/ \E e \in Events : Push(e)
           \/ queue # <<>> /\ queue' = Tail(queue) /\ Head(queue) # Complete(y)
    PROVE  Coming(y)'
<1>1. queue \in Seq(Events)
  BY DEF TypeOK, Events
<1>2. PICK i \in DOMAIN queue : queue[i] = Complete(y)
  BY DEF Coming
<1>3. CASE UNCHANGED queue
  BY <1>2, <1>3 DEF Coming
<1>4. ASSUME NEW e \in Events, Push(e) PROVE Coming(y)'
  <2>1. i \in DOMAIN queue' /\ queue'[i] = queue[i]
    BY <1>1, <1>2, <1>4 DEF Push
  <2> QED
    BY <1>2, <2>1 DEF Coming, Complete
<1>5. CASE queue # <<>> /\ queue' = Tail(queue) /\ Head(queue) # Complete(y)
  <2>1. /\ Len(queue) \in Nat \ {0} /\ DOMAIN queue = 1 .. Len(queue)
        /\ DOMAIN queue' = 1 .. Len(queue) - 1
        /\ \A j \in 1 .. Len(queue) - 1 : queue'[j] = queue[j + 1]
        /\ Head(queue) = queue[1]
    BY <1>1, <1>5
  <2>2. i # 1 /\ i - 1 \in 1 .. Len(queue) - 1 /\ (i - 1) + 1 = i
    <3>1. i # 1
      BY <1>2, <1>5, <2>1
    <3>2. i \in 1 .. Len(queue) /\ Len(queue) \in Nat
      BY <1>2, <2>1
    <3> QED
      BY <3>1, <3>2
  <2>3. queue'[i - 1] = queue[i] /\ i - 1 \in DOMAIN queue'
    BY <2>1, <2>2
  <2>4. queue'[i - 1] = Complete(y)'
    BY <1>2, <2>3 DEF Complete
  <2> QED
    BY <2>3, <2>4 DEF Coming
<1> QED
  BY <1>3, <1>4, <1>5

LEMMA AwaitedStays ==
    ASSUME TypeOK, NEW y, Awaited(y),
           sendqueue[y] # <<>> => sendqueue'[y] # <<>>,
           \/ UNCHANGED queue
           \/ \E e \in Events : Push(e)
           \/ queue # <<>> /\ queue' = Tail(queue) /\ Head(queue) # Complete(y)
    PROVE  Awaited(y)'
BY ComingStays DEF Awaited

\* and the IO thread that empties the send queue pushes it.
LEMMA PauseIO ==
    ASSUME TypeInv, NEW y \in Socks, y \in open', Awaited(y), IONext
    PROVE  Awaited(y)'
<1>0. TypeOK
  BY DEF TypeInv
<1>1. CASE PollWait \/ Lock \/ Unlock \/ Overload \/ Return
  BY <1>0, <1>1, AwaitedStays DEF PollWait, Lock, Unlock, Overload, Return, peers, sock
<1>2. ASSUME NEW x \in Socks, Read(x) PROVE Awaited(y)'
  <2>1. got'[x] \in Nat
    BY <1>0, <1>2 DEF Read, TypeOK
  <2>2. \E e \in Events : Push(e)
    BY <1>2, <2>1, EventType DEF Read, Types
  <2> QED
    BY <1>0, <1>2, <2>2, AwaitedStays DEF Read, sock
<1>3. ASSUME NEW x \in Socks, ReadEnd(x) \/ WriteFails(x) PROVE Awaited(y)'
  <2>1. x # y /\ sendqueue'[y] = sendqueue[y]
    BY <1>0, <1>3 DEF ReadEnd, WriteFails, CloseIntern, TypeOK
  <2>2. Event("DISCONNECTED", x, 0) \in Events
    BY EventType DEF Types
  <2>3. UNCHANGED queue \/ \E e \in Events : Push(e)
    BY <1>3, <2>2 DEF ReadEnd, WriteFails
  <2> QED
    BY <1>0, <2>1, <2>3, AwaitedStays
<1>4. ASSUME NEW x \in Socks, WriteSome(x) PROVE Awaited(y)'
  <2>1. PICK k \in 1 .. Len(sendqueue[x]) - 1 :
            sendqueue' = [sendqueue EXCEPT ![x] = SubSeq(@, k + 1, Len(@))]
    BY <1>4 DEF WriteSome
  <2>2. sendqueue[x] \in Seq(Nat)
    BY <1>0 DEF TypeOK
  <2>3. SubSeq(sendqueue[x], k + 1, Len(sendqueue[x])) # <<>>
    <3>1. Len(SubSeq(sendqueue[x], k + 1, Len(sendqueue[x]))) = Len(sendqueue[x]) - k
      BY <2>2
    <3>2. Len(sendqueue[x]) - k >= 1
      BY <2>2
    <3> DEFINE s == SubSeq(sendqueue[x], k + 1, Len(sendqueue[x]))
    <3>3. Len(s) >= 1
      BY <3>1, <3>2
    <3> HIDE DEF s
    <3>4. s # <<>>
      BY <3>3
    <3> QED
      BY <3>4 DEF s
  <2>4. sendqueue[y] # <<>> => sendqueue'[y] # <<>>
    BY <1>0, <2>1, <2>3 DEF TypeOK
  <2>5. UNCHANGED queue
    BY <1>4 DEF WriteSome
  <2> QED
    BY <1>0, <2>4, <2>5, AwaitedStays
<1>5. ASSUME NEW x \in Socks, WriteAll(x) PROVE Awaited(y)'
  <2>0. Complete(x) \in Events
    BY EventType DEF Complete, Types
  <2>1. CASE x = y
    <3>1. x \notin closing /\ queue' = Append(queue, Complete(x))
      BY <1>0, <1>5, <2>1 DEF WriteAll, CloseIntern, Push, Complete
    <3>2. Len(queue) + 1 \in DOMAIN queue' /\ queue'[Len(queue) + 1] = Complete(x)
      <4>1. queue \in Seq(Events)
        BY <1>0 DEF TypeOK, Events
      <4> QED
        BY <2>0, <3>1, <4>1
    <3> QED
      BY <2>1, <3>2 DEF Awaited, Coming, Complete
  <2>2. CASE x # y
    <3>1. UNCHANGED queue \/ Push(Complete(x))
      BY <1>5 DEF WriteAll, Complete
    <3>2. sendqueue'[y] = sendqueue[y]
      BY <1>0, <1>5, <2>2 DEF WriteAll, CloseIntern, TypeOK
    <3> QED
      BY <1>0, <2>0, <3>1, <3>2, AwaitedStays
  <2> QED
    BY <2>1, <2>2
<1>6. ASSUME NEW x \in Socks, NEW dir \in {"IN", "OUT"}, Skip(x, dir) PROVE Awaited(y)'
  BY <1>0, <1>6, AwaitedStays DEF Skip, sock
<1> QED
  BY <1>1, <1>2, <1>3, <1>4, <1>5, <1>6 DEF IONext

\* The worker pauses for a queue that is not empty, and resumes when it
\* handles the SENDCOMPLETE.
LEMMA PauseWorker ==
    ASSUME TypeInv, PauseEnds, NEW x \in connpaused' \cap open', Twin(x) \in conn' \cap open',
           WorkerNext
    PROVE  Awaited(Twin(x))'
<1> DEFINE y == Twin(x)
<1>0. TypeOK /\ x \in Socks /\ y \in Socks /\ y # x /\ Twin(y) = x /\ y \in conn \cap open /\ x \in open
  <2>1. open' \subseteq open /\ conn' \subseteq conn
    BY OpenShrinks DEF Next
  <2> QED
    BY <2>1, TwinTwin DEF TypeInv, TypeOK
<1>1. x \in connpaused => Awaited(y)
  BY <1>0 DEF PauseEnds, Awaited, Coming, Complete
<1> HIDE DEF y
<1>2. CASE Pop \/ PauseFull \/ HandleTick \/ CheckReady \/ Clear \/ Notify
  <2>1. UNCHANGED <<queue, sendqueue, connpaused>>
    BY <1>2 DEF Pop, PauseFull, HandleTick, CheckReady, Clear, Notify, sock
  <2> QED
    BY <1>0, <1>1, <2>1, AwaitedStays DEF y
<1>3. ASSUME NEW z \in Socks, HandleData(z) PROVE Awaited(y)'
  <2>1. queue # <<>> /\ queue' = Tail(queue) /\ Head(queue) # Complete(y)
    BY <1>3 DEF HandleData, At, Handled, Complete, Event
  <2>2. sendqueue[y] # <<>> => sendqueue'[y] # <<>>
    <3>1. ASSUME NEW w \in Socks, NEW n, SendData(w, n) PROVE sendqueue[y] # <<>> => sendqueue'[y] # <<>>
      <4>1. sendqueue[w] \in Seq(Nat)
        BY <1>0 DEF TypeOK
      <4>2. Append(sendqueue[w], n) # <<>>
        BY <4>1
      <4> QED
        BY <1>0, <3>1, <4>2 DEF SendData, TypeOK
    <3>2. Twin(z) \in Socks
      BY TwinTwin
    <3> QED
      BY <1>3, <3>1, <3>2 DEF HandleData
  <2>3. CASE x \in connpaused
    BY <1>0, <1>1, <2>1, <2>2, <2>3, AwaitedStays
  <2>4. CASE x \notin connpaused
    <3>1. z = x /\ TooMuch(sendqueue'[y])
      BY <1>3, <2>4 DEF HandleData, y
    <3>2. sendqueue'[y] # <<>>
      BY <3>1, SizesAssumption DEF TooMuch
    <3> QED
      BY <3>2 DEF Awaited
  <2> QED
    BY <2>3, <2>4
<1>4. ASSUME NEW z \in Socks, HandleSendComplete(z) PROVE Awaited(y)'
  <2>1. x \in connpaused /\ x # Twin(z)
    BY <1>4 DEF HandleSendComplete
  <2>2. z # y
    BY <1>0, <2>1
  <2>3. queue # <<>> /\ queue' = Tail(queue) /\ Head(queue) # Complete(y) /\ UNCHANGED sendqueue
    BY <1>4, <2>2 DEF HandleSendComplete, At, Done, Handled, Complete, Event
  <2> QED
    BY <1>0, <1>1, <2>1, <2>3, AwaitedStays
<1>5. ASSUME NEW z \in Socks, HandleDisconnected(z) PROVE Awaited(y)'
  <2>1. queue # <<>> /\ queue' = Tail(queue) /\ Head(queue) # Complete(y) /\ UNCHANGED connpaused
    BY <1>5 DEF HandleDisconnected, At, Done, Handled, Complete, Event
  <2>2. UNCHANGED sendqueue
    BY <1>5 DEF HandleDisconnected, sock
  <2> QED
    BY <1>0, <1>1, <2>1, <2>2, AwaitedStays
<1> QED
  BY <1>2, <1>3, <1>4, <1>5 DEF WorkerNext, y

LEMMA PauseStep == TypeInv /\ PauseEnds /\ [Next]_vars => PauseEnds'
<1> SUFFICES ASSUME TypeInv, PauseEnds, [Next]_vars,
                    NEW x \in connpaused' \cap open', Twin(x) \in conn' \cap open'
             PROVE  Awaited(Twin(x))'
  BY DEF PauseEnds, Awaited, Coming, Complete
<1>1. CASE WorkerNext
  BY <1>1, PauseWorker
<1>2. CASE IONext
  <2>1. UNCHANGED connpaused
    BY <1>2 DEF IONext, PollWait, Lock, Unlock, Overload, Return, Read, ReadEnd, WriteSome, WriteAll,
                WriteFails, Skip, Take
  <2>2. open' \subseteq open /\ conn' \subseteq conn
    BY <1>2, OpenShrinks DEF Next
  <2>3. Awaited(Twin(x)) /\ Twin(x) \in Socks
    BY <2>1, <2>2 DEF PauseEnds, Awaited, Coming, Complete, TypeInv, TypeOK
  <2> QED
    BY <1>2, <2>3, PauseIO
<1>3. CASE UNCHANGED vars
  <2>1. Awaited(Twin(x))
    BY <1>3 DEF PauseEnds, Awaited, Coming, Complete, vars, sock
  <2> QED
    BY <1>3, <2>1 DEF Awaited, Coming, vars, sock
<1> QED
  BY <1>1, <1>2, <1>3 DEF Next

(* A connection that was paused because the other's send queue was full is *)
(* resumed: the SENDCOMPLETE that does it is in the worker's queue, or the *)
(* send queue that it follows is not empty (trafficbncsession.cpp:110,     *)
(* iomanager.cpp:883).                                                     *)
THEOREM PausesEnd == Spec => []PauseEnds
<1>1. Init => TypeInv /\ PauseEnds
  BY TypeInit DEF Init, PauseEnds
<1>2. TypeInv /\ PauseEnds /\ [Next]_vars => (TypeInv /\ PauseEnds)'
  BY TypeStep, PauseStep
<1> QED
  BY <1>1, <1>2, PTL DEF Spec

=============================================================================
