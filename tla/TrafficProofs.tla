---------------------------- MODULE TrafficProofs ---------------------------
(***************************************************************************)
(* Traffic's types, for every number of owners, sessions and ports and     *)
(* every bound, whatever the peers do.  What each call and each handler    *)
(* does to the types is a lemma; TrafficSafetyProofs rests on them.        *)
(***************************************************************************)
EXTENDS Traffic, FiniteSetTheorems, TLAPS

USE NumbersAssumption, NamesAssumption, SequentialAssumption

Messages == Events \cup {Login(o) : o \in Owners}
Places == DOMAIN queue

SocketRecords ==
    [type : Types, port : Ports \cup {NoPort}, er : Sessions \cup {<<>>},
     polled : BOOLEAN, unsent : BOOLEAN, closing : BOOLEAN, twin : SockIds \cup {NoSock}]

(* The parts of TypeOK that different steps change.  *)
SocketsOK == socketinfomap \in [SockIds -> SocketRecords]
QueueOK == queue \in Seq(Messages)
SessionsOK ==
    /\ made \in [Owners -> 0 .. MaxSessions]
    /\ state \in [Sessions -> {"INACTIVE", "AWAITING_PASV", "ACTIVE"}]
    /\ listenport \in [Sessions -> Ports \cup {NoPort}]
    /\ pasvlistener \in [Sessions -> SockIds \cup {NoSock}]
    /\ pasvconn \in [Sessions -> SockIds \cup {NoSock}]
    /\ portconn \in [Sessions -> SockIds \cup {NoSock}]
    /\ availableports \in SUBSET Ports /\ unavailableports \in SUBSET Ports
    /\ control \in [Owners -> {"up", "down"}]
    /\ activating \in Sessions \cup {<<>>}
IOOK == batch \in SUBSET (SockIds \X {"IN", "OUT"}) /\ locked \in BOOLEAN

LEMMA TypeParts ==
  /\ TypeOK <=> SocketsOK /\ QueueOK /\ SessionsOK /\ IOOK
  /\ TypeOK' <=> SocketsOK' /\ QueueOK' /\ SessionsOK' /\ IOOK'
  BY DEF TypeOK, SocketsOK, QueueOK, SessionsOK, IOOK, SocketRecords, Messages

-----------------------------------------------------------------------------
(* The operators of the model.                                             *)

\* Sessions are pairs; no event is for no session.
LEMMA SessionPairs ==
  /\ \A s \in Sessions : s[1] \in Owners /\ s[2] \in 1 .. MaxSessions /\ s # <<>>
  /\ \A o \in Owners, i \in 1 .. MaxSessions : <<o, i>> \in Sessions
  /\ \A o \in Owners : <<o, 1>> \in Sessions
  BY DEF Sessions

LEMMA MessageTypes ==
  ASSUME NEW e \in Messages
  PROVE  /\ e.to \in Sessions /\ e.sock \in SockIds \cup {NoSock} /\ e.new \in SockIds \cup {NoSock}
         /\ e.type = "LOGIN" => e = Login(e.to[1])
         /\ e.type # "LOGIN" => e \in Events
  BY SessionPairs DEF Messages, Events, Login

LEMMA EventType ==
  ASSUME NEW s \in Sessions, NEW x \in SockIds \cup {NoSock},
         NEW t \in {"LISTENFAIL", "CONNECTED", "FAIL", "PASVDATA", "PORTDATA", "PASVCLOSED", "PORTCLOSED"}
  PROVE  /\ Event(t, s, x) \in Messages
         /\ Event(t, s, x).type = t /\ Event(t, s, x).to = s /\ Event(t, s, x).sock = x
  BY DEF Messages, Events, Event

LEMMA LoginType ==
  ASSUME NEW o \in Owners
  PROVE  /\ Login(o) \in Messages /\ Login(o).type = "LOGIN" /\ Login(o).to = <<o, 1>>
         /\ Login(o).sock = NoSock
  BY SessionPairs DEF Messages, Login

\* What is waiting behind a message that is appended, or in front of one taken.
LEMMA Appended ==
  ASSUME QueueOK, NEW e \in Messages, queue' = Append(queue, e)
  PROVE  /\ QueueOK' /\ Places = 1 .. Len(queue) /\ Places' = 1 .. Len(queue) + 1
         /\ Len(queue) \in Nat
         /\ queue'[Len(queue) + 1] = e
         /\ \A i \in Places : i \in Places' /\ queue'[i] = queue[i]
  BY DEF QueueOK, Places

LEMMA Taken ==
  ASSUME QueueOK, queue # <<>>, queue' = Tail(queue)
  PROVE  /\ QueueOK' /\ Places = 1 .. Len(queue) /\ Places' = 1 .. Len(queue) - 1
         /\ Len(queue) \in Nat \ {0}
         /\ Head(queue) = queue[1] /\ 1 \in Places
         /\ \A i \in Places' : i + 1 \in Places /\ queue'[i] = queue[i + 1]
  BY DEF QueueOK, Places

LEMMA PlaceTypes ==
  ASSUME QueueOK, NEW i \in Places
  PROVE  queue[i] \in Messages /\ i \in Nat \ {0}
  BY DEF QueueOK, Places

\* A new id is nobody's.
LEMMA FreshIsNew ==
  ASSUME TypeOK, Free # {}
  PROVE  /\ Fresh \in SockIds /\ Fresh \notin Open /\ Fresh # NoSock
         /\ \A s \in Sessions : pasvlistener[s] # Fresh /\ pasvconn[s] # Fresh /\ portconn[s] # Fresh
         /\ \A i \in Places : queue[i].sock # Fresh /\ queue[i].new # Fresh
         /\ \A e \in batch : e[1] # Fresh
         /\ \A x \in Open : socketinfomap[x].twin # Fresh
<1>1. Fresh \in Free
  BY DEF Fresh
<1>2. Fresh \in SockIds /\ Fresh \notin Held /\ Fresh \notin {socketinfomap[x].twin : x \in Open}
  BY <1>1 DEF Free, Known
<1>3. Members \cup Mentioned \cup Open \subseteq Held /\ \A e \in batch : e[1] \in Held
  BY DEF Held
<1>4. \A s \in Sessions : {pasvlistener[s], pasvconn[s], portconn[s]} \subseteq Members
  BY Zenon DEF Members
<1>5. \A i \in Places : {queue[i].sock, queue[i].new} \subseteq Mentioned
  BY Zenon DEF Places, Mentioned
<1> HIDE DEF Fresh
<1> QED BY <1>2, <1>3, <1>4, <1>5

\* With room for another there is an id.
LEMMA RoomIsFree ==
  ASSUME TypeOK, NEW n \in Nat \ {0}, Room(n)
  PROVE  Free # {}
<1>1. Cardinality(News) \in Nat
  <2> DEFINE P == {j \in DOMAIN queue : queue[j].type = "NEW"}
             f == [j \in P |-> queue[j]]
  <2>1. IsFiniteSet(P)
    <3>1. DOMAIN queue = 1 .. Len(queue) /\ Len(queue) \in Nat
      BY DEF TypeOK
    <3>2. IsFiniteSet(1 .. Len(queue))
      BY <3>1, FS_Interval
    <3> QED BY <3>1, <3>2, FS_Subset
  <2>2. f \in Surjection(P, News)
    BY DEF Surjection, News
  <2> QED BY <2>1, <2>2, FS_Surjection, FS_CardinalityType
<1>2. Reserved \in Nat
  BY <1>1 DEF Reserved
<1>3. Cardinality(Free) # 0
  BY <1>2, FS_EmptySet DEF Room
<1> QED BY <1>3, FS_EmptySet

-----------------------------------------------------------------------------
(* What a step does to the sockets.                                        *)

\* closeSocket() of the sockets in S.
Shut(S) ==
    /\ SocketsOK'
    /\ \A x \in SockIds : x \in Open' <=> x \in Open /\ (x \in S => socketinfomap[x].unsent)
    /\ \A x \in SockIds \ S : socketinfomap'[x] = socketinfomap[x]
    /\ \A x \in Open' :
        /\ socketinfomap'[x].type = socketinfomap[x].type
        /\ socketinfomap'[x].port = socketinfomap[x].port
        /\ socketinfomap'[x].er = socketinfomap[x].er
        /\ socketinfomap'[x].polled = socketinfomap[x].polled
        /\ socketinfomap'[x].unsent = socketinfomap[x].unsent
        /\ socketinfomap'[x].twin = socketinfomap[x].twin
        /\ socketinfomap'[x].closing <=> (socketinfomap[x].closing \/ x \in S)

LEMMA UnusedType == Unused \in SocketRecords /\ Unused.type = "UNUSED"
  BY DEF Unused, SocketRecords, Types

LEMMA Closes ==
  ASSUME SocketsOK, NEW S, NEW m, m = CloseSockets(socketinfomap, S)
  PROVE  /\ m \in [SockIds -> SocketRecords]
         /\ \A x \in SockIds \ S : m[x] = socketinfomap[x]
         /\ \A x \in SockIds : m[x].type # "UNUSED" <=> x \in Open /\ (x \in S => socketinfomap[x].unsent)
         /\ \A x \in SockIds : m[x].type # "UNUSED" =>
              /\ m[x].type = socketinfomap[x].type
              /\ m[x].port = socketinfomap[x].port
              /\ m[x].er = socketinfomap[x].er
              /\ m[x].polled = socketinfomap[x].polled
              /\ m[x].unsent = socketinfomap[x].unsent
              /\ m[x].twin = socketinfomap[x].twin
              /\ m[x].closing <=> (socketinfomap[x].closing \/ x \in S)
<1>1. \A x \in SockIds : socketinfomap[x] \in SocketRecords
  BY DEF SocketsOK
<1>2. ASSUME NEW x \in SockIds
      PROVE  /\ m[x] \in SocketRecords
             /\ m[x].type # "UNUSED" <=> x \in Open /\ (x \in S => socketinfomap[x].unsent)
             /\ m[x].type # "UNUSED" =>
                  /\ m[x].type = socketinfomap[x].type
                  /\ m[x].port = socketinfomap[x].port
                  /\ m[x].er = socketinfomap[x].er
                  /\ m[x].polled = socketinfomap[x].polled
                  /\ m[x].unsent = socketinfomap[x].unsent
                  /\ m[x].twin = socketinfomap[x].twin
                  /\ m[x].closing <=> (socketinfomap[x].closing \/ x \in S)
  <2>1. CASE x \notin S \/ socketinfomap[x].type = "UNUSED"
    BY <1>1, <2>1 DEF CloseSockets, Open
  <2>2. CASE x \in S /\ socketinfomap[x].type # "UNUSED" /\ ~socketinfomap[x].unsent
    BY <1>1, <2>2, UnusedType DEF CloseSockets, Open
  <2>3. CASE x \in S /\ socketinfomap[x].type # "UNUSED" /\ socketinfomap[x].unsent
    <3>1. m[x] = [socketinfomap[x] EXCEPT !.closing = TRUE]
      BY <2>3 DEF CloseSockets
    <3> QED BY <1>1, <2>3, <3>1 DEF SocketRecords, Open
  <2> QED BY <2>1, <2>2, <2>3
<1>3. m \in [SockIds -> SocketRecords] /\ \A x \in SockIds \ S : m[x] = socketinfomap[x]
  BY <1>2 DEF CloseSockets
<1> QED BY <1>2, <1>3

LEMMA Shuts ==
  ASSUME SocketsOK, NEW S, socketinfomap' = CloseSockets(socketinfomap, S)
  PROVE  Shut(S)
  BY Closes DEF Shut, SocketsOK, Open

-----------------------------------------------------------------------------
(* Type correctness, whatever the peers do.                                *)

Type(x) == socketinfomap[x].type
Er(x) == socketinfomap[x].er

\* Only an accepted connection that no handler has seen has no receiver, and
\* nothing happens to it.
Receivers ==
    \A x \in Open : Er(x) = <<>> =>
        /\ Type(x) = "TCP_PLAIN_LISTEN"
        /\ ~socketinfomap[x].polled /\ ~socketinfomap[x].unsent /\ ~socketinfomap[x].closing

\* What polling.wait() returned is polled as long as it is there.
BatchPolled == \A e \in batch : e[1] \in Open => socketinfomap[e[1]].polled

\* An id that a session remembers is of a socket of its own, or of none.
Named ==
    \A s \in Sessions :
        /\ pasvlistener[s] \in Open =>
             Type(pasvlistener[s]) = "TCP_SERVER" /\ Er(pasvlistener[s]) = s
        /\ pasvconn[s] \in Open =>
             Type(pasvconn[s]) = "TCP_PLAIN_LISTEN" /\ Er(pasvconn[s]) = s
        /\ portconn[s] \in Open =>
             Type(portconn[s]) \in {"TCP_CONNECTING", "TCP_PLAIN"} /\ Er(portconn[s]) = s

\* A connection that is announced is open, and announced once.
Announced ==
    \A i \in Places : queue[i].type = "NEW" =>
        /\ queue[i].new \in Open /\ Er(queue[i].new) = <<>>
        /\ \A j \in Places : queue[j].type = "NEW" /\ queue[j].new = queue[i].new => j = i

Sources ==
    \A i \in Places : queue[i].type \notin {"LISTENFAIL", "LOGIN"} => queue[i].sock \in SockIds

TypeInv == TypeOK /\ Receivers /\ BatchPolled /\ Named /\ Announced /\ Sources

LEMMA InitTypeInv == Init => TypeInv
<1> SUFFICES ASSUME Init PROVE TypeInv OBVIOUS
<1>1. Open = {} /\ queue = <<>> /\ Places = {}
  BY DEF Init, Open, Unused, Places
<1>2. SocketsOK
  BY UnusedType DEF Init, SocketsOK
<1>3. QueueOK
  BY <1>1 DEF QueueOK
<1>4. SessionsOK
  <2>1. made \in [Owners -> 0 .. MaxSessions]
    BY DEF Init
  <2> QED BY <2>1 DEF Init, SessionsOK
<1>6. IOOK
  BY DEF Init, IOOK
<1>5. Receivers /\ BatchPolled /\ Named /\ Announced /\ Sources
  BY <1>1 DEF Init, Receivers, BatchPolled, Named, Announced, Sources
<1> QED BY <1>2, <1>3, <1>4, <1>5, <1>6, TypeParts DEF TypeInv

\* The queue after a step that announces no connection.
Pushed(e) == e \in Messages /\ queue' = Append(queue, e)
Popped == queue # <<>> /\ queue' = Tail(queue)

\* A step that leaves the connections without a receiver alone.
NewKept(S) == \A x \in Open \ S : Er(x) = <<>> => x \in Open' /\ socketinfomap'[x].er = <<>>

LEMMA PopKeeps ==
  ASSUME TypeInv,
         \/ (Popped \/ UNCHANGED queue) /\ NewKept({})
         \/ Popped /\ Head(queue).type = "NEW" /\ NewKept({Head(queue).new})
  PROVE  QueueOK' /\ Announced' /\ Sources'
<1>0. QueueOK /\ Announced /\ Sources
  BY TypeParts DEF TypeInv
<1>1. CASE UNCHANGED queue /\ NewKept({})
  BY <1>0, <1>1 DEF QueueOK, Announced, Sources, Places, NewKept, Er
<1>2. CASE Popped
  <2>1. /\ QueueOK' /\ 1 \in Places /\ Head(queue) = queue[1] /\ Places' \subseteq Int
        /\ \A i \in Places' : i + 1 \in Places /\ queue'[i] = queue[i + 1] /\ i + 1 # 1
    BY <1>0, <1>2, Taken DEF Popped
  <2>2. Sources'
    BY <1>0, <2>1 DEF Sources
  <2>3. ASSUME NEW i \in Places', queue'[i].type = "NEW"
        PROVE  /\ queue'[i].new \in Open' /\ socketinfomap'[queue'[i].new].er = <<>>
               /\ \A j \in Places' : queue'[j].type = "NEW" /\ queue'[j].new = queue'[i].new => j = i
    <3>1. queue[i + 1].new \in Open /\ Er(queue[i + 1].new) = <<>>
      BY <1>0, <2>1, <2>3 DEF Announced
    <3>2. queue[1].type = "NEW" => queue[i + 1].new # queue[1].new
      BY <1>0, <2>1, <2>3 DEF Announced
    <3>3. queue[i + 1].new \in Open' /\ socketinfomap'[queue[i + 1].new].er = <<>>
      BY <2>1, <3>1, <3>2 DEF NewKept, Er
    <3>4. ASSUME NEW j \in Places', queue'[j].type = "NEW", queue'[j].new = queue'[i].new
          PROVE  j = i
      <4>1. j + 1 = i + 1
        BY <1>0, <2>1, <2>3, <3>4 DEF Announced
      <4> QED BY <2>1, <4>1
    <3> QED BY <2>1, <3>3, <3>4
  <2> QED BY <2>1, <2>2, <2>3 DEF Announced, Er
<1> QED BY <1>1, <1>2

LEMMA PushKeeps ==
  ASSUME TypeInv, NewKept({}), NEW e, Pushed(e), e.type # "NEW",
         e.type \notin {"LISTENFAIL", "LOGIN"} => e.sock \in SockIds
  PROVE  QueueOK' /\ Announced' /\ Sources'
<1>0. QueueOK /\ Announced /\ Sources
  BY TypeParts DEF TypeInv
<1>1. /\ QueueOK' /\ Places = 1 .. Len(queue) /\ Places' = 1 .. Len(queue) + 1
      /\ Len(queue) \in Nat /\ queue'[Len(queue) + 1] = e
      /\ \A i \in Places : i \in Places' /\ queue'[i] = queue[i]
  BY <1>0, Appended DEF Pushed
<1>2. \A i \in Places' : i \in Places \/ queue'[i] = e
  BY <1>1
<1>3. Announced'
  BY <1>0, <1>1, <1>2 DEF Announced, NewKept, Er
<1>4. Sources'
  BY <1>0, <1>1, <1>2 DEF Sources
<1> QED BY <1>1, <1>3, <1>4

\* A step that, but for the sockets in F, opens no socket and gives no session
\* a new one.
TameBut(F) ==
    /\ \A x \in Open' \ F : x \in Open
    /\ \A x \in Open \ F : Er(x) = <<>> => socketinfomap'[x] = socketinfomap[x]
    /\ \A x \in Open' \ F :
        /\ socketinfomap'[x].er = Er(x)
        /\ \/ socketinfomap'[x].type = Type(x)
           \/ Type(x) = "TCP_CONNECTING" /\ socketinfomap'[x].type = "TCP_PLAIN"
        /\ socketinfomap[x].polled => socketinfomap'[x].polled
    /\ batch' \subseteq batch
    /\ \A s \in Sessions :
        /\ pasvlistener'[s] \in {pasvlistener[s], NoSock} \cup F
        /\ pasvconn'[s] \in {pasvconn[s], NoSock} \cup F
        /\ portconn'[s] \in {portconn[s], NoSock} \cup F

Tame == TameBut({})

LEMMA TameParts ==
  ASSUME TypeInv, NEW F, TameBut(F),
         \A x \in Open' \cap F : socketinfomap'[x].er = <<>> =>
            /\ socketinfomap'[x].type = "TCP_PLAIN_LISTEN"
            /\ ~socketinfomap'[x].polled /\ ~socketinfomap'[x].unsent /\ ~socketinfomap'[x].closing,
         \A e \in batch' : e[1] \notin F,
         \A s \in Sessions :
            /\ pasvlistener'[s] \in F => socketinfomap'[pasvlistener'[s]].type = "TCP_SERVER"
                                         /\ socketinfomap'[pasvlistener'[s]].er = s
            /\ pasvconn'[s] \in F => socketinfomap'[pasvconn'[s]].type = "TCP_PLAIN_LISTEN"
                                     /\ socketinfomap'[pasvconn'[s]].er = s
            /\ portconn'[s] \in F \cap Open' =>
                 /\ socketinfomap'[portconn'[s]].type \in {"TCP_CONNECTING", "TCP_PLAIN"}
                 /\ socketinfomap'[portconn'[s]].er = s
  PROVE  Receivers' /\ BatchPolled' /\ Named' /\ NewKept(F)
<1>0. Receivers /\ BatchPolled /\ Named /\ Open \subseteq SockIds /\ Open' \subseteq SockIds
  BY DEF TypeInv, Open
<1>1. Receivers'
  <2> SUFFICES ASSUME NEW x \in Open', socketinfomap'[x].er = <<>>
               PROVE  /\ socketinfomap'[x].type = "TCP_PLAIN_LISTEN"
                      /\ ~socketinfomap'[x].polled /\ ~socketinfomap'[x].unsent
                      /\ ~socketinfomap'[x].closing
    BY DEF Receivers, Er, Type
  <2>1. CASE x \in F
    BY <2>1
  <2>2. CASE x \notin F
    <3>1. x \in Open /\ Er(x) = <<>> /\ socketinfomap'[x] = socketinfomap[x]
      BY <2>2 DEF TameBut
    <3> QED BY <1>0, <3>1 DEF Receivers, Type
  <2> QED BY <2>1, <2>2
<1>2. BatchPolled'
  BY <1>0 DEF BatchPolled, TameBut
<1>3. Named'
  BY <1>0, NamesAssumption DEF Named, TameBut, Er, Type
<1>4. NewKept(F)
  <2> SUFFICES ASSUME NEW x \in Open \ F, Er(x) = <<>>
               PROVE  x \in Open' /\ socketinfomap'[x].er = <<>>
    BY DEF NewKept
  <2>1. socketinfomap'[x] = socketinfomap[x]
    BY DEF TameBut
  <2> QED BY <2>1 DEF Open, Er
<1> QED BY <1>1, <1>2, <1>3, <1>4

\* The messages a step may leave: one taken, none touched, or one appended.
QueueSteps ==
    \/ Popped
    \/ UNCHANGED queue
    \/ \E e \in Messages :
        /\ Pushed(e) /\ e.type # "NEW"
        /\ e.type \notin {"LISTENFAIL", "LOGIN"} => e.sock \in SockIds

LEMMA TameKeeps ==
  ASSUME TypeInv, Tame, SocketsOK', SessionsOK', IOOK', QueueSteps
  PROVE  TypeInv'
<1>1. Receivers' /\ BatchPolled' /\ Named' /\ NewKept({})
  BY TameParts DEF Tame
<1>2. QueueOK' /\ Announced' /\ Sources'
  BY <1>1, PopKeeps, PushKeeps DEF QueueSteps
<1> QED BY <1>1, <1>2, TypeParts DEF TypeInv

LEMMA ShutTame ==
  ASSUME TypeInv, NEW S, socketinfomap' = CloseSockets(socketinfomap, S), batch' \subseteq batch,
         \A x \in S : \E s \in Sessions : x \in {pasvlistener[s], pasvconn[s], portconn[s]},
         \A s \in Sessions :
             /\ pasvlistener'[s] \in {pasvlistener[s], NoSock}
             /\ pasvconn'[s] \in {pasvconn[s], NoSock}
             /\ portconn'[s] \in {portconn[s], NoSock}
  PROVE  Tame /\ SocketsOK' /\ Shut(S)
<1>0. Named /\ SocketsOK
  BY TypeParts DEF TypeInv
<1>1. Shut(S)
  BY <1>0, Shuts
<1>2. \A x \in Open : Er(x) = <<>> => x \notin S
  BY <1>0, SessionPairs DEF Named
<1>3. \A x \in Open : Er(x) = <<>> => socketinfomap'[x] = socketinfomap[x]
  BY <1>1, <1>2 DEF Shut, Open
<1>4. \A x \in Open' :
        /\ x \in Open /\ socketinfomap'[x].er = Er(x) /\ socketinfomap'[x].type = Type(x)
        /\ socketinfomap[x].polled => socketinfomap'[x].polled
  <2>1. Open' \subseteq SockIds
    BY DEF Open
  <2> QED BY <1>1, <2>1 DEF Shut, Er, Type
<1> QED BY <1>1, <1>3, <1>4 DEF Tame, TameBut, Shut

\* The worker's calls for a control connection.
LEMMA CallsTypeInv ==
  ASSUME TypeInv,
         \/ \E o \in Owners : Activate(o) \/ Disconnect(o)
         \/ ListenFails \/ Exhausted
         \/ \E p \in Ports : Expire(p)
  PROVE  TypeInv'
<1>0. SocketsOK /\ QueueOK /\ SessionsOK /\ IOOK /\ \A x \in Open : x \in SockIds
  BY TypeParts DEF TypeInv, Open
<1>1. ASSUME NEW o \in Owners, Activate(o) PROVE TypeInv'
  <2> DEFINE S == Mine(o) \cap Awaiting
  <2>1. S \subseteq Sessions
    BY DEF Mine
  <2>2. Tame /\ SocketsOK'
    <3> DEFINE P == {pasvlistener[s] : s \in S}
    <3>1. \A x \in P : \E s \in Sessions : x \in {pasvlistener[s], pasvconn[s], portconn[s]}
      BY <2>1
    <3>2. socketinfomap' = CloseSockets(socketinfomap, P) /\ batch' = batch
      BY <1>1 DEF Activate, DropListeners, io
    <3>3. \A s \in Sessions :
             /\ pasvlistener'[s] \in {pasvlistener[s], NoSock}
             /\ pasvconn'[s] \in {pasvconn[s], NoSock}
             /\ portconn'[s] \in {portconn[s], NoSock}
      BY <1>1 DEF Activate, DropListeners
    <3> HIDE DEF P
    <3> QED BY <3>1, <3>2, <3>3, ShutTame
  <2>3. SessionsOK'
    <3>1. state' \in [Sessions -> {"INACTIVE", "AWAITING_PASV", "ACTIVE"}]
          /\ pasvlistener' \in [Sessions -> SockIds \cup {NoSock}]
      BY <1>0, <1>1 DEF Activate, DropListeners, SessionsOK
    <3>2. made' \in [Owners -> 0 .. MaxSessions] /\ activating' \in Sessions
      <4>1. PICK i \in 1 .. MaxSessions :
              /\ made' = [made EXCEPT ![o] = IF i > @ THEN i ELSE @]
              /\ activating' = <<o, i>>
        BY <1>1 DEF Activate
      <4> QED BY <1>0, <4>1, SessionPairs DEF SessionsOK
    <3>3. availableports' \in SUBSET Ports /\ unavailableports' \in SUBSET Ports
      BY <1>0, <1>1 DEF Activate, DropListeners, Release, SessionsOK
    <3> QED BY <1>0, <1>1, <3>1, <3>2, <3>3 DEF Activate, SessionsOK
  <2> QED BY <1>0, <1>1, <2>2, <2>3, TameKeeps DEF Activate, IOOK, io, QueueSteps
<1>2. ASSUME NEW o \in Owners, Disconnect(o) PROVE TypeInv'
  <2> DEFINE S == UNION {{pasvconn[s], portconn[s], pasvlistener[s]} : s \in Mine(o)}
  <2>1. \A x \in S : \E s \in Sessions : x \in {pasvlistener[s], pasvconn[s], portconn[s]}
    BY Zenon DEF Mine
  <2>2. socketinfomap' = CloseSockets(socketinfomap, S) /\ batch' = batch
    BY <1>2 DEF Disconnect, io
  <2>3. \A s \in Sessions :
             /\ pasvlistener'[s] \in {pasvlistener[s], NoSock}
             /\ pasvconn'[s] \in {pasvconn[s], NoSock}
             /\ portconn'[s] \in {portconn[s], NoSock}
    BY <1>2 DEF Disconnect
  <2> HIDE DEF S
  <2>4. Tame /\ SocketsOK'
    BY <2>1, <2>2, <2>3, ShutTame
  <2>5. SessionsOK'
    BY <1>0, <1>2 DEF Disconnect, Release, SessionsOK
  <2>6. QueueSteps
    BY <1>2, LoginType DEF Disconnect, QueueSteps, Pushed
  <2> QED BY <1>0, <1>2, <2>4, <2>5, <2>6, TameKeeps DEF Disconnect, IOOK, io
<1>3. CASE ListenFails
  <2>1. activating \in Sessions
    BY <1>0, <1>3 DEF ListenFails, Listens, SessionsOK
  <2>2. Tame /\ SocketsOK'
    <3> DEFINE P == {pasvlistener[activating]}
    <3>1. \A x \in P : \E s \in Sessions : x \in {pasvlistener[s], pasvconn[s], portconn[s]}
      BY <2>1
    <3>2. socketinfomap' = CloseSockets(socketinfomap, P) /\ batch' = batch
      BY <1>3 DEF ListenFails, io
    <3>3. \A s \in Sessions :
             /\ pasvlistener'[s] \in {pasvlistener[s], NoSock}
             /\ pasvconn'[s] \in {pasvconn[s], NoSock}
             /\ portconn'[s] \in {portconn[s], NoSock}
      BY <1>0, <1>3 DEF ListenFails, SessionsOK
    <3> HIDE DEF P
    <3> QED BY <3>1, <3>2, <3>3, ShutTame
  <2>3. SessionsOK'
    BY <1>0, <1>3, <2>1 DEF ListenFails, SessionsOK
  <2>4. QueueSteps
    BY <1>3, <2>1, EventType DEF ListenFails, QueueSteps, Pushed
  <2> QED BY <1>0, <1>3, <2>2, <2>3, <2>4, TameKeeps DEF ListenFails, IOOK, io
<1>4. CASE Exhausted
  <2>1. Tame
    BY <1>4 DEF Exhausted, conns, io, Tame, TameBut, Open, Er, Type
  <2> QED BY <1>0, <1>4, <2>1, TameKeeps
          DEF Exhausted, conns, ports, io, SocketsOK, SessionsOK, IOOK, QueueSteps
<1>5. ASSUME NEW p \in Ports, Expire(p) PROVE TypeInv'
  <2>1. Tame
    BY <1>5 DEF Expire, conns, io, Tame, TameBut, Open, Er, Type
  <2> QED BY <1>0, <1>5, <2>1, TameKeeps
          DEF Expire, Release, conns, io, SocketsOK, SessionsOK, IOOK, QueueSteps
<1> QED BY <1>1, <1>2, <1>3, <1>4, <1>5

\* The steps that open a socket.
LEMMA ListeningTypeInv ==
  ASSUME TypeInv, Listening
  PROVE  TypeInv'
<1>0. /\ SocketsOK /\ QueueOK /\ SessionsOK /\ IOOK /\ Open \subseteq SockIds
      /\ Receivers /\ BatchPolled /\ Named /\ TypeOK
  BY TypeParts DEF TypeInv, Open
<1> DEFINE S == {pasvlistener[activating]}
           f == Fresh
           m == CloseSockets(socketinfomap, S)
<1>1. activating \in Sessions
  BY <1>0 DEF Listening, Listens, SessionsOK
<1>2. /\ f \in SockIds /\ f \notin Open
      /\ \A s \in Sessions : pasvlistener[s] # f /\ pasvconn[s] # f /\ portconn[s] # f
      /\ \A e \in batch : e[1] # f
  BY <1>0, FreshIsNew DEF Listening
<1>3. PICK p \in Ports :
        /\ availableports' = availableports \ {p}
        /\ listenport' = [listenport EXCEPT ![activating] = p]
        /\ socketinfomap' = [m EXCEPT ![f] = [Unused EXCEPT !.type = "TCP_SERVER", !.port = p, !.er = activating,
                                                !.polled = TRUE]]
  BY <1>0 DEF Listening, SessionsOK
<1>4. /\ pasvlistener' = [pasvlistener EXCEPT ![activating] = f]
      /\ state' = [state EXCEPT ![activating] = "AWAITING_PASV"]
      /\ activating' = <<>>
      /\ UNCHANGED <<made, pasvconn, portconn, unavailableports, queue, control, batch, locked>>
  BY DEF Listening, io
<1> HIDE DEF f
<1> DEFINE r == [Unused EXCEPT !.type = "TCP_SERVER", !.port = p, !.er = activating, !.polled = TRUE]
<1>5. r \in SocketRecords /\ r.type = "TCP_SERVER" /\ r.er = activating
  BY <1>1 DEF Unused, SocketRecords, Types
<1> HIDE DEF r
<1>6. /\ m \in [SockIds -> SocketRecords]
      /\ \A x \in SockIds \ S : m[x] = socketinfomap[x]
      /\ \A x \in SockIds : m[x].type # "UNUSED" =>
           x \in Open /\ m[x].type = Type(x) /\ m[x].er = Er(x) /\ m[x].polled = socketinfomap[x].polled
  <2> HIDE DEF m, S
  <2> QED BY <1>0, Closes DEF m, Type, Er
<1>7. socketinfomap' = [m EXCEPT ![f] = r]
  BY <1>3 DEF r
<1> HIDE DEF m
<1>8. SocketsOK' /\ SessionsOK' /\ IOOK'
  <2>1. SocketsOK'
    BY <1>2, <1>5, <1>6, <1>7 DEF SocketsOK
  <2>2. SessionsOK'
    BY <1>0, <1>1, <1>2, <1>3, <1>4 DEF SessionsOK
  <2> QED BY <1>0, <1>4, <2>1, <2>2 DEF IOOK
<1>9. Open' \subseteq SockIds /\ \A x \in Open' \ {f} : x \in Open /\ socketinfomap'[x] = m[x] /\ m[x].type # "UNUSED"
  BY <1>2, <1>5, <1>6, <1>7 DEF Open
<1>10. \A x \in Open : Er(x) = <<>> => x \notin S
  BY <1>0, <1>1, SessionPairs DEF Named
<1>11. TameBut({f})
  <2>1. \A x \in Open \ {f} : Er(x) = <<>> => socketinfomap'[x] = socketinfomap[x]
    BY <1>0, <1>2, <1>6, <1>7, <1>10
  <2>2. \A x \in Open' \ {f} :
        /\ socketinfomap'[x].er = Er(x)
        /\ socketinfomap'[x].type = Type(x)
        /\ socketinfomap[x].polled => socketinfomap'[x].polled
    BY <1>6, <1>9
  <2>3. \A s \in Sessions : pasvlistener'[s] \in {pasvlistener[s], NoSock} \cup {f}
    BY <1>0, <1>4 DEF SessionsOK
  <2> QED BY <1>4, <1>9, <2>1, <2>2, <2>3 DEF TameBut
<1>12. Receivers' /\ BatchPolled' /\ Named' /\ NewKept({f})
  <2>1. socketinfomap'[f] = r
    BY <1>2, <1>6, <1>7
  <2>2. \A s \in Sessions : pasvlistener'[s] = f => s = activating
    BY <1>0, <1>2, <1>4 DEF SessionsOK
  <2> QED BY <1>1, <1>2, <1>4, <1>5, <1>11, <2>1, <2>2, TameParts, SessionPairs
<1>13. NewKept({})
  BY <1>2, <1>12 DEF NewKept
<1> QED BY <1>4, <1>8, <1>12, <1>13, PopKeeps, TypeParts DEF TypeInv

LEMMA AcceptTypeInv ==
  ASSUME TypeInv, NEW x \in SockIds, Accept(x)
  PROVE  TypeInv'
<1>0. /\ SocketsOK /\ QueueOK /\ SessionsOK /\ IOOK /\ Open \subseteq SockIds
      /\ Receivers /\ BatchPolled /\ Named /\ Announced /\ Sources /\ TypeOK
  BY TypeParts DEF TypeInv, Open
<1> DEFINE f == Fresh
           e == [type |-> "NEW", to |-> Er(x), sock |-> x, new |-> f]
           r == [Unused EXCEPT !.type = "TCP_PLAIN_LISTEN"]
<1>1. /\ f \in SockIds /\ f \notin Open
      /\ \A s \in Sessions : pasvlistener[s] # f /\ pasvconn[s] # f /\ portconn[s] # f
      /\ \A i \in Places : queue[i].sock # f /\ queue[i].new # f
      /\ \A b \in batch : b[1] # f
  <2>1. Free # {}
    BY <1>0, RoomIsFree DEF Accept
  <2> QED BY <1>0, <2>1, FreshIsNew
<1>2. /\ socketinfomap' = [socketinfomap EXCEPT ![f] = r]
      /\ queue' = Append(queue, e)
      /\ batch' \subseteq batch /\ locked' \in BOOLEAN
      /\ UNCHANGED <<made, state, listenport, pasvlistener, pasvconn, portconn,
                     availableports, unavailableports, control, activating>>
  BY DEF Accept, Take, Push, conns, ports, Er
<1> HIDE DEF f
<1>3. x \in Open /\ Type(x) = "TCP_SERVER"
  BY DEF Accept, Open, Type
<1>4. Er(x) \in Sessions
  BY <1>0, <1>3 DEF Receivers, SocketsOK, SocketRecords, Er
<1>5. e \in Messages /\ e.type = "NEW" /\ e.new = f /\ e.sock = x
  BY <1>1, <1>4 DEF Messages, Events
<1>6. r \in SocketRecords /\ r.type = "TCP_PLAIN_LISTEN" /\ r.er = <<>> /\ ~r.polled /\ ~r.unsent /\ ~r.closing
  BY DEF Unused, SocketRecords, Types
<1> HIDE DEF r, e
<1>7. SocketsOK' /\ SessionsOK' /\ IOOK'
  BY <1>0, <1>1, <1>2, <1>6 DEF SocketsOK, SessionsOK, IOOK
<1>8. Open' = Open \cup {f} /\ \A y \in Open : socketinfomap'[y] = socketinfomap[y]
  BY <1>0, <1>1, <1>2, <1>6 DEF Open, SocketsOK
<1>9. socketinfomap'[f] = r
  BY <1>0, <1>1, <1>2 DEF SocketsOK
<1>10. TameBut({f})
  BY <1>2, <1>8 DEF TameBut, Er, Type
<1>11. Receivers' /\ BatchPolled' /\ Named' /\ NewKept({f})
  BY <1>1, <1>2, <1>6, <1>9, <1>10, TameParts
<1>12. /\ QueueOK' /\ Places = 1 .. Len(queue) /\ Places' = 1 .. Len(queue) + 1
       /\ Len(queue) \in Nat /\ queue'[Len(queue) + 1] = e
       /\ \A i \in Places : i \in Places' /\ queue'[i] = queue[i]
  BY <1>0, <1>2, <1>5, Appended
<1>13. Announced'
  <2>1. \A i \in Places : queue[i].type = "NEW" => queue[i].new \in Open' /\ socketinfomap'[queue[i].new].er = <<>>
    BY <1>0, <1>8 DEF Announced, Er
  <2>2. \A i \in Places' : (i \in Places /\ queue'[i] = queue[i]) \/ i = Len(queue) + 1
    BY <1>12
  <2>3. f \in Open' /\ socketinfomap'[f].er = <<>>
    BY <1>6, <1>8, <1>9
  <2>4. \A i, j \in Places' : queue'[i].type = "NEW" /\ queue'[j].type = "NEW" /\ queue'[j].new = queue'[i].new => j = i
    BY <1>0, <1>1, <1>5, <1>12, <2>2 DEF Announced
  <2> QED BY <1>5, <1>12, <2>1, <2>2, <2>3, <2>4 DEF Announced, Er
<1>14. Sources'
  BY <1>0, <1>5, <1>12 DEF Sources
<1> QED BY <1>7, <1>11, <1>12, <1>13, <1>14, TypeParts DEF TypeInv

\* What HandleNew does, with its new socket named.
LEMMA NewStep ==
  ASSUME TypeInv, HandleNew
  PROVE  LET s == Receiver
             p == Head(queue).new
             f == Fresh
             L == pasvlistener[s]
         IN  /\ Popped \/ \E e \in Messages : /\ e = Event("FAIL", s, f)
                                            /\ queue' = Append(Tail(queue), e) /\ queue # <<>>
             /\ s \in Sessions /\ p \in Open /\ Er(p) = <<>> /\ 1 \in Places /\ queue[1] = Head(queue)
             /\ queue[1].type = "NEW" /\ queue[1].to = s /\ queue[1].sock \in SockIds
             /\ f \in SockIds /\ f \notin Open /\ f # p
             /\ \A t \in Sessions : pasvlistener[t] # f /\ pasvconn[t] # f /\ portconn[t] # f
             /\ \A i \in Places : queue[i].sock # f /\ queue[i].new # f
             /\ \A b \in batch : b[1] # f
             /\ \A x \in Open : socketinfomap[x].twin # f
             /\ state' = [state EXCEPT ![s] = "ACTIVE"]
             /\ pasvconn' = [pasvconn EXCEPT ![s] = p]
             /\ portconn' = [portconn EXCEPT ![s] = f]
             /\ pasvlistener' = [pasvlistener EXCEPT ![s] = NoSock]
             /\ Release({listenport[s]})
             /\ UNCHANGED <<made, listenport, control, activating, batch, locked>>
             /\ SocketsOK'
             /\ \A x \in SockIds \ {p, f} :
                  /\ x \in Open' <=> x \in Open /\ (x = L => socketinfomap[x].unsent)
                  /\ x # L => socketinfomap'[x] = socketinfomap[x]
                  /\ x \in Open' =>
                       /\ socketinfomap'[x].type = Type(x) /\ socketinfomap'[x].er = Er(x)
                       /\ socketinfomap'[x].port = socketinfomap[x].port
                       /\ socketinfomap'[x].polled = socketinfomap[x].polled
                       /\ socketinfomap'[x].unsent = socketinfomap[x].unsent
                       /\ socketinfomap'[x].twin = socketinfomap[x].twin
                       /\ x # L => (socketinfomap'[x].closing <=> socketinfomap[x].closing)
             /\ p \in Open' /\ p # L
             /\ socketinfomap'[p].type = "TCP_PLAIN_LISTEN" /\ socketinfomap'[p].er = s
             /\ ~socketinfomap'[p].polled /\ ~socketinfomap'[p].unsent /\ ~socketinfomap'[p].closing
             /\ socketinfomap'[p].twin = f
             /\ f \in Open' <=> Popped
             /\ f \in Open' =>
                  /\ socketinfomap'[f].type = "TCP_CONNECTING" /\ socketinfomap'[f].er = s
                  /\ socketinfomap'[f].polled /\ ~socketinfomap'[f].unsent /\ ~socketinfomap'[f].closing
                  /\ socketinfomap'[f].twin = p
<1>0. /\ SocketsOK /\ QueueOK /\ SessionsOK /\ IOOK /\ Open \subseteq SockIds
      /\ Receivers /\ Named /\ Announced /\ Sources /\ TypeOK
  BY TypeParts DEF TypeInv, Open
<1> DEFINE s == Receiver
           p == Head(queue).new
           f == Fresh
           L == pasvlistener[s]
           m == CloseSockets(socketinfomap, {L})
           n == [m EXCEPT ![p] = [@ EXCEPT !.er = s, !.twin = f]]
           r == [Unused EXCEPT !.type = "TCP_CONNECTING", !.er = s, !.polled = TRUE, !.twin = p]
<1>1. queue # <<>> /\ 1 \in Places /\ Head(queue) = queue[1] /\ queue[1].type = "NEW" /\ queue[1] \in Messages
  BY <1>0 DEF HandleNew, At, QueueOK, Places
<1>2. s \in Sessions /\ queue[1].to = s /\ queue[1].new = p
  BY <1>1, MessageTypes DEF Receiver
<1>3. p \in Open /\ Er(p) = <<>> /\ queue[1].sock \in SockIds
  BY <1>0, <1>1, <1>2 DEF Announced, Sources
<1>4. /\ f \in SockIds /\ f \notin Open
      /\ \A t \in Sessions : pasvlistener[t] # f /\ pasvconn[t] # f /\ portconn[t] # f
      /\ \A i \in Places : queue[i].sock # f /\ queue[i].new # f
      /\ \A b \in batch : b[1] # f
      /\ \A x \in Open : socketinfomap[x].twin # f
  BY <1>0, FreshIsNew DEF HandleNew
<1>5. /\ state' = [state EXCEPT ![s] = "ACTIVE"]
      /\ pasvconn' = [pasvconn EXCEPT ![s] = p]
      /\ portconn' = [portconn EXCEPT ![s] = f]
      /\ pasvlistener' = [pasvlistener EXCEPT ![s] = NoSock]
      /\ Release({listenport[s]})
      /\ UNCHANGED <<made, listenport, control, activating, batch, locked>>
  BY DEF HandleNew, io
<1>6. \/ socketinfomap' = [n EXCEPT ![f] = r] /\ queue' = Tail(queue)
      \/ socketinfomap' = n /\ queue' = Append(Tail(queue), Event("FAIL", s, f))
  BY DEF HandleNew, Handled
<1> HIDE DEF f, s, p
<1>7. p # L /\ p # f
  BY <1>0, <1>2, <1>3, <1>4, SessionPairs DEF Named
<1>8. /\ m \in [SockIds -> SocketRecords]
      /\ \A x \in SockIds \ {L} : m[x] = socketinfomap[x]
      /\ \A x \in SockIds : m[x].type # "UNUSED" <=> x \in Open /\ (x = L => socketinfomap[x].unsent)
      /\ \A x \in SockIds : m[x].type # "UNUSED" =>
              /\ m[x].type = Type(x) /\ m[x].er = Er(x)
              /\ m[x].port = socketinfomap[x].port
              /\ m[x].polled = socketinfomap[x].polled
              /\ m[x].unsent = socketinfomap[x].unsent
              /\ m[x].twin = socketinfomap[x].twin
              /\ m[x].closing <=> (socketinfomap[x].closing \/ x = L)
  <2> HIDE DEF m, L
  <2> QED BY <1>0, Closes DEF m, Type, Er
<1>9. r \in SocketRecords /\ r.type = "TCP_CONNECTING" /\ r.er = s /\ r.polled /\ ~r.unsent /\ ~r.closing /\ r.twin = p
  BY <1>0, <1>2, <1>3 DEF Unused, SocketRecords, Types
<1>10. m[p] = socketinfomap[p] /\ m[p] \in SocketRecords /\ p \in SockIds
  BY <1>0, <1>3, <1>7, <1>8
<1> DEFINE q == [socketinfomap[p] EXCEPT !.er = s, !.twin = f]
<1>11. q \in SocketRecords /\ q.type = "TCP_PLAIN_LISTEN" /\ q.er = s /\ q.twin = f
       /\ ~q.polled /\ ~q.unsent /\ ~q.closing
  <2>1. socketinfomap[p].type = "TCP_PLAIN_LISTEN" /\ ~socketinfomap[p].polled /\ ~socketinfomap[p].unsent
        /\ ~socketinfomap[p].closing
    BY <1>0, <1>3 DEF Receivers, Type
  <2> QED BY <1>2, <1>4, <1>10, <2>1 DEF SocketRecords
<1>12. n = [m EXCEPT ![p] = q]
  BY <1>8, <1>10
<1> HIDE DEF m, q, r, n
<1>13. n \in [SockIds -> SocketRecords] /\ n[p] = q /\ \A x \in SockIds \ {p} : n[x] = m[x]
  BY <1>8, <1>10, <1>11, <1>12
<1>14. SocketsOK' /\ socketinfomap'[p] = q /\ \A x \in SockIds \ {p, f} : socketinfomap'[x] = m[x]
  BY <1>4, <1>6, <1>7, <1>9, <1>10, <1>13 DEF SocketsOK
<1>15. socketinfomap' = n => socketinfomap'[f] = socketinfomap[f] /\ socketinfomap[f].type = "UNUSED"
  <2>1. f # L
    BY <1>2, <1>4
  <2>2. n[f] = m[f] /\ m[f] = socketinfomap[f]
    BY <1>4, <1>7, <1>8, <1>13, <2>1
  <2> QED BY <1>4, <2>2 DEF Open
<1>16. p \in Open'
  BY <1>10, <1>11, <1>14 DEF Open
<1>17. \A x \in SockIds \ {p, f} : x \in Open' <=> x \in Open /\ (x = L => socketinfomap[x].unsent)
  BY <1>8, <1>14 DEF Open
<1>18. \A x \in SockIds \ {p, f} :
                  /\ x # L => socketinfomap'[x] = socketinfomap[x]
                  /\ x \in Open' =>
                       /\ socketinfomap'[x].type = Type(x) /\ socketinfomap'[x].er = Er(x)
                       /\ socketinfomap'[x].port = socketinfomap[x].port
                       /\ socketinfomap'[x].polled = socketinfomap[x].polled
                       /\ socketinfomap'[x].unsent = socketinfomap[x].unsent
                       /\ socketinfomap'[x].twin = socketinfomap[x].twin
                       /\ x # L => (socketinfomap'[x].closing <=> socketinfomap[x].closing)
  BY <1>8, <1>14, <1>17
<1>19. CASE socketinfomap' = [n EXCEPT ![f] = r] /\ queue' = Tail(queue)
  <2>1. socketinfomap'[f] = r /\ f \in Open' /\ Popped
    BY <1>1, <1>4, <1>9, <1>13, <1>19 DEF Open, Popped
  <2> QED BY <1>1, <1>2, <1>3, <1>4, <1>5, <1>7, <1>9, <1>11, <1>14, <1>16, <1>17, <1>18, <2>1 DEF f, s, p
<1>20. CASE socketinfomap' = n /\ queue' = Append(Tail(queue), Event("FAIL", s, f))
  <2>1. f \notin Open'
    BY <1>15, <1>20 DEF Open
  <2>2. Event("FAIL", s, f) \in Messages
    BY <1>2, <1>4, EventType
  <2>3. ~Popped
    BY <1>0, <1>1, <1>20, <2>2 DEF Popped, QueueOK
  <2> QED BY <1>1, <1>2, <1>3, <1>4, <1>5, <1>7, <1>11, <1>14, <1>16, <1>17, <1>18, <1>20, <2>1, <2>2, <2>3 DEF f, s, p
<1> QED BY <1>6, <1>19, <1>20

LEMMA Requeued ==
  ASSUME QueueOK, queue # <<>>, NEW e \in Messages, queue' = Append(Tail(queue), e)
  PROVE  /\ QueueOK' /\ Places = 1 .. Len(queue) /\ Places' = 1 .. Len(queue)
         /\ Len(queue) \in Nat \ {0} /\ queue'[Len(queue)] = e
         /\ \A i \in Places' : i # Len(queue) => i + 1 \in Places /\ queue'[i] = queue[i + 1]
  BY DEF QueueOK, Places

\* The queue after HandleNew: what was behind its event, and perhaps a FAIL.
LEMMA NewQueue ==
  ASSUME TypeInv, HandleNew
  PROVE  LET f == Fresh
         IN  /\ QueueOK'
             /\ \A i \in Places' : i \in Nat \ {0} /\
                  \/ i + 1 \in Places /\ queue'[i] = queue[i + 1]
                  \/ /\ queue'[i].type = "FAIL" /\ queue'[i].sock = f /\ f \notin Open'
                     /\ queue'[i].to = Receiver /\ queue'[i] \in Messages
                     /\ \A j \in Places' : i = j \/ (i > j /\ j + 1 \in Places /\ queue'[j] = queue[j + 1])
             /\ \A i \in Places : i # 1 => i - 1 \in Places' /\ queue'[i - 1] = queue[i]
<1>0. QueueOK /\ queue # <<>> /\ Receiver \in Sessions /\ Fresh \in SockIds
  BY TypeParts, NewStep DEF TypeInv, HandleNew, At
<1>1. CASE Popped
  BY <1>0, <1>1, Taken DEF Popped
<1>2. CASE ~Popped
  <2> DEFINE f == Fresh
  <2>0. PICK e \in Messages : e = Event("FAIL", Receiver, Fresh) /\ queue' = Append(Tail(queue), e)
    BY <1>2, NewStep
  <2>1. e.type = "FAIL" /\ e.sock = f /\ e.to = Receiver
    BY <1>0, <2>0, EventType
  <2>2. f \notin Open'
    BY <1>2, NewStep
  <2> HIDE DEF f
  <2>3. /\ QueueOK' /\ Places = 1 .. Len(queue) /\ Places' = 1 .. Len(queue)
        /\ Len(queue) \in Nat \ {0} /\ queue'[Len(queue)] = e
        /\ \A i \in Places' : i # Len(queue) => i + 1 \in Places /\ queue'[i] = queue[i + 1]
    BY <1>0, <2>0, Requeued
  <2>4. \A i \in Places : i # 1 => i - 1 \in Places' /\ queue'[i - 1] = queue[i]
    BY <2>3
  <2>5. \A i \in Places' : i \in Nat \ {0} /\ i <= Len(queue)
    BY <2>3
  <2> QED BY <2>1, <2>2, <2>3, <2>4, <2>5 DEF f
<1> QED BY <1>1, <1>2

LEMMA HandleNewTypeInv ==
  ASSUME TypeInv, HandleNew
  PROVE  TypeInv'
<1>0. /\ SocketsOK /\ QueueOK /\ SessionsOK /\ IOOK /\ Open \subseteq SockIds
      /\ Receivers /\ Named /\ Announced /\ Sources /\ TypeOK /\ BatchPolled
  BY TypeParts DEF TypeInv, Open
<1> DEFINE s == Receiver
           p == Head(queue).new
           f == Fresh
           L == pasvlistener[s]
           N == {p, f}
<1>1. /\ s \in Sessions /\ p \in Open /\ Er(p) = <<>> /\ 1 \in Places /\ queue[1] = Head(queue)
      /\ queue[1].type = "NEW"
      /\ f \in SockIds /\ f \notin Open /\ f # p
      /\ \A t \in Sessions : pasvlistener[t] # f /\ pasvconn[t] # f /\ portconn[t] # f
      /\ \A i \in Places : queue[i].sock # f /\ queue[i].new # f
      /\ \A b \in batch : b[1] # f
  BY NewStep
<1>2. /\ state' = [state EXCEPT ![s] = "ACTIVE"]
      /\ pasvconn' = [pasvconn EXCEPT ![s] = p]
      /\ portconn' = [portconn EXCEPT ![s] = f]
      /\ pasvlistener' = [pasvlistener EXCEPT ![s] = NoSock]
      /\ Release({listenport[s]})
      /\ UNCHANGED <<made, listenport, control, activating, batch, locked>>
  BY NewStep
<1>3. \A x \in SockIds \ N :
        /\ x \in Open' => x \in Open
        /\ x # L => socketinfomap'[x] = socketinfomap[x]
        /\ x \in Open' =>
             /\ socketinfomap'[x].type = Type(x) /\ socketinfomap'[x].er = Er(x)
             /\ socketinfomap'[x].polled = socketinfomap[x].polled
  BY NewStep
<1>4. /\ socketinfomap'[p].type = "TCP_PLAIN_LISTEN" /\ socketinfomap'[p].er = s
      /\ f \in Open' =>
           socketinfomap'[f].type = "TCP_CONNECTING" /\ socketinfomap'[f].er = s
  BY NewStep
<1>5. SocketsOK'
  BY NewStep
<1>6. SessionsOK' /\ IOOK'
  BY <1>0, <1>1, <1>2 DEF SessionsOK, IOOK, Release
<1>7. QueueOK' /\ Announced' /\ Sources'
  <2>1. /\ QueueOK'
        /\ \A i \in Places' : i \in Nat \ {0} /\
                  \/ i + 1 \in Places /\ queue'[i] = queue[i + 1]
                  \/ queue'[i].type = "FAIL" /\ queue'[i].sock = f
    BY NewQueue
  <2> HIDE DEF f
  <2>2. Sources'
    BY <1>0, <1>1, <2>1 DEF Sources
  <2>3. ASSUME NEW i \in Places', queue'[i].type = "NEW"
        PROVE  /\ queue'[i].new \in Open' /\ socketinfomap'[queue'[i].new].er = <<>>
               /\ \A j \in Places' : queue'[j].type = "NEW" /\ queue'[j].new = queue'[i].new => j = i
    <3> DEFINE y == queue[i + 1].new
    <3>1. i + 1 \in Places /\ queue'[i] = queue[i + 1] /\ i + 1 # 1
      BY <2>1, <2>3
    <3>2. y \in Open /\ Er(y) = <<>> /\ y # p
      BY <1>0, <1>1, <2>3, <3>1 DEF Announced
    <3>3. y # L
      BY <1>0, <1>1, <3>2, SessionPairs DEF Named
    <3>4. socketinfomap'[y] = socketinfomap[y]
      BY <1>0, <1>1, <1>3, <3>2, <3>3
    <3>5. y \in Open' /\ socketinfomap'[y].er = <<>>
      BY <3>2, <3>4 DEF Open, Er
    <3>6. ASSUME NEW j \in Places', queue'[j].type = "NEW", queue'[j].new = queue'[i].new PROVE j = i
      <4>1. j + 1 \in Places /\ queue'[j] = queue[j + 1]
        BY <2>1, <3>6
      <4>2. j + 1 = i + 1
        BY <1>0, <2>3, <3>1, <3>6, <4>1 DEF Announced
      <4> QED BY <2>1, <4>2
    <3> QED BY <3>1, <3>5, <3>6
  <2> QED BY <2>1, <2>2, <2>3 DEF Announced, Er
<1> HIDE DEF f, s, p
<1>8. \A b \in batch : b[1] # p
  <2>1. ~socketinfomap[p].polled
    BY <1>0, <1>1 DEF Receivers
  <2> QED BY <1>0, <1>1, <2>1 DEF BatchPolled
<1>9. TameBut(N)
  <2>1. \A x \in Open' \ N :
        /\ x \in Open
        /\ socketinfomap'[x].er = Er(x)
        /\ socketinfomap'[x].type = Type(x)
        /\ socketinfomap[x].polled => socketinfomap'[x].polled
    BY <1>3 DEF Open
  <2>2. \A x \in Open \ N : Er(x) = <<>> => socketinfomap'[x] = socketinfomap[x]
    BY <1>0, <1>1, <1>3, SessionPairs DEF Named
  <2>3. \A t \in Sessions :
        /\ pasvlistener'[t] \in {pasvlistener[t], NoSock} \cup N
        /\ pasvconn'[t] \in {pasvconn[t], NoSock} \cup N
        /\ portconn'[t] \in {portconn[t], NoSock} \cup N
    BY <1>0, <1>1, <1>2 DEF SessionsOK
  <2>4. batch' \subseteq batch
    BY <1>2
  <2> QED BY <2>1, <2>2, <2>3, <2>4 DEF TameBut
<1>10. Receivers' /\ BatchPolled' /\ Named'
  <2>1. \A t \in Sessions : pasvlistener[t] # p /\ pasvconn[t] # p /\ portconn[t] # p
    BY <1>0, <1>1, SessionPairs DEF Named
  <2>2. \A t \in Sessions :
          /\ pasvlistener'[t] \notin N
          /\ pasvconn'[t] \in N => t = s /\ pasvconn'[t] = p
          /\ portconn'[t] \in N => t = s /\ portconn'[t] = f
    BY <1>0, <1>1, <1>2, <2>1 DEF SessionsOK
  <2>3. \A x \in Open' \cap N : socketinfomap'[x].er # <<>>
    BY <1>1, <1>4, SessionPairs
  <2>4. \A e \in batch' : e[1] \notin N
    BY <1>1, <1>2, <1>8
  <2>5. \A t \in Sessions :
            /\ pasvlistener'[t] \in N => socketinfomap'[pasvlistener'[t]].type = "TCP_SERVER"
                                         /\ socketinfomap'[pasvlistener'[t]].er = t
            /\ pasvconn'[t] \in N => socketinfomap'[pasvconn'[t]].type = "TCP_PLAIN_LISTEN"
                                     /\ socketinfomap'[pasvconn'[t]].er = t
            /\ portconn'[t] \in N \cap Open' =>
                 /\ socketinfomap'[portconn'[t]].type \in {"TCP_CONNECTING", "TCP_PLAIN"}
                 /\ socketinfomap'[portconn'[t]].er = t
    BY <1>4, <2>2
  <2> HIDE DEF N
  <2> QED BY <1>9, <2>3, <2>4, <2>5, TameParts
<1> QED BY <1>5, <1>6, <1>7, <1>10, TypeParts DEF TypeInv

\* The IO thread's other steps, and the connect timer: one socket is concerned,
\* which has a receiver.
LEMMA ServedHasReceiver ==
  ASSUME TypeInv, NEW x \in SockIds, x \in Open,
         (\E dir \in {"IN", "OUT"} : <<x, dir>> \in batch) \/ Type(x) = "TCP_CONNECTING"
  PROVE  Er(x) \in Sessions /\ Er(x) # <<>>
<1>0. SocketsOK /\ Receivers /\ BatchPolled
  BY TypeParts DEF TypeInv
<1>1. Er(x) \in Sessions \cup {<<>>}
  BY <1>0 DEF SocketsOK, SocketRecords, Er
<1>2. Er(x) # <<>>
  <2>1. CASE Type(x) = "TCP_CONNECTING"
    BY <1>0, <2>1 DEF Receivers
  <2>2. CASE \E dir \in {"IN", "OUT"} : <<x, dir>> \in batch
    <3>1. socketinfomap[x].polled
      BY <1>0, <2>2 DEF BatchPolled
    <3> QED BY <1>0, <3>1 DEF Receivers
  <2> QED BY <2>1, <2>2
<1> QED BY <1>1, <1>2

\* What the five steps have in common: x becomes a socket like it, or goes.
Serves(x) ==
    /\ x \in Open
    /\ \/ socketinfomap' = Remove(socketinfomap, x)
       \/ Type(x) = "TCP_CONNECTING" /\ socketinfomap' = [socketinfomap EXCEPT ![x].type = "TCP_PLAIN"]
       \/ socketinfomap' = [socketinfomap EXCEPT ![x].unsent = FALSE]
       \/ UNCHANGED socketinfomap

LEMMA ServesTame ==
  ASSUME TypeInv, NEW x \in SockIds, Serves(x), Er(x) # <<>>, batch' \subseteq batch, UNCHANGED conns
  PROVE  /\ Tame /\ SocketsOK' /\ \A y \in SockIds \ {x} : socketinfomap'[y] = socketinfomap[y]
         /\ \A y \in SockIds \ {x} : y \in Open' <=> y \in Open
         /\ x \in Open' =>
              /\ socketinfomap'[x].er = Er(x) /\ socketinfomap'[x].twin = socketinfomap[x].twin
              /\ socketinfomap'[x].polled = socketinfomap[x].polled
              /\ socketinfomap'[x].closing = socketinfomap[x].closing
              /\ socketinfomap'[x].port = socketinfomap[x].port
              /\ \/ socketinfomap'[x].type = Type(x)
                 \/ Type(x) = "TCP_CONNECTING" /\ socketinfomap'[x].type = "TCP_PLAIN"
              /\ socketinfomap'[x].unsent => socketinfomap[x].unsent
<1>0. SocketsOK /\ socketinfomap[x] \in SocketRecords
  BY TypeParts DEF TypeInv, SocketsOK
<1>1. /\ SocketsOK' /\ \A y \in SockIds \ {x} : socketinfomap'[y] = socketinfomap[y]
      /\ x \in Open' =>
           /\ socketinfomap'[x].er = Er(x) /\ socketinfomap'[x].twin = socketinfomap[x].twin
           /\ socketinfomap'[x].polled = socketinfomap[x].polled
           /\ socketinfomap'[x].closing = socketinfomap[x].closing
           /\ socketinfomap'[x].port = socketinfomap[x].port
           /\ \/ socketinfomap'[x].type = Type(x)
              \/ Type(x) = "TCP_CONNECTING" /\ socketinfomap'[x].type = "TCP_PLAIN"
           /\ socketinfomap'[x].unsent => socketinfomap[x].unsent
  <2> USE DEF SocketsOK, Er, Type
  <2>1. CASE socketinfomap' = Remove(socketinfomap, x)
    <3>1. socketinfomap' = [socketinfomap EXCEPT ![x] = Unused]
      BY <2>1 DEF Remove
    <3>2. socketinfomap'[x].type = "UNUSED" /\ x \notin Open'
      BY <1>0, <3>1, UnusedType DEF Open
    <3> QED BY <1>0, <3>1, <3>2, UnusedType
  <2>2. CASE socketinfomap' = [socketinfomap EXCEPT ![x].type = "TCP_PLAIN"] /\ Type(x) = "TCP_CONNECTING"
    BY <1>0, <2>2 DEF SocketRecords, Open, Types
  <2>3. CASE socketinfomap' = [socketinfomap EXCEPT ![x].unsent = FALSE]
    BY <1>0, <2>3 DEF SocketRecords, Open, Serves, Types
  <2>4. CASE UNCHANGED socketinfomap
    BY <1>0, <2>4 DEF SocketRecords, Open, Serves, Types
  <2> QED BY <2>1, <2>2, <2>3, <2>4 DEF Serves
<1>2. \A y \in SockIds \ {x} : y \in Open' <=> y \in Open
  BY <1>1 DEF Open
<1>3. Tame
  <2>1. x \in Open /\ Open \subseteq SockIds /\ Open' \subseteq SockIds
    BY DEF Serves, Open
  <2> QED BY <1>1, <1>2, <2>1 DEF Tame, TameBut, Er, Type, conns
<1> QED BY <1>1, <1>2, <1>3

LEMMA RemoveGone ==
  ASSUME TypeInv, NEW x \in SockIds, socketinfomap' = Remove(socketinfomap, x)
  PROVE  x \notin Open'
<1>1. socketinfomap'[x] = Unused
  BY TypeParts DEF TypeInv, SocketsOK, Remove
<1> QED BY <1>1, UnusedType DEF Open

LEMMA ServesTypeInv ==
  ASSUME TypeInv, NEW x \in SockIds,
         \/ Connect(x) \/ ConnectFails(x) \/ ConnectTimeout(x) \/ ReadData(x) \/ ReadEnd(x)
         \/ Drain(x) \/ WriteFails(x)
  PROVE  TypeInv' /\ Serves(x) /\ Er(x) \in Sessions /\ batch' \subseteq batch /\ UNCHANGED conns
<1>0. /\ SessionsOK /\ IOOK
  BY TypeParts DEF TypeInv
<1>1. /\ Serves(x) /\ batch' \subseteq batch
      /\ UNCHANGED <<made, state, listenport, conns, ports, control, activating>>
  BY DEF Connect, ConnectFails, ConnectTimeout, Fail, ReadData, ReadEnd, Drain, WriteFails, Take, io,
         Connected, Serves, Type, Open
<1>2. (\E dir \in {"IN", "OUT"} : <<x, dir>> \in batch) \/ Type(x) = "TCP_CONNECTING"
  BY DEF Connect, ConnectFails, ConnectTimeout, Fail, ReadData, ReadEnd, Drain, WriteFails, Take, Type
<1>3. Er(x) \in Sessions /\ Er(x) # <<>>
  BY <1>1, <1>2, ServedHasReceiver DEF Serves
<1>4. Tame /\ SocketsOK'
  BY <1>1, <1>3, ServesTame
<1>5. locked' \in BOOLEAN
  BY <1>0 DEF IOOK, Connect, ConnectFails, ConnectTimeout, Fail, ReadData, ReadEnd, Drain, WriteFails, Take, io
<1>6. SessionsOK' /\ IOOK'
  BY <1>0, <1>1, <1>5 DEF SessionsOK, IOOK, conns, ports
<1>7. QueueSteps
  <2>1. \A t \in {"CONNECTED", "FAIL", "PASVDATA", "PORTDATA", "PASVCLOSED", "PORTCLOSED"} :
          Event(t, Er(x), x) \in Messages /\ Event(t, Er(x), x).type = t /\ Event(t, Er(x), x).sock = x
    BY <1>3, EventType
  <2>2. \/ UNCHANGED queue
        \/ \E t \in {"CONNECTED", "FAIL", "PASVDATA", "PORTDATA", "PASVCLOSED", "PORTCLOSED"} :
             queue' = Append(queue, Event(t, Er(x), x))
    BY DEF Connect, ConnectFails, ConnectTimeout, Fail, ReadData, ReadEnd, Drain, WriteFails,
           Push, PushUnless, Data, Closed, Notice, Er
  <2> QED BY <2>1, <2>2 DEF QueueSteps, Pushed
<1> QED BY <1>1, <1>3, <1>4, <1>6, <1>7, TameKeeps

LEMMA PollsTypeInv ==
  ASSUME TypeInv, PollWait \/ \E x \in SockIds, dir \in {"IN", "OUT"} : Nothing(x, dir)
  PROVE  TypeInv'
<1>0. SocketsOK /\ SessionsOK /\ IOOK /\ QueueOK /\ Receivers /\ Named /\ Announced /\ Sources
  BY TypeParts DEF TypeInv
<1>1. ASSUME NEW x \in SockIds, NEW dir \in {"IN", "OUT"}, Nothing(x, dir) PROVE TypeInv'
  <2>1. /\ UNCHANGED <<made, state, listenport, conns, ports, control, activating, socketinfomap, queue>>
        /\ batch' \subseteq batch /\ locked' \in BOOLEAN
    BY <1>1 DEF Nothing, Take
  <2>2. Tame
    BY <2>1 DEF conns, Tame, TameBut, Open, Er, Type
  <2> QED BY <1>0, <2>1, <2>2, TameKeeps DEF QueueSteps, SocketsOK, SessionsOK, IOOK, conns, ports
<1>2. CASE PollWait
  <2>1. UNCHANGED <<made, state, listenport, conns, ports, socketinfomap, locked, queue, control, activating>>
    BY <1>2 DEF PollWait
  <2>2. PICK S \in SUBSET Polled : batch' = {<<x, Direction(x)>> : x \in S}
    BY <1>2 DEF PollWait
  <2>3. BatchPolled' /\ IOOK'
    <3>1. \A x \in S : x \in SockIds /\ socketinfomap[x].polled /\ Direction(x) \in {"IN", "OUT"}
      BY DEF Polled, Open, Direction
    <3>2. \A e \in batch' : e \in SockIds \X {"IN", "OUT"} /\ socketinfomap[e[1]].polled
      BY <2>2, <3>1
    <3> QED BY <1>0, <2>1, <3>2 DEF BatchPolled, IOOK
  <2>4. SocketsOK' /\ SessionsOK' /\ QueueOK' /\ Receivers' /\ Named' /\ Announced' /\ Sources'
    BY <1>0, <2>1 DEF SocketsOK, SessionsOK, QueueOK, Receivers, Named, Announced, Sources, Places,
                      Open, Er, Type, conns, ports
  <2> QED BY <2>3, <2>4, TypeParts DEF TypeInv
<1> QED BY <1>1, <1>2

\* The message a handler has.
LEMMA HeadTypes ==
  ASSUME TypeInv, NEW t, At(t)
  PROVE  /\ queue # <<>> /\ 1 \in Places /\ Head(queue) = queue[1] /\ queue[1].type = t
         /\ queue[1] \in Messages /\ Receiver \in Sessions /\ queue[1].to = Receiver
         /\ Idle
<1>0. QueueOK
  BY TypeParts DEF TypeInv
<1>1. queue # <<>> /\ 1 \in Places /\ Head(queue) = queue[1] /\ queue[1].type = t /\ queue[1] \in Messages
  BY <1>0 DEF At, QueueOK, Places
<1> QED BY <1>1, MessageTypes DEF Receiver, At

\* resume(): the only socket that may change is one of the session's own.
LEMMA ResumeEffect ==
  ASSUME TypeInv, HandleConnected
  PROVE  LET p == pasvconn[Receiver]
         IN  /\ Tame /\ SocketsOK'
             /\ \A x \in SockIds : x \in Open' <=> x \in Open
             /\ \A x \in SockIds : x # p \/ p \notin Open => socketinfomap'[x] = socketinfomap[x]
             /\ p \in Open =>
                  /\ socketinfomap'[p].type = Type(p) /\ socketinfomap'[p].er = Er(p)
                  /\ socketinfomap'[p].port = socketinfomap[p].port
                  /\ socketinfomap'[p].unsent = socketinfomap[p].unsent
                  /\ socketinfomap'[p].closing = socketinfomap[p].closing
                  /\ socketinfomap'[p].twin = socketinfomap[p].twin
                  /\ socketinfomap'[p].polled
<1> DEFINE p == pasvconn[Receiver]
<1>0. SocketsOK /\ Named /\ Receiver \in Sessions
  BY HeadTypes, TypeParts DEF TypeInv, HandleConnected
<1>1. UNCHANGED <<pasvlistener, pasvconn, portconn, batch>>
  BY DEF HandleConnected, conns, io
<1>2. socketinfomap' = IF p \in Open THEN [socketinfomap EXCEPT ![p].polled = TRUE] ELSE socketinfomap
  BY DEF HandleConnected
<1>3. p \in Open => p \in SockIds /\ socketinfomap[p] \in SocketRecords /\ Er(p) # <<>>
  BY <1>0, SessionPairs DEF Open, SocketsOK, Named
<1> HIDE DEF p
<1>4. /\ SocketsOK'
      /\ \A x \in SockIds : x # p \/ p \notin Open => socketinfomap'[x] = socketinfomap[x]
      /\ p \in Open =>
           /\ socketinfomap'[p].type = Type(p) /\ socketinfomap'[p].er = Er(p)
           /\ socketinfomap'[p].port = socketinfomap[p].port
           /\ socketinfomap'[p].unsent = socketinfomap[p].unsent
           /\ socketinfomap'[p].closing = socketinfomap[p].closing
           /\ socketinfomap'[p].twin = socketinfomap[p].twin
           /\ socketinfomap'[p].polled
  BY <1>0, <1>2, <1>3 DEF SocketsOK, SocketRecords, Type, Er
<1>5. \A x \in SockIds : x \in Open' <=> x \in Open
  BY <1>4 DEF Open, Type
<1>6. Tame
  <2>1. Open \subseteq SockIds /\ Open' \subseteq SockIds
    BY DEF Open
  <2> QED BY <1>1, <1>3, <1>4, <1>5, <2>1 DEF Tame, TameBut, Er, Type
<1> QED BY <1>4, <1>5, <1>6 DEF p

\* sendData(): likewise.
LEMMA SendEffect ==
  ASSUME TypeInv, HandleData
  PROVE  LET d == Destination
         IN  /\ Tame /\ SocketsOK'
             /\ \A x \in SockIds : x \in Open' <=> x \in Open
             /\ \A x \in SockIds : x # d \/ d \notin Open => socketinfomap'[x] = socketinfomap[x]
             /\ d \in Open =>
                  /\ socketinfomap'[d].type = Type(d) /\ socketinfomap'[d].er = Er(d)
                  /\ socketinfomap'[d].port = socketinfomap[d].port
                  /\ socketinfomap'[d].unsent
                  /\ socketinfomap'[d].closing = socketinfomap[d].closing
                  /\ socketinfomap'[d].twin = socketinfomap[d].twin
                  /\ socketinfomap'[d].polled
<1> DEFINE d == Destination
<1>0. SocketsOK /\ Named /\ Receiver \in Sessions
  BY HeadTypes, TypeParts DEF TypeInv, HandleData
<1>1. UNCHANGED <<pasvlistener, pasvconn, portconn, batch>>
  BY DEF HandleData, conns, io
<1>2. socketinfomap' = IF d \in Open THEN [socketinfomap EXCEPT ![d].unsent = TRUE, ![d].polled = TRUE] ELSE socketinfomap
  BY DEF HandleData, Send
<1>3. d \in Open => d \in SockIds /\ socketinfomap[d] \in SocketRecords /\ Er(d) # <<>>
  BY <1>0, SessionPairs DEF Open, SocketsOK, Named, Destination
<1> HIDE DEF d
<1>4. /\ SocketsOK'
      /\ \A x \in SockIds : x # d \/ d \notin Open => socketinfomap'[x] = socketinfomap[x]
      /\ d \in Open =>
           /\ socketinfomap'[d].type = Type(d) /\ socketinfomap'[d].er = Er(d)
           /\ socketinfomap'[d].port = socketinfomap[d].port
           /\ socketinfomap'[d].unsent
           /\ socketinfomap'[d].closing = socketinfomap[d].closing
           /\ socketinfomap'[d].twin = socketinfomap[d].twin
           /\ socketinfomap'[d].polled
  BY <1>0, <1>2, <1>3 DEF SocketsOK, SocketRecords, Type, Er
<1>5. \A x \in SockIds : x \in Open' <=> x \in Open
  BY <1>4 DEF Open, Type
<1>6. Tame
  <2>1. Open \subseteq SockIds /\ Open' \subseteq SockIds
    BY DEF Open
  <2> QED BY <1>1, <1>3, <1>4, <1>5, <2>1 DEF Tame, TameBut, Er, Type
<1> QED BY <1>4, <1>5, <1>6 DEF d

\* What a failed connect and the end of a connection do.
LEMMA EndEffects ==
  ASSUME TypeInv
  PROVE  /\ HandleFail => Tame /\ Shut({pasvconn[Receiver]})
         /\ HandlePasvClosed => Tame /\ (pasvconn[Receiver] = Head(queue).sock => Shut({portconn[Receiver]}))
         /\ HandlePortClosed => Tame /\ (portconn[Receiver] = Head(queue).sock => Shut({pasvconn[Receiver]}))
<1>0. /\ \A s \in Sessions : pasvlistener[s] \in SockIds \cup {NoSock} /\ pasvconn[s] \in SockIds \cup {NoSock}
                          /\ portconn[s] \in SockIds \cup {NoSock}
      /\ SessionsOK
  BY TypeParts DEF TypeInv, SessionsOK
<1>1. CASE HandleFail
  <2> DEFINE P == {pasvconn[Receiver]}
  <2>1. Receiver \in Sessions
    BY <1>1, HeadTypes DEF HandleFail
  <2>2. socketinfomap' = CloseSockets(socketinfomap, P) /\ batch' \subseteq batch
    BY <1>1 DEF HandleFail, io
  <2>3. \A x \in P : \E s \in Sessions : x \in {pasvlistener[s], pasvconn[s], portconn[s]}
    BY <2>1
  <2>4. \A s \in Sessions :
             /\ pasvlistener'[s] \in {pasvlistener[s], NoSock}
             /\ pasvconn'[s] \in {pasvconn[s], NoSock}
             /\ portconn'[s] \in {portconn[s], NoSock}
    BY <1>0, <1>1, <2>1 DEF HandleFail, SessionsOK
  <2>5. Tame /\ Shut(P)
    <3> HIDE DEF P
    <3> QED BY <2>2, <2>3, <2>4, ShutTame
  <2> QED BY <1>1, <2>5 DEF HandleFail, HandlePasvClosed, HandlePortClosed, At
<1>2. CASE HandlePasvClosed
  <2> DEFINE P == {portconn[Receiver]}
  <2>1. Receiver \in Sessions
    BY <1>2, HeadTypes DEF HandlePasvClosed
  <2>2. \A s \in Sessions :
             /\ pasvlistener'[s] \in {pasvlistener[s], NoSock}
             /\ pasvconn'[s] \in {pasvconn[s], NoSock}
             /\ portconn'[s] \in {portconn[s], NoSock}
    BY <1>0, <1>2, <2>1 DEF HandlePasvClosed, SessionsOK
  <2>3. \A x \in P : \E s \in Sessions : x \in {pasvlistener[s], pasvconn[s], portconn[s]}
    BY <2>1
  <2>4. CASE pasvconn[Receiver] = Head(queue).sock
    <3>1. socketinfomap' = CloseSockets(socketinfomap, P) /\ batch' \subseteq batch
      BY <1>2, <2>4 DEF HandlePasvClosed, io
    <3>2. Tame /\ Shut(P)
      <4> HIDE DEF P
      <4> QED BY <2>2, <2>3, <3>1, ShutTame
    <3> QED BY <1>2, <3>2 DEF HandleFail, HandlePasvClosed, HandlePortClosed, At
  <2>5. CASE pasvconn[Receiver] # Head(queue).sock
    <3>1. UNCHANGED socketinfomap /\ batch' \subseteq batch
      BY <1>2, <2>5 DEF HandlePasvClosed, io
    <3>2. Tame
      BY <2>2, <3>1 DEF Tame, TameBut, Open, Er, Type
    <3> QED BY <1>2, <2>5, <3>2 DEF HandleFail, HandlePasvClosed, HandlePortClosed, At
  <2> QED BY <2>4, <2>5
<1>3. CASE HandlePortClosed
  <2> DEFINE P == {pasvconn[Receiver]}
  <2>1. Receiver \in Sessions
    BY <1>3, HeadTypes DEF HandlePortClosed
  <2>2. \A s \in Sessions :
             /\ pasvlistener'[s] \in {pasvlistener[s], NoSock}
             /\ pasvconn'[s] \in {pasvconn[s], NoSock}
             /\ portconn'[s] \in {portconn[s], NoSock}
    BY <1>0, <1>3, <2>1 DEF HandlePortClosed, SessionsOK
  <2>3. \A x \in P : \E s \in Sessions : x \in {pasvlistener[s], pasvconn[s], portconn[s]}
    BY <2>1
  <2>4. CASE portconn[Receiver] = Head(queue).sock
    <3>1. socketinfomap' = CloseSockets(socketinfomap, P) /\ batch' \subseteq batch
      BY <1>3, <2>4 DEF HandlePortClosed, io
    <3>2. Tame /\ Shut(P)
      <4> HIDE DEF P
      <4> QED BY <2>2, <2>3, <3>1, ShutTame
    <3> QED BY <1>3, <3>2 DEF HandleFail, HandlePasvClosed, HandlePortClosed, At
  <2>5. CASE portconn[Receiver] # Head(queue).sock
    <3>1. UNCHANGED socketinfomap /\ batch' \subseteq batch
      BY <1>3, <2>5 DEF HandlePortClosed, io
    <3>2. Tame
      BY <2>2, <3>1 DEF Tame, TameBut, Open, Er, Type
    <3> QED BY <1>3, <2>5, <3>2 DEF HandleFail, HandlePasvClosed, HandlePortClosed, At
  <2> QED BY <2>4, <2>5
<1> QED BY <1>1, <1>2, <1>3

LEMMA HandleTypeInv ==
  ASSUME TypeInv, Handle
  PROVE  TypeInv'
<1>0. SocketsOK /\ SessionsOK /\ IOOK
  BY TypeParts DEF TypeInv
<1>1. CASE HandleNew
  BY <1>1, HandleNewTypeInv
<1>2. CASE HandleListenFail
  <2>1. Tame /\ QueueSteps
    BY <1>2 DEF HandleListenFail, At, Handled, conns, io, Tame, TameBut, Open, Er, Type, QueueSteps, Popped
  <2> QED BY <1>0, <1>2, <2>1, TameKeeps
          DEF HandleListenFail, conns, ports, io, SocketsOK, SessionsOK, IOOK
<1>3. CASE HandleConnected
  <2>1. Tame /\ SocketsOK'
    BY <1>3, ResumeEffect
  <2>2. QueueSteps
    BY <1>3 DEF HandleConnected, At, Handled, QueueSteps, Popped
  <2> QED BY <1>0, <1>3, <2>1, <2>2, TameKeeps
          DEF HandleConnected, conns, ports, io, SessionsOK, IOOK
<1>4. CASE HandleFail
  <2>1. Tame /\ SocketsOK'
    BY <1>4, EndEffects DEF Shut
  <2>2. QueueSteps
    BY <1>4 DEF HandleFail, At, Handled, QueueSteps, Popped
  <2> QED BY <1>0, <1>4, <2>1, <2>2, TameKeeps DEF HandleFail, ports, io, SessionsOK, IOOK
<1>5. CASE HandleData
  <2>1. Tame /\ SocketsOK'
    BY <1>5, SendEffect
  <2>2. QueueSteps
    BY <1>5 DEF HandleData, At, Handled, QueueSteps, Popped
  <2> QED BY <1>0, <1>5, <2>1, <2>2, TameKeeps
          DEF HandleData, conns, ports, io, SessionsOK, IOOK
<1>6. CASE HandlePasvClosed
  <2>1. Tame /\ SocketsOK'
    BY <1>0, <1>6, EndEffects DEF Shut, HandlePasvClosed, SocketsOK
  <2>2. QueueSteps
    BY <1>6 DEF HandlePasvClosed, At, Handled, QueueSteps, Popped
  <2>3. SessionsOK' /\ IOOK'
    BY <1>0, <1>6 DEF HandlePasvClosed, Finished, ports, io, SessionsOK, IOOK
  <2> QED BY <2>1, <2>2, <2>3, TameKeeps
<1>7. CASE HandlePortClosed
  <2>1. Tame /\ SocketsOK'
    BY <1>0, <1>7, EndEffects DEF Shut, HandlePortClosed, SocketsOK
  <2>2. QueueSteps
    BY <1>7 DEF HandlePortClosed, At, Handled, QueueSteps, Popped
  <2>3. SessionsOK' /\ IOOK'
    BY <1>0, <1>7 DEF HandlePortClosed, Finished, ports, io, SessionsOK, IOOK
  <2> QED BY <2>1, <2>2, <2>3, TameKeeps
<1>8. CASE HandleLogin
  <2>1. Tame /\ QueueSteps
    BY <1>8 DEF HandleLogin, At, Handled, conns, io, Tame, TameBut, Open, Er, Type, QueueSteps, Popped
  <2> QED BY <1>0, <1>8, <2>1, TameKeeps
          DEF HandleLogin, conns, ports, io, SocketsOK, SessionsOK, IOOK
<1> QED BY <1>1, <1>2, <1>3, <1>4, <1>5, <1>6, <1>7, <1>8 DEF Handle

LEMMA StutterTypeInv == TypeInv /\ UNCHANGED vars => TypeInv'
  BY TypeParts DEF vars, conns, ports, io, TypeInv, SocketsOK, QueueOK, SessionsOK, IOOK, Receivers, BatchPolled, Named,
         Announced, Sources, Places, Open, Er, Type

LEMMA NextTypeInv == TypeInv /\ [Next]_vars => TypeInv'
<1> SUFFICES ASSUME TypeInv, [Next]_vars PROVE TypeInv' OBVIOUS
<1>1. CASE UNCHANGED vars
  BY <1>1, StutterTypeInv
<1>2. CASE Next
  BY <1>2, CallsTypeInv, ListeningTypeInv, AcceptTypeInv, ServesTypeInv, PollsTypeInv, HandleTypeInv
     DEF Next, IOStep
<1> QED BY <1>1, <1>2

\* Every variable keeps its type, whatever peers and clients do: an event is
\* for a session, a session's ids are of sockets or of none (trafficbncsession.h).
THEOREM TypeCorrect == Spec => []TypeOK
<1>1. TypeInv => TypeOK
  BY DEF TypeInv
<1> QED BY InitTypeInv, NextTypeInv, <1>1, PTL DEF Spec
=============================================================================
