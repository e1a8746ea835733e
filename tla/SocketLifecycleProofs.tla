------------------------ MODULE SocketLifecycleProofs -----------------------
(***************************************************************************)
(* Theorems about SocketLifecycle, for every timeout and every bound: the  *)
(* types, that a socket is polled for what it waits for, that the link     *)
(* changes sides once, and that a receiver is told what SocketEvents       *)
(* promises.                                                               *)
(***************************************************************************)
EXTENDS SocketLifecycle, TLAPS

(* Where the IO thread is when it holds the lock across two steps.  *)
InHand ==
    /\ iopc = "lock" => type \notin {"unused", "resolving"}
    /\ iopc = "negotiate" => type \in {"negotiate", "erased"}
    /\ iopc = "read" => type = "ssl"

(* Only a socket without a verdict has a timer or a resolver at work.  *)
Waiting ==
    /\ connecttime # Off => type \in {"resolving", "connecting"}
    /\ resolver # None => type \in {"resolving", "erased"}
    /\ type \in {"unused", "resolving"} => told = <<>>
    /\ type = "unused" => sendqueue = <<>> /\ ~closing

(* The flag `closing' is what is left of closeSocket() while the socket lives.  *)
ClosingOK ==
    /\ closing => ~wanted
    /\ ~wanted => closing \/ type = "erased"

Inv == TypeOK /\ Watched /\ InHand /\ Waiting /\ ClosingOK

LEMMA InitInv == Init => Inv
<1> SUFFICES ASSUME Init PROVE Inv OBVIOUS
<1> USE DEF Init, Off, None
<1>1. TypeOK
  <2>1. connecttime \in {Off} \cup 0 .. Timeout - 1
    BY TimeoutAssumption
  <2>2. sent \in 0 .. MaxSend /\ got \in 0 .. MaxData
    BY BoundsAssumption
  <2>3. sendqueue \in Seq(Blocks) /\ told \in Seq(Reports) /\ wire \in Seq(Writings)
    OBVIOUS
  <2> QED BY <2>1, <2>2, <2>3 DEF TypeOK, Slips
<1>2. Watched
  BY DEF Watched, Connected
<1>3. InHand /\ Waiting /\ ClosingOK
  BY DEF InHand, Waiting, ClosingOK
<1> QED BY <1>1, <1>2, <1>3 DEF Inv

LEMMA StutterInv == Inv /\ UNCHANGED vars => Inv'
  BY DEF Inv, TypeOK, Watched, InHand, Waiting, ClosingOK, Connected, vars, sock, io, counts

(* What is told is a report, and telling keeps the type of `told'.  *)
LEMMA ReportTypes == \A e \in EventNames : Event(e) \in Reports /\ Nameless(e) \in Reports
  BY DEF Event, Nameless, Reports

LEMMA AppendTypes ==
  ASSUME NEW S, NEW s \in Seq(S), NEW e \in S
  PROVE  Append(s, e) \in Seq(S)
  OBVIOUS

LEMMA TellType ==
  ASSUME told \in Seq(Reports)
  PROVE  \A e \in EventNames : /\ Append(told, Event(e)) \in Seq(Reports)
                           /\ Append(told, Nameless(e)) \in Seq(Reports)
  BY ReportTypes, AppendTypes

(* An erased socket has the types of one.  *)
SockType ==
    /\ type \in {"unused", "resolving", "connecting", "plain", "negotiate", "redo", "ssl", "erased"}
    /\ closing \in BOOLEAN /\ sendqueue \in Seq(Blocks)
    /\ epoll \in {None, "IN", "OUT"}
    /\ connecttime \in {Off} \cup 0 .. Timeout - 1

OtherType ==
    /\ resolver \in {None, "running", "found", "failed"}
    /\ iopc \in {"wait", "lock", "negotiate", "read"}
    /\ ready \in {"IN", "OUT"}
    /\ slip \in Slips /\ wanted \in BOOLEAN
    /\ wire \in Seq(Writings)
    /\ sent \in 0 .. MaxSend /\ got \in 0 .. MaxData

LEMMA TypeParts == TypeOK <=> SockType /\ OtherType /\ told \in Seq(Reports)
  BY DEF TypeOK, SockType, OtherType

LEMMA CloseType ==
  ASSUME closing \in BOOLEAN, CloseIntern
  PROVE  SockType'
<1>1. connecttime' \in {Off} \cup 0 .. Timeout - 1
  BY DEF CloseIntern
<1>2. sendqueue' \in Seq(Blocks) /\ closing' \in BOOLEAN
  BY DEF CloseIntern
<1>3. epoll' \in {None, "IN", "OUT"} /\ type' = "erased"
  BY DEF CloseIntern
<1> QED BY <1>1, <1>2, <1>3 DEF SockType

(* The steps of the worker and of the resolver.  *)
LEMMA WorkerInv ==
  ASSUME Inv, Receiver \/ ResolverAnswers \/ AsyncComplete \/ Tick
  PROVE  Inv'
<1>0. /\ SockType /\ OtherType /\ told \in Seq(Reports)
      /\ Watched /\ InHand /\ Waiting /\ ClosingOK
  BY TypeParts DEF Inv
<1>a. \A e \in EventNames : /\ Append(told, Event(e)) \in Seq(Reports)
                        /\ Append(told, Nameless(e)) \in Seq(Reports)
  BY <1>0, TellType
<1>b. Append(told, Nameless("FAIL")) \in Seq(Reports) /\ Append(told, Event("FAIL")) \in Seq(Reports)
      /\ Append(told, Event("CONNECTING")) \in Seq(Reports)
  BY <1>a DEF EventNames
<1> USE <1>0 DEF Connected, Registered, LockFree, sock, io, counts, Off, None, SetPoll
<1>1. CASE RegisterNumeric
  <2>1. SockType'
    BY <1>1, TimeoutAssumption, CloseType, AppendTypes DEF RegisterNumeric, ResolveFails, Refused, Connects, SockType, Blocks
  <2>2. OtherType'
    BY <1>1, BoundsAssumption DEF RegisterNumeric, ResolveFails, Refused, Connects, OtherType
  <2>3. told' \in Seq(Reports)
    BY <1>1, <1>b DEF RegisterNumeric, ResolveFails, Refused, Connects, Tell, TellUnlessClosing
  <2>4. Watched'
    BY <1>1 DEF RegisterNumeric, ResolveFails, Refused, Connects, SockType, Watched, CloseIntern
  <2>5. InHand' /\ Waiting' /\ ClosingOK'
    BY <1>1 DEF RegisterNumeric, ResolveFails, Refused, Connects, SockType, OtherType, Watched, InHand, Waiting, ClosingOK, CloseIntern,
       Tell, TellUnlessClosing
  <2> QED BY <2>1, <2>2, <2>3, <2>4, <2>5 DEF Inv, TypeOK, SockType, OtherType
<1>2. CASE RegisterName
  <2>1. SockType'
    BY <1>2, TimeoutAssumption, CloseType, AppendTypes DEF RegisterName, SockType, Blocks
  <2>2. OtherType'
    BY <1>2, BoundsAssumption DEF RegisterName, OtherType
  <2>3. told' \in Seq(Reports)
    BY <1>2, <1>b DEF RegisterName, Tell, TellUnlessClosing
  <2>4. Watched'
    BY <1>2 DEF RegisterName, SockType, Watched, CloseIntern
  <2>5. InHand' /\ Waiting' /\ ClosingOK'
    BY <1>2 DEF RegisterName, SockType, OtherType, Watched, InHand, Waiting, ClosingOK, CloseIntern,
       Tell, TellUnlessClosing
  <2> QED BY <2>1, <2>2, <2>3, <2>4, <2>5 DEF Inv, TypeOK, SockType, OtherType
<1>3. CASE Accept
  <2>1. SockType'
    BY <1>3, TimeoutAssumption, CloseType, AppendTypes DEF Accept, SockType, Blocks
  <2>2. OtherType'
    BY <1>3, BoundsAssumption DEF Accept, OtherType
  <2>3. told' \in Seq(Reports)
    BY <1>3, <1>b DEF Accept, Tell, TellUnlessClosing
  <2>4. Watched'
    BY <1>3 DEF Accept, SockType, Watched, Waiting, CloseIntern
  <2>5. InHand' /\ Waiting' /\ ClosingOK'
    BY <1>3 DEF Accept, SockType, OtherType, Watched, InHand, Waiting, ClosingOK, CloseIntern,
       Tell, TellUnlessClosing
  <2> QED BY <2>1, <2>2, <2>3, <2>4, <2>5 DEF Inv, TypeOK, SockType, OtherType
<1>4. CASE SendData
  <2>1. SockType'
    BY <1>4, TimeoutAssumption, CloseType, AppendTypes DEF SendData, Link, SockType, Blocks
  <2>2. OtherType'
    BY <1>4, BoundsAssumption DEF SendData, Link, OtherType
  <2>3. told' \in Seq(Reports)
    BY <1>4, <1>b DEF SendData, Link, Tell, TellUnlessClosing
  <2>4. Watched'
    BY <1>4 DEF SendData, Link, SockType, Watched, CloseIntern
  <2>5. InHand' /\ Waiting' /\ ClosingOK'
    BY <1>4 DEF SendData, Link, SockType, OtherType, Watched, InHand, Waiting, ClosingOK, CloseIntern,
       Tell, TellUnlessClosing
  <2> QED BY <2>1, <2>2, <2>3, <2>4, <2>5 DEF Inv, TypeOK, SockType, OtherType
<1>5. CASE CloseSocket
  <2>1. SockType'
    BY <1>5, TimeoutAssumption, CloseType, AppendTypes DEF CloseSocket, SockType, Blocks
  <2>2. OtherType'
    BY <1>5, BoundsAssumption DEF CloseSocket, OtherType
  <2>3. told' \in Seq(Reports)
    BY <1>5, <1>b DEF CloseSocket, Tell, TellUnlessClosing
  <2>4. Watched'
    BY <1>5 DEF CloseSocket, SockType, Watched, CloseIntern
  <2>5. InHand' /\ Waiting' /\ ClosingOK'
    BY <1>5 DEF CloseSocket, SockType, OtherType, Watched, InHand, Waiting, ClosingOK, CloseIntern,
       Tell, TellUnlessClosing
  <2> QED BY <2>1, <2>2, <2>3, <2>4, <2>5 DEF Inv, TypeOK, SockType, OtherType
<1>6. CASE Negotiate
  <2>1. SockType'
    BY <1>6, TimeoutAssumption, CloseType, AppendTypes DEF Negotiate, SockType, Blocks
  <2>2. OtherType'
    BY <1>6, BoundsAssumption DEF Negotiate, OtherType
  <2>3. told' \in Seq(Reports)
    BY <1>6, <1>b DEF Negotiate, Tell, TellUnlessClosing
  <2>4. Watched'
    BY <1>6 DEF Negotiate, SockType, Watched, CloseIntern
  <2>5. InHand' /\ Waiting' /\ ClosingOK'
    BY <1>6 DEF Negotiate, SockType, OtherType, Watched, InHand, Waiting, ClosingOK, CloseIntern,
       Tell, TellUnlessClosing
  <2> QED BY <2>1, <2>2, <2>3, <2>4, <2>5 DEF Inv, TypeOK, SockType, OtherType
<1>7. CASE ResolverAnswers
  <2>1. SockType'
    BY <1>7, TimeoutAssumption, CloseType, AppendTypes DEF ResolverAnswers, SockType, Blocks
  <2>2. OtherType'
    BY <1>7, BoundsAssumption DEF ResolverAnswers, OtherType
  <2>3. told' \in Seq(Reports)
    BY <1>7, <1>b DEF ResolverAnswers, Tell, TellUnlessClosing
  <2>4. Watched'
    BY <1>7 DEF ResolverAnswers, SockType, Watched, CloseIntern
  <2>5. InHand' /\ Waiting' /\ ClosingOK'
    BY <1>7 DEF ResolverAnswers, SockType, OtherType, Watched, InHand, Waiting, ClosingOK, CloseIntern,
       Tell, TellUnlessClosing
  <2> QED BY <2>1, <2>2, <2>3, <2>4, <2>5 DEF Inv, TypeOK, SockType, OtherType
<1>8. CASE AsyncComplete
  <2>1. SockType'
    BY <1>8, TimeoutAssumption, CloseType, AppendTypes DEF AsyncComplete, ResolveFails, Refused, Connects, SockType, Blocks
  <2>2. OtherType'
    BY <1>8, BoundsAssumption DEF AsyncComplete, ResolveFails, Refused, Connects, OtherType
  <2>3. told' \in Seq(Reports)
    BY <1>8, <1>b DEF AsyncComplete, ResolveFails, Refused, Connects, Tell, TellUnlessClosing
  <2>4. Watched'
    BY <1>8 DEF AsyncComplete, ResolveFails, Refused, Connects, SockType, Watched, CloseIntern
  <2>5. InHand' /\ Waiting' /\ ClosingOK'
    BY <1>8 DEF AsyncComplete, ResolveFails, Refused, Connects, SockType, OtherType, Watched, InHand, Waiting, ClosingOK, CloseIntern,
       Tell, TellUnlessClosing
  <2> QED BY <2>1, <2>2, <2>3, <2>4, <2>5 DEF Inv, TypeOK, SockType, OtherType
<1>9. CASE Tick
  <2>1. SockType'
    BY <1>9, TimeoutAssumption, CloseType, AppendTypes DEF Tick, SockType, Blocks
  <2>2. OtherType'
    BY <1>9, BoundsAssumption DEF Tick, OtherType
  <2>3. told' \in Seq(Reports)
    BY <1>9, <1>b DEF Tick, Tell, TellUnlessClosing
  <2>4. Watched'
    BY <1>9 DEF Tick, SockType, Watched, CloseIntern
  <2>5. InHand' /\ Waiting' /\ ClosingOK'
    BY <1>9 DEF Tick, SockType, OtherType, Watched, InHand, Waiting, ClosingOK, CloseIntern,
       Tell, TellUnlessClosing
  <2> QED BY <2>1, <2>2, <2>3, <2>4, <2>5 DEF Inv, TypeOK, SockType, OtherType
<1> QED BY <1>1, <1>2, <1>3, <1>4, <1>5, <1>6, <1>7, <1>8, <1>9 DEF Receiver

(* What a write leaves in the send queue and puts on the wire.  *)
LEMMA RestType ==
  ASSUME sendqueue \in Seq(Blocks), NEW n \in 0 .. Len(sendqueue) - 1
  PROVE  Rest(n) \in Seq(Blocks) /\ Rest(n) # <<>>
<1>1. Len(sendqueue) \in Nat /\ n + 1 \in 1 .. Len(sendqueue) /\ n \in Nat
  OBVIOUS
<1>2. Rest(n) \in Seq(Blocks)
  BY <1>1 DEF Rest
<1>3. Len(Rest(n)) = Len(sendqueue) - n
  BY <1>1 DEF Rest
<1> QED BY <1>1, <1>2, <1>3

LEMMA WrittenType ==
  ASSUME sendqueue \in Seq(Blocks), wire \in Seq(Writings),
         NEW n \in 0 .. Len(sendqueue), NEW tls \in BOOLEAN, Written(n, tls)
  PROVE  wire' \in Seq(Writings)
<1> DEFINE w == [i \in 1 .. n |-> [data |-> sendqueue[i], tls |-> tls]]
<1>1. \A i \in 1 .. n : [data |-> sendqueue[i], tls |-> tls] \in Writings
  BY DEF Writings, Blocks
<1>2. w \in Seq(Writings)
  BY <1>1
<1>3. wire \o w \in Seq(Writings)
  BY <1>2
<1> QED BY <1>3 DEF Written

(* The three ways a write can end: the socket is gone, all is written, some is left.  *)
WriteErases == CloseIntern /\ ((closing /\ UNCHANGED told) \/ Tell("DISCONNECTED"))
WriteCompletes(dir) ==
    /\ ~closing /\ sendqueue' = <<>> /\ SetPoll(dir) /\ Tell("SENDCOMPLETE")
    /\ UNCHANGED <<type, closing, connecttime>>
WriteWaits ==
    /\ sendqueue # <<>> /\ sendqueue' # <<>> /\ sendqueue' \in Seq(Blocks)
    /\ UNCHANGED <<type, closing, epoll, connecttime, told>>

LEMMA WritesEffect ==
  ASSUME SockType, OtherType, NEW tls \in BOOLEAN, NEW dir \in {"IN", "OUT"},
         Writes(tls, dir)
  PROVE  /\ wire' \in Seq(Writings)
         /\ WriteErases \/ WriteCompletes(dir) \/ WriteWaits
<1> sendqueue \in Seq(Blocks) /\ wire \in Seq(Writings) /\ closing \in BOOLEAN
  BY DEF SockType, OtherType
<1> Len(sendqueue) \in Nat
  OBVIOUS
<1>1. CASE Written(Len(sendqueue), tls) /\ WritesAll(dir)
  <2>1. wire' \in Seq(Writings)
    BY <1>1, WrittenType
  <2>2. WriteErases \/ WriteCompletes(dir)
    BY <1>1 DEF WritesAll, WriteErases, WriteCompletes
  <2> QED BY <2>1, <2>2
<1>2. CASE \E n \in 0 .. Len(sendqueue) - 1 :
              /\ Written(n, tls)
              /\ \/ /\ sendqueue' = Rest(n)
                    /\ UNCHANGED <<type, closing, epoll, connecttime, told>>
                 \/ WriteEnds
  <2>1. PICK n \in 0 .. Len(sendqueue) - 1 :
                 /\ Written(n, tls)
                 /\ \/ /\ sendqueue' = Rest(n)
                       /\ UNCHANGED <<type, closing, epoll, connecttime, told>>
                    \/ WriteEnds
    BY <1>2
  <2>2. n \in 0 .. Len(sendqueue) /\ Len(sendqueue) # 0
    BY <2>1
  <2>3. wire' \in Seq(Writings)
    BY <2>1, <2>2, WrittenType
  <2>4. CASE sendqueue' = Rest(n) /\ UNCHANGED <<type, closing, epoll, connecttime, told>>
    BY <1>2, <2>2, <2>3, <2>4, RestType DEF WriteWaits
  <2>5. CASE WriteEnds
    BY <1>2, <2>3, <2>5 DEF WriteEnds, TellUnlessClosing, WriteErases
  <2> QED BY <2>1, <2>4, <2>5
<1> QED BY <1>1, <1>2 DEF Writes

(* The steps of the IO thread.  *)
LEMMA HandleInv ==
  ASSUME Inv, PollWait \/ Handle
  PROVE  Inv'
<1>0. /\ SockType /\ OtherType /\ told \in Seq(Reports)
      /\ Watched /\ InHand /\ Waiting /\ ClosingOK
  BY TypeParts DEF Inv
<1>a. \A e \in EventNames : Append(told, Event(e)) \in Seq(Reports)
  BY <1>0, TellType
<1>b. /\ Append(told, Event("FAIL")) \in Seq(Reports)
      /\ Append(told, Event("CONNECTED")) \in Seq(Reports)
      /\ Append(told, Event("DATA")) \in Seq(Reports)
      /\ Append(told, Event("SENDCOMPLETE")) \in Seq(Reports)
      /\ Append(told, Event("SSL_SUCCESS")) \in Seq(Reports)
      /\ Append(told, Event("DISCONNECTED")) \in Seq(Reports)
  BY <1>a DEF EventNames
<1>c. Append(wire, [data |-> "hello", tls |-> FALSE]) \in Seq(Writings)
  <2>1. [data |-> "hello", tls |-> FALSE] \in Writings
    BY DEF Writings
  <2> QED BY <2>1, <1>0, AppendTypes DEF OtherType
<1> USE <1>0 DEF Connected, sock, io, counts, Off, None, SetPoll, Back
<1>1. CASE PollWait
  <2>1. SockType'
    BY <1>1, TimeoutAssumption, CloseType DEF PollWait, SockType
  <2>2. OtherType'
    BY <1>1 DEF PollWait, SockType, OtherType
  <2>3. told' \in Seq(Reports)
    BY <1>1, <1>b DEF PollWait, Tell, TellUnlessClosing
  <2>4. Watched'
    BY <1>1 DEF PollWait, SockType, Watched, InHand, CloseIntern
  <2>5. InHand' /\ Waiting' /\ ClosingOK'
    BY <1>1 DEF PollWait, SockType, OtherType, Watched, InHand, Waiting, ClosingOK, CloseIntern,
       Tell, TellUnlessClosing
  <2> QED BY <2>1, <2>2, <2>3, <2>4, <2>5 DEF Inv, TypeOK, SockType, OtherType
<1>2. CASE OutOfDate
  <2>1. SockType'
    BY <1>2, TimeoutAssumption, CloseType DEF OutOfDate, Expected, SockType
  <2>2. OtherType'
    BY <1>2, BoundsAssumption DEF OutOfDate, Expected, OtherType
  <2>3. told' \in Seq(Reports)
    BY <1>2, <1>b DEF OutOfDate, Expected, Tell, TellUnlessClosing
  <2>4. Watched'
    BY <1>2 DEF OutOfDate, Expected, SockType, Watched, InHand, CloseIntern
  <2>5. InHand' /\ Waiting' /\ ClosingOK'
    BY <1>2 DEF OutOfDate, Expected, SockType, OtherType, Watched, InHand, Waiting, ClosingOK, CloseIntern,
       Tell, TellUnlessClosing
  <2> QED BY <2>1, <2>2, <2>3, <2>4, <2>5 DEF Inv, TypeOK, SockType, OtherType
<1>3. CASE ConnectingOut
  <2>1. SockType'
    BY <1>3, TimeoutAssumption, CloseType DEF ConnectingOut, SockType
  <2>2. OtherType'
    BY <1>3, BoundsAssumption DEF ConnectingOut, OtherType
  <2>3. told' \in Seq(Reports)
    BY <1>3, <1>b DEF ConnectingOut, Tell, TellUnlessClosing
  <2>4. Watched'
    BY <1>3 DEF ConnectingOut, SockType, Watched, InHand, CloseIntern
  <2>5. InHand' /\ Waiting' /\ ClosingOK'
    BY <1>3 DEF ConnectingOut, SockType, OtherType, Watched, InHand, Waiting, ClosingOK, CloseIntern,
       Tell, TellUnlessClosing
  <2> QED BY <2>1, <2>2, <2>3, <2>4, <2>5 DEF Inv, TypeOK, SockType, OtherType
<1>4. CASE PlainIn
  <2>1. SockType'
    BY <1>4, TimeoutAssumption, CloseType DEF PlainIn, Receive, ReadEnds, SockType
  <2>2. OtherType'
    BY <1>4, BoundsAssumption DEF PlainIn, Receive, ReadEnds, OtherType
  <2>3. told' \in Seq(Reports)
    BY <1>4, <1>b DEF PlainIn, Receive, ReadEnds, Tell, TellUnlessClosing
  <2>4. Watched'
    BY <1>4 DEF PlainIn, Receive, ReadEnds, SockType, Watched, InHand, CloseIntern
  <2>5. InHand' /\ Waiting' /\ ClosingOK'
    BY <1>4 DEF PlainIn, Receive, ReadEnds, SockType, OtherType, Watched, InHand, Waiting, ClosingOK, CloseIntern,
       Tell, TellUnlessClosing
  <2> QED BY <2>1, <2>2, <2>3, <2>4, <2>5 DEF Inv, TypeOK, SockType, OtherType
<1>5. CASE SslIn
  <2>1. SockType'
    BY <1>5, TimeoutAssumption, CloseType DEF SslIn, Receive, ReadEnds, SockType
  <2>2. OtherType'
    BY <1>5, BoundsAssumption DEF SslIn, Receive, ReadEnds, OtherType
  <2>3. told' \in Seq(Reports)
    BY <1>5, <1>b DEF SslIn, Receive, ReadEnds, Tell, TellUnlessClosing
  <2>4. Watched'
    BY <1>5 DEF SslIn, Receive, ReadEnds, SockType, Watched, InHand, CloseIntern
  <2>5. InHand' /\ Waiting' /\ ClosingOK'
    BY <1>5 DEF SslIn, Receive, ReadEnds, SockType, OtherType, Watched, InHand, Waiting, ClosingOK, CloseIntern,
       Tell, TellUnlessClosing
  <2> QED BY <2>1, <2>2, <2>3, <2>4, <2>5 DEF Inv, TypeOK, SockType, OtherType
<1>6. CASE Out
  <2>1. wire' \in Seq(Writings) /\ (WriteErases \/ WriteCompletes("IN") \/ WriteWaits)
    BY <1>6, WritesEffect DEF Out
  <2>2. SockType'
    <3>1. CASE WriteErases
      BY <3>1, CloseType DEF WriteErases, SockType
    <3>2. CASE WriteCompletes("IN")
      <4>1. sendqueue' \in Seq(Blocks) /\ epoll' \in {None, "IN", "OUT"}
        BY <3>2 DEF WriteCompletes
      <4> QED BY <3>2, <4>1 DEF WriteCompletes, SockType
    <3>3. CASE WriteWaits
      BY <3>3 DEF WriteWaits, SockType
    <3> QED BY <2>1, <3>1, <3>2, <3>3
  <2>3. OtherType'
    BY <1>6, <2>1 DEF Out, OtherType
  <2>4. told' \in Seq(Reports)
    BY <2>1, <1>b DEF WriteErases, WriteCompletes, WriteWaits, Tell
  <2>5. Watched'
    BY <1>6, <2>1 DEF Out, WriteErases, WriteCompletes, WriteWaits, SockType, Watched, CloseIntern
  <2>6. InHand' /\ Waiting' /\ ClosingOK'
    BY <1>6, <2>1 DEF Out, WriteErases, WriteCompletes, WriteWaits, InHand, Waiting, ClosingOK, CloseIntern
  <2> QED BY <2>2, <2>3, <2>4, <2>5, <2>6 DEF Inv, TypeOK, SockType, OtherType
<1>7. CASE FlushClear
  <2>1. wire' \in Seq(Writings) /\ (WriteErases \/ WriteCompletes("OUT") \/ WriteWaits)
    BY <1>7, WritesEffect DEF FlushClear
  <2>2. SockType'
    <3>1. CASE WriteErases
      BY <3>1, CloseType DEF WriteErases, SockType
    <3>2. CASE WriteCompletes("OUT")
      <4>1. sendqueue' \in Seq(Blocks) /\ epoll' \in {None, "IN", "OUT"}
        BY <3>2 DEF WriteCompletes
      <4> QED BY <3>2, <4>1 DEF WriteCompletes, SockType
    <3>3. CASE WriteWaits
      BY <3>3 DEF WriteWaits, SockType
    <3> QED BY <2>1, <3>1, <3>2, <3>3
  <2>3. OtherType'
    BY <1>7, <2>1 DEF FlushClear, OtherType, Slips
  <2>4. told' \in Seq(Reports)
    BY <2>1, <1>b DEF WriteErases, WriteCompletes, WriteWaits, Tell
  <2>5. Watched'
    BY <1>7, <2>1 DEF FlushClear, WriteErases, WriteCompletes, WriteWaits, SockType, Watched, CloseIntern
  <2>6. InHand' /\ Waiting' /\ ClosingOK'
    BY <1>7, <2>1 DEF FlushClear, WriteErases, WriteCompletes, WriteWaits, InHand, Waiting, ClosingOK, CloseIntern
  <2> QED BY <2>2, <2>3, <2>4, <2>5, <2>6 DEF Inv, TypeOK, SockType, OtherType
<1>8. CASE Handshake
  <2>1. SockType'
    BY <1>8, TimeoutAssumption, CloseType DEF Handshake, StartsHandshake, Secured, WriteEnds, SockType
  <2>2. OtherType'
    BY <1>8, <1>c DEF Handshake, StartsHandshake, Secured, WriteEnds, OtherType
  <2>3. told' \in Seq(Reports)
    BY <1>8, <1>b DEF Handshake, StartsHandshake, Secured, WriteEnds, Tell, TellUnlessClosing
  <2>4. Watched'
    BY <1>8 DEF Handshake, StartsHandshake, Secured, WriteEnds, SockType, Watched, InHand, CloseIntern
  <2>5. InHand' /\ Waiting' /\ ClosingOK'
    BY <1>8 DEF Handshake, StartsHandshake, Secured, WriteEnds, SockType, OtherType, Watched, InHand, Waiting, ClosingOK, CloseIntern,
       Tell, TellUnlessClosing
  <2> QED BY <2>1, <2>2, <2>3, <2>4, <2>5 DEF Inv, TypeOK, SockType, OtherType
<1>9. CASE HandshakeErased
  <2>1. SockType'
    BY <1>9, TimeoutAssumption, CloseType DEF HandshakeErased, SockType
  <2>2. OtherType'
    BY <1>9, BoundsAssumption DEF HandshakeErased, OtherType, Slips
  <2>3. told' \in Seq(Reports)
    BY <1>9, <1>b DEF HandshakeErased, Tell, TellUnlessClosing
  <2>4. Watched'
    BY <1>9 DEF HandshakeErased, SockType, Watched, InHand, CloseIntern
  <2>5. InHand' /\ Waiting' /\ ClosingOK'
    BY <1>9 DEF HandshakeErased, SockType, OtherType, Watched, InHand, Waiting, ClosingOK, CloseIntern,
       Tell, TellUnlessClosing
  <2> QED BY <2>1, <2>2, <2>3, <2>4, <2>5 DEF Inv, TypeOK, SockType, OtherType
<1>10. CASE NegotiationIn
  <2>1. SockType'
    BY <1>10, TimeoutAssumption, CloseType DEF NegotiationIn, Secured, WriteEnds, SockType
  <2>2. OtherType'
    BY <1>10, BoundsAssumption DEF NegotiationIn, Secured, WriteEnds, OtherType
  <2>3. told' \in Seq(Reports)
    BY <1>10, <1>b DEF NegotiationIn, Secured, WriteEnds, Tell, TellUnlessClosing
  <2>4. Watched'
    BY <1>10 DEF NegotiationIn, Secured, WriteEnds, SockType, Watched, InHand, CloseIntern
  <2>5. InHand' /\ Waiting' /\ ClosingOK'
    BY <1>10 DEF NegotiationIn, Secured, WriteEnds, SockType, OtherType, Watched, InHand, Waiting, ClosingOK, CloseIntern,
       Tell, TellUnlessClosing
  <2> QED BY <2>1, <2>2, <2>3, <2>4, <2>5 DEF Inv, TypeOK, SockType, OtherType
<1> QED BY <1>1, <1>2, <1>3, <1>4, <1>5, <1>6, <1>7, <1>8, <1>9, <1>10 DEF Handle

LEMMA StepInv == Inv /\ [Next]_vars => Inv'
  BY WorkerInv, HandleInv, StutterInv DEF Next

LEMMA AlwaysInv == Spec => []Inv
  BY InitInv, StepInv, PTL DEF Spec

(* Every variable keeps its type.  *)
THEOREM TypeCorrect == Spec => []TypeOK
  BY AlwaysInv, PTL DEF Inv

(* A socket is always polled for what it waits for.  *)
THEOREM AlwaysWatched == Spec => []Watched
  BY AlwaysInv, PTL DEF Inv

-----------------------------------------------------------------------------
(* The refinement: every step of the socket is an event SocketEvents allows, or none.  *)
Abstract == <<Life, wanted, told>>

(* What the receiver is told, in the terms of SocketEvents.  *)
LEMMA TellsMeet ==
  /\ \A e : Tell(e) => Promised!Tells(e)
  /\ told' = Append(told, Nameless("FAIL")) => Promised!Tells("FAIL")
<1>1. ASSUME NEW e, Tell(e)
      PROVE  Promised!Tells(e)
  <2>1. Event(e) \in [event : {e}, named : BOOLEAN]
    BY DEF Event
  <2> QED BY <1>1, <2>1 DEF Tell, Promised!Tells
<1>2. ASSUME told' = Append(told, Nameless("FAIL"))
      PROVE  Promised!Tells("FAIL")
  <2>1. Nameless("FAIL") \in [event : {"FAIL"}, named : BOOLEAN]
    BY DEF Nameless
  <2> QED BY <1>2, <2>1 DEF Promised!Tells
<1> QED BY <1>1, <1>2

LEMMA TellsIfWantedMeet ==
  ASSUME Inv, type # "erased", NEW e, TellUnlessClosing(e)
  PROVE  Promised!TellsIfWanted(e)
  BY TellsMeet DEF Inv, TypeOK, ClosingOK, TellUnlessClosing, Promised!TellsIfWanted

(* A socket is erased: the receiver is told of a failure or a disconnect, or it had
   called closeSocket().  *)
LEMMA EndMeets ==
  ASSUME Inv, type # "erased", type' = "erased", UNCHANGED wanted
  PROVE  /\ (closing /\ UNCHANGED told) => Promised!EndsQuietly
         /\ (type \in {"unused", "resolving", "connecting"} /\ Promised!Tells("FAIL"))
                => Promised!Fails
         /\ (Connected /\ Promised!Tells("DISCONNECTED")) => Promised!Disconnected
  BY DEF Inv, ClosingOK, Connected, Life, Promised!EndsQuietly, Promised!Fails,
     Promised!Disconnected, Promised!Moves, Promised!Established

LEMMA WorkerMeets ==
  ASSUME Inv, Receiver \/ ResolverAnswers \/ AsyncComplete \/ Tick
  PROVE  Promised!Next \/ UNCHANGED Abstract
<1> USE DEF Inv, Waiting, ClosingOK, sock, io, counts, LockFree, Off, None, Abstract
<1>1. CASE RegisterNumeric
  <2>1. type = "unused" /\ ~closing /\ UNCHANGED wanted
    BY <1>1 DEF RegisterNumeric, TypeOK
  <2>2. CASE ResolveFails \/ Refused
    <3>1. Promised!Fails
      BY <2>1, <2>2, EndMeets, TellsMeet DEF ResolveFails, Refused, CloseIntern
    <3> QED BY <3>1 DEF Promised!Next
  <2>3. CASE Connects(FALSE)
    <3>1. Promised!Registered
      BY <2>1, <2>3 DEF Connects, Promised!Registered, Promised!Moves, Life
    <3> QED BY <3>1 DEF Promised!Next
  <2> QED BY <1>1, <2>2, <2>3 DEF RegisterNumeric
<1>2. CASE RegisterName
  <2>1. Promised!Registered
    BY <1>2 DEF RegisterName, Promised!Registered, Promised!Moves, Life
  <2> QED BY <2>1 DEF Promised!Next
<1>3. CASE Accept
  <2>1. Promised!Accepted
    BY <1>3 DEF Accept, Promised!Accepted, Promised!Moves, Life
  <2> QED BY <2>1 DEF Promised!Next
<1>4. CASE SendData \/ ResolverAnswers
  BY <1>4 DEF SendData, ResolverAnswers, Life
<1>5. CASE CloseSocket
  <2>1. Promised!Closes
    BY <1>5 DEF CloseSocket, CloseIntern, Promised!Closes, Life
  <2> QED BY <2>1 DEF Promised!Next
<1>6. CASE Negotiate
  <2>1. Promised!Negotiated
    BY <1>6 DEF Negotiate, Promised!Negotiated, Promised!Moves, Life
  <2> QED BY <2>1 DEF Promised!Next
<1>7. CASE AsyncComplete
  <2>1. UNCHANGED wanted
    BY <1>7 DEF AsyncComplete
  <2>2. CASE type = "erased"
    BY <1>7, <2>2 DEF AsyncComplete, Life
  <2>3. CASE type # "erased" /\ (ResolveFails \/ Refused)
    <3>1. type = "resolving" /\ type' = "erased"
      BY <1>7, <2>3 DEF AsyncComplete, ResolveFails, Refused, CloseIntern
    <3>2. Promised!EndsQuietly \/ Promised!Fails
      BY <2>1, <2>3, <3>1, EndMeets, TellsMeet DEF ResolveFails, Refused
    <3> QED BY <3>2 DEF Promised!Next
  <2>4. CASE type # "erased" /\ Connects(TRUE)
    <3>1. type = "resolving" /\ type' = "connecting" /\ told = <<>>
      BY <1>7, <2>4 DEF AsyncComplete, Connects
    <3>2. CASE closing
      BY <2>1, <2>4, <3>1, <3>2 DEF Connects, TellUnlessClosing, Life
    <3>3. CASE ~closing
      <4>1. wanted /\ Promised!Tells("CONNECTING")
        BY <2>4, <3>1, <3>3, TellsMeet DEF Connects, TellUnlessClosing, TypeOK
      <4>2. ~Promised!Told("CONNECTING")
        BY <3>1 DEF Promised!Told
      <4>3. Promised!Connecting
        BY <2>1, <3>1, <4>1, <4>2 DEF Promised!Connecting, Life
      <4> QED BY <4>3 DEF Promised!Next
    <3> QED BY <3>2, <3>3
  <2> QED BY <1>7, <2>2, <2>3, <2>4 DEF AsyncComplete
<1>8. CASE Tick
  <2>1. type \in {"resolving", "connecting"} /\ UNCHANGED wanted
    BY <1>8 DEF Tick
  <2>2. CASE connecttime + 1 < Timeout
    BY <1>8, <2>1, <2>2 DEF Tick, Life
  <2>3. CASE ~(connecttime + 1 < Timeout)
    <3>1. TellUnlessClosing("FAIL") /\ type' = "erased"
      BY <1>8, <2>3 DEF Tick, CloseIntern
    <3>2. Promised!EndsQuietly \/ Promised!Fails
      BY <2>1, <3>1, EndMeets, TellsMeet DEF TellUnlessClosing
    <3> QED BY <3>2 DEF Promised!Next
  <2> QED BY <2>2, <2>3
<1> QED BY <1>1, <1>2, <1>3, <1>4, <1>5, <1>6, <1>7, <1>8 DEF Receiver

(* The outcome of a write, in the terms of SocketEvents.  *)
LEMMA WritesMeet ==
  ASSUME Inv, Connected, UNCHANGED wanted, NEW dir,
         WriteErases \/ WriteCompletes(dir) \/ WriteWaits
  PROVE  Promised!Next \/ UNCHANGED Abstract
<1>1. CASE WriteErases
  <2>1. type # "erased" /\ type' = "erased"
    BY <1>1 DEF Connected, WriteErases, CloseIntern
  <2>2. Promised!EndsQuietly \/ Promised!Disconnected
    BY <1>1, <2>1, EndMeets, TellsMeet DEF WriteErases
  <2> QED BY <2>2 DEF Promised!Next
<1>2. CASE WriteCompletes(dir)
  <2>1. wanted
    BY <1>2 DEF Inv, ClosingOK, TypeOK, Connected, WriteCompletes
  <2>2. Promised!SendComplete
    BY <1>2, <2>1, TellsMeet
       DEF WriteCompletes, Connected, Life, Promised!SendComplete, Promised!Established
  <2> QED BY <2>2 DEF Promised!Next
<1>3. CASE WriteWaits
  BY <1>3 DEF WriteWaits, Life, Abstract
<1> QED BY <1>1, <1>2, <1>3

(* The socket is closed by a failure of the handshake, or the handshake has ended.  *)
LEMMA HandshakeMeets ==
  ASSUME Inv, type \in {"negotiate", "redo"}, UNCHANGED wanted, NEW dir, Secured(dir) \/ WriteEnds
  PROVE  Promised!Next \/ UNCHANGED Abstract
<1>1. CASE Secured(dir)
  <2>1. Promised!SslSuccess
    BY <1>1, TellsIfWantedMeet DEF Secured, Life, Promised!SslSuccess, Promised!Moves
  <2> QED BY <2>1 DEF Promised!Next
<1>2. CASE WriteEnds
  <2>1. type # "erased" /\ type' = "erased" /\ Connected
    BY <1>2 DEF WriteEnds, CloseIntern, Connected
  <2>2. Promised!EndsQuietly \/ Promised!Disconnected
    BY <1>2, <2>1, EndMeets, TellsMeet DEF WriteEnds, TellUnlessClosing
  <2> QED BY <2>2 DEF Promised!Next
<1> QED BY <1>1, <1>2

(* Data, the end of the stream, or nothing.  *)
LEMMA ReadMeets ==
  ASSUME Inv, type \in {"plain", "ssl"}, UNCHANGED wanted,
         Receive \/ ReadEnds \/ UNCHANGED <<sock, told>>
  PROVE  Promised!Next \/ UNCHANGED Abstract
<1>1. CASE Receive
  <2>1. Promised!Data
    BY <1>1, TellsMeet DEF Receive, sock, Life, Promised!Data
  <2> QED BY <2>1 DEF Promised!Next
<1>2. CASE ReadEnds
  <2>1. Promised!Disconnected
    BY <1>2, EndMeets, TellsMeet DEF ReadEnds, CloseIntern, Connected
  <2> QED BY <2>1 DEF Promised!Next
<1>3. CASE UNCHANGED <<sock, told>>
  BY <1>3 DEF sock, Life, Abstract
<1> QED BY <1>1, <1>2, <1>3

LEMMA HandleMeets ==
  ASSUME Inv, PollWait \/ Handle
  PROVE  Promised!Next \/ UNCHANGED Abstract
<1>1. CASE PollWait \/ OutOfDate
  BY <1>1 DEF PollWait, OutOfDate, sock, Life, Abstract
<1>2. CASE ConnectingOut
  <2>1. type = "connecting" /\ UNCHANGED wanted
    BY <1>2 DEF ConnectingOut
  <2>2. CASE TellUnlessClosing("FAIL") /\ CloseIntern
    <3>1. Promised!EndsQuietly \/ Promised!Fails
      BY <2>1, <2>2, EndMeets, TellsMeet DEF TellUnlessClosing, CloseIntern
    <3> QED BY <3>1 DEF Promised!Next
  <2>3. CASE TellUnlessClosing("CONNECTED") /\ type' = "plain"
    <3>1. Promised!Connected
      BY <2>1, <2>3, TellsIfWantedMeet DEF Life, Promised!Connected, Promised!Moves
    <3> QED BY <3>1 DEF Promised!Next
  <2> QED BY <1>2, <2>2, <2>3 DEF ConnectingOut
<1>3. CASE PlainIn \/ SslIn
  <2>1. type \in {"plain", "ssl"} /\ UNCHANGED wanted
    BY <1>3 DEF PlainIn, SslIn, Inv, InHand
  <2>2. Receive \/ ReadEnds \/ UNCHANGED <<sock, told>>
    BY <1>3 DEF PlainIn, SslIn
  <2> QED BY <2>1, <2>2, ReadMeets
<1>4. CASE Out
  <2>1. WriteErases \/ WriteCompletes("IN") \/ WriteWaits
    BY <1>4, WritesEffect, TypeParts DEF Out, Inv
  <2> QED BY <1>4, <2>1, WritesMeet DEF Out, Connected
<1>5. CASE FlushClear
  <2>1. WriteErases \/ WriteCompletes("OUT") \/ WriteWaits
    BY <1>5, WritesEffect, TypeParts DEF FlushClear, Inv
  <2> QED BY <1>5, <2>1, WritesMeet DEF FlushClear, Connected
<1>6. CASE Handshake
  <2>1. type = "negotiate" /\ UNCHANGED wanted
    BY <1>6 DEF Handshake
  <2>2. CASE Secured(IF sendqueue = <<>> THEN "IN" ELSE "OUT") \/ WriteEnds
    BY <2>1, <2>2, HandshakeMeets
  <2>3. CASE type' = "redo" /\ UNCHANGED told
    BY <2>1, <2>3 DEF Life, Abstract
  <2> QED BY <1>6, <2>2, <2>3 DEF Handshake
<1>7. CASE HandshakeErased
  BY <1>7 DEF HandshakeErased, sock, Life, Abstract
<1>8. CASE NegotiationIn
  <2>1. type = "redo" /\ UNCHANGED wanted
    BY <1>8 DEF NegotiationIn
  <2>2. CASE Secured(IF sendqueue = <<>> THEN "IN" ELSE "OUT") \/ WriteEnds
    BY <2>1, <2>2, HandshakeMeets
  <2>3. CASE UNCHANGED <<sock, told>>
    BY <2>1, <2>3 DEF sock, Life, Abstract
  <2> QED BY <1>8, <2>2, <2>3 DEF NegotiationIn
<1> QED BY <1>1, <1>2, <1>3, <1>4, <1>5, <1>6, <1>7, <1>8 DEF Handle

LEMMA InitMeets == Init => Promised!Init
  BY DEF Init, Promised!Init, Life

LEMMA StepMeets ==
  ASSUME Inv, [Next]_vars
  PROVE  [Promised!Next]_Abstract
<1>1. CASE Next
  BY <1>1, WorkerMeets, HandleMeets DEF Next
<1>2. CASE UNCHANGED vars
  BY <1>2 DEF vars, sock, io, counts, Life, Abstract
<1> QED BY <1>1, <1>2

(* Whatever the network, the resolver and the receiver do, a receiver is told what
   SocketEvents promises, by every socket that is not erased.  *)
THEOREM KeepsPromise == Spec => Promise
<1>1. Init => Promised!Init
  BY InitMeets
<1>2. Inv /\ [Next]_vars => [Promised!Next]_Abstract
  BY StepMeets
<1>3. [Promised!Next]_Abstract => [Promised!Next]_<<Life, wanted, told>>
  BY DEF Abstract
<1> QED BY <1>1, <1>2, <1>3, AlwaysInv, PTL DEF Spec, Promise, Promised!Spec

-----------------------------------------------------------------------------
(* Which side of the handshake a block is written on.                      *)

Begun == type \in {"redo", "ssl", "erased"}
Early(q) == \A i \in 1 .. Len(q) : q[i] # "secret"
Late(q)  == \A i \in 1 .. Len(q) : q[i] = "secret"

(* OnTheRightSide, of any sequence of writings.  *)
Clear(w) == \A i \in 1 .. Len(w) : ~w[i].tls /\ w[i].data \notin {"secret", "hello"}
Right(w) ==
    /\ \A i \in 1 .. Len(w) : w[i].data = "secret" => w[i].tls
    /\ \A i, j \in 1 .. Len(w) : i < j /\ (w[i].tls \/ w[i].data = "hello") => w[j].tls
Pure(w)  == \A i \in 1 .. Len(w) : w[i].tls => w[i].data = "secret"

LEMMA RightIs == OnTheRightSide <=> Right(wire) /\ (slip # "cut" => Pure(wire))
  BY DEF OnTheRightSide, Right, Pure

(* Before a handshake everything is in the clear; when it begins nothing of that is
   left to be sent, unless its one write was cut short.  *)
Sided ==
    /\ Right(wire)
    /\ ~Begun => Early(sendqueue) /\ Clear(wire)
    /\ slip # "cut" =>
          /\ Pure(wire)
          /\ iopc = "negotiate" \/ type = "erased" => sendqueue = <<>>
          /\ Begun => Late(sendqueue)

(* A first write that was cut short is that of a handshake which then begins.  *)
CutOnce ==
    slip = "cut" => IF Begun THEN iopc # "negotiate" ELSE type = "negotiate" /\ iopc = "negotiate"

SideInv == Sided /\ CutOnce

(* What goes on the wire behind the rest.  *)
LEMMA RightMore ==
  ASSUME NEW w \in Seq(Writings), NEW v \in Seq(Writings)
  PROVE  /\ Clear(w) => Right(w) /\ Pure(w)
         /\ Clear(w) /\ Clear(v) => Clear(w \o v)
         /\ Pure(w) /\ Pure(v) => Pure(w \o v)
         /\ Right(w) /\ (\A i \in 1 .. Len(v) : v[i].tls) => Right(w \o v)
         /\ Clear(w) /\ Len(v) = 1 /\ v[1].data = "hello" /\ ~v[1].tls => Right(w \o v) /\ Pure(w \o v)
<1> DEFINE u == w \o v
<1>1. /\ Len(w) \in Nat /\ Len(v) \in Nat /\ Len(u) = Len(w) + Len(v)
      /\ \A i \in 1 .. Len(w) : u[i] = w[i]
      /\ \A i \in 1 .. Len(u) : i \in 1 .. Len(w) \/ (i - Len(w) \in 1 .. Len(v) /\ u[i] = v[i - Len(w)])
  OBVIOUS
<1> HIDE DEF u
<1>2. Clear(w) => Right(w) /\ Pure(w)
  BY DEF Clear, Right, Pure
<1>3. Clear(w) /\ Clear(v) => Clear(u)
  BY <1>1 DEF Clear
<1>4. Pure(w) /\ Pure(v) => Pure(u)
  BY <1>1 DEF Pure
<1>5. ASSUME Right(w), \A i \in 1 .. Len(v) : v[i].tls PROVE Right(u)
  <2>1. \A j \in 1 .. Len(u) : j \in 1 .. Len(w) \/ u[j].tls
    BY <1>1, <1>5
  <2>2. \A i, j \in 1 .. Len(u) : i < j /\ j \in 1 .. Len(w) => i \in 1 .. Len(w)
    BY <1>1
  <2> QED BY <1>1, <1>5, <2>1, <2>2 DEF Right
<1>6. ASSUME Clear(w), Len(v) = 1, v[1].data = "hello", ~v[1].tls PROVE Right(u) /\ Pure(u)
  <2>1. \A i \in 1 .. Len(u) : ~u[i].tls /\ u[i].data # "secret"
    BY <1>1, <1>6 DEF Clear
  <2>2. \A i, j \in 1 .. Len(u) : i < j => i \in 1 .. Len(w)
    BY <1>1, <1>6
  <2>3. \A i, j \in 1 .. Len(u) : i < j => u[i].data # "hello"
    BY <1>1, <1>6, <2>2 DEF Clear
  <2> QED BY <2>1, <2>3 DEF Right, Pure
<1> QED BY <1>2, <1>3, <1>4, <1>5, <1>6 DEF u

(* Most steps write nothing and leave the send queue alone, or empty it with the socket.  *)
Rests ==
    /\ UNCHANGED <<sendqueue, wire, slip>>
    /\ type' = type \/ (~Begun /\ ~Begun' /\ type # "negotiate")
    /\ iopc' = iopc \/ (iopc # "negotiate" /\ iopc' # "negotiate")
Erases == CloseIntern /\ UNCHANGED <<wire, slip>> /\ iopc # "negotiate" /\ iopc' # "negotiate"

LEMMA RestsSide == SideInv /\ Rests => SideInv'
  BY DEF SideInv, Sided, CutOnce, Rests, Begun, Right, Pure, Clear, Early, Late

LEMMA ErasesSide == SideInv /\ Erases => SideInv'
  BY DEF SideInv, Sided, CutOnce, Erases, CloseIntern, Begun, Right, Pure, Clear, Early, Late

LEMMA WorkerRests ==
  ASSUME Inv, Receiver \/ ResolverAnswers \/ AsyncComplete \/ Tick
  PROVE  Rests \/ Erases \/ SendData
<1>1. resolver \in {"found", "failed"} => type \in {"resolving", "erased"}
  BY DEF Inv, Waiting, None
<1> USE <1>1 DEF Rests, Erases, Begun, LockFree, sock, io, counts
<1>2. RegisterNumeric => Rests \/ Erases
  BY DEF RegisterNumeric, ResolveFails, Refused, Connects
<1>3. RegisterName \/ Accept \/ ResolverAnswers \/ Negotiate => Rests
  BY DEF RegisterName, Accept, ResolverAnswers, Negotiate
<1>4. AsyncComplete => Rests \/ Erases
  BY DEF AsyncComplete, ResolveFails, Refused, Connects
<1>5. Tick => Rests \/ Erases
  BY DEF Tick
<1>6. CloseSocket => Rests \/ Erases
  BY DEF CloseSocket
<1> QED BY <1>2, <1>3, <1>4, <1>5, <1>6 DEF Receiver

LEMMA HandleRests ==
  ASSUME PollWait \/ OutOfDate \/ ConnectingOut \/ PlainIn \/ SslIn
  PROVE  Rests \/ Erases
<1> USE DEF Rests, Erases, Begun, sock, io, counts, Back, ReadEnds
<1>1. PollWait \/ OutOfDate => Rests
  BY DEF PollWait, OutOfDate
<1>2. ConnectingOut => Rests \/ Erases
  BY DEF ConnectingOut
<1>3. PlainIn => Rests \/ Erases
  BY DEF PlainIn, Receive
<1>4. SslIn => Rests \/ Erases
  BY DEF SslIn, Receive
<1> QED BY <1>1, <1>2, <1>3, <1>4

LEMMA SendSide ==
  ASSUME Inv, SideInv, SendData
  PROVE  SideInv'
<1>1. /\ sendqueue \in Seq(Blocks) /\ sendqueue' = Append(sendqueue, Link)
      /\ type # "erased" /\ iopc # "negotiate"
      /\ UNCHANGED <<type, iopc, wire, slip>>
  BY DEF SendData, Inv, TypeOK, Registered, LockFree, io
<1>2. Link \in Blocks /\ (Link = "secret" <=> Begun)
  BY <1>1 DEF Link, Blocks, Begun
<1>3. /\ Early(sendqueue) /\ Link # "secret" => Early(sendqueue')
      /\ Late(sendqueue) /\ Link = "secret" => Late(sendqueue')
  <2> PICK q, b : q = sendqueue /\ b = Link OBVIOUS
  <2>1. \A i \in 1 .. Len(Append(q, b)) : (i \in 1 .. Len(q) /\ Append(q, b)[i] = q[i]) \/ Append(q, b)[i] = b
    BY <1>1, <1>2
  <2> QED BY <1>1, <2>1 DEF Early, Late
<1>4. /\ Right(wire)' <=> Right(wire)
      /\ Clear(wire)' <=> Clear(wire)
      /\ Pure(wire)' <=> Pure(wire)
  BY <1>1 DEF Right, Clear, Pure
<1> QED BY <1>1, <1>2, <1>3, <1>4 DEF SideInv, Sided, CutOnce, Begun

(* The blocks a write takes are the first of the send queue.  *)
LEMMA WritesSide ==
  ASSUME SockType, OtherType, NEW tls \in BOOLEAN, NEW dir, Writes(tls, dir)
  PROVE  /\ type' = type \/ (type' = "erased" /\ sendqueue' = <<>>)
         /\ Early(sendqueue) => Early(sendqueue')
         /\ Late(sendqueue) => Late(sendqueue')
         /\ ~tls /\ Early(sendqueue) /\ Clear(wire) => Clear(wire')
         /\ tls /\ Right(wire) => Right(wire')
         /\ tls /\ Late(sendqueue) /\ Pure(wire) => Pure(wire')
<1> PICK q : q = sendqueue OBVIOUS
<1>1. q \in Seq(Blocks) /\ Len(q) \in Nat /\ wire \in Seq(Writings)
  BY DEF SockType, OtherType
<1>2. ASSUME NEW n \in 0 .. Len(q), Written(n, tls)
      PROVE  /\ ~tls /\ Early(q) /\ Clear(wire) => Clear(wire')
             /\ tls /\ Right(wire) => Right(wire')
             /\ tls /\ Late(q) /\ Pure(wire) => Pure(wire')
  <2> DEFINE v == [i \in 1 .. n |-> [data |-> q[i], tls |-> tls]]
  <2>1. v \in Seq(Writings) /\ Len(v) = n /\ wire' = wire \o v
    BY <1>1, <1>2 DEF Written, Writings, Blocks
  <2>2. \A i \in 1 .. n : i \in 1 .. Len(q) /\ v[i].data = q[i] /\ v[i].tls = tls /\ q[i] # "hello"
    BY <1>1, <1>2 DEF Blocks
  <2> HIDE DEF v
  <2>3. (~tls /\ Early(q) => Clear(v)) /\ (Late(q) => Pure(v)) /\ (tls => \A i \in 1 .. Len(v) : v[i].tls)
    BY <2>1, <2>2 DEF Clear, Early, Late, Pure
  <2> QED BY <1>1, <2>1, <2>3, RightMore
<1>3. CASE Written(Len(q), tls) /\ WritesAll(dir)
  <2>1. sendqueue' = <<>> /\ type' \in {type, "erased"}
    BY <1>3 DEF WritesAll, CloseIntern
  <2> QED BY <1>1, <1>2, <1>3, <2>1 DEF Early, Late
<1>4. ASSUME NEW n \in 0 .. Len(q) - 1, Written(n, tls),
             \/ sendqueue' = Rest(n) /\ UNCHANGED type
             \/ WriteEnds
      PROVE  /\ type' = type \/ (type' = "erased" /\ sendqueue' = <<>>)
             /\ Early(q) => Early(sendqueue')
             /\ Late(q) => Late(sendqueue')
             /\ ~tls /\ Early(q) /\ Clear(wire) => Clear(wire')
             /\ tls /\ Right(wire) => Right(wire')
             /\ tls /\ Late(q) /\ Pure(wire) => Pure(wire')
  <2>1. \A i \in 1 .. Len(SubSeq(q, n + 1, Len(q))) :
            n + i \in 1 .. Len(q) /\ SubSeq(q, n + 1, Len(q))[i] = q[n + i]
    BY <1>1
  <2>2. (Early(q) => Early(Rest(n))) /\ (Late(q) => Late(Rest(n)))
    BY <2>1 DEF Early, Late, Rest
  <2>3. n \in 0 .. Len(q) /\ Early(<<>>) /\ Late(<<>>)
    BY <1>1 DEF Early, Late
  <2> QED BY <1>2, <1>4, <2>2, <2>3 DEF WriteEnds, CloseIntern
<1> QED BY <1>3, <1>4 DEF Writes

LEMMA OutSide ==
  ASSUME Inv, SideInv, Out \/ FlushClear
  PROVE  SideInv'
<1>1. SockType /\ OtherType /\ wire \in Seq(Writings)
  BY TypeParts DEF Inv, OtherType
<1>2. Clear(wire') => Right(wire') /\ Pure(wire')
  BY DEF Clear, Right, Pure
<1>3. CASE Out
  <2>1. /\ type \in {"plain", "ssl"} /\ Writes(type = "ssl", "IN") /\ iopc = "lock" /\ iopc' = "wait" /\ slip' = slip
    BY <1>3 DEF Out, Back
  <2>2. PICK t \in BOOLEAN : t = (type = "ssl")
    OBVIOUS
  <2>3. /\ type' = type \/ (type' = "erased" /\ sendqueue' = <<>>)
        /\ Early(sendqueue) => Early(sendqueue')
        /\ Late(sendqueue) => Late(sendqueue')
        /\ ~t /\ Early(sendqueue) /\ Clear(wire) => Clear(wire')
        /\ t /\ Right(wire) => Right(wire')
        /\ t /\ Late(sendqueue) /\ Pure(wire) => Pure(wire')
    BY <1>1, <2>1, <2>2, WritesSide
  <2>4. sendqueue' = <<>> => Late(sendqueue')
    BY DEF Late
  <2>5. CASE type = "ssl"
    BY <2>1, <2>2, <2>3, <2>4, <2>5 DEF SideInv, Sided, CutOnce, Begun
  <2>6. CASE type = "plain"
    <3>1. slip # "cut" /\ Early(sendqueue) /\ Clear(wire)
      BY <2>1, <2>6 DEF SideInv, Sided, CutOnce, Begun
    <3> QED BY <1>2, <2>1, <2>2, <2>3, <2>4, <2>6, <3>1 DEF SideInv, Sided, CutOnce, Begun
  <2> QED BY <2>1, <2>5, <2>6
<1>4. CASE FlushClear
  <2>1. /\ type = "negotiate" /\ Writes(FALSE, "OUT") /\ iopc = "lock" /\ iopc' = "negotiate"
        /\ slip' = IF type' = "negotiate" /\ sendqueue' # <<>> THEN "cut" ELSE slip
    BY <1>4 DEF FlushClear
  <2>2. slip # "cut" /\ Early(sendqueue) /\ Clear(wire)
    BY <2>1 DEF SideInv, Sided, CutOnce, Begun
  <2>3. /\ Clear(wire') /\ Early(sendqueue')
        /\ type' = type \/ (type' = "erased" /\ sendqueue' = <<>>)
    BY <1>1, <2>1, <2>2, WritesSide
  <2>4. sendqueue' = <<>> => Late(sendqueue')
    BY DEF Late
  <2> QED BY <1>2, <2>1, <2>2, <2>3, <2>4 DEF SideInv, Sided, CutOnce, Begun
<1> QED BY <1>3, <1>4

LEMMA HandshakeSide ==
  ASSUME Inv, SideInv, Handshake \/ HandshakeErased \/ NegotiationIn
  PROVE  SideInv'
<1>1. wire \in Seq(Writings)
  BY DEF Inv, TypeOK
<1>2. sendqueue' = <<>> => Late(sendqueue')
  BY DEF Late
<1>3. UNCHANGED wire => /\ Right(wire') <=> Right(wire)
                        /\ Clear(wire') <=> Clear(wire)
                        /\ Pure(wire') <=> Pure(wire)
  OBVIOUS
<1>4. CASE Handshake
  <2>1. /\ type = "negotiate" /\ iopc' = "wait" /\ slip' = slip
        /\ iopc = "negotiate" \/ sendqueue = <<>>
        /\ wire' = Append(wire, [data |-> "hello", tls |-> FALSE])
        /\ type' \in {"ssl", "redo", "erased"} /\ (sendqueue' = sendqueue \/ sendqueue' = <<>>)
        /\ type' = "erased" => sendqueue' = <<>>
    BY <1>4 DEF Handshake, StartsHandshake, Back, Secured, WriteEnds, CloseIntern
  <2>2. Right(wire') /\ Pure(wire')
    <3> DEFINE v == <<[data |-> "hello", tls |-> FALSE]>>
    <3> PICK w : w = wire OBVIOUS
    <3>0. [data |-> "hello", tls |-> FALSE] \in Writings
      BY DEF Writings
    <3>1. w \in Seq(Writings) /\ v \in Seq(Writings) /\ wire' = w \o v
      <4>1. \A h \in Writings : <<h>> \in Seq(Writings) /\ (w \in Seq(Writings) => Append(w, h) = w \o <<h>>)
        OBVIOUS
      <4> QED BY <1>1, <2>1, <3>0, <4>1
    <3>2. Len(v) = 1 /\ v[1].data = "hello" /\ ~v[1].tls
      OBVIOUS
    <3> HIDE DEF v
    <3>3. Clear(wire)
      BY <2>1 DEF SideInv, Sided, Begun
    <3> QED BY <3>1, <3>2, <3>3, RightMore
  <2>3. slip # "cut" => sendqueue' = <<>>
    BY <2>1 DEF SideInv, Sided
  <2> QED BY <1>2, <2>1, <2>2, <2>3 DEF SideInv, Sided, CutOnce, Begun
<1>5. CASE HandshakeErased
  <2>1. /\ iopc = "negotiate" /\ type = "erased" /\ iopc' = "wait" /\ slip' # "cut"
        /\ UNCHANGED <<type, sendqueue, wire>>
    BY <1>5 DEF HandshakeErased, Back, sock
  <2>2. slip # "cut"
    BY <2>1 DEF SideInv, CutOnce, Begun
  <2> QED BY <1>2, <1>3, <2>1, <2>2 DEF SideInv, Sided, CutOnce, Begun
<1>6. CASE NegotiationIn
  <2>1. /\ type = "redo" /\ iopc = "lock" /\ iopc' = "wait" /\ UNCHANGED <<wire, slip>>
        /\ type' \in {"ssl", "redo", "erased"} /\ (sendqueue' = sendqueue \/ sendqueue' = <<>>)
        /\ type' = "erased" => sendqueue' = <<>>
    BY <1>6 DEF NegotiationIn, Back, Secured, WriteEnds, CloseIntern, sock
  <2>2. sendqueue' = sendqueue => (Late(sendqueue') <=> Late(sendqueue))
    OBVIOUS
  <2> QED BY <1>2, <1>3, <2>1, <2>2 DEF SideInv, Sided, CutOnce, Begun
<1> QED BY <1>4, <1>5, <1>6

(* Whatever the receiver sends and when, the link changes sides once and the send queue
   with it (sendData() in the handlers of a handshake, negotiateSSLConnect and
   handleTCPSSLNegotiationOut() of iomanager.cpp).  *)
THEOREM StaysOnItsSide == Spec => []OnTheRightSide
<1>1. Init => SideInv
  BY DEF Init, SideInv, Sided, CutOnce, Begun, Right, Pure, Clear, Early, Late
<1>2. Inv /\ SideInv /\ [Next]_vars => SideInv'
  <2> SUFFICES ASSUME Inv, SideInv, [Next]_vars PROVE SideInv'
    OBVIOUS
  <2>1. CASE UNCHANGED vars
    BY <2>1, RestsSide DEF Rests, vars, sock, io
  <2>2. CASE Next
    BY <2>2, RestsSide, ErasesSide, WorkerRests, HandleRests, SendSide, OutSide, HandshakeSide DEF Next, Handle
  <2> QED BY <2>1, <2>2
<1>3. SideInv => OnTheRightSide
  BY RightIs DEF SideInv, Sided
<1> QED BY <1>1, <1>2, <1>3, AlwaysInv, PTL DEF Spec
=============================================================================
