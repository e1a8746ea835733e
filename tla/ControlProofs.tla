---------------------------- MODULE ControlProofs ---------------------------
(***************************************************************************)
(* Control, for every number of sessions and every bound: the types        *)
(* whatever the peers do; and, with clients that come one at a time        *)
(* (Sequential), that a session used again finds nothing of the client     *)
(* before.  Every other result rests on that: sockets, events and queued   *)
(* data belong to the connection the session has now, so nothing stays     *)
(* open, TLS is begun on both sides, and the server is told the user of    *)
(* its own client first.                                                   *)
(***************************************************************************)
EXTENDS Control, WellFoundedInduction, TLAPS

-----------------------------------------------------------------------------
(* Types.                                                                  *)

\* The events of a queue.
Mail(q) == {q[i] : i \in DOMAIN q}
Names(x) == \E s \in Sessions : x \in {client[s], server[s], identp[s]}

\* An accepted connection has no receiver until Bnc::FDNew; until then nobody
\* else knows it.
Pending(x) == x \in Open /\ socketinfomap[x].er = <<>>
Unclaimed(q) ==
    \A x \in SockIds : Pending(x) =>
        /\ socketinfomap[x] = New("LISTEN", <<>>, x) /\ ~Names(x)
        /\ \A e \in Mail(q) : e.sock = x => e.type = "NEW"
\* Sessions are made when they are first used.
Beyond == \A s \in Sessions : s > made => state[s] = "DISCONNECTED"
Fors == \A x \in Open : socketinfomap[x].for \in SockIds
TypeInv == TypeOK /\ Unclaimed(queue) /\ Beyond /\ Fors

-----------------------------------------------------------------------------
(* A session and what belongs to it.                                       *)

Dead(s) == state[s] = "DISCONNECTED"
Own(class, s) == CASE class = "BncSession" -> client[s]
                   [] class = "BncSessionClient" -> server[s]
                   [] OTHER -> identp[s]
Class(x) == socketinfomap[x].er[1]
Session(x) == socketinfomap[x].er[2]

Kinds(class) == CASE class = "BncSession"       -> {"LISTEN", "SSL_NEG", "SSL"}
                  [] class = "BncSessionClient" -> {"CONNECTING", "PLAIN", "SSL_NEG", "SSL"}
                  [] OTHER                      -> {"CONNECTING", "PLAIN"}

\* The sockets a session has are those its three members name,
Sockets ==
    \A x \in Open : socketinfomap[x].er # <<>> =>
        /\ x = Own(Class(x), Session(x)) /\ socketinfomap[x].for = client[Session(x)]
        /\ socketinfomap[x].type \in Kinds(Class(x))
Named ==
    \A s \in Sessions, class \in Classes :
        Own(class, s) \in Open => socketinfomap[Own(class, s)].er = <<class, s>>

\* and the events for it are of these.
Delivered(q) ==
    \A e \in Mail(q) :
        IF e.type = "NEW" THEN Pending(e.sock) /\ e.for = e.sock /\ e.to = Bnc
        ELSE /\ e.to # Bnc /\ e.sock = Own(e.to[1], e.to[2]) /\ e.for = client[e.to[2]]
             /\ e.type \in {"FAIL", "DISCONNECTED"} => e.sock \notin Open
             /\ e.sock \in Open => socketinfomap[e.sock].type # "CONNECTING"

\* A NEW stands first: until it is handled no session ends, and those that may
\* be used for it have neither sockets nor events.
Gone(q, s) ==
    /\ \A x \in Open : socketinfomap[x].er # <<>> => Session(x) # s
    /\ \A e \in Mail(q) : e.to # Bnc => e.to[2] # s
Arrivals(q) ==
    /\ \A i \in DOMAIN q : q[i].type = "NEW" =>
            i = 1 /\ \A s \in Sessions : Dead(s) => Gone(q, s)
    /\ \A x \in Open : Pending(x) => \E e \in Mail(q) : e.type = "NEW" /\ e.sock = x
Structure(q) == Sockets /\ Named /\ Delivered(q) /\ Arrivals(q)

-----------------------------------------------------------------------------
(* The course of a session.                                                *)

\* Its connections are told to close when it is over, and not before.
Over ==
    \A s \in Sessions, x \in Open : x \in {client[s], server[s]} =>
        (Dead(s) <=> socketinfomap[x].closing)
OwnData ==
    \A s \in Sessions :
        /\ identstr[s] \in {Nobody, client[s]}
        /\ \A i \in DOMAIN sendqueue[s] : sendqueue[s][i].for = client[s]
        /\ state[s] = "ESTABLISHED" => identreceived[s] \/ NoIdnt

\* For the order in which a server is sent its IDNT.
From(e, type, class, s) == e.type = type /\ e.to = <<class, s>>
Announced(q, s) ==
    \A i \in DOMAIN q : From(q[i], "DATA", "BncSessionClient", s) =>
        \E j \in DOMAIN q : j < i /\ From(q[j], "CONNECTED", "BncSessionClient", s)
Told(q, s) == \E e \in Mail(q) : From(e, "CONNECTED", "BncSessionClient", s)
Greets(q, s) ==
    /\ connected[s] \/ Announced(q, s)
    /\ connected[s] \/ Told(q, s) \/ (server[s] \in Open => socketinfomap[server[s]].type = "CONNECTING")
    /\ (client[s] \in Open /\ socketinfomap[client[s]].first # NoSock) => connected[s]
    /\ \A e \in Mail(q) : From(e, "DATA", "BncSession", s) => connected[s]
    /\ sendqueue[s] # <<>> => connected[s]
    /\ (connected[s] /\ identreceived[s] /\ ~NoIdnt /\ server[s] \in Open) =>
            socketinfomap[server[s]].first # NoSock
Greeting(q) == \A s \in Sessions : ~Dead(s) => Greets(q, s)

\* For TLS.
Once(q, s) ==
    \A i, j \in DOMAIN q :
        From(q[i], "SSL_SUCCESS", "BncSessionClient", s)
            /\ From(q[j], "SSL_SUCCESS", "BncSessionClient", s) => i = j
Started(s) == tlsstate[s] \in {"IN_PROGRESS", "ACTIVE"}
Shakes(q, s) ==
    /\ responsecatch[s] = "AUTH_TLS" => tlsstate[s] = "QUERY"
    /\ client[s] \in Open => (Secured(client[s]) <=> Started(s))
    /\ server[s] \in Open => (Secured(server[s]) <=> Started(s))
    /\ Once(q, s)
    /\ \A e \in Mail(q) : From(e, "SSL_SUCCESS", "BncSessionClient", s) =>
            /\ tlsstate[s] = "IN_PROGRESS"
            /\ server[s] \in Open => socketinfomap[server[s]].type = "SSL"
    /\ (server[s] \in Open /\ socketinfomap[server[s]].type = "SSL_NEG") => tlsstate[s] = "IN_PROGRESS"
Handshakes(q) == \A s \in Sessions : Shakes(q, s)

-----------------------------------------------------------------------------
(* Queues.                                                                 *)

LEMMA MailType == ASSUME NEW q \in Seq(Events) PROVE Mail(q) \subseteq Events
BY DEF Mail

LEMMA MailEmpty == Mail(<<>>) = {}
BY DEF Mail

LEMMA MailPush ==
    ASSUME NEW q \in Seq(Events), NEW e \in Events
    PROVE  Append(q, e) \in Seq(Events) /\ Mail(Append(q, e)) = Mail(q) \cup {e}
<1> DEFINE r == Append(q, e)
           k == Len(q) + 1
<1>1. r \in Seq(Events) /\ DOMAIN q = 1 .. Len(q) /\ DOMAIN r = 1 .. k /\ Len(q) \in Nat
  OBVIOUS
<1>2. r[k] = e /\ k \in DOMAIN r
  OBVIOUS
<1>3. ASSUME NEW i \in DOMAIN q PROVE i \in DOMAIN r /\ r[i] = q[i]
  OBVIOUS
<1>4. ASSUME NEW i \in DOMAIN r PROVE i \in DOMAIN q \/ i = k
  BY <1>1
<1> HIDE DEF r, k
<1> QED
  BY <1>1, <1>2, <1>3, <1>4 DEF Mail, r

LEMMA MailPop ==
    ASSUME NEW q \in Seq(Events), q # <<>>
    PROVE  /\ Head(q) \in Events /\ Tail(q) \in Seq(Events)
           /\ Head(q) \in Mail(q) /\ Mail(Tail(q)) \subseteq Mail(q)
<1>1. /\ Head(q) \in Events /\ Tail(q) \in Seq(Events)
      /\ 1 \in DOMAIN q /\ Head(q) = q[1]
      /\ \A i \in DOMAIN Tail(q) : i + 1 \in DOMAIN q /\ Tail(q)[i] = q[i + 1]
  OBVIOUS
<1> QED
  BY <1>1 DEF Mail

\* What is in a queue with something behind it.
LEMMA MailPlus ==
    ASSUME NEW q \in Seq(Events), NEW r \in Seq(Events)
    PROVE  q \o r \in Seq(Events) /\ Mail(q \o r) = Mail(q) \cup Mail(r)
<1>1. /\ q \o r \in Seq(Events)
      /\ DOMAIN q = 1 .. Len(q) /\ DOMAIN r = 1 .. Len(r) /\ DOMAIN (q \o r) = 1 .. Len(q) + Len(r)
      /\ Len(q) \in Nat /\ Len(r) \in Nat
      /\ \A i \in 1 .. Len(q) + Len(r) : (q \o r)[i] = IF i <= Len(q) THEN q[i] ELSE r[i - Len(q)]
  OBVIOUS
<1> DEFINE t == q \o r
           n == Len(q)
<1>2. ASSUME NEW i \in DOMAIN q PROVE i \in DOMAIN t /\ t[i] = q[i]
  BY <1>1
<1>3. ASSUME NEW i \in DOMAIN r PROVE n + i \in DOMAIN t /\ t[n + i] = r[i]
  BY <1>1
<1>4. ASSUME NEW i \in DOMAIN t
      PROVE  (i \in DOMAIN q /\ t[i] = q[i]) \/ (i - n \in DOMAIN r /\ t[i] = r[i - n])
  BY <1>1
<1> HIDE DEF t, n
<1>5. Mail(t) \subseteq Mail(q) \cup Mail(r)
  BY <1>4 DEF Mail
<1>6. Mail(q) \subseteq Mail(t) /\ Mail(r) \subseteq Mail(t)
  BY <1>2, <1>3 DEF Mail
<1> QED
  BY <1>1, <1>5, <1>6 DEF t

-----------------------------------------------------------------------------
(* The map of sockets.                                                     *)

Values == SockIds \cup {NoSock, Nobody, Data}
SocketInfos ==
    [type : {"UNUSED", "LISTEN", "CONNECTING", "PLAIN", "SSL_NEG", "SSL"},
     er : (Classes \X Sessions) \cup {<<>>}, for : SockIds \cup {NoSock},
     unsent : BOOLEAN, closing : BOOLEAN,
     first : SockIds \cup {NoSock, Nobody, Data}]

\* No call opens a socket or gives it to somebody else.
Kept(m, n) ==
    \A x \in SockIds : n[x].type # "UNUSED" =>
        /\ m[x].type # "UNUSED" /\ n[x].er = m[x].er /\ n[x].for = m[x].for
        /\ m[x].closing => n[x].closing
        /\ n[x].type = m[x].type \/ (m[x].type \in {"LISTEN", "PLAIN"} /\ n[x].type = "SSL_NEG")
        /\ m[x].first # NoSock => n[x].first = m[x].first
Untouched(m, n, X) == \A x \in SockIds \ X : n[x] = m[x]

LEMMA KeptSelf == ASSUME NEW m PROVE Kept(m, m) /\ \A X : Untouched(m, m, X)
BY DEF Kept, Untouched

LEMMA KeptThen ==
    ASSUME NEW m, NEW n, NEW k, NEW X, NEW Y, Kept(m, n), Kept(n, k), Untouched(m, n, X), Untouched(n, k, Y)
    PROVE  Kept(m, k) /\ Untouched(m, k, X \cup Y)
BY DEF Kept, Untouched

LEMMA CloseSocketMap ==
    ASSUME NEW m \in [SockIds -> SocketInfos], NEW x
    PROVE  LET n == CloseSocket(m, x) IN
           /\ n \in [SockIds -> SocketInfos] /\ Kept(m, n) /\ Untouched(m, n, {x})
           /\ (x \in SockIds /\ n[x].type # "UNUSED") => n[x].closing
           /\ \A y \in SockIds : n[y].type # "UNUSED" => n[y].first = m[y].first /\ n[y].type = m[y].type
<1>1. Unused \in SocketInfos /\ Unused.type = "UNUSED"
  BY DEF Unused, SocketInfos
<1>2. CASE x \notin SockIds \/ m[x].type = "UNUSED"
  BY <1>2 DEF CloseSocket, Kept, Untouched
<1>3. CASE x \in SockIds /\ m[x].type # "UNUSED" /\ m[x].unsent
  <2>1. CloseSocket(m, x) = [m EXCEPT ![x] = [@ EXCEPT !.closing = TRUE]]
    BY <1>3 DEF CloseSocket
  <2>2. [m[x] EXCEPT !.closing = TRUE] \in SocketInfos
    BY <1>3 DEF SocketInfos
  <2> QED
    BY <1>3, <2>1, <2>2 DEF SocketInfos, Kept, Untouched
<1>4. CASE x \in SockIds /\ m[x].type # "UNUSED" /\ ~m[x].unsent
  <2>1. CloseSocket(m, x) = [m EXCEPT ![x] = Unused]
    BY <1>4 DEF CloseSocket
  <2> QED
    BY <1>1, <1>4, <2>1 DEF Kept, Untouched
<1> QED
  BY <1>2, <1>3, <1>4

LEMMA SendDataMap ==
    ASSUME NEW m \in [SockIds -> SocketInfos], NEW x, NEW what \in Values
    PROVE  LET n == SendData(m, x, what) IN
           /\ n \in [SockIds -> SocketInfos] /\ Kept(m, n) /\ Untouched(m, n, {x})
           /\ \A y \in SockIds : n[y].type = m[y].type /\ n[y].er = m[y].er /\ n[y].closing = m[y].closing
           /\ (x \in SockIds /\ m[x].type # "UNUSED") =>
                n[x].first = IF m[x].first = NoSock THEN what ELSE m[x].first
<1>1. CASE x \notin SockIds \/ m[x].type = "UNUSED"
  BY <1>1 DEF SendData, Kept, Untouched
<1>2. CASE x \in SockIds /\ m[x].type # "UNUSED"
  <2> DEFINE f == IF m[x].first = NoSock THEN what ELSE m[x].first
             r == [m[x] EXCEPT !.unsent = TRUE, !.first = f]
  <2>1. f \in Values
    BY <1>2 DEF SocketInfos, Values
  <2>2. /\ r \in SocketInfos /\ r.type = m[x].type /\ r.er = m[x].er /\ r.for = m[x].for
        /\ r.closing = m[x].closing /\ r.first = f
    BY <1>2, <2>1 DEF SocketInfos, Values
  <2>3. SendData(m, x, what) = [m EXCEPT ![x] = r]
    BY <1>2 DEF SendData, SocketInfos
  <2> HIDE DEF r
  <2> QED
    BY <1>2, <2>2, <2>3 DEF Kept, Untouched
<1> QED
  BY <1>1, <1>2

LEMMA SendOther ==
    ASSUME NEW m \in [SockIds -> SocketInfos], NEW x
    PROVE  LET n == SendData(m, x, Data) IN
           /\ n \in [SockIds -> SocketInfos] /\ Kept(m, n) /\ Untouched(m, n, {x})
           /\ \A y \in SockIds : n[y].type = m[y].type /\ n[y].er = m[y].er /\ n[y].closing = m[y].closing
<1> DEFINE what == Data
<1>1. what \in Values
  BY DEF Values
<1> HIDE DEF what
<1>2. LET n == SendData(m, x, what) IN
           /\ n \in [SockIds -> SocketInfos] /\ Kept(m, n) /\ Untouched(m, n, {x})
           /\ \A y \in SockIds : n[y].type = m[y].type /\ n[y].er = m[y].er /\ n[y].closing = m[y].closing
  BY <1>1, SendDataMap
<1> QED
  BY <1>2 DEF what

LEMMA NegotiateMap ==
    ASSUME NEW m \in [SockIds -> SocketInfos], NEW x
    PROVE  LET n == Negotiate(m, x) IN
           /\ n \in [SockIds -> SocketInfos] /\ Kept(m, n) /\ Untouched(m, n, {x})
           /\ \A y \in SockIds : n[y].first = m[y].first /\ n[y].closing = m[y].closing /\ n[y].er = m[y].er
           /\ x \in SockIds => n[x].type = IF m[x].type \in {"LISTEN", "PLAIN"} THEN "SSL_NEG" ELSE m[x].type
<1>1. CASE x \notin SockIds \/ m[x].type \notin {"LISTEN", "PLAIN"}
  BY <1>1 DEF Negotiate, Kept, Untouched
<1>2. CASE x \in SockIds /\ m[x].type \in {"LISTEN", "PLAIN"}
  <2>1. Negotiate(m, x) = [m EXCEPT ![x] = [@ EXCEPT !.type = "SSL_NEG"]]
    BY <1>2 DEF Negotiate
  <2>2. [m[x] EXCEPT !.type = "SSL_NEG"] \in SocketInfos
    BY <1>2 DEF SocketInfos
  <2> QED
    BY <1>2, <2>1, <2>2 DEF SocketInfos, Kept, Untouched
<1> QED
  BY <1>1, <1>2

-----------------------------------------------------------------------------
(* What the IO thread does to a socket.                                    *)

Pushes(x, t) == \E w \in Contents : queue' = Append(queue, Event(t, x, w))

\* A step of the IO thread that is not a new connection: the socket it is about
\* goes on to another state, or is removed, and the worker hears of it.
Moves(x) ==
    LET a == socketinfomap[x]
        b == socketinfomap'[x]
    IN
    /\ x \in SockIds /\ a.type # "UNUSED" /\ a.er # <<>>
    /\ socketinfomap' = [socketinfomap EXCEPT ![x] = b] /\ b \in SocketInfos
    /\ b.type # "UNUSED" =>
            b.er = a.er /\ b.for = a.for /\ b.closing = a.closing /\ b.first = a.first
    /\ \/ b.type = "UNUSED" /\ a.closing /\ UNCHANGED queue
       \/ b.type = "UNUSED" /\ \E t \in {"FAIL", "DISCONNECTED"} : Pushes(x, t)
       \/ a.type = "CONNECTING" /\ b.type = "PLAIN" /\ a.closing /\ UNCHANGED queue
       \/ a.type = "CONNECTING" /\ b.type = "PLAIN" /\ Pushes(x, "CONNECTED")
       \/ a.type = "SSL_NEG" /\ b.type = "SSL" /\ Pushes(x, "SSL_SUCCESS")
       \/ b.type = a.type /\ UNCHANGED queue
       \/ /\ b.type = a.type /\ a.type # "CONNECTING" /\ Pushes(x, "DATA")
          /\ (ServerFirst /\ a.er[1] = "BncSession") => a.first # NoSock
    /\ IOStep

LEMMA MapType == TypeOK => socketinfomap \in [SockIds -> SocketInfos]
BY DEF TypeOK, SocketInfos

LEMMA UnusedType == Unused \in SocketInfos /\ Unused.type = "UNUSED"
BY DEF Unused, SocketInfos

LEMMA IOMoves ==
    ASSUME TypeInv, NEW x \in SockIds,
           Connect(x) \/ ConnectFails(x) \/ Read(x) \/ ReadEnd(x) \/ Drain(x) \/ WriteFails(x) \/ Negotiated(x)
    PROVE  Moves(x)
<1> DEFINE a == socketinfomap[x]
           b == socketinfomap'[x]
<1>1. socketinfomap \in [SockIds -> SocketInfos] /\ a \in SocketInfos
  BY MapType DEF TypeInv
<1>2. a.type \in {"CONNECTING", "SSL_NEG"} => a.er # <<>>
  BY DEF TypeInv, Unclaimed, Pending, Open, New, Unused
<1>3. Ready(x) => a.type \in {"LISTEN", "PLAIN", "SSL"} /\ a.er # <<>>
  BY DEF Ready
<1>4. "" \in Contents /\ Unused \in SocketInfos /\ Unused.type = "UNUSED"
  BY UnusedType DEF Contents
<1>5. Remove(x) => socketinfomap' = [socketinfomap EXCEPT ![x] = b] /\ b = Unused
  BY <1>1 DEF Remove
<1>6. CASE Connect(x)
  <2>1. b = [a EXCEPT !.type = "PLAIN"] /\ socketinfomap' = [socketinfomap EXCEPT ![x] = b]
    BY <1>1, <1>6 DEF Connect
  <2>2. b \in SocketInfos /\ b.er = a.er /\ b.for = a.for /\ b.closing = a.closing /\ b.first = a.first
        /\ b.type = "PLAIN"
    BY <1>1, <2>1 DEF SocketInfos
  <2>3. a.type = "CONNECTING" /\ IOStep /\ (IF a.closing THEN UNCHANGED queue ELSE Pushes(x, "CONNECTED"))
    BY <1>4, <1>6 DEF Connect, PushUnless, Push, Pushes
  <2> HIDE DEF a, b
  <2> QED
    BY <1>2, <2>1, <2>2, <2>3 DEF Moves, a, b
<1>7. CASE ConnectFails(x)
  <2>1. a.type = "CONNECTING" /\ IOStep /\ Remove(x) /\ (IF a.closing THEN UNCHANGED queue ELSE Pushes(x, "FAIL"))
    BY <1>4, <1>7 DEF ConnectFails, PushUnless, Push, Pushes
  <2> HIDE DEF a, b
  <2> QED
    BY <1>2, <1>4, <1>5, <2>1 DEF Moves, a, b
<1>8. CASE Read(x)
  <2>1. UNCHANGED socketinfomap /\ Ready(x) /\ IOStep
    BY <1>8 DEF Read
  <2>2. PICK w \in Sends(x) : queue' = Append(queue, Event("DATA", x, w))
    BY <1>8 DEF Read, Push
  <2>3. a.er \in Classes \X Sessions
    BY <1>1, <1>3, <2>1 DEF SocketInfos
  <2>4. w \in Contents /\ (ServerFirst /\ a.er[1] = "BncSession" => a.first # NoSock)
    BY <2>2, <2>3 DEF Sends, Contents, Classes
  <2>5. Pushes(x, "DATA") /\ socketinfomap' = [socketinfomap EXCEPT ![x] = b] /\ b = a
    BY <1>1, <2>1, <2>2, <2>4 DEF Pushes
  <2> HIDE DEF a, b
  <2> QED
    BY <1>1, <1>3, <2>1, <2>4, <2>5 DEF Moves, a, b
<1>9. CASE ReadEnd(x)
  <2>1. Ready(x) /\ IOStep /\ Remove(x) /\ Pushes(x, "DISCONNECTED")
    BY <1>4, <1>9 DEF ReadEnd, Push, Pushes
  <2> HIDE DEF a, b
  <2> QED
    BY <1>3, <1>4, <1>5, <2>1 DEF Moves, a, b
<1>10. CASE Drain(x)
  <2>1. Ready(x) /\ IOStep /\ UNCHANGED queue
        /\ socketinfomap' = [socketinfomap EXCEPT ![x] = b]
        /\ b = IF a.closing THEN Unused ELSE [a EXCEPT !.unsent = FALSE]
    BY <1>1, <1>10 DEF Drain
  <2>2. CASE a.closing
    <3> HIDE DEF a, b
    <3> QED
      BY <1>3, <1>4, <2>1, <2>2 DEF Moves, a, b
  <2>3. CASE ~a.closing
    <3>1. b \in SocketInfos /\ b.er = a.er /\ b.for = a.for /\ b.closing = a.closing /\ b.first = a.first
          /\ b.type = a.type
      BY <1>1, <2>1, <2>3 DEF SocketInfos
    <3> HIDE DEF a, b
    <3> QED
      BY <1>3, <2>1, <3>1 DEF Moves, a, b
  <2> QED
    BY <2>2, <2>3
<1>11. CASE WriteFails(x)
  <2>1. Ready(x) \/ a.type = "SSL_NEG"
    BY <1>11 DEF WriteFails
  <2>2. IOStep /\ Remove(x) /\ (IF a.closing THEN UNCHANGED queue ELSE Pushes(x, "DISCONNECTED"))
    BY <1>4, <1>11 DEF WriteFails, PushUnless, Push, Pushes
  <2> HIDE DEF a, b
  <2> QED
    BY <1>2, <1>3, <1>4, <1>5, <2>1, <2>2 DEF Moves, a, b
<1>12. CASE Negotiated(x)
  <2>1. a.type = "SSL_NEG" /\ IOStep
    BY <1>12 DEF Negotiated
  <2>2. CASE a.closing
    <3>1. Remove(x) /\ UNCHANGED queue
      BY <1>12, <2>2 DEF Negotiated
    <3> HIDE DEF a, b
    <3> QED
      BY <1>2, <1>4, <1>5, <2>1, <2>2, <3>1 DEF Moves, a, b
  <2>3. CASE ~a.closing
    <3>1. b = [a EXCEPT !.type = "SSL", !.unsent = FALSE] /\ socketinfomap' = [socketinfomap EXCEPT ![x] = b]
          /\ Pushes(x, "SSL_SUCCESS")
      BY <1>1, <1>4, <1>12, <2>3 DEF Negotiated, Push, Pushes
    <3>2. b \in SocketInfos /\ b.er = a.er /\ b.for = a.for /\ b.closing = a.closing /\ b.first = a.first
          /\ b.type = "SSL"
      BY <1>1, <3>1 DEF SocketInfos
    <3> HIDE DEF a, b
    <3> QED
      BY <1>2, <2>1, <3>1, <3>2 DEF Moves, a, b
  <2> QED
    BY <2>2, <2>3
<1> QED
  BY <1>6, <1>7, <1>8, <1>9, <1>10, <1>11, <1>12

-----------------------------------------------------------------------------
(* The types are kept.                                                     *)

LEMMA FreshIsNew ==
    ASSUME TypeInv, NEW x \in Free
    PROVE  /\ x \in SockIds /\ x \notin Open /\ socketinfomap[x].type = "UNUSED" /\ ~Names(x)
           /\ \A e \in Mail(queue) : e.sock # x
<1> DEFINE A == UNION {{client[s], server[s], identp[s], identstr[s]} : s \in Sessions}
           B == UNION {{queue[i].sock, queue[i].for} : i \in DOMAIN queue}
           C == UNION {{sendqueue[s][i].for : i \in DOMAIN sendqueue[s]} : s \in Sessions}
           D == UNION {{y, socketinfomap[y].for, socketinfomap[y].first} : y \in Open}
<1>1. Known = A \cup B \cup C \cup D
  BY Zenon DEF Known
<1>2. \A s \in Sessions : {client[s], server[s], identp[s]} \subseteq A
  OBVIOUS
<1>3. \A i \in DOMAIN queue : queue[i].sock \in B
  OBVIOUS
<1>4. Open \subseteq D
  OBVIOUS
<1> HIDE DEF A, B, C, D
<1>5. x \in SockIds /\ x \notin A /\ x \notin B /\ x \notin D
  BY <1>1 DEF Free
<1>6. ~Names(x)
  BY <1>2, <1>5 DEF Names
<1>7. \A e \in Mail(queue) : e.sock # x
  BY <1>3, <1>5 DEF Mail
<1> QED
  BY <1>4, <1>5, <1>6, <1>7 DEF Open

LEMMA FreshIds ==
    /\ Free # {} => Fresh \in Free
    /\ Free \ {Fresh} # {} => Fresher \in Free /\ Fresher # Fresh
BY DEF Fresh, Fresher

LEMMA EventType ==
    ASSUME TypeInv, NEW x \in Open, socketinfomap[x].er # <<>>,
           NEW t \in {"CONNECTED", "FAIL", "DISCONNECTED", "DATA", "SSL_SUCCESS"}, NEW w \in Contents
    PROVE  LET e == Event(t, x, w) IN
           /\ e \in Events /\ e.type = t /\ e.to = socketinfomap[x].er /\ e.sock = x
           /\ e.for = socketinfomap[x].for /\ e.what = w
<1>1. x \in SockIds /\ socketinfomap[x] \in SocketInfos /\ socketinfomap[x].for \in SockIds
  BY MapType DEF TypeInv, Fors, Open
<1>2. socketinfomap[x].er \in Classes \X Sessions
  BY <1>1 DEF SocketInfos
<1> QED
  BY <1>1, <1>2 DEF Event, Events

LEMMA HeadType ==
    ASSUME TypeInv, NEW t, NEW class \in Classes, At(t, class)
    PROVE  /\ queue # <<>> /\ queue \in Seq(Events) /\ Tail(queue) \in Seq(Events)
           /\ Head(queue) \in Events /\ Head(queue) \in Mail(queue)
           /\ Receiver \in Sessions /\ Head(queue).type = t /\ Head(queue).to = <<class, Receiver>>
           /\ Head(queue).to # Bnc
           /\ Mail(Tail(queue)) \subseteq Mail(queue)
<1>1. queue # <<>> /\ queue \in Seq(Events) /\ Head(queue).type = t /\ Head(queue).to[1] = class
  BY DEF At, TypeInv, TypeOK
<1>2. /\ Head(queue) \in Events /\ Tail(queue) \in Seq(Events) /\ Head(queue) \in Mail(queue)
      /\ Mail(Tail(queue)) \subseteq Mail(queue)
  BY <1>1, MailPop
<1>3. Head(queue).to \in (Classes \X Sessions) \cup {Bnc} /\ Bnc[1] = "Bnc" /\ class # "Bnc"
  BY <1>2 DEF Events, Bnc, Classes
<1>4. Head(queue).to \in Classes \X Sessions
  BY <1>1, <1>3
<1>5. Head(queue).to = <<class, Receiver>> /\ Receiver \in Sessions
  BY <1>1, <1>4 DEF Receiver
<1> QED
  BY <1>1, <1>2, <1>3, <1>5

\* What a step of the worker for session s, other than a new connection, leaves
\* as it is: X are the sockets besides its own that it may have touched.
Serves(s, X) ==
    /\ s \in Sessions /\ UNCHANGED <<made, sockids>>
    /\ socketinfomap' \in [SockIds -> SocketInfos] /\ Kept(socketinfomap, socketinfomap')
    /\ Untouched(socketinfomap, socketinfomap', X \cup {client[s], server[s], identp[s]})
    /\ \A t \in Sessions \ {s} :
        /\ state'[t] = state[t] /\ sendqueue'[t] = sendqueue[t]
        /\ identreceived'[t] = identreceived[t] /\ identstr'[t] = identstr[t]
        /\ connected'[t] = connected[t] /\ tlsstate'[t] = tlsstate[t]
        /\ responsecatch'[t] = responsecatch[t]
    /\ Dead(s) => Dead(s)'
    /\ \/ queue' = Tail(queue) /\ queue # <<>> /\ Head(queue).type # "NEW"
       \/ queue' = queue /\ (Dead(s)' => Dead(s))

\* The sockets a handled event is about.
Sock == {Head(queue).sock}

LEMMA OpenPrime ==
    ASSUME socketinfomap \in [SockIds -> SocketInfos], socketinfomap' \in [SockIds -> SocketInfos],
           Kept(socketinfomap, socketinfomap')
    PROVE  \A x \in SockIds : x \in Open' => x \in Open
BY DEF Kept, Open

LEMMA MovesQueue ==
    ASSUME TypeInv, NEW x \in SockIds, Moves(x)
    PROVE  /\ x \in Open /\ socketinfomap[x].er # <<>>
           /\ \/ queue' = queue
              \/ \E e \in Events :
                    /\ queue' = Append(queue, e) /\ Mail(queue') = Mail(queue) \cup {e} /\ queue' \in Seq(Events)
                    /\ e.to = socketinfomap[x].er /\ e.sock = x /\ e.for = socketinfomap[x].for
                    /\ \/ e.type \in {"FAIL", "DISCONNECTED"} /\ socketinfomap'[x].type = "UNUSED"
                       \/ e.type = "CONNECTED" /\ socketinfomap'[x].type = "PLAIN" /\ socketinfomap[x].type = "CONNECTING"
                       \/ e.type = "SSL_SUCCESS" /\ socketinfomap'[x].type = "SSL" /\ socketinfomap[x].type = "SSL_NEG"
                       \/ /\ e.type = "DATA" /\ socketinfomap'[x].type = socketinfomap[x].type
                          /\ socketinfomap[x].type # "CONNECTING"
                          /\ (ServerFirst /\ Class(x) = "BncSession") => socketinfomap[x].first # NoSock
<1> DEFINE E(e, t) == /\ e \in Events
                      /\ queue' = Append(queue, e) /\ Mail(queue') = Mail(queue) \cup {e} /\ queue' \in Seq(Events)
                      /\ e.to = socketinfomap[x].er /\ e.sock = x /\ e.for = socketinfomap[x].for
                      /\ e.type = t
<1>1. x \in Open /\ socketinfomap[x].er # <<>> /\ queue \in Seq(Events)
  BY DEF Moves, Open, TypeInv, TypeOK
<1>2. ASSUME NEW t \in {"CONNECTED", "FAIL", "DISCONNECTED", "DATA", "SSL_SUCCESS"}, Pushes(x, t)
      PROVE  \E e \in Events : E(e, t)
  <2>1. PICK w \in Contents : queue' = Append(queue, Event(t, x, w))
    BY <1>2 DEF Pushes
  <2> DEFINE f == Event(t, x, w)
  <2>2. /\ f \in Events /\ f.type = t /\ f.to = socketinfomap[x].er /\ f.sock = x
        /\ f.for = socketinfomap[x].for
    BY <1>1, EventType
  <2>3. queue' \in Seq(Events) /\ Mail(queue') = Mail(queue) \cup {f}
    BY <1>1, <2>1, <2>2, MailPush
  <2> HIDE DEF f
  <2> QED
    BY <2>1, <2>2, <2>3 DEF f
<1> HIDE DEF E
<1>3. CASE queue' = queue
  BY <1>1, <1>3
<1>4. CASE socketinfomap'[x].type = "UNUSED" /\ \E t \in {"FAIL", "DISCONNECTED"} : Pushes(x, t)
  <2>1. PICK t \in {"FAIL", "DISCONNECTED"} : Pushes(x, t)
    BY <1>4
  <2>2. PICK e \in Events : E(e, t)
    BY <1>2, <2>1
  <2> QED
    BY <1>1, <1>4, <2>2 DEF E
<1>5. CASE socketinfomap[x].type = "CONNECTING" /\ socketinfomap'[x].type = "PLAIN" /\ Pushes(x, "CONNECTED")
  <2>1. PICK e \in Events : E(e, "CONNECTED")
    BY <1>2, <1>5
  <2> QED
    BY <1>1, <1>5, <2>1 DEF E
<1>6. CASE socketinfomap[x].type = "SSL_NEG" /\ socketinfomap'[x].type = "SSL" /\ Pushes(x, "SSL_SUCCESS")
  <2>1. PICK e \in Events : E(e, "SSL_SUCCESS")
    BY <1>2, <1>6
  <2> QED
    BY <1>1, <1>6, <2>1 DEF E
<1>7. CASE /\ socketinfomap'[x].type = socketinfomap[x].type /\ socketinfomap[x].type # "CONNECTING" /\ Pushes(x, "DATA")
           /\ (ServerFirst /\ Class(x) = "BncSession") => socketinfomap[x].first # NoSock
  <2>1. PICK e \in Events : E(e, "DATA")
    BY <1>2, <1>7
  <2> QED
    BY <1>1, <1>7, <2>1 DEF E
<1> QED
  BY <1>3, <1>4, <1>5, <1>6, <1>7 DEF Moves, Class

LEMMA MovesTypes ==
    ASSUME TypeInv, NEW x \in SockIds, Moves(x)
    PROVE  TypeInv'
<1> DEFINE a == socketinfomap[x]
           b == socketinfomap'[x]
<1>1. /\ socketinfomap \in [SockIds -> SocketInfos] /\ socketinfomap' = [socketinfomap EXCEPT ![x] = b]
      /\ b \in SocketInfos /\ IOStep /\ x \in Open /\ a.er # <<>>
      /\ b.type # "UNUSED" => b.er = a.er /\ b.for = a.for
      /\ queue \in Seq(Events)
  BY MapType, MovesQueue DEF Moves, TypeInv, TypeOK
<1>2. socketinfomap' \in [SockIds -> SocketInfos] /\ \A y \in SockIds : y # x => socketinfomap'[y] = socketinfomap[y]
  BY <1>1
<1>3. queue' \in Seq(Events) /\ \A e \in Mail(queue') : e \in Mail(queue) \/ e.sock = x
  BY <1>1, MovesQueue
<1>4. TypeOK'
  BY <1>1, <1>2, <1>3 DEF TypeInv, TypeOK, SocketInfos, IOStep, sessionVars, sockids, clientVars, identVars
<1>5. UNCHANGED <<made, state, client, server, identp>>
  BY <1>1 DEF IOStep, sessionVars, sockids
<1>6. Beyond'
  BY <1>5 DEF TypeInv, Beyond
<1>7. ASSUME NEW y \in SockIds, Pending(y)'
      PROVE  y # x /\ Pending(y) /\ socketinfomap'[y] = socketinfomap[y]
  BY <1>1, <1>2, <1>7 DEF Pending, Open
<1>8. Unclaimed(queue)'
  <2> SUFFICES ASSUME NEW y \in SockIds, Pending(y)'
               PROVE  /\ socketinfomap'[y] = New("LISTEN", <<>>, y) /\ ~Names(y)'
                      /\ \A e \in Mail(queue') : e.sock = y => e.type = "NEW"
    BY DEF Unclaimed
  <2> QED
    BY <1>3, <1>5, <1>7 DEF TypeInv, Unclaimed, Names
<1>9. Fors'
  BY <1>1, <1>2 DEF TypeInv, Fors, Open
<1> QED
  BY <1>4, <1>6, <1>8, <1>9 DEF TypeInv

LEMMA AcceptTypes ==
    ASSUME TypeInv, Accept
    PROVE  TypeInv'
<1> DEFINE c == Fresh
           e == [type |-> "NEW", to |-> Bnc, sock |-> c, what |-> "", for |-> c]
<1>1. /\ c \in SockIds /\ c \notin Open /\ socketinfomap[c].type = "UNUSED" /\ ~Names(c)
      /\ \A f \in Mail(queue) : f.sock # c
  BY FreshIds, FreshIsNew DEF Accept
<1>2. /\ socketinfomap' = [socketinfomap EXCEPT ![c] = New("LISTEN", <<>>, c)]
      /\ queue' = Append(queue, e) /\ IOStep
  BY DEF Accept, IOStep
<1>3. e \in Events
  BY <1>1 DEF Events, Contents
<1> HIDE DEF c
<1>4. New("LISTEN", <<>>, c) \in SocketInfos /\ New("LISTEN", <<>>, c).for = c /\ New("LISTEN", <<>>, c).er = <<>>
  BY <1>1 DEF New, Unused, SocketInfos
<1>5. /\ socketinfomap \in [SockIds -> SocketInfos] /\ socketinfomap' \in [SockIds -> SocketInfos]
      /\ socketinfomap'[c] = New("LISTEN", <<>>, c)
      /\ \A y \in SockIds : y # c => socketinfomap'[y] = socketinfomap[y]
  BY <1>1, <1>2, <1>4, MapType DEF TypeInv
<1>6. queue' \in Seq(Events) /\ Mail(queue') = Mail(queue) \cup {e}
  BY <1>2, <1>3, MailPush DEF TypeInv, TypeOK
<1>7. TypeOK'
  BY <1>2, <1>5, <1>6 DEF TypeInv, TypeOK, SocketInfos, IOStep, sessionVars, sockids, clientVars, identVars
<1>8. UNCHANGED <<made, state, client, server, identp>>
  BY <1>2 DEF IOStep, sessionVars, sockids
<1>9. Beyond'
  BY <1>8 DEF TypeInv, Beyond
<1>9a. e.type = "NEW" /\ e.sock = c
  OBVIOUS
<1> HIDE DEF e
<1>10. Unclaimed(queue)'
  <2> SUFFICES ASSUME NEW y \in SockIds, Pending(y)'
               PROVE  /\ socketinfomap'[y] = New("LISTEN", <<>>, y) /\ ~Names(y)'
                      /\ \A f \in Mail(queue') : f.sock = y => f.type = "NEW"
    BY DEF Unclaimed
  <2>1. CASE y = c
    BY <1>1, <1>5, <1>6, <1>8, <1>9a, <2>1 DEF Names
  <2>2. CASE y # c
    <3>1. Pending(y) /\ socketinfomap'[y] = socketinfomap[y]
      BY <1>5, <2>2 DEF Pending, Open
    <3> QED
      BY <1>6, <1>8, <1>9a, <2>2, <3>1 DEF TypeInv, Unclaimed, Names
  <2> QED
    BY <2>1, <2>2
<1>11. Fors'
  BY <1>1, <1>4, <1>5 DEF TypeInv, Fors, Open
<1> QED
  BY <1>7, <1>9, <1>10, <1>11 DEF TypeInv

\* Bnc::FDNew: session s, which is not in use, gets the connection c, and the ids
\* y for its server and (if Z is not empty) that in Z for its ident request.  The
\* calls that failed at once are in r.
Begins(s, c, y, Z, r) ==
    LET m == socketinfomap'
        Failure(e, x, class) ==
            /\ e.type = "FAIL" /\ e.to = <<class, s>> /\ e.sock = x /\ e.for = c /\ m[x].type = "UNUSED"
    IN
    /\ s \in Sessions /\ Dead(s) /\ c \in SockIds /\ y \in Free /\ y # c
    /\ Z \subseteq Free /\ y \notin Z /\ c \notin Z
    /\ m \in [SockIds -> SocketInfos]
    /\ m[c] = [socketinfomap[c] EXCEPT !.er = <<"BncSession", s>>]
    /\ m[y] = New("CONNECTING", <<"BncSessionClient", s>>, c) \/ m[y] = socketinfomap[y]
    /\ \A z \in Z : m[z] = New("CONNECTING", <<"Ident", s>>, c) \/ m[z] = socketinfomap[z]
    /\ \A x \in SockIds \ (Z \cup {c, y}) : m[x] = socketinfomap[x]
    /\ queue # <<>> /\ Head(queue).type = "NEW" /\ c = Head(queue).sock /\ Head(queue) \in Mail(queue)
    /\ r \in Seq(Events) /\ queue' = Tail(queue) \o r /\ Tail(queue) \in Seq(Events)
    /\ \A e \in Mail(r) :
        Failure(e, y, "BncSessionClient") \/ \E z \in Z : Failure(e, z, "Ident")
    /\ queue' \in Seq(Events) /\ Mail(queue') = Mail(Tail(queue)) \cup Mail(r)
    /\ Mail(Tail(queue)) \subseteq Mail(queue)
    /\ made' = IF s > made THEN s ELSE made
    /\ client' = [client EXCEPT ![s] = c] /\ server' = [server EXCEPT ![s] = y]
    /\ identp' = identp \/ \E z \in Z : identp' = [identp EXCEPT ![s] = z]
    /\ Z = {} => identp' = identp
    /\ \A z \in Z : identp' = [identp EXCEPT ![s] = z]
    /\ state' = [state EXCEPT ![s] = IF AsksIdent THEN "IDENT" ELSE "ESTABLISHED"]
    /\ connected' = [connected EXCEPT ![s] = FALSE]
    /\ tlsstate' = [tlsstate EXCEPT ![s] = "NONE"]
    /\ responsecatch' = [responsecatch EXCEPT ![s] = "NONE"]
    /\ identreceived' = [identreceived EXCEPT ![s] = ~AsksIdent /\ ~NoIdnt]
    /\ identstr' = [identstr EXCEPT ![s] = Nobody]
    /\ UNCHANGED <<sendqueue, aborted>>

LEMMA InactiveIsDead ==
    ASSUME TypeInv, FirstInactive <= MaxSessions
    PROVE  FirstInactive \in Sessions /\ Dead(FirstInactive)
<1>1. made \in 0 .. MaxSessions /\ MaxSessions \in Nat
  BY NumbersAssumption DEF TypeInv, TypeOK
<1>2. CASE Inactive = {}
  BY <1>1, <1>2 DEF FirstInactive, Sessions, TypeInv, Beyond, Dead
<1>3. CASE Inactive # {}
  <2> DEFINE R == {p \in Nat \X Nat : p[1] < p[2]}
  <2>1. Inactive \subseteq Nat
    BY <1>1 DEF Inactive
  <2>2. IsWellFoundedOn(R, Nat)
    BY NatLessThanWellFounded, Zenon DEF OpToRel
  <2>3. PICK t \in Inactive : \A u \in Inactive : ~(<<u, t>> \in R)
    <3> HIDE DEF R
    <3> QED
      BY <1>3, <2>1, <2>2, WFMin, Zenon
  <2>4. \A u \in Inactive : t <= u
    <3> SUFFICES ASSUME NEW u \in Inactive PROVE t <= u
      OBVIOUS
    <3>1. <<u, t>> \in Nat \X Nat
      BY <2>1
    <3>2. ~(<<u, t>>[1] < <<u, t>>[2])
      BY <2>3, <3>1
    <3> QED
      BY <2>1, <3>2
  <2>5. FirstInactive \in Inactive
    BY <1>3, <2>4 DEF FirstInactive
  <2> QED
    BY <1>1, <2>5 DEF Inactive, Sessions, Dead
<1> QED
  BY <1>2, <1>3

LEMMA MailOne == ASSUME NEW e \in Events PROVE <<e>> \in Seq(Events) /\ Mail(<<e>>) = {e}
BY DEF Mail

LEMMA MailThree ==
    ASSUME NEW p \in Seq(Events), NEW q \in Seq(Events), NEW r \in Seq(Events)
    PROVE  p \o q \o r = p \o (q \o r)
OBVIOUS

LEMMA NewBegins ==
    ASSUME TypeInv, HandleNew
    PROVE  \E s, c, y, Z, r : Begins(s, c, y, Z, r)
<1> DEFINE s == FirstInactive
           c == Head(queue).sock
           y == Fresh
           Z == IF AsksIdent THEN {Fresher} ELSE {}
           Failed(x, class) == [type |-> "FAIL", to |-> <<class, s>>, sock |-> x, what |-> "", for |-> c]
           Map(x, fails) ==
                 IF x = c THEN [socketinfomap[x] EXCEPT !.er = <<"BncSession", s>>]
                 ELSE IF x = y /\ y \notin fails THEN New("CONNECTING", <<"BncSessionClient", s>>, c)
                 ELSE IF x \in Z \ fails THEN New("CONNECTING", <<"Ident", s>>, c)
                 ELSE socketinfomap[x]
           r1(fails) == IF y \in fails THEN <<Failed(y, "BncSessionClient")>> ELSE <<>>
           r2(fails) == IF Z \cap fails # {} THEN <<Failed(Fresher, "Ident")>> ELSE <<>>
<1>1. s \in Sessions /\ Dead(s)
  BY InactiveIsDead DEF HandleNew
<1>2. /\ queue # <<>> /\ queue \in Seq(Events) /\ Head(queue).type = "NEW"
      /\ Head(queue) \in Events /\ Tail(queue) \in Seq(Events)
      /\ Head(queue) \in Mail(queue) /\ Mail(Tail(queue)) \subseteq Mail(queue)
  BY MailPop DEF HandleNew, At, TypeInv, TypeOK
<1>3. y \in Free /\ Z \subseteq Free /\ y \notin Z
  BY FreshIds DEF HandleNew
<1>4. /\ c \in SockIds /\ y \in SockIds /\ Z \subseteq SockIds
      /\ socketinfomap[y].type = "UNUSED" /\ \A z \in Z : socketinfomap[z].type = "UNUSED"
      /\ y # c /\ c \notin Z
  BY <1>2, <1>3, FreshIsNew DEF Events
<1>5. PICK fails \in SUBSET ({y} \cup Z) :
        /\ socketinfomap' = [x \in SockIds |-> Map(x, fails)]
        /\ queue' = Tail(queue) \o r1(fails) \o r2(fails)
  BY Zenon DEF HandleNew
<1> DEFINE r == r1(fails) \o r2(fails)
<1>6. /\ made' = IF s > made THEN s ELSE made
      /\ client' = [client EXCEPT ![s] = c] /\ server' = [server EXCEPT ![s] = y]
      /\ connected' = [connected EXCEPT ![s] = FALSE]
      /\ tlsstate' = [tlsstate EXCEPT ![s] = "NONE"]
      /\ responsecatch' = [responsecatch EXCEPT ![s] = "NONE"]
      /\ identreceived' = [identreceived EXCEPT ![s] = ~AsksIdent /\ ~NoIdnt]
      /\ identstr' = [identstr EXCEPT ![s] = Nobody]
      /\ UNCHANGED <<sendqueue, aborted>>
  BY DEF HandleNew
<1>7. /\ state' = [state EXCEPT ![s] = IF AsksIdent THEN "IDENT" ELSE "ESTABLISHED"]
      /\ (Z = {} => identp' = identp) /\ \A z \in Z : identp' = [identp EXCEPT ![s] = z]
  BY DEF HandleNew
<1>8. /\ Failed(y, "BncSessionClient") \in Events
      /\ \A z \in Z : Failed(z, "Ident") \in Events
      /\ Z # {} => Fresher \in Z
  BY <1>1, <1>4 DEF Events, Classes, Contents
<1> HIDE DEF s, c, y, Failed, Z, Map
<1>9. /\ r1(fails) \in Seq(Events)
      /\ \A e \in Mail(r1(fails)) : e = Failed(y, "BncSessionClient") /\ y \in fails
  BY <1>8, MailOne, MailEmpty
<1>10. /\ r2(fails) \in Seq(Events)
       /\ \A e \in Mail(r2(fails)) : e = Failed(Fresher, "Ident") /\ Z # {} /\ Fresher \in fails
  <2>1. CASE Z \cap fails = {}
    BY <2>1, MailEmpty
  <2>2. CASE Z \cap fails # {}
    <3>1. Fresher \in Z /\ Fresher \in fails /\ Z # {}
      BY <2>2 DEF Z
    <3> QED
      BY <1>8, <2>2, <3>1, MailOne
  <2> QED
    BY <2>1, <2>2
<1> HIDE DEF r1, r2
<1>11. queue' = Tail(queue) \o r /\ r \in Seq(Events) /\ Mail(r) = Mail(r1(fails)) \cup Mail(r2(fails))
  BY <1>2, <1>5, <1>9, <1>10, MailPlus, MailThree
<1>12. queue' \in Seq(Events) /\ Mail(queue') = Mail(Tail(queue)) \cup Mail(r)
  <2> HIDE DEF r
  <2> QED
    BY <1>2, <1>11, MailPlus
<1>13. ASSUME NEW e \in Mail(r)
       PROVE  \/ e = Failed(y, "BncSessionClient") /\ y \in fails
              \/ \E z \in Z : e = Failed(z, "Ident") /\ z \in fails
  BY <1>8, <1>9, <1>10, <1>11
<1>14. \A x \in SockIds : socketinfomap'[x] = Map(x, fails)
  BY <1>5
<1>15. /\ New("CONNECTING", <<"BncSessionClient", s>>, c) \in SocketInfos
       /\ New("CONNECTING", <<"Ident", s>>, c) \in SocketInfos
       /\ [socketinfomap[c] EXCEPT !.er = <<"BncSession", s>>] \in SocketInfos
  <2>1. socketinfomap[c] \in SocketInfos
    BY <1>4, MapType DEF TypeInv
  <2>2. {<<"BncSessionClient", s>>, <<"Ident", s>>, <<"BncSession", s>>} \subseteq Classes \X Sessions
    BY <1>1 DEF Classes
  <2> QED
    BY <1>4, <2>1, <2>2 DEF New, Unused, SocketInfos
<1>16. socketinfomap' \in [SockIds -> SocketInfos]
  BY <1>5, <1>15, MapType DEF TypeInv, Map
<1>17. /\ socketinfomap'[c] = [socketinfomap[c] EXCEPT !.er = <<"BncSession", s>>]
       /\ \/ socketinfomap'[y] = New("CONNECTING", <<"BncSessionClient", s>>, c) /\ y \notin fails
          \/ socketinfomap'[y] = socketinfomap[y]
       /\ y \in fails => socketinfomap'[y].type = "UNUSED"
  BY <1>3, <1>4, <1>14 DEF Map
<1>18. ASSUME NEW z \in Z
       PROVE  /\ socketinfomap'[z] = New("CONNECTING", <<"Ident", s>>, c) \/ socketinfomap'[z] = socketinfomap[z]
              /\ z \in fails => socketinfomap'[z].type = "UNUSED"
  BY <1>3, <1>4, <1>14 DEF Map
<1>19. \A x \in SockIds \ (Z \cup {c, y}) : socketinfomap'[x] = socketinfomap[x]
  BY <1>14 DEF Map
<1>20. ASSUME NEW e \in Mail(r)
       PROVE  \/ /\ e.type = "FAIL" /\ e.to = <<"BncSessionClient", s>> /\ e.sock = y /\ e.for = c
                 /\ socketinfomap'[y].type = "UNUSED"
              \/ \E z \in Z : /\ e.type = "FAIL" /\ e.to = <<"Ident", s>> /\ e.sock = z /\ e.for = c
                               /\ socketinfomap'[z].type = "UNUSED"
  <2>1. ASSUME NEW x, NEW class PROVE LET f == Failed(x, class) IN
          f.type = "FAIL" /\ f.to = <<class, s>> /\ f.sock = x /\ f.for = c
    BY DEF Failed
  <2>2. CASE e = Failed(y, "BncSessionClient") /\ y \in fails
    BY <1>17, <2>1, <2>2
  <2>3. CASE \E z \in Z : e = Failed(z, "Ident") /\ z \in fails
    BY <1>18, <2>1, <2>3
  <2> QED
    BY <1>13, <2>2, <2>3
<1>21. c = Head(queue).sock
  BY DEF c
<1> HIDE DEF r
<1>22. Begins(s, c, y, Z, r)
  <2>1. identp' = identp \/ \E z \in Z : identp' = [identp EXCEPT ![s] = z]
    BY <1>7
  <2>2. /\ s \in Sessions /\ Dead(s) /\ c \in SockIds /\ y \in Free /\ y # c
        /\ Z \subseteq Free /\ y \notin Z /\ c \notin Z
    BY <1>1, <1>3, <1>4
  <2>3. /\ socketinfomap'[y] = New("CONNECTING", <<"BncSessionClient", s>>, c)
            \/ socketinfomap'[y] = socketinfomap[y]
        /\ \A z \in Z : socketinfomap'[z] = New("CONNECTING", <<"Ident", s>>, c) \/ socketinfomap'[z] = socketinfomap[z]
    BY <1>17, <1>18
  <2> QED
    BY <1>2, <1>6, <1>7, <1>11, <1>12, <1>16, <1>17, <1>19, <1>20, <1>21, <2>1, <2>2, <2>3 DEF Begins
<1> QED
  BY <1>22

LEMMA NewFields ==
    ASSUME NEW type, NEW er, NEW c
    PROVE  LET n == New(type, er, c) IN
           n.type = type /\ n.er = er /\ n.for = c /\ ~n.closing /\ ~n.unsent /\ n.first = NoSock
BY DEF New, Unused

LEMMA NewTypes ==
    ASSUME TypeInv, HandleNew
    PROVE  TypeInv'
<1>1. PICK s, c, y, Z, r : Begins(s, c, y, Z, r)
  BY NewBegins
<1> DEFINE m == socketinfomap'
<1>2. /\ s \in Sessions /\ c \in SockIds /\ y \in Free /\ y # c /\ Z \subseteq Free /\ y \notin Z /\ c \notin Z
      /\ m \in [SockIds -> SocketInfos]
      /\ m[c] = [socketinfomap[c] EXCEPT !.er = <<"BncSession", s>>]
      /\ m[y] = New("CONNECTING", <<"BncSessionClient", s>>, c) \/ m[y] = socketinfomap[y]
      /\ \A z \in Z : m[z] = New("CONNECTING", <<"Ident", s>>, c) \/ m[z] = socketinfomap[z]
      /\ \A x \in SockIds \ (Z \cup {c, y}) : m[x] = socketinfomap[x]
  BY <1>1, Zenon DEF Begins
<1>3. /\ queue' \in Seq(Events)
      /\ \A e \in Mail(queue') : e \in Mail(queue) \/ e.sock \in Z \cup {y}
  BY <1>1 DEF Begins
<1>4. /\ made' = IF s > made THEN s ELSE made
      /\ client' = [client EXCEPT ![s] = c] /\ server' = [server EXCEPT ![s] = y]
      /\ identp' = identp \/ \E z \in Z : identp' = [identp EXCEPT ![s] = z]
      /\ state' = [state EXCEPT ![s] = IF AsksIdent THEN "IDENT" ELSE "ESTABLISHED"]
      /\ connected' = [connected EXCEPT ![s] = FALSE]
      /\ tlsstate' = [tlsstate EXCEPT ![s] = "NONE"]
      /\ responsecatch' = [responsecatch EXCEPT ![s] = "NONE"]
      /\ identreceived' = [identreceived EXCEPT ![s] = ~AsksIdent /\ ~NoIdnt]
      /\ identstr' = [identstr EXCEPT ![s] = Nobody]
      /\ Dead(s)
  BY <1>1, Zenon DEF Begins
<1>5. UNCHANGED <<sendqueue, aborted>>
  BY <1>1 DEF Begins
<1>6. /\ y \in SockIds /\ socketinfomap[y].type = "UNUSED" /\ Z \subseteq SockIds
      /\ \A z \in Z : socketinfomap[z].type = "UNUSED"
      /\ \A e \in Mail(queue) : e.sock \notin Z \cup {y}
  BY <1>2, FreshIsNew
<1>7. /\ active' \in [Sessions -> BOOLEAN] /\ pokes' \in SUBSET (Sessions \X SockIds)
  <2>1. AsksIdent => Fresher \in SockIds
    BY FreshIds, FreshIsNew DEF HandleNew
  <2>2. FirstInactive \in Sessions
    BY InactiveIsDead DEF HandleNew
  <2>3. /\ active' = active \/ active' = [active EXCEPT ![FirstInactive] = TRUE]
        /\ pokes' = pokes \/ (AsksIdent /\ pokes' = pokes \cup {<<FirstInactive, Fresher>>})
    BY DEF HandleNew, identVars
  <2>4. active \in [Sessions -> BOOLEAN] /\ pokes \in SUBSET (Sessions \X SockIds)
    BY DEF TypeInv, TypeOK
  <2>5. active' \in [Sessions -> BOOLEAN]
    BY <2>2, <2>3, <2>4
  <2>6. pokes' \in SUBSET (Sessions \X SockIds)
    <3>1. AsksIdent => <<FirstInactive, Fresher>> \in Sessions \X SockIds
      BY <2>1, <2>2
    <3>2. CASE pokes' = pokes
      BY <2>4, <3>2
    <3>3. CASE AsksIdent /\ pokes' = pokes \cup {<<FirstInactive, Fresher>>}
      BY <2>4, <3>1, <3>3
    <3> QED
      BY <2>3, <3>2, <3>3
  <2> QED
    BY <2>5, <2>6
<1>8. TypeOK'
  <2>1. made' \in 0 .. MaxSessions
    BY <1>2, <1>4, NumbersAssumption DEF TypeInv, TypeOK, Sessions
  <2>2. /\ state' \in [Sessions -> {"DISCONNECTED", "IDENT", "ESTABLISHED"}]
        /\ sendqueue' \in [Sessions -> Seq([what : Contents, for : SockIds])]
        /\ \A t \in Sessions : state'[t] # "IDENT" => sendqueue'[t] = <<>>
    BY <1>2, <1>4, <1>5 DEF TypeInv, TypeOK, Dead
  <2>3. /\ client' \in [Sessions -> SockIds \cup {NoSock}]
        /\ server' \in [Sessions -> SockIds \cup {NoSock}]
    BY <1>2, <1>4, <1>6 DEF TypeInv, TypeOK
  <2>6. identp' \in [Sessions -> SockIds \cup {NoSock}]
    <3>1. identp \in [Sessions -> SockIds \cup {NoSock}]
      BY DEF TypeInv, TypeOK
    <3>2. ASSUME NEW z \in Z, identp' = [identp EXCEPT ![s] = z] PROVE identp' \in [Sessions -> SockIds \cup {NoSock}]
      BY <1>2, <1>6, <3>1, <3>2
    <3> QED
      BY <1>4, <3>1, <3>2
  <2>4. /\ identreceived' \in [Sessions -> BOOLEAN]
        /\ identstr' \in [Sessions -> SockIds \cup {Nobody}]
        /\ connected' \in [Sessions -> BOOLEAN]
        /\ tlsstate' \in [Sessions -> {"NONE", "QUERY", "IN_PROGRESS", "ACTIVE"}]
        /\ responsecatch' \in [Sessions -> {"NONE", "AUTH_TLS"}]
    BY <1>2, <1>4 DEF TypeInv, TypeOK
  <2>5. aborted' \in BOOLEAN
    BY <1>5 DEF TypeInv, TypeOK
  <2> QED
    BY <1>2, <1>3, <1>7, <2>1, <2>2, <2>3, <2>4, <2>5, <2>6 DEF TypeOK, SocketInfos
<1>9. Beyond'
  <2>1. /\ made \in Nat /\ s \in Nat /\ made' \in Nat /\ made <= made' /\ s <= made'
        /\ state \in [Sessions -> {"DISCONNECTED", "IDENT", "ESTABLISHED"}]
    BY <1>2, <1>4, NumbersAssumption DEF Sessions, TypeInv, TypeOK
  <2>2. ASSUME NEW t \in Sessions, t > made' PROVE t > made /\ t # s
    BY <2>1, <2>2, NumbersAssumption DEF Sessions
  <2> QED
    BY <1>4, <2>1, <2>2 DEF TypeInv, Beyond
<1>10. Unclaimed(queue)'
  <2> SUFFICES ASSUME NEW x \in SockIds, Pending(x)'
               PROVE  /\ m[x] = New("LISTEN", <<>>, x) /\ ~Names(x)'
                      /\ \A e \in Mail(queue') : e.sock = x => e.type = "NEW"
    BY DEF Unclaimed
  <2>1. m[x].er = <<>> /\ m[x].type # "UNUSED"
    BY DEF Pending, Open
  <2>2. x # c
    BY <1>2, MapType, <2>1 DEF SocketInfos, TypeInv
  <2>3. x # y /\ x \notin Z
    BY <1>2, <1>6, <2>1, NewFields
  <2>4. Pending(x) /\ m[x] = socketinfomap[x]
    BY <1>2, <2>1, <2>2, <2>3 DEF Pending, Open
  <2>5. ~Names(x) /\ m[x] = New("LISTEN", <<>>, x) /\ \A e \in Mail(queue) : e.sock = x => e.type = "NEW"
    BY <2>4 DEF TypeInv, Unclaimed
  <2>6. ~Names(x)'
    BY <1>4, <2>2, <2>3, <2>5 DEF Names, TypeInv, TypeOK
  <2> QED
    BY <1>3, <2>3, <2>5, <2>6
<1>11. Fors'
  <2> SUFFICES ASSUME NEW x \in SockIds, m[x].type # "UNUSED" PROVE m[x].for \in SockIds
    BY DEF Fors, Open
  <2>1. CASE x = c
    BY <1>2, <2>1, MapType DEF SocketInfos, TypeInv, Fors, Open
  <2>2. CASE x \in Z \cup {y}
    BY <1>2, <1>6, <2>2, NewFields
  <2>3. CASE x \notin Z \cup {c, y}
    BY <1>2, <2>3 DEF TypeInv, Fors, Open
  <2> QED
    BY <2>1, <2>2, <2>3
<1> QED
  BY <1>8, <1>9, <1>10, <1>11 DEF TypeInv

LEMMA ServesTypes ==
    ASSUME TypeInv, TypeOK', NEW s, NEW X, Serves(s, X), \A x \in X : ~Pending(x)
    PROVE  TypeInv'
<1>1. /\ socketinfomap \in [SockIds -> SocketInfos] /\ socketinfomap' \in [SockIds -> SocketInfos]
      /\ Kept(socketinfomap, socketinfomap') /\ UNCHANGED <<made, client, server, identp>>
      /\ Untouched(socketinfomap, socketinfomap', X \cup {client[s], server[s], identp[s]})
      /\ s \in Sessions
  BY MapType DEF Serves, TypeInv, sockids
<1>2. Mail(queue') \subseteq Mail(queue)
  BY MailPop DEF Serves, TypeInv, TypeOK
<1>3. Beyond'
  <2>1. ASSUME NEW t \in Sessions, Dead(t) PROVE Dead(t)'
    BY <2>1 DEF Serves, Dead
  <2> QED
    BY <1>1, <2>1 DEF TypeInv, Beyond, Dead
<1>4. Fors'
  BY <1>1 DEF TypeInv, Fors, Open, Kept
<1>5. Unclaimed(queue)'
  <2> SUFFICES ASSUME NEW x \in SockIds, Pending(x)'
               PROVE  /\ socketinfomap'[x] = New("LISTEN", <<>>, x) /\ ~Names(x)'
                      /\ \A e \in Mail(queue') : e.sock = x => e.type = "NEW"
    BY DEF Unclaimed
  <2>1. Pending(x)
    BY <1>1 DEF Pending, Open, Kept
  <2>2. ~Names(x) /\ socketinfomap[x] = New("LISTEN", <<>>, x) /\ \A e \in Mail(queue) : e.sock = x => e.type = "NEW"
    BY <2>1 DEF TypeInv, Unclaimed
  <2>3. x \notin X \cup {client[s], server[s], identp[s]}
    BY <1>1, <2>1, <2>2 DEF Names
  <2> QED
    BY <1>1, <1>2, <2>2, <2>3 DEF Untouched, Names
<1> QED
  BY <1>3, <1>4, <1>5 DEF TypeInv

-----------------------------------------------------------------------------
(* What the parts of the handlers do.                                      *)

LEMMA EndDoes ==
    ASSUME TypeInv, NEW s \in Sessions, NEW other, End(s, other)
    PROVE  LET m == socketinfomap' IN
           /\ m \in [SockIds -> SocketInfos] /\ Kept(socketinfomap, m)
           /\ Untouched(socketinfomap, m, {other, identp[s]})
           /\ (other \in SockIds /\ m[other].type # "UNUSED") => m[other].closing
           /\ \A y \in SockIds : m[y].type # "UNUSED" =>
                m[y].first = socketinfomap[y].first /\ m[y].type = socketinfomap[y].type
           /\ state' = [state EXCEPT ![s] = "DISCONNECTED"] /\ sendqueue' = [sendqueue EXCEPT ![s] = <<>>]
           /\ active' \in [Sessions -> BOOLEAN] /\ pokes' \in SUBSET (Sessions \X SockIds)
<1> DEFINE n == CloseSocket(socketinfomap, other)
           k == CloseSocket(n, identp[s])
<1>1. socketinfomap \in [SockIds -> SocketInfos]
  BY MapType DEF TypeInv
<1>2. /\ n \in [SockIds -> SocketInfos] /\ Kept(socketinfomap, n) /\ Untouched(socketinfomap, n, {other})
      /\ (other \in SockIds /\ n[other].type # "UNUSED") => n[other].closing
      /\ \A y \in SockIds : n[y].type # "UNUSED" =>
            n[y].first = socketinfomap[y].first /\ n[y].type = socketinfomap[y].type
  BY <1>1, CloseSocketMap
<1>3. /\ state' = [state EXCEPT ![s] = "DISCONNECTED"] /\ sendqueue' = [sendqueue EXCEPT ![s] = <<>>]
      /\ \/ socketinfomap' = k /\ Deactivate(s)
         \/ socketinfomap' = n /\ UNCHANGED <<active, pokes>>
  BY Zenon DEF End, identVars
<1>4. active' \in [Sessions -> BOOLEAN] /\ pokes' \in SUBSET (Sessions \X SockIds)
  BY <1>3 DEF Deactivate, StopPoke, TypeInv, TypeOK
<1> HIDE DEF n
<1>5. /\ k \in [SockIds -> SocketInfos] /\ Kept(n, k) /\ Untouched(n, k, {identp[s]})
      /\ \A y \in SockIds : k[y].type # "UNUSED" => k[y].first = n[y].first /\ k[y].type = n[y].type
  BY <1>2, CloseSocketMap
<1> HIDE DEF k
<1>6. CASE socketinfomap' = n
  BY <1>2, <1>3, <1>4, <1>6 DEF Untouched
<1>7. CASE socketinfomap' = k
  <2>1. Kept(socketinfomap, k) /\ Untouched(socketinfomap, k, {other} \cup {identp[s]})
    BY <1>2, <1>5, KeptThen
  <2>2. (other \in SockIds /\ k[other].type # "UNUSED") => k[other].closing
    BY <1>2, <1>5 DEF Kept
  <2>3. \A y \in SockIds : k[y].type # "UNUSED" =>
            k[y].first = socketinfomap[y].first /\ k[y].type = socketinfomap[y].type
    BY <1>2, <1>5 DEF Kept
  <2>4. {other} \cup {identp[s]} = {other, identp[s]}
    OBVIOUS
  <2> QED
    BY <1>3, <1>4, <1>5, <1>7, <2>1, <2>2, <2>3, <2>4
<1> QED
  BY <1>3, <1>6, <1>7

\* An AUTH TLS is caught, or nothing is.
Queries(s) ==
    \/ UNCHANGED Tls
    \/ /\ tlsstate[s] = "NONE"
       /\ tlsstate' = [tlsstate EXCEPT ![s] = "QUERY"]
       /\ responsecatch' = [responsecatch EXCEPT ![s] = "AUTH_TLS"]

LEMMA QueryDoes ==
    ASSUME TypeInv, NEW s \in Sessions, NEW commands, Query(s, commands)
    PROVE  /\ Queries(s)
           /\ tlsstate' \in [Sessions -> {"NONE", "QUERY", "IN_PROGRESS", "ACTIVE"}]
           /\ responsecatch' \in [Sessions -> {"NONE", "AUTH_TLS"}]
           /\ \A t \in Sessions \ {s} : tlsstate'[t] = tlsstate[t] /\ responsecatch'[t] = responsecatch[t]
<1>1. Queries(s)
  BY DEF Query, Queries
<1> QED
  BY <1>1 DEF Queries, Tls, TypeInv, TypeOK

\* The session goes on, with the map m: its user is sent to a server that is
\* connected, and what waited.
Resumes(s, user, m) ==
    LET n == socketinfomap' IN
    /\ state[s] = "IDENT"
    /\ state' = [state EXCEPT ![s] = "ESTABLISHED"] /\ sendqueue' = [sendqueue EXCEPT ![s] = <<>>]
    /\ identstr' = [identstr EXCEPT ![s] = user] /\ identreceived' = [identreceived EXCEPT ![s] = TRUE]
    /\ n \in [SockIds -> SocketInfos] /\ Kept(m, n) /\ Untouched(m, n, {server[s]})
    /\ \A y \in SockIds : n[y].type = m[y].type /\ n[y].er = m[y].er /\ n[y].closing = m[y].closing
    /\ (connected[s] /\ server[s] \in SockIds /\ m[server[s]].type # "UNUSED") =>
            n[server[s]].first = IF m[server[s]].first = NoSock THEN user ELSE m[server[s]].first
    /\ (~connected[s] /\ sendqueue[s] = <<>>) => n = m
    /\ Queries(s)
    /\ tlsstate' \in [Sessions -> {"NONE", "QUERY", "IN_PROGRESS", "ACTIVE"}]
    /\ responsecatch' \in [Sessions -> {"NONE", "AUTH_TLS"}]
    /\ \A t \in Sessions \ {s} : tlsstate'[t] = tlsstate[t] /\ responsecatch'[t] = responsecatch[t]
\* or nothing is told to anyone.
Late(s, m) ==
    socketinfomap' = m /\ UNCHANGED <<state, sendqueue, identreceived, identstr, tlsstate, responsecatch>>

LEMMA IdentifiedDoes ==
    ASSUME TypeInv, NEW s \in Sessions, NEW user \in SockIds \cup {Nobody},
           NEW m \in [SockIds -> SocketInfos], Identified(s, user, m)
    PROVE  Resumes(s, user, m) \/ (state[s] # "IDENT" /\ Late(s, m))
<1>1. CASE state[s] # "IDENT"
  BY <1>1, Zenon DEF Identified, Late, sessionVars, Tls
<1>2. CASE state[s] = "IDENT"
  <2> DEFINE sent == IF connected[s] THEN SendData(m, server[s], user) ELSE m
             n == socketinfomap'
             commands == {sendqueue[s][i].what : i \in DOMAIN sendqueue[s]}
  <2>1. /\ state' = [state EXCEPT ![s] = "ESTABLISHED"] /\ sendqueue' = [sendqueue EXCEPT ![s] = <<>>]
        /\ identstr' = [identstr EXCEPT ![s] = user] /\ identreceived' = [identreceived EXCEPT ![s] = TRUE]
        /\ n = IF sendqueue[s] = <<>> THEN sent ELSE SendData(sent, server[s], Data)
        /\ Query(s, commands)
    BY <1>2, Zenon DEF Identified
  <2>2. user \in Values /\ Data \in Values
    BY DEF Values
  <2>3. /\ sent \in [SockIds -> SocketInfos] /\ Kept(m, sent) /\ Untouched(m, sent, {server[s]})
        /\ \A y \in SockIds : sent[y].type = m[y].type /\ sent[y].er = m[y].er /\ sent[y].closing = m[y].closing
        /\ (connected[s] /\ server[s] \in SockIds /\ m[server[s]].type # "UNUSED") =>
                sent[server[s]].first = IF m[server[s]].first = NoSock THEN user ELSE m[server[s]].first
    <3>1. CASE connected[s]
      <4> DEFINE x == server[s]
                 k == SendData(m, x, user)
      <4>1. /\ k \in [SockIds -> SocketInfos] /\ Kept(m, k) /\ Untouched(m, k, {x})
            /\ \A y \in SockIds : k[y].type = m[y].type /\ k[y].er = m[y].er /\ k[y].closing = m[y].closing
            /\ (x \in SockIds /\ m[x].type # "UNUSED") =>
                    k[x].first = IF m[x].first = NoSock THEN user ELSE m[x].first
        <5> HIDE DEF x
        <5> QED
          BY <2>2, SendDataMap
      <4>2. sent = k
        BY <3>1
      <4> HIDE DEF k, sent
      <4> QED
        BY <4>1, <4>2
    <3>2. CASE ~connected[s]
      BY <3>2, KeptSelf
    <3> QED
      BY <3>1, <3>2
  <2>4. ~connected[s] => sent = m
    OBVIOUS
  <2> HIDE DEF sent
  <2>5. /\ n \in [SockIds -> SocketInfos] /\ Kept(sent, n) /\ Untouched(sent, n, {server[s]})
        /\ \A y \in SockIds : n[y].type = sent[y].type /\ n[y].er = sent[y].er /\ n[y].closing = sent[y].closing
        /\ sendqueue[s] = <<>> => n = sent
    <3>1. CASE sendqueue[s] = <<>>
      BY <2>1, <2>3, <3>1, KeptSelf
    <3>2. CASE sendqueue[s] # <<>>
      <4>1. PICK p : p = sent
        OBVIOUS
      <4>2. PICK x : x = server[s]
        OBVIOUS
      <4>3. p \in [SockIds -> SocketInfos]
        BY <2>3, <4>1
      <4> DEFINE k == SendData(p, x, Data)
      <4>4. /\ k \in [SockIds -> SocketInfos] /\ Kept(p, k) /\ Untouched(p, k, {x})
            /\ \A y \in SockIds : k[y].type = p[y].type /\ k[y].er = p[y].er /\ k[y].closing = p[y].closing
        BY <4>3, SendOther
      <4>5. n = k
        BY <2>1, <3>2, <4>1, <4>2
      <4> HIDE DEF k, n
      <4> QED
        BY <3>2, <4>1, <4>2, <4>4, <4>5
    <3> QED
      BY <3>1, <3>2
  <2> HIDE DEF n
  <2>6. Kept(m, n) /\ Untouched(m, n, {server[s]} \cup {server[s]})
    BY <2>3, <2>5, KeptThen
  <2>7. \A y \in SockIds : n[y].type = m[y].type /\ n[y].er = m[y].er /\ n[y].closing = m[y].closing
    BY <2>3, <2>5
  <2>8. (connected[s] /\ server[s] \in SockIds /\ m[server[s]].type # "UNUSED") =>
            n[server[s]].first = IF m[server[s]].first = NoSock THEN user ELSE m[server[s]].first
    <3> SUFFICES ASSUME connected[s], server[s] \in SockIds, m[server[s]].type # "UNUSED"
                 PROVE  n[server[s]].first = IF m[server[s]].first = NoSock THEN user ELSE m[server[s]].first
      OBVIOUS
    <3>1. user # NoSock
      BY NumbersAssumption
    <3>2. sent[server[s]].first # NoSock /\ n[server[s]].type # "UNUSED"
      BY <2>3, <2>7, <3>1
    <3>3. n[server[s]].first = sent[server[s]].first
      BY <2>5, <3>2 DEF Kept
    <3> QED
      BY <2>3, <3>3
  <2>9. Untouched(m, n, {server[s]})
    BY <2>6 DEF Untouched
  <2>10. /\ Queries(s)
         /\ tlsstate' \in [Sessions -> {"NONE", "QUERY", "IN_PROGRESS", "ACTIVE"}]
         /\ responsecatch' \in [Sessions -> {"NONE", "AUTH_TLS"}]
         /\ \A t \in Sessions \ {s} : tlsstate'[t] = tlsstate[t] /\ responsecatch'[t] = responsecatch[t]
    <3> HIDE DEF commands
    <3> QED
      BY <2>1, QueryDoes
  <2>11. (~connected[s] /\ sendqueue[s] = <<>>) => n = m
    BY <2>4, <2>5
  <2>12. n = socketinfomap'
    BY DEF n
  <2> HIDE DEF commands
  <2>13. Resumes(s, user, m)
    BY <1>2, <2>1, <2>5, <2>6, <2>7, <2>8, <2>9, <2>10, <2>11, <2>12 DEF Resumes
  <2> QED
    BY <2>13
<1> QED
  BY <1>1, <1>2

-----------------------------------------------------------------------------
(* The handlers keep the types.                                            *)

\* A handler's event is taken from the queue; it is not of a connection that
\* waits for Bnc::FDNew.
LEMMA HandledHead ==
    ASSUME TypeInv, NEW t, NEW class \in Classes, At(t, class), t # "NEW"
    PROVE  /\ Receiver \in Sessions /\ Head(queue).sock \in SockIds /\ Head(queue).for \in SockIds
           /\ Head(queue).what \in Contents /\ \A x \in Sock : ~Pending(x)
<1>1. /\ Receiver \in Sessions /\ Head(queue) \in Events /\ Head(queue) \in Mail(queue)
      /\ Head(queue).type = t
  BY HeadType
<1>2. /\ Head(queue).sock \in SockIds /\ Head(queue).for \in SockIds /\ Head(queue).what \in Contents
  BY <1>1 DEF Events
<1> QED
  BY <1>1, <1>2 DEF Sock, TypeInv, Unclaimed

LEMMA HandledTypes ==
    ASSUME TypeInv, NEW t, NEW class \in Classes, At(t, class), t # "NEW", Handled
    PROVE  /\ UNCHANGED <<made, client, server, identp>>
           /\ queue' \in Seq(Events) /\ queue' = Tail(queue) /\ queue # <<>> /\ Head(queue).type # "NEW"
BY HeadType DEF Handled, sockids

LEMMA EndTypes ==
    ASSUME TypeInv, NEW s \in Sessions,
           state' = [state EXCEPT ![s] = "DISCONNECTED"], sendqueue' = [sendqueue EXCEPT ![s] = <<>>]
    PROVE  /\ state' \in [Sessions -> {"DISCONNECTED", "IDENT", "ESTABLISHED"}]
           /\ sendqueue' \in [Sessions -> Seq([what : Contents, for : SockIds])]
           /\ \A t \in Sessions : state'[t] # "IDENT" => sendqueue'[t] = <<>>
           /\ \A t \in Sessions \ {s} : state'[t] = state[t] /\ sendqueue'[t] = sendqueue[t]
           /\ Dead(s)'
<1>1. /\ state \in [Sessions -> {"DISCONNECTED", "IDENT", "ESTABLISHED"}]
      /\ sendqueue \in [Sessions -> Seq([what : Contents, for : SockIds])]
      /\ \A t \in Sessions : state[t] # "IDENT" => sendqueue[t] = <<>>
  BY DEF TypeInv, TypeOK
<1>2. <<>> \in Seq([what : Contents, for : SockIds])
  OBVIOUS
<1> QED
  BY <1>1, <1>2 DEF Dead

LEMMA ClientEndServes ==
    ASSUME TypeInv, HandleClientDisconnected
    PROVE  TypeOK' /\ \E s, X : s = Receiver /\ X = Sock /\ Serves(s, X)
<1> PICK s, X : s = Receiver /\ X = Sock
  OBVIOUS
<1>1. /\ At("DISCONNECTED", "BncSession") /\ End(s, server[s]) /\ Handled
      /\ connected' = [connected EXCEPT ![s] = FALSE]
      /\ UNCHANGED <<identreceived, identstr, tlsstate, responsecatch, aborted>>
  BY DEF HandleClientDisconnected, Tls
<1>2. "BncSession" \in Classes /\ s \in Sessions
  BY <1>1, HeadType DEF Classes
<1>3. /\ UNCHANGED <<made, client, server, identp>>
      /\ queue' \in Seq(Events) /\ queue' = Tail(queue) /\ queue # <<>> /\ Head(queue).type # "NEW"
  BY <1>1, <1>2, HandledTypes
<1>4. /\ socketinfomap' \in [SockIds -> SocketInfos] /\ Kept(socketinfomap, socketinfomap')
      /\ Untouched(socketinfomap, socketinfomap', {server[s], identp[s]})
      /\ state' = [state EXCEPT ![s] = "DISCONNECTED"] /\ sendqueue' = [sendqueue EXCEPT ![s] = <<>>]
      /\ active' \in [Sessions -> BOOLEAN] /\ pokes' \in SUBSET (Sessions \X SockIds)
  BY <1>1, <1>2, EndDoes
<1>5. /\ state' \in [Sessions -> {"DISCONNECTED", "IDENT", "ESTABLISHED"}]
      /\ sendqueue' \in [Sessions -> Seq([what : Contents, for : SockIds])]
      /\ \A t \in Sessions : state'[t] # "IDENT" => sendqueue'[t] = <<>>
      /\ \A t \in Sessions \ {s} : state'[t] = state[t] /\ sendqueue'[t] = sendqueue[t]
      /\ Dead(s)'
  BY <1>2, <1>4, EndTypes
<1>6. connected' \in [Sessions -> BOOLEAN] /\ \A t \in Sessions \ {s} : connected'[t] = connected[t]
  BY <1>1, <1>2 DEF TypeInv, TypeOK
<1>7. TypeOK'
  BY <1>1, <1>3, <1>4, <1>5, <1>6 DEF TypeInv, TypeOK, SocketInfos
<1>8. Serves(s, X)
  BY <1>1, <1>2, <1>3, <1>4, <1>5, <1>6 DEF Serves, Untouched, sockids
<1> QED
  BY <1>7, <1>8

LEMMA ServerEndServes ==
    ASSUME TypeInv, HandleServerDisconnected
    PROVE  TypeOK' /\ \E s, X : s = Receiver /\ X = Sock /\ Serves(s, X)
<1> PICK s, X : s = Receiver /\ X = Sock
  OBVIOUS
<1>1. /\ At("DISCONNECTED", "BncSessionClient") /\ End(s, client[s]) /\ Handled
      /\ connected' = [connected EXCEPT ![s] = FALSE]
      /\ UNCHANGED <<identreceived, identstr, tlsstate, responsecatch, aborted>>
  BY DEF HandleServerDisconnected, Tls
<1>2. "BncSessionClient" \in Classes /\ s \in Sessions
  BY <1>1, HeadType DEF Classes
<1>3. /\ UNCHANGED <<made, client, server, identp>>
      /\ queue' \in Seq(Events) /\ queue' = Tail(queue) /\ queue # <<>> /\ Head(queue).type # "NEW"
  BY <1>1, <1>2, HandledTypes
<1>4. /\ socketinfomap' \in [SockIds -> SocketInfos] /\ Kept(socketinfomap, socketinfomap')
      /\ Untouched(socketinfomap, socketinfomap', {client[s], identp[s]})
      /\ state' = [state EXCEPT ![s] = "DISCONNECTED"] /\ sendqueue' = [sendqueue EXCEPT ![s] = <<>>]
      /\ active' \in [Sessions -> BOOLEAN] /\ pokes' \in SUBSET (Sessions \X SockIds)
  BY <1>1, <1>2, EndDoes
<1>5. /\ state' \in [Sessions -> {"DISCONNECTED", "IDENT", "ESTABLISHED"}]
      /\ sendqueue' \in [Sessions -> Seq([what : Contents, for : SockIds])]
      /\ \A t \in Sessions : state'[t] # "IDENT" => sendqueue'[t] = <<>>
      /\ \A t \in Sessions \ {s} : state'[t] = state[t] /\ sendqueue'[t] = sendqueue[t]
      /\ Dead(s)'
  BY <1>2, <1>4, EndTypes
<1>6. connected' \in [Sessions -> BOOLEAN] /\ \A t \in Sessions \ {s} : connected'[t] = connected[t]
  BY <1>1, <1>2 DEF TypeInv, TypeOK
<1>7. TypeOK'
  BY <1>1, <1>3, <1>4, <1>5, <1>6 DEF TypeInv, TypeOK, SocketInfos
<1>8. Serves(s, X)
  BY <1>1, <1>2, <1>3, <1>4, <1>5, <1>6 DEF Serves, Untouched, sockids
<1> QED
  BY <1>7, <1>8

LEMMA ServerFailServes ==
    ASSUME TypeInv, HandleServerFail
    PROVE  TypeOK' /\ \E s, X : s = Receiver /\ X = Sock /\ Serves(s, X)
<1> PICK s, X : s = Receiver /\ X = Sock
  OBVIOUS
<1>1. /\ At("FAIL", "BncSessionClient") /\ End(s, client[s]) /\ Handled
      /\ UNCHANGED <<connected, identreceived, identstr, tlsstate, responsecatch, aborted>>
  BY DEF HandleServerFail, clientVars
<1>2. "BncSessionClient" \in Classes /\ s \in Sessions
  BY <1>1, HeadType DEF Classes
<1>3. /\ UNCHANGED <<made, client, server, identp>>
      /\ queue' \in Seq(Events) /\ queue' = Tail(queue) /\ queue # <<>> /\ Head(queue).type # "NEW"
  BY <1>1, <1>2, HandledTypes
<1>4. /\ socketinfomap' \in [SockIds -> SocketInfos] /\ Kept(socketinfomap, socketinfomap')
      /\ Untouched(socketinfomap, socketinfomap', {client[s], identp[s]})
      /\ state' = [state EXCEPT ![s] = "DISCONNECTED"] /\ sendqueue' = [sendqueue EXCEPT ![s] = <<>>]
      /\ active' \in [Sessions -> BOOLEAN] /\ pokes' \in SUBSET (Sessions \X SockIds)
  BY <1>1, <1>2, EndDoes
<1>5. /\ state' \in [Sessions -> {"DISCONNECTED", "IDENT", "ESTABLISHED"}]
      /\ sendqueue' \in [Sessions -> Seq([what : Contents, for : SockIds])]
      /\ \A t \in Sessions : state'[t] # "IDENT" => sendqueue'[t] = <<>>
      /\ \A t \in Sessions \ {s} : state'[t] = state[t] /\ sendqueue'[t] = sendqueue[t]
      /\ Dead(s)'
  BY <1>2, <1>4, EndTypes
<1>6. connected' \in [Sessions -> BOOLEAN] /\ \A t \in Sessions \ {s} : connected'[t] = connected[t]
  BY <1>1, <1>2 DEF TypeInv, TypeOK
<1>7. TypeOK'
  BY <1>1, <1>3, <1>4, <1>5, <1>6 DEF TypeInv, TypeOK, SocketInfos
<1>8. Serves(s, X)
  BY <1>1, <1>2, <1>3, <1>4, <1>5, <1>6 DEF Serves, Untouched, sockids
<1> QED
  BY <1>7, <1>8

LEMMA ServerConnectedServes ==
    ASSUME TypeInv, HandleServerConnected
    PROVE  TypeOK' /\ \E s, X : s = Receiver /\ X = Sock /\ Serves(s, X)
<1> PICK s, X : s = Receiver /\ X = Sock
  OBVIOUS
<1>1. /\ At("CONNECTED", "BncSessionClient") /\ Handled
      /\ connected' = [connected EXCEPT ![s] = TRUE]
      /\ \/ socketinfomap' = socketinfomap
         \/ socketinfomap' = SendData(socketinfomap, server[s], identstr[s])
      /\ UNCHANGED <<state, sendqueue, identreceived, identstr, tlsstate, responsecatch, active, pokes, aborted>>
  BY DEF HandleServerConnected, sessionVars, identVars, Tls
<1>2. /\ "BncSessionClient" \in Classes /\ s \in Sessions
      /\ Head(queue).sock \in SockIds /\ Head(queue).for \in SockIds /\ Head(queue).what \in Contents
  BY <1>1, HandledHead DEF Classes
<1>3. /\ UNCHANGED <<made, client, server, identp>>
      /\ queue' \in Seq(Events) /\ queue' = Tail(queue) /\ queue # <<>> /\ Head(queue).type # "NEW"
  BY <1>1, <1>2, HandledTypes
<1>4. /\ socketinfomap' \in [SockIds -> SocketInfos] /\ Kept(socketinfomap, socketinfomap')
      /\ Untouched(socketinfomap, socketinfomap', {server[s]})
  <2>1. PICK m, x, u : m = socketinfomap /\ x = server[s] /\ u = identstr[s]
    OBVIOUS
  <2>2. m \in [SockIds -> SocketInfos] /\ u \in Values
    BY <1>2, <2>1, MapType DEF TypeInv, TypeOK, Values
  <2>3. socketinfomap' = m \/ socketinfomap' = SendData(m, x, u)
    BY <1>1, <2>1
  <2>4. CASE socketinfomap' = m
    BY <2>1, <2>2, <2>4, KeptSelf
  <2>5. CASE socketinfomap' = SendData(m, x, u)
    <3> DEFINE n == SendData(m, x, u)
    <3>1. n \in [SockIds -> SocketInfos] /\ Kept(m, n) /\ Untouched(m, n, {x})
      BY <2>2, SendDataMap
    <3> HIDE DEF n
    <3>2. socketinfomap' = n
      BY <2>5 DEF n
    <3> QED
      BY <2>1, <3>1, <3>2
  <2> QED
    BY <2>3, <2>4, <2>5
<1>5. connected' \in [Sessions -> BOOLEAN] /\ \A t \in Sessions \ {s} : connected'[t] = connected[t]
  BY <1>1, <1>2 DEF TypeInv, TypeOK
<1>6. TypeOK'
  BY <1>1, <1>3, <1>4, <1>5 DEF TypeInv, TypeOK, SocketInfos
<1>7. Serves(s, X)
  BY <1>1, <1>2, <1>3, <1>4, <1>5 DEF Serves, Untouched, sockids, Dead
<1> QED
  BY <1>6, <1>7

LEMMA ClientDataServes ==
    ASSUME TypeInv, HandleClientData
    PROVE  TypeOK' /\ \E s, X : s = Receiver /\ X = Sock /\ Serves(s, X)
<1> PICK s, X : s = Receiver /\ X = Sock
  OBVIOUS
<1>1. /\ At("DATA", "BncSession") /\ Handled
      /\ \/ /\ state[s] = "IDENT" /\ UNCHANGED <<tlsstate, responsecatch, socketinfomap, aborted>>
            /\ sendqueue' = [sendqueue EXCEPT ![s] =
                    Append(@, [what |-> Head(queue).what, for |-> Head(queue).for])]
         \/ /\ state[s] = "ESTABLISHED" /\ Query(s, {Head(queue).what}) /\ UNCHANGED sendqueue
            /\ socketinfomap' = SendData(socketinfomap, server[s], Data)
            /\ aborted' = (aborted \/ ~(identreceived[s] \/ NoIdnt))
         \/ UNCHANGED <<sendqueue, tlsstate, responsecatch, socketinfomap, aborted>>
      /\ UNCHANGED <<state, identreceived, identstr, connected, active, pokes>>
  BY DEF HandleClientData, identVars, Tls
<1>2. /\ "BncSession" \in Classes /\ s \in Sessions
      /\ Head(queue).sock \in SockIds /\ Head(queue).for \in SockIds /\ Head(queue).what \in Contents
  BY <1>1, HandledHead DEF Classes
<1>3. /\ UNCHANGED <<made, client, server, identp>>
      /\ queue' \in Seq(Events) /\ queue' = Tail(queue) /\ queue # <<>> /\ Head(queue).type # "NEW"
  BY <1>1, <1>2, HandledTypes
<1>4. /\ socketinfomap' \in [SockIds -> SocketInfos] /\ Kept(socketinfomap, socketinfomap')
      /\ Untouched(socketinfomap, socketinfomap', {server[s]})
  <2>1. PICK m, x : m = socketinfomap /\ x = server[s]
    OBVIOUS
  <2>2. m \in [SockIds -> SocketInfos]
    BY <2>1, MapType DEF TypeInv
  <2>3. socketinfomap' = m \/ socketinfomap' = SendData(m, x, Data)
    BY <1>1, <2>1
  <2>4. CASE socketinfomap' = m
    BY <2>1, <2>2, <2>4, KeptSelf
  <2>5. CASE socketinfomap' = SendData(m, x, Data)
    <3> DEFINE n == SendData(m, x, Data)
    <3>1. n \in [SockIds -> SocketInfos] /\ Kept(m, n) /\ Untouched(m, n, {x})
      BY <2>2, SendOther
    <3> HIDE DEF n
    <3>2. socketinfomap' = n
      BY <2>5 DEF n
    <3> QED
      BY <2>1, <3>1, <3>2
  <2> QED
    BY <2>3, <2>4, <2>5
<1>5. /\ tlsstate' \in [Sessions -> {"NONE", "QUERY", "IN_PROGRESS", "ACTIVE"}]
      /\ responsecatch' \in [Sessions -> {"NONE", "AUTH_TLS"}]
      /\ \A t \in Sessions \ {s} : tlsstate'[t] = tlsstate[t] /\ responsecatch'[t] = responsecatch[t]
  <2>1. CASE UNCHANGED <<tlsstate, responsecatch>>
    BY <2>1 DEF TypeInv, TypeOK
  <2>2. CASE Query(s, {Head(queue).what})
    BY <1>2, <2>2, QueryDoes
  <2> QED
    BY <1>1, <2>1, <2>2
<1>6. /\ sendqueue' \in [Sessions -> Seq([what : Contents, for : SockIds])]
      /\ \A t \in Sessions : state[t] # "IDENT" => sendqueue'[t] = <<>>
      /\ \A t \in Sessions \ {s} : sendqueue'[t] = sendqueue[t]
  <2>1. /\ sendqueue \in [Sessions -> Seq([what : Contents, for : SockIds])]
        /\ \A t \in Sessions : state[t] # "IDENT" => sendqueue[t] = <<>>
    BY DEF TypeInv, TypeOK
  <2>2. [what |-> Head(queue).what, for |-> Head(queue).for] \in [what : Contents, for : SockIds]
    BY <1>2
  <2>3. CASE UNCHANGED sendqueue
    BY <2>1, <2>3
  <2>4. CASE /\ state[s] = "IDENT"
             /\ sendqueue' = [sendqueue EXCEPT ![s] =
                    Append(@, [what |-> Head(queue).what, for |-> Head(queue).for])]
    <3>1. PICK b : b = [what |-> Head(queue).what, for |-> Head(queue).for]
      OBVIOUS
    <3>2. Append(sendqueue[s], b) \in Seq([what : Contents, for : SockIds])
      <4> DEFINE Blocks == [what : Contents, for : SockIds]
      <4>1. b \in Blocks /\ sendqueue[s] \in Seq(Blocks)
        BY <1>2, <2>1, <2>2, <3>1
      <4> HIDE DEF Blocks
      <4>2. Append(sendqueue[s], b) \in Seq(Blocks)
        BY <4>1
      <4> QED
        BY <4>2 DEF Blocks
    <3>3. sendqueue' = [sendqueue EXCEPT ![s] = Append(sendqueue[s], b)]
      BY <2>4, <3>1
    <3> QED
      BY <1>2, <2>1, <2>4, <3>2, <3>3
  <2> QED
    BY <1>1, <2>3, <2>4
<1>7. aborted' \in BOOLEAN
  BY <1>1 DEF TypeInv, TypeOK
<1>8. TypeOK'
  BY <1>1, <1>3, <1>4, <1>5, <1>6, <1>7 DEF TypeInv, TypeOK, SocketInfos
<1>9. Serves(s, X)
  BY <1>1, <1>2, <1>3, <1>4, <1>5, <1>6 DEF Serves, Untouched, sockids, Dead
<1> QED
  BY <1>8, <1>9

\* A reply is passed on to c, and the handshakes begin with c and h.
Begun(m, n, c, h) ==
    /\ n \in [SockIds -> SocketInfos] /\ Kept(m, n) /\ Untouched(m, n, {c, h})
    /\ \A y \in SockIds :
        /\ n[y].er = m[y].er /\ n[y].closing = m[y].closing
        /\ n[y].type = IF y \in {c, h} /\ m[y].type \in {"LISTEN", "PLAIN"} THEN "SSL_NEG" ELSE m[y].type
        /\ y # c => n[y].first = m[y].first

LEMMA SecureMap ==
    ASSUME NEW m \in [SockIds -> SocketInfos], NEW c, NEW h
    PROVE  Begun(m, Negotiate(Negotiate(SendData(m, c, Data), c), h), c, h)
<1> DEFINE f == SendData(m, c, Data)
           g == Negotiate(f, c)
           n == Negotiate(g, h)
           Sec(t) == IF t \in {"LISTEN", "PLAIN"} THEN "SSL_NEG" ELSE t
<1>1. /\ f \in [SockIds -> SocketInfos] /\ Kept(m, f) /\ Untouched(m, f, {c})
      /\ \A y \in SockIds : f[y].type = m[y].type /\ f[y].er = m[y].er /\ f[y].closing = m[y].closing
  BY SendOther
<1> HIDE DEF f
<1>2. /\ g \in [SockIds -> SocketInfos] /\ Kept(f, g) /\ Untouched(f, g, {c})
      /\ \A y \in SockIds : g[y].first = f[y].first /\ g[y].closing = f[y].closing /\ g[y].er = f[y].er
      /\ c \in SockIds => g[c].type = Sec(f[c].type)
  <2>1. ASSUME NEW u \in [SockIds -> SocketInfos]
        PROVE  LET v == Negotiate(u, c) IN
               /\ v \in [SockIds -> SocketInfos] /\ Kept(u, v) /\ Untouched(u, v, {c})
               /\ \A y \in SockIds : v[y].first = u[y].first /\ v[y].closing = u[y].closing /\ v[y].er = u[y].er
               /\ c \in SockIds => v[c].type = IF u[c].type \in {"LISTEN", "PLAIN"} THEN "SSL_NEG" ELSE u[c].type
    BY NegotiateMap, Zenon
  <2>2. f \in [SockIds -> SocketInfos]
    BY <1>1
  <2> QED
    BY <2>1, <2>2 DEF g
<1> HIDE DEF g
<1>3. /\ n \in [SockIds -> SocketInfos] /\ Kept(g, n) /\ Untouched(g, n, {h})
      /\ \A y \in SockIds : n[y].first = g[y].first /\ n[y].closing = g[y].closing /\ n[y].er = g[y].er
      /\ h \in SockIds => n[h].type = Sec(g[h].type)
  <2>1. ASSUME NEW u \in [SockIds -> SocketInfos]
        PROVE  LET v == Negotiate(u, h) IN
               /\ v \in [SockIds -> SocketInfos] /\ Kept(u, v) /\ Untouched(u, v, {h})
               /\ \A y \in SockIds : v[y].first = u[y].first /\ v[y].closing = u[y].closing /\ v[y].er = u[y].er
               /\ h \in SockIds => v[h].type = IF u[h].type \in {"LISTEN", "PLAIN"} THEN "SSL_NEG" ELSE u[h].type
    BY NegotiateMap, Zenon
  <2>2. g \in [SockIds -> SocketInfos]
    BY <1>2
  <2> QED
    BY <2>1, <2>2 DEF n
<1> HIDE DEF n
<1>4. Kept(m, g) /\ Untouched(m, g, {c} \cup {c})
  BY <1>1, <1>2, KeptThen
<1>5. Kept(m, n) /\ Untouched(m, n, ({c} \cup {c}) \cup {h})
  BY <1>3, <1>4, KeptThen
<1>6. Untouched(m, n, {c, h})
  BY <1>5 DEF Untouched
<1>7. ASSUME NEW y \in SockIds
      PROVE  n[y].type = IF y \in {c, h} /\ m[y].type \in {"LISTEN", "PLAIN"} THEN "SSL_NEG" ELSE m[y].type
  <2>1. g[y].type = IF y = c THEN Sec(m[y].type) ELSE m[y].type
    BY <1>1, <1>2 DEF Untouched
  <2>2. n[y].type = IF y = h THEN Sec(g[y].type) ELSE g[y].type
    BY <1>3 DEF Untouched
  <2> QED
    BY <2>1, <2>2
<1>8. \A y \in SockIds : y # c => n[y].first = m[y].first
  BY <1>1, <1>2, <1>3 DEF Untouched
<1> QED
  <2>1. Begun(m, n, c, h)
    BY <1>1, <1>2, <1>3, <1>5, <1>6, <1>7, <1>8 DEF Begun
  <2> QED
    BY <2>1 DEF f, g, n

LEMMA ServerDataServes ==
    ASSUME TypeInv, HandleServerData
    PROVE  TypeOK' /\ \E s, X : s = Receiver /\ X = Sock /\ Serves(s, X)
<1> PICK s, X : s = Receiver /\ X = Sock
  OBVIOUS
<1>1. /\ At("DATA", "BncSessionClient") /\ Handled
      /\ responsecatch' = [responsecatch EXCEPT ![s] = "NONE"]
      /\ \/ /\ tlsstate' = [tlsstate EXCEPT ![s] = "IN_PROGRESS"]
            /\ socketinfomap' =
                    Negotiate(Negotiate(SendData(socketinfomap, client[s], Data), client[s]), Head(queue).sock)
         \/ tlsstate' = tlsstate /\ socketinfomap' = SendData(socketinfomap, client[s], Data)
      /\ UNCHANGED <<state, sendqueue, identreceived, identstr, connected, active, pokes, aborted>>
  BY DEF HandleServerData, sessionVars, identVars
<1>2. /\ "BncSessionClient" \in Classes /\ s \in Sessions
      /\ Head(queue).sock \in SockIds /\ Head(queue).for \in SockIds /\ Head(queue).what \in Contents
  BY <1>1, HandledHead DEF Classes
<1>3. /\ UNCHANGED <<made, client, server, identp>>
      /\ queue' \in Seq(Events) /\ queue' = Tail(queue) /\ queue # <<>> /\ Head(queue).type # "NEW"
  BY <1>1, <1>2, HandledTypes
<1>4. /\ socketinfomap' \in [SockIds -> SocketInfos] /\ Kept(socketinfomap, socketinfomap')
      /\ Untouched(socketinfomap, socketinfomap', {client[s], Head(queue).sock})
  <2>1. PICK m, x, h : m = socketinfomap /\ x = client[s] /\ h = Head(queue).sock
    OBVIOUS
  <2>2. m \in [SockIds -> SocketInfos]
    BY <2>1, MapType DEF TypeInv
  <2> DEFINE n == Negotiate(Negotiate(SendData(m, x, Data), x), h)
             k == SendData(m, x, Data)
  <2>3. socketinfomap' = n \/ socketinfomap' = k
    BY <1>1, <2>1
  <2>4. n \in [SockIds -> SocketInfos] /\ Kept(m, n) /\ Untouched(m, n, {x, h})
    <3>1. Begun(m, n, x, h)
      BY <2>2, SecureMap
    <3> HIDE DEF n
    <3> QED
      BY <3>1 DEF Begun
  <2>5. k \in [SockIds -> SocketInfos] /\ Kept(m, k) /\ Untouched(m, k, {x})
    BY <2>2, SendOther
  <2> HIDE DEF n, k
  <2> QED
    BY <2>1, <2>3, <2>4, <2>5 DEF Untouched
<1>5. /\ tlsstate' \in [Sessions -> {"NONE", "QUERY", "IN_PROGRESS", "ACTIVE"}]
      /\ responsecatch' \in [Sessions -> {"NONE", "AUTH_TLS"}]
      /\ \A t \in Sessions \ {s} : tlsstate'[t] = tlsstate[t] /\ responsecatch'[t] = responsecatch[t]
  BY <1>1, <1>2 DEF TypeInv, TypeOK
<1>6. TypeOK'
  BY <1>1, <1>3, <1>4, <1>5 DEF TypeInv, TypeOK, SocketInfos
<1>7. X = {Head(queue).sock}
  BY DEF Sock
<1>8. Serves(s, X)
  BY <1>1, <1>2, <1>3, <1>4, <1>5, <1>7 DEF Serves, Untouched, sockids, Dead
<1> QED
  BY <1>6, <1>8

LEMMA ServerSSLServes ==
    ASSUME TypeInv, HandleServerSSL
    PROVE  TypeOK' /\ \E s, X : s = Receiver /\ X = Sock /\ Serves(s, X)
<1> PICK s, X : s = Receiver /\ X = Sock
  OBVIOUS
<1>1. /\ At("SSL_SUCCESS", "BncSessionClient") /\ Handled
      /\ tlsstate' = [tlsstate EXCEPT ![s] = "ACTIVE"]
      /\ aborted' = (aborted \/ tlsstate[s] # "IN_PROGRESS")
      /\ UNCHANGED <<state, sendqueue, identreceived, identstr, connected, responsecatch, active, pokes,
                     socketinfomap>>
  BY DEF HandleServerSSL, sessionVars, identVars
<1>2. /\ "BncSessionClient" \in Classes /\ s \in Sessions
      /\ Head(queue).sock \in SockIds /\ Head(queue).for \in SockIds /\ Head(queue).what \in Contents
  BY <1>1, HandledHead DEF Classes
<1>3. /\ UNCHANGED <<made, client, server, identp>>
      /\ queue' \in Seq(Events) /\ queue' = Tail(queue) /\ queue # <<>> /\ Head(queue).type # "NEW"
  BY <1>1, <1>2, HandledTypes
<1>4. /\ socketinfomap' \in [SockIds -> SocketInfos] /\ Kept(socketinfomap, socketinfomap')
      /\ Untouched(socketinfomap, socketinfomap', {server[s]})
  BY <1>1, MapType, KeptSelf DEF TypeInv
<1>5. /\ tlsstate' \in [Sessions -> {"NONE", "QUERY", "IN_PROGRESS", "ACTIVE"}] /\ aborted' \in BOOLEAN
      /\ \A t \in Sessions \ {s} : tlsstate'[t] = tlsstate[t]
  BY <1>1, <1>2 DEF TypeInv, TypeOK
<1>6. TypeOK'
  BY <1>1, <1>3, <1>4, <1>5 DEF TypeInv, TypeOK, SocketInfos
<1>7. Serves(s, X)
  BY <1>1, <1>2, <1>3, <1>4, <1>5 DEF Serves, Untouched, sockids, Dead
<1> QED
  BY <1>6, <1>7

LEMMA ClientSSLServes ==
    ASSUME TypeInv, HandleClientSSL
    PROVE  TypeOK' /\ \E s, X : s = Receiver /\ X = Sock /\ Serves(s, X)
<1> PICK s, X : s = Receiver /\ X = Sock
  OBVIOUS
<1>1. /\ At("SSL_SUCCESS", "BncSession") /\ Handled
      /\ UNCHANGED <<state, sendqueue, identreceived, identstr, connected, tlsstate, responsecatch, active,
                     pokes, socketinfomap, aborted>>
  BY DEF HandleClientSSL, sessionVars, clientVars, identVars
<1>2. /\ "BncSession" \in Classes /\ s \in Sessions
      /\ Head(queue).sock \in SockIds /\ Head(queue).for \in SockIds /\ Head(queue).what \in Contents
  BY <1>1, HandledHead DEF Classes
<1>3. /\ UNCHANGED <<made, client, server, identp>>
      /\ queue' \in Seq(Events) /\ queue' = Tail(queue) /\ queue # <<>> /\ Head(queue).type # "NEW"
  BY <1>1, <1>2, HandledTypes
<1>4. /\ socketinfomap' \in [SockIds -> SocketInfos] /\ Kept(socketinfomap, socketinfomap')
      /\ Untouched(socketinfomap, socketinfomap', {server[s]})
  BY <1>1, MapType, KeptSelf DEF TypeInv
<1>5. TypeOK'
  BY <1>1, <1>3, <1>4 DEF TypeInv, TypeOK, SocketInfos
<1>6. Serves(s, X)
  BY <1>1, <1>2, <1>3, <1>4 DEF Serves, Untouched, sockids, Dead
<1> QED
  BY <1>5, <1>6

LEMMA IdentConnectedServes ==
    ASSUME TypeInv, HandleIdentConnected
    PROVE  TypeOK' /\ \E s, X : s = Receiver /\ X = Sock /\ Serves(s, X)
<1> PICK s, X : s = Receiver /\ X = Sock
  OBVIOUS
<1>1. /\ At("CONNECTED", "Ident") /\ Handled
      /\ socketinfomap' = SendData(socketinfomap, Head(queue).sock, Data)
      /\ UNCHANGED <<state, sendqueue, identreceived, identstr, connected, tlsstate, responsecatch, active,
                     pokes, aborted>>
  BY DEF HandleIdentConnected, sessionVars, clientVars, identVars
<1>2. /\ "Ident" \in Classes /\ s \in Sessions
      /\ Head(queue).sock \in SockIds /\ Head(queue).for \in SockIds /\ Head(queue).what \in Contents
  BY <1>1, HandledHead DEF Classes
<1>3. /\ UNCHANGED <<made, client, server, identp>>
      /\ queue' \in Seq(Events) /\ queue' = Tail(queue) /\ queue # <<>> /\ Head(queue).type # "NEW"
  BY <1>1, <1>2, HandledTypes
<1>4. /\ socketinfomap' \in [SockIds -> SocketInfos] /\ Kept(socketinfomap, socketinfomap')
      /\ Untouched(socketinfomap, socketinfomap', {Head(queue).sock})
  <2>1. PICK m, x : m = socketinfomap /\ x = Head(queue).sock
    OBVIOUS
  <2>2. m \in [SockIds -> SocketInfos]
    BY <2>1, MapType DEF TypeInv
  <2> DEFINE n == SendData(m, x, Data)
  <2>3. n \in [SockIds -> SocketInfos] /\ Kept(m, n) /\ Untouched(m, n, {x})
    BY <2>2, SendOther
  <2>4. socketinfomap' = n
    BY <1>1, <2>1
  <2> HIDE DEF n
  <2> QED
    BY <2>1, <2>3, <2>4
<1>5. TypeOK'
  BY <1>1, <1>3, <1>4 DEF TypeInv, TypeOK, SocketInfos
<1>6. X = {Head(queue).sock}
  BY DEF Sock
<1>7. Serves(s, X)
  BY <1>1, <1>2, <1>3, <1>4, <1>6 DEF Serves, Untouched, sockids, Dead
<1> QED
  BY <1>5, <1>7

LEMMA IdentifiedTypes ==
    ASSUME TypeInv, NEW s \in Sessions, NEW user \in SockIds \cup {Nobody},
           NEW m \in [SockIds -> SocketInfos], Identified(s, user, m) \/ Late(s, m)
    PROVE  /\ socketinfomap' \in [SockIds -> SocketInfos] /\ Kept(m, socketinfomap')
           /\ Untouched(m, socketinfomap', {server[s]})
           /\ state' \in [Sessions -> {"DISCONNECTED", "IDENT", "ESTABLISHED"}]
           /\ sendqueue' \in [Sessions -> Seq([what : Contents, for : SockIds])]
           /\ \A t \in Sessions : state'[t] # "IDENT" => sendqueue'[t] = <<>>
           /\ identreceived' \in [Sessions -> BOOLEAN] /\ identstr' \in [Sessions -> SockIds \cup {Nobody}]
           /\ tlsstate' \in [Sessions -> {"NONE", "QUERY", "IN_PROGRESS", "ACTIVE"}]
           /\ responsecatch' \in [Sessions -> {"NONE", "AUTH_TLS"}]
           /\ \A t \in Sessions \ {s} :
                /\ state'[t] = state[t] /\ sendqueue'[t] = sendqueue[t]
                /\ identreceived'[t] = identreceived[t] /\ identstr'[t] = identstr[t]
                /\ tlsstate'[t] = tlsstate[t] /\ responsecatch'[t] = responsecatch[t]
           /\ Dead(s) <=> Dead(s)'
<1>1. CASE Late(s, m)
  BY <1>1, KeptSelf DEF Late, TypeInv, TypeOK, Dead
<1>2. CASE Resumes(s, user, m)
  <2>1. /\ state[s] = "IDENT"
        /\ state' = [state EXCEPT ![s] = "ESTABLISHED"] /\ sendqueue' = [sendqueue EXCEPT ![s] = <<>>]
        /\ identstr' = [identstr EXCEPT ![s] = user] /\ identreceived' = [identreceived EXCEPT ![s] = TRUE]
    BY <1>2 DEF Resumes
  <2>2. /\ state' \in [Sessions -> {"DISCONNECTED", "IDENT", "ESTABLISHED"}]
        /\ sendqueue' \in [Sessions -> Seq([what : Contents, for : SockIds])]
        /\ \A t \in Sessions : state'[t] # "IDENT" => sendqueue'[t] = <<>>
        /\ \A t \in Sessions \ {s} : state'[t] = state[t] /\ sendqueue'[t] = sendqueue[t]
    <3>1. /\ state \in [Sessions -> {"DISCONNECTED", "IDENT", "ESTABLISHED"}]
          /\ sendqueue \in [Sessions -> Seq([what : Contents, for : SockIds])]
          /\ \A t \in Sessions : state[t] # "IDENT" => sendqueue[t] = <<>>
      BY DEF TypeInv, TypeOK
    <3>2. <<>> \in Seq([what : Contents, for : SockIds])
      OBVIOUS
    <3> QED
      BY <2>1, <3>1, <3>2
  <2>3. /\ identreceived' \in [Sessions -> BOOLEAN] /\ identstr' \in [Sessions -> SockIds \cup {Nobody}]
        /\ \A t \in Sessions \ {s} : identreceived'[t] = identreceived[t] /\ identstr'[t] = identstr[t]
    BY <2>1 DEF TypeInv, TypeOK
  <2> QED
    BY <1>2, <2>1, <2>2, <2>3 DEF Resumes, Dead
<1> QED
  BY <1>1, <1>2, IdentifiedDoes

LEMMA DeactivateTypes ==
    ASSUME TypeInv, NEW s \in Sessions, Deactivate(s)
    PROVE  active' \in [Sessions -> BOOLEAN] /\ pokes' \in SUBSET (Sessions \X SockIds)
BY DEF Deactivate, StopPoke, TypeInv, TypeOK

LEMMA IdentDataServes ==
    ASSUME TypeInv, HandleIdentData
    PROVE  TypeOK' /\ \E s, X : s = Receiver /\ X = Sock /\ Serves(s, X)
<1> PICK s, X : s = Receiver /\ X = Sock
  OBVIOUS
<1>1. /\ At("DATA", "Ident") /\ Handled
      /\ \/ Identified(s, IF Head(queue).what = "user" THEN Head(queue).for ELSE Nobody,
                       CloseSocket(socketinfomap, Head(queue).sock))
         \/ Late(s, CloseSocket(socketinfomap, Head(queue).sock))
      /\ Deactivate(s)
      /\ UNCHANGED <<connected, aborted>>
  BY DEF HandleIdentData, Late, sessionVars, Tls
<1>2. /\ "Ident" \in Classes /\ s \in Sessions
      /\ Head(queue).sock \in SockIds /\ Head(queue).for \in SockIds /\ Head(queue).what \in Contents
  BY <1>1, HandledHead DEF Classes
<1>3. /\ UNCHANGED <<made, client, server, identp>>
      /\ queue' \in Seq(Events) /\ queue' = Tail(queue) /\ queue # <<>> /\ Head(queue).type # "NEW"
  BY <1>1, <1>2, HandledTypes
<1>4. PICK m, x : m = CloseSocket(socketinfomap, x) /\ x = Head(queue).sock
  OBVIOUS
<1>5. PICK user : user = IF Head(queue).what = "user" THEN Head(queue).for ELSE Nobody
  OBVIOUS
<1>6. m \in [SockIds -> SocketInfos] /\ Kept(socketinfomap, m) /\ Untouched(socketinfomap, m, {x})
  BY <1>4, CloseSocketMap, MapType DEF TypeInv
<1>7. user \in SockIds \cup {Nobody} /\ (Identified(s, user, m) \/ Late(s, m))
  BY <1>1, <1>2, <1>4, <1>5
<1>8. /\ socketinfomap' \in [SockIds -> SocketInfos] /\ Kept(m, socketinfomap')
      /\ Untouched(m, socketinfomap', {server[s]})
      /\ state' \in [Sessions -> {"DISCONNECTED", "IDENT", "ESTABLISHED"}]
      /\ sendqueue' \in [Sessions -> Seq([what : Contents, for : SockIds])]
      /\ \A t \in Sessions : state'[t] # "IDENT" => sendqueue'[t] = <<>>
      /\ identreceived' \in [Sessions -> BOOLEAN] /\ identstr' \in [Sessions -> SockIds \cup {Nobody}]
      /\ tlsstate' \in [Sessions -> {"NONE", "QUERY", "IN_PROGRESS", "ACTIVE"}]
      /\ responsecatch' \in [Sessions -> {"NONE", "AUTH_TLS"}]
      /\ \A t \in Sessions \ {s} :
            /\ state'[t] = state[t] /\ sendqueue'[t] = sendqueue[t]
            /\ identreceived'[t] = identreceived[t] /\ identstr'[t] = identstr[t]
            /\ tlsstate'[t] = tlsstate[t] /\ responsecatch'[t] = responsecatch[t]
      /\ Dead(s) <=> Dead(s)'
  BY <1>2, <1>6, <1>7, IdentifiedTypes
<1>9. Kept(socketinfomap, socketinfomap') /\ Untouched(socketinfomap, socketinfomap', {x} \cup {server[s]})
  BY <1>6, <1>8, KeptThen
<1>10. active' \in [Sessions -> BOOLEAN] /\ pokes' \in SUBSET (Sessions \X SockIds)
  BY <1>1, <1>2, DeactivateTypes
<1>11. TypeOK'
  BY <1>1, <1>3, <1>8, <1>10 DEF TypeInv, TypeOK, SocketInfos
<1>12. X = {x}
  BY <1>4 DEF Sock
<1>13. Serves(s, X)
  BY <1>1, <1>2, <1>3, <1>8, <1>9, <1>12 DEF Serves, Untouched, sockids
<1> QED
  BY <1>11, <1>13

LEMMA IdentEndServes ==
    ASSUME TypeInv, HandleIdentEnd
    PROVE  TypeOK' /\ \E s, X : s = Receiver /\ X = Sock /\ Serves(s, X)
<1> PICK s, X : s = Receiver /\ X = Sock
  OBVIOUS
<1>1. /\ At("DISCONNECTED", "Ident") \/ At("FAIL", "Ident")
      /\ Handled
      /\ \/ Identified(s, Nobody, socketinfomap) /\ Deactivate(s)
         \/ UNCHANGED <<state, sendqueue, identreceived, identstr, tlsstate, responsecatch, active, pokes,
                        socketinfomap>>
      /\ UNCHANGED <<connected, aborted>>
  BY DEF HandleIdentEnd, sessionVars, identVars, Tls
<1>2. /\ "Ident" \in Classes /\ s \in Sessions
      /\ Head(queue).sock \in SockIds /\ Head(queue).for \in SockIds /\ Head(queue).what \in Contents
  BY <1>1, HandledHead DEF Classes
<1>3. /\ UNCHANGED <<made, client, server, identp>>
      /\ queue' \in Seq(Events) /\ queue' = Tail(queue) /\ queue # <<>> /\ Head(queue).type # "NEW"
  BY <1>1, <1>2, HandledTypes
<1>4. PICK m : m = socketinfomap
  OBVIOUS
<1>5. m \in [SockIds -> SocketInfos]
  BY <1>4, MapType DEF TypeInv
<1>6. /\ socketinfomap' \in [SockIds -> SocketInfos] /\ Kept(m, socketinfomap')
      /\ Untouched(m, socketinfomap', {server[s]})
      /\ state' \in [Sessions -> {"DISCONNECTED", "IDENT", "ESTABLISHED"}]
      /\ sendqueue' \in [Sessions -> Seq([what : Contents, for : SockIds])]
      /\ \A t \in Sessions : state'[t] # "IDENT" => sendqueue'[t] = <<>>
      /\ identreceived' \in [Sessions -> BOOLEAN] /\ identstr' \in [Sessions -> SockIds \cup {Nobody}]
      /\ tlsstate' \in [Sessions -> {"NONE", "QUERY", "IN_PROGRESS", "ACTIVE"}]
      /\ responsecatch' \in [Sessions -> {"NONE", "AUTH_TLS"}]
      /\ \A t \in Sessions \ {s} :
            /\ state'[t] = state[t] /\ sendqueue'[t] = sendqueue[t]
            /\ identreceived'[t] = identreceived[t] /\ identstr'[t] = identstr[t]
            /\ tlsstate'[t] = tlsstate[t] /\ responsecatch'[t] = responsecatch[t]
      /\ Dead(s) <=> Dead(s)'
  <2>1. CASE Identified(s, Nobody, socketinfomap)
    BY <1>2, <1>4, <1>5, <2>1, IdentifiedTypes
  <2>2. CASE UNCHANGED <<state, sendqueue, identreceived, identstr, tlsstate, responsecatch, socketinfomap>>
    BY <1>4, <1>5, <2>2, KeptSelf DEF TypeInv, TypeOK, Dead
  <2> QED
    BY <1>1, <2>1, <2>2
<1>7. active' \in [Sessions -> BOOLEAN] /\ pokes' \in SUBSET (Sessions \X SockIds)
  <2>1. CASE Deactivate(s)
    BY <1>2, <2>1, DeactivateTypes
  <2>2. CASE UNCHANGED <<active, pokes>>
    BY <2>2 DEF TypeInv, TypeOK
  <2> QED
    BY <1>1, <2>1, <2>2
<1>8. TypeOK'
  BY <1>1, <1>3, <1>6, <1>7 DEF TypeInv, TypeOK, SocketInfos
<1>9. Serves(s, X)
  BY <1>1, <1>2, <1>3, <1>4, <1>6 DEF Serves, Untouched, sockids
<1> QED
  BY <1>8, <1>9

LEMMA TickServes ==
    ASSUME TypeInv, IdentTick
    PROVE  /\ TypeOK'
           /\ \E s : /\ Serves(s, {}) /\ queue' = queue /\ UNCHANGED <<connected, aborted>>
                    /\ \/ Identified(s, Nobody, socketinfomap)
                       \/ UNCHANGED <<state, sendqueue, identreceived, identstr, tlsstate, responsecatch, socketinfomap>>
<1>1. PICK p \in pokes :
        /\ \/ Identified(p[1], Nobody, socketinfomap)
           \/ UNCHANGED <<state, sendqueue, identreceived, identstr, tlsstate, responsecatch, socketinfomap>>
        /\ Deactivate(p[1])
  BY DEF IdentTick, sessionVars, Tls
<1>2. UNCHANGED <<made, client, server, identp, connected, queue, aborted>>
  BY DEF IdentTick, sockids
<1>3. PICK s : s = p[1]
  OBVIOUS
<1>4. s \in Sessions
  BY <1>3 DEF TypeInv, TypeOK
<1>5. PICK m : m = socketinfomap
  OBVIOUS
<1>6. m \in [SockIds -> SocketInfos]
  BY <1>5, MapType DEF TypeInv
<1>7. /\ socketinfomap' \in [SockIds -> SocketInfos] /\ Kept(m, socketinfomap')
      /\ Untouched(m, socketinfomap', {server[s]})
      /\ state' \in [Sessions -> {"DISCONNECTED", "IDENT", "ESTABLISHED"}]
      /\ sendqueue' \in [Sessions -> Seq([what : Contents, for : SockIds])]
      /\ \A t \in Sessions : state'[t] # "IDENT" => sendqueue'[t] = <<>>
      /\ identreceived' \in [Sessions -> BOOLEAN] /\ identstr' \in [Sessions -> SockIds \cup {Nobody}]
      /\ tlsstate' \in [Sessions -> {"NONE", "QUERY", "IN_PROGRESS", "ACTIVE"}]
      /\ responsecatch' \in [Sessions -> {"NONE", "AUTH_TLS"}]
      /\ \A t \in Sessions \ {s} :
            /\ state'[t] = state[t] /\ sendqueue'[t] = sendqueue[t]
            /\ identreceived'[t] = identreceived[t] /\ identstr'[t] = identstr[t]
            /\ tlsstate'[t] = tlsstate[t] /\ responsecatch'[t] = responsecatch[t]
      /\ Dead(s) <=> Dead(s)'
  <2>1. CASE Identified(s, Nobody, m)
    BY <1>4, <1>6, <2>1, IdentifiedTypes
  <2>2. CASE UNCHANGED <<state, sendqueue, identreceived, identstr, tlsstate, responsecatch, socketinfomap>>
    BY <1>5, <1>6, <2>2, KeptSelf DEF TypeInv, TypeOK, Dead
  <2> QED
    BY <1>1, <1>3, <1>5, <2>1, <2>2
<1>8. active' \in [Sessions -> BOOLEAN] /\ pokes' \in SUBSET (Sessions \X SockIds)
  BY <1>1, <1>3, <1>4, DeactivateTypes
<1>9. TypeOK'
  BY <1>2, <1>7, <1>8 DEF TypeInv, TypeOK, SocketInfos
<1>10. Serves(s, {})
  BY <1>2, <1>4, <1>5, <1>7 DEF Serves, Untouched, sockids
<1> QED
  BY <1>1, <1>2, <1>3, <1>9, <1>10

\* Each handler but Bnc::FDNew.
Serving ==
    \/ HandleClientDisconnected \/ HandleServerDisconnected \/ HandleServerFail
    \/ HandleServerConnected \/ HandleClientData \/ HandleServerData \/ HandleServerSSL
    \/ HandleClientSSL \/ HandleIdentConnected \/ HandleIdentData \/ HandleIdentEnd

LEMMA ServingServes ==
    ASSUME TypeInv, Serving
    PROVE  TypeOK' /\ \E s, X : s = Receiver /\ X = Sock /\ Serves(s, X)
BY ClientEndServes, ServerEndServes, ServerFailServes, ServerConnectedServes, ClientDataServes,
   ServerDataServes, ServerSSLServes, ClientSSLServes, IdentConnectedServes, IdentDataServes,
   IdentEndServes DEF Serving

LEMMA ServingHead ==
    ASSUME TypeInv, Serving
    PROVE  /\ \E t \in {"CONNECTED", "FAIL", "DISCONNECTED", "DATA", "SSL_SUCCESS"}, class \in Classes : At(t, class)
           /\ Handled
<1>1. {"BncSession", "BncSessionClient", "Ident"} = Classes
  BY DEF Classes
<1> QED
  BY <1>1 DEF Serving, HandleClientDisconnected, HandleServerDisconnected, HandleServerFail,
     HandleServerConnected, HandleClientData, HandleServerData, HandleServerSSL, HandleClientSSL,
     HandleIdentConnected, HandleIdentData, HandleIdentEnd

LEMMA NextTypes ==
    ASSUME TypeInv, [Next]_vars
    PROVE  TypeInv'
<1>1. ASSUME NEW x \in SockIds,
             Connect(x) \/ ConnectFails(x) \/ Read(x) \/ ReadEnd(x) \/ Drain(x) \/ WriteFails(x) \/ Negotiated(x)
      PROVE  TypeInv'
  BY <1>1, IOMoves, MovesTypes
<1>2. CASE Serving
  <2>1. PICK s, X : X = Sock /\ Serves(s, X)
    BY <1>2, ServingServes
  <2>2. \A x \in X : ~Pending(x)
    BY <1>2, <2>1, ServingHead, HandledHead
  <2> QED
    BY <1>2, <2>1, <2>2, ServingServes, ServesTypes
<1>3. CASE IdentTick
  BY <1>3, TickServes, ServesTypes
<1>4. CASE UNCHANGED vars
  BY <1>4 DEF vars, sessionVars, sockids, clientVars, identVars, TypeInv, TypeOK, Unclaimed, Beyond, Fors,
     Pending, Names, Open
<1> QED
  BY <1>1, <1>2, <1>3, <1>4, AcceptTypes, NewTypes DEF Next, IONext, Handle, Serving

LEMMA InitTypes == Init => TypeInv
<1> SUFFICES ASSUME Init PROVE TypeInv
  OBVIOUS
<1>1. socketinfomap \in [SockIds -> SocketInfos] /\ Open = {}
  BY UnusedType DEF Init, Open
<1>2. TypeOK
  <2>1. made \in 0 .. MaxSessions /\ queue \in Seq(Events)
    BY NumbersAssumption DEF Init
  <2>2. sendqueue \in [Sessions -> Seq([what : Contents, for : SockIds])] /\ \A s \in Sessions : sendqueue[s] = <<>>
    <3>1. <<>> \in Seq([what : Contents, for : SockIds])
      OBVIOUS
    <3> QED
      BY <3>1 DEF Init
  <2>3. /\ state \in [Sessions -> {"DISCONNECTED", "IDENT", "ESTABLISHED"}]
        /\ client \in [Sessions -> SockIds \cup {NoSock}]
        /\ server \in [Sessions -> SockIds \cup {NoSock}]
        /\ identp \in [Sessions -> SockIds \cup {NoSock}]
        /\ identreceived \in [Sessions -> BOOLEAN] /\ identstr \in [Sessions -> SockIds \cup {Nobody}]
        /\ connected \in [Sessions -> BOOLEAN]
        /\ tlsstate \in [Sessions -> {"NONE", "QUERY", "IN_PROGRESS", "ACTIVE"}]
        /\ responsecatch \in [Sessions -> {"NONE", "AUTH_TLS"}]
        /\ active \in [Sessions -> BOOLEAN] /\ pokes \in SUBSET (Sessions \X SockIds)
        /\ aborted \in BOOLEAN
    BY DEF Init
  <2> QED
    BY <1>1, <2>1, <2>2, <2>3 DEF TypeOK, SocketInfos
<1> QED
  BY <1>1, <1>2 DEF Init, TypeInv, Unclaimed, Beyond, Fors, Pending

\* Every variable keeps its type (bnc.cpp, bncsession.cpp, bncsessionclient.cpp,
\* ident.cpp), whatever the peers and the ident server do.
THEOREM TypeCorrect == Spec => []TypeOK
<1>1. Init => TypeInv
  BY InitTypes
<1>2. TypeInv /\ [Next]_vars => TypeInv'
  BY NextTypes
<1>3. TypeInv => TypeOK
  BY DEF TypeInv
<1> QED
  BY <1>1, <1>2, <1>3, PTL DEF Spec

-----------------------------------------------------------------------------
(* What belongs to whom: the steps of the IO thread.                       *)

\* The places of a queue with one more.
LEMMA PushAt ==
    ASSUME NEW q \in Seq(Events), NEW e \in Events
    PROVE  /\ \A i \in DOMAIN q : i \in DOMAIN Append(q, e) /\ Append(q, e)[i] = q[i]
           /\ \A i \in DOMAIN Append(q, e) :
                \/ i \in DOMAIN q /\ Append(q, e)[i] = q[i]
                \/ i = Len(q) + 1 /\ Append(q, e)[i] = e
           /\ Len(q) + 1 \in DOMAIN Append(q, e) /\ Append(q, e)[Len(q) + 1] = e
           /\ \A i \in DOMAIN q : i \in Nat /\ i < Len(q) + 1
OBVIOUS

LEMMA OwnOf ==
    /\ \A s : Own("BncSession", s) = client[s] /\ Own("BncSessionClient", s) = server[s] /\ Own("Ident", s) = identp[s]
    /\ Classes = {"BncSession", "BncSessionClient", "Ident"}
BY DEF Own, Classes

LEMMA KindsOf ==
    /\ Kinds("BncSession") = {"LISTEN", "SSL_NEG", "SSL"}
    /\ Kinds("BncSessionClient") = {"CONNECTING", "PLAIN", "SSL_NEG", "SSL"}
    /\ Kinds("Ident") = {"CONNECTING", "PLAIN"}
BY DEF Kinds

LEMMA ErType ==
    ASSUME TypeInv, NEW x \in SockIds, socketinfomap[x].er # <<>>
    PROVE  /\ Class(x) \in Classes /\ Session(x) \in Sessions
           /\ socketinfomap[x].er = <<Class(x), Session(x)>>
<1>1. socketinfomap[x].er \in Classes \X Sessions
  BY MapType DEF TypeInv, SocketInfos
<1> QED
  BY <1>1 DEF Class, Session

LEMMA MovesStructure ==
    ASSUME TypeInv, Structure(queue), NEW x \in SockIds, Moves(x)
    PROVE  Structure(queue)'
<1> DEFINE m == socketinfomap'
           a == socketinfomap[x]
           b == socketinfomap'[x]
<1>1. /\ socketinfomap \in [SockIds -> SocketInfos] /\ m \in [SockIds -> SocketInfos]
      /\ \A y \in SockIds : y # x => m[y] = socketinfomap[y]
      /\ x \in Open /\ a.er # <<>> /\ b.type # "UNUSED" => b.er = a.er /\ b.for = a.for
      /\ \/ b.type \in {"UNUSED", a.type}
         \/ a.type = "CONNECTING" /\ b.type = "PLAIN"
         \/ a.type = "SSL_NEG" /\ b.type = "SSL"
  BY MapType, MovesQueue DEF Moves, TypeInv
<1>2. UNCHANGED <<made, state, client, server, identp>>
  BY DEF Moves, IOStep, sessionVars, sockids
<1>3. x \in Open /\ a.er # <<>> /\ Class(x) \in Classes /\ Session(x) \in Sessions /\ a.er = <<Class(x), Session(x)>>
  BY MovesQueue, ErType
<1>4. /\ x = Own(Class(x), Session(x)) /\ a.for = client[Session(x)]
      /\ a.type \in Kinds(Class(x))
  BY <1>3 DEF Structure, Sockets
<1>5. b.type # "UNUSED" => b.type \in Kinds(Class(x))
  BY <1>1, <1>3, <1>4, KindsOf, OwnOf
<1>6. \A y \in SockIds : y \in Open' => y \in Open /\ m[y].er = socketinfomap[y].er /\ m[y].for = socketinfomap[y].for
  BY <1>1, <1>3 DEF Open
<1>7. \A class, s : Own(class, s)' = Own(class, s)
  BY <1>2 DEF Own
<1>8. Sockets'
  <2> SUFFICES ASSUME NEW y \in SockIds, y \in Open', m[y].er # <<>>
               PROVE  /\ y = Own(Class(y)', Session(y)') /\ m[y].for = client[Session(y)']
                      /\ m[y].type \in Kinds(Class(y)')
    BY <1>2 DEF Sockets, Own, Open, Kinds
  <2>1. y \in Open /\ Class(y)' = Class(y) /\ Session(y)' = Session(y) /\ socketinfomap[y].er # <<>>
    BY <1>6 DEF Class, Session
  <2>2. y = Own(Class(y), Session(y)) /\ socketinfomap[y].for = client[Session(y)] /\ socketinfomap[y].type \in Kinds(Class(y))
    BY <2>1 DEF Structure, Sockets
  <2>3. m[y].type \in Kinds(Class(y))
    BY <1>1, <1>5, <2>2 DEF Open
  <2> QED
    BY <1>6, <2>1, <2>2, <2>3
<1>9. Named'
  <2> SUFFICES ASSUME NEW s \in Sessions, NEW class \in Classes, Own(class, s) \in Open'
               PROVE  m[Own(class, s)].er = <<class, s>>
    BY <1>7 DEF Named
  <2>1. Own(class, s) \in SockIds
    BY DEF Open
  <2> QED
    BY <1>6, <2>1 DEF Structure, Named
<1>10. ASSUME NEW e \in Mail(queue)
       PROVE  IF e.type = "NEW" THEN Pending(e.sock)' /\ e.for = e.sock /\ e.to = Bnc
              ELSE /\ e.to # Bnc /\ e.sock = Own(e.to[1], e.to[2]) /\ e.for = client[e.to[2]]
                   /\ e.type \in {"FAIL", "DISCONNECTED"} => e.sock \notin Open'
                   /\ e.sock \in Open' => m[e.sock].type # "CONNECTING"
  <2>1. CASE e.type = "NEW"
    <3>1. Pending(e.sock) /\ e.for = e.sock /\ e.to = Bnc
      BY <2>1 DEF Structure, Delivered
    <3>2. e.sock # x /\ e.sock \in SockIds
      BY <1>3, <3>1 DEF Pending, Open
    <3> QED
      BY <1>1, <2>1, <3>1, <3>2 DEF Pending, Open
  <2>2. CASE e.type # "NEW"
    <3>1. /\ e.to # Bnc /\ e.sock = Own(e.to[1], e.to[2]) /\ e.for = client[e.to[2]]
          /\ e.type \in {"FAIL", "DISCONNECTED"} => e.sock \notin Open
          /\ e.sock \in Open => socketinfomap[e.sock].type # "CONNECTING"
      BY <2>2 DEF Structure, Delivered
    <3>2. e.sock \in Open' => e.sock \in Open /\ e.sock \in SockIds
      BY <1>6 DEF Open
    <3> QED
      BY <1>1, <2>2, <3>1, <3>2
  <2> QED
    BY <2>1, <2>2
<1>11. CASE queue' = queue
  <2>1. Delivered(queue)'
    BY <1>2, <1>7, <1>10, <1>11 DEF Delivered
  <2>2. Arrivals(queue)'
    BY <1>2, <1>6, <1>11 DEF Structure, Arrivals, Gone, Pending, Dead, Session, Open
  <2> QED
    BY <1>8, <1>9, <2>1, <2>2 DEF Structure
<1>12. ASSUME NEW e \in Events,
              queue' = Append(queue, e), Mail(queue') = Mail(queue) \cup {e},
              e.to = a.er, e.sock = x, e.for = a.for, e.type # "NEW",
              e.type \in {"FAIL", "DISCONNECTED"} => b.type = "UNUSED",
              b.type # "CONNECTING"
       PROVE  Structure(queue)'
  <2>1. Delivered(queue)'
    <3>1. /\ e.to # Bnc /\ e.sock = Own(e.to[1], e.to[2]) /\ e.for = client[e.to[2]]
          /\ e.type \in {"FAIL", "DISCONNECTED"} => e.sock \notin Open'
          /\ e.sock \in Open' => m[e.sock].type # "CONNECTING"
      BY <1>3, <1>4, <1>12 DEF Open, Bnc, Classes
    <3> QED
      BY <1>2, <1>7, <1>10, <1>12, <3>1 DEF Delivered
  <2>2. Arrivals(queue)'
    <3>1. ASSUME NEW i \in DOMAIN queue', queue'[i].type = "NEW"
          PROVE  i \in DOMAIN queue /\ queue[i].type = "NEW"
      BY <1>12, <3>1, PushAt DEF TypeInv, TypeOK
    <3>2. ASSUME NEW i \in DOMAIN queue, queue[i].type = "NEW"
          PROVE  i = 1 /\ \A s \in Sessions : Dead(s) => Gone(queue, s)
      BY <3>2 DEF Structure, Arrivals
    <3>3. ASSUME NEW s \in Sessions, Gone(queue, s) PROVE Gone(queue, s)'
      <4>1. Session(x) # s /\ e.to[2] # s
        BY <1>3, <1>12, <3>3 DEF Gone
      <4>2. \A f \in Mail(queue') : f.to # Bnc => f.to[2] # s
        BY <1>12, <3>3, <4>1 DEF Gone
      <4>3. \A y \in Open' : m[y].er # <<>> => Session(y)' # s
        BY <1>6, <3>3 DEF Gone, Session, Open
      <4> QED
        BY <4>2, <4>3 DEF Gone
    <3>4. ASSUME NEW y \in Open', Pending(y)' PROVE \E f \in Mail(queue') : f.type = "NEW" /\ f.sock = y
      <4>1. y \in Open /\ Pending(y)
        BY <1>6, <3>4 DEF Pending, Open
      <4> QED
        BY <1>12, <4>1 DEF Structure, Arrivals
    <3> QED
      BY <1>2, <3>1, <3>2, <3>3, <3>4 DEF Arrivals, Dead
  <2> QED
    BY <1>8, <1>9, <2>1, <2>2 DEF Structure
<1> HIDE DEF m
<1> QED
  BY <1>1, <1>11, <1>12, MovesQueue

\* A client comes when nothing is under way.
LEMMA AcceptStructure ==
    ASSUME Sequential, TypeInv, Structure(queue), Accept
    PROVE  Structure(queue)'
<1>1. PICK c : c = Fresh
  OBVIOUS
<1>2. PICK e : e = [type |-> "NEW", to |-> Bnc, sock |-> c, what |-> "", for |-> c]
  OBVIOUS
<1> DEFINE m == socketinfomap'
<1>3. /\ c \in SockIds /\ c \notin Open /\ socketinfomap[c].type = "UNUSED" /\ ~Names(c)
      /\ \A f \in Mail(queue) : f.sock # c
  BY <1>1, FreshIds, FreshIsNew DEF Accept
<1>4. /\ socketinfomap' = [socketinfomap EXCEPT ![c] = New("LISTEN", <<>>, c)]
      /\ queue' = Append(queue, e) /\ IOStep /\ Quiet
  BY <1>1, <1>2 DEF Accept, IOStep
<1>5. e.type = "NEW" /\ e.to = Bnc /\ e.sock = c /\ e.for = c /\ e \in Events
  BY <1>2, <1>3 DEF Events, Contents
<1>6. UNCHANGED <<made, state, client, server, identp>>
  BY <1>4 DEF IOStep, sessionVars, sockids
<1>7. /\ m[c].type = "LISTEN" /\ m[c].er = <<>> /\ \A y \in SockIds : y # c => m[y] = socketinfomap[y]
      /\ Open' = Open \cup {c}
  BY <1>3, <1>4, NewFields, MapType DEF TypeInv, Open
<1>8. queue = <<>> /\ Mail(queue) = {} /\ \A x \in Open : state[Session(x)] # "DISCONNECTED"
  BY <1>4, MailEmpty DEF Quiet, Session
<1>9. Mail(queue') = {e} /\ DOMAIN queue' = {1} /\ queue'[1] = e
  <2>1. queue' = <<e>>
    BY <1>4, <1>8
  <2> QED
    BY <1>5, <2>1, MailOne
<1> HIDE DEF m
<1>10. \A class, s : Own(class, s)' = Own(class, s)
  BY <1>6 DEF Own
<1>11. Pending(c)' /\ \A y \in SockIds : Pending(y)' => y = c \/ Pending(y)
  BY <1>7 DEF Pending, m
<1>12. \A y \in SockIds : ~Pending(y)
  BY <1>8 DEF Structure, Arrivals, Pending
<1>13. Sockets'
  <2> SUFFICES ASSUME NEW y \in SockIds, y \in Open', m[y].er # <<>>
               PROVE  /\ y = Own(Class(y)', Session(y)') /\ m[y].for = client[Session(y)']
                      /\ m[y].type \in Kinds(Class(y)')
    BY <1>6 DEF Sockets, Own, Open, Kinds, m
  <2>1. y # c /\ y \in Open /\ Class(y)' = Class(y) /\ Session(y)' = Session(y) /\ m[y] = socketinfomap[y]
    BY <1>7 DEF Class, Session, m
  <2> QED
    BY <2>1 DEF Structure, Sockets
<1>14. Named'
  <2> SUFFICES ASSUME NEW s \in Sessions, NEW class \in Classes, Own(class, s) \in Open'
               PROVE  m[Own(class, s)].er = <<class, s>>
    BY <1>10 DEF Named, m
  <2>1. Own(class, s) # c
    BY <1>3, OwnOf DEF Names
  <2>2. Own(class, s) \in Open /\ Own(class, s) \in SockIds
    BY <1>7, <2>1 DEF Open
  <2> QED
    BY <1>7, <2>1, <2>2 DEF Structure, Named
<1>15. Delivered(queue)'
  BY <1>5, <1>9, <1>11 DEF Delivered
<1>16. Arrivals(queue)'
  <2>1. ASSUME NEW s \in Sessions, Dead(s)' PROVE Gone(queue, s)'
    <3>1. \A x \in Open : Session(x) # s
      BY <1>6, <1>8, <2>1 DEF Dead
    <3>2. \A x \in Open' : m[x].er # <<>> => Session(x)' # s
      BY <1>7, <3>1 DEF Session, Open, m
    <3>3. \A f \in Mail(queue') : f.to = Bnc
      BY <1>5, <1>9
    <3> QED
      BY <3>2, <3>3 DEF Gone, m
  <2>2. \A x \in Open' : Pending(x)' => \E f \in Mail(queue') : f.type = "NEW" /\ f.sock = x
    BY <1>5, <1>9, <1>11, <1>12 DEF Open
  <2> QED
    BY <1>9, <2>1, <2>2 DEF Arrivals
<1> QED
  BY <1>13, <1>14, <1>15, <1>16 DEF Structure

LEMMA ServesStructure ==
    ASSUME TypeInv, Structure(queue), NEW s, NEW X, Serves(s, X), X \subseteq {client[s], server[s], identp[s]},
           \A y \in SockIds : y \in Open' /\ socketinfomap[y].er # <<>> /\ Class(y) = "Ident" =>
                socketinfomap'[y].type = socketinfomap[y].type
    PROVE  Structure(queue)'
<1> DEFINE m == socketinfomap'
<1>1. /\ socketinfomap \in [SockIds -> SocketInfos] /\ m \in [SockIds -> SocketInfos]
      /\ Kept(socketinfomap, m)
      /\ Untouched(socketinfomap, m, X \cup {client[s], server[s], identp[s]})
      /\ s \in Sessions /\ \A t \in Sessions \ {s} : state'[t] = state[t]
      /\ Dead(s) => Dead(s)'
      /\ \/ queue' = Tail(queue) /\ queue # <<>> /\ Head(queue).type # "NEW"
         \/ queue' = queue /\ (Dead(s)' => Dead(s))
  BY MapType DEF Serves, TypeInv
<1>2. UNCHANGED <<made, client, server, identp>>
  BY DEF Serves, sockids
<1>3. \A y \in SockIds : y \in Open' =>
        /\ y \in Open /\ m[y].er = socketinfomap[y].er /\ m[y].for = socketinfomap[y].for
        /\ m[y].type = socketinfomap[y].type \/ (socketinfomap[y].type \in {"LISTEN", "PLAIN"} /\ m[y].type = "SSL_NEG")
  BY <1>1 DEF Open, Kept
<1>4. \A class, t : Own(class, t)' = Own(class, t)
  BY <1>2 DEF Own
<1>5. Mail(queue') \subseteq Mail(queue) /\ queue' \in Seq(Events)
  BY <1>1, MailPop DEF TypeInv, TypeOK
<1>6. \A y \in SockIds : y \notin {client[s], server[s], identp[s]} => m[y] = socketinfomap[y]
  BY <1>1 DEF Untouched
<1>7. \A y \in SockIds : Pending(y) => m[y] = socketinfomap[y] /\ Pending(y)'
  BY <1>1, <1>6 DEF TypeInv, Unclaimed, Names, Pending, Open
<1>8. Sockets'
  <2> SUFFICES ASSUME NEW y \in SockIds, y \in Open', m[y].er # <<>>
               PROVE  /\ y = Own(Class(y)', Session(y)') /\ m[y].for = client[Session(y)']
                      /\ m[y].type \in Kinds(Class(y)')
    BY <1>2 DEF Sockets, Own, Open, Kinds
  <2>1. y \in Open /\ Class(y)' = Class(y) /\ Session(y)' = Session(y) /\ socketinfomap[y].er # <<>>
    BY <1>3 DEF Class, Session
  <2>2. y = Own(Class(y), Session(y)) /\ socketinfomap[y].for = client[Session(y)] /\ socketinfomap[y].type \in Kinds(Class(y))
    BY <2>1 DEF Structure, Sockets
  <2>3. Class(y) \in {"BncSession", "BncSessionClient", "Ident"}
    BY <2>1, ErType, OwnOf
  <2>4. m[y].type \in Kinds(Class(y))
    BY <1>3, <2>1, <2>2, <2>3, KindsOf
  <2> QED
    BY <1>3, <2>1, <2>2, <2>4
<1>9. Named'
  <2> SUFFICES ASSUME NEW t \in Sessions, NEW class \in Classes, Own(class, t) \in Open'
               PROVE  m[Own(class, t)].er = <<class, t>>
    BY <1>4 DEF Named
  <2>1. Own(class, t) \in SockIds
    BY DEF Open
  <2> QED
    BY <1>3, <2>1 DEF Structure, Named
<1>10. Delivered(queue)'
  <2> SUFFICES ASSUME NEW e \in Mail(queue)
               PROVE  IF e.type = "NEW" THEN Pending(e.sock)' /\ e.for = e.sock /\ e.to = Bnc
                      ELSE /\ e.to # Bnc /\ e.sock = Own(e.to[1], e.to[2]) /\ e.for = client[e.to[2]]
                           /\ e.type \in {"FAIL", "DISCONNECTED"} => e.sock \notin Open'
                           /\ e.sock \in Open' => m[e.sock].type # "CONNECTING"
    BY <1>2, <1>4, <1>5 DEF Delivered
  <2>1. CASE e.type = "NEW"
    <3>1. Pending(e.sock) /\ e.for = e.sock /\ e.to = Bnc
      BY <2>1 DEF Structure, Delivered
    <3> QED
      BY <1>7, <2>1, <3>1 DEF Pending, Open
  <2>2. CASE e.type # "NEW"
    <3>1. /\ e.to # Bnc /\ e.sock = Own(e.to[1], e.to[2]) /\ e.for = client[e.to[2]]
          /\ e.type \in {"FAIL", "DISCONNECTED"} => e.sock \notin Open
          /\ e.sock \in Open => socketinfomap[e.sock].type # "CONNECTING"
      BY <2>2 DEF Structure, Delivered
    <3>2. e.sock \in Open' => e.sock \in Open /\ e.sock \in SockIds
      BY <1>3 DEF Open
    <3> QED
      BY <1>3, <2>2, <3>1, <3>2
  <2> QED
    BY <2>1, <2>2
<1>11. ASSUME NEW t \in Sessions, Gone(queue, t) PROVE Gone(queue, t)'
  <2>1. \A y \in Open' : m[y].er # <<>> => Session(y)' # t
    BY <1>3, <1>11 DEF Gone, Session, Open
  <2> QED
    BY <1>5, <1>11, <2>1 DEF Gone
<1>12. \A i \in DOMAIN queue : queue[i].type = "NEW" => i = 1 /\ \A t \in Sessions : Dead(t) => Gone(queue, t)
  BY DEF Structure, Arrivals
<1>13. CASE queue' = queue /\ ~\E t \in Sessions : Dead(t)' /\ ~Dead(t)
  <2>1. \A y \in Open' : Pending(y)' => \E e \in Mail(queue') : e.type = "NEW" /\ e.sock = y
    BY <1>3, <1>13 DEF Structure, Arrivals, Pending, Open
  <2> QED
    BY <1>8, <1>9, <1>10, <1>11, <1>12, <1>13, <2>1 DEF Structure, Arrivals
<1>14. CASE queue' = Tail(queue) /\ queue # <<>> /\ Head(queue).type # "NEW"
  <2>1. queue \in Seq(Events)
    BY DEF TypeInv, TypeOK
  <2>2. Head(queue) = queue[1] /\ \A i \in DOMAIN Tail(queue) : i + 1 \in DOMAIN queue /\ Tail(queue)[i] = queue[i + 1] /\ i + 1 # 1
    BY <1>14, <2>1
  <2>3. \A i \in DOMAIN queue' : queue'[i].type # "NEW"
    BY <1>12, <1>14, <2>2
  <2>4. \A e \in Mail(queue) : e.type # "NEW"
    BY <1>12, <1>14, <2>2 DEF Mail
  <2>5. \A y \in Open' : ~Pending(y)'
    BY <1>3, <2>4 DEF Structure, Arrivals, Pending, Open
  <2> QED
    BY <1>8, <1>9, <1>10, <2>3, <2>5 DEF Structure, Arrivals
<1> QED
  BY <1>1, <1>13, <1>14 DEF Dead

\* A session that is not in use has nothing left: it is the new client's.
LEMMA NewStructure ==
    ASSUME TypeInv, Structure(queue), HandleNew
    PROVE  Structure(queue)' /\ \E s, c, y, Z, r : Begins(s, c, y, Z, r) /\ Gone(queue, s) /\ Pending(c) /\ ~Names(c)
<1>1. PICK s, c, y, Z, r : Begins(s, c, y, Z, r)
  BY NewBegins
<1> DEFINE m == socketinfomap'
<1>2. /\ s \in Sessions /\ c \in SockIds /\ y \in Free /\ y # c /\ Z \subseteq Free /\ y \notin Z /\ c \notin Z
      /\ m \in [SockIds -> SocketInfos]
      /\ m[c] = [socketinfomap[c] EXCEPT !.er = <<"BncSession", s>>]
      /\ m[y] = New("CONNECTING", <<"BncSessionClient", s>>, c) \/ m[y] = socketinfomap[y]
      /\ \A z \in Z : m[z] = New("CONNECTING", <<"Ident", s>>, c) \/ m[z] = socketinfomap[z]
      /\ \A x \in SockIds \ (Z \cup {c, y}) : m[x] = socketinfomap[x]
      /\ Dead(s)
  BY <1>1, Zenon DEF Begins
<1>3. /\ queue # <<>> /\ Head(queue).type = "NEW" /\ c = Head(queue).sock /\ Head(queue) \in Mail(queue)
      /\ queue' = Tail(queue) \o r /\ Mail(queue') = Mail(Tail(queue)) \cup Mail(r)
      /\ Mail(Tail(queue)) \subseteq Mail(queue)
      /\ \A e \in Mail(r) :
            /\ e.type = "FAIL" /\ e.for = c
            /\ \/ e.to = <<"BncSessionClient", s>> /\ e.sock = y /\ m[y].type = "UNUSED"
               \/ e.to = <<"Ident", s>> /\ e.sock \in Z /\ m[e.sock].type = "UNUSED"
  BY <1>1 DEF Begins
<1>4. /\ made' = IF s > made THEN s ELSE made
      /\ client' = [client EXCEPT ![s] = c] /\ server' = [server EXCEPT ![s] = y]
      /\ (Z = {} => identp' = identp) /\ \A z \in Z : identp' = [identp EXCEPT ![s] = z]
      /\ state' = [state EXCEPT ![s] = IF AsksIdent THEN "IDENT" ELSE "ESTABLISHED"]
  BY <1>1, Zenon DEF Begins
<1>5. /\ client \in [Sessions -> SockIds \cup {NoSock}] /\ server \in [Sessions -> SockIds \cup {NoSock}]
      /\ identp \in [Sessions -> SockIds \cup {NoSock}]
      /\ state \in [Sessions -> {"DISCONNECTED", "IDENT", "ESTABLISHED"}]
      /\ queue \in Seq(Events) /\ socketinfomap \in [SockIds -> SocketInfos]
  BY MapType DEF TypeInv, TypeOK
<1>6. /\ y \in SockIds /\ y \notin Open /\ socketinfomap[y].type = "UNUSED" /\ ~Names(y)
      /\ Z \subseteq SockIds /\ \A z \in Z : z \notin Open /\ socketinfomap[z].type = "UNUSED" /\ ~Names(z)
      /\ \A e \in Mail(queue) : e.sock \notin Z \cup {y}
  BY <1>2, FreshIsNew
<1>7. /\ Pending(c) /\ Gone(queue, s) /\ Head(queue) = queue[1] /\ 1 \in DOMAIN queue
      /\ \A e \in Mail(Tail(queue)) : e.type # "NEW"
  <2>1. /\ Head(queue) = queue[1] /\ 1 \in DOMAIN queue
        /\ \A i \in DOMAIN Tail(queue) : i + 1 \in DOMAIN queue /\ Tail(queue)[i] = queue[i + 1] /\ i + 1 # 1
    BY <1>3, <1>5
  <2>2. Pending(c)
    BY <1>3 DEF Structure, Delivered
  <2>3. Gone(queue, s)
    BY <1>2, <1>3, <2>1 DEF Structure, Arrivals
  <2>4. ASSUME NEW e \in Mail(Tail(queue)) PROVE e.type # "NEW"
    BY <2>1, <2>4 DEF Structure, Arrivals, Mail
  <2> QED
    BY <2>1, <2>2, <2>3, <2>4
<1>8. ~Names(c) /\ socketinfomap[c] = New("LISTEN", <<>>, c) /\ \A e \in Mail(queue) : e.sock = c => e.type = "NEW"
  BY <1>2, <1>7 DEF TypeInv, Unclaimed
<1>9. ASSUME NEW x \in Open, Pending(x) PROVE x = c
  <2>1. PICK e \in Mail(queue) : e.type = "NEW" /\ e.sock = x
    BY <1>9 DEF Structure, Arrivals
  <2>2. e = queue[1]
    BY <2>1 DEF Structure, Arrivals, Mail
  <2> QED
    BY <1>3, <1>7, <2>1, <2>2
<1>10. /\ m[c].er = <<"BncSession", s>> /\ m[c].type = "LISTEN" /\ m[c].for = c
       /\ m[y].type # "UNUSED" => m[y].er = <<"BncSessionClient", s>> /\ m[y].type = "CONNECTING" /\ m[y].for = c
       /\ \A z \in Z : m[z].type # "UNUSED" => m[z].er = <<"Ident", s>> /\ m[z].type = "CONNECTING" /\ m[z].for = c
  <2>1. m[c].er = <<"BncSession", s>> /\ m[c].type = "LISTEN" /\ m[c].for = c
    <3>1. socketinfomap[c] \in SocketInfos /\ socketinfomap[c].type = "LISTEN" /\ socketinfomap[c].for = c
      BY <1>2, <1>5, <1>8, NewFields
    <3> QED
      BY <1>2, <3>1 DEF SocketInfos
  <2>2. m[y].type # "UNUSED" => m[y].er = <<"BncSessionClient", s>> /\ m[y].type = "CONNECTING" /\ m[y].for = c
    BY <1>2, <1>6, NewFields
  <2>3. \A z \in Z : m[z].type # "UNUSED" => m[z].er = <<"Ident", s>> /\ m[z].type = "CONNECTING" /\ m[z].for = c
    BY <1>2, <1>6, NewFields
  <2> QED
    BY <2>1, <2>2, <2>3
<1> HIDE DEF m
<1>11. /\ client'[s] = c /\ server'[s] = y /\ \A z \in Z : identp'[s] = z
       /\ \A t \in Sessions \ {s} : client'[t] = client[t] /\ server'[t] = server[t] /\ identp'[t] = identp[t]
  BY <1>2, <1>4, <1>5
<1> DEFINE N(class, t) == CASE class = "BncSession" -> client'[t]
                          [] class = "BncSessionClient" -> server'[t]
                          [] OTHER -> identp'[t]
<1>12. \A class \in Classes, t \in Sessions : t # s => Own(class, t)' = Own(class, t)
  BY <1>11 DEF Own
<1>13. /\ Own("BncSession", s)' = c /\ Own("BncSessionClient", s)' = y /\ \A z \in Z : Own("Ident", s)' = z
       /\ Z = {} => Own("Ident", s)' = Own("Ident", s)
  BY <1>4, <1>11 DEF Own
<1>13a. \A class, t : N(class, t) = Own(class, t)'
  BY DEF Own
<1> HIDE DEF N
<1>14. ASSUME NEW x \in SockIds, x \notin Z \cup {c, y}
       PROVE  m[x] = socketinfomap[x] /\ (x \in Open' <=> x \in Open)
  BY <1>2, <1>14 DEF Open, m
<1>15. Sockets'
  <2> SUFFICES ASSUME NEW x \in SockIds, x \in Open', m[x].er # <<>>
               PROVE  /\ x = N(m[x].er[1], m[x].er[2]) /\ m[x].for = client'[m[x].er[2]]
                      /\ m[x].type \in Kinds(m[x].er[1])
    BY DEF Sockets, Own, Open, Kinds, Class, Session, m, N
  <2>1. CASE x = c
    BY <1>10, <1>11, <1>13, <1>13a, <2>1, KindsOf
  <2>2. CASE x = y
    BY <1>10, <1>11, <1>13, <1>13a, <2>2, KindsOf DEF Open, m
  <2>3. CASE x \in Z
    BY <1>10, <1>11, <1>13, <1>13a, <2>3, KindsOf DEF Open, m
  <2>4. CASE x \notin Z \cup {c, y}
    <3>1. x \in Open /\ m[x] = socketinfomap[x] /\ socketinfomap[x].er # <<>>
      BY <1>14, <2>4
    <3>2. Class(x) \in Classes /\ Session(x) \in Sessions /\ Session(x) # s
      BY <1>7, <3>1, ErType DEF Gone
    <3>3. x = Own(Class(x), Session(x)) /\ m[x].for = client[Session(x)] /\ m[x].type \in Kinds(Class(x))
      BY <3>1 DEF Structure, Sockets
    <3> QED
      BY <1>11, <1>12, <1>13a, <3>1, <3>2, <3>3 DEF Class, Session
  <2> QED
    BY <2>1, <2>2, <2>3, <2>4
<1>16. Named'
  <2> SUFFICES ASSUME NEW t \in Sessions, NEW class \in Classes, Own(class, t)' \in Open'
               PROVE  m[Own(class, t)'].er = <<class, t>>
    BY DEF Named, m
  <2>1. Own(class, t)' \in SockIds /\ m[Own(class, t)'].type # "UNUSED"
    BY DEF Open, m
  <2>2. Own(class, t) \in Open => Own(class, t) \notin Z \cup {c, y}
    BY <1>6, <1>8, OwnOf DEF Names
  <2>3. CASE t # s
    <3>1. Own(class, t)' = Own(class, t)
      BY <1>12, <2>3
    <3>2. Own(class, t) \notin Z \cup {c, y}
      BY <1>6, <1>8, OwnOf DEF Names
    <3> QED
      BY <1>14, <2>1, <3>1, <3>2 DEF Structure, Named
  <2>4. CASE t = s /\ class = "BncSession"
    BY <1>10, <1>13, <2>4
  <2>5. CASE t = s /\ class = "BncSessionClient"
    BY <1>10, <1>13, <2>1, <2>5
  <2>6. CASE t = s /\ class = "Ident" /\ Z # {}
    BY <1>10, <1>13, <2>1, <2>6
  <2>7. CASE t = s /\ class = "Ident" /\ Z = {}
    <3>1. Own(class, s)' = Own(class, s) /\ Own(class, s) \notin Z \cup {c, y}
      BY <1>6, <1>8, <1>13, <2>7, OwnOf DEF Names
    <3>2. Own(class, s) \in Open
      BY <1>14, <2>1, <2>7, <3>1
    <3>3. socketinfomap[Own(class, s)].er = <<class, s>>
      BY <2>7, <3>2 DEF Structure, Named
    <3> QED
      BY <1>7, <3>2, <3>3 DEF Gone, Session
  <2> QED
    BY <2>3, <2>4, <2>5, <2>6, <2>7, OwnOf
<1>17. Delivered(queue)'
  <2> SUFFICES ASSUME NEW e \in Mail(Tail(queue)) \cup Mail(r)
               PROVE  /\ e.type # "NEW" /\ e.to # Bnc /\ e.sock = Own(e.to[1], e.to[2])' /\ e.for = client'[e.to[2]]
                      /\ e.type \in {"FAIL", "DISCONNECTED"} => e.sock \notin Open'
                      /\ e.sock \in Open' => m[e.sock].type # "CONNECTING"
    BY <1>3 DEF Delivered, Own, Bnc, m
  <2>1. CASE e \in Mail(Tail(queue))
    <3>1. e \in Mail(queue) /\ e.type # "NEW" /\ e \in Events
      BY <1>3, <1>5, <1>7, <2>1, MailType
    <3>2. /\ e.to # Bnc /\ e.sock = Own(e.to[1], e.to[2]) /\ e.for = client[e.to[2]]
          /\ e.type \in {"FAIL", "DISCONNECTED"} => e.sock \notin Open
          /\ e.sock \in Open => socketinfomap[e.sock].type # "CONNECTING"
      BY <3>1 DEF Structure, Delivered
    <3>3. e.to \in Classes \X Sessions /\ e.to[2] # s /\ e.sock \in SockIds
      BY <1>7, <3>1, <3>2 DEF Gone, Events
    <3>4. e.sock \notin Z \cup {c, y}
      BY <1>6, <1>8, <3>1
    <3> QED
      BY <1>11, <1>12, <1>14, <3>1, <3>2, <3>3, <3>4
  <2>2. CASE e \in Mail(r)
    BY <1>3, <1>11, <1>13, <2>2 DEF Bnc, Open, m
  <2> QED
    BY <2>1, <2>2
<1>18. Arrivals(queue)'
  <2>1. \A e \in Mail(queue') : e.type # "NEW"
    BY <1>3, <1>7
  <2>2. \A i \in DOMAIN queue' : queue'[i].type # "NEW"
    BY <2>1 DEF Mail
  <2>3. ASSUME NEW x \in Open', Pending(x)' PROVE FALSE
    <3>1. m[x].er = <<>> /\ m[x].type # "UNUSED" /\ x \in SockIds
      BY <2>3 DEF Pending, Open, m
    <3>2. x \notin Z \cup {c, y}
      BY <1>10, <3>1
    <3>3. x \in Open /\ Pending(x)
      BY <1>14, <2>3, <3>1, <3>2 DEF Pending
    <3> QED
      BY <1>9, <3>2, <3>3
  <2> QED
    BY <2>2, <2>3 DEF Arrivals
<1> QED
  BY <1>1, <1>7, <1>8, <1>15, <1>16, <1>17, <1>18 DEF Structure

-----------------------------------------------------------------------------
(* What the handlers do, knowing what belongs to whom.                     *)

LEMMA HeadOwn ==
    ASSUME TypeInv, Structure(queue), NEW t, NEW class \in Classes, At(t, class), t # "NEW", Handled
    PROVE  \E s \in Sessions :
            /\ s = Receiver /\ Head(queue).sock = Own(class, s) /\ Head(queue).for = client[s]
            /\ Head(queue).type = t /\ Head(queue).to = <<class, s>>
            /\ Head(queue).what \in Contents /\ Head(queue).for \in SockIds /\ Head(queue).sock \in SockIds
            /\ t \in {"FAIL", "DISCONNECTED"} => Own(class, s) \notin Open
            /\ Own(class, s) \in Open => socketinfomap[Own(class, s)].type # "CONNECTING"
            /\ UNCHANGED <<made, client, server, identp>> /\ queue' = Tail(queue) /\ queue # <<>>
            /\ queue \in Seq(Events)
<1>1. PICK s : s = Receiver
  OBVIOUS
<1>2. PICK e : e = Head(queue)
  OBVIOUS
<1>3. /\ e \in Mail(queue) /\ s \in Sessions /\ e.type = t /\ e.to = <<class, s>> /\ e.to # Bnc /\ queue \in Seq(Events)
  BY <1>1, <1>2, HeadType
<1>4. e.what \in Contents /\ e.for \in SockIds /\ e.sock \in SockIds
  BY <1>2, HandledHead
<1>5. /\ e.sock = Own(class, s) /\ e.for = client[s]
      /\ t \in {"FAIL", "DISCONNECTED"} => e.sock \notin Open
      /\ e.sock \in Open => socketinfomap[e.sock].type # "CONNECTING"
  BY <1>3 DEF Structure, Delivered
<1>6. UNCHANGED <<made, client, server, identp>> /\ queue' = Tail(queue) /\ queue # <<>>
  BY HandledTypes
<1> QED
  BY <1>1, <1>2, <1>3, <1>4, <1>5, <1>6

\* The event at the head is handled.
Pops == queue # <<>> /\ queue' = Tail(queue)

\* The sockets that live on are what they were.
SameTypes == \A y \in SockIds : y \in Open' => socketinfomap'[y].type = socketinfomap[y].type
SameFirst == \A y \in SockIds : y \in Open' => socketinfomap'[y].first = socketinfomap[y].first
SameEnds(X) == \A y \in SockIds \ X : y \in Open' => socketinfomap'[y].closing = socketinfomap[y].closing

\* A session ends.
Finishes(s) ==
    /\ Pops
    /\ state' = [state EXCEPT ![s] = "DISCONNECTED"] /\ sendqueue' = [sendqueue EXCEPT ![s] = <<>>]
    /\ UNCHANGED <<identreceived, identstr, tlsstate, responsecatch, aborted>>
    /\ connected' = connected \/ connected' = [connected EXCEPT ![s] = FALSE]
    /\ SameTypes /\ SameFirst
    /\ \A y \in {client[s], server[s]} : y \in Open' => socketinfomap'[y].closing

LEMMA EndDetails ==
    ASSUME TypeInv, Structure(queue), HandleClientDisconnected \/ HandleServerDisconnected \/ HandleServerFail
    PROVE  \E s \in Sessions : s = Receiver /\ Finishes(s)
<1>1. ASSUME NEW s \in Sessions, NEW other, End(s, other), {client[s], server[s]} \cap Open \subseteq {other},
             Pops,
             UNCHANGED <<identreceived, identstr, tlsstate, responsecatch, aborted>>,
             connected' = connected \/ connected' = [connected EXCEPT ![s] = FALSE]
      PROVE  Finishes(s)
  <2>1. /\ Kept(socketinfomap, socketinfomap')
        /\ (other \in SockIds /\ socketinfomap'[other].type # "UNUSED") => socketinfomap'[other].closing
        /\ \A y \in SockIds : socketinfomap'[y].type # "UNUSED" =>
                socketinfomap'[y].first = socketinfomap[y].first /\ socketinfomap'[y].type = socketinfomap[y].type
        /\ state' = [state EXCEPT ![s] = "DISCONNECTED"] /\ sendqueue' = [sendqueue EXCEPT ![s] = <<>>]
    BY <1>1, EndDoes
  <2>2. \A y \in {client[s], server[s]} : y \in Open' => y = other
    BY <1>1, <2>1 DEF Open, Kept
  <2>3. \A y \in {client[s], server[s]} : y \in Open' => socketinfomap'[y].closing
    BY <2>1, <2>2 DEF Open
  <2> QED
    BY <1>1, <2>1, <2>3 DEF Finishes, SameTypes, SameFirst, Open
<1>2. CASE HandleClientDisconnected
  <2>1. /\ At("DISCONNECTED", "BncSession") /\ "BncSession" \in Classes /\ Handled
        /\ UNCHANGED <<identreceived, identstr, tlsstate, responsecatch, aborted>>
    BY <1>2 DEF HandleClientDisconnected, Tls, Classes
  <2>2. PICK s \in Sessions : s = Receiver /\ Own("BncSession", s) \notin Open /\ Pops
    BY <2>1, HeadOwn DEF Pops
  <2>3. PICK other : other = server[s]
    OBVIOUS
  <2>4. End(s, other) /\ connected' = [connected EXCEPT ![s] = FALSE]
    BY <1>2, <2>2, <2>3 DEF HandleClientDisconnected
  <2> QED
    BY <1>1, <2>1, <2>2, <2>3, <2>4, OwnOf
<1>3. CASE HandleServerDisconnected
  <2>1. /\ At("DISCONNECTED", "BncSessionClient") /\ "BncSessionClient" \in Classes /\ Handled
        /\ UNCHANGED <<identreceived, identstr, tlsstate, responsecatch, aborted>>
    BY <1>3 DEF HandleServerDisconnected, Tls, Classes
  <2>2. PICK s \in Sessions : s = Receiver /\ Own("BncSessionClient", s) \notin Open /\ Pops
    BY <2>1, HeadOwn DEF Pops
  <2>3. PICK other : other = client[s]
    OBVIOUS
  <2>4. End(s, other) /\ connected' = [connected EXCEPT ![s] = FALSE]
    BY <1>3, <2>2, <2>3 DEF HandleServerDisconnected
  <2> QED
    BY <1>1, <2>1, <2>2, <2>3, <2>4, OwnOf
<1>4. CASE HandleServerFail
  <2>1. /\ At("FAIL", "BncSessionClient") /\ "BncSessionClient" \in Classes /\ Handled
        /\ UNCHANGED <<identreceived, identstr, tlsstate, responsecatch, aborted>> /\ connected' = connected
    BY <1>4 DEF HandleServerFail, clientVars, Classes
  <2>2. PICK s \in Sessions : s = Receiver /\ Own("BncSessionClient", s) \notin Open /\ Pops
    BY <2>1, HeadOwn DEF Pops
  <2>3. PICK other : other = client[s]
    OBVIOUS
  <2>4. End(s, other)
    BY <1>4, <2>2, <2>3 DEF HandleServerFail
  <2> QED
    BY <1>1, <2>1, <2>2, <2>3, <2>4, OwnOf
<1> QED
  BY <1>2, <1>3, <1>4

\* The server is connected, and told the user if he is known.
Connects(s) ==
    /\ Pops /\ From(Head(queue), "CONNECTED", "BncSessionClient", s)
    /\ connected' = [connected EXCEPT ![s] = TRUE]
    /\ UNCHANGED <<state, sendqueue, identreceived, identstr, tlsstate, responsecatch, aborted>>
    /\ SameTypes /\ SameEnds({}) /\ Untouched(socketinfomap, socketinfomap', {server[s]})
    /\ server[s] \in Open => socketinfomap'[server[s]].first =
            IF socketinfomap[server[s]].first = NoSock /\ identreceived[s] /\ ~NoIdnt
              THEN identstr[s] ELSE socketinfomap[server[s]].first

LEMMA ConnectedDetails ==
    ASSUME TypeInv, Structure(queue), HandleServerConnected
    PROVE  \E s \in Sessions : s = Receiver /\ Connects(s)
<1>1. /\ At("CONNECTED", "BncSessionClient") /\ "BncSessionClient" \in Classes /\ Handled
      /\ UNCHANGED <<state, sendqueue, identreceived, identstr, tlsstate, responsecatch, aborted>>
  BY DEF HandleServerConnected, sessionVars, Tls, Classes
<1>2. PICK s \in Sessions :
        /\ s = Receiver /\ Pops
        /\ Head(queue).type = "CONNECTED" /\ Head(queue).to = <<"BncSessionClient", s>>
  BY <1>1, HeadOwn DEF Pops
<1>3. PICK m, x, u : m = socketinfomap /\ x = server[s] /\ u = identstr[s]
  OBVIOUS
<1>4. m \in [SockIds -> SocketInfos] /\ u \in Values
  BY <1>3, MapType DEF TypeInv, TypeOK, Values
<1>5. /\ connected' = [connected EXCEPT ![s] = TRUE]
      /\ socketinfomap' = IF identreceived[s] /\ ~NoIdnt THEN SendData(m, x, u) ELSE m
  BY <1>2, <1>3 DEF HandleServerConnected
<1> DEFINE n == SendData(m, x, u)
<1>6. /\ n \in [SockIds -> SocketInfos] /\ Untouched(m, n, {x})
      /\ \A y \in SockIds : n[y].type = m[y].type /\ n[y].er = m[y].er /\ n[y].closing = m[y].closing
      /\ (x \in SockIds /\ m[x].type # "UNUSED") => n[x].first = IF m[x].first = NoSock THEN u ELSE m[x].first
  BY <1>4, SendDataMap
<1> HIDE DEF n
<1>7. /\ \A y \in SockIds : socketinfomap'[y].type = m[y].type /\ socketinfomap'[y].closing = m[y].closing
      /\ Untouched(m, socketinfomap', {x})
      /\ x \in Open => socketinfomap'[x].first =
            IF m[x].first = NoSock /\ identreceived[s] /\ ~NoIdnt THEN u ELSE m[x].first
  <2>1. CASE identreceived[s] /\ ~NoIdnt
    BY <1>3, <1>5, <1>6, <2>1 DEF Open, n
  <2>2. CASE ~(identreceived[s] /\ ~NoIdnt)
    BY <1>5, <2>2, KeptSelf
  <2> QED
    BY <2>1, <2>2
<1> QED
  BY <1>1, <1>2, <1>3, <1>5, <1>7 DEF Connects, SameTypes, SameEnds, From

\* What a client sends waits in state IDENT, and goes to the server after that.
ClientSays(s) ==
    /\ Pops /\ From(Head(queue), "DATA", "BncSession", s)
    /\ UNCHANGED <<state, identreceived, identstr, connected>>
    /\ SameTypes /\ SameEnds({}) /\ Untouched(socketinfomap, socketinfomap', {server[s]})
    /\ \/ /\ state[s] = "IDENT" /\ UNCHANGED <<tlsstate, responsecatch, socketinfomap, aborted>>
          /\ \E w : sendqueue' = [sendqueue EXCEPT ![s] = Append(@, [what |-> w, for |-> client[s]])]
       \/ /\ state[s] = "ESTABLISHED" /\ Queries(s) /\ UNCHANGED sendqueue
          /\ aborted' = (aborted \/ ~(identreceived[s] \/ NoIdnt))
          /\ server[s] \in Open => socketinfomap'[server[s]].first =
                IF socketinfomap[server[s]].first = NoSock THEN Data ELSE socketinfomap[server[s]].first
       \/ state[s] = "DISCONNECTED" /\ UNCHANGED <<sendqueue, tlsstate, responsecatch, socketinfomap, aborted>>

LEMMA ClientDetails ==
    ASSUME TypeInv, Structure(queue), HandleClientData
    PROVE  \E s \in Sessions : s = Receiver /\ ClientSays(s)
<1>1. /\ At("DATA", "BncSession") /\ "BncSession" \in Classes /\ Handled
      /\ UNCHANGED <<state, identreceived, identstr, connected>>
  BY DEF HandleClientData, Classes
<1>2. PICK s \in Sessions :
        /\ s = Receiver /\ Pops /\ Head(queue).for = client[s]
        /\ Head(queue).type = "DATA" /\ Head(queue).to = <<"BncSession", s>>
  BY <1>1, HeadOwn DEF Pops
<1>3. From(Head(queue), "DATA", "BncSession", s)
  BY <1>2 DEF From
<1>4. PICK m, x, w : m = socketinfomap /\ x = server[s] /\ w = Head(queue).what
  OBVIOUS
<1>5. m \in [SockIds -> SocketInfos] /\ Data \in Values
  BY <1>4, MapType DEF TypeInv, Values
<1>6. \/ /\ state[s] = "IDENT" /\ UNCHANGED <<tlsstate, responsecatch, socketinfomap, aborted>>
         /\ sendqueue' = [sendqueue EXCEPT ![s] = Append(@, [what |-> w, for |-> client[s]])]
      \/ /\ state[s] = "ESTABLISHED" /\ Query(s, {w}) /\ UNCHANGED sendqueue
         /\ socketinfomap' = SendData(m, x, Data)
         /\ aborted' = (aborted \/ ~(identreceived[s] \/ NoIdnt))
      \/ state[s] = "DISCONNECTED" /\ UNCHANGED <<sendqueue, tlsstate, responsecatch, socketinfomap, aborted>>
  BY <1>2, <1>4 DEF HandleClientData, Tls
<1>7. ASSUME UNCHANGED socketinfomap
      PROVE  SameTypes /\ SameEnds({}) /\ Untouched(socketinfomap, socketinfomap', {server[s]})
  BY <1>7, KeptSelf DEF SameTypes, SameEnds
<1>9. CASE /\ state[s] = "IDENT" /\ UNCHANGED <<tlsstate, responsecatch, socketinfomap, aborted>>
           /\ sendqueue' = [sendqueue EXCEPT ![s] = Append(@, [what |-> w, for |-> client[s]])]
  BY <1>1, <1>2, <1>3, <1>7, <1>9, Zenon DEF ClientSays
<1>10. CASE state[s] = "DISCONNECTED" /\ UNCHANGED <<sendqueue, tlsstate, responsecatch, socketinfomap, aborted>>
  BY <1>1, <1>2, <1>3, <1>7, <1>10, Zenon DEF ClientSays
<1>8. CASE /\ state[s] = "ESTABLISHED" /\ Query(s, {w}) /\ UNCHANGED sendqueue
           /\ socketinfomap' = SendData(m, x, Data)
           /\ aborted' = (aborted \/ ~(identreceived[s] \/ NoIdnt))
  <2> DEFINE d == Data
             n == SendData(m, x, d)
  <2>1. d \in Values
    BY <1>5
  <2> HIDE DEF d
  <2>2. /\ n \in [SockIds -> SocketInfos] /\ Untouched(m, n, {x})
        /\ \A y \in SockIds : n[y].type = m[y].type /\ n[y].er = m[y].er /\ n[y].closing = m[y].closing
        /\ (x \in SockIds /\ m[x].type # "UNUSED") => n[x].first = IF m[x].first = NoSock THEN d ELSE m[x].first
    <3>1. ASSUME NEW v \in Values
          PROVE  LET k == SendData(m, x, v) IN
                 /\ k \in [SockIds -> SocketInfos] /\ Kept(m, k) /\ Untouched(m, k, {x})
                 /\ \A y \in SockIds : k[y].type = m[y].type /\ k[y].er = m[y].er /\ k[y].closing = m[y].closing
                 /\ (x \in SockIds /\ m[x].type # "UNUSED") =>
                        k[x].first = IF m[x].first = NoSock THEN v ELSE m[x].first
      BY <1>5, SendDataMap, Zenon
    <3> QED
      BY <2>1, <3>1
  <2>3. socketinfomap' = n
    BY <1>8 DEF d
  <2> HIDE DEF n
  <2>4. SameTypes /\ SameEnds({}) /\ Untouched(socketinfomap, socketinfomap', {server[s]})
    BY <1>4, <2>2, <2>3 DEF SameTypes, SameEnds
  <2>5. server[s] \in Open => socketinfomap'[server[s]].first =
                IF socketinfomap[server[s]].first = NoSock THEN Data ELSE socketinfomap[server[s]].first
    BY <1>4, <2>2, <2>3 DEF Open, d
  <2>6. Queries(s)
    BY <1>8, QueryDoes
  <2> QED
    BY <1>1, <1>2, <1>3, <1>8, <2>4, <2>5, <2>6 DEF ClientSays
<1> QED
  BY <1>2, <1>6, <1>8, <1>9, <1>10

\* A reply goes to the client; the one to a caught AUTH TLS may start TLS.
ServerSays(s) ==
    /\ Pops /\ From(Head(queue), "DATA", "BncSessionClient", s)
    /\ UNCHANGED <<state, sendqueue, identreceived, identstr, connected, aborted>>
    /\ responsecatch' = [responsecatch EXCEPT ![s] = "NONE"]
    /\ SameEnds({}) /\ Untouched(socketinfomap, socketinfomap', {client[s], server[s]})
    /\ \A y \in SockIds \ {client[s]} : socketinfomap'[y].first = socketinfomap[y].first
    /\ \/ /\ responsecatch[s] = "AUTH_TLS" /\ tlsstate' = [tlsstate EXCEPT ![s] = "IN_PROGRESS"]
          /\ \A y \in SockIds : socketinfomap'[y].type =
                IF y \in {client[s], server[s]} /\ socketinfomap[y].type \in {"LISTEN", "PLAIN"}
                  THEN "SSL_NEG" ELSE socketinfomap[y].type
       \/ UNCHANGED tlsstate /\ SameTypes

LEMMA ServerDetails ==
    ASSUME TypeInv, Structure(queue), HandleServerData
    PROVE  \E s \in Sessions :
            /\ s = Receiver /\ ServerSays(s)
            /\ server[s] \in Open => socketinfomap[server[s]].type # "CONNECTING"
<1>1. /\ At("DATA", "BncSessionClient") /\ "BncSessionClient" \in Classes /\ Handled
      /\ UNCHANGED <<state, sendqueue, identreceived, identstr, connected, aborted>>
  BY DEF HandleServerData, Classes, sessionVars
<1>2. PICK s \in Sessions :
        /\ s = Receiver /\ Pops /\ Head(queue).sock = Own("BncSessionClient", s)
        /\ Head(queue).type = "DATA" /\ Head(queue).to = <<"BncSessionClient", s>>
        /\ Own("BncSessionClient", s) \in Open => socketinfomap[Own("BncSessionClient", s)].type # "CONNECTING"
  BY <1>1, HeadOwn DEF Pops
<1>3. From(Head(queue), "DATA", "BncSessionClient", s) /\ Head(queue).sock = server[s]
      /\ (server[s] \in Open => socketinfomap[server[s]].type # "CONNECTING")
  BY <1>2, OwnOf DEF From
<1>4. PICK m, x, h : m = socketinfomap /\ x = client[s] /\ h = server[s]
  OBVIOUS
<1>5. m \in [SockIds -> SocketInfos]
  BY <1>4, MapType DEF TypeInv
<1> DEFINE n == Negotiate(Negotiate(SendData(m, x, Data), x), h)
           k == SendData(m, x, Data)
<1>6. /\ responsecatch' = [responsecatch EXCEPT ![s] = "NONE"]
      /\ \/ /\ responsecatch[s] = "AUTH_TLS" /\ tlsstate' = [tlsstate EXCEPT ![s] = "IN_PROGRESS"]
            /\ socketinfomap' = n
         \/ UNCHANGED tlsstate /\ socketinfomap' = k
  BY <1>2, <1>3, <1>4 DEF HandleServerData
<1>7. CASE /\ responsecatch[s] = "AUTH_TLS" /\ tlsstate' = [tlsstate EXCEPT ![s] = "IN_PROGRESS"]
           /\ socketinfomap' = n
  <2>1. Begun(m, n, x, h)
    BY <1>5, SecureMap
  <2> HIDE DEF n
  <2> QED
    BY <1>1, <1>2, <1>3, <1>4, <1>6, <1>7, <2>1 DEF ServerSays, SameEnds, Begun
<1>8. CASE UNCHANGED tlsstate /\ socketinfomap' = k
  <2>1. /\ Untouched(m, k, {x})
        /\ \A y \in SockIds : k[y].type = m[y].type /\ k[y].er = m[y].er /\ k[y].closing = m[y].closing
    BY <1>5, SendOther
  <2> HIDE DEF k
  <2>2. Untouched(m, k, {x, h}) /\ \A y \in SockIds \ {x} : k[y].first = m[y].first
    BY <2>1 DEF Untouched
  <2> QED
    BY <1>1, <1>2, <1>3, <1>4, <1>6, <1>8, <2>1, <2>2 DEF ServerSays, SameEnds, SameTypes
<1> QED
  BY <1>6, <1>7, <1>8

\* The handshake with the server is done.
Secures(s) ==
    /\ Pops /\ From(Head(queue), "SSL_SUCCESS", "BncSessionClient", s)
    /\ tlsstate' = [tlsstate EXCEPT ![s] = "ACTIVE"]
    /\ aborted' = (aborted \/ tlsstate[s] # "IN_PROGRESS")
    /\ UNCHANGED <<state, sendqueue, identreceived, identstr, connected, responsecatch, socketinfomap>>

LEMMA SSLDetails ==
    ASSUME TypeInv, Structure(queue), HandleServerSSL
    PROVE  \E s \in Sessions : s = Receiver /\ Secures(s)
<1>1. /\ At("SSL_SUCCESS", "BncSessionClient") /\ "BncSessionClient" \in Classes /\ Handled
      /\ UNCHANGED <<state, sendqueue, identreceived, identstr, connected, responsecatch, socketinfomap>>
  BY DEF HandleServerSSL, Classes, sessionVars
<1>2. PICK s \in Sessions :
        /\ s = Receiver /\ Pops
        /\ Head(queue).type = "SSL_SUCCESS" /\ Head(queue).to = <<"BncSessionClient", s>>
  BY <1>1, HeadOwn DEF Pops
<1>3. /\ tlsstate' = [tlsstate EXCEPT ![s] = "ACTIVE"]
      /\ aborted' = (aborted \/ tlsstate[s] # "IN_PROGRESS")
  BY <1>2 DEF HandleServerSSL
<1>4. From(Head(queue), "SSL_SUCCESS", "BncSessionClient", s)
  BY <1>2 DEF From
<1> QED
  BY <1>1, <1>2, <1>3, <1>4, Zenon DEF Secures

\* Only the socket of the ident request is concerned,
Idles(s) ==
    /\ UNCHANGED <<state, sendqueue, identreceived, identstr, connected, tlsstate, responsecatch, aborted>>
    /\ SameTypes /\ SameFirst /\ SameEnds({identp[s]}) /\ Untouched(socketinfomap, socketinfomap', {identp[s]})

\* or the session goes on without it.
Continues(s) ==
    /\ state[s] = "IDENT" /\ state' = [state EXCEPT ![s] = "ESTABLISHED"]
    /\ sendqueue' = [sendqueue EXCEPT ![s] = <<>>]
    /\ \E user \in {Nobody, client[s]} :
        /\ identstr' = [identstr EXCEPT ![s] = user]
        /\ (connected[s] /\ server[s] \in Open') => socketinfomap'[server[s]].first =
                IF socketinfomap[server[s]].first = NoSock THEN user ELSE socketinfomap[server[s]].first
    /\ identreceived' = [identreceived EXCEPT ![s] = TRUE]
    /\ Queries(s) /\ UNCHANGED <<connected, aborted>>
    /\ SameTypes /\ SameEnds({identp[s]})
    /\ Untouched(socketinfomap, socketinfomap', {identp[s], server[s]})
    /\ (~connected[s] /\ sendqueue[s] = <<>>) => SameFirst

LEMMA IdentifiedDetails ==
    ASSUME TypeInv, NEW s \in Sessions, NEW user \in {Nobody, client[s]} \cap (SockIds \cup {Nobody}),
           NEW m \in [SockIds -> SocketInfos],
           Kept(socketinfomap, m), Untouched(socketinfomap, m, {identp[s]}),
           \A y \in SockIds : m[y].type # "UNUSED" =>
                m[y].first = socketinfomap[y].first /\ m[y].type = socketinfomap[y].type,
           Identified(s, user, m) \/ Late(s, m), UNCHANGED <<connected, aborted>>
    PROVE  Idles(s) \/ Continues(s)
<1>1. \A y \in SockIds \ {identp[s]} : m[y] = socketinfomap[y]
  BY DEF Untouched
<1>2. CASE Late(s, m)
  <2>1. /\ socketinfomap' = m
        /\ UNCHANGED <<state, sendqueue, identreceived, identstr, tlsstate, responsecatch>>
    BY <1>2 DEF Late
  <2>2. SameTypes /\ SameFirst /\ SameEnds({identp[s]})
    BY <1>1, <2>1 DEF SameTypes, SameFirst, SameEnds, Open
  <2> QED
    BY <2>1, <2>2 DEF Idles
<1>3. CASE Resumes(s, user, m)
  <2> DEFINE n == socketinfomap'
  <2>1. /\ state[s] = "IDENT"
        /\ state' = [state EXCEPT ![s] = "ESTABLISHED"] /\ sendqueue' = [sendqueue EXCEPT ![s] = <<>>]
        /\ identstr' = [identstr EXCEPT ![s] = user] /\ identreceived' = [identreceived EXCEPT ![s] = TRUE]
        /\ n \in [SockIds -> SocketInfos] /\ Kept(m, n) /\ Untouched(m, n, {server[s]})
        /\ \A y \in SockIds : n[y].type = m[y].type /\ n[y].er = m[y].er /\ n[y].closing = m[y].closing
        /\ (connected[s] /\ server[s] \in SockIds /\ m[server[s]].type # "UNUSED") =>
                n[server[s]].first = IF m[server[s]].first = NoSock THEN user ELSE m[server[s]].first
        /\ (~connected[s] /\ sendqueue[s] = <<>>) => n = m
        /\ Queries(s)
    BY <1>3, Zenon DEF Resumes
  <2>2. SameTypes /\ SameEnds({identp[s]})
    BY <1>1, <2>1 DEF SameTypes, SameEnds, Open
  <2>3. Untouched(socketinfomap, n, {identp[s], server[s]})
    BY <1>1, <2>1 DEF Untouched
  <2>4. (connected[s] /\ server[s] \in Open') => socketinfomap'[server[s]].first =
                IF socketinfomap[server[s]].first = NoSock THEN user ELSE socketinfomap[server[s]].first
    BY <2>1 DEF Open
  <2>5. (~connected[s] /\ sendqueue[s] = <<>>) => SameFirst
    BY <2>1 DEF SameFirst, Open
  <2> HIDE DEF n
  <2> QED
    BY <2>1, <2>2, <2>3, <2>4, <2>5 DEF Continues, n
<1> QED
  BY <1>2, <1>3, IdentifiedDoes

\* What is sent to an ident server.
Asks(s) ==
    /\ UNCHANGED <<state, sendqueue, identreceived, identstr, connected, tlsstate, responsecatch, aborted>>
    /\ SameTypes /\ SameEnds({}) /\ Untouched(socketinfomap, socketinfomap', {identp[s]})

LEMMA SelfDetails ==
    ASSUME NEW s, UNCHANGED <<state, sendqueue, identreceived, identstr, connected, tlsstate, responsecatch,
                              aborted, socketinfomap>>
    PROVE  Idles(s)
BY KeptSelf DEF Idles, SameTypes, SameFirst, SameEnds

LEMMA ClientSSLDetails ==
    ASSUME TypeInv, Structure(queue), HandleClientSSL
    PROVE  \E s \in Sessions : s = Receiver /\ Idles(s)
<1>1. /\ At("SSL_SUCCESS", "BncSession") /\ "BncSession" \in Classes /\ Handled
      /\ UNCHANGED <<state, sendqueue, identreceived, identstr, connected, tlsstate, responsecatch,
                     aborted, socketinfomap>>
  BY DEF HandleClientSSL, Classes, sessionVars, clientVars
<1>2. PICK s \in Sessions : s = Receiver
  BY <1>1, HeadOwn
<1> QED
  BY <1>1, <1>2, SelfDetails

LEMMA IdentConnectedDetails ==
    ASSUME TypeInv, Structure(queue), HandleIdentConnected
    PROVE  \E s \in Sessions : s = Receiver /\ Asks(s)
<1>1. /\ At("CONNECTED", "Ident") /\ "Ident" \in Classes /\ Handled
      /\ UNCHANGED <<state, sendqueue, identreceived, identstr, connected, tlsstate, responsecatch, aborted>>
  BY DEF HandleIdentConnected, Classes, sessionVars, clientVars
<1>2. PICK s \in Sessions : s = Receiver /\ Head(queue).sock = Own("Ident", s)
  BY <1>1, HeadOwn
<1>3. PICK m, x : m = socketinfomap /\ x = identp[s]
  OBVIOUS
<1>4. m \in [SockIds -> SocketInfos] /\ Head(queue).sock = x
  BY <1>2, <1>3, MapType, OwnOf DEF TypeInv
<1> DEFINE n == SendData(m, x, Data)
<1>5. /\ Untouched(m, n, {x})
      /\ \A y \in SockIds : n[y].type = m[y].type /\ n[y].er = m[y].er /\ n[y].closing = m[y].closing
  BY <1>4, SendOther
<1>6. socketinfomap' = n
  BY <1>3, <1>4 DEF HandleIdentConnected
<1> HIDE DEF n
<1> QED
  BY <1>1, <1>2, <1>3, <1>5, <1>6 DEF Asks, SameTypes, SameEnds

LEMMA IdentDataDetails ==
    ASSUME TypeInv, Structure(queue), HandleIdentData
    PROVE  \E s \in Sessions : s = Receiver /\ (Idles(s) \/ Continues(s))
<1>1. At("DATA", "Ident") /\ "Ident" \in Classes /\ Handled /\ UNCHANGED <<connected, aborted>>
  BY DEF HandleIdentData, Classes
<1>2. PICK s \in Sessions :
        s = Receiver /\ Head(queue).sock = Own("Ident", s) /\ Head(queue).for = client[s] /\ Head(queue).for \in SockIds
  BY <1>1, HeadOwn
<1>3. PICK x : x = identp[s]
  OBVIOUS
<1>4. PICK m : m = CloseSocket(socketinfomap, x)
  OBVIOUS
<1>5. /\ m \in [SockIds -> SocketInfos] /\ Kept(socketinfomap, m) /\ Untouched(socketinfomap, m, {x})
      /\ \A y \in SockIds : m[y].type # "UNUSED" =>
            m[y].first = socketinfomap[y].first /\ m[y].type = socketinfomap[y].type
  BY <1>4, CloseSocketMap, MapType DEF TypeInv
<1>6. PICK user : user = IF Head(queue).what = "user" THEN Head(queue).for ELSE Nobody
  OBVIOUS
<1>7. user \in {Nobody, client[s]} \cap (SockIds \cup {Nobody})
  BY <1>2, <1>6
<1>8. Identified(s, user, m) \/ Late(s, m)
  BY <1>2, <1>3, <1>4, <1>6, OwnOf DEF HandleIdentData, Late, sessionVars, Tls
<1> QED
  BY <1>1, <1>2, <1>3, <1>5, <1>7, <1>8, IdentifiedDetails

LEMMA NobodyDetails ==
    ASSUME TypeInv, NEW s \in Sessions, UNCHANGED <<connected, aborted>>,
           \/ Identified(s, Nobody, socketinfomap)
           \/ UNCHANGED <<state, sendqueue, identreceived, identstr, tlsstate, responsecatch, socketinfomap>>
    PROVE  Idles(s) \/ Continues(s)
<1>1. CASE Identified(s, Nobody, socketinfomap)
  <2>1. PICK m : m = socketinfomap
    OBVIOUS
  <2>2. /\ m \in [SockIds -> SocketInfos] /\ Kept(socketinfomap, m) /\ Untouched(socketinfomap, m, {identp[s]})
        /\ \A y \in SockIds : m[y].type # "UNUSED" =>
            m[y].first = socketinfomap[y].first /\ m[y].type = socketinfomap[y].type
    BY <2>1, KeptSelf, MapType DEF TypeInv
  <2>3. Nobody \in {Nobody, client[s]} \cap (SockIds \cup {Nobody})
    OBVIOUS
  <2> QED
    BY <1>1, <2>1, <2>2, <2>3, IdentifiedDetails
<1>2. CASE UNCHANGED <<state, sendqueue, identreceived, identstr, tlsstate, responsecatch, socketinfomap>>
  BY <1>2, SelfDetails
<1> QED
  BY <1>1, <1>2

LEMMA IdentEndDetails ==
    ASSUME TypeInv, Structure(queue), HandleIdentEnd
    PROVE  \E s \in Sessions : s = Receiver /\ (Idles(s) \/ Continues(s))
<1>1. /\ At("DISCONNECTED", "Ident") \/ At("FAIL", "Ident")
      /\ "Ident" \in Classes /\ Handled /\ UNCHANGED <<connected, aborted>>
  BY DEF HandleIdentEnd, Classes
<1>2. PICK s \in Sessions : s = Receiver
  BY <1>1, HeadOwn
<1>3. \/ Identified(s, Nobody, socketinfomap)
      \/ UNCHANGED <<state, sendqueue, identreceived, identstr, tlsstate, responsecatch, socketinfomap>>
  BY <1>2 DEF HandleIdentEnd, sessionVars, Tls
<1> QED
  BY <1>1, <1>2, <1>3, NobodyDetails

\* A step of the worker for session s, but a new connection.
Works(s) ==
    /\ Serves(s, {})
    /\ \/ Finishes(s) \/ Connects(s) \/ ClientSays(s) \/ Secures(s) \/ Asks(s) \/ Idles(s) \/ Continues(s)
       \/ ServerSays(s) /\ (server[s] \in Open => socketinfomap[server[s]].type # "CONNECTING")
    /\ \/ Connects(s) \/ queue' = queue
       \/ \A t : ~From(Head(queue), "CONNECTED", "BncSessionClient", t)

LEMMA Working ==
    ASSUME TypeInv, Structure(queue), Serving \/ IdentTick
    PROVE  \E s : Works(s)
<1>1. CASE IdentTick
  <2>1. PICK s : /\ Serves(s, {}) /\ queue' = queue /\ UNCHANGED <<connected, aborted>>
                 /\ \/ Identified(s, Nobody, socketinfomap)
                    \/ UNCHANGED <<state, sendqueue, identreceived, identstr, tlsstate, responsecatch, socketinfomap>>
    BY <1>1, TickServes
  <2>2. Idles(s) \/ Continues(s)
    BY <2>1, NobodyDetails DEF Serves
  <2> QED
    BY <2>1, <2>2 DEF Works
<1>2. CASE Serving
  <2>1. PICK s, X : s = Receiver /\ X = Sock /\ Serves(s, X)
    BY <1>2, ServingServes
  <2>2. PICK t \in {"CONNECTED", "FAIL", "DISCONNECTED", "DATA", "SSL_SUCCESS"}, class \in Classes : At(t, class)
    BY <1>2, ServingHead
  <2>3. Handled
    BY <1>2, ServingHead
  <2>4. s \in Sessions /\ Head(queue).sock = Own(class, s) /\ Head(queue).type = t /\ Head(queue).to = <<class, s>>
    BY <2>1, <2>2, <2>3, HeadOwn
  <2>5. X \subseteq {client[s], server[s], identp[s]}
    BY <2>1, <2>4, OwnOf DEF Sock
  <2>6. Serves(s, {})
    BY <2>1, <2>5 DEF Serves, Untouched
  <2>7. \/ Finishes(s) \/ Connects(s) \/ ClientSays(s) \/ Secures(s) \/ Asks(s) \/ Idles(s) \/ Continues(s)
        \/ ServerSays(s) /\ (server[s] \in Open => socketinfomap[server[s]].type # "CONNECTING")
    BY <1>2, <2>1, EndDetails, ConnectedDetails, ClientDetails, ServerDetails, SSLDetails, ClientSSLDetails,
       IdentConnectedDetails, IdentDataDetails, IdentEndDetails DEF Serving
  <2>8. Connects(s) \/ \A u : ~From(Head(queue), "CONNECTED", "BncSessionClient", u)
    <3>1. CASE HandleServerConnected
      BY <2>1, <3>1, ConnectedDetails
    <3>2. CASE ~HandleServerConnected
      <4>1. ~At("CONNECTED", "BncSessionClient")
        BY <1>2, <3>2 DEF Serving, At, HandleClientDisconnected, HandleServerDisconnected, HandleServerFail,
           HandleClientData, HandleServerData, HandleServerSSL, HandleClientSSL,
           HandleIdentConnected, HandleIdentData, HandleIdentEnd
      <4>2. queue # <<>>
        BY <2>2 DEF At
      <4> QED
        BY <4>1, <4>2 DEF At, From
    <3> QED
      BY <3>1, <3>2
  <2> QED
    BY <2>6, <2>7, <2>8 DEF Works
<1> QED
  BY <1>1, <1>2

\* What belongs to whom is kept by every step.
LEMMA WorksStructure ==
    ASSUME TypeInv, Structure(queue), NEW s, Works(s)
    PROVE  Structure(queue)'
<1>1. s \in Sessions /\ Serves(s, {})
  BY DEF Works, Serves
<1>2. \A y \in SockIds : y \in Open' => y \in Open
  BY <1>1, MapType, OpenPrime DEF Serves, TypeInv
<1>3. SameTypes \/ ServerSays(s)
  BY DEF Works, Finishes, Connects, ClientSays, Secures, Asks, Idles, Continues, SameTypes
<1>4. ASSUME NEW y \in SockIds, y \in Open', socketinfomap[y].er # <<>>, Class(y) = "Ident"
      PROVE  socketinfomap'[y].type = socketinfomap[y].type
  <2>1. CASE SameTypes
    BY <1>4, <2>1 DEF SameTypes
  <2>2. CASE ServerSays(s)
    <3>1. y \in Open
      BY <1>2, <1>4
    <3>2. y # client[s] /\ y # server[s]
      BY <1>1, <1>4, <3>1, OwnOf DEF Structure, Named, Class
    <3> QED
      BY <2>2, <3>2 DEF ServerSays, Untouched
  <2> QED
    BY <1>3, <2>1, <2>2
<1> QED
  BY <1>1, <1>4, ServesStructure

LEMMA NextStructure ==
    ASSUME Sequential, TypeInv, Structure(queue), [Next]_vars
    PROVE  Structure(queue)'
<1>1. ASSUME NEW x \in SockIds,
             Connect(x) \/ ConnectFails(x) \/ Read(x) \/ ReadEnd(x) \/ Drain(x) \/ WriteFails(x) \/ Negotiated(x)
      PROVE  Structure(queue)'
  BY <1>1, IOMoves, MovesStructure
<1>2. CASE Serving \/ IdentTick
  BY <1>2, Working, WorksStructure
<1>3. CASE UNCHANGED vars
  BY <1>3 DEF vars, sessionVars, sockids, clientVars, identVars, Structure, Sockets, Named, Delivered,
     Arrivals, Gone, Pending, Own, Open, Class, Session, Dead
<1> QED
  BY <1>1, <1>2, <1>3, AcceptStructure, NewStructure DEF Next, IONext, Handle, Serving

LEMMA InitStructure == Init => Structure(queue)
BY MailEmpty DEF Init, Structure, Sockets, Named, Delivered, Arrivals, Open, Unused

-----------------------------------------------------------------------------
(* Sessions do not touch one another.                                      *)

LEMMA Apart ==
    ASSUME Structure(queue), NEW s \in Sessions, NEW t \in Sessions, NEW k \in Classes, NEW l \in Classes,
           Own(k, s) \in Open, Own(k, s) = Own(l, t)
    PROVE  k = l /\ s = t
<1>1. /\ socketinfomap[Own(k, s)].er = <<k, s>>
      /\ socketinfomap[Own(k, s)].er = <<l, t>>
  BY DEF Structure, Named
<1> QED
  BY <1>1

LEMMA OthersKept ==
    ASSUME TypeInv, Structure(queue), NEW s, Works(s), NEW t \in Sessions, t # s,
           NEW class \in Classes, Own(class, t) \in Open'
    PROVE  Own(class, t) \in Open /\ socketinfomap'[Own(class, t)] = socketinfomap[Own(class, t)]
<1> DEFINE x == Own(class, t)
<1>1. /\ s \in Sessions /\ socketinfomap \in [SockIds -> SocketInfos] /\ socketinfomap' \in [SockIds -> SocketInfos]
      /\ Kept(socketinfomap, socketinfomap')
      /\ Untouched(socketinfomap, socketinfomap', {} \cup {client[s], server[s], identp[s]})
  BY MapType DEF Works, Serves, TypeInv
<1>2. x \in SockIds /\ x \in Open
  BY <1>1, OpenPrime DEF Open
<1>3. x \notin {client[s], server[s], identp[s]}
  BY <1>1, <1>2, Apart, OwnOf
<1> QED
  BY <1>1, <1>2, <1>3 DEF Untouched

LEMMA OthersNew ==
    ASSUME TypeInv, Structure(queue), NEW s, NEW c, NEW y, NEW Z, NEW r, Begins(s, c, y, Z, r), ~Names(c),
           NEW t \in Sessions, t # s
    PROVE  /\ \A class \in Classes :
                /\ Own(class, t)' = Own(class, t)
                /\ Own(class, t) \in Open' =>
                        Own(class, t) \in Open /\ socketinfomap'[Own(class, t)] = socketinfomap[Own(class, t)]
           /\ state'[t] = state[t] /\ sendqueue'[t] = sendqueue[t]
           /\ client'[t] = client[t] /\ server'[t] = server[t]
           /\ identreceived'[t] = identreceived[t] /\ identstr'[t] = identstr[t]
           /\ connected'[t] = connected[t] /\ tlsstate'[t] = tlsstate[t]
           /\ responsecatch'[t] = responsecatch[t]
<1>1. /\ s \in Sessions /\ y \in Free /\ Z \subseteq Free /\ c \in SockIds
      /\ \A x \in SockIds \ (Z \cup {c, y}) : socketinfomap'[x] = socketinfomap[x]
      /\ client' = [client EXCEPT ![s] = c] /\ server' = [server EXCEPT ![s] = y]
      /\ identp' = identp \/ \E z \in Z : identp' = [identp EXCEPT ![s] = z]
      /\ state' = [state EXCEPT ![s] = IF AsksIdent THEN "IDENT" ELSE "ESTABLISHED"]
      /\ connected' = [connected EXCEPT ![s] = FALSE]
      /\ tlsstate' = [tlsstate EXCEPT ![s] = "NONE"]
      /\ responsecatch' = [responsecatch EXCEPT ![s] = "NONE"]
      /\ identreceived' = [identreceived EXCEPT ![s] = ~AsksIdent /\ ~NoIdnt]
      /\ identstr' = [identstr EXCEPT ![s] = Nobody]
      /\ sendqueue' = sendqueue
  BY Zenon DEF Begins
<1>2. /\ state'[t] = state[t] /\ client'[t] = client[t] /\ server'[t] = server[t]
      /\ identreceived'[t] = identreceived[t] /\ identstr'[t] = identstr[t]
      /\ connected'[t] = connected[t] /\ tlsstate'[t] = tlsstate[t]
      /\ responsecatch'[t] = responsecatch[t] /\ identp'[t] = identp[t]
  BY <1>1 DEF TypeInv, TypeOK
<1>3. ASSUME NEW class \in Classes
      PROVE  /\ Own(class, t)' = Own(class, t)
             /\ Own(class, t) \in Open' =>
                    Own(class, t) \in Open /\ socketinfomap'[Own(class, t)] = socketinfomap[Own(class, t)]
  <2>1. Own(class, t)' = Own(class, t)
    BY <1>2 DEF Own
  <2>2. \A x \in Z \cup {y} : ~Names(x)
    BY <1>1, FreshIsNew
  <2>3. Own(class, t) \in SockIds => Own(class, t) \notin Z \cup {c, y}
    BY <2>2, OwnOf DEF Names
  <2> QED
    BY <1>1, <2>1, <2>3 DEF Open
<1> QED
  BY <1>1, <1>2, <1>3

-----------------------------------------------------------------------------
(* Nothing is left open.                                                   *)

LEMMA NextOver ==
    ASSUME Sequential, TypeInv, Structure(queue), Over, [Next]_vars
    PROVE  Over'
<1>1. ASSUME NEW x \in SockIds, Moves(x) PROVE Over'
  <2>1. /\ UNCHANGED <<state, client, server>> /\ socketinfomap \in [SockIds -> SocketInfos]
        /\ socketinfomap' = [socketinfomap EXCEPT ![x] = socketinfomap'[x]]
        /\ socketinfomap[x].type # "UNUSED"
        /\ socketinfomap'[x].type # "UNUSED" => socketinfomap'[x].closing = socketinfomap[x].closing
    BY <1>1, MapType DEF Moves, IOStep, sessionVars, sockids, TypeInv
  <2>2. \A y \in SockIds : y \in Open' => y \in Open /\ socketinfomap'[y].closing = socketinfomap[y].closing
    BY <2>1 DEF Open
  <2> QED
    BY <2>1, <2>2 DEF Over, Open, Dead
<1>2. CASE Accept
  <2>1. PICK c : c = Fresh
    OBVIOUS
  <2>2. ~Names(c)
    BY <1>2, <2>1, FreshIds, FreshIsNew DEF Accept
  <2>3. /\ UNCHANGED <<state, client, server>> /\ socketinfomap \in [SockIds -> SocketInfos]
        /\ socketinfomap' = [socketinfomap EXCEPT ![c] = New("LISTEN", <<>>, c)]
    BY <1>2, <2>1, MapType DEF Accept, sessionVars, sockids, TypeInv
  <2>4. ASSUME NEW s \in Sessions, NEW x \in {client[s], server[s]} PROVE x # c
    BY <2>2, <2>4 DEF Names
  <2> QED
    BY <2>3, <2>4 DEF Over, Open, Dead
<1>3. CASE HandleNew
  <2>1. PICK s, c, y, Z, r : Begins(s, c, y, Z, r) /\ Pending(c) /\ ~Names(c)
    BY <1>3, NewStructure
  <2>2. /\ s \in Sessions /\ c \in SockIds /\ y \in SockIds /\ socketinfomap[y].type = "UNUSED"
        /\ socketinfomap'[c] = [socketinfomap[c] EXCEPT !.er = <<"BncSession", s>>]
        /\ socketinfomap'[y] = New("CONNECTING", <<"BncSessionClient", s>>, c) \/ socketinfomap'[y] = socketinfomap[y]
        /\ client' = [client EXCEPT ![s] = c] /\ server' = [server EXCEPT ![s] = y]
        /\ state' = [state EXCEPT ![s] = IF AsksIdent THEN "IDENT" ELSE "ESTABLISHED"]
    BY <2>1, FreshIsNew DEF Begins
  <2>3. client'[s] = c /\ server'[s] = y /\ ~Dead(s)'
    BY <2>2 DEF TypeInv, TypeOK, Dead
  <2>4. socketinfomap[c] = New("LISTEN", <<>>, c)
    BY <2>1, <2>2 DEF TypeInv, Unclaimed
  <2>5. ~socketinfomap'[c].closing
    BY <2>2, <2>4, NewFields DEF New, Unused
  <2>6. socketinfomap'[y].type # "UNUSED" => ~socketinfomap'[y].closing
    BY <2>2, NewFields
  <2> SUFFICES ASSUME NEW t \in Sessions, NEW x \in Open', x \in {client'[t], server'[t]}
               PROVE  Dead(t)' <=> socketinfomap'[x].closing
    BY DEF Over
  <2>7. CASE t = s
    BY <2>3, <2>5, <2>6, <2>7 DEF Open
  <2>8. CASE t # s
    <3>1. /\ client'[t] = client[t] /\ server'[t] = server[t] /\ state'[t] = state[t]
          /\ \A class \in Classes : Own(class, t) \in Open' =>
                Own(class, t) \in Open /\ socketinfomap'[Own(class, t)] = socketinfomap[Own(class, t)]
      BY <2>1, <2>8, OthersNew
    <3> QED
      BY <3>1, OwnOf DEF Over, Dead
  <2> QED
    BY <2>7, <2>8
<1>4. ASSUME NEW s, Works(s) PROVE Over'
  <2>1. /\ s \in Sessions /\ UNCHANGED <<client, server, identp>>
        /\ \A t \in Sessions \ {s} : state'[t] = state[t]
        /\ \A y \in SockIds : y \in Open' => y \in Open
    BY <1>4, MapType, OpenPrime DEF Works, Serves, sockids, TypeInv
  <2> SUFFICES ASSUME NEW t \in Sessions, NEW x \in Open', x \in {client[t], server[t]}
               PROVE  Dead(t)' <=> socketinfomap'[x].closing
    BY <2>1 DEF Over
  <2>2. CASE t # s
    BY <1>4, <2>1, <2>2, OthersKept, OwnOf DEF Over, Dead
  <2>3. CASE t = s /\ Finishes(s)
    BY <2>1, <2>3 DEF Finishes, Dead, TypeInv, TypeOK
  <2>4. CASE t = s /\ ~Finishes(s)
    <3>1. x \in Open /\ x \in SockIds
      BY <2>1 DEF Open
    <3>2. x # identp[s]
      BY <2>1, <2>4, <3>1, Apart, OwnOf
    <3>3. SameEnds({identp[s]})
      BY <1>4, <2>4, KeptSelf DEF Works, SameEnds, Connects, ClientSays, ServerSays, Secures, Asks, Idles, Continues
    <3>4. Dead(s)' <=> Dead(s)
      <4>1. state' = state \/ (state[s] = "IDENT" /\ state' = [state EXCEPT ![s] = "ESTABLISHED"])
        BY <1>4, <2>4 DEF Works, Connects, ClientSays, ServerSays, Secures, Asks, Idles, Continues
      <4> QED
        BY <2>1, <4>1 DEF Dead, TypeInv, TypeOK
    <3> QED
      BY <2>4, <3>1, <3>2, <3>3, <3>4 DEF Over, SameEnds
  <2> QED
    BY <2>2, <2>3, <2>4
<1>5. CASE UNCHANGED vars
  BY <1>5 DEF vars, sessionVars, sockids, Over, Dead, Open
<1> QED
  BY <1>1, <1>2, <1>3, <1>4, <1>5, IOMoves, Working DEF Next, IONext, Handle, Serving

LEMMA OrphansNone == TypeInv /\ Structure(queue) /\ Over => NoOrphans
<1> SUFFICES ASSUME TypeInv, Structure(queue), Over, NEW x \in Open
             PROVE  \/ socketinfomap[x].closing
                    \/ \E i \in News : queue[i].sock = x
                    \/ Class(x) = "Ident"
                    \/ /\ state[Session(x)] # "DISCONNECTED"
                       /\ x \in {client[Session(x)], server[Session(x)]}
  BY DEF NoOrphans, Class, Session
<1>1. CASE Pending(x)
  <2>1. PICK e \in Mail(queue) : e.type = "NEW" /\ e.sock = x
    BY <1>1 DEF Structure, Arrivals
  <2> QED
    BY <2>1 DEF Mail, News
<1>2. CASE ~Pending(x)
  <2>1. x \in SockIds /\ socketinfomap[x].er # <<>>
    BY <1>2 DEF Pending, Open
  <2>2. Class(x) \in Classes /\ Session(x) \in Sessions /\ x = Own(Class(x), Session(x))
    BY <2>1, ErType DEF Structure, Sockets
  <2>3. Class(x) = "Ident" \/ x \in {client[Session(x)], server[Session(x)]}
    BY <2>2, OwnOf
  <2> QED
    BY <2>2, <2>3 DEF Over, Dead
<1> QED
  BY <1>1, <1>2

LEMMA InitOver == Init => Over
BY DEF Init, Over, Open, Unused

\* When a session is over, both its connections are closed or told to close, and
\* no other socket is without a session, but an ident request that timed out
\* (BncSession::disconnect, targetDisconnected, targetConnectFailed in
\* bncsession.cpp).
THEOREM NothingOrphaned ==
    ASSUME Sequential
    PROVE  Spec => []NoOrphans
<1> DEFINE Inv == TypeInv /\ Structure(queue) /\ Over
<1>1. Init => Inv
  BY InitTypes, InitStructure, InitOver
<1>2. Inv /\ [Next]_vars => Inv'
  BY NextTypes, NextStructure, NextOver
<1>3. Inv => NoOrphans
  BY OrphansNone
<1> QED
  BY <1>1, <1>2, <1>3, PTL DEF Spec

-----------------------------------------------------------------------------
(* What a session keeps is its client's.                                   *)

LEMMA NextData ==
    ASSUME Sequential, TypeInv, Structure(queue), OwnData, [Next]_vars
    PROVE  OwnData'
<1>1. ASSUME IOStep PROVE OwnData'
  BY <1>1 DEF IOStep, sessionVars, sockids, clientVars, OwnData
<1>2. CASE HandleNew
  <2>1. PICK s, c, y, Z, r : Begins(s, c, y, Z, r) /\ ~Names(c)
    BY <1>2, NewStructure
  <2>2. /\ s \in Sessions /\ Dead(s) /\ sendqueue' = sendqueue
        /\ state' = [state EXCEPT ![s] = IF AsksIdent THEN "IDENT" ELSE "ESTABLISHED"]
        /\ identreceived' = [identreceived EXCEPT ![s] = ~AsksIdent /\ ~NoIdnt]
        /\ identstr' = [identstr EXCEPT ![s] = Nobody]
    BY <2>1 DEF Begins
  <2>3. /\ identstr'[s] = Nobody /\ sendqueue'[s] = <<>>
        /\ state'[s] = "ESTABLISHED" => identreceived'[s] \/ NoIdnt
    BY <2>2 DEF TypeInv, TypeOK, Dead
  <2> SUFFICES ASSUME NEW t \in Sessions
               PROVE  /\ identstr'[t] \in {Nobody, client'[t]}
                      /\ \A i \in DOMAIN sendqueue'[t] : sendqueue'[t][i].for = client'[t]
                      /\ state'[t] = "ESTABLISHED" => identreceived'[t] \/ NoIdnt
    BY DEF OwnData
  <2>4. CASE t = s
    BY <2>3, <2>4
  <2>5. CASE t # s
    <3>1. /\ state'[t] = state[t] /\ sendqueue'[t] = sendqueue[t] /\ client'[t] = client[t]
          /\ identreceived'[t] = identreceived[t] /\ identstr'[t] = identstr[t]
      BY <2>1, <2>5, OthersNew
    <3> QED
      BY <3>1 DEF OwnData
  <2> QED
    BY <2>4, <2>5
<1>3. ASSUME NEW s, Works(s) PROVE OwnData'
  <2>1. /\ s \in Sessions /\ UNCHANGED client
        /\ \A t \in Sessions \ {s} :
            /\ state'[t] = state[t] /\ sendqueue'[t] = sendqueue[t]
            /\ identreceived'[t] = identreceived[t] /\ identstr'[t] = identstr[t]
    BY <1>3 DEF Works, Serves, sockids
  <2>2. /\ state \in [Sessions -> {"DISCONNECTED", "IDENT", "ESTABLISHED"}]
        /\ sendqueue \in [Sessions -> Seq([what : Contents, for : SockIds])]
        /\ identreceived \in [Sessions -> BOOLEAN] /\ identstr \in [Sessions -> SockIds \cup {Nobody}]
    BY DEF TypeInv, TypeOK
  <2> SUFFICES ASSUME NEW t \in Sessions
               PROVE  /\ identstr'[t] \in {Nobody, client[t]}
                      /\ \A i \in DOMAIN sendqueue'[t] : sendqueue'[t][i].for = client[t]
                      /\ state'[t] = "ESTABLISHED" => identreceived'[t] \/ NoIdnt
    BY <2>1 DEF OwnData
  <2>3. CASE t # s
    BY <2>1, <2>3 DEF OwnData
  <2>4. CASE t = s /\ Finishes(s)
    BY <2>1, <2>2, <2>4 DEF Finishes, OwnData
  <2>5. CASE t = s /\ ClientSays(s)
    <3>1. UNCHANGED <<state, identreceived, identstr>>
      BY <2>5 DEF ClientSays
    <3>2. CASE UNCHANGED sendqueue
      BY <2>5, <3>1, <3>2 DEF OwnData
    <3>3. ASSUME NEW w, sendqueue' = [sendqueue EXCEPT ![s] = Append(@, [what |-> w, for |-> client[s]])]
          PROVE  \A i \in DOMAIN sendqueue'[s] : sendqueue'[s][i].for = client[s]
      <4>1. PICK q : q = sendqueue[s]
        OBVIOUS
      <4>2. PICK d : d = [what |-> w, for |-> client[s]]
        OBVIOUS
      <4>3. sendqueue'[s] = Append(q, d) /\ q \in Seq([what : Contents, for : SockIds]) /\ d.for = client[s]
        BY <2>1, <2>2, <3>3, <4>1, <4>2
      <4>4. \A i \in DOMAIN Append(q, d) : (i \in DOMAIN q /\ Append(q, d)[i] = q[i]) \/ Append(q, d)[i] = d
        BY <4>3
      <4>5. \A i \in DOMAIN q : q[i].for = client[s]
        BY <2>1, <4>1 DEF OwnData
      <4> QED
        BY <4>3, <4>4, <4>5
    <3> QED
      BY <2>5, <3>1, <3>2, <3>3 DEF ClientSays, OwnData
  <2>6. CASE t = s /\ Continues(s)
    BY <2>1, <2>2, <2>6 DEF Continues
  <2>7. CASE t = s /\ ~(Finishes(s) \/ ClientSays(s) \/ Continues(s))
    <3>1. UNCHANGED <<state, sendqueue, identreceived, identstr>>
      BY <1>3, <2>7 DEF Works, Connects, ServerSays, Secures, Asks, Idles
    <3> QED
      BY <2>7, <3>1 DEF OwnData
  <2> QED
    BY <2>3, <2>4, <2>5, <2>6, <2>7
<1>4. CASE UNCHANGED vars
  BY <1>4 DEF vars, sessionVars, sockids, clientVars, OwnData
<1>5. ASSUME NEW x \in SockIds, Moves(x) PROVE IOStep
  BY <1>5 DEF Moves
<1>6. Accept => IOStep
  BY DEF Accept, IOStep
<1> QED
  BY <1>1, <1>2, <1>3, <1>4, <1>5, <1>6, IOMoves, Working DEF Next, IONext, Handle, Serving

LEMMA InitData == Init => OwnData
BY DEF Init, OwnData

-----------------------------------------------------------------------------
(* Events that come once.                                                  *)

LEMMA TailAt ==
    ASSUME NEW q \in Seq(Events), q # <<>>
    PROVE  /\ Head(q) = q[1] /\ 1 \in DOMAIN q
           /\ \A i \in DOMAIN Tail(q) : i \in Nat /\ i > 0 /\ i + 1 \in DOMAIN q /\ Tail(q)[i] = q[i + 1]
           /\ \A i \in DOMAIN q : i = 1 \/ (i \in Nat /\ i - 1 \in DOMAIN Tail(q) /\ Tail(q)[i - 1] = q[i])
OBVIOUS

LEMMA PlusAt ==
    ASSUME NEW q \in Seq(Events), NEW r \in Seq(Events)
    PROVE  /\ \A i \in DOMAIN (q \o r) :
                \/ i \in DOMAIN q /\ (q \o r)[i] = q[i]
                \/ i - Len(q) \in DOMAIN r /\ (q \o r)[i] = r[i - Len(q)]
           /\ \A i \in DOMAIN q : i \in DOMAIN (q \o r) /\ (q \o r)[i] = q[i]
<1>1. /\ DOMAIN q = 1 .. Len(q) /\ DOMAIN r = 1 .. Len(r) /\ DOMAIN (q \o r) = 1 .. Len(q) + Len(r)
      /\ Len(q) \in Nat /\ Len(r) \in Nat
      /\ \A i \in 1 .. Len(q) + Len(r) : (q \o r)[i] = IF i <= Len(q) THEN q[i] ELSE r[i - Len(q)]
  OBVIOUS
<1> QED
  BY <1>1

LEMMA OnceTail ==
    ASSUME NEW q \in Seq(Events), q # <<>>, NEW s, Once(q, s)
    PROVE  /\ Once(Tail(q), s)
           /\ From(Head(q), "SSL_SUCCESS", "BncSessionClient", s) =>
                \A e \in Mail(Tail(q)) : ~From(e, "SSL_SUCCESS", "BncSessionClient", s)
<1> DEFINE S(e) == From(e, "SSL_SUCCESS", "BncSessionClient", s)
<1>1. \A i, j \in DOMAIN q : S(q[i]) /\ S(q[j]) => i = j
  BY DEF Once
<1> HIDE DEF S
<1>2. ASSUME NEW i \in DOMAIN Tail(q), NEW j \in DOMAIN Tail(q), S(Tail(q)[i]), S(Tail(q)[j]) PROVE i = j
  <2>1. i + 1 = j + 1 /\ i \in Nat /\ j \in Nat
    BY <1>1, <1>2, TailAt
  <2> QED
    BY <2>1
<1>3. ASSUME S(Head(q)), NEW i \in DOMAIN Tail(q) PROVE ~S(Tail(q)[i])
  <2>1. i \in Nat /\ i > 0 /\ i + 1 \in DOMAIN q /\ Tail(q)[i] = q[i + 1] /\ 1 \in DOMAIN q /\ Head(q) = q[1]
    BY TailAt
  <2>2. i + 1 # 1
    BY <2>1
  <2> QED
    BY <1>1, <1>3, <2>1, <2>2
<1>4. S(Head(q)) => \A e \in Mail(Tail(q)) : ~S(e)
  BY <1>3 DEF Mail
<1> QED
  BY <1>2, <1>4 DEF Once, S

LEMMA OncePush ==
    ASSUME NEW q \in Seq(Events), NEW e \in Events, NEW s, Once(q, s),
           \/ ~From(e, "SSL_SUCCESS", "BncSessionClient", s)
           \/ \A f \in Mail(q) : ~From(f, "SSL_SUCCESS", "BncSessionClient", s)
    PROVE  Once(Append(q, e), s)
<1> DEFINE S(f) == From(f, "SSL_SUCCESS", "BncSessionClient", s)
           r == Append(q, e)
<1>1. \A i, j \in DOMAIN q : S(q[i]) /\ S(q[j]) => i = j
  BY DEF Once
<1>2. \A i \in DOMAIN r : (i \in DOMAIN q /\ r[i] = q[i]) \/ (i = Len(q) + 1 /\ r[i] = e)
  BY PushAt
<1>3. S(e) => \A i \in DOMAIN q : ~S(q[i])
  BY DEF Mail
<1> HIDE DEF S, r
<1>4. \A i, j \in DOMAIN r : S(r[i]) /\ S(r[j]) => i = j
  BY <1>1, <1>2, <1>3
<1> QED
  BY <1>4 DEF Once, S, r

LEMMA OncePlus ==
    ASSUME NEW q \in Seq(Events), NEW r \in Seq(Events), NEW s, Once(q, s),
           \A e \in Mail(r) : ~From(e, "SSL_SUCCESS", "BncSessionClient", s)
    PROVE  Once(q \o r, s)
<1> DEFINE S(f) == From(f, "SSL_SUCCESS", "BncSessionClient", s)
           t == q \o r
<1>1. \A i, j \in DOMAIN q : S(q[i]) /\ S(q[j]) => i = j
  BY DEF Once
<1>2. \A i \in DOMAIN r : ~S(r[i])
  BY DEF Mail
<1>3. \A i \in DOMAIN t : (i \in DOMAIN q /\ t[i] = q[i]) \/ (i - Len(q) \in DOMAIN r /\ t[i] = r[i - Len(q)])
  BY PlusAt
<1> HIDE DEF S, t
<1>4. \A i, j \in DOMAIN t : S(t[i]) /\ S(t[j]) => i = j
  BY <1>1, <1>2, <1>3
<1> QED
  BY <1>4 DEF Once, S, t

-----------------------------------------------------------------------------
(* TLS is begun with both or with neither.                                 *)

LEMMA ShakesKept ==
    ASSUME NEW t \in Sessions, Shakes(queue, t), client'[t] = client[t], server'[t] = server[t],
           tlsstate'[t] = tlsstate[t], responsecatch'[t] # "AUTH_TLS" \/ responsecatch'[t] = responsecatch[t],
           \A y \in {client[t], server[t]} :
                y \in Open' => y \in Open /\ socketinfomap'[y].type = socketinfomap[y].type,
           Mail(queue') \subseteq Mail(queue), Once(queue', t)
    PROVE  Shakes(queue, t)'
<1>1. /\ responsecatch'[t] = "AUTH_TLS" => tlsstate'[t] = "QUERY"
      /\ client'[t] \in Open' => (Secured(client[t])' <=> Started(t)')
      /\ server'[t] \in Open' => (Secured(server[t])' <=> Started(t)')
  BY DEF Shakes, Secured, Started
<1>2. \A e \in Mail(queue') : From(e, "SSL_SUCCESS", "BncSessionClient", t) =>
            /\ tlsstate'[t] = "IN_PROGRESS"
            /\ server'[t] \in Open' => socketinfomap'[server'[t]].type = "SSL"
  BY DEF Shakes
<1>3. (server'[t] \in Open' /\ socketinfomap'[server'[t]].type = "SSL_NEG") => tlsstate'[t] = "IN_PROGRESS"
  BY DEF Shakes
<1>4. Once(queue, t)'
  BY DEF Once
<1> QED
  BY <1>1, <1>2, <1>3, <1>4 DEF Shakes

LEMMA MovesShakes ==
    ASSUME TypeInv, Structure(queue), Handshakes(queue), NEW x \in SockIds, Moves(x)
    PROVE  Handshakes(queue)'
<1>1. /\ UNCHANGED <<client, server, tlsstate, responsecatch>> /\ socketinfomap \in [SockIds -> SocketInfos]
      /\ socketinfomap' = [socketinfomap EXCEPT ![x] = socketinfomap'[x]]
      /\ socketinfomap[x].type # "UNUSED"
  BY MapType DEF Moves, IOStep, clientVars, sockids, TypeInv
<1>2. \/ socketinfomap'[x].type = "UNUSED"
      \/ socketinfomap[x].type = "CONNECTING" /\ socketinfomap'[x].type = "PLAIN"
      \/ socketinfomap[x].type = "SSL_NEG" /\ socketinfomap'[x].type = "SSL"
      \/ socketinfomap'[x].type = socketinfomap[x].type
  BY DEF Moves
<1>3. ASSUME NEW y \in Open'
      PROVE  /\ y \in Open /\ (Secured(y)' <=> Secured(y))
             /\ socketinfomap[y].type = "SSL" => socketinfomap'[y].type = "SSL"
             /\ socketinfomap'[y].type = "SSL_NEG" => socketinfomap[y].type = "SSL_NEG"
  BY <1>1, <1>2 DEF Open, Secured
<1> SUFFICES ASSUME NEW s \in Sessions PROVE Shakes(queue, s)'
  BY DEF Handshakes
<1>4. Shakes(queue, s)
  BY DEF Handshakes
<1>5. /\ responsecatch'[s] = "AUTH_TLS" => tlsstate'[s] = "QUERY"
      /\ client'[s] \in Open' => (Secured(client[s])' <=> Started(s)')
      /\ server'[s] \in Open' => (Secured(server[s])' <=> Started(s)')
      /\ (server'[s] \in Open' /\ socketinfomap'[server'[s]].type = "SSL_NEG") => tlsstate'[s] = "IN_PROGRESS"
  BY <1>1, <1>3, <1>4 DEF Shakes, Started
<1>6. \A e \in Mail(queue) : From(e, "SSL_SUCCESS", "BncSessionClient", s) =>
            /\ tlsstate'[s] = "IN_PROGRESS"
            /\ server'[s] \in Open' => socketinfomap'[server'[s]].type = "SSL"
  BY <1>1, <1>3, <1>4 DEF Shakes
<1>7. CASE queue' = queue
  <2>1. Once(queue, s)'
    BY <1>4, <1>7 DEF Shakes, Once
  <2> QED
    BY <1>5, <1>6, <1>7, <2>1 DEF Shakes
<1>8. ASSUME NEW e \in Events,
             queue' = Append(queue, e), Mail(queue') = Mail(queue) \cup {e},
             e.to = socketinfomap[x].er,
             e.type = "SSL_SUCCESS" => socketinfomap'[x].type = "SSL" /\ socketinfomap[x].type = "SSL_NEG"
      PROVE  Shakes(queue, s)'
  <2>1. queue \in Seq(Events) /\ Once(queue, s)
    BY <1>4 DEF TypeInv, TypeOK, Shakes
  <2>2. CASE ~From(e, "SSL_SUCCESS", "BncSessionClient", s)
    <3>1. Once(queue', s)
      BY <1>8, <2>1, <2>2, OncePush
    <3>2. Once(queue, s)'
      BY <3>1 DEF Once
    <3> QED
      BY <1>5, <1>6, <1>8, <2>2, <3>2 DEF Shakes
  <2>3. CASE From(e, "SSL_SUCCESS", "BncSessionClient", s)
    <3>1. socketinfomap[x].er = <<"BncSessionClient", s>> /\ socketinfomap[x].type = "SSL_NEG" /\ socketinfomap'[x].type = "SSL"
      BY <1>8, <2>3 DEF From
    <3>2. x \in Open /\ x = server[s]
      BY <1>1, <3>1, OwnOf DEF Structure, Sockets, Class, Session, Open
    <3>3. tlsstate[s] = "IN_PROGRESS" /\ \A f \in Mail(queue) : ~From(f, "SSL_SUCCESS", "BncSessionClient", s)
      BY <1>4, <3>1, <3>2 DEF Shakes
    <3>4. Once(queue', s)
      BY <1>8, <2>1, <3>3, OncePush
    <3>5. Once(queue, s)'
      BY <3>4 DEF Once
    <3>6. \A f \in Mail(queue') : From(f, "SSL_SUCCESS", "BncSessionClient", s) =>
            /\ tlsstate'[s] = "IN_PROGRESS"
            /\ server'[s] \in Open' => socketinfomap'[server'[s]].type = "SSL"
      BY <1>1, <3>1, <3>2, <3>3
    <3> QED
      BY <1>5, <3>5, <3>6 DEF Shakes
  <2> QED
    BY <2>2, <2>3
<1> QED
  BY <1>7, <1>8, MovesQueue

LEMMA AcceptShakes ==
    ASSUME TypeInv, Handshakes(queue), Accept
    PROVE  Handshakes(queue)'
<1>1. PICK c : c = Fresh
  OBVIOUS
<1>2. PICK e : e = [type |-> "NEW", to |-> Bnc, sock |-> c, what |-> "", for |-> c]
  OBVIOUS
<1>3. ~Names(c) /\ c \in SockIds
  BY <1>1, FreshIds, FreshIsNew DEF Accept
<1>4. /\ UNCHANGED <<client, server, tlsstate, responsecatch>> /\ socketinfomap \in [SockIds -> SocketInfos]
      /\ socketinfomap' = [socketinfomap EXCEPT ![c] = New("LISTEN", <<>>, c)]
      /\ queue' = Append(queue, e)
  BY <1>1, <1>2, MapType DEF Accept, clientVars, sockids, TypeInv
<1>5. e \in Events /\ e.type = "NEW" /\ queue \in Seq(Events)
  BY <1>2, <1>3 DEF Events, Contents, TypeInv, TypeOK
<1>6. Mail(queue') = Mail(queue) \cup {e}
  BY <1>4, <1>5, MailPush
<1> SUFFICES ASSUME NEW s \in Sessions PROVE Shakes(queue, s)'
  BY DEF Handshakes
<1>7. \A y \in {client[s], server[s]} : y \in Open' => y \in Open /\ socketinfomap'[y] = socketinfomap[y]
  BY <1>3, <1>4 DEF Names, Open
<1>8. Once(queue', s)
  BY <1>4, <1>5, OncePush DEF Handshakes, Shakes, From
<1>9. Once(queue, s)'
  BY <1>8 DEF Once
<1> QED
  BY <1>4, <1>5, <1>6, <1>7, <1>9 DEF Handshakes, Shakes, From, Secured, Started

LEMMA NewShakes ==
    ASSUME TypeInv, Structure(queue), Handshakes(queue), HandleNew
    PROVE  Handshakes(queue)'
<1>1. PICK s, c, y, Z, r : Begins(s, c, y, Z, r) /\ Gone(queue, s) /\ Pending(c) /\ ~Names(c)
  BY NewStructure
<1>2. /\ s \in Sessions /\ c \in SockIds /\ y \in SockIds /\ socketinfomap[y].type = "UNUSED"
      /\ socketinfomap'[c] = [socketinfomap[c] EXCEPT !.er = <<"BncSession", s>>]
      /\ socketinfomap'[y] = New("CONNECTING", <<"BncSessionClient", s>>, c) \/ socketinfomap'[y] = socketinfomap[y]
      /\ client' = [client EXCEPT ![s] = c] /\ server' = [server EXCEPT ![s] = y]
      /\ tlsstate' = [tlsstate EXCEPT ![s] = "NONE"]
      /\ responsecatch' = [responsecatch EXCEPT ![s] = "NONE"]
  BY <1>1, FreshIsNew DEF Begins
<1>3. /\ queue \in Seq(Events) /\ queue # <<>> /\ r \in Seq(Events) /\ queue' = Tail(queue) \o r
      /\ Tail(queue) \in Seq(Events) /\ Mail(Tail(queue)) \subseteq Mail(queue)
      /\ Mail(queue') = Mail(Tail(queue)) \cup Mail(r)
      /\ \A e \in Mail(r) : e.type = "FAIL"
  BY <1>1 DEF Begins, TypeInv, TypeOK
<1>4. ASSUME NEW t \in Sessions PROVE Once(queue', t)
  <2>1. Once(Tail(queue), t)
    BY <1>3, OnceTail DEF Handshakes, Shakes
  <2>2. \A e \in Mail(r) : ~From(e, "SSL_SUCCESS", "BncSessionClient", t)
    BY <1>3 DEF From
  <2> QED
    BY <1>3, <2>1, <2>2, OncePlus
<1> SUFFICES ASSUME NEW t \in Sessions PROVE Shakes(queue, t)'
  BY DEF Handshakes
<1>5. CASE t = s
  <2>1. client'[s] = c /\ server'[s] = y /\ tlsstate'[s] = "NONE" /\ responsecatch'[s] = "NONE"
    BY <1>2 DEF TypeInv, TypeOK
  <2>2. socketinfomap[c] = New("LISTEN", <<>>, c)
    BY <1>1, <1>2 DEF TypeInv, Unclaimed
  <2>3. socketinfomap'[c].type = "LISTEN"
    BY <1>2, <2>2 DEF New, Unused
  <2>4. socketinfomap'[y].type \in {"CONNECTING", "UNUSED"}
    BY <1>2, NewFields
  <2>5. ~Secured(client[s])' /\ ~Secured(server[s])' /\ ~Started(s)'
    BY <2>1, <2>3, <2>4 DEF Secured, Started
  <2>6. \A e \in Mail(queue') : ~From(e, "SSL_SUCCESS", "BncSessionClient", s)
    <3>1. \A e \in Mail(queue) : ~From(e, "SSL_SUCCESS", "BncSessionClient", s)
      BY <1>1 DEF Gone, From, Bnc
    <3> QED
      BY <1>3, <3>1 DEF From
  <2>7. Once(queue, s)'
    BY <1>2, <1>4 DEF Once
  <2> QED
    BY <1>5, <2>1, <2>4, <2>5, <2>6, <2>7 DEF Shakes
<1>6. CASE t # s
  <2>1. /\ client'[t] = client[t] /\ server'[t] = server[t] /\ tlsstate'[t] = tlsstate[t]
        /\ responsecatch'[t] = responsecatch[t]
        /\ \A class \in Classes : Own(class, t) \in Open' =>
                Own(class, t) \in Open /\ socketinfomap'[Own(class, t)] = socketinfomap[Own(class, t)]
    BY <1>1, <1>6, OthersNew
  <2>2. \A z \in {client[t], server[t]} : z \in Open' => z \in Open /\ socketinfomap'[z] = socketinfomap[z]
    BY <2>1, OwnOf
  <2>3. Once(queue, t)'
    BY <1>4 DEF Once
  <2> QED
    BY <1>3, <2>1, <2>2, <2>3 DEF Handshakes, Shakes, From, Secured, Started
<1> QED
  BY <1>5, <1>6

\* The queue of a step of the worker: nothing comes to it.
LEMMA WorksQueue ==
    ASSUME TypeInv, NEW s, Works(s)
    PROVE  /\ queue \in Seq(Events) /\ Mail(queue') \subseteq Mail(queue)
           /\ queue' = queue \/ (queue # <<>> /\ queue' = Tail(queue))
BY MailPop DEF Works, Serves, TypeInv, TypeOK

LEMMA WorksShakes ==
    ASSUME TypeInv, Structure(queue), Handshakes(queue), NEW s, Works(s)
    PROVE  Handshakes(queue)'
<1>1. /\ s \in Sessions /\ UNCHANGED <<client, server>>
      /\ \A t \in Sessions \ {s} : tlsstate'[t] = tlsstate[t] /\ responsecatch'[t] = responsecatch[t]
      /\ \A y \in SockIds : y \in Open' => y \in Open
  BY MapType, OpenPrime DEF Works, Serves, sockids, TypeInv
<1>2. /\ queue \in Seq(Events) /\ Mail(queue') \subseteq Mail(queue)
      /\ queue' = queue \/ (queue # <<>> /\ queue' = Tail(queue))
  BY WorksQueue
<1>3. ASSUME NEW t \in Sessions PROVE Once(queue', t)
  BY <1>2, OnceTail DEF Handshakes, Shakes
<1>4. /\ tlsstate \in [Sessions -> {"NONE", "QUERY", "IN_PROGRESS", "ACTIVE"}]
      /\ responsecatch \in [Sessions -> {"NONE", "AUTH_TLS"}]
  BY DEF TypeInv, TypeOK
<1>5. Shakes(queue, s)
  BY <1>1 DEF Handshakes
<1>6. Once(queue, s)'
  BY <1>1, <1>3 DEF Once
<1> SUFFICES ASSUME NEW t \in Sessions PROVE Shakes(queue, t)'
  BY DEF Handshakes
<1>7. CASE t # s
  <2>1. \A y \in {client[t], server[t]} : y \in Open' => y \in Open /\ socketinfomap'[y] = socketinfomap[y]
    BY <1>7, OthersKept, OwnOf
  <2> QED
    BY <1>1, <1>2, <1>3, <1>7, <2>1, ShakesKept DEF Handshakes
<1>8. ASSUME SameTypes
      PROVE  \A y \in {client[s], server[s]} : y \in Open' => y \in Open /\ socketinfomap'[y].type = socketinfomap[y].type
  BY <1>1, <1>8 DEF SameTypes, Open
<1>9. CASE t = s /\ SameTypes /\ tlsstate' = tlsstate
           /\ (responsecatch' = responsecatch \/ responsecatch' = [responsecatch EXCEPT ![s] = "NONE"])
  <2>1. responsecatch'[s] # "AUTH_TLS" \/ responsecatch'[s] = responsecatch[s]
    BY <1>1, <1>4, <1>9
  <2> QED
    BY <1>1, <1>2, <1>3, <1>5, <1>8, <1>9, <2>1, ShakesKept
<1>10. CASE t = s /\ SameTypes /\ Queries(s)
  <2>1. CASE UNCHANGED Tls
    BY <1>9, <1>10, <2>1 DEF Tls
  <2>2. CASE /\ tlsstate[s] = "NONE"
             /\ tlsstate' = [tlsstate EXCEPT ![s] = "QUERY"]
             /\ responsecatch' = [responsecatch EXCEPT ![s] = "AUTH_TLS"]
    <3>1. tlsstate'[s] = "QUERY" /\ ~Started(s) /\ ~Started(s)'
      BY <1>1, <1>4, <2>2 DEF Started
    <3>2. /\ client'[s] \in Open' => ~Secured(client[s])'
          /\ server'[s] \in Open' => ~Secured(server[s])'
      BY <1>1, <1>5, <1>8, <1>10, <3>1 DEF Shakes, Secured
    <3>3. \A e \in Mail(queue') : ~From(e, "SSL_SUCCESS", "BncSessionClient", s)
      BY <1>2, <1>5, <2>2 DEF Shakes
    <3>4. ~(server'[s] \in Open' /\ socketinfomap'[server'[s]].type = "SSL_NEG")
      BY <3>2 DEF Secured
    <3> QED
      BY <1>6, <1>10, <3>1, <3>2, <3>3, <3>4 DEF Shakes
  <2> QED
    BY <1>10, <2>1, <2>2 DEF Queries
<1>11. CASE /\ t = s /\ ServerSays(s)
            /\ server[s] \in Open => socketinfomap[server[s]].type # "CONNECTING"
  <2>1. CASE UNCHANGED tlsstate /\ SameTypes
    BY <1>9, <1>11, <2>1 DEF ServerSays
  <2>2. CASE /\ responsecatch[s] = "AUTH_TLS" /\ tlsstate' = [tlsstate EXCEPT ![s] = "IN_PROGRESS"]
             /\ \A y \in SockIds : socketinfomap'[y].type =
                    IF y \in {client[s], server[s]} /\ socketinfomap[y].type \in {"LISTEN", "PLAIN"}
                      THEN "SSL_NEG" ELSE socketinfomap[y].type
    <3>1. tlsstate[s] = "QUERY" /\ ~Started(s) /\ Started(s)' /\ tlsstate'[s] = "IN_PROGRESS"
      BY <1>1, <1>4, <1>5, <2>2 DEF Shakes, Started
    <3>2. responsecatch'[s] # "AUTH_TLS"
      BY <1>1, <1>4, <1>11 DEF ServerSays
    <3>3. ASSUME NEW class \in {"BncSession", "BncSessionClient"}, Own(class, s) \in Open
          PROVE  socketinfomap[Own(class, s)].type \in Kinds(class)
      <4>1. class \in Classes /\ socketinfomap[Own(class, s)].er = <<class, s>>
        BY <1>1, <3>3 DEF Structure, Named, Classes
      <4> QED
        BY <3>3, <4>1 DEF Structure, Sockets, Class
    <3>4. client[s] \in Open => socketinfomap[client[s]].type = "LISTEN"
      BY <1>5, <3>1, <3>3, OwnOf, KindsOf DEF Shakes, Secured
    <3>5. server[s] \in Open => socketinfomap[server[s]].type = "PLAIN"
      BY <1>5, <1>11, <3>1, <3>3, OwnOf, KindsOf DEF Shakes, Secured
    <3>6. /\ client'[s] \in Open' => Secured(client[s])'
          /\ server'[s] \in Open' => Secured(server[s])'
      BY <1>1, <2>2, <3>4, <3>5 DEF Secured, Open
    <3>7. \A e \in Mail(queue') : ~From(e, "SSL_SUCCESS", "BncSessionClient", s)
      BY <1>2, <1>5, <3>1 DEF Shakes
    <3> QED
      BY <1>6, <1>11, <3>1, <3>2, <3>6, <3>7 DEF Shakes
  <2> QED
    BY <1>11, <2>1, <2>2 DEF ServerSays
<1>12. CASE t = s /\ Secures(s)
  <2>1. /\ queue' = Tail(queue) /\ From(Head(queue), "SSL_SUCCESS", "BncSessionClient", s)
        /\ tlsstate' = [tlsstate EXCEPT ![s] = "ACTIVE"]
        /\ responsecatch' = responsecatch /\ socketinfomap' = socketinfomap
    BY <1>12 DEF Secures, Pops
  <2>2. queue # <<>> /\ Head(queue) \in Mail(queue)
    BY <1>2, <1>12, MailPop DEF Secures, Pops
  <2>3. /\ tlsstate[s] = "IN_PROGRESS" /\ responsecatch[s] # "AUTH_TLS"
        /\ server[s] \in Open => socketinfomap[server[s]].type = "SSL"
    BY <1>5, <2>1, <2>2 DEF Shakes
  <2>4. Started(s) /\ Started(s)' /\ responsecatch'[s] # "AUTH_TLS"
    BY <1>1, <1>4, <2>1, <2>3 DEF Started
  <2>5. /\ client'[s] \in Open' => Secured(client[s])'
        /\ server'[s] \in Open' => Secured(server[s])'
        /\ server'[s] \in Open' => socketinfomap'[server'[s]].type # "SSL_NEG"
    BY <1>1, <1>5, <2>1, <2>3, <2>4 DEF Shakes, Secured, Open
  <2>6. \A e \in Mail(queue') : ~From(e, "SSL_SUCCESS", "BncSessionClient", s)
    BY <1>2, <1>5, <2>1, <2>2, OnceTail DEF Shakes
  <2> QED
    BY <1>6, <1>12, <2>4, <2>5, <2>6 DEF Shakes
<1>13. CASE t = s /\ (Finishes(s) \/ Connects(s) \/ Asks(s) \/ Idles(s))
  <2>1. SameTypes /\ tlsstate' = tlsstate /\ responsecatch' = responsecatch
    BY <1>13 DEF Finishes, Connects, Asks, Idles
  <2> QED
    BY <1>9, <1>13, <2>1
<1>14. CASE t = s /\ ClientSays(s)
  <2>1. SameTypes /\ (Queries(s) \/ UNCHANGED Tls)
    BY <1>14 DEF ClientSays, Tls
  <2> QED
    BY <1>10, <1>14, <2>1 DEF Queries
<1>15. CASE t = s /\ Continues(s)
  <2>1. SameTypes /\ Queries(s)
    BY <1>15 DEF Continues
  <2> QED
    BY <1>10, <1>15, <2>1
<1> QED
  BY <1>7, <1>11, <1>12, <1>13, <1>14, <1>15 DEF Works

LEMMA NextShakes ==
    ASSUME Sequential, TypeInv, Structure(queue), Handshakes(queue), [Next]_vars
    PROVE  Handshakes(queue)'
<1>1. CASE UNCHANGED vars
  BY <1>1 DEF vars, sockids, clientVars, Handshakes, Shakes, Once, Secured, Started, Open
<1> QED
  BY <1>1, IOMoves, MovesShakes, AcceptShakes, NewShakes, Working, WorksShakes
  DEF Next, IONext, Handle, Serving

LEMMA InitShakes == Init => Handshakes(queue)
BY MailEmpty DEF Init, Handshakes, Shakes, Once, Started, Open, Unused

LEMMA SecuredTogether == Structure(queue) /\ Handshakes(queue) => BothSecured
BY DEF Handshakes, Shakes, BothSecured

\* While both connections of a session live, TLS has been begun on both or on
\* neither: the 234 that is caught begins both handshakes, and nothing else does
\* (BncSessionClient::FDData, BncSession::negotiateTLS).
THEOREM SecuredBoth ==
    ASSUME Sequential
    PROVE  Spec => []BothSecured
<1> DEFINE Inv == TypeInv /\ Structure(queue) /\ Handshakes(queue)
<1>1. Init => Inv
  BY InitTypes, InitStructure, InitShakes
<1>2. Inv /\ [Next]_vars => Inv'
  BY NextTypes, NextStructure, NextShakes
<1>3. Inv => BothSecured
  BY SecuredTogether
<1> QED
  BY <1>1, <1>2, <1>3, PTL DEF Spec

-----------------------------------------------------------------------------
(* The server is told the user first.                                      *)

LEMMA AnnouncedTail ==
    ASSUME NEW q \in Seq(Events), q # <<>>, NEW s, Announced(q, s)
    PROVE  /\ ~From(Head(q), "DATA", "BncSessionClient", s)
           /\ ~From(Head(q), "CONNECTED", "BncSessionClient", s) => Announced(Tail(q), s)
<1> DEFINE D(e) == From(e, "DATA", "BncSessionClient", s)
           C(e) == From(e, "CONNECTED", "BncSessionClient", s)
<1>1. \A i \in DOMAIN q : D(q[i]) => \E j \in DOMAIN q : j < i /\ C(q[j])
  BY DEF Announced
<1> HIDE DEF D, C
<1>2. 1 \in DOMAIN q /\ Head(q) = q[1] /\ \A i \in DOMAIN q : ~(i < 1)
  OBVIOUS
<1>3. ~D(Head(q))
  BY <1>1, <1>2
<1>4. ASSUME ~C(Head(q)), NEW i \in DOMAIN Tail(q), D(Tail(q)[i])
      PROVE  \E j \in DOMAIN Tail(q) : j < i /\ C(Tail(q)[j])
  <2>1. i \in Nat /\ i + 1 \in DOMAIN q /\ Tail(q)[i] = q[i + 1]
    BY TailAt
  <2>2. PICK j \in DOMAIN q : j < i + 1 /\ C(q[j])
    BY <1>1, <1>4, <2>1
  <2>3. j # 1
    BY <1>2, <1>4, <2>2
  <2>4. j \in Nat /\ j - 1 \in DOMAIN Tail(q) /\ Tail(q)[j - 1] = q[j]
    BY <2>3, TailAt
  <2>5. j - 1 < i
    BY <2>1, <2>2, <2>4
  <2> QED
    BY <2>2, <2>4, <2>5
<1> QED
  BY <1>3, <1>4 DEF Announced, D, C

LEMMA AnnouncedPush ==
    ASSUME NEW q \in Seq(Events), NEW e \in Events, NEW s, Announced(q, s),
           Told(q, s) \/ ~From(e, "DATA", "BncSessionClient", s)
    PROVE  Announced(Append(q, e), s)
<1> DEFINE D(f) == From(f, "DATA", "BncSessionClient", s)
           C(f) == From(f, "CONNECTED", "BncSessionClient", s)
           r == Append(q, e)
<1>1. \A i \in DOMAIN q : D(q[i]) => \E j \in DOMAIN q : j < i /\ C(q[j])
  BY DEF Announced
<1>2. D(e) => \E j \in DOMAIN q : C(q[j])
  BY DEF Told, Mail
<1>3. /\ \A i \in DOMAIN r : (i \in DOMAIN q /\ r[i] = q[i]) \/ (i = Len(q) + 1 /\ r[i] = e)
      /\ \A j \in DOMAIN q : j \in DOMAIN r /\ r[j] = q[j] /\ j < Len(q) + 1
  BY PushAt
<1> HIDE DEF D, C, r
<1>4. \A i \in DOMAIN r : D(r[i]) => \E j \in DOMAIN r : j < i /\ C(r[j])
  BY <1>1, <1>2, <1>3
<1> QED
  BY <1>4 DEF Announced, D, C, r

LEMMA AnnouncedPlus ==
    ASSUME NEW q \in Seq(Events), NEW r \in Seq(Events), NEW s, Announced(q, s),
           \A e \in Mail(r) : ~From(e, "DATA", "BncSessionClient", s)
    PROVE  Announced(q \o r, s)
<1> DEFINE D(f) == From(f, "DATA", "BncSessionClient", s)
           C(f) == From(f, "CONNECTED", "BncSessionClient", s)
           t == q \o r
<1>1. \A i \in DOMAIN q : D(q[i]) => \E j \in DOMAIN q : j < i /\ C(q[j])
  BY DEF Announced
<1>2. \A i \in DOMAIN r : ~D(r[i])
  BY DEF Mail
<1>3. /\ \A i \in DOMAIN t : (i \in DOMAIN q /\ t[i] = q[i]) \/ (i - Len(q) \in DOMAIN r /\ t[i] = r[i - Len(q)])
      /\ \A i \in DOMAIN q : i \in DOMAIN t /\ t[i] = q[i]
  BY PlusAt
<1> HIDE DEF D, C, t
<1>4. \A i \in DOMAIN t : D(t[i]) => \E j \in DOMAIN t : j < i /\ C(t[j])
  BY <1>1, <1>2, <1>3
<1> QED
  BY <1>4 DEF Announced, D, C, t

LEMMA ToldTail ==
    ASSUME NEW q \in Seq(Events), q # <<>>, NEW s, Told(q, s),
           ~From(Head(q), "CONNECTED", "BncSessionClient", s)
    PROVE  Told(Tail(q), s)
<1>1. PICK i \in DOMAIN q : From(q[i], "CONNECTED", "BncSessionClient", s)
  BY DEF Told, Mail
<1>2. i # 1
  BY <1>1, TailAt
<1>3. i - 1 \in DOMAIN Tail(q) /\ Tail(q)[i - 1] = q[i]
  BY <1>2, TailAt
<1> QED
  BY <1>1, <1>3 DEF Told, Mail

LEMMA MovesGreeting ==
    ASSUME ServerFirst, TypeInv, Structure(queue), Over, Greeting(queue), NEW x \in SockIds, Moves(x)
    PROVE  Greeting(queue)'
<1>1. /\ UNCHANGED <<state, sendqueue, client, server, identreceived, connected>>
      /\ socketinfomap \in [SockIds -> SocketInfos]
      /\ socketinfomap' = [socketinfomap EXCEPT ![x] = socketinfomap'[x]]
      /\ socketinfomap[x].type # "UNUSED" /\ x \in Open /\ socketinfomap[x].er # <<>>
  BY MapType DEF Moves, IOStep, clientVars, sockids, sessionVars, TypeInv, Open
<1>2. socketinfomap'[x].type # "UNUSED" => socketinfomap'[x].first = socketinfomap[x].first
  BY DEF Moves
<1>3. \A y \in Open' : y \in Open /\ socketinfomap'[y].first = socketinfomap[y].first
  BY <1>1, <1>2 DEF Open
<1>4. x = Own(Class(x), Session(x)) /\ socketinfomap[x].er = <<Class(x), Session(x)>>
  BY <1>1, ErType DEF Structure, Sockets
<1> SUFFICES ASSUME NEW s \in Sessions, ~Dead(s) PROVE Greets(queue, s)'
  BY <1>1 DEF Greeting, Dead
<1>5. Greets(queue, s)
  BY DEF Greeting
<1>6. /\ (client'[s] \in Open' /\ socketinfomap'[client'[s]].first # NoSock) => connected'[s]
      /\ sendqueue'[s] # <<>> => connected'[s]
      /\ (connected'[s] /\ identreceived'[s] /\ ~NoIdnt /\ server'[s] \in Open') =>
            socketinfomap'[server'[s]].first # NoSock
  BY <1>1, <1>3, <1>5 DEF Greets
<1>7. CASE connected[s]
  BY <1>1, <1>6, <1>7 DEF Greets
<1>8. CASE ~connected[s] /\ queue' = queue
  <2>1. server[s] \in Open' /\ socketinfomap[server[s]].type = "CONNECTING" => socketinfomap'[server[s]].type = "CONNECTING"
    <3>1. CASE server[s] # x
      BY <1>1, <3>1 DEF Open
    <3>2. CASE server[s] = x
      <4>1. ~socketinfomap[x].closing
        BY <1>1, <3>2 DEF Over
      <4>3. ASSUME NEW t, Pushes(x, t) PROVE FALSE
        <5>1. PICK w \in Contents : queue' = Append(queue, Event(t, x, w))
          BY <4>3 DEF Pushes
        <5>2. PICK e : e = Event(t, x, w)
          OBVIOUS
        <5>3. queue \in Seq(Events) /\ queue = Append(queue, e)
          BY <1>8, <5>1, <5>2 DEF TypeInv, TypeOK
        <5> QED
          BY <5>3
      <4> QED
        BY <3>2, <4>1, <4>3 DEF Moves, Open
    <3> QED
      BY <3>1, <3>2
  <2> QED
    BY <1>1, <1>3, <1>5, <1>6, <1>8, <2>1 DEF Greets, Announced, Told
<1>9. ASSUME NEW e \in Events, ~connected[s],
             queue' = Append(queue, e), Mail(queue') = Mail(queue) \cup {e},
             e.to = socketinfomap[x].er,
             \/ e.type \in {"FAIL", "DISCONNECTED"} /\ socketinfomap'[x].type = "UNUSED"
             \/ e.type = "CONNECTED" /\ socketinfomap'[x].type = "PLAIN" /\ socketinfomap[x].type = "CONNECTING"
             \/ e.type = "SSL_SUCCESS" /\ socketinfomap'[x].type = "SSL" /\ socketinfomap[x].type = "SSL_NEG"
             \/ /\ e.type = "DATA" /\ socketinfomap'[x].type = socketinfomap[x].type
                /\ socketinfomap[x].type # "CONNECTING"
                /\ Class(x) = "BncSession" => socketinfomap[x].first # NoSock
      PROVE  Greets(queue, s)'
  <2>1. \A class \in Classes : e.to = <<class, s>> => x = Own(class, s)
    BY <1>4, <1>9
  <2>2. From(e, "DATA", "BncSessionClient", s) => Told(queue, s)
    BY <1>1, <1>5, <1>9, <2>1, OwnOf DEF Greets, From
  <2>3. Announced(queue', s)
    BY <1>5, <1>9, <2>2, AnnouncedPush DEF Greets, TypeInv, TypeOK
  <2>4. Announced(queue, s)'
    BY <2>3 DEF Announced
  <2>5. Told(queue, s) => Told(queue, s)'
    BY <1>9 DEF Told
  <2>6. \/ Told(queue, s)'
        \/ server[s] \in Open' => socketinfomap'[server[s]].type = "CONNECTING"
    <3>1. CASE server[s] # x \/ Told(queue, s)
      BY <1>1, <1>5, <1>9, <2>5, <3>1 DEF Greets, Open
    <3>2. CASE server[s] = x /\ ~Told(queue, s)
      <4>1. socketinfomap[x].type = "CONNECTING"
        BY <1>1, <1>5, <1>9, <3>2 DEF Greets
      <4>2. socketinfomap[x].er = <<"BncSessionClient", s>>
        BY <1>1, <3>2, OwnOf DEF Structure, Named
      <4> QED
        BY <1>9, <3>2, <4>1, <4>2 DEF Told, From, Open
    <3> QED
      BY <3>1, <3>2
  <2>7. ~From(e, "DATA", "BncSession", s)
    BY <1>1, <1>4, <1>5, <1>9, <2>1, OwnOf DEF Greets, From
  <2> QED
    BY <1>1, <1>5, <1>6, <1>9, <2>4, <2>6, <2>7 DEF Greets
<1>10. CASE ~connected[s] /\ queue' # queue
  <2>1. PICK e \in Events :
            /\ queue' = Append(queue, e) /\ Mail(queue') = Mail(queue) \cup {e}
            /\ e.to = socketinfomap[x].er
            /\ \/ e.type \in {"FAIL", "DISCONNECTED"} /\ socketinfomap'[x].type = "UNUSED"
               \/ e.type = "CONNECTED" /\ socketinfomap'[x].type = "PLAIN" /\ socketinfomap[x].type = "CONNECTING"
               \/ e.type = "SSL_SUCCESS" /\ socketinfomap'[x].type = "SSL" /\ socketinfomap[x].type = "SSL_NEG"
               \/ /\ e.type = "DATA" /\ socketinfomap'[x].type = socketinfomap[x].type
                  /\ socketinfomap[x].type # "CONNECTING"
                  /\ Class(x) = "BncSession" => socketinfomap[x].first # NoSock
    BY <1>10, MovesQueue
  <2> QED
    BY <1>9, <1>10, <2>1
<1> QED
  BY <1>7, <1>8, <1>10

LEMMA AcceptGreeting ==
    ASSUME TypeInv, Greeting(queue), Accept
    PROVE  Greeting(queue)'
<1>1. PICK c : c = Fresh
  OBVIOUS
<1>2. PICK e : e = [type |-> "NEW", to |-> Bnc, sock |-> c, what |-> "", for |-> c]
  OBVIOUS
<1>3. ~Names(c) /\ c \in SockIds
  BY <1>1, FreshIds, FreshIsNew DEF Accept
<1>4. /\ UNCHANGED <<state, sendqueue, client, server, identreceived, connected>>
      /\ socketinfomap \in [SockIds -> SocketInfos]
      /\ socketinfomap' = [socketinfomap EXCEPT ![c] = New("LISTEN", <<>>, c)]
      /\ queue' = Append(queue, e)
  BY <1>1, <1>2, MapType DEF Accept, clientVars, sessionVars, sockids, TypeInv
<1>5. e \in Events /\ e.type = "NEW" /\ queue \in Seq(Events)
  BY <1>2, <1>3 DEF Events, Contents, TypeInv, TypeOK
<1>6. Mail(queue') = Mail(queue) \cup {e}
  BY <1>4, <1>5, MailPush
<1> SUFFICES ASSUME NEW s \in Sessions, ~Dead(s) PROVE Greets(queue, s)'
  BY <1>4 DEF Greeting, Dead
<1>7. \A y \in {client[s], server[s]} : y \in Open' => y \in Open /\ socketinfomap'[y] = socketinfomap[y]
  BY <1>3, <1>4 DEF Names, Open
<1>8. Greets(queue, s)
  BY DEF Greeting
<1>9. Announced(queue, s) => Announced(queue', s)
  BY <1>4, <1>5, AnnouncedPush DEF From
<1>10. Announced(queue, s) => Announced(queue, s)'
  BY <1>9 DEF Announced
<1> QED
  BY <1>4, <1>5, <1>6, <1>7, <1>8, <1>10 DEF Greets, From, Told

LEMMA NewGreeting ==
    ASSUME TypeInv, Structure(queue), Greeting(queue), HandleNew
    PROVE  Greeting(queue)'
<1>1. PICK s, c, y, Z, r : Begins(s, c, y, Z, r) /\ Gone(queue, s) /\ Pending(c) /\ ~Names(c)
  BY NewStructure
<1>2. /\ s \in Sessions /\ c \in SockIds /\ y \in SockIds /\ socketinfomap[y].type = "UNUSED" /\ Dead(s)
      /\ socketinfomap'[c] = [socketinfomap[c] EXCEPT !.er = <<"BncSession", s>>]
      /\ socketinfomap'[y] = New("CONNECTING", <<"BncSessionClient", s>>, c) \/ socketinfomap'[y] = socketinfomap[y]
      /\ client' = [client EXCEPT ![s] = c] /\ server' = [server EXCEPT ![s] = y]
      /\ connected' = [connected EXCEPT ![s] = FALSE] /\ sendqueue' = sendqueue
  BY <1>1, FreshIsNew DEF Begins
<1>3. /\ queue \in Seq(Events) /\ queue # <<>> /\ r \in Seq(Events) /\ queue' = Tail(queue) \o r
      /\ Head(queue).type = "NEW"
      /\ Tail(queue) \in Seq(Events) /\ Mail(Tail(queue)) \subseteq Mail(queue)
      /\ Mail(queue') = Mail(Tail(queue)) \cup Mail(r)
      /\ \A e \in Mail(r) : e.type = "FAIL"
  BY <1>1 DEF Begins, TypeInv, TypeOK
<1> SUFFICES ASSUME NEW t \in Sessions, ~Dead(t)' PROVE Greets(queue, t)'
  BY DEF Greeting
<1>4. \A e \in Mail(r) : ~From(e, "DATA", "BncSessionClient", t)
  BY <1>3 DEF From
<1>5. Announced(Tail(queue), t) => Announced(queue, t)'
  <2>1. Announced(Tail(queue), t) => Announced(queue', t)
    BY <1>3, <1>4, AnnouncedPlus
  <2> QED
    BY <2>1 DEF Announced
<1>6. CASE t = s
  <2>1. client'[s] = c /\ server'[s] = y /\ connected'[s] = FALSE /\ sendqueue'[s] = <<>>
    BY <1>2 DEF TypeInv, TypeOK, Dead
  <2>2. socketinfomap[c] = New("LISTEN", <<>>, c)
    BY <1>1, <1>2 DEF TypeInv, Unclaimed
  <2>3. socketinfomap'[c].first = NoSock
    BY <1>2, <2>2 DEF New, Unused
  <2>4. y \in Open' => socketinfomap'[y].type = "CONNECTING"
    BY <1>2, NewFields DEF Open
  <2>5. \A e \in Mail(queue) : e.to # Bnc => e.to[2] # s
    BY <1>1 DEF Gone
  <2>6. \A e \in Mail(queue') : ~From(e, "DATA", "BncSession", s)
    BY <1>3, <2>5 DEF From, Bnc
  <2>7. Announced(Tail(queue), s)
    <3>1. ASSUME NEW i \in DOMAIN Tail(queue) PROVE ~From(Tail(queue)[i], "DATA", "BncSessionClient", s)
      <4>1. Tail(queue)[i] \in Mail(queue)
        BY <1>3 DEF Mail
      <4> QED
        BY <2>5, <4>1 DEF From, Bnc
    <3> QED
      BY <3>1 DEF Announced
  <2> QED
    BY <1>5, <1>6, <2>1, <2>3, <2>4, <2>6, <2>7 DEF Greets
<1>7. CASE t # s
  <2>1. /\ client'[t] = client[t] /\ server'[t] = server[t] /\ connected'[t] = connected[t] /\ state'[t] = state[t]
        /\ identreceived'[t] = identreceived[t] /\ sendqueue'[t] = sendqueue[t]
        /\ \A class \in Classes : Own(class, t) \in Open' =>
                Own(class, t) \in Open /\ socketinfomap'[Own(class, t)] = socketinfomap[Own(class, t)]
    BY <1>1, <1>7, OthersNew
  <2>2. \A z \in {client[t], server[t]} : z \in Open' => z \in Open /\ socketinfomap'[z] = socketinfomap[z]
    BY <2>1, OwnOf
  <2>3. Greets(queue, t)
    BY <2>1 DEF Greeting, Dead
  <2>4. ~From(Head(queue), "CONNECTED", "BncSessionClient", t)
    BY <1>3 DEF From
  <2>5. Announced(queue, t) => Announced(queue, t)'
    BY <1>3, <1>5, <2>4, AnnouncedTail
  <2>6. Told(queue, t) => Told(queue, t)'
    <3>1. Told(queue, t) => Told(Tail(queue), t)
      BY <1>3, <2>4, ToldTail
    <3> QED
      BY <1>3, <3>1 DEF Told
  <2>7. \A e \in Mail(queue') : From(e, "DATA", "BncSession", t) => e \in Mail(queue)
    BY <1>3 DEF From
  <2> QED
    BY <2>1, <2>2, <2>3, <2>5, <2>6, <2>7 DEF Greets
<1> QED
  BY <1>6, <1>7

\* What keeps it: nothing is said to the client, and the server is not
\* connected to.
LEMMA GreetsKept ==
    ASSUME TypeInv, NEW t \in Sessions, Greets(queue, t),
           client'[t] = client[t], server'[t] = server[t], connected'[t] = connected[t],
           Mail(queue') \subseteq Mail(queue),
           \/ queue' = queue
           \/ queue # <<>> /\ queue' = Tail(queue) /\ ~From(Head(queue), "CONNECTED", "BncSessionClient", t),
           sendqueue'[t] # <<>> => sendqueue[t] # <<>> \/ connected[t],
           server[t] \in Open' => server[t] \in Open /\ socketinfomap'[server[t]].type = socketinfomap[server[t]].type,
           client[t] \in Open' => client[t] \in Open /\ socketinfomap'[client[t]].first = socketinfomap[client[t]].first,
           (connected[t] /\ identreceived'[t] /\ ~NoIdnt /\ server[t] \in Open') =>
                socketinfomap'[server[t]].first # NoSock
    PROVE  Greets(queue, t)'
<1>1. queue \in Seq(Events)
  BY DEF TypeInv, TypeOK
<1>2. Announced(queue, t) => Announced(queue, t)'
  <2>1. Announced(queue, t) => Announced(queue', t)
    BY <1>1, AnnouncedTail
  <2> QED
    BY <2>1 DEF Announced
<1>3. Told(queue, t) => Told(queue, t)'
  <2>1. Told(queue, t) => Told(queue', t)
    BY <1>1, ToldTail
  <2> QED
    BY <2>1 DEF Told
<1> QED
  BY <1>2, <1>3 DEF Greets

LEMMA WorksGreeting ==
    ASSUME TypeInv, TypeOK', Structure(queue), OwnData, Greeting(queue), NEW s, Works(s)
    PROVE  Greeting(queue)'
<1>1. /\ s \in Sessions /\ UNCHANGED <<client, server>>
      /\ Dead(s) => Dead(s)'
      /\ \A t \in Sessions \ {s} :
            /\ state'[t] = state[t] /\ sendqueue'[t] = sendqueue[t]
            /\ identreceived'[t] = identreceived[t] /\ connected'[t] = connected[t]
      /\ \A y \in SockIds : y \in Open' => y \in Open
  BY MapType, OpenPrime DEF Works, Serves, sockids, TypeInv
<1>2. /\ queue \in Seq(Events) /\ Mail(queue') \subseteq Mail(queue)
      /\ queue' = queue \/ (queue # <<>> /\ queue' = Tail(queue))
  BY WorksQueue
<1>3. \A t \in Sessions : ~Dead(t) => Greets(queue, t)
  BY DEF Greeting
<1> SUFFICES ASSUME NEW t \in Sessions, ~Dead(t)' PROVE Greets(queue, t)'
  BY DEF Greeting
<1>4. CASE t # s
  <2>1. /\ server[t] \in Open' => server[t] \in Open /\ socketinfomap'[server[t]] = socketinfomap[server[t]]
        /\ client[t] \in Open' => client[t] \in Open /\ socketinfomap'[client[t]] = socketinfomap[client[t]]
    BY <1>4, OthersKept, OwnOf
  <2>2. Greets(queue, t)
    BY <1>1, <1>3, <1>4 DEF Dead
  <2>3. ~(queue' = queue) => ~From(Head(queue), "CONNECTED", "BncSessionClient", t)
    BY <1>1, <1>4 DEF Works, Connects, From
  <2> QED
    BY <1>1, <1>2, <1>4, <2>1, <2>2, <2>3, GreetsKept DEF Greets
<1>5. ASSUME t = s, NEW y \in {client[s], server[s]}, y \in Open'
      PROVE  y \in Open /\ y \in SockIds /\ y # identp[s]
  <2>1. y \in Open /\ y \in SockIds
    BY <1>1, <1>5 DEF Open
  <2> QED
    BY <1>1, <2>1, Apart, OwnOf
<1>6. server[s] \in Open' => server[s] # client[s]
  <2> SUFFICES ASSUME server[s] \in Open', server[s] = client[s] PROVE FALSE
    OBVIOUS
  <2>1. server[s] \in Open
    BY <1>1 DEF Open
  <2> QED
    BY <1>1, <2>1, Apart, OwnOf
<1>7. t = s => Greets(queue, s)
  BY <1>1, <1>3
<1>8. queue # <<>> => Head(queue) \in Mail(queue)
  BY <1>2, MailPop
<1>9. connected \in [Sessions -> BOOLEAN]
  BY DEF TypeInv, TypeOK
<1>10. CASE t = s /\ Finishes(s)
  BY <1>1, <1>10 DEF Finishes, Dead, TypeInv, TypeOK
<1>11. CASE t = s /\ Connects(s)
  <2>1. connected'[s] /\ UNCHANGED <<identreceived, identstr>>
    BY <1>1, <1>9, <1>11 DEF Connects
  <2>2. (identreceived[s] /\ ~NoIdnt /\ server[s] \in Open') => socketinfomap'[server[s]].first # NoSock
    <3>1. identstr[s] # NoSock
      BY <1>1, NumbersAssumption DEF TypeInv, TypeOK
    <3> QED
      BY <1>5, <1>11, <3>1 DEF Connects
  <2> QED
    BY <1>1, <1>11, <2>1, <2>2 DEF Greets
<1>12. CASE t = s /\ ClientSays(s)
  <2>1. connected[s] /\ UNCHANGED <<connected, identreceived>>
    BY <1>7, <1>8, <1>12 DEF Greets, ClientSays, Pops
  <2>2. (identreceived[s] /\ ~NoIdnt /\ server[s] \in Open') => socketinfomap'[server[s]].first # NoSock
    <3> SUFFICES ASSUME identreceived[s], ~NoIdnt, server[s] \in Open' PROVE socketinfomap'[server[s]].first # NoSock
      OBVIOUS
    <3>1. socketinfomap[server[s]].first # NoSock /\ server[s] \in Open
      BY <1>5, <1>7, <1>12, <2>1 DEF Greets
    <3> QED
      BY <1>12, <3>1 DEF ClientSays
  <2> QED
    BY <1>1, <1>12, <2>1, <2>2 DEF Greets
<1>13. CASE t = s /\ ServerSays(s)
  <2>1. UNCHANGED <<connected, identreceived>> /\ From(Head(queue), "DATA", "BncSessionClient", s) /\ queue # <<>>
    BY <1>13 DEF ServerSays, Pops
  <2>2. connected[s]
    BY <1>2, <1>7, <1>13, <2>1, AnnouncedTail DEF Greets
  <2>3. (identreceived[s] /\ ~NoIdnt /\ server[s] \in Open') => socketinfomap'[server[s]].first # NoSock
    <3> SUFFICES ASSUME identreceived[s], ~NoIdnt, server[s] \in Open' PROVE socketinfomap'[server[s]].first # NoSock
      OBVIOUS
    <3>1. socketinfomap[server[s]].first # NoSock /\ server[s] \in SockIds \ {client[s]}
      BY <1>5, <1>6, <1>7, <1>13, <2>2 DEF Greets
    <3> QED
      BY <1>13, <3>1 DEF ServerSays
  <2> QED
    BY <1>1, <1>13, <2>1, <2>2, <2>3 DEF Greets
<1>14. ASSUME t = s, ~Connects(s), UNCHANGED connected,
              sendqueue' = sendqueue \/ sendqueue' = [sendqueue EXCEPT ![s] = <<>>],
              \A y \in {client[s], server[s]} : y \in Open' => socketinfomap'[y].type = socketinfomap[y].type,
              client[s] \in Open' => socketinfomap'[client[s]].first = socketinfomap[client[s]].first,
              (connected[s] /\ identreceived'[s] /\ ~NoIdnt /\ server[s] \in Open') =>
                    socketinfomap'[server[s]].first # NoSock
       PROVE  Greets(queue, t)'
  <2>1. ~(queue' = queue) => ~From(Head(queue), "CONNECTED", "BncSessionClient", s)
    BY <1>14 DEF Works
  <2>2. sendqueue'[s] # <<>> => sendqueue[s] # <<>>
    BY <1>1, <1>14 DEF TypeInv, TypeOK
  <2> QED
    BY <1>1, <1>2, <1>5, <1>7, <1>14, <2>1, <2>2, GreetsKept
<1>15. CASE t = s /\ ~Connects(s) /\ (Secures(s) \/ Asks(s) \/ Idles(s))
  <2>1. /\ UNCHANGED <<connected, sendqueue, identreceived>>
        /\ socketinfomap' = socketinfomap \/ Untouched(socketinfomap, socketinfomap', {identp[s]})
    BY <1>15 DEF Secures, Asks, Idles
  <2>2. \A y \in {client[s], server[s]} : y \in Open' => y \in Open /\ socketinfomap'[y] = socketinfomap[y]
    BY <1>5, <1>15, <2>1 DEF Untouched
  <2> QED
    BY <1>7, <1>14, <1>15, <2>1, <2>2 DEF Greets
<1>16. CASE t = s /\ ~Connects(s) /\ Continues(s)
  <2>1. /\ UNCHANGED connected /\ sendqueue' = [sendqueue EXCEPT ![s] = <<>>] /\ SameTypes
        /\ Untouched(socketinfomap, socketinfomap', {identp[s], server[s]})
    BY <1>16 DEF Continues
  <2>2. client[s] \in Open' => client[s] # server[s]
    <3> SUFFICES ASSUME client[s] \in Open', server[s] = client[s] PROVE FALSE
      OBVIOUS
    <3> QED
      BY <1>6
  <2>3. client[s] \in Open' => socketinfomap'[client[s]].first = socketinfomap[client[s]].first
    BY <1>5, <1>16, <2>1, <2>2 DEF Untouched
  <2>4. (connected[s] /\ server[s] \in Open') => socketinfomap'[server[s]].first # NoSock
    <3>1. PICK user \in {Nobody, client[s]} :
            /\ identstr' = [identstr EXCEPT ![s] = user]
            /\ (connected[s] /\ server[s] \in Open') => socketinfomap'[server[s]].first =
                    IF socketinfomap[server[s]].first = NoSock THEN user ELSE socketinfomap[server[s]].first
      BY <1>16 DEF Continues
    <3>2. identstr'[s] = user /\ identstr'[s] \in SockIds \cup {Nobody}
      BY <1>1, <3>1 DEF TypeInv, TypeOK
    <3>3. user # NoSock
      BY <3>2, NumbersAssumption
    <3> QED
      BY <3>1, <3>3
  <2>5. \A y \in {client[s], server[s]} : y \in Open' => socketinfomap'[y].type = socketinfomap[y].type
    BY <1>5, <1>16, <2>1 DEF SameTypes
  <2> QED
    BY <1>14, <1>16, <2>1, <2>3, <2>4, <2>5
<1> QED
  BY <1>4, <1>10, <1>11, <1>12, <1>13, <1>15, <1>16 DEF Works

LEMMA NextGreeting ==
    ASSUME Sequential, ServerFirst, TypeInv, Structure(queue), Over, OwnData, Greeting(queue), [Next]_vars
    PROVE  Greeting(queue)'
<1>1. CASE UNCHANGED vars
  BY <1>1 DEF vars, sockids, clientVars, sessionVars, Greeting, Greets, Announced, Told, Dead, Open
<1>2. TypeOK'
  BY NextTypes DEF TypeInv
<1> QED
  BY <1>1, <1>2, IOMoves, MovesGreeting, AcceptGreeting, NewGreeting, Working, WorksGreeting
  DEF Next, IONext, Handle, Serving

\* What stands first on the way to a server.
Introduced ==
    \A s \in Sessions : server[s] \in Open /\ ~NoIdnt =>
        socketinfomap[server[s]].first \in {NoSock, Nobody, client[s]}

LEMMA WorksIntroduced ==
    ASSUME TypeInv, Structure(queue), OwnData, Greeting(queue), Introduced, NEW s, Works(s)
    PROVE  Introduced'
<1>1. /\ s \in Sessions /\ UNCHANGED <<client, server, identp>>
      /\ \A y \in SockIds : y \in Open' => y \in Open
  BY MapType, OpenPrime DEF Works, Serves, sockids, TypeInv
<1> SUFFICES ASSUME NEW t \in Sessions, server[t] \in Open', ~NoIdnt
             PROVE  socketinfomap'[server[t]].first \in {NoSock, Nobody, client[t]}
  BY <1>1 DEF Introduced
<1> DEFINE was == socketinfomap[server[t]].first
           is == socketinfomap'[server[t]].first
<1>2. server[t] \in Open /\ server[t] \in SockIds /\ was \in {NoSock, Nobody, client[t]}
  BY <1>1 DEF Introduced, Open
<1>3. CASE t # s
  BY <1>2, <1>3, OthersKept, OwnOf
<1>4. t = s => server[s] # client[s] /\ server[s] # identp[s]
  BY <1>1, <1>2, Apart, OwnOf
<1>6. CASE t = s /\ Connects(s)
  <2>1. identstr[s] \in {Nobody, client[s]}
    BY <1>1 DEF OwnData
  <2>2. is = IF was = NoSock /\ identreceived[s] /\ ~NoIdnt THEN identstr[s] ELSE was
    BY <1>2, <1>6 DEF Connects
  <2> QED
    BY <1>2, <1>6, <2>1, <2>2
<1>7. CASE t = s /\ ClientSays(s)
  <2>1. queue # <<>> /\ From(Head(queue), "DATA", "BncSession", s) /\ Head(queue) \in Mail(queue)
    BY <1>7, MailPop DEF ClientSays, Pops, TypeInv, TypeOK
  <2>2. CASE UNCHANGED socketinfomap
    BY <1>2, <2>2
  <2>3. CASE state[s] = "ESTABLISHED"
    <3>1. connected[s] /\ identreceived[s]
      BY <1>1, <2>1, <2>3 DEF Greeting, Greets, OwnData, Dead
    <3>2. was # NoSock
      BY <1>1, <1>2, <1>7, <2>3, <3>1 DEF Greeting, Greets, Dead
    <3>3. is = IF was = NoSock THEN Data ELSE was
      BY <1>2, <1>7, <2>3 DEF ClientSays
    <3> QED
      BY <1>2, <3>2, <3>3
  <2> QED
    BY <1>7, <2>2, <2>3 DEF ClientSays
<1>8. CASE t = s /\ ServerSays(s)
  BY <1>2, <1>4, <1>8 DEF ServerSays
<1>9. CASE t = s /\ Continues(s)
  <2>1. CASE connected[s]
    <3>1. PICK user \in {Nobody, client[s]} :
            (connected[s] /\ server[s] \in Open') => is = IF was = NoSock THEN user ELSE was
      BY <1>9 DEF Continues
    <3> QED
      BY <1>2, <1>9, <2>1, <3>1
  <2>2. CASE ~connected[s]
    <3>1. sendqueue[s] = <<>>
      BY <1>1, <1>9, <2>2 DEF Continues, Greeting, Greets, Dead
    <3>2. SameFirst
      BY <1>9, <2>2, <3>1 DEF Continues
    <3> QED
      BY <1>2, <3>2 DEF SameFirst
  <2> QED
    BY <2>1, <2>2
<1>10. CASE t = s /\ (Finishes(s) \/ Idles(s))
  <2>1. SameFirst
    BY <1>10 DEF Finishes, Idles
  <2> QED
    BY <1>2, <2>1 DEF SameFirst
<1>11. CASE t = s /\ (Secures(s) \/ Asks(s))
  <2>1. UNCHANGED socketinfomap \/ Untouched(socketinfomap, socketinfomap', {identp[s]})
    BY <1>11 DEF Secures, Asks
  <2> QED
    BY <1>2, <1>4, <1>11, <2>1 DEF Untouched
<1> QED
  BY <1>3, <1>6, <1>7, <1>8, <1>9, <1>10, <1>11 DEF Works

LEMMA NextIntroduced ==
    ASSUME Sequential, TypeInv, Structure(queue), OwnData, Greeting(queue), Introduced, [Next]_vars
    PROVE  Introduced'
<1>1. ASSUME NEW x \in SockIds, Moves(x) PROVE Introduced'
  <2>1. /\ UNCHANGED <<client, server>> /\ socketinfomap \in [SockIds -> SocketInfos]
        /\ socketinfomap' = [socketinfomap EXCEPT ![x] = socketinfomap'[x]]
        /\ socketinfomap[x].type # "UNUSED"
        /\ socketinfomap'[x].type # "UNUSED" => socketinfomap'[x].first = socketinfomap[x].first
    BY <1>1, MapType DEF Moves, IOStep, sockids, TypeInv
  <2>2. \A y \in SockIds : y \in Open' => y \in Open /\ socketinfomap'[y].first = socketinfomap[y].first
    BY <2>1 DEF Open
  <2> QED
    BY <2>1, <2>2 DEF Introduced, Open
<1>2. CASE Accept
  <2>1. PICK c : c = Fresh
    OBVIOUS
  <2>2. ~Names(c)
    BY <1>2, <2>1, FreshIds, FreshIsNew DEF Accept
  <2>3. /\ UNCHANGED <<client, server>> /\ socketinfomap \in [SockIds -> SocketInfos]
        /\ socketinfomap' = [socketinfomap EXCEPT ![c] = New("LISTEN", <<>>, c)]
    BY <1>2, <2>1, MapType DEF Accept, sockids, TypeInv
  <2>4. \A s \in Sessions : server[s] # c
    BY <2>2 DEF Names
  <2> QED
    BY <2>3, <2>4 DEF Introduced, Open
<1>3. CASE HandleNew
  <2>1. PICK s, c, y, Z, r : Begins(s, c, y, Z, r) /\ ~Names(c)
    BY <1>3, NewStructure
  <2>2. /\ s \in Sessions /\ y \in SockIds /\ socketinfomap[y].type = "UNUSED"
        /\ socketinfomap'[y] = New("CONNECTING", <<"BncSessionClient", s>>, c) \/ socketinfomap'[y] = socketinfomap[y]
        /\ server' = [server EXCEPT ![s] = y]
    BY <2>1, FreshIsNew DEF Begins
  <2>3. server'[s] = y
    BY <2>2 DEF TypeInv, TypeOK
  <2>4. socketinfomap'[y].type # "UNUSED" => socketinfomap'[y].first = NoSock
    BY <2>2, NewFields
  <2> SUFFICES ASSUME NEW t \in Sessions, server'[t] \in Open', ~NoIdnt
               PROVE  socketinfomap'[server'[t]].first \in {NoSock, Nobody, client'[t]}
    BY DEF Introduced
  <2>5. CASE t = s
    BY <2>3, <2>4, <2>5 DEF Open
  <2>6. CASE t # s
    <3>1. /\ client'[t] = client[t] /\ server'[t] = server[t]
          /\ \A class \in Classes : Own(class, t) \in Open' =>
                Own(class, t) \in Open /\ socketinfomap'[Own(class, t)] = socketinfomap[Own(class, t)]
      BY <2>1, <2>6, OthersNew
    <3> QED
      BY <3>1, OwnOf DEF Introduced
  <2> QED
    BY <2>5, <2>6
<1>4. CASE UNCHANGED vars
  BY <1>4 DEF vars, sockids, Introduced, Open
<1> QED
  BY <1>1, <1>2, <1>3, <1>4, IOMoves, Working, WorksIntroduced DEF Next, IONext, Handle, Serving

LEMMA IntroducedFirst == TypeInv /\ Structure(queue) /\ Introduced => IdentFirst
<1> SUFFICES ASSUME TypeInv, Structure(queue), Introduced, NEW x \in Open, ~NoIdnt,
                    socketinfomap[x].er # <<>>, socketinfomap[x].er[1] = "BncSessionClient"
             PROVE  socketinfomap[x].first \in {NoSock, Nobody, socketinfomap[x].for}
  BY DEF IdentFirst
<1>1. /\ x = Own("BncSessionClient", Session(x)) /\ socketinfomap[x].for = client[Session(x)]
  BY DEF Structure, Sockets, Class
<1>2. Session(x) \in Sessions
  BY ErType DEF TypeInv, Open
<1>3. x = server[Session(x)]
  BY <1>1, <1>2, OwnOf
<1> QED
  BY <1>1, <1>2, <1>3 DEF Introduced

LEMMA InitGreeting == Init => Greeting(queue) /\ Introduced
BY DEF Init, Greeting, Dead, Introduced, Open, Unused

\* With clients that wait for the greeting, the first thing a server is sent is
\* an IDNT with the user of its own client or with none (checkSendIdent in
\* BncSessionClient::FDConnected and ident, before sendQueuedData): a greeting
\* comes after its connection is known, so what the client answers finds the IDNT
\* queued, or waits in sendqueue for the user.
THEOREM UserFirst ==
    ASSUME Sequential, ServerFirst
    PROVE  Spec => []IdentFirst
<1> DEFINE Inv == TypeInv /\ Structure(queue) /\ Over /\ OwnData /\ Greeting(queue) /\ Introduced
<1>1. Init => Inv
  BY InitTypes, InitStructure, InitOver, InitData, InitGreeting
<1>2. Inv /\ [Next]_vars => Inv'
  BY NextTypes, NextStructure, NextOver, NextData, NextGreeting, NextIntroduced
<1>3. Inv => IdentFirst
  BY IntroducedFirst
<1> QED
  BY <1>1, <1>2, <1>3, PTL DEF Spec
=============================================================================
