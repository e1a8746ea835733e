------------------------- MODULE TrafficSafetyProofs ------------------------
(***************************************************************************)
(* What bounced transfers keep safe, for every number of owners, sessions  *)
(* and ports and every bound, when peers connect once to a listener and    *)
(* nothing overtakes that (Sequential): ports and sockets are not leaked,  *)
(* and data stays within its pair.                                         *)
(*                                                                         *)
(* The invariant has a part about the sessions and their sockets, and a    *)
(* part about what waits in the queue.  That one takes the queue as a      *)
(* parameter: a message taken or appended and what a step does beside that *)
(* are then treated apart.                                                 *)
(***************************************************************************)
EXTENDS TrafficProofs

USE NumbersAssumption, NamesAssumption, SequentialAssumption

\* A queue as TypeInv has it.
Proper(q) ==
    /\ q \in Seq(Messages)
    /\ \A i \in DOMAIN q : q[i].type \notin {"LISTENFAIL", "LOGIN"} => q[i].sock \in SockIds

-----------------------------------------------------------------------------
(* The sessions and their sockets.                                         *)

\* A session in use is in its owner's list, and the owner is logged in; so is
\* the owner of the one that is being activated.
Idling ==
    /\ \A s \in Sessions :
         state[s] # "INACTIVE" => s[2] <= made[s[1]] /\ control[s[1]] = "up"
    /\ activating # <<>> =>
         /\ state[activating] = "INACTIVE"
         /\ activating[2] <= made[activating[1]] /\ control[activating[1]] = "up"

\* A listener belongs to a session that awaits a connection on it.
Listeners ==
    /\ \A x \in Open : Type(x) = "TCP_SERVER" =>
         /\ Er(x) \in Awaiting /\ pasvlistener[Er(x)] = x
         /\ ~socketinfomap[x].unsent /\ ~socketinfomap[x].closing
    /\ \A s \in Awaiting : pasvlistener[s] \in Open /\ listenport[s] \in Ports

\* The connections of a session, if any are open, are each other's twins.
Pairs ==
    \A s \in Sessions :
        /\ pasvconn[s] \in Open =>
             state[s] = "ACTIVE" /\ socketinfomap[pasvconn[s]].twin = portconn[s]
        /\ portconn[s] \in Open =>
             state[s] = "ACTIVE" /\ socketinfomap[portconn[s]].twin = pasvconn[s]

\* Whether its session still has connection x.
Attached(x) == x = IF Type(x) = "TCP_PLAIN_LISTEN" THEN pasvconn[Er(x)] ELSE portconn[Er(x)]

\* A connection its session no longer has is closing, with data to send.
Attachments ==
    \A x \in Open :
        /\ Type(x) = "TCP_CONNECTING" =>
             Attached(x) /\ ~socketinfomap[x].unsent /\ ~socketinfomap[x].closing
        /\ Connected(x) /\ Er(x) # <<>> => socketinfomap[x].closing \/ Attached(x)
        /\ socketinfomap[x].closing => socketinfomap[x].unsent

\* No port is both to be had and waiting for its hour.
OneSet == availableports \cap unavailableports = {}

\* Sessions that await a connection have a port each, which nobody may take.
OwnPorts ==
    \A s \in Awaiting :
        /\ listenport[s] \notin availableports \cup unavailableports
        /\ \A t \in Awaiting : listenport[t] = listenport[s] => t = s

PortsInv == OneSet /\ NoPortLeak /\ OwnPorts

SessionInv == Idling /\ Listeners /\ Pairs /\ Attachments /\ PortsInv

-----------------------------------------------------------------------------
(* What waits in queue q.                                                  *)

\* A NEW finds the session that awaits it, with the listener it came from.
Arrivals(q) ==
    \A i \in DOMAIN q : q[i].type = "NEW" =>
        /\ q[i].to \in Awaiting /\ q[i].sock = pasvlistener[q[i].to]
        /\ \A j \in DOMAIN q : q[j].type = "NEW" /\ q[j].to = q[i].to => j = i

\* Nothing is heard of a socket before it is connected and polled.
Unheard(q) ==
    \A x \in Open : Type(x) = "TCP_CONNECTING" \/ ~socketinfomap[x].polled =>
        \A i \in DOMAIN q : q[i].sock # x

\* The IO thread may still read from a connection whose session has ended, if
\* poll returned it before: then the session has not been used again.
Late(q) ==
    \A e \in batch : e[2] = "IN" /\ Connected(e[1]) /\ ~Attached(e[1]) =>
        /\ state[Er(e[1])] # "ACTIVE"
        /\ \A i \in DOMAIN q : ~ (q[i].type = "NEW" /\ q[i].to = Er(e[1]))
        /\ \A f \in batch : ~ (Type(f[1]) = "TCP_SERVER" /\ Er(f[1]) = Er(e[1]))

\* How connecting ended is told to the session that waits for it, or to one
\* whose owner has since left, and comes first of what is told of the socket.
Verdict(m) == m.type \in {"CONNECTED", "FAIL"}
Verdicts(q) ==
    \A i \in DOMAIN q : Verdict(q[i]) =>
        /\ \/ state[q[i].to] = "ACTIVE" /\ portconn[q[i].to] = q[i].sock
           \/ \E j \in DOMAIN q : j > i /\ q[j] = Login(q[i].to[1])
        /\ \A j \in DOMAIN q : i # j /\ q[j].sock = q[i].sock => q[i].type = "CONNECTED" /\ j > i
        /\ q[i].type = "FAIL" => q[i].sock \notin Open

\* Until the session knows, its other connection is there and not polled.
Pending(q) ==
    \A s \in Sessions :
        /\ state[s] = "ACTIVE"
        /\ \/ portconn[s] \in Open /\ Type(portconn[s]) = "TCP_CONNECTING"
           \/ \E i \in DOMAIN q : Verdict(q[i]) /\ q[i].sock = portconn[s]
        => pasvconn[s] \in Open /\ ~socketinfomap[pasvconn[s]].polled

\* Data for an active session is of its own connections, and data for one that
\* is about to become active is in front of that.
Bytes(m) == m.type \in {"PASVDATA", "PORTDATA"}
Owned(m) == m.sock = IF m.type = "PASVDATA" THEN pasvconn[m.to] ELSE portconn[m.to]
DataOK(q) ==
    \A i \in DOMAIN q : Bytes(q[i]) =>
        /\ state[q[i].to] = "ACTIVE" => Owned(q[i])
        /\ \A j \in DOMAIN q : q[j].type = "NEW" /\ q[j].to = q[i].to => i < j

\* The end of a connection is told once, when it is closed; a session that has
\* the connection still is active.
Ending(m) == m.type \in {"PASVCLOSED", "PORTCLOSED"}
Ends(q) ==
    \A i \in DOMAIN q : Ending(q[i]) =>
        /\ q[i].sock \notin Open
        /\ q[i].type = "PASVCLOSED" /\ pasvconn[q[i].to] = q[i].sock => state[q[i].to] = "ACTIVE"
        /\ q[i].type = "PORTCLOSED" /\ portconn[q[i].to] = q[i].sock => state[q[i].to] = "ACTIVE"
        /\ \A j \in DOMAIN q : Ending(q[j]) /\ q[j].sock = q[i].sock => j = i

QueueInv(q) ==
    /\ Arrivals(q) /\ Unheard(q) /\ Late(q) /\ Verdicts(q) /\ Pending(q)
    /\ DataOK(q) /\ Ends(q)

\* An owner that is not logged in will be, once.
Logins(q) ==
    \A o \in Owners :
        /\ control[o] = "down" => \E i \in DOMAIN q : q[i] = Login(o)
        /\ \A i \in DOMAIN q : q[i] = Login(o) =>
             control[o] = "down" /\ \A j \in DOMAIN q : q[j] = Login(o) => i = j

\* A connection without a receiver is announced.
Unattended(q) ==
    \A x \in Open : Er(x) = <<>> => \E i \in DOMAIN q : q[i].type = "NEW" /\ q[i].new = x

SafeInv == TypeInv /\ SessionInv /\ QueueInv(queue) /\ Logins(queue) /\ Unattended(queue)

-----------------------------------------------------------------------------
(* Messages taken and appended.                                            *)

LEMMA TailPlaces ==
  ASSUME NEW q \in Seq(Messages), q # <<>>
  PROVE  /\ Tail(q) \in Seq(Messages) /\ 1 \in DOMAIN q /\ Head(q) = q[1]
         /\ \A i \in DOMAIN Tail(q) : i \in Nat \ {0} /\ i + 1 \in DOMAIN q /\ Tail(q)[i] = q[i + 1]
         /\ \A i \in DOMAIN q : i \in Nat /\ (i > 1 => i - 1 \in DOMAIN Tail(q) /\ Tail(q)[i - 1] = q[i])
  OBVIOUS

LEMMA AppendPlaces ==
  ASSUME NEW q \in Seq(Messages), NEW e \in Messages
  PROVE  LET n == Len(q) + 1
         IN  /\ Append(q, e) \in Seq(Messages) /\ n \in DOMAIN Append(q, e) /\ Append(q, e)[n] = e
             /\ \A i \in DOMAIN q : i \in Nat /\ i < n /\ i \in DOMAIN Append(q, e) /\ Append(q, e)[i] = q[i]
             /\ \A i \in DOMAIN Append(q, e) : i = n \/ i \in DOMAIN q
             /\ n \in Nat
  OBVIOUS

LEMMA TailQueue ==
  ASSUME NEW q, Proper(q), q # <<>>, QueueInv(q)
  PROVE  Proper(Tail(q)) /\ QueueInv(Tail(q))
<1> DEFINE t == Tail(q)
<1>1. /\ t \in Seq(Messages) /\ 1 \in DOMAIN q
      /\ \A i \in DOMAIN t : i \in Nat \ {0} /\ i + 1 \in DOMAIN q /\ t[i] = q[i + 1]
      /\ \A i \in DOMAIN q : i \in Nat /\ (i > 1 => i - 1 \in DOMAIN t /\ t[i - 1] = q[i])
  BY TailPlaces DEF Proper
<1>2. \A i \in DOMAIN t, j \in DOMAIN t : (i + 1 = j + 1 => i = j) /\ (i + 1 < j + 1 => i < j) /\ (j + 1 > i + 1 => j > i)
  BY <1>1
<1> HIDE DEF t
<1>3. Proper(t)
  BY <1>1 DEF Proper
<1>4. Arrivals(t)
  BY <1>1, <1>2 DEF QueueInv, Arrivals
<1>5. Unheard(t)
  BY <1>1 DEF QueueInv, Unheard
<1>6. Late(t)
  BY <1>1 DEF QueueInv, Late
<1>7. Verdicts(t)
  <2> SUFFICES ASSUME NEW i \in DOMAIN t, Verdict(t[i])
               PROVE  /\ \/ state[t[i].to] = "ACTIVE" /\ portconn[t[i].to] = t[i].sock
                         \/ \E j \in DOMAIN t : j > i /\ t[j] = Login(t[i].to[1])
                      /\ \A j \in DOMAIN t : i # j /\ t[j].sock = t[i].sock => t[i].type = "CONNECTED" /\ j > i
                      /\ t[i].type = "FAIL" => t[i].sock \notin Open
    BY DEF Verdicts
  <2>1. /\ \/ state[t[i].to] = "ACTIVE" /\ portconn[t[i].to] = t[i].sock
           \/ \E j \in DOMAIN q : j > i + 1 /\ q[j] = Login(t[i].to[1])
        /\ \A j \in DOMAIN q : i + 1 # j /\ q[j].sock = t[i].sock => t[i].type = "CONNECTED" /\ j > i + 1
        /\ t[i].type = "FAIL" => t[i].sock \notin Open
    BY <1>1 DEF QueueInv, Verdicts
  <2>2. ASSUME NEW j \in DOMAIN q, j > i + 1, q[j] = Login(t[i].to[1])
        PROVE  \E k \in DOMAIN t : k > i /\ t[k] = Login(t[i].to[1])
    <3>1. j - 1 \in DOMAIN t /\ t[j - 1] = q[j] /\ j - 1 > i
      BY <1>1, <2>2
    <3> QED BY <2>2, <3>1
  <2>3. \A j \in DOMAIN t : i # j /\ t[j].sock = t[i].sock => t[i].type = "CONNECTED" /\ j > i
    BY <1>1, <1>2, <2>1
  <2> QED BY <2>1, <2>2, <2>3
<1>8. Pending(t)
  BY <1>1 DEF QueueInv, Pending
<1>9. DataOK(t)
  BY <1>1, <1>2 DEF QueueInv, DataOK
<1>10. Ends(t)
  BY <1>1, <1>2 DEF QueueInv, Ends
<1> QED BY <1>3, <1>4, <1>5, <1>6, <1>7, <1>8, <1>9, <1>10 DEF QueueInv, t

\* What a step may append to q, a NEW aside.
Appendable(q, e) ==
    /\ e \in Messages /\ e.type # "NEW"
    /\ e.type \notin {"LISTENFAIL", "LOGIN"} => e.sock \in SockIds
    /\ \A x \in Open : Type(x) = "TCP_CONNECTING" \/ ~socketinfomap[x].polled => e.sock # x
    /\ \A i \in DOMAIN q : Verdict(q[i]) /\ q[i].sock = e.sock => q[i].type = "CONNECTED"
    /\ Verdict(e) =>
         /\ state[e.to] = "ACTIVE" /\ portconn[e.to] = e.sock
         /\ \A i \in DOMAIN q : q[i].sock # e.sock
         /\ e.type = "FAIL" => e.sock \notin Open
         /\ \A s \in Sessions : state[s] = "ACTIVE" /\ portconn[s] = e.sock =>
              pasvconn[s] \in Open /\ ~socketinfomap[pasvconn[s]].polled
    /\ Bytes(e) =>
         /\ state[e.to] = "ACTIVE" => Owned(e)
         /\ \A i \in DOMAIN q : ~ (q[i].type = "NEW" /\ q[i].to = e.to)
    /\ Ending(e) =>
         /\ e.sock \notin Open
         /\ e.type = "PASVCLOSED" /\ pasvconn[e.to] = e.sock => state[e.to] = "ACTIVE"
         /\ e.type = "PORTCLOSED" /\ portconn[e.to] = e.sock => state[e.to] = "ACTIVE"
         /\ \A i \in DOMAIN q : ~ (Ending(q[i]) /\ q[i].sock = e.sock)

LEMMA AppendQueue ==
  \A q, e : Proper(q) /\ QueueInv(q) /\ Appendable(q, e) =>
    Proper(Append(q, e)) /\ QueueInv(Append(q, e))
<1> SUFFICES ASSUME NEW q, NEW e, Proper(q), QueueInv(q), Appendable(q, e)
             PROVE  Proper(Append(q, e)) /\ QueueInv(Append(q, e))
  OBVIOUS
<1> DEFINE a == Append(q, e)
           n == Len(q) + 1
<1>1. e \in Messages /\ e.type # "NEW" /\ q \in Seq(Messages)
  BY DEF Appendable, Proper
<1>2. /\ a \in Seq(Messages) /\ n \in DOMAIN a /\ a[n] = e /\ n \in Nat
      /\ \A i \in DOMAIN q : i \in Nat /\ i < n /\ i \in DOMAIN a /\ a[i] = q[i]
      /\ \A i \in DOMAIN a : i = n \/ i \in DOMAIN q
  BY <1>1, AppendPlaces
<1>3. \A i \in DOMAIN q, j \in DOMAIN q : ~(i < j /\ j < i) /\ i # n /\ n > i
  BY <1>2
<1> HIDE DEF a, n
<1>4. Proper(a)
  BY <1>2 DEF Proper, Appendable
<1>5. Arrivals(a)
  BY <1>1, <1>2 DEF QueueInv, Arrivals
<1>6. Unheard(a)
  BY <1>2 DEF QueueInv, Unheard, Appendable
<1>7. Late(a)
  BY <1>1, <1>2 DEF QueueInv, Late
<1>8. Verdicts(a)
  <2>1. ASSUME NEW i \in DOMAIN q, Verdict(q[i])
        PROVE  /\ \/ state[a[i].to] = "ACTIVE" /\ portconn[a[i].to] = a[i].sock
                  \/ \E j \in DOMAIN a : j > i /\ a[j] = Login(a[i].to[1])
               /\ \A j \in DOMAIN a : i # j /\ a[j].sock = a[i].sock => a[i].type = "CONNECTED" /\ j > i
               /\ a[i].type = "FAIL" => a[i].sock \notin Open
    BY <1>2, <1>3, <2>1 DEF QueueInv, Verdicts, Appendable
  <2>2. Verdict(e) =>
               /\ state[e.to] = "ACTIVE" /\ portconn[e.to] = e.sock
               /\ \A j \in DOMAIN a : n # j => a[j].sock # e.sock
               /\ e.type = "FAIL" => e.sock \notin Open
    BY <1>2 DEF Appendable
  <2> QED BY <1>2, <2>1, <2>2 DEF Verdicts
<1>9. Pending(a)
  BY <1>2 DEF QueueInv, Pending, Appendable
<1>10. DataOK(a)
  BY <1>1, <1>2, <1>3 DEF QueueInv, DataOK, Appendable
<1>11. Ends(a)
  BY <1>2 DEF QueueInv, Ends, Appendable
<1> QED BY <1>4, <1>5, <1>6, <1>7, <1>8, <1>9, <1>10, <1>11 DEF QueueInv, a

LEMMA AppendQueueNext ==
  (\A q, e : Proper(q) /\ QueueInv(q) /\ Appendable(q, e) =>
     Proper(Append(q, e)) /\ QueueInv(Append(q, e)))'
  BY AppendQueue, PTL

\* The messages that are for every session, or for none.
LEMMA PlainMessages ==
  ASSUME TypeInv, NEW q, Proper(q)
  PROVE  /\ \A o \in Owners : Appendable(q, Login(o))
         /\ \A s \in Sessions : Appendable(q, Event("LISTENFAIL", s, NoSock))
<1> USE DEF Appendable, Verdict, Bytes, Ending
<1>1. \A x \in Open : x # NoSock
  BY DEF Open
<1>2. \A i \in DOMAIN q : Verdict(q[i]) => q[i].sock # NoSock
  BY DEF Proper
<1>3. \A o \in Owners : Appendable(q, Login(o))
  BY <1>1, <1>2, LoginType
<1>4. \A s \in Sessions : Appendable(q, Event("LISTENFAIL", s, NoSock))
  <2> TAKE s \in Sessions
  <2>1. /\ Event("LISTENFAIL", s, NoSock) \in Messages
        /\ Event("LISTENFAIL", s, NoSock).type = "LISTENFAIL" /\ Event("LISTENFAIL", s, NoSock).sock = NoSock
    BY EventType
  <2> QED BY <1>1, <1>2, <2>1
<1> QED BY <1>3, <1>4

LEMMA QueueProper == ASSUME TypeInv PROVE Proper(queue) /\ Places = DOMAIN queue
  BY TypeParts DEF TypeInv, QueueOK, Proper, Sources, Places

\* The two that some message ends.
LEMMA TailMarks ==
  ASSUME NEW q, Proper(q), q # <<>>
  PROVE  /\ Logins(q) /\ Head(q).type # "LOGIN" => Logins(Tail(q))
         /\ Unattended(q) /\ Head(q).type # "NEW" => Unattended(Tail(q))
<1> DEFINE t == Tail(q)
<1>1. /\ t \in Seq(Messages) /\ 1 \in DOMAIN q /\ Head(q) = q[1]
      /\ \A i \in DOMAIN t : i \in Nat \ {0} /\ i + 1 \in DOMAIN q /\ t[i] = q[i + 1]
      /\ \A i \in DOMAIN q : i \in Nat /\ (i > 1 => i - 1 \in DOMAIN t /\ t[i - 1] = q[i])
  BY TailPlaces DEF Proper
<1>2. \A i \in DOMAIN q : i = 1 \/ (i - 1 \in DOMAIN t /\ t[i - 1] = q[i])
  <2>1. \A i \in DOMAIN q : i = 1 \/ i > 1
    BY DEF Proper
  <2> QED BY <1>1, <2>1
<1>3. \A i \in DOMAIN t, j \in DOMAIN t : i + 1 = j + 1 => i = j
  BY <1>1
<1> HIDE DEF t
<1>4. Logins(q) /\ Head(q).type # "LOGIN" => Logins(t)
  BY <1>1, <1>2, <1>3, LoginType DEF Logins
<1>5. Unattended(q) /\ Head(q).type # "NEW" => Unattended(t)
  BY <1>1, <1>2 DEF Unattended
<1> QED BY <1>4, <1>5 DEF t

LEMMA AppendMarks ==
  ASSUME NEW q, Proper(q), NEW e \in Messages
  PROVE  /\ Logins(q) /\ e.type # "LOGIN" => Logins(Append(q, e))
         /\ Unattended(q) => Unattended(Append(q, e))
<1> DEFINE a == Append(q, e)
           n == Len(q) + 1
<1>1. /\ n \in DOMAIN a /\ a[n] = e
      /\ \A i \in DOMAIN q : i \in DOMAIN a /\ a[i] = q[i]
      /\ \A i \in DOMAIN a : i = n \/ i \in DOMAIN q
  BY AppendPlaces DEF Proper
<1> HIDE DEF a, n
<1>2. Logins(q) /\ e.type # "LOGIN" => Logins(a)
  BY <1>1, LoginType DEF Logins
<1>3. Unattended(q) => Unattended(a)
  BY <1>1 DEF Unattended
<1> QED BY <1>2, <1>3 DEF a

\* What a step leaves as it was.
LEMMA SameMarks ==
  ASSUME NEW q
  PROVE  /\ Logins(q) /\ UNCHANGED control => Logins(q)'
         /\ Unattended(q) /\ (\A x \in Open' : socketinfomap'[x].er = <<>> => x \in Open /\ Er(x) = <<>>)
              => Unattended(q)'
<1>1. Logins(q) /\ UNCHANGED control => Logins(q)'
  BY DEF Logins, Login
<1>2. Unattended(q) /\ (\A x \in Open' : socketinfomap'[x].er = <<>> => x \in Open /\ Er(x) = <<>>)
              => Unattended(q)'
  BY DEF Unattended, Er
<1> QED BY <1>1, <1>2

LEMMA Assembled ==
  ASSUME TypeInv', SessionInv', NEW q, q = queue', QueueInv(q)', Logins(q)', Unattended(q)'
  PROVE  SafeInv'
<1>1. QueueInv(queue)'
  BY DEF QueueInv, Arrivals, Unheard, Late, Verdicts, Pending, DataOK, Ends
<1>2. Logins(queue)' /\ Unattended(queue)'
  BY DEF Logins, Unattended
<1> QED BY <1>1, <1>2 DEF SafeInv

-----------------------------------------------------------------------------
(* Steps that touch neither the sockets nor what the sessions make of them. *)

Apart ==
    /\ UNCHANGED <<state, pasvconn, portconn, socketinfomap>>
    /\ batch' \subseteq batch
    /\ \A s \in Awaiting : pasvlistener'[s] = pasvlistener[s] /\ listenport'[s] = listenport[s]

LEMMA ApartKeeps ==
  ASSUME TypeInv, SessionInv, NEW q, QueueInv(q), Apart
  PROVE  QueueInv(q)' /\ Listeners' /\ Pairs' /\ Attachments' /\ Open' = Open
<1>1. Open' = Open /\ Awaiting' = Awaiting
  BY DEF Apart, Open, Awaiting
<1>2. Arrivals(q)'
  BY <1>1 DEF Apart, QueueInv, Arrivals
<1>3. Unheard(q)'
  BY <1>1 DEF Apart, QueueInv, Unheard, Type
<1>4. Late(q)'
  BY <1>1 DEF Apart, QueueInv, Late, Type, Er, Connected, Attached
<1>5. Verdicts(q)'
  BY <1>1 DEF Apart, QueueInv, Verdicts, Verdict
<1>6. Pending(q)'
  BY <1>1 DEF Apart, QueueInv, Pending, Verdict, Type
<1>7. DataOK(q)'
  BY <1>1 DEF Apart, QueueInv, DataOK, Bytes, Owned
<1>8. Ends(q)'
  BY <1>1 DEF Apart, QueueInv, Ends, Ending
<1>9. Listeners'
  BY <1>1 DEF Apart, SessionInv, Listeners, Type, Er
<1>10. Pairs'
  BY <1>1 DEF Apart, SessionInv, Pairs
<1>11. Attachments'
  BY <1>1 DEF Apart, SessionInv, Attachments, Attached, Connected, Type, Er
<1> QED BY <1>1, <1>2, <1>3, <1>4, <1>5, <1>6, <1>7, <1>8, <1>9, <1>10, <1>11 DEF QueueInv

LEMMA ExpireSafe ==
  ASSUME SafeInv, NEW p \in Ports, Expire(p)
  PROVE  SafeInv'
<1> PICK q : q = queue OBVIOUS
<1>0. TypeInv /\ SessionInv /\ QueueInv(q) /\ Logins(q) /\ Unattended(q) /\ q = queue'
  BY DEF SafeInv, Expire
<1>1. TypeInv'
  BY <1>0, CallsTypeInv
<1>2. Apart
  BY DEF Expire, Apart, conns, io
<1>3. QueueInv(q)' /\ Listeners' /\ Pairs' /\ Attachments' /\ Open' = Open
  BY <1>0, <1>2, ApartKeeps
<1>4. Logins(q)' /\ Unattended(q)'
  BY <1>0, <1>3, SameMarks DEF Expire, Er
<1>5. Idling'
  BY <1>0 DEF Expire, SessionInv, Idling
<1>6. PortsInv'
  BY <1>0 DEF Expire, SessionInv, PortsInv, OneSet, NoPortLeak, OwnPorts, Release, Awaiting, conns
<1> QED BY <1>0, <1>1, <1>3, <1>4, <1>5, <1>6, Assembled DEF SessionInv

LEMMA ExhaustedSafe ==
  ASSUME SafeInv, Exhausted
  PROVE  SafeInv'
<1> PICK q : q = queue OBVIOUS
<1>0. TypeInv /\ SessionInv /\ QueueInv(q) /\ Logins(q) /\ Unattended(q) /\ q = queue'
  BY DEF SafeInv, Exhausted
<1>1. TypeInv'
  BY <1>0, CallsTypeInv
<1>2. Apart
  BY DEF Exhausted, Apart, conns, io
<1>3. QueueInv(q)' /\ Listeners' /\ Pairs' /\ Attachments' /\ Open' = Open
  BY <1>0, <1>2, ApartKeeps
<1>4. Logins(q)' /\ Unattended(q)'
  BY <1>0, <1>3, SameMarks DEF Exhausted, Er
<1>5. Idling'
  BY <1>0 DEF Exhausted, SessionInv, Idling
<1>6. PortsInv'
  BY <1>0 DEF Exhausted, SessionInv, PortsInv, OneSet, NoPortLeak, OwnPorts, Awaiting, conns, ports
<1> QED BY <1>0, <1>1, <1>3, <1>4, <1>5, <1>6, Assembled DEF SessionInv

LEMMA NothingSafe ==
  ASSUME SafeInv, NEW x \in SockIds, NEW dir \in {"IN", "OUT"}, Nothing(x, dir)
  PROVE  SafeInv'
<1> PICK q : q = queue OBVIOUS
<1>0. TypeInv /\ SessionInv /\ QueueInv(q) /\ Logins(q) /\ Unattended(q) /\ q = queue'
  BY DEF SafeInv, Nothing
<1>1. TypeInv'
  BY <1>0, PollsTypeInv
<1>2. Apart
  BY DEF Nothing, Take, Apart, conns
<1>3. QueueInv(q)' /\ Listeners' /\ Pairs' /\ Attachments' /\ Open' = Open
  BY <1>0, <1>2, ApartKeeps
<1>4. Logins(q)' /\ Unattended(q)'
  BY <1>0, <1>3, SameMarks DEF Nothing, Take, Er
<1>5. Idling'
  BY <1>0 DEF Nothing, Take, SessionInv, Idling
<1>6. PortsInv'
  BY <1>0 DEF Nothing, Take, SessionInv, PortsInv, OneSet, NoPortLeak, OwnPorts, Awaiting, conns, ports
<1> QED BY <1>0, <1>1, <1>3, <1>4, <1>5, <1>6, Assembled DEF SessionInv

\* What poll has just returned for reading is attached: a connection that is
\* closing has data to send, and is polled for that.
LEMMA PollWaitSafe ==
  ASSUME SafeInv, PollWait
  PROVE  SafeInv'
<1> PICK q : q = queue OBVIOUS
<1>0. TypeInv /\ SessionInv /\ QueueInv(q) /\ Logins(q) /\ Unattended(q) /\ q = queue'
  BY DEF SafeInv, PollWait
<1>1. TypeInv'
  BY <1>0, PollsTypeInv
<1>2. UNCHANGED <<made, state, listenport, conns, ports, socketinfomap, queue, control, activating>>
  BY DEF PollWait
<1>3. Open' = Open /\ Awaiting' = Awaiting
  BY <1>2 DEF Open, Awaiting
<1>4. Listeners' /\ Pairs' /\ Attachments' /\ Idling' /\ PortsInv'
  BY <1>0, <1>2, <1>3 DEF SessionInv, Listeners, Pairs, Attachments, Idling, PortsInv, OneSet, NoPortLeak, OwnPorts,
     Attached, Connected, Type, Er, conns, ports
<1>5. Arrivals(q)' /\ Unheard(q)' /\ Pending(q)'
  BY <1>0, <1>2, <1>3 DEF QueueInv, Arrivals, Unheard, Pending, Verdict, Type, conns
<1>6. Verdicts(q)' /\ DataOK(q)' /\ Ends(q)'
  BY <1>0, <1>2, <1>3 DEF QueueInv, Verdicts, DataOK, Ends, Verdict, Bytes, Owned, Ending, conns
<1>7. Late(q)'
  <2>1. PICK S \in SUBSET Polled : batch' = {<<x, Direction(x)>> : x \in S}
    BY DEF PollWait
  <2>2. ASSUME NEW e \in batch', e[2] = "IN", Connected(e[1]) PROVE Attached(e[1])
    <3>1. PICK x \in S : e = <<x, Direction(x)>>
      BY <2>1
    <3>2. x \in Open /\ socketinfomap[x].polled /\ ~socketinfomap[x].unsent /\ Connected(x)
      BY <2>2, <3>1 DEF Direction, Polled
    <3>3. Er(x) # <<>>
      BY <1>0, <3>2 DEF TypeInv, Receivers
    <3> QED BY <1>0, <3>1, <3>2, <3>3 DEF SessionInv, Attachments
  <2>3. ASSUME NEW x PROVE Connected(x)' = Connected(x) /\ Attached(x)' = Attached(x)
    BY <1>2 DEF Connected, Attached, Type, Er, conns
  <2> QED BY <2>2, <2>3 DEF Late
<1>8. Logins(q)' /\ Unattended(q)'
  BY <1>0, <1>2, <1>3, SameMarks DEF Er
<1> QED BY <1>0, <1>1, <1>4, <1>5, <1>6, <1>7, <1>8, Assembled DEF SessionInv, QueueInv

\* listen() finds no socket to close: activate() has dropped every listener.
LEMMA NoListener ==
  ASSUME TypeInv, SessionInv, activating # <<>>
  PROVE  /\ activating \in Sessions /\ activating \notin Awaiting /\ state[activating] = "INACTIVE"
         /\ CloseSockets(socketinfomap, {pasvlistener[activating]}) = socketinfomap
<1>0. SocketsOK /\ SessionsOK /\ Named /\ Open \subseteq SockIds
  BY TypeParts DEF TypeInv, Open
<1>1. activating \in Sessions /\ state[activating] = "INACTIVE" /\ activating \notin Awaiting
  BY <1>0 DEF SessionInv, Idling, SessionsOK, Awaiting
<1>2. pasvlistener[activating] \notin Open
  BY <1>0, <1>1 DEF Named, SessionInv, Listeners
<1>3. \A x \in SockIds : CloseSockets(socketinfomap, {pasvlistener[activating]})[x] = socketinfomap[x]
  BY <1>2 DEF CloseSockets, Open
<1> QED BY <1>0, <1>1, <1>3 DEF SocketsOK, CloseSockets

LEMMA ListenFailsSafe ==
  ASSUME SafeInv, ListenFails
  PROVE  SafeInv'
<1> DEFINE e == Event("LISTENFAIL", activating, NoSock)
<1> PICK q : q = Append(queue, e) OBVIOUS
<1>1. TypeInv /\ SessionInv /\ Logins(queue) /\ Unattended(queue) /\ QueueInv(queue) /\ Proper(queue)
  BY QueueProper DEF SafeInv
<1>2. activating # <<>> /\ activating \in Sessions /\ activating \notin Awaiting
      /\ socketinfomap' = socketinfomap /\ state[activating] = "INACTIVE"
  BY <1>1, NoListener DEF ListenFails, Listens
<1>3. QueueInv(q)
  BY <1>1, <1>2, PlainMessages, AppendQueue
<1>4. Logins(q) /\ Unattended(q)
  BY <1>1, <1>2, AppendMarks, EventType
<1>5. TypeInv'
  BY <1>1, CallsTypeInv
<1>6. SessionsOK
  BY <1>1, TypeParts DEF TypeInv
<1>7. PICK p \in availableports :
        /\ availableports' = availableports \ {p}
        /\ unavailableports' = unavailableports \cup {p}
        /\ listenport' = [listenport EXCEPT ![activating] = p]
  BY DEF ListenFails
<1>8. /\ pasvlistener' = [pasvlistener EXCEPT ![activating] = NoSock]
      /\ UNCHANGED <<made, state, pasvconn, portconn, control, activating, batch>>
      /\ q = queue'
  BY DEF ListenFails, io
<1>9. Apart
  BY <1>2, <1>6, <1>7, <1>8 DEF Apart, SessionsOK, Awaiting
<1>10. QueueInv(q)' /\ Listeners' /\ Pairs' /\ Attachments' /\ Open' = Open
  BY <1>1, <1>3, <1>9, ApartKeeps
<1>11. Logins(q)' /\ Unattended(q)'
  BY <1>2, <1>4, <1>8, <1>10, SameMarks DEF Er
<1>12. Idling'
  BY <1>1, <1>8 DEF SessionInv, Idling
<1>13. PortsInv'
  <2>1. Awaiting' = Awaiting
    BY <1>8 DEF Awaiting
  <2>2. \A s \in Awaiting : listenport'[s] = listenport[s] /\ pasvlistener'[s] = pasvlistener[s]
    BY <1>9 DEF Apart
  <2> QED BY <1>1, <1>2, <1>6, <1>7, <2>1, <2>2 DEF SessionInv, PortsInv, OneSet, NoPortLeak, OwnPorts, SessionsOK
<1> QED BY <1>5, <1>8, <1>10, <1>11, <1>12, <1>13, Assembled DEF SessionInv

LEMMA ListeningSafe ==
  ASSUME SafeInv, Listening
  PROVE  SafeInv'
<1> PICK q : q = queue OBVIOUS
<1> DEFINE f == Fresh
           s == activating
<1>1. /\ TypeInv /\ SessionInv /\ Logins(q) /\ Unattended(q) /\ QueueInv(q) /\ q = queue'
      /\ DOMAIN q = Places
  BY DEF SafeInv, Listening, Places
<1>2. SocketsOK /\ SessionsOK /\ Named /\ Open \subseteq SockIds /\ TypeOK /\ Proper(q)
  BY <1>1, TypeParts, QueueProper DEF TypeInv, Open
<1>3. s \in Sessions /\ s # <<>> /\ s \notin Awaiting /\ state[s] = "INACTIVE"
      /\ CloseSockets(socketinfomap, {pasvlistener[s]}) = socketinfomap
  BY <1>1, NoListener DEF Listening, Listens
<1>4. /\ f \in SockIds /\ f \notin Open
      /\ \A t \in Sessions : pasvlistener[t] # f /\ pasvconn[t] # f /\ portconn[t] # f
      /\ \A i \in DOMAIN q : q[i].sock # f
      /\ \A e \in batch : e[1] # f
  BY <1>1, <1>2, FreshIsNew DEF Listening
<1>5. PICK p \in availableports :
        /\ availableports' = availableports \ {p}
        /\ listenport' = [listenport EXCEPT ![s] = p]
        /\ socketinfomap' = [socketinfomap EXCEPT ![f] = [Unused EXCEPT !.type = "TCP_SERVER", !.port = p, !.er = s,
                                                !.polled = TRUE]]
  BY <1>3 DEF Listening
<1>6. /\ pasvlistener' = [pasvlistener EXCEPT ![s] = f]
      /\ state' = [state EXCEPT ![s] = "AWAITING_PASV"]
      /\ activating' = <<>>
      /\ UNCHANGED <<made, pasvconn, portconn, unavailableports, control, batch>>
  BY DEF Listening, io
<1> HIDE DEF f
<1>7. TypeInv'
  BY <1>1, ListeningTypeInv
<1> DEFINE r == [Unused EXCEPT !.type = "TCP_SERVER", !.port = p, !.er = s, !.polled = TRUE]
<1>8. /\ r.type = "TCP_SERVER" /\ r.er = s /\ r.polled /\ ~r.unsent /\ ~r.closing
  BY DEF Unused
<1>9. socketinfomap' = [socketinfomap EXCEPT ![f] = r]
  BY <1>5
<1> HIDE DEF r
<1>10. Open' = Open \cup {f} /\ socketinfomap'[f] = r /\ \A x \in SockIds \ {f} : socketinfomap'[x] = socketinfomap[x]
  BY <1>2, <1>4, <1>8, <1>9 DEF Open, SocketsOK
<1>11. Awaiting' = Awaiting \cup {s} /\ \A t \in Sessions : t # s => state'[t] = state[t] /\ pasvlistener'[t] = pasvlistener[t]
  BY <1>2, <1>3, <1>6 DEF Awaiting, SessionsOK
<1>12. pasvlistener'[s] = f /\ state'[s] = "AWAITING_PASV" /\ listenport'[s] = p
       /\ \A t \in Sessions : t # s => listenport'[t] = listenport[t]
  BY <1>2, <1>3, <1>5, <1>6 DEF SessionsOK
<1>13. \A x \in Open : x # f /\ Type(x)' = Type(x) /\ Er(x)' = Er(x) /\ Connected(x)' = Connected(x)
                   /\ Attached(x)' = Attached(x)
  BY <1>2, <1>4, <1>6, <1>10 DEF Type, Er, Connected, Attached
<1>14. \A i \in DOMAIN q : q[i].to \in Sessions
  BY <1>2, MessageTypes DEF Proper
<1> HIDE DEF s
<1>15. Idling'
  <2>1. s[2] <= made[s[1]] /\ control[s[1]] = "up"
    BY <1>1, <1>3 DEF SessionInv, Idling, s
  <2> QED BY <1>1, <1>6, <1>11, <2>1 DEF SessionInv, Idling
<1>16. Listeners'
  <2>1. ASSUME NEW x \in Open', Type(x)' = "TCP_SERVER"
        PROVE  /\ Er(x)' \in Awaiting' /\ pasvlistener'[Er(x)'] = x
               /\ ~socketinfomap'[x].unsent /\ ~socketinfomap'[x].closing
    <3>1. CASE x = f
      BY <1>8, <1>10, <1>11, <1>12, <3>1 DEF Er
    <3>2. CASE x # f
      <4>1. x \in Open /\ Type(x) = "TCP_SERVER" /\ socketinfomap'[x] = socketinfomap[x]
        BY <1>2, <1>10, <2>1, <3>2 DEF Type
      <4>2. Er(x) \in Awaiting /\ pasvlistener[Er(x)] = x /\ Er(x) # s /\ Er(x) \in Sessions
        BY <1>1, <1>3, <4>1 DEF SessionInv, Listeners, Awaiting
      <4> QED BY <1>1, <1>11, <4>1, <4>2 DEF SessionInv, Listeners, Er
    <3> QED BY <3>1, <3>2
  <2>2. \A t \in Awaiting' : pasvlistener'[t] \in Open' /\ listenport'[t] \in Ports
    BY <1>1, <1>2, <1>3, <1>5, <1>10, <1>11, <1>12 DEF SessionInv, Listeners, Awaiting, SessionsOK
  <2> QED BY <2>1, <2>2 DEF Listeners
<1>17. Pairs'
  BY <1>1, <1>2, <1>3, <1>4, <1>6, <1>10, <1>11 DEF SessionInv, Pairs
<1>18. Attachments'
  BY <1>1, <1>2, <1>8, <1>10, <1>13 DEF SessionInv, Attachments, Type, Connected
<1>19. OneSet' /\ NoPortLeak'
  BY <1>1, <1>3, <1>5, <1>6, <1>11, <1>12 DEF SessionInv, PortsInv, OneSet, NoPortLeak, Awaiting
<1>20. OwnPorts'
  <2>1. \A t \in Awaiting : listenport'[t] = listenport[t] /\ listenport[t] # p /\ t # s
    BY <1>1, <1>3, <1>12 DEF SessionInv, PortsInv, OwnPorts, Awaiting
  <2>2. p \notin availableports' \cup unavailableports'
    BY <1>1, <1>5, <1>6 DEF SessionInv, PortsInv, OneSet
  <2> QED BY <1>1, <1>5, <1>6, <1>11, <1>12, <2>1, <2>2 DEF SessionInv, PortsInv, OwnPorts
<1>21. Arrivals(q)'
  BY <1>1, <1>3, <1>11, <1>14 DEF QueueInv, Arrivals
<1>22. Unheard(q)'
  <2>1. ASSUME NEW x \in Open PROVE x # f /\ socketinfomap'[x] = socketinfomap[x]
    BY <1>2, <1>4, <1>10
  <2> QED BY <1>1, <1>4, <1>10, <2>1 DEF QueueInv, Unheard, Type
<1>23. Late(q)'
  <2>1. ASSUME NEW e \in batch'
        PROVE  e \in batch /\ e[1] \in SockIds /\ socketinfomap'[e[1]] = socketinfomap[e[1]]
    BY <1>2, <1>4, <1>6, <1>10 DEF TypeOK
  <2>2. ASSUME NEW e \in batch'
        PROVE  /\ Type(e[1])' = Type(e[1]) /\ Er(e[1])' = Er(e[1])
               /\ Attached(e[1])' = Attached(e[1]) /\ Connected(e[1])' = Connected(e[1])
    BY <1>6, <2>1 DEF Type, Er, Attached, Connected
  <2>3. \A e \in batch : Connected(e[1]) /\ state[Er(e[1])] # "ACTIVE" => state'[Er(e[1])] # "ACTIVE"
    BY <1>6
  <2> QED BY <1>1, <1>6, <2>1, <2>2, <2>3 DEF QueueInv, Late
<1>24. Verdicts(q)'
  BY <1>1, <1>3, <1>4, <1>6, <1>10, <1>11, <1>14 DEF QueueInv, Verdicts
<1>25. Pending(q)'
  BY <1>1, <1>2, <1>3, <1>4, <1>6, <1>10, <1>11, <1>12 DEF QueueInv, Pending, Type
<1>26. DataOK(q)'
  BY <1>1, <1>3, <1>6, <1>11, <1>12, <1>14 DEF QueueInv, DataOK, Owned
<1>27. Ends(q)'
  BY <1>1, <1>3, <1>4, <1>6, <1>10, <1>11, <1>14 DEF QueueInv, Ends
<1>28. Logins(q)' /\ Unattended(q)'
  BY <1>1, <1>3, <1>6, <1>8, <1>10, <1>13, SameMarks, SessionPairs DEF Er
<1> QED BY <1>1, <1>6, <1>7, <1>15, <1>16, <1>17, <1>18, <1>19, <1>20, <1>21, <1>22, <1>23, <1>24, <1>25, <1>26,
           <1>27, <1>28, Assembled DEF SessionInv, PortsInv, QueueInv

\* Whatever poll returned has a receiver.
LEMMA BatchReceivers ==
  ASSUME TypeInv, NEW e \in batch, e[1] \in Open
  PROVE  e[1] \in SockIds /\ Er(e[1]) \in Sessions
<1>1. IOOK
  BY TypeParts DEF TypeInv
<1>2. e[1] \in SockIds /\ e[2] \in {"IN", "OUT"} /\ e = <<e[1], e[2]>>
  BY <1>1 DEF IOOK
<1> QED BY <1>2, ServedHasReceiver

\* activate() drops the owner's listeners; no message is for one of those.
LEMMA ActivateSafe ==
  ASSUME SafeInv, Sequential, NEW o \in Owners, Activate(o)
  PROVE  SafeInv'
<1> PICK q : q = queue OBVIOUS
<1> DEFINE S == Mine(o) \cap Awaiting
           P == {pasvlistener[s] : s \in S}
<1>1. /\ TypeInv /\ SessionInv /\ Logins(q) /\ Unattended(q) /\ QueueInv(q) /\ q = queue'
      /\ DOMAIN q = Places
  BY DEF SafeInv, Activate, Places
<1>2. SocketsOK /\ SessionsOK /\ Named /\ Open \subseteq SockIds /\ TypeOK /\ Proper(q)
  BY <1>1, TypeParts, QueueProper DEF TypeInv, Open
<1>3. TypeInv'
  BY <1>1, CallsTypeInv
<1>4. S \subseteq Sessions /\ S \subseteq Awaiting
  BY DEF Mine, Awaiting
<1>5. /\ state' = [s \in Sessions |-> IF s \in S THEN "INACTIVE" ELSE state[s]]
      /\ pasvlistener' = [s \in Sessions |-> IF s \in S THEN NoSock ELSE pasvlistener[s]]
      /\ socketinfomap' = CloseSockets(socketinfomap, P)
      /\ Release({listenport[s] : s \in S})
      /\ UNCHANGED <<listenport, pasvconn, portconn, control, batch>>
  BY DEF Activate, DropListeners, io
<1>6. PICK i \in 1 .. MaxSessions :
        /\ i > made[o] \/ state[<<o, i>>] # "ACTIVE"
        /\ made' = [made EXCEPT ![o] = IF i > @ THEN i ELSE @]
        /\ activating' = <<o, i>>
  BY DEF Activate
<1>7. \A e \in News : e.to[1] # o
  BY DEF Activate, Overtaken
<1>8. \A n \in DOMAIN q : q[n].type = "NEW" => q[n].to \notin S /\ q[n].to \in Awaiting
  <2>1. \A n \in DOMAIN q : q[n].type = "NEW" => q[n] \in News
    BY <1>1 DEF News, Places
  <2> QED BY <1>1, <1>7, <2>1 DEF QueueInv, Arrivals, Mine
<1>9. control[o] = "up"
  BY DEF Activate
<1> HIDE DEF S, P
<1>10. \A x \in P : /\ x \in Open /\ Type(x) = "TCP_SERVER" /\ ~socketinfomap[x].unsent
                    /\ \E s \in S : x = pasvlistener[s] /\ Er(x) = s
  BY <1>1, <1>2, <1>4 DEF SessionInv, Listeners, Named, P
<1>11. Shut(P)
  BY <1>2, <1>5, Shuts
<1>12. Open' = Open \ P /\ \A x \in SockIds \ P : socketinfomap'[x] = socketinfomap[x]
  BY <1>2, <1>10, <1>11 DEF Shut, Open
<1>13. \A x \in Open' : x \in Open /\ x \in SockIds /\ x \notin P /\ socketinfomap'[x] = socketinfomap[x]
  BY <1>2, <1>12
<1>14. /\ Awaiting' = Awaiting \ S
       /\ \A s \in Sessions : s \notin S => state'[s] = state[s] /\ pasvlistener'[s] = pasvlistener[s]
       /\ \A s \in Sessions : s \in S => state'[s] = "INACTIVE" /\ state[s] # "ACTIVE"
  BY <1>2, <1>4, <1>5 DEF Awaiting, SessionsOK
<1>15. \A s \in Sessions : (state'[s] = "ACTIVE" <=> state[s] = "ACTIVE")
                           /\ (state'[s] # "INACTIVE" => state[s] # "INACTIVE")
  BY <1>14
<1>16. \A x \in Open' : Type(x)' = Type(x) /\ Er(x)' = Er(x) /\ Connected(x)' = Connected(x)
                        /\ Attached(x)' = Attached(x)
  BY <1>5, <1>13 DEF Type, Er, Connected, Attached
<1>17. \A n \in DOMAIN q : q[n].to \in Sessions
  BY <1>2, MessageTypes DEF Proper
<1>18. Idling'
  <2>1. \A s \in Sessions : s[1] \in Owners /\ made[s[1]] \in Nat /\ made'[s[1]] \in Nat /\ made'[s[1]] >= made[s[1]]
    BY <1>2, <1>6, SessionPairs DEF SessionsOK
  <2>2. \A s \in Sessions : state'[s] # "INACTIVE" => s[2] <= made'[s[1]] /\ control'[s[1]] = "up"
    BY <1>1, <1>5, <1>15, <2>1, SessionPairs DEF SessionInv, Idling
  <2>3. <<o, i>> \in Sessions /\ i <= made'[o]
    BY <1>2, <1>6, SessionPairs DEF SessionsOK
  <2>4. state'[<<o, i>>] = "INACTIVE"
    <3>1. CASE i > made[o]
      <4>1. state[<<o, i>>] = "INACTIVE"
        BY <1>1, <1>2, <2>1, <2>3, <3>1 DEF SessionInv, Idling, SessionsOK
      <4> QED BY <1>15, <2>3, <4>1
    <3>2. CASE ~(i > made[o])
      <4>1. state[<<o, i>>] # "ACTIVE" /\ i <= made[o]
        BY <1>2, <1>6, <3>2 DEF SessionsOK
      <4>2. <<o, i>> \in Mine(o)
        BY <2>3, <4>1 DEF Mine
      <4> QED BY <1>2, <1>5, <2>3, <4>1, <4>2 DEF S, Awaiting, SessionsOK
    <3> QED BY <3>1, <3>2
  <2> QED BY <1>5, <1>6, <1>9, <2>2, <2>3, <2>4 DEF Idling
<1>19. Listeners'
  <2>1. ASSUME NEW x \in Open', Type(x)' = "TCP_SERVER"
        PROVE  /\ Er(x)' \in Awaiting' /\ pasvlistener'[Er(x)'] = x
               /\ ~socketinfomap'[x].unsent /\ ~socketinfomap'[x].closing
    <3>1. Er(x) \in Awaiting /\ pasvlistener[Er(x)] = x /\ ~socketinfomap[x].unsent /\ ~socketinfomap[x].closing
      BY <1>1, <1>13, <1>16, <2>1 DEF SessionInv, Listeners
    <3>2. Er(x) \notin S
      BY <1>13, <3>1 DEF P
    <3> QED BY <1>13, <1>14, <1>16, <2>1, <3>1, <3>2 DEF Awaiting
  <2>2. ASSUME NEW s \in Awaiting' PROVE pasvlistener'[s] \in Open' /\ listenport'[s] \in Ports
    <3>1. s \in Awaiting /\ s \notin S /\ s \in Sessions /\ pasvlistener[s] \in Open /\ listenport[s] \in Ports
          /\ Er(pasvlistener[s]) = s
      BY <1>1, <1>2, <1>14 DEF SessionInv, Listeners, Awaiting, Named
    <3>2. pasvlistener[s] \notin P
      BY <1>10, <3>1
    <3> QED BY <1>5, <1>12, <1>14, <3>1, <3>2
  <2> QED BY <2>1, <2>2 DEF Listeners
<1>20. Pairs'
  BY <1>1, <1>5, <1>13, <1>14, <1>15 DEF SessionInv, Pairs
<1>21. Attachments'
  BY <1>1, <1>13, <1>16 DEF SessionInv, Attachments
<1>22. OneSet' /\ NoPortLeak'
  BY <1>1, <1>5, <1>14 DEF SessionInv, PortsInv, OneSet, NoPortLeak, Release
<1>23. OwnPorts'
  <2>1. \A s \in Awaiting' : s \in Awaiting /\ s \notin S /\ listenport[s] \notin {listenport[t] : t \in S}
    BY <1>1, <1>4, <1>14 DEF SessionInv, PortsInv, OwnPorts
  <2> QED BY <1>1, <1>5, <2>1 DEF SessionInv, PortsInv, OwnPorts, Release
<1>24. Arrivals(q)'
  BY <1>1, <1>8, <1>14, <1>17 DEF QueueInv, Arrivals
<1>25. Unheard(q)'
  BY <1>1, <1>13 DEF QueueInv, Unheard, Type
<1>26. Late(q)'
  <2>1. \A x : Connected(x)' => socketinfomap'[x].type # "UNUSED"
    BY DEF Connected
  <2>2. ASSUME NEW e \in batch', Connected(e[1])', ~Attached(e[1])'
        PROVE  /\ e \in batch /\ Connected(e[1]) /\ ~Attached(e[1]) /\ Er(e[1])' = Er(e[1])
               /\ Er(e[1]) \in Sessions
    <3>1. e[1] \in Open'
      BY <1>2, <1>5, <2>1, <2>2 DEF TypeOK, Open
    <3>2. Er(e[1]) \in Sessions
      BY <1>1, <1>5, <1>13, <3>1, BatchReceivers
    <3> QED BY <1>5, <1>16, <2>2, <3>1, <3>2
  <2>3. ASSUME NEW f \in batch', Type(f[1])' = "TCP_SERVER"
        PROVE  f \in batch /\ Type(f[1]) = "TCP_SERVER" /\ Er(f[1])' = Er(f[1])
    <3>1. f[1] \in Open'
      BY <1>2, <1>5, <2>3 DEF TypeOK, Open, Type
    <3> QED BY <1>5, <1>16, <2>3, <3>1
  <2> QED BY <1>1, <1>15, <2>2, <2>3 DEF QueueInv, Late
<1>27. Verdicts(q)'
  BY <1>1, <1>5, <1>13, <1>15, <1>17 DEF QueueInv, Verdicts
<1>28. Pending(q)'
  <2>1. \A s \in Sessions : pasvconn[s] \in Open => pasvconn[s] \in Open'
    BY <1>2, <1>10, <1>12 DEF Named
  <2> QED BY <1>1, <1>5, <1>13, <1>15, <2>1 DEF QueueInv, Pending, Type
<1>29. DataOK(q)'
  BY <1>1, <1>5, <1>15, <1>17 DEF QueueInv, DataOK, Owned
<1>30. Ends(q)'
  BY <1>1, <1>5, <1>13, <1>15, <1>17 DEF QueueInv, Ends
<1>31. Logins(q)' /\ Unattended(q)'
  BY <1>1, <1>5, <1>13, SameMarks DEF Er
<1> QED BY <1>1, <1>3, <1>18, <1>19, <1>20, <1>21, <1>22, <1>23, <1>24, <1>25, <1>26, <1>27, <1>28, <1>29, <1>30,
           <1>31, Assembled DEF SessionInv, PortsInv, QueueInv

\* Everything of the owner's is dropped; the next login comes behind the
\* messages that are still for it.
LEMMA DisconnectSafe ==
  ASSUME SafeInv, Sequential, NEW o \in Owners, Disconnect(o)
  PROVE  SafeInv'
<1> DEFINE e == Login(o)
<1> PICK q : q = Append(queue, e) OBVIOUS
<1> DEFINE M == Mine(o)
           P == UNION {{pasvconn[s], portconn[s], pasvlistener[s]} : s \in M}
<1>1. TypeInv /\ SessionInv /\ Logins(queue) /\ Unattended(queue) /\ QueueInv(queue) /\ Proper(queue)
  BY QueueProper DEF SafeInv
<1>2. SocketsOK /\ SessionsOK /\ Named /\ Open \subseteq SockIds /\ TypeOK
  BY <1>1, TypeParts DEF TypeInv, Open
<1>3. TypeInv'
  BY <1>1, CallsTypeInv
<1>4. /\ socketinfomap' = CloseSockets(socketinfomap, P)
      /\ pasvconn' = [s \in Sessions |-> IF s \in M THEN NoSock ELSE pasvconn[s]]
      /\ portconn' = [s \in Sessions |-> IF s \in M THEN NoSock ELSE portconn[s]]
      /\ pasvlistener' = [s \in Sessions |-> IF s \in M THEN NoSock ELSE pasvlistener[s]]
      /\ Release({listenport[s] : s \in M \cap Awaiting})
      /\ state' = [s \in Sessions |-> IF s \in M THEN "INACTIVE" ELSE state[s]]
      /\ control' = [control EXCEPT ![o] = "down"]
      /\ UNCHANGED <<made, listenport, activating, batch>>
      /\ activating = <<>> /\ control[o] = "up" /\ queue' = q
  BY DEF Disconnect, Idle, io
<1>5. M \subseteq Sessions /\ \A s \in M : s[1] = o
  BY DEF Mine
<1>6. \A s \in Sessions : s \notin M /\ s[1] = o => state[s] = "INACTIVE"
  BY <1>1 DEF SessionInv, Idling, Mine
<1>7. \A n \in DOMAIN queue : queue[n].type = "NEW" => queue[n].to[1] # o
  <2>1. \A n \in DOMAIN queue : queue[n].type = "NEW" => queue[n] \in News
    BY DEF News
  <2> QED BY <2>1 DEF Disconnect, Overtaken
<1>8. Proper(q) /\ QueueInv(q) /\ Unattended(q)
  BY <1>1, PlainMessages, AppendQueue, AppendMarks, LoginType
<1>9. /\ Len(queue) + 1 \in DOMAIN q /\ q[Len(queue) + 1] = e
      /\ \A n \in DOMAIN queue : n < Len(queue) + 1 /\ n \in DOMAIN q /\ q[n] = queue[n]
      /\ \A n \in DOMAIN q : n = Len(queue) + 1 \/ n \in DOMAIN queue
  BY AppendPlaces, LoginType, <1>1 DEF Proper
<1> DEFINE z == Len(queue) + 1
<1>10. \A n \in DOMAIN q : n # z => n < z
  BY <1>9
<1>11. e \in Messages /\ e.type = "LOGIN" /\ e.sock = NoSock /\ e.to = <<o, 1>>
  BY LoginType
<1>12. \A n \in DOMAIN q : q[n].type = "NEW" => q[n].to \notin M /\ q[n].to[1] # o
  BY <1>5, <1>7, <1>9, <1>11
<1>13. \A n \in DOMAIN q : q[n].to \in Sessions
  BY <1>8, MessageTypes DEF Proper
<1> HIDE DEF M, P, z, e
<1>14. ASSUME NEW s \in M PROVE pasvconn[s] \in P /\ portconn[s] \in P /\ pasvlistener[s] \in P
  BY DEF P
<1>15. ASSUME NEW x \in P PROVE \E s \in M : x \in {pasvconn[s], portconn[s], pasvlistener[s]}
  BY DEF P
<1>16. Shut(P)
  BY <1>2, <1>4, Shuts
<1>17. \A x \in Open : x \in P => Er(x) \in M
  BY <1>2, <1>5, <1>15 DEF Named
<1>18. \A x \in Open' :
         /\ x \in Open /\ x \in SockIds /\ (x \in P => socketinfomap[x].unsent)
         /\ Type(x)' = Type(x) /\ Er(x)' = Er(x) /\ Connected(x)' = Connected(x)
         /\ socketinfomap'[x].polled = socketinfomap[x].polled
         /\ socketinfomap'[x].unsent = socketinfomap[x].unsent
         /\ socketinfomap'[x].twin = socketinfomap[x].twin
         /\ socketinfomap'[x].closing <=> (socketinfomap[x].closing \/ x \in P)
  <2>1. Open' \subseteq SockIds
    BY DEF Open
  <2> QED BY <1>16, <2>1 DEF Shut, Type, Er, Connected
<1>19. \A x \in Open : x \notin P => x \in Open'
  BY <1>2, <1>16 DEF Shut
<1>20. \A s \in Sessions :
         /\ s \in M => /\ state'[s] = "INACTIVE" /\ pasvconn'[s] = NoSock /\ portconn'[s] = NoSock
                       /\ pasvlistener'[s] = NoSock
         /\ s \notin M => /\ state'[s] = state[s] /\ pasvconn'[s] = pasvconn[s] /\ portconn'[s] = portconn[s]
                          /\ pasvlistener'[s] = pasvlistener[s]
  BY <1>4
<1>21. Awaiting' = Awaiting \ M
  BY <1>4, <1>5 DEF Awaiting
<1>22. NoSock \notin Open /\ NoSock \notin Open'
  BY DEF Open
<1>23. \A x \in Open' : Er(x) \in Sessions /\ Er(x) \notin M => Attached(x)' = Attached(x)
  BY <1>18, <1>20 DEF Attached
<1>24. Idling'
  BY <1>1, <1>2, <1>4, <1>5, <1>6, <1>20, SessionPairs DEF SessionInv, Idling, SessionsOK
<1>25. Listeners'
  <2>1. ASSUME NEW x \in Open', Type(x)' = "TCP_SERVER"
        PROVE  /\ Er(x)' \in Awaiting' /\ pasvlistener'[Er(x)'] = x
               /\ ~socketinfomap'[x].unsent /\ ~socketinfomap'[x].closing
    <3>1. Er(x) \in Awaiting /\ Er(x) \in Sessions /\ pasvlistener[Er(x)] = x
          /\ ~socketinfomap[x].unsent /\ ~socketinfomap[x].closing
      BY <1>1, <1>18, <2>1 DEF SessionInv, Listeners, Awaiting
    <3>2. x \notin P /\ Er(x) \notin M
      BY <1>14, <1>18, <3>1
    <3> QED BY <1>18, <1>20, <1>21, <3>1, <3>2
  <2>2. ASSUME NEW s \in Awaiting' PROVE pasvlistener'[s] \in Open' /\ listenport'[s] \in Ports
    <3>1. s \in Awaiting /\ s \notin M /\ s \in Sessions /\ pasvlistener[s] \in Open /\ listenport[s] \in Ports
          /\ Er(pasvlistener[s]) = s
      BY <1>1, <1>2, <1>21 DEF SessionInv, Listeners, Awaiting, Named
    <3>2. pasvlistener[s] \notin P
      BY <1>17, <3>1
    <3> QED BY <1>4, <1>19, <1>20, <3>1, <3>2
  <2> QED BY <2>1, <2>2 DEF Listeners
<1>26. Pairs'
  BY <1>1, <1>18, <1>20, <1>22 DEF SessionInv, Pairs
<1>27. Attachments'
  <2> SUFFICES ASSUME NEW x \in Open'
               PROVE  /\ Type(x)' = "TCP_CONNECTING" =>
                           Attached(x)' /\ ~socketinfomap'[x].unsent /\ ~socketinfomap'[x].closing
                      /\ Connected(x)' /\ Er(x)' # <<>> => socketinfomap'[x].closing \/ Attached(x)'
                      /\ socketinfomap'[x].closing => socketinfomap'[x].unsent
    BY DEF Attachments
  <2>1. /\ Type(x) = "TCP_CONNECTING" =>
                Attached(x) /\ ~socketinfomap[x].unsent /\ ~socketinfomap[x].closing
        /\ Connected(x) /\ Er(x) # <<>> => socketinfomap[x].closing \/ Attached(x)
        /\ socketinfomap[x].closing => socketinfomap[x].unsent
    BY <1>1, <1>18 DEF SessionInv, Attachments
  <2>2. Er(x) \in Sessions \cup {<<>>}
    BY <1>2, <1>18 DEF SocketsOK, SocketRecords, Er
  <2>3. Attached(x) /\ Er(x) \in M => x \in P
    BY <1>14 DEF Attached
  <2>4. Type(x) = "TCP_CONNECTING" => Er(x) # <<>>
    BY <1>1, <1>18 DEF TypeInv, Receivers
  <2> QED BY <1>17, <1>18, <1>23, <2>1, <2>2, <2>3, <2>4
<1>28. OneSet' /\ NoPortLeak'
  BY <1>1, <1>4, <1>21 DEF SessionInv, PortsInv, OneSet, NoPortLeak, Release
<1>29. OwnPorts'
  <2>1. \A s \in Awaiting' : s \in Awaiting /\ s \notin M /\ listenport[s] \notin {listenport[t] : t \in M \cap Awaiting}
    BY <1>1, <1>21 DEF SessionInv, PortsInv, OwnPorts
  <2> QED BY <1>1, <1>4, <2>1 DEF SessionInv, PortsInv, OwnPorts, Release
<1>30. Arrivals(q)'
  BY <1>8, <1>12, <1>13, <1>20, <1>21 DEF QueueInv, Arrivals
<1>31. Unheard(q)'
  BY <1>8, <1>18 DEF QueueInv, Unheard
<1>32. Late(q)'
  <2>1. ASSUME NEW x \in batch', Connected(x[1])' PROVE x \in batch /\ x[1] \in Open' /\ Er(x[1]) \in Sessions
    <3>1. x \in batch /\ x[1] \in SockIds
      BY <1>2, <1>4 DEF TypeOK
    <3>2. x[1] \in Open'
      BY <2>1, <3>1 DEF Connected, Open
    <3> QED BY <1>1, <1>18, <3>1, <3>2, BatchReceivers
  <2>2. ASSUME NEW f \in batch', Type(f[1])' = "TCP_SERVER"
        PROVE  f \in batch /\ Type(f[1]) = "TCP_SERVER" /\ Er(f[1])' = Er(f[1]) /\ Er(f[1]) \notin M
    <3>1. f \in batch /\ f[1] \in SockIds
      BY <1>2, <1>4 DEF TypeOK
    <3>2. f[1] \in Open'
      BY <2>2, <3>1 DEF Type, Open
    <3>3. Er(f[1])' \in Awaiting'
      BY <1>25, <2>2, <3>2 DEF Listeners
    <3> QED BY <1>18, <1>21, <2>2, <3>1, <3>2, <3>3
  <2>3. ASSUME NEW x \in batch', x[2] = "IN", Connected(x[1])', ~Attached(x[1])'
        PROVE  /\ state'[Er(x[1])'] # "ACTIVE"
               /\ \A n \in DOMAIN q : ~ (q[n].type = "NEW" /\ q[n].to = Er(x[1])')
               /\ \A f \in batch' : ~ (Type(f[1])' = "TCP_SERVER" /\ Er(f[1])' = Er(x[1])')
    <3>1. x \in batch /\ x[1] \in Open' /\ Er(x[1]) \in Sessions /\ Er(x[1])' = Er(x[1]) /\ Connected(x[1])
      BY <1>18, <2>1, <2>3
    <3>2. CASE Er(x[1]) \in M
      BY <1>12, <1>20, <2>2, <3>1, <3>2
    <3>3. CASE Er(x[1]) \notin M
      <4>1. ~Attached(x[1])
        BY <1>23, <2>3, <3>1, <3>3
      <4> QED BY <1>8, <1>20, <2>2, <2>3, <3>1, <3>3, <4>1 DEF QueueInv, Late
    <3> QED BY <3>2, <3>3
  <2> QED BY <2>3 DEF Late
<1>33. Verdicts(q)'
  <2> SUFFICES ASSUME NEW n \in DOMAIN q, Verdict(q[n])
               PROVE  /\ \/ state'[q[n].to] = "ACTIVE" /\ portconn'[q[n].to] = q[n].sock
                         \/ \E j \in DOMAIN q : j > n /\ q[j] = Login(q[n].to[1])
                      /\ \A j \in DOMAIN q : n # j /\ q[j].sock = q[n].sock => q[n].type = "CONNECTED" /\ j > n
                      /\ q[n].type = "FAIL" => q[n].sock \notin Open'
    BY DEF Verdicts
  <2>1. /\ \/ state[q[n].to] = "ACTIVE" /\ portconn[q[n].to] = q[n].sock
           \/ \E j \in DOMAIN q : j > n /\ q[j] = Login(q[n].to[1])
        /\ \A j \in DOMAIN q : n # j /\ q[j].sock = q[n].sock => q[n].type = "CONNECTED" /\ j > n
        /\ q[n].type = "FAIL" => q[n].sock \notin Open
    BY <1>8 DEF QueueInv, Verdicts
  <2>2. n # z /\ n < z /\ z \in DOMAIN q /\ q[z] = Login(o)
    BY <1>9, <1>10, <1>11 DEF Verdict, z, e
  <2>3. CASE q[n].to \in M
    <3>1. z > n /\ q[z] = Login(q[n].to[1])
      BY <1>5, <1>8, <2>2, <2>3 DEF Proper
    <3> QED BY <1>18, <2>1, <2>2, <3>1
  <2>4. CASE q[n].to \notin M
    BY <1>13, <1>18, <1>20, <2>1, <2>4
  <2> QED BY <2>3, <2>4
<1>34. Pending(q)'
  <2>1. \A s \in Sessions : s \notin M /\ pasvconn[s] \in Open => pasvconn[s] \in Open'
    BY <1>2, <1>17, <1>19 DEF Named
  <2> QED BY <1>8, <1>18, <1>20, <2>1 DEF QueueInv, Pending
<1>35. DataOK(q)'
  BY <1>8, <1>13, <1>20 DEF QueueInv, DataOK, Owned
<1>36. Ends(q)'
  <2>1. \A n \in DOMAIN q : Ending(q[n]) => q[n].sock # NoSock
    BY <1>8 DEF Proper, Ending
  <2> QED BY <1>8, <1>13, <1>18, <1>20, <2>1 DEF QueueInv, Ends
<1>37. Logins(q)'
  <2>1. \A n \in DOMAIN queue : queue[n] # e
    BY <1>1, <1>4, <1>11 DEF Logins, e
  <2>2. \A n \in DOMAIN q : q[n] = e <=> n = z
    BY <1>9, <2>1 DEF z
  <2>3. ASSUME NEW w \in Owners, w # o
        PROVE  /\ Login(w) # e /\ control'[w] = control[w]
               /\ \A n \in DOMAIN q : q[n] = Login(w) <=> n \in DOMAIN queue /\ queue[n] = Login(w)
    <3>1. Login(w) # e
      BY <2>3, LoginType DEF e
    <3> QED BY <1>2, <1>4, <1>9, <2>3, <3>1 DEF SessionsOK
  <2>4. control'[o] = "down"
    BY <1>2, <1>4 DEF SessionsOK
  <2>5. z \in DOMAIN q
    BY <1>9 DEF z
  <2>6. ASSUME NEW w \in Owners
        PROVE  /\ control'[w] = "down" => \E i \in DOMAIN q : q[i] = Login(w)
               /\ \A i \in DOMAIN q : q[i] = Login(w) =>
                    control'[w] = "down" /\ \A j \in DOMAIN q : q[j] = Login(w) => i = j
    <3>1. CASE w = o
      BY <2>2, <2>4, <2>5, <3>1 DEF e
    <3>2. CASE w # o
      BY <1>1, <1>9, <2>3, <3>2 DEF Logins
    <3> QED BY <3>1, <3>2
  <2> QED BY <2>6 DEF Logins, Login
<1>38. Unattended(q)'
  BY <1>8, <1>18, SameMarks DEF Er
<1> QED BY <1>3, <1>4, <1>24, <1>25, <1>26, <1>27, <1>28, <1>29, <1>30, <1>31, <1>32, <1>33, <1>34, <1>35, <1>36,
           <1>37, <1>38, Assembled DEF SessionInv, PortsInv, QueueInv

-----------------------------------------------------------------------------
(* The IO thread.                                                          *)

\* What its steps leave to the worker.
Served == UNCHANGED <<made, state, listenport, conns, ports, control, activating>> /\ batch' \subseteq batch

LEMMA ServedKeeps ==
  ASSUME Served
  PROVE  /\ (Idling => Idling') /\ (PortsInv => PortsInv') /\ Awaiting' = Awaiting
         /\ UNCHANGED <<pasvlistener, pasvconn, portconn>>
<1>1. Awaiting' = Awaiting
  BY DEF Served, Awaiting
<1> QED BY <1>1 DEF Served, Idling, PortsInv, OneSet, NoPortLeak, OwnPorts, conns, ports

\* A connection is gone.
LEMMA GoneKeeps ==
  ASSUME TypeInv, SessionInv, Served, NEW q, QueueInv(q), NEW x \in Open,
         Open' = Open \ {x}, \A y \in SockIds \ {x} : socketinfomap'[y] = socketinfomap[y],
         Type(x) # "TCP_SERVER", Type(x) = "TCP_CONNECTING" \/ socketinfomap[x].polled
  PROVE  SessionInv' /\ QueueInv(q)'
<1>0. Named /\ Open \subseteq SockIds
  BY DEF TypeInv, Open
<1>1. /\ UNCHANGED <<state, listenport, pasvlistener, pasvconn, portconn>> /\ Awaiting' = Awaiting
      /\ batch' \subseteq batch /\ Idling' /\ PortsInv'
  BY ServedKeeps DEF Served, conns, SessionInv
<1>2. \A y \in Open' : y \in Open /\ socketinfomap'[y] = socketinfomap[y]
                       /\ Type(y)' = Type(y) /\ Er(y)' = Er(y) /\ Connected(y)' = Connected(y)
                       /\ Attached(y)' = Attached(y)
  BY <1>0, <1>1 DEF Type, Er, Connected, Attached
<1>3. Listeners'
  <2>1. \A s \in Awaiting : pasvlistener[s] # x
    BY <1>0 DEF Named, Awaiting
  <2> QED BY <1>1, <1>2, <2>1 DEF SessionInv, Listeners
<1>4. Pairs'
  BY <1>1, <1>2 DEF SessionInv, Pairs
<1>5. Attachments'
  BY <1>2 DEF SessionInv, Attachments
<1>6. Arrivals(q)'
  BY <1>1 DEF QueueInv, Arrivals
<1>7. Unheard(q)'
  BY <1>2 DEF QueueInv, Unheard
<1>8. Late(q)'
  <2>1. \A e \in batch' : e \in batch /\ e[1] \in SockIds
    BY <1>1 DEF TypeInv, TypeOK
  <2>2. \A e \in batch' : Connected(e[1])' \/ Type(e[1])' = "TCP_SERVER" => e[1] \in Open'
    BY <2>1 DEF Open, Connected, Type
  <2> QED BY <1>1, <1>2, <2>1, <2>2 DEF QueueInv, Late
<1>9. Verdicts(q)'
  BY <1>1, <1>2 DEF QueueInv, Verdicts
<1>10. Pending(q)'
  <2>1. \A s \in Sessions : pasvconn[s] \in Open /\ ~socketinfomap[pasvconn[s]].polled => pasvconn[s] # x
    BY <1>0 DEF Named
  <2> QED BY <1>1, <1>2, <2>1 DEF QueueInv, Pending
<1>11. DataOK(q)'
  BY <1>1 DEF QueueInv, DataOK, Owned
<1>12. Ends(q)'
  BY <1>1, <1>2 DEF QueueInv, Ends
<1> QED BY <1>1, <1>3, <1>4, <1>5, <1>6, <1>7, <1>8, <1>9, <1>10, <1>11, <1>12 DEF SessionInv, QueueInv

\* A step that appends a message, and one that leaves the queue.
LEMMA PushedSafe ==
  ASSUME SafeInv, TypeInv', SessionInv', NEW q, q = queue, QueueInv(q)',
         NEW e, Appendable(q, e)', queue' = Append(queue, e), e.type # "LOGIN", UNCHANGED control,
         \A x \in Open' : socketinfomap'[x].er = <<>> => x \in Open /\ Er(x) = <<>>
  PROVE  SafeInv'
<1> PICK p : p = Append(q, e) OBVIOUS
<1>1. TypeInv /\ Proper(q) /\ Logins(q) /\ Unattended(q) /\ e \in Messages
  BY QueueProper DEF SafeInv, Appendable
<1>2. Proper(q)'
  BY <1>1 DEF Proper, Messages, Events, Login
<1>3. QueueInv(p)'
  BY <1>2, AppendQueueNext
<1>4. Logins(p) /\ Unattended(p)
  BY <1>1, AppendMarks
<1>5. Logins(p)' /\ Unattended(p)'
  BY <1>4, SameMarks
<1> QED BY <1>3, <1>5, Assembled

LEMMA QuietSafe ==
  ASSUME SafeInv, TypeInv', SessionInv', NEW q, q = queue, QueueInv(q)', UNCHANGED <<queue, control>>,
         \A x \in Open' : socketinfomap'[x].er = <<>> => x \in Open /\ Er(x) = <<>>
  PROVE  SafeInv'
<1>1. Logins(q)' /\ Unattended(q)'
  BY SameMarks DEF SafeInv
<1> QED BY <1>1, Assembled

\* A connect fails, or five seconds are over.
LEMMA FailSafe ==
  ASSUME SafeInv, NEW x \in SockIds, ConnectFails(x) \/ ConnectTimeout(x)
  PROVE  SafeInv'
<1> PICK q : q = queue OBVIOUS
<1> PICK e : e = Event("FAIL", Er(x), x) OBVIOUS
<1>1. TypeInv /\ SessionInv /\ QueueInv(q) /\ Named /\ Proper(q)
  BY QueueProper DEF SafeInv, TypeInv
<1>2. TypeInv' /\ Serves(x) /\ Er(x) \in Sessions /\ x \in Open
  BY <1>1, ServesTypeInv DEF Serves
<1>3. Served /\ Type(x) = "TCP_CONNECTING" /\ socketinfomap' = Remove(socketinfomap, x)
      /\ queue' = IF socketinfomap[x].closing THEN queue ELSE Append(queue, e)
  BY DEF Served, ConnectFails, ConnectTimeout, Take, Fail, PushUnless, Push, io, Type, Er
<1>4. x = portconn[Er(x)] /\ ~socketinfomap[x].closing
  BY <1>1, <1>2, <1>3 DEF SessionInv, Attachments, Attached
<1>5. state[Er(x)] = "ACTIVE"
  BY <1>1, <1>2, <1>4 DEF SessionInv, Pairs
<1>6. Open' = Open \ {x} /\ \A y \in SockIds \ {x} : socketinfomap'[y] = socketinfomap[y]
  <2>1. x \notin Open'
    BY <1>1, <1>3, RemoveGone
  <2>2. /\ \A y \in SockIds \ {x} : socketinfomap'[y] = socketinfomap[y]
        /\ \A y \in SockIds \ {x} : y \in Open' <=> y \in Open
    BY <1>1, <1>2, <1>3, ServesTame, SessionPairs DEF Served
  <2>3. Open \subseteq SockIds /\ Open' \subseteq SockIds
    BY DEF Open
  <2> QED BY <2>1, <2>2, <2>3
<1>7. SessionInv' /\ QueueInv(q)'
  BY <1>1, <1>2, <1>3, <1>6, GoneKeeps
<1>8. e \in Messages /\ e.type = "FAIL" /\ e.to = Er(x) /\ e.sock = x
  BY <1>2, EventType
<1>9. UNCHANGED <<state, pasvconn, portconn, control>>
  BY <1>3 DEF Served, conns
<1>10. \A i \in DOMAIN q : q[i].sock # x
  BY <1>1, <1>2, <1>3 DEF QueueInv, Unheard
<1>11. ASSUME NEW s \in Sessions, state'[s] = "ACTIVE", portconn'[s] = x
       PROVE  pasvconn'[s] \in Open' /\ ~socketinfomap'[pasvconn'[s]].polled
  <2>1. pasvconn[s] \in Open /\ ~socketinfomap[pasvconn[s]].polled
    BY <1>1, <1>2, <1>3, <1>9, <1>11 DEF QueueInv, Pending
  <2>2. pasvconn[s] # x /\ pasvconn[s] \in SockIds
    BY <1>1, <1>3, <2>1 DEF Named, Open
  <2> QED BY <1>6, <1>9, <2>1, <2>2
<1>12. e.type \notin {"PASVDATA", "PORTDATA", "PASVCLOSED", "PORTCLOSED", "NEW", "LOGIN"}
  BY <1>8
<1>13. Appendable(q, e)'
  BY <1>4, <1>5, <1>6, <1>8, <1>9, <1>10, <1>11, <1>12
     DEF Appendable, Verdict, Bytes, Ending, Messages, Events, Login
<1>14. \A y \in Open' : socketinfomap'[y].er = <<>> => y \in Open /\ Er(y) = <<>>
  BY <1>6 DEF Er, Open
<1> QED BY <1>2, <1>3, <1>4, <1>7, <1>9, <1>12, <1>13, <1>14, PushedSafe

\* A connection ends: read() or write() says so, or the last of its data is sent.
LEMMA ClosedSafe ==
  ASSUME SafeInv, NEW x \in SockIds,
         ReadEnd(x) \/ WriteFails(x) \/ (Drain(x) /\ socketinfomap[x].closing)
  PROVE  SafeInv'
<1> PICK q : q = queue OBVIOUS
<1> PICK e : e = Closed(x) OBVIOUS
<1>1. TypeInv /\ SessionInv /\ QueueInv(q) /\ Named /\ Proper(q) /\ BatchPolled
  BY QueueProper DEF SafeInv, TypeInv
<1>2. TypeInv' /\ Serves(x) /\ Er(x) \in Sessions /\ x \in Open
  BY <1>1, ServesTypeInv DEF Serves
<1>3. /\ Served /\ Connected(x) /\ socketinfomap' = Remove(socketinfomap, x)
      /\ UNCHANGED queue \/ queue' = Append(queue, e)
      /\ \E dir \in {"IN", "OUT"} : <<x, dir>> \in batch
  BY DEF Served, ReadEnd, WriteFails, Drain, Take, PushUnless, Push
<1>4. Open' = Open \ {x} /\ \A y \in SockIds \ {x} : socketinfomap'[y] = socketinfomap[y]
  <2>1. x \notin Open'
    BY <1>1, <1>3, RemoveGone
  <2>2. /\ \A y \in SockIds \ {x} : socketinfomap'[y] = socketinfomap[y]
        /\ \A y \in SockIds \ {x} : y \in Open' <=> y \in Open
    BY <1>1, <1>2, <1>3, ServesTame, SessionPairs DEF Served
  <2>3. Open \subseteq SockIds /\ Open' \subseteq SockIds
    BY DEF Open
  <2> QED BY <2>1, <2>2, <2>3
<1>5. socketinfomap[x].polled /\ Type(x) # "TCP_SERVER"
  BY <1>1, <1>2, <1>3 DEF BatchPolled, Connected, Type
<1>6. SessionInv' /\ QueueInv(q)'
  BY <1>1, <1>2, <1>3, <1>4, <1>5, GoneKeeps
<1>7. /\ e \in Messages /\ e.type \in {"PASVCLOSED", "PORTCLOSED"} /\ e.to = Er(x) /\ e.sock = x
  BY <1>2, EventType DEF Closed, Notice, Er
<1>8. UNCHANGED <<state, pasvconn, portconn, control>>
  BY <1>3 DEF Served, conns
<1>9. \A i \in DOMAIN q : q[i].sock = x => ~Ending(q[i]) /\ (Verdict(q[i]) => q[i].type = "CONNECTED")
  BY <1>1, <1>2 DEF QueueInv, Verdicts, Ends, Verdict
<1>10. pasvconn[Er(x)] = x \/ portconn[Er(x)] = x => state[Er(x)] = "ACTIVE"
  BY <1>1, <1>2 DEF SessionInv, Pairs
<1>11. Appendable(q, e)'
  BY <1>4, <1>7, <1>8, <1>9, <1>10 DEF Appendable, Verdict, Bytes, Ending, Messages, Events, Login
<1>12. \A y \in Open' : socketinfomap'[y].er = <<>> => y \in Open /\ Er(y) = <<>>
  BY <1>4 DEF Er, Open
<1> QED BY <1>2, <1>3, <1>6, <1>7, <1>8, <1>11, <1>12, PushedSafe, QuietSafe

\* The send queue is empty again.
LEMMA DrainSafe ==
  ASSUME SafeInv, NEW x \in SockIds, Drain(x), ~socketinfomap[x].closing
  PROVE  SafeInv'
<1> PICK q : q = queue OBVIOUS
<1>1. TypeInv /\ SessionInv /\ QueueInv(q) /\ Named /\ Proper(q) /\ SocketsOK
  BY QueueProper, TypeParts DEF SafeInv, TypeInv
<1>2. TypeInv' /\ Serves(x) /\ Er(x) \in Sessions /\ x \in Open
  BY <1>1, ServesTypeInv DEF Serves
<1>3. /\ Served /\ Connected(x) /\ socketinfomap' = [socketinfomap EXCEPT ![x].unsent = FALSE]
      /\ UNCHANGED queue
  BY DEF Served, Drain, Take
<1>4. \A y \in SockIds :
         /\ y \in Open' <=> y \in Open
         /\ Type(y)' = Type(y) /\ Er(y)' = Er(y) /\ Connected(y)' = Connected(y)
         /\ socketinfomap'[y].polled = socketinfomap[y].polled
         /\ socketinfomap'[y].closing = socketinfomap[y].closing
         /\ socketinfomap'[y].twin = socketinfomap[y].twin
         /\ socketinfomap'[y].unsent => socketinfomap[y].unsent
         /\ y # x => socketinfomap'[y].unsent = socketinfomap[y].unsent
  BY <1>1, <1>3 DEF SocketsOK, SocketRecords, Open, Type, Er, Connected
<1>5. /\ UNCHANGED <<state, listenport, pasvlistener, pasvconn, portconn, control>> /\ Awaiting' = Awaiting
      /\ batch' \subseteq batch /\ Idling' /\ PortsInv'
  BY <1>1, <1>3, ServedKeeps DEF Served, conns, SessionInv
<1>6. Open' = Open /\ Open \subseteq SockIds
  BY <1>4 DEF Open
<1>7. \A y \in SockIds : Attached(y)' = Attached(y)
  BY <1>4, <1>5 DEF Attached
<1>8. Listeners'
  BY <1>1, <1>4, <1>5, <1>6 DEF SessionInv, Listeners
<1>9. Pairs'
  BY <1>1, <1>4, <1>5, <1>6 DEF SessionInv, Pairs
<1>10. Attachments'
  BY <1>1, <1>4, <1>6, <1>7 DEF SessionInv, Attachments
<1>11. Arrivals(q)' /\ DataOK(q)'
  BY <1>1, <1>5 DEF QueueInv, Arrivals, DataOK, Owned
<1>12. Unheard(q)' /\ Verdicts(q)' /\ Ends(q)'
  BY <1>1, <1>4, <1>5, <1>6 DEF QueueInv, Unheard, Verdicts, Ends
<1>13. Pending(q)'
  BY <1>1, <1>4, <1>5, <1>6 DEF QueueInv, Pending
<1>14. Late(q)'
  <2>1. \A e \in batch' : e \in batch /\ e[1] \in SockIds
    BY <1>1, <1>5 DEF TypeInv, TypeOK
  <2> QED BY <1>1, <1>4, <1>5, <1>7, <2>1 DEF QueueInv, Late
<1>15. \A y \in Open' : socketinfomap'[y].er = <<>> => y \in Open /\ Er(y) = <<>>
  BY <1>4, <1>6 DEF Er
<1> QED BY <1>2, <1>3, <1>5, <1>8, <1>9, <1>10, <1>11, <1>12, <1>13, <1>14, <1>15, QuietSafe
        DEF SessionInv, QueueInv

\* Data is read.  What the session no longer has is read for nobody.
LEMMA ReadDataSafe ==
  ASSUME SafeInv, NEW x \in SockIds, ReadData(x)
  PROVE  SafeInv'
<1> PICK q : q = queue OBVIOUS
<1> PICK e : e = Data(x) OBVIOUS
<1> PICK p : p = Append(q, e) OBVIOUS
<1>1. TypeInv /\ SessionInv /\ QueueInv(q) /\ Proper(q) /\ BatchPolled /\ Logins(q) /\ Unattended(q)
  BY QueueProper DEF SafeInv, TypeInv
<1>2. TypeInv' /\ Serves(x) /\ Er(x) \in Sessions /\ x \in Open
  BY <1>1, ServesTypeInv DEF Serves
<1>3. Served /\ Connected(x) /\ queue' = p /\ <<x, "IN">> \in batch /\ UNCHANGED socketinfomap
  BY DEF Served, ReadData, Take, Push
<1>4. /\ e \in Messages /\ e.to = Er(x) /\ e.sock = x
      /\ e.type = IF Type(x) = "TCP_PLAIN_LISTEN" THEN "PASVDATA" ELSE "PORTDATA"
  BY <1>2, <1>3, EventType DEF Data, Notice, Er, Type, Connected
<1>5. ~Attached(x) => /\ state[Er(x)] # "ACTIVE"
                      /\ \A i \in DOMAIN q : ~ (q[i].type = "NEW" /\ q[i].to = Er(x))
  BY <1>1, <1>3 DEF QueueInv, Late
<1>6. Attached(x) => /\ Owned(e)
                     /\ \A i \in DOMAIN q : ~ (q[i].type = "NEW" /\ q[i].to = Er(x))
  <2>1. Attached(x) => state[Er(x)] = "ACTIVE"
    BY <1>1, <1>2 DEF SessionInv, Pairs, Attached
  <2>2. \A i \in DOMAIN q : q[i].type = "NEW" => state[q[i].to] = "AWAITING_PASV"
    BY <1>1 DEF QueueInv, Arrivals, Awaiting
  <2> QED BY <1>4, <2>1, <2>2 DEF Attached, Owned
<1>7. \A y \in Open : Type(y) = "TCP_CONNECTING" \/ ~socketinfomap[y].polled => e.sock # y
  BY <1>1, <1>3, <1>4, <1>2 DEF BatchPolled, Connected, Type
<1>8. \A i \in DOMAIN q : Verdict(q[i]) /\ q[i].sock = e.sock => q[i].type = "CONNECTED"
  BY <1>1, <1>2, <1>4 DEF QueueInv, Verdicts, Verdict
<1>9. Appendable(q, e)
  BY <1>4, <1>5, <1>6, <1>7, <1>8 DEF Appendable, Verdict, Bytes, Ending
<1>10. QueueInv(p)
  BY <1>1, <1>9, AppendQueue
<1>11. Apart
  BY <1>3 DEF Apart, Served, conns
<1>12. QueueInv(p)' /\ Listeners' /\ Pairs' /\ Attachments' /\ Open' = Open
  BY <1>1, <1>10, <1>11, ApartKeeps
<1>13. Idling' /\ PortsInv'
  BY <1>1, <1>3, ServedKeeps DEF SessionInv
<1>14. Logins(p) /\ Unattended(p)
  BY <1>1, <1>4, AppendMarks
<1>15. Logins(p)' /\ Unattended(p)'
  BY <1>3, <1>12, <1>14, SameMarks DEF Served, Er
<1> QED BY <1>2, <1>3, <1>12, <1>13, <1>15, Assembled DEF SessionInv

\* A connect succeeds: its session learns of it first of all.
LEMMA ConnectSafe ==
  ASSUME SafeInv, NEW x \in SockIds, Connect(x)
  PROVE  SafeInv'
<1> PICK q : q = queue OBVIOUS
<1> PICK e : e = Event("CONNECTED", Er(x), x) OBVIOUS
<1>1. TypeInv /\ SessionInv /\ QueueInv(q) /\ Named /\ Proper(q) /\ SocketsOK /\ BatchPolled
  BY QueueProper, TypeParts DEF SafeInv, TypeInv
<1>2. TypeInv' /\ Serves(x) /\ Er(x) \in Sessions /\ x \in Open
  BY <1>1, ServesTypeInv DEF Serves
<1>3. /\ Served /\ Type(x) = "TCP_CONNECTING" /\ <<x, "OUT">> \in batch
      /\ socketinfomap' = [socketinfomap EXCEPT ![x].type = "TCP_PLAIN"]
      /\ queue' = IF socketinfomap[x].closing THEN queue ELSE Append(queue, e)
  BY DEF Served, Connect, Take, PushUnless, Push, Type, Er
<1>4. x = portconn[Er(x)] /\ ~socketinfomap[x].closing /\ state[Er(x)] = "ACTIVE"
  BY <1>1, <1>2, <1>3 DEF SessionInv, Attachments, Attached, Pairs
<1>5. \A y \in SockIds :
         /\ y \in Open' <=> y \in Open
         /\ y # x => socketinfomap'[y] = socketinfomap[y]
         /\ Er(y)' = Er(y)
         /\ socketinfomap'[y].polled = socketinfomap[y].polled
         /\ socketinfomap'[y].closing = socketinfomap[y].closing
         /\ socketinfomap'[y].twin = socketinfomap[y].twin
         /\ socketinfomap'[y].unsent = socketinfomap[y].unsent
  BY <1>1, <1>3 DEF SocketsOK, SocketRecords, Open, Type, Er
<1>6. Type(x)' = "TCP_PLAIN"
  BY <1>1, <1>3 DEF SocketsOK, SocketRecords, Type
<1>7. \A y \in SockIds : y # x => Type(y)' = Type(y) /\ Connected(y)' = Connected(y)
  BY <1>5 DEF Type, Connected
<1>8. /\ UNCHANGED <<state, listenport, pasvlistener, pasvconn, portconn, control>> /\ Awaiting' = Awaiting
      /\ batch' \subseteq batch /\ Idling' /\ PortsInv'
  BY <1>1, <1>3, ServedKeeps DEF Served, conns, SessionInv
<1>9. Open' = Open /\ Open \subseteq SockIds
  BY <1>5 DEF Open
<1>10. \A y \in SockIds : Attached(y)' = Attached(y)
  BY <1>3, <1>5, <1>6, <1>7, <1>8 DEF Attached
<1>11. Listeners'
  <2>1. \A y \in Open : Type(y)' = "TCP_SERVER" => y # x /\ Type(y) = "TCP_SERVER"
    BY <1>6, <1>7, <1>9
  <2> QED BY <1>1, <1>5, <1>8, <1>9, <2>1 DEF SessionInv, Listeners
<1>12. Pairs'
  BY <1>1, <1>5, <1>8, <1>9 DEF SessionInv, Pairs
<1>13. Attachments'
  <2>1. Attached(x)
    BY <1>3, <1>4 DEF Attached
  <2> QED BY <1>1, <1>4, <1>5, <1>6, <1>7, <1>9, <1>10, <2>1 DEF SessionInv, Attachments
<1>14. Arrivals(q)' /\ DataOK(q)'
  BY <1>1, <1>8 DEF QueueInv, Arrivals, DataOK, Owned
<1>15. Unheard(q)' /\ Verdicts(q)' /\ Ends(q)'
  BY <1>1, <1>2, <1>3, <1>5, <1>7, <1>8, <1>9 DEF QueueInv, Unheard, Verdicts, Ends
<1>16. Pending(q)'
  <2>1. \A s \in Sessions : portconn[s] \in Open /\ Type(portconn[s])' = "TCP_CONNECTING" =>
                              Type(portconn[s]) = "TCP_CONNECTING"
    BY <1>6, <1>7, <1>8, <1>9
  <2> QED BY <1>1, <1>5, <1>8, <1>9, <2>1 DEF QueueInv, Pending
<1>17. Late(q)'
  <2>1. \A b \in batch' : b \in batch /\ b[1] \in SockIds
    BY <1>1, <1>8 DEF TypeInv, TypeOK
  <2>2. Attached(x)'
    BY <1>3, <1>4, <1>10 DEF Attached
  <2> QED BY <1>1, <1>5, <1>6, <1>7, <1>8, <1>10, <2>1, <2>2 DEF QueueInv, Late
<1>18. e \in Messages /\ e.type = "CONNECTED" /\ e.to = Er(x) /\ e.sock = x
  BY <1>2, EventType
<1>19. \A i \in DOMAIN q : q[i].sock # x
  BY <1>1, <1>2, <1>3 DEF QueueInv, Unheard
<1>20. socketinfomap[x].polled
  BY <1>1, <1>2, <1>3 DEF BatchPolled
<1>21. ASSUME NEW s \in Sessions, state[s] = "ACTIVE", portconn[s] = x
       PROVE  pasvconn[s] \in Open /\ ~socketinfomap[pasvconn[s]].polled
  BY <1>1, <1>2, <1>3, <1>21 DEF QueueInv, Pending
<1>22. Appendable(q, e)'
  BY <1>4, <1>5, <1>6, <1>8, <1>9, <1>18, <1>19, <1>20, <1>21
     DEF Appendable, Verdict, Bytes, Ending, Messages, Events, Login
<1>23. \A y \in Open' : socketinfomap'[y].er = <<>> => y \in Open /\ Er(y) = <<>>
  BY <1>5, <1>9 DEF Er
<1> QED BY <1>2, <1>3, <1>4, <1>8, <1>11, <1>12, <1>13, <1>14, <1>15, <1>16, <1>17, <1>18, <1>22, <1>23, PushedSafe
        DEF SessionInv, QueueInv

\* A listener has its connection: nothing is left of the session's last
\* transfer that may still be read.
LEMMA AcceptSafe ==
  ASSUME SafeInv, Sequential, NEW x \in SockIds, Accept(x)
  PROVE  SafeInv'
<1> PICK q : q = queue OBVIOUS
<1> PICK f : f = Fresh OBVIOUS
<1> PICK e : e = [type |-> "NEW", to |-> Er(x), sock |-> x, new |-> f] OBVIOUS
<1> PICK p : p = Append(q, e) OBVIOUS
<1> DEFINE z == Len(q) + 1
           r == [Unused EXCEPT !.type = "TCP_PLAIN_LISTEN"]
<1>1. TypeInv /\ SessionInv /\ QueueInv(q) /\ Proper(q) /\ Logins(q) /\ Unattended(q)
  BY QueueProper DEF SafeInv
<1>2. TypeInv' /\ TypeOK /\ SocketsOK /\ Named /\ BatchPolled /\ Open \subseteq SockIds /\ SessionsOK
  BY <1>1, AcceptTypeInv, TypeParts DEF TypeInv, Open
<1>3. /\ f \in SockIds /\ f \notin Open
      /\ \A s \in Sessions : pasvlistener[s] # f /\ pasvconn[s] # f /\ portconn[s] # f
      /\ \A i \in DOMAIN q : q[i].sock # f
      /\ \A b \in batch : b[1] # f
  <2>1. Free # {}
    BY <1>2, RoomIsFree DEF Accept
  <2> QED BY <1>2, <2>1, FreshIsNew DEF Places
<1>4. /\ Served /\ Type(x) = "TCP_SERVER" /\ x \in Open /\ <<x, "IN">> \in batch
      /\ socketinfomap' = [socketinfomap EXCEPT ![f] = r]
      /\ queue' = p
      /\ \A m \in News : m.sock # x
  BY DEF Served, Accept, Take, Push, Type, Er, Open
<1>5. Er(x) \in Awaiting /\ pasvlistener[Er(x)] = x /\ Er(x) \in Sessions
  BY <1>1, <1>4 DEF SessionInv, Listeners, Awaiting
<1>6. e \in Messages /\ e.type = "NEW" /\ e.to = Er(x) /\ e.sock = x /\ e.new = f
  BY <1>3, <1>5 DEF Messages, Events
<1>7. r.type = "TCP_PLAIN_LISTEN" /\ r.er = <<>> /\ ~r.polled /\ ~r.unsent /\ ~r.closing
  BY DEF Unused
<1> HIDE DEF r, z
<1>8. Open' = Open \cup {f} /\ socketinfomap'[f] = r /\ \A y \in Open : y # f /\ socketinfomap'[y] = socketinfomap[y]
  BY <1>2, <1>3, <1>4, <1>7 DEF Open, SocketsOK
<1>9. /\ UNCHANGED <<state, listenport, pasvlistener, pasvconn, portconn, control>> /\ Awaiting' = Awaiting
      /\ batch' \subseteq batch /\ Idling' /\ PortsInv'
  BY <1>1, <1>4, ServedKeeps DEF Served, conns, SessionInv
<1>10. \A y \in Open : Type(y)' = Type(y) /\ Er(y)' = Er(y) /\ Connected(y)' = Connected(y)
                       /\ Attached(y)' = Attached(y)
  BY <1>8, <1>9 DEF Type, Er, Connected, Attached
<1>11. Type(f)' = "TCP_PLAIN_LISTEN" /\ Er(f)' = <<>>
  BY <1>7, <1>8 DEF Type, Er
<1>12. /\ z \in DOMAIN p /\ p[z] = e
       /\ \A i \in DOMAIN q : i \in Nat /\ i < z /\ i # z /\ i \in DOMAIN p /\ p[i] = q[i]
       /\ \A i \in DOMAIN p : i = z \/ i \in DOMAIN q
       /\ \A i \in DOMAIN q : ~ (z < i)
  <2>1. /\ z \in DOMAIN p /\ p[z] = e /\ z \in Nat
        /\ \A i \in DOMAIN q : i \in Nat /\ i < z /\ i \in DOMAIN p /\ p[i] = q[i]
        /\ \A i \in DOMAIN p : i = z \/ i \in DOMAIN q
    BY <1>1, <1>6, AppendPlaces DEF z, Proper
  <2> QED BY <2>1
<1>13. Listeners'
  BY <1>1, <1>8, <1>9, <1>10, <1>11 DEF SessionInv, Listeners
<1>14. Pairs'
  BY <1>1, <1>2, <1>3, <1>8, <1>9 DEF SessionInv, Pairs
<1>15. Attachments'
  <2>1. ~socketinfomap'[f].closing
    BY <1>7, <1>8
  <2> QED BY <1>1, <1>8, <1>10, <1>11, <2>1 DEF SessionInv, Attachments
<1>16. Arrivals(p)'
  <2>1. \A i \in DOMAIN q : q[i].type = "NEW" => q[i] \in News
    BY DEF News
  <2>2. \A i \in DOMAIN q : q[i].type = "NEW" => q[i].to # Er(x)
    BY <1>1, <1>4, <1>5, <2>1 DEF QueueInv, Arrivals
  <2> QED BY <1>1, <1>5, <1>6, <1>9, <1>12, <2>2 DEF QueueInv, Arrivals
<1>17. Unheard(p)'
  <2>1. socketinfomap[x].polled
    BY <1>2, <1>4 DEF BatchPolled
  <2> QED BY <1>1, <1>3, <1>4, <1>6, <1>8, <1>10, <1>12, <2>1 DEF QueueInv, Unheard
<1>18. Late(p)'
  <2>1. \A b \in batch' : b \in batch /\ b[1] \in SockIds /\ b[1] # f
    BY <1>2, <1>3, <1>9 DEF TypeOK
  <2>2. ASSUME NEW b \in batch
        PROVE  socketinfomap'[b[1]] = socketinfomap[b[1]]
    BY <1>2, <1>3, <1>4, <2>1 DEF SocketsOK, TypeOK
  <2>3. ASSUME NEW b \in batch
        PROVE  Type(b[1])' = Type(b[1]) /\ Er(b[1])' = Er(b[1]) /\ Connected(b[1])' = Connected(b[1])
               /\ Attached(b[1])' = Attached(b[1])
    BY <1>9, <2>2 DEF Type, Er, Connected, Attached
  <2>4. \A b \in batch : b[2] = "IN" /\ Connected(b[1]) /\ ~Attached(b[1]) => Er(b[1]) # Er(x)
    BY <1>1, <1>4 DEF QueueInv, Late
  <2> QED BY <1>1, <1>6, <1>9, <1>12, <2>1, <2>3, <2>4 DEF QueueInv, Late
<1>19. Verdicts(p)'
  <2>1. ~Verdict(e)
    BY <1>6 DEF Verdict
  <2>2. ASSUME NEW i \in DOMAIN q, Verdict(q[i])
        PROVE  /\ \/ state'[p[i].to] = "ACTIVE" /\ portconn'[p[i].to] = p[i].sock
                  \/ \E j \in DOMAIN p : j > i /\ p[j] = Login(p[i].to[1])
               /\ \A j \in DOMAIN p : i # j /\ p[j].sock = p[i].sock => p[i].type = "CONNECTED" /\ j > i
               /\ p[i].type = "FAIL" => p[i].sock \notin Open'
    <3>1. /\ \/ state[q[i].to] = "ACTIVE" /\ portconn[q[i].to] = q[i].sock
             \/ \E j \in DOMAIN q : j > i /\ q[j] = Login(q[i].to[1])
          /\ \A j \in DOMAIN q : i # j /\ q[j].sock = q[i].sock => q[i].type = "CONNECTED" /\ j > i
          /\ q[i].type = "FAIL" => q[i].sock \notin Open
      BY <1>1, <2>2 DEF QueueInv, Verdicts
    <3>2. z > i
      BY <1>12
    <3>3. q[i].type = "CONNECTED" \/ q[i].type = "FAIL"
      BY <2>2 DEF Verdict
    <3>4. \A j \in DOMAIN p : i # j /\ p[j].sock = p[i].sock => p[i].type = "CONNECTED" /\ j > i
      BY <1>4, <1>6, <1>12, <3>1, <3>2, <3>3
    <3> QED BY <1>3, <1>8, <1>9, <1>12, <3>1, <3>4
  <2> QED BY <1>12, <2>1, <2>2 DEF Verdicts
<1>20. Pending(p)'
  <2>1. ~Verdict(e)
    BY <1>6 DEF Verdict
  <2> QED BY <1>1, <1>3, <1>8, <1>9, <1>10, <1>12, <2>1 DEF QueueInv, Pending
<1>21. DataOK(p)'
  <2>1. ~Bytes(e)
    BY <1>6 DEF Bytes
  <2> QED BY <1>1, <1>9, <1>12, <2>1 DEF QueueInv, DataOK, Owned
<1>22. Ends(p)'
  <2>1. ~Ending(e)
    BY <1>6 DEF Ending
  <2>2. ASSUME NEW i \in DOMAIN q, Ending(q[i])
        PROVE  /\ q[i].sock \notin Open'
               /\ q[i].type = "PASVCLOSED" /\ pasvconn[q[i].to] = q[i].sock => state[q[i].to] = "ACTIVE"
               /\ q[i].type = "PORTCLOSED" /\ portconn[q[i].to] = q[i].sock => state[q[i].to] = "ACTIVE"
               /\ \A j \in DOMAIN q : Ending(q[j]) /\ q[j].sock = q[i].sock => j = i
    BY <1>1, <1>3, <1>8, <2>2 DEF QueueInv, Ends
  <2>3. \A i \in DOMAIN p : Ending(p[i]) => i \in DOMAIN q /\ p[i] = q[i]
    BY <1>12, <2>1
  <2> QED BY <1>9, <2>2, <2>3 DEF Ends
<1>23. Logins(p)' /\ Unattended(p)'
  <2>1. Logins(p) /\ Unattended(p)
    BY <1>1, <1>6, AppendMarks
  <2>2. Logins(p)'
    BY <1>9, <2>1, SameMarks
  <2>3. Unattended(p)'
    BY <1>6, <1>8, <1>10, <1>12, <2>1 DEF Unattended
  <2> QED BY <2>2, <2>3
<1> QED BY <1>2, <1>4, <1>9, <1>13, <1>14, <1>15, <1>16, <1>17, <1>18, <1>19, <1>20, <1>21, <1>22, <1>23, Assembled
        DEF SessionInv, QueueInv

-----------------------------------------------------------------------------
(* The worker's event handlers.                                            *)

LEMMA HandledSafe ==
  ASSUME SafeInv, TypeInv', SessionInv', NEW q, q = Tail(queue), QueueInv(q)', queue # <<>>, queue' = q,
         Head(queue).type \notin {"NEW", "LOGIN"}, UNCHANGED control,
         \A x \in Open' : socketinfomap'[x].er = <<>> => x \in Open /\ Er(x) = <<>>
  PROVE  SafeInv'
<1>1. Logins(q) /\ Unattended(q)
  BY QueueProper, TailMarks DEF SafeInv
<1>2. Logins(q)' /\ Unattended(q)'
  BY <1>1, SameMarks
<1> QED BY <1>2, Assembled

\* What a handler finds, and what it leaves in the queue.
LEMMA Handling ==
  ASSUME SafeInv, NEW t, At(t)
  PROVE  /\ TypeInv /\ SessionInv /\ QueueInv(queue) /\ Proper(queue) /\ Proper(Tail(queue)) /\ QueueInv(Tail(queue))
         /\ queue # <<>> /\ Head(queue) = queue[1] /\ 1 \in DOMAIN queue /\ queue[1].type = t
         /\ queue[1].to = Receiver /\ Receiver \in Sessions
         /\ \A i \in DOMAIN Tail(queue) :
              /\ i \in Nat \ {0} /\ i + 1 \in DOMAIN queue /\ i + 1 # 1 /\ ~(1 > i + 1) /\ ~(i + 1 < 1)
              /\ Tail(queue)[i] = queue[i + 1] /\ Tail(queue)[i].to \in Sessions
<1>1. TypeInv /\ SessionInv /\ QueueInv(queue) /\ Proper(queue)
  BY QueueProper DEF SafeInv
<1>2. /\ queue # <<>> /\ 1 \in Places /\ Head(queue) = queue[1] /\ queue[1].type = t
      /\ Receiver \in Sessions /\ queue[1].to = Receiver
  BY <1>1, HeadTypes
<1>3. Proper(Tail(queue)) /\ QueueInv(Tail(queue))
  BY <1>1, <1>2, TailQueue
<1>4. \A i \in DOMAIN Tail(queue) : i \in Nat \ {0} /\ i + 1 \in DOMAIN queue /\ Tail(queue)[i] = queue[i + 1]
  BY <1>1, <1>2, TailPlaces DEF Proper
<1>5. \A i \in DOMAIN Tail(queue) : Tail(queue)[i].to \in Sessions
  BY <1>3, MessageTypes DEF Proper
<1>6. \A i \in DOMAIN Tail(queue) : i + 1 # 1 /\ ~(1 > i + 1) /\ ~(i + 1 < 1)
  BY <1>4
<1> QED BY <1>1, <1>2, <1>3, <1>4, <1>5, <1>6 DEF Places

\* An event nobody does anything about.
LEMMA ListenFailSafe ==
  ASSUME SafeInv, HandleListenFail
  PROVE  SafeInv'
<1> PICK q : q = Tail(queue) OBVIOUS
<1>1. TypeInv /\ SessionInv /\ QueueInv(q) /\ queue # <<>> /\ Head(queue).type = "LISTENFAIL"
  BY Handling DEF HandleListenFail, At
<1>2. TypeInv'
  BY <1>1, HandleTypeInv DEF Handle
<1>3. /\ UNCHANGED <<made, state, listenport, conns, ports, socketinfomap, control, activating, batch>>
      /\ queue' = q
  BY DEF HandleListenFail, Handled, io
<1>4. Apart /\ Served
  BY <1>3 DEF Apart, Served, conns
<1>5. QueueInv(q)' /\ Listeners' /\ Pairs' /\ Attachments' /\ Open' = Open
  BY <1>1, <1>4, ApartKeeps
<1>6. Idling' /\ PortsInv'
  BY <1>1, <1>4, ServedKeeps DEF SessionInv
<1> QED BY <1>1, <1>2, <1>3, <1>5, <1>6, HandledSafe DEF SessionInv, Er

\* The transfer of session s ends: its open connections, in D, are closed, and
\* nothing in q is about them.
Finishes(q, s, D) ==
    /\ state[s] # "AWAITING_PASV"
    /\ D \subseteq {pasvconn[s], portconn[s]} /\ Shut(D)
    /\ state' = [state EXCEPT ![s] = "INACTIVE"]
    /\ \A t \in Sessions \ {s} : pasvconn'[t] = pasvconn[t] /\ portconn'[t] = portconn[t]
    /\ pasvconn[s] \in Open => pasvconn[s] \in D
    /\ portconn[s] \in Open => portconn[s] \in D /\ Type(portconn[s]) # "TCP_CONNECTING"
    /\ pasvconn'[s] \notin Open /\ portconn'[s] \notin Open
    /\ UNCHANGED <<made, listenport, pasvlistener, ports, control, activating, batch>>
    /\ \A i \in DOMAIN q :
         /\ Verdict(q[i]) /\ q[i].to = s /\ q[i].sock = portconn[s] => state[s] # "ACTIVE"
         /\ q[i].type = "PASVCLOSED" /\ q[i].to = s => pasvconn'[s] # q[i].sock
         /\ q[i].type = "PORTCLOSED" /\ q[i].to = s => portconn'[s] # q[i].sock

LEMMA FinishKeeps ==
  ASSUME TypeInv, SessionInv, NEW q, Proper(q), QueueInv(q), NEW s \in Sessions, NEW D, Finishes(q, s, D)
  PROVE  SessionInv' /\ QueueInv(q)'
<1> USE DEF Finishes
<1>0. Named /\ Open \subseteq SockIds /\ SocketsOK /\ SessionsOK /\ Receivers /\ TypeOK
  BY TypeParts DEF TypeInv, Open
<1>1. \A x \in Open : x \in D => Er(x) = s /\ Type(x) # "TCP_SERVER" /\ Type(x) # "TCP_CONNECTING"
  BY <1>0 DEF Named
<1>2. \A x \in Open' :
         /\ x \in Open /\ x \in SockIds /\ (x \in D => socketinfomap[x].unsent)
         /\ Type(x)' = Type(x) /\ Er(x)' = Er(x) /\ Connected(x)' = Connected(x)
         /\ socketinfomap'[x].polled = socketinfomap[x].polled
         /\ socketinfomap'[x].unsent = socketinfomap[x].unsent
         /\ socketinfomap'[x].twin = socketinfomap[x].twin
         /\ socketinfomap'[x].closing <=> (socketinfomap[x].closing \/ x \in D)
  <2>1. Open' \subseteq SockIds
    BY DEF Open
  <2> QED BY <2>1 DEF Shut, Type, Er, Connected
<1>3. \A x \in Open : x \notin D => x \in Open'
  BY <1>0 DEF Shut
<1>4. /\ Awaiting' = Awaiting /\ state'[s] = "INACTIVE" /\ s \notin Awaiting
      /\ \A t \in Sessions : t # s => state'[t] = state[t]
  BY <1>0 DEF Awaiting, SessionsOK
<1>5. \A x \in Open' : Er(x) \in Sessions /\ Er(x) # s => Attached(x)' = Attached(x)
  BY <1>2 DEF Attached
<1>6. Idling'
  BY <1>4 DEF SessionInv, Idling
<1>7. Listeners'
  <2>1. ASSUME NEW x \in Open', Type(x)' = "TCP_SERVER"
        PROVE  /\ Er(x)' \in Awaiting' /\ pasvlistener'[Er(x)'] = x
               /\ ~socketinfomap'[x].unsent /\ ~socketinfomap'[x].closing
    BY <1>1, <1>2, <1>4, <2>1 DEF SessionInv, Listeners
  <2>2. \A t \in Awaiting : pasvlistener[t] \in Open /\ pasvlistener[t] \notin D
    BY <1>0, <1>1 DEF SessionInv, Listeners, Named, Awaiting
  <2> QED BY <1>3, <1>4, <2>1, <2>2 DEF SessionInv, Listeners
<1>8. Pairs'
  <2>1. ASSUME NEW t \in Sessions, t # s
        PROVE  /\ pasvconn'[t] \in Open' =>
                    state'[t] = "ACTIVE" /\ socketinfomap'[pasvconn'[t]].twin = portconn'[t]
               /\ portconn'[t] \in Open' =>
                    state'[t] = "ACTIVE" /\ socketinfomap'[portconn'[t]].twin = pasvconn'[t]
    BY <1>2, <1>4, <2>1 DEF SessionInv, Pairs
  <2>2. pasvconn'[s] \notin Open' /\ portconn'[s] \notin Open'
    BY <1>2
  <2> QED BY <2>1, <2>2 DEF Pairs
<1>9. Attachments'
  <2> SUFFICES ASSUME NEW x \in Open'
               PROVE  /\ Type(x)' = "TCP_CONNECTING" =>
                           Attached(x)' /\ ~socketinfomap'[x].unsent /\ ~socketinfomap'[x].closing
                      /\ Connected(x)' /\ Er(x)' # <<>> => socketinfomap'[x].closing \/ Attached(x)'
                      /\ socketinfomap'[x].closing => socketinfomap'[x].unsent
    BY DEF Attachments
  <2>1. /\ Type(x) = "TCP_CONNECTING" =>
                Attached(x) /\ ~socketinfomap[x].unsent /\ ~socketinfomap[x].closing
        /\ Connected(x) /\ Er(x) # <<>> => socketinfomap[x].closing \/ Attached(x)
        /\ socketinfomap[x].closing => socketinfomap[x].unsent
    BY <1>2 DEF SessionInv, Attachments
  <2>2. Er(x) \in Sessions \cup {<<>>} /\ x \in Open
    BY <1>0, <1>2 DEF SocketsOK, SocketRecords, Er
  <2>3. Attached(x) /\ Er(x) = s => x \in D
    BY <2>2 DEF Attached
  <2>4. Type(x) = "TCP_CONNECTING" => Er(x) # <<>>
    BY <1>0, <2>2 DEF Receivers
  <2> QED BY <1>1, <1>2, <1>5, <2>1, <2>2, <2>3, <2>4
<1>10. PortsInv'
  BY <1>4 DEF SessionInv, PortsInv, OneSet, NoPortLeak, OwnPorts, ports
<1>11. Arrivals(q)'
  BY <1>4 DEF QueueInv, Arrivals
<1>12. Unheard(q)'
  BY <1>2 DEF QueueInv, Unheard
<1>13. Late(q)'
  <2>1. ASSUME NEW b \in batch', Connected(b[1])' PROVE b \in batch /\ b[1] \in Open' /\ Er(b[1]) \in Sessions
    <3>1. b \in batch /\ b[1] \in SockIds
      BY <1>0 DEF TypeOK
    <3>2. b[1] \in Open'
      BY <2>1, <3>1 DEF Connected, Open
    <3> QED BY <1>2, <3>1, <3>2, BatchReceivers
  <2>2. ASSUME NEW f \in batch', Type(f[1])' = "TCP_SERVER"
        PROVE  f \in batch /\ Type(f[1]) = "TCP_SERVER" /\ Er(f[1])' = Er(f[1]) /\ Er(f[1]) # s
    <3>1. f \in batch /\ f[1] \in SockIds
      BY <1>0 DEF TypeOK
    <3>2. f[1] \in Open'
      BY <2>2, <3>1 DEF Type, Open
    <3>3. Er(f[1])' \in Awaiting'
      BY <1>7, <2>2, <3>2 DEF Listeners
    <3> QED BY <1>2, <1>4, <2>2, <3>1, <3>2, <3>3
  <2>3. ASSUME NEW b \in batch', b[2] = "IN", Connected(b[1])', ~Attached(b[1])'
        PROVE  /\ state'[Er(b[1])'] # "ACTIVE"
               /\ \A n \in DOMAIN q : ~ (q[n].type = "NEW" /\ q[n].to = Er(b[1])')
               /\ \A f \in batch' : ~ (Type(f[1])' = "TCP_SERVER" /\ Er(f[1])' = Er(b[1])')
    <3>1. b \in batch /\ b[1] \in Open' /\ Er(b[1]) \in Sessions /\ Er(b[1])' = Er(b[1]) /\ Connected(b[1])
      BY <1>2, <2>1, <2>3
    <3>2. CASE Er(b[1]) = s
      <4>1. \A n \in DOMAIN q : q[n].type = "NEW" => q[n].to # s
        BY <1>4 DEF QueueInv, Arrivals
      <4> QED BY <1>4, <2>2, <3>1, <3>2, <4>1
    <3>3. CASE Er(b[1]) # s
      <4>1. ~Attached(b[1])
        BY <1>5, <2>3, <3>1, <3>3
      <4> QED BY <1>4, <2>2, <2>3, <3>1, <3>3, <4>1 DEF QueueInv, Late
    <3> QED BY <3>2, <3>3
  <2> QED BY <2>3 DEF Late
<1>14. \A i \in DOMAIN q : q[i].to \in Sessions
  BY MessageTypes DEF Proper
<1>15. Verdicts(q)'
  <2> SUFFICES ASSUME NEW n \in DOMAIN q, Verdict(q[n])
               PROVE  /\ \/ state'[q[n].to] = "ACTIVE" /\ portconn'[q[n].to] = q[n].sock
                         \/ \E j \in DOMAIN q : j > n /\ q[j] = Login(q[n].to[1])
                      /\ \A j \in DOMAIN q : n # j /\ q[j].sock = q[n].sock => q[n].type = "CONNECTED" /\ j > n
                      /\ q[n].type = "FAIL" => q[n].sock \notin Open'
    BY DEF Verdicts
  <2>1. /\ \/ state[q[n].to] = "ACTIVE" /\ portconn[q[n].to] = q[n].sock
           \/ \E j \in DOMAIN q : j > n /\ q[j] = Login(q[n].to[1])
        /\ \A j \in DOMAIN q : n # j /\ q[j].sock = q[n].sock => q[n].type = "CONNECTED" /\ j > n
        /\ q[n].type = "FAIL" => q[n].sock \notin Open
    BY DEF QueueInv, Verdicts
  <2> QED BY <1>2, <1>4, <1>14, <2>1
<1>16. Pending(q)'
  <2>1. \A t \in Sessions : t # s /\ pasvconn[t] \in Open => pasvconn[t] \in Open'
    BY <1>0, <1>1, <1>3 DEF Named
  <2> QED BY <1>2, <1>4, <2>1 DEF QueueInv, Pending
<1>17. DataOK(q)'
  BY <1>4, <1>14 DEF QueueInv, DataOK, Owned
<1>18. Ends(q)'
  <2>1. ASSUME NEW n \in DOMAIN q, Ending(q[n])
        PROVE  /\ q[n].sock \notin Open'
               /\ q[n].type = "PASVCLOSED" /\ pasvconn'[q[n].to] = q[n].sock => state'[q[n].to] = "ACTIVE"
               /\ q[n].type = "PORTCLOSED" /\ portconn'[q[n].to] = q[n].sock => state'[q[n].to] = "ACTIVE"
               /\ \A j \in DOMAIN q : Ending(q[j]) /\ q[j].sock = q[n].sock => j = n
    BY <1>2, <1>4, <1>14, <2>1 DEF QueueInv, Ends
  <2> QED BY <2>1 DEF Ends
<1> QED BY <1>6, <1>7, <1>8, <1>9, <1>10, <1>11, <1>12, <1>13, <1>15, <1>16, <1>17, <1>18 DEF SessionInv, QueueInv

\* What the first message of the queue says is so.
LEMMA VerdictHolds ==
  ASSUME SafeInv, NEW t \in {"CONNECTED", "FAIL"}, At(t)
  PROVE  LET s == Receiver
             y == queue[1].sock
         IN  /\ state[s] = "ACTIVE" => portconn[s] = y
             /\ t = "FAIL" => y \notin Open /\ \A i \in DOMAIN Tail(queue) : Tail(queue)[i].sock # y
             /\ state[s] # "AWAITING_PASV"
             /\ \A i \in DOMAIN Tail(queue) : Verdict(Tail(queue)[i]) => Tail(queue)[i].sock # y
<1> DEFINE s == Receiver
           y == queue[1].sock
<1>1. /\ TypeInv /\ SessionInv /\ QueueInv(queue) /\ 1 \in DOMAIN queue /\ queue[1].type = t
      /\ queue[1].to = s /\ s \in Sessions /\ Logins(queue)
      /\ \A i \in DOMAIN Tail(queue) : /\ i + 1 \in DOMAIN queue /\ i + 1 # 1 /\ ~(1 > i + 1)
                                       /\ Tail(queue)[i] = queue[i + 1]
  BY Handling DEF SafeInv
<1>2. Verdict(queue[1])
  BY <1>1 DEF Verdict
<1> HIDE DEF s, y
<1>3. /\ \/ state[s] = "ACTIVE" /\ portconn[s] = y
         \/ \E j \in DOMAIN queue : queue[j] = Login(s[1])
      /\ \A j \in DOMAIN queue : 1 # j /\ queue[j].sock = y => t = "CONNECTED" /\ j > 1
      /\ t = "FAIL" => y \notin Open
  BY <1>1, <1>2 DEF QueueInv, Verdicts, y
<1>4. (state[s] = "ACTIVE" /\ portconn[s] = y) \/ state[s] = "INACTIVE"
  <2>1. s[1] \in Owners
    BY <1>1, SessionPairs
  <2>2. (\E j \in DOMAIN queue : queue[j] = Login(s[1])) => control[s[1]] = "down"
    BY <1>1, <2>1 DEF Logins
  <2> QED BY <1>1, <1>3, <2>2 DEF SessionInv, Idling
<1>5. t = "FAIL" => \A i \in DOMAIN Tail(queue) : Tail(queue)[i].sock # y
  BY <1>1, <1>3
<1>6. ASSUME NEW i \in DOMAIN Tail(queue), Verdict(Tail(queue)[i]), Tail(queue)[i].sock = y PROVE FALSE
  <2>1. i + 1 \in DOMAIN queue /\ Verdict(queue[i + 1]) /\ queue[1].sock = queue[i + 1].sock /\ i + 1 # 1
    BY <1>1, <1>6 DEF y
  <2>2. 1 > i + 1
    BY <1>1, <2>1 DEF QueueInv, Verdicts
  <2> QED BY <1>1, <2>2
<1> QED BY <1>3, <1>4, <1>5, <1>6 DEF s, y

LEMMA HandleFailSafe ==
  ASSUME SafeInv, HandleFail
  PROVE  SafeInv'
<1> PICK q : q = Tail(queue) OBVIOUS
<1> DEFINE s == Receiver
           D == {pasvconn[s]}
<1>1. /\ TypeInv /\ SessionInv /\ QueueInv(q) /\ Proper(q) /\ queue # <<>> /\ Head(queue).type = "FAIL"
      /\ s \in Sessions /\ \A i \in DOMAIN q : q[i].to \in Sessions
  BY Handling DEF HandleFail, At
<1>2. /\ state[s] = "ACTIVE" => portconn[s] = queue[1].sock
      /\ queue[1].sock \notin Open /\ \A i \in DOMAIN q : q[i].sock # queue[1].sock
      /\ state[s] # "AWAITING_PASV"
  BY VerdictHolds DEF HandleFail
<1>3. /\ state' = [state EXCEPT ![s] = "INACTIVE"] /\ queue' = q
      /\ pasvconn' = [pasvconn EXCEPT ![s] = NoSock]
      /\ UNCHANGED <<made, listenport, pasvlistener, portconn, ports, control, activating, batch>>
  BY DEF HandleFail, Handled, io
<1>4. TypeInv' /\ Shut(D) /\ Tame
  BY <1>1, HandleTypeInv, EndEffects DEF Handle
<1>5. SessionsOK /\ NoSock \notin Open
  BY <1>1, TypeParts DEF TypeInv, Open
<1>6. state[s] # "ACTIVE" => pasvconn[s] \notin Open /\ portconn[s] \notin Open
  BY <1>1 DEF SessionInv, Pairs
<1>7. portconn[s] \notin Open
  BY <1>2, <1>6
<1>8. \A i \in DOMAIN q : q[i].type = "PORTCLOSED" /\ q[i].to = s => portconn[s] # q[i].sock
  <2>1. state[s] # "ACTIVE" => \A i \in DOMAIN q : q[i].type = "PORTCLOSED" /\ q[i].to = s => portconn[s] # q[i].sock
    BY <1>1 DEF QueueInv, Ends, Ending
  <2> QED BY <1>2, <2>1
<1>9. \A i \in DOMAIN q : q[i].type = "PASVCLOSED" => q[i].sock # NoSock
  BY <1>1 DEF Proper
<1> HIDE DEF s
<1>10. pasvconn'[s] = NoSock /\ \A t \in Sessions : t # s => pasvconn'[t] = pasvconn[t]
  BY <1>1, <1>3, <1>5 DEF SessionsOK
<1>11. Finishes(q, s, D)
  BY <1>2, <1>3, <1>4, <1>5, <1>7, <1>8, <1>9, <1>10 DEF Finishes, Verdict
<1>13. SessionInv' /\ QueueInv(q)'
  BY <1>1, <1>11, FinishKeeps
<1>12. \A x \in Open' : socketinfomap'[x].er = <<>> => x \in Open /\ Er(x) = <<>>
  BY <1>4 DEF Tame, TameBut
<1> QED BY <1>1, <1>3, <1>4, <1>13, <1>12, HandledSafe

\* The message about the end of a session's own connection.
LEMMA EndHolds ==
  ASSUME SafeInv, NEW t \in {"PASVCLOSED", "PORTCLOSED"}, At(t)
  PROVE  LET s == Receiver
             y == queue[1].sock
         IN  /\ y \in SockIds /\ y \notin Open
             /\ t = "PASVCLOSED" /\ pasvconn[s] = y => state[s] = "ACTIVE"
             /\ t = "PORTCLOSED" /\ portconn[s] = y => state[s] = "ACTIVE"
             /\ \A i \in DOMAIN Tail(queue) :
                  /\ Ending(Tail(queue)[i]) => Tail(queue)[i].sock # y
                  /\ Verdict(Tail(queue)[i]) => Tail(queue)[i].sock # y
<1> DEFINE s == Receiver
           y == queue[1].sock
<1>1. /\ QueueInv(queue) /\ Proper(queue) /\ 1 \in DOMAIN queue /\ queue[1].type = t
      /\ queue[1].to = s
      /\ \A i \in DOMAIN Tail(queue) : /\ i + 1 \in DOMAIN queue /\ i + 1 # 1 /\ ~(1 > i + 1)
                                       /\ Tail(queue)[i] = queue[i + 1]
  BY Handling DEF SafeInv
<1>2. Ending(queue[1])
  BY <1>1 DEF Ending
<1>3. /\ y \notin Open /\ y \in SockIds
      /\ t = "PASVCLOSED" /\ pasvconn[s] = y => state[s] = "ACTIVE"
      /\ t = "PORTCLOSED" /\ portconn[s] = y => state[s] = "ACTIVE"
      /\ \A j \in DOMAIN queue : Ending(queue[j]) /\ queue[j].sock = y => j = 1
  BY <1>1, <1>2 DEF QueueInv, Ends, Proper
<1>4. \A j \in DOMAIN queue : Verdict(queue[j]) /\ j # 1 /\ queue[j].sock = y => 1 > j
  BY <1>1 DEF QueueInv, Verdicts
<1> HIDE DEF s, y
<1> QED BY <1>1, <1>3, <1>4 DEF s, y

LEMMA HandlePasvClosedSafe ==
  ASSUME SafeInv, HandlePasvClosed
  PROVE  SafeInv'
<1> PICK q : q = Tail(queue) OBVIOUS
<1> DEFINE s == Receiver
           y == queue[1].sock
           D == {portconn[s]}
<1>1. /\ TypeInv /\ SessionInv /\ QueueInv(q) /\ Proper(q) /\ queue # <<>> /\ Head(queue).type = "PASVCLOSED"
      /\ s \in Sessions /\ \A i \in DOMAIN q : q[i].to \in Sessions
      /\ Head(queue) = queue[1]
  BY Handling DEF HandlePasvClosed, At
<1>2. /\ y \in SockIds /\ y \notin Open
      /\ pasvconn[s] = y => state[s] = "ACTIVE"
      /\ \A i \in DOMAIN q : Ending(q[i]) => q[i].sock # y
  BY EndHolds DEF HandlePasvClosed
<1>3. /\ queue' = q
      /\ UNCHANGED <<made, listenport, pasvlistener, pasvconn, ports, control, activating, batch>>
  BY DEF HandlePasvClosed, Handled, io
<1>4. TypeInv' /\ Tame /\ (pasvconn[s] = y => Shut(D))
  BY <1>1, HandleTypeInv, EndEffects DEF Handle
<1>5. SessionsOK /\ NoSock \notin Open
  BY <1>1, TypeParts DEF TypeInv, Open
<1>6. \A x \in Open' : socketinfomap'[x].er = <<>> => x \in Open /\ Er(x) = <<>>
  BY <1>4 DEF Tame, TameBut
<1>7. CASE pasvconn[s] = y
  <2>1. /\ state' = [state EXCEPT ![s] = "INACTIVE"]
        /\ portconn' = [portconn EXCEPT ![s] = NoSock]
    BY <1>1, <1>7 DEF HandlePasvClosed, Finished
  <2>2. pasvconn[s] \notin Open
    BY <1>2, <1>7
  <2>3. \A i \in DOMAIN q : Verdict(q[i]) /\ q[i].to = s => q[i].sock # portconn[s]
    BY <1>1, <1>2, <1>7, <2>2 DEF QueueInv, Pending
  <2>4. portconn[s] \in Open => Type(portconn[s]) # "TCP_CONNECTING"
    BY <1>1, <1>2, <1>7, <2>2 DEF QueueInv, Pending
  <2>5. \A i \in DOMAIN q : /\ q[i].type = "PASVCLOSED" => pasvconn[s] # q[i].sock
                            /\ q[i].type = "PORTCLOSED" => NoSock # q[i].sock
    BY <1>1, <1>2, <1>7 DEF Ending, Proper
  <2> HIDE DEF s, y
  <2>6. portconn'[s] = NoSock /\ \A t \in Sessions : t # s => portconn'[t] = portconn[t]
    BY <1>1, <1>5, <2>1 DEF SessionsOK
  <2>8. Finishes(q, s, D)
    BY <1>2, <1>3, <1>4, <1>5, <1>7, <2>1, <2>2, <2>3, <2>4, <2>5, <2>6 DEF Finishes
  <2>7. SessionInv' /\ QueueInv(q)'
    BY <1>1, <2>8, FinishKeeps
  <2> QED BY <1>1, <1>3, <1>4, <1>6, <2>7, HandledSafe
<1>8. CASE pasvconn[s] # y
  <2>1. Apart /\ Served
    BY <1>1, <1>3, <1>8 DEF Apart, Served, HandlePasvClosed, conns
  <2>2. SessionInv' /\ QueueInv(q)'
    BY <1>1, <2>1, ApartKeeps, ServedKeeps DEF SessionInv
  <2> QED BY <1>1, <1>3, <1>4, <1>6, <2>2, HandledSafe
<1> QED BY <1>7, <1>8

LEMMA HandlePortClosedSafe ==
  ASSUME SafeInv, HandlePortClosed
  PROVE  SafeInv'
<1> PICK q : q = Tail(queue) OBVIOUS
<1> DEFINE s == Receiver
           y == queue[1].sock
           D == {pasvconn[s]}
<1>1. /\ TypeInv /\ SessionInv /\ QueueInv(q) /\ Proper(q) /\ queue # <<>> /\ Head(queue).type = "PORTCLOSED"
      /\ s \in Sessions /\ \A i \in DOMAIN q : q[i].to \in Sessions
      /\ Head(queue) = queue[1]
  BY Handling DEF HandlePortClosed, At
<1>2. /\ y \in SockIds /\ y \notin Open
      /\ portconn[s] = y => state[s] = "ACTIVE"
      /\ \A i \in DOMAIN q : Ending(q[i]) \/ Verdict(q[i]) => q[i].sock # y
  BY EndHolds DEF HandlePortClosed
<1>3. /\ queue' = q
      /\ UNCHANGED <<made, listenport, pasvlistener, ports, control, activating, batch>>
  BY DEF HandlePortClosed, Handled, io
<1>4. TypeInv' /\ Tame /\ (portconn[s] = y => Shut(D))
  BY <1>1, HandleTypeInv, EndEffects DEF Handle
<1>5. SessionsOK /\ NoSock \notin Open
  BY <1>1, TypeParts DEF TypeInv, Open
<1>6. \A x \in Open' : socketinfomap'[x].er = <<>> => x \in Open /\ Er(x) = <<>>
  BY <1>4 DEF Tame, TameBut
<1>7. CASE portconn[s] = y
  <2>1. /\ state' = [state EXCEPT ![s] = "INACTIVE"]
        /\ portconn' = [portconn EXCEPT ![s] = NoSock]
        /\ pasvconn' = [pasvconn EXCEPT ![s] = NoSock]
    BY <1>1, <1>7 DEF HandlePortClosed, Finished
  <2>2. portconn[s] \notin Open
    BY <1>2, <1>7
  <2>3. \A i \in DOMAIN q : Verdict(q[i]) /\ q[i].to = s => q[i].sock # portconn[s]
    BY <1>2, <1>7
  <2>4. \A i \in DOMAIN q : Ending(q[i]) => NoSock # q[i].sock
    BY <1>1 DEF Ending, Proper
  <2> HIDE DEF s, y
  <2>5. /\ portconn'[s] = NoSock /\ pasvconn'[s] = NoSock
        /\ \A t \in Sessions : t # s => portconn'[t] = portconn[t] /\ pasvconn'[t] = pasvconn[t]
    BY <1>1, <1>5, <2>1 DEF SessionsOK
  <2>7. Finishes(q, s, D)
    BY <1>2, <1>3, <1>4, <1>5, <1>7, <2>1, <2>2, <2>3, <2>4, <2>5 DEF Finishes, Ending
  <2>6. SessionInv' /\ QueueInv(q)'
    BY <1>1, <2>7, FinishKeeps
  <2> QED BY <1>1, <1>3, <1>4, <1>6, <2>6, HandledSafe
<1>8. CASE portconn[s] # y
  <2>1. Apart /\ Served
    BY <1>1, <1>3, <1>8 DEF Apart, Served, HandlePortClosed, conns
  <2>2. SessionInv' /\ QueueInv(q)'
    BY <1>1, <2>1, ApartKeeps, ServedKeeps DEF SessionInv
  <2> QED BY <1>1, <1>3, <1>4, <1>6, <2>2, HandledSafe
<1> QED BY <1>7, <1>8

\* A session's connection is polled from now on, and may have data to send:
\* how connecting its other one ended is known.
Touches(q, x) ==
    /\ Served /\ Open' = Open
    /\ Type(x) \notin {"TCP_SERVER", "TCP_CONNECTING"}
    /\ \A y \in SockIds : y # x => socketinfomap'[y] = socketinfomap[y]
    /\ socketinfomap'[x].type = Type(x) /\ socketinfomap'[x].er = Er(x)
    /\ socketinfomap'[x].closing = socketinfomap[x].closing
    /\ socketinfomap'[x].twin = socketinfomap[x].twin
    /\ socketinfomap[x].unsent => socketinfomap'[x].unsent
    /\ socketinfomap'[x].polled
    /\ \A s \in Sessions : state[s] = "ACTIVE" /\ pasvconn[s] = x =>
         /\ portconn[s] \in Open => Type(portconn[s]) # "TCP_CONNECTING"
         /\ \A i \in DOMAIN q : ~ (Verdict(q[i]) /\ q[i].sock = portconn[s])

LEMMA TouchKeeps ==
  ASSUME TypeInv, SessionInv, NEW q, QueueInv(q), NEW x \in Open, Touches(q, x)
  PROVE  SessionInv' /\ QueueInv(q)'
<1>0. Named /\ Open \subseteq SockIds /\ TypeOK
  BY TypeParts DEF TypeInv, Open
<1>1. /\ UNCHANGED <<state, listenport, pasvlistener, pasvconn, portconn>> /\ Awaiting' = Awaiting
      /\ batch' \subseteq batch /\ Idling' /\ PortsInv'
  BY ServedKeeps DEF Touches, Served, conns, SessionInv
<1>2. \A y \in SockIds :
        /\ Type(y)' = Type(y) /\ Er(y)' = Er(y) /\ Connected(y)' = Connected(y)
        /\ y # x => socketinfomap'[y] = socketinfomap[y]
        /\ socketinfomap'[y].twin = socketinfomap[y].twin
        /\ socketinfomap'[y].closing = socketinfomap[y].closing
        /\ socketinfomap[y].unsent => socketinfomap'[y].unsent
  BY DEF Touches, Type, Er, Connected
<1>3. \A y \in SockIds : Attached(y)' = Attached(y)
  BY <1>1, <1>2 DEF Attached
<1>4. Open' = Open /\ Type(x) # "TCP_SERVER" /\ Type(x) # "TCP_CONNECTING" /\ socketinfomap'[x].polled
  BY DEF Touches
<1>5. Listeners'
  BY <1>0, <1>1, <1>2, <1>4 DEF SessionInv, Listeners
<1>6. Pairs'
  BY <1>0, <1>1, <1>2, <1>4 DEF SessionInv, Pairs
<1>7. Attachments'
  BY <1>0, <1>2, <1>3, <1>4 DEF SessionInv, Attachments
<1>8. Arrivals(q)' /\ DataOK(q)' /\ Verdicts(q)' /\ Ends(q)'
  BY <1>1, <1>4 DEF QueueInv, Arrivals, DataOK, Owned, Verdicts, Ends
<1>9. Unheard(q)'
  BY <1>0, <1>2, <1>4 DEF QueueInv, Unheard
<1>10. Late(q)'
  <2>1. \A b \in batch' : b \in batch /\ b[1] \in SockIds
    BY <1>0, <1>1 DEF TypeOK
  <2> QED BY <1>1, <1>2, <1>3, <2>1 DEF QueueInv, Late
<1>11. Pending(q)'
  <2> SUFFICES ASSUME NEW s \in Sessions, state[s] = "ACTIVE",
                      \/ portconn[s] \in Open /\ Type(portconn[s]) = "TCP_CONNECTING"
                      \/ \E i \in DOMAIN q : Verdict(q[i]) /\ q[i].sock = portconn[s]
               PROVE  pasvconn[s] \in Open /\ ~socketinfomap'[pasvconn[s]].polled
    BY <1>0, <1>1, <1>2, <1>4 DEF Pending
  <2>1. pasvconn[s] \in Open /\ ~socketinfomap[pasvconn[s]].polled
    BY DEF QueueInv, Pending
  <2>2. pasvconn[s] # x
    BY DEF Touches
  <2> QED BY <1>0, <1>2, <2>1, <2>2
<1> QED BY <1>1, <1>5, <1>6, <1>7, <1>8, <1>9, <1>10, <1>11 DEF SessionInv, QueueInv

LEMMA HandleConnectedSafe ==
  ASSUME SafeInv, HandleConnected
  PROVE  SafeInv'
<1> PICK q : q = Tail(queue) OBVIOUS
<1> DEFINE s == Receiver
           x == pasvconn[s]
           y == queue[1].sock
<1>1. /\ TypeInv /\ SessionInv /\ QueueInv(q) /\ QueueInv(queue) /\ queue # <<>>
      /\ Head(queue).type = "CONNECTED" /\ s \in Sessions /\ 1 \in DOMAIN queue
  BY Handling DEF HandleConnected, At
<1>2. /\ state[s] = "ACTIVE" => portconn[s] = y
      /\ \A i \in DOMAIN q : Verdict(q[i]) => q[i].sock # y
  BY VerdictHolds DEF HandleConnected
<1>3. Named /\ Open \subseteq SockIds
  BY <1>1 DEF TypeInv, Open
<1>4. queue' = q /\ UNCHANGED control /\ Served
  BY DEF HandleConnected, Handled, io, Served
<1>5. /\ TypeInv' /\ Tame
      /\ \A z \in SockIds : z \in Open' <=> z \in Open
      /\ \A z \in SockIds : z # x \/ x \notin Open => socketinfomap'[z] = socketinfomap[z]
      /\ x \in Open =>
           /\ socketinfomap'[x].type = Type(x) /\ socketinfomap'[x].er = Er(x)
           /\ socketinfomap'[x].unsent = socketinfomap[x].unsent
           /\ socketinfomap'[x].closing = socketinfomap[x].closing
           /\ socketinfomap'[x].twin = socketinfomap[x].twin
           /\ socketinfomap'[x].polled
  BY <1>1, HandleTypeInv, ResumeEffect DEF Handle
<1>6. Open' = Open
  BY <1>5 DEF Open
<1>7. \A z \in Open' : socketinfomap'[z].er = <<>> => z \in Open /\ Er(z) = <<>>
  BY <1>5 DEF Tame, TameBut
<1>8. CASE x \in Open
  <2>1. state[s] = "ACTIVE" /\ portconn[s] = y /\ Type(x) = "TCP_PLAIN_LISTEN" /\ Er(x) = s
    BY <1>1, <1>2, <1>3, <1>8 DEF SessionInv, Pairs, Named
  <2>2. y \in Open => Type(y) # "TCP_CONNECTING"
    BY <1>1 DEF QueueInv, Unheard
  <2>3. \A t \in Sessions : pasvconn[t] = x => t = s
    BY <1>3, <1>8, <2>1 DEF Named
  <2> HIDE DEF s, x, y
  <2>4. Touches(q, x)
    BY <1>2, <1>4, <1>5, <1>6, <1>8, <2>1, <2>2, <2>3 DEF Touches
  <2>5. SessionInv' /\ QueueInv(q)'
    BY <1>1, <1>8, <2>4, TouchKeeps
  <2> QED BY <1>1, <1>4, <1>5, <1>7, <2>5, HandledSafe
<1>9. CASE x \notin Open
  <2>1. UNCHANGED socketinfomap
    BY <1>9 DEF HandleConnected
  <2>2. Apart
    BY <1>4, <2>1 DEF Apart, Served, conns
  <2>3. SessionInv' /\ QueueInv(q)'
    BY <1>1, <1>4, <2>2, ApartKeeps, ServedKeeps DEF SessionInv
  <2> QED BY <1>1, <1>4, <1>5, <1>7, <2>3, HandledSafe
<1> QED BY <1>8, <1>9

\* Where the first message of the queue brings data from: the other connection.
LEMMA DataHolds ==
  ASSUME SafeInv, NEW t \in {"PASVDATA", "PORTDATA"}, At(t), Destination \in Open
  PROVE  LET s == Receiver
         IN  /\ state[s] = "ACTIVE"
             /\ queue[1].sock = IF t = "PASVDATA" THEN pasvconn[s] ELSE portconn[s]
             /\ Destination = IF t = "PASVDATA" THEN portconn[s] ELSE pasvconn[s]
             /\ socketinfomap[Destination].twin = Head(queue).sock
<1> DEFINE s == Receiver
<1>1. /\ TypeInv /\ SessionInv /\ QueueInv(queue) /\ 1 \in DOMAIN queue /\ queue[1].type = t
      /\ queue[1].to = s /\ s \in Sessions /\ Head(queue) = queue[1]
  BY Handling DEF SafeInv
<1>2. Destination = IF t = "PASVDATA" THEN portconn[s] ELSE pasvconn[s]
  BY <1>1 DEF Destination
<1>3. state[s] = "ACTIVE"
  BY <1>1, <1>2 DEF SessionInv, Pairs
<1>4. queue[1].sock = IF t = "PASVDATA" THEN pasvconn[s] ELSE portconn[s]
  BY <1>1, <1>3 DEF QueueInv, DataOK, Bytes, Owned
<1>5. socketinfomap[Destination].twin = queue[1].sock
  BY <1>1, <1>2, <1>4 DEF SessionInv, Pairs
<1> QED BY <1>1, <1>2, <1>3, <1>4, <1>5

LEMMA HandleDataSafe ==
  ASSUME SafeInv, HandleData
  PROVE  SafeInv'
<1> PICK q : q = Tail(queue) OBVIOUS
<1> DEFINE s == Receiver
           x == Destination
           y == queue[1].sock
<1> PICK t \in {"PASVDATA", "PORTDATA"} : At(t)
  BY DEF HandleData
<1>1. /\ TypeInv /\ SessionInv /\ QueueInv(q) /\ QueueInv(queue) /\ queue # <<>>
      /\ Head(queue).type = t /\ s \in Sessions /\ 1 \in DOMAIN queue
      /\ \A i \in DOMAIN q : /\ i + 1 \in DOMAIN queue /\ i + 1 # 1 /\ ~(1 > i + 1)
                             /\ q[i] = queue[i + 1]
  BY Handling DEF At
<1>3. Named /\ Open \subseteq SockIds
  BY <1>1 DEF TypeInv, Open
<1>4. queue' = q /\ UNCHANGED control /\ Served
  BY DEF HandleData, Handled, io, Served
<1>5. /\ TypeInv' /\ Tame
      /\ \A z \in SockIds : z \in Open' <=> z \in Open
      /\ \A z \in SockIds : z # x \/ x \notin Open => socketinfomap'[z] = socketinfomap[z]
      /\ x \in Open =>
           /\ socketinfomap'[x].type = Type(x) /\ socketinfomap'[x].er = Er(x)
           /\ socketinfomap'[x].unsent
           /\ socketinfomap'[x].closing = socketinfomap[x].closing
           /\ socketinfomap'[x].twin = socketinfomap[x].twin
           /\ socketinfomap'[x].polled
  BY <1>1, HandleTypeInv, SendEffect DEF Handle
<1>6. Open' = Open
  BY <1>5 DEF Open
<1>7. \A z \in Open' : socketinfomap'[z].er = <<>> => z \in Open /\ Er(z) = <<>>
  BY <1>5 DEF Tame, TameBut
<1>8. CASE x \in Open
  <2>1. /\ state[s] = "ACTIVE" /\ y = IF t = "PASVDATA" THEN pasvconn[s] ELSE portconn[s]
        /\ x = IF t = "PASVDATA" THEN portconn[s] ELSE pasvconn[s]
    BY <1>8, DataHolds
  <2>2. \A z \in Open : Type(z) = "TCP_CONNECTING" \/ ~socketinfomap[z].polled => y # z
    BY <1>1 DEF QueueInv, Unheard
  <2>3. \A i \in DOMAIN q : Verdict(q[i]) => q[i].sock # y
    <3>1. \A j \in DOMAIN queue : Verdict(queue[j]) /\ j # 1 /\ queue[j].sock = y => 1 > j
      BY <1>1 DEF QueueInv, Verdicts
    <3> QED BY <1>1, <3>1
  <2> HIDE DEF s, x, y
  <2>4. CASE t = "PASVDATA"
    <3>1. Type(x) # "TCP_CONNECTING"
      BY <1>1, <1>8, <2>1, <2>2, <2>4 DEF QueueInv, Pending
    <3>2. Type(x) = "TCP_PLAIN"
      BY <1>1, <1>3, <1>8, <2>1, <2>4, <3>1 DEF Named
    <3>3. \A u \in Sessions : pasvconn[u] # x
      BY <1>3, <1>8, <3>2 DEF Named
    <3>4. Touches(q, x)
      BY <1>4, <1>5, <1>6, <1>8, <3>2, <3>3 DEF Touches
    <3>5. SessionInv' /\ QueueInv(q)'
      BY <1>1, <1>8, <3>4, TouchKeeps
    <3> QED BY <1>1, <1>4, <1>5, <1>7, <3>5, HandledSafe
  <2>5. CASE t = "PORTDATA"
    <3>1. Type(x) = "TCP_PLAIN_LISTEN" /\ Er(x) = s
      BY <1>1, <1>3, <1>8, <2>1, <2>5 DEF Named
    <3>2. \A u \in Sessions : pasvconn[u] = x => u = s
      BY <1>3, <1>8, <3>1 DEF Named
    <3>3. Touches(q, x)
      BY <1>4, <1>5, <1>6, <1>8, <2>1, <2>2, <2>3, <2>5, <3>1, <3>2 DEF Touches
    <3>4. SessionInv' /\ QueueInv(q)'
      BY <1>1, <1>8, <3>3, TouchKeeps
    <3> QED BY <1>1, <1>4, <1>5, <1>7, <3>4, HandledSafe
  <2> QED BY <2>4, <2>5
<1>9. CASE x \notin Open
  <2>1. UNCHANGED socketinfomap
    BY <1>9 DEF HandleData, Send
  <2>2. Apart
    BY <1>4, <2>1 DEF Apart, Served, conns
  <2>3. SessionInv' /\ QueueInv(q)'
    BY <1>1, <1>4, <2>2, ApartKeeps, ServedKeeps DEF SessionInv
  <2> QED BY <1>1, <1>4, <1>5, <1>7, <2>3, HandledSafe
<1> QED BY <1>8, <1>9

\* A session gets its connection: the listener is closed, and nothing in the
\* queue is left from an earlier transfer of that session.
LEMMA NewQueueParts ==
  ASSUME SafeInv, HandleNew, NEW q, q = queue', NEW s, s = Receiver, NEW f, f = Fresh
  PROVE  /\ \A i \in DOMAIN q :
              \/ i + 1 \in DOMAIN queue /\ i + 1 # 1 /\ ~(i + 1 < 1) /\ q[i] = queue[i + 1]
              \/ /\ q[i].type = "FAIL" /\ q[i].sock = f /\ f \notin Open' /\ q[i].to = s
                 /\ \A j \in DOMAIN q : i = j \/ (j + 1 \in DOMAIN queue /\ q[j] = queue[j + 1])
         /\ \A j \in DOMAIN queue : j = 1 \/ (j - 1 \in DOMAIN q /\ q[j - 1] = queue[j])
         /\ \A i \in DOMAIN q, j \in DOMAIN q : (i + 1 = j + 1 => i = j) /\ (i + 1 < j + 1 => i < j)
         /\ \A i \in DOMAIN q, j \in DOMAIN queue : j > i + 1 => j # 1 /\ j - 1 > i
         /\ \A i \in DOMAIN q, j \in DOMAIN q : j + 1 > i + 1 => j > i
<1>1. TypeInv /\ Proper(queue) /\ Places = DOMAIN queue
  BY QueueProper DEF SafeInv
<1>2. /\ \A i \in DOMAIN q : i \in Nat \ {0} /\
           \/ i + 1 \in DOMAIN queue /\ q[i] = queue[i + 1]
           \/ /\ q[i].type = "FAIL" /\ q[i].sock = f /\ f \notin Open'
              /\ q[i].to = s
              /\ \A j \in DOMAIN q : i = j \/ (i > j /\ j + 1 \in DOMAIN queue /\ q[j] = queue[j + 1])
      /\ \A i \in DOMAIN queue : i # 1 => i - 1 \in DOMAIN q /\ q[i - 1] = queue[i]
  BY <1>1, NewQueue DEF Places
<1>3. \A j \in DOMAIN queue : j \in Nat \ {0}
  BY <1>1 DEF Proper
<1>4. \A i \in DOMAIN q : i \in Nat \ {0}
  BY <1>2
<1>5. /\ \A i \in DOMAIN q : i + 1 # 1 /\ ~(i + 1 < 1)
      /\ \A i \in DOMAIN q, j \in DOMAIN q : (i + 1 = j + 1 => i = j) /\ (i + 1 < j + 1 => i < j)
      /\ \A i \in DOMAIN q, j \in DOMAIN queue : j > i + 1 => j # 1 /\ j - 1 > i
      /\ \A i \in DOMAIN q, j \in DOMAIN q : j + 1 > i + 1 => j > i
  BY <1>3, <1>4
<1> QED BY <1>2, <1>5

LEMMA HandleNewSafe ==
  ASSUME SafeInv, HandleNew
  PROVE  SafeInv'
<1> PICK q : q = queue' OBVIOUS
<1> PICK s : s = Receiver OBVIOUS
<1> PICK p : p = Head(queue).new OBVIOUS
<1> PICK f : f = Fresh OBVIOUS
<1> PICK L : L = pasvlistener[s] OBVIOUS
<1>1. /\ TypeInv /\ SessionInv /\ QueueInv(queue) /\ Proper(queue) /\ Logins(queue) /\ Unattended(queue)
      /\ Places = DOMAIN queue
  BY QueueProper DEF SafeInv
<1>2. TypeInv' /\ TypeOK /\ SocketsOK /\ SessionsOK /\ Named /\ Receivers /\ BatchPolled /\ Open \subseteq SockIds
  BY <1>1, HandleTypeInv, TypeParts DEF TypeInv, Handle, Open
<1>3. /\ s \in Sessions /\ p \in Open /\ Er(p) = <<>> /\ 1 \in DOMAIN queue
      /\ queue[1].type = "NEW" /\ queue[1].to = s /\ queue[1].sock \in SockIds /\ queue[1].new = p
      /\ f \in SockIds /\ f \notin Open /\ f # p
      /\ \A t \in Sessions : pasvlistener[t] # f /\ pasvconn[t] # f /\ portconn[t] # f
      /\ \A i \in DOMAIN queue : queue[i].sock # f
      /\ \A b \in batch : b[1] # f
      /\ p # L /\ f # L
  BY <1>1, NewStep
<1>4. /\ state' = [state EXCEPT ![s] = "ACTIVE"]
      /\ pasvconn' = [pasvconn EXCEPT ![s] = p]
      /\ portconn' = [portconn EXCEPT ![s] = f]
      /\ pasvlistener' = [pasvlistener EXCEPT ![s] = NoSock]
      /\ Release({listenport[s]})
      /\ UNCHANGED <<made, listenport, control, activating, batch>>
      /\ activating = <<>>
  BY <1>1, NewStep DEF HandleNew, At, Idle
<1>5. s \in Awaiting /\ queue[1].sock = L /\ \A j \in DOMAIN queue : queue[j].type = "NEW" /\ queue[j].to = s => j = 1
  BY <1>1, <1>3 DEF QueueInv, Arrivals
<1>6. L \in Open /\ Type(L) = "TCP_SERVER" /\ Er(L) = s /\ ~socketinfomap[L].unsent /\ listenport[s] \in Ports
  BY <1>1, <1>2, <1>3, <1>5 DEF SessionInv, Listeners, Named
<1>7. \A x \in SockIds : x # p /\ x # f =>
        /\ x \in Open' <=> x \in Open /\ x # L
        /\ x # L => socketinfomap'[x] = socketinfomap[x]
  BY <1>1, <1>6, NewStep
<1>8. /\ p \in Open' /\ Type(p)' = "TCP_PLAIN_LISTEN" /\ Er(p)' = s
      /\ ~socketinfomap'[p].polled /\ ~socketinfomap'[p].unsent /\ ~socketinfomap'[p].closing
      /\ socketinfomap'[p].twin = f
      /\ f \in Open' => /\ Type(f)' = "TCP_CONNECTING" /\ Er(f)' = s
                        /\ ~socketinfomap'[f].unsent /\ ~socketinfomap'[f].closing
                        /\ socketinfomap'[f].twin = p
  BY <1>1, NewStep DEF Type, Er
<1>9. \A x \in Open' : x = p \/ x = f \/
        /\ x \in Open /\ x # L /\ x # p /\ x # f /\ socketinfomap'[x] = socketinfomap[x]
        /\ Type(x)' = Type(x) /\ Er(x)' = Er(x) /\ Connected(x)' = Connected(x)
  <2>1. Open' \subseteq SockIds
    BY DEF Open
  <2> QED BY <1>7, <2>1 DEF Type, Er, Connected
<1>10. \A x \in Open : x # L => x \in Open'
  BY <1>2, <1>3, <1>7, <1>8
<1>11. /\ state[s] = "AWAITING_PASV" /\ pasvconn[s] \notin Open /\ portconn[s] \notin Open
       /\ state'[s] = "ACTIVE" /\ pasvconn'[s] = p /\ portconn'[s] = f
       /\ \A t \in Sessions : t # s => /\ state'[t] = state[t] /\ pasvconn'[t] = pasvconn[t]
                                       /\ portconn'[t] = portconn[t] /\ pasvlistener'[t] = pasvlistener[t]
       /\ \A t \in Sessions : t \in Awaiting' <=> t \in Awaiting /\ t # s
       /\ Awaiting' \subseteq Sessions
  BY <1>1, <1>2, <1>3, <1>4, <1>5 DEF SessionInv, Pairs, Awaiting, SessionsOK
<1>12. /\ \A t \in Sessions : pasvlistener[t] # p /\ pasvconn[t] # p /\ portconn[t] # p
       /\ \A t \in Sessions : pasvconn[t] \in Open => pasvconn[t] # L
       /\ \A t \in Sessions : t # s => pasvlistener[t] # L
  BY <1>2, <1>3, <1>6, SessionPairs DEF Named
<1>13. /\ \A i \in DOMAIN q :
            \/ i + 1 \in DOMAIN queue /\ i + 1 # 1 /\ ~(i + 1 < 1) /\ q[i] = queue[i + 1]
            \/ /\ q[i].type = "FAIL" /\ q[i].sock = f /\ f \notin Open' /\ q[i].to = s
               /\ \A j \in DOMAIN q : i = j \/ (j + 1 \in DOMAIN queue /\ q[j] = queue[j + 1])
       /\ \A j \in DOMAIN queue : j = 1 \/ (j - 1 \in DOMAIN q /\ q[j - 1] = queue[j])
       /\ \A i \in DOMAIN q, j \in DOMAIN q : (i + 1 = j + 1 => i = j) /\ (i + 1 < j + 1 => i < j)
       /\ \A i \in DOMAIN q, j \in DOMAIN queue : j > i + 1 => j # 1 /\ j - 1 > i
       /\ \A i \in DOMAIN q, j \in DOMAIN q : j + 1 > i + 1 => j > i
  BY NewQueueParts
<1>14. \A i \in DOMAIN queue : queue[i].sock # p
  BY <1>1, <1>2, <1>3 DEF QueueInv, Unheard, Receivers
<1>15. \A x \in Open : x # L /\ Er(x) \in Sessions /\ Er(x) # s => Attached(x)' = Attached(x)
  BY <1>2, <1>3, <1>7, <1>9, <1>10, <1>11, SessionPairs DEF Attached
<1>16. \A x \in Open : Er(x) = s => ~Attached(x)
  BY <1>11 DEF Attached
<1>17. Idling'
  BY <1>1, <1>3, <1>4, <1>11 DEF SessionInv, Idling
<1>18. Listeners'
  <2>1. ASSUME NEW x \in Open', Type(x)' = "TCP_SERVER"
        PROVE  /\ Er(x)' \in Awaiting' /\ pasvlistener'[Er(x)'] = x
               /\ ~socketinfomap'[x].unsent /\ ~socketinfomap'[x].closing
    <3>1. /\ x \in Open /\ x # L /\ socketinfomap'[x] = socketinfomap[x]
          /\ Type(x) = "TCP_SERVER" /\ Er(x)' = Er(x)
      BY <1>8, <1>9, <2>1
    <3>2. Er(x) \in Awaiting /\ pasvlistener[Er(x)] = x /\ Er(x) \in Sessions
      BY <1>1, <3>1 DEF SessionInv, Listeners, Awaiting
    <3> QED BY <1>1, <1>11, <3>1, <3>2 DEF SessionInv, Listeners
  <2>2. ASSUME NEW t \in Awaiting'
        PROVE  pasvlistener'[t] \in Open' /\ listenport'[t] \in Ports
    BY <1>1, <1>4, <1>10, <1>11, <1>12, <2>2 DEF SessionInv, Listeners
  <2> QED BY <2>1, <2>2 DEF Listeners
<1>19. Pairs'
  <2>1. ASSUME NEW t \in Sessions
        PROVE  /\ pasvconn'[t] \in Open' =>
                    state'[t] = "ACTIVE" /\ socketinfomap'[pasvconn'[t]].twin = portconn'[t]
               /\ portconn'[t] \in Open' =>
                    state'[t] = "ACTIVE" /\ socketinfomap'[portconn'[t]].twin = pasvconn'[t]
    <3>1. CASE t = s
      BY <1>8, <1>11, <3>1
    <3>2. CASE t # s
      BY <1>1, <1>3, <1>9, <1>11, <1>12, <3>2 DEF SessionInv, Pairs
    <3> QED BY <3>1, <3>2
  <2> QED BY <2>1 DEF Pairs
<1>20. Attachments'
  <2>1. ASSUME NEW x \in Open'
        PROVE  /\ Type(x)' = "TCP_CONNECTING" =>
                    Attached(x)' /\ ~socketinfomap'[x].unsent /\ ~socketinfomap'[x].closing
               /\ Connected(x)' /\ Er(x)' # <<>> => socketinfomap'[x].closing \/ Attached(x)'
               /\ socketinfomap'[x].closing => socketinfomap'[x].unsent
    <3>1. CASE x = p
      BY <1>8, <1>11, <3>1 DEF Attached
    <3>2. CASE x = f
      BY <1>8, <1>11, <2>1, <3>2 DEF Attached
    <3>3. CASE x # p /\ x # f
      <4>1. /\ x \in Open /\ x # L /\ socketinfomap'[x] = socketinfomap[x]
            /\ Type(x)' = Type(x) /\ Er(x)' = Er(x) /\ Connected(x)' = Connected(x)
        BY <1>9, <2>1, <3>3
      <4>2. /\ Type(x) = "TCP_CONNECTING" =>
                 Attached(x) /\ ~socketinfomap[x].unsent /\ ~socketinfomap[x].closing
            /\ Connected(x) /\ Er(x) # <<>> => socketinfomap[x].closing \/ Attached(x)
            /\ socketinfomap[x].closing => socketinfomap[x].unsent
        BY <1>1, <4>1 DEF SessionInv, Attachments
      <4>3. Er(x) \in Sessions \cup {<<>>} /\ (Type(x) = "TCP_CONNECTING" => Er(x) # <<>>)
        BY <1>2, <4>1 DEF SocketsOK, SocketRecords, Er, Receivers
      <4> QED BY <1>15, <1>16, <4>1, <4>2, <4>3
    <3> QED BY <3>1, <3>2, <3>3
  <2> QED BY <2>1 DEF Attachments
<1>21. PortsInv'
  <2> PICK l : l = listenport[s] OBVIOUS
  <2>1. /\ availableports' = availableports \cup {l} /\ unavailableports' = unavailableports \ {l}
        /\ listenport' = listenport
    BY <1>4, <1>6 DEF Release
  <2>2. OneSet /\ NoPortLeak /\ OwnPorts
    BY <1>1 DEF SessionInv, PortsInv
  <2>3. OneSet'
    BY <2>1, <2>2 DEF OneSet
  <2>4. NoPortLeak'
    BY <1>11, <2>1, <2>2 DEF NoPortLeak, Awaiting
  <2>5. OwnPorts'
    BY <1>5, <1>11, <2>1, <2>2 DEF OwnPorts
  <2> QED BY <2>3, <2>4, <2>5 DEF PortsInv
<1>22. Arrivals(q)'
  <2>1. \A i \in DOMAIN q : q[i].type = "NEW" =>
          i + 1 \in DOMAIN queue /\ i + 1 # 1 /\ q[i] = queue[i + 1] /\ q[i].to # s
    BY <1>5, <1>13
  <2> QED BY <1>1, <1>11, <1>13, <2>1 DEF QueueInv, Arrivals, Awaiting
<1>23. Unheard(q)'
  <2>1. ASSUME NEW x \in Open', Type(x)' = "TCP_CONNECTING" \/ ~socketinfomap'[x].polled, NEW i \in DOMAIN q
        PROVE  q[i].sock # x
    <3>1. CASE x = p
      BY <1>3, <1>13, <1>14, <3>1
    <3>2. CASE x = f
      BY <1>3, <1>13, <3>2
    <3>3. CASE x # p /\ x # f
      <4>1. x \in Open /\ (Type(x) = "TCP_CONNECTING" \/ ~socketinfomap[x].polled)
        BY <1>9, <2>1, <3>3
      <4> QED BY <1>1, <1>13, <3>3, <4>1 DEF QueueInv, Unheard
    <3> QED BY <3>1, <3>2, <3>3
  <2> QED BY <2>1 DEF Unheard
<1>24. Late(q)'
  <2>1. ASSUME NEW b \in batch
        PROVE  /\ b[1] \in SockIds /\ b[1] # p /\ b[1] # f
               /\ Connected(b[1])' \/ Type(b[1])' = "TCP_SERVER" => b[1] \in Open'
    <3>1. b[1] \in SockIds
      BY <1>2 DEF TypeOK
    <3>2. b[1] # p
      BY <1>2, <1>3 DEF BatchPolled, Receivers
    <3> QED BY <1>3, <3>1, <3>2 DEF Connected, Type, Open
  <2>2. ASSUME NEW b \in batch', b[2] = "IN", Connected(b[1])', ~Attached(b[1])'
        PROVE  /\ state'[Er(b[1])'] # "ACTIVE"
               /\ \A n \in DOMAIN q : ~ (q[n].type = "NEW" /\ q[n].to = Er(b[1])')
               /\ \A g \in batch' : ~ (Type(g[1])' = "TCP_SERVER" /\ Er(g[1])' = Er(b[1])')
    <3>1. /\ b \in batch /\ b[1] \in Open /\ b[1] # L /\ Connected(b[1]) /\ Er(b[1])' = Er(b[1])
          /\ Er(b[1]) \in Sessions
      BY <1>1, <1>4, <1>9, <2>1, <2>2, BatchReceivers
    <3>2. CASE Er(b[1]) = s
      <4>1. ~Attached(b[1])
        BY <1>16, <3>1, <3>2
      <4> QED BY <1>1, <1>3, <2>2, <3>1, <3>2, <4>1 DEF QueueInv, Late
    <3>3. CASE Er(b[1]) # s
      <4>1. ~Attached(b[1])
        BY <1>15, <2>2, <3>1, <3>3
      <4>2. /\ state[Er(b[1])] # "ACTIVE"
            /\ \A n \in DOMAIN queue : ~ (queue[n].type = "NEW" /\ queue[n].to = Er(b[1]))
            /\ \A g \in batch : ~ (Type(g[1]) = "TCP_SERVER" /\ Er(g[1]) = Er(b[1]))
        BY <1>1, <2>2, <3>1, <4>1 DEF QueueInv, Late
      <4>3. ASSUME NEW g \in batch', Type(g[1])' = "TCP_SERVER"
            PROVE  Er(g[1])' # Er(b[1])
        <5>1. g \in batch /\ g[1] \in Open' /\ g[1] # p /\ g[1] # f
          BY <1>4, <2>1, <4>3
        <5>2. Type(g[1]) = "TCP_SERVER" /\ Er(g[1])' = Er(g[1])
          BY <1>9, <4>3, <5>1
        <5> QED BY <4>2, <5>1, <5>2
      <4> QED BY <1>11, <1>13, <3>1, <3>3, <4>2, <4>3
    <3> QED BY <3>2, <3>3
  <2> QED BY <2>2 DEF Late
<1>25. \A i \in DOMAIN queue : queue[i].to \in Sessions
  BY <1>1, MessageTypes DEF Proper
<1>26. Verdicts(q)'
  <2>1. ASSUME NEW i \in DOMAIN q, Verdict(q[i])
        PROVE  /\ \/ state'[q[i].to] = "ACTIVE" /\ portconn'[q[i].to] = q[i].sock
                  \/ \E j \in DOMAIN q : j > i /\ q[j] = Login(q[i].to[1])
               /\ \A j \in DOMAIN q : i # j /\ q[j].sock = q[i].sock => q[i].type = "CONNECTED" /\ j > i
               /\ q[i].type = "FAIL" => q[i].sock \notin Open'
    <3>1. CASE i + 1 \in DOMAIN queue /\ q[i] = queue[i + 1]
      <4>1. /\ \/ state[q[i].to] = "ACTIVE" /\ portconn[q[i].to] = q[i].sock
               \/ \E j \in DOMAIN queue : j > i + 1 /\ queue[j] = Login(q[i].to[1])
            /\ \A j \in DOMAIN queue : i + 1 # j /\ queue[j].sock = q[i].sock => q[i].type = "CONNECTED" /\ j > i + 1
            /\ q[i].type = "FAIL" => q[i].sock \notin Open
        BY <1>1, <2>1, <3>1 DEF QueueInv, Verdicts
      <4>2. \/ state'[q[i].to] = "ACTIVE" /\ portconn'[q[i].to] = q[i].sock
            \/ \E j \in DOMAIN q : j > i /\ q[j] = Login(q[i].to[1])
        <5>1. CASE state[q[i].to] = "ACTIVE" /\ portconn[q[i].to] = q[i].sock
          BY <1>11, <1>25, <3>1, <5>1
        <5>2. ASSUME NEW j \in DOMAIN queue, j > i + 1, queue[j] = Login(q[i].to[1])
              PROVE  \E k \in DOMAIN q : k > i /\ q[k] = Login(q[i].to[1])
          <6>1. j # 1 /\ j - 1 > i
            BY <1>13, <5>2
          <6>2. j - 1 \in DOMAIN q /\ q[j - 1] = queue[j]
            BY <1>13, <6>1
          <6> QED BY <5>2, <6>1, <6>2
        <5> QED BY <4>1, <5>1, <5>2
      <4>3. ASSUME NEW j \in DOMAIN q, i # j, q[j].sock = q[i].sock
            PROVE  q[i].type = "CONNECTED" /\ j > i
        <5>1. j + 1 \in DOMAIN queue /\ q[j] = queue[j + 1]
          BY <1>3, <1>13, <3>1, <4>3
        <5> QED BY <1>13, <4>1, <4>3, <5>1
      <4>4. q[i].type = "FAIL" => q[i].sock \notin Open'
        BY <1>3, <1>9, <3>1, <4>1
      <4> QED BY <4>2, <4>3, <4>4
    <3>2. CASE ~(i + 1 \in DOMAIN queue /\ q[i] = queue[i + 1])
      <4>1. /\ q[i].type = "FAIL" /\ q[i].sock = f /\ f \notin Open' /\ q[i].to = s
            /\ \A j \in DOMAIN q : i = j \/ (j + 1 \in DOMAIN queue /\ q[j] = queue[j + 1])
        BY <1>13, <3>2
      <4> QED BY <1>3, <1>11, <4>1
    <3> QED BY <3>1, <3>2
  <2> QED BY <2>1 DEF Verdicts, Login
<1>27. Pending(q)'
  <2> SUFFICES ASSUME NEW t \in Sessions, state'[t] = "ACTIVE",
                      \/ portconn'[t] \in Open' /\ socketinfomap'[portconn'[t]].type = "TCP_CONNECTING"
                      \/ \E i \in DOMAIN q : Verdict(q[i]) /\ q[i].sock = portconn'[t]
               PROVE  pasvconn'[t] \in Open' /\ ~socketinfomap'[pasvconn'[t]].polled
    BY DEF Pending, Type
  <2>1. CASE t = s
    BY <1>8, <1>11, <2>1
  <2>2. CASE t # s
    <3>1. /\ state[t] = "ACTIVE" /\ pasvconn'[t] = pasvconn[t] /\ portconn'[t] = portconn[t]
          /\ portconn[t] # f /\ portconn[t] # p /\ pasvconn[t] # p /\ pasvconn[t] # f
          /\ pasvconn[t] \in Open => pasvconn[t] # L
      BY <1>3, <1>11, <1>12, <2>2
    <3>2. \/ portconn[t] \in Open /\ Type(portconn[t]) = "TCP_CONNECTING"
          \/ \E i \in DOMAIN queue : Verdict(queue[i]) /\ queue[i].sock = portconn[t]
      <4>1. CASE portconn'[t] \in Open' /\ socketinfomap'[portconn'[t]].type = "TCP_CONNECTING"
        BY <1>9, <3>1, <4>1 DEF Type
      <4>2. ASSUME NEW i \in DOMAIN q, Verdict(q[i]), q[i].sock = portconn'[t]
            PROVE  \E j \in DOMAIN queue : Verdict(queue[j]) /\ queue[j].sock = portconn[t]
        BY <1>13, <3>1, <4>2
      <4> QED BY <4>1, <4>2
    <3>3. pasvconn[t] \in Open /\ ~socketinfomap[pasvconn[t]].polled
      BY <1>1, <3>1, <3>2 DEF QueueInv, Pending
    <3> QED BY <1>9, <1>10, <3>1, <3>3
  <2> QED BY <2>1, <2>2
<1>28. \A i \in DOMAIN q : ~Verdict(q[i]) => i + 1 \in DOMAIN queue /\ q[i] = queue[i + 1] /\ ~(i + 1 < 1) /\ i + 1 # 1
  BY <1>13 DEF Verdict
<1>29. DataOK(q)'
  <2>1. ASSUME NEW i \in DOMAIN q, Bytes(q[i])
        PROVE  /\ state'[q[i].to] = "ACTIVE" =>
                    q[i].sock = IF q[i].type = "PASVDATA" THEN pasvconn'[q[i].to] ELSE portconn'[q[i].to]
               /\ \A j \in DOMAIN q : q[j].type = "NEW" /\ q[j].to = q[i].to => i < j
    <3>1. i + 1 \in DOMAIN queue /\ q[i] = queue[i + 1] /\ ~(i + 1 < 1)
      BY <1>28, <2>1 DEF Verdict, Bytes
    <3>2. /\ state[q[i].to] = "ACTIVE" => Owned(q[i])
          /\ \A j \in DOMAIN queue : queue[j].type = "NEW" /\ queue[j].to = q[i].to => i + 1 < j
      BY <1>1, <2>1, <3>1 DEF QueueInv, DataOK
    <3>3. q[i].to # s /\ q[i].to \in Sessions
      BY <1>3, <1>25, <3>1, <3>2
    <3>4. \A j \in DOMAIN q : q[j].type = "NEW" => j + 1 \in DOMAIN queue /\ q[j] = queue[j + 1]
      BY <1>28 DEF Verdict
    <3> QED BY <1>11, <1>13, <3>2, <3>3, <3>4 DEF Owned
  <2> QED BY <2>1 DEF DataOK, Bytes, Owned
<1>30. Ends(q)'
  <2>1. ASSUME NEW i \in DOMAIN q, Ending(q[i])
        PROVE  /\ q[i].sock \notin Open'
               /\ q[i].type = "PASVCLOSED" /\ pasvconn'[q[i].to] = q[i].sock => state'[q[i].to] = "ACTIVE"
               /\ q[i].type = "PORTCLOSED" /\ portconn'[q[i].to] = q[i].sock => state'[q[i].to] = "ACTIVE"
               /\ \A j \in DOMAIN q : Ending(q[j]) /\ q[j].sock = q[i].sock => j = i
    <3>1. i + 1 \in DOMAIN queue /\ q[i] = queue[i + 1]
      BY <1>28, <2>1 DEF Verdict, Ending
    <3>2. /\ q[i].sock \notin Open
          /\ q[i].type = "PASVCLOSED" /\ pasvconn[q[i].to] = q[i].sock => state[q[i].to] = "ACTIVE"
          /\ q[i].type = "PORTCLOSED" /\ portconn[q[i].to] = q[i].sock => state[q[i].to] = "ACTIVE"
          /\ \A j \in DOMAIN queue : Ending(queue[j]) /\ queue[j].sock = q[i].sock => j = i + 1
      BY <1>1, <2>1, <3>1 DEF QueueInv, Ends
    <3>3. \A j \in DOMAIN q : Ending(q[j]) => j + 1 \in DOMAIN queue /\ q[j] = queue[j + 1]
      BY <1>28 DEF Verdict, Ending
    <3>4. \A j \in DOMAIN q : Ending(q[j]) /\ q[j].sock = q[i].sock => j = i
      BY <1>13, <3>2, <3>3
    <3>5. q[i].sock \notin Open'
      BY <1>3, <1>9, <3>1, <3>2
    <3>6. q[i].to \in Sessions
      BY <1>25, <3>1
    <3> QED BY <1>11, <3>2, <3>4, <3>5, <3>6
  <2> QED BY <2>1 DEF Ends, Ending
<1>31. Logins(q)'
  <2>1. \A o \in Owners : Login(o).type = "LOGIN"
    BY LoginType
  <2>2. ASSUME NEW o \in Owners
        PROVE  /\ control[o] = "down" => \E i \in DOMAIN q : q[i] = Login(o)
               /\ \A i \in DOMAIN q : q[i] = Login(o) =>
                    control[o] = "down" /\ \A j \in DOMAIN q : q[j] = Login(o) => i = j
    <3>1. control[o] = "down" => \E i \in DOMAIN q : q[i] = Login(o)
      BY <1>1, <1>3, <1>13, <2>1 DEF Logins
    <3>2. \A i \in DOMAIN q : q[i] = Login(o) => i + 1 \in DOMAIN queue /\ queue[i + 1] = Login(o)
      BY <1>28, <2>1 DEF Verdict
    <3> QED BY <1>1, <1>13, <3>1, <3>2 DEF Logins
  <2> QED BY <1>4, <2>2 DEF Logins, Login
<1>32. Unattended(q)'
  <2>1. ASSUME NEW x \in Open', Er(x)' = <<>>
        PROVE  \E i \in DOMAIN q : q[i].type = "NEW" /\ q[i].new = x
    <3>1. x # p /\ x # f /\ x \in Open /\ Er(x) = <<>>
      BY <1>3, <1>8, <1>9, <2>1, SessionPairs
    <3> QED BY <1>1, <1>3, <1>13, <3>1 DEF Unattended
  <2> QED BY <2>1 DEF Unattended
<1> QED BY <1>2, <1>17, <1>18, <1>19, <1>20, <1>21, <1>22, <1>23, <1>24, <1>26, <1>27, <1>29, <1>30, <1>31, <1>32,
           Assembled DEF SessionInv, QueueInv

\* The message that an owner is logged in was the only one.
LEMMA HandleLoginSafe ==
  ASSUME SafeInv, HandleLogin
  PROVE  SafeInv'
<1> PICK q : q = Tail(queue) OBVIOUS
<1> PICK o : o = Receiver[1] OBVIOUS
<1>1. /\ TypeInv /\ SessionInv /\ QueueInv(q) /\ queue # <<>> /\ Head(queue).type = "LOGIN"
      /\ Proper(queue) /\ Logins(queue) /\ Unattended(queue)
      /\ Receiver \in Sessions /\ 1 \in DOMAIN queue /\ Head(queue) = queue[1]
      /\ \A i \in DOMAIN q : i + 1 \in DOMAIN queue /\ i + 1 # 1 /\ q[i] = queue[i + 1]
  BY Handling DEF HandleLogin, At, SafeInv
<1>2. TypeInv' /\ SessionsOK
  BY <1>1, HandleTypeInv, TypeParts DEF Handle, TypeInv
<1>3. /\ control' = [control EXCEPT ![o] = "up"] /\ queue' = q
      /\ UNCHANGED <<made, state, listenport, conns, ports, socketinfomap, activating, batch>>
  BY DEF HandleLogin, Handled, io
<1>4. Apart /\ o \in Owners /\ queue[1] = Login(o)
  <2>1. queue[1] \in Messages /\ o \in Owners
    BY <1>1, SessionPairs DEF Proper
  <2> QED BY <1>1, <1>3, <2>1, MessageTypes DEF Apart, conns, Receiver
<1>5. QueueInv(q)' /\ Listeners' /\ Pairs' /\ Attachments' /\ Open' = Open
  BY <1>1, <1>4, ApartKeeps
<1>6. control'[o] = "up" /\ \A u \in Owners : u # o => control'[u] = control[u]
  BY <1>2, <1>3, <1>4 DEF SessionsOK
<1>7. Idling'
  <2>1. \A u \in Owners : control[u] = "up" => control'[u] = "up"
    BY <1>6
  <2>2. \A s \in Sessions : s[1] \in Owners
    BY SessionPairs
  <2>3. activating # <<>> => activating \in Sessions
    BY <1>2 DEF SessionsOK
  <2> QED BY <1>1, <1>3, <2>1, <2>2, <2>3 DEF SessionInv, Idling
<1>8. PortsInv'
  <2>1. Awaiting' = Awaiting
    BY <1>3 DEF Awaiting
  <2> QED BY <1>1, <1>3, <2>1 DEF SessionInv, PortsInv, OneSet, NoPortLeak, OwnPorts, ports
<1>9. Logins(q)'
  <2>1. \A i \in DOMAIN queue : i = 1 \/ (i - 1 \in DOMAIN q /\ q[i - 1] = queue[i])
    <3>1. \A i \in DOMAIN queue : i = 1 \/ i > 1
      BY <1>1 DEF Proper
    <3>2. \A i \in DOMAIN queue : i > 1 => i - 1 \in DOMAIN q /\ q[i - 1] = queue[i]
      BY <1>1, TailPlaces DEF Proper
    <3> QED BY <3>1, <3>2
  <2>2. \A i \in DOMAIN q, j \in DOMAIN q : i + 1 = j + 1 => i = j
    BY <1>1, TailPlaces DEF Proper
  <2>3. ASSUME NEW u \in Owners
        PROVE  /\ control'[u] = "down" => \E i \in DOMAIN q : q[i] = Login(u)
               /\ \A i \in DOMAIN q : q[i] = Login(u) =>
                    control'[u] = "down" /\ \A j \in DOMAIN q : q[j] = Login(u) => i = j
    <3>1. CASE u = o
      BY <1>1, <1>4, <1>6, <3>1 DEF Logins
    <3>2. CASE u # o
      <4>1. Login(u) # Login(o)
        BY <3>2 DEF Login
      <4> QED BY <1>1, <1>4, <1>6, <2>1, <2>2, <3>2, <4>1 DEF Logins
    <3> QED BY <3>1, <3>2
  <2> QED BY <2>3 DEF Logins, Login
<1>10. Unattended(q)'
  <2>1. Unattended(q)
    BY <1>1, TailMarks
  <2> QED BY <1>3, <1>5, <2>1 DEF Unattended, Er
<1> QED BY <1>2, <1>3, <1>5, <1>7, <1>8, <1>9, <1>10, Assembled DEF SessionInv

-----------------------------------------------------------------------------
(* SafeInv is inductive.                                                   *)

LEMMA InitSafe == Init => SafeInv
<1> SUFFICES ASSUME Init PROVE SafeInv OBVIOUS
<1>1. TypeInv
  BY InitTypeInv
<1>2. /\ Open = {} /\ Awaiting = {} /\ DOMAIN queue = {} /\ batch = {} /\ activating = <<>>
      /\ \A s \in Sessions : state[s] = "INACTIVE"
      /\ \A o \in Owners : control[o] = "up"
      /\ availableports = Ports /\ unavailableports = {}
  BY DEF Init, Open, Awaiting, Unused
<1>3. SessionInv
  BY <1>2 DEF SessionInv, Idling, Listeners, Pairs, Attachments, PortsInv, OneSet, NoPortLeak, OwnPorts
<1>4. QueueInv(queue)
  BY <1>2 DEF QueueInv, Arrivals, Unheard, Late, Verdicts, Pending, DataOK, Ends
<1>5. Logins(queue) /\ Unattended(queue)
  BY <1>2 DEF Logins, Unattended
<1> QED BY <1>1, <1>3, <1>4, <1>5 DEF SafeInv

LEMMA StutterSafe == SafeInv /\ UNCHANGED vars => SafeInv'
<1> SUFFICES ASSUME SafeInv, UNCHANGED vars PROVE SafeInv' OBVIOUS
<1> PICK q : q = queue OBVIOUS
<1>1. TypeInv /\ SessionInv /\ QueueInv(q) /\ Logins(q) /\ Unattended(q) /\ q = queue'
  BY DEF SafeInv, vars
<1>2. TypeInv' /\ Apart /\ Served /\ UNCHANGED <<control, socketinfomap>>
  BY <1>1, StutterTypeInv DEF vars, conns, io, Apart, Served
<1>3. QueueInv(q)' /\ Listeners' /\ Pairs' /\ Attachments' /\ Open' = Open
  BY <1>1, <1>2, ApartKeeps
<1>4. Idling' /\ PortsInv'
  BY <1>1, <1>2, ServedKeeps DEF SessionInv
<1>5. Logins(q)' /\ Unattended(q)'
  BY <1>1, <1>2, <1>3, SameMarks DEF Er
<1> QED BY <1>1, <1>2, <1>3, <1>4, <1>5, Assembled DEF SessionInv

LEMMA IOSafe ==
  ASSUME SafeInv, Sequential, NEW x \in SockIds, IOStep(x) \/ ConnectTimeout(x)
  PROVE  SafeInv'
  BY AcceptSafe, ConnectSafe, FailSafe, ReadDataSafe, ClosedSafe, DrainSafe, NothingSafe DEF IOStep

LEMMA HandleSafe ==
  ASSUME SafeInv, Handle
  PROVE  SafeInv'
  BY HandleNewSafe, ListenFailSafe, HandleConnectedSafe, HandleFailSafe, HandleDataSafe,
     HandlePasvClosedSafe, HandlePortClosedSafe, HandleLoginSafe DEF Handle

LEMMA NextSafe ==
  ASSUME Sequential
  PROVE  SafeInv /\ [Next]_vars => SafeInv'
<1> SUFFICES ASSUME SafeInv, [Next]_vars PROVE SafeInv' OBVIOUS
<1>1. CASE UNCHANGED vars
  BY <1>1, StutterSafe
<1>2. CASE Next
  BY <1>2, ActivateSafe, DisconnectSafe, ListenFailsSafe, ListeningSafe, ExhaustedSafe, ExpireSafe,
     PollWaitSafe, IOSafe, HandleSafe DEF Next
<1> QED BY <1>1, <1>2

LEMMA AlwaysSafe == ASSUME Sequential PROVE Spec => []SafeInv
<1>1. SafeInv /\ [Next]_vars => SafeInv'
  BY NextSafe
<1> QED BY InitSafe, <1>1, PTL DEF Spec

-----------------------------------------------------------------------------
(* What follows from it.                                                   *)

\* No port is lost from the range: one that acquirePort cannot give out is on
\* the listener of a session that awaits its connection, or waits for its hour,
\* however transfers end (listenportmanager.cpp, trafficbncsession.cpp).
THEOREM PortsNotLeaked == ASSUME Sequential PROVE Spec => []NoPortLeak
<1>1. SafeInv => NoPortLeak
  BY DEF SafeInv, SessionInv, PortsInv
<1> QED BY AlwaysSafe, <1>1, PTL

\* A session that awaits a connection has a listener open, on a port that no
\* other session has and that acquirePort will not give out.
THEOREM PortsKept == ASSUME Sequential PROVE Spec => []PortsHeld
<1>1. SafeInv => PortsHeld
  BY DEF SafeInv, TypeInv, Named, SessionInv, Listeners, PortsInv, OwnPorts, PortsHeld, Awaiting, Type
<1> QED BY AlwaysSafe, <1>1, PTL

\* Somebody will close every socket that is open: no event makes a session
\* forget a socket that still needs closing (pasvconn.cpp, portconn.cpp).
THEOREM SocketsNotLeaked == ASSUME Sequential PROVE Spec => []SocketsHeld
<1>1. ASSUME SafeInv, NEW x \in Open
      PROVE  \/ socketinfomap[x].closing
             \/ \E e \in News : e.new = x
             \/ \E s \in Awaiting : pasvlistener[s] = x
             \/ \E s \in Sessions : state[s] = "ACTIVE" /\ x \in {pasvconn[s], portconn[s]}
  <2>1. TypeInv /\ SessionInv /\ Unattended(queue) /\ SocketsOK /\ Receivers /\ x \in SockIds
    BY <1>1, TypeParts DEF SafeInv, TypeInv, Open
  <2>2. Er(x) \in Sessions \cup {<<>>} /\ Type(x) \in Types \ {"UNUSED"}
    BY <1>1, <2>1 DEF SocketsOK, SocketRecords, Er, Type, Open
  <2>3. CASE Er(x) = <<>>
    BY <1>1, <2>1, <2>3 DEF Unattended, News
  <2>4. CASE Type(x) = "TCP_SERVER"
    BY <1>1, <2>1, <2>4 DEF SessionInv, Listeners
  <2>5. CASE Er(x) \in Sessions /\ Type(x) # "TCP_SERVER"
    <3>1. socketinfomap[x].closing \/ Attached(x)
      BY <1>1, <2>1, <2>2, <2>5, SessionPairs DEF SessionInv, Attachments, Connected, Types, Type
    <3>2. Attached(x) => state[Er(x)] = "ACTIVE" /\ x \in {pasvconn[Er(x)], portconn[Er(x)]}
      BY <1>1, <2>1, <2>5 DEF SessionInv, Pairs, Attached
    <3> QED BY <2>5, <3>1, <3>2
  <2> QED BY <2>2, <2>3, <2>4, <2>5
<1>2. SafeInv => SocketsHeld
  BY <1>1 DEF SocketsHeld
<1> QED BY AlwaysSafe, <1>2, PTL

\* Data goes only to the connection its own one was paired with, although FDData
\* does not look at the socket it came from (pasvconn.cpp, portconn.cpp).
THEOREM DataStaysApart == ASSUME Sequential PROVE Spec => []NoCrossTalk
<1>1. ASSUME SafeInv, queue # <<>>, Bytes(Head(queue)), Destination \in Open
      PROVE  socketinfomap[Destination].twin = Head(queue).sock
  <2>1. /\ TypeInv /\ SessionInv /\ QueueInv(queue) /\ Proper(queue)
    BY <1>1, QueueProper DEF SafeInv
  <2>2. 1 \in DOMAIN queue /\ Head(queue) = queue[1] /\ queue[1] \in Messages /\ Receiver \in Sessions
    BY <1>1, <2>1, MessageTypes DEF Proper, Receiver
  <2>3. state[Receiver] = "ACTIVE"
    BY <1>1, <2>1, <2>2 DEF SessionInv, Pairs, Destination
  <2>4. Head(queue).sock = IF Head(queue).type = "PASVDATA" THEN pasvconn[Receiver] ELSE portconn[Receiver]
    BY <1>1, <2>1, <2>2, <2>3 DEF QueueInv, DataOK, Owned, Receiver
  <2> QED BY <1>1, <2>1, <2>2, <2>4 DEF SessionInv, Pairs, Destination
<1>2. SafeInv => NoCrossTalk
  BY <1>1 DEF NoCrossTalk, Bytes
<1> QED BY AlwaysSafe, <1>2, PTL
=============================================================================
