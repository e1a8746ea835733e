------------------------------- MODULE Control -------------------------------
(***************************************************************************)
(* Control connections: Bnc and its list of BncSessions, each with one     *)
(* BncSessionClient (the connection to the server) and one Ident (the      *)
(* request to the client's ident server), and what they see of the         *)
(* IOManager and of TickPoke.                                              *)
(*                                                                         *)
(* The worker handles one event of the data queue at a time, so a handler  *)
(* is one step.  The session objects are used again for later clients, and *)
(* no handler compares the socket id of its event with the one it has now. *)
(* What the IO thread does for one event of polling.wait() is one step     *)
(* too: the window between the two is in module Traffic, the pauses of     *)
(* full buffers are in module Relay, passive mode is in Traffic.           *)
(*                                                                         *)
(* A socket id that nothing remembers any more is used again here, where   *)
(* the code counts upwards.                                                *)
(***************************************************************************)
EXTENDS Integers, Sequences, FiniteSets

CONSTANTS
    MaxSessions,    \* bound: BncSessions in the list
    SockIds,        \* bound: sockets known to somebody at one time
    NoSock,         \* -1
    Nobody, Data,   \* the user "*"; what is not an IDNT
    MaxQueued,      \* bound: blocks a BncSession keeps while in state IDENT
    HasIdent,       \* BNCDATA: ident
    NoIdnt,         \* BNCDATA: noidnt
    Sequential,     \* TRUE: a client comes when all is quiet
    ServerFirst     \* TRUE: a client waits for the server's greeting

ASSUME NumbersAssumption ==
    /\ {NoSock, Nobody, Data} \cap SockIds = {}
    /\ NoSock # Nobody /\ NoSock # Data /\ Nobody # Data
    /\ MaxSessions \in Nat /\ MaxQueued \in Nat
ASSUME FlagsAssumption ==
    {HasIdent, NoIdnt, Sequential, ServerFirst} \subseteq BOOLEAN

Sessions == 1 .. MaxSessions

VARIABLES
    made,           \* sessions in Bnc::sessions
    state, sendqueue,                       \* BncSession
    client, server, identp,                 \* sockid of the three objects
    identreceived, identstr, connected,     \* BncSessionClient
    tlsstate, responsecatch,
    active,         \* Ident::active
    pokes,          \* TickPoke::targets, those of Idents
    socketinfomap,
    queue,
    aborted         \* an assert failed

sessionVars == <<state, sendqueue>>
sockids     == <<client, server, identp>>
clientVars  == <<identreceived, identstr, connected, tlsstate, responsecatch>>
identVars   == <<active, pokes>>
vars == <<made, sessionVars, sockids, clientVars, identVars, socketinfomap, queue, aborted>>

-----------------------------------------------------------------------------
(* Sockets and events.  `for' is the client connection a socket was made   *)
(* for, `first' the first thing queued to be sent on it: an IDNT with its  *)
(* user, or other data.                                                    *)

Unused == [type |-> "UNUSED", er |-> <<>>, for |-> NoSock, unsent |-> FALSE,
           closing |-> FALSE, first |-> NoSock]
New(type, er, c) == [Unused EXCEPT !.type = type, !.er = er, !.for = c]

Open == {x \in SockIds : socketinfomap[x].type # "UNUSED"}

\* `to' is the receiver, a class and its session; `what' an event's content.
Event(type, x, what) ==
    [type |-> type, to |-> socketinfomap[x].er, sock |-> x, what |-> what,
     for |-> socketinfomap[x].for]
Bnc == <<"Bnc", 0>>
Classes == {"BncSession", "BncSessionClient", "Ident"}
Contents == {"", "command", "AUTH", "reply", "234", "user", "nocolon", "unknown"}
Events == [type : {"NEW", "CONNECTED", "FAIL", "DISCONNECTED", "DATA", "SSL_SUCCESS"},
           to : (Classes \X Sessions) \cup {Bnc}, sock : SockIds, what : Contents,
           for : SockIds]

Known ==
    (UNION {{client[s], server[s], identp[s], identstr[s]} : s \in Sessions})
        \cup (UNION {{queue[i].sock, queue[i].for} : i \in DOMAIN queue})
        \cup (UNION {{sendqueue[s][i].for : i \in DOMAIN sendqueue[s]} : s \in Sessions})
        \cup (UNION {{x, socketinfomap[x].for, socketinfomap[x].first} : x \in Open})
Free == SockIds \ Known
Fresh == CHOOSE x \in Free : TRUE
Fresher == CHOOSE x \in Free \ {Fresh} : TRUE
News == {i \in DOMAIN queue : queue[i].type = "NEW"}

TypeOK ==
    /\ made \in 0 .. MaxSessions
    /\ state \in [Sessions -> {"DISCONNECTED", "IDENT", "ESTABLISHED"}]
    /\ sendqueue \in [Sessions -> Seq([what : Contents, for : SockIds])]
    /\ \A s \in Sessions : state[s] # "IDENT" => sendqueue[s] = <<>>
    /\ client \in [Sessions -> SockIds \cup {NoSock}]
    /\ server \in [Sessions -> SockIds \cup {NoSock}]
    /\ identp \in [Sessions -> SockIds \cup {NoSock}]
    /\ identreceived \in [Sessions -> BOOLEAN]
    /\ identstr \in [Sessions -> SockIds \cup {Nobody}]
    /\ connected \in [Sessions -> BOOLEAN]
    /\ tlsstate \in [Sessions -> {"NONE", "QUERY", "IN_PROGRESS", "ACTIVE"}]
    /\ responsecatch \in [Sessions -> {"NONE", "AUTH_TLS"}]
    /\ active \in [Sessions -> BOOLEAN]
    /\ pokes \in SUBSET (Sessions \X SockIds)
    /\ socketinfomap \in
         [SockIds -> [type : {"UNUSED", "LISTEN", "CONNECTING", "PLAIN", "SSL_NEG", "SSL"},
                      er : (Classes \X Sessions) \cup {<<>>}, for : SockIds \cup {NoSock},
                      unsent : BOOLEAN, closing : BOOLEAN,
                      first : SockIds \cup {NoSock, Nobody, Data}]]
    /\ queue \in Seq(Events)
    /\ aborted \in BOOLEAN

Init ==
    /\ made = 0
    /\ state = [s \in Sessions |-> "DISCONNECTED"] /\ sendqueue = [s \in Sessions |-> <<>>]
    /\ client = [s \in Sessions |-> NoSock] /\ server = [s \in Sessions |-> NoSock]
    /\ identp = [s \in Sessions |-> NoSock]
    /\ identreceived = [s \in Sessions |-> FALSE] /\ identstr = [s \in Sessions |-> Nobody]
    /\ connected = [s \in Sessions |-> FALSE]
    /\ tlsstate = [s \in Sessions |-> "NONE"] /\ responsecatch = [s \in Sessions |-> "NONE"]
    /\ active = [s \in Sessions |-> FALSE] /\ pokes = {}
    /\ socketinfomap = [x \in SockIds |-> Unused]
    /\ queue = <<>> /\ aborted = FALSE

-----------------------------------------------------------------------------
(* The IOManager's calls, as functions of socketinfomap.                   *)

CloseSocket(m, x) ==
    IF x \notin SockIds \/ m[x].type = "UNUSED" THEN m
    ELSE IF m[x].unsent THEN [m EXCEPT ![x].closing = TRUE]
    ELSE [m EXCEPT ![x] = Unused]

\* sendData(): to a socket that is not connected yet as well.
SendData(m, x, what) ==
    IF x \notin SockIds \/ m[x].type = "UNUSED" THEN m
    ELSE [m EXCEPT ![x].unsent = TRUE, ![x].first = IF @ = NoSock THEN what ELSE @]

\* negotiateSSLAccept(), negotiateSSLConnect()
Negotiate(m, x) ==
    IF x \notin SockIds \/ m[x].type \notin {"LISTEN", "PLAIN"} THEN m
    ELSE [m EXCEPT ![x].type = "SSL_NEG"]

-----------------------------------------------------------------------------
(* The IO thread.                                                          *)

\* Whose end is already on its way to the worker.
Ending(s) == \E i \in DOMAIN queue :
    /\ queue[i].type \in {"FAIL", "DISCONNECTED"}
    /\ queue[i].to \in {<<"BncSession", s>>, <<"BncSessionClient", s>>}
Busy == {s \in Sessions : state[s] # "DISCONNECTED" /\ ~Ending(s)}

\* What Sequential demands of the sessions that could be used again.
Quiet == queue = <<>> /\ \A x \in Open : state[socketinfomap[x].er[2]] # "DISCONNECTED"

AsksIdent == HasIdent /\ ~NoIdnt
Needed == IF AsksIdent THEN 3 ELSE 2

\* handleTCPServerIn (bound: a session and the ids it needs can be had).
Accept ==
    /\ Sequential => Quiet
    /\ Cardinality(Busy) + Cardinality(News) < MaxSessions
    /\ Free # {} /\ Cardinality(Free) >= Needed * (Cardinality(News) + 1)
    /\ LET c == Fresh IN
        /\ socketinfomap' = [socketinfomap EXCEPT ![c] = New("LISTEN", <<>>, c)]
        /\ queue' = Append(queue, [type |-> "NEW", to |-> Bnc, sock |-> c, what |-> "", for |-> c])
    /\ UNCHANGED <<made, sessionVars, sockids, clientVars, identVars, aborted>>

Push(e) == queue' = Append(queue, e)
PushUnless(closing, e) == IF closing THEN UNCHANGED queue ELSE Push(e)
Remove(x) == socketinfomap' = [socketinfomap EXCEPT ![x] = Unused]
IOStep == UNCHANGED <<made, sessionVars, sockids, clientVars, identVars, aborted>>
Ready(x) == socketinfomap[x].type \in {"LISTEN", "PLAIN", "SSL"} /\ socketinfomap[x].er # <<>>

\* handleTCPConnectingOut
Connect(x) ==
    /\ socketinfomap[x].type = "CONNECTING"
    /\ socketinfomap' = [socketinfomap EXCEPT ![x].type = "PLAIN"]
    /\ PushUnless(socketinfomap[x].closing, Event("CONNECTED", x, ""))
    /\ IOStep

\* It failed, or the five seconds of IOManager::tick are over.
ConnectFails(x) ==
    /\ socketinfomap[x].type = "CONNECTING"
    /\ Remove(x)
    /\ PushUnless(socketinfomap[x].closing, Event("FAIL", x, ""))
    /\ IOStep

\* What a peer may send.  A client that waits for the server has been sent
\* something; an ident server answers once: with a user, with USERID but no
\* colon, or without USERID.
Sends(x) ==
    CASE socketinfomap[x].er[1] = "BncSession" ->
            IF ServerFirst /\ socketinfomap[x].first = NoSock THEN {} ELSE {"command", "AUTH"}
      [] socketinfomap[x].er[1] = "BncSessionClient" -> {"reply", "234"}
      [] socketinfomap[x].er[1] = "Ident" ->
            IF socketinfomap[x].first = NoSock THEN {} ELSE {"user", "nocolon", "unknown"}

\* handleTCPPlainIn, handleTCPSSLIn: a socket with unsent data is polled for
\* OUT (bound: one block of a socket in the queue).
Read(x) ==
    /\ Ready(x) /\ ~socketinfomap[x].unsent
    /\ \A i \in DOMAIN queue : ~(queue[i].type = "DATA" /\ queue[i].sock = x)
    /\ socketinfomap[x].er[1] = "BncSession" =>
            Len(sendqueue[socketinfomap[x].er[2]]) < MaxQueued
    /\ \E what \in Sends(x) : Push(Event("DATA", x, what))
    /\ UNCHANGED socketinfomap
    /\ IOStep

\* The peer closes.
ReadEnd(x) ==
    /\ Ready(x) /\ ~socketinfomap[x].unsent
    /\ Remove(x) /\ Push(Event("DISCONNECTED", x, ""))
    /\ IOStep

\* handleTCPPlainOut, handleTCPSSLOut: the send queue is emptied.
Drain(x) ==
    /\ Ready(x) /\ socketinfomap[x].unsent
    /\ socketinfomap' = [socketinfomap EXCEPT ![x] =
            IF @.closing THEN Unused ELSE [@ EXCEPT !.unsent = FALSE]]
    /\ UNCHANGED queue
    /\ IOStep

\* write() fails, or the handshake does.
WriteFails(x) ==
    /\ (Ready(x) /\ socketinfomap[x].unsent) \/ socketinfomap[x].type = "SSL_NEG"
    /\ Remove(x)
    /\ PushUnless(socketinfomap[x].closing, Event("DISCONNECTED", x, ""))
    /\ IOStep

\* handleTCPSSLNegotiationIn, handleTCPSSLNegotiationOut: the latter first
\* sends what is unsent.
Negotiated(x) ==
    /\ socketinfomap[x].type = "SSL_NEG"
    /\ IF socketinfomap[x].closing
         THEN Remove(x) /\ UNCHANGED queue
         ELSE /\ socketinfomap' = [socketinfomap EXCEPT ![x].type = "SSL", ![x].unsent = FALSE]
              /\ Push(Event("SSL_SUCCESS", x, ""))
    /\ IOStep

-----------------------------------------------------------------------------
(* The worker: Bnc.                                                        *)

At(type, class) == queue # <<>> /\ Head(queue).type = type /\ Head(queue).to[1] = class
Receiver == Head(queue).to[2]
Tls == <<tlsstate, responsecatch>>

Inactive == {s \in 1 .. made : state[s] = "DISCONNECTED"}
FirstInactive == IF Inactive = {} THEN made + 1
                 ELSE CHOOSE s \in Inactive : \A t \in Inactive : s <= t

\* Bnc::FDNew, BncSession::activate, BncSessionClient::activate and
\* Ident::activate.  Connecting may fail at once, with a FAIL.  An identstr
\* left from before is not read until it is set again.  (The bounds: Accept has
\* seen to them.)
HandleNew ==
    /\ At("NEW", "Bnc")
    /\ FirstInactive <= MaxSessions
    /\ Free # {} /\ (AsksIdent => Free \ {Fresh} # {})
    /\ LET s == FirstInactive
           c == Head(queue).sock
           y == Fresh
           z == IF AsksIdent THEN {Fresher} ELSE {}
           Failed(x, class) == [type |-> "FAIL", to |-> <<class, s>>, sock |-> x, what |-> "",
                                for |-> c]
       IN
       /\ made' = IF s > made THEN s ELSE made
       /\ \E fails \in SUBSET ({y} \cup z) :
            /\ socketinfomap' = [x \in SockIds |->
                 IF x = c THEN [socketinfomap[x] EXCEPT !.er = <<"BncSession", s>>]
                 ELSE IF x = y /\ y \notin fails THEN New("CONNECTING", <<"BncSessionClient", s>>, c)
                 ELSE IF x \in z \ fails THEN New("CONNECTING", <<"Ident", s>>, c)
                 ELSE socketinfomap[x]]
            /\ queue' = Tail(queue)
                 \o (IF y \in fails THEN <<Failed(y, "BncSessionClient")>> ELSE <<>>)
                 \o (IF z \cap fails # {} THEN <<Failed(Fresher, "Ident")>> ELSE <<>>)
       /\ client' = [client EXCEPT ![s] = c]
       /\ server' = [server EXCEPT ![s] = y]
       /\ connected' = [connected EXCEPT ![s] = FALSE]
       /\ tlsstate' = [tlsstate EXCEPT ![s] = "NONE"]
       /\ responsecatch' = [responsecatch EXCEPT ![s] = "NONE"]
       /\ identreceived' = [identreceived EXCEPT ![s] = ~AsksIdent /\ ~NoIdnt]
       /\ identstr' = [identstr EXCEPT ![s] = Nobody]
       /\ IF AsksIdent
            THEN /\ state' = [state EXCEPT ![s] = "IDENT"]
                 /\ identp' = [identp EXCEPT ![s] = Fresher]
                 /\ active' = [active EXCEPT ![s] = TRUE]
                 /\ pokes' = pokes \cup {<<s, Fresher>>}
            ELSE /\ state' = [state EXCEPT ![s] = "ESTABLISHED"]
                 /\ UNCHANGED <<identp, identVars>>
    /\ UNCHANGED <<sendqueue, aborted>>

-----------------------------------------------------------------------------
(* The worker: BncSession and BncSessionClient.                            *)

Handled == queue' = Tail(queue) /\ UNCHANGED <<made, sockids>>

\* Ident::deactivate
StopPoke(s, x) == pokes' = pokes \ {<<s, x>>}
Deactivate(s) == active' = [active EXCEPT ![s] = FALSE] /\ StopPoke(s, identp[s])

\* Seeded fault: what waits in sendqueue is kept.
End_KeepQueue(s, other) ==
    /\ LET m == CloseSocket(socketinfomap, other)
       IN  IF state[s] = "IDENT"
             THEN Deactivate(s) /\ socketinfomap' = CloseSocket(m, identp[s])
             ELSE UNCHANGED identVars /\ socketinfomap' = m
    /\ state' = [state EXCEPT ![s] = "DISCONNECTED"]
    /\ UNCHANGED sendqueue

\* The session is over: what is left of it is closed, the ident request too
\* if it was still awaited.
End(s, other) ==
    /\ LET m == CloseSocket(socketinfomap, other)
       IN  IF state[s] = "IDENT"
             THEN Deactivate(s) /\ socketinfomap' = CloseSocket(m, identp[s])
             ELSE UNCHANGED identVars /\ socketinfomap' = m
    /\ sendqueue' = [sendqueue EXCEPT ![s] = <<>>]
    /\ state' = [state EXCEPT ![s] = "DISCONNECTED"]

\* Seeded fault: the server is not told.
HandleClientDisconnected_KeepServer ==
    /\ At("DISCONNECTED", "BncSession")
    /\ connected' = [connected EXCEPT ![Receiver] = FALSE]
    /\ End(Receiver, NoSock)
    /\ Handled
    /\ UNCHANGED <<identreceived, identstr, Tls, aborted>>

\* BncSession::FDDisconnected, BncSessionClient::disconnect
HandleClientDisconnected ==
    /\ At("DISCONNECTED", "BncSession")
    /\ connected' = [connected EXCEPT ![Receiver] = FALSE]
    /\ End(Receiver, server[Receiver])
    /\ Handled
    /\ UNCHANGED <<identreceived, identstr, Tls, aborted>>

\* BncSessionClient::FDDisconnected, BncSession::targetDisconnected
HandleServerDisconnected ==
    /\ At("DISCONNECTED", "BncSessionClient")
    /\ connected' = [connected EXCEPT ![Receiver] = FALSE]
    /\ End(Receiver, client[Receiver])
    /\ Handled
    /\ UNCHANGED <<identreceived, identstr, Tls, aborted>>

\* BncSessionClient::FDFail
HandleServerFail ==
    /\ At("FAIL", "BncSessionClient")
    /\ End(Receiver, client[Receiver])
    /\ Handled
    /\ UNCHANGED <<clientVars, aborted>>

\* BncSessionClient::FDConnected, checkSendIdent
HandleServerConnected ==
    /\ At("CONNECTED", "BncSessionClient")
    /\ LET s == Receiver IN
        /\ connected' = [connected EXCEPT ![s] = TRUE]
        /\ socketinfomap' = IF identreceived[s] /\ ~NoIdnt
                              THEN SendData(socketinfomap, server[s], identstr[s])
                              ELSE socketinfomap
    /\ Handled
    /\ UNCHANGED <<sessionVars, identreceived, identstr, Tls, identVars, aborted>>

\* Seeded fault: every AUTH TLS is caught.
Query_Again(s, commands) ==
    IF "AUTH" \in commands
      THEN /\ tlsstate' = [tlsstate EXCEPT ![s] = "QUERY"]
           /\ responsecatch' = [responsecatch EXCEPT ![s] = "AUTH_TLS"]
      ELSE UNCHANGED Tls

\* BncSessionClient::sendData of commands, one after the other: an AUTH TLS is
\* caught once in a session's life.
Query(s, commands) ==
    IF tlsstate[s] = "NONE" /\ "AUTH" \in commands
      THEN /\ tlsstate' = [tlsstate EXCEPT ![s] = "QUERY"]
           /\ responsecatch' = [responsecatch EXCEPT ![s] = "AUTH_TLS"]
      ELSE UNCHANGED Tls

\* BncSession::FDData.  sendData() begins with an assert.
HandleClientData ==
    /\ At("DATA", "BncSession")
    /\ LET s == Receiver
           e == Head(queue)
       IN
       \/ /\ state[s] = "IDENT"
          /\ sendqueue' = [sendqueue EXCEPT ![s] = Append(@, [what |-> e.what, for |-> e.for])]
          /\ UNCHANGED <<Tls, socketinfomap, aborted>>
       \/ /\ state[s] = "ESTABLISHED"
          /\ Query(s, {e.what})
          /\ socketinfomap' = SendData(socketinfomap, server[s], Data)
          /\ aborted' = (aborted \/ ~(identreceived[s] \/ NoIdnt))
          /\ UNCHANGED sendqueue
       \/ /\ state[s] = "DISCONNECTED"
          /\ UNCHANGED <<sendqueue, Tls, socketinfomap, aborted>>
    /\ Handled
    /\ UNCHANGED <<state, identreceived, identstr, connected, identVars>>

\* Seeded fault: only the connection to the server is secured.
HandleServerData_ConnectOnly ==
    /\ At("DATA", "BncSessionClient")
    /\ LET s == Receiver
           forwarded == SendData(socketinfomap, client[s], Data)
           caught == responsecatch[s] = "AUTH_TLS"
           secure == caught /\ Head(queue).what = "234"
       IN
       /\ responsecatch' = [responsecatch EXCEPT ![s] = "NONE"]
       /\ tlsstate' = IF secure THEN [tlsstate EXCEPT ![s] = "IN_PROGRESS"] ELSE tlsstate
       /\ socketinfomap' = IF secure THEN Negotiate(forwarded, Head(queue).sock) ELSE forwarded
    /\ Handled
    /\ UNCHANGED <<sessionVars, identreceived, identstr, connected, identVars, aborted>>

\* BncSessionClient::FDData: every reply is passed on; one that is caught, with
\* the code 234, starts both handshakes.
HandleServerData ==
    /\ At("DATA", "BncSessionClient")
    /\ LET s == Receiver
           forwarded == SendData(socketinfomap, client[s], Data)
           secure == responsecatch[s] = "AUTH_TLS" /\ Head(queue).what = "234"
       IN
       /\ responsecatch' = [responsecatch EXCEPT ![s] = "NONE"]
       /\ tlsstate' = IF secure THEN [tlsstate EXCEPT ![s] = "IN_PROGRESS"] ELSE tlsstate
       /\ socketinfomap' =
            IF secure THEN Negotiate(Negotiate(forwarded, client[s]), Head(queue).sock)
                      ELSE forwarded
    /\ Handled
    /\ UNCHANGED <<sessionVars, identreceived, identstr, connected, identVars, aborted>>

\* BncSessionClient::FDSSLSuccess, which begins with an assert.
HandleServerSSL ==
    /\ At("SSL_SUCCESS", "BncSessionClient")
    /\ tlsstate' = [tlsstate EXCEPT ![Receiver] = "ACTIVE"]
    /\ aborted' = (aborted \/ tlsstate[Receiver] # "IN_PROGRESS")
    /\ Handled
    /\ UNCHANGED <<sessionVars, identreceived, identstr, connected, responsecatch, identVars,
                   socketinfomap>>

\* BncSession::FDSSLSuccess, parentTLSSuccess
HandleClientSSL ==
    /\ At("SSL_SUCCESS", "BncSession")
    /\ Handled
    /\ UNCHANGED <<sessionVars, clientVars, identVars, socketinfomap, aborted>>

-----------------------------------------------------------------------------
(* The worker: Ident.                                                      *)

\* Seeded fault: what the client has sent goes to the server first.
Identified_QueueFirst(s, user, m) ==
    IF state[s] # "IDENT"
      THEN socketinfomap' = m /\ UNCHANGED <<sessionVars, identreceived, identstr, Tls>>
      ELSE /\ state' = [state EXCEPT ![s] = "ESTABLISHED"]
           /\ identstr' = [identstr EXCEPT ![s] = user]
           /\ identreceived' = [identreceived EXCEPT ![s] = TRUE]
           /\ LET sent == IF sendqueue[s] = <<>> THEN m ELSE SendData(m, server[s], Data)
              IN  socketinfomap' = IF connected[s] THEN SendData(sent, server[s], user) ELSE sent
           /\ Query(s, {sendqueue[s][i].what : i \in DOMAIN sendqueue[s]})
           /\ sendqueue' = [sendqueue EXCEPT ![s] = <<>>]

\* BncSession::ident, BncSessionClient::ident, sendQueuedData
Identified(s, user, m) ==
    IF state[s] # "IDENT"
      THEN socketinfomap' = m /\ UNCHANGED <<sessionVars, identreceived, identstr, Tls>>
      ELSE /\ state' = [state EXCEPT ![s] = "ESTABLISHED"]
           /\ identstr' = [identstr EXCEPT ![s] = user]
           /\ identreceived' = [identreceived EXCEPT ![s] = TRUE]
           /\ LET sent == IF connected[s] THEN SendData(m, server[s], user) ELSE m
              IN  socketinfomap' = IF sendqueue[s] = <<>> THEN sent
                                                          ELSE SendData(sent, server[s], Data)
           /\ Query(s, {sendqueue[s][i].what : i \in DOMAIN sendqueue[s]})
           /\ sendqueue' = [sendqueue EXCEPT ![s] = <<>>]

\* Ident::FDConnected
HandleIdentConnected ==
    /\ At("CONNECTED", "Ident")
    /\ socketinfomap' = SendData(socketinfomap, Head(queue).sock, Data)
    /\ Handled
    /\ UNCHANGED <<sessionVars, clientVars, identVars, aborted>>

\* Ident::FDData.  An answer with USERID and no colon is told to nobody.
HandleIdentData ==
    /\ At("DATA", "Ident")
    /\ LET m == CloseSocket(socketinfomap, Head(queue).sock)
       IN  IF Head(queue).what = "nocolon"
             THEN socketinfomap' = m /\ UNCHANGED <<sessionVars, identreceived, identstr, Tls>>
             ELSE Identified(Receiver,
                             IF Head(queue).what = "user" THEN Head(queue).for ELSE Nobody, m)
    /\ Deactivate(Receiver)
    /\ Handled
    /\ UNCHANGED <<connected, aborted>>

\* Seeded fault: the session waits on.
HandleIdentEnd_Wait ==
    /\ At("DISCONNECTED", "Ident") \/ At("FAIL", "Ident")
    /\ IF active[Receiver] THEN Deactivate(Receiver) ELSE UNCHANGED identVars
    /\ Handled
    /\ UNCHANGED <<sessionVars, clientVars, socketinfomap, aborted>>

\* Ident::FDDisconnected, Ident::FDFail
HandleIdentEnd ==
    /\ At("DISCONNECTED", "Ident") \/ At("FAIL", "Ident")
    /\ IF active[Receiver]
         THEN Identified(Receiver, Nobody, socketinfomap) /\ Deactivate(Receiver)
         ELSE UNCHANGED <<sessionVars, identreceived, identstr, Tls, identVars, socketinfomap>>
    /\ Handled
    /\ UNCHANGED <<connected, aborted>>

\* Ident::tick: three seconds are over.  The socket stays as it is.
IdentTick ==
    /\ \E p \in pokes :
        LET s == p[1] IN
        /\ IF active[s] /\ p[2] = identp[s]
             THEN Identified(s, Nobody, socketinfomap)
             ELSE UNCHANGED <<sessionVars, identreceived, identstr, Tls, socketinfomap>>
        /\ Deactivate(s)
    /\ UNCHANGED <<made, sockids, connected, queue, aborted>>

-----------------------------------------------------------------------------
IONext ==
    \/ Accept
    \/ \E x \in SockIds :
        \/ Connect(x) \/ ConnectFails(x) \/ Read(x) \/ ReadEnd(x) \/ Drain(x)
        \/ WriteFails(x) \/ Negotiated(x)

Handle ==
    \/ HandleNew \/ HandleClientDisconnected \/ HandleServerDisconnected \/ HandleServerFail
    \/ HandleServerConnected \/ HandleClientData \/ HandleServerData \/ HandleServerSSL
    \/ HandleClientSSL \/ HandleIdentConnected \/ HandleIdentData \/ HandleIdentEnd

Next == ~aborted /\ (IONext \/ Handle \/ IdentTick)

Spec == Init /\ [][Next]_vars

\* The worker goes on, and TickPoke calls it every 50 ms.
Fairness == WF_vars(~aborted /\ Handle) /\ WF_vars(~aborted /\ IdentTick)
FairSpec == Spec /\ Fairness

-----------------------------------------------------------------------------
(* The asserts in the handlers hold (bncsessionclient.cpp:257 and 271): a  *)
(* handshake that succeeds is one the session has started.                 *)
AssertsHold == ~aborted

(* What a client sends reaches the server connection made for it, and what *)
(* that sends reaches this client.  No handler looks at the socket id of   *)
(* its event, so with events of the last client left when a session is     *)
(* used again it is false; Sequential supposes that none are.              *)
Reaches(x, c) == x \in Open => socketinfomap[x].for = c
SessionsSeparate ==
    /\ \A s \in Sessions : \A i \in DOMAIN sendqueue[s] : sendqueue[s][i].for = client[s]
    /\ (At("DATA", "BncSession") /\ state[Receiver] = "ESTABLISHED") =>
            Reaches(server[Receiver], Head(queue).for)
    /\ At("DATA", "BncSessionClient") => Reaches(client[Receiver], Head(queue).for)

(* The first thing a server is sent is an IDNT with the user of the client *)
(* the connection is for, or none: glftpd does not know the client         *)
(* otherwise.                                                              *)
IdentFirst ==
    \A x \in Open :
        socketinfomap[x].er # <<>> /\ socketinfomap[x].er[1] = "BncSessionClient" /\ ~NoIdnt =>
            socketinfomap[x].first \in {NoSock, Nobody, socketinfomap[x].for}

(* Somebody will close every socket: it is closing already, its session is *)
(* not over and has it, or it is an ident request that timed out.          *)
NoOrphans ==
    \A x \in Open :
        \/ socketinfomap[x].closing
        \/ \E i \in News : queue[i].sock = x
        \/ socketinfomap[x].er[1] = "Ident"
        \/ /\ state[socketinfomap[x].er[2]] # "DISCONNECTED"
           /\ x \in {client[socketinfomap[x].er[2]], server[socketinfomap[x].er[2]]}

(* The client is not left talking plain text to a bouncer whose server     *)
(* expects TLS: while both connections of a session live, the handshakes   *)
(* have been started on both or on neither.                                *)
Secured(x) == socketinfomap[x].type \in {"SSL_NEG", "SSL"}
BothSecured ==
    \A s \in Sessions : state[s] # "DISCONNECTED" /\ {client[s], server[s]} \subseteq Open =>
        (Secured(client[s]) <=> Secured(server[s]))

(* A client is not kept waiting for its ident server: while the session    *)
(* awaits the answer that comes, or the timeout ends the state IDENT.  One *)
(* answer does not: one with USERID and without a colon (ident.cpp:36).    *)
Muddled(s) == At("DATA", "Ident") /\ Receiver = s /\ Head(queue).what = "nocolon"
IdentEnds ==
    \A s \in Sessions :
        (state[s] = "IDENT" /\ active[s]) ~> (state[s] # "IDENT" \/ Muddled(s))

(* Whatever the ident server does.  That answer ends the request and stops *)
(* the timeout, and nothing else takes the session out of IDENT.           *)
IdentAlwaysEnds == \A s \in Sessions : state[s] = "IDENT" ~> state[s] # "IDENT"
=============================================================================
