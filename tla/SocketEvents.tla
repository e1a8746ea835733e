---------------------------- MODULE SocketEvents ----------------------------
(***************************************************************************)
(* What a receiver may expect of one TCP socket (the comments of           *)
(* src/core/iomanager.h): it is told once whether the socket connected or  *)
(* failed; then come data, completed sends and the outcome of a handshake; *)
(* a disconnect is told once and is the last.  A socket never ends in      *)
(* silence unless its receiver closed it, and a receiver that has closed   *)
(* it hears of no success any more.                                        *)
(***************************************************************************)
EXTENDS Integers, Sequences

VARIABLES
    life,       \* how far the socket has come
    wanted,     \* the receiver has not called closeSocket()
    told        \* the events dispatched to the receiver

Lives == {"unused", "pending", "open", "handshake", "secure", "ended"}
Established == {"open", "handshake", "secure"}

Told(name) == \E i \in 1 .. Len(told) : told[i].event = name
Tells(name) == \E e \in [event : {name}, named : BOOLEAN] : told' = Append(told, e)
TellsIfWanted(name) == IF wanted THEN Tells(name) ELSE told' = told

Init == life = "unused" /\ wanted = TRUE /\ told = <<>>

Moves(from, to) == life \in from /\ life' = to

Registered   == Moves({"unused"}, "pending") /\ UNCHANGED <<wanted, told>>
Accepted     == Moves({"unused"}, "open") /\ UNCHANGED <<wanted, told>>
Connecting   == /\ life \in {"unused", "pending"} /\ life' = "pending"
                /\ wanted /\ ~Told("CONNECTING")
                /\ Tells("CONNECTING") /\ UNCHANGED wanted
Connected    == Moves({"pending"}, "open") /\ TellsIfWanted("CONNECTED") /\ UNCHANGED wanted
Fails        == Moves({"unused", "pending"}, "ended") /\ Tells("FAIL") /\ UNCHANGED wanted
Data         == life \in {"open", "secure"} /\ Tells("DATA") /\ UNCHANGED <<life, wanted>>
SendComplete == life \in Established /\ wanted /\ Tells("SENDCOMPLETE") /\ UNCHANGED <<life, wanted>>
Negotiated   == Moves({"open"}, "handshake") /\ UNCHANGED <<wanted, told>>
SslSuccess   == Moves({"handshake"}, "secure") /\ TellsIfWanted("SSL_SUCCESS") /\ UNCHANGED wanted
Disconnected == Moves(Established, "ended") /\ Tells("DISCONNECTED") /\ UNCHANGED wanted

\* closeSocket(), and the end of a socket that was closed: nobody is told.
Closes       == wanted' = FALSE /\ life' \in {life, "ended"} /\ UNCHANGED told
EndsQuietly  == ~wanted /\ life' = "ended" /\ UNCHANGED <<wanted, told>>

Next == Registered \/ Accepted \/ Connecting \/ Connected \/ Fails \/ Data \/ SendComplete
        \/ Negotiated \/ SslSuccess \/ Disconnected \/ Closes \/ EndsQuietly

Spec == Init /\ [][Next]_<<life, wanted, told>>
=============================================================================
