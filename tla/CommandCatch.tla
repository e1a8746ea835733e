---------------------------- MODULE CommandCatch ----------------------------
(***************************************************************************)
(* How BncSessionClient follows the control connection it forwards: the    *)
(* commands it rewrites on their way to the site, the reply it catches for *)
(* each, and what it tells the client in its place (sendData and FDData of *)
(* bncsessionclient.cpp, with FTPCommandParser and FTPResponseParser).     *)
(*                                                                         *)
(* Both directions are streams: lines may arrive together, and those of a  *)
(* client that waits, and the replies to it, may be cut in two pieces.     *)
(* The client and the site are the environment; the site answers its       *)
(* commands in order, a transfer with two replies and sometimes glftpd's   *)
(* extra row.  The listeners are Traffic's: activate() finds a port or     *)
(* none.                                                                   *)
(***************************************************************************)
EXTENDS Integers, SequencesExt

CONSTANTS
    Commands,       \* what the client may send
    MaxCommands,    \* bound: commands of the client
    Manners,        \* how the client may behave, see Patient
    AuthOnce        \* the client does not ask for TLS again

AllCommands == {"AUTH", "PASV", "EPSV 1", "EPSV 2", "PORT", "EPRT", "XFER", "other"}

ASSUME CommandsAssumption == Commands \subseteq AllCommands /\ MaxCommands \in Nat
ASSUME ClientAssumption == Manners \subseteq {"waits", "begun", "pipelines"} /\ AuthOnce \in BOOLEAN

VARIABLES
    siteaddrfam,                            \* the members of BncSessionClient
    responsecatch, origincatch, tlsstate,
    commandbuf,     \* FTPCommandParser::databuf, in pieces of lines
    replybuf,       \* FTPResponseParser::databuf
    mitm,           \* negotiateTLS() and negotiateSSLConnect() were called
    manner,         \* the client's
    asked,          \* the commands the client has sent
    uplink,         \* pieces of them on their way to the bouncer
    site,           \* the lines the site has received and not answered
    downlink,       \* pieces of replies on their way to the bouncer
    told            \* what the client was sent

catches == <<responsecatch, origincatch, tlsstate>>
never   == <<siteaddrfam, manner>>     \* are chosen at the start
vars    == <<never, catches, commandbuf, replybuf, mitm, asked, uplink, site, downlink, told>>

Codes == {"150", "200", "226", "227", "229", "234", "502", "550U", "error"}

Pieces  == [of : 1 .. MaxCommands, end : BOOLEAN]
Lines   == [cmd : AllCommands \cup {"NOOP", "226"}, of : 1 .. MaxCommands,
            addr : {"none", "client", "bouncer"}]
\* `at' is what a 227 or 229 leads to: the site, or a listener of the bouncer;
\* `heard': the site's own code was this one.
Replies == [of : 1 .. MaxCommands, code : Codes, at : {"none", "site", "IPv4", "IPv6"},
            start : BOOLEAN, end : BOOLEAN, heard : BOOLEAN]

TypeOK ==
    /\ siteaddrfam \in {"IPv4", "IPv6"} /\ manner \in Manners
    /\ responsecatch \in {"NONE", "AUTH_TLS", "PASV", "EPSV", "PORT", "EPRT"}
    /\ origincatch \in {"NONE", "PASV", "EPSV_1", "EPSV_2", "PORT"}
    /\ tlsstate \in {"NONE", "QUERY", "IN_PROGRESS"}
    /\ mitm \in BOOLEAN
    /\ asked \in Seq(Commands) /\ Len(asked) <= MaxCommands
    /\ commandbuf \in Seq(Pieces) /\ uplink \in Seq(Pieces)
    /\ commandbuf # <<>> => ~commandbuf[Len(commandbuf)].end
    /\ site \in Seq(Lines)
    /\ replybuf \in Seq(Replies) /\ downlink \in Seq(Replies) /\ told \in Seq(Replies)
    /\ replybuf # <<>> => responsecatch # "NONE"

\* BncSessionClient::activate()
Init ==
    /\ siteaddrfam \in {"IPv4", "IPv6"} /\ manner \in Manners
    /\ responsecatch = "NONE" /\ origincatch = "NONE" /\ tlsstate = "NONE"
    /\ commandbuf = <<>> /\ replybuf = <<>> /\ mitm = FALSE
    /\ asked = <<>> /\ uplink = <<>> /\ site = <<>> /\ downlink = <<>> /\ told = <<>>

Final(r) == r.end /\ r.code \notin {"150", "550U"}
Answered(i) == \E k \in DOMAIN told : told[k].of = i /\ Final(told[k])
Begun(i) == \E k \in DOMAIN told : told[k].of = i /\ told[k].end

-----------------------------------------------------------------------------
(* The client.                                                             *)

\* It waits for the last reply to a command, or the first, or does not wait.
Patient ==
    CASE manner = "waits" -> \A i \in DOMAIN asked : Answered(i)
      [] manner = "begun" -> \A i \in DOMAIN asked : Begun(i)
      [] OTHER            -> TRUE

\* Lines are joined on their way, and those of a client that waits are cut as well.
Split == manner = "waits"

ClientSends ==
    /\ Len(asked) < MaxCommands /\ Patient
    /\ \A k \in DOMAIN told : told[k].code = "234" => mitm
    /\ \E c \in Commands :
          /\ c = "AUTH" => \A i \in DOMAIN asked : asked[i] = "AUTH" => ~AuthOnce /\ ~mitm
          /\ asked' = Append(asked, c)
    /\ uplink' = uplink \o LET i == Len(asked) + 1 IN
                           IF Split THEN <<[of |-> i, end |-> FALSE], [of |-> i, end |-> TRUE]>>
                           ELSE <<[of |-> i, end |-> TRUE]>>
    /\ UNCHANGED <<never, catches, commandbuf, replybuf, mitm, site, downlink, told>>

-----------------------------------------------------------------------------
(* sendData(): a block of the client's commands.                           *)

\* parse(): the buffer is one command as soon as its last byte is a newline; these
\* are the lines in it, by their numbers.
LinesOf(buf) == [k \in 1 .. Last(buf).of - Head(buf).of + 1 |-> Head(buf).of + k - 1]

\* What a buffer is taken for.  Of several lines only a first word that ends in a
\* space is seen: PASV and AUTH TLS are compared with the whole buffer.
Verb(ls) ==
    LET c == asked[ls[1]] IN
    IF Len(ls) = 1 \/ c \in {"PORT", "EPRT"} THEN c
    ELSE IF c \in {"EPSV 1", "EPSV 2"} THEN "EPSV 1" ELSE "other"

Passes(ls) ==
    site' = site \o [i \in DOMAIN ls |->
                        LET c == asked[ls[i]] IN
                        [cmd |-> c, of |-> ls[i],
                         addr |-> IF c \in {"PORT", "EPRT"} THEN "client" ELSE "none"]]

\* modifiedcommand takes the place of the whole buffer.
Becomes(ls, c) ==
    site' = Append(site, [cmd |-> c, of |-> ls[1],
                          addr |-> IF c \in {"PORT", "EPRT"} THEN "bouncer" ELSE "none"])

Catch(r, o) == responsecatch' = r /\ origincatch' = o

\* Seeded fault: AUTH TLS is noted, its reply is not caught.
Auth_NoCatch(ls) ==
    /\ Verb(ls) = "AUTH"
    /\ IF tlsstate = "NONE"
       THEN tlsstate' = "QUERY" /\ UNCHANGED <<responsecatch, origincatch>>
       ELSE UNCHANGED catches
    /\ Passes(ls)

Auth(ls) ==
    /\ Verb(ls) = "AUTH"
    /\ IF tlsstate = "NONE"
       THEN tlsstate' = "QUERY" /\ Catch("AUTH_TLS", origincatch)
       ELSE UNCHANGED catches
    /\ Passes(ls)

\* A passive command is sent on in the form for the family of the site.
Passive(ls) ==
    /\ \/ Verb(ls) = "PASV" /\ siteaddrfam = "IPv4" /\ Catch("PASV", origincatch) /\ Passes(ls)
       \/ Verb(ls) = "PASV" /\ siteaddrfam = "IPv6" /\ Catch("EPSV", "PASV") /\ Becomes(ls, "EPSV 2")
       \/ Verb(ls) = "EPSV 1" /\ siteaddrfam = "IPv4" /\ Catch("EPSV", origincatch) /\ Passes(ls)
       \/ Verb(ls) = "EPSV 1" /\ siteaddrfam = "IPv6" /\ Catch("EPSV", "EPSV_1") /\ Becomes(ls, "EPSV 2")
       \/ Verb(ls) = "EPSV 2" /\ siteaddrfam = "IPv4" /\ Catch("EPSV", "EPSV_2") /\ Becomes(ls, "EPSV 1")
       \/ Verb(ls) = "EPSV 2" /\ siteaddrfam = "IPv6" /\ Catch("EPSV", origincatch) /\ Passes(ls)
    /\ UNCHANGED tlsstate

\* activate() listens first; when the ports are exhausted the site gets a NOOP.
Active(ls) ==
    /\ \/ Verb(ls) = "PORT" /\ siteaddrfam = "IPv6" /\ Catch("EPRT", "PORT") /\ Becomes(ls, "EPRT")
       \/ /\ Verb(ls) = "PORT" /\ siteaddrfam = "IPv4" /\ Becomes(ls, "PORT")
          /\ UNCHANGED <<responsecatch, origincatch>>
       \/ Verb(ls) = "PORT" /\ Catch("PORT", origincatch) /\ Becomes(ls, "NOOP")
       \/ Verb(ls) = "EPRT" /\ Becomes(ls, "EPRT") /\ UNCHANGED <<responsecatch, origincatch>>
       \/ Verb(ls) = "EPRT" /\ Catch("EPRT", origincatch) /\ Becomes(ls, "NOOP")
    /\ UNCHANGED tlsstate

Plain(ls) == Verb(ls) \in {"XFER", "other"} /\ Passes(ls) /\ UNCHANGED catches

\* What may arrive in one block
Blocks(stream) == DOMAIN stream

\* Seeded fault: commandparser.reset() is missing.
FromClient_NoReset ==
    \E n \in Blocks(uplink) :
        /\ uplink' = SubSeq(uplink, n + 1, Len(uplink))
        /\ commandbuf' = commandbuf \o SubSeq(uplink, 1, n)
        /\ LET ls == LinesOf(commandbuf') IN
           IF Last(commandbuf').end
           THEN Auth(ls) \/ Passive(ls) \/ Active(ls) \/ Plain(ls)
           ELSE UNCHANGED <<catches, site>>
        /\ UNCHANGED <<never, replybuf, mitm, asked, downlink, told>>

FromClient ==
    \E n \in Blocks(uplink) :
        /\ uplink' = SubSeq(uplink, n + 1, Len(uplink))
        /\ LET buf == commandbuf \o SubSeq(uplink, 1, n)
               ls  == LinesOf(buf)
           IN IF Last(buf).end
              THEN /\ Auth(ls) \/ Passive(ls) \/ Active(ls) \/ Plain(ls)
                   /\ commandbuf' = <<>>
              ELSE commandbuf' = buf /\ UNCHANGED <<catches, site>>
        /\ UNCHANGED <<never, replybuf, mitm, asked, downlink, told>>

-----------------------------------------------------------------------------
(* The site.                                                               *)

Made(i, code, at, heard) ==
    [of |-> i, code |-> code, at |-> at, start |-> TRUE, end |-> TRUE, heard |-> heard]

\* A reply on its way.  The extra row is one short write and is not cut.
Sent(r) ==
    IF Split /\ r.code # "550U"
    THEN <<[r EXCEPT !.end = FALSE], [r EXCEPT !.start = FALSE]>>
    ELSE <<r>>

Answers(cmd) ==
    CASE cmd = "AUTH"                  -> {"234", "error"}
      [] cmd = "PASV"                  -> {"227", "error"}
      [] cmd \in {"EPSV 1", "EPSV 2"} -> {"229", "error"}
      [] cmd = "XFER"                  -> {"150", "error"}
      [] cmd = "226"                   -> {"226"}
      [] cmd = "NOOP"                  -> {"200"}
      [] OTHER                         -> {"200", "error"}

\* The first line is answered; a transfer has begun, and ends later.
SiteReplies ==
    /\ site # <<>>
    /\ \E code \in Answers(Head(site).cmd) :
          LET i == Head(site).of
              r == Made(i, code, IF code \in {"227", "229"} THEN "site" ELSE "none", TRUE)
          IN /\ site' = (IF code = "150" THEN <<[Head(site) EXCEPT !.cmd = "226"]>> ELSE <<>>)
                        \o Tail(site)
             /\ \/ downlink' = downlink \o Sent(r)
                \/ /\ code = "226"
                   /\ downlink' = downlink \o Sent(r) \o Sent(Made(i, "550U", "none", TRUE))
    /\ UNCHANGED <<never, catches, commandbuf, replybuf, mitm, asked, uplink, told>>

-----------------------------------------------------------------------------
(* FDData(): a block of the site's replies.                                *)

\* The family of the client's listener: the one it asked for.
OriginFamily ==
    CASE origincatch \in {"EPSV_1", "PASV"} -> "IPv4"
      [] origincatch = "EPSV_2"             -> "IPv6"
      [] OTHER                              -> siteaddrfam

\* Where the address of the reply with this code is.  find() takes the first
\* parenthesis of the buffer, and an address of the other form cannot be read.
Found(buf, code) ==
    {k \in DOMAIN buf : buf[k].code = code /\ \A j \in 1 .. k : buf[j].at = "site" => j = k}

\* The buffer as it is: its first parenthesis may be in another reply, but for the
\* extra row, which has none.
Unread(buf, code) ==
    IF \E f \in Found(buf, code) : \A k \in 1 .. f - 1 : buf[k].code = "550U" THEN {} ELSE {buf}

Readdressed(buf, f, at) ==
    [k \in DOMAIN buf |-> IF buf[k].of = buf[f].of /\ buf[k].at = "site"
                          THEN [buf[k] EXCEPT !.at = at] ELSE buf[k]]

\* What the client is told in place of the buffer: activate() finds a port or none.
Told(buf, code) ==
    LET Only(c, at, heard) == <<Made(Last(buf).of, c, at, heard)>>
        Exhausted == Only("502", "none", TRUE)
    IN CASE responsecatch = "PASV" /\ code = "227" ->
                Unread(buf, code)
                \cup UNION {{Exhausted, Readdressed(buf, f, "IPv4")} : f \in Found(buf, code)}
         [] responsecatch = "EPSV" /\ code = "229" ->
                Unread(buf, code)
                \cup UNION {{Exhausted,
                             IF origincatch = "PASV" THEN Only("227", OriginFamily, TRUE)
                             ELSE Readdressed(buf, f, OriginFamily)} : f \in Found(buf, code)}
         [] responsecatch = "EPRT" /\ origincatch = "PORT" ->
                {Only("200", "none", code = "200")}
         [] responsecatch = "PORT" \/ (responsecatch = "EPRT" /\ origincatch # "PORT") ->
                {Exhausted}
         [] OTHER -> {buf}

\* Seeded fault: origincatch is not reset.
Caught_OriginStays(buf, code) ==
    /\ \E t \in Told(buf, code) : told' = told \o t
    /\ IF responsecatch = "AUTH_TLS" /\ code = "234"
       THEN tlsstate' = "IN_PROGRESS" /\ mitm' = TRUE
       ELSE UNCHANGED <<tlsstate, mitm>>
    /\ Catch("NONE", origincatch) /\ replybuf' = <<>>

\* Seeded fault: responseparser.reset() is missing.
Caught_NoReset(buf, code) ==
    /\ \E t \in Told(buf, code) : told' = told \o t
    /\ IF responsecatch = "AUTH_TLS" /\ code = "234"
       THEN tlsstate' = "IN_PROGRESS" /\ mitm' = TRUE
       ELSE UNCHANGED <<tlsstate, mitm>>
    /\ Catch("NONE", "NONE") /\ replybuf' = buf

\* A complete reply ends the catch, whatever its code.
Caught(buf, code) ==
    /\ \E t \in Told(buf, code) : told' = told \o t
    /\ IF responsecatch = "AUTH_TLS" /\ code = "234"
       THEN tlsstate' = "IN_PROGRESS" /\ mitm' = TRUE
       ELSE UNCHANGED <<tlsstate, mitm>>
    /\ Catch("NONE", "NONE") /\ replybuf' = <<>>

\* Seeded fault: the extra row is taken for a reply.
Parse_ExtraRow(block) ==
    LET buf    == replybuf \o block
        starts == {k \in DOMAIN buf : buf[k].start}
    IN IF Last(buf).end /\ starts # {}
       THEN Caught(buf, buf[Max(starts)].code)
       ELSE replybuf' = buf /\ UNCHANGED <<catches, mitm, told>>

\* Seeded fault: every 550 is thrown away.
Parse_Any550(block) ==
    LET buf    == replybuf \o block
        starts == {k \in DOMAIN buf : buf[k].start}
    IN IF Last(buf).end /\ starts # {}
       THEN LET code == buf[Max(starts)].code IN
            IF code \in {"550U", "error"} THEN replybuf' = <<>> /\ UNCHANGED <<catches, mitm, told>>
            ELSE Caught(buf, code)
       ELSE \/ replybuf = <<>> /\ ~Head(block).start /\ Caught(buf, "none")
            \/ replybuf' = buf /\ UNCHANGED <<catches, mitm, told>>

\* parse(): the code is that of the last line that begins with one; the extra row
\* is thrown away with all that stands before it; a first block that does not begin
\* with three digits, the rest of a reply, counts as complete.
Parse(block) ==
    LET buf    == replybuf \o block
        starts == {k \in DOMAIN buf : buf[k].start}
    IN IF Last(buf).end /\ starts # {}
       THEN LET code == buf[Max(starts)].code IN
            IF code = "550U" THEN replybuf' = <<>> /\ UNCHANGED <<catches, mitm, told>>
            ELSE Caught(buf, code)
       ELSE \/ replybuf = <<>> /\ ~Head(block).start /\ Caught(buf, "none")
            \/ replybuf' = buf /\ UNCHANGED <<catches, mitm, told>>

FromSite ==
    \E n \in Blocks(downlink) :
        LET block == SubSeq(downlink, 1, n) IN
        /\ downlink' = SubSeq(downlink, n + 1, Len(downlink))
        /\ IF responsecatch = "NONE"
           THEN told' = told \o block /\ UNCHANGED <<catches, replybuf, mitm>>
           ELSE Parse(block)
        /\ UNCHANGED <<never, commandbuf, asked, uplink, site>>

-----------------------------------------------------------------------------
Next == ClientSends \/ FromClient \/ SiteReplies \/ FromSite

Spec == Init /\ [][Next]_vars

\* The IO thread and the worker go on, and the site answers in the end.
FairSpec == Spec /\ WF_vars(FromClient) /\ WF_vars(SiteReplies) /\ WF_vars(FromSite)

-----------------------------------------------------------------------------
\* Neither side learns the other's address: a passive reply names a listener of the
\* bouncer, of the family the client asked for, and so does a PORT or EPRT that the
\* site receives.
Bounced ==
    manner # "pipelines" =>
    /\ \A k \in DOMAIN told :
          LET r == told[k] IN
          r.code \in {"227", "229"} =>
              CASE asked[r.of] = "EPSV 2"           -> r.at = "IPv6"
                [] asked[r.of] \in {"PASV", "EPSV 1"} -> r.at = "IPv4"
                [] OTHER                            -> FALSE
    /\ \A k \in DOMAIN site : site[k].addr # "client"

Kinds(c) ==
    CASE c = "AUTH"                         -> {"234", "error"}
      [] c = "PASV"                         -> {"227", "502", "error"}
      [] c \in {"EPSV 1", "EPSV 2"}        -> {"229", "502", "error"}
      [] c \in {"PORT", "EPRT"}            -> {"200", "502", "error"}
      [] c = "XFER"                         -> {"150", "226", "550U", "error"}
      [] OTHER                              -> {"200", "error"}

\* A client is answered in the form it asked in, although the site was asked in
\* another: PASV by 227, EPSV by 229, and 502 comes only when ports are exhausted.
KindMatches ==
    manner = "waits" => \A k \in DOMAIN told : told[k].code \in Kinds(asked[told[k].of])

\* The client is not told that TLS begins unless the bouncer takes part in it;
\* otherwise it would wait for a newline in the middle of the handshake.
Intercepted ==
    manner = "waits" => \A k \in DOMAIN told : told[k].code = "234" /\ told[k].end => mitm

\* A client is told that its PORT succeeded only when the site accepted the EPRT.
TruthfulPort == \A k \in DOMAIN told : told[k].code = "200" => told[k].heard

\* Replies come in the order of the commands and each once, whatever is caught and
\* whichever command it was meant for.
InStep ==
    \A j, k \in DOMAIN told :
        j < k => /\ told[j].of <= told[k].of
                 /\ told[j].end /\ told[k].end /\ asked[told[j].of] # "XFER"
                        => told[j].of # told[k].of

\* Every command of a client that waits is answered in the end: no catch keeps a reply.
AllAnswered == \A i \in 1 .. MaxCommands : manner = "waits" /\ i <= Len(asked) ~> Answered(i)

\* Every command is answered in the end, whether or not the client waits.
NoneLost == \A i \in 1 .. MaxCommands : i <= Len(asked) ~> Answered(i)
=============================================================================
