-------------------------- MODULE CommandCatchProofs -------------------------
(***************************************************************************)
(* Theorems of CommandCatch, for any number of commands.                   *)
(***************************************************************************)
EXTENDS CommandCatch, SequenceTheorems, TLAPS

-----------------------------------------------------------------------------
(* Order: what the client has been told, what waits in the parser, what is *)
(* on its way, what the site has still to answer and what has not reached  *)
(* it are about commands in the order of their numbers.                    *)

\* Two replies, the first ahead of the second.
After(x, y) ==
    /\ x.of <= y.of
    /\ x.end /\ y.end /\ asked[x.of] # "XFER" => x.of # y.of

Ordered(q) == \A j, k \in DOMAIN q : j < k => After(q[j], q[k])
Ahead(p, q) == \A j \in DOMAIN p, k \in DOMAIN q : After(p[j], q[k])

\* A line the site has not answered, or has answered with the start of a transfer.
Owed(q) ==
    \A j \in DOMAIN q, k \in DOMAIN site :
        /\ q[j].of <= site[k].of
        /\ q[j].end /\ asked[q[j].of] # "XFER" => q[j].of # site[k].of

\* Commands that have not reached the site, ahead of which are all of q.
Unsent(q) ==
    /\ \A j \in DOMAIN q, k \in DOMAIN commandbuf : q[j].of < commandbuf[k].of
    /\ \A j \in DOMAIN q, k \in DOMAIN uplink : q[j].of < uplink[k].of

Known(q) == \A j \in DOMAIN q : q[j].of <= Len(asked)

OrderInv ==
    /\ Ordered(told) /\ Ordered(replybuf) /\ Ordered(downlink)
    /\ Ahead(told, replybuf) /\ Ahead(told, downlink) /\ Ahead(replybuf, downlink)
    /\ Owed(told) /\ Owed(replybuf) /\ Owed(downlink)
    /\ \A j, k \in DOMAIN site : j < k => site[j].of < site[k].of
    /\ \A j \in DOMAIN site : site[j].cmd \in {"XFER", "226"} <=> asked[site[j].of] = "XFER"
    /\ Unsent(told) /\ Unsent(replybuf) /\ Unsent(downlink) /\ Unsent(site)
    /\ Known(told) /\ Known(replybuf) /\ Known(downlink) /\ Known(site)
    /\ Known(commandbuf) /\ Known(uplink)

-----------------------------------------------------------------------------
(* Shape: how the pieces lie when lines are not cut, and when they are.    *)

Unsplit ==
    /\ commandbuf = <<>> /\ replybuf = <<>>
    /\ \A k \in DOMAIN downlink : downlink[k].start /\ downlink[k].end
    /\ \A k \in DOMAIN uplink : uplink[k].end
    /\ \A k \in DOMAIN uplink : uplink[k].of = Len(asked) - Len(uplink) + k

Piece(i, b) == [of |-> i, end |-> b]
Start(r) == [r EXCEPT !.end = FALSE]
Rest(r) == [r EXCEPT !.start = FALSE]

\* glftpd's extra row, which may be left when the next command is sent.
Rows == {r \in Replies : r.code = "550U" /\ r.at = "none" /\ r.start /\ r.end}
Stray == {<<>>} \cup {<<r>> : r \in Rows}

\* The last command has not reached the site.
Leaving ==
    /\ \/ commandbuf = <<>> /\ uplink = <<Piece(Len(asked), FALSE), Piece(Len(asked), TRUE)>>
       \/ commandbuf = <<Piece(Len(asked), FALSE)>> /\ uplink = <<Piece(Len(asked), TRUE)>>
    /\ site = <<>> /\ replybuf = <<>> /\ downlink \in Stray
    /\ responsecatch = "NONE"

\* It has, and its reply is to be caught.
Whole == {r \in Replies : r.of = Len(asked) /\ r.start /\ r.end /\ Final(r)}
Catching ==
    /\ commandbuf = <<>> /\ uplink = <<>>
    /\ responsecatch # "NONE"
    /\ asked # <<>> /\ \A k \in DOMAIN told : told[k].of < Len(asked)
    /\ \E s \in Stray :
         \/ /\ Len(site) = 1 /\ site[1].of = Len(asked) /\ site[1].cmd \notin {"XFER", "226"}
            /\ replybuf = <<>> /\ downlink = s
         \/ /\ site = <<>>
            /\ \E r \in Whole :
                 \/ replybuf = <<>> /\ downlink = s \o <<Start(r), Rest(r)>>
                 \/ replybuf = s \o <<Start(r)>> /\ downlink = <<Rest(r)>>

\* It has, and what the site says is passed on.
Passing ==
    /\ commandbuf = <<>> /\ uplink = <<>> /\ replybuf = <<>>
    /\ responsecatch = "NONE"
    /\ site # <<>> => Len(site) = 1 /\ site[1].of = Len(asked)
    /\ \A k \in DOMAIN downlink :
         Final(downlink[k]) => /\ site = <<>>
                               /\ SubSeq(downlink, k + 1, Len(downlink)) \in Stray
    /\ \A k \in DOMAIN told :
         Final(told[k]) /\ told[k].of = Len(asked) => site = <<>> /\ downlink \in Stray
    /\ asked = <<>> => site = <<>> /\ downlink = <<>>

Shape == IF Split THEN Leaving \/ Catching \/ Passing ELSE Unsplit

-----------------------------------------------------------------------------
(* Sequences.                                                              *)

\* The pieces of two streams joined.
LEMMA Concat ==
    ASSUME NEW S, NEW p \in Seq(S), NEW q \in Seq(S)
    PROVE  /\ p \o q \in Seq(S)
           /\ \A k \in DOMAIN p : k \in DOMAIN (p \o q) /\ (p \o q)[k] = p[k]
           /\ \A k \in DOMAIN q : /\ Len(p) + k \in DOMAIN (p \o q)
                                  /\ (p \o q)[Len(p) + k] = q[k]
           /\ \A k \in DOMAIN (p \o q) :
                 \/ k \in DOMAIN p /\ (p \o q)[k] = p[k]
                 \/ k - Len(p) \in DOMAIN q /\ (p \o q)[k] = q[k - Len(p)] /\ k > Len(p)
  OBVIOUS

\* A stream, cut behind its nth piece.
LEMMA CutAt ==
    ASSUME NEW S, NEW q \in Seq(S), NEW n \in DOMAIN q
    PROVE  /\ SubSeq(q, 1, n) \in Seq(S) /\ SubSeq(q, n + 1, Len(q)) \in Seq(S)
           /\ Len(SubSeq(q, 1, n)) = n /\ n \in Nat /\ n >= 1 /\ n <= Len(q)
           /\ Len(SubSeq(q, n + 1, Len(q))) = Len(q) - n
           /\ \A k \in DOMAIN SubSeq(q, 1, n) :
                 k \in DOMAIN q /\ k <= n /\ SubSeq(q, 1, n)[k] = q[k]
           /\ \A k \in DOMAIN SubSeq(q, n + 1, Len(q)) :
                 k \in Nat /\ k >= 1 /\ n + k \in DOMAIN q /\ SubSeq(q, n + 1, Len(q))[k] = q[n + k]
<1>1. n \in Nat /\ n >= 1 /\ n <= Len(q) /\ DOMAIN q = 1 .. Len(q) /\ Len(q) \in Nat
  OBVIOUS
<1>2. /\ SubSeq(q, 1, n) \in Seq(S) /\ Len(SubSeq(q, 1, n)) = n
      /\ \A k \in 1 .. n : SubSeq(q, 1, n)[k] = q[k]
  BY <1>1
<1>3. /\ SubSeq(q, n + 1, Len(q)) \in Seq(S) /\ Len(SubSeq(q, n + 1, Len(q))) = Len(q) - n
      /\ \A k \in 1 .. Len(q) - n : SubSeq(q, n + 1, Len(q))[k] = q[n + k]
  BY <1>1
<1> QED BY <1>1, <1>2, <1>3

\* Streams of a few pieces, and their parts.
LEMMA Few ==
    ASSUME NEW S, NEW q \in Seq(S)
    PROVE  /\ Len(q) = 0 => q = <<>>
           /\ Len(q) = 1 => q = <<q[1]>>
           /\ Len(q) = 2 => q = <<q[1], q[2]>>
           /\ Len(q) = 3 => q = <<q[1], q[2], q[3]>>
  OBVIOUS
\* What a part of a stream of one, two or three pieces is.
LEMMA Part ==
    ASSUME NEW S, NEW p \in Seq(S), NEW m \in 1 .. Len(p) + 1, NEW n \in m - 1 .. Len(p)
    PROVE  /\ SubSeq(p, m, n) \in Seq(S) /\ Len(SubSeq(p, m, n)) = n - m + 1
           /\ m > n => SubSeq(p, m, n) = <<>>
           /\ m = n => SubSeq(p, m, n) = <<p[m]>>
           /\ m + 1 = n => SubSeq(p, m, n) = <<p[m], p[n]>>
           /\ m + 2 = n => SubSeq(p, m, n) = <<p[m], p[m + 1], p[n]>>
<1> DEFINE q == SubSeq(p, m, n)
<1>1. q \in Seq(S) /\ Len(q) = n - m + 1 /\ \A k \in 1 .. n - m + 1 : q[k] = p[m + k - 1]
  OBVIOUS
<1> HIDE DEF q
<1>2. m > n => q = <<>>
  BY <1>1
<1>3. m = n => q = <<p[m]>>
  <2> HAVE m = n
  <2>1. Len(q) = 1 /\ q[1] = p[m]
    BY <1>1
  <2> QED BY <1>1, <2>1, Few
<1>4. m + 1 = n => q = <<p[m], p[n]>>
  <2> HAVE m + 1 = n
  <2>1. Len(q) = 2 /\ q[1] = p[m] /\ q[2] = p[n]
    BY <1>1
  <2> QED BY <1>1, <2>1, Few
<1>5. m + 2 = n => q = <<p[m], p[m + 1], p[n]>>
  <2> HAVE m + 2 = n
  <2>1. Len(q) = 3 /\ q[1] = p[m] /\ q[2] = p[m + 1] /\ q[3] = p[n]
    BY <1>1
  <2> QED BY <1>1, <2>1, Few
<1> QED BY <1>1, <1>2, <1>3, <1>4, <1>5 DEF q

\* The parts of a stream of one piece or two.
LEMMA Short ==
    ASSUME NEW S, NEW x \in S, NEW y \in S
    PROVE  /\ SubSeq(<<x>>, 1, 1) = <<x>> /\ SubSeq(<<x>>, 1 + 1, 1) = <<>>
           /\ SubSeq(<<x, y>>, 1, 1) = <<x>> /\ SubSeq(<<x, y>>, 1 + 1, 2) = <<y>>
           /\ SubSeq(<<x, y>>, 1, 2) = <<x, y>> /\ SubSeq(<<x, y>>, 2 + 1, 2) = <<>>
           /\ DOMAIN <<x>> = {1} /\ DOMAIN <<x, y>> = {1, 2}
           /\ Last(<<x>>) = x /\ Last(<<x, y>>) = y
           /\ Head(<<x>>) = x /\ Head(<<x, y>>) = x
           /\ <<>> \o <<x>> = <<x>> /\ <<>> \o <<x, y>> = <<x, y>> /\ <<x>> \o <<y>> = <<x, y>>
           /\ Len(<<x>>) = 1 /\ Len(<<x, y>>) = 2
           /\ <<x>> # <<>> /\ <<x, y>> # <<>>
<1>1. <<x>> \in Seq(S) /\ <<x, y>> \in Seq(S) /\ Len(<<x>>) = 1 /\ Len(<<x, y>>) = 2
      /\ <<x>>[1] = x /\ <<x, y>>[1] = x /\ <<x, y>>[2] = y
  OBVIOUS
<1>2. \A p \in Seq(S) : Len(p) = 1 => SubSeq(p, 1, 1) = <<p[1]>> /\ SubSeq(p, 1 + 1, 1) = <<>>
  <2>1. ASSUME NEW p \in Seq(S), Len(p) = 1
        PROVE SubSeq(p, 1, 1) = <<p[1]>> /\ SubSeq(p, 1 + 1, 1) = <<>>
    <3>1. /\ 1 \in 1 .. Len(p) + 1 /\ 1 + 1 \in 1 .. Len(p) + 1
          /\ 1 \in 0 .. Len(p) /\ 1 \in 1 .. Len(p)
      BY <2>1
    <3>2. SubSeq(p, 1, 1) = <<p[1]>>
      BY <3>1, Part
    <3>3. SubSeq(p, 1 + 1, 1) = <<>>
      BY <3>1, Part
    <3> QED BY <3>2, <3>3
  <2> QED BY <2>1
<1>3. \A p \in Seq(S) : Len(p) = 2 =>
         /\ SubSeq(p, 1, 1) = <<p[1]>> /\ SubSeq(p, 1 + 1, 2) = <<p[2]>>
         /\ SubSeq(p, 1, 2) = <<p[1], p[2]>> /\ SubSeq(p, 2 + 1, 2) = <<>>
  <2>1. ASSUME NEW p \in Seq(S), Len(p) = 2
        PROVE /\ SubSeq(p, 1, 1) = <<p[1]>> /\ SubSeq(p, 1 + 1, 2) = <<p[2]>>
              /\ SubSeq(p, 1, 2) = <<p[1], p[2]>> /\ SubSeq(p, 2 + 1, 2) = <<>>
    <3>1. 1 \in 1 .. Len(p) + 1 /\ 1 + 1 \in 1 .. Len(p) + 1 /\ 2 + 1 \in 1 .. Len(p) + 1
          /\ 1 \in 0 .. Len(p) /\ 2 \in 0 .. Len(p) /\ 2 \in 1 .. Len(p) /\ 2 \in 2 .. Len(p)
      BY <2>1
    <3>2. SubSeq(p, 1, 1) = <<p[1]>>
      BY <3>1, Part
    <3>3. SubSeq(p, 1 + 1, 2) = <<p[2]>>
      BY <3>1, Part
    <3>4. SubSeq(p, 1, 2) = <<p[1], p[2]>>
      BY <3>1, Part
    <3>5. SubSeq(p, 2 + 1, 2) = <<>>
      BY <3>1, Part
    <3> QED BY <3>2, <3>3, <3>4, <3>5
  <2> QED BY <2>1
<1>4. /\ DOMAIN <<x>> = {1} /\ DOMAIN <<x, y>> = {1, 2}
      /\ Last(<<x>>) = x /\ Last(<<x, y>>) = y /\ Head(<<x>>) = x /\ Head(<<x, y>>) = x
      /\ <<x>> # <<>> /\ <<x, y>> # <<>>
  BY DEF Last
<1>5. <<>> \o <<x>> = <<x>> /\ <<>> \o <<x, y>> = <<x, y>>
  OBVIOUS
<1>6. <<x>> \o <<y>> = <<x, y>>
  <2>1. <<x>> \o <<y>> \in Seq(S) /\ Len(<<x>> \o <<y>>) = 2
        /\ (<<x>> \o <<y>>)[1] = x /\ (<<x>> \o <<y>>)[2] = y
    OBVIOUS
  <2> QED BY <2>1, Few
<1> QED BY <1>1, <1>2, <1>3, <1>4, <1>5, <1>6

\* What is behind the first m pieces of a stream.
LEMMA Suffix ==
    ASSUME NEW S, NEW p \in Seq(S), NEW m \in 0 .. Len(p)
    PROVE  LET c == SubSeq(p, m + 1, Len(p)) IN
           /\ c \in Seq(S) /\ Len(c) = Len(p) - m /\ DOMAIN c = 1 .. Len(p) - m
           /\ \A j \in 1 .. Len(p) - m : c[j] = p[m + j] /\ m + j \in DOMAIN p
<1>1. \A j \in 1 .. Len(p) - m : m + j \in DOMAIN p
  OBVIOUS
<1> DEFINE c == SubSeq(p, m + 1, Len(p)) 
<1>2. c \in Seq(S) /\ Len(c) = Len(p) - m
  BY <1>1
<1>3. \A j \in 1 .. Len(p) - m : c[j] = p[m + j]
  OBVIOUS
<1> HIDE DEF c
<1>4. DOMAIN c = 1 .. Len(p) - m
  BY <1>2
<1> QED BY <1>1, <1>2, <1>3, <1>4 DEF c

\* The rest of a rest.
LEMMA SuffixOf ==
    ASSUME NEW S, NEW p \in Seq(S), NEW m \in 0 .. Len(p), NEW k \in 0 .. Len(p) - m,
           NEW d, d = SubSeq(p, m + 1, Len(p))
    PROVE  SubSeq(d, k + 1, Len(d)) = SubSeq(p, m + k + 1, Len(p))
<1>1. /\ d \in Seq(S) /\ Len(d) = Len(p) - m
      /\ \A j \in 1 .. Len(p) - m : d[j] = p[m + j]
  BY Suffix
<1>2. k \in 0 .. Len(d) /\ m + k \in 0 .. Len(p) /\ Len(d) - k = Len(p) - (m + k)
  BY <1>1
<1> DEFINE s == SubSeq(d, k + 1, Len(d))  t == SubSeq(p, m + k + 1, Len(p))
<1>3. s \in Seq(S) /\ Len(s) = Len(d) - k /\ \A j \in 1 .. Len(d) - k : s[j] = d[k + j]
  BY <1>1, <1>2, Suffix
<1>4. t \in Seq(S) /\ Len(t) = Len(p) - (m + k) /\ \A j \in 1 .. Len(p) - (m + k) : t[j] = p[m + k + j]
  BY <1>2, Suffix
<1>5. \A j \in 1 .. Len(d) - k : d[k + j] = p[m + k + j]
  <2>1. ASSUME NEW j \in 1 .. Len(d) - k PROVE d[k + j] = p[m + k + j]
    <3>1. k + j \in 1 .. Len(p) - m /\ m + (k + j) = m + k + j
      BY <1>1, <2>1
    <3> QED BY <1>1, <3>1
  <2> QED BY <2>1
<1> HIDE DEF s, t
<1> QED BY <1>2, <1>3, <1>4, <1>5, SeqEqual

-----------------------------------------------------------------------------
(* What concatenation and replacement do to the order.                     *)

\* Two ordered streams joined, the first ahead of the second.
LEMMA OrderedConcat ==
    ASSUME NEW p \in Seq(Replies), NEW q \in Seq(Replies)
    PROVE  /\ Ordered(p) /\ Ordered(q) /\ Ahead(p, q) => Ordered(p \o q)
           /\ \A r : Ahead(p, r) /\ Ahead(q, r) => Ahead(p \o q, r)
           /\ \A r : Ahead(r, p) /\ Ahead(r, q) => Ahead(r, p \o q)
           /\ Owed(p) /\ Owed(q) => Owed(p \o q)
           /\ Unsent(p) /\ Unsent(q) => Unsent(p \o q)
           /\ Known(p) /\ Known(q) => Known(p \o q)
<1> DEFINE r == p \o q
<1>1. \A k \in DOMAIN r :
        \/ k \in DOMAIN p /\ r[k] = p[k]
        \/ k - Len(p) \in DOMAIN q /\ r[k] = q[k - Len(p)] /\ k > Len(p)
  BY Concat
<1>2. DOMAIN p = 1 .. Len(p) /\ DOMAIN q = 1 .. Len(q) /\ Len(p) \in Nat /\ DOMAIN r \subseteq Nat
  OBVIOUS
<1> HIDE DEF r
<1>3. ASSUME Ordered(p), Ordered(q), Ahead(p, q) PROVE Ordered(r)
  <2>1. ASSUME NEW j \in DOMAIN r, NEW k \in DOMAIN r, j < k PROVE After(r[j], r[k])
    <3>1. CASE j \in DOMAIN p /\ r[j] = p[j]
      <4>1. CASE k \in DOMAIN p /\ r[k] = p[k]
        BY <1>3, <2>1, <3>1, <4>1 DEF Ordered
      <4>2. CASE k - Len(p) \in DOMAIN q /\ r[k] = q[k - Len(p)]
        BY <1>3, <3>1, <4>2 DEF Ahead
      <4> QED BY <1>1, <4>1, <4>2
    <3>2. CASE j - Len(p) \in DOMAIN q /\ r[j] = q[j - Len(p)] /\ j > Len(p)
      <4>1. k > Len(p) /\ k - Len(p) \in DOMAIN q /\ r[k] = q[k - Len(p)]
        BY <1>1, <1>2, <2>1, <3>2
      <4>2. j - Len(p) < k - Len(p)
        BY <1>2, <2>1
      <4> QED BY <1>3, <3>2, <4>1, <4>2 DEF Ordered
    <3> QED BY <1>1, <3>1, <3>2
  <2> QED BY <2>1 DEF Ordered
<1>4. \A s : (Ahead(p, s) /\ Ahead(q, s) => Ahead(r, s)) /\ (Ahead(s, p) /\ Ahead(s, q) => Ahead(s, r))
  BY <1>1 DEF Ahead
<1>5. Owed(p) /\ Owed(q) => Owed(r)
  BY <1>1 DEF Owed
<1>6. (Unsent(p) /\ Unsent(q) => Unsent(r)) /\ (Known(p) /\ Known(q) => Known(r))
  BY <1>1 DEF Unsent, Known
<1> QED BY <1>3, <1>4, <1>5, <1>6 DEF r

\* t is told in place of q: the same commands are answered, none twice.
Replaces(t, q) ==
    /\ t \in Seq(Replies) /\ Ordered(t)
    /\ \A k \in DOMAIN t : \E m \in DOMAIN q : t[k].of = q[m].of /\ (t[k].end => q[m].end)

\* Order is a matter of the commands alone: it survives a replacement.
LEMMA ReplacesOrder ==
    ASSUME NEW t, NEW q, Replaces(t, q)
    PROVE  /\ \A r : Ahead(q, r) => Ahead(t, r)
           /\ \A r : Ahead(r, q) => Ahead(r, t)
           /\ Owed(q) => Owed(t)
           /\ Unsent(q) => Unsent(t)
           /\ Known(q) => Known(t)
<1>1. \A r : (Ahead(q, r) => Ahead(t, r)) /\ (Ahead(r, q) => Ahead(r, t))
  BY DEF Replaces, Ahead, After
<1>2. Owed(q) => Owed(t)
  BY DEF Replaces, Owed
<1>3. (Unsent(q) => Unsent(t)) /\ (Known(q) => Known(t))
  BY DEF Replaces, Unsent, Known
<1> QED BY <1>1, <1>2, <1>3

\* The block the parser is given and the rest of what is on its way.
LEMMA BlockOrder ==
    ASSUME NEW q \in Seq(Replies), NEW n \in DOMAIN q
    PROVE  LET b == SubSeq(q, 1, n)  c == SubSeq(q, n + 1, Len(q)) IN
           /\ Ordered(q) => Ordered(b) /\ Ordered(c) /\ Ahead(b, c)
           /\ \A r : Ahead(r, q) => Ahead(r, b) /\ Ahead(r, c)
           /\ Owed(q) => Owed(b) /\ Owed(c)
           /\ Unsent(q) => Unsent(b) /\ Unsent(c)
           /\ Known(q) => Known(b) /\ Known(c)
<1> DEFINE b == SubSeq(q, 1, n)  c == SubSeq(q, n + 1, Len(q))
<1>1. /\ \A k \in DOMAIN b : k \in DOMAIN q /\ k <= n /\ b[k] = q[k]
      /\ \A k \in DOMAIN c : k \in Nat /\ k >= 1 /\ n + k \in DOMAIN q /\ c[k] = q[n + k]
      /\ n \in Nat /\ DOMAIN q \subseteq Nat
  BY CutAt
<1> HIDE DEF b, c
<1>2. ASSUME Ordered(q) PROVE Ordered(b) /\ Ordered(c) /\ Ahead(b, c)
  <2>1. Ordered(b)
    BY <1>1, <1>2 DEF Ordered
  <2>2. Ordered(c)
    <3>1. ASSUME NEW j \in DOMAIN c, NEW k \in DOMAIN c, j < k PROVE After(c[j], c[k])
      <4>1. n + j < n + k
        BY <1>1, <3>1
      <4> QED BY <1>1, <1>2, <4>1 DEF Ordered
    <3> QED BY <3>1 DEF Ordered
  <2>3. Ahead(b, c)
    <3>1. ASSUME NEW j \in DOMAIN b, NEW k \in DOMAIN c PROVE After(b[j], c[k])
      <4>1. j < n + k
        BY <1>1
      <4> QED BY <1>1, <1>2, <4>1 DEF Ordered
    <3> QED BY <3>1 DEF Ahead
  <2> QED BY <2>1, <2>2, <2>3
<1>3. \A r : Ahead(r, q) => Ahead(r, b) /\ Ahead(r, c)
  BY <1>1 DEF Ahead
<1>4. Owed(q) => Owed(b) /\ Owed(c)
  BY <1>1 DEF Owed
<1>5. (Unsent(q) => Unsent(b) /\ Unsent(c)) /\ (Known(q) => Known(b) /\ Known(c))
  BY <1>1 DEF Unsent, Known
<1> QED BY <1>2, <1>3, <1>4, <1>5 DEF b, c

\* The order, in terms of the streams after a step of FromSite.
LEMMA SiteStepOrder ==
    ASSUME OrderInv, UNCHANGED <<asked, commandbuf, uplink, site>>,
           Ordered(told'), Ordered(replybuf'), Ordered(downlink'),
           Ahead(told', replybuf'), Ahead(told', downlink'), Ahead(replybuf', downlink'),
           Owed(told'), Owed(replybuf'), Owed(downlink'),
           Unsent(told'), Unsent(replybuf'), Unsent(downlink'),
           Known(told'), Known(replybuf'), Known(downlink')
    PROVE  OrderInv'
<1> USE DEF OrderInv
<1>1. Ordered(told)' /\ Ordered(replybuf)' /\ Ordered(downlink)'
  BY DEF Ordered, After
<1>2. Ahead(told, replybuf)' /\ Ahead(told, downlink)' /\ Ahead(replybuf, downlink)'
  BY DEF Ahead, After
<1>3. Owed(told)' /\ Owed(replybuf)' /\ Owed(downlink)'
  BY DEF Owed
<1>4. Unsent(told)' /\ Unsent(replybuf)' /\ Unsent(downlink)' /\ Unsent(site)'
  BY DEF Unsent
<1>5. /\ Known(told)' /\ Known(replybuf)' /\ Known(downlink)' /\ Known(site)'
      /\ Known(commandbuf)' /\ Known(uplink)'
  BY DEF Known
<1> QED BY <1>1, <1>2, <1>3, <1>4, <1>5

\* The first n pieces that are on their way reach the parser.
Arrive(n) ==
    /\ n \in DOMAIN downlink
    /\ downlink' = SubSeq(downlink, n + 1, Len(downlink))
    /\ UNCHANGED <<asked, commandbuf, uplink, site>>

\* What the parser then holds.
Buffer(n) == replybuf \o SubSeq(downlink, 1, n)

\* What reaches the parser, and what is left behind it, lie in order.
LEMMA BufferOrder ==
    ASSUME TypeOK, OrderInv, NEW n, Arrive(n)
    PROVE  /\ Buffer(n) \in Seq(Replies) /\ downlink' \in Seq(Replies)
           /\ Ordered(Buffer(n)) /\ Ordered(downlink')
           /\ Ahead(told, Buffer(n)) /\ Ahead(told, downlink') /\ Ahead(Buffer(n), downlink')
           /\ Owed(Buffer(n)) /\ Owed(downlink')
           /\ Unsent(Buffer(n)) /\ Unsent(downlink')
           /\ Known(Buffer(n)) /\ Known(downlink')
<1> DEFINE b == SubSeq(downlink, 1, n)  c == SubSeq(downlink, n + 1, Len(downlink))
<1>1. /\ downlink \in Seq(Replies) /\ replybuf \in Seq(Replies) /\ n \in DOMAIN downlink
      /\ downlink' = c
  BY DEF TypeOK, Arrive
<1>2. b \in Seq(Replies) /\ c \in Seq(Replies)
  BY <1>1, CutAt, Zenon
<1>3. /\ Ordered(b) /\ Ordered(c) /\ Ahead(b, c)
      /\ Ahead(told, b) /\ Ahead(told, c) /\ Ahead(replybuf, b) /\ Ahead(replybuf, c)
      /\ Owed(b) /\ Owed(c) /\ Unsent(b) /\ Unsent(c) /\ Known(b) /\ Known(c)
  <2>1. /\ Ordered(downlink) /\ Ahead(told, downlink) /\ Ahead(replybuf, downlink)
        /\ Owed(downlink) /\ Unsent(downlink) /\ Known(downlink)
    BY DEF OrderInv
  <2> QED BY <1>1, <2>1, BlockOrder, Zenon
<1> HIDE DEF b, c
<1>4. /\ Ordered(replybuf) /\ Ahead(told, replybuf)
      /\ Owed(replybuf) /\ Unsent(replybuf) /\ Known(replybuf)
  BY DEF OrderInv
<1>5. /\ Ordered(replybuf \o b)
      /\ Ahead(told, replybuf \o b) /\ Ahead(replybuf \o b, c)
      /\ Owed(replybuf \o b) /\ Unsent(replybuf \o b) /\ Known(replybuf \o b)
  BY <1>1, <1>2, <1>3, <1>4, OrderedConcat, Zenon
<1>6. replybuf \o b \in Seq(Replies)
  BY <1>1, <1>2, Concat
<1>7. Buffer(n) = replybuf \o b
  BY DEF Buffer, b
<1> QED BY <1>1, <1>2, <1>3, <1>5, <1>6, <1>7, Zenon

\* An empty stream is in order.
LEMMA EmptyOrder ==
    /\ Ordered(<<>>) /\ Owed(<<>>) /\ Unsent(<<>>) /\ Known(<<>>)
    /\ \A r : Ahead(<<>>, r) /\ Ahead(r, <<>>)
  BY DEF Ordered, Owed, Unsent, Known, Ahead

\* The buffer is held back, or something is told in its place.
LEMMA HeldOrder ==
    ASSUME TypeOK, OrderInv, NEW n, Arrive(n), replybuf' = Buffer(n), told' = told
    PROVE  OrderInv'
<1>1. Ordered(told) /\ Owed(told) /\ Unsent(told) /\ Known(told)
  BY DEF OrderInv
<1> QED BY <1>1, BufferOrder, SiteStepOrder DEF Arrive

\* t is told in place of the buffer.
LEMMA ToldOrder ==
    ASSUME TypeOK, OrderInv, NEW n, Arrive(n), replybuf' = <<>>,
           NEW t, Replaces(t, Buffer(n)), told' = told \o t
    PROVE  OrderInv'
<1>1. told \in Seq(Replies) /\ t \in Seq(Replies) /\ Ordered(t)
  BY DEF TypeOK, Replaces
<1>2. /\ Ahead(told, t) /\ Ahead(t, downlink') /\ Owed(t) /\ Unsent(t) /\ Known(t)
  <2>1. PICK q, d : q = Buffer(n) /\ d = downlink'
    OBVIOUS
  <2>2. Ahead(told, q) /\ Ahead(q, d) /\ Owed(q) /\ Unsent(q) /\ Known(q) /\ Replaces(t, q)
    BY <2>1, BufferOrder
  <2>3. Ahead(told, t) /\ Ahead(t, d) /\ Owed(t) /\ Unsent(t) /\ Known(t)
    BY <2>2, ReplacesOrder, Zenon
  <2> QED BY <2>1, <2>3
<1>3. Ordered(told) /\ Owed(told) /\ Unsent(told) /\ Known(told)
  BY DEF OrderInv
<1>4. Ahead(told, downlink')
  BY BufferOrder
<1>5. /\ Ordered(told \o t) /\ Ahead(told \o t, downlink')
      /\ Owed(told \o t) /\ Unsent(told \o t) /\ Known(told \o t)
  <2>1. PICK d : d = downlink'
    OBVIOUS
  <2> QED BY <1>1, <1>2, <1>3, <1>4, <2>1, OrderedConcat, Zenon
<1> QED BY <1>5, BufferOrder, EmptyOrder, SiteStepOrder DEF Arrive

\* The site answers its first line: i is the command it answers, and unless that
\* is a transfer which has begun, the line is gone.
Answer(i) ==
    /\ site # <<>> /\ Head(site).of = i
    /\ \/ site' = Tail(site)
       \/ /\ asked[i] = "XFER"
          /\ site' = <<[Head(site) EXCEPT !.cmd = "226"]>> \o Tail(site)

\* The lines the site has still to answer after it answered one.
LEMMA AnswerLines ==
    ASSUME TypeOK, NEW i, Answer(i)
    PROVE  /\ i \in 1 .. MaxCommands /\ 1 \in DOMAIN site /\ site[1] \in Lines /\ site[1].of = i
           /\ site' \in Seq(Lines)
           /\ \A k \in DOMAIN site' :
                 \/ k + 1 \in DOMAIN site /\ site'[k] = site[k + 1] /\ Len(site') = Len(site) - 1
                 \/ k # 1 /\ k \in DOMAIN site /\ site'[k] = site[k] /\ Len(site') = Len(site)
                 \/ /\ k = 1 /\ asked[i] = "XFER" /\ Len(site') = Len(site)
                    /\ site'[k] = [site[1] EXCEPT !.cmd = "226"]
<1>1. site \in Seq(Lines) /\ site # <<>>
  BY DEF TypeOK, Answer
<1>2. /\ Len(site) \in Nat /\ Len(site) >= 1 /\ DOMAIN site = 1 .. Len(site)
      /\ Head(site) = site[1] /\ site[1] \in Lines
      /\ Tail(site) \in Seq(Lines) /\ Len(Tail(site)) = Len(site) - 1
      /\ \A k \in 1 .. Len(site) - 1 : Tail(site)[k] = site[k + 1]
  BY <1>1
<1>3. i \in 1 .. MaxCommands /\ site[1].of = i /\ 1 \in DOMAIN site
  BY <1>2 DEF Answer, Lines
<1>4. CASE site' = Tail(site)
  <2>1. /\ site' \in Seq(Lines) /\ Len(site') = Len(site) - 1 /\ DOMAIN site' = 1 .. Len(site) - 1
        /\ \A k \in 1 .. Len(site) - 1 : site'[k] = site[k + 1]
    BY <1>2, <1>4
  <2>2. \A k \in 1 .. Len(site) - 1 : k + 1 \in DOMAIN site
    BY <1>2
  <2>3. \A k \in DOMAIN site' : /\ k + 1 \in DOMAIN site /\ site'[k] = site[k + 1]
                               /\ Len(site') = Len(site) - 1
    BY <2>1, <2>2
  <2> QED BY <1>2, <1>3, <2>1, <2>3, Zenon
<1>5. CASE asked[i] = "XFER" /\ site' = <<[Head(site) EXCEPT !.cmd = "226"]>> \o Tail(site)
  <2> DEFINE h == [site[1] EXCEPT !.cmd = "226"]
  <2>1. h \in Lines
    BY <1>2 DEF Lines
  <2>2. site' = <<h>> \o Tail(site)
    BY <1>2, <1>5
  <2> HIDE DEF h
  <2>3. /\ site' \in Seq(Lines) /\ Len(site') = Len(site)
        /\ site'[1] = h
        /\ \A k \in 2 .. Len(site) : site'[k] = Tail(site)[k - 1]
    BY <1>2, <2>1, <2>2
  <2>4. \A k \in 2 .. Len(site) : Tail(site)[k - 1] = site[k]
    BY <1>2
  <2>5. DOMAIN site' = 1 .. Len(site)
    BY <1>2, <2>3
  <2>6. \A k \in DOMAIN site' : k = 1 \/ (k # 1 /\ k \in 2 .. Len(site) /\ k \in DOMAIN site)
    BY <1>2, <2>5
  <2>7. \A k \in 2 .. Len(site) : site'[k] = site[k]
    BY <2>3, <2>4
  <2>8. \A k \in DOMAIN site' :
           \/ k # 1 /\ k \in DOMAIN site /\ site'[k] = site[k] /\ Len(site') = Len(site)
           \/ k = 1 /\ asked[i] = "XFER" /\ Len(site') = Len(site) /\ site'[k] = h
    BY <1>5, <2>3, <2>6, <2>7
  <2> QED BY <1>2, <1>3, <2>3, <2>8, Zenon DEF h
<1> QED BY <1>4, <1>5 DEF Answer

\* An answer to the first line comes behind all that was said before.
LEMMA AnswerOrder ==
    ASSUME TypeOK, OrderInv, NEW i, Answer(i), UNCHANGED <<asked, commandbuf, uplink, told, replybuf>>,
           NEW add \in Seq(Replies), \A k \in DOMAIN add : add[k].of = i, Ordered(add),
           downlink' = downlink \o add
    PROVE  OrderInv'
<1> USE DEF OrderInv
<1>1. /\ i \in 1 .. MaxCommands /\ 1 \in DOMAIN site /\ site[1].of = i
      /\ \A k \in DOMAIN site' :
            \/ k + 1 \in DOMAIN site /\ site'[k] = site[k + 1] /\ Len(site') = Len(site) - 1
            \/ k # 1 /\ k \in DOMAIN site /\ site'[k] = site[k] /\ Len(site') = Len(site)
            \/ /\ k = 1 /\ asked[i] = "XFER" /\ Len(site') = Len(site)
               /\ site'[k] = [site[1] EXCEPT !.cmd = "226"]
  BY AnswerLines
<1>2. /\ site \in Seq(Lines) /\ site' \in Seq(Lines) /\ downlink \in Seq(Replies)
      /\ told \in Seq(Replies) /\ replybuf \in Seq(Replies)
      /\ commandbuf \in Seq(Pieces) /\ uplink \in Seq(Pieces)
  BY AnswerLines DEF TypeOK
<1>3. /\ \A k \in DOMAIN site : site[k] \in Lines /\ site[k].of \in Int
      /\ \A k \in DOMAIN site' : site'[k] \in Lines /\ site'[k].of \in Int
  <2>1. \A l \in Lines : l.of \in Int
    BY CommandsAssumption DEF Lines
  <2> QED BY <1>2, <2>1
<1>4. [site[1] EXCEPT !.cmd = "226"].of = i /\ [site[1] EXCEPT !.cmd = "226"].cmd = "226"
  BY <1>1, <1>3 DEF Lines
\* A line that is left comes after i, or is the rest of the transfer.
<1>5. \A k \in DOMAIN site' : \/ i < site'[k].of /\ \E m \in DOMAIN site : site'[k] = site[m]
                              \/ site'[k].of = i /\ asked[i] = "XFER" /\ site'[k].cmd = "226"
  <2>1. \A m \in DOMAIN site : m # 1 => 1 < m
    BY <1>2
  <2>2. \A k \in DOMAIN site' : k + 1 # 1
    BY <1>2
  <2> QED BY <1>1, <1>4, <2>1, <2>2
<1>6. \A j, k \in DOMAIN site' : j < k => site'[j].of < site'[k].of
  <2>1. ASSUME NEW j \in DOMAIN site', NEW k \in DOMAIN site', j < k
        PROVE  site'[j].of < site'[k].of
    <3>1. j \in Nat /\ k \in Nat /\ k # 1 /\ j + 1 < k + 1 /\ Len(site) - 1 # Len(site)
      BY <1>2, <2>1
    <3> QED BY <1>1, <1>4, <1>5, <2>1, <3>1
  <2> QED BY <2>1
<1>7. \A j \in DOMAIN site' : site'[j].cmd \in {"XFER", "226"} <=> asked[site'[j].of] = "XFER"
  BY <1>5
<1>8. ASSUME NEW q \in Seq(Replies), Owed(q)
      PROVE  \A j \in DOMAIN q, k \in DOMAIN site' :
                /\ q[j].of <= site'[k].of
                /\ q[j].end /\ asked[q[j].of] # "XFER" => q[j].of # site'[k].of
  <2>1. ASSUME NEW j \in DOMAIN q, NEW k \in DOMAIN site'
        PROVE  \E m \in DOMAIN site : site'[k].of = site[m].of
    BY <1>1, <1>5
  <2> QED BY <1>8, <2>1 DEF Owed
<1>9. \A k \in DOMAIN add : /\ add[k].of = i
                            /\ \A j \in DOMAIN site' :
                                 i <= site'[j].of /\ (asked[i] # "XFER" => i # site'[j].of)
  <2>1. i \in Int
    BY <1>1, CommandsAssumption
  <2>2. \A j \in DOMAIN site' : i <= site'[j].of /\ (asked[i] # "XFER" => i # site'[j].of)
    BY <1>3, <1>5, <2>1
  <2> QED BY <2>2
\* The new replies come after all that is on its way.
<1>10. ASSUME NEW q \in Seq(Replies), Owed(q) PROVE Ahead(q, add)
  BY <1>1, <1>10 DEF Owed, Ahead, After
<1>11. Unsent(add) /\ Known(add)
  BY <1>1 DEF Unsent, Known
<1>12. /\ Ordered(downlink \o add) /\ Ahead(told, downlink \o add) /\ Ahead(replybuf, downlink \o add)
       /\ Unsent(downlink \o add) /\ Known(downlink \o add)
  <2>1. Ahead(downlink, add) /\ Ahead(told, add) /\ Ahead(replybuf, add)
    BY <1>2, <1>10
  <2>2. /\ Ordered(downlink) /\ Ahead(told, downlink) /\ Ahead(replybuf, downlink)
        /\ Unsent(downlink) /\ Known(downlink)
    OBVIOUS
  <2> QED BY <1>2, <1>11, <2>1, <2>2, OrderedConcat, Zenon
<1>13. Owed(downlink)'
  <2>1. \A j \in DOMAIN downlink' :
           \/ j \in DOMAIN downlink /\ downlink'[j] = downlink[j]
           \/ j - Len(downlink) \in DOMAIN add /\ downlink'[j] = add[j - Len(downlink)]
    BY <1>2, Concat
  <2>2. ASSUME NEW j \in DOMAIN downlink', NEW k \in DOMAIN site'
        PROVE  /\ downlink'[j].of <= site'[k].of
               /\ downlink'[j].end /\ asked[downlink'[j].of] # "XFER"
                    => downlink'[j].of # site'[k].of
    <3>1. CASE j \in DOMAIN downlink /\ downlink'[j] = downlink[j]
      BY <1>2, <1>8, <3>1
    <3>2. CASE j - Len(downlink) \in DOMAIN add /\ downlink'[j] = add[j - Len(downlink)]
      BY <1>9, <3>2
    <3> QED BY <2>1, <3>1, <3>2
  <2> QED BY <2>2 DEF Owed
<1>14. Owed(told)' /\ Owed(replybuf)'
  BY <1>2, <1>8 DEF Owed
<1>15. Unsent(site)' /\ Known(site)'
  <2>1. \A k \in DOMAIN site' : \E m \in DOMAIN site : site'[k].of = site[m].of
    BY <1>1, <1>5
  <2> QED BY <2>1 DEF Unsent, Known
<1>16. Ordered(told)' /\ Ordered(replybuf)' /\ Ordered(downlink)'
  BY <1>12 DEF Ordered, After
<1>17. Ahead(told, replybuf)' /\ Ahead(told, downlink)' /\ Ahead(replybuf, downlink)'
  BY <1>12 DEF Ahead, After
<1>18. /\ Unsent(told)' /\ Unsent(replybuf)' /\ Unsent(downlink)'
       /\ Known(told)' /\ Known(replybuf)' /\ Known(downlink)' /\ Known(commandbuf)' /\ Known(uplink)'
  BY <1>12 DEF Unsent, Known
<1> QED BY <1>6, <1>7, <1>13, <1>14, <1>15, <1>16, <1>17, <1>18

-----------------------------------------------------------------------------
(* The client's side of the order.                                         *)

\* A new command is behind all others.
LEMMA AskedOrder ==
    ASSUME TypeOK, OrderInv, NEW c, asked' = Append(asked, c),
           NEW add \in Seq(Pieces), \A k \in DOMAIN add : add[k].of = Len(asked) + 1,
           uplink' = uplink \o add, UNCHANGED <<commandbuf, replybuf, site, downlink, told>>
    PROVE  OrderInv'
<1> USE DEF OrderInv
<1>1. /\ asked \in Seq(Commands) /\ Len(asked) \in Nat /\ Len(asked') = Len(asked) + 1
      /\ \A i \in 1 .. Len(asked) : asked'[i] = asked[i]
  BY DEF TypeOK
<1>2. /\ \A q \in Seq(Replies) : Known(q) => \A k \in DOMAIN q : q[k].of \in 1 .. Len(asked)
      /\ \A k \in DOMAIN site : site[k].of \in 1 .. Len(asked)
      /\ \A k \in DOMAIN commandbuf : commandbuf[k].of \in 1 .. Len(asked)
      /\ \A k \in DOMAIN uplink : uplink[k].of \in 1 .. Len(asked)
  <2>1. /\ \A r \in Replies : r.of \in Int /\ 1 <= r.of
        /\ \A l \in Lines : l.of \in Int /\ 1 <= l.of
        /\ \A p \in Pieces : p.of \in Int /\ 1 <= p.of
    BY CommandsAssumption DEF Replies, Lines, Pieces
  <2>2. /\ \A k \in DOMAIN site : site[k] \in Lines
        /\ \A k \in DOMAIN commandbuf : commandbuf[k] \in Pieces
        /\ \A k \in DOMAIN uplink : uplink[k] \in Pieces
    BY DEF TypeOK
  <2>3. /\ \A k \in DOMAIN site : site[k].of <= Len(asked)
        /\ \A k \in DOMAIN commandbuf : commandbuf[k].of <= Len(asked)
        /\ \A k \in DOMAIN uplink : uplink[k].of <= Len(asked)
    BY DEF Known
  <2>4. \A q \in Seq(Replies) : Known(q) => \A k \in DOMAIN q : q[k].of \in 1 .. Len(asked)
    BY <1>1, <2>1 DEF Known
  <2> QED BY <1>1, <2>1, <2>2, <2>3, <2>4
<1>3. told \in Seq(Replies) /\ replybuf \in Seq(Replies) /\ downlink \in Seq(Replies)
  BY DEF TypeOK
<1>4. /\ \A k \in DOMAIN told : told[k].of \in 1 .. Len(asked)
      /\ \A k \in DOMAIN replybuf : replybuf[k].of \in 1 .. Len(asked)
      /\ \A k \in DOMAIN downlink : downlink[k].of \in 1 .. Len(asked)
  BY <1>2, <1>3
<1>5. /\ Ordered(told)' /\ Ordered(replybuf)' /\ Ordered(downlink)'
      /\ Ahead(told, replybuf)' /\ Ahead(told, downlink)' /\ Ahead(replybuf, downlink)'
  BY <1>1, <1>4 DEF Ordered, Ahead, After
<1>6. /\ Owed(told)' /\ Owed(replybuf)' /\ Owed(downlink)'
      /\ \A j \in DOMAIN site' : site'[j].cmd \in {"XFER", "226"} <=> asked'[site'[j].of] = "XFER"
  BY <1>1, <1>2, <1>4 DEF Owed
<1>7. \A k \in DOMAIN uplink' : \/ uplink'[k].of = Len(asked) + 1
                                \/ k \in DOMAIN uplink /\ uplink'[k] = uplink[k]
  <2>1. uplink \in Seq(Pieces)
    BY DEF TypeOK
  <2>2. \A k \in DOMAIN (uplink \o add) :
           \/ k \in DOMAIN uplink /\ (uplink \o add)[k] = uplink[k]
           \/ k - Len(uplink) \in DOMAIN add /\ (uplink \o add)[k] = add[k - Len(uplink)]
    BY <2>1, Concat
  <2> QED BY <2>2
<1>8. \A i \in 1 .. Len(asked) : i < Len(asked) + 1 /\ i <= Len(asked) + 1
  BY <1>1
<1>9. Unsent(told)' /\ Unsent(replybuf)' /\ Unsent(downlink)' /\ Unsent(site)'
  BY <1>2, <1>4, <1>7, <1>8 DEF Unsent
<1>10. /\ Known(told)' /\ Known(replybuf)' /\ Known(downlink)' /\ Known(site)'
       /\ Known(commandbuf)'
  BY <1>1, <1>2, <1>4, <1>8 DEF Known
<1>11. Known(uplink)'
  BY <1>1, <1>2, <1>7, <1>8 DEF Known
<1> QED BY <1>5, <1>6, <1>9, <1>10, <1>11

\* The site gets the lines q, for commands that had not reached it; perhaps not all.
Forwards(q) ==
    /\ UNCHANGED <<asked, replybuf, downlink, told>>
    /\ commandbuf' = <<>> /\ site' = site \o q
    /\ \A k \in DOMAIN uplink' : \E m \in DOMAIN uplink : uplink'[k] = uplink[m]
    /\ q \in Seq(Lines)
    /\ \A j \in DOMAIN q :
          /\ \/ \E k \in DOMAIN commandbuf : commandbuf[k].of = q[j].of
             \/ \E k \in DOMAIN uplink : uplink[k].of = q[j].of
          /\ \A k \in DOMAIN uplink' : q[j].of < uplink'[k].of
          /\ q[j].cmd # "226" /\ (q[j].cmd = "XFER" <=> asked[q[j].of] = "XFER")
    /\ \A j, k \in DOMAIN q : j < k => q[j].of < q[k].of

\* Commands that reach the site are behind all that has reached it.
LEMMA ForwardsOrder == ASSUME TypeOK, OrderInv, NEW q, Forwards(q) PROVE OrderInv'
<1> USE DEF OrderInv
<1>1. /\ site \in Seq(Lines) /\ q \in Seq(Lines) /\ site' = site \o q /\ site' \in Seq(Lines)
      /\ \A k \in DOMAIN site' :
            \/ k \in DOMAIN site /\ site'[k] = site[k]
            \/ k - Len(site) \in DOMAIN q /\ site'[k] = q[k - Len(site)] /\ k > Len(site)
      /\ DOMAIN site = 1 .. Len(site) /\ Len(site) \in Nat /\ DOMAIN site' \subseteq Nat
  <2>1. site \in Seq(Lines) /\ q \in Seq(Lines) /\ site' = site \o q
    BY DEF TypeOK, Forwards
  <2>2. PICK t : t = site \o q
    OBVIOUS
  <2>3. /\ t \in Seq(Lines)
        /\ \A k \in DOMAIN t :
              \/ k \in DOMAIN site /\ t[k] = site[k]
              \/ k - Len(site) \in DOMAIN q /\ t[k] = q[k - Len(site)] /\ k > Len(site)
    BY <2>1, <2>2, Concat
  <2>4. DOMAIN site = 1 .. Len(site) /\ Len(site) \in Nat /\ DOMAIN t \subseteq Nat
    BY <2>1, <2>3
  <2> QED BY <2>1, <2>2, <2>3, <2>4
<1>2. \A l \in Lines : l.of \in Int
  BY CommandsAssumption DEF Lines
<1>3. \A j \in DOMAIN q : q[j] \in Lines /\ q[j].of \in Int /\ q[j].of <= Len(asked)
  BY <1>1, <1>2 DEF Forwards, Known
<1>4. ASSUME NEW p, Unsent(p), NEW k \in DOMAIN p, NEW j \in DOMAIN q PROVE p[k].of < q[j].of
  BY <1>4 DEF Forwards, Unsent
<1>5. ASSUME NEW p \in Seq(Replies), Unsent(p), Owed(p)
      PROVE \A k \in DOMAIN p : \A j \in DOMAIN site' :
               /\ p[k].of <= site'[j].of
               /\ p[k].end /\ asked'[p[k].of] # "XFER" => p[k].of # site'[j].of
  <2>1. \A r \in Replies : r.of \in Int
    BY CommandsAssumption DEF Replies
  <2>2. \A k \in DOMAIN p, j \in DOMAIN q :
           p[k].of < q[j].of /\ p[k].of <= q[j].of /\ p[k].of # q[j].of
    BY <1>3, <1>4, <1>5, <2>1
  <2> QED BY <1>1, <1>5, <2>2 DEF Owed, Forwards
<1>6. told \in Seq(Replies) /\ replybuf \in Seq(Replies) /\ downlink \in Seq(Replies)
  BY DEF TypeOK
<1>7. Owed(told)' /\ Owed(replybuf)' /\ Owed(downlink)'
  <2>1. PICK a, b, d : a = told /\ b = replybuf /\ d = downlink
    OBVIOUS
  <2>2. /\ \A k \in DOMAIN a : \A j \in DOMAIN site' :
             /\ a[k].of <= site'[j].of
             /\ a[k].end /\ asked'[a[k].of] # "XFER" => a[k].of # site'[j].of
        /\ \A k \in DOMAIN b : \A j \in DOMAIN site' :
             /\ b[k].of <= site'[j].of
             /\ b[k].end /\ asked'[b[k].of] # "XFER" => b[k].of # site'[j].of
        /\ \A k \in DOMAIN d : \A j \in DOMAIN site' :
             /\ d[k].of <= site'[j].of
             /\ d[k].end /\ asked'[d[k].of] # "XFER" => d[k].of # site'[j].of
    BY <1>5, <1>6, <2>1
  <2> QED BY <2>1, <2>2 DEF Owed, Forwards
<1>8. ASSUME NEW j \in DOMAIN site', NEW k \in DOMAIN site', j < k PROVE site'[j].of < site'[k].of
  <2>1. CASE k \in DOMAIN site /\ site'[k] = site[k]
    <3>1. j \in DOMAIN site /\ site'[j] = site[j]
      BY <1>1, <1>8, <2>1
    <3> QED BY <1>8, <2>1, <3>1
  <2>2. CASE k - Len(site) \in DOMAIN q /\ site'[k] = q[k - Len(site)] /\ k > Len(site)
    <3>1. CASE j \in DOMAIN site /\ site'[j] = site[j]
      BY <1>4, <2>2, <3>1
    <3>2. CASE j - Len(site) \in DOMAIN q /\ site'[j] = q[j - Len(site)] /\ j > Len(site)
      <4>1. j - Len(site) < k - Len(site)
        BY <1>1, <1>8
      <4> QED BY <2>2, <3>2, <4>1 DEF Forwards
    <3> QED BY <1>1, <3>1, <3>2
  <2> QED BY <1>1, <2>1, <2>2
<1>9. \A j \in DOMAIN site' : site'[j].cmd \in {"XFER", "226"} <=> asked'[site'[j].of] = "XFER"
  BY <1>1 DEF Forwards
<1>10. Unsent(told)' /\ Unsent(replybuf)' /\ Unsent(downlink)'
  BY DEF Unsent, Forwards
<1>11. Unsent(site)'
  BY <1>1 DEF Unsent, Forwards
<1>12. /\ Known(told)' /\ Known(replybuf)' /\ Known(downlink)' /\ Known(site)'
       /\ Known(commandbuf)' /\ Known(uplink)'
  BY <1>1, <1>3 DEF Known, Forwards
<1>13. /\ Ordered(told)' /\ Ordered(replybuf)' /\ Ordered(downlink)'
       /\ Ahead(told, replybuf)' /\ Ahead(told, downlink)' /\ Ahead(replybuf, downlink)'
  BY DEF Ordered, Ahead, After, Forwards
<1> QED BY <1>7, <1>8, <1>9, <1>10, <1>11, <1>12, <1>13


-----------------------------------------------------------------------------
(* What is told in place of a reply.                                       *)

Families == {"IPv4", "IPv6"}
Instead(buf, t) == \E c \in Codes, at \in {"none"} \cup Families, heard \in BOOLEAN :
                      t = <<Made(Last(buf).of, c, at, heard)>>

\* The family of the client's listener is one.
LEMMA OriginFamilyType == TypeOK => OriginFamily \in Families
  BY DEF TypeOK, OriginFamily, Families

\* The client is told the buffer, the buffer with another address, or one reply made up.
Another(buf, t) == \E f \in DOMAIN buf, at \in Families : t = Readdressed(buf, f, at)
LEMMA ToldCases ==
    ASSUME TypeOK, NEW buf, NEW code, NEW t \in Told(buf, code)
    PROVE  t = buf \/ Another(buf, t) \/ Instead(buf, t)
<1> DEFINE Only(c, at, heard) == <<Made(Last(buf).of, c, at, heard)>>
<1>1. /\ \A at \in Families, heard \in BOOLEAN : Instead(buf, Only("227", at, heard))
      /\ Instead(buf, Only("502", "none", TRUE))
      /\ Instead(buf, Only("200", "none", code = "200"))
  BY DEF Instead, Codes
<1>2. "IPv4" \in Families /\ OriginFamily \in Families
  BY OriginFamilyType DEF Families
<1>3. \A f \in Found(buf, code), at \in Families : Another(buf, Readdressed(buf, f, at))
  BY DEF Found, Another
<1>4. \A x : x \in Unread(buf, code) => x = buf
  BY DEF Unread
<1> HIDE DEF Only
<1>5. CASE responsecatch = "PASV" /\ code = "227"
  <2>1. \/ t \in Unread(buf, code) \/ t = Only("502", "none", TRUE)
        \/ \E f \in Found(buf, code) : t = Readdressed(buf, f, "IPv4")
    BY <1>5 DEF Told, Only
  <2> QED BY <1>1, <1>2, <1>3, <1>4, <2>1
<1>6. CASE responsecatch = "EPSV" /\ code = "229"
  <2>1. \/ t \in Unread(buf, code) \/ t = Only("502", "none", TRUE)
        \/ t = Only("227", OriginFamily, TRUE)
        \/ \E f \in Found(buf, code) : t = Readdressed(buf, f, OriginFamily)
    BY <1>6 DEF Told, Only
  <2> QED BY <1>1, <1>2, <1>3, <1>4, <2>1
<1>7. CASE ~(responsecatch = "PASV" /\ code = "227") /\ ~(responsecatch = "EPSV" /\ code = "229")
  <2>1. t = buf \/ t = Only("502", "none", TRUE) \/ t = Only("200", "none", code = "200")
    BY <1>7 DEF Told, Only
  <2> QED BY <1>1, <2>1
<1> QED BY <1>5, <1>6, <1>7

\* Each of these answers the commands the buffer answered.
LEMMA ToldReplaces ==
    ASSUME TypeOK, NEW buf \in Seq(Replies), buf # <<>>, Last(buf).end, Ordered(buf),
           NEW code, NEW t \in Told(buf, code)
    PROVE  Replaces(t, buf)
<1>1. /\ Len(buf) \in Nat /\ Len(buf) >= 1 /\ DOMAIN buf = 1 .. Len(buf)
      /\ Len(buf) \in DOMAIN buf /\ Last(buf) = buf[Len(buf)]
      /\ \A k \in DOMAIN buf : buf[k] \in Replies
  BY DEF Last
<1>2. CASE t = buf
  BY <1>2 DEF Replaces
<1>3. ASSUME NEW i \in DOMAIN buf, NEW at \in Families, t = Readdressed(buf, i, at) PROVE Replaces(t, buf)
  <2> DEFINE f == [k \in DOMAIN buf |-> IF buf[k].of = buf[i].of /\ buf[k].at = "site"
                                       THEN [buf[k] EXCEPT !.at = at] ELSE buf[k]]
  <2>1. t = f
    BY <1>3 DEF Readdressed
  <2>2. \A k \in DOMAIN buf : f[k] \in Replies /\ f[k].of = buf[k].of /\ f[k].end = buf[k].end
    <3>1. \A r \in Replies : /\ [r EXCEPT !.at = at] \in Replies
                             /\ [r EXCEPT !.at = at].of = r.of /\ [r EXCEPT !.at = at].end = r.end
      BY DEF Replies, Families
    <3> QED BY <1>1, <3>1
  <2>3. DOMAIN f = DOMAIN buf
    OBVIOUS
  <2> HIDE DEF f
  <2>4. f \in Seq(Replies)
    <3>1. f \in [1 .. Len(buf) -> Replies]
      <4>1. f = [k \in 1 .. Len(buf) |-> f[k]]
        BY <1>1 DEF f
      <4> QED BY <1>1, <2>2, <4>1
    <3> QED BY <1>1, <3>1
  <2>5. Ordered(f)
    BY <2>2, <2>3 DEF Ordered, After
  <2> QED BY <2>1, <2>2, <2>3, <2>4, <2>5 DEF Replaces
<1>4. ASSUME Instead(buf, t) PROVE Replaces(t, buf)
  <2>1. PICK c \in Codes, at \in {"none"} \cup Families, heard \in BOOLEAN :
          t = <<Made(Last(buf).of, c, at, heard)>>
    BY <1>4 DEF Instead
  <2> DEFINE m == Made(Last(buf).of, c, at, heard)
  <2>2. m \in Replies /\ m.of = buf[Len(buf)].of
    BY <1>1 DEF Made, Replies, Families
  <2> HIDE DEF m
  <2>3. t = <<m>> /\ DOMAIN t = {1} /\ t[1] = m /\ t \in Seq(Replies)
    BY <2>1, <2>2 DEF m
  <2>4. Ordered(t)
    BY <2>3 DEF Ordered
  <2> QED BY <1>1, <2>2, <2>3, <2>4 DEF Replaces
<1> QED BY <1>2, <1>3, <1>4, ToldCases DEF Another

\* Told(buf, code) is told, and the catch ends.
LEMMA CaughtOrder ==
    ASSUME TypeOK, OrderInv, NEW n, Arrive(n), Buffer(n) # <<>>, Last(Buffer(n)).end,
           NEW code, Caught(Buffer(n), code)
    PROVE  OrderInv' /\ told' \in Seq(Replies) /\ replybuf' = <<>>
<1>1. PICK t \in Told(Buffer(n), code) : told' = told \o t
  BY DEF Caught
<1>2. Replaces(t, Buffer(n))
  <2>1. Buffer(n) \in Seq(Replies) /\ Ordered(Buffer(n))
    BY BufferOrder
  <2>2. PICK q : q = Buffer(n)
    OBVIOUS
  <2> QED BY <1>1, <2>1, <2>2, ToldReplaces
<1>3. replybuf' = <<>>
  BY DEF Caught
<1>4. told' \in Seq(Replies)
  <2>1. told \in Seq(Replies) /\ t \in Seq(Replies)
    BY <1>2 DEF TypeOK, Replaces
  <2> QED BY <1>1, <2>1
<1> QED BY <1>1, <1>2, <1>3, <1>4, ToldOrder

-----------------------------------------------------------------------------
(* Lines reach the parser of the commands: that of a client that waits     *)
(* whole or in its two pieces, those of the others one or more at a time.  *)

\* What sendData() makes of the first n pieces of the uplink.
Incoming(n) == commandbuf \o SubSeq(uplink, 1, n)

\* Whole is the line of command i, behind which are the commands after it.
OneLine(n, i) ==
    /\ Last(Incoming(n)).end /\ LinesOf(Incoming(n)) = <<i>>
    /\ i \in 1 .. MaxCommands /\ \E k \in DOMAIN uplink : uplink[k].of = i
    /\ \A k \in DOMAIN SubSeq(uplink, n + 1, Len(uplink)) :
         /\ i < SubSeq(uplink, n + 1, Len(uplink))[k].of
         /\ \E m \in DOMAIN uplink : SubSeq(uplink, n + 1, Len(uplink))[k] = uplink[m]

\* A buffer whose pieces are of one command holds one line.
LEMMA LineOf ==
    ASSUME NEW buf, NEW i \in Int, Last(buf).of = i, Head(buf).of = i
    PROVE  LinesOf(buf) = <<i>>
<1>1. i - i + 1 = 1 /\ i + 1 - 1 = i
  OBVIOUS
<1>2. LinesOf(buf) = [k \in 1 .. 1 |-> i + k - 1]
  BY <1>1 DEF LinesOf
<1>3. [k \in 1 .. 1 |-> i + k - 1] = <<i>>
  OBVIOUS
<1> QED BY <1>2, <1>3

\* What sendData() is given is one line or the first half of one.
LEMMA IncomingLine ==
    ASSUME TypeOK, Shape, Split, NEW n \in Blocks(uplink)
    PROVE  IF Last(Incoming(n)).end
           THEN /\ SubSeq(uplink, n + 1, Len(uplink)) = <<>>
                /\ Leaving /\ OneLine(n, Len(asked)) /\ Len(asked) \in 1 .. MaxCommands
           ELSE /\ Leaving /\ Incoming(n) = <<Piece(Len(asked), FALSE)>>
                /\ SubSeq(uplink, n + 1, Len(uplink)) = <<Piece(Len(asked), TRUE)>>
<1>1. uplink \in Seq(Pieces) /\ commandbuf \in Seq(Pieces) /\ Len(asked) \in Nat
  BY DEF TypeOK
<1> DEFINE i == Len(asked)  pf == Piece(i, FALSE)  pt == Piece(i, TRUE)
<1>2. n \in DOMAIN uplink
  BY DEF Blocks
<1>3. Leaving
  <2>1. ~Catching /\ ~Passing
    BY <1>2 DEF Catching, Passing
  <2> QED BY <2>1 DEF Shape
<1>4. pf.of = i /\ pf.end = FALSE /\ pt.of = i /\ pt.end = TRUE
  BY DEF Piece
<1> HIDE DEF pf, pt
<1>5. i \in 1 .. MaxCommands /\ \E k \in DOMAIN uplink : uplink[k].of = i
  <2>1. \A p \in Pieces : p.of \in 1 .. MaxCommands
    BY DEF Pieces
  <2>2. \E k \in DOMAIN uplink : uplink[k] = pt
    <3>1. CASE uplink = <<pf, pt>>
      <4>1. 2 \in DOMAIN uplink /\ uplink[2] = pt
        BY <3>1
      <4> QED BY <4>1
    <3>2. CASE uplink = <<pt>>
      <4>1. 1 \in DOMAIN uplink /\ uplink[1] = pt
        BY <3>2
      <4> QED BY <4>1
    <3> QED BY <1>3, <3>1, <3>2 DEF Leaving, pf, pt
  <2> QED BY <1>1, <1>4, <2>1, <2>2
<1>6. i \in Int /\ pf \in Pieces /\ pt \in Pieces
  BY <1>1, <1>5 DEF Pieces, Piece, pf, pt
<1> HIDE DEF i
<1>7. /\ SubSeq(<<pf, pt>>, 1, 1) = <<pf>> /\ SubSeq(<<pf, pt>>, 1 + 1, 2) = <<pt>>
      /\ SubSeq(<<pf, pt>>, 1, 2) = <<pf, pt>> /\ SubSeq(<<pf, pt>>, 2 + 1, 2) = <<>>
      /\ Last(<<pf, pt>>) = pt /\ Head(<<pf, pt>>) = pf /\ Last(<<pf>>) = pf
      /\ <<>> \o <<pf>> = <<pf>> /\ <<>> \o <<pf, pt>> = <<pf, pt>>
      /\ <<pf>> \o <<pt>> = <<pf, pt>> /\ Len(<<pf, pt>>) = 2
      /\ DOMAIN <<pf, pt>> = {1, 2}
  BY <1>6, Short
<1>8. SubSeq(<<pt>>, 1, 1) = <<pt>> /\ SubSeq(<<pt>>, 1 + 1, 1) = <<>>
      /\ Len(<<pt>>) = 1 /\ DOMAIN <<pt>> = {1}
  BY <1>6, Short
<1>9. LinesOf(<<pf, pt>>) = <<i>> /\ Last(<<pf, pt>>).end /\ ~Last(<<pf>>).end
  BY <1>4, <1>6, <1>7, LineOf
<1>10. CASE Incoming(n) = <<pf, pt>> /\ SubSeq(uplink, n + 1, Len(uplink)) = <<>>
  <2>1. OneLine(n, i)
    <3>1. DOMAIN <<>> = {}
      OBVIOUS
    <3> QED BY <1>5, <1>9, <1>10, <3>1 DEF OneLine
  <2> QED BY <1>3, <1>5, <1>9, <1>10, <2>1 DEF i
<1>11. CASE commandbuf = <<>> /\ uplink = <<pf, pt>>
  <2>1. n = 1 \/ n = 2
    BY <1>2, <1>7, <1>11
  <2>2. CASE n = 1
    <3>1. Incoming(n) = <<pf>> /\ SubSeq(uplink, n + 1, Len(uplink)) = <<pt>>
      BY <1>7, <1>11, <2>2 DEF Incoming
    <3> QED BY <1>3, <1>9, <3>1 DEF i, pf, pt
  <2>3. CASE n = 2
    BY <1>7, <1>10, <1>11, <2>3 DEF Incoming
  <2> QED BY <2>1, <2>2, <2>3
<1>12. CASE commandbuf = <<pf>> /\ uplink = <<pt>>
  <2>1. n = 1
    BY <1>2, <1>8, <1>12
  <2> QED BY <1>7, <1>8, <1>10, <1>12, <2>1 DEF Incoming
<1> QED BY <1>3, <1>11, <1>12 DEF Leaving, i, pf, pt

\* Several lines reach it at once: ls, behind which are the commands after them.
SomeLines(n, ls) ==
    /\ Last(Incoming(n)).end /\ LinesOf(Incoming(n)) = ls
    /\ ls \in Seq(1 .. MaxCommands) /\ ls # <<>>
    /\ \A j \in DOMAIN ls : j \in DOMAIN uplink /\ ls[j] = uplink[j].of /\ ls[j] <= Len(asked)
    /\ \A j, k \in DOMAIN ls : j < k => ls[j] < ls[k]
    /\ \A j \in DOMAIN ls, k \in DOMAIN SubSeq(uplink, n + 1, Len(uplink)) :
          ls[j] < SubSeq(uplink, n + 1, Len(uplink))[k].of

\* A client that does not wait has its lines in one block, one behind the other.
LEMMA IncomingLines ==
    ASSUME TypeOK, Unsplit, NEW n \in Blocks(uplink)
    PROVE  \E ls : SomeLines(n, ls)
<1> DEFINE b == SubSeq(uplink, 1, n)  c == SubSeq(uplink, n + 1, Len(uplink))
           base == Len(asked) - Len(uplink)
<1>1. /\ uplink \in Seq(Pieces) /\ n \in DOMAIN uplink /\ Len(asked) \in Nat /\ Len(uplink) \in Nat
      /\ DOMAIN uplink = 1 .. Len(uplink) /\ base \in Int
  BY DEF TypeOK, Blocks
<1>2. \A k \in DOMAIN uplink : uplink[k].of = base + k /\ uplink[k].end /\ uplink[k].of \in 1 .. MaxCommands
  <2>1. \A p \in Pieces : p.of \in 1 .. MaxCommands
    BY DEF Pieces
  <2> QED BY <1>1, <2>1 DEF Unsplit
<1>3. /\ b \in Seq(Pieces) /\ Len(b) = n /\ n \in Nat /\ n >= 1 /\ n <= Len(uplink)
      /\ \A k \in DOMAIN b : k \in DOMAIN uplink /\ k <= n /\ b[k] = uplink[k]
      /\ \A k \in DOMAIN c : k \in Nat /\ k >= 1 /\ n + k \in DOMAIN uplink /\ c[k] = uplink[n + k]
  BY <1>1, CutAt
<1> HIDE DEF b, c, base
<1>4. Incoming(n) = b
  BY <1>3, ConcatEmptySeq DEF Incoming, Unsplit, b
<1>5. /\ 1 \in DOMAIN b /\ n \in DOMAIN b /\ Head(b) = uplink[1] /\ Last(b) = uplink[n]
  <2>1. 1 \in DOMAIN b /\ n \in DOMAIN b /\ Head(b) = b[1] /\ Last(b) = b[n]
    BY <1>3 DEF Last
  <2> QED BY <1>3, <2>1
<1> DEFINE ls == [k \in 1 .. n |-> base + k]
<1>6. LinesOf(b) = ls
  <2>1. /\ uplink[1].of = base + 1 /\ uplink[n].of = base + n
        /\ (base + n) - (base + 1) + 1 = n
    BY <1>1, <1>2, <1>3, <1>5
  <2>2. \A k \in 1 .. n : (base + 1) + k - 1 = base + k
    BY <1>1, <1>3
  <2> QED BY <1>5, <2>1, <2>2 DEF LinesOf
<1>7. DOMAIN ls = 1 .. n /\ \A j \in 1 .. n : ls[j] = base + j
  OBVIOUS
<1> HIDE DEF ls
<1>8. \A j \in 1 .. n : j \in DOMAIN uplink /\ ls[j] = uplink[j].of
  BY <1>1, <1>2, <1>3, <1>7
<1>9. ls \in Seq(1 .. MaxCommands) /\ ls # <<>>
  <2>1. ls \in [1 .. n -> 1 .. MaxCommands]
    <3>1. ls = [k \in 1 .. n |-> ls[k]] /\ \A k \in 1 .. n : ls[k] \in 1 .. MaxCommands
      BY <1>2, <1>7, <1>8 DEF ls
    <3> QED BY <3>1
  <2>2. ls \in Seq(1 .. MaxCommands)
    <3>1. PICK S : S = 1 .. MaxCommands
      OBVIOUS
    <3>2. ls \in [1 .. n -> S] /\ n \in Nat
      BY <1>3, <2>1, <3>1
    <3>3. ls \in Seq(S)
      BY <3>2
    <3> QED BY <3>1, <3>3
  <2>3. 1 \in DOMAIN ls /\ DOMAIN <<>> = {}
    BY <1>3, <1>7
  <2> QED BY <2>2, <2>3
<1>10. \A j \in 1 .. n : ls[j] <= Len(asked)
  BY <1>1, <1>3, <1>7 DEF base
<1>11. \A j, k \in 1 .. n : j < k => ls[j] < ls[k]
  BY <1>1, <1>3, <1>7
<1>12. \A j \in 1 .. n, k \in DOMAIN c : ls[j] < c[k].of
  BY <1>1, <1>2, <1>3, <1>7
<1>13. Last(b).end
  BY <1>2, <1>3, <1>5
<1> QED BY <1>4, <1>6, <1>7, <1>8, <1>9, <1>10, <1>11, <1>12, <1>13 DEF SomeLines, c

-----------------------------------------------------------------------------
(* What the site and the client can be sent, when the client waits.        *)

\* The catch is the one for command c.
Fits(c) ==
    \/ c = "AUTH" /\ responsecatch = "AUTH_TLS" /\ origincatch = "NONE"
    \/ c = "PASV" /\ responsecatch = "PASV" /\ origincatch = "NONE"
    \/ c = "PASV" /\ responsecatch = "EPSV" /\ origincatch = "PASV"
    \/ /\ c = "EPSV 1" /\ responsecatch = "EPSV"
       /\ origincatch = "EPSV_1" \/ (origincatch = "NONE" /\ siteaddrfam = "IPv4")
    \/ /\ c = "EPSV 2" /\ responsecatch = "EPSV"
       /\ origincatch = "EPSV_2" \/ (origincatch = "NONE" /\ siteaddrfam = "IPv6")
    \/ c = "PORT" /\ responsecatch = "EPRT" /\ origincatch = "PORT"
    \/ c = "PORT" /\ responsecatch = "PORT" /\ origincatch = "NONE"
    \/ c = "EPRT" /\ responsecatch = "EPRT" /\ origincatch = "NONE"

\* What the site may say to what it was sent for it.
Expected ==
    CASE responsecatch = "AUTH_TLS" -> {"234", "error"}
      [] responsecatch = "PASV"     -> {"227", "error"}
      [] responsecatch = "EPSV"     -> {"229", "error"}
      [] OTHER                      -> {"200", "error"}

\* What may be passed on to a client that sent c.
Open(c) == Kinds(c) \ {"227", "229"}

\* The site is sent the line l for command i.
Forwarded(i, l) ==
    /\ site' = Append(site, l) /\ l.of = i /\ l.addr # "client"
    /\ l.cmd # "226" /\ (l.cmd = "XFER" <=> asked[i] = "XFER")
    /\ \/ /\ responsecatch' # "NONE" /\ asked[i] # "XFER"
          /\ origincatch = "NONE" => Fits(asked[i])' /\ Answers(l.cmd) \subseteq Expected'
       \/ /\ UNCHANGED <<responsecatch, origincatch>> /\ Answers(l.cmd) \subseteq Open(asked[i])
          /\ asked[i] = "AUTH" => tlsstate # "NONE"
    /\ tlsstate' = tlsstate \/ asked[i] = "AUTH"
    /\ responsecatch' \in {"NONE", "AUTH_TLS", "PASV", "EPSV", "PORT", "EPRT"}
    /\ origincatch' \in {"NONE", "PASV", "EPSV_1", "EPSV_2", "PORT"}
    /\ tlsstate' \in {"NONE", "QUERY", "IN_PROGRESS"}

\* Each way to send a command on is one of Forwarded.
LEMMA ForwardedLine ==
    ASSUME TypeOK, UNCHANGED <<asked, siteaddrfam>>,
           NEW i \in 1 .. MaxCommands, i <= Len(asked),
           Auth(<<i>>) \/ Passive(<<i>>) \/ Active(<<i>>) \/ Plain(<<i>>)
    PROVE  \E l \in Lines : Forwarded(i, l)
<1> DEFINE c == asked[i]  ls == <<i>>
<1>1. c \in AllCommands /\ Verb(ls) = c /\ ls[1] = i
  <2>1. Len(ls) = 1 /\ ls[1] = i
    OBVIOUS
  <2>2. i \in 1 .. Len(asked) /\ asked \in Seq(Commands) /\ Len(asked) \in Nat
    BY CommandsAssumption DEF TypeOK
  <2>3. c \in Commands
    BY <2>2
  <2>4. \A q : Len(q) = 1 => Verb(q) = asked[q[1]]
    BY DEF Verb
  <2> HIDE DEF ls
  <2>5. Verb(ls) = c
    BY <2>1, <2>4
  <2> QED BY <2>1, <2>3, <2>5, CommandsAssumption
<1> DEFINE whole == [cmd |-> c, of |-> i, addr |-> IF c \in {"PORT", "EPRT"} THEN "client" ELSE "none"]
           other(d) == [cmd |-> d, of |-> i, addr |-> IF d \in {"PORT", "EPRT"} THEN "bouncer" ELSE "none"]
<1>2. whole \in Lines /\ \A d \in AllCommands \cup {"NOOP"} : other(d) \in Lines
  BY <1>1 DEF Lines
<1>3. site \in Seq(Lines)
  BY DEF TypeOK
<1>4. Passes(ls) => site' = Append(site, whole)
  <2>1. PICK f : f = [k \in DOMAIN ls |-> LET d == asked[ls[k]] IN
                       [cmd |-> d, of |-> ls[k],
                        addr |-> IF d \in {"PORT", "EPRT"} THEN "client" ELSE "none"]]
    OBVIOUS
  <2>2. DOMAIN ls = 1 .. 1
    OBVIOUS
  <2>3. f = [k \in 1 .. 1 |-> f[k]] /\ f[1] = whole
    BY <1>1, <2>1, <2>2
  <2> HIDE DEF whole
  <2>4. f \in Seq(Lines) /\ Len(f) = 1
    BY <1>2, <2>3
  <2>5. f = <<whole>>
    BY <2>3, <2>4, Few
  <2>6. site \o <<whole>> = Append(site, whole)
    BY <1>2, <1>3
  <2> QED BY <2>1, <2>5, <2>6 DEF Passes
<1>5. \A d : Becomes(ls, d) => site' = Append(site, other(d))
  BY <1>1 DEF Becomes
<1>6. /\ whole.cmd = c /\ whole.of = i /\ (c \notin {"PORT", "EPRT"} => whole.addr # "client")
      /\ \A d : other(d).cmd = d /\ other(d).of = i /\ other(d).addr # "client"
  OBVIOUS
<1> HIDE DEF whole, other, ls
<1>7. /\ responsecatch \in {"NONE", "AUTH_TLS", "PASV", "EPSV", "PORT", "EPRT"}
      /\ origincatch \in {"NONE", "PASV", "EPSV_1", "EPSV_2", "PORT"}
      /\ tlsstate \in {"NONE", "QUERY", "IN_PROGRESS"}
      /\ siteaddrfam \in {"IPv4", "IPv6"}
  BY DEF TypeOK
<1> USE DEF Catch, catches
<1>8. CASE Auth(ls)
  <2>1. c = "AUTH" /\ site' = Append(site, whole)
    BY <1>1, <1>4, <1>8 DEF Auth
  <2>2. Answers("AUTH") = {"234", "error"} /\ "234" \in Open("AUTH") /\ "error" \in Open("AUTH")
    BY DEF Answers, Open, Kinds
  <2>3. Forwarded(i, whole)
    BY <1>1, <1>6, <1>7, <1>8, <2>1, <2>2 DEF Forwarded, Auth, Fits, Expected
  <2> QED BY <1>2, <2>3
<1>9. CASE Passive(ls)
  <2>1. /\ Answers("PASV") = {"227", "error"} /\ Answers("EPSV 1") = {"229", "error"}
        /\ Answers("EPSV 2") = {"229", "error"}
    BY DEF Answers
  <2>2. \A d \in {"EPSV 1", "EPSV 2"} : Becomes(ls, d) => other(d) \in Lines /\ site' = Append(site, other(d))
    BY <1>2, <1>5 DEF AllCommands
  <2>3. PICK l \in {whole, other("EPSV 1"), other("EPSV 2")} :
          /\ l \in Lines /\ site' = Append(site, l)
          /\ \/ c = "PASV" /\ siteaddrfam = "IPv4" /\ Catch("PASV", origincatch) /\ l.cmd = "PASV"
             \/ c = "PASV" /\ siteaddrfam = "IPv6" /\ Catch("EPSV", "PASV") /\ l.cmd = "EPSV 2"
             \/ c = "EPSV 1" /\ siteaddrfam = "IPv4" /\ Catch("EPSV", origincatch) /\ l.cmd = "EPSV 1"
             \/ c = "EPSV 1" /\ siteaddrfam = "IPv6" /\ Catch("EPSV", "EPSV_1") /\ l.cmd = "EPSV 2"
             \/ c = "EPSV 2" /\ siteaddrfam = "IPv4" /\ Catch("EPSV", "EPSV_2") /\ l.cmd = "EPSV 1"
             \/ c = "EPSV 2" /\ siteaddrfam = "IPv6" /\ Catch("EPSV", origincatch) /\ l.cmd = "EPSV 2"
    BY <1>1, <1>2, <1>4, <1>6, <1>9, <2>2 DEF Passive
  <2>4. l.of = i /\ l.addr # "client"
    BY <1>6, <2>3
  <2>5. tlsstate' = tlsstate
    BY <1>9 DEF Passive
  <2>6. Forwarded(i, l)
    BY <1>7, <2>1, <2>3, <2>4, <2>5 DEF Forwarded, Fits, Expected
  <2> QED BY <2>3, <2>6
<1>10. CASE Active(ls)
  <2>1. /\ Answers("PORT") = {"200", "error"} /\ Answers("EPRT") = {"200", "error"}
        /\ Answers("NOOP") = {"200"}
        /\ Answers("PORT") \subseteq Open("PORT") /\ Answers("EPRT") \subseteq Open("EPRT")
    BY DEF Answers, Open, Kinds
  <2>2. \A d \in {"PORT", "EPRT", "NOOP"} :
           Becomes(ls, d) => other(d) \in Lines /\ site' = Append(site, other(d))
    BY <1>2, <1>5 DEF AllCommands
  <2>3. PICK l \in {other("PORT"), other("EPRT"), other("NOOP")} :
          /\ l \in Lines /\ site' = Append(site, l)
          /\ \/ c = "PORT" /\ Catch("EPRT", "PORT") /\ l.cmd = "EPRT"
             \/ c = "PORT" /\ l.cmd = "PORT" /\ UNCHANGED <<responsecatch, origincatch>>
             \/ c = "PORT" /\ Catch("PORT", origincatch) /\ l.cmd = "NOOP"
             \/ c = "EPRT" /\ l.cmd = "EPRT" /\ UNCHANGED <<responsecatch, origincatch>>
             \/ c = "EPRT" /\ Catch("EPRT", origincatch) /\ l.cmd = "NOOP"
    BY <1>1, <1>2, <1>6, <1>10, <2>2 DEF Active
  <2>4. l.of = i /\ l.addr # "client"
    BY <1>6, <2>3
  <2>5. tlsstate' = tlsstate
    BY <1>10 DEF Active
  <2>6. Forwarded(i, l)
    BY <1>7, <2>1, <2>3, <2>4, <2>5 DEF Forwarded, Fits, Expected
  <2> QED BY <2>3, <2>6
<1>11. CASE Plain(ls)
  <2>1. c \in {"XFER", "other"} /\ site' = Append(site, whole) /\ UNCHANGED catches
    BY <1>1, <1>4, <1>11 DEF Plain
  <2>2. Answers("XFER") \subseteq Open("XFER") /\ Answers("other") \subseteq Open("other")
    BY DEF Answers, Open, Kinds
  <2>3. Forwarded(i, whole)
    BY <1>6, <1>7, <2>1, <2>2 DEF Forwarded
  <2> QED BY <1>2, <2>3
<1> QED BY <1>8, <1>9, <1>10, <1>11 DEF ls

\* The types of what sendData leaves.
CatchTypes ==
    /\ responsecatch \in {"NONE", "AUTH_TLS", "PASV", "EPSV", "PORT", "EPRT"}
    /\ origincatch \in {"NONE", "PASV", "EPSV_1", "EPSV_2", "PORT"}
    /\ tlsstate \in {"NONE", "QUERY", "IN_PROGRESS"}

\* The site is sent the lines ls, or one for the first of them.
ForwardedLines(ls, q) ==
    /\ q \in Seq(Lines) /\ site' = site \o q
    /\ \A j \in DOMAIN q : q[j].cmd # "226" /\ (q[j].cmd = "XFER" <=> asked[q[j].of] = "XFER")
    /\ \/ DOMAIN q = DOMAIN ls /\ \A j \in DOMAIN q : q[j].of = ls[j]
       \/ DOMAIN q = {1} /\ q[1].of = ls[1]

\* Each way to send several lines on is one of these.
LEMMA LinesForwarded ==
    ASSUME TypeOK, UNCHANGED <<asked, siteaddrfam>>,
           NEW ls \in Seq(1 .. MaxCommands), ls # <<>>, \A j \in DOMAIN ls : ls[j] <= Len(asked),
           Auth(ls) \/ Passive(ls) \/ Active(ls) \/ Plain(ls)
    PROVE  CatchTypes' /\ \E q : ForwardedLines(ls, q)
<1>1. CatchTypes
  BY DEF TypeOK, CatchTypes
<1>2. CatchTypes'
  BY <1>1 DEF CatchTypes, Auth, Passive, Active, Plain, Catch, catches
<1>3. /\ DOMAIN ls = 1 .. Len(ls) /\ Len(ls) \in Nat /\ 1 \in DOMAIN ls
      /\ \A j \in DOMAIN ls : ls[j] \in 1 .. MaxCommands
  <2>1. Len(ls) \in Nat /\ DOMAIN ls = 1 .. Len(ls) /\ Len(ls) # 0
    OBVIOUS
  <2>2. \A j \in DOMAIN ls : ls[j] \in 1 .. MaxCommands
    <3>1. PICK S : S = 1 .. MaxCommands
      OBVIOUS
    <3>2. ls \in Seq(S)
      BY <3>1
    <3>3. \A j \in DOMAIN ls : ls[j] \in S
      BY <3>2, ElementOfSeq
    <3> QED BY <3>1, <3>3
  <2> QED BY <2>1, <2>2
<1>4. \A j \in DOMAIN ls : asked[ls[j]] \in AllCommands
  <2>1. asked \in Seq(Commands) /\ Len(asked) \in Nat
    BY DEF TypeOK
  <2>2. \A j \in DOMAIN ls : ls[j] \in 1 .. Len(asked)
    BY <1>3, <2>1, CommandsAssumption
  <2> QED BY <2>1, <2>2, CommandsAssumption
<1>5. ASSUME Passes(ls) PROVE \E q : ForwardedLines(ls, q)
  <2> DEFINE line(c, i) == [cmd |-> c, of |-> i, addr |-> IF c \in {"PORT", "EPRT"} THEN "client" ELSE "none"]
             q == [j \in DOMAIN ls |-> line(asked[ls[j]], ls[j])]
  <2>1. \A c \in AllCommands, i \in 1 .. MaxCommands :
           line(c, i) \in Lines /\ line(c, i).cmd = c /\ line(c, i).of = i /\ c # "226"
    BY DEF Lines, AllCommands
  <2>2. site' = site \o q
    BY <1>5 DEF Passes
  <2> HIDE DEF line
  <2>3. /\ DOMAIN q = DOMAIN ls
        /\ \A j \in DOMAIN ls : /\ q[j] \in Lines /\ q[j].cmd = asked[ls[j]] /\ q[j].of = ls[j]
                               /\ q[j].cmd # "226"
    BY <1>3, <1>4, <2>1
  <2>4. q = [j \in 1 .. Len(ls) |-> q[j]]
    BY <1>3
  <2> HIDE DEF q
  <2>5. q \in Seq(Lines)
    <3>1. q \in [1 .. Len(ls) -> Lines]
      BY <1>3, <2>3, <2>4
    <3> QED BY <1>3, <3>1
  <2>6. ForwardedLines(ls, q)
    BY <2>2, <2>3, <2>5 DEF ForwardedLines
  <2> QED BY <2>6
<1>6. ASSUME NEW c \in (AllCommands \cup {"NOOP"}) \ {"XFER"}, asked[ls[1]] # "XFER", Becomes(ls, c)
      PROVE  \E q : ForwardedLines(ls, q)
  <2>1. PICK l : l = [cmd |-> c, of |-> ls[1],
                      addr |-> IF c \in {"PORT", "EPRT"} THEN "bouncer" ELSE "none"]
    OBVIOUS
  <2>2. l \in Lines /\ l.of = ls[1] /\ l.cmd = c /\ c # "226" /\ c # "XFER"
    BY <1>3, <1>6, <2>1 DEF Lines, AllCommands
  <2>3. site \in Seq(Lines) /\ site' = Append(site, l)
    BY <1>6, <2>1 DEF TypeOK, Becomes
  <2>4. PICK q : q = <<l>>
    OBVIOUS
  <2>5. q \in Seq(Lines) /\ site' = site \o q /\ DOMAIN q = {1} /\ q[1] = l
    BY <2>2, <2>3, <2>4
  <2>6. ForwardedLines(ls, q)
    BY <1>6, <2>2, <2>5 DEF ForwardedLines
  <2> QED BY <2>6
<1>7. Verb(ls) \in {"PASV", "EPSV 1", "EPSV 2", "PORT", "EPRT"} => asked[ls[1]] # "XFER"
  BY DEF Verb
<1>8. {"EPSV 1", "EPSV 2", "PORT", "EPRT", "NOOP"} \subseteq (AllCommands \cup {"NOOP"}) \ {"XFER"}
  BY DEF AllCommands
<1>9. CASE Auth(ls) \/ Plain(ls)
  BY <1>2, <1>5, <1>9 DEF Auth, Plain
<1>10. CASE Passive(ls)
  <2>1. Passes(ls) \/ (asked[ls[1]] # "XFER" /\ \E c \in {"EPSV 1", "EPSV 2"} : Becomes(ls, c))
    BY <1>7, <1>10 DEF Passive
  <2> QED BY <1>2, <1>5, <1>6, <1>8, <2>1
<1>11. CASE Active(ls)
  <2>1. asked[ls[1]] # "XFER" /\ \E c \in {"PORT", "EPRT", "NOOP"} : Becomes(ls, c)
    BY <1>7, <1>11 DEF Active
  <2> QED BY <1>2, <1>6, <1>8, <2>1
<1> QED BY <1>9, <1>10, <1>11

-----------------------------------------------------------------------------
(* Contents: what is told, what comes and what is asked of the site, when  *)
(* the client waits.                                                       *)

\* A client that sent c is given a listener of this family.
Asks(c) == IF c = "EPSV 2" THEN "IPv6" ELSE "IPv4"

\* A reply the client may be told.
Right(r) ==
    /\ r.code \in Kinds(asked[r.of])
    /\ r.code \in {"227", "229"} => r.at = Asks(asked[r.of])
    /\ AuthOnce /\ r.code = "234" /\ r.end => mitm

\* A reply that comes: it is the extra row, or caught, or may be passed on.
Coming(r) ==
    \/ r.code = "550U" /\ asked[r.of] = "XFER"
    \/ /\ responsecatch # "NONE" /\ r.of = Len(asked)
       /\ r.code \in Expected /\ (r.code \in {"227", "229"} => r.at = "site")
    \/ /\ responsecatch = "NONE" /\ r.code \in Open(asked[r.of])
       /\ AuthOnce => r.code # "234"

\* A line of which the answers will be such replies.
Settled(l) ==
    /\ l.addr # "client"
    /\ \/ responsecatch # "NONE" /\ Answers(l.cmd) \subseteq Expected
       \/ /\ responsecatch = "NONE" /\ Answers(l.cmd) \subseteq Open(asked[l.of])
          /\ AuthOnce => "234" \notin Answers(l.cmd)

DataInv ==
    /\ IF responsecatch = "NONE" THEN origincatch = "NONE" ELSE Fits(asked[Len(asked)])
    /\ \A k \in DOMAIN told : Right(told[k])
    /\ \A k \in DOMAIN site : Settled(site[k])
    /\ \A k \in DOMAIN replybuf : Coming(replybuf[k])
    /\ \A k \in DOMAIN downlink : Coming(downlink[k])
    /\ AuthOnce => \A j, k \in DOMAIN asked : j < k /\ asked[j] = "AUTH" => asked[k] # "AUTH"
    /\ tlsstate # "NONE" => \E k \in DOMAIN asked : /\ asked[k] = "AUTH"
                                                    /\ \A m \in DOMAIN uplink : k < uplink[m].of

Inv == TypeOK /\ OrderInv /\ Shape /\ (Split => DataInv)

-----------------------------------------------------------------------------
(* The client sends a command.                                             *)

\* A command that is leaving has a piece on its way.
LEMMA LeavingPiece == ASSUME Leaving PROVE \E m \in DOMAIN uplink : uplink[m].of = Len(asked)
<1> DEFINE pf == Piece(Len(asked), FALSE)  pt == Piece(Len(asked), TRUE)
<1>1. pt.of = Len(asked) /\ (uplink = <<pf, pt>> \/ uplink = <<pt>>)
  BY DEF Leaving, Piece
<1> HIDE DEF pf, pt
<1>2. CASE uplink = <<pf, pt>>
  <2>1. 2 \in DOMAIN uplink /\ uplink[2] = pt
    BY <1>2
  <2> QED BY <1>1, <2>1
<1>3. CASE uplink = <<pt>>
  <2>1. 1 \in DOMAIN uplink /\ uplink[1] = pt
    BY <1>3
  <2> QED BY <1>1, <2>1
<1> QED BY <1>1, <1>2, <1>3

\* A client that waits has been told all there is, but for an extra row.
LEMMA Rested ==
    ASSUME TypeOK, OrderInv, Shape, Split, Patient
    PROVE  Passing /\ site = <<>> /\ downlink \in Stray
<1>1. asked \in Seq(Commands) /\ Len(asked) \in Nat /\ DOMAIN asked = 1 .. Len(asked)
  BY DEF TypeOK
<1>2. told \in Seq(Replies) /\ uplink \in Seq(Pieces) /\ \A r \in Replies : r.of \in Int
  BY CommandsAssumption DEF TypeOK, Replies
<1>3. CASE asked = <<>>
  <2>1. ~Leaving
    <3>1. ASSUME Leaving PROVE FALSE
      <4>1. \E k \in DOMAIN uplink : uplink[k].of = Len(asked)
        BY <3>1, LeavingPiece
      <4>2. \A p \in Pieces : p.of >= 1
        BY CommandsAssumption DEF Pieces
      <4> QED BY <1>2, <1>3, <4>1, <4>2
    <3> QED BY <3>1
  <2>2. Passing
    BY <1>3, <2>1 DEF Shape, Catching
  <2> QED BY <1>3, <2>2 DEF Passing, Stray
<1>4. CASE asked # <<>>
  <2>1. Len(asked) \in DOMAIN asked
    BY <1>1, <1>4
  <2>2. PICK k \in DOMAIN told : told[k].of = Len(asked) /\ Final(told[k])
    BY <2>1 DEF Patient, Split, Answered
  <2>3. ~Catching
    BY <1>1, <2>2 DEF Catching
  <2>4. ~Leaving
    BY <1>1, <2>2, LeavingPiece DEF OrderInv, Unsent
  <2>5. Passing
    BY <2>3, <2>4 DEF Shape
  <2> QED BY <2>2, <2>5 DEF Passing
<1> QED BY <1>3, <1>4

\* A bag of facts on the sequence of commands when one is added.
LEMMA MoreAsked ==
    ASSUME TypeOK, NEW c \in Commands, asked' = Append(asked, c)
    PROVE  /\ Len(asked) \in Nat /\ Len(asked') = Len(asked) + 1 /\ asked' \in Seq(Commands)
           /\ DOMAIN asked = 1 .. Len(asked) /\ DOMAIN asked' = 1 .. Len(asked) + 1
           /\ \A i \in 1 .. Len(asked) : asked'[i] = asked[i]
           /\ asked'[Len(asked) + 1] = c
  BY DEF TypeOK

\* Commands that are known keep their meaning.
LEMMA KnownCommand ==
    ASSUME TypeOK, OrderInv
    PROVE  /\ \A k \in DOMAIN told : told[k].of \in 1 .. Len(asked)
           /\ \A k \in DOMAIN downlink : downlink[k].of \in 1 .. Len(asked)
           /\ \A k \in DOMAIN site : site[k].of \in 1 .. Len(asked)
           /\ \A k \in DOMAIN uplink : uplink[k].of \in 1 .. Len(asked)
<1>1. /\ \A r \in Replies : r.of \in Int /\ r.of >= 1
      /\ \A l \in Lines : l.of \in Int /\ l.of >= 1
      /\ \A p \in Pieces : p.of \in Int /\ p.of >= 1
  BY CommandsAssumption DEF Replies, Lines, Pieces
<1>2. /\ \A k \in DOMAIN told : told[k] \in Replies
      /\ \A k \in DOMAIN downlink : downlink[k] \in Replies
      /\ \A k \in DOMAIN site : site[k] \in Lines
      /\ \A k \in DOMAIN uplink : uplink[k] \in Pieces
      /\ Len(asked) \in Nat
  BY DEF TypeOK
<1>3. /\ \A k \in DOMAIN told : told[k].of <= Len(asked)
      /\ \A k \in DOMAIN downlink : downlink[k].of <= Len(asked)
      /\ \A k \in DOMAIN site : site[k].of <= Len(asked)
      /\ \A k \in DOMAIN uplink : uplink[k].of <= Len(asked)
  BY DEF OrderInv, Known
<1> QED BY <1>1, <1>2, <1>3

\* The client sends a command: the invariant holds again.
LEMMA ClientSendsInv == ASSUME Inv, ClientSends PROVE Inv'
<1> DEFINE i == Len(asked) + 1  pf == [of |-> i, end |-> FALSE]  pt == [of |-> i, end |-> TRUE]
           add == IF Split THEN <<pf, pt>> ELSE <<pt>>
<1>1. TypeOK /\ OrderInv /\ Shape /\ (Split => DataInv)
  BY DEF Inv
<1>2. PICK c \in Commands : /\ asked' = Append(asked, c)
                            /\ c = "AUTH" => \A k \in DOMAIN asked : asked[k] = "AUTH" => ~AuthOnce /\ ~mitm
  BY DEF ClientSends
<1>3. /\ Len(asked) \in Nat /\ Len(asked') = i /\ asked' \in Seq(Commands)
      /\ DOMAIN asked = 1 .. Len(asked) /\ DOMAIN asked' = 1 .. i
      /\ \A k \in 1 .. Len(asked) : asked'[k] = asked[k]
      /\ asked'[i] = c
  BY <1>1, <1>2, MoreAsked
<1>4. Len(asked) < MaxCommands /\ i \in 1 .. MaxCommands /\ i \in Int
  BY <1>3, CommandsAssumption DEF ClientSends
<1>5. pf \in Pieces /\ pt \in Pieces /\ pf.of = i /\ pt.of = i /\ pf.end = FALSE /\ pt.end = TRUE
  BY <1>4 DEF Pieces
<1>6. uplink' = uplink \o add
  BY DEF ClientSends
<1>7. UNCHANGED <<never, catches, commandbuf, replybuf, mitm, site, downlink, told>>
  BY DEF ClientSends
<1>8. /\ Split' = Split
      /\ pf = Piece(Len(asked'), FALSE) /\ pt = Piece(Len(asked'), TRUE)
  BY <1>3, <1>7 DEF Split, never, Piece
<1> HIDE DEF i, pf, pt
<1>9. add \in Seq(Pieces) /\ \A k \in DOMAIN add : add[k] \in {pf, pt}
  <2>1. <<pf, pt>> \in Seq(Pieces) /\ \A k \in DOMAIN <<pf, pt>> : <<pf, pt>>[k] \in {pf, pt}
    BY <1>5
  <2>2. <<pt>> \in Seq(Pieces) /\ \A k \in DOMAIN <<pt>> : <<pt>>[k] \in {pf, pt}
    BY <1>5
  <2> QED BY <2>1, <2>2
<1> HIDE DEF add
<1>10. TypeOK'
  <2>1. uplink' \in Seq(Pieces)
    BY <1>1, <1>6, <1>9 DEF TypeOK
  <2>2. Len(asked') <= MaxCommands
    BY <1>3, <1>4, CommandsAssumption
  <2> QED BY <1>1, <1>3, <1>7, <2>1, <2>2 DEF TypeOK, never, catches
<1>11. OrderInv'
  <2>1. \A k \in DOMAIN add : add[k].of = Len(asked) + 1
    BY <1>5, <1>9 DEF i
  <2> QED BY <1>1, <1>2, <1>6, <1>7, <1>9, <2>1, AskedOrder
<1>12. CASE Split
  <2>1. Passing /\ site = <<>> /\ downlink \in Stray
    BY <1>1, <1>12, Rested DEF ClientSends
  <2>2. uplink' = <<pf, pt>>
    BY <1>5, <1>6, <1>12, <2>1, Short DEF add, Passing
  <2>3. Shape'
    <3>1. Leaving'
      BY <1>7, <1>8, <2>1, <2>2 DEF Leaving, Passing, catches, Stray, Rows
    <3> QED BY <1>8, <1>12, <3>1 DEF Shape
  <2>4. DataInv
    BY <1>1, <1>12
  <2>5. /\ \A k \in DOMAIN told : told[k].of \in 1 .. Len(asked)
        /\ \A k \in DOMAIN downlink : downlink[k].of \in 1 .. Len(asked)
    BY <1>1, KnownCommand
  <2>6. \A k \in DOMAIN told' : Right(told[k])'
    BY <1>3, <1>7, <2>4, <2>5 DEF DataInv, Right
  <2>7. responsecatch = "NONE" /\ replybuf = <<>> /\ uplink = <<>>
    BY <2>1 DEF Passing
  <2>8. \A k \in DOMAIN downlink' : Coming(downlink[k])'
    BY <1>3, <1>7, <2>4, <2>5, <2>7 DEF DataInv, Coming, catches
  <2>9. AuthOnce => \A j, k \in DOMAIN asked' : j < k /\ asked'[j] = "AUTH" => asked'[k] # "AUTH"
    <3>1. ASSUME AuthOnce, NEW j \in DOMAIN asked', NEW k \in DOMAIN asked', j < k,
                 asked'[j] = "AUTH", asked'[k] = "AUTH"
          PROVE  FALSE
      <4>1. j \in 1 .. Len(asked) /\ asked[j] = "AUTH"
        BY <1>3, <3>1 DEF i
      <4>2. CASE k = i
        BY <1>2, <1>3, <3>1, <4>1, <4>2
      <4>3. CASE k \in 1 .. Len(asked)
        BY <1>3, <2>4, <3>1, <4>1, <4>3 DEF DataInv
      <4> QED BY <1>3, <3>1, <4>2, <4>3 DEF i
    <3> QED BY <3>1
  <2>10. tlsstate' # "NONE" => \E k \in DOMAIN asked' : /\ asked'[k] = "AUTH"
                                                        /\ \A m \in DOMAIN uplink' : k < uplink'[m].of
    <3>1. \A k \in 1 .. Len(asked) : k \in 1 .. i /\ k < i
      BY <1>3 DEF i
    <3>2. \A m \in DOMAIN uplink' : uplink'[m].of = i
      BY <1>5, <2>2
    <3> QED BY <1>3, <1>7, <2>4, <3>1, <3>2 DEF DataInv, catches
  <2>11. DataInv'
    BY <1>7, <2>1, <2>4, <2>6, <2>7, <2>8, <2>9, <2>10 DEF DataInv, catches
  <2> QED BY <1>10, <1>11, <2>3, <2>11 DEF Inv
<1>13. CASE ~Split
  <2>1. Unsplit
    BY <1>1, <1>13 DEF Shape
  <2>2. uplink' = uplink \o <<pt>> /\ uplink \in Seq(Pieces) /\ <<pt>> \in Seq(Pieces)
    BY <1>1, <1>5, <1>6, <1>13 DEF add, TypeOK
  <2>3. /\ Len(uplink) \in Nat /\ DOMAIN uplink = 1 .. Len(uplink)
        /\ DOMAIN uplink' = 1 .. Len(uplink) + 1
        /\ \A k \in 1 .. Len(uplink) : uplink'[k] = uplink[k]
        /\ uplink'[Len(uplink) + 1] = pt
    BY <2>2
  <2>4. \A k \in DOMAIN uplink' : uplink'[k].end
    BY <1>5, <2>1, <2>3 DEF Unsplit
  <2>5. ASSUME NEW k \in DOMAIN uplink' PROVE uplink'[k].of = Len(asked') - Len(uplink') + k
    <3>1. Len(uplink') = Len(uplink) + 1 /\ Len(asked') = Len(asked) + 1
      BY <1>3, <2>2 DEF i
    <3>2. CASE k \in 1 .. Len(uplink)
      BY <1>3, <2>1, <2>3, <3>1, <3>2 DEF Unsplit
    <3>3. CASE k = Len(uplink) + 1
      BY <1>3, <1>5, <2>3, <3>1, <3>3 DEF i
    <3> QED BY <2>3, <2>5, <3>2, <3>3
  <2>6. Unsplit'
    BY <1>7, <2>1, <2>4, <2>5 DEF Unsplit
  <2> QED BY <1>8, <1>10, <1>11, <1>13, <2>6 DEF Inv, Shape
<1> QED BY <1>12, <1>13

-----------------------------------------------------------------------------
(* A block of the client's commands.                                       *)

\* A line reaches the site.
LEMMA ForwardInv ==
    ASSUME Inv, Split, Leaving, NEW n \in Blocks(uplink), NEW i, OneLine(n, i), i = Len(asked),
           uplink' = SubSeq(uplink, n + 1, Len(uplink)), uplink' = <<>>,
           commandbuf' = <<>>, UNCHANGED <<never, replybuf, mitm, asked, downlink, told>>,
           NEW l \in Lines, Forwarded(i, l)
    PROVE  Inv'
<1>1. TypeOK /\ OrderInv /\ Shape /\ (Split => DataInv)
  BY DEF Inv
<1>2. /\ n \in DOMAIN uplink /\ uplink \in Seq(Pieces) /\ uplink' \in Seq(Pieces)
      /\ \A k \in DOMAIN uplink' : k \in Nat /\ n + k \in DOMAIN uplink /\ uplink'[k] = uplink[n + k]
      /\ n \in Nat
  <2>1. n \in DOMAIN uplink /\ uplink \in Seq(Pieces)
    BY <1>1 DEF Blocks, TypeOK
  <2> QED BY <2>1, CutAt
<1>3. /\ i \in 1 .. MaxCommands /\ \E k \in DOMAIN uplink : uplink[k].of = i
      /\ \A k \in DOMAIN uplink' : i < uplink'[k].of /\ \E m \in DOMAIN uplink : uplink'[k] = uplink[m]
  BY DEF OneLine
<1>4. site \in Seq(Lines) /\ site' = Append(site, l)
  BY <1>1 DEF TypeOK, Forwarded
<1>5. /\ site' \in Seq(Lines) /\ Len(site) \in Nat /\ Len(site') = Len(site) + 1
      /\ \A k \in DOMAIN site' : site'[k] = l \/ (k \in DOMAIN site /\ site'[k] = site[k])
  BY <1>4
<1>6. TypeOK'
  <2>1. responsecatch' # "NONE" \/ responsecatch' = responsecatch
    BY DEF Forwarded
  <2>2. /\ responsecatch' \in {"NONE", "AUTH_TLS", "PASV", "EPSV", "PORT", "EPRT"}
        /\ origincatch' \in {"NONE", "PASV", "EPSV_1", "EPSV_2", "PORT"}
        /\ tlsstate' \in {"NONE", "QUERY", "IN_PROGRESS"}
    BY DEF Forwarded
  <2>3. commandbuf' \in Seq(Pieces)
    OBVIOUS
  <2> QED BY <1>1, <1>2, <1>5, <2>1, <2>2, <2>3 DEF TypeOK, never
<1>7. OrderInv'
  <2>1. PICK q : q = <<l>>
    OBVIOUS
  <2>2. q \in Seq(Lines) /\ site' = site \o q /\ DOMAIN q = {1} /\ q[1] = l
    <3>1. site \o <<l>> = Append(site, l) /\ <<l>> \in Seq(Lines)
      BY <1>4
    <3>2. DOMAIN q = {1} /\ q[1] = l
      BY <2>1
    <3> QED BY <1>4, <2>1, <3>1, <3>2
  <2>3. Forwards(q)
    <3>1. /\ \A j \in DOMAIN q : q[j] = l /\ q[j].of = i
          /\ \A j, k \in DOMAIN q : ~(j < k)
      BY <2>2 DEF Forwarded
    <3>2. l.of = i /\ l.cmd # "226" /\ (l.cmd = "XFER" <=> asked[i] = "XFER")
      BY DEF Forwarded
    <3> QED BY <1>3, <2>2, <3>1, <3>2 DEF Forwards
  <2> QED BY <1>1, <2>3, ForwardsOrder
<1>8. Split' = Split
  BY DEF Split, never
<1>9. /\ i = Len(asked) /\ Leaving /\ uplink' = <<>> /\ DataInv
  BY <1>1
<1>10. /\ asked \in Seq(Commands) /\ Len(asked) \in Nat /\ DOMAIN asked = 1 .. Len(asked)
      /\ Len(asked) \in DOMAIN asked /\ asked # <<>>
  <2>1. asked \in Seq(Commands) /\ i >= 1
    BY <1>1, <1>3, CommandsAssumption DEF TypeOK
  <2> QED BY <1>9, <2>1
<1>11. \A k \in DOMAIN told : told[k].of < Len(asked)
  BY <1>1, <1>3, <1>9 DEF OrderInv, Unsent
<1>12. site' = <<l>> /\ Len(site') = 1 /\ site'[1] = l /\ l.of = Len(asked)
  <2>1. site = <<>>
    BY <1>9 DEF Leaving
  <2> QED BY <1>4, <1>9, <2>1 DEF Forwarded
<1>13. downlink \in Stray /\ replybuf = <<>> /\ responsecatch = "NONE"
  BY <1>9 DEF Leaving
<1>14. \A k \in DOMAIN downlink : ~Final(downlink[k]) /\ downlink[k].code = "550U"
  BY <1>13 DEF Stray, Rows, Final
<1>15. Shape'
  <2>1. CASE responsecatch' # "NONE" /\ asked[i] # "XFER"
    <3>1. l.cmd \notin {"XFER", "226"}
      BY <2>1 DEF Forwarded
    <3>2. \A k \in DOMAIN told' : told'[k].of < Len(asked')
      BY <1>11
    <3>3. downlink' \in Stray'
      BY <1>13 DEF Stray, Rows
    <3>4. Catching'
      BY <1>9, <1>10, <1>12, <1>13, <2>1, <3>1, <3>2, <3>3 DEF Catching
    <3> QED BY <1>8, <3>4 DEF Shape
  <2>2. CASE responsecatch' = responsecatch
    <3>1. \A k \in DOMAIN downlink' : ~Final(downlink[k])'
      BY <1>14 DEF Final
    <3>2. \A k \in DOMAIN told' : told'[k].of # Len(asked')
      <4>1. told \in Seq(Replies) /\ \A r \in Replies : r.of \in Int
        BY <1>1, CommandsAssumption DEF TypeOK, Replies
      <4> QED BY <1>10, <1>11, <4>1
    <3>3. Passing'
      BY <1>9, <1>10, <1>12, <1>13, <2>2, <3>1, <3>2 DEF Passing
    <3> QED BY <1>8, <3>3 DEF Shape
  <2> QED BY <2>1, <2>2 DEF Forwarded
<1>16. origincatch = "NONE"
  BY <1>9, <1>13 DEF DataInv
<1>17. asked[i] = "AUTH" /\ AuthOnce => tlsstate = "NONE"
  <2>1. ASSUME asked[i] = "AUTH", AuthOnce, tlsstate # "NONE" PROVE FALSE
    <3>1. PICK k \in DOMAIN asked : asked[k] = "AUTH" /\ \A m \in DOMAIN uplink : k < uplink[m].of
      BY <1>9, <2>1 DEF DataInv
    <3>2. k < i
      BY <1>3, <3>1
    <3> QED BY <1>9, <1>10, <2>1, <3>1, <3>2 DEF DataInv
  <2> QED BY <2>1
<1>18. ~(asked[i] = "AUTH") => "234" \notin Open(asked[i])
  BY DEF Open, Kinds
<1>19. /\ IF responsecatch' = "NONE" THEN origincatch' = "NONE" ELSE Fits(asked[Len(asked)])'
       /\ Settled(l)'
  <2>1. CASE /\ responsecatch' # "NONE"
             /\ Fits(asked[i])' /\ Answers(l.cmd) \subseteq Expected'
    BY <1>9, <2>1 DEF Settled, Forwarded
  <2>2. CASE /\ UNCHANGED <<responsecatch, origincatch>> /\ Answers(l.cmd) \subseteq Open(asked[i])
             /\ asked[i] = "AUTH" => tlsstate # "NONE"
    BY <1>9, <1>12, <1>13, <1>16, <1>17, <1>18, <2>2 DEF Settled, Forwarded
  <2> QED BY <1>16, <2>1, <2>2 DEF Forwarded
<1>20. \A k \in DOMAIN told' : Right(told[k])'
  BY <1>9 DEF DataInv, Right
<1>21. \A k \in DOMAIN downlink' : Coming(downlink[k])'
  <2>1. \A k \in DOMAIN downlink : asked[downlink[k].of] = "XFER"
    <3>1. \A c : "550U" \in Open(c) => c = "XFER"
      BY DEF Open, Kinds
    <3> QED BY <1>9, <1>13, <1>14, <3>1 DEF DataInv, Coming
  <2> QED BY <1>14, <2>1 DEF Coming
<1>22. tlsstate' # "NONE" => \E k \in DOMAIN asked' : /\ asked'[k] = "AUTH"
                                                      /\ \A m \in DOMAIN uplink' : k < uplink'[m].of
  <2>1. DOMAIN uplink' = {}
    <3>1. DOMAIN <<>> = {}
      OBVIOUS
    <3> QED BY <1>9, <3>1
  <2>2. tlsstate' = tlsstate \/ asked[Len(asked)] = "AUTH"
    BY <1>9 DEF Forwarded
  <2> QED BY <1>9, <1>10, <2>1, <2>2 DEF DataInv
<1>23. \A k \in DOMAIN site' : Settled(site[k])'
  BY <1>12, <1>19
<1>24. DataInv'
  <2>1. AuthOnce => \A j, k \in DOMAIN asked' : j < k /\ asked'[j] = "AUTH" => asked'[k] # "AUTH"
    BY <1>9 DEF DataInv
  <2>2. \A k \in DOMAIN replybuf' : Coming(replybuf[k])'
    BY <1>13
  <2> QED BY <1>19, <1>20, <1>21, <1>22, <1>23, <2>1, <2>2 DEF DataInv
<1> QED BY <1>6, <1>7, <1>15, <1>24 DEF Inv

\* The lines of a block reach the site, or the first of them.
LEMMA ForwardLinesInv ==
    ASSUME Inv, ~Split, NEW n \in Blocks(uplink), NEW ls, SomeLines(n, ls),
           uplink' = SubSeq(uplink, n + 1, Len(uplink)), commandbuf' = <<>>,
           UNCHANGED <<never, replybuf, mitm, asked, downlink, told>>,
           CatchTypes', NEW q, ForwardedLines(ls, q)
    PROVE  Inv'
<1>1. TypeOK /\ OrderInv /\ Unsplit
  BY DEF Inv, Shape
<1>2. /\ n \in DOMAIN uplink /\ uplink \in Seq(Pieces) /\ uplink' \in Seq(Pieces)
      /\ \A k \in DOMAIN uplink' : k \in Nat /\ n + k \in DOMAIN uplink /\ uplink'[k] = uplink[n + k]
      /\ n \in Nat /\ Len(uplink) \in Nat /\ Len(uplink') = Len(uplink) - n
  <2>1. n \in DOMAIN uplink /\ uplink \in Seq(Pieces) /\ Len(uplink) \in Nat
    BY <1>1 DEF Blocks, TypeOK
  <2> QED BY <2>1, CutAt
<1>3. /\ ls \in Seq(1 .. MaxCommands) /\ 1 \in DOMAIN ls
      /\ \A j \in DOMAIN ls : j \in DOMAIN uplink /\ ls[j] = uplink[j].of
      /\ \A j, k \in DOMAIN ls : j < k => ls[j] < ls[k]
      /\ \A j \in DOMAIN ls, k \in DOMAIN uplink' : ls[j] < uplink'[k].of
  <2>1. ls \in Seq(1 .. MaxCommands) /\ ls # <<>>
    BY DEF SomeLines
  <2>2. 1 \in DOMAIN ls
    BY <2>1
  <2> QED BY <2>1, <2>2 DEF SomeLines
<1>4. Forwards(q)
  <2>1. \A j \in DOMAIN q : \E k \in DOMAIN ls : q[j].of = ls[k]
    BY <1>3 DEF ForwardedLines
  <2>2. \A j, k \in DOMAIN q : j < k => q[j].of < q[k].of
    BY <1>3 DEF ForwardedLines
  <2> QED BY <1>2, <1>3, <2>1, <2>2 DEF Forwards, ForwardedLines
<1>5. OrderInv'
  BY <1>1, <1>4, ForwardsOrder
<1>6. TypeOK'
  <2>1. site \in Seq(Lines) /\ q \in Seq(Lines) /\ site' = site \o q
    BY <1>1 DEF TypeOK, ForwardedLines
  <2>2. site' \in Seq(Lines)
    BY <2>1
  <2>3. commandbuf' \in Seq(Pieces) /\ replybuf = <<>>
    BY <1>1 DEF Unsplit
  <2> QED BY <1>1, <1>2, <2>2, <2>3 DEF TypeOK, never, CatchTypes
<1>7. Unsplit'
  <2>1. \A k \in DOMAIN uplink' : uplink'[k].of = Len(asked) - Len(uplink') + k
    <3>1. Len(asked) \in Nat
      BY <1>1 DEF TypeOK
    <3>2. ASSUME NEW k \in DOMAIN uplink' PROVE uplink'[k].of = Len(asked) - Len(uplink') + k
      <4>1. uplink'[k].of = Len(asked) - Len(uplink) + (n + k) /\ k \in Nat
        BY <1>1, <1>2 DEF Unsplit
      <4>2. Len(asked) - Len(uplink) + (n + k) = Len(asked) - (Len(uplink) - n) + k
        BY <1>2, <3>1, <4>1
      <4> QED BY <1>2, <4>1, <4>2
    <3> QED BY <3>2
  <2> QED BY <1>1, <1>2, <2>1 DEF Unsplit
<1>8. ~Split'
  BY DEF Split, never
<1> QED BY <1>5, <1>6, <1>7, <1>8 DEF Inv, Shape

\* The first piece of a line waits in the parser.
HalfLine ==
    /\ uplink' = <<Piece(Len(asked), TRUE)>> /\ commandbuf' = <<Piece(Len(asked), FALSE)>>
    /\ UNCHANGED <<never, replybuf, mitm, asked, downlink, told, catches, site>>

\* Half a command reaches sendData, which waits for the rest.
LEMMA HalfLineInv == ASSUME Inv, Split, Leaving, HalfLine PROVE Inv'
<1> DEFINE pf == Piece(Len(asked), FALSE)  pt == Piece(Len(asked), TRUE)
<1>1. TypeOK /\ OrderInv /\ Shape /\ (Split => DataInv)
  BY DEF Inv
<1>2. uplink' = <<pt>> /\ commandbuf' = <<pf>>
  BY DEF HalfLine
<1>3. UNCHANGED <<never, replybuf, mitm, asked, downlink, told, catches, site>>
  BY DEF HalfLine
<1>4. PICK m \in DOMAIN uplink : uplink[m].of = Len(asked)
  BY LeavingPiece
<1>5. pf.of = Len(asked) /\ pt.of = Len(asked) /\ pf \in Pieces /\ pt \in Pieces /\ pf.end = FALSE
  <2>1. uplink[m] \in Pieces
    BY <1>1 DEF TypeOK
  <2> QED BY <1>4, <2>1 DEF Pieces, Piece
<1>6. Len(asked) \in Int
  BY <1>1 DEF TypeOK
<1> HIDE DEF pf, pt
<1>7. /\ DOMAIN uplink' = {1} /\ uplink'[1] = pt /\ DOMAIN commandbuf' = {1} /\ commandbuf'[1] = pf
      /\ uplink' \in Seq(Pieces) /\ commandbuf' \in Seq(Pieces) /\ Len(commandbuf') = 1
  <2>1. /\ DOMAIN <<pt>> = {1} /\ <<pt>>[1] = pt /\ DOMAIN <<pf>> = {1} /\ <<pf>>[1] = pf
        /\ <<pt>> \in Seq(Pieces) /\ <<pf>> \in Seq(Pieces) /\ Len(<<pf>>) = 1
    BY <1>5
  <2> QED BY <1>2, <2>1
<1>8. TypeOK'
  BY <1>1, <1>3, <1>5, <1>7 DEF TypeOK, never, catches
<1>9. OrderInv'
  <2>1. /\ Ordered(told)' /\ Ordered(replybuf)' /\ Ordered(downlink)'
        /\ Ahead(told, replybuf)' /\ Ahead(told, downlink)' /\ Ahead(replybuf, downlink)'
    BY <1>1, <1>3 DEF OrderInv, Ordered, Ahead, After
  <2>2. Owed(told)' /\ Owed(replybuf)' /\ Owed(downlink)'
    BY <1>1, <1>3 DEF OrderInv, Owed
  <2>3. Unsent(told)' /\ Unsent(replybuf)' /\ Unsent(downlink)' /\ Unsent(site)'
    <3>1. /\ \A k \in DOMAIN commandbuf' : commandbuf'[k].of = uplink[m].of
          /\ \A k \in DOMAIN uplink' : uplink'[k].of = uplink[m].of
      BY <1>4, <1>5, <1>7
    <3> QED BY <1>1, <1>3, <3>1 DEF OrderInv, Unsent
  <2>4. /\ Known(told)' /\ Known(replybuf)' /\ Known(downlink)' /\ Known(site)'
        /\ Known(commandbuf)' /\ Known(uplink)'
    <3>1. /\ \A k \in DOMAIN commandbuf' : commandbuf'[k].of <= Len(asked)
          /\ \A k \in DOMAIN uplink' : uplink'[k].of <= Len(asked)
      BY <1>5, <1>6, <1>7
    <3> QED BY <1>1, <1>3, <3>1 DEF OrderInv, Known
  <2> QED BY <1>1, <1>3, <2>1, <2>2, <2>3, <2>4 DEF OrderInv
<1>10. Shape'
  <2>1. Leaving'
    <3>1. downlink' \in Stray' /\ commandbuf' = <<Piece(Len(asked'), FALSE)>>
      BY <1>2, <1>3 DEF Leaving, Stray, Rows, pf
    <3> QED BY <1>2, <1>3, <3>1 DEF Leaving, catches, pt
  <2> QED BY <1>3, <2>1 DEF Shape, Split, never
<1>11. DataInv'
  <2>1. DataInv
    BY <1>1
  <2>2. /\ \A k \in DOMAIN told' : Right(told[k])'
        /\ \A k \in DOMAIN site' : Settled(site[k])'
        /\ \A k \in DOMAIN replybuf' : Coming(replybuf[k])'
        /\ \A k \in DOMAIN downlink' : Coming(downlink[k])'
    BY <1>3, <2>1 DEF DataInv, Right, Settled, Coming, Expected, catches
  <2>3. tlsstate' # "NONE" => \E k \in DOMAIN asked' : /\ asked'[k] = "AUTH"
                                                       /\ \A j \in DOMAIN uplink' : k < uplink'[j].of
    BY <1>3, <1>4, <1>5, <1>7, <2>1 DEF DataInv, catches
  <2> QED BY <1>3, <2>1, <2>2, <2>3 DEF DataInv, Fits, catches, never
<1> QED BY <1>8, <1>9, <1>10, <1>11 DEF Inv

\* sendData keeps the invariant.
LEMMA FromClientInv == ASSUME Inv, FromClient PROVE Inv'
<1>1. PICK n \in Blocks(uplink) :
         /\ uplink' = SubSeq(uplink, n + 1, Len(uplink))
         /\ IF Last(Incoming(n)).end
            THEN /\ \/ Auth(LinesOf(Incoming(n))) \/ Passive(LinesOf(Incoming(n)))
                    \/ Active(LinesOf(Incoming(n))) \/ Plain(LinesOf(Incoming(n)))
                 /\ commandbuf' = <<>>
            ELSE commandbuf' = Incoming(n) /\ UNCHANGED <<catches, site>>
         /\ UNCHANGED <<never, replybuf, mitm, asked, downlink, told>>
  BY DEF FromClient, Incoming
<1>2. TypeOK /\ Shape /\ OrderInv
  BY DEF Inv
<1>3. CASE Split /\ Last(Incoming(n)).end
  <2>1. /\ OneLine(n, Len(asked)) /\ Len(asked) \in 1 .. MaxCommands /\ Leaving
        /\ uplink' = <<>> /\ LinesOf(Incoming(n)) = <<Len(asked)>>
    BY <1>1, <1>2, <1>3, IncomingLine DEF OneLine
  <2>2. PICK i : i = Len(asked)
    OBVIOUS
  <2>3. i \in 1 .. MaxCommands /\ i <= Len(asked)
    BY <2>1, <2>2, CommandsAssumption
  <2>4. Auth(<<i>>) \/ Passive(<<i>>) \/ Active(<<i>>) \/ Plain(<<i>>)
    BY <1>1, <1>3, <2>1, <2>2
  <2>5. PICK l \in Lines : Forwarded(i, l)
    BY <1>1, <1>2, <2>3, <2>4, ForwardedLine DEF never
  <2> QED BY <1>1, <1>3, <2>1, <2>2, <2>5, ForwardInv
<1>4. CASE Split /\ ~Last(Incoming(n)).end
  <2>1. /\ Leaving /\ Incoming(n) = <<Piece(Len(asked), FALSE)>>
        /\ uplink' = <<Piece(Len(asked), TRUE)>>
    BY <1>1, <1>2, <1>4, IncomingLine
  <2>2. HalfLine
    BY <1>1, <1>4, <2>1 DEF HalfLine
  <2> QED BY <1>4, <2>1, <2>2, HalfLineInv
<1>5. CASE ~Split
  <2>1. Unsplit
    BY <1>2, <1>5 DEF Shape
  <2>2. PICK ls : SomeLines(n, ls)
    BY <1>2, <2>1, IncomingLines
  <2>3. /\ ls \in Seq(1 .. MaxCommands) /\ ls # <<>> /\ \A j \in DOMAIN ls : ls[j] <= Len(asked)
        /\ Last(Incoming(n)).end /\ LinesOf(Incoming(n)) = ls
    BY <2>2 DEF SomeLines
  <2>4. Auth(ls) \/ Passive(ls) \/ Active(ls) \/ Plain(ls)
    BY <1>1, <2>3
  <2>5. CatchTypes' /\ \E q : ForwardedLines(ls, q)
    BY <1>1, <1>2, <2>3, <2>4, LinesForwarded DEF never
  <2> QED BY <1>1, <1>5, <2>2, <2>3, <2>5, ForwardLinesInv
<1> QED BY <1>3, <1>4, <1>5

-----------------------------------------------------------------------------
(* The site answers.                                                       *)

\* The two pieces of a reply.
LEMMA StartRest ==
    ASSUME NEW r \in Replies
    PROVE  /\ Start(r) \in Replies /\ Rest(r) \in Replies
           /\ Start(r).of = r.of /\ Start(r).code = r.code /\ Start(r).at = r.at
           /\ Start(r).start = r.start /\ Start(r).end = FALSE
           /\ Rest(r).of = r.of /\ Rest(r).code = r.code /\ Rest(r).at = r.at
           /\ Rest(r).start = FALSE /\ Rest(r).end = r.end
  BY DEF Start, Rest, Replies

\* The site says r of its first line, and perhaps an extra row x.
Says(r, x, add) ==
    /\ site # <<>> /\ r \in Replies /\ r.of = Head(site).of
    /\ r.start /\ r.end /\ r.code \in Answers(Head(site).cmd)
    /\ r.code \in {"227", "229"} => r.at = "site"
    /\ x \in Rows /\ x.of = r.of
    /\ \/ add = Sent(r)
       \/ r.code = "226" /\ add = Sent(r) \o Sent(x)
    /\ site' = (IF r.code = "150" THEN <<[Head(site) EXCEPT !.cmd = "226"]>> ELSE <<>>) \o Tail(site)
    /\ downlink' = downlink \o add
    /\ UNCHANGED <<never, catches, commandbuf, replybuf, mitm, asked, uplink, told>>

\* A step of SiteReplies says one reply, and perhaps an extra row.
LEMMA SiteSays ==
    ASSUME TypeOK, SiteReplies
    PROVE  \E r, x, add : Says(r, x, add)
<1>1. site # <<>> /\ Head(site) \in Lines /\ Head(site).of \in 1 .. MaxCommands
  <2>1. site \in Seq(Lines) /\ site # <<>>
    BY DEF TypeOK, SiteReplies
  <2>2. Head(site) \in Lines
    BY <2>1
  <2> QED BY <2>1, <2>2 DEF Lines
<1> DEFINE i == Head(site).of
           r(code) == Made(i, code, IF code \in {"227", "229"} THEN "site" ELSE "none", TRUE)
           x == Made(i, "550U", "none", TRUE)
<1>2. PICK code \in Answers(Head(site).cmd) :
         /\ site' = (IF code = "150" THEN <<[Head(site) EXCEPT !.cmd = "226"]>> ELSE <<>>) \o Tail(site)
         /\ \/ downlink' = downlink \o Sent(r(code))
            \/ code = "226" /\ downlink' = downlink \o Sent(r(code)) \o Sent(x)
  BY DEF SiteReplies
<1>3. code \in Codes
  BY <1>2 DEF Answers, Codes
<1>4. r(code) \in Replies /\ x \in Rows /\ x \in Replies
  BY <1>1, <1>3 DEF Made, Replies, Rows, Codes
<1>5. /\ r(code).of = i /\ r(code).code = code /\ r(code).start /\ r(code).end /\ x.of = i
      /\ code \in {"227", "229"} => r(code).at = "site"
  BY DEF Made
<1>6. UNCHANGED <<never, catches, commandbuf, replybuf, mitm, asked, uplink, told>>
  BY DEF SiteReplies
<1>7. CASE downlink' = downlink \o Sent(r(code))
  <2> HIDE DEF r, x
  <2>1. Says(r(code), x, Sent(r(code)))
    BY <1>1, <1>2, <1>4, <1>5, <1>6, <1>7 DEF Says
  <2> QED BY <2>1
<1>8. CASE code = "226" /\ downlink' = downlink \o Sent(r(code)) \o Sent(x)
  <2>1. \A q \in Replies : Sent(q) \in Seq(Replies)
    <3>1. ASSUME NEW q \in Replies PROVE Sent(q) \in Seq(Replies)
      <4>1. Start(q) \in Replies /\ Rest(q) \in Replies
        BY StartRest
      <4>2. <<Start(q), Rest(q)>> \in Seq(Replies) /\ <<q>> \in Seq(Replies)
        BY <4>1
      <4> QED BY <4>2 DEF Sent, Start, Rest
    <3> QED BY <3>1
  <2> HIDE DEF r, x
  <2>2. downlink \o Sent(r(code)) \o Sent(x) = downlink \o (Sent(r(code)) \o Sent(x))
    <3>1. downlink \in Seq(Replies) /\ Sent(r(code)) \in Seq(Replies) /\ Sent(x) \in Seq(Replies)
      BY <1>4, <2>1 DEF TypeOK
    <3> QED BY <3>1, ConcatAssociative
  <2>3. Says(r(code), x, Sent(r(code)) \o Sent(x))
    BY <1>1, <1>2, <1>4, <1>5, <1>6, <1>8, <2>2 DEF Says
  <2> QED BY <2>3
<1> QED BY <1>2, <1>7, <1>8

\* What is added to the downlink: cut, or whole.
Cut(r, x, add) ==
    \/ add = <<Start(r), Rest(r)>>
    \/ r.code = "226" /\ add = <<Start(r), Rest(r), x>>
Uncut(r, x, add) == add = <<r>> \/ (r.code = "226" /\ add = <<r, x>>)

\* The pieces in which it comes.
LEMMA SaysPieces ==
    ASSUME NEW r, NEW x, NEW add, Says(r, x, add)
    PROVE  IF Split THEN Cut(r, x, add) ELSE Uncut(r, x, add)
<1>1. r \in Replies /\ x \in Replies /\ x.code = "550U" /\ r.code # "550U"
  BY DEF Says, Rows, Answers
<1>2. CASE Split
  <2>1. Sent(r) = <<Start(r), Rest(r)>> /\ Sent(x) = <<x>>
    BY <1>1, <1>2 DEF Sent, Start, Rest
  <2>2. <<Start(r), Rest(r)>> \o <<x>> = <<Start(r), Rest(r), x>>
    <3>1. PICK p, q : p = Start(r) /\ q = Rest(r) /\ p \in Replies /\ q \in Replies
      BY <1>1, StartRest
    <3>2. PICK s : s = <<p, q>> \o <<x>>
      OBVIOUS
    <3>3. s \in Seq(Replies) /\ Len(s) = 3 /\ s[1] = p /\ s[2] = q /\ s[3] = x
      BY <1>1, <3>1, <3>2
    <3>4. s = <<p, q, x>>
      BY <3>3, Few
    <3> QED BY <3>1, <3>2, <3>4
  <2> QED BY <1>2, <2>1, <2>2 DEF Says, Cut
<1>3. CASE ~Split
  <2>1. Sent(r) = <<r>> /\ Sent(x) = <<x>>
    BY <1>3 DEF Sent
  <2>2. <<r>> \o <<x>> = <<r, x>>
    <3>1. PICK s : s = <<r>> \o <<x>>
      OBVIOUS
    <3>2. s \in Seq(Replies) /\ Len(s) = 2 /\ s[1] = r /\ s[2] = x
      BY <1>1, <3>1
    <3> QED BY <3>1, <3>2, Few
  <2> QED BY <1>3, <2>1, <2>2 DEF Says, Uncut
<1> QED BY <1>2, <1>3

\* They come behind all that was said before.
LEMMA SaysOrder ==
    ASSUME TypeOK, OrderInv, NEW r, NEW x, NEW add, Says(r, x, add)
    PROVE  OrderInv' /\ TypeOK' /\ site' \in Seq(Lines) /\ add \in Seq(Replies)
<1> DEFINE i == r.of
<1>1. /\ r \in Replies /\ x \in Replies /\ x.of = i /\ i \in Int
      /\ Head(site) = site[1] /\ 1 \in DOMAIN site /\ site[1].of = i
      /\ site[1].cmd \in {"XFER", "226"} <=> asked[i] = "XFER"
  <2>1. r \in Replies /\ x \in Replies /\ x.of = i /\ site # <<>> /\ site \in Seq(Lines) /\ Head(site).of = i
    BY DEF Says, Rows, TypeOK
  <2>2. Head(site) = site[1] /\ 1 \in DOMAIN site
    BY <2>1
  <2>3. i \in Int
    BY <2>1, CommandsAssumption DEF Replies
  <2> QED BY <2>1, <2>2, <2>3 DEF OrderInv
<1>2. r.code \in {"150", "226"} => asked[i] = "XFER"
  <2>1. \A d : "226" \in Answers(d) => d = "226"
    BY DEF Answers
  <2>2. \A d : "150" \in Answers(d) => d = "XFER"
    BY DEF Answers
  <2> QED BY <1>1, <2>1, <2>2 DEF Says
<1>3. Answer(i)
  <2>1. CASE r.code = "150"
    BY <1>1, <1>2, <2>1 DEF Answer, Says
  <2>2. CASE r.code # "150"
    <3>1. site' = Tail(site)
      <4>1. Tail(site) \in Seq(Lines)
        BY DEF TypeOK, Says
      <4> QED BY <2>2, <4>1, ConcatEmptySeq DEF Says
    <3> QED BY <1>1, <3>1 DEF Answer, Says
  <2> QED BY <2>1, <2>2
<1>4. /\ add \in Seq(Replies) /\ Ordered(add) /\ \A k \in DOMAIN add : add[k].of = i
  <2>1. PICK p, q : p = Start(r) /\ q = Rest(r)
    OBVIOUS
  <2>2. p \in Replies /\ q \in Replies /\ p.of = i /\ q.of = i /\ p.end = FALSE
    BY <1>1, <2>1, StartRest
  <2>3. \/ add = <<p, q>> \/ add = <<r>>
        \/ r.code = "226" /\ (add = <<p, q, x>> \/ add = <<r, x>>)
    BY <2>1, SaysPieces DEF Cut, Uncut
  <2>4. CASE add = <<p, q>>
    <3>1. add \in Seq(Replies) /\ DOMAIN add = {1, 2} /\ add[1] = p /\ add[2] = q
      BY <2>2, <2>4
    <3> QED BY <1>1, <2>2, <3>1 DEF Ordered, After
  <2>5. CASE add = <<r>>
    <3>1. add \in Seq(Replies) /\ DOMAIN add = {1} /\ add[1] = r
      BY <1>1, <2>5
    <3> QED BY <1>1, <3>1 DEF Ordered, After
  <2>6. CASE r.code = "226" /\ add = <<p, q, x>>
    <3>1. add \in Seq(Replies) /\ DOMAIN add = 1 .. 3 /\ add[1] = p /\ add[2] = q /\ add[3] = x
      BY <1>1, <2>2, <2>6
    <3>2. \A k \in DOMAIN add : add[k].of = i
      BY <1>1, <2>2, <3>1
    <3> QED BY <1>1, <1>2, <2>6, <3>1, <3>2 DEF Ordered, After
  <2>7. CASE r.code = "226" /\ add = <<r, x>>
    <3>1. add \in Seq(Replies) /\ DOMAIN add = {1, 2} /\ add[1] = r /\ add[2] = x
      BY <1>1, <2>7
    <3> QED BY <1>1, <1>2, <2>7, <3>1 DEF Ordered, After
  <2> QED BY <2>3, <2>4, <2>5, <2>6, <2>7
<1>5. UNCHANGED <<never, catches, commandbuf, replybuf, mitm, asked, uplink, told>> /\ downlink' = downlink \o add
  BY DEF Says
<1>6. OrderInv'
  BY <1>3, <1>4, <1>5, AnswerOrder
<1>7. site' \in Seq(Lines)
  BY <1>3, AnswerLines
<1>8. downlink' \in Seq(Replies)
  BY <1>4, <1>5 DEF TypeOK
<1>9. TypeOK'
  BY <1>5, <1>7, <1>8 DEF TypeOK, never, catches
<1> QED BY <1>4, <1>6, <1>7, <1>9

\* The replies a site may still give to a line, and what comes then.
LEMMA SaysComing ==
    ASSUME TypeOK, Split, DataInv, NEW r, NEW x, NEW add, Says(r, x, add),
           responsecatch # "NONE" => Head(site).of = Len(asked),
           asked[Head(site).of] = "XFER" <=> Head(site).cmd \in {"XFER", "226"}
    PROVE  \A k \in DOMAIN add : Coming(add[k])
<1>1. site \in Seq(Lines) /\ site # <<>>
  BY DEF Says, TypeOK
<1>2. Head(site) = site[1] /\ 1 \in DOMAIN site
  BY <1>1
<1>3. Settled(Head(site))
  BY <1>2 DEF DataInv
<1>4. /\ r \in Replies /\ r.of = Head(site).of /\ r.code \in Answers(Head(site).cmd)
      /\ r.code \in {"227", "229"} => r.at = "site"
      /\ x.of = r.of /\ x.code = "550U"
  BY DEF Says, Rows
<1>5. Coming(r)
  BY <1>3, <1>4 DEF Coming, Settled
<1>6. Coming(Start(r)) /\ Coming(Rest(r))
  BY <1>4, <1>5, StartRest DEF Coming
<1>7. r.code = "226" => Coming(x)
  <2>1. \A d : "226" \in Answers(d) => d = "226"
    BY DEF Answers
  <2> QED BY <1>4, <2>1 DEF Coming
<1>8. Cut(r, x, add)
  BY SaysPieces
<1> DEFINE p == Start(r)  q == Rest(r)
<1> HIDE DEF p, q
<1>9. CASE add = <<p, q>>
  <2>1. DOMAIN add = {1, 2} /\ add[1] = p /\ add[2] = q
    BY <1>9
  <2> QED BY <1>6, <2>1 DEF p, q
<1>10. CASE r.code = "226" /\ add = <<p, q, x>>
  <2>1. DOMAIN add = 1 .. 3 /\ add[1] = p /\ add[2] = q /\ add[3] = x
    BY <1>10
  <2>2. \A k \in DOMAIN add : add[k] \in {p, q, x}
    BY <2>1
  <2> QED BY <1>6, <1>7, <1>10, <2>2 DEF p, q
<1> QED BY <1>8, <1>9, <1>10 DEF Cut, p, q

\* What the site says is a reply that may come.
LEMMA SaysData ==
    ASSUME TypeOK, OrderInv, Split, DataInv, Catching \/ Passing, NEW r, NEW x, NEW add, Says(r, x, add),
           add \in Seq(Replies)
    PROVE  DataInv'
<1>1. site \in Seq(Lines) /\ site # <<>>
  BY DEF Says, TypeOK
<1>2. Head(site) = site[1] /\ 1 \in DOMAIN site /\ Head(site) \in Lines
  BY <1>1
<1>3. /\ responsecatch # "NONE" => Head(site).of = Len(asked)
      /\ asked[Head(site).of] = "XFER" <=> Head(site).cmd \in {"XFER", "226"}
      /\ Len(site) = 1
  BY <1>1, <1>2 DEF Catching, Passing, OrderInv
<1>4. \A k \in DOMAIN add : Coming(add[k])
  BY <1>3, SaysComing
<1>5. UNCHANGED <<never, catches, commandbuf, replybuf, mitm, asked, uplink, told>> /\ downlink' = downlink \o add
  BY DEF Says
<1>6. \A k \in DOMAIN downlink' : Coming(downlink'[k])
  <2>1. downlink \in Seq(Replies)
    BY DEF TypeOK
  <2>2. \A k \in DOMAIN (downlink \o add) :
           \/ k \in DOMAIN downlink /\ (downlink \o add)[k] = downlink[k]
           \/ k - Len(downlink) \in DOMAIN add /\ (downlink \o add)[k] = add[k - Len(downlink)]
    BY <2>1, Concat
  <2> QED BY <1>4, <1>5, <2>2 DEF DataInv
<1>7. \A k \in DOMAIN site' : Settled(site'[k])
  <2>1. Tail(site) = <<>>
    <3>1. Tail(site) \in Seq(Lines) /\ Len(Tail(site)) = 0
      BY <1>1, <1>3
    <3> QED BY <3>1, Few
  <2>2. CASE r.code # "150"
    <3>1. site' = <<>>
      BY <2>1, <2>2 DEF Says
    <3>2. DOMAIN <<>> = {}
      OBVIOUS
    <3> QED BY <3>1, <3>2
  <2>3. CASE r.code = "150"
    <3> DEFINE l == [Head(site) EXCEPT !.cmd = "226"]
    <3>1. l.cmd = "226" /\ l.of = Head(site).of /\ l.addr = Head(site).addr /\ l \in Lines
      BY <1>2 DEF Lines
    <3>2. site' = <<l>> \o <<>>
      BY <2>1, <2>3 DEF Says
    <3> HIDE DEF l
    <3>3. site' = <<l>> /\ DOMAIN <<l>> = {1} /\ <<l>>[1] = l
      BY <3>1, <3>2
    <3>4. \A d : "150" \in Answers(d) => d = "XFER"
      BY DEF Answers
    <3>5. asked[l.of] = "XFER" /\ Head(site).cmd = "XFER"
      BY <1>3, <2>3, <3>1, <3>4 DEF Says
    <3>6. responsecatch = "NONE"
      BY <1>2, <3>5 DEF Catching, Passing
    <3>7. Answers("226") = {"226"} /\ "226" \in Open("XFER")
      BY DEF Answers, Open, Kinds
    <3>8. Settled(Head(site))
      BY <1>2 DEF DataInv
    <3>9. Settled(l)
      BY <3>1, <3>5, <3>6, <3>7, <3>8 DEF Settled
    <3> QED BY <3>3, <3>9
  <2> QED BY <2>2, <2>3
<1>8. /\ \A k \in DOMAIN told' : Right(told[k])'
      /\ \A k \in DOMAIN replybuf' : Coming(replybuf[k])'
  BY <1>5 DEF DataInv, Right, Coming, Expected, catches
<1>9. \A k \in DOMAIN downlink' : Coming(downlink[k])'
  BY <1>5, <1>6 DEF Coming, Expected, catches
<1>10. \A k \in DOMAIN site' : Settled(site[k])'
  BY <1>5, <1>7 DEF Settled, Expected, catches
<1> QED BY <1>5, <1>8, <1>9, <1>10 DEF DataInv, Fits, catches, never

\* Nothing caught: the new pieces end the command, or tell of a transfer.
LEMMA SaysPassing ==
    ASSUME TypeOK, OrderInv, Split, Passing, NEW r, NEW x, NEW add, Says(r, x, add),
           add \in Seq(Replies)
    PROVE  Passing'
<1>1. /\ site \in Seq(Lines) /\ site # <<>> /\ downlink \in Seq(Replies) /\ Len(asked) \in Nat
  BY DEF Says, TypeOK
<1>2. Head(site) = site[1] /\ Head(site) \in Lines /\ Tail(site) = <<>> /\ Head(site).of = Len(asked)
  <2>1. Len(site) = 1 /\ site[1].of = Len(asked)
    BY <1>1 DEF Passing
  <2>2. Head(site) = site[1] /\ Head(site) \in Lines /\ Tail(site) \in Seq(Lines) /\ Len(Tail(site)) = 0
    BY <1>1, <2>1
  <2> QED BY <2>1, <2>2, Few
<1>3. UNCHANGED <<never, catches, commandbuf, replybuf, mitm, asked, uplink, told>> /\ downlink' = downlink \o add
  BY DEF Says
<1>4. r \in Replies /\ x \in Replies /\ x.code = "550U" /\ x.start /\ x.end /\ <<x>> \in Stray
  BY DEF Says, Rows, Stray
<1>5. IF r.code = "150" THEN Len(site') = 1 /\ site'[1].of = Len(asked) ELSE site' = <<>>
  <2>1. CASE r.code # "150"
    BY <1>2, <2>1 DEF Says
  <2>2. CASE r.code = "150"
    <3> DEFINE l == [Head(site) EXCEPT !.cmd = "226"]
    <3>1. l.of = Len(asked) /\ l \in Lines
      BY <1>2 DEF Lines
    <3>2. site' = <<l>> \o <<>>
      BY <1>2, <2>2 DEF Says
    <3> HIDE DEF l
    <3> QED BY <2>2, <3>1, <3>2
  <2> QED BY <2>1, <2>2
<1>6. \A k \in DOMAIN downlink : ~Final(downlink[k])
  BY <1>1 DEF Passing
<1>7. \A k \in DOMAIN told : ~(Final(told[k]) /\ told[k].of = Len(asked))
  BY <1>1 DEF Passing
\* Only the rest of the reply can be final; an extra row may be behind it.
<1>8. \A k \in DOMAIN add : Final(add[k]) => /\ r.code # "150" /\ k \in Nat
                                            /\ SubSeq(add, k + 1, Len(add)) \in Stray
  <2>1. PICK p, q : p = Start(r) /\ q = Rest(r)
    OBVIOUS
  <2>2. /\ p \in Replies /\ q \in Replies /\ ~Final(p) /\ ~Final(x)
        /\ Final(q) => r.code # "150"
    BY <1>4, <2>1, StartRest DEF Final
  <2>3. add = <<p, q>> \/ add = <<p, q, x>>
    BY <2>1, SaysPieces DEF Cut
  <2>4. CASE add = <<p, q>>
    <3>1. DOMAIN add = {1, 2} /\ add[1] = p /\ add[2] = q /\ Len(add) = 2
      BY <2>4
    <3>2. SubSeq(add, 2 + 1, Len(add)) = <<>>
      BY <3>1, SubSeqEmpty
    <3> QED BY <2>2, <3>1, <3>2 DEF Stray
  <2>5. CASE add = <<p, q, x>>
    <3>1. DOMAIN add = 1 .. 3 /\ add[1] = p /\ add[2] = q /\ add[3] = x /\ Len(add) = 3
      BY <2>5
    <3>2. \A k \in DOMAIN add : Final(add[k]) => k = 2
      BY <2>2, <3>1
    <3>3. SubSeq(add, 2 + 1, Len(add)) = <<x>>
      <4>1. 2 + 1 \in 1 .. Len(add) + 1 /\ Len(add) \in 2 + 1 - 1 .. Len(add) /\ 2 + 1 = Len(add) /\ 2 + 1 = 3
        BY <3>1
      <4>2. SubSeq(add, 2 + 1, Len(add)) = <<add[2 + 1]>>
        BY <4>1, Part
      <4> QED BY <3>1, <4>1, <4>2
    <3>4. \A k \in DOMAIN add : Final(add[k]) => r.code # "150" /\ k = 2
      BY <2>2, <3>1, <3>2
    <3>5. ASSUME NEW k \in DOMAIN add, Final(add[k])
          PROVE  SubSeq(add, k + 1, Len(add)) \in Stray
      <4>1. k = 2
        BY <3>4, <3>5
      <4>2. SubSeq(add, k + 1, Len(add)) = <<x>>
        BY <3>3, <4>1
      <4> QED BY <1>4, <4>2
    <3> QED BY <3>4, <3>5
  <2> QED BY <2>3, <2>4, <2>5
<1>9. ASSUME NEW k \in DOMAIN downlink', Final(downlink'[k])
      PROVE  site' = <<>> /\ SubSeq(downlink', k + 1, Len(downlink')) \in Stray
  <2>1. PICK d : d = downlink'
    OBVIOUS
  <2>2. d = downlink \o add
    BY <1>3, <2>1
  <2>3. \/ k \in DOMAIN downlink /\ d[k] = downlink[k]
        \/ k - Len(downlink) \in DOMAIN add /\ d[k] = add[k - Len(downlink)] /\ k > Len(downlink)
    BY <1>1, <1>9, <2>1, <2>2, Concat
  <2>4. k - Len(downlink) \in DOMAIN add /\ Final(add[k - Len(downlink)]) /\ k > Len(downlink) /\ k \in Nat
    BY <1>1, <1>6, <1>9, <2>1, <2>2, <2>3
  <2> DEFINE m == k - Len(downlink)
  <2>5. r.code # "150" /\ SubSeq(add, m + 1, Len(add)) \in Stray
    BY <1>8, <2>4
  <2>6. SubSeq(d, k + 1, Len(d)) = SubSeq(add, m + 1, Len(add))
    <3>1. /\ Len(d) = Len(downlink) + Len(add) /\ d \in Seq(Replies) /\ Len(downlink) \in Nat /\ Len(add) \in Nat
          /\ m \in 1 .. Len(add) /\ k = Len(downlink) + m
          /\ \A j \in 1 .. Len(add) : d[Len(downlink) + j] = add[j]
      <4>1. /\ Len(d) = Len(downlink) + Len(add) /\ d \in Seq(Replies) /\ Len(downlink) \in Nat /\ Len(add) \in Nat
            /\ \A j \in 1 .. Len(add) : d[Len(downlink) + j] = add[j]
        BY <1>1, <2>2
      <4>2. DOMAIN add = 1 .. Len(add)
        OBVIOUS
      <4> QED BY <2>4, <4>1, <4>2
    <3> HIDE DEF m
    <3> DEFINE s == SubSeq(d, k + 1, Len(d))  t == SubSeq(add, m + 1, Len(add))
    <3>2. /\ s \in Seq(Replies) /\ t \in Seq(Replies) /\ Len(s) = Len(add) - m /\ Len(t) = Len(add) - m
          /\ \A j \in 1 .. Len(add) - m : s[j] = d[k + j] /\ t[j] = add[m + j]
      BY <3>1
    <3>3. \A j \in 1 .. Len(add) - m : d[k + j] = add[m + j]
      BY <3>1
    <3> HIDE DEF s, t
    <3>4. s = t
      BY <3>2, <3>3, SeqEqual
    <3> QED BY <3>4 DEF s, t
  <2> QED BY <1>5, <2>1, <2>5, <2>6
<1>10. Stray' = Stray /\ \A y : Final(y)' = Final(y)
  BY DEF Stray, Rows, Final
<1>11. \A k \in DOMAIN downlink' : Final(downlink[k])' =>
          site' = <<>> /\ SubSeq(downlink', k + 1, Len(downlink')) \in Stray'
  BY <1>9, <1>10 DEF Final
<1>12. \A k \in DOMAIN told' : ~(Final(told[k])' /\ told'[k].of = Len(asked'))
  BY <1>3, <1>7 DEF Final
<1>13. asked # <<>>
  BY <1>1 DEF Passing
<1> QED BY <1>3, <1>5, <1>11, <1>12, <1>13 DEF Passing, catches

\* A catch waits for the reply: both its pieces come, behind what is left.
LEMMA SaysCatching ==
    ASSUME TypeOK, OrderInv, Split, Catching, NEW r, NEW x, NEW add, Says(r, x, add),
           add \in Seq(Replies)
    PROVE  Catching'
<1>1. site \in Seq(Lines) /\ site # <<>>
  BY DEF Says, TypeOK
<1>2. PICK s \in Stray : /\ Len(site) = 1 /\ site[1].of = Len(asked) /\ site[1].cmd \notin {"XFER", "226"}
                         /\ replybuf = <<>> /\ downlink = s
  BY <1>1 DEF Catching
<1>3. Head(site) = site[1] /\ Tail(site) = <<>> /\ Head(site).of = Len(asked)
  <2>1. Head(site) = site[1] /\ Tail(site) \in Seq(Lines) /\ Len(Tail(site)) = 0
    BY <1>1, <1>2
  <2> QED BY <1>2, <2>1, Few
<1>4. r.code \notin {"150", "226", "550U"}
  <2>1. \A d : d \notin {"XFER", "226"} => Answers(d) \cap {"150", "226", "550U"} = {}
    BY DEF Answers
  <2> QED BY <1>2, <1>3, <2>1 DEF Says
<1>5. UNCHANGED <<never, catches, commandbuf, replybuf, mitm, asked, uplink, told>> /\ downlink' = downlink \o add
  BY DEF Says
<1>6. r \in Whole
  BY <1>3, <1>4 DEF Says, Whole, Final
<1>7. site' = <<>>
  BY <1>3, <1>4 DEF Says
<1>8. add = <<Start(r), Rest(r)>>
  BY <1>4, SaysPieces DEF Cut
<1>9. downlink' = s \o <<Start(r), Rest(r)>>
  BY <1>2, <1>5, <1>8
<1>10. Whole' = Whole /\ Stray' = Stray
  BY <1>5 DEF Whole, Stray, Rows, Final
<1>11. \A k \in DOMAIN told' : told'[k].of < Len(asked')
  BY <1>5 DEF Catching
<1>12. \E y \in Whole : replybuf' = <<>> /\ downlink' = s \o <<Start(y), Rest(y)>>
  BY <1>2, <1>5, <1>6, <1>9
<1>13. \A y : Start(y)' = Start(y) /\ Rest(y)' = Rest(y)
  BY DEF Start, Rest
<1> QED BY <1>2, <1>5, <1>7, <1>10, <1>11, <1>12, <1>13 DEF Catching, catches

\* The site answers: the invariant holds again.
LEMMA SiteRepliesInv == ASSUME Inv, SiteReplies PROVE Inv'
<1>1. TypeOK /\ OrderInv /\ Shape /\ (Split => DataInv)
  BY DEF Inv
<1>2. PICK r, x, add : Says(r, x, add)
  BY <1>1, SiteSays
<1>3. OrderInv' /\ TypeOK' /\ add \in Seq(Replies)
  BY <1>1, <1>2, SaysOrder
<1>4. UNCHANGED <<never, catches, commandbuf, replybuf, mitm, asked, uplink, told>> /\ downlink' = downlink \o add
  BY <1>2 DEF Says
<1>5. Split' = Split
  BY <1>4 DEF Split, never
<1>6. CASE Split
  <2>1. Catching \/ Passing
    BY <1>1, <1>2, <1>6 DEF Shape, Leaving, Says
  <2>2. Catching' \/ Passing'
    BY <1>1, <1>2, <1>3, <1>6, <2>1, SaysCatching, SaysPassing
  <2>3. DataInv'
    BY <1>1, <1>2, <1>3, <1>6, <2>1, SaysData
  <2> QED BY <1>3, <1>5, <1>6, <2>2, <2>3 DEF Inv, Shape
<1>7. CASE ~Split
  <2>1. Unsplit
    BY <1>1, <1>7 DEF Shape
  <2>2. \A k \in DOMAIN add : add[k].start /\ add[k].end
    <3>1. Uncut(r, x, add) /\ r.start /\ r.end /\ x.start /\ x.end
      BY <1>2, <1>7, SaysPieces DEF Says, Rows
    <3>2. CASE add = <<r>>
      <4>1. DOMAIN add = {1} /\ add[1] = r
        BY <3>2
      <4> QED BY <3>1, <4>1
    <3>3. CASE add = <<r, x>>
      <4>1. DOMAIN add = {1, 2} /\ add[1] = r /\ add[2] = x
        BY <3>3
      <4> QED BY <3>1, <4>1
    <3> QED BY <3>1, <3>2, <3>3 DEF Uncut
  <2>3. \A k \in DOMAIN (downlink \o add) :
           \/ k \in DOMAIN downlink /\ (downlink \o add)[k] = downlink[k]
           \/ k - Len(downlink) \in DOMAIN add /\ (downlink \o add)[k] = add[k - Len(downlink)]
    <3>1. downlink \in Seq(Replies)
      BY <1>1 DEF TypeOK
    <3> QED BY <1>3, <3>1, Concat
  <2>4. \A k \in DOMAIN downlink' : downlink'[k].start /\ downlink'[k].end
    BY <1>4, <2>1, <2>2, <2>3 DEF Unsplit
  <2>5. Unsplit'
    BY <1>4, <2>1, <2>4 DEF Unsplit
  <2> QED BY <1>3, <1>5, <1>7, <2>5 DEF Inv, Shape
<1> QED BY <1>6, <1>7

-----------------------------------------------------------------------------
(* A block of the site's replies.                                          *)

\* Every piece in the buffer, and what is left, was in the parser or on its way.
LEMMA ArrivePieces ==
    ASSUME TypeOK, NEW n, Arrive(n)
    PROVE  /\ n \in DOMAIN downlink /\ n \in Nat /\ n >= 1 /\ downlink' \in Seq(Replies)
           /\ SubSeq(downlink, 1, n) \in Seq(Replies)
           /\ Len(SubSeq(downlink, 1, n)) = n
           /\ \A k \in DOMAIN SubSeq(downlink, 1, n) :
                 k \in DOMAIN downlink /\ k <= n /\ SubSeq(downlink, 1, n)[k] = downlink[k]
           /\ \A k \in DOMAIN downlink' :
                 k \in Nat /\ n + k \in DOMAIN downlink /\ downlink'[k] = downlink[n + k]
           /\ Buffer(n) \in Seq(Replies)
           /\ \A k \in DOMAIN Buffer(n) :
                 \/ \E j \in DOMAIN replybuf : Buffer(n)[k] = replybuf[j]
                 \/ \E j \in DOMAIN downlink : Buffer(n)[k] = downlink[j]
<1> DEFINE b == SubSeq(downlink, 1, n)  c == SubSeq(downlink, n + 1, Len(downlink))
<1>1. downlink \in Seq(Replies) /\ replybuf \in Seq(Replies) /\ n \in DOMAIN downlink
  BY DEF TypeOK, Arrive
<1>2. /\ b \in Seq(Replies) /\ c \in Seq(Replies) /\ n \in Nat /\ n >= 1 /\ Len(b) = n
      /\ \A k \in DOMAIN b : k \in DOMAIN downlink /\ k <= n /\ b[k] = downlink[k]
      /\ \A k \in DOMAIN c : k \in Nat /\ n + k \in DOMAIN downlink /\ c[k] = downlink[n + k]
  BY <1>1, CutAt
<1>3. downlink' = c /\ Buffer(n) = replybuf \o b
  BY DEF Arrive, Buffer
<1> HIDE DEF b, c
<1>4. /\ replybuf \o b \in Seq(Replies)
      /\ \A k \in DOMAIN (replybuf \o b) :
            \/ k \in DOMAIN replybuf /\ (replybuf \o b)[k] = replybuf[k]
            \/ k - Len(replybuf) \in DOMAIN b /\ (replybuf \o b)[k] = b[k - Len(replybuf)]
  BY <1>1, <1>2, Concat
<1>5. \A k \in DOMAIN Buffer(n) :
         \/ \E j \in DOMAIN replybuf : Buffer(n)[k] = replybuf[j]
         \/ \E j \in DOMAIN downlink : Buffer(n)[k] = downlink[j]
  BY <1>2, <1>3, <1>4
<1> QED BY <1>1, <1>2, <1>3, <1>4, <1>5 DEF b

\* Of an extra row nothing is left behind a block.
LEMMA StrayRest ==
    ASSUME NEW d \in Stray, NEW n \in DOMAIN d
    PROVE  SubSeq(d, n + 1, Len(d)) = <<>> /\ \E w \in Rows : d = <<w>> /\ n = 1
<1>1. DOMAIN <<>> = {}
  OBVIOUS
<1>2. PICK w \in Rows : d = <<w>>
  BY <1>1 DEF Stray
<1>3. n = 1 /\ Len(d) = 1
  BY <1>2
<1> QED BY <1>2, <1>3, SubSeqEmpty

\* Nothing is caught: the block is passed on.
PassOn(n) ==
    /\ Arrive(n) /\ responsecatch = "NONE" /\ told' = told \o SubSeq(downlink, 1, n)
    /\ UNCHANGED <<never, catches, replybuf, mitm>>

\* A block that is passed on is told in order.
LEMMA PassOnOrder == ASSUME TypeOK, OrderInv, NEW n, PassOn(n) PROVE OrderInv' /\ TypeOK'
<1> DEFINE b == SubSeq(downlink, 1, n)
<1>1. Arrive(n) /\ replybuf = <<>> /\ replybuf' = <<>> /\ told' = told \o b
  BY DEF PassOn, TypeOK
<1>2. b \in Seq(Replies) /\ downlink' \in Seq(Replies)
  BY <1>1, ArrivePieces
<1>3. Buffer(n) = b
  <2>1. <<>> \o b = b
    BY <1>2, ConcatEmptySeq
  <2> QED BY <1>1, <2>1 DEF Buffer
<1>4. Replaces(b, Buffer(n))
  <2>1. Ordered(b)
    BY <1>1, <1>3, BufferOrder
  <2> QED BY <1>2, <1>3, <2>1 DEF Replaces
<1> HIDE DEF b
<1>5. OrderInv'
  BY <1>1, <1>4, ToldOrder
<1>6. told' \in Seq(Replies)
  BY <1>1, <1>2 DEF TypeOK
<1>7. TypeOK'
  BY <1>1, <1>2, <1>6 DEF TypeOK, PassOn, Arrive, never, catches
<1> QED BY <1>5, <1>7

\* The rest is passed on too.
LEMMA PassOnPassing ==
    ASSUME TypeOK, Passing, NEW n, PassOn(n)
    PROVE  Passing'
<1> DEFINE b == SubSeq(downlink, 1, n)
<1>1. /\ Arrive(n) /\ told' = told \o b
      /\ UNCHANGED <<never, catches, replybuf, mitm, asked, commandbuf, uplink, site>>
  BY DEF PassOn, Arrive
<1>2. /\ n \in DOMAIN downlink /\ n \in Nat /\ n >= 1 /\ downlink' \in Seq(Replies) /\ b \in Seq(Replies)
      /\ \A k \in DOMAIN b : k \in DOMAIN downlink /\ k <= n /\ b[k] = downlink[k]
      /\ \A k \in DOMAIN downlink' : k \in Nat /\ n + k \in DOMAIN downlink /\ downlink'[k] = downlink[n + k]
      /\ downlink' = SubSeq(downlink, n + 1, Len(downlink))
      /\ downlink \in Seq(Replies) /\ told \in Seq(Replies)
      /\ DOMAIN downlink = 1 .. Len(downlink) /\ Len(downlink) \in Nat
  <2>1. downlink \in Seq(Replies) /\ told \in Seq(Replies)
    BY DEF TypeOK
  <2>2. DOMAIN downlink = 1 .. Len(downlink) /\ Len(downlink) \in Nat
    BY <2>1
  <2> QED BY <1>1, <2>1, <2>2, ArrivePieces DEF Arrive
<1>3. <<>> \in Stray
  BY DEF Stray
<1>4. downlink \in Stray => downlink' \in Stray
  BY <1>2, <1>3, StrayRest
<1> HIDE DEF b
\* Behind a final piece that is told, at most an extra row is left.
<1>5. ASSUME NEW k \in DOMAIN b, Final(b[k]) PROVE site = <<>> /\ downlink' \in Stray
  <2>1. k \in DOMAIN downlink /\ k <= n /\ Final(downlink[k]) /\ k \in Nat
    BY <1>2, <1>5
  <2>2. site = <<>> /\ SubSeq(downlink, k + 1, Len(downlink)) \in Stray
    BY <2>1 DEF Passing
  <2> DEFINE s == SubSeq(downlink, k + 1, Len(downlink))
  <2>3. DOMAIN s = 1 .. Len(downlink) - k /\ Len(s) = Len(downlink) - k
    <3>1. k \in 0 .. Len(downlink)
      BY <1>2, <2>1
    <3> QED BY <1>2, <3>1, Suffix
  <2> HIDE DEF s
  <2>4. CASE n = k
    BY <1>2, <2>2, <2>4
  <2>5. CASE k < n
    <3>1. n - k \in DOMAIN s
      BY <1>2, <2>1, <2>3, <2>5
    <3>2. Len(s) = 1 /\ n - k = 1
      <4>1. PICK w \in Rows : s = <<w>> /\ n - k = 1
        BY <2>2, <3>1, StrayRest DEF s
      <4> QED BY <4>1
    <3>3. Len(downlink) = n
      <4>1. n \in Int /\ k \in Int /\ Len(downlink) \in Int /\ Len(downlink) - k = 1
        <5>1. n \in Int /\ k \in Int /\ Len(downlink) \in Int
          BY <1>2, <2>1
        <5>2. Len(downlink) - k = 1
          BY <2>3, <3>2, Zenon
        <5> QED BY <5>1, <5>2
      <4> QED BY <3>2, <4>1
    <3>4. downlink' = <<>>
      BY <1>2, <3>3, SubSeqEmpty
    <3> QED BY <1>3, <2>2, <3>4
  <2> QED BY <1>2, <2>1, <2>2, <2>4, <2>5
<1>6. Stray' = Stray
  BY DEF Stray, Rows
<1>7. ASSUME NEW k \in DOMAIN told', Final(told'[k]), told'[k].of = Len(asked)
      PROVE  site = <<>> /\ downlink' \in Stray
  <2>1. \/ k \in DOMAIN told /\ told'[k] = told[k]
        \/ k - Len(told) \in DOMAIN b /\ told'[k] = b[k - Len(told)]
    <3>1. \A j \in DOMAIN (told \o b) :
             \/ j \in DOMAIN told /\ (told \o b)[j] = told[j]
             \/ j - Len(told) \in DOMAIN b /\ (told \o b)[j] = b[j - Len(told)]
      BY <1>2, Concat
    <3> QED BY <1>1, <1>7, <3>1
  <2>2. CASE k \in DOMAIN told /\ told'[k] = told[k]
    BY <1>4, <1>7, <2>2 DEF Passing
  <2>3. CASE k - Len(told) \in DOMAIN b /\ told'[k] = b[k - Len(told)]
    BY <1>5, <1>7, <2>3
  <2> QED BY <2>1, <2>2, <2>3
<1>8. ASSUME NEW k \in DOMAIN downlink', Final(downlink'[k])
      PROVE  site = <<>> /\ SubSeq(downlink', k + 1, Len(downlink')) \in Stray
  <2>1. n + k \in DOMAIN downlink /\ Final(downlink[n + k]) /\ k \in Nat
    BY <1>2, <1>8
  <2>2. site = <<>> /\ SubSeq(downlink, n + k + 1, Len(downlink)) \in Stray
    BY <2>1 DEF Passing
  <2>3. SubSeq(downlink', k + 1, Len(downlink')) = SubSeq(downlink, n + k + 1, Len(downlink))
    <3>1. n \in 0 .. Len(downlink) /\ k \in 0 .. Len(downlink) - n
      BY <1>2, <2>1
    <3>2. PICK d : d = downlink'
      OBVIOUS
    <3>3. d = SubSeq(downlink, n + 1, Len(downlink))
      BY <1>2, <3>2
    <3>4. SubSeq(d, k + 1, Len(d)) = SubSeq(downlink, n + k + 1, Len(downlink))
      BY <1>2, <3>1, <3>3, SuffixOf
    <3> QED BY <3>2, <3>4
  <2> QED BY <2>2, <2>3
<1>9. \A k \in DOMAIN downlink' : Final(downlink[k])' =>
         site' = <<>> /\ SubSeq(downlink', k + 1, Len(downlink')) \in Stray'
  BY <1>1, <1>6, <1>8 DEF Final
<1>10. \A k \in DOMAIN told' : Final(told[k])' /\ told'[k].of = Len(asked') => site' = <<>> /\ downlink' \in Stray'
  BY <1>1, <1>6, <1>7 DEF Final
<1>11. asked # <<>>
  <2>1. DOMAIN <<>> = {}
    OBVIOUS
  <2> QED BY <1>2, <2>1 DEF Passing
<1> QED BY <1>1, <1>9, <1>10, <1>11 DEF Passing, catches

\* The client may be told what is passed on.
LEMMA PassOnData == ASSUME TypeOK, DataInv, NEW n, PassOn(n) PROVE DataInv'
<1> DEFINE b == SubSeq(downlink, 1, n)
<1>1. /\ Arrive(n) /\ told' = told \o b
      /\ UNCHANGED <<never, catches, replybuf, mitm, asked, commandbuf, uplink, site>>
  BY DEF PassOn, Arrive
<1>2. /\ b \in Seq(Replies) /\ told \in Seq(Replies) /\ responsecatch = "NONE"
      /\ \A k \in DOMAIN b : k \in DOMAIN downlink /\ b[k] = downlink[k]
      /\ \A k \in DOMAIN downlink' : n + k \in DOMAIN downlink /\ downlink'[k] = downlink[n + k]
  BY <1>1, ArrivePieces DEF TypeOK, PassOn
<1> HIDE DEF b
<1>3. \A k \in DOMAIN downlink : Right(downlink[k])
  <2>1. \A c : Open(c) \subseteq Kinds(c) /\ "227" \notin Open(c) /\ "229" \notin Open(c)
    BY DEF Open
  <2>2. "550U" \in Kinds("XFER")
    BY DEF Kinds
  <2> QED BY <1>2, <2>1, <2>2 DEF DataInv, Coming, Right
<1>4. \A k \in DOMAIN told' : Right(told'[k])
  <2>1. \A k \in DOMAIN (told \o b) :
           \/ k \in DOMAIN told /\ (told \o b)[k] = told[k]
           \/ k - Len(told) \in DOMAIN b /\ (told \o b)[k] = b[k - Len(told)]
    BY <1>2, Concat
  <2> QED BY <1>1, <1>2, <1>3, <2>1 DEF DataInv
<1>5. \A k \in DOMAIN told' : Right(told[k])'
  BY <1>1, <1>4 DEF Right
<1>6. /\ \A k \in DOMAIN downlink' : Coming(downlink[k])'
      /\ \A k \in DOMAIN replybuf' : Coming(replybuf[k])'
      /\ \A k \in DOMAIN site' : Settled(site[k])'
  <2>1. \A k \in DOMAIN downlink' : Coming(downlink'[k])
    BY <1>2 DEF DataInv
  <2>2. \A k \in DOMAIN downlink' : Coming(downlink[k])'
    BY <1>1, <2>1 DEF Coming, Expected, catches
  <2>3. /\ \A k \in DOMAIN replybuf' : Coming(replybuf[k])'
        /\ \A k \in DOMAIN site' : Settled(site[k])'
    BY <1>1 DEF DataInv, Coming, Settled, Expected, catches
  <2> QED BY <2>2, <2>3
<1> QED BY <1>1, <1>5, <1>6 DEF DataInv, Fits, catches, never

\* FDData without a catch keeps the invariant.
LEMMA PassOnInv == ASSUME Inv, NEW n \in Blocks(downlink), PassOn(n) PROVE Inv'
<1>1. TypeOK /\ OrderInv /\ Shape /\ (Split => DataInv)
  BY DEF Inv
<1>2. OrderInv' /\ TypeOK'
  BY <1>1, PassOnOrder
<1>3. /\ Arrive(n) /\ responsecatch = "NONE"
      /\ UNCHANGED <<never, catches, replybuf, mitm, asked, commandbuf, uplink, site>>
  BY DEF PassOn, Arrive
<1>4. Split' = Split
  BY <1>3 DEF Split, never
<1>5. CASE Split
  <2>1. DataInv'
    BY <1>1, <1>5, PassOnData
  <2>2. Leaving \/ Passing
    BY <1>1, <1>3, <1>5 DEF Shape, Catching
  <2>3. ASSUME Leaving PROVE Leaving'
    <3>1. downlink \in Stray /\ n \in DOMAIN downlink
      BY <1>3, <2>3 DEF Leaving, Arrive
    <3>2. downlink' = <<>>
      BY <1>3, <3>1, StrayRest DEF Arrive
    <3>3. downlink' \in Stray'
      BY <3>2 DEF Stray
    <3> QED BY <1>3, <2>3, <3>3 DEF Leaving, catches
  <2>4. Passing => Passing'
    BY <1>1, PassOnPassing
  <2> QED BY <1>2, <1>4, <1>5, <2>1, <2>2, <2>3, <2>4 DEF Inv, Shape
<1>6. CASE ~Split
  <2>1. Unsplit
    BY <1>1, <1>6 DEF Shape
  <2>2. \A k \in DOMAIN downlink' : n + k \in DOMAIN downlink /\ downlink'[k] = downlink[n + k]
    BY <1>1, <1>3, ArrivePieces
  <2>3. Unsplit'
    BY <1>3, <2>1, <2>2 DEF Unsplit
  <2> QED BY <1>2, <1>4, <1>6, <2>3 DEF Inv, Shape
<1> QED BY <1>5, <1>6

-----------------------------------------------------------------------------
(* What the parser makes of its buffer.                                    *)

Dropped == replybuf' = <<>> /\ UNCHANGED <<catches, mitm, told>>
Held(buf) == replybuf' = buf /\ UNCHANGED <<catches, mitm, told>>

\* A buffer that ends with a reply; m is the last piece that begins one.
LEMMA ParseWhole ==
    ASSUME NEW block, NEW buf \in Seq(Replies), buf = replybuf \o block, Last(buf).end,
           NEW m \in DOMAIN buf, buf[m].start, \A k \in DOMAIN buf : k > m => ~buf[k].start,
           Parse(block)
    PROVE  IF buf[m].code = "550U" THEN Dropped ELSE Caught(buf, buf[m].code)
<1> DEFINE starts == {k \in DOMAIN buf : buf[k].start}
<1>1. m \in starts /\ DOMAIN buf \subseteq Int
  OBVIOUS
<1>2. \A k \in starts : k \in Int /\ m >= k
  BY <1>1
<1>3. Max(starts) = m
  <2>1. \A x \in starts : (\A y \in starts : x >= y) <=> x = m
    BY <1>1, <1>2
  <2> HIDE DEF starts
  <2>2. Max(starts) = CHOOSE x \in starts : \A y \in starts : x >= y
    BY DEF Max
  <2>3. (CHOOSE x \in starts : \A y \in starts : x >= y) = m
    BY <1>1, <1>2, <2>1
  <2> QED BY <2>2, <2>3
<1>4. starts # {}
  BY <1>1
<1> QED BY <1>3, <1>4 DEF Parse, Dropped

\* A buffer that does not.
LEMMA ParsePart ==
    ASSUME NEW block, NEW buf, buf = replybuf \o block, ~Last(buf).end,
           replybuf = <<>> => Head(block).start,
           Parse(block)
    PROVE  Held(buf)
  BY DEF Parse, Held

\* The same of three.
LEMMA Three ==
    ASSUME NEW S, NEW x \in S, NEW y \in S, NEW z \in S
    PROVE  /\ SubSeq(<<x, y, z>>, 1, 1) = <<x>> /\ SubSeq(<<x, y, z>>, 1 + 1, 3) = <<y, z>>
           /\ SubSeq(<<x, y, z>>, 1, 2) = <<x, y>> /\ SubSeq(<<x, y, z>>, 2 + 1, 3) = <<z>>
           /\ SubSeq(<<x, y, z>>, 1, 3) = <<x, y, z>> /\ SubSeq(<<x, y, z>>, 3 + 1, 3) = <<>>
           /\ Last(<<x, y, z>>) = z /\ <<x>> \o <<y, z>> = <<x, y, z>>
           /\ <<x, y>> \o <<z>> = <<x, y, z>>
<1>1. PICK p : p = <<x, y, z>>
  OBVIOUS
<1>2. p \in Seq(S) /\ Len(p) = 3 /\ p[1] = x /\ p[2] = y /\ p[3] = z
  BY <1>1
<1>3. /\ 1 \in 1 .. Len(p) + 1 /\ 1 + 1 \in 1 .. Len(p) + 1 /\ 2 + 1 \in 1 .. Len(p) + 1
      /\ 3 + 1 \in 1 .. Len(p) + 1
      /\ 1 \in 0 .. Len(p) /\ 2 \in 0 .. Len(p) /\ 3 \in 0 .. Len(p) /\ 3 \in 1 .. Len(p)
      /\ 3 \in 2 .. Len(p) /\ 3 \in 3 .. Len(p)
  BY <1>2
<1>4. SubSeq(p, 1, 1) = <<p[1]>>
  BY <1>2, <1>3, Part
<1>5. SubSeq(p, 1 + 1, 3) = <<p[2], p[3]>>
  <2>1. 2 \in 1 .. Len(p) + 1 /\ 3 \in 2 - 1 .. Len(p) /\ 2 + 1 = 3
    BY <1>2
  <2>2. SubSeq(p, 2, 3) = <<p[2], p[3]>>
    BY <1>2, <2>1, Part
  <2> QED BY <2>2
<1>6. SubSeq(p, 1, 2) = <<p[1], p[2]>>
  BY <1>2, <1>3, Part
<1>7. SubSeq(p, 2 + 1, 3) = <<p[3]>>
  <2>1. 2 + 1 = 3
    OBVIOUS
  <2>2. SubSeq(p, 3, 3) = <<p[3]>>
    <3>1. PICK m : m = 3
      OBVIOUS
    <3>2. m \in 1 .. Len(p) + 1 /\ m \in m - 1 .. Len(p)
      BY <1>2, <3>1
    <3>3. SubSeq(p, m, m) = <<p[m]>>
      BY <1>2, <3>2, Part
    <3> QED BY <3>1, <3>3
  <2> QED BY <2>1, <2>2
<1>8. SubSeq(p, 1, 3) = p /\ SubSeq(p, 3 + 1, 3) = <<>>
  BY <1>2, SubSeqFull, SubSeqEmpty
<1>9. Last(p) = z
  BY <1>2 DEF Last
<1>10. <<x>> \o <<y, z>> = p
  <2>1. PICK q : q = <<x>> \o <<y, z>>
    OBVIOUS
  <2>2. q \in Seq(S) /\ Len(q) = 3 /\ q[1] = x /\ q[2] = y /\ q[3] = z
    BY <2>1
  <2> QED BY <1>1, <2>1, <2>2, Few
<1>11. <<x, y>> \o <<z>> = p
  <2>1. PICK q : q = <<x, y>> \o <<z>>
    OBVIOUS
  <2>2. q \in Seq(S) /\ Len(q) = 3 /\ q[1] = x /\ q[2] = y /\ q[3] = z
    BY <2>1
  <2> QED BY <1>1, <2>1, <2>2, Few
<1> QED BY <1>1, <1>2, <1>4, <1>5, <1>6, <1>7, <1>8, <1>9, <1>10, <1>11

\* The pieces of a reply that is caught.
LEMMA WholePieces ==
    ASSUME NEW r \in Whole
    PROVE  /\ Start(r) \in Replies /\ Rest(r) \in Replies /\ r.code # "550U" /\ r.of = Len(asked)
           /\ Start(r).start /\ ~Start(r).end /\ Start(r).code = r.code /\ Start(r).of = Len(asked)
           /\ ~Rest(r).start /\ Rest(r).end /\ Rest(r).code = r.code /\ Rest(r).of = Len(asked)
  BY StartRest DEF Whole, Final

\* The piece p is in the buffer, with nothing but extra rows ahead of it.
Behind(buf, p) == \E m \in DOMAIN buf : buf[m] = p /\ \A k \in 1 .. m - 1 : buf[k] \in Rows

\* An extra row is thrown away; the first piece waits; the reply is caught.
Skips ==
    /\ Dropped /\ replybuf = <<>>
    /\ \/ site # <<>> /\ downlink' = <<>>
       \/ site = <<>> /\ \E r \in Whole : downlink' = <<Start(r), Rest(r)>>
Halves(n) ==
    /\ Held(Buffer(n)) /\ site = <<>>
    /\ \E s \in Stray, r \in Whole : Buffer(n) = s \o <<Start(r)>> /\ downlink' = <<Rest(r)>>
Takes(n) ==
    /\ site = <<>> /\ downlink' = <<>>
    /\ \E r \in Whole :
         /\ Caught(Buffer(n), r.code) /\ Buffer(n) # <<>> /\ Last(Buffer(n)) = Rest(r)
         /\ \A k \in DOMAIN Buffer(n) : Buffer(n)[k] \in {Start(r), Rest(r)} \cup Rows
         /\ Behind(Buffer(n), Start(r))

\* The block, and what is left behind it.
Block(n, b, c) ==
    /\ Arrive(n) /\ Parse(b) /\ b = SubSeq(downlink, 1, n) /\ c = SubSeq(downlink, n + 1, Len(downlink))

\* An extra row alone is thrown away.
LEMMA ParseRow ==
    ASSUME NEW n, NEW b, NEW c, Block(n, b, c), NEW w \in Rows, Buffer(n) = <<w>>
    PROVE  Dropped /\ downlink' = c
<1>1. w \in Replies /\ w.code = "550U" /\ w.start /\ w.end
  BY DEF Rows
<1>2. PICK buf : buf = <<w>>
  OBVIOUS
<1>3. buf \in Seq(Replies) /\ DOMAIN buf = {1} /\ buf[1] = w /\ Last(buf) = w
  <2>1. Last(<<w>>) = w
    BY <1>1, Short
  <2> QED BY <1>1, <1>2, <2>1
<1>4. 1 \in DOMAIN buf /\ \A k \in DOMAIN buf : k > 1 => ~buf[k].start
  BY <1>3
<1>5. buf = replybuf \o b /\ Parse(b) /\ downlink' = c
  BY <1>2 DEF Buffer, Block, Arrive
<1>6. Last(buf).end /\ buf[1].start /\ buf[1].code = "550U"
  BY <1>1, <1>3
<1>7. IF buf[1].code = "550U" THEN Dropped ELSE Caught(buf, buf[1].code)
  BY <1>3, <1>4, <1>5, <1>6, ParseWhole, Zenon
<1> QED BY <1>5, <1>6, <1>7

\* A whole reply is caught, with an extra row ahead of it or without.
LEMMA ParseReply ==
    ASSUME NEW n, NEW b, NEW c, Block(n, b, c), NEW r \in Whole,
           \/ Buffer(n) = <<Start(r), Rest(r)>>
           \/ \E w \in Rows : Buffer(n) = <<w, Start(r), Rest(r)>>,
           c = <<>>, site = <<>>
    PROVE  Takes(n)
<1>1. PICK p, q, buf : p = Start(r) /\ q = Rest(r) /\ buf = Buffer(n)
  OBVIOUS
<1>2. /\ p \in Replies /\ q \in Replies /\ r.code # "550U"
      /\ p.start /\ ~p.end /\ p.code = r.code /\ ~q.start /\ q.end
  BY <1>1, WholePieces
<1>3. buf = replybuf \o b /\ Parse(b) /\ downlink' = <<>>
  BY <1>1 DEF Buffer, Block, Arrive
<1>4. /\ buf \in Seq(Replies) /\ Last(buf) = q /\ buf # <<>>
      /\ \A k \in DOMAIN buf : buf[k] \in {p, q} \cup Rows
      /\ \E m \in DOMAIN buf : buf[m] = p /\ \A k \in DOMAIN buf : k > m => buf[k] = q
      /\ Behind(buf, p)
  <2>1. CASE buf = <<p, q>>
    <3>1. buf \in Seq(Replies) /\ DOMAIN buf = {1, 2} /\ buf[1] = p /\ buf[2] = q
      BY <1>2, <2>1
    <3>2. Last(buf) = q /\ buf # <<>>
      <4>1. Last(<<p, q>>) = q
        BY DEF Last
      <4> QED BY <2>1, <4>1
    <3>3. \A k \in DOMAIN buf : k > 1 => buf[k] = q
      BY <3>1
    <3>4. Behind(buf, p)
      BY <3>1 DEF Behind
    <3> QED BY <3>1, <3>2, <3>3, <3>4
  <2>2. ASSUME NEW w \in Rows, buf = <<w, p, q>>
        PROVE  /\ buf \in Seq(Replies) /\ Last(buf) = q /\ buf # <<>>
               /\ \A k \in DOMAIN buf : buf[k] \in {p, q} \cup Rows
               /\ \E m \in DOMAIN buf : buf[m] = p /\ \A k \in DOMAIN buf : k > m => buf[k] = q
               /\ Behind(buf, p)
    <3>1. w \in Replies
      BY DEF Rows
    <3>2. /\ buf \in Seq(Replies) /\ DOMAIN buf = 1 .. 3 /\ buf[1] = w /\ buf[2] = p /\ buf[3] = q
          /\ buf # <<>>
      BY <1>2, <2>2, <3>1
    <3>3. Last(buf) = q
      <4>1. Last(<<w, p, q>>) = q
        BY DEF Last
      <4> QED BY <2>2, <4>1
    <3>4. 2 \in DOMAIN buf /\ \A k \in DOMAIN buf : k > 2 => buf[k] = q
      BY <3>2
    <3>5. \A k \in DOMAIN buf : buf[k] \in {p, q} \cup Rows
      BY <3>2
    <3>6. Behind(buf, p)
      <4>1. 2 \in DOMAIN buf /\ \A k \in 1 .. 2 - 1 : k = 1
        BY <3>2
      <4> QED BY <3>2, <4>1 DEF Behind
    <3> QED BY <3>2, <3>3, <3>4, <3>5, <3>6
  <2> QED BY <1>1, <2>1, <2>2
<1>5. Caught(buf, r.code)
  <2>1. PICK m \in DOMAIN buf : buf[m] = p /\ \A k \in DOMAIN buf : k > m => buf[k] = q
    BY <1>4
  <2>2. \A k \in DOMAIN buf : k > m => ~buf[k].start
    BY <1>2, <2>1
  <2>3. buf[m].start /\ Last(buf).end /\ buf[m].code = r.code
    BY <1>2, <1>4, <2>1
  <2> QED BY <1>2, <1>3, <1>4, <2>2, <2>3, ParseWhole
<1> QED BY <1>1, <1>3, <1>4, <1>5 DEF Takes

\* The first piece of a reply is held back.
LEMMA ParseHalf ==
    ASSUME NEW n, NEW b, NEW c, Block(n, b, c), NEW r \in Whole, NEW s \in Stray,
           Buffer(n) = s \o <<Start(r)>>, b = s \o <<Start(r)>>, replybuf = <<>>, c = <<Rest(r)>>, site = <<>>
    PROVE  Halves(n)
<1>1. PICK p, buf : p = Start(r) /\ buf = Buffer(n)
  OBVIOUS
<1>2. p \in Replies /\ p.start /\ ~p.end
  BY <1>1, WholePieces
<1>3. buf = replybuf \o b /\ Parse(b) /\ downlink' = <<Rest(r)>>
  BY <1>1 DEF Buffer, Block, Arrive
<1>4. Last(buf) = p /\ Head(b).start
  <2>1. CASE s = <<>>
    <3>1. buf = <<p>> /\ b = <<p>>
      BY <1>1, <1>2, <2>1, Short
    <3> QED BY <1>2, <3>1, Short
  <2>2. ASSUME NEW w \in Rows, s = <<w>> PROVE Last(buf) = p /\ Head(b).start
    <3>1. w \in Replies /\ w.start
      BY DEF Rows
    <3>2. buf = <<w, p>> /\ b = <<w, p>>
      BY <1>1, <1>2, <2>2, <3>1, Short
    <3>3. Last(<<w, p>>) = p /\ Head(<<w, p>>) = w
      BY DEF Last
    <3> QED BY <3>1, <3>2, <3>3
  <2> QED BY <2>1, <2>2 DEF Stray
<1>5. Held(buf)
  BY <1>2, <1>3, <1>4, ParsePart
<1> QED BY <1>1, <1>3, <1>5 DEF Halves

\* The ways to cut a short stream.
Cuts(d, n, b, c) ==
    /\ Len(d) = 1 => n = 1 /\ b = <<d[1]>> /\ c = <<>>
    /\ Len(d) = 2 => \/ n = 1 /\ b = <<d[1]>> /\ c = <<d[2]>>
                     \/ n = 2 /\ b = <<d[1], d[2]>> /\ c = <<>>
    /\ Len(d) = 3 => \/ n = 1 /\ b = <<d[1]>> /\ c = <<d[2], d[3]>>
                     \/ n = 2 /\ b = <<d[1], d[2]>> /\ c = <<d[3]>>
                     \/ n = 3 /\ b = <<d[1], d[2], d[3]>> /\ c = <<>>

\* There are no other ways.
LEMMA CutPieces ==
    ASSUME NEW S, NEW d \in Seq(S), NEW n \in DOMAIN d,
           NEW b, b = SubSeq(d, 1, n), NEW c, c = SubSeq(d, n + 1, Len(d))
    PROVE  Cuts(d, n, b, c)
<1>1. /\ b \in Seq(S) /\ c \in Seq(S) /\ Len(b) = n /\ n \in Nat /\ n >= 1 /\ n <= Len(d)
      /\ Len(c) = Len(d) - n
      /\ \A k \in DOMAIN b : b[k] = d[k]
      /\ \A k \in DOMAIN c : c[k] = d[n + k]
  BY CutAt
<1>2. DOMAIN b = 1 .. n /\ DOMAIN c = 1 .. Len(d) - n
  BY <1>1
<1>3. n = 1 => b = <<d[1]>>
  <2> HAVE n = 1
  <2>1. Len(b) = 1 /\ b[1] = d[1]
    BY <1>1, <1>2
  <2> QED BY <1>1, <2>1, Few
<1>4. n = 2 => b = <<d[1], d[2]>>
  <2> HAVE n = 2
  <2>1. Len(b) = 2 /\ b[1] = d[1] /\ b[2] = d[2]
    BY <1>1, <1>2
  <2> QED BY <1>1, <2>1, Few
<1>5. n = 3 => b = <<d[1], d[2], d[3]>>
  <2> HAVE n = 3
  <2>1. Len(b) = 3 /\ b[1] = d[1] /\ b[2] = d[2] /\ b[3] = d[3]
    BY <1>1, <1>2
  <2> QED BY <1>1, <2>1, Few
<1>6. n = Len(d) => c = <<>>
  <2> HAVE n = Len(d)
  <2>1. Len(c) = 0
    BY <1>1
  <2> QED BY <1>1, <2>1, Few
<1>7. n + 1 = Len(d) => c = <<d[n + 1]>>
  <2> HAVE n + 1 = Len(d)
  <2>1. Len(c) = 1 /\ 1 \in DOMAIN c
    BY <1>1, <1>2
  <2>2. c[1] = d[n + 1]
    BY <1>1, <2>1
  <2> QED BY <1>1, <2>1, <2>2, Few
<1>8. n = 1 /\ Len(d) = 3 => c = <<d[2], d[3]>>
  <2> HAVE n = 1 /\ Len(d) = 3
  <2>1. Len(c) = 2 /\ c[1] = d[2] /\ c[2] = d[3]
    BY <1>1, <1>2
  <2> QED BY <1>1, <2>1, Few
<1>9. Len(d) = 1 => n = 1 /\ b = <<d[1]>> /\ c = <<>>
  <2> HAVE Len(d) = 1
  <2>1. n = 1
    BY <1>1
  <2> QED BY <1>3, <1>6, <2>1
<1>10. Len(d) = 2 => \/ n = 1 /\ b = <<d[1]>> /\ c = <<d[2]>>
                     \/ n = 2 /\ b = <<d[1], d[2]>> /\ c = <<>>
  <2> HAVE Len(d) = 2
  <2>1. n = 1 \/ n = 2
    BY <1>1
  <2>2. CASE n = 1
    <3>1. n + 1 = Len(d) /\ n + 1 = 2
      BY <2>2
    <3> QED BY <1>3, <1>7, <2>2, <3>1
  <2> QED BY <1>4, <1>6, <2>1, <2>2
<1>11. Len(d) = 3 => \/ n = 1 /\ b = <<d[1]>> /\ c = <<d[2], d[3]>>
                     \/ n = 2 /\ b = <<d[1], d[2]>> /\ c = <<d[3]>>
                     \/ n = 3 /\ b = <<d[1], d[2], d[3]>> /\ c = <<>>
  <2> HAVE Len(d) = 3
  <2>1. n = 1 \/ n = 2 \/ n = 3
    BY <1>1
  <2>2. CASE n = 2
    <3>1. n + 1 = Len(d) /\ n + 1 = 3
      BY <2>2
    <3> QED BY <1>4, <1>7, <2>2, <3>1
  <2> QED BY <1>3, <1>5, <1>6, <1>8, <2>1, <2>2
<1> QED BY <1>9, <1>10, <1>11 DEF Cuts

\* One piece more.
LEMMA OneMore ==
    ASSUME NEW S, NEW p \in Seq(S), NEW q \in Seq(S), Len(q) = 1
    PROVE  /\ p \o q \in Seq(S) /\ Len(p \o q) = Len(p) + 1
           /\ \A k \in DOMAIN p : (p \o q)[k] = p[k]
           /\ (p \o q)[Len(p) + 1] = q[1]
<1>1. p \o q \in Seq(S) /\ Len(p \o q) = Len(p) + Len(q)
  BY ConcatProperties
<1>2. 1 \in DOMAIN q
  OBVIOUS
<1>3. \A k \in DOMAIN p : (p \o q)[k] = p[k]
  BY Concat
<1>4. (p \o q)[Len(p) + 1] = q[1]
  BY <1>2, Concat
<1> QED BY <1>1, <1>3, <1>4

\* Whatever the block, one of the three happens.
LEMMA ParseSplit ==
    ASSUME TypeOK, Catching, NEW n, Arrive(n), Parse(SubSeq(downlink, 1, n))
    PROVE  Skips \/ Halves(n) \/ Takes(n)
<1>1. PICK b, c : b = SubSeq(downlink, 1, n) /\ c = SubSeq(downlink, n + 1, Len(downlink))
  OBVIOUS
<1>2. Block(n, b, c) /\ Buffer(n) = replybuf \o b /\ downlink' = c
  BY <1>1 DEF Block, Arrive, Buffer
<1>3. n \in DOMAIN downlink /\ b \in Seq(Replies)
  BY <1>1, ArrivePieces
<1>4. PICK s \in Stray :
         \/ /\ Len(site) = 1 /\ replybuf = <<>> /\ downlink = s
         \/ /\ site = <<>>
            /\ \E r \in Whole :
                 \/ replybuf = <<>> /\ downlink = s \o <<Start(r), Rest(r)>>
                 \/ replybuf = s \o <<Start(r)>> /\ downlink = <<Rest(r)>>
  BY DEF Catching
<1>5. \A w \in Rows : w \in Replies
  BY DEF Rows
<1>6. Cuts(downlink, n, b, c)
  <2>1. PICK d : d = downlink
    OBVIOUS
  <2>2. d \in Seq(Replies) /\ n \in DOMAIN d /\ b = SubSeq(d, 1, n) /\ c = SubSeq(d, n + 1, Len(d))
    BY <1>1, <1>3, <2>1 DEF TypeOK
  <2> QED BY <2>1, <2>2, CutPieces
<1>7. CASE Len(site) = 1 /\ replybuf = <<>> /\ downlink = s
  <2>1. PICK w \in Rows : s = <<w>> /\ n = 1 /\ SubSeq(downlink, n + 1, Len(downlink)) = <<>>
    BY <1>3, <1>7, StrayRest
  <2>2. Len(downlink) = 1 /\ downlink[1] = w
    BY <1>7, <2>1
  <2>3. Buffer(n) = <<w>> /\ c = <<>>
    <3>1. b = <<w>> /\ c = <<>>
      BY <1>6, <2>2 DEF Cuts
    <3>2. Buffer(n) = b
      BY <1>2, <1>3, <1>7, ConcatEmptySeq
    <3> QED BY <3>1, <3>2
  <2>4. Dropped /\ downlink' = c
    BY <1>2, <2>3, ParseRow
  <2>5. site # <<>>
    BY <1>7
  <2> QED BY <1>7, <2>3, <2>4, <2>5 DEF Skips
<1>8. ASSUME site = <<>>, NEW r \in Whole, replybuf = <<>>, downlink = s \o <<Start(r), Rest(r)>>
      PROVE  Skips \/ Halves(n) \/ Takes(n)
  <2>1. PICK p, q : p = Start(r) /\ q = Rest(r)
    OBVIOUS
  <2>2. p \in Replies /\ q \in Replies
    BY <2>1, WholePieces
  <2>3. Buffer(n) = b
    BY <1>2, <1>3, <1>8, ConcatEmptySeq
  <2>4. CASE s = <<>>
    <3>1. Len(downlink) = 2 /\ downlink[1] = p /\ downlink[2] = q
      BY <1>8, <2>1, <2>2, <2>4
    <3>2. s \o <<p>> = <<p>>
      BY <2>2, <2>4
    <3>3. ASSUME b = <<p>>, c = <<q>> PROVE Halves(n)
      <4>1. b = s \o <<p>>
        BY <3>2, <3>3
      <4> QED BY <1>2, <1>8, <2>1, <2>3, <3>3, <4>1, ParseHalf
    <3>4. ASSUME b = <<p, q>>, c = <<>> PROVE Takes(n)
      BY <1>2, <1>8, <2>1, <2>3, <3>4, ParseReply
    <3>5. (b = <<p>> /\ c = <<q>>) \/ (b = <<p, q>> /\ c = <<>>)
      BY <1>6, <3>1 DEF Cuts
    <3> QED BY <3>3, <3>4, <3>5
  <2>5. ASSUME NEW w \in Rows, s = <<w>> PROVE Skips \/ Halves(n) \/ Takes(n)
    <3>1. Len(downlink) = 3 /\ downlink[1] = w /\ downlink[2] = p /\ downlink[3] = q
      BY <1>5, <1>8, <2>1, <2>2, <2>5
    <3>2. s \o <<p>> = <<w, p>>
      <4>1. PICK t : t = s \o <<p>>
        OBVIOUS
      <4>2. t \in Seq(Replies) /\ Len(t) = 2 /\ t[1] = w /\ t[2] = p
        BY <1>5, <2>2, <2>5, <4>1
      <4> QED BY <4>1, <4>2, Few
    <3>3. ASSUME b = <<w>>, c = <<p, q>> PROVE Skips
      <4>1. Dropped /\ downlink' = <<Start(r), Rest(r)>>
        BY <1>2, <2>1, <2>3, <3>3, ParseRow
      <4> QED BY <1>8, <4>1 DEF Skips
    <3>4. ASSUME b = <<w, p>>, c = <<q>> PROVE Halves(n)
      <4>1. b = s \o <<p>>
        BY <3>2, <3>4
      <4> QED BY <1>2, <1>8, <2>1, <2>3, <3>4, <4>1, ParseHalf
    <3>5. ASSUME b = <<w, p, q>>, c = <<>> PROVE Takes(n)
      BY <1>2, <1>8, <2>1, <2>3, <3>5, ParseReply
    <3>6. \/ b = <<w>> /\ c = <<p, q>>
          \/ b = <<w, p>> /\ c = <<q>>
          \/ b = <<w, p, q>> /\ c = <<>>
      BY <1>6, <3>1 DEF Cuts
    <3> QED BY <3>3, <3>4, <3>5, <3>6
  <2> QED BY <2>4, <2>5 DEF Stray
<1>9. ASSUME site = <<>>, NEW r \in Whole, replybuf = s \o <<Start(r)>>, downlink = <<Rest(r)>>
      PROVE  Skips \/ Halves(n) \/ Takes(n)
  <2>1. PICK p, q : p = Start(r) /\ q = Rest(r)
    OBVIOUS
  <2>2. p \in Replies /\ q \in Replies
    BY <2>1, WholePieces
  <2>3. b = <<q>> /\ c = <<>>
    <3>1. Len(downlink) = 1 /\ downlink[1] = q
      BY <1>9, <2>1
    <3> QED BY <1>6, <3>1 DEF Cuts
  <2>4. CASE s = <<>>
    <3>1. Buffer(n) = <<p, q>>
      <4>1. PICK buf : buf = Buffer(n)
        OBVIOUS
      <4>2. replybuf \in Seq(Replies) /\ Len(replybuf) = 1 /\ replybuf[1] = p
        BY <1>9, <2>1, <2>2, <2>4
      <4>3. b \in Seq(Replies) /\ Len(b) = 1 /\ b[1] = q
        BY <2>2, <2>3
      <4>4. buf = replybuf \o b
        BY <1>2, <4>1
      <4>5. /\ buf \in Seq(Replies) /\ Len(buf) = Len(replybuf) + 1
            /\ \A k \in DOMAIN replybuf : buf[k] = replybuf[k]
            /\ buf[Len(replybuf) + 1] = b[1]
        BY <4>2, <4>3, <4>4, OneMore
      <4>6. 1 \in DOMAIN replybuf /\ Len(replybuf) + 1 = 2
        BY <4>2
      <4>7. Len(buf) = 2 /\ buf[1] = p /\ buf[2] = q
        BY <4>2, <4>3, <4>5, <4>6
      <4> QED BY <4>1, <4>5, <4>7, Few
    <3> QED BY <1>2, <1>9, <2>1, <2>3, <3>1, ParseReply
  <2>5. ASSUME NEW w \in Rows, s = <<w>> PROVE Takes(n)
    <3>1. Buffer(n) = <<w, p, q>>
      <4>1. PICK buf : buf = Buffer(n)
        OBVIOUS
      <4>2. replybuf \in Seq(Replies) /\ Len(replybuf) = 2 /\ replybuf[1] = w /\ replybuf[2] = p
        BY <1>5, <1>9, <2>1, <2>2, <2>5
      <4>3. b \in Seq(Replies) /\ Len(b) = 1 /\ b[1] = q
        BY <2>2, <2>3
      <4>4. buf = replybuf \o b
        BY <1>2, <4>1
      <4>5. /\ buf \in Seq(Replies) /\ Len(buf) = Len(replybuf) + 1
            /\ \A k \in DOMAIN replybuf : buf[k] = replybuf[k]
            /\ buf[Len(replybuf) + 1] = b[1]
        BY <4>2, <4>3, <4>4, OneMore
      <4>6. 1 \in DOMAIN replybuf /\ 2 \in DOMAIN replybuf /\ Len(replybuf) + 1 = 3
        BY <4>2
      <4>7. Len(buf) = 3 /\ buf[1] = w /\ buf[2] = p /\ buf[3] = q
        BY <4>2, <4>3, <4>5, <4>6
      <4> QED BY <4>1, <4>5, <4>7, Few
    <3> QED BY <1>2, <1>9, <2>1, <2>3, <3>1, ParseReply
  <2> QED BY <2>4, <2>5 DEF Stray
<1> QED BY <1>4, <1>7, <1>8, <1>9

-----------------------------------------------------------------------------
(* What the client is told in place of a reply it waits for is right.      *)

\* A reply to the last command, after the catch has ended.
LEMMA RightReply ==
    ASSUME UNCHANGED asked, NEW p, p.of = Len(asked), p.code \in Kinds(asked[Len(asked)]),
           p.code \in {"227", "229"} => p.at = Asks(asked[Len(asked)]),
           p.code = "234" => mitm'
    PROVE  Right(p)'
  BY DEF Right

\* An extra row is told to a client that has asked for a transfer.
LEMMA RightRow ==
    ASSUME UNCHANGED asked, responsecatch # "NONE", NEW w \in Rows, Coming(w),
           NEW p, p.of = w.of, p.code = w.code
    PROVE  Right(p)'
<1>1. w.code = "550U" /\ "550U" \notin Expected
  BY DEF Rows, Expected
<1>2. asked[w.of] = "XFER"
  BY <1>1 DEF Coming
<1>3. "550U" \in Kinds("XFER")
  BY DEF Kinds
<1> QED BY <1>1, <1>2, <1>3 DEF Right

\* The buffer of a catch that ends: the reply r behind extra rows.
Ends(buf, r) ==
    /\ buf \in Seq(Replies) /\ buf # <<>> /\ Last(buf) = Rest(r) /\ r \in Whole
    /\ \A k \in DOMAIN buf : buf[k] \in {Start(r), Rest(r)} \cup Rows
    /\ \A k \in DOMAIN buf : Coming(buf[k])
    /\ Behind(buf, Start(r))

\* It is the reply the catch was for.
LEMMA EndsReply ==
    ASSUME responsecatch # "NONE", NEW buf, NEW r, Ends(buf, r)
    PROVE  /\ Last(buf).of = Len(asked) /\ r.code \in Expected
           /\ r.code \in {"227", "229"} => r.at = "site"
           /\ \A k \in DOMAIN buf : \/ buf[k] \in Rows /\ Coming(buf[k])
                                    \/ /\ buf[k] \in Replies /\ buf[k].of = Len(asked)
                                       /\ buf[k].code = r.code /\ buf[k].at = r.at
<1>1. /\ Start(r) \in Replies /\ Rest(r) \in Replies /\ r.code # "550U" 
      /\ Start(r).code = r.code /\ Start(r).of = Len(asked)
      /\ Rest(r).code = r.code /\ Rest(r).of = Len(asked)
      /\ Start(r).at = r.at /\ Rest(r).at = r.at
  <2>1. r \in Whole /\ r \in Replies
    BY DEF Ends, Whole
  <2> QED BY <2>1, WholePieces, StartRest
<1>2. Len(buf) \in DOMAIN buf /\ buf[Len(buf)] = Rest(r)
  <2>1. buf \in Seq(Replies) /\ buf # <<>>
    BY DEF Ends
  <2>2. Len(buf) \in DOMAIN buf
    BY <2>1
  <2> QED BY <2>2 DEF Ends, Last
<1>3. Coming(Rest(r))
  BY <1>2 DEF Ends
<1>4. r.code \in Expected /\ (r.code \in {"227", "229"} => r.at = "site")
  BY <1>1, <1>3 DEF Coming
<1>5. Last(buf).of = Len(asked)
  BY <1>1 DEF Ends
<1> QED BY <1>1, <1>4, <1>5 DEF Ends

\* The address in the buffer is that of the reply.
LEMMA EndsFound ==
    ASSUME responsecatch # "NONE", NEW buf, NEW r, Ends(buf, r), r.code \in {"227", "229"}
    PROVE  /\ Unread(buf, r.code) = {}
           /\ \A f \in Found(buf, r.code) : f \in DOMAIN buf /\ buf[f].of = Len(asked)
<1>1. /\ \A w \in Rows : w.code = "550U" /\ w.at = "none"
      /\ buf \in Seq(Replies) /\ DOMAIN buf = 1 .. Len(buf) /\ Len(buf) \in Nat
  <2>1. buf \in Seq(Replies)
    BY DEF Ends
  <2> QED BY <2>1 DEF Rows
<1>2. Start(r).code = r.code /\ Start(r).at = "site"
  <2>1. r \in Replies /\ r.at = "site"
    BY EndsReply DEF Ends, Whole
  <2> QED BY <2>1, StartRest
<1>3. PICK m \in DOMAIN buf : buf[m] = Start(r) /\ \A k \in 1 .. m - 1 : buf[k] \in Rows
  BY DEF Ends, Behind
<1>4. m \in Found(buf, r.code)
  <2>1. \A j \in 1 .. m : j = m \/ j \in 1 .. m - 1
    BY <1>1
  <2>2. \A j \in 1 .. m : buf[j].at = "site" => j = m
    BY <1>1, <1>3, <2>1
  <2> QED BY <1>2, <1>3, <2>2 DEF Found
<1>5. \A k \in 1 .. m - 1 : buf[k].code = "550U"
  BY <1>1, <1>3
<1>6. Unread(buf, r.code) = {}
  BY <1>4, <1>5 DEF Unread
<1>7. \A f \in Found(buf, r.code) : f \in DOMAIN buf /\ buf[f].of = Len(asked)
  <2>1. ASSUME NEW f \in DOMAIN buf, buf[f].code = r.code PROVE buf[f].of = Len(asked)
    BY <1>1, <2>1, EndsReply
  <2> QED BY <2>1 DEF Found
<1> QED BY <1>6, <1>7

\* Whatever is told in its place, the client may be told it.
LEMMA ToldRight ==
    ASSUME DataInv, responsecatch # "NONE", UNCHANGED asked, NEW buf, NEW r, Ends(buf, r),
           TypeOK, responsecatch = "AUTH_TLS" /\ r.code = "234" => mitm',
           NEW t \in Told(buf, r.code)
    PROVE  \A k \in DOMAIN t : Right(t[k])'
<1> DEFINE c == asked[Len(asked)]
           Good == \A k \in DOMAIN t : Right(t[k])'
<1>1. Fits(c)
  BY DEF DataInv
<1>2. /\ Last(buf).of = Len(asked) /\ r.code \in Expected
      /\ r.code \in {"227", "229"} => r.at = "site"
  BY EndsReply
<1>3. \A k \in DOMAIN buf : \/ buf[k] \in Rows /\ Coming(buf[k])
                            \/ /\ buf[k] \in Replies /\ buf[k].of = Len(asked)
                               /\ buf[k].code = r.code /\ buf[k].at = r.at
  BY EndsReply
<1> HIDE DEF Good
\* The reply as it came.
<1>4. ASSUME t = buf, r.code \in Kinds(c), r.code \notin {"227", "229"}, r.code = "234" => mitm' PROVE Good
  <2>1. ASSUME NEW k \in DOMAIN buf PROVE Right(buf[k])'
    <3>1. CASE buf[k] \in Rows /\ Coming(buf[k])
      <4>1. PICK w : w = buf[k]
        OBVIOUS
      <4>2. Right(w)'
        BY <3>1, <4>1, RightRow
      <4> QED BY <4>1, <4>2 DEF Right
    <3>2. CASE buf[k].of = Len(asked) /\ buf[k].code = r.code
      BY <1>4, <3>2, RightReply
    <3> QED BY <1>3, <3>1, <3>2
  <2> QED BY <1>4, <2>1 DEF Good
\* The reply with another address.
<1>5. ASSUME NEW at, at = Asks(c), NEW i \in Found(buf, r.code), t = Readdressed(buf, i, at),
             r.code \in Kinds(c), r.code \in {"227", "229"}
      PROVE  Good
  <2> DEFINE f == [k \in DOMAIN buf |-> IF buf[k].of = buf[i].of /\ buf[k].at = "site"
                                       THEN [buf[k] EXCEPT !.at = at] ELSE buf[k]]
  <2>1. buf[i].of = Len(asked)
    BY <1>5, EndsFound
  <2>2. t = f
    BY <1>5 DEF Readdressed
  <2>3. ASSUME NEW k \in DOMAIN buf PROVE Right(f[k])'
    <3>1. PICK p : p = f[k]
      OBVIOUS
    <3>2. /\ p.of = buf[k].of /\ p.code = buf[k].code
          /\ p.at = IF buf[k].of = Len(asked) /\ buf[k].at = "site" THEN at ELSE buf[k].at
      <4>1. buf[k] \in Replies
        BY <1>3 DEF Rows
      <4> QED BY <2>1, <3>1, <4>1 DEF Replies
    <3> HIDE DEF f
    <3>3. CASE buf[k] \in Rows /\ Coming(buf[k])
      <4>1. Right(p)'
        BY <3>2, <3>3, RightRow
      <4> QED BY <3>1, <4>1 DEF Right
    <3>4. CASE buf[k].of = Len(asked) /\ buf[k].code = r.code /\ buf[k].at = r.at
      <4>1. /\ p.of = Len(asked) /\ p.code \in Kinds(c)
            /\ p.code \in {"227", "229"} => p.at = Asks(c)
            /\ p.code = "234" => mitm'
        BY <1>2, <1>5, <3>2, <3>4
      <4>2. Right(p)'
        BY <4>1, RightReply
      <4> QED BY <3>1, <4>2 DEF Right
    <3> QED BY <1>3, <3>3, <3>4
  <2>4. DOMAIN f = DOMAIN buf
    OBVIOUS
  <2> HIDE DEF f
  <2> QED BY <2>2, <2>3, <2>4 DEF Good
\* Another reply in its place.
<1>6. ASSUME NEW cc, NEW at, NEW heard, t = <<Made(Last(buf).of, cc, at, heard)>>, cc \in Kinds(c),
             cc \in {"227", "229"} => at = Asks(c), cc # "234"
      PROVE  Good
  <2>1. PICK p : p = Made(Last(buf).of, cc, at, heard)
    OBVIOUS
  <2>2. p.of = Len(asked) /\ p.code = cc /\ p.at = at
    BY <1>2, <2>1 DEF Made
  <2>3. Right(p)'
    BY <1>6, <2>2, RightReply
  <2>4. t = <<p>>
    BY <1>6, <2>1
  <2>5. DOMAIN t = {1} /\ t[1] = p
    BY <2>4
  <2> QED BY <2>3, <2>5 DEF Good
<1>7. /\ Kinds("AUTH") = {"234", "error"} /\ Kinds("PASV") = {"227", "502", "error"}
      /\ Kinds("EPSV 1") = {"229", "502", "error"} /\ Kinds("EPSV 2") = {"229", "502", "error"}
      /\ Kinds("PORT") = {"200", "502", "error"} /\ Kinds("EPRT") = {"200", "502", "error"}
  BY DEF Kinds
<1> DEFINE Only(d, at, heard) == <<Made(Last(buf).of, d, at, heard)>>
           Exhausted == Only("502", "none", TRUE)
<1>8. CASE responsecatch = "AUTH_TLS"
  <2>1. c = "AUTH" /\ r.code \in {"234", "error"}
    BY <1>1, <1>2, <1>8 DEF Fits, Expected
  <2>2. t = buf
    BY <1>8 DEF Told
  <2> QED BY <1>4, <1>7, <1>8, <2>1, <2>2 DEF Good
<1>9. CASE responsecatch = "PASV"
  <2>1. c = "PASV" /\ r.code \in {"227", "error"}
    BY <1>1, <1>2, <1>9 DEF Fits, Expected
  <2>2. IF r.code = "227"
        THEN t = Exhausted \/ \E i \in Found(buf, r.code) : t = Readdressed(buf, i, "IPv4")
        ELSE t = buf
    <3>1. r.code = "227" => Unread(buf, r.code) = {}
      BY EndsFound
    <3> QED BY <1>9, <3>1 DEF Told
  <2>3. Asks(c) = "IPv4"
    BY <2>1 DEF Asks
  <2> HIDE DEF c
  <2>4. "227" \in Kinds(c) /\ "502" \in Kinds(c) /\ "error" \in Kinds(c)
    BY <1>7, <2>1
  <2>5. ASSUME r.code = "227", NEW i \in Found(buf, r.code), t = Readdressed(buf, i, "IPv4") PROVE Good
    BY <1>5, <2>3, <2>4, <2>5 DEF Good
  <2>6. CASE t = Exhausted
    BY <1>6, <2>4, <2>6 DEF Good
  <2>7. CASE r.code = "error" /\ t = buf
    BY <1>4, <2>4, <2>7 DEF Good
  <2> QED BY <2>1, <2>2, <2>5, <2>6, <2>7 DEF Good
<1>10. CASE responsecatch = "EPSV"
  <2>1. /\ c \in {"PASV", "EPSV 1", "EPSV 2"} /\ r.code \in {"229", "error"}
        /\ origincatch = "PASV" <=> c = "PASV"
    BY <1>1, <1>2, <1>10 DEF Fits, Expected
  <2>2. OriginFamily = Asks(c)
    BY <1>1, <1>10 DEF Fits, OriginFamily, Asks
  <2>3. IF r.code = "229"
        THEN \/ t = Exhausted
             \/ origincatch = "PASV" /\ t = Only("227", OriginFamily, TRUE)
             \/ /\ origincatch # "PASV"
                /\ \E i \in Found(buf, r.code) : t = Readdressed(buf, i, OriginFamily)
        ELSE t = buf
    <3>1. r.code = "229" => Unread(buf, r.code) = {}
      BY EndsFound
    <3> QED BY <1>10, <3>1 DEF Told
  <2> HIDE DEF c
  <2>4. /\ "502" \in Kinds(c) /\ "error" \in Kinds(c)
        /\ IF c = "PASV" THEN "227" \in Kinds(c) ELSE "229" \in Kinds(c)
    BY <1>7, <2>1
  <2>5. CASE t = Exhausted
    BY <1>6, <2>4, <2>5 DEF Good
  <2>6. CASE origincatch = "PASV" /\ t = Only("227", OriginFamily, TRUE)
    BY <1>6, <2>1, <2>2, <2>4, <2>6 DEF Good
  <2>7. ASSUME r.code = "229", origincatch # "PASV",
               NEW i \in Found(buf, r.code), t = Readdressed(buf, i, OriginFamily)
        PROVE  Good
    <3>1. "229" \in Kinds(c)
      BY <2>1, <2>4, <2>7
    <3> QED BY <1>5, <2>2, <2>7, <3>1 DEF Good
  <2>8. CASE r.code = "error" /\ t = buf
    BY <1>4, <2>4, <2>8 DEF Good
  <2> QED BY <2>1, <2>3, <2>5, <2>6, <2>7, <2>8 DEF Good
<1>11. CASE responsecatch \in {"PORT", "EPRT"}
  <2>1. c \in {"PORT", "EPRT"}
    BY <1>1, <1>11 DEF Fits
  <2>2. t = Only("200", "none", r.code = "200") \/ t = Exhausted
    BY <1>11 DEF Told
  <2> HIDE DEF c
  <2>3. "200" \in Kinds(c) /\ "502" \in Kinds(c)
    BY <1>7, <2>1
  <2>4. CASE t = Only("200", "none", r.code = "200")
    BY <1>6, <2>3, <2>4 DEF Good
  <2>5. CASE t = Exhausted
    BY <1>6, <2>3, <2>5 DEF Good
  <2> QED BY <2>2, <2>4, <2>5
<1>12. responsecatch \in {"AUTH_TLS", "PASV", "EPSV", "PORT", "EPRT"}
  BY DEF TypeOK
<1> QED BY <1>8, <1>9, <1>10, <1>11, <1>12

-----------------------------------------------------------------------------
(* The parser is given a block while a reply is caught.                    *)

\* The first n pieces reach FDData, which leaves the other streams alone.
Delivered(n) == Arrive(n) /\ UNCHANGED never

\* A buffer that is thrown away disturbs no order.
LEMMA DroppedOrder ==
    ASSUME TypeOK, OrderInv, NEW n, Arrive(n), Dropped
    PROVE  OrderInv' /\ told' = told /\ replybuf' = <<>>
<1>1. told' = told /\ replybuf' = <<>> /\ told \in Seq(Replies)
  BY DEF Dropped, TypeOK
<1>2. told' = told \o <<>>
  BY <1>1, ConcatEmptySeq
<1>3. Replaces(<<>>, Buffer(n))
  <2>1. <<>> \in Seq(Replies) /\ DOMAIN <<>> = {}
    OBVIOUS
  <2>2. Ordered(<<>>)
    BY EmptyOrder
  <2> QED BY <2>1, <2>2 DEF Replaces
<1> QED BY <1>1, <1>2, <1>3, ToldOrder

\* Nothing is told: what is not thrown away comes later.
LEMMA KeptData ==
    ASSUME DataInv, NEW n, Delivered(n), UNCHANGED <<catches, mitm, told>>,
           \A k \in DOMAIN replybuf' : \/ \E j \in DOMAIN replybuf : replybuf'[k] = replybuf[j]
                                       \/ \E j \in DOMAIN downlink : replybuf'[k] = downlink[j],
           \A k \in DOMAIN downlink' : \E j \in DOMAIN downlink : downlink'[k] = downlink[j]
    PROVE  DataInv'
<1>1. UNCHANGED <<never, catches, mitm, told, asked, commandbuf, uplink, site>>
  BY DEF Delivered, Arrive
<1>2. /\ \A k \in DOMAIN replybuf' : Coming(replybuf'[k])
      /\ \A k \in DOMAIN downlink' : Coming(downlink'[k])
  BY DEF DataInv
<1>3. /\ \A k \in DOMAIN replybuf' : Coming(replybuf[k])'
      /\ \A k \in DOMAIN downlink' : Coming(downlink[k])'
  BY <1>1, <1>2 DEF Coming, Expected, catches
<1>4. /\ \A k \in DOMAIN told' : Right(told[k])'
      /\ \A k \in DOMAIN site' : Settled(site[k])'
  BY <1>1 DEF DataInv, Right, Settled, Expected, catches
<1> QED BY <1>1, <1>3, <1>4 DEF DataInv, Fits, catches, never

\* An extra row is thrown away: the catch goes on.
LEMMA SkipsInv ==
    ASSUME Inv, Split, Catching, NEW n, Delivered(n), Skips
    PROVE  Inv'
<1>1. TypeOK /\ OrderInv /\ DataInv
  BY DEF Inv
<1>2. /\ Dropped /\ replybuf = <<>> /\ Arrive(n)
      /\ UNCHANGED <<never, catches, mitm, told, asked, commandbuf, uplink, site>> /\ replybuf' = <<>>
  BY DEF Skips, Delivered, Dropped, Arrive
<1>3. OrderInv'
  BY <1>1, <1>2, DroppedOrder
<1>4. downlink' \in Seq(Replies) /\ \A k \in DOMAIN downlink' : \E j \in DOMAIN downlink : downlink'[k] = downlink[j]
  BY <1>1, <1>2, ArrivePieces
<1>5. TypeOK'
  BY <1>1, <1>2, <1>4 DEF TypeOK, never, catches
<1>6. DataInv'
  <2>1. DOMAIN replybuf' = {}
    BY <1>2
  <2> QED BY <1>1, <1>2, <1>4, <2>1, KeptData
<1>7. Whole' = Whole /\ Stray' = Stray /\ <<>> \in Stray
  BY <1>2 DEF Whole, Stray, Rows, Final
<1>8. \A y : Start(y)' = Start(y) /\ Rest(y)' = Rest(y)
  BY DEF Start, Rest
<1>9. \/ /\ Len(site) = 1 /\ site[1].of = Len(asked) /\ site[1].cmd \notin {"XFER", "226"} /\ downlink' = <<>>
      \/ site = <<>> /\ \E r \in Whole : downlink' = <<>> \o <<Start(r), Rest(r)>>
  <2>1. CASE site # <<>> /\ downlink' = <<>>
    BY <2>1 DEF Catching
  <2>2. ASSUME site = <<>>, NEW r \in Whole, downlink' = <<Start(r), Rest(r)>>
        PROVE  downlink' = <<>> \o <<Start(r), Rest(r)>>
    <3>1. PICK t : t = <<Start(r), Rest(r)>>
      OBVIOUS
    <3>2. t \in Seq(Replies)
      BY <1>4, <2>2, <3>1
    <3>3. <<>> \o t = t
      BY <3>2, ConcatEmptySeq
    <3> QED BY <2>2, <3>1, <3>3
  <2> QED BY <2>1, <2>2 DEF Skips
<1>10. Catching'
  BY <1>2, <1>7, <1>8, <1>9 DEF Catching, catches
<1>11. Split'
  BY <1>2 DEF Split, never
<1> QED BY <1>3, <1>5, <1>6, <1>10, <1>11 DEF Inv, Shape

\* The first piece is held back: the catch goes on.
LEMMA HalvesInv ==
    ASSUME Inv, Split, Catching, NEW n, Delivered(n), Halves(n)
    PROVE  Inv'
<1>1. TypeOK /\ OrderInv /\ DataInv
  BY DEF Inv
<1>2. /\ replybuf' = Buffer(n) /\ Arrive(n) /\ site = <<>>
      /\ UNCHANGED <<never, catches, mitm, told, asked, commandbuf, uplink, site>>
  BY DEF Halves, Delivered, Held, Arrive
<1>3. OrderInv'
  BY <1>1, <1>2, HeldOrder
<1>4. /\ downlink' \in Seq(Replies) /\ replybuf' \in Seq(Replies)
      /\ \A k \in DOMAIN downlink' : \E j \in DOMAIN downlink : downlink'[k] = downlink[j]
      /\ \A k \in DOMAIN replybuf' : \/ \E j \in DOMAIN replybuf : replybuf'[k] = replybuf[j]
                                     \/ \E j \in DOMAIN downlink : replybuf'[k] = downlink[j]
  BY <1>1, <1>2, ArrivePieces
<1>5. TypeOK'
  BY <1>1, <1>2, <1>4 DEF TypeOK, Catching, never, catches
<1>6. DataInv'
  BY <1>1, <1>2, <1>4, KeptData
<1>7. Whole' = Whole /\ Stray' = Stray
  BY <1>2 DEF Whole, Stray, Rows, Final
<1>8. \A y : Start(y)' = Start(y) /\ Rest(y)' = Rest(y)
  BY DEF Start, Rest
<1>9. PICK s \in Stray, r \in Whole : replybuf' = s \o <<Start(r)>> /\ downlink' = <<Rest(r)>>
  BY <1>2 DEF Halves
<1>10. Catching'
  BY <1>2, <1>7, <1>8, <1>9 DEF Catching, catches
<1>11. Split'
  BY <1>2 DEF Split, never
<1> QED BY <1>3, <1>5, <1>6, <1>10, <1>11 DEF Inv, Shape

\* The catch ends.
LEMMA CaughtTypes ==
    ASSUME TypeOK, NEW n, Delivered(n), downlink' \in Seq(Replies), told' \in Seq(Replies),
           NEW buf, NEW code, Caught(buf, code)
    PROVE  TypeOK'
<1>1. /\ responsecatch' = "NONE" /\ origincatch' = "NONE" /\ replybuf' = <<>>
      /\ tlsstate' \in {"NONE", "QUERY", "IN_PROGRESS"} /\ mitm' \in BOOLEAN
  BY DEF Caught, Catch, TypeOK
<1>2. UNCHANGED <<never, asked, commandbuf, uplink, site>>
  BY DEF Delivered, Arrive
<1> QED BY <1>1, <1>2 DEF TypeOK, never

\* The client is told something right, and nothing is left.
LEMMA TakesData ==
    ASSUME TypeOK, OrderInv, DataInv, Catching, NEW n, Delivered(n), Takes(n)
    PROVE  DataInv'
<1>1. Arrive(n) /\ site = <<>> /\ uplink = <<>> /\ responsecatch # "NONE" /\ asked # <<>>
  BY DEF Delivered, Catching, Takes
<1>2. UNCHANGED <<never, asked, commandbuf, uplink, site>> /\ downlink' = <<>>
  BY DEF Delivered, Arrive, Takes
<1>3. PICK buf, r : /\ buf = Buffer(n) /\ r \in Whole /\ Caught(buf, r.code) /\ buf # <<>> /\ Last(buf) = Rest(r)
                    /\ \A k \in DOMAIN buf : buf[k] \in {Start(r), Rest(r)} \cup Rows
                    /\ Behind(buf, Start(r))
  BY DEF Takes
<1>4. Ends(buf, r)
  <2>1. buf \in Seq(Replies) /\ \A k \in DOMAIN buf : Coming(buf[k])
    BY <1>1, <1>3, ArrivePieces DEF DataInv
  <2> QED BY <1>3, <2>1 DEF Ends
<1>5. PICK t \in Told(buf, r.code) : told' = told \o t
  BY <1>3 DEF Caught
<1>6. /\ responsecatch' = "NONE" /\ origincatch' = "NONE" /\ replybuf' = <<>>
      /\ IF responsecatch = "AUTH_TLS" /\ r.code = "234" THEN mitm' = TRUE
         ELSE UNCHANGED <<tlsstate, mitm>>
  BY <1>3 DEF Caught, Catch
<1>7. \A k \in DOMAIN t : Right(t[k])'
  BY <1>2, <1>1, <1>4, <1>6, ToldRight
<1>8. \A k \in DOMAIN told : Right(told[k]) /\ (mitm => mitm')
  BY <1>6 DEF DataInv
<1>9. \A x : Right(x) /\ (mitm => mitm') => Right(x)'
  BY <1>2 DEF Right
<1>10. \A k \in DOMAIN told' : Right(told[k])'
  <2>1. told \in Seq(Replies) /\ t \in Seq(Replies)
    <3>1. Last(buf).end /\ buf \in Seq(Replies)
      BY <1>3, <1>4, WholePieces DEF Ends
    <3>2. Ordered(buf)
      BY <1>1, <1>3, BufferOrder
    <3>3. Replaces(t, buf)
      BY <1>3, <1>5, <3>1, <3>2, ToldReplaces
    <3> QED BY <3>3 DEF Replaces, TypeOK
  <2>2. \A k \in DOMAIN (told \o t) :
           \/ k \in DOMAIN told /\ (told \o t)[k] = told[k]
           \/ k - Len(told) \in DOMAIN t /\ (told \o t)[k] = t[k - Len(told)]
    BY <2>1, Concat
  <2> QED BY <1>5, <1>7, <1>8, <1>9, <2>2
<1>11. DOMAIN site' = {} /\ DOMAIN replybuf' = {} /\ DOMAIN downlink' = {}
  BY <1>1, <1>2, <1>6
<1>12. tlsstate' # "NONE" => \E k \in DOMAIN asked : asked[k] = "AUTH" /\ \A m \in DOMAIN uplink : k < uplink[m].of
  <2>1. CASE tlsstate' = tlsstate
    BY <2>1 DEF DataInv
  <2>2. CASE responsecatch = "AUTH_TLS"
    <3>1. asked[Len(asked)] = "AUTH"
      BY <1>1, <2>2 DEF DataInv, Fits
    <3>2. Len(asked) \in DOMAIN asked
      BY <1>1 DEF TypeOK
    <3>3. DOMAIN uplink = {}
      BY <1>1
    <3> QED BY <3>1, <3>2, <3>3
  <2> QED BY <1>6, <2>1, <2>2
<1> QED BY <1>2, <1>6, <1>10, <1>11, <1>12 DEF DataInv

\* The reply is caught: the catch ends.
LEMMA TakesInv ==
    ASSUME Inv, Split, Catching, NEW n, Delivered(n), Takes(n)
    PROVE  Inv'
<1>1. TypeOK /\ OrderInv /\ DataInv
  BY DEF Inv
<1>2. Arrive(n) /\ UNCHANGED <<never, asked, commandbuf, uplink, site>> /\ site = <<>> /\ downlink' = <<>>
  BY DEF Delivered, Arrive, Takes
<1>3. PICK r \in Whole : /\ Caught(Buffer(n), r.code) /\ Buffer(n) # <<>> /\ Last(Buffer(n)) = Rest(r)
  BY DEF Takes
<1>4. Last(Buffer(n)).end
  BY <1>3, WholePieces
<1>5. OrderInv' /\ told' \in Seq(Replies) /\ replybuf' = <<>>
  BY <1>1, <1>2, <1>3, <1>4, CaughtOrder
<1>6. TypeOK'
  <2>1. downlink' \in Seq(Replies)
    BY <1>1, <1>2, ArrivePieces
  <2> QED BY <1>1, <1>3, <1>5, <2>1, CaughtTypes
<1>7. DataInv'
  BY <1>1, TakesData
<1>8. Passing'
  <2>1. responsecatch' = "NONE" /\ commandbuf' = <<>> /\ uplink' = <<>> /\ site' = <<>>
    BY <1>2, <1>3 DEF Catching, Caught, Catch
  <2>2. <<>> \in Stray' /\ DOMAIN downlink' = {}
    BY <1>2 DEF Stray
  <2> QED BY <1>2, <1>5, <2>1, <2>2 DEF Passing
<1>9. Split'
  BY <1>2 DEF Split, never
<1> QED BY <1>5, <1>6, <1>7, <1>8, <1>9 DEF Inv, Shape

\* Lines that are not cut stay so.
LEMMA UncutShape ==
    ASSUME ~Split, Unsplit, UNCHANGED <<never, asked, commandbuf, uplink, site>>, NEW n,
           \A k \in DOMAIN downlink' : n + k \in DOMAIN downlink /\ downlink'[k] = downlink[n + k],
           replybuf' = <<>>, OrderInv', TypeOK'
    PROVE  Inv'
<1>1. \A k \in DOMAIN downlink' : downlink'[k].start /\ downlink'[k].end
  BY DEF Unsplit
<1>2. Unsplit'
  BY <1>1 DEF Unsplit
<1>3. ~Split'
  BY DEF Split, never
<1> QED BY <1>2, <1>3 DEF Inv, Shape

\* Lines that are not cut: the block is one reply or several.
LEMMA UncutInv ==
    ASSUME Inv, ~Split, NEW n \in Blocks(downlink), Delivered(n), Parse(SubSeq(downlink, 1, n))
    PROVE  Inv'
<1>1. TypeOK /\ OrderInv /\ Unsplit
  BY DEF Inv, Shape
<1>2. /\ Arrive(n) /\ UNCHANGED <<never, asked, commandbuf, uplink, site>>
      /\ replybuf = <<>> /\ n \in DOMAIN downlink /\ n \in Nat /\ n >= 1 /\ downlink \in Seq(Replies)
  BY <1>1 DEF Delivered, Arrive, Blocks, Unsplit, TypeOK
<1>3. PICK b : b = SubSeq(downlink, 1, n)
  OBVIOUS
<1>4. /\ b \in Seq(Replies) /\ Len(b) = n /\ Buffer(n) = b /\ b = replybuf \o b
      /\ downlink' \in Seq(Replies)
      /\ \A k \in DOMAIN downlink' : n + k \in DOMAIN downlink /\ downlink'[k] = downlink[n + k]
      /\ \A k \in DOMAIN b : k \in DOMAIN downlink /\ b[k] = downlink[k]
  <2>1. /\ b \in Seq(Replies) /\ Len(b) = n /\ downlink' \in Seq(Replies)
        /\ \A k \in DOMAIN downlink' : n + k \in DOMAIN downlink /\ downlink'[k] = downlink[n + k]
        /\ \A k \in DOMAIN b : k \in DOMAIN downlink /\ b[k] = downlink[k]
    BY <1>1, <1>2, <1>3, ArrivePieces
  <2>2. b = <<>> \o b
    BY <2>1, ConcatEmptySeq
  <2>3. Buffer(n) = replybuf \o b
    BY <1>3 DEF Buffer
  <2> QED BY <1>2, <2>1, <2>2, <2>3
<1>5. /\ DOMAIN b = 1 .. n /\ n \in DOMAIN b /\ Last(b) = b[n] /\ b[n].start /\ b[n].end /\ b # <<>>
      /\ \A k \in DOMAIN b : k > n => ~b[k].start
  <2>1. DOMAIN b = 1 .. n /\ n \in DOMAIN b /\ b # <<>>
    BY <1>2, <1>4
  <2>2. Last(b) = b[n]
    BY <1>4 DEF Last
  <2>3. b[n].start /\ b[n].end
    BY <1>1, <1>4, <2>1 DEF Unsplit
  <2>4. \A k \in DOMAIN b : ~(k > n)
    BY <1>2, <2>1
  <2> QED BY <2>1, <2>2, <2>3, <2>4
<1>6. IF b[n].code = "550U" THEN Dropped ELSE Caught(b, b[n].code)
  <2>1. Last(b).end /\ b = replybuf \o b /\ Parse(b)
    BY <1>3, <1>4, <1>5
  <2>2. PICK buf, m : buf = b /\ m = n
    OBVIOUS
  <2>3. /\ buf \in Seq(Replies) /\ buf = replybuf \o b /\ Last(buf).end /\ m \in DOMAIN buf
        /\ buf[m].start /\ Parse(b)
        /\ \A k \in DOMAIN buf : k > m => ~buf[k].start
    BY <1>4, <1>5, <2>1, <2>2
  <2>4. IF buf[m].code = "550U" THEN Dropped ELSE Caught(buf, buf[m].code)
    BY <2>3, ParseWhole
  <2> QED BY <2>2, <2>4
<1>7. CASE Dropped
  <2>1. OrderInv' /\ replybuf' = <<>>
    BY <1>1, <1>2, <1>7, DroppedOrder
  <2>2. TypeOK'
    BY <1>1, <1>2, <1>4, <1>7 DEF TypeOK, Dropped, never, catches
  <2> QED BY <1>1, <2>1, <2>2, <1>2, <1>4, UncutShape
<1>8. CASE Caught(b, b[n].code)
  <2>1. OrderInv' /\ told' \in Seq(Replies) /\ replybuf' = <<>>
    BY <1>1, <1>2, <1>4, <1>5, <1>8, CaughtOrder
  <2>2. TypeOK'
    BY <1>1, <1>4, <1>8, <2>1, CaughtTypes
  <2> QED BY <1>1, <2>1, <2>2, <1>2, <1>4, UncutShape
<1> QED BY <1>6, <1>7, <1>8

\* FDData keeps the invariant.
LEMMA FromSiteInv == ASSUME Inv, FromSite PROVE Inv'
<1>1. PICK n \in Blocks(downlink) :
         LET block == SubSeq(downlink, 1, n) IN
         /\ downlink' = SubSeq(downlink, n + 1, Len(downlink))
         /\ IF responsecatch = "NONE"
            THEN told' = told \o block /\ UNCHANGED <<catches, replybuf, mitm>>
            ELSE Parse(block)
         /\ UNCHANGED <<never, commandbuf, asked, uplink, site>>
  BY DEF FromSite
<1>2. Delivered(n)
  BY <1>1 DEF Delivered, Arrive, Blocks
<1>3. CASE responsecatch = "NONE"
  <2>1. PassOn(n)
    BY <1>1, <1>2, <1>3 DEF PassOn, Delivered
  <2> QED BY <2>1, PassOnInv
<1>4. CASE responsecatch # "NONE" /\ Split
  <2>1. Catching
    BY <1>4 DEF Inv, Shape, Leaving, Passing
  <2>2. Parse(SubSeq(downlink, 1, n)) /\ Arrive(n) /\ TypeOK
    BY <1>1, <1>2, <1>4 DEF Delivered, Inv
  <2>3. Skips \/ Halves(n) \/ Takes(n)
    BY <2>1, <2>2, ParseSplit
  <2> QED BY <1>2, <1>4, <2>1, <2>3, SkipsInv, HalvesInv, TakesInv
<1>5. CASE responsecatch # "NONE" /\ ~Split
  <2>1. Parse(SubSeq(downlink, 1, n))
    BY <1>1, <1>5
  <2> QED BY <1>2, <1>5, <2>1, UncutInv
<1> QED BY <1>3, <1>4, <1>5

-----------------------------------------------------------------------------
(* The invariant and what follows from it.                                 *)

\* activate() establishes the invariant.
LEMMA InvInit == Init => Inv
<1> SUFFICES ASSUME Init PROVE Inv
  OBVIOUS
<1>1. DOMAIN <<>> = {}
  OBVIOUS
<1>2. TypeOK
  <2>1. asked \in Seq(Commands) /\ Len(asked) = 0 /\ Len(asked) <= MaxCommands
    BY CommandsAssumption DEF Init
  <2>2. /\ commandbuf \in Seq(Pieces) /\ uplink \in Seq(Pieces) /\ site \in Seq(Lines)
        /\ replybuf \in Seq(Replies) /\ downlink \in Seq(Replies) /\ told \in Seq(Replies)
    BY DEF Init
  <2> QED BY <2>1, <2>2 DEF Init, TypeOK
<1>3. OrderInv
  BY <1>1 DEF Init, OrderInv, Ordered, Ahead, Owed, Unsent, Known
<1>4. Passing /\ Unsplit
  BY <1>1 DEF Init, Passing, Unsplit
<1>5. DataInv
  BY <1>1 DEF Init, DataInv
<1> QED BY <1>2, <1>3, <1>4, <1>5 DEF Inv, Shape

\* A step of something else keeps it.
LEMMA StutterInv == ASSUME Inv, UNCHANGED vars PROVE Inv'
<1> USE DEF vars, never, catches
<1>1. TypeOK'
  BY DEF Inv, TypeOK
<1>2. OrderInv'
  BY DEF Inv, OrderInv, Ordered, Ahead, After, Owed, Unsent, Known
<1>3. Shape'
  BY DEF Inv, Shape, Split, Leaving, Catching, Passing, Unsplit, Whole, Stray, Rows, Final, Start, Rest, Piece
<1>4. Split' = Split /\ (DataInv => DataInv')
  BY DEF Split, DataInv, Fits, Right, Coming, Settled, Expected
<1> QED BY <1>1, <1>2, <1>3, <1>4 DEF Inv

\* Every step keeps it.
LEMMA InvNext == ASSUME Inv, [Next]_vars PROVE Inv'
  BY ClientSendsInv, FromClientInv, SiteRepliesInv, FromSiteInv, StutterInv DEF Next

\* The streams lie in order and in one of the shapes that sendData and FDData leave,
\* and what a client that waits is told is right: the inductive invariant.
THEOREM Invariant == Spec => []Inv
<1>1. Init => Inv
  BY InvInit
<1>2. Inv /\ [Next]_vars => Inv'
  BY InvNext
<1> QED BY <1>1, <1>2, PTL DEF Spec

\* The members of BncSessionClient, the buffers of its two parsers and what is on
\* its way keep their types; the reply parser holds nothing unless a reply is caught.
THEOREM TypeCorrect == Spec => []TypeOK
<1>1. Inv => TypeOK
  BY DEF Inv
<1> QED BY <1>1, Invariant, PTL

\* Whether or not the client waits and whichever lines arrive together, replies come in
\* the order of the commands, and each once; so they do with lines cut, if it waits.
THEOREM AnsweredInStep == Spec => []InStep
<1>1. Inv => InStep
  BY DEF Inv, OrderInv, Ordered, After, InStep
<1> QED BY <1>1, Invariant, PTL

\* A client that waits is answered in the form it asked in.
THEOREM KindsMatch == Spec => []KindMatches
<1>1. Inv => KindMatches
  BY DEF Inv, DataInv, Split, Right, KindMatches
<1> QED BY <1>1, Invariant, PTL

\* A client that waits and does not ask for TLS again is told that TLS begins only
\* when the bouncer takes part in it.
THEOREM TlsIntercepted == ASSUME AuthOnce PROVE Spec => []Intercepted
<1>1. Inv => Intercepted
  BY DEF Inv, DataInv, Split, Right, Intercepted
<1> QED BY <1>1, Invariant, PTL

\* A client that waits is never told the site's address, nor the site the client's.
THEOREM StaysBounced == ASSUME "begun" \notin Manners PROVE Spec => []Bounced
<1>1. Inv => Bounced
  <2> SUFFICES ASSUME Inv, manner # "pipelines" PROVE Bounced
    BY DEF Bounced
  <2>1. Split /\ DataInv
    BY ClientAssumption DEF Inv, Split, TypeOK
  <2>2. ASSUME NEW k \in DOMAIN told, told[k].code \in {"227", "229"}
        PROVE  /\ asked[told[k].of] \in {"PASV", "EPSV 1", "EPSV 2"}
               /\ told[k].at = Asks(asked[told[k].of])
    <3>1. Right(told[k])
      BY <2>1 DEF DataInv
    <3> QED BY <2>2, <3>1 DEF Right, Kinds
  <2>3. \A k \in DOMAIN site : site[k].addr # "client"
    BY <2>1 DEF DataInv, Settled
  <2> QED BY <2>2, <2>3 DEF Bounced, Asks
<1> QED BY <1>1, Invariant, PTL
=============================================================================
