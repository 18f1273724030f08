------------------------- MODULE TlsConnectionProofs -------------------------
(***************************************************************************)
(* Proofs about TlsConnection: what OpenSSL still holds is offered again    *)
(* unchanged, the client receives the responses in order and whole, and a   *)
(* connection at rest is registered for what it waits for.                 *)
(***************************************************************************)
EXTENDS TlsConnection, ConnectionProofs

JobType == [fd : {0}, id : Nat, n : Nat, kind : DOMAIN Request, body : Seq(Token)]

\* Every variable stays in its type; records have something in them.
Types ==
  /\ pc \in {"wait", "accept", "read", "flush"}
  /\ conn \in ConnectionType \cup {NoConnection}
  /\ tls \in [complete : BOOLEAN, pending : {"None", "Accept", "Read", "Write"}]
  /\ transfer \in [size : Nat, buffer : Seq(Unit), buffered : Nat]
  /\ ssl \in [steps : Seq(Step), plain : Seq(Token), unsent : Seq(Unit)]
  /\ socket \in [inbox : Seq(Seq(Token \cup {"protocol"})), full : BOOLEAN, fin : BOOLEAN]
  /\ client \in [script : Seq(Seq(Token) \ {<<>>}), later : 0 .. MaxLater]
  /\ job \in JobType \cup {NoTask}
  /\ sent \in Seq(Unit)

\* The flags and the buffers of a connection agree, whatever its mask.
Loose(c) ==
  /\ c \in ConnectionType
  /\ ~(c.responsePending /\ Writing(c))
  /\ c.parsed = c.answered + (IF Busy(c) THEN 1 ELSE 0)
  /\ c.writeBuffer # NoResponse => c.writeBuffer.id = c.id /\ c.writeBuffer.n = c.answered + 1
  /\ ~Busy(c) => Incomplete(c)
  /\ c.requestBody # NoBody => ~Busy(c)

\* The same while a response is written, of which nothing may be left.
Flushing(c) ==
  /\ c \in ConnectionType
  /\ ~c.responsePending /\ c.requestBody = NoBody
  /\ c.parsed = c.answered + 1
  /\ c.writeBuffer # NoResponse => c.writeBuffer.id = c.id /\ c.writeBuffer.n = c.answered + 1

\* What a plain connection would be registered for.
Usual(c) == IF c.responsePending THEN "none" ELSE IF Writing(c) THEN "write" ELSE "read"

\* The loop, the session and the connection agree on what is going on.
Control ==
  /\ pc # "wait" => Open
  /\ Open =>
       /\ pc = "accept" => ~tls.complete
       /\ pc \in {"read", "flush"} => tls.complete
       /\ tls.complete <=> tls.pending # "Accept"
       /\ pc = "flush" => tls.pending = "None"
       /\ ~tls.complete \/ pc = "read" => ~Busy(conn)
       /\ IF pc = "flush" THEN Flushing(conn) ELSE Loose(conn)
       /\ pc = "wait" /\ tls.pending = "Read" => ~Busy(conn)
       /\ pc = "wait" /\ tls.pending = "Write" => Offered # <<>>

\* Between a client and a server in a handshake there are no requests.
Inbox ==
  IF Contains(ssl.steps, "recv")
    THEN socket.inbox = <<>> \/ (Expected /\ socket.inbox = << <<"protocol">> >>)
    ELSE \A i \in DOMAIN socket.inbox : socket.inbox[i] \in Seq(Token) \ {<<>>}

\* The mask is what OpenSSL or the connection waits for.
Session == Open =>
  /\ pc = "flush" /\ Offered = <<>> => ssl.steps = <<>>
  /\ pc = "wait" =>
      IF ssl.steps # <<>>
        THEN tls.pending # "None" /\ conn.interest = IF Expected THEN "read" ELSE "write"
        ELSE /\ tls.complete
             /\ \/ conn.interest = Usual(conn)
                \/ /\ conn.interest = "write" /\ conn.requestBody # NoBody
                   /\ client.later < MaxLater
  /\ tls.complete /\ ssl.steps # <<>> => client.later < MaxLater
  /\ tls.complete /\ pc # "flush" /\ ~Busy(conn) =>
       conn.interest = "read" \/ (conn.interest = "write" /\ client.later < MaxLater)
  /\ Inbox

\* How much of the file the client has: what was written of the buffer counts
\* at once.
Position ==
  FileSent + IF pc = "flush" /\ transfer.buffer # <<>>
               THEN transfer.buffered - Len(transfer.buffer) ELSE 0

\* No file is truncated while it is sent.
KeepsSize == FileShrinks = {FALSE}

\* What a response still owes of its file is not less than what is left to
\* send, and is just that if files keep their size.
Due(c) == c.owed >= c.fileTransfer /\ (KeepsSize => c.owed = c.fileTransfer)

\* The buffer of the transfer holds what follows in the file.
Files == Open =>
  /\ Due(conn)
  /\ conn.fileTransfer > 0 => conn.fileTransfer <= transfer.size
  /\ conn.writeBuffer # NoResponse /\ conn.fileTransfer > 0 => conn.fileTransfer = transfer.size
  /\ pc = "flush" /\ conn.writeBuffer # NoResponse => transfer.buffered = 0
  /\ transfer.buffer # <<>> =>
       /\ conn.writeBuffer = NoResponse
       /\ Len(transfer.buffer) <= conn.fileTransfer
       /\ pc = "flush" =>
            Len(transfer.buffer) <= transfer.buffered /\ transfer.buffered <= conn.fileTransfer
       /\ \A i \in 1 .. Len(transfer.buffer) :
            transfer.buffer[i] = <<conn.answered + 1, HeadUnits + Position + i>>

\* The text of a response is complete after this unit; nothing is, at first.
Ended(unit) == unit = <<0, 0>> \/ unit[2] >= HeadUnits

\* The units of a response follow one another, and responses do.
Follows(before, unit) ==
  \/ unit = <<unit[1], before[2] + 1>> /\ before[1] = unit[1]
  \/ unit = <<before[1] + 1, 1>> /\ Ended(before)

Before(s, i) == IF i = 1 THEN <<0, 0>> ELSE s[i - 1]

Ordered(s) == \A i \in 1 .. Len(s) : Follows(Before(s, i), s[i])

LastOf(s) == IF s = <<>> THEN <<0, 0>> ELSE s[Len(s)]

\* What has been written is in order, and ends where the connection says.
Order ==
  /\ Ordered(sent)
  /\ Open =>
       IF conn.writeBuffer # NoResponse
         THEN IF conn.writeBuffer.left = HeadUnits
                THEN LastOf(sent)[1] = conn.answered /\ Ended(LastOf(sent))
                ELSE LastOf(sent) = <<conn.answered + 1, HeadUnits - conn.writeBuffer.left>>
       ELSE IF conn.fileTransfer > 0
         THEN LastOf(sent) = <<conn.answered + 1, HeadUnits + Position>>
       ELSE /\ LastOf(sent)[1] = conn.answered + IF pc = "flush" THEN 1 ELSE 0
            /\ Ended(LastOf(sent))

\* A record OpenSSL holds is a part of what is offered.
Retry == Open /\ ssl.unsent # <<>> =>
  /\ \E n \in 1 .. Len(Offered) : ssl.unsent = SubSeq(Offered, 1, n)
  /\ pc = "flush" \/ (pc = "wait" /\ tls.pending = "Write")

\* The request of a pending connection, and no other, is with the pool.
Submitted == Open =>
  /\ job # NoTask <=> conn.responsePending
  /\ job # NoTask => job.id = conn.id /\ job.n = conn.parsed

Inv ==
  /\ Types
  /\ Control
  /\ Session
  /\ Files
  /\ Order
  /\ Retry
  /\ Submitted

----------------------------------------------------------------------------
(* Sequences *)

LEMMA SeqWiden ==
  ASSUME NEW S, NEW T, S \subseteq T, NEW s \in Seq(S)
  PROVE  s \in Seq(T)
OBVIOUS

LEMMA TailOf ==
  ASSUME NEW S, NEW s \in Seq(S), s # <<>>
  PROVE  /\ Head(s) \in S /\ Head(s) = s[1] /\ Tail(s) \in Seq(S)
         /\ Len(s) \in Nat \ {0} /\ Len(Tail(s)) = Len(s) - 1
         /\ \A i \in 1 .. Len(Tail(s)) : Tail(s)[i] = s[i + 1]
BY HeadTailProperties, EmptySeq

LEMMA PrefixOf ==
  ASSUME NEW S, NEW s \in Seq(S), NEW n \in 1 .. Len(s)
  PROVE  /\ SubSeq(s, 1, n) \in Seq(S) /\ Len(SubSeq(s, 1, n)) = n
         /\ \A i \in 1 .. n : SubSeq(s, 1, n)[i] = s[i]
         /\ SubSeq(s, n + 1, Len(s)) \in Seq(S)
         /\ Len(SubSeq(s, n + 1, Len(s))) = Len(s) - n
         /\ \A i \in 1 .. Len(s) - n : SubSeq(s, n + 1, Len(s))[i] = s[n + i]
<1>1. Len(s) \in Nat /\ n \in Nat
  BY LenProperties
<1>2. \A i \in 1 .. Len(s) : s[i] \in S
  BY ElementOfSeq
<1>3. SubSeq(s, 1, n) \in Seq(S) /\ Len(SubSeq(s, 1, n)) = n
      /\ \A i \in 1 .. n : SubSeq(s, 1, n)[i] = s[i]
  BY <1>1, <1>2, SubSeqProperties
<1>4. SubSeq(s, n + 1, Len(s)) \in Seq(S)
      /\ Len(SubSeq(s, n + 1, Len(s))) = Len(s) - n
      /\ \A i \in 1 .. Len(s) - n : SubSeq(s, n + 1, Len(s))[i] = s[n + i]
  BY <1>1, <1>2, SubSeqProperties
<1> QED
  BY <1>3, <1>4

LEMMA MinOfTwo ==
  ASSUME NEW m \in Nat, NEW n \in Nat
  PROVE  Min({m, n}) = IF m <= n THEN m ELSE n
<1> DEFINE k == IF m <= n THEN m ELSE n
<1>1. k \in {m, n} /\ \A y \in {m, n} : k <= y
  OBVIOUS
<1>2. \A x \in {m, n} : (\A y \in {m, n} : x <= y) => x = k
  OBVIOUS
<1> QED
  BY <1>1, <1>2 DEF Min

\* Units that follow the last one keep the order.
LEMMA OrderGrows ==
  ASSUME NEW s \in Seq(Unit), NEW t \in Seq(Unit), Ordered(s), t # <<>>,
         NEW m \in Nat, NEW base \in Nat,
         \A i \in 1 .. Len(t) : t[i] = <<m, base + i>>,
         LastOf(s) = <<m, base>> \/ (base = 0 /\ LastOf(s)[1] = m - 1 /\ Ended(LastOf(s)))
  PROVE  /\ s \o t \in Seq(Unit)
         /\ Ordered(s \o t)
         /\ LastOf(s \o t) = <<m, base + Len(t)>>
<1> DEFINE u == s \o t
<1>1. Len(s) \in Nat /\ Len(t) \in Nat \ {0}
  BY EmptySeq, LenProperties
<1>2. /\ u \in Seq(Unit) /\ Len(u) = Len(s) + Len(t)
      /\ \A i \in 1 .. Len(s) : u[i] = s[i]
      /\ \A i \in Len(s) + 1 .. Len(u) : u[i] = t[i - Len(s)]
  BY <1>1, ConcatProperties
<1> HIDE DEF u
<1>3. LastOf(u) = <<m, base + Len(t)>>
  <2>1. u # <<>>
    BY <1>1, <1>2
  <2>2. Len(u) \in Len(s) + 1 .. Len(u) /\ Len(u) - Len(s) = Len(t) /\ Len(t) \in 1 .. Len(t)
    BY <1>1, <1>2
  <2>3. u[Len(u)] = t[Len(t)]
    BY <1>2, <2>2
  <2> QED
    BY <2>1, <2>2, <2>3 DEF LastOf
<1>t. ASSUME NEW i \in Len(s) + 1 .. Len(u) PROVE u[i] = <<m, base + (i - Len(s))>>
  <2>1. i - Len(s) \in 1 .. Len(t) /\ u[i] = t[i - Len(s)]
    BY <1>1, <1>2
  <2> QED
    BY <2>1
<1>4. ASSUME NEW i \in 1 .. Len(u) PROVE Follows(Before(u, i), u[i])
  <2>1. CASE i <= Len(s)
    <3>1. i \in 1 .. Len(s) /\ u[i] = s[i]
      BY <1>1, <1>2, <2>1
    <3>2. Before(u, i) = Before(s, i)
      <4>1. ASSUME i # 1 PROVE u[i - 1] = s[i - 1]
        <5>1. i - 1 \in 1 .. Len(s)
          BY <1>1, <3>1, <4>1
        <5> QED
          BY <1>2, <5>1
      <4> QED
        BY <4>1 DEF Before
    <3>3. Follows(Before(s, i), s[i])
      BY <3>1 DEF Ordered
    <3> QED
      BY <3>1, <3>2, <3>3
  <2>2. CASE i = Len(s) + 1
    <3>1. u[i] = <<m, base + 1>>
      BY <1>1, <1>t, <2>2
    <3>2. Before(u, i) = LastOf(s)
      <4>1. CASE Len(s) = 0
        BY <2>2, <4>1, EmptySeq DEF LastOf, Before
      <4>2. CASE Len(s) # 0
        <5>1. Len(s) \in 1 .. Len(s) /\ s # <<>>
          BY <1>1, <4>2, EmptySeq
        <5>2. i - 1 = Len(s) /\ i # 1
          BY <1>1, <2>2, <4>2
        <5>3. u[i - 1] = s[Len(s)]
          BY <1>2, <5>1, <5>2
        <5> QED
          BY <5>1, <5>2, <5>3 DEF LastOf, Before
      <4> QED
        BY <4>1, <4>2
    <3>3. Follows(LastOf(s), u[i])
      <4>1. CASE LastOf(s) = <<m, base>>
        BY <3>1, <4>1 DEF Follows
      <4>2. CASE base = 0 /\ LastOf(s)[1] = m - 1 /\ Ended(LastOf(s))
        BY <3>1, <4>2 DEF Follows
      <4> QED
        BY <4>1, <4>2
    <3> QED
      BY <3>2, <3>3
  <2>3. CASE i > Len(s) + 1
    <3> DEFINE j == i - Len(s)
               before == u[i - 1]
    <3>1. j \in 2 .. Len(t) /\ i # 1
      BY <1>1, <1>2, <2>3
    <3>2. u[i] = <<m, base + j>>
      BY <1>1, <1>t, <2>3
    <3>3. before = <<m, base + (j - 1)>>
      <4>1. i - 1 \in Len(s) + 1 .. Len(u) /\ j - 1 = (i - 1) - Len(s) /\ j - 1 \in 1 .. Len(t)
        BY <1>1, <1>2, <2>3
      <4> QED
        BY <1>t, <4>1
    <3>4. base + j = (base + (j - 1)) + 1
      BY <3>1
    <3> HIDE DEF j, before
    <3>5. u[i][1] = m /\ before[1] = m /\ before[2] + 1 = base + j
      BY <3>2, <3>3, <3>4
    <3>6. Follows(before, u[i])
      BY <3>2, <3>5 DEF Follows
    <3> QED
      BY <3>1, <3>6 DEF before, Before
  <2> QED
    BY <1>1, <2>1, <2>2, <2>3
<1>5. Ordered(u)
  BY <1>4 DEF Ordered
<1> QED
  BY <1>2, <1>3, <1>5 DEF u

\* Every unit counts at least one of its response.
LEMMA UnitsCount ==
  ASSUME NEW s \in Seq(Unit), Ordered(s), NEW i \in 1 .. Len(s)
  PROVE  s[i] \in Unit /\ s[i] # <<0, 0>>
<1>1. Len(s) \in Nat /\ \A j \in 1 .. Len(s) : s[j] \in Unit
  BY LenProperties, ElementOfSeq
<1>2. Before(s, i) \in Unit
  <2>1. <<0, 0>> \in Unit
    BY DEF Unit
  <2>2. ASSUME i # 1 PROVE s[i - 1] \in Unit
    BY <1>1, <2>2
  <2> QED
    BY <2>1, <2>2 DEF Before
<1> DEFINE before == Before(s, i)
           unit   == s[i]
<1>3. Follows(before, unit)
  BY DEF Ordered
<1> HIDE DEF before
<1>4. before[2] \in Nat
  BY <1>2 DEF Unit, before
<1>5. unit[2] # 0
  BY <1>3, <1>4 DEF Follows
<1> QED
  BY <1>1, <1>5

\* What has been sent is a unit.
LEMMA LastUnit ==
  ASSUME NEW s \in Seq(Unit)
  PROVE  LastOf(s) \in Unit
<1>1. CASE s = <<>>
  BY <1>1 DEF LastOf, Unit
<1>2. CASE s # <<>>
  BY <1>2, LenProperties, EmptySeq, ElementOfSeq DEF LastOf
<1> QED
  BY <1>1, <1>2

----------------------------------------------------------------------------
(* The decisions of the handlers, on a connection with any mask *)

LEMMA SoundLoose ==
  ASSUME NEW c, Sound(c)
  PROVE  Loose(c) /\ c.interest = Usual(c)
<1>1. c.interest = Usual(c)
  BY DEF Sound, Usual
<1>2. ~Busy(c) => Incomplete(c)
  BY <1>1 DEF Sound, Usual, Busy
<1> QED
  BY <1>1, <1>2 DEF Sound, Loose

LEMMA WaitingLoose ==
  ASSUME NEW c, Ready(c), Incomplete(c)
  PROVE  Loose(c) /\ ~Busy(c) /\ ~c.responsePending
<1>1. c \in ConnectionType /\ ~Busy(c) /\ ~c.responsePending /\ c.writeBuffer = NoResponse
      /\ c.parsed = c.answered /\ c.answered \in Nat
  BY DEF Ready, Busy, Writing, ConnectionType
<1>2. c.parsed = c.answered + (IF Busy(c) THEN 1 ELSE 0)
  BY <1>1
<1> QED
  BY <1>1, <1>2 DEF Loose

\* After an SSL_read: the handler reads on, or waits for a body with the mask
\* it has, or it has decided.
LEMMA AfterRecvLoose ==
  ASSUME NEW c, Ready(c), NEW accepts
  PROVE  LET r == AfterRecv(c, accepts)
         IN  /\ Loose(r.conn) /\ SameFile(r.conn, c)
             /\ IF r.submit = NoTask THEN ~r.conn.responsePending
                ELSE r.conn.responsePending /\ r.submit \in SubmissionType
             /\ \/ Busy(r.conn) /\ r.conn.interest = Usual(r.conn)
                \/ /\ ~Busy(r.conn) /\ r.conn.interest = c.interest
                   /\ r.conn = c \/ r.conn.requestBody # NoBody
<1> DEFINE r == AfterRecv(c, accepts)
<1>0. \/ r = Outcome(Reject(c), NoTask, TRUE)
      \/ Incomplete(c) /\ r = Outcome(c, NoTask, FALSE)
      \/ c.requestBody # NoBody /\ BodyComplete(c) /\ r = ServeRequest(c, accepts)
      \/ c.requestBody = NoBody /\ HeaderLength(c.readBuffer) # 0 /\ r = ParseHeader(c, accepts)
  BY DEF AfterRecv, ProcessReadBuffer, Incomplete
<1> HIDE DEF r
<1>1. ASSUME Fine(r, c), Busy(r.conn)
      PROVE  /\ Loose(r.conn) /\ SameFile(r.conn, c)
             /\ IF r.submit = NoTask THEN ~r.conn.responsePending
                ELSE r.conn.responsePending /\ r.submit \in SubmissionType
             /\ r.conn.interest = Usual(r.conn)
  BY <1>1, SoundLoose DEF Fine
<1>2. CASE r = Outcome(Reject(c), NoTask, TRUE)
  <2>1. r.conn = Reject(c)
    BY <1>2 DEF Outcome
  <2> QED
    BY <1>1, <1>2, <2>1, RejectFine DEF r
<1>3. CASE Incomplete(c) /\ r = Outcome(c, NoTask, FALSE)
  <2>1. r.conn = c /\ r.submit = NoTask
    BY <1>3 DEF Outcome
  <2> QED
    BY <1>3, <2>1, WaitingLoose DEF SameFile, r
<1>4. CASE c.requestBody # NoBody /\ BodyComplete(c) /\ r = ServeRequest(c, accepts)
  BY <1>1, <1>4, ServeFine DEF r
<1>5. CASE c.requestBody = NoBody /\ HeaderLength(c.readBuffer) # 0 /\ r = ParseHeader(c, accepts)
  <2>1. CASE Fine(r, c) /\ Busy(r.conn)
    BY <1>1, <2>1 DEF r
  <2>2. CASE /\ Ready(r.conn) /\ r.conn.requestBody # NoBody /\ ~BodyComplete(r.conn)
             /\ SameFile(r.conn, c) /\ r.conn.interest = c.interest
             /\ r.submit = NoTask /\ r.ctl = FALSE
    <3>1. Incomplete(r.conn)
      BY <2>2 DEF Incomplete
    <3> QED
      BY <2>2, <3>1, WaitingLoose DEF r
  <2> QED
    BY <1>5, <2>1, <2>2, ParseFine
<1> QED
  BY <1>0, <1>2, <1>3, <1>4, <1>5

\* A handler that answers fills the write buffer with a whole response, and
\* counts none as answered.
Whole(d, c) ==
  /\ d.answered = c.answered
  /\ d.writeBuffer # NoResponse => d.writeBuffer.left = HeadUnits

LEMMA RespondWhole ==
  ASSUME NEW c, NEW d \in ConnectionType, d.answered = c.answered,
         NEW id, NEW n, NEW keepAlive, NEW close
  PROVE  Whole(Respond(d, id, n, keepAlive, close), c)
BY DEF Whole, Respond, ConnectionType

LEMMA RejectWhole ==
  ASSUME NEW c, Ready(c)
  PROVE  Whole(Reject(c), c)
<1> DEFINE n == c.parsed + 1
           d == [c EXCEPT !.parsed = n, !.requestBody = NoBody]
<1>1. d \in ConnectionType /\ d.answered = c.answered
  <2>1. n \in Nat
    BY DEF Ready, ConnectionType
  <2> HIDE DEF n
  <2> QED
    BY <2>1 DEF Ready, ConnectionType
<1>2. Reject(c) = Respond(d, c.id, n, FALSE, TRUE)
  BY DEF Reject
<1> HIDE DEF d, n
<1> QED
  BY <1>1, <1>2, RespondWhole

LEMMA ServeWhole ==
  ASSUME NEW c, Ready(c), c.requestBody # NoBody, BodyComplete(c), NEW accepts
  PROVE  Whole(ServeRequest(c, accepts).conn, c)
<1> DEFINE d == Consume(c)
           kind == Parsed[c.requestBody.kind]
<1>1. d \in ConnectionType /\ d.answered = c.answered /\ d.writeBuffer = NoResponse
  <2>1. d \in ConnectionType /\ ~Busy(d)
    BY ConsumeReady
  <2>2. d.answered = c.answered
    BY DEF Consume, Ready, ConnectionType
  <2> QED
    BY <2>1, <2>2 DEF Busy, Writing
<1> HIDE DEF d, kind
<1>2. \/ ServeRequest(c, accepts).conn = Respond(d, c.id, d.parsed, kind.keepAlive, ~kind.keepAlive)
      \/ ServeRequest(c, accepts).conn = Pending(d)
      \/ ServeRequest(c, accepts).conn = Refused(Pending(d))
  BY DEF ServeRequest, Outcome, d, kind
<1>3. Pending(d) \in ConnectionType /\ Whole(Pending(d), c)
  BY <1>1 DEF Pending, ConnectionType, Whole
<1>4. Whole(Refused(Pending(d)), c)
  <2> DEFINE e == [Pending(d) EXCEPT !.responsePending = FALSE]
  <2>1. e \in ConnectionType /\ e.answered = c.answered
    BY <1>3 DEF ConnectionType, Whole
  <2> HIDE DEF e
  <2> QED
    BY <2>1, RespondWhole DEF Refused, e
<1> QED
  BY <1>1, <1>2, <1>3, <1>4, RespondWhole

LEMMA ParseWhole ==
  ASSUME NEW c, Ready(c), c.requestBody = NoBody, HeaderLength(c.readBuffer) # 0, NEW accepts
  PROVE  Whole(ParseHeader(c, accepts).conn, c)
<1> DEFINE length == HeaderLength(c.readBuffer)
           token == c.readBuffer[length]
           kind == Parsed[token]
           b == [kind |-> token, headerLength |-> length,
                 bodyLength |-> IF kind.post THEN kind.bodyLength ELSE 0]
           d == [c EXCEPT !.requestBody = b]
           r == ParseHeader(c, accepts)
<1>1. length \in Nat /\ token \in DOMAIN Request
  <2>1. c.readBuffer \in Seq(Token)
    BY DEF Ready, ConnectionType
  <2> QED
    BY <2>1, HeaderEnds, LenProperties
<1>2. kind \in KindType
  BY <1>1, ParsedType
<1> HIDE DEF length, token, kind
<1>3. b \in [kind : DOMAIN Request, headerLength : Nat, bodyLength : Nat] /\ b # NoBody
  BY <1>1, <1>2, Absent DEF KindType
<1> HIDE DEF b
<1>4. Ready(d) /\ d.requestBody # NoBody /\ d.answered = c.answered /\ d.writeBuffer = c.writeBuffer
  BY <1>3 DEF Ready, ConnectionType, Busy, Writing
<1> HIDE DEF d
<1>5. \/ r.conn = Reject(c)
      \/ BodyComplete(d) /\ r.conn = ServeRequest(d, accepts).conn
      \/ r.conn = d
  BY DEF ParseHeader, Outcome, length, token, kind, b, d
<1>6. Whole(d, c)
  BY <1>4 DEF Ready, Busy, Writing, Whole
<1>7. BodyComplete(d) => Whole(ServeRequest(d, accepts).conn, c)
  BY <1>4, ServeWhole DEF Whole
<1> QED
  BY <1>5, <1>6, <1>7, RejectWhole

LEMMA AfterRecvWhole ==
  ASSUME NEW c, Ready(c), NEW accepts
  PROVE  Whole(AfterRecv(c, accepts).conn, c)
<1>1. Whole(c, c)
  BY DEF Whole, Ready, Busy, Writing
<1>2. \/ AfterRecv(c, accepts).conn = Reject(c)
      \/ AfterRecv(c, accepts).conn = c
      \/ /\ c.requestBody # NoBody /\ BodyComplete(c)
         /\ AfterRecv(c, accepts) = ServeRequest(c, accepts)
      \/ /\ c.requestBody = NoBody /\ HeaderLength(c.readBuffer) # 0
         /\ AfterRecv(c, accepts) = ParseHeader(c, accepts)
  BY DEF AfterRecv, ProcessReadBuffer, Outcome
<1> QED
  BY <1>1, <1>2, RejectWhole, ServeWhole, ParseWhole

LEMMA NextRequestWhole ==
  ASSUME NEW c, Ready(c), c.requestBody = NoBody, NEW accepts
  PROVE  Whole(NextRequest(c, accepts).conn, c)
<1> DEFINE p == ParseHeader(c, accepts).conn
           r == NextRequest(c, accepts).conn
<1>1. Whole([c EXCEPT !.interest = "read"], c)
  BY DEF Whole, Ready, Busy, Writing, ConnectionType
<1>2. \/ r = Reject(c)
      \/ r = [c EXCEPT !.interest = "read"]
      \/ /\ HeaderLength(c.readBuffer) # 0
         /\ r = p \/ r = [p EXCEPT !.interest = "read"]
  BY DEF NextRequest, ProcessReadBuffer, Outcome
<1>3. CASE /\ HeaderLength(c.readBuffer) # 0
           /\ r = p \/ r = [p EXCEPT !.interest = "read"]
  <2>1. Whole(p, c)
    BY <1>3, ParseWhole
  <2>2. p \in ConnectionType
    BY <1>3, ParseFine DEF Fine, Sound, Ready
  <2> HIDE DEF p
  <2>3. Whole([p EXCEPT !.interest = "read"], c)
    BY <2>1, <2>2 DEF Whole, ConnectionType
  <2> QED
    BY <1>3, <2>1, <2>3
<1> QED
  BY <1>1, <1>2, <1>3, RejectWhole

LEMMA InstallWhole ==
  ASSUME NEW c \in ConnectionType, NEW m, CompletionFor(m, c), NEW opened
  PROVE  LET d == Install(c, m, opened)
         IN  Whole(d, c) /\ d.writeBuffer # NoResponse /\ d.parsed = c.parsed
             /\ d.requestBody = c.requestBody
<1> DEFINE file == IF opened THEN m.file ELSE 0
           text == [id |-> m.id, n |-> m.n, keepAlive |-> m.keepAlive, left |-> HeadUnits]
           d == Install(c, m, opened)
<1>1. text \in Response /\ text # NoResponse /\ text.left = HeadUnits
  <2>1. text \in Response
    BY ConnectionAssumption DEF Response, CompletionFor, ConnectionType
  <2> QED
    BY <2>1, Absent
<1>2. d = [c EXCEPT !.responsePending = FALSE, !.writeBuffer = text,
                    !.closeAfterWrite = m.closeAfterWrite, !.interest = "write",
                    !.fileTransfer = file, !.owed = file]
  BY DEF Install, Respond
<1> HIDE DEF text, file, d
<1> QED
  BY <1>1, <1>2 DEF Whole, ConnectionType, d

----------------------------------------------------------------------------
(* The steps *)

LEMMA OpenType == ASSUME Types, Open PROVE conn \in ConnectionType
BY DEF Types, Open

LEMMA InitInv == ASSUME Init PROVE Inv
<1>1. /\ pc = "wait" /\ conn = NewConnection(1) /\ tls = [complete |-> FALSE, pending |-> "Accept"]
      /\ transfer = [size |-> 0, buffer |-> <<>>, buffered |-> 0]
      /\ ssl = [steps |-> Flight, plain |-> <<>>, unsent |-> <<>>]
      /\ socket = [inbox |-> <<>>, full |-> FALSE, fin |-> FALSE]
      /\ job = NoTask /\ sent = <<>>
  BY DEF Init
<1>2. PICK script \in Script : client = [script |-> script, later |-> MaxLater]
  BY DEF Init
<1>3. /\ Sound(conn) /\ conn.id = 1 /\ conn.interest = "read" /\ ~conn.responsePending
      /\ conn.fileTransfer = 0 /\ conn.owed = 0 /\ conn \in ConnectionType
  BY <1>1, NewSound DEF Sound
<1>4. conn.writeBuffer = NoResponse /\ conn.answered = 0 /\ conn.readBuffer = <<>>
  BY <1>1 DEF NewConnection
<1>5. Flight # <<>> /\ Head(Flight) = "recv" /\ Flight \in Seq(Step)
  BY TlsAssumption
<1>6. Types
  <2>1. \A S : <<>> \in Seq(S)
    OBVIOUS
  <2>2. script \in Seq(Seq(Token) \ {<<>>})
    BY TlsAssumption
  <2>3. MaxLater \in 0 .. MaxLater
    BY TlsAssumption
  <2> QED
    BY <1>1, <1>2, <1>3, <1>5, <2>1, <2>2, <2>3 DEF Types
<1>7. Control
  <2>1. ~Busy(conn) /\ Loose(conn)
    BY <1>3, <1>4, SoundLoose DEF Busy, Writing
  <2> QED
    BY <1>1, <2>1 DEF Control
<1>8. Session
  <2>1. Inbox
    <3>1. \A i \in DOMAIN socket.inbox : FALSE
      BY <1>1
    <3> QED
      BY <1>1, <3>1 DEF Inbox
  <2>2. Expected
    BY <1>1, <1>5 DEF Expected
  <2> QED
    BY <1>1, <1>3, <1>5, <2>1, <2>2 DEF Session
<1>9. Files
  BY <1>1, <1>3 DEF Files, Due
<1>10. Order
  <2>1. Ordered(sent) /\ LastOf(sent)[1] = 0 /\ Ended(LastOf(sent))
    BY <1>1 DEF Ordered, LastOf, Ended
  <2> QED
    BY <1>1, <1>3, <1>4, <2>1 DEF Order
<1>11. Retry
  BY <1>1 DEF Retry
<1>12. Submitted
  BY <1>1, <1>3 DEF Submitted
<1> QED
  BY <1>6, <1>7, <1>8, <1>9, <1>10, <1>11, <1>12 DEF Inv

\* Nothing is claimed of a connection that is closed.
LEMMA CloseStep == ASSUME Inv, Close PROVE Inv'
<1>1. conn' = NoConnection /\ pc' = "wait"
      /\ UNCHANGED <<tls, transfer, ssl, socket, client, job, sent>>
  BY DEF Close
<1>2. ~Open'
  BY <1>1 DEF Open
<1>3. Types' /\ Ordered(sent')
  BY <1>1 DEF Inv, Types, Order
<1> QED
  BY <1>1, <1>2, <1>3 DEF Inv, Control, Session, Files, Order, Retry, Submitted

\* What the client and the kernel do changes nothing but what has come.
LEMMA ClientInv ==
  ASSUME Inv, ClientStep, Types', Open => Inbox', client'.later = client.later
  PROVE  Inv'
<1>1. UNCHANGED <<pc, conn, tls, transfer, ssl, job, sent>>
  BY DEF ClientStep
<1>2. Offered' = Offered /\ Position' = Position /\ Open' = Open /\ Expected' = Expected
  BY <1>1 DEF Offered, Position, FileSent, Open, Expected
<1>3. Control'
  BY <1>1, <1>2 DEF Inv, Control
<1>4. Session'
  BY <1>1, <1>2 DEF Inv, Session
<1>5. Files' /\ Order' /\ Retry' /\ Submitted'
  BY <1>1, <1>2 DEF Inv, Files, Order, Retry, Submitted
<1> QED
  BY <1>3, <1>4, <1>5 DEF Inv

LEMMA ClientStepsInv == ASSUME Inv, ClientSteps PROVE Inv'
<1>1. socket \in [inbox : Seq(Seq(Token \cup {"protocol"})), full : BOOLEAN, fin : BOOLEAN]
      /\ client \in [script : Seq(Seq(Token) \ {<<>>}), later : 0 .. MaxLater]
  BY DEF Inv, Types
<1>2. CASE SendProtocol
  <2>1. /\ Expected /\ socket' = [socket EXCEPT !.inbox = << <<"protocol">> >>]
        /\ client' = client /\ ClientStep
    BY <1>2 DEF SendProtocol
  <2>2. << <<"protocol">> >> \in Seq(Seq(Token \cup {"protocol"}))
    OBVIOUS
  <2>3. Types'
    BY <1>1, <2>1, <2>2 DEF Inv, Types, ClientStep
  <2>4. Inbox'
    <3>1. Contains(ssl.steps, "recv")
      <4>1. ssl.steps \in Seq(Step) /\ ssl.steps # <<>> /\ Head(ssl.steps) = "recv"
        BY <2>1 DEF Expected, Inv, Types
      <4> QED
        BY <4>1, TailOf DEF Contains
    <3>2. ssl' = ssl /\ Expected' /\ socket'.inbox = << <<"protocol">> >>
      BY <1>1, <2>1 DEF ClientStep, Expected
    <3> QED
      BY <3>1, <3>2 DEF Inbox
  <2> QED
    BY <2>1, <2>3, <2>4, ClientInv
<1>3. CASE SendRecord
  <2>1. /\ ~Contains(ssl.steps, "recv") /\ client.script # <<>> /\ ClientStep
        /\ socket' = [socket EXCEPT !.inbox = Append(@, Head(client.script))]
        /\ client' = [client EXCEPT !.script = Tail(@)]
    BY <1>3 DEF SendRecord
  <2> DEFINE record == Head(client.script)
             inbox == Append(socket.inbox, record)
  <2>2. record \in Seq(Token) \ {<<>>} /\ Tail(client.script) \in Seq(Seq(Token) \ {<<>>})
    BY <1>1, <2>1, TailOf
  <2>3. record \in Seq(Token \cup {"protocol"})
    BY <2>2, SeqWiden
  <2> HIDE DEF record
  <2>4. /\ inbox \in Seq(Seq(Token \cup {"protocol"}))
        /\ \A i \in DOMAIN inbox : (i \in DOMAIN socket.inbox /\ inbox[i] = socket.inbox[i]) \/ inbox[i] = record
    BY <1>1, <2>3, AppendProperties
  <2> HIDE DEF inbox
  <2>5. Types'
    <3>1. socket' \in [inbox : Seq(Seq(Token \cup {"protocol"})), full : BOOLEAN, fin : BOOLEAN]
      BY <1>1, <2>1, <2>4 DEF inbox, record
    <3>2. client' \in [script : Seq(Seq(Token) \ {<<>>}), later : 0 .. MaxLater]
      BY <1>1, <2>1, <2>2
    <3> QED
      BY <2>1, <3>1, <3>2 DEF Inv, Types, ClientStep
  <2>6. ASSUME Open PROVE Inbox'
    <3>1. \A i \in DOMAIN socket.inbox : socket.inbox[i] \in Seq(Token) \ {<<>>}
      BY <2>1, <2>6 DEF Inv, Session, Inbox
    <3>2. ssl' = ssl /\ socket'.inbox = inbox
      BY <1>1, <2>1 DEF ClientStep, inbox, record
    <3> QED
      BY <2>1, <2>2, <2>4, <3>1, <3>2 DEF Inbox
  <2>7. client'.later = client.later
    BY <1>1, <2>1
  <2> QED
    BY <2>1, <2>5, <2>6, <2>7, ClientInv
<1>4. CASE Receive
  <2>1. socket' = [socket EXCEPT !.full = FALSE] /\ client' = client /\ ClientStep
    BY <1>4 DEF Receive
  <2>2. Types'
    BY <1>1, <2>1 DEF Inv, Types, ClientStep
  <2>3. ASSUME Open PROVE Inbox'
    <3>1. ssl' = ssl /\ socket'.inbox = socket.inbox
      BY <1>1, <2>1 DEF ClientStep
    <3> QED
      BY <2>3, <3>1 DEF Inbox, Expected, Inv, Session
  <2> QED
    BY <2>1, <2>2, <2>3, ClientInv
<1>5. CASE HalfClose
  <2>1. /\ socket' = [socket EXCEPT !.fin = TRUE]
        /\ client' = [client EXCEPT !.script = <<>>] /\ ClientStep
    BY <1>5 DEF HalfClose
  <2>2. Types'
    <3>1. <<>> \in Seq(Seq(Token) \ {<<>>})
      OBVIOUS
    <3> QED
      BY <1>1, <2>1, <3>1 DEF Inv, Types, ClientStep
  <2>3. ASSUME Open PROVE Inbox'
    <3>1. ssl' = ssl /\ socket'.inbox = socket.inbox
      BY <1>1, <2>1 DEF ClientStep
    <3> QED
      BY <2>3, <3>1 DEF Inbox, Expected, Inv, Session
  <2>4. client'.later = client.later
    BY <1>1, <2>1
  <2> QED
    BY <2>1, <2>2, <2>3, <2>4, ClientInv
<1> QED
  BY <1>2, <1>3, <1>4, <1>5 DEF ClientSteps

\* OpenSSL goes on with a handshake, whose steps and messages are known.
LEMMA ProtocolStepInv == ASSUME Inv, ProtocolStep PROVE Inv'
<1> DEFINE steps == ssl.steps
           inbox == socket.inbox
<1>1. /\ ssl \in [steps : Seq(Step), plain : Seq(Token), unsent : Seq(Unit)]
      /\ socket \in [inbox : Seq(Seq(Token \cup {"protocol"})), full : BOOLEAN, fin : BOOLEAN]
  BY DEF Inv, Types
<1>2. /\ Calling /\ steps # <<>>
      /\ UNCHANGED <<pc, conn, tls, transfer, client, job, sent>>
      /\ ssl' = [ssl EXCEPT !.steps = Tail(steps)]
  BY DEF ProtocolStep
<1>3. /\ steps \in Seq(Step) /\ Tail(steps) \in Seq(Step) /\ Head(steps) = steps[1]
      /\ Len(steps) \in Nat \ {0} /\ Len(Tail(steps)) = Len(steps) - 1
      /\ \A i \in 1 .. Len(Tail(steps)) : Tail(steps)[i] = steps[i + 1]
  BY <1>1, <1>2, TailOf
<1>4. /\ ssl' \in [steps : Seq(Step), plain : Seq(Token), unsent : Seq(Unit)]
      /\ ssl'.steps = Tail(steps) /\ ssl'.plain = ssl.plain /\ ssl'.unsent = ssl.unsent
  BY <1>1, <1>2, <1>3
<1>5. \/ /\ Head(steps) = "recv" /\ inbox # <<>> /\ socket'.inbox = Tail(inbox)
         /\ socket' \in [inbox : Seq(Seq(Token \cup {"protocol"})), full : BOOLEAN, fin : BOOLEAN]
      \/ /\ Head(steps) = "send" /\ socket'.inbox = inbox
         /\ socket' \in [inbox : Seq(Seq(Token \cup {"protocol"})), full : BOOLEAN, fin : BOOLEAN]
  <2>1. CASE Head(steps) = "recv" /\ inbox # <<>> /\ socket' = [socket EXCEPT !.inbox = Tail(inbox)]
    <3>1. Tail(inbox) \in Seq(Seq(Token \cup {"protocol"}))
      BY <1>1, <2>1, TailOf
    <3> QED
      BY <1>1, <2>1, <3>1
  <2>2. ASSUME Head(steps) = "send", NEW full \in BOOLEAN, socket' = [socket EXCEPT !.full = full]
        PROVE  socket'.inbox = inbox
               /\ socket' \in [inbox : Seq(Seq(Token \cup {"protocol"})), full : BOOLEAN, fin : BOOLEAN]
    BY <1>1, <2>2
  <2> QED
    BY <2>1, <2>2 DEF ProtocolStep
<1>6. Contains(Tail(steps), "recv") => Contains(steps, "recv")
  <2>1. \A i \in 1 .. Len(Tail(steps)) : i + 1 \in 1 .. Len(steps)
    BY <1>3
  <2> QED
    BY <1>3, <2>1 DEF Contains
<1>7. ASSUME Contains(steps, "recv"), Head(steps) = "send" PROVE Contains(Tail(steps), "recv")
  <2>1. PICK i \in 1 .. Len(steps) : steps[i] = "recv"
    BY <1>7 DEF Contains
  <2>2. i # 1
    BY <1>3, <1>7, <2>1
  <2>3. i - 1 \in 1 .. Len(Tail(steps))
    BY <1>3, <2>1, <2>2
  <2>4. Tail(steps)[i - 1] = "recv"
    BY <1>3, <2>1, <2>3
  <2> QED
    BY <2>3, <2>4 DEF Contains
<1> HIDE DEF steps, inbox
<1>8. Types'
  BY <1>2, <1>4, <1>5 DEF Inv, Types
<1>9. Offered' = Offered /\ Position' = Position /\ Open' = Open
  BY <1>2 DEF Offered, Position, FileSent, Open
<1>10. Control'
  BY <1>2, <1>9 DEF Inv, Control
<1>11. ASSUME Open PROVE Inbox'
  <2>1. IF Contains(steps, "recv")
          THEN inbox = <<>> \/ (Head(steps) = "recv" /\ inbox = << <<"protocol">> >>)
          ELSE \A i \in DOMAIN inbox : inbox[i] \in Seq(Token) \ {<<>>}
    BY <1>11 DEF Inv, Session, Inbox, Expected, steps, inbox
  <2>2. CASE Head(steps) = "recv" /\ inbox # <<>> /\ socket'.inbox = Tail(inbox)
    <3>1. Contains(steps, "recv")
      BY <1>3, <2>2 DEF Contains
    <3>2. inbox = << <<"protocol">> >>
      BY <2>1, <2>2, <3>1
    <3>3. Tail(inbox) = <<>>
      BY <3>2
    <3>4. socket'.inbox = <<>>
      BY <2>2, <3>3
    <3> QED
      BY <3>4 DEF Inbox
  <2>3. CASE Head(steps) = "send" /\ socket'.inbox = inbox
    <3>1. CASE Contains(steps, "recv")
      <4>1. inbox = <<>> /\ Contains(ssl'.steps, "recv")
        BY <1>4, <1>7, <2>1, <2>3, <3>1
      <4> QED
        BY <2>3, <4>1 DEF Inbox
    <3>2. CASE ~Contains(steps, "recv")
      <4>1. ~Contains(ssl'.steps, "recv")
        BY <1>4, <1>6, <3>2
      <4> QED
        BY <2>1, <2>3, <3>2, <4>1 DEF Inbox
    <3> QED
      BY <3>1, <3>2
  <2> QED
    BY <1>5, <2>2, <2>3
<1>12. Session'
  <2>1. pc # "wait" /\ (pc = "flush" /\ Offered = <<>> => ssl.steps = <<>> \/ ~Open)
    BY <1>2 DEF Calling, Inv, Session
  <2> QED
    BY <1>2, <1>9, <1>11, <2>1 DEF Inv, Session, steps
<1>13. Files' /\ Order' /\ Retry' /\ Submitted'
  BY <1>2, <1>4, <1>9 DEF Inv, Files, Order, Retry, Submitted
<1> QED
  BY <1>8, <1>10, <1>12, <1>13 DEF Inv

LEMMA LaterInv == ASSUME Inv, Later PROVE Inv'
<1>1. /\ ssl \in [steps : Seq(Step), plain : Seq(Token), unsent : Seq(Unit)]
      /\ client \in [script : Seq(Seq(Token) \ {<<>>}), later : 0 .. MaxLater]
      /\ MaxLater \in Nat
  BY TlsAssumption DEF Inv, Types
<1>2. /\ pc = "read" \/ (pc = "flush" /\ Offered # <<>>)
      /\ ssl.steps = <<>> /\ ssl.unsent = <<>> /\ client.later > 0
      /\ client' = [client EXCEPT !.later = @ - 1]
      /\ UNCHANGED <<pc, conn, tls, transfer, socket, job, sent>>
  BY DEF Later
<1>3. PICK flight \in LaterFlight :
        /\ Contains(flight, "recv") => socket.inbox = <<>> /\ ssl.plain = <<>>
        /\ ssl' = [ssl EXCEPT !.steps = flight]
  BY DEF Later
<1>4. flight \in Seq(Step) /\ flight # <<>>
  BY TlsAssumption
<1>5. ssl' \in [steps : Seq(Step), plain : Seq(Token), unsent : Seq(Unit)]
      /\ ssl'.steps = flight /\ ssl'.unsent = <<>>
  BY <1>1, <1>2, <1>3, <1>4
<1>6. client' \in [script : Seq(Seq(Token) \ {<<>>}), later : 0 .. MaxLater]
      /\ client'.later < MaxLater /\ client'.later < client.later
  <2> DEFINE n == client.later - 1
  <2>1. n \in 0 .. MaxLater /\ n < MaxLater /\ n < client.later
    BY <1>1, <1>2
  <2>2. client' = [client EXCEPT !.later = n]
    BY <1>2
  <2> HIDE DEF n
  <2>3. client' \in [script : Seq(Seq(Token) \ {<<>>}), later : 0 .. MaxLater]
        /\ client'.later = n
    BY <1>1, <2>1, <2>2
  <2> QED
    BY <2>1, <2>3
<1>7. Types'
  BY <1>2, <1>5, <1>6 DEF Inv, Types
<1>8. Offered' = Offered /\ Position' = Position /\ Open' = Open
  BY <1>2 DEF Offered, Position, FileSent, Open
<1>9. Control'
  BY <1>2, <1>8 DEF Inv, Control
<1>10. ASSUME Open PROVE Inbox'
  <2>1. ~Contains(ssl.steps, "recv")
    BY <1>2 DEF Contains
  <2>2. \A i \in DOMAIN socket.inbox : socket.inbox[i] \in Seq(Token) \ {<<>>}
    BY <1>10, <2>1 DEF Inv, Session, Inbox
  <2> QED
    BY <1>2, <1>3, <1>5, <2>2 DEF Inbox
<1>11. Session'
  <2>1. pc # "wait"
    BY <1>2
  <2> QED
    BY <1>2, <1>6, <1>8, <1>10, <2>1 DEF Inv, Session
<1>12. Files' /\ Order' /\ Retry' /\ Submitted'
  BY <1>2, <1>5, <1>8 DEF Inv, Files, Order, Retry, Submitted
<1> QED
  BY <1>7, <1>9, <1>11, <1>12 DEF Inv

\* A handler that gives up, or begins, with another mask or another pending
\* operation: what it has of the response stays.
LEMMA MaskInv ==
  ASSUME Inv, Open, pc # "flush", pc' # "flush", pc' \in {"wait", "accept", "read", "flush"},
         NEW interest \in {"read", "write", "none"},
         conn' = [conn EXCEPT !.interest = interest],
         tls' \in [complete : BOOLEAN, pending : {"None", "Accept", "Read", "Write"}],
         UNCHANGED <<transfer, ssl, socket, client, job, sent>>
  PROVE  /\ Open' /\ conn'.interest = interest /\ Offered' = Offered
         /\ Busy(conn') = Busy(conn) /\ Usual(conn') = Usual(conn)
         /\ Loose(conn') /\ conn'.requestBody = conn.requestBody
         /\ Types' /\ Files' /\ Order' /\ Submitted' /\ (Inbox' <=> Inbox)
<1>1. conn \in ConnectionType /\ Loose(conn)
  BY OpenType DEF Inv, Control
<1>2. /\ conn' \in ConnectionType /\ conn'.interest = interest
      /\ conn'.id = conn.id /\ conn'.responsePending = conn.responsePending
      /\ conn'.writeBuffer = conn.writeBuffer /\ conn'.fileTransfer = conn.fileTransfer
      /\ conn'.owed = conn.owed /\ conn'.parsed = conn.parsed /\ conn'.answered = conn.answered
      /\ conn'.requestBody = conn.requestBody /\ conn'.readBuffer = conn.readBuffer
  BY <1>1 DEF ConnectionType
<1>3. Open'
  BY <1>2, Absent DEF Open
<1>4. Busy(conn') = Busy(conn) /\ Writing(conn') = Writing(conn) /\ Usual(conn') = Usual(conn)
  BY <1>2 DEF Busy, Writing, Usual
<1>5. Loose(conn')
  BY <1>1, <1>2, <1>4 DEF Loose, Incomplete, BodyComplete
<1>6. Offered' = Offered /\ Position' = Position
  BY <1>2 DEF Offered, Text, Position, FileSent
<1>7. Types'
  BY <1>2 DEF Inv, Types
<1>8. Files'
  <2>1. Due(conn) => Due(conn')
    BY <1>2 DEF Due
  <2> QED
    BY <1>2, <1>6, <2>1 DEF Inv, Files
<1>9. Order'
  BY <1>2, <1>6 DEF Inv, Order
<1>10. Submitted'
  BY <1>2 DEF Inv, Submitted, Open
<1>11. Inbox' <=> Inbox
  BY DEF Inbox, Expected
<1> QED
  BY <1>2, <1>3, <1>4, <1>5, <1>6, <1>7, <1>8, <1>9, <1>10, <1>11

\* While nothing is offered, no record is held.
LEMMA HeldOffered ==
  ASSUME Inv, Open, pc # "flush", ~Busy(conn)
  PROVE  /\ transfer.buffer = <<>> /\ Offered = <<>> /\ ssl.unsent = <<>> /\ job = NoTask
         /\ tls.pending # "Write" \/ pc # "wait"
<1>1. conn.writeBuffer = NoResponse /\ conn.fileTransfer \in Nat /\ ~(conn.fileTransfer > 0)
      /\ ~conn.responsePending
  BY OpenType DEF Inv, Busy, Writing, ConnectionType
<1>2. transfer.buffer \in Seq(Unit)
  BY DEF Inv, Types
<1>3. transfer.buffer = <<>>
  <2>1. SUFFICES ASSUME transfer.buffer # <<>> PROVE FALSE
    OBVIOUS
  <2>2. Len(transfer.buffer) <= conn.fileTransfer
    BY <2>1 DEF Inv, Files
  <2>3. Len(transfer.buffer) \in Nat \ {0}
    BY <1>2, <2>1, EmptySeq, LenProperties
  <2> QED
    BY <1>1, <2>2, <2>3
<1>4. Offered = <<>>
  BY <1>1, <1>3 DEF Offered
<1>5. tls.pending # "Write" \/ pc # "wait"
  BY <1>4 DEF Inv, Control
<1>6. ssl.unsent = <<>>
  BY <1>5 DEF Inv, Retry
<1>7. job = NoTask
  BY <1>1 DEF Inv, Submitted
<1> QED
  BY <1>3, <1>4, <1>5, <1>6, <1>7

LEMMA BeginHandshakeInv == ASSUME Inv, BeginHandshake PROVE Inv'
<1>1. /\ pc = "wait" /\ Open /\ pc' = "accept" /\ ~tls.complete
      /\ UNCHANGED <<conn, tls, transfer, ssl, socket, client, job, sent>>
  BY DEF BeginHandshake, Handles
<1>2. ~Busy(conn) /\ tls.pending = "Accept"
  BY <1>1 DEF Inv, Control, Types
<1>3. ssl.unsent = <<>>
  BY <1>1, <1>2, HeldOffered
<1>4. Offered' = Offered /\ Position' = Position /\ Open' = Open
  BY <1>1 DEF Offered, Position, FileSent, Open
<1>5. Types' /\ Control'
  BY <1>1, <1>2, <1>4 DEF Inv, Types, Control
<1>6. Inbox'
  BY <1>1 DEF Inv, Session, Inbox, Expected
<1>7. Session'
  BY <1>1, <1>6 DEF Session
<1>8. Files' /\ Order' /\ Retry' /\ Submitted'
  BY <1>1, <1>3, <1>4 DEF Inv, Files, Order, Retry, Submitted
<1> QED
  BY <1>5, <1>7, <1>8 DEF Inv

LEMMA BeginReadInv == ASSUME Inv, BeginRead PROVE Inv'
<1>1. /\ pc = "wait" /\ Open /\ pc' = "read" /\ tls.complete
      /\ tls.pending = "Read" \/ (tls.pending = "None" /\ Readable)
      /\ tls' = [tls EXCEPT !.pending = "None"]
      /\ UNCHANGED <<conn, transfer, ssl, socket, client, job, sent>>
  BY DEF BeginRead, Handles
<1>2. tls \in [complete : BOOLEAN, pending : {"None", "Accept", "Read", "Write"}]
      /\ Loose(conn)
  BY <1>1 DEF Inv, Types, Control
<1>3. tls' \in [complete : BOOLEAN, pending : {"None", "Accept", "Read", "Write"}]
      /\ tls'.complete = tls.complete /\ tls'.pending = "None"
  BY <1>1, <1>2
<1>4. ~Busy(conn)
  <2>1. CASE tls.pending = "Read"
    BY <1>1, <2>1 DEF Inv, Control
  <2>2. CASE tls.pending = "None" /\ Readable
    <3>1. conn.interest = "read" /\ ssl.steps = <<>>
      BY <1>1, <2>2 DEF Readable, Inv, Session
    <3>2. conn.interest = Usual(conn)
      BY <1>1, <3>1 DEF Inv, Session
    <3> QED
      BY <3>1, <3>2 DEF Usual, Busy
  <2> QED
    BY <1>1, <2>1, <2>2
<1>5. ssl.unsent = <<>>
  BY <1>1, <1>4, HeldOffered
<1>6. Offered' = Offered /\ Position' = Position /\ Open' = Open
  BY <1>1 DEF Offered, Position, FileSent, Open
<1>7. Types' /\ Control'
  BY <1>1, <1>2, <1>3, <1>4, <1>6 DEF Inv, Types, Control
<1>8. Inbox'
  BY <1>1 DEF Inv, Session, Inbox, Expected
<1>9. Session'
  <2>1. ssl.steps # <<>> => client.later < MaxLater
    BY <1>1 DEF Inv, Session
  <2>2. conn.interest = "read" \/ (conn.interest = "write" /\ client.later < MaxLater)
    BY <1>1, <1>4 DEF Inv, Session
  <2> QED
    BY <1>1, <1>3, <1>8, <2>1, <2>2 DEF Session
<1>10. Files' /\ Order' /\ Retry' /\ Submitted'
  BY <1>1, <1>5, <1>6 DEF Inv, Files, Order, Retry, Submitted
<1> QED
  BY <1>7, <1>9, <1>10 DEF Inv

\* Only a connection with something to write begins to write.
LEMMA BeginWriteInv == ASSUME Inv, BeginWrite PROVE Inv'
<1> DEFINE n == Len(transfer.buffer)
<1>1. /\ pc = "wait" /\ Open /\ pc' = "flush" /\ tls.complete
      /\ tls.pending = "Write" \/ (tls.pending = "None" /\ Writing(conn))
      /\ tls' = [tls EXCEPT !.pending = "None"]
      /\ transfer' = [transfer EXCEPT !.buffered = n]
      /\ UNCHANGED <<conn, ssl, socket, client, job, sent>>
  BY DEF BeginWrite, Handles
<1>2. /\ tls \in [complete : BOOLEAN, pending : {"None", "Accept", "Read", "Write"}]
      /\ transfer \in [size : Nat, buffer : Seq(Unit), buffered : Nat]
      /\ Loose(conn) /\ conn \in ConnectionType
  BY <1>1, OpenType DEF Inv, Types, Control
<1>3. n \in Nat /\ (transfer.buffer # <<>> => n > 0)
  BY <1>2, LenProperties, EmptySeq
<1>4. /\ tls' \in [complete : BOOLEAN, pending : {"None", "Accept", "Read", "Write"}]
      /\ tls'.complete = tls.complete /\ tls'.pending = "None"
      /\ transfer' \in [size : Nat, buffer : Seq(Unit), buffered : Nat]
      /\ transfer'.buffer = transfer.buffer /\ transfer'.size = transfer.size
      /\ transfer'.buffered = n
  BY <1>1, <1>2, <1>3
<1>5. transfer.buffer # <<>> => n <= conn.fileTransfer /\ conn.writeBuffer = NoResponse
  BY <1>1 DEF Inv, Files
<1>6. Writing(conn)
  <2>1. ASSUME tls.pending = "Write" PROVE Writing(conn)
    <3>1. Offered # <<>>
      BY <1>1, <2>1 DEF Inv, Control
    <3>2. conn.writeBuffer # NoResponse \/ transfer.buffer # <<>>
      BY <3>1 DEF Offered
    <3>3. conn.fileTransfer \in Nat
      BY <1>2 DEF ConnectionType
    <3> QED
      BY <1>3, <1>5, <3>2, <3>3 DEF Writing
  <2> QED
    BY <1>1, <2>1
<1>7. Flushing(conn)
  <2>1. Busy(conn) /\ ~conn.responsePending /\ conn.requestBody = NoBody
    BY <1>2, <1>6 DEF Busy, Loose
  <2> QED
    BY <1>2, <2>1 DEF Loose, Flushing
<1>8. Offered = <<>> => ssl.steps = <<>>
  <2>1. ASSUME Offered = <<>> PROVE ssl.steps = <<>>
    <3>1. tls.pending = "None"
      BY <1>1, <2>1 DEF Inv, Control
    <3> QED
      BY <1>1, <3>1 DEF Inv, Session
  <2> QED
    BY <2>1
<1> HIDE DEF n
<1>9. Offered' = Offered /\ Open' = Open
  BY <1>1, <1>4 DEF Offered, Text, Open
<1>10. FileSent' = FileSent /\ FileSent \in Int
  BY <1>1, <1>2, <1>4 DEF FileSent, ConnectionType
<1>11. Position' = FileSent /\ Position = FileSent
  <2>1. n - n = 0 /\ FileSent + 0 = FileSent
    BY <1>3, <1>10
  <2>2. Len(transfer'.buffer) = n
    BY <1>4 DEF n
  <2> QED
    BY <1>1, <1>4, <1>10, <2>1, <2>2 DEF Position
<1>12. Types'
  BY <1>1, <1>4 DEF Inv, Types
<1>13. Control'
  BY <1>1, <1>4, <1>7, <1>9 DEF Control
<1>14. Inbox'
  BY <1>1 DEF Inv, Session, Inbox, Expected
<1>15. Session'
  BY <1>1, <1>4, <1>8, <1>9, <1>14 DEF Inv, Session
<1>16. Files'
  <2>1. /\ Due(conn)
        /\ conn.fileTransfer > 0 => conn.fileTransfer <= transfer.size
        /\ conn.writeBuffer # NoResponse /\ conn.fileTransfer > 0 => conn.fileTransfer = transfer.size
    BY <1>1 DEF Inv, Files
  <2>2. conn.writeBuffer # NoResponse => n = 0
    <3>1. conn.writeBuffer # NoResponse => transfer.buffer = <<>>
      BY <1>5
    <3> QED
      BY <3>1, EmptySeq DEF n
  <2>3. ASSUME transfer.buffer # <<>>
        PROVE  \A i \in 1 .. Len(transfer'.buffer) :
                 transfer'.buffer[i] = <<conn'.answered + 1, HeadUnits + Position' + i>>
    <3>1. \A i \in 1 .. Len(transfer.buffer) :
            transfer.buffer[i] = <<conn.answered + 1, HeadUnits + Position + i>>
      BY <1>1, <2>3 DEF Inv, Files
    <3> QED
      BY <1>1, <1>4, <1>11, <3>1
  <2>4. Len(transfer'.buffer) = n /\ n <= n
    BY <1>3, <1>4 DEF n
  <2> QED
    BY <1>1, <1>4, <1>5, <2>1, <2>2, <2>3, <2>4 DEF Files
<1>17. Order'
  BY <1>1, <1>6, <1>11 DEF Inv, Order, Writing
<1>18. Retry' /\ Submitted'
  BY <1>1, <1>9 DEF Inv, Retry, Submitted
<1> QED
  BY <1>12, <1>13, <1>15, <1>16, <1>17, <1>18 DEF Inv

\* A call that wants the other direction is registered for it.
LEMMA WantsWhat ==
  ASSUME Open, pc \in {"accept", "flush"} \/ ssl.steps # <<>>
  PROVE  /\ WantsRead => ssl.steps # <<>> /\ Expected
         /\ WantsWrite => ssl.steps # <<>> /\ ~Expected
BY DEF WantsRead, Starved, WantsWrite, Expected

LEMMA AcceptWantsInv == ASSUME Inv, AcceptWants PROVE Inv'
<1>1. /\ pc = "accept" /\ UNCHANGED <<transfer, ssl, socket, client, job, sent>>
      /\ (WantsRead /\ WaitFor("Accept", "read")) \/ (WantsWrite /\ WaitFor("Accept", "write"))
  BY DEF AcceptWants
<1>2. Open
  BY <1>1 DEF Inv, Control
<1>3. /\ ~tls.complete /\ ~Busy(conn) /\ Loose(conn)
      /\ tls \in [complete : BOOLEAN, pending : {"None", "Accept", "Read", "Write"}]
  BY <1>1, <1>2 DEF Inv, Control, Types
<1>4. PICK interest \in {"read", "write"} :
        /\ WaitFor("Accept", interest)
        /\ ssl.steps # <<>> /\ interest = IF Expected THEN "read" ELSE "write"
  BY <1>1, <1>2, WantsWhat
<1>5. pc' = "wait" /\ conn' = [conn EXCEPT !.interest = interest]
      /\ tls' \in [complete : BOOLEAN, pending : {"None", "Accept", "Read", "Write"}]
      /\ tls'.complete = FALSE /\ tls'.pending = "Accept"
  BY <1>3, <1>4 DEF WaitFor
<1>6. /\ Open' /\ conn'.interest = interest /\ ~Busy(conn') /\ Loose(conn')
      /\ Types' /\ Files' /\ Order' /\ Submitted' /\ Inbox'
  BY <1>1, <1>2, <1>3, <1>5, MaskInv DEF Inv, Session
<1>7. Control'
  BY <1>5, <1>6 DEF Control
<1>8. Session'
  <2>1. ssl'.steps # <<>> /\ conn'.interest = IF Expected' THEN "read" ELSE "write"
    BY <1>1, <1>4, <1>6 DEF Expected
  <2> QED
    BY <1>5, <1>6, <2>1 DEF Session
<1>9. Retry'
  BY <1>1, <1>2, <1>3, HeldOffered DEF Retry
<1> QED
  BY <1>6, <1>7, <1>8, <1>9 DEF Inv

LEMMA AcceptDoneInv == ASSUME Inv, AcceptDone PROVE Inv'
<1>1. /\ pc = "accept" /\ ssl.steps = <<>> /\ UNCHANGED <<transfer, ssl, socket, client, job, sent>>
      /\ tls' = [complete |-> TRUE, pending |-> "None"]
      /\ conn' = [conn EXCEPT !.interest = "read"]
      /\ pc' \in {"read", "wait"}
  BY DEF AcceptDone
<1>2. Open /\ ~Busy(conn) /\ Loose(conn)
  BY <1>1 DEF Inv, Control
<1>3. /\ Open' /\ conn'.interest = "read" /\ ~Busy(conn') /\ Loose(conn')
      /\ Types' /\ Files' /\ Order' /\ Submitted' /\ Inbox'
  BY <1>1, <1>2, MaskInv DEF Inv, Session
<1>4. Control'
  BY <1>1, <1>3 DEF Control
<1>5. Session'
  <2>1. Usual(conn') = "read"
    BY <1>3 DEF Usual, Busy
  <2> QED
    BY <1>1, <1>3, <2>1 DEF Session
<1>6. Retry'
  BY <1>1, <1>2, HeldOffered DEF Retry
<1> QED
  BY <1>3, <1>4, <1>5, <1>6 DEF Inv

LEMMA ReadWantsInv == ASSUME Inv, ReadWants PROVE Inv'
<1>1. /\ pc = "read" /\ UNCHANGED <<transfer, ssl, socket, client, job, sent>>
      /\ (WantsRead /\ WaitFor("Read", "read")) \/ (WantsWrite /\ WaitFor("Read", "write"))
  BY DEF ReadWants
<1>2. Open
  BY <1>1 DEF Inv, Control
<1>3. /\ tls.complete /\ ~Busy(conn) /\ Loose(conn)
      /\ tls \in [complete : BOOLEAN, pending : {"None", "Accept", "Read", "Write"}]
  BY <1>1, <1>2 DEF Inv, Control, Types
<1>4. PICK interest \in {"read", "write"} :
        /\ WaitFor("Read", interest)
        /\ IF ssl.steps # <<>> THEN interest = IF Expected THEN "read" ELSE "write"
           ELSE interest = "read"
  <2>1. ssl.steps = <<>> => ~WantsWrite
    BY DEF WantsWrite
  <2> QED
    BY <1>1, <1>2, <2>1, WantsWhat
<1>5. pc' = "wait" /\ conn' = [conn EXCEPT !.interest = interest]
      /\ tls' \in [complete : BOOLEAN, pending : {"None", "Accept", "Read", "Write"}]
      /\ tls'.complete = TRUE /\ tls'.pending = "Read"
  BY <1>3, <1>4 DEF WaitFor
<1>6. /\ Open' /\ conn'.interest = interest /\ ~Busy(conn') /\ Loose(conn')
      /\ Types' /\ Files' /\ Order' /\ Submitted' /\ Inbox'
  BY <1>1, <1>2, <1>3, <1>5, MaskInv DEF Inv, Session
<1>7. Control'
  BY <1>5, <1>6 DEF Control
<1>8. Session'
  <2>1. Usual(conn') = "read"
    BY <1>6 DEF Usual, Busy
  <2>2. ssl'.steps # <<>> => conn'.interest = IF Expected' THEN "read" ELSE "write"
    BY <1>1, <1>4, <1>6 DEF Expected
  <2>3. ssl'.steps = <<>> => conn'.interest = "read"
    BY <1>1, <1>4, <1>6
  <2>4. ssl'.steps # <<>> => client'.later < MaxLater
    BY <1>1, <1>2, <1>3 DEF Inv, Session
  <2> QED
    BY <1>5, <1>6, <2>1, <2>2, <2>3, <2>4 DEF Session
<1>9. Retry'
  BY <1>1, <1>2, <1>3, HeldOffered DEF Retry
<1> QED
  BY <1>6, <1>7, <1>8, <1>9 DEF Inv

\* What the handler makes of the connection, and of the request.
LEMMA CommitSubmitted ==
  ASSUME NEW r, NEW state, Commit(r, state), r.conn \in ConnectionType, job = NoTask,
         IF r.submit = NoTask THEN ~r.conn.responsePending
         ELSE r.conn.responsePending /\ r.submit \in SubmissionType
  PROVE  conn' = r.conn /\ pc' = state /\ Open' /\ Submitted' /\ job' \in JobType \cup {NoTask}
<1>1. conn' = r.conn /\ pc' = state
      /\ job' = IF r.submit = NoTask THEN job ELSE Job(0, r.conn, r.submit)
  BY DEF Commit
<1>2. Open'
  BY <1>1, Absent DEF Open
<1>3. CASE r.submit = NoTask
  BY <1>1, <1>2, <1>3 DEF Submitted
<1>4. CASE r.submit # NoTask
  <2> DEFINE j == Job(0, r.conn, r.submit)
  <2>1. j \in JobType /\ j.id = r.conn.id /\ j.n = r.conn.parsed
    BY <1>4 DEF Job, JobType, SubmissionType, ConnectionType
  <2>2. j # NoTask
    <3>1. "id" \in DOMAIN j
      BY <2>1 DEF JobType
    <3>2. "id" \notin DOMAIN NoTask
      BY DEF NoTask
    <3> QED
      BY <3>1, <3>2
  <2>3. job' = j
    BY <1>1, <1>4
  <2> HIDE DEF j
  <2> QED
    BY <1>1, <1>2, <1>4, <2>1, <2>2, <2>3 DEF Submitted
<1> QED
  BY <1>1, <1>2, <1>3, <1>4

LEMMA ReadInv == ASSUME Inv, Read PROVE Inv'
<1> DEFINE fresh == ssl.plain = <<>>
           data == IF fresh THEN Head(socket.inbox) ELSE ssl.plain
           k == Min({Chunk, Len(data)})
           c == [conn EXCEPT !.readBuffer = @ \o SubSeq(data, 1, k)]
           r(accepts) == AfterRecv(c, accepts)
<1>1. /\ pc = "read" /\ ssl.steps = <<>> /\ (ssl.plain # <<>> \/ socket.inbox # <<>>)
      /\ ssl' = [ssl EXCEPT !.plain = SubSeq(data, k + 1, Len(data))]
      /\ socket' = IF fresh THEN [socket EXCEPT !.inbox = Tail(@)] ELSE socket
      /\ \E accepts \in BOOLEAN :
           Commit(r(accepts), IF r(accepts).conn = c THEN "read" ELSE "wait")
      /\ tls' = [tls EXCEPT !.pending = "None"]
      /\ UNCHANGED <<transfer, client, sent>>
  BY DEF Read
<1> HIDE DEF r
<1>2. Open /\ tls.complete /\ ~Busy(conn) /\ Loose(conn)
  BY <1>1 DEF Inv, Control
<1>3. /\ ssl \in [steps : Seq(Step), plain : Seq(Token), unsent : Seq(Unit)]
      /\ socket \in [inbox : Seq(Seq(Token \cup {"protocol"})), full : BOOLEAN, fin : BOOLEAN]
      /\ tls \in [complete : BOOLEAN, pending : {"None", "Accept", "Read", "Write"}]
  BY DEF Inv, Types
<1>4. \A i \in DOMAIN socket.inbox : socket.inbox[i] \in Seq(Token) \ {<<>>}
  <2>1. ~Contains(ssl.steps, "recv")
    BY <1>1 DEF Contains
  <2> QED
    BY <1>2, <2>1 DEF Inv, Session, Inbox
<1>5. socket.inbox # <<>> =>
        /\ Head(socket.inbox) \in Seq(Token) \ {<<>>}
        /\ Tail(socket.inbox) \in Seq(Seq(Token \cup {"protocol"}))
        /\ \A i \in DOMAIN Tail(socket.inbox) : Tail(socket.inbox)[i] \in Seq(Token) \ {<<>>}
  <2> SUFFICES ASSUME socket.inbox # <<>>
               PROVE  /\ Head(socket.inbox) \in Seq(Token) \ {<<>>}
                      /\ Tail(socket.inbox) \in Seq(Seq(Token \cup {"protocol"}))
                      /\ \A i \in DOMAIN Tail(socket.inbox) :
                           Tail(socket.inbox)[i] \in Seq(Token) \ {<<>>}
    OBVIOUS
  <2> DEFINE inbox == socket.inbox
  <2>1. /\ Head(inbox) = inbox[1] /\ Len(inbox) \in Nat \ {0}
        /\ Tail(inbox) \in Seq(Seq(Token \cup {"protocol"}))
        /\ Len(Tail(inbox)) = Len(inbox) - 1
        /\ \A i \in 1 .. Len(Tail(inbox)) : Tail(inbox)[i] = inbox[i + 1]
    BY <1>3, TailOf
  <2>2. DOMAIN inbox = 1 .. Len(inbox) /\ DOMAIN Tail(inbox) = 1 .. Len(Tail(inbox))
    BY <1>3, <2>1, LenProperties
  <2>3. \A i \in 1 .. Len(inbox) : inbox[i] \in Seq(Token) \ {<<>>}
    BY <1>4, <2>2
  <2> HIDE DEF inbox
  <2>4. \A i \in 1 .. Len(Tail(inbox)) : i + 1 \in 1 .. Len(inbox)
    BY <2>1
  <2>5. 1 \in 1 .. Len(inbox)
    BY <2>1
  <2> QED
    BY <2>1, <2>2, <2>3, <2>4, <2>5 DEF inbox
<1>6. data \in Seq(Token) /\ data # <<>>
  BY <1>1, <1>3, <1>5
<1> HIDE DEF data
<1>7. Len(data) \in Nat \ {0} /\ Chunk \in Nat \ {0}
  BY <1>6, EmptySeq, LenProperties, TlsAssumption
<1>8. k \in 1 .. Len(data)
  BY <1>7, MinOfTwo
<1> HIDE DEF k
<1> DEFINE bytes == SubSeq(data, 1, k)
           rest == SubSeq(data, k + 1, Len(data))
<1>9. bytes \in Seq(Token) /\ rest \in Seq(Token)
  BY <1>6, <1>8, PrefixOf
<1> HIDE DEF bytes, rest
<1>10. /\ ssl' \in [steps : Seq(Step), plain : Seq(Token), unsent : Seq(Unit)]
       /\ ssl'.steps = <<>> /\ ssl'.unsent = ssl.unsent
  BY <1>1, <1>3, <1>9 DEF rest
<1>11. /\ socket' \in [inbox : Seq(Seq(Token \cup {"protocol"})), full : BOOLEAN, fin : BOOLEAN]
       /\ \A i \in DOMAIN socket'.inbox : socket'.inbox[i] \in Seq(Token) \ {<<>>}
  <2>1. CASE fresh
    <3>1. socket.inbox # <<>> /\ socket' = [socket EXCEPT !.inbox = Tail(socket.inbox)]
      BY <1>1, <2>1
    <3>2. socket'.inbox = Tail(socket.inbox)
      BY <1>3, <3>1
    <3> QED
      BY <1>3, <1>5, <3>1, <3>2
  <2>2. CASE ~fresh
    BY <1>1, <1>3, <1>4, <2>2
  <2> QED
    BY <2>1, <2>2
<1>12. tls' \in [complete : BOOLEAN, pending : {"None", "Accept", "Read", "Write"}]
       /\ tls'.complete /\ tls'.pending = "None"
  BY <1>1, <1>2, <1>3
<1>13. /\ Ready(c) /\ c.interest = conn.interest /\ SameFile(c, conn)
       /\ c.answered = conn.answered
  <2>1. conn \in ConnectionType /\ conn.parsed = conn.answered
    BY <1>2 DEF Loose, ConnectionType
  <2>2. conn.readBuffer \o bytes \in Seq(Token)
    BY <1>9, <2>1, ConcatProperties DEF ConnectionType
  <2>3. c = [conn EXCEPT !.readBuffer = conn.readBuffer \o bytes]
    BY DEF bytes
  <2> HIDE DEF c
  <2>4. /\ c \in ConnectionType /\ c.interest = conn.interest /\ SameFile(c, conn)
        /\ c.answered = conn.answered /\ c.parsed = conn.parsed
        /\ c.responsePending = conn.responsePending /\ c.writeBuffer = conn.writeBuffer
        /\ c.fileTransfer = conn.fileTransfer
    BY <2>1, <2>2, <2>3 DEF ConnectionType, SameFile
  <2> QED
    BY <1>2, <2>1, <2>4 DEF Ready, Busy, Writing
<1> HIDE DEF c
<1>14. PICK accepts \in BOOLEAN : Commit(r(accepts), IF r(accepts).conn = c THEN "read" ELSE "wait")
  BY <1>1
<1> DEFINE d == r(accepts).conn
<1>15. /\ Loose(d) /\ SameFile(d, conn)
       /\ IF r(accepts).submit = NoTask THEN ~d.responsePending
          ELSE d.responsePending /\ r(accepts).submit \in SubmissionType
       /\ \/ Busy(d) /\ d.interest = Usual(d)
          \/ /\ ~Busy(d) /\ d.interest = conn.interest
             /\ d = c \/ d.requestBody # NoBody
  BY <1>13, AfterRecvLoose DEF SameFile, r
<1>16. Whole(d, conn)
  BY <1>13, AfterRecvWhole DEF Whole, r
<1>17. transfer.buffer = <<>> /\ ssl.unsent = <<>> /\ job = NoTask
  BY <1>1, <1>2, HeldOffered
<1>18. d \in ConnectionType /\ ~Busy(c)
  BY <1>13, <1>15 DEF Loose, Ready
<1>19. /\ conn' = d /\ pc' = (IF d = c THEN "read" ELSE "wait") /\ Open' /\ Submitted'
       /\ job' \in JobType \cup {NoTask}
  BY <1>14, <1>15, <1>17, <1>18, CommitSubmitted
<1> HIDE DEF d
<1>20. conn.fileTransfer = 0 /\ conn.writeBuffer = NoResponse
  BY <1>2 DEF Busy, Writing, Loose, ConnectionType
<1>21. Types'
  BY <1>1, <1>10, <1>11, <1>12, <1>18, <1>19 DEF Inv, Types
<1>22. Control'
  BY <1>12, <1>15, <1>18, <1>19 DEF Control
<1>23. Session'
  <2>1. conn.interest = "read" \/ (conn.interest = "write" /\ client.later < MaxLater)
    BY <1>1, <1>2 DEF Inv, Session
  <2>2. Inbox'
    BY <1>10, <1>11 DEF Inbox, Contains
  <2>3. ~Busy(d) => Usual(d) = "read"
    BY DEF Busy, Usual
  <2>4. pc' = "wait" =>
          \/ conn'.interest = Usual(conn')
          \/ conn'.interest = "write" /\ conn'.requestBody # NoBody /\ client'.later < MaxLater
    BY <1>1, <1>15, <1>19, <2>1, <2>3
  <2> QED
    BY <1>1, <1>10, <1>12, <1>15, <1>19, <2>1, <2>2, <2>4 DEF Session
<1>24. Files'
  <2>1. Due(conn)
    BY <1>2 DEF Inv, Files
  <2>2. Due(conn')
    BY <1>15, <1>19, <2>1 DEF Due, SameFile
  <2> QED
    BY <1>1, <1>15, <1>17, <1>19, <1>20, <2>2 DEF Files, SameFile
<1>25. Order'
  <2>1. Ordered(sent) /\ LastOf(sent)[1] = conn.answered /\ Ended(LastOf(sent))
    <3>1. /\ LastOf(sent)[1] = conn.answered + 0 /\ conn.answered \in Nat
          /\ Ended(LastOf(sent))
      BY <1>1, <1>2, <1>20 DEF Inv, Order, Loose, ConnectionType
    <3> QED
      BY <3>1 DEF Inv, Order
  <2>2. conn'.answered = conn.answered /\ conn'.fileTransfer = 0 /\ conn'.answered + 0 = conn'.answered
    BY <1>15, <1>16, <1>18, <1>19, <1>20 DEF Whole, SameFile, ConnectionType
  <2> QED
    BY <1>1, <1>16, <1>19, <2>1, <2>2 DEF Order, Whole
<1>26. Retry'
  BY <1>10, <1>17 DEF Retry
<1> QED
  BY <1>19, <1>21, <1>22, <1>23, <1>24, <1>25, <1>26 DEF Inv

\* Where what is offered belongs in the response, which is where the client
\* has got to.
Start(c) == IF c.writeBuffer # NoResponse THEN HeadUnits - c.writeBuffer.left
                                          ELSE HeadUnits + Position

LEMMA OfferedNext ==
  ASSUME Inv, pc = "flush", Offered # <<>>
  PROVE  /\ Open /\ Flushing(conn) /\ Offered \in Seq(Unit) /\ Len(Offered) \in Nat \ {0}
         /\ Start(conn) \in Nat
         /\ \A i \in 1 .. Len(Offered) : Offered[i] = <<conn.answered + 1, Start(conn) + i>>
         /\ \/ LastOf(sent) = <<conn.answered + 1, Start(conn)>>
            \/ /\ Start(conn) = 0 /\ LastOf(sent)[1] = (conn.answered + 1) - 1
               /\ Ended(LastOf(sent))
         /\ IF conn.writeBuffer # NoResponse
              THEN /\ conn.writeBuffer \in Response /\ Len(Offered) = conn.writeBuffer.left
                   /\ transfer.buffer = <<>> /\ transfer.buffered = 0
              ELSE /\ Offered = transfer.buffer /\ conn.fileTransfer > 0
                   /\ Len(transfer.buffer) <= transfer.buffered
                   /\ transfer.buffered <= conn.fileTransfer
                   /\ conn.fileTransfer <= transfer.size
                   /\ Position = FileSent + (transfer.buffered - Len(transfer.buffer))
                   /\ LastOf(sent) = <<conn.answered + 1, Start(conn)>>
<1>1. /\ Open /\ Flushing(conn) /\ conn \in ConnectionType
      /\ transfer \in [size : Nat, buffer : Seq(Unit), buffered : Nat]
      /\ HeadUnits \in Nat \ {0} /\ conn.answered \in Nat /\ conn.fileTransfer \in Nat
  BY ConnectionAssumption DEF Inv, Control, Types, Flushing, ConnectionType
<1>2. CASE conn.writeBuffer # NoResponse
  <2> DEFINE left == conn.writeBuffer.left
             m == conn.answered + 1
             text == [i \in 1 .. left |-> <<m, HeadUnits - left + i>>]
  <2>1. conn.writeBuffer \in Response /\ left \in 1 .. HeadUnits
    BY <1>1, <1>2 DEF ConnectionType, Response
  <2>2. Offered = text
    BY <1>1, <1>2 DEF Offered, Text, Flushing
  <2>3. m \in Nat /\ left \in Nat \ {0} /\ HeadUnits - left \in Nat
    BY <1>1, <2>1
  <2>4. Start(conn) = HeadUnits - left
    BY <1>2 DEF Start
  <2>5. transfer.buffer = <<>> /\ transfer.buffered = 0
    BY <1>1, <1>2 DEF Inv, Files
  <2>6. IF left = HeadUnits THEN LastOf(sent)[1] = conn.answered /\ Ended(LastOf(sent))
        ELSE LastOf(sent) = <<m, HeadUnits - left>>
    BY <1>1, <1>2 DEF Inv, Order
  <2> HIDE DEF left, m
  <2>7. \A i \in 1 .. left : <<m, HeadUnits - left + i>> \in Unit
    BY <2>3 DEF Unit
  <2>8. text \in Seq(Unit) /\ Len(text) = left
    BY <2>3, <2>7
  <2>9. \A i \in 1 .. Len(Offered) : Offered[i] = <<m, Start(conn) + i>>
    BY <2>2, <2>4, <2>8
  <2>10. m - 1 = conn.answered
    BY <1>1 DEF m
  <2>11. \/ LastOf(sent) = <<m, Start(conn)>>
         \/ Start(conn) = 0 /\ LastOf(sent)[1] = m - 1 /\ Ended(LastOf(sent))
    BY <2>3, <2>4, <2>6, <2>10
  <2> QED
    BY <1>1, <1>2, <2>1, <2>2, <2>3, <2>4, <2>5, <2>8, <2>9, <2>11 DEF left, m
<1>3. CASE conn.writeBuffer = NoResponse
  <2> DEFINE n == Len(transfer.buffer)
  <2>1. Offered = transfer.buffer
    BY <1>3 DEF Offered
  <2>2. /\ n <= conn.fileTransfer /\ n <= transfer.buffered /\ transfer.buffered <= conn.fileTransfer
        /\ \A i \in 1 .. n : transfer.buffer[i] = <<conn.answered + 1, HeadUnits + Position + i>>
    BY <1>1, <2>1 DEF Inv, Files
  <2>3. n \in Nat \ {0}
    BY <1>1, <2>1, EmptySeq, LenProperties
  <2>4. Position = FileSent + (transfer.buffered - n)
    BY <2>1 DEF Position
  <2>5. conn.fileTransfer > 0 /\ conn.fileTransfer <= transfer.size
    <3>1. conn.fileTransfer > 0
      BY <1>1, <2>2, <2>3
    <3> QED
      BY <1>1, <3>1 DEF Inv, Files
  <2>6. Start(conn) = HeadUnits + Position /\ Start(conn) \in Nat
    <3>1. FileSent \in Nat
      BY <1>1, <2>5 DEF FileSent
    <3>2. transfer.buffered - n \in Nat
      BY <1>1, <2>2, <2>3
    <3> HIDE DEF n
    <3>3. Position \in Nat
      BY <2>4, <3>1, <3>2
    <3> QED
      BY <1>1, <1>3, <3>3 DEF Start
  <2>7. LastOf(sent) = <<conn.answered + 1, HeadUnits + Position>>
    BY <1>1, <1>3, <2>5 DEF Inv, Order
  <2> QED
    BY <1>1, <1>3, <2>1, <2>2, <2>3, <2>4, <2>5, <2>6, <2>7
<1> QED
  BY <1>2, <1>3

\* A record is cut off the front of what is offered, and is never empty.
LEMMA RecordOffered ==
  ASSUME Inv, pc = "flush", Offered # <<>>
  PROVE  \E n \in 1 .. Len(Offered) :
           /\ Record(Offered) = SubSeq(Offered, 1, n)
           /\ Len(Record(Offered)) = n /\ Record(Offered) \in Seq(Unit)
<1>1. Open /\ Offered \in Seq(Unit) /\ Len(Offered) \in Nat \ {0}
  BY OfferedNext
<1>2. \E n \in 1 .. Len(Offered) : Record(Offered) = SubSeq(Offered, 1, n)
  <2>1. CASE ssl.unsent # <<>>
    BY <1>1, <2>1 DEF Inv, Retry, Record
  <2>2. CASE ssl.unsent = <<>>
    <3> DEFINE n == Min({RecordUnits, Len(Offered)})
    <3>1. RecordUnits \in Nat \ {0}
      BY TlsAssumption
    <3>2. n \in 1 .. Len(Offered)
      BY <1>1, <3>1, MinOfTwo
    <3>3. Record(Offered) = SubSeq(Offered, 1, n)
      BY <2>2 DEF Record
    <3> HIDE DEF n
    <3> QED
      BY <3>2, <3>3
  <2> QED
    BY <2>1, <2>2
<1>3. PICK n \in 1 .. Len(Offered) : Record(Offered) = SubSeq(Offered, 1, n)
  BY <1>2
<1> QED
  BY <1>1, <1>3, PrefixOf

\* What a record of n units leaves of the text, or of the file.
TextWritten(n) ==
  /\ conn' = [conn EXCEPT !.writeBuffer = Remaining(conn.writeBuffer, n)]
  /\ UNCHANGED transfer

FileWritten(n) ==
  LET rest == SubSeq(transfer.buffer, n + 1, Len(transfer.buffer))
  IN  /\ transfer' = [transfer EXCEPT !.buffer = rest]
      /\ conn' = IF rest # <<>> THEN conn
                 ELSE [conn EXCEPT !.fileTransfer = @ - transfer.buffered,
                                   !.owed = @ - transfer.buffered]

LEMMA WriteText ==
  ASSUME Inv, pc = "flush", Offered # <<>>, conn.writeBuffer # NoResponse,
         NEW n \in 1 .. Len(Offered), pc' = pc, TextWritten(n), job' = job,
         Ordered(sent'), LastOf(sent') = <<conn.answered + 1, Start(conn) + n>>
  PROVE  Open' /\ conn' \in ConnectionType /\ Flushing(conn') /\ Files' /\ Order' /\ Submitted'
<1> DEFINE w == conn.writeBuffer
           x == IF w.left = n THEN NoResponse ELSE [w EXCEPT !.left = @ - n]
<1>1. /\ Open /\ Flushing(conn) /\ conn \in ConnectionType /\ w \in Response
      /\ Len(Offered) = w.left /\ transfer.buffer = <<>> /\ transfer.buffered = 0
      /\ HeadUnits \in Nat \ {0} /\ conn.answered \in Nat /\ conn.fileTransfer \in Nat
  BY OfferedNext, ConnectionAssumption DEF Flushing, ConnectionType
<1>2. /\ x \in Response \cup {NoResponse}
      /\ x # NoResponse => x.left = w.left - n /\ x.left < HeadUnits /\ x.id = w.id /\ x.n = w.n
      /\ x = NoResponse => w.left = n
  <2>1. w.left \in 1 .. HeadUnits
    BY <1>1 DEF Response
  <2>2. CASE w.left = n
    BY <2>2
  <2>3. CASE w.left # n
    <3> DEFINE k == w.left - n
    <3>1. k \in 1 .. HeadUnits /\ k < HeadUnits
      BY <1>1, <2>1, <2>3
    <3>2. x = [w EXCEPT !.left = k]
      BY <2>3
    <3> HIDE DEF k, x
    <3>3. x \in Response /\ x.left = k /\ x.id = w.id /\ x.n = w.n
      BY <1>1, <3>1, <3>2 DEF Response
    <3>4. x # NoResponse
      BY <3>3, Absent
    <3> QED
      BY <3>1, <3>3, <3>4 DEF k
  <2> QED
    BY <2>2, <2>3
<1>3. conn' = [conn EXCEPT !.writeBuffer = x] /\ transfer' = transfer
  BY DEF TextWritten, Remaining
<1> HIDE DEF x, w
<1>4. /\ conn' \in ConnectionType /\ conn'.writeBuffer = x /\ conn'.id = conn.id
      /\ conn'.fileTransfer = conn.fileTransfer /\ conn'.owed = conn.owed
      /\ conn'.answered = conn.answered /\ conn'.parsed = conn.parsed
      /\ conn'.responsePending = conn.responsePending /\ conn'.requestBody = conn.requestBody
  BY <1>1, <1>2, <1>3 DEF ConnectionType
<1>5. Open'
  BY <1>4, Absent DEF Open
<1>6. Flushing(conn')
  BY <1>1, <1>2, <1>4 DEF Flushing, w
<1>7. conn.fileTransfer > 0 => conn.fileTransfer = transfer.size
  BY <1>1 DEF Inv, Files
<1>8. Files'
  <2>1. Due(conn)
    BY <1>1 DEF Inv, Files
  <2>2. Due(conn')
    BY <1>4, <2>1 DEF Due
  <2> QED
    BY <1>1, <1>3, <1>4, <1>7, <2>2 DEF Files
<1>9. Order'
  <2>1. Start(conn) = HeadUnits - w.left
    BY DEF Start, w
  <2>2. CASE x # NoResponse
    <3>1. HeadUnits - x.left = Start(conn) + n /\ x.left # HeadUnits
      <4>1. w.left \in Nat /\ x.left = w.left - n /\ x.left < HeadUnits
        BY <1>1, <1>2, <2>2 DEF Response
      <4> QED
        BY <1>1, <2>1, <4>1
    <3> QED
      BY <1>4, <2>2, <3>1 DEF Order
  <2>3. CASE x = NoResponse
    <3>1. Start(conn) + n = HeadUnits
      <4>1. w.left \in Nat /\ w.left = n
        BY <1>1, <1>2, <2>3 DEF Response
      <4> QED
        BY <1>1, <2>1, <4>1
    <3>2. LastOf(sent') = <<conn'.answered + 1, HeadUnits>>
      BY <1>4, <3>1
    <3>3. ASSUME conn'.fileTransfer > 0 PROVE HeadUnits + Position' = HeadUnits
      <4>1. FileSent' = 0
        BY <1>1, <1>3, <1>4, <1>7, <3>3 DEF FileSent
      <4>2. Position' = 0
        BY <1>1, <1>3, <4>1 DEF Position
      <4> QED
        BY <1>1, <4>2
    <3>4. Ended(LastOf(sent'))
      BY <1>1, <3>2 DEF Ended
    <3> QED
      BY <1>4, <2>3, <3>2, <3>3, <3>4 DEF Order
  <2> QED
    BY <2>2, <2>3
<1>10. Submitted'
  BY <1>1, <1>4, <1>5 DEF Inv, Submitted
<1> QED
  BY <1>4, <1>5, <1>6, <1>8, <1>9, <1>10

LEMMA WriteFile ==
  ASSUME Inv, pc = "flush", Offered # <<>>, conn.writeBuffer = NoResponse,
         NEW n \in 1 .. Len(Offered), pc' = pc, FileWritten(n), job' = job,
         Ordered(sent'), LastOf(sent') = <<conn.answered + 1, Start(conn) + n>>
  PROVE  /\ Open' /\ conn' \in ConnectionType /\ Flushing(conn') /\ Files' /\ Order' /\ Submitted'
         /\ transfer' \in [size : Nat, buffer : Seq(Unit), buffered : Nat]
<1> DEFINE len == Len(transfer.buffer)
           b == transfer.buffered
           ft == conn.fileTransfer
           m == conn.answered + 1
           p == Position
           rest == SubSeq(transfer.buffer, n + 1, Len(transfer.buffer))
<1>0. /\ transfer' = [transfer EXCEPT !.buffer = rest]
      /\ conn' = IF rest # <<>> THEN conn
                 ELSE [conn EXCEPT !.fileTransfer = @ - transfer.buffered,
                                   !.owed = @ - transfer.buffered]
  BY DEF FileWritten
<1>1. /\ Open /\ Flushing(conn) /\ conn \in ConnectionType
      /\ Offered = transfer.buffer /\ len \in Nat \ {0}
      /\ transfer \in [size : Nat, buffer : Seq(Unit), buffered : Nat]
      /\ HeadUnits \in Nat /\ conn.answered \in Nat /\ conn.owed \in Nat /\ ft \in Nat
  BY OfferedNext, ConnectionAssumption DEF Flushing, Inv, Types, ConnectionType
<1>2. /\ len <= b /\ b <= ft /\ ft <= transfer.size /\ ft > 0
      /\ p = FileSent + (b - len) /\ Start(conn) = HeadUnits + p
  BY OfferedNext DEF Start
<1>3. Due(conn) /\ conn.owed >= ft /\ (KeepsSize => conn.owed = ft)
  BY <1>1 DEF Inv, Files, Due
<1>4. \A i \in 1 .. len : transfer.buffer[i] = <<m, HeadUnits + p + i>>
  BY OfferedNext DEF Inv, Files
<1>5. b \in Nat /\ transfer.size \in Nat /\ FileSent = transfer.size - ft
  BY <1>1 DEF FileSent
<1>6. n \in 1 .. len
  BY <1>1, Zenon
<1>a. len \in Nat \ {0} /\ b \in Nat /\ ft \in Nat /\ HeadUnits \in Nat /\ transfer.size \in Nat
  BY <1>1
<1> HIDE DEF len, b, ft, m, p
<1>7. p \in Nat
  <2>1. FileSent \in Nat
    <3> DEFINE size == transfer.size
    <3>1. ft <= size /\ size \in Nat /\ ft \in Nat
      BY <1>2, <1>a
    <3> HIDE DEF size
    <3>2. size - ft \in Nat
      BY <3>1
    <3> QED
      BY <1>5, <3>2 DEF size
  <2>2. b - len \in Nat
    BY <1>2, <1>a
  <2> QED
    BY <1>2, <2>1, <2>2
<1>8. /\ rest \in Seq(Unit) /\ Len(rest) = len - n
      /\ \A i \in 1 .. len - n : rest[i] = transfer.buffer[n + i]
  <2>1. transfer.buffer \in Seq(Unit) /\ n \in 1 .. Len(transfer.buffer)
    BY <1>1, <1>6 DEF len
  <2> QED
    BY <2>1, PrefixOf DEF len
<1>9. transfer' \in [size : Nat, buffer : Seq(Unit), buffered : Nat]
      /\ transfer'.size = transfer.size /\ transfer'.buffer = rest /\ transfer'.buffered = b
  BY <1>0, <1>1, <1>8 DEF b
<1> HIDE DEF rest
<1>10. CASE rest # <<>>
  <2>1. conn' = conn /\ Open'
    BY <1>0, <1>1, <1>10 DEF Open
  <2>2. Len(rest) \in Nat \ {0}
    BY <1>8, <1>10, EmptySeq, LenProperties
  <2>3. n < len /\ n \in Nat /\ Len(rest) <= b /\ Len(rest) <= ft
    BY <1>1, <1>2, <1>5, <1>6, <1>8, <2>2
  <2>4. Position' = FileSent + (b - Len(rest))
    BY <1>9, <1>10, <2>1 DEF Position, FileSent
  <2>5. Position' = p + n
    BY <1>1, <1>2, <1>5, <1>6, <1>8, <2>4
  <2>6. \A i \in 1 .. Len(rest) : rest[i] = <<m, HeadUnits + Position' + i>>
    <3> SUFFICES ASSUME NEW i \in 1 .. Len(rest) PROVE rest[i] = <<m, HeadUnits + Position' + i>>
      OBVIOUS
    <3>1. n + i \in 1 .. len /\ i \in 1 .. len - n
      BY <1>1, <1>6, <1>8, <2>2, <2>3
    <3>2. rest[i] = <<m, HeadUnits + p + (n + i)>>
      BY <1>4, <1>8, <3>1
    <3>3. HeadUnits + p + (n + i) = HeadUnits + Position' + i
      BY <1>1, <1>7, <2>3, <2>5, <3>1
    <3> QED
      BY <3>2, <3>3
  <2>7. Files'
    BY <1>2, <1>3, <1>9, <2>1, <2>3, <2>6 DEF Files, ft, b, m
  <2>8. Order'
    <3>1. HeadUnits + Position' = Start(conn) + n
      BY <1>1, <1>2, <1>7, <2>3, <2>5
    <3> QED
      BY <1>2, <2>1, <3>1 DEF Order, ft
  <2>9. Submitted'
    BY <1>1, <2>1 DEF Inv, Submitted, Open
  <2> QED
    BY <1>1, <1>9, <2>1, <2>7, <2>8, <2>9
<1>11. CASE rest = <<>>
  <2> DEFINE f == ft - b
             o == conn.owed - b
  <2>1. f \in Nat /\ o \in Nat /\ o >= f /\ f <= transfer.size /\ (KeepsSize => o = f)
    <3> DEFINE owed == conn.owed
               size == transfer.size
    <3>1. b \in Nat /\ ft \in Nat /\ owed \in Nat /\ size \in Nat
          /\ b <= ft /\ ft <= size /\ owed >= ft
      BY <1>1, <1>2, <1>3, <1>5
    <3> HIDE DEF owed, size
    <3>2. ft - b \in Nat /\ owed - b \in Nat /\ owed - b >= ft - b /\ ft - b <= size
      BY <3>1
    <3> QED
      BY <1>3, <3>2 DEF owed, size
  <2>2. conn' = [conn EXCEPT !.fileTransfer = f, !.owed = o]
    BY <1>0, <1>1, <1>11 DEF ft, b
  <2>3. n = len
    BY <1>1, <1>6, <1>8, <1>11, EmptySeq
  <2> HIDE DEF f, o
  <2>4. /\ conn' \in ConnectionType /\ conn'.fileTransfer = f /\ conn'.owed = o
        /\ conn'.id = conn.id /\ conn'.writeBuffer = NoResponse
        /\ conn'.answered = conn.answered /\ conn'.parsed = conn.parsed
        /\ conn'.responsePending = conn.responsePending /\ conn'.requestBody = conn.requestBody
    BY <1>1, <2>1, <2>2 DEF ConnectionType
  <2>5. Open' /\ Flushing(conn')
    BY <1>1, <2>4, Absent DEF Open, Flushing
  <2>6. Files'
    <3>1. Due(conn')
      BY <2>1, <2>4 DEF Due
    <3> QED
      BY <1>9, <1>11, <2>1, <2>4, <3>1 DEF Files
  <2>7. Order'
    <3>1. Position' = transfer.size - f
      <4>1. FileSent' = transfer.size - f
        BY <1>9, <2>4 DEF FileSent
      <4>2. Position' = FileSent' + 0
        BY <1>9, <1>11 DEF Position
      <4> QED
        BY <1>5, <2>1, <4>1, <4>2
    <3>2. Start(conn) + n = HeadUnits + Position'
      <4>1. Start(conn) = HeadUnits + (transfer.size - ft + (b - len))
        BY <1>2, <1>5
      <4>2. Start(conn) + len = HeadUnits + (transfer.size - (ft - b))
        BY <1>a, <4>1
      <4> QED
        BY <2>3, <3>1, <4>2 DEF f
    <3>3. LastOf(sent') = <<conn'.answered + 1, HeadUnits + Position'>>
      BY <2>4, <3>2
    <3>4. Ended(LastOf(sent'))
      <4>1. Position' \in Nat /\ HeadUnits \in Nat
        <5> HIDE DEF f
        <5> QED
          BY <1>a, <2>1, <3>1
      <4> QED
        BY <3>3, <4>1 DEF Ended
    <3> QED
      BY <2>4, <3>3, <3>4 DEF Order
  <2>8. Submitted'
    BY <1>1, <2>4, <2>5 DEF Inv, Submitted
  <2> QED
    BY <1>9, <2>4, <2>5, <2>6, <2>7, <2>8
<1> QED
  BY <1>10, <1>11

LEMMA WriteInv == ASSUME Inv, Write PROVE Inv'
<1> DEFINE record == Record(Offered)
           n == Len(record)
<1>1. /\ pc = "flush" /\ ssl.steps = <<>> /\ Offered # <<>>
      /\ sent' = sent \o record
      /\ IF conn.writeBuffer # NoResponse THEN TextWritten(n) ELSE FileWritten(n)
      /\ \E full \in BOOLEAN : socket' = [socket EXCEPT !.full = full]
      /\ ssl' = [ssl EXCEPT !.unsent = <<>>]
      /\ tls' = [tls EXCEPT !.pending = "None"]
      /\ UNCHANGED <<pc, client, job>>
  BY DEF Write, TextWritten, FileWritten
<1>2. /\ ssl \in [steps : Seq(Step), plain : Seq(Token), unsent : Seq(Unit)]
      /\ socket \in [inbox : Seq(Seq(Token \cup {"protocol"})), full : BOOLEAN, fin : BOOLEAN]
      /\ tls \in [complete : BOOLEAN, pending : {"None", "Accept", "Read", "Write"}]
      /\ transfer \in [size : Nat, buffer : Seq(Unit), buffered : Nat]
      /\ sent \in Seq(Unit) /\ Ordered(sent) /\ conn.answered \in Nat
      /\ Open /\ tls.complete
  BY <1>1, OfferedNext DEF Inv, Types, Order, Control, Flushing, ConnectionType
<1>3. PICK k \in 1 .. Len(Offered) :
        record = SubSeq(Offered, 1, k) /\ Len(record) = k /\ record \in Seq(Unit)
  BY <1>1, RecordOffered
<1>4. n = k
  BY <1>3
<1>5. \A i \in 1 .. Len(record) : record[i] = <<conn.answered + 1, Start(conn) + i>>
  <2>1. Offered \in Seq(Unit) /\ Len(Offered) \in Nat
        /\ \A i \in 1 .. Len(Offered) : Offered[i] = <<conn.answered + 1, Start(conn) + i>>
    BY <1>1, OfferedNext
  <2>2. \A i \in 1 .. k : record[i] = Offered[i] /\ i \in 1 .. Len(Offered)
    BY <1>3, <2>1, PrefixOf
  <2> QED
    BY <1>3, <2>1, <2>2
<1> HIDE DEF record, n
<1>6. sent' \in Seq(Unit) /\ Ordered(sent') /\ LastOf(sent') = <<conn.answered + 1, Start(conn) + k>>
  <2> DEFINE m == conn.answered + 1
  <2>1. Start(conn) \in Nat /\ m \in Nat
    <3>1. Start(conn) \in Nat
      BY <1>1, OfferedNext
    <3> QED
      BY <1>2, <3>1
  <2>e. record # <<>>
    BY <1>3, EmptySeq
  <2>2. \/ LastOf(sent) = <<conn.answered + 1, Start(conn)>>
        \/ Start(conn) = 0 /\ LastOf(sent)[1] = (conn.answered + 1) - 1 /\ Ended(LastOf(sent))
    BY <1>1, OfferedNext
  <2> HIDE DEF m
  <2>3. \A i \in 1 .. Len(record) : record[i] = <<m, Start(conn) + i>>
    BY <1>5 DEF m
  <2>4. \/ LastOf(sent) = <<m, Start(conn)>>
        \/ Start(conn) = 0 /\ LastOf(sent)[1] = m - 1 /\ Ended(LastOf(sent))
    BY <2>2 DEF m
  <2>5. sent \in Seq(Unit) /\ record \in Seq(Unit) /\ Ordered(sent)
    BY <1>2, <1>3
  <2> DEFINE base == Start(conn)
  <2> HIDE DEF base
  <2>6. /\ sent \o record \in Seq(Unit) /\ Ordered(sent \o record)
        /\ LastOf(sent \o record) = <<m, base + Len(record)>>
    <3>1. base \in Nat /\ (\A i \in 1 .. Len(record) : record[i] = <<m, base + i>>)
      BY <2>1, <2>3 DEF base
    <3>2. \/ LastOf(sent) = <<m, base>>
          \/ base = 0 /\ LastOf(sent)[1] = m - 1 /\ Ended(LastOf(sent))
      BY <2>4 DEF base
    <3> QED
      BY <2>1, <2>5, <2>e, <3>1, <3>2, OrderGrows
  <2> QED
    BY <1>1, <1>3, <2>6 DEF m, base
<1>7. /\ ssl' \in [steps : Seq(Step), plain : Seq(Token), unsent : Seq(Unit)]
      /\ ssl'.steps = <<>> /\ ssl'.unsent = <<>>
  <2>1. <<>> \in Seq(Unit)
    OBVIOUS
  <2> QED
    BY <1>1, <1>2, <2>1
<1>8. /\ tls' \in [complete : BOOLEAN, pending : {"None", "Accept", "Read", "Write"}]
      /\ tls'.complete /\ tls'.pending = "None"
  BY <1>1, <1>2
<1>9. /\ socket' \in [inbox : Seq(Seq(Token \cup {"protocol"})), full : BOOLEAN, fin : BOOLEAN]
      /\ socket'.inbox = socket.inbox
  BY <1>1, <1>2
<1>10. /\ Open' /\ conn' \in ConnectionType /\ Flushing(conn') /\ Files' /\ Order' /\ Submitted'
       /\ transfer' \in [size : Nat, buffer : Seq(Unit), buffered : Nat]
  <2>1. CASE conn.writeBuffer # NoResponse
    <3>1. transfer' = transfer
      BY <1>1, <2>1 DEF TextWritten
    <3> QED
      BY <1>1, <1>2, <1>4, <1>6, <2>1, <3>1, WriteText
  <2>2. CASE conn.writeBuffer = NoResponse
    BY <1>1, <1>4, <1>6, <2>2, WriteFile
  <2> QED
    BY <2>1, <2>2
<1>11. Types'
  BY <1>1, <1>6, <1>7, <1>8, <1>9, <1>10 DEF Inv, Types
<1>12. Control'
  BY <1>1, <1>8, <1>10 DEF Control
<1>13. Session'
  <2>1. Inbox'
    <3>1. ssl'.steps = ssl.steps
      BY <1>1, <1>7
    <3> QED
      BY <1>2, <1>9, <3>1 DEF Inbox, Expected, Inv, Session
  <2> QED
    BY <1>1, <1>7, <2>1 DEF Session
<1>14. Retry'
  BY <1>7 DEF Retry
<1> QED
  BY <1>10, <1>11, <1>12, <1>13, <1>14 DEF Inv

\* A write that gives up is where it was in the file.
LEMMA WriteWantsInv == ASSUME Inv, WriteWants PROVE Inv'
<1> DEFINE k == transfer.buffered - Len(transfer.buffer)
           f == conn.fileTransfer - k
           o == conn.owed - k
<1>1. /\ pc = "flush" /\ Offered # <<>> /\ pc' = "wait"
      /\ tls' = [tls EXCEPT !.pending = "Write"]
      /\ UNCHANGED <<transfer, client, job, sent>>
  BY DEF WriteWants
<1>2. /\ ssl \in [steps : Seq(Step), plain : Seq(Token), unsent : Seq(Unit)]
      /\ socket \in [inbox : Seq(Seq(Token \cup {"protocol"})), full : BOOLEAN, fin : BOOLEAN]
      /\ tls \in [complete : BOOLEAN, pending : {"None", "Accept", "Read", "Write"}]
      /\ transfer \in [size : Nat, buffer : Seq(Unit), buffered : Nat]
      /\ Open /\ tls.complete /\ Flushing(conn) /\ conn \in ConnectionType
      /\ Due(conn)
  BY <1>1, OfferedNext DEF Inv, Types, Control, Flushing, Files
<1>3. PICK interest \in {"read", "write"} :
        /\ conn' = [Counted(conn) EXCEPT !.interest = interest]
        /\ \/ /\ UNCHANGED <<ssl, socket>> /\ ssl.steps # <<>>
              /\ interest = IF Expected THEN "read" ELSE "write"
           \/ /\ ssl.steps = <<>> /\ interest = "write"
              /\ ssl' = [ssl EXCEPT !.unsent = Record(Offered)]
              /\ socket' = [socket EXCEPT !.full = TRUE]
  <2>1. WantsRead => ssl.steps # <<>> /\ Expected
    BY <1>1, <1>2, WantsWhat
  <2>2. WantsWrite => ssl.steps # <<>> /\ ~Expected
    BY <1>1, <1>2, WantsWhat
  <2> QED
    BY <2>1, <2>2 DEF WriteWants
<1>4. PICK n \in 1 .. Len(Offered) :
        Record(Offered) = SubSeq(Offered, 1, n) /\ Record(Offered) \in Seq(Unit)
  BY <1>1, RecordOffered
<1>5. /\ ssl' \in [steps : Seq(Step), plain : Seq(Token), unsent : Seq(Unit)]
      /\ ssl'.steps = ssl.steps
      /\ ssl'.unsent = ssl.unsent \/ ssl'.unsent = Record(Offered)
      /\ socket' \in [inbox : Seq(Seq(Token \cup {"protocol"})), full : BOOLEAN, fin : BOOLEAN]
      /\ socket'.inbox = socket.inbox
  <2>1. CASE UNCHANGED <<ssl, socket>>
    BY <1>2, <2>1
  <2>2. CASE /\ ssl' = [ssl EXCEPT !.unsent = Record(Offered)]
             /\ socket' = [socket EXCEPT !.full = TRUE]
    BY <1>2, <1>4, <2>2
  <2> QED
    BY <1>3, <2>1, <2>2
<1>6. /\ tls' \in [complete : BOOLEAN, pending : {"None", "Accept", "Read", "Write"}]
      /\ tls'.complete /\ tls'.pending = "Write"
  BY <1>1, <1>2
<1>7. /\ k \in Nat /\ f \in Nat /\ o \in Nat /\ o >= f /\ (KeepsSize => o = f)
      /\ conn.writeBuffer # NoResponse => k = 0 /\ transfer.buffer = <<>>
      /\ conn.writeBuffer = NoResponse =>
           /\ Len(transfer.buffer) <= f /\ f <= transfer.size /\ f > 0
           /\ transfer.size - f = Position
           /\ LastOf(sent) = <<conn.answered + 1, HeadUnits + Position>>
  <2> DEFINE len == Len(transfer.buffer)
             b == transfer.buffered
             ft == conn.fileTransfer
             owed == conn.owed
             size == transfer.size
  <2>1. len \in Nat /\ b \in Nat /\ ft \in Nat /\ owed \in Nat /\ size \in Nat /\ owed >= ft
    BY <1>2, LenProperties DEF ConnectionType, Due
  <2>k. KeepsSize => o = f
    <3>1. KeepsSize => owed = ft
      BY <1>2 DEF Due
    <3> QED
      BY <3>1
  <2>2. CASE conn.writeBuffer # NoResponse
    <3>1. transfer.buffer = <<>> /\ b = 0
      BY <1>1, <2>2, OfferedNext
    <3>2. k = 0
      <4>1. len = 0
        BY <3>1, EmptySeq
      <4>2. k = b - len
        OBVIOUS
      <4> HIDE DEF k, b, len
      <4> QED
        BY <3>1, <4>1, <4>2
    <3> HIDE DEF k, ft, owed
    <3>3. ft - k \in Nat /\ owed - k \in Nat /\ owed - k >= ft - k
      BY <2>1, <3>2
    <3> QED
      BY <2>2, <2>k, <3>1, <3>2, <3>3 DEF ft, owed
  <2>3. CASE conn.writeBuffer = NoResponse
    <3>1. /\ Offered = transfer.buffer /\ len <= b /\ b <= ft /\ ft <= size
          /\ Position = FileSent + (b - len)
          /\ LastOf(sent) = <<conn.answered + 1, Start(conn)>> /\ Len(Offered) \in Nat \ {0}
      BY <1>1, <2>3, OfferedNext
    <3>2. Position = (size - ft) + (b - len) /\ len \in Nat \ {0}
      BY <3>1 DEF FileSent
    <3>3. LastOf(sent) = <<conn.answered + 1, HeadUnits + Position>>
      BY <2>3, <3>1 DEF Start
    <3>a. len <= b /\ b <= ft /\ ft <= size
      BY <3>1
    <3> HIDE DEF len, b, ft, owed, size
    <3>4. LET j == b - len
          IN  /\ j \in Nat /\ ft - j \in Nat /\ owed - j \in Nat /\ owed - j >= ft - j
              /\ len <= ft - j /\ ft - j <= size /\ ft - j > 0 /\ size - (ft - j) = Position
      BY <2>1, <3>2, <3>a
    <3> QED
      BY <2>3, <2>k, <3>3, <3>4 DEF len, b, ft, owed, size
  <2> QED
    BY <2>2, <2>3
<1>8. conn' = [conn EXCEPT !.fileTransfer = f, !.owed = o, !.interest = interest]
  BY <1>2, <1>3 DEF Counted
<1> HIDE DEF k, f, o
<1>9. /\ conn' \in ConnectionType /\ conn'.fileTransfer = f /\ conn'.owed = o
      /\ conn'.interest = interest /\ conn'.id = conn.id /\ conn'.writeBuffer = conn.writeBuffer
      /\ conn'.answered = conn.answered /\ conn'.parsed = conn.parsed
      /\ conn'.responsePending = conn.responsePending /\ conn'.requestBody = conn.requestBody
  BY <1>2, <1>7, <1>8 DEF ConnectionType
<1>10. Open' /\ Offered' = Offered
  BY <1>1, <1>2, <1>9, Absent DEF Open, Offered, Text
<1>11. Writing(conn') /\ Busy(conn')
  BY <1>7, <1>9 DEF Writing, Busy
<1>12. Loose(conn')
  BY <1>2, <1>9, <1>11 DEF Loose, Flushing
<1>13. conn.writeBuffer = NoResponse => Position' = Position
  <2>1. Position' = transfer.size - f + 0
    BY <1>1, <1>9 DEF Position, FileSent
  <2> QED
    BY <1>2, <1>7, <2>1
<1>14. Types'
  BY <1>1, <1>5, <1>6, <1>9 DEF Inv, Types
<1>15. Control'
  BY <1>1, <1>6, <1>10, <1>11, <1>12 DEF Control
<1>16. Session'
  <2>1. Inbox'
    BY <1>2, <1>5 DEF Inbox, Expected, Inv, Session
  <2>2. ssl.steps # <<>> => client.later < MaxLater
    BY <1>2 DEF Inv, Session
  <2>3. Expected' = Expected
    BY <1>5 DEF Expected
  <2>4. Usual(conn') = "write"
    BY <1>2, <1>9, <1>11 DEF Usual, Flushing
  <2>5. IF ssl'.steps # <<>> THEN conn'.interest = IF Expected' THEN "read" ELSE "write"
        ELSE conn'.interest = Usual(conn')
    BY <1>3, <1>5, <1>9, <2>3, <2>4
  <2> QED
    BY <1>1, <1>5, <1>6, <1>11, <2>1, <2>2, <2>5 DEF Session
<1>17. Files'
  <2>d. Due(conn')
    BY <1>7, <1>9 DEF Due
  <2>1. conn.writeBuffer # NoResponse /\ conn.fileTransfer > 0 => conn.fileTransfer = transfer.size
    BY <1>2 DEF Inv, Files
  <2>2. CASE conn.writeBuffer # NoResponse
    <3>1. f = conn.fileTransfer
      <4>1. conn.fileTransfer \in Nat /\ k = 0
        BY <1>2, <1>7, <2>2 DEF ConnectionType
      <4> QED
        BY <4>1 DEF f
    <3> QED
      BY <1>1, <1>2, <1>7, <1>9, <2>d, <2>1, <2>2, <3>1 DEF Files
  <2>3. CASE conn.writeBuffer = NoResponse
    <3>1. \A i \in 1 .. Len(transfer.buffer) :
            transfer.buffer[i] = <<conn.answered + 1, HeadUnits + Position + i>>
      BY <1>1, <1>2 DEF Inv, Files
    <3> QED
      BY <1>1, <1>7, <1>9, <1>13, <2>d, <2>3, <3>1 DEF Files
  <2> QED
    BY <2>2, <2>3
<1>18. Order'
  <2>1. CASE conn.writeBuffer # NoResponse
    BY <1>1, <1>2, <1>9, <2>1 DEF Inv, Order
  <2>2. CASE conn.writeBuffer = NoResponse
    <3>1. Ordered(sent')
      BY <1>1 DEF Inv, Order
    <3> QED
      BY <1>1, <1>7, <1>9, <1>13, <2>2, <3>1 DEF Order
  <2> QED
    BY <2>1, <2>2
<1>19. Retry'
  <2>1. ssl.unsent # <<>> => \E j \in 1 .. Len(Offered) : ssl.unsent = SubSeq(Offered, 1, j)
    BY <1>2 DEF Inv, Retry
  <2>2. ssl'.unsent # <<>> => \E j \in 1 .. Len(Offered) : ssl'.unsent = SubSeq(Offered, 1, j)
    BY <1>4, <1>5, <2>1
  <2> QED
    BY <1>1, <1>6, <1>10, <2>2 DEF Retry
<1>20. Submitted'
  BY <1>1, <1>2, <1>9, <1>10 DEF Inv, Submitted, Flushing
<1> QED
  BY <1>14, <1>15, <1>16, <1>17, <1>18, <1>19, <1>20 DEF Inv

\* The next part of the file follows what has been written.
LEMMA ReadFileInv == ASSUME Inv, ReadFile PROVE Inv'
<1> DEFINE part == Min({TlsFileChunk, conn.fileTransfer})
           next(k) == [i \in 1 .. k |-> <<conn.answered + 1, HeadUnits + FileSent + i>>]
<1>1. /\ pc = "flush" /\ Offered = <<>> /\ conn.fileTransfer > 0
      /\ UNCHANGED <<pc, tls, ssl, socket, client, job, sent>>
  BY DEF ReadFile
<1>2. /\ Open /\ Flushing(conn) /\ conn \in ConnectionType
      /\ transfer \in [size : Nat, buffer : Seq(Unit), buffered : Nat]
  BY <1>1 DEF Inv, Types, Control, Flushing
<1>3. /\ conn.fileTransfer \in Nat /\ conn.answered \in Nat /\ transfer.size \in Nat
      /\ conn.owed \in Nat /\ Due(conn) /\ conn.fileTransfer <= transfer.size
      /\ HeadUnits \in Nat /\ TlsFileChunk \in Nat \ {0}
  BY <1>1, <1>2, ConnectionAssumption, TlsAssumption DEF ConnectionType, Inv, Files
<1>4. part \in 1 .. conn.fileTransfer
  BY <1>1, <1>3, MinOfTwo
<1>5. conn.writeBuffer = NoResponse /\ transfer.buffer = <<>>
  <2>1. conn.writeBuffer = NoResponse
    <3>1. SUFFICES ASSUME conn.writeBuffer # NoResponse PROVE FALSE
      OBVIOUS
    <3>2. conn.writeBuffer.left \in Nat \ {0} /\ Text(conn) = <<>>
      BY <1>1, <1>2, <3>1 DEF ConnectionType, Response, Offered
    <3>3. DOMAIN Text(conn) = 1 .. conn.writeBuffer.left
      BY DEF Text
    <3>4. 1 \in DOMAIN Text(conn)
      BY <3>2, <3>3
    <3> QED
      BY <3>2, <3>4
  <2> QED
    BY <1>1, <2>1 DEF Offered
<1> HIDE DEF part
<1>6. PICK k \in (IF TRUE \in FileShrinks THEN 0 ELSE part) .. part :
        /\ transfer' = [transfer EXCEPT !.buffer = next(k), !.buffered = k]
        /\ conn' = IF k = 0 THEN [conn EXCEPT !.fileTransfer = 0] ELSE conn
  BY DEF ReadFile, part
<1>7. k \in Nat /\ k <= conn.fileTransfer /\ (KeepsSize => k # 0)
  <2> DEFINE low == IF TRUE \in FileShrinks THEN 0 ELSE part
  <2>1. low \in Nat
    <3>1. part \in Nat
      BY <1>3, <1>4
    <3>2. low = 0 \/ low = part
      OBVIOUS
    <3> HIDE DEF low
    <3> QED
      BY <3>1, <3>2
  <2>2. k \in low .. part
    OBVIOUS
  <2>3. KeepsSize => low = part
    BY DEF KeepsSize
  <2> HIDE DEF low
  <2> QED
    BY <1>3, <1>4, <2>1, <2>2, <2>3
<1>8. FileSent \in Nat /\ FileSent = transfer.size - conn.fileTransfer
  BY <1>3 DEF FileSent
<1>9. Position = FileSent
  BY <1>5, <1>8 DEF Position
<1>10. next(k) \in Seq(Unit) /\ Len(next(k)) = k
       /\ \A i \in 1 .. k : next(k)[i] = <<conn.answered + 1, HeadUnits + FileSent + i>>
  <2>1. \A i \in 1 .. k : <<conn.answered + 1, HeadUnits + FileSent + i>> \in Unit
    BY <1>3, <1>7, <1>8 DEF Unit
  <2> QED
    BY <1>7, <2>1
<1> HIDE DEF next
<1>11. /\ transfer' \in [size : Nat, buffer : Seq(Unit), buffered : Nat]
       /\ transfer'.size = transfer.size /\ transfer'.buffer = next(k) /\ transfer'.buffered = k
  BY <1>2, <1>6, <1>7, <1>10
<1>12. /\ conn' \in ConnectionType /\ conn'.writeBuffer = NoResponse /\ conn'.owed = conn.owed
       /\ conn'.fileTransfer = (IF k = 0 THEN 0 ELSE conn.fileTransfer)
       /\ conn'.interest = conn.interest /\ conn'.id = conn.id
       /\ conn'.answered = conn.answered /\ conn'.parsed = conn.parsed
       /\ conn'.responsePending = conn.responsePending /\ conn'.requestBody = conn.requestBody
  BY <1>2, <1>5, <1>6 DEF ConnectionType
<1>13. Open' /\ Flushing(conn')
  BY <1>2, <1>12, Absent DEF Open, Flushing
<1>14. ssl.steps = <<>> /\ ssl.unsent = <<>>
  <2>1. ssl.steps = <<>>
    BY <1>1, <1>2 DEF Inv, Session
  <2>2. Len(Offered) = 0
    BY <1>1, EmptySeq
  <2>3. ssl.unsent = <<>>
    BY <1>2, <2>2 DEF Inv, Retry
  <2> QED
    BY <2>1, <2>3
<1>15. k # 0 => Position' = FileSent
  <2>1. k # 0 => FileSent' = FileSent
    BY <1>6, <1>11 DEF FileSent
  <2>2. k - k = 0 /\ FileSent + 0 = FileSent
    BY <1>7, <1>8
  <2> QED
    BY <1>1, <1>10, <1>11, <2>1, <2>2 DEF Position
<1>16. Types'
  BY <1>1, <1>11, <1>12 DEF Inv, Types
<1>17. Control'
  BY <1>1, <1>2, <1>13 DEF Inv, Control
<1>18. Session'
  <2>1. Inbox'
    BY <1>1, <1>2 DEF Inbox, Expected, Inv, Session
  <2> QED
    BY <1>1, <1>14, <2>1 DEF Session
<1>19. Files'
  <2>d. Due(conn')
    BY <1>3, <1>7, <1>12 DEF Due
  <2>1. CASE k = 0
    <3>1. next(k) = <<>>
      BY <1>10, <2>1, EmptySeq
    <3> QED
      BY <1>3, <1>11, <1>12, <2>d, <2>1, <3>1 DEF Files
  <2>2. CASE k # 0
    <3>1. \A i \in 1 .. Len(transfer'.buffer) :
            transfer'.buffer[i] = <<conn'.answered + 1, HeadUnits + Position' + i>>
      BY <1>10, <1>11, <1>12, <1>15, <2>2
    <3>2. k <= k
      BY <1>7
    <3> QED
      BY <1>3, <1>7, <1>10, <1>11, <1>12, <2>d, <2>2, <3>1, <3>2 DEF Files
  <2> QED
    BY <2>1, <2>2
<1>20. Order'
  <2>1. Ordered(sent') /\ LastOf(sent') = <<conn.answered + 1, HeadUnits + FileSent>>
    BY <1>1, <1>2, <1>5, <1>9 DEF Inv, Order
  <2>2. Ended(LastOf(sent'))
    <3>1. FileSent \in Nat
      BY <1>3 DEF FileSent
    <3> QED
      BY <1>3, <2>1, <3>1 DEF Ended
  <2> QED
    BY <1>1, <1>12, <1>15, <2>1, <2>2 DEF Order
<1>21. Retry'
  BY <1>1, <1>14 DEF Retry
<1>22. Submitted'
  BY <1>1, <1>2, <1>12, <1>13 DEF Inv, Submitted
<1> QED
  BY <1>16, <1>17, <1>18, <1>19, <1>20, <1>21, <1>22 DEF Inv

\* The response is out: it is counted, and the next request looked for.
LEMMA WriteDoneInv == ASSUME Inv, WriteDone PROVE Inv'
<1> DEFINE n == conn.answered + 1
           c == [conn EXCEPT !.answered = n]
           r(accepts) == NextRequest(c, accepts)
<1>1. /\ pc = "flush" /\ Offered = <<>> /\ conn.fileTransfer = 0
      /\ \/ Close
         \/ /\ \E accepts \in BOOLEAN : Commit(r(accepts), "wait")
            /\ UNCHANGED <<tls, transfer, ssl, socket, client, sent>>
  BY DEF WriteDone
<1> HIDE DEF r
<1>2. CASE Close
  BY <1>2, CloseStep
<1>3. CASE /\ \E accepts \in BOOLEAN : Commit(r(accepts), "wait")
           /\ UNCHANGED <<tls, transfer, ssl, socket, client, sent>>
  <2>1. Open /\ Flushing(conn) /\ conn \in ConnectionType /\ tls.complete
        /\ tls \in [complete : BOOLEAN, pending : {"None", "Accept", "Read", "Write"}]
    BY <1>1 DEF Inv, Control, Flushing, Types
  <2>2. conn.writeBuffer = NoResponse /\ transfer.buffer = <<>>
    <3>1. conn.writeBuffer = NoResponse
      <4>1. SUFFICES ASSUME conn.writeBuffer # NoResponse PROVE FALSE
        OBVIOUS
      <4>2. conn.writeBuffer.left \in Nat \ {0} /\ Text(conn) = <<>>
        BY <1>1, <2>1, <4>1, ConnectionAssumption DEF ConnectionType, Response, Offered
      <4>3. DOMAIN Text(conn) = 1 .. conn.writeBuffer.left
        BY DEF Text
      <4>4. 1 \in DOMAIN Text(conn)
        BY <4>2, <4>3
      <4> QED
        BY <4>2, <4>4
    <3> QED
      BY <1>1, <3>1 DEF Offered
  <2>3. n \in Nat /\ conn.parsed = n /\ conn.requestBody = NoBody /\ ~conn.responsePending
    BY <2>1 DEF Flushing, ConnectionType
  <2> HIDE DEF n
  <2>4. /\ Ready(c) /\ c.requestBody = NoBody /\ SameFile(c, conn) /\ c.answered = n
    <3>1. /\ c \in ConnectionType /\ c.answered = n /\ SameFile(c, conn)
          /\ c.parsed = conn.parsed /\ c.requestBody = conn.requestBody
          /\ c.responsePending = conn.responsePending /\ c.writeBuffer = conn.writeBuffer
          /\ c.fileTransfer = conn.fileTransfer
      BY <2>1, <2>3 DEF ConnectionType, SameFile
    <3>2. ~Busy(c)
      BY <1>1, <2>2, <2>3, <3>1 DEF Busy, Writing
    <3> QED
      BY <2>3, <3>1, <3>2 DEF Ready
  <2> HIDE DEF c
  <2>5. PICK accepts \in BOOLEAN : Commit(r(accepts), "wait")
    BY <1>3
  <2> DEFINE d == r(accepts).conn
  <2>6. /\ Sound(d) /\ SameFile(d, conn)
        /\ IF r(accepts).submit = NoTask THEN ~d.responsePending
           ELSE d.responsePending /\ r(accepts).submit \in SubmissionType
    BY <2>4, NextRequestFine DEF Fine, SameFile, r
  <2>7. Whole(d, c)
    BY <2>4, NextRequestWhole DEF r
  <2>8. Loose(d) /\ d.interest = Usual(d) /\ d \in ConnectionType
    BY <2>6, SoundLoose DEF Loose
  <2>9. job = NoTask
    BY <2>1, <2>3 DEF Inv, Submitted
  <2>10. conn' = d /\ pc' = "wait" /\ Open' /\ Submitted' /\ job' \in JobType \cup {NoTask}
    BY <2>5, <2>6, <2>8, <2>9, CommitSubmitted
  <2> HIDE DEF d
  <2>11. ssl.steps = <<>> /\ ssl.unsent = <<>>
    <3>1. ssl.steps = <<>>
      BY <1>1, <2>1 DEF Inv, Session
    <3>2. Len(Offered) = 0
      BY <1>1, EmptySeq
    <3>3. ssl.unsent = <<>>
      BY <2>1, <3>2 DEF Inv, Retry
    <3> QED
      BY <3>1, <3>3
  <2>12. Types'
    BY <1>3, <2>8, <2>10 DEF Inv, Types
  <2>14. tls.pending = "None"
    BY <1>1, <2>1 DEF Inv, Control
  <2>15. Control'
    BY <1>3, <2>1, <2>8, <2>10, <2>14 DEF Control
  <2>16. Session'
    <3>1. Inbox'
      BY <1>3, <2>1 DEF Inbox, Expected, Inv, Session
    <3>2. ~Busy(d) => Usual(d) = "read"
      BY DEF Busy, Usual
    <3> QED
      BY <1>3, <2>1, <2>8, <2>10, <2>11, <3>1, <3>2 DEF Session
  <2>17. Files'
    <3>1. Due(conn)
      BY <2>1 DEF Inv, Files
    <3>2. Due(conn')
      BY <2>6, <2>10, <3>1 DEF Due, SameFile
    <3> QED
      BY <1>1, <1>3, <2>2, <2>6, <2>10, <3>2 DEF Files, SameFile
  <2>18. Order'
    <3>1. Ordered(sent) /\ LastOf(sent)[1] = n /\ Ended(LastOf(sent))
      BY <1>1, <2>1, <2>2 DEF Inv, Order, n
    <3>2. d.answered = n /\ d.fileTransfer = 0 /\ n + 0 = n
      BY <1>1, <2>3, <2>4, <2>6, <2>7 DEF Whole, SameFile
    <3> QED
      BY <1>3, <2>7, <2>10, <3>1, <3>2 DEF Order, Whole
  <2>19. Retry'
    BY <1>3, <2>11 DEF Retry
  <2> QED
    BY <2>10, <2>12, <2>15, <2>16, <2>17, <2>18, <2>19 DEF Inv
<1> QED
  BY <1>1, <1>2, <1>3

\* A pending connection waits for nothing but its response.
LEMMA PendingSound ==
  ASSUME Inv, Open, pc = "wait", conn.responsePending
  PROVE  /\ Sound(conn) /\ ssl.steps = <<>> /\ ssl.unsent = <<>>
         /\ tls.complete /\ tls.pending = "None" /\ conn.interest = "none"
<1>1. /\ Loose(conn) /\ Busy(conn) /\ ~Writing(conn) /\ conn.requestBody = NoBody
      /\ conn \in ConnectionType
      /\ tls \in [complete : BOOLEAN, pending : {"None", "Accept", "Read", "Write"}]
  BY DEF Inv, Control, Loose, Busy, Types
<1>2. Offered = <<>>
  <2>1. conn.writeBuffer = NoResponse /\ conn.fileTransfer = 0
    BY <1>1 DEF Writing, ConnectionType
  <2>2. transfer.buffer = <<>>
    <3>1. transfer.buffer \in Seq(Unit)
      BY DEF Inv, Types
    <3>2. transfer.buffer # <<>> => Len(transfer.buffer) <= 0 /\ Len(transfer.buffer) \in Nat \ {0}
      BY <2>1, <3>1, EmptySeq, LenProperties DEF Inv, Files
    <3> QED
      BY <3>2
  <2> QED
    BY <2>1, <2>2 DEF Offered
<1>3. tls.pending = "None" /\ tls.complete
  BY <1>1, <1>2 DEF Inv, Control
<1>4. ssl.steps = <<>>
  BY <1>3 DEF Inv, Session
<1>5. conn.interest = Usual(conn)
  BY <1>1, <1>4 DEF Inv, Session
<1>6. ssl.unsent = <<>>
  BY <1>3 DEF Inv, Retry
<1>7. Sound(conn)
  BY <1>1, <1>5 DEF Sound, Loose, Usual
<1> QED
  BY <1>3, <1>4, <1>5, <1>6, <1>7 DEF Usual

LEMMA DeliverInv == ASSUME Inv, Deliver PROVE Inv'
<1>1. /\ pc = "wait" /\ job # NoTask /\ job' = NoTask
      /\ UNCHANGED <<pc, tls, ssl, socket, client, sent>>
  BY DEF Deliver
<1>2. CASE ~Open
  <2>1. UNCHANGED <<conn, transfer>>
    BY <1>2 DEF Deliver
  <2>2. Types' /\ Ordered(sent')
    BY <1>1, <2>1 DEF Inv, Types, Order
  <2>3. ~Open'
    BY <1>2, <2>1 DEF Open
  <2> QED
    BY <1>1, <2>2, <2>3 DEF Inv, Control, Session, Files, Order, Retry, Submitted
<1>3. CASE Open
  <2>1. PICK opened \in BOOLEAN :
          /\ conn' = Install(conn, BuildResponse(job), opened)
          /\ transfer' = [size |-> conn'.fileTransfer, buffer |-> <<>>, buffered |-> 0]
    BY <1>3 DEF Deliver
  <2> DEFINE m == BuildResponse(job)
  <2>2. /\ conn.responsePending /\ job.id = conn.id /\ job.n = conn.parsed
        /\ job \in JobType
    BY <1>1, <1>3 DEF Inv, Submitted, Types
  <2>3. CompletionFor(m, conn)
    <3>1. Parsed[job.kind] \in KindType
      BY <2>2, ParsedType DEF JobType
    <3> QED
      BY <2>2, <3>1 DEF CompletionFor, BuildResponse, KindType
  <2>4. /\ Sound(conn) /\ ssl.steps = <<>> /\ ssl.unsent = <<>>
        /\ tls.complete /\ tls.pending = "None" /\ conn.interest = "none"
    BY <1>1, <1>3, <2>2, PendingSound
  <2> HIDE DEF m
  <2>5. conn' = Install(conn, m, opened)
    BY <2>1 DEF m
  <2>6. /\ Sound(conn') /\ Busy(conn') /\ conn'.id = conn.id /\ ~conn'.responsePending
        /\ conn'.fileTransfer = conn'.owed
    BY <2>2, <2>3, <2>4, <2>5, InstallFine
  <2>7. conn \in ConnectionType /\ conn' \in ConnectionType
    BY <2>4, <2>6 DEF Sound
  <2>8. Whole(conn', conn) /\ conn'.writeBuffer # NoResponse
    BY <2>3, <2>5, <2>7, InstallWhole
  <2>9. Loose(conn') /\ conn'.interest = Usual(conn')
    BY <2>6, SoundLoose
  <2>10. Open'
    BY <2>7, Absent DEF Open
  <2>11. conn'.fileTransfer \in Nat /\ conn'.owed \in Nat
    BY <2>7 DEF ConnectionType
  <2>12. /\ transfer' \in [size : Nat, buffer : Seq(Unit), buffered : Nat]
         /\ transfer'.size = conn'.fileTransfer /\ transfer'.buffer = <<>>
    <3>1. <<>> \in Seq(Unit)
      OBVIOUS
    <3> QED
      BY <2>1, <2>11, <3>1
  <2>13. Types'
    BY <1>1, <2>7, <2>12 DEF Inv, Types
  <2>14. Control'
    BY <1>1, <2>4, <2>9, <2>10 DEF Control
  <2>15. Session'
    <3>1. Inbox'
      BY <1>1, <1>3 DEF Inbox, Expected, Inv, Session
    <3> QED
      BY <1>1, <2>4, <2>6, <2>9, <3>1 DEF Session
  <2>16. Files'
    BY <1>1, <2>6, <2>11, <2>12 DEF Files, Due
  <2>17. Order'
    <3>1. conn.writeBuffer = NoResponse /\ conn.fileTransfer = 0
      <4>1. ~Writing(conn)
        BY <2>2, <2>4 DEF Sound
      <4> QED
        BY <2>7, <4>1 DEF Writing, ConnectionType
    <3>2. Ordered(sent) /\ LastOf(sent)[1] = conn.answered + 0 /\ Ended(LastOf(sent))
      BY <1>1, <1>3, <3>1 DEF Inv, Order
    <3>3. conn.answered + 0 = conn.answered
      BY <2>7 DEF ConnectionType
    <3> QED
      BY <1>1, <2>8, <3>2, <3>3 DEF Order, Whole
  <2>18. Retry'
    BY <1>1, <2>4 DEF Retry
  <2>19. Submitted'
    BY <1>1, <2>6 DEF Submitted
  <2> QED
    BY <2>13, <2>14, <2>15, <2>16, <2>17, <2>18, <2>19 DEF Inv
<1> QED
  BY <1>2, <1>3

LEMMA NextInv == ASSUME Inv, [Next]_vars PROVE Inv'
<1>1. CASE UNCHANGED vars
  <2>1. UNCHANGED <<pc, conn, tls, transfer, ssl, socket, client, job, sent>>
    BY <1>1 DEF vars
  <2>2. Offered' = Offered /\ Position' = Position /\ Open' = Open /\ Expected' = Expected
    BY <2>1 DEF Offered, Position, FileSent, Open, Expected
  <2>3. Types' /\ Control' /\ Session'
    BY <2>1, <2>2 DEF Inv, Types, Control, Session, Inbox
  <2>4. Files' /\ Order' /\ Retry' /\ Submitted'
    BY <2>1, <2>2 DEF Inv, Files, Order, Retry, Submitted
  <2> QED
    BY <2>3, <2>4 DEF Inv
<1>2. CASE LoopStep
  <2>1. HandleClosed \/ StreamEnds => Close
    BY DEF HandleClosed, StreamEnds
  <2> QED
    BY <1>2, <2>1, CloseStep, BeginHandshakeInv, BeginReadInv, BeginWriteInv, AcceptWantsInv,
       AcceptDoneInv, ReadWantsInv, ReadInv, WriteInv, WriteWantsInv, ReadFileInv, WriteDoneInv,
       ProtocolStepInv, DeliverInv DEF LoopStep
<1>3. CASE ClientSteps
  BY <1>3, ClientStepsInv
<1>4. CASE Later
  BY <1>4, LaterInv
<1>5. CASE Breaks
  BY <1>5, CloseStep DEF Breaks
<1> QED
  BY <1>1, <1>2, <1>3, <1>4, <1>5 DEF Next

LEMMA InvHolds == SafetySpec => []Inv
<1>1. Init => Inv
  BY InitInv
<1>2. Inv /\ [Next]_vars => Inv'
  BY NextInv
<1> QED
  BY <1>1, <1>2, PTL DEF SafetySpec

----------------------------------------------------------------------------
(* What holds of every execution *)

\* Every variable stays in its type; so the count of what is left of a file,
\* which flushBuffer and writeToConnection lower by what OpenSSL took, never
\* falls below zero.
THEOREM TypesHold == SafetySpec => []TypeOK
<1>1. Inv => TypeOK
  <2> SUFFICES ASSUME Inv PROVE TypeOK
    OBVIOUS
  <2>1. client \in [script : Seq(Seq(Token) \ {<<>>}), later : 0 .. MaxLater]
    BY DEF Inv, Types
  <2>2. client.script \in Seq(Seq(Token))
    <3>1. client.script \in Seq(Seq(Token) \ {<<>>})
      BY <2>1
    <3>2. Seq(Token) \ {<<>>} \subseteq Seq(Token)
      OBVIOUS
    <3> QED
      BY <3>1, <3>2, SeqWiden
  <2>3. client \in [script : Seq(Seq(Token)), later : 0 .. MaxLater]
    BY <2>1, <2>2
  <2>4. job = NoTask \/ job.kind \in DOMAIN Request
    BY DEF Inv, Types, JobType
  <2> QED
    BY <2>3, <2>4 DEF Inv, Types, TypeOK
<1> QED
  BY <1>1, InvHolds, PTL

LEMMA OfferedUnits == ASSUME Inv, Open PROVE Offered \in Seq(Unit)
<1>1. conn \in ConnectionType /\ transfer.buffer \in Seq(Unit)
  BY OpenType DEF Inv, Types
<1>2. ASSUME conn.writeBuffer # NoResponse PROVE Text(conn) \in Seq(Unit)
  <2> DEFINE n == conn.writeBuffer.n
             left == conn.writeBuffer.left
  <2>1. n \in Nat /\ left \in 1 .. HeadUnits /\ HeadUnits \in Nat
    BY <1>1, <1>2, ConnectionAssumption DEF ConnectionType, Response
  <2>2. Text(conn) = [i \in 1 .. left |-> <<n, HeadUnits - left + i>>]
    BY DEF Text
  <2> HIDE DEF n, left
  <2>3. \A i \in 1 .. left : <<n, HeadUnits - left + i>> \in Unit
    BY <2>1 DEF Unit
  <2>4. left \in Nat
    BY <2>1
  <2> DEFINE text == [i \in 1 .. left |-> <<n, HeadUnits - left + i>>]
  <2>5. text \in Seq(Unit)
    BY <2>3, <2>4
  <2> QED
    BY <2>2, <2>5
<1>3. Offered = Text(conn) \/ Offered = transfer.buffer
  BY DEF Offered
<1>4. conn.writeBuffer # NoResponse \/ Offered = transfer.buffer
  BY DEF Offered
<1> QED
  BY <1>1, <1>2, <1>3, <1>4, Zenon

\* OpenSSL is offered again what it could not send: after WANT_READ or
\* WANT_WRITE flushBuffer is called with the same text, or with the same rest
\* of tlsBuffer, and until then the connection waits for that write.
THEOREM RetriesAreTheSame == SafetySpec => []RetryUnchanged
<1>1. Inv => RetryUnchanged
  <2> SUFFICES ASSUME Inv, Open, ssl.unsent # <<>>
               PROVE  /\ IsPrefix(ssl.unsent, Offered)
                      /\ (pc = "wait" => tls.pending = "Write")
    BY DEF RetryUnchanged
  <2>1. PICK n \in 1 .. Len(Offered) : ssl.unsent = SubSeq(Offered, 1, n)
    BY DEF Inv, Retry
  <2>2. pc = "flush" \/ (pc = "wait" /\ tls.pending = "Write")
    BY DEF Inv, Retry
  <2>3. Offered \in Seq(Unit)
    BY OfferedUnits
  <2>4. IsPrefix(ssl.unsent, Offered)
    <3>1. Len(SubSeq(Offered, 1, n)) = n
      BY <2>3, PrefixOf
    <3>2. n <= Len(Offered)
      BY <2>3, LenProperties
    <3> QED
      BY <2>1, <3>1, <3>2 DEF IsPrefix
  <2> QED
    BY <2>2, <2>4
<1> QED
  BY <1>1, InvHolds, PTL

\* As long as no file is truncated while it is sent, the client receives each
\* response from its first byte to its last, each byte once, and one response
\* after the other, however SSL_write cut the records and writes were repeated;
\* and fileTransfer.sent is what the client has whenever the loop waits.
THEOREM EveryByteOnce ==
  ASSUME FileShrinks = {FALSE}
  PROVE  SafetySpec => []ResponsesInOrder
<1>1. Inv => ResponsesInOrder
  <2> SUFFICES ASSUME Inv PROVE ResponsesInOrder
    OBVIOUS
  <2>1. sent \in Seq(Unit) /\ Ordered(sent)
    BY DEF Inv, Types, Order
  <2>o. ASSUME NEW i \in 1 .. Len(sent)
        PROVE  LET before == IF i = 1 THEN <<0, 0>> ELSE sent[i - 1]
               IN  \/ sent[i] = <<sent[i][1], before[2] + 1>> /\ before[1] = sent[i][1]
                   \/ sent[i] = <<before[1] + 1, 1>> /\ (i = 1 \/ before[2] >= HeadUnits)
    <3>1. Follows(Before(sent, i), sent[i])
      BY <2>1 DEF Ordered
    <3>2. ASSUME i # 1 PROVE sent[i - 1] # <<0, 0>>
      <4>1. i - 1 \in 1 .. Len(sent)
        BY <2>1, <3>2, LenProperties
      <4> QED
        BY <2>1, <4>1, UnitsCount
    <3>3. Ended(Before(sent, i)) => i = 1 \/ Before(sent, i)[2] >= HeadUnits
      BY <3>2 DEF Ended, Before
    <3> QED
      BY <3>1, <3>3 DEF Follows, Before
  <2>2. ASSUME Open, pc = "wait", conn.writeBuffer = NoResponse, conn.fileTransfer > 0
        PROVE  Last(sent) = <<conn.answered + 1, HeadUnits + FileSent>>
    <3>1. LastOf(sent) = <<conn.answered + 1, HeadUnits + Position>>
      BY <2>2 DEF Inv, Order
    <3>2. conn \in ConnectionType /\ transfer \in [size : Nat, buffer : Seq(Unit), buffered : Nat]
      BY <2>2, OpenType DEF Inv, Types
    <3>3. conn.answered \in Nat /\ FileSent \in Int
      BY <3>2 DEF ConnectionType, FileSent
    <3>4. Position = FileSent
      BY <2>2, <3>3 DEF Position
    <3>5. sent # <<>>
      <4>1. conn.answered + 1 # 0
        BY <3>3
      <4> QED
        BY <3>1, <4>1 DEF LastOf
    <3> QED
      BY <3>1, <3>4, <3>5 DEF LastOf, Last
  <2>3. ASSUME Open, pc = "wait", conn.writeBuffer = NoResponse, ~(conn.fileTransfer > 0)
        PROVE  conn.owed = 0 /\ (sent = <<>> \/ Last(sent)[2] >= HeadUnits)
    <3>1. conn.fileTransfer \in Nat /\ conn.owed = conn.fileTransfer
      BY <2>3, OpenType DEF Inv, Files, Due, KeepsSize, ConnectionType
    <3>2. Ended(LastOf(sent))
      BY <2>3 DEF Inv, Order
    <3>3. ASSUME sent # <<>> PROVE Last(sent)[2] >= HeadUnits
      <4>1. Len(sent) \in 1 .. Len(sent)
        BY <2>1, <3>3, EmptySeq, LenProperties
      <4>2. LastOf(sent) = sent[Len(sent)] /\ sent[Len(sent)] # <<0, 0>>
        BY <2>1, <3>3, <4>1, UnitsCount DEF LastOf
      <4> QED
        BY <3>2, <4>2 DEF Ended, Last
    <3> QED
      BY <2>3, <3>1, <3>3
  <2> QED
    BY <2>o, <2>2, <2>3 DEF ResponsesInOrder
<1> QED
  BY <1>1, InvHolds, PTL

----------------------------------------------------------------------------
(* Records that fit one read leave nothing inside OpenSSL. *)

Fit(records) == \A i \in 1 .. Len(records) : Len(records[i]) <= Chunk

Drained == ssl.plain = <<>> /\ Fit(socket.inbox) /\ Fit(client.script)

LEMMA FitTail ==
  ASSUME NEW S, NEW s \in Seq(S), s # <<>>, Fit(s)
  PROVE  Fit(Tail(s)) /\ Len(Head(s)) <= Chunk
<1>1. /\ Head(s) = s[1] /\ Len(s) \in Nat \ {0} /\ Len(Tail(s)) = Len(s) - 1
      /\ \A i \in 1 .. Len(Tail(s)) : Tail(s)[i] = s[i + 1]
  BY TailOf
<1>2. 1 \in 1 .. Len(s) /\ \A i \in 1 .. Len(Tail(s)) : i + 1 \in 1 .. Len(s)
  BY <1>1
<1> QED
  BY <1>1, <1>2 DEF Fit

LEMMA DrainedNext == ASSUME Inv, Drained, [Next]_vars PROVE Drained'
<1>1. socket.inbox \in Seq(Seq(Token \cup {"protocol"}))
      /\ client.script \in Seq(Seq(Token) \ {<<>>})
      /\ socket \in [inbox : Seq(Seq(Token \cup {"protocol"})), full : BOOLEAN, fin : BOOLEAN]
      /\ client \in [script : Seq(Seq(Token) \ {<<>>}), later : 0 .. MaxLater]
      /\ ssl \in [steps : Seq(Step), plain : Seq(Token), unsent : Seq(Unit)]
  BY DEF Inv, Types
<1>2. ASSUME ssl'.plain = ssl.plain, client'.script = client.script,
             socket'.inbox = socket.inbox \/ (socket.inbox # <<>> /\ socket'.inbox = Tail(socket.inbox))
      PROVE  Drained'
  <2>1. Fit(socket.inbox) /\ Fit(client.script) /\ ssl.plain = <<>>
    BY DEF Drained
  <2>2. Fit(socket.inbox')
    BY <1>1, <1>2, <2>1, FitTail
  <2>3. Fit(client.script')
    BY <1>2, <2>1
  <2> QED
    BY <1>2, <2>1, <2>2, <2>3 DEF Drained
<1>3. CASE SendProtocol
  <2>1. socket' = [socket EXCEPT !.inbox = << <<"protocol">> >>] /\ client' = client /\ ssl' = ssl
    BY <1>3 DEF SendProtocol, ClientStep
  <2>2. Fit(<< <<"protocol">> >>)
    <3> DEFINE s == << <<"protocol">> >>
    <3>1. Len(s) = 1 /\ s[1] = <<"protocol">> /\ Len(<<"protocol">>) = 1
      OBVIOUS
    <3>2. Chunk \in Nat \ {0}
      BY TlsAssumption
    <3> HIDE DEF s
    <3>3. \A i \in 1 .. Len(s) : i = 1
      BY <3>1
    <3> QED
      BY <3>1, <3>2, <3>3 DEF Fit, s
  <2>3. socket'.inbox = << <<"protocol">> >>
    BY <1>1, <2>1
  <2> QED
    BY <2>1, <2>2, <2>3 DEF Drained
<1>4. CASE SendRecord
  <2> DEFINE record == Head(client.script)
             inbox == Append(socket.inbox, record)
  <2>1. /\ client.script # <<>> /\ ssl' = ssl
        /\ socket' = [socket EXCEPT !.inbox = Append(@, Head(client.script))]
        /\ client' = [client EXCEPT !.script = Tail(@)]
    BY <1>4 DEF SendRecord, ClientStep
  <2>2. socket'.inbox = inbox /\ client'.script = Tail(client.script)
    BY <1>1, <2>1
  <2>3. Len(record) <= Chunk /\ Fit(Tail(client.script))
    BY <1>1, <2>1, FitTail DEF Drained
  <2>4. record \in Seq(Token \cup {"protocol"})
    <3>1. record \in Seq(Token)
      BY <1>1, <2>1, TailOf
    <3> QED
      BY <3>1, SeqWiden
  <2> HIDE DEF record
  <2>5. /\ Len(inbox) = Len(socket.inbox) + 1 /\ Len(socket.inbox) \in Nat
        /\ \A i \in 1 .. Len(inbox) :
             (i \in 1 .. Len(socket.inbox) /\ inbox[i] = socket.inbox[i]) \/ inbox[i] = record
    BY <1>1, <2>4, AppendProperties, LenProperties
  <2> HIDE DEF inbox
  <2>6. Fit(inbox)
    BY <2>3, <2>5 DEF Fit, Drained
  <2> QED
    BY <2>1, <2>2, <2>3, <2>6 DEF Drained
<1>5. CASE HalfClose
  <2>1. /\ socket' = [socket EXCEPT !.fin = TRUE] /\ client' = [client EXCEPT !.script = <<>>]
        /\ ssl' = ssl
    BY <1>5 DEF HalfClose, ClientStep
  <2>2. socket'.inbox = socket.inbox /\ client'.script = <<>>
    BY <1>1, <2>1
  <2>3. Fit(<<>>)
    BY DEF Fit
  <2> QED
    BY <2>1, <2>2, <2>3 DEF Drained
<1>6. CASE Read
  <2> DEFINE data == Head(socket.inbox)
             k == Min({Chunk, Len(data)})
  <2>1. /\ ssl.plain = <<>> /\ ssl.steps = <<>> /\ socket.inbox # <<>> /\ client' = client
        /\ ssl' = [ssl EXCEPT !.plain = SubSeq(data, k + 1, Len(data))]
        /\ socket' = [socket EXCEPT !.inbox = Tail(@)]
    BY <1>6 DEF Read, Drained
  <2>2. Len(data) <= Chunk /\ Fit(Tail(socket.inbox))
    BY <1>1, <2>1, FitTail DEF Drained
  <2>3. data \in Seq(Token \cup {"protocol"})
    BY <1>1, <2>1, TailOf
  <2> HIDE DEF data
  <2>4. Len(data) \in Nat /\ Chunk \in Nat
    BY <2>3, LenProperties, TlsAssumption
  <2>5. k = Len(data)
    BY <2>2, <2>4, MinOfTwo
  <2> HIDE DEF k
  <2>6. SubSeq(data, k + 1, Len(data)) = <<>>
    BY <2>3, <2>4, <2>5
  <2>7. ssl'.plain = <<>> /\ socket'.inbox = Tail(socket.inbox)
    BY <1>1, <2>1, <2>6
  <2> QED
    BY <2>1, <2>2, <2>7 DEF Drained
<1>7. CASE ProtocolStep
  <2>1. ssl'.plain = ssl.plain /\ client' = client
    BY <1>1, <1>7 DEF ProtocolStep
  <2>2. socket'.inbox = socket.inbox \/ (socket.inbox # <<>> /\ socket'.inbox = Tail(socket.inbox))
    BY <1>1, <1>7 DEF ProtocolStep
  <2> QED
    BY <1>2, <2>1, <2>2
<1>8. CASE Later
  <2>1. ssl'.plain = ssl.plain /\ client'.script = client.script /\ socket' = socket
    BY <1>1, <1>8 DEF Later
  <2> QED
    BY <1>2, <2>1
<1>9. CASE Write
  <2>1. ssl'.plain = ssl.plain /\ client' = client /\ socket'.inbox = socket.inbox
    BY <1>1, <1>9 DEF Write
  <2> QED
    BY <1>2, <2>1
<1>10. CASE WriteWants
  <2>1. ssl'.plain = ssl.plain /\ client' = client /\ socket'.inbox = socket.inbox
    BY <1>1, <1>10 DEF WriteWants
  <2> QED
    BY <1>2, <2>1
<1>11. CASE Receive
  <2>1. ssl' = ssl /\ client' = client /\ socket'.inbox = socket.inbox
    BY <1>1, <1>11 DEF Receive, ClientStep
  <2> QED
    BY <1>2, <2>1
<1>12. ASSUME UNCHANGED <<ssl, socket, client>> PROVE Drained'
  BY <1>2, <1>12
<1>13. CASE \/ HandleClosed \/ BeginHandshake \/ BeginRead \/ BeginWrite \/ AcceptWants
            \/ AcceptDone \/ ReadWants \/ StreamEnds \/ ReadFile \/ Deliver \/ Breaks
            \/ UNCHANGED vars
  BY <1>12, <1>13 DEF HandleClosed, BeginHandshake, BeginRead, BeginWrite, AcceptWants, AcceptDone,
     ReadWants, StreamEnds, ReadFile, Deliver, Breaks, Close, vars
<1>14. CASE WriteDone
  BY <1>12, <1>14 DEF WriteDone, Close
<1> QED
  BY <1>3, <1>4, <1>5, <1>6, <1>7, <1>8, <1>9, <1>10, <1>11, <1>13, <1>14
  DEF Next, LoopStep, ClientSteps

\* When every record fits the buffer of one SSL_read, a connection at rest is
\* registered for what it waits for, and nothing that has come is hidden from
\* epoll: neither in OpenSSL nor as a request that the read buffer holds whole.
THEOREM WatchesWhatBlocks ==
  ASSUME \A script \in Script : Fit(script)
  PROVE  SafetySpec => []WatchesWhatItWants
<1>1. Init => Drained
  <2> SUFFICES ASSUME Init PROVE Drained
    OBVIOUS
  <2>1. PICK script \in Script : client = [script |-> script, later |-> MaxLater]
    BY DEF Init
  <2>2. ssl.plain = <<>> /\ socket.inbox = <<>> /\ client.script = script
    BY <2>1 DEF Init
  <2>3. Fit(<<>>)
    BY DEF Fit
  <2> QED
    BY <2>2, <2>3 DEF Drained
<1>2. Inv /\ Drained /\ [Next]_vars => Drained'
  BY DrainedNext
<1>3. Inv /\ Drained => WatchesWhatItWants
  <2> SUFFICES ASSUME Inv, Drained, Open, pc = "wait" PROVE WatchesWhatItWants
    BY DEF WatchesWhatItWants
  <2>1. Loose(conn)
    BY DEF Inv, Control
  <2>2. IF ssl.steps # <<>>
          THEN tls.pending # "None" /\ conn.interest = IF Expected THEN "read" ELSE "write"
          ELSE /\ tls.complete
               /\ \/ conn.interest = Usual(conn)
                  \/ /\ conn.interest = "write" /\ conn.requestBody # NoBody
                     /\ client.later < MaxLater
    BY DEF Inv, Session
  <2>3. ASSUME ssl.steps = <<>>, conn.interest = "read"
        PROVE  IF conn.requestBody = NoBody THEN HeaderLength(conn.readBuffer) = 0
                                            ELSE ~BodyComplete(conn)
    <3>1. ~Busy(conn)
      BY <2>2, <2>3 DEF Usual, Busy
    <3> QED
      BY <2>1, <3>1 DEF Loose, Incomplete
  <2> QED
    BY <2>2, <2>3 DEF WatchesWhatItWants, Drained, Usual
<1> QED
  BY <1>1, <1>2, <1>3, InvHolds, PTL DEF SafetySpec
=============================================================================
