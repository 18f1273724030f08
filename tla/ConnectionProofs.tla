-------------------------- MODULE ConnectionProofs --------------------------
(***************************************************************************)
(* Proofs about Connection: whatever arrives, a handler leaves a connection *)
(* whose flags, buffers, mask and outstanding request agree.               *)
(***************************************************************************)
EXTENDS Connection, DecimalProofs, SequenceTheorems, WellFoundedInduction, TLAPS

KindType ==
  [wellFormed : BOOLEAN, post : BOOLEAN, bodyLength : Nat, keepAlive : BOOLEAN,
   allowed : BOOLEAN, upgrade : BOOLEAN, file : Nat]

SubmissionType == [kind : DOMAIN Request, body : Seq(Token)]

\* Nothing to look at until more arrives.
Incomplete(c) ==
  IF c.requestBody = NoBody THEN HeaderLength(c.readBuffer) = 0 ELSE ~BodyComplete(c)

Busy(c) == c.responsePending \/ Writing(c)

\* The flags, the buffers and the mask of a connection agree.
Sound(c) ==
  /\ c \in ConnectionType
  /\ ~(c.responsePending /\ Writing(c))
  /\ c.parsed = c.answered + (IF Busy(c) THEN 1 ELSE 0)
  /\ c.writeBuffer # NoResponse => c.writeBuffer.id = c.id /\ c.writeBuffer.n = c.answered + 1
  /\ c.interest = (IF c.responsePending THEN "none" ELSE IF Writing(c) THEN "write" ELSE "read")
  /\ c.interest = "read" => Incomplete(c)
  /\ c.requestBody # NoBody => ~Busy(c)

\* A handler may look at what has been read.
Ready(c) == c \in ConnectionType /\ ~Busy(c) /\ c.parsed = c.answered

SameFile(d, c) == d.id = c.id /\ d.fileTransfer = c.fileTransfer /\ d.owed = c.owed

\* What a handler leaves: a sound connection, which is pending exactly if
\* there is a request to submit.
Fine(r, c) ==
  /\ Sound(r.conn) /\ SameFile(r.conn, c)
  /\ r.ctl \in BOOLEAN
  /\ IF r.submit = NoTask THEN ~r.conn.responsePending
     ELSE r.conn.responsePending /\ r.submit \in SubmissionType

----------------------------------------------------------------------------
(* Types *)

LEMMA Absent ==
  /\ \A r \in Response : r # NoResponse
  /\ \A s \in SubmissionType : s # NoTask
  /\ \A c \in ConnectionType : c # NoConnection
  /\ \A k \in DOMAIN Request, m, n \in Nat : [kind |-> k, headerLength |-> m, bodyLength |-> n] # NoBody
<1>1. DOMAIN <<>> = {}
  OBVIOUS
<1>2. \A r \in Response : "id" \in DOMAIN r
  BY DEF Response
<1>3. \A s \in SubmissionType : "kind" \in DOMAIN s
  BY DEF SubmissionType
<1>4. \A c \in ConnectionType : "id" \in DOMAIN c
  BY DEF ConnectionType
<1>5. \A k, m, n : "kind" \in DOMAIN [kind |-> k, headerLength |-> m, bodyLength |-> n]
  OBVIOUS
<1> QED
  BY <1>1, <1>2, <1>3, <1>4, <1>5 DEF NoResponse, NoTask, NoConnection, NoBody

----------------------------------------------------------------------------
(* Heads: what a repeated header comes to *)

HeaderOf(A) == [present : BOOLEAN, value : Seq(A)]
LinesOf(A, name) == {l \in HeaderLine : l.name = name => l.value \in Seq(A)}
LineStep(A, name, comma) ==
  [p \in HeaderOf(A) \X LinesOf(A, name) |-> WithLine(p[1], p[2], name, comma)]

LEMMA WithLineType ==
  ASSUME NEW A, NEW name, NEW comma \in Seq(A), NEW h \in HeaderOf(A), NEW l \in LinesOf(A, name)
  PROVE  WithLine(h, l, name, comma) \in HeaderOf(A)
<1>1. h.value \in Seq(A) /\ (l.name = name => l.value \in Seq(A))
  BY DEF HeaderOf, LinesOf
<1>2. ASSUME l.name = name PROVE h.value \o comma \o l.value \in Seq(A)
  BY <1>1, <1>2, ConcatProperties
<1> QED
  BY <1>1, <1>2 DEF WithLine, HeaderOf

\* The lines of a head are read one after the other.
LEMMA HeaderRuns ==
  ASSUME NEW A, NEW name, NEW comma \in Seq(A), NEW head, head.lines \in Seq(LinesOf(A, name))
  PROVE  \E r : /\ Runs(r, Len(head.lines), HeaderOf(A), LineStep(A, name, comma), NoHeader, head.lines)
                /\ r[Len(head.lines)] = Header(head, name, comma)
<1> DEFINE D == DOMAIN head.lines
           F == LineStep(A, name, comma)
           G(it) == [s \in SUBSET D |->
                       IF s = {} THEN NoHeader
                       ELSE WithLine(it[s \ {Max(s)}], head.lines[Max(s)], name, comma)]
           c == CHOOSE it : it = G(it)
           n == Len(head.lines)
<1>1. Header(head, name, comma) = c[D]
  BY DEF Header, FoldLeft, MapThenFoldSet
<1>2. D = 1 .. n /\ n \in Nat
  OBVIOUS
<1>3. \A i \in 1 .. n : head.lines[i] \in LinesOf(A, name)
  OBVIOUS
<1>4. Foldable(n, HeaderOf(A), LinesOf(A, name), F, NoHeader, head.lines)
  <2>1. NoHeader \in HeaderOf(A)
    BY DEF NoHeader, HeaderOf
  <2>2. \A p \in HeaderOf(A) \X LinesOf(A, name) : WithLine(p[1], p[2], name, comma) \in HeaderOf(A)
    BY WithLineType
  <2>3. F \in [HeaderOf(A) \X LinesOf(A, name) -> HeaderOf(A)]
    BY <2>2 DEF LineStep
  <2> HIDE DEF F
  <2> QED BY <1>2, <1>3, <2>1, <2>3 DEF Foldable
<1>5. PICK it \in [SUBSET D -> HeaderOf(A)] : Folds(it, D, F, NoHeader, head.lines)
  <2> HIDE DEF n, F, D, c
  <2>1. HasFold(1 .. n, HeaderOf(A), F, NoHeader, head.lines)
    BY <1>4, FoldExists
  <2> QED BY <1>2, <2>1 DEF HasFold
<1>6. it = G(it)
  <2>1. ASSUME NEW s \in SUBSET D, s # {}
        PROVE  it[s] = WithLine(it[s \ {Max(s)}], head.lines[Max(s)], name, comma)
    <3>1. Max(s) \in D
      BY <1>2, <2>1, MaxIs
    <3>2. it[s \ {Max(s)}] \in HeaderOf(A) /\ head.lines[Max(s)] \in LinesOf(A, name)
      BY <1>2, <1>3, <1>5, <3>1
    <3> QED BY <1>5, <2>1, <3>2 DEF Folds, LineStep
  <2>2. it[{}] = NoHeader
    BY <1>5 DEF Folds
  <2> QED BY <2>1, <2>2
<1>7. c = G(c)
  BY <1>6
<1>8. Steps(c, n, HeaderOf(A), F, NoHeader, head.lines)
  <2> HIDE DEF c
  <2>1. c[{}] = NoHeader
    BY <1>7
  <2>2. ASSUME NEW s \in SUBSET D, s # {}, c[s \ {Max(s)}] \in HeaderOf(A)
        PROVE  c[s] = F[<<c[s \ {Max(s)}], head.lines[Max(s)]>>]
    <3>1. Max(s) \in D
      BY <1>2, <2>2, MaxIs
    <3>2. head.lines[Max(s)] \in LinesOf(A, name)
      BY <1>2, <1>3, <3>1
    <3>3. c[s] = WithLine(c[s \ {Max(s)}], head.lines[Max(s)], name, comma)
      BY <1>7, <2>2
    <3> QED BY <2>2, <3>2, <3>3 DEF LineStep
  <2> QED BY <1>2, <2>1, <2>2 DEF Steps
<1>9. \E r : Runs(r, n, HeaderOf(A), F, NoHeader, head.lines) /\ r[n] = c[1 .. n]
  <2> HIDE DEF n, F, c, D
  <2> QED BY <1>4, <1>8, FoldRuns
<1> HIDE DEF c, D
<1> QED BY <1>1, <1>2, <1>9

Option == {"close", "keep-alive", "other"}

LEMMA TypedLines ==
  ASSUME NEW head \in HeadType
  PROVE  /\ head.lines \in Seq(LinesOf(Option, "connection"))
         /\ head.lines \in Seq(LinesOf(Character, "content-length"))
<1>1. \A l \in HeaderLine : /\ l.name = "connection" => l.value \in Seq(Option)
                            /\ l.name = "content-length" => l.value \in Seq(Character)
  BY DEF HeaderLine, Option
<1>2. /\ HeaderLine \subseteq LinesOf(Option, "connection")
      /\ HeaderLine \subseteq LinesOf(Character, "content-length")
  BY <1>1 DEF LinesOf
<1>3. head.lines \in Seq(HeaderLine)
  BY DEF HeadType
<1>4. \A i \in 1 .. Len(head.lines) : head.lines[i] \in HeaderLine
  BY <1>3
<1> QED
  BY <1>2, <1>3, <1>4, SeqDef

Reads(r, A, name, comma, lines) ==
  /\ lines \in Seq(LinesOf(A, name))
  /\ Runs(r, Len(lines), HeaderOf(A), LineStep(A, name, comma), NoHeader, lines)

\* What a step does, whichever the line.
LEMMA LineRead ==
  ASSUME NEW A, NEW name, NEW comma, NEW lines, NEW r, Reads(r, A, name, comma, lines),
         NEW k \in 1 .. Len(lines)
  PROVE  /\ r[k - 1] \in HeaderOf(A)
         /\ IF lines[k].name # name THEN r[k] = r[k - 1]
            ELSE /\ r[k].present /\ lines[k].value \in Seq(A)
                 /\ r[k].value = IF r[k - 1].present THEN r[k - 1].value \o comma \o lines[k].value
                                                     ELSE lines[k].value
<1>1. k - 1 \in 0 .. Len(lines) /\ lines \in Seq(LinesOf(A, name))
  BY DEF Reads
<1>2. r[k - 1] \in HeaderOf(A) /\ lines[k] \in LinesOf(A, name)
  BY <1>1 DEF Reads, Runs
<1>3. r[k] = LineStep(A, name, comma)[<<r[k - 1], lines[k]>>]
  BY DEF Reads, Runs
<1>4. r[k] = WithLine(r[k - 1], lines[k], name, comma)
  BY <1>2, <1>3 DEF LineStep
<1> QED
  BY <1>2, <1>4 DEF WithLine, LinesOf

\* Whether a header is there does not depend on what joins its lines.
LEMMA PresentIs ==
  ASSUME NEW A, NEW name, NEW comma \in Seq(A), NEW head, head.lines \in Seq(LinesOf(A, name))
  PROVE  Header(head, name, comma).present <=> Places(head, name) # {}
<1> DEFINE lines == head.lines
           n == Len(lines)
           Before(k) == {i \in 1 .. k : lines[i].name = name}
<1>1. lines \in Seq(LinesOf(A, name)) /\ n \in Nat /\ DOMAIN lines = 1 .. n
  BY LenProperties
<1>2. PICK r : /\ Runs(r, n, HeaderOf(A), LineStep(A, name, comma), NoHeader, lines)
               /\ r[n] = Header(head, name, comma)
  BY HeaderRuns
<1>3. Reads(r, A, name, comma, lines)
  BY <1>1, <1>2 DEF Reads
<1> DEFINE K == {k \in 0 .. n : r[k].present <=> Before(k) # {}}
<1>4. 0 \in K
  <2>1. r[0] = NoHeader /\ Before(0) = {}
    BY <1>2 DEF Runs
  <2> QED BY <1>1, <2>1 DEF NoHeader
<1>5. ASSUME NEW k \in 1 .. n, k - 1 \in K PROVE k \in K
  <2>1. k \in 0 .. n /\ k \in 1 .. k /\ \A i \in 1 .. k : i = k \/ i \in 1 .. k - 1
    BY <1>1
  <2>2. \A i \in 1 .. k - 1 : i \in 1 .. k
    BY <1>1
  <2>3. IF lines[k].name # name THEN r[k] = r[k - 1] ELSE r[k].present
    <3> HIDE DEF K, n
    <3> QED BY <1>3, LineRead DEF n
  <2>4. Before(k) # {} <=> Before(k - 1) # {} \/ lines[k].name = name
    BY <2>1, <2>2
  <2> HIDE DEF Before
  <2> QED BY <1>5, <2>1, <2>3, <2>4
<1>6. n \in K
  <2> HIDE DEF K, n
  <2>1. \A k \in 0 .. n : k \in K
    BY <1>1, <1>4, <1>5, SetInduction
  <2> QED BY <1>1, <2>1
<1>7. Before(n) = Places(head, name)
  BY <1>1 DEF Places
<1> HIDE DEF Before, n
<1> QED BY <1>2, <1>6, <1>7

LEMMA ContainsBoth ==
  ASSUME NEW A, NEW s \in Seq(A), NEW u \in Seq(A), NEW x
  PROVE  Contains(s \o u, x) <=> Contains(s, x) \/ Contains(u, x)
<1> DEFINE v == s \o u
<1>1. /\ v \in Seq(A) /\ Len(v) = Len(s) + Len(u) /\ Len(s) \in Nat /\ Len(u) \in Nat
      /\ \A i \in 1 .. Len(s) : v[i] = s[i]
      /\ \A i \in 1 .. Len(u) : v[Len(s) + i] = u[i]
  BY ConcatProperties, LenProperties
<1> HIDE DEF v
<1>2. \A i \in 1 .. Len(v) : i \in 1 .. Len(s) \/ (i - Len(s) \in 1 .. Len(u) /\ Len(s) + (i - Len(s)) = i)
  BY <1>1
<1>3. /\ \A i \in 1 .. Len(s) : i \in 1 .. Len(v)
      /\ \A i \in 1 .. Len(u) : Len(s) + i \in 1 .. Len(v)
  BY <1>1
<1>4. Contains(v, x) => Contains(s, x) \/ Contains(u, x)
  <2> SUFFICES ASSUME NEW i \in 1 .. Len(v), v[i] = x PROVE Contains(s, x) \/ Contains(u, x)
    BY DEF Contains
  <2>1. CASE i \in 1 .. Len(s)
    BY <1>1, <2>1 DEF Contains
  <2>2. CASE i - Len(s) \in 1 .. Len(u) /\ Len(s) + (i - Len(s)) = i
    <3>1. u[i - Len(s)] = x
      BY <1>1, <2>2
    <3> QED BY <2>2, <3>1 DEF Contains
  <2> QED BY <1>2, <2>1, <2>2
<1>5. Contains(s, x) => Contains(v, x)
  BY <1>1, <1>3 DEF Contains
<1>6. Contains(u, x) => Contains(v, x)
  BY <1>1, <1>3 DEF Contains
<1> QED
  BY <1>4, <1>5, <1>6 DEF v

\* Every line of a repeated Connection header counts.
LEMMA AllOptions ==
  ASSUME NEW head \in HeadType
  PROVE  LET h == Header(head, "connection", <<>>)
         IN  /\ ~h.present => h.value = <<>>
             /\ \A x : Contains(h.value, x) <=>
                         \E i \in Places(head, "connection") : x \in ToSet(head.lines[i].value)
<1> DEFINE n == Len(head.lines)
           lines == head.lines
           V == HeaderOf(Option)
           Named(i) == lines[i].name = "connection"
<1>1. lines \in Seq(LinesOf(Option, "connection")) /\ n \in Nat /\ DOMAIN lines = 1 .. n
  BY TypedLines, LenProperties
<1>2. \A i \in 1 .. n : lines[i] \in LinesOf(Option, "connection")
  BY <1>1
<1>3. <<>> \in Seq(Option)
  OBVIOUS
<1>4. PICK r : /\ Runs(r, n, V, LineStep(Option, "connection", <<>>), NoHeader, lines)
               /\ r[n] = Header(head, "connection", <<>>)
  BY <1>1, <1>3, HeaderRuns
<1>4a. Reads(r, Option, "connection", <<>>, lines)
  BY <1>1, <1>4 DEF Reads
<1> DEFINE K == {k \in 0 .. n :
                   /\ ~r[k].present => r[k].value = <<>>
                   /\ \A x : Contains(r[k].value, x) <=>
                               \E i \in 1 .. k : Named(i) /\ Contains(lines[i].value, x)}
<1>5. 0 \in K
  <2>1. r[0] = NoHeader
    BY <1>4 DEF Runs
  <2>2. \A x : ~Contains(<<>>, x)
    BY DEF Contains
  <2> QED BY <1>1, <2>1, <2>2 DEF NoHeader
<1>6. ASSUME NEW k \in 1 .. n, k - 1 \in K PROVE k \in K
  <2>1. k \in 0 .. n /\ k \in Nat /\ \A i \in 1 .. k : i = k \/ i \in 1 .. k - 1
    BY <1>1
  <2>2. \A i \in 1 .. k - 1 : i \in 1 .. k
    BY <2>1
  <2> DEFINE a == r[k - 1]
             b == r[k]
             v == lines[k].value
  <2>3. /\ a \in V
        /\ IF ~Named(k) THEN b = a
           ELSE /\ b.present /\ v \in Seq(Option)
                /\ b.value = IF a.present THEN a.value \o <<>> \o v ELSE v
    <3> DEFINE none == <<>>
    <3>1. Reads(r, Option, "connection", none, lines) /\ k \in 1 .. Len(lines)
      BY <1>4a
    <3> HIDE DEF none, n, lines, K, V
    <3>2. /\ a \in HeaderOf(Option)
          /\ IF lines[k].name # "connection" THEN b = a
             ELSE /\ b.present /\ lines[k].value \in Seq(Option)
                  /\ b.value = IF a.present THEN a.value \o none \o lines[k].value
                                            ELSE lines[k].value
      BY <3>1, LineRead
    <3> QED BY <3>2 DEF none, V
  <2>4. /\ ~a.present => a.value = <<>>
        /\ \A x : Contains(a.value, x) <=>
                    \E i \in 1 .. k - 1 : Named(i) /\ Contains(lines[i].value, x)
    BY <1>6
  <2>5. CASE ~Named(k)
    BY <2>1, <2>2, <2>3, <2>4, <2>5
  <2>6. CASE Named(k)
    <3>1. a.value \in Seq(Option) /\ v \in Seq(Option)
      BY <2>3, <2>6 DEF HeaderOf
    <3>2. a.value \o <<>> \o v = a.value \o v
      BY <3>1
    <3>3. \A x : Contains(a.value \o v, x) <=> Contains(a.value, x) \/ Contains(v, x)
      BY <3>1, ContainsBoth
    <3>4. \A x : ~Contains(<<>>, x)
      BY DEF Contains
    <3> HIDE DEF a, b, v, Named
    <3>5. \A x : Contains(b.value, x) <=> Contains(a.value, x) \/ Contains(v, x)
      BY <2>3, <2>4, <2>6, <3>2, <3>3, <3>4
    <3>6. \A x : Contains(b.value, x) <=> \E i \in 1 .. k : Named(i) /\ Contains(lines[i].value, x)
      BY <2>1, <2>2, <2>4, <2>6, <3>5 DEF v
    <3> QED BY <2>1, <2>3, <2>6, <3>6 DEF b
  <2> QED BY <2>5, <2>6
<1>7. n \in K
  <2> HIDE DEF K, n
  <2>1. \A k \in 0 .. n : k \in K
    BY <1>1, <1>5, <1>6, SetInduction
  <2> QED BY <1>1, <2>1
<1>8. \A i \in Places(head, "connection") : \A x :
        x \in ToSet(lines[i].value) <=> Contains(lines[i].value, x)
  <2>1. ASSUME NEW i \in Places(head, "connection") PROVE lines[i].value \in Seq(Option)
    BY <1>1, <1>2 DEF Places, LinesOf
  <2>2. ASSUME NEW s \in Seq(Option), NEW x PROVE x \in ToSet(s) <=> Contains(s, x)
    BY DEF ToSet, Contains
  <2> QED BY <2>1, <2>2
<1>9. \A i : i \in Places(head, "connection") <=> i \in 1 .. n /\ Named(i)
  BY <1>1 DEF Places
<1> HIDE DEF Named
<1> QED BY <1>4, <1>7, <1>8, <1>9

\* shouldKeepAlive keeps a connection only for a client that asks for it, by its version or
\* by an option, and in none of its Connection headers asks for the opposite.
THEOREM StayAsked ==
  ASSUME NEW head \in HeadType, WellFormedRequestLine(head.requestLine), ShouldKeepAlive(head)
  PROVE  AsksToStay(head)
<1> DEFINE h == Header(head, "connection", <<>>)
<1>1. /\ ~h.present => h.value = <<>>
      /\ \A x : Contains(h.value, x) <=>
                  \E i \in Places(head, "connection") : x \in ToSet(head.lines[i].value)
  BY AllOptions
<1>2. \A x : ~Contains(<<>>, x)
  BY DEF Contains
<1>3. \A x : HasConnectionToken(head, x) <=>
               \E i \in Places(head, "connection") : x \in ToSet(head.lines[i].value)
  BY <1>1, <1>2 DEF HasConnectionToken, HasHeader
<1>4. head.requestLine[3] \in ToSet(head.requestLine)
  <2>1. head.requestLine \in Seq(Word) /\ Len(head.requestLine) = 3
    BY DEF HeadType, WellFormedRequestLine
  <2>2. 3 \in DOMAIN head.requestLine
    BY <2>1
  <2> QED BY <2>2 DEF ToSet
<1> QED
  BY <1>3, <1>4 DEF ShouldKeepAlive, AsksToStay

\* A Content-Length that is given once is what is parsed; one that is repeated
\* holds the comma.
LEMMA OneLength ==
  ASSUME NEW head \in HeadType
  PROVE  LET h == Header(head, "content-length", <<Base>>)
             places == Places(head, "content-length")
         IN  /\ h.value \in Seq(Character)
             /\ h.present <=> places # {}
             /\ \A i \in places : \/ places = {i} /\ h.value = head.lines[i].value
                                  \/ Contains(h.value, Base)
<1> DEFINE n == Len(head.lines)
           lines == head.lines
           Named(i) == lines[i].name = "content-length"
           Before(k) == {i \in 1 .. k : Named(i)}
           comma == <<Base>>
<1>1. lines \in Seq(LinesOf(Character, "content-length")) /\ n \in Nat /\ DOMAIN lines = 1 .. n
  BY TypedLines, LenProperties
<1>2. comma \in Seq(Character) /\ Contains(comma, Base)
  BY DecimalAssumption DEF Character, Contains
<1> HIDE DEF comma
<1>3. PICK r : /\ Runs(r, n, HeaderOf(Character), LineStep(Character, "content-length", comma), NoHeader, lines)
               /\ r[n] = Header(head, "content-length", comma)
  BY <1>1, <1>2, HeaderRuns
<1>4. Reads(r, Character, "content-length", comma, lines)
  BY <1>1, <1>3 DEF Reads
<1> DEFINE Good(k) == /\ r[k].present <=> Before(k) # {}
                      /\ \A i \in Before(k) : \/ Before(k) = {i} /\ r[k].value = lines[i].value
                                              \/ Contains(r[k].value, Base)
           K == {k \in 0 .. n : Good(k)}
<1>5. 0 \in K
  <2>1. r[0] = NoHeader
    BY <1>3 DEF Runs
  <2>2. Before(0) = {}
    OBVIOUS
  <2> QED BY <1>1, <2>1, <2>2 DEF NoHeader
<1>6. ASSUME NEW k \in 1 .. n, k - 1 \in K PROVE k \in K
  <2>1. k \in 0 .. n /\ k \in Nat /\ \A i \in 1 .. k : i = k \/ i \in 1 .. k - 1
    BY <1>1
  <2>2. k \in 1 .. k /\ \A i \in 1 .. k - 1 : i \in 1 .. k /\ i # k
    BY <2>1
  <2> DEFINE a == r[k - 1]
             b == r[k]
             v == lines[k].value
  <2>3. /\ a \in HeaderOf(Character)
        /\ IF ~Named(k) THEN b = a
           ELSE /\ b.present /\ v \in Seq(Character)
                /\ b.value = IF a.present THEN a.value \o comma \o v ELSE v
    <3> HIDE DEF K, n
    <3> QED BY <1>4, LineRead DEF n
  <2>4. Good(k - 1)
    BY <1>6
  <2>5. CASE ~Named(k)
    <3>1. Before(k) = Before(k - 1)
      BY <2>1, <2>2, <2>5
    <3>2. b = a
      BY <2>3, <2>5
    <3> HIDE DEF Before, K
    <3>3. Good(k)
      BY <2>4, <3>1, <3>2
    <3> QED BY <2>1, <3>3 DEF K
  <2>6. CASE Named(k) /\ ~a.present
    <3>1. Before(k) = {k}
      <4>1. Before(k - 1) = {}
        <5> HIDE DEF Before
        <5> QED BY <2>4, <2>6
      <4> QED BY <2>1, <2>2, <2>6, <4>1
    <3>2. b.present /\ b.value = v
      BY <2>3, <2>6
    <3> HIDE DEF Before, K
    <3>3. Good(k)
      BY <3>1, <3>2
    <3> QED BY <2>1, <3>3 DEF K
  <2>7. CASE Named(k) /\ a.present
    <3>1. k \in Before(k)
      BY <2>2, <2>7
    <3>2. b.present /\ b.value = a.value \o comma \o v /\ v \in Seq(Character)
      BY <2>3, <2>7
    <3>3. a.value \in Seq(Character) /\ a.value \o comma \in Seq(Character)
      BY <1>2, <2>3, ConcatProperties DEF HeaderOf
    <3>4. Contains(a.value \o comma, Base)
      BY <1>2, <3>3, ContainsBoth DEF HeaderOf
    <3>5. Contains((a.value \o comma) \o v, Base)
      <4> DEFINE w == a.value \o comma
      <4>1. w \in Seq(Character) /\ Contains(w, Base) /\ v \in Seq(Character)
        BY <3>2, <3>3, <3>4
      <4> HIDE DEF w, v
      <4>2. Contains(w \o v, Base)
        BY <4>1, ContainsBoth
      <4> QED BY <4>2 DEF w
    <3>6. Contains(b.value, Base)
      BY <3>2, <3>5
    <3> HIDE DEF Before, K
    <3>7. Good(k)
      BY <3>1, <3>2, <3>6
    <3> QED BY <2>1, <3>7 DEF K
  <2> QED BY <2>5, <2>6, <2>7
<1>7. n \in K
  <2> HIDE DEF K, n
  <2>1. \A k \in 0 .. n : k \in K
    BY <1>1, <1>5, <1>6, SetInduction
  <2> QED BY <1>1, <2>1
<1>8. Before(n) = Places(head, "content-length")
  BY <1>1 DEF Places
<1>9. r[n].value \in Seq(Character)
  <2>1. n \in 0 .. n
    BY <1>1
  <2> HIDE DEF n
  <2>2. r[n] \in HeaderOf(Character)
    BY <1>3, <2>1 DEF Runs
  <2> QED BY <2>2 DEF HeaderOf
<1> HIDE DEF Before, n
<1> QED BY <1>3, <1>7, <1>8, <1>9 DEF comma, K

\* A length that parseContentLengthValue accepts is the value of the digits of the one
\* Content-Length header, or 0 if there is none: repeated headers are joined by a comma,
\* which no number has.
THEOREM LengthAnnounced ==
  ASSUME NEW head \in HeadType
  PROVE  /\ ContentLength(head) \in Nat \cup {Invalid}
         /\ ContentLength(head) # Invalid => Announces(head, ContentLength(head))
<1> DEFINE h == Header(head, "content-length", <<Base>>)
           places == Places(head, "content-length")
           text == h.value
<1>1. /\ text \in Seq(Character)
      /\ h.present <=> places # {}
      /\ \A i \in places : (places = {i} /\ text = head.lines[i].value) \/ Contains(text, Base)
  BY OneLength
<1>2. HasHeader(head, "content-length") <=> places # {}
  <2>1. Header(head, "content-length", <<>>).present <=> places # {}
    <3>1. head.lines \in Seq(LinesOf(Character, "content-length")) /\ <<>> \in Seq(Character)
      BY TypedLines
    <3> QED BY <3>1, PresentIs
  <2> QED BY <2>1 DEF HasHeader
<1>3. CASE places = {}
  <2>1. ContentLength(head) = 0
    BY <1>2, <1>3 DEF ContentLength
  <2> QED BY <1>3, <2>1 DEF Announces
<1>4. CASE places # {}
  <2>1. ContentLength(head) = ParseUnsigned(text)
    BY <1>2, <1>4 DEF ContentLength
  <2> HIDE DEF text
  <2>2. ParseUnsigned(text) = IF text # <<>> /\ Numeric(text) /\ Value(text) <= MaxUnsigned
                                THEN Value(text) ELSE Invalid
    BY <1>1, ParsedExactly
  <2>3. Value(text) \in Nat
    BY <1>1, ValueIsNat
  <2>4. Contains(text, Base) => ~Numeric(text)
    BY <1>1, DecimalAssumption DEF Contains, Numeric
  <2>5. ParseUnsigned(text) # Invalid =>
          /\ text # <<>> /\ Numeric(text) /\ ParseUnsigned(text) = Value(text)
    BY <2>2
  <2>6. PICK i \in places : TRUE
    BY <1>4
  <2> HIDE DEF places
  <2>7. ASSUME ParseUnsigned(text) # Invalid PROVE Announces(head, ParseUnsigned(text))
    <3>1. places = {i} /\ text = head.lines[i].value
      BY <1>1, <2>4, <2>5, <2>6, <2>7
    <3> QED BY <2>5, <2>6, <2>7, <3>1 DEF Announces, places
  <2> QED BY <2>1, <2>2, <2>3, <2>7
<1> QED BY <1>3, <1>4

----------------------------------------------------------------------------
(* What the loop makes of a head *)

LEMMA ParsedType == \A t \in DOMAIN Request : Parsed[t] \in KindType
<1> SUFFICES ASSUME NEW t \in DOMAIN Request PROVE Parsed[t] \in KindType
  OBVIOUS
<1>1. Parsed[t] = KindOf(Request[t])
  BY DEF Parsed
<1>2. CASE ~Parses(Request[t])
  BY <1>1, <1>2 DEF KindOf, BadRequest, KindType
<1>3. CASE Parses(Request[t])
  <2>1. ContentLength(Request[t]) \in Nat
    BY <1>3, ConnectionAssumption, LengthAnnounced DEF Parses
  <2>2. Request[t].file \in Nat
    BY ConnectionAssumption DEF HeadType
  <2>3. ShouldKeepAlive(Request[t]) \in BOOLEAN
    BY DEF ShouldKeepAlive
  <2> QED
    BY <1>1, <1>3, <2>1, <2>2, <2>3 DEF KindOf, KindType
<1> QED
  BY <1>2, <1>3

\* What the loop makes of a head is what the client said in it.
LEMMA HeadMeaning ==
  ASSUME NEW t \in DOMAIN Request
  PROVE  /\ Parsed[t].keepAlive => AsksToStay(Request[t])
         /\ Parsed[t].wellFormed /\ Parsed[t].post => Announces(Request[t], Parsed[t].bodyLength)
<1>1. Parsed[t] = KindOf(Request[t]) /\ Request[t] \in HeadType
  BY ConnectionAssumption DEF Parsed
<1>2. CASE ~Parses(Request[t])
  BY <1>1, <1>2 DEF KindOf, BadRequest
<1>3. CASE Parses(Request[t])
  <2>1. /\ Parsed[t].keepAlive = ShouldKeepAlive(Request[t])
        /\ Parsed[t].bodyLength = ContentLength(Request[t])
    BY <1>1, <1>3 DEF KindOf
  <2> QED
    BY <1>1, <1>3, <2>1, StayAsked, LengthAnnounced DEF Parses
<1> QED
  BY <1>2, <1>3

\* A header that is complete ends with a token that stands for a request.
LEMMA HeaderEnds ==
  ASSUME NEW buffer \in Seq(Token)
  PROVE  /\ HeaderLength(buffer) \in 0 .. Len(buffer)
         /\ HeaderLength(buffer) # 0 => buffer[HeaderLength(buffer)] \in DOMAIN Request
         /\ HeaderLength(buffer) = 0 => \A i \in 1 .. Len(buffer) : buffer[i] \notin DOMAIN Request
<1> DEFINE I == {i \in 1 .. Len(buffer) : buffer[i] \in DOMAIN Request}
<1>1. HeaderLength(buffer) = IF I # {} THEN Min(I) ELSE 0
  BY DEF HeaderLength, SelectInSeq
<1>2. Len(buffer) \in Nat
  BY LenProperties
<1>3. CASE I = {}
  BY <1>1, <1>2, <1>3
<1>4. CASE I # {}
  <2>1. I \subseteq Nat
    BY <1>2
  <2>2. \E least \in I : \A i \in I : ~(<<i, least>> \in OpToRel(<, Nat))
    <3> HIDE DEF I
    <3> QED
      BY <1>4, <2>1, NatLessThanWellFounded, WFMin, Zenon
  <2>3. PICK least \in I : \A i \in I : ~(<<i, least>> \in OpToRel(<, Nat))
    BY <2>2
  <2>4. ASSUME NEW i \in I PROVE least <= i
    <3>1. ~(i < least)
      <4> HIDE DEF I
      <4> QED BY <2>1, <2>3, Zenon DEF OpToRel
    <3> QED
      BY <2>1, <3>1
  <2>5. Min(I) \in I
    BY <2>4 DEF Min
  <2> QED
    BY <1>1, <1>2, <1>4, <2>5
<1> QED
  BY <1>3, <1>4
----------------------------------------------------------------------------
(* Decisions *)

\* An answer given at once.
LEMMA RespondFine ==
  ASSUME NEW d \in ConnectionType, ~Busy(d), d.requestBody = NoBody,
         d.parsed = d.answered + 1,
         NEW keepAlive \in BOOLEAN, NEW close \in BOOLEAN
  PROVE  LET r == Respond(d, d.id, d.parsed, keepAlive, close)
         IN  Sound(r) /\ Busy(r) /\ SameFile(r, d) /\ ~r.responsePending
<1> DEFINE text == [id |-> d.id, n |-> d.parsed, keepAlive |-> keepAlive, left |-> HeadUnits]
           r == Respond(d, d.id, d.parsed, keepAlive, close)
<1>1. text \in Response /\ text # NoResponse
  <2>1. text \in Response
    <3>1. d.id \in Nat /\ d.parsed \in Nat /\ HeadUnits \in 1 .. HeadUnits
      BY ConnectionAssumption DEF ConnectionType
    <3> QED
      BY <3>1 DEF Response
  <2> QED
    BY <2>1, Absent
<1>2. r = [d EXCEPT !.writeBuffer = text, !.closeAfterWrite = close, !.interest = "write"]
  BY DEF Respond
<1>t. text.id = d.id /\ text.n = d.parsed
  OBVIOUS
<1> HIDE DEF r, text
<1>3. r \in ConnectionType
  BY <1>1, <1>2 DEF ConnectionType
<1>4. /\ r.writeBuffer = text /\ r.id = d.id /\ r.responsePending = d.responsePending
      /\ r.parsed = d.parsed /\ r.answered = d.answered /\ r.interest = "write"
      /\ r.requestBody = d.requestBody /\ SameFile(r, d)
  BY <1>2 DEF ConnectionType, SameFile
<1>5. ~d.responsePending
  BY DEF Busy
<1>6. Writing(r)
  BY <1>1, <1>4 DEF Writing
<1>7. r.writeBuffer.id = d.id /\ r.writeBuffer.n = d.parsed
  BY <1>4, <1>t
<1>8. Sound(r)
  <2>1. Busy(r) /\ ~r.responsePending
    BY <1>4, <1>5, <1>6 DEF Busy
  <2>2. r.parsed = r.answered + (IF Busy(r) THEN 1 ELSE 0)
    BY <1>4, <2>1
  <2>3. r.writeBuffer.id = r.id /\ r.writeBuffer.n = r.answered + 1
    BY <1>4, <1>7
  <2>4. r.interest = (IF r.responsePending THEN "none" ELSE IF Writing(r) THEN "write" ELSE "read")
    BY <1>4, <1>6, <2>1
  <2>5. r.interest = "read" => Incomplete(r)
    BY <1>4
  <2> QED
    BY <1>3, <1>4, <1>6, <2>1, <2>2, <2>3, <2>4, <2>5 DEF Sound
<1> QED
  BY <1>4, <1>5, <1>6, <1>8 DEF r, Busy

LEMMA RejectFine ==
  ASSUME NEW c, Ready(c)
  PROVE  Fine(Outcome(Reject(c), NoTask, TRUE), c) /\ Busy(Reject(c))
<1> DEFINE n == c.parsed + 1
           d == [c EXCEPT !.parsed = n, !.requestBody = NoBody]
<1>0. n \in Nat /\ n = c.answered + 1
  BY DEF Ready, ConnectionType
<1> HIDE DEF n
<1>1. d \in ConnectionType /\ d.requestBody = NoBody /\ d.answered = c.answered
      /\ SameFile(d, c) /\ d.parsed = n /\ d.responsePending = c.responsePending
      /\ d.writeBuffer = c.writeBuffer /\ d.fileTransfer = c.fileTransfer
  BY <1>0 DEF Ready, ConnectionType, SameFile
<1>2. Reject(c) = Respond(d, d.id, d.parsed, FALSE, TRUE)
  BY <1>1 DEF Reject, n, SameFile
<1> HIDE DEF d
<1>3. ~Busy(d)
  BY <1>1, Zenon DEF Ready, Busy, Writing
<1>4. d.parsed = d.answered + 1
  BY <1>0, <1>1
<1> DEFINE answer == Respond(d, d.id, d.parsed, FALSE, TRUE)
<1>5. Sound(answer) /\ Busy(answer) /\ SameFile(answer, d) /\ ~answer.responsePending
  BY <1>1, <1>3, <1>4, RespondFine
<1> QED
  BY <1>1, <1>2, <1>5 DEF Fine, Outcome, SameFile

\* Taking a complete request out of the buffer.
LEMMA ConsumeReady ==
  ASSUME NEW c, Ready(c), c.requestBody # NoBody, BodyComplete(c)
  PROVE  LET d == Consume(c)
         IN  /\ d \in ConnectionType /\ ~Busy(d) /\ d.requestBody = NoBody
             /\ d.parsed = d.answered + 1 /\ SameFile(d, c)
             /\ Parsed[c.requestBody.kind] \in KindType
             /\ Submission(c) \in SubmissionType
<1> DEFINE d == Consume(c)
           b == c.requestBody
           rest == SubSeq(c.readBuffer, b.headerLength + b.bodyLength + 1, Len(c.readBuffer))
<1>1. b \in [kind : DOMAIN Request, headerLength : Nat, bodyLength : Nat]
  BY DEF Ready, ConnectionType
<1>2. c.readBuffer \in Seq(Token) /\ Len(c.readBuffer) \in Nat
  BY LenProperties DEF Ready, ConnectionType
<1>3. rest \in Seq(Token)
  <2>1. \A i \in (b.headerLength + b.bodyLength + 1) .. Len(c.readBuffer) : c.readBuffer[i] \in Token
    BY <1>1, <1>2, ElementOfSeq
  <2> QED
    BY <1>1, <1>2, <2>1, SubSeqProperties
<1> DEFINE n == c.parsed + 1
<1>4. /\ d = [c EXCEPT !.parsed = n, !.idle = FALSE, !.requestBody = NoBody,
                       !.last = b.kind, !.readBuffer = rest]
      /\ n \in Nat /\ n = c.answered + 1 /\ b.kind \in DOMAIN Request
  BY <1>1 DEF Consume, Ready, ConnectionType
<1> HIDE DEF rest, n, b, d
<1>a. c \in ConnectionType /\ ~Busy(c) /\ c.parsed = c.answered
  BY DEF Ready
<1>b. d \in ConnectionType
  BY <1>3, <1>4, <1>a DEF ConnectionType
<1>c. /\ d.requestBody = NoBody /\ SameFile(d, c)
      /\ d.answered = c.answered /\ d.parsed = n
      /\ d.responsePending = c.responsePending /\ d.writeBuffer = c.writeBuffer
      /\ d.fileTransfer = c.fileTransfer
  BY <1>4, <1>a DEF ConnectionType, SameFile
<1>6. ~Busy(d) /\ d.parsed = d.answered + 1
  <2>1. ~Busy(d)
    BY <1>b, <1>c, Zenon DEF Ready, Busy, Writing
  <2> QED
    BY <1>4, <1>b, <1>c, <2>1
<1>7. Parsed[b.kind] \in KindType
  BY <1>1, ParsedType DEF b
<1>8. Submission(c) \in SubmissionType
  <2>1. \A i \in (b.headerLength + 1) .. (b.headerLength + b.bodyLength) : c.readBuffer[i] \in Token
    BY <1>1, <1>2, ElementOfSeq DEF BodyComplete, b
  <2>2. SubSeq(c.readBuffer, b.headerLength + 1, b.headerLength + b.bodyLength) \in Seq(Token)
    BY <1>1, <2>1, SubSeqProperties
  <2> QED
    BY <1>1, <2>2 DEF Submission, SubmissionType, b
<1> QED
  BY <1>b, <1>c, <1>6, <1>7, <1>8 DEF d, b

\* The request and its body are complete.
LEMMA ServeFine ==
  ASSUME NEW c, Ready(c), c.requestBody # NoBody, BodyComplete(c), NEW accepts
  PROVE  Fine(ServeRequest(c, accepts), c) /\ Busy(ServeRequest(c, accepts).conn)
<1> DEFINE d == Consume(c)
           kind == Parsed[c.requestBody.kind]
<1>1. /\ d \in ConnectionType /\ ~Busy(d) /\ d.requestBody = NoBody
      /\ d.parsed = d.answered + 1 /\ SameFile(d, c) /\ d.id = c.id
  BY ConsumeReady DEF SameFile
<1>2. kind.keepAlive \in BOOLEAN
  BY ConsumeReady DEF KindType
<1>3. Submission(c) \in SubmissionType /\ Submission(c) # NoTask
  BY ConsumeReady, Absent
<1> HIDE DEF d, kind
<1>4. CASE ~kind.allowed
  <2> DEFINE answer == Respond(d, d.id, d.parsed, kind.keepAlive, ~kind.keepAlive)
  <2>1. ServeRequest(c, accepts) = Outcome(answer, NoTask, TRUE)
    BY <1>1, <1>4 DEF ServeRequest, d, kind
  <2>a. (~kind.keepAlive) \in BOOLEAN
    BY <1>2
  <2>b. Sound(answer) /\ Busy(answer) /\ SameFile(answer, d) /\ ~answer.responsePending
    BY <1>1, <1>2, <2>a, RespondFine
  <2> HIDE DEF answer
  <2>2. Sound(answer) /\ Busy(answer) /\ SameFile(answer, c) /\ ~answer.responsePending
    BY <1>1, <2>b DEF SameFile
  <2> QED
    BY <2>1, <2>2 DEF Fine, Outcome
<1>5. CASE kind.allowed /\ accepts
  <2> DEFINE e == Pending(d)
  <2>1. ServeRequest(c, accepts) = Outcome(e, Submission(c), TRUE)
    BY <1>5 DEF ServeRequest, d, kind
  <2>2. e \in ConnectionType /\ e.responsePending = TRUE /\ e.interest = "none"
        /\ e.requestBody = NoBody /\ e.parsed = e.answered + 1 /\ SameFile(e, c)
        /\ ~Writing(e) /\ e.writeBuffer = NoResponse
    BY <1>1 DEF Pending, ConnectionType, Busy, Writing, SameFile
  <2>3. Sound(e)
    BY <2>2 DEF Sound, Busy
  <2>4. Busy(e)
    BY <2>2 DEF Busy
  <2> HIDE DEF e
  <2> QED
    BY <1>3, <2>1, <2>2, <2>3, <2>4 DEF Fine, Outcome
<1>6. CASE kind.allowed /\ ~accepts
  <2> DEFINE e == [Pending(d) EXCEPT !.responsePending = FALSE]
             answer == Respond(e, e.id, e.parsed, FALSE, TRUE)
  <2>1. e \in ConnectionType /\ ~Busy(e) /\ e.requestBody = NoBody
        /\ e.parsed = e.answered + 1 /\ SameFile(e, c) /\ e.id = d.id /\ e.parsed = d.parsed
        /\ Pending(d).id = d.id /\ Pending(d).parsed = d.parsed
    BY <1>1 DEF Pending, ConnectionType, Busy, Writing, SameFile
  <2>2. ServeRequest(c, accepts) = Outcome(Refused(Pending(d)), NoTask, TRUE)
    BY <1>6 DEF ServeRequest, d, kind
  <2>3. Refused(Pending(d)) = answer
    BY <2>1 DEF Refused
  <2> HIDE DEF e
  <2>4. Sound(answer) /\ Busy(answer) /\ SameFile(answer, c) /\ ~answer.responsePending
    BY <2>1, RespondFine DEF SameFile
  <2> HIDE DEF answer
  <2> QED
    BY <1>1, <2>1, <2>2, <2>3, <2>4 DEF Fine, Outcome
<1> QED
  BY <1>4, <1>5, <1>6

\* A header is complete: it is answered, submitted, or its body is awaited.
LEMMA ParseFine ==
  ASSUME NEW c, Ready(c), c.requestBody = NoBody, HeaderLength(c.readBuffer) # 0, NEW accepts
  PROVE  LET r == ParseHeader(c, accepts)
         IN  \/ Fine(r, c) /\ Busy(r.conn)
             \/ /\ Ready(r.conn) /\ r.conn.requestBody # NoBody /\ ~BodyComplete(r.conn)
                /\ SameFile(r.conn, c) /\ r.conn.interest = c.interest
                /\ r.submit = NoTask /\ r.ctl = FALSE
<1> DEFINE length == HeaderLength(c.readBuffer)
           token == c.readBuffer[length]
           kind == Parsed[token]
           b == [kind |-> token, headerLength |-> length,
                 bodyLength |-> IF kind.post THEN kind.bodyLength ELSE 0]
           d == [c EXCEPT !.requestBody = b]
           r == ParseHeader(c, accepts)
<1>1. length \in Nat /\ token \in DOMAIN Request
  <2>1. c.readBuffer \in Seq(Token)
    BY DEF Ready, ConnectionType
  <2> QED
    BY <2>1, HeaderEnds, LenProperties
<1>2. kind \in KindType
  BY <1>1, ParsedType
<1> HIDE DEF length, token, kind
<1>3. b \in [kind : DOMAIN Request, headerLength : Nat, bodyLength : Nat] /\ b # NoBody
  BY <1>1, <1>2, Absent DEF KindType
<1> HIDE DEF b
<1>4. Ready(d) /\ d.requestBody # NoBody /\ SameFile(d, c) /\ d.interest = c.interest
  BY <1>3 DEF Ready, ConnectionType, Busy, Writing, SameFile
<1> HIDE DEF d
<1>5. \/ r = Outcome(Reject(c), NoTask, TRUE)
      \/ BodyComplete(d) /\ r = ServeRequest(d, accepts)
      \/ ~BodyComplete(d) /\ r = Outcome(d, NoTask, FALSE)
  BY DEF ParseHeader, length, token, kind, b, d
<1> HIDE DEF r
<1>6. CASE r = Outcome(Reject(c), NoTask, TRUE)
  BY <1>6, RejectFine DEF Outcome, r
<1>7. CASE BodyComplete(d) /\ r = ServeRequest(d, accepts)
  <2>1. Fine(r, d) /\ Busy(r.conn)
    BY <1>4, <1>7, ServeFine
  <2> QED
    BY <1>4, <2>1 DEF Fine, SameFile, r
<1>8. CASE ~BodyComplete(d) /\ r = Outcome(d, NoTask, FALSE)
  BY <1>4, <1>8 DEF Outcome, r
<1> QED
  BY <1>5, <1>6, <1>7, <1>8

\* A connection that waits for more.
LEMMA WaitFine ==
  ASSUME NEW c, Ready(c), Incomplete(c), c.interest = "read", NEW ctl \in BOOLEAN
  PROVE  Sound(c) /\ Fine(Outcome(c, NoTask, ctl), c)
<1>1. ~Busy(c) /\ ~c.responsePending /\ ~Writing(c) /\ c.writeBuffer = NoResponse
  BY DEF Ready, Busy, Writing
<1>2. c.parsed = c.answered + (IF Busy(c) THEN 1 ELSE 0)
  BY <1>1 DEF Ready, ConnectionType
<1>3. c.interest = (IF c.responsePending THEN "none" ELSE IF Writing(c) THEN "write" ELSE "read")
  BY <1>1
<1>4. Sound(c)
  BY <1>1, <1>2, <1>3 DEF Sound, Ready
<1> QED
  BY <1>1, <1>4 DEF Fine, Outcome, SameFile

\* After a recv: the handler reads on, or it has decided.
LEMMA AfterRecvFine ==
  ASSUME NEW c, Ready(c), c.interest = "read", NEW accepts
  PROVE  LET r == AfterRecv(c, accepts) IN Fine(r, c) /\ (r.ctl => Busy(r.conn))
<1> DEFINE r == AfterRecv(c, accepts)
<1>0. \/ r = Outcome(Reject(c), NoTask, TRUE)
      \/ Incomplete(c) /\ r = Outcome(c, NoTask, FALSE)
      \/ c.requestBody # NoBody /\ BodyComplete(c) /\ r = ServeRequest(c, accepts)
      \/ c.requestBody = NoBody /\ HeaderLength(c.readBuffer) # 0 /\ r = ParseHeader(c, accepts)
  BY DEF AfterRecv, ProcessReadBuffer, Incomplete
<1> HIDE DEF r
<1>1. CASE r = Outcome(Reject(c), NoTask, TRUE)
  BY <1>1, RejectFine DEF Outcome, r
<1>2. CASE Incomplete(c) /\ r = Outcome(c, NoTask, FALSE)
  <2>1. Fine(Outcome(c, NoTask, FALSE), c)
    BY <1>2, WaitFine
  <2>2. r.ctl = FALSE
    BY <1>2 DEF Outcome
  <2> QED
    BY <1>2, <2>1, <2>2 DEF r
<1>3. CASE c.requestBody # NoBody /\ BodyComplete(c) /\ r = ServeRequest(c, accepts)
  BY <1>3, ServeFine DEF r
<1>4. CASE c.requestBody = NoBody /\ HeaderLength(c.readBuffer) # 0 /\ r = ParseHeader(c, accepts)
  <2>1. CASE Fine(r, c) /\ Busy(r.conn)
    BY <2>1 DEF r
  <2>2. CASE /\ Ready(r.conn) /\ r.conn.requestBody # NoBody /\ ~BodyComplete(r.conn)
             /\ SameFile(r.conn, c) /\ r.conn.interest = c.interest
             /\ r.submit = NoTask /\ r.ctl = FALSE
    <3>1. Sound(r.conn)
      BY <2>2, WaitFine DEF Incomplete
    <3>2. ~r.conn.responsePending
      BY <2>2 DEF Ready, Busy
    <3>3. Fine(r, c)
      BY <2>2, <3>1, <3>2 DEF Fine
    <3> QED
      BY <2>2, <3>3 DEF r
  <2> QED
    BY <1>4, <2>1, <2>2, ParseFine
<1> QED
  BY <1>0, <1>1, <1>2, <1>3, <1>4

\* After a response: the next request is looked for.
LEMMA NextRequestFine ==
  ASSUME NEW c, Ready(c), c.requestBody = NoBody, NEW accepts
  PROVE  Fine(NextRequest(c, accepts), c)
<1> DEFINE r == NextRequest(c, accepts)
           p == ParseHeader(c, accepts)
           Wait(d) == Outcome([d EXCEPT !.interest = "read"], NoTask, TRUE)
<1>1. ASSUME NEW d, Ready(d), Incomplete(d), SameFile(d, c) PROVE Fine(Wait(d), c)
  <2> DEFINE e == [d EXCEPT !.interest = "read"]
  <2>1. Ready(e) /\ e.interest = "read" /\ SameFile(e, c)
    BY <1>1 DEF Ready, ConnectionType, Busy, Writing, SameFile
  <2>2. e.requestBody = d.requestBody /\ e.readBuffer = d.readBuffer
    BY <1>1 DEF Ready, ConnectionType
  <2> HIDE DEF e
  <2>3. Incomplete(e)
    BY <1>1, <2>2 DEF Incomplete, BodyComplete
  <2>4. Fine(Outcome(e, NoTask, TRUE), e)
    BY <2>1, <2>3, WaitFine
  <2> QED
    BY <2>1, <2>4 DEF Fine, Outcome, SameFile, e
<1>2. CASE r = Outcome(Reject(c), NoTask, TRUE)
  BY <1>2, RejectFine
<1>3. CASE HeaderLength(c.readBuffer) = 0 /\ r = Wait(c)
  BY <1>1, <1>3 DEF Incomplete, SameFile
<1>4. CASE /\ HeaderLength(c.readBuffer) # 0
           /\ r = IF p.conn.requestBody # NoBody THEN Wait(p.conn) ELSE p
  <2>1. CASE Fine(p, c) /\ Busy(p.conn)
    <3>1. p.conn.requestBody = NoBody
      BY <2>1 DEF Fine, Sound
    <3> QED
      BY <1>4, <2>1, <3>1
  <2>2. CASE /\ Ready(p.conn) /\ p.conn.requestBody # NoBody /\ ~BodyComplete(p.conn)
             /\ SameFile(p.conn, c)
    BY <1>1, <1>4, <2>2 DEF Incomplete
  <2> QED
    BY <1>4, <2>1, <2>2, ParseFine
<1> QED
  BY <1>2, <1>3, <1>4 DEF NextRequest, ProcessReadBuffer

LEMMA NewSound ==
  ASSUME NEW id \in Nat
  PROVE  LET c == NewConnection(id)
         IN  /\ Sound(c) /\ c.id = id /\ c.interest = "read" /\ ~c.responsePending
             /\ c.fileTransfer = 0 /\ c.owed = 0
<1> DEFINE c == NewConnection(id)
<1>1. <<>> \in Seq(Token) /\ Len(<<>>) = 0
  OBVIOUS
<1>2. /\ c \in ConnectionType /\ c.id = id /\ c.interest = "read" /\ ~c.responsePending
      /\ c.fileTransfer = 0 /\ c.owed = 0 /\ c.writeBuffer = NoResponse
      /\ c.requestBody = NoBody /\ c.readBuffer = <<>> /\ c.parsed = 0 /\ c.answered = 0
  BY <1>1 DEF NewConnection, ConnectionType
<1> HIDE DEF c
<1>3. HeaderLength(c.readBuffer) = 0
  <2>1. HeaderLength(c.readBuffer) \in 0 .. Len(c.readBuffer)
    BY <1>2, HeaderEnds DEF ConnectionType
  <2> QED
    BY <1>1, <1>2, <2>1
<1>4. Incomplete(c)
  BY <1>2, <1>3 DEF Incomplete
<1>5. ~Busy(c)
  BY <1>2 DEF Busy, Writing
<1>6. Ready(c)
  BY <1>2, <1>5 DEF Ready
<1>7. Sound(c)
  BY <1>2, <1>4, <1>6, WaitFine
<1> QED
  BY <1>2, <1>7 DEF c

----------------------------------------------------------------------------
(* The response comes back *)

CompletionFor(m, c) ==
  /\ m.id = c.id /\ m.n = c.parsed
  /\ m.keepAlive \in BOOLEAN /\ m.closeAfterWrite \in BOOLEAN /\ m.file \in Nat

LEMMA InstallFine ==
  ASSUME NEW c, Sound(c), c.responsePending, NEW m, CompletionFor(m, c), NEW opened
  PROVE  LET d == Install(c, m, opened)
         IN  Sound(d) /\ Busy(d) /\ d.id = c.id /\ ~d.responsePending /\ d.fileTransfer = d.owed
<1> DEFINE file == IF opened THEN m.file ELSE 0
           e == [c EXCEPT !.responsePending = FALSE]
           text == [id |-> m.id, n |-> m.n, keepAlive |-> m.keepAlive, left |-> HeadUnits]
           d == Install(c, m, opened)
<1>1. file \in Nat
  BY DEF CompletionFor
<1>2. text \in Response /\ text # NoResponse /\ text.id = c.id /\ text.n = c.answered + 1
  <2>1. text \in Response
    BY ConnectionAssumption DEF Response, Sound, CompletionFor, ConnectionType
  <2>2. c.parsed = c.answered + 1
    BY DEF Sound, Busy
  <2> QED
    BY <2>1, <2>2, Absent DEF CompletionFor
<1>3. d = [Respond(e, m.id, m.n, m.keepAlive, m.closeAfterWrite)
             EXCEPT !.fileTransfer = file, !.owed = file]
  BY DEF Install
<1>4. Respond(e, m.id, m.n, m.keepAlive, m.closeAfterWrite)
        = [e EXCEPT !.writeBuffer = text, !.closeAfterWrite = m.closeAfterWrite,
                    !.interest = "write"]
  BY DEF Respond
<1> HIDE DEF file, text, d
<1>5. e \in ConnectionType /\ e.id = c.id /\ e.responsePending = FALSE
      /\ e.parsed = c.parsed /\ e.answered = c.answered /\ e.requestBody = c.requestBody
  BY DEF Sound, ConnectionType
<1> HIDE DEF e
<1>6. /\ d \in ConnectionType /\ d.id = c.id /\ d.responsePending = FALSE
      /\ d.parsed = c.parsed /\ d.answered = c.answered /\ d.requestBody = c.requestBody
      /\ d.writeBuffer = text /\ d.fileTransfer = file /\ d.owed = file
      /\ d.interest = "write"
  <2> DEFINE close == m.closeAfterWrite
  <2>1. close \in BOOLEAN
    BY DEF CompletionFor
  <2> HIDE DEF close
  <2>2. d = [e EXCEPT !.writeBuffer = text, !.closeAfterWrite = close, !.interest = "write",
                      !.fileTransfer = file, !.owed = file]
    BY <1>3, <1>4 DEF close
  <2>3. d \in ConnectionType
    BY <1>1, <1>2, <1>5, <2>1, <2>2 DEF ConnectionType
  <2> QED
    BY <1>1, <1>2, <1>5, <2>1, <2>2, <2>3 DEF ConnectionType
<1>7. Writing(d) /\ Busy(d) /\ ~d.responsePending
  BY <1>2, <1>6 DEF Writing, Busy
<1>8. c.parsed = c.answered + 1 /\ c.requestBody = NoBody
  BY DEF Sound, Busy
<1>9. Sound(d)
  <2>1. d.parsed = d.answered + (IF Busy(d) THEN 1 ELSE 0)
    BY <1>6, <1>7, <1>8
  <2>2. d.interest = (IF d.responsePending THEN "none" ELSE IF Writing(d) THEN "write" ELSE "read")
    BY <1>6, <1>7
  <2> QED
    BY <1>2, <1>6, <1>7, <1>8, <2>1, <2>2 DEF Sound
<1> QED
  BY <1>6, <1>7, <1>9 DEF d

----------------------------------------------------------------------------
(* What is buffered *)

\* The limits on a connection's read buffer, if one recv adds at most chunk.
Bounded(c, chunk) ==
  LET n == Len(c.readBuffer)
  IN  /\ c.requestBody # NoBody =>
           c.requestBody.headerLength <= MaxHeader /\ c.requestBody.bodyLength <= MaxBody
      /\ c.interest = "read" /\ c.requestBody = NoBody => n <= MaxHeader
      /\ c.responsePending \/ (Writing(c) /\ ~c.closeAfterWrite) => n < chunk
      /\ n <= MaxHeader + chunk + MaxBody

LEMMA BufferLength == \A c \in ConnectionType : Len(c.readBuffer) \in Nat
BY LenProperties DEF ConnectionType

\* Less than a chunk is left, and no body is awaited.
LEMMA LittleLeft ==
  ASSUME NEW c \in ConnectionType, NEW chunk \in Nat, c.requestBody = NoBody,
         Len(c.readBuffer) < chunk, c.interest # "read" \/ chunk <= MaxHeader
  PROVE  Bounded(c, chunk)
BY BufferLength, ConnectionAssumption DEF Bounded

\* The end of the connection: what is in its buffer will not be looked at.
LEMMA RejectBounded ==
  ASSUME NEW c, Ready(c), NEW chunk \in Nat, Len(c.readBuffer) <= MaxHeader + chunk + MaxBody
  PROVE  Bounded(Reject(c), chunk)
<1> DEFINE d == Reject(c)
<1>1. d.readBuffer = c.readBuffer /\ d.requestBody = NoBody /\ d.interest = "write"
      /\ d.closeAfterWrite = TRUE /\ d.responsePending = c.responsePending
  BY DEF Reject, Respond, Ready, ConnectionType
<1> HIDE DEF d
<1>2. ~c.responsePending
  BY DEF Ready, Busy
<1> QED
  BY <1>1, <1>2 DEF Bounded, d

LEMMA ServeBounded ==
  ASSUME NEW c, Ready(c), c.requestBody # NoBody, BodyComplete(c), NEW accepts, NEW chunk \in Nat,
         Len(c.readBuffer) < c.requestBody.headerLength + c.requestBody.bodyLength + chunk
  PROVE  Bounded(ServeRequest(c, accepts).conn, chunk)
<1> DEFINE d == Consume(c)
           kind == Parsed[c.requestBody.kind]
           b == c.requestBody
           e == ServeRequest(c, accepts).conn
<1>0. c \in ConnectionType
  BY DEF Ready
<1>1. /\ c.readBuffer \in Seq(Token) /\ Len(c.readBuffer) \in Nat
      /\ b.headerLength \in Nat /\ b.bodyLength \in Nat
  BY <1>0, BufferLength DEF ConnectionType
<1>2. d \in ConnectionType /\ d.requestBody = NoBody
  BY ConsumeReady
<1>3. Len(d.readBuffer) < chunk
  <2> DEFINE from == b.headerLength + b.bodyLength + 1
             rest == SubSeq(c.readBuffer, from, Len(c.readBuffer))
  <2>1. \A i \in from .. Len(c.readBuffer) : c.readBuffer[i] \in Token
    BY <1>1, ElementOfSeq
  <2>2. from \in Nat /\ Len(c.readBuffer) >= from - 1
    BY <1>1 DEF BodyComplete
  <2>3. Len(rest) = Len(c.readBuffer) - from + 1
    <3> DEFINE n == Len(c.readBuffer)
    <3>1. from \in Int /\ n \in Int /\ n >= from - 1
      BY <1>1, <2>2
    <3>2. \A i \in from .. n : c.readBuffer[i] \in Token
      BY <2>1
    <3> HIDE DEF from, n
    <3>3. Len(SubSeq(c.readBuffer, from, n)) = IF from <= n THEN n - from + 1 ELSE 0
      BY <3>1, <3>2, SubSeqProperties
    <3>4. Len(SubSeq(c.readBuffer, from, n)) = n - from + 1
      BY <3>1, <3>3
    <3> QED
      BY <3>4 DEF n
  <2>4. d.readBuffer = rest
    BY DEF Consume, Ready, ConnectionType
  <2> HIDE DEF rest, d
  <2>5. Len(d.readBuffer) = Len(c.readBuffer) - from + 1
    BY <2>3, <2>4
  <2>6. Len(c.readBuffer) < b.headerLength + b.bodyLength + chunk
    OBVIOUS
  <2> QED
    BY <1>1, <2>5, <2>6
<1> HIDE DEF d, kind
<1>4. \/ e = Respond(d, c.id, d.parsed, kind.keepAlive, ~kind.keepAlive)
      \/ e = Pending(d)
      \/ e = Refused(Pending(d))
  BY DEF ServeRequest, Outcome, d, kind
<1> HIDE DEF e
<1>5. e.readBuffer = d.readBuffer /\ e.requestBody = NoBody /\ e.interest # "read"
  <2>1. CASE e = Respond(d, c.id, d.parsed, kind.keepAlive, ~kind.keepAlive)
    BY <1>2, <2>1 DEF Respond, ConnectionType
  <2>2. CASE e = Pending(d)
    BY <1>2, <2>2 DEF Pending, ConnectionType
  <2>3. CASE e = Refused(Pending(d))
    BY <1>2, <2>3 DEF Respond, Pending, Refused, ConnectionType
  <2> QED
    BY <1>4, <2>1, <2>2, <2>3
<1>6. e \in ConnectionType
  BY ServeFine DEF Fine, Sound, e
<1> QED
  BY <1>3, <1>5, <1>6, LittleLeft DEF e

LEMMA ParseBounded ==
  ASSUME NEW c, Ready(c), c.requestBody = NoBody, NEW accepts, NEW chunk \in Nat,
         HeaderLength(c.readBuffer) \in 1 .. MaxHeader,
         Len(c.readBuffer) < HeaderLength(c.readBuffer) + chunk
  PROVE  Bounded(ParseHeader(c, accepts).conn, chunk)
<1> DEFINE length == HeaderLength(c.readBuffer)
           token == c.readBuffer[length]
           kind == Parsed[token]
           bl == IF kind.post THEN kind.bodyLength ELSE 0
           b == [kind |-> token, headerLength |-> length, bodyLength |-> bl]
           d == [c EXCEPT !.requestBody = b]
           r == ParseHeader(c, accepts)
<1>1. length \in Nat /\ token \in DOMAIN Request /\ length <= MaxHeader /\ MaxHeader \in Nat
      /\ MaxBody \in Nat /\ Len(c.readBuffer) \in Nat
  <2>1. c.readBuffer \in Seq(Token)
    BY DEF Ready, ConnectionType
  <2> QED
    BY <2>1, HeaderEnds, LenProperties, ConnectionAssumption
<1>2. kind \in KindType
  BY <1>1, ParsedType
<1>3. Len(c.readBuffer) < length + chunk
  OBVIOUS
<1> HIDE DEF length, token, kind
<1>4. bl \in Nat
  BY <1>2 DEF KindType
<1>5. \/ r.conn = Reject(c)
      \/ BodyComplete(d) /\ r = ServeRequest(d, accepts)
      \/ ~BodyComplete(d) /\ r.conn = d /\ bl <= MaxBody
  <2>1. \/ r.conn = Reject(c)
        \/ BodyComplete(d) /\ r = ServeRequest(d, accepts)
        \/ ~BodyComplete(d) /\ r.conn = d /\ ~(kind.post /\ kind.bodyLength > MaxBody)
    BY DEF ParseHeader, Outcome, length, token, kind, b, d
  <2>2. ~(kind.post /\ kind.bodyLength > MaxBody) => bl <= MaxBody
    BY <1>1, <1>2 DEF KindType
  <2> QED
    BY <2>1, <2>2
<1> HIDE DEF bl
<1>6. b \in [kind : DOMAIN Request, headerLength : Nat, bodyLength : Nat] /\ b # NoBody
      /\ b.headerLength = length /\ b.bodyLength = bl
  BY <1>1, <1>4, Absent
<1> HIDE DEF b
<1>7. Ready(d) /\ d.requestBody = b /\ d.readBuffer = c.readBuffer
  BY <1>6 DEF Ready, ConnectionType, Busy, Writing
<1>8. Len(c.readBuffer) <= MaxHeader + chunk + MaxBody
  BY <1>1, <1>3
<1> HIDE DEF d, r
<1>9. CASE r.conn = Reject(c)
  BY <1>8, <1>9, RejectBounded DEF r
<1>10. CASE BodyComplete(d) /\ r = ServeRequest(d, accepts)
  <2>1. Len(d.readBuffer) < d.requestBody.headerLength + d.requestBody.bodyLength + chunk
    <3>1. /\ d.readBuffer = c.readBuffer
          /\ d.requestBody.headerLength = length /\ d.requestBody.bodyLength = bl
      BY <1>6, <1>7
    <3>2. Len(c.readBuffer) \in Nat /\ length \in Nat /\ bl \in Nat
          /\ Len(c.readBuffer) < length + chunk
      BY <1>1, <1>3, <1>4
    <3>3. Len(c.readBuffer) < length + bl + chunk
      BY <3>2
    <3> QED
      BY <3>1, <3>3, Zenon
  <2> QED
    BY <1>6, <1>7, <1>10, <2>1, ServeBounded DEF r
<1>11. CASE ~BodyComplete(d) /\ r.conn = d /\ bl <= MaxBody
  <2>1. ~d.responsePending /\ ~Writing(d)
    BY <1>7 DEF Ready, Busy
  <2> QED
    BY <1>1, <1>6, <1>7, <1>8, <1>11, <2>1 DEF Bounded, r
<1> QED
  BY <1>5, <1>9, <1>10, <1>11

\* What recv appends is all that follows the end of a header that was not
\* complete before.
LEMMA HeaderFound ==
  ASSUME NEW old \in Seq(Token), NEW bytes \in Seq(Token), HeaderLength(old) = 0,
         HeaderLength(old \o bytes) # 0
  PROVE  HeaderLength(old \o bytes) > Len(old)
<1> DEFINE all == old \o bytes
           n == HeaderLength(all)
<1>1. /\ all \in Seq(Token) /\ Len(old) \in Nat /\ Len(bytes) \in Nat
      /\ Len(all) = Len(old) + Len(bytes)
      /\ \A i \in 1 .. Len(old) : all[i] = old[i]
  BY LenProperties, ConcatProperties
<1> HIDE DEF all
<1>2. n \in 1 .. Len(all) /\ all[n] \in DOMAIN Request
  <2>1. n # 0
    BY DEF all
  <2>2. n \in 0 .. Len(all) /\ (n # 0 => all[n] \in DOMAIN Request)
    BY <1>1, HeaderEnds
  <2> QED
    BY <1>1, <2>1, <2>2
<1>3. \A i \in 1 .. Len(old) : old[i] \notin DOMAIN Request
  BY HeaderEnds
<1> HIDE DEF n
<1>4. n > Len(old)
  <2>1. SUFFICES ASSUME ~(n > Len(old)) PROVE FALSE
    OBVIOUS
  <2>2. n \in 1 .. Len(old)
    BY <1>1, <1>2, <2>1
  <2> QED
    BY <1>1, <1>2, <1>3, <2>2, Zenon
<1> QED
  BY <1>4 DEF n, all

LEMMA AfterRecvBounded ==
  ASSUME NEW c, Sound(c), c.interest = "read", NEW chunk \in Nat, Bounded(c, chunk),
         NEW bytes \in Seq(Token), Len(bytes) <= chunk,
         NEW d, d = [c EXCEPT !.readBuffer = @ \o bytes, !.idle = FALSE], Ready(d), NEW accepts
  PROVE  Bounded(AfterRecv(d, accepts).conn, chunk)
<1> DEFINE old == c.readBuffer
           n == Len(d.readBuffer)
           b == c.requestBody
           r == AfterRecv(d, accepts)
<1>1. /\ old \in Seq(Token) /\ Len(old) \in Nat /\ Len(bytes) \in Nat
      /\ MaxHeader \in Nat /\ MaxBody \in Nat
      /\ Len(old \o bytes) = Len(old) + Len(bytes) /\ old \o bytes \in Seq(Token)
  BY LenProperties, ConcatProperties, ConnectionAssumption DEF Sound, ConnectionType
<1>2. d.readBuffer = old \o bytes /\ d.requestBody = b
  BY DEF Sound, ConnectionType
<1>a. HeaderLength(d.readBuffer) \in 0 .. n /\ n \in Nat
  <2>1. d.readBuffer \in Seq(Token)
    BY <1>1, <1>2
  <2> QED
    BY <2>1, HeaderEnds, LenProperties
<1>3. n = Len(old) + Len(bytes) /\ Incomplete(c)
  BY <1>1, <1>2 DEF Sound
<1>4. ~d.responsePending /\ ~Writing(d)
  BY DEF Ready, Busy
<1> HIDE DEF r
<1>5. CASE b = NoBody
  <2>1. Len(old) <= MaxHeader /\ HeaderLength(old) = 0
    BY <1>3, <1>5 DEF Bounded, Incomplete
  <2>2. n <= MaxHeader + chunk + MaxBody
    BY <1>1, <1>3, <2>1
  <2>3. \/ r.conn = Reject(d)
        \/ /\ HeaderLength(d.readBuffer) # 0 /\ HeaderLength(d.readBuffer) <= MaxHeader
           /\ r = ParseHeader(d, accepts)
        \/ HeaderLength(d.readBuffer) = 0 /\ n <= MaxHeader /\ r.conn = d
    <3>1. HeaderLength(d.readBuffer) \in Nat
      BY <1>a
    <3> QED
      BY <1>1, <1>2, <1>3, <1>5, <3>1 DEF r, AfterRecv, ProcessReadBuffer, HeaderTooLarge, Outcome
  <2>4. CASE r.conn = Reject(d)
    BY <2>2, <2>4, RejectBounded DEF r
  <2>5. CASE /\ HeaderLength(d.readBuffer) # 0 /\ HeaderLength(d.readBuffer) <= MaxHeader
             /\ r = ParseHeader(d, accepts)
    <3>1. HeaderLength(d.readBuffer) > Len(old)
      BY <1>1, <1>2, <2>1, <2>5, HeaderFound
    <3>2. HeaderLength(d.readBuffer) \in 1 .. MaxHeader
      BY <1>1, <1>a, <2>5
    <3>3. n < HeaderLength(d.readBuffer) + chunk
      BY <1>1, <1>3, <3>1, <3>2
    <3> QED
      BY <1>2, <1>5, <2>5, <3>2, <3>3, ParseBounded DEF r
  <2>6. CASE HeaderLength(d.readBuffer) = 0 /\ n <= MaxHeader /\ r.conn = d
    BY <1>2, <1>4, <1>5, <2>2, <2>6 DEF Bounded, r
  <2> QED
    BY <2>3, <2>4, <2>5, <2>6
<1>6. CASE b # NoBody
  <2>1. /\ b.headerLength \in Nat /\ b.bodyLength \in Nat
        /\ b.headerLength <= MaxHeader /\ b.bodyLength <= MaxBody
    BY <1>6 DEF Bounded, Sound, ConnectionType
  <2>2. Len(old) < b.headerLength + b.bodyLength
    BY <1>1, <1>3, <1>6, <2>1 DEF Incomplete, BodyComplete
  <2>3. n < b.headerLength + b.bodyLength + chunk /\ n <= MaxHeader + chunk + MaxBody
    <3> DEFINE o == Len(old)
               m == Len(bytes)
    <3>1. o \in Nat /\ m \in Nat /\ m <= chunk /\ MaxHeader \in Nat /\ MaxBody \in Nat
      BY <1>1
    <3>2. n = o + m /\ o < b.headerLength + b.bodyLength
      BY <1>3, <2>2
    <3> HIDE DEF o, m, n, b
    <3> QED
      BY <2>1, <3>1, <3>2
  <2>4. \/ BodyComplete(d) /\ r = ServeRequest(d, accepts)
        \/ r.conn = Reject(d)
        \/ r.conn = d
    BY <1>2, <1>6 DEF r, AfterRecv, ProcessReadBuffer, Outcome
  <2>5. CASE BodyComplete(d) /\ r = ServeRequest(d, accepts)
    BY <1>2, <1>6, <2>3, <2>5, ServeBounded DEF r
  <2>6. CASE r.conn = Reject(d)
    BY <2>3, <2>6, RejectBounded DEF r
  <2>7. CASE r.conn = d
    BY <1>2, <1>4, <1>6, <2>1, <2>3, <2>7 DEF Bounded, r
  <2> QED
    BY <2>4, <2>5, <2>6, <2>7
<1> QED
  BY <1>5, <1>6

LEMMA NextRequestBounded ==
  ASSUME NEW c, Ready(c), c.requestBody = NoBody, NEW accepts, NEW chunk \in Nat,
         Len(c.readBuffer) < chunk, chunk <= MaxHeader
  PROVE  Bounded(NextRequest(c, accepts).conn, chunk)
<1> DEFINE r == NextRequest(c, accepts)
           p == ParseHeader(c, accepts)
           n == HeaderLength(c.readBuffer)
           Wait(d) == [d EXCEPT !.interest = "read"]
<1>1. /\ c.readBuffer \in Seq(Token) /\ Len(c.readBuffer) \in Nat /\ c \in ConnectionType
      /\ MaxHeader \in Nat /\ MaxBody \in Nat
  BY BufferLength, ConnectionAssumption DEF Ready, ConnectionType
<1>2. n \in 0 .. Len(c.readBuffer)
  BY <1>1, HeaderEnds
<1>3. \/ r.conn = Reject(c)
      \/ r.conn = Wait(c)
      \/ n # 0 /\ (IF p.conn.requestBody # NoBody THEN r.conn = Wait(p.conn) ELSE r = p)
  BY DEF NextRequest, ProcessReadBuffer, Outcome
<1>4. CASE r.conn = Reject(c)
  BY <1>1, <1>4, RejectBounded
<1>5. CASE r.conn = Wait(c)
  <2> DEFINE d == Wait(c)
  <2>1. d \in ConnectionType /\ d.requestBody = NoBody /\ d.readBuffer = c.readBuffer
    BY <1>1 DEF ConnectionType
  <2> HIDE DEF d
  <2>2. Bounded(d, chunk)
    BY <2>1, LittleLeft
  <2> QED
    BY <1>5, <2>2 DEF d
<1>6. CASE n # 0 /\ (IF p.conn.requestBody # NoBody THEN r.conn = Wait(p.conn) ELSE r = p)
  <2>1. n \in 1 .. MaxHeader /\ Len(c.readBuffer) < n + chunk
    BY <1>1, <1>2, <1>6
  <2>2. Bounded(p.conn, chunk)
    BY <2>1, ParseBounded
  <2>3. CASE p.conn.requestBody = NoBody
    BY <1>6, <2>2, <2>3
  <2>4. CASE p.conn.requestBody # NoBody
    <3> DEFINE q == p.conn
               d == Wait(q)
    <3>1. q \in ConnectionType /\ ~Busy(q)
      BY <1>6, <2>4, ParseFine DEF Fine, Sound, Ready
    <3> HIDE DEF p, q
    <3>2. /\ d.requestBody = q.requestBody /\ d.readBuffer = q.readBuffer
          /\ d.responsePending = q.responsePending /\ d.writeBuffer = q.writeBuffer
          /\ d.fileTransfer = q.fileTransfer
      BY <3>1 DEF ConnectionType
    <3> HIDE DEF d
    <3>3. ~d.responsePending /\ ~Writing(d)
      BY <3>1, <3>2, Zenon DEF Busy, Writing
    <3>4. Bounded(d, chunk)
      BY <2>2, <2>4, <3>2, <3>3 DEF Bounded, q
    <3> QED
      BY <1>6, <2>4, <3>4 DEF d, q
  <2> QED
    BY <2>3, <2>4
<1> QED
  BY <1>3, <1>4, <1>5, <1>6

LEMMA InstallBounded ==
  ASSUME NEW c, Sound(c), c.responsePending, NEW m, CompletionFor(m, c), NEW opened,
         NEW chunk \in Nat, Bounded(c, chunk)
  PROVE  Bounded(Install(c, m, opened), chunk)
<1> DEFINE d == Install(c, m, opened)
<1>1. c \in ConnectionType /\ c.requestBody = NoBody /\ Len(c.readBuffer) < chunk
  BY DEF Sound, Busy, Bounded
<1>2. d.readBuffer = c.readBuffer /\ d.requestBody = NoBody /\ d.interest = "write"
  BY <1>1 DEF Install, Respond, ConnectionType
<1>3. d \in ConnectionType
  BY InstallFine DEF Sound
<1> HIDE DEF d
<1>4. Bounded(d, chunk)
  BY <1>1, <1>2, <1>3, LittleLeft
<1> QED
  BY <1>4 DEF d

\* Neither a new connection nor the clock adds anything.
LEMMA NewBounded == \A id \in Nat, chunk \in Nat : Bounded(NewConnection(id), chunk)
<1> SUFFICES ASSUME NEW id \in Nat, NEW chunk \in Nat PROVE Bounded(NewConnection(id), chunk)
  OBVIOUS
<1> DEFINE c == NewConnection(id)
<1>1. c.readBuffer = <<>> /\ c.requestBody = NoBody /\ ~c.responsePending /\ ~Writing(c)
  BY DEF NewConnection, Writing
<1> HIDE DEF c
<1>2. Len(c.readBuffer) = 0
  BY <1>1
<1> QED
  BY <1>1, <1>2, ConnectionAssumption DEF Bounded, c

LEMMA SameBounded ==
  ASSUME NEW c, NEW d, NEW chunk, Bounded(c, chunk),
         d.readBuffer = c.readBuffer, d.requestBody = c.requestBody, d.interest = c.interest,
         d.responsePending = c.responsePending, d.closeAfterWrite = c.closeAfterWrite,
         Writing(d) => Writing(c)
  PROVE  Bounded(d, chunk)
BY DEF Bounded

----------------------------------------------------------------------------
(* What a connection is told, and which bytes are its request's *)

\* The pieces of the body that a request of this kind announces.
BodyOf(kind) == IF Parsed[kind].post THEN Parsed[kind].bodyLength ELSE 0

\* What the response says of the connection is what becomes of it, and it is
\* only kept for a client that asked for it.
Promise(c) ==
  c.writeBuffer # NoResponse =>
    /\ c.writeBuffer.keepAlive = ~c.closeAfterWrite
    /\ c.writeBuffer.keepAlive => c.last \in DOMAIN Request /\ AsksToStay(Request[c.last])

\* A body is awaited after the header at the front of the buffer.
Framing(c) ==
  LET b == c.requestBody
  IN  b # NoBody =>
        /\ b.headerLength \in 1 .. Len(c.readBuffer) /\ c.readBuffer[b.headerLength] = b.kind
        /\ Parsed[b.kind].wellFormed /\ b.bodyLength = BodyOf(b.kind)

\* The body is what follows a header of this kind in the buffer.
CutFrom(buffer, kind, body) ==
  \E h \in 1 .. Len(buffer) :
    /\ buffer[h] = kind /\ Parsed[kind].wellFormed
    /\ Len(body) = BodyOf(kind) /\ h + BodyOf(kind) <= Len(buffer)
    /\ \A i \in 1 .. Len(body) : body[i] = buffer[h + i]

\* What is left of the buffer is its end.
EndOf(rest, buffer) ==
  \E d \in 0 .. Len(buffer) :
    Len(rest) = Len(buffer) - d /\ \A i \in 1 .. Len(rest) : rest[i] = buffer[d + i]

\* What a handler leaves of a connection that it has looked at.
Left(r, c) ==
  /\ Promise(r.conn) /\ Framing(r.conn)
  /\ EndOf(r.conn.readBuffer, c.readBuffer)
  /\ r.submit # NoTask =>
       r.submit.kind = r.conn.last /\ CutFrom(c.readBuffer, r.submit.kind, r.submit.body)

LEMMA WholeIsEnd == \A buffer \in Seq(Token) : EndOf(buffer, buffer)
<1> SUFFICES ASSUME NEW buffer \in Seq(Token)
             PROVE  \E d \in 0 .. Len(buffer) :
                      /\ Len(buffer) = Len(buffer) - d
                      /\ \A i \in 1 .. Len(buffer) : buffer[i] = buffer[d + i]
  BY DEF EndOf
<1>1. Len(buffer) \in Nat
  BY LenProperties
<1>2. 0 \in 0 .. Len(buffer) /\ Len(buffer) = Len(buffer) - 0
  BY <1>1
<1>3. \A i \in 1 .. Len(buffer) : buffer[i] = buffer[0 + i]
  <2> SUFFICES ASSUME NEW i \in 1 .. Len(buffer) PROVE buffer[i] = buffer[0 + i]
    OBVIOUS
  <2>1. 0 + i = i
    OBVIOUS
  <2> QED
    BY <2>1
<1> QED
  BY <1>2, <1>3

\* A part of a buffer, by its first element and its length.
LEMMA Slice ==
  ASSUME NEW s \in Seq(Token), NEW m \in Nat, NEW n \in Nat, m <= n, n <= Len(s)
  PROVE  /\ Len(SubSeq(s, m + 1, n)) = n - m
         /\ \A i \in 1 .. n - m : SubSeq(s, m + 1, n)[i] = s[m + i]
<1> DEFINE from == m + 1
<1>1. /\ from \in Int /\ (\A i \in from .. n : i \in 1 .. Len(s))
      /\ n - from + 1 = n - m /\ (~(from <= n) => n - m = 0)
      /\ \A i \in 1 .. n - m : from + i - 1 = m + i
  BY LenProperties
<1>2. \A i \in from .. n : s[i] \in Token
  BY <1>1, ElementOfSeq
<1> HIDE DEF from
<1>3. /\ Len(SubSeq(s, from, n)) = IF from <= n THEN n - from + 1 ELSE 0
      /\ \A i \in 1 .. n - from + 1 : SubSeq(s, from, n)[i] = s[from + i - 1]
  BY <1>1, <1>2, SubSeqProperties
<1>4. /\ Len(SubSeq(s, from, n)) = n - m
      /\ \A i \in 1 .. n - m : SubSeq(s, from, n)[i] = s[m + i]
  BY <1>1, <1>3
<1> QED
  BY <1>4 DEF from

\* Nothing is written and no body is awaited.
LEMMA SilentKeeps ==
  ASSUME NEW c, c.writeBuffer = NoResponse, c.requestBody = NoBody
  PROVE  Promise(c) /\ Framing(c)
BY DEF Promise, Framing

LEMMA RejectLeft ==
  ASSUME NEW c, Ready(c), NEW ctl
  PROVE  Left(Outcome(Reject(c), NoTask, ctl), c)
<1> DEFINE d == Reject(c)
           r == Outcome(d, NoTask, ctl)
<1>1. /\ d.readBuffer = c.readBuffer /\ d.requestBody = NoBody /\ d.closeAfterWrite = TRUE
      /\ d.writeBuffer.keepAlive = FALSE
  BY DEF Reject, Respond, Ready, ConnectionType
<1> HIDE DEF d
<1>2. Promise(d) /\ Framing(d)
  BY <1>1 DEF Promise, Framing
<1>3. EndOf(d.readBuffer, c.readBuffer)
  BY <1>1, WholeIsEnd DEF Ready, ConnectionType
<1> QED
  BY <1>2, <1>3 DEF Left, Outcome, d

\* The request that is taken out of the buffer, and its body.
LEMMA ConsumeLeft ==
  ASSUME NEW c, Ready(c), c.requestBody # NoBody, BodyComplete(c), Framing(c)
  PROVE  /\ EndOf(Consume(c).readBuffer, c.readBuffer)
         /\ Consume(c).last = c.requestBody.kind
         /\ Submission(c).kind = c.requestBody.kind
         /\ CutFrom(c.readBuffer, c.requestBody.kind, Submission(c).body)
<1> DEFINE b == c.requestBody
           h == b.headerLength
           l == b.bodyLength
           n == Len(c.readBuffer)
           rest == SubSeq(c.readBuffer, h + l + 1, n)
           body == SubSeq(c.readBuffer, h + 1, h + l)
<1>1. /\ c.readBuffer \in Seq(Token) /\ n \in Nat /\ h \in Nat /\ l \in Nat /\ b.kind \in DOMAIN Request
      /\ \A i \in 1 .. n : c.readBuffer[i] \in Token
  BY BufferLength, ElementOfSeq DEF Ready, ConnectionType
<1>2. /\ h \in 1 .. n /\ c.readBuffer[h] = b.kind /\ Parsed[b.kind].wellFormed
      /\ l = BodyOf(b.kind) /\ n >= h + l
  BY DEF Framing, BodyComplete
<1>3. Consume(c).readBuffer = rest /\ Consume(c).last = b.kind
  BY DEF Consume, Ready, ConnectionType
<1>4. Submission(c).kind = b.kind /\ Submission(c).body = body
  BY DEF Submission
<1> HIDE DEF b, h, l, n
<1>5. EndOf(rest, c.readBuffer)
  <2> DEFINE m == h + l
  <2>1. m \in 0 .. n /\ m \in Nat /\ m <= n /\ n <= n
    BY <1>1, <1>2
  <2> HIDE DEF m
  <2>2. Len(SubSeq(c.readBuffer, m + 1, n)) = n - m
        /\ \A i \in 1 .. n - m : SubSeq(c.readBuffer, m + 1, n)[i] = c.readBuffer[m + i]
    BY <1>1, <2>1, Slice DEF n
  <2>3. rest = SubSeq(c.readBuffer, m + 1, n)
    BY DEF m
  <2> HIDE DEF rest
  <2> QED
    BY <2>1, <2>2, <2>3 DEF EndOf, n
<1>6. CutFrom(c.readBuffer, b.kind, body)
  <2> DEFINE m == h + l
  <2>1. m \in Nat /\ h <= m /\ m <= n /\ m - h = l
    BY <1>1, <1>2
  <2> HIDE DEF m
  <2>2. Len(SubSeq(c.readBuffer, h + 1, m)) = m - h
        /\ \A i \in 1 .. m - h : SubSeq(c.readBuffer, h + 1, m)[i] = c.readBuffer[h + i]
    BY <1>1, <2>1, Slice DEF n
  <2>3. body = SubSeq(c.readBuffer, h + 1, m) /\ h + l <= n
    BY <2>1 DEF m
  <2> HIDE DEF body
  <2> QED
    BY <1>2, <2>1, <2>2, <2>3 DEF CutFrom, n
<1> QED
  BY <1>3, <1>4, <1>5, <1>6 DEF b

LEMMA ServeLeft ==
  ASSUME NEW c, Ready(c), c.requestBody # NoBody, BodyComplete(c), Framing(c), NEW accepts
  PROVE  Left(ServeRequest(c, accepts), c)
<1> DEFINE d == Consume(c)
           kind == Parsed[c.requestBody.kind]
           r == ServeRequest(c, accepts)
<1>1. /\ d \in ConnectionType /\ d.requestBody = NoBody /\ d.writeBuffer = NoResponse
      /\ kind \in KindType /\ Submission(c) # NoTask
      /\ c.requestBody.kind \in DOMAIN Request
  BY ConsumeReady, Absent DEF Busy, Writing, Ready, ConnectionType
<1>2. /\ EndOf(d.readBuffer, c.readBuffer) /\ d.last = c.requestBody.kind
      /\ Submission(c).kind = d.last /\ CutFrom(c.readBuffer, d.last, Submission(c).body)
  BY ConsumeLeft
<1>3. kind.keepAlive => AsksToStay(Request[d.last])
  BY <1>1, <1>2, HeadMeaning
<1>4. kind.keepAlive \in BOOLEAN
  BY <1>1 DEF KindType
<1> HIDE DEF d, kind
<1>5. \/ r = Outcome(Respond(d, c.id, d.parsed, kind.keepAlive, ~kind.keepAlive), NoTask, TRUE)
      \/ r = Outcome(Pending(d), Submission(c), TRUE)
      \/ r = Outcome(Refused(Pending(d)), NoTask, TRUE)
  BY DEF ServeRequest, d, kind
<1> HIDE DEF r
<1>6. CASE r = Outcome(Respond(d, c.id, d.parsed, kind.keepAlive, ~kind.keepAlive), NoTask, TRUE)
  <2> DEFINE e == Respond(d, c.id, d.parsed, kind.keepAlive, ~kind.keepAlive)
  <2>1. /\ e.readBuffer = d.readBuffer /\ e.requestBody = NoBody /\ e.last = d.last
        /\ e.writeBuffer.keepAlive = kind.keepAlive /\ e.closeAfterWrite = ~kind.keepAlive
    BY <1>1 DEF Respond, ConnectionType
  <2>2. r.conn = e /\ r.submit = NoTask
    BY <1>6 DEF Outcome
  <2> HIDE DEF e
  <2>3. Promise(e) /\ Framing(e)
    BY <1>1, <1>2, <1>3, <1>4, <2>1 DEF Promise, Framing
  <2> QED
    BY <1>2, <2>1, <2>2, <2>3 DEF Left, r
<1>7. CASE r = Outcome(Pending(d), Submission(c), TRUE)
  <2> DEFINE e == Pending(d)
  <2>1. /\ e.readBuffer = d.readBuffer /\ e.requestBody = NoBody /\ e.last = d.last
        /\ e.writeBuffer = NoResponse
    BY <1>1 DEF Pending, ConnectionType
  <2>2. r.conn = e /\ r.submit = Submission(c)
    BY <1>7 DEF Outcome
  <2> HIDE DEF e
  <2>3. Promise(e) /\ Framing(e)
    BY <2>1, SilentKeeps
  <2> QED
    BY <1>2, <2>1, <2>2, <2>3 DEF Left, r
<1>8. CASE r = Outcome(Refused(Pending(d)), NoTask, TRUE)
  <2> DEFINE e == Refused(Pending(d))
  <2>1. /\ e.readBuffer = d.readBuffer /\ e.requestBody = NoBody
        /\ e.writeBuffer.keepAlive = FALSE /\ e.closeAfterWrite = TRUE
    BY <1>1 DEF Refused, Pending, Respond, ConnectionType
  <2>2. r.conn = e /\ r.submit = NoTask
    BY <1>8 DEF Outcome
  <2> HIDE DEF e
  <2>3. Promise(e) /\ Framing(e)
    BY <2>1 DEF Promise, Framing
  <2> QED
    BY <1>2, <2>1, <2>2, <2>3 DEF Left, r
<1> QED
  BY <1>5, <1>6, <1>7, <1>8 DEF r

LEMMA ParseLeft ==
  ASSUME NEW c, Ready(c), c.requestBody = NoBody, HeaderLength(c.readBuffer) # 0, NEW accepts
  PROVE  Left(ParseHeader(c, accepts), c)
<1> DEFINE length == HeaderLength(c.readBuffer)
           token == c.readBuffer[length]
           kind == Parsed[token]
           b == [kind |-> token, headerLength |-> length,
                 bodyLength |-> IF kind.post THEN kind.bodyLength ELSE 0]
           d == [c EXCEPT !.requestBody = b]
           r == ParseHeader(c, accepts)
<1>1. /\ length \in 1 .. Len(c.readBuffer) /\ token \in DOMAIN Request
      /\ c.readBuffer \in Seq(Token) /\ Len(c.readBuffer) \in Nat
  <2>1. c.readBuffer \in Seq(Token) /\ Len(c.readBuffer) \in Nat
    BY BufferLength DEF Ready, ConnectionType
  <2>2. length \in 0 .. Len(c.readBuffer) /\ length # 0 /\ token \in DOMAIN Request
    BY <2>1, HeaderEnds
  <2> HIDE DEF length, token
  <2> QED
    BY <2>1, <2>2
<1>2. kind \in KindType
  BY <1>1, ParsedType
<1>3. b.bodyLength = BodyOf(token) /\ b.kind = token /\ b.headerLength = length
  BY DEF BodyOf
<1>4. \/ r = Outcome(Reject(c), NoTask, TRUE)
      \/ kind.wellFormed /\ BodyComplete(d) /\ r = ServeRequest(d, accepts)
      \/ kind.wellFormed /\ r = Outcome(d, NoTask, FALSE)
  BY DEF ParseHeader
<1>5. c.readBuffer[length] = token
  OBVIOUS
<1> HIDE DEF length, token, kind
<1>6. b \in [kind : DOMAIN Request, headerLength : Nat, bodyLength : Nat] /\ b # NoBody
  BY <1>1, <1>2, Absent DEF KindType
<1> HIDE DEF b
<1>7. /\ Ready(d) /\ d.requestBody = b /\ d.readBuffer = c.readBuffer
      /\ d.writeBuffer = NoResponse
  BY <1>6 DEF Ready, ConnectionType, Busy, Writing
<1> HIDE DEF d, r
<1>8. CASE r = Outcome(Reject(c), NoTask, TRUE)
  BY <1>8, RejectLeft DEF r
<1>9. ASSUME kind.wellFormed PROVE Framing(d)
  BY <1>1, <1>3, <1>5, <1>7, <1>9 DEF Framing, kind
<1>10. CASE kind.wellFormed /\ BodyComplete(d) /\ r = ServeRequest(d, accepts)
  <2>1. Left(r, d)
    BY <1>6, <1>7, <1>9, <1>10, ServeLeft
  <2> QED
    BY <1>7, <2>1 DEF Left, r
<1>11. CASE kind.wellFormed /\ r = Outcome(d, NoTask, FALSE)
  <2>1. r.conn = d /\ r.submit = NoTask
    BY <1>11 DEF Outcome
  <2>2. Promise(d) /\ Framing(d) /\ EndOf(d.readBuffer, c.readBuffer)
    BY <1>1, <1>7, <1>9, <1>11, WholeIsEnd DEF Promise
  <2> QED
    BY <2>1, <2>2 DEF Left, r
<1> QED
  BY <1>4, <1>8, <1>10, <1>11 DEF r

LEMMA AfterRecvLeft ==
  ASSUME NEW c, Ready(c), Framing(c), NEW accepts
  PROVE  Left(AfterRecv(c, accepts), c)
<1> DEFINE r == AfterRecv(c, accepts)
<1>1. \/ r = Outcome(Reject(c), NoTask, TRUE)
      \/ r = Outcome(c, NoTask, FALSE)
      \/ c.requestBody # NoBody /\ BodyComplete(c) /\ r = ServeRequest(c, accepts)
      \/ c.requestBody = NoBody /\ HeaderLength(c.readBuffer) # 0 /\ r = ParseHeader(c, accepts)
  BY DEF AfterRecv, ProcessReadBuffer
<1> HIDE DEF r
<1>2. CASE r = Outcome(c, NoTask, FALSE)
  <2>1. r.conn = c /\ r.submit = NoTask
    BY <1>2 DEF Outcome
  <2>2. Promise(c) /\ EndOf(c.readBuffer, c.readBuffer)
    BY WholeIsEnd DEF Promise, Ready, Busy, Writing, ConnectionType
  <2> QED
    BY <2>1, <2>2 DEF Left, r
<1> QED
  BY <1>1, <1>2, RejectLeft, ServeLeft, ParseLeft DEF r

LEMMA NextRequestLeft ==
  ASSUME NEW c, Ready(c), c.requestBody = NoBody, NEW accepts
  PROVE  Left(NextRequest(c, accepts), c)
<1> DEFINE r == NextRequest(c, accepts)
           p == ParseHeader(c, accepts)
           Wait(d) == Outcome([d EXCEPT !.interest = "read"], NoTask, TRUE)
<1>1. \/ r = Outcome(Reject(c), NoTask, TRUE)
      \/ r = Wait(c)
      \/ HeaderLength(c.readBuffer) # 0 /\ p.conn.requestBody # NoBody /\ r = Wait(p.conn)
      \/ HeaderLength(c.readBuffer) # 0 /\ r = p
  BY DEF NextRequest, ProcessReadBuffer
<1>2. ASSUME NEW d \in ConnectionType, d.writeBuffer = NoResponse, Framing(d),
             EndOf(d.readBuffer, c.readBuffer)
      PROVE  Left(Wait(d), c)
  <2> DEFINE e == [d EXCEPT !.interest = "read"]
  <2>1. /\ e.writeBuffer = NoResponse /\ e.requestBody = d.requestBody
        /\ e.readBuffer = d.readBuffer
    BY <1>2 DEF ConnectionType
  <2> HIDE DEF e
  <2>2. Promise(e) /\ Framing(e) /\ EndOf(e.readBuffer, c.readBuffer)
    BY <1>2, <2>1 DEF Promise, Framing
  <2>3. Wait(d).conn = e /\ Wait(d).submit = NoTask
    BY DEF Outcome, e
  <2> QED
    BY <2>2, <2>3 DEF Left
<1> HIDE DEF r
<1>3. CASE r = Wait(c)
  <2>1. c \in ConnectionType /\ c.writeBuffer = NoResponse
    BY DEF Ready, Busy, Writing
  <2>2. Framing(c) /\ EndOf(c.readBuffer, c.readBuffer)
    BY <2>1, WholeIsEnd DEF Framing, ConnectionType
  <2> QED
    BY <1>2, <1>3, <2>1, <2>2 DEF r
<1>4. CASE HeaderLength(c.readBuffer) # 0 /\ p.conn.requestBody # NoBody /\ r = Wait(p.conn)
  <2>1. Left(p, c)
    BY <1>4, ParseLeft
  <2>2. p.conn \in ConnectionType /\ p.conn.writeBuffer = NoResponse
    BY <1>4, ParseFine DEF Fine, Sound, Ready, Busy, Writing
  <2> HIDE DEF p
  <2> QED
    BY <1>2, <1>4, <2>1, <2>2 DEF Left, r
<1> QED
  BY <1>1, <1>3, <1>4, RejectLeft, ParseLeft DEF r

\* The response says what becomes of the connection.
LEMMA InstallLeft ==
  ASSUME NEW c, Sound(c), c.responsePending, NEW m, NEW opened,
         m.keepAlive = ~m.closeAfterWrite,
         m.keepAlive => c.last \in DOMAIN Request /\ AsksToStay(Request[c.last])
  PROVE  LET d == Install(c, m, opened)
         IN  Promise(d) /\ Framing(d) /\ d.readBuffer = c.readBuffer /\ d.last = c.last
<1> DEFINE d == Install(c, m, opened)
<1>1. c \in ConnectionType /\ c.requestBody = NoBody
  BY DEF Sound, Busy
<1>2. /\ d.readBuffer = c.readBuffer /\ d.requestBody = NoBody /\ d.last = c.last
      /\ d.closeAfterWrite = m.closeAfterWrite /\ d.writeBuffer.keepAlive = m.keepAlive
  BY <1>1 DEF Install, Respond, ConnectionType
<1> HIDE DEF d
<1>3. Promise(d) /\ Framing(d)
  BY <1>2 DEF Promise, Framing
<1> QED
  BY <1>2, <1>3 DEF d

\* What recv appends to the buffer leaves the header where it was.
LEMMA ReceivedFraming ==
  ASSUME NEW c \in ConnectionType, Framing(c), NEW bytes \in Seq(Token),
         NEW d, d = [c EXCEPT !.readBuffer = @ \o bytes, !.idle = FALSE]
  PROVE  Framing(d)
<1> DEFINE b == c.requestBody
<1>1. d.readBuffer = c.readBuffer \o bytes /\ d.requestBody = b
  BY DEF ConnectionType
<1>2. /\ Len(c.readBuffer) \in Nat /\ Len(bytes) \in Nat
      /\ Len(d.readBuffer) = Len(c.readBuffer) + Len(bytes)
      /\ \A i \in 1 .. Len(c.readBuffer) : d.readBuffer[i] = c.readBuffer[i]
  BY <1>1, LenProperties, ConcatProperties DEF ConnectionType
<1> HIDE DEF b
<1>3. \A i \in 1 .. Len(c.readBuffer) : i \in 1 .. Len(d.readBuffer)
  BY <1>2
<1> QED
  BY <1>1, <1>2, <1>3 DEF Framing, b
=============================================================================
