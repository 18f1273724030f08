---------------------------- MODULE ServerProofs ----------------------------
(***************************************************************************)
(* Proofs about Server, for any descriptors, clients, workers and limits.   *)
(* ConnectionProofs shows what a handler leaves of one connection; here it  *)
(* is tied to the requests on their way through the pool and back, and to   *)
(* the events of a batch, which may be out of date.                         *)
(***************************************************************************)
EXTENDS Server, ConnectionProofs

----------------------------------------------------------------------------
(* The invariant *)

\* What is owed to the client of a file is what the transfer still has.
Owes(c) ==
  /\ c.fileTransfer <= c.owed
  /\ FileShrinks = {FALSE} => c.fileTransfer = c.owed

Conns == \A fd \in Open : Sound(connections[fd]) /\ Owes(connections[fd])

\* A connection is known by its id.
IdsOK ==
  \A f \in Open :
    /\ connections[f].id < nextConnectionId
    /\ \A g \in Open : connections[f].id = connections[g].id => f = g

Ids(s) == {s[i].id : i \in DOMAIN s}
Distinct(s) == \A i, j \in DOMAIN s : s[i].id = s[j].id => i = j

Holding == {w \in Worker : held[w] # NoTask}
HeldIds == {held[w].id : w \in Holding}

Flying ==
  Range(tasks) \cup {held[w] : w \in Holding} \cup Range(completions) \cup Range(taken)

\* No two requests on their way are of the same connection.
OnceEach ==
  /\ Distinct(tasks) /\ Distinct(completions) /\ Distinct(taken)
  /\ \A v, w \in Holding : held[v].id = held[w].id => v = w
  /\ Ids(tasks) \cap HeldIds = {}
  /\ Ids(tasks) \cap Ids(completions) = {}
  /\ Ids(tasks) \cap Ids(taken) = {}
  /\ HeldIds \cap Ids(completions) = {}
  /\ HeldIds \cap Ids(taken) = {}
  /\ Ids(completions) \cap Ids(taken) = {}

\* What is on its way belongs to a connection that waits for it, or to one that
\* is gone and whose id is not given again.
Belongs ==
  /\ \A x \in Flying :
       /\ x.id < nextConnectionId
       /\ \A fd \in Open : x.id = connections[fd].id =>
            /\ x.fd = fd /\ x.n = connections[fd].parsed
            /\ connections[fd].responsePending
  /\ \A fd \in Open : connections[fd].responsePending =>
       \E x \in Flying : x.id = connections[fd].id

Core == Conns /\ IdsOK /\ OnceEach /\ Belongs

\* Between its turns the loop holds no completions; the connection being read
\* waits for input, as does every one with an input event in the batch, even
\* if other events of the batch were handled in between.
Loop ==
  /\ pc # "deliver" => taken = <<>>
  /\ \A e \in batch, f \in batch : e[1] = f[1] => e = f
  /\ \A e \in batch : e[1] \in Open /\ "IN" \in e[2] => connections[e[1]].interest = "read"
  /\ pc = "read" =>
       /\ current \in Open /\ connections[current].interest = "read"
       /\ \A e \in batch : e[1] # current

IInv == TypeOK /\ Core /\ Loop

----------------------------------------------------------------------------
(* Sequences of requests *)

LEMMA Appended ==
  ASSUME NEW S, NEW s \in Seq(S), NEW x \in S
  PROVE  /\ Ids(Append(s, x)) = Ids(s) \cup {x.id}
         /\ Range(Append(s, x)) = Range(s) \cup {x}
         /\ Distinct(s) /\ x.id \notin Ids(s) => Distinct(Append(s, x))
<1> DEFINE t == Append(s, x)
<1>1. /\ DOMAIN s = 1 .. Len(s) /\ Len(s) \in Nat
      /\ DOMAIN t = 1 .. (Len(s) + 1)
      /\ \A i \in 1 .. Len(s) : t[i] = s[i]
      /\ t[Len(s) + 1] = x
  BY LenProperties, AppendProperties
<1> HIDE DEF t
<1>2. DOMAIN t = DOMAIN s \cup {Len(s) + 1} /\ Len(s) + 1 \notin DOMAIN s
  BY <1>1
<1> SUFFICES /\ Ids(t) = Ids(s) \cup {x.id} /\ Range(t) = Range(s) \cup {x}
             /\ Distinct(s) /\ x.id \notin Ids(s) => Distinct(t)
  BY DEF t
<1>3. Ids(t) = Ids(s) \cup {x.id}
  BY <1>1, <1>2 DEF Ids
<1>4. Range(t) = Range(s) \cup {x}
  BY <1>1, <1>2 DEF Range
<1>5. ASSUME Distinct(s), x.id \notin Ids(s) PROVE Distinct(t)
  BY <1>1, <1>2, <1>5 DEF Distinct, Ids
<1> QED
  BY <1>3, <1>4, <1>5

LEMMA FrontTaken ==
  ASSUME NEW S, NEW s \in Seq(S), s # <<>>
  PROVE  /\ Head(s) \in S /\ Tail(s) \in Seq(S)
         /\ Ids(s) = Ids(Tail(s)) \cup {Head(s).id}
         /\ Range(s) = Range(Tail(s)) \cup {Head(s)}
         /\ Distinct(s) => Distinct(Tail(s)) /\ Head(s).id \notin Ids(Tail(s))
<1> DEFINE h == Head(s)
           t == Tail(s)
<1>1. /\ Len(s) \in Nat \ {0} /\ DOMAIN s = 1 .. Len(s) /\ h \in S /\ t \in Seq(S)
      /\ DOMAIN t = 1 .. (Len(s) - 1) /\ h = s[1]
      /\ \A i \in 1 .. (Len(s) - 1) : t[i] = s[i + 1]
  BY LenProperties, HeadTailProperties, EmptySeq
<1> HIDE DEF h, t
<1>2. \A i \in DOMAIN t : i + 1 \in DOMAIN s /\ i + 1 # 1 /\ t[i] = s[i + 1]
  BY <1>1
<1>3. \A j \in DOMAIN s : j = 1 \/ (j - 1 \in DOMAIN t /\ t[j - 1] = s[j])
  BY <1>1
<1>4. 1 \in DOMAIN s /\ h = s[1]
  BY <1>1
<1>5. Ids(s) = Ids(t) \cup {h.id}
  BY <1>2, <1>3, <1>4 DEF Ids
<1>6. Range(s) = Range(t) \cup {h}
  BY <1>2, <1>3, <1>4 DEF Range
<1>7. ASSUME Distinct(s) PROVE Distinct(t) /\ h.id \notin Ids(t)
  <2>1. \A i, j \in DOMAIN t : t[i].id = t[j].id => i = j
    <3> SUFFICES ASSUME NEW i \in DOMAIN t, NEW j \in DOMAIN t, t[i].id = t[j].id PROVE i = j
      OBVIOUS
    <3>1. i + 1 = j + 1
      BY <1>2, <1>7 DEF Distinct
    <3> QED
      BY <1>1, <3>1
  <2>2. h.id \notin Ids(t)
    BY <1>2, <1>4, <1>7 DEF Distinct, Ids
  <2> QED
    BY <2>1, <2>2 DEF Distinct
<1> QED
  BY <1>1, <1>5, <1>6, <1>7 DEF h, t

----------------------------------------------------------------------------
(* Connections and requests, by what a step does to them *)

coreVars == <<connections, nextConnectionId, tasks, held, completions, taken>>

LEMMA CoreSame ==
  ASSUME Core, UNCHANGED coreVars
  PROVE  Core'
<1>1. Flying' = Flying /\ Open' = Open /\ HeldIds' = HeldIds /\ Holding' = Holding
  BY DEF coreVars, Flying, Open, HeldIds, Holding
<1>2. Conns' /\ IdsOK'
  BY <1>1 DEF coreVars, Core, Conns, IdsOK
<1>3. OnceEach'
  BY <1>1 DEF coreVars, Core, OnceEach
<1>4. Belongs'
  BY <1>1 DEF coreVars, Core, Belongs
<1> QED
  BY <1>2, <1>3, <1>4 DEF Core

\* Connections are closed.
LEMMA CoreClose ==
  ASSUME TypeOK, Core, NEW fds, Close(fds),
         UNCHANGED <<nextConnectionId, tasks, held, completions, taken>>
  PROVE  Core'
<1>1. /\ Flying' = Flying /\ HeldIds' = HeldIds /\ Holding' = Holding
  BY DEF Flying, HeldIds, Holding
<1>2. /\ Open' \subseteq Open
      /\ \A fd \in Open' : connections'[fd] = connections[fd]
  BY DEF Close, Open
<1>3. Conns' /\ IdsOK'
  BY <1>2 DEF Core, Conns, IdsOK
<1>4. OnceEach'
  BY <1>1 DEF Core, OnceEach
<1>5. Belongs'
  BY <1>1, <1>2 DEF Core, Belongs
<1> QED
  BY <1>3, <1>4, <1>5 DEF Core

\* One connection changes, without a request being submitted or delivered.
LEMMA CoreUpdate ==
  ASSUME TypeOK, Core, NEW fd \in Open, NEW d,
         connections' = [connections EXCEPT ![fd] = d],
         Sound(d), Owes(d), d.id = connections[fd].id,
         d.responsePending = connections[fd].responsePending,
         connections[fd].responsePending => d.parsed = connections[fd].parsed,
         UNCHANGED <<nextConnectionId, tasks, held, completions, taken>>
  PROVE  Core'
<1>1. /\ Flying' = Flying /\ HeldIds' = HeldIds /\ Holding' = Holding
  BY DEF Flying, HeldIds, Holding
<1>2. /\ Open' = Open
      /\ connections'[fd] = d
      /\ \A g \in Open : g # fd => connections'[g] = connections[g]
  <2>1. d # NoConnection
    BY Absent DEF Sound
  <2> QED
    BY <2>1 DEF Open, TypeOK
<1>3. Conns'
  BY <1>2 DEF Core, Conns, Owes
<1>4. IdsOK'
  BY <1>2 DEF Core, IdsOK
<1>5. OnceEach'
  BY <1>1 DEF Core, OnceEach
<1>6. Belongs'
  BY <1>1, <1>2 DEF Core, Belongs
<1> QED
  BY <1>3, <1>4, <1>5, <1>6 DEF Core

LEMMA IdsAreThoseOfFlying ==
  /\ \A i \in Ids(tasks) : \E x \in Flying : x.id = i
  /\ \A i \in HeldIds : \E x \in Flying : x.id = i
  /\ \A i \in Ids(completions) : \E x \in Flying : x.id = i
  /\ \A i \in Ids(taken) : \E x \in Flying : x.id = i
BY DEF Ids, HeldIds, Flying, Range

LEMMA TaskIsThere == \A t \in Task : t # NoTask
<1>1. \A t \in Task : "id" \in DOMAIN t
  BY DEF Task
<1>2. DOMAIN <<>> = {}
  OBVIOUS
<1> QED
  BY <1>1, <1>2 DEF NoTask

LEMMA FlyingIds == TypeOK => \A x \in Flying : x.id \in Nat
<1> SUFFICES ASSUME TypeOK, NEW x \in Flying PROVE x.id \in Nat
  OBVIOUS
<1>1. tasks \in Seq(Task) /\ completions \in Seq(Completion) /\ taken \in Seq(Completion)
  BY DEF TypeOK
<1>2. Range(tasks) \subseteq Task /\ Range(completions) \subseteq Completion
      /\ Range(taken) \subseteq Completion
  BY <1>1, ElementOfSeq, LenProperties DEF Range
<1>3. \A w \in Holding : held[w] \in Task
  BY DEF TypeOK, Holding
<1>4. x \in Task \cup Completion
  BY <1>2, <1>3 DEF Flying
<1> QED
  BY <1>4 DEF Task, Completion

\* A request is submitted.
LEMMA CoreSubmit ==
  ASSUME TypeOK, Core, NEW fd \in Open, NEW d, NEW request,
         connections' = [connections EXCEPT ![fd] = d],
         ~connections[fd].responsePending,
         Sound(d), Owes(d), d.id = connections[fd].id, d.responsePending,
         Job(fd, d, request) \in Task,
         tasks' = Append(tasks, Job(fd, d, request)),
         UNCHANGED <<nextConnectionId, held, completions, taken>>
  PROVE  Core'
<1> DEFINE job == Job(fd, d, request)
<1>1. job.id = d.id /\ job.fd = fd /\ job.n = d.parsed
  BY DEF Job
<1>2. \A x \in Flying : x.id # d.id
  BY DEF Core, Belongs
<1>3. tasks \in Seq(Task) /\ job \in Task
  BY DEF TypeOK
<1> HIDE DEF job
<1>4. tasks' = Append(tasks, job)
  BY DEF job
<1>5. /\ d.id \notin Ids(tasks) /\ d.id \notin HeldIds
      /\ d.id \notin Ids(completions) /\ d.id \notin Ids(taken)
  BY <1>2, IdsAreThoseOfFlying
<1>6. /\ Ids(tasks') = Ids(tasks) \cup {d.id}
      /\ Range(tasks') = Range(tasks) \cup {job}
      /\ Distinct(tasks) => Distinct(tasks')
  BY <1>1, <1>3, <1>4, <1>5, Appended
<1>7. Holding' = Holding /\ HeldIds' = HeldIds /\ Flying' = Flying \cup {job}
  BY <1>6 DEF Flying, HeldIds, Holding
<1>8. /\ Open' = Open
      /\ connections'[fd] = d
      /\ \A g \in Open : g # fd => connections'[g] = connections[g]
  <2>1. d # NoConnection
    BY Absent DEF Sound
  <2> QED
    BY <2>1 DEF Open, TypeOK
<1>9. Conns'
  BY <1>8 DEF Core, Conns, Owes
<1>10. IdsOK'
  BY <1>8 DEF Core, IdsOK
<1>11. OnceEach'
  BY <1>5, <1>6, <1>7 DEF Core, OnceEach
<1>12. Belongs'
  <2>1. ASSUME NEW x \in Flying', NEW g \in Open'
        PROVE  /\ x.id < nextConnectionId'
               /\ x.id = connections'[g].id => /\ x.fd = g /\ x.n = connections'[g].parsed
                                              /\ connections'[g].responsePending
    <3>1. CASE x = job
      <4>1. x.id = d.id /\ g \in Open
        BY <1>1, <1>8, <3>1
      <4>2. ASSUME x.id = connections'[g].id, g # fd PROVE FALSE
        <5>1. connections[g].id = connections[fd].id
          BY <1>8, <4>1, <4>2
        <5> QED
          BY <4>1, <4>2, <5>1 DEF Core, IdsOK
      <4> QED
        BY <1>1, <1>8, <3>1, <4>1, <4>2 DEF Core, IdsOK
    <3>2. CASE x \in Flying
      <4>1. x.id = connections'[g].id => g # fd
        BY <1>2, <1>8, <3>2
      <4> QED
        BY <1>8, <3>2, <4>1 DEF Core, Belongs
    <3> QED
      BY <1>7, <3>1, <3>2
  <2>2. ASSUME NEW g \in Open', connections'[g].responsePending
        PROVE  \E x \in Flying' : x.id = connections'[g].id
    <3>1. CASE g = fd
      BY <1>1, <1>7, <1>8, <3>1
    <3>2. CASE g # fd
      BY <1>7, <1>8, <2>2, <3>2 DEF Core, Belongs
    <3> QED
      BY <3>1, <3>2
  <2>3. \A x \in Flying' : x.id < nextConnectionId'
    BY <1>8, <2>1
  <2> QED
    BY <2>1, <2>2, <2>3 DEF Belongs
<1> QED
  BY <1>9, <1>10, <1>11, <1>12 DEF Core

\* A worker takes a task.
LEMMA CoreTake ==
  ASSUME TypeOK, Core, NEW w \in Worker, TQ!Take(w),
         UNCHANGED <<connections, nextConnectionId, completions, taken>>
  PROVE  Core'
<1> DEFINE h == Head(tasks)
<1>1. held[w] = NoTask /\ tasks # <<>> /\ tasks' = Tail(tasks) /\ held' = [held EXCEPT ![w] = h]
  BY DEF TQ!Take
<1>2. tasks \in Seq(Task) /\ held \in [Worker -> Task \cup {NoTask}]
  BY DEF TypeOK
<1>3. /\ h \in Task
      /\ Ids(tasks) = Ids(tasks') \cup {h.id}
      /\ Range(tasks) = Range(tasks') \cup {h}
      /\ Distinct(tasks) => Distinct(tasks') /\ h.id \notin Ids(tasks')
  BY <1>1, <1>2, FrontTaken
<1>4. h # NoTask
  BY <1>3, TaskIsThere
<1> HIDE DEF h
<1>5. /\ held'[w] = h /\ \A v \in Holding : v # w /\ held'[v] = held[v]
      /\ w \notin Holding /\ Holding' = Holding \cup {w}
  BY <1>1, <1>2, <1>4 DEF Holding
<1>6. HeldIds' = HeldIds \cup {h.id}
  BY <1>5 DEF HeldIds
<1>7. Flying' = Flying
  BY <1>3, <1>5 DEF Flying
<1>8. Conns' /\ IdsOK'
  BY DEF Core, Conns, IdsOK, Open
<1>9. OnceEach'
  <2>1. \A v, u \in Holding' : held'[v].id = held'[u].id => v = u
    <3>1. h.id \notin HeldIds
      BY <1>3 DEF Core, OnceEach
    <3> QED
      BY <1>5, <3>1 DEF Core, OnceEach, HeldIds, Holding
  <2> QED
    BY <1>3, <1>6, <2>1 DEF Core, OnceEach
<1>10. Belongs'
  BY <1>7 DEF Core, Belongs, Open
<1> QED
  BY <1>8, <1>9, <1>10 DEF Core

\* A worker pushes the response to its task.
LEMMA CoreQueue ==
  ASSUME TypeOK, Core, NEW w \in Worker, TQ!Finish(w),
         completions' = Append(completions, BuildResponse(held[w])),
         UNCHANGED <<connections, nextConnectionId, taken>>
  PROVE  Core' /\ BuildResponse(held[w]) \in Completion
<1> DEFINE x == held[w]
           b == BuildResponse(x)
<1>1. x # NoTask /\ tasks' = tasks /\ held' = [held EXCEPT ![w] = NoTask]
  BY DEF TQ!Finish
<1>2. completions \in Seq(Completion) /\ held \in [Worker -> Task \cup {NoTask}] /\ x \in Task
  BY <1>1 DEF TypeOK
<1>3. b \in Completion /\ b.id = x.id /\ b.fd = x.fd /\ b.n = x.n
  <2>1. Parsed[x.kind] \in KindType
    BY <1>2, ParsedType DEF Task
  <2> QED
    BY <1>2, <2>1 DEF BuildResponse, Completion, Task, KindType
<1>4. completions' = Append(completions, b)
  OBVIOUS
<1> HIDE DEF b
<1>5. w \in Holding /\ x.id \in HeldIds
  BY <1>1 DEF Holding, HeldIds
<1>6. x.id \notin Ids(completions)
  BY <1>5 DEF Core, OnceEach
<1>7. /\ Ids(completions') = Ids(completions) \cup {x.id}
      /\ Range(completions') = Range(completions) \cup {b}
      /\ Distinct(completions) => Distinct(completions')
  BY <1>2, <1>3, <1>4, <1>6, Appended
<1>8. /\ Holding' = Holding \ {w}
      /\ \A v \in Holding : v # w => held'[v] = held[v]
  BY <1>1, <1>2 DEF Holding
<1>9. HeldIds' = HeldIds \ {x.id}
  BY <1>5, <1>8 DEF HeldIds, Core, OnceEach
<1> HIDE DEF x
<1>10. /\ Flying' \subseteq Flying \cup {b}
       /\ b \in Flying'
       /\ x \in Flying
       /\ \A y \in Flying : y = x \/ y \in Flying'
  BY <1>1, <1>5, <1>7, <1>8 DEF Flying, x
<1>11. Conns' /\ IdsOK'
  BY DEF Core, Conns, IdsOK, Open
<1>12. OnceEach'
  <2>1. \A v, u \in Holding' : held'[v].id = held'[u].id => v = u
    BY <1>8 DEF Core, OnceEach
  <2> QED
    BY <1>1, <1>5, <1>7, <1>9, <2>1 DEF Core, OnceEach
<1>13. Belongs'
  <2>1. Open' = Open
    BY DEF Open
  <2>2. \A y \in Flying' :
          /\ y.id < nextConnectionId
          /\ \A fd \in Open : y.id = connections[fd].id =>
               /\ y.fd = fd /\ y.n = connections[fd].parsed
               /\ connections[fd].responsePending
    BY <1>3, <1>10 DEF Core, Belongs
  <2>3. \A fd \in Open : connections[fd].responsePending =>
          \E y \in Flying' : y.id = connections[fd].id
    BY <1>3, <1>10 DEF Core, Belongs
  <2> QED
    BY <2>1, <2>2, <2>3 DEF Belongs
<1> QED
  BY <1>3, <1>11, <1>12, <1>13 DEF Core, b, x

\* The loop takes the completions.
LEMMA CoreSwap ==
  ASSUME TypeOK, Core, taken = <<>>, taken' = completions, completions' = <<>>,
         UNCHANGED <<connections, nextConnectionId, tasks, held>>
  PROVE  Core'
<1>1. Ids(<<>>) = {} /\ Range(<<>>) = {} /\ Distinct(<<>>)
  BY DEF Ids, Range, Distinct
<1>2. HeldIds' = HeldIds /\ Holding' = Holding
  BY DEF HeldIds, Holding
<1>3. Flying' = Flying
  BY <1>1, <1>2 DEF Flying
<1>4. Conns' /\ IdsOK'
  BY DEF Core, Conns, IdsOK, Open
<1>5. OnceEach'
  BY <1>1, <1>2 DEF Core, OnceEach
<1>6. Belongs'
  BY <1>3 DEF Core, Belongs, Open
<1> QED
  BY <1>4, <1>5, <1>6 DEF Core

\* A completion is taken from the loop's deque: its connection is given the
\* response or closed, or there is none.
LEMMA CoreLand ==
  ASSUME TypeOK, Core, taken # <<>>, taken' = Tail(taken),
         Open' \subseteq Open,
         \A g \in Open' :
           \/ connections'[g] = connections[g] /\ connections[g].id # Head(taken).id
           \/ /\ Sound(connections'[g]) /\ Owes(connections'[g])
              /\ ~connections'[g].responsePending
              /\ connections'[g].id = connections[g].id
              /\ connections[g].id = Head(taken).id,
         UNCHANGED <<nextConnectionId, tasks, held, completions>>
  PROVE  Core'
<1> DEFINE h == Head(taken)
<1>1. taken \in Seq(Completion)
  BY DEF TypeOK
<1>2. /\ h \in Completion
      /\ Ids(taken) = Ids(taken') \cup {h.id}
      /\ Range(taken) = Range(taken') \cup {h}
      /\ Distinct(taken) => Distinct(taken') /\ h.id \notin Ids(taken')
  BY <1>1, FrontTaken
<1> HIDE DEF h
<1>3. HeldIds' = HeldIds /\ Holding' = Holding
  BY DEF HeldIds, Holding
<1>4. Flying = Flying' \cup {h}
  BY <1>2, <1>3 DEF Flying
<1>5. OnceEach'
  BY <1>2, <1>3 DEF Core, OnceEach
<1>6. \A x \in Flying' : x.id # h.id
  <2>1. h.id \notin Ids(tasks) /\ h.id \notin HeldIds /\ h.id \notin Ids(completions)
        /\ h.id \notin Ids(taken')
    BY <1>2 DEF Core, OnceEach
  <2> QED
    BY <2>1, <1>3 DEF Flying, Ids, HeldIds, Range
<1>7. Conns'
  BY DEF Core, Conns, Owes, h
<1>8. IdsOK'
  BY DEF Core, IdsOK
<1>9. Belongs'
  <2>1. ASSUME NEW x \in Flying'
        PROVE  /\ x.id < nextConnectionId'
               /\ \A g \in Open' : x.id = connections'[g].id =>
                    /\ x.fd = g /\ x.n = connections'[g].parsed
                    /\ connections'[g].responsePending
    BY <1>4, <1>6, <2>1 DEF Core, Belongs, h
  <2>2. ASSUME NEW g \in Open', connections'[g].responsePending
        PROVE  \E x \in Flying' : x.id = connections'[g].id
    <3>1. connections'[g] = connections[g] /\ connections[g].id # h.id
      BY <2>2 DEF h
    <3>2. PICK x \in Flying : x.id = connections[g].id
      BY <2>2, <3>1 DEF Core, Belongs
    <3> QED
      BY <1>4, <3>1, <3>2
  <2> QED
    BY <2>1, <2>2 DEF Belongs
<1> QED
  BY <1>5, <1>7, <1>8, <1>9 DEF Core

\* A client is accepted, or turned away.
LEMMA CoreAccept ==
  ASSUME TypeOK, Core, NEW fd \in Fd, connections[fd] = NoConnection,
         nextConnectionId' = nextConnectionId + 1,
         \/ connections' = [connections EXCEPT ![fd] = NewConnection(nextConnectionId)]
         \/ connections' = connections,
         UNCHANGED <<tasks, held, completions, taken>>
  PROVE  Core'
<1> DEFINE d == NewConnection(nextConnectionId)
<1>1. nextConnectionId \in Nat
  BY DEF TypeOK
<1>a. Sound(d) /\ d.id = nextConnectionId /\ ~d.responsePending /\ d.fileTransfer = 0 /\ d.owed = 0
  BY <1>1, NewSound
<1> HIDE DEF d
<1>2. Sound(d) /\ d.id = nextConnectionId /\ ~d.responsePending /\ Owes(d)
  BY <1>a DEF Owes
<1>3. Flying' = Flying /\ HeldIds' = HeldIds /\ Holding' = Holding
  BY DEF Flying, HeldIds, Holding
<1>4. OnceEach'
  BY <1>3 DEF Core, OnceEach
<1>5. \A f \in Open : connections[f].id < nextConnectionId /\ connections[f].id \in Nat
  BY DEF Core, Conns, IdsOK, Sound, ConnectionType
<1>6. CASE connections' = connections
  <2>1. Open' = Open
    BY <1>6 DEF Open
  <2>2. Conns' /\ IdsOK'
    BY <1>1, <1>5, <1>6, <2>1 DEF Core, Conns, IdsOK
  <2>3. Belongs'
    <3>1. \A x \in Flying : x.id < nextConnectionId /\ x.id \in Nat
      BY FlyingIds DEF Core, Belongs
    <3> QED
      BY <1>1, <1>3, <1>6, <2>1, <3>1 DEF Core, Belongs
  <2> QED
    BY <1>4, <2>2, <2>3 DEF Core
<1>7. CASE connections' = [connections EXCEPT ![fd] = d]
  <2>1. /\ Open' = Open \cup {fd} /\ fd \notin Open
        /\ connections'[fd] = d
        /\ \A g \in Open : connections'[g] = connections[g]
    <3>1. d # NoConnection
      BY <1>2, Absent DEF Sound
    <3> QED
      BY <1>7, <3>1 DEF Open, TypeOK
  <2>2. Conns'
    BY <1>2, <2>1 DEF Core, Conns, Owes
  <2>3. IdsOK'
    <3>1. \A f \in Open' : connections'[f].id < nextConnectionId'
      BY <1>1, <1>2, <1>5, <2>1
    <3>2. \A f \in Open : connections'[f].id # d.id
      BY <1>1, <1>2, <1>5, <2>1
    <3>3. \A f \in Open', g \in Open' : connections'[f].id = connections'[g].id => f = g
      BY <2>1, <3>2 DEF Core, IdsOK
    <3> QED
      BY <3>1, <3>3 DEF IdsOK
  <2>4. Belongs'
    <3>1. \A x \in Flying : x.id < nextConnectionId /\ x.id \in Nat
      BY FlyingIds DEF Core, Belongs
    <3>2. \A x \in Flying' : x.id < nextConnectionId' /\ x.id # d.id
      BY <1>1, <1>2, <1>3, <3>1
    <3> QED
      BY <1>2, <1>3, <2>1, <3>2 DEF Core, Belongs
  <2> QED
    BY <1>4, <2>2, <2>3, <2>4 DEF Core
<1> QED
  BY <1>6, <1>7 DEF d

----------------------------------------------------------------------------
(* Types, by the part of the state *)

ClientTypes ==
  /\ connections \in [Fd -> ConnectionType \cup {NoConnection}]
  /\ sockets \in [Fd -> Socket \cup {NoSocket}]
  /\ \A fd \in Fd : connections[fd] = NoConnection <=> sockets[fd] = NoSocket

PoolTypes ==
  /\ tasks \in Seq(Task) /\ Len(tasks) <= MaxQueueSize
  /\ held \in [Worker -> Task \cup {NoTask}]
  /\ stopping \in BOOLEAN

LEMMA SocketIsThere == \A s \in Socket : s # NoSocket
<1>1. \A s \in Socket : "inbox" \in DOMAIN s
  BY DEF Socket
<1>2. DOMAIN <<>> = {}
  OBVIOUS
<1> QED
  BY <1>1, <1>2 DEF NoSocket

LEMMA OpenTypes ==
  ASSUME TypeOK, NEW fd \in Open
  PROVE  fd \in Fd /\ connections[fd] \in ConnectionType /\ sockets[fd] \in Socket
BY DEF TypeOK, Open

LEMMA CloseTypes ==
  ASSUME TypeOK, NEW fds, Close(fds)
  PROVE  ClientTypes'
BY DEF TypeOK, Close, ClientTypes

\* A handler leaves a connection and a socket, or closes both.
LEMMA CommitTypes ==
  ASSUME TypeOK, NEW fd \in Open, NEW r, NEW socket \in Socket,
         Commit(fd, r, socket), r.conn \in ConnectionType, r.ctl \in BOOLEAN,
         r.submit = NoTask \/ Job(fd, r.conn, r.submit) \in Task
  PROVE  /\ ClientTypes' /\ PoolTypes' /\ held' = held
         /\ \/ Close({fd}) /\ tasks' = tasks /\ r.ctl
            \/ /\ connections' = [connections EXCEPT ![fd] = r.conn]
               /\ tasks' = IF r.submit = NoTask THEN tasks
                           ELSE Append(tasks, Job(fd, r.conn, r.submit))
<1> DEFINE job == Job(fd, r.conn, r.submit)
<1>0. PoolTypes
  BY DEF TypeOK, PoolTypes
<1>1. CASE Close({fd}) /\ UNCHANGED poolVars /\ r.ctl
  <2>1. PoolTypes'
    BY <1>0, <1>1 DEF PoolTypes, poolVars
  <2> QED
    BY <1>1, <2>1, CloseTypes DEF poolVars
<1>2. CASE /\ connections' = [connections EXCEPT ![fd] = r.conn]
           /\ sockets' = [sockets EXCEPT ![fd] = socket]
           /\ IF r.submit = NoTask THEN UNCHANGED poolVars ELSE TQ!Enqueue(job)
  <2>1. ClientTypes'
    BY <1>2, SocketIsThere, Absent DEF ClientTypes, TypeOK, Open
  <2>2. CASE r.submit = NoTask
    <3>1. PoolTypes' /\ tasks' = tasks /\ held' = held
      BY <1>0, <1>2, <2>2 DEF PoolTypes, poolVars
    <3> QED
      BY <1>2, <2>1, <2>2, <3>1
  <2>3. CASE r.submit # NoTask
    <3>1. job \in Task
      BY <2>3
    <3> HIDE DEF job
    <3>2. /\ tasks' = Append(tasks, job) /\ held' = held /\ stopping' = stopping
          /\ Len(tasks) < MaxQueueSize
      BY <1>2, <2>3 DEF TQ!Enqueue, TQ!Accepts
    <3>3. tasks' \in Seq(Task) /\ Len(tasks') = Len(tasks) + 1 /\ Len(tasks) \in Nat
      BY <1>0, <3>1, <3>2, AppendProperties, LenProperties DEF PoolTypes
    <3>4. Len(tasks') <= MaxQueueSize
      BY <3>2, <3>3, ServerAssumption
    <3>5. PoolTypes'
      BY <1>0, <3>2, <3>3, <3>4 DEF PoolTypes
    <3> QED
      BY <1>2, <2>1, <2>3, <3>2, <3>5 DEF job
  <2> QED
    BY <2>2, <2>3
<1> QED
  BY <1>1, <1>2 DEF Commit

\* What a handler may leave of a connection that was not waiting for a response.
Lasting(fd, r) ==
  /\ Sound(r.conn) /\ Owes(r.conn) /\ r.conn.id = connections[fd].id /\ r.ctl \in BOOLEAN
  /\ IF r.submit = NoTask THEN ~r.conn.responsePending
     ELSE r.conn.responsePending /\ r.submit \in SubmissionType

\* What committing that does.
LEMMA CommitCore ==
  ASSUME TypeOK, Core, NEW fd \in Open, NEW r, NEW socket \in Socket,
         Commit(fd, r, socket), ~connections[fd].responsePending,
         Lasting(fd, r), UNCHANGED <<nextConnectionId, completions, taken>>
  PROVE  /\ Core' /\ ClientTypes' /\ PoolTypes'
         /\ Open' \subseteq Open
         /\ \A g \in Open' : g # fd => connections'[g] = connections[g]
         /\ fd \in Open' => connections'[fd] = r.conn
         /\ ~r.ctl => fd \in Open'
<1> USE DEF Lasting
<1> DEFINE job == Job(fd, r.conn, r.submit)
<1>1. r.conn \in ConnectionType /\ r.conn # NoConnection
  BY Absent DEF Sound
<1>2. r.submit = NoTask \/ job \in Task
  BY <1>1, OpenTypes DEF Job, Task, SubmissionType, ConnectionType
<1>3. /\ ClientTypes' /\ PoolTypes' /\ held' = held
      /\ \/ Close({fd}) /\ tasks' = tasks /\ r.ctl
         \/ /\ connections' = [connections EXCEPT ![fd] = r.conn]
            /\ tasks' = IF r.submit = NoTask THEN tasks ELSE Append(tasks, job)
  BY <1>1, <1>2, CommitTypes
<1> HIDE DEF job
<1>4. CASE Close({fd}) /\ tasks' = tasks /\ r.ctl
  <2>1. Core'
    BY <1>3, <1>4, CoreClose
  <2>2. Open' = Open \ {fd} /\ \A g \in Open' : connections'[g] = connections[g]
    BY <1>4 DEF Close, Open
  <2> QED
    BY <1>3, <1>4, <2>1, <2>2
<1>5. CASE /\ connections' = [connections EXCEPT ![fd] = r.conn]
           /\ tasks' = IF r.submit = NoTask THEN tasks ELSE Append(tasks, job)
  <2>1. Open' = Open /\ connections'[fd] = r.conn
        /\ \A g \in Open : g # fd => connections'[g] = connections[g]
    BY <1>1, <1>5 DEF Open, TypeOK
  <2>2. CASE r.submit = NoTask
    <3>0. r.conn.responsePending = connections[fd].responsePending
      BY <1>1, <2>2, OpenTypes DEF ConnectionType
    <3>1. Core'
      BY <1>3, <1>5, <2>2, <3>0, CoreUpdate
    <3> QED
      BY <1>3, <2>1, <3>1
  <2>3. CASE r.submit # NoTask
    <3>1. Core'
      BY <1>2, <1>3, <1>5, <2>3, CoreSubmit DEF job
    <3> QED
      BY <1>3, <2>1, <3>1
  <2> QED
    BY <2>2, <2>3
<1> QED
  BY <1>3, <1>4, <1>5

----------------------------------------------------------------------------
(* The loop, by what a step does to it *)

\* Events are only used up, and those that are left still find what they
\* were reported for, or nothing.
LEMMA LoopKept ==
  ASSUME Loop, batch' \subseteq batch, pc' # "read", pc' # "deliver" => taken' = <<>>,
         \A e \in batch' : e[1] \in Open' /\ "IN" \in e[2] =>
            \/ connections'[e[1]].interest = "read"
            \/ e[1] \in Open /\ connections'[e[1]].interest = connections[e[1]].interest
  PROVE  Loop'
BY DEF Loop

LEMMA LoopSame ==
  ASSUME Loop, UNCHANGED <<connections, taken, batch, pc, current>>
  PROVE  Loop'
BY DEF Loop, Open

----------------------------------------------------------------------------
(* The actions *)

LEMMA ConnectKeeps == IInv /\ Connect => IInv'
<1> SUFFICES ASSUME IInv, Connect PROVE IInv'
  OBVIOUS
<1> USE DEF Connect, clientVars, poolVars, completionVars, loopVars
<1>1. TypeOK'
  BY DEF IInv, TypeOK
<1>2. Core'
  BY CoreSame DEF IInv, coreVars
<1>3. Loop'
  BY LoopSame DEF IInv
<1> QED
  BY <1>1, <1>2, <1>3 DEF IInv

LEMMA ClientStepKeeps ==
  ASSUME IInv, NEW fd \in Fd, NEW socket \in Socket, sockets[fd] # NoSocket,
         ClientStep(fd, socket)
  PROVE  IInv'
<1> USE DEF ClientStep, acceptVars, poolVars, completionVars, loopVars
<1>1. TypeOK'
  BY SocketIsThere DEF IInv, TypeOK
<1>2. Core'
  BY CoreSame DEF IInv, coreVars
<1>3. Loop'
  BY LoopSame DEF IInv
<1> QED
  BY <1>1, <1>2, <1>3 DEF IInv

LEMMA ClientKeeps ==
  ASSUME IInv, NEW fd \in Fd, Send(fd) \/ Receive(fd) \/ HalfClose(fd) \/ Reset(fd)
  PROVE  IInv'
<1> DEFINE s == sockets[fd]
<1>1. sockets[fd] # NoSocket
  BY DEF Send, Receive, HalfClose, Reset, Alive
<1>2. s \in Socket
  BY <1>1 DEF IInv, TypeOK
<1>3. <<>> \in Seq(Token)
  OBVIOUS
<1>4. CASE Send(fd)
  <2> DEFINE inbox == Append(s.inbox, Head(s.stream))
             stream == Tail(s.stream)
             t == [s EXCEPT !.inbox = inbox, !.stream = stream]
  <2>1. s.stream \in Seq(Token) /\ s.inbox \in Seq(Token) /\ s.stream # <<>>
    BY <1>2, <1>4 DEF Socket, Send
  <2>2. inbox \in Seq(Token) /\ stream \in Seq(Token)
    BY <2>1, HeadTailProperties, AppendProperties
  <2>3. ClientStep(fd, t)
    BY <1>4 DEF Send
  <2> HIDE DEF inbox, stream
  <2>4. t \in Socket
    BY <1>2, <2>2 DEF Socket
  <2> HIDE DEF t
  <2> QED
    BY <1>1, <2>3, <2>4, ClientStepKeeps
<1>5. CASE Receive(fd)
  <2> DEFINE t == [s EXCEPT !.full = FALSE]
  <2>1. t \in Socket /\ ClientStep(fd, t)
    BY <1>2, <1>5 DEF Receive, Socket
  <2> HIDE DEF t
  <2> QED
    BY <1>1, <2>1, ClientStepKeeps
<1>6. CASE HalfClose(fd)
  <2> DEFINE t == [s EXCEPT !.fin = TRUE, !.stream = <<>>]
  <2>1. t \in Socket /\ ClientStep(fd, t)
    BY <1>2, <1>3, <1>6 DEF HalfClose, Socket
  <2> HIDE DEF t
  <2> QED
    BY <1>1, <2>1, ClientStepKeeps
<1>7. CASE Reset(fd)
  <2> DEFINE t == [s EXCEPT !.rst = TRUE, !.stream = <<>>, !.inbox = <<>>]
  <2>1. t \in Socket /\ ClientStep(fd, t)
    BY <1>2, <1>3, <1>7 DEF Reset, Socket
  <2> HIDE DEF t
  <2> QED
    BY <1>1, <2>1, ClientStepKeeps
<1> QED
  BY <1>4, <1>5, <1>6, <1>7

\* The clock passes over a connection.
LEMMA IdleSound ==
  ASSUME NEW c, Sound(c), Owes(c)
  PROVE  LET d == [c EXCEPT !.idle = TRUE]
         IN  /\ Sound(d) /\ Owes(d) /\ d.id = c.id /\ d.interest = c.interest
             /\ d.responsePending = c.responsePending /\ d.parsed = c.parsed
<1> DEFINE d == [c EXCEPT !.idle = TRUE]
<1>1. /\ d \in ConnectionType
      /\ d.id = c.id /\ d.interest = c.interest /\ d.responsePending = c.responsePending
      /\ d.parsed = c.parsed /\ d.answered = c.answered /\ d.requestBody = c.requestBody
      /\ d.readBuffer = c.readBuffer /\ d.writeBuffer = c.writeBuffer
      /\ d.fileTransfer = c.fileTransfer /\ d.owed = c.owed
  BY DEF Sound, ConnectionType
<1> HIDE DEF d
<1>2. (Busy(d) <=> Busy(c)) /\ (Writing(d) <=> Writing(c)) /\ (Incomplete(d) <=> Incomplete(c))
  BY <1>1 DEF Busy, Writing, Incomplete, BodyComplete
<1>3. Sound(d)
  BY <1>1, <1>2 DEF Sound
<1>4. Owes(d)
  BY <1>1 DEF Owes
<1> QED
  BY <1>1, <1>3, <1>4 DEF d

LEMMA TimePassesKeeps ==
  ASSUME IInv, NEW fd \in Fd, TimePasses(fd)
  PROVE  IInv'
<1> DEFINE c == connections[fd]
           d == [c EXCEPT !.idle = TRUE]
<1>1. fd \in Open /\ connections' = [connections EXCEPT ![fd] = d]
      /\ UNCHANGED <<sockets, acceptVars, poolVars, completionVars, running, loopVars>>
  BY DEF TimePasses
<1>2. Sound(c) /\ Owes(c)
  BY <1>1 DEF IInv, Core, Conns
<1>3. /\ Sound(d) /\ Owes(d) /\ d.id = c.id /\ d.interest = c.interest
      /\ d.responsePending = c.responsePending /\ d.parsed = c.parsed
  BY <1>2, IdleSound
<1> HIDE DEF d
<1>4. d \in ConnectionType /\ d # NoConnection
  BY <1>3, Absent DEF Sound
<1>5. TypeOK'
  BY <1>1, <1>4 DEF IInv, TypeOK, Open, acceptVars, poolVars, completionVars, loopVars
<1>6. Core'
  BY <1>1, <1>3, CoreUpdate DEF IInv, acceptVars, poolVars, completionVars
<1>7. Open' = Open /\ connections'[fd] = d
      /\ \A g \in Open : g # fd => connections'[g] = connections[g]
  BY <1>1, <1>4 DEF Open, IInv, TypeOK
<1>8. Loop'
  <2>1. pc' = pc /\ batch' = batch /\ taken' = taken /\ pc = "scan"
    BY <1>1 DEF completionVars, loopVars, TimePasses
  <2> QED
    BY <1>3, <1>7, <2>1, LoopKept DEF IInv, Loop
<1> QED
  BY <1>5, <1>6, <1>8 DEF IInv

LEMMA TakeTaskKeeps ==
  ASSUME IInv, NEW w \in Worker, TakeTask(w)
  PROVE  IInv'
<1> USE DEF clientVars, acceptVars, completionVars, loopVars
<1>0. /\ TQ!Take(w)
      /\ UNCHANGED <<clientVars, acceptVars, completionVars, running, loopVars>>
  BY DEF TakeTask
<1>1. TypeOK'
  <2>1. /\ held' = [held EXCEPT ![w] = Head(tasks)] /\ tasks' = Tail(tasks) /\ tasks # <<>>
        /\ stopping' = stopping
    BY <1>0 DEF TQ!Take
  <2>2. tasks \in Seq(Task) /\ Len(tasks) <= MaxQueueSize
    BY DEF IInv, TypeOK
  <2>3. Head(tasks) \in Task /\ tasks' \in Seq(Task)
    BY <2>1, <2>2, FrontTaken
  <2>4. Len(tasks') <= MaxQueueSize
    <3>1. Len(tasks') = Len(tasks) - 1 /\ Len(tasks) \in Nat
      BY <2>1, <2>2, HeadTailProperties, LenProperties
    <3> QED
      BY <2>2, <3>1, ServerAssumption
  <2>5. held' \in [Worker -> Task \cup {NoTask}]
    BY <2>1, <2>3 DEF IInv, TypeOK
  <2> QED
    BY <1>0, <2>1, <2>3, <2>4, <2>5 DEF IInv, TypeOK
<1>2. Core'
  BY <1>0, CoreTake DEF IInv
<1>3. Loop'
  BY <1>0, LoopSame DEF IInv
<1> QED
  BY <1>1, <1>2, <1>3 DEF IInv

LEMMA QueueResponseKeeps ==
  ASSUME IInv, NEW w \in Worker, QueueResponse(w)
  PROVE  IInv'
<1> USE DEF clientVars, acceptVars, loopVars
<1>0. /\ TQ!Finish(w)
      /\ completions' = Append(completions, BuildResponse(held[w]))
      /\ UNCHANGED <<clientVars, acceptVars, taken, running, loopVars>>
  BY DEF QueueResponse
<1>1. Core' /\ BuildResponse(held[w]) \in Completion
  BY <1>0, CoreQueue DEF IInv
<1>2. TypeOK'
  <2>1. /\ held' = [held EXCEPT ![w] = NoTask] /\ tasks' = tasks /\ stopping' = stopping
    BY <1>0 DEF TQ!Finish
  <2>2. completions' \in Seq(Completion)
    BY <1>0, <1>1, AppendProperties DEF IInv, TypeOK
  <2>3. held' \in [Worker -> Task \cup {NoTask}]
    BY <2>1 DEF IInv, TypeOK
  <2> QED
    BY <1>0, <2>1, <2>2, <2>3 DEF IInv, TypeOK
<1>3. Loop'
  BY <1>0, LoopSame DEF IInv
<1> QED
  BY <1>1, <1>2, <1>3 DEF IInv

LEMMA StopKeeps == IInv /\ (Stop \/ DestroyPool) => IInv'
<1> SUFFICES ASSUME IInv, Stop \/ DestroyPool PROVE IInv'
  OBVIOUS
<1> USE DEF Stop, DestroyPool, clientVars, acceptVars, poolVars, completionVars, loopVars
<1>0. UNCHANGED <<connections, nextConnectionId, tasks, held, completions, taken, batch, pc, current>>
  BY DEF TQ!Stop
<1>1. TypeOK'
  BY DEF IInv, TypeOK, TQ!Stop
<1>2. Core'
  BY <1>0, CoreSame DEF IInv, coreVars
<1>3. Loop'
  BY <1>0, LoopSame DEF IInv
<1> QED
  BY <1>1, <1>2, <1>3 DEF IInv

\* The turns of the loop that touch no connection.
LEMMA TurnKeeps ==
  ASSUME IInv, EpollWait \/ BatchDone \/ SkipScan \/ BeginAccept \/ EndAccept \/ EndDeliver
  PROVE  IInv'
<1> USE DEF clientVars, acceptVars, poolVars, completionVars
<1>0. /\ UNCHANGED <<connections, sockets, backlog, nextConnectionId, tasks, held, stopping,
                     completions, taken, running>>
      /\ pc' \in LoopState \ {"read", "deliver"} /\ current' = NoFd
      /\ \/ batch' \subseteq batch
         \/ batch' = {<<fd, ReadyEvents(fd)>> : fd \in {g \in Open : ReadyEvents(g) # {}}}
                       \cup {<<e, {"IN"}>> : e \in ServerEvents}
      /\ taken' = <<>>
  BY DEF EpollWait, BatchDone, SkipScan, BeginAccept, EndAccept, EndDeliver, GoTo,
         NextEvent, LoopState, IInv, TypeOK, Loop
<1>1. TypeOK'
  BY <1>0 DEF IInv, TypeOK
<1>2. Core'
  BY <1>0, CoreSame DEF IInv, coreVars
<1>3. Loop'
  <2>1. Open' = Open
    BY <1>0 DEF Open
  <2>2. CASE batch' \subseteq batch
    BY <1>0, <2>1, <2>2, LoopKept DEF IInv, Loop
  <2>3. CASE batch' = {<<fd, ReadyEvents(fd)>> : fd \in {g \in Open : ReadyEvents(g) # {}}}
                       \cup {<<e, {"IN"}>> : e \in ServerEvents}
    <3>1. \A e \in batch' : \/ e[1] \in Open /\ e = <<e[1], ReadyEvents(e[1])>>
                            \/ e[1] \in {"listen", "completion"} /\ e = <<e[1], {"IN"}>>
      BY <2>3 DEF ServerEvents
    <3>2. {"listen", "completion"} \cap Open = {}
      BY ServerAssumption DEF Open
    <3>3. \A e \in batch', f \in batch' : e[1] = f[1] => e = f
      BY <3>1, <3>2
    <3>4. \A e \in batch' : e[1] \in Open /\ "IN" \in e[2] => connections[e[1]].interest = "read"
      <4> SUFFICES ASSUME NEW e \in batch', e[1] \in Open, "IN" \in e[2]
                   PROVE  connections[e[1]].interest = "read"
        OBVIOUS
      <4>1. "IN" \in ReadyEvents(e[1])
        BY <3>1, <3>2
      <4> QED
        BY <4>1 DEF ReadyEvents
    <3> QED
      BY <1>0, <2>1, <3>3, <3>4 DEF Loop
  <2> QED
    BY <1>0, <2>2, <2>3
<1> QED
  BY <1>1, <1>2, <1>3 DEF IInv

\* Closing connections, and no more of the batch than was there.
LEMMA CloseKeeps ==
  ASSUME IInv, NEW fds, Close(fds), batch' \subseteq batch,
         pc' \in LoopState \ {"read"}, current' = NoFd, taken' = <<>>,
         UNCHANGED <<acceptVars, poolVars, completionVars>>, running' \in BOOLEAN
  PROVE  IInv'
<1> USE DEF acceptVars, poolVars, completionVars
<1>1. ClientTypes'
  BY CloseTypes DEF IInv
<1>2. TypeOK'
  BY <1>1 DEF IInv, TypeOK, ClientTypes
<1>3. Core'
  BY CoreClose DEF IInv
<1>4. Open' \subseteq Open /\ \A g \in Open' : connections'[g] = connections[g]
  BY DEF Open, Close
<1>5. Loop'
  BY <1>4, LoopKept DEF IInv, Loop
<1> QED
  BY <1>2, <1>3, <1>5 DEF IInv

LEMMA ClosingKeeps ==
  ASSUME IInv, CloseIdleConnections \/ CloseAllConnections \/ RecvFails
  PROVE  IInv'
<1>1. \E fds : Close(fds)
  BY DEF CloseIdleConnections, CloseAllConnections, RecvFails
<1>2. PICK fds : Close(fds)
  BY <1>1
<1>3. /\ batch' \subseteq batch /\ pc' \in LoopState \ {"read"} /\ current' = NoFd
      /\ taken' = <<>> /\ running' \in BOOLEAN
      /\ UNCHANGED <<acceptVars, poolVars, completionVars>>
  BY DEF CloseIdleConnections, CloseAllConnections, RecvFails, GoTo, LoopState,
         IInv, TypeOK, Loop, completionVars
<1> QED
  BY <1>2, <1>3, CloseKeeps

LEMMA AcceptKeeps ==
  ASSUME IInv, NEW fd \in Fd, NEW script \in Script, AcceptClient(fd, script)
  PROVE  IInv'
<1> USE DEF clientVars, poolVars, completionVars, loopVars
<1> DEFINE d == NewConnection(nextConnectionId)
<1>1. /\ pc = "accept" /\ sockets[fd] = NoSocket /\ backlog > 0
      /\ backlog' = backlog - 1 /\ nextConnectionId' = nextConnectionId + 1
      /\ UNCHANGED <<poolVars, completionVars, running, loopVars>>
      /\ \/ /\ connections' = [connections EXCEPT ![fd] = d]
            /\ sockets' = [sockets EXCEPT ![fd] = NewSocket(script)]
         \/ UNCHANGED clientVars
  BY DEF AcceptClient
<1>2. connections[fd] = NoConnection /\ nextConnectionId \in Nat /\ backlog \in Nat
  BY <1>1 DEF IInv, TypeOK
<1>3. Core'
  BY <1>1, <1>2, CoreAccept DEF IInv
<1>4. Sound(d) /\ d.interest = "read"
  BY <1>2, NewSound
<1> HIDE DEF d
<1>5. d \in ConnectionType /\ d # NoConnection
  BY <1>4, Absent DEF Sound
<1>6. NewSocket(script) \in Socket
  BY ServerAssumption DEF NewSocket, Socket
<1>7. ClientTypes'
  BY <1>1, <1>5, <1>6, SocketIsThere DEF ClientTypes, IInv, TypeOK
<1>8. TypeOK'
  <2>1. backlog' \in Nat /\ nextConnectionId' \in Nat
    BY <1>1, <1>2
  <2> QED
    BY <1>1, <1>7, <2>1 DEF IInv, TypeOK, ClientTypes
<1>9. \A g \in Open' : \/ connections'[g].interest = "read"
                       \/ g \in Open /\ connections'[g] = connections[g]
  BY <1>1, <1>4 DEF Open, IInv, TypeOK
<1>10. Loop'
  BY <1>1, <1>9, LoopKept DEF IInv, Loop
<1> QED
  BY <1>3, <1>8, <1>10 DEF IInv

LEMMA SwapKeeps == IInv /\ SwapCompletions => IInv'
<1> SUFFICES ASSUME IInv, SwapCompletions PROVE IInv'
  OBVIOUS
<1> USE DEF clientVars, acceptVars, poolVars
<1>0. /\ pc = "dispatch" /\ pc' = "deliver" /\ batch' \subseteq batch
      /\ taken' = completions /\ completions' = <<>> /\ taken = <<>>
      /\ UNCHANGED <<clientVars, acceptVars, poolVars, running, current>>
  BY DEF SwapCompletions, NextEvent, IInv, Loop
<1>1. TypeOK'
  <2>1. completions' \in Seq(Completion)
    BY <1>0
  <2> QED
    BY <1>0, <2>1 DEF IInv, TypeOK, LoopState
<1>2. Core'
  BY <1>0, CoreSwap DEF IInv
<1>3. Loop'
  <2>1. Open' = Open
    BY <1>0 DEF Open
  <2> QED
    BY <1>0, <2>1, LoopKept DEF IInv
<1> QED
  BY <1>1, <1>2, <1>3 DEF IInv

\* The response of a connection that is still there is installed, or the
\* connection is closed; any other one is dropped.
LEMMA DeliverKeeps == IInv /\ DeliverCompletion => IInv'
<1> SUFFICES ASSUME IInv, DeliverCompletion PROVE IInv'
  OBVIOUS
<1> USE DEF acceptVars, loopVars
<1> DEFINE m == Head(taken)
<1>0. /\ pc = "deliver" /\ taken # <<>> /\ taken' = Tail(taken)
      /\ UNCHANGED <<acceptVars, completions, running, loopVars>>
      /\ IF Addressee(m)
           THEN \E opened \in BOOLEAN :
                  Commit(m.fd, Outcome(Install(connections[m.fd], m, opened), NoTask, TRUE),
                         sockets[m.fd])
           ELSE UNCHANGED <<clientVars, poolVars>>
  BY DEF DeliverCompletion
<1>1. m \in Completion /\ taken' \in Seq(Completion) /\ m \in Flying
  <2>1. taken \in Seq(Completion)
    BY DEF IInv, TypeOK
  <2> QED
    BY <1>0, <2>1, FrontTaken DEF Flying
<1> HIDE DEF m
<1>2. \A g \in Open : connections[g].id = m.id => m.fd = g
  BY <1>1 DEF IInv, Core, Belongs
<1>3. CASE ~Addressee(m)
  <2>1. UNCHANGED <<connections, sockets, tasks, held, stopping>>
    BY <1>0, <1>3 DEF clientVars, poolVars
  <2>2. Open' = Open
    BY <2>1 DEF Open
  <2>3. \A g \in Open : connections[g].id # m.id
    BY <1>2, <1>3 DEF Addressee
  <2>4. Core'
    BY <1>0, <2>1, <2>2, <2>3, CoreLand DEF IInv, m
  <2>5. TypeOK'
    BY <1>0, <1>1, <2>1 DEF IInv, TypeOK
  <2>6. Loop'
    BY <1>0, <2>1, <2>2, LoopKept DEF IInv
  <2> QED
    BY <2>4, <2>5, <2>6 DEF IInv
<1>4. CASE Addressee(m)
  <2> DEFINE fd == m.fd
             c == connections[fd]
  <2>1. fd \in Open /\ c.id = m.id
    BY <1>4 DEF Addressee
  <2>2. Sound(c) /\ c.responsePending /\ m.n = c.parsed
    BY <1>1, <2>1 DEF IInv, Core, Conns, Belongs
  <2>3. CompletionFor(m, c)
    BY <1>1, <2>1, <2>2 DEF CompletionFor, Completion
  <2>4. PICK opened \in BOOLEAN :
          Commit(fd, Outcome(Install(c, m, opened), NoTask, TRUE), sockets[fd])
    BY <1>0, <1>4
  <2> DEFINE d == Install(c, m, opened)
             r == Outcome(d, NoTask, TRUE)
  <2>5. Sound(d) /\ Busy(d) /\ d.id = c.id /\ ~d.responsePending /\ d.fileTransfer = d.owed
    BY <2>2, <2>3, InstallFine
  <2>6. Commit(fd, r, sockets[fd])
    BY <2>4
  <2> HIDE DEF d, fd
  <2>7. r.conn = d /\ r.submit = NoTask /\ r.ctl = TRUE
    BY DEF Outcome
  <2> HIDE DEF r
  <2>8. d \in ConnectionType /\ d # NoConnection /\ Owes(d)
    <3>1. d \in ConnectionType
      BY <2>5 DEF Sound
    <3>2. d.owed \in Nat /\ d.fileTransfer = d.owed
      BY <2>5, <3>1 DEF ConnectionType
    <3>3. d.fileTransfer <= d.owed
      BY <3>2
    <3> QED
      BY <3>1, <3>2, <3>3, Absent DEF Owes
  <2>9. sockets[fd] \in Socket
    BY <2>1, OpenTypes DEF IInv
  <2>10. /\ ClientTypes' /\ PoolTypes' /\ held' = held
         /\ \/ Close({fd}) /\ tasks' = tasks
            \/ connections' = [connections EXCEPT ![fd] = d] /\ tasks' = tasks
    BY <2>1, <2>6, <2>7, <2>8, <2>9, CommitTypes DEF IInv
  <2>11. /\ Open' \subseteq Open
         /\ \A g \in Open' : g # fd => connections'[g] = connections[g]
         /\ fd \in Open' => connections'[fd] = d
    BY <2>1, <2>8, <2>10 DEF Open, Close, IInv, TypeOK
  <2>12. Core'
    <3>1. \A g \in Open' :
            \/ connections'[g] = connections[g] /\ connections[g].id # m.id
            \/ /\ Sound(connections'[g]) /\ Owes(connections'[g])
               /\ ~connections'[g].responsePending
               /\ connections'[g].id = connections[g].id
               /\ connections[g].id = m.id
      BY <1>2, <2>1, <2>5, <2>8, <2>11 DEF fd
    <3> QED
      BY <1>0, <2>10, <2>11, <3>1, CoreLand DEF IInv, m
  <2>13. TypeOK'
    BY <1>0, <1>1, <2>10 DEF IInv, TypeOK, ClientTypes, PoolTypes
  <2>14. Loop'
    <3>1. c.interest # "read"
      BY <2>2 DEF Sound
    <3>2. \A e \in batch : e[1] = fd => "IN" \notin e[2]
      BY <2>1, <3>1 DEF IInv, Loop
    <3>3. batch' = batch /\ pc' = "deliver"
      BY <1>0
    <3> QED
      BY <2>11, <3>2, <3>3, LoopKept DEF IInv
  <2> QED
    BY <2>12, <2>13, <2>14 DEF IInv
<1> QED
  BY <1>3, <1>4

LEMMA HandleClosedKeeps ==
  ASSUME IInv, NEW fd, NEW events, HandleClosed(fd, events)
  PROVE  IInv'
<1>1. /\ Close({fd}) /\ batch' \subseteq batch /\ pc' \in LoopState \ {"read"}
      /\ current' = NoFd /\ taken' = <<>> /\ running' \in BOOLEAN
      /\ UNCHANGED <<acceptVars, poolVars, completionVars>>
  BY DEF HandleClosed, NextEvent, LoopState, IInv, TypeOK, Loop, completionVars
<1> QED
  BY <1>1, CloseKeeps

LEMMA HandleNothingKeeps ==
  ASSUME IInv, NEW fd, NEW events, HandleNothing(fd, events) \/ RecvWouldBlock
  PROVE  IInv'
<1> USE DEF clientVars, acceptVars, poolVars, completionVars
<1>0. /\ UNCHANGED <<connections, sockets, backlog, nextConnectionId, tasks, held, stopping,
                     completions, taken, running>>
      /\ pc' = "dispatch" /\ current' = NoFd /\ taken' = <<>> /\ batch' \subseteq batch
  BY DEF HandleNothing, RecvWouldBlock, GoTo, NextEvent, IInv, TypeOK, Loop
<1>1. TypeOK'
  BY <1>0 DEF IInv, TypeOK, LoopState
<1>2. Core'
  BY <1>0, CoreSame DEF IInv, coreVars
<1>3. Loop'
  <2>1. Open' = Open
    BY <1>0 DEF Open
  <2> QED
    BY <1>0, <2>1, LoopKept DEF IInv
<1> QED
  BY <1>1, <1>2, <1>3 DEF IInv

LEMMA BeginReadKeeps ==
  ASSUME IInv, NEW fd \in Fd, NEW events, BeginRead(fd, events)
  PROVE  IInv'
<1> USE DEF clientVars, acceptVars, poolVars, completionVars
<1>0. /\ UNCHANGED <<connections, sockets, backlog, nextConnectionId, tasks, held, stopping,
                     completions, taken, running>>
      /\ pc' = "read" /\ current' = fd /\ taken = <<>> /\ batch' = batch \ {<<fd, events>>}
      /\ <<fd, events>> \in batch
      /\ fd \in Open /\ "IN" \in events
  BY DEF BeginRead, Readable, NextEvent, IInv, Loop
<1>1. TypeOK'
  BY <1>0, ServerAssumption DEF IInv, TypeOK, LoopState
<1>2. Core'
  BY <1>0, CoreSame DEF IInv, coreVars
<1>3. Loop'
  <2>1. Open' = Open
    BY <1>0 DEF Open
  <2>2. connections[fd].interest = "read"
    BY <1>0 DEF IInv, Loop
  <2>3. \A e \in batch' : e[1] # fd
    BY <1>0 DEF IInv, Loop
  <2> QED
    BY <1>0, <2>1, <2>2, <2>3 DEF IInv, Loop
<1> QED
  BY <1>1, <1>2, <1>3 DEF IInv

\* What a recv adds to the buffer.
LEMMA ReceivedReady ==
  ASSUME NEW c, Sound(c), c.interest = "read", NEW bytes \in Seq(Token),
         NEW d, d = [c EXCEPT !.readBuffer = @ \o bytes, !.idle = FALSE]
  PROVE  Ready(d) /\ d.interest = "read" /\ SameFile(d, c)
<1> DEFINE buffer == c.readBuffer \o bytes
<1>0. d = [c EXCEPT !.readBuffer = buffer, !.idle = FALSE]
  OBVIOUS
<1>1. c \in ConnectionType /\ ~Busy(c) /\ c.parsed = c.answered
  <2>1. ~c.responsePending /\ ~Writing(c)
    BY DEF Sound
  <2> QED
    BY <2>1 DEF Sound, Busy, ConnectionType
<1>2. buffer \in Seq(Token)
  BY <1>1, ConcatProperties DEF ConnectionType
<1> HIDE DEF buffer
<1>3. /\ d \in ConnectionType /\ d.interest = "read" /\ SameFile(d, c)
      /\ d.responsePending = c.responsePending /\ d.writeBuffer = c.writeBuffer
      /\ d.fileTransfer = c.fileTransfer /\ d.parsed = d.answered
  BY <1>0, <1>1, <1>2 DEF ConnectionType, SameFile
<1>4. ~Busy(d)
  BY <1>1, <1>3, Zenon DEF Busy, Writing
<1>5. Ready(d)
  BY <1>3, <1>4 DEF Ready
<1> QED
  BY <1>3, <1>5

LEMMA Slices ==
  ASSUME NEW s \in Seq(Token), NEW k \in Nat, k <= Len(s)
  PROVE  SubSeq(s, 1, k) \in Seq(Token) /\ SubSeq(s, k + 1, Len(s)) \in Seq(Token)
<1>1. Len(s) \in Nat /\ \A i \in 1 .. Len(s) : s[i] \in Token
  BY LenProperties, ElementOfSeq
<1> QED
  BY <1>1, SubSeqProperties

LEMMA RecvKeeps == IInv /\ Recv => IInv'
<1> SUFFICES ASSUME IInv, Recv PROVE IInv'
  OBVIOUS
<1> USE DEF acceptVars, completionVars
<1> DEFINE fd == current
           s == sockets[fd]
           k == IF Len(s.inbox) < Chunk THEN Len(s.inbox) ELSE Chunk
           bytes == SubSeq(s.inbox, 1, k)
           c == [connections[fd] EXCEPT !.readBuffer = @ \o bytes, !.idle = FALSE]
           r == AfterRecv(c, TQ!Accepts)
           t == [s EXCEPT !.inbox = SubSeq(@, k + 1, Len(@))]
<1>0. /\ pc = "read" /\ Commit(fd, r, t)
      /\ IF r.conn = c THEN UNCHANGED loopVars ELSE GoTo("dispatch")
      /\ UNCHANGED <<acceptVars, completionVars, running>>
  BY DEF Recv
<1>1. /\ fd \in Open /\ connections[fd].interest = "read"
      /\ \A e \in batch : e[1] # fd
  BY <1>0 DEF IInv, Loop
<1>2. s \in Socket /\ Sound(connections[fd]) /\ Owes(connections[fd])
  BY <1>1, OpenTypes DEF IInv, Core, Conns
<1>3. bytes \in Seq(Token) /\ t \in Socket
  <2>1. s.inbox \in Seq(Token)
    BY <1>2 DEF Socket
  <2>2. k \in Nat /\ k <= Len(s.inbox)
    BY <2>1, ServerAssumption, LenProperties
  <2> HIDE DEF k
  <2>3. bytes \in Seq(Token) /\ SubSeq(s.inbox, k + 1, Len(s.inbox)) \in Seq(Token)
    BY <2>1, <2>2, Slices
  <2> HIDE DEF bytes
  <2> DEFINE rest == SubSeq(s.inbox, k + 1, Len(s.inbox))
  <2>4. t = [s EXCEPT !.inbox = rest]
    OBVIOUS
  <2> HIDE DEF rest, t
  <2>5. rest \in Seq(Token)
    BY <2>3 DEF rest
  <2>6. t \in Socket
    BY <1>2, <2>4, <2>5 DEF Socket
  <2> QED
    BY <2>3, <2>6
<1> HIDE DEF bytes, t
<1> DEFINE b == connections[fd]
<1>a. Sound(b) /\ b.interest = "read" /\ c = [b EXCEPT !.readBuffer = @ \o bytes, !.idle = FALSE]
  BY <1>1, <1>2
<1> HIDE DEF b, c
<1>b. Ready(c) /\ c.interest = "read" /\ SameFile(c, b)
  BY <1>a, <1>3, ReceivedReady, Zenon
<1>4. Ready(c) /\ c.interest = "read" /\ SameFile(c, connections[fd])
  BY <1>b DEF b
<1>5. Fine(r, c) /\ (r.ctl => Busy(r.conn))
  BY <1>4, AfterRecvFine
<1> HIDE DEF r
<1>6. Lasting(fd, r)
  BY <1>2, <1>4, <1>5 DEF Fine, SameFile, Owes, Lasting
<1>7. ~connections[fd].responsePending
  BY <1>1, <1>2 DEF Sound
<1> HIDE DEF s
<1>8. /\ Core' /\ ClientTypes' /\ PoolTypes'
      /\ Open' \subseteq Open
      /\ \A g \in Open' : g # fd => connections'[g] = connections[g]
      /\ fd \in Open' => connections'[fd] = r.conn
      /\ ~r.ctl => fd \in Open'
  BY <1>0, <1>1, <1>3, <1>6, <1>7, CommitCore DEF IInv
<1>9. CASE r.conn = c
  <2>1. ~r.ctl
    BY <1>4, <1>5, <1>9 DEF Ready
  <2>2. pc' = pc /\ batch' = batch /\ current' = current
    BY <1>0, <1>9 DEF loopVars
  <2>3. TypeOK'
    BY <1>0, <1>8, <2>2 DEF IInv, TypeOK, ClientTypes, PoolTypes
  <2>4. Loop'
    BY <1>0, <1>1, <1>4, <1>8, <1>9, <2>1, <2>2 DEF IInv, Loop
  <2> QED
    BY <1>8, <2>3, <2>4 DEF IInv
<1>10. CASE r.conn # c
  <2>1. pc' = "dispatch" /\ batch' = batch /\ current' = NoFd /\ taken' = <<>>
    BY <1>0, <1>10 DEF GoTo, IInv, Loop
  <2>2. TypeOK'
    BY <1>0, <1>8, <2>1 DEF IInv, TypeOK, ClientTypes, PoolTypes, LoopState
  <2>3. Loop'
    BY <1>0, <1>1, <1>8, <2>1, LoopKept DEF IInv
  <2> QED
    BY <1>8, <2>2, <2>3 DEF IInv
<1> QED
  BY <1>9, <1>10

\* What is written out: some of the response, or all of it.
LEMMA FlushedFine ==
  ASSUME NEW c, Sound(c), Owes(c), Writing(c), NEW f \in Flushed(c)
  PROVE  /\ f[2] \in BOOLEAN
         /\ f[1] \in ConnectionType /\ f[1].id = c.id /\ f[1].closeAfterWrite = c.closeAfterWrite
         /\ f[1].readBuffer = c.readBuffer /\ f[1].last = c.last /\ Owes(f[1])
         /\ f[1].writeBuffer # NoResponse =>
              c.writeBuffer # NoResponse /\ f[1].writeBuffer.keepAlive = c.writeBuffer.keepAlive
         /\ Writing(f[1]) => Sound(f[1]) /\ ~f[1].responsePending
         /\ ~Writing(f[1]) => ~Busy(f[1]) /\ f[1].requestBody = NoBody
                                /\ f[1].parsed = f[1].answered + 1
                                /\ ((f[1].owed = 0 /\ c.fileTransfer <= SendfileBudget)
                                    \/ FileShrinks # {FALSE})
<1> DEFINE units == IF c.writeBuffer = NoResponse THEN 0 ELSE c.writeBuffer.left
           offer == IF c.fileTransfer < SendfileBudget THEN c.fileTransfer ELSE SendfileBudget
           d == f[1]
<1>1. /\ c \in ConnectionType /\ ~c.responsePending /\ c.parsed = c.answered + 1
      /\ c.interest = "write" /\ c.requestBody = NoBody
      /\ c.fileTransfer \in Nat /\ c.owed \in Nat /\ c.fileTransfer <= c.owed
  <2>1. c \in ConnectionType /\ ~c.responsePending /\ Busy(c)
    BY DEF Sound, Busy
  <2>2. c.fileTransfer \in Nat /\ c.owed \in Nat
    BY <2>1 DEF ConnectionType
  <2> QED
    BY <2>1, <2>2 DEF Sound, Owes
<1>2. offer \in 0 .. c.fileTransfer
  BY <1>1, ServerAssumption
<1> DEFINE least == IF units = 0 THEN 1 ELSE 0
           c1 == [c EXCEPT !.idle = FALSE]
           Part(k) == [c1 EXCEPT !.writeBuffer.left = k]
           Sent(k) == [c1 EXCEPT !.writeBuffer = NoResponse,
                                 !.fileTransfer = @ - k, !.owed = @ - k]
           Cut(k) == [c1 EXCEPT !.writeBuffer = NoResponse, !.fileTransfer = 0, !.owed = @ - k]
           Parts == 1 .. (units - 1)
           Whole == least .. offer
           UpTo == 0 .. offer
           Below == 0 .. (offer - 1)
<1>3. /\ \/ \E k \in Parts : d = Part(k)
         \/ \E k \in UpTo : d = Sent(k)
         \/ TRUE \in FileShrinks /\ \E k \in Below : d = Cut(k)
      /\ f[2] \in BOOLEAN
  <2>1. \A k \in Whole : k \in UpTo
    BY <1>1, <1>2
  <2>2. offer \in UpTo
    BY <1>1, <1>2
  <2>3. f \in {<<Part(k), TRUE>> : k \in Parts}
              \cup {<<Sent(k), TRUE>> : k \in Whole}
              \cup {<<Sent(offer), FALSE>>}
              \cup (IF TRUE \in FileShrinks /\ c.fileTransfer > 0
                      THEN {<<Cut(k), FALSE>> : k \in Below} ELSE {})
    BY Zenon DEF Flushed
  <2> HIDE DEF units, offer, Parts, Whole, UpTo, Below, Part, Sent, Cut
  <2>4. \/ \E k \in Parts : f = <<Part(k), TRUE>>
        \/ \E k \in Whole : f = <<Sent(k), TRUE>>
        \/ f = <<Sent(offer), FALSE>>
        \/ TRUE \in FileShrinks /\ \E k \in Below : f = <<Cut(k), FALSE>>
    BY <2>3, Zenon
  <2>5. CASE \E k \in Parts : f = <<Part(k), TRUE>>
    <3>1. PICK k \in Parts : f = <<Part(k), TRUE>>
      BY <2>5
    <3>2. d = Part(k) /\ f[2] = TRUE
      BY <3>1
    <3>3. \E j \in Parts : d = Part(j)
      BY <3>2, Zenon
    <3>4. f[2] \in BOOLEAN
      BY <3>2
    <3> QED
      BY <3>3, <3>4, Zenon
  <2>6. CASE \E k \in Whole : f = <<Sent(k), TRUE>>
    <3>1. PICK k \in Whole : f = <<Sent(k), TRUE>>
      BY <2>6
    <3>2. d = Sent(k) /\ f[2] = TRUE
      BY <3>1
    <3>3. \E j \in UpTo : d = Sent(j)
      BY <2>1, <3>2, Zenon
    <3>4. f[2] \in BOOLEAN
      BY <3>2
    <3> QED
      BY <3>3, <3>4, Zenon
  <2>7. CASE f = <<Sent(offer), FALSE>>
    <3>1. d = Sent(offer) /\ f[2] \in BOOLEAN
      BY <2>7
    <3> QED
      BY <2>2, <3>1, Zenon
  <2>8. CASE TRUE \in FileShrinks /\ \E k \in Below : f = <<Cut(k), FALSE>>
    <3>1. PICK k \in Below : f = <<Cut(k), FALSE>>
      BY <2>8
    <3>2. d = Cut(k) /\ f[2] = FALSE
      BY <3>1
    <3>3. \E j \in Below : d = Cut(j)
      BY <3>2, Zenon
    <3>4. f[2] \in BOOLEAN
      BY <3>2
    <3> QED
      BY <2>8, <3>3, <3>4, Zenon
  <2> QED
    BY <2>4, <2>5, <2>6, <2>7, <2>8
<1>5. /\ c1 \in ConnectionType /\ c1.id = c.id /\ c1.closeAfterWrite = c.closeAfterWrite
      /\ c1.fileTransfer = c.fileTransfer /\ c1.owed = c.owed
      /\ c1.responsePending = FALSE /\ c1.parsed = c.parsed /\ c1.answered = c.answered
      /\ c1.interest = "write" /\ c1.requestBody = NoBody /\ c1.writeBuffer = c.writeBuffer
      /\ c1.readBuffer = c.readBuffer /\ c1.last = c.last
  BY <1>1 DEF ConnectionType
<1>6. Writing(c1)
  BY <1>5 DEF Writing
<1> DEFINE From(e) ==
             /\ e \in ConnectionType /\ e.id = c.id /\ e.closeAfterWrite = c.closeAfterWrite
             /\ e.responsePending = FALSE /\ e.parsed = c.parsed /\ e.answered = c.answered
             /\ e.interest = "write" /\ e.requestBody = NoBody /\ e.readBuffer = c.readBuffer
             /\ e.last = c.last
           Goal ==
             /\ d \in ConnectionType /\ d.id = c.id /\ d.closeAfterWrite = c.closeAfterWrite
             /\ d.readBuffer = c.readBuffer /\ d.last = c.last /\ Owes(d)
             /\ d.writeBuffer # NoResponse =>
                  c.writeBuffer # NoResponse /\ d.writeBuffer.keepAlive = c.writeBuffer.keepAlive
             /\ Writing(d) => Sound(d) /\ ~d.responsePending
             /\ ~Writing(d) => ~Busy(d) /\ d.requestBody = NoBody
                                 /\ d.parsed = d.answered + 1
                                 /\ ((d.owed = 0 /\ c.fileTransfer <= SendfileBudget)
                                    \/ FileShrinks # {FALSE})
<1> HIDE DEF d, c1
<1>7. ASSUME NEW w, NEW t \in Nat, NEW o \in Nat, From(d),
             \/ /\ w \in Response /\ w.id = c.id /\ w.n = c.answered + 1
                /\ c.writeBuffer # NoResponse /\ w.keepAlive = c.writeBuffer.keepAlive
             \/ w = NoResponse,
             t <= o, FileShrinks = {FALSE} => t = o,
             w = NoResponse /\ t = 0 /\ FileShrinks = {FALSE} => c.fileTransfer <= SendfileBudget,
             d.writeBuffer = w, d.fileTransfer = t, d.owed = o
      PROVE  Goal
  <2>1. /\ d \in ConnectionType /\ d.id = c.id /\ d.closeAfterWrite = c.closeAfterWrite
        /\ d.fileTransfer = t /\ d.owed = o /\ d.writeBuffer = w
        /\ d.responsePending = FALSE /\ d.parsed = c.parsed /\ d.answered = c.answered
        /\ d.interest = "write" /\ d.requestBody = NoBody /\ d.readBuffer = c.readBuffer
        /\ d.last = c.last
        /\ d.writeBuffer # NoResponse =>
             c.writeBuffer # NoResponse /\ d.writeBuffer.keepAlive = c.writeBuffer.keepAlive
    BY <1>7
  <2>2. Owes(d)
    BY <1>7, <2>1 DEF Owes
  <2>3. ASSUME Writing(d) PROVE Sound(d)
    <3>1. Busy(d)
      BY <2>3 DEF Busy
    <3>2. d.writeBuffer # NoResponse => d.writeBuffer.id = d.id /\ d.writeBuffer.n = d.answered + 1
      BY <1>7, <2>1
    <3>3. d.parsed = d.answered + (IF Busy(d) THEN 1 ELSE 0)
      BY <1>1, <2>1, <3>1
    <3>4. d.interest = (IF d.responsePending THEN "none" ELSE IF Writing(d) THEN "write" ELSE "read")
      BY <2>1, <2>3
    <3> QED
      BY <2>1, <3>2, <3>3, <3>4 DEF Sound
  <2>4. ASSUME ~Writing(d)
        PROVE  /\ ~Busy(d)
               /\ (d.owed = 0 /\ c.fileTransfer <= SendfileBudget) \/ FileShrinks # {FALSE}
    <3>1. ~Busy(d)
      BY <2>1, <2>4 DEF Busy
    <3>2. t = 0 /\ w = NoResponse
      BY <1>7, <2>1, <2>4 DEF Writing
    <3> QED
      BY <1>7, <2>1, <3>1, <3>2
  <2>5. d.parsed = d.answered + 1
    BY <1>1, <2>1
  <2> QED
    BY <2>1, <2>2, <2>3, <2>4, <2>5
<1>8. FileShrinks = {FALSE} => c.fileTransfer = c.owed
  BY DEF Owes
<1>9. ASSUME \E k \in Parts : d = Part(k) PROVE Goal
  <2>1. PICK k \in Parts : d = Part(k)
    BY <1>9
  <2> DEFINE text == c.writeBuffer
             w == [text EXCEPT !.left = k]
  <2>2. /\ text \in Response /\ text.id = c.id /\ text.n = c.answered + 1 /\ k \in 1 .. HeadUnits
        /\ c.writeBuffer # NoResponse /\ text.keepAlive = c.writeBuffer.keepAlive
    <3>1. text # NoResponse
      BY <2>1
    <3>2. text \in Response
      BY <1>1, <3>1 DEF ConnectionType
    <3>3. text.left \in 1 .. HeadUnits /\ units = text.left
      BY <3>1, <3>2 DEF Response
    <3> HIDE DEF units, text
    <3>4. k \in 1 .. HeadUnits
      BY <2>1, <3>3, ConnectionAssumption
    <3> QED
      BY <3>1, <3>2, <3>4 DEF Sound, text
  <2>3. d = [c1 EXCEPT !.writeBuffer = w]
    BY <1>5, <2>1, Zenon
  <2> HIDE DEF text
  <2>4. /\ w \in Response /\ w.id = c.id /\ w.n = c.answered + 1
        /\ c.writeBuffer # NoResponse /\ w.keepAlive = c.writeBuffer.keepAlive
    BY <2>2 DEF Response
  <2> HIDE DEF w
  <2>5. From(d) /\ d.writeBuffer = w /\ d.fileTransfer = c.fileTransfer /\ d.owed = c.owed
    BY <1>5, <2>3, <2>4 DEF ConnectionType
  <2> HIDE DEF From, Goal
  <2> DEFINE t == c.fileTransfer
             o == c.owed
  <2>6. /\ t \in Nat /\ o \in Nat /\ t <= o /\ (FileShrinks = {FALSE} => t = o)
        /\ From(d) /\ d.writeBuffer = w /\ d.fileTransfer = t /\ d.owed = o
    BY <1>1, <1>8, <2>5
  <2> HIDE DEF t, o
  <2>7. w # NoResponse
    BY <2>4, Absent
  <2> QED
    BY <1>7, <2>4, <2>6, <2>7
<1>10. ASSUME \E k \in UpTo : d = Sent(k) PROVE Goal
  <2>1. PICK k \in UpTo : d = Sent(k)
    BY <1>10
  <2> DEFINE t == c.fileTransfer - k
             o == c.owed - k
  <2>2. /\ t \in Nat /\ o \in Nat /\ t <= o /\ (FileShrinks = {FALSE} => t = o)
        /\ t = 0 => c.fileTransfer <= SendfileBudget
    <3>1. k \in Nat /\ k <= c.fileTransfer
      <4> HIDE DEF offer
      <4> QED
        BY <1>1, <1>2
    <3>2. t \in Nat /\ o \in Nat /\ t <= o
      BY <1>1, <3>1
    <3>3. t = 0 => c.fileTransfer <= SendfileBudget
      <4>1. k <= offer /\ offer <= SendfileBudget /\ k \in Nat /\ offer \in Nat
        BY <1>1, <1>2, ServerAssumption
      <4> HIDE DEF offer
      <4> QED
        BY <1>1, <4>1, ServerAssumption
    <3> QED
      BY <1>1, <1>8, <3>2, <3>3
  <2>3. d = [c1 EXCEPT !.writeBuffer = NoResponse, !.fileTransfer = t, !.owed = o]
    BY <1>5, <2>1
  <2> HIDE DEF t, o
  <2>4. From(d) /\ d.writeBuffer = NoResponse /\ d.fileTransfer = t /\ d.owed = o
    BY <1>5, <2>2, <2>3 DEF ConnectionType
  <2> HIDE DEF From
  <2> QED
    BY <1>7, <2>2, <2>4
<1>11. ASSUME TRUE \in FileShrinks /\ \E k \in Below : d = Cut(k) PROVE Goal
  <2>1. PICK k \in Below : d = Cut(k)
    BY <1>11
  <2> DEFINE o == c.owed - k
  <2>2. o \in Nat /\ 0 <= o /\ FileShrinks # {FALSE}
    <3>1. k \in Nat /\ k <= c.fileTransfer
      <4> HIDE DEF offer
      <4> QED
        BY <1>1, <1>2
    <3>2. o \in Nat /\ 0 <= o
      BY <1>1, <3>1
    <3>3. FileShrinks # {FALSE}
      BY <1>11, Zenon
    <3> QED
      BY <3>2, <3>3
  <2>3. d = [c1 EXCEPT !.writeBuffer = NoResponse, !.fileTransfer = 0, !.owed = o]
    BY <1>5, <2>1
  <2> HIDE DEF o
  <2>4. From(d) /\ d.writeBuffer = NoResponse /\ d.fileTransfer = 0 /\ d.owed = o
    BY <1>5, <2>2, <2>3 DEF ConnectionType
  <2> HIDE DEF From, Goal
  <2> DEFINE t == 0
  <2>5. /\ t \in Nat /\ o \in Nat /\ t <= o /\ (FileShrinks = {FALSE} => t = o)
        /\ From(d) /\ d.writeBuffer = NoResponse /\ d.fileTransfer = t /\ d.owed = o
    BY <2>2, <2>4
  <2> HIDE DEF t
  <2> QED
    BY <1>7, <2>2, <2>5
<1> HIDE DEF Parts, UpTo, Below, Part, Sent, Cut
<1> HIDE DEF Goal
<1>12. Goal
  BY <1>3, <1>9, <1>10, <1>11
<1> QED
  BY <1>3, <1>12 DEF d, Goal

\* A write closes the connection, or leaves one that may last.
LEMMA WriteCases ==
  ASSUME IInv, NEW fd \in Open, NEW events, WriteToConnection(fd, events)
  PROVE  LET b == connections[fd]
         IN  \/ /\ Close({fd}) /\ UNCHANGED poolVars
                /\ \/ sockets[fd].rst
                   \/ FALSE \in CallOutcome
                   \/ /\ b.closeAfterWrite
                      /\ b.fileTransfer <= SendfileBudget \/ FileShrinks # {FALSE}
             \/ \E r, socket : /\ Commit(fd, r, socket) /\ Lasting(fd, r)
                               /\ socket \in Socket /\ socket.rst = sockets[fd].rst
                               /\ socket.inbox = sockets[fd].inbox
                               /\ socket.stream = sockets[fd].stream
                               /\ Bounded(b, Chunk) => Bounded(r.conn, Chunk)
                               /\ Promise(b) => Left(r, b)
<1> DEFINE b == connections[fd]
           s == sockets[fd]
<1>1. Sound(b) /\ Owes(b) /\ s \in Socket /\ Writing(b)
  BY OpenTypes DEF IInv, Core, Conns, WriteToConnection, Writable
<1> HIDE DEF b, s
<1>2. CASE (s.rst \/ FALSE \in CallOutcome) /\ Close({fd}) /\ UNCHANGED poolVars
  BY <1>2 DEF s
<1>3. CASE ~s.rst /\ \E f \in Flushed(b) :
        LET socket == [s EXCEPT !.full = f[2]]
            c      == [f[1] EXCEPT !.answered = @ + 1]
        IN  IF Writing(f[1])
              THEN Commit(fd, Outcome(f[1], NoTask, FALSE), socket)
            ELSE IF c.closeAfterWrite
              THEN Close({fd}) /\ UNCHANGED poolVars
            ELSE Commit(fd, NextRequest(c, TQ!Accepts), socket)
  <2>1. PICK f \in Flushed(b) :
          LET socket == [s EXCEPT !.full = f[2]]
              c      == [f[1] EXCEPT !.answered = @ + 1]
          IN  IF Writing(f[1])
                THEN Commit(fd, Outcome(f[1], NoTask, FALSE), socket)
              ELSE IF c.closeAfterWrite
                THEN Close({fd}) /\ UNCHANGED poolVars
              ELSE Commit(fd, NextRequest(c, TQ!Accepts), socket)
    BY <1>3
  <2> DEFINE d == f[1]
             full == f[2]
             socket == [s EXCEPT !.full = full]
             n == d.answered + 1
             c == [d EXCEPT !.answered = n]
             r == NextRequest(c, TQ!Accepts)
             q == Outcome(d, NoTask, FALSE)
  <2>2. /\ full \in BOOLEAN
        /\ d \in ConnectionType /\ d.id = b.id /\ d.closeAfterWrite = b.closeAfterWrite
        /\ d.readBuffer = b.readBuffer /\ d.last = b.last /\ Owes(d)
        /\ d.writeBuffer # NoResponse =>
             b.writeBuffer # NoResponse /\ d.writeBuffer.keepAlive = b.writeBuffer.keepAlive
        /\ Writing(d) => Sound(d) /\ ~d.responsePending
        /\ ~Writing(d) => ~Busy(d) /\ d.requestBody = NoBody /\ d.parsed = d.answered + 1
                            /\ (b.fileTransfer <= SendfileBudget \/ FileShrinks # {FALSE})
    BY <1>1, FlushedFine
  <2>3. \/ Writing(d) /\ Commit(fd, q, socket)
        \/ ~Writing(d) /\ c.closeAfterWrite /\ Close({fd}) /\ UNCHANGED poolVars
        \/ ~Writing(d) /\ ~c.closeAfterWrite /\ Commit(fd, r, socket)
    BY <2>1, Zenon
  <2> HIDE DEF d, full
  <2>4. /\ socket \in Socket /\ socket.rst = s.rst
        /\ socket.inbox = s.inbox /\ socket.stream = s.stream
    BY <1>1, <2>2 DEF Socket
  <2>5. n \in Nat
    BY <2>2 DEF ConnectionType
  <2> HIDE DEF socket, n
  <2>6. /\ c \in ConnectionType /\ c.answered = n /\ c.parsed = d.parsed
        /\ c.requestBody = d.requestBody /\ c.readBuffer = d.readBuffer /\ SameFile(c, d)
        /\ c.responsePending = d.responsePending /\ c.writeBuffer = d.writeBuffer
        /\ c.fileTransfer = d.fileTransfer /\ c.closeAfterWrite = d.closeAfterWrite
    BY <2>2, <2>5 DEF ConnectionType, SameFile
  <2> HIDE DEF c
  <2>7. CASE Writing(d) /\ Commit(fd, q, socket)
    <3>1. q.conn = d /\ q.submit = NoTask /\ q.ctl = FALSE
      BY DEF Outcome
    <3> HIDE DEF q
    <3>2. Lasting(fd, q)
      BY <2>2, <2>7, <3>1 DEF Lasting, b
    <3>3. /\ d.requestBody = b.requestBody /\ d.interest = b.interest
          /\ d.responsePending = b.responsePending
      <4>1. b.responsePending = FALSE /\ b \in ConnectionType
        BY <1>1 DEF Sound, ConnectionType
      <4>2. d.responsePending = FALSE /\ Sound(d)
        BY <2>2, <2>7 DEF ConnectionType
      <4> QED
        BY <1>1, <2>7, <4>1, <4>2 DEF Sound, Busy
    <3>4. Bounded(b, Chunk) => Bounded(q.conn, Chunk)
      BY <1>1, <2>2, <3>1, <3>3, SameBounded
    <3>5. Promise(b) => Left(q, b)
      <4>1. d.requestBody = NoBody
        BY <1>1, <3>3 DEF Sound, Busy
      <4>2. Promise(b) => Promise(d)
        BY <2>2 DEF Promise
      <4>3. Framing(d) /\ EndOf(d.readBuffer, b.readBuffer)
        BY <1>1, <2>2, <4>1, WholeIsEnd DEF Framing, Sound, ConnectionType
      <4> QED
        BY <3>1, <4>2, <4>3 DEF Left
    <3> QED
      BY <2>4, <2>7, <3>2, <3>4, <3>5 DEF s, b
  <2>8. CASE ~Writing(d) /\ c.closeAfterWrite /\ Close({fd}) /\ UNCHANGED poolVars
    BY <2>2, <2>6, <2>8 DEF b
  <2>9. CASE ~Writing(d) /\ ~c.closeAfterWrite /\ Commit(fd, r, socket)
    <3>1. ~Busy(c)
      BY <2>2, <2>6, <2>9, Zenon DEF Busy, Writing
    <3>2. Ready(c) /\ c.requestBody = NoBody
      BY <2>2, <2>6, <2>9, <3>1 DEF Ready, n
    <3>3. Fine(r, c)
      BY <3>2, NextRequestFine
    <3>5. Bounded(b, Chunk) => Bounded(r.conn, Chunk)
      <4>1. Bounded(b, Chunk) => Len(c.readBuffer) < Chunk
        BY <1>1, <2>2, <2>6, <2>9 DEF Bounded
      <4> QED
        BY <3>2, <4>1, NextRequestBounded, ServerAssumption
    <3>6. Left(r, b)
      BY <2>2, <2>6, <3>2, NextRequestLeft DEF Left
    <3> HIDE DEF r
    <3>4. Lasting(fd, r)
      BY <2>2, <2>6, <3>3 DEF Fine, SameFile, Owes, Lasting, b
    <3> QED
      BY <2>4, <2>9, <3>4, <3>5, <3>6 DEF s, b
  <2> QED
    BY <2>3, <2>7, <2>8, <2>9
<1> QED
  BY <1>2, <1>3, Zenon DEF WriteToConnection, s, b

LEMMA WriteKeeps ==
  ASSUME IInv, NEW fd \in Fd, NEW events, WriteToConnection(fd, events)
  PROVE  IInv'
<1> USE DEF acceptVars, completionVars
<1>0. /\ pc' = "dispatch" /\ current' = NoFd /\ taken' = <<>>
      /\ batch' = batch \ {<<fd, events>>} /\ <<fd, events>> \in batch
      /\ fd \in Open /\ Writing(connections[fd])
      /\ UNCHANGED <<acceptVars, completionVars, running>>
  BY DEF WriteToConnection, Writable, NextEvent, IInv, TypeOK, Loop
<1>1. CASE Close({fd}) /\ UNCHANGED poolVars
  <2>1. batch' \subseteq batch /\ pc' \in LoopState \ {"read"} /\ running' \in BOOLEAN
    BY <1>0 DEF LoopState, IInv, TypeOK
  <2> QED
    BY <1>0, <1>1, <2>1, CloseKeeps
<1>2. ASSUME NEW r, NEW socket \in Socket, Commit(fd, r, socket), Lasting(fd, r)
      PROVE  IInv'
  <2>1. ~connections[fd].responsePending
    BY <1>0 DEF IInv, Core, Conns, Sound
  <2>2. /\ Core' /\ ClientTypes' /\ PoolTypes'
        /\ Open' \subseteq Open
        /\ \A g \in Open' : g # fd => connections'[g] = connections[g]
    BY <1>0, <1>2, <2>1, CommitCore DEF IInv
  <2>3. \A e \in batch' : e[1] # fd
    BY <1>0 DEF IInv, Loop
  <2>4. TypeOK'
    BY <1>0, <2>2 DEF IInv, TypeOK, ClientTypes, PoolTypes, LoopState
  <2>5. Loop'
    BY <1>0, <2>2, <2>3, LoopKept DEF IInv
  <2> QED
    BY <2>2, <2>4, <2>5 DEF IInv
<1> QED
  BY <1>0, <1>1, <1>2, WriteCases

----------------------------------------------------------------------------
(* The invariant holds *)

LEMMA InitHolds == Init => IInv
<1> SUFFICES ASSUME Init PROVE IInv
  OBVIOUS
<1> USE DEF Init, TQ!Init
<1>1. Open = {} /\ Flying = {} /\ Holding = {} /\ HeldIds = {}
      /\ Ids(tasks) = {} /\ Ids(completions) = {} /\ Ids(taken) = {}
      /\ Distinct(tasks) /\ Distinct(completions) /\ Distinct(taken)
  BY DEF Open, Flying, Holding, HeldIds, Range, Ids, Distinct
<1>2. Core
  BY <1>1 DEF Core, Conns, IdsOK, OnceEach, Belongs
<1>3. Loop
  BY DEF Loop
<1>4. TypeOK
  <2>1. tasks \in Seq(Task) /\ Len(tasks) = 0 /\ completions \in Seq(Completion)
        /\ taken \in Seq(Completion)
    OBVIOUS
  <2>2. Len(tasks) <= MaxQueueSize
    BY <2>1, ServerAssumption
  <2> QED
    BY <2>1, <2>2 DEF TypeOK, LoopState
<1> QED
  BY <1>2, <1>3, <1>4 DEF IInv

LEMMA StepKeeps == IInv /\ [Next]_vars => IInv'
<1> SUFFICES ASSUME IInv, [Next]_vars PROVE IInv'
  OBVIOUS
<1>1. CASE LoopStep
  <2>1. CASE EpollWait \/ BatchDone \/ SkipScan \/ BeginAccept \/ EndAccept \/ EndDeliver
    BY <2>1, TurnKeeps
  <2>2. CASE CloseIdleConnections \/ CloseAllConnections \/ RecvFails
    BY <2>2, ClosingKeeps
  <2>3. ASSUME NEW fd \in Fd, NEW script \in Script, AcceptClient(fd, script) PROVE IInv'
    BY <2>3, AcceptKeeps
  <2>4. CASE SwapCompletions
    BY <2>4, SwapKeeps
  <2>5. CASE DeliverCompletion
    BY <2>5, DeliverKeeps
  <2>6. ASSUME NEW fd \in Fd, NEW events, HandleConnectionEvent(fd, events) PROVE IInv'
    BY <2>6, HandleClosedKeeps, HandleNothingKeeps, BeginReadKeeps, WriteKeeps
       DEF HandleConnectionEvent
  <2>7. CASE Recv
    BY <2>7, RecvKeeps
  <2>8. CASE RecvWouldBlock
    BY <2>8, HandleNothingKeeps
  <2> QED
    BY <1>1, <2>1, <2>2, <2>3, <2>4, <2>5, <2>6, <2>7, <2>8 DEF LoopStep
<1>2. CASE WorkerStep
  BY <1>2, TakeTaskKeeps, QueueResponseKeeps DEF WorkerStep
<1>3. CASE ClientSteps
  BY <1>3, ConnectKeeps, ClientKeeps, TimePassesKeeps DEF ClientSteps
<1>4. CASE Stop \/ DestroyPool
  BY <1>4, StopKeeps
<1>5. CASE UNCHANGED vars
  <2> USE DEF vars, clientVars, acceptVars, poolVars, completionVars, loopVars
  <2>1. TypeOK'
    BY <1>5 DEF IInv, TypeOK
  <2>2. Core'
    BY <1>5, CoreSame DEF IInv, coreVars
  <2>3. Loop'
    BY <1>5, LoopSame DEF IInv
  <2> QED
    BY <2>1, <2>2, <2>3 DEF IInv
<1> QED
  BY <1>1, <1>2, <1>3, <1>4, <1>5 DEF Next, Finished

LEMMA Inductive == SafetySpec => []IInv
BY InitHolds, StepKeeps, PTL DEF SafetySpec

----------------------------------------------------------------------------
(* The properties *)

\* Every variable stays in its type, and a descriptor is open exactly while
\* its connection is tracked, whatever the clients, the kernel and the pool do.
THEOREM TypeCorrect == SafetySpec => []TypeOK
<1>1. IInv => TypeOK
  BY DEF IInv
<1> QED
  BY <1>1, Inductive, PTL

LEMMA Singleton ==
  ASSUME NEW S, S # {}, \A i, j \in S : i = j
  PROVE  \E i : S = {i}
OBVIOUS

LEMMA OneTask == IInv => OneTaskWhilePending
<1> SUFFICES ASSUME IInv, NEW fd \in Open
             PROVE  LET places == InFlight(connections[fd].id)
                    IN  IF connections[fd].responsePending THEN \E p \in places : places = {p}
                                                           ELSE places = {}
  BY DEF OneTaskWhilePending
<1> DEFINE id == connections[fd].id
           Q == {k \in DOMAIN tasks : tasks[k].id = id}
           W == {v \in Worker : held[v] # NoTask /\ held[v].id = id}
           C == {k \in DOMAIN completions : completions[k].id = id}
           T == {k \in DOMAIN taken : taken[k].id = id}
           places == {<<"queue", i>> : i \in Q} \cup {<<"worker", w>> : w \in W}
                       \cup {<<"completions", i>> : i \in C} \cup {<<"taken", i>> : i \in T}
<1>1. InFlight(id) = places
  BY DEF InFlight
<1>2. /\ Q # {} <=> id \in Ids(tasks)
      /\ W # {} <=> id \in HeldIds
      /\ C # {} <=> id \in Ids(completions)
      /\ T # {} <=> id \in Ids(taken)
  BY DEF Ids, HeldIds, Holding
<1>3. /\ \A i, j \in Q : i = j
      /\ \A i, j \in W : i = j
      /\ \A i, j \in C : i = j
      /\ \A i, j \in T : i = j
  BY DEF IInv, Core, OnceEach, Distinct, Holding
<1>4. /\ Q # {} => W = {} /\ C = {} /\ T = {}
      /\ W # {} => C = {} /\ T = {}
      /\ C # {} => T = {}
  BY <1>2 DEF IInv, Core, OnceEach
<1>5. (\E x \in Flying : x.id = id) <=> Q # {} \/ W # {} \/ C # {} \/ T # {}
  <2>1. \A x \in Flying : x.id \in Ids(tasks) \cup HeldIds \cup Ids(completions) \cup Ids(taken)
    BY DEF Flying, Range, Ids, HeldIds
  <2> QED
    BY <1>2, <2>1, IdsAreThoseOfFlying
<1>6. connections[fd].responsePending <=> \E x \in Flying : x.id = id
  BY DEF IInv, Core, Belongs
<1> HIDE DEF Q, W, C, T
<1>7. ASSUME connections[fd].responsePending PROVE \E p \in places : places = {p}
  <2>1. Q # {} \/ W # {} \/ C # {} \/ T # {}
    BY <1>5, <1>6, <1>7
  <2>2. CASE Q # {}
    <3>1. PICK i : Q = {i}
      BY <1>3, <2>2, Singleton
    <3>2. W = {} /\ C = {} /\ T = {}
      BY <1>4, <2>2
    <3>3. places = {<<"queue", i>>}
      BY <3>1, <3>2
    <3> QED
      BY <3>3
  <2>3. CASE W # {}
    <3>1. PICK i : W = {i}
      BY <1>3, <2>3, Singleton
    <3>2. Q = {} /\ C = {} /\ T = {}
      BY <1>4, <2>3
    <3>3. places = {<<"worker", i>>}
      BY <3>1, <3>2
    <3> QED
      BY <3>3
  <2>4. CASE C # {}
    <3>1. PICK i : C = {i}
      BY <1>3, <2>4, Singleton
    <3>2. Q = {} /\ W = {} /\ T = {}
      BY <1>4, <2>4
    <3>3. places = {<<"completions", i>>}
      BY <3>1, <3>2
    <3> QED
      BY <3>3
  <2>5. CASE T # {}
    <3>1. PICK i : T = {i}
      BY <1>3, <2>5, Singleton
    <3>2. Q = {} /\ W = {} /\ C = {}
      BY <1>4, <2>5
    <3>3. places = {<<"taken", i>>}
      BY <3>1, <3>2
    <3> QED
      BY <3>3
  <2> QED
    BY <2>1, <2>2, <2>3, <2>4, <2>5
<1>8. ASSUME ~connections[fd].responsePending PROVE places = {}
  BY <1>5, <1>6, <1>8
<1> QED
  BY <1>1, <1>7, <1>8

\* While a response is awaited exactly one request of the connection is queued,
\* served or on its way back, and none otherwise, for any number of workers
\* and connections.
THEOREM OneTaskAlways == SafetySpec => []OneTaskWhilePending
BY OneTask, Inductive, PTL

\* A client reads the answers to its own requests, once each and in order.
THEOREM AnswersInOrder == SafetySpec => []AnswersOwnRequestInOrder
<1>1. IInv => AnswersOwnRequestInOrder
  BY DEF IInv, Core, Conns, Sound, Busy, AnswersOwnRequestInOrder
<1> QED
  BY <1>1, Inductive, PTL

\* The mask registered with epoll is the one the connection's state calls for,
\* and a request already in the buffer is never left waiting for more bytes.
THEOREM NeverStranded == SafetySpec => []NothingStranded
<1>1. IInv => NothingStranded
  BY DEF IInv, Core, Conns, Sound, Incomplete, NothingStranded
<1> QED
  BY <1>1, Inductive, PTL

\* As long as the files it sends keep their size, a response is complete
\* before the connection waits for the next request.
THEOREM WrittenInFull ==
  ASSUME FileShrinks = {FALSE}
  PROVE  SafetySpec => []ContentLengthHonoured
<1>1. IInv => ContentLengthHonoured
  <2> SUFFICES ASSUME IInv, NEW fd \in Open, ~Writing(connections[fd])
               PROVE  connections[fd].owed = 0
    BY DEF ContentLengthHonoured
  <2>1. connections[fd].fileTransfer = connections[fd].owed
        /\ connections[fd].fileTransfer \in Nat
    BY DEF IInv, Core, Conns, Owes, Sound, ConnectionType
  <2>2. ~(connections[fd].fileTransfer > 0)
    BY DEF Writing
  <2> QED
    BY <2>1, <2>2
<1> QED
  BY <1>1, Inductive, PTL

----------------------------------------------------------------------------
(* What a client can make the server buffer *)

Limited == \A fd \in Open : Bounded(connections[fd], Chunk)

\* Only one connection's buffer may change in a step.
LEMMA LimitedUpdate ==
  ASSUME Limited, NEW fd, Open' \subseteq Open \cup {fd},
         \A g \in Open' : g # fd => connections'[g] = connections[g],
         fd \in Open' => Bounded(connections'[fd], Chunk)
  PROVE  Limited'
BY DEF Limited

LEMMA LimitedClose ==
  ASSUME Limited, NEW fds, Close(fds)
  PROVE  Limited'
<1>1. connections' = [fd \in Fd |-> IF fd \in fds THEN NoConnection ELSE connections[fd]]
  BY DEF Close
<1>2. \A fd \in Open' : fd \in Open /\ connections'[fd] = connections[fd]
  BY <1>1 DEF Open
<1> QED
  BY <1>2 DEF Limited

LEMMA LimitedCommit ==
  ASSUME IInv, Limited, NEW fd \in Open, NEW r, NEW socket, Commit(fd, r, socket),
         Bounded(r.conn, Chunk)
  PROVE  Limited'
<1>1. CASE Close({fd})
  BY <1>1, LimitedClose
<1>2. CASE connections' = [connections EXCEPT ![fd] = r.conn]
  <2>1. /\ Open' \subseteq Open \cup {fd} /\ connections'[fd] = r.conn
        /\ \A g \in Open' : g # fd => connections'[g] = connections[g]
    BY <1>2 DEF IInv, TypeOK, Open
  <2> QED
    BY <2>1, LimitedUpdate
<1> QED
  BY <1>1, <1>2 DEF Commit

LEMMA LimitedRecv ==
  ASSUME IInv, Limited, Recv
  PROVE  Limited'
<1> DEFINE s == sockets[current]
           k == IF Len(s.inbox) < Chunk THEN Len(s.inbox) ELSE Chunk
           bytes == SubSeq(s.inbox, 1, k)
           b == connections[current]
           c == [b EXCEPT !.readBuffer = @ \o bytes, !.idle = FALSE]
           r == AfterRecv(c, TQ!Accepts)
           t == [s EXCEPT !.inbox = SubSeq(@, k + 1, Len(@))]
<1>1. current \in Open /\ Commit(current, r, t) /\ b.interest = "read"
  BY DEF Recv, IInv, Loop
<1>2. s \in Socket /\ Sound(b) /\ Bounded(b, Chunk)
  BY <1>1, OpenTypes DEF IInv, Core, Conns, Limited
<1>3. bytes \in Seq(Token) /\ Len(bytes) <= Chunk
  <2>1. s.inbox \in Seq(Token) /\ Len(s.inbox) \in Nat
    BY <1>2, LenProperties DEF Socket
  <2>2. k \in Nat /\ k <= Len(s.inbox) /\ k <= Chunk
    BY <2>1, ServerAssumption
  <2> HIDE DEF k
  <2>3. bytes \in Seq(Token)
    BY <2>1, <2>2, Slices
  <2>4. \A i \in 1 .. Len(s.inbox) : s.inbox[i] \in Token
    BY <2>1, ElementOfSeq
  <2>5. Len(bytes) = k
    BY <2>1, <2>2, <2>4, SubSeqProperties
  <2> QED
    BY <2>2, <2>3, <2>5
<1>4. c = [b EXCEPT !.readBuffer = @ \o bytes, !.idle = FALSE]
  OBVIOUS
<1> HIDE DEF bytes, b, c, t
<1>5. Ready(c)
  BY <1>1, <1>2, <1>3, <1>4, ReceivedReady, Zenon
<1>6. Chunk \in Nat
  BY ServerAssumption
<1>7. Bounded(r.conn, Chunk)
  BY <1>1, <1>2, <1>3, <1>4, <1>5, <1>6, AfterRecvBounded, Zenon
<1> HIDE DEF r
<1> QED
  BY <1>1, <1>7, LimitedCommit

LEMMA LimitedDeliver ==
  ASSUME IInv, Limited, DeliverCompletion
  PROVE  Limited'
<1> DEFINE m == Head(taken)
<1>1. m \in Completion /\ m \in Flying
  <2>1. taken \in Seq(Completion) /\ taken # <<>>
    BY DEF IInv, TypeOK, DeliverCompletion
  <2> QED
    BY <2>1, FrontTaken DEF Flying
<1>2. CASE ~Addressee(m)
  BY <1>2 DEF DeliverCompletion, clientVars, Open, Limited
<1>3. CASE Addressee(m)
  <2> DEFINE fd == m.fd
             c == connections[fd]
  <2>1. PICK opened \in BOOLEAN :
          Commit(fd, Outcome(Install(c, m, opened), NoTask, TRUE), sockets[fd])
    BY <1>3 DEF DeliverCompletion
  <2> HIDE DEF m
  <2>2. /\ fd \in Open /\ Sound(c) /\ c.responsePending /\ CompletionFor(m, c)
        /\ Bounded(c, Chunk)
    BY <1>1, <1>3 DEF Addressee, IInv, Core, Conns, Belongs, CompletionFor, Completion, Limited
  <2>3. Bounded(Install(c, m, opened), Chunk)
    BY <2>2, InstallBounded, ServerAssumption
  <2> DEFINE r == Outcome(Install(c, m, opened), NoTask, TRUE)
  <2>4. Bounded(r.conn, Chunk) /\ Commit(fd, r, sockets[fd])
    BY <2>1, <2>3 DEF Outcome
  <2> HIDE DEF r
  <2> QED
    BY <2>2, <2>4, LimitedCommit
<1> QED
  BY <1>2, <1>3

LEMMA LimitedEvent ==
  ASSUME IInv, Limited, NEW fd \in Fd, NEW events, HandleConnectionEvent(fd, events)
  PROVE  Limited'
<1>1. CASE HandleClosed(fd, events)
  BY <1>1, LimitedClose DEF HandleClosed
<1>2. CASE HandleNothing(fd, events) \/ BeginRead(fd, events)
  BY <1>2 DEF HandleNothing, BeginRead, clientVars, Limited, Open
<1>3. CASE WriteToConnection(fd, events)
  <2>1. fd \in Open
    BY <1>3 DEF WriteToConnection, Writable
  <2>2. Bounded(connections[fd], Chunk)
    BY <2>1 DEF Limited
  <2>3. \/ Close({fd})
        \/ \E r, socket : Commit(fd, r, socket) /\ Bounded(r.conn, Chunk)
    BY <1>3, <2>1, <2>2, WriteCases
  <2> QED
    BY <2>1, <2>3, LimitedClose, LimitedCommit
<1> QED
  BY <1>1, <1>2, <1>3 DEF HandleConnectionEvent

LEMMA LimitedAccept ==
  ASSUME IInv, Limited, NEW fd \in Fd, NEW script \in Script, AcceptClient(fd, script)
  PROVE  Limited'
<1>1. CASE UNCHANGED connections
  BY <1>1 DEF Limited, Open
<1>2. CASE connections' = [connections EXCEPT ![fd] = NewConnection(nextConnectionId)]
  <2>1. /\ Open' \subseteq Open \cup {fd} /\ connections'[fd] = NewConnection(nextConnectionId)
        /\ \A g \in Open' : g # fd => connections'[g] = connections[g]
    BY <1>2 DEF IInv, TypeOK, Open
  <2>2. Bounded(NewConnection(nextConnectionId), Chunk)
    BY NewBounded, ServerAssumption DEF IInv, TypeOK
  <2> QED
    BY <2>1, <2>2, LimitedUpdate
<1> QED
  BY <1>1, <1>2 DEF AcceptClient, clientVars

LEMMA LimitedTime ==
  ASSUME IInv, Limited, NEW fd \in Fd, TimePasses(fd)
  PROVE  Limited'
<1> DEFINE c == connections[fd]
           d == [c EXCEPT !.idle = TRUE]
<1>1. fd \in Open /\ connections' = [connections EXCEPT ![fd] = d]
  BY DEF TimePasses
<1>2. c \in ConnectionType /\ Bounded(c, Chunk)
  BY <1>1, OpenTypes DEF IInv, Limited
<1> HIDE DEF c
<1>3. /\ d.readBuffer = c.readBuffer /\ d.requestBody = c.requestBody /\ d.interest = c.interest
      /\ d.responsePending = c.responsePending /\ d.closeAfterWrite = c.closeAfterWrite
      /\ d.writeBuffer = c.writeBuffer /\ d.fileTransfer = c.fileTransfer
  BY <1>2 DEF ConnectionType
<1> HIDE DEF d
<1>4. Writing(d) => Writing(c)
  BY <1>3, Zenon DEF Writing
<1>5. Bounded(d, Chunk)
  BY <1>2, <1>3, <1>4, SameBounded
<1>6. /\ Open' \subseteq Open \cup {fd} /\ connections'[fd] = d
      /\ \A g \in Open' : g # fd => connections'[g] = connections[g]
  BY <1>1 DEF IInv, TypeOK, Open
<1> QED
  BY <1>5, <1>6, LimitedUpdate

LEMMA LimitedKept == IInv /\ Limited /\ [Next]_vars => Limited'
<1> SUFFICES ASSUME IInv, Limited, [Next]_vars PROVE Limited'
  OBVIOUS
<1>1. CASE UNCHANGED connections
  BY <1>1 DEF Limited, Open
<1>2. CASE CloseIdleConnections \/ CloseAllConnections \/ RecvFails
  BY <1>2, LimitedClose DEF CloseIdleConnections, CloseAllConnections, RecvFails
<1>3. CASE Recv \/ DeliverCompletion
  BY <1>3, LimitedRecv, LimitedDeliver
<1>4. CASE \E fd \in Fd, script \in Script : AcceptClient(fd, script)
  BY <1>4, LimitedAccept
<1>5. CASE \E e \in batch : e[1] \in Fd /\ HandleConnectionEvent(e[1], e[2])
  BY <1>5, LimitedEvent
<1>6. CASE \E fd \in Fd : TimePasses(fd)
  BY <1>6, LimitedTime
<1>7. CASE LoopStep
  BY <1>1, <1>2, <1>3, <1>4, <1>5, <1>7
     DEF LoopStep, EpollWait, BatchDone, SkipScan, BeginAccept, EndAccept, EndDeliver,
         SwapCompletions, RecvWouldBlock, clientVars
<1>8. CASE ClientSteps
  BY <1>1, <1>6, <1>8
     DEF ClientSteps, Connect, Send, Receive, HalfClose, Reset, ClientStep, clientVars
<1>9. CASE WorkerStep \/ Stop \/ DestroyPool \/ Finished \/ UNCHANGED vars
  BY <1>1, <1>9 DEF WorkerStep, TakeTask, QueueResponse, Stop, DestroyPool, Finished, vars, clientVars
<1> QED
  BY <1>7, <1>8, <1>9 DEF Next

\* Whatever a client sends, its connection holds a header and a body within
\* the limits, and beyond a complete request less than one recv.
THEOREM BuffersBounded == SafetySpec => []ReadBufferBounded
<1>1. Init => Limited
  BY DEF Init, Limited, Open
<1>2. IInv /\ Limited => ReadBufferBounded
  <2> SUFFICES ASSUME IInv, Limited, NEW fd \in Open
               PROVE  LET c == connections[fd]
                          n == Len(c.readBuffer)
                      IN  /\ c.interest = "read" =>
                               IF c.requestBody = NoBody THEN n <= MaxHeader
                                                         ELSE n < MaxHeader + MaxBody
                          /\ c.responsePending \/ (Writing(c) /\ ~c.closeAfterWrite) => n < Chunk
                          /\ n <= MaxHeader + Chunk + MaxBody
    BY DEF ReadBufferBounded
  <2> DEFINE c == connections[fd]
             b == c.requestBody
  <2>1. Sound(c) /\ Bounded(c, Chunk) /\ Len(c.readBuffer) \in Nat
    BY BufferLength DEF IInv, Core, Conns, Limited, Sound
  <2> HIDE DEF c
  <2>2. ASSUME c.interest = "read", b # NoBody
        PROVE  Len(c.readBuffer) < MaxHeader + MaxBody
    <3>1. ~BodyComplete(c) /\ b.headerLength \in Nat /\ b.bodyLength \in Nat
      BY <2>1, <2>2 DEF Sound, Incomplete, ConnectionType
    <3>2. b.headerLength <= MaxHeader /\ b.bodyLength <= MaxBody
      BY <2>1, <2>2 DEF Bounded
    <3> QED
      BY <2>1, <3>1, <3>2, ConnectionAssumption DEF BodyComplete
  <2> QED
    BY <2>1, <2>2 DEF Bounded, c
<1> QED
  BY <1>1, <1>2, Inductive, LimitedKept, PTL DEF SafetySpec

----------------------------------------------------------------------------
(* What clients are told, and whose bytes a worker gets *)

Serving == Range(tasks) \cup {held[w] : w \in Holding}
Returning == Range(completions) \cup Range(taken)

\* A request with the body it announces.
Framed(x) == Parsed[x.kind].wellFormed /\ Len(x.body) = BodyOf(x.kind)

\* A request on its way is the last one its connection took from its buffer,
\* and a response on its way says what that request asked for.
Meant ==
  /\ \A fd \in Open : Promise(connections[fd]) /\ Framing(connections[fd])
  /\ \A x \in Serving :
       /\ Framed(x)
       /\ \A fd \in Open : x.id = connections[fd].id => x.kind = connections[fd].last
  /\ \A m \in Returning :
       /\ m.keepAlive = ~m.closeAfterWrite
       /\ \A fd \in Open : m.id = connections[fd].id /\ m.keepAlive =>
            connections[fd].last \in DOMAIN Request /\ AsksToStay(Request[connections[fd].last])

LEMMA ServingTypes == TypeOK => Serving \subseteq Task
<1> SUFFICES ASSUME TypeOK PROVE Serving \subseteq Task
  OBVIOUS
<1>1. tasks \in Seq(Task)
  BY DEF TypeOK
<1>2. Range(tasks) \subseteq Task
  BY <1>1, ElementOfSeq, LenProperties DEF Range
<1>3. \A w \in Holding : held[w] \in Task
  BY DEF TypeOK, Holding
<1> QED
  BY <1>2, <1>3 DEF Serving

LEMMA FlyingParts == Flying = Serving \cup Returning
BY DEF Flying, Serving, Returning

\* No connection changes, or some are closed.
LEMMA MeantSame ==
  ASSUME Meant, Open' \subseteq Open, \A fd \in Open' : connections'[fd] = connections[fd],
         Serving' \subseteq Serving, Returning' \subseteq Returning
  PROVE  Meant'
BY DEF Meant, Framed

LEMMA PoolSame ==
  ASSUME UNCHANGED <<tasks, held>>
  PROVE  Serving' = Serving
BY DEF Serving, Holding

LEMMA MeantClose ==
  ASSUME Meant, NEW fds, Close(fds), UNCHANGED <<tasks, held, completions, taken>>
  PROVE  Meant'
<1>1. connections' = [fd \in Fd |-> IF fd \in fds THEN NoConnection ELSE connections[fd]]
  BY DEF Close
<1>2. Open' \subseteq Open /\ \A fd \in Open' : connections'[fd] = connections[fd]
  BY <1>1 DEF Open
<1>3. Serving' = Serving /\ Returning' = Returning
  BY PoolSame DEF Returning
<1> QED
  BY <1>2, <1>3, MeantSame

\* One connection changes; of the requests on their way it has at most the
\* one that is submitted now, or those it had.
LEMMA MeantUpdate ==
  ASSUME Meant, IdsOK', NEW fd, Open' \subseteq Open \cup {fd},
         \A g \in Open' : g # fd => connections'[g] = connections[g],
         fd \in Open' => Promise(connections'[fd]) /\ Framing(connections'[fd]),
         \A x \in Serving' :
           \/ x \in Serving
           \/ /\ Framed(x) /\ fd \in Open'
              /\ x.id = connections'[fd].id /\ x.kind = connections'[fd].last,
         Returning' \subseteq Returning,
         fd \in Open' => \A x \in Serving \cup Returning' : x.id = connections'[fd].id =>
                           fd \in Open /\ x.id = connections[fd].id
                             /\ connections'[fd].last = connections[fd].last
  PROVE  Meant'
<1>1. \A g \in Open' : Promise(connections'[g]) /\ Framing(connections'[g])
  BY DEF Meant
<1>2. ASSUME NEW x \in Serving'
      PROVE  /\ Framed(x)
             /\ \A g \in Open' : x.id = connections'[g].id => x.kind = connections'[g].last
  <2>1. CASE x \in Serving
    BY <2>1 DEF Meant
  <2>2. CASE /\ Framed(x) /\ fd \in Open'
             /\ x.id = connections'[fd].id /\ x.kind = connections'[fd].last
    BY <2>2 DEF IdsOK
  <2> QED
    BY <2>1, <2>2
<1>3. ASSUME NEW m \in Returning'
      PROVE  /\ m.keepAlive = ~m.closeAfterWrite
             /\ \A g \in Open' : m.id = connections'[g].id /\ m.keepAlive =>
                  /\ connections'[g].last \in DOMAIN Request
                  /\ AsksToStay(Request[connections'[g].last])
  BY DEF Meant
<1> QED
  BY <1>1, <1>2, <1>3 DEF Meant, Framed

LEMMA MeantCommit ==
  ASSUME IInv, IInv', Meant, NEW fd \in Open, ~connections[fd].responsePending,
         NEW r, NEW socket, Commit(fd, r, socket), r.conn.id = connections[fd].id,
         r.conn # NoConnection, NEW c, Left(r, c), UNCHANGED <<completions, taken>>
  PROVE  Meant'
<1> DEFINE job == Job(fd, r.conn, r.submit)
<1>0. completions' = completions /\ taken' = taken
  OBVIOUS
<1>1. CASE Close({fd}) /\ UNCHANGED poolVars
  BY <1>1, MeantClose DEF poolVars
<1>2. CASE /\ connections' = [connections EXCEPT ![fd] = r.conn]
           /\ IF r.submit = NoTask THEN UNCHANGED poolVars ELSE TQ!Enqueue(job)
  <2>1. /\ Open' \subseteq Open /\ connections'[fd] = r.conn
        /\ \A g \in Open' : g # fd => connections'[g] = connections[g]
    BY <1>2 DEF IInv, TypeOK, Open
  <2>2. Returning' = Returning
    BY <1>0 DEF Returning
  <2>3. \A x \in Serving \cup Returning : x.id # connections[fd].id
    BY FlyingParts DEF IInv, Core, Belongs
  <2>4. Promise(r.conn) /\ Framing(r.conn)
    BY DEF Left
  <2>5. ASSUME NEW x \in Serving'
        PROVE  x \in Serving \/ (Framed(x) /\ x.id = r.conn.id /\ x.kind = r.conn.last)
    <3>1. CASE r.submit = NoTask
      BY <1>2, <3>1, PoolSame DEF poolVars
    <3>2. CASE r.submit # NoTask
      <4>1. r.submit.kind = r.conn.last /\ Framed(job) /\ job.id = r.conn.id
            /\ job.kind = r.submit.kind
        BY <3>2 DEF Left, CutFrom, Framed, Job
      <4> HIDE DEF job
      <4>2. tasks' = Append(tasks, job) /\ held' = held
        BY <1>2, <3>2 DEF TQ!Enqueue
      <4>3. tasks \in Seq(Task) /\ tasks' \in Seq(Task)
        BY DEF IInv, TypeOK
      <4>4. Range(tasks') = Range(tasks) \cup {job}
        <5>1. /\ DOMAIN tasks' = 1 .. Len(tasks) + 1 /\ DOMAIN tasks = 1 .. Len(tasks)
              /\ Len(tasks) \in Nat /\ tasks'[Len(tasks) + 1] = job
              /\ \A i \in 1 .. Len(tasks) : tasks'[i] = tasks[i]
          BY <4>2, <4>3, AppendProperties, LenProperties
        <5>2. 1 .. Len(tasks) + 1 = 1 .. Len(tasks) \cup {Len(tasks) + 1}
          BY <5>1
        <5> QED
          BY <5>1, <5>2 DEF Range
      <4> QED
        BY <4>1, <4>2, <4>4 DEF Serving, Holding
    <3> QED
      BY <3>1, <3>2
  <2>6. fd \in Open'
    BY <2>1 DEF Open
  <2> QED
    BY <2>1, <2>2, <2>3, <2>4, <2>5, <2>6, MeantUpdate DEF IInv, Core
<1> QED
  BY <1>1, <1>2 DEF Commit

LEMMA MeantRecv ==
  ASSUME IInv, IInv', Meant, Recv
  PROVE  Meant'
<1> DEFINE s == sockets[current]
           k == IF Len(s.inbox) < Chunk THEN Len(s.inbox) ELSE Chunk
           bytes == SubSeq(s.inbox, 1, k)
           b == connections[current]
           c == [b EXCEPT !.readBuffer = @ \o bytes, !.idle = FALSE]
           r == AfterRecv(c, TQ!Accepts)
           t == [s EXCEPT !.inbox = SubSeq(@, k + 1, Len(@))]
<1>1. /\ current \in Open /\ Commit(current, r, t) /\ b.interest = "read"
      /\ UNCHANGED <<completions, taken>>
  BY DEF Recv, IInv, Loop, completionVars
<1>2. s \in Socket /\ Sound(b) /\ Framing(b)
  BY <1>1, OpenTypes DEF IInv, Core, Conns, Meant
<1>3. bytes \in Seq(Token)
  <2>1. s.inbox \in Seq(Token) /\ Len(s.inbox) \in Nat
    BY <1>2, LenProperties DEF Socket
  <2>2. k \in Nat /\ k <= Len(s.inbox)
    BY <2>1, ServerAssumption
  <2> HIDE DEF k
  <2> QED
    BY <2>1, <2>2, Slices
<1>4. c = [b EXCEPT !.readBuffer = @ \o bytes, !.idle = FALSE]
  OBVIOUS
<1> HIDE DEF bytes, b, c, t
<1>5. Ready(c) /\ SameFile(c, b)
  BY <1>1, <1>2, <1>3, <1>4, ReceivedReady, Zenon
<1>6. Framing(c)
  BY <1>2, <1>3, <1>4, ReceivedFraming DEF Sound
<1>7. Left(r, c) /\ Fine(r, c)
  <2>1. c.interest = "read"
    BY <1>1, <1>2, <1>3, <1>4, ReceivedReady, Zenon
  <2> QED
    BY <1>5, <1>6, <2>1, AfterRecvLeft, AfterRecvFine
<1> HIDE DEF r
<1>8. r.conn # NoConnection /\ r.conn.id = b.id
  BY <1>5, <1>7, Absent DEF Fine, Sound, SameFile
<1>9. ~b.responsePending
  BY <1>1, <1>2 DEF Sound
<1> QED
  BY <1>1, <1>7, <1>8, <1>9, MeantCommit DEF b

LEMMA MeantDeliver ==
  ASSUME IInv, IInv', Meant, DeliverCompletion
  PROVE  Meant'
<1> DEFINE m == Head(taken)
<1>1. /\ m \in Returning /\ Returning' \subseteq Returning /\ Serving' = Serving
      /\ m \in Completion
  <2>1. taken \in Seq(Completion) /\ taken # <<>>
    BY DEF IInv, TypeOK, DeliverCompletion
  <2>2. Range(taken) = Range(Tail(taken)) \cup {m} /\ m \in Completion
    BY <2>1, FrontTaken
  <2>3. completions' = completions /\ taken' = Tail(taken)
    BY DEF DeliverCompletion
  <2>4. tasks' = tasks /\ held' = held
    BY DEF DeliverCompletion, Commit, Outcome, poolVars
  <2> QED
    BY <2>2, <2>3, <2>4, PoolSame DEF Returning
<1>2. CASE ~Addressee(m)
  <2>1. UNCHANGED connections
    BY <1>2 DEF DeliverCompletion, clientVars
  <2> QED
    BY <1>1, <2>1, MeantSame DEF Open
<1>3. CASE Addressee(m)
  <2> DEFINE fd == m.fd
             c == connections[fd]
  <2>1. PICK opened \in BOOLEAN :
          Commit(fd, Outcome(Install(c, m, opened), NoTask, TRUE), sockets[fd])
    BY <1>3 DEF DeliverCompletion
  <2>2. /\ fd \in Open /\ Sound(c) /\ m.id = c.id
    BY <1>3 DEF Addressee, IInv, Core, Conns
  <2>3. c.responsePending /\ CompletionFor(m, c)
    BY <1>1, <2>2, FlyingParts DEF IInv, Core, Belongs, CompletionFor, Completion
  <2>4. /\ m.keepAlive = ~m.closeAfterWrite
        /\ m.keepAlive => c.last \in DOMAIN Request /\ AsksToStay(Request[c.last])
    BY <1>1, <2>2 DEF Meant
  <2> DEFINE d == Install(c, m, opened)
  <2>5. Promise(d) /\ Framing(d) /\ d.last = c.last
    BY <2>2, <2>3, <2>4, InstallLeft
  <2>6. d.id = c.id
    BY <2>2, <2>3, InstallFine
  <2>7. Close({fd}) \/ connections' = [connections EXCEPT ![fd] = d]
    BY <2>1 DEF Commit, Outcome
  <2> HIDE DEF m, d
  <2>8. CASE Close({fd})
    <3>1. connections' = [g \in Fd |-> IF g \in {fd} THEN NoConnection ELSE connections[g]]
      BY <2>8 DEF Close
    <3>2. Open' \subseteq Open /\ \A g \in Open' : connections'[g] = connections[g]
      BY <3>1 DEF Open
    <3> QED
      BY <1>1, <3>2, MeantSame
  <2>9. CASE connections' = [connections EXCEPT ![fd] = d]
    <3>1. /\ Open' \subseteq Open /\ connections'[fd] = d
          /\ \A g \in Open' : g # fd => connections'[g] = connections[g]
      BY <2>2, <2>9 DEF IInv, TypeOK, Open
    <3> QED
      BY <1>1, <2>2, <2>5, <2>6, <3>1, MeantUpdate DEF IInv, Core
  <2> QED
    BY <2>7, <2>8, <2>9
<1> QED
  BY <1>2, <1>3

LEMMA MeantEvent ==
  ASSUME IInv, IInv', Meant, NEW fd \in Fd, NEW events, HandleConnectionEvent(fd, events)
  PROVE  Meant'
<1>1. CASE HandleClosed(fd, events)
  BY <1>1, MeantClose DEF HandleClosed, poolVars, completionVars
<1>2. CASE HandleNothing(fd, events) \/ BeginRead(fd, events)
  BY <1>2, MeantSame, PoolSame
     DEF HandleNothing, BeginRead, clientVars, poolVars, completionVars, Open, Returning
<1>3. CASE WriteToConnection(fd, events)
  <2>1. fd \in Open /\ UNCHANGED <<completions, taken>> /\ Writing(connections[fd])
    BY <1>3 DEF WriteToConnection, Writable, completionVars
  <2>2. Promise(connections[fd]) /\ ~connections[fd].responsePending
    BY <2>1 DEF Meant, IInv, Core, Conns, Sound
  <2>3. \/ Close({fd}) /\ UNCHANGED poolVars
        \/ \E r, socket : Commit(fd, r, socket) /\ Lasting(fd, r) /\ Left(r, connections[fd])
    BY <1>3, <2>1, <2>2, WriteCases
  <2>4. CASE Close({fd}) /\ UNCHANGED poolVars
    BY <2>1, <2>4, MeantClose DEF poolVars
  <2>5. ASSUME NEW r, NEW socket, Commit(fd, r, socket), Lasting(fd, r),
               Left(r, connections[fd])
        PROVE  Meant'
    <3>1. r.conn # NoConnection /\ r.conn.id = connections[fd].id
      BY <2>5, Absent DEF Lasting, Sound
    <3> QED
      BY <2>1, <2>2, <2>5, <3>1, MeantCommit
  <2> QED
    BY <2>3, <2>4, <2>5
<1> QED
  BY <1>1, <1>2, <1>3 DEF HandleConnectionEvent

LEMMA MeantAccept ==
  ASSUME IInv, IInv', Meant, NEW fd \in Fd, NEW script \in Script, AcceptClient(fd, script)
  PROVE  Meant'
<1>1. Serving' = Serving /\ Returning' = Returning
  BY PoolSame DEF AcceptClient, poolVars, completionVars, Returning
<1>2. CASE UNCHANGED connections
  BY <1>1, <1>2, MeantSame DEF Open
<1>3. CASE connections' = [connections EXCEPT ![fd] = NewConnection(nextConnectionId)]
  <2> DEFINE d == NewConnection(nextConnectionId)
  <2>1. /\ Open' \subseteq Open \cup {fd} /\ connections'[fd] = d
        /\ \A g \in Open' : g # fd => connections'[g] = connections[g]
    BY <1>3 DEF IInv, TypeOK, Open
  <2>2. Promise(d) /\ Framing(d) /\ d.id = nextConnectionId
    <3>1. d.writeBuffer = NoResponse /\ d.requestBody = NoBody /\ d.id = nextConnectionId
      BY DEF NewConnection
    <3> QED
      BY <3>1, SilentKeeps
  <2>3. \A x \in Serving \cup Returning : x.id # nextConnectionId
    <3>1. nextConnectionId \in Nat /\ \A x \in Flying : x.id \in Nat /\ x.id < nextConnectionId
      BY FlyingIds DEF IInv, TypeOK, Core, Belongs
    <3> QED
      BY <3>1, FlyingParts
  <2> HIDE DEF d
  <2> QED
    BY <1>1, <2>1, <2>2, <2>3, MeantUpdate DEF IInv, Core
<1> QED
  BY <1>2, <1>3 DEF AcceptClient, clientVars

LEMMA MeantTime ==
  ASSUME IInv, IInv', Meant, NEW fd \in Fd, TimePasses(fd)
  PROVE  Meant'
<1> DEFINE c == connections[fd]
           d == [c EXCEPT !.idle = TRUE]
<1>1. /\ fd \in Open /\ connections' = [connections EXCEPT ![fd] = d]
      /\ Serving' = Serving /\ Returning' = Returning
  BY PoolSame DEF TimePasses, poolVars, completionVars, Returning
<1>2. c \in ConnectionType /\ Promise(c) /\ Framing(c)
  BY <1>1, OpenTypes DEF Meant, IInv
<1>3. /\ d.readBuffer = c.readBuffer /\ d.requestBody = c.requestBody /\ d.last = c.last
      /\ d.closeAfterWrite = c.closeAfterWrite /\ d.writeBuffer = c.writeBuffer /\ d.id = c.id
  BY <1>2 DEF ConnectionType
<1>4. /\ Open' \subseteq Open \cup {fd} /\ connections'[fd] = d
      /\ \A g \in Open' : g # fd => connections'[g] = connections[g]
  BY <1>1 DEF IInv, TypeOK, Open
<1> HIDE DEF d
<1>5. Promise(d) /\ Framing(d)
  BY <1>2, <1>3 DEF Promise, Framing
<1> QED
  BY <1>1, <1>3, <1>4, <1>5, MeantUpdate DEF IInv, Core

\* A worker serves what was queued.
LEMMA WorkerServes ==
  ASSUME IInv, NEW w \in Worker, TakeTask(w) \/ QueueResponse(w)
  PROVE  Serving' \subseteq Serving
<1>1. CASE TakeTask(w)
  <2>1. /\ held' = [held EXCEPT ![w] = Head(tasks)] /\ tasks' = Tail(tasks) /\ tasks # <<>>
    BY <1>1 DEF TakeTask, TQ!Take
  <2>2. tasks \in Seq(Task) /\ held \in [Worker -> Task \cup {NoTask}]
    BY DEF IInv, TypeOK
  <2>3. Range(tasks) = Range(tasks') \cup {Head(tasks)}
    BY <2>1, <2>2, FrontTaken
  <2>4. \A v \in Holding' : held'[v] = Head(tasks) \/ (v \in Holding /\ held'[v] = held[v])
    BY <2>1, <2>2 DEF Holding
  <2> QED
    BY <2>3, <2>4 DEF Serving
<1>2. CASE QueueResponse(w)
  <2>1. tasks' = tasks /\ held' = [held EXCEPT ![w] = NoTask]
    BY <1>2 DEF QueueResponse, TQ!Finish
  <2> QED
    BY <2>1 DEF IInv, TypeOK, Serving, Holding
<1> QED
  BY <1>1, <1>2

\* A worker computes a response from the request it took.
LEMMA MeantWorker ==
  ASSUME IInv, Meant, NEW w \in Worker, TakeTask(w) \/ QueueResponse(w)
  PROVE  Meant'
<1>1. CASE TakeTask(w)
  <2>1. connections' = connections /\ completions' = completions /\ taken' = taken
    BY <1>1 DEF TakeTask, clientVars, completionVars
  <2> QED
    BY <1>1, <2>1, WorkerServes, MeantSame DEF Open, Returning
<1>2. CASE QueueResponse(w)
  <2> DEFINE x == held[w]
             m == BuildResponse(x)
             kind == Parsed[x.kind]
  <2>1. /\ x # NoTask /\ tasks' = tasks /\ held' = [held EXCEPT ![w] = NoTask]
        /\ completions' = Append(completions, m) /\ taken' = taken
        /\ connections' = connections
    BY <1>2 DEF QueueResponse, TQ!Finish, clientVars
  <2>2. held \in [Worker -> Task \cup {NoTask}] /\ completions \in Seq(Completion) /\ x \in Task
    BY <2>1 DEF IInv, TypeOK
  <2>3. x \in Serving /\ Serving' \subseteq Serving
    BY <1>2, <2>1, WorkerServes DEF Serving, Holding
  <2>4. m \in Completion
    BY <1>2, CoreQueue DEF IInv, QueueResponse, clientVars, acceptVars
  <2>5. /\ m.id = x.id /\ m.keepAlive = (kind.keepAlive /\ ~kind.upgrade)
        /\ m.closeAfterWrite = (kind.upgrade \/ ~kind.keepAlive)
    BY DEF BuildResponse
  <2>6. x.kind \in DOMAIN Request /\ kind.keepAlive \in BOOLEAN /\ kind.upgrade \in BOOLEAN
    BY <2>2, ParsedType DEF Task, KindType
  <2>7. m.keepAlive = ~m.closeAfterWrite
    BY <2>5, <2>6
  <2>8. m.keepAlive => AsksToStay(Request[x.kind])
    BY <2>5, <2>6, HeadMeaning
  <2>9. \A fd \in Open : m.id = connections[fd].id /\ m.keepAlive =>
          connections[fd].last \in DOMAIN Request /\ AsksToStay(Request[connections[fd].last])
    BY <2>3, <2>5, <2>6, <2>8 DEF Meant
  <2> HIDE DEF m
  <2>10. Returning' = Returning \cup {m}
    BY <2>1, <2>2, <2>4, Appended DEF Returning
  <2>11. Open' = Open
    BY <2>1 DEF Open
  <2>12. \A g \in Returning' : g \in Returning \/ g = m
    BY <2>10
  <2> QED
    BY <2>1, <2>3, <2>7, <2>9, <2>11, <2>12 DEF Meant, Framed
<1> QED
  BY <1>1, <1>2

LEMMA MeantKept == IInv /\ Meant /\ [Next]_vars => Meant'
<1> SUFFICES ASSUME IInv, Meant, [Next]_vars PROVE Meant'
  OBVIOUS
<1>0. IInv'
  BY StepKeeps
<1>1. CASE UNCHANGED <<connections, tasks, held, completions, taken>>
  BY <1>1, MeantSame, PoolSame DEF Open, Returning
<1>2. CASE CloseIdleConnections \/ CloseAllConnections \/ RecvFails
  BY <1>2, MeantClose
     DEF CloseIdleConnections, CloseAllConnections, RecvFails, poolVars, completionVars
<1>3. CASE Recv \/ DeliverCompletion
  BY <1>0, <1>3, MeantRecv, MeantDeliver
<1>4. CASE \E fd \in Fd, script \in Script : AcceptClient(fd, script)
  BY <1>0, <1>4, MeantAccept
<1>5. CASE \E e \in batch : e[1] \in Fd /\ HandleConnectionEvent(e[1], e[2])
  BY <1>0, <1>5, MeantEvent
<1>6. CASE \E fd \in Fd : TimePasses(fd)
  BY <1>0, <1>6, MeantTime
<1>7. CASE SwapCompletions
  <2>1. /\ connections' = connections /\ tasks' = tasks /\ held' = held
        /\ taken' = completions /\ completions' = <<>>
    BY <1>7 DEF SwapCompletions, clientVars, poolVars
  <2>2. Returning' \subseteq Returning
    <3>1. Range(<<>>) = {}
      BY DEF Range
    <3> QED
      BY <2>1, <3>1 DEF Returning
  <2> QED
    BY <2>1, <2>2, MeantSame, PoolSame DEF Open
<1>8. CASE LoopStep
  BY <1>1, <1>2, <1>3, <1>4, <1>5, <1>7, <1>8
     DEF LoopStep, EpollWait, BatchDone, SkipScan, BeginAccept, EndAccept, EndDeliver,
         RecvWouldBlock, clientVars, poolVars, completionVars
<1>9. CASE ClientSteps
  BY <1>1, <1>6, <1>9
     DEF ClientSteps, Connect, Send, Receive, HalfClose, Reset, ClientStep, clientVars,
         poolVars, completionVars
<1>10. CASE WorkerStep
  BY <1>10, MeantWorker DEF WorkerStep
<1>11. CASE Stop \/ DestroyPool \/ Finished \/ UNCHANGED vars
  BY <1>1, <1>11
     DEF Stop, DestroyPool, TQ!Stop, Finished, vars, clientVars, poolVars, completionVars
<1> QED
  BY <1>8, <1>9, <1>10, <1>11 DEF Next

LEMMA MeantFirst == Init => Meant
<1> SUFFICES ASSUME Init PROVE Meant
  OBVIOUS
<1>1. Open = {} /\ Serving = {} /\ Returning = {}
  BY DEF Init, TQ!Init, Open, Serving, Returning, Holding, Range
<1> QED
  BY <1>1 DEF Meant

\* What the Connection header of a response says is what becomes of the
\* connection, and no client is kept that did not ask for it, whatever its
\* headers are.
THEOREM PromisesKept == SafetySpec => []KeepsConnectionPromise
<1>1. Meant => KeepsConnectionPromise
  BY DEF Meant, Promise, KeepsConnectionPromise
<1> QED
  BY <1>1, Inductive, MeantFirst, MeantKept, PTL DEF SafetySpec

----------------------------------------------------------------------------
(* A body is made of the bytes that its client sent as a body: the buffer,  *)
(* the socket and what is yet to be sent are consecutive parts of a script. *)

Follows(s, script, m) == \A i \in 1 .. Len(s) : m + i \in DOMAIN script /\ s[i] = script[m + i]

Consecutive(buffer, inbox, stream) ==
  \E script \in Script, m \in Nat :
    /\ Follows(buffer, script, m)
    /\ Follows(inbox, script, m + Len(buffer))
    /\ Follows(stream, script, m + Len(buffer) + Len(inbox))

Streams ==
  \A fd \in Open : Consecutive(connections[fd].readBuffer, sockets[fd].inbox, sockets[fd].stream)

\* The client sends the body that its head announces, as far as it sends one.
Aligned(script) ==
  \A i \in DOMAIN script :
    script[i] \in DOMAIN Request /\ Parsed[script[i]].wellFormed =>
      \A j \in DOMAIN script : i < j /\ j <= i + BodyOf(script[i]) => script[j] = "b"

OnlyBody(x) == \A i \in DOMAIN x.body : x.body[i] = "b"

LEMMA FollowsPart ==
  ASSUME NEW s \in Seq(Token), NEW script, NEW m \in Nat, Follows(s, script, m),
         NEW k \in Nat, NEW n \in Nat, k <= n, n <= Len(s)
  PROVE  Follows(SubSeq(s, k + 1, n), script, m + k)
<1> DEFINE t == SubSeq(s, k + 1, n)
<1>1. Len(t) = n - k /\ \A i \in 1 .. n - k : t[i] = s[k + i]
  BY Slice
<1> HIDE DEF t
<1>2. \A i \in 1 .. n - k : k + i \in 1 .. Len(s) /\ m + (k + i) = m + k + i
  BY LenProperties
<1> QED
  BY <1>1, <1>2 DEF Follows, t

LEMMA FollowsBoth ==
  ASSUME NEW s \in Seq(Token), NEW t \in Seq(Token), NEW script, NEW m \in Nat,
         Follows(s, script, m), Follows(t, script, m + Len(s))
  PROVE  Follows(s \o t, script, m)
<1> DEFINE u == s \o t
           k == Len(s)
           n == Len(t)
<1>1. /\ k \in Nat /\ n \in Nat /\ Len(u) = k + n
      /\ \A i \in 1 .. k + n : u[i] = IF i <= k THEN s[i] ELSE t[i - k]
  BY LenProperties, ConcatProperties
<1>2. /\ \A i \in 1 .. k : m + i \in DOMAIN script /\ s[i] = script[m + i]
      /\ \A i \in 1 .. n : m + k + i \in DOMAIN script /\ t[i] = script[m + k + i]
  BY DEF Follows
<1> HIDE DEF u, k, n
<1>3. ASSUME NEW i \in 1 .. k + n PROVE m + i \in DOMAIN script /\ u[i] = script[m + i]
  <2>1. CASE i <= k
    <3>1. i \in 1 .. k /\ u[i] = s[i]
      BY <1>1, <2>1
    <3> QED
      BY <1>2, <3>1
  <2>2. CASE ~(i <= k)
    <3>1. i - k \in 1 .. n /\ u[i] = t[i - k] /\ m + k + (i - k) = m + i
      BY <1>1, <2>2
    <3>2. m + k + (i - k) \in DOMAIN script /\ t[i - k] = script[m + k + (i - k)]
      BY <1>2, <3>1
    <3> QED
      BY <3>1, <3>2
  <2> QED
    BY <2>1, <2>2
<1> QED
  BY <1>1, <1>3 DEF Follows, u

LEMMA FollowsNext ==
  ASSUME NEW inbox \in Seq(Token), NEW stream \in Seq(Token), stream # <<>>, NEW script,
         NEW p \in Nat, Follows(inbox, script, p), Follows(stream, script, p + Len(inbox))
  PROVE  /\ Follows(Append(inbox, Head(stream)), script, p)
         /\ Follows(Tail(stream), script, p + Len(Append(inbox, Head(stream))))
<1> DEFINE h == Head(stream)
           t == Tail(stream)
           u == Append(inbox, h)
           k == Len(inbox)
           n == Len(stream)
<1>1. /\ k \in Nat /\ n \in Nat \ {0} /\ h = stream[1] /\ Len(t) = n - 1
      /\ \A i \in 1 .. Len(t) : t[i] = stream[i + 1]
      /\ Len(u) = k + 1 /\ u[k + 1] = h /\ \A i \in 1 .. k : u[i] = inbox[i]
  BY LenProperties, EmptySeq, HeadTailProperties, AppendProperties
<1>2. /\ \A i \in 1 .. k : p + i \in DOMAIN script /\ inbox[i] = script[p + i]
      /\ \A i \in 1 .. n : p + k + i \in DOMAIN script /\ stream[i] = script[p + k + i]
  BY DEF Follows
<1> HIDE DEF h, t, u, k, n
<1>3. Follows(u, script, p)
  <2>1. ASSUME NEW i \in 1 .. k + 1 PROVE p + i \in DOMAIN script /\ u[i] = script[p + i]
    <3>1. CASE i \in 1 .. k
      BY <1>1, <1>2, <3>1
    <3>2. CASE i = k + 1
      <4>1. 1 \in 1 .. n /\ p + k + 1 = p + (k + 1)
        BY <1>1
      <4>2. p + k + 1 \in DOMAIN script /\ stream[1] = script[p + k + 1]
        BY <1>2, <4>1
      <4> QED
        BY <1>1, <3>2, <4>1, <4>2
    <3>3. i \in 1 .. k \/ i = k + 1
      BY <1>1
    <3> QED
      BY <3>1, <3>2, <3>3
  <2> QED
    BY <1>1, <2>1 DEF Follows
<1>4. Follows(t, script, p + Len(u))
  <2>1. ASSUME NEW i \in 1 .. n - 1
        PROVE  p + (k + 1) + i \in DOMAIN script /\ t[i] = script[p + (k + 1) + i]
    <3>1. i + 1 \in 1 .. n /\ p + k + (i + 1) = p + (k + 1) + i
      BY <1>1
    <3>2. p + k + (i + 1) \in DOMAIN script /\ stream[i + 1] = script[p + k + (i + 1)]
      BY <1>2, <3>1
    <3> QED
      BY <1>1, <3>1, <3>2
  <2> QED
    BY <1>1, <2>1 DEF Follows
<1> QED
  BY <1>3, <1>4 DEF t, u, h

\* recv moves what the socket holds into the buffer.
LEMMA ConsecutiveRecv ==
  ASSUME NEW buffer \in Seq(Token), NEW inbox \in Seq(Token), NEW stream \in Seq(Token),
         Consecutive(buffer, inbox, stream), NEW k \in Nat, k <= Len(inbox)
  PROVE  Consecutive(buffer \o SubSeq(inbox, 1, k), SubSeq(inbox, k + 1, Len(inbox)), stream)
<1> DEFINE bytes == SubSeq(inbox, 1, k)
           rest == SubSeq(inbox, k + 1, Len(inbox))
<1>1. PICK script \in Script, m \in Nat :
        /\ Follows(buffer, script, m)
        /\ Follows(inbox, script, m + Len(buffer))
        /\ Follows(stream, script, m + Len(buffer) + Len(inbox))
  BY DEF Consecutive
<1>2. Len(buffer) \in Nat /\ Len(inbox) \in Nat /\ m + Len(buffer) \in Nat
  BY LenProperties
<1>3. bytes \in Seq(Token) /\ Len(bytes) = k /\ Len(rest) = Len(inbox) - k
  <2>1. Len(SubSeq(inbox, 0 + 1, k)) = k - 0
    BY <1>2, Slice
  <2>2. 0 + 1 = 1 /\ k - 0 = k
    OBVIOUS
  <2>3. Len(bytes) = k
    BY <2>1, <2>2
  <2> QED
    BY <1>2, <2>3, Slice, Slices
<1>4. Follows(bytes, script, m + Len(buffer))
  <2>1. Follows(SubSeq(inbox, 0 + 1, k), script, m + Len(buffer) + 0)
    BY <1>1, <1>2, FollowsPart
  <2>2. 0 + 1 = 1 /\ m + Len(buffer) + 0 = m + Len(buffer)
    BY <1>2
  <2> QED
    BY <2>1, <2>2
<1>5. Follows(rest, script, m + Len(buffer) + k)
  <2> DEFINE n == Len(inbox)
             a == m + Len(buffer)
  <2>1. a \in Nat /\ n \in Nat /\ k <= n /\ Follows(inbox, script, a)
    BY <1>1, <1>2
  <2> HIDE DEF n, a
  <2>2. Follows(SubSeq(inbox, k + 1, n), script, a + k)
    BY <2>1, FollowsPart DEF n
  <2> QED
    BY <2>2 DEF n, a
<1> DEFINE u == buffer \o bytes
<1> HIDE DEF bytes, rest
<1>6. Follows(u, script, m) /\ Len(u) = Len(buffer) + k
  <2>1. Follows(u, script, m)
    BY <1>1, <1>3, <1>4, FollowsBoth
  <2>2. Len(u) = Len(buffer) + Len(bytes)
    BY <1>3, ConcatProperties
  <2> QED
    BY <1>3, <2>1, <2>2
<1> HIDE DEF u
<1>7. m + Len(u) = m + Len(buffer) + k /\ m + Len(u) + Len(rest) = m + Len(buffer) + Len(inbox)
  BY <1>2, <1>3, <1>6
<1>8. Consecutive(u, rest, stream)
  BY <1>1, <1>5, <1>6, <1>7 DEF Consecutive
<1> QED
  BY <1>8 DEF bytes, rest, u

\* A handler takes a request from the front of the buffer.
LEMMA ConsecutiveEnd ==
  ASSUME NEW buffer \in Seq(Token), NEW inbox, NEW stream,
         Consecutive(buffer, inbox, stream), NEW rest, EndOf(rest, buffer)
  PROVE  Consecutive(rest, inbox, stream)
<1>1. PICK script \in Script, m \in Nat :
        /\ Follows(buffer, script, m)
        /\ Follows(inbox, script, m + Len(buffer))
        /\ Follows(stream, script, m + Len(buffer) + Len(inbox))
  BY DEF Consecutive
<1>2. PICK d \in 0 .. Len(buffer) :
        Len(rest) = Len(buffer) - d /\ \A i \in 1 .. Len(rest) : rest[i] = buffer[d + i]
  BY DEF EndOf
<1>3. Len(buffer) \in Nat /\ d \in Nat /\ d <= Len(buffer) /\ Len(rest) \in Nat
  BY <1>2, LenProperties
<1>4. m + d \in Nat /\ m + d + Len(rest) = m + Len(buffer)
  BY <1>2, <1>3
<1>5. Follows(rest, script, m + d)
  <2>1. \A i \in 1 .. Len(rest) : d + i \in 1 .. Len(buffer) /\ m + (d + i) = m + d + i
    BY <1>2, <1>3
  <2> QED
    BY <1>1, <1>2, <2>1 DEF Follows
<1> QED
  BY <1>1, <1>4, <1>5 DEF Consecutive

\* What the client has still to send arrives, or never will.
LEMMA ConsecutiveSend ==
  ASSUME NEW buffer \in Seq(Token), NEW inbox \in Seq(Token), NEW stream \in Seq(Token),
         Consecutive(buffer, inbox, stream)
  PROVE  /\ stream # <<>> => Consecutive(buffer, Append(inbox, Head(stream)), Tail(stream))
         /\ Consecutive(buffer, inbox, <<>>) /\ Consecutive(buffer, <<>>, <<>>)
<1>1. PICK script \in Script, m \in Nat :
        /\ Follows(buffer, script, m)
        /\ Follows(inbox, script, m + Len(buffer))
        /\ Follows(stream, script, m + Len(buffer) + Len(inbox))
  BY DEF Consecutive
<1>2. m + Len(buffer) \in Nat
  BY LenProperties
<1>3. \A p : Follows(<<>>, script, p)
  BY DEF Follows
<1>4. Consecutive(buffer, inbox, <<>>) /\ Consecutive(buffer, <<>>, <<>>)
  BY <1>1, <1>3 DEF Consecutive
<1>5. ASSUME stream # <<>> PROVE Consecutive(buffer, Append(inbox, Head(stream)), Tail(stream))
  <2> DEFINE u == Append(inbox, Head(stream))
             t == Tail(stream)
  <2>1. Follows(u, script, m + Len(buffer)) /\ Follows(t, script, m + Len(buffer) + Len(u))
    BY <1>1, <1>2, <1>5, FollowsNext
  <2> HIDE DEF u, t
  <2>2. Consecutive(buffer, u, t)
    BY <1>1, <2>1 DEF Consecutive
  <2> QED
    BY <2>2 DEF u, t
<1> QED
  BY <1>4, <1>5

LEMMA ConsecutiveNew == \A script \in Script : Consecutive(<<>>, <<>>, script)
<1> SUFFICES ASSUME NEW script \in Script PROVE Consecutive(<<>>, <<>>, script)
  OBVIOUS
<1>1. script \in Seq(Token)
  BY ServerAssumption
<1>2. Len(<<>>) = 0 /\ 0 + 0 = 0 /\ 0 + 0 + 0 = 0
  OBVIOUS
<1>3. Follows(script, script, 0)
  <2>1. \A i \in 1 .. Len(script) : 0 + i = i /\ i \in DOMAIN script
    BY <1>1, LenProperties
  <2> QED
    BY <2>1 DEF Follows
<1>4. Follows(<<>>, script, 0)
  BY DEF Follows
<1> DEFINE e == <<>>
<1>5. Follows(e, script, 0) /\ Len(e) = 0
  BY <1>2, <1>4
<1> HIDE DEF e
<1>6. 0 + Len(e) = 0 /\ 0 + Len(e) + Len(e) = 0
  BY <1>5
<1>7. Consecutive(e, e, script)
  BY <1>3, <1>5, <1>6 DEF Consecutive
<1> QED
  BY <1>7 DEF e

\* What is cut from the buffer after a header is the body that follows it.
LEMMA CutIsBody ==
  ASSUME \A script \in Script : Aligned(script),
         NEW buffer \in Seq(Token), NEW inbox, NEW stream, Consecutive(buffer, inbox, stream),
         NEW x \in SubmissionType, CutFrom(buffer, x.kind, x.body)
  PROVE  OnlyBody(x)
<1> DEFINE kind == x.kind
           body == x.body
           l == BodyOf(kind)
<1>1. PICK script \in Script, m \in Nat : Follows(buffer, script, m)
  BY DEF Consecutive
<1>2. PICK h \in 1 .. Len(buffer) :
        /\ buffer[h] = kind /\ Parsed[kind].wellFormed
        /\ Len(body) = l /\ h + l <= Len(buffer)
        /\ \A i \in 1 .. Len(body) : body[i] = buffer[h + i]
  BY DEF CutFrom
<1>3. kind \in DOMAIN Request /\ body \in Seq(Token) /\ Len(buffer) \in Nat /\ Len(body) \in Nat
      /\ DOMAIN body = 1 .. Len(body)
  BY LenProperties DEF SubmissionType
<1>4. \A i \in 1 .. Len(buffer) : m + i \in DOMAIN script /\ buffer[i] = script[m + i]
  BY <1>1 DEF Follows
<1>5. m + h \in DOMAIN script /\ script[m + h] = kind
  BY <1>2, <1>4
<1>6. \A j \in DOMAIN script : m + h < j /\ j <= m + h + l => script[j] = "b"
  BY <1>2, <1>3, <1>5 DEF Aligned
<1> HIDE DEF l, body, kind
<1>7. ASSUME NEW i \in 1 .. Len(body) PROVE body[i] = "b"
  <2>1. /\ h + i \in 1 .. Len(buffer) /\ m + (h + i) \in Nat
        /\ m + h < m + (h + i) /\ m + (h + i) <= m + h + l
    BY <1>2, <1>3
  <2>2. body[i] = buffer[h + i] /\ buffer[h + i] = script[m + (h + i)]
        /\ m + (h + i) \in DOMAIN script
    BY <1>2, <1>4, <2>1
  <2> QED
    BY <1>6, <2>1, <2>2
<1> QED
  BY <1>3, <1>7 DEF OnlyBody, body

Bodies == \A x \in Serving : OnlyBody(x)

LEMMA BytesSame ==
  ASSUME Streams, Bodies, Open' \subseteq Open, Serving' \subseteq Serving,
         \A fd \in Open' : connections'[fd] = connections[fd] /\ sockets'[fd] = sockets[fd]
  PROVE  Streams' /\ Bodies'
BY DEF Streams, Bodies

LEMMA BytesClose ==
  ASSUME Streams, Bodies, NEW fds, Close(fds), UNCHANGED <<tasks, held>>
  PROVE  Streams' /\ Bodies'
<1>1. /\ connections' = [fd \in Fd |-> IF fd \in fds THEN NoConnection ELSE connections[fd]]
      /\ sockets' = [fd \in Fd |-> IF fd \in fds THEN NoSocket ELSE sockets[fd]]
  BY DEF Close
<1>2. /\ Open' \subseteq Open
      /\ \A fd \in Open' : connections'[fd] = connections[fd] /\ sockets'[fd] = sockets[fd]
  BY <1>1 DEF Open
<1> QED
  BY <1>2, BytesSame, PoolSame

\* One connection and its socket change.
LEMMA BytesUpdate ==
  ASSUME TypeOK, Streams, NEW fd \in Open, NEW c, NEW socket,
         connections' = [connections EXCEPT ![fd] = c],
         sockets' = [sockets EXCEPT ![fd] = socket],
         Consecutive(c.readBuffer, socket.inbox, socket.stream)
  PROVE  Streams'
<1>1. /\ Open' \subseteq Open
      /\ connections'[fd] = c /\ sockets'[fd] = socket
      /\ \A g \in Open : g # fd => connections'[g] = connections[g] /\ sockets'[g] = sockets[g]
  BY DEF TypeOK, Open
<1> QED
  BY <1>1 DEF Streams

LEMMA BytesCommit ==
  ASSUME \A script \in Script : Aligned(script),
         IInv, Streams, Bodies, NEW fd \in Open,
         NEW r, NEW socket, Commit(fd, r, socket),
         NEW c \in ConnectionType, Left(r, c),
         Consecutive(c.readBuffer, socket.inbox, socket.stream),
         r.submit = NoTask \/ (r.submit \in SubmissionType /\ r.conn \in ConnectionType)
  PROVE  Streams' /\ Bodies'
<1> DEFINE job == Job(fd, r.conn, r.submit)
<1>1. CASE Close({fd}) /\ UNCHANGED poolVars
  BY <1>1, BytesClose DEF poolVars
<1>2. CASE /\ connections' = [connections EXCEPT ![fd] = r.conn]
           /\ sockets' = [sockets EXCEPT ![fd] = socket]
           /\ IF r.submit = NoTask THEN UNCHANGED poolVars ELSE TQ!Enqueue(job)
  <2>1. Consecutive(r.conn.readBuffer, socket.inbox, socket.stream)
    BY ConsecutiveEnd DEF Left, ConnectionType
  <2>2. Streams'
    BY <1>2, <2>1, BytesUpdate DEF IInv
  <2>3. CASE r.submit = NoTask
    BY <1>2, <2>2, <2>3, PoolSame DEF Bodies, poolVars
  <2>4. CASE r.submit # NoTask
    <3>1. OnlyBody(r.submit)
      <4> DEFINE x == r.submit
                 buffer == c.readBuffer
      <4>1. x \in SubmissionType /\ CutFrom(buffer, x.kind, x.body)
        BY <2>4 DEF Left
      <4>2. buffer \in Seq(Token) /\ Consecutive(buffer, socket.inbox, socket.stream)
        BY DEF ConnectionType
      <4> HIDE DEF x, buffer
      <4>3. OnlyBody(x)
        BY <4>1, <4>2, CutIsBody
      <4> QED
        BY <4>3 DEF x
    <3>2. OnlyBody(job)
      BY <3>1 DEF OnlyBody, Job
    <3>3. job \in Task
      BY <2>4, OpenTypes DEF IInv, Job, Task, SubmissionType, ConnectionType
    <3> HIDE DEF job
    <3>4. tasks' = Append(tasks, job) /\ held' = held /\ tasks \in Seq(Task)
      BY <1>2, <2>4 DEF TQ!Enqueue, IInv, TypeOK
    <3>5. Range(tasks') = Range(tasks) \cup {job}
      BY <3>3, <3>4, Appended
    <3> QED
      BY <2>2, <3>2, <3>4, <3>5 DEF Bodies, Serving, Holding
  <2> QED
    BY <2>3, <2>4
<1> QED
  BY <1>1, <1>2 DEF Commit

LEMMA BytesRecv ==
  ASSUME \A script \in Script : Aligned(script), IInv, Meant, Streams, Bodies, Recv
  PROVE  Streams' /\ Bodies'
<1> DEFINE s == sockets[current]
           k == IF Len(s.inbox) < Chunk THEN Len(s.inbox) ELSE Chunk
           bytes == SubSeq(s.inbox, 1, k)
           rest == SubSeq(s.inbox, k + 1, Len(s.inbox))
           b == connections[current]
           c == [b EXCEPT !.readBuffer = @ \o bytes, !.idle = FALSE]
           r == AfterRecv(c, TQ!Accepts)
           t == [s EXCEPT !.inbox = SubSeq(@, k + 1, Len(@))]
<1>1. current \in Open /\ Commit(current, r, t) /\ b.interest = "read"
  BY DEF Recv, IInv, Loop
<1>2. s \in Socket /\ Sound(b) /\ Framing(b) /\ b \in ConnectionType
      /\ Consecutive(b.readBuffer, s.inbox, s.stream)
  BY <1>1, OpenTypes DEF IInv, Core, Conns, Meant, Streams
<1>3. s.inbox \in Seq(Token) /\ s.stream \in Seq(Token) /\ b.readBuffer \in Seq(Token)
  BY <1>2 DEF Socket, ConnectionType
<1>4. k \in Nat /\ k <= Len(s.inbox)
  BY <1>3, LenProperties, ServerAssumption
<1> HIDE DEF k
<1>5. bytes \in Seq(Token)
  BY <1>3, <1>4, Slices
<1>6. Consecutive(b.readBuffer \o bytes, rest, s.stream)
  BY <1>2, <1>3, <1>4, ConsecutiveRecv
<1>7. c.readBuffer = b.readBuffer \o bytes /\ t.inbox = rest /\ t.stream = s.stream
  BY <1>2 DEF ConnectionType, Socket
<1>8. c = [b EXCEPT !.readBuffer = @ \o bytes, !.idle = FALSE]
  OBVIOUS
<1> HIDE DEF bytes, rest, b, c, t, s
<1>9. Ready(c) /\ c.interest = "read"
  BY <1>1, <1>2, <1>5, <1>8, ReceivedReady, Zenon
<1>10. Framing(c)
  BY <1>2, <1>5, <1>8, ReceivedFraming
<1>11. Left(r, c) /\ Fine(r, c)
  BY <1>9, <1>10, AfterRecvLeft, AfterRecvFine
<1> HIDE DEF r
<1>12. r.submit = NoTask \/ (r.submit \in SubmissionType /\ r.conn \in ConnectionType)
  BY <1>11 DEF Fine, Sound
<1>13. Consecutive(c.readBuffer, t.inbox, t.stream) /\ c \in ConnectionType
  BY <1>6, <1>7, <1>9 DEF Ready
<1> QED
  BY <1>1, <1>11, <1>12, <1>13, BytesCommit

LEMMA BytesDeliver ==
  ASSUME IInv, Streams, Bodies, DeliverCompletion
  PROVE  Streams' /\ Bodies'
<1> DEFINE m == Head(taken)
           fd == m.fd
           c == connections[fd]
<1>1. UNCHANGED <<tasks, held>>
  BY DEF DeliverCompletion, Commit, Outcome, poolVars
<1>2. CASE ~Addressee(m)
  <2>1. UNCHANGED <<connections, sockets>>
    BY <1>2 DEF DeliverCompletion, clientVars
  <2> QED
    BY <1>1, <2>1, BytesSame, PoolSame DEF Open
<1>3. CASE Addressee(m)
  <2>1. PICK opened \in BOOLEAN :
          Commit(fd, Outcome(Install(c, m, opened), NoTask, TRUE), sockets[fd])
    BY <1>3 DEF DeliverCompletion
  <2> DEFINE d == Install(c, m, opened)
  <2>2. fd \in Open /\ c \in ConnectionType
    BY <1>3, OpenTypes DEF Addressee, IInv
  <2>3. d.readBuffer = c.readBuffer
    BY <2>2 DEF Install, Respond, ConnectionType
  <2>4. \/ Close({fd})
        \/ /\ connections' = [connections EXCEPT ![fd] = d]
           /\ sockets' = [sockets EXCEPT ![fd] = sockets[fd]]
    BY <2>1 DEF Commit, Outcome
  <2> HIDE DEF m, d
  <2>5. Consecutive(d.readBuffer, sockets[fd].inbox, sockets[fd].stream)
    BY <2>2, <2>3 DEF Streams
  <2>6. CASE Close({fd})
    BY <1>1, <2>6, BytesClose
  <2>7. CASE /\ connections' = [connections EXCEPT ![fd] = d]
             /\ sockets' = [sockets EXCEPT ![fd] = sockets[fd]]
    BY <1>1, <2>2, <2>5, <2>7, BytesUpdate, PoolSame DEF IInv, Bodies
  <2> QED
    BY <2>4, <2>6, <2>7
<1> QED
  BY <1>2, <1>3

LEMMA BytesEvent ==
  ASSUME \A script \in Script : Aligned(script), IInv, Meant, Streams, Bodies,
         NEW fd \in Fd, NEW events, HandleConnectionEvent(fd, events)
  PROVE  Streams' /\ Bodies'
<1>1. CASE HandleClosed(fd, events)
  BY <1>1, BytesClose DEF HandleClosed, poolVars
<1>2. CASE HandleNothing(fd, events) \/ BeginRead(fd, events)
  BY <1>2, BytesSame, PoolSame DEF HandleNothing, BeginRead, clientVars, poolVars, Open
<1>3. CASE WriteToConnection(fd, events)
  <2> DEFINE b == connections[fd]
  <2>1. fd \in Open
    BY <1>3 DEF WriteToConnection, Writable
  <2>2. Promise(b) /\ b \in ConnectionType
        /\ Consecutive(b.readBuffer, sockets[fd].inbox, sockets[fd].stream)
    BY <2>1, OpenTypes DEF IInv, Meant, Streams
  <2>3. \/ Close({fd}) /\ UNCHANGED poolVars
        \/ \E r, socket : /\ Commit(fd, r, socket) /\ Lasting(fd, r) /\ Left(r, b)
                          /\ socket.inbox = sockets[fd].inbox
                          /\ socket.stream = sockets[fd].stream
    BY <1>3, <2>1, <2>2, WriteCases
  <2> HIDE DEF b
  <2>4. CASE Close({fd}) /\ UNCHANGED poolVars
    BY <2>4, BytesClose DEF poolVars
  <2>5. ASSUME NEW r, NEW socket, Commit(fd, r, socket), Lasting(fd, r), Left(r, b),
               socket.inbox = sockets[fd].inbox, socket.stream = sockets[fd].stream
        PROVE  Streams' /\ Bodies'
    <3>1. r.submit = NoTask \/ (r.submit \in SubmissionType /\ r.conn \in ConnectionType)
      BY <2>5 DEF Lasting, Sound
    <3>2. Consecutive(b.readBuffer, socket.inbox, socket.stream)
      BY <2>2, <2>5
    <3> QED
      BY <2>1, <2>2, <2>5, <3>1, <3>2, BytesCommit
  <2> QED
    BY <2>3, <2>4, <2>5
<1> QED
  BY <1>1, <1>2, <1>3 DEF HandleConnectionEvent

LEMMA BytesAccept ==
  ASSUME IInv, Streams, Bodies, NEW fd \in Fd, NEW script \in Script, AcceptClient(fd, script)
  PROVE  Streams' /\ Bodies'
<1>1. UNCHANGED <<tasks, held>>
  BY DEF AcceptClient, poolVars
<1>2. CASE UNCHANGED clientVars
  BY <1>1, <1>2, BytesSame, PoolSame DEF clientVars, Open
<1>3. CASE /\ connections' = [connections EXCEPT ![fd] = NewConnection(nextConnectionId)]
           /\ sockets' = [sockets EXCEPT ![fd] = NewSocket(script)]
  <2> DEFINE c == NewConnection(nextConnectionId)
             socket == NewSocket(script)
  <2>1. c.readBuffer = <<>> /\ socket.inbox = <<>> /\ socket.stream = script
    BY DEF NewConnection, NewSocket
  <2>2. Consecutive(c.readBuffer, socket.inbox, socket.stream)
    BY <2>1, ConsecutiveNew
  <2> HIDE DEF c, socket
  <2>3. /\ Open' \subseteq Open \cup {fd} /\ connections'[fd] = c /\ sockets'[fd] = socket
        /\ \A g \in Open' : g # fd => connections'[g] = connections[g] /\ sockets'[g] = sockets[g]
    BY <1>3 DEF IInv, TypeOK, Open, c, socket
  <2>4. Streams'
    BY <2>2, <2>3 DEF Streams
  <2> QED
    BY <1>1, <2>4, PoolSame DEF Bodies
<1> QED
  BY <1>2, <1>3 DEF AcceptClient

\* The clients and the clock.
LEMMA BytesClient ==
  ASSUME IInv, Streams, Bodies, NEW fd \in Fd,
         Send(fd) \/ Receive(fd) \/ HalfClose(fd) \/ Reset(fd) \/ TimePasses(fd)
  PROVE  Streams' /\ Bodies'
<1> DEFINE s == sockets[fd]
           c == connections[fd]
<1>1. UNCHANGED <<tasks, held>>
  BY DEF Send, Receive, HalfClose, Reset, TimePasses, ClientStep, poolVars
<1>2. Bodies'
  BY <1>1, PoolSame DEF Bodies
<1>3. CASE TimePasses(fd)
  <2> DEFINE d == [c EXCEPT !.idle = TRUE]
  <2>1. /\ fd \in Open /\ connections' = [connections EXCEPT ![fd] = d] /\ sockets' = sockets
    BY <1>3 DEF TimePasses
  <2>2. d.readBuffer = c.readBuffer
    BY <2>1, OpenTypes DEF IInv, ConnectionType
  <2> HIDE DEF d
  <2>3. /\ Open' \subseteq Open /\ connections'[fd] = d
        /\ \A g \in Open : g # fd => connections'[g] = connections[g]
    BY <2>1 DEF IInv, TypeOK, Open
  <2> QED
    BY <1>2, <2>1, <2>2, <2>3 DEF Streams
<1>4. CASE ~TimePasses(fd)
  <2>1. fd \in Open
    BY <1>4 DEF Send, Receive, HalfClose, Reset, Alive, TypeOK, IInv, Open
  <2>2. /\ s \in Socket /\ c \in ConnectionType /\ Consecutive(c.readBuffer, s.inbox, s.stream)
    BY <2>1, OpenTypes DEF IInv, Streams
  <2>3. /\ s.inbox \in Seq(Token) /\ s.stream \in Seq(Token) /\ c.readBuffer \in Seq(Token)
    BY <2>2 DEF Socket, ConnectionType
  <2>4. PICK t : /\ ClientStep(fd, t)
                 /\ \/ /\ s.stream # <<>> /\ t.inbox = Append(s.inbox, Head(s.stream))
                       /\ t.stream = Tail(s.stream)
                    \/ t.inbox = s.inbox /\ t.stream = s.stream
                    \/ t.inbox = s.inbox /\ t.stream = <<>>
                    \/ t.inbox = <<>> /\ t.stream = <<>>
    <3> HIDE DEF s
    <3>1. CASE Send(fd)
      <4> DEFINE h == Append(s.inbox, Head(s.stream))
                 rest == Tail(s.stream)
                 t == [s EXCEPT !.inbox = h, !.stream = rest]
      <4>1. ClientStep(fd, t) /\ s.stream # <<>>
        BY <3>1 DEF Send, s
      <4> HIDE DEF h, rest
      <4>2. t.inbox = h /\ t.stream = rest
        BY <2>2 DEF Socket
      <4> QED
        BY <4>1, <4>2 DEF h, rest
    <3>2. CASE Receive(fd)
      BY <2>2, <3>2 DEF Receive, Socket, s
    <3> DEFINE e == <<>>
    <3>3. CASE HalfClose(fd)
      <4> DEFINE t == [s EXCEPT !.fin = TRUE, !.stream = e]
      <4>1. ClientStep(fd, t)
        BY <3>3 DEF HalfClose, s
      <4> HIDE DEF e
      <4>2. t.inbox = s.inbox /\ t.stream = e
        BY <2>2 DEF Socket
      <4> QED
        BY <4>1, <4>2 DEF e
    <3>4. CASE Reset(fd)
      <4> DEFINE t == [s EXCEPT !.rst = TRUE, !.stream = e, !.inbox = e]
      <4>1. ClientStep(fd, t)
        BY <3>4 DEF Reset, s
      <4> HIDE DEF e
      <4>2. t.inbox = e /\ t.stream = e
        BY <2>2 DEF Socket
      <4> QED
        BY <4>1, <4>2 DEF e
    <3> QED
      BY <1>4, <3>1, <3>2, <3>3, <3>4
  <2>5. Consecutive(c.readBuffer, t.inbox, t.stream)
    <3> HIDE DEF s, c
    <3> QED
      BY <2>2, <2>3, <2>4, ConsecutiveSend
  <2>6. connections' = connections /\ sockets' = [sockets EXCEPT ![fd] = t]
    BY <2>4 DEF ClientStep
  <2>7. Open' = Open /\ sockets'[fd] = t /\ \A g \in Open : g # fd => sockets'[g] = sockets[g]
    BY <2>1, <2>6 DEF IInv, TypeOK, Open
  <2> QED
    BY <1>2, <2>5, <2>6, <2>7 DEF Streams
<1> QED
  BY <1>3, <1>4

LEMMA BytesKept ==
  ASSUME \A script \in Script : Aligned(script)
  PROVE  IInv /\ Meant /\ Streams /\ Bodies /\ [Next]_vars => Streams' /\ Bodies'
<1> SUFFICES ASSUME IInv, Meant, Streams, Bodies, [Next]_vars PROVE Streams' /\ Bodies'
  OBVIOUS
<1>1. CASE UNCHANGED <<connections, sockets, tasks, held>>
  BY <1>1, BytesSame, PoolSame DEF Open
<1>2. CASE CloseIdleConnections \/ CloseAllConnections \/ RecvFails
  BY <1>2, BytesClose DEF CloseIdleConnections, CloseAllConnections, RecvFails, poolVars
<1>3. CASE Recv \/ DeliverCompletion
  BY <1>3, BytesRecv, BytesDeliver
<1>4. CASE \E fd \in Fd, script \in Script : AcceptClient(fd, script)
  BY <1>4, BytesAccept
<1>5. CASE \E e \in batch : e[1] \in Fd /\ HandleConnectionEvent(e[1], e[2])
  BY <1>5, BytesEvent
<1>6. CASE LoopStep
  BY <1>1, <1>2, <1>3, <1>4, <1>5, <1>6
     DEF LoopStep, EpollWait, BatchDone, SkipScan, BeginAccept, EndAccept, EndDeliver,
         SwapCompletions, RecvWouldBlock, clientVars, poolVars
<1>7. CASE ClientSteps
  BY <1>1, <1>7, BytesClient DEF ClientSteps, Connect, clientVars, poolVars
<1>8. CASE WorkerStep
  <2>1. PICK w \in Worker : TakeTask(w) \/ QueueResponse(w)
    BY <1>8 DEF WorkerStep
  <2>2. Serving' \subseteq Serving
    BY <2>1, WorkerServes
  <2>3. connections' = connections /\ sockets' = sockets
    BY <2>1 DEF TakeTask, QueueResponse, clientVars
  <2> QED
    BY <2>2, <2>3, BytesSame DEF Open
<1>9. CASE Stop \/ DestroyPool \/ Finished \/ UNCHANGED vars
  BY <1>1, <1>9 DEF Stop, DestroyPool, TQ!Stop, Finished, vars, clientVars, poolVars
<1> QED
  BY <1>6, <1>7, <1>8, <1>9 DEF Next

\* A worker gets the body that the head announced in one single way, and
\* nothing of the next request, from every client that sends as much as its
\* heads announce; and while a body is read nothing else is done.
THEOREM BodiesFramed ==
  ASSUME \A script \in Script : Aligned(script)
  PROVE  SafetySpec => []BodyFraming
<1>1. Init => Meant /\ Streams /\ Bodies
  BY MeantFirst DEF Init, TQ!Init, Streams, Bodies, Open, Serving, Holding, Range
<1>2. IInv /\ Meant /\ Bodies => BodyFraming
  <2> SUFFICES ASSUME IInv, Meant, Bodies PROVE BodyFraming
    OBVIOUS
  <2>1. ASSUME NEW job \in Submitted
        PROVE  /\ Announces(Request[job.kind], Len(job.body)) \/ ~Parsed[job.kind].post
               /\ \A i \in DOMAIN job.body : job.body[i] = "b"
    <3>1. job \in Serving
      BY <2>1 DEF Submitted, Serving, Holding
    <3>2. job \in Task
      BY <3>1, ServingTypes DEF IInv
    <3>3. Parsed[job.kind].wellFormed /\ Len(job.body) = BodyOf(job.kind) /\ OnlyBody(job)
      BY <3>1 DEF Meant, Framed, Bodies
    <3>4. job.kind \in DOMAIN Request
      BY <3>2 DEF Task
    <3> QED
      BY <3>3, <3>4, HeadMeaning DEF BodyOf, OnlyBody
  <2>2. ASSUME NEW fd \in Open, connections[fd].requestBody # NoBody
        PROVE  /\ ~connections[fd].responsePending /\ ~Writing(connections[fd])
               /\ ~BodyComplete(connections[fd])
    <3>1. Sound(connections[fd])
      BY DEF IInv, Core, Conns
    <3> QED
      BY <2>2, <3>1 DEF Sound, Busy, Incomplete
  <2> QED
    BY <2>1, <2>2 DEF BodyFraming
<1>3. IInv /\ Meant /\ Streams /\ Bodies /\ [Next]_vars => (Meant /\ Streams /\ Bodies)'
  BY BytesKept, MeantKept
<1> QED
  BY <1>1, <1>2, <1>3, Inductive, PTL DEF SafetySpec

----------------------------------------------------------------------------
(* Who closes a connection, if epoll_ctl does not fail and files keep their *)
(* size.  Then no event of a batch is out of date: a connection is only     *)
(* closed by its own event, and every event was true when it was reported.  *)

Exact ==
  /\ pc = "scan" => batch = {}
  /\ \A e \in batch : e[1] \in Fd =>
       e[1] \in Open /\ ("HUP" \in e[2] => sockets[e[1]].rst)

LEMMA CommitStays ==
  ASSUME IInv, CallOutcome = {TRUE}, NEW fd \in Open, NEW r, NEW socket, Commit(fd, r, socket),
         Sound(r.conn), NEW g \in Open
  PROVE  connections'[g] # NoConnection
<1>1. connections' = [connections EXCEPT ![fd] = r.conn]
  BY DEF Commit
<1>2. r.conn # NoConnection
  BY Absent DEF Sound
<1> QED
  BY <1>1, <1>2 DEF IInv, TypeOK, Open

LEMMA ReadStays ==
  ASSUME IInv, CallOutcome = {TRUE}, Recv, NEW g \in Open
  PROVE  connections'[g] # NoConnection
<1> DEFINE s == sockets[current]
           k == IF Len(s.inbox) < Chunk THEN Len(s.inbox) ELSE Chunk
           bytes == SubSeq(s.inbox, 1, k)
           b == connections[current]
           c == [b EXCEPT !.readBuffer = @ \o bytes, !.idle = FALSE]
           r == AfterRecv(c, TQ!Accepts)
           t == [s EXCEPT !.inbox = SubSeq(@, k + 1, Len(@))]
<1>1. current \in Open /\ Commit(current, r, t) /\ b.interest = "read"
  BY DEF Recv, IInv, Loop
<1>2. s \in Socket /\ Sound(b)
  BY <1>1, OpenTypes DEF IInv, Core, Conns
<1>3. bytes \in Seq(Token)
  <2>1. s.inbox \in Seq(Token)
    BY <1>2 DEF Socket
  <2>2. k \in Nat /\ k <= Len(s.inbox)
    BY <2>1, ServerAssumption, LenProperties
  <2> HIDE DEF k
  <2> QED
    BY <2>1, <2>2, Slices
<1>4. c = [b EXCEPT !.readBuffer = @ \o bytes, !.idle = FALSE]
  OBVIOUS
<1> HIDE DEF bytes, b, c, t
<1>5. Ready(c) /\ c.interest = "read"
  BY <1>1, <1>2, <1>3, <1>4, ReceivedReady, Zenon
<1>6. Sound(r.conn)
  BY <1>5, AfterRecvFine DEF Fine
<1> HIDE DEF r
<1> QED
  BY <1>1, <1>6, CommitStays

LEMMA DeliverStays ==
  ASSUME IInv, CallOutcome = {TRUE}, DeliverCompletion, NEW g \in Open
  PROVE  connections'[g] # NoConnection
<1> DEFINE m == Head(taken)
<1>1. m \in Completion /\ m \in Flying
  <2>1. taken \in Seq(Completion) /\ taken # <<>>
    BY DEF IInv, TypeOK, DeliverCompletion
  <2> QED
    BY <2>1, FrontTaken DEF Flying
<1>2. CASE ~Addressee(m)
  BY <1>2 DEF DeliverCompletion, clientVars, Open
<1>3. CASE Addressee(m)
  <2> DEFINE fd == m.fd
             c == connections[fd]
  <2>1. PICK opened \in BOOLEAN :
          Commit(fd, Outcome(Install(c, m, opened), NoTask, TRUE), sockets[fd])
    BY <1>3 DEF DeliverCompletion
  <2> HIDE DEF m
  <2>2. fd \in Open /\ Sound(c) /\ c.responsePending /\ CompletionFor(m, c)
    BY <1>1, <1>3 DEF Addressee, IInv, Core, Conns, Belongs, CompletionFor, Completion
  <2>3. Sound(Install(c, m, opened))
    BY <2>2, InstallFine
  <2> DEFINE r == Outcome(Install(c, m, opened), NoTask, TRUE)
  <2>4. Sound(r.conn) /\ Commit(fd, r, sockets[fd])
    BY <2>1, <2>3 DEF Outcome
  <2> HIDE DEF r
  <2> QED
    BY <2>2, <2>4, CommitStays
<1> QED
  BY <1>2, <1>3

\* One event of a connection closes only that connection, and says why.
LEMMA EventStays ==
  ASSUME IInv, CallOutcome = {TRUE}, FileShrinks = {FALSE},
         NEW fd \in Fd, NEW events, HandleConnectionEvent(fd, events),
         NEW g \in Open, connections'[g] = NoConnection
  PROVE  /\ g = fd /\ <<fd, events>> \in batch \ batch'
         /\ \/ "HUP" \in events
            \/ ~Busy(connections[g])
            \/ sockets[g].rst
            \/ /\ "OUT" \in events /\ Writing(connections[g])
               /\ connections[g].closeAfterWrite
               /\ connections[g].fileTransfer <= SendfileBudget
<1>1. connections[g] # NoConnection
  BY DEF Open
<1>2. CASE HandleClosed(fd, events)
  <2>1. g = fd
    BY <1>1, <1>2 DEF HandleClosed, Close, Open
  <2>2. "HUP" \in events \/ ~Busy(connections[g])
    BY <1>2, <2>1 DEF HandleClosed, ClosedByPeer, Busy
  <2> QED
    BY <1>2, <2>1, <2>2 DEF HandleClosed, NextEvent
<1>3. CASE HandleNothing(fd, events) \/ BeginRead(fd, events)
  BY <1>1, <1>3 DEF HandleNothing, BeginRead, clientVars
<1>4. CASE WriteToConnection(fd, events)
  <2>1. /\ fd \in Open /\ "OUT" \in events /\ Writing(connections[fd])
        /\ <<fd, events>> \in batch \ batch'
    BY <1>4 DEF WriteToConnection, Writable, NextEvent
  <2>2. CASE /\ Close({fd})
             /\ \/ sockets[fd].rst
                \/ /\ connections[fd].closeAfterWrite
                   /\ connections[fd].fileTransfer <= SendfileBudget \/ FileShrinks # {FALSE}
    <3>1. g = fd
      BY <1>1, <2>2 DEF Close, Open
    <3> QED
      BY <2>1, <2>2, <3>1
  <2>3. ASSUME NEW r, NEW socket, Commit(fd, r, socket), Lasting(fd, r) PROVE FALSE
    BY <2>1, <2>3, CommitStays DEF Lasting
  <2> QED
    BY <1>4, <2>1, <2>2, <2>3, WriteCases
<1> QED
  BY <1>2, <1>3, <1>4 DEF HandleConnectionEvent

LEMMA AcceptStays ==
  ASSUME IInv, NEW fd \in Fd, NEW script \in Script, AcceptClient(fd, script), NEW g \in Open
  PROVE  connections'[g] # NoConnection
<1>1. g # fd /\ connections[g] # NoConnection /\ g \in Fd
  BY DEF AcceptClient, IInv, TypeOK, Open
<1>2. connections'[g] = connections[g]
  BY <1>1 DEF AcceptClient, clientVars, IInv, TypeOK
<1> QED
  BY <1>1, <1>2

\* Who closes a connection.
LEMMA WhoCloses ==
  ASSUME IInv, Next, CallOutcome = {TRUE}, FileShrinks = {FALSE},
         NEW g \in Open, connections'[g] = NoConnection
  PROVE  \/ CloseIdleConnections /\ ~Busy(connections[g])
         \/ CloseAllConnections
         \/ RecvFails /\ g = current
         \/ \E events :
              /\ <<g, events>> \in batch \ batch'
              /\ HandleConnectionEvent(g, events)
              /\ \/ "HUP" \in events
                 \/ ~Busy(connections[g])
                 \/ sockets[g].rst
                 \/ /\ "OUT" \in events /\ Writing(connections[g])
                    /\ connections[g].closeAfterWrite
                    /\ connections[g].fileTransfer <= SendfileBudget
<1>1. connections[g] # NoConnection /\ g \in Fd
  BY DEF Open
<1>2. connections' # connections
  BY <1>1
<1>3. LoopStep
  <2>1. ~WorkerStep /\ ~Stop /\ ~DestroyPool /\ ~Finished
    BY <1>2 DEF WorkerStep, TakeTask, QueueResponse, Stop, DestroyPool, Finished, vars, clientVars
  <2>2. ASSUME ClientSteps PROVE FALSE
    <3>1. PICK fd \in Fd : TimePasses(fd)
      BY <1>2, <2>2 DEF ClientSteps, Connect, Send, Receive, HalfClose, Reset, ClientStep, clientVars
    <3> DEFINE d == [connections[fd] EXCEPT !.idle = TRUE]
    <3>2. fd \in Open /\ connections' = [connections EXCEPT ![fd] = d]
      BY <3>1 DEF TimePasses
    <3>3. connections[fd] \in ConnectionType
      BY <3>2, OpenTypes DEF IInv
    <3>4. d # NoConnection
      BY <3>3, Absent DEF ConnectionType
    <3> HIDE DEF d
    <3> QED
      BY <1>1, <3>2, <3>4 DEF IInv, TypeOK
  <2> QED
    BY <2>1, <2>2 DEF Next
<1>4. CASE EpollWait \/ BatchDone \/ SkipScan \/ BeginAccept \/ EndAccept \/ EndDeliver
           \/ SwapCompletions \/ RecvWouldBlock
  BY <1>2, <1>4 DEF EpollWait, BatchDone, SkipScan, BeginAccept, EndAccept, EndDeliver,
                    SwapCompletions, RecvWouldBlock, clientVars
<1>5. CASE CloseIdleConnections
  BY <1>1, <1>5 DEF CloseIdleConnections, Close, IdleFds, Busy
<1>6. CASE RecvFails
  BY <1>1, <1>6 DEF RecvFails, Close
<1>7. CASE Recv
  BY <1>7, ReadStays
<1>8. CASE DeliverCompletion
  BY <1>8, DeliverStays
<1>9. CASE \E fd \in Fd, script \in Script : AcceptClient(fd, script)
  BY <1>9, AcceptStays
<1>10. CASE \E e \in batch : e[1] \in Fd /\ HandleConnectionEvent(e[1], e[2])
  BY <1>10, EventStays
<1> QED
  BY <1>3, <1>4, <1>5, <1>6, <1>7, <1>8, <1>9, <1>10 DEF LoopStep

\* A broken connection stays broken while it is open.
LEMMA StaysBroken ==
  ASSUME IInv, Next, NEW g \in Open, g \in Open', sockets[g].rst
  PROVE  sockets'[g].rst
<1>0. g \in Fd /\ connections'[g] # NoConnection /\ sockets \in [Fd -> Socket \cup {NoSocket}]
      /\ sockets[g] \in Socket
  BY OpenTypes DEF Open, IInv, TypeOK
<1>1. ASSUME NEW fd \in Fd, NEW socket, ~sockets[fd].rst, ClientStep(fd, socket)
      PROVE  sockets'[g].rst
  BY <1>0, <1>1 DEF ClientStep
<1>2. ASSUME NEW fds, Close(fds) PROVE sockets'[g].rst
  BY <1>0, <1>2 DEF Close
<1>3. ASSUME NEW fd \in Open, NEW r, NEW socket, Commit(fd, r, socket),
             socket.rst = sockets[fd].rst
      PROVE  sockets'[g].rst
  BY <1>0, <1>2, <1>3 DEF Commit
<1>4. CASE ClientSteps
  BY <1>1, <1>4 DEF ClientSteps, Connect, Send, Receive, HalfClose, Reset, TimePasses, Alive, clientVars
<1>5. CASE WorkerStep \/ Stop \/ DestroyPool \/ Finished
  BY <1>5 DEF WorkerStep, TakeTask, QueueResponse, Stop, DestroyPool, Finished, vars, clientVars
<1>6. CASE EpollWait \/ BatchDone \/ SkipScan \/ BeginAccept \/ EndAccept \/ EndDeliver
           \/ SwapCompletions \/ RecvWouldBlock
  BY <1>6 DEF EpollWait, BatchDone, SkipScan, BeginAccept, EndAccept, EndDeliver,
              SwapCompletions, RecvWouldBlock, clientVars
<1>7. CASE CloseIdleConnections \/ CloseAllConnections \/ RecvFails
  BY <1>2, <1>7 DEF CloseIdleConnections, CloseAllConnections, RecvFails
<1>8. CASE Recv
  <2> DEFINE s == sockets[current]
             k == IF Len(s.inbox) < Chunk THEN Len(s.inbox) ELSE Chunk
             rest == SubSeq(s.inbox, k + 1, Len(s.inbox))
             t == [s EXCEPT !.inbox = rest]
  <2>1. current \in Open /\ \E r : Commit(current, r, t)
    BY <1>8 DEF Recv, IInv, Loop
  <2>2. s \in Socket
    BY <2>1, OpenTypes DEF IInv
  <2> HIDE DEF rest
  <2>3. t.rst = s.rst
    BY <2>2 DEF Socket
  <2> HIDE DEF t
  <2> QED
    BY <1>3, <2>1, <2>3
<1>9. CASE DeliverCompletion
  BY <1>3, <1>9 DEF DeliverCompletion, Addressee, clientVars
<1>10. ASSUME NEW fd \in Fd, NEW script, AcceptClient(fd, script) PROVE sockets'[g].rst
  <2>1. g # fd
    BY <1>10 DEF AcceptClient, IInv, TypeOK, Open
  <2> QED
    BY <1>0, <1>10, <2>1 DEF AcceptClient, clientVars
<1>11. ASSUME NEW fd \in Fd, NEW events, HandleConnectionEvent(fd, events)
       PROVE  sockets'[g].rst
  <2>1. CASE HandleClosed(fd, events)
    BY <1>2, <2>1 DEF HandleClosed
  <2>2. CASE HandleNothing(fd, events) \/ BeginRead(fd, events)
    BY <2>2 DEF HandleNothing, BeginRead, clientVars
  <2>3. CASE WriteToConnection(fd, events)
    <3>1. fd \in Open
      BY <2>3 DEF WriteToConnection, Writable
    <3> QED
      BY <1>2, <1>3, <2>3, <3>1, WriteCases
  <2> QED
    BY <1>11, <2>1, <2>2, <2>3 DEF HandleConnectionEvent
<1> QED
  BY <1>4, <1>5, <1>6, <1>7, <1>8, <1>9, <1>10, <1>11 DEF Next, LoopStep

\* What a step does to the batch.
LEMMA BatchSteps ==
  ASSUME Next, pc = "scan" => batch = {}
  PROVE  /\ pc' = "scan" => batch' = {}
         /\ \/ batch' \subseteq batch
            \/ EpollWait
<1>1. CASE LoopStep
  BY <1>1 DEF LoopStep, EpollWait, BatchDone, CloseIdleConnections, SkipScan, CloseAllConnections,
              BeginAccept, AcceptClient, EndAccept, SwapCompletions, DeliverCompletion, EndDeliver,
              HandleConnectionEvent, HandleClosed, HandleNothing, BeginRead, WriteToConnection,
              Recv, RecvFails, RecvWouldBlock, NextEvent, GoTo, loopVars
<1>2. CASE WorkerStep \/ Stop \/ DestroyPool \/ Finished \/ ClientSteps
  BY <1>2 DEF WorkerStep, TakeTask, QueueResponse, Stop, DestroyPool, Finished, vars, ClientSteps,
              Connect, Send, Receive, HalfClose, Reset, TimePasses, ClientStep, loopVars
<1> QED
  BY <1>1, <1>2 DEF Next

LEMMA ExactKept ==
  ASSUME IInv, Exact, [Next]_vars, CallOutcome = {TRUE}, FileShrinks = {FALSE}
  PROVE  Exact'
<1>1. CASE UNCHANGED vars
  <2>1. UNCHANGED <<pc, batch, connections, sockets>>
    BY <1>1 DEF vars, clientVars, loopVars
  <2> QED
    BY <2>1 DEF Exact, Open
<1>2. CASE Next
  <2>1. pc' = "scan" => batch' = {}
    BY <1>2, BatchSteps DEF Exact
  <2>2. CASE EpollWait
    <3>1. /\ batch' = {<<fd, ReadyEvents(fd)>> : fd \in {g \in Open : ReadyEvents(g) # {}}}
                        \cup {<<e, {"IN"}>> : e \in ServerEvents}
          /\ UNCHANGED <<connections, sockets>>
      BY <2>2 DEF EpollWait, clientVars
    <3>2. \A e \in batch' : e[1] \in Fd => e[1] \in Open /\ e[2] = ReadyEvents(e[1])
      BY <3>1, ServerAssumption DEF ServerEvents
    <3>3. \A fd \in Open : "HUP" \in ReadyEvents(fd) => sockets[fd].rst
      BY DEF ReadyEvents
    <3> QED
      BY <2>1, <3>1, <3>2, <3>3 DEF Exact, Open
  <2>3. CASE batch' \subseteq batch
    <3>1. ASSUME NEW e \in batch', e[1] \in Fd
          PROVE  e[1] \in Open' /\ ("HUP" \in e[2] => sockets'[e[1]].rst)
      <4> DEFINE g == e[1]
      <4>1. e \in batch /\ g \in Open /\ ("HUP" \in e[2] => sockets[g].rst)
        BY <2>3, <3>1 DEF Exact
      <4>2. ASSUME connections'[g] = NoConnection PROVE FALSE
        <5>1. ~CloseIdleConnections
          BY <4>1 DEF CloseIdleConnections, Exact
        <5>2. ~CloseAllConnections
          BY <3>1 DEF CloseAllConnections
        <5>3. ~(RecvFails /\ g = current)
          BY <4>1 DEF RecvFails, IInv, Loop
        <5>4. ~\E events : <<g, events>> \in batch \ batch'
          BY <3>1, <4>1 DEF IInv, Loop
        <5> QED
          BY <1>2, <4>1, <4>2, <5>1, <5>2, <5>3, <5>4, WhoCloses
      <4>3. g \in Open'
        BY <3>1, <4>2 DEF Open
      <4> QED
        BY <1>2, <4>1, <4>3, StaysBroken
    <3> QED
      BY <2>1, <3>1 DEF Exact
  <2> QED
    BY <1>2, <2>2, <2>3, BatchSteps DEF Exact
<1> QED
  BY <1>1, <1>2

\* If epoll_ctl does not fail and files keep their size, a connection whose
\* response is computed or written ends only because it broke, the server
\* stops, or its last piece goes out.
THEOREM NeverCutOff ==
  ASSUME CallOutcome = {TRUE}, FileShrinks = {FALSE}
  PROVE  SafetySpec => NotCutOff
<1> DEFINE Kept ==
      \A fd \in Open :
        LET c == connections[fd]
        IN  (c.responsePending \/ Writing(c)) /\ connections'[fd] = NoConnection =>
              \/ sockets[fd].rst
              \/ ~running
              \/ c.closeAfterWrite /\ ~c.responsePending
                   /\ c.fileTransfer <= SendfileBudget
                   /\ \E e \in batch \ batch' : e[1] = fd /\ "OUT" \in e[2]
<1>1. Init => Exact
  BY DEF Init, Exact
<1>2. IInv /\ Exact /\ [Next]_vars => Exact'
  BY ExactKept
<1>3. ASSUME IInv, Exact, [Next]_vars PROVE [Kept]_vars
  <2> SUFFICES ASSUME Next, NEW fd \in Open, Busy(connections[fd]),
                      connections'[fd] = NoConnection, ~sockets[fd].rst, running
               PROVE  /\ connections[fd].closeAfterWrite /\ ~connections[fd].responsePending
                      /\ connections[fd].fileTransfer <= SendfileBudget
                      /\ \E e \in batch \ batch' : e[1] = fd /\ "OUT" \in e[2]
    BY <1>3 DEF Busy
  <2>1. ~CloseAllConnections
    BY DEF CloseAllConnections
  <2>2. ~(RecvFails /\ fd = current)
    BY <1>3 DEF RecvFails, IInv, Core, Conns, Sound, Busy, Loop
  <2>3. PICK events :
          /\ <<fd, events>> \in batch \ batch'
          /\ HandleConnectionEvent(fd, events)
          /\ \/ "HUP" \in events
             \/ /\ "OUT" \in events /\ Writing(connections[fd])
                /\ connections[fd].closeAfterWrite
                /\ connections[fd].fileTransfer <= SendfileBudget
    BY <1>3, <2>1, <2>2, WhoCloses
  <2>4. "HUP" \notin events
    BY <1>3, <2>3 DEF Exact, Open
  <2>5. "OUT" \in events /\ Writing(connections[fd]) /\ connections[fd].closeAfterWrite
        /\ connections[fd].fileTransfer <= SendfileBudget
    BY <2>3, <2>4
  <2>6. ~connections[fd].responsePending
    BY <1>3, <2>5 DEF IInv, Core, Conns, Sound
  <2> QED
    BY <2>3, <2>5, <2>6
<1> QED
  BY <1>1, <1>2, <1>3, Inductive, PTL DEF SafetySpec, NotCutOff
=============================================================================
