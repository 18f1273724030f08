------------------------------- MODULE Server -------------------------------
(***************************************************************************)
(* The event loop of a plain-text server: accepting, reading and framing   *)
(* requests, handing them to the pool, taking the completions back,        *)
(* writing responses and files, closing idle connections and stopping.     *)
(*                                                                         *)
(* The loop is one thread; a handler is split where another thread or a    *)
(* client may act in between and the handler can tell.  The pool is the    *)
(* abstract TaskQueue, which ThreadPool implements; the completion queue   *)
(* keeps the swap of CompletionQueue and leaves out its eventfd, which     *)
(* CompletionQueue shows never to lose a wake-up.                          *)
(* What a handler decides about one connection is in Connection.           *)
(***************************************************************************)
EXTENDS Connection, FiniteSets

CONSTANTS
  Fd,              \* file descriptors the kernel may give to a client socket
  Worker,          \* threads of the pool
  MaxQueueSize,    \* bound of the pool's queue
  Script,          \* the token streams clients send
  Chunk,           \* size of the buffer of one recv, in tokens
  SendfileBudget,  \* maxSendfileBytesPerEvent, in pieces of a file
  MaxConnections,  \* bound of the model: connections that are ever opened
  CallOutcome,     \* outcomes of epoll_ctl, and of send and sendfile on a connection
                   \* that has not broken: {TRUE}, or BOOLEAN if they may fail
  FileShrinks,     \* {FALSE}, or BOOLEAN if files may be truncated meanwhile
  NoFd             \* no descriptor

ASSUME ServerAssumption ==
  /\ {"listen", "completion", NoFd} \cap Fd = {}
  /\ Script \subseteq Seq(Token)
  /\ {MaxQueueSize, Chunk, SendfileBudget} \subseteq Nat \ {0}
  /\ MaxConnections \in Nat
  \* The buffer of one recv is smaller than the largest header (4096, 8192).
  /\ Chunk <= MaxHeader
  /\ CallOutcome \subseteq BOOLEAN /\ TRUE \in CallOutcome
  /\ FileShrinks \subseteq BOOLEAN /\ FALSE \in FileShrinks

VARIABLES
  connections,       \* impl_->connections: [Fd -> Connection or NoConnection]
  sockets,           \* the kernel's side of each open client socket
  backlog,           \* clients waiting in the listen queue
  nextConnectionId,  \* impl_->nextConnectionId
  tasks, held, stopping,   \* the pool, see TaskQueue
  completions,       \* impl_->completions
  taken,             \* the local deque of handleCompletionEvent
  running,           \* impl_->running
  pc,                \* where the loop is, see LoopState
  batch,             \* events of the last epoll_wait not yet handled
  current            \* the fd of the readFromConnection in progress, or NoFd

poolVars == <<tasks, held, stopping>>
completionVars == <<completions, taken>>
clientVars == <<connections, sockets>>
acceptVars == <<backlog, nextConnectionId>>
loopVars == <<pc, batch, current>>
vars == <<clientVars, acceptVars, poolVars, completionVars, running, loopVars>>

LoopState == {"wait", "dispatch", "accept", "read", "deliver", "scan", "stopped"}

Open == {fd \in Fd : connections[fd] # NoConnection}

TQ == INSTANCE TaskQueue WITH
        Task <- [fd : Fd, id : Nat, n : Nat, kind : DOMAIN Request, body : Seq(Token)]

----------------------------------------------------------------------------
\* The descriptor is closed: no record is equal to it.
NoSocket == <<>>

NewSocket(script) ==
  [stream |-> script, inbox |-> <<>>, fin |-> FALSE, rst |-> FALSE, full |-> FALSE]

----------------------------------------------------------------------------
(* Steps the handlers share *)

\* Mutant: forgets to close the descriptor.
CloseLeaking(fds) ==
  /\ connections' = [fd \in Fd |-> IF fd \in fds THEN NoConnection ELSE connections[fd]]
  /\ UNCHANGED sockets

Close(fds) ==
  /\ connections' = [fd \in Fd |-> IF fd \in fds THEN NoConnection ELSE connections[fd]]
  /\ sockets' = [fd \in Fd |-> IF fd \in fds THEN NoSocket ELSE sockets[fd]]

GoTo(state) == pc' = state /\ current' = NoFd /\ UNCHANGED batch

\* Bring the connection into the state the handler computed; if epoll_ctl was
\* called and failed, close it instead.
Commit(fd, r, socket) ==
  \E ok \in CallOutcome :
    IF r.ctl /\ ~ok
      THEN Close({fd}) /\ UNCHANGED poolVars
      ELSE /\ connections' = [connections EXCEPT ![fd] = r.conn]
           /\ sockets' = [sockets EXCEPT ![fd] = socket]
           /\ IF r.submit = NoTask THEN UNCHANGED poolVars
              ELSE TQ!Enqueue(Job(fd, r.conn, r.submit))

----------------------------------------------------------------------------
(* The clients and the clock.  What arrives is looked at by epoll_wait, recv *)
(* and accept4 only, and the clock by the idle scan only: an arrival or a   *)
(* tick is placed right before one of them, which loses no behaviour of the *)
(* loop and keeps the state space small.                                   *)

Looks == pc \in {"wait", "read"}

Connect ==
  /\ pc \in {"wait", "accept"}
  /\ nextConnectionId + backlog <= MaxConnections
  /\ backlog' = backlog + 1
  /\ UNCHANGED <<clientVars, nextConnectionId, poolVars, completionVars, running, loopVars>>

Alive(fd) == sockets[fd] # NoSocket /\ ~sockets[fd].rst

ClientStep(fd, socket) ==
  /\ sockets' = [sockets EXCEPT ![fd] = socket]
  /\ UNCHANGED <<connections, acceptVars, poolVars, completionVars, running, loopVars>>

\* The next piece of the stream arrives.
Send(fd) ==
  /\ Looks /\ Alive(fd) /\ sockets[fd].stream # <<>>
  /\ ClientStep(fd, [sockets[fd] EXCEPT !.inbox = Append(@, Head(sockets[fd].stream)),
                                        !.stream = Tail(@)])

\* The client reads what the socket buffer holds, which empties it.
Receive(fd) ==
  /\ Alive(fd) /\ sockets[fd].full
  /\ ClientStep(fd, [sockets[fd] EXCEPT !.full = FALSE])

\* The client shuts down its sending side, wherever it is in its stream.
HalfClose(fd) ==
  /\ Looks /\ Alive(fd) /\ ~sockets[fd].fin
  /\ ClientStep(fd, [sockets[fd] EXCEPT !.fin = TRUE, !.stream = <<>>])

\* The connection breaks: the kernel drops what it had received.
Reset(fd) ==
  /\ Alive(fd)
  /\ ClientStep(fd, [sockets[fd] EXCEPT !.rst = TRUE, !.stream = <<>>, !.inbox = <<>>])

\* connectionIdleTimeout_ passes without activity on the connection.
TimePasses(fd) ==
  /\ pc = "scan"
  /\ fd \in Open /\ ~connections[fd].idle
  /\ connections' = [connections EXCEPT ![fd].idle = TRUE]
  /\ UNCHANGED <<sockets, acceptVars, poolVars, completionVars, running, loopVars>>

----------------------------------------------------------------------------
(* The workers.  A task is buildResponse followed by queueResponse; its     *)
(* completion holds what handleCompletionEvent reads from it.              *)

TakeTask(w) ==
  /\ TQ!Take(w)
  /\ UNCHANGED <<clientVars, acceptVars, completionVars, running, loopVars>>

QueueResponse(w) ==
  /\ TQ!Finish(w)
  /\ completions' = Append(completions, BuildResponse(held[w]))
  /\ UNCHANGED <<clientVars, acceptVars, taken, running, loopVars>>

----------------------------------------------------------------------------
(* acceptLoop: wait, dispatch the batch, scan for idle connections *)

\* Level-triggered readiness under the registered mask.  EPOLLHUP and
\* EPOLLERR are reported whatever the mask.
ReadyEvents(fd) ==
  LET c == connections[fd]
      s == sockets[fd]
  IN  {e \in {"IN", "OUT", "RDHUP", "HUP"} :
         \/ e = "IN" /\ c.interest = "read" /\ (s.inbox # <<>> \/ s.fin \/ s.rst)
         \/ e = "OUT" /\ c.interest = "write" /\ ~s.full
         \/ e = "RDHUP" /\ (s.fin \/ s.rst)
         \/ e = "HUP" /\ s.rst}

\* The loop's sources other than clients: the listening socket, the
\* completion eventfd.
ServerEvents == {e \in {"listen", "completion"} :
                   \/ e = "listen" /\ backlog > 0
                   \/ e = "completion" /\ completions # <<>>}

\* Returns what is ready, or nothing after idleScanIntervalMs.
EpollWait ==
  /\ pc = "wait" /\ running
  /\ batch' = {<<fd, ReadyEvents(fd)>> : fd \in {g \in Open : ReadyEvents(g) # {}}}
                \cup {<<e, {"IN"}>> : e \in ServerEvents}
  /\ pc' = "dispatch"
  /\ UNCHANGED <<clientVars, acceptVars, poolVars, completionVars, running, current>>

\* Take one event of the batch, in whatever order epoll listed them.
NextEvent(e, state) ==
  /\ pc = "dispatch" /\ running
  /\ e \in batch
  /\ batch' = batch \ {e}
  /\ pc' = state

BatchDone ==
  /\ pc = "dispatch" /\ running /\ batch = {}
  /\ GoTo("scan")
  /\ UNCHANGED <<clientVars, acceptVars, poolVars, completionVars, running>>

\* Mutant: a connection whose response is computed or written may be idle.
IdleFdsBusyToo == {fd \in Open : connections[fd].idle}

\* Mutant: a connection is only idle while its buffer is empty.
IdleFdsEmptyOnly ==
  {fd \in Open : LET c == connections[fd]
                 IN  ~c.responsePending /\ ~Writing(c) /\ c.idle /\ c.readBuffer = <<>>}

\* Connections with work in progress are never idle.
IdleFds == {fd \in Open : LET c == connections[fd]
                          IN  ~c.responsePending /\ ~Writing(c) /\ c.idle}

CloseIdleConnections ==
  /\ pc = "scan"
  /\ Close(IdleFds)
  /\ GoTo("wait")
  /\ UNCHANGED <<acceptVars, poolVars, completionVars, running>>

\* Less than idleScanIntervalMs since the last scan.
SkipScan ==
  /\ pc = "scan"
  /\ GoTo("wait")
  /\ UNCHANGED <<clientVars, acceptVars, poolVars, completionVars, running>>

\* stop(), from a signal or another thread, at any time.
Stop ==
  /\ running
  /\ running' = FALSE
  /\ UNCHANGED <<clientVars, acceptVars, poolVars, completionVars, loopVars>>

\* Mutant: leaves the connections open.
LeaveConnections ==
  /\ pc \in {"wait", "dispatch"} /\ ~running
  /\ pc' = "stopped" /\ batch' = {}
  /\ UNCHANGED <<clientVars, acceptVars, poolVars, completionVars, running, current>>

\* The loop's conditions are the only places that look at running.
CloseAllConnections ==
  /\ pc \in {"wait", "dispatch"} /\ ~running
  /\ Close(Fd)
  /\ pc' = "stopped" /\ batch' = {}
  /\ UNCHANGED <<acceptVars, poolVars, completionVars, running, current>>

\* ~Server, once start has returned: the members go in reverse order, the
\* pool first, and its workers finish what is queued before impl_ goes.
DestroyPool ==
  /\ pc = "stopped"
  /\ TQ!Stop
  /\ UNCHANGED <<clientVars, acceptVars, completionVars, running, loopVars>>

----------------------------------------------------------------------------
(* acceptReadyClients *)

BeginAccept ==
  /\ NextEvent(<<"listen", {"IN"}>>, "accept")
  /\ UNCHANGED <<clientVars, acceptVars, poolVars, completionVars, running, current>>

\* One turn of the accept4 loop; the kernel gives any free descriptor.
AcceptClient(fd, script) ==
  /\ pc = "accept" /\ running
  /\ backlog > 0
  /\ sockets[fd] = NoSocket
  /\ backlog' = backlog - 1
  /\ nextConnectionId' = nextConnectionId + 1
  /\ \E ok \in CallOutcome :
       IF ok
         THEN /\ connections' = [connections EXCEPT ![fd] = NewConnection(nextConnectionId)]
              /\ sockets' = [sockets EXCEPT ![fd] = NewSocket(script)]
         ELSE UNCHANGED clientVars
  /\ UNCHANGED <<poolVars, completionVars, running, loopVars>>

\* EAGAIN, EMFILE because every descriptor is in use, or the loop is stopping.
EndAccept ==
  /\ pc = "accept"
  /\ \/ backlog = 0
     \/ \A fd \in Fd : sockets[fd] # NoSocket
     \/ ~running
  /\ GoTo("dispatch")
  /\ UNCHANGED <<clientVars, acceptVars, poolVars, completionVars, running>>

----------------------------------------------------------------------------
(* handleCompletionEvent *)

SwapCompletions ==
  /\ NextEvent(<<"completion", {"IN"}>>, "deliver")
  /\ taken' = completions
  /\ completions' = <<>>
  /\ UNCHANGED <<clientVars, acceptVars, poolVars, running, current>>

\* Mutant: looks at the descriptor only.
AddresseeByFd(completion) == completion.fd \in Open

\* The connection a completion was computed for still exists: the fd may
\* have been closed and given to another client meanwhile.
Addressee(completion) ==
  /\ completion.fd \in Open
  /\ connections[completion.fd].id = completion.id

DeliverCompletion ==
  /\ pc = "deliver" /\ taken # <<>>
  /\ LET m == Head(taken)
     IN  IF Addressee(m)
           THEN \E opened \in BOOLEAN :
                  Commit(m.fd, Outcome(Install(connections[m.fd], m, opened), NoTask, TRUE),
                         sockets[m.fd])
           ELSE UNCHANGED <<clientVars, poolVars>>
  /\ taken' = Tail(taken)
  /\ UNCHANGED <<acceptVars, completions, running, loopVars>>

EndDeliver ==
  /\ pc = "deliver" /\ taken = <<>>
  /\ GoTo("dispatch")
  /\ UNCHANGED <<clientVars, acceptVars, poolVars, completionVars, running>>

----------------------------------------------------------------------------
(* handleConnectionEvent.  A mask never holds both EPOLLIN and EPOLLOUT, so *)
(* one event is a read or a write, not both.                               *)

\* Mutant: a half-close always closes.
ClosedByAnyHalf(fd, events) == "HUP" \in events \/ "RDHUP" \in events

\* EPOLLHUP and EPOLLERR close at once; EPOLLRDHUP only if no response is
\* being computed or written.
ClosedByPeer(fd, events) ==
  \/ "HUP" \in events
  \/ "RDHUP" \in events
       /\ (fd \in Open => LET c == connections[fd]
                          IN  ~Writing(c) /\ ~c.responsePending)

HandleClosed(fd, events) ==
  /\ NextEvent(<<fd, events>>, "dispatch")
  /\ ClosedByPeer(fd, events)
  /\ Close({fd})
  /\ UNCHANGED <<acceptVars, poolVars, completionVars, running, current>>

Readable(fd, events) ==
  fd \in Open /\ "IN" \in events /\ ~connections[fd].responsePending

Writable(fd, events) ==
  fd \in Open /\ "OUT" \in events /\ Writing(connections[fd])

\* The connection is gone, or nothing was reported that it is waiting for.
HandleNothing(fd, events) ==
  /\ NextEvent(<<fd, events>>, "dispatch")
  /\ ~ClosedByPeer(fd, events) /\ ~Readable(fd, events) /\ ~Writable(fd, events)
  /\ UNCHANGED <<clientVars, acceptVars, poolVars, completionVars, running, current>>

BeginRead(fd, events) ==
  /\ NextEvent(<<fd, events>>, "read")
  /\ ~ClosedByPeer(fd, events) /\ Readable(fd, events)
  /\ current' = fd
  /\ UNCHANGED <<clientVars, acceptVars, poolVars, completionVars, running>>

----------------------------------------------------------------------------
(* readFromConnection: one turn of its recv loop at a time, because the    *)
(* client may send more between two turns.                                 *)

\* The handler reads on only if the bytes did not complete anything.
Recv ==
  /\ pc = "read"
  /\ LET fd  == current
         s   == sockets[fd]
         k   == IF Len(s.inbox) < Chunk THEN Len(s.inbox) ELSE Chunk
         c   == [connections[fd] EXCEPT !.readBuffer = @ \o SubSeq(s.inbox, 1, k),
                                        !.idle = FALSE]
         r   == AfterRecv(c, TQ!Accepts)
     IN  /\ s.inbox # <<>>
         /\ Commit(fd, r, [s EXCEPT !.inbox = SubSeq(@, k + 1, Len(@))])
         /\ IF r.conn = c THEN UNCHANGED loopVars ELSE GoTo("dispatch")
  /\ UNCHANGED <<acceptVars, completionVars, running>>

\* recv returned 0 or an error other than EAGAIN.
RecvFails ==
  /\ pc = "read"
  /\ sockets[current].inbox = <<>>
  /\ sockets[current].fin \/ sockets[current].rst
  /\ Close({current})
  /\ GoTo("dispatch")
  /\ UNCHANGED <<acceptVars, poolVars, completionVars, running>>

\* EAGAIN
RecvWouldBlock ==
  /\ pc = "read"
  /\ sockets[current].inbox = <<>>
  /\ ~sockets[current].fin /\ ~sockets[current].rst
  /\ GoTo("dispatch")
  /\ UNCHANGED <<clientVars, acceptVars, poolVars, completionVars, running>>

----------------------------------------------------------------------------
(* writeToConnection.  send and sendfile take any number of pieces; taking  *)
(* less than was offered fills the socket buffer until the client reads.    *)

\* What flushing may leave: the connection, and whether its socket buffer is
\* full.  A file that has become shorter ends early (sendfile returns 0),
\* with some of what was announced unsent.
Flushed(c) ==
  LET units == IF c.writeBuffer = NoResponse THEN 0 ELSE c.writeBuffer.left
      offer == IF c.fileTransfer < SendfileBudget THEN c.fileTransfer ELSE SendfileBudget
      least == IF units = 0 THEN 1 ELSE 0
      c1    == [c EXCEPT !.idle = FALSE]
      Part(k) == [c1 EXCEPT !.writeBuffer.left = k]
      Sent(k) == [c1 EXCEPT !.writeBuffer = NoResponse,
                            !.fileTransfer = @ - k, !.owed = @ - k]
      Cut(k)  == [c1 EXCEPT !.writeBuffer = NoResponse,
                            !.fileTransfer = 0, !.owed = @ - k]
  IN  {<<Part(k), TRUE>> : k \in 1 .. (units - 1)}
      \cup {<<Sent(k), TRUE>> : k \in least .. offer}
      \cup {<<Sent(offer), FALSE>>}
      \cup (IF TRUE \in FileShrinks /\ c.fileTransfer > 0
              THEN {<<Cut(k), FALSE>> : k \in 0 .. (offer - 1)} ELSE {})

WriteToConnection(fd, events) ==
  /\ NextEvent(<<fd, events>>, "dispatch")
  /\ ~ClosedByPeer(fd, events) /\ Writable(fd, events)
  /\ \/ /\ sockets[fd].rst \/ FALSE \in CallOutcome
        /\ Close({fd}) /\ UNCHANGED poolVars
     \/ /\ ~sockets[fd].rst
        /\ \E f \in Flushed(connections[fd]) :
             LET socket == [sockets[fd] EXCEPT !.full = f[2]]
                 c      == [f[1] EXCEPT !.answered = @ + 1]
             IN  IF Writing(f[1])
                   THEN Commit(fd, Outcome(f[1], NoTask, FALSE), socket)
                 ELSE IF c.closeAfterWrite
                   THEN Close({fd}) /\ UNCHANGED poolVars
                 ELSE Commit(fd, NextRequest(c, TQ!Accepts), socket)
  /\ UNCHANGED <<acceptVars, completionVars, running, current>>

----------------------------------------------------------------------------

Init ==
  /\ connections = [fd \in Fd |-> NoConnection]
  /\ sockets = [fd \in Fd |-> NoSocket]
  /\ backlog = 0
  /\ nextConnectionId = 1
  /\ TQ!Init
  /\ completions = <<>>
  /\ taken = <<>>
  /\ running = TRUE
  /\ pc = "wait"
  /\ batch = {}
  /\ current = NoFd

\* handleConnectionEvent for one event of the batch.
HandleConnectionEvent(fd, events) ==
  \/ HandleClosed(fd, events)
  \/ HandleNothing(fd, events)
  \/ BeginRead(fd, events)
  \/ WriteToConnection(fd, events)

LoopStep ==
  \/ EpollWait
  \/ BatchDone
  \/ CloseIdleConnections
  \/ SkipScan
  \/ CloseAllConnections
  \/ BeginAccept
  \/ \E fd \in Fd, script \in Script : AcceptClient(fd, script)
  \/ EndAccept
  \/ SwapCompletions
  \/ DeliverCompletion
  \/ EndDeliver
  \/ \E e \in batch : e[1] \in Fd /\ HandleConnectionEvent(e[1], e[2])
  \/ Recv
  \/ RecvFails
  \/ RecvWouldBlock

WorkerStep == \E w \in Worker : TakeTask(w) \/ QueueResponse(w)

ClientSteps ==
  \/ Connect
  \/ \E fd \in Fd : Send(fd) \/ Receive(fd) \/ HalfClose(fd) \/ Reset(fd) \/ TimePasses(fd)

\* The loop has returned and the pool is idle.
Finished == /\ stopping /\ tasks = <<>> /\ \A w \in Worker : held[w] = NoTask
            /\ UNCHANGED vars

Next == LoopStep \/ WorkerStep \/ ClientSteps \/ Stop \/ DestroyPool \/ Finished

SafetySpec == Init /\ [][Next]_vars

\* The loop runs; since time passes, it does not skip the idle scan for ever.
\* Workers take tasks and finish them (TaskQueue, which ThreadPool implements
\* with its fairness), and clients read what is sent to them.  Clients owe no
\* request.
Fairness ==
  /\ WF_vars(LoopStep)
  /\ SF_vars(CloseIdleConnections)
  /\ WF_vars(\E w \in Worker : TakeTask(w))
  /\ \A w \in Worker : WF_vars(QueueResponse(w))
  /\ \A fd \in Fd : WF_vars(Receive(fd))

Spec == SafetySpec /\ Fairness

----------------------------------------------------------------------------
(* Properties *)

Socket == [stream : Seq(Token), inbox : Seq(Token),
           fin : BOOLEAN, rst : BOOLEAN, full : BOOLEAN]

Task == [fd : Fd, id : Nat, n : Nat, kind : DOMAIN Request, body : Seq(Token)]

Completion == [fd : Fd, id : Nat, n : Nat, keepAlive : BOOLEAN,
               closeAfterWrite : BOOLEAN, file : Nat]

\* Every variable stays in its type; a socket is open exactly while its
\* connection is tracked, so no descriptor leaks.
TypeOK ==
  /\ connections \in [Fd -> ConnectionType \cup {NoConnection}]
  /\ sockets \in [Fd -> Socket \cup {NoSocket}]
  /\ \A fd \in Fd : connections[fd] = NoConnection <=> sockets[fd] = NoSocket
  /\ backlog \in Nat /\ nextConnectionId \in Nat
  /\ tasks \in Seq(Task) /\ Len(tasks) <= MaxQueueSize
  /\ held \in [Worker -> Task \cup {NoTask}]
  /\ completions \in Seq(Completion) /\ taken \in Seq(Completion)
  /\ stopping \in BOOLEAN /\ running \in BOOLEAN /\ pc \in LoopState
  /\ current \in Fd \cup {NoFd} /\ (pc = "read" <=> current # NoFd)

\* Where the request of a connection may be on its way through the pool and
\* back.
InFlight(id) ==
  {<<"queue", i>> : i \in {k \in DOMAIN tasks : tasks[k].id = id}}
  \cup {<<"worker", w>> : w \in {v \in Worker : held[v] # NoTask /\ held[v].id = id}}
  \cup {<<"completions", i>> : i \in {k \in DOMAIN completions : completions[k].id = id}}
  \cup {<<"taken", i>> : i \in {k \in DOMAIN taken : taken[k].id = id}}

\* responsePending is set exactly while one request of the connection is in
\* the queue, on a worker or on its way back: never two at once, and never
\* none, which would leave the client waiting for ever.
OneTaskWhilePending ==
  \A fd \in Open :
    LET places == InFlight(connections[fd].id)
    IN  IF connections[fd].responsePending THEN \E p \in places : places = {p}
                                           ELSE places = {}

\* What is written to a client is the answer to its own next request, in the
\* order in which it sent them: completions of a closed connection never
\* reach the client that got its descriptor, and pipelined requests are not
\* answered out of order or twice.
AnswersOwnRequestInOrder ==
  \A fd \in Open :
    LET c == connections[fd]
    IN  /\ c.writeBuffer # NoResponse =>
             c.writeBuffer.id = c.id /\ c.writeBuffer.n = c.answered + 1
        /\ c.parsed = c.answered + (IF c.responsePending \/ Writing(c) THEN 1 ELSE 0)

\* A response that says "Connection: keep-alive" is followed by an open
\* connection, any other one by its end; and the connection is only kept for a
\* client whose request asked for it, by its version and every one of its
\* Connection headers.
KeepsConnectionPromise ==
  \A fd \in Open :
    LET c == connections[fd]
    IN  c.writeBuffer # NoResponse =>
          /\ c.writeBuffer.keepAlive = ~c.closeAfterWrite
          /\ c.writeBuffer.keepAlive => AsksToStay(Request[c.last])

\* epoll watches for what the connection waits for: nothing while its response
\* is computed, room to write while there is something to write, and otherwise
\* input, and then the buffer does not already hold a request that nobody
\* would look at until the client sends more.
NothingStranded ==
  \A fd \in Open :
    LET c == connections[fd]
    IN  /\ c.interest = (IF c.responsePending THEN "none"
                         ELSE IF Writing(c) THEN "write" ELSE "read")
        /\ c.interest = "read" =>
             IF c.requestBody = NoBody THEN HeaderLength(c.readBuffer) = 0
                                       ELSE ~BodyComplete(c)

\* A request that waits for a worker or is served by one.
Submitted == (Range(tasks) \cup {held[w] : w \in Worker}) \ {NoTask}

\* A request keeps to its own bytes: the body handed to the worker is what
\* the head announced in one single way, none of it is the next request, and
\* while a body is being read nothing else is computed or written.
BodyFraming ==
  /\ \A job \in Submitted :
       /\ Announces(Request[job.kind], Len(job.body)) \/ ~Parsed[job.kind].post
       /\ \A i \in DOMAIN job.body : job.body[i] = "b"
  /\ \A fd \in Open :
       LET c == connections[fd]
       IN  c.requestBody # NoBody =>
             ~c.responsePending /\ ~Writing(c) /\ ~BodyComplete(c)

\* What a client can make the server buffer: a header within the limit, a body
\* within the limit, and beyond a complete request less than one recv.
ReadBufferBounded ==
  \A fd \in Open :
    LET c == connections[fd]
        n == Len(c.readBuffer)
    IN  /\ c.interest = "read" =>
             IF c.requestBody = NoBody THEN n <= MaxHeader
                                       ELSE n < MaxHeader + MaxBody
        /\ c.responsePending \/ (Writing(c) /\ ~c.closeAfterWrite) => n < Chunk
        /\ n <= MaxHeader + Chunk + MaxBody

\* A response is written in full: once a kept connection waits for its next
\* request, every byte that Content-Length announced has been sent.
ContentLengthHonoured ==
  \A fd \in Open :
    LET c == connections[fd]
    IN  ~c.responsePending /\ ~Writing(c) => c.owed = 0

\* While a response is computed, the connection survives everything but a
\* broken connection and the server's stop: its client's half-close, the idle
\* timer, and events of the batch that are out of date.  While it is written,
\* it ends only as its last piece goes out.
NotCutOff ==
  [][\A fd \in Open :
       LET c == connections[fd]
       IN  (c.responsePending \/ Writing(c)) /\ connections'[fd] = NoConnection =>
             \/ sockets[fd].rst
             \/ ~running
             \/ c.closeAfterWrite /\ ~c.responsePending
                  /\ c.fileTransfer <= SendfileBudget
                  /\ \E e \in batch \ batch' : e[1] = fd /\ "OUT" \in e[2]]_vars

\* Every request whose response was built is logged (README.md: an access log
\* line follows the construction of every response).  handleCompletionEvent
\* logs the completions it installs and only those.
EveryBuiltResponseLogged ==
  [][pc = "deliver" /\ taken # taken' => Addressee(Head(taken))]_vars

\* The connection with this id is open on fd.
Is(fd, id) == fd \in Open /\ connections[fd].id = id

\* Every request that was parsed is answered, unless its connection ends.
EveryRequestAnswered ==
  \A fd \in Fd, id \in 1 .. MaxConnections :
    (Is(fd, id) /\ connections[fd].responsePending)
      ~> ~(Is(fd, id) /\ (connections[fd].responsePending \/ Writing(connections[fd])))

\* What a client has sent does not stay in the socket for ever.
EveryByteRead ==
  \A fd \in Fd, id \in 1 .. MaxConnections :
    (Is(fd, id) /\ sockets[fd].inbox # <<>>)
      ~> ~(Is(fd, id) /\ sockets[fd].inbox # <<>>)

\* A connection without work is not left open once its timeout has passed.
IdleConnectionsClosed ==
  \A fd \in Fd, id \in 1 .. MaxConnections :
    []<>~(/\ Is(fd, id)
          /\ connections[fd].idle
          /\ ~connections[fd].responsePending
          /\ ~Writing(connections[fd]))

\* stop() ends the loop, with every connection closed.
StopEnds == ~running ~> (pc = "stopped" /\ Open = {})
============================================================================
