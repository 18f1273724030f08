------------------------------- MODULE Process -------------------------------
(***************************************************************************)
(* The life of the process: main, Server::start, the signal handler, the   *)
(* part of the event loop that ends it, and the destruction of Server      *)
(* while workers finish their tasks.                                       *)
(*                                                                         *)
(* SIGINT and SIGTERM may be taken by any thread.  The handler runs on the *)
(* main thread between two of its steps; on a worker it runs beside main,  *)
(* and what it wrote to shutdownSignalRequested, which is not atomic, main *)
(* may or may not see ("racing").  Connections are those of Server: all    *)
(* that is left of them here is that requests give tasks to the workers.   *)
(***************************************************************************)
EXTENDS Settings, FiniteSets

CONSTANTS
  Invocation,  \* pairs of a command line and files, [path -> lines or NoFile]
  Worker,
  MaxSignals, MaxTasks,  \* bounds
  NoServer

ASSUME ProcessAssumption ==
  /\ IsFiniteSet(Worker) /\ Worker # {}
  /\ MaxSignals \in Nat /\ MaxTasks \in Nat
  /\ \A i \in Invocation :
       /\ i[1] \in Seq(TextType)
       /\ \A path \in PathsOf(i[1]) : i[2][path] # NoFile => i[2][path] \in Seq(LineType)
       /\ LET o == ParseCommandLine(i[1])
          IN  o.outcome = "run" => Configured(o, i[2]) # NoServer

VARIABLES
  arguments, disk,  \* what main is called with
  at,         \* where main is
  server,     \* the settings Server was constructed with
  open,       \* what Impl has: itself, its descriptors and the TLS context
  running,
  exit,       \* main's return value
  handlers,   \* signals with shutdownSignalHandler
  installed,  \* signalHandlers.installed
  signalFd,   \* shutdownSignalEventFd is the shutdown eventfd
  flag,       \* shutdownSignalRequested: "no", "yes", or "racing"
  shutdownEvent,  \* counter of the eventfd
  interrupted,    \* epoll_wait will return EINTR
  batch,      \* events of this turn of the loop
  worker,     \* "none", "idle", "busy", "ended"
  inHandler,  \* workers that have set the flag, and are to write the eventfd
  tasks,      \* number of queued tasks
  stopping,   \* the pool's
  signals, requests, caught  \* history

inputVars == <<arguments, disk>>
serverVars == <<server, open, exit>>
signalVars == <<handlers, installed, signalFd, flag, inHandler, signals, caught>>
stopVars == <<running, shutdownEvent>>
loopVars == <<interrupted, batch>>
poolVars == <<worker, tasks, stopping, requests>>
vars == <<inputVars, at, serverVars, signalVars, stopVars, loopVars, poolVars>>

Signal == {"SIGINT", "SIGTERM"}

Init ==
  /\ \E i \in Invocation : arguments = i[1] /\ disk = i[2]
  /\ at = "main" /\ server = NoServer /\ open = {} /\ exit = 0
  /\ handlers = {} /\ installed = FALSE /\ signalFd = FALSE /\ flag = "no"
  /\ inHandler = {} /\ signals = 0 /\ caught = FALSE
  /\ running = FALSE /\ shutdownEvent = 0
  /\ interrupted = FALSE /\ batch = {}
  /\ worker = [w \in Worker |-> "none"] /\ tasks = 0 /\ stopping = FALSE /\ requests = 0

----------------------------------------------------------------------------
(* main, up to start *)

Options == ParseCommandLine(arguments)

ReadOptions ==
  /\ at = "main"
  /\ \/ Options.outcome = "error" /\ exit' = 1 /\ at' = "ended"
     \/ Options.outcome = "help" /\ exit' = 0 /\ at' = "ended"
     \/ Options.outcome = "run" /\ exit' = exit /\ at' = "construct"
  /\ UNCHANGED <<inputVars, server, open, signalVars, stopVars, loopVars, poolVars>>

\* Config, the overrides, and Server with the threads of its pool.
ConstructServer ==
  /\ at = "construct"
  /\ server' = Configured(Options, disk)
  /\ open' = {"impl"}
  /\ worker' = [w \in Worker |-> "idle"]
  /\ at' = IF server'.enable_tls THEN "tls" ELSE "socket"
  /\ UNCHANGED <<inputVars, exit, signalVars, stopVars, loopVars, tasks, stopping, requests>>

\* A thread of the pool cannot be created.  Nobody catches that, and std::terminate
\* ends the process.
CreateThreadFails ==
  /\ at = "construct" /\ at' = "killed"
  /\ UNCHANGED <<inputVars, serverVars, signalVars, stopVars, loopVars, poolVars>>

----------------------------------------------------------------------------
(* start *)

\* A step of start that can fail, and then start returns false.
Succeeds(from, to, what) ==
  /\ at = from /\ at' = to
  /\ open' = open \cup what
  /\ UNCHANGED <<inputVars, server, exit, signalVars, stopVars, loopVars, poolVars>>

InitializeTlsContext == Succeeds("tls", "socket", {"tlsContext"})
CreateSocket         == Succeeds("socket", "bind", {"serverSocket"})
BindSocket           == Succeeds("bind", "listen", {})
ListenSocket         == Succeeds("listen", "completionEvent", {})
CreateEventFd        == Succeeds("completionEvent", "shutdownEvent", {"completionEvent"})
CreateShutdownEventFd == Succeeds("shutdownEvent", "SIGINT", {"shutdownEvent"})

StartFails ==
  /\ at \in {"tls", "socket", "bind", "listen", "completionEvent", "shutdownEvent", "SIGINT"}
  /\ exit' = 1 /\ at' = "destroy"
  /\ UNCHANGED <<inputVars, server, open, signalVars, stopVars, loopVars, poolVars>>

\* installSignalHandlers.  The flag and the descriptor are set first; a signal
\* before the first sigaction still ends the process.
HandleSigint ==
  /\ at = "SIGINT" /\ at' = "SIGTERM"
  /\ flag' = "no" /\ signalFd' = TRUE
  /\ handlers' = {"SIGINT"}
  /\ UNCHANGED <<inputVars, serverVars, installed, inHandler, signals, caught,
                 stopVars, loopVars, poolVars>>

HandleSigterm ==
  /\ at = "SIGTERM" /\ at' = "run"
  /\ handlers' = Signal /\ installed' = TRUE
  /\ UNCHANGED <<inputVars, serverVars, signalFd, flag, inHandler, signals, caught,
                 stopVars, loopVars, poolVars>>

HandleSigtermFails ==
  /\ at = "SIGTERM" /\ at' = "destroy" /\ exit' = 1
  /\ handlers' = {} /\ signalFd' = FALSE
  /\ UNCHANGED <<inputVars, server, open, installed, flag, inHandler, signals, caught,
                 stopVars, loopVars, poolVars>>

Run ==
  /\ at = "run" /\ running' = TRUE
  /\ at' = "epoll"
  /\ UNCHANGED <<inputVars, serverVars, signalVars, shutdownEvent, loopVars, poolVars>>

----------------------------------------------------------------------------
(* acceptLoop, as far as it ends *)

\* epoll_create1 or one of three epoll_ctl calls: the early returns leave
\* running set, and start returns true.
EnterLoop ==
  /\ at = "epoll"
  /\ at' \in {"wait", "restore"}
  /\ UNCHANGED <<inputVars, serverVars, signalVars, stopVars, loopVars, poolVars>>

\* What a thread that looks at the flag may find.
Seen == IF flag = "racing" THEN BOOLEAN ELSE {flag = "yes"}

\* stop, if asked for.
StopIf(asked) ==
  /\ running' = (running /\ ~asked)
  /\ shutdownEvent' = IF running /\ asked THEN shutdownEvent + 1 ELSE shutdownEvent

\* The loop's condition.
NextTurn == at' = IF running' THEN "wait" ELSE "close"

WaitInterrupted ==
  /\ at = "wait" /\ interrupted
  /\ \E seen \in Seen : StopIf(seen)
  /\ interrupted' = FALSE
  /\ NextTurn
  /\ UNCHANGED <<inputVars, serverVars, signalVars, batch, poolVars>>

\* Clients may have connected or sent requests; at the latest, a second passes.
WaitReturns ==
  /\ at = "wait"
  /\ \E ready \in SUBSET {"accept", "request"} :
       batch' = ready \cup (IF shutdownEvent > 0 THEN {"shutdown"} ELSE {})
  /\ \E seen \in Seen : StopIf(seen)
  /\ interrupted' = FALSE
  /\ at' = "events"
  /\ UNCHANGED <<inputVars, serverVars, signalVars, poolVars>>

WaitFails ==
  /\ at = "wait" /\ at' = "close"
  /\ UNCHANGED <<inputVars, serverVars, signalVars, stopVars, loopVars, poolVars>>

Event(e) == at = "events" /\ running /\ e \in batch /\ batch' = batch \ {e}

\* accept4 may be interrupted.
AcceptEvent ==
  /\ Event("accept")
  /\ \E seen \in Seen \cup {FALSE} : StopIf(seen)
  /\ UNCHANGED <<inputVars, at, serverVars, signalVars, interrupted, poolVars>>

\* A request, and its task: processReadBuffer, enqueue.
RequestEvent ==
  /\ Event("request") /\ requests < MaxTasks
  /\ tasks' = tasks + 1 /\ requests' = requests + 1
  /\ UNCHANGED <<inputVars, at, serverVars, signalVars, stopVars, interrupted, worker, stopping>>

\* The counter is read, then stop writes it again.
HandleShutdownEvent ==
  /\ Event("shutdown")
  /\ running' = FALSE /\ shutdownEvent' = 1
  /\ UNCHANGED <<inputVars, at, serverVars, signalVars, interrupted, poolVars>>

EventsDone ==
  /\ at = "events" /\ (~running \/ batch \subseteq {"request"})
  /\ batch' = {}
  /\ at' = IF running THEN "wait" ELSE "close"
  /\ UNCHANGED <<inputVars, serverVars, signalVars, stopVars, interrupted, poolVars>>

CloseLoop ==
  /\ at = "close" /\ at' = "restore"
  /\ open' = open \ {"serverSocket"}
  /\ UNCHANGED <<inputVars, server, exit, signalVars, stopVars, loopVars, poolVars>>

----------------------------------------------------------------------------
(* The end *)

\* restoreSignalHandlers.  The descriptor is reset last: until then a worker may
\* be in the handler, and between the two calls a second signal may come.
RestoreSigint ==
  /\ at = "restore" /\ at' = "restoreSigterm"
  /\ handlers' = {"SIGTERM"}
  /\ UNCHANGED <<inputVars, serverVars, installed, signalFd, flag, inHandler, signals, caught,
                 stopVars, loopVars, poolVars>>

RestoreSigterm ==
  /\ at = "restoreSigterm" /\ at' = "destroy"
  /\ handlers' = {} /\ installed' = FALSE /\ signalFd' = FALSE
  /\ UNCHANGED <<inputVars, serverVars, flag, inHandler, signals, caught,
                 stopVars, loopVars, poolVars>>

\* Mutant: impl_ is declared after the pool, and so destroyed before it.
DestroyImplFirst ==
  /\ at = "destroy" /\ at' = "join"
  /\ stopping' = TRUE /\ open' = {}
  /\ UNCHANGED <<inputVars, server, exit, signalVars, stopVars, loopVars, worker, tasks, requests>>

\* ~Server: handlers are restored already; then the members, the last first.
DestroyServer ==
  /\ at = "destroy" /\ at' = "join"
  /\ stopping' = TRUE
  /\ UNCHANGED <<inputVars, serverVars, signalVars, stopVars, loopVars, worker, tasks, requests>>

\* The pool is gone once its threads have ended; impl_ is next.
Joined ==
  /\ at = "join" /\ at' = "ended"
  /\ \A w \in Worker : worker[w] = "ended"
  /\ open' = {}
  /\ UNCHANGED <<inputVars, server, exit, signalVars, stopVars, loopVars, poolVars>>

----------------------------------------------------------------------------
(* Workers *)

Free(w) == w \notin inHandler /\ at # "killed"

Take(w) ==
  /\ Free(w) /\ worker[w] = "idle" /\ tasks > 0
  /\ worker' = [worker EXCEPT ![w] = "busy"]
  /\ tasks' = tasks - 1
  /\ UNCHANGED <<inputVars, at, serverVars, signalVars, stopVars, loopVars, stopping, requests>>

\* The response is pushed to impl_'s deque, and its eventfd is written.
Finish(w) ==
  /\ Free(w) /\ worker[w] = "busy"
  /\ worker' = [worker EXCEPT ![w] = "idle"]
  /\ UNCHANGED <<inputVars, at, serverVars, signalVars, stopVars, loopVars,
                 tasks, stopping, requests>>

ThreadEnds(w) ==
  /\ Free(w) /\ worker[w] = "idle" /\ stopping /\ tasks = 0
  /\ worker' = [worker EXCEPT ![w] = "ended"]
  /\ UNCHANGED <<inputVars, at, serverVars, signalVars, stopVars, loopVars,
                 tasks, stopping, requests>>

----------------------------------------------------------------------------
(* Signals *)

Alive == at \notin {"ended", "killed"}

Arrives == Alive /\ signals < MaxSignals /\ signals' = signals + 1

\* The default action ends the process.
Kills(signal) ==
  /\ Arrives /\ signal \notin handlers
  /\ at' = "killed"
  /\ UNCHANGED <<inputVars, serverVars, handlers, installed, signalFd, flag, inHandler, caught,
                 stopVars, loopVars, poolVars>>

\* The handler on the main thread, which may be inside epoll_wait.
MainCatches(signal) ==
  /\ Arrives /\ signal \in handlers
  /\ flag' = "yes" /\ caught' = TRUE
  /\ shutdownEvent' = IF signalFd THEN shutdownEvent + 1 ELSE shutdownEvent
  /\ interrupted' \in {interrupted, at = "wait"}
  /\ UNCHANGED <<inputVars, at, serverVars, handlers, installed, signalFd, inHandler,
                 running, batch, poolVars>>

\* The handler on a worker, which may be busy.
WorkerCatches(w, signal) ==
  /\ Arrives /\ signal \in handlers
  /\ worker[w] \in {"idle", "busy"} /\ w \notin inHandler
  /\ flag' = IF flag = "yes" THEN "yes" ELSE "racing"
  /\ inHandler' = inHandler \cup {w} /\ caught' = TRUE
  /\ UNCHANGED <<inputVars, at, serverVars, handlers, installed, signalFd,
                 stopVars, loopVars, poolVars>>

\* Mutant: the handler only sets the flag.
HandlerReturns(w) ==
  /\ w \in inHandler /\ at # "killed"
  /\ inHandler' = inHandler \ {w}
  /\ UNCHANGED <<inputVars, at, serverVars, handlers, installed, signalFd, flag, signals, caught,
                 stopVars, loopVars, poolVars>>

HandlerWrites(w) ==
  /\ w \in inHandler /\ at # "killed"
  /\ inHandler' = inHandler \ {w}
  /\ shutdownEvent' = IF signalFd THEN shutdownEvent + 1 ELSE shutdownEvent
  /\ UNCHANGED <<inputVars, at, serverVars, handlers, installed, signalFd, flag, signals, caught,
                 running, loopVars, poolVars>>

----------------------------------------------------------------------------

Start ==
  \/ InitializeTlsContext \/ CreateSocket \/ BindSocket \/ ListenSocket
  \/ CreateEventFd \/ CreateShutdownEventFd \/ StartFails
  \/ HandleSigint \/ HandleSigterm \/ HandleSigtermFails \/ Run

AcceptLoop ==
  \/ EnterLoop \/ WaitInterrupted \/ WaitReturns \/ WaitFails
  \/ AcceptEvent \/ RequestEvent \/ HandleShutdownEvent \/ EventsDone \/ CloseLoop

Destruction == RestoreSigint \/ RestoreSigterm \/ DestroyServer \/ Joined

MainStep ==
  ReadOptions \/ ConstructServer \/ CreateThreadFails \/ Start \/ AcceptLoop \/ Destruction

WorkerStep(w) == Take(w) \/ Finish(w) \/ ThreadEnds(w) \/ HandlerWrites(w)

Signals ==
  \E signal \in Signal :
    Kills(signal) \/ MainCatches(signal) \/ \E w \in Worker : WorkerCatches(w, signal)

\* Nothing more happens.
Over == ~Alive /\ UNCHANGED vars

Next == MainStep \/ (\E w \in Worker : WorkerStep(w)) \/ Signals \/ Over

\* Threads run, and a handler does not compute for ever (no task waits).  Nobody
\* owes a signal or a request.
Fairness == WF_vars(MainStep) /\ \A w \in Worker : WF_vars(WorkerStep(w))

SafetySpec == Init /\ [][Next]_vars

Spec == SafetySpec /\ Fairness

----------------------------------------------------------------------------
(* Properties *)

\* The server runs with what README.md promises: the command line, then the file if
\* it is there and valid as a whole, then the defaults; and it does not run at
\* all on a bad command line.  A timeout from the file that does not fit
\* std::chrono::seconds counts as the default, and a connection is idle long
\* enough after just that many seconds, unless they overflow as nanoseconds.
SettingsHonoured ==
  /\ server # NoServer =>
       /\ WellFormedLine(arguments)
       /\ \A key \in Key :
            LET value == Promised(arguments, disk, key)
            IN  server[key] = IF key = Timeout /\ value > MaxSeconds THEN Defaults[key] ELSE value
       /\ server[Timeout] * NanosPerSecond <= MaxSeconds =>
            \A elapsed \in 0 .. MaxSeconds :
              Expired(elapsed, server[Timeout]) <=> elapsed >= server[Timeout] * NanosPerSecond
  /\ at = "ended" /\ server = NoServer =>
       IF exit = 1 THEN ~WellFormedLine(arguments) ELSE Positions(arguments, "--help") # {}

\* Nothing that is queued or running comes too late for impl_: neither a task, whose
\* worker will push a response to its deque and write its eventfd, nor a signal
\* handler, even one that read the descriptor before it was reset.
NothingTouchesClosed ==
  /\ tasks > 0 \/ (\E w \in Worker : worker[w] = "busy") =>
       {"impl", "completionEvent"} \subseteq open
  /\ signalFd \/ inHandler # {} => "shutdownEvent" \in open

\* Ctrl+C ends the process normally (README.md on graceful exit): once the handlers
\* are in place a signal is never lost, whichever thread takes it and wherever
\* main is, even if main never sees the flag a worker has set.
StopHonoured == (caught /\ installed) ~> (at = "ended" /\ exit = 0) \/ at = "killed"
=============================================================================
