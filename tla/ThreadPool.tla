----------------------------- MODULE ThreadPool -----------------------------
(***************************************************************************)
(* The worker pool: enqueue, workerLoop and the destructor, with one       *)
(* action per critical section of mutex_ and per notification.             *)
(*                                                                         *)
(* A worker in "check" is about to evaluate the wait predicate under the   *)
(* lock: it has just started, has been woken, or has finished a task.  A   *)
(* worker "asleep" is inside condition_.wait and needs a notification (or  *)
(* a spurious wake-up) to look again.                                      *)
(***************************************************************************)
EXTENDS Naturals, Sequences, FiniteSets, Functions

CONSTANTS
  Worker,        \* the threads of workers_
  Submitter,     \* the threads that call enqueue
  Task,          \* the tasks they submit, each of them once
  NoTask,        \* what a worker holds between two tasks
  MaxQueueSize   \* maxQueueSize_

\* Both constructor arguments are raised to at least 1.
ASSUME ThreadPoolAssumption ==
  /\ IsFiniteSet(Worker) /\ Worker # {}
  /\ IsFiniteSet(Submitter)
  /\ NoTask \notin Task
  /\ MaxQueueSize \in Nat \ {0}

VARIABLES
  tasks,       \* tasks_, front first
  stopping,    \* stopping_
  worker,      \* worker[w]: where workerLoop is, see WorkerState
  held,        \* held[w]: the local variable task of workerLoop
  submitter,   \* submitter[s]: "free", or "notify" between unlock and notify_one
  destructor,  \* where the destructor is, see DestructorState
  accepted,    \* history: the tasks enqueue returned true for, in order
  refused,     \* history: the tasks enqueue returned false for
  started,     \* history: the tasks the workers popped, in order
  executed     \* history: the tasks that came to their end

vars == <<tasks, stopping, worker, held, submitter, destructor,
          accepted, refused, started, executed>>

WorkerState == {"check", "asleep", "run", "exit"}
DestructorState == {"idle", "notify", "join", "done"}

In(state) == {w \in Worker : worker[w] = state}
Notifying == {s \in Submitter : submitter[s] = "notify"}

Init ==
  /\ tasks = <<>>
  /\ stopping = FALSE
  /\ worker = [w \in Worker |-> "check"]
  /\ held = [w \in Worker |-> NoTask]
  /\ submitter = [s \in Submitter |-> "free"]
  /\ destructor = "idle"
  /\ accepted = <<>>
  /\ refused = {}
  /\ started = <<>>
  /\ executed = {}

----------------------------------------------------------------------------
(* enqueue: the critical section, then notify_one after the unlock. *)

Fresh(s, t) == /\ submitter[s] = "free"
               /\ t \notin Range(accepted) \cup refused
               /\ destructor # "done"

\* Mutants of Enqueue: the bound is off by one; notify_one is left out; it is
\* only sent when the queue was empty.
EnqueueOneTooMany(s, t) ==
  /\ Fresh(s, t) /\ ~stopping /\ Len(tasks) <= MaxQueueSize
  /\ tasks' = Append(tasks, t)
  /\ accepted' = Append(accepted, t)
  /\ submitter' = [submitter EXCEPT ![s] = "notify"]
  /\ UNCHANGED <<stopping, worker, held, destructor, refused, started, executed>>

EnqueueSilently(s, t) ==
  /\ Fresh(s, t) /\ ~stopping /\ Len(tasks) < MaxQueueSize
  /\ tasks' = Append(tasks, t)
  /\ accepted' = Append(accepted, t)
  /\ UNCHANGED <<stopping, worker, held, submitter, destructor, refused, started, executed>>

EnqueueNotifiesIfEmpty(s, t) ==
  /\ Fresh(s, t) /\ ~stopping /\ Len(tasks) < MaxQueueSize
  /\ tasks' = Append(tasks, t)
  /\ accepted' = Append(accepted, t)
  /\ submitter' = [submitter EXCEPT ![s] = IF tasks = <<>> THEN "notify" ELSE @]
  /\ UNCHANGED <<stopping, worker, held, destructor, refused, started, executed>>

Enqueue(s, t) ==
  /\ Fresh(s, t)
  /\ ~stopping
  /\ Len(tasks) < MaxQueueSize
  /\ tasks' = Append(tasks, t)
  /\ accepted' = Append(accepted, t)
  /\ submitter' = [submitter EXCEPT ![s] = "notify"]
  /\ UNCHANGED <<stopping, worker, held, destructor, refused, started, executed>>

Refuse(s, t) ==
  /\ Fresh(s, t)
  /\ stopping \/ Len(tasks) >= MaxQueueSize
  /\ refused' = refused \cup {t}
  /\ UNCHANGED <<tasks, stopping, worker, held, submitter, destructor,
                 accepted, started, executed>>

\* Wakes one sleeper of the implementation's choice; nobody if none sleeps.
NotifyOne(s) ==
  /\ submitter[s] = "notify"
  /\ submitter' = [submitter EXCEPT ![s] = "free"]
  /\ \/ \E w \in In("asleep") : worker' = [worker EXCEPT ![w] = "check"]
     \/ In("asleep") = {} /\ UNCHANGED worker
  /\ UNCHANGED <<tasks, stopping, held, destructor,
                 accepted, refused, started, executed>>

----------------------------------------------------------------------------
(* workerLoop *)

\* Mutant: the wait predicate forgets stopping_.
SleepWhileStopping(w) ==
  /\ worker[w] = "check" /\ tasks = <<>>
  /\ worker' = [worker EXCEPT ![w] = "asleep"]
  /\ UNCHANGED <<tasks, stopping, held, submitter, destructor,
                 accepted, refused, started, executed>>

Sleep(w) ==
  /\ worker[w] = "check"
  /\ ~stopping /\ tasks = <<>>
  /\ worker' = [worker EXCEPT ![w] = "asleep"]
  /\ UNCHANGED <<tasks, stopping, held, submitter, destructor,
                 accepted, refused, started, executed>>

\* The standard lets condition_variable::wait return without a notification.
SpuriousWake(w) ==
  /\ worker[w] = "asleep"
  /\ worker' = [worker EXCEPT ![w] = "check"]
  /\ UNCHANGED <<tasks, stopping, held, submitter, destructor,
                 accepted, refused, started, executed>>

\* Mutants of Take: from the back of the queue; without the pop.
TakeNewest(w) ==
  /\ worker[w] = "check" /\ tasks # <<>>
  /\ worker' = [worker EXCEPT ![w] = "run"]
  /\ held' = [held EXCEPT ![w] = tasks[Len(tasks)]]
  /\ tasks' = SubSeq(tasks, 1, Len(tasks) - 1)
  /\ started' = Append(started, held'[w])
  /\ UNCHANGED <<stopping, submitter, destructor, accepted, refused, executed>>

TakeAndLeave(w) ==
  /\ worker[w] = "check" /\ tasks # <<>>
  /\ worker' = [worker EXCEPT ![w] = "run"]
  /\ held' = [held EXCEPT ![w] = Head(tasks)]
  /\ started' = Append(started, Head(tasks))
  /\ UNCHANGED <<tasks, stopping, submitter, destructor, accepted, refused, executed>>

\* A non-empty queue is served even when the pool is stopping.
Take(w) ==
  /\ worker[w] = "check"
  /\ tasks # <<>>
  /\ worker' = [worker EXCEPT ![w] = "run"]
  /\ held' = [held EXCEPT ![w] = Head(tasks)]
  /\ tasks' = Tail(tasks)
  /\ started' = Append(started, Head(tasks))
  /\ UNCHANGED <<stopping, submitter, destructor, accepted, refused, executed>>

\* The task returned, or threw: both catch clauses only write to the log.
Finish(w) ==
  /\ worker[w] = "run"
  /\ worker' = [worker EXCEPT ![w] = "check"]
  /\ held' = [held EXCEPT ![w] = NoTask]
  /\ executed' = executed \cup {held[w]}
  /\ UNCHANGED <<tasks, stopping, submitter, destructor,
                 accepted, refused, started>>

\* Mutant: leaves the loop without serving what is queued.
ExitAtOnce(w) ==
  /\ worker[w] = "check" /\ stopping
  /\ worker' = [worker EXCEPT ![w] = "exit"]
  /\ UNCHANGED <<tasks, stopping, held, submitter, destructor,
                 accepted, refused, started, executed>>

Exit(w) ==
  /\ worker[w] = "check"
  /\ stopping /\ tasks = <<>>
  /\ worker' = [worker EXCEPT ![w] = "exit"]
  /\ UNCHANGED <<tasks, stopping, held, submitter, destructor,
                 accepted, refused, started, executed>>

----------------------------------------------------------------------------
(* ~ThreadPool *)

BeginDestroy ==
  /\ destructor = "idle"
  /\ destructor' = "notify"
  /\ stopping' = TRUE
  /\ UNCHANGED <<tasks, worker, held, submitter,
                 accepted, refused, started, executed>>

\* Mutant: notify_one in place of notify_all.
NotifyOneOfAll ==
  /\ destructor = "notify"
  /\ destructor' = "join"
  /\ \/ \E w \in In("asleep") : worker' = [worker EXCEPT ![w] = "check"]
     \/ In("asleep") = {} /\ UNCHANGED worker
  /\ UNCHANGED <<tasks, stopping, held, submitter,
                 accepted, refused, started, executed>>

NotifyAll ==
  /\ destructor = "notify"
  /\ destructor' = "join"
  /\ worker' = [w \in Worker |-> IF worker[w] = "asleep" THEN "check" ELSE worker[w]]
  /\ UNCHANGED <<tasks, stopping, held, submitter,
                 accepted, refused, started, executed>>

\* The joins of the loop, in whatever order the workers end.  A call of
\* enqueue that outlives the pool is excluded by its callers: the only one,
\* Server, calls it from the thread that later destroys it.
Join ==
  /\ destructor = "join"
  /\ In("exit") = Worker
  /\ Notifying = {}
  /\ destructor' = "done"
  /\ UNCHANGED <<tasks, stopping, worker, held, submitter,
                 accepted, refused, started, executed>>

\* The pool is gone: the only state without another step.
Terminated == destructor = "done" /\ UNCHANGED vars

----------------------------------------------------------------------------

WorkerStep(w) == Sleep(w) \/ Take(w) \/ Finish(w) \/ Exit(w)

Next ==
  \/ \E s \in Submitter, t \in Task : Enqueue(s, t) \/ Refuse(s, t)
  \/ \E s \in Submitter : NotifyOne(s)
  \/ \E w \in Worker : WorkerStep(w) \/ SpuriousWake(w)
  \/ BeginDestroy \/ NotifyAll \/ Join
  \/ Terminated

\* Threads keep running and a thread that wants mutex_ eventually gets it;
\* every task returns.  Nobody has to submit or to destroy, and a spurious
\* wake-up is never owed.
Fairness ==
  /\ \A w \in Worker : WF_vars(WorkerStep(w))
  /\ \A s \in Submitter : WF_vars(NotifyOne(s))
  /\ WF_vars(NotifyAll)
  /\ WF_vars(Join)

SafetySpec == Init /\ [][Next]_vars

Spec == SafetySpec /\ Fairness

----------------------------------------------------------------------------
(* Properties *)

\* Every variable stays in its type, and the queue within its bound.
TypeOK ==
  /\ tasks \in Seq(Task) /\ Len(tasks) <= MaxQueueSize
  /\ stopping \in BOOLEAN
  /\ worker \in [Worker -> WorkerState]
  /\ held \in [Worker -> Task \cup {NoTask}]
  /\ submitter \in [Submitter -> {"free", "notify"}]
  /\ destructor \in DestructorState
  /\ accepted \in Seq(Task)
  /\ refused \in SUBSET Task
  /\ started \in Seq(Task)
  /\ executed \in SUBSET Task

\* No lost wake-up: while a worker sleeps, every queued task is matched by a
\* worker about to look at the queue or by a notify_one still to be sent.
\* The notification is sent after the unlock, so it may reach a worker
\* that finds the queue already emptied by another one.
WorkConserving ==
  In("asleep") # {} =>
    Len(tasks) <= Cardinality(In("check")) + Cardinality(Notifying)

\* Once the destructor has notified, nobody sleeps again: the joins cannot
\* wait for a worker that nothing will wake.
NobodySleepsThroughStop == destructor \in {"join", "done"} => In("asleep") = {}

\* Tasks start in the order in which enqueue accepted them, none is skipped
\* and none starts twice, whatever the workers' interleaving.
FirstInFirstOut == accepted = started \o tasks

\* A task that was started is in the hands of exactly one worker or has been
\* executed, and a task its caller was told is refused never reaches a worker
\* (the server has already answered 503 for it).
ExactlyOnce ==
  /\ \A i, j \in DOMAIN accepted : accepted[i] = accepted[j] => i = j
  /\ \A v, w \in Worker : held[v] = held[w] /\ held[v] # NoTask => v = w
  /\ Range(started) = executed \cup (Range(held) \ {NoTask})
  /\ executed \cap Range(held) = {}
  /\ refused \cap Range(accepted) = {}

\* The destructor returns only after every accepted task has been executed
\* and every worker has ended ("destructor should let queued tasks complete
\* before joining", tests/test_core.cpp).
DrainedBeforeDestroyed ==
  destructor = "done" => /\ In("exit") = Worker
                         /\ executed = Range(accepted)

\* A destructor that was entered returns.
DestructorReturns == stopping ~> destructor = "done"

TQ == INSTANCE TaskQueue

\* The pool implements the abstract task queue, its fairness included: a task
\* that is queued is eventually taken, and one that is taken comes to its end.
ImplementsTaskQueue == TQ!Spec
============================================================================
