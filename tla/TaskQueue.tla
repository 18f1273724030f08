----------------------------- MODULE TaskQueue -----------------------------
(***************************************************************************)
(* What the thread pool promises its caller, without its mutex and its     *)
(* condition variable: a bounded first-in first-out queue of tasks that a   *)
(* fixed set of workers serves until it is closed and empty.                *)
(*                                                                         *)
(* ThreadPool implements this module; Server composes it with the event    *)
(* loop in place of the detailed pool.                                     *)
(***************************************************************************)
EXTENDS Naturals, Sequences

CONSTANTS
  Worker,        \* the threads of workers_
  Task,          \* everything that may ever be submitted
  NoTask,        \* what an idle worker holds
  MaxQueueSize   \* maxQueueSize_, at least 1 (the constructor clamps it)

VARIABLES
  tasks,     \* tasks_, front first
  held,      \* held[w]: the task worker w has taken and not yet finished
  stopping   \* stopping_

vars == <<tasks, held, stopping>>

Init == /\ tasks = <<>>
        /\ held = [w \in Worker |-> NoTask]
        /\ stopping = FALSE

\* enqueue returns true exactly when this holds at its critical section.
Accepts == ~stopping /\ Len(tasks) < MaxQueueSize

Enqueue(t) == /\ Accepts
              /\ tasks' = Append(tasks, t)
              /\ UNCHANGED <<held, stopping>>

Take(w) == /\ held[w] = NoTask
           /\ tasks # <<>>
           /\ held' = [held EXCEPT ![w] = Head(tasks)]
           /\ tasks' = Tail(tasks)
           /\ UNCHANGED stopping

\* The task returned, or threw and the worker swallowed the exception.
Finish(w) == /\ held[w] # NoTask
             /\ held' = [held EXCEPT ![w] = NoTask]
             /\ UNCHANGED <<tasks, stopping>>

Stop == /\ ~stopping
        /\ stopping' = TRUE
        /\ UNCHANGED <<tasks, held>>

Next == \/ \E t \in Task : Enqueue(t)
        \/ \E w \in Worker : Take(w) \/ Finish(w)
        \/ Stop

\* A queued task is taken whenever some worker is free, and a taken task
\* comes to its end.
Fairness == /\ WF_vars(\E w \in Worker : Take(w))
            /\ \A w \in Worker : WF_vars(Finish(w))

SafetySpec == Init /\ [][Next]_vars

Spec == SafetySpec /\ Fairness
============================================================================
