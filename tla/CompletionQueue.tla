-------------------------- MODULE CompletionQueue --------------------------
(***************************************************************************)
(* How a worker's response gets back to the event loop: queueResponse      *)
(* pushes it under completionsMutex and then writes the eventfd            *)
(* completionEvent; handleCompletionEvent, run when epoll reports the      *)
(* eventfd, first drains it and then swaps the whole deque out, and        *)
(* delivers the completions one by one without the lock.                   *)
(***************************************************************************)
EXTENDS Naturals, Sequences, Functions

CONSTANTS
  Worker,       \* the pool's threads
  Completion    \* the responses they hand over, each of them once

VARIABLES
  completions,  \* impl_->completions, front first
  eventfd,      \* whether the counter of completionEvent is nonzero
  worker,       \* worker[w]: "idle", or "notify" between unlock and write
  loop,         \* the event loop: "wait", "drained" or "deliver"
  taken,        \* the deque swapped out and not yet delivered
  pushed,       \* history: every completion pushed, in order
  received      \* history: every completion delivered, in order

vars == <<completions, eventfd, worker, loop, taken, pushed, received>>

Init ==
  /\ completions = <<>>
  /\ eventfd = FALSE
  /\ worker = [w \in Worker |-> "idle"]
  /\ loop = "wait"
  /\ taken = <<>>
  /\ pushed = <<>>
  /\ received = <<>>

----------------------------------------------------------------------------
(* queueResponse and notifyCompletionEvent, on a worker *)

Push(w, c) ==
  /\ worker[w] = "idle"
  /\ c \notin Range(pushed)
  /\ completions' = Append(completions, c)
  /\ pushed' = Append(pushed, c)
  /\ worker' = [worker EXCEPT ![w] = "notify"]
  /\ UNCHANGED <<eventfd, loop, taken, received>>

\* Writing 1 to the counter; a write that would overflow it finds it nonzero.
Notify(w) ==
  /\ worker[w] = "notify"
  /\ eventfd' = TRUE
  /\ worker' = [worker EXCEPT ![w] = "idle"]
  /\ UNCHANGED <<completions, loop, taken, pushed, received>>

----------------------------------------------------------------------------
(* handleCompletionEvent, on the event loop *)

\* epoll_wait reports the level-triggered eventfd only while it is nonzero.
\* The read loop ends with a read that finds the counter at zero, so the
\* step stands for the last read that found it nonzero.
Drain ==
  /\ loop = "wait"
  /\ eventfd
  /\ eventfd' = FALSE
  /\ loop' = "drained"
  /\ UNCHANGED <<completions, worker, taken, pushed, received>>

\* Mutant: takes a single completion per wake-up.
SwapOne ==
  /\ loop = "drained"
  /\ taken' = SubSeq(completions, 1, 1)
  /\ completions' = SubSeq(completions, 2, Len(completions))
  /\ loop' = "deliver"
  /\ UNCHANGED <<eventfd, worker, pushed, received>>

Swap ==
  /\ loop = "drained"
  /\ taken' = completions
  /\ completions' = <<>>
  /\ loop' = "deliver"
  /\ UNCHANGED <<eventfd, worker, pushed, received>>

\* Mutant: delivers from the back of the deque.
DeliverNewest ==
  /\ loop = "deliver" /\ taken # <<>>
  /\ received' = Append(received, taken[Len(taken)])
  /\ taken' = SubSeq(taken, 1, Len(taken) - 1)
  /\ UNCHANGED <<completions, eventfd, worker, loop, pushed>>

Deliver ==
  /\ loop = "deliver"
  /\ taken # <<>>
  /\ received' = Append(received, Head(taken))
  /\ taken' = Tail(taken)
  /\ UNCHANGED <<completions, eventfd, worker, loop, pushed>>

\* Mutants of Return: the eventfd is drained at the end of the handler too;
\* the handler returns after a delivery with the rest still in hand.
ReturnAndDrain ==
  /\ loop = "deliver" /\ taken = <<>>
  /\ loop' = "wait" /\ eventfd' = FALSE
  /\ UNCHANGED <<completions, worker, taken, pushed, received>>

ReturnEarly ==
  /\ loop = "deliver"
  /\ loop' = "wait"
  /\ UNCHANGED <<completions, eventfd, worker, taken, pushed, received>>

Return ==
  /\ loop = "deliver"
  /\ taken = <<>>
  /\ loop' = "wait"
  /\ UNCHANGED <<completions, eventfd, worker, taken, pushed, received>>

LoopStep == Drain \/ Swap \/ Deliver \/ Return

\* The workload is over: the only state without another step.
Done ==
  /\ Range(pushed) = Completion /\ received = pushed
  /\ loop = "wait" /\ ~eventfd
  /\ \A w \in Worker : worker[w] = "idle"
  /\ UNCHANGED vars

Next == \/ \E w \in Worker : Notify(w) \/ \E c \in Completion : Push(w, c)
        \/ LoopStep
        \/ Done

\* The loop keeps running and a worker that pushed goes on to write.
Fairness == WF_vars(LoopStep) /\ \A w \in Worker : WF_vars(Notify(w))

SafetySpec == Init /\ [][Next]_vars

Spec == SafetySpec /\ Fairness

----------------------------------------------------------------------------
(* Properties *)

\* Every variable stays in its type, and the local deque exists only while it
\* is delivered.
TypeOK ==
  /\ completions \in Seq(Completion)
  /\ eventfd \in BOOLEAN
  /\ worker \in [Worker -> {"idle", "notify"}]
  /\ loop \in {"wait", "drained", "deliver"}
  /\ taken \in Seq(Completion)
  /\ pushed \in Seq(Completion)
  /\ received \in Seq(Completion)
  /\ taken # <<>> => loop = "deliver"

\* A completion in the deque always has a wake-up on its way: the eventfd is
\* set, a worker is about to set it, or the loop has drained it and not yet
\* looked at the deque.  This is why the drain comes before the swap.
NoLostWakeUp ==
  completions # <<>> =>
    eventfd \/ loop = "drained" \/ \E w \in Worker : worker[w] = "notify"

\* Completions are delivered in the order of their pushes, none twice and none
\* skipped, however the pushes fall between the drain, the swap and the
\* deliveries.
DeliveredInOrder == pushed = received \o (taken \o completions)

\* The channel implements the mailbox, which includes that every completion
\* pushed is eventually delivered.
MB == INSTANCE Mailbox WITH box <- taken \o completions
ImplementsMailbox == MB!Spec
============================================================================
