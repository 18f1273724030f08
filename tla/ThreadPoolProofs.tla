-------------------------- MODULE ThreadPoolProofs --------------------------
(***************************************************************************)
(* Proofs about ThreadPool, for any finite set of workers and submitters,  *)
(* any set of tasks and any queue bound.                                   *)
(***************************************************************************)
EXTENDS ThreadPool, SequenceTheorems, FiniteSetTheorems, TLAPS

(***************************************************************************)
(* Facts about sequences                                                   *)
(***************************************************************************)

\* Appending adds one element to the range of a sequence.
LEMMA RangeOfAppend ==
  ASSUME NEW S, NEW s \in Seq(S), NEW e \in S
  PROVE  Range(Append(s, e)) = Range(s) \cup {e}
<1>1. /\ Len(s) \in Nat
      /\ DOMAIN s = 1 .. Len(s)
      /\ DOMAIN Append(s, e) = 1 .. (Len(s) + 1)
  BY LenProperties, AppendProperties
<1>2. /\ \A i \in 1 .. Len(s) : Append(s, e)[i] = s[i]
      /\ Append(s, e)[Len(s) + 1] = e
  BY AppendProperties
<1> QED
  BY <1>1, <1>2 DEF Range

\* Moving the head of one sequence to the end of another keeps their
\* concatenation.
LEMMA ConcatShift ==
  ASSUME NEW S, NEW s \in Seq(S), NEW t \in Seq(S), t # <<>>
  PROVE  Append(s, Head(t)) \o Tail(t) = s \o t
<1>1. /\ Head(t) \in S /\ Tail(t) \in Seq(S)
      /\ <<Head(t)>> \in Seq(S)
  BY HeadTailProperties
<1>2. Append(s, Head(t)) = s \o <<Head(t)>>
  BY <1>1, AppendIsConcat
<1>3. t = <<Head(t)>> \o Tail(t)
  BY SMTT(30)
<1>4. (s \o <<Head(t)>>) \o Tail(t) = s \o (<<Head(t)>> \o Tail(t))
  BY <1>1, ConcatAssociative
<1> QED
  BY <1>2, <1>3, <1>4

\* Appending to the second of two concatenated sequences appends to the whole.
LEMMA ConcatAppend ==
  ASSUME NEW S, NEW s \in Seq(S), NEW t \in Seq(S), NEW e \in S
  PROVE  s \o Append(t, e) = Append(s \o t, e)
<1>1. <<e>> \in Seq(S) /\ s \o t \in Seq(S)
  BY ConcatProperties
<1>2. Append(t, e) = t \o <<e>> /\ Append(s \o t, e) = (s \o t) \o <<e>>
  BY <1>1, AppendIsConcat
<1> QED
  BY <1>1, <1>2, ConcatAssociative

(***************************************************************************)
(* Type correctness                                                        *)
(***************************************************************************)

\* A worker holds a task exactly while it runs one.
HeldIffRunning == \A w \in Worker : worker[w] = "run" <=> held[w] # NoTask

TypeInv == TypeOK /\ HeldIffRunning

LEMMA InitTypeInv == Init => TypeInv
<1>1. <<>> \in Seq(Task) /\ Len(<<>>) <= MaxQueueSize
  BY ThreadPoolAssumption, EmptySeq
<1> QED
  BY <1>1 DEF Init, TypeInv, TypeOK, HeldIffRunning, WorkerState, DestructorState

LEMMA NextTypeInv == TypeInv /\ [Next]_vars => TypeInv'
<1> SUFFICES ASSUME TypeInv, [Next]_vars PROVE TypeInv'
  OBVIOUS
<1> USE ThreadPoolAssumption
    DEF TypeInv, TypeOK, HeldIffRunning, WorkerState, DestructorState
<1>1. ASSUME NEW s \in Submitter, NEW t \in Task, Enqueue(s, t)
      PROVE  TypeInv'
  BY <1>1, AppendProperties, LenProperties DEF Enqueue, Fresh
<1>2. ASSUME NEW s \in Submitter, NEW t \in Task, Refuse(s, t)
      PROVE  TypeInv'
  BY <1>2 DEF Refuse
<1>3. ASSUME NEW s \in Submitter, NotifyOne(s)
      PROVE  TypeInv'
  BY <1>3 DEF NotifyOne, In
<1>4. ASSUME NEW w \in Worker, Sleep(w)
      PROVE  TypeInv'
  BY <1>4 DEF Sleep
<1>5. ASSUME NEW w \in Worker, SpuriousWake(w)
      PROVE  TypeInv'
  BY <1>5 DEF SpuriousWake
<1>6. ASSUME NEW w \in Worker, Take(w)
      PROVE  TypeInv'
  <2>1. /\ Head(tasks) \in Task
        /\ Tail(tasks) \in Seq(Task)
        /\ Len(Tail(tasks)) <= MaxQueueSize
    BY <1>6, HeadTailProperties, LenProperties DEF Take
  <2>2. Append(started, Head(tasks)) \in Seq(Task)
    BY <2>1, AppendProperties
  <2> QED
    BY <1>6, <2>1, <2>2 DEF Take
<1>7. ASSUME NEW w \in Worker, Finish(w)
      PROVE  TypeInv'
  BY <1>7 DEF Finish
<1>8. ASSUME NEW w \in Worker, Exit(w)
      PROVE  TypeInv'
  BY <1>8 DEF Exit
<1>9. CASE BeginDestroy
  BY <1>9 DEF BeginDestroy
<1>10. CASE NotifyAll
  BY <1>10 DEF NotifyAll
<1>11. CASE Join
  BY <1>11 DEF Join
<1>12. CASE UNCHANGED vars
  BY <1>12 DEF vars
<1> QED
  BY <1>1, <1>2, <1>3, <1>4, <1>5, <1>6, <1>7, <1>8, <1>9, <1>10, <1>11, <1>12
     DEF Next, WorkerStep, Terminated

\* Every variable stays in its type: in particular the queue never exceeds
\* maxQueueSize_ and only running workers hold a task.
THEOREM TypeCorrect == SafetySpec => []TypeOK
<1>1. TypeInv => TypeOK
  BY DEF TypeInv
<1> QED
  BY <1>1, InitTypeInv, NextTypeInv, PTL DEF SafetySpec

(***************************************************************************)
(* Sleeping and waking                                                     *)
(***************************************************************************)

\* How the destructor's progress constrains the workers: it is entered only
\* by setting stopping_, a worker ends only once the queue is drained, and
\* nobody sleeps after notify_all.
StopOrder ==
  /\ destructor # "idle" <=> stopping
  /\ \A w \in Worker : worker[w] = "exit" => stopping /\ tasks = <<>>
  /\ NobodySleepsThroughStop
  /\ destructor = "done" => In("exit") = Worker

LEMMA InitStopOrder == Init => StopOrder
BY DEF Init, StopOrder, NobodySleepsThroughStop

LEMMA NextStopOrder == TypeInv /\ StopOrder /\ [Next]_vars => StopOrder'
<1> SUFFICES ASSUME TypeInv, StopOrder, [Next]_vars PROVE StopOrder'
  OBVIOUS
<1> USE DEF TypeInv, TypeOK, StopOrder, NobodySleepsThroughStop, In,
            WorkerState, DestructorState
<1>1. ASSUME NEW s \in Submitter, NEW t \in Task, Enqueue(s, t)
      PROVE  StopOrder'
  BY <1>1 DEF Enqueue, Fresh
<1>2. ASSUME NEW s \in Submitter, NEW t \in Task, Refuse(s, t)
      PROVE  StopOrder'
  BY <1>2 DEF Refuse
<1>3. ASSUME NEW s \in Submitter, NotifyOne(s)
      PROVE  StopOrder'
  BY <1>3 DEF NotifyOne
<1>4. ASSUME NEW w \in Worker, Sleep(w)
      PROVE  StopOrder'
  BY <1>4 DEF Sleep
<1>5. ASSUME NEW w \in Worker, SpuriousWake(w)
      PROVE  StopOrder'
  BY <1>5 DEF SpuriousWake
<1>6. ASSUME NEW w \in Worker, Take(w)
      PROVE  StopOrder'
  BY <1>6 DEF Take
<1>7. ASSUME NEW w \in Worker, Finish(w)
      PROVE  StopOrder'
  BY <1>7 DEF Finish
<1>8. ASSUME NEW w \in Worker, Exit(w)
      PROVE  StopOrder'
  BY <1>8 DEF Exit
<1>9. CASE BeginDestroy
  BY <1>9 DEF BeginDestroy
<1>10. CASE NotifyAll
  BY <1>10 DEF NotifyAll
<1>11. CASE Join
  BY <1>11 DEF Join
<1>12. CASE UNCHANGED vars
  BY <1>12 DEF vars
<1> QED
  BY <1>1, <1>2, <1>3, <1>4, <1>5, <1>6, <1>7, <1>8, <1>9, <1>10, <1>11, <1>12
     DEF Next, WorkerStep, Terminated

\* No worker sleeps once the destructor has sent notify_all, so the joins
\* never wait for a worker that nothing will wake.
THEOREM NoSleeperAtJoin == SafetySpec => []NobodySleepsThroughStop
<1>1. StopOrder => NobodySleepsThroughStop
  BY DEF StopOrder
<1> QED
  BY <1>1, InitTypeInv, NextTypeInv, InitStopOrder, NextStopOrder, PTL
     DEF SafetySpec

\* The workers in a state, and the submitters about to notify, can be counted.
LEMMA Countable ==
  /\ \A state : IsFiniteSet(In(state)) /\ Cardinality(In(state)) \in Nat
  /\ IsFiniteSet(Notifying) /\ Cardinality(Notifying) \in Nat
<1>1. ASSUME NEW state
      PROVE  IsFiniteSet(In(state)) /\ Cardinality(In(state)) \in Nat
  BY ThreadPoolAssumption, FS_Subset, FS_CardinalityType DEF In
<1>2. IsFiniteSet(Notifying) /\ Cardinality(Notifying) \in Nat
  BY ThreadPoolAssumption, FS_Subset, FS_CardinalityType DEF Notifying
<1> QED
  BY <1>1, <1>2

\* A step that moves one worker into or out of "check" changes its count by
\* one; WorkConserving needs no other arithmetic about the workers.
LEMMA NextWorkConserving ==
  TypeInv /\ StopOrder /\ WorkConserving /\ [Next]_vars => WorkConserving'
<1> SUFFICES ASSUME TypeInv, StopOrder, WorkConserving, [Next]_vars
             PROVE  WorkConserving'
  OBVIOUS
<1>len. Len(tasks) \in Nat
  BY LenProperties DEF TypeInv, TypeOK
<1> USE Countable DEF WorkConserving, TypeInv, TypeOK
<1>1. ASSUME NEW s \in Submitter, NEW t \in Task, Enqueue(s, t)
      PROVE  WorkConserving'
  <2>1. s \notin Notifying /\ Notifying' = Notifying \cup {s}
    BY <1>1 DEF Enqueue, Fresh, Notifying
  <2>2. Cardinality(Notifying') = Cardinality(Notifying) + 1
    BY <2>1, FS_AddElement
  <2>3. Len(tasks') = Len(tasks) + 1
    BY <1>1, AppendProperties DEF Enqueue
  <2>4. \A state : In(state)' = In(state)
    BY <1>1 DEF Enqueue, In
  <2> QED
    BY <1>len, <2>2, <2>3, <2>4
<1>2. ASSUME NEW s \in Submitter, NEW t \in Task, Refuse(s, t)
      PROVE  WorkConserving'
  BY <1>2 DEF Refuse, In, Notifying
<1>3. ASSUME NEW s \in Submitter, NotifyOne(s)
      PROVE  WorkConserving'
  <2>1. s \in Notifying /\ Notifying' = Notifying \ {s} /\ tasks' = tasks
    BY <1>3 DEF NotifyOne, Notifying
  <2>2. Cardinality(Notifying') = Cardinality(Notifying) - 1
    BY <2>1, FS_RemoveElement
  <2>3. CASE In("asleep") = {} /\ UNCHANGED worker
    BY <2>3 DEF In
  <2>4. ASSUME NEW w \in In("asleep"), worker' = [worker EXCEPT ![w] = "check"]
        PROVE  WorkConserving'
    <3>1. w \notin In("check") /\ In("check")' = In("check") \cup {w}
          /\ In("asleep") # {}
      BY <2>4 DEF In
    <3>2. Cardinality(In("check")') = Cardinality(In("check")) + 1
      BY <3>1, FS_AddElement
    <3> QED
      BY <1>len, <2>1, <2>2, <3>1, <3>2
  <2> QED
    BY <1>3, <2>3, <2>4 DEF NotifyOne
<1>4. ASSUME NEW w \in Worker, Sleep(w)
      PROVE  WorkConserving'
  <2>1. Len(tasks') = 0
    BY <1>4 DEF Sleep
  <2>2. Notifying' = Notifying /\ Cardinality(In("check")') \in Nat
    <3>1. In("check")' \subseteq Worker
      BY DEF In
    <3> QED
      BY <1>4, <3>1, ThreadPoolAssumption, FS_Subset, FS_CardinalityType
         DEF Sleep, Notifying
  <2> QED
    BY <2>1, <2>2
<1>5. ASSUME NEW w \in Worker, SpuriousWake(w)
      PROVE  WorkConserving'
  <2>1. /\ w \notin In("check") /\ In("check")' = In("check") \cup {w}
        /\ In("asleep") # {}
        /\ Notifying' = Notifying /\ tasks' = tasks
    BY <1>5 DEF SpuriousWake, In, Notifying
  <2>2. Cardinality(In("check")') = Cardinality(In("check")) + 1
    BY <2>1, FS_AddElement
  <2> QED
    BY <1>len, <2>1, <2>2
<1>6. ASSUME NEW w \in Worker, Take(w)
      PROVE  WorkConserving'
  <2>1. /\ w \in In("check") /\ In("check")' = In("check") \ {w}
        /\ In("asleep")' = In("asleep")
        /\ Notifying' = Notifying
    BY <1>6 DEF Take, In, Notifying
  <2>2. Cardinality(In("check")') = Cardinality(In("check")) - 1
    BY <2>1, FS_RemoveElement
  <2>3. Len(tasks') = Len(tasks) - 1
    BY <1>6, HeadTailProperties DEF Take
  <2> QED
    BY <1>len, <2>1, <2>2, <2>3
<1>7. ASSUME NEW w \in Worker, Finish(w)
      PROVE  WorkConserving'
  <2>1. /\ w \notin In("check") /\ In("check")' = In("check") \cup {w}
        /\ In("asleep")' = In("asleep")
        /\ Notifying' = Notifying /\ tasks' = tasks
    BY <1>7 DEF Finish, In, Notifying
  <2>2. Cardinality(In("check")') = Cardinality(In("check")) + 1
    BY <2>1, FS_AddElement
  <2> QED
    BY <1>len, <2>1, <2>2
<1>8. ASSUME NEW w \in Worker, Exit(w)
      PROVE  WorkConserving'
  <2>1. Len(tasks') = 0 /\ Notifying' = Notifying
    BY <1>8 DEF Exit, Notifying
  <2>2. Cardinality(In("check")') \in Nat
    <3>1. In("check")' \subseteq Worker
      BY DEF In
    <3> QED
      BY <3>1, ThreadPoolAssumption, FS_Subset, FS_CardinalityType
  <2> QED
    BY <2>1, <2>2
<1>9. CASE BeginDestroy
  BY <1>9 DEF BeginDestroy, In, Notifying
<1>10. CASE NotifyAll
  BY <1>10 DEF NotifyAll, In
<1>11. CASE Join
  BY <1>11 DEF Join, In, Notifying
<1>12. CASE UNCHANGED vars
  BY <1>12 DEF vars, In, Notifying
<1> QED
  BY <1>1, <1>2, <1>3, <1>4, <1>5, <1>6, <1>7, <1>8, <1>9, <1>10, <1>11, <1>12
     DEF Next, WorkerStep, Terminated

\* No lost wake-up, for any number of workers and submitters: while a worker
\* sleeps, every queued task is matched by a worker about to look at the
\* queue or by a notification still to be sent.
THEOREM NoLostWakeUp == SafetySpec => []WorkConserving
<1>1. Init => WorkConserving
  BY DEF Init, WorkConserving, In
<1> QED
  BY <1>1, InitTypeInv, NextTypeInv, InitStopOrder, NextStopOrder,
     NextWorkConserving, PTL DEF SafetySpec

(***************************************************************************)
(* Order and exactly-once execution                                        *)
(***************************************************************************)

LEMMA NextFirstInFirstOut ==
  TypeInv /\ FirstInFirstOut /\ [Next]_vars => FirstInFirstOut'
<1> SUFFICES ASSUME TypeInv, FirstInFirstOut, [Next]_vars
             PROVE  FirstInFirstOut'
  OBVIOUS
<1>1. ASSUME NEW s \in Submitter, NEW t \in Task, Enqueue(s, t)
      PROVE  FirstInFirstOut'
  <2>1. started \o Append(tasks, t) = Append(started \o tasks, t)
    BY ConcatAppend DEF TypeInv, TypeOK
  <2> QED
    BY <1>1, <2>1 DEF Enqueue, FirstInFirstOut
<1>2. ASSUME NEW w \in Worker, Take(w)
      PROVE  FirstInFirstOut'
  <2>1. Append(started, Head(tasks)) \o Tail(tasks) = started \o tasks
    BY <1>2, ConcatShift DEF Take, TypeInv, TypeOK
  <2> QED
    BY <1>2, <2>1 DEF Take, FirstInFirstOut
<1>3. CASE UNCHANGED <<accepted, started, tasks>>
  BY <1>3 DEF FirstInFirstOut
<1>4. \/ \E s \in Submitter, t \in Task : Enqueue(s, t)
      \/ \E w \in Worker : Take(w)
      \/ UNCHANGED <<accepted, started, tasks>>
  BY DEF Next, WorkerStep, Terminated, Refuse, NotifyOne, Sleep, SpuriousWake,
         Finish, Exit, BeginDestroy, NotifyAll, Join, vars
<1> QED
  BY <1>1, <1>2, <1>3, <1>4

\* Tasks start in the order in which they were accepted.
THEOREM FifoOrder == SafetySpec => []FirstInFirstOut
<1>1. Init => FirstInFirstOut
  BY EmptySeq, ConcatEmptySeq DEF Init, FirstInFirstOut
<1> QED
  BY <1>1, InitTypeInv, NextTypeInv, NextFirstInFirstOut, PTL DEF SafetySpec

\* The task at the head of the queue has not been started before.
LEMMA HeadIsNew ==
  ASSUME TypeInv, FirstInFirstOut, ExactlyOnce, tasks # <<>>
  PROVE  Head(tasks) \notin Range(started)
<1> USE DEF TypeInv, TypeOK
<1>1. /\ Len(started) \in Nat /\ DOMAIN started = 1 .. Len(started)
      /\ Len(tasks) \in Nat \ {0}
  BY EmptySeq, LenProperties
<1>2. DOMAIN accepted = 1 .. (Len(started) + Len(tasks))
  BY LenProperties, ConcatProperties DEF FirstInFirstOut
<1>3. accepted[Len(started) + 1] = Head(tasks)
  <2>1. accepted[Len(started) + 1] = tasks[1]
    BY <1>1, ConcatProperties DEF FirstInFirstOut
  <2> QED
    BY <2>1, <1>1
<1>4. \A i \in 1 .. Len(started) : accepted[i] = started[i]
  BY <1>1, ConcatProperties DEF FirstInFirstOut
<1>5. ASSUME NEW i \in 1 .. Len(started), started[i] = Head(tasks) PROVE FALSE
  <2>1. /\ i \in DOMAIN accepted /\ Len(started) + 1 \in DOMAIN accepted
        /\ i # Len(started) + 1
    BY <1>1, <1>2
  <2>2. accepted[i] = accepted[Len(started) + 1]
    BY <1>3, <1>4, <1>5
  <2>3. \A m, n \in DOMAIN accepted : accepted[m] = accepted[n] => m = n
    BY Zenon DEF ExactlyOnce
  <2> QED
    BY <2>1, <2>2, <2>3, Zenon
<1> QED
  BY <1>1, <1>5 DEF Range

LEMMA NextExactlyOnce ==
  TypeInv /\ FirstInFirstOut /\ ExactlyOnce /\ [Next]_vars => ExactlyOnce'
<1> SUFFICES ASSUME TypeInv, FirstInFirstOut, ExactlyOnce, [Next]_vars
             PROVE  ExactlyOnce'
  OBVIOUS
<1> USE DEF TypeInv, TypeOK
<1>1. ASSUME NEW s \in Submitter, NEW t \in Task, Enqueue(s, t)
      PROVE  ExactlyOnce'
  <2>1. Range(accepted') = Range(accepted) \cup {t}
    BY <1>1, RangeOfAppend DEF Enqueue
  <2>2. t \notin Range(accepted) \cup refused
    BY <1>1 DEF Enqueue, Fresh
  <2>3. \A i, j \in DOMAIN accepted' : accepted'[i] = accepted'[j] => i = j
    <3>1. /\ Len(accepted) \in Nat
          /\ DOMAIN accepted = 1 .. Len(accepted)
          /\ DOMAIN accepted' = 1 .. (Len(accepted) + 1)
      BY <1>1, LenProperties, AppendProperties DEF Enqueue
    <3>2. /\ \A i \in 1 .. Len(accepted) : accepted'[i] = accepted[i]
          /\ accepted'[Len(accepted) + 1] = t
      BY <1>1, AppendProperties DEF Enqueue
    <3> QED
      BY <2>2, <3>1, <3>2 DEF ExactlyOnce, Range
  <2> QED
    BY <1>1, <2>1, <2>2, <2>3 DEF Enqueue, ExactlyOnce
<1>2. ASSUME NEW s \in Submitter, NEW t \in Task, Refuse(s, t)
      PROVE  ExactlyOnce'
  BY <1>2 DEF Refuse, Fresh, ExactlyOnce
<1>3. ASSUME NEW w \in Worker, Take(w)
      PROVE  ExactlyOnce'
  <2>1. Head(tasks) \in Task /\ Head(tasks) \notin Range(started)
    BY <1>3, HeadIsNew, HeadTailProperties DEF Take
  <2>2. Range(started') = Range(started) \cup {Head(tasks)}
    BY <1>3, <2>1, RangeOfAppend DEF Take
  <2>3. held[w] = NoTask
    BY <1>3 DEF Take, HeldIffRunning
  <2>4. Range(held') \ {NoTask} = (Range(held) \ {NoTask}) \cup {Head(tasks)}
    <3>1. /\ held \in [Worker -> Task \cup {NoTask}]
          /\ held' = [held EXCEPT ![w] = Head(tasks)]
      BY <1>3 DEF Take
    <3>2. Head(tasks) # NoTask
      BY <2>1, ThreadPoolAssumption
    <3> QED
      BY <2>3, <3>1, <3>2 DEF Range
  <2>5. Head(tasks) \notin executed /\ Head(tasks) \notin Range(held)
    BY <2>1, ThreadPoolAssumption DEF ExactlyOnce
  <2>6. \A u, v \in Worker : held'[u] = held'[v] /\ held'[v] # NoTask => u = v
    BY <1>3, <2>5 DEF Take, ExactlyOnce, Range
  <2>7. executed' \cap Range(held') = {}
    BY <1>3, <2>4, <2>5, ThreadPoolAssumption DEF Take, ExactlyOnce
  <2> QED
    BY <1>3, <2>2, <2>4, <2>6, <2>7 DEF Take, ExactlyOnce
<1>4. ASSUME NEW w \in Worker, Finish(w)
      PROVE  ExactlyOnce'
  <2>1. held[w] \in Task /\ held[w] # NoTask
    BY <1>4 DEF Finish, HeldIffRunning
  <2>2. held' = [held EXCEPT ![w] = NoTask] /\ executed' = executed \cup {held[w]}
    BY <1>4 DEF Finish
  <2>3. \A u \in Worker : u # w => held[u] # held[w]
    BY <2>1 DEF ExactlyOnce
  <2>4. Range(held') \ {NoTask} = (Range(held) \ {NoTask}) \ {held[w]}
    BY <2>1, <2>2, <2>3 DEF Range
  <2>5. held[w] \in Range(held) /\ held[w] \notin Range(held')
    BY <2>1, <2>2, <2>4 DEF Range
  <2>6. executed' \cap Range(held') = {}
    BY <2>2, <2>4, <2>5, ThreadPoolAssumption DEF ExactlyOnce
  <2>7. Range(started) = executed' \cup (Range(held') \ {NoTask})
    BY <2>1, <2>2, <2>4, <2>5 DEF ExactlyOnce
  <2>8. \A u, v \in Worker : held'[u] = held'[v] /\ held'[v] # NoTask => u = v
    BY <2>2 DEF ExactlyOnce
  <2> QED
    BY <1>4, <2>6, <2>7, <2>8 DEF Finish, ExactlyOnce
<1>5. CASE UNCHANGED <<accepted, refused, started, executed, held>>
  BY <1>5 DEF ExactlyOnce
<1> QED
  BY <1>1, <1>2, <1>3, <1>4, <1>5
     DEF Next, WorkerStep, Terminated, NotifyOne, Sleep, SpuriousWake,
         Exit, BeginDestroy, NotifyAll, Join, vars

LEMMA InitExactlyOnce == Init => FirstInFirstOut /\ ExactlyOnce
<1> SUFFICES ASSUME Init PROVE FirstInFirstOut /\ ExactlyOnce
  OBVIOUS
<1>1. FirstInFirstOut
  BY EmptySeq, ConcatEmptySeq DEF Init, FirstInFirstOut
<1>2. Range(accepted) = {} /\ Range(started) = {}
  BY DEF Init, Range
<1>3. Range(held) \ {NoTask} = {}
  BY DEF Init, Range
<1> QED
  BY <1>1, <1>2, <1>3 DEF Init, ExactlyOnce

\* A started task is held by one worker or executed, never both, and a
\* refused task never reaches a worker.
THEOREM ExecutedExactlyOnce == SafetySpec => []ExactlyOnce
BY InitTypeInv, NextTypeInv, InitExactlyOnce, NextFirstInFirstOut,
   NextExactlyOnce, PTL DEF SafetySpec

\* The destructor returns only when every worker has ended and every accepted
\* task has been executed.
THEOREM DestructorDrains == SafetySpec => []DrainedBeforeDestroyed
<1>1. TypeInv /\ StopOrder /\ FirstInFirstOut /\ ExactlyOnce
        => DrainedBeforeDestroyed
  <2> SUFFICES ASSUME TypeInv, StopOrder, FirstInFirstOut, ExactlyOnce,
                      destructor = "done"
               PROVE  In("exit") = Worker /\ executed = Range(accepted)
    BY DEF DrainedBeforeDestroyed
  <2>1. In("exit") = Worker
    BY DEF StopOrder
  <2>2. tasks = <<>>
    BY <2>1, ThreadPoolAssumption DEF StopOrder, In
  <2>3. accepted = started
    BY <2>2, ConcatEmptySeq DEF FirstInFirstOut, TypeInv, TypeOK
  <2>4. \A w \in Worker : held[w] = NoTask
    BY <2>1 DEF In, TypeInv, HeldIffRunning
  <2>5. Range(held) \ {NoTask} = {}
    BY <2>4 DEF Range, TypeInv, TypeOK
  <2> QED
    BY <2>1, <2>3, <2>5 DEF ExactlyOnce
<1> QED
  BY <1>1, InitTypeInv, NextTypeInv, InitStopOrder, NextStopOrder,
     InitExactlyOnce, NextFirstInFirstOut, NextExactlyOnce, PTL DEF SafetySpec

(***************************************************************************)
(* Refinement                                                              *)
(***************************************************************************)

\* Every step of the pool is a step of the abstract task queue or leaves its
\* variables alone: the mutex, the condition variable and the destructor's
\* phases are invisible to the caller.
THEOREM Refinement == SafetySpec => TQ!SafetySpec
<1>1. Init => TQ!Init
  BY DEF Init, TQ!Init
<1>2. TypeInv /\ StopOrder /\ [Next]_vars => [TQ!Next]_(TQ!vars)
  <2> SUFFICES ASSUME TypeInv, StopOrder, [Next]_vars
               PROVE  [TQ!Next]_(TQ!vars)
    OBVIOUS
  <2>1. ASSUME NEW s \in Submitter, NEW t \in Task, Enqueue(s, t)
        PROVE  TQ!Enqueue(t)
    BY <2>1 DEF Enqueue, TQ!Enqueue, TQ!Accepts
  <2>2. ASSUME NEW w \in Worker, Take(w)
        PROVE  TQ!Take(w)
    BY <2>2 DEF Take, TQ!Take, TypeInv, HeldIffRunning
  <2>3. ASSUME NEW w \in Worker, Finish(w)
        PROVE  TQ!Finish(w)
    BY <2>3 DEF Finish, TQ!Finish, TypeInv, HeldIffRunning
  <2>4. ASSUME BeginDestroy
        PROVE  TQ!Stop
    BY <2>4 DEF BeginDestroy, TQ!Stop, StopOrder, TypeInv, TypeOK
  <2>5. CASE UNCHANGED <<tasks, held, stopping>>
    BY <2>5 DEF TQ!vars
  <2>6. \/ \E s \in Submitter, t \in Task : Enqueue(s, t)
        \/ \E w \in Worker : Take(w) \/ Finish(w)
        \/ BeginDestroy
        \/ UNCHANGED <<tasks, held, stopping>>
    BY DEF Next, WorkerStep, Terminated, Refuse, NotifyOne, Sleep,
           SpuriousWake, Exit, NotifyAll, Join, vars
  <2>7. ASSUME \E s \in Submitter, t \in Task : Enqueue(s, t)
        PROVE  TQ!Next
    BY <2>1, <2>7 DEF TQ!Next
  <2>8. ASSUME \E w \in Worker : Take(w) \/ Finish(w)
        PROVE  TQ!Next
    BY <2>2, <2>3, <2>8 DEF TQ!Next
  <2>9. BeginDestroy => TQ!Next
    BY <2>4 DEF TQ!Next
  <2> QED
    BY <2>5, <2>6, <2>7, <2>8, <2>9
<1> QED
  BY <1>1, <1>2, InitTypeInv, NextTypeInv, InitStopOrder, NextStopOrder, PTL
     DEF SafetySpec, TQ!SafetySpec
============================================================================
