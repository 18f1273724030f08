------------------------ MODULE CompletionQueueProofs ------------------------
(***************************************************************************)
(* Proofs about CompletionQueue, for any set of workers and completions.   *)
(***************************************************************************)
EXTENDS CompletionQueue, SequenceTheorems, TLAPS

LEMMA InitTypeOK == Init => TypeOK
BY EmptySeq DEF Init, TypeOK

LEMMA NextTypeOK == TypeOK /\ [Next]_vars => TypeOK'
<1> SUFFICES ASSUME TypeOK, [Next]_vars PROVE TypeOK'
  OBVIOUS
<1> USE DEF TypeOK
<1>1. ASSUME NEW w \in Worker, NEW c \in Completion, Push(w, c)
      PROVE  TypeOK'
  BY <1>1, AppendProperties DEF Push
<1>2. ASSUME NEW w \in Worker, Notify(w)
      PROVE  TypeOK'
  BY <1>2 DEF Notify
<1>3. CASE Drain
  BY <1>3 DEF Drain
<1>4. CASE Swap
  BY <1>4, EmptySeq DEF Swap
<1>5. CASE Deliver
  BY <1>5, HeadTailProperties, AppendProperties DEF Deliver
<1>6. CASE Return
  BY <1>6 DEF Return
<1>7. CASE UNCHANGED vars
  BY <1>7 DEF vars
<1> QED
  BY <1>1, <1>2, <1>3, <1>4, <1>5, <1>6, <1>7 DEF Next, LoopStep, Done

\* Every variable stays in its type.
THEOREM TypeCorrect == SafetySpec => []TypeOK
BY InitTypeOK, NextTypeOK, PTL DEF SafetySpec

LEMMA NextNoLostWakeUp ==
  TypeOK /\ NoLostWakeUp /\ [Next]_vars => NoLostWakeUp'
<1> SUFFICES ASSUME TypeOK, NoLostWakeUp, [Next]_vars PROVE NoLostWakeUp'
  OBVIOUS
<1> USE DEF TypeOK, NoLostWakeUp
<1>1. ASSUME NEW w \in Worker, NEW c \in Completion, Push(w, c)
      PROVE  NoLostWakeUp'
  BY <1>1 DEF Push
<1>2. ASSUME NEW w \in Worker, Notify(w)
      PROVE  NoLostWakeUp'
  BY <1>2 DEF Notify
<1>3. CASE Drain
  BY <1>3 DEF Drain
<1>4. CASE Swap
  BY <1>4 DEF Swap
<1>5. CASE Deliver
  BY <1>5 DEF Deliver
<1>6. CASE Return
  BY <1>6 DEF Return
<1>7. CASE UNCHANGED vars
  BY <1>7 DEF vars
<1> QED
  BY <1>1, <1>2, <1>3, <1>4, <1>5, <1>6, <1>7 DEF Next, LoopStep, Done

\* A completion in the deque always has a wake-up of the event loop on its
\* way, for any number of workers: queueResponse pushes before it writes the
\* eventfd and handleCompletionEvent drains it before it swaps the deque.
THEOREM WakeUpNotLost == SafetySpec => []NoLostWakeUp
<1>1. Init => NoLostWakeUp
  BY DEF Init, NoLostWakeUp
<1> QED
  BY <1>1, InitTypeOK, NextTypeOK, NextNoLostWakeUp, PTL DEF SafetySpec

\* Moving the head of one sequence to the end of another keeps their
\* concatenation.
LEMMA DeliverShift ==
  ASSUME NEW S, NEW r \in Seq(S), NEW b \in Seq(S), b # <<>>
  PROVE  Append(r, Head(b)) \o Tail(b) = r \o b
<1>1. Head(b) \in S /\ Tail(b) \in Seq(S) /\ <<Head(b)>> \in Seq(S)
  BY HeadTailProperties
<1>2. Append(r, Head(b)) = r \o <<Head(b)>>
  BY <1>1, AppendIsConcat
<1>3. b = <<Head(b)>> \o Tail(b)
  BY SMTT(30)
<1>4. (r \o <<Head(b)>>) \o Tail(b) = r \o (<<Head(b)>> \o Tail(b))
  BY <1>1, ConcatAssociative
<1> QED
  BY <1>2, <1>3, <1>4

\* Appending to the second of two sequences appends to their concatenation.
LEMMA PushAppends ==
  ASSUME NEW S, NEW t \in Seq(S), NEW u \in Seq(S), NEW e \in S
  PROVE  t \o Append(u, e) = Append(t \o u, e)
<1>1. <<e>> \in Seq(S) /\ t \o u \in Seq(S)
  BY ConcatProperties
<1>2. Append(u, e) = u \o <<e>> /\ Append(t \o u, e) = (t \o u) \o <<e>>
  BY <1>1, AppendIsConcat
<1> QED
  BY <1>1, <1>2, ConcatAssociative

\* What the mailbox sees of a step: a push, a delivery or nothing.
LEMMA BoxStep ==
  ASSUME TypeOK, [Next]_vars
  PROVE  \/ \E c \in Completion : MB!Push(c) /\ pushed' = Append(pushed, c)
         \/ MB!Deliver /\ UNCHANGED pushed
         \/ UNCHANGED <<taken \o completions, received, pushed>>
<1> DEFINE G == \/ \E c \in Completion : MB!Push(c) /\ pushed' = Append(pushed, c)
                \/ MB!Deliver /\ UNCHANGED pushed
                \/ UNCHANGED <<taken \o completions, received, pushed>>
<1> USE DEF TypeOK
<1>1. ASSUME NEW w \in Worker, NEW c \in Completion, Push(w, c)
      PROVE  G
  <2>1. taken \o Append(completions, c) = Append(taken \o completions, c)
    BY PushAppends
  <2>2. MB!Push(c)
    BY <1>1, <2>1 DEF Push, MB!Push
  <2> QED
    BY <1>1, <2>2 DEF Push
<1>2. CASE Swap
  <2>1. taken = <<>>
    BY <1>2 DEF Swap
  <2>2. taken' \o completions' = taken \o completions
    BY <1>2, <2>1, ConcatEmptySeq DEF Swap
  <2> QED
    BY <1>2, <2>2 DEF Swap
<1>3. CASE Deliver
  <2>1. taken \o completions # <<>>
    BY <1>3, ConcatEqualIffEmpty DEF Deliver
  <2>2. /\ Head(taken \o completions) = Head(taken)
        /\ Tail(taken \o completions) = Tail(taken) \o completions
    BY <1>3, SMTT(30) DEF Deliver
  <2>3. MB!Deliver
    BY <1>3, <2>1, <2>2 DEF Deliver, MB!Deliver
  <2> QED
    BY <1>3, <2>3 DEF Deliver
<1>4. CASE UNCHANGED <<taken, completions, received, pushed>>
  BY <1>4
<1>5. \/ \E w \in Worker, c \in Completion : Push(w, c)
      \/ Swap
      \/ Deliver
      \/ UNCHANGED <<taken, completions, received, pushed>>
  BY DEF Next, LoopStep, Done, vars, Notify, Drain, Return
<1> QED
  BY <1>1, <1>2, <1>3, <1>4, <1>5

\* The channel implements the mailbox: draining, swapping and notifying are
\* invisible, and every push and every delivery is one of the mailbox's.
THEOREM Refinement == SafetySpec => MB!SafetySpec
<1>1. Init => MB!Init
  BY EmptySeq, ConcatEmptySeq DEF Init, MB!Init
<1>2. TypeOK /\ [Next]_vars => [MB!Next]_(MB!vars)
  BY BoxStep DEF MB!Next, MB!vars
<1> QED
  BY <1>1, <1>2, InitTypeOK, NextTypeOK, PTL
     DEF SafetySpec, MB!SafetySpec

\* Completions are delivered in the order of their pushes, each exactly once.
THEOREM InOrder == SafetySpec => []DeliveredInOrder
<1>1. Init => DeliveredInOrder
  BY EmptySeq, ConcatEmptySeq DEF Init, DeliveredInOrder
<1>2. TypeOK /\ DeliveredInOrder /\ [Next]_vars
        => DeliveredInOrder'
  <2> SUFFICES ASSUME TypeOK, DeliveredInOrder, [Next]_vars
               PROVE  DeliveredInOrder'
    OBVIOUS
  <2>1. taken \o completions \in Seq(Completion) /\ received \in Seq(Completion)
    BY ConcatProperties DEF TypeOK
  <2>2. ASSUME NEW c \in Completion, MB!Push(c), pushed' = Append(pushed, c)
        PROVE  DeliveredInOrder'
    <3>1. received \o Append(taken \o completions, c)
            = Append(received \o (taken \o completions), c)
      BY <2>1, PushAppends
    <3> QED
      BY <2>2, <3>1 DEF MB!Push, DeliveredInOrder
  <2>3. CASE MB!Deliver /\ UNCHANGED pushed
    <3>1. Append(received, Head(taken \o completions)) \o Tail(taken \o completions)
            = received \o (taken \o completions)
      BY <2>1, <2>3, DeliverShift DEF MB!Deliver
    <3> QED
      BY <2>3, <3>1 DEF MB!Deliver, DeliveredInOrder
  <2>4. CASE UNCHANGED <<taken \o completions, received, pushed>>
    BY <2>4 DEF DeliveredInOrder
  <2> QED
    BY <2>2, <2>3, <2>4, BoxStep
<1> QED
  BY <1>1, <1>2, InitTypeOK, NextTypeOK, PTL DEF SafetySpec
============================================================================
