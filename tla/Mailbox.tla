------------------------------ MODULE Mailbox ------------------------------
(***************************************************************************)
(* What the completion channel promises: results handed over by the        *)
(* workers reach the event loop one by one, each of them once, in the      *)
(* order in which they were pushed, and none is left behind.               *)
(***************************************************************************)
EXTENDS Sequences

CONSTANT Completion   \* the results a worker may hand over

VARIABLES
  box,       \* pushed and not yet delivered, oldest first
  received   \* delivered, oldest first

vars == <<box, received>>

Init == box = <<>> /\ received = <<>>

Push(c) == /\ box' = Append(box, c)
           /\ UNCHANGED received

Deliver == /\ box # <<>>
           /\ received' = Append(received, Head(box))
           /\ box' = Tail(box)

Next == (\E c \in Completion : Push(c)) \/ Deliver

SafetySpec == Init /\ [][Next]_vars

Spec == SafetySpec /\ WF_vars(Deliver)
============================================================================
