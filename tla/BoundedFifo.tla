----------------------------- MODULE BoundedFifo -----------------------------
(***************************************************************************)
(* A first-in first-out queue of bounded size: what a ring buffer promises *)
(* to the two threads that share it, with no indices, slots or loads.      *)
(***************************************************************************)
EXTENDS Naturals, Sequences

CONSTANTS Elements, Bound

VARIABLES
  queue,  \* what was accepted and not yet delivered
  out     \* what was delivered, oldest first

qvars == <<queue, out>>

QInit == queue = <<>> /\ out = <<>>

Enqueue(v) ==
  /\ Len(queue) < Bound
  /\ queue' = Append(queue, v)
  /\ UNCHANGED out

Dequeue ==
  /\ queue # <<>>
  /\ out' = Append(out, Head(queue))
  /\ queue' = Tail(queue)

QNext == Dequeue \/ \E v \in Elements : Enqueue(v)

QSpec == QInit /\ [][QNext]_qvars
=============================================================================
