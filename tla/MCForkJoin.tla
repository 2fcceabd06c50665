----------------------------- MODULE MCForkJoin -----------------------------
(* Instances of ForkJoin for TLC. *)
EXTENDS ForkJoin

\* An initial value that leaves a trace in the reduction.
VisibleSeed == <<9>>
=============================================================================
