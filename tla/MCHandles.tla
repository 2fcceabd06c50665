------------------------------ MODULE MCHandles ------------------------------
(***************************************************************************)
(* Instances for TLC of the components whose callers hold handles across   *)
(* calls that may call back: worlds of entities, and signals with their    *)
(* connections.  They share no state: a behaviour is one of one of them.   *)
(***************************************************************************)
EXTENDS Ecs, Signal, TLC

VARIABLE part

\* Worlds and types, threads and plain handles are interchangeable; those of
\* the two components go by the same names.
Interchangeable == Permutations(Worlds) \cup Permutations(Types)

HandlesInit == EcsInit /\ SignalInit /\ part \in {"ecs", "signal"}

HandlesNext ==
  /\ UNCHANGED part
  /\ \/ part = "ecs" /\ EcsNext /\ UNCHANGED signalVars
     \/ part = "signal" /\ SignalNext /\ UNCHANGED ecsVars

HandlesSpec == HandlesInit /\ [][HandlesNext]_<<ecsVars, signalVars, part>>
=============================================================================
