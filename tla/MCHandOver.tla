----------------------------- MODULE MCHandOver -----------------------------
(***************************************************************************)
(* Instances for TLC of what passes work or values between threads, beside *)
(* the pool: the calls of ForkJoin and an SpscQueue, which share no state. *)
(* A behaviour is one of one of them; the other rests.                     *)
(***************************************************************************)
EXTENDS MCForkJoin, SpscQueue

VARIABLE part

\* A call for no element, which returns at once.
CallRests ==
  /\ ForkJoinInit
  /\ kind = "for" /\ total = 0 /\ n_threads = 0 /\ hardware = 0

HandOverInit ==
  \/ part = "call" /\ ForkJoinInit /\ SpscInit
  \/ part = "ring" /\ CallRests /\ SpscInit

HandOverNext ==
  /\ UNCHANGED part
  /\ \/ part = "call" /\ ForkJoinNext /\ UNCHANGED spscVars
     \/ part = "ring" /\ SpscNext /\ UNCHANGED forkJoinVars

\* The fairness of the part that runs.
HandOverFairness ==
  \/ part = "call" /\ ForkJoinFairness
  \/ part = "ring" /\ SpscFairness

HandOverSpec ==
  /\ HandOverInit
  /\ [][HandOverNext]_<<forkJoinVars, spscVars, part>>
  /\ HandOverFairness

(* AllTransferred of SpscQueue, for the behaviours of a ring: with both sides
   retrying, everything that the producer has to push reaches the consumer. *)
RingTransfersAll == part = "ring" => AllTransferred
=============================================================================
