---------------------------- MODULE TaskExecutor ----------------------------
(***************************************************************************)
(* What a pool of workers promises, with no threads, locks or wakeups:     *)
(* work is started in the order it was submitted, every task is started    *)
(* at most once, and the executor is closed only when nothing is queued    *)
(* and nothing runs.  While it is closing, only work that is itself        *)
(* running may submit more.  ThreadPool implements this specification.     *)
(***************************************************************************)
EXTENDS Sequences, Functions

CONSTANT Tasks

VARIABLES
  pending,  \* submitted and not started, oldest first
  running,  \* started and not finished
  done,     \* finished
  phase     \* "open", "closing" or "closed"

avars == <<pending, running, done, phase>>

AInit ==
  /\ pending = <<>>
  /\ running = {}
  /\ done = {}
  /\ phase = "open"

Accepting == phase = "open" \/ (phase = "closing" /\ running # {})

ASubmit(t) ==
  /\ Accepting
  /\ t \notin Range(pending) \cup running \cup done
  /\ pending' = Append(pending, t)
  /\ UNCHANGED <<running, done, phase>>

AStart ==
  /\ pending # <<>>
  /\ phase # "closed"
  /\ running' = running \cup {Head(pending)}
  /\ pending' = Tail(pending)
  /\ UNCHANGED <<done, phase>>

AFinish(t) ==
  /\ t \in running
  /\ running' = running \ {t}
  /\ done' = done \cup {t}
  /\ UNCHANGED <<pending, phase>>

ABeginClose ==
  /\ phase = "open"
  /\ phase' = "closing"
  /\ UNCHANGED <<pending, running, done>>

AClose ==
  /\ phase = "closing"
  /\ pending = <<>>
  /\ running = {}
  /\ phase' = "closed"
  /\ UNCHANGED <<pending, running, done>>

ANext ==
  \/ \E t \in Tasks : ASubmit(t) \/ AFinish(t)
  \/ AStart
  \/ ABeginClose
  \/ AClose

ASpec == AInit /\ [][ANext]_avars
=============================================================================
