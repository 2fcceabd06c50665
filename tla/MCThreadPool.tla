---------------------------- MODULE MCThreadPool ----------------------------
(***************************************************************************)
(* Instances of ThreadPool for TLC.  Builds has the behaviours of both     *)
(* builds: the one that HasJthread selects, with bodies that may wait for  *)
(* other tasks, and the std::thread one, with bodies that do not.          *)
(***************************************************************************)
EXTENDS ThreadPool, TLC

CONSTANTS t1, t2, t3

NoAwaits == {}

\* One body waits for another task's future; a second one still runs freely.
OneAwaits == {<<t1, t2>>}

-----------------------------------------------------------------------------
VARIABLE build

Plain == INSTANCE ThreadPool WITH HasJthread <- FALSE, Awaits <- NoAwaits

BuildsInit == Init /\ build \in {"jthread", "thread"}

BuildsNext ==
  /\ UNCHANGED build
  /\ \/ build = "jthread" /\ Next
     \/ build = "thread" /\ Plain!Next

BuildsFairness ==
  \/ build = "jthread" /\ Fairness
  \/ build = "thread" /\ Plain!Fairness

BuildsSpec == BuildsInit /\ [][BuildsNext]_<<vars, build>> /\ BuildsFairness

(* EveryTaskRuns, where bodies do not wait for other tasks. *)
PlainTasksRun ==
  \A t \in Tasks : (build = "thread" /\ t \in submitted) ~> t \in done

(* DestructorReturns, where stop_ is set under the mutex. *)
PlainDestructorReturns ==
  (build = "thread" /\ owner = "stopping") ~> owner = "destroyed"
=============================================================================
