----------------------------- MODULE ThreadPool -----------------------------
(***************************************************************************)
(* concurrency::ThreadPool: one queue, one mutex, one condition variable,  *)
(* a fixed set of workers, and an owner that constructs and destroys it.   *)
(*                                                                         *)
(* HasJthread selects the build: TRUE is `std::jthread` with one stop      *)
(* token per worker, FALSE is `std::thread` with the shared flag stop_,    *)
(* which is modelled as one flag per worker that all change at once.       *)
(*                                                                         *)
(* A critical section is one step, except that cv_.wait evaluates its      *)
(* predicate and blocks in two: between them the worker is "sleepy", holds *)
(* the mutex, and whatever does not take the mutex may happen.             *)
(***************************************************************************)
EXTENDS Naturals, Sequences, FiniteSets, Functions

CONSTANTS
  Workers,       \* the worker threads, n of them
  Clients,       \* threads outside the pool that call submit
  Tasks,         \* the callables that may be submitted, each once
  Awaits,        \* <<t, u>>: the body of t waits for the future of u
  HasJthread,    \* whether __cpp_lib_jthread is defined
  SpawnMayFail,  \* whether creating a thread may throw
  None           \* "no task" and "no thread"

ASSUME ThreadPoolAssumption ==
  /\ IsFiniteSet(Workers)
  /\ Workers # {}
  /\ IsFiniteSet(Clients)
  /\ Workers \cap Clients = {}
  /\ Awaits \subseteq Tasks \X Tasks
  /\ HasJthread \in BOOLEAN
  /\ SpawnMayFail \in BOOLEAN
  /\ None \notin Tasks \cup Workers

VARIABLES
  tasks_,     \* the queue
  mu_,        \* the sleepy worker that holds the mutex, or None
  pc,         \* where each worker and client is
  cur,        \* the task each worker has taken and not finished
  stop,       \* the workers that have been asked to stop
  owner,      \* where the constructor or the destructor is
  submitted,  \* history: every task that entered the queue
  done        \* every task whose future is ready

vars == <<tasks_, mu_, pc, cur, stop, owner, submitted, done>>

Threads == Workers \cup Clients

WorkerPC == {"unspawned", "ready", "sleepy", "waiting",
             "running", "notify", "exited"}
ClientPC == {"idle", "notify"}
OwnerPC  == {"constructing", "alive", "stopping", "joining", "destroyed",
             "unwinding", "thrown", "terminated"}

TypeOK ==
  /\ tasks_ \in Seq(Tasks)
  /\ mu_ \in Workers \cup {None}
  /\ pc \in [Threads -> WorkerPC \cup ClientPC]
  /\ \A w \in Workers : pc[w] \in WorkerPC
  /\ \A p \in Clients : pc[p] \in ClientPC
  /\ cur \in [Workers -> Tasks \cup {None}]
  /\ stop \in SUBSET Workers
  /\ owner \in OwnerPC
  /\ submitted \in SUBSET Tasks
  /\ done \in SUBSET Tasks

Init ==
  /\ tasks_ = <<>>
  /\ mu_ = None
  /\ pc = [p \in Threads |-> IF p \in Workers THEN "unspawned" ELSE "idle"]
  /\ cur = [w \in Workers |-> None]
  /\ stop = {}
  /\ owner = "constructing"
  /\ submitted = {}
  /\ done = {}

-----------------------------------------------------------------------------
(* The constructor.  A worker runs from the moment its thread exists. *)

Spawned == {w \in Workers : pc[w] # "unspawned"}

AllExited == \A w \in Workers : pc[w] \in {"unspawned", "exited"}

SpawnWorker(w) ==
  /\ owner = "constructing"
  /\ pc[w] = "unspawned"
  /\ pc' = [pc EXCEPT ![w] = "ready"]
  /\ UNCHANGED <<tasks_, mu_, cur, stop, owner, submitted, done>>

Constructed ==
  /\ owner = "constructing"
  /\ Spawned = Workers
  /\ owner' = "alive"
  /\ UNCHANGED <<tasks_, mu_, pc, cur, stop, submitted, done>>

(* Creating a thread throws.  ~ThreadPool does not run for a pool whose
   constructor threw; its members are destroyed instead: a joinable
   std::thread terminates the program, a std::jthread is stopped and
   joined. *)
SpawnFails ==
  /\ SpawnMayFail
  /\ owner = "constructing"
  /\ Spawned # Workers
  /\ owner' = IF HasJthread \/ Spawned = {} THEN "unwinding" ELSE "terminated"
  /\ UNCHANGED <<tasks_, mu_, pc, cur, stop, submitted, done>>

(* ~jthread of the next worker, reached when the previous one was joined. *)
UnwindStop(w) ==
  /\ owner = "unwinding"
  /\ w \in Spawned \ stop
  /\ \A v \in stop : pc[v] = "exited"
  /\ stop' = stop \cup {w}
  /\ UNCHANGED <<tasks_, mu_, pc, cur, owner, submitted, done>>

Unwound ==
  /\ owner = "unwinding"
  /\ Spawned = stop
  /\ AllExited
  /\ owner' = "thrown"
  /\ UNCHANGED <<tasks_, mu_, pc, cur, stop, submitted, done>>

-----------------------------------------------------------------------------
(* submit, called by a client while the pool is alive, or by a running
   task, which may do so until it returns. *)

MaySubmit(p) ==
  \/ p \in Clients /\ pc[p] = "idle" /\ owner = "alive"
  \/ p \in Workers /\ pc[p] = "running"

Submit(p, t) ==
  /\ MaySubmit(p)
  /\ mu_ = None
  /\ t \notin submitted
  /\ tasks_' = Append(tasks_, t)
  /\ submitted' = submitted \cup {t}
  /\ pc' = [pc EXCEPT ![p] = "notify"]
  /\ UNCHANGED <<mu_, cur, stop, owner, done>>

Waiting == {w \in Workers : pc[w] = "waiting"}

AfterNotify(p) == IF p \in Workers THEN "running" ELSE "idle"

(* Mutant: nobody is notified. *)
NotifyNobody(p) ==
  /\ pc[p] = "notify"
  /\ pc' = [pc EXCEPT ![p] = AfterNotify(p)]
  /\ UNCHANGED <<tasks_, mu_, cur, stop, owner, submitted, done>>

(* cv_.notify_one, after the mutex was released: it wakes some waiter, if
   there is one, who then competes for the mutex. *)
NotifyOne(p) ==
  /\ pc[p] = "notify"
  /\ \/ Waiting = {} /\ pc' = [pc EXCEPT ![p] = AfterNotify(p)]
     \/ \E w \in Waiting :
          pc' = [pc EXCEPT ![p] = AfterNotify(p), ![w] = "ready"]
  /\ UNCHANGED <<tasks_, mu_, cur, stop, owner, submitted, done>>

-----------------------------------------------------------------------------
(* run: the loop of worker w.  A ready worker takes the mutex, at the top of
   the loop or when it wakes inside cv_.wait, and evaluates the predicate. *)

StopPred(w) == w \in stop

(* Mutant: the front is copied and never popped. *)
TakeTaskNoPop(w) ==
  /\ pc[w] = "ready"
  /\ mu_ = None
  /\ tasks_ # <<>>
  /\ cur' = [cur EXCEPT ![w] = Head(tasks_)]
  /\ pc' = [pc EXCEPT ![w] = "running"]
  /\ UNCHANGED <<tasks_, mu_, stop, owner, submitted, done>>

TakeTask(w) ==
  /\ pc[w] = "ready"
  /\ mu_ = None
  /\ tasks_ # <<>>
  /\ cur' = [cur EXCEPT ![w] = Head(tasks_)]
  /\ tasks_' = Tail(tasks_)
  /\ pc' = [pc EXCEPT ![w] = "running"]
  /\ UNCHANGED <<mu_, stop, owner, submitted, done>>

(* Mutant: a stopped worker leaves without looking at the queue. *)
ExitWhenStopped(w) ==
  /\ pc[w] = "ready"
  /\ mu_ = None
  /\ StopPred(w)
  /\ pc' = [pc EXCEPT ![w] = "exited"]
  /\ UNCHANGED <<tasks_, mu_, cur, stop, owner, submitted, done>>

Exit(w) ==
  /\ pc[w] = "ready"
  /\ mu_ = None
  /\ StopPred(w)
  /\ tasks_ = <<>>
  /\ pc' = [pc EXCEPT ![w] = "exited"]
  /\ UNCHANGED <<tasks_, mu_, cur, stop, owner, submitted, done>>

PredicateFalse(w) ==
  /\ pc[w] = "ready"
  /\ mu_ = None
  /\ ~StopPred(w)
  /\ tasks_ = <<>>
  /\ pc' = [pc EXCEPT ![w] = "sleepy"]
  /\ mu_' = w
  /\ UNCHANGED <<tasks_, cur, stop, owner, submitted, done>>

Block(w) ==
  /\ pc[w] = "sleepy"
  /\ pc' = [pc EXCEPT ![w] = "waiting"]
  /\ mu_' = None
  /\ UNCHANGED <<tasks_, cur, stop, owner, submitted, done>>

SpuriousWakeup(w) ==
  /\ pc[w] = "waiting"
  /\ pc' = [pc EXCEPT ![w] = "ready"]
  /\ UNCHANGED <<tasks_, mu_, cur, stop, owner, submitted, done>>

(* task() returns or throws: either way the packaged_task makes the future
   ready.  A body that waits for the future of a task it knows to be
   submitted does not return before that task is done. *)
FinishTask(w) ==
  /\ pc[w] = "running"
  /\ \A u \in submitted : <<cur[w], u>> \in Awaits => u \in done
  /\ done' = done \cup {cur[w]}
  /\ cur' = [cur EXCEPT ![w] = None]
  /\ pc' = [pc EXCEPT ![w] = "ready"]
  /\ UNCHANGED <<tasks_, mu_, stop, owner, submitted>>

-----------------------------------------------------------------------------
(* ~ThreadPool.  Its precondition: no client is inside submit. *)

BeginDestroy ==
  /\ owner = "alive"
  /\ \A p \in Clients : pc[p] = "idle"
  /\ owner' = "stopping"
  /\ UNCHANGED <<tasks_, mu_, pc, cur, stop, submitted, done>>

(* request_stop on one jthread after another, without the mutex. *)
RequestStop(w) ==
  /\ HasJthread
  /\ owner = "stopping"
  /\ w \notin stop
  /\ stop' = stop \cup {w}
  /\ UNCHANGED <<tasks_, mu_, pc, cur, owner, submitted, done>>

(* Mutant: stop_ = true without the mutex. *)
SetStopUnlocked ==
  /\ ~HasJthread
  /\ owner = "stopping"
  /\ stop # Workers
  /\ stop' = Workers
  /\ UNCHANGED <<tasks_, mu_, pc, cur, owner, submitted, done>>

(* stop_ = true, with the mutex held. *)
SetStop ==
  /\ ~HasJthread
  /\ owner = "stopping"
  /\ mu_ = None
  /\ stop # Workers
  /\ stop' = Workers
  /\ UNCHANGED <<tasks_, mu_, pc, cur, owner, submitted, done>>

NotifyAll ==
  /\ owner = "stopping"
  /\ stop = Workers
  /\ pc' = [p \in Threads |-> IF pc[p] = "waiting" THEN "ready" ELSE pc[p]]
  /\ owner' = "joining"
  /\ UNCHANGED <<tasks_, mu_, cur, stop, submitted, done>>

(* The last join has returned; the other members are destroyed. *)
JoinAll ==
  /\ owner = "joining"
  /\ AllExited
  /\ owner' = "destroyed"
  /\ UNCHANGED <<tasks_, mu_, pc, cur, stop, submitted, done>>

(* The program is over; nothing else is left to happen. *)
Over ==
  /\ owner \in {"destroyed", "thrown", "terminated"}
  /\ UNCHANGED vars

-----------------------------------------------------------------------------
WorkerStep(w) ==
  \/ TakeTask(w) \/ Exit(w) \/ PredicateFalse(w) \/ Block(w) \/ FinishTask(w)

OwnerStep ==
  \/ Constructed \/ Unwound \/ SetStop \/ NotifyAll \/ JoinAll
  \/ \E w \in Workers : SpawnWorker(w) \/ UnwindStop(w) \/ RequestStop(w)

ThreadStep ==
  /\ owner # "terminated"
  /\ \/ \E w \in Workers : WorkerStep(w) \/ SpuriousWakeup(w)
     \/ \E p \in Threads : NotifyOne(p) \/ \E t \in Tasks : Submit(p, t)

Next == ThreadStep \/ OwnerStep \/ SpawnFails \/ BeginDestroy \/ Over

Spec == Init /\ [][Next]_vars

(* A worker that is not blocked runs, and a mutex that is free again and
   again is eventually granted to each thread that asks for it.  Nothing
   obliges a client to submit, an owner to destroy the pool, a thread to
   wake up by itself, or the construction of a thread to fail. *)
Fairness ==
  /\ WF_vars(OwnerStep)
  /\ SF_vars(SetStop)
  /\ \A w \in Workers : SF_vars(owner # "terminated" /\ WorkerStep(w))
  /\ \A p \in Threads : WF_vars(owner # "terminated" /\ NotifyOne(p))

FairSpec == Spec /\ Fairness

-----------------------------------------------------------------------------
InFlight == {cur[w] : w \in Workers} \ {None}

(* Every task that submit accepted is in exactly one place: once in the
   queue, with one worker, or done.  Nothing is lost or run twice, whatever
   the interleaving of submit, the workers and the destructor. *)
EveryTaskInOnePlace ==
  /\ submitted = Range(tasks_) \cup InFlight \cup done
  /\ Range(tasks_) \cap (InFlight \cup done) = {}
  /\ InFlight \cap done = {}
  /\ \A i, j \in 1..Len(tasks_) : tasks_[i] = tasks_[j] => i = j
  /\ \A v, w \in Workers : cur[v] = cur[w] /\ cur[v] # None => v = w

(* "Destroy the pool, draining queued work then joining workers": when the
   destructor has returned (or the constructor has thrown) no worker is left
   to touch the members, and every accepted task has been run. *)
DestructorDrains ==
  owner \in {"destroyed", "thrown"} => AllExited /\ done = submitted

(* No wakeup for work is lost: while some worker sleeps, each queued task has
   a worker on its way to the mutex or a submitter about to notify. *)
Awake == {p \in Threads : pc[p] \in {"ready", "notify"}}

WorkConserving == Waiting # {} => Len(tasks_) <= Cardinality(Awake)

(* The pool, seen through its queue and what its workers run, is an
   executor: first in, first started, each task once, closed only when empty. *)
Phase ==
  CASE owner \in {"constructing", "alive"} -> "open"
    [] owner \in {"stopping", "joining", "unwinding", "terminated"} -> "closing"
    [] owner \in {"destroyed", "thrown"} -> "closed"

Executor == INSTANCE TaskExecutor WITH
              pending <- tasks_, running <- InFlight, phase <- Phase

ImplementsExecutor == Executor!ASpec

(* Every submitted task is eventually run, also when the destructor starts
   meanwhile and whatever wakeup the destructor itself may lose. *)
EveryTaskRuns == \A t \in Tasks : t \in submitted ~> t \in done

(* The same when task bodies wait for each other's futures: the only way to
   strand a task is that, while the pool is being destroyed, every worker has
   left or is inside a body that waits. *)
Starved ==
  /\ owner # "alive"
  /\ \A w \in Workers :
       \/ pc[w] = "exited"
       \/ pc[w] = "running" /\ \E u \in submitted \ done : <<cur[w], u>> \in Awaits

EveryTaskRunsOrStarves ==
  \A t \in Tasks : t \in submitted ~> (t \in done \/ Starved)

(* "... then joining workers": a destructor that was entered returns. *)
DestructorReturns == owner = "stopping" ~> owner = "destroyed"
=============================================================================
