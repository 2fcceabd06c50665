-------------------------- MODULE ThreadPoolProofs --------------------------
(***************************************************************************)
(* Theorems about ThreadPool, for every set of workers, clients and tasks, *)
(* and for both builds.                                                    *)
(***************************************************************************)
EXTENDS ThreadPool, FiniteSetTheorems, SequenceTheorems, TLAPS

-----------------------------------------------------------------------------
(* The inductive invariant, part by part. *)

\* A worker holds a task exactly while it runs it or submits from inside it.
CurInv == \A w \in Workers : cur[w] # None <=> pc[w] \in {"running", "notify"}

\* The mutex is held across steps only by a worker that saw an empty queue.
MutexInv ==
  \A w \in Workers :
    /\ mu_ = w => pc[w] = "sleepy"
    /\ pc[w] = "sleepy" => mu_ = w /\ tasks_ = <<>>

\* What the phase of the owner says about everybody else.
OwnerInv ==
  /\ owner \in {"constructing", "alive", "terminated"} => stop = {}
  /\ owner \in {"alive", "stopping", "joining", "destroyed"} =>
       Spawned = Workers
  /\ owner \in {"constructing", "unwinding", "thrown", "terminated"} =>
       submitted = {}
  /\ owner # "alive" => \A p \in Clients : pc[p] = "idle"
  /\ owner \in {"destroyed", "thrown"} => AllExited

\* A worker leaves only when told to, and work that arrives later still has a
\* worker left: a task that a running task submits during the destruction is
\* not left behind.
ExitLeavesNoWork ==
  /\ \A w \in Workers : pc[w] = "exited" => w \in stop
  /\ AllExited => tasks_ = <<>>

\* The inductive invariant.
IInv ==
  /\ TypeOK
  /\ CurInv
  /\ MutexInv
  /\ OwnerInv
  /\ ExitLeavesNoWork
  /\ EveryTaskInOnePlace
  /\ WorkConserving

-----------------------------------------------------------------------------
(* Sequences without repetition. *)

\* Appending adds the element to the range.
LEMMA RangeAppend ==
  ASSUME NEW S, NEW s \in Seq(S), NEW e \in S
  PROVE  Range(Append(s, e)) = Range(s) \cup {e}
<1>1. \A x \in Range(Append(s, e)) : x \in Range(s) \cup {e}
  BY DEF Range
<1>2. Range(s) \subseteq Range(Append(s, e))
  <2>. SUFFICES ASSUME NEW i \in DOMAIN s
                PROVE  s[i] \in Range(Append(s, e))
    BY DEF Range
  <2>. s[i] = Append(s, e)[i] /\ i \in DOMAIN Append(s, e)
    OBVIOUS
  <2>. QED  BY DEF Range
<1>3. e \in Range(Append(s, e))
  <2>. e = Append(s, e)[Len(s) + 1] /\ Len(s) + 1 \in DOMAIN Append(s, e)
    OBVIOUS
  <2>. QED  BY DEF Range
<1>. QED  BY <1>1, <1>2, <1>3

\* Taking the head of a sequence without repetition removes it from the range.
LEMMA RangeTail ==
  ASSUME NEW S, NEW s \in Seq(S), s # <<>>,
         \A i, j \in 1..Len(s) : s[i] = s[j] => i = j
  PROVE  /\ Head(s) \in Range(s)
         /\ Range(Tail(s)) = Range(s) \ {Head(s)}
         /\ \A i, j \in 1..Len(Tail(s)) : Tail(s)[i] = Tail(s)[j] => i = j
<1>1. /\ Tail(s) \in Seq(S)
      /\ Len(Tail(s)) = Len(s) - 1
      /\ \A i \in 1..Len(Tail(s)) : Tail(s)[i] = s[i + 1]
      /\ Len(s) \in Nat \ {0}
  BY HeadTailProperties, EmptySeq
<1>2. DOMAIN s = 1..Len(s) /\ DOMAIN Tail(s) = 1..(Len(s) - 1)
  BY <1>1, LenProperties
<1>3. Head(s) = s[1] /\ 1 \in DOMAIN s
  BY <1>1, <1>2
<1>4. Head(s) \in Range(s)
  BY <1>3 DEF Range
<1>5. Range(Tail(s)) \subseteq Range(s) \ {Head(s)}
  <2>. SUFFICES ASSUME NEW i \in DOMAIN Tail(s)
                PROVE  Tail(s)[i] \in Range(s) \ {Head(s)}
    BY DEF Range
  <2>1. i + 1 \in DOMAIN s /\ i + 1 # 1 /\ Tail(s)[i] = s[i + 1]
    BY <1>1, <1>2
  <2>2. s[i + 1] # s[1]
    BY <2>1, <1>2, <1>3
  <2>. QED  BY <2>1, <2>2, <1>3 DEF Range
<1>6. Range(s) \ {Head(s)} \subseteq Range(Tail(s))
  <2>. SUFFICES ASSUME NEW i \in DOMAIN s, i # 1
                PROVE  s[i] \in Range(Tail(s))
    BY <1>3 DEF Range
  <2>1. i - 1 \in DOMAIN Tail(s) /\ Tail(s)[i - 1] = s[i]
    BY <1>1, <1>2
  <2>. QED  BY <2>1 DEF Range
<1>7. \A i, j \in 1..Len(Tail(s)) : Tail(s)[i] = Tail(s)[j] => i = j
  BY <1>1
<1>. QED  BY <1>4, <1>5, <1>6, <1>7

\* An empty range is that of the empty sequence.
LEMMA RangeEmpty ==
  ASSUME NEW S, NEW s \in Seq(S), Range(s) = {}
  PROVE  s = <<>>
<1>. SUFFICES ASSUME s # <<>> PROVE FALSE
  OBVIOUS
<1>1. 1 \in DOMAIN s
  BY EmptySeq, LenProperties
<1>. QED  BY <1>1 DEF Range

-----------------------------------------------------------------------------
(* Types. *)

\* The initial state is well typed.
LEMMA TypeInit == ASSUME ThreadPoolAssumption, Init PROVE TypeOK
BY DEF ThreadPoolAssumption, Init, TypeOK, Threads, WorkerPC, ClientPC, OwnerPC

\* notify_one moves its caller on and wakes at most one waiting worker.
LEMMA NotifyOneEffect ==
  ASSUME ThreadPoolAssumption, TypeOK, NEW p \in Threads, NotifyOne(p)
  PROVE  /\ pc' \in [Threads -> WorkerPC \cup ClientPC]
         /\ pc[p] = "notify"
         /\ pc'[p] = AfterNotify(p)
         /\ \A q \in Threads \ {p} :
              \/ pc'[q] = pc[q]
              \/ q \in Workers /\ pc[q] = "waiting" /\ pc'[q] = "ready"
<1>. USE DEF TypeOK, Threads, WorkerPC, ClientPC
<1>1. CASE pc' = [pc EXCEPT ![p] = AfterNotify(p)]
  BY <1>1 DEF NotifyOne, AfterNotify
<1>2. ASSUME NEW w \in Waiting,
             pc' = [pc EXCEPT ![p] = AfterNotify(p), ![w] = "ready"]
      PROVE  /\ pc' \in [Threads -> WorkerPC \cup ClientPC]
             /\ pc[p] = "notify"
             /\ pc'[p] = AfterNotify(p)
             /\ \A q \in Threads \ {p} :
                  \/ pc'[q] = pc[q]
                  \/ q \in Workers /\ pc[q] = "waiting" /\ pc'[q] = "ready"
  <2>1. w # p /\ w \in Workers /\ pc[w] = "waiting" /\ pc[p] = "notify"
    BY DEF NotifyOne, Waiting
  <2>. QED  BY <1>2, <2>1 DEF AfterNotify
<1>. QED  BY <1>1, <1>2 DEF NotifyOne

\* Every step of the pool keeps the types.
LEMMA TypeStep ==
  ASSUME ThreadPoolAssumption, TypeOK, CurInv, [Next]_vars
  PROVE  TypeOK'
<1>. USE DEF TypeOK, Threads, WorkerPC, ClientPC, OwnerPC, ThreadPoolAssumption
<1>1. ASSUME NEW w \in Workers, SpawnWorker(w)
      PROVE  TypeOK'
  BY <1>1 DEF SpawnWorker
<1>2. ASSUME NEW w \in Workers, UnwindStop(w)
      PROVE  TypeOK'
  BY <1>2 DEF UnwindStop
<1>3. ASSUME NEW w \in Workers, TakeTask(w)
      PROVE  TypeOK'
  BY <1>3, HeadTailProperties DEF TakeTask
<1>4. ASSUME NEW w \in Workers, Exit(w)
      PROVE  TypeOK'
  BY <1>4 DEF Exit
<1>5. ASSUME NEW w \in Workers, PredicateFalse(w)
      PROVE  TypeOK'
  BY <1>5 DEF PredicateFalse
<1>6. ASSUME NEW w \in Workers, Block(w)
      PROVE  TypeOK'
  BY <1>6 DEF Block
<1>7. ASSUME NEW w \in Workers, SpuriousWakeup(w)
      PROVE  TypeOK'
  BY <1>7 DEF SpuriousWakeup
<1>8. ASSUME NEW w \in Workers, FinishTask(w)
      PROVE  TypeOK'
  BY <1>8 DEF FinishTask, CurInv
<1>9. ASSUME NEW w \in Workers, RequestStop(w)
      PROVE  TypeOK'
  BY <1>9 DEF RequestStop
<1>10. ASSUME NEW p \in Threads, NEW t \in Tasks, Submit(p, t)
      PROVE  TypeOK'
  BY <1>10 DEF Submit, MaySubmit
<1>11. ASSUME NEW p \in Threads, NotifyOne(p)
      PROVE  TypeOK'
  <2>1. UNCHANGED <<tasks_, mu_, cur, stop, owner, submitted, done>>
    BY <1>11 DEF NotifyOne
  <2>2. /\ pc' \in [Threads -> WorkerPC \cup ClientPC]
        /\ pc'[p] = IF p \in Workers THEN "running" ELSE "idle"
        /\ \A q \in Threads \ {p} :
             \/ pc'[q] = pc[q]
             \/ q \in Workers /\ pc'[q] = "ready"
    BY <1>11, NotifyOneEffect DEF AfterNotify
  <2>3. \A w \in Workers : pc'[w] \in WorkerPC
    BY <2>2
  <2>4. \A q \in Clients : pc'[q] \in ClientPC
    BY <2>2
  <2>. QED  BY <2>1, <2>2, <2>3, <2>4
<1>12. CASE Constructed
  BY <1>12 DEF Constructed
<1>13. CASE SpawnFails
  BY <1>13 DEF SpawnFails
<1>14. CASE Unwound
  BY <1>14 DEF Unwound
<1>15. CASE BeginDestroy
  BY <1>15 DEF BeginDestroy
<1>16. CASE SetStop
  BY <1>16 DEF SetStop
<1>17. CASE NotifyAll
  BY <1>17 DEF NotifyAll
<1>18. CASE JoinAll
  BY <1>18 DEF JoinAll
<1>19. CASE UNCHANGED vars
  BY <1>19 DEF vars
<1>. QED
  BY <1>1, <1>2, <1>3, <1>4, <1>5, <1>6, <1>7, <1>8, <1>9, <1>10, <1>11, <1>12, <1>13, <1>14, <1>15, <1>16, <1>17, <1>18, <1>19
     DEF Next, ThreadStep, OwnerStep, WorkerStep, Over

-----------------------------------------------------------------------------
(* Where the workers are, who holds the mutex, what the owner has done. *)

\* A worker holds a task exactly while it runs it or notifies from its body.
LEMMA CurStep ==
  ASSUME ThreadPoolAssumption, TypeOK, CurInv, [Next]_vars
  PROVE  CurInv'
<1>. USE DEF TypeOK, CurInv, Threads, ThreadPoolAssumption
<1>1. ASSUME NEW w \in Workers, SpawnWorker(w)
      PROVE  CurInv'
  BY <1>1 DEF SpawnWorker
<1>2. ASSUME NEW w \in Workers, UnwindStop(w)
      PROVE  CurInv'
  BY <1>2 DEF UnwindStop
<1>3. ASSUME NEW w \in Workers, TakeTask(w)
      PROVE  CurInv'
  BY <1>3, HeadTailProperties DEF TakeTask
<1>4. ASSUME NEW w \in Workers, Exit(w)
      PROVE  CurInv'
  BY <1>4 DEF Exit
<1>5. ASSUME NEW w \in Workers, PredicateFalse(w)
      PROVE  CurInv'
  BY <1>5 DEF PredicateFalse
<1>6. ASSUME NEW w \in Workers, Block(w)
      PROVE  CurInv'
  BY <1>6 DEF Block
<1>7. ASSUME NEW w \in Workers, SpuriousWakeup(w)
      PROVE  CurInv'
  BY <1>7 DEF SpuriousWakeup
<1>8. ASSUME NEW w \in Workers, FinishTask(w)
      PROVE  CurInv'
  BY <1>8 DEF FinishTask
<1>9. ASSUME NEW w \in Workers, RequestStop(w)
      PROVE  CurInv'
  BY <1>9 DEF RequestStop
<1>10. ASSUME NEW p \in Threads, NEW t \in Tasks, Submit(p, t)
      PROVE  CurInv'
  BY <1>10 DEF Submit, MaySubmit
<1>11. ASSUME NEW p \in Threads, NotifyOne(p)
      PROVE  CurInv'
  <2>1. cur' = cur
    BY <1>11 DEF NotifyOne
  <2>2. /\ pc[p] = "notify"
        /\ p \in Workers => pc'[p] = "running"
        /\ \A w \in Workers : w # p => pc'[w] = pc[w] \/ (pc[w] = "waiting" /\ pc'[w] = "ready")
    BY <1>11, NotifyOneEffect DEF AfterNotify
  <2>. QED  BY <2>1, <2>2
<1>12. CASE Constructed
  BY <1>12 DEF Constructed
<1>13. CASE SpawnFails
  BY <1>13 DEF SpawnFails
<1>14. CASE Unwound
  BY <1>14 DEF Unwound
<1>15. CASE BeginDestroy
  BY <1>15 DEF BeginDestroy
<1>16. CASE SetStop
  BY <1>16 DEF SetStop
<1>17. CASE NotifyAll
  BY <1>17 DEF NotifyAll
<1>18. CASE JoinAll
  BY <1>18 DEF JoinAll
<1>19. CASE UNCHANGED vars
  BY <1>19 DEF vars
<1>. QED
  BY <1>1, <1>2, <1>3, <1>4, <1>5, <1>6, <1>7, <1>8, <1>9, <1>10, <1>11, <1>12,
     <1>13, <1>14, <1>15, <1>16, <1>17, <1>18, <1>19
     DEF Next, ThreadStep, OwnerStep, WorkerStep, Over

\* Only the worker between its predicate and its block holds the mutex.
LEMMA MutexStep ==
  ASSUME ThreadPoolAssumption, TypeOK, MutexInv, [Next]_vars
  PROVE  MutexInv'
<1>. USE DEF TypeOK, MutexInv, Threads, ThreadPoolAssumption
<1>1. ASSUME NEW w \in Workers, SpawnWorker(w)
      PROVE  MutexInv'
  BY <1>1 DEF SpawnWorker
<1>2. ASSUME NEW w \in Workers, UnwindStop(w)
      PROVE  MutexInv'
  BY <1>2 DEF UnwindStop
<1>3. ASSUME NEW w \in Workers, TakeTask(w)
      PROVE  MutexInv'
  BY <1>3 DEF TakeTask
<1>4. ASSUME NEW w \in Workers, Exit(w)
      PROVE  MutexInv'
  BY <1>4 DEF Exit
<1>5. ASSUME NEW w \in Workers, PredicateFalse(w)
      PROVE  MutexInv'
  BY <1>5 DEF PredicateFalse
<1>6. ASSUME NEW w \in Workers, Block(w)
      PROVE  MutexInv'
  BY <1>6 DEF Block
<1>7. ASSUME NEW w \in Workers, SpuriousWakeup(w)
      PROVE  MutexInv'
  BY <1>7 DEF SpuriousWakeup
<1>8. ASSUME NEW w \in Workers, FinishTask(w)
      PROVE  MutexInv'
  BY <1>8 DEF FinishTask
<1>9. ASSUME NEW w \in Workers, RequestStop(w)
      PROVE  MutexInv'
  BY <1>9 DEF RequestStop
<1>10. ASSUME NEW p \in Threads, NEW t \in Tasks, Submit(p, t)
      PROVE  MutexInv'
  BY <1>10 DEF Submit, MaySubmit
<1>11. ASSUME NEW p \in Threads, NotifyOne(p)
      PROVE  MutexInv'
  BY <1>11, NotifyOneEffect DEF NotifyOne, AfterNotify
<1>12. CASE Constructed
  BY <1>12 DEF Constructed
<1>13. CASE SpawnFails
  BY <1>13 DEF SpawnFails
<1>14. CASE Unwound
  BY <1>14 DEF Unwound
<1>15. CASE BeginDestroy
  BY <1>15 DEF BeginDestroy
<1>16. CASE SetStop
  BY <1>16 DEF SetStop
<1>17. CASE NotifyAll
  BY <1>17 DEF NotifyAll
<1>18. CASE JoinAll
  BY <1>18 DEF JoinAll
<1>19. CASE UNCHANGED vars
  BY <1>19 DEF vars
<1>. QED
  BY <1>1, <1>2, <1>3, <1>4, <1>5, <1>6, <1>7, <1>8, <1>9, <1>10, <1>11, <1>12,
     <1>13, <1>14, <1>15, <1>16, <1>17, <1>18, <1>19
     DEF Next, ThreadStep, OwnerStep, WorkerStep, Over

\* While nothing was ever submitted nothing is queued and no task runs.
LEMMA NothingSubmitted ==
  ASSUME TypeOK, CurInv, EveryTaskInOnePlace, submitted = {}
  PROVE  tasks_ = <<>> /\ \A w \in Workers : pc[w] \notin {"running", "notify"}
<1>1. Range(tasks_) = {} /\ InFlight = {}
  BY DEF EveryTaskInOnePlace
<1>2. tasks_ = <<>>
  BY <1>1, RangeEmpty DEF TypeOK
<1>3. \A w \in Workers : cur[w] = None
  BY <1>1 DEF InFlight
<1>. QED  BY <1>2, <1>3 DEF CurInv

\* The phases of constructor and destructor bound what workers may do.
LEMMA OwnerInvStep ==
  ASSUME ThreadPoolAssumption, TypeOK, CurInv, OwnerInv, EveryTaskInOnePlace,
         [Next]_vars
  PROVE  OwnerInv'
<1>. USE DEF TypeOK, OwnerInv, Threads, Spawned, AllExited, OwnerPC,
             ThreadPoolAssumption
<1>1. ASSUME NEW w \in Workers, SpawnWorker(w)
      PROVE  OwnerInv'
  BY <1>1 DEF SpawnWorker
<1>2. ASSUME NEW w \in Workers, UnwindStop(w)
      PROVE  OwnerInv'
  BY <1>2 DEF UnwindStop
<1>3. ASSUME NEW w \in Workers, TakeTask(w)
      PROVE  OwnerInv'
  BY <1>3 DEF TakeTask
<1>4. ASSUME NEW w \in Workers, Exit(w)
      PROVE  OwnerInv'
  BY <1>4 DEF Exit
<1>5. ASSUME NEW w \in Workers, PredicateFalse(w)
      PROVE  OwnerInv'
  BY <1>5 DEF PredicateFalse
<1>6. ASSUME NEW w \in Workers, Block(w)
      PROVE  OwnerInv'
  BY <1>6 DEF Block
<1>7. ASSUME NEW w \in Workers, SpuriousWakeup(w)
      PROVE  OwnerInv'
  BY <1>7 DEF SpuriousWakeup
<1>8. ASSUME NEW w \in Workers, FinishTask(w)
      PROVE  OwnerInv'
  BY <1>8 DEF FinishTask
<1>9. ASSUME NEW w \in Workers, RequestStop(w)
      PROVE  OwnerInv'
  BY <1>9 DEF RequestStop
<1>10. ASSUME NEW p \in Threads, NEW t \in Tasks, Submit(p, t)
      PROVE  OwnerInv'
  BY <1>10, NothingSubmitted DEF Submit, MaySubmit
<1>11. ASSUME NEW p \in Threads, NotifyOne(p)
      PROVE  OwnerInv'
  <2>1. /\ pc[p] = "notify" /\ pc'[p] = AfterNotify(p)
        /\ \A q \in Threads \ {p} :
             \/ pc'[q] = pc[q]
             \/ q \in Workers /\ pc[q] = "waiting" /\ pc'[q] = "ready"
    BY <1>11, NotifyOneEffect
  <2>2. UNCHANGED <<stop, owner, submitted>>
    BY <1>11 DEF NotifyOne
  <2>3. Spawned' = Spawned
    <3>1. \A w \in Workers : pc'[w] = "unspawned" <=> pc[w] = "unspawned"
      BY <2>1 DEF AfterNotify
    <3>. QED  BY <3>1
  <2>4. \A q \in Clients : pc[q] = "idle" => pc'[q] = "idle"
    BY <2>1 DEF AfterNotify
  <2>5. AllExited => AllExited'
    BY <2>1
  <2>. QED  BY <2>2, <2>3, <2>4, <2>5
<1>12. CASE Constructed
  BY <1>12 DEF Constructed
<1>13. CASE SpawnFails
  BY <1>13 DEF SpawnFails
<1>14. CASE Unwound
  BY <1>14 DEF Unwound
<1>15. CASE BeginDestroy
  BY <1>15 DEF BeginDestroy
<1>16. CASE SetStop
  BY <1>16 DEF SetStop
<1>17. CASE NotifyAll
  BY <1>17 DEF NotifyAll
<1>18. CASE JoinAll
  BY <1>18 DEF JoinAll
<1>19. CASE UNCHANGED vars
  BY <1>19 DEF vars
<1>. QED
  BY <1>1, <1>2, <1>3, <1>4, <1>5, <1>6, <1>7, <1>8, <1>9, <1>10, <1>11, <1>12,
     <1>13, <1>14, <1>15, <1>16, <1>17, <1>18, <1>19
     DEF Next, ThreadStep, OwnerStep, WorkerStep, Over

\* A worker leaves no work behind when it exits.
LEMMA ExitStep ==
  ASSUME ThreadPoolAssumption, TypeOK, CurInv, OwnerInv, ExitLeavesNoWork,
         [Next]_vars
  PROVE  ExitLeavesNoWork'
<1>. USE DEF TypeOK, ExitLeavesNoWork, Threads, AllExited, ThreadPoolAssumption
<1>1. ASSUME NEW w \in Workers, SpawnWorker(w)
      PROVE  ExitLeavesNoWork'
  BY <1>1 DEF SpawnWorker
<1>2. ASSUME NEW w \in Workers, UnwindStop(w)
      PROVE  ExitLeavesNoWork'
  BY <1>2 DEF UnwindStop
<1>3. ASSUME NEW w \in Workers, TakeTask(w)
      PROVE  ExitLeavesNoWork'
  BY <1>3 DEF TakeTask
<1>4. ASSUME NEW w \in Workers, Exit(w)
      PROVE  ExitLeavesNoWork'
  BY <1>4 DEF Exit, StopPred
<1>5. ASSUME NEW w \in Workers, PredicateFalse(w)
      PROVE  ExitLeavesNoWork'
  BY <1>5 DEF PredicateFalse, StopPred
<1>6. ASSUME NEW w \in Workers, Block(w)
      PROVE  ExitLeavesNoWork'
  BY <1>6 DEF Block
<1>7. ASSUME NEW w \in Workers, SpuriousWakeup(w)
      PROVE  ExitLeavesNoWork'
  BY <1>7 DEF SpuriousWakeup
<1>8. ASSUME NEW w \in Workers, FinishTask(w)
      PROVE  ExitLeavesNoWork'
  BY <1>8 DEF FinishTask
<1>9. ASSUME NEW w \in Workers, RequestStop(w)
      PROVE  ExitLeavesNoWork'
  BY <1>9 DEF RequestStop
<1>10. ASSUME NEW p \in Threads, NEW t \in Tasks, Submit(p, t)
      PROVE  ExitLeavesNoWork'
  BY <1>10 DEF Submit, MaySubmit, OwnerInv, Spawned
<1>11. ASSUME NEW p \in Threads, NotifyOne(p)
      PROVE  ExitLeavesNoWork'
  BY <1>11, NotifyOneEffect DEF NotifyOne, AfterNotify
<1>12. CASE Constructed
  BY <1>12 DEF Constructed
<1>13. CASE SpawnFails
  BY <1>13 DEF SpawnFails
<1>14. CASE Unwound
  BY <1>14 DEF Unwound
<1>15. CASE BeginDestroy
  BY <1>15 DEF BeginDestroy
<1>16. CASE SetStop
  BY <1>16 DEF SetStop
<1>17. CASE NotifyAll
  BY <1>17 DEF NotifyAll
<1>18. CASE JoinAll
  BY <1>18 DEF JoinAll
<1>19. CASE UNCHANGED vars
  BY <1>19 DEF vars
<1>. QED
  BY <1>1, <1>2, <1>3, <1>4, <1>5, <1>6, <1>7, <1>8, <1>9, <1>10, <1>11, <1>12,
     <1>13, <1>14, <1>15, <1>16, <1>17, <1>18, <1>19
     DEF Next, ThreadStep, OwnerStep, WorkerStep, Over

-----------------------------------------------------------------------------
(* Every submitted task is in exactly one place. *)

\* submit, run and the destructor keep every task in one place.
LEMMA PlaceStep ==
  ASSUME ThreadPoolAssumption, TypeOK, CurInv, EveryTaskInOnePlace, [Next]_vars
  PROVE  EveryTaskInOnePlace'
<1>. USE DEF TypeOK, ThreadPoolAssumption
<1>1. ASSUME NEW w \in Workers, SpawnWorker(w)
      PROVE  EveryTaskInOnePlace'
  BY <1>1 DEF SpawnWorker, EveryTaskInOnePlace, InFlight
<1>2. ASSUME NEW w \in Workers, UnwindStop(w)
      PROVE  EveryTaskInOnePlace'
  BY <1>2 DEF UnwindStop, EveryTaskInOnePlace, InFlight
<1>3. ASSUME NEW w \in Workers, TakeTask(w)
      PROVE  EveryTaskInOnePlace'
  <2>. DEFINE h == Head(tasks_)
  <2>1. /\ tasks_ # <<>> /\ tasks_ \in Seq(Tasks) /\ tasks_' = Tail(tasks_)
        /\ cur' = [cur EXCEPT ![w] = h] /\ UNCHANGED <<submitted, done>>
        /\ cur[w] = None
    BY <1>3 DEF TakeTask, CurInv
  <2>2. /\ h \in Range(tasks_)
        /\ Range(tasks_') = Range(tasks_) \ {h}
        /\ \A i, j \in 1..Len(tasks_') : tasks_'[i] = tasks_'[j] => i = j
    BY <2>1, RangeTail DEF EveryTaskInOnePlace
  <2>3. h \in Tasks /\ h # None
    BY <2>1, HeadTailProperties
  <2>4. InFlight' = InFlight \cup {h}
    BY <2>1, <2>3 DEF InFlight
  <2>5. \A v \in Workers : cur[v] # h
    BY <2>2, <2>3 DEF EveryTaskInOnePlace, InFlight
  <2>6. \A u, v \in Workers : cur'[u] = cur'[v] /\ cur'[u] # None => u = v
    BY <2>1, <2>5 DEF EveryTaskInOnePlace
  <2>. QED  BY <2>1, <2>2, <2>4, <2>6 DEF EveryTaskInOnePlace
<1>4. ASSUME NEW w \in Workers, Exit(w)
      PROVE  EveryTaskInOnePlace'
  BY <1>4 DEF Exit, EveryTaskInOnePlace, InFlight
<1>5. ASSUME NEW w \in Workers, PredicateFalse(w)
      PROVE  EveryTaskInOnePlace'
  BY <1>5 DEF PredicateFalse, EveryTaskInOnePlace, InFlight
<1>6. ASSUME NEW w \in Workers, Block(w)
      PROVE  EveryTaskInOnePlace'
  BY <1>6 DEF Block, EveryTaskInOnePlace, InFlight
<1>7. ASSUME NEW w \in Workers, SpuriousWakeup(w)
      PROVE  EveryTaskInOnePlace'
  BY <1>7 DEF SpuriousWakeup, EveryTaskInOnePlace, InFlight
<1>8. ASSUME NEW w \in Workers, FinishTask(w)
      PROVE  EveryTaskInOnePlace'
  <2>. DEFINE c == cur[w]
  <2>1. /\ cur' = [cur EXCEPT ![w] = None] /\ done' = done \cup {c}
        /\ UNCHANGED <<tasks_, submitted>> /\ c # None /\ c \in InFlight
    BY <1>8 DEF FinishTask, CurInv, InFlight
  <2>2. \A v \in Workers \ {w} : cur[v] # c
    BY <2>1 DEF EveryTaskInOnePlace
  <2>3. InFlight' = InFlight \ {c}
    BY <2>1, <2>2 DEF InFlight
  <2>4. \A u, v \in Workers : cur'[u] = cur'[v] /\ cur'[u] # None => u = v
    BY <2>1 DEF EveryTaskInOnePlace
  <2>. QED  BY <2>1, <2>3, <2>4 DEF EveryTaskInOnePlace
<1>9. ASSUME NEW w \in Workers, RequestStop(w)
      PROVE  EveryTaskInOnePlace'
  BY <1>9 DEF RequestStop, EveryTaskInOnePlace, InFlight
<1>10. ASSUME NEW p \in Threads, NEW t \in Tasks, Submit(p, t)
      PROVE  EveryTaskInOnePlace'
  <2>1. /\ tasks_ \in Seq(Tasks) /\ tasks_' = Append(tasks_, t)
        /\ t \notin submitted /\ submitted' = submitted \cup {t}
        /\ UNCHANGED <<cur, done>>
    BY <1>10 DEF Submit
  <2>2. Range(tasks_') = Range(tasks_) \cup {t}
    BY <2>1, RangeAppend
  <2>3. \A i \in 1..Len(tasks_) : tasks_[i] \in Range(tasks_)
    BY <2>1, LenProperties DEF Range
  <2>4. t \notin Range(tasks_) \cup InFlight \cup done
    BY <2>1 DEF EveryTaskInOnePlace
  <2>5. \A i, j \in 1..Len(tasks_') : tasks_'[i] = tasks_'[j] => i = j
    BY <2>1, <2>3, <2>4 DEF EveryTaskInOnePlace
  <2>6. InFlight' = InFlight
    BY <2>1 DEF InFlight
  <2>. QED  BY <2>1, <2>2, <2>4, <2>5, <2>6 DEF EveryTaskInOnePlace
<1>11. ASSUME NEW p \in Threads, NotifyOne(p)
      PROVE  EveryTaskInOnePlace'
  BY <1>11 DEF NotifyOne, AfterNotify, EveryTaskInOnePlace, InFlight
<1>12. CASE Constructed
  BY <1>12 DEF Constructed, EveryTaskInOnePlace, InFlight
<1>13. CASE SpawnFails
  BY <1>13 DEF SpawnFails, EveryTaskInOnePlace, InFlight
<1>14. CASE Unwound
  BY <1>14 DEF Unwound, EveryTaskInOnePlace, InFlight
<1>15. CASE BeginDestroy
  BY <1>15 DEF BeginDestroy, EveryTaskInOnePlace, InFlight
<1>16. CASE SetStop
  BY <1>16 DEF SetStop, EveryTaskInOnePlace, InFlight
<1>17. CASE NotifyAll
  BY <1>17 DEF NotifyAll, EveryTaskInOnePlace, InFlight
<1>18. CASE JoinAll
  BY <1>18 DEF JoinAll, EveryTaskInOnePlace, InFlight
<1>19. CASE UNCHANGED vars
  BY <1>19 DEF vars, EveryTaskInOnePlace, InFlight
<1>. QED
  BY <1>1, <1>2, <1>3, <1>4, <1>5, <1>6, <1>7, <1>8, <1>9, <1>10, <1>11, <1>12,
     <1>13, <1>14, <1>15, <1>16, <1>17, <1>18, <1>19
     DEF Next, ThreadStep, OwnerStep, WorkerStep, Over

-----------------------------------------------------------------------------
(* Counting the threads that are about to take work or to wake a worker. *)

\* Waking or starting one thread that is not yet awake.
LEMMA AwakeGains ==
  ASSUME ThreadPoolAssumption, NEW p \in Threads,
         p \notin Awake, Awake' = Awake \cup {p}
  PROVE  /\ Cardinality(Awake') = Cardinality(Awake) + 1
         /\ Cardinality(Awake) \in Nat
<1>1. IsFiniteSet(Threads)
  BY FS_Union DEF Threads, ThreadPoolAssumption
<1>2. IsFiniteSet(Awake)
  BY <1>1, FS_Subset DEF Awake
<1>. QED  BY <1>2, FS_AddElement, FS_CardinalityType

\* One awake thread goes on to something else.
LEMMA AwakeLoses ==
  ASSUME ThreadPoolAssumption, NEW p \in Threads,
         p \in Awake, Awake' = Awake \ {p}
  PROVE  /\ Cardinality(Awake') = Cardinality(Awake) - 1
         /\ Cardinality(Awake) \in Nat
<1>1. IsFiniteSet(Threads)
  BY FS_Union DEF Threads, ThreadPoolAssumption
<1>2. IsFiniteSet(Awake)
  BY <1>1, FS_Subset DEF Awake
<1>. QED  BY <1>2, FS_RemoveElement, FS_CardinalityType

\* One thread passes its turn to another.
LEMMA AwakeSwaps ==
  ASSUME ThreadPoolAssumption, NEW p \in Threads, NEW q \in Threads,
         p \in Awake, q \notin Awake, Awake' = (Awake \ {p}) \cup {q}
  PROVE  Cardinality(Awake') = Cardinality(Awake)
<1>1. IsFiniteSet(Threads)
  BY FS_Union DEF Threads, ThreadPoolAssumption
<1>2. IsFiniteSet(Awake)
  BY <1>1, FS_Subset DEF Awake
<1>3. IsFiniteSet(Awake \ {p}) /\ Cardinality(Awake \ {p}) = Cardinality(Awake) - 1
  BY <1>2, FS_RemoveElement
<1>4. Cardinality(Awake') = Cardinality(Awake \ {p}) + 1
  BY <1>3, FS_AddElement
<1>. QED  BY <1>2, <1>3, <1>4, FS_CardinalityType

\* Every step keeps enough threads awake for the tasks in the queue.
LEMMA ConservingStep ==
  ASSUME ThreadPoolAssumption, TypeOK, TypeOK', MutexInv, MutexInv',
         WorkConserving, [Next]_vars
  PROVE  WorkConserving'
<1>. USE DEF TypeOK, Threads
<1>a. ASSUME tasks_' = <<>> PROVE WorkConserving'
  <2>1. IsFiniteSet(Threads)
    BY FS_Union DEF ThreadPoolAssumption
  <2>2. IsFiniteSet(Awake')
    BY <2>1, FS_Subset DEF Awake
  <2>3. Cardinality(Awake') \in Nat
    BY <2>2, FS_CardinalityType
  <2>. QED  BY <1>a, <2>3 DEF WorkConserving
<1>1. ASSUME NEW w \in Workers, SpawnWorker(w)
      PROVE  WorkConserving'
  <2>1. w \notin Awake /\ Awake' = Awake \cup {w} /\ Waiting' \subseteq Waiting
    BY <1>1 DEF SpawnWorker, Awake, Waiting
  <2>2. tasks_' = tasks_
    BY <1>1 DEF SpawnWorker
  <2>3. /\ Cardinality(Awake') = Cardinality(Awake) + 1
        /\ Cardinality(Awake) \in Nat
    BY <2>1, AwakeGains
  <2>4. Len(tasks_) \in Nat
    BY LenProperties
  <2>. QED  BY <2>1, <2>2, <2>3, <2>4 DEF WorkConserving
<1>2. ASSUME NEW w \in Workers, UnwindStop(w)
      PROVE  WorkConserving'
  <2>1. UNCHANGED <<tasks_, Awake, Waiting>>
    BY <1>2 DEF UnwindStop, Awake, Waiting
  <2>. QED  BY <2>1 DEF WorkConserving
<1>3. ASSUME NEW w \in Workers, TakeTask(w)
      PROVE  WorkConserving'
  <2>1. w \in Awake /\ Awake' = Awake \ {w} /\ Waiting' = Waiting
    BY <1>3 DEF TakeTask, Awake, Waiting
  <2>2. Len(tasks_') = Len(tasks_) - 1 /\ Len(tasks_) \in Nat
    BY <1>3, HeadTailProperties, LenProperties DEF TakeTask
  <2>3. /\ Cardinality(Awake') = Cardinality(Awake) - 1
        /\ Cardinality(Awake) \in Nat
    BY <2>1, AwakeLoses
  <2>. QED  BY <2>1, <2>2, <2>3 DEF WorkConserving
<1>4. ASSUME NEW w \in Workers, Exit(w)
      PROVE  WorkConserving'
  BY <1>4, <1>a DEF Exit
<1>5. ASSUME NEW w \in Workers, PredicateFalse(w)
      PROVE  WorkConserving'
  BY <1>5, <1>a DEF PredicateFalse
<1>6. ASSUME NEW w \in Workers, Block(w)
      PROVE  WorkConserving'
  BY <1>6, <1>a DEF Block, MutexInv
<1>7. ASSUME NEW w \in Workers, SpuriousWakeup(w)
      PROVE  WorkConserving'
  <2>1. w \notin Awake /\ Awake' = Awake \cup {w} /\ Waiting' \subseteq Waiting
    BY <1>7 DEF SpuriousWakeup, Awake, Waiting
  <2>2. tasks_' = tasks_
    BY <1>7 DEF SpuriousWakeup
  <2>3. /\ Cardinality(Awake') = Cardinality(Awake) + 1
        /\ Cardinality(Awake) \in Nat
    BY <2>1, AwakeGains
  <2>4. Len(tasks_) \in Nat
    BY LenProperties
  <2>. QED  BY <2>1, <2>2, <2>3, <2>4 DEF WorkConserving
<1>8. ASSUME NEW w \in Workers, FinishTask(w)
      PROVE  WorkConserving'
  <2>1. w \notin Awake /\ Awake' = Awake \cup {w} /\ Waiting' \subseteq Waiting
    BY <1>8 DEF FinishTask, Awake, Waiting
  <2>2. tasks_' = tasks_
    BY <1>8 DEF FinishTask
  <2>3. /\ Cardinality(Awake') = Cardinality(Awake) + 1
        /\ Cardinality(Awake) \in Nat
    BY <2>1, AwakeGains
  <2>4. Len(tasks_) \in Nat
    BY LenProperties
  <2>. QED  BY <2>1, <2>2, <2>3, <2>4 DEF WorkConserving
<1>9. ASSUME NEW w \in Workers, RequestStop(w)
      PROVE  WorkConserving'
  <2>1. UNCHANGED <<tasks_, Awake, Waiting>>
    BY <1>9 DEF RequestStop, Awake, Waiting
  <2>. QED  BY <2>1 DEF WorkConserving
<1>10. ASSUME NEW p \in Threads, NEW t \in Tasks, Submit(p, t)
      PROVE  WorkConserving'
  <2>1. p \notin Awake /\ Awake' = Awake \cup {p} /\ Waiting' = Waiting
    BY <1>10 DEF Submit, MaySubmit, Awake, Waiting, ThreadPoolAssumption
  <2>2. Len(tasks_') = Len(tasks_) + 1 /\ Len(tasks_) \in Nat
    BY <1>10, LenProperties DEF Submit
  <2>3. /\ Cardinality(Awake') = Cardinality(Awake) + 1
        /\ Cardinality(Awake) \in Nat
    BY <2>1, AwakeGains
  <2>. QED  BY <2>1, <2>2, <2>3 DEF WorkConserving
<1>11. ASSUME NEW p \in Threads, NotifyOne(p)
      PROVE  WorkConserving'
  <2>1. p \in Awake /\ AfterNotify(p) \notin {"ready", "notify", "waiting"} /\ tasks_' = tasks_
    BY <1>11 DEF NotifyOne, Awake, AfterNotify
  <2>2. CASE Waiting = {} /\ pc' = [pc EXCEPT ![p] = AfterNotify(p)]
    <3>1. Waiting' = {}
      BY <2>1, <2>2 DEF Waiting
    <3>. QED  BY <3>1 DEF WorkConserving
  <2>3. ASSUME NEW w \in Waiting,
               pc' = [pc EXCEPT ![p] = AfterNotify(p), ![w] = "ready"]
        PROVE  WorkConserving'
    <3>1. w \in Threads /\ w \notin Awake /\ w # p /\ pc[w] = "waiting"
      BY <2>1 DEF Waiting, Awake
    <3>2. Awake' = (Awake \ {p}) \cup {w}
      BY <2>1, <2>3, <3>1 DEF Awake
    <3>3. Cardinality(Awake') = Cardinality(Awake)
      BY <2>1, <3>1, <3>2, AwakeSwaps
    <3>. QED  BY <2>1, <2>3, <3>3 DEF WorkConserving
  <2>. QED  BY <1>11, <2>2, <2>3 DEF NotifyOne
<1>12. CASE Constructed
  <2>1. UNCHANGED <<tasks_, Awake, Waiting>>
    BY <1>12 DEF Constructed, Awake, Waiting
  <2>. QED  BY <2>1 DEF WorkConserving
<1>13. CASE SpawnFails
  <2>1. UNCHANGED <<tasks_, Awake, Waiting>>
    BY <1>13 DEF SpawnFails, Awake, Waiting
  <2>. QED  BY <2>1 DEF WorkConserving
<1>14. CASE Unwound
  <2>1. UNCHANGED <<tasks_, Awake, Waiting>>
    BY <1>14 DEF Unwound, Awake, Waiting
  <2>. QED  BY <2>1 DEF WorkConserving
<1>15. CASE BeginDestroy
  <2>1. UNCHANGED <<tasks_, Awake, Waiting>>
    BY <1>15 DEF BeginDestroy, Awake, Waiting
  <2>. QED  BY <2>1 DEF WorkConserving
<1>16. CASE SetStop
  <2>1. UNCHANGED <<tasks_, Awake, Waiting>>
    BY <1>16 DEF SetStop, Awake, Waiting
  <2>. QED  BY <2>1 DEF WorkConserving
<1>17. CASE NotifyAll
  <2>1. Waiting' = {}
    BY <1>17 DEF NotifyAll, Waiting
  <2>. QED  BY <2>1 DEF WorkConserving
<1>18. CASE JoinAll
  <2>1. UNCHANGED <<tasks_, Awake, Waiting>>
    BY <1>18 DEF JoinAll, Awake, Waiting
  <2>. QED  BY <2>1 DEF WorkConserving
<1>19. CASE UNCHANGED vars
  <2>1. UNCHANGED <<tasks_, Awake, Waiting>>
    BY <1>19 DEF vars, Awake, Waiting
  <2>. QED  BY <2>1 DEF WorkConserving
<1>. QED
  BY <1>1, <1>2, <1>3, <1>4, <1>5, <1>6, <1>7, <1>8, <1>9, <1>10, <1>11, <1>12,
     <1>13, <1>14, <1>15, <1>16, <1>17, <1>18, <1>19
     DEF Next, ThreadStep, OwnerStep, WorkerStep, Over

-----------------------------------------------------------------------------
(* The invariant holds in every reachable state. *)

\* The inductive invariant holds initially.
LEMMA InitInvariant == ASSUME ThreadPoolAssumption, Init PROVE IInv
<1>1. TypeOK
  BY TypeInit
<1>2. Range(tasks_) = {} /\ InFlight = {}
  BY DEF Init, Range, InFlight
<1>3. CurInv /\ MutexInv /\ ExitLeavesNoWork /\ OwnerInv
  BY DEF Init, CurInv, MutexInv, ExitLeavesNoWork, OwnerInv, AllExited,
         ThreadPoolAssumption, Threads
<1>4. EveryTaskInOnePlace
  BY <1>2 DEF Init, EveryTaskInOnePlace
<1>5. WorkConserving
  BY DEF Init, WorkConserving, Waiting, Threads
<1>. QED  BY <1>1, <1>3, <1>4, <1>5 DEF IInv

\* Every step preserves the inductive invariant.
LEMMA NextInvariant ==
  ASSUME ThreadPoolAssumption, IInv, [Next]_vars PROVE IInv'
<1>1. TypeOK' /\ CurInv' /\ MutexInv'
  BY TypeStep, CurStep, MutexStep DEF IInv
<1>2. OwnerInv' /\ ExitLeavesNoWork' /\ EveryTaskInOnePlace'
  BY OwnerInvStep, ExitStep, PlaceStep DEF IInv
<1>3. WorkConserving'
  BY <1>1, ConservingStep DEF IInv
<1>. QED  BY <1>1, <1>2, <1>3 DEF IInv

\* Every reachable state satisfies the inductive invariant, in both builds
\* of ThreadPool and with any number of workers.
THEOREM PoolInvariant == Spec => []IInv
<1>1. Init => IInv
  BY ThreadPoolAssumption, InitInvariant
<1>2. IInv /\ [Next]_vars => IInv'
  BY ThreadPoolAssumption, NextInvariant
<1>. QED  BY <1>1, <1>2, PTL DEF Spec

\* The variables of ThreadPool keep their types.
THEOREM PoolTypes == Spec => []TypeOK
<1>1. IInv => TypeOK
  BY DEF IInv
<1>. QED  BY <1>1, PoolInvariant, PTL

\* submit and run neither lose a task nor hand one to two workers.
THEOREM NoTaskLost == Spec => []EveryTaskInOnePlace
<1>1. IInv => EveryTaskInOnePlace
  BY DEF IInv
<1>. QED  BY <1>1, PoolInvariant, PTL

\* notify_one in submit is enough: a sleeping worker never faces more work
\* than there are threads on their way to it.
THEOREM NoWakeupLost == Spec => []WorkConserving
<1>1. IInv => WorkConserving
  BY DEF IInv
<1>. QED  BY <1>1, PoolInvariant, PTL

\* When ~ThreadPool returns, or the constructor throws, every accepted task
\* has been run and no worker is left.
THEOREM Drained == Spec => []DestructorDrains
<1>1. ASSUME IInv PROVE DestructorDrains
  <2>. SUFFICES ASSUME owner \in {"destroyed", "thrown"}
                PROVE  AllExited /\ done = submitted
    BY DEF DestructorDrains
  <2>1. AllExited
    BY <1>1 DEF IInv, OwnerInv
  <2>2. tasks_ = <<>>
    BY <1>1, <2>1 DEF IInv, ExitLeavesNoWork
  <2>3. Range(tasks_) = {}
    BY <2>2 DEF Range
  <2>4. InFlight = {}
    BY <1>1, <2>1 DEF IInv, CurInv, AllExited, InFlight
  <2>. QED  BY <1>1, <2>1, <2>3, <2>4 DEF IInv, EveryTaskInOnePlace
<1>. QED  BY <1>1, PoolInvariant, PTL

-----------------------------------------------------------------------------
(* The pool implements the executor. *)

\* With every worker gone nothing is queued and nothing runs.
LEMMA AllExitedQuiet ==
  ASSUME IInv, AllExited
  PROVE  tasks_ = <<>> /\ InFlight = {}
<1>1. tasks_ = <<>>
  BY DEF IInv, ExitLeavesNoWork
<1>2. InFlight = {}
  BY DEF IInv, CurInv, AllExited, InFlight
<1>. QED  BY <1>1, <1>2

\* A pool whose workers still work is not closed.
LEMMA WorkingNotClosed ==
  ASSUME IInv, NEW w \in Workers, pc[w] \notin {"unspawned", "exited"}
  PROVE  Phase \in {"open", "closing"}
<1>1. ~AllExited
  BY DEF AllExited
<1>2. owner \notin {"destroyed", "thrown"} /\ owner \in OwnerPC
  BY <1>1 DEF IInv, OwnerInv, TypeOK
<1>. QED  BY <1>2 DEF Phase, OwnerPC

\* Every step of the pool is a step of the executor or stutters.
LEMMA StepImplements ==
  ASSUME ThreadPoolAssumption, IInv, [Next]_vars
  PROVE  [Executor!ANext]_(Executor!avars)
<1>. DEFINE Goal == [Executor!ANext]_(Executor!avars)
<1>. USE DEF Executor!avars
<1>1. ASSUME NEW w \in Workers, SpawnWorker(w)
      PROVE  Goal
  BY <1>1 DEF SpawnWorker, InFlight, Phase
<1>2. ASSUME NEW w \in Workers, UnwindStop(w)
      PROVE  Goal
  BY <1>2 DEF UnwindStop, InFlight, Phase
<1>3. ASSUME NEW w \in Workers, TakeTask(w)
      PROVE  Goal
  <2>. DEFINE h == Head(tasks_)
  <2>1. /\ tasks_ # <<>> /\ tasks_ \in Seq(Tasks) /\ tasks_' = Tail(tasks_)
        /\ cur' = [cur EXCEPT ![w] = h] /\ UNCHANGED <<owner, done>>
        /\ cur[w] = None /\ pc[w] = "ready"
        /\ cur \in [Workers -> Tasks \cup {None}]
    BY <1>3 DEF TakeTask, IInv, CurInv, TypeOK
  <2>2. h # None
    BY <2>1, HeadTailProperties DEF ThreadPoolAssumption
  <2>3. InFlight' = InFlight \cup {h}
    BY <2>1, <2>2 DEF InFlight
  <2>4. Phase # "closed" /\ Phase' = Phase
    BY <2>1, WorkingNotClosed DEF Phase
  <2>5. Executor!AStart
    BY <2>1, <2>3, <2>4 DEF Executor!AStart
  <2>. QED  BY <2>5 DEF Executor!ANext
<1>4. ASSUME NEW w \in Workers, Exit(w)
      PROVE  Goal
  BY <1>4 DEF Exit, InFlight, Phase
<1>5. ASSUME NEW w \in Workers, PredicateFalse(w)
      PROVE  Goal
  BY <1>5 DEF PredicateFalse, InFlight, Phase
<1>6. ASSUME NEW w \in Workers, Block(w)
      PROVE  Goal
  BY <1>6 DEF Block, InFlight, Phase
<1>7. ASSUME NEW w \in Workers, SpuriousWakeup(w)
      PROVE  Goal
  BY <1>7 DEF SpuriousWakeup, InFlight, Phase
<1>8. ASSUME NEW w \in Workers, FinishTask(w)
      PROVE  Goal
  <2>. DEFINE c == cur[w]
  <2>1. /\ cur' = [cur EXCEPT ![w] = None] /\ done' = done \cup {c}
        /\ UNCHANGED <<tasks_, owner>> /\ c # None /\ c \in InFlight
        /\ c \in Tasks /\ cur \in [Workers -> Tasks \cup {None}]
    BY <1>8 DEF FinishTask, IInv, CurInv, InFlight, TypeOK
  <2>2. \A v \in Workers \ {w} : cur[v] # c
    BY <2>1 DEF IInv, EveryTaskInOnePlace
  <2>3. InFlight' = InFlight \ {c} /\ Phase' = Phase
    BY <2>1, <2>2 DEF InFlight, Phase
  <2>4. Executor!AFinish(c)
    BY <2>1, <2>3 DEF Executor!AFinish
  <2>. QED  BY <2>1, <2>4 DEF Executor!ANext
<1>9. ASSUME NEW w \in Workers, RequestStop(w)
      PROVE  Goal
  BY <1>9 DEF RequestStop, InFlight, Phase
<1>10. ASSUME NEW p \in Threads, NEW t \in Tasks, Submit(p, t)
      PROVE  Goal
  <2>1. /\ MaySubmit(p) /\ tasks_' = Append(tasks_, t)
        /\ t \notin submitted /\ UNCHANGED <<cur, done, owner>>
    BY <1>10 DEF Submit
  <2>2. t \notin Range(tasks_) \cup InFlight \cup done
    BY <2>1 DEF IInv, EveryTaskInOnePlace
  <2>3. InFlight' = InFlight /\ Phase' = Phase
    BY <2>1 DEF InFlight, Phase
  <2>4. Executor!Accepting
    <3>1. CASE p \in Clients /\ owner = "alive"
      BY <3>1 DEF Executor!Accepting, Phase
    <3>2. CASE p \in Workers /\ pc[p] = "running"
      <4>1. Phase \in {"open", "closing"}
        BY <3>2, WorkingNotClosed
      <4>2. cur[p] # None
        BY <3>2 DEF IInv, CurInv
      <4>3. InFlight # {}
        BY <3>2, <4>2 DEF InFlight
      <4>. QED  BY <4>1, <4>3 DEF Executor!Accepting
    <3>. QED  BY <2>1, <3>1, <3>2 DEF MaySubmit
  <2>5. Executor!ASubmit(t)
    BY <2>1, <2>2, <2>3, <2>4 DEF Executor!ASubmit, Range, Executor!Range
  <2>. QED  BY <2>5 DEF Executor!ANext
<1>11. ASSUME NEW p \in Threads, NotifyOne(p)
      PROVE  Goal
  BY <1>11 DEF NotifyOne, AfterNotify, InFlight, Phase
<1>12. CASE Constructed
  BY <1>12 DEF Constructed, InFlight, Phase
<1>13. CASE SpawnFails
  <2>1. Phase = "open" /\ Phase' = "closing" /\ UNCHANGED <<tasks_, InFlight, done>>
    BY <1>13 DEF SpawnFails, Phase, InFlight
  <2>. QED  BY <2>1 DEF Executor!ANext, Executor!ABeginClose
<1>14. CASE Unwound
  <2>1. Phase = "closing" /\ Phase' = "closed" /\ UNCHANGED <<tasks_, InFlight, done>>
    BY <1>14 DEF Unwound, Phase, InFlight
  <2>2. tasks_ = <<>> /\ InFlight = {}
    BY <1>14, AllExitedQuiet DEF Unwound
  <2>. QED  BY <2>1, <2>2 DEF Executor!ANext, Executor!AClose
<1>15. CASE BeginDestroy
  <2>1. Phase = "open" /\ Phase' = "closing" /\ UNCHANGED <<tasks_, InFlight, done>>
    BY <1>15 DEF BeginDestroy, Phase, InFlight
  <2>. QED  BY <2>1 DEF Executor!ANext, Executor!ABeginClose
<1>16. CASE SetStop
  BY <1>16 DEF SetStop, InFlight, Phase
<1>17. CASE NotifyAll
  BY <1>17 DEF NotifyAll, InFlight, Phase
<1>18. CASE JoinAll
  <2>1. Phase = "closing" /\ Phase' = "closed" /\ UNCHANGED <<tasks_, InFlight, done>>
    BY <1>18 DEF JoinAll, Phase, InFlight
  <2>2. tasks_ = <<>> /\ InFlight = {}
    BY <1>18, AllExitedQuiet DEF JoinAll
  <2>. QED  BY <2>1, <2>2 DEF Executor!ANext, Executor!AClose
<1>19. CASE UNCHANGED vars
  BY <1>19 DEF vars, InFlight, Phase
<1>. QED
  BY <1>1, <1>2, <1>3, <1>4, <1>5, <1>6, <1>7, <1>8, <1>9, <1>10, <1>11, <1>12,
     <1>13, <1>14, <1>15, <1>16, <1>17, <1>18, <1>19
     DEF Next, ThreadStep, OwnerStep, WorkerStep, Over

\* ThreadPool, seen through its queue and the tasks its workers hold, behaves
\* as TaskExecutor: tasks start in submission order, run once, and the
\* destructor returns only when nothing is left.
THEOREM PoolImplementsExecutor == Spec => ImplementsExecutor
<1>1. Init => Executor!AInit
  <2>. SUFFICES ASSUME Init PROVE Executor!AInit
    OBVIOUS
  <2>1. InFlight = {}
    BY DEF Init, InFlight
  <2>. QED  BY <2>1 DEF Init, Executor!AInit, Phase
<1>2. IInv /\ [Next]_vars => [Executor!ANext]_(Executor!avars)
  BY ThreadPoolAssumption, StepImplements
<1>. QED  BY <1>1, <1>2, PoolInvariant, PTL
          DEF Spec, ImplementsExecutor, Executor!ASpec
=============================================================================
