------------------------------ MODULE ForkJoin ------------------------------
(***************************************************************************)
(* concurrency::parallel_for and parallel_map_reduce, etl::map_reduce and  *)
(* parallel_map: the range is cut into chunks, each chunk is a std::async  *)
(* of its own, and the caller takes the futures in order.                  *)
(*                                                                         *)
(* The four functions share their control.  An element is mapped to        *)
(* itself and the reduction is concatenation, so that a result shows every *)
(* operand and their order; Seed is the initial value.                     *)
(***************************************************************************)
EXTENDS Naturals, Sequences, FiniteSets, SequencesExt

CONSTANTS
  Kinds,      \* which of "for", "reduce" and "map" are called
  Seed,       \* init or identity: <<>> is neutral for the reduction
  WordBits,   \* how many elements of the result vector share a memory location
  MaxTotal,   \* bound: how many elements there are
  MaxThreads, \* bound: what n_threads and hardware_concurrency() are
  MayThrow    \* whether the callables and std::async may throw

ASSUME ForkJoinAssumption ==
  /\ Kinds \subseteq {"for", "reduce", "map"}
  /\ Seed \in Seq(Nat)
  /\ WordBits \in Nat \ {0}
  /\ MaxTotal \in Nat /\ MaxThreads \in Nat \ {0}
  /\ MayThrow \in BOOLEAN

VARIABLES
  kind,       \* which function is called
  total,      \* the number of elements
  n_threads,  \* as passed by the caller
  hardware,   \* what hardware_concurrency() returns
  caller,     \* where the caller is
  futs,       \* how many futures it has created
  got,        \* how many of them it has taken
  chunk_,     \* per task, what it is doing
  pos,        \* per task, its next element
  acc,        \* per task, its partial reduction
  word,       \* per task, what it read of the location it is about to write
  out,        \* the elements of the result vector that hold their value
  result,     \* the reduction
  error       \* what is thrown: nothing, the exception of a task, or another

args == <<kind, total, n_threads, hardware>>
tasks == <<chunk_, pos, acc, word, out>>
forkJoinVars == <<args, tasks, caller, futs, got, result, error>>

Elements == 0..(total - 1)

AsyncTasks == 0..(MaxThreads - 1)

NThreads ==
  IF n_threads # 0 THEN n_threads ELSE IF hardware # 0 THEN hardware ELSE 1

(* Mutant: the quotient is rounded down. *)
ChunkDown == total \div NThreads

Chunk == (total + NThreads - 1) \div NThreads

AtMostTotal(i) == IF i < total THEN i ELSE total

Lo(t) == AtMostTotal(t * Chunk)

Hi(t) == AtMostTotal((t + 1) * Chunk)

\* A task is unfinished while its future would block.
Unfinished(t) == chunk_[t] \in {"running", "writing"}

ForkJoinTypeOK ==
  /\ kind \in Kinds
  /\ total \in 0..MaxTotal
  /\ n_threads \in 0..MaxThreads /\ hardware \in 0..MaxThreads
  /\ caller \in {"launching", "collecting", "unwinding", "returned", "threw"}
  /\ futs \in 0..NThreads /\ got \in 0..futs
  /\ chunk_ \in [AsyncTasks -> {"none", "running", "writing", "ok", "failed"}]
  /\ pos \in [AsyncTasks -> 0..total] /\ \A t \in AsyncTasks : pos[t] \in Lo(t)..Hi(t)
  /\ acc \in [AsyncTasks -> Seq(Nat)] /\ result \in Seq(Nat)
  /\ word \in [AsyncTasks -> SUBSET Elements] /\ out \in SUBSET Elements
  /\ error \in {"none", "task", "other"}

ForkJoinInit ==
  /\ kind \in Kinds
  /\ total \in 0..MaxTotal
  /\ n_threads \in 0..MaxThreads /\ hardware \in 0..MaxThreads
  /\ caller = IF total = 0 THEN "returned" ELSE "launching"
  /\ futs = 0 /\ got = 0
  /\ chunk_ = [t \in AsyncTasks |-> "none"]
  /\ pos = [t \in AsyncTasks |-> Lo(t)]
  /\ acc = [t \in AsyncTasks |-> Seed]
  /\ word = [t \in AsyncTasks |-> {}] /\ out = {}
  /\ result = Seed
  /\ error = "none"

-----------------------------------------------------------------------------
(* The caller. *)

MoreChunks == futs < NThreads /\ Lo(futs) # Hi(futs)

Launch ==
  /\ caller = "launching"
  /\ MoreChunks
  /\ futs' = futs + 1
  /\ chunk_' = [chunk_ EXCEPT ![futs] = "running"]
  /\ UNCHANGED <<args, pos, acc, word, out, caller, got, result, error>>

\* std::async cannot start a thread.
LaunchFails ==
  /\ MayThrow
  /\ caller = "launching"
  /\ MoreChunks
  /\ caller' = "unwinding"
  /\ error' = "other"
  /\ UNCHANGED <<args, tasks, futs, got, result>>

AllLaunched ==
  /\ caller = "launching"
  /\ ~MoreChunks
  /\ caller' = "collecting"
  /\ UNCHANGED <<args, tasks, futs, got, result, error>>

(* Mutant: the operands of the reduction are swapped. *)
GetSwapped ==
  /\ caller = "collecting"
  /\ got < futs
  /\ chunk_[got] = "ok"
  /\ got' = got + 1
  /\ result' = IF kind = "reduce" THEN acc[got] \o result ELSE result
  /\ UNCHANGED <<args, tasks, caller, futs, error>>

Get ==
  /\ caller = "collecting"
  /\ got < futs
  /\ chunk_[got] = "ok"
  /\ got' = got + 1
  /\ result' = IF kind = "reduce" THEN result \o acc[got] ELSE result
  /\ UNCHANGED <<args, tasks, caller, futs, error>>

(* Mutant: whichever task has failed first is reported. *)
GetThrowsAny ==
  /\ caller = "collecting"
  /\ \E t \in got..(futs - 1) : chunk_[t] = "failed"
  /\ caller' = "unwinding"
  /\ error' = "task"
  /\ UNCHANGED <<args, tasks, futs, got, result>>

GetThrows ==
  /\ caller = "collecting"
  /\ got < futs
  /\ chunk_[got] = "failed"
  /\ caller' = "unwinding"
  /\ error' = "task"
  /\ UNCHANGED <<args, tasks, futs, got, result>>

\* The reduction of two partial results throws in the caller.
ReduceThrows ==
  /\ MayThrow /\ kind = "reduce"
  /\ caller = "collecting"
  /\ got < futs
  /\ chunk_[got] = "ok"
  /\ caller' = "unwinding"
  /\ error' = "other"
  /\ UNCHANGED <<args, tasks, futs, got, result>>

(* Mutant: as many futures are waited for as threads were asked for. *)
ReturnAfterThreads ==
  /\ caller = "collecting"
  /\ got = NThreads
  /\ caller' = "returned"
  /\ UNCHANGED <<args, tasks, futs, got, result, error>>

Return ==
  /\ caller = "collecting"
  /\ got = futs
  /\ caller' = "returned"
  /\ UNCHANGED <<args, tasks, futs, got, result, error>>

(* Mutant: the futures are let go without waiting for their tasks. *)
UnwoundDetached ==
  /\ caller = "unwinding"
  /\ caller' = "threw"
  /\ UNCHANGED <<args, tasks, futs, got, result, error>>

\* The destructor of a future that std::async returned waits for its task.
CallUnwound ==
  /\ caller = "unwinding"
  /\ \A t \in AsyncTasks : ~Unfinished(t)
  /\ caller' = "threw"
  /\ UNCHANGED <<args, tasks, futs, got, result, error>>

-----------------------------------------------------------------------------
(* A task. *)

AtElement(t) == chunk_[t] = "running" /\ pos[t] < Hi(t)

\* The callable returns for the next element.
Apply(t) ==
  /\ AtElement(t)
  /\ kind # "map"
  /\ pos' = [pos EXCEPT ![t] = @ + 1]
  /\ acc' = IF kind = "reduce" THEN [acc EXCEPT ![t] = Append(@, pos[t])] ELSE acc
  /\ UNCHANGED <<args, chunk_, word, out, caller, futs, got, result, error>>

\* The elements of the result vector in the memory location of element i.
Location(i) == {j \in Elements : j \div WordBits = i \div WordBits}

\* result[i] = fn(data[i]) reads the location, unless the element fills it ...
ReadLocation(t) ==
  /\ AtElement(t)
  /\ kind = "map"
  /\ chunk_' = [chunk_ EXCEPT ![t] = "writing"]
  /\ word' = [word EXCEPT ![t] = out \cap Location(pos[t])]
  /\ UNCHANGED <<args, pos, acc, out, caller, futs, got, result, error>>

\* ... and writes it.
WriteLocation(t) ==
  /\ chunk_[t] = "writing"
  /\ out' = (out \ Location(pos[t])) \cup word[t] \cup {pos[t]}
  /\ pos' = [pos EXCEPT ![t] = @ + 1]
  /\ word' = [word EXCEPT ![t] = {}]
  /\ chunk_' = [chunk_ EXCEPT ![t] = "running"]
  /\ UNCHANGED <<args, acc, caller, futs, got, result, error>>

\* The callable throws: the rest of the chunk is given up.
Throw(t) ==
  /\ MayThrow
  /\ AtElement(t)
  /\ chunk_' = [chunk_ EXCEPT ![t] = "failed"]
  /\ UNCHANGED <<args, pos, acc, word, out, caller, futs, got, result, error>>

Finish(t) ==
  /\ chunk_[t] = "running"
  /\ pos[t] = Hi(t)
  /\ chunk_' = [chunk_ EXCEPT ![t] = "ok"]
  /\ UNCHANGED <<args, pos, acc, word, out, caller, futs, got, result, error>>

-----------------------------------------------------------------------------
CallerStep ==
  \/ Launch \/ LaunchFails \/ AllLaunched
  \/ Get \/ GetThrows \/ ReduceThrows \/ Return \/ CallUnwound

TaskStep(t) ==
  Apply(t) \/ ReadLocation(t) \/ WriteLocation(t) \/ Throw(t) \/ Finish(t)

ForkJoinNext == CallerStep \/ \E t \in AsyncTasks : TaskStep(t)

ForkJoinSpec == ForkJoinInit /\ [][ForkJoinNext]_forkJoinVars

\* Threads run, and the callables return or throw.
ForkJoinFairness ==
  /\ WF_forkJoinVars(CallerStep)
  /\ \A t \in AsyncTasks : WF_forkJoinVars(TaskStep(t))

ForkJoinFairSpec == ForkJoinSpec /\ ForkJoinFairness

-----------------------------------------------------------------------------
\* The elements that task t has dealt with.
Handled(t) == Lo(t)..(pos[t] - 1)

(* For every number of elements and of threads, also when one divides the
   other or exceeds it, the chunks cover the range and do not overlap: no
   element is handled twice, and all are when the call returns. *)
EachElementOnce ==
  /\ ForkJoinTypeOK
  /\ \A t, u \in 0..(futs - 1) : t # u => Handled(t) \cap Handled(u) = {}
  /\ caller = "returned" => UNION {Handled(t) : t \in 0..(futs - 1)} = Elements

(* The tasks refer to the arguments and locals of the call: none is still
   running when it has returned or thrown, whichever step threw; and an
   exception in one chunk has given up the rest of that chunk only. *)
NoTaskOutlivesCall ==
  caller \in {"returned", "threw"} =>
    /\ \A t \in AsyncTasks : ~Unfinished(t)
    /\ \A t \in 0..(futs - 1) : chunk_[t] # "failed" => pos[t] = Hi(t)

(* "propagate exceptions": what a call throws for its tasks is what the first
   failing chunk threw, in the order of the range and not of the failures. *)
FirstFailureThrown ==
  caller = "threw" /\ error = "task" =>
    /\ chunk_[got] = "failed"
    /\ \A t \in 0..(got - 1) : chunk_[t] = "ok"

ChunkReduced(t) == Seed \o [i \in 1..(Hi(t) - Lo(t)) |-> Lo(t) + i - 1]

(* Whatever order the tasks end in, the result is the left fold of the chunks
   in the order of the range, each of them the left fold of its elements; each
   chunk, and the whole, starts from the initial value.  So it is the
   sequential result exactly if the initial value is neutral. *)
ReducesInOrder ==
  kind = "reduce" /\ caller = "returned" =>
    result = Seed \o FlattenSeq([n \in 1..futs |-> ChunkReduced(n - 1)])

(* "mapped results preserving input order": every element of the vector that
   is returned holds its value. *)
MapComplete == kind = "map" /\ caller = "returned" => out = Elements

(* The call ends, by a return or by an exception, if the callables do: no
   future is waited for that no task will make ready. *)
CallEnds == <>(caller \in {"returned", "threw"})
=============================================================================
