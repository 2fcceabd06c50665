------------------------------- MODULE Pipeline -------------------------------
(***************************************************************************)
(* etl::Pipeline: a chain of map, filter, flat_map and take stages over a  *)
(* container, evaluated by a terminal operation that pushes one element    *)
(* after the other through all stages.  collect, reduce, for_each and      *)
(* count differ only in what they do with the elements, which are `out`.   *)
(***************************************************************************)
EXTENDS Naturals, Sequences, SequencesExt

CONSTANTS
  Items,    \* the elements, of the container and between stages
  Plans,    \* the chains of stages
  Sources,  \* the contents of the container: sequences of elements
  MapFn,    \* what map calls, per element
  Keep,     \* the elements that filter keeps
  Expand    \* what flat_map calls, per element

Stage == [kind : {"map", "filter", "flat_map"}] \cup [kind : {"take"}, n : Nat]

ASSUME PipelineAssumption ==
  /\ Plans \subseteq Seq(Stage) /\ Sources \subseteq Seq(Items)
  /\ MapFn \in [Items -> Items] /\ Expand \in [Items -> Seq(Items)]

VARIABLES
  plan,     \* the pipeline
  source,   \* the container that it refers to
  phase,    \* "idle", or "running" while the terminal operation runs
  next,     \* the element of the container to be read next
  pending,  \* per callback, the elements that it is still to be called with
  left,     \* remaining, per stage that is a take
  out       \* what the terminal operation has received

pipelineVars == <<plan, source, phase, next, pending, left, out>>

\* The callbacks: one in each stage, and that of the terminal operation.
Callbacks == 1..Len(plan) + 1

Limits(p) == [k \in {i \in DOMAIN p : p[i].kind = "take"} |-> p[k].n]

PipelineInit ==
  /\ plan \in Plans
  /\ source \in Sources
  /\ phase = "idle"
  /\ next = 1
  /\ pending = [k \in Callbacks |-> <<>>]
  /\ left = Limits(plan)
  /\ out = <<>>

\* The container changes: stages keep a reference to it and read it late.
ChangeSource(s) ==
  /\ phase = "idle"
  /\ source' = s
  /\ next' = 1 /\ out' = <<>>
  /\ left' = Limits(plan)
  /\ UNCHANGED <<plan, phase, pending>>

\* A terminal operation, of which a pipeline may be asked any number.
Terminal ==
  /\ phase = "idle"
  /\ phase' = "running"
  /\ next' = 1 /\ out' = <<>>
  /\ left' = Limits(plan)
  /\ UNCHANGED <<plan, source, pending>>

Returned == \A k \in Callbacks : pending[k] = <<>>

Pull ==
  /\ phase = "running" /\ Returned
  /\ next <= Len(source)
  /\ pending' = [pending EXCEPT ![1] = <<source[next]>>]
  /\ next' = next + 1
  /\ UNCHANGED <<plan, source, phase, left, out>>

Exhausted ==
  /\ phase = "running" /\ Returned
  /\ next > Len(source)
  /\ phase' = "idle"
  /\ UNCHANGED <<plan, source, next, pending, left, out>>

\* The callback that runs is the innermost: of those before it, the loops wait.
Runs(k) ==
  /\ pending[k] # <<>>
  /\ \A j \in Callbacks : j > k => pending[j] = <<>>

At(k, kind) == Runs(k) /\ k \in DOMAIN plan /\ plan[k].kind = kind

\* The element that the callback of k is called with becomes vs.
Becomes(k, vs) == pending' = [pending EXCEPT ![k] = Tail(@), ![k + 1] = vs]

EvaluateMap(k) ==
  /\ At(k, "map")
  /\ Becomes(k, <<MapFn[Head(pending[k])]>>)
  /\ UNCHANGED <<plan, source, phase, next, left, out>>

EvaluateFilter(k) ==
  /\ At(k, "filter")
  /\ Becomes(k, IF Head(pending[k]) \in Keep THEN <<Head(pending[k])>> ELSE <<>>)
  /\ UNCHANGED <<plan, source, phase, next, left, out>>

EvaluateFlatMap(k) ==
  /\ At(k, "flat_map")
  /\ Becomes(k, Expand[Head(pending[k])])
  /\ UNCHANGED <<plan, source, phase, next, left, out>>

(* Mutant: the last one is let through before remaining is looked at. *)
EvaluateTakeLate(k) ==
  /\ At(k, "take")
  /\ Becomes(k, <<Head(pending[k])>>)
  /\ left' = [left EXCEPT ![k] = IF @ = 0 THEN 0 ELSE @ - 1]
  /\ UNCHANGED <<plan, source, phase, next, out>>

EvaluateTake(k) ==
  /\ At(k, "take")
  /\ left[k] > 0
  /\ left' = [left EXCEPT ![k] = @ - 1]
  /\ Becomes(k, <<Head(pending[k])>>)
  /\ UNCHANGED <<plan, source, phase, next, out>>

\* StopIteration: caught by the take that is nearest to the container, which
\* is inside of all the others, so that the whole evaluation ends.
StopIteration(k) ==
  /\ At(k, "take")
  /\ left[k] = 0
  /\ pending' = [j \in Callbacks |-> <<>>]
  /\ phase' = "idle"
  /\ UNCHANGED <<plan, source, next, left, out>>

Deliver ==
  LET k == Len(plan) + 1 IN
  /\ Runs(k)
  /\ out' = Append(out, Head(pending[k]))
  /\ pending' = [pending EXCEPT ![k] = Tail(@)]
  /\ UNCHANGED <<plan, source, phase, next, left>>

PipelineNext ==
  \/ \E s \in Sources : ChangeSource(s)
  \/ Terminal \/ Pull \/ Exhausted \/ Deliver
  \/ \E k \in Callbacks : \/ EvaluateMap(k) \/ EvaluateFilter(k) \/ EvaluateFlatMap(k)
                          \/ EvaluateTake(k) \/ StopIteration(k)

PipelineSpec == PipelineInit /\ [][PipelineNext]_pipelineVars

-----------------------------------------------------------------------------
(* What the stages mean: functions from sequences to sequences. *)

\* ss[1] \o ... \o ss[Len(ss)], as a recursive function
Concat(ss) ==
  LET c[k \in 0..Len(ss)] == IF k = 0 THEN <<>> ELSE c[k - 1] \o ss[k] IN c[Len(ss)]

ApplyStage(s, p) ==
  CASE p.kind = "map"      -> [i \in DOMAIN s |-> MapFn[s[i]]]
    [] p.kind = "filter"   -> Concat([i \in DOMAIN s |-> IF s[i] \in Keep THEN <<s[i]>> ELSE <<>>])
    [] p.kind = "flat_map" -> Concat([i \in DOMAIN s |-> Expand[s[i]]])
    [] p.kind = "take"     -> SubSeq(s, 1, IF p.n < Len(s) THEN p.n ELSE Len(s))

\* What the first m stages make of s.
Through(m, s) ==
  LET r[k \in 0..m] == IF k = 0 THEN s ELSE ApplyStage(r[k - 1], plan[k]) IN r[m]

Meaning(s) == Through(Len(plan), s)

\* A terminal operation has run to its end.
Evaluated == phase = "idle" /\ next > 1

(* The stages compose: what the terminal operation receives is, in order, what
   the stages make of the whole container one after the other, however takes
   and flat_maps nest and however early StopIteration ends the evaluation. *)
OutputExact ==
  /\ IsPrefix(out, Meaning(source))
  /\ Evaluated => out = Meaning(source)

(* "Lazy": no element of the container is read once one too many has reached a
   take: one, not none, because a take notices only then that it is done. *)
PullsNoMore ==
  \A k \in DOMAIN left :
    next > 2 => Len(Through(k - 1, SubSeq(source, 1, next - 2))) <= plan[k].n

(* A terminal operation receives what the stages mean, and reads no more of
   the container than that takes. *)
PipelineExact == OutputExact /\ PullsNoMore
=============================================================================
