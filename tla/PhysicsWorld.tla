----------------------------- MODULE PhysicsWorld -----------------------------
(***************************************************************************)
(* simulation::PhysicsWorld along one axis.  Lengths are integers, in a    *)
(* unit so small that every halving of a correction is exact: there is no  *)
(* rounding.  A particle's mass is stored and used by nobody.              *)
(***************************************************************************)
EXTENDS Integers, Sequences, SequencesExt, Arithmetic

CONSTANTS
  Positions,     \* where particles are put
  Gravity,       \* gravity * dt * dt of a step
  MaxParticles,  \* bound
  MaxConstraints,  \* bound
  MaxSteps,      \* bound: the steps of a world
  MaxIterations  \* bound: the constraint_iters that step is called with

\* The corrections of one step, each of which may halve a length.
MaxPerStep == MaxIterations * MaxConstraints

ASSUME PhysicsAssumption ==
  /\ Positions \subseteq Int /\ Gravity \in Int
  /\ MaxParticles \in Nat /\ MaxConstraints \in Nat
  /\ MaxSteps \in Nat /\ MaxIterations \in Nat
  /\ \A x \in Positions \cup {Gravity} : x % Power(2, MaxSteps * MaxPerStep) = 0

VARIABLES
  particles_,    \* records of pos, prev and pinned
  constraints_,  \* records of a, b and rest
  steps,         \* how many steps there were
  impulse,       \* history: what gravity has added to the sum of velocities
  relaxed        \* history: the last call was a step with an iteration

physicsVars == <<particles_, constraints_, steps, impulse, relaxed>>

PhysicsInit ==
  /\ particles_ = <<>> /\ constraints_ = <<>>
  /\ steps = 0 /\ impulse = 0 /\ relaxed = FALSE

Abs(x) == IF x < 0 THEN -x ELSE x

Sign(x) == IF x < 0 THEN -1 ELSE 1

AddParticle(x, pinned) ==
  /\ Len(particles_) < MaxParticles
  /\ particles_' = Append(particles_, [pos |-> x, prev |-> x, pinned |-> pinned])
  /\ relaxed' = FALSE
  /\ UNCHANGED <<constraints_, steps, impulse>>

\* An index that is out of range, or twice the same one, throws.
AddConstraint(a, b) ==
  /\ Len(constraints_) < MaxConstraints
  /\ {a, b} \subseteq DOMAIN particles_ /\ a # b
  /\ constraints_' =
       Append(constraints_,
              [a |-> a, b |-> b, rest |-> Abs(particles_[a].pos - particles_[b].pos)])
  /\ relaxed' = FALSE
  /\ UNCHANGED <<particles_, steps, impulse>>

\* Verlet: the velocity is what the position has changed by.
Integrate(p) ==
  IF p.pinned THEN p
  ELSE [p EXCEPT !.prev = p.pos, !.pos = p.pos + (p.pos - p.prev) + Gravity]

(* Mutant: the whole correction goes to the second particle. *)
RelaxSecond(ps, c) ==
  LET delta == ps[c.b].pos - ps[c.a].pos
      excess == Sign(delta) * (Abs(delta) - c.rest) IN
  IF delta = 0 \/ ps[c.b].pinned THEN ps ELSE [ps EXCEPT ![c.b].pos = @ - excess]

\* One constraint is satisfied, by halves unless one end is pinned; two ends at
\* the same place have no direction to be moved in.
Relax(ps, c) ==
  LET delta == ps[c.b].pos - ps[c.a].pos
      excess == Sign(delta) * (Abs(delta) - c.rest)
      first  == ps[c.a].pinned
      second == ps[c.b].pinned IN
  IF delta = 0 THEN ps
  ELSE CASE ~first /\ ~second -> [ps EXCEPT ![c.a].pos = @ + excess \div 2,
                                            ![c.b].pos = @ - excess \div 2]
         [] ~first /\ second  -> [ps EXCEPT ![c.a].pos = @ + excess]
         [] first /\ ~second  -> [ps EXCEPT ![c.b].pos = @ - excess]
         [] OTHER -> ps

\* The constraints are relaxed one after the other, and again from the first.
RelaxTimes(ps, cs, count) ==
  LET r[k \in 0..count] ==
        IF k = 0 THEN ps ELSE Relax(r[k - 1], cs[((k - 1) % Len(cs)) + 1])
  IN r[count]

StepWorld(iterations) ==
  /\ steps < MaxSteps
  /\ steps' = steps + 1
  /\ particles_' =
       RelaxTimes([k \in DOMAIN particles_ |-> Integrate(particles_[k])],
                  constraints_, iterations * Len(constraints_))
  /\ impulse' = impulse + Gravity * Len(particles_)
  /\ relaxed' = (iterations > 0)
  /\ UNCHANGED constraints_

PhysicsNext ==
  \/ \E x \in Positions, pinned \in BOOLEAN : AddParticle(x, pinned)
  \/ \E a, b \in 1..MaxParticles : AddConstraint(a, b)
  \/ \E iterations \in 0..MaxIterations : StepWorld(iterations)

PhysicsSpec == PhysicsInit /\ [][PhysicsNext]_physicsVars

-----------------------------------------------------------------------------
\* "If true, particle is immovable."
PinnedStay ==
  \A i \in DOMAIN particles_ : particles_[i].pinned => particles_[i].pos = particles_[i].prev

Velocities(ps) == [k \in 0..Len(ps) - 1 |-> ps[k + 1].pos - ps[k + 1].prev]

(* The constraints exert no force on the whole: in a world without pinned
   particles velocities change in sum by gravity alone, however many
   constraints share a particle and in whatever order they are relaxed. *)
MomentumKept ==
  (\A i \in DOMAIN particles_ : ~particles_[i].pinned) =>
    SumBelow(Velocities(particles_), Len(particles_)) = impulse

(* "Target distance between the two particles": the constraint that a step has
   relaxed last has it, unless both its ends are pinned or met in one point. *)
LastHolds ==
  relaxed /\ constraints_ # <<>> =>
    LET c == Last(constraints_)
        p == particles_[c.a]
        q == particles_[c.b] IN
    (p.pinned /\ q.pinned) \/ p.pos = q.pos \/ Abs(p.pos - q.pos) = c.rest

(* A step moves what it may, as far as it must, and nothing else. *)
WorldExact == PinnedStay /\ MomentumKept /\ LastHolds
=============================================================================
