------------------------------ MODULE GlObjects ------------------------------
(***************************************************************************)
(* The owners of OpenGL objects: gl::Resource, gl::Shader and gl::Program, *)
(* and build_program, which compiles two shaders and links them.  OpenGL   *)
(* is outside: a shader that is attached, and a program that is in use,    *)
(* are deleted only when they no longer are.                               *)
(***************************************************************************)
EXTENDS Naturals, Sequences

CONSTANTS
  ProgramOwners,  \* the places where a Program can be
  OtherOwners,    \* the places where a Buffer, say, can be
  Names           \* the names of objects: positive, as 0 is no name

ASSUME NamesAssumption == Names \subseteq Nat \ {0}

VARIABLES
  id_,       \* the places that hold an owner, each with the name it owns
  objects,   \* OpenGL: the objects there are
  flagged,   \* OpenGL: those that are to be deleted when they can be
  attached,  \* OpenGL: pairs of a program and a shader
  inUse,     \* OpenGL: the program in use, or 0
  building   \* build_program: the names it owns so far, v, f and prog in turn

glVars == <<id_, objects, flagged, attached, inUse, building>>

GlOwners == ProgramOwners \cup OtherOwners

GlTypeOK ==
  /\ \E places \in SUBSET GlOwners : id_ \in [places -> Names \cup {0}]
  /\ objects \subseteq Names
  /\ flagged \subseteq objects
  /\ attached \subseteq objects \X objects
  /\ inUse \in objects \cup {0}
  /\ building \in Seq(objects) /\ Len(building) <= 3

GlInit ==
  /\ id_ = <<>>
  /\ objects = {} /\ flagged = {} /\ attached = {} /\ inUse = 0
  /\ building = <<>>

-----------------------------------------------------------------------------
(* OpenGL's objects, as a record of its variables. *)

Gl == [objects |-> objects, flagged |-> flagged, attached |-> attached, inUse |-> inUse]

GlBecomes(g) ==
  /\ objects' = g.objects /\ flagged' = g.flagged
  /\ attached' = g.attached /\ inUse' = g.inUse

Held(g, n) == g.inUse = n \/ \E a \in g.attached : a[2] = n

\* A flagged object goes when nothing holds it any more; a program that goes
\* lets its shaders go.
Swept(g) ==
  LET gone  == {n \in g.flagged : ~Held(g, n)}
      after == {a \in g.attached : a[1] \notin gone}
      more  == {n \in g.flagged : g.inUse # n /\ ~\E a \in after : a[2] = n} IN
  [g EXCEPT !.objects = @ \ more, !.flagged = @ \ more, !.attached = after]

\* glDelete...: 0 is ignored by every caller.
Delete(g, n) == IF n = 0 THEN g ELSE Swept([g EXCEPT !.flagged = @ \cup {n}])

\* Up to three, from the last to the first, as scopes are left.
DeleteAll(g, ns) ==
  LET name(k) == IF k <= Len(ns) THEN ns[k] ELSE 0 IN
  Delete(Delete(Delete(g, name(3)), name(2)), name(1))

-----------------------------------------------------------------------------
(* The owners. *)

CreateObject(o, n) ==
  /\ o \notin DOMAIN id_
  /\ n \notin objects
  /\ id_' = [p \in DOMAIN id_ \cup {o} |-> IF p = o THEN n ELSE id_[p]]
  /\ objects' = objects \cup {n}
  /\ UNCHANGED <<flagged, attached, inUse, building>>

DestroyOwner(o) ==
  /\ o \in DOMAIN id_
  /\ GlBecomes(Delete(Gl, id_[o]))
  /\ id_' = [p \in DOMAIN id_ \ {o} |-> id_[p]]
  /\ UNCHANGED building

SameKind(o, p) == o \in ProgramOwners <=> p \in ProgramOwners

MoveConstructOwner(o, p) ==
  /\ o \in DOMAIN id_ /\ p \notin DOMAIN id_
  /\ SameKind(o, p)
  /\ id_' = [q \in DOMAIN id_ \cup {p} |->
               IF q = p THEN id_[o] ELSE IF q = o THEN 0 ELSE id_[q]]
  /\ UNCHANGED <<objects, flagged, attached, inUse, building>>

MoveAssignOwner(o, p) ==
  /\ o # p
  /\ {o, p} \subseteq DOMAIN id_
  /\ SameKind(o, p)
  /\ GlBecomes(Delete(Gl, id_[p]))
  /\ id_' = [id_ EXCEPT ![p] = id_[o], ![o] = 0]
  /\ UNCHANGED building

\* Program::use.  A program that was in use may go now.
Use(o) ==
  /\ o \in ProgramOwners \cap DOMAIN id_
  /\ GlBecomes(Swept([Gl EXCEPT !.inUse = id_[o]]))
  /\ UNCHANGED <<id_, building>>

-----------------------------------------------------------------------------
(* build_program.  Its scopes are left in the reverse order of their entry,
   whether by return or by the exception of a step that fails. *)

CompileNext(n) ==
  /\ Len(building) < 2
  /\ n \notin objects
  /\ objects' = objects \cup {n}
  /\ building' = Append(building, n)
  /\ UNCHANGED <<id_, flagged, attached, inUse>>

LinkBegins(n) ==
  /\ Len(building) = 2
  /\ n \notin objects
  /\ objects' = objects \cup {n}
  /\ attached' = attached \cup {<<n, building[1]>>, <<n, building[2]>>}
  /\ building' = Append(building, n)
  /\ UNCHANGED <<id_, flagged, inUse>>

\* A compilation or the linking fails.
BuildFails ==
  /\ building # <<>>
  /\ GlBecomes(DeleteAll(Gl, building))
  /\ building' = <<>>
  /\ UNCHANGED id_

BuildReturns(o) ==
  /\ Len(building) = 3
  /\ o \in ProgramOwners \ DOMAIN id_
  /\ GlBecomes(DeleteAll(
       Swept([Gl EXCEPT !.attached = {a \in @ : a[1] # building[3]}]),
       SubSeq(building, 1, 2)))
  /\ id_' = [p \in DOMAIN id_ \cup {o} |-> IF p = o THEN building[3] ELSE id_[p]]
  /\ building' = <<>>

OwnerStep ==
  \/ \E o \in GlOwners, n \in Names : CreateObject(o, n)
  \/ \E o \in GlOwners : DestroyOwner(o) \/ Use(o)
  \/ \E o, p \in GlOwners : MoveConstructOwner(o, p) \/ MoveAssignOwner(o, p)

BuildStep ==
  \/ \E n \in Names : CompileNext(n) \/ LinkBegins(n)
  \/ BuildFails
  \/ \E o \in ProgramOwners : BuildReturns(o)

GlNext == (building = <<>> /\ OwnerStep) \/ BuildStep

GlSpec == GlInit /\ [][GlNext]_glVars

-----------------------------------------------------------------------------
(* "RAII cleans up intermediate shaders": between builds, successful or failed
   at any step, the only objects are those that an owner has, and the program
   that is in use after its owner has gone; no two owners have the same. *)
ObjectsOwnedOnce ==
  /\ building = <<>> =>
       /\ objects = ({id_[o] : o \in DOMAIN id_} \cup {inUse}) \ {0}
       /\ attached = {}
  /\ \A o, p \in DOMAIN id_ : o # p /\ id_[o] = id_[p] => id_[o] = 0
  /\ \A o \in DOMAIN id_ : id_[o] \notin flagged
=============================================================================
