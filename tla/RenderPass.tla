------------------------------ MODULE RenderPass ------------------------------
(***************************************************************************)
(* RenderPass and PipelineState: what they read and write of the state of  *)
(* an OpenGL context.  Passes are scopes and nest.  The program binds      *)
(* framebuffers itself only outside of passes, but may delete a framebuffer *)
(* or a program at any time; names of deleted ones are not given out again. *)
(***************************************************************************)
EXTENDS Naturals, Sequences, SequencesExt

CONSTANTS
  Framebuffers,  \* names, apart from 0, the default framebuffer
  Programs,      \* names of programs
  Viewports,     \* the viewports that are set
  Pipelines,     \* the PipelineStates that are drawn with: records
  MaxPasses      \* bound: how many passes are open inside each other

ASSUME PassAssumption ==
  /\ 0 \notin Framebuffers
  /\ MaxPasses \in Nat

VARIABLES
  ctx,     \* the state of the context
  fbos,    \* the framebuffers there are
  progs,   \* the programs there are
  passes,  \* the open passes, with what they have saved
  base,    \* history: what the program has bound outside of passes
  drawn    \* history: the pipeline of the last draw, as a sequence

passVars == <<ctx, fbos, progs, passes, base, drawn>>

NoProgram == 0

Target == Framebuffers \cup {0}

(* The framebuffer and viewport that a pass, or the program, has set. *)
View == [fbo : Target, viewport : Viewports]

PassTypeOK ==
  /\ ctx.fbo \in Target /\ ctx.viewport \in Viewports
  /\ fbos \subseteq Framebuffers /\ progs \subseteq Programs
  /\ passes \in Seq([own : View, prev : View])
  /\ base \in View
  /\ drawn \in {<<>>} \cup {<<p>> : p \in Pipelines}

PassInit ==
  /\ base \in [fbo : {0}, viewport : Viewports]
  /\ ctx = [fbo |-> 0, viewport |-> base.viewport, program |-> NoProgram,
            test |-> FALSE, func |-> "less", mask |-> TRUE,
            blend |-> FALSE, factors |-> "one",
            cull |-> FALSE, face |-> "back", polygon |-> "fill"]
  /\ fbos = Framebuffers /\ progs = Programs
  /\ passes = <<>>
  /\ drawn = <<>>

-----------------------------------------------------------------------------
(* OpenGL: glBindFramebuffer and glUseProgram of a deleted name are an error
   and change nothing; deleting the bound framebuffer binds 0. *)

BindFramebuffer(c, n) == IF n \in fbos \cup {0} THEN [c EXCEPT !.fbo = n] ELSE c

UseProgram(c, p) == IF p \in progs \cup {NoProgram} THEN [c EXCEPT !.program = p] ELSE c

DeleteFramebuffer(n) ==
  /\ n \in fbos
  /\ fbos' = fbos \ {n}
  /\ ctx' = IF ctx.fbo = n THEN [ctx EXCEPT !.fbo = 0] ELSE ctx
  /\ UNCHANGED <<progs, passes, base, drawn>>

DeleteProgram(p) ==
  /\ p \in progs
  /\ progs' = progs \ {p}
  /\ UNCHANGED <<ctx, fbos, passes, base, drawn>>

\* The program's own code, outside of any pass.
SetView(v) ==
  /\ passes = <<>>
  /\ v.fbo \in fbos \cup {0}
  /\ ctx' = [BindFramebuffer(ctx, v.fbo) EXCEPT !.viewport = v.viewport]
  /\ base' = v
  /\ UNCHANGED <<fbos, progs, passes, drawn>>

-----------------------------------------------------------------------------
(* DepthState::apply, BlendState::apply and PipelineState::bind. *)

ApplyDepth(c, p) ==
  [c EXCEPT !.test = p.test, !.func = IF p.test THEN p.func ELSE @, !.mask = p.write]

ApplyBlend(c, p) ==
  [c EXCEPT !.blend = p.blend, !.factors = IF p.blend THEN p.factors ELSE @]

Bind(c, p) ==
  [ApplyBlend(ApplyDepth(UseProgram(c, p.program), p), p) EXCEPT
     !.cull = p.cull, !.face = IF p.cull THEN p.face ELSE @, !.polygon = p.polygon]

-----------------------------------------------------------------------------
(* RenderPass. *)

BeginPass(v) ==
  /\ Len(passes) < MaxPasses
  /\ v.fbo \in fbos \cup {0}
  /\ passes' = Append(passes, [own  |-> v,
                               prev |-> [fbo |-> ctx.fbo, viewport |-> ctx.viewport]])
  /\ ctx' = [BindFramebuffer(ctx, v.fbo) EXCEPT !.viewport = v.viewport]
  /\ UNCHANGED <<fbos, progs, base, drawn>>

Draw(p) ==
  /\ passes # <<>>
  /\ ctx' = Bind(ctx, p)
  /\ drawn' = IF p.program \in progs THEN <<p>> ELSE <<>>
  /\ UNCHANGED <<fbos, progs, passes, base>>

(* Mutant: the destructor binds the default framebuffer. *)
EndPassUnbinds ==
  /\ passes # <<>>
  /\ ctx' = [ctx EXCEPT !.fbo = 0, !.viewport = Last(passes).prev.viewport]
  /\ passes' = Front(passes)
  /\ UNCHANGED <<fbos, progs, base, drawn>>

\* The destructor, whether the scope is left normally or by an exception.
EndPass ==
  /\ passes # <<>>
  /\ ctx' = [BindFramebuffer(ctx, Last(passes).prev.fbo)
               EXCEPT !.viewport = Last(passes).prev.viewport]
  /\ passes' = Front(passes)
  /\ UNCHANGED <<fbos, progs, base, drawn>>

PassNext ==
  \/ \E n \in Framebuffers : DeleteFramebuffer(n)
  \/ \E p \in Programs : DeleteProgram(p)
  \/ \E v \in View : SetView(v) \/ BeginPass(v)
  \/ \E p \in Pipelines : Draw(p)
  \/ EndPass

PassSpec == PassInit /\ [][PassNext]_passVars

-----------------------------------------------------------------------------
\* The view that the innermost open scope has asked for.
Scope == IF passes = <<>> THEN base ELSE Last(passes).own

(* "Restores on exit": after any nesting of passes, left normally or not, the
   context is back at what the scope that runs has bound, unless that
   framebuffer was deleted meanwhile. *)
TargetIsOfScope ==
  /\ Scope.fbo \in fbos \cup {0} => ctx.fbo = Scope.fbo
  /\ ctx.viewport = Scope.viewport

\* What a context, or a pipeline, makes of a draw call: settings of what is
\* disabled do not matter.
Effect(c) ==
  [program |-> c.program, test |-> c.test, write |-> c.mask,
   func |-> IF c.test THEN c.func ELSE "any",
   factors |-> IF c.blend THEN c.factors ELSE "none",
   face |-> IF c.cull THEN c.face ELSE "none", polygon |-> c.polygon]

Described(p) ==
  [program |-> p.program, test |-> p.test, write |-> p.write,
   func |-> IF p.test THEN p.func ELSE "any",
   factors |-> IF p.blend THEN p.factors ELSE "none",
   face |-> IF p.cull THEN p.face ELSE "none", polygon |-> p.polygon]

(* "Applied as a unit": a draw runs under exactly the state of its pipeline,
   whatever the pipelines before it have enabled, provided that the program
   of the pipeline still exists. *)
DrawsAsDescribed == drawn # <<>> => Effect(ctx) = Described(drawn[1])

(* A draw goes where its scope has said, and in the way its pipeline says. *)
PassesExact == TargetIsOfScope /\ DrawsAsDescribed
=============================================================================
