-------------------------------- MODULE Numbers --------------------------------
(***************************************************************************)
(* The components that compute, next to each other: the loops over arrays, *)
(* the integrators, and the world of particles.  They share no state.      *)
(***************************************************************************)
EXTENDS SimdOps, Numerical, PhysicsWorld

(* The loops over arrays end with what their documentation defines, in the
   vector and in the scalar build, whatever the lengths and overlaps. *)
KernelsExact == ElementwiseExact /\ DotExact

(* The integrators are of fourth order, and end where they should. *)
IntegratorsExact == OrderFour /\ EndsNearest
=============================================================================
