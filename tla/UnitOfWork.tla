----------------------------- MODULE UnitOfWork -----------------------------
(***************************************************************************)
(* What a transactional store promises to one user: outside a unit of work *)
(* an edit is durable at once; a unit of work that returns has made all of *)
(* its edits durable, one that throws has made none.                       *)
(***************************************************************************)
CONSTANT Rows

VARIABLES
  store,    \* what is durable
  pending,  \* what the user sees
  phase,    \* "idle", "working", or "doomed": the edits are already undone
  outcome   \* how the last unit of work ended

uvars == <<store, pending, phase, outcome>>

UInit ==
  /\ store = {} /\ pending = {}
  /\ phase = "idle"
  /\ outcome = "none"

\* The tables that differ in one row.
Edits(s) == {s \cup {r} : r \in Rows} \cup {s \ {r} : r \in Rows}

UWrite ==
  /\ phase = "idle"
  /\ store' \in Edits(store)
  /\ pending' = store'
  /\ UNCHANGED <<phase, outcome>>

UBegin ==
  /\ phase = "idle"
  /\ phase' = "working"
  /\ outcome' = "none"
  /\ UNCHANGED <<store, pending>>

UEdit ==
  /\ phase = "working"
  /\ pending' \in Edits(pending)
  /\ UNCHANGED <<store, phase, outcome>>

UDoom ==
  /\ phase = "working"
  /\ pending' = store
  /\ phase' = "doomed"
  /\ UNCHANGED <<store, outcome>>

UCommit ==
  /\ phase = "working"
  /\ store' = pending
  /\ phase' = "idle"
  /\ outcome' = "returned"
  /\ UNCHANGED pending

UAbort ==
  /\ phase \in {"working", "doomed"}
  /\ pending' = store
  /\ phase' = "idle"
  /\ outcome' = "threw"
  /\ UNCHANGED store

UNext == UWrite \/ UBegin \/ UEdit \/ UDoom \/ UCommit \/ UAbort

USpec == UInit /\ [][UNext]_uvars
=============================================================================
