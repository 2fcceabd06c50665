------------------------------ MODULE Database ------------------------------
(***************************************************************************)
(* database::Database::transaction, and the Repository and Statement calls *)
(* a program makes inside and outside of it, on one connection used by one *)
(* thread.  SQLite is outside: it is modelled by what the wrapper relies   *)
(* on.  It has no nested transactions, any statement may fail, and some    *)
(* failures roll the open transaction back by themselves.                  *)
(*                                                                         *)
(* The program is arbitrary: it may call transaction from inside the       *)
(* callable of another, throw, and catch what is thrown at it, but does    *)
(* not itself execute BEGIN, COMMIT or ROLLBACK.                           *)
(***************************************************************************)
EXTENDS Naturals

CONSTANTS
  Rows,      \* the rows that a table may hold
  Swallows,  \* whether a callable may catch an error that has rolled back
  MaxDepth   \* bound: how many calls of transaction run inside each other

ASSUME DatabaseAssumption ==
  /\ Swallows \in BOOLEAN
  /\ MaxDepth \in Nat \ {0}

VARIABLES
  disk,     \* SQLite: the committed table
  rows,     \* SQLite: the table as the connection sees it
  open,     \* SQLite: a transaction is open
  depth,    \* the calls of transaction that are inside their try block
  exc,      \* the exception on its way, and where: see Exceptions
  outcome,  \* how the last outermost call of transaction ended
  before    \* history: disk when that call began, then as written after its end

vars == <<disk, rows, open, depth, exc, outcome, before>>

(* "body": an exception reaches the callable of the innermost call, or the
   program outside; "rolledback": the same, of an error that has rolled back;
   "commit": COMMIT has thrown, past the callable. *)
Exceptions == {"none", "body", "rolledback", "commit"}

\* One call of transaction at a time has been able to BEGIN.
TypeOK ==
  /\ disk \in SUBSET Rows
  /\ rows \in SUBSET Rows
  /\ open \in BOOLEAN
  /\ depth \in 0..(IF Swallows THEN MaxDepth ELSE 1)
  /\ exc \in Exceptions
  /\ outcome \in {"none", "returned", "threw"}
  /\ before \in SUBSET Rows

Init ==
  /\ disk = {} /\ rows = {} /\ open = FALSE
  /\ depth = 0
  /\ exc = "none"
  /\ outcome = "none"
  /\ before = {}

\* The program's own code runs: outside, or in a callable.
Running == exc = "none"

-----------------------------------------------------------------------------
(* Repository and Statement: prepare, bind, step. *)

Write(table) ==
  /\ rows' = table
  /\ disk' = IF open THEN disk ELSE table
  /\ before' = IF depth = 0 THEN table ELSE before
  /\ UNCHANGED <<open, depth, exc, outcome>>

Insert(r) == Running /\ r \notin rows /\ Write(rows \cup {r})

RemoveRow(r) == Running /\ Write(rows \ {r})

\* prepare, bind or step throws; the transaction, if one is open, stays open.
StatementFails ==
  /\ Running
  /\ exc' = "body"
  /\ UNCHANGED <<disk, rows, open, depth, outcome, before>>

\* step throws for an error after which SQLite has rolled back.
StatementRollsBack ==
  /\ Running
  /\ open
  /\ rows' = disk
  /\ open' = FALSE
  /\ exc' = "rolledback"
  /\ UNCHANGED <<disk, depth, outcome, before>>

-----------------------------------------------------------------------------
(* transaction. *)

Begin ==
  /\ Running
  /\ depth < MaxDepth
  /\ ~open
  /\ open' = TRUE
  /\ depth' = depth + 1
  /\ outcome' = IF depth = 0 THEN "none" ELSE outcome
  /\ before' = IF depth = 0 THEN disk ELSE before
  /\ UNCHANGED <<disk, rows, exc>>

(* Mutant: BEGIN is executed inside the try block. *)
BeginInTry ==
  /\ Running
  /\ exc' = "body"
  /\ rows' = disk
  /\ open' = FALSE
  /\ UNCHANGED <<disk, depth, outcome, before>>

\* BEGIN throws, always so while a transaction is open, before the try block.
BeginFails ==
  /\ Running
  /\ exc' = "body"
  /\ UNCHANGED <<disk, rows, open, depth, outcome, before>>

\* The callable throws something of its own.
CallableThrows ==
  /\ Running
  /\ depth > 0
  /\ exc' = "body"
  /\ UNCHANGED <<disk, rows, open, depth, outcome, before>>

\* The callable, or the program outside, catches the exception.
Catch ==
  /\ \/ exc = "body"
     \/ exc = "rolledback" /\ (depth = 0 \/ Swallows)
  /\ exc' = "none"
  /\ UNCHANGED <<disk, rows, open, depth, outcome, before>>

\* How a call that is left records its end.
Ended(how) == IF depth = 1 THEN how ELSE outcome

Commit ==
  /\ Running
  /\ depth > 0
  /\ open
  /\ disk' = rows
  /\ open' = FALSE
  /\ depth' = depth - 1
  /\ outcome' = Ended("returned")
  /\ UNCHANGED <<rows, exc, before>>

(* Mutant: COMMIT comes after the try block. *)
CommitOutsideTry ==
  /\ Running
  /\ depth > 0
  /\ depth' = depth - 1
  /\ exc' = "body"
  /\ outcome' = Ended("threw")
  /\ UNCHANGED <<disk, rows, open, before>>

\* COMMIT throws: the transaction is still open, was rolled back by COMMIT, or
\* had been rolled back before.
CommitFails ==
  /\ Running
  /\ depth > 0
  /\ exc' = "commit"
  /\ \/ UNCHANGED <<rows, open>>
     \/ open /\ rows' = disk /\ open' = FALSE
  /\ UNCHANGED <<disk, depth, outcome, before>>

(* Mutant: the handler rethrows without ROLLBACK. *)
RollbackNot ==
  /\ depth > 0
  /\ exc # "none"
  /\ depth' = depth - 1
  /\ exc' = "body"
  /\ outcome' = Ended("threw")
  /\ UNCHANGED <<disk, rows, open, before>>

\* The handler: ROLLBACK, whose own failure is ignored, and rethrow.
Rollback ==
  /\ depth > 0
  /\ exc # "none"
  /\ rows' = disk
  /\ open' = FALSE
  /\ depth' = depth - 1
  /\ exc' = IF exc = "commit" THEN "body" ELSE exc
  /\ outcome' = Ended("threw")
  /\ UNCHANGED <<disk, before>>

-----------------------------------------------------------------------------
StatementStep ==
  \/ \E r \in Rows : Insert(r) \/ RemoveRow(r)
  \/ StatementFails
  \/ StatementRollsBack

TransactionStep ==
  \/ Begin \/ BeginFails \/ CallableThrows \/ Catch
  \/ Commit \/ CommitFails \/ Rollback

Next == StatementStep \/ TransactionStep

Spec == Init /\ [][Next]_vars

-----------------------------------------------------------------------------
(* Between transactions the connection is in none: whichever of BEGIN, the
   callable, a statement in it, COMMIT and ROLLBACK failed, nobody is left
   writing into a transaction that no call will commit. *)
NoTransactionLeftOpen == depth = 0 => ~open

(* "rolls back on exception": when the outermost call has thrown, the table
   is what it was when the call began, and no write of the callable surfaces
   later. *)
RollsBackOnException ==
  depth = 0 /\ outcome = "threw" => rows = before /\ disk = before

(* A call of transaction that is entered inside another neither commits nor
   rolls back what the outer one did: as long as a callable is running or
   catches what is thrown at it, its transaction is the one it began. *)
NestedCallsKeepOuter ==
  [][depth > 0 /\ depth' = depth /\ open /\ exc' \in {"none", "body"} =>
       open' /\ disk' = disk]_vars

(* Database implements a transactional store. *)
Phase == IF depth = 0 THEN "idle" ELSE IF open THEN "working" ELSE "doomed"

Work == INSTANCE UnitOfWork WITH
          store <- disk, pending <- rows, phase <- Phase

ImplementsUnitOfWork == Work!USpec
=============================================================================
