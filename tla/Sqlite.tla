-------------------------------- MODULE Sqlite --------------------------------
(***************************************************************************)
(* The owners of SQLite's handles: database::Database around a connection, *)
(* database::Statement around a prepared statement of it, and the calls of *)
(* Repository, which make a Statement of their own, at `Local`.  SQLite is *)
(* outside; any call of it that returns a result code may fail.            *)
(*                                                                         *)
(* The program is arbitrary, but uses a Statement or Database that it has  *)
(* moved from only to assign to it or to let it go out of scope.  A call   *)
(* that throws and changes nothing has no action.                          *)
(***************************************************************************)
EXTENDS Naturals

CONSTANTS
  Databases,    \* the places where a Database can be
  Statements,   \* the places where the program keeps a Statement
  Local,        \* the place of the statement of a Repository call
  Connections,  \* what sqlite3_open returns
  Handles,      \* what sqlite3_prepare_v2 returns
  Values,       \* what is bound to the parameter of a statement
  Absent,       \* there is no object in a place
  Null          \* nullptr, and no value

ASSUME SqliteAssumption ==
  /\ Null # Absent /\ {Null, Absent} \cap (Connections \cup Handles \cup Values) = {}
  /\ Local \notin Statements

VARIABLES
  db_,      \* per place: the connection of the Database there
  stmt_,    \* per place: the handle of the Statement there
  conns,    \* SQLite: "free", "open", or "zombie" until its statements go
  stmts,    \* SQLite: per handle, its connection, state and bound value
  call,     \* the Repository call that runs, and how far it is
  leaked,   \* history: connections whose constructor has thrown
  given     \* history: what the program has bound to a handle, see Bind

sqliteVars == <<db_, stmt_, conns, stmts, call, leaked, given>>

Places == Statements \cup {Local}

Free == [conn |-> Null, state |-> "ready", bound |-> Null, ran |-> Null]

(* "row" and "done": the last step returned this; "failed": it has thrown. *)
SqliteTypeOK ==
  /\ db_ \in [Databases -> Connections \cup {Null, Absent}]
  /\ stmt_ \in [Places -> Handles \cup {Null, Absent}]
  /\ conns \in [Connections -> {"free", "open", "zombie"}]
  /\ stmts \in [Handles -> [conn  : Connections \cup {Null},
                            state : {"ready", "row", "done", "failed"},
                            bound : Values \cup {Null},
                            ran   : Values \cup {Null}]]
  /\ call \in {"none", "insert", "find_all", "find_by_id", "remove"}
  /\ leaked \subseteq Connections
  /\ given \in [Handles -> Values \cup {Null}]

SqliteInit ==
  /\ db_ = [d \in Databases |-> Absent]
  /\ stmt_ = [s \in Places |-> Absent]
  /\ conns = [c \in Connections |-> "free"]
  /\ stmts = [h \in Handles |-> Free]
  /\ call = "none"
  /\ leaked = {}
  /\ given = [h \in Handles |-> Null]

HasStatements(c, table) == \E h \in Handles : table[h].conn = c

-----------------------------------------------------------------------------
(* Database. *)

\* The constructor succeeds, or a PRAGMA throws after sqlite3_open (bound: of
\* one constructor).
OpenDatabase(d, c) ==
  /\ db_[d] = Absent
  /\ conns[c] = "free"
  /\ conns' = [conns EXCEPT ![c] = "open"]
  /\ \/ db_' = [db_ EXCEPT ![d] = c] /\ UNCHANGED leaked
     \/ leaked = {} /\ leaked' = {c} /\ UNCHANGED db_
  /\ UNCHANGED <<stmt_, stmts, call, given>>

\* The connections after sqlite3_close_v2(c), of none if c is Null.
CloseConnection(c) ==
  [x \in Connections |->
     IF x # c THEN conns[x] ELSE IF HasStatements(c, stmts) THEN "zombie" ELSE "free"]

DestroyDatabase(d) ==
  /\ db_[d] # Absent
  /\ call = "none"
  /\ conns' = CloseConnection(db_[d])
  /\ db_' = [db_ EXCEPT ![d] = Absent]
  /\ UNCHANGED <<stmt_, stmts, call, leaked, given>>

MoveConstructDatabase(d, e) ==
  /\ db_[d] # Absent /\ db_[e] = Absent
  /\ call = "none"
  /\ db_' = [db_ EXCEPT ![e] = db_[d], ![d] = Null]
  /\ UNCHANGED <<stmt_, conns, stmts, call, leaked, given>>

MoveAssignDatabase(d, e) ==
  /\ d # e
  /\ db_[d] # Absent /\ db_[e] # Absent
  /\ call = "none"
  /\ conns' = CloseConnection(db_[e])
  /\ db_' = [db_ EXCEPT ![e] = db_[d], ![d] = Null]
  /\ UNCHANGED <<stmt_, stmts, call, leaked, given>>

-----------------------------------------------------------------------------
(* Statement. *)

\* prepare, into a place.
PrepareInto(s, d, h) ==
  /\ stmt_[s] = Absent
  /\ db_[d] \in Connections
  /\ stmts[h] = Free
  /\ stmt_' = [stmt_ EXCEPT ![s] = h]
  /\ stmts' = [stmts EXCEPT ![h].conn = db_[d]]
  /\ UNCHANGED <<db_, conns, leaked, given>>

\* sqlite3_finalize(h), which frees a zombie that it leaves without statements;
\* the Statement itself goes to `place`.
Finalized(h, place) ==
  LET table == [x \in Handles |-> IF x = h THEN Free ELSE stmts[x]] IN
  /\ stmts' = table
  /\ conns' = [c \in Connections |->
                 IF conns[c] = "zombie" /\ ~HasStatements(c, table)
                 THEN "free" ELSE conns[c]]
  /\ stmt_' = place
  /\ given' = [x \in Handles |-> IF x = h THEN Null ELSE given[x]]
  /\ UNCHANGED <<db_, leaked>>

MoveConstructStatement(s, t) ==
  /\ stmt_[s] # Absent /\ stmt_[t] = Absent
  /\ stmt_' = [stmt_ EXCEPT ![t] = stmt_[s], ![s] = Null]
  /\ UNCHANGED <<db_, conns, stmts, call, leaked, given>>

MoveAssignStatement(s, t) ==
  /\ s # t
  /\ stmt_[s] # Absent /\ stmt_[t] # Absent
  /\ Finalized(stmt_[t], [stmt_ EXCEPT ![t] = stmt_[s], ![s] = Null])
  /\ UNCHANGED call

DestroyAt(s) ==
  /\ stmt_[s] # Absent
  /\ Finalized(stmt_[s], [stmt_ EXCEPT ![s] = Absent])

(* SQLite binds to a statement that has not been stepped since its reset, and
   refuses any other: bind has then thrown, and changes nothing. *)
BindValue(h, v) ==
  /\ stmts[h].state = "ready"
  /\ stmts' = [stmts EXCEPT ![h].bound = v]
  /\ given' = [given EXCEPT ![h] = v]
  /\ UNCHANGED <<db_, stmt_, conns, leaked>>

(* A row, the end, or an error that step throws.  A statement that has ended
   or failed starts again from the beginning, with what is bound to it. *)
StepStatement(h) ==
  /\ \E outcome \in {"row", "done", "failed"} :
       stmts' = [stmts EXCEPT ![h].state = outcome,
                              ![h].ran = IF stmts[h].state = "row" THEN @
                                         ELSE stmts[h].bound]
  /\ UNCHANGED <<db_, stmt_, conns, leaked, given>>

(* Mutant: the bindings are not cleared. *)
ResetStatementKeeps(h) ==
  /\ stmts' = [stmts EXCEPT ![h].state = "ready"]
  /\ given' = [given EXCEPT ![h] = IF stmts[h].state = "failed" THEN @ ELSE Null]
  /\ UNCHANGED <<db_, stmt_, conns, leaked>>

(* sqlite3_reset takes the statement back to its beginning and returns the
   error of the step before.  reset() throws that, and then has cleared no
   binding: what was given to the statement stays given. *)
ResetStatement(h) ==
  /\ IF stmts[h].state = "failed"
     THEN /\ stmts' = [stmts EXCEPT ![h].state = "ready"]
          /\ UNCHANGED given
     ELSE /\ stmts' = [stmts EXCEPT ![h].state = "ready", ![h].bound = Null]
          /\ given' = [given EXCEPT ![h] = Null]
  /\ UNCHANGED <<db_, stmt_, conns, leaked>>

-----------------------------------------------------------------------------
(* Repository: a call prepares, binds unless it is find_all, steps once, or
   until there is no row, and lets its statement go, whether it returns or an
   error passes through it.  Reading a row may throw. *)

CallPrepares(op, d, h) ==
  /\ call = "none"
  /\ call' = op
  /\ PrepareInto(Local, d, h)

CallBinds(v) ==
  /\ call \in {"insert", "find_by_id", "remove"}
  /\ stmts[stmt_[Local]].bound = Null
  /\ BindValue(stmt_[Local], v)
  /\ UNCHANGED call

CallSteps ==
  LET s == stmts[stmt_[Local]] IN
  /\ call # "none"
  /\ \/ s.state = "ready" /\ (call = "find_all" \/ s.bound # Null)
     \/ s.state = "row" /\ call = "find_all"
  /\ StepStatement(stmt_[Local])
  /\ UNCHANGED call

\* At any point: bind, step and reading may throw.
CallEnds ==
  /\ call # "none"
  /\ call' = "none"
  /\ DestroyAt(Local)

-----------------------------------------------------------------------------
DatabaseStep ==
  \/ \E d \in Databases, c \in Connections : OpenDatabase(d, c)
  \/ \E d \in Databases : DestroyDatabase(d)
  \/ \E d, e \in Databases : MoveConstructDatabase(d, e) \/ MoveAssignDatabase(d, e)

OwnStatementStep ==
  \/ \E s \in Statements, d \in Databases, h \in Handles :
       PrepareInto(s, d, h) /\ UNCHANGED call
  \/ \E s, t \in Statements : MoveConstructStatement(s, t) \/ MoveAssignStatement(s, t)
  \/ \E s \in Statements : DestroyAt(s) /\ UNCHANGED call
  \/ \E s \in Statements, v \in Values :
       stmt_[s] \in Handles /\ BindValue(stmt_[s], v) /\ UNCHANGED call
  \/ \E s \in Statements :
       /\ stmt_[s] \in Handles
       /\ StepStatement(stmt_[s]) \/ ResetStatement(stmt_[s])
       /\ UNCHANGED call

RepositoryStep ==
  \/ \E op \in {"insert", "find_all", "find_by_id", "remove"},
        d \in Databases, h \in Handles : CallPrepares(op, d, h)
  \/ \E v \in Values : CallBinds(v)
  \/ CallSteps
  \/ CallEnds

SqliteNext ==
  \/ DatabaseStep
  \/ call = "none" /\ OwnStatementStep
  \/ RepositoryStep

SqliteSpec == SqliteInit /\ [][SqliteNext]_sqliteVars

-----------------------------------------------------------------------------
(* A prepared statement has one Statement, or is the one of the running call
   of Repository; it is finalized when its owner goes, assigned over, moved
   about or left by an exception, and no owner has a finalized one. *)
StatementsOwnedOnce ==
  /\ \A h \in Handles :
       stmts[h] # Free <=> \E s \in Places : stmt_[s] = h
  /\ \A s, t \in Places : stmt_[s] = stmt_[t] /\ s # t => stmt_[s] \in {Null, Absent}
  /\ call = "none" => stmt_[Local] = Absent

(* A connection that a Database has owned is closed when no Database has it and
   no statement of it is left, and not before: a Statement may outlive its
   Database.  That is not all that the class promises: the connection of a
   constructor that threw in a PRAGMA nobody owns and nobody closes, against
   ConnectionsHaveOwners. *)
ConnectionsClosed ==
  \A c \in Connections :
    /\ conns[c] = "open" <=> c \in leaked \/ \E d \in Databases : db_[d] = c
    /\ conns[c] = "zombie" => HasStatements(c, stmts)
    /\ HasStatements(c, stmts) => conns[c] # "free"
    /\ \A d, e \in Databases : d # e /\ db_[d] = c => db_[e] # c

(* "RAII SQLite database connection": a connection that is open has a Database
   that will close it.  The code does not keep it: a constructor that throws in
   a PRAGMA leaves the connection it has just opened to nobody. *)
ConnectionsHaveOwners ==
  \A c \in Connections : conns[c] = "open" => \E d \in Databases : db_[d] = c

(* An execution runs with exactly what calls of bind that returned have bound
   since the last reset that returned: not with what an earlier execution was
   given, and not without what was given before a reset that threw. *)
ExecutesWhatWasBound ==
  \A h \in Handles : stmts[h].state # "ready" => stmts[h].ran = given[h]
=============================================================================
