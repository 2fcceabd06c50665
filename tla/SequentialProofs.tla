---------------------------- MODULE SequentialProofs ----------------------------
(***************************************************************************)
(* Theorems about the components of one thread that own no resources: the  *)
(* database, the configuration of the server, the kernels over arrays, the *)
(* integrators, the world of particles, the pipeline and the texts.        *)
(***************************************************************************)
EXTENDS Database, CliConfig, Numbers, Pipeline, TextForms, WellFoundedInduction,
        SequenceTheorems, TLAPS

-----------------------------------------------------------------------------
(* Database: for every set of rows and any depth of nesting of transaction, as
   long as no callable catches an error that has rolled its transaction back. *)

(* A callable runs only in the transaction that its call began, and without a
   transaction the connection shows what is committed. *)
WorkInv ==
  /\ ~open => rows = disk
  /\ depth > 0 /\ ~open => exc \in {"rolledback", "commit"}
  /\ depth > 0 => disk = before
  /\ exc = "commit" => depth > 0

IInv ==
  /\ TypeOK
  /\ NoTransactionLeftOpen
  /\ RollsBackOnException
  /\ WorkInv

\* The inductive invariant holds initially.
LEMMA InvInit == ASSUME DatabaseAssumption, ~Swallows, Init PROVE IInv
<1>1. ~open
  BY DEF Init
<1>2. depth = 0 /\ 0 \in 0..1 /\ exc = "none" /\ outcome = "none" /\ rows = disk
  BY DEF Init
<1>3. TypeOK
  BY <1>1, <1>2 DEF Init, TypeOK, Exceptions
<1>4. NoTransactionLeftOpen /\ RollsBackOnException /\ WorkInv
  BY <1>1, <1>2 DEF NoTransactionLeftOpen, RollsBackOnException, WorkInv
<1>. QED  BY <1>3, <1>4 DEF IInv

\* Every step of a statement or of transaction preserves the invariant.
LEMMA InvStep ==
  ASSUME DatabaseAssumption, ~Swallows, IInv, [Next]_vars
  PROVE  IInv'
<1>. USE DEF DatabaseAssumption, IInv, TypeOK, Exceptions, NoTransactionLeftOpen,
             RollsBackOnException, WorkInv, Running
<1>a. (depth = 0 \/ depth = 1) /\ 0 \in 0..1
  OBVIOUS
<1>1. ASSUME NEW r \in Rows, Insert(r) \/ RemoveRow(r) PROVE IInv'
  BY <1>1 DEF Insert, RemoveRow, Write
<1>2. CASE StatementFails
  BY <1>2 DEF StatementFails
<1>3. CASE StatementRollsBack
  BY <1>3 DEF StatementRollsBack
<1>4. CASE Begin
  BY <1>4 DEF Begin
<1>5. CASE BeginFails
  BY <1>5 DEF BeginFails
<1>6. CASE CallableThrows
  BY <1>6 DEF CallableThrows
<1>7. CASE Catch
  BY <1>7 DEF Catch
<1>8. CASE Commit
  <2>1. depth' = 0 /\ open' = FALSE /\ disk' = rows /\ rows' = rows /\ exc' = "none"
    BY <1>8, <1>a DEF Commit
  <2>2. outcome' = "returned" /\ before' = before
    BY <1>8, <1>a DEF Commit, Ended
  <2>3. TypeOK'
    BY <1>a, <2>1, <2>2
  <2>4. NoTransactionLeftOpen' /\ RollsBackOnException' /\ WorkInv'
    BY <2>1, <2>2
  <2>. QED  BY <2>3, <2>4
<1>9. CASE CommitFails
  <2>1. /\ depth > 0 /\ exc' = "commit"
        /\ UNCHANGED <<disk, depth, outcome, before>>
    BY <1>9 DEF CommitFails
  <2>2. CASE UNCHANGED <<rows, open>>
    BY <2>1, <2>2
  <2>3. CASE open /\ rows' = disk /\ open' = FALSE
    BY <2>1, <2>3
  <2>. QED  BY <1>9, <2>2, <2>3 DEF CommitFails
<1>10. CASE Rollback
  <2>1. /\ depth' = 0 /\ open' = FALSE /\ disk' = disk /\ rows' = disk
        /\ before' = before /\ disk = before
    BY <1>10, <1>a DEF Rollback
  <2>2. outcome' = "threw" /\ exc' \in {"body", "rolledback"}
    BY <1>10, <1>a DEF Rollback, Ended
  <2>3. TypeOK'
    BY <1>a, <2>1, <2>2
  <2>4. NoTransactionLeftOpen' /\ RollsBackOnException' /\ WorkInv'
    BY <2>1, <2>2
  <2>. QED  BY <2>3, <2>4
<1>11. CASE UNCHANGED vars
  BY <1>11 DEF vars
<1>. QED
  BY <1>1, <1>2, <1>3, <1>4, <1>5, <1>6, <1>7, <1>8, <1>9, <1>10, <1>11
     DEF Next, StatementStep, TransactionStep

\* The inductive invariant holds in every behaviour.
THEOREM DatabaseInvariant ==
  ASSUME ~Swallows PROVE Spec => []IInv
<1>1. ASSUME Init PROVE IInv
  BY <1>1, DatabaseAssumption, InvInit
<1>2. ASSUME IInv, [Next]_vars PROVE IInv'
  BY <1>2, DatabaseAssumption, InvStep
<1>. QED  BY <1>1, <1>2, PTL DEF Spec

\* One call of transaction at a time is inside its try block, however deep a
\* program nests them.
THEOREM DatabaseTypes ==
  ASSUME ~Swallows PROVE Spec => []TypeOK
<1>1. IInv => TypeOK
  BY DEF IInv
<1>. QED  BY <1>1, DatabaseInvariant, PTL

\* transaction never ends, by return or exception, with its transaction open.
THEOREM DatabaseClosesTransactions ==
  ASSUME ~Swallows PROVE Spec => []NoTransactionLeftOpen
<1>1. IInv => NoTransactionLeftOpen
  BY DEF IInv
<1>. QED  BY <1>1, DatabaseInvariant, PTL

\* A call of transaction that throws leaves the table as it found it.
THEOREM DatabaseRollsBack ==
  ASSUME ~Swallows PROVE Spec => []RollsBackOnException
<1>1. IInv => RollsBackOnException
  BY DEF IInv
<1>. QED  BY <1>1, DatabaseInvariant, PTL

-----------------------------------------------------------------------------
(* The refinement. *)

\* The initial connection is an idle store.
LEMMA InitImplements == ASSUME Init PROVE Work!UInit
BY DEF Init, Work!UInit, Phase

\* A write of the Repository changes one row of the table.
LEMMA WriteEdits ==
  ASSUME NEW r \in Rows, Insert(r) \/ RemoveRow(r)
  PROVE  rows' \in Work!Edits(rows)
BY DEF Insert, RemoveRow, Write, Work!Edits

\* Every step is a step of the store or changes nothing that it shows.
LEMMA StepImplements ==
  ASSUME DatabaseAssumption, ~Swallows, IInv, [Next]_vars
  PROVE  [Work!UNext]_(Work!uvars)
<1>. DEFINE Goal == [Work!UNext]_(Work!uvars)
<1>. USE DEF DatabaseAssumption, IInv, TypeOK, Exceptions, NoTransactionLeftOpen,
             WorkInv, Running, Phase, Work!uvars
<1>1. ASSUME NEW r \in Rows, Insert(r) \/ RemoveRow(r) PROVE Goal
  <2>1. rows' \in Work!Edits(rows)
    BY <1>1, WriteEdits
  <2>2. CASE depth = 0
    <3>1. Work!UWrite
      BY <1>1, <2>1, <2>2 DEF Insert, RemoveRow, Write, Work!UWrite
    <3>. QED  BY <3>1 DEF Work!UNext
  <2>3. CASE depth > 0
    <3>1. Work!UEdit
      BY <1>1, <2>1, <2>3 DEF Insert, RemoveRow, Write, Work!UEdit
    <3>. QED  BY <3>1 DEF Work!UNext
  <2>. QED  BY <2>2, <2>3
<1>2. CASE StatementFails
  BY <1>2 DEF StatementFails
<1>3. CASE StatementRollsBack
  <2>1. Work!UDoom
    BY <1>3 DEF StatementRollsBack, Work!UDoom
  <2>. QED  BY <2>1 DEF Work!UNext
<1>4. CASE Begin
  <2>1. Work!UBegin
    BY <1>4 DEF Begin, Work!UBegin
  <2>. QED  BY <2>1 DEF Work!UNext
<1>5. CASE BeginFails
  BY <1>5 DEF BeginFails
<1>6. CASE CallableThrows
  BY <1>6 DEF CallableThrows
<1>7. CASE Catch
  BY <1>7 DEF Catch
<1>8. CASE Commit
  <2>1. Work!UCommit
    BY <1>8 DEF Commit, Ended, Work!UCommit
  <2>. QED  BY <2>1 DEF Work!UNext
<1>9. CASE CommitFails
  <2>1. CASE UNCHANGED <<rows, open>>
    BY <1>9, <2>1 DEF CommitFails
  <2>2. CASE open /\ rows' = disk /\ open' = FALSE
    <3>1. Work!UDoom
      BY <1>9, <2>2 DEF CommitFails, Work!UDoom
    <3>. QED  BY <3>1 DEF Work!UNext
  <2>. QED  BY <1>9, <2>1, <2>2 DEF CommitFails
<1>10. CASE Rollback
  <2>1. Work!UAbort
    BY <1>10 DEF Rollback, Ended, Work!UAbort
  <2>. QED  BY <2>1 DEF Work!UNext
<1>11. CASE UNCHANGED vars
  BY <1>11 DEF vars
<1>. QED
  BY <1>1, <1>2, <1>3, <1>4, <1>5, <1>6, <1>7, <1>8, <1>9, <1>10, <1>11
     DEF Next, StatementStep, TransactionStep

\* transaction, with whatever runs inside it and fails, is all or nothing.
THEOREM DatabaseImplementsUnitOfWork ==
  ASSUME ~Swallows PROVE Spec => ImplementsUnitOfWork
<1>1. ASSUME Init PROVE Work!UInit
  BY <1>1, InitImplements
<1>2. ASSUME IInv, [Next]_vars PROVE [Work!UNext]_(Work!uvars)
  BY <1>2, DatabaseAssumption, StepImplements
<1>. QED
  BY <1>1, <1>2, DatabaseInvariant, PTL
     DEF Spec, ImplementsUnitOfWork, Work!USpec

\* An inner call of transaction neither commits nor rolls back the outer one.
THEOREM DatabaseNesting ==
  ASSUME ~Swallows PROVE Spec => NestedCallsKeepOuter
<1>. DEFINE Keeps == depth > 0 /\ depth' = depth /\ open /\ exc' \in {"none", "body"}
                       => open' /\ disk' = disk
<1>1. ASSUME IInv, [Next]_vars PROVE [Keeps]_vars
  <2>. USE DEF IInv, TypeOK, Running
  <2>1. ASSUME NEW r \in Rows, Insert(r) \/ RemoveRow(r) PROVE Keeps
    BY <2>1 DEF Insert, RemoveRow, Write
  <2>2. CASE StatementFails \/ StatementRollsBack \/ Catch
    BY <2>2 DEF StatementFails, StatementRollsBack, Catch
  <2>3. CASE Begin \/ BeginFails \/ CallableThrows
    BY <2>3 DEF Begin, BeginFails, CallableThrows
  <2>a. depth = 0 \/ depth = 1
    BY <1>1
  <2>4. CASE Commit \/ CommitFails \/ Rollback
    BY <2>4, <2>a DEF Commit, CommitFails, Rollback
  <2>. QED
    BY <1>1, <2>1, <2>2, <2>3, <2>4 DEF Next, StatementStep, TransactionStep
<1>. QED
  BY <1>1, DatabaseInvariant, PTL DEF Spec, NestedCallsKeepOuter

-----------------------------------------------------------------------------
(* Natural numbers: the provers cannot instantiate the predicate of the
   library's induction theorem, but a set. *)

LEMMA LeastElement ==
  ASSUME NEW T \in SUBSET Nat, T # {}
  PROVE  \E m \in T : \A k \in T : m <= k
<1>. DEFINE R == {p \in Nat \X Nat : p[1] < p[2]}
<1>1. IsWellFoundedOn(R, Nat)
  BY NatLessThanWellFounded DEF OpToRel
<1>. HIDE DEF R
<1>2. \E m \in T : \A k \in T : ~ (<<k, m>> \in R)
  BY <1>1, WFMin
<1>3. ASSUME NEW m \in T, NEW k \in T, ~ (<<k, m>> \in R)
      PROVE  m <= k
  BY <1>3 DEF R
<1>. QED  BY <1>2, <1>3

-----------------------------------------------------------------------------
(* The options of the command line program. *)

CliStages == {"setup", "parse", "callback", "apply", "served", "usage", "uncaught"}

CliTypeOK ==
  /\ argv \in [Options -> Maybe] /\ env \in [Options -> Maybe] /\ lines \in Files
  /\ stage \in CliStages
  /\ opt \in [Options -> Maybe]
  /\ bound \in [Options -> Given \cup {Built}]
  /\ config \subseteq Keys

\* What env_fallback binds an option to, and what the parser finds for it.
Fallback(o) == IF o \in Manual /\ env[o] # None THEN env[o] ELSE Built

Parsed(o) ==
  IF argv[o] # None THEN argv[o]
  ELSE IF o \notin Manual /\ env[o] # Bad THEN env[o] ELSE None

\* A key of the file that has been dealt with.
Applied(o) == stage \in {"apply", "served"} /\ o \in Keys \ config

(* Stage by stage: what an option is bound to is what the sources that were
   asked so far have for it, and none of it is bad. *)
CliInv ==
  /\ CliTypeOK
  /\ stage \in {"setup", "parse"} => opt = [o \in Options |-> None]
  /\ stage = "setup" => bound = [o \in Options |-> Built]
  /\ stage \in {"setup", "parse", "callback", "served"} => config = {}
  /\ stage \in {"parse", "callback", "apply", "served"} => \A o \in Manual : env[o] # Bad
  /\ stage = "parse" => \A o \in Options : bound[o] = Fallback(o)
  /\ stage \in {"callback", "apply", "served"} =>
       \A o \in Options :
         /\ argv[o] # Bad
         /\ opt[o] = Parsed(o)
         /\ opt[o] = None /\ Applied(o) => Value(o) # Bad
         /\ bound[o] = IF opt[o] # None THEN opt[o]
                       ELSE IF Applied(o) THEN Value(o) ELSE Fallback(o)
  /\ EndsForAReason

LEMMA CliNames ==
  /\ Manual \subseteq Options /\ Unknown \notin Options
  /\ Bad \in Given /\ Bad \in Maybe /\ None \in Maybe /\ None \notin Given
  /\ Built \notin Given /\ Built # None /\ Bad # None /\ Built # Bad
BY CliAssumption DEF Maybe

LEMMA FileLines ==
  ASSUME lines \in Files
  PROVE  /\ Len(lines) \in Nat /\ DOMAIN lines = 1..Len(lines)
         /\ \A k \in DOMAIN lines : /\ lines[k].key \in Options \cup {Unknown}
                                    /\ lines[k].val \in Given
<1>1. PICK m \in 0..MaxLines : lines \in [1..m -> Line]
  BY DEF Files
<1>2. m \in Nat /\ DOMAIN lines = 1..m /\ lines \in Seq(Line)
  BY <1>1, CliAssumption
<1>3. Len(lines) = m
  BY <1>2
<1>4. \A k \in DOMAIN lines : lines[k] \in Line
  BY <1>1
<1>. QED  BY <1>2, <1>3, <1>4 DEF Line

\* A key of the file has a last line, whose value is given.
LEMMA ValueIsGiven ==
  ASSUME lines \in Files, NEW key \in Keys
  PROVE  Value(key) \in Given
<1>. DEFINE L == Len(lines)
            T == {L - k : k \in {j \in DOMAIN lines : lines[j].key = key}}
            IsLast(k) == lines[k].key = key /\ \A j \in k + 1..L : lines[j].key # key
<1>1. L \in Nat /\ DOMAIN lines = 1..L
  BY FileLines
<1>2. T \in SUBSET Nat /\ T # {}
  BY <1>1 DEF Keys
<1>3. PICK m \in T : \A k \in T : m <= k
  <2>. HIDE DEF T
  <2>. QED  BY <1>2, LeastElement
<1>4. PICK k \in DOMAIN lines : lines[k].key = key /\ m = L - k
  OBVIOUS
<1>5. IsLast(k)
  <2>. SUFFICES ASSUME NEW j \in k + 1..L, lines[j].key = key PROVE FALSE
    BY <1>4
  <2>1. j \in DOMAIN lines /\ L - j \in T
    BY <1>1
  <2>2. L - k <= L - j
    BY <1>3, <1>4, <2>1
  <2>. QED  BY <1>1, <2>2
<1>6. (CHOOSE j \in DOMAIN lines : IsLast(j)) \in DOMAIN lines
  <2>. HIDE DEF IsLast
  <2>. QED  BY <1>5
<1>7. Value(key) = lines[CHOOSE j \in DOMAIN lines : IsLast(j)].val
  BY DEF Value
<1>. HIDE DEF IsLast
<1>. QED  BY <1>6, <1>7, FileLines

\* A value that is given is valid and a value.
LEMMA InFileIs ==
  ASSUME lines \in Files, NEW o \in Options
  PROVE  /\ o \in Keys => InFile(o) = Value(o) /\ Value(o) \in Given /\ InFile(o) # None
         /\ o \notin Keys => InFile(o) = None
BY ValueIsGiven, CliNames DEF InFile

LEMMA CliInitEstablishes == CliInit => CliInv
<1>. SUFFICES ASSUME CliInit PROVE CliInv
  OBVIOUS
<1>1. CliTypeOK
  BY CliNames DEF CliInit, Fresh, CliTypeOK, CliStages
<1>2. EndsForAReason
  BY DEF CliInit, Fresh, EndsForAReason
<1>. QED  BY <1>1, <1>2 DEF CliInit, Fresh, CliInv

LEMMA EndsPreserves ==
  ASSUME CliInv, NEW how, Ends(how),
         \/ how = "usage" /\ \E o \in Options : argv[o] = Bad \/ (InFile(o) = Bad /\ opt[o] = None)
         \/ how = "uncaught" /\ \E o \in Manual : env[o] = Bad
  PROVE  CliInv'
<1>1. stage' = how /\ UNCHANGED <<argv, env, lines, opt, bound, config>>
  BY DEF Ends
<1>2. CliTypeOK'
  BY <1>1 DEF CliInv, CliTypeOK, CliStages, Files, Keys
<1>3. \A o : InFile(o)' = InFile(o)
  BY <1>1 DEF InFile, Keys, Value
<1>4. EndsForAReason'
  BY <1>1, <1>3 DEF EndsForAReason
<1>. QED  BY <1>1, <1>2, <1>4 DEF CliInv

LEMMA EnvFallbackStep ==
  ASSUME CliInv, EnvFallback
  PROVE  CliInv'
<1>1. CASE \E o \in Manual : env[o] = Bad
  BY <1>1, EndsPreserves DEF EnvFallback
<1>2. CASE ~\E o \in Manual : env[o] = Bad
  <2>1. /\ stage = "setup" /\ stage' = "parse"
        /\ bound' = [o \in Options |-> IF o \in Manual /\ env[o] # None
                                       THEN env[o] ELSE bound[o]]
        /\ UNCHANGED <<argv, env, lines, opt, config>>
    BY <1>2 DEF EnvFallback
  <2>2. CliTypeOK /\ bound = [o \in Options |-> Built] /\ config = {}
        /\ opt = [o \in Options |-> None]
    BY <2>1 DEF CliInv
  <2>3. \A o \in Options : env[o] # None => env[o] \in Given
    BY <2>2 DEF CliTypeOK, Maybe
  <2>4. bound' \in [Options -> Given \cup {Built}] /\ \A o \in Options : bound'[o] = Fallback(o)
    BY <2>1, <2>2, <2>3 DEF Fallback
  <2>5. CliTypeOK'
    BY <2>1, <2>2, <2>4 DEF CliTypeOK, CliStages, Files, Keys
  <2>6. \A o : Fallback(o)' = Fallback(o)
    BY <2>1 DEF Fallback
  <2>7. EndsForAReason'
    BY <2>1 DEF EndsForAReason
  <2>. QED  BY <1>2, <2>1, <2>2, <2>4, <2>5, <2>6, <2>7 DEF CliInv
<1>. QED  BY <1>1, <1>2

LEMMA ParseStep ==
  ASSUME CliInv, Parse
  PROVE  CliInv'
<1>1. CASE \E o \in Options : argv[o] = Bad
  BY <1>1, EndsPreserves DEF Parse
<1>2. CASE ~\E o \in Options : argv[o] = Bad
  <2>1. /\ stage = "parse" /\ stage' = "callback"
        /\ opt' = [o \in Options |-> Parsed(o)]
        /\ bound' = [o \in Options |-> IF Parsed(o) # None THEN Parsed(o) ELSE bound[o]]
        /\ UNCHANGED <<argv, env, lines, config>>
    BY <1>2 DEF Parse, Parsed
  <2>2. /\ CliTypeOK /\ config = {} /\ \A o \in Manual : env[o] # Bad
        /\ \A o \in Options : bound[o] = Fallback(o)
    BY <2>1 DEF CliInv
  <2>3. \A o \in Options : Parsed(o) \in Maybe
    BY <2>2, CliNames DEF CliTypeOK, Parsed
  <2>4. opt' \in [Options -> Maybe] /\ bound' \in [Options -> Given \cup {Built}]
    BY <2>1, <2>2, <2>3 DEF CliTypeOK, Maybe
  <2>5. CliTypeOK'
    BY <2>1, <2>2, <2>4 DEF CliTypeOK, CliStages, Files, Keys
  <2>6. \A o \in Options : /\ opt'[o] = Parsed(o)
                           /\ bound'[o] = IF opt'[o] # None THEN opt'[o] ELSE Fallback(o)
    BY <2>1, <2>2
  <2>7. \A o : Fallback(o)' = Fallback(o) /\ Parsed(o)' = Parsed(o) /\ ~Applied(o)'
    BY <2>1 DEF Fallback, Parsed, Applied
  <2>8. EndsForAReason'
    BY <2>1 DEF EndsForAReason
  <2>. QED  BY <1>2, <2>1, <2>2, <2>5, <2>6, <2>7, <2>8 DEF CliInv
<1>. QED  BY <1>1, <1>2

LEMMA ReadConfigStep ==
  ASSUME CliInv, ReadConfig
  PROVE  CliInv'
<1>1. /\ stage = "callback" /\ stage' = "apply" /\ config' = Keys
      /\ UNCHANGED <<argv, env, lines, opt, bound>>
  BY DEF ReadConfig
<1>2. CliTypeOK'
  BY <1>1 DEF CliInv, CliTypeOK, CliStages, Files, Keys
<1>3. \A o : /\ Fallback(o)' = Fallback(o) /\ Parsed(o)' = Parsed(o)
             /\ ~Applied(o)' /\ ~Applied(o)
  BY <1>1 DEF Fallback, Parsed, Applied, Keys
<1>4. EndsForAReason'
  BY <1>1 DEF EndsForAReason
<1>. QED  BY <1>1, <1>2, <1>3, <1>4 DEF CliInv

LEMMA ServeStep ==
  ASSUME CliInv, Serve
  PROVE  CliInv'
<1>1. /\ stage = "apply" /\ stage' = "served" /\ config = {}
      /\ UNCHANGED <<argv, env, lines, opt, bound, config>>
  BY DEF Serve, Ends
<1>2. CliTypeOK'
  BY <1>1 DEF CliInv, CliTypeOK, CliStages, Files, Keys
<1>3. \A o : /\ Fallback(o)' = Fallback(o) /\ Parsed(o)' = Parsed(o)
             /\ (Applied(o)' <=> Applied(o)) /\ Value(o)' = Value(o)
  BY <1>1 DEF Fallback, Parsed, Applied, Keys, Value
<1>4. EndsForAReason'
  BY <1>1 DEF EndsForAReason
<1>. QED  BY <1>1, <1>2, <1>3, <1>4 DEF CliInv

LEMMA ApplyStep ==
  ASSUME CliInv, NEW key \in Options \cup {Unknown}, Apply(key)
  PROVE  CliInv'
<1>1. /\ stage = "apply" /\ key \in config /\ config \subseteq Keys /\ CliTypeOK
      /\ key \in Keys /\ lines \in Files
  BY DEF Apply, CliInv, CliTypeOK
<1>2. CASE key # Unknown /\ opt[key] = None /\ Value(key) = Bad
  <2>1. key \in Options /\ InFile(key) = Bad
    BY <1>1, <1>2 DEF InFile
  <2>. QED  BY <1>2, <2>1, EndsPreserves DEF Apply
<1>3. CASE ~(key # Unknown /\ opt[key] = None /\ Value(key) = Bad)
  <2>1. /\ config' = config \ {key} /\ UNCHANGED <<argv, env, lines, stage, opt>>
        /\ IF key = Unknown \/ opt[key] # None THEN bound' = bound
           ELSE Value(key) # Bad /\ bound' = [bound EXCEPT ![key] = Value(key)]
    BY <1>3 DEF Apply
  <2>2. \A o : /\ Fallback(o)' = Fallback(o) /\ Parsed(o)' = Parsed(o)
               /\ Value(o)' = Value(o) /\ InFile(o)' = InFile(o)
    BY <2>1 DEF Fallback, Parsed, Value, InFile, Keys
  <2>3. \A o : Applied(o)' <=> Applied(o) \/ o = key
    BY <1>1, <2>1 DEF Applied, Keys
  <2>4. ~Applied(key)
    BY <1>1 DEF Applied
  <2>5. Value(key) \in Given
    BY <1>1, ValueIsGiven
  <2>6. /\ bound' \in [Options -> Given \cup {Built}]
        /\ \A o \in Options : bound'[o] = IF o = key /\ opt[key] = None THEN Value(key) ELSE bound[o]
    <3>1. bound \in [Options -> Given \cup {Built}]
      BY <1>1 DEF CliTypeOK
    <3>. QED  BY <1>1, <2>1, <2>5, <3>1, CliNames
  <2>7. CliTypeOK'
    <3>1. Keys' = Keys /\ config' \subseteq Keys
      BY <1>1, <2>1 DEF Keys
    <3>. QED  BY <1>1, <2>1, <2>6, <3>1 DEF CliTypeOK, Files
  <2>8. EndsForAReason'
    BY <1>1, <2>1 DEF EndsForAReason
  <2>9. ASSUME NEW o \in Options
        PROVE  /\ argv'[o] # Bad
               /\ opt'[o] = Parsed(o)'
               /\ opt'[o] = None /\ Applied(o)' => Value(o)' # Bad
               /\ bound'[o] = IF opt'[o] # None THEN opt'[o]
                              ELSE IF Applied(o)' THEN Value(o)' ELSE Fallback(o)'
    <3>1. /\ argv[o] # Bad /\ opt[o] = Parsed(o)
          /\ opt[o] = None /\ Applied(o) => Value(o) # Bad
          /\ bound[o] = IF opt[o] # None THEN opt[o]
                        ELSE IF Applied(o) THEN Value(o) ELSE Fallback(o)
      BY <1>1 DEF CliInv
    <3>2. CASE o = key
      BY <2>1, <2>2, <2>3, <2>4, <2>6, <3>1, <3>2, CliNames
    <3>3. CASE o # key
      BY <2>1, <2>2, <2>3, <2>6, <3>1, <3>3
    <3>. QED  BY <3>2, <3>3
  <2>10. \A o \in Manual : env'[o] # Bad
    BY <1>1, <2>1 DEF CliInv
  <2>11. stage' = "apply"
    BY <1>1, <2>1
  <2>. QED  BY <2>7, <2>8, <2>9, <2>10, <2>11 DEF CliInv
<1>. QED  BY <1>2, <1>3

LEMMA RunAgainStep ==
  ASSUME CliInv, NEW o \in Options, NEW v \in Maybe, NEW w \in Maybe, RunAgain(o, v, w)
  PROVE  CliInv'
<1>1. /\ argv' = [argv EXCEPT ![o] = v] /\ env' = [env EXCEPT ![o] = w] /\ lines' = lines
      /\ stage' = "setup" /\ config' = {}
      /\ opt' = [p \in Options |-> None] /\ bound' = [p \in Options |-> Built]
  BY DEF RunAgain
<1>2. CliTypeOK'
  BY <1>1, CliNames DEF CliInv, CliTypeOK, CliStages, Files, Keys
<1>3. EndsForAReason'
  BY <1>1 DEF EndsForAReason
<1>. QED  BY <1>1, <1>2, <1>3 DEF CliInv

LEMMA CliNextPreserves == CliInv /\ [CliNext]_cliVars => CliInv'
<1>. SUFFICES ASSUME CliInv, [CliNext]_cliVars PROVE CliInv'
  OBVIOUS
<1>1. CASE UNCHANGED cliVars
  <2>1. UNCHANGED <<argv, env, lines, stage, opt, bound, config>>
    BY <1>1 DEF cliVars
  <2>2. CliTypeOK'
    BY <2>1 DEF CliInv, CliTypeOK, Files, Keys
  <2>3. \A o : /\ Fallback(o)' = Fallback(o) /\ Parsed(o)' = Parsed(o)
               /\ Value(o)' = Value(o) /\ InFile(o)' = InFile(o)
               /\ (Applied(o)' <=> Applied(o))
    BY <2>1 DEF Fallback, Parsed, Value, InFile, Keys, Applied
  <2>4. EndsForAReason'
    BY <2>1, <2>3 DEF CliInv, EndsForAReason
  <2>. QED  BY <2>1, <2>2, <2>3, <2>4 DEF CliInv
<1>. QED  BY <1>1, EnvFallbackStep, ParseStep, ReadConfigStep, ServeStep, ApplyStep,
             RunAgainStep DEF CliNext

\* The first of four values, of which the last is one.
LEMMA FirstOfFour ==
  ASSUME NEW v, NEW w, NEW x, NEW y, y # None
  PROVE  FirstOf(<<v, w, x, y>>) =
           IF v # None THEN v ELSE IF w # None THEN w ELSE IF x # None THEN x ELSE y
<1>. DEFINE vs == <<v, w, x, y>>
            First(k) == vs[k] # None /\ \A j \in 1..k - 1 : vs[j] = None
            c == CHOOSE k \in DOMAIN vs : First(k)
<1>1. DOMAIN vs = 1..4 /\ vs[1] = v /\ vs[2] = w /\ vs[3] = x /\ vs[4] = y
  OBVIOUS
<1>2. \E k \in 1..4 : First(k)
  <2>1. v # None => First(1)
    BY <1>1
  <2>2. v = None /\ w # None => First(2)
    BY <1>1
  <2>3. v = None /\ w = None /\ x # None => First(3)
    BY <1>1
  <2>4. v = None /\ w = None /\ x = None => First(4)
    BY <1>1
  <2>. HIDE DEF First
  <2>. QED  BY <2>1, <2>2, <2>3, <2>4
<1>3. c \in 1..4 /\ First(c)
  <2>. HIDE DEF First, vs
  <2>. QED  BY <1>1, <1>2
<1>4. FirstOf(vs) = vs[c]
  BY DEF FirstOf
<1>. HIDE DEF c, vs
<1>5. \A k \in 1..4 : First(k) => c = k
  BY <1>3
<1>6. v # None => vs[c] = v
  BY <1>1, <1>3
<1>7. v = None /\ w # None => vs[c] = w
  BY <1>1, <1>3
<1>8. v = None /\ w = None /\ x # None => vs[c] = x
  BY <1>1, <1>3
<1>9. v = None /\ w = None /\ x = None => vs[c] = y
  BY <1>1, <1>3
<1>. QED  BY <1>4, <1>6, <1>7, <1>8, <1>9 DEF vs

\* "CLI flags > env vars > config file > hardcoded defaults": for any options,
\* values and file, the command runs with the value of the highest source that
\* has one, and ends without serving only for a value that it would have used.
THEOREM CliServes == CliSpec => []ServesAsConfigured
<1>1. CliInv => Precedence
  <2>. SUFFICES ASSUME CliInv, stage = "served", NEW o \in Options
                PROVE  /\ bound[o] # Bad
                       /\ bound[o] = IF o \in Manual
                                     THEN FirstOf(<<argv[o], InFile(o), env[o], Built>>)
                                     ELSE FirstOf(<<argv[o], Valid(env[o]), InFile(o), Built>>)
    BY DEF Precedence
  <2>1. /\ config = {} /\ lines \in Files /\ argv[o] # Bad /\ opt[o] = Parsed(o)
        /\ (o \in Manual => env[o] # Bad)
        /\ (Applied(o) <=> o \in Keys)
        /\ (opt[o] = None /\ o \in Keys => Value(o) # Bad)
        /\ bound[o] = IF opt[o] # None THEN opt[o]
                      ELSE IF o \in Keys THEN Value(o) ELSE Fallback(o)
    BY DEF CliInv, CliTypeOK, Applied
  <2>2. Built # None /\ Built # Bad /\ Bad # None
    BY CliNames
  <2>3. /\ o \in Keys => InFile(o) = Value(o) /\ InFile(o) # None
        /\ o \notin Keys => InFile(o) = None
    BY <2>1, InFileIs
  <2>4. CASE o \in Manual
    <3>1. bound[o] = IF argv[o] # None THEN argv[o] ELSE IF InFile(o) # None THEN InFile(o)
                     ELSE IF env[o] # None THEN env[o] ELSE Built
      BY <2>1, <2>3, <2>4 DEF Parsed, Fallback
    <3>2. bound[o] # Bad
      BY <2>1, <2>2, <2>3, <2>4, <3>1 DEF Parsed
    <3>. QED  BY <2>2, <2>4, <3>1, <3>2, FirstOfFour
  <2>5. CASE o \notin Manual
    <3>1. bound[o] = IF argv[o] # None THEN argv[o] ELSE IF Valid(env[o]) # None THEN Valid(env[o])
                     ELSE IF InFile(o) # None THEN InFile(o) ELSE Built
      BY <2>1, <2>2, <2>3, <2>5 DEF Parsed, Fallback, Valid
    <3>2. bound[o] # Bad
      BY <2>1, <2>2, <2>3, <2>5 DEF Parsed, Fallback
    <3>. QED  BY <2>2, <2>5, <3>1, <3>2, FirstOfFour
  <2>. QED  BY <2>4, <2>5
<1>2. CliInv => ServesAsConfigured
  BY <1>1 DEF CliInv, ServesAsConfigured
<1>. QED  BY <1>2, CliInitEstablishes, CliNextPreserves, PTL DEF CliSpec

-----------------------------------------------------------------------------
LEMMA InductionOnSet ==
  ASSUME NEW S, 0 \in S, \A k \in Nat : k \in S => k + 1 \in S
  PROVE  Nat \subseteq S
<1>. SUFFICES ASSUME Nat \ S # {} PROVE FALSE
  OBVIOUS
<1>1. PICK m \in Nat \ S : \A k \in Nat \ S : m <= k
  BY LeastElement
<1>2. m # 0 /\ m - 1 \in Nat /\ m - 1 \notin Nat \ S
  BY <1>1
<1>. QED  BY <1>1, <1>2

-----------------------------------------------------------------------------
(* Recursive functions on 0..m, whose steps are given as a function G. *)

Recurs(g, G, m) == \A k \in 1..m : g[k] = G[<<k, g[k - 1]>>]

LEMMA RecursionExists ==
  ASSUME NEW X, NEW x0 \in X, NEW N \in Nat, NEW G \in [(1..N) \X X -> X]
  PROVE  \E g \in [0..N -> X] : g[0] = x0 /\ Recurs(g, G, N)
<1>. DEFINE S == {m \in Nat : m <= N =>
                    \E g \in [0..m -> X] : g[0] = x0 /\ Recurs(g, G, m)}
<1>1. 0 \in S
  <2>1. [k \in 0..0 |-> x0] \in [0..0 -> X] /\ [k \in 0..0 |-> x0][0] = x0
    OBVIOUS
  <2>2. Recurs([k \in 0..0 |-> x0], G, 0)
    BY DEF Recurs
  <2>. QED  BY <2>1, <2>2
<1>2. ASSUME NEW m \in Nat, m \in S
      PROVE  m + 1 \in S
  <2>. SUFFICES ASSUME m + 1 <= N
                PROVE  \E g \in [0..(m + 1) -> X] : g[0] = x0 /\ Recurs(g, G, m + 1)
    OBVIOUS
  <2>1. PICK g \in [0..m -> X] : g[0] = x0 /\ Recurs(g, G, m)
    BY <1>2
  <2>2. m + 1 \in 1..N /\ g[m] \in X
    BY <2>1
  <2>3. G[<<m + 1, g[m]>>] \in X
    BY <2>2
  <2>. DEFINE h == [k \in 0..(m + 1) |-> IF k = m + 1 THEN G[<<m + 1, g[m]>>] ELSE g[k]]
  <2>4. h \in [0..(m + 1) -> X] /\ h[0] = x0
    BY <2>1, <2>3
  <2>5. ASSUME NEW k \in 1..(m + 1)
        PROVE  h[k] = G[<<k, h[k - 1]>>]
    <3>1. h[k - 1] = g[k - 1] /\ k - 1 \in 0..m
      OBVIOUS
    <3>2. CASE k = m + 1
      <4>1. k - 1 = m /\ h[k] = G[<<m + 1, g[m]>>]
        BY <3>2
      <4>. QED  BY <4>1, <3>1, <3>2
    <3>3. CASE k # m + 1
      <4>1. k \in 1..m /\ h[k] = g[k]
        BY <3>3
      <4>. QED  BY <4>1, <3>1, <2>1 DEF Recurs
    <3>. QED  BY <3>2, <3>3
  <2>. HIDE DEF h
  <2>. QED  BY <2>4, <2>5 DEF Recurs
<1>. HIDE DEF S
<1>3. Nat \subseteq S
  BY <1>1, <1>2, InductionOnSet
<1>. QED  BY <1>3 DEF S

-----------------------------------------------------------------------------
(* Sums. *)

IsSum(s, v, m) == s = [k \in 0..m |-> IF k = 0 THEN 0 ELSE s[k - 1] + v[k - 1]]

Sums(v, m) == CHOOSE s : IsSum(s, v, m)

LEMMA SumExists ==
  ASSUME NEW v, NEW m \in Nat, \A k \in 0..(m - 1) : v[k] \in Int
  PROVE  \E s : IsSum(s, v, m)
<1>. DEFINE G == [q \in (1..m) \X Int |-> q[2] + v[q[1] - 1]]
<1>1. G \in [(1..m) \X Int -> Int]
  <2>1. \A q \in (1..m) \X Int : q[1] - 1 \in 0..(m - 1) /\ q[2] \in Int
    OBVIOUS
  <2>. QED  BY <2>1
<1>2. ASSUME NEW k \in 1..m, NEW x \in Int
      PROVE  G[<<k, x>>] = x + v[k - 1]
  <2>1. <<k, x>> \in (1..m) \X Int
    OBVIOUS
  <2>. QED  BY <2>1
<1>. HIDE DEF G
<1>3. PICK g \in [0..m -> Int] : g[0] = 0 /\ Recurs(g, G, m)
  <2>1. 0 \in Int
    OBVIOUS
  <2>. QED  BY <1>1, <2>1, RecursionExists, Zenon
<1>4. g = [k \in 0..m |-> g[k]]
  BY <1>3
<1>5. ASSUME NEW k \in 0..m
      PROVE  g[k] = IF k = 0 THEN 0 ELSE g[k - 1] + v[k - 1]
  <2>1. CASE k = 0
    BY <2>1, <1>3
  <2>2. CASE k # 0
    <3>1. k \in 1..m /\ g[k - 1] \in Int
      BY <2>2, <1>3
    <3>2. g[k] = G[<<k, g[k - 1]>>]
      BY <3>1, <1>3 DEF Recurs
    <3>. QED  BY <3>1, <3>2, <1>2, <2>2
  <2>. QED  BY <2>1, <2>2
<1>. QED  BY <1>4, <1>5 DEF IsSum

LEMMA SumsAre ==
  ASSUME NEW v, NEW m \in Nat, \A k \in 0..(m - 1) : v[k] \in Int
  PROVE  /\ Sums(v, m)[0] = 0
         /\ \A k \in 1..m : Sums(v, m)[k] = Sums(v, m)[k - 1] + v[k - 1]
         /\ \A k \in 0..m : Sums(v, m)[k] \in Int
<1>1. IsSum(Sums(v, m), v, m)
  BY SumExists, Zenon DEF Sums
<1>. DEFINE g == Sums(v, m)
<1>. HIDE DEF g
<1>2. g[0] = 0 /\ \A k \in 1..m : g[k] = g[k - 1] + v[k - 1]
  BY <1>1 DEF IsSum, g
<1>. DEFINE S == {k \in Nat : k <= m => g[k] \in Int}
<1>3. 0 \in S
  BY <1>2
<1>4. ASSUME NEW k \in Nat, k \in S PROVE k + 1 \in S
  <2>1. k + 1 <= m => k + 1 \in 1..m /\ k \in 0..(m - 1) /\ (k + 1) - 1 = k /\ g[k] \in Int
    BY <1>4
  <2>. QED  BY <2>1, <1>2
<1>. HIDE DEF S
<1>5. Nat \subseteq S
  BY <1>3, <1>4, InductionOnSet
<1>6. \A k \in 0..m : g[k] \in Int
  BY <1>5 DEF S
<1>. QED  BY <1>2, <1>6 DEF g

LEMMA SumIs ==
  ASSUME NEW v, NEW m
  PROVE  SumBelow(v, m) = Sums(v, m)[m]
BY DEF SumBelow, Sums, IsSum

LEMMA SumsAgree ==
  ASSUME NEW v, NEW w, NEW m \in Nat, NEW N \in Nat, m <= N,
         \A k \in 0..(N - 1) : v[k] \in Int,
         \A k \in 0..(m - 1) : w[k] = v[k]
  PROVE  \A k \in 0..m : Sums(v, N)[k] = Sums(w, m)[k]
<1>. DEFINE g == Sums(v, N)
            h == Sums(w, m)
<1>1. /\ g[0] = 0 /\ \A k \in 1..N : g[k] = g[k - 1] + v[k - 1]
      /\ h[0] = 0 /\ \A k \in 1..m : h[k] = h[k - 1] + w[k - 1]
  <2>1. \A k \in 0..(m - 1) : w[k] \in Int
    OBVIOUS
  <2>. QED  BY <2>1, SumsAre
<1>. HIDE DEF g, h
<1>. DEFINE S == {k \in Nat : k <= m => g[k] = h[k]}
<1>2. 0 \in S
  BY <1>1
<1>3. ASSUME NEW k \in Nat, k \in S PROVE k + 1 \in S
  <2>1. k + 1 <= m => k + 1 \in 1..m /\ k + 1 \in 1..N /\ k \in 0..(m - 1) /\ (k + 1) - 1 = k
    OBVIOUS
  <2>. QED  BY <2>1, <1>1, <1>3
<1>. HIDE DEF S
<1>4. Nat \subseteq S
  BY <1>2, <1>3, InductionOnSet
<1>. QED  BY <1>4 DEF S, g, h

LEMMA SumStep ==
  ASSUME NEW v, NEW m \in Nat, \A k \in 0..m : v[k] \in Int
  PROVE  /\ SumBelow(v, 0) = 0
         /\ SumBelow(v, m) \in Int
         /\ SumBelow(v, m + 1) = SumBelow(v, m) + v[m]
<1>1. SumBelow(v, 0) = 0
  BY SumIs, SumsAre
<1>2. SumBelow(v, m) = Sums(v, m)[m] /\ SumBelow(v, m + 1) = Sums(v, m + 1)[m + 1]
  BY SumIs, Zenon
<1>3. Sums(v, m)[m] \in Int
  BY SumsAre
<1>4. Sums(v, m + 1)[m] = Sums(v, m)[m]
  <2>1. m + 1 \in Nat /\ m <= m + 1 /\ m \in 0..m /\ (m + 1) - 1 = m
    OBVIOUS
  <2>2. \A k \in 0..m : Sums(v, m + 1)[k] = Sums(v, m)[k]
    BY <2>1, SumsAgree
  <2>. QED  BY <2>1, <2>2
<1>5. Sums(v, m + 1)[m + 1] = Sums(v, m + 1)[m] + v[m]
  <2>1. m + 1 \in Nat /\ m + 1 \in 1..(m + 1) /\ (m + 1) - 1 = m
    OBVIOUS
  <2>. QED  BY <2>1, SumsAre
<1>. QED  BY <1>1, <1>2, <1>3, <1>4, <1>5

LEMMA SumStepZero == \A v : SumBelow(v, 0) = 0
<1>. SUFFICES ASSUME NEW v PROVE SumBelow(v, 0) = 0
  OBVIOUS
<1>1. \A k \in 0..(0 - 1) : v[k] \in Int
  OBVIOUS
<1>. QED  BY <1>1, SumIs, SumsAre

LEMMA SumInt ==
  ASSUME NEW m \in Nat, NEW v, \A k \in 0..(m - 1) : v[k] \in Int
  PROVE  SumBelow(v, m) \in Int
BY SumIs, SumsAre

\* What a sum depends on.
LEMMA SumSame ==
  ASSUME NEW m \in Nat, NEW v, NEW w, \A k \in 0..(m - 1) : v[k] \in Int /\ w[k] = v[k]
  PROVE  SumBelow(w, m) = SumBelow(v, m)
<1>1. m \in 0..m /\ m <= m
  OBVIOUS
<1>2. \A k \in 0..m : Sums(v, m)[k] = Sums(w, m)[k]
  BY SumsAgree
<1>. QED  BY <1>1, <1>2, SumIs, Zenon

\* The sum of the sums is the sum.
LEMMA SumAdds ==
  ASSUME NEW m \in Nat, NEW u, NEW v, NEW w,
         \A k \in 0..(m - 1) : u[k] \in Int /\ v[k] \in Int /\ w[k] = u[k] + v[k]
  PROVE  SumBelow(w, m) = SumBelow(u, m) + SumBelow(v, m)
<1>. DEFINE S == {k \in Nat : k <= m => SumBelow(w, k) = SumBelow(u, k) + SumBelow(v, k)}
<1>1. 0 \in S
  BY SumStepZero
<1>2. ASSUME NEW k \in Nat, k \in S PROVE k + 1 \in S
  <2>. SUFFICES ASSUME k + 1 <= m
                PROVE  SumBelow(w, k + 1) = SumBelow(u, k + 1) + SumBelow(v, k + 1)
    OBVIOUS
  <2>1. \A j \in 0..k : u[j] \in Int /\ v[j] \in Int /\ w[j] \in Int /\ w[j] = u[j] + v[j]
    OBVIOUS
  <2>2. /\ SumBelow(u, k + 1) = SumBelow(u, k) + u[k] /\ SumBelow(u, k) \in Int
        /\ SumBelow(v, k + 1) = SumBelow(v, k) + v[k] /\ SumBelow(v, k) \in Int
        /\ SumBelow(w, k + 1) = SumBelow(w, k) + w[k] /\ SumBelow(w, k) \in Int
    BY <2>1, SumStep
  <2>3. u[k] \in Int /\ v[k] \in Int /\ w[k] = u[k] + v[k]
    BY <2>1
  <2>. QED  BY <2>2, <2>3, <1>2
<1>. HIDE DEF S
<1>3. Nat \subseteq S
  BY <1>1, <1>2, InductionOnSet
<1>. QED  BY <1>3 DEF S

\* A sum splits at any element.
LEMMA SumSplits ==
  ASSUME NEW j \in Nat, NEW m \in Nat, NEW v, NEW w,
         \A k \in 0..(j + m - 1) : v[k] \in Int,
         \A k \in 0..(m - 1) : w[k] = v[j + k]
  PROVE  SumBelow(v, j + m) = SumBelow(v, j) + SumBelow(w, m)
<1>. DEFINE S == {k \in Nat : k <= m => SumBelow(v, j + k) = SumBelow(v, j) + SumBelow(w, k)}
<1>1. 0 \in S
  <2>1. j + 0 = j /\ SumBelow(w, 0) = 0
    BY SumStepZero
  <2>2. SumBelow(v, j) \in Int
    BY SumInt
  <2>. QED  BY <2>1, <2>2
<1>2. ASSUME NEW k \in Nat, k \in S PROVE k + 1 \in S
  <2>. SUFFICES ASSUME k + 1 <= m
                PROVE  SumBelow(v, j + (k + 1)) = SumBelow(v, j) + SumBelow(w, k + 1)
    OBVIOUS
  <2>1. /\ \A i_ \in 0..k : w[i_] = v[j + i_] /\ w[i_] \in Int
        /\ \A i_ \in 0..(j + k) : v[i_] \in Int
    OBVIOUS
  <2>2. /\ SumBelow(w, k + 1) = SumBelow(w, k) + w[k] /\ SumBelow(w, k) \in Int
    BY <2>1, SumStep
  <2>3. j + k \in Nat /\ (j + k) + 1 = j + (k + 1)
    OBVIOUS
  <2>4. SumBelow(v, (j + k) + 1) = SumBelow(v, j + k) + v[j + k]
    BY <2>1, <2>3, SumStep
  <2>5. w[k] = v[j + k] /\ w[k] \in Int
    BY <2>1
  <2>6. SumBelow(v, j) \in Int
    BY SumInt
  <2>7. SumBelow(v, j + k) = SumBelow(v, j) + SumBelow(w, k)
    BY <1>2
  <2>. HIDE DEF S
  <2>. QED  BY <2>2, <2>3, <2>4, <2>5, <2>6, <2>7
<1>. HIDE DEF S
<1>3. Nat \subseteq S
  BY <1>1, <1>2, InductionOnSet
<1>. QED  BY <1>3 DEF S

\* w differs from v in the element j, by d.
ChangedBy(w, v, m, j, d) ==
  \A k \in 0..(m - 1) : v[k] \in Int /\ w[k] = IF k = j THEN v[k] + d ELSE v[k]

\* A sum changes by as much as one of its elements.
LEMMA SumChanges ==
  ASSUME NEW m \in Nat, NEW j \in 0..(m - 1), NEW v, NEW w, NEW d \in Int,
         ChangedBy(w, v, m, j, d)
  PROVE  SumBelow(w, m) = SumBelow(v, m) + d
<1>. USE DEF ChangedBy
<1>. DEFINE S == {k \in Nat : k <= m =>
                    SumBelow(w, k) = SumBelow(v, k) + (IF j < k THEN d ELSE 0)}
<1>1. 0 \in S
  BY SumStepZero
<1>2. ASSUME NEW k \in Nat, k \in S PROVE k + 1 \in S
  <2>. SUFFICES ASSUME k + 1 <= m
                PROVE  SumBelow(w, k + 1) = SumBelow(v, k + 1) + (IF j < k + 1 THEN d ELSE 0)
    OBVIOUS
  <2>1. \A i_ \in 0..k : v[i_] \in Int /\ w[i_] \in Int
                         /\ w[i_] = IF i_ = j THEN v[i_] + d ELSE v[i_]
    OBVIOUS
  <2>2. /\ SumBelow(v, k + 1) = SumBelow(v, k) + v[k] /\ SumBelow(v, k) \in Int
        /\ SumBelow(w, k + 1) = SumBelow(w, k) + w[k] /\ SumBelow(w, k) \in Int
    BY <2>1, SumStep
  <2>3. v[k] \in Int /\ w[k] = IF k = j THEN v[k] + d ELSE v[k]
    BY <2>1
  <2>4. SumBelow(w, k) = SumBelow(v, k) + (IF j < k THEN d ELSE 0)
    BY <1>2
  <2>. HIDE DEF S
  <2>. QED  BY <2>2, <2>3, <2>4
<1>. HIDE DEF S
<1>3. Nat \subseteq S
  BY <1>1, <1>2, InductionOnSet
<1>4. m \in S /\ j < m
  BY <1>3
<1>. QED  BY <1>4 DEF S

\* A sum of equal elements is a product.
LEMMA SumConstant ==
  ASSUME NEW m \in Nat, NEW v, NEW d \in Int, \A k \in 0..(m - 1) : v[k] = d
  PROVE  SumBelow(v, m) = d * m
<1>. DEFINE S == {k \in Nat : k <= m => SumBelow(v, k) = d * k}
<1>1. 0 \in S
  BY SumStepZero
<1>2. ASSUME NEW k \in Nat, k \in S PROVE k + 1 \in S
  <2>. SUFFICES ASSUME k + 1 <= m PROVE SumBelow(v, k + 1) = d * (k + 1)
    OBVIOUS
  <2>1. \A i_ \in 0..k : v[i_] \in Int
    OBVIOUS
  <2>2. SumBelow(v, k + 1) = SumBelow(v, k) + v[k] /\ v[k] = d
    BY <2>1, SumStep
  <2>3. SumBelow(v, k) = d * k
    BY <1>2
  <2>. HIDE DEF S
  <2>. QED  BY <2>2, <2>3
<1>. HIDE DEF S
<1>3. Nat \subseteq S
  BY <1>1, <1>2, InductionOnSet
<1>. QED  BY <1>3 DEF S

-----------------------------------------------------------------------------
(* Powers. *)

IsPowers(y, x, p) == y = [k \in 0..p |-> IF k = 0 THEN 1 ELSE x * y[k - 1]]

PowersOf(x, p) == CHOOSE y : IsPowers(y, x, p)

LEMMA PowersExist ==
  ASSUME NEW x \in Int, NEW p \in Nat
  PROVE  \E y : IsPowers(y, x, p)
<1>. DEFINE G == [q \in (1..p) \X Int |-> x * q[2]]
<1>1. G \in [(1..p) \X Int -> Int]
  <2>1. \A q \in (1..p) \X Int : q[2] \in Int
    OBVIOUS
  <2>. QED  BY <2>1
<1>2. ASSUME NEW k \in 1..p, NEW z \in Int
      PROVE  G[<<k, z>>] = x * z
  <2>1. <<k, z>> \in (1..p) \X Int
    OBVIOUS
  <2>. QED  BY <2>1
<1>. HIDE DEF G
<1>3. PICK g \in [0..p -> Int] : g[0] = 1 /\ Recurs(g, G, p)
  <2>1. 1 \in Int
    OBVIOUS
  <2>. QED  BY <1>1, <2>1, RecursionExists, Zenon
<1>4. g = [k \in 0..p |-> g[k]]
  BY <1>3
<1>5. ASSUME NEW k \in 0..p
      PROVE  g[k] = IF k = 0 THEN 1 ELSE x * g[k - 1]
  <2>1. CASE k = 0
    BY <2>1, <1>3
  <2>2. CASE k # 0
    <3>1. k \in 1..p /\ g[k - 1] \in Int
      BY <2>2, <1>3
    <3>2. g[k] = G[<<k, g[k - 1]>>]
      BY <3>1, <1>3 DEF Recurs
    <3>. QED  BY <3>1, <3>2, <1>2, <2>2
  <2>. QED  BY <2>1, <2>2
<1>. QED  BY <1>4, <1>5 DEF IsPowers

LEMMA PowersAre ==
  ASSUME NEW x \in Int, NEW p \in Nat
  PROVE  /\ PowersOf(x, p)[0] = 1
         /\ \A k \in 1..p : PowersOf(x, p)[k] = x * PowersOf(x, p)[k - 1]
         /\ Power(x, p) = PowersOf(x, p)[p]
<1>1. IsPowers(PowersOf(x, p), x, p)
  BY PowersExist, Zenon DEF PowersOf
<1>. DEFINE g == PowersOf(x, p)
<1>2. Power(x, p) = g[p]
  BY DEF Power, PowersOf, IsPowers
<1>. HIDE DEF g
<1>3. g[0] = 1 /\ \A k \in 1..p : g[k] = x * g[k - 1]
  BY <1>1 DEF IsPowers, g
<1>. QED  BY <1>2, <1>3 DEF g

LEMMA PowerStep ==
  ASSUME NEW x \in Int, NEW p \in Nat
  PROVE  /\ Power(x, 0) = 1
         /\ Power(x, p) \in Int
         /\ Power(x, p + 1) = x * Power(x, p)
<1>. DEFINE g == PowersOf(x, p + 1)
            h == PowersOf(x, p)
<1>1. /\ g[0] = 1 /\ \A k \in 1..(p + 1) : g[k] = x * g[k - 1]
      /\ h[0] = 1 /\ \A k \in 1..p : h[k] = x * h[k - 1]
      /\ Power(x, p) = h[p] /\ Power(x, p + 1) = g[p + 1]
  BY PowersAre
<1>2. Power(x, 0) = 1
  BY PowersAre
<1>. HIDE DEF g, h
<1>. DEFINE S == {k \in Nat : k <= p => g[k] = h[k] /\ h[k] \in Int}
<1>3. 0 \in S
  BY <1>1
<1>4. ASSUME NEW k \in Nat, k \in S PROVE k + 1 \in S
  <2>1. k + 1 <= p => k + 1 \in 1..p /\ k + 1 \in 1..(p + 1) /\ (k + 1) - 1 = k
    OBVIOUS
  <2>2. k + 1 <= p => g[k + 1] = x * g[k] /\ h[k + 1] = x * h[k] /\ g[k] = h[k] /\ h[k] \in Int
    BY <2>1, <1>1, <1>4
  <2>. QED  BY <2>2
<1>. HIDE DEF S
<1>5. Nat \subseteq S
  BY <1>3, <1>4, InductionOnSet
<1>6. g[p] = h[p] /\ h[p] \in Int
  BY <1>5 DEF S
<1>7. g[p + 1] = x * g[p]
  <2>1. p + 1 \in 1..(p + 1) /\ (p + 1) - 1 = p
    OBVIOUS
  <2>. QED  BY <2>1, <1>1
<1>. QED  BY <1>1, <1>2, <1>6, <1>7

LEMMA SmallPowers ==
  ASSUME NEW x \in Int
  PROVE  /\ Power(x, 1) = x /\ Power(x, 2) = x * x
         /\ Power(x, 3) = x * (x * x) /\ Power(x, 4) = x * (x * (x * x))
<1>1. Power(x, 0) = 1 /\ Power(x, 0 + 1) = x * Power(x, 0)
  BY PowerStep
<1>2. Power(x, 1 + 1) = x * Power(x, 1)
  BY PowerStep
<1>3. Power(x, 2 + 1) = x * Power(x, 2)
  BY PowerStep
<1>4. Power(x, 3 + 1) = x * Power(x, 3)
  BY PowerStep
<1>. QED  BY <1>1, <1>2, <1>3, <1>4

-----------------------------------------------------------------------------
(* The integrators. *)

\* Simpson's rule over two intervals is exact for polynomials of degree 3.
LEMMA SimpsonExact ==
  ASSUME NEW x \in Int, NEW w \in Int, NEW p \in 1..3
  PROVE  (p + 1) * w * (Power(x, p) + 4 * Power(x + w, p) + Power(x + 2 * w, p))
           = 3 * (Power(x + 2 * w, p + 1) - Power(x, p + 1))
<1>. DEFINE y == x + w
            z == x + 2 * w
<1>1. y \in Int /\ z \in Int
  OBVIOUS
<1>. HIDE DEF y, z
<1>2. /\ Power(x, 1) = x /\ Power(x, 2) = x * x
      /\ Power(x, 3) = x * (x * x) /\ Power(x, 4) = x * (x * (x * x))
  BY SmallPowers
<1>3. /\ Power(y, 1) = y /\ Power(y, 2) = y * y
      /\ Power(y, 3) = y * (y * y) /\ Power(y, 4) = y * (y * (y * y))
  BY <1>1, SmallPowers
<1>4. /\ Power(z, 1) = z /\ Power(z, 2) = z * z
      /\ Power(z, 3) = z * (z * z) /\ Power(z, 4) = z * (z * (z * z))
  BY <1>1, SmallPowers
<1>5. (p + 1) * w * (Power(x, p) + 4 * Power(y, p) + Power(z, p))
        = 3 * (Power(z, p + 1) - Power(x, p + 1))
  <2>1. CASE p = 1
    <3>1. 2 * w * (x + 4 * y + z) = 3 * (z * z - x * x)
      BY DEF y, z
    <3>. QED  BY <2>1, <3>1, <1>2, <1>3, <1>4
  <2>2. CASE p = 2
    <3>1. 3 * w * (x * x + 4 * (y * y) + z * z) = 3 * (z * (z * z) - x * (x * x))
      BY DEF y, z
    <3>. QED  BY <2>2, <3>1, <1>2, <1>3, <1>4
  <2>3. CASE p = 3
    <3>1. 4 * w * (x * (x * x) + 4 * (y * (y * y)) + z * (z * z))
            = 3 * (z * (z * (z * z)) - x * (x * (x * x)))
      BY DEF y, z
    <3>. QED  BY <2>3, <3>1, <1>2, <1>3, <1>4
  <2>. QED  BY <2>1, <2>2, <2>3
<1>. QED  BY <1>5 DEF y, z

\* The sum after an odd turn, without the parts that the next ones belong to.
Node(k) == args.first + k * Width

ArgsOK ==
  /\ args = [power |-> args.power, first |-> args.first, last |-> args.last, n |-> args.n,
             rate |-> args.rate, y0 |-> args.y0]
  /\ args.power \in Nat \ {0} /\ args.first \in Int /\ args.last \in Int /\ args.n \in Nat
  /\ args.rate \in Int /\ args.y0 \in Int

(* The turns of simpson come in pairs: after the second of a pair the sum is
   right for the part that is behind. *)
SimpsonInv ==
  method = "simpson" =>
    /\ args.n # 0 /\ args.n % 2 = 0
    /\ turn \in 1..args.n
    /\ Width \in Int /\ Width * args.n = args.last - args.first
    /\ args.power <= 3 /\ turn % 2 = 1 =>
         (args.power + 1) * Width * (total - f(args.last) - f(Node(turn - 1)))
           = 3 * Integral(args.first, Node(turn - 1))
    /\ args.power <= 3 /\ turn % 2 = 0 =>
         (args.power + 1) * Width
             * (total - f(args.last) - f(Node(turn - 2)) - 4 * f(Node(turn - 1)))
           = 3 * Integral(args.first, Node(turn - 2))

(* Each turn of rk4 adds the integral over its step, or multiplies y by the same
   polynomial of the rate, and there was a reason for every step. *)
Rk4Inv ==
  method = "rk4" =>
    /\ args.n # 0 /\ turn \in Int
    /\ times \in Seq(Int) /\ times # <<>>
    /\ \A k \in DOMAIN times : times[k] = args.first + (k - 1) * 2 * args.n
    /\ turn = times[Len(times)]
    /\ turn # args.first => turn - 2 * args.n < args.last - args.n
    /\ args.rate = 0 /\ args.power <= 3 =>
         (args.power + 1) * (total - Scale * args.y0) = Scale * Integral(args.first, turn)
    /\ args.rate # 0 => total = args.y0 * Power(Growth(args.n * args.rate), Steps)

NumericalInv ==
  /\ method \in {"none", "simpson", "rk4"}
  /\ ArgsOK /\ total \in Int
  /\ SimpsonInv /\ Rk4Inv

LEMMA NumericalInitEstablishes == NumericalInit => NumericalInv
BY DEF NumericalInit, NumericalInv, ArgsOK, SimpsonInv, Rk4Inv

LEMMA PowerInt == \A x \in Int, p \in Nat : Power(x, p) \in Int
BY PowerStep

LEMMA CallSimpsonStep ==
  ASSUME NumericalInv, NEW power \in Nat \ {0}, NEW first \in Int, NEW length \in Int,
         NEW asked \in Nat, CallSimpson(power, first, length, asked)
  PROVE  NumericalInv'
<1>. DEFINE N == MakeEven(asked)
<1>1. N \in Nat \ {0} /\ N % 2 = 0 /\ asked # 0
  BY DEF CallSimpson, MakeEven
<1>2. length % N = 0
  BY DEF CallSimpson
<1>. HIDE DEF N
<1>3. /\ method' = "simpson" /\ turn' = 1
      /\ args' = [power |-> power, first |-> first, last |-> first + length, n |-> N,
                  rate |-> 0, y0 |-> 0]
      /\ total' = Power(first, power) + Power(first + length, power)
  BY DEF CallSimpson, N
<1>4. ArgsOK'
  BY <1>1, <1>3 DEF ArgsOK
<1>5. total' \in Int
  <2>1. first + length \in Int
    OBVIOUS
  <2>. QED  BY <2>1, <1>3, PowerInt
<1>6. (Width \in Int /\ Width * args.n = args.last - args.first)'
  <2>1. (length \div N) * N = length /\ length \div N \in Int
    BY <1>1, <1>2
  <2>2. Width' = length \div N
    <3>1. (first + length) - first = length
      OBVIOUS
    <3>. QED  BY <1>3, <3>1 DEF Width
  <2>. QED  BY <2>1, <2>2, <1>3
<1>7. Node(0)' = first
  <2>1. Width' \in Int /\ args'.first = first
    BY <1>3, <1>6
  <2>2. Node(0)' = args'.first + 0 * Width'
    BY DEF Node
  <2>. HIDE DEF Width
  <2>. QED  BY <2>1, <2>2
<1>8. (Integral(args.first, Node(0)) = 0 /\ f(Node(0)) = Power(first, power)
       /\ f(args.last) = Power(first + length, power))'
  <2>1. Power(first, power + 1) \in Int
    BY PowerInt
  <2>. QED  BY <2>1, <1>3, <1>7 DEF Integral, f
<1>9. ((args.power + 1) * Width * (total - f(args.last) - f(Node(turn - 1)))
           = 3 * Integral(args.first, Node(turn - 1)))'
  <2>1. turn' - 1 = 0
    BY <1>3
  <2>2. total' - f(args.last)' - f(Node(0))' = 0
    <3>1. first + length \in Int
      OBVIOUS
    <3>2. Power(first, power) \in Int /\ Power(first + length, power) \in Int
      BY <3>1, PowerInt
    <3>. QED  BY <3>2, <1>3, <1>8
  <2>3. (args.power + 1)' \in Int /\ Width' \in Int
    BY <1>3, <1>6
  <2>. QED  BY <2>1, <2>2, <2>3, <1>8 DEF Node, f, Integral
<1>10. SimpsonInv'
  <2>1. args'.n = N /\ turn' % 2 = 1 /\ turn' % 2 # 0 /\ turn' \in 1..N
    BY <1>1, <1>3
  <2>. QED  BY <1>1, <1>6, <1>9, <2>1 DEF SimpsonInv
<1>11. Rk4Inv'
  BY <1>3 DEF Rk4Inv
<1>. QED  BY <1>3, <1>4, <1>5, <1>10, <1>11 DEF NumericalInv

LEMMA Distributes ==
  ASSUME NEW c \in Int, NEW x \in Int, NEW y \in Int, NEW u \in Int, NEW v \in Int,
         c * x = 3 * u, c * y = 3 * v
  PROVE  c * (x + y) = 3 * (u + v)
<1>1. c * (x + y) = c * x + c * y
  OBVIOUS
<1>. QED  BY <1>1

LEMMA Apart2 ==
  ASSUME NEW j \in Int, NEW x \in Int, NEW w \in Int
  PROVE  /\ x + (j + 1) * w = (x + j * w) + w
         /\ x + (j + 2) * w = (x + j * w) + 2 * w
         /\ x + j * w \in Int
<1>1. (j + 1) * w = j * w + w /\ (j + 2) * w = j * w + 2 * w /\ j * w \in Int
  OBVIOUS
<1>. QED  BY <1>1

LEMMA SimpsonTurnStep ==
  ASSUME NumericalInv, SimpsonTurn
  PROVE  NumericalInv'
<1>1. /\ method = "simpson" /\ turn < args.n /\ method' = method /\ args' = args
      /\ total' = total + f(args.first + turn * Width) * (IF turn % 2 = 0 THEN 2 ELSE 4)
      /\ turn' = turn + 1 /\ times' = times
  BY DEF SimpsonTurn
<1>2. /\ args.n # 0 /\ args.n % 2 = 0 /\ turn \in 1..args.n /\ Width \in Int
      /\ args.power \in Nat \ {0} /\ args.first \in Int /\ args.last \in Int
      /\ args.n \in Nat /\ total \in Int
      /\ Width * args.n = args.last - args.first
  BY <1>1 DEF NumericalInv, SimpsonInv, ArgsOK
<1>3. /\ Width' = Width /\ ArgsOK'
      /\ \A x : f(x)' = f(x)
      /\ \A j : Node(j)' = Node(j)
      /\ \A x, y : Integral(x, y)' = Integral(x, y)
  BY <1>1 DEF Width, ArgsOK, f, Node, Integral, NumericalInv
<1>4. \A j \in Int : Node(j) \in Int /\ f(Node(j)) \in Int
  <2>. SUFFICES ASSUME NEW j \in Int PROVE Node(j) \in Int /\ f(Node(j)) \in Int
    OBVIOUS
  <2>1. Node(j) \in Int
    BY <1>2, Apart2 DEF Node
  <2>. QED  BY <2>1, <1>2, PowerInt DEF f
<1>5. f(args.last) \in Int
  BY <1>2, PowerInt DEF f
<1>6. \A x, y \in Int : Integral(x, y) \in Int
  <2>. SUFFICES ASSUME NEW x \in Int, NEW y \in Int PROVE Integral(x, y) \in Int
    OBVIOUS
  <2>1. args.power + 1 \in Nat
    BY <1>2
  <2>2. Power(x, args.power + 1) \in Int /\ Power(y, args.power + 1) \in Int
    BY <2>1, PowerInt
  <2>. QED  BY <2>2 DEF Integral
<1>7. f(args.first + turn * Width) = f(Node(turn)) /\ turn \in Int
  BY <1>2 DEF Node
<1>8. total' = total + f(Node(turn)) * (IF turn % 2 = 0 THEN 2 ELSE 4)
  BY <1>1, <1>7
<1>9. total' \in Int
  BY <1>2, <1>4, <1>7, <1>8
<1>10. turn' \in 1..args.n
  BY <1>1, <1>2
<1>. DEFINE c == (args.power + 1) * Width
<1>11. c \in Int
  BY <1>2
<1>12. ASSUME args.power <= 3, turn' % 2 = 1
       PROVE  c * (total' - f(args.last) - f(Node(turn' - 1)))
                = 3 * Integral(args.first, Node(turn' - 1))
  <2>1. turn % 2 = 0 /\ turn' - 1 = turn /\ turn - 2 \in Int /\ turn - 1 \in Int
    BY <1>1, <1>2, <1>12
  <2>. DEFINE behind == total - f(args.last) - f(Node(turn - 2)) - 4 * f(Node(turn - 1))
              two == f(Node(turn - 2)) + 4 * f(Node(turn - 1)) + f(Node(turn))
  <2>2. c * behind = 3 * Integral(args.first, Node(turn - 2))
    BY <2>1, <1>1, <1>12 DEF NumericalInv, SimpsonInv
  <2>3. /\ Node(turn - 2) \in Int /\ Node(turn - 1) = Node(turn - 2) + Width
        /\ Node(turn) = Node(turn - 2) + 2 * Width
    <3>1. (turn - 2) + 1 = turn - 1 /\ (turn - 2) + 2 = turn
      BY <2>1, <1>7
    <3>. QED  BY <3>1, <2>1, <1>2, Apart2 DEF Node
  <2>4. c * two = 3 * Integral(Node(turn - 2), Node(turn))
    <3>. DEFINE x == Node(turn - 2)
                p == args.power
    <3>4. p \in 1..3
      <4>1. args.power \in Nat \ {0} /\ args.power <= 3
        BY <1>2, <1>12
      <4>. QED  BY <4>1
    <3>1. p \in 1..3 /\ x \in Int
      BY <2>3, <3>4
    <3>. HIDE DEF x, p
    <3>2. (p + 1) * Width * (Power(x, p) + 4 * Power(x + Width, p) + Power(x + 2 * Width, p))
            = 3 * (Power(x + 2 * Width, p + 1) - Power(x, p + 1))
      BY <3>1, <1>2, SimpsonExact
    <3>3. Node(turn - 1) = x + Width /\ Node(turn) = x + 2 * Width
      BY <2>3 DEF x
    <3>. QED  BY <3>2, <3>3 DEF Integral, f, x, p
  <2>5. behind \in Int /\ two \in Int
    BY <2>1, <1>2, <1>4, <1>5, <1>7
  <2>6. total' - f(args.last) - f(Node(turn)) = behind + two
    BY <2>1, <1>2, <1>4, <1>5, <1>7, <1>8
  <2>7. Integral(args.first, Node(turn))
          = Integral(args.first, Node(turn - 2)) + Integral(Node(turn - 2), Node(turn))
    <3>1. args.power + 1 \in Nat
      BY <1>2
    <3>2. /\ Power(args.first, args.power + 1) \in Int
          /\ Power(Node(turn - 2), args.power + 1) \in Int
          /\ Power(Node(turn), args.power + 1) \in Int
      BY <3>1, <2>1, <1>2, <1>4, <1>7, PowerInt
    <3>. QED  BY <3>2 DEF Integral
  <2>8. /\ Integral(args.first, Node(turn - 2)) \in Int
        /\ Integral(Node(turn - 2), Node(turn)) \in Int
    BY <2>1, <1>2, <1>4, <1>6, <1>7
  <2>. HIDE DEF behind, two, c
  <2>9. c * (behind + two)
          = 3 * (Integral(args.first, Node(turn - 2)) + Integral(Node(turn - 2), Node(turn)))
    BY <2>2, <2>4, <2>5, <2>8, <1>11, Distributes
  <2>. QED  BY <2>1, <2>6, <2>7, <2>9
<1>13. ASSUME args.power <= 3, turn' % 2 = 0
       PROVE  c * (total' - f(args.last) - f(Node(turn' - 2)) - 4 * f(Node(turn' - 1)))
                = 3 * Integral(args.first, Node(turn' - 2))
  <2>1. turn % 2 = 1 /\ turn' - 1 = turn /\ turn' - 2 = turn - 1 /\ turn - 1 \in Int
    BY <1>1, <1>2, <1>13
  <2>2. c * (total - f(args.last) - f(Node(turn - 1))) = 3 * Integral(args.first, Node(turn - 1))
    BY <2>1, <1>1, <1>13 DEF NumericalInv, SimpsonInv
  <2>3. total' - f(args.last) - f(Node(turn - 1)) - 4 * f(Node(turn))
          = total - f(args.last) - f(Node(turn - 1))
    <3>1. total' = total + f(Node(turn)) * 4
      BY <2>1, <1>8
    <3>2. f(Node(turn)) \in Int /\ f(Node(turn - 1)) \in Int
      BY <2>1, <1>4, <1>7
    <3>. HIDE DEF f, Node
    <3>. QED  BY <3>1, <3>2, <1>2, <1>5
  <2>. QED  BY <2>1, <2>2, <2>3
<1>14. SimpsonInv'
  <2>. HIDE DEF Node, f, Integral, Width
  <2>. QED  BY <1>1, <1>2, <1>3, <1>10, <1>12, <1>13 DEF SimpsonInv
<1>15. Rk4Inv'
  BY <1>1 DEF Rk4Inv
<1>. QED  BY <1>1, <1>3, <1>9, <1>14, <1>15 DEF NumericalInv

LEMMA GrowthInt == \A w \in Int : Growth(w) \in Int
BY DEF Growth

LEMMA PowerZero == \A x \in Int : Power(x, 0) = 1
BY PowerStep

LEMMA CallRk4Step ==
  ASSUME NumericalInv, NEW power \in Nat \ {0}, NEW rate \in Int, NEW y0 \in Int,
         NEW first \in Int, NEW length \in Int, NEW half \in Nat,
         CallRk4(power, rate, y0, first, length, half)
  PROVE  NumericalInv'
<1>1. /\ half # 0 /\ method' = "rk4" /\ turn' = first /\ total' = y0 /\ times' = <<first>>
      /\ args' = [power |-> power, first |-> first, last |-> first + length, n |-> half,
                  rate |-> rate, y0 |-> y0]
  BY DEF CallRk4
<1>2. ArgsOK'
  BY <1>1 DEF ArgsOK
<1>3. /\ times' \in Seq(Int) /\ times' # <<>> /\ DOMAIN times' = 1..1 /\ Len(times') = 1
      /\ times'[1] = first
  BY <1>1
<1>4. \A k \in DOMAIN times' : times'[k] = first + (k - 1) * 2 * half
  <2>. SUFFICES ASSUME NEW k \in 1..1 PROVE times'[k] = first + (k - 1) * 2 * half
    BY <1>3
  <2>1. k = 1 /\ (1 - 1) * 2 * half = 0
    OBVIOUS
  <2>. QED  BY <2>1, <1>3
<1>5. Integral(args.first, turn)' = 0
  <2>1. Power(first, power + 1) \in Int
    BY PowerInt
  <2>. QED  BY <2>1, <1>1 DEF Integral
<1>6. Steps' = 0 /\ Scale' = 1
  <2>1. Steps' = 0
    BY <1>3 DEF Steps
  <2>. QED  BY <2>1, PowerZero DEF Scale
<1>7. ((args.power + 1) * (total - Scale * args.y0) = Scale * Integral(args.first, turn))'
  BY <1>1, <1>5, <1>6
<1>8. (total = args.y0 * Power(Growth(args.n * args.rate), Steps))'
  <2>1. Growth(half * rate) \in Int
    <3>1. half * rate \in Int
      OBVIOUS
    <3>. QED  BY <3>1, GrowthInt
  <2>2. Power(Growth(half * rate), 0) = 1
    BY <2>1, PowerZero
  <2>3. Growth(args.n * args.rate)' = Growth(half * rate)
    BY <1>1 DEF Growth
  <2>. QED  BY <1>1, <1>6, <2>2, <2>3
<1>9. Rk4Inv'
  BY <1>1, <1>3, <1>4, <1>7, <1>8 DEF Rk4Inv
<1>10. SimpsonInv'
  BY <1>1 DEF SimpsonInv
<1>. QED  BY <1>1, <1>2, <1>9, <1>10 DEF NumericalInv

\* Where f does not depend on y, a step adds what Simpson's rule adds.
LEMMA PowerStages ==
  ASSUME NumericalInv, Rk4Turn, args.rate = 0
  PROVE  total' = 6 * total
                    + Scale * (2 * args.n * (f(turn) + 4 * f(turn + args.n) + f(turn + 2 * args.n)))
<1>. DEFINE w == args.n
            S == Scale
            F(x) == f(x)
<1>1. w \in Nat /\ turn \in Int /\ total \in Int /\ times \in Seq(Int) /\ times # <<>>
  BY DEF Rk4Turn, NumericalInv, Rk4Inv, ArgsOK
<1>2. S \in Int
  <2>1. Steps \in Nat
    BY <1>1 DEF Steps
  <2>. QED  BY <2>1, PowerInt DEF Scale
<1>3. F(turn) \in Int /\ F(turn + w) \in Int /\ F(turn + 2 * w) \in Int
  <2>1. turn + w \in Int /\ turn + 2 * w \in Int /\ args.power \in Nat
    BY <1>1 DEF NumericalInv, ArgsOK
  <2>. QED  BY <2>1, <1>1, PowerInt DEF f
<1>4. \A x, y : rhs(x, y) = S * F(x)
  BY DEF rhs
<1>. HIDE DEF w, S, F
<1>. DEFINE k1 == 2 * w * (S * F(turn))
            k2 == 2 * w * (S * F(turn + w))
            k4 == 2 * w * (S * F(turn + 2 * w))
<1>5. total' = 6 * total + k1 + 2 * k2 + 2 * k2 + k4
  BY <1>4 DEF Rk4Turn, w
<1>. DEFINE e1 == w * (S * F(turn))
            e2 == w * (S * F(turn + w))
            e4 == w * (S * F(turn + 2 * w))
<1>6. e1 \in Int /\ e2 \in Int /\ e4 \in Int
  BY <1>1, <1>2, <1>3
<1>7. S * (2 * w * (F(turn) + 4 * F(turn + w) + F(turn + 2 * w)))
        = 2 * e1 + 8 * e2 + 2 * e4
  <2>. DEFINE g1 == S * F(turn)
              g2 == S * F(turn + w)
              g4 == S * F(turn + 2 * w)
  <2>1. g1 \in Int /\ g2 \in Int /\ g4 \in Int
    BY <1>2, <1>3
  <2>2. S * (2 * w * (F(turn) + 4 * F(turn + w) + F(turn + 2 * w)))
          = 2 * (w * (g1 + 4 * g2 + g4))
    <3>. DEFINE x1 == F(turn)
                x2 == F(turn + w)
                x4 == F(turn + 2 * w)
                h == x1 + 4 * x2 + x4
    <3>1. x1 \in Int /\ x2 \in Int /\ x4 \in Int
      BY <1>3
    <3>. HIDE DEF x1, x2, x4
    <3>2. S * h = S * x1 + 4 * (S * x2) + S * x4
      BY <3>1, <1>2
    <3>3. h \in Int
      BY <3>1
    <3>. HIDE DEF h
    <3>4. S * (2 * w * h) = 2 * (w * (S * h))
      BY <3>3, <1>1, <1>2
    <3>. QED  BY <3>2, <3>4 DEF h, g1, g2, g4, x1, x2, x4
  <2>. HIDE DEF g1, g2, g4
  <2>3. w * (g1 + 4 * g2 + g4) = w * g1 + 4 * (w * g2) + w * g4
    BY <1>1, <2>1
  <2>4. e1 = w * g1 /\ e2 = w * g2 /\ e4 = w * g4
    BY DEF g1, g2, g4
  <2>. HIDE DEF e1, e2, e4
  <2>. QED  BY <1>6, <2>2, <2>3, <2>4
<1>8. k1 = 2 * e1 /\ k2 = 2 * e2 /\ k4 = 2 * e4
  BY <1>1, <1>2, <1>3
<1>9. total' = 6 * total + (2 * e1 + 8 * e2 + 2 * e4)
  <2>. HIDE DEF k1, k2, k4, e1, e2, e4
  <2>. QED  BY <1>1, <1>5, <1>6, <1>8
<1>. HIDE DEF e1, e2, e4, k1, k2, k4
<1>. QED  BY <1>7, <1>9 DEF F, S, w

LEMMA HalfOfTwice == \A x \in Int : (2 * x) \div 2 = x
OBVIOUS

\* The stages for y' = rate * y, each from where the one before leads.
LEMMA StagesGrow ==
  ASSUME NEW Y \in Int, NEW w \in Int
  PROVE  LET p1 == w * Y
             q2 == w * (Y + p1)
             q3 == w * (Y + q2)
             q4 == w * (Y + 2 * q3)
         IN 6 * Y + 2 * p1 + 4 * q2 + 4 * q3 + 2 * q4 = Growth(w) * Y
<1>. DEFINE p1 == w * Y
            p2 == w * p1
            p3 == w * p2
            p4 == w * p3
            q2 == w * (Y + p1)
            q3 == w * (Y + q2)
            q4 == w * (Y + 2 * q3)
<1>1. p1 \in Int /\ p2 \in Int /\ p3 \in Int /\ p4 \in Int
  OBVIOUS
<1>2. q2 = p1 + p2 /\ q2 \in Int
  BY <1>1
<1>3. q3 = p1 + p2 + p3 /\ q3 \in Int
  <2>. HIDE DEF q2
  <2>1. w * (Y + q2) = w * Y + w * q2
    BY <1>2
  <2>2. w * q2 = p2 + p3
    BY <1>1, <1>2
  <2>. QED  BY <1>1, <1>2, <2>1, <2>2
<1>4. q4 = p1 + 2 * p2 + 2 * p3 + 2 * p4
  <2>. HIDE DEF q3
  <2>1. w * (Y + 2 * q3) = w * Y + 2 * (w * q3)
    BY <1>3
  <2>2. w * q3 = p2 + p3 + p4
    BY <1>1, <1>3
  <2>. QED  BY <1>1, <2>1, <2>2
<1>5. Growth(w) * Y = 6 * Y + 12 * p1 + 12 * p2 + 8 * p3 + 4 * p4
  <2>1. /\ (w * w) * Y = p2 /\ (w * w * w) * Y = p3 /\ (w * w * w * w) * Y = p4
    OBVIOUS
  <2>. DEFINE w2 == w * w
              w3 == w * w * w
              w4 == w * w * w * w
  <2>2. w2 \in Int /\ w3 \in Int /\ w4 \in Int
    OBVIOUS
  <2>3. Growth(w) = 6 + 12 * w + 12 * w2 + 8 * w3 + 4 * w4
    <3>1. 12 * w * w = 12 * w2 /\ 8 * w * w * w = 8 * w3 /\ 4 * w * w * w * w = 4 * w4
      OBVIOUS
    <3>. HIDE DEF w2, w3, w4
    <3>. QED  BY <3>1 DEF Growth
  <2>4. w2 * Y = p2 /\ w3 * Y = p3 /\ w4 * Y = p4 /\ w * Y = p1
    BY <2>1
  <2>. HIDE DEF w2, w3, w4, p1, p2, p3, p4
  <2>5. (6 + 12 * w + 12 * w2 + 8 * w3 + 4 * w4) * Y
          = 6 * Y + 12 * (w * Y) + 12 * (w2 * Y) + 8 * (w3 * Y) + 4 * (w4 * Y)
    BY <2>2
  <2>. QED  BY <2>3, <2>4, <2>5
<1>. HIDE DEF p1, p2, p3, p4, q2, q3, q4
<1>6. 6 * Y + 2 * p1 + 4 * q2 + 4 * q3 + 2 * q4 = Growth(w) * Y
  BY <1>1, <1>2, <1>3, <1>4, <1>5
<1>. QED  BY <1>6 DEF p1, q2, q3, q4

LEMMA GrowthStages ==
  ASSUME NumericalInv, Rk4Turn, args.rate # 0
  PROVE  total' = Growth(args.n * args.rate) * total
<1>. DEFINE n1 == args.n
            rt == args.rate
            Y == total
            w == n1 * rt
            e1 == w * Y
            e2 == w * (Y + e1)
            e3 == w * (Y + e2)
            e4 == w * (Y + 2 * e3)
<1>1. n1 \in Nat /\ rt \in Int /\ Y \in Int
  BY DEF Rk4Turn, NumericalInv, Rk4Inv, ArgsOK
<1>2. w \in Int /\ \A z \in Int : 2 * n1 * (rt * z) = 2 * (w * z) /\ w * z \in Int
  BY <1>1
<1>. HIDE DEF w
<1>3. e1 \in Int /\ e2 \in Int /\ e3 \in Int /\ e4 \in Int
  BY <1>1, <1>2
<1>4. \A x, z : rhs(x, z) = rt * z
  BY DEF rhs
<1>. HIDE DEF n1, rt, Y, e1, e2, e3, e4
<1>5. 2 * n1 * (rt * Y) = 2 * e1
  BY <1>1, <1>2 DEF e1
<1>6. 2 * n1 * (rt * (Y + (2 * e1) \div 2)) = 2 * e2
  <2>1. (2 * e1) \div 2 = e1 /\ Y + e1 \in Int
    BY <1>1, <1>3, HalfOfTwice
  <2>. QED  BY <1>2, <2>1 DEF e2
<1>7. 2 * n1 * (rt * (Y + (2 * e2) \div 2)) = 2 * e3
  <2>1. (2 * e2) \div 2 = e2 /\ Y + e2 \in Int
    BY <1>1, <1>3, HalfOfTwice
  <2>. QED  BY <1>2, <2>1 DEF e3
<1>8. 2 * n1 * (rt * (Y + 2 * e3)) = 2 * e4
  <2>1. Y + 2 * e3 \in Int
    BY <1>1, <1>3
  <2>. QED  BY <1>2, <2>1 DEF e4
<1>9. total' = 6 * Y + 2 * e1 + 2 * (2 * e2) + 2 * (2 * e3) + 2 * e4
  <2>. DEFINE k1 == 2 * args.n * rhs(turn, total)
              k2 == 2 * args.n * rhs(turn + args.n, total + k1 \div 2)
              k3 == 2 * args.n * rhs(turn + args.n, total + k2 \div 2)
              k4 == 2 * args.n * rhs(turn + 2 * args.n, total + k3)
  <2>1. total' = 6 * total + k1 + 2 * k2 + 2 * k3 + k4
    BY DEF Rk4Turn
  <2>2. k1 = 2 * e1
    BY <1>4, <1>5 DEF n1, Y
  <2>. HIDE DEF k1
  <2>3. k2 = 2 * e2
    BY <1>4, <1>6, <2>2 DEF n1, Y
  <2>. HIDE DEF k2
  <2>4. k3 = 2 * e3
    BY <1>4, <1>7, <2>3 DEF n1, Y
  <2>. HIDE DEF k3
  <2>5. k4 = 2 * e4
    BY <1>4, <1>8, <2>4 DEF n1, Y
  <2>. HIDE DEF k4
  <2>. QED  BY <2>1, <2>2, <2>3, <2>4, <2>5 DEF Y
<1>10. 6 * Y + 2 * e1 + 4 * e2 + 4 * e3 + 2 * e4 = Growth(w) * Y
  BY <1>1, <1>2, StagesGrow DEF e1, e2, e3, e4
<1>11. total' = Growth(w) * Y
  BY <1>1, <1>3, <1>9, <1>10
<1>. QED  BY <1>11 DEF w, Y, n1, rt

LEMMA Rk4TurnStep ==
  ASSUME NumericalInv, Rk4Turn
  PROVE  NumericalInv'
<1>. DEFINE w == args.n
            p == args.power
            S == Scale
            more == 2 * w * (f(turn) + 4 * f(turn + w) + f(turn + 2 * w))
<1>1. /\ method = "rk4" /\ turn < args.last - w /\ method' = method /\ args' = args
      /\ args.rate = 0 => total' = 6 * total + S * more
      /\ args.rate # 0 => total' = Growth(w * args.rate) * total
      /\ turn' = turn + 2 * w /\ times' = Append(times, turn + 2 * w)
  BY PowerStages, GrowthStages DEF Rk4Turn, MoreSteps
<1>2. /\ w \in Nat \ {0} /\ turn \in Int /\ times \in Seq(Int) /\ times # <<>>
      /\ \A k \in DOMAIN times : times[k] = args.first + (k - 1) * 2 * w
      /\ turn = times[Len(times)]
      /\ p \in Nat \ {0} /\ args.first \in Int /\ args.last \in Int /\ total \in Int
      /\ args.rate \in Int /\ args.y0 \in Int
      /\ args.rate = 0 /\ p <= 3 =>
           (p + 1) * (total - S * args.y0) = S * Integral(args.first, turn)
      /\ args.rate # 0 => total = args.y0 * Power(Growth(w * args.rate), Steps)
  BY <1>1 DEF NumericalInv, Rk4Inv, ArgsOK
<1>. HIDE DEF w, p, S, more
<1>3. turn + w \in Int /\ turn + 2 * w \in Int
  BY <1>2
<1>4. f(turn) \in Int /\ f(turn + w) \in Int /\ f(turn + 2 * w) \in Int
  BY <1>2, <1>3, PowerInt DEF f, p
<1>5. Steps \in Nat /\ Steps' = Steps + 1 /\ S \in Int /\ Scale' = 6 * S
  <2>1. Steps \in Nat
    BY <1>2 DEF Steps
  <2>2. Steps' = Steps + 1
    <3>1. Len(times') = Len(times) + 1 /\ Len(times) \in Nat
      BY <1>1, <1>2, <1>3
    <3>. QED  BY <3>1 DEF Steps
  <2>3. Power(6, Steps + 1) = 6 * Power(6, Steps) /\ Power(6, Steps) \in Int
    BY <2>1, PowerStep
  <2>. QED  BY <2>1, <2>2, <2>3 DEF Scale, S
<1>6. total' \in Int
  <2>1. more \in Int
    BY <1>2, <1>4 DEF more
  <2>2. S * more \in Int
    BY <2>1, <1>5
  <2>3. Growth(w * args.rate) \in Int
    <3>1. w * args.rate \in Int
      BY <1>2
    <3>. QED  BY <3>1, GrowthInt
  <2>4. Growth(w * args.rate) * total \in Int /\ 6 * total + S * more \in Int
    <3>. DEFINE u == Growth(w * args.rate)
                v == S * more
    <3>1. u \in Int /\ v \in Int /\ total \in Int
      BY <2>2, <2>3, <1>2
    <3>. HIDE DEF u, v
    <3>2. u * total \in Int /\ 6 * total + v \in Int
      BY <3>1
    <3>. QED  BY <3>2 DEF u, v
  <2>. QED  BY <2>4, <1>1
<1>13. ASSUME args.rate = 0, p <= 3
       PROVE  (p + 1) * (total' - Scale' * args.y0)
                = Scale' * Integral(args.first, turn + 2 * w)
  <2>. DEFINE x == turn
              N == Power(x, p) + 4 * Power(x + w, p) + Power(x + 2 * w, p)
              I1 == Integral(args.first, x)
              I2 == Integral(x, x + 2 * w)
  <2>1. p \in 1..3
    BY <1>2, <1>13
  <2>2. (p + 1) * w * N = 3 * I2
    <3>. HIDE DEF x
    <3>1. x \in Int /\ w \in Int
      BY <1>2 DEF x
    <3>. QED  BY <2>1, <3>1, SimpsonExact DEF Integral, p
  <2>3. more = 2 * w * N
    BY DEF f, more, p
  <2>4. N \in Int
    BY <1>4 DEF f, p
  <2>5. I1 \in Int /\ I2 \in Int /\ Integral(args.first, turn + 2 * w) = I1 + I2
    <3>1. p + 1 \in Nat
      BY <1>2
    <3>2. /\ Power(args.first, p + 1) \in Int /\ Power(x, p + 1) \in Int
          /\ Power(x + 2 * w, p + 1) \in Int
      BY <3>1, <1>2, <1>3, PowerInt
    <3>. QED  BY <3>2 DEF Integral, p
  <2>6. (p + 1) * more = 6 * I2 /\ more \in Int
    <3>. HIDE DEF N, I2
    <3>1. (p + 1) * (2 * w * N) = 2 * ((p + 1) * w * N) /\ 2 * w * N \in Int
      BY <1>2, <2>4
    <3>. QED  BY <3>1, <2>2, <2>3, <2>5
  <2>. DEFINE z == total - S * args.y0
  <2>7. (p + 1) * z = S * I1 /\ z \in Int
    BY <1>2, <1>5, <1>13
  <2>8. total' - Scale' * args.y0 = 6 * z + S * more
    <3>1. S * args.y0 \in Int /\ S * more \in Int /\ (6 * S) * args.y0 = 6 * (S * args.y0)
      <4>1. S \in Int /\ args.y0 \in Int /\ more \in Int
        BY <1>2, <1>5, <2>6
      <4>. QED  BY <4>1
    <3>2. total' = 6 * total + S * more /\ total \in Int
      BY <1>1, <1>2, <1>13
    <3>. DEFINE u == S * args.y0
                v == S * more
    <3>. HIDE DEF u, v
    <3>3. u \in Int /\ v \in Int /\ Scale' * args.y0 = 6 * u /\ total' = 6 * total + v
          /\ z = total - u
      BY <1>5, <3>1, <3>2 DEF u, v
    <3>. HIDE DEF z
    <3>4. total' - Scale' * args.y0 = 6 * z + v
      BY <3>2, <3>3
    <3>. QED  BY <3>4 DEF v
  <2>. HIDE DEF N, I1, I2, x, z
  <2>9. (p + 1) * (6 * z + S * more) = 6 * ((p + 1) * z) + S * ((p + 1) * more)
    BY <1>2, <1>5, <2>6, <2>7
  <2>10. 6 * (S * I1) + S * (6 * I2) = (6 * S) * (I1 + I2)
    BY <1>5, <2>5
  <2>. QED  BY <2>5, <2>6, <2>7, <2>8, <2>9, <2>10, <1>5
<1>14. ASSUME args.rate # 0
       PROVE  total' = args.y0 * Power(Growth(w * args.rate), Steps')
  <2>. DEFINE G == Growth(w * args.rate)
              P == Power(G, Steps)
  <2>1. G \in Int
    <3>1. w * args.rate \in Int
      BY <1>2
    <3>. QED  BY <3>1, GrowthInt
  <2>. HIDE DEF G
  <2>2. P \in Int /\ Power(G, Steps') = G * P
    BY <2>1, <1>5, PowerStep
  <2>3. total' = G * (args.y0 * P)
    BY <1>1, <1>2, <1>14 DEF G
  <2>. HIDE DEF P
  <2>4. G * (args.y0 * P) = args.y0 * (G * P)
    BY <2>1, <2>2, <1>2
  <2>. QED  BY <2>2, <2>3, <2>4 DEF G
<1>7. /\ times' \in Seq(Int) /\ times' # <<>> /\ Len(times') = Len(times) + 1
      /\ DOMAIN times' = 1..(Len(times) + 1) /\ times'[Len(times')] = turn'
      /\ \A k \in 1..Len(times) : times'[k] = times[k]
      /\ times'[Len(times) + 1] = turn'
  <2>. DEFINE t == turn + 2 * w
  <2>1. times' = Append(times, t) /\ turn' = t /\ t \in Int
    BY <1>1, <1>3
  <2>2. times \in Seq(Int) /\ Len(times) \in Nat
    BY <1>2
  <2>. HIDE DEF t
  <2>3. /\ times' \in Seq(Int) /\ Len(times') = Len(times) + 1
        /\ \A k \in 1..Len(times) : times'[k] = times[k]
        /\ times'[Len(times) + 1] = t
    BY <2>1, <2>2
  <2>4. DOMAIN times' = 1..(Len(times) + 1) /\ times' # <<>>
    BY <2>2, <2>3
  <2>. QED  BY <2>1, <2>3, <2>4
<1>8. turn' = args.first + ((Len(times) + 1) - 1) * 2 * w
  <2>1. Len(times) \in Nat /\ Len(times) \in DOMAIN times
    BY <1>2
  <2>. DEFINE m == Len(times)
  <2>. HIDE DEF m
  <2>2. turn = args.first + (m - 1) * 2 * w /\ m \in Nat
    BY <2>1, <1>2 DEF m
  <2>3. (m - 1) * 2 * w + 2 * w = ((m + 1) - 1) * 2 * w /\ (m - 1) * 2 * w \in Int
    BY <2>2, <1>2
  <2>4. turn' = args.first + ((m - 1) * 2 * w + 2 * w)
    <3>1. turn' = turn + 2 * w /\ args.first \in Int /\ 2 * w \in Int
      BY <1>1, <1>2
    <3>. DEFINE z == (m - 1) * 2 * w
    <3>2. z \in Int /\ turn = args.first + z
      BY <2>2, <2>3
    <3>. HIDE DEF z
    <3>3. turn' = args.first + (z + 2 * w)
      BY <3>1, <3>2
    <3>. QED  BY <3>3 DEF z
  <2>. QED  BY <2>3, <2>4 DEF m
<1>9. \A k \in DOMAIN times' : times'[k] = args.first + (k - 1) * 2 * w
  <2>. SUFFICES ASSUME NEW k \in 1..(Len(times) + 1)
                PROVE  times'[k] = args.first + (k - 1) * 2 * w
    BY <1>7
  <2>1. Len(times) \in Nat /\ DOMAIN times = 1..Len(times)
    BY <1>2
  <2>2. CASE k = Len(times) + 1
    BY <2>2, <1>7, <1>8
  <2>3. CASE k \in 1..Len(times)
    BY <2>1, <2>3, <1>2, <1>7
  <2>. QED  BY <2>1, <2>2, <2>3
<1>10. ArgsOK'
  BY <1>1 DEF NumericalInv, ArgsOK
<1>11. Rk4Inv'
  <2>1. w # 0 /\ turn' \in Int /\ turn' - 2 * w < args.last - w
    BY <1>1, <1>2, <1>3
  <2>2. /\ args.rate = 0 /\ p <= 3 =>
             (p + 1) * (total' - Scale' * args.y0) = Scale' * Integral(args.first, turn')
        /\ args.rate # 0 => total' = args.y0 * Power(Growth(w * args.rate), Steps')
    BY <1>1, <1>13, <1>14
  <2>3. Integral(args.first, turn)' = Integral(args.first, turn')
    BY <1>1 DEF Integral
  <2>. QED  BY <1>1, <1>7, <1>9, <2>1, <2>2, <2>3 DEF Rk4Inv, w, p
<1>12. SimpsonInv'
  BY <1>1 DEF SimpsonInv
<1>. QED  BY <1>1, <1>6, <1>10, <1>11, <1>12 DEF NumericalInv

LEMMA NumericalStep ==
  ASSUME NumericalInv, [NumericalNext]_numericalVars
  PROVE  NumericalInv'
<1>1. CASE Over /\ Calls
  BY <1>1, NumericalAssumption, CallSimpsonStep, CallRk4Step DEF Calls
<1>2. CASE SimpsonTurn
  BY <1>2, SimpsonTurnStep
<1>3. CASE Rk4Turn
  BY <1>3, Rk4TurnStep
<1>4. CASE UNCHANGED numericalVars
  BY <1>4 DEF numericalVars, NumericalInv, ArgsOK, SimpsonInv, Rk4Inv, Width, f, Node, Integral,
              Scale, Steps
<1>. QED  BY <1>1, <1>2, <1>3, <1>4 DEF NumericalNext

(* What the loops of simpson and rk4 have done so far is right so far. *)
THEOREM NumericalInvariant == NumericalSpec => []NumericalInv
BY NumericalInitEstablishes, NumericalStep, PTL DEF NumericalSpec

LEMMA OrderFourHolds ==
  ASSUME NumericalInv
  PROVE  OrderFour
<1>. SUFFICES ASSUME Over
              PROVE  CASE method = "simpson" ->
                            args.power <= 3 =>
                              (args.power + 1) * Width * total
                                = 3 * Integral(args.first, args.last)
                       [] method = "rk4" ->
                            IF args.rate = 0
                            THEN args.power <= 3 =>
                                   (args.power + 1) * (total - Scale * args.y0)
                                     = Scale * Integral(args.first, turn)
                            ELSE total = args.y0 * Power(Growth(args.n * args.rate), Steps)
                       [] OTHER -> TRUE
  BY DEF OrderFour
<1>1. ASSUME method = "simpson", args.power <= 3
      PROVE  (args.power + 1) * Width * total = 3 * Integral(args.first, args.last)
  <2>. DEFINE W == Width
  <2>1. /\ args.n # 0 /\ args.n % 2 = 0 /\ turn = args.n /\ W \in Int
        /\ W * args.n = args.last - args.first /\ args.n \in Nat
        /\ args.power \in Nat \ {0} /\ args.first \in Int /\ args.last \in Int
        /\ total \in Int
    BY <1>1 DEF NumericalInv, SimpsonInv, ArgsOK, Over
  <2>. DEFINE behind == total - f(args.last) - f(Node(turn - 2)) - 4 * f(Node(turn - 1))
              two == f(Node(turn - 2)) + 4 * f(Node(turn - 1)) + f(args.last)
              c == (args.power + 1) * W
  <2>2. c * behind = 3 * Integral(args.first, Node(turn - 2))
    BY <2>1, <1>1 DEF NumericalInv, SimpsonInv
  <2>3. /\ Node(turn - 2) \in Int /\ Node(turn - 1) = Node(turn - 2) + W
        /\ args.last = Node(turn - 2) + 2 * W
    <3>. HIDE DEF W
    <3>. DEFINE j == turn - 2
    <3>1. j + 1 = turn - 1 /\ j + 2 = turn /\ j \in Int
      BY <2>1
    <3>. HIDE DEF j
    <3>2. args.first + turn * W = args.last
      <4>1. turn * W = W * args.n
        BY <2>1
      <4>. QED  BY <4>1, <2>1
    <3>3. /\ args.first + (j + 1) * W = (args.first + j * W) + W
          /\ args.first + (j + 2) * W = (args.first + j * W) + 2 * W
          /\ args.first + j * W \in Int
      BY <3>1, <2>1, Apart2
    <3>4. \A k : Node(k) = args.first + k * W
      BY DEF Node, W
    <3>5. /\ Node(j) \in Int /\ Node(turn - 1) = Node(j) + W
          /\ args.last = Node(j) + 2 * W
      BY <3>1, <3>2, <3>3, <3>4
    <3>. QED  BY <3>5 DEF j
  <2>4. c * two = 3 * Integral(Node(turn - 2), args.last)
    <3>. DEFINE x == Node(turn - 2)
                p == args.power
    <3>4. p \in 1..3
      BY <1>1, <2>1
    <3>1. p \in 1..3 /\ x \in Int
      BY <2>3, <3>4
    <3>. HIDE DEF x, p, W
    <3>2. (p + 1) * W * (Power(x, p) + 4 * Power(x + W, p) + Power(x + 2 * W, p))
            = 3 * (Power(x + 2 * W, p + 1) - Power(x, p + 1))
      BY <3>1, <2>1, SimpsonExact
    <3>3. Node(turn - 1) = x + W /\ args.last = x + 2 * W
      BY <2>3 DEF x
    <3>. QED  BY <3>2, <3>3 DEF Integral, f, x, p
  <2>5. f(args.last) \in Int /\ f(Node(turn - 2)) \in Int /\ f(Node(turn - 1)) \in Int
    <3>1. Node(turn - 2) \in Int /\ Node(turn - 1) \in Int
      BY <2>1, <2>3
    <3>. HIDE DEF W
    <3>. QED  BY <3>1, <2>1, PowerInt DEF f
  <2>6. Integral(args.first, args.last)
          = Integral(args.first, Node(turn - 2)) + Integral(Node(turn - 2), args.last)
        /\ Integral(args.first, Node(turn - 2)) \in Int
        /\ Integral(Node(turn - 2), args.last) \in Int
    <3>1. args.power + 1 \in Nat
      BY <2>1
    <3>2. /\ Power(args.first, args.power + 1) \in Int
          /\ Power(Node(turn - 2), args.power + 1) \in Int
          /\ Power(args.last, args.power + 1) \in Int
      BY <3>1, <2>1, <2>3, PowerInt
    <3>. QED  BY <3>2 DEF Integral
  <2>7. behind \in Int /\ two \in Int /\ behind + two = total
    <3>. HIDE DEF f, Node, W
    <3>. QED  BY <2>5, <2>1
  <2>8. c \in Int
    BY <2>1
  <2>. HIDE DEF behind, two, c
  <2>9. c * (behind + two)
          = 3 * (Integral(args.first, Node(turn - 2)) + Integral(Node(turn - 2), args.last))
    BY <2>2, <2>4, <2>6, <2>7, <2>8, Distributes
  <2>10. c * total = 3 * Integral(args.first, args.last)
    BY <2>6, <2>7, <2>9
  <2>. QED  BY <2>10 DEF c
<1>2. CASE method = "rk4"
  BY <1>2 DEF NumericalInv, Rk4Inv
<1>. QED  BY <1>1, <1>2

LEMMA EndsNearestHolds ==
  ASSUME NumericalInv
  PROVE  EndsNearest
<1>. SUFFICES ASSUME method = "rk4"
              PROVE  /\ \A k \in DOMAIN times : times[k] = args.first + (k - 1) * 2 * args.n
                     /\ Over /\ args.last >= args.first =>
                          args.last - turn \in -args.n..args.n
  BY DEF EndsNearest
<1>1. /\ \A k \in DOMAIN times : times[k] = args.first + (k - 1) * 2 * args.n
      /\ args.n \in Nat \ {0} /\ turn \in Int /\ args.first \in Int /\ args.last \in Int
      /\ turn # args.first => turn - 2 * args.n < args.last - args.n
  BY DEF NumericalInv, Rk4Inv, ArgsOK
<1>2. ASSUME Over, args.last >= args.first
      PROVE  args.last - turn \in -args.n..args.n
  <2>1. ~(turn < args.last - args.n)
    BY <1>2 DEF Over, MoreSteps
  <2>2. turn <= args.last + args.n
    BY <1>1, <1>2
  <2>. QED  BY <2>1, <2>2, <1>1
<1>. QED  BY <1>1, <1>2

-----------------------------------------------------------------------------
(* The loops over arrays. *)

\* The memory when the first k elements have been stored.
StoredUpTo(k) ==
  [c \in 0..Size - 1 |->
     IF c \in dst..dst + k - 1
     THEN Result(Initially[a + (c - dst)], Initially[b + (c - dst)])
     ELSE Initially[c]]

Products == [k \in 0..n - 1 |-> Initially[a + k] * Initially[b + k]]

(* What a loop has done before its i-th element: it has stored those before it
   and read the others as they were, or its lanes and the sum have all the
   products before it. *)
SimdInv ==
  /\ width \in Nat \ {0}
  /\ op \in {"none", "add", "mul", "dot"}
  /\ op # "none" =>
       /\ a \in Nat /\ b \in Nat /\ dst \in Nat /\ n \in Nat /\ i \in 0..n
       /\ a + n <= Size /\ b + n <= Size
  /\ op \in {"add", "mul"} =>
       /\ dst + n <= Size
       /\ DOMAIN memory = 0..Size - 1
       /\ Apart(a) /\ Apart(b) => memory = StoredUpTo(i)
  /\ op = "dot" =>
       /\ memory = Initially
       /\ acc \in [0..width - 1 -> Int] /\ sum \in Int
       /\ Horizontal = SumBelow(Products, i)

LEMMA SimdInitEstablishes == SimdInit => SimdInv
BY SimdAssumption DEF SimdInit, SimdInv

LEMMA NoLanesAddUp ==
  ASSUME NEW m \in Nat
  PROVE  SumBelow([l \in 0..m - 1 |-> 0], m) = 0
<1>1. \A k \in 0..(m - 1) : [l \in 0..m - 1 |-> 0][k] = 0
  OBVIOUS
<1>2. 0 * m = 0 /\ 0 \in Int
  OBVIOUS
<1>. DEFINE v == [l \in 0..m - 1 |-> 0]
<1>. HIDE DEF v
<1>3. \A k \in 0..(m - 1) : v[k] = 0
  BY <1>1 DEF v
<1>4. SumBelow(v, m) = 0 * m
  BY <1>2, <1>3, SumConstant
<1>. QED  BY <1>2, <1>4 DEF v

LEMMA CallStep ==
  ASSUME SimdInv, NEW g \in {"add", "mul", "dot"}, NEW d \in Nat, NEW x \in Offsets,
         NEW y \in Offsets, NEW count \in Counts, Call(g, d, x, y, count),
         g # "dot" => d \in Offsets
  PROVE  SimdInv'
<1>1. /\ op' = g /\ dst' = d /\ a' = x /\ b' = y /\ n' = count /\ memory' = Initially
      /\ i' = 0 /\ acc' = NoLanes /\ sum' = 0 /\ width' = width /\ width \in Nat \ {0}
  BY DEF Call, SimdInv
<1>2. /\ x \in Nat /\ y \in Nat /\ count \in Nat /\ Size \in Nat
      /\ x + count <= Size /\ y + count <= Size
      /\ g # "dot" => d + count <= Size
  BY SimdAssumption
<1>3. Initially = [c \in 0..Size - 1 |-> Initially[c]] /\ DOMAIN Initially = 0..Size - 1
  BY DEF Initially
<1>4. StoredUpTo(0)' = Initially
  <2>1. \A c \in 0..Size - 1 : c \notin d..d + 0 - 1
    BY <1>2
  <2>. QED  BY <2>1, <1>1, <1>3 DEF StoredUpTo
<1>5. acc' \in [0..width - 1 -> Int] /\ Horizontal' = 0
  <2>1. SumBelow(NoLanes, width) = 0
    BY <1>1, NoLanesAddUp DEF NoLanes
  <2>. QED  BY <2>1, <1>1 DEF NoLanes, Horizontal
<1>6. SumBelow(Products, i)' = 0
  BY <1>1, SumStepZero
<1>. QED  BY <1>1, <1>2, <1>3, <1>4, <1>5, <1>6 DEF SimdInv

\* Lanes are loaded before they are stored, from where nothing was stored yet.
LEMMA StoresNext ==
  ASSUME SimdInv, op \in {"add", "mul"}, NEW lanes \in Nat, i + lanes <= n,
         Apart(a), Apart(b)
  PROVE  Stored(lanes) = StoredUpTo(i + lanes)
<1>1. /\ a \in Nat /\ b \in Nat /\ dst \in Nat /\ n \in Nat /\ i \in 0..n
      /\ a + n <= Size /\ b + n <= Size /\ dst + n <= Size /\ Size \in Nat
      /\ DOMAIN memory = 0..Size - 1 /\ memory = StoredUpTo(i)
  BY SimdAssumption DEF SimdInv
<1>2. \A c \in 0..Size - 1 :
        memory[c] = IF c \in dst..dst + i - 1
                    THEN Result(Initially[a + (c - dst)], Initially[b + (c - dst)])
                    ELSE Initially[c]
  BY <1>1 DEF StoredUpTo
<1>3. ASSUME NEW src \in {a, b}, NEW k \in i..n - 1
      PROVE  src + k \in 0..Size - 1 /\ memory[src + k] = Initially[src + k]
  <2>1. src \in Nat /\ src + n <= Size /\ (dst <= src \/ src + n <= dst)
    BY <1>1 DEF Apart
  <2>2. src + k \in 0..Size - 1 /\ src + k \notin dst..dst + i - 1
    BY <1>1, <2>1
  <2>. QED  BY <1>2, <2>2
<1>4. ASSUME NEW c \in 0..Size - 1
      PROVE  (IF \E l \in 0..lanes - 1 : c = dst + i + l
              THEN Result(memory[a + (c - dst)], memory[b + (c - dst)])
              ELSE memory[c])
               = (IF c \in dst..dst + (i + lanes) - 1
                  THEN Result(Initially[a + (c - dst)], Initially[b + (c - dst)])
                  ELSE Initially[c])
  <2>1. CASE \E l \in 0..lanes - 1 : c = dst + i + l
    <3>1. c - dst \in i..n - 1 /\ c \in dst..dst + (i + lanes) - 1
      BY <1>1, <2>1
    <3>2. /\ memory[a + (c - dst)] = Initially[a + (c - dst)]
          /\ memory[b + (c - dst)] = Initially[b + (c - dst)]
      BY <1>3, <3>1
    <3>. QED  BY <2>1, <3>1, <3>2
  <2>2. CASE ~(\E l \in 0..lanes - 1 : c = dst + i + l)
    <3>1. c \notin dst + i..dst + i + lanes - 1
      <4>1. SUFFICES ASSUME c \in dst + i..dst + i + lanes - 1 PROVE FALSE
        OBVIOUS
      <4>2. c - (dst + i) \in 0..lanes - 1 /\ c = dst + i + (c - (dst + i))
        BY <1>1, <4>1
      <4>. QED  BY <2>2, <4>2
    <3>2. c \in dst..dst + (i + lanes) - 1 <=> c \in dst..dst + i - 1
      BY <1>1, <3>1
    <3>. QED  BY <1>2, <2>2, <3>2
  <2>. QED  BY <2>1, <2>2
<1>5. Stored(lanes) = [c \in 0..Size - 1 |->
                         IF \E l \in 0..lanes - 1 : c = dst + i + l
                         THEN Result(memory[a + (c - dst)], memory[b + (c - dst)])
                         ELSE memory[c]]
  BY <1>1 DEF Stored
<1>. QED  BY <1>4, <1>5 DEF StoredUpTo

LEMMA ElementsStep ==
  ASSUME SimdInv, VectorElements \/ TailElement
  PROVE  SimdInv'
<1>1. PICK lanes \in Nat \ {0} :
        /\ i + lanes <= n /\ memory' = Stored(lanes) /\ i' = i + lanes
        /\ op \in {"add", "mul"} /\ UNCHANGED <<width, op, dst, a, b, n, acc, sum>>
  <2>1. CASE VectorElements
    <3>1. width \in Nat \ {0}
      BY DEF SimdInv
    <3>. QED  BY <2>1, <3>1 DEF VectorElements, Vectors
  <2>2. CASE TailElement
    <3>1. 1 \in Nat \ {0} /\ i + 1 <= n
      BY <2>2 DEF TailElement, SimdInv
    <3>. QED  BY <2>2, <3>1 DEF TailElement
  <2>. QED  BY <2>1, <2>2
<1>2. /\ a \in Nat /\ b \in Nat /\ dst \in Nat /\ n \in Nat /\ i \in 0..n
      /\ a + n <= Size /\ b + n <= Size /\ dst + n <= Size /\ width \in Nat \ {0}
      /\ DOMAIN memory = 0..Size - 1
  BY <1>1 DEF SimdInv
<1>3. i' \in 0..n
  BY <1>1, <1>2
<1>4. DOMAIN memory' = 0..Size - 1
  BY <1>1, <1>2 DEF Stored
<1>5. Apart(a)' /\ Apart(b)' => memory' = StoredUpTo(i)'
  <2>. SUFFICES ASSUME Apart(a), Apart(b) PROVE memory' = StoredUpTo(i)'
    BY <1>1 DEF Apart
  <2>1. Stored(lanes) = StoredUpTo(i + lanes)
    BY <1>1, StoresNext
  <2>2. StoredUpTo(i)' = StoredUpTo(i + lanes)
    BY <1>1 DEF StoredUpTo, Initially, Result
  <2>. QED  BY <2>1, <2>2, <1>1
<1>. QED  BY <1>1, <1>2, <1>3, <1>4, <1>5 DEF SimdInv

LEMMA ProductsInt ==
  ASSUME SimdInv, op = "dot"
  PROVE  /\ \A k \in 0..n - 1 : /\ Products[k] \in Int
                                /\ Products[k] = memory[a + k] * memory[b + k]
         /\ width \in Nat \ {0} /\ n \in Nat /\ i \in 0..n
         /\ acc \in [0..width - 1 -> Int] /\ sum \in Int
         /\ Horizontal = SumBelow(Products, i)
<1>1. /\ a \in Nat /\ b \in Nat /\ n \in Nat /\ a + n <= Size /\ b + n <= Size
      /\ memory = Initially /\ Size \in Nat
  BY SimdAssumption DEF SimdInv
<1>2. ASSUME NEW k \in 0..n - 1
      PROVE  Products[k] \in Int /\ Products[k] = memory[a + k] * memory[b + k]
  <2>1. a + k \in 0..Size - 1 /\ b + k \in 0..Size - 1
    BY <1>1
  <2>2. Initially[a + k] \in Int /\ Initially[b + k] \in Int
    BY <2>1 DEF Initially
  <2>. HIDE DEF Initially
  <2>3. Products[k] = Initially[a + k] * Initially[b + k]
    BY DEF Products
  <2>. QED  BY <2>2, <2>3, <1>1
<1>. QED  BY <1>2 DEF SimdInv

LEMMA VectorProductsStep ==
  ASSUME SimdInv, VectorProducts
  PROVE  SimdInv'
<1>1. /\ op = "dot" /\ i + width <= n /\ i' = i + width
      /\ acc' = [l \in DOMAIN acc |-> acc[l] + memory[a + i + l] * memory[b + i + l]]
      /\ UNCHANGED <<width, memory, op, dst, a, b, n, sum>>
  BY DEF VectorProducts, Vectors
<1>2. /\ \A k \in 0..n - 1 : /\ Products[k] \in Int
                             /\ Products[k] = memory[a + k] * memory[b + k]
      /\ width \in Nat \ {0} /\ n \in Nat /\ i \in 0..n
      /\ acc \in [0..width - 1 -> Int] /\ sum \in Int
      /\ Horizontal = SumBelow(Products, i)
  BY <1>1, ProductsInt
<1>. DEFINE q == [l \in 0..width - 1 |-> Products[i + l]]
<1>3. \A l \in 0..width - 1 : q[l] \in Int /\ q[l] = Products[i + l]
                              /\ q[l] = memory[a + i + l] * memory[b + i + l]
  <2>. SUFFICES ASSUME NEW l \in 0..width - 1
                PROVE  /\ Products[i + l] \in Int
                       /\ Products[i + l] = memory[a + i + l] * memory[b + i + l]
    BY DEF q
  <2>1. i + l \in 0..n - 1 /\ a + i + l = a + (i + l) /\ b + i + l = b + (i + l)
    BY <1>1, <1>2 DEF SimdInv
  <2>. QED  BY <2>1, <1>2
<1>. HIDE DEF q
<1>4. /\ acc' \in [0..width - 1 -> Int]
      /\ \A l \in 0..width - 1 : acc'[l] = acc[l] + q[l]
  <2>1. DOMAIN acc = 0..width - 1 /\ \A l \in 0..width - 1 : acc[l] \in Int
    BY <1>2
  <2>2. acc' = [l \in 0..width - 1 |-> acc[l] + memory[a + i + l] * memory[b + i + l]]
    BY <1>1, <2>1
  <2>3. \A l \in 0..width - 1 : acc'[l] = acc[l] + q[l] /\ acc'[l] \in Int
    BY <1>3, <2>1, <2>2
  <2>. QED  BY <2>2, <2>3
<1>5. SumBelow(acc', width) = SumBelow(acc, width) + SumBelow(q, width)
  <2>1. width \in Nat
    BY <1>2
  <2>2. \A l \in 0..(width - 1) : acc[l] \in Int /\ q[l] \in Int /\ acc'[l] = acc[l] + q[l]
    BY <1>2, <1>3, <1>4
  <2>. QED  BY <2>1, <2>2, SumAdds
<1>6. SumBelow(Products, i + width) = SumBelow(Products, i) + SumBelow(q, width)
  <2>1. \A k \in 0..(i + width - 1) : Products[k] \in Int
    BY <1>1, <1>2
  <2>2. \A k \in 0..(width - 1) : q[k] = Products[i + k]
    BY <1>3
  <2>3. i \in Nat /\ width \in Nat
    BY <1>2
  <2>. QED  BY <2>1, <2>2, <2>3, SumSplits
<1>7. SumBelow(acc, width) \in Int /\ SumBelow(q, width) \in Int
  BY <1>2, <1>3, SumInt
<1>8. Horizontal' = SumBelow(Products, i + width)
  BY <1>1, <1>2, <1>5, <1>6, <1>7 DEF Horizontal
<1>9. SumBelow(Products, i)' = SumBelow(Products, i + width)
  BY <1>1 DEF Products, Initially
<1>10. i' \in 0..n
  BY <1>1, <1>2
<1>. QED  BY <1>1, <1>2, <1>4, <1>8, <1>9, <1>10 DEF SimdInv

LEMMA TailProductStep ==
  ASSUME SimdInv, TailProduct
  PROVE  SimdInv'
<1>1. /\ op = "dot" /\ i < n /\ i' = i + 1
      /\ sum' = Horizontal + memory[a + i] * memory[b + i]
      /\ acc' = NoLanes
      /\ UNCHANGED <<width, memory, op, dst, a, b, n>>
  BY DEF TailProduct
<1>2. /\ \A k \in 0..n - 1 : /\ Products[k] \in Int
                             /\ Products[k] = memory[a + k] * memory[b + k]
      /\ width \in Nat \ {0} /\ n \in Nat /\ i \in 0..n
      /\ acc \in [0..width - 1 -> Int] /\ sum \in Int
      /\ Horizontal = SumBelow(Products, i)
  BY <1>1, ProductsInt
<1>3. i \in 0..n - 1 /\ i \in Nat /\ \A k \in 0..i : k \in 0..n - 1
  BY <1>1, <1>2
<1>4. SumBelow(Products, i + 1) = SumBelow(Products, i) + Products[i]
      /\ SumBelow(Products, i) \in Int
  <2>1. \A k \in 0..i : Products[k] \in Int
    BY <1>2, <1>3
  <2>. QED  BY <2>1, <1>3, SumStep
<1>5. sum' = SumBelow(Products, i + 1) /\ sum' \in Int
  BY <1>1, <1>2, <1>3, <1>4
<1>6. SumBelow(acc', width) = 0 /\ acc' \in [0..width - 1 -> Int]
  BY <1>1, <1>2, NoLanesAddUp DEF NoLanes
<1>7. Horizontal' = SumBelow(Products, i + 1)
  BY <1>1, <1>5, <1>6 DEF Horizontal
<1>8. SumBelow(Products, i)' = SumBelow(Products, i + 1)
  BY <1>1 DEF Products, Initially
<1>9. i' \in 0..n
  BY <1>1, <1>2
<1>. QED  BY <1>1, <1>2, <1>5, <1>6, <1>7, <1>8, <1>9 DEF SimdInv

LEMMA SimdStep ==
  ASSUME SimdInv, [SimdNext]_simdVars
  PROVE  SimdInv'
<1>1. CASE \E g \in {"add", "mul"}, d, x, y \in Offsets, count \in Counts : Call(g, d, x, y, count)
  BY <1>1, SimdAssumption, CallStep
<1>2. CASE \E x, y \in Offsets, count \in Counts : Call("dot", 0, x, y, count)
  BY <1>2, CallStep
<1>3. CASE VectorElements \/ TailElement
  BY <1>3, ElementsStep
<1>4. CASE VectorProducts
  BY <1>4, VectorProductsStep
<1>5. CASE TailProduct
  BY <1>5, TailProductStep
<1>6. CASE UNCHANGED simdVars
  BY <1>6 DEF simdVars, SimdInv, Apart, StoredUpTo, Initially, Result, Horizontal, Products
<1>. QED  BY <1>1, <1>2, <1>3, <1>4, <1>5, <1>6 DEF SimdNext

(* For every width of the vectors and any overlap of the arrays, the loops have
   done what is behind them and nothing else. *)
THEOREM SimdInvariant == SimdSpec => []SimdInv
BY SimdInitEstablishes, SimdStep, PTL DEF SimdSpec

LEMMA ElementwiseHolds ==
  ASSUME SimdInv
  PROVE  ElementwiseExact
<1>. SUFFICES ASSUME op \in {"add", "mul"}, i >= n, Apart(a), Apart(b)
              PROVE  memory = [c \in DOMAIN Initially |->
                                 IF c \in dst..dst + n - 1
                                 THEN Result(Initially[a + (c - dst)], Initially[b + (c - dst)])
                                 ELSE Initially[c]]
  BY DEF ElementwiseExact
<1>1. memory = StoredUpTo(i) /\ i = n
  BY DEF SimdInv
<1>2. DOMAIN Initially = 0..Size - 1
  BY DEF Initially
<1>. QED  BY <1>1, <1>2 DEF StoredUpTo

LEMMA DotHolds ==
  ASSUME SimdInv
  PROVE  DotExact
<1>. SUFFICES ASSUME op = "dot", i >= n
              PROVE  Horizontal = SumBelow(Products, n)
  BY DEF DotExact, Products
<1>. QED  BY DEF SimdInv

(* The kernels end with what their documentation defines, for every width of the
   vectors, any number of elements and any overlap that does not begin inside a
   source. *)
THEOREM KernelsAreExact == SimdSpec => []KernelsExact
<1>1. SimdInv => KernelsExact
  BY ElementwiseHolds, DotHolds DEF KernelsExact
<1>. QED  BY <1>1, SimdInvariant, PTL

(* Simpson's rule, and rk4 where f does not depend on y, are exact for
   polynomials up to degree 3 over any interval, in any number of steps; where
   y' = rate * y, each step of rk4 multiplies y by the exponential's Taylor
   polynomial of degree 4, for any rate and step.  Both end where they should. *)
THEOREM IntegratorsAreExact == NumericalSpec => []IntegratorsExact
<1>1. NumericalInv => IntegratorsExact
  BY OrderFourHolds, EndsNearestHolds DEF IntegratorsExact
<1>. QED  BY <1>1, NumericalInvariant, PTL

-----------------------------------------------------------------------------
(* Lengths that can be halved so many times. *)

Halves2(x, k) == \E z \in Int : x = z * Power(2, k)

LEMMA PowersOfTwo ==
  ASSUME NEW k \in Nat
  PROVE  Power(2, k) \in Nat \ {0} /\ Power(2, k + 1) = 2 * Power(2, k)
<1>. DEFINE S == {j \in Nat : Power(2, j) \in Nat \ {0}}
<1>1. 0 \in S
  BY PowerStep
<1>2. ASSUME NEW j \in Nat, j \in S PROVE j + 1 \in S
  <2>1. Power(2, j + 1) = 2 * Power(2, j) /\ Power(2, j) \in Nat \ {0}
    BY <1>2, PowerStep
  <2>. QED  BY <2>1
<1>. HIDE DEF S
<1>3. Nat \subseteq S
  BY <1>1, <1>2, InductionOnSet
<1>4. Power(2, k) \in Nat \ {0}
  BY <1>3 DEF S
<1>. QED  BY <1>4, PowerStep

LEMMA HalvesCombine ==
  ASSUME NEW k \in Nat, NEW x \in Int, NEW y \in Int, Halves2(x, k), Halves2(y, k)
  PROVE  Halves2(x + y, k) /\ Halves2(x - y, k) /\ Halves2(-x, k)
<1>. DEFINE p == Power(2, k)
<1>1. PICK u \in Int : x = u * p
  BY DEF Halves2
<1>2. PICK v \in Int : y = v * p
  BY DEF Halves2
<1>3. p \in Int
  BY PowersOfTwo
<1>. HIDE DEF p
<1>4. x + y = (u + v) * p /\ x - y = (u - v) * p /\ -x = (-u) * p
  BY <1>1, <1>2, <1>3
<1>5. u + v \in Int /\ u - v \in Int /\ -u \in Int
  OBVIOUS
<1>. QED  BY <1>4, <1>5 DEF Halves2, p

LEMMA HalvesOnce ==
  ASSUME NEW k \in Nat, NEW x \in Int, Halves2(x, k + 1)
  PROVE  Halves2(x, k) /\ 2 * (x \div 2) = x /\ x \div 2 \in Int /\ Halves2(x \div 2, k)
<1>. DEFINE p == Power(2, k)
<1>1. PICK u \in Int : x = u * Power(2, k + 1)
  BY DEF Halves2
<1>2. p \in Int /\ Power(2, k + 1) = 2 * p
  BY PowersOfTwo
<1>. HIDE DEF p
<1>3. x = (2 * u) * p /\ 2 * u \in Int /\ x = 2 * (u * p) /\ u * p \in Int
  BY <1>1, <1>2
<1>. DEFINE y == u * p
<1>4. y \in Int /\ x = 2 * y
  BY <1>3
<1>5. x \div 2 = y
  <2>. HIDE DEF y
  <2>. QED  BY <1>4
<1>. QED  BY <1>3, <1>4, <1>5 DEF Halves2, p

LEMMA HalvesLess ==
  ASSUME NEW k \in Nat, NEW m \in Nat, k <= m, NEW x \in Int, Halves2(x, m)
  PROVE  Halves2(x, k)
<1>. DEFINE S == {d \in Nat : d <= m => Halves2(x, m - d)}
<1>1. 0 \in S
  <2>1. m - 0 = m
    OBVIOUS
  <2>. QED  BY <2>1
<1>2. ASSUME NEW d \in Nat, d \in S PROVE d + 1 \in S
  <2>. SUFFICES ASSUME d + 1 <= m PROVE Halves2(x, m - (d + 1))
    OBVIOUS
  <2>1. m - (d + 1) \in Nat /\ (m - (d + 1)) + 1 = m - d /\ Halves2(x, m - d)
    BY <1>2
  <2>. HIDE DEF S
  <2>2. Halves2(x, (m - (d + 1)) + 1)
    BY <2>1
  <2>. QED  BY <2>1, <2>2, HalvesOnce
<1>. HIDE DEF S
<1>3. Nat \subseteq S
  BY <1>1, <1>2, InductionOnSet
<1>4. m - k \in Nat /\ m - k <= m /\ m - (m - k) = k
  OBVIOUS
<1>5. m - k \in S
  BY <1>3, <1>4
<1>. QED  BY <1>4, <1>5 DEF S

-----------------------------------------------------------------------------
(* One constraint is relaxed. *)

Particle == [pos : Int, prev : Int, pinned : BOOLEAN]

Constraint == [a : Nat, b : Nat, rest : Nat]

Joins(c, N) == c \in Constraint /\ c.a \in 1..N /\ c.b \in 1..N /\ c.a # c.b

Excess(ps, c) ==
  Sign(ps[c.b].pos - ps[c.a].pos) * (Abs(ps[c.b].pos - ps[c.a].pos) - c.rest)

\* The ends of a constraint are where it wants them, or nothing can be done.
Satisfied(ps, c) ==
  \/ ps[c.a].pinned /\ ps[c.b].pinned
  \/ ps[c.a].pos = ps[c.b].pos
  \/ Abs(ps[c.a].pos - ps[c.b].pos) = c.rest

\* qs is ps with the ends of c moved by d and e.
Moves(ps, qs, c, N, d, e) ==
  /\ qs \in [1..N -> Particle]
  /\ \A k \in 1..N :
       /\ qs[k].prev = ps[k].prev /\ qs[k].pinned = ps[k].pinned
       /\ qs[k].pos = IF k = c.a THEN ps[k].pos + d
                      ELSE IF k = c.b THEN ps[k].pos + e ELSE ps[k].pos

Put(ps, j, x) == [ps EXCEPT ![j].pos = x]

LEMMA PutMoves ==
  ASSUME NEW N \in Nat, NEW ps \in [1..N -> Particle], NEW j \in 1..N, NEW x \in Int
  PROVE  /\ Put(ps, j, x) \in [1..N -> Particle]
         /\ \A k \in 1..N : /\ Put(ps, j, x)[k].prev = ps[k].prev
                            /\ Put(ps, j, x)[k].pinned = ps[k].pinned
                            /\ Put(ps, j, x)[k].pos = IF k = j THEN x ELSE ps[k].pos
<1>. DEFINE qs == Put(ps, j, x)
<1>1. qs = [k \in 1..N |-> IF k = j THEN [ps[j] EXCEPT !.pos = x] ELSE ps[k]]
  BY DEF Put
<1>2. ps[j] \in Particle
  OBVIOUS
<1>. DEFINE P == [ps[j] EXCEPT !.pos = x]
<1>3. P \in Particle /\ P.pos = x /\ P.prev = ps[j].prev /\ P.pinned = ps[j].pinned
  BY <1>2 DEF Particle
<1>. HIDE DEF P
<1>4. qs = [k \in 1..N |-> IF k = j THEN P ELSE ps[k]]
  BY <1>1 DEF P
<1>. HIDE DEF qs
<1>5. /\ qs \in [1..N -> Particle]
      /\ \A k \in 1..N : /\ qs[k].prev = ps[k].prev /\ qs[k].pinned = ps[k].pinned
                         /\ qs[k].pos = IF k = j THEN x ELSE ps[k].pos
  BY <1>3, <1>4
<1>. QED  BY <1>5 DEF qs

LEMMA RelaxMoves ==
  ASSUME NEW N \in Nat, NEW ps \in [1..N -> Particle], NEW c, Joins(c, N)
  PROVE  /\ Excess(ps, c) \in Int /\ Excess(ps, c) \div 2 \in Int
         /\ ps[c.a].pos \in Int /\ ps[c.b].pos \in Int
         /\ \/ /\ ps[c.a].pos = ps[c.b].pos \/ (ps[c.a].pinned /\ ps[c.b].pinned)
               /\ Relax(ps, c) = ps
            \/ /\ ~ps[c.a].pinned /\ ~ps[c.b].pinned
               /\ Moves(ps, Relax(ps, c), c, N, Excess(ps, c) \div 2, -(Excess(ps, c) \div 2))
            \/ /\ ~ps[c.a].pinned /\ ps[c.b].pinned
               /\ Moves(ps, Relax(ps, c), c, N, Excess(ps, c), 0)
            \/ /\ ps[c.a].pinned /\ ~ps[c.b].pinned
               /\ Moves(ps, Relax(ps, c), c, N, 0, -Excess(ps, c))
<1>. DEFINE j == c.a
            k == c.b
            x == ps[j].pos
            y == ps[k].pos
            E == Excess(ps, c)
            h == E \div 2
<1>1. j \in 1..N /\ k \in 1..N /\ j # k /\ c.rest \in Int
  BY DEF Joins, Constraint
<1>2. x \in Int /\ y \in Int /\ ps[j].pinned \in BOOLEAN /\ ps[k].pinned \in BOOLEAN
  BY <1>1 DEF Particle
<1>3. E \in Int /\ h \in Int
  <2>1. Abs(y - x) \in Int /\ Sign(y - x) \in Int
    BY <1>2 DEF Abs, Sign
  <2>2. E = Sign(y - x) * (Abs(y - x) - c.rest)
    BY DEF Excess
  <2>3. E \in Int
    <3>. HIDE DEF E, x, y
    <3>. QED  BY <2>1, <2>2, <1>1
  <2>. HIDE DEF E
  <2>. QED  BY <2>3
<1>4. Relax(ps, c) =
        IF y - x = 0 THEN ps
        ELSE CASE ~ps[j].pinned /\ ~ps[k].pinned ->
                    [ps EXCEPT ![j].pos = @ + h, ![k].pos = @ - h]
               [] ~ps[j].pinned /\ ps[k].pinned -> [ps EXCEPT ![j].pos = @ + E]
               [] ps[j].pinned /\ ~ps[k].pinned -> [ps EXCEPT ![k].pos = @ - E]
               [] OTHER -> ps
  BY DEF Relax, Excess
<1>. HIDE DEF E, h
<1>5. CASE y - x = 0 \/ (ps[j].pinned /\ ps[k].pinned)
  <2>1. Relax(ps, c) = ps
    BY <1>4, <1>5
  <2>2. x = y \/ (ps[j].pinned /\ ps[k].pinned)
    <3>. HIDE DEF x, y
    <3>. QED  BY <1>2, <1>5
  <2>. QED  BY <2>1, <2>2, <1>2, <1>3 DEF E, h
<1>6. CASE ~(y - x = 0) /\ ~ps[j].pinned /\ ~ps[k].pinned
  <2>1. Relax(ps, c) = [ps EXCEPT ![j].pos = @ + h, ![k].pos = @ - h]
    BY <1>4, <1>6
  <2>. DEFINE os == Put(ps, j, x + h)
  <2>2. /\ os \in [1..N -> Particle]
        /\ \A l \in 1..N : /\ os[l].prev = ps[l].prev /\ os[l].pinned = ps[l].pinned
                           /\ os[l].pos = IF l = j THEN x + h ELSE ps[l].pos
    <3>1. x + h \in Int
      BY <1>2, <1>3
    <3>. HIDE DEF x, j
    <3>. QED  BY <3>1, <1>1, PutMoves
  <2>3. Relax(ps, c) = Put(os, k, y - h)
    BY <2>1, <1>1 DEF Put
  <2>. HIDE DEF os
  <2>4. /\ Relax(ps, c) \in [1..N -> Particle]
        /\ \A l \in 1..N : /\ Relax(ps, c)[l].prev = os[l].prev
                           /\ Relax(ps, c)[l].pinned = os[l].pinned
                           /\ Relax(ps, c)[l].pos = IF l = k THEN y - h ELSE os[l].pos
    <3>. HIDE DEF x, y, j, k
    <3>1. y - h \in Int
      BY <1>2, <1>3
    <3>2. /\ Put(os, k, y - h) \in [1..N -> Particle]
          /\ \A l \in 1..N : /\ Put(os, k, y - h)[l].prev = os[l].prev
                             /\ Put(os, k, y - h)[l].pinned = os[l].pinned
                             /\ Put(os, k, y - h)[l].pos = IF l = k THEN y - h ELSE os[l].pos
      <4>1. os \in [1..N -> Particle] /\ k \in 1..N
        BY <2>2, <1>1
      <4>. QED  BY <3>1, <4>1, PutMoves
    <3>. QED  BY <3>2, <2>3
  <2>5. y - h = y + (-h)
    BY <1>2, <1>3
  <2>6. Moves(ps, Relax(ps, c), c, N, h, -h)
    BY <2>2, <2>4, <2>5, <1>1 DEF Moves
  <2>. QED  BY <2>6, <1>2, <1>3, <1>6 DEF E, h
<1>7. CASE ~(y - x = 0) /\ ~ps[j].pinned /\ ps[k].pinned
  <2>1. Relax(ps, c) = Put(ps, j, x + E)
    BY <1>4, <1>7, <1>1 DEF Put
  <2>2. /\ Relax(ps, c) \in [1..N -> Particle]
        /\ \A l \in 1..N : /\ Relax(ps, c)[l].prev = ps[l].prev
                           /\ Relax(ps, c)[l].pinned = ps[l].pinned
                           /\ Relax(ps, c)[l].pos = IF l = j THEN x + E ELSE ps[l].pos
    <3>1. x + E \in Int
      BY <1>2, <1>3
    <3>. HIDE DEF x, j
    <3>2. /\ Put(ps, j, x + E) \in [1..N -> Particle]
          /\ \A l \in 1..N : /\ Put(ps, j, x + E)[l].prev = ps[l].prev
                             /\ Put(ps, j, x + E)[l].pinned = ps[l].pinned
                             /\ Put(ps, j, x + E)[l].pos = IF l = j THEN x + E ELSE ps[l].pos
      BY <3>1, <1>1, PutMoves
    <3>. QED  BY <3>2, <2>1
  <2>3. y + 0 = y
    BY <1>2
  <2>4. Moves(ps, Relax(ps, c), c, N, E, 0)
    BY <2>2, <2>3, <1>1 DEF Moves
  <2>. QED  BY <2>4, <1>2, <1>3, <1>7 DEF E, h
<1>8. CASE ~(y - x = 0) /\ ps[j].pinned /\ ~ps[k].pinned
  <2>1. Relax(ps, c) = Put(ps, k, y - E)
    BY <1>4, <1>8, <1>1 DEF Put
  <2>2. /\ Relax(ps, c) \in [1..N -> Particle]
        /\ \A l \in 1..N : /\ Relax(ps, c)[l].prev = ps[l].prev
                           /\ Relax(ps, c)[l].pinned = ps[l].pinned
                           /\ Relax(ps, c)[l].pos = IF l = k THEN y - E ELSE ps[l].pos
    <3>1. y - E \in Int
      BY <1>2, <1>3
    <3>. HIDE DEF y, k
    <3>2. /\ Put(ps, k, y - E) \in [1..N -> Particle]
          /\ \A l \in 1..N : /\ Put(ps, k, y - E)[l].prev = ps[l].prev
                             /\ Put(ps, k, y - E)[l].pinned = ps[l].pinned
                             /\ Put(ps, k, y - E)[l].pos = IF l = k THEN y - E ELSE ps[l].pos
      BY <3>1, <1>1, PutMoves
    <3>. QED  BY <3>2, <2>1
  <2>3. x + 0 = x /\ y - E = y + (-E)
    BY <1>2, <1>3
  <2>4. Moves(ps, Relax(ps, c), c, N, 0, -E)
    BY <2>2, <2>3, <1>1 DEF Moves
  <2>. QED  BY <2>4, <1>2, <1>3, <1>8 DEF E, h
<1>. QED  BY <1>2, <1>5, <1>6, <1>7, <1>8

LEMMA RelaxKeeps ==
  ASSUME NEW N \in Nat, NEW ps \in [1..N -> Particle], NEW c, Joins(c, N)
  PROVE  /\ Relax(ps, c) \in [1..N -> Particle]
         /\ \A k \in 1..N : /\ Relax(ps, c)[k].prev = ps[k].prev
                            /\ Relax(ps, c)[k].pinned = ps[k].pinned
                            /\ ps[k].pinned => Relax(ps, c)[k].pos = ps[k].pos
<1>. DEFINE qs == Relax(ps, c)
<1>1. \/ qs = ps
      \/ \E d, e \in Int : /\ Moves(ps, qs, c, N, d, e)
                           /\ ps[c.a].pinned => d = 0
                           /\ ps[c.b].pinned => e = 0
  <2>1. /\ Excess(ps, c) \in Int /\ Excess(ps, c) \div 2 \in Int
        /\ \/ qs = ps
           \/ /\ ~ps[c.a].pinned /\ ~ps[c.b].pinned
              /\ Moves(ps, qs, c, N, Excess(ps, c) \div 2, -(Excess(ps, c) \div 2))
           \/ ~ps[c.a].pinned /\ Moves(ps, qs, c, N, Excess(ps, c), 0)
              /\ ps[c.b].pinned
           \/ ~ps[c.b].pinned /\ Moves(ps, qs, c, N, 0, -Excess(ps, c))
              /\ ps[c.a].pinned
    BY RelaxMoves
  <2>. DEFINE E == Excess(ps, c)
              h == E \div 2
  <2>. HIDE DEF qs, E, h
  <2>2. E \in Int /\ h \in Int /\ -E \in Int /\ -h \in Int /\ 0 \in Int
    BY <2>1 DEF E, h
  <2>3. CASE ~ps[c.a].pinned /\ ~ps[c.b].pinned /\ Moves(ps, qs, c, N, h, -h)
    BY <2>2, <2>3
  <2>4. CASE ~ps[c.a].pinned /\ Moves(ps, qs, c, N, E, 0)
    BY <2>2, <2>4
  <2>5. CASE ~ps[c.b].pinned /\ Moves(ps, qs, c, N, 0, -E)
    BY <2>2, <2>5
  <2>. QED  BY <2>1, <2>3, <2>4, <2>5 DEF E, h
<1>. HIDE DEF qs
<1>2. /\ qs \in [1..N -> Particle]
      /\ \A k \in 1..N : /\ qs[k].prev = ps[k].prev /\ qs[k].pinned = ps[k].pinned
                         /\ ps[k].pinned => qs[k].pos = ps[k].pos
  <2>1. CASE qs = ps
    BY <2>1
  <2>2. ASSUME NEW d \in Int, NEW e \in Int, Moves(ps, qs, c, N, d, e),
               ps[c.a].pinned => d = 0, ps[c.b].pinned => e = 0
        PROVE  /\ qs \in [1..N -> Particle]
               /\ \A k \in 1..N : /\ qs[k].prev = ps[k].prev /\ qs[k].pinned = ps[k].pinned
                                  /\ ps[k].pinned => qs[k].pos = ps[k].pos
    <3>1. \A k \in 1..N : ps[k].pos \in Int
      BY DEF Particle
    <3>2. \A k \in 1..N : ps[k].pos + 0 = ps[k].pos
      BY <3>1
    <3>. QED  BY <2>2, <3>2 DEF Moves
  <2>. QED  BY <1>1, <2>1, <2>2
<1>. QED  BY <1>2 DEF qs

\* Velocities(ps) for a sequence ps of N particles.
Speeds(ps, N) == [k \in 0..N - 1 |-> ps[k + 1].pos - ps[k + 1].prev]

LEMMA MovesSum ==
  ASSUME NEW N \in Nat, NEW ps \in [1..N -> Particle], NEW qs, NEW c, Joins(c, N),
         NEW d \in Int, NEW e \in Int, d + e = 0, Moves(ps, qs, c, N, d, e)
  PROVE  SumBelow(Speeds(qs, N), N) = SumBelow(Speeds(ps, N), N)
<1>. DEFINE u == Speeds(ps, N)
            w == Speeds(qs, N)
            v == [k \in 0..(N - 1) |-> IF k = c.a - 1 THEN u[k] + d ELSE u[k]]
<1>1. c.a \in 1..N /\ c.b \in 1..N /\ c.a # c.b
  BY DEF Joins
<1>2. \A k \in 0..(N - 1) : u[k] = ps[k + 1].pos - ps[k + 1].prev /\ u[k] \in Int
  <2>. SUFFICES ASSUME NEW k \in 0..(N - 1)
                PROVE  u[k] = ps[k + 1].pos - ps[k + 1].prev /\ u[k] \in Int
    OBVIOUS
  <2>1. k + 1 \in 1..N
    OBVIOUS
  <2>2. ps[k + 1].pos \in Int /\ ps[k + 1].prev \in Int
    BY <2>1 DEF Particle
  <2>. QED  BY <2>2 DEF Speeds
<1>3. \A k \in 0..(N - 1) :
        w[k] = u[k] + (IF k = c.a - 1 THEN d ELSE IF k = c.b - 1 THEN e ELSE 0)
  <2>. SUFFICES ASSUME NEW k \in 0..(N - 1)
                PROVE  w[k] = u[k] + (IF k = c.a - 1 THEN d ELSE IF k = c.b - 1 THEN e ELSE 0)
    OBVIOUS
  <2>. DEFINE l == k + 1
  <2>1. l \in 1..N /\ (l = c.a <=> k = c.a - 1) /\ (l = c.b <=> k = c.b - 1)
    BY <1>1
  <2>2. ps[l].pos \in Int /\ ps[l].prev \in Int
    BY <2>1 DEF Particle
  <2>3. w[k] = qs[l].pos - qs[l].prev /\ u[k] = ps[l].pos - ps[l].prev
    BY DEF Speeds
  <2>. HIDE DEF l, u, w
  <2>4. /\ qs[l].prev = ps[l].prev
        /\ qs[l].pos = IF l = c.a THEN ps[l].pos + d
                       ELSE IF l = c.b THEN ps[l].pos + e ELSE ps[l].pos
    BY <2>1 DEF Moves
  <2>. QED  BY <2>1, <2>2, <2>3, <2>4
<1>. HIDE DEF u, w
<1>4. \A k \in 0..(N - 1) : v[k] \in Int /\ v[k] = IF k = c.a - 1 THEN u[k] + d ELSE u[k]
  BY <1>2
<1>5. \A k \in 0..(N - 1) : w[k] = IF k = c.b - 1 THEN v[k] + e ELSE v[k]
  BY <1>1, <1>2, <1>3, <1>4
<1>. HIDE DEF v
<1>6. SumBelow(v, N) = SumBelow(u, N) + d
  <2>. DEFINE j == c.a - 1
  <2>1. j \in 0..(N - 1)
    BY <1>1
  <2>2. ChangedBy(v, u, N, j, d)
    BY <1>2, <1>4 DEF ChangedBy
  <2>. HIDE DEF j
  <2>. QED  BY <2>1, <2>2, SumChanges
<1>7. SumBelow(w, N) = SumBelow(v, N) + e
  <2>. DEFINE j == c.b - 1
  <2>1. j \in 0..(N - 1)
    BY <1>1
  <2>2. ChangedBy(w, v, N, j, e)
    BY <1>4, <1>5 DEF ChangedBy
  <2>. HIDE DEF j
  <2>. QED  BY <2>1, <2>2, SumChanges
<1>8. SumBelow(u, N) \in Int
  BY <1>2, SumInt
<1>. QED  BY <1>6, <1>7, <1>8 DEF u, w

LEMMA RelaxSum ==
  ASSUME NEW N \in Nat, NEW ps \in [1..N -> Particle], NEW c, Joins(c, N),
         \A k \in 1..N : ~ps[k].pinned
  PROVE  SumBelow(Speeds(Relax(ps, c), N), N) = SumBelow(Speeds(ps, N), N)
<1>. DEFINE h == Excess(ps, c) \div 2
<1>1. ~ps[c.a].pinned /\ ~ps[c.b].pinned
  BY DEF Joins
<1>2. h \in Int /\ (Relax(ps, c) = ps \/ Moves(ps, Relax(ps, c), c, N, h, -h))
  BY <1>1, RelaxMoves
<1>. HIDE DEF h
<1>3. -h \in Int /\ h + (-h) = 0
  BY <1>2
<1>. QED  BY <1>2, <1>3, MovesSum

LEMMA RelaxHalves ==
  ASSUME NEW N \in Nat, NEW ps \in [1..N -> Particle], NEW c, Joins(c, N), NEW k \in Nat,
         \A l \in 1..N : Halves2(ps[l].pos, k + 1), Halves2(c.rest, k + 1)
  PROVE  /\ \A l \in 1..N : Halves2(Relax(ps, c)[l].pos, k)
         /\ Satisfied(Relax(ps, c), c)
<1>. DEFINE x == ps[c.a].pos
            y == ps[c.b].pos
            E == Excess(ps, c)
            h == E \div 2
            qs == Relax(ps, c)
<1>1. /\ c.a \in 1..N /\ c.b \in 1..N /\ c.a # c.b /\ c.rest \in Nat
      /\ x \in Int /\ y \in Int /\ E \in Int /\ h \in Int
      /\ ps[c.a].pinned \in BOOLEAN /\ ps[c.b].pinned \in BOOLEAN
  BY RelaxMoves DEF Joins, Constraint, Particle
<1>2. \/ (x = y \/ (ps[c.a].pinned /\ ps[c.b].pinned)) /\ qs = ps
      \/ Moves(ps, qs, c, N, h, -h)
      \/ Moves(ps, qs, c, N, E, 0)
      \/ Moves(ps, qs, c, N, 0, -E)
  BY RelaxMoves
<1>3. E = Sign(y - x) * (Abs(y - x) - c.rest)
  BY DEF Excess
<1>. HIDE DEF x, y, E, h, qs
<1>4. \A l \in 1..N : ps[l].pos \in Int /\ Halves2(ps[l].pos, k)
  <2>1. \A l \in 1..N : ps[l].pos \in Int
    BY DEF Particle
  <2>. QED  BY <2>1, HalvesOnce
<1>5. Halves2(E, k + 1)
  <2>1. k + 1 \in Nat /\ Halves2(x, k + 1) /\ Halves2(y, k + 1) /\ c.rest \in Int
    BY <1>1 DEF x, y
  <2>2. Halves2(y - x, k + 1) /\ Halves2(x - y, k + 1)
    BY <2>1, <1>1, HalvesCombine
  <2>3. y - x \in Int /\ x - y \in Int
    BY <1>1
  <2>4. Halves2((y - x) - c.rest, k + 1) /\ Halves2((x - y) - c.rest, k + 1)
    BY <2>1, <2>2, <2>3, HalvesCombine
  <2>5. Halves2(-((x - y) - c.rest), k + 1)
    <3>1. (x - y) - c.rest \in Int
      BY <2>1, <2>3
    <3>. QED  BY <3>1, <2>1, <2>4, HalvesCombine
  <2>6. E = (y - x) - c.rest \/ E = -((x - y) - c.rest)
    BY <1>1, <1>3 DEF Abs, Sign
  <2>. QED  BY <2>4, <2>5, <2>6
<1>6. Halves2(E, k) /\ Halves2(h, k) /\ 2 * h = E
  BY <1>1, <1>5, HalvesOnce DEF h
<1>7. Halves2(-E, k) /\ Halves2(-h, k) /\ Halves2(0, k)
  <2>1. Halves2(E - E, k) /\ E - E = 0
    BY <1>1, <1>6, HalvesCombine
  <2>. QED  BY <2>1, <1>1, <1>6, HalvesCombine
<1>8. ASSUME NEW d \in Int, NEW e \in Int, Moves(ps, qs, c, N, d, e),
             Halves2(d, k), Halves2(e, k), d - e = E
      PROVE  /\ \A l \in 1..N : Halves2(qs[l].pos, k)
             /\ Satisfied(qs, c)
  <2>1. ASSUME NEW l \in 1..N PROVE Halves2(qs[l].pos, k)
    <3>1. Halves2(ps[l].pos + d, k) /\ Halves2(ps[l].pos + e, k) /\ Halves2(ps[l].pos, k)
      BY <1>4, <1>8, HalvesCombine
    <3>2. qs[l].pos = ps[l].pos + d \/ qs[l].pos = ps[l].pos + e \/ qs[l].pos = ps[l].pos
      BY <1>8 DEF Moves
    <3>. QED  BY <3>1, <3>2
  <2>2. qs[c.a].pos = x + d /\ qs[c.b].pos = y + e
    BY <1>1, <1>8 DEF Moves, x, y
  <2>3. (x + d) - (y + e) = (x - y) + E /\ c.rest \in Int /\ c.rest >= 0
    BY <1>1, <1>8
  <2>4. ASSUME y - x < 0 PROVE Abs((x + d) - (y + e)) = c.rest
    <3>1. Sign(y - x) = -1 /\ Abs(y - x) = x - y
      BY <1>1, <2>4 DEF Sign, Abs
    <3>2. E = c.rest - (x - y)
      BY <1>1, <1>3, <3>1
    <3>3. (x + d) - (y + e) = c.rest
      BY <1>1, <2>3, <3>2
    <3>. QED  BY <2>3, <3>3 DEF Abs
  <2>5. ASSUME ~(y - x < 0) PROVE Abs((x + d) - (y + e)) = c.rest
    <3>1. Sign(y - x) = 1 /\ Abs(y - x) = y - x
      BY <1>1, <2>5 DEF Sign, Abs
    <3>2. E = (y - x) - c.rest
      BY <1>1, <1>3, <3>1
    <3>3. (x + d) - (y + e) = -c.rest
      BY <1>1, <2>3, <3>2
    <3>. QED  BY <2>3, <3>3 DEF Abs
  <2>6. Abs((x + d) - (y + e)) = c.rest
    BY <2>4, <2>5
  <2>. QED  BY <2>1, <2>2, <2>6 DEF Satisfied
<1>9. CASE Moves(ps, qs, c, N, h, -h)
  <2>1. -h \in Int /\ h - (-h) = E
    BY <1>1, <1>6
  <2>. QED  BY <2>1, <1>1, <1>6, <1>7, <1>8, <1>9 DEF qs
<1>10. CASE Moves(ps, qs, c, N, E, 0)
  <2>1. E - 0 = E /\ 0 \in Int
    BY <1>1
  <2>. QED  BY <2>1, <1>1, <1>6, <1>7, <1>8, <1>10 DEF qs
<1>11. CASE Moves(ps, qs, c, N, 0, -E)
  <2>1. 0 - (-E) = E /\ 0 \in Int /\ -E \in Int
    BY <1>1
  <2>. QED  BY <2>1, <1>1, <1>6, <1>7, <1>8, <1>11 DEF qs
<1>12. CASE (x = y \/ (ps[c.a].pinned /\ ps[c.b].pinned)) /\ qs = ps
  BY <1>4, <1>12 DEF Satisfied, x, y, qs
<1>. QED  BY <1>2, <1>9, <1>10, <1>11, <1>12

-----------------------------------------------------------------------------
(* The constraints are relaxed in turn. *)

Turn(k, L) == ((k - 1) % L) + 1

LEMMA TurnInRange ==
  ASSUME NEW L \in Nat \ {0}, NEW k \in Nat \ {0}
  PROVE  Turn(k, L) \in 1..L
<1>1. (k - 1) % L \in 0..(L - 1)
  OBVIOUS
<1>. QED  BY <1>1 DEF Turn

\* After so many rounds it was the last one's turn.
LEMMA LastTurn ==
  ASSUME NEW L \in Nat \ {0}, NEW q \in Nat \ {0}
  PROVE  q * L \in Nat \ {0} /\ Turn(q * L, L) = L
<1>. DEFINE x == q * L - 1
            d == x \div L
            r == x % L
<1>1. q * L \in Nat /\ q * L >= L
  OBVIOUS
<1>2. x \in Nat
  BY <1>1
<1>3. d \in Int /\ r \in 0..(L - 1) /\ x = L * d + r
  <2>. HIDE DEF x
  <2>. QED  BY <1>2
<1>4. L * (q - d) = r + 1 /\ q - d \in Int
  <2>1. L * (q - d) = L * q - L * d
    <3>. HIDE DEF d
    <3>. QED  BY <1>3
  <2>2. L * q = x + 1
    BY <1>1
  <2>3. L * d \in Int
    BY <1>3
  <2>. HIDE DEF x, d, r
  <2>. QED  BY <1>2, <1>3, <2>1, <2>2, <2>3
<1>5. q - d = 1
  <2>. DEFINE e == q - d
  <2>1. e \in Int /\ L * e = r + 1 /\ r + 1 \in 1..L
    BY <1>3, <1>4
  <2>. HIDE DEF e, r
  <2>2. e > 0
    BY <2>1
  <2>3. e < 2
    <3>. SUFFICES ASSUME e >= 2 PROVE FALSE
      BY <2>1
    <3>1. L * e >= L * 2
      BY <2>1
    <3>. QED  BY <2>1, <3>1
  <2>4. e = 1
    BY <2>1, <2>2, <2>3
  <2>. QED  BY <2>4 DEF e
<1>6. r = L - 1
  <2>. HIDE DEF r, d
  <2>. QED  BY <1>3, <1>4, <1>5
<1>. QED  BY <1>1, <1>6 DEF Turn

IsRelaxed(r, ps, cs, count) ==
  r = [k \in 0..count |-> IF k = 0 THEN ps ELSE Relax(r[k - 1], cs[Turn(k, Len(cs))])]

Relaxed(ps, cs, count) == CHOOSE r : IsRelaxed(r, ps, cs, count)

LEMMA RelaxTimesIs ==
  ASSUME NEW ps, NEW cs, NEW count
  PROVE  RelaxTimes(ps, cs, count) = Relaxed(ps, cs, count)[count]
BY DEF RelaxTimes, Relaxed, IsRelaxed, Turn

LEMMA RelaxedExists ==
  ASSUME NEW N \in Nat, NEW ps \in [1..N -> Particle], NEW cs, Len(cs) \in Nat \ {0},
         \A j \in 1..Len(cs) : Joins(cs[j], N), NEW count \in Nat
  PROVE  \E r : IsRelaxed(r, ps, cs, count)
<1>. DEFINE X == [1..N -> Particle]
            L == Len(cs)
            G == [q \in (1..count) \X X |-> Relax(q[2], cs[Turn(q[1], L)])]
<1>1. ASSUME NEW k \in 1..count, NEW x \in X
      PROVE  Relax(x, cs[Turn(k, L)]) \in X
  <2>1. Turn(k, L) \in 1..L
    <3>1. k \in Nat \ {0}
      OBVIOUS
    <3>. QED  BY <3>1, TurnInRange
  <2>2. Joins(cs[Turn(k, L)], N)
    BY <2>1
  <2>. QED  BY <2>2, RelaxKeeps
<1>2. G \in [(1..count) \X X -> X]
  <2>1. \A q \in (1..count) \X X : q[1] \in 1..count /\ q[2] \in X
    OBVIOUS
  <2>. HIDE DEF X
  <2>. QED  BY <2>1, <1>1
<1>3. ASSUME NEW k \in 1..count, NEW x \in X
      PROVE  G[<<k, x>>] = Relax(x, cs[Turn(k, L)])
  <2>1. <<k, x>> \in (1..count) \X X
    OBVIOUS
  <2>. QED  BY <2>1
<1>. HIDE DEF G
<1>4. PICK g \in [0..count -> X] : g[0] = ps /\ Recurs(g, G, count)
  <2>1. ps \in X
    OBVIOUS
  <2>. HIDE DEF X
  <2>. QED  BY <1>2, <2>1, RecursionExists, Zenon
<1>. HIDE DEF X
<1>5. g = [k \in 0..count |-> g[k]]
  BY <1>4
<1>6. ASSUME NEW k \in 0..count
      PROVE  g[k] = IF k = 0 THEN ps ELSE Relax(g[k - 1], cs[Turn(k, L)])
  <2>1. CASE k = 0
    BY <2>1, <1>4
  <2>2. CASE k # 0
    <3>1. k \in 1..count /\ k - 1 \in 0..count /\ g[k - 1] \in X
      BY <2>2, <1>4
    <3>2. g[k] = G[<<k, g[k - 1]>>]
      BY <3>1, <1>4 DEF Recurs
    <3>. QED  BY <3>1, <3>2, <1>3, <2>2
  <2>. QED  BY <2>1, <2>2
<1>. QED  BY <1>5, <1>6 DEF IsRelaxed

\* What no relaxation of ps may change.
Kept(ps, qs, N) ==
  /\ qs \in [1..N -> Particle]
  /\ \A k \in 1..N : /\ qs[k].prev = ps[k].prev /\ qs[k].pinned = ps[k].pinned
                     /\ ps[k].pinned => qs[k].pos = ps[k].pos
  /\ (\A k \in 1..N : ~ps[k].pinned) =>
       SumBelow(Speeds(qs, N), N) = SumBelow(Speeds(ps, N), N)

AllHalve(ps, N, k) == \A l \in 1..N : Halves2(ps[l].pos, k)

LEMMA KeptOnce ==
  ASSUME NEW N \in Nat, NEW ps \in [1..N -> Particle], NEW qs, Kept(ps, qs, N),
         NEW c, Joins(c, N)
  PROVE  Kept(ps, Relax(qs, c), N)
<1>. DEFINE os == Relax(qs, c)
<1>1. qs \in [1..N -> Particle]
  BY DEF Kept
<1>2. /\ os \in [1..N -> Particle]
      /\ \A k \in 1..N : /\ os[k].prev = qs[k].prev /\ os[k].pinned = qs[k].pinned
                         /\ qs[k].pinned => os[k].pos = qs[k].pos
  BY <1>1, RelaxKeeps
<1>3. (\A k \in 1..N : ~qs[k].pinned) =>
        SumBelow(Speeds(os, N), N) = SumBelow(Speeds(qs, N), N)
  BY <1>1, RelaxSum
<1>. HIDE DEF os
<1>4. Kept(ps, os, N)
  BY <1>2, <1>3 DEF Kept
<1>. QED  BY <1>4 DEF os

LEMMA RelaxTimesKeeps ==
  ASSUME NEW N \in Nat, NEW ps \in [1..N -> Particle], NEW cs, Len(cs) \in Nat \ {0},
         NEW K \in Nat, NEW count \in Nat, AllHalve(ps, N, K + count),
         \A j \in 1..Len(cs) : Joins(cs[j], N) /\ Halves2(cs[j].rest, K + count)
  PROVE  LET qs == RelaxTimes(ps, cs, count) IN
         /\ Kept(ps, qs, N)
         /\ AllHalve(qs, N, K)
         /\ count > 0 => Satisfied(qs, cs[Turn(count, Len(cs))])
<1>. DEFINE L == Len(cs)
            r == Relaxed(ps, cs, count)
<1>1. IsRelaxed(r, ps, cs, count)
  BY RelaxedExists, Zenon DEF Relaxed
<1>. HIDE DEF r
<1>2. r[0] = ps /\ \A k \in 1..count : r[k] = Relax(r[k - 1], cs[Turn(k, L)])
  BY <1>1 DEF IsRelaxed
<1>. DEFINE S == {k \in Nat : k <= count => /\ Kept(ps, r[k], N)
                                            /\ AllHalve(r[k], N, K + (count - k))}
<1>3. 0 \in S
  <2>1. Kept(ps, ps, N)
    BY DEF Kept
  <2>2. K + (count - 0) = K + count
    OBVIOUS
  <2>. QED  BY <1>2, <2>1, <2>2
<1>4. ASSUME NEW k \in Nat, k + 1 <= count,
             Kept(ps, r[k], N), AllHalve(r[k], N, K + (count - k))
      PROVE  /\ Kept(ps, r[k + 1], N)
             /\ AllHalve(r[k + 1], N, K + (count - (k + 1)))
             /\ Satisfied(r[k + 1], cs[Turn(k + 1, L)])
  <2>. DEFINE c == cs[Turn(k + 1, L)]
              m == K + (count - (k + 1))
  <2>1. k + 1 \in 1..count /\ (k + 1) - 1 = k /\ k + 1 \in Nat \ {0}
        /\ m \in Nat /\ m + 1 = K + (count - k) /\ m + 1 <= K + count /\ m + 1 \in Nat
        /\ K + count \in Nat
    <3>1. k \in Nat /\ K \in Nat /\ count \in Nat /\ k + 1 <= count
      BY <1>4
    <3>2. k + 1 \in 1..count /\ (k + 1) - 1 = k /\ k + 1 \in Nat \ {0}
      BY <3>1
    <3>3. m \in Nat /\ m + 1 = K + (count - k)
      BY <3>1
    <3>. HIDE DEF m
    <3>. QED  BY <3>1, <3>2, <3>3
  <2>2. r[k + 1] = Relax(r[k], c)
    BY <1>2, <2>1
  <2>3. Turn(k + 1, L) \in 1..L
    BY <2>1, TurnInRange
  <2>4. Joins(c, N) /\ Halves2(c.rest, K + count) /\ c.rest \in Int
    BY <2>3 DEF Joins, Constraint
  <2>. HIDE DEF m, c
  <2>5. Halves2(c.rest, m + 1)
    BY <2>1, <2>4, HalvesLess
  <2>6. r[k] \in [1..N -> Particle] /\ \A l \in 1..N : Halves2(r[k][l].pos, m + 1)
    BY <1>4, <2>1 DEF Kept, AllHalve
  <2>7. /\ \A l \in 1..N : Halves2(Relax(r[k], c)[l].pos, m)
        /\ Satisfied(Relax(r[k], c), c)
    BY <2>1, <2>4, <2>5, <2>6, RelaxHalves
  <2>8. Kept(ps, Relax(r[k], c), N)
    BY <1>4, <2>4, KeptOnce
  <2>. QED  BY <2>2, <2>7, <2>8 DEF AllHalve, m, c
<1>5. ASSUME NEW k \in Nat, k \in S PROVE k + 1 \in S
  <2>. SUFFICES ASSUME k + 1 <= count
                PROVE  Kept(ps, r[k + 1], N) /\ AllHalve(r[k + 1], N, K + (count - (k + 1)))
    OBVIOUS
  <2>1. Kept(ps, r[k], N) /\ AllHalve(r[k], N, K + (count - k))
    BY <1>5
  <2>. QED  BY <2>1, <1>4
<1>. HIDE DEF S
<1>6. Nat \subseteq S
  BY <1>3, <1>5, InductionOnSet
<1>7. Kept(ps, r[count], N) /\ AllHalve(r[count], N, K)
  <2>1. count \in S /\ count <= count /\ K + (count - count) = K
    BY <1>6
  <2>. QED  BY <2>1 DEF S
<1>8. ASSUME count > 0 PROVE Satisfied(r[count], cs[Turn(count, L)])
  <2>. DEFINE k == count - 1
  <2>1. k \in Nat /\ k + 1 = count /\ k + 1 <= count /\ k <= count /\ k \in S
    BY <1>6, <1>8
  <2>. HIDE DEF k
  <2>2. Kept(ps, r[k], N) /\ AllHalve(r[k], N, K + (count - k))
    BY <2>1 DEF S
  <2>3. Satisfied(r[k + 1], cs[Turn(k + 1, L)])
    BY <2>1, <2>2, <1>4
  <2>. QED  BY <2>1, <2>3
<1>9. RelaxTimes(ps, cs, count) = r[count]
  BY RelaxTimesIs DEF r
<1>. QED  BY <1>7, <1>8, <1>9

LEMMA NoRelaxation ==
  ASSUME NEW ps, NEW cs
  PROVE  RelaxTimes(ps, cs, 0) = ps
<1>1. IsRelaxed([k \in 0..0 |-> ps], ps, cs, 0)
  BY DEF IsRelaxed
<1>2. IsRelaxed(Relaxed(ps, cs, 0), ps, cs, 0)
  BY <1>1, Zenon DEF Relaxed
<1>. DEFINE r == Relaxed(ps, cs, 0)
<1>. HIDE DEF r
<1>3. r[0] = ps
  BY <1>2 DEF IsRelaxed, r
<1>. QED  BY <1>3, RelaxTimesIs DEF r

-----------------------------------------------------------------------------
(* PhysicsWorld: the invariant of its specification. *)

\* The halvings that a world may still have ahead after so many steps.
Left(s) == (MaxSteps - s) * MaxPerStep

WorldInv ==
  /\ particles_ \in Seq(Particle)
  /\ constraints_ \in Seq(Constraint) /\ Len(constraints_) <= MaxConstraints
  /\ \A j \in 1..Len(constraints_) : /\ Joins(constraints_[j], Len(particles_))
                                     /\ Halves2(constraints_[j].rest, Left(steps))
  /\ steps \in 0..MaxSteps /\ impulse \in Int /\ relaxed \in BOOLEAN
  /\ \A k \in 1..Len(particles_) : /\ Halves2(particles_[k].pos, Left(steps))
                                   /\ Halves2(particles_[k].prev, Left(steps))
  /\ WorldExact

LEMMA LeftBounds ==
  ASSUME NEW s \in 0..MaxSteps
  PROVE  Left(s) \in Nat /\ Left(s) <= Left(0) /\ Left(0) \in Nat
<1>1. MaxPerStep \in Nat
  BY PhysicsAssumption DEF MaxPerStep
<1>2. MaxSteps - s \in Nat /\ MaxSteps \in Nat /\ MaxSteps - s <= MaxSteps /\ MaxSteps - 0 = MaxSteps
  BY PhysicsAssumption
<1>3. \A x, y, z \in Nat : x * z \in Nat /\ (x <= y => x * z <= y * z)
  OBVIOUS
<1>. QED  BY <1>1, <1>2, <1>3 DEF Left

LEMMA LeftStep ==
  ASSUME NEW s \in 0..MaxSteps, s < MaxSteps, NEW c \in 0..MaxIterations,
         NEW m \in 0..MaxConstraints
  PROVE  /\ c * m \in Nat /\ s + 1 \in 0..MaxSteps
         /\ Left(s + 1) \in Nat /\ Left(s + 1) <= Left(s)
         /\ Left(s + 1) + c * m <= Left(s) /\ Left(s + 1) + c * m \in Nat
<1>1. \A x, y, z \in Nat : x * z \in Nat /\ (x <= y => x * z <= y * z /\ z * x <= z * y)
  OBVIOUS
<1>2. MaxIterations \in Nat /\ MaxConstraints \in Nat /\ MaxSteps \in Nat
  BY PhysicsAssumption
<1>3. c * m \in Nat /\ c * m <= MaxPerStep /\ MaxPerStep \in Nat
  <2>1. c * m <= MaxIterations * m /\ MaxIterations * m <= MaxIterations * MaxConstraints
    BY <1>1, <1>2
  <2>2. c * m \in Nat /\ MaxIterations * m \in Nat /\ MaxIterations * MaxConstraints \in Nat
    BY <1>1, <1>2
  <2>. QED  BY <2>1, <2>2 DEF MaxPerStep
<1>4. Left(s) = Left(s + 1) + MaxPerStep
  <2>. DEFINE t == MaxSteps - (s + 1)
              p == MaxPerStep
  <2>1. t \in Nat /\ MaxSteps - s = t + 1 /\ p \in Nat
    BY <1>2, <1>3
  <2>. HIDE DEF t, p
  <2>2. (t + 1) * p = t * p + p
    BY <2>1
  <2>3. Left(s + 1) = t * p
    BY DEF Left, t, p
  <2>4. Left(s) = (t + 1) * p
    BY <2>1 DEF Left, p
  <2>. QED  BY <2>2, <2>3, <2>4 DEF p
<1>5. s + 1 \in 0..MaxSteps
  BY <1>2
<1>6. Left(s + 1) \in Nat
  BY <1>5, LeftBounds
<1>. HIDE DEF MaxPerStep
<1>. QED  BY <1>3, <1>4, <1>5, <1>6

LEMMA GivenHalves ==
  ASSUME NEW x \in Positions \cup {Gravity}, NEW s \in 0..MaxSteps
  PROVE  x \in Int /\ Halves2(x, Left(s))
<1>. DEFINE M == MaxSteps * MaxPerStep
            p == Power(2, M)
<1>1. x \in Int /\ x % p = 0
  BY PhysicsAssumption
<1>2. Left(s) \in Nat /\ Left(s) <= M /\ M \in Nat
  <2>1. Left(0) = M
    BY PhysicsAssumption DEF Left
  <2>. QED  BY <2>1, LeftBounds
<1>3. p \in Nat \ {0}
  BY <1>2, PowersOfTwo
<1>. HIDE DEF p
<1>4. x = (x \div p) * p /\ x \div p \in Int
  BY <1>1, <1>3
<1>5. Halves2(x, M)
  BY <1>4 DEF Halves2, p
<1>. QED  BY <1>1, <1>2, <1>5, HalvesLess

LEMMA WorldInitEstablishes == PhysicsInit => WorldInv
<1>. SUFFICES ASSUME PhysicsInit PROVE WorldInv
  OBVIOUS
<1>1. SumBelow(Velocities(particles_), Len(particles_)) = impulse
  BY SumStepZero DEF PhysicsInit
<1>2. /\ particles_ \in Seq(Particle) /\ Len(particles_) = 0 /\ DOMAIN particles_ = {}
      /\ constraints_ \in Seq(Constraint) /\ Len(constraints_) = 0 /\ constraints_ = <<>>
      /\ steps = 0 /\ impulse = 0 /\ relaxed = FALSE
  BY DEF PhysicsInit
<1>3. /\ MaxConstraints \in Nat /\ MaxSteps \in Nat
      /\ \A k \in 1..Len(constraints_) : FALSE
      /\ \A k \in 1..Len(particles_) : FALSE
  BY <1>2, PhysicsAssumption
<1>4. PinnedStay /\ MomentumKept /\ LastHolds
  BY <1>1, <1>2 DEF PinnedStay, MomentumKept, LastHolds
<1>5. /\ \A j \in 1..Len(constraints_) : /\ Joins(constraints_[j], Len(particles_))
                                         /\ Halves2(constraints_[j].rest, Left(steps))
      /\ \A k \in 1..Len(particles_) : /\ Halves2(particles_[k].pos, Left(steps))
                                       /\ Halves2(particles_[k].prev, Left(steps))
  BY <1>3
<1>6. /\ steps \in 0..MaxSteps /\ impulse \in Int /\ relaxed \in BOOLEAN
      /\ Len(constraints_) <= MaxConstraints
  <2>1. steps = 0 /\ impulse = 0 /\ Len(constraints_) = 0
    BY <1>2
  <2>2. steps \in 0..MaxSteps /\ impulse \in Int /\ Len(constraints_) <= MaxConstraints
    BY <2>1, <1>3
  <2>3. relaxed \in BOOLEAN
    BY <1>2, Zenon
  <2>. QED  BY <2>2, <2>3
<1>. QED  BY <1>2, <1>4, <1>5, <1>6 DEF WorldInv, WorldExact

LEMMA VelocitiesAre ==
  ASSUME NEW ps
  PROVE  Velocities(ps) = Speeds(ps, Len(ps))
BY DEF Velocities, Speeds

LEMMA SpeedsInt ==
  ASSUME NEW N \in Nat, NEW ps \in [1..N -> Particle]
  PROVE  \A k \in 0..(N - 1) : /\ Speeds(ps, N)[k] = ps[k + 1].pos - ps[k + 1].prev
                               /\ Speeds(ps, N)[k] \in Int
<1>. SUFFICES ASSUME NEW k \in 0..(N - 1)
              PROVE  /\ Speeds(ps, N)[k] = ps[k + 1].pos - ps[k + 1].prev
                     /\ Speeds(ps, N)[k] \in Int
  OBVIOUS
<1>1. k + 1 \in 1..N
  OBVIOUS
<1>2. ps[k + 1].pos \in Int /\ ps[k + 1].prev \in Int
  BY <1>1 DEF Particle
<1>. QED  BY <1>2 DEF Speeds

\* The pinned stay and the sum of velocities is known, for a sequence of particles.
Balanced(ps, N, total_) ==
  /\ \A k \in 1..N : ps[k].pinned => ps[k].pos = ps[k].prev
  /\ (\A k \in 1..N : ~ps[k].pinned) => SumBelow(Speeds(ps, N), N) = total_

LEMMA BalancedIs ==
  ASSUME particles_ \in Seq(Particle)
  PROVE  /\ DOMAIN particles_ = 1..Len(particles_) /\ Len(particles_) \in Nat
         /\ PinnedStay /\ MomentumKept <=> Balanced(particles_, Len(particles_), impulse)
BY VelocitiesAre DEF Balanced, PinnedStay, MomentumKept

LEMMA AddedKeepsBalance ==
  ASSUME NEW ps \in Seq(Particle), NEW x \in Int, NEW pin \in BOOLEAN, NEW t \in Int,
         Balanced(ps, Len(ps), t)
  PROVE  LET qs == Append(ps, [pos |-> x, prev |-> x, pinned |-> pin])
         IN Balanced(qs, Len(qs), t)
<1>. DEFINE P == [pos |-> x, prev |-> x, pinned |-> pin]
            N == Len(ps)
            qs == Append(ps, P)
<1>1. P \in Particle /\ P.pos = x /\ P.prev = x /\ P.pinned = pin
  BY DEF Particle
<1>. HIDE DEF P
<1>2. /\ N \in Nat /\ Len(qs) = N + 1 /\ qs \in Seq(Particle)
      /\ qs[N + 1] = P /\ \A k \in 1..N : qs[k] = ps[k]
  BY <1>1
<1>. HIDE DEF N, qs
<1>3. ps \in [1..N -> Particle] /\ qs \in [1..(N + 1) -> Particle]
  BY <1>2 DEF N
<1>4. \A k \in 1..(N + 1) : k \in 1..N \/ k = N + 1
  BY <1>2
<1>5. \A k \in 1..(N + 1) : qs[k].pinned => qs[k].pos = qs[k].prev
  BY <1>1, <1>2, <1>4 DEF Balanced, N
<1>6. ASSUME \A k \in 1..(N + 1) : ~qs[k].pinned
      PROVE  SumBelow(Speeds(qs, N + 1), N + 1) = t
  <2>. DEFINE u == Speeds(ps, N)
              w == Speeds(qs, N + 1)
  <2>1. SumBelow(u, N) = t
    <3>1. \A k \in 1..N : k \in 1..(N + 1)
      BY <1>2
    <3>. QED  BY <3>1, <1>2, <1>6 DEF Balanced, N
  <2>2. N + 1 \in Nat /\ (N + 1) - 1 = N
    BY <1>2
  <2>3. \A k \in 0..((N + 1) - 1) : w[k] = qs[k + 1].pos - qs[k + 1].prev /\ w[k] \in Int
    BY <1>3, <2>2, SpeedsInt
  <2>4. \A k \in 0..(N - 1) : u[k] = ps[k + 1].pos - ps[k + 1].prev /\ u[k] \in Int
    BY <1>2, <1>3, SpeedsInt
  <2>. HIDE DEF u, w
  <2>5. w[N] = 0
    BY <1>1, <1>2, <2>2, <2>3
  <2>6. \A k \in 0..(N - 1) : u[k] \in Int /\ w[k] = u[k]
    <3>1. \A k \in 0..(N - 1) : k \in 0..((N + 1) - 1) /\ k + 1 \in 1..N
      BY <1>2
    <3>. QED  BY <3>1, <1>2, <2>3, <2>4
  <2>7. SumBelow(w, N) = SumBelow(u, N)
    BY <1>2, <2>6, SumSame
  <2>8. \A k \in 0..N : w[k] \in Int
    BY <2>2, <2>3
  <2>9. SumBelow(w, N + 1) = SumBelow(w, N) + w[N]
    BY <1>2, <2>8, SumStep
  <2>. QED  BY <2>1, <2>5, <2>7, <2>9 DEF w
<1>7. Balanced(qs, N + 1, t)
  BY <1>5, <1>6 DEF Balanced
<1>. QED  BY <1>2, <1>7 DEF qs, P

LEMMA AddParticleStep ==
  ASSUME WorldInv, NEW x \in Positions, NEW pin \in BOOLEAN, AddParticle(x, pin)
  PROVE  WorldInv'
<1>. DEFINE P == [pos |-> x, prev |-> x, pinned |-> pin]
            N == Len(particles_)
<1>1. /\ particles_' = Append(particles_, P) /\ relaxed' = FALSE
      /\ constraints_' = constraints_ /\ steps' = steps /\ impulse' = impulse
  BY DEF AddParticle
<1>2. steps \in 0..MaxSteps /\ impulse \in Int /\ particles_ \in Seq(Particle)
  BY DEF WorldInv
<1>3. x \in Int /\ Halves2(x, Left(steps))
  BY <1>2, GivenHalves
<1>4. P \in Particle /\ P.pos = x /\ P.prev = x
  BY <1>3 DEF Particle
<1>5. Balanced(particles_, N, impulse)
  BY <1>2, BalancedIs DEF WorldInv, WorldExact
<1>6. Balanced(particles_', Len(particles_'), impulse')
  BY <1>1, <1>2, <1>3, <1>5, AddedKeepsBalance
<1>. HIDE DEF P
<1>7. /\ particles_' \in Seq(Particle) /\ Len(particles_') = N + 1 /\ N \in Nat
      /\ particles_'[N + 1] = P /\ \A k \in 1..N : particles_'[k] = particles_[k]
  BY <1>1, <1>2, <1>4
<1>. HIDE DEF N
<1>8. PinnedStay' /\ MomentumKept'
  <2>1. DOMAIN particles_' = 1..Len(particles_')
    BY <1>7
  <2>2. Velocities(particles_)' = Speeds(particles_', Len(particles_'))
    BY VelocitiesAre
  <2>. QED  BY <1>6, <2>1, <2>2 DEF Balanced, PinnedStay, MomentumKept
<1>9. LastHolds'
  BY <1>1 DEF LastHolds
<1>10. \A k \in 1..(N + 1) : /\ Halves2(particles_'[k].pos, Left(steps))
                             /\ Halves2(particles_'[k].prev, Left(steps))
  <2>1. \A k \in 1..(N + 1) : k \in 1..N \/ k = N + 1
    BY <1>7
  <2>. QED  BY <2>1, <1>3, <1>4, <1>7 DEF WorldInv, N
<1>11. \A j \in 1..Len(constraints_) : Joins(constraints_[j], N + 1)
  <2>1. \A k \in 1..N : k \in 1..(N + 1)
    BY <1>7
  <2>. QED  BY <2>1 DEF WorldInv, Joins, N
<1>. QED  BY <1>1, <1>7, <1>8, <1>9, <1>10, <1>11 DEF WorldInv, WorldExact

LEMMA AddConstraintStep ==
  ASSUME WorldInv, NEW j \in 1..MaxParticles, NEW k \in 1..MaxParticles, AddConstraint(j, k)
  PROVE  WorldInv'
<1>. DEFINE rest == Abs(particles_[j].pos - particles_[k].pos)
            c == [a |-> j, b |-> k, rest |-> rest]
            N == Len(particles_)
            L == Len(constraints_)
<1>1. /\ constraints_' = Append(constraints_, c) /\ relaxed' = FALSE
      /\ particles_' = particles_ /\ steps' = steps /\ impulse' = impulse
      /\ L < MaxConstraints /\ j # k
  BY DEF AddConstraint
<1>2. /\ steps \in 0..MaxSteps /\ particles_ \in Seq(Particle)
      /\ constraints_ \in Seq(Constraint)
      /\ N \in Nat /\ L \in Nat
  BY DEF WorldInv
<1>3. j \in 1..N /\ k \in 1..N /\ j \in Nat /\ k \in Nat
  BY <1>2 DEF AddConstraint
<1>4. rest \in Nat /\ Halves2(rest, Left(steps))
  <2>. DEFINE x == particles_[j].pos
              y == particles_[k].pos
  <2>1. x \in Int /\ y \in Int
    <3>1. particles_[j] \in Particle /\ particles_[k] \in Particle
      BY <1>2, <1>3
    <3>. QED  BY <3>1 DEF Particle
  <2>2. Halves2(x, Left(steps)) /\ Halves2(y, Left(steps))
    BY <1>3 DEF WorldInv
  <2>3. Left(steps) \in Nat
    BY <1>2, LeftBounds
  <2>4. rest = Abs(x - y)
    OBVIOUS
  <2>. HIDE DEF x, y, rest
  <2>5. Halves2(x - y, Left(steps)) /\ Halves2(y - x, Left(steps))
    BY <2>1, <2>2, <2>3, HalvesCombine
  <2>6. rest \in Nat /\ (rest = x - y \/ rest = y - x)
    BY <2>1, <2>4 DEF Abs
  <2>. QED  BY <2>5, <2>6
<1>. HIDE DEF rest
<1>5. c.a = j /\ c.b = k /\ c.rest = rest /\ c \in Constraint /\ Joins(c, N)
  BY <1>1, <1>3, <1>4 DEF Joins, Constraint
<1>. HIDE DEF c
<1>6. /\ constraints_' \in Seq(Constraint) /\ Len(constraints_') = L + 1
      /\ constraints_'[L + 1] = c /\ \A i_ \in 1..L : constraints_'[i_] = constraints_[i_]
  BY <1>1, <1>2, <1>5
<1>. HIDE DEF L, N
<1>7. \A i_ \in 1..(L + 1) : /\ Joins(constraints_'[i_], N)
                             /\ Halves2(constraints_'[i_].rest, Left(steps))
  <2>1. \A i_ \in 1..(L + 1) : i_ \in 1..L \/ i_ = L + 1
    BY <1>2
  <2>. QED  BY <2>1, <1>4, <1>5, <1>6 DEF WorldInv, N, L
<1>8. PinnedStay' /\ MomentumKept'
  BY <1>1 DEF WorldInv, WorldExact, PinnedStay, MomentumKept
<1>9. LastHolds'
  BY <1>1 DEF LastHolds
<1>10. L + 1 <= MaxConstraints
  BY <1>1, <1>2, PhysicsAssumption
<1>. QED  BY <1>1, <1>6, <1>7, <1>8, <1>9, <1>10 DEF WorldInv, WorldExact, N

LEMMA IntegrateMoves ==
  ASSUME NEW p \in Particle
  PROVE  /\ Integrate(p) \in Particle /\ Integrate(p).pinned = p.pinned
         /\ p.pinned => Integrate(p) = p
         /\ ~p.pinned => /\ Integrate(p).prev = p.pos
                         /\ Integrate(p).pos = p.pos + (p.pos - p.prev) + Gravity
<1>1. p.pos \in Int /\ p.prev \in Int /\ p.pinned \in BOOLEAN /\ Gravity \in Int
  BY PhysicsAssumption DEF Particle
<1>2. p.pos + (p.pos - p.prev) + Gravity \in Int
  BY <1>1
<1>. QED  BY <1>1, <1>2 DEF Integrate, Particle

LEMMA IntegratedKeepsBalance ==
  ASSUME NEW N \in Nat, NEW ps \in [1..N -> Particle], NEW t \in Int, Balanced(ps, N, t)
  PROVE  LET qs == [k \in 1..N |-> Integrate(ps[k])]
         IN qs \in [1..N -> Particle] /\ Balanced(qs, N, t + Gravity * N)
<1>. DEFINE qs == [k \in 1..N |-> Integrate(ps[k])]
<1>1. \A k \in 1..N : /\ qs[k] \in Particle /\ qs[k].pinned = ps[k].pinned
                      /\ ps[k].pinned => qs[k] = ps[k]
                      /\ ~ps[k].pinned => /\ qs[k].prev = ps[k].pos
                                          /\ qs[k].pos = ps[k].pos + (ps[k].pos - ps[k].prev)
                                                         + Gravity
  BY IntegrateMoves
<1>2. qs \in [1..N -> Particle]
  BY <1>1
<1>. HIDE DEF qs
<1>3. \A k \in 1..N : qs[k].pinned => qs[k].pos = qs[k].prev
  BY <1>1 DEF Balanced
<1>4. ASSUME \A k \in 1..N : ~qs[k].pinned
      PROVE  SumBelow(Speeds(qs, N), N) = t + Gravity * N
  <2>. DEFINE u == Speeds(ps, N)
              w == Speeds(qs, N)
              g == [k \in 0..(N - 1) |-> Gravity]
  <2>1. SumBelow(u, N) = t
    BY <1>1, <1>4 DEF Balanced
  <2>2. \A k \in 0..(N - 1) : /\ u[k] = ps[k + 1].pos - ps[k + 1].prev /\ u[k] \in Int
                              /\ w[k] = qs[k + 1].pos - qs[k + 1].prev /\ w[k] \in Int
    BY <1>2, SpeedsInt
  <2>3. Gravity \in Int /\ \A k \in 0..(N - 1) : g[k] = Gravity
    BY PhysicsAssumption
  <2>. HIDE DEF u, w, g
  <2>4. \A k \in 0..(N - 1) : u[k] \in Int /\ g[k] \in Int /\ w[k] = u[k] + g[k]
    <3>. SUFFICES ASSUME NEW k \in 0..(N - 1)
                  PROVE  u[k] \in Int /\ g[k] \in Int /\ w[k] = u[k] + g[k]
      OBVIOUS
    <3>1. k + 1 \in 1..N
      OBVIOUS
    <3>2. ps[k + 1].pos \in Int /\ ps[k + 1].prev \in Int
      BY <3>1 DEF Particle
    <3>3. qs[k + 1].prev = ps[k + 1].pos
          /\ qs[k + 1].pos = ps[k + 1].pos + (ps[k + 1].pos - ps[k + 1].prev) + Gravity
      BY <1>1, <1>4, <3>1
    <3>. DEFINE x == ps[k + 1].pos
                y == ps[k + 1].prev
    <3>4. u[k] = x - y /\ w[k] = (x + (x - y) + Gravity) - x /\ g[k] = Gravity
      BY <2>2, <2>3, <3>3
    <3>5. x \in Int /\ y \in Int
      BY <3>2
    <3>. HIDE DEF x, y
    <3>. QED  BY <2>3, <3>4, <3>5
  <2>5. SumBelow(w, N) = SumBelow(u, N) + SumBelow(g, N)
    BY <2>4, SumAdds
  <2>6. SumBelow(g, N) = Gravity * N
    BY <2>3, SumConstant
  <2>. QED  BY <2>1, <2>5, <2>6 DEF w
<1>5. Balanced(qs, N, t + Gravity * N)
  BY <1>3, <1>4 DEF Balanced
<1>. QED  BY <1>2, <1>5 DEF qs

LEMMA KeptBalance ==
  ASSUME NEW N \in Nat, NEW ps \in [1..N -> Particle], NEW qs, Kept(ps, qs, N),
         NEW t, Balanced(ps, N, t)
  PROVE  Balanced(qs, N, t)
BY DEF Kept, Balanced

LEMMA IntegratedHalves ==
  ASSUME NEW N \in Nat, NEW ps \in [1..N -> Particle], NEW s \in 0..MaxSteps,
         AllHalve(ps, N, Left(s)), \A l \in 1..N : Halves2(ps[l].prev, Left(s))
  PROVE  LET qs == [k \in 1..N |-> Integrate(ps[k])]
         IN /\ AllHalve(qs, N, Left(s))
            /\ \A l \in 1..N : Halves2(qs[l].prev, Left(s))
<1>. DEFINE qs == [k \in 1..N |-> Integrate(ps[k])]
            m == Left(s)
<1>1. m \in Nat
  BY LeftBounds
<1>2. Gravity \in Int /\ Halves2(Gravity, m)
  BY GivenHalves
<1>. HIDE DEF m
<1>3. ASSUME NEW l \in 1..N
      PROVE  Halves2(qs[l].pos, m) /\ Halves2(qs[l].prev, m)
  <2>. DEFINE p == ps[l]
              x == p.pos
              y == p.prev
  <2>1. p \in Particle /\ qs[l] = Integrate(p)
    OBVIOUS
  <2>2. x \in Int /\ y \in Int
    BY <2>1 DEF Particle
  <2>3. Halves2(x, m) /\ Halves2(y, m)
    BY DEF AllHalve, m
  <2>4. (Integrate(p).pos = x /\ Integrate(p).prev = y)
        \/ (Integrate(p).pos = x + (x - y) + Gravity /\ Integrate(p).prev = x)
    BY <2>1, IntegrateMoves
  <2>. HIDE DEF p, x, y, qs
  <2>5. x - y \in Int /\ Halves2(x - y, m)
    BY <1>1, <2>2, <2>3, HalvesCombine
  <2>6. x + (x - y) \in Int /\ Halves2(x + (x - y), m)
    BY <1>1, <2>2, <2>3, <2>5, HalvesCombine
  <2>7. Halves2(x + (x - y) + Gravity, m)
    BY <1>1, <1>2, <2>6, HalvesCombine
  <2>. QED  BY <2>1, <2>3, <2>4, <2>7
<1>. QED  BY <1>3 DEF AllHalve, m

LEMMA StepWorldStep ==
  ASSUME WorldInv, NEW c \in 0..MaxIterations, StepWorld(c)
  PROVE  WorldInv'
<1>. DEFINE N == Len(particles_)
            L == Len(constraints_)
            ps == [k \in 1..N |-> Integrate(particles_[k])]
            qs == RelaxTimes(ps, constraints_, c * L)
            K == Left(steps + 1)
<1>1. /\ N \in Nat /\ DOMAIN particles_ = 1..N /\ particles_ \in [1..N -> Particle]
      /\ L \in 0..MaxConstraints /\ steps \in 0..MaxSteps /\ steps < MaxSteps
      /\ impulse \in Int /\ constraints_ \in Seq(Constraint)
  BY PhysicsAssumption DEF WorldInv, StepWorld
<1>2. /\ particles_' = qs /\ steps' = steps + 1 /\ constraints_' = constraints_
      /\ impulse' = impulse + Gravity * N /\ relaxed' = (c > 0)
  BY <1>1 DEF StepWorld
<1>3. /\ c * L \in Nat /\ steps + 1 \in 0..MaxSteps /\ K \in Nat /\ K <= Left(steps)
      /\ K + c * L <= Left(steps) /\ K + c * L \in Nat /\ Left(steps) \in Nat
  BY <1>1, LeftStep, LeftBounds
<1>4. /\ AllHalve(particles_, N, Left(steps))
      /\ \A l \in 1..N : Halves2(particles_[l].prev, Left(steps))
  BY DEF WorldInv, AllHalve
<1>5. \A j \in 1..L : /\ Joins(constraints_[j], N)
                      /\ Halves2(constraints_[j].rest, Left(steps))
                      /\ constraints_[j].rest \in Int
  BY DEF WorldInv, Joins, Constraint
<1>6. Balanced(particles_, N, impulse)
  <2>1. particles_ \in Seq(Particle) /\ PinnedStay /\ MomentumKept
    BY DEF WorldInv, WorldExact
  <2>. QED  BY <2>1, BalancedIs
<1>7. /\ AllHalve(ps, N, Left(steps))
      /\ \A l \in 1..N : Halves2(ps[l].prev, Left(steps))
  BY <1>1, <1>4, IntegratedHalves
<1>8. ps \in [1..N -> Particle] /\ Balanced(ps, N, impulse + Gravity * N)
  BY <1>1, <1>6, IntegratedKeepsBalance
<1>. HIDE DEF N, L, ps, qs, K
<1>9. \A l \in 1..N : ps[l].pos \in Int /\ ps[l].prev \in Int
  BY <1>8 DEF Particle
<1>10. AllHalve(ps, N, K + c * L) /\ \A l \in 1..N : Halves2(ps[l].prev, K)
  BY <1>3, <1>7, <1>9, HalvesLess DEF AllHalve
<1>11. \A j \in 1..L : /\ Joins(constraints_[j], N)
                       /\ Halves2(constraints_[j].rest, K + c * L)
                       /\ Halves2(constraints_[j].rest, K)
  BY <1>3, <1>5, HalvesLess
<1>12. /\ Kept(ps, qs, N) /\ AllHalve(qs, N, K)
       /\ L # 0 /\ c * L > 0 => Satisfied(qs, constraints_[Turn(c * L, L)])
  <2>1. CASE L = 0
    <3>1. c * L = 0 /\ K + c * L = K
      BY <1>3, <2>1
    <3>2. qs = ps
      BY <3>1, NoRelaxation DEF qs
    <3>3. Kept(ps, ps, N)
      BY <1>8 DEF Kept
    <3>. QED  BY <1>10, <2>1, <3>1, <3>2, <3>3
  <2>2. CASE L # 0
    <3>1. Len(constraints_) \in Nat \ {0}
      BY <1>1, <2>2 DEF L
    <3>2. \A j \in 1..Len(constraints_) : /\ Joins(constraints_[j], N)
                                          /\ Halves2(constraints_[j].rest, K + c * L)
      BY <1>11 DEF L
    <3>. DEFINE count == c * L
    <3>3. count \in Nat /\ AllHalve(ps, N, K + count)
      BY <1>3, <1>10
    <3>4. qs = RelaxTimes(ps, constraints_, count)
      BY DEF qs
    <3>5. \A j \in 1..Len(constraints_) : /\ Joins(constraints_[j], N)
                                          /\ Halves2(constraints_[j].rest, K + count)
      BY <3>2
    <3>. HIDE DEF count
    <3>6. /\ Kept(ps, qs, N) /\ AllHalve(qs, N, K)
          /\ count > 0 => Satisfied(qs, constraints_[Turn(count, Len(constraints_))])
      BY <1>1, <1>3, <1>8, <3>1, <3>3, <3>4, <3>5, RelaxTimesKeeps
    <3>. QED  BY <3>6 DEF count, L
  <2>. QED  BY <2>1, <2>2
<1>13. qs \in [1..N -> Particle] /\ \A k \in 1..N : qs[k].prev = ps[k].prev
  BY <1>12 DEF Kept
<1>14. qs \in Seq(Particle) /\ Len(qs) = N /\ DOMAIN qs = 1..N
  BY <1>1, <1>13
<1>15. Balanced(qs, N, impulse + Gravity * N)
  BY <1>1, <1>8, <1>12, KeptBalance
<1>16. PinnedStay' /\ MomentumKept'
  <2>1. Velocities(particles_)' = Speeds(qs, N)
    BY <1>2, <1>14, VelocitiesAre
  <2>. QED  BY <1>2, <1>14, <1>15, <2>1 DEF Balanced, PinnedStay, MomentumKept
<1>17. LastHolds'
  <2>. SUFFICES ASSUME c > 0, constraints_ # <<>>
                PROVE  LET e == constraints_[L] IN
                       \/ qs[e.a].pinned /\ qs[e.b].pinned
                       \/ qs[e.a].pos = qs[e.b].pos
                       \/ Abs(qs[e.a].pos - qs[e.b].pos) = e.rest
    BY <1>2 DEF LastHolds, Last, L
  <2>1. L \in Nat \ {0} /\ c \in Nat \ {0}
    BY <1>1 DEF L
  <2>2. c * L \in Nat \ {0} /\ Turn(c * L, L) = L
    BY <2>1, LastTurn
  <2>3. Satisfied(qs, constraints_[L])
    BY <1>12, <2>1, <2>2
  <2>. QED  BY <2>3 DEF Satisfied
<1>18. \A k \in 1..N : Halves2(qs[k].pos, K) /\ Halves2(qs[k].prev, K)
  BY <1>10, <1>12, <1>13 DEF AllHalve
<1>19. impulse + Gravity * N \in Int
  BY <1>1, PhysicsAssumption
<1>20. /\ steps' \in 0..MaxSteps /\ impulse' \in Int /\ relaxed' \in BOOLEAN
       /\ particles_' \in Seq(Particle) /\ Len(particles_') = N /\ Left(steps') = K
       /\ constraints_' \in Seq(Constraint) /\ Len(constraints_') = L /\ L <= MaxConstraints
  BY <1>1, <1>2, <1>3, <1>14, <1>19, PhysicsAssumption DEF K, L
<1>. QED  BY <1>2, <1>11, <1>16, <1>17, <1>18, <1>20 DEF WorldInv, WorldExact

LEMMA WorldStep ==
  ASSUME WorldInv, [PhysicsNext]_physicsVars
  PROVE  WorldInv'
<1>1. CASE UNCHANGED physicsVars
  BY <1>1 DEF physicsVars, WorldInv, WorldExact, PinnedStay, MomentumKept, LastHolds
<1>2. CASE \E x \in Positions, pinned \in BOOLEAN : AddParticle(x, pinned)
  BY <1>2, AddParticleStep
<1>3. CASE \E j, k \in 1..MaxParticles : AddConstraint(j, k)
  BY <1>3, AddConstraintStep
<1>4. CASE \E iterations \in 0..MaxIterations : StepWorld(iterations)
  BY <1>4, StepWorldStep
<1>. QED  BY <1>1, <1>2, <1>3, <1>4 DEF PhysicsNext

(* In any world, with any gravity and any number of iterations, the pinned stay
   where they are, constraints exert no force on the whole, and the constraint
   that was relaxed last holds. *)
THEOREM WorldIsExact == PhysicsSpec => []WorldExact
<1>1. WorldInv => WorldExact
  BY DEF WorldInv
<1>. QED  BY <1>1, WorldInitEstablishes, WorldStep, PTL DEF PhysicsSpec

-----------------------------------------------------------------------------
(* Pipeline: sequences are put together. *)

IsConcat(c, ss, m) == c = [k \in 0..m |-> IF k = 0 THEN <<>> ELSE c[k - 1] \o ss[k]]

Concats(ss, m) == CHOOSE c : IsConcat(c, ss, m)

LEMMA ConcatIs ==
  ASSUME NEW ss
  PROVE  Concat(ss) = Concats(ss, Len(ss))[Len(ss)]
BY DEF Concat, Concats, IsConcat

LEMMA ConcatExists ==
  ASSUME NEW A, NEW ss, NEW m \in Nat, \A k \in 1..m : ss[k] \in Seq(A)
  PROVE  \E c : IsConcat(c, ss, m)
<1>. DEFINE X == Seq(A)
            G == [q \in (1..m) \X X |-> q[2] \o ss[q[1]]]
<1>1. G \in [(1..m) \X X -> X]
  <2>1. \A q \in (1..m) \X X : q[2] \in Seq(A) /\ ss[q[1]] \in Seq(A)
    OBVIOUS
  <2>2. \A q \in (1..m) \X X : q[2] \o ss[q[1]] \in Seq(A)
    BY <2>1
  <2>. QED  BY <2>2
<1>2. ASSUME NEW k \in 1..m, NEW x \in X
      PROVE  G[<<k, x>>] = x \o ss[k]
  <2>1. <<k, x>> \in (1..m) \X X
    OBVIOUS
  <2>. HIDE DEF X
  <2>. QED  BY <2>1
<1>. HIDE DEF G
<1>3. PICK g \in [0..m -> X] : g[0] = <<>> /\ Recurs(g, G, m)
  <2>1. <<>> \in X
    OBVIOUS
  <2>. HIDE DEF X
  <2>. QED  BY <1>1, <2>1, RecursionExists, Zenon
<1>. HIDE DEF X
<1>4. g = [k \in 0..m |-> g[k]]
  BY <1>3
<1>5. ASSUME NEW k \in 0..m
      PROVE  g[k] = IF k = 0 THEN <<>> ELSE g[k - 1] \o ss[k]
  <2>1. CASE k = 0
    BY <2>1, <1>3
  <2>2. CASE k # 0
    <3>1. k \in 1..m /\ g[k - 1] \in X
      BY <2>2, <1>3
    <3>2. g[k] = G[<<k, g[k - 1]>>]
      BY <3>1, <1>3 DEF Recurs
    <3>. QED  BY <3>1, <3>2, <1>2, <2>2
  <2>. QED  BY <2>1, <2>2
<1>. QED  BY <1>4, <1>5 DEF IsConcat

LEMMA ConcatsAre ==
  ASSUME NEW A, NEW ss, NEW m \in Nat, \A k \in 1..m : ss[k] \in Seq(A)
  PROVE  /\ Concats(ss, m)[0] = <<>>
         /\ \A k \in 1..m : Concats(ss, m)[k] = Concats(ss, m)[k - 1] \o ss[k]
         /\ \A k \in 0..m : Concats(ss, m)[k] \in Seq(A)
<1>1. IsConcat(Concats(ss, m), ss, m)
  BY ConcatExists, Zenon DEF Concats
<1>. DEFINE g == Concats(ss, m)
<1>. HIDE DEF g
<1>2. g[0] = <<>> /\ \A k \in 1..m : g[k] = g[k - 1] \o ss[k]
  <2>1. \A k \in 0..m : g[k] = IF k = 0 THEN <<>> ELSE g[k - 1] \o ss[k]
    BY <1>1, Zenon DEF IsConcat, g
  <2>2. 0 \in 0..m /\ \A k \in 1..m : k \in 0..m /\ k # 0
    OBVIOUS
  <2>. QED  BY <2>1, <2>2, Zenon
<1>. DEFINE S == {k \in Nat : k <= m => g[k] \in Seq(A)}
<1>3. 0 \in S
  <2>1. g[0] \in Seq(A)
    BY <1>2, EmptySeq
  <2>. QED  BY <2>1
<1>4. ASSUME NEW k \in Nat, k \in S PROVE k + 1 \in S
  <2>. SUFFICES ASSUME k + 1 <= m PROVE g[k + 1] \in Seq(A)
    OBVIOUS
  <2>1. k + 1 \in 1..m /\ (k + 1) - 1 = k /\ g[k] \in Seq(A) /\ ss[k + 1] \in Seq(A)
    BY <1>4
  <2>2. g[k + 1] = g[k] \o ss[k + 1]
    BY <2>1, <1>2
  <2>. QED  BY <2>1, <2>2
<1>. HIDE DEF S
<1>5. Nat \subseteq S
  BY <1>3, <1>4, InductionOnSet
<1>6. \A k \in 0..m : g[k] \in Seq(A)
  BY <1>5 DEF S
<1>. QED  BY <1>2, <1>6 DEF g

\* Each of c is the one before it with one of ss at its end.
Follows(c, ss, m) == \A k \in 1..m : c[k] = c[k - 1] \o ss[k]

LEMMA ConcatsFollow ==
  ASSUME NEW A, NEW ss, NEW m \in Nat, \A k \in 1..m : ss[k] \in Seq(A)
  PROVE  Follows(Concats(ss, m), ss, m)
BY ConcatsAre DEF Follows

LEMMA ConcatsAgree ==
  ASSUME NEW A, NEW ss, NEW tt, NEW m \in Nat, NEW M \in Nat, m <= M,
         \A k \in 1..M : tt[k] \in Seq(A), \A k \in 1..m : ss[k] = tt[k]
  PROVE  \A k \in 0..m : Concats(ss, m)[k] = Concats(tt, M)[k]
<1>. DEFINE g == Concats(ss, m)
            h == Concats(tt, M)
<1>1. \A k \in 1..m : k \in 1..M /\ ss[k] \in Seq(A)
  OBVIOUS
<1>2. g[0] = <<>> /\ \A k \in 1..m : g[k] = g[k - 1] \o ss[k]
  BY <1>1, ConcatsAre
<1>3. h[0] = <<>> /\ \A k \in 1..M : h[k] = h[k - 1] \o tt[k]
  BY ConcatsAre
<1>. HIDE DEF g, h
<1>. DEFINE S == {k \in Nat : k <= m => g[k] = h[k]}
<1>4. 0 \in S
  BY <1>2, <1>3
<1>5. ASSUME NEW k \in Nat, k \in S PROVE k + 1 \in S
  <2>. SUFFICES ASSUME k + 1 <= m PROVE g[k + 1] = h[k + 1]
    OBVIOUS
  <2>1. k + 1 \in 1..m /\ k + 1 \in 1..M /\ (k + 1) - 1 = k /\ g[k] = h[k]
    BY <1>5
  <2>2. g[k + 1] = g[k] \o ss[k + 1] /\ h[k + 1] = h[k] \o tt[k + 1] /\ ss[k + 1] = tt[k + 1]
    BY <2>1, <1>2, <1>3
  <2>. QED  BY <2>1, <2>2
<1>. HIDE DEF S
<1>6. Nat \subseteq S
  BY <1>4, <1>5, InductionOnSet
<1>7. \A k \in 0..m : g[k] = h[k]
  BY <1>6 DEF S
<1>. QED  BY <1>7 DEF g, h

\* ss is put together, and one more.
LEMMA ConcatAppend ==
  ASSUME NEW ss, NEW m \in Nat, Len(ss) = m, \A k \in 1..m : ss[k] \in Seq(Items),
         NEW tt, Len(tt) = m + 1, \A k \in 1..m : tt[k] = ss[k], tt[m + 1] \in Seq(Items)
  PROVE  /\ Concat(ss) \in Seq(Items)
         /\ Concat(tt) = Concat(ss) \o tt[m + 1]
<1>1. m + 1 \in Nat /\ m <= m + 1 /\ m \in 0..m /\ (m + 1) - 1 = m /\ m + 1 \in 1..(m + 1)
  OBVIOUS
<1>2. \A k \in 1..(m + 1) : tt[k] \in Seq(Items)
  <2>1. \A k \in 1..(m + 1) : k \in 1..m \/ k = m + 1
    OBVIOUS
  <2>. QED  BY <2>1
<1>. DEFINE g == Concats(ss, m)
            h == Concats(tt, m + 1)
<1>3. g[m] \in Seq(Items)
  BY <1>1, ConcatsAre
<1>4. h[m + 1] = h[(m + 1) - 1] \o tt[m + 1]
  <2>1. Follows(Concats(tt, m + 1), tt, m + 1)
    BY <1>1, <1>2, ConcatsFollow
  <2>2. \A k \in 1..(m + 1) : h[k] = h[k - 1] \o tt[k]
    BY <2>1, Zenon DEF Follows
  <2>. QED  BY <1>1, <2>2, Zenon
<1>5. g[m] = h[m]
  <2>1. \A k \in 1..m : ss[k] = tt[k]
    OBVIOUS
  <2>2. \A k \in 0..m : Concats(ss, m)[k] = Concats(tt, m + 1)[k]
    BY <1>1, <1>2, <2>1, ConcatsAgree
  <2>. QED  BY <1>1, <2>2, Zenon
<1>6. Concat(ss) = g[m] /\ Concat(tt) = h[m + 1]
  BY ConcatIs
<1>. HIDE DEF g, h
<1>. QED  BY <1>1, <1>3, <1>4, <1>5, <1>6

LEMMA ConcatEmpty ==
  ASSUME NEW ss, Len(ss) = 0
  PROVE  Concat(ss) = <<>>
<1>1. Concats(ss, 0)[0] = <<>>
  <2>1. 0 \in Nat /\ \A k \in 1..0 : ss[k] \in Seq(Items)
    OBVIOUS
  <2>. QED  BY <2>1, ConcatsAre
<1>. QED  BY <1>1, ConcatIs

-----------------------------------------------------------------------------
(* Pipeline: stages take one element after the other. *)

\* What a stage makes of v, after m elements.
Yield(p, m, v) ==
  CASE p.kind = "map"      -> <<MapFn[v]>>
    [] p.kind = "filter"   -> IF v \in Keep THEN <<v>> ELSE <<>>
    [] p.kind = "flat_map" -> Expand[v]
    [] p.kind = "take"     -> IF m < p.n THEN <<v>> ELSE <<>>

\* A stage is one of the four, and a take has a limit.
LEMMA StageKinds ==
  ASSUME NEW p \in Stage
  PROVE  /\ p.kind \in {"map", "filter", "flat_map", "take"}
         /\ p.kind = "take" => p.n \in Nat
BY DEF Stage

\* Concatenating what each element becomes, for one element more.
LEMMA EachAppend ==
  ASSUME NEW s \in Seq(Items), NEW v \in Items, NEW F \in [Items -> Seq(Items)]
  PROVE  /\ Concat([j \in DOMAIN s |-> F[s[j]]]) \in Seq(Items)
         /\ Concat([j \in DOMAIN Append(s, v) |-> F[Append(s, v)[j]]])
              = Concat([j \in DOMAIN s |-> F[s[j]]]) \o F[v]
<1>. DEFINE m  == Len(s)
            ss == [j \in DOMAIN s |-> F[s[j]]]
            tt == [j \in DOMAIN Append(s, v) |-> F[Append(s, v)[j]]]
<1>1. m \in Nat /\ DOMAIN s = 1..m /\ \A j \in 1..m : s[j] \in Items
  OBVIOUS
<1>2. /\ DOMAIN Append(s, v) = 1..(m + 1) /\ Append(s, v)[m + 1] = v
      /\ \A j \in 1..m : Append(s, v)[j] = s[j]
  OBVIOUS
<1>3. ss = [j \in 1..m |-> F[s[j]]] /\ tt = [j \in 1..(m + 1) |-> F[Append(s, v)[j]]]
  BY <1>1, <1>2
<1>. HIDE DEF m, ss, tt
<1>4. Len(ss) = m /\ \A k \in 1..m : ss[k] = F[s[k]]
  BY <1>1, <1>3
<1>5. Len(tt) = m + 1 /\ \A k \in 1..m : tt[k] = F[s[k]]
  BY <1>1, <1>2, <1>3
<1>6. tt[m + 1] = F[v]
  BY <1>1, <1>2, <1>3
<1>7. /\ \A k \in 1..m : ss[k] \in Seq(Items)
      /\ \A k \in 1..m : tt[k] = ss[k]
      /\ tt[m + 1] \in Seq(Items)
  BY <1>1, <1>4, <1>5, <1>6
<1>8. /\ Concat(ss) \in Seq(Items)
      /\ Concat(tt) = Concat(ss) \o tt[m + 1]
  <2>1. m \in Nat /\ Len(ss) = m /\ Len(tt) = m + 1
    BY <1>1, <1>4, <1>5
  <2>. QED  BY <2>1, <1>7, ConcatAppend
<1>9. /\ Concat(ss) \in Seq(Items)
      /\ Concat(tt) = Concat(ss) \o F[v]
  BY <1>6, <1>8
<1>. QED  BY <1>9 DEF ss, tt

\* A stage makes of one element more what it made before, and what it yields.
LEMMA StageAppends ==
  ASSUME PipelineAssumption, NEW p \in Stage, NEW s \in Seq(Items), NEW v \in Items
  PROVE  /\ ApplyStage(s, p) \in Seq(Items)
         /\ Yield(p, Len(s), v) \in Seq(Items)
         /\ ApplyStage(Append(s, v), p) = ApplyStage(s, p) \o Yield(p, Len(s), v)
<1>0. /\ MapFn \in [Items -> Items] /\ Expand \in [Items -> Seq(Items)]
      /\ Len(s) \in Nat /\ DOMAIN s = 1..Len(s) /\ \A j \in 1..Len(s) : s[j] \in Items
  BY DEF PipelineAssumption
<1>1. CASE p.kind = "map"
  <2>1. /\ ApplyStage(s, p) = [j \in DOMAIN s |-> MapFn[s[j]]]
        /\ ApplyStage(Append(s, v), p) = [j \in DOMAIN Append(s, v) |-> MapFn[Append(s, v)[j]]]
        /\ Yield(p, Len(s), v) = <<MapFn[v]>>
    BY <1>1 DEF ApplyStage, Yield
  <2>2. [j \in DOMAIN s |-> MapFn[s[j]]] \in Seq(Items) /\ MapFn[v] \in Items
    BY <1>0
  <2>3. [j \in DOMAIN Append(s, v) |-> MapFn[Append(s, v)[j]]]
           = [j \in DOMAIN s |-> MapFn[s[j]]] \o <<MapFn[v]>>
    <3>. DEFINE w == MapFn[v]
                t == [j \in DOMAIN s |-> MapFn[s[j]]]
                u == [j \in DOMAIN Append(s, v) |-> MapFn[Append(s, v)[j]]]
    <3>1. /\ DOMAIN Append(s, v) = 1..(Len(s) + 1) /\ Append(s, v)[Len(s) + 1] = v
          /\ \A j \in 1..Len(s) : Append(s, v)[j] = s[j]
      OBVIOUS
    <3>2. /\ u \in Seq(Items) /\ Len(u) = Len(s) + 1 /\ u[Len(s) + 1] = w
          /\ \A j \in 1..Len(s) : u[j] = MapFn[s[j]]
      BY <1>0, <3>1
    <3>3. /\ t \in Seq(Items) /\ Len(t) = Len(s)
          /\ \A j \in 1..Len(s) : t[j] = MapFn[s[j]]
      BY <1>0
    <3>. HIDE DEF t, u
    <3>4. \A j \in 1..Len(u) : u[j] = Append(t, w)[j]
      BY <1>0, <2>2, <3>2, <3>3
    <3>5. Append(t, w) \in Seq(Items) /\ Len(Append(t, w)) = Len(s) + 1
      BY <2>2, <3>3
    <3>6. u = Append(t, w)
      BY <3>2, <3>4, <3>5, SeqEqual
    <3>7. Append(t, w) = t \o <<w>>
      BY <2>2, <3>3
    <3>. QED  BY <3>6, <3>7 DEF t, u
  <2>. QED  BY <2>1, <2>2, <2>3
<1>2. CASE p.kind = "filter"
  <2>. DEFINE F == [w \in Items |-> IF w \in Keep THEN <<w>> ELSE <<>>]
              ss == [j \in DOMAIN s |-> F[s[j]]]
              tt == [j \in DOMAIN Append(s, v) |-> F[Append(s, v)[j]]]
  <2>1. F \in [Items -> Seq(Items)]
    OBVIOUS
  <2>2. ss = [j \in DOMAIN s |-> IF s[j] \in Keep THEN <<s[j]>> ELSE <<>>]
    BY <1>0
  <2>3. tt = [j \in DOMAIN Append(s, v) |->
                IF Append(s, v)[j] \in Keep THEN <<Append(s, v)[j]>> ELSE <<>>]
    <3>1. \A j \in DOMAIN Append(s, v) : Append(s, v)[j] \in Items
      OBVIOUS
    <3>. QED  BY <3>1
  <2>4. F[v] = IF v \in Keep THEN <<v>> ELSE <<>>
    OBVIOUS
  <2>5. ApplyStage(s, p) = Concat(ss) /\ ApplyStage(Append(s, v), p) = Concat(tt)
    BY <1>2, <2>2, <2>3, Zenon DEF ApplyStage
  <2>6. Yield(p, Len(s), v) = F[v]
    BY <1>2, <2>4 DEF Yield
  <2>. HIDE DEF F
  <2>7. F[v] \in Seq(Items)
    BY <2>1
  <2>8. Concat(ss) \in Seq(Items) /\ Concat(tt) = Concat(ss) \o F[v]
    BY <2>1, EachAppend, Zenon
  <2>. QED  BY <2>5, <2>6, <2>7, <2>8
<1>3. CASE p.kind = "flat_map"
  <2>. DEFINE ss == [j \in DOMAIN s |-> Expand[s[j]]]
              tt == [j \in DOMAIN Append(s, v) |-> Expand[Append(s, v)[j]]]
  <2>1. ApplyStage(s, p) = Concat(ss) /\ ApplyStage(Append(s, v), p) = Concat(tt)
    BY <1>3 DEF ApplyStage
  <2>2. Yield(p, Len(s), v) = Expand[v]
    BY <1>3 DEF Yield
  <2>3. Expand[v] \in Seq(Items)
    BY <1>0
  <2>4. Concat(ss) \in Seq(Items) /\ Concat(tt) = Concat(ss) \o Expand[v]
    BY <1>0, EachAppend, Zenon
  <2>. QED  BY <2>1, <2>2, <2>3, <2>4
<1>4. CASE p.kind = "take"
  <2>1. p.n \in Nat
    BY <1>4, StageKinds
  <2>2. /\ ApplyStage(s, p) = SubSeq(s, 1, IF p.n < Len(s) THEN p.n ELSE Len(s))
        /\ ApplyStage(Append(s, v), p)
             = SubSeq(Append(s, v), 1, IF p.n < Len(s) + 1 THEN p.n ELSE Len(s) + 1)
        /\ Yield(p, Len(s), v) = IF Len(s) < p.n THEN <<v>> ELSE <<>>
    <3>1. Len(Append(s, v)) = Len(s) + 1
      OBVIOUS
    <3>. QED  BY <1>4, <3>1 DEF ApplyStage, Yield
  <2>3. CASE p.n < Len(s)
    <3>1. SubSeq(Append(s, v), 1, p.n) = SubSeq(s, 1, p.n) /\ SubSeq(s, 1, p.n) \in Seq(Items)
      BY <2>1, <2>3
    <3>2. SubSeq(s, 1, p.n) \o <<>> = SubSeq(s, 1, p.n)
      BY <3>1
    <3>3. p.n < Len(s) + 1 /\ ~ (Len(s) < p.n)
      BY <1>0, <2>1, <2>3
    <3>. QED  BY <2>2, <2>3, <3>1, <3>2, <3>3
  <2>4. CASE p.n = Len(s)
    <3>1. SubSeq(Append(s, v), 1, Len(s)) = s /\ SubSeq(s, 1, Len(s)) = s /\ s \o <<>> = s
      OBVIOUS
    <3>2. p.n < Len(s) + 1 /\ ~ (Len(s) < p.n)
      BY <1>0, <2>4
    <3>3. ApplyStage(s, p) = s /\ Yield(p, Len(s), v) = <<>> /\ ApplyStage(Append(s, v), p) = s
      BY <2>2, <2>4, <3>1, <3>2
    <3>. QED  BY <3>1, <3>3
  <2>5. CASE p.n > Len(s)
    <3>1. /\ SubSeq(Append(s, v), 1, Len(s) + 1) = Append(s, v) /\ SubSeq(s, 1, Len(s)) = s
          /\ Append(s, v) = s \o <<v>> /\ <<v>> \in Seq(Items)
      <4>1. Append(s, v) \in Seq(Items) /\ Len(Append(s, v)) = Len(s) + 1
        OBVIOUS
      <4>2. SubSeq(Append(s, v), 1, Len(s) + 1) = Append(s, v)
        BY <4>1, SubSeqFull
      <4>3. Append(s, v) = s \o <<v>>
        BY AppendIsConcat
      <4>. QED  BY <4>2, <4>3
    <3>2. ApplyStage(s, p) = s /\ Yield(p, Len(s), v) = <<v>>
      BY <1>0, <2>1, <2>2, <2>5, <3>1
    <3>3. ApplyStage(Append(s, v), p) = Append(s, v)
      <4>1. (IF p.n < Len(s) + 1 THEN p.n ELSE Len(s) + 1) = Len(s) + 1
        BY <1>0, <2>1, <2>5
      <4>. QED  BY <2>2, <3>1, <4>1
    <3>. QED  BY <3>1, <3>2, <3>3
  <2>. QED  BY <1>0, <2>1, <2>3, <2>4, <2>5
<1>. QED  BY <1>1, <1>2, <1>3, <1>4, StageKinds

\* A stage makes nothing of nothing.
LEMMA StageEmpty ==
  ASSUME PipelineAssumption, NEW p \in Stage
  PROVE  ApplyStage(<<>>, p) = <<>>
<1>1. ASSUME NEW ss, DOMAIN ss = {} PROVE Concat(ss) = <<>>
  <2>1. Len(ss) = 0
    BY <1>1
  <2>. QED  BY <2>1, ConcatEmpty
<1>2. CASE p.kind \in {"filter", "flat_map"}
  <2>1. DOMAIN <<>> = {}
    OBVIOUS
  <2>. QED  BY <1>1, <1>2, <2>1 DEF ApplyStage
<1>3. CASE p.kind = "map"
  BY <1>3 DEF ApplyStage
<1>4. CASE p.kind = "take"
  BY <1>4, StageKinds DEF ApplyStage
<1>. QED  BY <1>2, <1>3, <1>4, StageKinds

-----------------------------------------------------------------------------
(* Pipeline: what begins with what. *)

Begins(s, t) == \E u \in Seq(Items) : t = s \o u

LEMMA BeginsReflexive ==
  ASSUME NEW s \in Seq(Items)
  PROVE  Begins(s, s)
<1>1. <<>> \in Seq(Items) /\ s = s \o <<>>
  BY EmptySeq, ConcatEmptySeq
<1>. QED  BY <1>1 DEF Begins

LEMMA BeginsTransitive ==
  ASSUME NEW s \in Seq(Items), NEW t, NEW w, Begins(s, t), Begins(t, w)
  PROVE  Begins(s, w)
<1>1. PICK u \in Seq(Items) : t = s \o u
  BY DEF Begins
<1>2. PICK x \in Seq(Items) : w = t \o x
  BY DEF Begins
<1>3. w = s \o (u \o x) /\ u \o x \in Seq(Items)
  BY <1>1, <1>2, ConcatAssociative, ConcatProperties
<1>. QED  BY <1>3 DEF Begins

\* What one sequence begins with is a prefix of it.
LEMMA BeginsIsPrefix ==
  ASSUME NEW s \in Seq(Items), NEW t \in Seq(Items), Begins(s, t)
  PROVE  Len(s) <= Len(t) /\ SubSeq(t, 1, Len(s)) = s /\ IsPrefix(s, t)
<1>1. PICK u \in Seq(Items) : t = s \o u
  BY DEF Begins
<1>2. Len(s) \in Nat /\ Len(u) \in Nat /\ Len(t) = Len(s) + Len(u)
  BY <1>1
<1>3. \A j \in 1..Len(s) : t[j] = s[j]
  BY <1>1
<1>4. SubSeq(s, 1, Len(s)) = s
  BY SubSeqFull
<1>5. SubSeq(t, 1, Len(s)) = s
  <2>1. SubSeq(t, 1, Len(s)) \in Seq(Items) /\ Len(SubSeq(t, 1, Len(s))) = Len(s)
    BY <1>2
  <2>2. \A j \in 1..Len(s) : SubSeq(t, 1, Len(s))[j] = s[j]
    BY <1>2, <1>3
  <2>. QED  BY <2>1, <2>2, SeqEqual
<1>. QED  BY <1>2, <1>4, <1>5 DEF IsPrefix

\* What a stage makes is a sequence of elements.
LEMMA StageType ==
  ASSUME PipelineAssumption, NEW p \in Stage, NEW s \in Seq(Items)
  PROVE  ApplyStage(s, p) \in Seq(Items)
<1>1. CASE s = <<>>
  <2>1. ApplyStage(s, p) = <<>>
    BY <1>1, StageEmpty
  <2>. QED  BY <2>1, EmptySeq
<1>2. CASE s # <<>>
  <2>1. Head(s) \in Items
    BY <1>2
  <2>. QED  BY <2>1, StageAppends
<1>. QED  BY <1>1, <1>2

\* A stage makes of a longer sequence what it makes of a shorter, and more.
LEMMA StageMonotone ==
  ASSUME PipelineAssumption, NEW p \in Stage, NEW s \in Seq(Items), NEW t, Begins(s, t)
  PROVE  Begins(ApplyStage(s, p), ApplyStage(t, p))
<1>. DEFINE A(x) == ApplyStage(x, p)
            S == {m \in Nat : \A u \in Seq(Items) : Len(u) = m => Begins(A(s), A(s \o u))}
<1>1. ASSUME NEW x \in Seq(Items), NEW v \in Items
      PROVE  /\ A(x) \in Seq(Items) /\ Yield(p, Len(x), v) \in Seq(Items)
             /\ A(Append(x, v)) = A(x) \o Yield(p, Len(x), v)
  BY StageAppends
<1>2. A(s) \in Seq(Items)
  BY StageType
<1>. HIDE DEF A
<1>3. 0 \in S
  <2>1. ASSUME NEW u \in Seq(Items), Len(u) = 0 PROVE s \o u = s
    BY <2>1
  <2>2. Begins(A(s), A(s))
    BY <1>2, BeginsReflexive
  <2>. QED  BY <2>1, <2>2
<1>4. ASSUME NEW m \in Nat, m \in S PROVE m + 1 \in S
  <2>. SUFFICES ASSUME NEW u \in Seq(Items), Len(u) = m + 1
                PROVE  Begins(A(s), A(s \o u))
    OBVIOUS
  <2>1. PICK x \in Seq(Items), v \in Items : u = Append(x, v)
    <3>1. u # <<>>
      OBVIOUS
    <3>. QED  BY <3>1, SequenceEmptyOrAppend
  <2>2. Len(x) = m
    BY <2>1
  <2>3. Begins(A(s), A(s \o x))
    BY <1>4, <2>2
  <2>4. s \o x \in Seq(Items) /\ s \o u = Append(s \o x, v)
    <3>1. s \o x \in Seq(Items) /\ u = x \o <<v>> /\ <<v>> \in Seq(Items)
      BY <2>1, AppendIsConcat
    <3>2. s \o u = (s \o x) \o <<v>>
      BY <3>1, ConcatAssociative
    <3>3. Append(s \o x, v) = (s \o x) \o <<v>>
      BY <3>1, AppendIsConcat
    <3>. QED  BY <3>1, <3>2, <3>3
  <2>5. Begins(A(s \o x), A(s \o u))
    <3>. DEFINE y == Yield(p, Len(s \o x), v)
    <3>1. y \in Seq(Items) /\ A(s \o u) = A(s \o x) \o y
      BY <2>4, <1>1
    <3>. QED  BY <3>1 DEF Begins
  <2>. QED  BY <1>2, <2>3, <2>5, BeginsTransitive
<1>. HIDE DEF S
<1>5. Nat \subseteq S
  BY <1>3, <1>4, InductionOnSet
<1>6. PICK u \in Seq(Items) : t = s \o u
  BY DEF Begins
<1>7. Len(u) \in S
  BY <1>5, <1>6
<1>8. Begins(A(s), A(t))
  BY <1>6, <1>7 DEF S
<1>. QED  BY <1>8 DEF A

-----------------------------------------------------------------------------
(* Pipeline: sequences go through stages. *)

IsThrough(r, p, m, s) == r = [k \in 0..m |-> IF k = 0 THEN s ELSE ApplyStage(r[k - 1], p[k])]

Throughs(p, m, s) == CHOOSE r : IsThrough(r, p, m, s)

\* What the first m stages of p make of s.
Thru(p, m, s) == Throughs(p, m, s)[m]

LEMMA ThroughIs ==
  ASSUME NEW m, NEW s
  PROVE  Through(m, s) = Thru(plan, m, s)
BY DEF Through, Thru, Throughs, IsThrough

LEMMA ThroughIsNext ==
  ASSUME NEW m, NEW s
  PROVE  Through(m, s)' = Thru(plan', m, s)
BY DEF Through, Thru, Throughs, IsThrough

LEMMA ThroughExists ==
  ASSUME PipelineAssumption, NEW p \in Seq(Stage), NEW m \in 0..Len(p), NEW s \in Seq(Items)
  PROVE  \E r : IsThrough(r, p, m, s)
<1>. DEFINE X == Seq(Items)
            G == [q \in (1..m) \X X |-> ApplyStage(q[2], p[q[1]])]
<1>0. m \in Nat /\ \A k \in 1..m : p[k] \in Stage
  OBVIOUS
<1>1. G \in [(1..m) \X X -> X]
  <2>1. \A q \in (1..m) \X X : q[2] \in Seq(Items) /\ p[q[1]] \in Stage
    BY <1>0
  <2>2. \A q \in (1..m) \X X : ApplyStage(q[2], p[q[1]]) \in Seq(Items)
    BY <2>1, StageType
  <2>. QED  BY <2>2
<1>2. ASSUME NEW k \in 1..m, NEW x \in X
      PROVE  G[<<k, x>>] = ApplyStage(x, p[k])
  <2>1. <<k, x>> \in (1..m) \X X
    OBVIOUS
  <2>. HIDE DEF X
  <2>. QED  BY <2>1
<1>. HIDE DEF G
<1>3. PICK r \in [0..m -> X] : r[0] = s /\ Recurs(r, G, m)
  <2>1. s \in X
    OBVIOUS
  <2>. HIDE DEF X
  <2>. QED  BY <1>0, <1>1, <2>1, RecursionExists, Zenon
<1>. HIDE DEF X
<1>4. r = [k \in 0..m |-> r[k]]
  BY <1>3
<1>5. ASSUME NEW k \in 0..m
      PROVE  r[k] = IF k = 0 THEN s ELSE ApplyStage(r[k - 1], p[k])
  <2>1. CASE k = 0
    BY <2>1, <1>3
  <2>2. CASE k # 0
    <3>1. k \in 1..m /\ r[k - 1] \in X
      BY <2>2, <1>3
    <3>2. r[k] = G[<<k, r[k - 1]>>]
      BY <3>1, <1>3 DEF Recurs
    <3>. QED  BY <3>1, <3>2, <1>2, <2>2
  <2>. QED  BY <2>1, <2>2
<1>. QED  BY <1>4, <1>5 DEF IsThrough

LEMMA ThroughsAre ==
  ASSUME PipelineAssumption, NEW p \in Seq(Stage), NEW m \in 0..Len(p), NEW s \in Seq(Items)
  PROVE  /\ Throughs(p, m, s)[0] = s
         /\ \A k \in 1..m : Throughs(p, m, s)[k] = ApplyStage(Throughs(p, m, s)[k - 1], p[k])
<1>1. IsThrough(Throughs(p, m, s), p, m, s)
  BY ThroughExists, Zenon DEF Throughs
<1>. DEFINE r == Throughs(p, m, s)
<1>2. \A k \in 0..m : r[k] = IF k = 0 THEN s ELSE ApplyStage(r[k - 1], p[k])
  BY <1>1, Zenon DEF IsThrough
<1>3. 0 \in 0..m /\ \A k \in 1..m : k \in 0..m /\ k # 0
  OBVIOUS
<1>. HIDE DEF r
<1>4. r[0] = s /\ \A k \in 1..m : r[k] = ApplyStage(r[k - 1], p[k])
  BY <1>2, <1>3, Zenon
<1>. QED  BY <1>4 DEF r

LEMMA ThroughsAgree ==
  ASSUME PipelineAssumption, NEW p \in Seq(Stage), NEW M \in 0..Len(p), NEW m \in 0..M,
         NEW s \in Seq(Items)
  PROVE  \A k \in 0..m : Throughs(p, m, s)[k] = Throughs(p, M, s)[k]
<1>. DEFINE g == Throughs(p, m, s)
            h == Throughs(p, M, s)
<1>1. m \in 0..Len(p) /\ m \in Nat /\ M \in Nat /\ m <= M
  OBVIOUS
<1>2. g[0] = s /\ \A k \in 1..m : g[k] = ApplyStage(g[k - 1], p[k])
  BY <1>1, ThroughsAre
<1>3. h[0] = s /\ \A k \in 1..M : h[k] = ApplyStage(h[k - 1], p[k])
  BY ThroughsAre
<1>. HIDE DEF g, h
<1>. DEFINE S == {k \in Nat : k <= m => g[k] = h[k]}
<1>4. 0 \in S
  BY <1>2, <1>3
<1>5. ASSUME NEW k \in Nat, k \in S PROVE k + 1 \in S
  <2>. SUFFICES ASSUME k + 1 <= m PROVE g[k + 1] = h[k + 1]
    OBVIOUS
  <2>1. k + 1 \in 1..m /\ k + 1 \in 1..M /\ (k + 1) - 1 = k /\ g[k] = h[k]
    BY <1>1, <1>5
  <2>2. g[k + 1] = ApplyStage(g[k], p[k + 1]) /\ h[k + 1] = ApplyStage(h[k], p[k + 1])
    BY <2>1, <1>2, <1>3
  <2>. QED  BY <2>1, <2>2
<1>. HIDE DEF S
<1>6. Nat \subseteq S
  BY <1>4, <1>5, InductionOnSet
<1>7. \A k \in 0..m : g[k] = h[k]
  BY <1>6 DEF S
<1>. QED  BY <1>7 DEF g, h

\* The stages one after the other.
LEMMA ThruStep ==
  ASSUME PipelineAssumption, NEW p \in Seq(Stage), NEW s \in Seq(Items)
  PROVE  /\ Thru(p, 0, s) = s
         /\ \A k \in 1..Len(p) : Thru(p, k, s) = ApplyStage(Thru(p, k - 1, s), p[k])
<1>1. Thru(p, 0, s) = s
  <2>1. 0 \in 0..Len(p)
    OBVIOUS
  <2>. QED  BY <2>1, ThroughsAre DEF Thru
<1>2. ASSUME NEW k \in 1..Len(p)
      PROVE  Thru(p, k, s) = ApplyStage(Thru(p, k - 1, s), p[k])
  <2>1. k \in 0..Len(p) /\ k - 1 \in 0..k /\ k - 1 \in 0..(k - 1) /\ k \in 1..k
    OBVIOUS
  <2>2. Throughs(p, k, s)[k] = ApplyStage(Throughs(p, k, s)[k - 1], p[k])
    BY <2>1, ThroughsAre
  <2>3. Throughs(p, k - 1, s)[k - 1] = Throughs(p, k, s)[k - 1]
    BY <2>1, ThroughsAgree, Zenon
  <2>. QED  BY <2>2, <2>3 DEF Thru
<1>. QED  BY <1>1, <1>2

\* If d says where every stage stands, what has come out so far is what the
\* stages make of s, up to some point.
LEMMA ThruBegins ==
  ASSUME PipelineAssumption, NEW p \in Seq(Stage), NEW s \in Seq(Items),
         NEW d \in [1..Len(p) + 1 -> Seq(Items)], Begins(d[1], s),
         \A k \in 1..Len(p) : Begins(d[k + 1], ApplyStage(d[k], p[k]))
  PROVE  \A k \in 0..Len(p) : Begins(d[k + 1], Thru(p, k, s)) /\ Thru(p, k, s) \in Seq(Items)
<1>. DEFINE S == {k \in Nat : k <= Len(p) =>
                    Begins(d[k + 1], Thru(p, k, s)) /\ Thru(p, k, s) \in Seq(Items)}
<1>1. 0 \in S
  <2>1. Thru(p, 0, s) = s /\ 0 + 1 = 1
    BY ThruStep
  <2>. QED  BY <2>1
<1>2. ASSUME NEW k \in Nat, k \in S PROVE k + 1 \in S
  <2>. SUFFICES ASSUME k + 1 <= Len(p)
                PROVE  /\ Begins(d[(k + 1) + 1], Thru(p, k + 1, s))
                       /\ Thru(p, k + 1, s) \in Seq(Items)
    OBVIOUS
  <2>. DEFINE t == Thru(p, k, s)
  <2>1. /\ Len(p) \in Nat /\ k + 1 \in 1..Len(p) /\ (k + 1) - 1 = k
        /\ k + 1 \in 1..Len(p) + 1 /\ (k + 1) + 1 \in 1..Len(p) + 1
    OBVIOUS
  <2>2. t \in Seq(Items) /\ Begins(d[k + 1], t) /\ p[k + 1] \in Stage
    BY <1>2, <2>1
  <2>3. Thru(p, k + 1, s) = ApplyStage(t, p[k + 1])
    BY <2>1, ThruStep
  <2>4. d[k + 1] \in Seq(Items) /\ d[(k + 1) + 1] \in Seq(Items)
    BY <2>1
  <2>. HIDE DEF t
  <2>5. Begins(ApplyStage(d[k + 1], p[k + 1]), ApplyStage(t, p[k + 1]))
    BY <2>2, <2>4, StageMonotone
  <2>6. Begins(d[(k + 1) + 1], ApplyStage(d[k + 1], p[k + 1]))
    BY <2>1
  <2>7. ApplyStage(t, p[k + 1]) \in Seq(Items)
    BY <2>2, StageType
  <2>. QED  BY <2>3, <2>4, <2>5, <2>6, <2>7, BeginsTransitive
<1>. HIDE DEF S
<1>3. Nat \subseteq S
  BY <1>1, <1>2, InductionOnSet
<1>. QED  BY <1>3 DEF S

\* From a stage on, behind which nothing is on its way, exactly.
LEMMA ThruExact ==
  ASSUME PipelineAssumption, NEW p \in Seq(Stage), NEW s \in Seq(Items),
         NEW d \in [1..Len(p) + 1 -> Seq(Items)], NEW j \in 0..Len(p),
         Thru(p, j, s) = d[j + 1],
         \A k \in 1..Len(p) : k > j => ApplyStage(d[k], p[k]) = d[k + 1]
  PROVE  \A k \in j..Len(p) : Thru(p, k, s) = d[k + 1]
<1>. DEFINE S == {k \in Nat : k \in j..Len(p) => Thru(p, k, s) = d[k + 1]}
<1>1. 0 \in S
  OBVIOUS
<1>2. ASSUME NEW k \in Nat, k \in S PROVE k + 1 \in S
  <2>. SUFFICES ASSUME k + 1 \in j..Len(p) PROVE Thru(p, k + 1, s) = d[(k + 1) + 1]
    OBVIOUS
  <2>1. CASE k + 1 = j
    BY <2>1
  <2>2. CASE k + 1 # j
    <3>1. k \in j..Len(p) /\ k + 1 \in 1..Len(p) /\ k + 1 > j /\ (k + 1) - 1 = k
      BY <2>2
    <3>2. Thru(p, k, s) = d[k + 1]
      BY <1>2, <3>1
    <3>3. Thru(p, k + 1, s) = ApplyStage(Thru(p, k, s), p[k + 1])
      BY <3>1, ThruStep
    <3>4. ApplyStage(d[k + 1], p[k + 1]) = d[(k + 1) + 1]
      BY <3>1
    <3>. QED  BY <3>2, <3>3, <3>4
  <2>. QED  BY <2>1, <2>2
<1>. HIDE DEF S
<1>3. Nat \subseteq S
  BY <1>1, <1>2, InductionOnSet
<1>. QED  BY <1>3 DEF S

-----------------------------------------------------------------------------
(* Pipeline: for all chains of stages, containers and functions. *)

Takes == {j \in DOMAIN plan : plan[j].kind = "take"}

PipelineTypes ==
  /\ plan \in Seq(Stage) /\ source \in Seq(Items)
  /\ phase \in {"idle", "running"}
  /\ next \in 1..Len(source) + 1
  /\ pending \in [Callbacks -> Seq(Items)]
  /\ left \in [Takes -> Nat]
  /\ out \in Seq(Items)

\* d[k] is what the callback k has been called with: the elements read are
\* those or wait for the first, what a stage makes of those has reached the
\* next or waits for it, and a take has counted its own.
Flow(d) ==
  /\ d \in [Callbacks -> Seq(Items)]
  /\ SubSeq(source, 1, next - 1) = d[1] \o pending[1]
  /\ \A k \in DOMAIN plan : ApplyStage(d[k], plan[k]) = d[k + 1] \o pending[k + 1]
  /\ \A k \in Takes : Len(d[k]) + left[k] = plan[k].n
  /\ out = d[Len(plan) + 1]

FewPulls ==
  \A k \in Takes :
    next > 2 => Len(Thru(plan, k - 1, SubSeq(source, 1, next - 2))) <= plan[k].n

PipelineInv ==
  /\ PipelineTypes /\ FewPulls
  /\ phase = "idle" => /\ Returned
                       /\ \/ out = Thru(plan, Len(plan), source)
                          \/ next = 1 /\ out = <<>>
  /\ phase = "running" => \E d : Flow(d)

\* Initially no terminal operation has begun.
LEMMA PipelineInvInit == ASSUME PipelineAssumption, PipelineInit PROVE PipelineInv
<1>1. plan \in Seq(Stage) /\ source \in Seq(Items)
  BY DEF PipelineAssumption, PipelineInit
<1>2. left \in [Takes -> Nat]
  BY <1>1, StageKinds DEF PipelineInit, Limits, Takes
<1>3. <<>> \in Seq(Items) /\ next \in 1..Len(source) + 1 /\ phase = "idle"
  BY <1>1, EmptySeq DEF PipelineInit
<1>4. pending \in [Callbacks -> Seq(Items)] /\ Returned
  BY <1>3 DEF PipelineInit, Returned
<1>5. PipelineTypes
  BY <1>1, <1>2, <1>3, <1>4 DEF PipelineTypes, PipelineInit
<1>6. FewPulls
  BY DEF PipelineInit, FewPulls
<1>. QED  BY <1>3, <1>4, <1>5, <1>6 DEF PipelineInv, PipelineInit

\* An element gets through a stage.
LEMMA FlowMoves ==
  ASSUME PipelineAssumption, PipelineTypes, NEW d, Flow(d), NEW k \in DOMAIN plan, Runs(k),
         NEW vs, vs = Yield(plan[k], Len(d[k]), Head(pending[k])), Becomes(k, vs),
         UNCHANGED <<plan, source, next, out>>,
         \A j \in Takes : j # k => left'[j] = left[j],
         k \in Takes => left'[k] = left[k] - 1
  PROVE  pending' \in [Callbacks -> Seq(Items)] /\ \E e : Flow(e)'
<1>. DEFINE N == Len(plan)
            v == Head(pending[k])
<1>1. /\ N \in Nat /\ DOMAIN plan = 1..N /\ Callbacks = 1..(N + 1)
      /\ k \in Callbacks /\ k + 1 \in Callbacks /\ k # k + 1 /\ k \in 1..N
      /\ \A j \in 1..N : plan[j] \in Stage
  BY DEF PipelineTypes, Callbacks
<1>2. /\ d \in [Callbacks -> Seq(Items)] /\ pending \in [Callbacks -> Seq(Items)]
      /\ pending[k] \in Seq(Items) /\ pending[k] # <<>> /\ pending[k + 1] = <<>>
      /\ d[k] \in Seq(Items) /\ d[k + 1] \in Seq(Items)
  <2>1. d \in [Callbacks -> Seq(Items)] /\ pending \in [Callbacks -> Seq(Items)]
    BY DEF PipelineTypes, Flow
  <2>2. pending[k] # <<>> /\ \A j \in Callbacks : j > k => pending[j] = <<>>
    BY DEF Runs
  <2>3. k + 1 > k
    BY <1>1
  <2>4. pending[k + 1] = <<>>
    BY <1>1, <2>2, <2>3, Zenon
  <2>. QED  BY <1>1, <2>1, <2>2, <2>4, Zenon
<1>3. v \in Items /\ Tail(pending[k]) \in Seq(Items) /\ pending[k] = <<v>> \o Tail(pending[k])
  BY <1>2
<1>4. vs \in Seq(Items) /\ ApplyStage(Append(d[k], v), plan[k]) = ApplyStage(d[k], plan[k]) \o vs
  BY <1>1, <1>2, <1>3, StageAppends
<1>5. pending' = [pending EXCEPT ![k] = Tail(@), ![k + 1] = vs]
  BY DEF Becomes
<1>. HIDE DEF N, v
<1>6. /\ pending' \in [Callbacks -> Seq(Items)]
      /\ pending'[k] = Tail(pending[k]) /\ pending'[k + 1] = vs
      /\ \A j \in Callbacks : j # k /\ j # k + 1 => pending'[j] = pending[j]
  BY <1>1, <1>2, <1>3, <1>4, <1>5
<1>7. PICK e : e = [d EXCEPT ![k] = Append(d[k], v)]
  OBVIOUS
<1>8. Append(d[k], v) \in Seq(Items) /\ Len(Append(d[k], v)) = Len(d[k]) + 1
  BY <1>2, <1>3
<1>9. /\ e \in [Callbacks -> Seq(Items)] /\ e[k] = Append(d[k], v)
      /\ \A j \in Callbacks : j # k => e[j] = d[j]
  BY <1>1, <1>2, <1>7, <1>8
<1>10. e[k] \o pending'[k] = d[k] \o pending[k]
  <2>1. Append(d[k], v) = d[k] \o <<v>> /\ <<v>> \in Seq(Items)
    BY <1>2, <1>3, AppendIsConcat
  <2>2. (d[k] \o <<v>>) \o Tail(pending[k]) = d[k] \o (<<v>> \o Tail(pending[k]))
    <3>. DEFINE x == d[k]
                y == <<v>>
                z == Tail(pending[k])
    <3>1. x \in Seq(Items) /\ y \in Seq(Items) /\ z \in Seq(Items)
      BY <1>2, <1>3, <2>1
    <3>. HIDE DEF x, y, z
    <3>2. (x \o y) \o z = x \o (y \o z)
      BY <3>1, ConcatAssociative
    <3>. QED  BY <3>2 DEF x, y, z
  <2>. QED  BY <1>3, <1>6, <1>9, <2>1, <2>2
<1>11. SubSeq(source, 1, next - 1) = e[1] \o pending'[1]
  <2>1. SubSeq(source, 1, next - 1) = d[1] \o pending[1]
    BY DEF Flow
  <2>2. 1 # k + 1 /\ 1 \in Callbacks
    BY <1>1
  <2>. QED  BY <2>1, <2>2, <1>6, <1>9, <1>10
<1>12. ASSUME NEW j \in 1..N
       PROVE  ApplyStage(e[j], plan[j]) = e[j + 1] \o pending'[j + 1]
  <2>0. j \in Callbacks /\ j + 1 \in Callbacks
    BY <1>1
  <2>1. ApplyStage(d[j], plan[j]) = d[j + 1] \o pending[j + 1]
    BY <1>1 DEF Flow
  <2>2. CASE j = k
    <3>1. ApplyStage(d[k], plan[k]) = d[k + 1]
      BY <1>2, <2>1, <2>2, ConcatEmptySeq
    <3>2. e[k + 1] = d[k + 1]
      BY <1>1, <1>9
    <3>. QED  BY <1>4, <1>6, <1>9, <2>2, <3>1, <3>2
  <2>3. CASE j + 1 = k
    <3>1. j # k
      BY <2>3, <1>1
    <3>. QED  BY <1>9, <1>10, <2>0, <2>1, <2>3, <3>1
  <2>4. CASE j # k /\ j + 1 # k
    <3>1. j + 1 # k + 1
      BY <1>1, <2>4
    <3>. QED  BY <1>6, <1>9, <2>0, <2>1, <2>4, <3>1
  <2>. QED  BY <2>2, <2>3, <2>4
<1>13. ASSUME NEW j \in Takes
       PROVE  Len(e[j]) + left'[j] = plan[j].n
  <2>1. j \in Callbacks /\ left[j] \in Nat /\ Len(d[j]) \in Nat
    <3>1. j \in 1..N
      BY <1>1 DEF Takes
    <3>2. j \in Callbacks
      BY <1>1, <3>1
    <3>. QED  BY <1>2, <3>2 DEF PipelineTypes
  <2>2. Len(d[j]) + left[j] = plan[j].n
    BY DEF Flow
  <2>3. CASE j = k
    <3>1. left'[k] = left[k] - 1 /\ Len(e[k]) = Len(d[k]) + 1
      BY <1>8, <1>9, <2>3
    <3>2. Len(d[k]) + left[k] = plan[k].n /\ left[k] \in Nat /\ Len(d[k]) \in Nat
      BY <2>1, <2>2, <2>3
    <3>3. ASSUME NEW x \in Nat, NEW y \in Nat PROVE (x + 1) + (y - 1) = x + y
      OBVIOUS
    <3>5. (Len(d[k]) + 1) + (left[k] - 1) = Len(d[k]) + left[k]
      BY <3>2, <3>3, Zenon
    <3>4. Len(e[k]) + left'[k] = plan[k].n
      BY <3>1, <3>2, <3>5
    <3>. QED  BY <2>3, <3>4
  <2>4. CASE j # k
    BY <1>9, <2>1, <2>2, <2>4
  <2>. QED  BY <2>3, <2>4
<1>14. out = e[N + 1]
  <2>1. out = d[N + 1] /\ N + 1 # k /\ N + 1 \in Callbacks
    BY <1>1 DEF Flow, N
  <2>. QED  BY <2>1, <1>9
<1>15. Callbacks' = Callbacks /\ Takes' = Takes
  BY DEF Callbacks, Takes
<1>16. DOMAIN plan = 1..N /\ N = Len(plan)
  BY <1>1 DEF N
<1>17. Flow(e)'
  BY <1>9, <1>11, <1>12, <1>13, <1>14, <1>15, <1>16 DEF Flow
<1>. QED  BY <1>6, <1>17

\* While nothing is on its way, d says what the stages make of what was read.
LEMMA FlowRests ==
  ASSUME PipelineAssumption, PipelineTypes, NEW d, Flow(d), NEW j \in 0..Len(plan),
         NEW s \in Seq(Items), Thru(plan, j, s) = d[j + 1],
         \A k \in Callbacks : k > j + 1 => pending[k] = <<>>
  PROVE  \A k \in j..Len(plan) : Thru(plan, k, s) = d[k + 1]
<1>1. plan \in Seq(Stage) /\ d \in [1..Len(plan) + 1 -> Seq(Items)] /\ DOMAIN plan = 1..Len(plan)
  BY DEF PipelineTypes, Flow, Callbacks
<1>2. ASSUME NEW k \in 1..Len(plan), k > j
      PROVE  ApplyStage(d[k], plan[k]) = d[k + 1]
  <2>1. k + 1 \in Callbacks /\ k + 1 > j + 1
    BY <1>2 DEF Callbacks
  <2>2. pending[k + 1] = <<>> /\ d[k + 1] \in Seq(Items)
    BY <2>1 DEF Flow
  <2>3. ApplyStage(d[k], plan[k]) = d[k + 1] \o pending[k + 1]
    BY <1>1 DEF Flow
  <2>. QED  BY <2>2, <2>3, ConcatEmptySeq
<1>. QED  BY <1>1, <1>2, ThruExact, Zenon

\* What has been read is what the first callback has been called with.
LEMMA FlowRead ==
  ASSUME PipelineTypes, NEW d, Flow(d), Returned
  PROVE  /\ SubSeq(source, 1, next - 1) = d[1] /\ d[1] \in Seq(Items)
         /\ next > Len(source) => d[1] = source
<1>1. /\ 1 \in Callbacks /\ pending[1] = <<>> /\ d[1] \in Seq(Items)
      /\ source \in Seq(Items) /\ next \in 1..Len(source) + 1
  <2>1. Len(plan) \in Nat
    BY DEF PipelineTypes
  <2>2. 1 \in Callbacks
    BY <2>1 DEF Callbacks
  <2>. QED  BY <2>2 DEF PipelineTypes, Flow, Returned
<1>2. SubSeq(source, 1, next - 1) = d[1]
  <2>1. SubSeq(source, 1, next - 1) = d[1] \o pending[1]
    BY DEF Flow
  <2>. QED  BY <1>1, <2>1, ConcatEmptySeq
<1>3. ASSUME next > Len(source) PROVE d[1] = source
  <2>1. next - 1 = Len(source)
    BY <1>1, <1>3
  <2>2. SubSeq(source, 1, Len(source)) = source
    BY <1>1, SubSeqFull
  <2>. QED  BY <1>2, <2>1, <2>2
<1>. QED  BY <1>1, <1>2, <1>3

\* Every stage stands at a beginning of what it is to see.
LEMMA FlowBegins ==
  ASSUME PipelineAssumption, PipelineTypes, NEW d, Flow(d)
  PROVE  \A k \in 0..Len(plan) : /\ Begins(d[k + 1], Thru(plan, k, source))
                                 /\ Thru(plan, k, source) \in Seq(Items)
<1>1. /\ plan \in Seq(Stage) /\ d \in [1..Len(plan) + 1 -> Seq(Items)] /\ DOMAIN plan = 1..Len(plan)
      /\ source \in Seq(Items) /\ next \in 1..Len(source) + 1
      /\ pending \in [1..Len(plan) + 1 -> Seq(Items)]
  BY DEF PipelineTypes, Flow, Callbacks
<1>2. Begins(d[1], source)
  <2>. DEFINE r == SubSeq(source, 1, next - 1)
              u == SubSeq(source, next, Len(source))
  <2>1. r \in Seq(Items) /\ u \in Seq(Items)
    BY <1>1
  <2>2. source = r \o u
    <3>1. SubSeq(source, 1, Len(source)) = source
      BY <1>1, SubSeqFull
    <3>2. /\ 1 \in 1..Len(source) + 1 /\ next - 1 \in 1 - 1..Len(source)
          /\ Len(source) \in next - 1..Len(source) /\ (next - 1) + 1 = next
      BY <1>1
    <3>3. SubSeq(source, 1, Len(source))
            = SubSeq(source, 1, next - 1) \o SubSeq(source, (next - 1) + 1, Len(source))
      BY <1>1, <3>2, ConcatAdjacentSubSeq
    <3>. QED  BY <3>1, <3>2, <3>3
  <2>3. r = d[1] \o pending[1] /\ d[1] \in Seq(Items) /\ pending[1] \in Seq(Items)
    <3>1. 1 \in 1..Len(plan) + 1
      BY <1>1
    <3>. QED  BY <1>1, <3>1 DEF Flow
  <2>. HIDE DEF r, u
  <2>4. Begins(d[1], r) /\ Begins(r, source)
    BY <2>1, <2>2, <2>3 DEF Begins
  <2>. QED  BY <2>3, <2>4, BeginsTransitive
<1>3. ASSUME NEW k \in 1..Len(plan)
      PROVE  Begins(d[k + 1], ApplyStage(d[k], plan[k]))
  <2>1. k + 1 \in 1..Len(plan) + 1 /\ k \in DOMAIN plan
    BY <1>1
  <2>2. ApplyStage(d[k], plan[k]) = d[k + 1] \o pending[k + 1]
    BY <2>1 DEF Flow
  <2>3. pending[k + 1] \in Seq(Items)
    BY <1>1, <2>1
  <2>. QED  BY <2>2, <2>3 DEF Begins
<1>. QED  BY <1>1, <1>2, <1>3, ThruBegins, Zenon

\* A take that has let n elements through lets no more through, whatever comes.
LEMMA TakeIsDone ==
  ASSUME PipelineAssumption, PipelineTypes, NEW d, Flow(d), NEW k \in Takes,
         left[k] = 0, k + 1 \in Callbacks, pending[k + 1] = <<>>
  PROVE  Thru(plan, k, source) = d[k + 1]
<1>. DEFINE t == Thru(plan, k - 1, source)
            limit == plan[k].n
<1>1. /\ k \in 1..Len(plan) /\ k - 1 \in 0..Len(plan) /\ (k - 1) + 1 = k /\ plan[k] \in Stage
      /\ plan[k].kind = "take" /\ k \in Callbacks
      /\ plan \in Seq(Stage) /\ source \in Seq(Items) /\ k \in DOMAIN plan
  BY DEF Takes, PipelineTypes, Callbacks
<1>2. d[k] \in Seq(Items) /\ d[k + 1] \in Seq(Items)
  BY <1>1 DEF Flow
<1>3. Begins(d[k], t) /\ t \in Seq(Items)
  BY <1>1, FlowBegins
<1>4. Len(d[k]) = limit
  <2>1. Len(d[k]) + left[k] = plan[k].n
    BY DEF Flow
  <2>. QED  BY <1>2, <2>1
<1>5. Thru(plan, k, source) = ApplyStage(t, plan[k])
  BY <1>1, ThruStep
<1>6. ApplyStage(d[k], plan[k]) = d[k + 1]
  <2>1. ApplyStage(d[k], plan[k]) = d[k + 1] \o pending[k + 1]
    BY <1>1 DEF Flow
  <2>. QED  BY <1>2, <2>1, ConcatEmptySeq
<1>. HIDE DEF t
<1>7. Len(d[k]) <= Len(t) /\ SubSeq(t, 1, Len(d[k])) = d[k]
  BY <1>2, <1>3, BeginsIsPrefix
<1>8. ASSUME NEW s, Len(s) \in Nat, limit <= Len(s)
      PROVE  ApplyStage(s, plan[k]) = SubSeq(s, 1, limit)
  <2>1. (IF limit < Len(s) THEN limit ELSE Len(s)) = limit
    BY <1>2, <1>4, <1>8
  <2>. QED  BY <1>1, <2>1 DEF ApplyStage
<1>9. ApplyStage(t, plan[k]) = d[k]
  <2>1. Len(t) \in Nat /\ limit <= Len(t)
    BY <1>3, <1>4, <1>7
  <2>2. ApplyStage(t, plan[k]) = SubSeq(t, 1, limit)
    BY <1>8, <2>1
  <2>. QED  BY <1>4, <1>7, <2>2
<1>10. ApplyStage(d[k], plan[k]) = d[k]
  <2>1. SubSeq(d[k], 1, Len(d[k])) = d[k]
    BY <1>2, SubSeqFull
  <2>2. Len(d[k]) \in Nat /\ limit <= Len(d[k])
    BY <1>2, <1>4
  <2>. QED  BY <1>4, <1>8, <2>1, <2>2
<1>. QED  BY <1>5, <1>6, <1>9, <1>10

\* The order in which the invariant is put together from its parts.
LEMMA PipelineInvIs ==
  ASSUME PipelineInv
  PROVE  /\ PipelineTypes /\ FewPulls /\ phase \in {"idle", "running"}
         /\ \A k \in Callbacks : pending[k] # <<>> => phase = "running"
BY DEF PipelineInv, PipelineTypes, Returned

\* Steps that read nothing leave what was read.
LEMMA FewPullsKept ==
  ASSUME FewPulls, plan' = plan, (next' = 1) \/ (next' = next /\ source' = source)
  PROVE  FewPulls'
BY DEF FewPulls, Takes

\* Of an element that a stage gets, the invariant.
LEMMA StageStep ==
  ASSUME PipelineAssumption, PipelineInv, NEW k \in DOMAIN plan, Runs(k),
         UNCHANGED <<plan, source, phase, next, out>>, left' \in [Takes -> Nat],
         \A j \in Takes : j # k => left'[j] = left[j],
         k \in Takes => left'[k] = left[k] - 1,
         ASSUME NEW d, Flow(d)
         PROVE  Becomes(k, Yield(plan[k], Len(d[k]), Head(pending[k])))
  PROVE  PipelineInv'
<1>1. PipelineTypes /\ FewPulls /\ phase = "running"
  <2>1. k \in Callbacks
    BY DEF PipelineInv, PipelineTypes, Callbacks
  <2>. QED  BY <2>1, PipelineInvIs DEF Runs
<1>2. PICK d : Flow(d)
  BY <1>1 DEF PipelineInv
<1>3. Becomes(k, Yield(plan[k], Len(d[k]), Head(pending[k])))
  BY <1>2
<1>4. pending' \in [Callbacks -> Seq(Items)] /\ \E e : Flow(e)'
  BY <1>1, <1>2, <1>3, FlowMoves
<1>5. PipelineTypes'
  BY <1>1, <1>4 DEF PipelineTypes, Callbacks, Takes
<1>6. FewPulls'
  BY <1>1, FewPullsKept
<1>. QED  BY <1>1, <1>4, <1>5, <1>6 DEF PipelineInv

\* Terminal and ChangeSource begin anew.
LEMMA BeginStep ==
  ASSUME PipelineAssumption, PipelineInv, Terminal \/ \E s \in Sources : ChangeSource(s)
  PROVE  PipelineInv'
<1>1. /\ PipelineTypes /\ FewPulls /\ Returned
      /\ plan' = plan /\ pending' = pending /\ next' = 1 /\ out' = <<>> /\ left' = Limits(plan)
      /\ source' \in Seq(Items) /\ phase' \in {"idle", "running"}
  <2>1. phase = "idle"
    BY DEF Terminal, ChangeSource
  <2>2. source \in Seq(Items) /\ Sources \subseteq Seq(Items)
    BY DEF PipelineAssumption, PipelineInv, PipelineTypes
  <2>. QED  BY <2>1, <2>2 DEF PipelineInv, Terminal, ChangeSource
<1>2. plan \in Seq(Stage) /\ DOMAIN plan = 1..Len(plan) /\ Len(plan) \in Nat
  BY <1>1 DEF PipelineTypes
<1>3. left' \in [Takes -> Nat] /\ \A j \in Takes : left'[j] = plan[j].n /\ plan[j].n \in Nat
  BY <1>1, <1>2, StageKinds DEF Limits, Takes
<1>4. <<>> \in Seq(Items) /\ 1 \in 1..Len(source') + 1
  BY <1>1, EmptySeq
<1>5. Callbacks' = Callbacks /\ Takes' = Takes /\ Returned'
  BY <1>1 DEF Callbacks, Takes, Returned
<1>6. PipelineTypes'
  BY <1>1, <1>3, <1>4, <1>5 DEF PipelineTypes
<1>7. FewPulls'
  BY <1>1, FewPullsKept
<1>8. PICK e : e = [k \in Callbacks |-> <<>>]
  OBVIOUS
<1>9. Flow(e)'
  <2>1. e \in [Callbacks -> Seq(Items)] /\ \A k \in Callbacks : e[k] = <<>> /\ pending'[k] = <<>>
    BY <1>1, <1>4, <1>8 DEF Returned
  <2>2. <<>> \o <<>> = <<>> /\ Len(<<>>) = 0
    OBVIOUS
  <2>3. \A k \in 1..Len(plan) : k \in Callbacks /\ k + 1 \in Callbacks /\ plan[k] \in Stage
    BY <1>2 DEF Callbacks
  <2>4. 1 \in Callbacks /\ Len(plan) + 1 \in Callbacks
    BY <1>2 DEF Callbacks
  <2>5. SubSeq(source', 1, next' - 1) = e[1] \o pending'[1]
    <3>1. SubSeq(source', 1, 0) = <<>> /\ next' - 1 = 0
      BY <1>1, SubSeqEmpty
    <3>. QED  BY <2>1, <2>2, <2>4, <3>1
  <2>6. \A k \in DOMAIN plan : ApplyStage(e[k], plan[k]) = e[k + 1] \o pending'[k + 1]
    BY <1>2, <2>1, <2>2, <2>3, StageEmpty
  <2>7. \A k \in Takes : Len(e[k]) + left'[k] = plan[k].n
    <3>. SUFFICES ASSUME NEW k \in Takes PROVE Len(e[k]) + left'[k] = plan[k].n
      OBVIOUS
    <3>1. k \in Callbacks /\ e[k] = <<>>
      BY <1>2, <2>1, <2>3 DEF Takes
    <3>. QED  BY <1>3, <2>2, <3>1
  <2>8. out' = e[Len(plan) + 1]
    BY <1>1, <2>1, <2>4
  <2>. QED  BY <1>1, <1>5, <2>1, <2>5, <2>6, <2>7, <2>8 DEF Flow
<1>. QED  BY <1>1, <1>5, <1>6, <1>7, <1>9 DEF PipelineInv

\* Reading an element: every take still has room for one that it has not seen.
LEMMA PullStep ==
  ASSUME PipelineAssumption, PipelineInv, Pull
  PROVE  PipelineInv'
<1>1. /\ PipelineTypes /\ FewPulls /\ Returned /\ phase = "running" /\ next <= Len(source)
      /\ UNCHANGED <<plan, source, phase, left, out>> /\ next' = next + 1
      /\ pending' = [pending EXCEPT ![1] = <<source[next]>>]
  BY DEF PipelineInv, Pull
<1>2. PICK d : Flow(d)
  BY <1>1 DEF PipelineInv
<1>3. /\ plan \in Seq(Stage) /\ DOMAIN plan = 1..Len(plan) /\ Len(plan) \in Nat
      /\ source \in Seq(Items) /\ Len(source) \in Nat /\ next \in 1..Len(source)
      /\ source[next] \in Items /\ 1 \in Callbacks
  <2>1. plan \in Seq(Stage) /\ source \in Seq(Items) /\ next \in 1..Len(source) + 1
    BY <1>1 DEF PipelineTypes
  <2>2. next \in 1..Len(source)
    BY <1>1, <2>1
  <2>. QED  BY <2>1, <2>2 DEF Callbacks
<1>4. <<source[next]>> \in Seq(Items)
  BY <1>3
<1>5. /\ pending' \in [Callbacks -> Seq(Items)] /\ pending'[1] = <<source[next]>>
      /\ \A k \in Callbacks : k # 1 => pending'[k] = pending[k]
  BY <1>1, <1>3, <1>4 DEF PipelineTypes
<1>6. Callbacks' = Callbacks /\ Takes' = Takes
  BY <1>1 DEF Callbacks, Takes
<1>7. PipelineTypes'
  <2>1. next' \in 1..Len(source) + 1
    BY <1>1, <1>3
  <2>. QED  BY <1>1, <1>5, <1>6, <2>1 DEF PipelineTypes
<1>8. SubSeq(source, 1, next - 1) = d[1] /\ d[1] \in Seq(Items)
  BY <1>1, <1>2, FlowRead
<1>9. Flow(d)'
  <2>1. SubSeq(source, 1, next' - 1) = d[1] \o pending'[1]
    <3>1. next' - 1 = next /\ next \in 1..Len(source) /\ 1 \in 1..Len(source) /\ next \in 1..Len(source)
      BY <1>1, <1>3
    <3>2. SubSeq(source, 1, next) = SubSeq(source, 1, next - 1) \o <<source[next]>>
      BY <1>3, <3>1, SubSeqRecursiveSecond
    <3>. QED  BY <1>5, <1>8, <3>1, <3>2
  <2>2. \A k \in DOMAIN plan : ApplyStage(d[k], plan[k]) = d[k + 1] \o pending'[k + 1]
    <3>1. \A k \in DOMAIN plan : k + 1 \in Callbacks /\ k + 1 # 1
      BY <1>3 DEF Callbacks
    <3>. QED  BY <1>2, <1>5, <3>1 DEF Flow
  <2>. QED  BY <1>1, <1>2, <1>6, <2>1, <2>2 DEF Flow
<1>10. FewPulls'
  <2>. SUFFICES ASSUME NEW k \in Takes, next' > 2
                PROVE  Len(Thru(plan, k - 1, SubSeq(source, 1, next' - 2))) <= plan[k].n
    BY <1>1, <1>6 DEF FewPulls
  <2>1. next' - 2 = next - 1
    BY <1>1, <1>3
  <2>2. /\ k \in 1..Len(plan) /\ k - 1 \in 0..Len(plan) /\ (k - 1) + 1 = k /\ 0 \in 0..Len(plan)
        /\ k - 1 \in 0..Len(plan) /\ 0 + 1 = 1
    BY <1>3 DEF Takes
  <2>3. Thru(plan, 0, d[1]) = d[0 + 1]
    BY <1>3, <1>8, <2>2, ThruStep
  <2>4. \A j \in Callbacks : j > 0 + 1 => pending[j] = <<>>
    BY <1>1 DEF Returned
  <2>5. \A j \in 0..Len(plan) : Thru(plan, j, d[1]) = d[j + 1]
    BY <1>1, <1>2, <1>8, <2>2, <2>3, <2>4, FlowRests
  <2>6. Thru(plan, k - 1, d[1]) = d[k]
    BY <2>2, <2>5
  <2>7. Len(d[k]) + left[k] = plan[k].n
    BY <1>2 DEF Flow
  <2>8. Len(d[k]) \in Nat /\ left[k] \in Nat
    <3>1. k \in Callbacks
      BY <1>3, <2>2 DEF Callbacks
    <3>. QED  BY <1>1, <1>2, <3>1 DEF Flow, PipelineTypes
  <2>9. Len(d[k]) <= plan[k].n
    BY <2>7, <2>8
  <2>. QED  BY <1>8, <2>1, <2>6, <2>9
<1>. QED  BY <1>1, <1>7, <1>9, <1>10 DEF PipelineInv

\* The container is exhausted: what has come out is what the stages mean.
LEMMA ExhaustedStep ==
  ASSUME PipelineAssumption, PipelineInv, Exhausted
  PROVE  PipelineInv'
<1>1. /\ PipelineTypes /\ FewPulls /\ Returned /\ phase = "running" /\ next > Len(source)
      /\ UNCHANGED <<plan, source, next, pending, left, out>> /\ phase' = "idle"
  BY DEF PipelineInv, Exhausted
<1>2. PICK d : Flow(d)
  BY <1>1 DEF PipelineInv
<1>3. d[1] = source /\ source \in Seq(Items) /\ plan \in Seq(Stage) /\ 0 \in 0..Len(plan)
      /\ 0 + 1 = 1 /\ Len(plan) \in 0..Len(plan)
  BY <1>1, <1>2, FlowRead DEF PipelineTypes
<1>4. Thru(plan, 0, source) = d[0 + 1]
  BY <1>3, ThruStep
<1>5. \A k \in Callbacks : k > 0 + 1 => pending[k] = <<>>
  BY <1>1 DEF Returned
<1>6. \A k \in 0..Len(plan) : Thru(plan, k, source) = d[k + 1]
  BY <1>1, <1>2, <1>3, <1>4, <1>5, FlowRests
<1>7. out = Thru(plan, Len(plan), source)
  BY <1>2, <1>3, <1>6 DEF Flow
<1>8. PipelineTypes' /\ Returned'
  BY <1>1 DEF PipelineTypes, Callbacks, Takes, Returned
<1>9. FewPulls'
  BY <1>1, FewPullsKept
<1>. QED  BY <1>1, <1>7, <1>8, <1>9 DEF PipelineInv

\* A take ends the evaluation: nothing that comes could change the outcome.
LEMMA StopStep ==
  ASSUME PipelineAssumption, PipelineInv, NEW k \in Callbacks, StopIteration(k)
  PROVE  PipelineInv'
<1>1. /\ PipelineTypes /\ FewPulls /\ phase = "running" /\ k \in Takes /\ left[k] = 0
      /\ \A j \in Callbacks : j > k => pending[j] = <<>>
      /\ UNCHANGED <<plan, source, next, left, out>> /\ phase' = "idle"
      /\ pending' = [j \in Callbacks |-> <<>>]
  BY PipelineInvIs DEF StopIteration, At, Runs, Takes
<1>2. PICK d : Flow(d)
  BY <1>1 DEF PipelineInv
<1>3. /\ plan \in Seq(Stage) /\ source \in Seq(Items) /\ k \in 1..Len(plan) /\ k \in 0..Len(plan)
      /\ k + 1 \in Callbacks /\ k + 1 > k /\ Len(plan) \in k..Len(plan)
  BY <1>1 DEF PipelineTypes, Takes, Callbacks
<1>4. pending[k + 1] = <<>> /\ \A j \in Callbacks : j > k + 1 => pending[j] = <<>>
  <2>1. \A j \in Callbacks : j > k + 1 => j > k
    BY <1>3 DEF Callbacks
  <2>. QED  BY <1>1, <1>3, <2>1, Zenon
<1>5. Thru(plan, k, source) = d[k + 1]
  BY <1>1, <1>2, <1>3, <1>4, TakeIsDone
<1>6. \A j \in k..Len(plan) : Thru(plan, j, source) = d[j + 1]
  BY <1>1, <1>2, <1>3, <1>4, <1>5, FlowRests
<1>7. out = Thru(plan, Len(plan), source)
  BY <1>2, <1>3, <1>6 DEF Flow
<1>8. PipelineTypes' /\ Returned'
  <2>1. Callbacks' = Callbacks /\ Takes' = Takes
    BY <1>1 DEF Callbacks, Takes
  <2>2. pending' \in [Callbacks -> Seq(Items)]
    BY <1>1, EmptySeq
  <2>. QED  BY <1>1, <2>1, <2>2 DEF PipelineTypes, Returned
<1>9. FewPulls'
  BY <1>1, FewPullsKept
<1>. QED  BY <1>1, <1>7, <1>8, <1>9 DEF PipelineInv

\* The terminal operation receives an element.
LEMMA DeliverStep ==
  ASSUME PipelineAssumption, PipelineInv, Deliver
  PROVE  PipelineInv'
<1>. DEFINE k == Len(plan) + 1
            v == Head(pending[k])
<1>1. /\ PipelineTypes /\ FewPulls /\ pending[k] # <<>>
      /\ UNCHANGED <<plan, source, phase, next, left>>
      /\ out' = Append(out, v) /\ pending' = [pending EXCEPT ![k] = Tail(@)]
  BY DEF PipelineInv, Deliver, Runs
<1>2. /\ plan \in Seq(Stage) /\ Len(plan) \in Nat /\ DOMAIN plan = 1..Len(plan)
      /\ k \in Callbacks /\ Callbacks = 1..k
  BY <1>1 DEF PipelineTypes, Callbacks
<1>3. phase = "running"
  BY <1>1, <1>2, PipelineInvIs
<1>4. PICK d : Flow(d)
  BY <1>3 DEF PipelineInv
<1>5. /\ pending \in [Callbacks -> Seq(Items)] /\ d \in [Callbacks -> Seq(Items)]
      /\ pending[k] \in Seq(Items) /\ d[k] \in Seq(Items) /\ out = d[k]
  BY <1>1, <1>2, <1>4 DEF PipelineTypes, Flow
<1>6. v \in Items /\ Tail(pending[k]) \in Seq(Items) /\ pending[k] = <<v>> \o Tail(pending[k])
  BY <1>1, <1>5
<1>7. PICK e : e = [d EXCEPT ![k] = Append(d[k], v)]
  OBVIOUS
<1>8. /\ Append(d[k], v) \in Seq(Items) /\ e \in [Callbacks -> Seq(Items)]
      /\ e[k] = Append(d[k], v) /\ \A j \in Callbacks : j # k => e[j] = d[j]
  BY <1>2, <1>5, <1>6, <1>7
<1>9. /\ pending' \in [Callbacks -> Seq(Items)] /\ pending'[k] = Tail(pending[k])
      /\ \A j \in Callbacks : j # k => pending'[j] = pending[j]
  BY <1>1, <1>2, <1>5, <1>6
<1>10. e[k] \o pending'[k] = d[k] \o pending[k]
  <2>. DEFINE x == d[k]
              y == <<v>>
              z == Tail(pending[k])
  <2>1. x \in Seq(Items) /\ y \in Seq(Items) /\ z \in Seq(Items)
    BY <1>5, <1>6
  <2>2. Append(x, v) = x \o y
    BY <1>5, <1>6, AppendIsConcat
  <2>. HIDE DEF x, y, z, v
  <2>3. (x \o y) \o z = x \o (y \o z)
    BY <2>1, ConcatAssociative
  <2>. QED  BY <1>6, <1>8, <1>9, <2>2, <2>3 DEF x, y, z
<1>. HIDE DEF v
<1>11. Flow(e)'
  <2>1. SubSeq(source, 1, next - 1) = e[1] \o pending'[1]
    <3>1. SubSeq(source, 1, next - 1) = d[1] \o pending[1]
      BY <1>4 DEF Flow
    <3>2. 1 \in Callbacks
      BY <1>2
    <3>. QED  BY <1>8, <1>9, <1>10, <3>1, <3>2
  <2>2. ASSUME NEW j \in DOMAIN plan
        PROVE  ApplyStage(e[j], plan[j]) = e[j + 1] \o pending'[j + 1]
    <3>1. ApplyStage(d[j], plan[j]) = d[j + 1] \o pending[j + 1]
      BY <1>4 DEF Flow
    <3>2. j \in Callbacks /\ j # k /\ j + 1 \in Callbacks
      BY <1>2
    <3>. QED  BY <1>8, <1>9, <1>10, <3>1, <3>2
  <2>3. ASSUME NEW j \in Takes
        PROVE  Len(e[j]) + left[j] = plan[j].n
    <3>1. j \in Callbacks /\ j # k
      BY <1>2 DEF Takes
    <3>. QED  BY <1>4, <1>8, <3>1 DEF Flow
  <2>4. out' = e[k]
    BY <1>1, <1>5, <1>8
  <2>5. Callbacks' = Callbacks /\ Takes' = Takes
    BY <1>1 DEF Callbacks, Takes
  <2>. QED  BY <1>1, <1>8, <2>1, <2>2, <2>3, <2>4, <2>5 DEF Flow
<1>12. PipelineTypes'
  <2>1. Callbacks' = Callbacks /\ Takes' = Takes /\ out' \in Seq(Items)
    BY <1>1, <1>5, <1>8 DEF Callbacks, Takes
  <2>. QED  BY <1>1, <1>9, <2>1 DEF PipelineTypes
<1>13. FewPulls'
  BY <1>1, FewPullsKept
<1>. QED  BY <1>1, <1>3, <1>11, <1>12, <1>13 DEF PipelineInv

\* Every step preserves the invariant.
LEMMA PipelineInvStep ==
  ASSUME PipelineAssumption, PipelineInv, [PipelineNext]_pipelineVars
  PROVE  PipelineInv'
<1>0. PipelineTypes
  BY DEF PipelineInv
<1>1. CASE Terminal \/ \E s \in Sources : ChangeSource(s)
  BY <1>1, BeginStep
<1>2. CASE Pull
  BY <1>2, PullStep
<1>3. CASE Exhausted
  BY <1>3, ExhaustedStep
<1>4. CASE Deliver
  BY <1>4, DeliverStep
<1>5. ASSUME NEW k \in Callbacks, StopIteration(k) PROVE PipelineInv'
  BY <1>5, StopStep
\* What stages other than takes count stays the same.
<1>a. ASSUME NEW k \in Callbacks, k \notin Takes, left' = left
      PROVE  /\ left' \in [Takes -> Nat] /\ \A j \in Takes : j # k => left'[j] = left[j]
             /\ k \in Takes => left'[k] = left[k] - 1
  BY <1>0, <1>a DEF PipelineTypes
<1>6. ASSUME NEW k \in Callbacks, EvaluateMap(k) PROVE PipelineInv'
  <2>1. /\ k \in DOMAIN plan /\ Runs(k) /\ plan[k].kind = "map" /\ k \notin Takes
        /\ UNCHANGED <<plan, source, phase, next, out>> /\ left' = left
        /\ Becomes(k, <<MapFn[Head(pending[k])]>>)
    BY <1>6 DEF EvaluateMap, At, Takes
  <2>2. ASSUME NEW d, Flow(d)
        PROVE  Becomes(k, Yield(plan[k], Len(d[k]), Head(pending[k])))
    <3>1. Yield(plan[k], Len(d[k]), Head(pending[k])) = <<MapFn[Head(pending[k])]>>
      BY <2>1 DEF Yield
    <3>. QED  BY <2>1, <3>1
  <2>. QED  BY <1>a, <2>1, <2>2, StageStep
<1>7. ASSUME NEW k \in Callbacks, EvaluateFilter(k) PROVE PipelineInv'
  <2>1. /\ k \in DOMAIN plan /\ Runs(k) /\ plan[k].kind = "filter" /\ k \notin Takes
        /\ UNCHANGED <<plan, source, phase, next, out>> /\ left' = left
        /\ Becomes(k, IF Head(pending[k]) \in Keep THEN <<Head(pending[k])>> ELSE <<>>)
    BY <1>7 DEF EvaluateFilter, At, Takes
  <2>2. ASSUME NEW d, Flow(d)
        PROVE  Becomes(k, Yield(plan[k], Len(d[k]), Head(pending[k])))
    <3>1. Yield(plan[k], Len(d[k]), Head(pending[k]))
            = IF Head(pending[k]) \in Keep THEN <<Head(pending[k])>> ELSE <<>>
      BY <2>1 DEF Yield
    <3>. QED  BY <2>1, <3>1
  <2>. QED  BY <1>a, <2>1, <2>2, StageStep
<1>8. ASSUME NEW k \in Callbacks, EvaluateFlatMap(k) PROVE PipelineInv'
  <2>1. /\ k \in DOMAIN plan /\ Runs(k) /\ plan[k].kind = "flat_map" /\ k \notin Takes
        /\ UNCHANGED <<plan, source, phase, next, out>> /\ left' = left
        /\ Becomes(k, Expand[Head(pending[k])])
    BY <1>8 DEF EvaluateFlatMap, At, Takes
  <2>2. ASSUME NEW d, Flow(d)
        PROVE  Becomes(k, Yield(plan[k], Len(d[k]), Head(pending[k])))
    <3>1. Yield(plan[k], Len(d[k]), Head(pending[k])) = Expand[Head(pending[k])]
      BY <2>1 DEF Yield
    <3>. QED  BY <2>1, <3>1
  <2>. QED  BY <1>a, <2>1, <2>2, StageStep
<1>9. ASSUME NEW k \in Callbacks, EvaluateTake(k) PROVE PipelineInv'
  <2>1. /\ k \in DOMAIN plan /\ Runs(k) /\ plan[k].kind = "take" /\ k \in Takes
        /\ UNCHANGED <<plan, source, phase, next, out>>
        /\ left[k] > 0 /\ left' = [left EXCEPT ![k] = @ - 1]
        /\ Becomes(k, <<Head(pending[k])>>)
    BY <1>9 DEF EvaluateTake, At, Takes
  <2>2. left[k] \in Nat /\ left[k] - 1 \in Nat
    BY <1>0, <2>1 DEF PipelineTypes
  <2>3. /\ left' \in [Takes -> Nat] /\ \A j \in Takes : j # k => left'[j] = left[j]
        /\ left'[k] = left[k] - 1
    BY <1>0, <2>1, <2>2 DEF PipelineTypes
  <2>4. ASSUME NEW d, Flow(d)
        PROVE  Becomes(k, Yield(plan[k], Len(d[k]), Head(pending[k])))
    <3>1. Len(d[k]) + left[k] = plan[k].n /\ Len(d[k]) \in Nat
      BY <2>1, <2>4 DEF Flow
    <3>2. Len(d[k]) < plan[k].n
      BY <2>1, <2>2, <3>1
    <3>3. Yield(plan[k], Len(d[k]), Head(pending[k])) = <<Head(pending[k])>>
      BY <2>1, <3>2 DEF Yield
    <3>. QED  BY <2>1, <3>3
  <2>. QED  BY <2>1, <2>3, <2>4, StageStep
<1>10. CASE UNCHANGED pipelineVars
  <2>1. UNCHANGED <<plan, source, phase, next, pending, left, out>>
    BY <1>10 DEF pipelineVars
  <2>2. PipelineTypes' /\ FewPulls' /\ (Returned <=> Returned')
    BY <2>1 DEF PipelineInv, PipelineTypes, FewPulls, Callbacks, Takes, Returned
  <2>3. ASSUME NEW d PROVE Flow(d) <=> Flow(d)'
    BY <2>1 DEF Flow, Callbacks, Takes
  <2>. QED  BY <2>1, <2>2, <2>3 DEF PipelineInv
<1>. QED  BY <1>1, <1>2, <1>3, <1>4, <1>5, <1>6, <1>7, <1>8, <1>9, <1>10 DEF PipelineNext

\* At every step, what has come out is a beginning of what the stages mean.
LEMMA PipelineInvExact ==
  ASSUME PipelineAssumption, PipelineInv
  PROVE  PipelineExact
<1>1. /\ PipelineTypes /\ FewPulls
      /\ plan \in Seq(Stage) /\ source \in Seq(Items) /\ Len(plan) \in 0..Len(plan)
      /\ phase \in {"idle", "running"} /\ out \in Seq(Items)
  BY DEF PipelineInv, PipelineTypes
<1>. DEFINE t == Thru(plan, Len(plan), source)
<1>2. Meaning(source) = t
  BY ThroughIs DEF Meaning
<1>3. ASSUME phase = "idle" PROVE OutputExact
  <2>1. t \in Seq(Items)
    <3>. DEFINE S == {k \in Nat : k <= Len(plan) => Thru(plan, k, source) \in Seq(Items)}
    <3>1. 0 \in S
      BY <1>1, ThruStep
    <3>2. ASSUME NEW k \in Nat, k \in S PROVE k + 1 \in S
      <4>. SUFFICES ASSUME k + 1 <= Len(plan) PROVE Thru(plan, k + 1, source) \in Seq(Items)
        OBVIOUS
      <4>1. /\ k + 1 \in 1..Len(plan) /\ (k + 1) - 1 = k /\ plan[k + 1] \in Stage
            /\ Thru(plan, k, source) \in Seq(Items)
        BY <1>1, <3>2
      <4>2. Thru(plan, k + 1, source) = ApplyStage(Thru(plan, k, source), plan[k + 1])
        BY <1>1, <4>1, ThruStep
      <4>. QED  BY <4>1, <4>2, StageType
    <3>. HIDE DEF S
    <3>3. Nat \subseteq S
      BY <3>1, <3>2, InductionOnSet
    <3>. QED  BY <1>1, <3>3 DEF S
  <2>2. out = t \/ (next = 1 /\ out = <<>>)
    BY <1>3 DEF PipelineInv
  <2>. HIDE DEF t
  <2>3. Begins(out, t)
    <3>1. <<>> \in Seq(Items) /\ t = <<>> \o t
      BY <2>1, EmptySeq, ConcatEmptySeq
    <3>2. Begins(t, t) /\ Begins(<<>>, t)
      BY <2>1, <3>1, BeginsReflexive DEF Begins
    <3>. QED  BY <2>2, <3>2
  <2>4. IsPrefix(out, t)
    BY <1>1, <2>1, <2>3, BeginsIsPrefix, Zenon
  <2>. QED  BY <1>2, <2>2, <2>4 DEF OutputExact, Evaluated
<1>4. ASSUME phase = "running" PROVE OutputExact
  <2>1. PICK d : Flow(d)
    BY <1>4 DEF PipelineInv
  <2>2. Begins(d[Len(plan) + 1], t) /\ t \in Seq(Items)
    BY <1>1, <2>1, FlowBegins
  <2>3. out = d[Len(plan) + 1]
    BY <2>1 DEF Flow
  <2>. HIDE DEF t
  <2>4. IsPrefix(out, t)
    BY <1>1, <2>2, <2>3, BeginsIsPrefix, Zenon
  <2>5. ~ Evaluated
    BY <1>4 DEF Evaluated
  <2>. QED  BY <1>2, <2>4, <2>5 DEF OutputExact
<1>5. OutputExact
  BY <1>1, <1>3, <1>4
<1>6. DOMAIN left = Takes
  BY <1>1 DEF PipelineTypes
<1>7. PullsNoMore
  BY <1>1, <1>6, ThroughIs DEF PullsNoMore, FewPulls
<1>. QED  BY <1>5, <1>7 DEF PipelineExact

\* The types of the pipeline, how far every stage has got, and what is idle.
THEOREM PipelineInvariant == ASSUME PipelineAssumption PROVE PipelineSpec => []PipelineInv
<1>1. PipelineInit => PipelineInv
  BY PipelineInvInit
<1>2. PipelineInv /\ [PipelineNext]_pipelineVars => PipelineInv'
  BY PipelineInvStep
<1>. QED  BY <1>1, <1>2, PTL DEF PipelineSpec

(* A terminal operation receives what the stages mean, whatever they call and
   however takes and flat_maps nest, and no take has the container read on
   once one element too many has reached it. *)
THEOREM PipelineIsExact == ASSUME PipelineAssumption PROVE PipelineSpec => []PipelineExact
<1>1. PipelineInv => PipelineExact
  BY PipelineInvExact
<1>. QED  BY <1>1, PipelineInvariant, PTL

-----------------------------------------------------------------------------
(* Numbers as they are printed. *)

LEMMA Quotient ==
  ASSUME NEW z \in Nat, NEW c \in Nat \ {0}
  PROVE  /\ z = c * (z \div c) + (z % c)
         /\ z % c \in 0..(c - 1)
         /\ z \div c \in Nat
OBVIOUS

LEMMA QuotientIs ==
  ASSUME NEW k \in Int, NEW c \in Nat \ {0}
  PROVE  (k * c) \div c = k /\ (k * c) % c = 0
OBVIOUS

\* What is printed is nearest: half of the last decimal away, at most.
LEMMA RoundedIsNear ==
  ASSUME NEW m \in Nat
  PROVE  /\ Rounded(m) \in Nat
         /\ 2 * (Rounded(m) * Digit - m) <= Digit
         /\ 2 * (m - Rounded(m) * Digit) <= Digit
<1>. DEFINE q == m \div Digit
            r == m % Digit
            p == q * Digit
<1>1. Digit \in Nat \ {0}
  BY DecimalsAssumption
<1>2. m = p + r /\ r \in 0..(Digit - 1) /\ q \in Nat /\ p \in Nat
  <2>1. m = Digit * q + r /\ r \in 0..(Digit - 1) /\ q \in Nat
    BY <1>1, Quotient
  <2>. HIDE DEF q, r
  <2>2. Digit * q = q * Digit /\ q * Digit \in Nat
    BY <1>1, <2>1
  <2>. QED  BY <2>1, <2>2
<1>3. Rounded(m) = IF 2 * r > Digit \/ (2 * r = Digit /\ q % 2 = 1) THEN q + 1 ELSE q
  BY DEF Rounded
<1>. HIDE DEF q, r
<1>4. (q + 1) * Digit = p + Digit
  BY <1>1, <1>2
<1>. HIDE DEF p
<1>5. CASE 2 * r > Digit \/ (2 * r = Digit /\ q % 2 = 1)
  <2>1. Rounded(m) = q + 1 /\ Rounded(m) * Digit = p + Digit
    BY <1>3, <1>4, <1>5
  <2>2. 2 * r >= Digit
    BY <1>1, <1>2, <1>5
  <2>. QED  BY <1>1, <1>2, <2>1, <2>2
<1>6. CASE ~(2 * r > Digit \/ (2 * r = Digit /\ q % 2 = 1))
  <2>1. Rounded(m) = q /\ Rounded(m) * Digit = p
    BY <1>3, <1>6 DEF p
  <2>2. 2 * r <= Digit
    BY <1>1, <1>2, <1>6
  <2>. QED  BY <1>1, <1>2, <2>1, <2>2
<1>. QED  BY <1>5, <1>6

\* A number of so many last decimals is printed as it is.
LEMMA RoundedOfPrinted == \A k \in Nat : Rounded(k * Digit) = k
<1>. SUFFICES ASSUME NEW k \in Nat PROVE Rounded(k * Digit) = k
  OBVIOUS
<1>1. Digit \in Nat \ {0} /\ (k * Digit) \div Digit = k /\ (k * Digit) % Digit = 0
  BY DecimalsAssumption, QuotientIs
<1>2. ~(2 * 0 > Digit \/ (2 * 0 = Digit /\ k % 2 = 1))
  BY <1>1
<1>. QED  BY <1>1, <1>2 DEF Rounded

LEMMA PrintableNumbers ==
  ASSUME NEW v \in Printable
  PROVE  /\ v \in Int /\ Magnitude(v) \in Nat
         /\ Rounded(Magnitude(v)) \in Magnitudes /\ Rounded(Magnitude(v)) \in Nat
BY DecimalsAssumption DEF Printable, Magnitude

LEMMA SpelledIs ==
  ASSUME NEW k \in Magnitudes
  PROVE  Spelled(ToString(k)) = k
<1>1. \A j \in Magnitudes : ToString(j) = ToString(k) => j = k
  BY DecimalsAssumption
<1>2. \E j \in Magnitudes : ToString(j) = ToString(k)
  OBVIOUS
<1>3. Spelled(ToString(k)) \in Magnitudes /\ ToString(Spelled(ToString(k))) = ToString(k)
  BY <1>2, Zenon DEF Spelled
<1>. QED  BY <1>1, <1>3

\* A spelled out number of decimals, with a sign or without.
LEMMA SpelledOut ==
  ASSUME NEW k \in Magnitudes
  PROVE  /\ k * Digit \in Printable /\ -(k * Digit) \in Printable
         /\ (k * Digit) % Digit = 0 /\ (-(k * Digit)) % Digit = 0
<1>1. k \in Nat /\ Digit \in Nat \ {0} /\ k * Digit \in Nat
  BY DecimalsAssumption
<1>2. Rounded(k * Digit) = k
  BY <1>1, RoundedOfPrinted
<1>3. -(k * Digit) = (-k) * Digit /\ -k \in Int /\ k \in Int
  BY <1>1
<1>4. (k * Digit) % Digit = 0 /\ ((-k) * Digit) % Digit = 0
  BY <1>1, <1>3, QuotientIs
<1>5. Magnitude(k * Digit) = k * Digit /\ Magnitude(-(k * Digit)) = k * Digit
  <2>. DEFINE x == k * Digit
  <2>1. x \in Nat
    BY <1>1
  <2>. HIDE DEF x
  <2>2. Magnitude(x) = x /\ Magnitude(-x) = x
    BY <2>1 DEF Magnitude
  <2>. QED  BY <2>2 DEF x
<1>6. k * Digit \in Int /\ -(k * Digit) \in Int
  BY <1>1
<1>7. (-(k * Digit)) % Digit = 0
  BY <1>3, <1>4, Zenon
<1>8. k * Digit \in Printable
  BY <1>2, <1>5, <1>6, Zenon DEF Printable
<1>9. -(k * Digit) \in Printable
  BY <1>2, <1>5, <1>6, Zenon DEF Printable
<1>. QED  BY <1>4, <1>7, <1>8, <1>9

LEMMA TwoSigns == ASSUME NEW c, NEW d PROVE <<c>> \o <<d>> = <<c, d>>
<1>. DEFINE A == {c, d}
<1>1. c \in A /\ d \in A
  OBVIOUS
<1>. HIDE DEF A
<1>2. <<c>> \in Seq(A) /\ <<d>> \in Seq(A) /\ <<c, d>> \in Seq(A)
  BY <1>1
<1>3. /\ Len(<<c>>) = 1 /\ Len(<<d>>) = 1 /\ Len(<<c, d>>) = 2
      /\ <<c>>[1] = c /\ <<d>>[1] = d /\ <<c, d>>[1] = c /\ <<c, d>>[2] = d
  OBVIOUS
<1>. DEFINE x == <<c>>
            y == <<d>>
            z == <<c, d>>
<1>. HIDE DEF x, y, z
<1>4. /\ x \o y \in Seq(A) /\ Len(x \o y) = 2
      /\ (x \o y)[1] = c /\ (x \o y)[2] = d
  BY <1>2, <1>3, ConcatProperties DEF x, y
<1>5. z \in Seq(A) /\ Len(z) = 2 /\ z[1] = c /\ z[2] = d
  BY <1>2, <1>3 DEF z
<1>6. \A k \in 1..2 : (x \o y)[k] = z[k]
  BY <1>4, <1>5
<1>7. x \o y = z
  BY <1>4, <1>5, <1>6, SeqEqual
<1>. QED  BY <1>7 DEF x, y, z

\* The text of a number is read as the number that is printed.
LEMMA PrintedIsRead ==
  ASSUME NEW v \in Printable
  PROVE  /\ Readable(PrintNumber(v)) /\ ReadNumber(PrintNumber(v)) = AsPrinted(v)
<1>. DEFINE k == Rounded(Magnitude(v))
            d == ToString(k)
<1>1. k \in Magnitudes /\ v \in Int
  BY PrintableNumbers
<1>2. d \in Numerals /\ d # "-" /\ Spelled(d) = k
  BY <1>1, SpelledIs, DecimalsAssumption DEF Numerals
<1>3. /\ PrintNumber(v) = (IF v < 0 THEN <<"-">> ELSE <<>>) \o <<d>>
      /\ AsPrinted(v) = IF v < 0 THEN -(k * Digit) ELSE k * Digit
  BY DEF PrintNumber, AsPrinted
<1>. HIDE DEF d, k
<1>4. CASE v < 0
  <2>0. <<"-">> \o <<d>> = <<"-", d>>
    BY TwoSigns
  <2>1. PrintNumber(v) = <<"-", d>> /\ AsPrinted(v) = -(k * Digit)
    BY <1>3, <1>4, <2>0, Zenon
  <2>2. Unsigned(<<"-", d>>) = <<d>> /\ <<"-", d>>[1] = "-" /\ <<d>> # <<>> /\ <<d>>[1] = d
    BY DEF Unsigned
  <2>. QED  BY <1>2, <2>1, <2>2 DEF Readable, ReadNumber
<1>5. CASE ~(v < 0)
  <2>1. PrintNumber(v) = <<d>> /\ AsPrinted(v) = k * Digit
    BY <1>3, <1>5
  <2>2. Unsigned(<<d>>) = <<d>> /\ <<d>> # <<>> /\ <<d>>[1] = d
    BY <1>2 DEF Unsigned
  <2>. QED  BY <1>2, <2>1, <2>2 DEF Readable, ReadNumber
<1>. QED  BY <1>4, <1>5

\* Whatever can be read is a number that can be printed.
LEMMA ReadIsPrintable ==
  ASSUME NEW text, Readable(text)
  PROVE  ReadNumber(text) \in Printable
<1>. DEFINE sign == Unsigned(text)[1]
            k == Spelled(sign)
<1>1. \E j \in Magnitudes : ToString(j) = sign
  BY DEF Readable, Numerals
<1>2. k \in Magnitudes
  BY <1>1, Zenon DEF Spelled
<1>3. ReadNumber(text) = IF text[1] = "-" THEN -(k * Digit) ELSE k * Digit
  BY Zenon DEF ReadNumber
<1>. HIDE DEF k
<1>. QED  BY <1>2, <1>3, SpelledOut

\* The printed number is the nearest of its kind, with the sign of v.
LEMMA AsPrintedIsNear ==
  ASSUME NEW v \in Printable
  PROVE  /\ AsPrinted(v) % Digit = 0
         /\ 2 * Magnitude(AsPrinted(v) - v) <= Digit
<1>. DEFINE k == Rounded(Magnitude(v))
            x == k * Digit
<1>1. k \in Magnitudes /\ k \in Nat /\ v \in Int /\ Magnitude(v) \in Nat /\ Digit \in Nat \ {0}
  BY PrintableNumbers, DecimalsAssumption
<1>2. AsPrinted(v) = IF v < 0 THEN -x ELSE x
  BY DEF AsPrinted
<1>3. x % Digit = 0 /\ (-x) % Digit = 0 /\ x \in Nat
  BY <1>1, SpelledOut
<1>4. 2 * (x - Magnitude(v)) <= Digit /\ 2 * (Magnitude(v) - x) <= Digit
  BY <1>1, RoundedIsNear
<1>. HIDE DEF k, x
<1>5. AsPrinted(v) % Digit = 0
  BY <1>2, <1>3, Zenon
<1>6. 2 * Magnitude(AsPrinted(v) - v) <= Digit
  BY <1>1, <1>2, <1>3, <1>4 DEF Magnitude
<1>. QED  BY <1>5, <1>6

-----------------------------------------------------------------------------
(* Texts of sensors. *)

Letters == STRING \cup Numerals \cup {":", "-"}

SensorRecords == [name : Seq(Letters), value : Printable]

SensorTypeOK ==
  /\ sensor \in [Sensors -> SensorRecords]
  /\ saved \in Seq(Letters)
  /\ author = Nobody \/ author \in SensorRecords
  /\ last.how # "none" => last.of \in Sensors

\* The text of an author is at hand.
SensorInv ==
  /\ SensorTypeOK
  /\ author # Nobody => saved = author.name \o <<":">> \o PrintNumber(author.value)
  /\ ReadsWhatWasSaved

LEMMA SensorInitEstablishes == SensorInit => SensorInv
<1>. SUFFICES ASSUME SensorInit PROVE SensorInv
  OBVIOUS
<1>1. 0 \in Printable /\ <<>> \in Seq(Letters)
  BY SensorAssumption, EmptySeq
<1>2. SensorTypeOK
  BY <1>1 DEF SensorInit, SensorTypeOK, SensorRecords, NoCall
<1>3. ReadsWhatWasSaved
  BY DEF SensorInit, ReadsWhatWasSaved, NoCall
<1>. QED  BY <1>1, <1>2, <1>3 DEF SensorInit, SensorInv

\* find gives the first separator.
LEMMA SeparatorIsFirst ==
  ASSUME saved \in Seq(Letters), Separators # {}
  PROVE  /\ Separator \in DOMAIN saved /\ saved[Separator] = ":"
         /\ \A k \in DOMAIN saved : saved[k] = ":" => Separator <= k
<1>1. Separators \in SUBSET Nat
  BY DEF Separators
<1>2. \E m \in Separators : \A k \in Separators : m <= k
  BY <1>1, LeastElement
<1>3. Separator \in Separators /\ \A k \in Separators : Separator <= k
  BY <1>2, Zenon DEF Separator
<1>. QED  BY <1>3 DEF Separators

LEMMA NumberIsText == \A v \in Printable : PrintNumber(v) \in Seq(Letters)
<1>. SUFFICES ASSUME NEW v \in Printable PROVE PrintNumber(v) \in Seq(Letters)
  OBVIOUS
<1>. DEFINE d == ToString(Rounded(Magnitude(v)))
<1>1. d \in Letters /\ "-" \in Letters
  BY PrintableNumbers DEF Letters, Numerals
<1>2. PrintNumber(v) = (IF v < 0 THEN <<"-">> ELSE <<>>) \o <<d>>
  BY DEF PrintNumber
<1>. HIDE DEF d, Letters
<1>3. <<d>> \in Seq(Letters) /\ (IF v < 0 THEN <<"-">> ELSE <<>>) \in Seq(Letters)
  BY <1>1
<1>. QED  BY <1>2, <1>3, ConcatProperties

\* The text of a sensor whose name has no separator is read back.
LEMMA TextIsRead ==
  ASSUME NEW name \in Seq(Letters), NEW w \in Seq(Letters),
         saved = name \o <<":">> \o w, ~Contains(name, ":")
  PROVE  /\ Separators # {}
         /\ After(Separator) = w /\ NamePart(Separator) = name
<1>. DEFINE m == Len(name)
            e == Len(w)
            u == name \o <<":">>
<1>0. <<":">> \in Seq(Letters) /\ Len(<<":">>) = 1 /\ <<":">>[1] = ":"
  BY DEF Letters
<1>1. m \in Nat /\ e \in Nat /\ u \in Seq(Letters) /\ Len(u) = m + 1
  BY <1>0, ConcatProperties
<1>2. \A k \in 1..(m + 1) : u[k] = IF k <= m THEN name[k] ELSE <<":">>[k - m]
  BY <1>0, ConcatProperties
<1>. HIDE DEF u
<1>3. saved \in Seq(Letters) /\ Len(saved) = m + 1 + e
  BY <1>1, ConcatProperties DEF u
<1>4. \A k \in 1..(m + 1 + e) : saved[k] = IF k <= m + 1 THEN u[k] ELSE w[k - (m + 1)]
  BY <1>1, ConcatProperties DEF u
<1>5. DOMAIN saved = 1..(m + 1 + e)
  BY <1>3
<1>6. \A k \in 1..m : name[k] # ":"
  BY DEF Contains
<1>. HIDE DEF m, e
<1>7. /\ \A k \in 1..m : saved[k] = name[k]
      /\ saved[m + 1] = ":"
      /\ \A k \in 1..e : saved[m + 1 + k] = w[k]
  <2>1. \A k \in 1..m : k \in 1..(m + 1) /\ k \in 1..(m + 1 + e) /\ k <= m /\ k <= m + 1
    BY <1>1
  <2>2. /\ m + 1 \in 1..(m + 1) /\ m + 1 \in 1..(m + 1 + e)
        /\ ~(m + 1 <= m) /\ m + 1 <= m + 1 /\ (m + 1) - m = 1
    BY <1>1
  <2>3. \A k \in 1..e : /\ m + 1 + k \in 1..(m + 1 + e)
                        /\ ~(m + 1 + k <= m + 1) /\ (m + 1 + k) - (m + 1) = k
    BY <1>1
  <2>4. \A k \in 1..m : saved[k] = name[k]
    BY <1>2, <1>4, <2>1
  <2>5. saved[m + 1] = ":"
    BY <1>0, <1>2, <1>4, <2>2
  <2>6. \A k \in 1..e : saved[m + 1 + k] = w[k]
    BY <1>4, <2>3
  <2>. QED  BY <2>4, <2>5, <2>6
<1>8. m + 1 \in DOMAIN saved
  BY <1>1, <1>5
<1>9. Separators # {}
  BY <1>7, <1>8 DEF Separators
<1>10. Separator = m + 1
  <2>1. /\ Separator \in 1..(m + 1 + e) /\ saved[Separator] = ":"
        /\ Separator <= m + 1
    BY <1>3, <1>5, <1>7, <1>8, <1>9, SeparatorIsFirst
  <2>2. Separator \notin 1..m
    BY <2>1, <1>6, <1>7
  <2>. QED  BY <1>1, <2>1, <2>2
<1>11. After(Separator) = w
  <2>. DEFINE x == SubSeq(saved, m + 2, m + 1 + e)
  <2>1. (m + 1) + 1 = m + 2
    BY <1>1
  <2>2. After(Separator) = x
    BY <1>3, <1>10, <2>1, Zenon DEF After
  <2>3. /\ x \in Seq(Letters) /\ Len(x) = e
        /\ \A k \in 1..e : x[k] = saved[m + 2 + k - 1]
    <3>. DEFINE lo == m + 2
                hi == m + 1 + e
    <3>. HIDE DEF Letters
    <3>4. /\ saved \in Seq(Letters) /\ Len(saved) = hi /\ lo \in Nat \ {0} /\ hi \in Nat
          /\ lo <= hi + 1
      BY <1>1, <1>3
    <3>. HIDE DEF lo, hi
    <3>6. \A k \in lo..hi : saved[k] \in Letters
      BY <3>4
    <3>5. /\ SubSeq(saved, lo, hi) \in Seq(Letters)
          /\ Len(SubSeq(saved, lo, hi)) = IF lo <= hi THEN hi - lo + 1 ELSE 0
          /\ \A k \in 1..(hi - lo + 1) : SubSeq(saved, lo, hi)[k] = saved[lo + k - 1]
      <4>1. SubSeq(saved, lo, hi) \in Seq(Letters)
        BY <3>4, <3>6, SubSeqProperties
      <4>2. Len(SubSeq(saved, lo, hi)) = IF lo <= hi THEN hi - lo + 1 ELSE 0
        BY <3>4, <3>6, SubSeqProperties
      <4>3. \A k \in 1..(hi - lo + 1) : SubSeq(saved, lo, hi)[k] = saved[lo + k - 1]
        BY <3>4, <3>6, SubSeqProperties
      <4>. QED  BY <4>1, <4>2, <4>3
    <3>2. /\ x \in Seq(Letters)
          /\ Len(x) = IF m + 2 <= m + 1 + e THEN (m + 1 + e) - (m + 2) + 1 ELSE 0
          /\ \A k \in 1..((m + 1 + e) - (m + 2) + 1) : x[k] = saved[m + 2 + k - 1]
      BY <3>5 DEF lo, hi
    <3>. HIDE DEF x
    <3>3. (m + 1 + e) - (m + 2) + 1 = e /\ (m + 2 <= m + 1 + e <=> e # 0)
      BY <1>1
    <3>. QED  BY <3>2, <3>3
  <2>4. \A k \in 1..e : m + 2 + k - 1 = m + 1 + k
    BY <1>1
  <2>. HIDE DEF x
  <2>5. \A k \in 1..e : x[k] = w[k]
    BY <1>7, <2>3, <2>4
  <2>6. x = w
    BY <2>3, <2>5, SeqEqual DEF e
  <2>. QED  BY <2>2, <2>6
<1>12. NamePart(Separator) = name
  <2>1. (m + 1) - 1 = m /\ NamePart(Separator) = SubSeq(saved, 1, m)
    BY <1>1, <1>10 DEF NamePart
  <2>2. SubSeq(saved, 1, m) \in Seq(Letters) /\ Len(SubSeq(saved, 1, m)) = m
    BY <1>1, <1>3
  <2>3. \A k \in 1..m : SubSeq(saved, 1, m)[k] = name[k]
    BY <1>1, <1>3, <1>7
  <2>. QED  BY <1>1, <2>1, <2>2, <2>3, SeqEqual DEF m
<1>. QED  BY <1>9, <1>11, <1>12

LEMMA SensorStep == SensorInv /\ [SensorNext]_sensorVars => SensorInv'
<1>. SUFFICES ASSUME SensorInv, [SensorNext]_sensorVars PROVE SensorInv'
  OBVIOUS
<1>. USE DEF SensorInv
<1>1. ASSUME NEW x \in Sensors, NEW name \in SensorNames, NEW value \in Readings,
             MakeSensor(x, name, value)
      PROVE  SensorInv'
  <2>1. name \in Seq(Letters) /\ value \in Printable
    BY SensorAssumption, SeqMonotonic DEF Letters
  <2>2. last'.how = "none"
    BY <1>1 DEF MakeSensor, NoCall
  <2>3. SensorTypeOK'
    BY <1>1, <2>1, <2>2 DEF MakeSensor, SensorTypeOK, SensorRecords
  <2>4. author' # Nobody => saved' = author'.name \o <<":">> \o PrintNumber(author'.value)
    BY <1>1 DEF MakeSensor
  <2>. QED  BY <2>2, <2>3, <2>4 DEF ReadsWhatWasSaved
<1>2. ASSUME NEW x \in Sensors, Serialize(x) PROVE SensorInv'
  <2>1. last'.how = "none"
    BY <1>2 DEF Serialize, NoCall
  <2>2. sensor[x] \in SensorRecords /\ sensor' = sensor
    BY <1>2 DEF Serialize, SensorTypeOK
  <2>3. saved' \in Seq(Letters)
    <3>1. sensor[x].name \in Seq(Letters) /\ PrintNumber(sensor[x].value) \in Seq(Letters)
      BY <2>2, NumberIsText DEF SensorRecords
    <3>2. <<":">> \in Seq(Letters)
      BY DEF Letters
    <3>3. sensor[x].name \o <<":">> \in Seq(Letters)
      BY <3>1, <3>2, ConcatProperties
    <3>. QED  BY <1>2, <3>1, <3>3, ConcatProperties DEF Serialize
  <2>4. author' \in SensorRecords
    BY <1>2, <2>2 DEF Serialize
  <2>5. SensorTypeOK'
    BY <2>1, <2>2, <2>3, <2>4 DEF SensorTypeOK
  <2>6. saved' = author'.name \o <<":">> \o PrintNumber(author'.value)
    BY <1>2, Zenon DEF Serialize
  <2>. QED  BY <2>1, <2>5, <2>6 DEF ReadsWhatWasSaved
<1>3. ASSUME NEW x \in Sensors, Deserialize(x) PROVE SensorInv'
  <2>1. /\ saved' = saved /\ author' = author /\ saved \in Seq(Letters)
        /\ sensor[x] \in SensorRecords
    BY <1>3 DEF Deserialize, SensorTypeOK
  <2>2. CASE author # Nobody /\ ~Contains(author.name, ":")
    <3>. DEFINE w == PrintNumber(author.value)
    <3>1. author.name \in Seq(Letters) /\ author.value \in Printable /\ w \in Seq(Letters)
      BY <2>2, NumberIsText DEF SensorTypeOK, SensorRecords
    <3>2. saved = author.name \o <<":">> \o w
      BY <2>2
    <3>3. Readable(w) /\ ReadNumber(w) = AsPrinted(author.value)
      BY <3>1, PrintedIsRead
    <3>4. ReadNumber(w) \in Printable
      BY <3>3, ReadIsPrintable
    <3>. HIDE DEF w
    <3>5. /\ Separators # {}
          /\ After(Separator) = w /\ NamePart(Separator) = author.name
      BY <2>2, <3>1, <3>2, TextIsRead
    <3>6. /\ sensor' = [sensor EXCEPT ![x] = [name |-> author.name, value |-> ReadNumber(w)]]
          /\ last' = [of |-> x, how |-> "returned", before |-> sensor[x]]
      BY <1>3, <3>3, <3>5, Zenon DEF Deserialize, Recorded
    <3>7. sensor'[x].name = author.name /\ sensor'[x].value = AsPrinted(author.value)
      BY <3>3, <3>6 DEF SensorTypeOK
    <3>8. SensorTypeOK'
      BY <2>1, <3>1, <3>4, <3>6 DEF SensorTypeOK, SensorRecords
    <3>9. /\ AsPrinted(author.value) % Digit = 0
          /\ 2 * Magnitude(AsPrinted(author.value) - author.value) <= Digit
      BY <3>1, AsPrintedIsNear
    <3>10. ReadsWhatWasSaved'
      <4>1. last'.how = "returned" /\ last'.of = x /\ author' = author
        BY <2>1, <3>6
      <4>2. /\ sensor'[last'.of].value % Digit = 0
            /\ 2 * Magnitude(sensor'[last'.of].value - author'.value) <= Digit
        BY <3>7, <3>9, <4>1, Zenon
      <4>. QED  BY <3>7, <4>1, <4>2 DEF ReadsWhatWasSaved
    <3>11. saved' = author'.name \o <<":">> \o PrintNumber(author'.value)
      BY <2>1, <3>2 DEF w
    <3>. QED  BY <3>8, <3>10, <3>11
  <2>3. CASE ~(author # Nobody /\ ~Contains(author.name, ":"))
    <3>1. CASE Separators = {}
      <4>1. sensor' = sensor /\ last' = [of |-> x, how |-> "no separator", before |-> sensor[x]]
        BY <1>3, <3>1 DEF Deserialize, Recorded
      <4>2. SensorTypeOK'
        BY <2>1, <4>1 DEF SensorTypeOK
      <4>3. ReadsWhatWasSaved'
        BY <2>1, <2>3, <4>1 DEF ReadsWhatWasSaved
      <4>. QED  BY <2>1, <4>2, <4>3
    <3>2. CASE Separators # {}
      <4>1. Separator \in Nat
        BY <2>1, <3>2, SeparatorIsFirst
      <4>2. Separator \in 1..Len(saved)
        BY <2>1, <3>2, SeparatorIsFirst
      <4>3. NamePart(Separator) \in Seq(Letters)
        BY <2>1, <4>2 DEF NamePart
      <4>4. CASE ~Readable(After(Separator))
        <5>1. /\ sensor' = [sensor EXCEPT ![x].name = NamePart(Separator)]
              /\ last' = [of |-> x, how |-> "no number", before |-> sensor[x]]
          BY <1>3, <3>2, <4>4 DEF Deserialize, Recorded
        <5>2. SensorTypeOK' /\ sensor'[x].value = sensor[x].value
          BY <2>1, <4>3, <5>1 DEF SensorTypeOK, SensorRecords
        <5>3. ReadsWhatWasSaved'
          BY <2>1, <2>3, <5>1, <5>2 DEF ReadsWhatWasSaved
        <5>. QED  BY <2>1, <5>2, <5>3
      <4>5. CASE Readable(After(Separator))
        <5>1. /\ sensor' = [sensor EXCEPT ![x] = [name |-> NamePart(Separator),
                                                  value |-> ReadNumber(After(Separator))]]
              /\ last' = [of |-> x, how |-> "returned", before |-> sensor[x]]
          BY <1>3, <3>2, <4>5 DEF Deserialize, Recorded
        <5>2. ReadNumber(After(Separator)) \in Printable
          BY <4>5, ReadIsPrintable
        <5>3. SensorTypeOK'
          BY <2>1, <4>3, <5>1, <5>2 DEF SensorTypeOK, SensorRecords
        <5>4. ReadsWhatWasSaved'
          BY <2>1, <2>3, <5>1 DEF ReadsWhatWasSaved
        <5>. QED  BY <2>1, <5>3, <5>4
      <4>. QED  BY <4>4, <4>5
    <3>. QED  BY <3>1, <3>2
  <2>. QED  BY <2>2, <2>3
<1>4. ASSUME NEW text \in OtherTexts, Receive(text) PROVE SensorInv'
  <2>1. last'.how = "none" /\ author' = Nobody
    BY <1>4 DEF Receive, NoCall
  <2>2. text \in Seq(Letters)
    BY SensorAssumption, SeqMonotonic DEF Letters
  <2>. QED  BY <1>4, <2>1, <2>2 DEF Receive, SensorTypeOK, ReadsWhatWasSaved
<1>5. CASE UNCHANGED sensorVars
  BY <1>5 DEF sensorVars, SensorTypeOK, ReadsWhatWasSaved
<1>. QED  BY <1>1, <1>2, <1>3, <1>4, <1>5 DEF SensorNext

\* Whoever reads what a sensor without a separator in its name has written has
\* its name and the nearest value of six decimals afterwards, and a text that
\* cannot be read leaves the value.
THEOREM SensorInvariant == SensorSpec => []SensorInv
BY SensorInitEstablishes, SensorStep, PTL DEF SensorSpec

-----------------------------------------------------------------------------
(* Tables: how many columns a text takes. *)

Chars == {"x", " ", "esc", "[", "m"}

Counts0 == [len |-> 0, esc |-> FALSE]

CountStates == [len : Nat, esc : BOOLEAN]

IsScan(F, s, m) == F = [k \in 0..m |-> IF k = 0 THEN [len |-> 0, esc |-> FALSE]
                                       ELSE Count(F[k - 1], s[k])]

Scans(s, m) == CHOOSE F : IsScan(F, s, m)

LEMMA ScanIs == ASSUME NEW s PROVE Scan(s) = Scans(s, Len(s))[Len(s)]
BY DEF Scan, Scans, IsScan

LEMMA CountType ==
  ASSUME NEW st \in CountStates, NEW c
  PROVE  Count(st, c) \in CountStates
<1>1. st.len \in Nat /\ (c \notin {"m", "x"}) \in BOOLEAN
  BY DEF CountStates
<1>. QED  BY <1>1 DEF Count, CountStates

LEMMA ScanExists ==
  ASSUME NEW s, NEW m \in Nat
  PROVE  \E F : IsScan(F, s, m)
<1>. DEFINE G == [q \in (1..m) \X CountStates |-> Count(q[2], s[q[1]])]
<1>1. G \in [(1..m) \X CountStates -> CountStates]
  <2>1. \A q \in (1..m) \X CountStates : Count(q[2], s[q[1]]) \in CountStates
    BY CountType
  <2>. QED  BY <2>1
<1>2. ASSUME NEW k \in 1..m, NEW x \in CountStates
      PROVE  G[<<k, x>>] = Count(x, s[k])
  <2>1. <<k, x>> \in (1..m) \X CountStates
    OBVIOUS
  <2>. QED  BY <2>1
<1>. HIDE DEF G
<1>3. PICK g \in [0..m -> CountStates] : g[0] = Counts0 /\ Recurs(g, G, m)
  <2>1. Counts0 \in CountStates
    BY DEF Counts0, CountStates
  <2>. QED  BY <1>1, <2>1, RecursionExists, Zenon
<1>4. g = [k \in 0..m |-> g[k]]
  BY <1>3
<1>5. ASSUME NEW k \in 0..m
      PROVE  g[k] = IF k = 0 THEN [len |-> 0, esc |-> FALSE] ELSE Count(g[k - 1], s[k])
  <2>1. CASE k = 0
    BY <2>1, <1>3 DEF Counts0
  <2>2. CASE k # 0
    <3>1. k \in 1..m /\ g[k - 1] \in CountStates
      BY <2>2, <1>3
    <3>2. g[k] = G[<<k, g[k - 1]>>]
      BY <3>1, <1>3 DEF Recurs
    <3>. QED  BY <3>1, <3>2, <1>2, <2>2
  <2>. QED  BY <2>1, <2>2
<1>. QED  BY <1>4, <1>5, Zenon DEF IsScan

LEMMA ScansAre ==
  ASSUME NEW s, NEW m \in Nat
  PROVE  /\ Scans(s, m)[0] = Counts0
         /\ \A k \in 1..m : Scans(s, m)[k] = Count(Scans(s, m)[k - 1], s[k])
         /\ \A k \in 0..m : Scans(s, m)[k] \in CountStates
<1>1. IsScan(Scans(s, m), s, m)
  BY ScanExists, Zenon DEF Scans
<1>. DEFINE g == Scans(s, m)
<1>. HIDE DEF g
<1>2. g[0] = Counts0 /\ \A k \in 1..m : g[k] = Count(g[k - 1], s[k])
  <2>1. \A k \in 0..m : g[k] = IF k = 0 THEN [len |-> 0, esc |-> FALSE]
                               ELSE Count(g[k - 1], s[k])
    BY <1>1, Zenon DEF IsScan, g
  <2>2. 0 \in 0..m /\ \A k \in 1..m : k \in 0..m /\ k # 0
    OBVIOUS
  <2>. QED  BY <2>1, <2>2, Zenon DEF Counts0
<1>. DEFINE S == {k \in Nat : k <= m => g[k] \in CountStates}
<1>3. 0 \in S
  <2>1. Counts0 \in CountStates
    BY DEF Counts0, CountStates
  <2>. QED  BY <1>2, <2>1
<1>4. ASSUME NEW k \in Nat, k \in S PROVE k + 1 \in S
  <2>. SUFFICES ASSUME k + 1 <= m PROVE g[k + 1] \in CountStates
    OBVIOUS
  <2>1. k + 1 \in 1..m /\ (k + 1) - 1 = k /\ g[k] \in CountStates
    BY <1>4
  <2>2. g[k + 1] = Count(g[k], s[k + 1])
    BY <2>1, <1>2
  <2>. QED  BY <2>1, <2>2, CountType
<1>. HIDE DEF S
<1>5. Nat \subseteq S
  BY <1>3, <1>4, InductionOnSet
<1>6. \A k \in 0..m : g[k] \in CountStates
  BY <1>5 DEF S
<1>. QED  BY <1>2, <1>6 DEF g

\* What a text counts is told by the text that it begins with.
LEMMA ScansAgree ==
  ASSUME NEW s, NEW t, NEW m \in Nat, NEW M \in Nat, m <= M,
         \A k \in 1..m : s[k] = t[k]
  PROVE  Scans(s, m)[m] = Scans(t, M)[m]
<1>. DEFINE g == Scans(s, m)
            h == Scans(t, M)
<1>2. g[0] = Counts0 /\ \A k \in 1..m : g[k] = Count(g[k - 1], s[k])
  BY ScansAre
<1>3. h[0] = Counts0 /\ \A k \in 1..M : h[k] = Count(h[k - 1], t[k])
  BY ScansAre
<1>. HIDE DEF g, h
<1>. DEFINE S == {k \in Nat : k <= m => g[k] = h[k]}
<1>4. 0 \in S
  BY <1>2, <1>3
<1>5. ASSUME NEW k \in Nat, k \in S PROVE k + 1 \in S
  <2>. SUFFICES ASSUME k + 1 <= m PROVE g[k + 1] = h[k + 1]
    OBVIOUS
  <2>1. k + 1 \in 1..m /\ k + 1 \in 1..M /\ (k + 1) - 1 = k /\ g[k] = h[k]
    BY <1>5
  <2>2. /\ g[k + 1] = Count(g[k], s[k + 1]) /\ h[k + 1] = Count(h[k], t[k + 1])
        /\ s[k + 1] = t[k + 1]
    BY <2>1, <1>2, <1>3
  <2>. QED  BY <2>1, <2>2
<1>. HIDE DEF S
<1>6. Nat \subseteq S
  BY <1>4, <1>5, InductionOnSet
<1>7. g[m] = h[m]
  BY <1>6 DEF S
<1>. QED  BY <1>7 DEF g, h

\* Counting from a count that is in no escape sequence only adds to it.
LEMMA CountAdds ==
  ASSUME NEW p \in Nat, NEW st \in CountStates, NEW c
  PROVE  Count([len |-> p + st.len, esc |-> st.esc], c)
           = [len |-> p + Count(st, c).len, esc |-> Count(st, c).esc]
<1>. DEFINE q == [len |-> p + st.len, esc |-> st.esc]
<1>1. st.len \in Nat /\ q.len = p + st.len /\ q.esc = st.esc
  BY DEF CountStates
<1>. HIDE DEF q
<1>2. (p + st.len) + 1 = p + (st.len + 1)
  BY <1>1
<1>3. CASE st.esc
  BY <1>1, <1>3 DEF Count, q
<1>4. CASE ~st.esc /\ c = "esc"
  BY <1>1, <1>4 DEF Count, q
<1>5. CASE ~st.esc /\ c # "esc"
  <2>1. Count(st, c) = [len |-> st.len + 1, esc |-> FALSE]
    BY <1>5 DEF Count
  <2>2. Count(q, c) = [len |-> q.len + 1, esc |-> FALSE]
    BY <1>1, <1>5 DEF Count
  <2>3. /\ Count(st, c).len = st.len + 1 /\ Count(st, c).esc = FALSE
        /\ Count(q, c) = [len |-> p + (st.len + 1), esc |-> FALSE]
    <3>1. q.len + 1 = p + (st.len + 1)
      BY <1>1, <1>2
    <3>2. Count(st, c).len = st.len + 1 /\ Count(st, c).esc = FALSE
      BY <2>1
    <3>. QED  BY <2>2, <3>1, <3>2, Zenon
  <2>. QED  BY <2>3, Zenon DEF q
<1>. QED  BY <1>3, <1>4, <1>5

\* A text that ends in no escape sequence.
Closed(s) == s \in Seq(Chars) /\ ~Scan(s).esc

LEMMA ScanType ==
  ASSUME NEW s \in Seq(Chars)
  PROVE  Scan(s) \in CountStates /\ Scan(s).len \in Nat /\ VisibleLength(s) \in Nat
<1>1. Len(s) \in Nat /\ Len(s) \in 0..Len(s)
  BY LenProperties
<1>2. Scan(s) \in CountStates
  BY <1>1, ScansAre, ScanIs
<1>. QED  BY <1>2 DEF CountStates, VisibleLength

\* Texts that are put together take the columns of both.
LEMMA ScanConcat ==
  ASSUME NEW s, Closed(s), NEW t \in Seq(Chars)
  PROVE  Scan(s \o t) = [len |-> Scan(s).len + Scan(t).len, esc |-> Scan(t).esc]
<1>. DEFINE p == Len(s)
            r == Len(t)
            F == Scans(s \o t, p + r)
            g == Scans(t, r)
<1>1. p \in Nat /\ r \in Nat /\ s \in Seq(Chars)
  BY LenProperties DEF Closed
<1>2. Len(s \o t) = p + r
  BY <1>1, ConcatProperties
<1>3. \A k \in 1..(p + r) : (s \o t)[k] = IF k <= p THEN s[k] ELSE t[k - p]
  BY <1>1, ConcatProperties
<1>4. /\ g[0] = Counts0 /\ \A k \in 1..r : g[k] = Count(g[k - 1], t[k])
      /\ \A k \in 0..r : g[k] \in CountStates
  BY <1>1, ScansAre
<1>5. \A k \in 1..(p + r) : F[k] = Count(F[k - 1], (s \o t)[k])
  <2>1. p + r \in Nat
    BY <1>1
  <2>. QED  BY <2>1, ScansAre
<1>6. F[p] = Scan(s)
  <2>. DEFINE w == s \o t
              N == p + r
  <2>1. N \in Nat /\ p <= N /\ p \in 0..p
    BY <1>1
  <2>2. \A k \in 1..p : s[k] = w[k]
    <3>. HIDE DEF p, r
    <3>1. \A k \in 1..p : k \in 1..(p + r) /\ k <= p
      BY <1>1
    <3>. QED  BY <1>3, <3>1
  <2>. HIDE DEF p, r, w, N
  <2>4. Scans(s, p)[p] = Scans(w, N)[p]
    BY <1>1, <2>1, <2>2, ScansAgree
  <2>. QED  BY <2>4, ScanIs DEF p, w, N
<1>7. Scan(s) \in CountStates /\ ~Scan(s).esc
  BY <1>1, ScanType DEF Closed
<1>8. Scan(s).len \in Nat /\ Scan(s) = [len |-> Scan(s).len, esc |-> FALSE]
  BY <1>7 DEF CountStates
<1>9. Scan(s \o t) = F[p + r] /\ Scan(t) = g[r]
  BY <1>2, ScanIs
<1>. DEFINE e == Scan(s).len
            Both(k) == F[p + k] = [len |-> e + g[k].len, esc |-> g[k].esc]
            S == {k \in Nat : k <= r => Both(k)}
<1>. HIDE DEF p, r, F, g
<1>10. 0 \in S
  <2>1. e + 0 = e /\ p + 0 = p
    BY <1>1, <1>8
  <2>2. g[0].len = 0 /\ g[0].esc = FALSE
    BY <1>4 DEF Counts0
  <2>. HIDE DEF e
  <2>3. Scan(s) = [len |-> e, esc |-> FALSE]
    BY <1>8 DEF e
  <2>4. Both(0)
    BY <1>6, <2>1, <2>2, <2>3
  <2>. QED  BY <2>4
<1>11. ASSUME NEW k \in Nat, k \in S PROVE k + 1 \in S
  <2>. SUFFICES ASSUME k + 1 <= r PROVE Both(k + 1)
    OBVIOUS
  <2>. HIDE DEF e
  <2>0. e \in Nat
    BY <1>8 DEF e
  <2>1. k <= r /\ k \in 0..r /\ k + 1 \in 1..r /\ (k + 1) - 1 = k /\ k + 1 \in 0..r
    BY <1>1
  <2>2. /\ p + (k + 1) \in 1..(p + r) /\ ~(p + (k + 1) <= p)
        /\ (p + (k + 1)) - p = k + 1 /\ (p + (k + 1)) - 1 = p + k
    BY <1>1, <2>1
  <2>3. F[p + (k + 1)] = Count(F[p + k], t[k + 1])
    BY <1>3, <1>5, <2>2
  <2>4. F[p + k] = [len |-> e + g[k].len, esc |-> g[k].esc]
    BY <1>11, <2>1
  <2>5. g[k + 1] = Count(g[k], t[k + 1]) /\ g[k] \in CountStates
    BY <1>4, <2>1
  <2>6. Count([len |-> e + g[k].len, esc |-> g[k].esc], t[k + 1])
          = [len |-> e + Count(g[k], t[k + 1]).len, esc |-> Count(g[k], t[k + 1]).esc]
    BY <2>0, <2>5, CountAdds, Zenon
  <2>. QED  BY <2>3, <2>4, <2>5, <2>6, Zenon
<1>. HIDE DEF S
<1>12. Nat \subseteq S
  BY <1>10, <1>11, InductionOnSet
<1>13. Both(r)
  <2>1. r \in S /\ r <= r
    BY <1>1, <1>12
  <2>. QED  BY <2>1 DEF S
<1>. QED  BY <1>9, <1>13, Zenon

LEMMA ClosedConcat ==
  ASSUME NEW s, NEW t, Closed(s), Closed(t)
  PROVE  /\ Closed(s \o t)
         /\ VisibleLength(s \o t) = VisibleLength(s) + VisibleLength(t)
<1>1. s \in Seq(Chars) /\ t \in Seq(Chars) /\ s \o t \in Seq(Chars)
  BY ConcatProperties DEF Closed
<1>2. Scan(s \o t) = [len |-> Scan(s).len + Scan(t).len, esc |-> Scan(t).esc]
  BY <1>1, ScanConcat
<1>. QED  BY <1>1, <1>2 DEF Closed, VisibleLength

\* A text without escape sequences is as wide as it is long.
LEMMA PlainText ==
  ASSUME NEW s \in Seq(Chars), \A k \in 1..Len(s) : s[k] # "esc"
  PROVE  Closed(s) /\ VisibleLength(s) = Len(s)
<1>. DEFINE y == Len(s)
            g == Scans(s, y)
            S == {k \in Nat : k <= y => g[k] = [len |-> k, esc |-> FALSE]}
<1>1. y \in Nat
  BY LenProperties
<1>2. g[0] = Counts0 /\ \A k \in 1..y : g[k] = Count(g[k - 1], s[k])
  BY <1>1, ScansAre
<1>. HIDE DEF g
<1>3. 0 \in S
  BY <1>2 DEF Counts0
<1>4. ASSUME NEW k \in Nat, k \in S PROVE k + 1 \in S
  <2>. SUFFICES ASSUME k + 1 <= y PROVE g[k + 1] = [len |-> k + 1, esc |-> FALSE]
    OBVIOUS
  <2>1. k + 1 \in 1..y /\ (k + 1) - 1 = k /\ k <= y
    BY <1>1
  <2>2. g[k + 1] = Count(g[k], s[k + 1]) /\ s[k + 1] # "esc"
    BY <1>2, <2>1
  <2>3. g[k] = [len |-> k, esc |-> FALSE]
    BY <1>4, <2>1
  <2>4. g[k].len = k /\ g[k].esc = FALSE
    BY <2>3
  <2>. QED  BY <2>2, <2>4, Zenon DEF Count
<1>. HIDE DEF S
<1>5. Nat \subseteq S
  BY <1>3, <1>4, InductionOnSet
<1>6. g[y] = [len |-> y, esc |-> FALSE]
  BY <1>1, <1>5 DEF S
<1>7. Scan(s) = [len |-> y, esc |-> FALSE]
  BY <1>6, ScanIs DEF g
<1>8. Scan(s).len = y /\ Scan(s).esc = FALSE
  BY <1>7
<1>. QED  BY <1>8 DEF Closed, VisibleLength

LEMMA EscOf ==
  ASSUME NEW r, NEW y, NEW c, r = [len |-> y, esc |-> c \notin {"m", "x"}]
  PROVE  r.esc <=> c \notin {"m", "x"}
<1>1. CASE c \notin {"m", "x"}
  BY <1>1
<1>2. CASE c \in {"m", "x"}
  BY <1>2
<1>. QED  BY <1>1, <1>2

LEMMA EscapeEnds ==
  ASSUME NEW st, st.esc, NEW c
  PROVE  Count(st, c).esc <=> c \notin {"m", "x"}
<1>1. Count(st, c) = [len |-> st.len, esc |-> c \notin {"m", "x"}]
  BY Zenon DEF Count
<1>. QED  BY <1>1, EscOf, Zenon

LEMMA EscapeIsClosed == Closed(<<"esc", "[", "m">>) /\ Closed(<<>>)
<1>. DEFINE s == <<"esc", "[", "m">>
            g == Scans(s, 3)
<1>0. {"esc", "[", "m"} \subseteq Chars
  BY DEF Chars
<1>1. s \in Seq(Chars) /\ Len(s) = 3 /\ s[1] = "esc" /\ s[2] = "[" /\ s[3] = "m"
  BY <1>0
<1>. HIDE DEF s
<1>2. /\ g[0] = Counts0
      /\ \A k \in 1..3 : g[k] = Count(g[k - 1], s[k])
  BY ScansAre
<1>. HIDE DEF g
<1>3. g[1] = Count(g[0], "esc") /\ g[2] = Count(g[1], "[") /\ g[3] = Count(g[2], "m")
  <2>1. 1 - 1 = 0 /\ 2 - 1 = 1 /\ 3 - 1 = 2 /\ 1 \in 1..3 /\ 2 \in 1..3 /\ 3 \in 1..3
    OBVIOUS
  <2>. QED  BY <1>1, <1>2, <2>1, Zenon
<1>4. ~g[0].esc
  BY <1>2 DEF Counts0
<1>5. g[1].esc
  BY <1>3, <1>4 DEF Count
<1>6. g[2].esc
  <2>1. "[" \notin {"m", "x"}
    OBVIOUS
  <2>. QED  BY <1>3, <1>5, <2>1, EscapeEnds
<1>7. ~g[3].esc
  <2>1. "m" \in {"m", "x"}
    OBVIOUS
  <2>. QED  BY <1>3, <1>6, <2>1, EscapeEnds
<1>8. Closed(s)
  <2>1. Scan(s) = g[3]
    BY <1>1, ScanIs, Zenon DEF g
  <2>2. ~Scan(s).esc
    BY <1>7, <2>1
  <2>. QED  BY <1>1, <2>2 DEF Closed
<1>9. Closed(<<>>)
  <2>1. <<>> \in Seq(Chars) /\ \A k \in 1..Len(<<>>) : <<>>[k] # "esc"
    BY EmptySeq
  <2>. QED  BY <2>1, PlainText
<1>. QED  BY <1>8, <1>9 DEF s

LEMMA WordIsClosed ==
  ASSUME NEW k \in Nat
  PROVE  Closed(Word(k)) /\ Closed(Colorize(Word(k)))
<1>1. Word(k) \in Seq(Chars) /\ Len(Word(k)) = k
  BY DEF Word, Chars
<1>2. \A q \in 1..k : Word(k)[q] # "esc"
  BY DEF Word
<1>3. Closed(Word(k))
  BY <1>1, <1>2, PlainText
<1>. DEFINE e == <<"esc", "[", "m">>
<1>. HIDE DEF e
<1>4. Closed(e)
  BY EscapeIsClosed DEF e
<1>5. Closed(e \o Word(k) \o e)
  BY <1>3, <1>4, ClosedConcat
<1>. QED  BY <1>3, <1>5 DEF Colorize, e

LEMMA SpacesAreWide ==
  ASSUME NEW k \in Nat
  PROVE  Closed(Spaces(k)) /\ VisibleLength(Spaces(k)) = k
<1>1. Spaces(k) \in Seq(Chars) /\ Len(Spaces(k)) = k
  BY DEF Spaces, Chars
<1>2. \A q \in 1..k : Spaces(k)[q] # "esc"
  BY DEF Spaces
<1>. QED  BY <1>1, <1>2, PlainText

LEMMA CellsAreClosed == \A c \in Cells : Closed(c)
BY TableAssumption, WordIsClosed DEF Cells

ClosedTexts == {s \in Seq(Chars) : Closed(s)}

LEMMA ClosedIsText == \A s : Closed(s) <=> s \in ClosedTexts
BY DEF Closed, ClosedTexts

LEMMA ClosedWidth == \A s \in ClosedTexts : VisibleLength(s) \in Nat
BY ScanType DEF ClosedTexts

\* All cells end in no escape sequence, and a column is as wide as its widest.
TableInv ==
  /\ headers_ \in Seq(ClosedTexts)
  /\ widths_ \in [1..Len(headers_) -> Nat]
  /\ rows_ \in Seq([1..Len(headers_) -> ClosedTexts])
  /\ \A k \in 1..Len(headers_) : VisibleLength(headers_[k]) <= widths_[k]
  /\ \A j \in 1..Len(rows_) : \A k \in 1..Len(headers_) :
       VisibleLength(rows_[j][k]) <= widths_[k]

LEMMA HeaderWidths ==
  ASSUME headers_ \in Seq(ClosedTexts)
  PROVE  /\ [k \in DOMAIN headers_ |-> VisibleLength(headers_[k])] \in [1..Len(headers_) -> Nat]
         /\ DOMAIN headers_ = 1..Len(headers_)
         /\ \A k \in 1..Len(headers_) : /\ headers_[k] \in ClosedTexts
                                        /\ VisibleLength(headers_[k]) \in Nat
<1>1. /\ DOMAIN headers_ = 1..Len(headers_)
      /\ \A k \in 1..Len(headers_) : headers_[k] \in ClosedTexts
  BY LenProperties, ElementOfSeq
<1>2. \A k \in 1..Len(headers_) : VisibleLength(headers_[k]) \in Nat
  BY <1>1, ClosedWidth
<1>. QED  BY <1>1, <1>2

LEMMA TableInitEstablishes == TableInit => TableInv
<1>. SUFFICES ASSUME TableInit PROVE TableInv
  OBVIOUS
<1>1. PICK h \in Headers : headers_ = [k \in DOMAIN h |-> Word(h[k])]
  BY DEF TableInit
<1>2. h \in Seq(Nat) /\ Len(h) \in Nat /\ DOMAIN h = 1..Len(h)
  BY TableAssumption
<1>3. \A k \in 1..Len(h) : Word(h[k]) \in ClosedTexts
  <2>1. \A k \in 1..Len(h) : h[k] \in Nat
    BY <1>2
  <2>. QED  BY <2>1, WordIsClosed, ClosedIsText
<1>4. headers_ \in Seq(ClosedTexts)
  BY <1>1, <1>2, <1>3
<1>5. widths_ = [k \in DOMAIN headers_ |-> VisibleLength(headers_[k])] /\ rows_ = <<>>
  BY DEF TableInit
<1>. QED  BY <1>4, <1>5, HeaderWidths, EmptySeq DEF TableInv

LEMMA NewTableStep == TableInv /\ NewTable => TableInv'
<1>. SUFFICES ASSUME TableInv, NewTable PROVE TableInv'
  OBVIOUS
<1>1. /\ headers_' = headers_ /\ headers_ \in Seq(ClosedTexts) /\ rows_' = <<>>
      /\ widths_' = [k \in DOMAIN headers_ |-> VisibleLength(headers_[k])]
  BY DEF TableInv, NewTable
<1>2. widths_' \in [1..Len(headers_) -> Nat]
  BY <1>1, HeaderWidths
<1>3. \A k \in 1..Len(headers_) : VisibleLength(headers_[k]) <= widths_'[k]
  BY <1>1, HeaderWidths
<1>. QED  BY <1>1, <1>2, <1>3, EmptySeq DEF TableInv

LEMMA AddRowStep ==
  ASSUME TableInv, NEW row \in SomeRows, AddRow(row)
  PROVE  TableInv'
<1>. DEFINE y == Len(headers_)
            new == Resized(row)
<1>1. /\ headers_' = headers_ /\ headers_ \in Seq(ClosedTexts) /\ y \in Nat
      /\ DOMAIN headers_ = 1..y
  BY HeaderWidths, LenProperties DEF TableInv, AddRow
<1>2. \A k \in DOMAIN row : row[k] \in ClosedTexts
  <2>1. PICK m \in y - 1..y + 1 : row \in [1..m -> Cells]
    BY DEF SomeRows
  <2>. QED  BY <2>1, CellsAreClosed, ClosedIsText
<1>3. new \in [1..y -> ClosedTexts]
  <2>1. <<>> \in ClosedTexts
    BY EscapeIsClosed, ClosedIsText
  <2>2. \A k \in 1..y : (IF k \in DOMAIN row THEN row[k] ELSE <<>>) \in ClosedTexts
    BY <1>2, <2>1
  <2>. QED  BY <1>1, <2>2 DEF Resized
<1>4. \A k \in 1..y : VisibleLength(new[k]) \in Nat /\ widths_[k] \in Nat
  BY <1>3, ClosedWidth DEF TableInv
<1>5. widths_' = [k \in 1..y |-> Larger(widths_[k], VisibleLength(new[k]))]
  BY <1>1 DEF AddRow
<1>. HIDE DEF new, y
<1>6. ASSUME NEW k \in 1..y
      PROVE  /\ widths_'[k] \in Nat /\ widths_[k] <= widths_'[k]
             /\ VisibleLength(new[k]) <= widths_'[k]
  <2>1. widths_'[k] = Larger(widths_[k], VisibleLength(new[k]))
    BY <1>5
  <2>. QED  BY <1>4, <2>1 DEF Larger
<1>7. rows_ \in Seq([1..y -> ClosedTexts]) /\ rows_' = Append(rows_, new)
  BY DEF TableInv, AddRow, y, new
<1>8. /\ rows_' \in Seq([1..y -> ClosedTexts]) /\ Len(rows_') = Len(rows_) + 1
      /\ rows_'[Len(rows_) + 1] = new
      /\ \A j \in 1..Len(rows_) : rows_'[j] = rows_[j]
  BY <1>3, <1>7
<1>9. ASSUME NEW j \in 1..Len(rows_'), NEW k \in 1..y
      PROVE  VisibleLength(rows_'[j][k]) <= widths_'[k]
  <2>1. CASE j = Len(rows_) + 1
    BY <1>6, <1>8, <2>1
  <2>2. CASE j # Len(rows_) + 1
    <3>1. j \in 1..Len(rows_)
      BY <1>7, <1>8, <2>2
    <3>2. VisibleLength(rows_[j][k]) <= widths_[k]
      BY <3>1 DEF TableInv, y
    <3>3. VisibleLength(rows_[j][k]) \in Nat
      <4>1. rows_[j] \in [1..y -> ClosedTexts]
        BY <1>7, <3>1, ElementOfSeq
      <4>. QED  BY <4>1, ClosedWidth
    <3>4. rows_'[j] = rows_[j]
      BY <1>8, <3>1
    <3>. DEFINE v == VisibleLength(rows_[j][k])
    <3>. HIDE DEF v
    <3>5. v <= widths_[k] /\ widths_[k] <= widths_'[k] /\ v \in Nat
          /\ widths_[k] \in Nat /\ widths_'[k] \in Nat
      BY <1>4, <1>6, <3>2, <3>3 DEF v
    <3>6. v <= widths_'[k]
      BY <3>5
    <3>. QED  BY <3>4, <3>6 DEF v
  <2>. QED  BY <2>1, <2>2
<1>10. ASSUME NEW k \in 1..y
       PROVE  VisibleLength(headers_[k]) <= widths_'[k]
  <2>1. VisibleLength(headers_[k]) <= widths_[k] /\ VisibleLength(headers_[k]) \in Nat
    BY <1>1, HeaderWidths DEF TableInv, y
  <2>2. widths_[k] <= widths_'[k] /\ widths_[k] \in Nat /\ widths_'[k] \in Nat
    BY <1>4, <1>6
  <2>. QED  BY <2>1, <2>2
<1>11. widths_' \in [1..y -> Nat]
  BY <1>5, <1>6
<1>. QED  BY <1>1, <1>8, <1>9, <1>10, <1>11 DEF TableInv, y

LEMMA TableStep == TableInv /\ [TableNext]_tableVars => TableInv'
<1>. SUFFICES ASSUME TableInv, [TableNext]_tableVars PROVE TableInv'
  OBVIOUS
<1>1. CASE NewTable
  BY <1>1, NewTableStep
<1>2. ASSUME NEW row \in SomeRows, AddRow(row) PROVE TableInv'
  BY <1>2, AddRowStep
<1>3. CASE UNCHANGED tableVars
  BY <1>3 DEF tableVars, TableInv
<1>. QED  BY <1>1, <1>2, <1>3 DEF TableNext

\* The widths of a table are those of its widest cells.
THEOREM TableInvariant == TableSpec => []TableInv
BY TableInitEstablishes, TableStep, PTL DEF TableSpec

-----------------------------------------------------------------------------
(* Tables: what is printed. *)

LEMMA WrittenIs ==
  ASSUME NEW lin, NEW m
  PROVE  Written(lin, m) = Concats(lin, m)[m]
BY DEF Written, Concats, IsConcat

\* One cell after the other is written.
LEMMA WrittenStep ==
  ASSUME NEW lin, NEW m \in Nat, \A k \in 1..(m + 1) : lin[k] \in Seq(Chars)
  PROVE  Written(lin, m + 1) = Written(lin, m) \o lin[m + 1]
<1>. DEFINE g == Concats(lin, m)
            h == Concats(lin, m + 1)
<1>1. m + 1 \in Nat /\ m <= m + 1 /\ m \in 0..m /\ (m + 1) - 1 = m /\ m + 1 \in 1..(m + 1)
  OBVIOUS
<1>2. h[m + 1] = h[(m + 1) - 1] \o lin[m + 1]
  <2>1. \A k \in 1..(m + 1) : h[k] = h[k - 1] \o lin[k]
    BY <1>1, ConcatsAre
  <2>. QED  BY <1>1, <2>1, Zenon
<1>3. g[m] = h[m]
  <2>1. \A k \in 1..m : lin[k] = lin[k]
    OBVIOUS
  <2>2. \A k \in 0..m : Concats(lin, m)[k] = Concats(lin, m + 1)[k]
    BY <1>1, <2>1, ConcatsAgree
  <2>. QED  BY <1>1, <2>2, Zenon
<1>4. Written(lin, m) = g[m] /\ Written(lin, m + 1) = h[m + 1]
  BY WrittenIs
<1>. HIDE DEF g, h
<1>. QED  BY <1>1, <1>2, <1>3, <1>4

LEMMA WrittenZero == ASSUME NEW lin PROVE Written(lin, 0) = <<>>
<1>1. Concats(lin, 0)[0] = <<>>
  <2>1. 0 \in Nat /\ \A k \in 1..0 : lin[k] \in Seq(Chars)
    OBVIOUS
  <2>. QED  BY <2>1, ConcatsAre
<1>. QED  BY <1>1, WrittenIs

\* Lines whose cells are equally wide have their columns at the same places.
LEMMA WrittenAlike ==
  ASSUME NEW lin, NEW rul, NEW q \in Nat,
         \A k \in 1..q : /\ Closed(lin[k]) /\ Closed(rul[k])
                         /\ VisibleLength(lin[k]) = VisibleLength(rul[k])
  PROVE  \A m \in 0..q : VisibleLength(Written(lin, m)) = VisibleLength(Written(rul, m))
<1>. DEFINE Alike(m) == /\ Closed(Written(lin, m)) /\ Closed(Written(rul, m))
                        /\ VisibleLength(Written(lin, m)) = VisibleLength(Written(rul, m))
            S == {m \in Nat : m <= q => Alike(m)}
<1>1. 0 \in S
  <2>1. Alike(0)
    BY WrittenZero, EscapeIsClosed
  <2>. QED  BY <2>1
<1>2. ASSUME NEW m \in Nat, m \in S PROVE m + 1 \in S
  <2>. SUFFICES ASSUME m + 1 <= q PROVE Alike(m + 1)
    OBVIOUS
  <2>1. m + 1 \in 1..q /\ m <= q /\ \A k \in 1..(m + 1) : k \in 1..q
    OBVIOUS
  <2>2. \A k \in 1..(m + 1) : lin[k] \in Seq(Chars) /\ rul[k] \in Seq(Chars)
    BY <2>1 DEF Closed
  <2>3. /\ Written(lin, m + 1) = Written(lin, m) \o lin[m + 1]
        /\ Written(rul, m + 1) = Written(rul, m) \o rul[m + 1]
    BY <2>2, WrittenStep
  <2>4. Alike(m)
    BY <1>2, <2>1
  <2>5. /\ Closed(lin[m + 1]) /\ Closed(rul[m + 1])
        /\ VisibleLength(lin[m + 1]) = VisibleLength(rul[m + 1])
    BY <2>1
  <2>. DEFINE x == Written(lin, m)
              y == Written(rul, m)
              c == lin[m + 1]
              d == rul[m + 1]
  <2>. HIDE DEF x, y, c, d
  <2>6. /\ Closed(x \o c) /\ VisibleLength(x \o c) = VisibleLength(x) + VisibleLength(c)
        /\ Closed(y \o d) /\ VisibleLength(y \o d) = VisibleLength(y) + VisibleLength(d)
    BY <2>4, <2>5, ClosedConcat DEF x, y, c, d
  <2>7. VisibleLength(x) = VisibleLength(y) /\ VisibleLength(c) = VisibleLength(d)
    BY <2>4, <2>5 DEF x, y, c, d
  <2>8. VisibleLength(x \o c) = VisibleLength(y \o d)
    BY <2>6, <2>7
  <2>. QED  BY <2>3, <2>6, <2>8 DEF x, y, c, d
<1>. HIDE DEF S
<1>3. Nat \subseteq S
  BY <1>1, <1>2, InductionOnSet
<1>4. ASSUME NEW m \in 0..q PROVE Alike(m)
  <2>1. m \in Nat /\ m <= q
    OBVIOUS
  <2>. QED  BY <1>3, <2>1 DEF S
<1>. QED  BY <1>4

\* All cells of a line but the last are padded to the width of their column.
LEMMA PaddedCells ==
  ASSUME NEW q \in Nat, widths_ \in [1..q -> Nat], NEW r \in [1..q -> ClosedTexts],
         \A k \in 1..q : VisibleLength(r[k]) <= widths_[k]
  PROVE  \A k \in 1..q - 1 : /\ Closed(Printed(r)[k]) /\ Closed(Rule[k])
                             /\ VisibleLength(Printed(r)[k]) = VisibleLength(Rule[k])
<1>. SUFFICES ASSUME NEW k \in 1..q - 1
              PROVE  /\ Closed(Printed(r)[k]) /\ Closed(Rule[k])
                     /\ VisibleLength(Printed(r)[k]) = VisibleLength(Rule[k])
  OBVIOUS
<1>. DEFINE sep == IF k > 1 THEN Spaces(2) ELSE <<>>
            w == widths_[k]
            v == VisibleLength(r[k])
            cell == r[k]
            pad == Padding(r, k)
<1>1. k \in 1..q /\ DOMAIN r = 1..q /\ DOMAIN widths_ = 1..q
  OBVIOUS
<1>2. Printed(r)[k] = sep \o r[k] \o pad /\ Rule[k] = sep \o Spaces(w)
  BY <1>1 DEF Printed, Rule
<1>3. w \in Nat /\ v \in Nat /\ v <= w /\ Closed(cell)
  BY <1>1, ClosedWidth, ClosedIsText
<1>4. Closed(sep) /\ VisibleLength(sep) \in Nat
  <2>1. 2 \in Nat
    OBVIOUS
  <2>2. Closed(Spaces(2)) /\ Closed(<<>>)
    BY <2>1, SpacesAreWide, EscapeIsClosed
  <2>3. Closed(sep)
    BY <2>2
  <2>. HIDE DEF sep
  <2>. QED  BY <2>3, ClosedIsText, ClosedWidth
<1>5. Closed(pad) /\ VisibleLength(pad) = w - v
  <2>1. Len(r) = q /\ k < Len(r)
    <3>1. r \in Seq(ClosedTexts)
      OBVIOUS
    <3>. QED  BY <3>1
  <2>2. CASE v < w
    <3>1. pad = Spaces(w - v)
      BY <2>1, <2>2 DEF Padding
    <3>2. w - v \in Nat
      BY <1>3, <2>2
    <3>. HIDE DEF pad, w, v
    <3>. QED  BY <3>1, <3>2, SpacesAreWide
  <2>3. CASE ~(v < w)
    <3>1. pad = <<>>
      BY <2>3 DEF Padding
    <3>2. w - v = 0
      <4>. HIDE DEF w, v
      <4>. QED  BY <1>3, <2>3
    <3>3. <<>> \in Seq(Chars) /\ Len(<<>>) = 0
      BY EmptySeq
    <3>4. Closed(<<>>) /\ VisibleLength(<<>>) = 0
      <4>1. \A z \in 1..Len(<<>>) : <<>>[z] # "esc"
        BY <3>3
      <4>. QED  BY <3>3, <4>1, PlainText
    <3>. HIDE DEF pad, w, v
    <3>. QED  BY <3>1, <3>2, <3>4
  <2>. QED  BY <2>2, <2>3
<1>6. v = VisibleLength(cell)
  OBVIOUS
<1>7. Printed(r)[k] = (sep \o cell) \o pad
  BY <1>2
<1>. HIDE DEF sep, w, v, cell, pad
<1>8. /\ Closed(Printed(r)[k])
      /\ VisibleLength(Printed(r)[k]) = (VisibleLength(sep) + VisibleLength(cell)) + VisibleLength(pad)
  <2>1. Closed(sep \o cell) /\ VisibleLength(sep \o cell) = VisibleLength(sep) + VisibleLength(cell)
    BY <1>3, <1>4, ClosedConcat
  <2>. QED  BY <1>5, <1>7, <2>1, ClosedConcat
<1>9. /\ Closed(Rule[k])
      /\ VisibleLength(Rule[k]) = VisibleLength(sep) + w
  <2>1. Closed(Spaces(w)) /\ VisibleLength(Spaces(w)) = w
    BY <1>3, SpacesAreWide
  <2>. QED  BY <1>2, <1>4, <2>1, ClosedConcat
<1>10. (VisibleLength(sep) + v) + (w - v) = VisibleLength(sep) + w
  BY <1>3, <1>4
<1>. QED  BY <1>5, <1>6, <1>8, <1>9, <1>10

LEMMA ColumnsHold == TableInv => ColumnsAligned
<1>. SUFFICES ASSUME TableInv, NEW r \in {headers_} \cup ToSet(rows_), NEW k \in DOMAIN headers_
              PROVE  /\ Column(Printed(r), k) = Column(Rule, k)
                     /\ VisibleLength(r[k]) <= widths_[k]
  BY Zenon DEF ColumnsAligned
<1>. DEFINE q == Len(headers_)
<1>1. q \in Nat /\ DOMAIN headers_ = 1..q /\ headers_ \in [1..q -> ClosedTexts]
  BY LenProperties DEF TableInv
<1>2. r \in [1..q -> ClosedTexts] /\ \A c \in 1..q : VisibleLength(r[c]) <= widths_[c]
  <2>1. CASE r = headers_
    BY <1>1, <2>1 DEF TableInv
  <2>2. CASE r \in ToSet(rows_)
    <3>1. PICK j \in DOMAIN rows_ : r = rows_[j]
      BY <2>2 DEF ToSet
    <3>2. j \in 1..Len(rows_) /\ rows_[j] \in [1..q -> ClosedTexts]
      BY <3>1, LenProperties, ElementOfSeq DEF TableInv
    <3>. QED  BY <3>1, <3>2 DEF TableInv
  <2>. QED  BY <2>1, <2>2
<1>3. widths_ \in [1..q -> Nat]
  BY DEF TableInv
<1>. HIDE DEF q
<1>4. \A c \in 1..q - 1 : /\ Closed(Printed(r)[c]) /\ Closed(Rule[c])
                          /\ VisibleLength(Printed(r)[c]) = VisibleLength(Rule[c])
  BY <1>1, <1>2, <1>3, PaddedCells
<1>5. q - 1 \in Nat /\ k - 1 \in 0..q - 1 /\ k \in 1..q
  BY <1>1
<1>. DEFINE lin == Printed(r)
            m == q - 1
<1>. HIDE DEF lin, m
<1>6. \A c \in 0..m : VisibleLength(Written(lin, c)) = VisibleLength(Written(Rule, c))
  <2>1. m \in Nat /\ \A c \in 1..m : /\ Closed(lin[c]) /\ Closed(Rule[c])
                                     /\ VisibleLength(lin[c]) = VisibleLength(Rule[c])
    BY <1>4, <1>5 DEF lin, m
  <2>. QED  BY <2>1, WrittenAlike
<1>. QED  BY <1>2, <1>5, <1>6 DEF Column, lin, m

\* The columns of every table line up, whatever its cells are and however many
\* each row has.
THEOREM ColumnsAreAligned == TableSpec => []ColumnsAligned
BY TableInvariant, ColumnsHold, PTL

-----------------------------------------------------------------------------
(* Expressions: the trees of so many levels. *)

IsLevels(F, m) == F = [k \in 0..m |-> IF k = 0 THEN {} ELSE Variants(F[k - 1])]

Levels(m) == CHOOSE F : IsLevels(F, m)

LEMMA TreesAreLevels == ASSUME NEW m PROVE TreesUpTo(m) = Levels(m)[m]
BY DEF TreesUpTo, Levels, IsLevels

LEMMA LevelsExist == \A m \in Nat : \E F : IsLevels(F, m)
<1>. DEFINE S == {m \in Nat : \E F : IsLevels(F, m)}
<1>1. 0 \in S
  <2>1. IsLevels([k \in 0..0 |-> {}], 0)
    BY DEF IsLevels
  <2>. QED  BY <2>1
<1>2. ASSUME NEW m \in Nat, m \in S PROVE m + 1 \in S
  <2>1. PICK F : IsLevels(F, m)
    BY <1>2
  <2>. DEFINE g == [k \in 0..m + 1 |-> IF k = m + 1 THEN Variants(F[m]) ELSE F[k]]
  <2>2. ASSUME NEW k \in 0..m + 1
        PROVE  g[k] = IF k = 0 THEN {} ELSE Variants(g[k - 1])
    <3>1. k # 0 => k - 1 \in 0..m + 1 /\ k - 1 # m + 1 /\ k - 1 \in 0..m
      OBVIOUS
    <3>2. k # 0 => g[k - 1] = F[k - 1]
      BY <3>1
    <3>3. CASE k = m + 1
      <4>1. k # 0 /\ k - 1 = m
        BY <3>3
      <4>. QED  BY <3>2, <3>3, <4>1
    <3>4. CASE k # m + 1
      <4>1. k \in 0..m /\ g[k] = F[k]
        BY <3>4
      <4>2. F[k] = IF k = 0 THEN {} ELSE Variants(F[k - 1])
        BY <2>1, <4>1, Zenon DEF IsLevels
      <4>. QED  BY <3>2, <4>1, <4>2
    <3>. QED  BY <3>3, <3>4
  <2>3. g = [k \in 0..m + 1 |-> g[k]]
    OBVIOUS
  <2>. HIDE DEF g
  <2>4. IsLevels(g, m + 1)
    BY <2>2, <2>3, Zenon DEF IsLevels
  <2>. QED  BY <2>4
<1>. HIDE DEF S
<1>3. Nat \subseteq S
  BY <1>1, <1>2, InductionOnSet
<1>. QED  BY <1>3 DEF S

LEMMA LevelsAre ==
  ASSUME NEW m \in Nat
  PROVE  /\ Levels(m)[0] = {}
         /\ \A k \in 1..m : Levels(m)[k] = Variants(Levels(m)[k - 1])
<1>1. IsLevels(Levels(m), m)
  BY LevelsExist, Zenon DEF Levels
<1>. DEFINE g == Levels(m)
<1>. HIDE DEF g
<1>2. \A k \in 0..m : g[k] = IF k = 0 THEN {} ELSE Variants(g[k - 1])
  BY <1>1, Zenon DEF IsLevels, g
<1>3. 0 \in 0..m /\ \A k \in 1..m : k \in 0..m /\ k # 0
  OBVIOUS
<1>4. g[0] = {} /\ \A k \in 1..m : g[k] = Variants(g[k - 1])
  BY <1>2, <1>3, Zenon
<1>. QED  BY <1>4 DEF g

LEMMA LevelsAgree ==
  ASSUME NEW m \in Nat, NEW M \in Nat, m <= M
  PROVE  Levels(m)[m] = Levels(M)[m]
<1>. DEFINE g == Levels(m)
            h == Levels(M)
            S == {k \in Nat : k <= m => g[k] = h[k]}
<1>1. g[0] = {} /\ \A k \in 1..m : g[k] = Variants(g[k - 1])
  BY LevelsAre
<1>2. h[0] = {} /\ \A k \in 1..M : h[k] = Variants(h[k - 1])
  BY LevelsAre
<1>. HIDE DEF g, h
<1>3. 0 \in S
  BY <1>1, <1>2
<1>4. ASSUME NEW k \in Nat, k \in S PROVE k + 1 \in S
  <2>. SUFFICES ASSUME k + 1 <= m PROVE g[k + 1] = h[k + 1]
    OBVIOUS
  <2>1. k + 1 \in 1..m /\ k + 1 \in 1..M /\ (k + 1) - 1 = k /\ g[k] = h[k]
    BY <1>4
  <2>2. g[k + 1] = Variants(g[k]) /\ h[k + 1] = Variants(h[k])
    BY <1>1, <1>2, <2>1
  <2>. QED  BY <2>1, <2>2
<1>. HIDE DEF S
<1>5. Nat \subseteq S
  BY <1>3, <1>4, InductionOnSet
<1>6. g[m] = h[m]
  BY <1>5 DEF S
<1>. QED  BY <1>6 DEF g, h

\* A tree of one level more is a node above trees of that many levels.
LEMMA TreesStep ==
  /\ TreesUpTo(0) = {}
  /\ \A m \in Nat : TreesUpTo(m + 1) = Variants(TreesUpTo(m))
<1>1. TreesUpTo(0) = {}
  <2>1. 0 \in Nat
    OBVIOUS
  <2>. QED  BY <2>1, LevelsAre, TreesAreLevels
<1>2. ASSUME NEW m \in Nat PROVE TreesUpTo(m + 1) = Variants(TreesUpTo(m))
  <2>1. m + 1 \in Nat /\ m <= m + 1 /\ m + 1 \in 1..m + 1 /\ (m + 1) - 1 = m
    OBVIOUS
  <2>2. Levels(m + 1)[m + 1] = Variants(Levels(m + 1)[m])
    BY <2>1, LevelsAre
  <2>3. Levels(m)[m] = Levels(m + 1)[m]
    BY <2>1, LevelsAgree
  <2>. QED  BY <2>2, <2>3, TreesAreLevels
<1>. QED  BY <1>1, <1>2

\* What a tree is.
LEMMA VariantKinds ==
  ASSUME NEW s, NEW t \in Variants(s)
  PROVE  \/ t.kind = "literal" /\ t.value \in Literals
         \/ t.kind = "unary" /\ t.op = "-" /\ t.operand \in s
         \/ t.kind = "binary" /\ t.op \in BinaryOps /\ t.lhs \in s /\ t.rhs \in s
BY DEF Variants

LEMMA TreesGrow == \A m \in Nat : TreesUpTo(m) \subseteq TreesUpTo(m + 1)
<1>. DEFINE S == {m \in Nat : TreesUpTo(m) \subseteq TreesUpTo(m + 1)}
<1>1. 0 \in S
  BY TreesStep
<1>2. ASSUME NEW m \in Nat, m \in S PROVE m + 1 \in S
  <2>. DEFINE s == TreesUpTo(m)
              u == TreesUpTo(m + 1)
  <2>1. u = Variants(s) /\ TreesUpTo((m + 1) + 1) = Variants(u) /\ s \subseteq u
    BY <1>2, TreesStep
  <2>. HIDE DEF s, u
  <2>2. Variants(s) \subseteq Variants(u)
    BY <2>1 DEF Variants
  <2>. QED  BY <2>1, <2>2 DEF u
<1>. HIDE DEF S
<1>3. Nat \subseteq S
  BY <1>1, <1>2, InductionOnSet
<1>. QED  BY <1>3 DEF S

LEMMA TreesMonotone ==
  ASSUME NEW m \in Nat, NEW M \in Nat, m <= M
  PROVE  TreesUpTo(m) \subseteq TreesUpTo(M)
<1>. DEFINE S == {k \in Nat : TreesUpTo(m) \subseteq TreesUpTo(m + k)}
<1>1. 0 \in S
  <2>1. m + 0 = m
    OBVIOUS
  <2>. QED  BY <2>1
<1>2. ASSUME NEW k \in Nat, k \in S PROVE k + 1 \in S
  <2>1. (m + k) + 1 = m + (k + 1) /\ m + k \in Nat
    OBVIOUS
  <2>2. TreesUpTo(m + k) \subseteq TreesUpTo((m + k) + 1)
    BY <2>1, TreesGrow
  <2>. QED  BY <1>2, <2>1, <2>2
<1>. HIDE DEF S
<1>3. Nat \subseteq S
  BY <1>1, <1>2, InductionOnSet
<1>4. M - m \in Nat /\ m + (M - m) = M
  OBVIOUS
<1>. QED  BY <1>3, <1>4 DEF S

-----------------------------------------------------------------------------
(* Expressions: what the visitors compute. *)

Negation(v) == IF v # Throws THEN <<-v[1], v[2]>> ELSE v

Operation(sign, l, r) == IF Throws \in {l, r} THEN Throws ELSE Combine(sign, l, r)

IsVal(F, D) == F = [t \in D |-> VisitValue(F, t)]

Vals(D) == CHOOSE F : IsVal(F, D)

LEMMA EvaluateIs == ASSUME NEW e PROVE evaluate(e) = Vals(TreesUpTo(MaxNodes))[e]
BY Zenon DEF evaluate, Vals, IsVal

LEMMA ValBodies ==
  ASSUME NEW F, NEW s, NEW t \in Variants(s)
  PROVE  /\ t.kind = "literal" => VisitValue(F, t) = <<t.value, One>>
         /\ t.kind = "unary" => VisitValue(F, t) = Negation(F[t.operand])
         /\ t.kind = "binary" => VisitValue(F, t) = Operation(t.op, F[t.lhs], F[t.rhs])
<1>1. CASE t.kind = "literal"
  BY <1>1 DEF VisitValue
<1>2. CASE t.kind = "unary"
  <2>1. t.op = "-"
    BY <1>2, VariantKinds
  <2>. QED  BY <1>2, <2>1 DEF VisitValue, Negation
<1>3. CASE t.kind = "binary"
  BY <1>3 DEF VisitValue, Operation
<1>. QED  BY <1>1, <1>2, <1>3, VariantKinds

\* The value of a tree is told by those of its parts.
LEMMA VisitValueSame ==
  ASSUME NEW F, NEW g, NEW s, NEW t \in Variants(s), \A o \in s : F[o] = g[o]
  PROVE  VisitValue(F, t) = VisitValue(g, t)
<1>1. CASE t.kind = "literal"
  BY <1>1, ValBodies
<1>2. CASE t.kind = "unary"
  <2>1. F[t.operand] = g[t.operand]
    BY <1>2, VariantKinds
  <2>. QED  BY <1>2, <2>1, ValBodies
<1>3. CASE t.kind = "binary"
  <2>1. F[t.lhs] = g[t.lhs] /\ F[t.rhs] = g[t.rhs]
    BY <1>3, VariantKinds
  <2>. QED  BY <1>3, <2>1, ValBodies
<1>. QED  BY <1>1, <1>2, <1>3, VariantKinds

LEMMA ValsExist == \A m \in Nat : \E F : IsVal(F, TreesUpTo(m))
<1>. DEFINE S == {m \in Nat : \E F : IsVal(F, TreesUpTo(m))}
<1>1. 0 \in S
  <2>1. IsVal([t \in {} |-> 0], {})
    BY DEF IsVal
  <2>. QED  BY <2>1, TreesStep
<1>2. ASSUME NEW m \in Nat, m \in S PROVE m + 1 \in S
  <2>1. PICK F : IsVal(F, TreesUpTo(m))
    BY <1>2
  <2>. DEFINE s == TreesUpTo(m)
              u == TreesUpTo(m + 1)
              g == [t \in u |-> VisitValue(F, t)]
  <2>2. s \subseteq u /\ u = Variants(s)
    BY TreesGrow, TreesStep
  <2>3. \A o \in s : F[o] = VisitValue(F, o)
    BY <2>1, Zenon DEF IsVal
  <2>4. \A t \in u : g[t] = VisitValue(F, t)
    BY Zenon
  <2>5. g = [t \in u |-> g[t]]
    BY Zenon
  <2>. HIDE DEF s, u, g
  <2>6. \A o \in s : F[o] = g[o]
    BY <2>2, <2>3, <2>4
  <2>7. \A t \in u : VisitValue(F, t) = VisitValue(g, t)
    BY <2>2, <2>6, VisitValueSame
  <2>8. \A t \in u : g[t] = VisitValue(g, t)
    BY <2>4, <2>7
  <2>9. IsVal(g, u)
    BY <2>5, <2>8, Zenon DEF IsVal
  <2>. QED  BY <2>9 DEF u
<1>. HIDE DEF S
<1>3. Nat \subseteq S
  BY <1>1, <1>2, InductionOnSet
<1>. QED  BY <1>3 DEF S

LEMMA EvaluatedTree ==
  ASSUME NEW t \in TreesUpTo(MaxNodes)
  PROVE  evaluate(t) = VisitValue(Vals(TreesUpTo(MaxNodes)), t)
<1>. DEFINE D == TreesUpTo(MaxNodes)
            F == Vals(D)
<1>1. IsVal(F, D)
  <2>1. \E g : IsVal(g, D)
    BY ValsExist, ExprAssumption
  <2>. HIDE DEF D
  <2>. QED  BY <2>1, Zenon DEF Vals
<1>. HIDE DEF F
<1>2. F[t] = VisitValue(F, t)
  BY <1>1, Zenon DEF IsVal
<1>3. evaluate(t) = F[t]
  BY EvaluateIs DEF F
<1>4. evaluate(t) = VisitValue(F, t)
  BY <1>2, <1>3
<1>. QED  BY <1>4 DEF F

IsWr(F, D) == F = [t \in D |-> VisitWritten(F, t)]

Wrs(D) == CHOOSE F : IsWr(F, D)

LEMMA AsWrittenIs == ASSUME NEW e PROVE AsWritten(e) = Wrs(TreesUpTo(MaxNodes))[e]
BY Zenon DEF AsWritten, Wrs, IsWr

LEMMA WrittenBodies ==
  ASSUME NEW F, NEW s, NEW t \in Variants(s)
  PROVE  /\ t.kind = "literal" => VisitWritten(F, t) = lit(AsPrinted(t.value))
         /\ t.kind = "unary" => VisitWritten(F, t) = neg(F[t.operand])
         /\ t.kind = "binary" => VisitWritten(F, t) = bin(t.op, F[t.lhs], F[t.rhs])
<1>1. CASE t.kind = "literal"
  BY <1>1 DEF VisitWritten
<1>2. CASE t.kind = "unary"
  BY <1>2 DEF VisitWritten
<1>3. CASE t.kind = "binary"
  BY <1>3 DEF VisitWritten
<1>. QED  BY <1>1, <1>2, <1>3, VariantKinds

LEMMA VisitWrittenSame ==
  ASSUME NEW F, NEW g, NEW s, NEW t \in Variants(s), \A o \in s : F[o] = g[o]
  PROVE  VisitWritten(F, t) = VisitWritten(g, t)
<1>1. CASE t.kind = "literal"
  BY <1>1, WrittenBodies
<1>2. CASE t.kind = "unary"
  <2>1. F[t.operand] = g[t.operand]
    BY <1>2, VariantKinds
  <2>. QED  BY <1>2, <2>1, WrittenBodies
<1>3. CASE t.kind = "binary"
  <2>1. F[t.lhs] = g[t.lhs] /\ F[t.rhs] = g[t.rhs]
    BY <1>3, VariantKinds
  <2>. QED  BY <1>3, <2>1, WrittenBodies
<1>. QED  BY <1>1, <1>2, <1>3, VariantKinds

LEMMA WrsExist == \A m \in Nat : \E F : IsWr(F, TreesUpTo(m))
<1>. DEFINE S == {m \in Nat : \E F : IsWr(F, TreesUpTo(m))}
<1>1. 0 \in S
  <2>1. IsWr([t \in {} |-> 0], {})
    BY DEF IsWr
  <2>. QED  BY <2>1, TreesStep
<1>2. ASSUME NEW m \in Nat, m \in S PROVE m + 1 \in S
  <2>1. PICK F : IsWr(F, TreesUpTo(m))
    BY <1>2
  <2>. DEFINE s == TreesUpTo(m)
              u == TreesUpTo(m + 1)
              g == [t \in u |-> VisitWritten(F, t)]
  <2>2. s \subseteq u /\ u = Variants(s)
    BY TreesGrow, TreesStep
  <2>3. \A o \in s : F[o] = VisitWritten(F, o)
    BY <2>1, Zenon DEF IsWr
  <2>4. \A t \in u : g[t] = VisitWritten(F, t)
    BY Zenon
  <2>5. g = [t \in u |-> g[t]]
    BY Zenon
  <2>. HIDE DEF s, u, g
  <2>6. \A o \in s : F[o] = g[o]
    BY <2>2, <2>3, <2>4
  <2>7. \A t \in u : VisitWritten(F, t) = VisitWritten(g, t)
    BY <2>2, <2>6, VisitWrittenSame
  <2>8. \A t \in u : g[t] = VisitWritten(g, t)
    BY <2>4, <2>7
  <2>9. IsWr(g, u)
    BY <2>5, <2>8, Zenon DEF IsWr
  <2>. QED  BY <2>9 DEF u
<1>. HIDE DEF S
<1>3. Nat \subseteq S
  BY <1>1, <1>2, InductionOnSet
<1>. QED  BY <1>3 DEF S

LEMMA WrittenTree ==
  ASSUME NEW t \in TreesUpTo(MaxNodes)
  PROVE  AsWritten(t) = VisitWritten(Wrs(TreesUpTo(MaxNodes)), t)
<1>. DEFINE D == TreesUpTo(MaxNodes)
            F == Wrs(D)
<1>1. IsWr(F, D)
  <2>1. \E g : IsWr(g, D)
    BY WrsExist, ExprAssumption
  <2>. HIDE DEF D
  <2>. QED  BY <2>1, Zenon DEF Wrs
<1>. HIDE DEF F
<1>2. F[t] = VisitWritten(F, t)
  BY <1>1, Zenon DEF IsWr
<1>3. AsWritten(t) = F[t]
  BY AsWrittenIs DEF F
<1>4. AsWritten(t) = VisitWritten(F, t)
  BY <1>2, <1>3
<1>. QED  BY <1>4 DEF F

\* The tree that is seen is one of the same kind, of as many levels.
LEMMA WrittenKinds ==
  ASSUME NEW k \in Nat, k <= MaxNodes, NEW e \in TreesUpTo(k)
  PROVE  /\ e.kind = "literal" => AsWritten(e) = lit(AsPrinted(e.value))
         /\ e.kind = "unary" => AsWritten(e) = neg(AsWritten(e.operand))
         /\ e.kind = "binary" => AsWritten(e) = bin(e.op, AsWritten(e.lhs), AsWritten(e.rhs))
<1>. DEFINE T == TreesUpTo(MaxNodes)
            F == Wrs(T)
<1>1. e \in T /\ T = Variants(TreesUpTo(MaxNodes - 1))
  <2>1. MaxNodes \in Nat /\ e \in T
    BY ExprAssumption, TreesMonotone
  <2>2. MaxNodes # 0
    BY <2>1, TreesStep
  <2>3. MaxNodes - 1 \in Nat /\ (MaxNodes - 1) + 1 = MaxNodes
    BY <2>1, <2>2
  <2>. QED  BY <2>1, <2>3, TreesStep
<1>2. /\ AsWritten(e) = VisitWritten(F, e)
      /\ \A o : AsWritten(o) = F[o]
  BY <1>1, WrittenTree, AsWrittenIs
<1>. HIDE DEF F, T
<1>. QED  BY <1>1, <1>2, WrittenBodies

LEMMA WrittenLevels ==
  \A k \in Nat : k <= MaxNodes => \A e \in TreesUpTo(k) : AsWritten(e) \in TreesUpTo(k)
<1>. DEFINE S == {k \in Nat : k <= MaxNodes => \A e \in TreesUpTo(k) : AsWritten(e) \in TreesUpTo(k)}
<1>1. 0 \in S
  BY TreesStep
<1>2. ASSUME NEW k \in Nat, k \in S PROVE k + 1 \in S
  <2>. SUFFICES ASSUME k + 1 <= MaxNodes, NEW e \in TreesUpTo(k + 1)
                PROVE  AsWritten(e) \in TreesUpTo(k + 1)
    OBVIOUS
  <2>. DEFINE s == TreesUpTo(k)
  <2>1. /\ \A o \in s : AsWritten(o) \in s
        /\ TreesUpTo(k + 1) = Variants(s) /\ e \in Variants(s)
    <3>1. k <= MaxNodes
      BY ExprAssumption
    <3>. QED  BY <1>2, <3>1, TreesStep
  <2>2. /\ e.kind = "literal" => AsWritten(e) = lit(AsPrinted(e.value))
        /\ e.kind = "unary" => AsWritten(e) = neg(AsWritten(e.operand))
        /\ e.kind = "binary" => AsWritten(e) = bin(e.op, AsWritten(e.lhs), AsWritten(e.rhs))
    BY WrittenKinds
  <2>. HIDE DEF s
  <2>3. CASE e.kind = "literal"
    <3>1. AsPrinted(e.value) \in Literals
      BY <2>1, <2>3, VariantKinds, ExprAssumption
    <3>. QED  BY <2>1, <2>2, <2>3, <3>1 DEF Variants, lit
  <2>4. CASE e.kind = "unary"
    <3>1. AsWritten(e.operand) \in s
      BY <2>1, <2>4, VariantKinds
    <3>. QED  BY <2>1, <2>2, <2>4, <3>1 DEF Variants, neg
  <2>5. CASE e.kind = "binary"
    <3>1. AsWritten(e.lhs) \in s /\ AsWritten(e.rhs) \in s /\ e.op \in BinaryOps
      BY <2>1, <2>5, VariantKinds
    <3>. QED  BY <2>1, <2>2, <2>5, <3>1 DEF Variants, bin
  <2>. QED  BY <2>1, <2>3, <2>4, <2>5, VariantKinds
<1>. HIDE DEF S
<1>3. Nat \subseteq S
  BY <1>1, <1>2, InductionOnSet
<1>. QED  BY <1>3 DEF S

\* What the text of a tree says that it is worth.
Worth(e) == evaluate(AsWritten(e))

LEMMA WorthKinds ==
  ASSUME NEW k \in Nat, k + 1 <= MaxNodes, NEW e \in TreesUpTo(k + 1)
  PROVE  /\ e.kind = "literal" => Worth(e) = <<AsPrinted(e.value), One>>
         /\ e.kind = "unary" => Worth(e) = Negation(Worth(e.operand))
         /\ e.kind = "binary" => Worth(e) = Operation(e.op, Worth(e.lhs), Worth(e.rhs))
<1>. DEFINE T == TreesUpTo(MaxNodes)
            F == Vals(T)
            s == TreesUpTo(k)
            w == AsWritten(e)
<1>1. k + 1 \in Nat /\ MaxNodes \in Nat /\ k <= MaxNodes
  BY ExprAssumption
<1>2. w \in TreesUpTo(k + 1) /\ TreesUpTo(k + 1) = Variants(s) /\ TreesUpTo(k + 1) \subseteq T
  BY <1>1, WrittenLevels, TreesStep, TreesMonotone
<1>3. e \in Variants(s) /\ w \in Variants(s) /\ w \in T
  BY <1>2
<1>4. evaluate(w) = VisitValue(F, w) /\ \A o : evaluate(o) = F[o]
  BY <1>3, EvaluatedTree, EvaluateIs
<1>5. /\ e.kind = "literal" => w = lit(AsPrinted(e.value))
      /\ e.kind = "unary" => w = neg(AsWritten(e.operand))
      /\ e.kind = "binary" => w = bin(e.op, AsWritten(e.lhs), AsWritten(e.rhs))
  BY <1>1, WrittenKinds
<1>6. /\ w.kind = "literal" => evaluate(w) = <<w.value, One>>
      /\ w.kind = "unary" => evaluate(w) = Negation(evaluate(w.operand))
      /\ w.kind = "binary" => evaluate(w) = Operation(w.op, evaluate(w.lhs), evaluate(w.rhs))
  <2>. HIDE DEF F, s, w, T
  <2>1. /\ w.kind = "literal" => VisitValue(F, w) = <<w.value, One>>
        /\ w.kind = "unary" => VisitValue(F, w) = Negation(F[w.operand])
        /\ w.kind = "binary" => VisitValue(F, w) = Operation(w.op, F[w.lhs], F[w.rhs])
    BY <1>3, ValBodies
  <2>. QED  BY <1>4, <2>1, Zenon
<1>7. Worth(e) = evaluate(w)
  BY DEF Worth
<1>. HIDE DEF F, s, w, T
<1>8. CASE e.kind = "literal"
  <2>1. w.kind = "literal" /\ w.value = AsPrinted(e.value)
    BY <1>5, <1>8 DEF lit
  <2>. QED  BY <1>6, <1>7, <1>8, <2>1
<1>9. CASE e.kind = "unary"
  <2>1. w.kind = "unary" /\ w.operand = AsWritten(e.operand)
    BY <1>5, <1>9 DEF neg
  <2>. QED  BY <1>6, <1>7, <1>9, <2>1 DEF Worth
<1>10. CASE e.kind = "binary"
  <2>1. /\ w.kind = "binary" /\ w.op = e.op
        /\ w.lhs = AsWritten(e.lhs) /\ w.rhs = AsWritten(e.rhs)
    BY <1>5, <1>10 DEF bin
  <2>. QED  BY <1>6, <1>7, <1>10, <2>1 DEF Worth
<1>. QED  BY <1>3, <1>8, <1>9, <1>10, VariantKinds

IsText(F, D) == F = [t \in D |-> VisitText(F, t)]

TextsOf(D) == CHOOSE F : IsText(F, D)

LEMMA ToStringIs == ASSUME NEW e PROVE to_string(e) = TextsOf(TreesUpTo(MaxNodes))[e]
BY Zenon DEF to_string, TextsOf, IsText

LEMMA TextBodies ==
  ASSUME NEW F, NEW s, NEW t \in Variants(s)
  PROVE  /\ t.kind = "literal" => VisitText(F, t) = PrintNumber(t.value)
         /\ t.kind = "unary" => VisitText(F, t) = <<"-">> \o F[t.operand]
         /\ t.kind = "binary" => VisitText(F, t) = PrintBinary(t.op, F[t.lhs], F[t.rhs])
<1>1. CASE t.kind = "literal"
  BY <1>1 DEF VisitText
<1>2. CASE t.kind = "unary"
  <2>1. t.op = "-"
    BY <1>2, VariantKinds
  <2>. QED  BY <1>2, <2>1 DEF VisitText
<1>3. CASE t.kind = "binary"
  BY <1>3 DEF VisitText
<1>. QED  BY <1>1, <1>2, <1>3, VariantKinds

LEMMA VisitTextSame ==
  ASSUME NEW F, NEW g, NEW s, NEW t \in Variants(s), \A o \in s : F[o] = g[o]
  PROVE  VisitText(F, t) = VisitText(g, t)
<1>1. CASE t.kind = "literal"
  BY <1>1, TextBodies
<1>2. CASE t.kind = "unary"
  <2>1. F[t.operand] = g[t.operand]
    BY <1>2, VariantKinds
  <2>. QED  BY <1>2, <2>1, TextBodies
<1>3. CASE t.kind = "binary"
  <2>1. F[t.lhs] = g[t.lhs] /\ F[t.rhs] = g[t.rhs]
    BY <1>3, VariantKinds
  <2>. QED  BY <1>3, <2>1, TextBodies
<1>. QED  BY <1>1, <1>2, <1>3, VariantKinds

LEMMA TextsExist == \A m \in Nat : \E F : IsText(F, TreesUpTo(m))
<1>. DEFINE S == {m \in Nat : \E F : IsText(F, TreesUpTo(m))}
<1>1. 0 \in S
  <2>1. IsText([t \in {} |-> 0], {})
    BY DEF IsText
  <2>. QED  BY <2>1, TreesStep
<1>2. ASSUME NEW m \in Nat, m \in S PROVE m + 1 \in S
  <2>1. PICK F : IsText(F, TreesUpTo(m))
    BY <1>2
  <2>. DEFINE s == TreesUpTo(m)
              u == TreesUpTo(m + 1)
              g == [t \in u |-> VisitText(F, t)]
  <2>2. s \subseteq u /\ u = Variants(s)
    BY TreesGrow, TreesStep
  <2>3. \A o \in s : F[o] = VisitText(F, o)
    BY <2>1, Zenon DEF IsText
  <2>4. \A t \in u : g[t] = VisitText(F, t)
    BY Zenon
  <2>5. g = [t \in u |-> g[t]]
    BY Zenon
  <2>. HIDE DEF s, u, g
  <2>6. \A o \in s : F[o] = g[o]
    BY <2>2, <2>3, <2>4
  <2>7. \A t \in u : VisitText(F, t) = VisitText(g, t)
    BY <2>2, <2>6, VisitTextSame
  <2>8. \A t \in u : g[t] = VisitText(g, t)
    BY <2>4, <2>7
  <2>9. IsText(g, u)
    BY <2>5, <2>8, Zenon DEF IsText
  <2>. QED  BY <2>9 DEF u
<1>. HIDE DEF S
<1>3. Nat \subseteq S
  BY <1>1, <1>2, InductionOnSet
<1>. QED  BY <1>3 DEF S

LEMMA PrintedTree ==
  ASSUME NEW t \in TreesUpTo(MaxNodes)
  PROVE  to_string(t) = VisitText(TextsOf(TreesUpTo(MaxNodes)), t)
<1>. DEFINE D == TreesUpTo(MaxNodes)
            F == TextsOf(D)
<1>1. IsText(F, D)
  <2>1. \E g : IsText(g, D)
    BY TextsExist, ExprAssumption
  <2>. HIDE DEF D
  <2>. QED  BY <2>1, Zenon DEF TextsOf
<1>. HIDE DEF F
<1>2. F[t] = VisitText(F, t)
  BY <1>1, Zenon DEF IsText
<1>3. to_string(t) = F[t]
  BY ToStringIs DEF F
<1>4. to_string(t) = VisitText(F, t)
  BY <1>2, <1>3
<1>. QED  BY <1>4 DEF F

-----------------------------------------------------------------------------
(* Expressions: how texts are put together. *)

Digits == {ToString(Rounded(Magnitude(v))) : v \in Literals}

Signs == {"-", "(", ")", " "} \cup BinaryOps \cup Digits

LEMMA SignsAre ==
  /\ {"-", "(", ")", " "} \subseteq Signs
  /\ BinaryOps \subseteq Signs
  /\ \A v \in Literals : ToString(Rounded(Magnitude(v))) \in Signs
BY DEF Signs, Digits

LEMMA Singleton == ASSUME NEW A, NEW c \in A PROVE <<c>> \in Seq(A)
OBVIOUS

LEMMA Triple ==
  ASSUME NEW A, NEW q \in A, NEW c \in A, NEW d \in A
  PROVE  <<q, c, d>> \in Seq(A)
OBVIOUS

LEMMA Strip ==
  ASSUME NEW A, NEW c \in A, NEW d \in A, NEW s \in Seq(A), NEW u \in Seq(A),
         <<c>> \o s = <<d>> \o u
  PROVE  c = d /\ s = u
<1>1. <<c>> \in Seq(A) /\ <<d>> \in Seq(A) /\ Len(<<c>>) = 1 /\ Len(<<d>>) = 1
  OBVIOUS
<1>2. (<<c>> \o s)[1] = c /\ (<<d>> \o u)[1] = d
  OBVIOUS
<1>3. c = d
  BY <1>2
<1>4. <<c>> \o s = <<c>> \o u
  BY <1>3
<1>5. s = u
  BY <1>1, <1>4, ConcatSimplifications
<1>. QED  BY <1>3, <1>5

\* A sign between two others.
Around(x, c, s) == <<x, c, x>> \o s

LEMMA StripThree ==
  ASSUME NEW A, NEW x \in A, NEW c \in A, NEW d \in A, NEW s \in Seq(A), NEW u \in Seq(A),
         Around(x, c, s) = Around(x, d, u)
  PROVE  c = d /\ s = u
<1>1. <<x, c, x>> \in Seq(A) /\ Len(<<x, c, x>>) = 3 /\ <<x, d, x>> \in Seq(A)
  OBVIOUS
<1>2. (<<x, c, x>> \o s)[2] = c /\ (<<x, d, x>> \o u)[2] = d
  OBVIOUS
<1>3. c = d
  BY <1>2 DEF Around
<1>4. <<x, c, x>> \o s = <<x, c, x>> \o u
  BY <1>3 DEF Around
<1>5. s = u
  BY <1>1, <1>4, ConcatSimplifications
<1>. QED  BY <1>3, <1>5

Assoc(p, q, c) == (p \o q) \o c = p \o (q \o c)

LEMMA Associates ==
  ASSUME NEW A, NEW p \in Seq(A), NEW q \in Seq(A), NEW c \in Seq(A)
  PROVE  Assoc(p, q, c)
BY ConcatAssociative DEF Assoc

Five(p, q, c, d, e) == p \o q \o c \o d \o e

Unfolds(p, q, c, d, e, s) ==
  Five(p, q, c, d, e) \o s = p \o (q \o (c \o (d \o (e \o s))))

LEMMA ConcatFive ==
  ASSUME NEW A, NEW p \in Seq(A), NEW q \in Seq(A), NEW c \in Seq(A), NEW d \in Seq(A),
         NEW e \in Seq(A), NEW s \in Seq(A)
  PROVE  /\ Five(p, q, c, d, e) \in Seq(A)
         /\ Unfolds(p, q, c, d, e, s)
<1>. DEFINE ab == p \o q
            abc == ab \o c
            abcd == abc \o d
            es == e \o s
            des == d \o es
            cdes == c \o des
<1>. HIDE DEF ab, abc, abcd, es, des, cdes
<1>1. ab \in Seq(A) /\ es \in Seq(A)
  BY ConcatProperties DEF ab, es
<1>2. abc \in Seq(A) /\ des \in Seq(A)
  BY <1>1, ConcatProperties DEF abc, des
<1>3. abcd \in Seq(A) /\ cdes \in Seq(A)
  BY <1>2, ConcatProperties DEF abcd, cdes
<1>4. abcd \o e \in Seq(A)
  BY <1>3, ConcatProperties
<1>5. Assoc(abcd, e, s) /\ Assoc(abc, d, es) /\ Assoc(ab, c, des) /\ Assoc(p, q, cdes)
  BY <1>1, <1>2, <1>3, Associates
<1>6. (abcd \o e) \o s = p \o (q \o cdes)
  BY <1>5, Zenon DEF Assoc, es, des, cdes, abcd, abc, ab
<1>. QED  BY <1>4, <1>6, Zenon DEF Five, Unfolds, ab, abc, abcd, es, des, cdes

\* How the text of a tree begins, and what its value is.
IsPositive(e, v) ==
  /\ v \in Literals /\ v >= 0
  /\ to_string(e) = <<ToString(Rounded(Magnitude(v)))>> /\ Worth(e) = <<AsPrinted(v), One>>

IsNegative(e, v) ==
  /\ v \in Literals /\ v < 0
  /\ to_string(e) = <<"-">> \o <<ToString(Rounded(Magnitude(v)))>> /\ Worth(e) = <<AsPrinted(v), One>>

IsUnary(e, o) ==
  /\ to_string(e) = <<"-">> \o to_string(o)
  /\ Worth(e) = Negation(Worth(o))

IsBinary(e, sign, l, r) ==
  /\ sign \in BinaryOps
  /\ to_string(e) = PrintBinary(sign, to_string(l), to_string(r))
  /\ Worth(e) = Operation(sign, Worth(l), Worth(r))

\* A tree is printed and evaluated as its kind says, from the texts and the
\* values of its parts.
LEMMA TreeShapes ==
  ASSUME NEW k \in Nat, k + 1 <= MaxNodes, NEW e \in TreesUpTo(k + 1)
  PROVE  \/ \E v \in Literals : IsPositive(e, v) \/ IsNegative(e, v)
         \/ \E o \in TreesUpTo(k) : IsUnary(e, o)
         \/ \E sign \in BinaryOps : \E l, r \in TreesUpTo(k) : IsBinary(e, sign, l, r)
<1>. DEFINE T == TreesUpTo(MaxNodes)
            g == TextsOf(T)
            s == TreesUpTo(k)
<1>1. s \subseteq T /\ TreesUpTo(k + 1) \subseteq T /\ e \in Variants(s)
  <2>1. MaxNodes \in Nat /\ k <= MaxNodes /\ k + 1 \in Nat
    BY ExprAssumption
  <2>. QED  BY <2>1, TreesMonotone, TreesStep
<1>2. /\ e.kind = "literal" => Worth(e) = <<AsPrinted(e.value), One>>
      /\ e.kind = "unary" => Worth(e) = Negation(Worth(e.operand))
      /\ e.kind = "binary" => Worth(e) = Operation(e.op, Worth(e.lhs), Worth(e.rhs))
  BY WorthKinds
<1>3. to_string(e) = VisitText(g, e) /\ \A o \in T : to_string(o) = g[o]
  BY <1>1, ToStringIs, PrintedTree
<1>. HIDE DEF g, T, s
<1>4. CASE e.kind = "literal"
  <2>1. e.value \in Literals /\ e.value \in Int
    BY <1>1, <1>4, VariantKinds, ExprAssumption, PrintableNumbers
  <2>2. Worth(e) = <<AsPrinted(e.value), One>> /\ to_string(e) = PrintNumber(e.value)
    BY <1>1, <1>2, <1>3, <1>4, TextBodies
  <2>. DEFINE d == ToString(Rounded(Magnitude(e.value)))
  <2>3. PrintNumber(e.value) = (IF e.value < 0 THEN <<"-">> ELSE <<>>) \o <<d>>
    BY DEF PrintNumber
  <2>. HIDE DEF d
  <2>4. CASE e.value < 0
    <3>1. IsNegative(e, e.value)
      BY <2>1, <2>2, <2>3, <2>4 DEF IsNegative, d
    <3>. QED  BY <2>1, <3>1
  <2>5. CASE ~(e.value < 0)
    <3>1. <<d>> \in Seq({d})
      OBVIOUS
    <3>2. <<>> \o <<d>> = <<d>>
      BY <3>1, ConcatEmptySeq
    <3>3. to_string(e) = <<d>>
      BY <2>2, <2>3, <2>5, <3>2
    <3>4. e.value >= 0
      BY <2>1, <2>5
    <3>5. IsPositive(e, e.value)
      BY <2>1, <2>2, <3>3, <3>4 DEF IsPositive, d
    <3>. QED  BY <2>1, <3>5
  <2>. QED  BY <2>4, <2>5
<1>5. CASE e.kind = "unary"
  <2>. DEFINE o == e.operand
  <2>1. o \in s /\ o \in T
    BY <1>1, <1>5, VariantKinds
  <2>2. Worth(e) = Negation(Worth(o)) /\ to_string(e) = <<"-">> \o to_string(o)
    BY <1>1, <1>2, <1>3, <1>5, <2>1, TextBodies
  <2>3. IsUnary(e, o)
    BY <2>2 DEF IsUnary
  <2>. QED  BY <2>1, <2>3 DEF s
<1>6. CASE e.kind = "binary"
  <2>. DEFINE l == e.lhs
              r == e.rhs
  <2>1. l \in s /\ r \in s /\ l \in T /\ r \in T /\ e.op \in BinaryOps
    BY <1>1, <1>6, VariantKinds
  <2>2. /\ Worth(e) = Operation(e.op, Worth(l), Worth(r))
        /\ to_string(e) = PrintBinary(e.op, to_string(l), to_string(r))
    BY <1>1, <1>2, <1>3, <1>6, <2>1, TextBodies
  <2>3. IsBinary(e, e.op, l, r)
    BY <2>1, <2>2 DEF IsBinary
  <2>. QED  BY <2>1, <2>3 DEF s
<1>. QED  BY <1>1, <1>4, <1>5, <1>6, VariantKinds

LEMMA BinaryText ==
  ASSUME NEW sign \in BinaryOps, NEW p \in Seq(Signs), NEW q \in Seq(Signs), NEW s \in Seq(Signs)
  PROVE  /\ PrintBinary(sign, p, q) \in Seq(Signs)
         /\ PrintBinary(sign, p, q) \o s
              = <<"(">> \o (p \o (<<" ", sign, " ">> \o (q \o (<<")">> \o s))))
<1>1. <<"(">> \in Seq(Signs) /\ <<" ", sign, " ">> \in Seq(Signs) /\ <<")">> \in Seq(Signs)
  <2>1. "(" \in Signs /\ " " \in Signs /\ sign \in Signs /\ ")" \in Signs
    BY SignsAre
  <2>. HIDE DEF Signs
  <2>2. <<"(">> \in Seq(Signs) /\ <<")">> \in Seq(Signs)
    BY <2>1, Singleton, Zenon
  <2>3. <<" ", sign, " ">> \in Seq(Signs)
    BY <2>1, Triple, Zenon
  <2>. QED  BY <2>2, <2>3
<1>. DEFINE x == <<"(">>
            y == <<" ", sign, " ">>
            z == <<")">>
<1>. HIDE DEF x, y, z
<1>2. x \in Seq(Signs) /\ y \in Seq(Signs) /\ z \in Seq(Signs)
  BY <1>1 DEF x, y, z
<1>3. Five(x, p, y, q, z) \in Seq(Signs) /\ Unfolds(x, p, y, q, z, s)
  BY <1>2, ConcatFive
<1>. QED  BY <1>3, Zenon DEF PrintBinary, Five, Unfolds, x, y, z

LEMMA TextsAreSigns ==
  \A k \in Nat : k <= MaxNodes => \A e \in TreesUpTo(k) : to_string(e) \in Seq(Signs)
<1>. DEFINE S == {k \in Nat : k <= MaxNodes => \A e \in TreesUpTo(k) : to_string(e) \in Seq(Signs)}
<1>1. 0 \in S
  BY TreesStep
<1>2. ASSUME NEW k \in Nat, k \in S PROVE k + 1 \in S
  <2>. SUFFICES ASSUME k + 1 <= MaxNodes, NEW e \in TreesUpTo(k + 1)
                PROVE  to_string(e) \in Seq(Signs)
    OBVIOUS
  <2>1. \A o \in TreesUpTo(k) : to_string(o) \in Seq(Signs)
    <3>1. k <= MaxNodes
      BY ExprAssumption
    <3>. QED  BY <1>2, <3>1
  <2>2. <<"-">> \in Seq(Signs) /\ \A v \in Literals : <<ToString(Rounded(Magnitude(v)))>> \in Seq(Signs)
    <3>1. "-" \in Signs
      BY SignsAre
    <3>. QED  BY <3>1, SignsAre, Singleton, Zenon
  <2>3. ASSUME NEW v \in Literals, IsPositive(e, v) \/ IsNegative(e, v)
        PROVE  to_string(e) \in Seq(Signs)
    BY <2>2, <2>3, ConcatProperties DEF IsPositive, IsNegative
  <2>4. ASSUME NEW o \in TreesUpTo(k), IsUnary(e, o)
        PROVE  to_string(e) \in Seq(Signs)
    BY <2>1, <2>2, <2>4, ConcatProperties DEF IsUnary
  <2>5. ASSUME NEW sign \in BinaryOps, NEW l \in TreesUpTo(k), NEW r \in TreesUpTo(k),
               IsBinary(e, sign, l, r)
        PROVE  to_string(e) \in Seq(Signs)
    BY <2>1, <2>5, BinaryText, EmptySeq DEF IsBinary
  <2>. QED  BY <2>3, <2>4, <2>5, TreeShapes
<1>. HIDE DEF S
<1>3. Nat \subseteq S
  BY <1>1, <1>2, InductionOnSet
<1>. QED  BY <1>3 DEF S

-----------------------------------------------------------------------------
(* Expressions: texts that are read sign after sign. *)

Lines == Seq(Signs)

Then(s, u) == s \o u

Numeral(v) == ToString(Rounded(Magnitude(v)))

LEMMA ThenIsText == ASSUME NEW s \in Lines, NEW u \in Lines PROVE Then(s, u) \in Lines
BY ConcatProperties DEF Lines, Then

\* A text that begins with the sign c, and one that begins with an operator.
Prefixed(c, s) == Then(<<c>>, s)

Infix(sign, s) == Then(<<" ", sign, " ">>, s)

LEMMA SignTexts ==
  /\ "-" \in Signs /\ "(" \in Signs /\ ")" \in Signs
  /\ \A v \in Literals : Numeral(v) \in Signs
  /\ \A sign \in BinaryOps : sign \in Signs
  /\ \A c \in Signs : <<c>> \in Lines
BY SignsAre, Singleton DEF Numeral, Lines

LEMMA BeginIsText == ASSUME NEW c \in Signs, NEW s \in Lines PROVE Prefixed(c, s) \in Lines
<1>1. <<c>> \in Lines
  BY SignTexts, Zenon
<1>. QED  BY <1>1, ThenIsText, Zenon DEF Prefixed

LEMMA InfixIsText == ASSUME NEW sign \in BinaryOps, NEW s \in Lines PROVE Infix(sign, s) \in Lines
<1>1. " " \in Signs /\ sign \in Signs
  BY SignsAre
<1>2. <<" ", sign, " ">> \in Lines
  BY <1>1, Triple, Zenon DEF Lines
<1>. QED  BY <1>2, ThenIsText, Zenon DEF Infix

LEMMA StripSign ==
  ASSUME NEW c \in Signs, NEW d \in Signs, NEW s \in Lines, NEW u \in Lines,
         Prefixed(c, s) = Prefixed(d, u)
  PROVE  c = d /\ s = u
BY Strip DEF Lines, Then, Prefixed

LEMMA StripOp ==
  ASSUME NEW sign \in BinaryOps, NEW q \in BinaryOps, NEW s \in Lines, NEW u \in Lines,
         Infix(sign, s) = Infix(q, u)
  PROVE  sign = q /\ s = u
<1>. DEFINE x == " "
<1>1. x \in Signs /\ sign \in Signs /\ q \in Signs
  BY SignsAre
<1>2. s \in Seq(Signs) /\ u \in Seq(Signs)
  BY DEF Lines
<1>3. Around(x, sign, s) = Around(x, q, u)
  BY Zenon DEF Infix, Then, Around
<1>. HIDE DEF x
<1>. QED  BY <1>1, <1>2, <1>3, StripThree

\* Numbers are told by their signs, and never begin like another tree.
LEMMA SignsTell ==
  /\ \A v, w \in Literals : Numeral(v) = Numeral(w) => Rounded(Magnitude(v)) = Rounded(Magnitude(w))
  /\ \A v \in Literals : Numeral(v) # "(" /\ Numeral(v) # "-"
<1>1. \A v \in Literals : Rounded(Magnitude(v)) \in Magnitudes
  BY ExprAssumption, PrintableNumbers
<1>. QED  BY <1>1, DecimalsAssumption DEF Numeral

\* The printed number is told by its sign and its decimals.
LEMMA PrintedWorth ==
  ASSUME NEW v \in Literals
  PROVE  /\ v \in Int /\ Rounded(Magnitude(v)) * Digit \in Nat /\ One # 0
         /\ v >= 0 => AsPrinted(v) = Rounded(Magnitude(v)) * Digit
         /\ v < 0 => AsPrinted(v) = -(Rounded(Magnitude(v)) * Digit)
<1>. DEFINE m == Rounded(Magnitude(v))
<1>1. v \in Int /\ m \in Nat /\ Digit \in Nat /\ One # 0
  BY ExprAssumption, PrintableNumbers, DecimalsAssumption
<1>2. AsPrinted(v) = IF v < 0 THEN -(m * Digit) ELSE m * Digit
  BY DEF AsPrinted
<1>. HIDE DEF m
<1>3. m * Digit \in Nat
  BY <1>1
<1>4. v >= 0 => ~(v < 0)
  BY <1>1
<1>. QED  BY <1>1, <1>2, <1>3, <1>4 DEF m

LEMMA PositiveOpens ==
  ASSUME NEW e, NEW v, IsPositive(e, v), NEW s
  PROVE  Then(to_string(e), s) = Prefixed(Numeral(v), s)
BY DEF IsPositive, Numeral, Prefixed

LEMMA NegativeOpens ==
  ASSUME NEW e, NEW v \in Literals, IsNegative(e, v), NEW s \in Lines
  PROVE  Then(to_string(e), s) = Prefixed("-", Prefixed(Numeral(v), s))
<1>1. Assoc(<<"-">>, <<Numeral(v)>>, s)
  BY SignTexts, Associates, Zenon DEF Lines
<1>. QED  BY <1>1, Zenon DEF IsNegative, Numeral, Then, Prefixed, Assoc

LEMMA UnaryOpens ==
  ASSUME NEW e, NEW o, IsUnary(e, o), to_string(o) \in Lines, NEW s \in Lines
  PROVE  Then(to_string(e), s) = Prefixed("-", Then(to_string(o), s))
<1>1. Assoc(<<"-">>, to_string(o), s)
  BY SignTexts, Associates, Zenon DEF Lines
<1>. QED  BY <1>1, Zenon DEF IsUnary, Then, Prefixed, Assoc

\* What follows the parenthesis.
Inside(sign, l, r, s) ==
  Then(to_string(l), Infix(sign, Then(to_string(r), Prefixed(")", s))))

LEMMA BinaryOpens ==
  ASSUME NEW e, NEW sign \in BinaryOps, NEW l, NEW r, IsBinary(e, sign, l, r),
         to_string(l) \in Lines, to_string(r) \in Lines, NEW s \in Lines
  PROVE  /\ Then(to_string(e), s) = Prefixed("(", Inside(sign, l, r, s))
         /\ Inside(sign, l, r, s) \in Lines
<1>. DEFINE t == to_string(l)
            z == to_string(r)
<1>. HIDE DEF t, z
<1>1. t \in Seq(Signs) /\ z \in Seq(Signs) /\ s \in Seq(Signs)
  BY DEF t, z, Lines
<1>2. PrintBinary(sign, t, z) \o s
        = <<"(">> \o (t \o (<<" ", sign, " ">> \o (z \o (<<")">> \o s))))
  BY <1>1, BinaryText, Zenon
<1>3. Then(to_string(e), s) = Prefixed("(", Inside(sign, l, r, s))
  BY <1>2, Zenon DEF IsBinary, Then, Prefixed, Infix, Inside, t, z
<1>4. Inside(sign, l, r, s) \in Lines
  <2>1. Prefixed(")", s) \in Lines
    BY SignTexts, BeginIsText
  <2>2. Then(to_string(r), Prefixed(")", s)) \in Lines
    BY <2>1, ThenIsText
  <2>3. Infix(sign, Then(to_string(r), Prefixed(")", s))) \in Lines
    BY <2>2, InfixIsText
  <2>. QED  BY <2>3, ThenIsText DEF Inside
<1>. QED  BY <1>3, <1>4

\* Texts that go on after two trees are one text only if the trees have the
\* same value and what follows them is the same.
ReadsAlike(T) ==
  \A t, z \in T : \A s, u \in Lines :
    Then(to_string(t), s) = Then(to_string(z), u) => Worth(t) = Worth(z) /\ s = u

LEMMA PositivesAlike ==
  ASSUME NEW t, NEW z, NEW v \in Literals, NEW w \in Literals,
         IsPositive(t, v), IsPositive(z, w), NEW s \in Lines, NEW u \in Lines,
         Then(to_string(t), s) = Then(to_string(z), u)
  PROVE  Worth(t) = Worth(z) /\ s = u
<1>1. Prefixed(Numeral(v), s) = Prefixed(Numeral(w), u)
  BY PositiveOpens, Zenon
<1>2. Numeral(v) = Numeral(w) /\ s = u
  BY <1>1, SignTexts, StripSign
<1>3. Rounded(Magnitude(v)) = Rounded(Magnitude(w))
  BY <1>2, SignsTell
<1>4. v >= 0 /\ w >= 0
  BY DEF IsPositive
<1>5. AsPrinted(v) = AsPrinted(w)
  BY <1>3, <1>4, PrintedWorth
<1>. QED  BY <1>2, <1>5 DEF IsPositive

LEMMA NegativesAlike ==
  ASSUME NEW t, NEW z, NEW v \in Literals, NEW w \in Literals,
         IsNegative(t, v), IsNegative(z, w), NEW s \in Lines, NEW u \in Lines,
         Then(to_string(t), s) = Then(to_string(z), u)
  PROVE  Worth(t) = Worth(z) /\ s = u
<1>1. Prefixed("-", Prefixed(Numeral(v), s)) = Prefixed("-", Prefixed(Numeral(w), u))
  BY NegativeOpens
<1>2. Prefixed(Numeral(v), s) \in Lines /\ Prefixed(Numeral(w), u) \in Lines
  BY SignTexts, BeginIsText
<1>3. Prefixed(Numeral(v), s) = Prefixed(Numeral(w), u)
  BY <1>1, <1>2, SignTexts, StripSign
<1>4. Numeral(v) = Numeral(w) /\ s = u
  BY <1>3, SignTexts, StripSign
<1>5. Rounded(Magnitude(v)) = Rounded(Magnitude(w))
  BY <1>4, SignsTell
<1>6. v < 0 /\ w < 0
  BY DEF IsNegative
<1>7. AsPrinted(v) = AsPrinted(w)
  BY <1>5, <1>6, PrintedWorth
<1>. QED  BY <1>4, <1>7 DEF IsNegative

\* -5 is the literal, or the negation of 5.
LEMMA NegativeIsNegation ==
  ASSUME NEW t, NEW z, NEW v \in Literals, IsNegative(t, v),
         NEW k \in Nat, k <= MaxNodes, NEW o \in TreesUpTo(k), IsUnary(z, o),
         NEW s \in Lines, NEW u \in Lines,
         Then(to_string(t), s) = Then(to_string(z), u)
  PROVE  Worth(t) = Worth(z) /\ s = u
<1>1. \A e \in TreesUpTo(k) : to_string(e) \in Lines
  BY TextsAreSigns DEF Lines
<1>2. Prefixed("-", Prefixed(Numeral(v), s)) = Prefixed("-", Then(to_string(o), u))
  BY <1>1, NegativeOpens, UnaryOpens
<1>3. Prefixed(Numeral(v), s) \in Lines /\ Then(to_string(o), u) \in Lines
  BY <1>1, SignTexts, BeginIsText, ThenIsText
<1>4. Prefixed(Numeral(v), s) = Then(to_string(o), u)
  BY <1>2, <1>3, SignTexts, StripSign
<1>5. k - 1 \in Nat /\ (k - 1) + 1 = k
  <2>1. k # 0
    BY TreesStep
  <2>. QED  BY <2>1
<1>6. \A e \in TreesUpTo(k - 1) : to_string(e) \in Lines
  <2>1. k - 1 <= MaxNodes
    BY <1>5, ExprAssumption
  <2>. QED  BY <1>5, <2>1, TextsAreSigns DEF Lines
<1>7. ASSUME NEW w \in Literals, IsPositive(o, w)
      PROVE  Worth(t) = Worth(z) /\ s = u
  <2>1. Prefixed(Numeral(v), s) = Prefixed(Numeral(w), u)
    BY <1>4, <1>7, PositiveOpens
  <2>2. Numeral(v) = Numeral(w) /\ s = u
    BY <2>1, SignTexts, StripSign
  <2>3. Rounded(Magnitude(v)) = Rounded(Magnitude(w))
    BY <2>2, SignsTell
  <2>4. v < 0 /\ w >= 0
    BY <1>7 DEF IsNegative, IsPositive
  <2>5. AsPrinted(v) = -AsPrinted(w)
    BY <2>3, <2>4, PrintedWorth
  <2>6. Worth(o) = <<AsPrinted(w), One>> /\ Worth(t) = <<AsPrinted(v), One>>
    BY <1>7 DEF IsPositive, IsNegative
  <2>7. <<AsPrinted(w), One>> # Throws
    BY PrintedWorth DEF Throws
  <2>8. Negation(<<AsPrinted(w), One>>) = <<-AsPrinted(w), One>>
    BY <2>7 DEF Negation
  <2>9. Worth(z) = <<-AsPrinted(w), One>>
    BY <2>6, <2>8 DEF IsUnary
  <2>. QED  BY <2>2, <2>5, <2>6, <2>9
<1>8. ASSUME NEW w \in Literals, IsNegative(o, w) PROVE FALSE
  <2>1. Prefixed(Numeral(v), s) = Prefixed("-", Prefixed(Numeral(w), u))
    BY <1>4, <1>8, NegativeOpens
  <2>2. Prefixed(Numeral(w), u) \in Lines
    BY SignTexts, BeginIsText
  <2>3. Numeral(v) = "-"
    BY <2>1, <2>2, SignTexts, StripSign
  <2>. QED  BY <2>3, SignsTell
<1>9. ASSUME NEW p \in TreesUpTo(k - 1), IsUnary(o, p) PROVE FALSE
  <2>1. Prefixed(Numeral(v), s) = Prefixed("-", Then(to_string(p), u))
    BY <1>4, <1>6, <1>9, UnaryOpens
  <2>2. Then(to_string(p), u) \in Lines
    BY <1>6, ThenIsText
  <2>3. Numeral(v) = "-"
    BY <2>1, <2>2, SignTexts, StripSign
  <2>. QED  BY <2>3, SignsTell
<1>10. ASSUME NEW sign \in BinaryOps, NEW l \in TreesUpTo(k - 1), NEW r \in TreesUpTo(k - 1),
              IsBinary(o, sign, l, r)
       PROVE  FALSE
  <2>1. /\ Prefixed(Numeral(v), s) = Prefixed("(", Inside(sign, l, r, u))
        /\ Inside(sign, l, r, u) \in Lines
    BY <1>4, <1>6, <1>10, BinaryOpens
  <2>2. Numeral(v) = "("
    BY <2>1, SignTexts, StripSign
  <2>. QED  BY <2>2, SignsTell
<1>. QED  BY <1>5, <1>7, <1>8, <1>9, <1>10, TreeShapes

LEMMA UnariesAlike ==
  ASSUME NEW T, ReadsAlike(T), \A e \in T : to_string(e) \in Lines,
         NEW t, NEW z, NEW o \in T, NEW p \in T, IsUnary(t, o), IsUnary(z, p),
         NEW s \in Lines, NEW u \in Lines,
         Then(to_string(t), s) = Then(to_string(z), u)
  PROVE  Worth(t) = Worth(z) /\ s = u
<1>1. Prefixed("-", Then(to_string(o), s)) = Prefixed("-", Then(to_string(p), u))
  BY UnaryOpens
<1>2. Then(to_string(o), s) \in Lines /\ Then(to_string(p), u) \in Lines
  BY ThenIsText
<1>3. Then(to_string(o), s) = Then(to_string(p), u)
  BY <1>1, <1>2, SignTexts, StripSign
<1>4. Worth(o) = Worth(p) /\ s = u
  BY <1>3 DEF ReadsAlike
<1>. QED  BY <1>4 DEF IsUnary

LEMMA BinariesAlike ==
  ASSUME NEW T, ReadsAlike(T), \A e \in T : to_string(e) \in Lines,
         NEW t, NEW z, NEW sign \in BinaryOps, NEW q \in BinaryOps,
         NEW l \in T, NEW r \in T, NEW m \in T, NEW h \in T,
         IsBinary(t, sign, l, r), IsBinary(z, q, m, h),
         NEW s \in Lines, NEW u \in Lines,
         Then(to_string(t), s) = Then(to_string(z), u)
  PROVE  Worth(t) = Worth(z) /\ s = u
<1>. DEFINE s1 == Prefixed(")", s)
            u1 == Prefixed(")", u)
            s2 == Then(to_string(r), s1)
            u2 == Then(to_string(h), u1)
            s3 == Infix(sign, s2)
            u3 == Infix(q, u2)
<1>1. /\ Prefixed("(", Inside(sign, l, r, s)) = Prefixed("(", Inside(q, m, h, u))
      /\ Inside(sign, l, r, s) \in Lines /\ Inside(q, m, h, u) \in Lines
  BY BinaryOpens
<1>2. Inside(sign, l, r, s) = Inside(q, m, h, u)
  BY <1>1, SignTexts, StripSign
<1>3. Then(to_string(l), s3) = Then(to_string(m), u3)
  BY <1>2 DEF Inside
<1>4. s1 \in Lines /\ u1 \in Lines
  BY SignTexts, BeginIsText
<1>. HIDE DEF s1, u1
<1>5. s2 \in Lines /\ u2 \in Lines
  BY <1>4, ThenIsText
<1>. HIDE DEF s2, u2
<1>6. s3 \in Lines /\ u3 \in Lines
  BY <1>5, InfixIsText
<1>. HIDE DEF s3, u3
<1>7. Worth(l) = Worth(m) /\ s3 = u3
  BY <1>3, <1>6 DEF ReadsAlike
<1>8. sign = q /\ s2 = u2
  BY <1>5, <1>7, StripOp DEF s3, u3
<1>9. Worth(r) = Worth(h) /\ s1 = u1
  BY <1>4, <1>8 DEF ReadsAlike, s2, u2
<1>10. s = u
  BY <1>9, SignTexts, StripSign DEF s1, u1
<1>. QED  BY <1>7, <1>8, <1>9, <1>10 DEF IsBinary

\* The sign that a tree's text begins with.
Opens(e, c) ==
  /\ c \in Signs
  /\ \A s \in Lines : \E u \in Lines : Then(to_string(e), s) = Prefixed(c, u)

LEMMA OpensAlike ==
  ASSUME NEW t, NEW z, NEW c, NEW d, Opens(t, c), Opens(z, d),
         NEW s \in Lines, NEW u \in Lines,
         Then(to_string(t), s) = Then(to_string(z), u)
  PROVE  c = d
<1>1. PICK x \in Lines : Then(to_string(t), s) = Prefixed(c, x)
  BY DEF Opens
<1>2. PICK y \in Lines : Then(to_string(z), u) = Prefixed(d, y)
  BY DEF Opens
<1>3. c \in Signs /\ d \in Signs /\ Prefixed(c, x) = Prefixed(d, y)
  BY <1>1, <1>2 DEF Opens
<1>. QED  BY <1>3, StripSign

LEMMA HowTreesOpen ==
  /\ \A e, v : IsPositive(e, v) => Opens(e, Numeral(v))
  /\ \A e, v : IsNegative(e, v) => Opens(e, "-")
  /\ \A e, o : IsUnary(e, o) /\ to_string(o) \in Lines => Opens(e, "-")
  /\ \A e, sign, l, r :
       IsBinary(e, sign, l, r) /\ to_string(l) \in Lines /\ to_string(r) \in Lines => Opens(e, "(")
<1>1. ASSUME NEW e, NEW v, IsPositive(e, v) PROVE Opens(e, Numeral(v))
  <2>1. Numeral(v) \in Signs
    BY <1>1, SignTexts DEF IsPositive
  <2>. QED  BY <1>1, <2>1, PositiveOpens DEF Opens
<1>2. ASSUME NEW e, NEW v, IsNegative(e, v) PROVE Opens(e, "-")
  <2>1. v \in Literals /\ Numeral(v) \in Signs /\ "-" \in Signs
    BY <1>2, SignTexts DEF IsNegative
  <2>2. ASSUME NEW s \in Lines PROVE \E u \in Lines : Then(to_string(e), s) = Prefixed("-", u)
    <3>1. Prefixed(Numeral(v), s) \in Lines
      BY <2>1, BeginIsText
    <3>2. Then(to_string(e), s) = Prefixed("-", Prefixed(Numeral(v), s))
      BY <1>2, <2>1, NegativeOpens
    <3>. QED  BY <3>1, <3>2
  <2>. QED  BY <2>1, <2>2 DEF Opens
<1>3. ASSUME NEW e, NEW o, IsUnary(e, o), to_string(o) \in Lines PROVE Opens(e, "-")
  <2>1. ASSUME NEW s \in Lines PROVE \E u \in Lines : Then(to_string(e), s) = Prefixed("-", u)
    <3>1. Then(to_string(o), s) \in Lines
      BY <1>3, ThenIsText
    <3>2. Then(to_string(e), s) = Prefixed("-", Then(to_string(o), s))
      BY <1>3, UnaryOpens
    <3>. QED  BY <3>1, <3>2
  <2>. QED  BY <2>1, SignTexts DEF Opens
<1>4. ASSUME NEW e, NEW sign, NEW l, NEW r, IsBinary(e, sign, l, r),
             to_string(l) \in Lines, to_string(r) \in Lines
      PROVE  Opens(e, "(")
  <2>1. sign \in BinaryOps
    BY <1>4 DEF IsBinary
  <2>2. ASSUME NEW s \in Lines PROVE \E u \in Lines : Then(to_string(e), s) = Prefixed("(", u)
    <3>1. /\ Then(to_string(e), s) = Prefixed("(", Inside(sign, l, r, s))
          /\ Inside(sign, l, r, s) \in Lines
      BY <1>4, <2>1, BinaryOpens
    <3>. QED  BY <3>1
  <2>. QED  BY <2>2, SignTexts DEF Opens
<1>. QED  BY <1>1, <1>2, <1>3, <1>4

\* Whatever follows the texts of two trees, the trees of the next level are
\* told apart as well as their parts are.
LEMMA ReadsOneLevelMore ==
  ASSUME NEW k \in Nat, k + 1 <= MaxNodes, ReadsAlike(TreesUpTo(k))
  PROVE  ReadsAlike(TreesUpTo(k + 1))
<1>. DEFINE T == TreesUpTo(k)
            Plain(e) == \E v \in Literals : IsPositive(e, v)
            Minus(e) == \E v \in Literals : IsNegative(e, v)
            Unary(e) == \E o \in T : IsUnary(e, o)
            Binary(e) == \E sign \in BinaryOps : \E l, r \in T : IsBinary(e, sign, l, r)
<1>1. k <= MaxNodes /\ \A e \in T : to_string(e) \in Lines
  <2>1. k <= MaxNodes
    BY ExprAssumption
  <2>. QED  BY <2>1, TextsAreSigns DEF Lines
<1>. SUFFICES ASSUME NEW t \in TreesUpTo(k + 1), NEW z \in TreesUpTo(k + 1),
                     NEW s \in Lines, NEW u \in Lines,
                     Then(to_string(t), s) = Then(to_string(z), u)
              PROVE  Worth(t) = Worth(z) /\ s = u
  BY DEF ReadsAlike
<1>2. \A e \in TreesUpTo(k + 1) : Plain(e) \/ Minus(e) \/ Unary(e) \/ Binary(e)
  BY TreeShapes
<1>3. ASSUME NEW e
      PROVE  /\ Plain(e) => \E v \in Literals : Opens(e, Numeral(v))
             /\ Minus(e) \/ Unary(e) => Opens(e, "-")
             /\ Binary(e) => Opens(e, "(")
  BY <1>1, HowTreesOpen
<1>4. \A c, d : Opens(t, c) /\ Opens(z, d) => c = d
  BY OpensAlike
<1>5. Plain(t) <=> Plain(z)
  BY <1>2, <1>3, <1>4, SignsTell
<1>6. Binary(t) <=> Binary(z)
  BY <1>2, <1>3, <1>4, <1>5, SignsTell
<1>7. CASE Plain(t) /\ Plain(z)
  BY <1>7, PositivesAlike
<1>8. CASE Minus(t) /\ Minus(z)
  BY <1>8, NegativesAlike
<1>9. CASE Minus(t) /\ Unary(z)
  <2>1. PICK v \in Literals : IsNegative(t, v)
    BY <1>9
  <2>2. PICK o \in TreesUpTo(k) : IsUnary(z, o)
    BY <1>9
  <2>. QED  BY <1>1, <2>1, <2>2, NegativeIsNegation
<1>10. CASE Unary(t) /\ Minus(z)
  <2>1. PICK v \in Literals : IsNegative(z, v)
    BY <1>10
  <2>2. PICK o \in TreesUpTo(k) : IsUnary(t, o)
    BY <1>10
  <2>3. Worth(z) = Worth(t) /\ u = s
    BY <1>1, <2>1, <2>2, NegativeIsNegation
  <2>. QED  BY <2>3
<1>11. CASE Unary(t) /\ Unary(z)
  <2>1. PICK o \in TreesUpTo(k) : IsUnary(t, o)
    BY <1>11
  <2>2. PICK p \in TreesUpTo(k) : IsUnary(z, p)
    BY <1>11
  <2>. QED  BY <1>1, <2>1, <2>2, UnariesAlike
<1>12. CASE Binary(t) /\ Binary(z)
  <2>1. PICK sign \in BinaryOps, l \in TreesUpTo(k), r \in TreesUpTo(k) : IsBinary(t, sign, l, r)
    BY <1>12
  <2>2. PICK q \in BinaryOps, m \in TreesUpTo(k), h \in TreesUpTo(k) : IsBinary(z, q, m, h)
    BY <1>12
  <2>. QED  BY <1>1, <2>1, <2>2, BinariesAlike
<1>. HIDE DEF Plain, Minus, Unary, Binary
<1>. QED  BY <1>2, <1>5, <1>6, <1>7, <1>8, <1>9, <1>10, <1>11, <1>12

LEMMA TreesReadAlike == ReadsAlike(TreesUpTo(MaxNodes))
<1>. DEFINE S == {k \in Nat : k <= MaxNodes => ReadsAlike(TreesUpTo(k))}
<1>1. 0 \in S
  BY TreesStep DEF ReadsAlike
<1>2. ASSUME NEW k \in Nat, k \in S PROVE k + 1 \in S
  <2>1. k + 1 <= MaxNodes => k <= MaxNodes
    BY ExprAssumption
  <2>. QED  BY <1>2, <2>1, ReadsOneLevelMore
<1>. HIDE DEF S
<1>3. Nat \subseteq S
  BY <1>1, <1>2, InductionOnSet
<1>. QED  BY <1>3, ExprAssumption DEF S

\* The variables hold trees within the bound, of which each is moved once.
ExprInv == tree \in [Exprs -> TreesUpTo(MaxNodes) \cup {Moved}]

\* The two visitors of an expression agree for any literals and operators and
\* for trees of any depth: trees of one text have one value, with the literals
\* that are printed, or both throw.
THEOREM TextTellsTheValue == ExprSpec => []TextTellsValue
<1>1. ExprInit => ExprInv
  BY DEF ExprInit, ExprInv
<1>2. ExprInv /\ [ExprNext]_exprVars => ExprInv'
  <2>. DEFINE T == TreesUpTo(MaxNodes)
              V == T \cup {Moved}
  <2>. HIDE DEF T
  <2>. SUFFICES ASSUME tree \in [Exprs -> V], [ExprNext]_exprVars
                PROVE  tree' \in [Exprs -> V]
    BY DEF ExprInv, T
  <2>1. ASSUME NEW x \in Exprs, NEW v \in Literals, MakeLiteral(x, v)
        PROVE  tree' \in [Exprs -> V]
    <3>1. lit(v) \in V
      BY <2>1 DEF MakeLiteral, RoomFor, T
    <3>. QED  BY <2>1, <3>1, Zenon DEF MakeLiteral
  <2>2. ASSUME NEW x \in Exprs, MakeNegation(x)
        PROVE  tree' \in [Exprs -> V]
    <3>1. neg(tree[x]) \in V
      BY <2>2 DEF MakeNegation, RoomFor, T
    <3>. QED  BY <2>2, <3>1, Zenon DEF MakeNegation
  <2>3. ASSUME NEW x \in Exprs, NEW y \in Exprs, NEW sign \in BinaryOps, MakeBinary(x, y, sign)
        PROVE  tree' \in [Exprs -> V]
    <3>1. bin(sign, tree[x], tree[y]) \in V /\ Moved \in V
      BY <2>3 DEF MakeBinary, RoomFor, T
    <3>. QED  BY <2>3, <3>1, Zenon DEF MakeBinary
  <2>4. ASSUME NEW x \in Exprs, NEW v \in Literals, NEW sign \in BinaryOps, MakeBinaryOf(x, v, sign)
        PROVE  tree' \in [Exprs -> V]
    <3>1. bin(sign, tree[x], lit(v)) \in V
      BY <2>4 DEF MakeBinaryOf, RoomFor, T
    <3>. QED  BY <2>4, <3>1, Zenon DEF MakeBinaryOf
  <2>5. UNCHANGED exprVars => tree' \in [Exprs -> V]
    BY DEF exprVars
  <2>. QED  BY <2>1, <2>2, <2>3, <2>4, <2>5 DEF ExprNext
<1>3. ExprInv => TextTellsValue
  <2>. SUFFICES ASSUME ExprInv, NEW x \in Exprs, NEW y \in Exprs,
                       tree[x] # Moved, tree[y] # Moved,
                       to_string(tree[x]) = to_string(tree[y])
                PROVE  Same(Worth(tree[x]), Worth(tree[y]))
    BY DEF TextTellsValue, Worth
  <2>1. tree[x] \in TreesUpTo(MaxNodes) /\ tree[y] \in TreesUpTo(MaxNodes)
    BY DEF ExprInv
  <2>2. <<>> \in Lines
    BY EmptySeq DEF Lines
  <2>3. Worth(tree[x]) = Worth(tree[y])
    <3>1. Then(to_string(tree[x]), <<>>) = Then(to_string(tree[y]), <<>>)
      OBVIOUS
    <3>. QED  BY <2>1, <2>2, <3>1, TreesReadAlike, Zenon DEF ReadsAlike
  <2>. QED  BY <2>3, Zenon DEF Same
<1>. QED  BY <1>1, <1>2, <1>3, PTL DEF ExprSpec

\* What the printers promise, for texts of any length and trees of any depth:
\* the columns of a table are aligned, an expression's text tells its value,
\* and a sensor reads what was saved, to the decimals that are printed.
THEOREM TextsAreExact == TextsSpec => []TextsExact
<1>1. SensorInv => ReadsWhatWasSaved
  BY DEF SensorInv
<1>2. ColumnsAligned /\ TextTellsValue /\ ReadsWhatWasSaved => TextsExact
  BY DEF TextsExact
<1>. QED  BY <1>1, <1>2, ColumnsAreAligned, TextTellsTheValue, SensorInvariant, PTL DEF TextsSpec
=============================================================================
