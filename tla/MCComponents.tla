----------------------------- MODULE MCComponents -----------------------------
(***************************************************************************)
(* Instances for TLC of the components that share no state with others: a  *)
(* behaviour is one of one of them, the others staying as they began, so   *)
(* that their states add up and do not multiply.                           *)
(***************************************************************************)
EXTENDS Database, Owners, Pipeline, CliConfig, Numbers, TextForms

VARIABLE part

componentsVars ==
  <<vars, sqliteVars, arenaVars, handleVars, erasureVars, glVars, passVars,
    pipelineVars, cliVars, simdVars, tableVars, physicsVars, exprVars,
    numericalVars, sensorVars, part>>

\* The types of two ArenaAllocators.
SomeElements == {[size |-> 2, align |-> 2], [size |-> 3, align |-> 1]}

\* Opaque, translucent and wireframe pipelines, as a program would set them up.
SomePipelines ==
  LET opaque == [program |-> 1, test |-> TRUE, write |-> TRUE, func |-> "less",
                 blend |-> FALSE, factors |-> "one", cull |-> TRUE, face |-> "back",
                 polygon |-> "fill"] IN
  {opaque,
   [opaque EXCEPT !.func = "lequal", !.face = "front"],
   [opaque EXCEPT !.write = FALSE, !.blend = TRUE, !.cull = FALSE],
   [opaque EXCEPT !.program = 2, !.test = FALSE, !.blend = TRUE, !.factors = "alpha"],
   [opaque EXCEPT !.program = 2, !.cull = FALSE, !.polygon = "line"]}

\* Chains of stages, with takes before, after and around the others.
MapStage == [kind |-> "map"]
FilterStage == [kind |-> "filter"]
FlatMapStage == [kind |-> "flat_map"]
TakeStage(k) == [kind |-> "take", n |-> k]

SomePlans ==
  {<<TakeStage(k)>> \o mid \o <<TakeStage(m)>> :
     k \in {0, 2, 3}, m \in {0, 1, 3},
     mid \in {<<>>, <<MapStage>>, <<FilterStage>>, <<FlatMapStage>>}}
  \cup {<<x, y, TakeStage(k)>> : x, y \in {MapStage, FilterStage, FlatMapStage}, k \in 0..3}
  \cup {<<MapStage, FilterStage, FlatMapStage>>,
        <<FlatMapStage, TakeStage(2), FlatMapStage>>, <<>>}

SomeSources == UNION {[1..k -> {0, 1, 2}] : k \in 0..3}

Double == [v \in 0..3 |-> IF v = 3 THEN 0 ELSE v + 1]
Even == {0, 2}
Copies == [v \in 0..3 |-> [k \in 1..v |-> v]]

SomeHeaders == {<<1>>, <<2, 1>>}

\* Four units make 1, and the last decimal printed is the 1.
SomeLiterals == {4, 3, -4}
SomeReadings == {-1, 0, 6}
SomeSensorNames == {<<"t">>, <<"t", ":">>, <<"t", ":", "2">>}
SomeTexts == {<<"t">>, <<"t", ":", "-">>, <<":", "2">>}

SomeStarts == {-2, 3}
SomeLengths == {-8, 0, 3, 7, 8}
SomeRates == {0, 1, -1}

\* A part begins as its module says; the others rest in one state of theirs.
ComponentsInit ==
  /\ part \in {"transactions", "sqlite", "arena", "handle", "erasure", "objects",
               "passes", "pipeline", "cli", "simd", "table", "physics", "expr",
               "numerical", "sensor"}
  /\ Init /\ SqliteInit /\ ArenaInit /\ HandleInit /\ ErasureInit /\ GlInit
  /\ PhysicsInit /\ ExprInit /\ NumericalInit /\ SensorInit
  /\ IF part = "passes" THEN PassInit
     ELSE PassInit /\ base.viewport = CHOOSE v \in Viewports : TRUE
  /\ IF part = "pipeline" THEN PipelineInit
     ELSE /\ plan = <<>> /\ source = <<>> /\ phase = "idle" /\ next = 1
          /\ pending = <<<<>>>> /\ left = <<>> /\ out = <<>>
  /\ IF part = "cli" THEN CliInit
     ELSE /\ argv = [o \in Options |-> None] /\ env = argv /\ lines = <<>>
          /\ Fresh
  /\ IF part = "simd" THEN SimdInit ELSE width = 1 /\ SimdInit
  /\ IF part = "table" THEN TableInit
     ELSE noColor = FALSE /\ headers_ = <<>> /\ widths_ = <<>> /\ rows_ = <<>>

\* Steps of the owners of resources, and of the rest.
OwnersNext ==
  \/ /\ part = "sqlite" /\ SqliteNext
     /\ UNCHANGED <<arenaVars, handleVars, erasureVars, glVars, passVars>>
  \/ /\ part = "arena" /\ ArenaNext
     /\ UNCHANGED <<sqliteVars, handleVars, erasureVars, glVars, passVars>>
  \/ /\ part = "handle" /\ HandleNext
     /\ UNCHANGED <<sqliteVars, arenaVars, erasureVars, glVars, passVars>>
  \/ /\ part = "erasure" /\ ErasureNext
     /\ UNCHANGED <<sqliteVars, arenaVars, handleVars, glVars, passVars>>
  \/ /\ part = "objects" /\ GlNext
     /\ UNCHANGED <<sqliteVars, arenaVars, handleVars, erasureVars, passVars>>
  \/ /\ part = "passes" /\ PassNext
     /\ UNCHANGED <<sqliteVars, arenaVars, handleVars, erasureVars, glVars>>

DataNext ==
  \/ /\ part = "transactions" /\ Next
     /\ UNCHANGED <<pipelineVars, cliVars, simdVars, tableVars>>
  \/ /\ part = "pipeline" /\ PipelineNext
     /\ UNCHANGED <<vars, cliVars, simdVars, tableVars>>
  \/ /\ part = "cli" /\ CliNext
     /\ UNCHANGED <<vars, pipelineVars, simdVars, tableVars>>
  \/ /\ part = "simd" /\ SimdNext
     /\ UNCHANGED <<vars, pipelineVars, cliVars, tableVars>>
  \/ /\ part = "table" /\ TableNext
     /\ UNCHANGED <<vars, pipelineVars, cliVars, simdVars>>

ValuesNext ==
  \/ /\ part = "physics" /\ PhysicsNext
     /\ UNCHANGED <<exprVars, numericalVars, sensorVars>>
  \/ /\ part = "expr" /\ ExprNext
     /\ UNCHANGED <<physicsVars, numericalVars, sensorVars>>
  \/ /\ part = "numerical" /\ NumericalNext
     /\ UNCHANGED <<physicsVars, exprVars, sensorVars>>
  \/ /\ part = "sensor" /\ SensorNext
     /\ UNCHANGED <<physicsVars, exprVars, numericalVars>>

dataVars == <<vars, pipelineVars, cliVars, simdVars, tableVars>>
valuesVars == <<physicsVars, exprVars, numericalVars, sensorVars>>

ComponentsNext ==
  /\ UNCHANGED part
  /\ \/ OwnersNext /\ UNCHANGED <<dataVars, valuesVars>>
     \/ DataNext /\ UNCHANGED <<ownersVars, valuesVars>>
     \/ ValuesNext /\ UNCHANGED <<ownersVars, dataVars>>

ComponentsSpec == ComponentsInit /\ [][ComponentsNext]_componentsVars
=============================================================================
