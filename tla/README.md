# TLA+ specifications of cpp-comprehensive-template

This directory holds formal specifications of the C++20 library in `include/` and
`src/` (the paths below are relative to the root of the repository): TLA+ modules,
configurations for the model checker TLC, and proofs checked by TLAPS. `PROJECT.json`
is the machine-readable index: for every definition the source lines it models, for
every run what it checks, for every property a deliberately broken definition
("mutant") under which the property fails.

## 1. The system

The library is a collection of mostly header-only components. They share no global
state; they meet where a program combines them (the examples) and where one is built on
the shape of another (`parallel_for` and `map_reduce` are the same fork/join, the GL
wrappers are the same unique handle).

| Component | Source | State it keeps | Operations | What is hard |
|---|---|---|---|---|
| ThreadPool | `include/concurrency/thread_pool.h` | queue, mutex, condition variable, workers, `stop_` or stop tokens | constructor, `submit`, `run`, destructor | lost wakeups, submit from tasks, shutdown, failing thread creation |
| SpscQueue | `include/concurrency/lock_free_queue.h` | ring, atomic `head_`, `tail_` | `push`, `pop`, `empty` | acquire/release ordering, wraparound, stale loads |
| Signal | `include/patterns/observer.h` | list of slots with weak sentinels, handles elsewhere | `connect`, `disconnect`, `emit`, `size`, handle copy/move | reentrancy from slots, disconnect during emit, several threads |
| Parallel algorithms | `include/concurrency/parallel.h`, `include/etl/map_reduce.h` | futures of one call | `parallel_for`, `parallel_map_reduce`, `map_reduce`, `parallel_map` | chunk arithmetic, exceptions, order of reduction, shared result |
| Database | `include/database/sqlite.h` | connection, statements, open transaction | `exec`, `prepare`, `step`, `reset`, `transaction`, `Repository` CRUD | errors in mid-operation, nested transactions, `COMMIT` that fails, lifetimes |
| ECS world | `include/simulation/ecs.h` | next id, pools by type, erasers | `create`, `add`, `get`, `remove`, `destroy`, `each` | changes while iterating, copies of a world |
| Arena, ArenaAllocator | `include/memory/arena_allocator.h` | buffer, offset | `allocate`, `reset`, move | alignment and overflow arithmetic |
| UniqueHandle, smart pointers | `include/memory/resource_handle.h`, `smart_pointers.h`, `src/memory/resource_handle.cpp` | one handle per owner | move, `reset`, `release`, destructor | exactly one owner closes |
| GL resources, shaders, passes | `include/rendering/*.h` | GL names, state of the context | create/bind/delete, compile/link, `RenderPass` scope, `PipelineState::bind` | leaks on failing builds, state left behind by a scope |
| REST server and client | `include/api/*.h`, `examples/api_demo.cpp` | middleware, requests in flight, items | `use`, routes, `listen`, `stop`; `get/post/put/del` | order of middleware, exceptions, concurrent handlers |
| ETL pipeline | `include/etl/pipeline.h` | stages, counters of `take` | `map`, `filter`, `flat_map`, `take`, terminal operations | stopping by exception, how many elements are pulled |
| Patterns | `include/patterns/{type_erasure,visitor,crtp}.h` | owned objects, expression trees, sensors | copy, move, call; `evaluate`, `to_string`; `serialize`, `deserialize` | cloning that throws, precedence when printing, round trips |
| Physics, numerical | `include/simulation/{physics,numerical}.h` | particles, constraints | `step`, `add_*`; `simpson`, `rk4` | relaxation, pinned particles, number of steps |
| CLI helpers, output | `include/cli/*.h`, `examples/cli_demo.cpp` | parser options, configuration; tables | precedence of sources; rendering | order of sources, widths of coloured text |
| HPC | `include/hpc/*.h` | none | SIMD kernels, `std::execution` wrappers | tails of SIMD loops, overlapping arrays |
| Core App | `include/core/app.h`, `src/core/app.cpp` | argument list, log level | `run` | none |
| Tests, examples, benchmarks, build, CI, docs | `tests/`, `examples/`, `benchmarks/`, `cmake/`, `docs/` | - | - | not the program's logic; read as documentation |

How they interact: clients and running tasks call `ThreadPool::submit` and share its
queue under `mu_`; the two ends of an `SpscQueue` share two atomics; slots called by
`Signal::emit` call back into the signal and its handles; the tasks of the parallel
algorithms hold references to locals of the caller, which waits for their futures;
`Repository` drives `Database` and `Statement`, which drive SQLite; the handlers that the
items server registers in `RestServer` run on httplib's threads, behind the middleware, and
share a table under a mutex of their own; passes and pipelines share one GL context;
the CLI's configuration helpers and CLI11 write the same options.

What makes each modelled component correct:

- **ThreadPool**: each accepted task is run exactly once, started in the order of
  submission; no wakeup for work is lost; the destructor drains and returns.
- **SpscQueue**: a bounded FIFO although loads may be stale; no slot is accessed by both
  threads at once; what `empty()` tells the producer or the consumer can be relied on.
- **Signal**: an emit runs each slot that stays connected exactly once and in order,
  whatever slots and other threads do meanwhile; what is dead stays dead.
- **Parallel algorithms**: the chunks partition the range, no task outlives the call, the
  exception and the reduction do not depend on the schedule.
- **Database**: a call of `transaction` is all or nothing, whichever of its steps fails, and
  leaves the connection outside any transaction; connections and statements are closed
  exactly once, in any order of destruction; a statement executes with what was bound.
- **ECS world**: entity numbers are fresh, `each` visits exactly the entities it should while
  callbacks change the world, `destroy` removes all of one entity and nothing else.
- **Memory** (arena, handles, type-erased values, GL objects): whatever is acquired has one
  owner; blocks of an arena are apart, aligned (up to the alignment of the buffer: see the
  findings) and large enough.
- **RenderPass**: nested passes leave the framebuffer and viewport that they found, and a
  draw is done in the way its pipeline describes, whatever was bound before.
- **REST server**: a handler runs if and only if all middleware lets the request through;
  answers agree with the table; every request is answered in spite of exceptions.
- **Pipeline**: the result is that of the stages as functions on sequences; no more of the
  container is read than the takes allow.
- **CLI**: the value of an option is that of the highest source that has one, in an order
  that is not the same for all options (see the findings); table columns line up.
- **Numbers and texts**: vector kernels equal scalar ones; integrators are of the order they
  claim; relaxation neither moves what is pinned nor creates momentum; what is printed can
  be read, to the six decimals that are printed.

## 2. The modules

| Module | Contents |
|---|---|
| `TaskExecutor` | abstract specification: what a pool promises, without threads |
| `ThreadPool`, `MCThreadPool` | the pool, both builds (`HasJthread`); the instance has the behaviours of both |
| `ThreadPoolProofs` | theorems about `ThreadPool` |
| `BoundedFifo` | abstract specification: a FIFO of bounded size |
| `SpscQueue` | the ring with acquire/release atomics |
| `SpscQueueProofs` | theorems about `SpscQueue` |
| `Signal` | signal, connections, nested and concurrent emits |
| `SignalProofs` | theorems about `Signal` |
| `ForkJoin`, `MCForkJoin` | the fork/join shared by the four parallel algorithms |
| `ForkJoinProofs` | theorems about `ForkJoin` |
| `UnitOfWork` | abstract specification: a store whose units of work are all or nothing |
| `Database` | `transaction` and the writes of `Repository` and `Statement` on one connection |
| `Sqlite` | the owners of connections and statements, `Repository` calls, bindings and `reset` |
| `Ecs` | worlds, their pools and erasers, `each` with its callbacks |
| `EcsProofs` | theorems about `Ecs` |
| `Arena` | arenas, their buffers and the blocks handed out |
| `UniqueHandle` | `UniqueHandle` over file descriptors |
| `TypeErasure` | `Drawable` and `Function`: owned objects, clones that take two steps and may throw between them |
| `GlObjects` | owners of GL names; `build_program` |
| `RenderPass` | `RenderPass` and `PipelineState` on the state of a GL context |
| `Owners` | `Sqlite`, `Arena`, `UniqueHandle`, `TypeErasure`, `GlObjects` and `RenderPass` next to each other |
| `OwnersProofs` | theorems about each of these and about `Owners` |
| `RestServer` | middleware, the wrapper of every handler, httplib's life cycle of a request |
| `ItemsApi`, `MCItemsApi` | the items handlers on `RestServer`, called by clients |
| `ItemsApiProofs` | theorems about `ItemsApi` (and so `RestServer`) |
| `Pipeline` | stages, terminal operations, the exception that stops them |
| `CliConfig` | where the options of `serve` get their values from |
| `TextTable` | `Table` with colours |
| `Arithmetic` | sums and powers, as recursive functions |
| `SimdOps` | the loops of `simd_add`, `simd_mul`, `simd_dot` |
| `PhysicsWorld`, `Numerical` | Verlet particles with constraints; `simpson`, `rk4` |
| `Numbers` | `SimdOps`, `Numerical` and `PhysicsWorld` next to each other |
| `Decimals` | what `std::to_string` prints of a `double` and `std::stod` reads: six decimals |
| `ExprTree`, `SensorText` | `Expr` with its visitors; `Sensor` and its text |
| `TextForms` | `TextTable`, `ExprTree` and `SensorText` next to each other |
| `SequentialProofs` | theorems about `Database`, `CliConfig`, `Numbers`, `Pipeline` and `TextForms` |
| `MCHandOver` | `ForkJoin` and `SpscQueue`, for TLC |
| `MCHandles` | `Ecs` and `Signal`, for TLC |
| `MCComponents` | the other components without threads, for TLC |

The last three put several components into one instance for TLC. These share
no variable, and `part`, chosen initially, says which one of them runs while the others
rest in an initial state: the state space is the sum of theirs, not the product, and every
property is about one part (or the conjunction of the same property for several).
Likewise `build` in `MCThreadPool` says which build of the pool a behaviour is of: that
of `ThreadPool` as the configuration sets it, or that of the second instance `Plain`
(`std::thread`, no body that waits).

### ThreadPool

`tasks_`, `mu_`, `stop` are the members of the class; `pc`, `cur` and `owner` say where
each thread is; `submitted` and `done` are histories. A critical section is one step,
with one exception: `cv_.wait(lock, pred)` evaluates its predicate and *then* blocks. The
worker in between (`"sleepy"`) holds the mutex, and steps that do not take the mutex can
happen there; this is where a notification is lost. `notify_one` is a step of its own
because the code calls it after the mutex was released. Submissions come from clients
while the pool is alive, and from running task bodies also while it is being destroyed.
`Awaits` lets a body wait for the future of another task. The constructor creates the
workers one by one (each runs at once) and may throw: the pool's destructor does not run
then, the members' destructors do, which terminates the program with `std::thread` and
stops and joins worker after worker with `std::jthread`.

Assumed from outside: the mutex, the condition variable (wakes any waiter, may wake
spuriously), `packaged_task` (any way of ending makes the future ready).

### SpscQueue

Each atomic is its modification order. A thread may load any entry that is not older than
one it has seen; the owner of an index loads the last. Since every store that matters is
a release and every such load an acquire, "has loaded entry k" is also "happens after
everything before the store of entry k": `seenHead` and `seenTail` serve as the vector
clocks, and `lastWrite`/`lastRead` record which store hands over each slot's last access.
`NoDataRace` compares them at the moment of access. `push` and `pop` are three steps
(load and decide, access the slot, store the index), `empty` two loads in either order; a
third thread may call it too. `Cap` may be 0, which the `static_assert` accepts.

### Signal

`slots_` is the list, a slot being its number in the order of `connect`; `handle` says which
sentinel each Connection or ScopedConnection object holds; `frames` is, per thread, the
stack of emits it is inside of, each with its copy of the list. A slot is live while some
handle or some running emit owns its sentinel. Critical sections contain no call out and
are one step. A thread operates on handles only where user code runs: outside emits and in slot
bodies.

### ForkJoin

One call on `total` elements, with its `kind`, `n_threads` and `hardware_concurrency()`
chosen initially. The four functions have the same control (size of a chunk, loop over
chunks that breaks at the first empty one, `std::async` per chunk, `get()` in order), so
`kind` selects what a task does with an element. Elements are mapped to themselves and
reduction is concatenation, which is associative and shows every operand and their order;
`Seed` is the initial value of a reduction. `WordBits` is the number of elements that
share a memory location: 1 for ordinary vectors, more for the packed `std::vector<bool>`
that `parallel_map` builds for a predicate.

### Database and Sqlite

`Database` is one connection, used by one thread. `disk`, `rows` and `open` are SQLite's: what
is durable, what the connection sees, whether a transaction is open. `depth` counts the calls
of `transaction` that are inside their `try` block, `exc` is the exception under way and
where it is. `BEGIN` is outside the `try` block and so fails without a `ROLLBACK`;
`COMMIT` is inside, and its failure reaches the handler past the callable. `Phase` maps
this to the abstract `UnitOfWork`.

`Sqlite` is about lifetimes: `db_` and `stmt_` are the places where a `Database` or
`Statement` lives, `conns` and `stmts` SQLite's own objects. `sqlite3_close_v2` makes a
connection with statements a zombie, which goes with its last statement. A `Repository`
call makes a statement of its own (`Local`), binds, steps, and may throw at any point. A
connection whose constructor throws in a `PRAGMA` is recorded in `leaked`: nobody owns it.
`given` is what the program is entitled to believe is bound.

Assumed from outside: SQLite has no nested transactions (`BEGIN` in one fails); any
statement may fail and leave the transaction open, or fail and roll it back (as for a full
disk); a failing `COMMIT` may do either; after `ROLLBACK` no transaction is open;
`sqlite3_reset` returns the error of the step before it. `Swallows`
lets a callable catch an error that has rolled back and go on; the runs and theorems
exclude it, because its later writes are then durable at once and nothing in the
handler can undo them (with `Swallows = TRUE` TLC finds `RollsBackOnException` violated).

### Ecs

`pools_` keeps for each world and type the entities with a component (its value plays no
part), `erasers_` the world that the eraser of the type points to; a pool exists when its
eraser does, since `pool()` makes both. `frames` is the stack of running calls of `each`,
with the rest of the snapshot and the entity whose callback runs. While it runs, the
callback may call everything again, on any world, and throw. Worlds are copied and moved
by the implicit members, which copy the erasers as they are; a world is not replaced while
an `each` on it runs. Calls get entities that their world has handed out.

### Owners of resources: Arena, UniqueHandle, TypeErasure, GlObjects

All four have the same form: places where an owner object can be (constructed, moved,
assigned, destroyed), the outside world that gives out names, and the history that the
properties compare. In `Arena` the outside is the heap, `size_t` is arithmetic modulo
`SizeMod`, and every comparison of the code that guards against a wrap is a guard here;
`blocks` is what was handed out and not taken back by `reset` or destruction. `allocate`
aligns the offset and not the address, as the code does. In `UniqueHandle` the system may
give a number out again as soon as it is closed, so that closing twice closes somebody
else's file. In `TypeErasure` an address is likewise reused, a copy has two steps, between
which the wrapped value's copy constructor may throw (`BeginCopy`, then `FinishCopy` or
`CopyThrows`), and `value` is what each variable should stand for, also between the two. In
`GlObjects`, deletion of an attached shader or of the program in use is deferred, as OpenGL
defines; `building` is the progress of `build_program`, in which each compilation and the
linking may fail after names were created.

### RenderPass

`ctx` is what the code reads or writes of the context (bound framebuffer, viewport, and the
states a `PipelineState` sets). A pass reads the bound framebuffer and viewport when it
begins and restores them at its end. Framebuffers and programs may be deleted at any time;
deleting a bound framebuffer binds 0.

### RestServer and ItemsApi

A request is a number; `stage`, `at` and `res` say how far it is. `RestServer` has the
middleware turn by turn, with its three ways to end (leaves the status alone, sets it,
throws) and the wrapper's `catch`; what a handler does is added by `ItemsApi`: the routes of
`examples/api_demo.cpp` with their table, counter and mutex. Parsing of an id and of a body
may fail before the mutex is taken or, for `create`, while it is held. httplib is outside: it
queues requests while the server runs, drops those that no thread has taken when it stops,
answers 500 to an exception that leaves the wrapper, and has a default status
(`DefaultStatus`), which the wrapper relies on.

### Pipeline

An evaluation is a stack of callbacks, one in each stage and that of the terminal operation, each
with the elements it is still to be called with (`pending`; several only behind a
`flat_map`). The innermost one runs: one step is one stage applied to one element. `take`
counts down `left` and, at zero, throws `StopIteration`, which ends the evaluation from
wherever it is.
`collect`, `reduce`, `for_each` and `count` differ in what they do with an element, not in
which ones they get (`out`).

### CliConfig and TextTable

The process of `serve` stage by stage: `env_fallback` for the options that have one by hand,
CLI11's parse (command line first, then the environment names it knows), the
configuration file line by line, `apply_config_defaults` over its keys in any order, and the
command. `TextTable` keeps cells as sequences of visible characters and escape sequences;
`Printed` lays out a row as the code pads it.

### SimdOps, PhysicsWorld, Numerical

These are pure algorithms, run one turn of their loops (or one call) at a time and compared
with what they are documented to compute, in exact arithmetic: integers for the arrays and
positions, in a unit so small that each halving which the steps of a world can make is exact
(`PhysicsAssumption`); numerators over a common denominator for the integrators. Rounding
is not modelled. `memory` in `SimdOps` is one array in which
the operands of a call may overlap. A step of `rk4` hands each stage the `y` to which the stage
before it leads. Its right-hand sides are the powers of `t` and, with `Rates`, `rate * y`;
the six by which every step divides is collected in `Scale`, so that `y` stays an integer.
The repository's own tests use `y' = y` and `y' = -y`.

### ExprTree, SensorText

An expression is a tree of records, and a visitor is a
recursive function over the trees of up to `MaxNodes` levels, whose body (`VisitValue`,
`VisitText`) is what the lambdas of `std::visit` do with one node. A number (`Decimals`) is an
integer in units of which `Digit` make the last decimal that `std::to_string` prints, so that
there are numbers in between: `PrintNumber` rounds to the nearest decimal, `ReadNumber`
gets the rounded number back. Numbers that differ may print alike (3 and 4 in the run, where
`Digit` is 4), and one that is not zero may print as zero. What a text tells is therefore
the value of the expression *with the literals that were printed* (`AsWritten`), and what
comes back from a saved sensor is the nearest value of six decimals. A zero has no sign of
its own (a negative number that rounds to zero is still printed with its sign), and
infinities, NaN and numbers too large to be exact are left out.

## 3. Runs

`tlc -config X.cfg M` with the module and configuration below.

| Run | Module, cfg | Checks | Bounds |
|---|---|---|---|
| `pool` | `MCThreadPool`, `ThreadPoolBuilds` | both builds: every task in one place, drained at the end, no lost wakeup for work, implements `TaskExecutor`; `std::jthread` build: every task runs, in spite of the lost stop wakeup, unless waiting bodies starve a pool under destruction; `std::thread` build: every task runs (`PlainTasksRun`), the destructor returns (`PlainDestructorReturns`) | 3 workers, 2 clients, 3 tasks, one body that waits (`std::jthread` build) |
| `pool_lost_stop` | `ThreadPool`, `ThreadPoolLostStop` | **violated**: the `std::jthread` destructor returns | 2 workers, 1 task |
| `hand_over` | `MCHandOver`, `HandOver` | fork/join: each element once, no task outlives the call, exception of the first chunk, order of the reduction, every element mapped, the call ends; ring: no data race, use of `empty()`, implements `BoundedFifo`; retrying ends transfer everything (`RingTransfersAll`) | up to 5 elements, 4 threads, exceptions anywhere; 4 slots, 6 pushes (the indices wrap) |
| `forkjoin_bits` | `MCForkJoin`, `ForkJoinBits` | **violated**: every element mapped, for packed elements | 2 elements in one word |
| `handles` | `MCHandles`, `Handles` | signal: types, size, exactness of emit, dead stays dead; worlds: fresh entities, `each` exact, `destroy` exact | 2 threads, 3 handles (one scoped), 3 slots, 3 emits, nesting 2; 2 worlds, 2 types, 2 entities in each, one running `each` |
| `ecs_assigned` | `Ecs`, `EcsAssigned` | **violated**: `destroy` removes every component, in a copied world too | 2 worlds, 2 types, 2 entities |
| `components` | `MCComponents`, `Components` | the other components without threads, see below | see below |
| `sqlite_leak` | `Sqlite`, `SqliteLeak` | **violated**: a connection that is open has a `Database` | 2 databases, 2 connections |
| `arena_alignment` | `Arena`, `ArenaAlignment` | **violated**: addresses are aligned as was asked, for any power of two | 1 arena, `size_t` of 16 values, alignment 4 over buffers aligned to 2 |
| `cli_precedence` | `CliConfig`, `CliPrecedence` | **violated**: the environment comes before the file, for any option | 2 options, one of each kind, 1 line in the file |
| `rest` | `MCItemsApi`, `ItemsApi` | middleware decides, answers agree with the table, every request is answered | 2 middleware of 3 kinds, 3 requests of 7 kinds, all schedules |
| `rest_default` | `MCItemsApi`, `ItemsApiUnset` | **violated**: middleware that leaves the status alone lets the request through | the same, with httplib's default status unset |

The passing runs have 38,966 (`pool`), 180,908 (`hand_over`), 700,412 (`handles`, up to
symmetry), 980,169 (`components`) and 751,971 (`rest`) distinct states.

What `components` checks, part by part:

| Part | Properties | Bounds |
|---|---|---|
| `Database` | `NoTransactionLeftOpen`, `NestedCallsKeepOuter`, `ImplementsUnitOfWork` | 3 rows, nesting 2, any step may fail |
| `Sqlite` | owners of connections and statements (in `ResourcesOwnedOnce`), `ExecutesWhatWasBound` | 2 databases, 2 statements and that of a call, 2 connections, 2 values |
| `Arena` | buffers have one owner (in `ResourcesOwnedOnce`); `MemoryExact`: blocks apart, aligned up to the buffer's alignment, large enough | 2 arenas, `size_t` of 8 values; alignments 1 to 4, one not a power of two, one above the buffer's |
| `UniqueHandle`, `TypeErasure`, `GlObjects` | `ResourcesOwnedOnce`: one owner for whatever is held, nothing freed twice or leaked | 3 wrappers and descriptors; 3 variables, 4 objects; 3 owners, 5 names |
| `RenderPass` | `PassesExact`: a draw goes where its scope says, as its pipeline describes | 2 framebuffers, 2 viewports, 2 programs, 5 pipelines, nesting 2 |
| `Pipeline` | `PipelineExact`: the result of the stages as functions, no pull too many but the one a `take` needs | 75 chains of up to 3 stages, containers of up to 3 elements |
| `CliConfig` | `ServesAsConfigured`: precedence of the sources, in the code's order for each kind of option; the process ends only for a value it would use, or that `env_fallback` reads | 3 options, 2 lines in the file, a good and a bad value in each source |
| `SimdOps` | `KernelsExact`: vector loops equal their definition, in place too | widths 1, 4, 8, counts around their multiples |
| `Numerical` | `IntegratorsExact`: Simpson and RK4 of order four, RK4 also where the right-hand side depends on `y`; the solution ends nearest to `t_end` | powers 1 to 3, rates 0, 1, -1, both directions |
| `PhysicsWorld` | `WorldExact`: pinned particles stay, momentum is gravity's alone, the last constraint relaxed holds | 3 particles, 2 constraints, 2 steps of up to 2 iterations |
| `TextTable`, `ExprTree`, `SensorText` | `TextsExact`: columns line up, equal texts have equal values up to what is printed, a sensor comes back to six decimals | 2 columns, 2 rows; 7 nodes, 3 literals, two that print alike; 3 names, two with a separator, 3 values, two between decimals |

Why the bounds are enough. For the pool, the interesting schedules need one worker that
blocks, one that takes the work and one that is stopped, plus two submitters that race their
notifications: three workers and two clients have all of them at once. For the queue, six
pushes through four slots (three usable) wrap both indices, and every smaller distance
between them occurs; the proofs remove the bound. For the signal, three slots are a first, a
middle and a last position of a snapshot; two threads and nesting two are a nested emit
concurrent with another. For fork/join, five elements and four threads contain total <
threads, total = threads, a remainder, an exact division and empty last chunks. For the
database, two levels are an outer and an inner call, and a third adds nothing to an inner
call that cannot begin; the proofs remove the bound. For the worlds, an `each` inside
another adds nothing that a callback cannot do with `get`, `add` and `remove` (one `each` at
a time, `MaxDepth = 1`), two types are the driving one and one more, and two entities are
one that is visited and one that is not yet. For the server, two requests race for the mutex
while a third creates, deletes or fails, and two middleware are a first and a last of the
list. For owners, two or three places are the source and the target of a move and a
bystander. For arenas, eight values of `size_t` are so few that `offset + align - 1`, the
rounding of a capacity and `n * sizeof(T)` all go beyond the largest within the run: each
guard of the code against a wrap refuses something, and the proofs hold for every width. For
pipelines, three stages are a take inside, around and between others. For the table, two
columns show the shift that a wrong width makes. For the integrators, three powers are all
the degrees that Simpson and RK4 integrate exactly, a rate other than 0 shows whether a
stage is taken at the right `y` (with the third stage taken where the second one is, the run
finds `IntegratorsExact` violated), and the proofs hold for every rate and start.

Deadlock checking is off where the system really stops: when the bounds of a signal or a
world are used up, when a fork/join call is over, when all requests are used up and the server is
at rest, when expressions and tables have reached their bounds, and in
`pool`, where a body can wait for a task that no worker is left to run.

### Fairness

`handles`, `components` and the runs of one safety property use a specification without
fairness. The others assume:

- pool: a thread that can go on does (weak fairness on `NotifyOne` and the owner's steps),
  and a mutex that is free again and again is eventually granted (strong fairness on the
  steps that begin by taking it). Nothing obliges clients to submit, an owner to destroy
  the pool, a waiter to wake spuriously, or thread creation to fail.
- queue: both sides retry, as the cross-thread test does; a store becomes visible after
  finitely many loads; assignments of an element do not throw for ever (`SpscFairness`).
- fork/join: threads run and callables return or throw (`ForkJoinFairness`).
- server: httplib's threads run (weak fairness on each request's steps); the critical
  sections of the items handlers contain no wait. Nothing obliges the owner to listen or to
  stop.

In `pool` and `hand_over` the fairness is a disjunction: that of the build, or of the part,
that the behaviour is of, and nothing is assumed of the one that rests.

### What the violated runs show

Each one checks a sentence of the repository's own documentation (quoted in
`PROJECT.json`, `findings`).

- `pool_lost_stop`: with `std::jthread`, stop is requested and everyone notified without the
  mutex, so a worker between predicate and block misses both; the destructor hangs.
- `forkjoin_bits`: `parallel_map` with a predicate writes a packed vector from several
  threads.
- `ecs_assigned`: the erasers of a copied world point to the world it was copied from.
- `sqlite_leak`: `Database`'s constructor runs two `PRAGMA`s after `sqlite3_open`; if one
  throws, no destructor runs, and the connection stays open to nobody. `ConnectionsClosed`,
  in `ResourcesOwnedOnce`, says what does hold: every connection that some `Database` has
  owned is closed, at the right time.
- `arena_alignment`: `allocate` aligns the offset, not the address, and so keeps its
  "required alignment" only up to that of the buffer; that much is in `MemoryExact`, and
  proved.
- `cli_precedence`: `env_fallback` sets a default, which `apply_config_defaults` takes for
  an option that is not set: the file wins over the environment. `Precedence`, in
  `ServesAsConfigured`, states the order that the code has for each kind of option.
- `rest_default`: the wrapper takes any status but 200 for a refusal; with the version of
  cpp-httplib that the build fetches a response begins with status -1, so the first
  middleware ends every request. `rest` has the default that the code assumes; without
  middleware the two do not differ.

Met on the way, and visible in the models without a run of their own:

- thread pool: during destruction the idle workers leave as soon as the queue is empty, even
  though a running body may still submit and wait; then nobody is left (`Starved`);
- queue: the `static_assert` accepts `Cap` = 0, for which `push` writes outside the ring
  (the theorems assume `Cap # 0`); a *third* thread that calls `empty()` may be told that a
  queue was empty that never was, as its two loads straddle other operations;
- signal: a handle is one of several owners of the sentinel: a running emit (or a copy of
  the connection) keeps a disconnected slot alive and callable until it ends;
- parallel: the initial value of `parallel_map_reduce` is folded into every chunk and once
  more into the whole (`ReducesInOrder` says exactly this);
- database: a callable that catches an error after which SQLite has rolled back makes
  durable what it writes next, although `transaction` then throws (`Swallows`); `reset`
  after a failed step throws that step's error again and leaves the bindings; `reset` of a
  moved-from `Statement` dereferences null (excluded from the model);
- REST: exceptions of middleware are not caught by the wrapper, httplib answers them with
  500; an id too long for `std::stoi` throws `out_of_range`, answered with 500, not 404;
  nothing guards the middleware list against `use` while serving; the client's `get_json`
  parses the empty body of a failed call and so turns every failure into a parse error;
- CLI: a bad value in a variable that CLI11 knows is ignored, in one of `env_fallback` it
  throws outside `CLI11_PARSE`; `config set` of the demo stores nothing, and the Boost
  variant of the demo cannot reach its `serve`;
- rendering: `RenderPass` restores framebuffer and viewport only, not what a pipeline or its
  own `glClearColor` has set; a clear honours a depth mask that an earlier pipeline has
  turned off; `PipelineState` refers to a program by its raw name;
- pipeline: `take(n)` pulls one more element than it passes on; `from` keeps a reference to
  its container, so that a temporary is gone before the evaluation;
- SIMD: if the destination begins inside a source, builds of different width give different
  results (`Apart` excludes it);
- physics: a particle's mass is used by nothing; an unknown operator of an expression
  evaluates to 0; `simpson` with no intervals divides by zero;
- `Sensor`: `deserialize` assigns the name before it parses the number, so that a bad number
  leaves the new name with the old value; a name with `:` in it does not come back, nor do
  the decimals after the sixth; likewise `1 / 0.0000001` and `1 / 0` print alike, and one of
  them throws when evaluated.

## 4. Proofs

`tlapm M.tla` checks them, without bounds on the constants.

**ThreadPoolProofs** (from `ThreadPoolAssumption` only: any finite set of workers and
clients, any set of tasks, both builds). The inductive invariant relates each program
counter to the data: a worker is running or notifying exactly when it has a task, the
owner's phase bounds which workers can exist or be stopped, an exited worker was stopped and
left the queue empty or running bodies behind. From it follow type correctness, that every
task is in exactly one place, that no wakeup for queued work is lost, that the destructor
leaves nothing behind, and that the pool implements `TaskExecutor` (every step is a step of
the executor or a stutter).

**SpscQueueProofs** (from `SpscAssumption` and `Cap # 0`, which the code does not enforce).
The proof counts: the k-th entry of a modification order is `(k-1) % Cap`, so an index
comparison made on a stale value still bounds the true distance between the indices (lemmas
on remainders: two counts less than a ring apart differ modulo `Cap`). The inductive
invariant says that the true distance stays within `Cap - 1`, that the slots between the
indices hold the accepted values in order, and that the histories of slot accesses are
covered by what the other thread has seen. It yields capacity, FIFO order, absence of races,
the answers of `empty()` and the implementation of `BoundedFifo`.

**SignalProofs** (from `SignalAssumption`: any finite sets of threads and handles, any number
of slots, any nesting). The inductive invariant has two parts. Of the list: it is in the order
of the `connect` calls, and no slot that is connected was pruned. Of every running emit: its
copy of the list is in that order; what it has called lies before its position, or at it
while the slot runs; and whatever lies before its position and is still connected was called.
`SizeIsConnections` needs an induction over the length of the list, for the count of
live elements to be a cardinality. It yields type correctness, `EmitExact`,
`SizeIsConnections` and the action property `DeadStaysDead`.

**ForkJoinProofs** (from `ForkJoinAssumption`: any number of elements and threads, every
schedule, exceptions anywhere). Lemmas on the rounded-up division say that the chunks tile
the range and that the loop breaks at the first empty one. The inductive invariant says
which chunks are launched and collected at each place of the caller, where in its chunk every
task is, that what a task has reduced is the initial value and its elements so far in
order, and likewise what the caller has reduced. It yields all the checked invariants: each
element once, no task outlives the call (on any way out), the exception is that of the first
chunk that fails, and the result of a reduction does not depend on the schedule. The
exception is `MapComplete`, which is proved for `WordBits = 1` and refuted for packed
elements by `forkjoin_bits`.

**EcsProofs** (from `EcsAssumption`: any worlds, types, number of entities and depth of
nesting). Two parts are inductive together. Of the worlds: a pool exists only with its
eraser, holds only entities that the world has created, and its eraser erases in that very
world unless the world was assigned. Of the running calls of `each`: what was seen and what
is left existed at the beginning, and an entity that has kept all its components is still
in the pools and was seen or is left; it cannot be the one that is skipped. From it follow
type correctness, that `create` returns fresh numbers, that `each` is exact at any depth
(the run has one at a time), and that `destroy` is exact.

**OwnersProofs** (from the assumption of each component: any places, names, addresses,
descriptors and statements). Each component has an inductive invariant of its own, and
`ResourcesHaveOwners` puts them together as `OwnersSpec => []ResourcesOwnedOnce`.

- `ArenaInv` (also from `AlignmentAssumption`, that the powers of two up to the heap's own
  alignment divide it): an empty place has neither capacity nor offset, the heap's buffers are
  apart and aligned, and every block ends at or below the offset of the arena that owns its
  buffer. Lemmas on rounding up in arithmetic that wraps come first: under the guards of the
  code the sum is exact, the result a multiple and not smaller, for every width of `size_t`.
- `HandleInv` and `ErasureInv` are the checked properties with types; for erased values
  also that an object that is held has a state.
- `GlInv` describes the context at every point of `build_program`: the names are those of the
  owners, of the program in use and of the build under way; only the program in use is
  kept although it is to be deleted; shaders are attached exactly once there is a program.
  Between builds nothing remains but what is owned or in use, whichever step threw.
- `PassInv`: what each open pass will put back is what the scope around it has asked for,
  unless that framebuffer has been deleted since.
- `SqliteInv`: besides what the run checks, SQLite has bound what the program has given, a
  statement that is not finalized has a connection, a `Repository` call has its statement,
  and no `Database` has a connection that leaked.

**SequentialProofs** (from the assumption of each component; for `Database` also `~Swallows`).
The components are in one module because they share lemmas.

- `Database`, for any set of rows and any nesting: without an open transaction the
  connection shows the durable table; a call inside its `try` block without one is on its
  way out with an exception; the durable table is the one that the call found. From it
  follow that no transaction is left open, that a call that throws has changed nothing, that
  a nested call does not touch the transaction around it, and, with one case per action,
  that the connection implements `UnitOfWork`.
- `CliConfig`, for any options and sources: stage by stage, an option is bound to what the
  sources asked so far have for it, and none of it is bad. It yields `ServesAsConfigured`.
- `SimdOps`, for every width of the vectors: the loops have stored what lies behind them and
  nothing else, and the lanes of the dot product together are the sum of the products
  behind. `Apart` (the destination does not begin inside a source) is needed and is in the
  property, not only in the proof.
- `Numerical`: a pair of turns of `simpson`, and a step of `rk4`, add exactly the integral
  over their part for polynomials up to degree 3. For `y' = rate * y`, with any rate, a step
  multiplies `y` by the Taylor polynomial of degree 4, which needs every stage at its own
  `y`; the halvings in the stages are exact because half of a `dt` is a whole number.
- `PhysicsWorld`: every length can still be halved as often as the steps that are left may
  ask, so that a correction is shared without a remainder: what one end gains the other
  loses, and the ends are at the distance of the constraint afterwards. That the relaxations
  keep this for any number of iterations is an induction over their sequence.
- `Pipeline`, for every chain of stages, every container and all functions that stages call
  (`PipelineAssumption` gives them types only). `Flow(d)` says of every callback `k` what it
  has been called with so far, `d[k]`: the elements read are `d[1]` and what waits for the
  first; what a stage makes of `d[k]`, as a function on sequences, is `d[k + 1]` and what
  waits for the next; a take that has seen `d[k]` has `n - Len(d[k])` left. The invariant is
  that there is such a `d` while a terminal operation runs. A step appends one element to
  one `d[k]`, and a stage makes of one element more what it made before and what it yields
  (`StageAppends`, by induction over the length). When the container is exhausted nothing
  waits, and `d` is what the stages mean; when a take throws, it has seen `n` elements, of
  which it makes what it would make of any that follow (`TakeIsDone`).
- `TextForms`, for texts of any length, tables of any size and trees of any depth. Tables
  (from `TableAssumption`): every text that is put into a table leaves no escape sequence
  open, and for such texts the visible length of two, one after the other, is the sum of
  theirs; so the cells and the rule before a column add up to the same column. Expressions
  (from `ExprAssumption` and `DecimalsAssumption`: different numbers *of six decimals* are
  spelled differently, in digits): one text can have several trees (`-5` is a literal, or
  the negation of 5), so that trees cannot be read back, but values can. By induction over
  the levels, *whatever follows* their texts, two trees that go on to one text have, with
  the literals that were printed, the same value and are followed by the same
  (`ReadsAlike`); without what follows, the induction does not go through an operand on the
  left. Sensors (from `SensorAssumption` and `DecimalsAssumption`): the text of a sensor at
  hand is its name, the separator and its value rounded, so that the first separator is that
  one if the name has none; what is read is at most half a decimal from what was saved; a
  text that cannot be read leaves the value. `TextsAreExact` is the conjunction.

The provers cannot instantiate the predicate of the library's induction theorems. Where an
induction over data is needed (sums, powers, relaxations, stages, texts, trees, the count of
a list) the predicate is a *set* of natural numbers, and the step from its members to `Nat`
is proved once from `WFMin` (`LeastElement`, `InductionOnSet`); that a recursive function
exists at all is proved the same way (`RecursionExists`).

One attempt failed for a good reason. The cases of `Relax` overlapped (two particles in one
place that are not pinned satisfied two guards, and TLC took the first): nothing could be
proved of the value of a `CASE` with two true guards until the test of the code, which
comes first, came first in the model too.

**ItemsApiProofs** (from `RestAssumption` and `ItemsAssumption`: any number of requests, any
list of middleware; both modules at once, as `ItemsApi` extends `RestServer`). The inductive
invariant ties the stage of a request to the mutex (critical if and only if it holds it),
says that whoever has reached the n-th middleware was let through by those before it, and
counts: the counter is one more than the number of creates that have advanced it, so ids
stay in range and below the counter, and no two creates have the same. It yields that table
and answers agree, and, for *every* default status (`MiddlewareDecidesHandlers`), which requests
are handled: with 200 or without middleware, an answered request was handled exactly if all
middleware lets it through, which is `MiddlewareDecides`; with another default, such as the -1
of the pinned httplib, and any middleware, none ever is, which the run `rest_default` shows.

Only model-checked: everything under fairness (`EveryTaskRunsOrStarves`, `PlainTasksRun`,
`PlainDestructorReturns`, `RingTransfersAll`, `CallEnds`, `EveryRequestAnswered`: liveness,
like `ENABLED`, is out of the reach of the provers used here). Every safety property that a
passing run checks is also proved.

## 5. Not modelled, and what is left

- **Core App** (a list of arguments printed at a log level), **tests, examples and
  benchmarks** (other than the handlers of `api_demo` and the command of `cli_demo`, which are
  modelled), **build, CI, documentation**: no state whose order of changes matters.
- **HPC**: `parallel_stl.h` forwards to the standard algorithms. Floating-point rounding, and
  so the effect of the vector dot product's order of additions, is not modelled, here,
  in the physics or in the integrators. Right-hand sides of `rk4` that depend on both `t` and
  `y`, or on `y` other than linearly, are not among those of the model.
- **CLI output** other than `Table`: the progress bar clamps two numbers and prints them.
- **Smart pointers**: `smart_pointers.h` shows the standard ones at work.
- **Moves of a pop that throw** (`SpscQueue`), and ranges so long that
  `total + n_threads - 1` wraps (`ForkJoin`).
- **HTTP, SQLite, OpenGL, CLI11** themselves are outside; the models say what is assumed of them.
- Exhausting `next_` of a world or the counter of items (2^32 calls), and unbounded growth
  of the list of a signal between emits: nothing in the code bounds them.

Of the plan, nothing is left but what the provers cannot do.
