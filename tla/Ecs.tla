--------------------------------- MODULE Ecs ---------------------------------
(***************************************************************************)
(* simulation::World: entities are numbers, components live in one pool    *)
(* per type, made when the type is first mentioned, together with an       *)
(* eraser that destroy uses.  An eraser holds a pointer to the world that  *)
(* made it.                                                                *)
(*                                                                         *)
(* The program is sequential, but each calls it back: the callback may     *)
(* create, add, remove, destroy, assign other worlds and run each again.   *)
(* Of a component only its presence is kept.                               *)
(***************************************************************************)
EXTENDS Naturals, Sequences

CONSTANTS
  Worlds,    \* the World objects, all of which stay alive
  Types,     \* the component types
  Nothing,   \* no pool and no eraser; no entity
  MaxIds,    \* bound: how many entities a world creates, far fewer than 2^32
  MaxEach    \* bound: how deep calls of each nest

ASSUME EcsAssumption ==
  /\ MaxIds \in Nat \ {0}
  /\ MaxEach \in Nat
  /\ Nothing \notin Worlds /\ Nothing \notin Nat

VARIABLES
  next_id_,  \* per world, the entity to be created next
  pools_,    \* per world and type, the entities with such a component
  erasers_,  \* per world and type, the world that the eraser acts on, or Nothing
  eaches,    \* the calls of each that are running, innermost last
  assigned   \* history: the worlds that were made from others

ecsVars == <<next_id_, pools_, erasers_, eaches, assigned>>

Ids == 0..(MaxIds - 1)

(* A call of each: its world and types, the entities of its snapshot that are
   left, the one whose callback runs, and as histories the entities that
   existed when it began, those it has called back for, and those that have
   had all the components ever since. *)
EachFrame ==
  [world : Worlds, first : Types, need : SUBSET Types, left : SUBSET Ids,
   cur : Ids \cup {Nothing}, start : Nat, seen : SUBSET Ids, kept : SUBSET Ids]

EcsTypeOK ==
  /\ next_id_ \in [Worlds -> 0..MaxIds]
  /\ pools_ \in [Worlds -> [Types -> SUBSET Ids]]
  /\ erasers_ \in [Worlds -> [Types -> Worlds \cup {Nothing}]]
  /\ \A w \in Worlds, T \in Types : erasers_[w][T] = Nothing => pools_[w][T] = {}
  /\ eaches \in Seq(EachFrame)
  /\ assigned \in SUBSET Worlds

EcsInit ==
  /\ next_id_ = [w \in Worlds |-> 0]
  /\ pools_ = [w \in Worlds |-> [T \in Types |-> {}]]
  /\ erasers_ = [w \in Worlds |-> [T \in Types |-> Nothing]]
  /\ eaches = <<>>
  /\ assigned = {}

EachDepth == Len(eaches)

TopEach == eaches[EachDepth]

\* The program's own code runs outside every each and in callbacks.
MayCallWorld == EachDepth > 0 => TopEach.cur # Nothing

\* The entities that a world has handed out.
Created(w) == 0..(next_id_[w] - 1)

(* Mutant: a pool is made without its eraser, unless the type is the first
   one that the world sees. *)
WithPoolsOnly(w, Ts) ==
  [erasers_ EXCEPT ![w] =
     [T \in Types |-> IF T \in Ts /\ @[T] = Nothing /\ \A U \in Types : @[U] = Nothing
                      THEN w ELSE @[T]]]

\* The pools of these types are there, with erasers for this world.
WithPools(w, Ts) ==
  [erasers_ EXCEPT ![w] =
     [T \in Types |-> IF T \in Ts /\ @[T] = Nothing THEN w ELSE @[T]]]

\* The entities that have all these components.
Having(pools, w, Ts) == {e \in Ids : \A T \in Ts : e \in pools[w][T]}

\* The histories of running calls, when the pools change.
StillKept(pools) ==
  [i \in 1..EachDepth |->
     [eaches[i] EXCEPT !.kept = @ \cap Having(pools, eaches[i].world, eaches[i].need)]]

-----------------------------------------------------------------------------
Create(w) ==
  /\ MayCallWorld
  /\ next_id_[w] < MaxIds
  /\ next_id_' = [next_id_ EXCEPT ![w] = @ + 1]
  /\ UNCHANGED <<pools_, erasers_, eaches, assigned>>

Add(w, e, T) ==
  /\ MayCallWorld
  /\ e \in Created(w)
  /\ erasers_' = WithPools(w, {T})
  /\ pools_' = [pools_ EXCEPT ![w][T] = @ \cup {e}]
  /\ UNCHANGED <<next_id_, eaches, assigned>>

\* get, of a type that may never have been mentioned.
Get(w, T) ==
  /\ MayCallWorld
  /\ erasers_' = WithPools(w, {T})
  /\ UNCHANGED <<next_id_, pools_, eaches, assigned>>

RemoveComponent(w, e, T) ==
  /\ MayCallWorld
  /\ e \in Created(w)
  /\ erasers_' = WithPools(w, {T})
  /\ pools_' = [pools_ EXCEPT ![w][T] = @ \ {e}]
  /\ eaches' = StillKept(pools_')
  /\ UNCHANGED <<next_id_, assigned>>

\* The pools after every eraser of w has erased e, each in the world it points to.
Erased(w, e) ==
  [v \in Worlds |-> [T \in Types |->
     IF erasers_[w][T] = v THEN pools_[v][T] \ {e} ELSE pools_[v][T]]]

(* Mutant: the entity is recycled. *)
DestroyRecycles(w, e) ==
  /\ MayCallWorld
  /\ e \in Created(w)
  /\ pools_' = Erased(w, e)
  /\ next_id_' = [next_id_ EXCEPT ![w] = e]
  /\ eaches' = StillKept(pools_')
  /\ UNCHANGED <<erasers_, assigned>>

\* The world that an eraser points to makes the pool if it is not there.
DestroyEntity(w, e) ==
  /\ MayCallWorld
  /\ e \in Created(w)
  /\ pools_' = Erased(w, e)
  /\ erasers_' = [v \in Worlds |-> [T \in Types |->
                    IF erasers_[w][T] = v THEN WithPools(v, {T})[v][T]
                    ELSE erasers_[v][T]]]
  /\ eaches' = StillKept(pools_')
  /\ UNCHANGED <<next_id_, assigned>>

\* No call of each is running on the world.
Unused(w) == \A i \in 1..EachDepth : eaches[i].world # w

\* The implicit copy assignment copies the erasers with what they point to.
CopyWorld(w, v) ==
  /\ MayCallWorld
  /\ w # v /\ Unused(v)
  /\ next_id_' = [next_id_ EXCEPT ![v] = next_id_[w]]
  /\ pools_' = [pools_ EXCEPT ![v] = pools_[w]]
  /\ erasers_' = [erasers_ EXCEPT ![v] = erasers_[w]]
  /\ assigned' = assigned \cup {v}
  /\ UNCHANGED eaches

\* So does the implicit move assignment, which leaves empty maps behind.
MoveWorld(w, v) ==
  /\ MayCallWorld
  /\ w # v /\ Unused(v) /\ Unused(w)
  /\ next_id_' = [next_id_ EXCEPT ![v] = next_id_[w]]
  /\ pools_' = [pools_ EXCEPT ![v] = pools_[w], ![w] = [T \in Types |-> {}]]
  /\ erasers_' = [erasers_ EXCEPT ![v] = erasers_[w], ![w] = [T \in Types |-> Nothing]]
  /\ assigned' = assigned \cup {v}
  /\ UNCHANGED eaches

-----------------------------------------------------------------------------
(* each, for the types of need, driven by the pool of the type first. *)

EachBegin(w, T, Ts) ==
  /\ MayCallWorld
  /\ EachDepth < MaxEach
  /\ erasers_' = WithPools(w, {T})
  /\ eaches' = Append(eaches,
       [world |-> w, first |-> T, need |-> Ts \cup {T}, left |-> pools_[w][T],
        cur |-> Nothing, start |-> next_id_[w], seen |-> {},
        kept |-> Having(pools_, w, Ts \cup {T})])
  /\ UNCHANGED <<next_id_, pools_, assigned>>

(* Mutant: the loop walks the pool itself. *)
LeftInPool(f) == pools_[f.world][f.first] \ f.seen

Left(f) == f.left

InEach == EachDepth > 0 /\ TopEach.cur = Nothing

\* try_get_all finds every component; it makes the pools that are missing.
EachCalls(e) ==
  /\ InEach
  /\ e \in Left(TopEach)
  /\ e \in Having(pools_, TopEach.world, TopEach.need)
  /\ erasers_' = WithPools(TopEach.world, TopEach.need)
  /\ eaches' = [eaches EXCEPT ![EachDepth].left = @ \ {e}, ![EachDepth].cur = e,
                              ![EachDepth].seen = @ \cup {e}]
  /\ UNCHANGED <<next_id_, pools_, assigned>>

EachSkips(e) ==
  /\ InEach
  /\ e \in Left(TopEach)
  /\ e \notin Having(pools_, TopEach.world, TopEach.need)
  /\ erasers_' = WithPools(TopEach.world, TopEach.need)
  /\ eaches' = [eaches EXCEPT ![EachDepth].left = @ \ {e}]
  /\ UNCHANGED <<next_id_, pools_, assigned>>

CallbackReturns ==
  /\ EachDepth > 0
  /\ TopEach.cur # Nothing
  /\ eaches' = [eaches EXCEPT ![EachDepth].cur = Nothing]
  /\ UNCHANGED <<next_id_, pools_, erasers_, assigned>>

\* The exception leaves each; a callback around it may catch it.
CallbackThrows ==
  /\ EachDepth > 0
  /\ TopEach.cur # Nothing
  /\ eaches' = SubSeq(eaches, 1, EachDepth - 1)
  /\ UNCHANGED <<next_id_, pools_, erasers_, assigned>>

EachEnd ==
  /\ InEach
  /\ Left(TopEach) = {}
  /\ eaches' = SubSeq(eaches, 1, EachDepth - 1)
  /\ UNCHANGED <<next_id_, pools_, erasers_, assigned>>

-----------------------------------------------------------------------------
EntityStep(w) ==
  \/ Create(w)
  \/ \E e \in Ids : DestroyEntity(w, e)
  \/ \E T \in Types : Get(w, T) \/ \E e \in Ids : Add(w, e, T) \/ RemoveComponent(w, e, T)

EachStep ==
  \/ \E w \in Worlds, T \in Types, Ts \in SUBSET Types : EachBegin(w, T, Ts)
  \/ \E e \in Ids : EachCalls(e) \/ EachSkips(e)
  \/ CallbackReturns \/ CallbackThrows \/ EachEnd

EcsNext ==
  \/ \E w \in Worlds : EntityStep(w)
  \/ \E w, v \in Worlds : CopyWorld(w, v) \/ MoveWorld(w, v)
  \/ EachStep

EcsSpec == EcsInit /\ [][EcsNext]_ecsVars

-----------------------------------------------------------------------------
(* "a unique ID": what create returns next has no component, in particular
   none left behind by an entity that was destroyed. *)
FreshEntities ==
  \A w \in Worlds, T \in Types : pools_[w][T] \subseteq Created(w)

(* each calls back for no entity that was created after it began, and passes
   over none that has had all the components ever since, whatever callbacks
   and calls of each inside them add, remove and destroy. *)
EachExact ==
  \A i \in 1..EachDepth :
    /\ \A e \in eaches[i].seen : e < eaches[i].start
    /\ eaches[i].kept \subseteq eaches[i].seen \cup eaches[i].left

(* "Remove every component attached to e", and nothing else: whenever destroy
   may be called it leaves no component of e in its world, by whichever call
   the pools were made, and touches neither other entities nor other worlds. *)
DestroysAll(w) ==
  \A e \in Created(w), T \in Types : e \notin Erased(w, e)[w][T]

DestroysOnly(w) ==
  \A e \in Created(w) :
    /\ \A v \in Worlds \ {w} : Erased(w, e)[v] = pools_[v]
    /\ \A T \in Types : pools_[w][T] \subseteq Erased(w, e)[w][T] \cup {e}

\* ... of a world that was not made from another.
DestroyExact == \A w \in Worlds \ assigned : DestroysAll(w) /\ DestroysOnly(w)

\* "Remove every component attached to e", for the copies as well.
DestroyAlways == \A w \in Worlds : DestroysAll(w)
=============================================================================
