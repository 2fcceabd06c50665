------------------------------ MODULE EcsProofs ------------------------------
(***************************************************************************)
(* Theorems about Ecs, for every set of worlds and of types and any depth  *)
(* of nesting of each.                                                     *)
(***************************************************************************)
EXTENDS Ecs, TLAPS

WorldTypes ==
  /\ next_id_ \in [Worlds -> 0..MaxIds]
  /\ pools_ \in [Worlds -> [Types -> SUBSET Ids]]
  /\ erasers_ \in [Worlds -> [Types -> Worlds \cup {Nothing}]]
  /\ assigned \in SUBSET Worlds

(* A pool exists where its eraser does, and the eraser erases in the world of
   the pool unless that world was made from another. *)
PoolsHaveErasers ==
  \A w \in Worlds, T \in Types : erasers_[w][T] = Nothing => pools_[w][T] = {}

OwnErasers ==
  \A w \in Worlds \ assigned, T \in Types : erasers_[w][T] = Nothing \/ erasers_[w][T] = w

WorldInv == WorldTypes /\ PoolsHaveErasers /\ FreshEntities /\ OwnErasers

(* A call of each deals with entities that existed when it began, and those
   that have kept their components are called or still to come. *)
FrameOK(f) ==
  /\ \A e \in f.seen \cup f.left : e < f.start
  /\ f.kept \subseteq f.seen \cup f.left
  /\ f.kept \subseteq Having(pools_, f.world, f.need)

FrameInv ==
  /\ eaches \in Seq(EachFrame)
  /\ \A i \in 1..Len(eaches) : FrameOK(eaches[i])

IInv == WorldInv /\ FrameInv

-----------------------------------------------------------------------------
\* The invariant holds initially.
LEMMA InvInit == ASSUME EcsAssumption, EcsInit PROVE IInv
<1>. USE DEF EcsAssumption, EcsInit
<1>1. WorldTypes
  BY DEF WorldTypes
<1>2. PoolsHaveErasers /\ FreshEntities /\ OwnErasers
  BY DEF PoolsHaveErasers, FreshEntities, Created, OwnErasers
<1>3. FrameInv
  BY DEF FrameInv
<1>4. QED
  BY <1>1, <1>2, <1>3 DEF IInv, WorldInv

\* What WithPools does to each eraser.
LEMMA WithPoolsIs ==
  ASSUME WorldTypes, NEW w \in Worlds, NEW Ts \in SUBSET Types
  PROVE  /\ WithPools(w, Ts) \in [Worlds -> [Types -> Worlds \cup {Nothing}]]
         /\ \A v \in Worlds, T \in Types :
              WithPools(w, Ts)[v][T] =
                IF v = w /\ T \in Ts /\ erasers_[w][T] = Nothing THEN w ELSE erasers_[v][T]
BY DEF WorldTypes, WithPools

\* Missing pools are made, with an eraser for their world, and no pool gets an
\* entity unless it is there.
LEMMA MakesPools ==
  ASSUME EcsAssumption, WorldInv, NEW w \in Worlds, NEW Ts \in SUBSET Types,
         erasers_' = WithPools(w, Ts), UNCHANGED <<next_id_, assigned>>,
         pools_' \in [Worlds -> [Types -> SUBSET Ids]],
         \A v \in Worlds, T \in Types :
           pools_'[v][T] \subseteq pools_[v][T] \/ (v = w /\ T \in Ts),
         FreshEntities'
  PROVE  WorldInv'
<1>1. WorldTypes
  BY DEF WorldInv
<1>2. /\ erasers_' \in [Worlds -> [Types -> Worlds \cup {Nothing}]]
      /\ \A v \in Worlds, T \in Types :
           erasers_'[v][T] =
             IF v = w /\ T \in Ts /\ erasers_[w][T] = Nothing THEN w ELSE erasers_[v][T]
  BY <1>1, WithPoolsIs
<1>3. WorldTypes'
  BY <1>1, <1>2 DEF WorldTypes
<1>4. Nothing \notin Worlds
  BY DEF EcsAssumption
<1>5. PoolsHaveErasers'
  <2>1. SUFFICES ASSUME NEW v \in Worlds, NEW T \in Types, erasers_'[v][T] = Nothing
                 PROVE  pools_'[v][T] = {}
    BY DEF PoolsHaveErasers
  <2>2. erasers_[v][T] = Nothing /\ ~(v = w /\ T \in Ts)
    BY <1>2, <1>4, <2>1
  <2>3. QED
    BY <2>2 DEF WorldInv, PoolsHaveErasers
<1>6. OwnErasers'
  BY <1>2 DEF WorldInv, OwnErasers
<1>7. QED
  BY <1>3, <1>5, <1>6 DEF WorldInv

\* The eaches of an unchanged stack stay right when the pools grow.
LEMMA PoolsGrow ==
  ASSUME FrameInv, UNCHANGED eaches,
         \A w \in Worlds, T \in Types : Unused(w) \/ pools_[w][T] \subseteq pools_'[w][T]
  PROVE  FrameInv'
<1>1. ASSUME NEW i \in 1..Len(eaches)
      PROVE  FrameOK(eaches[i])'
  <2>1. eaches[i] \in EachFrame /\ ~Unused(eaches[i].world)
    BY DEF FrameInv, Unused, EachDepth
  <2>2. Having(pools_, eaches[i].world, eaches[i].need)
          \subseteq Having(pools_', eaches[i].world, eaches[i].need)
    BY <2>1 DEF Having, EachFrame
  <2>3. QED
    BY <2>2 DEF FrameInv, FrameOK
<1>2. QED
  BY <1>1 DEF FrameInv

\* They stay right under any change of the pools that their histories record.
LEMMA PoolsRecorded ==
  ASSUME FrameInv, eaches' = StillKept(pools_')
  PROVE  FrameInv'
<1>1. eaches \in Seq(EachFrame) /\ EachDepth = Len(eaches) /\ EachDepth \in Nat
  BY DEF FrameInv, EachDepth
<1>2. /\ Len(eaches') = EachDepth
      /\ \A i \in 1..EachDepth :
           eaches'[i] = [eaches[i] EXCEPT
             !.kept = @ \cap Having(pools_', eaches[i].world, eaches[i].need)]
  BY <1>1 DEF StillKept
<1>3. \A i \in 1..EachDepth : eaches[i] \in EachFrame
  BY <1>1
<1>4. \A i \in 1..EachDepth : eaches'[i] \in EachFrame
  <2>1. ASSUME NEW f \in EachFrame, NEW K PROVE [f EXCEPT !.kept = f.kept \cap K] \in EachFrame
    BY DEF EachFrame
  <2>2. ASSUME NEW i \in 1..EachDepth PROVE eaches'[i] \in EachFrame
    <3>1. eaches'[i] = [eaches[i] EXCEPT !.kept =
              eaches[i].kept \cap Having(pools_', eaches[i].world, eaches[i].need)]
      BY <1>2
    <3>2. eaches[i] \in EachFrame
      BY <1>3
    <3>3. QED
      BY <2>1, <3>1, <3>2
  <2>3. QED
    BY <2>2
<1>5. eaches' \in Seq(EachFrame)
  BY <1>1, <1>4 DEF StillKept
<1>6. ASSUME NEW i \in 1..EachDepth
      PROVE  FrameOK(eaches[i])'
  <2>1. eaches[i] \in EachFrame /\ FrameOK(eaches[i])
    BY <1>1, <1>3 DEF FrameInv
  <2>2. /\ eaches'[i].seen = eaches[i].seen
        /\ eaches'[i].left = eaches[i].left
        /\ eaches'[i].start = eaches[i].start
        /\ eaches'[i].world = eaches[i].world
        /\ eaches'[i].need = eaches[i].need
        /\ eaches'[i].kept
             = eaches[i].kept \cap Having(pools_', eaches[i].world, eaches[i].need)
    BY <1>2, <2>1 DEF EachFrame
  <2>3. QED
    BY <2>1, <2>2 DEF FrameOK
<1>7. QED
  BY <1>1, <1>2, <1>5, <1>6 DEF FrameInv

\* Leaving the innermost call keeps the others right.
LEMMA PopFrame ==
  ASSUME FrameInv, EachDepth > 0, eaches' = SubSeq(eaches, 1, EachDepth - 1),
         UNCHANGED pools_
  PROVE  FrameInv'
<1>1. eaches \in Seq(EachFrame) /\ EachDepth = Len(eaches) /\ EachDepth \in Nat
  BY DEF FrameInv, EachDepth
<1>2. /\ eaches' \in Seq(EachFrame)
      /\ Len(eaches') = EachDepth - 1
      /\ \A i \in 1..(EachDepth - 1) : eaches'[i] = eaches[i]
  BY <1>1
<1>3. QED
  BY <1>1, <1>2 DEF FrameInv, FrameOK

\* Changing the innermost call.
LEMMA ChangeTop ==
  ASSUME FrameInv, EachDepth > 0, NEW f \in EachFrame,
         eaches' = [eaches EXCEPT ![EachDepth] = f], UNCHANGED pools_, FrameOK(f)
  PROVE  FrameInv'
<1>1. eaches \in Seq(EachFrame) /\ EachDepth = Len(eaches) /\ EachDepth \in Nat
  BY DEF FrameInv, EachDepth
<1>2. /\ eaches' \in Seq(EachFrame)
      /\ Len(eaches') = EachDepth
      /\ \A i \in 1..EachDepth : eaches'[i] = IF i = EachDepth THEN f ELSE eaches[i]
  BY <1>1
<1>3. QED
  BY <1>1, <1>2 DEF FrameInv, FrameOK

-----------------------------------------------------------------------------
(* The operations on entities. *)

\* Create hands out a number that no pool has.
LEMMA CreateInv ==
  ASSUME EcsAssumption, IInv, NEW w \in Worlds, Create(w)
  PROVE  IInv'
<1>1. WorldInv /\ WorldTypes /\ FrameInv
  BY DEF IInv, WorldInv
<1>2. UNCHANGED <<pools_, erasers_, eaches, assigned>>
  BY DEF Create
<1>3. /\ next_id_' \in [Worlds -> 0..MaxIds]
      /\ \A v \in Worlds : next_id_[v] \in Nat /\ next_id_'[v] \in Nat
                           /\ next_id_[v] <= next_id_'[v]
  BY <1>1 DEF Create, WorldTypes, EcsAssumption
<1>4. FreshEntities'
  BY <1>1, <1>2, <1>3 DEF WorldInv, FreshEntities, Created
<1>5. WorldInv'
  BY <1>1, <1>2, <1>3, <1>4 DEF WorldInv, WorldTypes, PoolsHaveErasers, OwnErasers
<1>6. FrameInv'
  BY <1>1, <1>2, PoolsGrow
<1>7. QED
  BY <1>5, <1>6 DEF IInv

\* Add makes the pool if need be and puts an entity of the world into it.
LEMMA AddInv ==
  ASSUME EcsAssumption, IInv, NEW w \in Worlds, NEW e \in Ids, NEW T \in Types,
         Add(w, e, T)
  PROVE  IInv'
<1>1. WorldInv /\ WorldTypes /\ FrameInv /\ FreshEntities
  BY DEF IInv, WorldInv
<1>2. /\ e \in Created(w)
      /\ erasers_' = WithPools(w, {T})
      /\ pools_' = [pools_ EXCEPT ![w][T] = @ \cup {e}]
      /\ UNCHANGED <<next_id_, eaches, assigned>>
  BY DEF Add
<1>3. /\ pools_' \in [Worlds -> [Types -> SUBSET Ids]]
      /\ \A v \in Worlds, U \in Types :
           pools_'[v][U] = IF v = w /\ U = T THEN pools_[v][U] \cup {e} ELSE pools_[v][U]
  <2>1. pools_ \in [Worlds -> [Types -> SUBSET Ids]]
    BY <1>1 DEF WorldTypes
  <2>2. pools_' = [pools_ EXCEPT ![w] = [pools_[w] EXCEPT ![T] = pools_[w][T] \cup {e}]]
    BY <1>2
  <2>3. pools_[w][T] \cup {e} \in SUBSET Ids
    BY <2>1
  <2>4. QED
    BY <2>1, <2>2, <2>3
<1>4. FreshEntities'
  BY <1>1, <1>2, <1>3 DEF FreshEntities, Created
<1>5. {T} \in SUBSET Types
  OBVIOUS
<1>6. \A v \in Worlds, U \in Types :
        pools_'[v][U] \subseteq pools_[v][U] \/ (v = w /\ U \in {T})
  BY <1>3
<1>7. WorldInv'
  BY <1>1, <1>2, <1>3, <1>4, <1>5, <1>6, MakesPools
<1>8. FrameInv'
  BY <1>1, <1>2, <1>3, PoolsGrow
<1>9. QED
  BY <1>7, <1>8 DEF IInv

\* Get changes nothing but the pool it may make.
LEMMA GetInv ==
  ASSUME EcsAssumption, IInv, NEW w \in Worlds, NEW T \in Types, Get(w, T)
  PROVE  IInv'
<1>1. WorldInv /\ WorldTypes /\ FrameInv /\ FreshEntities
  BY DEF IInv, WorldInv
<1>2. erasers_' = WithPools(w, {T}) /\ UNCHANGED <<next_id_, pools_, eaches, assigned>>
  BY DEF Get
<1>3. {T} \in SUBSET Types /\ FreshEntities'
  BY <1>1, <1>2 DEF FreshEntities, Created
<1>4. pools_' \in [Worlds -> [Types -> SUBSET Ids]]
  BY <1>1, <1>2 DEF WorldTypes
<1>5. WorldInv'
  BY <1>1, <1>2, <1>3, <1>4, MakesPools
<1>6. FrameInv'
  BY <1>1, <1>2, PoolsGrow
<1>7. QED
  BY <1>5, <1>6 DEF IInv

\* Remove only shrinks a pool.
LEMMA RemoveInv ==
  ASSUME EcsAssumption, IInv, NEW w \in Worlds, NEW e \in Ids, NEW T \in Types,
         RemoveComponent(w, e, T)
  PROVE  IInv'
<1>1. WorldInv /\ WorldTypes /\ FrameInv /\ FreshEntities
  BY DEF IInv, WorldInv
<1>2. erasers_' = WithPools(w, {T}) /\ eaches' = StillKept(pools_')
        /\ UNCHANGED <<next_id_, assigned>>
  BY DEF RemoveComponent
<1>3. pools_' = [pools_ EXCEPT ![w] = [pools_[w] EXCEPT ![T] = pools_[w][T] \ {e}]]
  BY DEF RemoveComponent
<1>4. /\ pools_' \in [Worlds -> [Types -> SUBSET Ids]]
      /\ \A v \in Worlds, U \in Types : pools_'[v][U] \subseteq pools_[v][U]
  <2>1. pools_ \in [Worlds -> [Types -> SUBSET Ids]] /\ pools_[w][T] \ {e} \in SUBSET Ids
    BY <1>1 DEF WorldTypes
  <2>2. QED
    BY <1>3, <2>1
<1>5. {T} \in SUBSET Types /\ FreshEntities'
  BY <1>1, <1>2, <1>4 DEF FreshEntities, Created
<1>6. WorldInv'
  BY <1>1, <1>2, <1>4, <1>5, MakesPools
<1>7. FrameInv'
  BY <1>1, <1>2, PoolsRecorded
<1>8. QED
  BY <1>6, <1>7 DEF IInv

\* DestroyEntity only shrinks pools, and makes those that its erasers point to.
LEMMA DestroyInv ==
  ASSUME EcsAssumption, IInv, NEW w \in Worlds, NEW e \in Ids, DestroyEntity(w, e)
  PROVE  IInv'
<1>1. WorldInv /\ WorldTypes /\ FrameInv /\ FreshEntities /\ Nothing \notin Worlds
  BY DEF IInv, WorldInv, EcsAssumption
<1>2. /\ pools_' = Erased(w, e)
      /\ erasers_' = [v \in Worlds |-> [T \in Types |->
                        IF erasers_[w][T] = v THEN WithPools(v, {T})[v][T]
                        ELSE erasers_[v][T]]]
      /\ eaches' = StillKept(pools_')
      /\ UNCHANGED <<next_id_, assigned>>
  BY DEF DestroyEntity
<1>3. ASSUME NEW v \in Worlds, NEW T \in Types
      PROVE  WithPools(v, {T})[v][T] = IF erasers_[v][T] = Nothing THEN v ELSE erasers_[v][T]
  <2>1. {T} \in SUBSET Types /\ T \in {T}
    OBVIOUS
  <2>2. QED
    BY <1>1, <2>1, WithPoolsIs
<1>4. \A v \in Worlds, T \in Types :
        erasers_'[v][T] = IF erasers_[w][T] = v /\ erasers_[v][T] = Nothing
                          THEN v ELSE erasers_[v][T]
  BY <1>2, <1>3
<1>5. erasers_' \in [Worlds -> [Types -> Worlds \cup {Nothing}]]
  <2>1. ASSUME NEW v \in Worlds, NEW T \in Types
        PROVE  erasers_'[v][T] \in Worlds \cup {Nothing}
    BY <1>1, <1>4 DEF WorldTypes
  <2>2. \A v \in Worlds : erasers_'[v] = [T \in Types |-> erasers_'[v][T]]
    BY <1>2
  <2>3. erasers_' = [v \in Worlds |-> erasers_'[v]]
    BY <1>2
  <2>4. QED
    BY <2>1, <2>2, <2>3
<1>6. /\ pools_' \in [Worlds -> [Types -> SUBSET Ids]]
      /\ \A v \in Worlds, T \in Types : pools_'[v][T] \subseteq pools_[v][T]
  BY <1>1, <1>2 DEF WorldTypes, Erased
<1>7. WorldTypes'
  BY <1>1, <1>2, <1>5, <1>6 DEF WorldTypes
<1>8. PoolsHaveErasers'
  <2>1. SUFFICES ASSUME NEW v \in Worlds, NEW T \in Types, erasers_'[v][T] = Nothing
                 PROVE  pools_'[v][T] = {}
    BY DEF PoolsHaveErasers
  <2>2. erasers_[v][T] = Nothing
    BY <1>1, <1>4, <2>1
  <2>3. QED
    BY <1>1, <1>6, <2>2 DEF WorldInv, PoolsHaveErasers
<1>9. FreshEntities'
  BY <1>1, <1>2, <1>6 DEF FreshEntities, Created
<1>10. OwnErasers'
  <2>1. SUFFICES ASSUME NEW v \in Worlds \ assigned, NEW T \in Types
                 PROVE  erasers_'[v][T] = Nothing \/ erasers_'[v][T] = v
    BY <1>2 DEF OwnErasers
  <2>2. erasers_[v][T] = Nothing \/ erasers_[v][T] = v
    BY <1>1 DEF WorldInv, OwnErasers
  <2>3. QED
    BY <1>4, <2>2
<1>11. FrameInv'
  BY <1>1, <1>2, PoolsRecorded
<1>12. QED
  BY <1>7, <1>8, <1>9, <1>10, <1>11 DEF IInv, WorldInv

-----------------------------------------------------------------------------
(* The assignments of worlds. *)

\* A copied world is filled, and recorded as assigned.
LEMMA CopyInv ==
  ASSUME IInv, NEW w \in Worlds, NEW v \in Worlds, CopyWorld(w, v)
  PROVE  IInv'
<1>. USE DEF CopyWorld
<1>0. WorldInv /\ WorldTypes /\ FrameInv
  BY DEF IInv, WorldInv
<1>1. /\ next_id_' \in [Worlds -> 0..MaxIds]
      /\ \A u \in Worlds : next_id_'[u] = IF u = v THEN next_id_[w] ELSE next_id_[u]
  BY <1>0 DEF WorldTypes
<1>2. /\ pools_' \in [Worlds -> [Types -> SUBSET Ids]]
      /\ \A u \in Worlds : pools_'[u] = IF u = v THEN pools_[w] ELSE pools_[u]
  BY <1>0 DEF WorldTypes
<1>3. /\ erasers_' \in [Worlds -> [Types -> Worlds \cup {Nothing}]]
      /\ \A u \in Worlds : erasers_'[u] = IF u = v THEN erasers_[w] ELSE erasers_[u]
  BY <1>0 DEF WorldTypes
<1>4. assigned' = assigned \cup {v}
  OBVIOUS
<1>5. WorldTypes'
  BY <1>0, <1>1, <1>2, <1>3, <1>4 DEF WorldTypes
<1>6. FreshEntities'
  BY <1>0, <1>1, <1>2 DEF WorldInv, FreshEntities, Created
<1>7. PoolsHaveErasers'
  BY <1>0, <1>2, <1>3 DEF WorldInv, PoolsHaveErasers
<1>8. OwnErasers'
  BY <1>0, <1>3, <1>4 DEF WorldInv, OwnErasers
<1>9. FrameInv'
  BY <1>0, <1>2, PoolsGrow
<1>10. QED
  BY <1>5, <1>6, <1>7, <1>8, <1>9 DEF IInv, WorldInv

\* A moved world is emptied, and has no erasers.
LEMMA MoveInv ==
  ASSUME IInv, NEW w \in Worlds, NEW v \in Worlds, MoveWorld(w, v)
  PROVE  IInv'
<1>. USE DEF MoveWorld
<1>0. WorldInv /\ WorldTypes /\ FrameInv
  BY DEF IInv, WorldInv
<1>1. /\ next_id_' \in [Worlds -> 0..MaxIds]
      /\ \A u \in Worlds : next_id_'[u] = IF u = v THEN next_id_[w] ELSE next_id_[u]
  BY <1>0 DEF WorldTypes
<1>2. /\ pools_' \in [Worlds -> [Types -> SUBSET Ids]]
      /\ \A u \in Worlds : u \notin {v, w} => pools_'[u] = pools_[u]
      /\ pools_'[v] = pools_[w]
      /\ \A T \in Types : pools_'[w][T] = {}
  BY <1>0 DEF WorldTypes
<1>3. /\ erasers_' \in [Worlds -> [Types -> Worlds \cup {Nothing}]]
      /\ \A u \in Worlds : u \notin {v, w} => erasers_'[u] = erasers_[u]
      /\ erasers_'[v] = erasers_[w]
      /\ \A T \in Types : erasers_'[w][T] = Nothing
  BY <1>0 DEF WorldTypes
<1>4. assigned' = assigned \cup {v}
  OBVIOUS
<1>5. WorldTypes'
  BY <1>0, <1>1, <1>2, <1>3, <1>4 DEF WorldTypes
<1>6. FreshEntities'
  BY <1>0, <1>1, <1>2 DEF WorldInv, FreshEntities, Created
<1>7. PoolsHaveErasers'
  BY <1>0, <1>2, <1>3 DEF WorldInv, PoolsHaveErasers
<1>8. OwnErasers'
  BY <1>0, <1>3, <1>4 DEF WorldInv, OwnErasers
<1>9. FrameInv'
  BY <1>0, <1>2, PoolsGrow
<1>10. QED
  BY <1>5, <1>6, <1>7, <1>8, <1>9 DEF IInv, WorldInv

-----------------------------------------------------------------------------
(* The steps of each. *)

\* each begins with a snapshot of its driving pool.
LEMMA EachBeginInv ==
  ASSUME EcsAssumption, IInv, NEW w \in Worlds, NEW T \in Types,
         NEW Ts \in SUBSET Types, EachBegin(w, T, Ts)
  PROVE  IInv'
<1>. DEFINE f == [world |-> w, first |-> T, need |-> Ts \cup {T}, left |-> pools_[w][T],
                  cur |-> Nothing, start |-> next_id_[w], seen |-> {},
                  kept |-> Having(pools_, w, Ts \cup {T})]
<1>1. WorldInv /\ WorldTypes /\ FrameInv /\ FreshEntities
  BY DEF IInv, WorldInv
<1>2. /\ erasers_' = WithPools(w, {T})
      /\ eaches' = Append(eaches, f)
      /\ UNCHANGED <<next_id_, pools_, assigned>>
  BY DEF EachBegin
<1>3. WorldInv'
  <2>1. {T} \in SUBSET Types /\ FreshEntities'
    BY <1>1, <1>2 DEF FreshEntities, Created
  <2>2. pools_' \in [Worlds -> [Types -> SUBSET Ids]]
    BY <1>1, <1>2 DEF WorldTypes
  <2>3. QED
    BY <1>1, <1>2, <2>1, <2>2, MakesPools
<1>4. pools_[w][T] \in SUBSET Ids /\ next_id_[w] \in Nat
  BY <1>1 DEF WorldTypes, EcsAssumption
<1>5. Having(pools_, w, Ts \cup {T}) \subseteq pools_[w][T]
  BY DEF Having
<1>6. f \in EachFrame
  BY <1>4, <1>5 DEF EachFrame
<1>7. FrameOK(f)
  <2>1. \A e \in pools_[w][T] : e < next_id_[w]
    BY <1>1, <1>4 DEF FreshEntities, Created
  <2>2. QED
    BY <1>5, <2>1 DEF FrameOK
<1>. HIDE DEF f
<1>8. FrameInv'
  <2>1. eaches \in Seq(EachFrame) /\ Len(eaches) \in Nat
    BY <1>1 DEF FrameInv
  <2>2. /\ eaches' \in Seq(EachFrame)
        /\ Len(eaches') = Len(eaches) + 1
        /\ \A i \in 1..Len(eaches') :
             eaches'[i] = IF i = Len(eaches) + 1 THEN f ELSE eaches[i]
    BY <1>2, <1>6, <2>1
  <2>3. QED
    BY <1>1, <1>2, <1>7, <2>1, <2>2 DEF FrameInv, FrameOK
<1>9. QED
  BY <1>3, <1>8 DEF IInv

\* The innermost call and what it needs.
LEMMA TopIs ==
  ASSUME IInv, EachDepth > 0
  PROVE  /\ eaches \in Seq(EachFrame) /\ EachDepth = Len(eaches) /\ EachDepth \in 1..Len(eaches)
         /\ TopEach \in EachFrame /\ FrameOK(TopEach) /\ TopEach = eaches[EachDepth]
BY DEF IInv, FrameInv, EachDepth, TopEach

\* try_get_all only makes pools.
LEMMA LookupInv ==
  ASSUME EcsAssumption, IInv, EachDepth > 0, erasers_' = WithPools(TopEach.world, TopEach.need),
         UNCHANGED <<next_id_, pools_, assigned>>
  PROVE  WorldInv'
<1>1. WorldInv /\ WorldTypes /\ FreshEntities
  BY DEF IInv, WorldInv
<1>2. TopEach.world \in Worlds /\ TopEach.need \in SUBSET Types
  BY TopIs DEF EachFrame
<1>3. FreshEntities'
  BY <1>1 DEF FreshEntities, Created
<1>4. pools_' \in [Worlds -> [Types -> SUBSET Ids]]
  BY <1>1 DEF WorldTypes
<1>5. QED
  BY <1>1, <1>2, <1>3, <1>4, MakesPools

\* The callback runs for an entity of the snapshot.
LEMMA EachCallsInv ==
  ASSUME EcsAssumption, IInv, NEW e \in Ids, EachCalls(e)
  PROVE  IInv'
<1>. DEFINE f == [TopEach EXCEPT !.left = @ \ {e}, !.cur = e, !.seen = @ \cup {e}]
<1>1. /\ EachDepth > 0
      /\ e \in TopEach.left
      /\ erasers_' = WithPools(TopEach.world, TopEach.need)
      /\ UNCHANGED <<next_id_, pools_, assigned>>
  BY DEF EachCalls, InEach, Left
<1>2. /\ EachDepth \in 1..Len(eaches) /\ eaches \in Seq(EachFrame)
      /\ TopEach \in EachFrame /\ FrameOK(TopEach) /\ TopEach = eaches[EachDepth]
  BY <1>1, TopIs
<1>3. eaches' = [eaches EXCEPT ![EachDepth] = f]
  BY <1>2 DEF EachCalls, EachFrame
<1>4. f \in EachFrame
  BY <1>2 DEF EachFrame
<1>5. FrameOK(f)
  <2>1. /\ f.left = TopEach.left \ {e} /\ f.seen = TopEach.seen \cup {e}
        /\ f.start = TopEach.start /\ f.kept = TopEach.kept
        /\ f.world = TopEach.world /\ f.need = TopEach.need
    BY <1>2 DEF EachFrame
  <2>2. QED
    BY <1>1, <1>2, <2>1 DEF FrameOK
<1>. HIDE DEF f
<1>6. FrameInv'
  BY <1>1, <1>3, <1>4, <1>5, ChangeTop DEF IInv
<1>7. QED
  BY <1>1, <1>6, LookupInv DEF IInv

\* An entity that lacks a component has not kept them all.
LEMMA EachSkipsInv ==
  ASSUME EcsAssumption, IInv, NEW e \in Ids, EachSkips(e)
  PROVE  IInv'
<1>. DEFINE f == [TopEach EXCEPT !.left = @ \ {e}]
<1>1. /\ EachDepth > 0
      /\ e \notin Having(pools_, TopEach.world, TopEach.need)
      /\ erasers_' = WithPools(TopEach.world, TopEach.need)
      /\ UNCHANGED <<next_id_, pools_, assigned>>
  BY DEF EachSkips, InEach
<1>2. /\ EachDepth \in 1..Len(eaches) /\ eaches \in Seq(EachFrame)
      /\ TopEach \in EachFrame /\ FrameOK(TopEach) /\ TopEach = eaches[EachDepth]
  BY <1>1, TopIs
<1>3. eaches' = [eaches EXCEPT ![EachDepth] = f]
  BY <1>2 DEF EachSkips, EachFrame
<1>4. f \in EachFrame
  BY <1>2 DEF EachFrame
<1>5. FrameOK(f)
  <2>1. /\ f.left = TopEach.left \ {e} /\ f.seen = TopEach.seen
        /\ f.start = TopEach.start /\ f.kept = TopEach.kept
        /\ f.world = TopEach.world /\ f.need = TopEach.need
    BY <1>2 DEF EachFrame
  <2>2. QED
    BY <1>1, <1>2, <2>1 DEF FrameOK
<1>. HIDE DEF f
<1>6. FrameInv'
  BY <1>1, <1>3, <1>4, <1>5, ChangeTop DEF IInv
<1>7. QED
  BY <1>1, <1>6, LookupInv DEF IInv

\* The loop goes on when the callback returns.
LEMMA CallbackReturnsInv ==
  ASSUME IInv, CallbackReturns
  PROVE  IInv'
<1>. DEFINE f == [TopEach EXCEPT !.cur = Nothing]
<1>1. EachDepth > 0 /\ UNCHANGED <<next_id_, pools_, erasers_, assigned>>
  BY DEF CallbackReturns
<1>2. /\ EachDepth \in 1..Len(eaches) /\ eaches \in Seq(EachFrame)
      /\ TopEach \in EachFrame /\ FrameOK(TopEach) /\ TopEach = eaches[EachDepth]
  BY <1>1, TopIs
<1>3. eaches' = [eaches EXCEPT ![EachDepth] = f]
  BY <1>2 DEF CallbackReturns, EachFrame
<1>4. f \in EachFrame /\ FrameOK(f)
  BY <1>2 DEF EachFrame, FrameOK
<1>. HIDE DEF f
<1>5. FrameInv'
  BY <1>1, <1>3, <1>4, ChangeTop DEF IInv
<1>6. WorldInv'
  BY <1>1 DEF IInv, WorldInv, WorldTypes, PoolsHaveErasers, FreshEntities, Created,
              OwnErasers
<1>7. QED
  BY <1>5, <1>6 DEF IInv

\* each ends, by itself or by an exception.
LEMMA EachEndsInv ==
  ASSUME IInv, EachEnd \/ CallbackThrows
  PROVE  IInv'
<1>1. /\ EachDepth > 0
      /\ eaches' = SubSeq(eaches, 1, EachDepth - 1)
      /\ UNCHANGED <<next_id_, pools_, erasers_, assigned>>
  BY DEF EachEnd, CallbackThrows, InEach
<1>2. FrameInv'
  BY <1>1, PopFrame DEF IInv
<1>3. WorldInv'
  BY <1>1 DEF IInv, WorldInv, WorldTypes, PoolsHaveErasers, FreshEntities, Created,
              OwnErasers
<1>4. QED
  BY <1>2, <1>3 DEF IInv

\* A stuttering step.
LEMMA StutterInv == ASSUME IInv, UNCHANGED ecsVars PROVE IInv'
BY DEF ecsVars, IInv, WorldInv, WorldTypes, PoolsHaveErasers, FreshEntities, Created,
       OwnErasers, FrameInv, FrameOK

\* Every step preserves the invariant.
LEMMA InvStep == ASSUME EcsAssumption, IInv, [EcsNext]_ecsVars PROVE IInv'
<1>1. ASSUME NEW w \in Worlds, EntityStep(w) PROVE IInv'
  BY <1>1, CreateInv, AddInv, GetInv, RemoveInv, DestroyInv DEF EntityStep
<1>2. ASSUME NEW w \in Worlds, NEW v \in Worlds, CopyWorld(w, v) \/ MoveWorld(w, v)
      PROVE  IInv'
  BY <1>2, CopyInv, MoveInv
<1>3. ASSUME EachStep PROVE IInv'
  BY <1>3, EachBeginInv, EachCallsInv, EachSkipsInv, CallbackReturnsInv, EachEndsInv
     DEF EachStep
<1>4. QED
  BY <1>1, <1>2, <1>3, StutterInv DEF EcsNext

-----------------------------------------------------------------------------
(* The theorems. *)

\* The inductive invariant.
THEOREM EcsInvariant == EcsSpec => []IInv
<1>1. EcsInit => IInv
  BY EcsAssumption, InvInit
<1>2. IInv /\ [EcsNext]_ecsVars => IInv'
  BY EcsAssumption, InvStep
<1>3. QED
  BY <1>1, <1>2, PTL DEF EcsSpec

\* EcsTypeOK: the types of the state, and no pool without its eraser.
THEOREM EcsTypes == EcsSpec => []EcsTypeOK
<1>1. IInv => EcsTypeOK
  BY DEF IInv, WorldInv, WorldTypes, PoolsHaveErasers, FrameInv, EcsTypeOK
<1>2. QED
  BY <1>1, EcsInvariant, PTL

\* FreshEntities: create returns a number that no pool holds.
THEOREM EcsFresh == EcsSpec => []FreshEntities
<1>1. IInv => FreshEntities
  BY DEF IInv, WorldInv
<1>2. QED
  BY <1>1, EcsInvariant, PTL

(* EachExact: whatever callbacks do, each calls for no entity that came later
   and passes over none that has had all the components throughout. *)
THEOREM EcsEachExact == EcsSpec => []EachExact
<1>1. IInv => EachExact
  BY DEF IInv, FrameInv, FrameOK, EachExact, EachDepth
<1>2. QED
  BY <1>1, EcsInvariant, PTL

(* DestroyExact: in a world that was not made from another, destroy removes
   every component of the entity and nothing else. *)
THEOREM EcsDestroyExact == EcsSpec => []DestroyExact
<1>1. ASSUME IInv PROVE DestroyExact
  <2>1. SUFFICES ASSUME NEW w \in Worlds \ assigned
                 PROVE  DestroysAll(w) /\ DestroysOnly(w)
    BY DEF DestroyExact
  <2>2. WorldTypes /\ PoolsHaveErasers
    BY <1>1 DEF IInv, WorldInv
  <2>3. \A T \in Types : \/ erasers_[w][T] = Nothing /\ pools_[w][T] = {}
                         \/ erasers_[w][T] = w
    BY <1>1, <2>2 DEF IInv, WorldInv, OwnErasers, PoolsHaveErasers
  <2>4. ASSUME NEW e PROVE \A T \in Types : Erased(w, e)[w][T] = pools_[w][T] \ {e}
    BY <2>2, <2>3 DEF Erased
  <2>5. ASSUME NEW e, NEW v \in Worlds \ {w} PROVE Erased(w, e)[v] = pools_[v]
    <3>1. \A T \in Types : erasers_[w][T] # v
      BY <2>3, EcsAssumption DEF EcsAssumption
    <3>2. Erased(w, e)[v] = [T \in Types |-> pools_[v][T]]
      BY <3>1 DEF Erased
    <3>3. QED
      BY <2>2, <3>2 DEF WorldTypes
  <2>6. DestroysAll(w)
    BY <2>4 DEF DestroysAll
  <2>7. DestroysOnly(w)
    BY <2>4, <2>5 DEF DestroysOnly
  <2>8. QED
    BY <2>6, <2>7
<1>2. QED
  BY <1>1, EcsInvariant, PTL
=============================================================================
