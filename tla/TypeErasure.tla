---------------------------- MODULE TypeErasure ----------------------------
(***************************************************************************)
(* patterns::Drawable and patterns::Function: variables that own an object *)
(* through a pointer, impl_, and copy it by its clone, which may throw     *)
(* while the new object is being constructed.  Calls may change the state  *)
(* of the object (a mutable callable).                                     *)
(***************************************************************************)
EXTENDS Naturals

CONSTANTS
  Variables,  \* the variables of the type-erased type
  Objects,    \* the addresses of objects; 0 is none of them
  MaxState    \* bound: how often the state of an object changes

ASSUME ErasureAssumption ==
  /\ Objects \subseteq Nat \ {0}
  /\ MaxState \in Nat \ {0}

VARIABLES
  impl_,  \* per variable, its object, 0 if it is empty
  state,  \* per object, its state, 0 if there is no object
  clone,  \* <<from, to, object>> while a clone is made for a variable, or <<>>
  value   \* history: per variable, the state it stands for, 0 if it is empty

erasureVars == <<impl_, state, clone, value>>

ErasureTypeOK ==
  /\ impl_ \in [Variables -> Objects \cup {0}]
  /\ state \in [Objects -> 0..MaxState]
  /\ clone \in {<<>>} \cup (Variables \X Variables \X Objects)
  /\ value \in [Variables -> 0..MaxState]

ErasureInit ==
  /\ impl_ = [v \in Variables |-> 0]
  /\ state = [o \in Objects |-> 0]
  /\ clone = <<>>
  /\ value = [v \in Variables |-> 0]

\* The objects' states once v points to the object o, of state s, instead.
Replace(v, o, s) ==
  [x \in Objects |-> IF x = o THEN s ELSE IF x = impl_[v] THEN 0 ELSE state[x]]

\* make_unique<Model>: the address of a new object.
New(o) == state[o] = 0

\* v is constructed from an object, or assigned one so constructed.
Wrap(v, o) ==
  /\ clone = <<>>
  /\ New(o)
  /\ impl_' = [impl_ EXCEPT ![v] = o]
  /\ state' = Replace(v, o, 1)
  /\ value' = [value EXCEPT ![v] = 1]
  /\ UNCHANGED clone

(* Mutant: the variable is emptied before the other one is cloned. *)
BeginCopyEmptied(u, v, o) ==
  /\ clone = <<>>
  /\ u # v
  /\ impl_[u] # 0
  /\ New(o)
  /\ clone' = <<u, v, o>>
  /\ impl_' = [impl_ EXCEPT ![v] = 0]
  /\ state' = Replace(v, o, state[impl_[u]])
  /\ UNCHANGED value

\* The object of u is copied into a new one, for v.
BeginCopy(u, v, o) ==
  /\ clone = <<>>
  /\ u # v
  /\ impl_[u] # 0
  /\ New(o)
  /\ clone' = <<u, v, o>>
  /\ state' = [state EXCEPT ![o] = state[impl_[u]]]
  /\ UNCHANGED <<impl_, value>>

\* The clone is assigned, and the object that v had is freed.
FinishCopy ==
  LET u == clone[1] v == clone[2] o == clone[3] IN
  /\ clone # <<>>
  /\ impl_' = [impl_ EXCEPT ![v] = o]
  /\ state' = Replace(v, o, state[o])
  /\ value' = [value EXCEPT ![v] = value[u]]
  /\ clone' = <<>>

\* The copy throws: make_unique frees the new object, and v has its own still.
CopyThrows ==
  /\ clone # <<>>
  /\ state' = [state EXCEPT ![clone[3]] = 0]
  /\ clone' = <<>>
  /\ UNCHANGED <<impl_, value>>

\* The end of v, or the assignment of an empty variable to it.
Empty(v) ==
  /\ clone = <<>>
  /\ impl_' = [impl_ EXCEPT ![v] = 0]
  /\ state' = Replace(v, 0, 0)
  /\ value' = [value EXCEPT ![v] = 0]
  /\ UNCHANGED clone

Move(u, v) ==
  /\ clone = <<>>
  /\ u # v
  /\ impl_[u] # 0
  /\ impl_' = [impl_ EXCEPT ![v] = impl_[u], ![u] = 0]
  /\ state' = Replace(v, 0, 0)
  /\ value' = [value EXCEPT ![v] = value[u], ![u] = 0]
  /\ UNCHANGED clone

\* draw() or operator(); of an empty variable it throws.
Invoke(v) ==
  /\ clone = <<>>
  /\ impl_[v] # 0
  /\ state[impl_[v]] < MaxState
  /\ state' = [state EXCEPT ![impl_[v]] = @ + 1]
  /\ value' = [value EXCEPT ![v] = @ + 1]
  /\ UNCHANGED <<impl_, clone>>

ErasureNext ==
  \/ FinishCopy \/ CopyThrows
  \/ \E v \in Variables : Empty(v) \/ Invoke(v) \/ \E o \in Objects : Wrap(v, o)
  \/ \E u, v \in Variables : Move(u, v) \/ \E o \in Objects : BeginCopy(u, v, o)

ErasureSpec == ErasureInit /\ [][ErasureNext]_erasureVars

(* Value semantics: after any copies, moves, assignments and failures each
   variable stands for a state of its own that nobody else changes or frees,
   also while a copy for it is made and when that throws; and no object is left
   to nobody. *)
ValueSemantics ==
  /\ \A v \in Variables : value[v] = IF impl_[v] = 0 THEN 0 ELSE state[impl_[v]]
  /\ \A u, v \in Variables : u # v /\ impl_[u] = impl_[v] => impl_[u] = 0
  /\ \A o \in Objects :
       state[o] # 0 =>
         (clone # <<>> /\ o = clone[3]) \/ \E v \in Variables : impl_[v] = o
=============================================================================
