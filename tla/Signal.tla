------------------------------- MODULE Signal -------------------------------
(***************************************************************************)
(* patterns::Signal with its Connection and ScopedConnection handles.      *)
(*                                                                         *)
(* A slot is listed with a weak pointer to its sentinel; the handles hold  *)
(* the sentinel, and so does an emit while it runs the slot (`pin`).  The  *)
(* mutex guards the list only: emit copies it, releases the mutex, and     *)
(* calls the slots, whose bodies may use the signal again.  No critical    *)
(* section can block, so each is one step.                                 *)
(***************************************************************************)
EXTENDS Naturals, Sequences, FiniteSets, Functions

CONSTANTS
  Threads,      \* the threads that call emit
  SlotHandles,  \* the places where a Connection or a ScopedConnection can be
  Scoped,       \* those of them that are ScopedConnections
  NoSlot,       \* a handle that holds no sentinel
  MaxSlots,     \* bound: how many slots are ever connected
  MaxEmits,     \* bound: how many emits are ever begun
  MaxNesting    \* bound: how deep emits nest in slot bodies

ASSUME SignalAssumption ==
  /\ IsFiniteSet(Threads) /\ IsFiniteSet(SlotHandles)
  /\ Scoped \subseteq SlotHandles
  /\ {MaxSlots, MaxEmits, MaxNesting} \subseteq Nat
  /\ NoSlot \notin Nat

VARIABLES
  slots_,  \* the list, of slots numbered in the order of their connect
  handle,  \* the slot whose sentinel each handle holds
  frames,  \* per thread, the emits it is inside of, innermost last
  made,    \* how many slots were connected
  emits    \* how many emits were begun

signalVars == <<slots_, handle, frames, made, emits>>

Slots == 1..MaxSlots

(* An emit: its copy of the list, the position it has reached, whether it is
   running the slot there, and the history of the slots it has run. *)
Frame == [snapshot : Seq(Slots), at : Nat \ {0}, pin : BOOLEAN,
          called : Seq(Slots)]

SignalTypeOK ==
  /\ slots_ \in Seq(Slots)
  /\ handle \in [SlotHandles -> Slots \cup {NoSlot}]
  /\ frames \in [Threads -> Seq(Frame)]
  /\ made \in 0..MaxSlots
  /\ emits \in 0..MaxEmits

SignalInit ==
  /\ slots_ = <<>>
  /\ handle = [h \in SlotHandles |-> NoSlot]
  /\ frames = [t \in Threads |-> <<>>]
  /\ made = 0
  /\ emits = 0

Depth(t) == Len(frames[t])

Top(t) == frames[t][Depth(t)]

(* Mutant: emit walks the list itself instead of its copy. *)
ListItself(f) == slots_

Listed(f) == f.snapshot

RunningSlot(f) == Listed(f)[f.at]

\* The slots that some handle or some emit keeps alive.
Connected == {handle[h] : h \in SlotHandles} \ {NoSlot}

Pinned ==
  UNION {{RunningSlot(frames[t][d]) : d \in {e \in 1..Depth(t) : frames[t][e].pin}}
         : t \in Threads}

\* ! sentinel.expired()
Live(s) == s \in Connected \cup Pinned

\* A thread runs the program's own code outside every emit and in slot bodies.
MayCall(t) == Depth(t) > 0 => Top(t).pin

SomeoneMayCall == \E t \in Threads : MayCall(t)

-----------------------------------------------------------------------------
(* SlotHandles. *)

Connect(h) ==
  /\ SomeoneMayCall
  /\ handle[h] = NoSlot
  /\ made < MaxSlots
  /\ made' = made + 1
  /\ slots_' = Append(slots_, made + 1)
  /\ handle' = [handle EXCEPT ![h] = made + 1]
  /\ UNCHANGED <<frames, emits>>

\* A Connection is copied, into a Connection or into a new ScopedConnection.
CopyHandle(g, h) ==
  /\ SomeoneMayCall
  /\ handle[g] # NoSlot
  /\ g \notin Scoped
  /\ h \in Scoped => handle[h] = NoSlot
  /\ handle' = [handle EXCEPT ![h] = handle[g]]
  /\ UNCHANGED <<slots_, frames, made, emits>>

\* A handle is moved; what the other held is let go.
MoveHandle(g, h) ==
  /\ SomeoneMayCall
  /\ handle[g] # NoSlot
  /\ g # h
  /\ g \in Scoped => h \in Scoped
  /\ g \notin Scoped /\ h \in Scoped => handle[h] = NoSlot
  /\ handle' = [handle EXCEPT ![h] = handle[g], ![g] = NoSlot]
  /\ UNCHANGED <<slots_, frames, made, emits>>

\* disconnect(), or the end of the handle.
Drop(h) ==
  /\ SomeoneMayCall
  /\ handle[h] # NoSlot
  /\ handle' = [handle EXCEPT ![h] = NoSlot]
  /\ UNCHANGED <<slots_, frames, made, emits>>

-----------------------------------------------------------------------------
(* emit. *)

\* The elements of the list that are in `alive`, in the order of the list.
Kept(list, alive) ==
  LET kept[n \in 0..Len(list)] ==
        IF n = 0 THEN <<>>
        ELSE IF list[n] \in alive THEN Append(kept[n - 1], list[n])
             ELSE kept[n - 1]
  IN  kept[Len(list)]

(* Mutant: only the slots that an emit is running are kept. *)
PrunePinned(list) == Kept(list, Pinned)

Prune(list) == Kept(list, Connected \cup Pinned)

(* Mutant: the loop starts one position early. *)
FirstFrameEarly(list) ==
  [snapshot |-> list, at |-> 0, pin |-> FALSE, called |-> <<>>]

FirstFrame(list) ==
  [snapshot |-> list, at |-> 1, pin |-> FALSE, called |-> <<>>]

EmitBegin(t) ==
  /\ MayCall(t)
  /\ Depth(t) < MaxNesting
  /\ emits < MaxEmits
  /\ emits' = emits + 1
  /\ slots_' = Prune(slots_)
  /\ frames' = [frames EXCEPT ![t] = Append(@, FirstFrame(Prune(slots_)))]
  /\ UNCHANGED <<handle, made>>

InLoop(t) == Depth(t) > 0 /\ ~Top(t).pin /\ Top(t).at <= Len(Listed(Top(t)))

(* Mutant: the slot is called without a look at its sentinel. *)
CallUnchecked(t) ==
  /\ InLoop(t)
  /\ frames' = [frames EXCEPT ![t][Depth(t)].pin = TRUE,
                              ![t][Depth(t)].called = Append(@, RunningSlot(Top(t)))]
  /\ UNCHANGED <<slots_, handle, made, emits>>

CallSlot(t) ==
  /\ InLoop(t)
  /\ Live(RunningSlot(Top(t)))
  /\ frames' = [frames EXCEPT ![t][Depth(t)].pin = TRUE,
                              ![t][Depth(t)].called = Append(@, RunningSlot(Top(t)))]
  /\ UNCHANGED <<slots_, handle, made, emits>>

Skip(t) ==
  /\ InLoop(t)
  /\ ~Live(RunningSlot(Top(t)))
  /\ frames' = [frames EXCEPT ![t][Depth(t)].at = @ + 1]
  /\ UNCHANGED <<slots_, handle, made, emits>>

SlotReturns(t) ==
  /\ Depth(t) > 0
  /\ Top(t).pin
  /\ frames' = [frames EXCEPT ![t][Depth(t)].pin = FALSE,
                              ![t][Depth(t)].at = @ + 1]
  /\ UNCHANGED <<slots_, handle, made, emits>>

\* The exception leaves emit; a slot around it may catch it or throw in turn.
SlotThrows(t) ==
  /\ Depth(t) > 0
  /\ Top(t).pin
  /\ frames' = [frames EXCEPT ![t] = SubSeq(@, 1, Depth(t) - 1)]
  /\ UNCHANGED <<slots_, handle, made, emits>>

EmitEnd(t) ==
  /\ Depth(t) > 0
  /\ ~Top(t).pin
  /\ Top(t).at > Len(Listed(Top(t)))
  /\ frames' = [frames EXCEPT ![t] = SubSeq(@, 1, Depth(t) - 1)]
  /\ UNCHANGED <<slots_, handle, made, emits>>

\* size()
SignalSize == Cardinality({i \in 1..Len(slots_) : Live(slots_[i])})

-----------------------------------------------------------------------------
HandleStep ==
  \/ \E h \in SlotHandles : Connect(h) \/ Drop(h)
  \/ \E g, h \in SlotHandles : CopyHandle(g, h) \/ MoveHandle(g, h)

EmitStep(t) == CallSlot(t) \/ Skip(t) \/ SlotReturns(t) \/ EmitEnd(t)

SignalNext ==
  \/ HandleStep
  \/ \E t \in Threads : EmitBegin(t) \/ EmitStep(t) \/ SlotThrows(t)

SignalSpec == SignalInit /\ [][SignalNext]_signalVars

-----------------------------------------------------------------------------
AllFrames == UNION {Range(frames[t]) : t \in Threads}

Ascending(list) == \A i, j \in 1..Len(list) : i < j => list[i] < list[j]

(* size() outside every emit is the number of connections, however many
   handles share one and however many dead slots are still listed. *)
SizeIsConnections ==
  (\A t \in Threads : Depth(t) = 0) => SignalSize = Cardinality(Connected)

(* "invokes all live slots": an emit runs, in the order of connecting and at
   most once each, slots that were connected when it began, and it has passed
   over none that still has a handle, whatever slot bodies and other threads
   connect, disconnect or emit meanwhile. *)
EmitExact ==
  \A f \in AllFrames :
    /\ Ascending(f.called)
    /\ Range(f.called) \subseteq Range(f.snapshot)
    /\ \A i \in 1..Len(f.snapshot) :
         i < f.at /\ f.snapshot[i] \in Connected => f.snapshot[i] \in Range(f.called)

(* A slot that no handle and no emit keeps alive is never run again, by no
   snapshot however old. *)
DeadStaysDead == [][\A s \in 1..made : ~Live(s) => ~Live(s)']_signalVars
=============================================================================
