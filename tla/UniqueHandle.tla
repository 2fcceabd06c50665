---------------------------- MODULE UniqueHandle ----------------------------
(***************************************************************************)
(* memory::UniqueHandle, as UniqueFd: wrappers of file descriptors.  The   *)
(* system gives a number out again once it is closed, so whoever closes    *)
(* one twice, or keeps one that is closed, acts on somebody else's file.   *)
(***************************************************************************)
EXTENDS Integers

CONSTANTS
  Wrappers,    \* the places where a UniqueHandle can be
  Descriptors  \* the numbers that the system gives out

ASSUME HandleAssumption == Descriptors \subseteq Nat

VARIABLES
  wrappers,  \* the places that hold a UniqueHandle
  handle_,   \* per place
  raw,       \* the descriptors that the program has got to close itself
  files      \* the system: the open descriptors

handleVars == <<wrappers, handle_, raw, files>>

Invalid == -1

HandleTypeOK ==
  /\ wrappers \subseteq Wrappers
  /\ handle_ \in [Wrappers -> Descriptors \cup {Invalid}]
  /\ raw \subseteq Descriptors
  /\ files \subseteq Descriptors

HandleInit ==
  /\ wrappers = {}
  /\ handle_ = [w \in Wrappers |-> Invalid]
  /\ raw = {}
  /\ files = {}

\* open(), and close() by the program.
OpenRaw(d) ==
  /\ d \notin files
  /\ files' = files \cup {d}
  /\ raw' = raw \cup {d}
  /\ UNCHANGED <<wrappers, handle_>>

CloseRaw(d) ==
  /\ d \in raw
  /\ files' = files \ {d}
  /\ raw' = raw \ {d}
  /\ UNCHANGED <<wrappers, handle_>>

\* CloseFd: the system's descriptors after close(d), for none if Invalid.
Close(d) == files \ {d}

\* The handles after release() of w.
Released(f, w) == [f EXCEPT ![w] = Invalid]

\* By default, or around a descriptor of the program's.
ConstructHandle(w, d) ==
  /\ w \notin wrappers
  /\ d \in raw \cup {Invalid}
  /\ wrappers' = wrappers \cup {w}
  /\ handle_' = [handle_ EXCEPT ![w] = d]
  /\ raw' = raw \ {d}
  /\ UNCHANGED files

MoveConstructHandle(v, w) ==
  /\ v \in wrappers /\ w \notin wrappers
  /\ wrappers' = wrappers \cup {w}
  /\ handle_' = [Released(handle_, v) EXCEPT ![w] = handle_[v]]
  /\ UNCHANGED <<raw, files>>

\* Assigning a wrapper to itself does nothing.
MoveAssignHandle(v, w) ==
  /\ v \in wrappers /\ w \in wrappers \ {v}
  /\ handle_' = [Released(handle_, v) EXCEPT ![w] = handle_[v]]
  /\ files' = Close(handle_[w])
  /\ UNCHANGED <<wrappers, raw>>

\* The program takes the descriptor back.
Release(w) ==
  /\ w \in wrappers
  /\ handle_[w] # Invalid
  /\ raw' = raw \cup {handle_[w]}
  /\ handle_' = Released(handle_, w)
  /\ UNCHANGED <<wrappers, files>>

ResetHandle(w, d) ==
  /\ w \in wrappers
  /\ d \in raw \cup {Invalid}
  /\ files' = Close(handle_[w])
  /\ handle_' = [handle_ EXCEPT ![w] = d]
  /\ raw' = raw \ {d}
  /\ UNCHANGED wrappers

DestroyHandle(w) ==
  /\ w \in wrappers
  /\ files' = Close(handle_[w])
  /\ handle_' = [handle_ EXCEPT ![w] = Invalid]
  /\ wrappers' = wrappers \ {w}
  /\ UNCHANGED raw

HandleNext ==
  \/ \E d \in Descriptors : OpenRaw(d) \/ CloseRaw(d)
  \/ \E w \in Wrappers, d \in Descriptors \cup {Invalid} :
       ConstructHandle(w, d) \/ ResetHandle(w, d)
  \/ \E w \in Wrappers : Release(w) \/ DestroyHandle(w)
  \/ \E v, w \in Wrappers : MoveConstructHandle(v, w) \/ MoveAssignHandle(v, w)

HandleSpec == HandleInit /\ [][HandleNext]_handleVars

(* An open file has one owner, a wrapper or the program, and no wrapper holds
   a number that is closed: after any moves, releases and resets every file is
   closed by exactly one of them. *)
FilesOwnedOnce ==
  /\ files = raw \cup ({handle_[w] : w \in wrappers} \ {Invalid})
  /\ \A w \in wrappers : handle_[w] \notin raw
  /\ \A v, w \in wrappers : v # w /\ handle_[v] = handle_[w] => handle_[v] = Invalid
=============================================================================
