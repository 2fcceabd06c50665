------------------------------ MODULE SpscQueue ------------------------------
(***************************************************************************)
(* concurrency::SpscQueue: a ring of Cap slots, an index head_ that only   *)
(* the producer stores and an index tail_ that only the consumer stores.   *)
(*                                                                         *)
(* An atomic is modelled by its modification order, the sequence of the    *)
(* values ever stored in it.  A thread that loads an atomic gets any entry *)
(* not older than the last one it saw; the thread that stores it gets the  *)
(* last.  An acquire load of a release store also orders everything the    *)
(* storing thread did before: so seenHead and seenTail tell, at once, what *)
(* a thread may still read and which slot accesses happen before its own.  *)
(*                                                                         *)
(* Accesses to a slot are steps of their own, between the load that allows *)
(* them and the store that hands the slot over.                            *)
(***************************************************************************)
EXTENDS Integers, Sequences

CONSTANTS
  Cap,           \* the template parameter, a std::size_t
  Values,        \* what may be pushed
  Blank,         \* a default-constructed or moved-from element
  MaxPushes,     \* bound: how many pushes are accepted
  EmptyCallers,  \* the threads that call empty()
  StaleLoads     \* whether a load may return an older value

\* static_assert((Cap & (Cap - 1)) == 0)
ASSUME SpscAssumption ==
  /\ Cap \in Nat
  /\ Cap = 0 \/ \E n \in 0..63 : Cap = 2^n
  /\ MaxPushes \in Nat
  /\ Blank \notin Values
  /\ EmptyCallers \subseteq {"producer", "consumer", "observer"}
  /\ StaleLoads \in BOOLEAN

VARIABLES
  headMO,    \* modification order of head_
  tailMO,    \* modification order of tail_
  buf_,      \* the ring
  seenHead,  \* per thread, the last entry of headMO it loaded
  seenTail,  \* per thread, the last entry of tailMO it loaded
  ppc, pval, \* the producer inside push, and its argument
  cpc, cval, \* the consumer inside pop, and the value it took
  emp,       \* per thread, where it is in empty() or what empty() returned
  loaded,    \* per thread, what its first load in empty() returned
  lastWrite, \* history: per slot, the entry of headMO that hands over its last write
  lastRead,  \* history: per slot, the entry of tailMO that hands over its last read
  pushed,    \* history: the values accepted by push
  popped,    \* history: the values returned by pop
  sawEmpty   \* history: the queue was empty during the observer's call of empty()

prodVars == <<headMO, ppc, pval, lastWrite, pushed>>
consVars == <<tailMO, cpc, cval, lastRead, popped>>
spscVars == <<prodVars, consVars, buf_, seenHead, seenTail, emp, loaded, sawEmpty>>

SpscThreads == {"producer", "consumer", "observer"}

Slots == 0..(Cap - 1)

\* i & kMask: with Cap = 0, kMask has all bits set.
Wrap(i) == IF Cap = 0 THEN i ELSE i % Cap

\* What head_ and tail_ hold: slots, unless there is none.
Indices == IF Cap = 0 THEN Nat ELSE Slots

AtomicTypes ==
  /\ headMO \in Seq(Indices) /\ headMO # <<>>
  /\ tailMO \in Seq(Indices) /\ tailMO # <<>>
  /\ seenHead \in [SpscThreads -> Nat \ {0}]
  /\ seenTail \in [SpscThreads -> Nat \ {0}]
  /\ \A t \in SpscThreads : seenHead[t] <= Len(headMO) /\ seenTail[t] <= Len(tailMO)

RingTypes ==
  /\ buf_ \in [Slots -> Values \cup {Blank}]
  /\ lastWrite \in [Slots -> Nat] /\ lastRead \in [Slots -> Nat]
  /\ pval \in Values \cup {Blank} /\ cval \in Values \cup {Blank}
  /\ pushed \in Seq(Values) /\ popped \in Seq(Values \cup {Blank})

ThreadTypes ==
  /\ ppc \in {"idle", "writing", "written"}
  /\ cpc \in {"idle", "reading", "read"}
  /\ emp \in [SpscThreads -> {"idle", "head", "tail", "true", "false"}]
  /\ loaded \in [SpscThreads -> Nat]
  /\ sawEmpty \in BOOLEAN

SpscTypeOK == AtomicTypes /\ RingTypes /\ ThreadTypes

SpscInit ==
  /\ headMO = <<0>> /\ tailMO = <<0>>
  /\ buf_ = [s \in Slots |-> Blank]
  /\ seenHead = [t \in SpscThreads |-> 1] /\ seenTail = [t \in SpscThreads |-> 1]
  /\ ppc = "idle" /\ pval = Blank
  /\ cpc = "idle" /\ cval = Blank
  /\ emp = [t \in SpscThreads |-> "idle"] /\ loaded = [t \in SpscThreads |-> 0]
  /\ lastWrite = [s \in Slots |-> 0] /\ lastRead = [s \in Slots |-> 0]
  /\ pushed = <<>> /\ popped = <<>>
  /\ sawEmpty = FALSE

\* Indices, in the modification order, of the values a load may return.
HeadLoads(t) ==
  IF StaleLoads /\ t # "producer" THEN seenHead[t]..Len(headMO) ELSE {Len(headMO)}

TailLoads(t) ==
  IF StaleLoads /\ t # "consumer" THEN seenTail[t]..Len(tailMO) ELSE {Len(tailMO)}

\* The queue as the modification orders have it.
Stored == Len(headMO) - Len(tailMO)

InEmpty(t) == emp[t] \in {"head", "tail"}

-----------------------------------------------------------------------------
(* push, by the producer. *)

head == headMO[Len(headMO)]

(* Mutants: a full ring is not recognised; the index is compared before it is
   stepped, so that an empty ring is taken for full. *)
NeverFull(k) == k = 0

FullIsEmpty(k) == head = tailMO[k]

Full(k) == Wrap(head + 1) = tailMO[k]

PushReady ==
  /\ ppc = "idle"
  /\ ~InEmpty("producer")
  /\ emp' = [emp EXCEPT !["producer"] = "idle"]

PushFull ==
  /\ PushReady
  /\ \E k \in TailLoads("producer") :
       /\ Full(k)
       /\ seenTail' = [seenTail EXCEPT !["producer"] = k]
  /\ UNCHANGED <<prodVars, consVars, buf_, seenHead, loaded, sawEmpty>>

(* Mutant: tail_ is loaded with memory_order_relaxed, which orders nothing. *)
PushBeginRelaxed(v) ==
  /\ PushReady
  /\ Len(headMO) <= MaxPushes
  /\ \E k \in TailLoads("producer") : ~Full(k)
  /\ ppc' = "writing"
  /\ pval' = v
  /\ lastWrite' = [lastWrite EXCEPT ![head] = Len(headMO) + 1]
  /\ UNCHANGED <<headMO, pushed, consVars, buf_, seenHead, seenTail, loaded,
                 sawEmpty>>

\* The slot is the producer's: it starts to copy or move the element into it.
PushBegin(v) ==
  /\ PushReady
  /\ Len(headMO) <= MaxPushes
  /\ \E k \in TailLoads("producer") :
       /\ ~Full(k)
       /\ seenTail' = [seenTail EXCEPT !["producer"] = k]
  /\ ppc' = "writing"
  /\ pval' = v
  /\ lastWrite' = [lastWrite EXCEPT ![head] = Len(headMO) + 1]
  /\ UNCHANGED <<headMO, pushed, consVars, buf_, seenHead, loaded, sawEmpty>>

PushWrite ==
  /\ ppc = "writing"
  /\ buf_' = [buf_ EXCEPT ![head] = pval]
  /\ ppc' = "written"
  /\ UNCHANGED <<headMO, pval, lastWrite, pushed, consVars, seenHead, seenTail,
                 emp, loaded, sawEmpty>>

(* The assignment of the element throws: push ends without a store to head_
   and leaves the element in whatever state the assignment left it. *)
PushThrows ==
  /\ ppc = "writing"
  /\ \E x \in Values \cup {Blank} : buf_' = [buf_ EXCEPT ![head] = x]
  /\ ppc' = "idle"
  /\ pval' = Blank
  /\ UNCHANGED <<headMO, lastWrite, pushed, consVars, seenHead, seenTail, emp,
                 loaded, sawEmpty>>

PushPublish ==
  /\ ppc = "written"
  /\ headMO' = Append(headMO, Wrap(head + 1))
  /\ seenHead' = [seenHead EXCEPT !["producer"] = Len(headMO) + 1]
  /\ pushed' = Append(pushed, pval)
  /\ ppc' = "idle"
  /\ pval' = Blank
  /\ UNCHANGED <<lastWrite, consVars, buf_, seenTail, emp, loaded, sawEmpty>>

-----------------------------------------------------------------------------
(* pop, by the consumer. *)

tail == tailMO[Len(tailMO)]

PopReady ==
  /\ cpc = "idle"
  /\ ~InEmpty("consumer")
  /\ emp' = [emp EXCEPT !["consumer"] = "idle"]

PopEmpty ==
  /\ PopReady
  /\ \E k \in HeadLoads("consumer") :
       /\ tail = headMO[k]
       /\ seenHead' = [seenHead EXCEPT !["consumer"] = k]
  /\ UNCHANGED <<prodVars, consVars, buf_, seenTail, loaded, sawEmpty>>

PopBegin ==
  /\ PopReady
  /\ \E k \in HeadLoads("consumer") :
       /\ tail # headMO[k]
       /\ seenHead' = [seenHead EXCEPT !["consumer"] = k]
  /\ cpc' = "reading"
  /\ lastRead' = [lastRead EXCEPT ![tail] = Len(tailMO) + 1]
  /\ UNCHANGED <<prodVars, tailMO, cval, popped, buf_, seenTail, loaded, sawEmpty>>

\* T val = std::move(buf_[tail])
PopRead ==
  /\ cpc = "reading"
  /\ cval' = buf_[tail]
  /\ buf_' = [buf_ EXCEPT ![tail] = Blank]
  /\ cpc' = "read"
  /\ UNCHANGED <<prodVars, tailMO, lastRead, popped, seenHead, seenTail, emp,
                 loaded, sawEmpty>>

PopPublish ==
  /\ cpc = "read"
  /\ tailMO' = Append(tailMO, Wrap(tail + 1))
  /\ seenTail' = [seenTail EXCEPT !["consumer"] = Len(tailMO) + 1]
  /\ popped' = Append(popped, cval)
  /\ cpc' = "idle"
  /\ cval' = Blank
  /\ sawEmpty' = (sawEmpty \/ (InEmpty("observer") /\ Stored = 1))
  /\ UNCHANGED <<prodVars, lastRead, buf_, seenHead, emp, loaded>>

-----------------------------------------------------------------------------
(* empty, by any thread: two loads, which C++ may order either way. *)

MayCallEmpty(t) ==
  /\ t \in EmptyCallers
  /\ t = "producer" => ppc = "idle"
  /\ t = "consumer" => cpc = "idle"

EmptyFirstLoad(t) ==
  /\ MayCallEmpty(t)
  /\ ~InEmpty(t)
  /\ \/ \E k \in HeadLoads(t) :
          /\ seenHead' = [seenHead EXCEPT ![t] = k]
          /\ emp' = [emp EXCEPT ![t] = "head"]
          /\ loaded' = [loaded EXCEPT ![t] = headMO[k]]
          /\ UNCHANGED seenTail
     \/ \E k \in TailLoads(t) :
          /\ seenTail' = [seenTail EXCEPT ![t] = k]
          /\ emp' = [emp EXCEPT ![t] = "tail"]
          /\ loaded' = [loaded EXCEPT ![t] = tailMO[k]]
          /\ UNCHANGED seenHead
  /\ sawEmpty' = IF t = "observer" THEN Stored = 0 ELSE sawEmpty
  /\ UNCHANGED <<prodVars, consVars, buf_>>

(* Mutant: the comparison is inverted. *)
AnswerInverted(x, y) == IF x # y THEN "true" ELSE "false"

Answer(x, y) == IF x = y THEN "true" ELSE "false"

EmptySecondLoad(t) ==
  /\ \/ /\ emp[t] = "head"
        /\ \E k \in TailLoads(t) :
             /\ seenTail' = [seenTail EXCEPT ![t] = k]
             /\ emp' = [emp EXCEPT ![t] = Answer(loaded[t], tailMO[k])]
        /\ UNCHANGED seenHead
     \/ /\ emp[t] = "tail"
        /\ \E k \in HeadLoads(t) :
             /\ seenHead' = [seenHead EXCEPT ![t] = k]
             /\ emp' = [emp EXCEPT ![t] = Answer(loaded[t], headMO[k])]
        /\ UNCHANGED seenTail
  /\ loaded' = [loaded EXCEPT ![t] = 0]
  /\ UNCHANGED <<prodVars, consVars, buf_, sawEmpty>>

-----------------------------------------------------------------------------
Push == PushFull \/ PushWrite \/ PushThrows \/ PushPublish
          \/ \E v \in Values : PushBegin(v)

Pop == PopEmpty \/ PopBegin \/ PopRead \/ PopPublish

Empty == \E t \in SpscThreads : EmptyFirstLoad(t) \/ EmptySecondLoad(t)

SpscNext == Push \/ Pop \/ Empty

SpscSpec == SpscInit /\ [][SpscNext]_spscVars

(* A producer that retries push and a consumer that retries pop, as the
   cross-thread test does: a store becomes visible to the other thread after
   finitely many loads, and assignments of the element do not throw for ever. *)
SpscFairness ==
  /\ SF_spscVars(\E v \in Values : PushBegin(v))
  /\ SF_spscVars(PushWrite)
  /\ SF_spscVars(PushPublish)
  /\ SF_spscVars(PopBegin)
  /\ WF_spscVars(PopRead)
  /\ WF_spscVars(PopPublish)
  /\ \A t \in SpscThreads : WF_spscVars(EmptySecondLoad(t))

SpscFairSpec == SpscSpec /\ SpscFairness

-----------------------------------------------------------------------------
(* No torn or racing element: when the producer writes a slot, the consumer's
   last read of it happens before (its hand-over was acquired), and when the
   consumer reads a slot, the producer's last write of it happens before. *)
NoDataRace ==
  /\ ppc = "writing" => lastRead[head] <= seenTail["producer"]
  /\ cpc = "reading" => lastWrite[tail] <= seenHead["consumer"]

(* What pop has returned is, in order, what push has accepted. *)
Fifo ==
  /\ Len(popped) <= Len(pushed)
  /\ \A n \in 1..Len(popped) : popped[n] = pushed[n]

(* "the maximum number of stored elements is Cap - 1" *)
WithinCapacity == Stored \in 0..(Cap - 1)

(* What empty() tells the producer or the consumer may be relied on, however
   stale the other index was, until the caller itself pushes or pops: to the
   producer TRUE means empty, to the consumer FALSE means that pop succeeds. *)
EmptyIsUsable ==
  /\ emp["producer"] = "true" => Stored = 0
  /\ emp["consumer"] = "false" => Stored > 0

(* Hence a pop that follows empty() = FALSE in the consumer's thread finds an
   element: the load of head_ cannot go back. *)
PopAfterNonEmpty == [][PopEmpty => emp["consumer"] # "false"]_spscVars

(* The queue implements a bounded FIFO. *)
Ring == INSTANCE BoundedFifo WITH
           Elements <- Values, Bound <- Cap - 1,
           queue <- SubSeq(pushed, Len(popped) + 1, Len(pushed)), out <- popped

ImplementsFifo == Ring!QSpec

(* With both sides retrying, everything is transferred: the ring never
   wedges, neither full nor empty, however often the indices wrap. *)
AllTransferred == <>[](Len(popped) = MaxPushes)
=============================================================================
