-------------------------- MODULE SpscQueueProofs --------------------------
(***************************************************************************)
(* Theorems about SpscQueue, for every ring size that the static_assert    *)
(* means to allow (Cap # 0), every set of values and any number of pushes. *)
(***************************************************************************)
EXTENDS SpscQueue, SequenceTheorems, TLAPS

-----------------------------------------------------------------------------
(* Arithmetic modulo the size of the ring. *)

\* Division with remainder.
LEMMA DivMod ==
  ASSUME NEW c \in Nat \ {0}, NEW a \in Nat
  PROVE  /\ a = c * (a \div c) + (a % c)
         /\ a % c \in 0..(c - 1)
         /\ a \div c \in Nat
OBVIOUS

\* The remainder is unique.
LEMMA ModUnique ==
  ASSUME NEW c \in Nat \ {0}, NEW q \in Nat, NEW r \in 0..(c - 1)
  PROVE  (c * q + r) % c = r
OBVIOUS

\* A positive multiple is not smaller than the factor.
LEMMA MultipleBound ==
  ASSUME NEW c \in Nat \ {0}, NEW q \in Int, q >= 1
  PROVE  c * q >= c
OBVIOUS

\* Stepping a wrapped index is wrapping the stepped index.
LEMMA ModStep ==
  ASSUME NEW c \in Nat \ {0}, NEW a \in Nat
  PROVE  ((a % c) + 1) % c = (a + 1) % c
<1>. DEFINE q == a \div c
            r == a % c
<1>1. a = c * q + r /\ r \in 0..(c - 1) /\ q \in Nat
  BY DivMod
<1>. HIDE DEF q, r
<1>2. CASE r + 1 < c
  <2>1. a + 1 = c * q + (r + 1) /\ r + 1 \in 0..(c - 1)
    BY <1>1, <1>2
  <2>2. (a + 1) % c = r + 1
    BY <2>1, <1>1, ModUnique
  <2>3. (r + 1) % c = r + 1
    BY <2>1, ModUnique
  <2>. QED  BY <2>2, <2>3 DEF r
<1>3. CASE r + 1 = c
  <2>1. a + 1 = c * (q + 1) + 0 /\ q + 1 \in Nat /\ 0 \in 0..(c - 1)
    BY <1>1, <1>3
  <2>2. (a + 1) % c = 0
    BY <2>1, ModUnique
  <2>3. c = c * 1 + 0
    OBVIOUS
  <2>4. (r + 1) % c = 0
    BY <2>3, <2>1, <1>3, ModUnique
  <2>. QED  BY <2>2, <2>4 DEF r
<1>. QED  BY <1>1, <1>2, <1>3

\* Different counts that share a slot are a full ring apart.
LEMMA ModApart ==
  ASSUME NEW c \in Nat \ {0}, NEW a \in Nat, NEW b \in Nat,
         a < b, a % c = b % c
  PROVE  b - a >= c
<1>. DEFINE p == a \div c
            q == b \div c
            r == a % c
<1>1. /\ a = c * p + r /\ b = c * q + r
      /\ p \in Nat /\ q \in Nat /\ r \in 0..(c - 1)
  BY DivMod
<1>. HIDE DEF p, q, r
<1>2. b - a = c * (q - p)
  BY <1>1
<1>3. q - p >= 1
  <2>1. SUFFICES ASSUME q - p <= 0 PROVE FALSE
    BY <1>1
  <2>2. c * (p - q) >= 0
    BY <2>1, <1>1
  <2>. QED  BY <2>2, <1>1
<1>. QED  BY <1>1, <1>2, <1>3, MultipleBound

\* Different counts that are less than a ring apart do not share a slot.
LEMMA ModDiffer ==
  ASSUME NEW c \in Nat \ {0}, NEW a \in Nat, NEW b \in Nat,
         a < b, b - a < c
  PROVE  a % c # b % c
<1>1. SUFFICES ASSUME a % c = b % c PROVE FALSE
  OBVIOUS
<1>2. b - a >= c
  BY <1>1, ModApart
<1>. QED  BY <1>2

\* Counts a full ring apart share a slot.
LEMMA ModPeriod ==
  ASSUME NEW c \in Nat \ {0}, NEW a \in Nat
  PROVE  (a + c) % c = a % c
<1>. DEFINE q == a \div c
            r == a % c
<1>1. a = c * q + r /\ r \in 0..(c - 1) /\ q \in Nat
  BY DivMod
<1>. HIDE DEF q, r
<1>2. a + c = c * (q + 1) + r /\ q + 1 \in Nat
  BY <1>1
<1>3. (a + c) % c = r
  BY <1>1, <1>2, ModUnique
<1>. QED  BY <1>3 DEF r

-----------------------------------------------------------------------------
(* The inductive invariant, part by part.  The k-th entry of a modification
   order is the index of the slot of the k-th push or pop. *)

OrderInv ==
  /\ \A k \in 1..Len(headMO) : headMO[k] = (k - 1) % Cap
  /\ \A k \in 1..Len(tailMO) : tailMO[k] = (k - 1) % Cap

\* Each side is behind what it has seen of the other, and not by a full ring.
CountInv ==
  /\ Len(pushed) = Len(headMO) - 1
  /\ Len(popped) = Len(tailMO) - 1
  /\ Len(tailMO) <= seenHead["consumer"]
  /\ cpc # "idle" => Len(tailMO) < seenHead["consumer"]
  /\ Len(headMO) - seenTail["producer"] <= Cap - 1
  /\ ppc # "idle" => Len(headMO) + 1 - seenTail["producer"] <= Cap - 1

\* The slots between tail_ and head_ hold what was pushed and not popped.
DataInv ==
  /\ \A n \in Len(tailMO)..(Len(headMO) - 1) :
       /\ lastWrite[(n - 1) % Cap] = n + 1
       /\ buf_[(n - 1) % Cap] = pushed[n] \/ (n = Len(tailMO) /\ cpc = "read")
  /\ cpc = "read" => cval = pushed[Len(tailMO)]
  /\ ppc # "idle" => pval \in Values /\ lastWrite[head] = Len(headMO) + 1
  /\ ppc = "written" => buf_[head] = pval
  /\ \A n \in 1..Len(popped) : popped[n] = pushed[n]

\* The last read of a slot was made for the pop that its index belongs to.
ReadInv ==
  \A s \in Slots :
    \/ lastRead[s] = 0
    \/ /\ lastRead[s] >= 2
       /\ (lastRead[s] - 2) % Cap = s
       /\ lastRead[s] <= Len(tailMO) + (IF cpc = "idle" THEN 0 ELSE 1)

\* A thread inside empty() holds what it loaded; nothing it did itself
\* intervenes before the second load, nor before the answer is used.
EmptyInv ==
  /\ ppc # "idle" => emp["producer"] = "idle"
  /\ cpc # "idle" => emp["consumer"] = "idle"
  /\ emp["producer"] = "head" => loaded["producer"] = head
  /\ emp["producer"] = "tail" =>
       loaded["producer"] = tailMO[seenTail["producer"]]
  /\ emp["producer"] = "true" => Len(tailMO) = Len(headMO)
  /\ emp["consumer"] = "head" =>
       loaded["consumer"] = headMO[seenHead["consumer"]]
  /\ emp["consumer"] = "tail" => loaded["consumer"] = tail
  /\ emp["consumer"] = "false" => Len(tailMO) < seenHead["consumer"]

IInv ==
  /\ SpscTypeOK
  /\ OrderInv
  /\ CountInv
  /\ DataInv
  /\ ReadInv
  /\ EmptyInv

-----------------------------------------------------------------------------
(* Indices. *)

\* With at least one slot, masking is the remainder and yields a slot.
LEMMA RingSize ==
  ASSUME SpscAssumption, Cap # 0
  PROVE  /\ Cap \in Nat \ {0}
         /\ Indices = Slots
         /\ 0 \in Slots /\ Slots \subseteq Nat
<1>1. Cap \in Nat \ {0}
  BY DEF SpscAssumption
<1>. QED  BY <1>1 DEF Indices, Slots

\* What push and pop store is the remainder, which is a slot.
LEMMA RingWrap ==
  ASSUME SpscAssumption, Cap # 0, NEW i \in Nat
  PROVE  Wrap(i) = i % Cap /\ i % Cap \in Slots
<1>1. Cap \in Nat \ {0}
  BY RingSize
<1>2. i % Cap \in 0..(Cap - 1)
  BY <1>1, DivMod
<1>. QED  BY <1>1, <1>2 DEF Slots, Wrap

\* head and tail are slots.
LEMMA CursorSlots ==
  ASSUME SpscAssumption, Cap # 0, SpscTypeOK
  PROVE  /\ head \in Slots /\ tail \in Slots
         /\ Len(headMO) \in Nat \ {0} /\ Len(tailMO) \in Nat \ {0}
         /\ Slots \subseteq Nat
<1>1. /\ headMO \in Seq(Slots) /\ headMO # <<>>
      /\ tailMO \in Seq(Slots) /\ tailMO # <<>>
  BY RingSize DEF SpscTypeOK, AtomicTypes
<1>2. Len(headMO) \in Nat \ {0} /\ Len(tailMO) \in Nat \ {0}
  BY <1>1, EmptySeq
<1>3. head \in Slots /\ tail \in Slots
  BY <1>1, <1>2, ElementOfSeq DEF head, tail
<1>4. Slots \subseteq Nat
  BY RingSize
<1>. QED  BY <1>2, <1>3, <1>4

\* A load returns an entry not older than the last seen, and a thread that
\* stores an atomic reads its own last store.
LEMMA LoadRange ==
  ASSUME SpscAssumption, Cap # 0, SpscTypeOK, NEW t \in SpscThreads
  PROVE  /\ \A k \in HeadLoads(t) :
              /\ k \in Nat \ {0} /\ k <= Len(headMO) /\ k >= seenHead[t]
              /\ headMO[k] \in Slots
         /\ \A k \in TailLoads(t) :
              /\ k \in Nat \ {0} /\ k <= Len(tailMO) /\ k >= seenTail[t]
              /\ tailMO[k] \in Slots
         /\ HeadLoads("producer") = {Len(headMO)}
         /\ TailLoads("consumer") = {Len(tailMO)}
<1>1. Len(headMO) \in Nat \ {0} /\ Len(tailMO) \in Nat \ {0}
  BY CursorSlots
<1>2. headMO \in Seq(Slots) /\ tailMO \in Seq(Slots)
  BY RingSize DEF SpscTypeOK, AtomicTypes
<1>3. /\ seenHead[t] \in 1..Len(headMO) /\ seenTail[t] \in 1..Len(tailMO)
  BY <1>1 DEF SpscTypeOK, AtomicTypes
<1>4. \A k \in HeadLoads(t) : k \in 1..Len(headMO) /\ k >= seenHead[t]
  BY <1>1, <1>3 DEF HeadLoads
<1>5. \A k \in TailLoads(t) : k \in 1..Len(tailMO) /\ k >= seenTail[t]
  BY <1>1, <1>3 DEF TailLoads
<1>6. /\ \A k \in 1..Len(headMO) : headMO[k] \in Slots
      /\ \A k \in 1..Len(tailMO) : tailMO[k] \in Slots
  BY <1>2, ElementOfSeq
<1>7. /\ \A k \in 1..Len(headMO) : k \in Nat \ {0} /\ k <= Len(headMO)
      /\ \A k \in 1..Len(tailMO) : k \in Nat \ {0} /\ k <= Len(tailMO)
  BY <1>1
<1>8. HeadLoads("producer") = {Len(headMO)} /\ TailLoads("consumer") = {Len(tailMO)}
  BY DEF HeadLoads, TailLoads
<1>. QED  BY <1>4, <1>5, <1>6, <1>7, <1>8

\* What push and pop store is a slot.
LEMMA NextSlots ==
  ASSUME SpscAssumption, Cap # 0, SpscTypeOK
  PROVE  Wrap(head + 1) \in Slots /\ Wrap(tail + 1) \in Slots
<1>0. head \in Nat /\ tail \in Nat
  BY CursorSlots
<1>. HIDE DEF head, tail
<1>1. head + 1 \in Nat /\ tail + 1 \in Nat
  BY <1>0
<1>2. Wrap(head + 1) = (head + 1) % Cap /\ (head + 1) % Cap \in Slots
  BY <1>1, RingWrap
<1>3. Wrap(tail + 1) = (tail + 1) % Cap /\ (tail + 1) % Cap \in Slots
  BY <1>1, RingWrap
<1>. QED  BY <1>2, <1>3

-----------------------------------------------------------------------------
(* Types. *)

\* The initial state is well typed.
LEMMA TypeInit == ASSUME SpscAssumption, Cap # 0, SpscInit PROVE SpscTypeOK
<1>1. 0 \in Indices
  BY RingSize
<1>2. <<0>> \in Seq(Indices) /\ <<0>> # <<>> /\ Len(<<0>>) = 1
  BY <1>1
<1>3. \A t \in SpscThreads : 1 <= Len(headMO) /\ 1 <= Len(tailMO)
  BY <1>2 DEF SpscInit
<1>4. /\ headMO \in Seq(Indices) /\ headMO # <<>>
      /\ tailMO \in Seq(Indices) /\ tailMO # <<>>
  BY <1>2 DEF SpscInit
<1>5. /\ seenHead \in [SpscThreads -> Nat \ {0}] /\ seenTail \in [SpscThreads -> Nat \ {0}]
      /\ \A t \in SpscThreads : seenHead[t] <= Len(headMO) /\ seenTail[t] <= Len(tailMO)
  BY <1>3 DEF SpscInit
<1>6. /\ emp \in [SpscThreads -> {"idle", "head", "tail", "true", "false"}]
      /\ loaded \in [SpscThreads -> Nat]
  BY DEF SpscInit
<1>7. /\ lastWrite \in [Slots -> Nat] /\ lastRead \in [Slots -> Nat]
      /\ buf_ \in [Slots -> Values \cup {Blank}]
  BY DEF SpscInit
<1>8. pushed \in Seq(Values) /\ popped \in Seq(Values \cup {Blank})
  BY DEF SpscInit
<1>. QED  BY <1>4, <1>5, <1>6, <1>7, <1>8 DEF SpscInit, SpscTypeOK, AtomicTypes, RingTypes, ThreadTypes


\* The three threads.
LEMMA ThreadNames ==
  {"producer", "consumer", "observer"} = SpscThreads
BY DEF SpscThreads

\* push, pop and empty keep the types of the indices and of what was seen.
LEMMA AtomicTypesStep ==
  ASSUME SpscAssumption, Cap # 0, SpscTypeOK, [SpscNext]_spscVars
  PROVE  AtomicTypes'
<1>. USE DEF PushReady, PopReady, AtomicTypes
<1>a. Indices = Slots /\ Slots \subseteq Nat
  BY RingSize
<1>b. AtomicTypes /\ Len(headMO) \in Nat \ {0} /\ Len(tailMO) \in Nat \ {0}
  BY CursorSlots DEF SpscTypeOK
<1>c. \A t \in SpscThreads :
        /\ \A k \in HeadLoads(t) : k \in Nat \ {0} /\ k <= Len(headMO)
        /\ \A k \in TailLoads(t) : k \in Nat \ {0} /\ k <= Len(tailMO)
  BY LoadRange
<1>e. Len(headMO) + 1 \in Nat \ {0} /\ Len(tailMO) + 1 \in Nat \ {0}
  BY <1>b
<1>d. "producer" \in SpscThreads /\ "consumer" \in SpscThreads
  BY ThreadNames
<1>1. ASSUME PushFull PROVE AtomicTypes'
  BY <1>1, <1>b, <1>c, <1>d DEF PushFull, prodVars, consVars
<1>2. ASSUME NEW v \in Values, PushBegin(v) PROVE AtomicTypes'
  BY <1>2, <1>b, <1>c, <1>d DEF PushBegin, prodVars, consVars
<1>3. ASSUME PushWrite PROVE AtomicTypes'
  BY <1>3, <1>b, <1>c, <1>d DEF PushWrite, prodVars, consVars
<1>4. ASSUME PushThrows PROVE AtomicTypes'
  BY <1>4, <1>b, <1>c, <1>d DEF PushThrows, prodVars, consVars
<1>5. ASSUME PushPublish PROVE AtomicTypes'
  <2>1. Wrap(head + 1) \in Indices
    BY <1>a, NextSlots
  <2>2. headMO' \in Seq(Indices) /\ headMO' # <<>> /\ Len(headMO') = Len(headMO) + 1
    BY <1>5, <1>b, <2>1 DEF PushPublish
  <2>3. /\ seenHead' = [seenHead EXCEPT !["producer"] = Len(headMO) + 1]
        /\ UNCHANGED <<seenTail, tailMO>>
    BY <1>5 DEF PushPublish, consVars
  <2>4. seenHead' \in [SpscThreads -> Nat \ {0}]
    BY <2>3, <1>b, <1>e
  <2>5. \A t \in SpscThreads : seenHead'[t] <= Len(headMO')
    BY <2>2, <2>3, <1>b
  <2>. QED  BY <2>2, <2>3, <2>4, <2>5, <1>b
<1>6. ASSUME PopEmpty PROVE AtomicTypes'
  BY <1>6, <1>b, <1>c, <1>d DEF PopEmpty, prodVars, consVars
<1>7. ASSUME PopBegin PROVE AtomicTypes'
  BY <1>7, <1>b, <1>c, <1>d DEF PopBegin, prodVars, consVars
<1>8. ASSUME PopRead PROVE AtomicTypes'
  BY <1>8, <1>b, <1>c, <1>d DEF PopRead, prodVars, consVars
<1>9. ASSUME PopPublish PROVE AtomicTypes'
  <2>1. Wrap(tail + 1) \in Indices
    BY <1>a, NextSlots
  <2>2. tailMO' \in Seq(Indices) /\ tailMO' # <<>> /\ Len(tailMO') = Len(tailMO) + 1
    BY <1>9, <1>b, <2>1 DEF PopPublish
  <2>3. /\ seenTail' = [seenTail EXCEPT !["consumer"] = Len(tailMO) + 1]
        /\ UNCHANGED <<seenHead, headMO>>
    BY <1>9 DEF PopPublish, prodVars
  <2>4. seenTail' \in [SpscThreads -> Nat \ {0}]
    BY <2>3, <1>b, <1>e
  <2>5. \A t \in SpscThreads : seenTail'[t] <= Len(tailMO')
    BY <2>2, <2>3, <1>b
  <2>. QED  BY <2>2, <2>3, <2>4, <2>5, <1>b
<1>10. ASSUME NEW t \in SpscThreads, EmptyFirstLoad(t) PROVE AtomicTypes'
  <2>1. ASSUME NEW k \in HeadLoads(t),
               seenHead' = [seenHead EXCEPT ![t] = k],
               UNCHANGED <<headMO, tailMO, seenTail>>
        PROVE  AtomicTypes'
    BY <2>1, <1>b, <1>c
  <2>2. ASSUME NEW k \in TailLoads(t),
               seenTail' = [seenTail EXCEPT ![t] = k],
               UNCHANGED <<headMO, tailMO, seenHead>>
        PROVE  AtomicTypes'
    BY <2>2, <1>b, <1>c
  <2>. QED  BY <1>10, <2>1, <2>2 DEF EmptyFirstLoad, prodVars, consVars
<1>11. ASSUME NEW t \in SpscThreads, EmptySecondLoad(t) PROVE AtomicTypes'
  <2>1. ASSUME NEW k \in HeadLoads(t),
               seenHead' = [seenHead EXCEPT ![t] = k],
               UNCHANGED <<headMO, tailMO, seenTail>>
        PROVE  AtomicTypes'
    BY <2>1, <1>b, <1>c
  <2>2. ASSUME NEW k \in TailLoads(t),
               seenTail' = [seenTail EXCEPT ![t] = k],
               UNCHANGED <<headMO, tailMO, seenHead>>
        PROVE  AtomicTypes'
    BY <2>2, <1>b, <1>c
  <2>. QED  BY <1>11, <2>1, <2>2 DEF EmptySecondLoad, prodVars, consVars
<1>12. ASSUME UNCHANGED spscVars PROVE AtomicTypes'
  BY <1>12, <1>b DEF spscVars, prodVars, consVars
<1>. QED
  BY <1>1, <1>2, <1>3, <1>4, <1>5, <1>6, <1>7,
     <1>8, <1>9, <1>10, <1>11, <1>12
     DEF SpscNext, Push, Pop, Empty

\* push and pop keep the types of the slots and the histories.
LEMMA RingTypesStep ==
  ASSUME SpscAssumption, Cap # 0, SpscTypeOK, DataInv, [SpscNext]_spscVars
  PROVE  RingTypes'
<1>. USE DEF RingTypes, PushReady, PopReady
<1>a. /\ head \in Slots /\ tail \in Slots
      /\ Len(headMO) \in Nat \ {0} /\ Len(tailMO) \in Nat \ {0}
  BY CursorSlots
<1>b. RingTypes
  BY DEF SpscTypeOK
<1>1. ASSUME PushFull PROVE RingTypes'
  BY <1>1, <1>a, <1>b DEF PushFull, prodVars, consVars
<1>2. ASSUME NEW v \in Values, PushBegin(v) PROVE RingTypes'
  BY <1>2, <1>a, <1>b DEF PushBegin, prodVars, consVars
<1>3. ASSUME PushWrite PROVE RingTypes'
  BY <1>3, <1>a, <1>b DEF PushWrite, prodVars, consVars
<1>4. ASSUME PushThrows PROVE RingTypes'
  BY <1>4, <1>a, <1>b DEF PushThrows, prodVars, consVars
<1>5. ASSUME PushPublish PROVE RingTypes'
  <2>1. pushed' \in Seq(Values)
    BY <1>5, <1>b DEF PushPublish, DataInv
  <2>. QED  BY <1>5, <1>b, <2>1 DEF PushPublish, consVars
<1>6. ASSUME PopEmpty PROVE RingTypes'
  BY <1>6, <1>a, <1>b DEF PopEmpty, prodVars, consVars
<1>7. ASSUME PopBegin PROVE RingTypes'
  BY <1>7, <1>a, <1>b DEF PopBegin, prodVars, consVars
<1>8. ASSUME PopRead PROVE RingTypes'
  BY <1>8, <1>a, <1>b DEF PopRead, prodVars, consVars
<1>9. ASSUME PopPublish PROVE RingTypes'
  BY <1>9, <1>a, <1>b DEF PopPublish, prodVars, consVars
<1>10. ASSUME NEW t \in SpscThreads, EmptyFirstLoad(t) PROVE RingTypes'
  BY <1>10, <1>a, <1>b DEF EmptyFirstLoad, prodVars, consVars
<1>11. ASSUME NEW t \in SpscThreads, EmptySecondLoad(t) PROVE RingTypes'
  BY <1>11, <1>a, <1>b DEF EmptySecondLoad, prodVars, consVars
<1>12. ASSUME UNCHANGED spscVars PROVE RingTypes'
  BY <1>12, <1>b DEF spscVars, prodVars, consVars
<1>. QED
  BY <1>1, <1>2, <1>3, <1>4, <1>5, <1>6, <1>7,
     <1>8, <1>9, <1>10, <1>11, <1>12
     DEF SpscNext, Push, Pop, Empty

\* Every step keeps the types of where the threads are.
LEMMA ThreadTypesStep ==
  ASSUME SpscAssumption, Cap # 0, SpscTypeOK, [SpscNext]_spscVars
  PROVE  ThreadTypes'
<1>. USE DEF ThreadTypes, PushReady, PopReady
<1>a. ThreadTypes
  BY DEF SpscTypeOK
<1>b. \A t \in SpscThreads :
        /\ \A k \in HeadLoads(t) : headMO[k] \in Nat
        /\ \A k \in TailLoads(t) : tailMO[k] \in Nat
  BY LoadRange, CursorSlots
<1>1. ASSUME PushFull PROVE ThreadTypes'
  BY <1>1, <1>a, <1>b DEF PushFull, prodVars, consVars
<1>2. ASSUME NEW v \in Values, PushBegin(v) PROVE ThreadTypes'
  BY <1>2, <1>a, <1>b DEF PushBegin, prodVars, consVars
<1>3. ASSUME PushWrite PROVE ThreadTypes'
  BY <1>3, <1>a, <1>b DEF PushWrite, prodVars, consVars
<1>4. ASSUME PushThrows PROVE ThreadTypes'
  BY <1>4, <1>a, <1>b DEF PushThrows, prodVars, consVars
<1>5. ASSUME PushPublish PROVE ThreadTypes'
  BY <1>5, <1>a, <1>b DEF PushPublish, prodVars, consVars
<1>6. ASSUME PopEmpty PROVE ThreadTypes'
  BY <1>6, <1>a, <1>b DEF PopEmpty, prodVars, consVars
<1>7. ASSUME PopBegin PROVE ThreadTypes'
  BY <1>7, <1>a, <1>b DEF PopBegin, prodVars, consVars
<1>8. ASSUME PopRead PROVE ThreadTypes'
  BY <1>8, <1>a, <1>b DEF PopRead, prodVars, consVars
<1>9. ASSUME PopPublish PROVE ThreadTypes'
  BY <1>9, <1>a, <1>b DEF PopPublish, prodVars, consVars
<1>10. ASSUME NEW t \in SpscThreads, EmptyFirstLoad(t) PROVE ThreadTypes'
  BY <1>10, <1>a, <1>b DEF EmptyFirstLoad, prodVars, consVars
<1>11. ASSUME NEW t \in SpscThreads, EmptySecondLoad(t) PROVE ThreadTypes'
  BY <1>11, <1>a, <1>b DEF EmptySecondLoad, prodVars, consVars, Answer
<1>12. ASSUME UNCHANGED spscVars PROVE ThreadTypes'
  BY <1>12, <1>a DEF spscVars, prodVars, consVars
<1>. QED
  BY <1>1, <1>2, <1>3, <1>4, <1>5, <1>6, <1>7,
     <1>8, <1>9, <1>10, <1>11, <1>12
     DEF SpscNext, Push, Pop, Empty

\* Every step of push, pop and empty keeps the types.
LEMMA TypeStep ==
  ASSUME SpscAssumption, Cap # 0, SpscTypeOK, DataInv, [SpscNext]_spscVars
  PROVE  SpscTypeOK'
BY AtomicTypesStep, RingTypesStep, ThreadTypesStep DEF SpscTypeOK

-----------------------------------------------------------------------------
(* What the comparisons of push and pop establish. *)

\* The current indices, as remainders of the numbers of pushes and pops.
LEMMA CursorValues ==
  ASSUME SpscAssumption, Cap # 0, SpscTypeOK, OrderInv
  PROVE  /\ head = (Len(headMO) - 1) % Cap /\ Wrap(head + 1) = Len(headMO) % Cap
         /\ tail = (Len(tailMO) - 1) % Cap /\ Wrap(tail + 1) = Len(tailMO) % Cap
<1>1. Len(headMO) \in Nat \ {0} /\ Len(tailMO) \in Nat \ {0} /\ Cap \in Nat \ {0}
  BY CursorSlots, RingSize
<1>2. head = (Len(headMO) - 1) % Cap /\ tail = (Len(tailMO) - 1) % Cap
  BY <1>1 DEF OrderInv, head, tail
<1>3. /\ Wrap(head + 1) = (head + 1) % Cap
      /\ Wrap(tail + 1) = (tail + 1) % Cap
  BY DEF Wrap
<1>4. ASSUME NEW n \in Nat \ {0} PROVE (((n - 1) % Cap) + 1) % Cap = n % Cap
  <2>1. n - 1 \in Nat /\ (n - 1) + 1 = n
    OBVIOUS
  <2>. QED  BY <2>1, <1>1, ModStep
<1>. QED  BY <1>1, <1>2, <1>3, <1>4

\* A push that does not find the ring full has a free slot, and one reserved.
LEMMA PushRoom ==
  ASSUME SpscAssumption, Cap # 0, SpscTypeOK, OrderInv, CountInv,
         NEW k \in TailLoads("producer"), ~Full(k)
  PROVE  k \in Nat \ {0} /\ k <= Len(tailMO) /\ Len(headMO) + 1 - k <= Cap - 1
<1>1. Len(headMO) \in Nat \ {0} /\ Len(tailMO) \in Nat \ {0} /\ Cap \in Nat \ {0}
  BY CursorSlots, RingSize
<1>2. k \in Nat \ {0} /\ k <= Len(tailMO) /\ k >= seenTail["producer"]
  BY ThreadNames, LoadRange
<1>3. seenTail["producer"] \in Nat \ {0}
  BY ThreadNames DEF SpscTypeOK, AtomicTypes
<1>4. Len(headMO) - k <= Cap - 1
  BY <1>1, <1>2, <1>3 DEF CountInv
<1>5. tailMO[k] = (k - 1) % Cap
  BY <1>1, <1>2 DEF OrderInv
<1>6. Len(headMO) % Cap # (k - 1) % Cap
  BY <1>5, CursorValues DEF Full
<1>7. Len(headMO) # (k - 1) + Cap
  <2>1. k - 1 \in Nat
    BY <1>2
  <2>2. ((k - 1) + Cap) % Cap = (k - 1) % Cap
    BY <2>1, <1>1, ModPeriod
  <2>. QED  BY <2>2, <1>6
<1>. QED  BY <1>1, <1>2, <1>4, <1>7

\* A pop that does not find the ring empty has an element that was published.
LEMMA PopRoom ==
  ASSUME SpscAssumption, Cap # 0, SpscTypeOK, OrderInv, CountInv,
         NEW k \in HeadLoads("consumer"), tail # headMO[k]
  PROVE  k \in Nat \ {0} /\ k <= Len(headMO) /\ Len(tailMO) < k
<1>1. Len(headMO) \in Nat \ {0} /\ Len(tailMO) \in Nat \ {0} /\ Cap \in Nat \ {0}
  BY CursorSlots, RingSize
<1>2. k \in Nat \ {0} /\ k <= Len(headMO) /\ k >= seenHead["consumer"]
  BY ThreadNames, LoadRange
<1>3. seenHead["consumer"] \in Nat \ {0}
  BY ThreadNames DEF SpscTypeOK, AtomicTypes
<1>4. Len(tailMO) <= k
  BY <1>1, <1>2, <1>3 DEF CountInv
<1>5. headMO[k] = (k - 1) % Cap
  BY <1>1, <1>2 DEF OrderInv
<1>6. Len(tailMO) # k
  BY <1>5, CursorValues
<1>. QED  BY <1>1, <1>2, <1>4, <1>6

\* How many elements are between the indices.
LEMMA Distances ==
  ASSUME SpscAssumption, Cap # 0, SpscTypeOK, CountInv
  PROVE  /\ Len(headMO) \in Nat \ {0} /\ Len(tailMO) \in Nat \ {0}
         /\ Cap \in Nat \ {0}
         /\ seenTail["producer"] \in Nat \ {0} /\ seenHead["consumer"] \in Nat \ {0}
         /\ seenTail["producer"] <= Len(tailMO)
         /\ seenHead["consumer"] <= Len(headMO)
         /\ Len(tailMO) <= Len(headMO)
         /\ Len(headMO) - Len(tailMO) <= Cap - 1
         /\ ppc # "idle" => Len(headMO) + 1 - Len(tailMO) <= Cap - 1
         /\ cpc # "idle" => Len(tailMO) < Len(headMO)
<1>1. Len(headMO) \in Nat \ {0} /\ Len(tailMO) \in Nat \ {0} /\ Cap \in Nat \ {0}
  BY CursorSlots, RingSize
<1>2. /\ seenTail["producer"] \in Nat \ {0} /\ seenHead["consumer"] \in Nat \ {0}
      /\ seenTail["producer"] <= Len(tailMO) /\ seenHead["consumer"] <= Len(headMO)
  BY ThreadNames DEF SpscTypeOK, AtomicTypes
<1>. QED  BY <1>1, <1>2 DEF CountInv

-----------------------------------------------------------------------------
(* Order and counts. *)

\* The stores of push and pop continue the count modulo Cap.
LEMMA OrderStep ==
  ASSUME SpscAssumption, Cap # 0, SpscTypeOK, OrderInv, [SpscNext]_spscVars
  PROVE  OrderInv'
<1>a. Len(headMO) \in Nat \ {0} /\ Len(tailMO) \in Nat \ {0}
  BY CursorSlots
<1>b. Wrap(head + 1) = Len(headMO) % Cap /\ Wrap(tail + 1) = Len(tailMO) % Cap
  BY CursorValues
<1>c. headMO \in Seq(Indices) /\ tailMO \in Seq(Indices)
  BY DEF SpscTypeOK, AtomicTypes
<1>1. CASE UNCHANGED <<headMO, tailMO>>
  BY <1>1 DEF OrderInv
<1>2. CASE PushPublish
  <2>1. headMO' = Append(headMO, Len(headMO) % Cap) /\ tailMO' = tailMO
    BY <1>2, <1>b DEF PushPublish, consVars
  <2>2. \A k \in 1..Len(headMO') : headMO'[k] = (k - 1) % Cap
    <3>. SUFFICES ASSUME NEW k \in 1..Len(headMO') PROVE headMO'[k] = (k - 1) % Cap
      OBVIOUS
    <3>1. CASE k \in 1..Len(headMO)
      BY <3>1, <2>1, <1>a, <1>c DEF OrderInv
    <3>2. CASE k = Len(headMO) + 1
      <4>1. headMO'[k] = Len(headMO) % Cap /\ k - 1 = Len(headMO)
        BY <3>2, <2>1, <1>a, <1>c
      <4>. QED  BY <4>1
    <3>. QED  BY <3>1, <3>2, <2>1, <1>a, <1>c
  <2>. QED  BY <2>1, <2>2 DEF OrderInv
<1>3. CASE PopPublish
  <2>1. tailMO' = Append(tailMO, Len(tailMO) % Cap) /\ headMO' = headMO
    BY <1>3, <1>b DEF PopPublish, prodVars
  <2>2. \A k \in 1..Len(tailMO') : tailMO'[k] = (k - 1) % Cap
    <3>. SUFFICES ASSUME NEW k \in 1..Len(tailMO') PROVE tailMO'[k] = (k - 1) % Cap
      OBVIOUS
    <3>1. CASE k \in 1..Len(tailMO)
      BY <3>1, <2>1, <1>a, <1>c DEF OrderInv
    <3>2. CASE k = Len(tailMO) + 1
      <4>1. tailMO'[k] = Len(tailMO) % Cap /\ k - 1 = Len(tailMO)
        BY <3>2, <2>1, <1>a, <1>c
      <4>. QED  BY <4>1
    <3>. QED  BY <3>1, <3>2, <2>1, <1>a, <1>c
  <2>. QED  BY <2>1, <2>2 DEF OrderInv
<1>. QED
  BY <1>1, <1>2, <1>3
     DEF SpscNext, Push, Pop, Empty, spscVars, prodVars, consVars, PushFull, PushBegin,
         PushWrite, PushThrows, PopEmpty, PopBegin, PopRead, EmptyFirstLoad,
         EmptySecondLoad

\* empty() only moves forward what its caller has seen.
LEMMA LoadsForward ==
  ASSUME SpscAssumption, Cap # 0, SpscTypeOK, NEW t \in SpscThreads,
         EmptyFirstLoad(t) \/ EmptySecondLoad(t)
  PROVE  \A u \in SpscThreads :
           /\ seenHead'[u] >= seenHead[u] /\ seenHead'[u] \in Nat
           /\ seenTail'[u] >= seenTail[u] /\ seenTail'[u] \in Nat
           /\ u # t => seenHead'[u] = seenHead[u] /\ seenTail'[u] = seenTail[u]
<1>1. seenHead \in [SpscThreads -> Nat \ {0}] /\ seenTail \in [SpscThreads -> Nat \ {0}]
  BY DEF SpscTypeOK, AtomicTypes
<1>2. /\ \A k \in HeadLoads(t) : k \in Nat \ {0} /\ k >= seenHead[t]
      /\ \A k \in TailLoads(t) : k \in Nat \ {0} /\ k >= seenTail[t]
  BY LoadRange
<1>3. \/ /\ \E k \in HeadLoads(t) : seenHead' = [seenHead EXCEPT ![t] = k]
         /\ seenTail' = seenTail
      \/ /\ \E k \in TailLoads(t) : seenTail' = [seenTail EXCEPT ![t] = k]
         /\ seenHead' = seenHead
  BY DEF EmptyFirstLoad, EmptySecondLoad
<1>4. ASSUME NEW k \in HeadLoads(t), seenHead' = [seenHead EXCEPT ![t] = k],
             seenTail' = seenTail, NEW u \in SpscThreads
      PROVE  /\ seenHead'[u] >= seenHead[u] /\ seenHead'[u] \in Nat
             /\ seenTail'[u] >= seenTail[u] /\ seenTail'[u] \in Nat
             /\ u # t => seenHead'[u] = seenHead[u] /\ seenTail'[u] = seenTail[u]
  BY <1>1, <1>2, <1>4
<1>5. ASSUME NEW k \in TailLoads(t), seenTail' = [seenTail EXCEPT ![t] = k],
             seenHead' = seenHead, NEW u \in SpscThreads
      PROVE  /\ seenHead'[u] >= seenHead[u] /\ seenHead'[u] \in Nat
             /\ seenTail'[u] >= seenTail[u] /\ seenTail'[u] \in Nat
             /\ u # t => seenHead'[u] = seenHead[u] /\ seenTail'[u] = seenTail[u]
  BY <1>1, <1>2, <1>5
<1>. QED  BY <1>3, <1>4, <1>5

\* What a thread has seen moves forward only, so a load leaves CountInv alone.
LEMMA CountLoads ==
  ASSUME Len(headMO) \in Nat, Len(tailMO) \in Nat, Cap \in Nat,
         seenTail["producer"] \in Nat, seenHead["consumer"] \in Nat,
         seenTail'["producer"] \in Nat, seenHead'["consumer"] \in Nat,
         seenTail'["producer"] >= seenTail["producer"],
         seenHead'["consumer"] >= seenHead["consumer"],
         headMO' = headMO, tailMO' = tailMO, pushed' = pushed, popped' = popped,
         ppc' = ppc, cpc' = cpc,
         CountInv
  PROVE  CountInv'
<1>1. Len(pushed') = Len(headMO') - 1 /\ Len(popped') = Len(tailMO') - 1
  BY DEF CountInv
<1>2. Len(tailMO') <= seenHead'["consumer"]
  BY DEF CountInv
<1>3. cpc' # "idle" => Len(tailMO') < seenHead'["consumer"]
  BY DEF CountInv
<1>4. Len(headMO') - seenTail'["producer"] <= Cap - 1
  BY DEF CountInv
<1>5. ppc' # "idle" => Len(headMO') + 1 - seenTail'["producer"] <= Cap - 1
  BY DEF CountInv
<1>. QED  BY ONLY <1>1, <1>2, <1>3, <1>4, <1>5 DEF CountInv

\* Neither push nor pop leaves its side of the ring.
LEMMA CountStep ==
  ASSUME SpscAssumption, Cap # 0, SpscTypeOK, SpscTypeOK', OrderInv, CountInv, [SpscNext]_spscVars
  PROVE  CountInv'
<1>a. /\ Len(headMO) \in Nat \ {0} /\ Len(tailMO) \in Nat \ {0}
      /\ Cap \in Nat \ {0}
      /\ seenTail["producer"] \in Nat \ {0} /\ seenHead["consumer"] \in Nat \ {0}
  BY Distances
<1>b. /\ seenHead \in [SpscThreads -> Nat \ {0}] /\ seenTail \in [SpscThreads -> Nat \ {0}]
      /\ "producer" \in SpscThreads /\ "consumer" \in SpscThreads
      /\ headMO \in Seq(Indices) /\ tailMO \in Seq(Indices)
      /\ pushed \in Seq(Values) /\ popped \in Seq(Values \cup {Blank})
  BY ThreadNames DEF SpscTypeOK, AtomicTypes, RingTypes
<1>c. /\ \A k \in HeadLoads("consumer") :
           k \in Nat \ {0} /\ k <= Len(headMO) /\ k >= seenHead["consumer"]
      /\ \A k \in TailLoads("producer") :
           k \in Nat \ {0} /\ k <= Len(tailMO) /\ k >= seenTail["producer"]
  BY <1>b, LoadRange
<1>. USE DEF PushReady, PopReady
<1>1. ASSUME PushFull PROVE CountInv'
  <2>1. PICK k \in TailLoads("producer") :
          seenTail' = [seenTail EXCEPT !["producer"] = k]
    BY <1>1 DEF PushFull
  <2>2. seenTail'["producer"] = k /\ UNCHANGED <<prodVars, consVars, seenHead>>
    BY <1>1, <2>1, <1>b DEF PushFull
  <2>. QED  BY <1>1, <2>2, <1>a, <1>c DEF CountInv, prodVars, consVars
<1>2. ASSUME NEW v \in Values, PushBegin(v) PROVE CountInv'
  <2>1. PICK k \in TailLoads("producer") :
          ~Full(k) /\ seenTail' = [seenTail EXCEPT !["producer"] = k]
    BY <1>2 DEF PushBegin
  <2>2. /\ seenTail'["producer"] = k
        /\ UNCHANGED <<headMO, pushed, consVars, seenHead>>
    BY <1>2, <2>1, <1>b DEF PushBegin
  <2>3. k \in Nat \ {0} /\ Len(headMO) + 1 - k <= Cap - 1
    BY <2>1, PushRoom
  <2>. QED  BY <2>2, <2>3, <1>a DEF CountInv, consVars
<1>3. ASSUME PushWrite PROVE CountInv'
  BY <1>3, <1>a, <1>b, <1>c DEF PushWrite, prodVars, consVars, CountInv
<1>4. ASSUME PushThrows PROVE CountInv'
  BY <1>4, <1>a, <1>b, <1>c DEF PushThrows, prodVars, consVars, CountInv
<1>5. ASSUME PushPublish PROVE CountInv'
  <2>1. /\ Len(headMO') = Len(headMO) + 1 /\ Len(pushed') = Len(pushed) + 1
        /\ ppc' = "idle" /\ ppc = "written"
        /\ seenHead'["consumer"] = seenHead["consumer"]
        /\ UNCHANGED <<consVars, seenTail>>
    BY <1>5, <1>b DEF PushPublish
  <2>. QED  BY <2>1, <1>a DEF CountInv, consVars
<1>6. ASSUME PopEmpty PROVE CountInv'
  <2>1. PICK k \in HeadLoads("consumer") :
          seenHead' = [seenHead EXCEPT !["consumer"] = k]
    BY <1>6 DEF PopEmpty
  <2>2. seenHead'["consumer"] = k /\ UNCHANGED <<prodVars, consVars, seenTail>>
    BY <1>6, <2>1, <1>b DEF PopEmpty
  <2>. QED  BY <1>6, <2>2, <1>a, <1>c DEF CountInv, prodVars, consVars, PopEmpty
<1>7. ASSUME PopBegin PROVE CountInv'
  <2>1. PICK k \in HeadLoads("consumer") :
          tail # headMO[k] /\ seenHead' = [seenHead EXCEPT !["consumer"] = k]
    BY <1>7 DEF PopBegin
  <2>2. /\ seenHead'["consumer"] = k
        /\ UNCHANGED <<tailMO, popped, prodVars, seenTail>>
    BY <1>7, <2>1, <1>b DEF PopBegin
  <2>3. k \in Nat \ {0} /\ Len(tailMO) < k
    BY <2>1, PopRoom
  <2>. QED  BY <2>2, <2>3, <1>a DEF CountInv, prodVars
<1>8. ASSUME PopRead PROVE CountInv'
  BY <1>8, <1>a, <1>b, <1>c DEF PopRead, prodVars, consVars, CountInv
<1>9. ASSUME PopPublish PROVE CountInv'
  <2>1. /\ Len(tailMO') = Len(tailMO) + 1 /\ Len(popped') = Len(popped) + 1
        /\ cpc' = "idle" /\ cpc = "read"
        /\ seenTail'["producer"] = seenTail["producer"]
        /\ UNCHANGED <<prodVars, seenHead>>
    BY <1>9, <1>b DEF PopPublish
  <2>. QED  BY <2>1, <1>a DEF CountInv, prodVars
<1>10. ASSUME NEW t \in SpscThreads, EmptyFirstLoad(t) PROVE CountInv'
  <2>1. UNCHANGED <<prodVars, consVars>>
    BY <1>10 DEF EmptyFirstLoad
  <2>2. \A u \in SpscThreads :
          /\ seenHead'[u] >= seenHead[u] /\ seenHead'[u] \in Nat
          /\ seenTail'[u] >= seenTail[u] /\ seenTail'[u] \in Nat
    BY <1>10, LoadsForward
  <2>3. /\ seenHead'["consumer"] >= seenHead["consumer"]
        /\ seenTail'["producer"] >= seenTail["producer"]
        /\ seenHead'["consumer"] \in Nat /\ seenTail'["producer"] \in Nat
    BY <1>b, <2>2
  <2>4. /\ headMO' = headMO /\ tailMO' = tailMO /\ pushed' = pushed
        /\ popped' = popped /\ ppc' = ppc /\ cpc' = cpc
    BY <2>1 DEF prodVars, consVars
  <2>. QED  BY <1>a, <2>3, <2>4, CountLoads
<1>11. ASSUME NEW t \in SpscThreads, EmptySecondLoad(t) PROVE CountInv'
  <2>1. UNCHANGED <<prodVars, consVars>>
    BY <1>11 DEF EmptySecondLoad
  <2>2. \A u \in SpscThreads :
          /\ seenHead'[u] >= seenHead[u] /\ seenHead'[u] \in Nat
          /\ seenTail'[u] >= seenTail[u] /\ seenTail'[u] \in Nat
    BY <1>11, LoadsForward
  <2>3. /\ seenHead'["consumer"] >= seenHead["consumer"]
        /\ seenTail'["producer"] >= seenTail["producer"]
        /\ seenHead'["consumer"] \in Nat /\ seenTail'["producer"] \in Nat
    BY <1>b, <2>2
  <2>4. /\ headMO' = headMO /\ tailMO' = tailMO /\ pushed' = pushed
        /\ popped' = popped /\ ppc' = ppc /\ cpc' = cpc
    BY <2>1 DEF prodVars, consVars
  <2>. QED  BY <1>a, <2>3, <2>4, CountLoads
<1>12. ASSUME UNCHANGED spscVars PROVE CountInv'
  BY <1>12 DEF spscVars, prodVars, consVars, CountInv
<1>. QED
  BY <1>1, <1>2, <1>3, <1>4, <1>5, <1>6, <1>7,
     <1>8, <1>9, <1>10, <1>11, <1>12
     DEF SpscNext, Push, Pop, Empty

-----------------------------------------------------------------------------
(* Reads of slots. *)

\* pop records its reads at the slot of its count.
LEMMA ReadStep ==
  ASSUME SpscAssumption, Cap # 0, SpscTypeOK, OrderInv, ReadInv, [SpscNext]_spscVars
  PROVE  ReadInv'
<1>a. /\ Len(headMO) \in Nat \ {0} /\ Len(tailMO) \in Nat \ {0} /\ tail \in Slots
      /\ lastRead \in [Slots -> Nat] /\ tailMO \in Seq(Indices)
  BY CursorSlots DEF SpscTypeOK, AtomicTypes, RingTypes
<1>1. CASE UNCHANGED <<lastRead, tailMO, cpc>>
  BY <1>1 DEF ReadInv
<1>2. CASE PopBegin
  <2>1. /\ lastRead' = [lastRead EXCEPT ![tail] = Len(tailMO) + 1]
        /\ tailMO' = tailMO /\ cpc = "idle" /\ cpc' = "reading"
    BY <1>2 DEF PopBegin, PopReady
  <2>2. tail = (Len(tailMO) - 1) % Cap
    BY CursorValues
  <2>. SUFFICES ASSUME NEW s \in Slots
                PROVE  \/ lastRead'[s] = 0
                       \/ /\ lastRead'[s] >= 2
                          /\ (lastRead'[s] - 2) % Cap = s
                          /\ lastRead'[s] <= Len(tailMO) + 1
    BY <2>1 DEF ReadInv
  <2>3. CASE s = tail
    <3>1. lastRead'[s] = Len(tailMO) + 1
      BY <2>1, <2>3, <1>a
    <3>2. (Len(tailMO) + 1) - 2 = Len(tailMO) - 1
      BY <1>a
    <3>. QED  BY <3>1, <3>2, <2>2, <2>3, <1>a
  <2>4. CASE s # tail
    BY <2>1, <2>4, <1>a DEF ReadInv
  <2>. QED  BY <2>3, <2>4
<1>3. CASE PopRead
  BY <1>3 DEF PopRead, ReadInv
<1>4. CASE PopPublish
  <2>1. /\ lastRead' = lastRead /\ Len(tailMO') = Len(tailMO) + 1
        /\ cpc = "read" /\ cpc' = "idle"
    BY <1>4, <1>a DEF PopPublish
  <2>. QED  BY <2>1, <1>a DEF ReadInv
<1>. QED
  BY <1>1, <1>2, <1>3, <1>4
     DEF SpscNext, Push, Pop, Empty, spscVars, prodVars, consVars, PushFull, PushBegin,
         PushWrite, PushThrows, PushPublish, PopEmpty, EmptyFirstLoad, EmptySecondLoad

-----------------------------------------------------------------------------
(* Contents of slots. *)

\* The slots in use are not the one that the next push writes.
LEMMA SlotsApart ==
  ASSUME SpscAssumption, Cap # 0, SpscTypeOK, OrderInv, CountInv,
         NEW n \in Len(tailMO)..(Len(headMO) - 1)
  PROVE  n \in Nat \ {0} /\ (n - 1) % Cap \in Slots /\ (n - 1) % Cap # head
<1>1. /\ Len(headMO) \in Nat \ {0} /\ Len(tailMO) \in Nat \ {0} /\ Cap \in Nat \ {0}
      /\ Len(headMO) - Len(tailMO) <= Cap - 1
  BY Distances
<1>2. n \in Nat \ {0} /\ n - 1 \in Nat /\ n - 1 < Len(headMO) - 1 /\ Len(headMO) - 1 \in Nat
  BY <1>1
<1>3. (n - 1) % Cap \in Slots
  BY <1>2, RingWrap
<1>4. (Len(headMO) - 1) - (n - 1) < Cap
  BY <1>1, <1>2
<1>5. (n - 1) % Cap # (Len(headMO) - 1) % Cap
  BY <1>1, <1>2, <1>4, ModDiffer
<1>. QED  BY <1>2, <1>3, <1>5, CursorValues

\* While the consumer is inside pop, its slot is one of those in use.
LEMMA TailInUse ==
  ASSUME SpscAssumption, Cap # 0, SpscTypeOK, OrderInv, CountInv, cpc # "idle"
  PROVE  /\ Len(tailMO) \in Len(tailMO)..(Len(headMO) - 1)
         /\ tail = (Len(tailMO) - 1) % Cap /\ tail # head
<1>0. /\ Len(headMO) \in Nat \ {0} /\ Len(tailMO) \in Nat \ {0}
      /\ Len(tailMO) < Len(headMO)
  BY Distances
<1>1. Len(tailMO) \in Len(tailMO)..(Len(headMO) - 1)
  BY <1>0
<1>. QED  BY <1>1, SlotsApart, CursorValues

\* push and pop keep the elements between the indices in place and in order.
LEMMA DataStep ==
  ASSUME SpscAssumption, Cap # 0, SpscTypeOK, OrderInv, CountInv, DataInv, [SpscNext]_spscVars
  PROVE  DataInv'
<1>a. /\ Len(headMO) \in Nat \ {0} /\ Len(tailMO) \in Nat \ {0}
      /\ head \in Slots /\ tail \in Slots
      /\ headMO \in Seq(Indices) /\ tailMO \in Seq(Indices)
      /\ buf_ \in [Slots -> Values \cup {Blank}] /\ lastWrite \in [Slots -> Nat]
      /\ pushed \in Seq(Values) /\ popped \in Seq(Values \cup {Blank})
      /\ cval \in Values \cup {Blank}
      /\ Len(pushed) = Len(headMO) - 1 /\ Len(popped) = Len(tailMO) - 1
      /\ Len(tailMO) <= Len(headMO)
  BY CursorSlots, Distances DEF SpscTypeOK, AtomicTypes, RingTypes, CountInv
<1>b. \A n \in Len(tailMO)..(Len(headMO) - 1) :
        n \in Nat \ {0} /\ (n - 1) % Cap \in Slots /\ (n - 1) % Cap # head
  BY SlotsApart
<1>1. CASE UNCHANGED <<headMO, tailMO, lastWrite, buf_, pushed, popped, cpc,
                       cval, ppc, pval>>
  BY <1>1 DEF DataInv, head
<1>2. ASSUME NEW v \in Values, PushBegin(v) PROVE DataInv'
  <2>1. /\ lastWrite' = [lastWrite EXCEPT ![head] = Len(headMO) + 1]
        /\ ppc' = "writing" /\ pval' = v /\ head' = head
        /\ UNCHANGED <<headMO, tailMO, buf_, pushed, popped, cpc, cval>>
    BY <1>2 DEF PushBegin, consVars, head
  <2>2. \A n \in Len(tailMO)..(Len(headMO) - 1) :
          lastWrite'[(n - 1) % Cap] = lastWrite[(n - 1) % Cap]
    BY <2>1, <1>a, <1>b
  <2>3. lastWrite'[head] = Len(headMO) + 1
    BY <2>1, <1>a
  <2>. HIDE DEF head
  <2>. QED  BY <2>1, <2>2, <2>3 DEF DataInv
<1>3. ASSUME PushWrite PROVE DataInv'
  <2>1. /\ buf_' = [buf_ EXCEPT ![head] = pval] /\ head' = head
        /\ ppc = "writing" /\ ppc' = "written"
        /\ UNCHANGED <<headMO, tailMO, lastWrite, pval, pushed, popped, cpc, cval>>
    BY <1>3 DEF PushWrite, consVars, head
  <2>2. \A n \in Len(tailMO)..(Len(headMO) - 1) :
          buf_'[(n - 1) % Cap] = buf_[(n - 1) % Cap]
    BY <2>1, <1>a, <1>b
  <2>3. buf_'[head] = pval
    BY <2>1, <1>a
  <2>. HIDE DEF head
  <2>. QED  BY <2>1, <2>2, <2>3 DEF DataInv
<1>4. ASSUME PushThrows PROVE DataInv'
  <2>1. PICK x \in Values \cup {Blank} : buf_' = [buf_ EXCEPT ![head] = x]
    BY <1>4 DEF PushThrows
  <2>2. /\ ppc' = "idle"
        /\ UNCHANGED <<headMO, tailMO, lastWrite, pushed, popped, cpc, cval>>
    BY <1>4 DEF PushThrows, consVars
  <2>3. \A n \in Len(tailMO)..(Len(headMO) - 1) :
          buf_'[(n - 1) % Cap] = buf_[(n - 1) % Cap]
    BY <2>1, <1>a, <1>b
  <2>. QED  BY <2>2, <2>3 DEF DataInv
<1>5. ASSUME PushPublish PROVE DataInv'
  <2>1. /\ Len(headMO') = Len(headMO) + 1 /\ pushed' = Append(pushed, pval)
        /\ ppc = "written" /\ ppc' = "idle"
        /\ UNCHANGED <<tailMO, lastWrite, buf_, popped, cpc, cval>>
    BY <1>5, <1>a DEF PushPublish, consVars
  <2>2. pval \in Values /\ lastWrite[head] = Len(headMO) + 1 /\ buf_[head] = pval
    BY <2>1 DEF DataInv
  <2>3. \A n \in 1..Len(pushed) : pushed'[n] = pushed[n]
    BY <2>1, <2>2, <1>a
  <2>4. pushed'[Len(headMO)] = pval
    BY <2>1, <2>2, <1>a
  <2>5. ASSUME NEW n \in Len(tailMO')..(Len(headMO') - 1)
        PROVE  /\ lastWrite'[(n - 1) % Cap] = n + 1
               /\ \/ buf_'[(n - 1) % Cap] = pushed'[n]
                  \/ n = Len(tailMO') /\ cpc' = "read"
    <3>1. CASE n = Len(headMO)
      <4>1. (n - 1) % Cap = head
        BY <3>1, CursorValues
      <4>. QED  BY <4>1, <3>1, <2>1, <2>2, <2>4
    <3>2. CASE n \in Len(tailMO)..(Len(headMO) - 1)
      <4>1. n \in 1..Len(pushed)
        BY <3>2, <1>a
      <4>. QED  BY <4>1, <3>2, <2>1, <2>3 DEF DataInv
    <3>. QED  BY <3>1, <3>2, <2>1, <1>a
  <2>6. cpc' = "read" => cval' = pushed'[Len(tailMO')]
    <3>1. CASE cpc = "read"
      <4>0. Len(tailMO) \in Len(tailMO)..(Len(headMO) - 1)
        BY <3>1, TailInUse
      <4>1. Len(tailMO) \in 1..Len(pushed)
        BY <4>0, <1>a
      <4>. QED  BY <4>1, <3>1, <2>1, <2>3 DEF DataInv
    <3>. QED  BY <3>1, <2>1
  <2>7. \A n \in 1..Len(popped') : popped'[n] = pushed'[n]
    <3>1. \A n \in 1..Len(popped) : n \in 1..Len(pushed)
      BY <1>a
    <3>. QED  BY <3>1, <2>1, <2>3 DEF DataInv
  <2>. QED  BY <2>1, <2>5, <2>6, <2>7 DEF DataInv
<1>6. ASSUME PopBegin PROVE DataInv'
  <2>1. /\ cpc = "idle" /\ cpc' = "reading"
        /\ UNCHANGED <<headMO, tailMO, lastWrite, buf_, pushed, popped, cval,
                       ppc, pval>>
    BY <1>6 DEF PopBegin, PopReady, prodVars
  <2>. QED  BY <2>1 DEF DataInv, head
<1>7. ASSUME PopRead PROVE DataInv'
  <2>1. /\ cpc = "reading" /\ cpc' = "read" /\ cval' = buf_[tail] /\ head' = head
        /\ buf_' = [buf_ EXCEPT ![tail] = Blank]
        /\ UNCHANGED <<headMO, tailMO, lastWrite, pushed, popped, ppc, pval>>
    BY <1>7 DEF PopRead, prodVars, head
  <2>2. /\ Len(tailMO) \in Len(tailMO)..(Len(headMO) - 1)
        /\ tail = (Len(tailMO) - 1) % Cap /\ tail # head
    BY <2>1, TailInUse
  <2>3. cval' = pushed[Len(tailMO)]
    BY <2>1, <2>2 DEF DataInv
  <2>4. buf_'[head] = buf_[head]
    BY <2>1, <2>2, <1>a
  <2>5. ASSUME NEW n \in Len(tailMO)..(Len(headMO) - 1), n # Len(tailMO)
        PROVE  buf_'[(n - 1) % Cap] = buf_[(n - 1) % Cap]
    <3>1. (n - 1) % Cap # tail
      <4>1. /\ n - 1 \in Nat /\ Len(tailMO) - 1 \in Nat
            /\ Len(tailMO) - 1 < n - 1
        BY <2>5, <1>a
      <4>2. Cap \in Nat \ {0} /\ (n - 1) - (Len(tailMO) - 1) < Cap
        <5>1. Cap \in Nat \ {0} /\ Len(headMO) - Len(tailMO) <= Cap - 1
          BY Distances
        <5>. QED  BY <5>1, <2>5, <1>a
      <4>. QED  BY <4>1, <4>2, <2>2, ModDiffer
    <3>. QED  BY <3>1, <2>1, <1>a, <1>b
  <2>6. \A n \in Len(tailMO)..(Len(headMO) - 1) :
          \/ buf_'[(n - 1) % Cap] = pushed[n]
          \/ n = Len(tailMO) /\ cpc' = "read"
    BY <2>1, <2>5 DEF DataInv
  <2>. HIDE DEF head, tail
  <2>. QED  BY <2>1, <2>3, <2>4, <2>6 DEF DataInv
<1>8. ASSUME PopPublish PROVE DataInv'
  <2>1. /\ Len(tailMO') = Len(tailMO) + 1 /\ popped' = Append(popped, cval)
        /\ cpc = "read" /\ cpc' = "idle" /\ head' = head
        /\ UNCHANGED <<headMO, lastWrite, buf_, pushed, ppc, pval>>
    BY <1>8, <1>a DEF PopPublish, prodVars, head
  <2>2. cval = pushed[Len(tailMO)]
    BY <2>1 DEF DataInv
  <2>3. ASSUME NEW n \in Len(tailMO')..(Len(headMO') - 1)
        PROVE  /\ lastWrite'[(n - 1) % Cap] = n + 1
               /\ buf_'[(n - 1) % Cap] = pushed'[n]
    <3>1. n \in Len(tailMO)..(Len(headMO) - 1) /\ n # Len(tailMO)
      BY <2>1, <1>a
    <3>. QED  BY <3>1, <2>1 DEF DataInv
  <2>4. \A n \in 1..Len(popped') : popped'[n] = pushed'[n]
    <3>. SUFFICES ASSUME NEW n \in 1..Len(popped') PROVE popped'[n] = pushed[n]
      BY <2>1
    <3>1. CASE n \in 1..Len(popped)
      BY <3>1, <2>1, <1>a DEF DataInv
    <3>2. CASE n = Len(tailMO)
      BY <3>2, <2>1, <2>2, <1>a
    <3>. QED  BY <3>1, <3>2, <2>1, <1>a
  <2>. HIDE DEF head
  <2>. QED  BY <2>1, <2>3, <2>4 DEF DataInv
<1>. QED
  BY <1>1, <1>2, <1>3, <1>4, <1>5, <1>6, <1>7, <1>8
     DEF SpscNext, Push, Pop, Empty, spscVars, prodVars, consVars, PushFull, PopEmpty,
         EmptyFirstLoad, EmptySecondLoad

-----------------------------------------------------------------------------
(* Answers of empty(). *)

\* The producer finds the two indices equal only when the queue is empty.
LEMMA EqualIsEmpty ==
  ASSUME SpscAssumption, Cap # 0, SpscTypeOK, OrderInv, CountInv,
         NEW k \in Nat \ {0}, seenTail["producer"] <= k, k <= Len(tailMO),
         head = tailMO[k]
  PROVE  Len(tailMO) = Len(headMO)
<1>1. /\ Len(headMO) \in Nat \ {0} /\ Len(tailMO) \in Nat \ {0} /\ Cap \in Nat \ {0}
      /\ seenTail["producer"] \in Nat /\ Len(tailMO) <= Len(headMO)
  BY Distances
<1>2. Len(headMO) - seenTail["producer"] <= Cap - 1
  BY DEF CountInv
<1>3. tailMO[k] = (k - 1) % Cap
  BY <1>1 DEF OrderInv
<1>4. (Len(headMO) - 1) % Cap = (k - 1) % Cap
  BY <1>3, CursorValues
<1>5. CASE k = Len(headMO)
  BY <1>5, <1>1
<1>6. CASE k < Len(headMO)
  <2>1. /\ k - 1 \in Nat /\ Len(headMO) - 1 \in Nat /\ k - 1 < Len(headMO) - 1
        /\ (Len(headMO) - 1) - (k - 1) < Cap
    BY <1>1, <1>2, <1>6
  <2>. QED  BY <2>1, <1>1, <1>4, ModDiffer
<1>. QED  BY <1>1, <1>5, <1>6

\* The consumer finds them different only when an element was published.
LEMMA DifferentIsNotEmpty ==
  ASSUME SpscAssumption, Cap # 0, SpscTypeOK, OrderInv, CountInv,
         NEW k \in Nat \ {0}, seenHead["consumer"] <= k, k <= Len(headMO),
         tail # headMO[k]
  PROVE  Len(tailMO) < k
<1>1. /\ Len(headMO) \in Nat \ {0} /\ Len(tailMO) \in Nat \ {0}
      /\ seenHead["consumer"] \in Nat
  BY Distances
<1>2. Len(tailMO) <= seenHead["consumer"]
  BY DEF CountInv
<1>3. headMO[k] = (k - 1) % Cap
  BY <1>1 DEF OrderInv
<1>4. k # Len(tailMO)
  BY <1>3, CursorValues
<1>. QED  BY <1>1, <1>2, <1>4

\* What a call of empty() by one thread holds does not depend on the others.
LEMMA EmptyElsewhere ==
  ASSUME SpscAssumption, Cap # 0, SpscTypeOK, EmptyInv, NEW t \in SpscThreads,
         EmptyFirstLoad(t) \/ EmptySecondLoad(t)
  PROVE  /\ UNCHANGED <<headMO, tailMO, ppc, cpc, head, tail>>
         /\ \A u \in SpscThreads \ {t} :
              /\ emp'[u] = emp[u] /\ loaded'[u] = loaded[u]
              /\ seenHead'[u] = seenHead[u] /\ seenTail'[u] = seenTail[u]
<1>1. /\ seenHead \in [SpscThreads -> Nat \ {0}] /\ seenTail \in [SpscThreads -> Nat \ {0}]
      /\ emp \in [SpscThreads -> {"idle", "head", "tail", "true", "false"}]
      /\ loaded \in [SpscThreads -> Nat]
  BY DEF SpscTypeOK, AtomicTypes, ThreadTypes
<1>2. UNCHANGED <<headMO, tailMO, ppc, cpc>>
  BY DEF EmptyFirstLoad, EmptySecondLoad, prodVars, consVars
<1>3. UNCHANGED <<head, tail>>
  BY <1>2 DEF head, tail
<1>4. \A u \in SpscThreads \ {t} :
        /\ emp'[u] = emp[u] /\ loaded'[u] = loaded[u]
  <2>1. CASE EmptyFirstLoad(t)
    BY <2>1, <1>1 DEF EmptyFirstLoad
  <2>2. CASE EmptySecondLoad(t)
    BY <2>2, <1>1 DEF EmptySecondLoad
  <2>. QED  BY <2>1, <2>2
<1>. QED  BY <1>2, <1>3, <1>4, LoadsForward

\* Nothing that others do spoils what a thread inside empty() holds.
LEMMA EmptyStep ==
  ASSUME SpscAssumption, Cap # 0, SpscTypeOK, OrderInv, CountInv, EmptyInv, [SpscNext]_spscVars
  PROVE  EmptyInv'
<1>a. /\ emp \in [SpscThreads -> {"idle", "head", "tail", "true", "false"}]
      /\ loaded \in [SpscThreads -> Nat]
      /\ seenHead \in [SpscThreads -> Nat \ {0}] /\ seenTail \in [SpscThreads -> Nat \ {0}]
      /\ "producer" \in SpscThreads /\ "consumer" \in SpscThreads
  BY ThreadNames DEF SpscTypeOK, AtomicTypes, ThreadTypes
<1>b. /\ Len(headMO) \in Nat \ {0} /\ Len(tailMO) \in Nat \ {0}
      /\ seenTail["producer"] \in 1..Len(tailMO)
      /\ seenHead["consumer"] \in 1..Len(headMO)
      /\ Len(tailMO) <= Len(headMO)
  <2>1. /\ Len(headMO) \in Nat \ {0} /\ Len(tailMO) \in Nat \ {0}
        /\ seenTail["producer"] \in Nat \ {0} /\ seenTail["producer"] <= Len(tailMO)
        /\ seenHead["consumer"] \in Nat \ {0} /\ seenHead["consumer"] <= Len(headMO)
        /\ Len(tailMO) <= Len(headMO)
    BY Distances
  <2>. QED  BY <2>1
<1>c. headMO \in Seq(Indices) /\ tailMO \in Seq(Indices)
  BY DEF SpscTypeOK, AtomicTypes
<1>. USE DEF PushReady, PopReady, InEmpty
<1>1. ASSUME PushFull PROVE EmptyInv'
  <2>1. /\ emp'["producer"] = "idle" /\ emp'["consumer"] = emp["consumer"]
        /\ UNCHANGED <<headMO, tailMO, ppc, cpc, seenHead, loaded>>
    BY <1>1, <1>a DEF PushFull, prodVars, consVars
  <2>. QED  BY <2>1 DEF EmptyInv, head, tail
<1>2. ASSUME NEW v \in Values, PushBegin(v) PROVE EmptyInv'
  <2>1. /\ emp'["producer"] = "idle" /\ emp'["consumer"] = emp["consumer"]
        /\ UNCHANGED <<headMO, tailMO, cpc, seenHead, loaded>>
    BY <1>2, <1>a DEF PushBegin, consVars
  <2>. QED  BY <2>1 DEF EmptyInv, head, tail
<1>3. ASSUME PushWrite PROVE EmptyInv'
  <2>1. /\ ppc = "writing" /\ ppc' = "written"
        /\ UNCHANGED <<headMO, tailMO, cpc, emp, loaded, seenHead, seenTail>>
    BY <1>3 DEF PushWrite, consVars
  <2>. QED  BY <2>1 DEF EmptyInv, head, tail
<1>4. ASSUME PushThrows PROVE EmptyInv'
  <2>1. /\ ppc' = "idle"
        /\ UNCHANGED <<headMO, tailMO, cpc, emp, loaded, seenHead, seenTail>>
    BY <1>4 DEF PushThrows, consVars
  <2>. QED  BY <2>1 DEF EmptyInv, head, tail
<1>5. ASSUME PushPublish PROVE EmptyInv'
  <2>1. /\ ppc = "written" /\ ppc' = "idle"
        /\ headMO' = Append(headMO, Wrap(head + 1))
        /\ seenHead'["consumer"] = seenHead["consumer"]
        /\ UNCHANGED <<tailMO, cpc, emp, loaded, seenTail>>
    BY <1>5, <1>a DEF PushPublish, consVars
  <2>2. headMO'[seenHead["consumer"]] = headMO[seenHead["consumer"]]
    BY <2>1, <1>b, <1>c
  <2>3. tail' = tail /\ emp["producer"] = "idle"
    BY <2>1 DEF EmptyInv, tail
  <2>. HIDE DEF head, tail
  <2>. QED  BY <2>1, <2>2, <2>3 DEF EmptyInv
<1>6. ASSUME PopEmpty PROVE EmptyInv'
  <2>1. /\ emp'["consumer"] = "idle" /\ emp'["producer"] = emp["producer"]
        /\ UNCHANGED <<headMO, tailMO, ppc, cpc, seenTail, loaded>>
    BY <1>6, <1>a DEF PopEmpty, prodVars, consVars
  <2>. QED  BY <2>1 DEF EmptyInv, head, tail
<1>7. ASSUME PopBegin PROVE EmptyInv'
  <2>1. /\ emp'["consumer"] = "idle" /\ emp'["producer"] = emp["producer"]
        /\ UNCHANGED <<headMO, tailMO, ppc, seenTail, loaded>>
    BY <1>7, <1>a DEF PopBegin, prodVars
  <2>. QED  BY <2>1 DEF EmptyInv, head, tail
<1>8. ASSUME PopRead PROVE EmptyInv'
  <2>1. /\ cpc = "reading" /\ cpc' = "read"
        /\ UNCHANGED <<headMO, tailMO, ppc, emp, loaded, seenHead, seenTail>>
    BY <1>8 DEF PopRead, prodVars
  <2>. QED  BY <2>1 DEF EmptyInv, head, tail
<1>9. ASSUME PopPublish PROVE EmptyInv'
  <2>1. /\ cpc = "read" /\ cpc' = "idle"
        /\ tailMO' = Append(tailMO, Wrap(tail + 1))
        /\ seenTail'["producer"] = seenTail["producer"]
        /\ UNCHANGED <<headMO, ppc, emp, loaded, seenHead>>
    BY <1>9, <1>a DEF PopPublish, prodVars
  <2>2. tailMO'[seenTail["producer"]] = tailMO[seenTail["producer"]]
    BY <2>1, <1>b, <1>c
  <2>3. head' = head /\ emp["consumer"] = "idle"
    BY <2>1 DEF EmptyInv, head
  <2>4. emp["producer"] # "true"
    <3>1. Len(tailMO) < Len(headMO)
      BY <2>1, Distances
    <3>. QED  BY <3>1, <1>b DEF EmptyInv
  <2>. HIDE DEF head, tail
  <2>. QED  BY <2>1, <2>2, <2>3, <2>4 DEF EmptyInv
<1>10. ASSUME NEW t \in SpscThreads, EmptyFirstLoad(t) PROVE EmptyInv'
  <2>1. /\ UNCHANGED <<headMO, tailMO, ppc, cpc, head, tail>>
        /\ \A u \in SpscThreads \ {t} :
             /\ emp'[u] = emp[u] /\ loaded'[u] = loaded[u]
             /\ seenHead'[u] = seenHead[u] /\ seenTail'[u] = seenTail[u]
    BY <1>10, EmptyElsewhere
  <2>2. \/ /\ emp'[t] = "head" /\ loaded'[t] = headMO[seenHead'[t]]
           /\ seenHead'[t] \in HeadLoads(t)
        \/ /\ emp'[t] = "tail" /\ loaded'[t] = tailMO[seenTail'[t]]
           /\ seenTail'[t] \in TailLoads(t)
    BY <1>10, <1>a DEF EmptyFirstLoad
  <2>3. CASE t = "producer"
    <3>1. HeadLoads(t) = {Len(headMO)} /\ ppc = "idle"
      BY <2>3, <1>10, LoadRange DEF EmptyFirstLoad, MayCallEmpty
    <3>2. "consumer" \in SpscThreads \ {t}
      BY <2>3, <1>a
    <3>3. emp'["producer"] = "head" => loaded'["producer"] = head
      BY <2>2, <2>3, <3>1 DEF head
    <3>. HIDE DEF head, tail
    <3>. QED  BY <2>1, <2>2, <2>3, <3>1, <3>2, <3>3 DEF EmptyInv
  <2>4. CASE t = "consumer"
    <3>1. TailLoads(t) = {Len(tailMO)} /\ cpc = "idle"
      BY <2>4, <1>10, LoadRange DEF EmptyFirstLoad, MayCallEmpty
    <3>2. "producer" \in SpscThreads \ {t}
      BY <2>4, <1>a
    <3>3. emp'["consumer"] = "tail" => loaded'["consumer"] = tail
      BY <2>2, <2>4, <3>1 DEF tail
    <3>. HIDE DEF head, tail
    <3>. QED  BY <2>1, <2>2, <2>4, <3>1, <3>2, <3>3 DEF EmptyInv
  <2>5. CASE t \notin {"producer", "consumer"}
    <3>1. "producer" \in SpscThreads \ {t} /\ "consumer" \in SpscThreads \ {t}
      BY <2>5, <1>a
    <3>. HIDE DEF head, tail
    <3>. QED  BY <2>1, <3>1 DEF EmptyInv
  <2>. QED  BY <2>3, <2>4, <2>5
<1>11. ASSUME NEW t \in SpscThreads, EmptySecondLoad(t) PROVE EmptyInv'
  <2>1. /\ UNCHANGED <<headMO, tailMO, ppc, cpc, head, tail>>
        /\ \A u \in SpscThreads \ {t} :
             /\ emp'[u] = emp[u] /\ loaded'[u] = loaded[u]
             /\ seenHead'[u] = seenHead[u] /\ seenTail'[u] = seenTail[u]
    BY <1>11, EmptyElsewhere
  <2>2. \/ /\ emp[t] = "head" /\ seenHead' = seenHead
           /\ seenTail'[t] \in TailLoads(t)
           /\ emp'[t] = Answer(loaded[t], tailMO[seenTail'[t]])
        \/ /\ emp[t] = "tail" /\ seenTail' = seenTail
           /\ seenHead'[t] \in HeadLoads(t)
           /\ emp'[t] = Answer(loaded[t], headMO[seenHead'[t]])
    BY <1>11, <1>a DEF EmptySecondLoad
  <2>3. emp'[t] \in {"true", "false"}
    BY <2>2 DEF Answer
  <2>4. CASE t = "producer"
    <3>1. ppc = "idle" /\ "consumer" \in SpscThreads \ {t}
      BY <2>2, <2>4, <1>a DEF EmptyInv
    <3>2. ASSUME emp'[t] = "true" PROVE Len(tailMO) = Len(headMO)
      <4>1. PICK k \in Nat \ {0} : /\ seenTail["producer"] <= k /\ k <= Len(tailMO)
                                   /\ head = tailMO[k]
        <5>1. CASE emp[t] = "head"
          <6>1. /\ seenTail'[t] \in TailLoads(t) /\ loaded[t] = tailMO[seenTail'[t]]
                /\ loaded[t] = head
            BY <5>1, <2>2, <2>4, <3>2 DEF Answer, EmptyInv
          <6>2. /\ seenTail'[t] \in Nat \ {0} /\ seenTail'[t] <= Len(tailMO)
                /\ seenTail'[t] >= seenTail[t]
            BY <6>1, LoadRange
          <6>3. seenTail["producer"] <= seenTail'[t]
            BY <6>2, <2>4, <1>b
          <6>. QED  BY <6>1, <6>2, <6>3
        <5>2. CASE emp[t] = "tail"
          <6>1. /\ seenHead'[t] \in HeadLoads(t) /\ loaded[t] = headMO[seenHead'[t]]
                /\ loaded[t] = tailMO[seenTail["producer"]]
            BY <5>2, <2>2, <2>4, <3>2 DEF Answer, EmptyInv
          <6>2. HeadLoads(t) = {Len(headMO)}
            BY <2>4, LoadRange
          <6>3. head = tailMO[seenTail["producer"]]
            BY <6>1, <6>2 DEF head
          <6>. QED  BY <6>3, <1>b
        <5>. QED  BY <5>1, <5>2, <2>2
      <4>. QED  BY <4>1, EqualIsEmpty
    <3>. HIDE DEF head, tail
    <3>. QED  BY <2>1, <2>3, <2>4, <3>1, <3>2 DEF EmptyInv
  <2>5. CASE t = "consumer"
    <3>1. cpc = "idle" /\ "producer" \in SpscThreads \ {t}
      BY <2>2, <2>5, <1>a DEF EmptyInv
    <3>2. ASSUME emp'[t] = "false" PROVE Len(tailMO) < seenHead'[t]
      <4>1. CASE emp[t] = "head"
        <5>1. /\ seenTail'[t] \in TailLoads(t) /\ loaded[t] # tailMO[seenTail'[t]]
              /\ loaded[t] = headMO[seenHead["consumer"]]
              /\ seenHead'[t] = seenHead["consumer"]
          BY <4>1, <2>2, <2>5, <3>2 DEF Answer, EmptyInv
        <5>2. TailLoads(t) = {Len(tailMO)}
          BY <2>5, LoadRange
        <5>3. tail # headMO[seenHead["consumer"]]
          BY <5>1, <5>2 DEF tail
        <5>4. /\ seenHead["consumer"] \in Nat \ {0}
              /\ seenHead["consumer"] <= seenHead["consumer"]
              /\ seenHead["consumer"] <= Len(headMO)
          BY <1>b
        <5>. QED  BY <5>1, <5>3, <5>4, DifferentIsNotEmpty
      <4>2. CASE emp[t] = "tail"
        <5>1. /\ seenHead'[t] \in HeadLoads(t) /\ loaded[t] # headMO[seenHead'[t]]
              /\ loaded[t] = tail
          BY <4>2, <2>2, <2>5, <3>2 DEF Answer, EmptyInv
        <5>2. /\ seenHead'[t] \in Nat \ {0} /\ seenHead'[t] <= Len(headMO)
              /\ seenHead'[t] >= seenHead[t]
          BY <5>1, LoadRange
        <5>3. seenHead["consumer"] <= seenHead'[t]
          BY <5>2, <2>5, <1>b
        <5>. QED  BY <5>1, <5>2, <5>3, DifferentIsNotEmpty
      <4>. QED  BY <4>1, <4>2, <2>2
    <3>. HIDE DEF head, tail
    <3>. QED  BY <2>1, <2>3, <2>5, <3>1, <3>2 DEF EmptyInv
  <2>6. CASE t \notin {"producer", "consumer"}
    <3>1. "producer" \in SpscThreads \ {t} /\ "consumer" \in SpscThreads \ {t}
      BY <2>6, <1>a
    <3>. HIDE DEF head, tail
    <3>. QED  BY <2>1, <3>1 DEF EmptyInv
  <2>. QED  BY <2>4, <2>5, <2>6
<1>12. ASSUME UNCHANGED spscVars PROVE EmptyInv'
  BY <1>12 DEF spscVars, prodVars, consVars, EmptyInv, head, tail
<1>. QED
  BY <1>1, <1>2, <1>3, <1>4, <1>5, <1>6, <1>7,
     <1>8, <1>9, <1>10, <1>11, <1>12
     DEF SpscNext, Push, Pop, Empty

-----------------------------------------------------------------------------
(* The invariant. *)

\* The inductive invariant holds initially.
LEMMA InvariantInit == ASSUME SpscAssumption, Cap # 0, SpscInit PROVE IInv
<1>0. Cap \in Nat \ {0}
  BY RingSize
<1>1. /\ Len(headMO) = 1 /\ Len(tailMO) = 1 /\ headMO[1] = 0 /\ tailMO[1] = 0
      /\ Len(pushed) = 0 /\ Len(popped) = 0
      /\ seenHead["consumer"] = 1 /\ seenTail["producer"] = 1
      /\ ppc = "idle" /\ cpc = "idle"
      /\ emp["producer"] = "idle" /\ emp["consumer"] = "idle"
      /\ \A s \in Slots : lastRead[s] = 0
  BY ThreadNames DEF SpscInit
<1>2. OrderInv
  <2>1. 0 = Cap * 0 + 0 /\ 0 \in 0..(Cap - 1)
    BY <1>0
  <2>2. 0 % Cap = 0
    BY <2>1, <1>0, ModUnique
  <2>. QED  BY <1>1, <2>2 DEF OrderInv
<1>3. CountInv
  BY <1>0, <1>1 DEF CountInv
<1>4. DataInv
  BY <1>1 DEF DataInv
<1>5. ReadInv
  BY <1>1 DEF ReadInv
<1>6. EmptyInv
  BY <1>1 DEF EmptyInv
<1>. QED  BY TypeInit, <1>2, <1>3, <1>4, <1>5, <1>6 DEF IInv

\* Every step preserves the inductive invariant.
LEMMA InvariantStep ==
  ASSUME SpscAssumption, Cap # 0, IInv, [SpscNext]_spscVars PROVE IInv'
<1>. USE DEF IInv
<1>1. SpscTypeOK'
  BY TypeStep
<1>2. OrderInv'
  BY OrderStep
<1>3. CountInv'
  BY <1>1, CountStep
<1>4. DataInv'
  BY DataStep
<1>5. ReadInv'
  BY ReadStep
<1>6. EmptyInv'
  BY EmptyStep
<1>. QED  BY <1>1, <1>2, <1>3, <1>4, <1>5, <1>6

\* The inductive invariant holds in every behaviour, for every ring with slots.
THEOREM QueueInvariant == ASSUME Cap # 0 PROVE SpscSpec => []IInv
<1>1. SpscInit => IInv
  BY InvariantInit, SpscAssumption
<1>2. IInv /\ [SpscNext]_spscVars => IInv'
  BY InvariantStep, SpscAssumption
<1>. QED  BY <1>1, <1>2, PTL DEF SpscSpec

\* Every variable keeps its type; in particular the indices stay in the ring.
THEOREM QueueTypes == ASSUME Cap # 0 PROVE SpscSpec => []SpscTypeOK
<1>1. IInv => SpscTypeOK
  BY DEF IInv
<1>. QED  BY <1>1, QueueInvariant, PTL

-----------------------------------------------------------------------------
(* Safety. *)

\* The ring never holds more than Cap - 1 elements, nor fewer than none.
THEOREM QueueCapacity == ASSUME Cap # 0 PROVE SpscSpec => []WithinCapacity
<1>1. ASSUME IInv PROVE WithinCapacity
  <2>1. /\ Len(headMO) \in Nat \ {0} /\ Len(tailMO) \in Nat \ {0}
        /\ Cap \in Nat \ {0} /\ Len(tailMO) <= Len(headMO)
        /\ Len(headMO) - Len(tailMO) <= Cap - 1
    BY <1>1, SpscAssumption, Distances DEF IInv
  <2>. QED  BY <2>1 DEF WithinCapacity, Stored
<1>. QED  BY <1>1, QueueInvariant, PTL

\* pop returns what push accepted, in order.
THEOREM QueueFifo == ASSUME Cap # 0 PROVE SpscSpec => []Fifo
<1>1. ASSUME IInv PROVE Fifo
  <2>1. /\ Len(headMO) \in Nat \ {0} /\ Len(tailMO) \in Nat \ {0}
        /\ Len(tailMO) <= Len(headMO)
    BY <1>1, SpscAssumption, Distances DEF IInv
  <2>. QED  BY <1>1, <2>1 DEF IInv, CountInv, DataInv, Fifo
<1>. QED  BY <1>1, QueueInvariant, PTL

\* The answer of empty() can be relied on by the thread it concerns.
THEOREM EmptyAnswers == ASSUME Cap # 0 PROVE SpscSpec => []EmptyIsUsable
<1>1. ASSUME IInv PROVE EmptyIsUsable
  <2>1. /\ Len(headMO) \in Nat \ {0} /\ Len(tailMO) \in Nat \ {0}
        /\ seenHead["consumer"] \in Nat \ {0}
        /\ seenHead["consumer"] <= Len(headMO)
    BY <1>1, SpscAssumption, Distances DEF IInv
  <2>. QED  BY <1>1, <2>1 DEF IInv, EmptyInv, EmptyIsUsable, Stored
<1>. QED  BY <1>1, QueueInvariant, PTL

\* The release stores and acquire loads order every pair of conflicting
\* accesses to a slot, whatever older values the loads return.
THEOREM QueueRaceFree == ASSUME Cap # 0 PROVE SpscSpec => []NoDataRace
<1>1. ASSUME IInv PROVE NoDataRace
  <2>0. SpscTypeOK /\ OrderInv /\ CountInv /\ DataInv /\ ReadInv
    BY <1>1 DEF IInv
  <2>1. /\ Len(headMO) \in Nat \ {0} /\ Len(tailMO) \in Nat \ {0} /\ Cap \in Nat \ {0}
        /\ seenTail["producer"] \in Nat \ {0} /\ Len(tailMO) <= Len(headMO)
        /\ cpc # "idle" => Len(tailMO) < Len(headMO)
        /\ head \in Slots /\ lastRead \in [Slots -> Nat]
    BY <2>0, SpscAssumption, Distances, CursorSlots DEF SpscTypeOK, RingTypes
  <2>2. ASSUME ppc = "writing" PROVE lastRead[head] <= seenTail["producer"]
    <3>1. CASE lastRead[head] = 0
      BY <3>1, <2>1
    <3>2. CASE lastRead[head] # 0
      <4>. DEFINE v == lastRead[head]
      <4>1. /\ v \in Nat /\ v >= 2 /\ (v - 2) % Cap = head
            /\ v <= Len(tailMO) + (IF cpc = "idle" THEN 0 ELSE 1)
        BY <3>2, <2>0, <2>1 DEF ReadInv
      <4>. HIDE DEF v
      <4>2. v <= Len(headMO)
        BY <4>1, <2>1
      <4>3. /\ v - 2 \in Nat /\ Len(headMO) - 1 \in Nat
            /\ v - 2 < Len(headMO) - 1
        BY <4>1, <4>2, <2>1
      <4>4. (v - 2) % Cap = (Len(headMO) - 1) % Cap
        BY <4>1, <2>0, SpscAssumption, <2>1, CursorValues
      <4>5. (Len(headMO) - 1) - (v - 2) >= Cap
        BY <4>3, <4>4, <2>1, ModApart
      <4>6. Len(headMO) + 1 - seenTail["producer"] <= Cap - 1
        BY <2>2, <2>0 DEF CountInv
      <4>7. v <= seenTail["producer"]
        BY <4>1, <4>5, <4>6, <2>1
      <4>. QED  BY <4>7 DEF v
    <3>. QED  BY <3>1, <3>2
  <2>3. ASSUME cpc = "reading" PROVE lastWrite[tail] <= seenHead["consumer"]
    <3>1. /\ Len(tailMO) \in Len(tailMO)..(Len(headMO) - 1)
          /\ tail = (Len(tailMO) - 1) % Cap
      BY <2>0, <2>1, <2>3, SpscAssumption, TailInUse
    <3>2. lastWrite[tail] = Len(tailMO) + 1
      BY <3>1, <2>0 DEF DataInv
    <3>3. Len(tailMO) < seenHead["consumer"] /\ seenHead["consumer"] \in Nat
      BY <2>0, <2>1, <2>3, SpscAssumption, Distances DEF CountInv
    <3>. QED  BY <3>2, <3>3, <2>1
  <2>. QED  BY <2>2, <2>3 DEF NoDataRace
<1>. QED  BY <1>1, QueueInvariant, PTL

\* A pop that the consumer starts after an empty() that answered FALSE finds
\* an element.
THEOREM PopSucceeds == ASSUME Cap # 0 PROVE SpscSpec => PopAfterNonEmpty
<1>1. ASSUME IInv, PopEmpty PROVE emp["consumer"] # "false"
  <2>0. SpscTypeOK /\ OrderInv /\ CountInv /\ EmptyInv
    BY <1>1 DEF IInv
  <2>1. /\ Len(headMO) \in Nat \ {0} /\ Len(tailMO) \in Nat \ {0} /\ Cap \in Nat \ {0}
        /\ seenHead["consumer"] \in Nat \ {0}
        /\ Len(headMO) - Len(tailMO) <= Cap - 1
    BY <2>0, SpscAssumption, Distances
  <2>2. PICK k \in HeadLoads("consumer") : tail = headMO[k]
    BY <1>1 DEF PopEmpty
  <2>3. k \in Nat \ {0} /\ k <= Len(headMO) /\ k >= seenHead["consumer"]
    BY <2>0, SpscAssumption, ThreadNames, LoadRange
  <2>4. (k - 1) % Cap = (Len(tailMO) - 1) % Cap
    <3>1. headMO[k] = (k - 1) % Cap
      BY <2>0, <2>1, <2>3 DEF OrderInv
    <3>. QED  BY <3>1, <2>0, <2>2, SpscAssumption, <2>1, CursorValues
  <2>5. ASSUME emp["consumer"] = "false" PROVE FALSE
    <3>1. Len(tailMO) < seenHead["consumer"]
      BY <2>0, <2>5 DEF EmptyInv
    <3>2. /\ k - 1 \in Nat /\ Len(tailMO) - 1 \in Nat
          /\ Len(tailMO) - 1 < k - 1 /\ (k - 1) - (Len(tailMO) - 1) < Cap
      BY <3>1, <2>1, <2>3
    <3>. QED  BY <3>2, <2>1, <2>4, ModDiffer
  <2>. QED  BY <2>5
<1>2. IInv /\ [SpscNext]_spscVars => [PopEmpty => emp["consumer"] # "false"]_spscVars
  BY <1>1
<1>. QED  BY <1>2, QueueInvariant, PTL DEF SpscSpec, PopAfterNonEmpty

-----------------------------------------------------------------------------
(* Refinement. *)

\* Accepting an element appends it to what is waiting.
LEMMA WaitingAppend ==
  ASSUME NEW S, NEW s \in Seq(S), NEW x \in S, NEW m \in 1..(Len(s) + 1)
  PROVE  SubSeq(Append(s, x), m, Len(s) + 1) = Append(SubSeq(s, m, Len(s)), x)
<1>. DEFINE long == SubSeq(Append(s, x), m, Len(s) + 1)
            short == SubSeq(s, m, Len(s))
<1>1. /\ Append(s, x) \in Seq(S) /\ Len(Append(s, x)) = Len(s) + 1
      /\ \A i \in 1..Len(s) : Append(s, x)[i] = s[i]
      /\ Append(s, x)[Len(s) + 1] = x
  BY AppendProperties
<1>2. /\ long \in Seq(S) /\ Len(long) = Len(s) + 1 - m + 1
      /\ \A i \in 1..(Len(s) + 1 - m + 1) : long[i] = Append(s, x)[m + i - 1]
  <2>1. /\ m \in Int /\ Len(s) + 1 \in Int /\ m <= Len(s) + 1
        /\ \A i \in m..(Len(s) + 1) : i \in 1..(Len(s) + 1)
    OBVIOUS
  <2>2. \A i \in m..(Len(s) + 1) : Append(s, x)[i] \in S
    BY <2>1, <1>1, ElementOfSeq
  <2>. QED  BY <2>1, <2>2, SubSeqProperties
<1>3. /\ short \in Seq(S) /\ Len(short) = Len(s) - m + 1
      /\ \A i \in 1..(Len(s) - m + 1) : short[i] = s[m + i - 1]
  <2>1. /\ m \in Int /\ Len(s) \in Int
        /\ \A i \in m..Len(s) : i \in 1..Len(s)
        /\ ~(m <= Len(s)) => Len(s) - m + 1 = 0
    OBVIOUS
  <2>2. \A i \in m..Len(s) : s[i] \in S
    BY <2>1, ElementOfSeq
  <2>. QED  BY <2>1, <2>2, SubSeqProperties
<1>. HIDE DEF long, short
<1>4. /\ Append(short, x) \in Seq(S) /\ Len(Append(short, x)) = Len(short) + 1
      /\ \A i \in 1..Len(short) : Append(short, x)[i] = short[i]
      /\ Append(short, x)[Len(short) + 1] = x
  <2>1. short \in Seq(S)
    BY <1>3
  <2>. QED  BY ONLY <2>1, x \in S, AppendProperties
<1>5. ASSUME NEW i \in 1..Len(long) PROVE long[i] = Append(short, x)[i]
  <2>1. CASE i \in 1..Len(short)
    <3>1. i \in 1..(Len(s) - m + 1) /\ m + i - 1 \in 1..Len(s)
      BY <2>1, <1>3
    <3>. QED  BY <3>1, <2>1, <1>1, <1>2, <1>3, <1>4
  <2>2. CASE i = Len(short) + 1
    <3>1. m + i - 1 = Len(s) + 1
      BY <2>2, <1>3
    <3>. QED  BY <3>1, <2>2, <1>1, <1>2, <1>4
  <2>3. Len(s) \in Nat /\ m \in Int
    OBVIOUS
  <2>4. i \in 1..(Len(s) + 1 - m + 1)
    BY ONLY <1>2, i \in 1..Len(long)
  <2>5. i \in 1..(Len(s) - m + 1) \/ i = Len(s) - m + 1 + 1
    BY ONLY <2>3, <2>4
  <2>6. i \in 1..Len(short) \/ i = Len(short) + 1
    BY ONLY <2>5, <1>3
  <2>. QED  BY <2>1, <2>2, <2>6
<1>6. Len(long) = Len(Append(short, x))
  BY <1>2, <1>3, <1>4
<1>7. long = Append(short, x)
  BY <1>2, <1>4, <1>5, <1>6, SeqEqual
<1>. QED  BY <1>7 DEF long, short

\* The queue implements a bounded FIFO of Cap - 1 elements: its elements are
\* those pushed and not popped, a push takes effect when head_ is stored, a
\* pop when tail_ is.
THEOREM QueueImplementsFifo == ASSUME Cap # 0 PROVE SpscSpec => ImplementsFifo
<1>. DEFINE q == SubSeq(pushed, Len(popped) + 1, Len(pushed))
<1>1. ASSUME SpscInit PROVE Ring!QInit
  <2>1. pushed = <<>> /\ popped = <<>>
    BY <1>1 DEF SpscInit
  <2>2. SubSeq(<<>>, 1, 0) = <<>>
    BY SubSeqEmpty
  <2>. QED  BY <2>1, <2>2 DEF Ring!QInit
<1>2. ASSUME IInv, [SpscNext]_spscVars PROVE [Ring!QNext]_(Ring!qvars)
  <2>0. SpscTypeOK /\ OrderInv /\ CountInv /\ DataInv
    BY <1>2 DEF IInv
  <2>1. /\ Len(headMO) \in Nat \ {0} /\ Len(tailMO) \in Nat \ {0} /\ Cap \in Nat \ {0}
        /\ Len(tailMO) <= Len(headMO)
        /\ ppc # "idle" => Len(headMO) + 1 - Len(tailMO) <= Cap - 1
        /\ cpc # "idle" => Len(tailMO) < Len(headMO)
        /\ Len(pushed) = Len(headMO) - 1 /\ Len(popped) = Len(tailMO) - 1
        /\ pushed \in Seq(Values) /\ popped \in Seq(Values \cup {Blank})
        /\ cval \in Values \cup {Blank}
    BY <2>0, SpscAssumption, Distances DEF SpscTypeOK, RingTypes, CountInv
  <2>2. CASE UNCHANGED <<pushed, popped>>
    BY <2>2 DEF Ring!qvars
  <2>3. CASE PushPublish
    <3>1. /\ pushed' = Append(pushed, pval) /\ popped' = popped
          /\ ppc = "written" /\ pval \in Values
      BY <2>3, <2>0 DEF PushPublish, consVars, DataInv
    <3>2. Len(pushed') = Len(pushed) + 1
      BY <3>1, <2>1
    <3>3. Len(popped) + 1 \in 1..(Len(pushed) + 1)
      BY <2>1
    <3>4. q' = Append(q, pval)
      BY <3>1, <3>2, <3>3, <2>1, WaitingAppend
    <3>5. Len(q) = Len(pushed) - Len(popped)
      <4>1. /\ Len(popped) + 1 \in Int /\ Len(pushed) \in Int
            /\ \A i \in (Len(popped) + 1)..Len(pushed) : i \in 1..Len(pushed)
        BY <2>1
      <4>2. \A i \in (Len(popped) + 1)..Len(pushed) : pushed[i] \in Values
        BY <4>1, <2>1, ElementOfSeq
      <4>3. Len(q) = IF Len(popped) + 1 <= Len(pushed)
                     THEN Len(pushed) - (Len(popped) + 1) + 1 ELSE 0
        BY <4>1, <4>2, SubSeqProperties
      <4>. HIDE DEF q
      <4>. QED  BY <4>3, <2>1
    <3>6. Len(q) < Cap - 1
      <4>. HIDE DEF q
      <4>. QED  BY <3>1, <3>5, <2>1
    <3>7. Ring!Enqueue(pval)
      BY <3>1, <3>4, <3>6 DEF Ring!Enqueue
    <3>. QED  BY <3>1, <3>7 DEF Ring!QNext
  <2>4. CASE PopPublish
    <3>1. /\ popped' = Append(popped, cval) /\ pushed' = pushed /\ cpc = "read"
          /\ cval = pushed[Len(tailMO)]
      BY <2>4, <2>0 DEF PopPublish, prodVars, DataInv
    <3>2. Len(popped') = Len(popped) + 1 /\ Len(popped) + 1 = Len(tailMO)
      BY <3>1, <2>1
    <3>3. Len(popped) + 1 \in 1..Len(pushed) /\ Len(pushed) \in (Len(popped) + 1)..Len(pushed)
      BY <3>1, <2>1
    <3>4. Head(q) = cval /\ Tail(q) = SubSeq(pushed, Len(popped) + 1 + 1, Len(pushed))
      BY <3>1, <3>2, <3>3, <2>1, HeadTailOfSubSeq
    <3>5. q' = Tail(q)
      BY <3>1, <3>2, <3>4
    <3>6. q # <<>>
      <4>1. /\ Len(popped) + 1 \in Int /\ Len(pushed) \in Int
            /\ Len(popped) + 1 <= Len(pushed)
            /\ \A i \in (Len(popped) + 1)..Len(pushed) : i \in 1..Len(pushed)
        BY <3>3, <2>1
      <4>2. \A i \in (Len(popped) + 1)..Len(pushed) : pushed[i] \in Values
        BY <4>1, <2>1, ElementOfSeq
      <4>3. Len(q) = Len(pushed) - (Len(popped) + 1) + 1 /\ q \in Seq(Values)
        BY <4>1, <4>2, SubSeqProperties
      <4>. HIDE DEF q
      <4>. QED  BY <4>1, <4>3, <2>1, EmptySeq
    <3>7. Ring!Dequeue
      BY <3>1, <3>4, <3>5, <3>6 DEF Ring!Dequeue
    <3>. QED  BY <3>7 DEF Ring!QNext
  <2>. QED
    BY <1>2, <2>2, <2>3, <2>4
       DEF SpscNext, Push, Pop, Empty, spscVars, prodVars, consVars, PushFull, PushBegin,
           PushWrite, PushThrows, PopEmpty, PopBegin, PopRead, EmptyFirstLoad,
           EmptySecondLoad
<1>. QED
  BY <1>1, <1>2, QueueInvariant, PTL DEF SpscSpec, ImplementsFifo, Ring!QSpec
=============================================================================
