---------------------------- MODULE SignalProofs ----------------------------
(* Proofs about Signal, for any number of slots, handles, threads and nested
   emits. *)
EXTENDS Signal, FiniteSetTheorems, WellFoundedInduction, TLAPS

-----------------------------------------------------------------------------
(* The inductive invariant. *)

(* Slots are listed in the order of their connect, and none that is connected
   was pruned. *)
ListInv ==
  /\ Ascending(slots_)
  /\ Range(slots_) \subseteq 1..made
  /\ Connected \subseteq Range(slots_)

(* What an emit has run lies before its position, or is what it is running; of
   what lies before its position it has run all that is still connected. *)
FrameOk(f, m, connected) ==
  /\ Ascending(f.snapshot) /\ Range(f.snapshot) \subseteq 1..m
  /\ f.pin => f.at <= Len(f.snapshot) /\ f.snapshot[f.at] \in Range(f.called)
  /\ Ascending(f.called)
  /\ \A k \in 1..Len(f.called) :
       \E i \in 1..Len(f.snapshot) :
         f.called[k] = f.snapshot[i] /\ (i < f.at \/ (f.pin /\ i = f.at))
  /\ \A i \in 1..Len(f.snapshot) :
       i < f.at /\ f.snapshot[i] \in connected => f.snapshot[i] \in Range(f.called)

FramesInv ==
  \A t \in Threads : \A d \in 1..Depth(t) : FrameOk(frames[t][d], made, Connected)

IInv == SignalTypeOK /\ ListInv /\ FramesInv

-----------------------------------------------------------------------------
(* Induction, by way of a set: the provers cannot instantiate the predicate of
   the library's theorem. *)

LEMMA LeastElement ==
  ASSUME NEW T \in SUBSET Nat, T # {}
  PROVE  \E m \in T : \A k \in T : m <= k
<1>. DEFINE R == {p \in Nat \X Nat : p[1] < p[2]}
<1>1. IsWellFoundedOn(R, Nat)
  BY NatLessThanWellFounded DEF OpToRel
<1>. HIDE DEF R
<1>2. \E m \in T : \A k \in T : ~ (<<k, m>> \in R)
  BY <1>1, WFMin
<1>3. ASSUME NEW m \in T, NEW k \in T, ~ (<<k, m>> \in R)
      PROVE  m <= k
  BY <1>3 DEF R
<1>. QED  BY <1>2, <1>3

LEMMA InductionOnSet ==
  ASSUME NEW S, 0 \in S, \A n \in Nat : n \in S => n + 1 \in S
  PROVE  Nat \subseteq S
<1>. SUFFICES ASSUME Nat \ S # {} PROVE FALSE
  OBVIOUS
<1>1. PICK m \in Nat \ S : \A k \in Nat \ S : m <= k
  BY LeastElement
<1>2. m # 0 /\ m - 1 \in Nat /\ m - 1 \notin Nat \ S
  BY <1>1
<1>. QED  BY <1>1, <1>2

-----------------------------------------------------------------------------
(* Pruning. *)

IsKept(g, list, alive, n) ==
  g = [i \in 0..n |-> IF i = 0 THEN <<>>
                      ELSE IF list[i] \in alive THEN Append(g[i - 1], list[i])
                           ELSE g[i - 1]]

KeptOf(list, alive, n) == CHOOSE g : IsKept(g, list, alive, n)

\* The recursion has a solution ...
LEMMA KeptExists ==
  ASSUME NEW list, NEW alive, NEW n \in Nat
  PROVE  \E g : IsKept(g, list, alive, n)
<1>. DEFINE S == {m \in Nat : \E g : IsKept(g, list, alive, m)}
<1>1. 0 \in S
  <2>. DEFINE g == [i \in 0..0 |-> <<>>]
  <2>1. IsKept(g, list, alive, 0)
    BY DEF IsKept
  <2>. QED  BY <2>1
<1>2. ASSUME NEW m \in Nat, m \in S
      PROVE  m + 1 \in S
  <2>1. PICK g : IsKept(g, list, alive, m)
    BY <1>2
  <2>. DEFINE v == IF list[m + 1] \in alive THEN Append(g[m], list[m + 1]) ELSE g[m]
              h == [i \in 0..(m + 1) |-> IF i = m + 1 THEN v ELSE g[i]]
  <2>2. ASSUME NEW i \in 0..(m + 1)
        PROVE  h[i] = IF i = 0 THEN <<>>
                      ELSE IF list[i] \in alive THEN Append(h[i - 1], list[i]) ELSE h[i - 1]
    <3>1. CASE i = 0
      BY <3>1, <2>1 DEF IsKept
    <3>2. CASE i = m + 1
      <4>1. h[i - 1] = g[m] /\ h[i] = v
        BY <3>2
      <4>. QED  BY <3>2, <4>1
    <3>3. CASE i # m + 1 /\ i # 0
      <4>1. i \in 0..m /\ i - 1 \in 0..m /\ h[i] = g[i] /\ h[i - 1] = g[i - 1]
        BY <3>3
      <4>2. g[i] = IF list[i] \in alive THEN Append(g[i - 1], list[i]) ELSE g[i - 1]
        BY <2>1, <3>3, <4>1 DEF IsKept
      <4>. QED  BY <3>3, <4>1, <4>2
    <3>. QED  BY <3>1, <3>2, <3>3
  <2>3. DOMAIN h = 0..(m + 1) /\ h = [i \in 0..(m + 1) |-> h[i]]
    OBVIOUS
  <2>. HIDE DEF h
  <2>4. IsKept(h, list, alive, m + 1)
    BY <2>2, <2>3 DEF IsKept
  <2>. QED  BY <2>4
<1>. HIDE DEF S
<1>3. Nat \subseteq S
  BY <1>1, <1>2, InductionOnSet
<1>. QED  BY <1>3 DEF S

LEMMA KeptIs ==
  ASSUME NEW list, NEW alive, NEW n \in Nat
  PROVE  IsKept(KeptOf(list, alive, n), list, alive, n)
BY KeptExists, Zenon DEF KeptOf

LEMMA KeptSteps ==
  ASSUME NEW list, NEW alive, NEW g, NEW n \in Nat, IsKept(g, list, alive, n)
  PROVE  /\ g[0] = <<>>
         /\ \A i \in 1..n :
              g[i] = IF list[i] \in alive THEN Append(g[i - 1], list[i]) ELSE g[i - 1]
<1>1. 0 \in 0..n /\ \A i \in 1..n : i \in 0..n /\ i # 0
  OBVIOUS
<1>. QED  BY <1>1 DEF IsKept

LEMMA KeptLast ==
  ASSUME NEW list, NEW alive
  PROVE  Kept(list, alive) = KeptOf(list, alive, Len(list))[Len(list)]
BY DEF Kept, KeptOf, IsKept

\* Pruning keeps the elements that are alive, and their order.
LEMMA PruneFacts ==
  ASSUME NEW X \in SUBSET Nat, NEW list \in Seq(X), NEW alive, Ascending(list)
  PROVE  /\ Kept(list, alive) \in Seq(X)
         /\ Ascending(Kept(list, alive))
         /\ Range(Kept(list, alive)) = Range(list) \cap alive
<1>. DEFINE L == Len(list)
            g == KeptOf(list, alive, L)
<1>1. L \in Nat /\ \A i, j \in 1..L : i < j => list[i] < list[j]
  BY DEF Ascending
<1>2. IsKept(g, list, alive, L)
  BY <1>1, KeptIs
<1>3. Kept(list, alive) = g[L]
  BY KeptLast
<1>4. \A i \in 1..L : list[i] \in X /\ list[i] \in Nat
  <2>1. \A i \in 1..Len(list) : list[i] \in X
    OBVIOUS
  <2>. QED  BY <2>1
<1>. HIDE DEF g, L
<1>0. g[0] = <<>> /\ \A i \in 1..L : g[i] = IF list[i] \in alive THEN Append(g[i - 1], list[i])
                                          ELSE g[i - 1]
  BY <1>1, <1>2, KeptSteps
<1>. DEFINE Ok(n) ==
       /\ g[n] \in Seq(X)
       /\ Ascending(g[n])
       /\ \A k \in 1..Len(g[n]) : \E i \in 1..n : g[n][k] = list[i] /\ list[i] \in alive
       /\ \A i \in 1..n : list[i] \in alive => \E k \in 1..Len(g[n]) : g[n][k] = list[i]
<1>. DEFINE S == {n \in Nat : n <= L => Ok(n)}
<1>5. 0 \in S
  <2>1. Ok(0)
    BY <1>0 DEF Ascending
  <2>. QED  BY <2>1
<1>6. ASSUME NEW n \in Nat, n \in S
      PROVE  n + 1 \in S
  <2>1. SUFFICES ASSUME n + 1 <= L PROVE Ok(n + 1)
    OBVIOUS
  <2>2. Ok(n) /\ n + 1 \in 1..L
    BY <1>1, <1>6, <2>1
  <2>3. g[n + 1] = IF list[n + 1] \in alive THEN Append(g[n], list[n + 1]) ELSE g[n]
    <3>1. (n + 1) - 1 = n
      OBVIOUS
    <3>. QED  BY <1>0, <2>2, <3>1
  <2>4. CASE list[n + 1] \notin alive
    <3>1. g[n + 1] = g[n]
      BY <2>3, <2>4
    <3>. QED  BY <2>2, <2>4, <3>1
  <2>5. CASE list[n + 1] \in alive
    <3>1. g[n + 1] = Append(g[n], list[n + 1]) /\ list[n + 1] \in X
      BY <1>4, <2>2, <2>3, <2>5
    <3>. DEFINE a == g[n]
                b == g[n + 1]
    <3>2. /\ b \in Seq(X) /\ Len(b) = Len(a) + 1 /\ b[Len(a) + 1] = list[n + 1]
          /\ \A k \in 1..Len(a) : b[k] = a[k]
      BY <2>2, <3>1
    <3>3. a \in Seq(X) /\ Len(a) \in Nat
      BY <2>2
    <3>4. \A k \in 1..Len(a) : a[k] < list[n + 1]
      BY <1>1, <2>2
    <3>. HIDE DEF a, b
    <3>5. Ascending(b)
      <4>1. ASSUME NEW i \in 1..Len(b), NEW j \in 1..Len(b), i < j PROVE b[i] < b[j]
        <5>1. i \in 1..Len(a)
          BY <3>2, <3>3, <4>1
        <5>2. CASE j = Len(a) + 1
          BY <3>2, <3>4, <5>1, <5>2
        <5>3. CASE j \in 1..Len(a)
          BY <2>2, <3>2, <4>1, <5>1, <5>3 DEF a, Ascending
        <5>. QED  BY <3>2, <3>3, <5>2, <5>3
      <4>. QED  BY <4>1 DEF Ascending
    <3>6. \A k \in 1..Len(b) : \E i \in 1..(n + 1) : b[k] = list[i] /\ list[i] \in alive
      <4>. TAKE k \in 1..Len(b)
      <4>1. CASE k = Len(a) + 1
        BY <2>5, <3>2, <4>1
      <4>2. CASE k \in 1..Len(a)
        <5>1. PICK i \in 1..n : a[k] = list[i] /\ list[i] \in alive
          BY <2>2, <4>2 DEF a
        <5>2. i \in 1..(n + 1) /\ b[k] = a[k]
          BY <3>2, <4>2
        <5>. QED  BY <5>1, <5>2
      <4>3. k = Len(a) + 1 \/ k \in 1..Len(a)
        BY <3>2, <3>3
      <4>. QED  BY <4>1, <4>2, <4>3
    <3>7. \A i \in 1..(n + 1) : list[i] \in alive => \E k \in 1..Len(b) : b[k] = list[i]
      <4>. TAKE i \in 1..(n + 1)
      <4>. HAVE list[i] \in alive
      <4>1. CASE i = n + 1
        BY <3>2, <3>3, <4>1
      <4>2. CASE i \in 1..n
        <5>1. PICK k \in 1..Len(a) : a[k] = list[i]
          BY <2>2, <4>2 DEF a
        <5>2. k \in 1..Len(b) /\ b[k] = list[i]
          BY <3>2, <3>3, <5>1
        <5>. QED  BY <5>2
      <4>. QED  BY <4>1, <4>2
    <3>. QED  BY <3>2, <3>5, <3>6, <3>7 DEF b
  <2>. QED  BY <2>4, <2>5
<1>. HIDE DEF S
<1>7. Nat \subseteq S
  BY <1>5, <1>6, InductionOnSet
<1>8. Ok(L)
  BY <1>1, <1>7 DEF S
<1>9. Range(g[L]) = Range(list) \cap alive
  <2>1. DOMAIN g[L] = 1..Len(g[L]) /\ DOMAIN list = 1..L
    BY <1>8 DEF L
  <2>2. Range(g[L]) \subseteq Range(list) \cap alive
    BY <1>8, <2>1 DEF Range
  <2>3. ASSUME NEW x \in Range(list) \cap alive
        PROVE  x \in Range(g[L])
    <3>1. PICK i \in 1..L : x = list[i]
      BY <2>1 DEF Range
    <3>2. PICK k \in 1..Len(g[L]) : g[L][k] = list[i]
      BY <1>8, <2>3, <3>1
    <3>. QED  BY <2>1, <3>1, <3>2 DEF Range
  <2>. QED  BY <2>2, <2>3
<1>. QED  BY <1>3, <1>8, <1>9

-----------------------------------------------------------------------------
(* Frames. *)

LEMMA FrameTypes ==
  ASSUME SignalTypeOK, NEW t \in Threads
  PROVE  /\ frames[t] \in Seq(Frame) /\ Depth(t) \in Nat
         /\ \A d \in 1..Depth(t) : frames[t][d] \in Frame
         /\ made \in Nat
<1>1. frames[t] \in Seq(Frame) /\ made \in 0..MaxSlots /\ MaxSlots \in Nat
  BY SignalAssumption DEF SignalTypeOK
<1>2. \A d \in 1..Len(frames[t]) : frames[t][d] \in Frame
  BY <1>1
<1>. QED  BY <1>1, <1>2 DEF Depth

\* What an emit has done stays right as slots are connected and disconnected.
LEMMA FrameLater ==
  ASSUME NEW f, NEW m \in Nat, NEW n \in Nat, m <= n, NEW C, NEW D,
         f \in Frame, FrameOk(f, m, C), D \cap (1..m) \subseteq C
  PROVE  FrameOk(f, n, D)
<1>1. \A i \in 1..Len(f.snapshot) : f.snapshot[i] \in D => f.snapshot[i] \in C
  <2>1. Range(f.snapshot) \subseteq 1..m
    BY DEF FrameOk
  <2>2. f.snapshot \in Seq(Slots)
    BY DEF Frame
  <2>3. ASSUME NEW i \in 1..Len(f.snapshot)
        PROVE  f.snapshot[i] \in 1..m
    <3>1. i \in DOMAIN f.snapshot
      BY <2>2
    <3>. QED  BY <2>1, <3>1 DEF Range
  <2>. QED  BY <2>3
<1>. QED  BY <1>1 DEF FrameOk

LEMMA FramesLater ==
  ASSUME IInv, UNCHANGED frames, made' \in Nat, made <= made',
         Connected' \cap (1..made) \subseteq Connected
  PROVE  FramesInv'
<1>. SUFFICES ASSUME NEW t \in Threads, NEW d \in 1..Depth(t)
              PROVE  FrameOk(frames[t][d], made', Connected')
  BY DEF FramesInv, Depth
<1>1. FrameOk(frames[t][d], made, Connected) /\ made \in Nat /\ frames[t][d] \in Frame
  BY FrameTypes DEF IInv, FramesInv
<1>. QED  BY <1>1, FrameLater

LEMMA PinnedAt ==
  ASSUME NEW s
  PROVE  s \in Pinned <=> \E t \in Threads : \E d \in 1..Depth(t) :
                            frames[t][d].pin /\ s = RunningSlot(frames[t][d])
BY DEF Pinned

LEMMA PinnedNext ==
  ASSUME NEW s \in Pinned'
  PROVE  \E t \in Threads : \E d \in 1..Depth(t)' :
           frames'[t][d].pin /\ s = RunningSlot(frames'[t][d])
BY DEF Pinned, RunningSlot, Listed

\* The innermost emit of a thread goes on.
LEMMA TopStep ==
  ASSUME IInv, NEW t \in Threads, Depth(t) > 0,
         NEW g \in Frame, FrameOk(g, made, Connected),
         frames' = [frames EXCEPT ![t] = [@ EXCEPT ![Depth(t)] = g]],
         UNCHANGED <<slots_, handle, made, emits>>,
         g.pin => Live(RunningSlot(g))
  PROVE  IInv' /\ Connected' = Connected /\ Pinned' \subseteq Connected \cup Pinned
<1>. DEFINE D == Depth(t)
            z == [frames[t] EXCEPT ![D] = g]
<1>1. SignalTypeOK /\ frames[t] \in Seq(Frame) /\ D \in Nat /\ D \in 1..D /\ D = Len(frames[t])
  BY FrameTypes DEF IInv, Depth
<1>. HIDE DEF D
<1>2. z \in Seq(Frame) /\ Len(z) = D /\ \A d \in 1..D : z[d] = IF d = D THEN g ELSE frames[t][d]
  BY <1>1
<1>3. frames' = [frames EXCEPT ![t] = z] /\ frames \in [Threads -> Seq(Frame)]
  BY <1>1 DEF D, SignalTypeOK
<1>. HIDE DEF z
<1>4. \A u \in Threads : /\ Depth(u)' = Depth(u)
                         /\ \A d \in 1..Depth(u) : frames'[u][d] = IF u = t /\ d = D THEN g
                                                                   ELSE frames[u][d]
  BY <1>1, <1>2, <1>3 DEF Depth, D
<1>5. Connected' = Connected
  BY DEF Connected
<1>6. SignalTypeOK'
  BY <1>1, <1>2, <1>3 DEF SignalTypeOK
<1>7. ListInv'
  BY <1>5 DEF IInv, ListInv
<1>8. FramesInv'
  BY <1>4, <1>5 DEF IInv, FramesInv
<1>9. Pinned' \subseteq Connected \cup Pinned
  <2>. SUFFICES ASSUME NEW s \in Pinned' PROVE s \in Connected \cup Pinned
    OBVIOUS
  <2>0. PICK u \in Threads : \E d \in 1..Depth(u)' :
                                frames'[u][d].pin /\ s = RunningSlot(frames'[u][d])
    BY PinnedNext
  <2>1. PICK d \in 1..Depth(u)' : frames'[u][d].pin /\ s = RunningSlot(frames'[u][d])
    BY <2>0
  <2>2. CASE u = t /\ d = D
    BY <1>4, <2>1, <2>2 DEF Live
  <2>3. CASE ~(u = t /\ d = D)
    BY <1>4, <2>1, <2>3, PinnedAt
  <2>. QED  BY <2>2, <2>3
<1>. QED  BY <1>5, <1>6, <1>7, <1>8, <1>9 DEF IInv

\* It is over.
LEMMA PopStep ==
  ASSUME IInv, NEW t \in Threads, Depth(t) > 0,
         frames' = [frames EXCEPT ![t] = SubSeq(@, 1, Depth(t) - 1)],
         UNCHANGED <<slots_, handle, made, emits>>
  PROVE  IInv' /\ Connected' = Connected /\ Pinned' \subseteq Connected \cup Pinned
<1>. DEFINE D == Depth(t)
            z == SubSeq(frames[t], 1, D - 1)
<1>1. SignalTypeOK /\ frames[t] \in Seq(Frame) /\ D \in Nat /\ D > 0 /\ D = Len(frames[t])
  BY FrameTypes DEF IInv, Depth
<1>. HIDE DEF D
<1>2. z \in Seq(Frame) /\ Len(z) = D - 1 /\ \A d \in 1..(D - 1) : z[d] = frames[t][d]
  BY <1>1
<1>3. frames' = [frames EXCEPT ![t] = z] /\ frames \in [Threads -> Seq(Frame)]
  BY <1>1 DEF D, SignalTypeOK
<1>. HIDE DEF z
<1>4. \A u \in Threads : \A d \in 1..Depth(u)' : d \in 1..Depth(u) /\ frames'[u][d] = frames[u][d]
  <2>. TAKE u \in Threads
  <2>1. CASE u = t
    BY <1>1, <1>2, <1>3, <2>1 DEF Depth, D
  <2>2. CASE u # t
    BY <1>3, <2>2 DEF Depth
  <2>. QED  BY <2>1, <2>2
<1>5. Connected' = Connected
  BY DEF Connected
<1>6. SignalTypeOK'
  BY <1>1, <1>2, <1>3 DEF SignalTypeOK
<1>7. ListInv'
  BY <1>5 DEF IInv, ListInv
<1>8. FramesInv'
  BY <1>4, <1>5 DEF IInv, FramesInv
<1>9. Pinned' \subseteq Connected \cup Pinned
  <2>. SUFFICES ASSUME NEW s \in Pinned' PROVE s \in Connected \cup Pinned
    OBVIOUS
  <2>0. PICK u \in Threads : \E d \in 1..Depth(u)' :
                                frames'[u][d].pin /\ s = RunningSlot(frames'[u][d])
    BY PinnedNext
  <2>1. PICK d \in 1..Depth(u)' : frames'[u][d].pin /\ s = RunningSlot(frames'[u][d])
    BY <2>0
  <2>. QED  BY <1>4, <2>1, PinnedAt
<1>. QED  BY <1>5, <1>6, <1>7, <1>8, <1>9 DEF IInv

-----------------------------------------------------------------------------
(* The initial state, and each action. *)

LEMMA InitInvariant == SignalInit => IInv
<1>. SUFFICES ASSUME SignalInit PROVE IInv
  OBVIOUS
<1>. USE DEF SignalInit
<1>1. SignalTypeOK
  BY SignalAssumption DEF SignalTypeOK
<1>2. ListInv
  <2>1. Connected = {}
    BY DEF Connected
  <2>. QED  BY <2>1 DEF ListInv, Ascending, Range
<1>3. FramesInv
  BY DEF FramesInv, Depth
<1>. QED  BY <1>1, <1>2, <1>3 DEF IInv

\* What a step does to the connections and the pins.
NoneRevived == \A s \in 1..made : ~Live(s) => ~Live(s)'

LEMMA StillDead ==
  ASSUME IInv, Connected' \cap (1..made) \subseteq Connected \cup Pinned,
         Pinned' \subseteq Connected \cup Pinned
  PROVE  NoneRevived
BY DEF NoneRevived, Live

\* SlotHandles are copied, moved and dropped: nothing is connected by that.
LEMMA HandlesStep ==
  ASSUME IInv, handle' \in [SlotHandles -> Slots \cup {NoSlot}],
         \A h \in SlotHandles : handle'[h] # NoSlot => \E g \in SlotHandles : handle'[h] = handle[g],
         UNCHANGED <<slots_, frames, made, emits>>
  PROVE  IInv' /\ NoneRevived
<1>1. Connected' \subseteq Connected
  BY DEF Connected
<1>2. Pinned' = Pinned
  BY DEF Pinned, Depth
<1>3. SignalTypeOK' /\ made \in Nat
  BY DEF IInv, SignalTypeOK
<1>4. ListInv'
  BY <1>1 DEF IInv, ListInv
<1>5. FramesInv'
  BY <1>1, <1>3, FramesLater
<1>6. NoneRevived
  BY <1>1, <1>2, StillDead
<1>. QED  BY <1>3, <1>4, <1>5, <1>6 DEF IInv

LEMMA ConnectStep ==
  ASSUME IInv, NEW h \in SlotHandles, Connect(h)
  PROVE  IInv' /\ NoneRevived
<1>. USE DEF Connect
<1>. DEFINE s == made + 1
<1>1. /\ SignalTypeOK /\ ListInv /\ made \in Nat /\ s \in Slots /\ s \in Nat
      /\ slots_ \in Seq(Slots) /\ MaxSlots \in Nat
  BY SignalAssumption DEF IInv, SignalTypeOK, Slots
<1>2. /\ handle' \in [SlotHandles -> Slots \cup {NoSlot}]
      /\ \A g \in SlotHandles : handle'[g] = IF g = h THEN s ELSE handle[g]
  BY <1>1 DEF SignalTypeOK
<1>. HIDE DEF s
<1>3. Connected' \subseteq Connected \cup {s} /\ Pinned' = Pinned
  BY <1>2 DEF Connected, Pinned, Depth, s
<1>4. /\ slots_' \in Seq(Slots) /\ Len(slots_') = Len(slots_) + 1 /\ Len(slots_) \in Nat
      /\ slots_'[Len(slots_) + 1] = s
      /\ \A i \in 1..Len(slots_) : slots_'[i] = slots_[i]
  BY <1>1 DEF s
<1>5. SignalTypeOK'
  BY <1>1, <1>2, <1>4 DEF SignalTypeOK, s
<1>6. Range(slots_) \subseteq 1..made /\ \A i \in 1..Len(slots_) : slots_[i] \in 1..made
  BY <1>1 DEF ListInv, Range
<1>7. Range(slots_') = Range(slots_) \cup {s}
  <2>1. DOMAIN slots_' = 1..(Len(slots_) + 1) /\ DOMAIN slots_ = 1..Len(slots_)
    BY <1>1, <1>4
  <2>2. 1..(Len(slots_) + 1) = (1..Len(slots_)) \cup {Len(slots_) + 1}
    BY <1>4
  <2>. QED  BY <1>4, <2>1, <2>2 DEF Range
<1>8. Ascending(slots_')
  <2>. SUFFICES ASSUME NEW i \in 1..Len(slots_'), NEW j \in 1..Len(slots_'), i < j
                PROVE  slots_'[i] < slots_'[j]
    BY DEF Ascending
  <2>1. i \in 1..Len(slots_)
    BY <1>4
  <2>2. CASE j \in 1..Len(slots_)
    BY <1>1, <1>4, <2>1, <2>2 DEF ListInv, Ascending
  <2>3. CASE j = Len(slots_) + 1
    BY <1>1, <1>4, <1>6, <2>1, <2>3 DEF s
  <2>. QED  BY <1>4, <2>2, <2>3
<1>9. ListInv'
  <2>1. Range(slots_)' = Range(slots_')
    BY DEF Range
  <2>2. Range(slots_') \subseteq 1..made'
    BY <1>1, <1>6, <1>7 DEF s
  <2>. QED  BY <1>1, <1>3, <1>7, <1>8, <2>1, <2>2 DEF ListInv, Ascending
<1>10. Connected' \cap (1..made) \subseteq Connected
  BY <1>1, <1>3 DEF s
<1>11. FramesInv'
  BY <1>1, <1>10, FramesLater DEF s
<1>12. NoneRevived
  BY <1>3, <1>10, StillDead
<1>. QED  BY <1>5, <1>9, <1>11, <1>12 DEF IInv

LEMMA HandleStepInvariant ==
  ASSUME IInv, HandleStep
  PROVE  IInv' /\ NoneRevived
<1>. USE DEF IInv, SignalTypeOK
<1>1. CASE \E h \in SlotHandles : Connect(h)
  BY <1>1, ConnectStep
<1>2. CASE \E h \in SlotHandles : Drop(h)
  BY <1>2, HandlesStep DEF Drop
<1>3. CASE \E g, h \in SlotHandles : CopyHandle(g, h)
  BY <1>3, HandlesStep DEF CopyHandle
<1>4. CASE \E g, h \in SlotHandles : MoveHandle(g, h)
  BY <1>4, HandlesStep DEF MoveHandle
<1>. QED  BY <1>1, <1>2, <1>3, <1>4 DEF HandleStep

LEMMA EmitBeginStep ==
  ASSUME IInv, NEW t \in Threads, EmitBegin(t)
  PROVE  IInv' /\ NoneRevived
<1>. USE DEF EmitBegin
<1>. DEFINE list == Prune(slots_)
            f == FirstFrame(list)
            z == Append(frames[t], f)
            D == Depth(t)
<1>1. /\ SignalTypeOK /\ ListInv /\ made \in Nat /\ slots_ \in Seq(Slots) /\ Slots \subseteq Nat
      /\ frames \in [Threads -> Seq(Frame)]
  BY SignalAssumption, FrameTypes DEF IInv, SignalTypeOK, Slots
<1>2. /\ list \in Seq(Slots) /\ Ascending(list)
      /\ Range(list) = Range(slots_) \cap (Connected \cup Pinned)
  BY <1>1, PruneFacts DEF Prune, ListInv
<1>. HIDE DEF list
<1>3. f \in Frame /\ ~f.pin /\ f.snapshot = list /\ f.at = 1 /\ f.called = <<>>
  BY <1>2 DEF FirstFrame, Frame
<1>. HIDE DEF f
<1>4. Connected' = Connected
  BY DEF Connected
<1>5. FrameOk(f, made, Connected)
  <2>1. Len(f.called) = 0 /\ Len(list) \in Nat
    BY <1>2, <1>3
  <2>2. Range(list) \subseteq 1..made
    BY <1>1, <1>2 DEF ListInv
  <2>. QED  BY <1>2, <1>3, <2>1, <2>2 DEF FrameOk, Ascending
<1>6. frames[t] \in Seq(Frame) /\ D \in Nat /\ D = Len(frames[t])
  BY <1>1, FrameTypes DEF Depth
<1>7. z \in Seq(Frame) /\ Len(z) = D + 1 /\ z[D + 1] = f /\ \A d \in 1..D : z[d] = frames[t][d]
  BY <1>3, <1>6
<1>8. frames' = [frames EXCEPT ![t] = z]
  BY DEF f, list
<1>. HIDE DEF z, D
<1>9. \A u \in Threads : \A d \in 1..Depth(u)' :
        \/ frames'[u][d] = f
        \/ d \in 1..Depth(u) /\ frames'[u][d] = frames[u][d]
  <2>. TAKE u \in Threads
  <2>1. CASE u = t
    BY <1>1, <1>6, <1>7, <1>8, <2>1 DEF Depth, D
  <2>2. CASE u # t
    BY <1>1, <1>8, <2>2 DEF Depth
  <2>. QED  BY <2>1, <2>2
<1>10. slots_' = list
  BY DEF list
<1>11. SignalTypeOK'
  <2>1. frames' \in [Threads -> Seq(Frame)]
    BY <1>1, <1>7, <1>8
  <2>2. emits' \in 0..MaxEmits
    BY <1>1, SignalAssumption DEF SignalTypeOK
  <2>3. slots_' \in Seq(Slots)
    BY <1>2, <1>10
  <2>. HIDE DEF EmitBegin
  <2>4. UNCHANGED <<handle, made>>
    BY DEF EmitBegin
  <2>. QED  BY <1>1, <2>1, <2>2, <2>3, <2>4 DEF SignalTypeOK
<1>12. ListInv'
  <2>1. Connected \subseteq Range(list) /\ Range(list) \subseteq 1..made
    BY <1>1, <1>2 DEF ListInv
  <2>. QED  BY <1>2, <1>4, <1>10, <2>1 DEF ListInv
<1>13. FramesInv'
  <2>. SUFFICES ASSUME NEW u \in Threads, NEW d \in 1..Depth(u)'
                PROVE  FrameOk(frames'[u][d], made, Connected)
    BY <1>4 DEF FramesInv
  <2>. QED  BY <1>5, <1>9 DEF IInv, FramesInv
<1>14. Pinned' \subseteq Pinned
  <2>. SUFFICES ASSUME NEW s \in Pinned' PROVE s \in Pinned
    OBVIOUS
  <2>0. PICK u \in Threads : \E d \in 1..Depth(u)' :
                                frames'[u][d].pin /\ s = RunningSlot(frames'[u][d])
    BY PinnedNext
  <2>1. PICK d \in 1..Depth(u)' : frames'[u][d].pin /\ s = RunningSlot(frames'[u][d])
    BY <2>0
  <2>. QED  BY <1>3, <1>9, <2>1, PinnedAt
<1>15. NoneRevived
  BY <1>4, <1>14, StillDead
<1>. QED  BY <1>11, <1>12, <1>13, <1>15 DEF IInv

\* The emit that a thread is in, and where it is in the list.
LEMMA TopFacts ==
  ASSUME IInv, NEW t \in Threads, Depth(t) > 0
  PROVE  /\ SignalTypeOK /\ Depth(t) \in 1..Depth(t) /\ Depth(t) = Len(frames[t])
         /\ frames[t] \in Seq(Frame)
         /\ Top(t) \in Frame /\ FrameOk(Top(t), made, Connected)
         /\ Top(t).snapshot \in Seq(Slots) /\ Top(t).called \in Seq(Slots)
         /\ Top(t).at \in Nat \ {0}
         /\ frames[t][Depth(t)] = Top(t)
<1>1. SignalTypeOK /\ Depth(t) \in Nat /\ frames[t] \in Seq(Frame)
  BY FrameTypes DEF IInv
<1>2. Depth(t) \in 1..Depth(t)
  BY <1>1
<1>3. Top(t) \in Frame /\ FrameOk(Top(t), made, Connected)
  BY <1>1, <1>2, FrameTypes DEF IInv, FramesInv, Top
<1>. QED  BY <1>1, <1>2, <1>3 DEF Frame, Depth, Top

LEMMA FrameCalls ==
  ASSUME NEW f \in Frame, NEW q \in Seq(Slots)
  PROVE  LET g == [f EXCEPT !.pin = TRUE, !.called = q]
         IN  /\ g \in Frame /\ g.pin /\ g.snapshot = f.snapshot
             /\ g.at = f.at /\ g.called = q
BY DEF Frame

LEMMA FrameAdvances ==
  ASSUME NEW f \in Frame
  PROVE  LET g == [f EXCEPT !.pin = FALSE, !.at = f.at + 1]
         IN  /\ g \in Frame /\ ~g.pin /\ g.snapshot = f.snapshot
             /\ g.at = f.at + 1 /\ g.called = f.called
<1>1. f.at + 1 \in Nat \ {0}
  BY DEF Frame
<1>. DEFINE n == f.at + 1
<1>. HIDE DEF n
<1>2. n \in Nat \ {0}
  BY <1>1 DEF n
<1>3. LET g == [f EXCEPT !.pin = FALSE, !.at = n]
      IN  /\ g \in Frame /\ ~g.pin /\ g.snapshot = f.snapshot
          /\ g.at = n /\ g.called = f.called
  BY <1>2 DEF Frame
<1>. QED  BY <1>3 DEF n

LEMMA CallStep ==
  ASSUME IInv, NEW t \in Threads, CallSlot(t)
  PROVE  IInv' /\ NoneRevived
<1>. DEFINE f == Top(t)
            r == RunningSlot(f)
            a == f.snapshot
            c == f.called
            g == [f EXCEPT !.pin = TRUE, !.called = Append(f.called, r)]
<1>1. Depth(t) > 0 /\ ~f.pin /\ f.at <= Len(a) /\ Live(r) /\ r = a[f.at]
  BY DEF CallSlot, InLoop, Listed, RunningSlot
<1>2. /\ SignalTypeOK /\ f \in Frame /\ FrameOk(f, made, Connected)
      /\ a \in Seq(Slots) /\ c \in Seq(Slots) /\ f.at \in Nat \ {0}
      /\ Slots \subseteq Nat
  BY <1>1, TopFacts DEF Slots
<1>3. Len(a) \in Nat /\ f.at \in 1..Len(a) /\ r \in Slots
  BY <1>1, <1>2
<1>4. /\ g \in Frame /\ g.pin /\ g.snapshot = a /\ g.at = f.at /\ g.called = Append(c, r)
      /\ RunningSlot(g) = r
  <2>1. Append(c, r) \in Seq(Slots)
    BY <1>2, <1>3
  <2>. QED  BY <1>1, <1>2, <2>1, FrameCalls, Zenon DEF RunningSlot, Listed
<1>5. frames' = [frames EXCEPT ![t] = [@ EXCEPT ![Depth(t)] = g]]
  BY <1>1, TopFacts DEF CallSlot, SignalTypeOK
<1>. HIDE DEF g
<1>6. /\ Len(c) \in Nat /\ Len(Append(c, r)) = Len(c) + 1 /\ Append(c, r)[Len(c) + 1] = r
      /\ \A k \in 1..Len(c) : Append(c, r)[k] = c[k]
  BY <1>2, <1>3
<1>7. \A k \in 1..Len(c) : \E i \in 1..Len(a) : c[k] = a[i] /\ i < f.at
  BY <1>1, <1>2 DEF FrameOk
<1>8. \A k \in 1..Len(c) : c[k] < r
  BY <1>1, <1>2, <1>3, <1>7 DEF FrameOk, Ascending
<1>. DEFINE b == Append(c, r)
<1>9. DOMAIN b = 1..(Len(c) + 1) /\ DOMAIN c = 1..Len(c)
  BY <1>2, <1>3
<1>. HIDE DEF b
<1>10. Range(c) \subseteq Range(b) /\ r \in Range(b)
  <2>1. \A k \in 1..Len(c) : k \in 1..(Len(c) + 1) /\ b[k] = c[k]
    BY <1>6 DEF b
  <2>2. Len(c) + 1 \in 1..(Len(c) + 1) /\ b[Len(c) + 1] = r
    BY <1>6 DEF b
  <2>. QED  BY <1>9, <2>1, <2>2 DEF Range
<1>11. Ascending(b)
  <2>. SUFFICES ASSUME NEW i \in 1..Len(b), NEW j \in 1..Len(b), i < j
                PROVE  b[i] < b[j]
    BY DEF Ascending
  <2>1. i \in 1..Len(c)
    BY <1>6 DEF b
  <2>2. CASE j \in 1..Len(c)
    BY <1>2, <1>6, <2>1, <2>2 DEF FrameOk, Ascending, b
  <2>3. CASE j = Len(c) + 1
    BY <1>6, <1>8, <2>1, <2>3 DEF b
  <2>. QED  BY <1>6, <2>2, <2>3 DEF b
<1>12. \A k \in 1..Len(b) : \E i \in 1..Len(a) : b[k] = a[i] /\ (i < f.at \/ i = f.at)
  <2>. TAKE k \in 1..Len(b)
  <2>1. CASE k \in 1..Len(c)
    BY <1>6, <1>7, <2>1 DEF b
  <2>2. CASE k = Len(c) + 1
    BY <1>1, <1>3, <1>6, <2>2 DEF b
  <2>. QED  BY <1>6, <2>1, <2>2 DEF b
<1>13. FrameOk(g, made, Connected)
  <2>1. g.called = b
    BY <1>4 DEF b
  <2>2. /\ Ascending(a) /\ Range(a) \subseteq 1..made
        /\ \A i \in 1..Len(a) : i < f.at /\ a[i] \in Connected => a[i] \in Range(c)
    BY <1>2 DEF FrameOk
  <2>3. \A i \in 1..Len(a) : i < f.at /\ a[i] \in Connected => a[i] \in Range(b)
    BY <1>10, <2>2
  <2>4. f.at <= Len(a) /\ a[f.at] \in Range(b)
    BY <1>1, <1>10
  <2>. HIDE DEF f, a, c, r
  <2>5. /\ Ascending(g.snapshot) /\ Range(g.snapshot) \subseteq 1..made /\ Ascending(g.called)
        /\ g.pin /\ g.at <= Len(g.snapshot) /\ g.snapshot[g.at] \in Range(g.called)
    BY <1>4, <1>11, <2>1, <2>2, <2>4
  <2>6. \A i \in 1..Len(g.snapshot) :
          i < g.at /\ g.snapshot[i] \in Connected => g.snapshot[i] \in Range(g.called)
    BY <1>4, <2>1, <2>3
  <2>7. \A k \in 1..Len(g.called) : \E i \in 1..Len(g.snapshot) :
          g.called[k] = g.snapshot[i] /\ (i < g.at \/ (g.pin /\ i = g.at))
    <3>. TAKE k \in 1..Len(g.called)
    <3>1. PICK i \in 1..Len(a) : b[k] = a[i] /\ (i < f.at \/ i = f.at)
      BY <1>12, <2>1
    <3>2. i \in 1..Len(g.snapshot) /\ g.called[k] = g.snapshot[i] /\ (i < g.at \/ i = g.at)
      BY <1>4, <2>1, <3>1
    <3>. QED  BY <1>4, <3>2, Zenon
  <2>. QED  BY <2>5, <2>6, <2>7 DEF FrameOk
<1>14. UNCHANGED <<slots_, handle, made, emits>>
  BY DEF CallSlot
<1>. HIDE DEF f, r
<1>15. IInv' /\ Connected' = Connected /\ Pinned' \subseteq Connected \cup Pinned
  BY <1>1, <1>4, <1>5, <1>13, <1>14, TopStep
<1>. QED  BY <1>15, StillDead

\* A slot that is passed over has no handle; one that has returned was run.
LEMMA AdvanceStep ==
  ASSUME IInv, NEW t \in Threads, Depth(t) > 0,
         LET f == Top(t)
         IN  /\ f.at <= Len(f.snapshot)
             /\ f.pin \/ RunningSlot(f) \notin Connected
             /\ frames' = [frames EXCEPT ![t] =
                  [@ EXCEPT ![Depth(t)] = [f EXCEPT !.pin = FALSE, !.at = f.at + 1]]],
         UNCHANGED <<slots_, handle, made, emits>>
  PROVE  IInv' /\ NoneRevived
<1>. DEFINE f == Top(t)
            a == f.snapshot
            c == f.called
            g == [f EXCEPT !.pin = FALSE, !.at = f.at + 1]
<1>1. /\ f \in Frame /\ FrameOk(f, made, Connected)
      /\ a \in Seq(Slots) /\ c \in Seq(Slots) /\ f.at \in Nat \ {0}
  BY TopFacts
<1>2. /\ g \in Frame /\ ~g.pin /\ g.snapshot = a /\ g.at = f.at + 1 /\ g.called = c
  BY <1>1, FrameAdvances, Zenon
<1>3. frames' = [frames EXCEPT ![t] = [@ EXCEPT ![Depth(t)] = g]]
  OBVIOUS
<1>. HIDE DEF g
<1>4. a[f.at] \in Connected => a[f.at] \in Range(c)
  BY <1>1 DEF FrameOk, RunningSlot, Listed
<1>5. /\ Ascending(a) /\ Range(a) \subseteq 1..made /\ Ascending(c)
      /\ \A i \in 1..Len(a) : i < f.at /\ a[i] \in Connected => a[i] \in Range(c)
      /\ \A k \in 1..Len(c) : \E i \in 1..Len(a) :
           c[k] = a[i] /\ (i < f.at \/ (f.pin /\ i = f.at))
  BY <1>1 DEF FrameOk
<1>6. Len(a) \in Nat /\ Len(c) \in Nat
  BY <1>1
<1>7. FrameOk(g, made, Connected)
  <2>. HIDE DEF f, a, c
  <2>1. \A i \in 1..Len(a) : i < f.at + 1 => i < f.at \/ i = f.at
    BY <1>1, <1>6
  <2>2. \A i \in 1..Len(a) : i < f.at + 1 /\ a[i] \in Connected => a[i] \in Range(c)
    BY <1>4, <1>5, <2>1
  <2>3. \A i \in 1..Len(a) : i < f.at \/ (f.pin /\ i = f.at) => i < f.at + 1
    BY <1>1, <1>6 DEF a
  <2>4. \A k \in 1..Len(c) : \E i \in 1..Len(a) : c[k] = a[i] /\ i < f.at + 1
    BY <1>5, <2>3
  <2>5. /\ Ascending(g.snapshot) /\ Range(g.snapshot) \subseteq 1..made /\ Ascending(g.called)
        /\ ~g.pin
    BY <1>2, <1>5
  <2>6. \A i \in 1..Len(g.snapshot) :
          i < g.at /\ g.snapshot[i] \in Connected => g.snapshot[i] \in Range(g.called)
    BY <1>2, <2>2
  <2>7. \A k \in 1..Len(g.called) : \E i \in 1..Len(g.snapshot) :
          g.called[k] = g.snapshot[i] /\ (i < g.at \/ (g.pin /\ i = g.at))
    <3>. TAKE k \in 1..Len(g.called)
    <3>1. PICK i \in 1..Len(a) : c[k] = a[i] /\ i < f.at + 1
      BY <1>2, <2>4
    <3>2. i \in 1..Len(g.snapshot) /\ g.called[k] = g.snapshot[i] /\ i < g.at
      BY <1>2, <3>1
    <3>. QED  BY <3>2, Zenon
  <2>. QED  BY <2>5, <2>6, <2>7 DEF FrameOk
<1>. HIDE DEF f
<1>8. IInv' /\ Connected' = Connected /\ Pinned' \subseteq Connected \cup Pinned
  BY <1>2, <1>3, <1>7, TopStep
<1>. QED  BY <1>8, StillDead

LEMMA SkipStep ==
  ASSUME IInv, NEW t \in Threads, Skip(t)
  PROVE  IInv' /\ NoneRevived
<1>1. /\ Depth(t) > 0 /\ ~Top(t).pin /\ Top(t).at <= Len(Top(t).snapshot)
      /\ RunningSlot(Top(t)) \notin Connected
  BY DEF Skip, InLoop, Listed, Live
<1>2. frames' = [frames EXCEPT ![t] =
        [@ EXCEPT ![Depth(t)] = [Top(t) EXCEPT !.pin = FALSE, !.at = Top(t).at + 1]]]
  <2>1. [Top(t) EXCEPT !.pin = FALSE, !.at = Top(t).at + 1] = [Top(t) EXCEPT !.at = Top(t).at + 1]
    BY <1>1, TopFacts DEF Frame
  <2>. QED  BY <1>1, <2>1, TopFacts DEF Skip, SignalTypeOK
<1>3. UNCHANGED <<slots_, handle, made, emits>>
  BY DEF Skip
<1>. QED  BY <1>1, <1>2, <1>3, AdvanceStep

LEMMA SlotReturnsStep ==
  ASSUME IInv, NEW t \in Threads, SlotReturns(t)
  PROVE  IInv' /\ NoneRevived
<1>1. Depth(t) > 0 /\ Top(t).pin /\ Top(t).at <= Len(Top(t).snapshot)
  BY TopFacts DEF SlotReturns, FrameOk
<1>2. frames' = [frames EXCEPT ![t] =
        [@ EXCEPT ![Depth(t)] = [Top(t) EXCEPT !.pin = FALSE, !.at = Top(t).at + 1]]]
  BY <1>1, TopFacts DEF SlotReturns, SignalTypeOK
<1>3. UNCHANGED <<slots_, handle, made, emits>>
  BY DEF SlotReturns
<1>. QED  BY <1>1, <1>2, <1>3, AdvanceStep

LEMMA EmitOverStep ==
  ASSUME IInv, NEW t \in Threads, SlotThrows(t) \/ EmitEnd(t)
  PROVE  IInv' /\ NoneRevived
BY PopStep, StillDead DEF SlotThrows, EmitEnd

LEMMA NextInvariant ==
  ASSUME IInv, SignalNext
  PROVE  IInv' /\ NoneRevived
<1>1. CASE HandleStep
  BY <1>1, HandleStepInvariant
<1>2. ASSUME NEW t \in Threads, EmitBegin(t) \/ EmitStep(t) \/ SlotThrows(t)
      PROVE  IInv' /\ NoneRevived
  BY <1>2, EmitBeginStep, CallStep, SkipStep, SlotReturnsStep, EmitOverStep DEF EmitStep
<1>. QED  BY <1>1, <1>2 DEF SignalNext

LEMMA StutterInvariant ==
  ASSUME IInv, UNCHANGED signalVars
  PROVE  IInv' /\ NoneRevived
<1>. USE DEF signalVars
<1>1. Connected' = Connected /\ Pinned' = Pinned
  BY DEF Connected, Pinned, Depth
<1>2. SignalTypeOK' /\ ListInv' /\ FramesInv'
  BY <1>1 DEF IInv, SignalTypeOK, ListInv, FramesInv, Depth
<1>. QED  BY <1>1, <1>2, StillDead DEF IInv

-----------------------------------------------------------------------------
(* The results. *)

(* The inductive invariant: the list holds every connected slot, in the order
   of the connects, and each emit's history agrees with its position. *)
THEOREM SignalInvariant == SignalSpec => []IInv
BY InitInvariant, NextInvariant, StutterInvariant, PTL DEF SignalSpec

(* Type correctness: for any number of slots and threads, no emit's position
   or copy of the list leaves its range. *)
THEOREM SignalTypes == SignalSpec => []SignalTypeOK
<1>1. IInv => SignalTypeOK
  BY DEF IInv
<1>. QED  BY <1>1, SignalInvariant, PTL

(* An emit runs connected slots in order and at most once, and passes over
   none that still has a handle, however many threads connect, disconnect and
   emit meanwhile, and however deep. *)
THEOREM SignalEmitsExactly == SignalSpec => []EmitExact
<1>1. IInv => EmitExact
  <2>. SUFFICES ASSUME IInv, NEW f \in AllFrames
                PROVE  /\ Ascending(f.called)
                       /\ Range(f.called) \subseteq Range(f.snapshot)
                       /\ \A i \in 1..Len(f.snapshot) :
                            i < f.at /\ f.snapshot[i] \in Connected =>
                              f.snapshot[i] \in Range(f.called)
    BY DEF EmitExact
  <2>1. PICK t \in Threads : f \in Range(frames[t])
    BY DEF AllFrames
  <2>2. \E d \in 1..Depth(t) : f = frames[t][d]
    BY <2>1, FrameTypes DEF IInv, Range, Depth
  <2>3. f \in Frame /\ FrameOk(f, made, Connected)
    BY <2>2, FrameTypes DEF IInv, FramesInv
  <2>4. /\ f.called \in Seq(Slots) /\ f.snapshot \in Seq(Slots)
        /\ DOMAIN f.called = 1..Len(f.called) /\ DOMAIN f.snapshot = 1..Len(f.snapshot)
    BY <2>3 DEF Frame
  <2>5. Range(f.called) \subseteq Range(f.snapshot)
    BY <2>3, <2>4 DEF FrameOk, Range
  <2>. QED  BY <2>3, <2>5 DEF FrameOk
<1>. QED  BY <1>1, SignalInvariant, PTL

(* size() outside every emit is the number of connections, for any number of
   dead slots in the list and of handles that share a connection. *)
THEOREM SignalSizeIsConnections == SignalSpec => []SizeIsConnections
<1>1. IInv => SizeIsConnections
  <2>. SUFFICES ASSUME IInv, \A t \in Threads : Depth(t) = 0
                PROVE  SignalSize = Cardinality(Connected)
    BY DEF SizeIsConnections
  <2>. DEFINE L == {i \in 1..Len(slots_) : Live(slots_[i])}
              g == [i \in L |-> slots_[i]]
  <2>1. /\ slots_ \in Seq(Slots) /\ Len(slots_) \in Nat /\ DOMAIN slots_ = 1..Len(slots_)
        /\ \A i \in 1..Len(slots_) : slots_[i] \in Nat
        /\ Ascending(slots_) /\ Connected \subseteq Range(slots_)
    <3>1. slots_ \in Seq(Slots) /\ Slots \subseteq Nat
      BY DEF IInv, SignalTypeOK, Slots
    <3>2. \A i \in 1..Len(slots_) : slots_[i] \in Slots
      BY <3>1
    <3>3. Len(slots_) \in Nat /\ DOMAIN slots_ = 1..Len(slots_)
      BY <3>1
    <3>4. \A i \in 1..Len(slots_) : slots_[i] \in Nat
      BY <3>1, <3>2
    <3>. QED  BY <3>1, <3>3, <3>4 DEF IInv, ListInv
  <2>2. Pinned = {}
    <3>1. \A t \in Threads : 1..Depth(t) = {}
      OBVIOUS
    <3>. QED  BY <3>1 DEF Pinned
  <2>3. \A s : Live(s) <=> s \in Connected
    BY <2>2 DEF Live
  <2>4. g \in [L -> Connected]
    BY <2>3
  <2>5. \A i, j \in L : i # j => g[i] # g[j]
    <3>. TAKE i \in L, j \in L
    <3>1. i < j => slots_[i] < slots_[j] /\ slots_[i] \in Nat /\ slots_[j] \in Nat
      BY <2>1 DEF Ascending
    <3>2. j < i => slots_[j] < slots_[i] /\ slots_[i] \in Nat /\ slots_[j] \in Nat
      BY <2>1 DEF Ascending
    <3>3. i \in Nat /\ j \in Nat
      OBVIOUS
    <3>. QED  BY <3>1, <3>2, <3>3
  <2>6. \A s \in Connected : \E i \in L : g[i] = s
    BY <2>1, <2>3 DEF Range
  <2>7. g \in Bijection(L, Connected)
    BY <2>4, <2>5, <2>6 DEF Bijection, Injection, Surjection, IsInjective
  <2>8. IsFiniteSet(L)
    <3>1. IsFiniteSet(1..Len(slots_))
      BY <2>1, FS_Interval
    <3>. QED  BY <3>1, FS_Subset
  <2>. HIDE DEF L, g
  <2>9. Cardinality(Connected) = Cardinality(L)
    BY <2>7, <2>8, FS_Bijection DEF ExistsBijection
  <2>. QED  BY <2>9 DEF SignalSize, L
<1>. QED  BY <1>1, SignalInvariant, PTL

(* A slot that no handle and no emit keeps alive stays dead, whatever
   snapshots still list it. *)
THEOREM SignalDeadStaysDead == SignalSpec => DeadStaysDead
<1>1. IInv /\ [SignalNext]_signalVars => NoneRevived
  BY NextInvariant, StutterInvariant
<1>. QED  BY <1>1, SignalInvariant, PTL DEF SignalSpec, DeadStaysDead, NoneRevived
=============================================================================
