---------------------------- MODULE ForkJoinProofs ----------------------------
(***************************************************************************)
(* Theorems about ForkJoin, for every number of elements and of threads,   *)
(* every schedule of the tasks and every step that throws.                 *)
(***************************************************************************)
EXTENDS ForkJoin, SequenceTheorems, WellFoundedInduction, TLAPS

(* Where the caller is says what it has launched and collected. *)
CallerInv ==
  /\ \A t \in AsyncTasks : t < futs <=> chunk_[t] # "none"
  /\ \A t \in AsyncTasks : t < got => chunk_[t] = "ok"
  /\ caller = "launching" => got = 0
  /\ caller \in {"collecting", "returned"} => ~MoreChunks
  /\ caller = "returned" => got = futs
  /\ caller = "threw" => \A t \in AsyncTasks : ~Unfinished(t)
  /\ error = "task" =>
       /\ caller \in {"unwinding", "threw"}
       /\ got \in AsyncTasks /\ chunk_[got] = "failed"

(* What a task is doing says where in its chunk it is. *)
TaskInv ==
  \A t \in AsyncTasks :
    /\ chunk_[t] = "none" => pos[t] = Lo(t)
    /\ chunk_[t] = "ok" => pos[t] = Hi(t)
    /\ chunk_[t] = "writing" => pos[t] < Hi(t) /\ kind = "map"

(* A task has reduced what it has dealt with, from the initial value on. *)
Upto(l, p) == Seed \o [i \in 1..(p - l) |-> l + i - 1]

Partial(t) == Upto(Lo(t), pos[t])

Reduction(n) == Seed \o FlattenSeq([k \in 1..n |-> ChunkReduced(k - 1)])

ReduceInv ==
  kind = "reduce" => result = Reduction(got) /\ \A t \in AsyncTasks : acc[t] = Partial(t)

(* What a task has dealt with is in the result, if no two elements share a
   memory location. *)
MapInv == kind = "map" /\ WordBits = 1 => \A t \in AsyncTasks : Handled(t) \subseteq out

IInv == ForkJoinTypeOK /\ CallerInv /\ TaskInv /\ ReduceInv /\ MapInv

-----------------------------------------------------------------------------
(* Induction, by way of a set: the provers cannot instantiate the predicate of
   the library's theorem. *)

LEMMA LeastElement ==
  ASSUME NEW T \in SUBSET Nat, T # {}
  PROVE  \E m \in T : \A k \in T : m <= k
<1>. DEFINE R == {p \in Nat \X Nat : p[1] < p[2]}
<1>1. IsWellFoundedOn(R, Nat)
  BY NatLessThanWellFounded DEF OpToRel
<1>. HIDE DEF R
<1>2. \E m \in T : \A k \in T : ~ (<<k, m>> \in R)
  BY <1>1, WFMin
<1>3. ASSUME NEW m \in T, NEW k \in T, ~ (<<k, m>> \in R)
      PROVE  m <= k
  BY <1>3 DEF R
<1>. QED  BY <1>2, <1>3

LEMMA InductionOnSet ==
  ASSUME NEW S, 0 \in S, \A n \in Nat : n \in S => n + 1 \in S
  PROVE  Nat \subseteq S
<1>. SUFFICES ASSUME Nat \ S # {} PROVE FALSE
  OBVIOUS
<1>1. PICK m \in Nat \ S : \A k \in Nat \ S : m <= k
  BY LeastElement
<1>2. m # 0 /\ m - 1 \in Nat /\ m - 1 \notin Nat \ S
  BY <1>1
<1>. QED  BY <1>1, <1>2

-----------------------------------------------------------------------------
(* Concatenation of a sequence of sequences. *)

IsFlat(g, s, n) == g = [i \in 1..n |-> IF i = 1 THEN s[i] ELSE g[i - 1] \o s[i]]

Flat(s, n) == CHOOSE g : IsFlat(g, s, n)

\* The recursion has a solution ...
LEMMA FlatExists ==
  ASSUME NEW s, NEW n \in Nat
  PROVE  \E g : IsFlat(g, s, n)
<1>. DEFINE S == {m \in Nat : \E g : IsFlat(g, s, m)}
<1>1. 0 \in S
  <2>1. IsFlat([i \in 1..0 |-> s[i]], s, 0)
    BY DEF IsFlat
  <2>. QED  BY <2>1
<1>2. ASSUME NEW m \in Nat, m \in S
      PROVE  m + 1 \in S
  <2>1. PICK g : IsFlat(g, s, m)
    BY <1>2
  <2>. DEFINE h == [i \in 1..(m + 1) |->
                      IF i = 1 THEN s[i] ELSE IF i = m + 1 THEN g[m] \o s[i] ELSE g[i]]
  <2>2. ASSUME NEW i \in 1..(m + 1)
        PROVE  h[i] = IF i = 1 THEN s[i] ELSE h[i - 1] \o s[i]
    <3>1. CASE i = 1
      BY <3>1
    <3>2. CASE i = m + 1 /\ i # 1
      <4>1. i - 1 = m /\ m \in 1..(m + 1) /\ m # m + 1 /\ m \in 1..m
        BY <3>2
      <4>2. h[m] = g[m]
        <5>1. m = 1 => g[m] = s[m]
          BY <4>1, <2>1 DEF IsFlat
        <5>. QED  BY <5>1, <4>1
      <4>. QED  BY <3>2, <4>1, <4>2
    <3>3. CASE i # m + 1 /\ i # 1
      <4>1. i \in 1..m /\ i - 1 \in 1..m /\ i - 1 \in 1..(m + 1) /\ i - 1 # m + 1
        BY <3>3
      <4>2. h[i - 1] = g[i - 1]
        <5>1. i - 1 = 1 => g[i - 1] = s[i - 1]
          BY <4>1, <2>1 DEF IsFlat
        <5>. QED  BY <5>1, <4>1
      <4>3. h[i] = g[i] /\ g[i] = g[i - 1] \o s[i]
        BY <4>1, <3>3, <2>1 DEF IsFlat
      <4>. QED  BY <4>2, <4>3, <3>3
    <3>. QED  BY <3>1, <3>2, <3>3
  <2>3. h = [i \in 1..(m + 1) |-> h[i]]
    OBVIOUS
  <2>. HIDE DEF h
  <2>4. IsFlat(h, s, m + 1)
    BY <2>2, <2>3 DEF IsFlat
  <2>. QED  BY <2>4
<1>. HIDE DEF S
<1>3. Nat \subseteq S
  BY <1>1, <1>2, InductionOnSet
<1>. QED  BY <1>3 DEF S

\* ... and depends on nothing but the elements up to its argument.
LEMMA FlatAgree ==
  ASSUME NEW s, NEW t, NEW n \in Nat, NEW m \in Nat, m <= n, NEW g, NEW h,
         IsFlat(g, s, n), IsFlat(h, t, m),
         \A i \in 1..m : s[i] = t[i]
  PROVE  \A i \in 1..m : g[i] = h[i]
<1>. DEFINE S == {k \in Nat : k \in 1..m => g[k] = h[k]}
<1>1. 0 \in S
  OBVIOUS
<1>2. ASSUME NEW k \in Nat, k \in S
      PROVE  k + 1 \in S
  <2>1. SUFFICES ASSUME k + 1 \in 1..m PROVE g[k + 1] = h[k + 1]
    OBVIOUS
  <2>2. k + 1 \in 1..n /\ s[k + 1] = t[k + 1] /\ (k + 1) - 1 = k /\ (k # 0 => k \in 1..m)
    BY <2>1
  <2>. HIDE DEF S
  <2>3. /\ \A i \in 1..n : g[i] = IF i = 1 THEN s[i] ELSE g[i - 1] \o s[i]
        /\ \A i \in 1..m : h[i] = IF i = 1 THEN t[i] ELSE h[i - 1] \o t[i]
    BY Zenon DEF IsFlat
  <2>4. /\ g[k + 1] = IF k + 1 = 1 THEN s[k + 1] ELSE g[k] \o s[k + 1]
        /\ h[k + 1] = IF k + 1 = 1 THEN t[k + 1] ELSE h[k] \o t[k + 1]
    BY <2>1, <2>2, <2>3, Zenon
  <2>5. k # 0 => g[k] = h[k]
    BY <1>2, <2>2 DEF S
  <2>. QED  BY <2>2, <2>4, <2>5
<1>. HIDE DEF S
<1>3. Nat \subseteq S
  BY <1>1, <1>2, InductionOnSet
<1>. QED  BY <1>3 DEF S

LEMMA FlatIs ==
  ASSUME NEW s, NEW n \in Nat
  PROVE  IsFlat(Flat(s, n), s, n)
BY FlatExists, Zenon DEF Flat

LEMMA FlatSame ==
  ASSUME NEW s, NEW t, NEW n \in Nat, \A i \in 1..n : s[i] = t[i]
  PROVE  \A i \in 1..n : Flat(s, n + 1)[i] = Flat(t, n)[i]
<1>. DEFINE N == n + 1
            g == Flat(s, N)
            h == Flat(t, n)
<1>1. IsFlat(g, s, N) /\ IsFlat(h, t, n) /\ N \in Nat /\ n <= N
  BY FlatIs
<1>. HIDE DEF g, h, N
<1>2. \A i \in 1..n : g[i] = h[i]
  BY <1>1, FlatAgree
<1>. QED  BY <1>2 DEF g, h, N

\* What comes last is concatenated last.
LEMMA FlattenAppend ==
  ASSUME NEW X, NEW n \in Nat, NEW s \in Seq(Seq(X)), Len(s) = n + 1
  PROVE  FlattenSeq(s) = FlattenSeq([k \in 1..n |-> s[k]]) \o s[n + 1]
<1>. DEFINE t == [k \in 1..n |-> s[k]]
<1>1. t \in Seq(Seq(X)) /\ Len(t) = n
  OBVIOUS
<1>2. IsFlat(Flat(s, n + 1), s, n + 1) /\ IsFlat(Flat(t, n), t, n)
  <2>. HIDE DEF t
  <2>. QED  BY FlatIs
<1>3. FlattenSeq(s) = Flat(s, n + 1)[n + 1]
  BY DEF FlattenSeq, Flat, IsFlat
<1>4. n # 0 => FlattenSeq(t) = Flat(t, n)[n]
  BY <1>1 DEF FlattenSeq, Flat, IsFlat
<1>5. n = 0 => FlattenSeq(t) = <<>>
  BY <1>1 DEF FlattenSeq
<1>. HIDE DEF t
<1>6. CASE n = 0
  <2>1. FlattenSeq(s) = s[1] /\ s[1] \in Seq(X)
    BY <1>6, <1>3, <1>2 DEF IsFlat
  <2>. QED  BY <2>1, <1>5, <1>6 DEF t
<1>7. CASE n # 0
  <2>1. \A i \in 1..n : s[i] = t[i]
    BY DEF t
  <2>2. \A i \in 1..n : Flat(s, n + 1)[i] = Flat(t, n)[i]
    BY <2>1, FlatSame, ZenonT(60)
  <2>3. n + 1 \in 1..(n + 1) /\ n + 1 # 1 /\ n \in 1..n /\ (n + 1) - 1 = n
    BY <1>7
  <2>4. Flat(s, n + 1)[n + 1] = Flat(s, n + 1)[n] \o s[n + 1]
    BY <1>2, <2>3 DEF IsFlat
  <2>. QED  BY <1>3, <1>4, <1>7, <2>2, <2>3, <2>4 DEF t
<1>. QED  BY <1>6, <1>7

-----------------------------------------------------------------------------
(* The arithmetic of the chunks. *)

\* Division with remainder.
LEMMA DivMod ==
  ASSUME NEW c \in Nat \ {0}, NEW a \in Nat
  PROVE  /\ a = c * (a \div c) + (a % c)
         /\ a % c \in 0..(c - 1)
         /\ a \div c \in Nat
OBVIOUS

LEMMA MulMonotonic ==
  ASSUME NEW c \in Nat, NEW a \in Nat, NEW b \in Nat, a <= b
  PROVE  a * c <= b * c /\ a * c \in Nat
OBVIOUS

\* There is a thread, and the chunks are long enough for all elements.
LEMMA ChunkFacts ==
  ASSUME ForkJoinTypeOK
  PROVE  /\ NThreads \in 1..MaxThreads
         /\ Chunk \in Nat /\ total \in Nat
         /\ total > 0 => Chunk > 0
         /\ total <= NThreads * Chunk
<1>. USE ForkJoinAssumption DEF ForkJoinTypeOK
<1>1. NThreads \in 1..MaxThreads /\ total \in Nat
  BY DEF NThreads
<1>. DEFINE N == NThreads
            a == total + N - 1
<1>2. N \in Nat \ {0} /\ a \in Nat
  BY <1>1
<1>. HIDE DEF N
<1>3. /\ a = N * (a \div N) + (a % N)
      /\ a % N \in 0..(N - 1)
      /\ a \div N \in Nat
  BY <1>2, DivMod
<1>4. Chunk = a \div N
  BY DEF Chunk, N
<1>. HIDE DEF a
<1>5. N * Chunk + (a % N) = total + N - 1
  BY <1>3, <1>4 DEF a
<1>6. total <= N * Chunk
  BY <1>1, <1>2, <1>3, <1>4, <1>5
<1>7. total > 0 => Chunk # 0
  BY <1>1, <1>2, <1>6
<1>. QED  BY <1>1, <1>3, <1>4, <1>6, <1>7 DEF N

\* A chunk ends where the next one begins.
LEMMA ChunkEnds ==
  ASSUME ForkJoinTypeOK, NEW t \in Nat
  PROVE  /\ Lo(t) \in 0..total /\ Hi(t) \in 0..total
         /\ Hi(t) = Lo(t + 1)
         /\ Lo(t) <= Hi(t)
         /\ t = 0 => Lo(t) = 0
<1>1. t * Chunk \in Nat /\ (t + 1) * Chunk \in Nat /\ t * Chunk <= (t + 1) * Chunk
  BY ChunkFacts, MulMonotonic
<1>2. t = 0 => t * Chunk = 0
  BY ChunkFacts
<1>. QED  BY <1>1, <1>2, ChunkFacts DEF Lo, Hi, AtMostTotal

\* AsyncTasks are in the order of their numbers.
LEMMA ChunksOrdered ==
  ASSUME ForkJoinTypeOK, NEW t \in Nat, NEW u \in Nat, t < u
  PROVE  Hi(t) <= Lo(u)
<1>1. (t + 1) * Chunk \in Nat /\ u * Chunk \in Nat /\ (t + 1) * Chunk <= u * Chunk
  BY ChunkFacts, MulMonotonic
<1>. QED  BY <1>1, ChunkFacts DEF Lo, Hi, AtMostTotal

\* Every element is in a chunk, which is launched before the loop ends.
LEMMA ChunksCover ==
  ASSUME ForkJoinTypeOK, ~MoreChunks, NEW e \in Elements
  PROVE  \E t \in 0..(futs - 1) : e \in Lo(t)..(Hi(t) - 1)
<1>. DEFINE C == Chunk
            t == e \div C
<1>1. /\ total \in Nat /\ e \in Nat /\ e < total /\ futs \in Nat /\ futs <= NThreads
      /\ C \in Nat \ {0} /\ NThreads \in Nat /\ total <= NThreads * C
  BY ChunkFacts DEF Elements, ForkJoinTypeOK
<1>. HIDE DEF C
<1>2. e = C * t + (e % C) /\ e % C \in 0..(C - 1) /\ t \in Nat
  BY <1>1, DivMod
<1>. HIDE DEF t
<1>3. t * C <= e /\ e < (t + 1) * C /\ t * C \in Nat /\ (t + 1) * C \in Nat
  BY <1>1, <1>2
<1>4. e \in Lo(t)..(Hi(t) - 1)
  BY <1>1, <1>3 DEF Lo, Hi, AtMostTotal, C
<1>5. t < futs
  <2>1. SUFFICES ASSUME futs <= t PROVE FALSE
    BY <1>1, <1>2
  <2>2. futs * C <= t * C /\ futs * C \in Nat
    BY <2>1, <1>1, <1>2, MulMonotonic
  <2>3. futs * C < total
    BY <2>2, <1>1, <1>3
  <2>4. futs # NThreads
    BY <2>3, <1>1
  <2>5. (futs + 1) * C = futs * C + C
    BY <1>1
  <2>6. Lo(futs) # Hi(futs)
    BY <2>2, <2>3, <2>5, <1>1 DEF Lo, Hi, AtMostTotal, C
  <2>. QED  BY <2>4, <2>6, <1>1 DEF MoreChunks
<1>. QED  BY <1>1, <1>2, <1>4, <1>5

\* Nothing of this changes during a call.
LEMMA ArgsStep ==
  ASSUME UNCHANGED args
  PROVE  /\ kind' = kind /\ total' = total
         /\ NThreads' = NThreads /\ Elements' = Elements
         /\ \A t : Lo(t)' = Lo(t) /\ Hi(t)' = Hi(t) /\ ChunkReduced(t)' = ChunkReduced(t)
         /\ \A n : Reduction(n)' = Reduction(n)
BY DEF args, NThreads, Elements, Lo, Hi, AtMostTotal, Chunk, ChunkReduced, Reduction

-----------------------------------------------------------------------------
(* The reduction of the chunks. *)

Chunks(n) == [k \in 1..n |-> ChunkReduced(k - 1)]

LEMMA AppendConcat ==
  ASSUME NEW a \in Seq(Nat), NEW b \in Seq(Nat), NEW e \in Nat
  PROVE  Append(a \o b, e) = a \o Append(b, e)
<1>1. a \o b \in Seq(Nat) /\ <<e>> \in Seq(Nat)
  BY ConcatProperties
<1>2. Append(a \o b, e) = (a \o b) \o <<e>> /\ Append(b, e) = b \o <<e>>
  BY <1>1, AppendIsConcat
<1>3. (a \o b) \o <<e>> = a \o (b \o <<e>>)
  BY <1>1, ConcatAssociative
<1>. QED  BY <1>2, <1>3, Zenon

LEMMA ChunkReducedType ==
  ASSUME ForkJoinTypeOK, NEW t \in Nat
  PROVE  ChunkReduced(t) \in Seq(Nat)
<1>. DEFINE l == Lo(t)
            d == Hi(t) - Lo(t)
<1>1. l \in Nat /\ d \in Nat
  BY ChunkEnds, ChunkFacts
<1>. HIDE DEF l, d
<1>2. [i \in 1..d |-> l + i - 1] \in Seq(Nat)
  BY <1>1
<1>3. ChunkReduced(t) = Seed \o [i \in 1..d |-> l + i - 1] /\ Seed \in Seq(Nat)
  BY ForkJoinAssumption DEF ChunkReduced, l, d
<1>. QED  BY <1>2, <1>3, ConcatProperties

LEMMA ChunksAppend ==
  ASSUME ForkJoinTypeOK, NEW n \in Nat
  PROVE  FlattenSeq(Chunks(n + 1)) = FlattenSeq(Chunks(n)) \o ChunkReduced(n)
<1>1. \A k \in 1..(n + 1) : ChunkReduced(k - 1) \in Seq(Nat)
  BY ChunkReducedType
<1>2. Chunks(n + 1) \in Seq(Seq(Nat)) /\ Len(Chunks(n + 1)) = n + 1
  BY <1>1 DEF Chunks
<1>3. Chunks(n) = [k \in 1..n |-> Chunks(n + 1)[k]]
  BY DEF Chunks
<1>4. Chunks(n + 1)[n + 1] = ChunkReduced(n)
  BY DEF Chunks
<1>. QED  BY <1>2, <1>3, <1>4, FlattenAppend

LEMMA ChunksEmpty == FlattenSeq(Chunks(0)) = <<>>
BY DEF FlattenSeq, Chunks

LEMMA ChunksFlatType ==
  ASSUME ForkJoinTypeOK, NEW n \in Nat
  PROVE  FlattenSeq(Chunks(n)) \in Seq(Nat)
<1>. DEFINE S == {m \in Nat : FlattenSeq(Chunks(m)) \in Seq(Nat)}
<1>1. 0 \in S
  <2>1. <<>> \in Seq(Nat)
    OBVIOUS
  <2>. QED  BY <2>1, ChunksEmpty, Zenon
<1>2. ASSUME NEW m \in Nat, m \in S
      PROVE  m + 1 \in S
  <2>1. FlattenSeq(Chunks(m)) \in Seq(Nat) /\ ChunkReduced(m) \in Seq(Nat)
    BY <1>2, ChunkReducedType
  <2>2. FlattenSeq(Chunks(m)) \o ChunkReduced(m) \in Seq(Nat)
    BY <2>1, ConcatProperties
  <2>3. FlattenSeq(Chunks(m + 1)) = FlattenSeq(Chunks(m)) \o ChunkReduced(m)
    BY ChunksAppend
  <2>4. m + 1 \in Nat
    OBVIOUS
  <2>. QED  BY <2>2, <2>3, <2>4, Zenon
<1>. HIDE DEF S
<1>3. Nat \subseteq S
  BY <1>1, <1>2, InductionOnSet
<1>. QED  BY <1>3 DEF S

\* Collecting one more future reduces one more chunk.
LEMMA ReductionStep ==
  ASSUME ForkJoinTypeOK
  PROVE  /\ Reduction(0) = Seed
         /\ \A n \in Nat : Reduction(n + 1) = Reduction(n) \o ChunkReduced(n)
<1>1. Seed \in Seq(Nat)
  BY ForkJoinAssumption
<1>2. Reduction(0) = Seed
  BY <1>1, ChunksEmpty, ConcatEmptySeq DEF Reduction, Chunks
<1>3. ASSUME NEW n \in Nat
      PROVE  Reduction(n + 1) = Reduction(n) \o ChunkReduced(n)
  <2>1. FlattenSeq(Chunks(n)) \in Seq(Nat) /\ ChunkReduced(n) \in Seq(Nat)
    BY ChunksFlatType, ChunkReducedType
  <2>2. Reduction(n + 1) = Seed \o (FlattenSeq(Chunks(n)) \o ChunkReduced(n))
    BY ChunksAppend DEF Reduction, Chunks
  <2>3. Reduction(n) = Seed \o FlattenSeq(Chunks(n))
    BY DEF Reduction, Chunks
  <2>4. Seed \o (FlattenSeq(Chunks(n)) \o ChunkReduced(n))
          = (Seed \o FlattenSeq(Chunks(n))) \o ChunkReduced(n)
    BY <1>1, <2>1, ConcatAssociative
  <2>. QED  BY <2>2, <2>3, <2>4, Zenon
<1>. QED  BY <1>2, <1>3

\* A task that has dealt with its whole chunk has reduced it, and one element
\* more is reduced by appending it.
LEMMA PartialStep ==
  ASSUME ForkJoinTypeOK, NEW t \in AsyncTasks
  PROVE  /\ pos[t] = Lo(t) => Partial(t) = Seed
         /\ pos[t] = Hi(t) => Partial(t) = ChunkReduced(t)
         /\ Append(Partial(t), pos[t]) = Upto(Lo(t), pos[t] + 1)
<1>1. /\ Lo(t) \in Nat /\ pos[t] \in Nat /\ Lo(t) <= pos[t] /\ Seed \in Seq(Nat)
      /\ t \in Nat
  <2>1. t \in Nat /\ Seed \in Seq(Nat)
    BY ForkJoinAssumption DEF AsyncTasks
  <2>2. Lo(t) \in 0..total /\ total \in Nat
    BY <2>1, ChunkEnds, ChunkFacts
  <2>3. pos[t] \in 0..total /\ pos[t] \in Lo(t)..Hi(t)
    BY DEF ForkJoinTypeOK
  <2>. QED  BY <2>1, <2>2, <2>3
<1>2. pos[t] = Lo(t) => Partial(t) = Seed
  BY <1>1, ConcatEmptySeq DEF Partial, Upto
<1>3. pos[t] = Hi(t) => Partial(t) = ChunkReduced(t)
  BY DEF Partial, Upto, ChunkReduced
<1>. DEFINE d == pos[t] - Lo(t)
            l == Lo(t)
            u == [i \in 1..d |-> l + i - 1]
            v == [i \in 1..(d + 1) |-> l + i - 1]
<1>4. d \in Nat /\ l \in Nat /\ pos[t] = l + d /\ pos[t] + 1 - Lo(t) = d + 1
  BY <1>1
<1>5. Partial(t) = Seed \o u
  BY DEF Partial, Upto
<1>. HIDE DEF d, l
<1>6. u \in Seq(Nat) /\ v = Append(u, l + d) /\ v \in Seq(Nat) /\ l + d \in Nat
  BY <1>4
<1>. HIDE DEF u, v
<1>7. Append(Seed \o u, l + d) = Seed \o v
  BY <1>1, <1>6, AppendConcat
<1>8. Upto(Lo(t), pos[t] + 1) = Seed \o v
  BY <1>4 DEF Upto, v, l
<1>. QED  BY <1>2, <1>3, <1>4, <1>5, <1>7, <1>8

-----------------------------------------------------------------------------
(* The invariant holds initially ... *)

LEMMA InitInvariant == ForkJoinInit => IInv
<1>. SUFFICES ASSUME ForkJoinInit PROVE IInv
  OBVIOUS
<1>. USE ForkJoinAssumption
<1>1. NThreads \in 1..MaxThreads /\ total \in Nat
  BY DEF ForkJoinInit, NThreads
<1>2. ASSUME NEW t \in Nat
      PROVE  Lo(t) \in 0..total /\ Hi(t) \in 0..total /\ Lo(t) <= Hi(t)
  <2>1. Chunk \in Nat
    <3>. DEFINE N == NThreads
    <3>1. N \in Nat \ {0} /\ total + N - 1 \in Nat
      BY <1>1
    <3>. HIDE DEF N
    <3>. QED  BY <3>1, DivMod DEF Chunk, N
  <2>2. t * Chunk \in Nat /\ (t + 1) * Chunk \in Nat /\ t * Chunk <= (t + 1) * Chunk
    BY <2>1, MulMonotonic
  <2>. QED  BY <1>1, <2>2 DEF Lo, Hi, AtMostTotal
<1>3. \A t \in AsyncTasks : t \in Nat /\ pos[t] = Lo(t)
  BY DEF ForkJoinInit, AsyncTasks
<1>4. ForkJoinTypeOK
  <2>1. pos \in [AsyncTasks -> 0..total] /\ \A t \in AsyncTasks : pos[t] \in Lo(t)..Hi(t)
    <3>1. \A t \in AsyncTasks : Lo(t) \in 0..total /\ Lo(t) \in Lo(t)..Hi(t)
      BY <1>1, <1>2, <1>3
    <3>. QED  BY <3>1, <1>1, <1>3 DEF ForkJoinInit
  <2>. QED  BY <1>1, <2>1 DEF ForkJoinInit, ForkJoinTypeOK
<1>5. CallerInv
  <2>1. caller = "returned" => Lo(futs) = 0 /\ Hi(futs) = 0
    BY <1>1, <1>2 DEF ForkJoinInit, Lo, Hi, AtMostTotal
  <2>. QED  BY <1>3, <2>1 DEF ForkJoinInit, CallerInv, MoreChunks, Unfinished
<1>6. TaskInv
  BY DEF ForkJoinInit, TaskInv
<1>7. ReduceInv
  <2>1. \A t \in AsyncTasks : acc[t] = Seed
    BY DEF ForkJoinInit
  <2>. QED  BY <1>3, <1>4, <2>1, ReductionStep, PartialStep DEF ForkJoinInit, ReduceInv
<1>8. MapInv
  <2>1. \A t \in AsyncTasks : Lo(t) \in Nat /\ Handled(t) = {}
    <3>. SUFFICES ASSUME NEW t \in AsyncTasks PROVE Lo(t) \in Nat /\ Handled(t) = {}
      OBVIOUS
    <3>1. Lo(t) \in 0..total /\ pos[t] = Lo(t)
      BY <1>2, <1>3
    <3>. QED  BY <1>1, <3>1 DEF Handled
  <2>. QED  BY <2>1 DEF MapInv
<1>. QED  BY <1>4, <1>5, <1>6, <1>7, <1>8 DEF IInv

(* ... and every step preserves it: those of the caller ... *)

\* What the tasks have done is the same after a step of the caller alone.
LEMMA TasksUntouched ==
  ASSUME IInv, UNCHANGED <<args, pos, acc, word, out>>
  PROVE  /\ MapInv'
         /\ \A t \in AsyncTasks : Partial(t)' = Partial(t)
         /\ chunk_' = chunk_ => TaskInv'
<1>1. \A t : Handled(t)' = Handled(t) /\ Partial(t)' = Partial(t)
  <2>1. \A t : Lo(t)' = Lo(t)
    BY ArgsStep
  <2>. QED  BY <2>1 DEF Handled, Partial
<1>. QED  BY <1>1, ArgsStep DEF IInv, MapInv, TaskInv

LEMMA GotIsTask ==
  ASSUME ForkJoinTypeOK
  PROVE  got \in Nat /\ (got < futs => got \in AsyncTasks)
<1>1. futs \in 0..NThreads /\ got \in 0..futs
  BY DEF ForkJoinTypeOK
<1>2. NThreads \in 1..MaxThreads /\ MaxThreads \in Nat
  BY ChunkFacts, ForkJoinAssumption
<1>. QED  BY <1>1, <1>2 DEF AsyncTasks

LEMMA LaunchStep ==
  ASSUME IInv, Launch
  PROVE  IInv'
<1>. USE DEF Launch
<1>1. ForkJoinTypeOK /\ futs \in AsyncTasks /\ futs + 1 \in 0..NThreads
  <2>1. ForkJoinTypeOK /\ futs \in 0..NThreads /\ futs < NThreads
    BY DEF IInv, ForkJoinTypeOK, MoreChunks
  <2>2. NThreads \in 1..MaxThreads /\ MaxThreads \in Nat
    BY <2>1, ChunkFacts, ForkJoinAssumption
  <2>. QED  BY <2>1, <2>2 DEF AsyncTasks
<1>2. ForkJoinTypeOK'
  BY <1>1, ArgsStep DEF ForkJoinTypeOK, args
<1>3. CallerInv'
  BY <1>1 DEF IInv, CallerInv, ForkJoinTypeOK, AsyncTasks, Unfinished
<1>4. TaskInv'
  BY <1>1, ArgsStep DEF IInv, TaskInv, ForkJoinTypeOK
<1>5. ReduceInv'
  BY TasksUntouched, ArgsStep DEF IInv, ReduceInv
<1>. QED  BY <1>2, <1>3, <1>4, <1>5, TasksUntouched DEF IInv

\* Steps that only move the caller on.
LEMMA CallerMoves ==
  ASSUME IInv,
         UNCHANGED <<args, tasks, futs, got, result>>,
         \/ caller' = "unwinding"
         \/ caller' = "collecting" /\ ~MoreChunks
         \/ caller' = "returned" /\ ~MoreChunks /\ got = futs
         \/ caller' = "threw" /\ caller = "unwinding" /\ \A t \in AsyncTasks : ~Unfinished(t),
         \/ caller' \in {"collecting", "returned", "threw"} /\ caller # "threw" /\ error' = error
         \/ caller' = "unwinding" /\ error' = "other"
         \/ caller' = "unwinding" /\ error' = "task" /\ got \in AsyncTasks /\ chunk_[got] = "failed",
         caller' \in {"collecting", "returned"} => caller \in {"launching", "collecting"}
  PROVE  IInv'
<1>. USE DEF tasks
<1>1. ForkJoinTypeOK'
  BY ArgsStep DEF IInv, ForkJoinTypeOK, args
<1>2. MoreChunks' = MoreChunks
  BY ArgsStep DEF MoreChunks
<1>3. CallerInv'
  BY <1>2 DEF IInv, CallerInv, ForkJoinTypeOK, Unfinished
<1>4. ReduceInv'
  BY TasksUntouched, ArgsStep DEF IInv, ReduceInv
<1>. QED  BY <1>1, <1>3, <1>4, TasksUntouched DEF IInv

LEMMA GetStep ==
  ASSUME IInv, Get
  PROVE  IInv'
<1>. USE DEF Get, tasks
<1>1. ForkJoinTypeOK /\ got \in AsyncTasks /\ got \in Nat
  BY GotIsTask DEF IInv
<1>2. kind = "reduce" => result' = Reduction(got + 1)
  <2>1. pos[got] = Hi(got)
    BY <1>1 DEF IInv, TaskInv
  <2>2. kind = "reduce" => result = Reduction(got) /\ acc[got] = ChunkReduced(got)
    BY <1>1, <2>1, PartialStep DEF IInv, ReduceInv
  <2>. QED  BY <1>1, <2>2, ReductionStep
<1>3. ForkJoinTypeOK'
  <2>1. result' \in Seq(Nat)
    BY <1>1, ConcatProperties DEF ForkJoinTypeOK
  <2>. QED  BY <1>1, <2>1, ArgsStep DEF ForkJoinTypeOK, args
<1>4. CallerInv'
  <2>1. MoreChunks' = MoreChunks
    BY ArgsStep DEF MoreChunks
  <2>. QED  BY <1>1, <2>1 DEF IInv, CallerInv, ForkJoinTypeOK, Unfinished, AsyncTasks
<1>5. ReduceInv'
  BY <1>2, TasksUntouched, ArgsStep DEF IInv, ReduceInv
<1>. QED  BY <1>3, <1>4, <1>5, TasksUntouched DEF IInv

LEMMA CallerStepInvariant ==
  ASSUME IInv, CallerStep
  PROVE  IInv'
<1>1. CASE Launch
  BY <1>1, LaunchStep
<1>2. CASE LaunchFails
  BY <1>2, CallerMoves DEF LaunchFails
<1>3. CASE AllLaunched
  BY <1>3, CallerMoves DEF AllLaunched
<1>4. CASE Get
  BY <1>4, GetStep
<1>5. CASE GetThrows
  <2>1. got \in AsyncTasks
    BY <1>5, GotIsTask DEF GetThrows, IInv
  <2>. QED  BY <1>5, <2>1, CallerMoves DEF GetThrows
<1>6. CASE ReduceThrows
  BY <1>6, CallerMoves DEF ReduceThrows
<1>7. CASE Return
  BY <1>7, CallerMoves DEF Return, IInv, CallerInv
<1>8. CASE CallUnwound
  BY <1>8, CallerMoves DEF CallUnwound
<1>. QED  BY <1>1, <1>2, <1>3, <1>4, <1>5, <1>6, <1>7, <1>8 DEF CallerStep

(* ... and those of a task. *)

LEMMA AtElementFacts ==
  ASSUME IInv, NEW t \in AsyncTasks, Unfinished(t), pos[t] < Hi(t)
  PROVE  /\ pos[t] \in Elements /\ pos[t] \in Nat /\ total \in Nat
         /\ pos[t] + 1 \in 0..total
         /\ Lo(t) \in Nat /\ Hi(t) \in Nat /\ Lo(t) <= pos[t] /\ pos[t] + 1 <= Hi(t)
<1>1. ForkJoinTypeOK /\ t \in Nat
  BY DEF IInv, AsyncTasks
<1>2. Lo(t) \in 0..total /\ Hi(t) \in 0..total /\ total \in Nat
  BY <1>1, ChunkEnds, ChunkFacts
<1>3. pos[t] \in Lo(t)..Hi(t)
  BY <1>1 DEF ForkJoinTypeOK
<1>. QED  BY <1>2, <1>3 DEF Elements

\* A task that goes on, or ends, disturbs nothing that the caller relies on.
LEMMA CallerUndisturbed ==
  ASSUME IInv, NEW t \in AsyncTasks, Unfinished(t), NEW c \in {"running", "writing", "ok", "failed"},
         chunk_' = [chunk_ EXCEPT ![t] = c],
         UNCHANGED <<args, caller, futs, got, result, error>>
  PROVE  CallerInv'
<1>1. MoreChunks' = MoreChunks
  BY ArgsStep DEF MoreChunks
<1>2. /\ chunk_[t] \in {"running", "writing"}
      /\ chunk_ \in [AsyncTasks -> {"none", "running", "writing", "ok", "failed"}]
  BY DEF Unfinished, IInv, ForkJoinTypeOK
<1>3. \A u \in AsyncTasks : chunk_'[u] = IF u = t THEN c ELSE chunk_[u]
  BY <1>2
<1>4. ~(t < got) /\ caller # "threw" /\ (error = "task" => got # t)
  BY <1>2 DEF IInv, CallerInv, Unfinished
<1>. QED  BY <1>1, <1>2, <1>3, <1>4 DEF IInv, CallerInv, Unfinished

LEMMA ApplyStep ==
  ASSUME IInv, NEW t \in AsyncTasks, Apply(t)
  PROVE  IInv'
<1>. USE DEF Apply, AtElement
<1>1. Unfinished(t) /\ ForkJoinTypeOK
  BY DEF Unfinished, IInv
<1>2. /\ pos[t] \in Nat /\ total \in Nat /\ pos[t] + 1 \in 0..total
      /\ Lo(t) \in Nat /\ Hi(t) \in Nat /\ Lo(t) <= pos[t] /\ pos[t] + 1 <= Hi(t)
  BY <1>1, AtElementFacts
<1>3. pos \in [AsyncTasks -> 0..total] /\ acc \in [AsyncTasks -> Seq(Nat)]
  BY <1>1 DEF ForkJoinTypeOK
<1>4. pos' \in [AsyncTasks -> 0..total] /\ \A u \in AsyncTasks : pos'[u] = IF u = t THEN pos[t] + 1 ELSE pos[u]
  BY <1>2, <1>3
<1>5. ForkJoinTypeOK'
  <2>1. acc' \in [AsyncTasks -> Seq(Nat)]
    BY <1>2, <1>3
  <2>2. \A u \in AsyncTasks : pos'[u] \in Lo(u)..Hi(u)
    BY <1>1, <1>2, <1>4 DEF ForkJoinTypeOK
  <2>. QED  BY <1>1, <1>4, <2>1, <2>2, ArgsStep DEF ForkJoinTypeOK, args
<1>6. CallerInv'
  <2>1. chunk_' = [chunk_ EXCEPT ![t] = "running"]
    BY <1>1 DEF ForkJoinTypeOK
  <2>. QED  BY <1>1, <2>1, CallerUndisturbed
<1>7. TaskInv'
  BY <1>4, ArgsStep DEF IInv, TaskInv
<1>8. ReduceInv'
  <2>. SUFFICES ASSUME kind = "reduce"
                PROVE  result = Reduction(got) /\ \A u \in AsyncTasks : acc'[u] = Partial(u)'
    BY ArgsStep DEF ReduceInv
  <2>1. result = Reduction(got) /\ \A u \in AsyncTasks : acc[u] = Partial(u)
    BY DEF IInv, ReduceInv
  <2>0. \A u \in AsyncTasks : Lo(u)' = Lo(u)
    BY ArgsStep
  <2>2. ASSUME NEW u \in AsyncTasks, u # t
        PROVE  Partial(u)' = Partial(u)
    <3>1. pos'[u] = pos[u]
      BY <1>4, <2>2
    <3>. QED  BY <2>0, <3>1 DEF Partial
  <2>3. Partial(t)' = Upto(Lo(t), pos[t] + 1)
    <3>1. pos'[t] = pos[t] + 1
      BY <1>4
    <3>. HIDE DEF Apply
    <3>. QED  BY <2>0, <3>1 DEF Partial
  <2>4. Partial(t)' = Append(Partial(t), pos[t])
    BY <1>1, <2>3, PartialStep
  <2>5. acc'[t] = Append(acc[t], pos[t]) /\ \A u \in AsyncTasks : u # t => acc'[u] = acc[u]
    BY <1>3
  <2>. QED  BY <2>1, <2>2, <2>4, <2>5
<1>9. MapInv'
  BY ArgsStep DEF MapInv
<1>. QED  BY <1>5, <1>6, <1>7, <1>8, <1>9 DEF IInv

\* A task that stays where it is has neither reduced nor written anything.
LEMMA TaskStays ==
  ASSUME IInv, NEW t \in AsyncTasks, Unfinished(t),
         NEW c \in {"running", "writing", "ok", "failed"},
         chunk_' = [chunk_ EXCEPT ![t] = c],
         c = "ok" => pos[t] = Hi(t),
         c = "writing" => pos[t] < Hi(t) /\ kind = "map",
         word' \in [AsyncTasks -> SUBSET Elements],
         UNCHANGED <<args, pos, acc, out, caller, futs, got, result, error>>
  PROVE  IInv'
<1>1. ForkJoinTypeOK'
  BY ArgsStep DEF IInv, ForkJoinTypeOK, args
<1>2. CallerInv'
  BY CallerUndisturbed
<1>3. TaskInv'
  BY ArgsStep DEF IInv, TaskInv, ForkJoinTypeOK
<1>4. \A u \in AsyncTasks : Partial(u)' = Partial(u) /\ Handled(u)' = Handled(u)
  BY ArgsStep DEF Partial, Handled
<1>5. ReduceInv'
  BY <1>4, ArgsStep DEF IInv, ReduceInv
<1>6. MapInv'
  BY <1>4, ArgsStep DEF IInv, MapInv
<1>. QED  BY <1>1, <1>2, <1>3, <1>5, <1>6 DEF IInv

LEMMA WriteStep ==
  ASSUME IInv, NEW t \in AsyncTasks, WriteLocation(t)
  PROVE  IInv'
<1>. USE DEF WriteLocation
<1>1. Unfinished(t) /\ ForkJoinTypeOK /\ pos[t] < Hi(t) /\ kind = "map"
  BY DEF Unfinished, IInv, TaskInv
<1>2. /\ pos[t] \in Elements /\ pos[t] \in Nat /\ total \in Nat /\ pos[t] + 1 \in 0..total
      /\ Lo(t) \in Nat /\ Hi(t) \in Nat /\ Lo(t) <= pos[t] /\ pos[t] + 1 <= Hi(t)
  BY <1>1, AtElementFacts
<1>3. pos \in [AsyncTasks -> 0..total] /\ word \in [AsyncTasks -> SUBSET Elements] /\ out \subseteq Elements
  BY <1>1 DEF ForkJoinTypeOK
<1>4. pos' \in [AsyncTasks -> 0..total] /\ \A u \in AsyncTasks : pos'[u] = IF u = t THEN pos[t] + 1 ELSE pos[u]
  BY <1>2, <1>3
<1>5. ForkJoinTypeOK'
  <2>1. word' \in [AsyncTasks -> SUBSET Elements] /\ out' \subseteq Elements
    BY <1>2, <1>3
  <2>2. \A u \in AsyncTasks : pos'[u] \in Lo(u)..Hi(u)
    BY <1>1, <1>2, <1>4 DEF ForkJoinTypeOK
  <2>. QED  BY <1>1, <1>4, <2>1, <2>2, ArgsStep DEF ForkJoinTypeOK, args
<1>6. CallerInv'
  BY <1>1, CallerUndisturbed
<1>7. TaskInv'
  BY <1>1, <1>4, ArgsStep DEF IInv, TaskInv, ForkJoinTypeOK
<1>8. ReduceInv'
  BY <1>1, ArgsStep DEF ReduceInv
<1>9. MapInv'
  <2>. SUFFICES ASSUME WordBits = 1, NEW u \in AsyncTasks, NEW e \in Handled(u)' PROVE e \in out'
    BY DEF MapInv
  <2>1. Location(pos[t]) \subseteq {pos[t]}
    <3>1. \A j \in Nat : j \div 1 = j
      OBVIOUS
    <3>. QED  BY <3>1, <1>2 DEF Location, Elements
  <2>2. e \in Handled(u) \/ e = pos[t]
    BY <1>2, <1>4, ArgsStep DEF Handled
  <2>3. Handled(u) \subseteq out
    BY <1>1 DEF IInv, MapInv
  <2>. QED  BY <2>1, <2>2, <2>3
<1>. QED  BY <1>5, <1>6, <1>7, <1>8, <1>9 DEF IInv

LEMMA TaskStepInvariant ==
  ASSUME IInv, NEW t \in AsyncTasks, TaskStep(t)
  PROVE  IInv'
<1>1. CASE Apply(t)
  BY <1>1, ApplyStep
<1>2. CASE ReadLocation(t)
  <2>1. word' \in [AsyncTasks -> SUBSET Elements]
    BY <1>2 DEF ReadLocation, IInv, ForkJoinTypeOK
  <2>. QED  BY <1>2, <2>1, TaskStays DEF ReadLocation, AtElement, Unfinished
<1>3. CASE WriteLocation(t)
  BY <1>3, WriteStep
<1>4. CASE Throw(t)
  <2>1. word' \in [AsyncTasks -> SUBSET Elements]
    BY <1>4 DEF Throw, IInv, ForkJoinTypeOK
  <2>. QED  BY <1>4, <2>1, TaskStays DEF Throw, AtElement, Unfinished
<1>5. CASE Finish(t)
  <2>1. word' \in [AsyncTasks -> SUBSET Elements]
    BY <1>5 DEF Finish, IInv, ForkJoinTypeOK
  <2>. QED  BY <1>5, <2>1, TaskStays DEF Finish, Unfinished
<1>. QED  BY <1>1, <1>2, <1>3, <1>4, <1>5 DEF TaskStep

LEMMA StepInvariant == IInv /\ [ForkJoinNext]_forkJoinVars => IInv'
<1>. SUFFICES ASSUME IInv, [ForkJoinNext]_forkJoinVars PROVE IInv'
  OBVIOUS
<1>1. CASE ForkJoinNext
  BY <1>1, CallerStepInvariant, TaskStepInvariant DEF ForkJoinNext
<1>2. CASE UNCHANGED forkJoinVars
  <2>. USE <1>2 DEF forkJoinVars, tasks
  <2>1. ForkJoinTypeOK' /\ MoreChunks' = MoreChunks
    BY ArgsStep DEF IInv, ForkJoinTypeOK, args, MoreChunks
  <2>2. CallerInv'
    BY <2>1 DEF IInv, CallerInv, Unfinished
  <2>3. ReduceInv'
    BY TasksUntouched, ArgsStep DEF IInv, ReduceInv
  <2>. QED  BY <2>1, <2>2, <2>3, TasksUntouched DEF IInv
<1>. QED  BY <1>1, <1>2

-----------------------------------------------------------------------------
(* The inductive invariant: the caller's position agrees with the tasks that
   it has launched and collected, each task's with its chunk, and partial
   results with what was dealt with. *)
THEOREM ForkJoinInvariant == ForkJoinSpec => []IInv
BY InitInvariant, StepInvariant, PTL DEF ForkJoinSpec

(* Type correctness, for any number of elements and threads. *)
THEOREM ForkJoinTypes == ForkJoinSpec => []ForkJoinTypeOK
<1>1. IInv => ForkJoinTypeOK
  BY DEF IInv
<1>. QED  BY <1>1, ForkJoinInvariant, PTL

(* The chunks of any range for any number of threads cover it and do not
   overlap, and all are dealt with when the call returns. *)
THEOREM ForkJoinEachElementOnce == ForkJoinSpec => []EachElementOnce
<1>1. IInv => EachElementOnce
  <2>. SUFFICES ASSUME IInv PROVE EachElementOnce
    OBVIOUS
  <2>1. ForkJoinTypeOK
    BY DEF IInv
  <2>2. ASSUME NEW t \in 0..(futs - 1)
        PROVE  t \in AsyncTasks /\ t \in Nat /\ Lo(t) \in Nat /\ Hi(t) \in Nat /\ pos[t] \in Lo(t)..Hi(t)
               /\ Hi(t) <= total /\ total \in Nat
    <3>1. t \in AsyncTasks /\ t \in Nat
      BY <2>1, ChunkFacts, ForkJoinAssumption DEF ForkJoinTypeOK, AsyncTasks
    <3>. QED  BY <2>1, <3>1, ChunkEnds, ChunkFacts DEF ForkJoinTypeOK
  <2>3. ASSUME NEW t \in 0..(futs - 1), NEW u \in 0..(futs - 1), t # u
        PROVE  Handled(t) \cap Handled(u) = {}
    <3>1. CASE t < u
      BY <2>1, <2>2, <3>1, ChunksOrdered DEF Handled
    <3>2. CASE u < t
      BY <2>1, <2>2, <3>2, ChunksOrdered DEF Handled
    <3>. QED  BY <2>2, <2>3, <3>1, <3>2
  <2>4. ASSUME caller = "returned"
        PROVE  UNION {Handled(t) : t \in 0..(futs - 1)} = Elements
    <3>1. ~MoreChunks /\ got = futs
      BY <2>4 DEF IInv, CallerInv
    <3>2. ASSUME NEW t \in 0..(futs - 1)
          PROVE  pos[t] = Hi(t)
      <4>1. t \in AsyncTasks /\ t < got
        BY <2>1, <2>2, <3>1 DEF ForkJoinTypeOK
      <4>2. chunk_[t] = "ok"
        BY <4>1 DEF IInv, CallerInv
      <4>. QED  BY <4>1, <4>2 DEF IInv, TaskInv
    <3>3. ASSUME NEW e \in Elements
          PROVE  \E t \in 0..(futs - 1) : e \in Handled(t)
      BY <2>1, <3>1, <3>2, ChunksCover DEF Handled
    <3>4. ASSUME NEW t \in 0..(futs - 1), NEW e \in Handled(t)
          PROVE  e \in Elements
      BY <2>2 DEF Handled, Elements
    <3>. QED  BY <3>3, <3>4
  <2>. QED  BY <2>1, <2>3, <2>4 DEF EachElementOnce
<1>. QED  BY <1>1, ForkJoinInvariant, PTL

(* Whichever step throws, no task runs on when the call is over, and those
   that have not failed have finished their chunks. *)
THEOREM ForkJoinNoTaskOutlives == ForkJoinSpec => []NoTaskOutlivesCall
<1>1. IInv => NoTaskOutlivesCall
  <2>. SUFFICES ASSUME IInv, caller \in {"returned", "threw"}
                PROVE  /\ \A t \in AsyncTasks : ~Unfinished(t)
                       /\ \A t \in 0..(futs - 1) : chunk_[t] # "failed" => pos[t] = Hi(t)
    BY DEF NoTaskOutlivesCall
  <2>1. \A t \in AsyncTasks : ~Unfinished(t)
    BY DEF IInv, CallerInv, Unfinished, AsyncTasks
  <2>2. ASSUME NEW t \in 0..(futs - 1), chunk_[t] # "failed"
        PROVE  pos[t] = Hi(t)
    <3>1. t \in AsyncTasks /\ t < futs
      <4>1. NThreads \in 1..MaxThreads
        BY ChunkFacts DEF IInv
      <4>2. futs \in 0..NThreads /\ MaxThreads \in Nat
        BY ForkJoinAssumption DEF IInv, ForkJoinTypeOK
      <4>. HIDE DEF NThreads
      <4>. QED  BY <4>1, <4>2 DEF AsyncTasks
    <3>2. chunk_[t] \in {"none", "running", "writing", "ok", "failed"} /\ chunk_[t] # "none"
      BY <3>1 DEF IInv, ForkJoinTypeOK, CallerInv
    <3>3. chunk_[t] = "ok"
      BY <2>1, <2>2, <3>1, <3>2 DEF Unfinished
    <3>. QED  BY <3>1, <3>3 DEF IInv, TaskInv
  <2>. QED  BY <2>1, <2>2
<1>. QED  BY <1>1, ForkJoinInvariant, PTL

(* What the call throws for its tasks is the exception of the first chunk that
   has failed, in the order of the range. *)
THEOREM ForkJoinFirstFailure == ForkJoinSpec => []FirstFailureThrown
<1>1. IInv => FirstFailureThrown
  BY ForkJoinAssumption DEF IInv, CallerInv, FirstFailureThrown, ForkJoinTypeOK, AsyncTasks
<1>. QED  BY <1>1, ForkJoinInvariant, PTL

(* In every schedule the result of a reduction is that of the chunks, in the
   order of the range. *)
THEOREM ForkJoinReduces == ForkJoinSpec => []ReducesInOrder
<1>1. IInv => ReducesInOrder
  BY DEF IInv, CallerInv, ReduceInv, ReducesInOrder, Reduction
<1>. QED  BY <1>1, ForkJoinInvariant, PTL

(* Every element of the vector that parallel_map returns holds its value, if
   no two elements of it share a memory location. *)
THEOREM ForkJoinMapComplete == ASSUME WordBits = 1 PROVE ForkJoinSpec => []MapComplete
<1>1. IInv /\ EachElementOnce => MapComplete
  <2>. SUFFICES ASSUME IInv, EachElementOnce, kind = "map", caller = "returned"
                PROVE  out = Elements
    BY DEF MapComplete
  <2>1. \A t \in 0..(futs - 1) : t \in AsyncTasks
    BY ChunkFacts, ForkJoinAssumption DEF IInv, ForkJoinTypeOK, AsyncTasks
  <2>2. \A t \in AsyncTasks : Handled(t) \subseteq out
    BY DEF IInv, MapInv
  <2>3. UNION {Handled(t) : t \in 0..(futs - 1)} = Elements
    BY DEF EachElementOnce
  <2>4. Elements \subseteq out
    BY <2>1, <2>2, <2>3
  <2>. QED  BY <2>4 DEF IInv, ForkJoinTypeOK
<1>. QED  BY <1>1, ForkJoinInvariant, ForkJoinEachElementOnce, PTL
=============================================================================
