-------------------------------- MODULE SimdOps --------------------------------
(***************************************************************************)
(* The loops of simd_add, simd_mul and simd_dot: Width elements at a time, *)
(* as the build has it (8, 4, or 1 for the scalar fallback), then the rest *)
(* one by one.  The arrays of a call are parts of one memory and may over- *)
(* lap.  Floats are integers here, and products those modulo 101: there is *)
(* no rounding, whatever the order.                                        *)
(***************************************************************************)
EXTENDS Arithmetic

CONSTANTS
  Widths,   \* the builds
  Counts,   \* the numbers of elements of a call
  Offsets,  \* where in memory an array of a call begins
  Size      \* the size of the memory

ASSUME SimdAssumption ==
  /\ Widths \subseteq Nat \ {0} /\ Counts \cup Offsets \cup {Size} \subseteq Nat
  /\ \A n \in Counts, o \in Offsets : n + o <= Size

VARIABLES
  width,   \* kSimdWidth of the build
  memory,  \* the cells that the arrays are part of
  op,      \* the call: "add", "mul", "dot", or "none"
  dst, a, b, n,  \* its arguments
  i,       \* the loop's counter
  acc,     \* the lanes of the accumulator
  sum

simdVars == <<width, memory, op, dst, a, b, n, i, acc, sum>>

\* What the memory holds when a call begins: all cells differ.
Initially == [x \in 0..Size - 1 |-> x + 1]

NoLanes == [l \in 0..width - 1 |-> 0]

SimdInit ==
  /\ width \in Widths
  /\ memory = Initially
  /\ op = "none"
  /\ dst = 0 /\ a = 0 /\ b = 0 /\ n = 0 /\ i = 0
  /\ acc = NoLanes /\ sum = 0

Call(f, d, x, y, count) ==
  /\ op = "none" \/ i >= n
  /\ op' = f
  /\ dst' = d /\ a' = x /\ b' = y /\ n' = count
  /\ memory' = Initially
  /\ i' = 0 /\ acc' = NoLanes /\ sum' = 0
  /\ UNCHANGED width

Result(x, y) == IF op = "add" THEN x + y ELSE (x * y) % 101

\* Some lanes' elements are loaded, then all are stored.
Stored(lanes) ==
  [c \in DOMAIN memory |->
     IF \E l \in 0..lanes - 1 : c = dst + i + l
     THEN Result(memory[a + (c - dst)], memory[b + (c - dst)])
     ELSE memory[c]]

(* Mutant: the last vector is a whole one. *)
VectorsToEnd == i < n

Vectors == i + width <= n

VectorElements ==
  /\ op \in {"add", "mul"}
  /\ Vectors
  /\ memory' = Stored(width)
  /\ i' = i + width
  /\ UNCHANGED <<width, op, dst, a, b, n, acc, sum>>

TailElement ==
  /\ op \in {"add", "mul"}
  /\ ~Vectors /\ i < n
  /\ memory' = Stored(1)
  /\ i' = i + 1
  /\ UNCHANGED <<width, op, dst, a, b, n, acc, sum>>

VectorProducts ==
  /\ op = "dot"
  /\ Vectors
  /\ acc' = [l \in DOMAIN acc |-> acc[l] + memory[a + i + l] * memory[b + i + l]]
  /\ i' = i + width
  /\ UNCHANGED <<width, memory, op, dst, a, b, n, sum>>

\* The lanes are added up when the vectors end, before the tail.
Horizontal == sum + SumBelow(acc, width)

TailProduct ==
  /\ op = "dot"
  /\ ~Vectors /\ i < n
  /\ sum' = Horizontal + memory[a + i] * memory[b + i]
  /\ acc' = NoLanes
  /\ i' = i + 1
  /\ UNCHANGED <<width, memory, op, dst, a, b, n>>

SimdNext ==
  \/ \E f \in {"add", "mul"}, d, x, y \in Offsets, count \in Counts : Call(f, d, x, y, count)
  \/ \E x, y \in Offsets, count \in Counts : Call("dot", 0, x, y, count)
  \/ VectorElements \/ TailElement \/ VectorProducts \/ TailProduct

SimdSpec == SimdInit /\ [][SimdNext]_simdVars

-----------------------------------------------------------------------------
\* Storing the result does not change an element that is still to be read.
Apart(src) == dst <= src \/ src + n <= dst

(* "Computes dst[i] for all i in [0, n)": the result of the elements as they
   were, in every build and also in place, and nothing else in memory changes,
   as long as the destination does not begin inside a source. *)
ElementwiseExact ==
  op \in {"add", "mul"} /\ i >= n /\ Apart(a) /\ Apart(b) =>
    memory = [c \in DOMAIN Initially |->
                IF c \in dst..dst + n - 1
                THEN Result(Initially[a + (c - dst)], Initially[b + (c - dst)])
                ELSE Initially[c]]

(* The vector and the scalar dot product are the same sum. *)
DotExact ==
  op = "dot" /\ i >= n =>
    Horizontal = SumBelow([k \in 0..n - 1 |-> Initially[a + k] * Initially[b + k]], n)
=============================================================================
