-------------------------------- MODULE Arena --------------------------------
(***************************************************************************)
(* memory::Arena and memory::ArenaAllocator, with the heap they take their *)
(* buffers from.  size_t arithmetic is modulo SizeMod; nullptr is 0.       *)
(*                                                                         *)
(* A call that throws bad_alloc, a request of 0 bytes or of 0 objects, and *)
(* deallocate change nothing, and have no action.                          *)
(***************************************************************************)
EXTENDS Naturals

CONSTANTS
  Arenas,      \* the places where an Arena can be
  SizeMod,     \* the number of values of size_t
  MaxAlign,    \* alignof(std::max_align_t)
  Addresses,   \* where aligned_alloc may put a buffer
  Sizes,       \* the numbers of bytes and of objects that are asked for
  Alignments,  \* the alignments that are asked for
  Elements     \* the types of an ArenaAllocator: records of size and align

ASSUME ArenaAssumption ==
  /\ MaxAlign \in Nat \ {0}
  /\ SizeMod \in Nat \ {0}
  /\ Addresses \subseteq Nat \ {0}
  /\ Sizes \subseteq 0..SizeMod - 1
  /\ Alignments \subseteq 0..SizeMod - 1
  /\ Elements \subseteq [size : 1..SizeMod - 1, align : 1..MaxAlign]

PowerOfTwo(a) == a # 0 /\ \E k \in 0..a : a = 2^k

(* alignof(std::max_align_t) is a power of two: what is a smaller one divides
   it. *)
ASSUME AlignmentAssumption ==
  \A a \in 1..MaxAlign : PowerOfTwo(a) => MaxAlign % a = 0

VARIABLES
  arenas,     \* the places that hold an Arena
  capacity_,  \* per place
  offset_,    \* per place
  buf_,       \* per place
  heap,       \* the buffers allocated and not freed
  blocks      \* history: the memory handed out, until reset or destruction

arenaVars == <<arenas, capacity_, offset_, buf_, heap, blocks>>

SizeT == 0..SizeMod - 1

SizeMax == SizeMod - 1

Buffer == [at : Nat, size : Nat, asked : Nat]

(* A block: where it lies, in which buffer, and what was asked for. *)
Block == [at : Nat, size : Nat, buf : Nat, need : Nat, align : Nat]

ArenaTypeOK ==
  /\ arenas \subseteq Arenas
  /\ capacity_ \in [Arenas -> SizeT]
  /\ offset_ \in [Arenas -> SizeT]
  /\ buf_ \in [Arenas -> Addresses \cup {0}]
  /\ heap \subseteq Buffer
  /\ blocks \subseteq Block

ArenaInit ==
  /\ arenas = {}
  /\ capacity_ = [p \in Arenas |-> 0]
  /\ offset_ = [p \in Arenas |-> 0]
  /\ buf_ = [p \in Arenas |-> 0]
  /\ heap = {}
  /\ blocks = {}

Mod(x) == x % SizeMod

\* (x + a - 1) & ~(a - 1), for a power of two
RoundUp(x, a) == LET y == Mod(x + a - 1) IN y - (y % a)

Overlap(x, y) == x.at < y.at + y.size /\ y.at < x.at + x.size

-----------------------------------------------------------------------------
Construct(p, c, at) ==
  LET rounded == RoundUp(c, MaxAlign)
      buffer  == [at |-> at, size |-> rounded, asked |-> c] IN
  /\ p \notin arenas
  /\ c # 0
  /\ c + MaxAlign - 1 <= SizeMax
  /\ at % MaxAlign = 0
  /\ \A b \in heap : ~Overlap(buffer, b) /\ b.at # at
  /\ arenas' = arenas \cup {p}
  /\ heap' = heap \cup {buffer}
  /\ buf_' = [buf_ EXCEPT ![p] = at]
  /\ capacity_' = [capacity_ EXCEPT ![p] = rounded]
  /\ UNCHANGED <<offset_, blocks>>

ConstructEmpty(p) ==
  /\ p \notin arenas
  /\ arenas' = arenas \cup {p}
  /\ UNCHANGED <<capacity_, offset_, buf_, heap, blocks>>

MoveConstruct(p, q) ==
  /\ p \in arenas /\ q \notin arenas
  /\ arenas' = arenas \cup {q}
  /\ capacity_' = [capacity_ EXCEPT ![q] = capacity_[p], ![p] = 0]
  /\ offset_' = [offset_ EXCEPT ![q] = offset_[p], ![p] = 0]
  /\ buf_' = [buf_ EXCEPT ![q] = buf_[p], ![p] = 0]
  /\ UNCHANGED <<heap, blocks>>

\* What the end of a buffer's use leaves of the blocks.
Elsewhere(p) == {b \in blocks : b.buf # buf_[p]}

Destroy(p) ==
  /\ p \in arenas
  /\ arenas' = arenas \ {p}
  /\ heap' = {b \in heap : b.at # buf_[p]}
  /\ blocks' = Elsewhere(p)
  /\ capacity_' = [capacity_ EXCEPT ![p] = 0]
  /\ offset_' = [offset_ EXCEPT ![p] = 0]
  /\ buf_' = [buf_ EXCEPT ![p] = 0]

Reset(p) ==
  /\ p \in arenas
  /\ offset_' = [offset_ EXCEPT ![p] = 0]
  /\ blocks' = Elsewhere(p)
  /\ UNCHANGED <<arenas, capacity_, buf_, heap>>

-----------------------------------------------------------------------------
Fits(p, size, aligned) ==
  aligned <= capacity_[p] /\ size <= capacity_[p] - aligned

(* Mutant: the address is not rounded. *)
Unrounded(p, align) == offset_[p]

Aligned(p, align) == RoundUp(offset_[p], align)

\* allocate of the arena; `need` is what its caller has to get.
Bump(p, size, align, need) ==
  LET aligned == Aligned(p, align) IN
  /\ p \in arenas
  /\ PowerOfTwo(align)
  /\ size # 0
  /\ offset_[p] + align - 1 <= SizeMax
  /\ Fits(p, size, aligned)
  /\ offset_' = [offset_ EXCEPT ![p] = Mod(aligned + size)]
  /\ blocks' = blocks \cup {[at |-> buf_[p] + aligned, size |-> size,
                             buf |-> buf_[p], need |-> need, align |-> align]}
  /\ UNCHANGED <<arenas, capacity_, buf_, heap>>

Allocate(p, size, align) == Bump(p, size, align, size)

\* ArenaAllocator<T>::allocate
AllocateObjects(p, n, T) ==
  /\ n <= SizeMax \div T.size
  /\ Bump(p, Mod(n * T.size), T.align, n * T.size)

-----------------------------------------------------------------------------
Ownership ==
  \/ \E p \in Arenas, c \in Sizes, at \in Addresses : Construct(p, c, at)
  \/ \E p \in Arenas : ConstructEmpty(p) \/ Destroy(p) \/ Reset(p)
  \/ \E p, q \in Arenas : MoveConstruct(p, q)

Allocation ==
  \/ \E p \in Arenas, size \in Sizes, align \in Alignments : Allocate(p, size, align)
  \/ \E p \in Arenas, n \in Sizes, T \in Elements : AllocateObjects(p, n, T)

ArenaNext == Ownership \/ Allocation

ArenaSpec == ArenaInit /\ [][ArenaNext]_arenaVars

-----------------------------------------------------------------------------
(* Every buffer is owned by exactly one arena, which knows its size, and no
   arena points to a buffer that was freed: across moves and destructions
   nothing leaks and nothing is freed twice. *)
BuffersOwnedOnce ==
  /\ \A p \in arenas : buf_[p] # 0 =>
       \E b \in heap : b.at = buf_[p] /\ b.size = capacity_[p]
  /\ \A b \in heap : \E p \in arenas : b.at = buf_[p]
  /\ \A p, q \in arenas : buf_[p] = buf_[q] /\ p # q => buf_[p] = 0

(* Memory handed out lies in a live buffer, below the cursor of its arena, and
   overlaps no other: no wrap of size_t and no move of the arena breaks it. *)
BlocksApart ==
  /\ \A b \in blocks : \E p \in arenas :
       /\ b.buf = buf_[p] /\ buf_[p] # 0
       /\ buf_[p] <= b.at
       /\ b.at + b.size <= buf_[p] + offset_[p]
  /\ \A p \in arenas : offset_[p] <= capacity_[p]
  /\ \A b, c \in blocks : b # c => ~Overlap(b, c)

(* Addresses are aligned as was asked, for every alignment up to that of the
   buffer itself: those of all fundamental types. *)
BlocksAligned == \A b \in blocks : b.align <= MaxAlign => b.at % b.align = 0

(* "Required alignment", of any power of two.  The code does not keep it: it
   rounds the cursor and not the address, so that beyond the alignment of the
   buffer an address may be aligned or not. *)
BlocksAlignedAsAsked == \A b \in blocks : b.at % b.align = 0

(* Nobody gets less than was asked for: an arena of that many bytes, a block
   of that many objects, however close to the end of size_t. *)
EnoughGiven ==
  /\ \A b \in heap : b.size >= b.asked
  /\ \A b \in blocks : b.size >= b.need

(* What an arena hands out is memory of its caller's alone, aligned for any
   fundamental type that was asked for, and as much as was asked for, across
   resets, moves and requests of any size. *)
MemoryExact == BlocksApart /\ BlocksAligned /\ EnoughGiven
=============================================================================
