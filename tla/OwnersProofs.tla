---------------------------- MODULE OwnersProofs ----------------------------
(***************************************************************************)
(* Theorems about the owners of resources, for every width of size_t, any  *)
(* number of owners and resources, and every sequence of constructions,    *)
(* moves, assignments, requests, failures and ends.  Each component has    *)
(* an inductive invariant of its own.                                      *)
(***************************************************************************)
EXTENDS Owners, TLAPS


-----------------------------------------------------------------------------
(* Arithmetic of size_t. *)

\* Division with remainder.
LEMMA DivMod ==
  ASSUME NEW c \in Nat \ {0}, NEW a \in Nat
  PROVE  /\ a = c * (a \div c) + (a % c)
         /\ a % c \in 0..(c - 1)
         /\ a \div c \in Nat
OBVIOUS

\* The remainder is unique.
LEMMA ModUnique ==
  ASSUME NEW c \in Nat \ {0}, NEW q \in Nat, NEW r \in 0..(c - 1)
  PROVE  (c * q + r) % c = r
OBVIOUS

\* A sum of two multiples is a multiple.
LEMMA ModSum ==
  ASSUME NEW c \in Nat \ {0}, NEW x \in Nat, NEW y \in Nat, x % c = 0, y % c = 0
  PROVE  (x + y) % c = 0
<1>. DEFINE p == x \div c
            q == y \div c
<1>1. x = c * p /\ y = c * q /\ p \in Nat /\ q \in Nat
  BY DivMod
<1>. HIDE DEF p, q
<1>2. x + y = c * (p + q) + 0 /\ p + q \in Nat /\ 0 \in 0..(c - 1)
  BY <1>1
<1>. QED  BY <1>2, ModUnique

\* A multiple of a multiple is one.
LEMMA ModOfMultiple ==
  ASSUME NEW c \in Nat \ {0}, NEW m \in Nat \ {0}, NEW x \in Nat,
         m % c = 0, x % m = 0
  PROVE  x % c = 0
<1>. DEFINE p == m \div c
            q == x \div m
<1>1. m = c * p /\ x = m * q /\ p \in Nat /\ q \in Nat
  BY DivMod
<1>. HIDE DEF p, q
<1>2. p * q \in Nat
  BY <1>1
<1>3. x = c * (p * q) + 0 /\ 0 \in 0..(c - 1)
  BY <1>1
<1>. QED  BY <1>2, <1>3, ModUnique

\* What fits into a size_t does not wrap.
LEMMA ModOfSmall ==
  ASSUME NEW x \in SizeT
  PROVE  Mod(x) = x
<1>1. SizeMod \in Nat \ {0} /\ x \in 0..(SizeMod - 1)
  BY ArenaAssumption DEF SizeT
<1>2. x = SizeMod * 0 + x
  BY <1>1
<1>. QED  BY <1>1, <1>2, ModUnique DEF Mod

\* Rounding up, where the sum does not wrap.
LEMMA RoundUpExact ==
  ASSUME NEW x \in Nat, NEW a \in Nat \ {0}, x + a - 1 <= SizeMax
  PROVE  /\ RoundUp(x, a) \in SizeT
         /\ x <= RoundUp(x, a)
         /\ RoundUp(x, a) % a = 0
<1>. DEFINE y == x + a - 1
            q == y \div a
            r == y % a
<1>1. y \in SizeT /\ y \in Nat
  BY ArenaAssumption DEF SizeT, SizeMax
<1>2. Mod(y) = y
  BY <1>1, ModOfSmall
<1>3. RoundUp(x, a) = y - r
  BY <1>2 DEF RoundUp
<1>4. y = a * q + r /\ r \in 0..(a - 1) /\ q \in Nat
  BY <1>1, DivMod
<1>5. y - r = a * q + 0 /\ 0 \in 0..(a - 1)
  BY <1>4, <1>1
<1>6. (y - r) % a = 0
  BY <1>5, <1>4, ModUnique
<1>7. y - r \in SizeT
  BY <1>1, <1>4, ArenaAssumption DEF SizeT
<1>8. x <= y - r
  BY <1>4
<1>. QED  BY <1>3, <1>6, <1>7, <1>8

-----------------------------------------------------------------------------
(* The inductive invariant, part by part. *)

\* A place without an arena, and an arena without a buffer, are empty.
PlaceInv ==
  /\ \A p \in Arenas \ arenas : buf_[p] = 0
  /\ \A p \in Arenas : buf_[p] = 0 => capacity_[p] = 0 /\ offset_[p] = 0

\* The heap gives out aligned buffers, which are apart.
HeapInv ==
  /\ \A b \in heap : b.at # 0 /\ b.at % MaxAlign = 0
  /\ \A b, c \in heap : b # c => ~Overlap(b, c) /\ b.at # c.at

ArenaInv ==
  /\ ArenaTypeOK
  /\ PlaceInv
  /\ HeapInv
  /\ BuffersOwnedOnce
  /\ BlocksApart
  /\ BlocksAligned
  /\ EnoughGiven

LEMMA ArenaInitEstablishes == ArenaInit => ArenaInv
BY ArenaAssumption
DEF ArenaInit, ArenaInv, ArenaTypeOK, PlaceInv, HeapInv, BuffersOwnedOnce, BlocksApart,
    BlocksAligned, EnoughGiven, SizeT

-----------------------------------------------------------------------------
(* One lemma per action. *)

LEMMA ConstructPreserves ==
  ASSUME ArenaInv, NEW p \in Arenas, NEW c \in Sizes, NEW at \in Addresses,
         Construct(p, c, at)
  PROVE  ArenaInv'
<1>. DEFINE rounded == RoundUp(c, MaxAlign)
            buffer  == [at |-> at, size |-> rounded, asked |-> c]
<1>1. /\ p \notin arenas /\ c # 0 /\ at % MaxAlign = 0
      /\ \A b \in heap : ~Overlap(buffer, b) /\ b.at # at
      /\ arenas' = arenas \cup {p}
      /\ heap' = heap \cup {buffer}
      /\ buf_' = [buf_ EXCEPT ![p] = at]
      /\ capacity_' = [capacity_ EXCEPT ![p] = rounded]
      /\ offset_' = offset_ /\ blocks' = blocks
  BY DEF Construct
<1>2. at \in Nat \ {0} /\ c \in Nat /\ MaxAlign \in Nat \ {0}
  BY ArenaAssumption
<1>3. rounded \in SizeT /\ c <= rounded /\ rounded \in Nat
  BY <1>2, RoundUpExact DEF Construct, SizeT
<1>. HIDE DEF rounded
<1>4. buffer \in Buffer
  BY <1>2, <1>3 DEF Buffer
<1>5. /\ buf_[p] = 0 /\ offset_[p] = 0
      /\ \A b \in heap : b.at \in Nat /\ b.size \in Nat
  BY <1>1 DEF ArenaInv, PlaceInv, ArenaTypeOK, Buffer
<1>6. ArenaTypeOK'
  BY <1>1, <1>3, <1>4 DEF ArenaInv, ArenaTypeOK
<1>7. PlaceInv'
  BY <1>1, <1>2 DEF ArenaInv, ArenaTypeOK, PlaceInv
<1>8. HeapInv'
  BY <1>1, <1>2, <1>3, <1>5 DEF ArenaInv, HeapInv, Overlap
<1>9. \A q \in arenas : q # p /\ buf_'[q] = buf_[q] /\ capacity_'[q] = capacity_[q]
                          /\ buf_[q] # at
  BY <1>1, <1>2 DEF ArenaInv, ArenaTypeOK, BuffersOwnedOnce
<1>10. /\ buf_'[p] = at /\ capacity_'[p] = rounded
       /\ offset_'[p] = 0
  BY <1>1, <1>5 DEF ArenaInv, ArenaTypeOK
<1>11. BuffersOwnedOnce'
  BY <1>1, <1>9, <1>10 DEF ArenaInv, BuffersOwnedOnce
<1>12. BlocksApart'
  BY <1>1, <1>3, <1>9, <1>10 DEF ArenaInv, BlocksApart, Overlap
<1>13. BlocksAligned' /\ EnoughGiven'
  BY <1>1, <1>3 DEF ArenaInv, BlocksAligned, EnoughGiven
<1>. QED  BY <1>6, <1>7, <1>8, <1>11, <1>12, <1>13 DEF ArenaInv

LEMMA ConstructEmptyPreserves ==
  ASSUME ArenaInv, NEW p \in Arenas, ConstructEmpty(p)
  PROVE  ArenaInv'
<1>1. /\ p \notin arenas /\ arenas' = arenas \cup {p}
      /\ UNCHANGED <<capacity_, offset_, buf_, heap, blocks>>
  BY DEF ConstructEmpty
<1>2. buf_[p] = 0 /\ capacity_[p] = 0 /\ offset_[p] = 0
  BY <1>1 DEF ArenaInv, PlaceInv
<1>3. ArenaTypeOK' /\ PlaceInv' /\ HeapInv'
  BY <1>1 DEF ArenaInv, ArenaTypeOK, PlaceInv, HeapInv, Overlap
<1>4. BuffersOwnedOnce'
  BY <1>1, <1>2 DEF ArenaInv, BuffersOwnedOnce
<1>5. BlocksApart' /\ BlocksAligned' /\ EnoughGiven'
  BY <1>1, <1>2 DEF ArenaInv, BlocksApart, BlocksAligned, EnoughGiven, Overlap
<1>. QED  BY <1>3, <1>4, <1>5 DEF ArenaInv

LEMMA MoveConstructPreserves ==
  ASSUME ArenaInv, NEW p \in Arenas, NEW q \in Arenas, MoveConstruct(p, q)
  PROVE  ArenaInv'
<1>1. /\ p \in arenas /\ q \notin arenas /\ p # q
      /\ arenas' = arenas \cup {q}
      /\ capacity_' = [capacity_ EXCEPT ![q] = capacity_[p], ![p] = 0]
      /\ offset_' = [offset_ EXCEPT ![q] = offset_[p], ![p] = 0]
      /\ buf_' = [buf_ EXCEPT ![q] = buf_[p], ![p] = 0]
      /\ heap' = heap /\ blocks' = blocks
  BY DEF MoveConstruct
<1>2. ArenaTypeOK'
  BY <1>1, ArenaAssumption DEF ArenaInv, ArenaTypeOK, SizeT
<1>3. /\ buf_'[q] = buf_[p] /\ capacity_'[q] = capacity_[p] /\ offset_'[q] = offset_[p]
      /\ buf_'[p] = 0 /\ capacity_'[p] = 0 /\ offset_'[p] = 0
      /\ \A r \in Arenas \ {p, q} :
           buf_'[r] = buf_[r] /\ capacity_'[r] = capacity_[r] /\ offset_'[r] = offset_[r]
  BY <1>1 DEF ArenaInv, ArenaTypeOK
<1>4. arenas \subseteq Arenas /\ buf_[q] = 0
  BY <1>1 DEF ArenaInv, ArenaTypeOK, PlaceInv
<1>5. PlaceInv'
  <2>1. ASSUME NEW r \in Arenas \ arenas' PROVE buf_'[r] = 0
    BY <2>1, <1>1, <1>3 DEF ArenaInv, PlaceInv
  <2>2. ASSUME NEW r \in Arenas, buf_'[r] = 0
        PROVE  capacity_'[r] = 0 /\ offset_'[r] = 0
    <3>1. CASE r = p
      BY <3>1, <1>3
    <3>2. CASE r = q
      BY <3>2, <2>2, <1>3 DEF ArenaInv, PlaceInv
    <3>3. CASE r \notin {p, q}
      BY <3>3, <2>2, <1>3 DEF ArenaInv, PlaceInv
    <3>. QED  BY <3>1, <3>2, <3>3
  <2>. QED  BY <2>1, <2>2 DEF PlaceInv
<1>6. HeapInv'
  BY <1>1 DEF ArenaInv, HeapInv, Overlap
<1>7. BuffersOwnedOnce'
  <2>. DEFINE Was(r) == IF r = q THEN p ELSE r
  <2>1. ASSUME NEW r \in arenas', buf_'[r] # 0
        PROVE  /\ Was(r) \in arenas
               /\ buf_'[r] = buf_[Was(r)] /\ capacity_'[r] = capacity_[Was(r)]
    BY <2>1, <1>1, <1>3, <1>4
  <2>2. ASSUME NEW r \in arenas', buf_'[r] # 0
        PROVE  \E b \in heap' : b.at = buf_'[r] /\ b.size = capacity_'[r]
    <3>1. /\ Was(r) \in arenas /\ buf_[Was(r)] # 0
          /\ buf_'[r] = buf_[Was(r)] /\ capacity_'[r] = capacity_[Was(r)]
      BY <2>1, <2>2
    <3>. HIDE DEF Was
    <3>2. PICK b \in heap : b.at = buf_[Was(r)] /\ b.size = capacity_[Was(r)]
      BY <3>1 DEF ArenaInv, BuffersOwnedOnce
    <3>. QED  BY <3>1, <3>2, <1>1
  <2>3. ASSUME NEW b \in heap'
        PROVE  \E r \in arenas' : b.at = buf_'[r]
    <3>1. PICK r \in arenas : b.at = buf_[r]
      BY <2>3, <1>1 DEF ArenaInv, BuffersOwnedOnce
    <3>2. CASE r = p
      BY <3>1, <3>2, <1>1, <1>3
    <3>3. CASE r # p
      BY <3>1, <3>3, <1>1, <1>3, <1>4
    <3>. QED  BY <3>2, <3>3
  <2>4. ASSUME NEW r \in arenas', NEW s \in arenas',
               buf_'[r] = buf_'[s], r # s, buf_'[r] # 0
        PROVE  FALSE
    <3>1. r # p /\ s # p
      BY <2>4, <1>3
    <3>2. Was(r) # Was(s)
      BY <3>1, <2>4
    <3>. HIDE DEF Was
    <3>3. /\ Was(r) \in arenas /\ buf_'[r] = buf_[Was(r)]
          /\ Was(s) \in arenas /\ buf_'[s] = buf_[Was(s)]
      BY <2>1, <2>4
    <3>. QED  BY <3>2, <3>3, <2>4 DEF ArenaInv, BuffersOwnedOnce
  <2>. QED  BY <2>2, <2>3, <2>4 DEF BuffersOwnedOnce
<1>8. BlocksApart'
  <2>1. ASSUME NEW b \in blocks'
        PROVE  \E r \in arenas' : /\ b.buf = buf_'[r] /\ buf_'[r] # 0
                                  /\ buf_'[r] <= b.at
                                  /\ b.at + b.size <= buf_'[r] + offset_'[r]
    <3>1. PICK r \in arenas : /\ b.buf = buf_[r] /\ buf_[r] # 0
                              /\ buf_[r] <= b.at
                              /\ b.at + b.size <= buf_[r] + offset_[r]
      BY <1>1, <2>1 DEF ArenaInv, BlocksApart
    <3>2. CASE r = p
      BY <3>1, <3>2, <1>1, <1>3
    <3>3. CASE r # p
      BY <3>1, <3>3, <1>1, <1>3, <1>4
    <3>. QED  BY <3>2, <3>3
  <2>2. ASSUME NEW r \in arenas' PROVE offset_'[r] <= capacity_'[r]
    <3>1. CASE r = p
      BY <3>1, <1>3
    <3>2. CASE r = q
      BY <3>2, <1>1, <1>3 DEF ArenaInv, BlocksApart
    <3>3. CASE r \notin {p, q}
      BY <3>3, <2>2, <1>1, <1>3, <1>4 DEF ArenaInv, BlocksApart
    <3>. QED  BY <3>1, <3>2, <3>3
  <2>3. \A b, c \in blocks' : b # c => ~Overlap(b, c)
    BY <1>1 DEF ArenaInv, BlocksApart
  <2>. QED  BY <2>1, <2>2, <2>3 DEF BlocksApart, Overlap
<1>9. BlocksAligned' /\ EnoughGiven'
  BY <1>1 DEF ArenaInv, BlocksAligned, EnoughGiven
<1>. QED  BY <1>2, <1>5, <1>6, <1>7, <1>8, <1>9 DEF ArenaInv

LEMMA DestroyPreserves ==
  ASSUME ArenaInv, NEW p \in Arenas, Destroy(p)
  PROVE  ArenaInv'
<1>1. /\ p \in arenas
      /\ arenas' = arenas \ {p}
      /\ heap' = {b \in heap : b.at # buf_[p]}
      /\ blocks' = {b \in blocks : b.buf # buf_[p]}
      /\ capacity_' = [capacity_ EXCEPT ![p] = 0]
      /\ offset_' = [offset_ EXCEPT ![p] = 0]
      /\ buf_' = [buf_ EXCEPT ![p] = 0]
  BY DEF Destroy, Elsewhere
<1>2. ArenaTypeOK'
  BY <1>1, ArenaAssumption DEF ArenaInv, ArenaTypeOK, SizeT
<1>3. /\ arenas \subseteq Arenas
      /\ buf_'[p] = 0 /\ capacity_'[p] = 0 /\ offset_'[p] = 0
      /\ \A r \in Arenas \ {p} :
           buf_'[r] = buf_[r] /\ capacity_'[r] = capacity_[r] /\ offset_'[r] = offset_[r]
  BY <1>1 DEF ArenaInv, ArenaTypeOK
<1>4. PlaceInv'
  BY <1>1, <1>3 DEF ArenaInv, PlaceInv
<1>5. HeapInv'
  BY <1>1 DEF ArenaInv, HeapInv, Overlap
<1>6. BuffersOwnedOnce'
  <2>1. ASSUME NEW r \in arenas', buf_'[r] # 0
        PROVE  \E b \in heap' : b.at = buf_'[r] /\ b.size = capacity_'[r]
    <3>1. r \in arenas /\ r # p /\ buf_[r] # 0
      BY <1>1, <1>3, <2>1
    <3>2. buf_[r] # buf_[p]
      BY <3>1, <1>1 DEF ArenaInv, BuffersOwnedOnce
    <3>. QED  BY <3>1, <3>2, <1>1, <1>3 DEF ArenaInv, BuffersOwnedOnce
  <2>2. \A b \in heap' : \E r \in arenas' : b.at = buf_'[r]
    BY <1>1, <1>3 DEF ArenaInv, BuffersOwnedOnce
  <2>3. \A r, s \in arenas' : buf_'[r] = buf_'[s] /\ r # s => buf_'[r] = 0
    BY <1>1, <1>3 DEF ArenaInv, BuffersOwnedOnce
  <2>. QED  BY <2>1, <2>2, <2>3 DEF BuffersOwnedOnce
<1>7. BlocksApart'
  <2>1. ASSUME NEW b \in blocks'
        PROVE  \E r \in arenas' : /\ b.buf = buf_'[r] /\ buf_'[r] # 0
                                  /\ buf_'[r] <= b.at
                                  /\ b.at + b.size <= buf_'[r] + offset_'[r]
    <3>1. PICK r \in arenas : /\ b.buf = buf_[r] /\ buf_[r] # 0
                              /\ buf_[r] <= b.at
                              /\ b.at + b.size <= buf_[r] + offset_[r]
      BY <1>1, <2>1 DEF ArenaInv, BlocksApart
    <3>2. r # p
      BY <3>1, <2>1, <1>1
    <3>. QED  BY <3>1, <3>2, <1>1, <1>3
  <2>2. \A r \in arenas' : offset_'[r] <= capacity_'[r]
    BY <1>1, <1>3 DEF ArenaInv, BlocksApart
  <2>3. \A b, c \in blocks' : b # c => ~Overlap(b, c)
    BY <1>1 DEF ArenaInv, BlocksApart
  <2>. QED  BY <2>1, <2>2, <2>3 DEF BlocksApart, Overlap
<1>8. BlocksAligned' /\ EnoughGiven'
  BY <1>1 DEF ArenaInv, BlocksAligned, EnoughGiven
<1>. QED  BY <1>2, <1>4, <1>5, <1>6, <1>7, <1>8 DEF ArenaInv

LEMMA ResetPreserves ==
  ASSUME ArenaInv, NEW p \in Arenas, Reset(p)
  PROVE  ArenaInv'
<1>1. /\ p \in arenas
      /\ offset_' = [offset_ EXCEPT ![p] = 0]
      /\ blocks' = {b \in blocks : b.buf # buf_[p]}
      /\ UNCHANGED <<arenas, capacity_, buf_, heap>>
  BY DEF Reset, Elsewhere
<1>2. ArenaTypeOK'
  BY <1>1, ArenaAssumption DEF ArenaInv, ArenaTypeOK, SizeT
<1>3. /\ arenas \subseteq Arenas /\ offset_'[p] = 0 /\ capacity_[p] \in Nat
      /\ \A r \in Arenas \ {p} : offset_'[r] = offset_[r]
  BY <1>1 DEF ArenaInv, ArenaTypeOK, SizeT
<1>4. PlaceInv' /\ HeapInv' /\ BuffersOwnedOnce'
  BY <1>1, <1>3 DEF ArenaInv, PlaceInv, HeapInv, BuffersOwnedOnce, Overlap
<1>5. BlocksApart'
  <2>1. ASSUME NEW b \in blocks'
        PROVE  \E r \in arenas' : /\ b.buf = buf_'[r] /\ buf_'[r] # 0
                                  /\ buf_'[r] <= b.at
                                  /\ b.at + b.size <= buf_'[r] + offset_'[r]
    <3>1. PICK r \in arenas : /\ b.buf = buf_[r] /\ buf_[r] # 0
                              /\ buf_[r] <= b.at
                              /\ b.at + b.size <= buf_[r] + offset_[r]
      BY <1>1, <2>1 DEF ArenaInv, BlocksApart
    <3>2. r # p
      BY <3>1, <2>1, <1>1
    <3>. QED  BY <3>1, <3>2, <1>1, <1>3
  <2>2. \A r \in arenas' : offset_'[r] <= capacity_'[r]
    BY <1>1, <1>3 DEF ArenaInv, BlocksApart
  <2>3. \A b, c \in blocks' : b # c => ~Overlap(b, c)
    BY <1>1 DEF ArenaInv, BlocksApart
  <2>. QED  BY <2>1, <2>2, <2>3 DEF BlocksApart, Overlap
<1>6. BlocksAligned' /\ EnoughGiven'
  BY <1>1 DEF ArenaInv, BlocksAligned, EnoughGiven
<1>. QED  BY <1>2, <1>4, <1>5, <1>6 DEF ArenaInv

\* What an arena hands out, whoever asks for it.
LEMMA BumpPreserves ==
  ASSUME ArenaInv, NEW p \in Arenas, NEW size \in SizeT, NEW align \in Nat,
         NEW need \in Nat, need <= size, Bump(p, size, align, need)
  PROVE  ArenaInv'
<1>. DEFINE aligned == RoundUp(offset_[p], align)
            new == [at |-> buf_[p] + aligned, size |-> size,
                    buf |-> buf_[p], need |-> need, align |-> align]
<1>1. /\ p \in arenas /\ PowerOfTwo(align) /\ align # 0 /\ size # 0
      /\ offset_[p] + align - 1 <= SizeMax
      /\ aligned <= capacity_[p] /\ size <= capacity_[p] - aligned
      /\ offset_' = [offset_ EXCEPT ![p] = Mod(aligned + size)]
      /\ blocks' = blocks \cup {new}
      /\ UNCHANGED <<arenas, capacity_, buf_, heap>>
  BY DEF Bump, Aligned, Fits, PowerOfTwo
<1>2. /\ offset_[p] \in Nat /\ capacity_[p] \in SizeT /\ capacity_[p] \in Nat
      /\ size \in Nat \ {0} /\ align \in Nat \ {0} /\ buf_[p] \in Nat
      /\ arenas \subseteq Arenas
  <2>1. (\A x \in SizeT : x \in Nat) /\ (\A x \in Addresses \cup {0} : x \in Nat)
    BY ArenaAssumption DEF SizeT
  <2>2. offset_[p] \in SizeT /\ capacity_[p] \in SizeT /\ buf_[p] \in Addresses \cup {0}
    BY DEF ArenaInv, ArenaTypeOK
  <2>3. arenas \subseteq Arenas
    BY DEF ArenaInv, ArenaTypeOK
  <2>4. size # 0 /\ align # 0
    BY <1>1
  <2>. QED  BY <2>1, <2>2, <2>3, <2>4
<1>3. /\ aligned \in SizeT /\ aligned \in Nat
      /\ offset_[p] <= aligned /\ aligned % align = 0
  <2>1. offset_[p] + align - 1 <= SizeMax
    BY <1>1
  <2>2. SizeT \subseteq Nat
    BY ArenaAssumption DEF SizeT
  <2>. QED  BY <2>1, <2>2, <1>2, RoundUpExact
<1>. HIDE DEF aligned
<1>4. aligned + size \in SizeT /\ aligned + size <= capacity_[p]
  BY <1>1, <1>2, <1>3, ArenaAssumption DEF SizeT
<1>5. /\ offset_'[p] = aligned + size
      /\ \A r \in Arenas \ {p} : offset_'[r] = offset_[r]
  BY <1>1, <1>4, ModOfSmall DEF ArenaInv, ArenaTypeOK
<1>6. buf_[p] # 0
  BY <1>1, <1>2, <1>3 DEF ArenaInv, PlaceInv
<1>7. new \in Block
  BY <1>2, <1>3 DEF Block
<1>8. ArenaTypeOK'
  BY <1>1, <1>4, <1>5, <1>7 DEF ArenaInv, ArenaTypeOK
<1>9. PlaceInv' /\ HeapInv' /\ BuffersOwnedOnce'
  BY <1>1, <1>5, <1>6 DEF ArenaInv, PlaceInv, HeapInv, BuffersOwnedOnce, Overlap
<1>10. BlocksApart'
  <2>1. ASSUME NEW b \in blocks
        PROVE  /\ b.at \in Nat /\ b.size \in Nat
               /\ ~Overlap(b, new) /\ ~Overlap(new, b)
               /\ \E r \in arenas : /\ b.buf = buf_[r] /\ buf_[r] # 0
                                    /\ buf_[r] <= b.at
                                    /\ b.at + b.size <= buf_[r] + offset_'[r]
    <3>1. PICK r \in arenas : /\ b.buf = buf_[r] /\ buf_[r] # 0
                              /\ buf_[r] <= b.at
                              /\ b.at + b.size <= buf_[r] + offset_[r]
      BY <2>1 DEF ArenaInv, BlocksApart
    <3>2. /\ b.at \in Nat /\ b.size \in Nat /\ buf_[r] \in Nat /\ offset_[r] \in Nat
          /\ capacity_[r] \in Nat /\ offset_[r] <= capacity_[r] /\ r \in Arenas
      <4>1. (\A x \in SizeT : x \in Nat) /\ (\A x \in Addresses \cup {0} : x \in Nat)
        BY ArenaAssumption DEF SizeT
      <4>2. b \in Block /\ r \in Arenas
        BY <2>1, <1>2 DEF ArenaInv, ArenaTypeOK
      <4>3. buf_[r] \in Nat /\ offset_[r] \in Nat /\ capacity_[r] \in Nat
        <5>1. /\ offset_[r] \in SizeT /\ capacity_[r] \in SizeT
              /\ buf_[r] \in Addresses \cup {0}
          BY <4>2 DEF ArenaInv, ArenaTypeOK
        <5>. QED  BY <4>1, <5>1
      <4>. QED  BY <4>2, <4>3 DEF Block, ArenaInv, BlocksApart
    <3>3. CASE r = p
      <4>1. b.at + b.size <= new.at
        BY <3>1, <3>2, <3>3, <1>2, <1>3
      <4>2. b.at + b.size <= buf_[r] + offset_'[r]
        BY <3>1, <3>2, <3>3, <1>2, <1>3, <1>5
      <4>. QED  BY <4>1, <4>2, <3>1, <3>2, <1>2, <1>3 DEF Overlap
    <3>4. CASE r # p
      <4>1. buf_[r] # buf_[p]
        BY <3>1, <3>4, <1>1 DEF ArenaInv, BuffersOwnedOnce
      <4>2. PICK x \in heap : x.at = buf_[r] /\ x.size = capacity_[r]
        BY <3>1 DEF ArenaInv, BuffersOwnedOnce
      <4>3. PICK y \in heap : y.at = buf_[p] /\ y.size = capacity_[p]
        BY <1>1, <1>6 DEF ArenaInv, BuffersOwnedOnce
      <4>4. ~Overlap(x, y)
        BY <4>1, <4>2, <4>3 DEF ArenaInv, HeapInv
      <4>5. \/ buf_[p] + capacity_[p] <= buf_[r]
            \/ buf_[r] + capacity_[r] <= buf_[p]
        BY <4>2, <4>3, <4>4, <3>2, <1>2 DEF Overlap
      <4>6. new.at >= buf_[p] /\ new.at + new.size <= buf_[p] + capacity_[p]
        BY <1>2, <1>3, <1>4
      <4>7. b.at >= buf_[r] /\ b.at + b.size <= buf_[r] + capacity_[r]
        BY <3>1, <3>2
      <4>8. ~Overlap(b, new) /\ ~Overlap(new, b)
        BY <4>5, <4>6, <4>7, <3>2, <1>2, <1>3 DEF Overlap
      <4>. QED  BY <4>8, <3>1, <3>2, <3>4, <1>5
    <3>. QED  BY <3>3, <3>4
  <2>2. /\ new.buf = buf_[p] /\ buf_[p] <= new.at
        /\ new.at + new.size <= buf_[p] + offset_'[p]
    BY <1>2, <1>3, <1>5
  <2>3. \A b \in blocks' : \E r \in arenas' :
          /\ b.buf = buf_'[r] /\ buf_'[r] # 0
          /\ buf_'[r] <= b.at
          /\ b.at + b.size <= buf_'[r] + offset_'[r]
    BY <2>1, <2>2, <1>1, <1>6
  <2>4. \A r \in arenas' : offset_'[r] <= capacity_'[r]
    BY <1>1, <1>2, <1>4, <1>5 DEF ArenaInv, BlocksApart
  <2>5. \A b, c \in blocks' : b # c => ~Overlap(b, c)
    BY <2>1, <1>1 DEF ArenaInv, BlocksApart
  <2>. QED  BY <2>3, <2>4, <2>5 DEF BlocksApart, Overlap
<1>11. BlocksAligned'
  <2>1. ASSUME align <= MaxAlign PROVE new.at % align = 0
    <3>1. MaxAlign \in Nat \ {0} /\ MaxAlign % align = 0
      BY <2>1, <1>1, <1>2, ArenaAssumption, AlignmentAssumption
    <3>2. buf_[p] % MaxAlign = 0
      BY <1>1, <1>6 DEF ArenaInv, BuffersOwnedOnce, HeapInv
    <3>3. buf_[p] % align = 0
      BY <3>1, <3>2, <1>2, ModOfMultiple
    <3>. QED  BY <3>3, <1>2, <1>3, ModSum
  <2>2. new.align = align
    OBVIOUS
  <2>. QED  BY <2>1, <2>2, <1>1 DEF ArenaInv, BlocksAligned
<1>12. EnoughGiven'
  <2>1. new.size >= new.need
    BY <1>2
  <2>. QED  BY <2>1, <1>1 DEF ArenaInv, EnoughGiven
<1>. QED  BY <1>8, <1>9, <1>10, <1>11, <1>12 DEF ArenaInv

LEMMA AllocatePreserves ==
  ASSUME ArenaInv, NEW p \in Arenas, NEW size \in Sizes, NEW align \in Alignments,
         Allocate(p, size, align)
  PROVE  ArenaInv'
<1>1. size \in SizeT /\ align \in Nat /\ size \in Nat /\ size <= size
  BY ArenaAssumption DEF SizeT
<1>2. Bump(p, size, align, size)
  BY DEF Allocate
<1>. QED  BY <1>1, <1>2, BumpPreserves

LEMMA AllocateObjectsPreserves ==
  ASSUME ArenaInv, NEW p \in Arenas, NEW n \in Sizes, NEW T \in Elements,
         AllocateObjects(p, n, T)
  PROVE  ArenaInv'
<1>. DEFINE bytes == n * T.size
<1>1. /\ n \in Nat /\ T.size \in Nat \ {0} /\ SizeMax \in Nat
      /\ n <= SizeMax \div T.size
  BY ArenaAssumption DEF AllocateObjects, SizeMax
<1>2. /\ SizeMax = T.size * (SizeMax \div T.size) + (SizeMax % T.size)
      /\ SizeMax % T.size \in Nat /\ SizeMax \div T.size \in Nat
  <2>1. /\ SizeMax = T.size * (SizeMax \div T.size) + (SizeMax % T.size)
        /\ SizeMax % T.size \in 0..(T.size - 1) /\ SizeMax \div T.size \in Nat
    BY <1>1, DivMod
  <2>. QED  BY <2>1, <1>1
<1>3. T.size * n <= T.size * (SizeMax \div T.size)
  BY <1>1, <1>2
<1>4. bytes \in SizeT /\ bytes \in Nat
  BY <1>1, <1>2, <1>3 DEF SizeT, SizeMax
<1>5. Mod(bytes) = bytes
  BY <1>4, ModOfSmall
<1>6. Bump(p, bytes, T.align, bytes)
  BY <1>5 DEF AllocateObjects
<1>7. T.align \in Nat
  BY ArenaAssumption
<1>. QED  BY <1>4, <1>6, <1>7, BumpPreserves

-----------------------------------------------------------------------------
LEMMA ArenaNextPreserves == ArenaInv /\ [ArenaNext]_arenaVars => ArenaInv'
<1>. SUFFICES ASSUME ArenaInv, [ArenaNext]_arenaVars PROVE ArenaInv'
  OBVIOUS
<1>1. CASE Ownership
  BY <1>1, ConstructPreserves, ConstructEmptyPreserves, DestroyPreserves, ResetPreserves,
     MoveConstructPreserves DEF Ownership
<1>2. CASE Allocation
  BY <1>2, AllocatePreserves, AllocateObjectsPreserves DEF Allocation
<1>3. CASE UNCHANGED arenaVars
  BY <1>3 DEF arenaVars, ArenaInv, ArenaTypeOK, PlaceInv, HeapInv, BuffersOwnedOnce,
              BlocksApart, BlocksAligned, EnoughGiven, Overlap
<1>. QED  BY <1>1, <1>2, <1>3 DEF ArenaNext

(* The inductive invariant: what is not an arena is empty, the heap is the
   buffers of the arenas, and the blocks are below the cursors. *)
THEOREM ArenaInvariant == ArenaSpec => []ArenaInv
<1>1. ArenaInit => ArenaInv
  BY ArenaInitEstablishes
<1>2. ArenaInv /\ [ArenaNext]_arenaVars => ArenaInv'
  BY ArenaNextPreserves
<1>. QED  BY <1>1, <1>2, PTL DEF ArenaSpec

(* "Owns a single buffer": across moves and destructions every buffer has one
   arena, which frees it. *)
THEOREM ArenaOwnsBuffers == ArenaSpec => []BuffersOwnedOnce
<1>1. ArenaInv => BuffersOwnedOnce
  BY DEF ArenaInv
<1>. QED  BY <1>1, ArenaInvariant, PTL

(* What allocate hands out, to the arena's users and through ArenaAllocator, is
   apart from everything else, aligned and large enough, for every width of
   size_t and any sizes and alignments asked for. *)
THEOREM ArenaMemoryExact == ArenaSpec => []MemoryExact
<1>1. ArenaInv => MemoryExact
  BY DEF ArenaInv, MemoryExact
<1>. QED  BY <1>1, ArenaInvariant, PTL

-----------------------------------------------------------------------------
(* UniqueHandle. *)

HandleInv == HandleTypeOK /\ FilesOwnedOnce

LEMMA HandleInitEstablishes == HandleInit => HandleInv
BY DEF HandleInit, HandleInv, HandleTypeOK, FilesOwnedOnce

LEMMA InvalidIsNone == Invalid \notin Descriptors
BY HandleAssumption DEF Invalid

\* The wrappers after one of them was given a handle, and then perhaps moved.
LEMMA RawStep ==
  ASSUME HandleInv, NEW d \in Descriptors, OpenRaw(d) \/ CloseRaw(d)
  PROVE  HandleInv'
<1>. USE InvalidIsNone DEF HandleInv, HandleTypeOK, FilesOwnedOnce
<1>1. CASE OpenRaw(d)
  BY <1>1 DEF OpenRaw
<1>2. CASE CloseRaw(d)
  BY <1>2 DEF CloseRaw
<1>. QED  BY <1>1, <1>2

LEMMA ConstructHandleStep ==
  ASSUME HandleInv, NEW w \in Wrappers, NEW d \in Descriptors \cup {Invalid},
         ConstructHandle(w, d)
  PROVE  HandleInv'
<1>. USE InvalidIsNone DEF HandleInv, HandleTypeOK, FilesOwnedOnce, ConstructHandle
<1>1. \A v \in wrappers : handle_'[v] = handle_[v] /\ v # w
  OBVIOUS
<1>2. handle_'[w] = d /\ wrappers' = wrappers \cup {w}
  OBVIOUS
<1>3. {handle_'[v] : v \in wrappers'} = {handle_[v] : v \in wrappers} \cup {d}
  BY <1>1, <1>2
<1>4. files' = raw' \cup ({handle_'[v] : v \in wrappers'} \ {Invalid})
  BY <1>3
<1>5. \A v \in wrappers' : handle_'[v] \notin raw'
  BY <1>1, <1>2
<1>6. \A u, v \in wrappers' : u # v /\ handle_'[u] = handle_'[v] => handle_'[u] = Invalid
  BY <1>1, <1>2
<1>. QED  BY <1>4, <1>5, <1>6

LEMMA ResetHandleStep ==
  ASSUME HandleInv, NEW w \in Wrappers, NEW d \in Descriptors \cup {Invalid},
         ResetHandle(w, d)
  PROVE  HandleInv'
<1>. USE InvalidIsNone DEF HandleInv, HandleTypeOK, FilesOwnedOnce, ResetHandle, Close
<1>1. \A v \in wrappers : handle_'[v] = IF v = w THEN d ELSE handle_[v]
  OBVIOUS
<1>2. handle_[w] = Invalid \/ \A v \in wrappers \ {w} : handle_[v] # handle_[w]
  OBVIOUS
<1>3. {handle_'[v] : v \in wrappers} = {handle_[v] : v \in wrappers \ {w}} \cup {d}
  BY <1>1
<1>4. files' = raw' \cup ({handle_'[v] : v \in wrappers'} \ {Invalid})
  BY <1>2, <1>3
<1>. QED  BY <1>1, <1>4

LEMMA MoveConstructHandleStep ==
  ASSUME HandleInv, NEW v \in Wrappers, NEW w \in Wrappers, MoveConstructHandle(v, w)
  PROVE  HandleInv'
<1>. USE InvalidIsNone DEF HandleInv, HandleTypeOK, FilesOwnedOnce, MoveConstructHandle, Released
<1>1. v # w /\ v \in wrappers /\ w \notin wrappers /\ wrappers' = wrappers \cup {w}
  OBVIOUS
<1>2. \A u \in wrappers' : handle_'[u] = IF u = w THEN handle_[v]
                                         ELSE IF u = v THEN Invalid ELSE handle_[u]
  BY <1>1
<1>3. {handle_'[u] : u \in wrappers'} \ {Invalid} = {handle_[u] : u \in wrappers} \ {Invalid}
  BY <1>1, <1>2
<1>. QED  BY <1>1, <1>2, <1>3

LEMMA MoveAssignHandleStep ==
  ASSUME HandleInv, NEW v \in Wrappers, NEW w \in Wrappers, MoveAssignHandle(v, w)
  PROVE  HandleInv'
<1>. USE InvalidIsNone DEF HandleInv, HandleTypeOK, FilesOwnedOnce, MoveAssignHandle, Released, Close
<1>1. v # w /\ v \in wrappers /\ w \in wrappers /\ wrappers' = wrappers
  OBVIOUS
<1>2. \A u \in wrappers : handle_'[u] = IF u = w THEN handle_[v]
                                        ELSE IF u = v THEN Invalid ELSE handle_[u]
  BY <1>1
<1>3. handle_[w] = Invalid \/ \A u \in wrappers \ {w} : handle_[u] # handle_[w]
  BY <1>1
<1>4. {handle_'[u] : u \in wrappers} \ {Invalid} = {handle_[u] : u \in wrappers \ {w}} \ {Invalid}
  BY <1>1, <1>2
<1>5. files' = raw' \cup ({handle_'[u] : u \in wrappers'} \ {Invalid})
  BY <1>1, <1>3, <1>4
<1>. QED  BY <1>1, <1>2, <1>5

LEMMA ReleaseStep ==
  ASSUME HandleInv, NEW w \in Wrappers, Release(w) \/ DestroyHandle(w)
  PROVE  HandleInv'
<1>. USE InvalidIsNone DEF HandleInv, HandleTypeOK, FilesOwnedOnce, Released, Close
<1>1. \A v \in wrappers : handle_'[v] = IF v = w THEN Invalid ELSE handle_[v]
  BY DEF Release, DestroyHandle
<1>2. handle_[w] = Invalid \/ \A v \in wrappers \ {w} : handle_[v] # handle_[w]
  BY DEF Release, DestroyHandle
<1>3. {handle_'[v] : v \in wrappers} \ {Invalid} = {handle_[v] : v \in wrappers \ {w}} \ {Invalid}
  BY <1>1
<1>4. CASE Release(w)
  <2>1. files' = raw' \cup ({handle_'[v] : v \in wrappers'} \ {Invalid})
    BY <1>3, <1>4 DEF Release
  <2>. QED  BY <1>1, <1>2, <1>4, <2>1 DEF Release
<1>5. CASE DestroyHandle(w)
  <2>1. {handle_'[v] : v \in wrappers'} \ {Invalid} = {handle_[v] : v \in wrappers \ {w}} \ {Invalid}
    BY <1>1, <1>5 DEF DestroyHandle
  <2>2. files' = raw' \cup ({handle_'[v] : v \in wrappers'} \ {Invalid})
    BY <1>2, <1>5, <2>1 DEF DestroyHandle
  <2>. QED  BY <1>1, <1>5, <2>2 DEF DestroyHandle
<1>. QED  BY <1>4, <1>5

LEMMA HandleNextPreserves == HandleInv /\ [HandleNext]_handleVars => HandleInv'
<1>. SUFFICES ASSUME HandleInv, [HandleNext]_handleVars PROVE HandleInv'
  OBVIOUS
<1>1. CASE HandleNext
  BY <1>1, RawStep, ConstructHandleStep, ResetHandleStep, MoveConstructHandleStep,
     MoveAssignHandleStep, ReleaseStep DEF HandleNext
<1>2. CASE UNCHANGED handleVars
  BY <1>2 DEF handleVars, HandleInv, HandleTypeOK, FilesOwnedOnce
<1>. QED  BY <1>1, <1>2

(* Every open descriptor has exactly one owner, and no wrapper holds one that
   is closed, for any number of wrappers and descriptors: UniqueHandle's moves,
   release() and reset(). *)
THEOREM HandleOwnsFiles == HandleSpec => []HandleInv
BY HandleInitEstablishes, HandleNextPreserves, PTL DEF HandleSpec

-----------------------------------------------------------------------------
(* Type-erased variables. *)

ErasureInv ==
  /\ ErasureTypeOK
  /\ ValueSemantics
  /\ \A v \in Variables : impl_[v] # 0 => state[impl_[v]] # 0
  /\ clone # <<>> =>
       /\ impl_[clone[1]] # 0 /\ state[clone[3]] = state[impl_[clone[1]]]
       /\ \A v \in Variables : impl_[v] # clone[3]

LEMMA ErasureInitEstablishes == ErasureInit => ErasureInv
BY ErasureAssumption DEF ErasureInit, ErasureInv, ErasureTypeOK, ValueSemantics

\* No address is 0, and an object that v has is no other variable's.
LEMMA ErasureFacts ==
  ASSUME ErasureInv, NEW v \in Variables
  PROVE  /\ 0 \notin Objects /\ 1 \in 0..MaxState /\ MaxState \in Nat
         /\ impl_ \in [Variables -> Objects \cup {0}]
         /\ state \in [Objects -> 0..MaxState]
         /\ value \in [Variables -> 0..MaxState]
         /\ impl_[v] \in Objects \cup {0}
         /\ impl_[v] # 0 => state[impl_[v]] \in 1..MaxState
         /\ impl_[v] # 0 => \A u \in Variables \ {v} : impl_[u] # impl_[v]
BY ErasureAssumption DEF ErasureInv, ErasureTypeOK, ValueSemantics

\* v is given an object of its own, and no other object is without variable.
LEMMA NewObjectStep ==
  ASSUME ErasureInv, NEW v \in Variables, NEW o \in Objects, NEW s \in 1..MaxState,
         \A u \in Variables : impl_[u] # o,
         \A x \in Objects : state[x] # 0 => x = o \/ \E u \in Variables : impl_[u] = x,
         impl_' = [impl_ EXCEPT ![v] = o],
         state' = Replace(v, o, s),
         value' = [value EXCEPT ![v] = s],
         clone' = <<>>
  PROVE  ErasureInv'
<1>1. /\ 0 \notin Objects /\ MaxState \in Nat
      /\ impl_ \in [Variables -> Objects \cup {0}]
      /\ state \in [Objects -> 0..MaxState]
      /\ value \in [Variables -> 0..MaxState]
  BY ErasureFacts
<1>2. \A u \in Variables : /\ impl_'[u] = IF u = v THEN o ELSE impl_[u]
                           /\ value'[u] = IF u = v THEN s ELSE value[u]
  BY <1>1
<1>3. \A x \in Objects : state'[x] = IF x = o THEN s ELSE IF x = impl_[v] THEN 0 ELSE state[x]
  BY DEF Replace
<1>4. state' \in [Objects -> 0..MaxState] /\ s \in 0..MaxState
  BY <1>1 DEF Replace
<1>6. ErasureTypeOK'
  BY <1>1, <1>4 DEF ErasureTypeOK
<1>7. \A u \in Variables \ {v} : impl_[u] # 0 =>
         impl_[u] \in Objects /\ impl_[u] # impl_[v] /\ state'[impl_'[u]] = state[impl_[u]]
  BY <1>1, <1>2, <1>3 DEF ErasureInv, ValueSemantics
<1>8. \A u \in Variables : value'[u] = IF impl_'[u] = 0 THEN 0 ELSE state'[impl_'[u]]
  BY <1>1, <1>2, <1>3, <1>7 DEF ErasureInv, ValueSemantics
<1>9. \A u, w \in Variables : u # w /\ impl_'[u] = impl_'[w] => impl_'[u] = 0
  BY <1>2 DEF ErasureInv, ValueSemantics
<1>10. \A x \in Objects : state'[x] # 0 => \E u \in Variables : impl_'[u] = x
  <2>. SUFFICES ASSUME NEW x \in Objects, state'[x] # 0
                PROVE  \E u \in Variables : impl_'[u] = x
    OBVIOUS
  <2>1. CASE x = o
    BY <1>2, <2>1
  <2>2. CASE x # o
    <3>1. state[x] # 0 /\ x # impl_[v]
      BY <1>3, <2>2
    <3>2. PICK u \in Variables : impl_[u] = x
      BY <2>2, <3>1
    <3>. QED  BY <1>2, <3>1, <3>2
  <2>. QED  BY <2>1, <2>2
<1>11. \A u \in Variables : impl_'[u] # 0 => state'[impl_'[u]] # 0
  BY <1>1, <1>2, <1>3, <1>7 DEF ErasureInv
<1>. QED  BY <1>6, <1>8, <1>9, <1>10, <1>11 DEF ErasureInv, ValueSemantics

LEMMA EmptyStep ==
  ASSUME ErasureInv, NEW v \in Variables, Empty(v)
  PROVE  ErasureInv'
<1>. USE DEF Empty
<1>1. /\ 0 \notin Objects /\ MaxState \in Nat
      /\ clone = <<>> /\ clone' = <<>>
      /\ impl_ \in [Variables -> Objects \cup {0}]
      /\ state \in [Objects -> 0..MaxState]
      /\ value \in [Variables -> 0..MaxState]
  BY ErasureFacts
<1>2. \A u \in Variables : /\ impl_'[u] = IF u = v THEN 0 ELSE impl_[u]
                           /\ value'[u] = IF u = v THEN 0 ELSE value[u]
  BY <1>1
<1>3. \A x \in Objects : state'[x] = IF x = impl_[v] THEN 0 ELSE state[x]
  BY <1>1 DEF Replace
<1>4. state' \in [Objects -> 0..MaxState]
  BY <1>1 DEF Replace
<1>5. impl_' \in [Variables -> Objects \cup {0}] /\ value' \in [Variables -> 0..MaxState]
  BY <1>1
<1>6. ErasureTypeOK'
  BY <1>1, <1>4, <1>5 DEF ErasureTypeOK
<1>7. \A u \in Variables \ {v} : impl_[u] # 0 =>
         impl_[u] \in Objects /\ impl_[u] # impl_[v] /\ state'[impl_'[u]] = state[impl_[u]]
  BY <1>1, <1>2, <1>3 DEF ErasureInv, ValueSemantics
<1>8. \A u \in Variables : value'[u] = IF impl_'[u] = 0 THEN 0 ELSE state'[impl_'[u]]
  BY <1>1, <1>2, <1>3, <1>7 DEF ErasureInv, ValueSemantics
<1>9. \A u, w \in Variables : u # w /\ impl_'[u] = impl_'[w] => impl_'[u] = 0
  BY <1>2 DEF ErasureInv, ValueSemantics
<1>10. \A x \in Objects : state'[x] # 0 => \E u \in Variables : impl_'[u] = x
  BY <1>2, <1>3 DEF ErasureInv, ValueSemantics
<1>11. \A u \in Variables : impl_'[u] # 0 => state'[impl_'[u]] # 0
  BY <1>2, <1>7 DEF ErasureInv
<1>. QED  BY <1>6, <1>8, <1>9, <1>10, <1>11 DEF ErasureInv, ValueSemantics

LEMMA MoveStep ==
  ASSUME ErasureInv, NEW u \in Variables, NEW v \in Variables, Move(u, v)
  PROVE  ErasureInv'
<1>. USE DEF Move
<1>1. /\ 0 \notin Objects /\ MaxState \in Nat /\ u # v /\ impl_[u] # 0
      /\ clone = <<>> /\ clone' = <<>>
      /\ impl_ \in [Variables -> Objects \cup {0}]
      /\ state \in [Objects -> 0..MaxState]
      /\ value \in [Variables -> 0..MaxState]
  BY ErasureFacts
<1>2. \A w \in Variables :
        /\ impl_'[w] = IF w = v THEN impl_[u] ELSE IF w = u THEN 0 ELSE impl_[w]
        /\ value'[w] = IF w = v THEN value[u] ELSE IF w = u THEN 0 ELSE value[w]
  BY <1>1
<1>3. \A x \in Objects : state'[x] = IF x = impl_[v] THEN 0 ELSE state[x]
  BY <1>1 DEF Replace
<1>4. state' \in [Objects -> 0..MaxState]
  BY <1>1 DEF Replace
<1>5. impl_' \in [Variables -> Objects \cup {0}] /\ value' \in [Variables -> 0..MaxState]
  BY <1>1
<1>6. ErasureTypeOK'
  BY <1>1, <1>4, <1>5 DEF ErasureTypeOK
<1>7. \A w \in Variables \ {v} : impl_[w] # 0 =>
         impl_[w] \in Objects /\ impl_[w] # impl_[v] /\ state'[impl_[w]] = state[impl_[w]]
  BY <1>1, <1>3 DEF ErasureInv, ValueSemantics
<1>8. \A w \in Variables : value'[w] = IF impl_'[w] = 0 THEN 0 ELSE state'[impl_'[w]]
  BY <1>1, <1>2, <1>7 DEF ErasureInv, ValueSemantics
<1>9. \A w, x \in Variables : w # x /\ impl_'[w] = impl_'[x] => impl_'[w] = 0
  BY <1>1, <1>2 DEF ErasureInv, ValueSemantics
<1>10. \A x \in Objects : state'[x] # 0 => \E w \in Variables : impl_'[w] = x
  <2>. SUFFICES ASSUME NEW x \in Objects, state'[x] # 0
                PROVE  \E w \in Variables : impl_'[w] = x
    OBVIOUS
  <2>1. PICK w \in Variables : impl_[w] = x /\ w # v
    BY <1>3 DEF ErasureInv, ValueSemantics
  <2>2. impl_'[IF w = u THEN v ELSE w] = x
    BY <1>1, <1>2, <2>1
  <2>. QED  BY <2>2
<1>11. \A w \in Variables : impl_'[w] # 0 => state'[impl_'[w]] # 0
  BY <1>1, <1>2, <1>7 DEF ErasureInv
<1>. QED  BY <1>6, <1>8, <1>9, <1>10, <1>11 DEF ErasureInv, ValueSemantics

LEMMA InvokeStep ==
  ASSUME ErasureInv, NEW v \in Variables, Invoke(v)
  PROVE  ErasureInv'
<1>. USE DEF Invoke
<1>1. /\ 0 \notin Objects /\ MaxState \in Nat /\ impl_[v] \in Objects
      /\ impl_ \in [Variables -> Objects \cup {0}]
      /\ state \in [Objects -> 0..MaxState]
      /\ value \in [Variables -> 0..MaxState]
      /\ state[impl_[v]] \in 1..MaxState /\ state[impl_[v]] < MaxState
      /\ value[v] = state[impl_[v]]
  BY ErasureFacts DEF ErasureInv, ValueSemantics
<1>2. /\ \A u \in Variables : value'[u] = IF u = v THEN value[v] + 1 ELSE value[u]
      /\ \A x \in Objects : state'[x] = IF x = impl_[v] THEN state[x] + 1 ELSE state[x]
  BY <1>1
<1>3. ErasureTypeOK'
  BY <1>1 DEF ErasureTypeOK
<1>4. \A u \in Variables \ {v} : impl_[u] # 0 =>
         impl_[u] \in Objects /\ state'[impl_[u]] = state[impl_[u]]
  BY <1>1, <1>2 DEF ErasureInv, ValueSemantics
<1>5. \A u \in Variables : value'[u] = IF impl_[u] = 0 THEN 0 ELSE state'[impl_[u]]
  BY <1>1, <1>2, <1>4 DEF ErasureInv, ValueSemantics
<1>6. \A x \in Objects : state'[x] # 0 => \E w \in Variables : impl_[w] = x
  BY <1>1, <1>2 DEF ErasureInv, ValueSemantics
<1>7. \A u \in Variables : impl_[u] # 0 => state'[impl_[u]] # 0
  BY <1>1, <1>2, <1>4 DEF ErasureInv
<1>. QED  BY <1>3, <1>5, <1>6, <1>7 DEF ErasureInv, ValueSemantics

\* The new object is the clone's, and as the one it is of.
LEMMA BeginCopyStep ==
  ASSUME ErasureInv, NEW u \in Variables, NEW v \in Variables, NEW o \in Objects,
         BeginCopy(u, v, o)
  PROVE  ErasureInv'
<1>. USE DEF BeginCopy
<1>1. /\ 0 \notin Objects /\ impl_[u] \in Objects /\ state[o] = 0
      /\ impl_ \in [Variables -> Objects \cup {0}]
      /\ state \in [Objects -> 0..MaxState]
      /\ value \in [Variables -> 0..MaxState]
      /\ state[impl_[u]] \in 1..MaxState
  BY ErasureFacts DEF New
<1>2. /\ clone = <<>> /\ clone' = <<u, v, o>> /\ impl_' = impl_ /\ value' = value
      /\ clone' # <<>> /\ clone'[1] = u /\ clone'[3] = o
  OBVIOUS
<1>3. \A x \in Objects : state'[x] = IF x = o THEN state[impl_[u]] ELSE state[x]
  BY <1>1
<1>4. \A w \in Variables : impl_[w] # o /\ (impl_[w] # 0 => state'[impl_[w]] = state[impl_[w]])
  BY <1>1, <1>3 DEF ErasureInv
<1>5. ErasureTypeOK'
  <2>1. clone' \in Variables \X Variables \X Objects
    BY <1>2
  <2>2. state' \in [Objects -> 0..MaxState]
    BY <1>1
  <2>. QED  BY <1>1, <1>2, <2>1, <2>2 DEF ErasureTypeOK
<1>6. \A w \in Variables : value[w] = IF impl_[w] = 0 THEN 0 ELSE state'[impl_[w]]
  BY <1>4 DEF ErasureInv, ValueSemantics
<1>7. \A x \in Objects : state'[x] # 0 => x = o \/ \E w \in Variables : impl_[w] = x
  BY <1>2, <1>3 DEF ErasureInv, ValueSemantics
<1>8. ValueSemantics'
  BY <1>2, <1>6, <1>7 DEF ErasureInv, ValueSemantics
<1>9. /\ \A w \in Variables : impl_[w] # 0 => state'[impl_[w]] # 0
      /\ state'[o] = state'[impl_[u]]
  BY <1>1, <1>3, <1>4 DEF ErasureInv
<1>. QED  BY <1>1, <1>2, <1>4, <1>5, <1>8, <1>9 DEF ErasureInv

LEMMA FinishCopyStep == ErasureInv /\ FinishCopy => ErasureInv'
<1>. SUFFICES ASSUME ErasureInv, FinishCopy PROVE ErasureInv'
  OBVIOUS
<1>1. clone # <<>> /\ clone \in Variables \X Variables \X Objects
  BY DEF FinishCopy, ErasureInv, ErasureTypeOK
<1>. DEFINE u == clone[1]  v == clone[2]  o == clone[3]
<1>2. u \in Variables /\ v \in Variables /\ o \in Objects
  BY <1>1
<1>3. /\ impl_[u] # 0 /\ state[o] = state[impl_[u]]
      /\ \A w \in Variables : impl_[w] # o
  BY <1>1 DEF ErasureInv
<1>4. state[o] \in 1..MaxState /\ value[u] = state[o]
  BY <1>2, <1>3, ErasureFacts DEF ErasureInv, ValueSemantics
<1>5. \A x \in Objects : state[x] # 0 => x = o \/ \E w \in Variables : impl_[w] = x
  BY DEF ErasureInv, ValueSemantics
<1>6. /\ impl_' = [impl_ EXCEPT ![v] = o] /\ state' = Replace(v, o, state[o])
      /\ value' = [value EXCEPT ![v] = state[o]] /\ clone' = <<>>
  BY <1>4 DEF FinishCopy
<1>. HIDE DEF u, v, o
<1>. QED  BY <1>2, <1>3, <1>4, <1>5, <1>6, NewObjectStep

\* The clone's object is gone, and nothing else has changed.
LEMMA CopyThrowsStep == ErasureInv /\ CopyThrows => ErasureInv'
<1>. SUFFICES ASSUME ErasureInv, CopyThrows PROVE ErasureInv'
  OBVIOUS
<1>1. clone # <<>> /\ clone \in Variables \X Variables \X Objects
  BY DEF CopyThrows, ErasureInv, ErasureTypeOK
<1>. DEFINE o == clone[3]
<1>2. o \in Objects /\ \A w \in Variables : impl_[w] # o
  BY <1>1 DEF ErasureInv
<1>3. /\ 0 \in 0..MaxState
      /\ impl_ \in [Variables -> Objects \cup {0}]
      /\ state \in [Objects -> 0..MaxState]
      /\ value \in [Variables -> 0..MaxState]
  BY ErasureAssumption DEF ErasureInv, ErasureTypeOK
<1>4. /\ impl_' = impl_ /\ value' = value /\ clone' = <<>>
      /\ state' = [state EXCEPT ![o] = 0]
  BY DEF CopyThrows
<1>5. \A x \in Objects : state[x] # 0 => x = o \/ \E w \in Variables : impl_[w] = x
  BY DEF ErasureInv, ValueSemantics
<1>. HIDE DEF o
<1>6. state' \in [Objects -> 0..MaxState]
      /\ \A x \in Objects : state'[x] = IF x = o THEN 0 ELSE state[x]
  BY <1>2, <1>3, <1>4
<1>7. ErasureTypeOK'
  BY <1>3, <1>4, <1>6 DEF ErasureTypeOK
<1>8. \A w \in Variables : impl_[w] # 0 => state'[impl_[w]] = state[impl_[w]]
  BY <1>2, <1>3, <1>6
<1>9. /\ \A w \in Variables : value[w] = IF impl_[w] = 0 THEN 0 ELSE state'[impl_[w]]
      /\ \A w, x \in Variables : w # x /\ impl_[w] = impl_[x] => impl_[w] = 0
      /\ \A w \in Variables : impl_[w] # 0 => state'[impl_[w]] # 0
  BY <1>8 DEF ErasureInv, ValueSemantics
<1>10. \A x \in Objects : state'[x] # 0 => \E w \in Variables : impl_[w] = x
  BY <1>5, <1>6
<1>. QED  BY <1>4, <1>7, <1>9, <1>10 DEF ErasureInv, ValueSemantics

LEMMA ErasureNextPreserves == ErasureInv /\ [ErasureNext]_erasureVars => ErasureInv'
<1>. SUFFICES ASSUME ErasureInv, [ErasureNext]_erasureVars PROVE ErasureInv'
  OBVIOUS
<1>1. ASSUME NEW v \in Variables, NEW o \in Objects, Wrap(v, o)
      PROVE  ErasureInv'
  <2>1. 1 \in 1..MaxState
    BY ErasureAssumption
  <2>2. /\ \A u \in Variables : impl_[u] # o
        /\ \A x \in Objects : state[x] # 0 => x = o \/ \E u \in Variables : impl_[u] = x
    <3>1. state[o] = 0 /\ clone = <<>>
      BY <1>1 DEF Wrap, New
    <3>2. \A u \in Variables : impl_[u] # o
      BY <3>1, ErasureAssumption DEF ErasureInv
    <3>. QED  BY <3>1, <3>2 DEF ErasureInv, ValueSemantics
  <2>. QED  BY <1>1, <2>1, <2>2, NewObjectStep DEF Wrap
<1>3. CASE UNCHANGED erasureVars
  BY <1>3 DEF erasureVars, ErasureInv, ErasureTypeOK, ValueSemantics
<1>. QED
  BY <1>1, <1>3, EmptyStep, MoveStep, InvokeStep, BeginCopyStep, FinishCopyStep,
     CopyThrowsStep DEF ErasureNext

(* Each type-erased variable stands for a state of its own, and every object
   has one variable, for any number of variables and objects and any failures
   of clone. *)
THEOREM ErasureValues == ErasureSpec => []ErasureInv
BY ErasureInitEstablishes, ErasureNextPreserves, PTL DEF ErasureSpec

-----------------------------------------------------------------------------
(* Owners of OpenGL objects. *)

Ids == {id_[o] : o \in DOMAIN id_}

BuildNames == {building[k] : k \in DOMAIN building}

(* Only the program in use is kept although it is to be deleted, and only its
   program may be in use after its owner has gone; a build that runs has names
   of its own, attached once there is a program. *)
GlInv ==
  /\ GlTypeOK
  /\ objects = (Ids \cup {inUse} \cup BuildNames) \ {0}
  /\ flagged \subseteq {inUse}
  /\ inUse # 0 => inUse \in Ids \cup flagged
  /\ attached = IF Len(building) = 3
                THEN {<<building[3], building[1]>>, <<building[3], building[2]>>}
                ELSE {}
  /\ \A o, p \in DOMAIN id_ : o # p /\ id_[o] = id_[p] => id_[o] = 0
  /\ Ids \cap flagged = {}
  /\ BuildNames \cap (Ids \cup {inUse, 0}) = {}
  /\ \A j, k \in DOMAIN building : building[j] = building[k] => j = k

GlRecord(O, F, A, u) == [objects |-> O, flagged |-> F, attached |-> A, inUse |-> u]

\* Nothing is attached: what is to be deleted goes, but for what is in use.
LEMMA SweptUnattached ==
  ASSUME NEW O, NEW F, NEW u
  PROVE  Swept(GlRecord(O, F, {}, u)) = GlRecord(O \ (F \ {u}), F \cap {u}, {}, u)
<1>. DEFINE g == GlRecord(O, F, {}, u)
            gone == {n \in g.flagged : ~Held(g, n)}
            after == {a \in g.attached : a[1] \notin gone}
            more == {n \in g.flagged : g.inUse # n /\ ~\E a \in after : a[2] = n}
<1>1. g.objects = O /\ g.flagged = F /\ g.attached = {} /\ g.inUse = u
  BY DEF GlRecord
<1>2. after = {}
  BY <1>1
<1>3. more = F \ {u}
  BY <1>1, <1>2
<1>4. Swept(g) = [g EXCEPT !.objects = @ \ more, !.flagged = @ \ more, !.attached = after]
  BY DEF Swept
<1>. HIDE DEF more, after
<1>5. Swept(g) = GlRecord(O \ more, F \ more, {}, u)
  BY <1>2, <1>4 DEF GlRecord
<1>. QED  BY <1>3, <1>5

\* What is deleted goes, unless it is in use.
LEMMA DeleteSweeps ==
  ASSUME NEW O, NEW F, NEW u, NEW n, n # 0
  PROVE  Delete(GlRecord(O, F, {}, u), n)
           = GlRecord(O \ ((F \cup {n}) \ {u}), (F \cup {n}) \cap {u}, {}, u)
<1>1. [GlRecord(O, F, {}, u) EXCEPT !.flagged = @ \cup {n}] = GlRecord(O, F \cup {n}, {}, u)
  BY DEF GlRecord
<1>. QED  BY <1>1, SweptUnattached DEF Delete

LEMMA DeleteInUse ==
  ASSUME NEW O, NEW F, NEW u, u # 0, F \subseteq {u}
  PROVE  Delete(GlRecord(O, F, {}, u), u) = GlRecord(O, F \cup {u}, {}, u)
<1>1. (F \cup {u}) \ {u} = {} /\ (F \cup {u}) \cap {u} = F \cup {u} /\ O \ {} = O
  OBVIOUS
<1>2. Delete(GlRecord(O, F, {}, u), u)
        = GlRecord(O \ ((F \cup {u}) \ {u}), (F \cup {u}) \cap {u}, {}, u)
  BY DeleteSweeps
<1>. QED  BY <1>1, <1>2

LEMMA DeleteUnused ==
  ASSUME NEW O, NEW F, NEW u, NEW n, n # 0, n # u, F \subseteq {u}
  PROVE  Delete(GlRecord(O, F, {}, u), n) = GlRecord(O \ {n}, F, {}, u)
<1>1. (F \cup {n}) \ {u} = {n} /\ (F \cup {n}) \cap {u} = F
  OBVIOUS
<1>2. Delete(GlRecord(O, F, {}, u), n)
        = GlRecord(O \ ((F \cup {n}) \ {u}), (F \cup {n}) \cap {u}, {}, u)
  BY DeleteSweeps
<1>. QED  BY <1>1, <1>2

\* A program that is not in use takes its attachments with it.
LEMMA DeleteLinking ==
  ASSUME NEW O, NEW F, NEW A, NEW u, NEW p, F \subseteq {u}, p # 0, p # u,
         \A a \in A : a[1] = p /\ a[2] # p
  PROVE  Delete(GlRecord(O, F, A, u), p) = GlRecord(O \ {p}, F, {}, u)
<1>. DEFINE g == GlRecord(O, F \cup {p}, A, u)
            gone == {n \in g.flagged : ~Held(g, n)}
            after == {a \in g.attached : a[1] \notin gone}
            more == {n \in g.flagged : g.inUse # n /\ ~\E a \in after : a[2] = n}
<1>1. g.objects = O /\ g.flagged = F \cup {p} /\ g.attached = A /\ g.inUse = u
  BY DEF GlRecord
<1>. HIDE DEF g
<1>3. p \in gone
  BY <1>1 DEF Held
<1>4. after = {}
  BY <1>1, <1>3
<1>5. more = {p}
  BY <1>1, <1>4
<1>6. Swept(g) = [g EXCEPT !.objects = @ \ more, !.flagged = @ \ more, !.attached = after]
  BY DEF Swept
<1>7. (F \cup {p}) \ {p} = F
  OBVIOUS
<1>. HIDE DEF more, after, gone
<1>8. Swept(g) = GlRecord(O \ {p}, (F \cup {p}) \ {p}, {}, u)
  BY <1>4, <1>5, <1>6 DEF GlRecord, g
<1>9. Delete(GlRecord(O, F, A, u), p) = Swept(g)
  <2>1. [GlRecord(O, F, A, u) EXCEPT !.flagged = @ \cup {p}] = g
    BY DEF GlRecord, g
  <2>. QED  BY <2>1 DEF Delete
<1>. QED  BY <1>7, <1>8, <1>9

LEMMA GlIs == Gl = GlRecord(objects, flagged, attached, inUse)
BY DEF Gl, GlRecord

LEMMA GlBecomesIs ==
  ASSUME NEW O, NEW F, NEW A, NEW u, GlBecomes(GlRecord(O, F, A, u))
  PROVE  objects' = O /\ flagged' = F /\ attached' = A /\ inUse' = u
BY DEF GlBecomes, GlRecord

LEMMA IdTypes ==
  ASSUME GlTypeOK
  PROVE  /\ DOMAIN id_ \subseteq GlOwners
         /\ id_ \in [DOMAIN id_ -> Names \cup {0}]
         /\ 0 \notin Names /\ \A o \in DOMAIN id_ : id_[o] \in Names \cup {0}
<1>1. PICK places \in SUBSET GlOwners : id_ \in [places -> Names \cup {0}]
  BY DEF GlTypeOK
<1>. QED  BY <1>1, NamesAssumption

LEMMA GlInitEstablishes == GlInit => GlInv
<1>. SUFFICES ASSUME GlInit PROVE GlInv
  OBVIOUS
<1>. USE DEF GlInit
<1>1. DOMAIN id_ = {} /\ id_ \in [{} -> Names \cup {0}] /\ DOMAIN building = {} /\ Len(building) = 0
  OBVIOUS
<1>2. Ids = {} /\ BuildNames = {}
  BY <1>1 DEF Ids, BuildNames
<1>3. GlTypeOK
  <2>1. {} \in SUBSET GlOwners
    OBVIOUS
  <2>2. \E places \in SUBSET GlOwners : id_ \in [places -> Names \cup {0}]
    BY <1>1, <2>1
  <2>. QED  BY <2>2 DEF GlTypeOK
<1>. QED  BY <1>1, <1>2, <1>3 DEF GlInv

\* Between builds: what a step leaves in the places and to OpenGL.
LEMMA BetweenBuilds ==
  ASSUME building' = <<>>,
         NEW places \in SUBSET GlOwners, id_' \in [places -> Names \cup {0}],
         inUse' \in Names \cup {0},
         objects' = (Ids' \cup {inUse'}) \ {0},
         flagged' \subseteq {inUse'}, 0 \notin flagged',
         inUse' # 0 => inUse' \in Ids' \cup flagged',
         attached' = {},
         \A o, p \in places : o # p /\ id_'[o] = id_'[p] => id_'[o] = 0,
         Ids' \cap flagged' = {}
  PROVE  GlInv'
<1>1. DOMAIN id_' = places /\ DOMAIN building' = {} /\ Len(building') = 0 /\ building' = <<>>
  OBVIOUS
<1>2. BuildNames' = {}
  BY <1>1 DEF BuildNames
<1>3. Ids' \subseteq Names \cup {0}
  BY <1>1 DEF Ids
<1>4. GlTypeOK'
  <2>1. building' \in Seq(objects')
    BY <1>1
  <2>2. \E x \in SUBSET GlOwners : id_' \in [x -> Names \cup {0}]
    OBVIOUS
  <2>3. objects' \subseteq Names /\ flagged' \subseteq objects' /\ inUse' \in objects' \cup {0}
    BY <1>3
  <2>4. attached' \subseteq objects' \X objects'
    OBVIOUS
  <2>. QED  BY <1>1, <2>1, <2>2, <2>3, <2>4 DEF GlTypeOK
<1>. QED  BY <1>1, <1>2, <1>4 DEF GlInv

LEMMA IdleFacts ==
  ASSUME GlInv, building = <<>>
  PROVE  /\ GlTypeOK /\ attached = {} /\ 0 \notin flagged /\ flagged \subseteq {inUse}
         /\ objects = (Ids \cup {inUse}) \ {0} /\ Ids \cap flagged = {}
         /\ inUse \in Names \cup {0}
         /\ inUse # 0 => inUse \in Ids \cup flagged
<1>1. Len(building) = 0 /\ DOMAIN building = {}
  OBVIOUS
<1>2. BuildNames = {}
  BY <1>1 DEF BuildNames
<1>3. 0 \notin flagged /\ inUse \in Names \cup {0}
  BY NamesAssumption DEF GlInv, GlTypeOK
<1>. QED  BY <1>1, <1>2, <1>3 DEF GlInv

LEMMA CreateStep ==
  ASSUME GlInv, building = <<>>, NEW o \in GlOwners, NEW n \in Names, CreateObject(o, n)
  PROVE  GlInv'
<1>. USE DEF CreateObject
<1>. DEFINE places == DOMAIN id_ \cup {o}
<1>1. /\ GlTypeOK /\ 0 \notin Names /\ DOMAIN id_ \subseteq GlOwners
      /\ \A p \in DOMAIN id_ : id_[p] \in Names \cup {0}
  BY IdleFacts, IdTypes
<1>2. places \in SUBSET GlOwners /\ id_' \in [places -> Names \cup {0}]
  BY <1>1
<1>3. \A p \in places : id_'[p] = IF p = o THEN n ELSE id_[p]
  OBVIOUS
<1>4. DOMAIN id_' = places
  OBVIOUS
<1>. HIDE DEF places
<1>5. Ids' = Ids \cup {n}
  BY <1>3, <1>4 DEF Ids, places
<1>6. n \notin Ids /\ n # inUse /\ n \notin flagged /\ n # 0
  BY <1>1, IdleFacts DEF GlTypeOK
<1>7. \A p \in DOMAIN id_ : id_[p] \in Ids
  BY DEF Ids
<1>8. \A p, q \in places : p # q /\ id_'[p] = id_'[q] => id_'[p] = 0
  BY <1>3, <1>6, <1>7 DEF GlInv, places
<1>9. objects' = (Ids' \cup {inUse'}) \ {0}
  BY <1>5, <1>6, IdleFacts
<1>10. /\ inUse' \in Names \cup {0} /\ flagged' \subseteq {inUse'} /\ 0 \notin flagged'
       /\ attached' = {} /\ building' = <<>>
       /\ (inUse' # 0 => inUse' \in Ids' \cup flagged') /\ Ids' \cap flagged' = {}
  BY <1>5, <1>6, IdleFacts
<1>. HIDE DEF CreateObject
<1>. QED  BY <1>2, <1>8, <1>9, <1>10, BetweenBuilds

\* Deleting a name that an owner has had, so that the others have `rest`.
LEMMA OwnedNameGoes ==
  ASSUME GlInv, building = <<>>, NEW n \in Ids, NEW rest,
         GlBecomes(Delete(Gl, n)), Ids \ {n} \subseteq rest, rest \subseteq Ids \cup {0},
         n # 0 => n \notin rest
  PROVE  /\ objects' = (rest \cup {inUse'}) \ {0}
         /\ flagged' \subseteq {inUse'} /\ 0 \notin flagged'
         /\ inUse' = inUse /\ attached' = {}
         /\ inUse' # 0 => inUse' \in rest \cup flagged'
         /\ rest \cap flagged' = {}
<1>1. Gl = GlRecord(objects, flagged, {}, inUse)
  BY GlIs, IdleFacts
<1>2. CASE n = 0
  <2>1. GlBecomes(GlRecord(objects, flagged, {}, inUse))
    BY <1>1, <1>2 DEF Delete
  <2>2. objects' = objects /\ flagged' = flagged /\ attached' = {} /\ inUse' = inUse
    BY <2>1, GlBecomesIs
  <2>. QED  BY <1>2, <2>2, IdleFacts
<1>3. CASE n # 0 /\ n = inUse
  <2>1. GlBecomes(GlRecord(objects, flagged \cup {n}, {}, inUse))
    <3>1. flagged \subseteq {inUse} /\ n # 0 /\ n = inUse
      BY <1>3, IdleFacts
    <3>2. Delete(GlRecord(objects, flagged, {}, inUse), n)
            = GlRecord(objects, flagged \cup {n}, {}, inUse)
      BY <3>1, DeleteInUse
    <3>. QED  BY <1>1, <3>2, Zenon
  <2>2. objects' = objects /\ flagged' = flagged \cup {n} /\ attached' = {} /\ inUse' = inUse
    BY <2>1, GlBecomesIs
  <2>. QED  BY <1>3, <2>2, IdleFacts
<1>4. CASE n # 0 /\ n # inUse
  <2>1. GlBecomes(GlRecord(objects \ {n}, flagged, {}, inUse))
    <3>1. flagged \subseteq {inUse} /\ n # 0 /\ n # inUse
      BY <1>4, IdleFacts
    <3>2. Delete(GlRecord(objects, flagged, {}, inUse), n)
            = GlRecord(objects \ {n}, flagged, {}, inUse)
      BY <3>1, DeleteUnused
    <3>. QED  BY <1>1, <3>2, Zenon
  <2>2. objects' = objects \ {n} /\ flagged' = flagged /\ attached' = {} /\ inUse' = inUse
    BY <2>1, GlBecomesIs
  <2>. QED  BY <1>4, <2>2, IdleFacts
<1>. QED  BY <1>2, <1>3, <1>4

LEMMA DestroyOwnerStep ==
  ASSUME GlInv, building = <<>>, NEW o \in GlOwners, DestroyOwner(o)
  PROVE  GlInv'
<1>. DEFINE places == DOMAIN id_ \ {o}
            n == id_[o]
            rest == {id_[p] : p \in places}
<1>1. /\ GlTypeOK /\ 0 \notin Names /\ DOMAIN id_ \subseteq GlOwners
      /\ \A p \in DOMAIN id_ : id_[p] \in Names \cup {0}
  BY IdleFacts, IdTypes
<1>2. /\ o \in DOMAIN id_ /\ GlBecomes(Delete(Gl, n)) /\ building' = <<>>
      /\ id_' = [p \in places |-> id_[p]]
  BY DEF DestroyOwner
<1>3. places \in SUBSET GlOwners /\ id_' \in [places -> Names \cup {0}]
  BY <1>1, <1>2
<1>4. \A p, q \in DOMAIN id_ : p # q /\ id_[p] = id_[q] => id_[p] = 0
  BY DEF GlInv
<1>5. n \in Ids /\ Ids \ {n} \subseteq rest /\ rest \subseteq Ids \cup {0}
  BY <1>2 DEF Ids
<1>6. n # 0 => n \notin rest
  BY <1>2, <1>4
<1>7. Ids' = rest
  BY <1>2 DEF Ids
<1>8. \A p, q \in places : p # q /\ id_'[p] = id_'[q] => id_'[p] = 0
  BY <1>2, <1>4
<1>. HIDE DEF n, rest, places
<1>9. /\ objects' = (rest \cup {inUse'}) \ {0}
      /\ flagged' \subseteq {inUse'} /\ 0 \notin flagged'
      /\ inUse' = inUse /\ attached' = {}
      /\ inUse' # 0 => inUse' \in rest \cup flagged'
      /\ rest \cap flagged' = {}
  BY <1>2, <1>5, <1>6, OwnedNameGoes
<1>10. inUse' \in Names \cup {0}
  BY <1>9, IdleFacts
<1>. QED  BY <1>2, <1>3, <1>7, <1>8, <1>9, <1>10, BetweenBuilds

LEMMA MoveAssignOwnerStep ==
  ASSUME GlInv, building = <<>>, NEW o \in GlOwners, NEW p \in GlOwners, MoveAssignOwner(o, p)
  PROVE  GlInv'
<1>. DEFINE n == id_[p]
            places == DOMAIN id_
            rest == {id_'[q] : q \in places}
<1>1. /\ GlTypeOK /\ 0 \notin Names /\ DOMAIN id_ \subseteq GlOwners
      /\ id_ \in [DOMAIN id_ -> Names \cup {0}]
      /\ \A q \in DOMAIN id_ : id_[q] \in Names \cup {0}
  BY IdleFacts, IdTypes
<1>2. /\ o # p /\ o \in places /\ p \in places /\ GlBecomes(Delete(Gl, n))
      /\ building' = <<>> /\ id_' = [id_ EXCEPT ![p] = id_[o], ![o] = 0]
  BY DEF MoveAssignOwner
<1>3. \A q \in places : id_'[q] = IF q = p THEN id_[o] ELSE IF q = o THEN 0 ELSE id_[q]
  BY <1>1, <1>2
<1>4. places \in SUBSET GlOwners /\ id_' \in [places -> Names \cup {0}] /\ DOMAIN id_' = places
  BY <1>1, <1>2
<1>5. \A q, r \in places : q # r /\ id_[q] = id_[r] => id_[q] = 0
  BY DEF GlInv
<1>6. n \in Ids /\ Ids \ {n} \subseteq rest /\ rest \subseteq Ids \cup {0}
  <2>1. n \in Ids /\ rest \subseteq Ids \cup {0}
    BY <1>2, <1>3 DEF Ids
  <2>2. ASSUME NEW q \in places, id_[q] # n PROVE id_[q] \in rest
    <3>1. CASE q = o
      BY <1>2, <1>3, <3>1
    <3>2. CASE q # o
      BY <1>3, <2>2, <3>2
    <3>. QED  BY <3>1, <3>2
  <2>. QED  BY <2>1, <2>2 DEF Ids
<1>7. n # 0 => n \notin rest
  BY <1>2, <1>3, <1>5
<1>8. Ids' = rest
  BY <1>4 DEF Ids
<1>9. \A q, r \in places : q # r /\ id_'[q] = id_'[r] => id_'[q] = 0
  BY <1>2, <1>3, <1>5
<1>. HIDE DEF n, rest, places
<1>10. /\ objects' = (rest \cup {inUse'}) \ {0}
       /\ flagged' \subseteq {inUse'} /\ 0 \notin flagged'
       /\ inUse' = inUse /\ attached' = {}
       /\ inUse' # 0 => inUse' \in rest \cup flagged'
       /\ rest \cap flagged' = {}
  BY <1>2, <1>6, <1>7, OwnedNameGoes
<1>11. inUse' \in Names \cup {0}
  BY <1>10, IdleFacts
<1>. QED  BY <1>2, <1>4, <1>8, <1>9, <1>10, <1>11, BetweenBuilds

LEMMA MoveConstructOwnerStep ==
  ASSUME GlInv, building = <<>>, NEW o \in GlOwners, NEW p \in GlOwners,
         MoveConstructOwner(o, p)
  PROVE  GlInv'
<1>. DEFINE places == DOMAIN id_ \cup {p}
<1>1. /\ GlTypeOK /\ 0 \notin Names /\ DOMAIN id_ \subseteq GlOwners
      /\ \A q \in DOMAIN id_ : id_[q] \in Names \cup {0}
  BY IdleFacts, IdTypes
<1>2. /\ o \in DOMAIN id_ /\ p \notin DOMAIN id_ /\ building' = <<>>
      /\ UNCHANGED <<objects, flagged, attached, inUse>>
      /\ id_' = [q \in places |-> IF q = p THEN id_[o] ELSE IF q = o THEN 0 ELSE id_[q]]
  BY DEF MoveConstructOwner
<1>3. places \in SUBSET GlOwners /\ id_' \in [places -> Names \cup {0}] /\ DOMAIN id_' = places
  BY <1>1, <1>2
<1>4. \A q \in places : id_'[q] = IF q = p THEN id_[o] ELSE IF q = o THEN 0 ELSE id_[q]
  BY <1>2
<1>5. \A q, r \in places : q # r /\ id_'[q] = id_'[r] => id_'[q] = 0
  BY <1>2, <1>4 DEF GlInv
<1>6. Ids' = Ids \cup {0}
  <2>1. Ids' \subseteq Ids \cup {0}
    BY <1>2, <1>3, <1>4 DEF Ids
  <2>2. ASSUME NEW q \in DOMAIN id_ PROVE id_[q] \in Ids'
    <3>1. CASE q = o
      BY <1>2, <1>3, <1>4, <3>1 DEF Ids
    <3>2. CASE q # o
      BY <1>2, <1>3, <1>4, <3>2 DEF Ids
    <3>. QED  BY <3>1, <3>2
  <2>3. 0 \in Ids'
    BY <1>2, <1>3, <1>4 DEF Ids
  <2>. QED  BY <2>1, <2>2, <2>3 DEF Ids
<1>. HIDE DEF places
<1>7. /\ objects' = (Ids' \cup {inUse'}) \ {0}
      /\ flagged' \subseteq {inUse'} /\ 0 \notin flagged' /\ inUse' \in Names \cup {0}
      /\ attached' = {} /\ (inUse' # 0 => inUse' \in Ids' \cup flagged')
      /\ Ids' \cap flagged' = {}
  BY <1>2, <1>6, IdleFacts
<1>. QED  BY <1>2, <1>3, <1>5, <1>7, BetweenBuilds

LEMMA UseStep ==
  ASSUME GlInv, building = <<>>, NEW o \in GlOwners, Use(o)
  PROVE  GlInv'
<1>. DEFINE n == id_[o]
<1>1. /\ GlTypeOK /\ 0 \notin Names /\ DOMAIN id_ \subseteq GlOwners
      /\ id_ \in [DOMAIN id_ -> Names \cup {0}]
      /\ \A q \in DOMAIN id_ : id_[q] \in Names \cup {0}
  BY IdleFacts, IdTypes
<1>2. /\ o \in DOMAIN id_ /\ GlBecomes(Swept([Gl EXCEPT !.inUse = n]))
      /\ id_' = id_ /\ building' = <<>>
  BY DEF Use
<1>3. n \in Ids /\ n \in Names \cup {0} /\ n \notin flagged
  BY <1>1, <1>2, IdleFacts DEF Ids
<1>. HIDE DEF n
<1>4. [Gl EXCEPT !.inUse = n] = GlRecord(objects, flagged, {}, n)
  <2>1. [Gl EXCEPT !.inUse = n] = GlRecord(objects, flagged, attached, n)
    BY DEF Gl, GlRecord
  <2>2. attached = {}
    BY IdleFacts
  <2>. QED  BY <2>1, <2>2
<1>5. GlBecomes(GlRecord(objects \ (flagged \ {n}), flagged \cap {n}, {}, n))
  BY <1>2, <1>4, SweptUnattached
<1>6. /\ objects' = objects \ flagged /\ flagged' = {} /\ attached' = {} /\ inUse' = n
  BY <1>3, <1>5, GlBecomesIs
<1>7. Ids' = Ids
  BY <1>2 DEF Ids
<1>8. objects \ flagged = (Ids \cup {n}) \ {0}
  BY <1>3, IdleFacts
<1>9. \A p, q \in DOMAIN id_ : p # q /\ id_'[p] = id_'[q] => id_'[p] = 0
  BY <1>2 DEF GlInv
<1>. QED  BY <1>1, <1>2, <1>3, <1>6, <1>7, <1>8, <1>9, BetweenBuilds

\* A build that runs: its names are its own.
LEMMA BuildFacts ==
  ASSUME GlInv
  PROVE  /\ GlTypeOK /\ 0 \notin Names /\ building \in Seq(objects)
         /\ Len(building) \in 0..3 /\ DOMAIN building = 1..Len(building)
         /\ objects \subseteq Names /\ flagged \subseteq {inUse} /\ 0 \notin flagged
         /\ inUse \in objects \cup {0}
         /\ \A k \in 1..Len(building) :
              /\ building[k] \in objects /\ building[k] # 0
              /\ building[k] # inUse /\ building[k] \notin Ids
         /\ \A j, k \in 1..Len(building) : j # k => building[j] # building[k]
<1>1. building \in Seq(objects) /\ Len(building) <= 3 /\ 0 \notin Names /\ objects \subseteq Names
  BY NamesAssumption DEF GlInv, GlTypeOK
<1>2. Len(building) \in 0..3 /\ DOMAIN building = 1..Len(building)
  <2>1. Len(building) \in Nat
    BY <1>1
  <2>2. DOMAIN building = 1..Len(building)
    BY <1>1
  <2>. QED  BY <1>1, <2>1, <2>2
<1>3. \A k \in 1..Len(building) : building[k] \in objects /\ building[k] \in BuildNames
  BY <1>1, <1>2 DEF BuildNames
<1>4. \A k \in 1..Len(building) :
        building[k] # 0 /\ building[k] # inUse /\ building[k] \notin Ids
  BY <1>3 DEF GlInv
<1>. QED  BY <1>1, <1>2, <1>3, <1>4 DEF GlInv, GlTypeOK

\* A name is added to the build.
LEMMA BuildGrows ==
  ASSUME GlInv, NEW n \in Names, n \notin objects, Len(building) < 3,
         building' = Append(building, n), objects' = objects \cup {n},
         UNCHANGED <<id_, flagged, inUse>>,
         attached' = IF Len(building) = 2
                     THEN attached \cup {<<n, building[1]>>, <<n, building[2]>>}
                     ELSE attached
  PROVE  GlInv'
<1>. DEFINE L == Len(building)
            b == building'
<1>1. /\ GlTypeOK /\ 0 \notin Names /\ building \in Seq(objects) /\ L \in 0..2
      /\ DOMAIN building = 1..L /\ objects \subseteq Names /\ inUse \in objects \cup {0}
  BY BuildFacts
<1>2. building \in Seq(objects')
  <2>1. \A k \in 1..L : building[k] \in objects'
    BY BuildFacts
  <2>. QED  BY <1>1, <2>1
<1>3. /\ b \in Seq(objects') /\ Len(b) = L + 1 /\ DOMAIN b = 1..(L + 1) /\ b[L + 1] = n
      /\ \A k \in 1..L : b[k] = building[k]
  BY <1>1, <1>2
<1>. HIDE DEF b, L
<1>4. BuildNames' = BuildNames \cup {n}
  <2>1. 1..(L + 1) = (1..L) \cup {L + 1}
    BY <1>1
  <2>2. BuildNames' = {b[k] : k \in DOMAIN b}
    BY DEF BuildNames, b
  <2>. QED  BY <1>1, <1>3, <2>1, <2>2 DEF BuildNames
<1>5. Ids' = Ids
  BY DEF Ids
<1>6. n \notin Ids /\ n # inUse /\ n # 0 /\ n \notin BuildNames
  BY <1>1 DEF GlInv
<1>7. attached' = IF Len(b) = 3 THEN {<<b[3], b[1]>>, <<b[3], b[2]>>} ELSE {}
  <2>1. attached = {}
    BY <1>1 DEF GlInv, L
  <2>2. CASE L = 2
    BY <1>3, <2>1, <2>2 DEF L
  <2>3. CASE L # 2
    BY <1>1, <1>3, <2>1, <2>3 DEF L
  <2>. QED  BY <2>2, <2>3
<1>8. GlTypeOK'
  <2>1. \E places \in SUBSET GlOwners : id_' \in [places -> Names \cup {0}]
    BY <1>1 DEF GlTypeOK
  <2>2. attached' \subseteq objects' \X objects'
    BY <1>1, <1>3, <1>7
  <2>3. objects' \subseteq Names /\ flagged' \subseteq objects' /\ inUse' \in objects' \cup {0}
    BY <1>1 DEF GlTypeOK
  <2>4. b \in Seq(objects') /\ Len(b) <= 3
    BY <1>1, <1>3
  <2>. QED  BY <2>1, <2>2, <2>3, <2>4 DEF GlTypeOK, b
<1>9. \A j, k \in DOMAIN b : b[j] = b[k] => j = k
  <2>. SUFFICES ASSUME NEW j \in 1..(L + 1), NEW k \in 1..(L + 1), b[j] = b[k]
                PROVE  j = k
    BY <1>3
  <2>1. \A i \in 1..L : b[i] # n
    BY <1>1, <1>3, <1>6 DEF BuildNames
  <2>2. CASE j \in 1..L /\ k \in 1..L
    BY <1>1, <1>3, <2>2 DEF GlInv
  <2>. QED  BY <1>1, <1>3, <2>1, <2>2
<1>10. objects' = (Ids' \cup {inUse'} \cup BuildNames') \ {0}
  BY <1>4, <1>5, <1>6 DEF GlInv
<1>11. BuildNames' \cap (Ids' \cup {inUse', 0}) = {}
  BY <1>4, <1>5, <1>6 DEF GlInv
<1>12. /\ flagged' \subseteq {inUse'}
       /\ inUse' # 0 => inUse' \in Ids' \cup flagged'
       /\ \A o, p \in DOMAIN id_' : o # p /\ id_'[o] = id_'[p] => id_'[o] = 0
       /\ Ids' \cap flagged' = {}
  BY <1>5 DEF GlInv
<1>. QED  BY <1>7, <1>8, <1>9, <1>10, <1>11, <1>12 DEF GlInv, b

LEMMA BuildGoesOn ==
  ASSUME GlInv, NEW n \in Names, CompileNext(n) \/ LinkBegins(n)
  PROVE  GlInv'
<1>1. Len(building) \in Nat
  BY BuildFacts
<1>2. CASE CompileNext(n)
  BY <1>1, <1>2, BuildGrows DEF CompileNext
<1>3. CASE LinkBegins(n)
  BY <1>1, <1>3, BuildGrows DEF LinkBegins
<1>. QED  BY <1>2, <1>3

\* Up to three names are deleted that are neither owned nor in use.
LEMMA DeleteTwo ==
  ASSUME NEW O, NEW F, NEW u, F \subseteq {u},
         NEW ns, Len(ns) \in 0..2, \A k \in 1..Len(ns) : ns[k] # 0 /\ ns[k] # u
  PROVE  DeleteAll(GlRecord(O, F, {}, u), ns)
           = GlRecord(O \ {ns[k] : k \in 1..Len(ns)}, F, {}, u)
<1>. DEFINE g == GlRecord(O, F, {}, u)
<1>1. Delete(g, 0) = g
  BY DEF Delete
<1>2. CASE Len(ns) = 0
  <2>1. DeleteAll(g, ns) = Delete(Delete(Delete(g, 0), 0), 0)
    BY <1>2 DEF DeleteAll
  <2>2. O \ {ns[k] : k \in 1..Len(ns)} = O
    BY <1>2
  <2>. HIDE DEF g
  <2>3. DeleteAll(g, ns) = g
    BY <1>1, <2>1
  <2>. QED  BY <2>2, <2>3 DEF g
<1>3. CASE Len(ns) = 1
  <2>1. DeleteAll(g, ns) = Delete(Delete(Delete(g, 0), 0), ns[1])
    BY <1>3 DEF DeleteAll
  <2>2. Delete(g, ns[1]) = GlRecord(O \ {ns[1]}, F, {}, u)
    BY <1>3, DeleteUnused
  <2>3. {ns[k] : k \in 1..Len(ns)} = {ns[1]}
    BY <1>3
  <2>. HIDE DEF g
  <2>4. DeleteAll(g, ns) = Delete(g, ns[1])
    BY <1>1, <2>1
  <2>. QED  BY <2>2, <2>3, <2>4 DEF g
<1>4. CASE Len(ns) = 2
  <2>. DEFINE h == GlRecord(O \ {ns[2]}, F, {}, u)
  <2>1. DeleteAll(g, ns) = Delete(Delete(Delete(g, 0), ns[2]), ns[1])
    BY <1>4 DEF DeleteAll
  <2>2. ns[1] # 0 /\ ns[1] # u /\ ns[2] # 0 /\ ns[2] # u
    BY <1>4
  <2>3. Delete(g, ns[2]) = h
    BY <2>2, DeleteUnused
  <2>4. Delete(h, ns[1]) = GlRecord((O \ {ns[2]}) \ {ns[1]}, F, {}, u)
    BY <2>2, DeleteUnused
  <2>5. (O \ {ns[2]}) \ {ns[1]} = O \ {ns[k] : k \in 1..Len(ns)}
    <3>1. {ns[k] : k \in 1..2} = {ns[1], ns[2]}
      OBVIOUS
    <3>. QED  BY <1>4, <3>1
  <2>. HIDE DEF g, h
  <2>6. DeleteAll(g, ns) = Delete(h, ns[1])
    BY <1>1, <2>1, <2>3
  <2>. QED  BY <2>4, <2>5, <2>6 DEF g
<1>. QED  BY <1>2, <1>3, <1>4

\* The three names of a build that is linking are deleted.
LEMMA DeleteThree ==
  ASSUME NEW O, NEW F, NEW u, F \subseteq {u},
         NEW ns, Len(ns) = 3, \A k \in 1..3 : ns[k] # 0 /\ ns[k] # u,
         ns[1] # ns[3], ns[2] # ns[3]
  PROVE  DeleteAll(GlRecord(O, F, {<<ns[3], ns[1]>>, <<ns[3], ns[2]>>}, u), ns)
           = GlRecord(O \ {ns[k] : k \in 1..3}, F, {}, u)
<1>. DEFINE g == GlRecord(O, F, {<<ns[3], ns[1]>>, <<ns[3], ns[2]>>}, u)
            h == GlRecord(O \ {ns[3]}, F, {}, u)
            i == GlRecord((O \ {ns[3]}) \ {ns[2]}, F, {}, u)
<1>1. DeleteAll(g, ns) = Delete(Delete(Delete(g, ns[3]), ns[2]), ns[1])
  BY DEF DeleteAll
<1>2. /\ ns[1] # 0 /\ ns[2] # 0 /\ ns[3] # 0
      /\ ns[1] # u /\ ns[2] # u /\ ns[3] # u
  OBVIOUS
<1>3. Delete(g, ns[3]) = h
  <2>. DEFINE A == {<<ns[3], ns[1]>>, <<ns[3], ns[2]>>}
  <2>1. \A a \in A : a[1] = ns[3] /\ a[2] # ns[3]
    OBVIOUS
  <2>. HIDE DEF A
  <2>2. Delete(GlRecord(O, F, A, u), ns[3]) = GlRecord(O \ {ns[3]}, F, {}, u)
    BY <1>2, <2>1, DeleteLinking
  <2>. QED  BY <2>2 DEF A
<1>4. Delete(h, ns[2]) = i
  BY <1>2, DeleteUnused
<1>5. Delete(i, ns[1]) = GlRecord(((O \ {ns[3]}) \ {ns[2]}) \ {ns[1]}, F, {}, u)
  BY <1>2, DeleteUnused
<1>6. ((O \ {ns[3]}) \ {ns[2]}) \ {ns[1]} = O \ {ns[k] : k \in 1..3}
  <2>1. {ns[k] : k \in 1..3} = {ns[1], ns[2], ns[3]}
    OBVIOUS
  <2>. QED  BY <2>1
<1>. HIDE DEF g, h, i
<1>7. DeleteAll(g, ns) = Delete(i, ns[1])
  BY <1>1, <1>3, <1>4
<1>. QED  BY <1>5, <1>6, <1>7 DEF g

\* A build that fails leaves what there was before it.
LEMMA BuildFailsStep ==
  ASSUME GlInv, BuildFails
  PROVE  GlInv'
<1>. DEFINE L == Len(building)
<1>1. L \in 0..3 /\ DOMAIN building = 1..L
  BY BuildFacts
<1>2. BuildNames = {building[k] : k \in 1..L}
  BY <1>1 DEF BuildNames
<1>3. \A k \in 1..L : building[k] # 0 /\ building[k] # inUse
  BY BuildFacts
<1>4. \A j, k \in 1..L : j # k => building[j] # building[k]
  BY BuildFacts
<1>5. flagged \subseteq {inUse}
  BY DEF GlInv
<1>6. GlBecomes(DeleteAll(GlRecord(objects, flagged, attached, inUse), building))
  BY GlIs DEF BuildFails
<1>7. DeleteAll(GlRecord(objects, flagged, attached, inUse), building)
        = GlRecord(objects \ BuildNames, flagged, {}, inUse)
  <2>1. CASE L = 3
    <3>1. attached = {<<building[3], building[1]>>, <<building[3], building[2]>>}
      BY <2>1 DEF GlInv
    <3>2. building[1] # building[3] /\ building[2] # building[3]
      BY <1>4, <2>1
    <3>3. DeleteAll(GlRecord(objects, flagged,
                             {<<building[3], building[1]>>, <<building[3], building[2]>>}, inUse),
                    building)
            = GlRecord(objects \ {building[k] : k \in 1..3}, flagged, {}, inUse)
      BY <1>3, <1>5, <2>1, <3>2, DeleteThree
    <3>. QED  BY <1>2, <2>1, <3>1, <3>3
  <2>2. CASE L # 3
    <3>1. attached = {}
      BY <2>2 DEF GlInv
    <3>2. L \in 0..2
      BY <1>1, <2>2
    <3>3. DeleteAll(GlRecord(objects, flagged, {}, inUse), building)
            = GlRecord(objects \ {building[k] : k \in 1..L}, flagged, {}, inUse)
      BY <1>3, <1>5, <3>2, DeleteTwo
    <3>. QED  BY <1>2, <3>1, <3>3
  <2>. QED  BY <2>1, <2>2
<1>8. objects' = objects \ BuildNames /\ flagged' = flagged /\ attached' = {} /\ inUse' = inUse
  BY <1>6, <1>7, GlBecomesIs
<1>9. id_' = id_ /\ building' = <<>> /\ Ids' = Ids
  BY DEF BuildFails, Ids
<1>10. objects' = (Ids' \cup {inUse'}) \ {0}
  BY <1>8, <1>9 DEF GlInv
<1>11. /\ DOMAIN id_ \in SUBSET GlOwners /\ id_' \in [DOMAIN id_ -> Names \cup {0}]
       /\ inUse' \in Names \cup {0} /\ 0 \notin flagged'
  BY <1>8, <1>9, BuildFacts, IdTypes
<1>12. /\ flagged' \subseteq {inUse'} /\ Ids' \cap flagged' = {}
       /\ inUse' # 0 => inUse' \in Ids' \cup flagged'
       /\ \A o, p \in DOMAIN id_ : o # p /\ id_'[o] = id_'[p] => id_'[o] = 0
  BY <1>8, <1>9 DEF GlInv
<1>. QED  BY <1>8, <1>9, <1>10, <1>11, <1>12, BetweenBuilds

\* A build that returns leaves its program to an owner.
LEMMA BuildReturnsStep ==
  ASSUME GlInv, NEW o \in ProgramOwners, BuildReturns(o)
  PROVE  GlInv'
<1>. DEFINE n == building[3]
            ns == SubSeq(building, 1, 2)
            places == DOMAIN id_ \cup {o}
<1>1. /\ Len(building) = 3 /\ o \notin DOMAIN id_ /\ building' = <<>>
      /\ id_' = [p \in places |-> IF p = o THEN n ELSE id_[p]]
  BY DEF BuildReturns
<1>2. /\ DOMAIN building = 1..3 /\ building \in Seq(objects)
      /\ \A k \in 1..3 : /\ building[k] # 0 /\ building[k] # inUse
                         /\ building[k] \notin Ids /\ building[k] \in objects
      /\ \A j, k \in 1..3 : j # k => building[j] # building[k]
      /\ flagged \subseteq {inUse} /\ 0 \notin flagged /\ objects \subseteq Names
      /\ inUse \in Names \cup {0}
  BY <1>1, BuildFacts
<1>3. Len(ns) = 2 /\ ns[1] = building[1] /\ ns[2] = building[2]
  BY <1>1, <1>2
<1>4. GlBecomes(DeleteAll(Swept([Gl EXCEPT !.attached = {a \in @ : a[1] # n}]), ns))
  BY DEF BuildReturns
<1>5. {a \in attached : a[1] # n} = {}
  BY <1>1 DEF GlInv
<1>6. BuildNames = {building[1], building[2], n}
  <2>1. BuildNames = {building[k] : k \in 1..3}
    BY <1>2 DEF BuildNames
  <2>. QED  BY <2>1
<1>. HIDE DEF ns, n
<1>7. [Gl EXCEPT !.attached = {a \in @ : a[1] # n}] = GlRecord(objects, flagged, {}, inUse)
  <2>1. [Gl EXCEPT !.attached = {a \in @ : a[1] # n}]
          = [Gl EXCEPT !.attached = {}]
    <3>1. {a \in Gl.attached : a[1] # n} = {}
      BY <1>5 DEF Gl
    <3>. QED  BY <3>1
  <2>2. [Gl EXCEPT !.attached = {}] = GlRecord(objects, flagged, {}, inUse)
    BY DEF Gl, GlRecord
  <2>. QED  BY <2>1, <2>2
<1>8. Swept(GlRecord(objects, flagged, {}, inUse)) = GlRecord(objects, flagged, {}, inUse)
  <2>1. objects \ (flagged \ {inUse}) = objects /\ flagged \cap {inUse} = flagged
    BY <1>2
  <2>2. Swept(GlRecord(objects, flagged, {}, inUse))
          = GlRecord(objects \ (flagged \ {inUse}), flagged \cap {inUse}, {}, inUse)
    BY SweptUnattached
  <2>. QED  BY <2>1, <2>2
<1>9. DeleteAll(GlRecord(objects, flagged, {}, inUse), ns)
        = GlRecord(objects \ {building[1], building[2]}, flagged, {}, inUse)
  <2>1. Len(ns) \in 0..2 /\ (\A k \in 1..Len(ns) : ns[k] # 0 /\ ns[k] # inUse)
    BY <1>2, <1>3
  <2>2. {ns[k] : k \in 1..Len(ns)} = {building[1], building[2]}
    BY <1>3
  <2>3. DeleteAll(GlRecord(objects, flagged, {}, inUse), ns)
          = GlRecord(objects \ {ns[k] : k \in 1..Len(ns)}, flagged, {}, inUse)
    BY <1>2, <2>1, DeleteTwo
  <2>. QED  BY <2>2, <2>3
<1>10. GlBecomes(GlRecord(objects \ {building[1], building[2]}, flagged, {}, inUse))
  BY <1>4, <1>7, <1>8, <1>9
<1>11. /\ objects' = objects \ {building[1], building[2]}
       /\ flagged' = flagged /\ attached' = {} /\ inUse' = inUse
  BY <1>10, GlBecomesIs
<1>12. GlTypeOK /\ \A p \in DOMAIN id_ : id_[p] \in Names \cup {0}
  BY IdTypes DEF GlInv
<1>13. n \in Names /\ n # 0 /\ n # inUse /\ n \notin Ids /\ n # building[1] /\ n # building[2]
  BY <1>2 DEF n
<1>14. /\ places \in SUBSET GlOwners /\ id_' \in [places -> Names \cup {0}] /\ DOMAIN id_' = places
  BY <1>1, <1>12, <1>13, IdTypes DEF GlOwners
<1>15. \A p \in places : id_'[p] = IF p = o THEN n ELSE id_[p]
  BY <1>1
<1>16. \A p, q \in places : p # q /\ id_'[p] = id_'[q] => id_'[p] = 0
  BY <1>1, <1>13, <1>15 DEF GlInv, Ids
<1>17. Ids' = Ids \cup {n}
  <2>1. Ids' = {id_'[p] : p \in places}
    BY <1>14 DEF Ids
  <2>2. \A p \in DOMAIN id_ : p \in places /\ id_'[p] = id_[p]
    BY <1>1, <1>15
  <2>3. o \in places /\ id_'[o] = n
    BY <1>15
  <2>4. \A p \in places : p = o \/ p \in DOMAIN id_
    OBVIOUS
  <2>. HIDE DEF places
  <2>. QED  BY <2>1, <2>2, <2>3, <2>4 DEF Ids
<1>. HIDE DEF places
<1>18. objects' = (Ids' \cup {inUse'}) \ {0}
  <2>1. objects = (Ids \cup {inUse} \cup BuildNames) \ {0}
    BY DEF GlInv
  <2>2. building[1] \notin Ids \cup {inUse, n} /\ building[2] \notin Ids \cup {inUse, n}
    BY <1>2, <1>13
  <2>. QED  BY <1>6, <1>11, <1>17, <2>1, <2>2
<1>19. /\ flagged' \subseteq {inUse'} /\ 0 \notin flagged' /\ inUse' \in Names \cup {0}
       /\ Ids' \cap flagged' = {}
       /\ inUse' # 0 => inUse' \in Ids' \cup flagged'
  BY <1>2, <1>11, <1>13, <1>17 DEF GlInv
<1>. QED  BY <1>1, <1>11, <1>14, <1>16, <1>18, <1>19, BetweenBuilds

LEMMA GlStutters ==
  ASSUME GlInv, UNCHANGED glVars
  PROVE  GlInv'
<1>1. UNCHANGED <<id_, objects, flagged, attached, inUse, building>>
  BY DEF glVars
<1>2. Ids' = Ids /\ BuildNames' = BuildNames
  BY <1>1 DEF Ids, BuildNames
<1>3. GlTypeOK'
  BY <1>1 DEF GlInv, GlTypeOK
<1>. QED  BY <1>1, <1>2, <1>3 DEF GlInv

LEMMA GlNextPreserves == GlInv /\ [GlNext]_glVars => GlInv'
<1>. SUFFICES ASSUME GlInv, [GlNext]_glVars PROVE GlInv'
  OBVIOUS
<1>1. ASSUME building = <<>>, OwnerStep PROVE GlInv'
  <2>1. ASSUME NEW o \in GlOwners, NEW n \in Names, CreateObject(o, n) PROVE GlInv'
    BY <1>1, <2>1, CreateStep
  <2>2. ASSUME NEW o \in GlOwners, DestroyOwner(o) PROVE GlInv'
    BY <1>1, <2>2, DestroyOwnerStep
  <2>3. ASSUME NEW o \in GlOwners, Use(o) PROVE GlInv'
    BY <1>1, <2>3, UseStep
  <2>4. ASSUME NEW o \in GlOwners, NEW p \in GlOwners, MoveConstructOwner(o, p) PROVE GlInv'
    BY <1>1, <2>4, MoveConstructOwnerStep
  <2>5. ASSUME NEW o \in GlOwners, NEW p \in GlOwners, MoveAssignOwner(o, p) PROVE GlInv'
    BY <1>1, <2>5, MoveAssignOwnerStep
  <2>. QED  BY <1>1, <2>1, <2>2, <2>3, <2>4, <2>5 DEF OwnerStep
<1>2. ASSUME NEW n \in Names, CompileNext(n) \/ LinkBegins(n) PROVE GlInv'
  BY <1>2, BuildGoesOn
<1>3. CASE BuildFails
  BY <1>3, BuildFailsStep
<1>4. ASSUME NEW o \in ProgramOwners, BuildReturns(o) PROVE GlInv'
  BY <1>4, BuildReturnsStep
<1>5. CASE UNCHANGED glVars
  BY <1>5, GlStutters
<1>. QED  BY <1>1, <1>2, <1>3, <1>4, <1>5 DEF GlNext, BuildStep

\* What gl_resource.h owns, in every reachable state: the invariant above.
THEOREM GlInvariant == GlSpec => []GlInv
<1>. QED  BY GlInitEstablishes, GlNextPreserves, PTL DEF GlSpec

\* "RAII cleans up intermediate shaders" (gl_resource.h), for any number of
\* owners and names: between builds, however a build ended, the only objects
\* are those that an owner has and the program in use; no two owners have one.
THEOREM GlOwnsObjects == GlSpec => []ObjectsOwnedOnce
<1>1. GlInv => ObjectsOwnedOnce
  <2>. SUFFICES ASSUME GlInv PROVE ObjectsOwnedOnce
    OBVIOUS
  <2>1. building = <<>> => objects = (Ids \cup {inUse}) \ {0} /\ attached = {}
    BY IdleFacts
  <2>2. \A o \in DOMAIN id_ : id_[o] \notin flagged
    BY DEF GlInv, Ids
  <2>. QED  BY <2>1, <2>2 DEF GlInv, ObjectsOwnedOnce, Ids
<1>. QED  BY <1>1, GlInvariant, PTL

-----------------------------------------------------------------------------
(* Render passes. *)

Settings == {"fbo", "viewport", "program", "test", "func", "mask", "blend",
             "factors", "cull", "face", "polygon"}

\* The view in which the k-th of the open passes has begun.
Below(k) == IF k = 1 THEN base ELSE passes[k - 1].own

(* What a pass will put back is what the scope around it has asked for, unless
   that framebuffer has been deleted. *)
PassInv ==
  /\ PassTypeOK /\ DOMAIN ctx = Settings
  /\ PassesExact
  /\ \A k \in 1..Len(passes) :
       /\ passes[k].prev.viewport = Below(k).viewport
       /\ Below(k).fbo \in fbos \cup {0} => passes[k].prev.fbo = Below(k).fbo

LEMMA PassInitEstablishes == PassInit => PassInv
<1>. SUFFICES ASSUME PassInit PROVE PassInv
  OBVIOUS
<1>1. /\ base \in View /\ base.fbo = 0 /\ passes = <<>> /\ drawn = <<>>
      /\ ctx.fbo = 0 /\ ctx.viewport = base.viewport /\ base.viewport \in Viewports
      /\ DOMAIN ctx = Settings
  BY DEF PassInit, View, Target, Settings
<1>2. PassTypeOK
  <2>1. passes \in Seq([own : View, prev : View]) /\ ctx.fbo \in Target
    BY <1>1 DEF Target
  <2>. QED  BY <1>1, <2>1 DEF PassTypeOK, PassInit
<1>3. PassesExact
  BY <1>1 DEF PassesExact, TargetIsOfScope, DrawsAsDescribed, Scope
<1>. QED  BY <1>1, <1>2, <1>3 DEF PassInv

Viewed(c, n, w) == [BindFramebuffer(c, n) EXCEPT !.viewport = w]

\* Bound and viewed: the other settings are as they were.
LEMMA SetViewOf ==
  ASSUME NEW c, DOMAIN c = Settings, NEW n, NEW w
  PROVE  /\ DOMAIN Viewed(c, n, w) = Settings /\ Viewed(c, n, w).viewport = w
         /\ Viewed(c, n, w).fbo = IF n \in fbos \cup {0} THEN n ELSE c.fbo
         /\ Effect(Viewed(c, n, w)) = Effect(c)
<1>. DEFINE d == Viewed(c, n, w)
<1>1. /\ DOMAIN d = Settings /\ d.viewport = w
      /\ d.fbo = IF n \in fbos \cup {0} THEN n ELSE c.fbo
      /\ d.program = c.program /\ d.test = c.test /\ d.func = c.func /\ d.mask = c.mask
      /\ d.blend = c.blend /\ d.factors = c.factors /\ d.cull = c.cull /\ d.face = c.face
      /\ d.polygon = c.polygon
  <2>1. CASE n \in fbos \cup {0}
    BY <2>1 DEF BindFramebuffer, Settings, Viewed
  <2>2. CASE n \notin fbos \cup {0}
    BY <2>2 DEF BindFramebuffer, Settings, Viewed
  <2>. QED  BY <2>1, <2>2
<1>. HIDE DEF d
<1>2. Effect(d) = Effect(c)
  BY <1>1 DEF Effect
<1>. QED  BY <1>1, <1>2 DEF d

\* A pipeline is in effect as a whole once it is bound.
LEMMA BindIsDescribed ==
  ASSUME NEW c, DOMAIN c = Settings, NEW p
  PROVE  /\ DOMAIN Bind(c, p) = Settings
         /\ Bind(c, p).fbo = c.fbo /\ Bind(c, p).viewport = c.viewport
         /\ p.program \in progs => Effect(Bind(c, p)) = Described(p)
<1>. DEFINE d == UseProgram(c, p.program)
            e == ApplyDepth(d, p)
            f == ApplyBlend(e, p)
            g == Bind(c, p)
<1>1. /\ DOMAIN d = Settings /\ d.fbo = c.fbo /\ d.viewport = c.viewport
      /\ p.program \in progs => d.program = p.program
  BY DEF UseProgram, Settings
<1>. HIDE DEF d
<1>2. /\ DOMAIN e = Settings /\ e.fbo = d.fbo /\ e.viewport = d.viewport
      /\ e.program = d.program /\ e.test = p.test /\ e.mask = p.write
      /\ p.test => e.func = p.func
  BY <1>1 DEF ApplyDepth, Settings
<1>. HIDE DEF e
<1>3. /\ DOMAIN f = Settings /\ f.fbo = e.fbo /\ f.viewport = e.viewport
      /\ f.program = e.program /\ f.test = e.test /\ f.mask = e.mask /\ f.func = e.func
      /\ f.blend = p.blend /\ (p.blend => f.factors = p.factors)
  BY <1>2 DEF ApplyBlend, Settings
<1>4. g = [f EXCEPT !.cull = p.cull, !.face = IF p.cull THEN p.face ELSE @,
                    !.polygon = p.polygon]
  BY DEF Bind, f, e, d
<1>. HIDE DEF f, g
<1>5. /\ DOMAIN g = Settings /\ g.fbo = f.fbo /\ g.viewport = f.viewport
      /\ g.program = f.program /\ g.test = f.test /\ g.mask = f.mask /\ g.func = f.func
      /\ g.blend = f.blend /\ g.factors = f.factors
      /\ g.cull = p.cull /\ (p.cull => g.face = p.face) /\ g.polygon = p.polygon
  BY <1>3, <1>4 DEF Settings
<1>6. p.program \in progs => Effect(g) = Described(p)
  BY <1>1, <1>2, <1>3, <1>5 DEF Effect, Described
<1>. QED  BY <1>1, <1>2, <1>3, <1>5, <1>6 DEF g

LEMMA OpenPasses ==
  ASSUME PassInv
  PROVE  /\ PassTypeOK /\ DOMAIN ctx = Settings /\ PassesExact
         /\ ctx.fbo \in Target /\ ctx.viewport \in Viewports /\ base \in View
         /\ passes \in Seq([own : View, prev : View]) /\ Len(passes) \in Nat
         /\ \A k \in 1..Len(passes) : passes[k].own \in View /\ passes[k].prev \in View
         /\ Scope = Below(Len(passes) + 1)
         /\ (Scope.fbo \in fbos \cup {0} => ctx.fbo = Scope.fbo)
         /\ ctx.viewport = Scope.viewport
<1>1. /\ PassTypeOK /\ ctx.fbo \in Target /\ ctx.viewport \in Viewports /\ base \in View
      /\ passes \in Seq([own : View, prev : View])
  BY DEF PassInv, PassTypeOK
<1>2. Len(passes) \in Nat /\ \A k \in 1..Len(passes) : passes[k] \in [own : View, prev : View]
  <2>. DEFINE S == [own : View, prev : View]
  <2>. HIDE DEF S
  <2>1. passes \in Seq(S)
    BY <1>1 DEF S
  <2>2. Len(passes) \in Nat /\ \A k \in 1..Len(passes) : passes[k] \in S
    BY <2>1
  <2>. QED  BY <2>2 DEF S
<1>3. \A k \in 1..Len(passes) : passes[k].own \in View /\ passes[k].prev \in View
  BY <1>2
<1>4. Scope = Below(Len(passes) + 1)
  <2>1. CASE passes = <<>>
    BY <2>1 DEF Scope, Below
  <2>2. CASE passes # <<>>
    <3>1. Len(passes) # 0
      BY <1>1, <2>2
    <3>. QED  BY <1>2, <2>2, <3>1 DEF Scope, Below, Last
  <2>. QED  BY <2>1, <2>2
<1>. QED  BY <1>1, <1>2, <1>3, <1>4 DEF PassInv, PassesExact, TargetIsOfScope

LEMMA DeleteFramebufferStep ==
  ASSUME PassInv, NEW n \in Framebuffers, DeleteFramebuffer(n)
  PROVE  PassInv'
<1>1. /\ fbos' = fbos \ {n} /\ n # 0
      /\ ctx' = IF ctx.fbo = n THEN [ctx EXCEPT !.fbo = 0] ELSE ctx
      /\ UNCHANGED <<progs, passes, base, drawn>>
  BY PassAssumption DEF DeleteFramebuffer
<1>2. /\ DOMAIN ctx' = Settings /\ ctx'.viewport = ctx.viewport
      /\ ctx'.fbo = (IF ctx.fbo = n THEN 0 ELSE ctx.fbo) /\ Effect(ctx') = Effect(ctx)
  <2>1. CASE ctx.fbo = n
    BY <1>1, <2>1, OpenPasses DEF Settings, Effect
  <2>2. CASE ctx.fbo # n
    BY <1>1, <2>2, OpenPasses
  <2>. QED  BY <2>1, <2>2
<1>3. PassTypeOK'
  BY <1>1, <1>2, OpenPasses DEF PassTypeOK, Target
<1>4. Scope' = Scope /\ \A k : Below(k)' = Below(k)
  BY <1>1 DEF Scope, Below
<1>5. TargetIsOfScope'
  BY <1>1, <1>2, <1>4, OpenPasses DEF TargetIsOfScope
<1>6. DrawsAsDescribed'
  BY <1>1, <1>2, OpenPasses DEF DrawsAsDescribed, PassesExact
<1>7. ASSUME NEW k \in 1..Len(passes)
      PROVE  /\ passes[k].prev.viewport = Below(k)'.viewport
             /\ Below(k)'.fbo \in fbos' \cup {0} => passes[k].prev.fbo = Below(k)'.fbo
  BY <1>1, <1>4 DEF PassInv
<1>8. passes' = passes
  BY <1>1
<1>. QED  BY <1>2, <1>3, <1>5, <1>6, <1>7, <1>8 DEF PassInv, PassesExact

LEMMA SetViewStep ==
  ASSUME PassInv, NEW v \in View, SetView(v)
  PROVE  PassInv'
<1>1. /\ passes = <<>> /\ v.fbo \in fbos \cup {0} /\ base' = v
      /\ ctx' = Viewed(ctx, v.fbo, v.viewport)
      /\ UNCHANGED <<fbos, progs, passes, drawn>>
  BY DEF SetView, Viewed
<1>2. DOMAIN ctx = Settings
  BY OpenPasses
<1>3. /\ DOMAIN ctx' = Settings /\ ctx'.viewport = v.viewport /\ ctx'.fbo = v.fbo
      /\ Effect(ctx') = Effect(ctx)
  BY <1>1, <1>2, SetViewOf
<1>4. v.fbo \in Target /\ v.viewport \in Viewports
  BY DEF View
<1>5. PassTypeOK'
  BY <1>1, <1>3, <1>4, OpenPasses DEF PassTypeOK
<1>6. TargetIsOfScope'
  BY <1>1, <1>3 DEF TargetIsOfScope, Scope
<1>7. DrawsAsDescribed'
  BY <1>1, <1>3, OpenPasses DEF DrawsAsDescribed, PassesExact
<1>8. passes' = <<>> /\ Len(passes') = 0
  BY <1>1
<1>. QED  BY <1>3, <1>5, <1>6, <1>7, <1>8 DEF PassInv, PassesExact

LEMMA BeginPassStep ==
  ASSUME PassInv, NEW v \in View, BeginPass(v)
  PROVE  PassInv'
<1>. DEFINE L == Len(passes)
            pass == [own |-> v, prev |-> [fbo |-> ctx.fbo, viewport |-> ctx.viewport]]
<1>1. /\ v.fbo \in fbos \cup {0} /\ passes' = Append(passes, pass)
      /\ ctx' = Viewed(ctx, v.fbo, v.viewport)
      /\ UNCHANGED <<fbos, progs, base, drawn>>
  BY DEF BeginPass, Viewed
<1>2. DOMAIN ctx = Settings
  BY OpenPasses
<1>3. /\ DOMAIN ctx' = Settings /\ ctx'.viewport = v.viewport /\ ctx'.fbo = v.fbo
      /\ Effect(ctx') = Effect(ctx)
  BY <1>1, <1>2, SetViewOf
<1>4. v.fbo \in Target /\ v.viewport \in Viewports
  BY DEF View
<1>5. /\ pass \in [own : View, prev : View] /\ pass.own = v
      /\ pass.prev.fbo = ctx.fbo /\ pass.prev.viewport = ctx.viewport
  BY OpenPasses DEF View
<1>. HIDE DEF pass
<1>6. /\ passes \in Seq([own : View, prev : View]) /\ L \in Nat
      /\ passes' \in Seq([own : View, prev : View]) /\ Len(passes') = L + 1
      /\ passes'[L + 1] = pass /\ \A k \in 1..L : passes'[k] = passes[k]
  BY <1>1, <1>5, OpenPasses
<1>7. PassTypeOK'
  BY <1>1, <1>3, <1>4, <1>6, OpenPasses DEF PassTypeOK
<1>8. Scope' = v
  <2>1. passes' # <<>> /\ Last(passes') = pass
    BY <1>6 DEF Last
  <2>2. Scope' = Last(passes').own
    BY <2>1 DEF Scope
  <2>. QED  BY <1>5, <2>1, <2>2
<1>9. TargetIsOfScope'
  BY <1>1, <1>3, <1>8 DEF TargetIsOfScope
<1>10. DrawsAsDescribed'
  BY <1>1, <1>3, OpenPasses DEF DrawsAsDescribed, PassesExact
<1>11. \A k \in 1..(L + 1) : Below(k)' = Below(k)
  <2>. SUFFICES ASSUME NEW k \in 1..(L + 1) PROVE Below(k)' = Below(k)
    OBVIOUS
  <2>1. Below(k)' = IF k = 1 THEN base' ELSE passes'[k - 1].own
    BY DEF Below
  <2>2. k # 1 => k - 1 \in 1..L
    BY <1>6
  <2>. QED  BY <1>1, <1>6, <2>1, <2>2 DEF Below
<1>12. ASSUME NEW k \in 1..(L + 1)
       PROVE  /\ passes'[k].prev.viewport = Below(k)'.viewport
              /\ Below(k)'.fbo \in fbos' \cup {0} => passes'[k].prev.fbo = Below(k)'.fbo
  <2>1. CASE k \in 1..L
    BY <1>1, <1>6, <1>11, <2>1 DEF PassInv
  <2>2. CASE k = L + 1
    BY <1>1, <1>5, <1>6, <1>11, <2>2, OpenPasses
  <2>. QED  BY <1>6, <2>1, <2>2
<1>. QED  BY <1>3, <1>6, <1>7, <1>9, <1>10, <1>12 DEF PassInv, PassesExact

LEMMA EndPassStep ==
  ASSUME PassInv, EndPass
  PROVE  PassInv'
<1>. DEFINE L == Len(passes)
            prev == passes[L].prev
<1>1. passes \in Seq([own : View, prev : View]) /\ passes # <<>> /\ L \in Nat \ {0}
  BY OpenPasses DEF EndPass
<1>2. Last(passes) = passes[L] /\ Front(passes) = SubSeq(passes, 1, L - 1)
  BY <1>1 DEF Last, Front
<1>3. /\ ctx' = Viewed(ctx, prev.fbo, prev.viewport)
      /\ passes' = SubSeq(passes, 1, L - 1)
      /\ UNCHANGED <<fbos, progs, base, drawn>>
  BY <1>2 DEF EndPass, Viewed
<1>4. prev \in View /\ prev.fbo \in Target /\ prev.viewport \in Viewports
  BY <1>1, OpenPasses DEF View
<1>. HIDE DEF prev
<1>5. DOMAIN ctx = Settings /\ ctx.fbo \in Target
  BY OpenPasses
<1>6. /\ DOMAIN ctx' = Settings /\ ctx'.viewport = prev.viewport
      /\ ctx'.fbo = (IF prev.fbo \in fbos \cup {0} THEN prev.fbo ELSE ctx.fbo)
      /\ Effect(ctx') = Effect(ctx)
  BY <1>3, <1>5, SetViewOf
<1>7. /\ passes' \in Seq([own : View, prev : View]) /\ Len(passes') = L - 1
      /\ \A k \in 1..(L - 1) : passes'[k] = passes[k]
  <2>. DEFINE S == [own : View, prev : View]
  <2>. HIDE DEF S
  <2>1. passes \in Seq(S)
    BY <1>1 DEF S
  <2>2. passes' \in Seq(S)
    BY <1>1, <1>3, <2>1
  <2>3. Len(passes') = L - 1
    <3>. DEFINE n == L - 1
    <3>1. n \in Nat /\ n <= Len(passes)
      BY <1>1
    <3>2. passes' = SubSeq(passes, 1, n)
      BY <1>3
    <3>. HIDE DEF n
    <3>3. Len(SubSeq(passes, 1, n)) = n
      BY <2>1, <3>1
    <3>. QED  BY <3>2, <3>3 DEF n
  <2>4. \A k \in 1..(L - 1) : passes'[k] = passes[k]
    BY <1>1, <1>3, <2>1
  <2>. QED  BY <2>2, <2>3, <2>4 DEF S
<1>8. PassTypeOK'
  BY <1>3, <1>4, <1>5, <1>6, <1>7, OpenPasses DEF PassTypeOK
<1>9. \A k \in 1..L : Below(k)' = Below(k)
  <2>. SUFFICES ASSUME NEW k \in 1..L PROVE Below(k)' = Below(k)
    OBVIOUS
  <2>1. Below(k)' = IF k = 1 THEN base' ELSE passes'[k - 1].own
    BY DEF Below
  <2>2. k # 1 => k - 1 \in 1..(L - 1)
    BY <1>1
  <2>. QED  BY <1>3, <1>7, <2>1, <2>2 DEF Below
<1>10. Scope' = Below(L)
  <2>1. L = 1 => passes' = <<>>
    BY <1>7
  <2>2. L # 1 => passes' # <<>> /\ Last(passes') = passes[L - 1]
    BY <1>1, <1>7 DEF Last
  <2>3. Scope' = IF passes' = <<>> THEN base' ELSE Last(passes').own
    BY DEF Scope
  <2>. QED  BY <1>3, <2>1, <2>2, <2>3 DEF Below
<1>11. /\ prev.viewport = Below(L).viewport
       /\ Below(L).fbo \in fbos \cup {0} => prev.fbo = Below(L).fbo
  BY <1>1 DEF PassInv, prev
<1>12. TargetIsOfScope'
  BY <1>3, <1>6, <1>10, <1>11 DEF TargetIsOfScope
<1>13. DrawsAsDescribed'
  BY <1>3, <1>6, OpenPasses DEF DrawsAsDescribed, PassesExact
<1>14. ASSUME NEW k \in 1..(L - 1)
       PROVE  /\ passes'[k].prev.viewport = Below(k)'.viewport
              /\ Below(k)'.fbo \in fbos' \cup {0} => passes'[k].prev.fbo = Below(k)'.fbo
  <2>1. k \in 1..L
    BY <1>1
  <2>. QED  BY <1>3, <1>7, <1>9, <2>1 DEF PassInv
<1>. QED  BY <1>6, <1>7, <1>8, <1>12, <1>13, <1>14 DEF PassInv, PassesExact

LEMMA DrawStep ==
  ASSUME PassInv, NEW p \in Pipelines, Draw(p)
  PROVE  PassInv'
<1>1. /\ ctx' = Bind(ctx, p) /\ drawn' = (IF p.program \in progs THEN <<p>> ELSE <<>>)
      /\ UNCHANGED <<fbos, progs, passes, base>>
  BY DEF Draw
<1>2. DOMAIN ctx = Settings
  BY OpenPasses
<1>3. /\ DOMAIN ctx' = Settings /\ ctx'.fbo = ctx.fbo /\ ctx'.viewport = ctx.viewport
      /\ p.program \in progs => Effect(ctx') = Described(p)
  BY <1>1, <1>2, BindIsDescribed
<1>4. PassTypeOK'
  BY <1>1, <1>3, OpenPasses DEF PassTypeOK
<1>5. Scope' = Scope /\ \A k : Below(k)' = Below(k)
  BY <1>1 DEF Scope, Below
<1>6. TargetIsOfScope'
  BY <1>1, <1>3, <1>5, OpenPasses DEF TargetIsOfScope
<1>7. DrawsAsDescribed'
  <2>1. drawn' # <<>> => p.program \in progs /\ drawn'[1] = p
    BY <1>1
  <2>. QED  BY <1>3, <2>1 DEF DrawsAsDescribed
<1>8. ASSUME NEW k \in 1..Len(passes)
      PROVE  /\ passes[k].prev.viewport = Below(k)'.viewport
             /\ Below(k)'.fbo \in fbos \cup {0} => passes[k].prev.fbo = Below(k)'.fbo
  BY <1>5 DEF PassInv
<1>9. passes' = passes /\ fbos' = fbos
  BY <1>1
<1>. QED  BY <1>3, <1>4, <1>6, <1>7, <1>8, <1>9 DEF PassInv, PassesExact

\* Neither a program that is deleted nor a stutter changes what is restored.
LEMMA PassStutters ==
  ASSUME PassInv, UNCHANGED <<ctx, fbos, passes, base, drawn>>, progs' \subseteq progs
  PROVE  PassInv'
<1>1. PassTypeOK'
  BY DEF PassInv, PassTypeOK
<1>2. Scope' = Scope /\ \A k : Below(k)' = Below(k)
  BY DEF Scope, Below
<1>3. PassesExact'
  BY <1>2 DEF PassInv, PassesExact, TargetIsOfScope, DrawsAsDescribed, Effect, Described
<1>. QED  BY <1>1, <1>2, <1>3 DEF PassInv

LEMMA PassNextPreserves == PassInv /\ [PassNext]_passVars => PassInv'
<1>. SUFFICES ASSUME PassInv, [PassNext]_passVars PROVE PassInv'
  OBVIOUS
<1>1. ASSUME NEW n \in Framebuffers, DeleteFramebuffer(n) PROVE PassInv'
  BY <1>1, DeleteFramebufferStep
<1>2. ASSUME NEW p \in Programs, DeleteProgram(p) PROVE PassInv'
  BY <1>2, PassStutters DEF DeleteProgram
<1>3. ASSUME NEW v \in View, SetView(v) PROVE PassInv'
  BY <1>3, SetViewStep
<1>4. ASSUME NEW v \in View, BeginPass(v) PROVE PassInv'
  BY <1>4, BeginPassStep
<1>5. ASSUME NEW p \in Pipelines, Draw(p) PROVE PassInv'
  BY <1>5, DrawStep
<1>6. CASE EndPass
  BY <1>6, EndPassStep
<1>7. CASE UNCHANGED passVars
  BY <1>7, PassStutters DEF passVars
<1>. QED  BY <1>1, <1>2, <1>3, <1>4, <1>5, <1>6, <1>7 DEF PassNext

\* RenderPass and PipelineState, for any nesting of passes and any pipelines:
\* the invariant above.
THEOREM PassInvariant == PassSpec => []PassInv
<1>. QED  BY PassInitEstablishes, PassNextPreserves, PTL DEF PassSpec

\* "Restores on exit" and "applied as a unit": the context is back at what the
\* running scope has bound, and a draw runs under its own pipeline's state.
THEOREM PassesRestore == PassSpec => []PassesExact
<1>1. PassInv => PassesExact
  BY DEF PassInv
<1>. QED  BY <1>1, PassInvariant, PTL

-----------------------------------------------------------------------------
(* SQLite's handles. *)

Prepared == [conn  : Connections \cup {Null},
             state : {"ready", "row", "done", "failed"},
             bound : Values \cup {Null},
             ran   : Values \cup {Null}]

(* Besides what the runs check: a handle that is not finalized has a
   connection, SQLite has bound what the program has given, a Repository call
   has its statement, and no Database has a connection that leaked. *)
SqliteInv ==
  /\ SqliteTypeOK
  /\ StatementsOwnedOnce
  /\ ConnectionsClosed
  /\ ExecutesWhatWasBound
  /\ \A h \in Handles : stmts[h] # Free <=> stmts[h].conn # Null
  /\ \A h \in Handles : given[h] = stmts[h].bound
  /\ call # "none" => stmt_[Local] \in Handles
  /\ \A c \in leaked : \A d \in Databases : db_[d] # c

LEMMA SqliteInitEstablishes == SqliteInit => SqliteInv
<1>. SUFFICES ASSUME SqliteInit PROVE SqliteInv
  OBVIOUS
<1>. USE SqliteAssumption DEF SqliteInit
<1>1. Free.conn = Null /\ Free.state = "ready" /\ Free.bound = Null /\ Free \in Prepared
  BY DEF Free, Prepared
<1>2. /\ stmts \in [Handles -> Prepared] /\ \A h \in Handles : stmts[h] = Free
      /\ \A h \in Handles : given[h] = Null
      /\ \A c \in Connections : conns[c] = "free"
      /\ \A d \in Databases : db_[d] = Absent
      /\ \A s \in Places : stmt_[s] = Absent
  BY <1>1
<1>. HIDE DEF Free
<1>3. SqliteTypeOK
  BY <1>2 DEF SqliteTypeOK, Prepared
<1>4. StatementsOwnedOnce
  BY <1>2 DEF StatementsOwnedOnce, Places
<1>5. ConnectionsClosed
  BY <1>1, <1>2 DEF ConnectionsClosed, HasStatements
<1>6. ExecutesWhatWasBound
  BY <1>1, <1>2 DEF ExecutesWhatWasBound
<1>. QED  BY <1>1, <1>2, <1>3, <1>4, <1>5, <1>6 DEF SqliteInv

LEMMA SqliteFacts ==
  ASSUME SqliteInv
  PROVE  /\ SqliteTypeOK
         /\ Null # Absent /\ Null \notin Connections /\ Absent \notin Connections
         /\ Null \notin Handles /\ Absent \notin Handles /\ Null \notin Values
         /\ Local \in Places /\ Local \notin Statements /\ Statements \subseteq Places
         /\ Free \in Prepared /\ Free.conn = Null /\ Free.state = "ready" /\ Free.bound = Null
         /\ db_ \in [Databases -> Connections \cup {Null, Absent}]
         /\ stmt_ \in [Places -> Handles \cup {Null, Absent}]
         /\ conns \in [Connections -> {"free", "open", "zombie"}]
         /\ stmts \in [Handles -> Prepared]
         /\ given \in [Handles -> Values \cup {Null}]
         /\ leaked \subseteq Connections
<1>1. Free \in Prepared /\ Free.conn = Null /\ Free.state = "ready" /\ Free.bound = Null
  BY DEF Free, Prepared
<1>2. /\ Null # Absent /\ Null \notin Connections /\ Absent \notin Connections
      /\ Null \notin Handles /\ Absent \notin Handles /\ Null \notin Values
  BY SqliteAssumption
<1>3. Local \in Places /\ Local \notin Statements /\ Statements \subseteq Places
  BY SqliteAssumption DEF Places
<1>. QED  BY <1>1, <1>2, <1>3 DEF SqliteInv, SqliteTypeOK, Prepared

\* The places of Databases change, and their connections with them.
LEMMA ConnectionsStep ==
  ASSUME SqliteInv, UNCHANGED <<stmt_, stmts, call, given>>,
         db_' \in [Databases -> Connections \cup {Null, Absent}],
         conns' \in [Connections -> {"free", "open", "zombie"}],
         leaked' \subseteq Connections,
         \A c \in leaked' : \A d \in Databases : db_'[d] # c,
         \A c \in Connections :
           /\ conns'[c] = "open" <=> c \in leaked' \/ \E d \in Databases : db_'[d] = c
           /\ conns'[c] = "zombie" => HasStatements(c, stmts)
           /\ HasStatements(c, stmts) => conns'[c] # "free"
           /\ \A d, e \in Databases : d # e /\ db_'[d] = c => db_'[e] # c
  PROVE  SqliteInv'
<1>1. SqliteTypeOK'
  BY DEF SqliteInv, SqliteTypeOK
<1>2. StatementsOwnedOnce'
  BY DEF SqliteInv, StatementsOwnedOnce
<1>3. ConnectionsClosed'
  BY DEF ConnectionsClosed, HasStatements
<1>4. ExecutesWhatWasBound'
  BY DEF SqliteInv, ExecutesWhatWasBound
<1>. QED  BY <1>1, <1>2, <1>3, <1>4 DEF SqliteInv

LEMMA OpenDatabaseStep ==
  ASSUME SqliteInv, NEW d \in Databases, NEW c \in Connections, OpenDatabase(d, c)
  PROVE  SqliteInv'
<1>1. /\ db_[d] = Absent /\ conns[c] = "free" /\ conns' = [conns EXCEPT ![c] = "open"]
      /\ UNCHANGED <<stmt_, stmts, call, given>>
  BY DEF OpenDatabase
<1>2. \A x \in Connections : conns'[x] = IF x = c THEN "open" ELSE conns[x]
  BY <1>1, SqliteFacts
<1>3. conns' \in [Connections -> {"free", "open", "zombie"}]
  BY <1>1, SqliteFacts
<1>4. c \notin leaked /\ (\A e \in Databases : db_[e] # c) /\ ~HasStatements(c, stmts)
  BY <1>1 DEF SqliteInv, ConnectionsClosed
<1>5. CASE db_' = [db_ EXCEPT ![d] = c] /\ UNCHANGED leaked
  <2>1. \A e \in Databases : db_'[e] = IF e = d THEN c ELSE db_[e]
    BY <1>5, SqliteFacts
  <2>2. db_' \in [Databases -> Connections \cup {Null, Absent}]
    BY <1>5, SqliteFacts
  <2>3. \A x \in leaked' : \A e \in Databases : db_'[e] # x
    BY <1>4, <1>5, <2>1 DEF SqliteInv
  <2>4. ASSUME NEW x \in Connections
        PROVE  /\ conns'[x] = "open" <=> x \in leaked' \/ \E e \in Databases : db_'[e] = x
               /\ conns'[x] = "zombie" => HasStatements(x, stmts)
               /\ HasStatements(x, stmts) => conns'[x] # "free"
               /\ \A e, f \in Databases : e # f /\ db_'[e] = x => db_'[f] # x
    <3>1. CASE x = c
      BY <1>2, <1>4, <2>1, <3>1
    <3>2. CASE x # c
      <4>1. \A e \in Databases : db_'[e] = x <=> db_[e] = x
        BY <1>1, <2>1, <3>2, SqliteFacts
      <4>. QED  BY <1>2, <1>5, <3>2, <4>1 DEF SqliteInv, ConnectionsClosed
    <3>. QED  BY <3>1, <3>2
  <2>. QED  BY <1>1, <1>3, <1>5, <2>2, <2>3, <2>4, ConnectionsStep, SqliteFacts
<1>6. CASE leaked' = {c} /\ leaked = {} /\ UNCHANGED db_
  <2>1. ASSUME NEW x \in Connections
        PROVE  /\ conns'[x] = "open" <=> x \in leaked' \/ \E e \in Databases : db_'[e] = x
               /\ conns'[x] = "zombie" => HasStatements(x, stmts)
               /\ HasStatements(x, stmts) => conns'[x] # "free"
               /\ \A e, f \in Databases : e # f /\ db_'[e] = x => db_'[f] # x
    BY <1>2, <1>4, <1>6 DEF SqliteInv, ConnectionsClosed
  <2>2. \A x \in leaked' : \A e \in Databases : db_'[e] # x
    BY <1>4, <1>6
  <2>. QED  BY <1>1, <1>3, <1>6, <2>1, <2>2, ConnectionsStep, SqliteFacts
<1>. QED  BY <1>5, <1>6 DEF OpenDatabase

\* A Database that has b goes from the places, another may move meanwhile.
LEMMA CloseStep ==
  ASSUME SqliteInv, NEW d \in Databases, conns' = CloseConnection(db_[d]),
         UNCHANGED <<stmt_, stmts, call, leaked, given>>,
         db_' \in [Databases -> Connections \cup {Null, Absent}],
         \A c \in Connections :
           /\ (\E e \in Databases : db_'[e] = c)
                <=> c # db_[d] /\ \E e \in Databases : db_[e] = c
           /\ \A e, f \in Databases : e # f /\ db_'[e] = c => db_'[f] # c
  PROVE  SqliteInv'
<1>1. \A c \in Connections :
        conns'[c] = IF c # db_[d] THEN conns[c]
                    ELSE IF HasStatements(c, stmts) THEN "zombie" ELSE "free"
  BY DEF CloseConnection
<1>2. conns' \in [Connections -> {"free", "open", "zombie"}]
  BY SqliteFacts DEF CloseConnection
<1>3. \A c \in leaked : \A e \in Databases : db_[e] # c
  BY DEF SqliteInv
<1>4. \A c \in leaked' : \A e \in Databases : db_'[e] # c
  BY <1>3, SqliteFacts
<1>5. ASSUME NEW c \in Connections
      PROVE  /\ conns'[c] = "open" <=> c \in leaked' \/ \E e \in Databases : db_'[e] = c
             /\ conns'[c] = "zombie" => HasStatements(c, stmts)
             /\ HasStatements(c, stmts) => conns'[c] # "free"
             /\ \A e, f \in Databases : e # f /\ db_'[e] = c => db_'[f] # c
  <2>1. CASE c = db_[d]
    BY <1>1, <1>3, <2>1
  <2>2. CASE c # db_[d]
    BY <1>1, <2>2 DEF SqliteInv, ConnectionsClosed
  <2>. QED  BY <2>1, <2>2
<1>. QED  BY <1>2, <1>4, <1>5, ConnectionsStep, SqliteFacts

LEMMA DatabaseStepPreserves ==
  ASSUME SqliteInv, DatabaseStep
  PROVE  SqliteInv'
<1>1. ASSUME NEW d \in Databases, DestroyDatabase(d) PROVE SqliteInv'
  <2>1. /\ conns' = CloseConnection(db_[d]) /\ db_' = [db_ EXCEPT ![d] = Absent]
        /\ UNCHANGED <<stmt_, stmts, call, leaked, given>>
    BY <1>1 DEF DestroyDatabase
  <2>2. /\ db_' \in [Databases -> Connections \cup {Null, Absent}]
        /\ \A e \in Databases : db_'[e] = IF e = d THEN Absent ELSE db_[e]
    BY <2>1, SqliteFacts
  <2>3. ASSUME NEW c \in Connections
        PROVE  /\ (\E e \in Databases : db_'[e] = c)
                    <=> c # db_[d] /\ \E e \in Databases : db_[e] = c
               /\ \A e, f \in Databases : e # f /\ db_'[e] = c => db_'[f] # c
    BY <2>2, SqliteFacts DEF SqliteInv, ConnectionsClosed
  <2>. QED  BY <2>1, <2>2, <2>3, CloseStep
<1>2. ASSUME NEW d \in Databases, NEW e \in Databases, MoveConstructDatabase(d, e)
      PROVE  SqliteInv'
  <2>1. /\ d # e /\ db_[d] # Absent /\ db_[e] = Absent
        /\ db_' = [db_ EXCEPT ![e] = db_[d], ![d] = Null]
        /\ UNCHANGED <<stmt_, conns, stmts, call, leaked, given>>
    BY <1>2 DEF MoveConstructDatabase
  <2>2. /\ db_' \in [Databases -> Connections \cup {Null, Absent}]
        /\ \A f \in Databases :
             db_'[f] = IF f = d THEN Null ELSE IF f = e THEN db_[d] ELSE db_[f]
    BY <2>1, SqliteFacts
  <2>3. \A c \in Connections :
          (\E f \in Databases : db_'[f] = c) <=> (\E f \in Databases : db_[f] = c)
    BY <2>1, <2>2, SqliteFacts
  <2>4. \A c \in Connections : \A f, g \in Databases : f # g /\ db_'[f] = c => db_'[g] # c
    BY <2>1, <2>2, SqliteFacts DEF SqliteInv, ConnectionsClosed
  <2>5. \A c \in leaked' : \A f \in Databases : db_'[f] # c
    BY <2>1, <2>3, SqliteFacts DEF SqliteInv
  <2>6. /\ conns' \in [Connections -> {"free", "open", "zombie"}] /\ leaked' \subseteq Connections
        /\ UNCHANGED <<stmt_, stmts, call, given>>
    BY <2>1, SqliteFacts
  <2>7. \A c \in Connections :
          /\ conns'[c] = "open" <=> c \in leaked' \/ \E f \in Databases : db_'[f] = c
          /\ conns'[c] = "zombie" => HasStatements(c, stmts)
          /\ HasStatements(c, stmts) => conns'[c] # "free"
    BY <2>1, <2>3 DEF SqliteInv, ConnectionsClosed
  <2>. QED  BY <2>2, <2>4, <2>5, <2>6, <2>7, ConnectionsStep
<1>3. ASSUME NEW d \in Databases, NEW e \in Databases, MoveAssignDatabase(d, e)
      PROVE  SqliteInv'
  <2>1. /\ d # e /\ conns' = CloseConnection(db_[e])
        /\ db_' = [db_ EXCEPT ![e] = db_[d], ![d] = Null]
        /\ UNCHANGED <<stmt_, stmts, call, leaked, given>>
    BY <1>3 DEF MoveAssignDatabase
  <2>2. /\ db_' \in [Databases -> Connections \cup {Null, Absent}]
        /\ \A f \in Databases :
             db_'[f] = IF f = d THEN Null ELSE IF f = e THEN db_[d] ELSE db_[f]
    BY <2>1, SqliteFacts
  <2>3. ASSUME NEW c \in Connections
        PROVE  /\ (\E f \in Databases : db_'[f] = c)
                    <=> c # db_[e] /\ \E f \in Databases : db_[f] = c
               /\ \A f, g \in Databases : f # g /\ db_'[f] = c => db_'[g] # c
    <3>1. c # Null /\ \A f, g \in Databases : f # g /\ db_[f] = c => db_[g] # c
      BY SqliteFacts DEF SqliteInv, ConnectionsClosed
    <3>. QED  BY <2>1, <2>2, <3>1
  <2>. QED  BY <2>1, <2>2, <2>3, CloseStep
<1>. QED  BY <1>1, <1>2, <1>3, OpenDatabaseStep DEF DatabaseStep

\* A Statement gets a handle of its own.
LEMMA PrepareStep ==
  ASSUME SqliteInv, NEW s \in Places, NEW d \in Databases, NEW h \in Handles,
         PrepareInto(s, d, h), call = "none",
         \/ s \in Statements /\ call' = "none"
         \/ s = Local /\ call' \in {"insert", "find_all", "find_by_id", "remove"}
  PROVE  SqliteInv'
<1>. DEFINE r == [stmts[h] EXCEPT !.conn = db_[d]]
<1>1. /\ stmt_[s] = Absent /\ db_[d] \in Connections /\ stmts[h] = Free
      /\ stmt_' = [stmt_ EXCEPT ![s] = h]
      /\ stmts' = [stmts EXCEPT ![h] = r]
      /\ UNCHANGED <<db_, conns, leaked, given>>
  BY DEF PrepareInto
<1>2. /\ r \in Prepared /\ r.conn = db_[d] /\ r.state = "ready" /\ r.bound = Null
      /\ r # Free
  BY <1>1, SqliteFacts DEF Prepared
<1>. HIDE DEF r
<1>3. /\ stmts' \in [Handles -> Prepared]
      /\ \A x \in Handles : stmts'[x] = IF x = h THEN r ELSE stmts[x]
  BY <1>1, <1>2, SqliteFacts
<1>4. /\ stmt_' \in [Places -> Handles \cup {Null, Absent}]
      /\ \A t \in Places : stmt_'[t] = IF t = s THEN h ELSE stmt_[t]
  BY <1>1, SqliteFacts
<1>5. SqliteTypeOK'
  BY <1>1, <1>3, <1>4, SqliteFacts DEF SqliteTypeOK, Prepared
<1>6. \A t \in Places : stmt_[t] # h
  BY <1>1 DEF SqliteInv, StatementsOwnedOnce
<1>7. StatementsOwnedOnce'
  <2>1. ASSUME NEW x \in Handles
        PROVE  stmts'[x] # Free <=> \E t \in Places : stmt_'[t] = x
    <3>1. CASE x = h
      BY <1>2, <1>3, <1>4, <3>1
    <3>2. CASE x # h
      <4>1. \A t \in Places : stmt_'[t] = x <=> stmt_[t] = x
        BY <1>1, <1>4, <3>2, SqliteFacts
      <4>2. stmts[x] # Free <=> \E t \in Places : stmt_[t] = x
        BY DEF SqliteInv, StatementsOwnedOnce
      <4>. QED  BY <1>3, <3>2, <4>1, <4>2
    <3>. QED  BY <3>1, <3>2
  <2>2. \A t, u \in Places : stmt_'[t] = stmt_'[u] /\ t # u => stmt_'[t] \in {Null, Absent}
    BY <1>4, <1>6 DEF SqliteInv, StatementsOwnedOnce
  <2>3. call' = "none" => stmt_'[Local] = Absent
    <3>1. stmt_[Local] = Absent
      BY DEF SqliteInv, StatementsOwnedOnce
    <3>. QED  BY <1>4, <3>1, SqliteFacts
  <2>. QED  BY <2>1, <2>2, <2>3 DEF StatementsOwnedOnce
<1>8. ConnectionsClosed'
  <2>. SUFFICES ASSUME NEW c \in Connections
                PROVE  /\ conns[c] = "open" <=> c \in leaked \/ \E e \in Databases : db_[e] = c
                       /\ conns[c] = "zombie" => HasStatements(c, stmts')
                       /\ HasStatements(c, stmts') => conns[c] # "free"
                       /\ \A e, f \in Databases : e # f /\ db_[e] = c => db_[f] # c
    BY <1>1 DEF ConnectionsClosed, HasStatements
  <2>1. /\ conns[c] = "open" <=> c \in leaked \/ \E e \in Databases : db_[e] = c
        /\ conns[c] = "zombie" => HasStatements(c, stmts)
        /\ HasStatements(c, stmts) => conns[c] # "free"
        /\ \A e, f \in Databases : e # f /\ db_[e] = c => db_[f] # c
    BY DEF SqliteInv, ConnectionsClosed
  <2>2. \A x \in Handles : stmts[x].conn = c => x # h
    BY <1>1, SqliteFacts
  <2>3. HasStatements(c, stmts) => HasStatements(c, stmts')
    BY <1>3, <2>2 DEF HasStatements
  <2>4. HasStatements(c, stmts') => c = db_[d] \/ HasStatements(c, stmts)
    BY <1>2, <1>3 DEF HasStatements
  <2>. QED  BY <2>1, <2>3, <2>4
<1>9. \A x \in Handles : stmts'[x] # Free <=> stmts'[x].conn # Null
  BY <1>1, <1>2, <1>3, SqliteFacts DEF SqliteInv
<1>10. \A x \in Handles : given'[x] = stmts'[x].bound
  BY <1>1, <1>2, <1>3, SqliteFacts DEF SqliteInv
<1>11. ExecutesWhatWasBound'
  BY <1>1, <1>2, <1>3 DEF SqliteInv, ExecutesWhatWasBound
<1>12. call' # "none" => stmt_'[Local] \in Handles
  BY <1>4, SqliteFacts
<1>13. \A c \in leaked' : \A e \in Databases : db_'[e] # c
  BY <1>1 DEF SqliteInv
<1>. QED  BY <1>5, <1>7, <1>8, <1>9, <1>10, <1>11, <1>12, <1>13 DEF SqliteInv

\* The handles move between places.
LEMMA MoveConstructStatementStep ==
  ASSUME SqliteInv, NEW s \in Statements, NEW t \in Statements, call = "none",
         MoveConstructStatement(s, t)
  PROVE  SqliteInv'
<1>1. /\ stmt_[s] # Absent /\ stmt_[t] = Absent /\ s # t
      /\ stmt_' = [stmt_ EXCEPT ![t] = stmt_[s], ![s] = Null]
      /\ UNCHANGED <<db_, conns, stmts, call, leaked, given>>
  BY DEF MoveConstructStatement
<1>2. s \in Places /\ t \in Places /\ s # Local /\ t # Local
  BY SqliteFacts
<1>3. /\ stmt_' \in [Places -> Handles \cup {Null, Absent}]
      /\ \A p \in Places :
           stmt_'[p] = IF p = s THEN Null ELSE IF p = t THEN stmt_[s] ELSE stmt_[p]
  BY <1>1, <1>2, SqliteFacts
<1>4. SqliteTypeOK'
  BY <1>1, <1>3, SqliteFacts DEF SqliteTypeOK
<1>5. StatementsOwnedOnce'
  <2>1. ASSUME NEW x \in Handles
        PROVE  stmts'[x] # Free <=> \E p \in Places : stmt_'[p] = x
    <3>1. (\E p \in Places : stmt_'[p] = x) <=> (\E p \in Places : stmt_[p] = x)
      BY <1>1, <1>2, <1>3, SqliteFacts
    <3>. QED  BY <1>1, <3>1 DEF SqliteInv, StatementsOwnedOnce
  <2>2. \A p, q \in Places : stmt_'[p] = stmt_'[q] /\ p # q => stmt_'[p] \in {Null, Absent}
    <3>1. \A p, q \in Places : stmt_[p] = stmt_[q] /\ p # q => stmt_[p] \in {Null, Absent}
      BY DEF SqliteInv, StatementsOwnedOnce
    <3>. QED  BY <1>2, <1>3, <3>1
  <2>3. call' = "none" => stmt_'[Local] = Absent
    BY <1>1, <1>2, <1>3, SqliteFacts DEF SqliteInv, StatementsOwnedOnce
  <2>. QED  BY <2>1, <2>2, <2>3 DEF StatementsOwnedOnce
<1>6. ConnectionsClosed' /\ ExecutesWhatWasBound'
  BY <1>1 DEF SqliteInv, ConnectionsClosed, HasStatements, ExecutesWhatWasBound
<1>. QED  BY <1>1, <1>4, <1>5, <1>6 DEF SqliteInv

\* A handle is finalized and is in no place any more.
LEMMA FinalizeStep ==
  ASSUME SqliteInv, NEW h \in Handles \cup {Null, Absent}, NEW place, Finalized(h, place),
         call' = "none", place \in [Places -> Handles \cup {Null, Absent}],
         place[Local] = Absent,
         \A x \in Handles : (\E p \in Places : place[p] = x)
                              <=> x # h /\ \E p \in Places : stmt_[p] = x,
         \A p, q \in Places : place[p] = place[q] /\ p # q => place[p] \in {Null, Absent}
  PROVE  SqliteInv'
<1>1. /\ stmts' = [x \in Handles |-> IF x = h THEN Free ELSE stmts[x]]
      /\ conns' = [c \in Connections |->
                     IF conns[c] = "zombie" /\ ~HasStatements(c, stmts')
                     THEN "free" ELSE conns[c]]
      /\ stmt_' = place
      /\ given' = [x \in Handles |-> IF x = h THEN Null ELSE given[x]]
      /\ UNCHANGED <<db_, leaked>>
  BY DEF Finalized
<1>2. /\ stmts' \in [Handles -> Prepared]
      /\ \A x \in Handles : stmts'[x] = IF x = h THEN Free ELSE stmts[x]
  BY <1>1, SqliteFacts
<1>3. /\ given' \in [Handles -> Values \cup {Null}]
      /\ \A x \in Handles : given'[x] = IF x = h THEN Null ELSE given[x]
  BY <1>1, SqliteFacts
<1>4. /\ conns' \in [Connections -> {"free", "open", "zombie"}]
      /\ \A c \in Connections :
           conns'[c] = IF conns[c] = "zombie" /\ ~HasStatements(c, stmts')
                       THEN "free" ELSE conns[c]
  <2>. DEFINE has(c) == HasStatements(c, stmts')
  <2>1. conns' = [c \in Connections |-> IF conns[c] = "zombie" /\ ~has(c)
                                         THEN "free" ELSE conns[c]]
    BY <1>1
  <2>. HIDE DEF has
  <2>2. /\ conns' \in [Connections -> {"free", "open", "zombie"}]
        /\ \A c \in Connections :
             conns'[c] = IF conns[c] = "zombie" /\ ~has(c) THEN "free" ELSE conns[c]
    BY <2>1, SqliteFacts
  <2>. QED  BY <2>2 DEF has
<1>5. SqliteTypeOK'
  BY <1>1, <1>2, <1>3, <1>4, SqliteFacts DEF SqliteTypeOK, Prepared
<1>6. StatementsOwnedOnce'
  BY <1>1, <1>2, SqliteFacts DEF SqliteInv, StatementsOwnedOnce
<1>7. ConnectionsClosed'
  <2>0. db_' = db_ /\ leaked' = leaked
    BY <1>1
  <2>. SUFFICES ASSUME NEW c \in Connections
                PROVE  /\ conns'[c] = "open" <=> c \in leaked \/ \E e \in Databases : db_[e] = c
                       /\ conns'[c] = "zombie" => HasStatements(c, stmts')
                       /\ HasStatements(c, stmts') => conns'[c] # "free"
                       /\ \A e, f \in Databases : e # f /\ db_[e] = c => db_[f] # c
    BY <2>0, SMT DEF ConnectionsClosed
  <2>1. /\ conns[c] = "open" <=> c \in leaked \/ \E e \in Databases : db_[e] = c
        /\ HasStatements(c, stmts) => conns[c] # "free"
        /\ \A e, f \in Databases : e # f /\ db_[e] = c => db_[f] # c
    BY DEF SqliteInv, ConnectionsClosed
  <2>2. HasStatements(c, stmts') => HasStatements(c, stmts)
    BY <1>2, SqliteFacts DEF HasStatements
  <2>3. conns'[c] = IF conns[c] = "zombie" /\ ~HasStatements(c, stmts')
                    THEN "free" ELSE conns[c]
    BY <1>4
  <2>. QED  BY <2>1, <2>2, <2>3
<1>8. \A x \in Handles : stmts'[x] # Free <=> stmts'[x].conn # Null
  BY <1>2, SqliteFacts DEF SqliteInv
<1>9. \A x \in Handles : given'[x] = stmts'[x].bound
  BY <1>2, <1>3, SqliteFacts DEF SqliteInv
<1>10. ExecutesWhatWasBound'
  BY <1>2, <1>3, SqliteFacts DEF SqliteInv, ExecutesWhatWasBound
<1>11. \A c \in leaked' : \A e \in Databases : db_'[e] # c
  BY <1>1 DEF SqliteInv
<1>. QED  BY <1>5, <1>6, <1>7, <1>8, <1>9, <1>10, <1>11 DEF SqliteInv

LEMMA DestroyStatementStep ==
  ASSUME SqliteInv, NEW s \in Places, DestroyAt(s), call' = "none",
         s # Local => call = "none"
  PROVE  SqliteInv'
<1>. DEFINE h == stmt_[s]
            place == [stmt_ EXCEPT ![s] = Absent]
<1>1. Finalized(h, place) /\ h \in Handles \cup {Null, Absent}
  BY SqliteFacts DEF DestroyAt
<1>2. /\ place \in [Places -> Handles \cup {Null, Absent}]
      /\ \A p \in Places : place[p] = IF p = s THEN Absent ELSE stmt_[p]
  BY SqliteFacts
<1>3. \A p, q \in Places : stmt_[p] = stmt_[q] /\ p # q => stmt_[p] \in {Null, Absent}
  BY DEF SqliteInv, StatementsOwnedOnce
<1>4. place[Local] = Absent
  BY <1>2, SqliteFacts DEF SqliteInv, StatementsOwnedOnce
<1>. HIDE DEF place
<1>5. ASSUME NEW x \in Handles
      PROVE  (\E p \in Places : place[p] = x) <=> x # h /\ \E p \in Places : stmt_[p] = x
  BY <1>2, <1>3, SqliteFacts
<1>6. \A p, q \in Places : place[p] = place[q] /\ p # q => place[p] \in {Null, Absent}
  BY <1>2, <1>3
<1>. HIDE DEF h
<1>. QED  BY <1>1, <1>2, <1>4, <1>5, <1>6, FinalizeStep

LEMMA MoveAssignStatementStep ==
  ASSUME SqliteInv, NEW s \in Statements, NEW t \in Statements, call = "none",
         MoveAssignStatement(s, t)
  PROVE  SqliteInv'
<1>. DEFINE h == stmt_[t]
            place == [stmt_ EXCEPT ![t] = stmt_[s], ![s] = Null]
<1>1. s \in Places /\ t \in Places /\ s # Local /\ t # Local
  BY SqliteFacts
<1>2. /\ Finalized(h, place) /\ h \in Handles \cup {Null, Absent} /\ s # t
      /\ call' = "none"
  BY <1>1, SqliteFacts DEF MoveAssignStatement
<1>3. /\ place \in [Places -> Handles \cup {Null, Absent}]
      /\ \A p \in Places :
           place[p] = IF p = s THEN Null ELSE IF p = t THEN stmt_[s] ELSE stmt_[p]
  BY <1>1, <1>2, SqliteFacts
<1>4. \A p, q \in Places : stmt_[p] = stmt_[q] /\ p # q => stmt_[p] \in {Null, Absent}
  BY DEF SqliteInv, StatementsOwnedOnce
<1>5. place[Local] = Absent
  BY <1>1, <1>3, SqliteFacts DEF SqliteInv, StatementsOwnedOnce
<1>. HIDE DEF place
<1>6. ASSUME NEW x \in Handles
      PROVE  (\E p \in Places : place[p] = x) <=> x # h /\ \E p \in Places : stmt_[p] = x
  <2>1. x # Null /\ x # Absent
    BY SqliteFacts
  <2>2. ASSUME NEW p \in Places, place[p] = x
        PROVE  x # h /\ \E q \in Places : stmt_[q] = x
    BY <1>1, <1>2, <1>3, <1>4, <2>1, <2>2
  <2>3. ASSUME NEW p \in Places, stmt_[p] = x, x # h
        PROVE  \E q \in Places : place[q] = x
    <3>1. CASE p = s
      BY <1>1, <1>2, <1>3, <2>3, <3>1
    <3>2. CASE p # s
      BY <1>1, <1>2, <1>3, <2>3, <3>2
    <3>. QED  BY <3>1, <3>2
  <2>. QED  BY <2>2, <2>3
<1>7. \A p, q \in Places : place[p] = place[q] /\ p # q => place[p] \in {Null, Absent}
  BY <1>1, <1>3, <1>4
<1>. HIDE DEF h
<1>. QED  BY <1>2, <1>3, <1>5, <1>6, <1>7, FinalizeStep

\* A handle that a Statement has changes, but for its connection.
LEMMA UpdateStep ==
  ASSUME SqliteInv, NEW h \in Handles, stmts[h].conn # Null,
         UNCHANGED <<db_, stmt_, conns, call, leaked>>,
         NEW r \in Prepared, r.conn = stmts[h].conn,
         r.state # "ready" => r.ran = r.bound,
         stmts' = [stmts EXCEPT ![h] = r],
         given' = [given EXCEPT ![h] = r.bound]
  PROVE  SqliteInv'
<1>1. /\ stmts' \in [Handles -> Prepared]
      /\ \A x \in Handles : stmts'[x] = IF x = h THEN r ELSE stmts[x]
  BY SqliteFacts
<1>2. r.bound \in Values \cup {Null}
  BY DEF Prepared
<1>3. /\ given' \in [Handles -> Values \cup {Null}]
      /\ \A x \in Handles : given'[x] = IF x = h THEN r.bound ELSE given[x]
  BY <1>2, SqliteFacts
<1>4. SqliteTypeOK'
  BY <1>1, <1>3, SqliteFacts DEF SqliteTypeOK, Prepared
<1>5. r # Free /\ stmts[h] # Free
  BY SqliteFacts
<1>6. StatementsOwnedOnce'
  BY <1>1, <1>5 DEF SqliteInv, StatementsOwnedOnce
<1>7. ConnectionsClosed'
  <2>1. \A x \in Handles : stmts'[x].conn = stmts[x].conn
    BY <1>1
  <2>2. \A c \in Connections : HasStatements(c, stmts') <=> HasStatements(c, stmts)
    BY <2>1 DEF HasStatements
  <2>3. \A c \in Connections :
          /\ conns[c] = "open" <=> c \in leaked \/ \E e \in Databases : db_[e] = c
          /\ conns[c] = "zombie" => HasStatements(c, stmts)
          /\ HasStatements(c, stmts) => conns[c] # "free"
          /\ \A e, f \in Databases : e # f /\ db_[e] = c => db_[f] # c
    BY DEF SqliteInv, ConnectionsClosed
  <2>4. \A c \in Connections :
          /\ conns[c] = "open" <=> c \in leaked \/ \E e \in Databases : db_[e] = c
          /\ conns[c] = "zombie" => HasStatements(c, stmts')
          /\ HasStatements(c, stmts') => conns[c] # "free"
          /\ \A e, f \in Databases : e # f /\ db_[e] = c => db_[f] # c
    BY <2>2, <2>3
  <2>. QED  BY <2>4 DEF ConnectionsClosed, HasStatements
<1>8. \A x \in Handles : stmts'[x] # Free <=> stmts'[x].conn # Null
  BY <1>1, <1>5 DEF SqliteInv
<1>9. \A x \in Handles : given'[x] = stmts'[x].bound
  BY <1>1, <1>3 DEF SqliteInv
<1>10. ExecutesWhatWasBound'
  BY <1>1, <1>3 DEF SqliteInv, ExecutesWhatWasBound
<1>. QED  BY <1>4, <1>6, <1>7, <1>8, <1>9, <1>10 DEF SqliteInv

\* The handle of a place has a connection.
LEMMA OwnedHandle ==
  ASSUME SqliteInv, NEW s \in Places, stmt_[s] \in Handles
  PROVE  stmts[stmt_[s]] \in Prepared /\ stmts[stmt_[s]].conn # Null
<1>1. stmts[stmt_[s]] # Free
  BY DEF SqliteInv, StatementsOwnedOnce
<1>. QED  BY <1>1, SqliteFacts DEF SqliteInv

LEMMA BindStep ==
  ASSUME SqliteInv, NEW s \in Places, stmt_[s] \in Handles, NEW v \in Values,
         BindValue(stmt_[s], v), UNCHANGED call
  PROVE  SqliteInv'
<1>. DEFINE h == stmt_[s]
            r == [stmts[h] EXCEPT !.bound = v]
<1>1. h \in Handles /\ stmts[h] \in Prepared /\ stmts[h].conn # Null
  BY OwnedHandle
<1>2. /\ stmts[h].state = "ready" /\ stmts' = [stmts EXCEPT ![h] = r]
      /\ given' = [given EXCEPT ![h] = v]
      /\ UNCHANGED <<db_, stmt_, conns, call, leaked>>
  BY DEF BindValue
<1>3. r \in Prepared /\ r.conn = stmts[h].conn /\ r.state = "ready" /\ r.bound = v
  BY <1>1, <1>2 DEF Prepared
<1>. HIDE DEF h, r
<1>. QED  BY <1>1, <1>2, <1>3, UpdateStep

LEMMA StepStep ==
  ASSUME SqliteInv, NEW s \in Places, stmt_[s] \in Handles,
         StepStatement(stmt_[s]), UNCHANGED call
  PROVE  SqliteInv'
<1>. DEFINE h == stmt_[s]
<1>1. h \in Handles /\ stmts[h] \in Prepared /\ stmts[h].conn # Null
  BY OwnedHandle
<1>2. PICK outcome \in {"row", "done", "failed"} :
        stmts' = [stmts EXCEPT ![h].state = outcome,
                               ![h].ran = IF stmts[h].state = "row" THEN @ ELSE stmts[h].bound]
  BY DEF StepStatement
<1>3. UNCHANGED <<db_, stmt_, conns, call, leaked, given>>
  BY DEF StepStatement
<1>4. stmts[h].state = "row" => stmts[h].ran = stmts[h].bound
  BY <1>1 DEF SqliteInv, ExecutesWhatWasBound
<1>. DEFINE r == [stmts[h] EXCEPT !.state = outcome, !.ran = stmts[h].bound]
<1>5. /\ r \in Prepared /\ r.conn = stmts[h].conn /\ r.bound = stmts[h].bound
      /\ r.ran = r.bound
  BY <1>1 DEF Prepared
<1>6. stmts' = [stmts EXCEPT ![h] = r]
  <2>1. [[stmts[h] EXCEPT !.state = outcome]
           EXCEPT !.ran = IF stmts[h].state = "row" THEN @ ELSE stmts[h].bound] = r
    BY <1>1, <1>4 DEF Prepared
  <2>2. stmts' = [stmts EXCEPT ![h] =
                    [[stmts[h] EXCEPT !.state = outcome]
                       EXCEPT !.ran = IF stmts[h].state = "row" THEN @ ELSE stmts[h].bound]]
    <3>1. stmts \in [Handles -> Prepared] /\ stmts[h] \in Prepared /\ h \in Handles
      BY <1>1, SqliteFacts
    <3>. HIDE DEF h, r
    <3>. QED  BY <1>2, <3>1 DEF Prepared
  <2>. QED  BY <2>1, <2>2
<1>7. given' = [given EXCEPT ![h] = r.bound]
  <2>1. given[h] = stmts[h].bound
    BY <1>1 DEF SqliteInv
  <2>. QED  BY <1>1, <1>3, <1>5, <2>1, SqliteFacts
<1>. HIDE DEF h, r
<1>. QED  BY <1>1, <1>3, <1>5, <1>6, <1>7, UpdateStep

LEMMA ResetStep ==
  ASSUME SqliteInv, NEW s \in Places, stmt_[s] \in Handles,
         ResetStatement(stmt_[s]), UNCHANGED call
  PROVE  SqliteInv'
<1>. DEFINE h == stmt_[s]
            kept == [stmts[h] EXCEPT !.state = "ready"]
            cleared == [stmts[h] EXCEPT !.state = "ready", !.bound = Null]
<1>1. h \in Handles /\ stmts[h] \in Prepared /\ stmts[h].conn # Null
  BY OwnedHandle
<1>2. UNCHANGED <<db_, stmt_, conns, call, leaked>>
  BY DEF ResetStatement
<1>3. /\ kept \in Prepared /\ kept.conn = stmts[h].conn /\ kept.state = "ready"
      /\ kept.bound = stmts[h].bound
  BY <1>1 DEF Prepared
<1>4. /\ cleared \in Prepared /\ cleared.conn = stmts[h].conn /\ cleared.state = "ready"
      /\ cleared.bound = Null
  BY <1>1 DEF Prepared
<1>5. CASE stmts[h].state = "failed"
  <2>1. stmts' = [stmts EXCEPT ![h] = kept] /\ given' = given
    BY <1>5 DEF ResetStatement
  <2>2. given[h] = stmts[h].bound
    BY <1>1 DEF SqliteInv
  <2>3. given' = [given EXCEPT ![h] = kept.bound]
    BY <1>1, <1>3, <2>1, <2>2, SqliteFacts
  <2>. HIDE DEF h, kept
  <2>. QED  BY <1>1, <1>2, <1>3, <2>1, <2>3, UpdateStep
<1>6. CASE stmts[h].state # "failed"
  <2>1. stmts' = [stmts EXCEPT ![h].state = "ready", ![h].bound = Null]
    BY <1>6 DEF ResetStatement
  <2>2. stmts' = [stmts EXCEPT ![h] = cleared]
    BY <1>1, <2>1, SqliteFacts
  <2>3. given' = [given EXCEPT ![h] = cleared.bound]
    BY <1>4, <1>6 DEF ResetStatement
  <2>. HIDE DEF h, cleared
  <2>. QED  BY <1>1, <1>2, <1>4, <2>2, <2>3, UpdateStep
<1>. QED  BY <1>5, <1>6

LEMMA SqliteStutters ==
  ASSUME SqliteInv, UNCHANGED sqliteVars
  PROVE  SqliteInv'
<1>. USE DEF sqliteVars
<1>1. SqliteTypeOK' /\ StatementsOwnedOnce' /\ ConnectionsClosed' /\ ExecutesWhatWasBound'
  BY DEF SqliteInv, SqliteTypeOK, StatementsOwnedOnce, ConnectionsClosed, HasStatements,
         ExecutesWhatWasBound
<1>. QED  BY <1>1 DEF SqliteInv

LEMMA SqliteNextPreserves == SqliteInv /\ [SqliteNext]_sqliteVars => SqliteInv'
<1>. SUFFICES ASSUME SqliteInv, [SqliteNext]_sqliteVars PROVE SqliteInv'
  OBVIOUS
<1>1. CASE DatabaseStep
  BY <1>1, DatabaseStepPreserves
<1>2. ASSUME call = "none", OwnStatementStep PROVE SqliteInv'
  <2>1. Statements \subseteq Places /\ Local \notin Statements
    BY SqliteFacts
  <2>2. ASSUME NEW s \in Statements, NEW d \in Databases, NEW h \in Handles,
               PrepareInto(s, d, h), UNCHANGED call
        PROVE  SqliteInv'
    BY <1>2, <2>1, <2>2, PrepareStep
  <2>3. ASSUME NEW s \in Statements, NEW t \in Statements, MoveConstructStatement(s, t)
        PROVE  SqliteInv'
    BY <1>2, <2>3, MoveConstructStatementStep
  <2>4. ASSUME NEW s \in Statements, NEW t \in Statements, MoveAssignStatement(s, t)
        PROVE  SqliteInv'
    BY <1>2, <2>4, MoveAssignStatementStep
  <2>5. ASSUME NEW s \in Statements, DestroyAt(s), UNCHANGED call PROVE SqliteInv'
    BY <1>2, <2>1, <2>5, DestroyStatementStep
  <2>6. ASSUME NEW s \in Statements, NEW v \in Values, stmt_[s] \in Handles,
               BindValue(stmt_[s], v), UNCHANGED call
        PROVE  SqliteInv'
    BY <2>1, <2>6, BindStep
  <2>7. ASSUME NEW s \in Statements, stmt_[s] \in Handles, StepStatement(stmt_[s]),
               UNCHANGED call
        PROVE  SqliteInv'
    BY <2>1, <2>7, StepStep
  <2>8. ASSUME NEW s \in Statements, stmt_[s] \in Handles, ResetStatement(stmt_[s]),
               UNCHANGED call
        PROVE  SqliteInv'
    BY <2>1, <2>8, ResetStep
  <2>. QED  BY <1>2, <2>2, <2>3, <2>4, <2>5, <2>6, <2>7, <2>8 DEF OwnStatementStep
<1>3. Local \in Places
  BY SqliteFacts
<1>4. ASSUME NEW op \in {"insert", "find_all", "find_by_id", "remove"},
             NEW d \in Databases, NEW h \in Handles, CallPrepares(op, d, h)
      PROVE  SqliteInv'
  BY <1>3, <1>4, PrepareStep DEF CallPrepares
<1>5. call # "none" => stmt_[Local] \in Handles
  BY DEF SqliteInv
<1>6. ASSUME NEW v \in Values, CallBinds(v) PROVE SqliteInv'
  <2>1. stmt_[Local] \in Handles /\ BindValue(stmt_[Local], v) /\ UNCHANGED call
    BY <1>5, <1>6 DEF CallBinds
  <2>. QED  BY <1>3, <2>1, BindStep
<1>7. CASE CallSteps
  <2>1. stmt_[Local] \in Handles /\ StepStatement(stmt_[Local]) /\ UNCHANGED call
    BY <1>5, <1>7 DEF CallSteps
  <2>. QED  BY <1>3, <2>1, StepStep
<1>8. CASE CallEnds
  BY <1>3, <1>8, DestroyStatementStep DEF CallEnds
<1>9. CASE UNCHANGED sqliteVars
  BY <1>9, SqliteStutters
<1>. QED  BY <1>1, <1>2, <1>4, <1>6, <1>7, <1>8, <1>9 DEF SqliteNext, RepositoryStep

\* database::Database, Statement and Repository, for any number of them: the
\* invariant above.
THEOREM SqliteInvariant == SqliteSpec => []SqliteInv
<1>. QED  BY SqliteInitEstablishes, SqliteNextPreserves, PTL DEF SqliteSpec

\* Statement's promise: an execution runs with exactly what has been bound since
\* the last reset, whatever was bound, stepped, failed or moved before.
THEOREM SqliteExecutes == SqliteSpec => []ExecutesWhatWasBound
<1>1. SqliteInv => ExecutesWhatWasBound
  BY DEF SqliteInv
<1>. QED  BY <1>1, SqliteInvariant, PTL

-----------------------------------------------------------------------------
\* All the owners together: for any numbers of places, sizes, names and handles,
\* every resource has exactly one owner, in every reachable state.
THEOREM ResourcesHaveOwners == OwnersSpec => []ResourcesOwnedOnce
<1>1. /\ SqliteInv /\ ArenaInv /\ HandleInv /\ ErasureInv /\ GlInv /\ PassInv
      /\ BuffersOwnedOnce /\ ObjectsOwnedOnce
      => ResourcesOwnedOnce
  BY DEF ResourcesOwnedOnce, SqliteInv, ArenaInv, HandleInv, ErasureInv, GlInv, PassInv
<1>. QED  BY <1>1, SqliteInvariant, ArenaInvariant, ArenaOwnsBuffers, HandleOwnsFiles,
             ErasureValues, GlInvariant, GlOwnsObjects, PassInvariant, PTL DEF OwnersSpec
=============================================================================
