------------------------------- MODULE Buddy --------------------------------
(***************************************************************************)
(* The allocator of dynamic memory of src/src/memory.c.  A block of level  *)
(* l is 2^l units; level l has a bitmap of its free blocks and the count   *)
(* of its bits.  ckDynMemAllocate and ckDynMemFree work on them with the   *)
(* interrupts locked, so each is one step.                                 *)
(*                                                                         *)
(* Sizes are far below 2^31: no caller asks for more than the memory.      *)
(***************************************************************************)
EXTENDS Naturals, FiniteSetsExt

CONSTANTS
    Unit,        \* DYN_MEM_BUDDY_UNIT_SIZE
    Header,      \* sizeof(BuddyBitmap)
    Start,       \* DYN_MEMORY_START_ADDRESS
    DynMemSize,  \* g_DynMem.DynMemSize
    Requests     \* the sizes callers ask for, in bytes

ASSUME UnitAssumption == Unit \in Nat \ {0} /\ Header \in Nat
ASSUME MemoryAssumption == Start \in Nat /\ DynMemSize \in Nat \ {0} /\ Start % Unit = 0 /\ DynMemSize % Unit = 0
ASSUME RequestsAssumption == Requests \subseteq Nat

VARIABLES
    bits,      \* BuddyBitmap::bits, the free blocks of each level
    count,     \* BuddyBitmap::count
    UsedSize,  \* g_DynMem.UsedSize
    live       \* what callers hold: the address they were given, the size they asked for

buddyVars == <<bits, count, UsedSize, live>>

-----------------------------------------------------------------------------
(* Layout. *)

\* 1 << n
Pow2[n \in Nat] == IF n = 0 THEN 1 ELSE 2 * Pow2[n - 1]

\* _ceil_uint32 to units
Ceil(n) == ((n + Unit - 1) \div Unit) * Unit

\* The number of levels above n unit blocks: halved until one block is left.
NumLevels(n) == CHOOSE k \in 1 .. n : Pow2[k - 1] <= n /\ n < Pow2[k]

\* The metadata at the start of the memory, sized for all of it.
MetadataSize ==
    LET n == (DynMemSize - 1) \div Unit + 1
    IN  MapThenSumSet(LAMBDA l : Header + (n \div Pow2[l] - 1) \div 8 + 1, 0 .. NumLevels(n) - 1)

BeginAddr == Ceil(Start + MetadataSize)

CountOfUnitBlock == (DynMemSize - (BeginAddr - Start) - 1) \div Unit + 1

BitmapLevel == NumLevels(CountOfUnitBlock)

Levels == 0 .. BitmapLevel - 1

LevelSize(l) == CountOfUnitBlock \div Pow2[l]

\* A level with an odd number of blocks starts with its last one free: the one
\* that has no buddy.
Leftover(l) == IF LevelSize(l) % 2 = 1 THEN {LevelSize(l) - 1} ELSE {}

ASSUME LayoutAssumption == BeginAddr < Start + DynMemSize

BuddyInit ==
    /\ bits = [l \in Levels |-> Leftover(l)]
    /\ count = [l \in Levels |-> Cardinality(Leftover(l))]
    /\ UsedSize = 0
    /\ live = {}

-----------------------------------------------------------------------------
(* Operations. *)

\* BitmapIdx: the level of the smallest blocks that hold size bytes.
LevelFor(size) ==
    CHOOSE l \in 0 .. size : Unit * Pow2[l] >= Ceil(size) /\ \A k \in 0 .. l - 1 : Unit * Pow2[k] < Ceil(size)

\* Mutant: a split marks the right half on its own level only.
Split_OneLevel(l, b, k) == IF k + 1 = l THEN {b * 2 + 1} ELSE {}

\* Splitting block b of level l down leaves on level k, below l, the right half of the
\* leftmost block above it.
Split(l, b, k) == {b * Pow2[l - k] + 1}

\* The levels with a free block, from that of the request up.
Sources(size) == {l \in Levels : l >= LevelFor(size) /\ count[l] # 0}

\* ckDynMemAllocate that returns NULL, and changes nothing.
Refused(size) == size = 0 \/ Sources(size) = {}

\* ckDynMemAllocate that finds a block: the lowest of the first level that has one.
Allocate(size) ==
    LET k == LevelFor(size)
        l == Min(Sources(size))
        b == Min(bits[l])
        addr == BeginAddr + b * Pow2[l - k] * (Unit * Pow2[k])
    IN  /\ ~Refused(size)
        /\ bits' = [j \in Levels |-> IF j = l THEN bits[l] \ {b}
                                     ELSE IF j \in k .. l - 1 THEN bits[j] \cup Split(l, b, j)
                                     ELSE bits[j]]
        /\ count' = [j \in Levels |-> IF j = l THEN count[l] - 1
                                      ELSE IF j \in k .. l - 1 THEN count[j] + 1
                                      ELSE count[j]]
        /\ UsedSize' = UsedSize + Ceil(size)
        /\ live' = live \cup {[addr |-> addr, size |-> size]}

\* block ^ 1
BuddyOf(b) == IF b % 2 = 0 THEN b + 1 ELSE b - 1

\* Block b of level k, after merging up to level l.
Above(k, b, l) == b \div Pow2[l - k]

\* Mutant: a block is not merged with its buddy.
Merges_Never(k, b) == {}

\* Mutant: merging stops after one level.
Merges_Once(k, b) == {l \in k .. k : l + 1 \in Levels /\ BuddyOf(b) \in bits[l]}

\* The levels on which freeing block b of level k finds the buddy free.
Merges(k, b) ==
    {l \in Levels : /\ l >= k /\ l + 1 \in Levels
                    /\ \A j \in k .. l : BuddyOf(Above(k, b, j)) \in bits[j]}

\* ckDynMemFree of what a caller holds, by any address in its first unit; the
\* comment at memory.c:207 leaves freeing anything else to the caller.
Free(m, addr) ==
    LET k == LevelFor(m.size)
        b == ((addr \div Unit) * Unit - BeginAddr) \div (Unit * Pow2[k])
        merged == Merges(k, b)
        top == k + Cardinality(merged)
    IN  /\ m.size # 0 /\ k \in Levels
        /\ BeginAddr <= addr /\ addr <= Start + DynMemSize
        /\ b \notin bits[k]
        /\ bits' = [l \in Levels |->
                      IF l \in merged THEN bits[l] \ {Above(k, b, l), BuddyOf(Above(k, b, l))}
                      ELSE IF l = top THEN bits[l] \cup {Above(k, b, l)}
                      ELSE bits[l]]
        /\ count' = [l \in Levels |-> IF l \in merged THEN count[l] + 1 - 2
                                      ELSE IF l = top THEN count[l] + 1
                                      ELSE count[l]]
        /\ UsedSize' = UsedSize - Ceil(m.size)
        /\ live' = live \ {m}

BuddyNext == \/ \E size \in Requests : Allocate(size)
             \/ \E m \in live : \E addr \in {m.addr, m.addr + Unit - 1} : Free(m, addr)

BuddySpec == BuddyInit /\ [][BuddyNext]_buddyVars

-----------------------------------------------------------------------------
(* Properties. *)

Units(l, b) == b * Pow2[l] .. (b + 1) * Pow2[l] - 1

UnitsOf(m) == Units(LevelFor(m.size), (m.addr - BeginAddr) \div (Unit * Pow2[LevelFor(m.size)]))

\* Every unit of the memory is in exactly one block that is free or that a caller
\* holds: blocks split and merge without overlapping a caller's or losing a unit
\* (memory.c:158, 230).  The counts that ckDynMemAllocate trusts when it scans a
\* bitmap without a bound (memory.c:56, 156) are those of the bitmaps, and UsedSize
\* is what callers hold.
Partition ==
    /\ \A u \in 0 .. CountOfUnitBlock - 1 :
        Cardinality({m \in live : u \in UnitsOf(m)})
            + Cardinality({l \in Levels : \E b \in bits[l] : u \in Units(l, b)}) = 1
    /\ \A l \in Levels : count[l] = Cardinality(bits[l])
    /\ UsedSize = MapThenSumSet(LAMBDA m : Ceil(m.size), live)

\* A request is refused only when memory has no free block of its size at all:
\* merging leaves no free block in halves (memory.c:230); and when everything is
\* freed, in any order, the bitmaps are as they were at the start.
Serves ==
    /\ \A k \in Levels :
         (\E b \in 0 .. LevelSize(k) - 1 : \A m \in live : UnitsOf(m) \cap Units(k, b) = {})
             => \E l \in Levels : l >= k /\ count[l] # 0
    /\ live = {} => bits = [l \in Levels |-> Leftover(l)]
=============================================================================
