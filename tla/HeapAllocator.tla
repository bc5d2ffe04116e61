---------------------------- MODULE HeapAllocator ----------------------------
(***************************************************************************)
(* HeapAllocator of memory_manager.cpp: the guest heap with its two free   *)
(* lists (by address, for coalescing; by size, for the best fit), the live *)
(* allocations and the high-water mark.  Every operation runs under        *)
(* mutex_, so each is one step.  An entry of size 0 never exists, so 0     *)
(* stands for "no entry" in both maps.  Blocks of equal size are taken in  *)
(* the order of their insertion in the code, in any order here.  All       *)
(* arithmetic is that of uint64_t: it wraps around at Word.                *)
(***************************************************************************)
EXTENDS Integers, FiniteSets

CONSTANTS Base, Size,   \* base_ and size_
          Word,         \* 2^64 in the code
          Sizes,        \* bound: the request sizes of allocate and realloc
          Alignments,   \* bound: the alignments callers pass
          DefaultAlign, \* the default argument of allocate (16)
          MinTail       \* a tail shorter than this is dropped (16 bytes)

Limit == Base + Size
Addr == 0..(Word - 1)

ASSUME HeapAssumption ==
  /\ Base \in Nat \ {0} /\ Size \in Nat \ {0}
  /\ Word \in Nat /\ Limit < Word
  /\ Sizes \subseteq 0..(Word - 1)
  /\ Alignments \subseteq 0..(Word - 1) /\ DefaultAlign \in 1..(Word - 1)
  /\ MinTail \in Nat \ {0}

\* memalign passes the guest's alignment on unchecked: a power of two, or 0.
ASSUME PowersOfTwo ==
  \A al \in (Alignments \cup {DefaultAlign}) \ {0} : \E k \in 0..al : al = 2^k

VARIABLES
  free,             \* free_blocks_ (field addr) and free_blocks_by_size_ (field size)
  allocations,      \* allocations_
  high_water_mark

heapVars == <<free, allocations, high_water_mark>>

Init ==
  /\ free = [addr |-> [a \in Addr |-> 0], size |-> {}]
  /\ allocations = [a \in Addr |-> 0]
  /\ high_water_mark = Base
-----------------------------------------------------------------------------
Sum(x, y) == (x + y) % Word

\* (x + alignment - 1) & ~(alignment - 1).  For alignment 0 the mask is empty.
AlignPast(x, alignment) ==                                      \* mutant of AlignUp
  x + alignment - (x % alignment)
AlignUp(x, alignment) ==
  LET y == Sum(x, alignment - 1)
  IN IF alignment = 0 THEN 0 ELSE y - (y % alignment)

\* Takes entries <<size, address>> out of the indices f.
RemoveFromAddressIndex(f, entries) ==                           \* mutant of remove_free_block
  [addr |-> [b \in Addr |-> IF \E e \in entries : e[2] = b THEN 0 ELSE f.addr[b]],
   size |-> f.size]
remove_free_block(f, entries) ==
  [addr |-> [b \in Addr |-> IF \E e \in entries : e[2] = b THEN 0 ELSE f.addr[b]],
   size |-> f.size \ entries]

Insert(f, a, n) == [addr |-> [f.addr EXCEPT ![a] = n], size |-> f.size \cup {<<n, a>>}]

FreeBlocks(f) == {a \in Addr : f.addr[a] > 0}

\* The free block that ends at a, if it is the last one before a, and the one
\* that begins at end, if it is the first one from a on.
Predecessor(f, a) ==
  {b \in FreeBlocks(f) : /\ b < a /\ Sum(b, f.addr[b]) = a
                         /\ \A c \in FreeBlocks(f) : c < a => c <= b}
Successor(f, a, end) ==
  {b \in FreeBlocks(f) : /\ b >= a /\ b = end
                         /\ \A c \in FreeBlocks(f) : c >= a => b <= c}

AddUnmergedBlock(f, a, n) == Insert(f, a, n)                    \* mutant of add_free_block
add_free_block(f, a, n) ==
  LET left == Predecessor(f, a)
      right == Successor(f, a, Sum(a, n))
      from == IF left = {} THEN a ELSE CHOOSE b \in left : TRUE
      before == IF left = {} THEN 0 ELSE f.addr[from]
      after == IF right = {} THEN 0 ELSE f.addr[Sum(a, n)]
  IN Insert(remove_free_block(f, {<<f.addr[b], b>> : b \in left \cup right}),
            from, Sum(before + n, after))

\* A block <<size, address>> of the size index that can hold n aligned bytes,
\* and the first such blocks in the order of the size index.
Padding(e, alignment) == Sum(AlignUp(e[2], alignment), -e[2])
Fits(e, n, alignment) == e[1] >= n /\ e[1] >= Sum(n, Padding(e, alignment))
BestFits(f, n, alignment) ==
  {e \in f.size : /\ Fits(e, n, alignment)
                  /\ \A d \in f.size : Fits(d, n, alignment) => e[1] <= d[1]}

\* allocate takes n aligned bytes from the free block e.  The padding before
\* them and the tail after them are free again; a short tail is dropped.
KeepNoPadding(f, e, n, alignment) ==                            \* mutant of TakeBlock
  LET f1 == remove_free_block(f, {e})
      tail == Sum(e[1] - n, -Padding(e, alignment))
  IN IF tail >= MinTail THEN add_free_block(f1, Sum(AlignUp(e[2], alignment), n), tail) ELSE f1
KeepWholeBlock(f, e, n, alignment) == f                         \* mutant of TakeBlock
TakeBlock(f, e, n, alignment) ==
  LET padding == Padding(e, alignment)
      f1 == remove_free_block(f, {e})
      f2 == IF padding > 0 THEN add_free_block(f1, e[2], padding) ELSE f1
      tail == Sum(e[1] - n, -padding)
  IN IF tail >= MinTail THEN add_free_block(f2, Sum(AlignUp(e[2], alignment), n), tail) ELSE f2

\* The outcomes of allocate: from the first block that fits, or above the
\* high-water mark if the end is in the heap, or none (the pointer 0).
Outcome(ptr, n, f, mark) ==
  [ptr |-> ptr, free |-> f, mark |-> mark, allocations |-> [allocations EXCEPT ![ptr] = n]]
NoMemory == [ptr |-> 0, free |-> free, mark |-> high_water_mark, allocations |-> allocations]
EndPastLimit(result, n) == result > Limit                       \* mutant of OutOfMemory
OutOfMemory(result, n) == Sum(result, n) > Limit
AllocateOutcomes(size, alignment) ==
  LET n == IF size = 0 THEN 1 ELSE size
      fits == BestFits(free, n, alignment)
      top == AlignUp(high_water_mark, alignment)
  IN CASE fits # {} ->
            {Outcome(AlignUp(e[2], alignment), n, TakeBlock(free, e, n, alignment),
                     high_water_mark) : e \in fits}
       [] fits = {} /\ OutOfMemory(top, n) -> {NoMemory}
       [] OTHER -> {Outcome(top, n, free, Sum(top, n))}
-----------------------------------------------------------------------------
Become(r) == free' = r.free /\ allocations' = r.allocations /\ high_water_mark' = r.mark
Allocate(size, alignment) == \E r \in AllocateOutcomes(size, alignment) : Become(r)

\* free ignores an address that is not allocated.
Free(a) ==
  /\ IF allocations[a] > 0
     THEN /\ allocations' = [allocations EXCEPT ![a] = 0]
          /\ free' = add_free_block(free, a, allocations[a])
     ELSE UNCHANGED <<free, allocations>>
  /\ UNCHANGED high_water_mark

\* realloc of a live block to a larger size; the other calls of realloc are an
\* allocate, a free or nothing.
Realloc(a, size) ==
  /\ allocations[a] > 0 /\ size > allocations[a]
  /\ \E r \in AllocateOutcomes(size, DefaultAlign) :
       IF r.ptr = 0
       THEN Become(r)
       ELSE /\ free' = add_free_block(r.free, a, allocations[a])
            /\ allocations' = [r.allocations EXCEPT ![a] = 0]
            /\ high_water_mark' = r.mark

Next ==
  \/ \E size \in Sizes, alignment \in Alignments \cup {DefaultAlign} : Allocate(size, alignment)
  \/ \E a \in Addr \ {0} : Free(a)
  \/ \E a \in Addr \ {0}, size \in Sizes : Realloc(a, size)

Spec == Init /\ [][Next]_heapVars
-----------------------------------------------------------------------------
Live(al) == {a \in Addr : al[a] > 0}

\* The n bytes from a do not overlap the block of map f at b.
Apart(a, n, f, b) == a + n <= b \/ b + f[b] <= a

FreeType(f) == f \in [addr : [Addr -> 0..Size], size : SUBSET ((1..Size) \X Addr)]

FreeDisjoint(f, mark) ==
  \A a \in FreeBlocks(f) :
    /\ Base <= a /\ a + f.addr[a] <= mark
    /\ \A b \in FreeBlocks(f) : a # b => Apart(a, f.addr[a], f.addr, b)

LiveDisjoint(al, f, mark) ==
  \A a \in Live(al) :
    /\ Base <= a /\ a + al[a] <= mark
    /\ \A b \in Live(al) : a # b => Apart(a, al[a], al, b)
    /\ \A b \in FreeBlocks(f) : Apart(a, al[a], f.addr, b)

Indexed(f) == f.size = {<<f.addr[a], a>> : a \in FreeBlocks(f)}

Covered ==
  {x \in Base..(Limit - 1) :
     \E a \in Addr : a <= x /\ (x < a + allocations[a] \/ x < a + free.addr[a])}

\* The bytes below the high-water mark that no allocate will ever return again.
Lost == (Base..(high_water_mark - 1)) \ Covered

\* The maps of HeapAllocator keep their types; no block is longer than the
\* heap and the high-water mark stays in it.
TypeOK ==
  /\ FreeType(free)
  /\ allocations \in [Addr -> 0..Size]
  /\ high_water_mark \in Base..Limit

\* allocate, free and add_free_block never hand out or keep a byte twice: live
\* allocations and free blocks are pairwise disjoint and lie between base_ and
\* the high-water mark.
Disjoint ==
  /\ FreeDisjoint(free, high_water_mark)
  /\ LiveDisjoint(allocations, free, high_water_mark)

\* remove_free_block and add_free_block keep the two free lists in step: the
\* size index lists exactly the blocks of the address index.
IndicesAgree == Indexed(free)

\* add_free_block coalesces: no free block begins where another ends, however
\* blocks were split, padded and freed.
Coalesced == \A a, b \in FreeBlocks(free) : a + free.addr[a] # b

\* What the heap loses for good is bounded call by call.  A call served from
\* the free lists, and a free, lose less than the short tail allocate drops.  A
\* call that raises the high-water mark loses exactly the gap between the old
\* mark and its block, which is shorter than the alignment it asked for; that
\* gap never reaches a free list.
LosesOnlyScraps ==
  LET lost == Lost' \ Lost
  IN \/ high_water_mark' = high_water_mark /\ Cardinality(lost) < MinTail
     \/ \E a \in Live(allocations') :
          /\ high_water_mark <= a /\ high_water_mark' = a + allocations'[a]
          /\ lost = high_water_mark..(a - 1)
          /\ \E al \in Alignments \cup {DefaultAlign} :
               al > a - high_water_mark /\ a % al = 0
BytesKept == [][LosesOnlyScraps]_heapVars

\* No request makes allocate's arithmetic wrap around: alignment - 1 does for
\* alignment 0, the end of a block does for a huge size.
NoWrap == \A n \in Sizes, al \in Alignments \cup {DefaultAlign} : al > 0 /\ Limit + al + n < Word
=============================================================================
