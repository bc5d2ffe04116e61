------------------------ MODULE HeapAllocatorProofs ------------------------
(***************************************************************************)
(* Proofs that the guest heap never hands out a byte twice.  Disjointness  *)
(* alone is not inductive: allocate believes the block sizes of the size   *)
(* index, so the two indices must agree as well (IInv).                    *)
(***************************************************************************)
EXTENDS HeapAllocator, TLAPS

FreeOK(f, mark) == FreeType(f) /\ FreeDisjoint(f, mark) /\ Indexed(f)

\* n bytes from a between base_ and mark that belong to no free block.
Unused(f, mark, a, n) ==
  /\ a \in Addr /\ n \in 1..Size
  /\ Base <= a /\ a + n <= mark
  /\ \A b \in FreeBlocks(f) : Apart(a, n, f.addr, b)

\* Arithmetic that stays below Word does not wrap around.
LEMMA SumSmall ==
  ASSUME NEW x \in Int, NEW y \in Int, x + y \in 0..(Word - 1)
  PROVE  Sum(x, y) = x + y
  BY HeapAssumption DEF Sum

\* remove_free_block takes an entry of the size index out of both indices; its
\* bytes then belong to no block.
LEMMA RemoveOne ==
  ASSUME NEW f, NEW mark \in Base..Limit, FreeOK(f, mark), NEW e \in f.size
  PROVE  LET k == remove_free_block(f, {e})
         IN /\ FreeOK(k, mark)
            /\ Unused(k, mark, e[2], e[1])
            /\ e[2] \in FreeBlocks(f) /\ f.addr[e[2]] = e[1]
            /\ FreeBlocks(k) = FreeBlocks(f) \ {e[2]}
            /\ \A b \in FreeBlocks(k) : k.addr[b] = f.addr[b]
<1> DEFINE k == remove_free_block(f, {e})
           a == e[2]
           n == e[1]
<1>1. f.addr \in [Addr -> 0..Size] /\ f.size \subseteq (1..Size) \X Addr
  BY DEF FreeOK, FreeType
<1>2. a \in Addr /\ n \in 1..Size /\ e = <<n, a>>
  BY <1>1
<1>3. f.addr[a] = n
  BY <1>2 DEF FreeOK, Indexed
<1>4. k.size = f.size \ {e} /\ k.addr = [f.addr EXCEPT ![a] = 0]
  BY <1>1, <1>2 DEF remove_free_block
<1>5. FreeBlocks(k) = FreeBlocks(f) \ {a}
  BY <1>1, <1>2, <1>4 DEF FreeBlocks
<1>6. \A b \in FreeBlocks(k) : k.addr[b] = f.addr[b]
  BY <1>1, <1>2, <1>4, <1>5 DEF FreeBlocks
<1>7. FreeType(k)
  <2>1. k.addr \in [Addr -> 0..Size] /\ k.size \subseteq (1..Size) \X Addr
    BY <1>1, <1>2, <1>4, HeapAssumption
  <2> QED BY <2>1 DEF remove_free_block, FreeType
<1>8. FreeDisjoint(k, mark)
  BY <1>5, <1>6 DEF FreeDisjoint, Apart, FreeOK
<1>9. Indexed(k)
  <2>1. k.size = {<<f.addr[b], b>> : b \in FreeBlocks(f)} \ {<<n, a>>}
    BY <1>2, <1>4 DEF FreeOK, Indexed
  <2>2. {<<f.addr[b], b>> : b \in FreeBlocks(f)} \ {<<n, a>>}
          = {<<f.addr[b], b>> : b \in FreeBlocks(f) \ {a}}
    BY <1>3
  <2> QED BY <2>1, <2>2, <1>5, <1>6 DEF Indexed
<1>10. a \in FreeBlocks(f)
  BY <1>2, <1>3 DEF FreeBlocks
<1>11. Unused(k, mark, a, n)
  BY <1>1, <1>2, <1>3, <1>5, <1>6, <1>10, HeapAssumption
     DEF Unused, FreeOK, FreeDisjoint, Apart, FreeBlocks
<1> HIDE DEF k
<1> QED BY <1>3, <1>5, <1>6, <1>7, <1>8, <1>9, <1>10, <1>11 DEF FreeOK, k

\* add_free_block turns unused bytes into free ones and merges them with their
\* neighbours: the result is a proper pair of indices, and bytes that touch
\* neither an old free block nor the new bytes touch no new free block.
LEMMA AddOne ==
  ASSUME NEW f, NEW mark \in Base..Limit, FreeOK(f, mark), NEW a, NEW n,
         Unused(f, mark, a, n)
  PROVE  LET k == add_free_block(f, a, n)
         IN /\ FreeOK(k, mark)
            /\ \A c \in Nat, m \in Nat \ {0} :
                 /\ \A b \in FreeBlocks(f) : Apart(c, m, f.addr, b)
                 /\ c + m <= a \/ a + n <= c
                 => \A b \in FreeBlocks(k) : Apart(c, m, k.addr, b)
<1> DEFINE left == Predecessor(f, a)
           right == Successor(f, a, Sum(a, n))
           from == IF left = {} THEN a ELSE CHOOSE b \in left : TRUE
           before == IF left = {} THEN 0 ELSE f.addr[from]
           after == IF right = {} THEN 0 ELSE f.addr[Sum(a, n)]
           end == a + n + after
           gone == left \cup right
           entries == {<<f.addr[b], b>> : b \in gone}
           r == remove_free_block(f, entries)
           k == Insert(r, from, Sum(before + n, after))
<1>0. add_free_block(f, a, n) = k
  BY DEF add_free_block
<1>1. /\ f.addr \in [Addr -> 0..Size] /\ f.size \subseteq (1..Size) \X Addr
      /\ a \in Addr /\ n \in 1..Size /\ Base <= a /\ a + n <= mark
      /\ Addr \subseteq Nat /\ Size \in Nat /\ Base \in Nat /\ mark \in Nat /\ mark <= Limit
      /\ Limit < Word /\ Word \in Nat
  BY HeapAssumption DEF FreeOK, FreeType, Unused, Addr, Limit
<1> HIDE DEF left, right, from, before, after, end, gone, entries, r, k
<1>s. Sum(a, n) = a + n /\ \A b \in FreeBlocks(f) : Sum(b, f.addr[b]) = b + f.addr[b]
  <2>1. a + n \in 0..(Word - 1) /\ a \in Int /\ n \in Int
    BY <1>1, HeapAssumption DEF Limit
  <2>2. ASSUME NEW b \in FreeBlocks(f)
        PROVE  b \in Int /\ f.addr[b] \in Int /\ b + f.addr[b] \in 0..(Word - 1)
    <3>1. b \in Addr /\ b + f.addr[b] <= mark
      BY DEF FreeOK, FreeDisjoint, FreeBlocks
    <3>2. b \in Nat /\ f.addr[b] \in 0..Size
      BY <1>1, <3>1
    <3> QED BY <1>1, <3>1, <3>2, HeapAssumption DEF Limit
  <2> QED BY <2>1, <2>2, SumSmall
<1>2. \/ left = {} /\ from = a
      \/ left = {from} /\ from \in FreeBlocks(f) /\ from < a /\ from + f.addr[from] = a
  <2>1. CASE left = {}
    BY <2>1 DEF from
  <2>2. CASE left # {}
    <3>1. from \in left
      BY <2>2 DEF from
    <3>2. \A b \in left : /\ b \in FreeBlocks(f) /\ b < a /\ b + f.addr[b] = a
                          /\ \A c \in FreeBlocks(f) : c < a => c <= b
      BY <1>s DEF left, Predecessor
    <3>3. \A b \in left : b \in Nat
      BY <3>2, <1>1 DEF FreeBlocks
    <3>4. \A b \in left : b = from
      BY <3>1, <3>2, <3>3
    <3> QED BY <3>1, <3>2, <3>4
  <2> QED BY <2>1, <2>2
<1>3. \/ right = {} /\ end = a + n
      \/ right = {a + n} /\ a + n \in FreeBlocks(f) /\ end = a + n + f.addr[a + n]
  BY <1>1, <1>s DEF Successor, right, after, end
<1>4. /\ from \in Addr /\ Base <= from /\ from <= a
      /\ end \in Nat /\ a + n <= end /\ end <= mark
  <2>1. \A b \in FreeBlocks(f) : /\ b \in Addr /\ b \in Nat /\ f.addr[b] \in 1..Size
                                 /\ Base <= b /\ b + f.addr[b] <= mark
    BY <1>1 DEF FreeOK, FreeDisjoint, FreeBlocks
  <2>2. from \in Addr /\ Base <= from /\ from <= a
    BY <2>1, <1>1, <1>2
  <2>3. end \in Nat /\ a + n <= end /\ end <= mark
    BY <2>1, <1>1, <1>3
  <2> QED BY <2>2, <2>3
<1>m. Sum(before + n, after) = end - from
  <2>1. before \in Nat /\ from + before = a
    <3>1. CASE left = {}
      BY <3>1, <1>1, <1>2 DEF before
    <3>2. CASE left # {}
      <4>1. from \in FreeBlocks(f) /\ from + f.addr[from] = a /\ before = f.addr[from]
        BY <3>2, <1>2 DEF before
      <4>2. f.addr[from] \in 0..Size
        BY <1>1, <1>4
      <4>3. before \in Nat
        BY <4>1, <4>2, <1>1
      <4> QED BY <4>1, <4>3, Zenon
    <3> QED BY <3>1, <3>2
  <2>2. after \in Nat /\ end = a + n + after
    BY <1>1, <1>3, <1>s DEF after, end, FreeBlocks
  <2>3. before + n + after = end - from /\ end - from \in 0..(Word - 1) /\ before + n \in Int
    BY <1>1, <1>4, <2>1, <2>2, HeapAssumption DEF Limit
  <2> QED BY <2>2, <2>3, SumSmall
<1>5. gone \subseteq FreeBlocks(f) /\ gone \subseteq Addr
  BY <1>2, <1>3 DEF FreeBlocks, gone
<1>6. r.addr = [b \in Addr |-> IF b \in gone THEN 0 ELSE f.addr[b]] /\ r.size = f.size \ entries
  <2>1. ASSUME NEW b \in Addr, NEW e \in entries, e[2] = b PROVE b \in gone
    BY <2>1 DEF entries
  <2>2. ASSUME NEW b \in gone PROVE \E e \in entries : e[2] = b
    <3>1. <<f.addr[b], b>> \in entries
      BY DEF entries
    <3> QED BY <3>1
  <2>3. \A b \in Addr : (\E e \in entries : e[2] = b) <=> b \in gone
    BY <2>1, <2>2
  <2> QED BY <2>3 DEF remove_free_block, r
<1>7. /\ k.addr = [b \in Addr |-> IF b = from THEN end - from ELSE r.addr[b]]
      /\ k.size = (f.size \ entries) \cup {<<end - from, from>>}
  BY <1>4, <1>6, <1>m DEF Insert, k
<1>8. end - from \in 1..Size
  BY <1>1, <1>4, HeapAssumption DEF Limit
<1>9. FreeBlocks(k) = (FreeBlocks(f) \ gone) \cup {from} /\ k.addr[from] = end - from
  <2>1. k.addr[from] = end - from /\ end - from > 0
    BY <1>4, <1>7, <1>8
  <2>2. \A b \in Addr : b # from => k.addr[b] = IF b \in gone THEN 0 ELSE f.addr[b]
    BY <1>6, <1>7
  <2>3. ASSUME NEW b \in Addr, b # from
        PROVE  k.addr[b] > 0 <=> b \notin gone /\ f.addr[b] > 0
    BY <2>2, <2>3, <1>1
  <2>4. \A b : b \in FreeBlocks(k) <=> b \in (FreeBlocks(f) \ gone) \cup {from}
    BY <2>1, <2>3, <1>4 DEF FreeBlocks
  <2> QED BY <2>1, <2>4
<1>10. from \in gone \/ from \notin FreeBlocks(f)
  BY <1>1, <1>2 DEF Unused, Apart, FreeBlocks, gone
<1>11. \A b \in FreeBlocks(k) : b # from => b \in FreeBlocks(f) /\ k.addr[b] = f.addr[b]
  BY <1>4, <1>5, <1>6, <1>7, <1>9 DEF FreeBlocks
<1>12. FreeType(k)
  <2>1. k.addr \in [Addr -> 0..Size]
    BY <1>1, <1>4, <1>6, <1>7, <1>8
  <2>2. k.size \subseteq (1..Size) \X Addr
    BY <1>1, <1>4, <1>7, <1>8
  <2> QED BY <2>1, <2>2 DEF FreeType, Insert, k
<1>13. ASSUME NEW c \in Nat, NEW m \in Nat \ {0},
              \A b \in FreeBlocks(f) : Apart(c, m, f.addr, b), c + m <= a \/ a + n <= c
       PROVE  \A b \in FreeBlocks(k) : Apart(c, m, k.addr, b)
  <2>1. c + m <= from \/ end <= c
    BY <1>13, <1>1, <1>2, <1>3, <1>4 DEF Apart, FreeBlocks
  <2>2. Apart(c, m, k.addr, from)
    <3>1. from \in Nat /\ end \in Nat
      BY <1>1, <1>4
    <3>2. from + k.addr[from] = end
      BY <3>1, <1>9
    <3> QED BY <2>1, <3>2 DEF Apart
  <2> QED BY <2>2, <1>11, <1>13 DEF Apart
<1>14. FreeDisjoint(k, mark)
  <2>1. \A b \in FreeBlocks(k) : Base <= b /\ b + k.addr[b] <= mark
    BY <1>1, <1>4, <1>9, <1>11 DEF FreeOK, FreeDisjoint
  <2>2. ASSUME NEW b \in FreeBlocks(k), b # from
        PROVE  b + f.addr[b] <= from \/ end <= b
    <3>1. b \in FreeBlocks(f) \ gone /\ f.addr[b] \in 1..Size /\ b \in Nat
      <4>1. b \in FreeBlocks(f) \ gone
        BY <2>2, <1>9
      <4>2. b \in Addr /\ f.addr[b] > 0
        BY <4>1 DEF FreeBlocks
      <4>3. f.addr[b] \in 0..Size /\ b \in Nat
        BY <4>2, <1>1
      <4> QED BY <4>1, <4>2, <4>3, <1>1
    <3>2. b + f.addr[b] <= a \/ a + n <= b
      BY <3>1, <1>1 DEF Unused, Apart
    <3>3. from # a => b + f.addr[b] <= from \/ a <= b
      BY <3>1, <1>1, <1>2, <2>2 DEF FreeOK, FreeDisjoint, Apart, FreeBlocks
    <3>4. end # a + n => b + f.addr[b] <= a + n \/ end <= b
      BY <3>1, <1>1, <1>3, <2>2 DEF FreeOK, FreeDisjoint, Apart, FreeBlocks, gone
    <3> QED BY <3>1, <3>2, <3>3, <3>4, <1>1, <1>4
  <2>3. from \in Nat /\ end \in Nat /\ \A b \in FreeBlocks(k) : b \in Nat /\ k.addr[b] \in Nat
    BY <1>1, <1>4, <1>12 DEF FreeBlocks, FreeType
  <2>4. ASSUME NEW b \in FreeBlocks(k), NEW d \in FreeBlocks(k), b # d
        PROVE  Apart(b, k.addr[b], k.addr, d)
    <3>1. CASE b = from
      BY <3>1, <2>2, <2>4, <2>3, <1>9, <1>11, <1>4 DEF Apart
    <3>2. CASE d = from
      <4>1. b # from /\ k.addr[b] = f.addr[b] /\ k.addr[d] = end - from
        BY <3>2, <2>4, <1>9, <1>11
      <4>2. b + f.addr[b] <= from \/ end <= b
        BY <4>1, <2>2
      <4> QED BY <4>1, <4>2, <3>2, <2>3 DEF Apart
    <3>3. CASE b # from /\ d # from
      BY <3>3, <2>4, <1>11 DEF Apart, FreeOK, FreeDisjoint
    <3> QED BY <3>1, <3>2, <3>3
  <2> QED BY <2>1, <2>4 DEF FreeDisjoint
<1>15. Indexed(k)
  <2>1. f.size \ entries = {<<f.addr[b], b>> : b \in FreeBlocks(f) \ gone}
    BY <1>5 DEF FreeOK, Indexed, entries
  <2>2. \A b \in FreeBlocks(f) \ gone : b # from /\ b \in FreeBlocks(k) /\ k.addr[b] = f.addr[b]
    BY <1>9, <1>10, <1>11
  <2>3. FreeBlocks(k) = (FreeBlocks(f) \ gone) \cup {from} /\ k.addr[from] = end - from
    BY <1>9
  <2>4. {<<k.addr[b], b>> : b \in FreeBlocks(k)}
          = {<<f.addr[b], b>> : b \in FreeBlocks(f) \ gone} \cup {<<end - from, from>>}
    BY <2>2, <2>3
  <2> QED BY <2>1, <2>4, <1>7 DEF Indexed
<1> QED BY <1>0, <1>12, <1>13, <1>14, <1>15 DEF FreeOK

\* Rounding up by an alignment that does not wrap around.
LEMMA AlignUpBounds ==
  ASSUME NEW x \in Nat, NEW al \in Nat \ {0}, x + al <= Word
  PROVE  AlignUp(x, al) \in Nat /\ x <= AlignUp(x, al) /\ AlignUp(x, al) < x + al
<1> DEFINE y == Sum(x, al - 1)
<1>1. y = x + al - 1
  BY SumSmall, HeapAssumption
<1> HIDE DEF y
<1>2. y % al \in 0..(al - 1)
  BY <1>1
<1>3. AlignUp(x, al) = y - (y % al)
  BY DEF AlignUp, y
<1>4. \E d \in 0..(al - 1) : AlignUp(x, al) = (x + al - 1) - d
  BY <1>1, <1>2, <1>3
<1> QED BY <1>4

\* allocate from a free block: the bytes handed out come from that block, no
\* free block keeps any of them, and nothing else becomes free.
LEMMA TakeOne ==
  ASSUME NEW f, NEW mark \in Base..Limit, FreeOK(f, mark), NEW e \in f.size,
         NEW n \in Nat \ {0}, NEW al \in Nat \ {0}, Limit + al <= Word, Fits(e, n, al)
  PROVE  LET k == TakeBlock(f, e, n, al)
             res == AlignUp(e[2], al)
         IN /\ FreeOK(k, mark)
            /\ Unused(k, mark, res, n)
            /\ \A c \in Nat, m \in Nat \ {0} :
                 (\A b \in FreeBlocks(f) : Apart(c, m, f.addr, b))
                 => /\ \A b \in FreeBlocks(k) : Apart(c, m, k.addr, b)
                    /\ c + m <= res \/ res + n <= c
<1> DEFINE a == e[2]
           res == AlignUp(e[2], al)
           padding == Padding(e, al)
           tail == Sum(e[1] - n, -padding)
           f1 == remove_free_block(f, {e})
           f2 == IF padding > 0 THEN add_free_block(f1, e[2], padding) ELSE f1
           k == IF tail >= MinTail THEN add_free_block(f2, Sum(res, n), tail) ELSE f2
<1>0. TakeBlock(f, e, n, al) = k
  BY DEF TakeBlock
<1>1. /\ e[2] \in Addr /\ e[2] \in Nat /\ e[1] \in 1..Size /\ Addr \subseteq Nat
      /\ Size \in Nat /\ Base \in Nat /\ mark \in Nat /\ mark < Word /\ Word \in Nat
      /\ MinTail \in Nat \ {0} /\ mark <= Limit /\ Limit = Base + Size
  <2>1. /\ Addr \subseteq Nat /\ Size \in Nat /\ Base \in Nat /\ mark \in Nat /\ mark < Word
        /\ Word \in Nat /\ MinTail \in Nat \ {0} /\ mark <= Limit /\ Limit = Base + Size
    <3> HIDE DEF res, padding, tail, f1, f2, k
    <3> QED BY HeapAssumption DEF Addr, Limit
  <2>2. f.size \subseteq (1..Size) \X Addr
    BY DEF FreeOK, FreeType
  <2>3. e[2] \in Addr /\ e[1] \in 1..Size
    BY <2>2
  <2> QED BY <2>1, <2>3
<1>2. /\ FreeOK(f1, mark)
      /\ Unused(f1, mark, e[2], e[1])
      /\ e[2] \in FreeBlocks(f) /\ f.addr[e[2]] = e[1]
      /\ FreeBlocks(f1) = FreeBlocks(f) \ {e[2]}
      /\ \A b \in FreeBlocks(f1) : f1.addr[b] = f.addr[b]
  BY RemoveOne
<1>4. e[2] + e[1] <= mark /\ Base <= e[2]
  BY <1>2 DEF Unused
<1>a. res \in Nat /\ e[2] <= res /\ res < e[2] + al
  <2>1. e[2] + al <= Word
    BY <1>1, <1>4, HeapAssumption DEF Limit
  <2> QED BY <1>1, <2>1, AlignUpBounds
<1> HIDE DEF res
<1>p. padding = res - e[2]
  <2>1. res \in Int /\ -e[2] \in Int /\ res + (-e[2]) = res - e[2] /\ res - e[2] \in 0..(Word - 1)
    BY <1>1, <1>4, <1>a, HeapAssumption DEF Limit
  <2>2. padding = Sum(res, -e[2])
    BY DEF Padding, res
  <2> QED BY <2>1, <2>2, SumSmall
<1> HIDE DEF padding
<1>3. res \in Nat /\ e[2] <= res /\ res + n <= e[2] + e[1]
  <2>1. e[1] >= n /\ e[1] >= Sum(n, padding)
    BY DEF Fits, padding
  <2>2. n \in Int /\ padding \in Int /\ n + padding \in 0..(Word - 1)
    BY <1>1, <1>4, <1>a, <1>p, <2>1
  <2>3. Sum(n, padding) = n + padding
    BY <2>2, SumSmall
  <2> QED BY <1>1, <1>a, <1>p, <2>1, <2>3
<1>7. tail \in Int /\ tail = e[2] + e[1] - (res + n)
  <2>1. /\ e[1] - n \in Int /\ -padding \in Int
        /\ (e[1] - n) + (-padding) = e[2] + e[1] - (res + n)
        /\ e[2] + e[1] - (res + n) \in 0..(Word - 1)
    BY <1>1, <1>3, <1>4, <1>p
  <2> QED BY <2>1, SumSmall
<1>t. Sum(res, n) = res + n
  <2>1. res \in Int /\ n \in Int /\ res + n \in 0..(Word - 1)
    BY <1>1, <1>3, <1>4
  <2> QED BY <2>1, SumSmall
<1> HIDE DEF tail
<1>5. res \in Addr /\ n \in 1..Size /\ (tail > 0 => res + n \in Addr /\ tail \in 1..Size)
  BY <1>1, <1>3, <1>4, <1>7 DEF Addr
<1>6. res > e[2] => res - e[2] \in 1..Size
  BY <1>1, <1>3
<1> HIDE DEF f1, f2, k
\* Bytes outside every free block of f and the bytes of e itself.
<1>8. ASSUME NEW c \in Nat, NEW m \in Nat \ {0}, \A b \in FreeBlocks(f) : Apart(c, m, f.addr, b)
      PROVE  (\A b \in FreeBlocks(f1) : Apart(c, m, f1.addr, b)) /\ (c + m <= e[2] \/ e[2] + e[1] <= c)
  BY <1>2, <1>8 DEF Apart
<1>9. ASSUME NEW c \in Nat, NEW m \in Nat \ {0}, e[2] <= c, c + m <= e[2] + e[1]
      PROVE  \A b \in FreeBlocks(f1) : Apart(c, m, f1.addr, b)
  <2>1. \A b \in FreeBlocks(f1) : b \in Nat /\ f1.addr[b] \in Nat
    BY <1>1, <1>2 DEF FreeBlocks, FreeOK, FreeType
  <2>2. \A b \in FreeBlocks(f1) : Apart(e[2], e[1], f1.addr, b)
    BY <1>2 DEF Unused
  <2> QED BY <2>1, <2>2, <1>1, <1>9 DEF Apart
<1>10. /\ FreeOK(f2, mark)
       /\ \A c \in Nat, m \in Nat \ {0} :
            (\A b \in FreeBlocks(f1) : Apart(c, m, f1.addr, b)) /\ (c + m <= e[2] \/ res <= c)
            => \A b \in FreeBlocks(f2) : Apart(c, m, f2.addr, b)
  <2>1. CASE res > e[2]
    <3>1. Unused(f1, mark, e[2], res - e[2])
      <4>1. /\ e[2] \in Nat /\ res - e[2] \in Nat \ {0}
            /\ e[2] + (res - e[2]) <= e[2] + e[1] /\ e[2] + (res - e[2]) <= mark
        BY <2>1, <1>1, <1>3, <1>4
      <4>2. \A b \in FreeBlocks(f1) : Apart(e[2], res - e[2], f1.addr, b)
        BY <4>1, <1>9
      <4> QED BY <2>1, <1>1, <1>4, <1>6, <4>1, <4>2 DEF Unused
    <3>2. f2 = add_free_block(f1, e[2], res - e[2]) /\ e[2] + (res - e[2]) = res
      BY <2>1, <1>1, <1>3, <1>p DEF f2
    <3> QED BY <3>1, <3>2, <1>2, AddOne
  <2>2. CASE ~(res > e[2])
    <3>1. ~(padding > 0)
      BY <2>2, <1>1, <1>3, <1>p
    <3> QED BY <3>1, <1>2 DEF f2
  <2> QED BY <2>1, <2>2
<1>11. /\ FreeOK(k, mark)
       /\ \A c \in Nat, m \in Nat \ {0} :
            (\A b \in FreeBlocks(f2) : Apart(c, m, f2.addr, b)) /\ (c + m <= res + n \/ e[2] + e[1] <= c)
            => \A b \in FreeBlocks(k) : Apart(c, m, k.addr, b)
  <2>1. CASE tail >= MinTail
    <3>1. res + n \in Nat /\ tail \in Nat \ {0} /\ e[2] <= res + n /\ res + n + tail = e[2] + e[1]
      BY <2>1, <1>1, <1>3, <1>7
    <3>2. \A b \in FreeBlocks(f1) : Apart(res + n, tail, f1.addr, b)
      BY <3>1, <1>9, <1>1
    <3>3. \A b \in FreeBlocks(f2) : Apart(res + n, tail, f2.addr, b)
      BY <3>1, <3>2, <1>3, <1>10
    <3>4. Unused(f2, mark, res + n, tail)
      BY <3>1, <3>3, <1>1, <1>3, <1>4, <1>5 DEF Unused
    <3>5. k = add_free_block(f2, res + n, tail)
      BY <2>1, <1>t DEF k
    <3> QED BY <3>1, <3>4, <3>5, <1>10, AddOne
  <2>2. CASE ~(tail >= MinTail)
    BY <2>2, <1>10 DEF k
  <2> QED BY <2>1, <2>2
<1>12. Unused(k, mark, res, n)
  <2>1. \A b \in FreeBlocks(f1) : Apart(res, n, f1.addr, b)
    BY <1>3, <1>9
  <2>2. \A b \in FreeBlocks(f2) : Apart(res, n, f2.addr, b)
    BY <2>1, <1>3, <1>10
  <2>3. \A b \in FreeBlocks(k) : Apart(res, n, k.addr, b)
    BY <2>2, <1>3, <1>11
  <2> QED BY <2>3, <1>1, <1>3, <1>4, <1>5 DEF Unused
<1>13. ASSUME NEW c \in Nat, NEW m \in Nat \ {0}, \A b \in FreeBlocks(f) : Apart(c, m, f.addr, b)
       PROVE  /\ \A b \in FreeBlocks(k) : Apart(c, m, k.addr, b)
              /\ c + m <= res \/ res + n <= c
  <2>1. c + m <= e[2] \/ e[2] + e[1] <= c
    BY <1>8, <1>13
  <2>2. \A b \in FreeBlocks(f1) : Apart(c, m, f1.addr, b)
    BY <1>8, <1>13
  <2>3. \A b \in FreeBlocks(f2) : Apart(c, m, f2.addr, b)
    BY <2>1, <2>2, <1>1, <1>3, <1>10
  <2>4. \A b \in FreeBlocks(k) : Apart(c, m, k.addr, b)
    BY <2>1, <2>3, <1>1, <1>3, <1>11
  <2> QED BY <2>1, <2>4, <1>1, <1>3
<1> QED BY <1>0, <1>11, <1>12, <1>13 DEF res
-----------------------------------------------------------------------------
\* The three maps of a HeapAllocator, as values, satisfy the invariants.
HeapOK(f, al, mark) ==
  /\ mark \in Base..Limit
  /\ FreeOK(f, mark)
  /\ al \in [Addr -> 0..Size]
  /\ LiveDisjoint(al, f, mark)

IInv == HeapOK(free, allocations, high_water_mark)

LEMMA Constants ==
  /\ Addr \subseteq Nat /\ Base \in Nat \ {0} /\ Size \in Nat \ {0} /\ Limit \in Nat
  /\ Word \in Nat /\ Limit < Word /\ Limit = Base + Size /\ Base..Limit \subseteq Addr
  BY HeapAssumption DEF Addr, Limit

\* free returns a live block to the free lists.
LEMMA FreeOne ==
  ASSUME NEW f, NEW al, NEW mark, HeapOK(f, al, mark), NEW a \in Addr, al[a] > 0
  PROVE  HeapOK(add_free_block(f, a, al[a]), [al EXCEPT ![a] = 0], mark)
<1> DEFINE k == add_free_block(f, a, al[a])
           rest == [al EXCEPT ![a] = 0]
<1>1. /\ mark \in Base..Limit /\ FreeOK(f, mark) /\ al \in [Addr -> 0..Size]
      /\ LiveDisjoint(al, f, mark)
  BY DEF HeapOK
<1>2. a \in Live(al) /\ al[a] \in 1..Size
  BY <1>1, Constants DEF Live
<1>3. Unused(f, mark, a, al[a])
  BY <1>1, <1>2 DEF Unused, LiveDisjoint
<1>4. /\ FreeOK(k, mark)
      /\ \A c \in Nat, m \in Nat \ {0} :
           (\A b \in FreeBlocks(f) : Apart(c, m, f.addr, b)) /\ (c + m <= a \/ a + al[a] <= c)
           => \A b \in FreeBlocks(k) : Apart(c, m, k.addr, b)
  BY <1>1, <1>3, AddOne
<1> HIDE DEF k
<1>5. Live(rest) = Live(al) \ {a} /\ \A b \in Live(rest) : rest[b] = al[b]
  BY <1>1 DEF Live
<1>6. rest \in [Addr -> 0..Size]
  BY <1>1, Constants
<1>7. ASSUME NEW b \in Live(rest)
      PROVE  /\ Base <= b /\ b + rest[b] <= mark
             /\ \A c \in Live(rest) : b # c => Apart(b, rest[b], rest, c)
             /\ \A c \in FreeBlocks(k) : Apart(b, rest[b], k.addr, c)
  <2>1. b \in Live(al) /\ b # a /\ rest[b] = al[b] /\ b \in Nat /\ al[b] \in Nat \ {0}
    BY <1>1, <1>5, Constants DEF Live
  <2>2. Apart(b, al[b], al, a) /\ \A c \in FreeBlocks(f) : Apart(b, al[b], f.addr, c)
    BY <1>1, <1>2, <2>1 DEF LiveDisjoint
  <2>3. b + al[b] <= a \/ a + al[a] <= b
    BY <2>2 DEF Apart
  <2>4. \A c \in FreeBlocks(k) : Apart(b, rest[b], k.addr, c)
    BY <1>4, <2>1, <2>2, <2>3
  <2>5. \A c \in Live(rest) : b # c => Apart(b, rest[b], rest, c)
    BY <1>1, <1>5, <2>1 DEF LiveDisjoint, Apart
  <2> QED BY <1>1, <2>1, <2>4, <2>5 DEF LiveDisjoint
<1>8. LiveDisjoint(rest, k, mark)
  BY <1>7 DEF LiveDisjoint
<1> HIDE DEF rest
<1>9. HeapOK(k, rest, mark)
  BY <1>1, <1>4, <1>6, <1>8 DEF HeapOK
<1> QED BY <1>9 DEF k, rest

\* Entering a block of unused bytes, apart from every live block, in
\* allocations_ keeps the maps disjoint.
LEMMA EnterOne ==
  ASSUME NEW f, NEW al, NEW mark \in Base..Limit, FreeOK(f, mark), LiveDisjoint(al, f, mark),
         al \in [Addr -> 0..Size], NEW p, NEW n, Unused(f, mark, p, n),
         \A b \in Live(al) : b + al[b] <= p \/ p + n <= b
  PROVE  HeapOK(f, [al EXCEPT ![p] = n], mark)
<1> DEFINE more == [al EXCEPT ![p] = n]
<1>1. p \in Addr /\ n \in 1..Size /\ Base <= p /\ p + n <= mark /\ p \in Nat /\ n \in Nat \ {0}
  BY Constants DEF Unused
<1>2. p \notin Live(al)
  <2> SUFFICES ASSUME p \in Live(al) PROVE FALSE
    OBVIOUS
  <2>1. al[p] \in Nat \ {0} /\ (p + al[p] <= p \/ p + n <= p)
    BY <1>1, Constants DEF Live
  <2> QED BY <1>1, <2>1
<1>3. Live(more) = Live(al) \cup {p} /\ more[p] = n /\ \A b \in Live(al) : more[b] = al[b]
  BY <1>1, <1>2 DEF Live
<1>4. more \in [Addr -> 0..Size]
  BY <1>1, Constants
<1>5. \A b \in Live(al) : b \in Nat /\ al[b] \in Nat
  BY Constants DEF Live
<1> HIDE DEF more
<1>6. LiveDisjoint(more, f, mark)
  BY <1>1, <1>2, <1>3, <1>5 DEF LiveDisjoint, Apart, Unused
<1> QED BY <1>4, <1>6 DEF HeapOK, more

\* allocate, from the free lists or above the high-water mark, keeps the
\* invariants, and moves no live block.
LEMMA AllocateOne ==
  ASSUME IInv, NoWrap, NEW size \in Sizes, NEW align \in Alignments \cup {DefaultAlign},
         NEW r \in AllocateOutcomes(size, align)
  PROVE  /\ HeapOK(r.free, r.allocations, r.mark)
         /\ \A a \in Live(allocations) : r.allocations[a] = allocations[a]
<1> DEFINE n == IF size = 0 THEN 1 ELSE size
           fits == BestFits(free, n, align)
           top == AlignUp(high_water_mark, align)
           mark == high_water_mark
<1>1. /\ mark \in Base..Limit /\ FreeOK(free, mark) /\ allocations \in [Addr -> 0..Size]
      /\ LiveDisjoint(allocations, free, mark) /\ FreeType(free)
  BY DEF IInv, HeapOK, FreeOK
<1>2. size \in Nat /\ n \in Nat \ {0} /\ align \in Nat \ {0} /\ Limit + align + size < Word
  BY HeapAssumption DEF NoWrap
<1>3. top \in Nat /\ mark <= top /\ top < mark + align
  <2>1. mark \in Nat /\ mark + align <= Word
    BY <1>1, <1>2, Constants
  <2> QED BY <1>2, <2>1, AlignUpBounds
<1>4. Limit + align + n <= Word
  BY <1>2, Constants
<1>5. \A b \in Live(allocations) : b \in Nat /\ allocations[b] \in Nat \ {0}
  BY <1>1, Constants DEF Live
<1>6. CASE fits # {}
  <2>1. PICK e \in fits : r = Outcome(AlignUp(e[2], align), n, TakeBlock(free, e, n, align), mark)
    BY <1>6 DEF AllocateOutcomes
  <2>2. e \in free.size /\ Fits(e, n, align)
    BY DEF BestFits
  <2> DEFINE k == TakeBlock(free, e, n, align)
             p == AlignUp(e[2], align)
  <2>3. /\ FreeOK(k, mark)
        /\ Unused(k, mark, p, n)
        /\ \A c \in Nat, m \in Nat \ {0} :
             (\A b \in FreeBlocks(free) : Apart(c, m, free.addr, b))
             => /\ \A b \in FreeBlocks(k) : Apart(c, m, k.addr, b)
                /\ c + m <= p \/ p + n <= c
    <3>1. Limit + align <= Word
      BY <1>2, Constants
    <3> QED BY <1>1, <1>2, <2>2, <3>1, TakeOne
  <2> HIDE DEF k, p, n
  <2>4. p \in Nat \ {0}
    BY <2>3, Constants DEF Unused
  <2>5. r.free = k /\ r.mark = mark /\ r.allocations = [allocations EXCEPT ![p] = n]
    BY <2>1, <2>4 DEF Outcome, k, p
  <2>6. LiveDisjoint(allocations, k, mark) /\ \A b \in Live(allocations) : b + allocations[b] <= p \/ p + n <= b
    BY <1>1, <1>5, <2>3 DEF LiveDisjoint
  <2>7. HeapOK(k, [allocations EXCEPT ![p] = n], mark)
    BY <1>1, <2>3, <2>6, EnterOne
  <2>8. \A b \in Live(allocations) : b # p
    BY <1>2, <1>5, <2>4, <2>6 DEF n
  <2> QED BY <1>1, <2>5, <2>7, <2>8 DEF Live
<1>7. CASE fits = {} /\ OutOfMemory(top, n)
  BY <1>1, <1>7 DEF AllocateOutcomes, NoMemory, HeapOK
<1>8. CASE fits = {} /\ ~OutOfMemory(top, n)
  <2>1. r = Outcome(top, n, free, Sum(top, n))
    BY <1>8 DEF AllocateOutcomes
  <2> HIDE DEF top, n
  <2>2. top + n \in 0..(Word - 1)
    BY <1>1, <1>2, <1>3, <1>4, Constants
  <2>3. Sum(top, n) = top + n
    BY <1>2, <1>3, <2>2, SumSmall
  <2>4. top + n <= Limit
    BY <1>2, <1>3, <1>8, <2>3, Constants DEF OutOfMemory
  <2>5. top + n \in Base..Limit /\ top \in Addr /\ top \in Nat \ {0} /\ n \in 1..Size
    BY <1>1, <1>2, <1>3, <2>4, Constants DEF Addr
  <2>6. r.free = free /\ r.mark = top + n /\ r.allocations = [allocations EXCEPT ![top] = n]
    BY <2>1, <2>3, <2>5 DEF Outcome
  <2>7. \A b \in FreeBlocks(free) : b \in Nat /\ free.addr[b] \in Nat /\ b + free.addr[b] <= mark
    BY <1>1, Constants DEF FreeBlocks, FreeOK, FreeDisjoint, FreeType
  <2>8. FreeOK(free, top + n)
    <3>1. mark \in Nat /\ mark <= top + n /\ top + n \in Nat
      BY <1>1, <1>2, <1>3, <2>5, Constants
    <3>2. \A b \in FreeBlocks(free) : b + free.addr[b] <= top + n
      BY <2>7, <3>1
    <3> QED BY <1>1, <3>2 DEF FreeOK, FreeDisjoint
  <2>9. Unused(free, top + n, top, n)
    BY <1>1, <1>3, <2>5, <2>7, Constants DEF Unused, Apart
  <2>10. \A b \in Live(allocations) : b + allocations[b] \in Nat /\ b + allocations[b] <= top
    <3>1. mark \in Nat /\ top \in Nat /\ mark <= top
      BY <1>1, <1>3, <2>5, Constants
    <3>2. \A b \in Live(allocations) : b + allocations[b] <= mark
      BY <1>1 DEF LiveDisjoint
    <3>3. \A b \in Live(allocations) : b + allocations[b] \in Nat
      BY <1>5
    <3> QED BY <3>1, <3>2, <3>3
  <2>11. LiveDisjoint(allocations, free, top + n)
    <3>1. top \in Nat /\ n \in Nat
      BY <2>5, Constants
    <3>2. \A b \in Live(allocations) : b + allocations[b] <= top + n
      BY <2>10, <3>1
    <3> QED BY <1>1, <3>2 DEF LiveDisjoint
  <2>12. HeapOK(free, [allocations EXCEPT ![top] = n], top + n)
    BY <1>1, <2>5, <2>8, <2>9, <2>10, <2>11, EnterOne
  <2>13. \A b \in Live(allocations) : b # top
    BY <1>5, <2>5, <2>10
  <2> QED BY <1>1, <2>6, <2>12, <2>13 DEF Live
<1> QED BY <1>6, <1>7, <1>8
-----------------------------------------------------------------------------
LEMMA HeapInit == Init => IInv
<1> SUFFICES ASSUME Init PROVE IInv
  OBVIOUS
<1>1. FreeBlocks(free) = {} /\ Live(allocations) = {}
  BY DEF Init, FreeBlocks, Live
<1>2. FreeType(free) /\ allocations \in [Addr -> 0..Size] /\ high_water_mark \in Base..Limit
  BY Constants DEF Init, FreeType
<1>3. Indexed(free)
  BY <1>1 DEF Indexed, Init
<1> QED BY <1>1, <1>2, <1>3 DEF IInv, HeapOK, FreeOK, FreeDisjoint, LiveDisjoint

LEMMA HeapStep == IInv /\ NoWrap /\ [Next]_heapVars => IInv'
<1> SUFFICES ASSUME IInv, NoWrap, [Next]_heapVars PROVE IInv'
  OBVIOUS
<1>1. allocations \in [Addr -> 0..Size]
  BY DEF IInv, HeapOK
<1>2. ASSUME NEW size \in Sizes, NEW align \in Alignments \cup {DefaultAlign}, Allocate(size, align)
      PROVE  IInv'
  BY <1>2, AllocateOne DEF Allocate, Become, IInv
<1>3. ASSUME NEW a \in Addr \ {0}, Free(a)
      PROVE  IInv'
  <2>1. a \in Addr
    OBVIOUS
  <2>2. CASE allocations[a] > 0
    BY <1>3, <2>1, <2>2, FreeOne DEF Free, IInv
  <2>3. CASE ~(allocations[a] > 0)
    BY <1>3, <2>3 DEF Free, IInv
  <2> QED BY <2>2, <2>3
<1>4. ASSUME NEW a \in Addr \ {0}, NEW size \in Sizes, Realloc(a, size)
      PROVE  IInv'
  <2>1. a \in Addr /\ a \in Live(allocations) /\ allocations[a] > 0
    BY <1>4, Constants DEF Realloc, Live
  <2>2. PICK r \in AllocateOutcomes(size, DefaultAlign) :
          IF r.ptr = 0
          THEN Become(r)
          ELSE /\ free' = add_free_block(r.free, a, allocations[a])
               /\ allocations' = [r.allocations EXCEPT ![a] = 0]
               /\ high_water_mark' = r.mark
    BY <1>4 DEF Realloc
  <2>3. HeapOK(r.free, r.allocations, r.mark) /\ r.allocations[a] = allocations[a]
    BY <2>1, AllocateOne
  <2>4. HeapOK(add_free_block(r.free, a, r.allocations[a]), [r.allocations EXCEPT ![a] = 0], r.mark)
    BY <2>1, <2>3, FreeOne
  <2> QED BY <2>2, <2>3, <2>4 DEF IInv, Become
<1>5. CASE UNCHANGED heapVars
  BY <1>5 DEF heapVars, IInv
<1> QED BY <1>2, <1>3, <1>4, <1>5 DEF Next

\* Whatever the sizes, alignments and order of the calls to allocate, free and
\* realloc, the heap's maps stay well-typed and disjoint and its two free
\* lists agree.  The assumption NoWrap on the requests is necessary: allocate
\* computes the end of a block modulo Word and takes an alignment of 0.
THEOREM HeapInvariant ==
  ASSUME NoWrap
  PROVE  Spec => []IInv
<1>1. IInv /\ [Next]_heapVars => IInv'
  BY HeapStep
<1> QED BY <1>1, HeapInit, PTL DEF Spec

\* allocate never returns a block past the end of the heap, and no entry of a
\* free list is longer than the heap.
THEOREM HeapTypes ==
  ASSUME NoWrap
  PROVE  Spec => []TypeOK
<1>1. IInv => TypeOK
  BY DEF IInv, HeapOK, FreeOK, TypeOK
<1> QED BY <1>1, HeapInvariant, PTL

\* No byte of the guest heap is ever in two live allocations, in two free
\* blocks, or both live and free.
THEOREM HeapDisjoint ==
  ASSUME NoWrap
  PROVE  Spec => []Disjoint
<1>1. IInv => Disjoint
  BY DEF IInv, HeapOK, FreeOK, Disjoint
<1> QED BY <1>1, HeapInvariant, PTL

\* The size index lists exactly the blocks of the address index.
THEOREM HeapIndicesAgree ==
  ASSUME NoWrap
  PROVE  Spec => []IndicesAgree
<1>1. IInv => IndicesAgree
  BY DEF IInv, HeapOK, FreeOK, IndicesAgree
<1> QED BY <1>1, HeapInvariant, PTL
=============================================================================
