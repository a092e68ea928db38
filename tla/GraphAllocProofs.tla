--------------------------- MODULE GraphAllocProofs ---------------------------
(***************************************************************************)
(* What holds for every chunk size, every graph and every sequence of      *)
(* graphs: the list of free blocks is exact, tensors that are in use at    *)
(* one time share no memory, a node finds what it reads, and outputs are   *)
(* there at the end.                                                       *)
(*                                                                         *)
(* A list of free blocks is looked at as the set of its bytes: taking from *)
(* a block removes bytes from it and a release adds them, and both leave   *)
(* the list sorted and its blocks apart (AllocInvariant).                  *)
(*                                                                         *)
(* While a graph is planned (PlaceInv) a tensor's counters are the reads   *)
(* and views that are still to come, a tensor that is still needed is in   *)
(* use, and those in use share no memory.  So whatever is placed later     *)
(* leaves the places of what is needed alone, which is what the            *)
(* computation relies on (ComputeInv, GraphInv).                           *)
(***************************************************************************)
EXTENDS GraphAlloc, TensorAlloc, FiniteSetTheorems, SequenceTheorems,
        WellFoundedInduction, TLAPS

\* Byte x is in a block of the list; it is in this block.
In(free, x) == \E i \in 1 .. Len(free) : free[i].offset <= x /\ x < End(free[i])
Within(b, x) == b.offset <= x /\ x < End(b)

(***************************************************************************)
(* Least and largest members.                                              *)
(***************************************************************************)

\* A set of natural numbers has a least member.
LEMMA LeastNat ==
  ASSUME NEW S, S \subseteq Nat, S # {}
  PROVE  \E m \in S : \A k \in S : m <= k
  <1> DEFINE R == OpToRel(<, Nat)
  <1>1. IsWellFoundedOn(R, Nat) BY NatLessThanWellFounded, Zenon
  <1>2. \A k, m \in Nat : k < m => <<k, m>> \in R BY Zenon DEF OpToRel
  <1> HIDE DEF R
  <1>3. PICK m \in S : \A k \in S : ~ (<<k, m>> \in R) BY <1>1, WFMin
  <1>4. \A k \in S : ~ (k < m) BY <1>2, <1>3
  <1> QED BY <1>4

\* First and Last choose a member of a set of indices.
LEMMA FirstLast ==
  ASSUME NEW n \in Nat, NEW S, S \subseteq 1 .. n, S # {}
  PROVE  /\ First(S) \in S /\ \A j \in S : First(S) <= j
         /\ Last(S) \in S /\ \A j \in S : j <= Last(S)
  <1>1. \E i \in S : \A j \in S : i <= j
    <2>1. S \subseteq Nat OBVIOUS
    <2> QED BY <2>1, LeastNat
  <1>2. \E i \in S : \A j \in S : j <= i
    <2> DEFINE T == {n - i : i \in S}
    <2>1. T \subseteq Nat
      <3>1. \A i \in S : n - i \in Nat OBVIOUS
      <3> QED BY <3>1
    <2>2. T # {} OBVIOUS
    <2>3. PICK m \in T : \A k \in T : m <= k BY <2>1, <2>2, LeastNat
    <2>4. PICK i \in S : m = n - i BY <2>3
    <2>5. \A j \in S : n - i <= n - j BY <2>3, <2>4
    <2>6. \A j \in S : j <= i BY <2>5
    <2> QED BY <2>6
  <1> QED BY <1>1, <1>2 DEF First, Last

(***************************************************************************)
(* The list of free blocks of a chunk.                                     *)
(***************************************************************************)

\* A member of a list is a block.
LEMMA BlockAt ==
  ASSUME NEW free \in Seq(Block), NEW j \in 1 .. Len(free)
  PROVE  free[j] \in Block /\ free[j].offset \in Nat /\ free[j].size \in Nat
  <1>1. free[j] \in Block BY ElementOfSeq
  <1> QED BY <1>1 DEF Block

\* A block with another size.
LEMMA ResizeBlock ==
  ASSUME NEW free \in Seq(Block), NEW i \in 1 .. Len(free), NEW n
  PROVE  [free[i] EXCEPT !.size = n] = [offset |-> free[i].offset, size |-> n]
  <1>1. PICK b \in Block : free[i] = b BY BlockAt
  <1> QED BY <1>1 DEF Block

\* What remove_block returns.
LEMMA RemoveBlockSeq ==
  ASSUME NEW free \in Seq(Block), NEW i \in 1 .. Len(free)
  PROVE  /\ RemoveBlock(free, i) \in Seq(Block)
         /\ Len(RemoveBlock(free, i)) = Len(free) - 1
         /\ \A j \in 1 .. Len(free) - 1 :
              RemoveBlock(free, i)[j] = IF j < i THEN free[j] ELSE free[j + 1]
  <1>1. Len(free) - 1 \in Nat OBVIOUS
  <1>2. \A j \in 1 .. Len(free) - 1 : (IF j < i THEN free[j] ELSE free[j + 1]) \in Block
    BY ElementOfSeq
  <1> QED BY <1>1, <1>2, IsASeq DEF RemoveBlock

\* What insert_block returns.
LEMMA InsertBlockSeq ==
  ASSUME NEW free \in Seq(Block), NEW b \in Block
  PROVE  \E pos \in 1 .. Len(free) + 1 :
           /\ InsertBlock(free, b) \in Seq(Block)
           /\ Len(InsertBlock(free, b)) = Len(free) + 1
           /\ \A j \in 1 .. Len(free) + 1 :
                InsertBlock(free, b)[j] =
                  IF j < pos THEN free[j] ELSE IF j = pos THEN b ELSE free[j - 1]
           /\ \A j \in 1 .. Len(free) : j < pos => free[j].offset < b.offset
           /\ pos <= Len(free) => free[pos].offset >= b.offset
  <1> DEFINE n == Len(free)
             S == {i \in 1 .. n : free[i].offset >= b.offset} \cup {n + 1}
             pos == First(S)
  <1>1. n \in Nat /\ n + 1 \in Nat OBVIOUS
  <1>2. S \subseteq 1 .. n + 1 /\ S # {} BY <1>1
  <1>3. pos \in S /\ \A j \in S : pos <= j
    <2> HIDE DEF S
    <2> QED BY <1>1, <1>2, FirstLast
  <1>4. pos \in 1 .. n + 1 BY <1>2, <1>3
  <1>5. \A j \in 1 .. n + 1 :
          (IF j < pos THEN free[j] ELSE IF j = pos THEN b ELSE free[j - 1]) \in Block
    <2> HIDE DEF pos
    <2> QED BY <1>4, ElementOfSeq
  <1>6. InsertBlock(free, b) =
          [j \in 1 .. n + 1 |-> IF j < pos THEN free[j] ELSE IF j = pos THEN b ELSE free[j - 1]]
    BY DEF InsertBlock
  <1>7. \A j \in 1 .. n : j < pos => free[j].offset < b.offset
    <2>1. \A j \in 1 .. n : free[j].offset \in Nat BY BlockAt
    <2>2. b.offset \in Nat BY DEF Block
    <2>3. \A j \in 1 .. n : free[j].offset >= b.offset => pos <= j BY <1>3
    <2> HIDE DEF pos, S
    <2> QED BY <1>4, <2>1, <2>2, <2>3
  <1>8. pos <= n => free[pos].offset >= b.offset BY <1>1, <1>3
  <1> HIDE DEF pos, S
  <1>9. InsertBlock(free, b) \in Seq(Block) /\ Len(InsertBlock(free, b)) = n + 1
    BY <1>1, <1>5, <1>6, IsASeq
  <1> QED BY <1>4, <1>6, <1>7, <1>8, <1>9

\* The list with block i replaced by one that meets no other block.
LEMMA ReplaceOK ==
  ASSUME NEW free \in Seq(Block), Sorted(free), NEW i \in 1 .. Len(free),
         NEW m \in Block, m.size > 0,
         \A j \in 1 .. Len(free) : j < i => End(free[j]) < m.offset,
         \A j \in 1 .. Len(free) : i < j => End(m) < free[j].offset
  PROVE  LET r == [free EXCEPT ![i] = m]
         IN /\ r \in Seq(Block) /\ Sorted(r)
            /\ \A x \in Nat : In(r, x) <=>
                 Within(m, x) \/ \E j \in 1 .. Len(free) : j # i /\ Within(free[j], x)
  <1> DEFINE r == [free EXCEPT ![i] = m]
  <1>1. r \in Seq(Block) /\ Len(r) = Len(free) /\ r[i] = m
        /\ \A j \in 1 .. Len(free) : j # i => r[j] = free[j]
    OBVIOUS
  <1> HIDE DEF r
  <1>2. Sorted(r) BY <1>1 DEF Sorted
  <1>3. ASSUME NEW x \in Nat
        PROVE  In(r, x) <=> Within(m, x) \/ \E j \in 1 .. Len(free) : j # i /\ Within(free[j], x)
    <2>1. In(r, x) <=> \E j \in 1 .. Len(free) : Within(r[j], x) BY <1>1 DEF In, Within
    <2> QED BY <1>1, <2>1, Zenon
  <1> QED BY <1>1, <1>2, <1>3 DEF r

\* Cutting k off the beginning of a stretch of b.
LEMMA Cut ==
  ASSUME NEW a \in Nat, NEW b \in Nat, NEW k \in Nat, k < b
  PROVE  a + k \in Nat /\ b - k \in Nat /\ b - k > 0 /\ (a + k) + (b - k) = a + b
  OBVIOUS

\* Taking the beginning of a block removes its bytes and leaves the list sorted.
LEMMA TakeFromOK ==
  ASSUME NEW free \in Seq(Block), Sorted(free), NEW i \in 1 .. Len(free),
         NEW n \in Nat \ {0}, n <= free[i].size
  PROVE  /\ TakeFrom(free, i, n) \in Seq(Block) /\ Sorted(TakeFrom(free, i, n))
         /\ \A x \in Nat : In(TakeFrom(free, i, n), x) <=>
                             In(free, x) /\ ~(free[i].offset <= x /\ x < free[i].offset + n)
  <1> DEFINE r == TakeFrom(free, i, n)
  <1>0. \A j \in 1 .. Len(free) : free[j] \in Block /\ free[j].offset \in Nat /\ free[j].size \in Nat
    BY BlockAt
  <1>1. CASE free[i].size = n
    <2>1. r = RemoveBlock(free, i) BY <1>1 DEF TakeFrom
    <2>2. /\ r \in Seq(Block) /\ Len(r) = Len(free) - 1
          /\ \A j \in 1 .. Len(free) - 1 : r[j] = IF j < i THEN free[j] ELSE free[j + 1]
      BY <2>1, RemoveBlockSeq
    <2> HIDE DEF r
    <2>3. Sorted(r)
      <3>1. ASSUME NEW j \in 1 .. Len(r) PROVE r[j].size > 0
        <4>1. PICK j1 \in 1 .. Len(free) : r[j] = free[j1] BY <2>2
        <4> QED BY <4>1 DEF Sorted
      <3>2. ASSUME NEW j \in 1 .. Len(r), NEW k \in 1 .. Len(r), j < k
            PROVE  End(r[j]) < r[k].offset
        <4>1. PICK j1 \in 1 .. Len(free) : r[j] = free[j1] /\ j1 = IF j < i THEN j ELSE j + 1
          BY <2>2
        <4>2. PICK k1 \in 1 .. Len(free) : r[k] = free[k1] /\ k1 = IF k < i THEN k ELSE k + 1
          BY <2>2
        <4>3. j1 < k1 BY <3>2, <4>1, <4>2
        <4> QED BY <4>1, <4>2, <4>3 DEF Sorted
      <3> QED BY <3>1, <3>2 DEF Sorted
    <2>4. ASSUME NEW x \in Nat
          PROVE  In(r, x) <=> In(free, x) /\ ~(free[i].offset <= x /\ x < free[i].offset + n)
      <3>1. ASSUME In(r, x) PROVE In(free, x) /\ ~(free[i].offset <= x /\ x < free[i].offset + n)
        <4>1. PICK j \in 1 .. Len(r) : r[j].offset <= x /\ x < End(r[j]) BY <3>1 DEF In
        <4>2. CASE j < i
          <5>1. r[j] = free[j] /\ j \in 1 .. Len(free) BY <2>2, <4>2
          <5>2. End(free[j]) < free[i].offset BY <4>2, <5>1 DEF Sorted
          <5>3. End(free[j]) \in Nat BY <1>0, <5>1 DEF End
          <5> QED BY <1>0, <4>1, <5>1, <5>2, <5>3 DEF In
        <4>3. CASE j >= i
          <5>1. r[j] = free[j + 1] /\ j + 1 \in 1 .. Len(free) BY <2>2, <4>3
          <5>2. End(free[i]) < free[j + 1].offset BY <4>3, <5>1 DEF Sorted
          <5>3. free[i].offset + n < free[j + 1].offset BY <1>1, <5>2 DEF End
          <5> QED BY <1>0, <4>1, <5>1, <5>3 DEF In
        <4> QED BY <2>2, <4>2, <4>3
      <3>2. ASSUME In(free, x), ~(free[i].offset <= x /\ x < free[i].offset + n) PROVE In(r, x)
        <4>1. PICK j \in 1 .. Len(free) : free[j].offset <= x /\ x < End(free[j]) BY <3>2 DEF In
        <4>2. j # i BY <1>0, <1>1, <3>2, <4>1 DEF End
        <4>3. CASE j < i BY <2>2, <4>1, <4>3 DEF In
        <4>4. CASE j > i
          <5>1. j - 1 \in 1 .. Len(r) /\ r[j - 1] = free[j] BY <2>2, <4>4
          <5> QED BY <4>1, <5>1 DEF In
        <4> QED BY <4>2, <4>3, <4>4
      <3> QED BY <3>1, <3>2
    <2> QED BY <2>2, <2>3, <2>4 DEF r
  <1>2. CASE free[i].size # n
    <2> DEFINE new == [offset |-> free[i].offset + n, size |-> free[i].size - n]
    <2>1. r = [free EXCEPT ![i] = new] BY <1>2 DEF TakeFrom
    <2>2. free[i].offset \in Nat /\ free[i].size \in Nat /\ n < free[i].size BY <1>0, <1>2
    <2>3. new \in Block /\ new.size > 0 /\ new.offset = free[i].offset + n /\ End(new) = End(free[i])
      <3>1. /\ free[i].offset + n \in Nat /\ free[i].size - n \in Nat /\ free[i].size - n > 0
            /\ (free[i].offset + n) + (free[i].size - n) = free[i].offset + free[i].size
        <4> DEFINE o == free[i].offset
                   z == free[i].size
        <4>1. o \in Nat /\ z \in Nat /\ n \in Nat /\ n < z BY <2>2
        <4> HIDE DEF o, z
        <4>2. o + n \in Nat /\ z - n \in Nat /\ z - n > 0 /\ (o + n) + (z - n) = o + z
          BY <4>1, Cut
        <4> QED BY <4>2 DEF o, z
      <3>2. new \in Block /\ new.offset = free[i].offset + n /\ new.size = free[i].size - n
        BY <3>1 DEF Block
      <3> HIDE DEF new
      <3> QED BY <3>1, <3>2 DEF End
    <2> HIDE DEF r, new
    <2>4. ASSUME NEW j \in 1 .. Len(free), j < i PROVE End(free[j]) < new.offset
      <3>1. End(free[j]) < free[i].offset BY <2>4 DEF Sorted
      <3>2. End(free[j]) \in Nat BY <1>0 DEF End
      <3> QED BY <2>2, <2>3, <3>1, <3>2
    <2>5. ASSUME NEW j \in 1 .. Len(free), i < j PROVE End(new) < free[j].offset
      BY <2>3, <2>5 DEF Sorted
    <2>6. /\ r \in Seq(Block) /\ Sorted(r)
          /\ \A x \in Nat : In(r, x) <=>
               Within(new, x) \/ \E j \in 1 .. Len(free) : j # i /\ Within(free[j], x)
      BY <2>1, <2>3, <2>4, <2>5, ReplaceOK
    <2>7. ASSUME NEW x \in Nat
          PROVE  In(r, x) <=> In(free, x) /\ ~(free[i].offset <= x /\ x < free[i].offset + n)
      <3>1. In(free, x) <=> \E j \in 1 .. Len(free) : Within(free[j], x) BY DEF In, Within
      <3>2. Within(new, x) <=>
              Within(free[i], x) /\ ~(free[i].offset <= x /\ x < free[i].offset + n)
        BY <2>2, <2>3 DEF Within
      <3>3. ASSUME NEW j \in 1 .. Len(free), j # i, Within(free[j], x)
            PROVE  ~(free[i].offset <= x /\ x < free[i].offset + n)
        <4>1. free[j].offset <= x /\ x < End(free[j]) BY <3>3 DEF Within
        <4>2. End(free[j]) \in Nat /\ free[j].offset \in Nat BY <1>0 DEF End
        <4>3. End(free[i]) \in Nat /\ free[i].offset + n < End(free[i]) BY <2>2 DEF End
        <4>4. End(free[j]) < free[i].offset \/ End(free[i]) < free[j].offset
          BY <3>3 DEF Sorted
        <4> QED BY <2>2, <4>1, <4>2, <4>3, <4>4
      <3> QED BY <2>6, <3>1, <3>2, <3>3
    <2> QED BY <2>6, <2>7 DEF r
  <1> QED BY <1>1, <1>2

\* The list with blocks i and i + 1 replaced by one that meets no other block.
LEMMA MergeOK ==
  ASSUME NEW free \in Seq(Block), Sorted(free), NEW i \in 1 .. Len(free) - 1,
         NEW m \in Block, m.size > 0,
         \A j \in 1 .. Len(free) : j < i => End(free[j]) < m.offset,
         \A j \in 1 .. Len(free) : i + 1 < j => End(m) < free[j].offset
  PROVE  LET r == RemoveBlock([free EXCEPT ![i] = m], i + 1)
         IN /\ r \in Seq(Block) /\ Sorted(r)
            /\ \A x \in Nat : In(r, x) <=>
                 Within(m, x) \/ \E j \in 1 .. Len(free) : j # i /\ j # i + 1 /\ Within(free[j], x)
  <1> DEFINE f == [free EXCEPT ![i] = m]
             r == RemoveBlock(f, i + 1)
  <1>1. f \in Seq(Block) /\ Len(f) = Len(free) /\ f[i] = m
        /\ \A j \in 1 .. Len(free) : j # i => f[j] = free[j]
    OBVIOUS
  <1> HIDE DEF f
  <1>2. i + 1 \in 1 .. Len(f) BY <1>1
  <1>3. /\ r \in Seq(Block) /\ Len(r) = Len(free) - 1
        /\ \A j \in 1 .. Len(free) - 1 : r[j] = IF j < i + 1 THEN f[j] ELSE f[j + 1]
    BY <1>1, <1>2, RemoveBlockSeq
  <1> HIDE DEF r
  <1>4. /\ r[i] = m
        /\ \A j \in 1 .. Len(r) : j < i => r[j] = free[j] /\ j \in 1 .. Len(free)
        /\ \A j \in 1 .. Len(r) : j > i => r[j] = free[j + 1] /\ j + 1 \in 1 .. Len(free)
    BY <1>1, <1>3
  <1>5. Sorted(r)
    <2>1. ASSUME NEW j \in 1 .. Len(r) PROVE r[j].size > 0
      <3>1. CASE j = i BY <1>4, <3>1
      <3>2. CASE j < i BY <1>4, <3>2 DEF Sorted
      <3>3. CASE j > i BY <1>4, <3>3 DEF Sorted
      <3> QED BY <3>1, <3>2, <3>3
    <2>2. ASSUME NEW j \in 1 .. Len(r), NEW k \in 1 .. Len(r), j < k
          PROVE  End(r[j]) < r[k].offset
      <3>1. CASE k < i
        <4>1. r[j] = free[j] /\ r[k] = free[k] /\ j \in 1 .. Len(free) /\ k \in 1 .. Len(free)
          BY <1>4, <2>2, <3>1
        <4> QED BY <2>2, <4>1 DEF Sorted
      <3>2. CASE k = i
        <4>1. r[j] = free[j] /\ r[k] = m /\ j \in 1 .. Len(free) BY <1>4, <2>2, <3>2
        <4> QED BY <2>2, <3>2, <4>1
      <3>3. CASE k > i /\ j < i
        <4>1. r[j] = free[j] /\ r[k] = free[k + 1] /\ j \in 1 .. Len(free) /\ k + 1 \in 1 .. Len(free)
          BY <1>4, <3>3
        <4> QED BY <2>2, <4>1 DEF Sorted
      <3>4. CASE k > i /\ j = i
        <4>1. r[j] = m /\ r[k] = free[k + 1] /\ k + 1 \in 1 .. Len(free) BY <1>4, <3>4
        <4> QED BY <3>4, <4>1
      <3>5. CASE k > i /\ j > i
        <4>1. r[j] = free[j + 1] /\ r[k] = free[k + 1] /\ j + 1 \in 1 .. Len(free)
              /\ k + 1 \in 1 .. Len(free)
          BY <1>4, <3>5
        <4> QED BY <2>2, <4>1 DEF Sorted
      <3> QED BY <3>1, <3>2, <3>3, <3>4, <3>5
    <2> QED BY <2>1, <2>2 DEF Sorted
  <1>6. ASSUME NEW x \in Nat
        PROVE  In(r, x) <=> \/ Within(m, x)
                            \/ \E j \in 1 .. Len(free) : j # i /\ j # i + 1 /\ Within(free[j], x)
    <2>1. In(r, x) <=> \E j \in 1 .. Len(r) : Within(r[j], x) BY DEF In, Within
    <2>2. ASSUME NEW j \in 1 .. Len(r), Within(r[j], x)
          PROVE  \/ Within(m, x)
                 \/ \E k \in 1 .. Len(free) : k # i /\ k # i + 1 /\ Within(free[k], x)
      <3>1. CASE j < i
        <4>1. r[j] = free[j] /\ j \in 1 .. Len(free) /\ j # i /\ j # i + 1 BY <1>4, <3>1
        <4> QED BY <2>2, <4>1
      <3>2. CASE j = i BY <1>4, <2>2, <3>2
      <3>3. CASE j > i BY <1>4, <2>2, <3>3
      <3> QED BY <3>1, <3>2, <3>3
    <2>3. Within(m, x) => \E j \in 1 .. Len(r) : Within(r[j], x)
      <3>1. i \in 1 .. Len(r) BY <1>3
      <3> QED BY <1>4, <3>1
    <2>4. ASSUME NEW k \in 1 .. Len(free), k # i, k # i + 1, Within(free[k], x)
          PROVE  \E j \in 1 .. Len(r) : Within(r[j], x)
      <3>1. CASE k < i
        <4>1. k \in 1 .. Len(r) /\ r[k] = free[k] BY <1>3, <1>4, <3>1
        <4> QED BY <2>4, <4>1
      <3>2. CASE k > i + 1
        <4>1. k - 1 \in 1 .. Len(r) /\ k - 1 > i BY <1>3, <3>2
        <4>2. r[k - 1] = free[k] BY <1>4, <4>1
        <4> QED BY <2>4, <4>1, <4>2
      <3> QED BY <2>4, <3>1, <3>2
    <2> QED BY <2>1, <2>2, <2>3, <2>4
  <1> QED BY <1>3, <1>5, <1>6 DEF r, f

\* The list with a block added that meets no other.
LEMMA InsertOK ==
  ASSUME NEW free \in Seq(Block), Sorted(free), NEW b \in Block, b.size > 0,
         \A j \in 1 .. Len(free) : End(free[j]) < b.offset \/ End(b) < free[j].offset
  PROVE  LET r == InsertBlock(free, b)
         IN /\ r \in Seq(Block) /\ Sorted(r)
            /\ \A x \in Nat : In(r, x) <=> In(free, x) \/ Within(b, x)
  <1> DEFINE r == InsertBlock(free, b)
  <1>0. /\ \A j \in 1 .. Len(free) : free[j].offset \in Nat /\ free[j].size \in Nat
        /\ b.offset \in Nat /\ b.size \in Nat
    BY BlockAt DEF Block
  <1>1. PICK pos \in 1 .. Len(free) + 1 :
          /\ r \in Seq(Block)
          /\ Len(r) = Len(free) + 1
          /\ \A j \in 1 .. Len(free) + 1 :
               r[j] = IF j < pos THEN free[j] ELSE IF j = pos THEN b ELSE free[j - 1]
          /\ \A j \in 1 .. Len(free) : j < pos => free[j].offset < b.offset
          /\ pos <= Len(free) => free[pos].offset >= b.offset
    BY InsertBlockSeq
  <1> HIDE DEF r
  <1>2. ASSUME NEW j \in 1 .. Len(free), j < pos PROVE End(free[j]) < b.offset
    BY <1>0, <1>1, <1>2 DEF End
  <1>3. ASSUME NEW j \in 1 .. Len(free), j >= pos PROVE End(b) < free[j].offset
    <2>1. free[pos].offset >= b.offset /\ pos \in 1 .. Len(free) BY <1>1, <1>3
    <2>2. free[j].offset >= free[pos].offset
      <3>1. CASE j = pos BY <1>0, <3>1
      <3>2. CASE j > pos
        <4>1. End(free[pos]) < free[j].offset BY <2>1, <3>2 DEF Sorted
        <4> QED BY <1>0, <2>1, <4>1 DEF End
      <3> QED BY <1>3, <3>1, <3>2
    <2>3. ~(End(free[j]) < b.offset) BY <1>0, <2>1, <2>2 DEF End
    <2> QED BY <2>3
  <1>4. /\ r[pos] = b /\ pos \in 1 .. Len(r)
        /\ \A j \in 1 .. Len(r) : j < pos => r[j] = free[j] /\ j \in 1 .. Len(free)
        /\ \A j \in 1 .. Len(r) : j > pos => r[j] = free[j - 1] /\ j - 1 \in 1 .. Len(free)
    BY <1>1
  <1>5. Sorted(r)
    <2>1. ASSUME NEW j \in 1 .. Len(r) PROVE r[j].size > 0
      <3>1. CASE j = pos BY <1>4, <3>1
      <3>2. CASE j < pos BY <1>4, <3>2 DEF Sorted
      <3>3. CASE j > pos BY <1>4, <3>3 DEF Sorted
      <3> QED BY <3>1, <3>2, <3>3
    <2>2. ASSUME NEW j \in 1 .. Len(r), NEW k \in 1 .. Len(r), j < k
          PROVE  End(r[j]) < r[k].offset
      <3>1. CASE k < pos
        <4>1. r[j] = free[j] /\ r[k] = free[k] /\ j \in 1 .. Len(free) /\ k \in 1 .. Len(free)
          BY <1>4, <2>2, <3>1
        <4> QED BY <2>2, <4>1 DEF Sorted
      <3>2. CASE k = pos
        <4>1. r[j] = free[j] /\ r[k] = b /\ j \in 1 .. Len(free) BY <1>4, <2>2, <3>2
        <4> QED BY <1>2, <2>2, <3>2, <4>1
      <3>3. CASE k > pos /\ j < pos
        <4>1. r[j] = free[j] /\ r[k] = free[k - 1] /\ j \in 1 .. Len(free) /\ k - 1 \in 1 .. Len(free)
          BY <1>4, <3>3
        <4>2. j < k - 1 BY <3>3
        <4> QED BY <4>1, <4>2 DEF Sorted
      <3>4. CASE k > pos /\ j = pos
        <4>1. r[j] = b /\ r[k] = free[k - 1] /\ k - 1 \in 1 .. Len(free) BY <1>4, <3>4
        <4>2. k - 1 >= pos BY <3>4
        <4> QED BY <1>3, <4>1, <4>2
      <3>5. CASE k > pos /\ j > pos
        <4>1. r[j] = free[j - 1] /\ r[k] = free[k - 1] /\ j - 1 \in 1 .. Len(free)
              /\ k - 1 \in 1 .. Len(free)
          BY <1>4, <3>5
        <4> QED BY <2>2, <4>1 DEF Sorted
      <3> QED BY <3>1, <3>2, <3>3, <3>4, <3>5
    <2> QED BY <2>1, <2>2 DEF Sorted
  <1>6. ASSUME NEW x \in Nat PROVE In(r, x) <=> In(free, x) \/ Within(b, x)
    <2>1. /\ In(r, x) <=> \E j \in 1 .. Len(r) : Within(r[j], x)
          /\ In(free, x) <=> \E j \in 1 .. Len(free) : Within(free[j], x)
      BY DEF In, Within
    <2>2. ASSUME NEW j \in 1 .. Len(r), Within(r[j], x)
          PROVE  Within(b, x) \/ \E k \in 1 .. Len(free) : Within(free[k], x)
      <3>1. CASE j < pos BY <1>4, <2>2, <3>1
      <3>2. CASE j = pos BY <1>4, <2>2, <3>2
      <3>3. CASE j > pos BY <1>4, <2>2, <3>3
      <3> QED BY <3>1, <3>2, <3>3
    <2>3. Within(b, x) => \E j \in 1 .. Len(r) : Within(r[j], x) BY <1>4
    <2>4. ASSUME NEW k \in 1 .. Len(free), Within(free[k], x)
          PROVE  \E j \in 1 .. Len(r) : Within(r[j], x)
      <3>1. CASE k < pos
        <4>1. k \in 1 .. Len(r) /\ r[k] = free[k] BY <1>1, <1>4, <3>1
        <4> QED BY <2>4, <4>1
      <3>2. CASE k >= pos
        <4>1. k + 1 \in 1 .. Len(r) /\ k + 1 > pos BY <1>1, <3>2
        <4>2. r[k + 1] = free[k] BY <1>4, <4>1
        <4> QED BY <2>4, <4>1, <4>2
      <3> QED BY <3>1, <3>2
    <2> QED BY <2>1, <2>2, <2>3, <2>4
  <1> QED BY <1>1, <1>5, <1>6 DEF r

\* A release adds the bytes of the block and leaves the list sorted.
LEMMA ReleaseOK ==
  ASSUME NEW free \in Seq(Block), Sorted(free), NEW b \in Block, b.size > 0,
         \A j \in 1 .. Len(free) : End(free[j]) <= b.offset \/ End(b) <= free[j].offset
  PROVE  /\ Release(free, b) \in Seq(Block) /\ Sorted(Release(free, b))
         /\ \A x \in Nat : In(Release(free, b), x) <=> In(free, x) \/ Within(b, x)
  <1>0. /\ \A j \in 1 .. Len(free) : /\ free[j] \in Block /\ free[j].offset \in Nat
                                     /\ free[j].size \in Nat /\ free[j].size > 0
                                     /\ End(free[j]) \in Nat /\ free[j].offset < End(free[j])
        /\ b.offset \in Nat /\ b.size \in Nat /\ End(b) \in Nat /\ b.offset < End(b)
    BY BlockAt DEF Block, Sorted, End
  <1>1. \A x \in Nat : In(free, x) <=> \E j \in 1 .. Len(free) : Within(free[j], x)
    BY DEF In, Within
  <1>2. CASE Touches(free, b) = {}
    <2>1. ASSUME NEW j \in 1 .. Len(free)
          PROVE  End(free[j]) < b.offset \/ End(b) < free[j].offset
      <3>1. End(free[j]) # b.offset /\ End(b) # free[j].offset BY <1>2 DEF Touches
      <3>2. End(free[j]) <= b.offset \/ End(b) <= free[j].offset OBVIOUS
      <3> QED BY <1>0, <3>1, <3>2
    <2>2. Release(free, b) = InsertBlock(free, b) BY <1>2 DEF Release
    <2> QED BY <2>1, <2>2, InsertOK
  <1>3. CASE Touches(free, b) # {}
    <2> DEFINE i == First(Touches(free, b))
    <2>1. i \in Touches(free, b) /\ \A j \in Touches(free, b) : i <= j
      <3>1. Touches(free, b) \subseteq 1 .. Len(free) /\ Len(free) \in Nat BY DEF Touches
      <3> HIDE DEF i
      <3> QED BY <1>3, <3>1, FirstLast DEF i
    <2>2. i \in 1 .. Len(free) /\ (End(free[i]) = b.offset \/ End(b) = free[i].offset)
          /\ \A j \in 1 .. Len(free) : j < i => End(free[j]) # b.offset /\ End(b) # free[j].offset
      <3> HIDE DEF i
      <3> QED BY <2>1 DEF Touches
    <2>3. Release(free, b) = Join(free, i, b) BY <1>3 DEF Release
    <2> HIDE DEF i
    <2>4. /\ \A j \in 1 .. Len(free) : j < i => End(free[j]) < free[i].offset
          /\ \A j \in 1 .. Len(free) : i < j => End(free[i]) < free[j].offset
      BY <2>2 DEF Sorted
    <2>5. CASE End(free[i]) = b.offset
      <3>1. Join(free, i, b) = JoinBefore(free, i, b.size) BY <2>5 DEF Join
      <3>2. ASSUME NEW j \in 1 .. Len(free), i < j PROVE End(b) <= free[j].offset
        <4>1. b.offset < free[j].offset /\ free[j].offset < End(free[j]) BY <1>0, <2>4, <2>5, <3>2
        <4>2. End(free[j]) <= b.offset \/ End(b) <= free[j].offset OBVIOUS
        <4> QED BY <1>0, <4>1, <4>2
      <3>3. CASE i < Len(free) /\ End(free[i]) + b.size = free[i + 1].offset
        <4> DEFINE m == [offset |-> free[i].offset, size |-> free[i].size + b.size + free[i + 1].size]
        <4>1. i + 1 \in 1 .. Len(free) /\ i \in 1 .. Len(free) - 1 BY <2>2, <3>3
        <4>2. [free EXCEPT ![i].size = @ + b.size + free[i + 1].size] = [free EXCEPT ![i] = m]
          <5>1. [free[i] EXCEPT !.size = @ + b.size + free[i + 1].size] = m
            BY <2>2, ResizeBlock
          <5> QED BY <5>1
        <4>3. m \in Block /\ m.size > 0 /\ m.offset = free[i].offset
              /\ End(m) = free[i].offset + (free[i].size + b.size + free[i + 1].size)
          <5>1. /\ free[i].offset \in Nat /\ free[i].size \in Nat /\ b.size \in Nat
                /\ free[i + 1].size \in Nat /\ b.size > 0
            BY <1>0, <2>2, <4>1
          <5>2. free[i].size + b.size + free[i + 1].size \in Nat
                /\ free[i].size + b.size + free[i + 1].size > 0
            <6>1. \A u, v, w \in Nat : v > 0 => u + v + w \in Nat /\ u + v + w > 0 OBVIOUS
            <6> QED BY <5>1, <6>1, Zenon
          <5> QED BY <5>1, <5>2 DEF Block, End
        <4> HIDE DEF m
        <4>4. End(m) = End(free[i + 1]) /\ free[i + 1].offset = End(b)
          <5>1. /\ free[i].offset \in Nat /\ free[i].size \in Nat /\ b.size \in Nat
                /\ free[i + 1].size \in Nat /\ free[i + 1].offset \in Nat /\ b.offset \in Nat
            BY <1>0, <2>2, <4>1
          <5>2. free[i].offset + free[i].size = b.offset BY <2>5 DEF End
          <5>3. free[i].offset + free[i].size + b.size = free[i + 1].offset BY <3>3 DEF End
          <5>4. End(free[i + 1]) = free[i + 1].offset + free[i + 1].size
                /\ End(b) = b.offset + b.size
            BY DEF End
          <5>5. free[i + 1].offset = End(b) BY <5>1, <5>2, <5>3, <5>4
          <5>6. End(m) = End(free[i + 1])
            <6>1. free[i].offset + (free[i].size + b.size + free[i + 1].size)
                    = (free[i].offset + free[i].size + b.size) + free[i + 1].size
              <7>1. PICK f \in Nat, u \in Nat, v \in Nat, w \in Nat :
                      f = free[i].offset /\ u = free[i].size /\ v = b.size /\ w = free[i + 1].size
                BY <5>1, Zenon
              <7>2. f + (u + v + w) = (f + u + v) + w OBVIOUS
              <7> QED BY <7>1, <7>2, Zenon
            <6>2. @ = free[i + 1].offset + free[i + 1].size BY <5>3, Zenon
            <6> QED BY <4>3, <5>4, <6>1, <6>2, Zenon
          <5> QED BY <5>5, <5>6
        <4>5. JoinBefore(free, i, b.size) = RemoveBlock([free EXCEPT ![i] = m], i + 1)
          BY <3>3, <4>2 DEF JoinBefore
        <4>6. \A j \in 1 .. Len(free) : j < i => End(free[j]) < m.offset BY <2>4, <4>3
        <4>7. \A j \in 1 .. Len(free) : i + 1 < j => End(m) < free[j].offset
          BY <4>1, <4>4 DEF Sorted
        <4> DEFINE r == RemoveBlock([free EXCEPT ![i] = m], i + 1)
        <4>8. /\ r \in Seq(Block) /\ Sorted(r)
              /\ \A x \in Nat : In(r, x) <=>
                   Within(m, x) \/ \E j \in 1 .. Len(free) : j # i /\ j # i + 1 /\ Within(free[j], x)
          BY <4>1, <4>3, <4>6, <4>7, MergeOK
        <4> HIDE DEF r
        <4>9. \A x \in Nat : Within(m, x) <=>
                Within(free[i], x) \/ Within(b, x) \/ Within(free[i + 1], x)
          BY <1>0, <2>2, <2>5, <4>1, <4>3, <4>4 DEF Within
        <4>10. \A x \in Nat : In(r, x) <=> In(free, x) \/ Within(b, x)
          BY <1>1, <2>2, <4>1, <4>8, <4>9
        <4> QED BY <2>3, <3>1, <4>5, <4>8, <4>10 DEF r
      <3>4. CASE ~(i < Len(free) /\ End(free[i]) + b.size = free[i + 1].offset)
        <4> DEFINE m == [offset |-> free[i].offset, size |-> free[i].size + b.size]
        <4>2. [free EXCEPT ![i].size = @ + b.size] = [free EXCEPT ![i] = m]
          <5>1. [free[i] EXCEPT !.size = @ + b.size] = m BY <2>2, ResizeBlock
          <5> QED BY <5>1
        <4>3. m \in Block /\ m.size > 0 /\ m.offset = free[i].offset
              /\ End(m) = free[i].offset + (free[i].size + b.size)
          BY <1>0, <2>2 DEF Block, End
        <4> HIDE DEF m
        <4>4. End(m) = End(b) BY <1>0, <2>2, <2>5, <4>3 DEF End
        <4>5. JoinBefore(free, i, b.size) = [free EXCEPT ![i] = m]
          BY <3>4, <4>2 DEF JoinBefore
        <4>6. \A j \in 1 .. Len(free) : j < i => End(free[j]) < m.offset BY <2>4, <4>3
        <4>7. ASSUME NEW j \in 1 .. Len(free), i < j PROVE End(m) < free[j].offset
          <5>1. i + 1 \in 1 .. Len(free) BY <2>2, <4>7
          <5>2. End(b) <= free[i + 1].offset /\ End(b) # free[i + 1].offset
            <6>1. End(b) = End(free[i]) + b.size BY <2>5 DEF End
            <6> QED BY <2>2, <3>2, <3>4, <5>1, <6>1
          <5>3. CASE j = i + 1 BY <1>0, <4>4, <5>1, <5>2, <5>3
          <5>4. CASE i + 1 < j
            <6>1. End(free[i + 1]) < free[j].offset BY <5>1, <5>4 DEF Sorted
            <6> QED BY <1>0, <4>4, <5>1, <5>2, <6>1
          <5> QED BY <2>2, <4>7, <5>3, <5>4
        <4> DEFINE r == [free EXCEPT ![i] = m]
        <4>8. /\ r \in Seq(Block) /\ Sorted(r)
              /\ \A x \in Nat : In(r, x) <=>
                   Within(m, x) \/ \E j \in 1 .. Len(free) : j # i /\ Within(free[j], x)
          BY <2>2, <4>3, <4>6, <4>7, ReplaceOK
        <4> HIDE DEF r
        <4>9. \A x \in Nat : Within(m, x) <=> Within(free[i], x) \/ Within(b, x)
          BY <1>0, <2>2, <2>5, <4>3, <4>4 DEF Within
        <4>10. \A x \in Nat : In(r, x) <=> In(free, x) \/ Within(b, x)
          BY <1>1, <2>2, <4>8, <4>9
        <4> QED BY <2>3, <3>1, <4>5, <4>8, <4>10 DEF r
      <3> QED BY <3>3, <3>4
    <2>6. CASE End(free[i]) # b.offset
      <3> DEFINE m == [offset |-> b.offset, size |-> free[i].size + b.size]
      <3>1. End(b) = free[i].offset BY <2>2, <2>6
      <3>2. ~(i > 1 /\ End(free[i - 1]) = b.offset) BY <2>2
      <3>3. Join(free, i, b) = [free EXCEPT ![i] = m]
        BY <2>2, <2>6, <3>2 DEF Join, JoinAfter
      <3>4. m \in Block /\ m.size > 0 /\ m.offset = b.offset
            /\ End(m) = b.offset + (free[i].size + b.size)
        BY <1>0, <2>2 DEF Block, End
      <3> HIDE DEF m
      <3>5. End(m) = End(free[i]) BY <1>0, <2>2, <3>1, <3>4 DEF End
      <3>6. ASSUME NEW j \in 1 .. Len(free), j < i PROVE End(free[j]) < m.offset
        <4>1. End(free[j]) < free[i].offset /\ free[j].offset < End(free[j]) BY <1>0, <2>4, <3>6
        <4>2. End(free[j]) # b.offset BY <2>2, <3>6
        <4>3. End(free[j]) <= b.offset \/ End(b) <= free[j].offset OBVIOUS
        <4> QED BY <1>0, <2>2, <3>1, <3>4, <4>1, <4>2, <4>3
      <3>7. \A j \in 1 .. Len(free) : i < j => End(m) < free[j].offset BY <2>4, <3>5
      <3> DEFINE r == [free EXCEPT ![i] = m]
      <3>8. /\ r \in Seq(Block) /\ Sorted(r)
            /\ \A x \in Nat : In(r, x) <=>
                 Within(m, x) \/ \E j \in 1 .. Len(free) : j # i /\ Within(free[j], x)
        BY <2>2, <3>4, <3>6, <3>7, ReplaceOK
      <3> HIDE DEF r
      <3>9. \A x \in Nat : Within(m, x) <=> Within(free[i], x) \/ Within(b, x)
        BY <1>0, <2>2, <3>1, <3>4, <3>5 DEF Within
      <3>10. \A x \in Nat : In(r, x) <=> In(free, x) \/ Within(b, x)
        BY <1>1, <2>2, <3>8, <3>9
      <3> QED BY <2>3, <3>3, <3>8, <3>10 DEF r
    <2> QED BY <2>5, <2>6
  <1> QED BY <1>2, <1>3

(***************************************************************************)
(* A chunk and the bytes in it that tensors hold.                          *)
(***************************************************************************)

\* n bytes from some offset on.
Bytes(offset, n) == {x \in Nat : offset <= x /\ x < offset + n}

\* The free blocks are sorted and hold no byte that is held; what has been in
\* use is held or free; what has not is free from some byte on, without a gap.
ChunkGood(ch, held) ==
  /\ Sorted(ch.free)
  /\ \A x \in held : x < ch.max_size /\ ~In(ch.free, x)
  /\ \A x \in Nat : x < ch.max_size => x \in held \/ In(ch.free, x)
  /\ \A x, y \in Nat : ch.max_size <= x /\ x <= y /\ In(ch.free, y) => In(ch.free, x)

\* Two stretches without a common byte lie apart.
LEMMA Apart ==
  ASSUME NEW o \in Nat, NEW e \in Nat, NEW q \in Nat, NEW f \in Nat, o < e, q < f,
         \A x \in Nat : ~(o <= x /\ x < e /\ q <= x /\ x < f)
  PROVE  e <= q \/ f <= o
  <1>1. ~(o <= o /\ o < e /\ q <= o /\ o < f) OBVIOUS
  <1>2. ~(o <= q /\ q < e /\ q <= q /\ q < f) OBVIOUS
  <1> QED BY <1>1, <1>2

\* Taking the beginning of a free block.
LEMMA TakenGood ==
  ASSUME NEW ch \in Chunk, NEW held \in SUBSET Nat, ChunkGood(ch, held),
         NEW i \in 1 .. Len(ch.free), NEW n \in Nat \ {0}, n <= ch.free[i].size
  PROVE  /\ Taken(ch, i, n) \in Chunk
         /\ \A x \in Bytes(ch.free[i].offset, n) : x \notin held
         /\ ChunkGood(Taken(ch, i, n), held \cup Bytes(ch.free[i].offset, n))
  <1> DEFINE free == ch.free
             o == ch.free[i].offset
             r == TakeFrom(ch.free, i, n)
             top == Larger(ch.max_size, o + n)
  <1>1. free \in Seq(Block) /\ ch.max_size \in Nat BY DEF Chunk
  <1>2. o \in Nat /\ ch.free[i].size \in Nat BY <1>1, BlockAt
  <1>3. /\ r \in Seq(Block) /\ Sorted(r)
        /\ \A x \in Nat : In(r, x) <=> In(free, x) /\ ~(o <= x /\ x < o + n)
    BY <1>1, TakeFromOK DEF ChunkGood
  <1>4. top \in Nat /\ ch.max_size <= top /\ o + n <= top /\ (top = ch.max_size \/ top = o + n)
    BY <1>1, <1>2 DEF Larger
  <1>5. Taken(ch, i, n) = [free |-> r, max_size |-> top] BY DEF Taken
  <1>6. Taken(ch, i, n) \in Chunk BY <1>3, <1>4, <1>5 DEF Chunk
  <1>7. \A x \in Nat : o <= x /\ x < o + n => In(free, x)
    <2>1. o + n <= End(free[i]) BY <1>2 DEF End
    <2> QED BY <1>2, <2>1 DEF In, End
  <1>8. \A x \in Bytes(o, n) : x \notin held BY <1>7 DEF ChunkGood, Bytes
  <1> HIDE DEF r, top
  <1>9. ChunkGood([free |-> r, max_size |-> top], held \cup Bytes(o, n))
    <2>1. ASSUME NEW x \in held \cup Bytes(o, n) PROVE x < top /\ ~In(r, x)
      <3>1. CASE x \in held
        <4>1. x \in Nat /\ x < ch.max_size /\ ~In(free, x) BY <3>1 DEF ChunkGood
        <4> QED BY <1>1, <1>3, <1>4, <4>1
      <3>2. CASE x \in Bytes(o, n) BY <1>2, <1>3, <1>4, <3>2 DEF Bytes
      <3> QED BY <3>1, <3>2
    <2>2. ASSUME NEW x \in Nat, x < top PROVE x \in held \cup Bytes(o, n) \/ In(r, x)
      <3>1. x < ch.max_size => x \in held \/ In(free, x) BY DEF ChunkGood
      <3>2. ch.max_size <= x => In(free, x) \/ x \in Bytes(o, n)
        <4>1. SUFFICES ASSUME ch.max_size <= x, x \notin Bytes(o, n) PROVE In(free, x)
          OBVIOUS
        <4>2. x < o BY <1>1, <1>2, <1>4, <2>2, <4>1 DEF Bytes
        <4>3. In(free, o) BY <1>2, <1>7
        <4> QED BY <1>2, <4>1, <4>2, <4>3 DEF ChunkGood
      <3>3. In(free, x) => In(r, x) \/ x \in Bytes(o, n) BY <1>3 DEF Bytes
      <3> QED BY <1>1, <3>1, <3>2, <3>3
    <2>3. ASSUME NEW x \in Nat, NEW y \in Nat, top <= x, x <= y, In(r, y) PROVE In(r, x)
      <3>1. In(free, y) BY <1>3, <2>3
      <3>2. ch.max_size <= x BY <1>1, <1>4, <2>3
      <3>3. In(free, x) BY <2>3, <3>1, <3>2 DEF ChunkGood
      <3> QED BY <1>2, <1>3, <1>4, <2>3, <3>3
    <2> QED BY <1>3, <2>1, <2>2, <2>3 DEF ChunkGood
  <1> QED BY <1>5, <1>6, <1>8, <1>9

\* Releasing bytes that are held.
LEMMA ReleasedGood ==
  ASSUME NEW ch \in Chunk, NEW held \in SUBSET Nat, ChunkGood(ch, held),
         NEW o \in Nat, NEW n \in Nat \ {0}, Bytes(o, n) \subseteq held
  PROVE  LET new == [ch EXCEPT !.free = Release(ch.free, [offset |-> o, size |-> n])]
         IN new \in Chunk /\ ChunkGood(new, held \ Bytes(o, n))
  <1> DEFINE free == ch.free
             b == [offset |-> o, size |-> n]
             r == Release(ch.free, b)
  <1>1. free \in Seq(Block) /\ ch.max_size \in Nat /\ Sorted(free) BY DEF Chunk, ChunkGood
  <1>2. b \in Block /\ b.size > 0 /\ b.offset = o /\ End(b) = o + n BY DEF Block, End
  <1>3. \A x \in Nat : Within(b, x) <=> x \in Bytes(o, n) BY <1>2 DEF Within, Bytes
  <1>4. ASSUME NEW j \in 1 .. Len(free)
        PROVE  End(free[j]) <= b.offset \/ End(b) <= free[j].offset
    <2>1. free[j].offset \in Nat /\ free[j].size \in Nat /\ free[j].size > 0
      BY <1>1, BlockAt DEF Sorted
    <2>2. End(free[j]) \in Nat /\ free[j].offset < End(free[j]) BY <2>1 DEF End
    <2>3. ASSUME NEW x \in Nat, free[j].offset <= x, x < End(free[j]), o <= x, x < o + n
          PROVE  FALSE
      <3>1. In(free, x) BY <2>3 DEF In
      <3>2. x \in held BY <2>3 DEF Bytes
      <3> QED BY <3>1, <3>2 DEF ChunkGood
    <2>4. o + n \in Nat /\ o < o + n OBVIOUS
    <2>5. End(free[j]) <= o \/ o + n <= free[j].offset BY <2>1, <2>2, <2>3, <2>4, Apart
    <2> QED BY <1>2, <2>5
  <1> HIDE DEF b
  <1>5. /\ r \in Seq(Block) /\ Sorted(r)
        /\ \A x \in Nat : In(r, x) <=> In(free, x) \/ Within(b, x)
    BY <1>1, <1>2, <1>4, ReleaseOK
  <1> HIDE DEF r
  <1> DEFINE new == [ch EXCEPT !.free = r]
  <1>6. new \in Chunk /\ new.free = r /\ new.max_size = ch.max_size BY <1>5 DEF Chunk
  <1> HIDE DEF new
  <1>7. ChunkGood(new, held \ Bytes(o, n))
    <2>1. ASSUME NEW x \in held \ Bytes(o, n) PROVE x < new.max_size /\ ~In(new.free, x)
      BY <1>3, <1>5, <1>6 DEF ChunkGood
    <2>2. ASSUME NEW x \in Nat, x < new.max_size
          PROVE  x \in held \ Bytes(o, n) \/ In(new.free, x)
      BY <1>3, <1>5, <1>6, <2>2 DEF ChunkGood
    <2>3. ASSUME NEW x \in Nat, NEW y \in Nat, new.max_size <= x, x <= y, In(new.free, y)
          PROVE  In(new.free, x)
      <3>1. ~Within(b, y)
        <4>1. y \in Bytes(o, n) => y < ch.max_size BY DEF ChunkGood
        <4> QED BY <1>1, <1>3, <1>6, <2>3, <4>1
      <3>2. In(free, y) BY <1>5, <1>6, <2>3, <3>1
      <3>3. In(free, x) BY <1>6, <2>3, <3>2 DEF ChunkGood
      <3> QED BY <1>5, <1>6, <3>3
    <2> QED BY <1>5, <1>6, <2>1, <2>2, <2>3 DEF ChunkGood
  <1> QED BY <1>6, <1>7 DEF new, r, b

(***************************************************************************)
(* The choice of a block.                                                  *)
(***************************************************************************)

\* A set of indices has members where an integer is smallest.
LEMMA SmallestOf ==
  ASSUME NEW n \in Nat, NEW S, S \subseteq 1 .. n, S # {}, NEW v, \A i \in S : v[i] \in Nat
  PROVE  \E i \in S : \A j \in S : v[i] <= v[j]
  <1> DEFINE T == {v[i] : i \in S}
  <1>1. T \subseteq Nat /\ T # {} OBVIOUS
  <1>2. PICK m \in T : \A k \in T : m <= k BY <1>1, LeastNat
  <1>3. PICK i \in S : m = v[i] BY <1>2
  <1> QED BY <1>2, <1>3

\* The best fit is a block, not the last, that is large enough.
LEMMA BestFitOK ==
  ASSUME NEW free \in Seq(Block), NEW n \in Nat, Fits(free, n) # {}
  PROVE  BestFit(free, n) \in 1 .. Len(free) /\ free[BestFit(free, n)].size >= n
  <1> DEFINE S == Fits(free, n)
             T == {i \in S : \A j \in S : free[i].size <= free[j].size}
             v == [i \in 1 .. Len(free) |-> free[i].size]
  <1>1. S \subseteq 1 .. Len(free) /\ S # {} /\ Len(free) \in Nat BY DEF Fits
  <1>2. \A i \in S : v[i] = free[i].size /\ v[i] \in Nat BY <1>1, BlockAt
  <1> HIDE DEF S
  <1>3. \E i \in S : \A j \in S : v[i] <= v[j]
    <2> HIDE DEF v
    <2> QED BY <1>1, <1>2, SmallestOf
  <1>4. T # {} BY <1>2, <1>3
  <1>5. T \subseteq 1 .. Len(free) BY <1>1
  <1>6. Last(T) \in T
    <2> HIDE DEF T
    <2> QED BY <1>1, <1>4, <1>5, FirstLast
  <1>7. BestFit(free, n) = Last(T) BY DEF BestFit, S
  <1>8. \A i \in S : free[i].size >= n BY DEF S, Fits
  <1> QED BY <1>1, <1>6, <1>7, <1>8

\* The chunk that is reused is one of those whose last block is large enough.
LEMMA BestReuseOK ==
  ASSUME NEW chs \in Seq(Chunk), NEW n \in Nat \ {0}, LastFits(chs, n) # {}
  PROVE  BestReuse(chs, LastFits(chs, n), n) \in LastFits(chs, n)
  <1> DEFINE S == LastFits(chs, n)
             roomy == {c \in S : Surplus(chs[c], n) >= 0}
             A == {c \in roomy : \A d \in roomy : Surplus(chs[c], n) <= Surplus(chs[d], n)}
             B == {c \in S : \A d \in S : Lack(chs[c], n) <= Lack(chs[d], n)}
             v == [c \in 1 .. Len(chs) |-> Surplus(chs[c], n)]
             w == [c \in 1 .. Len(chs) |-> Lack(chs[c], n)]
  <1>1. S \subseteq 1 .. Len(chs) /\ Len(chs) \in Nat BY DEF LastFits
  <1>2. ASSUME NEW c \in S
        PROVE Surplus(chs[c], n) \in Int /\ Lack(chs[c], n) = -Surplus(chs[c], n)
    <2>1. chs[c] \in Chunk BY <1>1, ElementOfSeq
    <2>2. chs[c].free \in Seq(Block) /\ chs[c].max_size \in Nat BY <2>1 DEF Chunk
    <2>3. Len(chs[c].free) \in 1 .. Len(chs[c].free) BY <2>2 DEF LastFits
    <2>4. chs[c].free[Len(chs[c].free)].offset \in Nat BY <2>2, <2>3, BlockAt
    <2>5. Reaches(chs[c], n) \in Int BY <2>4 DEF Reaches
    <2> QED BY <2>2, <2>5 DEF Surplus, Lack
  <1> HIDE DEF S
  <1>3. CASE roomy # {}
    <2>1. roomy \subseteq 1 .. Len(chs) BY <1>1
    <2>2. \A c \in roomy : v[c] = Surplus(chs[c], n) /\ v[c] \in Nat BY <1>1, <1>2
    <2>3. \E c \in roomy : \A d \in roomy : v[c] <= v[d]
      <3> HIDE DEF roomy, v
      <3> QED BY <1>1, <1>3, <2>1, <2>2, SmallestOf
    <2>4. A # {} /\ A \subseteq 1 .. Len(chs) BY <2>1, <2>2, <2>3
    <2>5. First(A) \in A
      <3> HIDE DEF A
      <3> QED BY <1>1, <2>4, FirstLast
    <2>6. BestReuse(chs, S, n) = First(A) BY <1>3 DEF BestReuse
    <2> QED BY <2>5, <2>6 DEF S
  <1>4. CASE roomy = {}
    <2>1. \A c \in S : w[c] = Lack(chs[c], n) /\ w[c] \in Nat BY <1>1, <1>2, <1>4
    <2>2. \E c \in S : \A d \in S : w[c] <= w[d]
      <3>1. S # {} BY DEF S
      <3> HIDE DEF w
      <3> QED BY <1>1, <2>1, <3>1, SmallestOf
    <2>3. B # {} /\ B \subseteq 1 .. Len(chs) BY <1>1, <2>1, <2>2
    <2>4. First(B) \in B
      <3> HIDE DEF B
      <3> QED BY <1>1, <2>3, FirstLast
    <2>5. BestReuse(chs, S, n) = First(B) BY <1>4 DEF BestReuse
    <2> QED BY <2>4, <2>5 DEF S
  <1> QED BY <1>3, <1>4

\* A new chunk is one free block, large enough for the allocation it is made for.
LEMMA NewChunkOK ==
  ASSUME NEW k \in Nat, NEW n \in Nat \ {0}, k = MaxChunks => n <= Endless
  PROVE  LET ch == NewChunk(k, n)
         IN /\ ch \in Chunk /\ ChunkGood(ch, {}) /\ Len(ch.free) = 1 /\ ch.free[1].size >= n
  <1> DEFINE room == IF k = MaxChunks THEN Endless ELSE Larger(n, MaxChunkSize)
             b == [offset |-> 0, size |-> room]
  <1>1. room \in Nat /\ room >= n BY FreeListAssumption DEF Larger
  <1> HIDE DEF room
  <1>2. b \in Block /\ b.size = room /\ b.offset = 0 /\ End(b) = room BY <1>1 DEF Block, End
  <1>3. NewChunk(k, n) = [free |-> <<b>>, max_size |-> 0] BY DEF NewChunk, room
  <1> HIDE DEF b
  <1> DEFINE ch == [free |-> <<b>>, max_size |-> 0]
  <1>4. ch.free = <<b>> /\ ch.max_size = 0 OBVIOUS
  <1>5. <<b>> \in Seq(Block) /\ Len(<<b>>) = 1 /\ <<b>>[1] = b BY <1>2
  <1>6. ch \in Chunk BY <1>5 DEF Chunk
  <1>7. \A x \in Nat : In(<<b>>, x) <=> x < room BY <1>1, <1>2, <1>5 DEF In
  <1>8. Sorted(<<b>>) BY <1>1, <1>2, <1>5 DEF Sorted
  <1>9. ChunkGood(ch, {})
    <2>1. \A x \in {} : x < ch.max_size /\ ~In(ch.free, x) OBVIOUS
    <2>2. \A x \in Nat : x < ch.max_size => x \in {} \/ In(ch.free, x) BY <1>4
    <2>3. \A x, y \in Nat : ch.max_size <= x /\ x <= y /\ In(ch.free, y) => In(ch.free, x)
      BY <1>1, <1>4, <1>7
    <2> QED BY <1>4, <1>8, <2>1, <2>2, <2>3 DEF ChunkGood
  <1> QED BY <1>1, <1>2, <1>3, <1>4, <1>5, <1>6, <1>9

\* The block that is chosen is large enough; the chunks it is in are those
\* there were or have a new one.
LEMMA ChoiceOK ==
  ASSUME NEW chs \in Seq(Chunk), Len(chs) <= MaxChunks, NEW n \in Nat \ {0}, CanAlloc(chs, n)
  PROVE  LET k == Choice(chs, n)
         IN /\ \/ k.chunks = chs /\ k.chunk \in 1 .. Len(chs)
               \/ /\ Len(chs) < MaxChunks /\ k.chunk = Len(chs) + 1
                  /\ k.chunks = Append(chs, NewChunk(Len(chs) + 1, n))
                  /\ NewChunk(Len(chs) + 1, n) \in Chunk
                  /\ ChunkGood(NewChunk(Len(chs) + 1, n), {})
            /\ k.block \in 1 .. Len(k.chunks[k.chunk].free)
            /\ k.chunks[k.chunk].free[k.block].size >= n
  <1> DEFINE k == Choice(chs, n)
  <1>0. \A c \in 1 .. Len(chs) : chs[c].free \in Seq(Block)
    <2>1. \A c \in 1 .. Len(chs) : chs[c] \in Chunk BY ElementOfSeq
    <2> QED BY <2>1 DEF Chunk
  <1>1. CASE HasFit(chs, n) # {}
    <2> DEFINE c == Last(HasFit(chs, n))
    <2>1. c \in HasFit(chs, n)
      <3>1. HasFit(chs, n) \subseteq 1 .. Len(chs) /\ Len(chs) \in Nat BY DEF HasFit
      <3> QED BY <1>1, <3>1, FirstLast
    <2>2. k = InFit(chs, c, n) BY <1>1 DEF Choice
    <2> HIDE DEF c, k
    <2>3. c \in 1 .. Len(chs) /\ Fits(chs[c].free, n) # {} BY <2>1 DEF HasFit
    <2>4. k.chunks = chs /\ k.chunk = c /\ k.block = BestFit(chs[c].free, n)
      BY <2>2 DEF InFit, InChunk
    <2>5. k.block \in 1 .. Len(chs[c].free) /\ chs[c].free[k.block].size >= n
      BY <1>0, <2>3, <2>4, BestFitOK
    <2> QED BY <2>3, <2>4, <2>5 DEF k
  <1>2. CASE HasFit(chs, n) = {} /\ LastFits(chs, n) # {}
    <2> DEFINE c == BestReuse(chs, LastFits(chs, n), n)
    <2>1. c \in LastFits(chs, n) BY <1>2, BestReuseOK
    <2>2. k = InLast(chs, c) BY <1>2 DEF Choice
    <2> HIDE DEF c, k
    <2>3. /\ c \in 1 .. Len(chs) /\ chs[c].free # <<>>
          /\ chs[c].free[Len(chs[c].free)].size >= n
      BY <2>1 DEF LastFits
    <2>4. k.chunks = chs /\ k.chunk = c /\ k.block = Len(chs[c].free)
      BY <2>2 DEF InLast, InChunk
    <2>5. Len(chs[c].free) \in 1 .. Len(chs[c].free) BY <1>0, <2>3
    <2> QED BY <2>3, <2>4, <2>5 DEF k
  <1>3. CASE HasFit(chs, n) = {} /\ LastFits(chs, n) = {}
    <2> DEFINE new == NewChunk(Len(chs) + 1, n)
    <2>1. Len(chs) < MaxChunks /\ (Len(chs) + 1 = MaxChunks => n <= Endless)
      BY <1>3 DEF CanAlloc
    <2>2. Len(chs) + 1 \in Nat OBVIOUS
    <2>3. new \in Chunk /\ ChunkGood(new, {}) /\ Len(new.free) = 1 /\ new.free[1].size >= n
      BY <2>1, <2>2, NewChunkOK
    <2>4. k = InChunk(Append(chs, new), Len(chs) + 1, 1) BY <1>3 DEF Choice
    <2> HIDE DEF new, k
    <2>5. k.chunks = Append(chs, new) /\ k.chunk = Len(chs) + 1 /\ k.block = 1
      BY <2>4 DEF InChunk
    <2>6. Append(chs, new)[Len(chs) + 1] = new BY <2>3
    <2> QED BY <2>1, <2>3, <2>5, <2>6 DEF k, new
  <1> QED BY <1>1, <1>2, <1>3

\* The bytes of a chunk that the tensors of L hold.
HeldIn(L, pos, sz, c) ==
  {x \in Nat : \E t \in L : pos[t].chunk = c /\ x \in Bytes(pos[t].offset, sz[t])}

\* Two tensors share no memory.
Beside(pos, sz, t, u) ==
  pos[t].chunk = pos[u].chunk =>
    pos[t].offset + sz[t] <= pos[u].offset \/ pos[u].offset + sz[u] <= pos[t].offset

\* The tensors of L lie at pos, of sizes sz, in chunks whose lists of free blocks are
\* exact.  Sorted lists and disjoint tensors are not enough: that no byte is lost
\* when a chunk grows needs that what was never used is free without a gap.
LaidTypes(T, chs, L, pos, sz) ==
  /\ Len(chs) <= MaxChunks /\ chs \in Seq(Chunk)
  /\ L \subseteq T /\ pos \in [T -> Place] /\ sz \in [T -> Nat]
LaidSomewhere(chs, L, pos, sz) == \A t \in L : sz[t] > 0 /\ pos[t].chunk \in 1 .. Len(chs)
LaidApart(L, pos, sz) == \A t, u \in L : t # u => Beside(pos, sz, t, u)
Laid(T, chs, L, pos, sz) ==
  /\ LaidTypes(T, chs, L, pos, sz) /\ LaidSomewhere(chs, L, pos, sz) /\ LaidApart(L, pos, sz)
  /\ \A c \in 1 .. Len(chs) : ChunkGood(chs[c], HeldIn(L, pos, sz, c))

\* The tensors of a chunk have no byte in common.
LEMMA DistinctBytes ==
  ASSUME NEW T, NEW chs, NEW L, NEW pos, NEW sz, Laid(T, chs, L, pos, sz),
         NEW t \in L, NEW u \in L, t # u, pos[t].chunk = pos[u].chunk
  PROVE  \A x \in Bytes(pos[t].offset, sz[t]) : x \notin Bytes(pos[u].offset, sz[u])
  <1>1. /\ pos[t].offset \in Nat /\ pos[u].offset \in Nat /\ sz[t] \in Nat /\ sz[u] \in Nat
    BY DEF Laid, LaidTypes, Place
  <1>2. pos[t].offset + sz[t] <= pos[u].offset \/ pos[u].offset + sz[u] <= pos[t].offset
    BY DEF Laid, LaidApart, Beside
  <1> QED BY <1>1, <1>2 DEF Bytes

\* The bytes of a tensor are held.
LEMMA BytesHeld ==
  ASSUME NEW L, NEW pos, NEW sz, NEW t \in L
  PROVE  Bytes(pos[t].offset, sz[t]) \subseteq HeldIn(L, pos, sz, pos[t].chunk)
  BY DEF HeldIn, Bytes

\* An empty allocator.
LEMMA LaidNone ==
  ASSUME NEW T, NEW pos \in [T -> Place], NEW sz \in [T -> Nat]
  PROVE  Laid(T, <<>>, {}, pos, sz)
  <1>1. <<>> \in Seq(Chunk) /\ Len(<<>>) = 0 OBVIOUS
  <1>2. LaidTypes(T, <<>>, {}, pos, sz) BY <1>1, FreeListAssumption DEF LaidTypes
  <1> QED BY <1>1, <1>2 DEF Laid, LaidSomewhere, LaidApart

\* An allocation.
LEMMA LaidAlloc ==
  ASSUME NEW T, NEW chs, NEW L, NEW pos, NEW sz, Laid(T, chs, L, pos, sz),
         NEW t \in T, t \notin L, NEW n \in Nat \ {0}, CanAlloc(chs, n),
         NEW chs2, chs2 = Alloc(chs, n).chunks,
         NEW L2, L2 = L \cup {t},
         NEW pos2, pos2 = [pos EXCEPT ![t] = Alloc(chs, n).addr],
         NEW sz2, sz2 = [sz EXCEPT ![t] = n]
  PROVE  Laid(T, chs2, L2, pos2, sz2)
  <1> DEFINE k == Choice(chs, n)
             ch == k.chunks[k.chunk]
             o == ch.free[k.block].offset
  <1>1. /\ LaidTypes(T, chs, L, pos, sz) /\ LaidSomewhere(chs, L, pos, sz)
        /\ LaidApart(L, pos, sz)
        /\ \A c \in 1 .. Len(chs) : ChunkGood(chs[c], HeldIn(L, pos, sz, c))
    BY DEF Laid
  <1>2. chs \in Seq(Chunk) /\ Len(chs) <= MaxChunks /\ CanAlloc(chs, n)
    BY <1>1 DEF LaidTypes
  <1>3. /\ \/ k.chunks = chs /\ k.chunk \in 1 .. Len(chs)
           \/ /\ Len(chs) < MaxChunks /\ k.chunk = Len(chs) + 1
              /\ k.chunks = Append(chs, NewChunk(Len(chs) + 1, n))
              /\ NewChunk(Len(chs) + 1, n) \in Chunk
              /\ ChunkGood(NewChunk(Len(chs) + 1, n), {})
        /\ k.block \in 1 .. Len(ch.free) /\ ch.free[k.block].size >= n
    BY <1>2, ChoiceOK
  <1>4. /\ t \notin L /\ L2 = L \cup {t}
        /\ sz2 = [sz EXCEPT ![t] = n]
        /\ chs2 = [k.chunks EXCEPT ![k.chunk] = Taken(ch, k.block, n)]
        /\ pos2 = [pos EXCEPT ![t] = [chunk |-> k.chunk, offset |-> o]]
    BY DEF Alloc, AllocIn
  <1> HIDE DEF k
  <1>5. /\ k.chunks \in Seq(Chunk) /\ Len(k.chunks) <= MaxChunks
        /\ k.chunk \in 1 .. Len(k.chunks) /\ Len(chs) <= Len(k.chunks)
        /\ \A c \in 1 .. Len(k.chunks) : ChunkGood(k.chunks[c], HeldIn(L, pos, sz, c))
    <2>1. CASE k.chunks = chs /\ k.chunk \in 1 .. Len(chs) BY <1>1, <1>2, <2>1
    <2>2. CASE ~(k.chunks = chs /\ k.chunk \in 1 .. Len(chs))
      <3> DEFINE new == NewChunk(Len(chs) + 1, n)
      <3>1. /\ Len(chs) < MaxChunks /\ k.chunk = Len(chs) + 1
            /\ k.chunks = Append(chs, new) /\ new \in Chunk /\ ChunkGood(new, {})
        BY <1>3, <2>2
      <3> HIDE DEF new
      <3>2. /\ k.chunks \in Seq(Chunk) /\ Len(k.chunks) = Len(chs) + 1
            /\ \A c \in 1 .. Len(chs) : k.chunks[c] = chs[c]
            /\ k.chunks[Len(chs) + 1] = new
        BY <1>2, <3>1
      <3>3. HeldIn(L, pos, sz, Len(chs) + 1) = {} BY <1>1, <1>2 DEF HeldIn, LaidSomewhere
      <3>4. Len(chs) \in Nat /\ MaxChunks \in Nat BY <1>2, FreeListAssumption
      <3>5. ASSUME NEW c \in 1 .. Len(k.chunks)
            PROVE ChunkGood(k.chunks[c], HeldIn(L, pos, sz, c))
        <4>1. CASE c \in 1 .. Len(chs) BY <1>1, <3>2, <4>1
        <4>2. CASE c = Len(chs) + 1 BY <3>1, <3>2, <3>3, <4>2
        <4> QED BY <3>2, <3>4, <4>1, <4>2
      <3> QED BY <3>1, <3>2, <3>4, <3>5
    <2> QED BY <2>1, <2>2
  <1>6. /\ ch \in Chunk
        /\ ChunkGood(ch, HeldIn(L, pos, sz, k.chunk))
        /\ HeldIn(L, pos, sz, k.chunk) \in SUBSET Nat
    BY <1>5, ElementOfSeq DEF HeldIn
  <1>7. o \in Nat
    <2>1. ch.free \in Seq(Block) BY <1>6 DEF Chunk
    <2> QED BY <1>3, <2>1, BlockAt
  <1> HIDE DEF ch
  <1>8. /\ Taken(ch, k.block, n) \in Chunk
        /\ \A x \in Bytes(o, n) : x \notin HeldIn(L, pos, sz, k.chunk)
        /\ ChunkGood(Taken(ch, k.block, n), HeldIn(L, pos, sz, k.chunk) \cup Bytes(o, n))
    BY <1>3, <1>6, TakenGood
  <1> HIDE DEF o
  <1>9. /\ chs2 \in Seq(Chunk) /\ Len(chs2) = Len(k.chunks)
        /\ \A c \in 1 .. Len(k.chunks) :
             chs2[c] = IF c = k.chunk THEN Taken(ch, k.block, n) ELSE k.chunks[c]
    BY <1>4, <1>5, <1>8
  <1>10. /\ pos2[t] = [chunk |-> k.chunk, offset |-> o] /\ sz2[t] = n
         /\ pos2[t].chunk = k.chunk /\ pos2[t].offset = o
         /\ \A u \in L : u # t /\ u \in T /\ pos2[u] = pos[u] /\ sz2[u] = sz[u]
    BY <1>1, <1>4 DEF LaidTypes
  <1>11. LaidTypes(T, chs2, L2, pos2, sz2)
    <2>1. [chunk |-> k.chunk, offset |-> o] \in Place
      <3>1. k.chunk \in Nat BY <1>5
      <3> QED BY <1>7, <3>1 DEF Place
    <2>2. pos2 \in [T -> Place] /\ sz2 \in [T -> Nat] BY <1>1, <1>4, <2>1 DEF LaidTypes
    <2> QED BY <1>1, <1>4, <1>5, <1>9, <2>2 DEF LaidTypes
  <1>12. LaidSomewhere(chs2, L2, pos2, sz2)
    <2>1. \A u \in L : sz[u] > 0 /\ pos[u].chunk \in 1 .. Len(k.chunks)
      BY <1>1, <1>2, <1>5 DEF LaidSomewhere
    <2>2. n > 0 OBVIOUS
    <2> QED BY <1>4, <1>5, <1>9, <1>10, <2>1, <2>2 DEF LaidSomewhere
  <1>13. LaidApart(L2, pos2, sz2)
    <2>1. ASSUME NEW u \in L, pos[u].chunk = k.chunk
          PROVE  o + n <= pos[u].offset \/ pos[u].offset + sz[u] <= o
      <3>1. pos[u].offset \in Nat /\ sz[u] \in Nat /\ sz[u] > 0
        BY <1>1 DEF LaidTypes, Place, LaidSomewhere
      <3>2. \A x \in Bytes(pos[u].offset, sz[u]) : x \in HeldIn(L, pos, sz, k.chunk)
        BY <1>1, <2>1, BytesHeld
      <3>3. \A x \in Nat : ~(o <= x /\ x < o + n /\ pos[u].offset <= x /\ x < pos[u].offset + sz[u])
        BY <1>8, <3>2 DEF Bytes
      <3>4. o + n \in Nat /\ o < o + n /\ pos[u].offset + sz[u] \in Nat
            /\ pos[u].offset < pos[u].offset + sz[u]
        BY <1>7, <3>1
      <3> QED BY <1>7, <3>1, <3>3, <3>4, Apart
    <2>2. ASSUME NEW u \in L, NEW v \in L, u # v, pos[u].chunk = pos[v].chunk
          PROVE  pos[u].offset + sz[u] <= pos[v].offset \/ pos[v].offset + sz[v] <= pos[u].offset
      BY <1>1, <2>2 DEF LaidApart, Beside
    <2>3. SUFFICES ASSUME NEW u \in L2, NEW v \in L2, u # v, pos2[u].chunk = pos2[v].chunk
                   PROVE  \/ pos2[u].offset + sz2[u] <= pos2[v].offset
                          \/ pos2[v].offset + sz2[v] <= pos2[u].offset
      BY DEF LaidApart, Beside
    <2>4. CASE u = t /\ v \in L BY <1>10, <2>1, <2>3, <2>4
    <2>5. CASE v = t /\ u \in L BY <1>10, <2>1, <2>3, <2>5
    <2>6. CASE u \in L /\ v \in L BY <1>10, <2>2, <2>3, <2>6
    <2> QED BY <1>4, <2>3, <2>4, <2>5, <2>6
  <1>14. ASSUME NEW c
         PROVE HeldIn(L2, pos2, sz2, c) =
                 IF c = k.chunk THEN HeldIn(L, pos, sz, c) \cup Bytes(o, n) ELSE HeldIn(L, pos, sz, c)
    <2>1. ASSUME NEW x \in Nat
          PROVE  x \in HeldIn(L2, pos2, sz2, c)
                   <=> x \in HeldIn(L, pos, sz, c) \/ (c = k.chunk /\ x \in Bytes(o, n))
      <3>1. x \in HeldIn(L2, pos2, sz2, c) <=>
              \E u \in L \cup {t} : pos2[u].chunk = c /\ x \in Bytes(pos2[u].offset, sz2[u])
        BY <1>4 DEF HeldIn, Bytes
      <3>2. x \in HeldIn(L, pos, sz, c) <=>
              \E u \in L : pos[u].chunk = c /\ x \in Bytes(pos[u].offset, sz[u])
        BY DEF HeldIn
      <3> QED BY <1>10, <3>1, <3>2
    <2>2. /\ HeldIn(L2, pos2, sz2, c) \subseteq Nat
          /\ HeldIn(L, pos, sz, c) \subseteq Nat
          /\ Bytes(o, n) \subseteq Nat
      BY DEF HeldIn, Bytes
    <2> QED BY <2>1, <2>2
  <1>15. ASSUME NEW c \in 1 .. Len(k.chunks) PROVE ChunkGood(chs2[c], HeldIn(L2, pos2, sz2, c))
    <2>1. CASE c = k.chunk BY <1>8, <1>9, <1>14, <2>1
    <2>2. CASE c # k.chunk BY <1>5, <1>9, <1>14, <2>2
    <2> QED BY <2>1, <2>2
  <1>16. \A c \in 1 .. Len(chs2) : ChunkGood(chs2[c], HeldIn(L2, pos2, sz2, c)) BY <1>9, <1>15
  <1> QED BY <1>11, <1>12, <1>13, <1>16 DEF Laid

\* The chunks after bytes of chunk d, which belong to tensors of L, have been released.
FreedIn(chs, chs2, L, pos, sz, d, gone) ==
  /\ chs2 \in Seq(Chunk) /\ Len(chs2) = Len(chs)
  /\ \A c \in 1 .. Len(chs) :
       ChunkGood(chs2[c], IF c = d THEN HeldIn(L, pos, sz, c) \ gone ELSE HeldIn(L, pos, sz, c))

\* The end of a tensor, from byte o on, can be released.
LEMMA FreedChunks ==
  ASSUME NEW T, NEW chs, NEW L, NEW pos, NEW sz, Laid(T, chs, L, pos, sz), NEW t \in L,
         NEW o \in Nat, NEW n \in Nat \ {0}, pos[t].offset <= o,
         o + n = pos[t].offset + sz[t],
         NEW addr \in Place, addr.chunk = pos[t].chunk, addr.offset = o,
         NEW chs2, chs2 = FreeBytes(chs, addr, n)
  PROVE  FreedIn(chs, chs2, L, pos, sz, pos[t].chunk, Bytes(o, n))
  <1> DEFINE d == pos[t].chunk
             ch == [chs[d] EXCEPT !.free = Release(chs[d].free, [offset |-> o, size |-> n])]
  <1>1. /\ LaidTypes(T, chs, L, pos, sz) /\ chs \in Seq(Chunk) /\ d \in 1 .. Len(chs)
        /\ \A c \in 1 .. Len(chs) : ChunkGood(chs[c], HeldIn(L, pos, sz, c))
    BY DEF Laid, LaidTypes, LaidSomewhere
  <1>2. pos[t].offset \in Nat /\ sz[t] \in Nat BY <1>1 DEF LaidTypes, Place
  <1>4. chs[d] \in Chunk /\ HeldIn(L, pos, sz, d) \in SUBSET Nat BY <1>1, ElementOfSeq DEF HeldIn
  <1>5. Bytes(o, n) \subseteq HeldIn(L, pos, sz, d)
    <2>1. Bytes(pos[t].offset, sz[t]) \subseteq HeldIn(L, pos, sz, d) BY <1>1, BytesHeld
    <2>2. Bytes(o, n) \subseteq Bytes(pos[t].offset, sz[t]) BY <1>2 DEF Bytes
    <2> QED BY <2>1, <2>2
  <1>6. chs2 = [chs EXCEPT ![d] = ch] BY DEF FreeBytes
  <1>7. ch \in Chunk /\ ChunkGood(ch, HeldIn(L, pos, sz, d) \ Bytes(o, n))
    BY <1>1, <1>4, <1>5, ReleasedGood
  <1> HIDE DEF ch, d
  <1>8. /\ chs2 \in Seq(Chunk) /\ Len(chs2) = Len(chs)
        /\ \A c \in 1 .. Len(chs) : chs2[c] = IF c = d THEN ch ELSE chs[c]
    BY <1>1, <1>6, <1>7
  <1>9. ASSUME NEW c \in 1 .. Len(chs)
        PROVE  ChunkGood(chs2[c], IF c = d
                                  THEN HeldIn(L, pos, sz, c) \ Bytes(o, n)
                                  ELSE HeldIn(L, pos, sz, c))
    <2>1. CASE c = d BY <1>7, <1>8, <2>1
    <2>2. CASE c # d BY <1>1, <1>8, <2>2
    <2> QED BY <2>1, <2>2
  <1> QED BY <1>8, <1>9 DEF d, FreedIn

\* The release of a tensor keeps the invariant.
LEMMA LaidFree ==
  ASSUME NEW T, NEW chs, NEW L, NEW pos, NEW sz, Laid(T, chs, L, pos, sz), NEW t \in L,
         NEW chs2, chs2 = FreeBytes(chs, pos[t], sz[t]),
         NEW L2, L2 = L \ {t},
         NEW pos2 \in [T -> Place], NEW sz2 \in [T -> Nat],
         \A u \in L2 : pos2[u] = pos[u] /\ sz2[u] = sz[u]
  PROVE  Laid(T, chs2, L2, pos2, sz2)
  <1>1. /\ LaidTypes(T, chs, L, pos, sz) /\ LaidSomewhere(chs, L, pos, sz)
        /\ LaidApart(L, pos, sz)
    BY DEF Laid
  <1>2. t \in L /\ L2 = L \ {t} /\ chs2 = FreeBytes(chs, pos[t], sz[t]) OBVIOUS
  <1>3. pos[t] \in Place /\ pos[t].offset \in Nat /\ sz[t] \in Nat /\ sz[t] > 0
    BY <1>1, <1>2 DEF LaidTypes, Place, LaidSomewhere
  <1>5. /\ chs2 \in Seq(Chunk) /\ Len(chs2) = Len(chs)
        /\ \A c \in 1 .. Len(chs) :
             ChunkGood(chs2[c], IF c = pos[t].chunk
                                   THEN HeldIn(L, pos, sz, c) \ Bytes(pos[t].offset, sz[t])
                                   ELSE HeldIn(L, pos, sz, c))
    <2>1. sz[t] \in Nat \ {0} /\ pos[t].offset <= pos[t].offset BY <1>3
    <2>2. FreedIn(chs, chs2, L, pos, sz, pos[t].chunk, Bytes(pos[t].offset, sz[t]))
      BY <1>2, <1>3, <2>1, FreedChunks
    <2> QED BY <2>2 DEF FreedIn
  <1>6. \A u \in L2 : u \in L /\ u # t /\ u \in T /\ pos2[u] = pos[u] /\ sz2[u] = sz[u]
    BY <1>1, <1>2 DEF LaidTypes
  <1>7. LaidTypes(T, chs2, L2, pos2, sz2)
    <2>1. L2 \subseteq T BY <1>1, <1>2 DEF LaidTypes
    <2> QED BY <1>1, <1>5, <2>1 DEF LaidTypes
  <1>8. LaidSomewhere(chs2, L2, pos2, sz2) BY <1>1, <1>5, <1>6 DEF LaidSomewhere
  <1>9. LaidApart(L2, pos2, sz2) BY <1>1, <1>6 DEF LaidApart, Beside
  <1>10. ASSUME NEW c
         PROVE  HeldIn(L2, pos2, sz2, c) = IF c = pos[t].chunk
                                           THEN HeldIn(L, pos, sz, c) \ Bytes(pos[t].offset, sz[t])
                                           ELSE HeldIn(L, pos, sz, c)
    <2>1. ASSUME NEW x \in Nat
          PROVE  x \in HeldIn(L2, pos2, sz2, c) <=>
                   x \in HeldIn(L, pos, sz, c) /\ ~(c = pos[t].chunk /\ x \in Bytes(pos[t].offset, sz[t]))
      <3>1. x \in HeldIn(L2, pos2, sz2, c) <=>
              \E u \in L \ {t} : pos[u].chunk = c /\ x \in Bytes(pos[u].offset, sz[u])
        BY <1>2, <1>6 DEF HeldIn, Bytes
      <3>2. x \in HeldIn(L, pos, sz, c) <=>
              \E u \in L : pos[u].chunk = c /\ x \in Bytes(pos[u].offset, sz[u])
        BY DEF HeldIn
      <3>3. \A u \in L \ {t} : pos[u].chunk = pos[t].chunk =>
              \A y \in Bytes(pos[u].offset, sz[u]) : y \notin Bytes(pos[t].offset, sz[t])
        BY <1>1, <1>2, DistinctBytes
      <3> QED BY <1>2, <3>1, <3>2, <3>3
    <2>2. HeldIn(L2, pos2, sz2, c) \subseteq Nat /\ HeldIn(L, pos, sz, c) \subseteq Nat
      BY DEF HeldIn
    <2> QED BY <2>1, <2>2
  <1>11. \A c \in 1 .. Len(chs2) : ChunkGood(chs2[c], HeldIn(L2, pos2, sz2, c)) BY <1>5, <1>10
  <1> QED BY <1>7, <1>8, <1>9, <1>11 DEF Laid

\* The release of the end of a tensor keeps the invariant.
LEMMA LaidShrink ==
  ASSUME NEW T, NEW chs, NEW L, NEW pos, NEW sz, Laid(T, chs, L, pos, sz), NEW t \in L,
         NEW n \in Nat \ {0}, n < sz[t],
         NEW addr \in Place, addr.chunk = pos[t].chunk, addr.offset = pos[t].offset + n,
         NEW chs2, chs2 = FreeBytes(chs, addr, sz[t] - n),
         NEW sz2, sz2 = [sz EXCEPT ![t] = n]
  PROVE  Laid(T, chs2, L, pos, sz2)
  <1> DEFINE gone == Bytes(pos[t].offset + n, sz[t] - n)
  <1>1. /\ LaidTypes(T, chs, L, pos, sz) /\ LaidSomewhere(chs, L, pos, sz)
        /\ LaidApart(L, pos, sz)
    BY DEF Laid
  <1>2. /\ t \in L /\ n < sz[t] /\ sz2 = [sz EXCEPT ![t] = n]
        /\ chs2 = FreeBytes(chs, addr, sz[t] - n)
    OBVIOUS
  <1>3. pos[t] \in Place /\ pos[t].offset \in Nat /\ pos[t].chunk \in Nat /\ sz[t] \in Nat
    BY <1>1, <1>2 DEF LaidTypes, Place
  <1>4. addr \in Place /\ addr.chunk = pos[t].chunk /\ addr.offset = pos[t].offset + n OBVIOUS
  <1>5. /\ chs2 \in Seq(Chunk) /\ Len(chs2) = Len(chs)
        /\ \A c \in 1 .. Len(chs) :
             ChunkGood(chs2[c], IF c = pos[t].chunk
                                THEN HeldIn(L, pos, sz, c) \ gone
                                ELSE HeldIn(L, pos, sz, c))
    <2>1. /\ pos[t].offset + n \in Nat /\ sz[t] - n \in Nat \ {0}
          /\ pos[t].offset <= pos[t].offset + n
          /\ (pos[t].offset + n) + (sz[t] - n) = pos[t].offset + sz[t]
      BY <1>2, <1>3
    <2>2. FreedIn(chs, chs2, L, pos, sz, pos[t].chunk, gone)
      BY <1>2, <1>4, <2>1, FreedChunks
    <2> QED BY <2>2 DEF FreedIn
  <1>6. /\ sz2[t] = n
        /\ \A u \in L : u # t => sz2[u] = sz[u]
    BY <1>1, <1>2 DEF LaidTypes
  <1>7. LaidTypes(T, chs2, L, pos, sz2) BY <1>1, <1>2, <1>5 DEF LaidTypes
  <1>8. LaidSomewhere(chs2, L, pos, sz2) BY <1>1, <1>2, <1>5, <1>6 DEF LaidSomewhere
  <1>9. LaidApart(L, pos, sz2)
    <2>1. \A u \in L : /\ pos[u].offset \in Nat /\ sz[u] \in Nat /\ sz2[u] \in Nat
                          /\ sz2[u] <= sz[u]
      BY <1>1, <1>2, <1>6 DEF LaidTypes, Place
    <2>2. ASSUME NEW u \in L, NEW v \in L, u # v, pos[u].chunk = pos[v].chunk
          PROVE  pos[u].offset + sz2[u] <= pos[v].offset \/ pos[v].offset + sz2[v] <= pos[u].offset
      <3>1. pos[u].offset + sz[u] <= pos[v].offset \/ pos[v].offset + sz[v] <= pos[u].offset
        BY <1>1, <2>2 DEF LaidApart, Beside
      <3>2. /\ pos[u].offset \in Nat /\ sz[u] \in Nat /\ sz2[u] \in Nat /\ sz2[u] <= sz[u]
            /\ pos[v].offset \in Nat /\ sz[v] \in Nat /\ sz2[v] \in Nat /\ sz2[v] <= sz[v]
        BY <2>1
      <3> QED BY <3>1, <3>2
    <2> QED BY <1>2, <2>2 DEF LaidApart, Beside
  <1>10. ASSUME NEW c
         PROVE HeldIn(L, pos, sz2, c) =
                 IF c = pos[t].chunk THEN HeldIn(L, pos, sz, c) \ gone ELSE HeldIn(L, pos, sz, c)
    <2>1. ASSUME NEW x \in Nat
          PROVE  x \in HeldIn(L, pos, sz2, c)
                   <=> x \in HeldIn(L, pos, sz, c) /\ ~(c = pos[t].chunk /\ x \in gone)
      <3>1. x \in HeldIn(L, pos, sz2, c) <=>
              \E u \in L : pos[u].chunk = c /\ x \in Bytes(pos[u].offset, sz2[u])
        BY <1>2 DEF HeldIn, Bytes
      <3>2. x \in HeldIn(L, pos, sz, c) <=>
              \E u \in L : pos[u].chunk = c /\ x \in Bytes(pos[u].offset, sz[u])
        BY DEF HeldIn
      <3>3. \A u \in L : u # t /\ pos[u].chunk = pos[t].chunk =>
              \A y \in Bytes(pos[u].offset, sz[u]) : y \notin Bytes(pos[t].offset, sz[t])
        BY <1>1, <1>2, DistinctBytes
      <3>4. x \in Bytes(pos[t].offset, sz[t]) <=> x \in Bytes(pos[t].offset, n) \/ x \in gone
        BY <1>2, <1>3 DEF Bytes
      <3>5. ~(x \in Bytes(pos[t].offset, n) /\ x \in gone) BY <1>3 DEF Bytes
      <3> HIDE DEF gone
      <3> QED BY <1>2, <1>6, <3>1, <3>2, <3>3, <3>4, <3>5
    <2>2. HeldIn(L, pos, sz2, c) \subseteq Nat /\ HeldIn(L, pos, sz, c) \subseteq Nat
      BY DEF HeldIn
    <2> QED BY <2>1, <2>2
  <1>11. \A c \in 1 .. Len(chs2) : ChunkGood(chs2[c], HeldIn(L, pos, sz2, c)) BY <1>5, <1>10
  <1> QED BY <1>7, <1>8, <1>9, <1>11 DEF Laid

(***************************************************************************)
(* The room in the last chunk, and how chunks grow.                        *)
(***************************************************************************)

\* No block begins behind what has been in use.
LEMMA BlockLow ==
  ASSUME NEW ch \in Chunk, NEW held \in SUBSET Nat, ChunkGood(ch, held),
         NEW i \in 1 .. Len(ch.free)
  PROVE  ch.free[i].offset <= ch.max_size
  <1> DEFINE free == ch.free
  <1>1. free \in Seq(Block) /\ ch.max_size \in Nat /\ Sorted(free) BY DEF Chunk, ChunkGood
  <1>2. \A j \in 1 .. Len(free) : /\ free[j].offset \in Nat /\ free[j].size \in Nat
                                  /\ free[j].size > 0 /\ End(free[j]) \in Nat
                                  /\ free[j].offset < End(free[j])
    BY <1>1, BlockAt DEF Sorted, End
  <1>3. \A j, k \in 1 .. Len(free) : j < k => End(free[j]) < free[k].offset BY <1>1 DEF Sorted
  <1>4. SUFFICES ASSUME ch.max_size < free[i].offset PROVE FALSE BY <1>1, <1>2
  <1>5. In(free, free[i].offset) BY <1>2 DEF In
  <1> DEFINE x == free[i].offset - 1
  <1>6. x \in Nat /\ ch.max_size <= x /\ x <= free[i].offset BY <1>1, <1>2, <1>4
  <1>7. In(free, x) BY <1>2, <1>5, <1>6 DEF ChunkGood
  <1>8. PICK j \in 1 .. Len(free) : free[j].offset <= x /\ x < End(free[j]) BY <1>7 DEF In
  <1>9. End(free[j]) >= free[i].offset BY <1>2, <1>8
  <1>10. ~(j < i) BY <1>2, <1>3, <1>9
  <1>11. ~(i < j) BY <1>2, <1>3, <1>8
  <1>12. i = j BY <1>10, <1>11
  <1> QED BY <1>2, <1>8, <1>12

\* Of the chunk that has virtually endless room, no more than m bytes have been in use,
\* and behind them all is free.
OpenEnd(ch, m) ==
  /\ ch.max_size <= m
  /\ \A x \in Nat : In(ch.free, x) => x < Endless
  /\ \A x \in Nat : ch.max_size <= x /\ x < Endless => In(ch.free, x)

\* Its last block is large enough.
LEMMA LastRoom ==
  ASSUME NEW ch \in Chunk, NEW held \in SUBSET Nat, ChunkGood(ch, held),
         NEW m \in Nat, OpenEnd(ch, m), NEW n \in Nat \ {0}, m + n <= Endless
  PROVE  ch.free # <<>> /\ ch.free[Len(ch.free)].size >= n
  <1> DEFINE free == ch.free
             l == Len(free)
  <1>1. free \in Seq(Block) /\ ch.max_size \in Nat /\ Sorted(free) BY DEF Chunk, ChunkGood
  <1>2. \A j \in 1 .. l : /\ free[j].offset \in Nat /\ free[j].size \in Nat
                          /\ free[j].size > 0 /\ End(free[j]) \in Nat
                          /\ End(free[j]) = free[j].offset + free[j].size
                          /\ free[j].offset < End(free[j])
    BY <1>1, BlockAt DEF Sorted, End
  <1>3. \A j, k \in 1 .. l : j < k => End(free[j]) < free[k].offset BY <1>1 DEF Sorted
  <1>4. Endless \in Nat BY FreeListAssumption
  <1>5. l \in Nat BY <1>1
  <1>6. ch.max_size <= m /\ m < Endless BY <1>1, <1>4 DEF OpenEnd
  <1>7. \A x \in Nat : In(free, x) => x < Endless BY DEF OpenEnd
  <1>8. \A x \in Nat : ch.max_size <= x /\ x < Endless => In(free, x) BY DEF OpenEnd
  <1>9. In(free, Endless - 1)
    <2>1. Endless - 1 \in Nat /\ ch.max_size <= Endless - 1 /\ Endless - 1 < Endless
      BY <1>1, <1>4, <1>6
    <2> QED BY <1>8, <2>1
  <1>10. PICK i \in 1 .. l : free[i].offset <= Endless - 1 /\ Endless - 1 < End(free[i])
    BY <1>9 DEF In
  <1>11. l \in 1 .. l BY <1>5, <1>10
  <1>12. In(free, End(free[l]) - 1)
    <2>1. free[l].offset <= End(free[l]) - 1 /\ End(free[l]) - 1 < End(free[l])
      BY <1>2, <1>11
    <2> QED BY <1>11, <2>1 DEF In
  <1>13. End(free[l]) <= Endless
    <2>1. End(free[l]) - 1 \in Nat
      <3>1. free[l].offset \in Nat /\ End(free[l]) \in Nat /\ free[l].offset < End(free[l])
        BY <1>2, <1>11
      <3> QED BY <3>1
    <2>2. End(free[l]) - 1 < Endless BY <1>7, <1>12, <2>1
    <2> QED BY <1>2, <1>4, <1>11, <2>2
  <1>14. i = l
    <2>1. SUFFICES ASSUME i < l PROVE FALSE BY <1>5, <1>10
    <2>2. End(free[i]) < free[l].offset /\ free[l].offset < End(free[l])
      BY <1>2, <1>3, <1>11, <2>1
    <2>3. End(free[i]) \in Nat /\ End(free[l]) \in Nat /\ free[l].offset \in Nat BY <1>2, <1>11
    <2> QED BY <1>4, <1>10, <1>13, <2>2, <2>3
  <1>15. End(free[l]) = Endless
    <2>1. Endless - 1 < End(free[l]) BY <1>10, <1>14
    <2>2. End(free[l]) \in Nat BY <1>2, <1>11
    <2> QED BY <1>4, <1>13, <2>1, <2>2
  <1>16. free[l].offset <= ch.max_size BY <1>11, BlockLow
  <1>17. free[l].offset \in Nat /\ free[l].size \in Nat
         /\ free[l].offset + free[l].size = Endless
    BY <1>2, <1>11, <1>15
  <1>18. free[l].size >= n BY <1>1, <1>4, <1>6, <1>16, <1>17
  <1> QED BY <1>11, <1>18

\* An allocation in it.
LEMMA TakenOpen ==
  ASSUME NEW ch \in Chunk, NEW held \in SUBSET Nat, ChunkGood(ch, held),
         NEW i \in 1 .. Len(ch.free), NEW n \in Nat \ {0}, n <= ch.free[i].size,
         NEW m \in Nat, OpenEnd(ch, m)
  PROVE  OpenEnd(Taken(ch, i, n), m + n)
  <1> DEFINE free == ch.free
             o == ch.free[i].offset
             r == TakeFrom(ch.free, i, n)
             top == Larger(ch.max_size, o + n)
  <1>1. free \in Seq(Block) /\ ch.max_size \in Nat BY DEF Chunk
  <1>2. o \in Nat /\ ch.free[i].size \in Nat BY <1>1, BlockAt
  <1>3. \A x \in Nat : In(r, x) <=> In(free, x) /\ ~(o <= x /\ x < o + n)
    BY <1>1, TakeFromOK DEF ChunkGood
  <1>4. top \in Nat /\ ch.max_size <= top /\ o + n <= top /\ (top = ch.max_size \/ top = o + n)
    BY <1>1, <1>2 DEF Larger
  <1>5. Taken(ch, i, n).free = r /\ Taken(ch, i, n).max_size = top BY DEF Taken
  <1>6. o <= ch.max_size BY BlockLow
  <1> HIDE DEF r, top, o
  <1>7. ch.max_size <= m /\ \A x \in Nat : In(free, x) => x < Endless BY DEF OpenEnd
  <1>8. top <= m + n BY <1>1, <1>2, <1>4, <1>6, <1>7
  <1>9. ASSUME NEW x \in Nat, top <= x, x < Endless PROVE In(r, x)
    <2>1. ch.max_size <= x /\ o + n <= x BY <1>1, <1>2, <1>4, <1>9
    <2>2. In(free, x) BY <1>9, <2>1 DEF OpenEnd
    <2>3. ~(x < o + n) BY <1>2, <2>1
    <2> QED BY <1>3, <2>2, <2>3
  <1>10. \A x \in Nat : In(r, x) => x < Endless BY <1>3, <1>7
  <1> QED BY <1>5, <1>8, <1>9, <1>10 DEF OpenEnd

\* What an allocation needs and what it does to the largest end.
LEMMA TakenTop ==
  ASSUME NEW ch \in Chunk, NEW i \in 1 .. Len(ch.free), NEW n \in Nat \ {0}
  PROVE  /\ ch.max_size <= Taken(ch, i, n).max_size
         /\ ch.free[i].offset + n <= Taken(ch, i, n).max_size
  <1>1. ch.free \in Seq(Block) /\ ch.max_size \in Nat BY DEF Chunk
  <1>2. ch.free[i].offset \in Nat BY <1>1, BlockAt
  <1> QED BY <1>1, <1>2 DEF Taken, Larger

\* A new last chunk.
LEMMA NewOpen ==
  ASSUME NEW n
  PROVE  OpenEnd(NewChunk(MaxChunks, n), 0)
  <1> DEFINE b == [offset |-> 0, size |-> Endless]
  <1>1. Endless \in Nat BY FreeListAssumption
  <1>2. NewChunk(MaxChunks, n) = [free |-> <<b>>, max_size |-> 0] BY DEF NewChunk
  <1>3. Len(<<b>>) = 1 /\ <<b>>[1] = b /\ b.offset = 0 /\ End(b) = Endless BY <1>1 DEF End
  <1> HIDE DEF b
  <1>4. \A x \in Nat : In(<<b>>, x) <=> x < Endless
    <2>1. 1 .. Len(<<b>>) = {1} BY <1>3
    <2>2. \A x \in Nat : In(<<b>>, x) <=> 0 <= x /\ x < Endless BY <1>3, <2>1 DEF In
    <2> QED BY <2>2
  <1> QED BY <1>2, <1>4 DEF OpenEnd

\* A release in it.
LEMMA ReleasedOpen ==
  ASSUME NEW ch \in Chunk, NEW held \in SUBSET Nat, ChunkGood(ch, held),
         NEW m \in Nat, OpenEnd(ch, m), m <= Endless,
         NEW o \in Nat, NEW n \in Nat \ {0}, Bytes(o, n) \subseteq held,
         NEW new, new = [ch EXCEPT !.free = Release(ch.free, [offset |-> o, size |-> n])]
  PROVE  OpenEnd(new, m)
  <1> DEFINE free == ch.free
             b == [offset |-> o, size |-> n]
             r == Release(ch.free, b)
  <1>1. free \in Seq(Block) /\ ch.max_size \in Nat /\ Sorted(free) BY DEF Chunk, ChunkGood
  <1>2. b \in Block /\ b.size > 0 /\ b.offset = o /\ End(b) = o + n BY DEF Block, End
  <1>3. \A x \in Nat : Within(b, x) <=> x \in Bytes(o, n) BY <1>2 DEF Within, Bytes
  <1>4. ASSUME NEW j \in 1 .. Len(free)
        PROVE  End(free[j]) <= b.offset \/ End(b) <= free[j].offset
    <2>1. free[j].offset \in Nat /\ free[j].size \in Nat /\ free[j].size > 0
      BY <1>1, BlockAt DEF Sorted
    <2>2. End(free[j]) \in Nat /\ free[j].offset < End(free[j]) BY <2>1 DEF End
    <2>3. ASSUME NEW x \in Nat, free[j].offset <= x, x < End(free[j]), o <= x, x < o + n
          PROVE  FALSE
      <3>1. In(free, x) BY <2>3 DEF In
      <3>2. x \in held BY <2>3 DEF Bytes
      <3> QED BY <3>1, <3>2 DEF ChunkGood
    <2>4. o + n \in Nat /\ o < o + n OBVIOUS
    <2>5. End(free[j]) <= o \/ o + n <= free[j].offset BY <2>1, <2>2, <2>3, <2>4, Apart
    <2> QED BY <1>2, <2>5
  <1> HIDE DEF b
  <1>5. \A x \in Nat : In(r, x) <=> In(free, x) \/ Within(b, x) BY <1>1, <1>2, <1>4, ReleaseOK
  <1>6. new.free = r /\ new.max_size = ch.max_size BY DEF Chunk, b
  <1> HIDE DEF r
  <1>7. ch.max_size <= m BY DEF OpenEnd
  <1>8. Endless \in Nat BY FreeListAssumption
  <1>9. \A x \in Nat : In(r, x) => x < Endless
    <2>1. ASSUME NEW x \in Nat, x \in Bytes(o, n) PROVE x < Endless
      <3>1. x < ch.max_size BY <2>1 DEF ChunkGood
      <3> QED BY <1>1, <1>7, <1>8, <3>1
    <2>2. \A x \in Nat : In(free, x) => x < Endless BY DEF OpenEnd
    <2> QED BY <1>3, <1>5, <2>1, <2>2
  <1>10. \A x \in Nat : ch.max_size <= x /\ x < Endless => In(r, x)
    <2>1. \A x \in Nat : ch.max_size <= x /\ x < Endless => In(free, x) BY DEF OpenEnd
    <2> QED BY <1>5, <2>1
  <1> QED BY <1>6, <1>7, <1>9, <1>10 DEF OpenEnd

\* If the last chunk there may be has been made, all above what it has held so far is
\* free, and that is at most m: it has endless room.
EndlessLast(chs, m) == Len(chs) = MaxChunks => OpenEnd(chs[MaxChunks], m)

\* No chunk goes away and no largest end gets smaller.
Grown(chs, chs2) ==
  /\ Len(chs) <= Len(chs2)
  /\ \A c \in 1 .. Len(chs) : chs[c].max_size <= chs2[c].max_size

\* What does not change.
LEMMA GrownNot ==
  ASSUME NEW chs \in Seq(Chunk)
  PROVE  Grown(chs, chs)
  <1>1. \A c \in 1 .. Len(chs) : chs[c].max_size \in Nat
    <2>1. \A c \in 1 .. Len(chs) : chs[c] \in Chunk BY ElementOfSeq
    <2> QED BY <2>1 DEF Chunk
  <1>2. Len(chs) \in Nat OBVIOUS
  <1>3. \A k \in Nat : k <= k OBVIOUS
  <1> QED BY <1>1, <1>2, <1>3 DEF Grown

\* A bound may be larger.
LEMMA EndlessMore ==
  ASSUME NEW chs \in Seq(Chunk), NEW m \in Nat, NEW m2 \in Nat, m <= m2, EndlessLast(chs, m)
  PROVE  EndlessLast(chs, m2)
  <1>1. SUFFICES ASSUME Len(chs) = MaxChunks PROVE OpenEnd(chs[MaxChunks], m2)
    BY DEF EndlessLast
  <1>2. OpenEnd(chs[MaxChunks], m) BY <1>1 DEF EndlessLast
  <1>3. chs[MaxChunks].max_size \in Nat
    <2>1. MaxChunks \in 1 .. Len(chs) BY <1>1, FreeListAssumption
    <2>2. chs[MaxChunks] \in Chunk BY <2>1, ElementOfSeq
    <2> QED BY <2>2 DEF Chunk
  <1>4. chs[MaxChunks].max_size <= m2 BY <1>2, <1>3 DEF OpenEnd
  <1> QED BY <1>2, <1>4 DEF OpenEnd

\* As long as all that was ever allocated is no more than the last chunk has room for,
\* every allocation finds room.
LEMMA RoomLeft ==
  ASSUME NEW T, NEW chs, NEW L, NEW pos, NEW sz, Laid(T, chs, L, pos, sz),
         NEW m \in Nat, EndlessLast(chs, m), NEW n \in Nat \ {0}, m + n <= Endless
  PROVE  CanAlloc(chs, n)
  <1>1. /\ chs \in Seq(Chunk) /\ Len(chs) <= MaxChunks /\ Len(chs) \in Nat
        /\ \A c \in 1 .. Len(chs) : ChunkGood(chs[c], HeldIn(L, pos, sz, c))
    BY DEF Laid, LaidTypes
  <1>2. MaxChunks \in Nat \ {0} /\ Endless \in Nat BY FreeListAssumption
  <1>3. CASE Len(chs) < MaxChunks
    <2>1. n <= Endless BY <1>2
    <2> QED BY <1>3, <2>1 DEF CanAlloc
  <1>4. CASE Len(chs) = MaxChunks
    <2> DEFINE ch == chs[MaxChunks]
    <2>1. MaxChunks \in 1 .. Len(chs) BY <1>2, <1>4
    <2>2. ch \in Chunk BY <1>1, <2>1, ElementOfSeq
    <2>3. HeldIn(L, pos, sz, MaxChunks) \in SUBSET Nat BY DEF HeldIn
    <2>4. ChunkGood(ch, HeldIn(L, pos, sz, MaxChunks)) BY <1>1, <2>1
    <2>5. OpenEnd(ch, m) BY <1>4 DEF EndlessLast
    <2> HIDE DEF ch
    <2>6. ch.free # <<>> /\ ch.free[Len(ch.free)].size >= n BY <2>2, <2>3, <2>4, <2>5, LastRoom
    <2>7. MaxChunks \in LastFits(chs, n) BY <2>1, <2>6 DEF LastFits, ch
    <2> QED BY <2>7 DEF CanAlloc
  <1> QED BY <1>1, <1>2, <1>3, <1>4

\* An allocation of n bytes.
LEMMA AllocGrows ==
  ASSUME NEW T, NEW chs, NEW L, NEW pos, NEW sz, Laid(T, chs, L, pos, sz),
         NEW m \in Nat, EndlessLast(chs, m), NEW n \in Nat \ {0}, CanAlloc(chs, n),
         NEW chs2, chs2 = Alloc(chs, n).chunks, NEW a, a = Alloc(chs, n).addr
  PROVE  /\ EndlessLast(chs2, m + n) /\ Grown(chs, chs2)
         /\ a \in Place /\ a.chunk \in 1 .. Len(chs2)
         /\ a.offset + n <= chs2[a.chunk].max_size
  <1> DEFINE k == Choice(chs, n)
             ch == k.chunks[k.chunk]
             o == ch.free[k.block].offset
             new == NewChunk(Len(chs) + 1, n)
  <1>1. /\ chs \in Seq(Chunk) /\ Len(chs) <= MaxChunks /\ Len(chs) \in Nat
        /\ \A c \in 1 .. Len(chs) : ChunkGood(chs[c], HeldIn(L, pos, sz, c))
    BY DEF Laid, LaidTypes
  <1>2. /\ \/ k.chunks = chs /\ k.chunk \in 1 .. Len(chs)
           \/ /\ Len(chs) < MaxChunks /\ k.chunk = Len(chs) + 1
              /\ k.chunks = Append(chs, new) /\ new \in Chunk /\ ChunkGood(new, {})
        /\ k.block \in 1 .. Len(ch.free) /\ ch.free[k.block].size >= n
    BY <1>1, ChoiceOK
  <1>3. /\ chs2 = [k.chunks EXCEPT ![k.chunk] = Taken(ch, k.block, n)]
        /\ a = [chunk |-> k.chunk, offset |-> o]
    BY DEF Alloc, AllocIn
  <1>4. MaxChunks \in Nat \ {0} BY FreeListAssumption
  <1> HIDE DEF k
  <1> DEFINE held == IF k.chunk <= Len(chs) THEN HeldIn(L, pos, sz, k.chunk) ELSE {}
  <1>5. held \in SUBSET Nat BY DEF HeldIn
  <1>6. /\ k.chunks \in Seq(Chunk) /\ Len(k.chunks) <= MaxChunks
        /\ k.chunk \in 1 .. Len(k.chunks) /\ Len(chs) <= Len(k.chunks)
        /\ \A c \in 1 .. Len(chs) : k.chunks[c] = chs[c]
        /\ ChunkGood(ch, held)
        /\ Len(k.chunks) = MaxChunks /\ k.chunk = MaxChunks => OpenEnd(ch, m)
        /\ Len(k.chunks) = MaxChunks /\ k.chunk # MaxChunks => Len(chs) = MaxChunks
    <2>1. CASE k.chunks = chs /\ k.chunk \in 1 .. Len(chs)
      BY <1>1, <2>1 DEF EndlessLast
    <2>2. CASE ~(k.chunks = chs /\ k.chunk \in 1 .. Len(chs))
      <3> HIDE DEF new
      <3>1. /\ Len(chs) < MaxChunks /\ k.chunk = Len(chs) + 1
            /\ k.chunks = Append(chs, new) /\ new \in Chunk /\ ChunkGood(new, {})
        BY <1>2, <2>2
      <3>2. /\ k.chunks \in Seq(Chunk) /\ Len(k.chunks) = Len(chs) + 1
            /\ \A c \in 1 .. Len(chs) : k.chunks[c] = chs[c]
            /\ ch = new
        BY <1>1, <3>1
      <3> HIDE DEF ch
      <3>3. held = {} BY <1>1, <3>1
      <3>4. Len(k.chunks) = MaxChunks => OpenEnd(new, m)
        <4>1. SUFFICES ASSUME Len(chs) + 1 = MaxChunks PROVE OpenEnd(new, m) BY <3>2
        <4>2. OpenEnd(new, 0) BY <4>1, NewOpen DEF new
        <4>3. new.max_size \in Nat BY <3>1 DEF Chunk
        <4> QED BY <4>2, <4>3 DEF OpenEnd
      <3> QED BY <1>1, <1>4, <3>1, <3>2, <3>3, <3>4
    <2> QED BY <2>1, <2>2
  <1>7. ch \in Chunk BY <1>6, ElementOfSeq
  <1>8. o \in Nat
    <2>1. ch.free \in Seq(Block) BY <1>7 DEF Chunk
    <2> QED BY <1>2, <2>1, BlockAt
  <1> HIDE DEF held
  <1>9. ch.free[k.block].size \in Nat /\ n <= ch.free[k.block].size
    <2>1. ch.free \in Seq(Block) BY <1>7 DEF Chunk
    <2> QED BY <1>2, <2>1, BlockAt
  <1> HIDE DEF ch
  <1> DEFINE tk == Taken(ch, k.block, n)
  <1>10. tk \in Chunk BY <1>2, <1>5, <1>6, <1>7, <1>9, TakenGood
  <1>11. ch.max_size <= tk.max_size /\ o + n <= tk.max_size BY <1>2, <1>7, TakenTop
  <1>12. Len(k.chunks) = MaxChunks /\ k.chunk = MaxChunks => OpenEnd(tk, m + n)
    BY <1>2, <1>5, <1>6, <1>7, <1>9, TakenOpen
  <1> HIDE DEF tk, o, new
  <1>13. chs2 = [k.chunks EXCEPT ![k.chunk] = tk] BY <1>3 DEF tk
  <1>14. /\ chs2 \in Seq(Chunk) /\ Len(chs2) = Len(k.chunks)
         /\ \A c \in 1 .. Len(k.chunks) : chs2[c] = IF c = k.chunk THEN tk ELSE k.chunks[c]
    BY <1>6, <1>10, <1>13
  <1>15. a.chunk = k.chunk /\ a.offset = o /\ a \in Place
    <2>1. k.chunk \in Nat BY <1>6
    <2> QED BY <1>3, <1>8, <2>1 DEF Place
  <1>16. a.chunk \in 1 .. Len(chs2) /\ a.offset + n <= chs2[a.chunk].max_size
    BY <1>6, <1>11, <1>14, <1>15
  <1>17. Grown(chs, chs2)
    <2>1. ASSUME NEW c \in 1 .. Len(chs) PROVE chs[c].max_size <= chs2[c].max_size
      <3>1. c \in 1 .. Len(k.chunks) BY <1>1, <1>6
      <3>2. chs[c].max_size \in Nat
        <4>1. chs[c] \in Chunk BY <1>1, ElementOfSeq
        <4> QED BY <4>1 DEF Chunk
      <3>3. CASE c = k.chunk
        <4>1. chs2[c] = tk BY <1>14, <3>1, <3>3
        <4>2. ch = chs[c] BY <1>6, <3>3 DEF ch
        <4> QED BY <1>11, <4>1, <4>2
      <3>4. CASE c # k.chunk
        <4>1. chs2[c] = chs[c] BY <1>6, <1>14, <3>1, <3>4
        <4> QED BY <3>2, <4>1
      <3> QED BY <3>3, <3>4
    <2> QED BY <1>6, <1>14, <2>1 DEF Grown
  <1>18. EndlessLast(chs2, m + n)
    <2>1. SUFFICES ASSUME Len(chs2) = MaxChunks PROVE OpenEnd(chs2[MaxChunks], m + n)
      BY DEF EndlessLast
    <2>2. MaxChunks \in 1 .. Len(k.chunks) /\ Len(k.chunks) = MaxChunks BY <1>4, <1>14, <2>1
    <2>3. CASE k.chunk = MaxChunks
      <3>1. chs2[MaxChunks] = tk BY <1>14, <2>2, <2>3
      <3> QED BY <1>12, <2>2, <2>3, <3>1
    <2>4. CASE k.chunk # MaxChunks
      <3>1. Len(chs) = MaxChunks BY <1>6, <2>2, <2>4
      <3>2. chs2[MaxChunks] = chs[MaxChunks] BY <1>6, <1>14, <2>2, <2>4, <3>1
      <3>3. OpenEnd(chs[MaxChunks], m) BY <3>1 DEF EndlessLast
      <3>4. chs[MaxChunks].max_size \in Nat
        <4>1. chs[MaxChunks] \in Chunk BY <1>1, <2>2, <3>1, ElementOfSeq
        <4> QED BY <4>1 DEF Chunk
      <3>5. chs[MaxChunks].max_size <= m + n BY <3>3, <3>4 DEF OpenEnd
      <3> QED BY <3>2, <3>3, <3>5 DEF OpenEnd
    <2> QED BY <2>3, <2>4
  <1> QED BY <1>15, <1>16, <1>17, <1>18

\* The end of a tensor, from byte o on, is released.
LEMMA FreeGrows ==
  ASSUME NEW T, NEW chs, NEW L, NEW pos, NEW sz, Laid(T, chs, L, pos, sz), NEW t \in L,
         NEW m \in Nat, EndlessLast(chs, m), m <= Endless,
         NEW o \in Nat, NEW n \in Nat \ {0}, pos[t].offset <= o,
         o + n = pos[t].offset + sz[t],
         NEW addr \in Place, addr.chunk = pos[t].chunk, addr.offset = o,
         NEW chs2, chs2 = FreeBytes(chs, addr, n)
  PROVE  EndlessLast(chs2, m) /\ Grown(chs, chs2)
  <1> DEFINE d == pos[t].chunk
             ch == [chs[d] EXCEPT !.free = Release(chs[d].free, [offset |-> o, size |-> n])]
  <1>1. /\ LaidTypes(T, chs, L, pos, sz) /\ chs \in Seq(Chunk) /\ d \in 1 .. Len(chs)
        /\ \A c \in 1 .. Len(chs) : ChunkGood(chs[c], HeldIn(L, pos, sz, c))
    BY DEF Laid, LaidTypes, LaidSomewhere
  <1>2. pos[t].offset \in Nat /\ sz[t] \in Nat BY <1>1 DEF LaidTypes, Place
  <1>3. chs[d] \in Chunk /\ HeldIn(L, pos, sz, d) \in SUBSET Nat BY <1>1, ElementOfSeq DEF HeldIn
  <1>4. Bytes(o, n) \subseteq HeldIn(L, pos, sz, d)
    <2>1. Bytes(pos[t].offset, sz[t]) \subseteq HeldIn(L, pos, sz, d) BY <1>1, BytesHeld
    <2>2. Bytes(o, n) \subseteq Bytes(pos[t].offset, sz[t]) BY <1>2 DEF Bytes
    <2> QED BY <2>1, <2>2
  <1>5. chs2 = [chs EXCEPT ![d] = ch] BY DEF FreeBytes
  <1>6. ch \in Chunk BY <1>1, <1>3, <1>4, ReleasedGood
  <1>7. ch.max_size = chs[d].max_size BY <1>3 DEF Chunk
  <1>8. OpenEnd(chs[d], m) => OpenEnd(ch, m) BY <1>1, <1>3, <1>4, ReleasedOpen
  <1> HIDE DEF ch, d
  <1>9. /\ chs2 \in Seq(Chunk) /\ Len(chs2) = Len(chs)
        /\ \A c \in 1 .. Len(chs) : chs2[c] = IF c = d THEN ch ELSE chs[c]
    BY <1>1, <1>5, <1>6
  <1>10. \A c \in 1 .. Len(chs) : chs[c].max_size \in Nat /\ chs2[c].max_size = chs[c].max_size
    <2>1. \A c \in 1 .. Len(chs) : chs[c] \in Chunk BY <1>1, ElementOfSeq
    <2> QED BY <1>7, <1>9, <2>1 DEF Chunk
  <1>11. Grown(chs, chs2)
    <2>1. \A c \in 1 .. Len(chs) : chs[c].max_size <= chs2[c].max_size
      <3> SUFFICES ASSUME NEW c \in 1 .. Len(chs) PROVE chs[c].max_size <= chs2[c].max_size
        OBVIOUS
      <3>1. chs[c].max_size \in Nat /\ chs2[c].max_size = chs[c].max_size BY <1>10
      <3> QED BY <3>1
    <2>2. Len(chs) \in Nat BY <1>1
    <2> QED BY <1>9, <2>1, <2>2 DEF Grown
  <1>12. EndlessLast(chs2, m)
    <2>1. MaxChunks \in Nat \ {0} BY FreeListAssumption
    <2>2. SUFFICES ASSUME Len(chs) = MaxChunks PROVE OpenEnd(chs2[MaxChunks], m)
      BY <1>9 DEF EndlessLast
    <2>3. OpenEnd(chs[MaxChunks], m) BY <2>2 DEF EndlessLast
    <2> QED BY <1>8, <1>9, <2>1, <2>2, <2>3
  <1> QED BY <1>11, <1>12

\* A tensor takes the place of another of the same size.
LEMMA LaidMove ==
  ASSUME NEW T, NEW chs, NEW L, NEW pos, NEW sz, Laid(T, chs, L, pos, sz), NEW p \in L,
         NEW t \in T, t \notin L,
         NEW L2, L2 = (L \ {p}) \cup {t},
         NEW pos2, pos2 = [pos EXCEPT ![t] = pos[p]],
         NEW sz2 \in [T -> Nat], sz2[t] = sz[p], \A u \in L \ {p} : sz2[u] = sz[u]
  PROVE  Laid(T, chs, L2, pos2, sz2)
  <1>1. LaidTypes(T, chs, L, pos, sz) /\ LaidSomewhere(chs, L, pos, sz) /\ LaidApart(L, pos, sz)
    BY DEF Laid
  <1>2. /\ pos2[t] = pos[p] /\ sz2[t] = sz[p]
        /\ \A u \in L \ {p} : u # t /\ u \in T /\ pos2[u] = pos[u] /\ sz2[u] = sz[u]
        /\ pos[p] \in Place
    BY <1>1 DEF LaidTypes
  <1>3. LaidTypes(T, chs, L2, pos2, sz2) BY <1>1, <1>2 DEF LaidTypes
  <1>4. LaidSomewhere(chs, L2, pos2, sz2) BY <1>1, <1>2 DEF LaidSomewhere
  <1> DEFINE f == [u \in L2 |-> IF u = t THEN p ELSE u]
  <1>5. \A u \in L2 : f[u] \in L /\ pos2[u] = pos[f[u]] /\ sz2[u] = sz[f[u]] BY <1>2
  <1>6. \A u, v \in L2 : u # v => f[u] # f[v] OBVIOUS
  <1>7. \A v \in L : \E u \in L2 : f[u] = v
    <2>1. ASSUME NEW v \in L PROVE \E u \in L2 : f[u] = v
      <3>1. CASE v = p
        <4>1. t \in L2 /\ f[t] = p OBVIOUS
        <4> QED BY <3>1, <4>1
      <3>2. CASE v # p
        <4>1. v \in L2 /\ f[v] = v BY <3>2
        <4> QED BY <4>1
      <3> QED BY <3>1, <3>2
    <2> QED BY <2>1
  <1> HIDE DEF f
  <1>8. LaidApart(L2, pos2, sz2)
    <2> SUFFICES ASSUME NEW u \in L2, NEW v \in L2, u # v PROVE Beside(pos2, sz2, u, v)
      BY DEF LaidApart
    <2>1. f[u] \in L /\ f[v] \in L /\ f[u] # f[v] BY <1>5, <1>6
    <2>2. Beside(pos, sz, f[u], f[v]) BY <1>1, <2>1 DEF LaidApart
    <2> QED BY <1>5, <2>2 DEF Beside
  <1>9. ASSUME NEW c PROVE HeldIn(L2, pos2, sz2, c) = HeldIn(L, pos, sz, c)
    <2>1. ASSUME NEW x \in Nat
          PROVE x \in HeldIn(L2, pos2, sz2, c) <=> x \in HeldIn(L, pos, sz, c)
      <3>1. x \in HeldIn(L2, pos2, sz2, c) <=>
              \E u \in L2 : pos2[u].chunk = c /\ x \in Bytes(pos2[u].offset, sz2[u])
        BY DEF HeldIn
      <3>2. x \in HeldIn(L, pos, sz, c) <=>
              \E u \in L : pos[u].chunk = c /\ x \in Bytes(pos[u].offset, sz[u])
        BY DEF HeldIn
      <3> QED BY <1>5, <1>7, <3>1, <3>2
    <2>2. HeldIn(L2, pos2, sz2, c) \subseteq Nat /\ HeldIn(L, pos, sz, c) \subseteq Nat
      BY DEF HeldIn
    <2> QED BY <2>1, <2>2
  <1>10. \A c \in 1 .. Len(chs) : ChunkGood(chs[c], HeldIn(L2, pos2, sz2, c))
    BY <1>9 DEF Laid
  <1> QED BY <1>3, <1>4, <1>8, <1>10 DEF Laid

(***************************************************************************)
(* The allocator on its own.                                               *)
(***************************************************************************)

\* The tensors lie in the allocator.
AllocInv == Laid(Tensors, chunks, live, at, size)

\* AllocInv is an inductive invariant.
THEOREM AllocInvariant == AllocSpec => []AllocInv
  <1>1. AllocInit => AllocInv
    <2> SUFFICES ASSUME AllocInit PROVE AllocInv OBVIOUS
    <2>1. at \in [Tensors -> Place] /\ size \in [Tensors -> Nat] /\ chunks = <<>> /\ live = {}
      BY DEF AllocInit, Nowhere, Place
    <2> QED BY <2>1, LaidNone DEF AllocInv
  <1>2. AllocInv /\ [AllocNext]_allocVars => AllocInv'
    <2> DEFINE I == Laid(Tensors, chunks, live, at, size)
               J == Laid(Tensors, chunks', live', at', size')
    <2>0. SUFFICES ASSUME I, [AllocNext]_allocVars PROVE J
      BY DEF AllocInv, Laid, LaidTypes, LaidSomewhere, LaidApart, Beside, ChunkGood, HeldIn,
             Sorted, In, End, Bytes
    <2>1. ASSUME NEW t \in Tensors, NEW n \in Nat \ {0}, Allocate(t, n) PROVE J
      <3>1. /\ t \notin live /\ CanAlloc(chunks, n)
            /\ chunks' = Alloc(chunks, n).chunks
            /\ live' = live \cup {t} /\ size' = [size EXCEPT ![t] = n]
            /\ at' = [at EXCEPT ![t] = Alloc(chunks, n).addr]
        BY <2>1 DEF Allocate
      <3> QED BY <2>0, <3>1, LaidAlloc
    <2>2. ASSUME NEW t \in Tensors, NEW n \in Nat \ {0}, FreeExtra(t, n) PROVE J
      <3> DEFINE addr == [at[t] EXCEPT !.offset = at[t].offset + n]
      <3>1. /\ t \in live /\ n < size[t]
            /\ chunks' = FreeBytes(chunks, addr, size[t] - n)
            /\ size' = [size EXCEPT ![t] = n] /\ live' = live /\ at' = at
        BY <2>2 DEF FreeExtra
      <3>2. at[t] \in Place /\ at[t].offset \in Nat BY <2>0, <3>1 DEF Laid, LaidTypes, Place
      <3>3. addr \in Place /\ addr.chunk = at[t].chunk /\ addr.offset = at[t].offset + n
        BY <3>2 DEF Place
      <3> HIDE DEF addr
      <3> QED BY <2>0, <3>1, <3>3, LaidShrink
    <2>3. ASSUME NEW t \in Tensors, Free(t) PROVE J
      <3>1. /\ t \in live /\ chunks' = FreeBytes(chunks, at[t], size[t])
            /\ live' = live \ {t}
            /\ at' = [at EXCEPT ![t] = Nowhere] /\ size' = [size EXCEPT ![t] = 0]
        BY <2>3 DEF Free
      <3>2. at \in [Tensors -> Place] /\ size \in [Tensors -> Nat] /\ live \subseteq Tensors
        BY <2>0 DEF Laid, LaidTypes
      <3>3. Nowhere \in Place BY DEF Nowhere, Place
      <3>4. /\ at' \in [Tensors -> Place] /\ size' \in [Tensors -> Nat]
            /\ \A u \in live' : at'[u] = at[u] /\ size'[u] = size[u]
        BY <3>1, <3>2, <3>3
      <3>5. t \in live /\ chunks' = FreeBytes(chunks, at[t], size[t]) /\ live' = live \ {t}
        BY <3>1
      <3> HIDE DEF I, J
      <3>6. I => J
        <4> SUFFICES ASSUME I PROVE J OBVIOUS
        <4> QED BY <3>4, <3>5, LaidFree DEF I, J
      <3> QED BY <2>0, <3>6
    <2>4. CASE Reset
      <3>1. at' \in [Tensors -> Place] /\ size' \in [Tensors -> Nat] /\ chunks' = <<>> /\ live' = {}
        BY <2>4 DEF Reset, Nowhere, Place
      <3> QED BY <3>1, LaidNone
    <2>5. CASE UNCHANGED allocVars BY <2>0, <2>5 DEF allocVars
    <2> HIDE DEF J
    <2> QED BY <2>0, <2>1, <2>2, <2>3, <2>4, <2>5 DEF AllocNext
  <1> QED BY <1>1, <1>2, PTL DEF AllocSpec

\* Two tensors that live at one time share no memory.
THEOREM NeverOverlap == AllocSpec => []NoOverlap
  <1>1. AllocInv => NoOverlap
    BY DEF AllocInv, Laid, LaidApart, Beside, NoOverlap, Begins, Ends
  <1> QED BY <1>1, AllocInvariant, PTL

\* The free blocks of a chunk are sorted and apart, hold no tensor, and with the
\* tensors cover what has been in use.
THEOREM FreeListIsExact == AllocSpec => []FreeListExact
  <1>1. AllocInv => FreeListExact
    <2> SUFFICES ASSUME AllocInv, NEW c \in 1 .. Len(chunks)
                 PROVE  Sorted(chunks[c].free) /\ FreeIsFree(c) /\ Covered(c)
      BY DEF FreeListExact
    <2> DEFINE held == HeldIn(live, at, size, c)
    <2>1. /\ LaidTypes(Tensors, chunks, live, at, size) /\ LaidSomewhere(chunks, live, at, size)
          /\ ChunkGood(chunks[c], held)
      BY DEF AllocInv, Laid
    <2>2. chunks[c] \in Chunk BY <2>1, ElementOfSeq DEF LaidTypes
    <2>3. chunks[c].free \in Seq(Block) /\ chunks[c].max_size \in Nat BY <2>2 DEF Chunk
    <2>4. Sorted(chunks[c].free) BY <2>1 DEF ChunkGood
    <2>5. ASSUME NEW t \in live, at[t].chunk = c, NEW i \in 1 .. Len(chunks[c].free)
          PROVE  End(chunks[c].free[i]) <= Begins(t) \/ Ends(t) <= chunks[c].free[i].offset
      <3> DEFINE b == chunks[c].free[i]
      <3>1. b.offset \in Nat /\ b.size \in Nat /\ b.size > 0 BY <2>3, <2>4, BlockAt DEF Sorted
      <3>2. End(b) \in Nat /\ b.offset < End(b) BY <3>1 DEF End
      <3>3. Begins(t) \in Nat /\ Ends(t) \in Nat /\ Begins(t) < Ends(t)
        <4>1. at[t].offset \in Nat /\ size[t] \in Nat /\ size[t] > 0
          BY <2>1 DEF LaidTypes, Place, LaidSomewhere
        <4> QED BY <4>1 DEF Begins, Ends
      <3>4. ASSUME NEW x \in Nat, b.offset <= x, x < End(b), Begins(t) <= x, x < Ends(t)
            PROVE  FALSE
        <4>1. In(chunks[c].free, x) BY <3>4 DEF In
        <4>2. x \in held BY <2>5, <3>4 DEF HeldIn, Bytes, Begins, Ends
        <4> QED BY <2>1, <4>1, <4>2 DEF ChunkGood
      <3> HIDE DEF b
      <3>5. End(b) <= Begins(t) \/ Ends(t) <= b.offset BY <3>1, <3>2, <3>3, <3>4, Apart
      <3> QED BY <3>5 DEF b
    <2>6. ASSUME NEW x \in 0 .. chunks[c].max_size - 1
          PROVE  \/ \E t \in live : at[t].chunk = c /\ Begins(t) <= x /\ x < Ends(t)
                 \/ \E i \in 1 .. Len(chunks[c].free) :
                      chunks[c].free[i].offset <= x /\ x < End(chunks[c].free[i])
      <3>1. x \in Nat /\ x < chunks[c].max_size BY <2>3
      <3>2. x \in held \/ In(chunks[c].free, x) BY <2>1, <3>1 DEF ChunkGood
      <3> QED BY <3>2 DEF HeldIn, Bytes, Begins, Ends, In
    <2> QED BY <2>4, <2>5, <2>6 DEF FreeIsFree, Covered
  <1> QED BY <1>1, AllocInvariant, PTL

\* The buffer made for a chunk is large enough for every tensor in it.
THEOREM BufferFits == AllocSpec => []FitsBuffer
  <1>1. AllocInv => FitsBuffer
    <2> SUFFICES ASSUME AllocInv, NEW t \in live
                 PROVE  at[t].chunk \in 1 .. Len(chunks) /\ Ends(t) <= chunks[at[t].chunk].max_size
      BY DEF FitsBuffer
    <2> DEFINE held == HeldIn(live, at, size, at[t].chunk)
    <2>1. /\ LaidTypes(Tensors, chunks, live, at, size)
          /\ at[t].chunk \in 1 .. Len(chunks) /\ size[t] > 0
          /\ ChunkGood(chunks[at[t].chunk], held)
      BY DEF AllocInv, Laid, LaidSomewhere
    <2>2. at[t].offset \in Nat /\ size[t] \in Nat BY <2>1 DEF LaidTypes, Place
    <2>3. chunks[at[t].chunk].max_size \in Nat
      <3>1. chunks[at[t].chunk] \in Chunk BY <2>1, ElementOfSeq DEF LaidTypes
      <3> QED BY <3>1 DEF Chunk
    <2>4. at[t].offset + size[t] - 1 \in Bytes(at[t].offset, size[t]) BY <2>1, <2>2 DEF Bytes
    <2>5. at[t].offset + size[t] - 1 \in held BY <2>1, <2>4, BytesHeld
    <2>6. at[t].offset + size[t] - 1 < chunks[at[t].chunk].max_size BY <2>1, <2>5 DEF ChunkGood
    <2> QED BY <2>1, <2>2, <2>3, <2>6 DEF Ends
  <1> QED BY <1>1, AllocInvariant, PTL

(***************************************************************************)
(* Functions that are defined from one number to the next.                 *)
(***************************************************************************)

\* Induction along 0 .. n, for membership in a set.
LEMMA Induct ==
  ASSUME NEW N \in Nat, NEW S, 0 \in S, \A n \in 1 .. N : n - 1 \in S => n \in S
  PROVE  \A n \in 0 .. N : n \in S
<1> DEFINE bad == {n \in 0 .. N : n \notin S}
<1>1. SUFFICES ASSUME bad # {} PROVE FALSE
  OBVIOUS
<1>2. bad \subseteq Nat
  OBVIOUS
<1>3. PICK m \in bad : \A k \in bad : m <= k
  BY <1>1, <1>2, LeastNat
<1>4. m # 0 /\ m - 1 \in 0 .. N /\ m \in 1 .. N /\ ~(m <= m - 1)
  OBVIOUS
<1>5. m - 1 \in S
  BY <1>3, <1>4
<1> QED BY <1>4, <1>5

\* f starts with s, and step[n] leads from its value before n to the one at n.
Iterates(f, N, s, step) == f = [n \in 0 .. N |-> IF n = 0 THEN s ELSE step[n][f[n - 1]]]

\* A step that leads from each set of T to the next can be iterated.
LEMMA Iterated ==
  ASSUME NEW N \in Nat, NEW T, NEW s, s \in T[0], NEW step,
         \A n \in 1 .. N : \A x \in T[n - 1] : step[n][x] \in T[n]
  PROVE  \E f : Iterates(f, N, s, step) /\ \A n \in 0 .. N : f[n] \in T[n]
<1> DEFINE Up(f, m) == /\ f = [n \in 0 .. m |-> IF n = 0 THEN s ELSE step[n][f[n - 1]]]
                       /\ \A n \in 0 .. m : f[n] \in T[n]
           S == {m \in 0 .. N : \E f : Up(f, m)}
<1>1. 0 \in S
  <2> DEFINE g == [n \in 0 .. 0 |-> s]
  <2>1. g = [n \in 0 .. 0 |-> IF n = 0 THEN s ELSE step[n][g[n - 1]]]
    <3>1. \A n \in 0 .. 0 : n = 0
      OBVIOUS
    <3> QED BY <3>1
  <2>2. \A n \in 0 .. 0 : g[n] \in T[n]
    OBVIOUS
  <2>3. Up(g, 0)
    BY <2>1, <2>2
  <2> HIDE DEF g, Up
  <2> QED BY <2>3
<1>2. ASSUME NEW m \in 1 .. N, m - 1 \in S PROVE m \in S
  <2>1. PICK f : Up(f, m - 1)
    BY <1>2
  <2> DEFINE g == [n \in 0 .. m |-> IF n = m THEN step[m][f[m - 1]] ELSE f[n]]
  <2>2. \A n \in 0 .. m - 1 : g[n] = f[n] /\ g[n] = IF n = 0 THEN s ELSE step[n][f[n - 1]]
    BY <2>1
  <2>3. \A n \in 0 .. m : g[n] = IF n = 0 THEN s ELSE step[n][g[n - 1]]
    <3>1. ASSUME NEW n \in 0 .. m - 1 PROVE g[n] = IF n = 0 THEN s ELSE step[n][g[n - 1]]
      <4>1. g[n] = f[n] /\ g[n] = IF n = 0 THEN s ELSE step[n][f[n - 1]]
        BY <2>2
      <4>2. n # 0 => g[n - 1] = f[n - 1]
        <5>1. n # 0 => n - 1 \in 0 .. m - 1
          OBVIOUS
        <5> QED BY <2>2, <5>1
      <4> HIDE DEF g
      <4> QED BY <4>1, <4>2
    <3>2. g[m] = step[m][g[m - 1]] /\ m # 0
      <4>1. m - 1 \in 0 .. m - 1 /\ m \in 0 .. m
        OBVIOUS
      <4> QED BY <2>2, <4>1
    <3> QED BY <3>1, <3>2
  <2>4. \A n \in 0 .. m : g[n] \in T[n]
    <3>1. m - 1 \in 0 .. m - 1
      OBVIOUS
    <3> QED BY <2>1, <3>1
  <2>5. g = [n \in 0 .. m |-> IF n = 0 THEN s ELSE step[n][g[n - 1]]]
    <3>1. g = [n \in 0 .. m |-> g[n]]
      OBVIOUS
    <3> HIDE DEF g
    <3> QED BY <2>3, <3>1
  <2>6. Up(g, m)
    BY <2>4, <2>5
  <2> HIDE DEF g, Up
  <2> QED BY <2>6
<1>3. N \in S
  <2> HIDE DEF S
  <2>1. \A n \in 1 .. N : n - 1 \in S => n \in S
    BY <1>2
  <2>2. \A n \in 0 .. N : n \in S
    BY <1>1, <2>1, Induct
  <2> QED BY <2>2
<1> QED BY <1>3 DEF Iterates

\* What holds at the start and survives each step holds all along.
LEMMA Stays ==
  ASSUME NEW N \in Nat, NEW T, NEW F, F[0] \in T[0],
         \A n \in 1 .. N : F[n - 1] \in T[n - 1] => F[n] \in T[n]
  PROVE  \A n \in 0 .. N : F[n] \in T[n]
<1> DEFINE S == {n \in 0 .. N : F[n] \in T[n]}
<1>1. 0 \in S
  OBVIOUS
<1>2. \A n \in 1 .. N : n - 1 \in S => n \in S
  OBVIOUS
<1> HIDE DEF S
<1>3. \A n \in 0 .. N : n \in S
  BY <1>1, <1>2, Induct
<1> QED BY <1>3 DEF S

(***************************************************************************)
(* Graphs.                                                                 *)
(***************************************************************************)

\* What is known of a tensor.
LEMMA TensorIs ==
  ASSUME NEW g, WellFormed(g), NEW t \in Ids(g)
  PROVE  /\ g[t] \in Tensor /\ g[t].op \in {"leaf", "external", "plain", "inplace", "view"}
         /\ g[t].src \in Seq(Nat) /\ Len(g[t].src) \in 0 .. MaxSrc
         /\ \A j \in 1 .. Len(g[t].src) : g[t].src[j] \in 1 .. t - 1 /\ g[t].src[j] \in Ids(g)
         /\ g[t].view \in Nat /\ g[t].size \in Nat \ {0} /\ g[t].pad \in Nat
         /\ g[t].out \in BOOLEAN
         /\ AllocSize(g, t) \in Nat \ {0} /\ g[t].size <= AllocSize(g, t)
         /\ IsView(g, t) => /\ g[t].view \in 1 .. t - 1 /\ g[t].view \in Ids(g)
                            /\ ~IsView(g, g[t].view)
         /\ t \notin Nodes(g) => g[t].src = <<>>
         /\ Len(g) \in Nat
  <1>1. g \in Seq(Tensor) /\ Ordered(g) /\ ProperViews(g) BY DEF WellFormed
  <1>2. t \in 1 .. Len(g) /\ Len(g) \in Nat BY <1>1 DEF Ids
  <1>3. g[t] \in Tensor BY <1>1, <1>2, ElementOfSeq
  <1>4. /\ g[t].op \in {"leaf", "external", "plain", "inplace", "view"}
        /\ g[t].src \in Seq(Nat) /\ g[t].view \in Nat /\ g[t].size \in Nat \ {0}
        /\ g[t].pad \in Nat /\ g[t].out \in BOOLEAN
    BY <1>3 DEF Tensor
  <1>5. Len(g[t].src) \in Nat /\ MaxSrc \in Nat BY <1>4, GraphAllocAssumption
  <1>6. /\ Len(g[t].src) <= MaxSrc
        /\ \A j \in 1 .. Len(g[t].src) : g[t].src[j] \in 1 .. t - 1
        /\ t \notin Nodes(g) => g[t].src = <<>>
    BY <1>1 DEF Ordered
  <1>7. AllocSize(g, t) \in Nat \ {0} /\ g[t].size <= AllocSize(g, t) BY <1>4 DEF AllocSize
  <1>8. IsView(g, t) => g[t].view \in 1 .. t - 1 /\ ~IsView(g, g[t].view)
    BY <1>1 DEF ProperViews
  <1>9. \A u \in 1 .. t - 1 : u \in Ids(g) BY <1>2 DEF Ids
  <1> QED BY <1>2, <1>3, <1>4, <1>5, <1>6, <1>7, <1>8, <1>9

\* Nodes are what is computed: the tail of the graph.
LEMMA NodesLast ==
  ASSUME NEW g, WellFormed(g), NEW t \in Nodes(g), NEW u \in Ids(g), t <= u
  PROVE  u \in Nodes(g)
  <1>1. t \in Ids(g) BY DEF Nodes
  <1>2. u \in t .. Len(g) BY <1>1 DEF Ids
  <1> QED BY <1>1, <1>2 DEF WellFormed, Ordered

(***************************************************************************)
(* Reads that are still to come.                                           *)
(***************************************************************************)

\* The reads of p after node t has read its source j, and the views of p that are
\* to be read then or that nobody reads: what n_children and n_views count.
ToRead(g, t, j, p) == {r \in ReadAt(g, p) : r[1] > t \/ (r[1] = t /\ r[2] > j)}
ViewsLeft(g, t, j, p) ==
  {u \in Ids(g) : g[u].view = p /\ (ToRead(g, t, j, u) # {} \/ ReadAt(g, u) = {})}

\* After node t, p is needed.
Needed(g, t, p) ==
  g[p].out \/ ToRead(g, t, MaxSrc, p) # {} \/ ViewsLeft(g, t, MaxSrc, p) # {}

\* A read.
LEMMA ReadIs ==
  ASSUME NEW g, WellFormed(g), NEW p, NEW r \in ReadAt(g, p)
  PROVE  /\ r[1] \in Ids(g) /\ r[1] \in Nat /\ r[2] \in 1 .. MaxSrc /\ r[2] \in Nat
         /\ r[2] \in 1 .. Len(g[r[1]].src) /\ g[r[1]].src[r[2]] = p /\ r = <<r[1], r[2]>>
  <1>1. r \in Ids(g) \X (1 .. MaxSrc) /\ r[2] <= Len(g[r[1]].src) /\ g[r[1]].src[r[2]] = p
    BY DEF ReadAt
  <1>2. r[1] \in Ids(g) /\ r[2] \in 1 .. MaxSrc /\ r = <<r[1], r[2]>> BY <1>1
  <1>3. Len(g[r[1]].src) \in Nat BY <1>2, TensorIs
  <1>4. MaxSrc \in Nat BY GraphAllocAssumption
  <1> QED BY <1>1, <1>2, <1>3, <1>4 DEF Ids

\* A source is read.
LEMMA SourceRead ==
  ASSUME NEW g, WellFormed(g), NEW t \in Ids(g), NEW j \in 1 .. Len(g[t].src)
  PROVE  <<t, j>> \in ReadAt(g, g[t].src[j])
  <1>1. Len(g[t].src) \in 0 .. MaxSrc BY TensorIs
  <1>2. j \in 1 .. MaxSrc /\ j <= Len(g[t].src) BY <1>1, GraphAllocAssumption
  <1>3. <<t, j>> \in Ids(g) \X (1 .. MaxSrc) BY <1>2
  <1> QED BY <1>2, <1>3 DEF ReadAt

\* They are finitely many.
LEMMA FiniteReads ==
  ASSUME NEW g, WellFormed(g), NEW p
  PROVE  /\ IsFiniteSet(ReadAt(g, p)) /\ IsFiniteSet(Ids(g))
         /\ \A t, j : IsFiniteSet(ToRead(g, t, j, p)) /\ IsFiniteSet(ViewsLeft(g, t, j, p))
  <1>1. Len(g) \in Nat /\ MaxSrc \in Nat BY GraphAllocAssumption DEF WellFormed
  <1>2. IsFiniteSet(Ids(g)) BY <1>1, FS_Interval DEF Ids
  <1>3. IsFiniteSet(1 .. MaxSrc) BY <1>1, FS_Interval
  <1>4. IsFiniteSet(Ids(g) \X (1 .. MaxSrc)) BY <1>2, <1>3, FS_Product
  <1>5. ReadAt(g, p) \subseteq Ids(g) \X (1 .. MaxSrc) BY DEF ReadAt
  <1>6. IsFiniteSet(ReadAt(g, p)) BY <1>4, <1>5, FS_Subset
  <1>7. ASSUME NEW t, NEW j
        PROVE  IsFiniteSet(ToRead(g, t, j, p)) /\ IsFiniteSet(ViewsLeft(g, t, j, p))
    <2>1. ToRead(g, t, j, p) \subseteq ReadAt(g, p) /\ ViewsLeft(g, t, j, p) \subseteq Ids(g)
      BY DEF ToRead, ViewsLeft
    <2> QED BY <1>2, <1>6, <2>1, FS_Subset
  <1> QED BY <1>2, <1>6, <1>7

\* Before the first node, all reads are to come.
LEMMA AllToRead ==
  ASSUME NEW g, WellFormed(g), NEW p
  PROVE  /\ ToRead(g, 0, MaxSrc, p) = ReadAt(g, p)
         /\ ViewsLeft(g, 0, MaxSrc, p) = {u \in Ids(g) : g[u].view = p}
  <1>1. \A q : ToRead(g, 0, MaxSrc, q) = ReadAt(g, q)
    <2>1. ASSUME NEW q, NEW r \in ReadAt(g, q) PROVE r[1] > 0
      BY ReadIs DEF Ids
    <2> QED BY <2>1 DEF ToRead
  <1> QED BY <1>1 DEF ViewsLeft

\* Between two nodes nothing is read.
LEMMA NothingRead ==
  ASSUME NEW g, WellFormed(g), NEW t \in Ids(g), NEW p
  PROVE  /\ ToRead(g, t, 0, p) = ToRead(g, t - 1, MaxSrc, p)
         /\ ViewsLeft(g, t, 0, p) = ViewsLeft(g, t - 1, MaxSrc, p)
         /\ ToRead(g, t, Len(g[t].src), p) = ToRead(g, t, MaxSrc, p)
         /\ ViewsLeft(g, t, Len(g[t].src), p) = ViewsLeft(g, t, MaxSrc, p)
  <1>0. t \in Nat /\ MaxSrc \in Nat /\ Len(g[t].src) \in 0 .. MaxSrc
    BY TensorIs, GraphAllocAssumption DEF Ids
  <1>1. \A q : ToRead(g, t, 0, q) = ToRead(g, t - 1, MaxSrc, q)
    <2>1. ASSUME NEW q, NEW r \in ReadAt(g, q)
          PROVE  (r[1] > t \/ (r[1] = t /\ r[2] > 0)) <=>
                 (r[1] > t - 1 \/ (r[1] = t - 1 /\ r[2] > MaxSrc))
      <3>1. r[1] \in Nat /\ r[2] \in 1 .. MaxSrc BY ReadIs
      <3> QED BY <1>0, <3>1
    <2> QED BY <2>1 DEF ToRead
  <1>2. \A q : ToRead(g, t, Len(g[t].src), q) = ToRead(g, t, MaxSrc, q)
    <2>1. ASSUME NEW q, NEW r \in ReadAt(g, q)
          PROVE  (r[1] = t /\ r[2] > Len(g[t].src)) <=> (r[1] = t /\ r[2] > MaxSrc)
      <3>1. r[2] \in 1 .. MaxSrc /\ r[2] \in 1 .. Len(g[r[1]].src) BY ReadIs
      <3> QED BY <1>0, <3>1
    <2> QED BY <2>1 DEF ToRead
  <1> QED BY <1>1, <1>2 DEF ViewsLeft

\* Source j of t is read, and nothing else.
ReadOff(g, t, j) ==
  \A q : /\ \A r : r \in ToRead(g, t, j, q) <=> r \in ToRead(g, t, j - 1, q) /\ r # <<t, j>>
         /\ <<t, j>> \in ToRead(g, t, j - 1, q) <=> q = g[t].src[j]

\* A read that is done is taken from those that are still to come.
LEMMA OneRead ==
  ASSUME NEW g, WellFormed(g), NEW t \in Ids(g), NEW j \in 1 .. Len(g[t].src)
  PROVE  ReadOff(g, t, j)
  <1> SUFFICES ASSUME NEW q
               PROVE  /\ \A r : r \in ToRead(g, t, j, q) <=> r \in ToRead(g, t, j - 1, q) /\ r # <<t, j>>
                      /\ <<t, j>> \in ToRead(g, t, j - 1, q) <=> q = g[t].src[j]
    BY DEF ReadOff
  <1>0. t \in Nat /\ j \in Nat /\ j - 1 \in Nat /\ Len(g[t].src) \in Nat
    BY TensorIs DEF Ids
  <1>1. ASSUME NEW r \in ReadAt(g, q)
        PROVE  (r[1] > t \/ (r[1] = t /\ r[2] > j)) <=>
               (r[1] > t \/ (r[1] = t /\ r[2] > j - 1)) /\ r # <<t, j>>
    <2>1. r[1] \in Nat /\ r[2] \in Nat /\ r = <<r[1], r[2]>> BY ReadIs
    <2>2. r = <<t, j>> <=> r[1] = t /\ r[2] = j BY <2>1
    <2>3. r[2] > j <=> r[2] > j - 1 /\ r[2] # j BY <1>0, <2>1
    <2>4. r[1] > t => r[1] # t BY <1>0, <2>1
    <2> QED BY <2>2, <2>3, <2>4
  <1>2. <<t, j>> \in ReadAt(g, q) <=> q = g[t].src[j]
    <2>1. q = g[t].src[j] => <<t, j>> \in ReadAt(g, q) BY SourceRead
    <2>2. <<t, j>> \in ReadAt(g, q) => q = g[t].src[j] BY DEF ReadAt
    <2> QED BY <2>1, <2>2
  <1>3. j > j - 1 BY <1>0
  <1>4. <<t, j>> \in ToRead(g, t, j - 1, q) <=> <<t, j>> \in ReadAt(g, q)
    BY <1>3 DEF ToRead
  <1>5. \A r : r \in ToRead(g, t, j, q) <=> r \in ToRead(g, t, j - 1, q) /\ r # <<t, j>>
    BY <1>1 DEF ToRead
  <1> QED BY <1>2, <1>4, <1>5

\* When the last read of a view is done, its owner has one view less.
ViewOff(g, t, j, p) ==
  \A q : q # 0 =>
    /\ ToRead(g, t, j, p) # {} => ViewsLeft(g, t, j, q) = ViewsLeft(g, t, j - 1, q)
    /\ ToRead(g, t, j, p) = {} => ViewsLeft(g, t, j, q) = ViewsLeft(g, t, j - 1, q) \ {p}
    /\ p \in ViewsLeft(g, t, j - 1, q) <=> g[p].view = q

\* A view whose last read is done is taken from the views of its owner.
LEMMA OneView ==
  ASSUME NEW g, WellFormed(g), NEW t \in Ids(g), NEW j \in 1 .. Len(g[t].src),
         NEW p, p = g[t].src[j]
  PROVE  ViewOff(g, t, j, p)
  <1>1. p \in Ids(g) BY TensorIs
  <1>2. /\ \A u : u # p => ToRead(g, t, j, u) = ToRead(g, t, j - 1, u)
        /\ ToRead(g, t, j - 1, p) # {} /\ ReadAt(g, p) # {}
    <2>0. ReadOff(g, t, j) BY OneRead
    <2>1. ASSUME NEW u, u # p PROVE ToRead(g, t, j, u) = ToRead(g, t, j - 1, u)
      <3>1. \A r : r \in ToRead(g, t, j, u) <=> r \in ToRead(g, t, j - 1, u) /\ r # <<t, j>>
        BY <2>0 DEF ReadOff
      <3>2. ~(<<t, j>> \in ToRead(g, t, j - 1, u)) BY <2>0, <2>1 DEF ReadOff
      <3> QED BY <3>1, <3>2
    <2>2. <<t, j>> \in ToRead(g, t, j - 1, p) BY <2>0 DEF ReadOff
    <2>3. ToRead(g, t, j - 1, p) \subseteq ReadAt(g, p) BY DEF ToRead
    <2> QED BY <2>1, <2>2, <2>3
  <1> QED BY <1>1, <1>2 DEF ViewsLeft, ViewOff

\* What is needed was needed before.
LEMMA NeededBefore ==
  ASSUME NEW g, WellFormed(g), NEW t \in Nat, NEW u \in Nat, t <= u, NEW p, Needed(g, u, p)
  PROVE  Needed(g, t, p)
  <1>1. MaxSrc \in Nat BY GraphAllocAssumption
  <1>2. \A q : ToRead(g, u, MaxSrc, q) \subseteq ToRead(g, t, MaxSrc, q)
    <2> SUFFICES ASSUME NEW q, NEW r \in ToRead(g, u, MaxSrc, q) PROVE r \in ToRead(g, t, MaxSrc, q)
      OBVIOUS
    <2>1. r \in ReadAt(g, q) /\ (r[1] > u \/ (r[1] = u /\ r[2] > MaxSrc)) BY DEF ToRead
    <2>2. r[1] \in Nat /\ r[2] \in 1 .. MaxSrc BY <2>1, ReadIs
    <2>3. r[1] > u /\ u \in Nat /\ t \in Nat BY <1>1, <2>1, <2>2
    <2>4. r[1] > t BY <2>2, <2>3
    <2> QED BY <2>1, <2>4 DEF ToRead
  <1>3. ViewsLeft(g, u, MaxSrc, p) \subseteq ViewsLeft(g, t, MaxSrc, p) BY <1>2 DEF ViewsLeft
  <1> QED BY <1>2, <1>3 DEF Needed

\* What is done while the sources of t are read, is done after t.
LEMMA DoneAfter ==
  ASSUME NEW g, WellFormed(g), NEW t \in Ids(g), NEW j \in 0 .. Len(g[t].src), NEW p
  PROVE  /\ ToRead(g, t, MaxSrc, p) \subseteq ToRead(g, t, j, p)
         /\ ViewsLeft(g, t, MaxSrc, p) \subseteq ViewsLeft(g, t, j, p)
  <1>0. Len(g[t].src) \in 0 .. MaxSrc /\ MaxSrc \in Nat BY TensorIs, GraphAllocAssumption
  <1>1. \A q : ToRead(g, t, MaxSrc, q) \subseteq ToRead(g, t, j, q)
    <2> SUFFICES ASSUME NEW q, NEW r \in ToRead(g, t, MaxSrc, q) PROVE r \in ToRead(g, t, j, q)
      OBVIOUS
    <2>1. r \in ReadAt(g, q) /\ (r[1] > t \/ (r[1] = t /\ r[2] > MaxSrc)) BY DEF ToRead
    <2>2. r[2] \in 1 .. MaxSrc BY <2>1, ReadIs
    <2>3. r[2] > MaxSrc => r[2] > j BY <1>0, <2>2
    <2> QED BY <2>1, <2>3 DEF ToRead
  <1> QED BY <1>1 DEF ViewsLeft

(***************************************************************************)
(* The state in which tensors are placed.                                  *)
(***************************************************************************)

\* What its tensors take, the states it is placed in, and the tensors in use.
Sizes(g) == [t \in Ids(g) |-> AllocSize(g, t)]
PlaceState(g) ==
  [chunks : Seq(Chunk), children : [Ids(g) -> Nat], views : [Ids(g) -> Nat],
   own : [Ids(g) -> BOOLEAN], addr : [Ids(g) -> Place]]
Live(s) == {t \in DOMAIN s.own : s.own[t]}

\* What the fields of a state are.
LEMMA StateIs ==
  ASSUME NEW g, NEW s \in PlaceState(g)
  PROVE  /\ s.chunks \in Seq(Chunk) /\ s.children \in [Ids(g) -> Nat]
         /\ s.views \in [Ids(g) -> Nat] /\ s.own \in [Ids(g) -> BOOLEAN]
         /\ s.addr \in [Ids(g) -> Place]
         /\ s = [chunks |-> s.chunks, children |-> s.children, views |-> s.views,
                 own |-> s.own, addr |-> s.addr]
         /\ Live(s) \subseteq Ids(g) /\ \A p : p \in Live(s) <=> p \in Ids(g) /\ s.own[p]
  BY DEF PlaceState, Live

\* The sizes of a graph's tensors and their sum.
LEMMA SizesAre ==
  ASSUME NEW g, WellFormed(g)
  PROVE  /\ Sizes(g) \in [Ids(g) -> Nat]
         /\ \A t \in Ids(g) : Sizes(g)[t] = AllocSize(g, t) /\ Sizes(g)[t] > 0
  <1>1. \A t \in Ids(g) : AllocSize(g, t) \in Nat \ {0} BY TensorIs
  <1> QED BY <1>1 DEF Sizes

\* SizeTo adds them up.
LEMMA SizeToIs ==
  ASSUME NEW g, WellFormed(g)
  PROVE  /\ SizeTo(g)[0] = 0
         /\ \A t \in Ids(g) : SizeTo(g)[t] = SizeTo(g)[t - 1] + AllocSize(g, t)
         /\ \A t \in 0 .. Len(g) : SizeTo(g)[t] \in Nat
  <1> DEFINE N == Len(g)
             T == [n \in 0 .. N |-> Nat]
             step == [n \in 1 .. N |-> [x \in Nat |-> x + AllocSize(g, n)]]
             F == CHOOSE f : f = [t \in 0 .. N |->
                    IF t = 0 THEN 0 ELSE f[t - 1] + AllocSize(g, t)]
  <1>0. N \in Nat BY DEF WellFormed
  <1>1. SizeTo(g) = F BY DEF SizeTo
  <1>2. \A n \in 1 .. N : AllocSize(g, n) \in Nat BY TensorIs DEF Ids
  <1>3. \A n \in 1 .. N : \A x \in Nat : step[n][x] = x + AllocSize(g, n) /\ x + AllocSize(g, n) \in Nat
    BY <1>2
  <1>4. \A n \in 0 .. N : T[n] = Nat OBVIOUS
  <1>5. 0 \in T[0] BY <1>0
  <1>6. \A n \in 1 .. N : n \in 0 .. N /\ n - 1 \in 0 .. N
    <2> HIDE DEF N
    <2> QED BY <1>0
  <1> HIDE DEF N, T, step
  <1>7. PICK f : Iterates(f, N, 0, step) /\ \A n \in 0 .. N : f[n] \in T[n]
    <2>1. \A n \in 1 .. N : \A x \in T[n - 1] : step[n][x] \in T[n] BY <1>3, <1>4, <1>6
    <2> QED BY <1>0, <1>5, <2>1, Iterated
  <1>8. \A n \in 0 .. N : f[n] = IF n = 0 THEN 0 ELSE step[n][f[n - 1]] BY <1>7 DEF Iterates
  <1>9. f = [t \in 0 .. N |-> IF t = 0 THEN 0 ELSE f[t - 1] + AllocSize(g, t)]
    <2>1. ASSUME NEW n \in 0 .. N
          PROVE  f[n] = IF n = 0 THEN 0 ELSE f[n - 1] + AllocSize(g, n)
      <3>1. CASE n = 0 BY <1>8, <3>1
      <3>2. CASE n # 0
        <4>1. n \in 1 .. N BY <1>0, <3>2
        <4>2. f[n - 1] \in Nat BY <1>4, <1>6, <1>7, <4>1
        <4> QED BY <1>3, <1>8, <3>2, <4>1, <4>2
      <3> QED BY <3>1, <3>2
    <2>2. f = [t \in 0 .. N |-> f[t]] BY <1>7 DEF Iterates
    <2> QED BY <2>1, <2>2
  <1>10. F = [t \in 0 .. N |-> IF t = 0 THEN 0 ELSE F[t - 1] + AllocSize(g, t)] BY <1>9
  <1> HIDE DEF F
  <1>11. F[0] = 0 /\ \A n \in 1 .. N : F[n] = F[n - 1] + AllocSize(g, n)
    <2>1. 0 \in 0 .. N /\ \A n \in 1 .. N : n \in 0 .. N /\ n # 0 BY <1>0
    <2> QED BY <1>10, <2>1
  <1>12. \A n \in 0 .. N : F[n] \in Nat
    <2> DEFINE S == {n \in 0 .. N : F[n] \in Nat}
    <2>1. 0 \in S BY <1>0, <1>11
    <2>2. \A n \in 1 .. N : n - 1 \in S => n \in S BY <1>2, <1>6, <1>11
    <2> HIDE DEF S
    <2>3. \A n \in 0 .. N : n \in S BY <1>0, <2>1, <2>2, Induct
    <2> QED BY <2>3 DEF S
  <1> QED BY <1>1, <1>11, <1>12 DEF N, Ids

\* No more is ever allocated than the last chunk has room for.
LEMMA SizeToFits ==
  ASSUME NEW g, WellFormed(g), NEW t \in 0 .. Len(g)
  PROVE  SizeTo(g)[t] <= Endless
  <1> DEFINE N == Len(g)
             S == {n \in 0 .. N : SizeTo(g)[N - n] <= Endless}
  <1>0. N \in Nat /\ Endless \in Nat BY FreeListAssumption DEF WellFormed
  <1>1. 0 \in S BY <1>0 DEF WellFormed
  <1> HIDE DEF N
  <1>2. ASSUME NEW n \in 1 .. N, n - 1 \in S PROVE n \in S
    <2> DEFINE k == N - (n - 1)
    <2>1. k \in 1 .. N /\ k - 1 = N - n /\ k - 1 \in 0 .. N /\ k \in 0 .. N BY <1>0
    <2>2. SizeTo(g)[k] <= Endless BY <1>2
    <2> HIDE DEF k
    <2>3. SizeTo(g)[k] = SizeTo(g)[k - 1] + AllocSize(g, k)
      BY <2>1, SizeToIs DEF N, Ids
    <2>4. SizeTo(g)[k - 1] \in Nat BY <2>1, SizeToIs DEF N
    <2>5. AllocSize(g, k) \in Nat BY <2>1, TensorIs DEF N, Ids
    <2>6. SizeTo(g)[k - 1] <= Endless BY <1>0, <2>2, <2>3, <2>4, <2>5
    <2> QED BY <1>0, <2>1, <2>6
  <1> HIDE DEF S
  <1>3. \A n \in 0 .. N : n \in S BY <1>0, <1>1, <1>2, Induct
  <1>4. N - t \in 0 .. N /\ N - (N - t) = t BY <1>0 DEF N
  <1>5. N - t \in S BY <1>3, <1>4
  <1>6. SizeTo(g)[N - (N - t)] <= Endless BY <1>5 DEF S
  <1> QED BY <1>4, <1>6

(***************************************************************************)
(* What each of the functions does to the state.                           *)
(***************************************************************************)

\* A tensor gets memory of its own.
LEMMA SettleIs ==
  ASSUME NEW g, NEW s \in PlaceState(g), NEW t, NEW a, NEW s2, s2 = Settle(s, t, a)
  PROVE  /\ s2.chunks = a.chunks
         /\ s2.children = s.children /\ s2.views = s.views
         /\ s2.own = [s.own EXCEPT ![t] = TRUE]
         /\ s2.addr = [s.addr EXCEPT ![t] = a.addr]
         /\ s2 = [chunks |-> s2.chunks, children |-> s2.children, views |-> s2.views,
                  own |-> s2.own, addr |-> s2.addr]
  BY DEF Settle, PlaceState

\* A tensor that is no output is freed.
LEMMA FreeNodeIs ==
  ASSUME NEW g, NEW s \in PlaceState(g), NEW t, ~g[t].out, NEW s2, s2 = FreeNode(g, s, t)
  PROVE  /\ s2.chunks = FreeBytes(s.chunks, s.addr[t], AllocSize(g, t))
         /\ s2.children = s.children /\ s2.views = s.views
         /\ s2.own = [s.own EXCEPT ![t] = FALSE] /\ s2.addr = s.addr
         /\ s2 = [chunks |-> s2.chunks, children |-> s2.children, views |-> s2.views,
                  own |-> s2.own, addr |-> s2.addr]
  BY DEF FreeNode, PlaceState

\* A read less, a view less.
CountDown(s, p) == [s EXCEPT !.children[p] = @ - 1]
ViewDown(s, p)  == [s EXCEPT !.views[p] = @ - 1]

\* One read less changes one counter.
LEMMA CountDownIs ==
  ASSUME NEW g, NEW s \in PlaceState(g), NEW p, NEW s2, s2 = CountDown(s, p)
  PROVE  /\ s2.chunks = s.chunks /\ s2.children = [s.children EXCEPT ![p] = s.children[p] - 1]
         /\ s2.views = s.views /\ s2.own = s.own /\ s2.addr = s.addr
         /\ s2 = [chunks |-> s2.chunks, children |-> s2.children, views |-> s2.views,
                  own |-> s2.own, addr |-> s2.addr]
  BY DEF CountDown, PlaceState

\* One view less changes one counter.
LEMMA ViewDownIs ==
  ASSUME NEW g, NEW s \in PlaceState(g), NEW p, NEW s2, s2 = ViewDown(s, p)
  PROVE  /\ s2.chunks = s.chunks /\ s2.views = [s.views EXCEPT ![p] = s.views[p] - 1]
         /\ s2.children = s.children /\ s2.own = s.own /\ s2.addr = s.addr
         /\ s2 = [chunks |-> s2.chunks, children |-> s2.children, views |-> s2.views,
                  own |-> s2.own, addr |-> s2.addr]
  BY DEF ViewDown, PlaceState

\* A record of the right fields is a state.
LEMMA IsAState ==
  ASSUME NEW g, NEW s,
         s = [chunks |-> s.chunks, children |-> s.children, views |-> s.views,
              own |-> s.own, addr |-> s.addr],
         s.chunks \in Seq(Chunk), s.children \in [Ids(g) -> Nat], s.views \in [Ids(g) -> Nat],
         s.own \in [Ids(g) -> BOOLEAN], s.addr \in [Ids(g) -> Place]
  PROVE  s \in PlaceState(g)
  BY DEF PlaceState

(***************************************************************************)
(* The invariant of the placement.                                         *)
(***************************************************************************)

\* The counters say what is still to be read.
Counted(g, t, j, s) ==
  \A p \in Ids(g) : /\ s.children[p] = Cardinality(ToRead(g, t, j, p))
                    /\ s.views[p] = Cardinality(ViewsLeft(g, t, j, p))

\* Only tensors that have been placed own memory, and all that are needed after t do.
OwnsNeeded(g, t, s) ==
  /\ \A p \in Ids(g) : s.own[p] => p <= t /\ Owned(g, p)
  /\ \A p \in 1 .. t : Owned(g, p) /\ Needed(g, t, p) => s.own[p]

\* Whatever was ever placed ends in what was in use of its chunk.
EndsWithin(g, t, chs, addr) ==
  \A p \in 1 .. t : Owned(g, p) =>
    /\ addr[p].chunk \in 1 .. Len(chs)
    /\ addr[p].offset + AllocSize(g, p) <= chs[addr[p].chunk].max_size

\* A tensor lies beside one that is needed when it is computed, or exactly on
\* it if it is computed in place and the other is not needed any more.
BesideOrOver(g, addr, p, u) ==
  \/ Beside(addr, Sizes(g), p, u)
  \/ /\ g[u].op = "inplace" /\ addr[u] = addr[p] /\ g[u].size = g[p].size
     /\ ~Needed(g, u, p)
WellPlaced(g, addr, t) ==
  \A u \in 1 .. t : Owned(g, u) =>
    \A p \in 1 .. u - 1 : Owned(g, p) /\ Needed(g, u - 1, p) => BesideOrOver(g, addr, p, u)

\* After node t has read its source j.  What lies in the allocator is not enough: the
\* properties are about tensors whose memory has been given to others.
PlaceInv(g, t, j, s) ==
  /\ s \in PlaceState(g)
  /\ Counted(g, t, j, s) /\ OwnsNeeded(g, t, s)
  /\ Laid(Ids(g), s.chunks, Live(s), s.addr, Sizes(g))
  /\ EndlessLast(s.chunks, SizeTo(g)[t])
  /\ EndsWithin(g, t, s.chunks, s.addr) /\ WellPlaced(g, s.addr, t)

\* When chunks grow, tensors end in what was in use as before.
LEMMA EndsGrow ==
  ASSUME NEW g, WellFormed(g), NEW k \in Nat, k <= Len(g),
         NEW chs \in Seq(Chunk), NEW chs2 \in Seq(Chunk), NEW addr \in [Ids(g) -> Place],
         EndsWithin(g, k, chs, addr), Grown(chs, chs2)
  PROVE  EndsWithin(g, k, chs2, addr)
  <1>0. Len(g) \in Nat /\ Len(chs) \in Nat /\ Len(chs2) \in Nat BY DEF WellFormed
  <1>1. ASSUME NEW p \in 1 .. k, Owned(g, p)
        PROVE  /\ addr[p].chunk \in 1 .. Len(chs2)
               /\ addr[p].offset + AllocSize(g, p) <= chs2[addr[p].chunk].max_size
    <2>1. p \in Ids(g) BY <1>0 DEF Ids
    <2> DEFINE c == addr[p].chunk
               e == addr[p].offset + AllocSize(g, p)
    <2>2. c \in 1 .. Len(chs) /\ e <= chs[c].max_size BY <1>1 DEF EndsWithin
    <2>3. c \in 1 .. Len(chs2) /\ chs[c].max_size <= chs2[c].max_size
      BY <1>0, <2>2 DEF Grown
    <2>4. chs[c] \in Chunk /\ chs2[c] \in Chunk BY <2>2, <2>3, ElementOfSeq
    <2>5. chs[c].max_size \in Nat /\ chs2[c].max_size \in Nat BY <2>4 DEF Chunk
    <2>6. e \in Nat
      <3>1. addr[p].offset \in Nat BY <2>1 DEF Place
      <3>2. AllocSize(g, p) \in Nat BY <2>1, TensorIs
      <3> QED BY <3>1, <3>2
    <2> HIDE DEF e
    <2>7. e <= chs2[c].max_size BY <2>2, <2>3, <2>5, <2>6
    <2> QED BY <2>3, <2>7 DEF e
  <1> QED BY <1>1 DEF EndsWithin

\* Tensors up to t - 1 end where they did.
LEMMA EndsOn ==
  ASSUME NEW g, WellFormed(g), NEW t \in Ids(g), NEW chs \in Seq(Chunk), NEW chs2 \in Seq(Chunk),
         NEW addr \in [Ids(g) -> Place], NEW addr2,
         EndsWithin(g, t - 1, chs, addr), Grown(chs, chs2),
         \A p \in Ids(g) : p # t => addr2[p] = addr[p],
         Owned(g, t) => /\ addr2[t].chunk \in 1 .. Len(chs2)
                        /\ addr2[t].offset + AllocSize(g, t) <= chs2[addr2[t].chunk].max_size
  PROVE  EndsWithin(g, t, chs2, addr2)
  <1>0. t \in 1 .. Len(g) /\ Len(g) \in Nat /\ t - 1 \in Nat /\ t - 1 <= Len(g)
    BY DEF Ids, WellFormed
  <1>1. EndsWithin(g, t - 1, chs2, addr) BY <1>0, EndsGrow
  <1>2. ASSUME NEW p \in 1 .. t, Owned(g, p)
        PROVE  /\ addr2[p].chunk \in 1 .. Len(chs2)
               /\ addr2[p].offset + AllocSize(g, p) <= chs2[addr2[p].chunk].max_size
    <2>1. CASE p = t BY <1>2, <2>1
    <2>2. CASE p # t
      <3>1. p \in 1 .. t - 1 /\ p \in Ids(g) BY <1>0, <2>2 DEF Ids
      <3>2. addr2[p] = addr[p] BY <2>2, <3>1
      <3> QED BY <1>1, <1>2, <3>1, <3>2 DEF EndsWithin
    <2> QED BY <2>1, <2>2
  <1> QED BY <1>2 DEF EndsWithin

\* Tensors up to t - 1 lie where they did.
LEMMA PlacedOn ==
  ASSUME NEW g, WellFormed(g), NEW t \in Ids(g), NEW addr, NEW addr2,
         WellPlaced(g, addr, t - 1), \A p \in Ids(g) : p # t => addr2[p] = addr[p],
         Owned(g, t) => \A p \in 1 .. t - 1 :
                          Owned(g, p) /\ Needed(g, t - 1, p) => BesideOrOver(g, addr2, p, t)
  PROVE  WellPlaced(g, addr2, t)
  <1>0. t \in 1 .. Len(g) /\ Len(g) \in Nat BY DEF Ids, WellFormed
  <1>1. ASSUME NEW u \in 1 .. t, Owned(g, u), NEW p \in 1 .. u - 1, Owned(g, p), Needed(g, u - 1, p)
        PROVE  BesideOrOver(g, addr2, p, u)
    <2>1. CASE u = t BY <1>1, <2>1
    <2>2. CASE u # t
      <3>1. u \in 1 .. t - 1 /\ u \in Ids(g) /\ p \in Ids(g) /\ p # t BY <1>0, <2>2 DEF Ids
      <3>2. BesideOrOver(g, addr, p, u) BY <1>1, <3>1 DEF WellPlaced
      <3>3. addr2[u] = addr[u] /\ addr2[p] = addr[p] BY <2>2, <3>1
      <3> QED BY <3>2, <3>3 DEF BesideOrOver, Beside
    <2> QED BY <2>1, <2>2
  <1> QED BY <1>1 DEF WellPlaced

\* Before t is placed.
LEMMA BeforePlaced ==
  ASSUME NEW g, WellFormed(g), NEW t \in Ids(g), NEW s, PlaceInv(g, t - 1, MaxSrc, s)
  PROVE  /\ ~s.own[t] /\ t \notin Live(s)
         /\ Counted(g, t, 0, s)
         /\ \A p \in 1 .. t - 1 : Owned(g, p) /\ Needed(g, t - 1, p) => p \in Live(s)
         /\ SizeTo(g)[t - 1] \in Nat /\ SizeTo(g)[t] = SizeTo(g)[t - 1] + AllocSize(g, t)
         /\ SizeTo(g)[t - 1] + AllocSize(g, t) <= Endless
  <1>0. t \in 1 .. Len(g) /\ Len(g) \in Nat /\ t \in Nat /\ s \in PlaceState(g)
    BY DEF Ids, WellFormed, PlaceInv
  <1>1. ~s.own[t]
    <2>1. s.own[t] => t <= t - 1 BY DEF PlaceInv, OwnsNeeded
    <2> QED BY <1>0, <2>1
  <1>2. t \notin Live(s) BY <1>1 DEF Live
  <1>3. Counted(g, t, 0, s) BY NothingRead DEF PlaceInv, Counted
  <1>4. ASSUME NEW p \in 1 .. t - 1, Owned(g, p), Needed(g, t - 1, p) PROVE p \in Live(s)
    <2>1. s.own[p] BY <1>4 DEF PlaceInv, OwnsNeeded
    <2>2. p \in Ids(g) BY <1>0 DEF Ids
    <2> QED BY <1>0, <2>1, <2>2, StateIs
  <1>5. t - 1 \in 0 .. Len(g) /\ t \in 0 .. Len(g) BY <1>0
  <1>6. SizeTo(g)[t - 1] \in Nat /\ SizeTo(g)[t] = SizeTo(g)[t - 1] + AllocSize(g, t)
    BY <1>5, SizeToIs
  <1>7. SizeTo(g)[t] <= Endless BY <1>5, SizeToFits
  <1> QED BY <1>1, <1>2, <1>3, <1>4, <1>6, <1>7

\* A tensor gets memory of its own.
LEMMA SettleStep ==
  ASSUME NEW g, WellFormed(g), NEW t \in Ids(g), NEW s, PlaceInv(g, t - 1, MaxSrc, s),
         Owned(g, t),
         NEW s2, s2 = Settle(s, t, Alloc(s.chunks, AllocSize(g, t)))
  PROVE  PlaceInv(g, t, 0, s2)
  <1> DEFINE n == AllocSize(g, t)
             a == Alloc(s.chunks, n)
             m == SizeTo(g)[t - 1]
  <1>1. /\ s \in PlaceState(g)
        /\ Laid(Ids(g), s.chunks, Live(s), s.addr, Sizes(g))
        /\ EndlessLast(s.chunks, m)
        /\ EndsWithin(g, t - 1, s.chunks, s.addr) /\ WellPlaced(g, s.addr, t - 1)
        /\ OwnsNeeded(g, t - 1, s)
    BY DEF PlaceInv
  <1>2. /\ ~s.own[t] /\ t \notin Live(s)
        /\ Counted(g, t, 0, s)
        /\ \A p \in 1 .. t - 1 : Owned(g, p) /\ Needed(g, t - 1, p) => p \in Live(s)
        /\ m \in Nat /\ SizeTo(g)[t] = m + n /\ m + n <= Endless
    BY BeforePlaced
  <1>3. n \in Nat \ {0} BY TensorIs
  <1>4. /\ s.chunks \in Seq(Chunk) /\ s.children \in [Ids(g) -> Nat]
        /\ s.views \in [Ids(g) -> Nat] /\ s.own \in [Ids(g) -> BOOLEAN]
        /\ s.addr \in [Ids(g) -> Place]
    BY <1>1, StateIs
  <1>5. /\ s2.chunks = a.chunks /\ s2.children = s.children /\ s2.views = s.views
        /\ s2.own = [s.own EXCEPT ![t] = TRUE] /\ s2.addr = [s.addr EXCEPT ![t] = a.addr]
        /\ s2 = [chunks |-> s2.chunks, children |-> s2.children, views |-> s2.views,
                 own |-> s2.own, addr |-> s2.addr]
    <2>1. s \in PlaceState(g) /\ s2 = Settle(s, t, a) BY <1>1
    <2> HIDE DEF a
    <2> QED BY <2>1, SettleIs
  <1>6. t \in 1 .. Len(g) /\ Len(g) \in Nat /\ t \in Nat BY DEF Ids, WellFormed
  <1> HIDE DEF n, m
  <1>7. CanAlloc(s.chunks, n) BY <1>1, <1>2, <1>3, RoomLeft
  <1>8. Live(s2) = Live(s) \cup {t} BY <1>4, <1>5 DEF Live
  <1>9. Sizes(g) = [Sizes(g) EXCEPT ![t] = n] BY SizesAre DEF n
  <1>10. Laid(Ids(g), s2.chunks, Live(s2), s2.addr, Sizes(g))
    <2>1. Laid(Ids(g), s.chunks, Live(s), s.addr, Sizes(g)) /\ t \notin Live(s) BY <1>1, <1>2
    <2>2. /\ s2.chunks = Alloc(s.chunks, n).chunks
          /\ s2.addr = [s.addr EXCEPT ![t] = Alloc(s.chunks, n).addr]
      BY <1>5
    <2> QED BY <1>3, <1>7, <1>8, <1>9, <2>1, <2>2, LaidAlloc
  <1>11. /\ EndlessLast(s2.chunks, m + n) /\ Grown(s.chunks, s2.chunks)
         /\ a.addr \in Place /\ a.addr.chunk \in 1 .. Len(s2.chunks)
         /\ a.addr.offset + n <= s2.chunks[a.addr.chunk].max_size
    BY <1>1, <1>2, <1>3, <1>5, <1>7, AllocGrows
  <1> HIDE DEF a
  <1>12. s2 \in PlaceState(g)
    <2>1. s2.chunks \in Seq(Chunk) BY <1>10 DEF Laid, LaidTypes
    <2>2. s2.own \in [Ids(g) -> BOOLEAN] /\ s2.addr \in [Ids(g) -> Place] BY <1>4, <1>5, <1>11
    <2> QED BY <1>4, <1>5, <2>1, <2>2, IsAState
  <1>13. Counted(g, t, 0, s2) BY <1>2, <1>5 DEF Counted
  <1>14. \A p \in Ids(g) : p # t => s2.addr[p] = s.addr[p] /\ s2.own[p] = s.own[p]
    BY <1>4, <1>5
  <1>15. s2.addr[t] = a.addr /\ s2.own[t] BY <1>4, <1>5
  <1>16. OwnsNeeded(g, t, s2)
    <2>1. ASSUME NEW p \in Ids(g), s2.own[p] PROVE p <= t /\ Owned(g, p)
      <3>1. CASE p = t BY <1>6, <3>1
      <3>2. CASE p # t
        <4>1. p <= t - 1 /\ Owned(g, p) BY <1>1, <1>14, <2>1, <3>2 DEF OwnsNeeded
        <4>2. p \in Nat BY DEF Ids
        <4> QED BY <1>6, <4>1, <4>2
      <3> QED BY <3>1, <3>2
    <2>2. ASSUME NEW p \in 1 .. t, Owned(g, p), Needed(g, t, p) PROVE s2.own[p]
      <3>1. CASE p = t BY <1>15, <3>1
      <3>2. CASE p # t
        <4>1. p \in 1 .. t - 1 /\ p \in Ids(g) BY <1>6, <3>2 DEF Ids
        <4>2. Needed(g, t - 1, p)
          <5>1. t - 1 \in Nat /\ t - 1 <= t BY <1>6
          <5> QED BY <1>6, <2>2, <5>1, NeededBefore
        <4>3. p \in Live(s) BY <1>2, <2>2, <4>1, <4>2
        <4> QED BY <1>1, <1>14, <3>2, <4>1, <4>3, StateIs
      <3> QED BY <3>1, <3>2
    <2> QED BY <2>1, <2>2 DEF OwnsNeeded
  <1>17. EndsWithin(g, t, s2.chunks, s2.addr)
    <2>1. s2.chunks \in Seq(Chunk) BY <1>10 DEF Laid, LaidTypes
    <2>2. /\ s2.addr[t].chunk \in 1 .. Len(s2.chunks)
          /\ s2.addr[t].offset + AllocSize(g, t) <= s2.chunks[s2.addr[t].chunk].max_size
      BY <1>11, <1>15 DEF n
    <2>3. EndsWithin(g, t - 1, s.chunks, s.addr) /\ Grown(s.chunks, s2.chunks)
          /\ s.chunks \in Seq(Chunk) /\ s.addr \in [Ids(g) -> Place]
          /\ \A p \in Ids(g) : p # t => s2.addr[p] = s.addr[p]
      BY <1>1, <1>4, <1>11, <1>14
    <2> QED BY <2>1, <2>2, <2>3, EndsOn
  <1>18. WellPlaced(g, s2.addr, t)
    <2>1. ASSUME NEW p \in 1 .. t - 1, Owned(g, p), Needed(g, t - 1, p)
          PROVE  BesideOrOver(g, s2.addr, p, t)
      <3>1. p \in Live(s2) /\ t \in Live(s2) /\ p # t BY <1>2, <1>6, <1>8, <2>1
      <3>2. Beside(s2.addr, Sizes(g), p, t) BY <1>10, <3>1 DEF Laid, LaidApart
      <3> QED BY <3>2 DEF BesideOrOver
    <2> QED BY <1>1, <1>14, <2>1, PlacedOn
  <1>19. EndlessLast(s2.chunks, SizeTo(g)[t]) BY <1>2, <1>11
  <1> QED BY <1>10, <1>12, <1>13, <1>16, <1>17, <1>18, <1>19 DEF PlaceInv

\* Other tensors of the graph need no memory.
LEMMA SkipStep ==
  ASSUME NEW g, WellFormed(g), NEW t \in Ids(g), NEW s, PlaceInv(g, t - 1, MaxSrc, s),
         ~Owned(g, t)
  PROVE  PlaceInv(g, t, 0, s)
  <1>1. /\ s \in PlaceState(g)
        /\ Laid(Ids(g), s.chunks, Live(s), s.addr, Sizes(g))
        /\ EndlessLast(s.chunks, SizeTo(g)[t - 1])
        /\ EndsWithin(g, t - 1, s.chunks, s.addr) /\ WellPlaced(g, s.addr, t - 1)
        /\ OwnsNeeded(g, t - 1, s)
    BY DEF PlaceInv
  <1>2. /\ Counted(g, t, 0, s)
        /\ \A p \in 1 .. t - 1 : Owned(g, p) /\ Needed(g, t - 1, p) => p \in Live(s)
        /\ SizeTo(g)[t - 1] \in Nat /\ SizeTo(g)[t] = SizeTo(g)[t - 1] + AllocSize(g, t)
    BY BeforePlaced
  <1>3. AllocSize(g, t) \in Nat BY TensorIs
  <1>4. s.chunks \in Seq(Chunk) /\ s.addr \in [Ids(g) -> Place] BY <1>1, StateIs
  <1>6. t \in 1 .. Len(g) /\ Len(g) \in Nat /\ t \in Nat BY DEF Ids, WellFormed
  <1>7. OwnsNeeded(g, t, s)
    <2>1. ASSUME NEW p \in Ids(g), s.own[p] PROVE p <= t /\ Owned(g, p)
      <3>1. p <= t - 1 /\ Owned(g, p) BY <1>1, <2>1 DEF OwnsNeeded
      <3>2. p \in Nat BY DEF Ids
      <3> QED BY <1>6, <3>1, <3>2
    <2>2. ASSUME NEW p \in 1 .. t, Owned(g, p), Needed(g, t, p) PROVE s.own[p]
      <3>1. p # t BY <2>2
      <3>2. p \in 1 .. t - 1 BY <1>6, <3>1
      <3>3. Needed(g, t - 1, p)
        <4>1. t - 1 \in Nat /\ t - 1 <= t BY <1>6
        <4> QED BY <1>6, <2>2, <4>1, NeededBefore
      <3> QED BY <1>1, <2>2, <3>2, <3>3 DEF OwnsNeeded
    <2> QED BY <2>1, <2>2 DEF OwnsNeeded
  <1>8. Grown(s.chunks, s.chunks) BY <1>4, GrownNot
  <1>9. EndsWithin(g, t, s.chunks, s.addr) BY <1>1, <1>4, <1>8, EndsOn
  <1>10. WellPlaced(g, s.addr, t) BY <1>1, PlacedOn
  <1>11. EndlessLast(s.chunks, SizeTo(g)[t])
    <2>1. SizeTo(g)[t] \in Nat /\ SizeTo(g)[t - 1] <= SizeTo(g)[t] BY <1>2, <1>3
    <2> QED BY <1>1, <1>2, <1>4, <2>1, EndlessMore
  <1> QED BY <1>1, <1>2, <1>7, <1>9, <1>10, <1>11 DEF PlaceInv

\* The source that may be reused is not needed any more.
LEMMA ReusedIsDone ==
  ASSUME NEW g, WellFormed(g), NEW t \in Ids(g), NEW j \in 1 .. Len(g[t].src),
         NEW p, p = g[t].src[j], NEW s, Counted(g, t, 0, s), CanReuse(g, s, t, p)
  PROVE  ~Needed(g, t, p)
  <1>0. p \in Ids(g) /\ Len(g[t].src) \in 0 .. MaxSrc /\ MaxSrc \in Nat
    BY TensorIs, GraphAllocAssumption
  <1>1. ~g[p].out /\ s.children[p] = 1 /\ s.views[p] = 0 BY DEF CanReuse
  <1>2. Cardinality(ToRead(g, t, 0, p)) = 1 /\ Cardinality(ViewsLeft(g, t, 0, p)) = 0
    BY <1>0, <1>1 DEF Counted
  <1>3. IsFiniteSet(ToRead(g, t, 0, p)) /\ IsFiniteSet(ViewsLeft(g, t, 0, p)) BY FiniteReads
  <1>4. PICK x : ToRead(g, t, 0, p) = {x} BY <1>2, <1>3, FS_Singleton
  <1>5. ViewsLeft(g, t, 0, p) = {} BY <1>2, <1>3, FS_EmptySet
  <1>6. /\ ToRead(g, t, MaxSrc, p) \subseteq ToRead(g, t, 0, p)
        /\ ViewsLeft(g, t, MaxSrc, p) \subseteq ViewsLeft(g, t, 0, p)
    <2>1. 0 \in 0 .. Len(g[t].src) BY <1>0
    <2> QED BY <2>1, DoneAfter
  <1>7. <<t, j>> \in ToRead(g, t, 0, p)
    <2>1. <<t, j>> \in ReadAt(g, p) BY SourceRead
    <2>2. j > 0 BY <1>0
    <2> QED BY <2>1, <2>2 DEF ToRead
  <1>8. <<t, j>> \notin ToRead(g, t, MaxSrc, p)
    <2>1. t \in Nat /\ ~(t > t) BY DEF Ids
    <2>2. ~(j > MaxSrc) BY <1>0
    <2> QED BY <2>1, <2>2 DEF ToRead
  <1>9. ToRead(g, t, MaxSrc, p) = {} BY <1>4, <1>6, <1>7, <1>8
  <1> QED BY <1>1, <1>5, <1>6, <1>9 DEF Needed

\* What a source has more than a tensor in its place needs is released.
LEMMA FreeExtraIs ==
  ASSUME NEW g, WellFormed(g), NEW t \in Ids(g), NEW p \in Ids(g), NEW s \in PlaceState(g),
         AllocSize(g, t) <= AllocSize(g, p),
         Laid(Ids(g), s.chunks, Live(s), s.addr, Sizes(g)), p \in Live(s),
         NEW m \in Nat, EndlessLast(s.chunks, m), m <= Endless
  PROVE  /\ Laid(Ids(g), FreeExtraSpace(g, s, t, p), Live(s), s.addr,
                 [Sizes(g) EXCEPT ![p] = AllocSize(g, t)])
         /\ EndlessLast(FreeExtraSpace(g, s, t, p), m)
         /\ Grown(s.chunks, FreeExtraSpace(g, s, t, p))
         /\ FreeExtraSpace(g, s, t, p) \in Seq(Chunk)
  <1> DEFINE n == AllocSize(g, t)
             k == AllocSize(g, p)
             sz == Sizes(g)
             sz2 == [Sizes(g) EXCEPT ![p] = AllocSize(g, t)]
             chs2 == FreeExtraSpace(g, s, t, p)
  <1>a. n \in Nat \ {0} /\ k \in Nat \ {0} /\ n <= k BY TensorIs
  <1>b. sz \in [Ids(g) -> Nat] /\ sz[p] = k /\ sz2 = [sz EXCEPT ![p] = n] BY SizesAre
  <1>c. chs2 = IF k > n
               THEN FreeBytes(s.chunks, [s.addr[p] EXCEPT !.offset = s.addr[p].offset + n], k - n)
               ELSE s.chunks
    BY DEF FreeExtraSpace
  <1>d. Laid(Ids(g), s.chunks, Live(s), s.addr, sz) OBVIOUS
  <1> HIDE DEF n, k, sz, sz2, chs2
  <1>0. s.chunks \in Seq(Chunk) /\ s.addr \in [Ids(g) -> Place] BY StateIs
  <1>1. CASE n = k
    <2>1. ~(k > n) BY <1>a, <1>1
    <2>2. chs2 = s.chunks BY <1>c, <2>1
    <2>3. sz2 = sz BY <1>b, <1>1
    <2> QED BY <1>0, <1>d, <2>2, <2>3, GrownNot DEF n, k, sz, sz2, chs2
  <1>2. CASE n # k
    <2> DEFINE at0 == s.addr[p]
               addr == [s.addr[p] EXCEPT !.offset = s.addr[p].offset + n]
               x == k - n
    <2>1. n < k /\ k > n /\ x \in Nat \ {0} BY <1>a, <1>2
    <2>2. chs2 = FreeBytes(s.chunks, addr, x) BY <1>c, <2>1
    <2>3. at0 \in Place /\ at0.offset \in Nat BY <1>0 DEF Place
    <2>4. addr \in Place /\ addr.chunk = s.addr[p].chunk /\ addr.offset = s.addr[p].offset + n
      BY <1>a, <2>3 DEF Place
    <2>5. /\ s.addr[p].offset + n \in Nat /\ s.addr[p].offset <= s.addr[p].offset + n
          /\ (s.addr[p].offset + n) + x = s.addr[p].offset + k
      BY <1>a, <2>3
    <2>6. x = sz[p] - n BY <1>b
    <2> HIDE DEF addr, x, at0
    <2>7. Laid(Ids(g), chs2, Live(s), s.addr, sz2)
      <3>1. chs2 = FreeBytes(s.chunks, addr, sz[p] - n) /\ n < sz[p] BY <1>b, <2>1, <2>2, <2>6
      <3> QED BY <1>a, <1>b, <1>d, <2>4, <3>1, LaidShrink
    <2>8. EndlessLast(chs2, m) /\ Grown(s.chunks, chs2)
      BY <1>a, <1>b, <1>d, <2>1, <2>2, <2>4, <2>5, FreeGrows
    <2>9. chs2 \in Seq(Chunk) BY <2>7 DEF Laid, LaidTypes
    <2> QED BY <2>7, <2>8, <2>9 DEF n, k, sz, sz2, chs2
  <1> QED BY <1>1, <1>2

\* A tensor that is computed in place gets the memory of a source.
LEMMA OverlayStep ==
  ASSUME NEW g, WellFormed(g), NEW t \in Ids(g), NEW s, PlaceInv(g, t - 1, MaxSrc, s),
         Owned(g, t),
         g[t].op = "inplace", NEW j \in 1 .. Len(g[t].src),
         NEW p, p = g[t].src[j], CanReuse(g, s, t, p), NEW s2, s2 = Overlay(g, s, t, p)
  PROVE  PlaceInv(g, t, 0, s2)
  <1> DEFINE n == AllocSize(g, t)
             k == AllocSize(g, p)
             m == SizeTo(g)[t - 1]
             chs2 == s2.chunks
  <1>1. /\ s \in PlaceState(g)
        /\ Laid(Ids(g), s.chunks, Live(s), s.addr, Sizes(g))
        /\ EndlessLast(s.chunks, m)
        /\ EndsWithin(g, t - 1, s.chunks, s.addr) /\ WellPlaced(g, s.addr, t - 1)
        /\ OwnsNeeded(g, t - 1, s)
    BY DEF PlaceInv
  <1>2. /\ ~s.own[t] /\ t \notin Live(s)
        /\ Counted(g, t, 0, s)
        /\ \A q \in 1 .. t - 1 : Owned(g, q) /\ Needed(g, t - 1, q) => q \in Live(s)
        /\ m \in Nat /\ SizeTo(g)[t] = m + n /\ m + n <= Endless
    BY BeforePlaced
  <1>3. /\ p \in Ids(g) /\ p \in 1 .. t - 1 /\ t \in 1 .. Len(g) /\ Len(g) \in Nat /\ t \in Nat
        /\ p # t
    BY TensorIs DEF Ids
  <1>4. /\ s.chunks \in Seq(Chunk) /\ s.children \in [Ids(g) -> Nat]
        /\ s.views \in [Ids(g) -> Nat] /\ s.own \in [Ids(g) -> BOOLEAN]
        /\ s.addr \in [Ids(g) -> Place] /\ \A q : q \in Live(s) <=> q \in Ids(g) /\ s.own[q]
    BY <1>1, StateIs
  <1>5. /\ chs2 = FreeExtraSpace(g, s, t, p) /\ s2.children = s.children /\ s2.views = s.views
        /\ s2.own = [s.own EXCEPT ![t] = TRUE, ![p] = FALSE]
        /\ s2.addr = [s.addr EXCEPT ![t] = s.addr[p]]
        /\ s2 = [chunks |-> s2.chunks, children |-> s2.children, views |-> s2.views,
                 own |-> s2.own, addr |-> s2.addr]
    <2>1. s \in PlaceState(g) BY <1>1
    <2>2. /\ s2.chunks = FreeExtraSpace(g, s, t, p) /\ s2.children = s.children
          /\ s2.views = s.views
          /\ s2.own = [s.own EXCEPT ![t] = TRUE, ![p] = FALSE]
          /\ s2.addr = [s.addr EXCEPT ![t] = s.addr[p]]
          /\ s2 = [chunks |-> s2.chunks, children |-> s2.children, views |-> s2.views,
                   own |-> s2.own, addr |-> s2.addr]
      <3> HIDE DEF n, k, m, chs2
      <3> QED BY <2>1 DEF Overlay, PlaceState
    <2> QED BY <2>2
  <1>6. /\ n \in Nat \ {0} /\ k \in Nat \ {0} /\ n <= k
        /\ g[t].size = g[p].size /\ s.own[p]
    <2>1. n \in Nat \ {0} /\ k \in Nat \ {0} BY <1>3, TensorIs
    <2>2. g[t].size = g[p].size /\ s.own[p] BY DEF CanReuse
    <2>3. p \in Sources(g, t) BY DEF Sources
    <2>4. InPlaceFits(g) BY DEF WellFormed
    <2> QED BY <2>1, <2>2, <2>3, <2>4 DEF InPlaceFits
  <1>7. ~Needed(g, t, p) BY <1>2, ReusedIsDone
  <1>8. p \in Live(s) /\ Live(s2) = (Live(s) \ {p}) \cup {t}
    <2>1. p \in Live(s) BY <1>3, <1>4, <1>6
    <2>2. \A q \in Ids(g) : s2.own[q] <=> (q = t \/ (q # p /\ s.own[q])) BY <1>3, <1>4, <1>5
    <2>3. DOMAIN s2.own = Ids(g) BY <1>4, <1>5
    <2>4. Live(s2) = {q \in Ids(g) : s2.own[q]} BY <2>3 DEF Live
    <2> QED BY <1>3, <1>4, <2>1, <2>2, <2>4
  <1> HIDE DEF n, k, m, chs2
  <1>9. /\ Laid(Ids(g), chs2, Live(s2), s2.addr, Sizes(g))
        /\ EndlessLast(chs2, m) /\ Grown(s.chunks, chs2) /\ chs2 \in Seq(Chunk)
    <2> DEFINE sz1 == [Sizes(g) EXCEPT ![p] = n]
    <2>0. /\ Sizes(g) \in [Ids(g) -> Nat] /\ Sizes(g)[p] = k /\ Sizes(g)[t] = n
      BY <1>3, SizesAre DEF n, k
    <2>1. sz1 \in [Ids(g) -> Nat] /\ sz1[p] = n /\ \A q \in Ids(g) : q # p => sz1[q] = Sizes(g)[q]
      BY <1>3, <1>6, <2>0
    <2>2. /\ Laid(Ids(g), chs2, Live(s), s.addr, sz1)
          /\ EndlessLast(chs2, m) /\ Grown(s.chunks, chs2) /\ chs2 \in Seq(Chunk)
      <3>1. m <= Endless BY <1>2, <1>6, FreeListAssumption
      <3>2. AllocSize(g, t) <= AllocSize(g, p) BY <1>6 DEF n, k
      <3>3. s \in PlaceState(g) /\ Laid(Ids(g), s.chunks, Live(s), s.addr, Sizes(g))
            /\ EndlessLast(s.chunks, m) /\ m \in Nat /\ p \in Ids(g) /\ p \in Live(s)
        BY <1>1, <1>2, <1>3, <1>8
      <3>4. sz1 = [Sizes(g) EXCEPT ![p] = AllocSize(g, t)] BY DEF n
      <3>5. chs2 = FreeExtraSpace(g, s, t, p) BY <1>5
      <3> HIDE DEF sz1
      <3> QED BY <3>1, <3>2, <3>3, <3>4, <3>5, FreeExtraIs
    <2> HIDE DEF sz1
    <2>3. Sizes(g)[t] = sz1[p] /\ \A q \in Live(s) \ {p} : Sizes(g)[q] = sz1[q]
      BY <1>4, <2>0, <2>1
    <2>4. Laid(Ids(g), chs2, Live(s2), s2.addr, Sizes(g))
      <3>1. s2.addr = [s.addr EXCEPT ![t] = s.addr[p]] /\ t \notin Live(s) BY <1>2, <1>5
      <3> QED BY <1>8, <2>0, <2>2, <2>3, <3>1, LaidMove
    <2> QED BY <2>2, <2>4
  <1>10. \A q \in Ids(g) : q # t => s2.addr[q] = s.addr[q] /\ (q # p => s2.own[q] = s.own[q])
    BY <1>3, <1>4, <1>5
  <1>11. s2.addr[t] = s.addr[p] /\ s2.own[t] BY <1>3, <1>4, <1>5
  <1>12. s2 \in PlaceState(g)
    <2>1. s2.own \in [Ids(g) -> BOOLEAN] BY <1>4, <1>5
    <2>2. s2.addr \in [Ids(g) -> Place] BY <1>3, <1>4, <1>5
    <2>3. s2.chunks \in Seq(Chunk) BY <1>9 DEF chs2
    <2> QED BY <1>4, <1>5, <2>1, <2>2, <2>3, IsAState
  <1>13. Counted(g, t, 0, s2) BY <1>2, <1>5 DEF Counted
  <1>14. OwnsNeeded(g, t, s2)
    <2>1. ASSUME NEW q \in Ids(g), s2.own[q] PROVE q <= t /\ Owned(g, q)
      <3>1. CASE q = t BY <1>3, <3>1
      <3>2. CASE q # t
        <4>1. s.own[q] BY <1>3, <1>4, <1>5, <2>1, <3>2
        <4>2. q <= t - 1 /\ Owned(g, q) BY <1>1, <4>1 DEF OwnsNeeded
        <4>3. q \in Nat BY DEF Ids
        <4> QED BY <1>3, <4>2, <4>3
      <3> QED BY <3>1, <3>2
    <2>2. ASSUME NEW q \in 1 .. t, Owned(g, q), Needed(g, t, q) PROVE s2.own[q]
      <3>1. CASE q = t BY <1>11, <3>1
      <3>2. CASE q # t
        <4>1. q \in 1 .. t - 1 /\ q \in Ids(g) BY <1>3, <3>2 DEF Ids
        <4>2. Needed(g, t - 1, q)
          <5>1. t - 1 \in Nat /\ t - 1 <= t BY <1>3
          <5> QED BY <1>3, <2>2, <5>1, NeededBefore
        <4>3. s.own[q] BY <1>2, <1>4, <2>2, <4>1, <4>2
        <4>4. q # p BY <1>7, <2>2
        <4> QED BY <1>10, <3>2, <4>1, <4>3, <4>4
      <3> QED BY <3>1, <3>2
    <2> QED BY <2>1, <2>2 DEF OwnsNeeded
  <1>15. EndsWithin(g, t, s2.chunks, s2.addr)
    <2> DEFINE c == s.addr[p].chunk
               o == s.addr[p].offset
    <2>1. c \in 1 .. Len(s.chunks) /\ o + k <= s.chunks[c].max_size
      <3>1. Owned(g, p) BY <1>1, <1>3, <1>6 DEF OwnsNeeded
      <3> QED BY <1>1, <1>3, <3>1 DEF EndsWithin, k
    <2>2. c \in 1 .. Len(chs2) /\ s.chunks[c].max_size <= chs2[c].max_size
      <3>1. Len(s.chunks) \in Nat /\ Len(chs2) \in Nat BY <1>4, <1>9
      <3>2. Grown(s.chunks, chs2) BY <1>9
      <3> HIDE DEF c
      <3>3. c \in 1 .. Len(s.chunks) BY <2>1
      <3> QED BY <3>1, <3>2, <3>3 DEF Grown
    <2>3. s.chunks[c].max_size \in Nat /\ chs2[c].max_size \in Nat
      <3>1. s.chunks[c] \in Chunk /\ chs2[c] \in Chunk BY <1>4, <1>9, <2>1, <2>2, ElementOfSeq
      <3> QED BY <3>1 DEF Chunk
    <2>4. o \in Nat BY <1>3, <1>4 DEF Place
    <2> HIDE DEF o, c
    <2>5. o + n <= chs2[c].max_size BY <1>6, <2>1, <2>2, <2>3, <2>4
    <2>6. /\ s2.addr[t].chunk \in 1 .. Len(s2.chunks)
          /\ s2.addr[t].offset + AllocSize(g, t) <= s2.chunks[s2.addr[t].chunk].max_size
      BY <1>5, <1>11, <2>2, <2>5 DEF n, chs2, o, c
    <2>7. EndsWithin(g, t - 1, s.chunks, s.addr) /\ Grown(s.chunks, s2.chunks)
          /\ s.chunks \in Seq(Chunk) /\ s2.chunks \in Seq(Chunk) /\ s.addr \in [Ids(g) -> Place]
          /\ \A q \in Ids(g) : q # t => s2.addr[q] = s.addr[q]
      BY <1>1, <1>4, <1>9, <1>10 DEF chs2
    <2> QED BY <2>6, <2>7, EndsOn
  <1>16. WellPlaced(g, s2.addr, t)
    <2>1. ASSUME NEW q \in 1 .. t - 1, Owned(g, q), Needed(g, t - 1, q)
          PROVE  BesideOrOver(g, s2.addr, q, t)
      <3>1. CASE q = p
        <4>1. s2.addr[t] = s2.addr[p] BY <1>3, <1>10, <1>11
        <4> QED BY <1>6, <1>7, <3>1, <4>1 DEF BesideOrOver
      <3>2. CASE q # p
        <4>1. q \in Live(s2) /\ t \in Live(s2) /\ q # t BY <1>2, <1>3, <1>8, <2>1, <3>2
        <4>2. Beside(s2.addr, Sizes(g), q, t) BY <1>9, <4>1 DEF Laid, LaidApart
        <4> QED BY <4>2 DEF BesideOrOver
      <3> QED BY <3>1, <3>2
    <2>2. WellPlaced(g, s.addr, t - 1) /\ \A q \in Ids(g) : q # t => s2.addr[q] = s.addr[q]
      BY <1>1, <1>10
    <2> QED BY <2>1, <2>2, PlacedOn
  <1>17. EndlessLast(s2.chunks, SizeTo(g)[t])
    <2>1. m + n \in Nat /\ m <= m + n BY <1>2, <1>6
    <2> QED BY <1>2, <1>9, <2>1, EndlessMore DEF chs2
  <1>18. Laid(Ids(g), s2.chunks, Live(s2), s2.addr, Sizes(g)) BY <1>9 DEF chs2
  <1> QED BY <1>12, <1>13, <1>14, <1>15, <1>16, <1>17, <1>18 DEF PlaceInv

\* What is taken from a graph by ggml_gallocr_allocate_node: memory of its own, the
\* memory of a source, or none.
LEMMA AllocateNodeStep ==
  ASSUME NEW g, WellFormed(g), NEW t \in Ids(g), NEW s, PlaceInv(g, t - 1, MaxSrc, s)
  PROVE  PlaceInv(g, t, 0, AllocateNode(g, s, t))
  <1> DEFINE R == Reusable(g, s, t)
  <1>1. ~s.own[t] BY BeforePlaced
  <1>2. CASE ~Owned(g, t)
    <2>1. AllocateNode(g, s, t) = s BY <1>2 DEF AllocateNode
    <2> QED BY <1>2, <2>1, SkipStep
  <1>3. CASE Owned(g, t) /\ g[t].op = "inplace" /\ R # {}
    <2> DEFINE j == First(R)
    <2>1. R \subseteq 1 .. Len(g[t].src) /\ Len(g[t].src) \in Nat
      BY TensorIs, GraphAllocAssumption DEF Reusable
    <2> HIDE DEF R
    <2>2. j \in R BY <1>3, <2>1, FirstLast
    <2>3. AllocateNode(g, s, t) = Overlay(g, s, t, g[t].src[j])
      BY <1>1, <1>3 DEF AllocateNode, R
    <2> HIDE DEF j
    <2>4. j \in 1 .. Len(g[t].src) /\ CanReuse(g, s, t, g[t].src[j]) BY <2>2 DEF R, Reusable
    <2> QED BY <1>3, <2>3, <2>4, OverlayStep
  <1>4. CASE Owned(g, t) /\ ~(g[t].op = "inplace" /\ R # {})
    <2>1. AllocateNode(g, s, t) = Settle(s, t, Alloc(s.chunks, AllocSize(g, t)))
      BY <1>1, <1>4 DEF AllocateNode
    <2> QED BY <1>4, <2>1, SettleStep
  <1> QED BY <1>2, <1>3, <1>4

\* The sources of a node have their memory: they came before it, and are needed.
LEMMA SourcesPlaced ==
  ASSUME NEW g, WellFormed(g), NEW t \in Ids(g), NEW s, PlaceInv(g, t - 1, MaxSrc, s)
  PROVE  AllocateSources(g, s, t) = s
  <1> DEFINE N == Len(g[t].src)
             src(j) == g[t].src[j]
             F == CHOOSE f : f = [j \in 0 .. N |->
                    IF j = 0 THEN s ELSE AllocateNode(g, f[j - 1], g[t].src[j])]
             c == [j \in 0 .. N |-> s]
  <1>0. N \in Nat /\ t \in Nat BY TensorIs, GraphAllocAssumption DEF Ids
  <1>1. AllocateSources(g, s, t) = F[N] BY DEF AllocateSources
  <1>2. \A j \in 1 .. N : AllocateNode(g, s, g[t].src[j]) = s
    <2> SUFFICES ASSUME NEW j \in 1 .. N, NEW p, p = g[t].src[j] PROVE AllocateNode(g, s, p) = s
      OBVIOUS
    <2>1. p \in 1 .. t - 1 BY TensorIs
    <2>2. Owned(g, p) => s.own[p]
      <3>1. <<t, j>> \in ReadAt(g, p) BY SourceRead
      <3>2. t > t - 1 BY <1>0
      <3>3. <<t, j>> \in ToRead(g, t - 1, MaxSrc, p) BY <3>1, <3>2 DEF ToRead
      <3>4. Needed(g, t - 1, p) BY <3>3 DEF Needed
      <3> QED BY <2>1, <3>4, BeforePlaced, StateIs DEF PlaceInv
    <2> QED BY <2>2 DEF AllocateNode
  <1> HIDE DEF N
  <1>3. c = [j \in 0 .. N |-> IF j = 0 THEN s ELSE AllocateNode(g, c[j - 1], g[t].src[j])]
    <2>1. \A j \in 0 .. N : j # 0 => j \in 1 .. N /\ j - 1 \in 0 .. N BY <1>0
    <2>2. \A j \in 0 .. N : c[j] = s OBVIOUS
    <2>3. \A j \in 0 .. N : s = IF j = 0 THEN s ELSE AllocateNode(g, c[j - 1], g[t].src[j])
      <3> HIDE DEF c
      <3> QED BY <1>2, <2>1, <2>2
    <2> QED BY <2>3
  <1> HIDE DEF c
  <1>4. F = [j \in 0 .. N |-> IF j = 0 THEN s ELSE AllocateNode(g, F[j - 1], g[t].src[j])]
    BY <1>3
  <1> HIDE DEF F
  <1>5. F[0] = s /\ \A j \in 1 .. N : F[j] = AllocateNode(g, F[j - 1], g[t].src[j])
    <2>1. 0 \in 0 .. N /\ \A j \in 1 .. N : j \in 0 .. N /\ j # 0 BY <1>0
    <2> QED BY <1>4, <2>1
  <1>6. \A j \in 0 .. N : F[j] = s
    <2> DEFINE S == {j \in 0 .. N : F[j] = s}
    <2>1. 0 \in S BY <1>0, <1>5
    <2>2. \A j \in 1 .. N : j - 1 \in S => j \in S BY <1>0, <1>2, <1>5
    <2> HIDE DEF S
    <2>3. \A j \in 0 .. N : j \in S BY <1>0, <2>1, <2>2, Induct
    <2> QED BY <2>3 DEF S
  <1>7. N \in 0 .. N BY <1>0
  <1> QED BY <1>1, <1>6, <1>7 DEF F, N

\* The counters may change, and what is counted.
LEMMA CountersStep ==
  ASSUME NEW g, NEW t, NEW i, NEW j, NEW s, PlaceInv(g, t, i, s),
         NEW s2 \in PlaceState(g), s2.chunks = s.chunks, s2.own = s.own, s2.addr = s.addr,
         Counted(g, t, j, s2)
  PROVE  PlaceInv(g, t, j, s2)
  <1>1. Live(s2) = Live(s) BY DEF Live
  <1> QED BY <1>1 DEF PlaceInv, OwnsNeeded

\* A tensor that nobody needs any more is released.
LEMMA FreeUnusedStep ==
  ASSUME NEW g, WellFormed(g), NEW t \in Ids(g), NEW j \in 0 .. Len(g[t].src), NEW s,
         PlaceInv(g, t, j, s), NEW q \in Ids(g)
  PROVE  PlaceInv(g, t, j, FreeUnused(g, s, q))
  <1>1. CASE ~(s.views[q] = 0 /\ s.children[q] = 0 /\ s.own[q]) \/ g[q].out
    <2>1. FreeUnused(g, s, q) = s BY <1>1 DEF FreeUnused, FreeNode
    <2> QED BY <2>1
  <1>2. CASE s.views[q] = 0 /\ s.children[q] = 0 /\ s.own[q] /\ ~g[q].out
    <2> DEFINE s2 == FreeUnused(g, s, q)
               n == AllocSize(g, q)
               m == SizeTo(g)[t]
    <2>1. /\ s \in PlaceState(g) /\ Counted(g, t, j, s) /\ OwnsNeeded(g, t, s)
          /\ Laid(Ids(g), s.chunks, Live(s), s.addr, Sizes(g))
          /\ EndlessLast(s.chunks, m)
          /\ EndsWithin(g, t, s.chunks, s.addr) /\ WellPlaced(g, s.addr, t)
      BY DEF PlaceInv
    <2>2. /\ s.chunks \in Seq(Chunk) /\ s.children \in [Ids(g) -> Nat]
          /\ s.views \in [Ids(g) -> Nat] /\ s.own \in [Ids(g) -> BOOLEAN]
          /\ s.addr \in [Ids(g) -> Place] /\ \A p : p \in Live(s) <=> p \in Ids(g) /\ s.own[p]
      BY <2>1, StateIs
    <2>3. s2 = FreeNode(g, s, q) BY <1>2 DEF FreeUnused
    <2> HIDE DEF s2
    <2>4. /\ s2.chunks = FreeBytes(s.chunks, s.addr[q], n)
          /\ s2.children = s.children /\ s2.views = s.views
          /\ s2.own = [s.own EXCEPT ![q] = FALSE] /\ s2.addr = s.addr
          /\ s2 = [chunks |-> s2.chunks, children |-> s2.children, views |-> s2.views,
                   own |-> s2.own, addr |-> s2.addr]
      BY <1>2, <2>1, <2>3, FreeNodeIs
    <2>5. ~Needed(g, t, q)
      <3>1. Cardinality(ToRead(g, t, j, q)) = 0 /\ Cardinality(ViewsLeft(g, t, j, q)) = 0
        BY <1>2, <2>1 DEF Counted
      <3>2. IsFiniteSet(ToRead(g, t, j, q)) /\ IsFiniteSet(ViewsLeft(g, t, j, q)) BY FiniteReads
      <3>3. ToRead(g, t, j, q) = {} /\ ViewsLeft(g, t, j, q) = {} BY <3>1, <3>2, FS_EmptySet
      <3>4. ToRead(g, t, MaxSrc, q) = {} /\ ViewsLeft(g, t, MaxSrc, q) = {}
        BY <3>3, DoneAfter
      <3> QED BY <1>2, <3>4 DEF Needed
    <2>6. /\ q \in Live(s) /\ Live(s2) = Live(s) \ {q}
          /\ \A p \in Ids(g) : s2.own[p] <=> s.own[p] /\ p # q
      <3>1. \A p \in Ids(g) : s2.own[p] <=> s.own[p] /\ p # q BY <2>2, <2>4
      <3>2. DOMAIN s2.own = Ids(g) BY <2>2, <2>4
      <3>3. Live(s2) = {p \in Ids(g) : s2.own[p]} BY <3>2 DEF Live
      <3> QED BY <1>2, <2>2, <3>1, <3>3
    <2>7. /\ n \in Nat \ {0} /\ Sizes(g) \in [Ids(g) -> Nat] /\ Sizes(g)[q] = n
          /\ m \in Nat /\ m <= Endless
      <3>1. t \in 0 .. Len(g) BY DEF Ids
      <3> QED BY <3>1, SizesAre, TensorIs, SizeToIs, SizeToFits
    <2> HIDE DEF n, m
    <2>8. Laid(Ids(g), s2.chunks, Live(s2), s2.addr, Sizes(g))
      <3>1. s2.chunks = FreeBytes(s.chunks, s.addr[q], Sizes(g)[q]) BY <2>4, <2>7
      <3>2. Laid(Ids(g), s.chunks, Live(s), s.addr, Sizes(g)) /\ q \in Live(s)
            /\ Live(s2) = Live(s) \ {q} /\ s.addr \in [Ids(g) -> Place]
            /\ Sizes(g) \in [Ids(g) -> Nat]
        BY <2>1, <2>2, <2>6, <2>7
      <3>3. Laid(Ids(g), s2.chunks, Live(s2), s.addr, Sizes(g)) BY <3>1, <3>2, LaidFree
      <3> QED BY <2>4, <3>3
    <2>9. EndlessLast(s2.chunks, m) /\ Grown(s.chunks, s2.chunks)
      <3> DEFINE a == s.addr[q]
                 o == s.addr[q].offset
      <3>1. a \in Place /\ o \in Nat /\ a.chunk = s.addr[q].chunk /\ a.offset = o
            /\ s.addr[q].offset <= o /\ o + n = s.addr[q].offset + Sizes(g)[q]
        BY <2>2, <2>7 DEF Place
      <3>2. s2.chunks = FreeBytes(s.chunks, a, n) BY <2>4
      <3> HIDE DEF a, o
      <3> QED BY <2>1, <2>6, <2>7, <3>1, <3>2, FreeGrows
    <2>10. s2 \in PlaceState(g)
      <3>1. s2.own \in [Ids(g) -> BOOLEAN] BY <2>2, <2>4
      <3>2. s2.chunks \in Seq(Chunk) BY <2>8 DEF Laid, LaidTypes
      <3> QED BY <2>2, <2>4, <3>1, <3>2, IsAState
    <2>11. Counted(g, t, j, s2) BY <2>1, <2>4 DEF Counted
    <2>12. OwnsNeeded(g, t, s2)
      <3>1. \A p \in Ids(g) : s2.own[p] => p <= t /\ Owned(g, p) BY <2>1, <2>6 DEF OwnsNeeded
      <3>2. ASSUME NEW p \in 1 .. t, Owned(g, p), Needed(g, t, p) PROVE s2.own[p]
        <4>1. s.own[p] /\ p # q BY <2>1, <2>5, <3>2 DEF OwnsNeeded
        <4>2. p \in Ids(g)
          <5>1. t \in 1 .. Len(g) /\ Len(g) \in Nat BY DEF Ids, WellFormed
          <5> QED BY <5>1 DEF Ids
        <4> QED BY <2>6, <4>1, <4>2
      <3> QED BY <3>1, <3>2 DEF OwnsNeeded
    <2>13. EndsWithin(g, t, s2.chunks, s2.addr)
      <3>1. t \in Nat /\ t <= Len(g) BY DEF Ids
      <3>2. s2.chunks \in Seq(Chunk) BY <2>8 DEF Laid, LaidTypes
      <3>3. EndsWithin(g, t, s2.chunks, s.addr) BY <2>1, <2>2, <2>9, <3>1, <3>2, EndsGrow
      <3> QED BY <2>4, <3>3
    <2>14. WellPlaced(g, s2.addr, t) BY <2>1, <2>4
    <2> QED BY <2>8, <2>9, <2>10, <2>11, <2>12, <2>13, <2>14 DEF PlaceInv, m, s2
  <1> QED BY <1>1, <1>2

\* A node has read its source: the counters, and what is not needed any more.
LEMMA UpdateParentStep ==
  ASSUME NEW g, WellFormed(g), NEW t \in Ids(g), NEW j \in 1 .. Len(g[t].src), NEW s,
         PlaceInv(g, t, j - 1, s)
  PROVE  PlaceInv(g, t, j, UpdateParent(g, s, g[t].src[j]))
  <1> DEFINE p == g[t].src[j]
             s1 == CountDown(s, p)
  <1>0. p \in Ids(g) /\ j \in 0 .. Len(g[t].src) BY TensorIs
  <1>1. s \in PlaceState(g) /\ Counted(g, t, j - 1, s) BY DEF PlaceInv
  <1>2. /\ s.chunks \in Seq(Chunk) /\ s.children \in [Ids(g) -> Nat]
        /\ s.views \in [Ids(g) -> Nat] /\ s.own \in [Ids(g) -> BOOLEAN]
        /\ s.addr \in [Ids(g) -> Place]
    BY <1>1, StateIs
  <1>3. UpdateParent(g, s, g[t].src[j]) = AfterRead(g, s1, p) BY DEF UpdateParent, CountDown
  <1>5. p = g[t].src[j] OBVIOUS
  <1> HIDE DEF p, s1
  <1>4. /\ s1.chunks = s.chunks /\ s1.children = [s.children EXCEPT ![p] = s.children[p] - 1]
        /\ s1.views = s.views /\ s1.own = s.own /\ s1.addr = s.addr
        /\ s1 = [chunks |-> s1.chunks, children |-> s1.children, views |-> s1.views,
                 own |-> s1.own, addr |-> s1.addr]
    BY <1>1, CountDownIs DEF s1
  <1>6. ASSUME NEW q \in Ids(g) PROVE s1.children[q] = Cardinality(ToRead(g, t, j, q))
    <2>0. ReadOff(g, t, j) BY OneRead
    <2>1. s.children[q] = Cardinality(ToRead(g, t, j - 1, q)) BY <1>1 DEF Counted
    <2>2. ToRead(g, t, j, q) = ToRead(g, t, j - 1, q) \ {<<t, j>>} BY <2>0 DEF ReadOff
    <2>3. <<t, j>> \in ToRead(g, t, j - 1, q) <=> q = p BY <1>5, <2>0 DEF ReadOff
    <2>4. IsFiniteSet(ToRead(g, t, j - 1, q)) BY FiniteReads
    <2>5. Cardinality(ToRead(g, t, j, q)) =
            IF q = p THEN s.children[q] - 1 ELSE s.children[q]
      <3> DEFINE A == ToRead(g, t, j - 1, q)
                 x == <<t, j>>
      <3> HIDE DEF A, x
      <3>1. Cardinality(A \ {x}) = IF x \in A THEN Cardinality(A) - 1 ELSE Cardinality(A)
        BY <2>4, FS_RemoveElement DEF A
      <3> QED BY <2>1, <2>2, <2>3, <3>1 DEF A, x
    <2>6. s1.children[q] = IF q = p THEN s.children[q] - 1 ELSE s.children[q]
      BY <1>0, <1>2, <1>4
    <2> QED BY <2>5, <2>6
  <1>7. s1 \in PlaceState(g)
    <2>1. \A q \in Ids(g) : s1.children[q] \in Nat
      <3>1. \A q \in Ids(g) : IsFiniteSet(ToRead(g, t, j, q)) BY FiniteReads
      <3> QED BY <1>6, <3>1, FS_CardinalityType
    <2>2. s1.children = [q \in Ids(g) |-> s1.children[q]] BY <1>2, <1>4
    <2>3. s1.children \in [Ids(g) -> Nat] BY <2>1, <2>2
    <2> QED BY <1>2, <1>4, <2>3, IsAState
  <1>8. \A q \in Ids(g) : q \in Nat /\ q # 0 BY DEF Ids
  <1>9. s1.children[p] = 0 <=> ToRead(g, t, j, p) = {}
    <2>1. IsFiniteSet(ToRead(g, t, j, p)) BY FiniteReads
    <2> QED BY <1>0, <1>6, <2>1, FS_EmptySet
  <1>10. \A q \in Ids(g) :
           /\ ToRead(g, t, j, p) # {} => ViewsLeft(g, t, j, q) = ViewsLeft(g, t, j - 1, q)
           /\ ToRead(g, t, j, p) = {} => ViewsLeft(g, t, j, q) = ViewsLeft(g, t, j - 1, q) \ {p}
           /\ p \in ViewsLeft(g, t, j - 1, q) <=> g[p].view = q
    <2> SUFFICES ASSUME NEW q \in Ids(g)
                 PROVE  /\ ToRead(g, t, j, p) # {} =>
                             ViewsLeft(g, t, j, q) = ViewsLeft(g, t, j - 1, q)
                        /\ ToRead(g, t, j, p) = {} =>
                             ViewsLeft(g, t, j, q) = ViewsLeft(g, t, j - 1, q) \ {p}
                        /\ p \in ViewsLeft(g, t, j - 1, q) <=> g[p].view = q
      OBVIOUS
    <2>1. q # 0 BY <1>8
    <2>2. ViewOff(g, t, j, p) BY <1>5, OneView
    <2> QED BY <2>1, <2>2 DEF ViewOff
  <1>11. \A q \in Ids(g) : s1.views[q] = Cardinality(ViewsLeft(g, t, j - 1, q))
    BY <1>1, <1>4 DEF Counted
  <1>12. \A q \in Ids(g) : IsFiniteSet(ViewsLeft(g, t, j - 1, q)) BY FiniteReads
  <1>13. CASE ToRead(g, t, j, p) # {} \/ ~IsView(g, p)
    <2>1. ASSUME NEW q \in Ids(g) PROVE ViewsLeft(g, t, j, q) = ViewsLeft(g, t, j - 1, q)
      <3>1. CASE ToRead(g, t, j, p) # {} BY <1>10, <3>1
      <3>2. CASE ToRead(g, t, j, p) = {}
        <4>1. g[p].view # q BY <1>8, <1>13, <3>2 DEF IsView
        <4>2. p \notin ViewsLeft(g, t, j - 1, q) BY <1>10, <4>1
        <4> QED BY <1>10, <3>2, <4>2
      <3> QED BY <3>1, <3>2
    <2>2. Counted(g, t, j, s1) BY <1>6, <1>11, <2>1 DEF Counted
    <2>3. PlaceInv(g, t, j, s1) BY <1>4, <1>7, <2>2, CountersStep
    <2>4. AfterRead(g, s1, p) = FreeUnused(g, s1, p)
      <3>1. s1.children[p] \in Nat BY <1>0, <1>7, StateIs
      <3>2. s1.children[p] > 0 \/ ~IsView(g, p) BY <1>9, <1>13, <3>1
      <3> QED BY <3>2 DEF AfterRead
    <2> QED BY <1>0, <1>3, <2>3, <2>4, FreeUnusedStep
  <1>14. CASE ToRead(g, t, j, p) = {} /\ IsView(g, p)
    <2> DEFINE o == g[p].view
               s2 == ViewDown(s1, o)
    <2>0. o \in Ids(g) /\ o # p
      <3>1. o \in 1 .. p - 1 /\ o \in Ids(g) BY <1>0, <1>14, TensorIs
      <3> QED BY <1>0, <3>1 DEF Ids
    <2> HIDE DEF s2
    <2>1. /\ s2.chunks = s1.chunks /\ s2.views = [s1.views EXCEPT ![o] = s1.views[o] - 1]
          /\ s2.children = s1.children /\ s2.own = s1.own /\ s2.addr = s1.addr
          /\ s2 = [chunks |-> s2.chunks, children |-> s2.children, views |-> s2.views,
                   own |-> s2.own, addr |-> s2.addr]
      <3> HIDE DEF o
      <3> QED BY <1>7, ViewDownIs DEF s2
    <2>2. ASSUME NEW q \in Ids(g) PROVE s2.views[q] = Cardinality(ViewsLeft(g, t, j, q))
      <3>1. ViewsLeft(g, t, j, q) = ViewsLeft(g, t, j - 1, q) \ {p} BY <1>10, <1>14
      <3>2. p \in ViewsLeft(g, t, j - 1, q) <=> q = o BY <1>10
      <3>3. Cardinality(ViewsLeft(g, t, j, q)) = IF q = o THEN s1.views[q] - 1 ELSE s1.views[q]
        <4> DEFINE A == ViewsLeft(g, t, j - 1, q)
        <4> HIDE DEF A
        <4>1. Cardinality(A \ {p}) = IF p \in A THEN Cardinality(A) - 1 ELSE Cardinality(A)
          BY <1>12, FS_RemoveElement DEF A
        <4>2. s1.views[q] = Cardinality(A) /\ ViewsLeft(g, t, j, q) = A \ {p} /\ (p \in A <=> q = o)
          BY <1>11, <3>1, <3>2 DEF A
        <4> HIDE DEF o
        <4> QED BY <4>1, <4>2
      <3>4. s2.views[q] = IF q = o THEN s1.views[q] - 1 ELSE s1.views[q]
        BY <1>2, <1>4, <2>0, <2>1
      <3> QED BY <3>3, <3>4
    <2>3. s2 \in PlaceState(g)
      <3>1. \A q \in Ids(g) : s2.views[q] \in Nat
        <4>1. \A q \in Ids(g) : IsFiniteSet(ViewsLeft(g, t, j, q)) BY FiniteReads
        <4> QED BY <2>2, <4>1, FS_CardinalityType
      <3>2. s2.views = [q \in Ids(g) |-> s2.views[q]] BY <1>2, <1>4, <2>1
      <3>3. s2.views \in [Ids(g) -> Nat] BY <3>1, <3>2
      <3>4. /\ s1.chunks \in Seq(Chunk) /\ s1.children \in [Ids(g) -> Nat]
            /\ s1.own \in [Ids(g) -> BOOLEAN] /\ s1.addr \in [Ids(g) -> Place]
        BY <1>7, StateIs
      <3> QED BY <2>1, <3>3, <3>4, IsAState
    <2>4. Counted(g, t, j, s2) BY <1>6, <2>1, <2>2 DEF Counted
    <2>5. PlaceInv(g, t, j, s2) BY <1>4, <2>1, <2>3, <2>4, CountersStep
    <2>6. AfterRead(g, s1, p) = FreeUnused(g, s2, o)
      <3>1. s1.children[p] = 0 BY <1>9, <1>14
      <3>2. ViewsLeft(g, t, j - 1, p) = {}
        <4>1. ASSUME NEW u \in Ids(g) PROVE g[u].view # p
          <5>1. IsView(g, u) => ~IsView(g, g[u].view) BY TensorIs
          <5>2. g[u].view = p => IsView(g, u) BY <1>0, <1>8 DEF IsView
          <5> QED BY <1>14, <5>1, <5>2
        <4> QED BY <4>1 DEF ViewsLeft
      <3>3. s1.views[p] = 0 BY <1>0, <1>11, <3>2, FS_EmptySet
      <3>4. ~(s1.children[p] > 0) /\ ~(s1.views[p] > 0) BY <3>1, <3>3
      <3> QED BY <1>14, <3>4 DEF AfterRead, ViewDown, s2
    <2> QED BY <1>0, <1>3, <2>0, <2>5, <2>6, FreeUnusedStep
  <1> QED BY <1>13, <1>14

\* All sources of a node.
LEMMA UpdateSourcesStep ==
  ASSUME NEW g, WellFormed(g), NEW t \in Ids(g), NEW s, PlaceInv(g, t, 0, s)
  PROVE  PlaceInv(g, t, MaxSrc, UpdateSources(g, s, t))
  <1> DEFINE N == Len(g[t].src)
             S == PlaceState(g)
             T == [j \in 0 .. N |-> {x \in S : PlaceInv(g, t, j, x)}]
             step == [j \in 1 .. N |-> [x \in S |-> UpdateParent(g, x, g[t].src[j])]]
             F == CHOOSE f : f = [j \in 0 .. N |->
                    IF j = 0 THEN s ELSE UpdateParent(g, f[j - 1], g[t].src[j])]
  <1>0. N \in Nat BY TensorIs, GraphAllocAssumption
  <1>1. UpdateSources(g, s, t) = F[N] BY DEF UpdateSources
  <1>2. \A j, x : PlaceInv(g, t, j, x) => x \in S BY DEF PlaceInv
  <1>3. \A j \in 1 .. N : \A x : PlaceInv(g, t, j - 1, x) =>
                                  PlaceInv(g, t, j, UpdateParent(g, x, g[t].src[j]))
    BY UpdateParentStep
  <1> HIDE DEF N, S
  <1>4. \A j \in 1 .. N : j \in 0 .. N /\ j - 1 \in 0 .. N /\ j # 0 BY <1>0
  <1>5. s \in T[0]
    <2>1. 0 \in 0 .. N BY <1>0
    <2> QED BY <1>2, <2>1
  <1>6. \A j \in 1 .. N : \A x \in T[j - 1] : step[j][x] \in T[j]
    <2> SUFFICES ASSUME NEW j \in 1 .. N, NEW x \in T[j - 1] PROVE step[j][x] \in T[j]
      OBVIOUS
    <2>1. x \in S /\ PlaceInv(g, t, j - 1, x) BY <1>4
    <2>2. step[j][x] = UpdateParent(g, x, g[t].src[j]) BY <2>1
    <2>3. PlaceInv(g, t, j, step[j][x]) BY <1>3, <2>1, <2>2
    <2> HIDE DEF step
    <2>4. step[j][x] \in S BY <1>2, <2>3
    <2> QED BY <1>4, <2>3, <2>4
  <1>7. \A j \in 1 .. N : \A x \in S : step[j][x] = UpdateParent(g, x, g[t].src[j]) OBVIOUS
  <1>8. \A j \in 0 .. N : \A x : x \in T[j] <=> x \in S /\ PlaceInv(g, t, j, x) OBVIOUS
  <1> HIDE DEF T, step
  <1>9. PICK f : Iterates(f, N, s, step) /\ \A j \in 0 .. N : f[j] \in T[j]
    BY <1>0, <1>5, <1>6, Iterated
  <1>10. f = [j \in 0 .. N |-> IF j = 0 THEN s ELSE UpdateParent(g, f[j - 1], g[t].src[j])]
    <2>1. \A j \in 0 .. N : f[j] = IF j = 0 THEN s ELSE step[j][f[j - 1]] BY <1>9 DEF Iterates
    <2>2. f = [j \in 0 .. N |-> f[j]] BY <1>9 DEF Iterates
    <2>3. ASSUME NEW j \in 0 .. N
          PROVE  f[j] = IF j = 0 THEN s ELSE UpdateParent(g, f[j - 1], g[t].src[j])
      <3>1. CASE j = 0 BY <2>1, <3>1
      <3>2. CASE j # 0
        <4>1. j \in 1 .. N BY <1>0, <3>2
        <4>2. f[j - 1] \in S BY <1>4, <1>8, <1>9, <4>1
        <4> QED BY <1>7, <2>1, <3>2, <4>1, <4>2
      <3> QED BY <3>1, <3>2
    <2> QED BY <2>2, <2>3
  <1>11. F = [j \in 0 .. N |-> IF j = 0 THEN s ELSE UpdateParent(g, F[j - 1], g[t].src[j])]
    BY <1>10
  <1> HIDE DEF F
  <1>12. F[0] = s /\ \A j \in 1 .. N : F[j] = UpdateParent(g, F[j - 1], g[t].src[j])
    <2>1. 0 \in 0 .. N BY <1>0
    <2> QED BY <1>4, <1>11, <2>1
  <1>13. \A j \in 0 .. N : F[j] \in T[j]
    <2>1. F[0] \in T[0] BY <1>5, <1>12
    <2>2. \A j \in 1 .. N : F[j - 1] \in T[j - 1] => F[j] \in T[j]
      BY <1>2, <1>3, <1>4, <1>8, <1>12
    <2> QED BY <1>0, <2>1, <2>2, Stays
  <1>14. N \in 0 .. N BY <1>0
  <1>15. PlaceInv(g, t, N, F[N]) BY <1>8, <1>13, <1>14
  <1>16. Counted(g, t, MaxSrc, F[N]) BY <1>15, NothingRead DEF PlaceInv, Counted, N
  <1>17. F[N] \in PlaceState(g) BY <1>15 DEF PlaceInv
  <1>18. PlaceInv(g, t, MaxSrc, F[N]) BY <1>15, <1>16, <1>17, CountersStep
  <1> QED BY <1>1, <1>18 DEF F, N

\* A leaf or a node is placed.
LEMMA PlaceTensorStep ==
  ASSUME NEW g, WellFormed(g), NEW t \in Ids(g), NEW s, PlaceInv(g, t - 1, MaxSrc, s)
  PROVE  PlaceInv(g, t, MaxSrc, PlaceTensor(g, s, t))
  <1> DEFINE s2 == AllocateNode(g, s, t)
  <1>1. PlaceInv(g, t, 0, s2) BY AllocateNodeStep
  <1> HIDE DEF s2
  <1>2. CASE t \in Nodes(g)
    <2>1. PlaceTensor(g, s, t) = UpdateSources(g, s2, t)
      BY <1>2, SourcesPlaced DEF PlaceTensor, PlaceNode, s2
    <2> QED BY <1>1, <2>1, UpdateSourcesStep
  <1>3. CASE t \notin Nodes(g)
    <2>1. PlaceTensor(g, s, t) = s2 BY <1>3 DEF PlaceTensor, s2
    <2>2. Len(g[t].src) = 0
      <3>1. g[t].src = <<>> BY <1>3, TensorIs
      <3> QED BY <3>1
    <2>3. Counted(g, t, MaxSrc, s2) BY <1>1, <2>2, NothingRead DEF PlaceInv, Counted
    <2>4. s2 \in PlaceState(g) BY <1>1 DEF PlaceInv
    <2>5. PlaceInv(g, t, MaxSrc, s2) BY <1>1, <2>3, <2>4, CountersStep
    <2> QED BY <2>1, <2>5
  <1> QED BY <1>2, <1>3

\* Nothing is placed.
LEMMA StartInv ==
  ASSUME NEW g, WellFormed(g)
  PROVE  PlaceInv(g, 0, MaxSrc, Start(g))
  <1> DEFINE s == Start(g)
  <1>1. /\ s.chunks = <<>> /\ s.children = [t \in Ids(g) |-> Reads(g, t)]
        /\ s.views = [t \in Ids(g) |-> ViewsOf(g, t)]
        /\ s.own = [t \in Ids(g) |-> FALSE] /\ s.addr = [t \in Ids(g) |-> Nowhere]
        /\ s = [chunks |-> s.chunks, children |-> s.children, views |-> s.views,
                own |-> s.own, addr |-> s.addr]
    BY DEF Start
  <1> HIDE DEF s
  <1>2. ASSUME NEW p \in Ids(g)
        PROVE  /\ s.children[p] = Cardinality(ToRead(g, 0, MaxSrc, p)) /\ s.children[p] \in Nat
               /\ s.views[p] = Cardinality(ViewsLeft(g, 0, MaxSrc, p)) /\ s.views[p] \in Nat
    <2>1. s.children[p] = Reads(g, p) /\ s.views[p] = ViewsOf(g, p) BY <1>1
    <2>2. /\ ToRead(g, 0, MaxSrc, p) = ReadAt(g, p)
          /\ ViewsLeft(g, 0, MaxSrc, p) = {u \in Ids(g) : g[u].view = p}
      BY AllToRead
    <2>3. IsFiniteSet(ToRead(g, 0, MaxSrc, p)) /\ IsFiniteSet(ViewsLeft(g, 0, MaxSrc, p))
      BY FiniteReads
    <2>4. /\ Cardinality(ToRead(g, 0, MaxSrc, p)) \in Nat
          /\ Cardinality(ViewsLeft(g, 0, MaxSrc, p)) \in Nat
      BY <2>3, FS_CardinalityType
    <2> QED BY <2>1, <2>2, <2>4 DEF Reads, ViewsOf
  <1>3. Nowhere \in Place BY DEF Nowhere, Place
  <1>4. s \in PlaceState(g)
    <2>1. s.children = [p \in Ids(g) |-> s.children[p]] /\ s.views = [p \in Ids(g) |-> s.views[p]]
      BY <1>1
    <2>2. s.children \in [Ids(g) -> Nat] /\ s.views \in [Ids(g) -> Nat] BY <1>2, <2>1
    <2>3. s.own \in [Ids(g) -> BOOLEAN] /\ s.addr \in [Ids(g) -> Place] BY <1>1, <1>3
    <2>4. s.chunks \in Seq(Chunk) BY <1>1
    <2> QED BY <1>1, <2>2, <2>3, <2>4, IsAState
  <1>5. Counted(g, 0, MaxSrc, s) BY <1>2 DEF Counted
  <1>6. OwnsNeeded(g, 0, s) BY <1>1 DEF OwnsNeeded
  <1>7. Live(s) = {} BY <1>1 DEF Live
  <1>8. Laid(Ids(g), s.chunks, Live(s), s.addr, Sizes(g))
    <2>1. s.addr \in [Ids(g) -> Place] BY <1>1, <1>3
    <2>2. Sizes(g) \in [Ids(g) -> Nat] BY SizesAre
    <2>3. Laid(Ids(g), <<>>, {}, s.addr, Sizes(g)) BY <2>1, <2>2, LaidNone
    <2> QED BY <1>1, <1>7, <2>3
  <1>9. EndlessLast(s.chunks, SizeTo(g)[0])
    <2>1. Len(s.chunks) = 0 BY <1>1
    <2> QED BY <2>1, FreeListAssumption DEF EndlessLast
  <1>10. EndsWithin(g, 0, s.chunks, s.addr) BY DEF EndsWithin
  <1>11. WellPlaced(g, s.addr, 0) BY DEF WellPlaced
  <1> QED BY <1>4, <1>5, <1>6, <1>8, <1>9, <1>10, <1>11 DEF PlaceInv, s

\* A plan of a whole graph.
LEMMA PlaceAllInv ==
  ASSUME NEW g, WellFormed(g)
  PROVE  PlaceInv(g, Len(g), MaxSrc, PlaceAll(g))
  <1> DEFINE N == Len(g)
             S == PlaceState(g)
             s == Start(g)
             T == [t \in 0 .. N |-> {x \in S : PlaceInv(g, t, MaxSrc, x)}]
             step == [t \in 1 .. N |-> [x \in S |-> PlaceTensor(g, x, t)]]
             F == CHOOSE f : f = [t \in 0 .. N |->
                    IF t = 0 THEN Start(g) ELSE PlaceTensor(g, f[t - 1], t)]
  <1>0. N \in Nat BY DEF WellFormed
  <1>1. PlaceAll(g) = F[N] BY DEF PlaceAll
  <1>2. \A t, x : PlaceInv(g, t, MaxSrc, x) => x \in S BY DEF PlaceInv
  <1>3. \A t \in 1 .. N : \A x : PlaceInv(g, t - 1, MaxSrc, x) =>
                                  PlaceInv(g, t, MaxSrc, PlaceTensor(g, x, t))
    BY PlaceTensorStep DEF Ids
  <1>a. PlaceInv(g, 0, MaxSrc, s) BY StartInv
  <1> HIDE DEF N, S, s
  <1>4. \A t \in 1 .. N : t \in 0 .. N /\ t - 1 \in 0 .. N /\ t # 0 BY <1>0
  <1>5. s \in T[0]
    <2>1. 0 \in 0 .. N BY <1>0
    <2> QED BY <1>a, <1>2, <2>1
  <1>6. \A t \in 1 .. N : \A x \in T[t - 1] : step[t][x] \in T[t]
    <2> SUFFICES ASSUME NEW t \in 1 .. N, NEW x \in T[t - 1] PROVE step[t][x] \in T[t]
      OBVIOUS
    <2>1. x \in S /\ PlaceInv(g, t - 1, MaxSrc, x) BY <1>4
    <2>2. step[t][x] = PlaceTensor(g, x, t) BY <2>1
    <2>3. PlaceInv(g, t, MaxSrc, step[t][x]) BY <1>3, <2>1, <2>2
    <2> HIDE DEF step
    <2>4. step[t][x] \in S BY <1>2, <2>3
    <2> QED BY <1>4, <2>3, <2>4
  <1>7. \A t \in 1 .. N : \A x \in S : step[t][x] = PlaceTensor(g, x, t) OBVIOUS
  <1>8. \A t \in 0 .. N : \A x : x \in T[t] <=> x \in S /\ PlaceInv(g, t, MaxSrc, x) OBVIOUS
  <1> HIDE DEF T, step
  <1>9. PICK f : Iterates(f, N, s, step) /\ \A t \in 0 .. N : f[t] \in T[t]
    BY <1>0, <1>5, <1>6, Iterated
  <1>10. f = [t \in 0 .. N |-> IF t = 0 THEN Start(g) ELSE PlaceTensor(g, f[t - 1], t)]
    <2>1. \A t \in 0 .. N : f[t] = IF t = 0 THEN s ELSE step[t][f[t - 1]] BY <1>9 DEF Iterates
    <2>2. f = [t \in 0 .. N |-> f[t]] BY <1>9 DEF Iterates
    <2>3. ASSUME NEW t \in 0 .. N
          PROVE  f[t] = IF t = 0 THEN s ELSE PlaceTensor(g, f[t - 1], t)
      <3>1. CASE t = 0 BY <2>1, <3>1
      <3>2. CASE t # 0
        <4>1. t \in 1 .. N BY <1>0, <3>2
        <4>2. f[t - 1] \in S BY <1>4, <1>8, <1>9, <4>1
        <4> QED BY <1>7, <2>1, <3>2, <4>1, <4>2
      <3> QED BY <3>1, <3>2
    <2> QED BY <2>2, <2>3 DEF s
  <1>11. F = [t \in 0 .. N |-> IF t = 0 THEN Start(g) ELSE PlaceTensor(g, F[t - 1], t)]
    BY <1>10
  <1> HIDE DEF F
  <1>12. F[0] = s /\ \A t \in 1 .. N : F[t] = PlaceTensor(g, F[t - 1], t)
    <2>1. 0 \in 0 .. N BY <1>0
    <2> QED BY <1>4, <1>11, <2>1 DEF s
  <1>13. \A t \in 0 .. N : F[t] \in T[t]
    <2>1. F[0] \in T[0] BY <1>5, <1>12
    <2>2. \A t \in 1 .. N : F[t - 1] \in T[t - 1] => F[t] \in T[t]
      BY <1>2, <1>3, <1>4, <1>8, <1>12
    <2> QED BY <1>0, <2>1, <2>2, Stays
  <1>14. N \in 0 .. N BY <1>0
  <1>15. PlaceInv(g, N, MaxSrc, F[N]) BY <1>8, <1>13, <1>14
  <1> QED BY <1>1, <1>15 DEF F, N

(***************************************************************************)
(* A graph in the places that were planned for it or for a larger one.     *)
(***************************************************************************)

\* The graph has the shape of the one that was planned, is not larger, and whatever
\* had the same size in that one has in this.
Like(g, h) ==
  /\ Len(g) = Len(h)
  /\ \A t \in Ids(g) :
       /\ g[t].op = h[t].op /\ g[t].src = h[t].src /\ g[t].view = h[t].view
       /\ g[t].out = h[t].out
       /\ Owned(g, t) => g[t].size <= h[t].size
  /\ \A t, u \in Ids(g) : h[t].size = h[u].size => g[t].size = g[u].size

\* Every graph is like itself.
LEMMA LikeItself ==
  ASSUME NEW g, WellFormed(g)
  PROVE  Like(g, g)
  <1>1. \A t \in Ids(g) : g[t].size \in Nat BY TensorIs
  <1> QED BY <1>1 DEF Like

\* A graph of the same topology that needs no new plan.
LEMMA LikePlanned ==
  ASSUME NEW g, NEW h, WellFormed(g), WellFormed(h), Scaled(g, h), ~NeedsRealloc(g, h)
  PROVE  Like(g, h)
  <1>1. Len(g) = Len(h) /\ Ids(g) = Ids(h) BY DEF Scaled, Ids
  <1>2. ASSUME NEW t \in Ids(g)
        PROVE  /\ g[t].op = h[t].op /\ g[t].src = h[t].src /\ g[t].view = h[t].view
               /\ g[t].pad = h[t].pad /\ g[t].out = h[t].out
    <2>1. g[t] \in Tensor /\ h[t] \in Tensor BY <1>1, TensorIs
    <2>2. [g[t] EXCEPT !.size = 0] = [h[t] EXCEPT !.size = 0] BY DEF Scaled
    <2> DEFINE a == [g[t] EXCEPT !.size = 0]
               b == [h[t] EXCEPT !.size = 0]
    <2>3. /\ a.op = g[t].op /\ a.src = g[t].src /\ a.view = g[t].view
          /\ a.pad = g[t].pad /\ a.out = g[t].out
      BY <2>1 DEF Tensor
    <2>4. /\ b.op = h[t].op /\ b.src = h[t].src /\ b.view = h[t].view
          /\ b.pad = h[t].pad /\ b.out = h[t].out
      BY <2>1 DEF Tensor
    <2> HIDE DEF a, b
    <2>5. a = b BY <2>2 DEF a, b
    <2> QED BY <2>3, <2>4, <2>5
  <1>3. ASSUME NEW t \in Ids(g), Owned(g, t) PROVE g[t].size <= h[t].size
    <2>1. FitsPlan(g, t, h, t)
      <3>1. CASE t \in Nodes(g) BY <3>1 DEF NeedsRealloc
      <3>2. CASE t \notin Nodes(g)
        <4>1. g[t].op = "leaf" BY <1>3, <3>2 DEF Nodes, Owned
        <4>2. Reads(g, t) > 0 BY <4>1 DEF WellFormed, Ordered
        <4>3. ReadAt(g, t) # {}
          <5>1. Cardinality({}) = 0 BY FS_EmptySet
          <5> QED BY <4>2, <5>1 DEF Reads
        <4>4. PICK r : r \in ReadAt(g, t) BY <4>3
        <4> DEFINE u == r[1]
                   j == r[2]
        <4>5. u \in Ids(g) /\ j \in 1 .. Len(g[u].src) /\ g[u].src[j] = t
          BY <4>4, ReadIs
        <4> HIDE DEF u, j
        <4>6. u \in Nodes(g)
          <5>1. u \notin Nodes(g) => g[u].src = <<>> BY <4>5, TensorIs
          <5>2. Len(<<>>) = 0 OBVIOUS
          <5> QED BY <4>5, <5>1, <5>2
        <4>7. h[u].src = g[u].src /\ j <= Len(h[u].src)
          <5>1. Len(g[u].src) \in Nat BY <4>5, TensorIs
          <5> QED BY <1>2, <4>5, <5>1
        <4> QED BY <4>5, <4>6, <4>7 DEF NeedsRealloc
      <3> QED BY <3>1, <3>2
    <2>2. AllocSize(g, t) <= AllocSize(h, t) BY <1>3, <2>1 DEF FitsPlan
    <2>3. g[t].size \in Nat /\ h[t].size \in Nat /\ g[t].pad \in Nat /\ g[t].pad = h[t].pad
      BY <1>1, <1>2, TensorIs
    <2> QED BY <2>2, <2>3 DEF AllocSize
  <1>4. \A t, u \in Ids(g) : h[t].size = h[u].size => g[t].size = g[u].size BY DEF Scaled
  <1> QED BY <1>1, <1>2, <1>3, <1>4 DEF Like

\* What is needed in one is needed in the other.
LEMMA LikeNeeds ==
  ASSUME NEW g, NEW h, WellFormed(g), WellFormed(h), Like(g, h), NEW t, NEW p \in Ids(g)
  PROVE  /\ Needed(g, t, p) <=> Needed(h, t, p)
         /\ Owned(g, p) <=> Owned(h, p)
  <1>1. Ids(g) = Ids(h) BY DEF Like, Ids
  <1>2. \A u \in Ids(g) : g[u].src = h[u].src /\ g[u].view = h[u].view
                          /\ g[u].op = h[u].op /\ g[u].out = h[u].out
    BY DEF Like
  <1>3. \A q : ReadAt(g, q) = ReadAt(h, q)
    <2> SUFFICES ASSUME NEW q PROVE ReadAt(g, q) = ReadAt(h, q)
      OBVIOUS
    <2>1. \A r : r \in ReadAt(g, q) <=> r \in ReadAt(h, q)
      <3> SUFFICES ASSUME NEW r \in Ids(g) \X (1 .. MaxSrc)
                   PROVE  g[r[1]].src = h[r[1]].src
        BY <1>1 DEF ReadAt
      <3>1. r[1] \in Ids(g) OBVIOUS
      <3> QED BY <1>2, <3>1
    <2> QED BY <2>1
  <1>4. \A j, q : ToRead(g, t, j, q) = ToRead(h, t, j, q) BY <1>3 DEF ToRead
  <1>5. ViewsLeft(g, t, MaxSrc, p) = ViewsLeft(h, t, MaxSrc, p)
    BY <1>1, <1>2, <1>3, <1>4 DEF ViewsLeft
  <1>6. Needed(g, t, p) <=> Needed(h, t, p) BY <1>2, <1>4, <1>5 DEF Needed
  <1>7. Owned(g, p) <=> Owned(h, p) BY <1>2 DEF Owned, IsView
  <1> QED BY <1>6, <1>7

\* All memory of the graph is in the buffer.
RegionsIn(g, addr, b) == \A t \in Ids(g) : Owned(g, t) => Region(addr, g, t) \subseteq Places(b)

\* A tensor has no memory in common with one that is needed when it is computed, or
\* is computed in place where the other lies, which is not needed any more.
RegionsPlaced(g, addr) ==
  \A u \in Ids(g) : Owned(g, u) =>
    \A p \in 1 .. u - 1 : Owned(g, p) /\ Needed(g, u - 1, p) =>
      \/ Region(addr, g, p) \cap Region(addr, g, u) = {}
      \/ g[u].op = "inplace" /\ Region(addr, g, p) = Region(addr, g, u) /\ ~Needed(g, u, p)

\* A plan whose chunks have room in a buffer gives every tensor memory of it.
LEMMA PlanFits ==
  ASSUME NEW g, NEW h, WellFormed(g), WellFormed(h), Like(g, h),
         NEW b \in Seq(Nat), ~TooSmall(b, ChunkSizes(PlaceAll(h)))
  PROVE  RegionsIn(g, PlaceAll(h).addr, b)
  <1> DEFINE s == PlaceAll(h)
  <1>1. /\ s \in PlaceState(h) /\ EndsWithin(h, Len(h), s.chunks, s.addr)
    BY PlaceAllInv DEF PlaceInv
  <1>2. s.chunks \in Seq(Chunk) /\ s.addr \in [Ids(h) -> Place] BY <1>1, StateIs
  <1>3. ~TooSmall(b, ChunkSizes(s)) OBVIOUS
  <1>4. Len(b) \in Nat /\ Len(s.chunks) \in Nat BY <1>2
  <1> HIDE DEF s
  <1>5. ASSUME NEW c \in 1 .. Len(s.chunks)
        PROVE  c \in 1 .. Len(b) /\ s.chunks[c].max_size <= b[c] /\ s.chunks[c].max_size \in Nat
               /\ b[c] \in Nat
    <2>1. s.chunks[c] \in Chunk BY <1>2, ElementOfSeq
    <2>2. s.chunks[c].max_size \in Nat BY <2>1 DEF Chunk
    <2>3. ChunkSizes(s)[c] = s.chunks[c].max_size /\ Len(ChunkSizes(s)) = Len(s.chunks)
      BY <1>4 DEF ChunkSizes
    <2>4. ~(c > Len(b)) /\ ~(s.chunks[c].max_size > b[c]) BY <1>3, <2>3 DEF TooSmall
    <2>5. c \in 1 .. Len(b) BY <1>4, <2>4
    <2>6. b[c] \in Nat BY <2>5
    <2> QED BY <2>2, <2>4, <2>5, <2>6
  <1>6. ASSUME NEW t \in Ids(g), Owned(g, t), NEW y \in Region(s.addr, g, t) PROVE y \in Places(b)
    <2> DEFINE c == s.addr[t].chunk
               o == s.addr[t].offset
    <2>1. t \in Ids(h) /\ t \in 1 .. Len(h) /\ Owned(h, t) /\ g[t].size <= h[t].size
      BY <1>6, LikeNeeds DEF Like, Ids
    <2>2. c \in 1 .. Len(s.chunks) /\ o + AllocSize(h, t) <= s.chunks[c].max_size
      BY <1>1, <2>1 DEF EndsWithin
    <2>3. o \in Nat BY <1>2, <2>1 DEF Place
    <2>4. y \in {<<c, x>> : x \in o .. o + g[t].size - 1} BY <1>6 DEF Region
    <2> HIDE DEF c, o
    <2>5. PICK x \in o .. o + g[t].size - 1 : y = <<c, x>> BY <2>4
    <2>6. /\ g[t].size \in Nat /\ h[t].size \in Nat /\ AllocSize(h, t) \in Nat
          /\ h[t].size <= AllocSize(h, t)
      BY <2>1, TensorIs
    <2>7. c \in 1 .. Len(b) /\ s.chunks[c].max_size <= b[c] /\ s.chunks[c].max_size \in Nat
          /\ b[c] \in Nat
      BY <1>5, <2>2
    <2>8. x \in 0 .. b[c] - 1
      <3>1. x \in Int /\ o <= x /\ x <= o + g[t].size - 1 BY <2>3, <2>5, <2>6
      <3> DEFINE m == s.chunks[c].max_size
                 k == AllocSize(h, t)
                 n == g[t].size
                 e == b[c]
      <3>2. n \in Nat /\ k \in Nat /\ m \in Nat /\ e \in Nat /\ n <= k /\ o + k <= m /\ m <= e
        <4>1. n \in Nat /\ k \in Nat /\ n <= k BY <2>1, <2>6
        <4>2. m \in Nat /\ e \in Nat /\ m <= e BY <2>7
        <4> QED BY <2>2, <4>1, <4>2
      <3>3. o <= x /\ x <= o + n - 1 /\ x \in Int BY <3>1
      <3> HIDE DEF m, k, n, e
      <3>4. x \in 0 .. e - 1 BY <2>3, <3>2, <3>3
      <3> QED BY <3>4 DEF e
    <2>9. y \in {<<c, z>> : z \in 0 .. b[c] - 1} BY <2>5, <2>8
    <2> QED BY <2>7, <2>9 DEF Places
  <1> QED BY <1>6 DEF RegionsIn, s

\* Memory that does not overlap.
LEMMA RegionsApart ==
  ASSUME NEW g, NEW h, WellFormed(g), WellFormed(h), Like(g, h), NEW addr \in [Ids(h) -> Place],
         NEW p \in Ids(g), NEW u \in Ids(g), Owned(g, p), Owned(g, u),
         Beside(addr, Sizes(h), p, u)
  PROVE  Region(addr, g, p) \cap Region(addr, g, u) = {}
  <1>1. p \in Ids(h) /\ u \in Ids(h) /\ g[p].size <= h[p].size /\ g[u].size <= h[u].size
    BY DEF Like, Ids
  <1>2. /\ g[p].size \in Nat /\ g[u].size \in Nat /\ h[p].size \in Nat /\ h[u].size \in Nat
        /\ h[p].size <= AllocSize(h, p) /\ h[u].size <= AllocSize(h, u)
        /\ AllocSize(h, p) \in Nat /\ AllocSize(h, u) \in Nat
        /\ Sizes(h)[p] = AllocSize(h, p) /\ Sizes(h)[u] = AllocSize(h, u)
    BY <1>1, TensorIs, SizesAre
  <1>3. addr[p].offset \in Nat /\ addr[u].offset \in Nat BY <1>1 DEF Place
  <1>4. SUFFICES ASSUME NEW y \in Region(addr, g, p), y \in Region(addr, g, u) PROVE FALSE
    OBVIOUS
  <1>5. PICK x \in addr[p].offset .. addr[p].offset + g[p].size - 1 : y = <<addr[p].chunk, x>>
    BY <1>4 DEF Region
  <1>6. PICK z \in addr[u].offset .. addr[u].offset + g[u].size - 1 : y = <<addr[u].chunk, z>>
    BY <1>4 DEF Region
  <1>7. addr[p].chunk = addr[u].chunk /\ x = z BY <1>5, <1>6
  <1>8. \/ addr[p].offset + AllocSize(h, p) <= addr[u].offset
        \/ addr[u].offset + AllocSize(h, u) <= addr[p].offset
    BY <1>2, <1>7 DEF Beside
  <1>9. x \in Int /\ addr[p].offset <= x /\ x <= addr[p].offset + g[p].size - 1
        /\ addr[u].offset <= x /\ x <= addr[u].offset + g[u].size - 1
    BY <1>2, <1>3, <1>5, <1>6, <1>7
  <1> QED BY <1>1, <1>2, <1>3, <1>8, <1>9

\* The memory of tensors whose uses overlap in time.
LEMMA PlanPlaces ==
  ASSUME NEW g, NEW h, WellFormed(g), WellFormed(h), Like(g, h)
  PROVE  RegionsPlaced(g, PlaceAll(h).addr)
  <1> DEFINE s == PlaceAll(h)
             addr == s.addr
  <1>1. s \in PlaceState(h) /\ WellPlaced(h, addr, Len(h)) BY PlaceAllInv DEF PlaceInv
  <1>2. addr \in [Ids(h) -> Place] BY <1>1, StateIs
  <1> HIDE DEF s, addr
  <1> SUFFICES ASSUME NEW u \in Ids(g), Owned(g, u),
                      NEW p \in 1 .. u - 1, Owned(g, p), Needed(g, u - 1, p)
               PROVE  \/ Region(addr, g, p) \cap Region(addr, g, u) = {}
                      \/ /\ g[u].op = "inplace" /\ Region(addr, g, p) = Region(addr, g, u)
                         /\ ~Needed(g, u, p)
    BY DEF RegionsPlaced, addr, s
  <1>3. /\ p \in Ids(g) /\ u \in 1 .. Len(h) /\ Ids(g) = Ids(h)
    BY DEF Ids, Like, WellFormed
  <1>4. Owned(h, u) /\ Owned(h, p) /\ Needed(h, u - 1, p) BY <1>3, LikeNeeds
  <1>5. BesideOrOver(h, addr, p, u) BY <1>1, <1>3, <1>4 DEF WellPlaced
  <1>6. CASE Beside(addr, Sizes(h), p, u) BY <1>2, <1>3, <1>6, RegionsApart
  <1>7. CASE /\ h[u].op = "inplace" /\ addr[u] = addr[p] /\ h[u].size = h[p].size
             /\ ~Needed(h, u, p)
    <2>1. g[u].op = "inplace" /\ g[u].size = g[p].size BY <1>3, <1>7 DEF Like
    <2>2. ~Needed(g, u, p) BY <1>3, <1>7, LikeNeeds
    <2>3. Region(addr, g, p) = Region(addr, g, u) BY <1>7, <2>1 DEF Region
    <2> QED BY <2>1, <2>2, <2>3
  <1> QED BY <1>5, <1>6, <1>7 DEF BesideOrOver

(***************************************************************************)
(* The computation of a graph.                                             *)
(***************************************************************************)

\* Nodes are the tail of the graph, which begins where alloc_graph finds it.
LEMMA NodesFrom ==
  ASSUME NEW g, WellFormed(g)
  PROVE  \E k \in 1 .. Len(g) + 1 :
           Nodes(g) = k .. Len(g) /\ Len(g) - Cardinality(Nodes(g)) + 1 = k
  <1>0. Len(g) \in Nat BY DEF WellFormed
  <1>1. CASE Nodes(g) = {}
    <2> DEFINE k == Len(g) + 1
    <2>1. k \in 1 .. Len(g) + 1 /\ k .. Len(g) = {} BY <1>0
    <2>2. Cardinality(Nodes(g)) = 0 BY <1>1, FS_EmptySet
    <2>3. Len(g) - 0 + 1 = k BY <1>0
    <2> QED BY <1>1, <2>1, <2>2, <2>3
  <1>2. CASE Nodes(g) # {}
    <2>1. Nodes(g) \subseteq 1 .. Len(g) BY DEF Nodes, Ids
    <2>2. Nodes(g) \subseteq Nat BY <2>1
    <2>3. PICK k \in Nodes(g) : \A u \in Nodes(g) : k <= u BY <1>2, <2>2, LeastNat
    <2>4. k \in 1 .. Len(g) BY <2>1
    <2>5. Nodes(g) = k .. Len(g)
      <3>1. ASSUME NEW u \in k .. Len(g) PROVE u \in Nodes(g)
        <4>1. u \in Ids(g) /\ k <= u BY <1>0, <2>4 DEF Ids
        <4> QED BY <4>1, NodesLast
      <3>2. ASSUME NEW u \in Nodes(g) PROVE u \in k .. Len(g)
        <4>1. u \in 1 .. Len(g) /\ k <= u BY <2>1, <2>3
        <4> QED BY <1>0, <2>4, <4>1
      <3> QED BY <3>1, <3>2
    <2>6. Cardinality(k .. Len(g)) = Len(g) - k + 1
      <3>1. ~(k > Len(g)) /\ k \in Int /\ Len(g) \in Int BY <1>0, <2>4
      <3> QED BY <3>1, FS_Interval
    <2>7. Len(g) - (Len(g) - k + 1) + 1 = k BY <1>0, <2>4
    <2> QED BY <1>0, <2>4, <2>5, <2>6, <2>7
  <1> QED BY <1>1, <1>2

\* A leaf owns its memory and is needed until a node, the tail of the graph, reads it.
LEMMA LeafsApart ==
  ASSUME NEW g, WellFormed(g), NEW addr, RegionsPlaced(g, addr),
         NEW p \in Ids(g), NEW u \in Ids(g), p # u, g[p].op = "leaf", g[u].op = "leaf"
  PROVE  Region(addr, g, p) \cap Region(addr, g, u) = {}
  <1>0. Len(g) \in Nat BY DEF WellFormed
  <1>1. ASSUME NEW v \in Ids(g), NEW w \in Ids(g), v < w, g[v].op = "leaf", g[w].op = "leaf"
        PROVE  Region(addr, g, v) \cap Region(addr, g, w) = {}
    <2>1. Owned(g, v) /\ Owned(g, w)
      <3>1. ~IsView(g, v) /\ ~IsView(g, w) BY <1>1 DEF WellFormed, ProperViews
      <3> QED BY <1>1, <3>1 DEF Owned
    <2>2. ReadAt(g, v) # {}
      <3>1. Reads(g, v) > 0 BY <1>1 DEF WellFormed, Ordered
      <3>2. Cardinality({}) = 0 BY FS_EmptySet
      <3> QED BY <3>1, <3>2 DEF Reads
    <2>3. PICK r : r \in ReadAt(g, v) BY <2>2
    <2>4. r[1] \in Ids(g) /\ r[1] \in Nat /\ r[2] \in 1 .. Len(g[r[1]].src) BY <2>3, ReadIs
    <2>5. r[1] \in Nodes(g)
      <3>1. r[1] \notin Nodes(g) => g[r[1]].src = <<>> BY <2>4, TensorIs
      <3>2. Len(<<>>) = 0 OBVIOUS
      <3> QED BY <2>4, <3>1, <3>2
    <2>6. w < r[1]
      <3>1. w \notin Nodes(g) BY <1>1 DEF Nodes
      <3>2. ~(r[1] <= w) BY <2>5, <3>1, NodesLast
      <3>3. w \in Nat BY DEF Ids
      <3> QED BY <2>4, <3>2, <3>3
    <2>7. Needed(g, w - 1, v)
      <3>1. w \in Nat /\ r[1] > w - 1 BY <2>4, <2>6 DEF Ids
      <3>2. r \in ToRead(g, w - 1, MaxSrc, v) BY <2>3, <3>1 DEF ToRead
      <3> QED BY <3>2 DEF Needed
    <2>8. v \in 1 .. w - 1 BY <1>0, <1>1 DEF Ids
    <2> QED BY <1>1, <2>1, <2>7, <2>8 DEF RegionsPlaced
  <1>2. p < u \/ u < p BY DEF Ids
  <1>3. CASE p < u BY <1>1, <1>3
  <1>4. CASE u < p
    <2>1. Region(addr, g, u) \cap Region(addr, g, p) = {} BY <1>1, <1>4
    <2> QED BY <2>1
  <1> QED BY <1>2, <1>3, <1>4

\* Nothing else was written to the memory of t.
HoldsIn(g, addr, mem, t) == Region(addr, g, t) \subseteq {x \in DOMAIN mem : mem[x] = t}

\* All but nodes has been computed before node n, and what will be needed is there.
ComputeInv(g, addr, b, mem, n) ==
  /\ g \in Graphs /\ RegionsIn(g, addr, b) /\ RegionsPlaced(g, addr)
  /\ DOMAIN mem = Places(b)
  /\ n \in 1 .. Len(g) + 1 /\ \A u \in n .. Len(g) : u \in Nodes(g)
  /\ \A p \in 1 .. n - 1 : Owned(g, p) /\ Needed(g, n - 1, p) => HoldsIn(g, addr, mem, p)

\* The memory of a graph whose inputs have been set.
InputsSet(g, addr, b, mem) ==
  LET leafs == {t \in Ids(g) : g[t].op = "leaf"}
  IN mem = [x \in Places(b) |->
              IF \E t \in leafs : x \in Region(addr, g, t)
              THEN CHOOSE t \in leafs : x \in Region(addr, g, t)
              ELSE 0]

\* The inputs are set, and the first node is next.
LEMMA ComputeStarts ==
  ASSUME NEW g \in Graphs, NEW addr, NEW b, RegionsIn(g, addr, b), RegionsPlaced(g, addr),
         NEW mem, InputsSet(g, addr, b, mem),
         NEW n, n = Len(g) - Cardinality(Nodes(g)) + 1
  PROVE  ComputeInv(g, addr, b, mem, n)
  <1> DEFINE leafs == {t \in Ids(g) : g[t].op = "leaf"}
  <1>0. WellFormed(g) BY GraphsAssumption
  <1>1. Len(g) \in Nat BY <1>0 DEF WellFormed
  <1>2. n \in 1 .. Len(g) + 1 /\ Nodes(g) = n .. Len(g) BY <1>0, NodesFrom
  <1>3. mem = [x \in Places(b) |->
                IF \E t \in leafs : x \in Region(addr, g, t)
                THEN CHOOSE t \in leafs : x \in Region(addr, g, t)
                ELSE 0]
    BY DEF InputsSet
  <1>4. ASSUME NEW p \in 1 .. n - 1, Owned(g, p) PROVE HoldsIn(g, addr, mem, p)
    <2>1. p \in Ids(g) /\ p \notin Nodes(g)
      <3>1. p \in 1 .. Len(g) /\ p \notin n .. Len(g) BY <1>1, <1>2
      <3>2. p \notin Nodes(g) BY <1>2, <3>1
      <3> QED BY <3>1, <3>2 DEF Ids
    <2>2. p \in leafs BY <1>4, <2>1 DEF Nodes, Owned
    <2>3. ASSUME NEW x \in Region(addr, g, p) PROVE x \in DOMAIN mem /\ mem[x] = p
      <3>1. x \in Places(b) BY <1>4, <2>1, <2>3 DEF RegionsIn
      <3> DEFINE t == CHOOSE l \in leafs : x \in Region(addr, g, l)
      <3>2. mem[x] = t /\ x \in DOMAIN mem BY <1>3, <2>2, <2>3, <3>1
      <3>3. t \in leafs /\ x \in Region(addr, g, t) BY <2>2, <2>3
      <3> HIDE DEF t
      <3>4. t = p
        <4>1. SUFFICES ASSUME t # p PROVE FALSE OBVIOUS
        <4>2. Region(addr, g, t) \cap Region(addr, g, p) = {}
          BY <1>0, <2>2, <3>3, <4>1, LeafsApart
        <4> QED BY <2>3, <3>3, <4>2
      <3> QED BY <3>2, <3>4
    <2> HIDE DEF leafs
    <2> QED BY <2>3 DEF HoldsIn
  <1>5. DOMAIN mem = Places(b) BY <1>3
  <1> QED BY <1>2, <1>4, <1>5 DEF ComputeInv

\* A node is computed.
LEMMA ComputeStep ==
  ASSUME NEW g, NEW addr, NEW b, NEW mem, NEW n, ComputeInv(g, addr, b, mem, n), n <= Len(g),
         NEW mem2, mem2 = IF IsView(g, n) THEN mem
                          ELSE [x \in DOMAIN mem |-> IF x \in Region(addr, g, n)
                                                     THEN n
                                                     ELSE mem[x]]
  PROVE  ComputeInv(g, addr, b, mem2, n + 1)
  <1>1. /\ g \in Graphs /\ RegionsIn(g, addr, b) /\ RegionsPlaced(g, addr)
        /\ DOMAIN mem = Places(b)
        /\ n \in 1 .. Len(g) + 1 /\ \A u \in n .. Len(g) : u \in Nodes(g)
        /\ \A p \in 1 .. n - 1 : Owned(g, p) /\ Needed(g, n - 1, p) => HoldsIn(g, addr, mem, p)
    BY DEF ComputeInv
  <1>2. WellFormed(g) BY <1>1, GraphsAssumption
  <1>3. /\ Len(g) \in Nat /\ n \in Nat /\ n \in Ids(g) /\ n \in Nodes(g) /\ n - 1 \in Nat
        /\ n - 1 <= n /\ (n + 1) - 1 = n
    BY <1>1, <1>2 DEF WellFormed, Ids
  <1>4. n + 1 \in 1 .. Len(g) + 1 /\ \A u \in n + 1 .. Len(g) : u \in Nodes(g)
    <2>1. n + 1 \in 1 .. Len(g) + 1 BY <1>3 DEF Ids
    <2>2. \A u \in n + 1 .. Len(g) : u \in n .. Len(g) BY <1>3
    <2> QED BY <1>1, <2>1, <2>2
  <1>5. DOMAIN mem2 = DOMAIN mem OBVIOUS
  <1>6. ASSUME NEW p \in 1 .. n, Owned(g, p), Needed(g, n, p) PROVE HoldsIn(g, addr, mem2, p)
    <2>1. CASE p = n
      <3>1. ~IsView(g, n) BY <1>6, <2>1 DEF Owned
      <3>2. mem2 = [x \in DOMAIN mem |-> IF x \in Region(addr, g, n) THEN n ELSE mem[x]]
        BY <3>1
      <3>3. Region(addr, g, n) \subseteq DOMAIN mem BY <1>1, <1>3, <1>6, <2>1 DEF RegionsIn
      <3> QED BY <2>1, <3>2, <3>3 DEF HoldsIn
    <2>2. CASE p # n
      <3>1. p \in 1 .. n - 1 BY <1>3, <2>2
      <3>2. Needed(g, n - 1, p) BY <1>2, <1>3, <1>6, NeededBefore
      <3>3. HoldsIn(g, addr, mem, p) BY <1>1, <1>6, <3>1, <3>2
      <3>4. CASE IsView(g, n) BY <3>3, <3>4
      <3>5. CASE ~IsView(g, n)
        <4>1. Owned(g, n) BY <1>3, <3>5 DEF Owned, Nodes
        <4>2. Region(addr, g, p) \cap Region(addr, g, n) = {}
          BY <1>1, <1>3, <1>6, <3>1, <3>2, <4>1 DEF RegionsPlaced
        <4>3. mem2 = [x \in DOMAIN mem |-> IF x \in Region(addr, g, n) THEN n ELSE mem[x]]
          BY <3>5
        <4> QED BY <3>3, <4>2, <4>3 DEF HoldsIn
      <3> QED BY <3>4, <3>5
    <2> QED BY <2>1, <2>2
  <1> QED BY <1>1, <1>3, <1>4, <1>5, <1>6 DEF ComputeInv

\* What a node reads is needed until it has been computed.
LEMMA OperandsNeeded ==
  ASSUME NEW g, WellFormed(g), NEW n \in Ids(g), NEW q \in Sources(g, n), NEW p, p = Owner(g, q)
  PROVE  p \in 1 .. n - 1 /\ Needed(g, n - 1, p)
  <1>1. PICK j \in 1 .. Len(g[n].src) : q = g[n].src[j] BY DEF Sources
  <1>2. q \in 1 .. n - 1 /\ q \in Ids(g) /\ n \in Nat
    <2>1. q \in 1 .. n - 1 /\ q \in Ids(g) BY <1>1, TensorIs
    <2> QED BY <2>1 DEF Ids
  <1>3. <<n, j>> \in ToRead(g, n - 1, MaxSrc, q)
    <2>1. <<n, j>> \in ReadAt(g, q) BY <1>1, SourceRead
    <2>2. n > n - 1 BY <1>2
    <2> QED BY <2>1, <2>2 DEF ToRead
  <1>4. CASE ~IsView(g, q)
    <2>1. p = q BY <1>4 DEF Owner
    <2>2. ToRead(g, n - 1, MaxSrc, p) # {} BY <1>3, <2>1
    <2> QED BY <1>2, <2>1, <2>2 DEF Needed
  <1>5. CASE IsView(g, q)
    <2>1. p = g[q].view /\ p \in 1 .. q - 1 BY <1>2, <1>5, TensorIs DEF Owner
    <2>2. q \in ViewsLeft(g, n - 1, MaxSrc, p) BY <1>2, <1>3, <2>1 DEF ViewsLeft
    <2>3. p \in 1 .. n - 1 BY <1>2, <2>1
    <2> QED BY <2>2, <2>3 DEF Needed
  <1> QED BY <1>4, <1>5

(***************************************************************************)
(* Graphs that are allocated and computed one after the other.             *)
(***************************************************************************)

\* Graphs with as many nodes and leafs differ only in size, and the backend has memory.
\* Without one or the other, OperandsIntact does not hold.
PlanAssumption == SameTopology /\ ~BufferMayFail

\* An output that is a view is read by no node.
OutputAssumption ==
  \A g \in Graphs : \A t \in Ids(g) : g[t].out /\ IsView(g, t) => Reads(g, t) = 0

\* The plan is the one of a graph, and the buffer was made large enough for it.
Planned(p, b) ==
  \/ p = NoPlan
  \/ /\ p.graph \in Graphs /\ p.addr = PlaceAll(p.graph).addr
     /\ b \in Seq(Nat) /\ ~TooSmall(b, ChunkSizes(PlaceAll(p.graph)))

\* What holds between the calls.
GraphInv ==
  /\ buffer \in Seq(Nat) \cup {NoBuffer}
  /\ Planned(plan, buffer)
  /\ pc = "built" => /\ graph \in Graphs
                     /\ Len(graph) = Len(plan.graph) => Scaled(graph, plan.graph)
  /\ pc = "computing" => ComputeInv(graph, data, buffer, memory, node)

\* Without a plan a graph needs one.
LEMMA NoPlanNeeded ==
  ASSUME NEW g, WellFormed(g)
  PROVE  Len(g) # Len(NoPlan.graph) /\ NeedsRealloc(g, NoPlan.graph)
  <1>1. g \in Seq(Tensor) /\ g # <<>> BY DEF WellFormed
  <1>2. Len(g) # 0 BY <1>1
  <1>3. NoPlan.graph = <<>> /\ Len(<<>>) = 0 BY DEF NoPlan
  <1> QED BY <1>2, <1>3 DEF NeedsRealloc

\* A plan that is kept.
LEMMA KeepIs ==
  ASSUME NEW g \in Graphs, buffer \in Seq(Nat) \cup {NoBuffer}, Reserve(g, TRUE)
  PROVE  /\ plan' = [graph |-> g, addr |-> PlaceAll(g).addr]
         /\ buffer' \in Seq(Nat) /\ ~TooSmall(buffer', ChunkSizes(PlaceAll(g)))
         /\ buffer' # NoBuffer
  <1> DEFINE s == PlaceAll(g)
             sizes == ChunkSizes(s)
  <1>1. WellFormed(g) BY GraphsAssumption
  <1>2. s \in PlaceState(g) BY <1>1, PlaceAllInv DEF PlaceInv
  <1>3. s.chunks \in Seq(Chunk) BY <1>2, StateIs
  <1> HIDE DEF s
  <1>4. sizes \in Seq(Nat)
    <2>1. \A c \in 1 .. Len(s.chunks) : s.chunks[c].max_size \in Nat
      <3>1. \A c \in 1 .. Len(s.chunks) : s.chunks[c] \in Chunk BY <1>3, ElementOfSeq
      <3> QED BY <3>1 DEF Chunk
    <2>2. Len(s.chunks) \in Nat BY <1>3
    <2> QED BY <2>1, <2>2 DEF ChunkSizes
  <1>5. \A b \in Seq(Nat) : b # NoBuffer
    <2>1. SUFFICES ASSUME NoBuffer \in Seq(Nat) PROVE FALSE OBVIOUS
    <2>2. Len(NoBuffer) = 1 /\ NoBuffer[1] = -1 BY DEF NoBuffer
    <2>3. 1 \in 1 .. Len(NoBuffer) BY <2>2
    <2>4. NoBuffer[1] \in Nat BY <2>1, <2>3, ElementOfSeq
    <2> QED BY <2>2, <2>4
  <1> HIDE DEF sizes
  <1>6. ~TooSmall(sizes, sizes)
    <2>1. \A c \in 1 .. Len(sizes) : ~(c > Len(sizes)) /\ ~(sizes[c] > sizes[c])
      <3>1. Len(sizes) \in Nat /\ \A c \in 1 .. Len(sizes) : sizes[c] \in Nat BY <1>4
      <3> SUFFICES ASSUME NEW c \in 1 .. Len(sizes)
                   PROVE  ~(c > Len(sizes)) /\ ~(sizes[c] > sizes[c])
        OBVIOUS
      <3>2. sizes[c] \in Nat /\ c <= Len(sizes) /\ c \in Nat BY <3>1
      <3> QED BY <3>1, <3>2
    <2> QED BY <1>4, <1>5, <2>1 DEF TooSmall
  <1>7. /\ plan' = [graph |-> g, addr |-> s.addr]
        /\ buffer' = IF ~TooSmall(buffer, sizes) THEN buffer ELSE sizes
    BY DEF Reserve, Keep, s, sizes
  <1>8. buffer' \in Seq(Nat) /\ ~TooSmall(buffer', sizes)
    <2>1. CASE ~TooSmall(buffer, sizes)
      <3>1. buffer # NoBuffer BY <2>1 DEF TooSmall
      <3> QED BY <1>7, <2>1, <3>1
    <2>2. CASE TooSmall(buffer, sizes) BY <1>4, <1>6, <1>7, <2>2
    <2> QED BY <2>1, <2>2
  <1> QED BY <1>5, <1>7, <1>8 DEF s, sizes

\* A graph is allocated.
LEMMA AllocStep ==
  ASSUME PlanAssumption, GraphInv, AllocGraph
  PROVE  GraphInv'
  <1>1. /\ buffer \in Seq(Nat) \cup {NoBuffer} /\ Planned(plan, buffer)
        /\ pc = "built" /\ graph \in Graphs
        /\ Len(graph) = Len(plan.graph) => Scaled(graph, plan.graph)
    BY DEF GraphInv, AllocGraph
  <1>2. WellFormed(graph) BY <1>1, GraphsAssumption
  <1>3. /\ buffer' \in Seq(Nat) /\ buffer' # NoBuffer /\ Planned(plan', buffer')
        /\ plan'.graph \in Graphs /\ plan'.addr = PlaceAll(plan'.graph).addr
        /\ ~TooSmall(buffer', ChunkSizes(PlaceAll(plan'.graph)))
        /\ Like(graph, plan'.graph)
    <2>1. CASE NeedsRealloc(graph, plan.graph)
      <3>1. Reserve(graph, TRUE) BY <2>1 DEF AllocGraph, PlanAssumption
      <3>2. /\ plan' = [graph |-> graph, addr |-> PlaceAll(graph).addr]
            /\ buffer' \in Seq(Nat) /\ ~TooSmall(buffer', ChunkSizes(PlaceAll(graph)))
            /\ buffer' # NoBuffer
        BY <1>1, <3>1, KeepIs
      <3>3. plan'.graph = graph /\ plan'.addr = PlaceAll(graph).addr BY <3>2
      <3>4. Like(graph, graph) BY <1>2, LikeItself
      <3> QED BY <1>1, <3>2, <3>3, <3>4 DEF Planned
    <2>2. CASE ~NeedsRealloc(graph, plan.graph)
      <3>1. plan' = plan /\ buffer' = buffer BY <2>2 DEF AllocGraph
      <3>2. plan # NoPlan BY <1>2, <2>2, NoPlanNeeded
      <3>3. /\ plan.graph \in Graphs /\ plan.addr = PlaceAll(plan.graph).addr
            /\ buffer \in Seq(Nat) /\ ~TooSmall(buffer, ChunkSizes(PlaceAll(plan.graph)))
        BY <1>1, <3>2 DEF Planned
      <3>4. WellFormed(plan.graph) BY <3>3, GraphsAssumption
      <3>5. Scaled(graph, plan.graph) BY <1>1, <2>2 DEF NeedsRealloc
      <3>6. Like(graph, plan.graph) BY <1>2, <2>2, <3>4, <3>5, LikePlanned
      <3>7. buffer # NoBuffer BY <3>3 DEF TooSmall
      <3> QED BY <1>1, <3>1, <3>3, <3>6, <3>7
    <2> QED BY <2>1, <2>2
  <1>4. /\ InitTensors(graph, plan'.addr) /\ pc' = "computing" /\ graph' = graph
        /\ node' = Len(graph) - Cardinality(Nodes(graph)) + 1
    BY <1>3 DEF AllocGraph
  <1>5. data' = plan'.addr /\ InputsSet(graph, plan'.addr, buffer', memory')
    BY <1>4 DEF InitTensors, InputsSet
  <1>6. WellFormed(plan'.graph) BY <1>3, GraphsAssumption
  <1>7. RegionsIn(graph, plan'.addr, buffer') BY <1>2, <1>3, <1>6, PlanFits
  <1>8. RegionsPlaced(graph, plan'.addr) BY <1>2, <1>3, <1>6, PlanPlaces
  <1>9. ComputeInv(graph, plan'.addr, buffer', memory', node')
    BY <1>1, <1>4, <1>5, <1>7, <1>8, ComputeStarts
  <1>10. ComputeInv(graph', data', buffer', memory', node') BY <1>4, <1>5, <1>9
  <1>11. pc' # "built" BY <1>4
  <1> QED BY <1>3, <1>10, <1>11 DEF GraphInv

\* GraphInv is an inductive invariant.
THEOREM GraphInvariant == PlanAssumption => (Spec => []GraphInv)
  <1> SUFFICES ASSUME PlanAssumption PROVE Spec => []GraphInv OBVIOUS
  <1>1. Init => GraphInv
    <2> SUFFICES ASSUME Init PROVE GraphInv OBVIOUS
    <2>1. buffer = NoBuffer /\ plan = NoPlan /\ pc = "idle" BY DEF Init
    <2> QED BY <2>1 DEF GraphInv, Planned
  <1>2. GraphInv /\ [Next]_vars => GraphInv'
    <2> SUFFICES ASSUME GraphInv, [Next]_vars PROVE GraphInv' OBVIOUS
    <2>1. buffer \in Seq(Nat) \cup {NoBuffer} /\ Planned(plan, buffer) BY DEF GraphInv
    <2>2. CASE Build
      <3>1. PICK g \in IF built = 0 THEN Graphs ELSE Series :
              /\ SameTopology /\ Len(g) = Len(plan.graph) => Scaled(g, plan.graph)
              /\ graph' = g
        BY <2>2 DEF Build
      <3>2. g \in Graphs BY <3>1, GraphAllocAssumption
      <3>3. Len(g) = Len(plan.graph) => Scaled(g, plan.graph) BY <3>1 DEF PlanAssumption
      <3>4. pc' = "built" /\ plan' = plan /\ buffer' = buffer BY <2>2 DEF Build
      <3> QED BY <2>1, <3>1, <3>2, <3>3, <3>4 DEF GraphInv
    <2>3. CASE ReserveGraph
      <3>1. graph \in Graphs /\ Reserve(graph, TRUE) /\ pc' = "idle"
        BY <2>3 DEF ReserveGraph, GraphInv, PlanAssumption
      <3>2. /\ plan' = [graph |-> graph, addr |-> PlaceAll(graph).addr]
            /\ buffer' \in Seq(Nat) /\ ~TooSmall(buffer', ChunkSizes(PlaceAll(graph)))
        BY <2>1, <3>1, KeepIs
      <3>3. plan'.graph = graph /\ plan'.addr = PlaceAll(graph).addr BY <3>2
      <3>4. Planned(plan', buffer') BY <3>1, <3>2, <3>3 DEF Planned
      <3> QED BY <3>1, <3>2, <3>4 DEF GraphInv
    <2>4. CASE AllocGraph BY <2>4, AllocStep
    <2>5. CASE Compute
      <3>1. /\ pc = "computing" /\ node <= Len(graph) /\ pc' = pc /\ node' = node + 1
            /\ graph' = graph /\ data' = data /\ plan' = plan /\ buffer' = buffer
            /\ memory' = IF IsView(graph, node) THEN memory
                         ELSE [x \in DOMAIN memory |->
                                 IF x \in Region(data, graph, node) THEN node ELSE memory[x]]
        BY <2>5 DEF Compute
      <3>2. ComputeInv(graph, data, buffer, memory, node) BY <3>1 DEF GraphInv
      <3>3. ComputeInv(graph, data, buffer, memory', node + 1) BY <3>1, <3>2, ComputeStep
      <3> QED BY <2>1, <3>1, <3>3 DEF GraphInv
    <2>6. CASE Finish
      <3>1. pc' = "idle" /\ plan' = plan /\ buffer' = buffer BY <2>6 DEF Finish
      <3> QED BY <2>1, <3>1 DEF GraphInv
    <2>7. CASE UNCHANGED vars
      <3>1. /\ graph' = graph /\ pc' = pc /\ node' = node /\ plan' = plan /\ buffer' = buffer
            /\ data' = data /\ memory' = memory
        BY <2>7 DEF vars
      <3> QED BY <3>1 DEF GraphInv
    <2> QED BY <2>2, <2>3, <2>4, <2>5, <2>6, <2>7 DEF Next
  <1> QED BY <1>1, <1>2, PTL DEF Spec

\* When a node is computed, what it reads is in the buffer as it was written, and the
\* node lies beside it or, in place, exactly on it.
THEOREM OperandsAreIntact == PlanAssumption => (Spec => []OperandsIntact)
  <1> SUFFICES ASSUME PlanAssumption PROVE Spec => []OperandsIntact OBVIOUS
  <1>1. GraphInv => OperandsIntact
    <2> SUFFICES ASSUME GraphInv, pc = "computing", node <= Len(graph),
                        NEW q \in Sources(graph, node), NEW p, p = Owner(graph, q),
                        Owned(graph, p)
                 PROVE  /\ Holds(p)
                        /\ ~IsView(graph, node) =>
                             \/ Region(data, graph, p) \cap Region(data, graph, node) = {}
                             \/ graph[node].op = "inplace"
                                /\ Region(data, graph, p) = Region(data, graph, node)
      BY DEF OperandsIntact
    <2>1. /\ graph \in Graphs /\ RegionsPlaced(graph, data)
          /\ node \in 1 .. Len(graph) + 1 /\ \A u \in node .. Len(graph) : u \in Nodes(graph)
          /\ \A v \in 1 .. node - 1 :
               Owned(graph, v) /\ Needed(graph, node - 1, v) => HoldsIn(graph, data, memory, v)
      BY DEF GraphInv, ComputeInv
    <2>2. WellFormed(graph) BY <2>1, GraphsAssumption
    <2>3. node \in Ids(graph) /\ node \in Nodes(graph)
      <3>1. Len(graph) \in Nat BY <2>2 DEF WellFormed
      <3> QED BY <2>1, <3>1 DEF Ids
    <2>4. p \in 1 .. node - 1 /\ Needed(graph, node - 1, p) BY <2>2, <2>3, OperandsNeeded
    <2>5. Holds(p) BY <2>1, <2>4 DEF Holds, HoldsIn
    <2>6. ~IsView(graph, node) => Owned(graph, node) BY <2>3 DEF Owned, Nodes
    <2> QED BY <2>1, <2>3, <2>4, <2>5, <2>6 DEF RegionsPlaced
  <1> QED BY <1>1, GraphInvariant, PTL

\* When a graph has been computed, all outputs are in the buffer.
THEOREM OutputsAreKept == PlanAssumption /\ OutputAssumption => (Spec => []OutputsKept)
  <1> SUFFICES ASSUME PlanAssumption, OutputAssumption PROVE Spec => []OutputsKept OBVIOUS
  <1>1. GraphInv => OutputsKept
    <2> SUFFICES ASSUME GraphInv, pc = "computing", node > Len(graph), NEW t \in Ids(graph),
                        graph[t].out, NEW p, p = Owner(graph, t), Owned(graph, p)
                 PROVE  Holds(p)
      BY DEF OutputsKept
    <2>1. /\ graph \in Graphs /\ node \in 1 .. Len(graph) + 1
          /\ \A v \in 1 .. node - 1 :
               Owned(graph, v) /\ Needed(graph, node - 1, v) => HoldsIn(graph, data, memory, v)
      BY DEF GraphInv, ComputeInv
    <2>2. WellFormed(graph) BY <2>1, GraphsAssumption
    <2>3. node - 1 = Len(graph) /\ Len(graph) \in Nat
      <3>1. Len(graph) \in Nat BY <2>2 DEF WellFormed
      <3> QED BY <2>1, <3>1
    <2>4. p \in 1 .. Len(graph) /\ Needed(graph, Len(graph), p)
      <3>1. CASE ~IsView(graph, t) BY <3>1 DEF Owner, Needed, Ids
      <3>2. CASE IsView(graph, t)
        <4>1. p \in Ids(graph) /\ p = graph[t].view BY <2>2, <3>2, TensorIs DEF Owner
        <4>2. ReadAt(graph, t) = {}
          <5>1. Cardinality(ReadAt(graph, t)) = 0
            BY <2>1, <3>2 DEF OutputAssumption, Reads
          <5>2. IsFiniteSet(ReadAt(graph, t)) BY <2>2, FiniteReads
          <5> QED BY <5>1, <5>2, FS_EmptySet
        <4>3. t \in ViewsLeft(graph, Len(graph), MaxSrc, p) BY <4>1, <4>2 DEF ViewsLeft
        <4> QED BY <4>1, <4>3 DEF Needed, Ids
      <3> QED BY <3>1, <3>2
    <2> QED BY <2>1, <2>3, <2>4 DEF Holds, HoldsIn
  <1> QED BY <1>1, GraphInvariant, PTL

===============================================================================
