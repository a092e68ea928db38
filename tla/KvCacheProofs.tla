---------------------------- MODULE KvCacheProofs ----------------------------
(***************************************************************************)
(* The summaries that llama_kv_cells keeps of its cells, the position and  *)
(* shift bookkeeping of llama_kv_cache and the rotations of its K data,    *)
(* for any number of cells, streams, sequences and positions.  It goes     *)
(* from the inside out: one call on the cells of a stream, placing the     *)
(* tokens of a ubatch, splitting a batch, the trial placement of prepare   *)
(* and its undoing, the calls and decodes of the cache, and what each of   *)
(* them does to the sequences, which makes the cache an implementation of  *)
(* SeqMemory.  The inductive invariant is CacheInv; RotationInv is added   *)
(* for the rotations, and SlotsFree and Queued for the ubatches that a     *)
(* decode has still to do.  PromiseInv joins these with PlainJobs, what    *)
(* the ubatches are, and WindowSlot, where the only one of a batch goes.   *)
(* All of them are defined in KvCacheInv.                                  *)
(***************************************************************************)
EXTENDS KvCacheInv, FiniteSetTheorems, WellFoundedInduction, TLAPS

-----
(* Numbers, and functions that are defined from one number to the next. *)

\* A set of natural numbers has a least member.
LEMMA LeastNat ==
  ASSUME NEW S, S \subseteq Nat, S # {}
  PROVE  \E m \in S : \A k \in S : m <= k
<1> DEFINE R == OpToRel(<, Nat)
<1>1. IsWellFoundedOn(R, Nat) BY NatLessThanWellFounded, Zenon
<1>2. \A k, m \in Nat : k < m => <<k, m>> \in R BY Zenon DEF OpToRel
<1> HIDE DEF R
<1>3. PICK m \in S : \A k \in S : ~ (<<k, m>> \in R) BY <1>1, WFMin
<1>4. \A k \in S : ~ (k < m) BY <1>2, <1>3
<1> QED BY <1>4

\* Induction along 0 .. n, for membership in a set.
LEMMA Induct ==
  ASSUME NEW N \in Nat, NEW S, 0 \in S, \A n \in 1 .. N : n - 1 \in S => n \in S
  PROVE  \A n \in 0 .. N : n \in S
<1> DEFINE bad == {n \in 0 .. N : n \notin S}
<1>1. SUFFICES ASSUME bad # {} PROVE FALSE
  OBVIOUS
<1>2. bad \subseteq Nat
  OBVIOUS
<1>3. PICK m \in bad : \A k \in bad : m <= k
  BY <1>1, <1>2, LeastNat
<1>4. m # 0 /\ m - 1 \in 0 .. N /\ m \in 1 .. N /\ ~(m <= m - 1)
  OBVIOUS
<1>5. m - 1 \in S
  BY <1>3, <1>4
<1> QED BY <1>4, <1>5

\* A step that leads from each set of T to the next can be iterated.
LEMMA Iterated ==
  ASSUME NEW N \in Nat, NEW T, NEW s, s \in T[0], NEW step,
         \A n \in 1 .. N : \A x \in T[n - 1] : step[n][x] \in T[n]
  PROVE  \E f : Iterates(f, N, s, step) /\ \A n \in 0 .. N : f[n] \in T[n]
<1> DEFINE Up(f, m) == /\ f = [n \in 0 .. m |-> IF n = 0 THEN s ELSE step[n][f[n - 1]]]
                       /\ \A n \in 0 .. m : f[n] \in T[n]
           S == {m \in 0 .. N : \E f : Up(f, m)}
<1>1. 0 \in S
  <2> DEFINE g == [n \in 0 .. 0 |-> s]
  <2>1. g = [n \in 0 .. 0 |-> IF n = 0 THEN s ELSE step[n][g[n - 1]]]
    <3>1. \A n \in 0 .. 0 : n = 0
      OBVIOUS
    <3> QED BY <3>1
  <2>2. \A n \in 0 .. 0 : g[n] \in T[n]
    OBVIOUS
  <2>3. Up(g, 0)
    BY <2>1, <2>2
  <2> HIDE DEF g, Up
  <2> QED BY <2>3
<1>2. ASSUME NEW m \in 1 .. N, m - 1 \in S PROVE m \in S
  <2>1. PICK f : Up(f, m - 1)
    BY <1>2
  <2> DEFINE g == [n \in 0 .. m |-> IF n = m THEN step[m][f[m - 1]] ELSE f[n]]
  <2>2. \A n \in 0 .. m - 1 : g[n] = f[n] /\ g[n] = IF n = 0 THEN s ELSE step[n][f[n - 1]]
    BY <2>1
  <2>3. \A n \in 0 .. m : g[n] = IF n = 0 THEN s ELSE step[n][g[n - 1]]
    <3>1. ASSUME NEW n \in 0 .. m - 1 PROVE g[n] = IF n = 0 THEN s ELSE step[n][g[n - 1]]
      <4>1. g[n] = f[n] /\ g[n] = IF n = 0 THEN s ELSE step[n][f[n - 1]]
        BY <2>2
      <4>2. n # 0 => g[n - 1] = f[n - 1]
        <5>1. n # 0 => n - 1 \in 0 .. m - 1
          OBVIOUS
        <5> QED BY <2>2, <5>1
      <4> HIDE DEF g
      <4> QED BY <4>1, <4>2
    <3>2. g[m] = step[m][g[m - 1]] /\ m # 0
      <4>1. m - 1 \in 0 .. m - 1 /\ m \in 0 .. m
        OBVIOUS
      <4> QED BY <2>2, <4>1
    <3> QED BY <3>1, <3>2
  <2>4. \A n \in 0 .. m : g[n] \in T[n]
    <3>1. m - 1 \in 0 .. m - 1
      OBVIOUS
    <3> QED BY <2>1, <3>1
  <2>5. g = [n \in 0 .. m |-> IF n = 0 THEN s ELSE step[n][g[n - 1]]]
    <3>1. g = [n \in 0 .. m |-> g[n]]
      OBVIOUS
    <3> HIDE DEF g
    <3> QED BY <2>3, <3>1
  <2>6. Up(g, m)
    BY <2>4, <2>5
  <2> HIDE DEF g, Up
  <2> QED BY <2>6
<1>3. N \in S
  <2> HIDE DEF S
  <2>1. \A n \in 1 .. N : n - 1 \in S => n \in S
    BY <1>2
  <2>2. \A n \in 0 .. N : n \in S
    BY <1>1, <2>1, Induct
  <2> QED BY <2>2
<1> QED BY <1>3 DEF Iterates

\* What holds at the start and survives each step holds all along.
LEMMA Stays ==
  ASSUME NEW N \in Nat, NEW T, NEW F, F[0] \in T[0],
         \A n \in 1 .. N : F[n - 1] \in T[n - 1] => F[n] \in T[n]
  PROVE  \A n \in 0 .. N : F[n] \in T[n]
<1> DEFINE S == {n \in 0 .. N : F[n] \in T[n]}
<1>1. 0 \in S
  OBVIOUS
<1>2. \A n \in 1 .. N : n - 1 \in S => n \in S
  OBVIOUS
<1> HIDE DEF S
<1>3. \A n \in 0 .. N : n \in S
  BY <1>1, <1>2, Induct
<1> QED BY <1>3 DEF S

-----
(* Counting. *)

\* Sets of cells are finite, and counts are naturals.
LEMMA CountsType ==
  ASSUME NEW c, NEW I \in SUBSET Cells
  PROVE  /\ IsFiniteSet(I)
         /\ Counts(c, I) \in [Seqs -> [Positions -> Nat]]
         /\ \A s \in Seqs, p \in Positions :
              /\ IsFiniteSet(Holding(c, I, s, p))
              /\ Counts(c, I)[s][p] = Cardinality(Holding(c, I, s, p))
<1> USE CellsAssumption
<1>1. IsFiniteSet(Cells)
  BY FS_Interval DEF Cells
<1>2. IsFiniteSet(I)
  BY <1>1, FS_Subset
<1>3. ASSUME NEW s \in Seqs, NEW p \in Positions
      PROVE  /\ IsFiniteSet(Holding(c, I, s, p))
             /\ Cardinality(Holding(c, I, s, p)) \in Nat
  <2>1. Holding(c, I, s, p) \in SUBSET I
    BY DEF Holding
  <2> QED BY <1>2, <2>1, FS_Subset, FS_CardinalityType
<1>4. Counts(c, I) =
        [s \in Seqs |-> [p \in Positions |-> Cardinality(Holding(c, I, s, p))]]
  BY DEF Counts, Holding
<1> QED BY <1>2, <1>3, <1>4

\* The count over all cells is the count over I plus that over the rest.
LEMMA CountsSplit ==
  ASSUME NEW c, NEW I \in SUBSET Cells
  PROVE  Counts(c, Cells) = Plus(Counts(c, I), Counts(c, Cells \ I))
<1>1. ASSUME NEW s \in Seqs, NEW p \in Positions
      PROVE  Cardinality(Holding(c, Cells, s, p)) =
               Cardinality(Holding(c, I, s, p))
               + Cardinality(Holding(c, Cells \ I, s, p))
  <2> DEFINE A == Holding(c, I, s, p)
             B == Holding(c, Cells \ I, s, p)
  <2>1. IsFiniteSet(A) /\ IsFiniteSet(B)
    BY CountsType
  <2>2. Holding(c, Cells, s, p) = A \cup B /\ A \cap B = {}
    BY DEF Holding
  <2>3. Cardinality(A \cap B) = 0
    <3>1. A \cap B = {}
      BY <2>2
    <3> QED BY <3>1, FS_EmptySet
  <2>4. Cardinality(A) \in Nat /\ Cardinality(B) \in Nat
    BY <2>1, FS_CardinalityType
  <2>5. Cardinality(A \cup B) =
          Cardinality(A) + Cardinality(B) - Cardinality(A \cap B)
    BY <2>1, FS_Union
  <2> HIDE DEF A, B
  <2>6. Cardinality(A \cup B) = Cardinality(A) + Cardinality(B)
    BY <2>2, <2>3, <2>4, <2>5
  <2>7. Cardinality(Holding(c, Cells, s, p)) = Cardinality(A) + Cardinality(B)
    BY <2>2, <2>6
  <2> QED BY <2>7 DEF A, B
<1>2. Counts(c, Cells) =
        [s \in Seqs |-> [p \in Positions |-> Cardinality(Holding(c, Cells, s, p))]]
  BY DEF Counts, Holding
<1>3. ASSUME NEW s \in Seqs, NEW p \in Positions
      PROVE  /\ Counts(c, I)[s][p] = Cardinality(Holding(c, I, s, p))
             /\ Counts(c, Cells \ I)[s][p] = Cardinality(Holding(c, Cells \ I, s, p))
  BY CountsType
<1>4. [s \in Seqs |-> [p \in Positions |-> Cardinality(Holding(c, Cells, s, p))]]
        = Plus(Counts(c, I), Counts(c, Cells \ I))
  <2>1. \A s \in Seqs, p \in Positions :
          Cardinality(Holding(c, Cells, s, p))
            = Counts(c, I)[s][p] + Counts(c, Cells \ I)[s][p]
    BY <1>1, <1>3
  <2> QED BY <2>1 DEF Plus
<1> QED BY <1>2, <1>4

\* A count depends on the positions and sequences of its cells only.
LEMMA CountsSame ==
  ASSUME NEW c, NEW d, NEW I,
         \A i \in I : c.pos[i] = d.pos[i] /\ c.seq[i] = d.seq[i]
  PROVE  Counts(c, I) = Counts(d, I)
<1>1. ASSUME NEW s, NEW p
      PROVE  {i \in I : s \in c.seq[i] /\ c.pos[i] = p}
               = {i \in I : s \in d.seq[i] /\ d.pos[i] = p}
  OBVIOUS
<1> QED BY <1>1 DEF Counts

\* Cells without a sequence count nothing.
LEMMA CountsNothing ==
  ASSUME NEW c, NEW I, \A i \in I : c.seq[i] = {}
  PROVE  Counts(c, I) = Zero
<1>1. ASSUME NEW s, NEW p
      PROVE  Cardinality({i \in I : s \in c.seq[i] /\ c.pos[i] = p}) = 0
  <2>1. {i \in I : s \in c.seq[i] /\ c.pos[i] = p} = {}
    OBVIOUS
  <2> QED BY <2>1, FS_EmptySet
<1> QED BY <1>1 DEF Counts, Zero

\* Recounting after a change of the cells I: what they held goes out, and
\* what they hold now comes in.
LEMMA Recount ==
  ASSUME NEW c, NEW d, NEW I \in SUBSET Cells,
         c.seq_pos = Counts(c, Cells),
         \A i \in Cells \ I : c.pos[i] = d.pos[i] /\ c.seq[i] = d.seq[i]
  PROVE  /\ Plus(Minus(c.seq_pos, Counts(c, I)), Counts(d, I)) = Counts(d, Cells)
         /\ Counts(d, I) = Zero =>
              Minus(c.seq_pos, Counts(c, I)) = Counts(d, Cells)
         /\ Counts(c, I) = Zero =>
              Plus(c.seq_pos, Counts(d, I)) = Counts(d, Cells)
<1> DEFINE R == Counts(c, Cells \ I)
<1>1. c.seq_pos = Plus(Counts(c, I), R)
  BY CountsSplit
<1>2. Counts(d, Cells) = Plus(Counts(d, I), R)
  <2>1. R = Counts(d, Cells \ I)
    BY CountsSame
  <2> QED BY <2>1, CountsSplit
<1>3. /\ Counts(c, I) \in [Seqs -> [Positions -> Nat]]
      /\ Counts(d, I) \in [Seqs -> [Positions -> Nat]]
      /\ R \in [Seqs -> [Positions -> Nat]]
  BY CountsType
<1> HIDE DEF R
<1>4. Plus(Minus(Plus(Counts(c, I), R), Counts(c, I)), Counts(d, I))
        = Plus(Counts(d, I), R)
  <2>1. \A s \in Seqs, p \in Positions :
          /\ Counts(c, I)[s][p] \in Nat /\ Counts(d, I)[s][p] \in Nat
          /\ R[s][p] \in Nat
    BY <1>3
  <2>2. \A s \in Seqs, p \in Positions :
          ((Counts(c, I)[s][p] + R[s][p]) - Counts(c, I)[s][p]) + Counts(d, I)[s][p]
            = Counts(d, I)[s][p] + R[s][p]
    BY <2>1
  <2> QED BY <2>2 DEF Plus, Minus
<1>5. ASSUME Counts(d, I) = Zero
      PROVE  Minus(Plus(Counts(c, I), R), Counts(c, I)) = Plus(Zero, R)
  <2>1. \A s \in Seqs, p \in Positions :
          Counts(c, I)[s][p] \in Nat /\ R[s][p] \in Nat
    BY <1>3
  <2>2. \A s \in Seqs, p \in Positions :
          (Counts(c, I)[s][p] + R[s][p]) - Counts(c, I)[s][p] = 0 + R[s][p]
    BY <2>1
  <2> QED BY <2>2 DEF Plus, Minus, Zero
<1>6. ASSUME Counts(c, I) = Zero
      PROVE  Plus(Plus(Zero, R), Counts(d, I)) = Plus(Counts(d, I), R)
  <2>1. \A s \in Seqs, p \in Positions :
          Counts(d, I)[s][p] \in Nat /\ R[s][p] \in Nat
    BY <1>3
  <2>2. \A s \in Seqs, p \in Positions :
          (0 + R[s][p]) + Counts(d, I)[s][p] = Counts(d, I)[s][p] + R[s][p]
    BY <2>1
  <2> QED BY <2>2 DEF Plus, Zero
<1> QED BY <1>1, <1>2, <1>4, <1>5, <1>6

\* Cells without a sequence may be left out of a count.
LEMMA CountsIgnore ==
  ASSUME NEW c, NEW J, NEW I \in SUBSET J, \A i \in J \ I : c.seq[i] = {}
  PROVE  Counts(c, J) = Counts(c, I)
<1>1. ASSUME NEW s, NEW p
      PROVE  {i \in J : s \in c.seq[i] /\ c.pos[i] = p}
               = {i \in I : s \in c.seq[i] /\ c.pos[i] = p}
  OBVIOUS
<1> QED BY <1>1 DEF Counts

\* Sums and differences of counts are tables of integers.
LEMMA TableType ==
  ASSUME NEW m \in [Seqs -> [Positions -> Int]],
         NEW n \in [Seqs -> [Positions -> Nat]]
  PROVE  /\ Plus(m, n) \in [Seqs -> [Positions -> Int]]
         /\ Minus(m, n) \in [Seqs -> [Positions -> Int]]
<1>1. \A s \in Seqs, p \in Positions : m[s][p] \in Int /\ n[s][p] \in Nat
  OBVIOUS
<1>2. \A s \in Seqs, p \in Positions :
        m[s][p] + n[s][p] \in Int /\ m[s][p] - n[s][p] \in Int
  BY <1>1
<1> QED BY <1>2 DEF Plus, Minus

-----
(* The operations. *)

\* Emptied, field by field.
LEMMA EmptiedFields ==
  ASSUME NEW c \in CellsType, NEW I
  PROVE  /\ Emptied(c, I) \in CellsType
         /\ \A i \in Cells :
              /\ Emptied(c, I).pos[i] = IF i \in I THEN -1 ELSE c.pos[i]
              /\ Emptied(c, I).shift[i] = IF i \in I THEN 0 ELSE c.shift[i]
              /\ Emptied(c, I).seq[i] = IF i \in I THEN {} ELSE c.seq[i]
         /\ Emptied(c, I).seq_pos = c.seq_pos
         /\ Emptied(c, I).used = c.used \ I
         /\ Emptied(c, I).has_shift = c.has_shift
<1>1. [i \in Cells |-> IF i \in I THEN -1 ELSE c.pos[i]]
        \in [Cells -> Positions \cup {-1}]
  BY DEF CellsType
<1>2. [i \in Cells |-> IF i \in I THEN 0 ELSE c.shift[i]] \in [Cells -> Int]
  BY DEF CellsType
<1>3. [i \in Cells |-> IF i \in I THEN {} ELSE c.seq[i]]
        \in [Cells -> SUBSET Seqs]
  BY DEF CellsType
<1>4. c.used \ I \in SUBSET Cells
  BY DEF CellsType
<1>5. Emptied(c, I) \in CellsType
  BY <1>1, <1>2, <1>3, <1>4 DEF Emptied, CellsType
<1>6. /\ Emptied(c, I).pos = [i \in Cells |-> IF i \in I THEN -1 ELSE c.pos[i]]
      /\ Emptied(c, I).shift = [i \in Cells |-> IF i \in I THEN 0 ELSE c.shift[i]]
      /\ Emptied(c, I).seq = [i \in Cells |-> IF i \in I THEN {} ELSE c.seq[i]]
      /\ Emptied(c, I).seq_pos = c.seq_pos
      /\ Emptied(c, I).used = c.used \ I
      /\ Emptied(c, I).has_shift = c.has_shift
  BY DEF Emptied, CellsType
<1> QED BY <1>5, <1>6

\* reset() leaves exact summaries.
LEMMA NoCellsGood == Good(NoCells)
<1>1. Counts(NoCells, Cells) = Zero
  BY CountsNothing DEF NoCells
<1>2. NoCells \in CellsType
  BY DEF NoCells, CellsType
<1>3. Exact(NoCells)
  BY <1>1 DEF Exact, NoCells, IsEmpty, Zero
<1> QED BY <1>2, <1>3 DEF Good

\* rm on any set of cells, and what it leaves.
LEMMA RmFields ==
  ASSUME NEW c \in CellsType, NEW I \in SUBSET Cells
  PROVE  /\ RmCells(c, I) \in CellsType
         /\ \A i \in Cells :
              /\ RmCells(c, I).pos[i] = IF i \in I THEN -1 ELSE c.pos[i]
              /\ RmCells(c, I).shift[i] = IF i \in I THEN 0 ELSE c.shift[i]
              /\ RmCells(c, I).seq[i] = IF i \in I THEN {} ELSE c.seq[i]
         /\ RmCells(c, I).seq_pos = Minus(c.seq_pos, Counts(c, I))
         /\ RmCells(c, I).used = c.used \ I
         /\ RmCells(c, I).has_shift = c.has_shift
<1> DEFINE e == Emptied(c, I)
<1>1. e \in CellsType
  BY EmptiedFields
<1>2. Minus(e.seq_pos, Counts(c, I)) \in [Seqs -> [Positions -> Int]]
  BY <1>1, CountsType, TableType DEF CellsType
<1>3. RmCells(c, I) = [e EXCEPT !.seq_pos = Minus(@, Counts(c, I))]
  BY DEF RmCells
<1> HIDE DEF e
<1>4. /\ RmCells(c, I) \in CellsType
      /\ RmCells(c, I).pos = e.pos /\ RmCells(c, I).shift = e.shift
      /\ RmCells(c, I).seq = e.seq /\ RmCells(c, I).used = e.used
      /\ RmCells(c, I).seq_pos = Minus(e.seq_pos, Counts(c, I))
      /\ RmCells(c, I).has_shift = e.has_shift
  BY <1>1, <1>2, <1>3 DEF CellsType
<1> QED BY <1>4, EmptiedFields DEF e

\* rm() of any cells, whichever sequences they have, takes them out of used and
\* seq_pos: the summaries stay exact.
THEOREM RmGood ==
  ASSUME NEW c, Good(c), NEW I \in SUBSET Cells
  PROVE  Good(RmCells(c, I))
<1> DEFINE d == RmCells(c, I)
<1>1. c \in CellsType /\ Exact(c)
  BY DEF Good
<1>2. /\ d \in CellsType
      /\ \A i \in Cells :
           /\ d.pos[i] = IF i \in I THEN -1 ELSE c.pos[i]
           /\ d.shift[i] = IF i \in I THEN 0 ELSE c.shift[i]
           /\ d.seq[i] = IF i \in I THEN {} ELSE c.seq[i]
      /\ d.seq_pos = Minus(c.seq_pos, Counts(c, I))
      /\ d.used = c.used \ I
      /\ d.has_shift = c.has_shift
  BY <1>1, RmFields
<1> HIDE DEF d
<1>3. d.seq_pos = Counts(d, Cells)
  <2>1. Counts(d, I) = Zero
    BY <1>2, CountsNothing
  <2>2. \A i \in Cells \ I : c.pos[i] = d.pos[i] /\ c.seq[i] = d.seq[i]
    BY <1>2
  <2>3. c.seq_pos = Counts(c, Cells)
    BY <1>1 DEF Exact
  <2> QED BY <1>2, <2>1, <2>2, <2>3, Recount
<1>4. Exact(d)
  BY <1>1, <1>2, <1>3 DEF Exact, IsEmpty
<1> QED BY <1>2, <1>4 DEF Good, d

\* The shape of all other operations: the cells I change, the summaries change
\* by what those cells held and hold, and the other cells stay.
LEMMA ChangeGood ==
  ASSUME NEW c, Good(c), NEW I \in SUBSET Cells, NEW d \in CellsType,
         \A i \in Cells \ I : /\ d.pos[i] = c.pos[i] /\ d.shift[i] = c.shift[i]
                              /\ d.seq[i] = c.seq[i],
         d.seq_pos = Plus(Minus(c.seq_pos, Counts(c, I)), Counts(d, I)),
         d.used = (c.used \ I) \cup {i \in I : ~IsEmpty(d, i)},
         \A i \in I : IsEmpty(d, i) <=> d.seq[i] = {},
         \A i \in I : IsEmpty(d, i) => d.shift[i] = 0,
         ~d.has_shift => ~c.has_shift /\ \A i \in I : d.shift[i] = 0
  PROVE  Good(d)
<1>1. c \in CellsType /\ Exact(c)
  BY DEF Good
<1>2. d.seq_pos = Counts(d, Cells)
  BY <1>1, Recount DEF Exact
<1>3. d.used = {i \in Cells : ~IsEmpty(d, i)}
  BY <1>1 DEF Exact, IsEmpty
<1>4. \A i \in Cells : /\ IsEmpty(d, i) <=> d.seq[i] = {}
                       /\ IsEmpty(d, i) => d.shift[i] = 0
  BY <1>1 DEF Exact, IsEmpty
<1>5. ~d.has_shift => \A i \in Cells : d.shift[i] = 0
  BY <1>1 DEF Exact
<1> QED BY <1>2, <1>3, <1>4, <1>5 DEF Good, Exact

\* pos_set() and seq_add() of tokens at empty cells, as apply_ubatch does, with any
\* number of sequences per token: the summaries stay exact.
THEOREM PlaceGood ==
  ASSUME NEW c, Good(c), NEW I \in SUBSET Cells, \A i \in I : IsEmpty(c, i),
         NEW at, \A i \in I : /\ at[i].pos \in Positions
                              /\ at[i].seqs \in SUBSET Seqs /\ at[i].seqs # {}
  PROVE  Good(PlaceCells(c, I, at))
<1> DEFINE d == PlaceCells(c, I, at)
           c1 == [c EXCEPT
               !.pos = [i \in Cells |-> IF i \in I THEN at[i].pos ELSE @[i]],
               !.seq = [i \in Cells |-> IF i \in I THEN at[i].seqs ELSE @[i]],
               !.used = @ \cup I]
<1>1. c \in CellsType /\ Exact(c)
  BY DEF Good
<1>2. c1 \in CellsType
  <2>1. [i \in Cells |-> IF i \in I THEN at[i].pos ELSE c.pos[i]]
          \in [Cells -> Positions \cup {-1}]
    BY <1>1 DEF CellsType
  <2>2. [i \in Cells |-> IF i \in I THEN at[i].seqs ELSE c.seq[i]]
          \in [Cells -> SUBSET Seqs]
    BY <1>1 DEF CellsType
  <2>3. c.used \cup I \in SUBSET Cells
    BY <1>1 DEF CellsType
  <2> QED BY <1>1, <2>1, <2>2, <2>3 DEF CellsType
<1>3. /\ c1.pos = [i \in Cells |-> IF i \in I THEN at[i].pos ELSE c.pos[i]]
      /\ c1.seq = [i \in Cells |-> IF i \in I THEN at[i].seqs ELSE c.seq[i]]
      /\ c1.used = c.used \cup I /\ c1.shift = c.shift
      /\ c1.seq_pos = c.seq_pos /\ c1.has_shift = c.has_shift
  BY <1>1 DEF CellsType
<1>4. d = [c1 EXCEPT !.seq_pos = Plus(@, Counts(c1, I))]
  BY DEF PlaceCells
<1> HIDE DEF c1, d
<1>5. Plus(c1.seq_pos, Counts(c1, I)) \in [Seqs -> [Positions -> Int]]
  BY <1>2, CountsType, TableType DEF CellsType
<1>6. /\ d \in CellsType
      /\ d.pos = c1.pos /\ d.seq = c1.seq /\ d.used = c1.used
      /\ d.shift = c1.shift /\ d.has_shift = c1.has_shift
      /\ d.seq_pos = Plus(c1.seq_pos, Counts(c1, I))
  BY <1>2, <1>4, <1>5 DEF CellsType
<1>7. Counts(c1, I) = Counts(d, I)
  BY <1>6, CountsSame
<1>8. d.seq_pos = Counts(d, Cells)
  <2>1. Counts(c, I) = Zero
    BY <1>1, CountsNothing DEF Exact
  <2>2. \A i \in Cells \ I : c.pos[i] = d.pos[i] /\ c.seq[i] = d.seq[i]
    BY <1>3, <1>6
  <2> QED BY <1>1, <1>3, <1>6, <1>7, <2>1, <2>2, Recount DEF Exact
<1>9. Exact(d)
  <2>1. \A i \in I : d.pos[i] # -1 /\ d.seq[i] # {}
    BY <1>3, <1>6, CellsAssumption DEF Positions
  <2>2. \A i \in Cells \ I : d.pos[i] = c.pos[i] /\ d.seq[i] = c.seq[i]
    BY <1>3, <1>6
  <2>3. d.used = c.used \cup I /\ d.shift = c.shift /\ d.has_shift = c.has_shift
    BY <1>3, <1>6
  <2> QED BY <1>1, <1>8, <2>1, <2>2, <2>3 DEF Exact, IsEmpty
<1> QED BY <1>6, <1>9 DEF Good, d

\* Replacing seq_pos leaves the rest.
LEMMA SeqPosFields ==
  ASSUME NEW x \in CellsType, NEW T \in [Seqs -> [Positions -> Int]],
         NEW d, d = [x EXCEPT !.seq_pos = T]
  PROVE  /\ d \in CellsType
         /\ d.pos = x.pos /\ d.seq = x.seq /\ d.used = x.used
         /\ d.shift = x.shift /\ d.has_shift = x.has_shift
         /\ d.seq_pos = T
BY DEF CellsType

\* Cells of c go out of seq_pos and cells of d come in.
LEMMA RecountType ==
  ASSUME NEW c \in CellsType, NEW d, NEW e, NEW I \in SUBSET Cells,
         NEW J \in SUBSET Cells
  PROVE  Plus(Minus(c.seq_pos, Counts(d, I)), Counts(e, J))
           \in [Seqs -> [Positions -> Int]]
<1>1. c.seq_pos \in [Seqs -> [Positions -> Int]]
  BY DEF CellsType
<1> QED BY <1>1, CountsType, TableType

\* seq_keep() on every cell: cells of other sequences are emptied, shared cells
\* lose their other sequences, and the summaries stay exact.
THEOREM SeqKeepGood ==
  ASSUME NEW c, Good(c), NEW s \in Seqs
  PROVE  Good(SeqKeepCells(c, s))
<1> DEFINE out  == KeptOut(c, s)
           kept == {i \in Cells : s \in c.seq[i]}
           b    == RmCells(c, out)
           c1   == [b EXCEPT
                      !.seq = [i \in Cells |-> IF i \in kept THEN {s} ELSE @[i]]]
           d    == SeqKeepCells(c, s)
<1>1. c \in CellsType /\ Good(b) /\ b \in CellsType
  BY RmGood DEF Good, KeptOut
<1>2. \A i \in kept : b.pos[i] = c.pos[i] /\ b.seq[i] = c.seq[i]
  BY <1>1, RmFields DEF KeptOut
<1>3. Counts(b, kept) = Counts(c, kept)
  BY <1>2, CountsSame
<1>4. d = [c1 EXCEPT !.seq_pos = Plus(Minus(@, Counts(c, kept)), Counts(c1, kept))]
  BY DEF SeqKeepCells
<1> HIDE DEF b, d, out
<1>5. /\ c1 \in CellsType
      /\ c1.seq = [i \in Cells |-> IF i \in kept THEN {s} ELSE b.seq[i]]
      /\ c1.pos = b.pos /\ c1.used = b.used /\ c1.shift = b.shift
      /\ c1.seq_pos = b.seq_pos /\ c1.has_shift = b.has_shift
  <2>1. [i \in Cells |-> IF i \in kept THEN {s} ELSE b.seq[i]]
          \in [Cells -> SUBSET Seqs]
    BY <1>1 DEF CellsType
  <2> QED BY <1>1, <2>1 DEF CellsType
<1> HIDE DEF c1
<1>6. /\ d \in CellsType
      /\ d.pos = c1.pos /\ d.seq = c1.seq /\ d.used = c1.used
      /\ d.shift = c1.shift /\ d.has_shift = c1.has_shift
      /\ d.seq_pos = Plus(Minus(b.seq_pos, Counts(c, kept)), Counts(c1, kept))
  <2>1. Plus(Minus(c1.seq_pos, Counts(c, kept)), Counts(c1, kept))
          \in [Seqs -> [Positions -> Int]]
    BY <1>5, RecountType
  <2> QED BY <1>4, <1>5, <2>1, SeqPosFields
<1>7. Counts(c1, kept) = Counts(d, kept)
  BY <1>6, CountsSame
<1>8. \A i \in kept : b.seq[i] # {} /\ d.seq[i] # {}
  BY <1>2, <1>5, <1>6
<1>9. \A i \in kept : ~IsEmpty(b, i) /\ ~IsEmpty(d, i)
  BY <1>1, <1>5, <1>6, <1>8 DEF Good, Exact, IsEmpty
<1>10. d.used = (b.used \ kept) \cup {i \in kept : ~IsEmpty(d, i)}
  <2>1. kept \subseteq b.used
    BY <1>1, <1>9 DEF Good, Exact
  <2> QED BY <1>5, <1>6, <1>9, <2>1
<1>11. \A i \in Cells \ kept : /\ d.pos[i] = b.pos[i] /\ d.shift[i] = b.shift[i]
                                 /\ d.seq[i] = b.seq[i]
  BY <1>5, <1>6
<1>12. ~d.has_shift => ~b.has_shift /\ \A i \in kept : d.shift[i] = 0
  BY <1>1, <1>5, <1>6 DEF Good, Exact
<1>13. d.seq_pos = Plus(Minus(b.seq_pos, Counts(b, kept)), Counts(d, kept))
  BY <1>3, <1>6, <1>7
<1>14. /\ \A i \in kept : IsEmpty(d, i) <=> d.seq[i] = {}
       /\ \A i \in kept : IsEmpty(d, i) => d.shift[i] = 0
  BY <1>8, <1>9
<1>15. kept \in SUBSET Cells /\ d \in CellsType
  BY <1>6
<1> HIDE DEF kept
<1>16. Good(d)
  BY <1>1, <1>10, <1>11, <1>12, <1>13, <1>14, <1>15, ChangeGood
<1> QED BY <1>16 DEF d

\* reset_shift() clears the pending shifts and their flag together.
THEOREM ResetShiftGood ==
  ASSUME NEW c, Good(c) PROVE Good(ResetShift(c))
<1> DEFINE d == ResetShift(c)
<1>1. c \in CellsType /\ Exact(c)
  BY DEF Good
<1>2. /\ d \in CellsType
      /\ d.pos = c.pos /\ d.seq = c.seq /\ d.used = c.used
      /\ d.shift = [i \in Cells |-> 0] /\ d.has_shift = FALSE
      /\ d.seq_pos = c.seq_pos
  <2>1. [i \in Cells |-> 0] \in [Cells -> Int]
    OBVIOUS
  <2> QED BY <1>1, <2>1 DEF ResetShift, CellsType
<1>3. Counts(d, Cells) = Counts(c, Cells)
  BY <1>2, CountsSame
<1> HIDE DEF d
<1>4. Exact(d)
  BY <1>1, <1>2, <1>3 DEF Exact, IsEmpty
<1> QED BY <1>2, <1>4 DEF Good, d

\* Emptying the cells that left 0 .. MaxPos gives proper cells again.
LEMMA EmptiedWide ==
  ASSUME NEW x \in WideType, NEW I,
         \A i \in Cells \ I : x.pos[i] \in Positions \cup {-1}
  PROVE  LET e == Emptied(x, I)
         IN  /\ e \in CellsType
             /\ e.pos = [i \in Cells |-> IF i \in I THEN -1 ELSE x.pos[i]]
             /\ e.shift = [i \in Cells |-> IF i \in I THEN 0 ELSE x.shift[i]]
             /\ e.seq = [i \in Cells |-> IF i \in I THEN {} ELSE x.seq[i]]
             /\ e.used = x.used \ I
             /\ e.seq_pos = x.seq_pos /\ e.has_shift = x.has_shift
<1>1. [i \in Cells |-> IF i \in I THEN -1 ELSE x.pos[i]]
        \in [Cells -> Positions \cup {-1}]
  OBVIOUS
<1>2. [i \in Cells |-> IF i \in I THEN 0 ELSE x.shift[i]] \in [Cells -> Int]
  BY DEF WideType
<1>3. [i \in Cells |-> IF i \in I THEN {} ELSE x.seq[i]]
        \in [Cells -> SUBSET Seqs]
  BY DEF WideType
<1>4. x.used \ I \in SUBSET Cells
  BY DEF WideType
<1>5. Emptied(x, I) \in CellsType
  BY <1>1, <1>2, <1>3, <1>4 DEF Emptied, WideType, CellsType
<1>6. /\ Emptied(x, I).pos = [i \in Cells |-> IF i \in I THEN -1 ELSE x.pos[i]]
      /\ Emptied(x, I).shift = [i \in Cells |-> IF i \in I THEN 0 ELSE x.shift[i]]
      /\ Emptied(x, I).seq = [i \in Cells |-> IF i \in I THEN {} ELSE x.seq[i]]
      /\ Emptied(x, I).used = x.used \ I
      /\ Emptied(x, I).seq_pos = x.seq_pos
      /\ Emptied(x, I).has_shift = x.has_shift
  BY DEF Emptied, WideType
<1> QED BY <1>5, <1>6

\* pos_add() on occupied cells, as seq_add of the cache does: a cell whose position
\* becomes negative is emptied, the others are recounted at their new position
\* and has_shift is set, so that the summaries stay exact.
THEOREM PosAddGood ==
  ASSUME NEW c, Good(c), NEW I \in SUBSET Cells, \A i \in I : ~IsEmpty(c, i),
         NEW n \in Int, \A i \in I : c.pos[i] + n <= MaxPos
  PROVE  Good(PosAddCells(c, I, n))
<1> DEFINE pos   == [i \in Cells |-> IF i \in I THEN c.pos[i] + n ELSE c.pos[i]]
           shift == [i \in Cells |-> IF i \in I THEN c.shift[i] + n ELSE c.shift[i]]
           x     == [c EXCEPT !.pos = pos, !.shift = shift,
                              !.has_shift = c.has_shift \/ I # {}]
           gone  == {i \in I : x.pos[i] < 0}
           e     == Emptied(x, gone)
           d     == PosAddCells(c, I, n)
<1>1. c \in CellsType /\ Exact(c)
  BY DEF Good
<1>2. d = [e EXCEPT !.seq_pos =
             Plus(Minus(@, Counts(c, I)), Counts(x, I \ gone))]
  BY <1>1 DEF PosAddCells, CellsType
<1>3. Positions \subseteq Int /\ -1 \notin Positions
      /\ \A p \in Int : p \in Positions <=> 0 <= p /\ p <= MaxPos
  BY CellsAssumption DEF Positions
<1>4. /\ x \in WideType
      /\ x.pos = pos /\ x.shift = shift /\ x.has_shift = (c.has_shift \/ I # {})
      /\ x.seq = c.seq /\ x.seq_pos = c.seq_pos /\ x.used = c.used
  <2>1. \A i \in Cells : c.pos[i] \in Int /\ c.shift[i] \in Int
    <3>1. c.pos \in [Cells -> Positions \cup {-1}] /\ c.shift \in [Cells -> Int]
      BY <1>1 DEF CellsType
    <3>2. Positions \cup {-1} \subseteq Int
      BY <1>3
    <3> QED BY <3>1, <3>2
  <2>2. pos \in [Cells -> Int] /\ shift \in [Cells -> Int]
    BY <2>1
  <2> DEFINE h == c.has_shift \/ I # {}
  <2>3. h \in BOOLEAN
    OBVIOUS
  <2>4. x = [c EXCEPT !.pos = pos, !.shift = shift, !.has_shift = h]
    OBVIOUS
  <2> HIDE DEF pos, shift, h, x
  <2>5. /\ x \in WideType
        /\ x.pos = pos /\ x.shift = shift /\ x.has_shift = h
        /\ x.seq = c.seq /\ x.seq_pos = c.seq_pos /\ x.used = c.used
    <3>1. Positions \cup {-1} \subseteq Int
      BY <1>3
    <3> QED BY <1>1, <2>2, <2>3, <2>4, <3>1 DEF CellsType, WideType
  <2> QED BY <2>5 DEF h
<1> HIDE DEF x
<1>5. \A i \in Cells \ gone : x.pos[i] \in Positions \cup {-1}
  <2>1. ASSUME NEW i \in I, i \notin gone PROVE x.pos[i] \in Positions
    <3>1. x.pos[i] = c.pos[i] + n /\ c.pos[i] + n <= MaxPos
      BY <1>4
    <3>2. x.pos[i] \in Int /\ ~(x.pos[i] < 0)
      BY <1>4, <2>1 DEF WideType
    <3> QED BY <1>3, <3>1, <3>2, CellsAssumption
  <2>2. ASSUME NEW i \in Cells \ I PROVE x.pos[i] \in Positions \cup {-1}
    BY <1>1, <1>4 DEF CellsType
  <2> QED BY <2>1, <2>2
<1>6. /\ e \in CellsType
      /\ e.pos = [i \in Cells |-> IF i \in gone THEN -1 ELSE x.pos[i]]
      /\ e.shift = [i \in Cells |-> IF i \in gone THEN 0 ELSE x.shift[i]]
      /\ e.seq = [i \in Cells |-> IF i \in gone THEN {} ELSE x.seq[i]]
      /\ e.used = x.used \ gone
      /\ e.seq_pos = x.seq_pos /\ e.has_shift = x.has_shift
  BY <1>4, <1>5, EmptiedWide
<1>7. gone \in SUBSET I /\ \A i \in I : i \in gone <=> x.pos[i] < 0
  OBVIOUS
<1> HIDE DEF e, d, gone
<1>8. /\ d \in CellsType
      /\ d.pos = e.pos /\ d.seq = e.seq /\ d.used = e.used
      /\ d.shift = e.shift /\ d.has_shift = e.has_shift
      /\ d.seq_pos = Plus(Minus(c.seq_pos, Counts(c, I)), Counts(x, I \ gone))
  <2>1. Plus(Minus(e.seq_pos, Counts(c, I)), Counts(x, I \ gone))
          \in [Seqs -> [Positions -> Int]]
    BY <1>6, RecountType
  <2> DEFINE T == Plus(Minus(e.seq_pos, Counts(c, I)), Counts(x, I \ gone))
  <2>2. T \in [Seqs -> [Positions -> Int]] /\ d = [e EXCEPT !.seq_pos = T]
    BY <1>2, <2>1
  <2>3. T = Plus(Minus(c.seq_pos, Counts(c, I)), Counts(x, I \ gone))
    BY <1>4, <1>6
  <2> HIDE DEF T
  <2>4. /\ d \in CellsType
        /\ d.pos = e.pos /\ d.seq = e.seq /\ d.used = e.used
        /\ d.shift = e.shift /\ d.has_shift = e.has_shift
        /\ d.seq_pos = T
    BY <1>6, <2>2 DEF CellsType
  <2> QED BY <2>3, <2>4
<1>9. Counts(x, I \ gone) = Counts(d, I)
  <2>1. Counts(x, I \ gone) = Counts(d, I \ gone)
    BY <1>6, <1>8, CountsSame
  <2>2. \A i \in I \ (I \ gone) : d.seq[i] = {}
    BY <1>6, <1>7, <1>8
  <2>3. Counts(d, I) = Counts(d, I \ gone)
    BY <2>2, CountsIgnore
  <2> QED BY <2>1, <2>3
<1>10. \A i \in I : i \in gone <=> IsEmpty(d, i)
  <2>1. \A i \in I : i \notin gone => x.pos[i] \in Int /\ ~(x.pos[i] < 0)
    BY <1>4, <1>7 DEF WideType
  <2> QED BY <1>6, <1>7, <1>8, <2>1 DEF IsEmpty
<1>11. \A i \in I : /\ i \in gone => d.seq[i] = {} /\ d.shift[i] = 0
                    /\ i \notin gone => d.seq[i] # {}
  BY <1>1, <1>4, <1>6, <1>7, <1>8 DEF Exact
<1>12. \A i \in Cells \ I : /\ d.pos[i] = c.pos[i] /\ d.shift[i] = c.shift[i]
                            /\ d.seq[i] = c.seq[i]
  BY <1>4, <1>6, <1>7, <1>8
<1>13. d.used = (c.used \ I) \cup {i \in I : ~IsEmpty(d, i)}
  <2>1. I \subseteq c.used
    BY <1>1 DEF Exact
  <2> QED BY <1>4, <1>6, <1>7, <1>8, <1>10, <2>1
<1>14. ~d.has_shift => ~c.has_shift /\ \A i \in I : d.shift[i] = 0
  BY <1>4, <1>6, <1>8
<1>15. /\ \A i \in I : IsEmpty(d, i) <=> d.seq[i] = {}
       /\ \A i \in I : IsEmpty(d, i) => d.shift[i] = 0
  BY <1>10, <1>11
<1>16. d.seq_pos = Plus(Minus(c.seq_pos, Counts(c, I)), Counts(d, I))
  BY <1>8, <1>9
<1>17. Good(d)
  BY <1>8, <1>12, <1>13, <1>14, <1>15, <1>16, ChangeGood
<1> QED BY <1>17 DEF d

\* Division by a positive number stays between 0 and the dividend.
LEMMA DivBounds ==
  ASSUME NEW a \in Nat, NEW n \in Nat \ {0}
  PROVE  a \div n \in Nat /\ a \div n <= a
OBVIOUS

\* pos_div() on occupied cells, as seq_div of the cache does: several positions may
\* become one, and the summaries stay exact.
THEOREM PosDivGood ==
  ASSUME NEW c, Good(c), NEW I \in SUBSET Cells, \A i \in I : ~IsEmpty(c, i),
         NEW n \in Nat \ {0}
  PROVE  Good(PosDivCells(c, I, n))
<1> DEFINE pos   == [i \in Cells |-> IF i \in I THEN c.pos[i] \div n ELSE c.pos[i]]
           shift == [i \in Cells |-> IF i \in I
                       THEN c.shift[i] + (c.pos[i] - c.pos[i] \div n)
                       ELSE c.shift[i]]
           h     == c.has_shift \/ I # {}
           x     == [c EXCEPT !.pos = pos, !.shift = shift, !.has_shift = h]
           T     == Plus(Minus(x.seq_pos, Counts(c, I)), Counts(x, I))
           d     == PosDivCells(c, I, n)
<1>1. /\ c \in CellsType /\ Exact(c)
      /\ c.pos \in [Cells -> Positions \cup {-1}] /\ c.shift \in [Cells -> Int]
      /\ h \in BOOLEAN
  BY DEF Good, CellsType
<1>2. d = [x EXCEPT !.seq_pos = T]
  BY <1>1 DEF PosDivCells, CellsType
<1>3. \A i \in I : c.pos[i] \in Positions
  BY <1>1 DEF IsEmpty
<1>4. \A p \in Positions : p \in Nat /\ p # -1 /\ p \div n \in Positions
  <2>1. \A p \in Positions : p \in Nat /\ p <= MaxPos
    BY CellsAssumption DEF Positions
  <2>2. \A p \in Positions : p \div n \in Nat /\ p \div n <= p
    BY <2>1, DivBounds
  <2>3. \A q \in Nat : q <= MaxPos => q \in Positions
    BY CellsAssumption DEF Positions
  <2> QED BY <2>1, <2>2, <2>3, CellsAssumption
<1>5. \A i \in I : pos[i] \in Positions /\ shift[i] \in Int
  <2>1. \A i \in I : c.pos[i] \in Int /\ c.pos[i] \div n \in Int
    BY <1>3, <1>4
  <2> QED BY <1>1, <1>3, <1>4, <2>1
<1>6. pos \in [Cells -> Positions \cup {-1}] /\ shift \in [Cells -> Int]
  BY <1>1, <1>5
<1>7. /\ \A i \in Cells \ I : pos[i] = c.pos[i] /\ shift[i] = c.shift[i]
      /\ h <=> c.has_shift \/ I # {}
  OBVIOUS
<1> HIDE DEF pos, shift, h
<1>8. /\ x \in CellsType
      /\ x.pos = pos /\ x.shift = shift /\ x.has_shift = h
      /\ x.seq = c.seq /\ x.seq_pos = c.seq_pos /\ x.used = c.used
  BY <1>1, <1>6 DEF CellsType
<1>9. T \in [Seqs -> [Positions -> Int]]
  BY <1>8, RecountType
<1> HIDE DEF x, d
<1>10. T = Plus(Minus(c.seq_pos, Counts(c, I)), Counts(x, I))
  BY <1>8
<1> HIDE DEF T
<1>11. /\ d \in CellsType
       /\ d.pos = pos /\ d.shift = shift /\ d.has_shift = h
       /\ d.seq = c.seq /\ d.used = c.used /\ d.seq_pos = T
  BY <1>2, <1>8, <1>9 DEF CellsType
<1>12. Counts(x, I) = Counts(d, I)
  BY <1>8, <1>11, CountsSame
<1>13. \A i \in I : ~IsEmpty(d, i) /\ d.seq[i] # {}
  BY <1>1, <1>4, <1>5, <1>11 DEF Exact, IsEmpty
<1>14. d.used = (c.used \ I) \cup {i \in I : ~IsEmpty(d, i)}
  BY <1>1, <1>11, <1>13 DEF Exact
<1>15. \A i \in Cells \ I : /\ d.pos[i] = c.pos[i] /\ d.shift[i] = c.shift[i]
                            /\ d.seq[i] = c.seq[i]
  BY <1>7, <1>11
<1>16. ~d.has_shift => ~c.has_shift /\ \A i \in I : d.shift[i] = 0
  BY <1>7, <1>11
<1>17. d.seq_pos = Plus(Minus(c.seq_pos, Counts(c, I)), Counts(d, I))
  BY <1>10, <1>11, <1>12
<1>18. /\ \A i \in I : IsEmpty(d, i) <=> d.seq[i] = {}
       /\ \A i \in I : IsEmpty(d, i) => d.shift[i] = 0
  BY <1>13
<1>19. Good(d)
  BY <1>11, <1>14, <1>15, <1>16, <1>17, <1>18, ChangeGood
<1> QED BY <1>19 DEF d

\* seq_rm() of a range: cells that lose their only sequence are emptied, the
\* others keep their position and their other sequences, and the summaries stay
\* exact.
THEOREM SeqRmGood ==
  ASSUME NEW c, Good(c), NEW s \in Seqs, NEW p0 \in Int, NEW p1 \in Int
  PROVE  Good(SeqRmCells(c, s, p0, p1))
<1> DEFINE hit  == SeqHits(c, s, p0, p1)
           free == Freed(c, hit, s)
           e    == Emptied(c, free)
           seq  == [i \in Cells |-> IF i \in hit THEN c.seq[i] \ {s} ELSE e.seq[i]]
           out  == [p \in Positions |->
                      e.seq_pos[s][p] - Cardinality({i \in hit : c.pos[i] = p})]
           T    == [e.seq_pos EXCEPT ![s] = out]
           d    == SeqRmCells(c, s, p0, p1)
<1>1. c \in CellsType /\ Exact(c) /\ c.seq_pos \in [Seqs -> [Positions -> Int]]
  BY DEF Good, CellsType
<1>2. /\ e \in CellsType
      /\ \A i \in Cells :
           /\ e.pos[i] = IF i \in free THEN -1 ELSE c.pos[i]
           /\ e.shift[i] = IF i \in free THEN 0 ELSE c.shift[i]
           /\ e.seq[i] = IF i \in free THEN {} ELSE c.seq[i]
      /\ e.seq_pos = c.seq_pos
      /\ e.used = c.used \ free
      /\ e.has_shift = c.has_shift
  BY <1>1, EmptiedFields
<1>3. d = [e EXCEPT !.seq = seq, !.seq_pos = T]
  BY <1>2 DEF SeqRmCells, CellsType
<1>4. /\ hit \in SUBSET Cells
      /\ \A i \in hit : s \in c.seq[i]
      /\ \A i \in hit : i \in free <=> c.seq[i] = {s}
      /\ free \subseteq hit
  BY DEF SeqHits, Freed
<1>5. c.seq \in [Cells -> SUBSET Seqs] /\ e.seq \in [Cells -> SUBSET Seqs]
  BY <1>1, <1>2 DEF CellsType
<1>6. seq \in [Cells -> SUBSET Seqs]
  BY <1>5
<1>7. \A p \in Positions :
        /\ {i \in hit : c.pos[i] = p} = Holding(c, hit, s, p)
        /\ Counts(c, hit)[s][p] = Cardinality({i \in hit : c.pos[i] = p})
        /\ Cardinality({i \in hit : c.pos[i] = p}) \in Nat
  <2>1. \A p \in Positions : {i \in hit : c.pos[i] = p} = Holding(c, hit, s, p)
    BY <1>4 DEF Holding
  <2> HIDE DEF hit
  <2>2. \A p \in Positions :
          /\ IsFiniteSet(Holding(c, hit, s, p))
          /\ Counts(c, hit)[s][p] = Cardinality(Holding(c, hit, s, p))
    BY <1>4, CountsType
  <2> QED BY <2>1, <2>2, FS_CardinalityType
<1> HIDE DEF hit, free, e, d
<1>8. out \in [Positions -> Int]
  BY <1>1, <1>2, <1>7
<1>9. T \in [Seqs -> [Positions -> Int]]
  BY <1>1, <1>2, <1>8
<1>10. /\ \A p \in Positions :
            T[s][p] = c.seq_pos[s][p] - Counts(c, hit)[s][p]
       /\ \A t \in Seqs \ {s} : T[t] = c.seq_pos[t]
  BY <1>1, <1>2, <1>7
<1>11. \A i \in Cells : seq[i] = IF i \in hit THEN c.seq[i] \ {s} ELSE c.seq[i]
  BY <1>2, <1>4
<1> HIDE DEF out, T, seq
<1>12. /\ d \in CellsType
       /\ d.pos = e.pos /\ d.shift = e.shift /\ d.has_shift = e.has_shift
       /\ d.used = e.used /\ d.seq = seq /\ d.seq_pos = T
  BY <1>2, <1>3, <1>6, <1>9 DEF CellsType
<1>13. \A i \in Cells : d.seq[i] = IF i \in hit THEN c.seq[i] \ {s} ELSE c.seq[i]
  BY <1>11, <1>12
<1>14. T = Plus(Minus(c.seq_pos, Counts(c, hit)), Counts(d, hit))
  <2>1. ASSUME NEW p \in Positions PROVE Counts(d, hit)[s][p] = 0
    <3>1. Holding(d, hit, s, p) = {}
      BY <1>4, <1>13 DEF Holding
    <3> QED BY <1>4, <3>1, CountsType, FS_EmptySet
  <2>2. ASSUME NEW t \in Seqs \ {s}, NEW p \in Positions
        PROVE  Counts(d, hit)[t][p] = Counts(c, hit)[t][p]
    <3>1. \A i \in hit : t \in c.seq[i] => i \notin free /\ d.pos[i] = c.pos[i]
      BY <1>2, <1>4, <1>12
    <3>2. \A i \in hit : t \in d.seq[i] <=> t \in c.seq[i]
      BY <1>4, <1>13
    <3>3. Holding(d, hit, t, p) = Holding(c, hit, t, p)
      BY <3>1, <3>2 DEF Holding
    <3> QED BY <1>4, <3>3, CountsType
  <2>3. /\ Counts(c, hit) \in [Seqs -> [Positions -> Nat]]
        /\ Counts(d, hit) \in [Seqs -> [Positions -> Nat]]
    BY <1>4, CountsType
  <2>4. ASSUME NEW t \in Seqs, NEW p \in Positions
        PROVE  T[t][p] = (c.seq_pos[t][p] - Counts(c, hit)[t][p])
                           + Counts(d, hit)[t][p]
    <3>1. /\ c.seq_pos[t][p] \in Int
          /\ Counts(c, hit)[t][p] \in Nat /\ Counts(d, hit)[t][p] \in Nat
      BY <1>1, <2>3
    <3>2. CASE t = s
      BY <1>10, <2>1, <3>1, <3>2
    <3>3. CASE t # s
      BY <1>10, <2>2, <3>1, <3>3
    <3> QED BY <3>2, <3>3
  <2>5. \A t \in Seqs, p \in Positions :
          T[t][p] = Plus(Minus(c.seq_pos, Counts(c, hit)), Counts(d, hit))[t][p]
    BY <2>4 DEF Plus, Minus
  <2>6. Plus(Minus(c.seq_pos, Counts(c, hit)), Counts(d, hit))
          \in [Seqs -> [Positions -> Int]]
    BY <1>1, <1>4, RecountType
  <2> DEFINE U == Plus(Minus(c.seq_pos, Counts(c, hit)), Counts(d, hit))
  <2> HIDE DEF U
  <2>7. T = U
    <3>1. \A t \in Seqs, p \in Positions : T[t][p] = U[t][p]
      BY <2>5 DEF U
    <3>2. U \in [Seqs -> [Positions -> Int]]
      BY <2>6 DEF U
    <3>3. ASSUME NEW t \in Seqs PROVE T[t] = U[t]
      BY <1>9, <3>1, <3>2
    <3> QED BY <1>9, <3>2, <3>3
  <2> QED BY <2>7 DEF U
<1>15. \A i \in hit : /\ ~IsEmpty(c, i)
                      /\ IsEmpty(d, i) <=> i \in free
                      /\ d.seq[i] = {} <=> i \in free
                      /\ i \in free => d.shift[i] = 0
                      /\ i \notin free => d.shift[i] = c.shift[i]
  <2>1. ASSUME NEW i \in hit
        PROVE  /\ i \in Cells /\ ~IsEmpty(c, i)
               /\ d.seq[i] = {} <=> i \in free
    <3>1. i \in Cells /\ s \in c.seq[i]
      BY <1>4
    <3>2. ~IsEmpty(c, i)
      BY <1>1, <3>1 DEF Exact
    <3>3. c.seq[i] \ {s} = {} <=> c.seq[i] = {s}
      BY <3>1
    <3>4. d.seq[i] = c.seq[i] \ {s} /\ (i \in free <=> c.seq[i] = {s})
      BY <1>4, <1>13, <3>1
    <3> QED BY <3>1, <3>2, <3>3, <3>4
  <2>2. ASSUME NEW i \in hit
        PROVE  /\ IsEmpty(d, i) <=> i \in free
               /\ i \in free => d.shift[i] = 0
               /\ i \notin free => d.shift[i] = c.shift[i]
    BY <1>2, <1>12, <2>1 DEF IsEmpty
  <2> QED BY <2>1, <2>2
<1>16. d.used = (c.used \ hit) \cup {i \in hit : ~IsEmpty(d, i)}
  <2>1. hit \subseteq c.used
    BY <1>1, <1>4, <1>15 DEF Exact
  <2> QED BY <1>2, <1>4, <1>12, <1>15, <2>1
<1>17. \A i \in Cells \ hit : /\ d.pos[i] = c.pos[i] /\ d.shift[i] = c.shift[i]
                              /\ d.seq[i] = c.seq[i]
  BY <1>2, <1>4, <1>12, <1>13
<1>18. ~d.has_shift => ~c.has_shift /\ \A i \in hit : d.shift[i] = 0
  BY <1>1, <1>2, <1>4, <1>12, <1>15 DEF Exact
<1>19. /\ \A i \in hit : IsEmpty(d, i) <=> d.seq[i] = {}
       /\ \A i \in hit : IsEmpty(d, i) => d.shift[i] = 0
  BY <1>15
<1>20. d.seq_pos = Plus(Minus(c.seq_pos, Counts(c, hit)), Counts(d, hit))
  BY <1>12, <1>14
<1>21. Good(d)
  BY <1>4, <1>12, <1>16, <1>17, <1>18, <1>19, <1>20, ChangeGood
<1> QED BY <1>21 DEF d

\* seq_add() on the cells of a range, as seq_cp of the cache does within a stream:
\* the summaries stay exact when none of the cells has the sequence already, which
\* seq_add asserts.
THEOREM SeqCpGood ==
  ASSUME NEW c, Good(c), NEW s \in Seqs, NEW t \in Seqs,
         NEW p0 \in Int, NEW p1 \in Int,
         \A i \in SeqHits(c, s, p0, p1) : t \notin c.seq[i]
  PROVE  Good(SeqCpCells(c, s, t, p0, p1))
<1> DEFINE hit == SeqHits(c, s, p0, p1)
           seq == [i \in Cells |-> IF i \in hit THEN c.seq[i] \cup {t} ELSE c.seq[i]]
           out == [p \in Positions |->
                     c.seq_pos[t][p] + Cardinality({i \in hit : c.pos[i] = p})]
           T   == [c.seq_pos EXCEPT ![t] = out]
           d   == SeqCpCells(c, s, t, p0, p1)
<1>1. /\ c \in CellsType /\ Exact(c) /\ c.seq_pos \in [Seqs -> [Positions -> Int]]
      /\ c.seq \in [Cells -> SUBSET Seqs]
  BY DEF Good, CellsType
<1>2. d = [c EXCEPT !.seq = seq, !.seq_pos = T]
  BY <1>1 DEF SeqCpCells, CellsType
<1>3. hit \in SUBSET Cells /\ \A i \in hit : s \in c.seq[i] /\ t \notin c.seq[i]
  BY DEF SeqHits
<1>4. seq \in [Cells -> SUBSET Seqs]
  BY <1>1
<1>5. \A i \in Cells : seq[i] = IF i \in hit THEN c.seq[i] \cup {t} ELSE c.seq[i]
  OBVIOUS
<1> HIDE DEF hit
<1> DEFINE K(p) == Cardinality({i \in hit : c.pos[i] = p})
<1>6. \A p \in Positions : K(p) \in Nat
  <2>1. \A p \in Positions : {i \in hit : c.pos[i] = p} \in SUBSET hit
    OBVIOUS
  <2>2. IsFiniteSet(hit)
    BY <1>3, CountsType
  <2> QED BY <2>1, <2>2, FS_Subset, FS_CardinalityType
<1>7. out \in [Positions -> Int]
  BY <1>1, <1>6
<1>8. T \in [Seqs -> [Positions -> Int]]
  BY <1>1, <1>7
<1>9. /\ \A p \in Positions :
           T[t][p] = c.seq_pos[t][p] + K(p)
      /\ \A r \in Seqs \ {t} : T[r] = c.seq_pos[r]
  BY <1>1
<1> HIDE DEF out, T, seq, d, K
<1>10. /\ d \in CellsType
       /\ d.pos = c.pos /\ d.shift = c.shift /\ d.has_shift = c.has_shift
       /\ d.used = c.used /\ d.seq = seq /\ d.seq_pos = T
  BY <1>1, <1>2, <1>4, <1>8 DEF CellsType
<1>11. T = Plus(Minus(c.seq_pos, Counts(c, hit)), Counts(d, hit))
  <2> DEFINE U == Plus(Minus(c.seq_pos, Counts(c, hit)), Counts(d, hit))
  <2>1. ASSUME NEW p \in Positions
        PROVE  /\ Counts(c, hit)[t][p] = 0
               /\ Counts(d, hit)[t][p] = K(p)
    <3>1. Holding(c, hit, t, p) = {}
      BY <1>3 DEF Holding
    <3>2. \A i \in hit : t \in d.seq[i] /\ d.pos[i] = c.pos[i]
      BY <1>3, <1>5, <1>10
    <3>3. Holding(d, hit, t, p) = {i \in hit : c.pos[i] = p}
      BY <3>2 DEF Holding
    <3>4. /\ Counts(c, hit)[t][p] = Cardinality(Holding(c, hit, t, p))
          /\ Counts(d, hit)[t][p] = Cardinality(Holding(d, hit, t, p))
      BY <1>3, CountsType
    <3>5. Cardinality(Holding(c, hit, t, p)) = 0
      BY <3>1, FS_EmptySet
    <3>6. Cardinality(Holding(d, hit, t, p)) = K(p)
      BY <3>3 DEF K
    <3> QED BY <3>4, <3>5, <3>6
  <2>2. ASSUME NEW r \in Seqs \ {t}, NEW p \in Positions
        PROVE  Counts(d, hit)[r][p] = Counts(c, hit)[r][p]
    <3>1. \A i \in hit : /\ d.pos[i] = c.pos[i]
                         /\ r \in d.seq[i] <=> r \in c.seq[i]
      BY <1>3, <1>5, <1>10
    <3>2. Holding(d, hit, r, p) = Holding(c, hit, r, p)
      BY <3>1 DEF Holding
    <3> QED BY <1>3, <3>2, CountsType
  <2>3. /\ Counts(c, hit) \in [Seqs -> [Positions -> Nat]]
        /\ Counts(d, hit) \in [Seqs -> [Positions -> Nat]]
    BY <1>3, CountsType
  <2>4. ASSUME NEW r \in Seqs, NEW p \in Positions
        PROVE  T[r][p] = (c.seq_pos[r][p] - Counts(c, hit)[r][p])
                           + Counts(d, hit)[r][p]
    <3>1. /\ c.seq_pos[r][p] \in Int
          /\ Counts(c, hit)[r][p] \in Nat /\ Counts(d, hit)[r][p] \in Nat
      BY <1>1, <2>3
    <3>2. CASE r = t
      BY <1>6, <1>9, <2>1, <3>1, <3>2
    <3>3. CASE r # t
      BY <1>9, <2>2, <3>1, <3>3
    <3> QED BY <3>2, <3>3
  <2>5. \A r \in Seqs, p \in Positions : T[r][p] = U[r][p]
    BY <2>4 DEF Plus, Minus
  <2>6. U \in [Seqs -> [Positions -> Int]]
    BY <1>1, <1>3, RecountType
  <2> HIDE DEF U
  <2>7. ASSUME NEW r \in Seqs PROVE T[r] = U[r]
    BY <1>8, <2>5, <2>6
  <2>8. T = U
    BY <1>8, <2>6, <2>7
  <2> QED BY <2>8 DEF U
<1>12. \A i \in hit : ~IsEmpty(c, i) /\ ~IsEmpty(d, i) /\ d.seq[i] # {}
  BY <1>1, <1>3, <1>5, <1>10 DEF Exact, IsEmpty
<1>13. d.used = (c.used \ hit) \cup {i \in hit : ~IsEmpty(d, i)}
  BY <1>1, <1>3, <1>10, <1>12 DEF Exact
<1>14. \A i \in Cells \ hit : /\ d.pos[i] = c.pos[i] /\ d.shift[i] = c.shift[i]
                              /\ d.seq[i] = c.seq[i]
  BY <1>5, <1>10
<1>15. ~d.has_shift => ~c.has_shift /\ \A i \in hit : d.shift[i] = 0
  BY <1>1, <1>3, <1>10 DEF Exact
<1>16. /\ \A i \in hit : IsEmpty(d, i) <=> d.seq[i] = {}
       /\ \A i \in hit : IsEmpty(d, i) => d.shift[i] = 0
  BY <1>12
<1>17. d.seq_pos = Plus(Minus(c.seq_pos, Counts(c, hit)), Counts(d, hit))
  BY <1>10, <1>11
<1>18. Good(d)
  BY <1>3, <1>10, <1>13, <1>14, <1>15, <1>16, <1>17, ChangeGood
<1> QED BY <1>18 DEF d

\* set(), with which prepare puts back what some cells held in an earlier state:
\* the summaries stay exact when the cells it empties have no pending shift,
\* since set() does not touch the shift.
THEOREM SetGood ==
  ASSUME NEW c, Good(c), NEW old, Good(old), NEW I \in SUBSET Cells,
         \A i \in I : old.pos[i] = -1 => c.shift[i] = 0
  PROVE  Good(SetCells(c, I, old))
<1> DEFINE pos == [i \in Cells |-> IF i \in I THEN old.pos[i] ELSE c.pos[i]]
           seq == [i \in Cells |-> IF i \in I THEN old.seq[i] ELSE c.seq[i]]
           use == (c.used \ I) \cup {i \in I : old.pos[i] # -1}
           x   == [c EXCEPT !.pos = pos, !.seq = seq, !.used = use]
           T   == Plus(Minus(x.seq_pos, Counts(c, I)), Counts(x, I))
           d   == SetCells(c, I, old)
<1>1. /\ c \in CellsType /\ Exact(c) /\ old \in CellsType /\ Exact(old)
      /\ c.pos \in [Cells -> Positions \cup {-1}]
      /\ old.pos \in [Cells -> Positions \cup {-1}]
      /\ c.seq \in [Cells -> SUBSET Seqs] /\ old.seq \in [Cells -> SUBSET Seqs]
      /\ c.used \in SUBSET Cells
  BY DEF Good, CellsType
<1>2. d = [x EXCEPT !.seq_pos = T]
  BY <1>1 DEF SetCells, CellsType
<1>3. /\ pos \in [Cells -> Positions \cup {-1}] /\ seq \in [Cells -> SUBSET Seqs]
      /\ use \in SUBSET Cells
  BY <1>1
<1>4. /\ \A i \in I : pos[i] = old.pos[i] /\ seq[i] = old.seq[i]
      /\ \A i \in Cells \ I : pos[i] = c.pos[i] /\ seq[i] = c.seq[i]
  OBVIOUS
<1> HIDE DEF pos, seq
<1>5. use = (c.used \ I) \cup {i \in I : pos[i] # -1}
  BY <1>4
<1> HIDE DEF use
<1>6. /\ x \in CellsType
      /\ x.pos = pos /\ x.seq = seq /\ x.used = use
      /\ x.shift = c.shift /\ x.seq_pos = c.seq_pos /\ x.has_shift = c.has_shift
  BY <1>1, <1>3 DEF CellsType
<1>7. T \in [Seqs -> [Positions -> Int]]
  BY <1>6, RecountType
<1> HIDE DEF x, d
<1>8. T = Plus(Minus(c.seq_pos, Counts(c, I)), Counts(x, I))
  BY <1>6
<1> HIDE DEF T
<1>9. /\ d \in CellsType
      /\ d.pos = pos /\ d.seq = seq /\ d.used = use /\ d.seq_pos = T
      /\ d.shift = c.shift /\ d.has_shift = c.has_shift
  BY <1>2, <1>6, <1>7 DEF CellsType
<1>10. Counts(x, I) = Counts(d, I)
  BY <1>6, <1>9, CountsSame
<1>11. \A i \in I : /\ IsEmpty(d, i) <=> d.seq[i] = {}
                    /\ IsEmpty(d, i) => d.shift[i] = 0
  BY <1>1, <1>4, <1>9 DEF Exact, IsEmpty
<1>12. d.used = (c.used \ I) \cup {i \in I : ~IsEmpty(d, i)}
  BY <1>5, <1>9 DEF IsEmpty
<1>13. \A i \in Cells \ I : /\ d.pos[i] = c.pos[i] /\ d.shift[i] = c.shift[i]
                            /\ d.seq[i] = c.seq[i]
  BY <1>4, <1>9
<1>14. ~d.has_shift => ~c.has_shift /\ \A i \in I : d.shift[i] = 0
  BY <1>1, <1>9 DEF Exact
<1>15. d.seq_pos = Plus(Minus(c.seq_pos, Counts(c, I)), Counts(d, I))
  BY <1>8, <1>9, <1>10
<1>16. Good(d)
  BY <1>9, <1>11, <1>12, <1>13, <1>14, <1>15, ChangeGood
<1> QED BY <1>16 DEF d

-----
(* What each operation leaves in the cells. *)

\* What seq_rm leaves in the cells.
LEMMA SeqRmFields ==
  ASSUME NEW c \in CellsType, NEW s \in Seqs, NEW p0, NEW p1, NEW i \in Cells
  PROVE  LET d   == SeqRmCells(c, s, p0, p1)
             hit == SeqHits(c, s, p0, p1)
         IN  /\ d.pos[i] = IF i \in Freed(c, hit, s) THEN -1 ELSE c.pos[i]
             /\ d.shift[i] = IF i \in Freed(c, hit, s) THEN 0 ELSE c.shift[i]
             /\ d.seq[i] = IF i \in hit THEN c.seq[i] \ {s} ELSE c.seq[i]
             /\ d.has_shift = c.has_shift
<1> DEFINE d == SeqRmCells(c, s, p0, p1)
           hit == SeqHits(c, s, p0, p1)
           e == Emptied(c, Freed(c, hit, s))
           new == [j \in Cells |-> IF j \in hit THEN c.seq[j] \ {s} ELSE e.seq[j]]
           out == [p \in Positions |-> e.seq_pos[s][p] - Cardinality({j \in hit : c.pos[j] = p})]
<1>1. e \in CellsType
  BY EmptiedFields
<1>2. d = [e EXCEPT !.seq = new, !.seq_pos[s] = out]
  <2>1. d = [e EXCEPT !.seq = [j \in Cells |-> IF j \in hit THEN c.seq[j] \ {s} ELSE @[j]],
                      !.seq_pos[s] = [p \in Positions |->
                           @[p] - Cardinality({j \in hit : c.pos[j] = p})]]
    BY DEF SeqRmCells
  <2> HIDE DEF e, d
  <2> QED BY <2>1, <1>1 DEF CellsType
<1> HIDE DEF e, d, new, out
<1>3. d.pos = e.pos /\ d.shift = e.shift /\ d.seq = new /\ d.has_shift = e.has_shift
  BY <1>1, <1>2 DEF CellsType
<1>4. /\ e.pos[i] = IF i \in Freed(c, hit, s) THEN -1 ELSE c.pos[i]
      /\ e.shift[i] = IF i \in Freed(c, hit, s) THEN 0 ELSE c.shift[i]
      /\ e.seq[i] = IF i \in Freed(c, hit, s) THEN {} ELSE c.seq[i]
      /\ e.has_shift = c.has_shift
  BY EmptiedFields DEF e
<1>5. Freed(c, hit, s) \subseteq hit
  BY DEF Freed
<1>6. new[i] = IF i \in hit THEN c.seq[i] \ {s} ELSE c.seq[i]
  BY <1>4, <1>5 DEF new
<1> QED BY <1>3, <1>4, <1>6 DEF d

\* What seq_cp within a stream leaves in the cells.
LEMMA SeqCpFields ==
  ASSUME NEW c \in CellsType, NEW s \in Seqs, NEW t \in Seqs, NEW p0, NEW p1, NEW i \in Cells
  PROVE  LET d   == SeqCpCells(c, s, t, p0, p1)
             hit == SeqHits(c, s, p0, p1)
         IN  /\ d.pos[i] = c.pos[i] /\ d.shift[i] = c.shift[i]
             /\ d.seq[i] = IF i \in hit THEN c.seq[i] \cup {t} ELSE c.seq[i]
             /\ d.has_shift = c.has_shift
BY DEF SeqCpCells, CellsType

\* What seq_keep leaves in the cells.
LEMMA SeqKeepFields ==
  ASSUME NEW c \in CellsType, NEW s \in Seqs, NEW i \in Cells
  PROVE  LET d == SeqKeepCells(c, s)
         IN  /\ d.pos[i] = IF i \in KeptOut(c, s) THEN -1 ELSE c.pos[i]
             /\ d.shift[i] = IF i \in KeptOut(c, s) THEN 0 ELSE c.shift[i]
             /\ d.seq[i] = IF s \in c.seq[i] THEN {s}
                           ELSE IF i \in KeptOut(c, s) THEN {} ELSE c.seq[i]
             /\ d.has_shift = c.has_shift
<1> DEFINE b == RmCells(c, KeptOut(c, s))
           kept == {j \in Cells : s \in c.seq[j]}
           new == [j \in Cells |-> IF j \in kept THEN {s} ELSE b.seq[j]]
           c1 == [b EXCEPT !.seq = new]
           d == SeqKeepCells(c, s)
           T == Plus(Minus(b.seq_pos, Counts(c, kept)), Counts(c1, kept))
<1>1. KeptOut(c, s) \in SUBSET Cells
  BY DEF KeptOut
<1>2. /\ b \in CellsType
      /\ b.pos[i] = IF i \in KeptOut(c, s) THEN -1 ELSE c.pos[i]
      /\ b.shift[i] = IF i \in KeptOut(c, s) THEN 0 ELSE c.shift[i]
      /\ b.seq[i] = IF i \in KeptOut(c, s) THEN {} ELSE c.seq[i]
      /\ b.has_shift = c.has_shift
  BY <1>1, RmFields
<1> HIDE DEF b
<1>3. d = [c1 EXCEPT !.seq_pos = T]
  BY <1>2 DEF SeqKeepCells, b, CellsType
<1> HIDE DEF T, d
<1>4. d.pos = b.pos /\ d.shift = b.shift /\ d.seq = new /\ d.has_shift = b.has_shift
  BY <1>2, <1>3 DEF CellsType
<1>5. new[i] = IF s \in c.seq[i] THEN {s} ELSE b.seq[i]
  OBVIOUS
<1> QED BY <1>2, <1>4, <1>5 DEF d

\* What pos_set and seq_add leave in the cells.
LEMMA PlaceFields ==
  ASSUME NEW c \in CellsType, NEW I \in SUBSET Cells, NEW at, NEW i \in Cells
  PROVE  LET d == PlaceCells(c, I, at)
         IN  /\ d.pos[i] = IF i \in I THEN at[i].pos ELSE c.pos[i]
             /\ d.seq[i] = IF i \in I THEN at[i].seqs ELSE c.seq[i]
             /\ d.shift[i] = c.shift[i] /\ d.has_shift = c.has_shift
BY DEF PlaceCells, CellsType

\* What set leaves in the cells.
LEMMA SetFields ==
  ASSUME NEW c \in CellsType, NEW I \in SUBSET Cells, NEW old, NEW i \in Cells
  PROVE  LET d == SetCells(c, I, old)
         IN  /\ d.pos[i] = IF i \in I THEN old.pos[i] ELSE c.pos[i]
             /\ d.seq[i] = IF i \in I THEN old.seq[i] ELSE c.seq[i]
             /\ d.shift[i] = c.shift[i] /\ d.has_shift = c.has_shift
BY DEF SetCells, CellsType

\* What pos_add leaves in the cells.
LEMMA PosAddFields ==
  ASSUME NEW c \in CellsType, NEW I \in SUBSET Cells, NEW n \in Int, NEW i \in Cells
  PROVE  LET d == PosAddCells(c, I, n)
             out == i \in I /\ c.pos[i] + n < 0
         IN  /\ d.pos[i] = IF out THEN -1 ELSE IF i \in I THEN c.pos[i] + n ELSE c.pos[i]
             /\ d.shift[i] = IF out THEN 0 ELSE IF i \in I THEN c.shift[i] + n ELSE c.shift[i]
             /\ d.seq[i] = IF out THEN {} ELSE c.seq[i]
             /\ d.has_shift = (c.has_shift \/ I # {})
BY DEF PosAddCells, Emptied, CellsType

\* What pos_div leaves in the cells.
LEMMA PosDivFields ==
  ASSUME NEW c \in CellsType, NEW I \in SUBSET Cells, NEW n \in Nat \ {0}, NEW i \in Cells
  PROVE  LET d == PosDivCells(c, I, n)
         IN  /\ d.pos[i] = IF i \in I THEN c.pos[i] \div n ELSE c.pos[i]
             /\ d.seq[i] = c.seq[i]
             /\ d.has_shift = (c.has_shift \/ I # {})
BY DEF PosDivCells, CellsType

-----
(* Purging. *)

\* GoodCells is a name for what Good says.
LEMMA GoodIs == \A c : c \in GoodCells <=> Good(c)
BY DEF GoodCells, Good

\* A cell with a sequence has a position.
LEMMA CellHas ==
  ASSUME NEW c, Good(c), NEW i \in Cells, NEW s \in c.seq[i]
  PROVE  s \in Seqs /\ c.pos[i] \in Positions /\ c.pos[i] \in Nat /\ ~IsEmpty(c, i)
<1>1. c \in CellsType /\ Exact(c)
  BY DEF Good
<1>2. c.seq[i] \in SUBSET Seqs /\ c.pos[i] \in Positions \cup {-1}
  BY <1>1 DEF CellsType
<1>3. ~IsEmpty(c, i)
  BY <1>1 DEF Exact
<1> QED BY <1>2, <1>3, CellsAssumption DEF IsEmpty, Positions

\* What purging leaves in the cells.
LEMMA PurgedFields ==
  ASSUME NEW c \in CellsType, NEW upto
  PROVE  LET d == Purged(c, upto)
             out == PurgedOut(c, upto)
             c1 == [c EXCEPT !.seq = Gone(c, upto)]
         IN  /\ d \in CellsType
             /\ \A i \in Cells :
                  /\ d.pos[i] = IF i \in out THEN -1 ELSE c.pos[i]
                  /\ d.shift[i] = IF i \in out THEN 0 ELSE c.shift[i]
                  /\ d.seq[i] = c.seq[i] \ Gone(c, upto)[i]
             /\ d.has_shift = c.has_shift
             /\ d.used = c.used \ out
             /\ c1.seq = Gone(c, upto) /\ c1.pos = c.pos
             /\ d.seq_pos = Minus(c.seq_pos, Counts(c1, Cells))
<1> DEFINE d == Purged(c, upto)
           out == PurgedOut(c, upto)
           gone == Gone(c, upto)
           c1 == [c EXCEPT !.seq = gone]
           e == Emptied(c, out)
           new == [i \in Cells |-> c.seq[i] \ gone[i]]
           T == Minus(e.seq_pos, Counts(c1, Cells))
<1>1. /\ e \in CellsType
      /\ \A i \in Cells :
           /\ e.pos[i] = IF i \in out THEN -1 ELSE c.pos[i]
           /\ e.shift[i] = IF i \in out THEN 0 ELSE c.shift[i]
      /\ e.seq_pos = c.seq_pos /\ e.used = c.used \ out /\ e.has_shift = c.has_shift
  BY EmptiedFields
<1>2. new \in [Cells -> SUBSET Seqs]
  BY DEF CellsType
<1>3. T \in [Seqs -> [Positions -> Int]]
  BY <1>1, CountsType, TableType DEF CellsType
<1>4. d = [[e EXCEPT !.seq = new] EXCEPT !.seq_pos = T]
  <2>1. [e EXCEPT !.seq = new].seq_pos = e.seq_pos
    BY <1>1 DEF CellsType
  <2>2. d = [[e EXCEPT !.seq = new] EXCEPT !.seq_pos = Minus(@, Counts(c1, Cells))]
    BY DEF Purged, PurgedOut, Gone
  <2> HIDE DEF e, c1, new, d
  <2> QED BY <2>1, <2>2, <1>1 DEF CellsType
<1>5. c1.seq = gone /\ c1.pos = c.pos
  BY DEF CellsType
<1> HIDE DEF e, d, new, T, out, gone, c1
<1>6. /\ d \in CellsType /\ d.pos = e.pos /\ d.shift = e.shift /\ d.seq = new
      /\ d.used = e.used /\ d.has_shift = e.has_shift /\ d.seq_pos = T
  BY <1>1, <1>2, <1>3, <1>4 DEF CellsType
<1>7. \A i \in Cells : new[i] = c.seq[i] \ gone[i]
  BY DEF new
<1>8. T = Minus(c.seq_pos, Counts(c1, Cells))
  BY <1>1 DEF T
<1> QED BY <1>1, <1>5, <1>6, <1>7, <1>8 DEF d, out, gone, c1

\* apply_ubatch's purge takes out of seq_pos what it takes out of the cells.
LEMMA PurgedGood ==
  ASSUME NEW c, Good(c), NEW upto
  PROVE  Good(Purged(c, upto))
<1> DEFINE d == Purged(c, upto)
           out == PurgedOut(c, upto)
           gone == Gone(c, upto)
           c1 == [c EXCEPT !.seq = gone]
<1>1. c \in CellsType /\ Exact(c)
  BY DEF Good
<1>2. /\ d \in CellsType
      /\ \A i \in Cells :
           /\ d.pos[i] = IF i \in out THEN -1 ELSE c.pos[i]
           /\ d.shift[i] = IF i \in out THEN 0 ELSE c.shift[i]
           /\ d.seq[i] = c.seq[i] \ gone[i]
      /\ d.has_shift = c.has_shift
      /\ d.used = c.used \ out
      /\ c1.seq = gone /\ c1.pos = c.pos
      /\ d.seq_pos = Minus(c.seq_pos, Counts(c1, Cells))
  BY <1>1, PurgedFields
<1>3. \A i \in Cells : /\ gone[i] \subseteq c.seq[i]
                       /\ i \in out <=> gone[i] # {} /\ gone[i] = c.seq[i]
  BY DEF Gone, PurgedOut
<1> HIDE DEF d, out, gone, c1
<1>4. ASSUME NEW s \in Seqs, NEW p \in Positions
      PROVE  d.seq_pos[s][p] = Cardinality(Holding(d, Cells, s, p))
  <2> DEFINE A == Holding(c1, Cells, s, p)
             B == Holding(d, Cells, s, p)
  <2>1. IsFiniteSet(A) /\ IsFiniteSet(B)
    BY CountsType
  <2>2. Holding(c, Cells, s, p) = A \cup B /\ A \cap B = {}
    <3>1. A \subseteq Holding(c, Cells, s, p)
      BY <1>2, <1>3 DEF Holding
    <3>2. B \subseteq Holding(c, Cells, s, p)
      <4>1. \A i \in B : i \notin out
        BY <1>2, <1>3 DEF Holding
      <4> QED BY <4>1, <1>2 DEF Holding
    <3>3. Holding(c, Cells, s, p) \subseteq A \cup B
      <4> SUFFICES ASSUME NEW i \in Holding(c, Cells, s, p), i \notin A PROVE i \in B
        OBVIOUS
      <4>1. i \in Cells /\ s \in c.seq[i] /\ c.pos[i] = p /\ s \notin gone[i]
        BY <1>2 DEF Holding
      <4>2. i \notin out
        BY <4>1, <1>3
      <4> QED BY <4>1, <4>2, <1>2 DEF Holding
    <3>4. A \cap B = {}
      BY <1>2 DEF Holding
    <3> QED BY <3>1, <3>2, <3>3, <3>4
  <2>3. Cardinality(A) \in Nat /\ Cardinality(B) \in Nat
    BY <2>1, FS_CardinalityType
  <2>4. Cardinality(A \cup B) = Cardinality(A) + Cardinality(B) - Cardinality(A \cap B)
    BY <2>1, FS_Union
  <2>5. Cardinality(A \cap B) = 0
    BY <2>2, FS_EmptySet
  <2>6. /\ Counts(c, Cells)[s][p] = Cardinality(Holding(c, Cells, s, p))
        /\ Counts(c1, Cells)[s][p] = Cardinality(A)
    BY CountsType
  <2>7. d.seq_pos[s][p] = Counts(c, Cells)[s][p] - Counts(c1, Cells)[s][p]
    BY <1>1, <1>2 DEF Exact, Minus
  <2> HIDE DEF A, B
  <2>8. d.seq_pos[s][p] = Cardinality(B)
    BY <2>2, <2>3, <2>4, <2>5, <2>6, <2>7
  <2> QED BY <2>8 DEF B
<1>5. d.seq_pos = Counts(d, Cells)
  <2>1. Counts(d, Cells) = [s \in Seqs |-> [p \in Positions |-> Cardinality(Holding(d, Cells, s, p))]]
    BY DEF Counts, Holding
  <2>2. d.seq_pos \in [Seqs -> [Positions -> Int]]
    BY <1>2 DEF CellsType
  <2> QED BY <2>1, <2>2, <1>4
<1>6. \A i \in Cells : IsEmpty(d, i) <=> d.seq[i] = {}
  BY <1>1, <1>2, <1>3 DEF Exact, IsEmpty
<1>7. d.used = {i \in Cells : ~IsEmpty(d, i)}
  BY <1>1, <1>2 DEF Exact, IsEmpty
<1>8. /\ \A i \in Cells : IsEmpty(d, i) => d.shift[i] = 0
      /\ ~d.has_shift => \A i \in Cells : d.shift[i] = 0
  BY <1>1, <1>2 DEF Exact, IsEmpty
<1> QED BY <1>2, <1>5, <1>6, <1>7, <1>8 DEF Good, Exact, d

-----
(* Finding cells. *)

\* Of a finite set of numbers with j members or more, there is a j-th smallest one.
LEMMA KthExists ==
  ASSUME NEW S, S \subseteq Nat, IsFiniteSet(S), NEW j \in 1 .. Cardinality(S)
  PROVE  \E k \in S : Cardinality({i \in S : i < k}) = j - 1
<1> DEFINE N == Cardinality(S)
           Below(k) == {i \in S : i < k}
           J == {n \in 0 .. N : n = 0 \/ \E k \in S : Cardinality(Below(k)) = n - 1}
<1>1. N \in Nat
  BY FS_CardinalityType
<1>2. 0 \in J
  BY <1>1
<1>3. ASSUME NEW n \in 1 .. N, n - 1 \in J PROVE n \in J
  <2>1. CASE n = 1
    <3>1. S # {}
      BY <2>1, <1>1, FS_EmptySet
    <3>2. PICK m \in S : \A k \in S : m <= k
      BY <3>1, LeastNat
    <3>3. \A k \in S : k \in Nat /\ m \in Nat /\ ~(k < m)
      BY <3>2
    <3>4. Below(m) = {}
      BY <3>3
    <3> HIDE DEF Below
    <3>5. Cardinality(Below(m)) = n - 1
      BY <3>4, <2>1, FS_EmptySet
    <3> QED BY <3>5, <1>1
  <2>2. CASE n # 1
    <3>1. PICK k \in S : Cardinality(Below(k)) = n - 2
      <4>1. n - 1 # 0 /\ n - 1 - 1 = n - 2
        BY <2>2
      <4> HIDE DEF Below
      <4> QED BY <1>3, <4>1
    <3> DEFINE up == {i \in S : k < i}
               upto == Below(k) \cup {k}
    <3>2. IsFiniteSet(Below(k)) /\ IsFiniteSet(upto) /\ k \notin Below(k)
      <4>1. Below(k) \in SUBSET S
        OBVIOUS
      <4>2. k \notin Below(k)
        OBVIOUS
      <4> HIDE DEF Below
      <4> QED BY <4>1, <4>2, FS_Subset, FS_AddElement
    <3>3. Cardinality(upto) = n - 1
      <4> HIDE DEF Below
      <4> QED BY <3>1, <3>2, FS_AddElement
    <3>4. up # {}
      <4>1. upto # S
        BY <3>3
      <4>2. upto \subseteq S
        OBVIOUS
      <4>3. \A i \in S : i < k \/ i = k \/ k < i
        OBVIOUS
      <4> QED BY <4>1, <4>2, <4>3
    <3>5. PICK m \in up : \A i \in up : m <= i
      <4>1. up \subseteq Nat
        OBVIOUS
      <4> HIDE DEF up
      <4> QED BY <3>4, <4>1, LeastNat
    <3>6. m \in S /\ Below(m) = upto
      <4>1. /\ m \in S /\ m \in Nat /\ k \in Nat /\ k < m
            /\ \A i \in S : i \in Nat /\ (k < i => m <= i)
        BY <3>5
      <4>2. \A i \in S : i < m <=> i < k \/ i = k
        BY <4>1
      <4>3. \A i : i \in Below(m) <=> i \in upto
        BY <4>2
      <4> QED BY <4>1, <4>3
    <3> HIDE DEF Below, upto
    <3> QED BY <3>3, <3>6
  <2> QED BY <2>1, <2>2
<1> HIDE DEF J
<1>4. \A n \in 0 .. N : n \in J
  BY <1>1, <1>2, <1>3, Induct
<1>5. j \in J /\ j # 0
  BY <1>1, <1>4
<1> QED BY <1>5 DEF J

\* Kth finds it, and another one for another j.
LEMMA KthIs ==
  ASSUME NEW S, S \subseteq Nat, IsFiniteSet(S), NEW j \in 1 .. Cardinality(S)
  PROVE  Kth(S, j) \in S /\ Cardinality({i \in S : i < Kth(S, j)}) = j - 1
BY KthExists DEF Kth

\* The first n of a set are members of it, all different.
LEMMA AscendingIs ==
  ASSUME NEW S, S \subseteq Nat, IsFiniteSet(S), NEW n \in 0 .. Cardinality(S)
  PROVE  /\ Ascending(S, n) \in Seq(S) /\ Len(Ascending(S, n)) = n
         /\ DOMAIN Ascending(S, n) = 1 .. n
         /\ \A j \in 1 .. n : Ascending(S, n)[j] = Kth(S, j) /\ Kth(S, j) \in S
         /\ \A j, k \in 1 .. n : Kth(S, j) = Kth(S, k) => j = k
<1>1. Cardinality(S) \in Nat /\ n \in Nat
  BY FS_CardinalityType
<1>2. \A j \in 1 .. n : /\ Kth(S, j) \in S
                        /\ Cardinality({i \in S : i < Kth(S, j)}) = j - 1
  <2> SUFFICES ASSUME NEW j \in 1 .. n
               PROVE  /\ Kth(S, j) \in S
                      /\ Cardinality({i \in S : i < Kth(S, j)}) = j - 1
    OBVIOUS
  <2>1. j \in 1 .. Cardinality(S)
    BY <1>1
  <2> QED BY <2>1, KthIs
<1>3. Ascending(S, n) \in [1 .. n -> S]
  BY <1>2 DEF Ascending
<1>4. \A j \in 1 .. n : Ascending(S, n)[j] = Kth(S, j)
  BY DEF Ascending
<1>5. ASSUME NEW j \in 1 .. n, NEW k \in 1 .. n, Kth(S, j) = Kth(S, k) PROVE j = k
  <2>1. j - 1 = k - 1
    BY <1>2, <1>5
  <2> QED BY <2>1
<1> QED BY <1>1, <1>2, <1>3, <1>4, <1>5

\* What is below one of the first n is one of them, too.
LEMMA AscendingBelow ==
  ASSUME NEW S, S \subseteq Nat, IsFiniteSet(S), NEW n \in 0 .. Cardinality(S),
         NEW k \in 1 .. n, NEW p \in S, p < Kth(S, k)
  PROVE  \E j \in 1 .. n : Kth(S, j) = p
<1> DEFINE Below(m) == {i \in S : i < m}
           r == Cardinality(Below(p))
<1>1. Cardinality(S) \in Nat /\ n \in Nat /\ k \in 1 .. Cardinality(S)
  BY FS_CardinalityType
<1>2. Kth(S, k) \in S /\ Cardinality(Below(Kth(S, k))) = k - 1
  BY <1>1, KthIs
<1>3. ASSUME NEW x \in S, NEW y \in S, x < y
      PROVE  Cardinality(Below(x)) < Cardinality(Below(y)) /\ Cardinality(Below(x)) \in Nat
  <2>1. x \in Nat /\ y \in Nat /\ \A i \in S : i \in Nat
    OBVIOUS
  <2>2. Below(x) \in SUBSET Below(y) /\ x \in Below(y) /\ x \notin Below(x)
    <3>1. \A i \in S : i < x => i < y
      BY <1>3, <2>1
    <3>2. x \in Below(y) /\ x \notin Below(x)
      BY <1>3, <2>1
    <3>3. Below(x) \subseteq Below(y)
      BY <3>1
    <3> HIDE DEF Below
    <3> QED BY <3>2, <3>3
  <2>3. Below(y) \in SUBSET S
    OBVIOUS
  <2> HIDE DEF Below
  <2>4. IsFiniteSet(Below(y))
    BY <2>3, FS_Subset
  <2>5. /\ IsFiniteSet(Below(x)) /\ Cardinality(Below(x)) <= Cardinality(Below(y))
        /\ Cardinality(Below(y)) # Cardinality(Below(x))
    BY <2>2, <2>4, FS_Subset
  <2> QED BY <2>4, <2>5, FS_CardinalityType
<1> HIDE DEF Below
<1>4. r < k - 1 /\ r \in Nat
  BY <1>2, <1>3
<1>5. r + 1 \in 1 .. n /\ r + 1 \in 1 .. Cardinality(S) /\ (r + 1) - 1 = r
  BY <1>1, <1>4
<1>6. Kth(S, r + 1) \in S /\ Cardinality(Below(Kth(S, r + 1))) = r
  <2> DEFINE j == r + 1
  <2>1. j \in 1 .. Cardinality(S) /\ j - 1 = r
    BY <1>5
  <2> HIDE DEF j
  <2>2. Kth(S, j) \in S /\ Cardinality({i \in S : i < Kth(S, j)}) = j - 1
    BY <2>1, KthIs
  <2> QED BY <2>1, <2>2 DEF j, Below
<1>7. Kth(S, r + 1) = p
  <2> DEFINE x == Kth(S, r + 1)
  <2>1. x \in S /\ x \in Nat /\ p \in Nat /\ Cardinality(Below(x)) = r
    BY <1>6
  <2> HIDE DEF x
  <2>2. ~(x < p)
    <3>1. x < p => Cardinality(Below(x)) < r
      BY <1>3, <2>1
    <3> QED BY <1>4, <2>1, <3>1
  <2>3. ~(p < x)
    <3>1. p < x => r < Cardinality(Below(x))
      BY <1>3, <2>1
    <3> QED BY <1>4, <2>1, <3>1
  <2> QED BY <2>1, <2>2, <2>3 DEF x
<1> QED BY <1>5, <1>7

\* A slot has as many cells as were asked for, all different and all usable.
LEMMA FindCellsIs ==
  ASSUME NEW c, NEW head \in 0 .. NCells, NEW n \in Nat \ {0}
  PROVE  LET idxs == FindCells(c, head, n)
         IN  /\ idxs \in Idxs
             /\ idxs # <<>> => /\ Len(idxs) = n
                               /\ \A k \in 1 .. n : CanUse(c, idxs[k])
                               /\ \A j, k \in 1 .. n : idxs[j] = idxs[k] => j = k
<1> DEFINE start == SearchStart(c, head, n)
           usable == {k \in 0 .. NCells - 1 : CanUse(c, Around(start, k))}
           idxs == FindCells(c, head, n)
           found == [j \in 1 .. n |-> Around(start, Kth(usable, j))]
<1>1. NCells \in Nat \ {0}
  BY CellsAssumption
<1>2. start \in 0 .. NCells - 1
  BY <1>1 DEF SearchStart
<1>3. usable \subseteq Nat /\ usable \subseteq 0 .. NCells - 1 /\ IsFiniteSet(usable)
  <2>1. IsFiniteSet(0 .. NCells - 1)
    BY <1>1, FS_Interval
  <2>2. usable \in SUBSET (0 .. NCells - 1)
    OBVIOUS
  <2>3. usable \subseteq Nat
    OBVIOUS
  <2> HIDE DEF usable
  <2> QED BY <2>1, <2>2, <2>3, FS_Subset
<1>4. idxs = IF Cardinality(usable) < n THEN <<>> ELSE found
  BY DEF FindCells
<1>5. \A k \in usable : CanUse(c, Around(start, k))
  OBVIOUS
<1>6. \A k \in 0 .. NCells - 1 : Around(start, k) \in Cells
  <2>1. \A k \in 0 .. NCells - 1 : start + k \in Nat
    BY <1>2
  <2> HIDE DEF start
  <2> QED BY <1>1, <2>1 DEF Around, Cells
<1>7. \A j, k \in 0 .. NCells - 1 : Around(start, j) = Around(start, k) => j = k
  <2> SUFFICES ASSUME NEW j \in 0 .. NCells - 1, NEW k \in 0 .. NCells - 1,
                      Around(start, j) = Around(start, k)
               PROVE  j = k
    OBVIOUS
  <2> HIDE DEF start
  <2>1. \A k1 \in 0 .. NCells - 1 :
          Around(start, k1) = IF start + k1 < NCells THEN start + k1 ELSE start + k1 - NCells
    <3> SUFFICES ASSUME NEW k1 \in 0 .. NCells - 1
                 PROVE  (start + k1) % NCells = IF start + k1 < NCells THEN start + k1 ELSE start + k1 - NCells
      BY DEF Around
    <3> QED BY <1>1, <1>2
  <2> QED BY <1>1, <1>2, <2>1
<1> HIDE DEF usable, start, idxs
<1>8. CASE Cardinality(usable) < n
  <2>1. idxs = <<>>
    BY <1>4, <1>8
  <2>2. idxs \in Idxs
    BY <2>1 DEF Idxs
  <2> QED BY <2>1, <2>2 DEF idxs
<1>9. CASE ~(Cardinality(usable) < n)
  <2>1. n \in 0 .. Cardinality(usable)
    BY <1>3, <1>9, FS_CardinalityType
  <2>2. /\ \A j \in 1 .. n : Kth(usable, j) \in usable
        /\ \A j, k \in 1 .. n : Kth(usable, j) = Kth(usable, k) => j = k
    BY <1>3, <2>1, AscendingIs
  <2>3. \A j \in 1 .. n : Kth(usable, j) \in 0 .. NCells - 1
    BY <1>3, <2>2
  <2>4. \A j \in 1 .. n : found[j] = Around(start, Kth(usable, j)) /\ found[j] \in Cells
    BY <1>6, <2>3
  <2>5. found \in [1 .. n -> Cells]
    BY <2>4
  <2> HIDE DEF found
  <2>6. found \in Seq(Cells) /\ Len(found) = n
    BY <2>5
  <2>7. \A k \in 1 .. n : CanUse(c, found[k])
    BY <1>5, <2>2, <2>4
  <2>8. \A j, k \in 1 .. n : found[j] = found[k] => j = k
    BY <1>7, <2>2, <2>3, <2>4
  <2>9. idxs = found
    BY <1>4, <1>9
  <2>10. /\ idxs \in Idxs
         /\ Len(idxs) = n
         /\ \A k \in 1 .. n : CanUse(c, idxs[k])
         /\ \A j, k \in 1 .. n : idxs[j] = idxs[k] => j = k
    BY <2>6, <2>7, <2>8, <2>9 DEF Idxs
  <2> QED BY <2>10 DEF idxs
<1> QED BY <1>8, <1>9 DEF idxs

-----
(* Placing the tokens of a ubatch. *)

\* What a token of a ubatch has.
LEMMA TokenFields ==
  \A t \in Token : /\ t.pos \in Positions /\ t.seqs \in SUBSET Seqs /\ t.seqs # {}
                    /\ t.tok \in Toks
<1>1. \A t \in Token : t.pos \in Positions /\ t.seqs \in SeqSet /\ t.tok \in Toks
  BY DEF Token
<1>2. \A t \in Token : t.seqs \in SUBSET Seqs /\ t.seqs # {}
  BY <1>1 DEF SeqSet
<1> QED BY <1>1, <1>2

\* apply_ubatch lays the tokens over the cells and then purges.
LEMMA PlacedIs ==
  ASSUME NEW c, NEW idxs, NEW toks
  PROVE  Placed(c, idxs, toks) = Purged(Laid(c, idxs, toks), UpTo(c, idxs))
BY DEF Placed, Laid, UpTo, Over, AtCell

\* A cell of a slot gets one of the tokens.
LEMMA AtCellIs ==
  ASSUME NEW idxs \in Idxs, NEW toks \in Seq(Token), Len(toks) = Len(idxs),
         NEW i \in CellsOf(idxs)
  PROVE  /\ i \in Cells /\ AtCell(idxs, toks, i) \in Token
         /\ \E k \in 1 .. Len(idxs) : idxs[k] = i /\ AtCell(idxs, toks, i) = toks[k]
<1> DEFINE k == CHOOSE k \in DOMAIN idxs : idxs[k] = i
<1>1. DOMAIN idxs = 1 .. Len(idxs)
  BY DEF Idxs
<1>2. k \in DOMAIN idxs /\ idxs[k] = i
  BY DEF CellsOf
<1>3. AtCell(idxs, toks, i) = toks[k]
  BY DEF AtCell
<1> HIDE DEF k
<1>4. toks[k] \in Token /\ idxs[k] \in Cells
  BY <1>1, <1>2 DEF Idxs
<1> QED BY <1>1, <1>2, <1>3, <1>4

\* The tokens of a slot are laid over what its cells had.
LEMMA LaidIs ==
  ASSUME NEW c, Good(c), NEW idxs \in Idxs, NEW toks \in Seq(Token), Len(toks) = Len(idxs)
  PROVE  /\ Good(Laid(c, idxs, toks))
         /\ \A i \in Cells :
              LET in == i \in CellsOf(idxs)
                  d  == Laid(c, idxs, toks)
              IN  /\ d.pos[i] = IF in THEN AtCell(idxs, toks, i).pos ELSE c.pos[i]
                  /\ d.seq[i] = IF in THEN AtCell(idxs, toks, i).seqs ELSE c.seq[i]
                  /\ d.shift[i] = IF in THEN 0 ELSE c.shift[i]
         /\ Laid(c, idxs, toks).has_shift = c.has_shift
<1> DEFINE I == CellsOf(idxs)
           over == Over(c, idxs)
           at == [i \in I |-> AtCell(idxs, toks, i)]
           b == RmCells(c, over)
           d == Laid(c, idxs, toks)
<1>1. c \in CellsType /\ Exact(c)
  BY DEF Good
<1>2. I \in SUBSET Cells /\ over \in SUBSET Cells
  BY AtCellIs DEF Over
<1>3. /\ Good(b) /\ b \in CellsType
      /\ \A i \in Cells :
           /\ b.pos[i] = IF i \in over THEN -1 ELSE c.pos[i]
           /\ b.shift[i] = IF i \in over THEN 0 ELSE c.shift[i]
           /\ b.seq[i] = IF i \in over THEN {} ELSE c.seq[i]
      /\ b.has_shift = c.has_shift
  BY <1>1, <1>2, RmFields, RmGood
<1>4. \A i \in I : /\ at[i] = AtCell(idxs, toks, i)
                   /\ at[i] \in Token
  BY AtCellIs
<1>5. \A i \in I : /\ at[i].pos \in Positions
                   /\ at[i].seqs \in SUBSET Seqs /\ at[i].seqs # {}
  BY <1>4, TokenFields
<1>6. \A i \in I : i \notin over => IsEmpty(c, i)
  BY DEF Over
<1>7. d = PlaceCells(b, I, at)
  BY DEF Laid
<1>8. \A i \in I : c.shift[i] # 0 => i \in over
  BY <1>1, <1>2, <1>6 DEF Exact
<1> HIDE DEF b, d, I, over, at
<1>9. \A i \in I : IsEmpty(b, i)
  BY <1>2, <1>3, <1>6 DEF IsEmpty
<1>10. Good(PlaceCells(b, I, at))
  BY <1>2, <1>3, <1>5, <1>9, PlaceGood
<1>11. \A i \in Cells :
          /\ PlaceCells(b, I, at).pos[i] = IF i \in I THEN at[i].pos ELSE b.pos[i]
          /\ PlaceCells(b, I, at).seq[i] = IF i \in I THEN at[i].seqs ELSE b.seq[i]
          /\ PlaceCells(b, I, at).shift[i] = b.shift[i]
          /\ PlaceCells(b, I, at).has_shift = b.has_shift
  BY <1>2, <1>3, PlaceFields
<1>12. over \subseteq I
  BY DEF over, Over, I
<1>13. \A i \in Cells :
         /\ d.pos[i] = IF i \in I THEN AtCell(idxs, toks, i).pos ELSE c.pos[i]
         /\ d.seq[i] = IF i \in I THEN AtCell(idxs, toks, i).seqs ELSE c.seq[i]
         /\ d.shift[i] = IF i \in I THEN 0 ELSE c.shift[i]
         /\ d.has_shift = c.has_shift
  BY <1>3, <1>4, <1>7, <1>8, <1>11, <1>12
<1>14. 0 \in Cells
  BY CellsAssumption DEF Cells
<1>15. d.has_shift = c.has_shift
  BY <1>13, <1>14
<1> QED BY <1>7, <1>10, <1>13, <1>15 DEF d, I

\* apply_ubatch keeps the summaries exact; cells of the slot have no pending
\* shift, and no cell gets a sequence but the token that is placed there.
LEMMA PlacedGood ==
  ASSUME NEW c, Good(c), NEW idxs \in Idxs, NEW toks \in Seq(Token), Len(toks) = Len(idxs)
  PROVE  PlacedIn(Placed(c, idxs, toks), c, idxs, toks)
<1> DEFINE b == Laid(c, idxs, toks)
           up == UpTo(c, idxs)
           d == Placed(c, idxs, toks)
<1>1. /\ Good(b)
      /\ \A i \in Cells :
           /\ b.pos[i] = IF i \in CellsOf(idxs) THEN AtCell(idxs, toks, i).pos ELSE c.pos[i]
           /\ b.seq[i] = IF i \in CellsOf(idxs) THEN AtCell(idxs, toks, i).seqs ELSE c.seq[i]
           /\ b.shift[i] = IF i \in CellsOf(idxs) THEN 0 ELSE c.shift[i]
      /\ b.has_shift = c.has_shift
  BY LaidIs
<1>2. d = Purged(b, up)
  BY PlacedIs
<1> HIDE DEF b, up, d
<1>3. Good(Purged(b, up))
  BY <1>1, PurgedGood
<1>4. b \in CellsType
  BY <1>1 DEF Good
<1>5. /\ \A i \in Cells :
           /\ Purged(b, up).pos[i] = IF i \in PurgedOut(b, up) THEN -1 ELSE b.pos[i]
           /\ Purged(b, up).shift[i] = IF i \in PurgedOut(b, up) THEN 0 ELSE b.shift[i]
           /\ Purged(b, up).seq[i] = b.seq[i] \ Gone(b, up)[i]
      /\ Purged(b, up).has_shift = b.has_shift
  BY <1>4, PurgedFields
<1>6. \A i \in Cells :
           /\ d.seq[i] \subseteq b.seq[i]
           /\ d.shift[i] \in {0, b.shift[i]}
           /\ d.pos[i] \in {-1, b.pos[i]}
           /\ d.pos[i] # -1 => d.shift[i] = b.shift[i]
  BY <1>2, <1>5
<1> QED BY <1>1, <1>2, <1>3, <1>5, <1>6 DEF d, IsEmpty, PlacedIn

-----
(* Taking away. *)

\* A cell may lose nothing.
LEMMA ThinnedSelf == ASSUME NEW c \in GoodCells PROVE c \in Thinned(c)
BY DEF Thinned

\* Taking away twice is taking away.
LEMMA ThinnedTrans ==
  ASSUME NEW c, NEW d \in Thinned(c), NEW e \in Thinned(d)
  PROVE  e \in Thinned(c)
<1>1. ASSUME NEW i \in Cells
      PROVE  /\ e.seq[i] \subseteq c.seq[i]
             /\ e.pos[i] \in {-1, c.pos[i]}
             /\ e.shift[i] \in {0, c.shift[i]}
             /\ e.pos[i] # -1 => e.shift[i] = c.shift[i]
  <2>1. /\ d.seq[i] \subseteq c.seq[i] /\ d.pos[i] \in {-1, c.pos[i]}
        /\ d.shift[i] \in {0, c.shift[i]}
        /\ d.pos[i] # -1 => d.shift[i] = c.shift[i]
    BY DEF Thinned
  <2>2. /\ e.seq[i] \subseteq d.seq[i] /\ e.pos[i] \in {-1, d.pos[i]}
        /\ e.shift[i] \in {0, d.shift[i]}
        /\ e.pos[i] # -1 => e.shift[i] = d.shift[i]
    BY DEF Thinned
  <2> QED BY <2>1, <2>2
<1>2. e \in GoodCells /\ e.has_shift = c.has_shift
  BY DEF Thinned
<1> QED BY <1>1, <1>2 DEF Thinned

\* seq_rm only takes away.
LEMMA SeqRmThins ==
  ASSUME NEW c \in GoodCells, NEW s \in Seqs, NEW p0 \in Int, NEW p1 \in Int
  PROVE  SeqRmCells(c, s, p0, p1) \in Thinned(c)
<1> DEFINE d == SeqRmCells(c, s, p0, p1)
           hit == SeqHits(c, s, p0, p1)
<1>1. Good(c) /\ c \in CellsType
  BY DEF GoodCells, Good
<1>2. d \in GoodCells
  BY <1>1, SeqRmGood, GoodIs
<1>3. \A i \in Cells :
        /\ d.pos[i] = IF i \in Freed(c, hit, s) THEN -1 ELSE c.pos[i]
        /\ d.shift[i] = IF i \in Freed(c, hit, s) THEN 0 ELSE c.shift[i]
        /\ d.seq[i] = IF i \in hit THEN c.seq[i] \ {s} ELSE c.seq[i]
        /\ d.has_shift = c.has_shift
  BY <1>1, SeqRmFields
<1>4. 0 \in Cells
  BY CellsAssumption DEF Cells
<1> HIDE DEF d, hit
<1>5. \A i \in Cells : /\ d.seq[i] \subseteq c.seq[i]
                       /\ d.pos[i] \in {-1, c.pos[i]}
                       /\ d.shift[i] \in {0, c.shift[i]}
                       /\ d.pos[i] # -1 => d.shift[i] = c.shift[i]
  BY <1>3
<1>6. d.has_shift = c.has_shift
  BY <1>3, <1>4
<1> QED BY <1>2, <1>5, <1>6 DEF d, Thinned

\* So does rm.
LEMMA RmThins ==
  ASSUME NEW c \in GoodCells, NEW I \in SUBSET Cells
  PROVE  RmCells(c, I) \in Thinned(c)
<1> DEFINE d == RmCells(c, I)
<1>1. Good(c) /\ c \in CellsType
  BY DEF GoodCells, Good
<1>2. d \in GoodCells
  BY <1>1, RmGood, GoodIs
<1>3. /\ \A i \in Cells :
           /\ d.pos[i] = IF i \in I THEN -1 ELSE c.pos[i]
           /\ d.shift[i] = IF i \in I THEN 0 ELSE c.shift[i]
           /\ d.seq[i] = IF i \in I THEN {} ELSE c.seq[i]
      /\ d.has_shift = c.has_shift
  BY <1>1, RmFields
<1> HIDE DEF d
<1> QED BY <1>2, <1>3 DEF d, Thinned

\* And seq_keep.
LEMMA SeqKeepThins ==
  ASSUME NEW c \in GoodCells, NEW s \in Seqs
  PROVE  SeqKeepCells(c, s) \in Thinned(c)
<1> DEFINE d == SeqKeepCells(c, s)
<1>1. Good(c) /\ c \in CellsType
  BY DEF GoodCells, Good
<1>2. d \in GoodCells
  BY <1>1, SeqKeepGood, GoodIs
<1>3. \A i \in Cells :
           /\ d.pos[i] = IF i \in KeptOut(c, s) THEN -1 ELSE c.pos[i]
           /\ d.shift[i] = IF i \in KeptOut(c, s) THEN 0 ELSE c.shift[i]
           /\ d.seq[i] = IF s \in c.seq[i] THEN {s}
                         ELSE IF i \in KeptOut(c, s) THEN {} ELSE c.seq[i]
           /\ d.has_shift = c.has_shift
  BY <1>1, SeqKeepFields
<1>4. 0 \in Cells
  BY CellsAssumption DEF Cells
<1> HIDE DEF d
<1>5. \A i \in Cells : /\ d.seq[i] \subseteq c.seq[i]
                       /\ d.pos[i] \in {-1, c.pos[i]}
                       /\ d.shift[i] \in {0, c.shift[i]}
                       /\ d.pos[i] # -1 => d.shift[i] = c.shift[i]
  BY <1>3
<1>6. d.has_shift = c.has_shift
  BY <1>3, <1>4
<1> QED BY <1>2, <1>5, <1>6 DEF d, Thinned

\* The head stays within the cells.
LEMMA HeadAfterIs ==
  ASSUME NEW head \in 0 .. NCells, NEW old, NEW new
  PROVE  HeadAfter(head, old, new) \in 0 .. NCells
<1> DEFINE freed == {i \in Cells : ~IsEmpty(old, i) /\ IsEmpty(new, i)}
<1>1. freed \subseteq Nat /\ freed \subseteq 0 .. NCells
  BY CellsAssumption DEF Cells
<1>2. HeadAfter(head, old, new) =
        IF \E i \in freed : i < head
        THEN CHOOSE i \in freed : \A j \in freed : i <= j ELSE head
  BY DEF HeadAfter
<1> HIDE DEF freed
<1>3. freed # {} => \E i \in freed : \A j \in freed : i <= j
  BY <1>1, LeastNat
<1> QED BY <1>1, <1>2, <1>3

\* The cells of a sequence that is copied into an empty stream.
LEMMA ImportedIs ==
  ASSUME NEW c \in GoodCells, NEW s \in Seqs, NEW t \in Seqs
  PROVE  /\ Imported(c, s, t) \in GoodCells
         /\ \A i \in Cells :
              LET in == s \in c.seq[i]
                  d == Imported(c, s, t)
              IN  /\ d.pos[i] = IF in THEN c.pos[i] ELSE -1
                  /\ d.shift[i] = IF in THEN c.shift[i] ELSE 0
                  /\ d.seq[i] = IF in THEN {t} ELSE {}
<1> DEFINE I == {i \in Cells : s \in c.seq[i]}
           pos == [i \in Cells |-> IF i \in I THEN c.pos[i] ELSE -1]
           shift == [i \in Cells |-> IF i \in I THEN c.shift[i] ELSE 0]
           seq == [i \in Cells |-> IF i \in I THEN {t} ELSE {}]
           has == \E i \in I : c.shift[i] # 0
           c1 == [NoCells EXCEPT !.pos = pos, !.shift = shift, !.seq = seq, !.used = I,
                                 !.has_shift = has]
           d == Imported(c, s, t)
<1>1. c \in CellsType /\ Exact(c)
  BY DEF GoodCells
<1>2. NoCells \in CellsType
  BY NoCellsGood DEF Good
<1>3. /\ pos \in [Cells -> Positions \cup {-1}] /\ shift \in [Cells -> Int]
      /\ seq \in [Cells -> SUBSET Seqs] /\ I \in SUBSET Cells /\ has \in BOOLEAN
  BY <1>1 DEF CellsType
<1>4. d = [c1 EXCEPT !.seq_pos = Counts(c1, I)]
  BY DEF Imported
<1>5. \A i \in Cells : /\ pos[i] = IF i \in I THEN c.pos[i] ELSE -1
                       /\ shift[i] = IF i \in I THEN c.shift[i] ELSE 0
                       /\ seq[i] = IF i \in I THEN {t} ELSE {}
                       /\ i \in I <=> s \in c.seq[i]
  OBVIOUS
<1>6. ~has => \A i \in I : c.shift[i] = 0
  OBVIOUS
<1> HIDE DEF pos, shift, seq, has, I
<1>7. /\ c1 \in CellsType /\ c1.pos = pos /\ c1.shift = shift /\ c1.seq = seq
      /\ c1.used = I /\ c1.has_shift = has
  BY <1>2, <1>3 DEF CellsType
<1> HIDE DEF c1, d
<1>8. Counts(c1, I) \in [Seqs -> [Positions -> Int]]
  <2>1. Counts(c1, I) \in [Seqs -> [Positions -> Nat]]
    BY <1>3, CountsType
  <2>2. \A x \in Seqs, p \in Positions : Counts(c1, I)[x][p] \in Int
    BY <2>1
  <2> QED BY <2>1, <2>2 DEF Counts
<1>9. /\ d \in CellsType /\ d.pos = pos /\ d.shift = shift /\ d.seq = seq
      /\ d.used = I /\ d.has_shift = has /\ d.seq_pos = Counts(c1, I)
  BY <1>4, <1>7, <1>8 DEF CellsType
<1>10. \A i \in I : c.pos[i] # -1
  BY <1>1, <1>3, <1>5 DEF Exact, IsEmpty
<1>11. d.seq_pos = Counts(d, Cells)
  <2>1. \A i \in Cells \ I : c1.seq[i] = {}
    BY <1>5, <1>7
  <2>2. Counts(c1, Cells) = Counts(c1, I)
    BY <1>3, <2>1, CountsIgnore
  <2>3. Counts(c1, Cells) = Counts(d, Cells)
    BY <1>7, <1>9, CountsSame
  <2> QED BY <1>9, <2>2, <2>3
<1>12. Exact(d)
  BY <1>3, <1>5, <1>6, <1>9, <1>10, <1>11 DEF Exact, IsEmpty
<1>13. d \in GoodCells
  BY <1>9, <1>12 DEF GoodCells
<1> QED BY <1>5, <1>9, <1>13 DEF d

-----
(* Splitting a batch. *)

\* What a batch has, and that every token of it is of some sequence.
LEMMA BatchIs ==
  ASSUME NEW b \in Batches
  PROVE  /\ Len(b) \in Nat \ {0} /\ DOMAIN b = 1 .. Len(b) /\ b \in Seq(SeqSets)
         /\ \A k \in 1 .. Len(b) : /\ b[k] \in SeqSets /\ b[k] # {} /\ b[k] \subseteq Seqs
                                   /\ SeqAt(b, k) \in b[k] /\ SeqAt(b, k) \in Seqs
<1>1. PICK n \in 1 .. NBatch : b \in [1 .. n -> SeqSets]
  BY DEF Batches
<1>2. n \in Nat \ {0}
  BY CacheAssumption
<1>3. Len(b) = n /\ DOMAIN b = 1 .. n /\ b \in Seq(SeqSets)
  BY <1>1, <1>2
<1>4. \A k \in 1 .. n : b[k] \in SeqSets /\ b[k] # {} /\ b[k] \subseteq Seqs
  BY <1>1, CacheAssumption
<1>5. \A k \in 1 .. n : SeqAt(b, k) \in b[k]
  BY <1>4 DEF SeqAt
<1> QED BY <1>2, <1>3, <1>4, <1>5

\* In a batch for several streams a token has one sequence.
LEMMA KinIs ==
  ASSUME NEW b \in Batches, NStream > 1, NEW p \in 1 .. Len(b)
  PROVE  b[p] = {SeqAt(b, p)}
<1>1. b[p] \in SeqSets /\ SeqAt(b, p) \in b[p] /\ b[p] \subseteq Seqs
  BY BatchIs
<1>2. Cardinality(b[p]) = 1
  BY <1>1, CacheAssumption
<1>3. IsFiniteSet(b[p])
  <2>1. IsFiniteSet(Seqs)
    BY CellsAssumption, FS_Interval DEF Seqs
  <2> QED BY <1>1, <2>1, FS_Subset
<1>4. PICK x : b[p] = {x}
  BY <1>2, <1>3, FS_Singleton
<1> QED BY <1>1, <1>4

\* split_simple takes places of the batch, in their order.
LEMMA SimpleSplitIs ==
  ASSUME NEW b \in Batches, NStream = 1
  PROVE  SimpleSplit(b) \in Seq(Parts(b)) /\ InTurn(b, SimpleSplit(b))
<1> DEFINE L == Len(b)
           J == (L + NUbatch - 1) \div NUbatch
           size(j) == IF j * NUbatch <= L THEN NUbatch ELSE L - (j - 1) * NUbatch
           part(j) == [st \in {0} |-> [k \in 1 .. size(j) |-> (j - 1) * NUbatch + k]]
<1>1. L \in Nat \ {0} /\ NUbatch \in Nat \ {0}
  BY BatchIs, CacheAssumption
<1>2. J \in Nat /\ J * NUbatch <= L + NUbatch - 1
  BY <1>1
<1>3. ASSUME NEW j \in 1 .. J
      PROVE  /\ size(j) \in Nat \ {0}
             /\ \A k \in 1 .. size(j) : (j - 1) * NUbatch + k \in 1 .. L
  <2> DEFINE x == j * NUbatch
             y == (j - 1) * NUbatch
  <2>1. x \in Nat /\ y \in Nat /\ x = y + NUbatch
    BY <1>1, <1>2
  <2>2. x <= J * NUbatch
    BY <1>1, <1>2
  <2>3. J * NUbatch \in Nat
    BY <1>1, <1>2
  <2> HIDE DEF x, y, J, L
  <2>4. y <= L - 1
    BY <1>1, <1>2, <2>1, <2>2, <2>3
  <2>5. (IF x <= L THEN NUbatch ELSE L - y) \in Nat \ {0}
    BY <1>1, <2>1, <2>4
  <2>6. \A k \in 1 .. (IF x <= L THEN NUbatch ELSE L - y) : y + k \in 1 .. L
    BY <1>1, <2>1, <2>4
  <2> QED BY <2>5, <2>6 DEF x, y
<1>4. ASSUME NEW j \in 1 .. J PROVE part(j) \in Parts(b)
  <2> DEFINE q == [k \in 1 .. size(j) |-> (j - 1) * NUbatch + k]
  <2>1. q \in [1 .. size(j) -> Places(b)]
    BY <1>3 DEF Places
  <2>2. q \in NonEmpty(Places(b))
    <3> HIDE DEF q, size
    <3>1. q \in Seq(Places(b)) /\ Len(q) = size(j)
      BY <1>3, <2>1
    <3> QED BY <3>1, <1>3 DEF NonEmpty
  <2>3. part(j) = [st \in {0} |-> q]
    OBVIOUS
  <2> HIDE DEF q
  <2>4. [st \in {0} |-> q] \in [{0} -> NonEmpty(Places(b))]
    BY <2>2
  <2>5. {0} \in SUBSET Streams
    BY DEF Streams
  <2>6. [st \in {0} |-> q] \in UNION {[D -> NonEmpty(Places(b))] : D \in SUBSET Streams}
    BY <2>4, <2>5
  <2>7. ~(NStream > 1)
    OBVIOUS
  <2>r. NoRepeat(q)
    <3>1. \A k \in 1 .. size(j) : q[k] = (j - 1) * NUbatch + k
      BY DEF q
    <3>2. q \in Seq(Places(b)) /\ Len(q) = size(j) /\ (j - 1) * NUbatch \in Nat
      <4>1. q \in [1 .. size(j) -> Places(b)]
        BY <2>1
      <4>2. (j - 1) * NUbatch \in Nat
        BY <1>1, <1>2
      <4> HIDE DEF size
      <4> QED BY <4>1, <4>2, <1>3
    <3> HIDE DEF size
    <3> DEFINE o == (j - 1) * NUbatch
    <3> HIDE DEF o
    <3>3. \A k, i \in 1 .. size(j) : o + k = o + i => k = i
      BY <1>3, <3>2 DEF o
    <3> QED BY <3>1, <3>2, <3>3 DEF NoRepeat, o
  <2>8. [st \in {0} |-> q] \in Parts(b)
    BY <2>6, <2>7, <2>r DEF Parts
  <2> HIDE DEF part
  <2> QED BY <2>3, <2>8
<1>5. SimpleSplit(b) = [j \in 1 .. J |-> part(j)]
  BY DEF SimpleSplit
<1> HIDE DEF part, J
<1>6. [j \in 1 .. J |-> part(j)] \in [1 .. J -> Parts(b)]
  BY <1>4
<1>7. SimpleSplit(b) \in Seq(Parts(b)) /\ Len(SimpleSplit(b)) = J
      /\ \A j \in 1 .. J : SimpleSplit(b)[j] = part(j)
  BY <1>2, <1>5, <1>6
<1>8. \A j \in 1 .. J : Indices(part(j)) = {(j - 1) * NUbatch + k : k \in 1 .. size(j)}
  <2> SUFFICES ASSUME NEW j \in 1 .. J
               PROVE  Indices(part(j)) = {(j - 1) * NUbatch + k : k \in 1 .. size(j)}
    OBVIOUS
  <2> DEFINE q == [k \in 1 .. size(j) |-> (j - 1) * NUbatch + k]
  <2>1. part(j) = [st \in {0} |-> q]
    BY DEF part
  <2>2. DOMAIN q = 1 .. size(j) /\ \A k \in 1 .. size(j) : q[k] = (j - 1) * NUbatch + k
    OBVIOUS
  <2> HIDE DEF q
  <2>3. DOMAIN part(j) = {0} /\ part(j)[0] = q
    BY <2>1
  <2>4. Indices(part(j)) = {q[k] : k \in DOMAIN q}
    BY <2>3 DEF Indices
  <2> QED BY <2>2, <2>4
<1> HIDE DEF size
<1>9. ASSUME NEW l \in 1 .. J, NEW q \in Indices(part(l)), NEW p \in Places(b)
      PROVE  /\ p < q => \E j \in 1 .. l : p \in Indices(part(j))
             /\ \A j \in 1 .. l - 1 : p \in Indices(part(j)) => p < q
  <2>1. q \in Nat /\ q > (l - 1) * NUbatch /\ q <= l * NUbatch
    BY <1>1, <1>2, <1>8, <1>9 DEF size
  <2>2. p \in Nat /\ 1 <= p /\ p <= L
    BY <1>1 DEF Places
  <2>3. ASSUME p < q PROVE \E j \in 1 .. l : p \in Indices(part(j))
    <3> DEFINE d == (p - 1) \div NUbatch
               x == d * NUbatch
    <3>1. d \in Nat /\ x \in Nat /\ x <= p - 1 /\ p - 1 < x + NUbatch
      BY <1>1, <2>2
    <3>2. (d + 1) * NUbatch = x + NUbatch /\ ((d + 1) - 1) * NUbatch = x
      BY <1>1, <3>1
    <3>3. d < l
      <4>1. l \in Nat /\ l * NUbatch \in Nat
        BY <1>1, <1>2
      <4>2. d >= l => x >= l * NUbatch
        <5> HIDE DEF d
        <5> QED BY <1>1, <3>1, <4>1
      <4> HIDE DEF d, x
      <4> QED BY <2>1, <2>2, <2>3, <3>1, <4>1, <4>2
    <3> HIDE DEF d, x
    <3>4. d + 1 \in 1 .. l /\ d + 1 \in 1 .. J
      BY <1>2, <3>1, <3>3
    <3>5. p - x \in 1 .. size(d + 1)
      <4>1. size(d + 1) = IF x + NUbatch <= L THEN NUbatch ELSE L - x
        BY <3>2 DEF size
      <4> HIDE DEF L
      <4> QED BY <1>1, <2>2, <3>1, <4>1
    <3>6. p = ((d + 1) - 1) * NUbatch + (p - x)
      BY <2>2, <3>1, <3>2
    <3>7. p \in Indices(part(d + 1))
      BY <1>8, <3>4, <3>5, <3>6
    <3> QED BY <3>4, <3>7
  <2>4. ASSUME NEW j \in 1 .. l - 1, p \in Indices(part(j)) PROVE p < q
    <3>1. j \in 1 .. J /\ j \in Nat /\ l \in Nat /\ j <= l - 1
      BY <1>2
    <3>2. p \in Nat /\ p <= j * NUbatch
      BY <1>1, <1>8, <2>4, <3>1 DEF size
    <3>3. j * NUbatch \in Nat /\ (l - 1) * NUbatch \in Nat /\ j * NUbatch <= (l - 1) * NUbatch
      BY <1>1, <3>1
    <3> QED BY <2>1, <3>2, <3>3
  <2> QED BY <2>3, <2>4
<1>10. InTurn(b, SimpleSplit(b))
  <2>1. \A l \in 1 .. J : l \in Nat /\ \A j \in 1 .. l : j \in 1 .. J
    BY <1>2
  <2>2. \A l \in 1 .. J : \A j \in 1 .. l - 1 : j \in 1 .. J
    BY <1>2
  <2> QED BY <1>7, <1>9, <2>1, <2>2 DEF InTurn
<1> QED BY <1>7, <1>10

\* What split_equal takes next: of each of some sequences, equally many unused tokens.
LEMMA EqualPartIs ==
  ASSUME NEW b \in Batches, NStream > 1, NEW used \in SUBSET DOMAIN b, used # DOMAIN b
  PROVE  /\ EqualPart(b, used) \in Parts(b)
         /\ Indices(EqualPart(b, used)) \in SUBSET DOMAIN b
         /\ \A q \in Indices(EqualPart(b, used)) :
              /\ q \notin used
              /\ \A p \in DOMAIN b \ used :
                   SeqAt(b, p) = SeqAt(b, q) /\ p < q => p \in Indices(EqualPart(b, used))
<1> DEFINE D == DOMAIN b
           left == D \ used
           first == CHOOSE k \in left : \A j \in left : k <= j
           s0 == SeqAt(b, first)
           S == Joined(b, used)
           U(s) == Unused(b, used, s)
           q == NUbatch \div Cardinality(S)
           room == IF q > 1 THEN q ELSE 1
           Fit(n) == /\ \A s \in S : n <= Cardinality(U(s))
                     /\ n = room \/ \E s \in S : n = Cardinality(U(s))
           n == CHOOSE n \in 1 .. room : Fit(n)
<1>1. /\ D = 1 .. Len(b) /\ Len(b) \in Nat /\ \A k \in D : SeqAt(b, k) \in Seqs
      /\ NUbatch \in Nat \ {0} /\ Streams = Seqs
  BY BatchIs, CacheAssumption DEF Streams, Seqs
<1>2. left \subseteq Nat /\ left # {} /\ left \subseteq D
  <2>1. \E k \in D : k \notin used
    OBVIOUS
  <2>2. left # {}
    BY <2>1
  <2>3. left \subseteq D
    OBVIOUS
  <2> HIDE DEF left
  <2> QED BY <1>1, <2>2, <2>3
<1>3. first \in left /\ \A j \in left : first <= j
  <2>1. \E k \in left : \A j \in left : k <= j
    <3> HIDE DEF left
    <3> QED BY <1>2, LeastNat
  <2> QED BY <2>1
<1>4. s0 \in Seqs
  BY <1>1, <1>2, <1>3
<1>5. S = {s \in Seqs : s >= s0 /\ s - s0 <= NUbatch /\
         \E at \in [s0 .. s -> left] :
           /\ at[s0] = first
           /\ \A r \in s0 .. s : SeqAt(b, at[r]) = r
           /\ \A r \in s0 .. s - 1 : at[r] < at[r + 1]}
  BY DEF Joined
<1> HIDE DEF first
<1>6. s0 \in S
  <2> DEFINE at == [r \in s0 .. s0 |-> first]
  <2>1. s0 \in Int /\ s0 - s0 = 0 /\ s0 >= s0
    BY <1>4 DEF Seqs
  <2>2. at \in [s0 .. s0 -> left] /\ at[s0] = first
    BY <1>3, <2>1
  <2>3. \A r \in s0 .. s0 : r = s0
    BY <2>1
  <2>4. \A r \in s0 .. s0 - 1 : FALSE
    BY <2>1
  <2>5. \A r \in s0 .. s0 : SeqAt(b, at[r]) = r
    BY <2>2, <2>3
  <2> HIDE DEF at, left
  <2>6. \E a \in [s0 .. s0 -> left] :
           /\ a[s0] = first
           /\ \A r \in s0 .. s0 : SeqAt(b, a[r]) = r
           /\ \A r \in s0 .. s0 - 1 : a[r] < a[r + 1]
    BY <2>2, <2>4, <2>5
  <2>7. s0 >= s0 /\ s0 - s0 <= NUbatch
    BY <2>1, <1>1
  <2> HIDE DEF s0, S
  <2> QED BY <1>4, <1>5, <2>6, <2>7
<1>7. \A s \in S : U(s) # {}
  <2> SUFFICES ASSUME NEW s \in S PROVE U(s) # {}
    OBVIOUS
  <2>1. PICK at \in [s0 .. s -> left] : \A r \in s0 .. s : SeqAt(b, at[r]) = r
    <3> HIDE DEF S, left, s0
    <3> QED BY <1>5
  <2>2. s \in s0 .. s
    <3>1. s >= s0 /\ s \in Seqs
      <4> HIDE DEF S, left, s0
      <4> QED BY <1>5
    <3> QED BY <3>1, <1>4 DEF Seqs
  <2>3. at[s] \in U(s)
    BY <2>1, <2>2 DEF Unused
  <2> QED BY <2>3
<1>8. \A s \in S : /\ U(s) \subseteq Nat /\ U(s) \subseteq D /\ IsFiniteSet(U(s))
                   /\ Cardinality(U(s)) \in Nat \ {0}
                   /\ \A k \in U(s) : SeqAt(b, k) = s
  <2> SUFFICES ASSUME NEW s \in S
               PROVE  /\ U(s) \subseteq Nat /\ U(s) \subseteq D /\ IsFiniteSet(U(s))
                      /\ Cardinality(U(s)) \in Nat \ {0}
                      /\ \A k \in U(s) : SeqAt(b, k) = s
    OBVIOUS
  <2>1. U(s) \in SUBSET D /\ \A k \in U(s) : SeqAt(b, k) = s
    BY DEF Unused
  <2>2. IsFiniteSet(D)
    BY <1>1, FS_Interval
  <2>3. IsFiniteSet(U(s))
    BY <2>1, <2>2, FS_Subset
  <2>4. Cardinality(U(s)) \in Nat
    BY <2>3, FS_CardinalityType
  <2>5. Cardinality(U(s)) # 0
    BY <1>7, <2>3, FS_EmptySet
  <2> QED BY <1>1, <2>1, <2>3, <2>4, <2>5
<1>9. S \subseteq Seqs /\ IsFiniteSet(S) /\ Cardinality(S) \in Nat \ {0}
  <2>1. S \in SUBSET Seqs
    BY <1>5
  <2>2. IsFiniteSet(Seqs)
    BY CellsAssumption, FS_Interval DEF Seqs
  <2> HIDE DEF S
  <2>3. IsFiniteSet(S)
    BY <2>1, <2>2, FS_Subset
  <2>4. Cardinality(S) \in Nat /\ Cardinality(S) # 0
    BY <1>6, <2>3, FS_CardinalityType, FS_EmptySet
  <2> QED BY <2>1, <2>3, <2>4
<1> HIDE DEF S, s0, left
<1>10. q \in Nat /\ room \in Nat \ {0}
  BY <1>1, <1>9
<1> HIDE DEF q
<1>11. \E m \in 1 .. room : Fit(m)
  <2>1. CASE \A s \in S : room <= Cardinality(U(s))
    <3>1. Fit(room) /\ room \in 1 .. room
      BY <1>10, <2>1
    <3> QED BY <3>1
  <2>2. CASE ~ \A s \in S : room <= Cardinality(U(s))
    <3> DEFINE A == {Cardinality(U(s)) : s \in S}
    <3>1. A \subseteq Nat /\ A # {}
      BY <1>6, <1>8
    <3>2. PICK m \in A : \A k \in A : m <= k
      <4> HIDE DEF A
      <4> QED BY <3>1, LeastNat
    <3>3. PICK s \in S : m = Cardinality(U(s))
      BY <3>2
    <3>4. \A r \in S : m <= Cardinality(U(r))
      BY <3>2
    <3>5. m \in Nat \ {0}
      BY <3>3, <1>8
    <3>6. m <= room
      <4>1. PICK r \in S : ~(room <= Cardinality(U(r)))
        BY <2>2
      <4>2. Cardinality(U(r)) \in Nat /\ m <= Cardinality(U(r))
        BY <1>8, <3>4
      <4> HIDE DEF room, U
      <4> QED BY <1>10, <3>5, <4>1, <4>2
    <3>7. m \in 1 .. room
      <4> HIDE DEF room
      <4> QED BY <1>10, <3>5, <3>6
    <3>8. Fit(m)
      BY <3>3, <3>4
    <3> HIDE DEF Fit
    <3> QED BY <3>7, <3>8
  <2> QED BY <2>1, <2>2
<1>12. n \in 1 .. room /\ Fit(n)
  <2> HIDE DEF Fit, room
  <2> QED BY <1>11
<1>13. n \in Nat \ {0} /\ \A s \in S : n <= Cardinality(U(s))
  <2>1. n \in Nat \ {0}
    <3> HIDE DEF n, room
    <3> QED BY <1>10, <1>12
  <2> QED BY <2>1, <1>12
<1>14. EqualPart(b, used) = [s \in S |-> Ascending(U(s), n)]
  BY DEF EqualPart, S, q
<1>n. \A s \in S, p \in left : SeqAt(b, p) = s => p \in U(s)
  BY DEF Unused, left
<1>u. \A s \in S : \A p \in U(s) : p \notin used
  BY DEF Unused
<1> HIDE DEF n, U
<1>15. \A s \in S : /\ Ascending(U(s), n) \in Seq(U(s)) /\ Len(Ascending(U(s), n)) = n
                    /\ DOMAIN Ascending(U(s), n) = 1 .. n
                    /\ \A k \in 1 .. n : Ascending(U(s), n)[k] \in U(s)
  <2> SUFFICES ASSUME NEW s \in S
               PROVE  /\ Ascending(U(s), n) \in Seq(U(s)) /\ Len(Ascending(U(s), n)) = n
                      /\ DOMAIN Ascending(U(s), n) = 1 .. n
                      /\ \A k \in 1 .. n : Ascending(U(s), n)[k] \in U(s)
    OBVIOUS
  <2>1. n \in 0 .. Cardinality(U(s))
    BY <1>8, <1>13
  <2>2. /\ Ascending(U(s), n) \in Seq(U(s)) /\ Len(Ascending(U(s), n)) = n
        /\ DOMAIN Ascending(U(s), n) = 1 .. n
        /\ \A k \in 1 .. n : Ascending(U(s), n)[k] = Kth(U(s), k) /\ Kth(U(s), k) \in U(s)
    BY <2>1, <1>8, AscendingIs
  <2> QED BY <2>2
<1>16. \A s \in S : Ascending(U(s), n) \in NonEmpty(Places(b))
  <2> SUFFICES ASSUME NEW s \in S PROVE Ascending(U(s), n) \in NonEmpty(Places(b))
    OBVIOUS
  <2>1. \A k \in 1 .. n : Ascending(U(s), n)[k] \in Places(b)
    BY <1>1, <1>8, <1>15 DEF Places
  <2>2. Ascending(U(s), n) \in Seq(Places(b)) /\ Len(Ascending(U(s), n)) = n
    <3>1. Ascending(U(s), n) \in Seq(U(s)) /\ Len(Ascending(U(s), n)) = n
      BY <1>15
    <3> QED BY <3>1, <2>1
  <2> QED BY <2>2, <1>13 DEF NonEmpty
<1> DEFINE p == [s \in S |-> Ascending(U(s), n)]
<1>17. p \in [S -> NonEmpty(Places(b))] /\ DOMAIN p = S
  BY <1>16
<1>18. \A s \in S : \A k \in 1 .. Len(p[s]) : SeqAt(b, p[s][k]) = s /\ p[s][k] \in D
  <2> SUFFICES ASSUME NEW s \in S, NEW k \in 1 .. Len(p[s])
               PROVE SeqAt(b, p[s][k]) = s /\ p[s][k] \in D
    OBVIOUS
  <2>1. p[s] = Ascending(U(s), n)
    OBVIOUS
  <2> HIDE DEF p
  <2>2. p[s][k] \in U(s)
    BY <1>15, <2>1
  <2> QED BY <1>8, <2>2
<1>19. \A s \in S : DOMAIN p[s] = 1 .. Len(p[s])
  BY <1>15
<1> HIDE DEF p
<1>20. p \in UNION {[X -> NonEmpty(Places(b))] : X \in SUBSET Streams}
  <2>1. S \in SUBSET Streams
    BY <1>1, <1>9
  <2> QED BY <1>17, <2>1
<1>r. \A s \in S : NoRepeat(p[s])
  <2> SUFFICES ASSUME NEW s \in S PROVE NoRepeat(p[s])
    OBVIOUS
  <2>1. p[s] = Ascending(U(s), n) /\ Len(p[s]) = n
    BY <1>15 DEF p
  <2>2. n \in 0 .. Cardinality(U(s)) /\ U(s) \subseteq Nat /\ IsFiniteSet(U(s))
    BY <1>8, <1>13
  <2>3. /\ \A j \in 1 .. n : p[s][j] = Kth(U(s), j)
        /\ \A j, k \in 1 .. n : Kth(U(s), j) = Kth(U(s), k) => j = k
    BY <2>1, <2>2, AscendingIs
  <2> QED BY <2>1, <2>3 DEF NoRepeat
<1>21. p \in Parts(b)
  BY <1>17, <1>18, <1>20, <1>r DEF Parts
<1>22. Indices(p) \in SUBSET D
  BY <1>17, <1>18, <1>19 DEF Indices
<1>23. ASSUME NEW m \in Indices(p)
       PROVE  /\ m \notin used
              /\ \A x \in D \ used : SeqAt(b, x) = SeqAt(b, m) /\ x < m => x \in Indices(p)
  <2>1. PICK s \in S : \E k \in 1 .. n : m = p[s][k]
    BY <1>15, <1>17, <1>23 DEF Indices, p
  <2>2. PICK k \in 1 .. n : m = p[s][k]
    BY <2>1
  <2>3. p[s] = Ascending(U(s), n) /\ DOMAIN p[s] = 1 .. n
    BY <1>15 DEF p
  <2>4. m \in U(s)
    BY <1>15, <2>2, <2>3
  <2>5. n \in 0 .. Cardinality(U(s)) /\ U(s) \subseteq Nat /\ IsFiniteSet(U(s))
    BY <1>8, <1>13
  <2>6. \A j \in 1 .. n : p[s][j] = Kth(U(s), j)
    BY <2>3, <2>5, AscendingIs
  <2>7. ASSUME NEW x \in D \ used, SeqAt(b, x) = SeqAt(b, m), x < m PROVE x \in Indices(p)
    <3>1. x \in U(s)
      BY <1>8, <1>n, <2>4, <2>7 DEF left
    <3>2. PICK j \in 1 .. n : Kth(U(s), j) = x
      BY <2>2, <2>5, <2>6, <2>7, <3>1, AscendingBelow
    <3>3. x = p[s][j]
      BY <2>6, <3>2
    <3>4. x \in {p[s][i] : i \in DOMAIN p[s]} /\ s \in DOMAIN p
      BY <1>17, <2>3, <3>3
    <3> QED BY <3>4 DEF Indices
  <2> QED BY <1>u, <2>4, <2>7
<1> QED BY <1>14, <1>21, <1>22, <1>23 DEF p

\* split_equal, again and again, takes places of the batch, those of a sequence in their order.
LEMMA EqualSplitIs ==
  ASSUME NEW b \in Batches, NStream > 1
  PROVE  EqualSplit(b) \in Seq(Parts(b)) /\ InTurn(b, EqualSplit(b))
<1> DEFINE N == Len(b)
           Taken(x) == \A p \in Places(b) :
                         p \in x.used <=> \E j \in 1 .. Len(x.parts) : p \in Indices(x.parts[j])
           M == {x \in [used : SUBSET DOMAIN b, parts : Seq(Parts(b))] :
                   InTurn(b, x.parts) /\ Taken(x)}
           T == [n \in 0 .. N |-> M]
           zero == [used |-> {}, parts |-> <<>>]
           step == [n \in 1 .. N |-> [m \in M |-> SplitOnce(b, m)]]
           F == CHOOSE f : f = [j \in 0 .. N |->
                  IF j = 0 THEN zero ELSE SplitOnce(b, f[j - 1])]
<1>0. N \in Nat /\ \A n \in 0 .. N : T[n] = M
  BY BatchIs
<1>1. \A n \in 1 .. N : n \in 0 .. N /\ n - 1 \in 0 .. N /\ T[n] = M /\ T[n - 1] = M
  <2> HIDE DEF N, M, T
  <2> QED BY <1>0
<1>2. \A x \in M : SplitOnce(b, x) \in M
  <2> SUFFICES ASSUME NEW x \in M PROVE SplitOnce(b, x) \in M
    OBVIOUS
  <2>1. x.used \in SUBSET DOMAIN b /\ x.parts \in Seq(Parts(b)) /\ InTurn(b, x.parts) /\ Taken(x)
    OBVIOUS
  <2>2. CASE x.used = DOMAIN b
    BY <2>2 DEF SplitOnce
  <2>3. CASE x.used # DOMAIN b
    <3> DEFINE part == EqualPart(b, x.used)
               N1 == Len(x.parts)
               all == Append(x.parts, part)
    <3>1. /\ part \in Parts(b) /\ Indices(part) \in SUBSET DOMAIN b
          /\ \A q \in Indices(part) :
               /\ q \notin x.used
               /\ \A p \in DOMAIN b \ x.used : SeqAt(b, p) = SeqAt(b, q) /\ p < q => p \in Indices(part)
      BY <2>1, <2>3, EqualPartIs
    <3>2. SplitOnce(b, x) = [used |-> x.used \cup Indices(part), parts |-> all]
      BY <2>3 DEF SplitOnce
    <3> HIDE DEF part
    <3>3. all \in Seq(Parts(b)) /\ x.used \cup Indices(part) \in SUBSET DOMAIN b
      BY <2>1, <3>1
    <3>4. /\ N1 \in Nat /\ Len(all) = N1 + 1 /\ all[N1 + 1] = part
          /\ \A l \in 1 .. N1 : all[l] = x.parts[l]
      BY <2>1, <3>1
    <3> HIDE DEF all, N1
    <3>5. \A l \in 1 .. N1 + 1 : l \in 1 .. N1 \/ l = N1 + 1
      BY <3>4
    <3>6. ASSUME NEW p \in Places(b)
          PROVE  p \in x.used \cup Indices(part) <=> \E l \in 1 .. Len(all) : p \in Indices(all[l])
      <4>1. p \in x.used <=> \E l \in 1 .. N1 : p \in Indices(x.parts[l])
        BY <2>1 DEF N1
      <4>2. \A l \in 1 .. N1 : l \in 1 .. N1 + 1
        BY <3>4
      <4>3. N1 + 1 \in 1 .. N1 + 1
        BY <3>4
      <4> QED BY <3>4, <3>5, <4>1, <4>2, <4>3
    <3>7. ASSUME NEW l \in 1 .. N1 + 1, NEW q \in Indices(all[l]), NEW p \in Places(b), Kin(b, p, q)
          PROVE  /\ p < q => \E j \in 1 .. l : p \in Indices(all[j])
                 /\ \A j \in 1 .. l - 1 : p \in Indices(all[j]) => p < q
      <4>1. CASE l \in 1 .. N1
        <5>1. \A j \in 1 .. l : j \in 1 .. N1
          BY <3>4, <4>1
        <5>2. \A j \in 1 .. l - 1 : j \in 1 .. N1
          BY <3>4, <4>1
        <5>3. q \in Indices(x.parts[l])
          BY <3>4, <4>1
        <5>4. /\ p < q => \E j \in 1 .. l : p \in Indices(x.parts[j])
              /\ \A j \in 1 .. l - 1 : p \in Indices(x.parts[j]) => p < q
          BY <2>1, <3>7, <4>1, <5>3 DEF InTurn, N1
        <5> QED BY <3>4, <5>1, <5>2, <5>4
      <4>2. CASE l = N1 + 1
        <5>1. q \in Indices(part) /\ q \in Places(b) /\ DOMAIN b = Places(b) /\ Places(b) \subseteq Nat
          BY <3>1, <3>4, <4>2, BatchIs DEF Places
        <5>2. SeqAt(b, p) = SeqAt(b, q)
          <6>1. b[p] = {SeqAt(b, p)} /\ b[q] = {SeqAt(b, q)}
            BY <5>1, KinIs DEF Places
          <6> QED BY <3>7, <6>1 DEF Kin
        <5>3. ASSUME p < q PROVE \E j \in 1 .. l : p \in Indices(all[j])
          <6>1. p \in x.used \/ p \in Indices(part)
            BY <3>1, <5>1, <5>2, <5>3
          <6> QED BY <3>4, <3>6, <4>2, <6>1
        <5>4. ASSUME NEW j \in 1 .. l - 1, p \in Indices(all[j]) PROVE p < q
          <6>1. j \in 1 .. N1 /\ all[j] = x.parts[j] /\ \A k \in 1 .. j : k \in 1 .. N1
            BY <3>4, <4>2
          <6>2. p \in x.used /\ q \notin x.used
            BY <2>1, <3>1, <5>1, <5>4, <6>1 DEF N1
          <6>3. Kin(b, q, p)
            BY <3>7 DEF Kin
          <6>4. q < p => \E k \in 1 .. j : q \in Indices(x.parts[k])
            BY <2>1, <5>1, <5>4, <6>1, <6>3 DEF InTurn, N1
          <6>5. ~(q < p)
            BY <2>1, <5>1, <6>1, <6>2, <6>4 DEF N1
          <6> QED BY <5>1, <6>2, <6>5
        <5> QED BY <5>3, <5>4
      <4> QED BY <3>5, <4>1, <4>2
    <3>8. InTurn(b, all)
      BY <3>4, <3>7 DEF InTurn
    <3> QED BY <3>2, <3>3, <3>6, <3>8
  <2> QED BY <2>2, <2>3
<1>3. \A n \in 1 .. N : \A x \in M : step[n][x] = SplitOnce(b, x)
  <2> HIDE DEF M, N
  <2> QED OBVIOUS
<1>4. zero \in T[0]
  <2>1. zero.parts = <<>> /\ zero.used = {} /\ Len(zero.parts) = 0
    OBVIOUS
  <2>2. InTurn(b, zero.parts) /\ Taken(zero)
    <3> HIDE DEF zero
    <3> QED BY <2>1 DEF InTurn
  <2>3. zero \in [used : SUBSET DOMAIN b, parts : Seq(Parts(b))]
    OBVIOUS
  <2> HIDE DEF zero, Taken
  <2>4. zero \in M
    BY <2>2, <2>3
  <2> QED BY <1>0, <2>4
<1>5. EqualSplit(b) = F[N].parts
  BY DEF EqualSplit
<1>m. \A x \in M : x.parts \in Seq(Parts(b)) /\ InTurn(b, x.parts)
  OBVIOUS
<1> HIDE DEF N, M, T, step, zero
<1>6. PICK f : Iterates(f, N, zero, step) /\ \A n \in 0 .. N : f[n] \in T[n]
  <2>1. \A n \in 1 .. N : \A x \in T[n - 1] : step[n][x] \in T[n]
    BY <1>1, <1>2, <1>3
  <2> QED BY <1>0, <1>4, <2>1, Iterated
<1>7. f = [k \in 0 .. N |-> IF k = 0 THEN zero ELSE SplitOnce(b, f[k - 1])]
  <2>1. f = [n \in 0 .. N |-> IF n = 0 THEN zero ELSE step[n][f[n - 1]]]
    BY <1>6 DEF Iterates
  <2>2. \A k \in 0 .. N : k # 0 => step[k][f[k - 1]] = SplitOnce(b, f[k - 1])
    <3>1. \A k \in 0 .. N : k # 0 => k \in 1 .. N
      BY <1>0
    <3> QED BY <1>1, <1>3, <1>6, <3>1
  <2> QED BY <2>1, <2>2
<1>8. F = [k \in 0 .. N |-> IF k = 0 THEN zero ELSE SplitOnce(b, F[k - 1])]
  BY <1>7
<1> HIDE DEF F
<1>9. \A n \in 0 .. N : F[n] \in T[n]
  <2>1. F[0] \in T[0]
    BY <1>8, <1>4, <1>0
  <2>2. \A n \in 1 .. N : F[n] = SplitOnce(b, F[n - 1])
    BY <1>8, <1>0
  <2>3. \A n \in 1 .. N : F[n - 1] \in T[n - 1] => F[n] \in T[n]
    BY <2>2, <1>1, <1>2
  <2> QED BY <1>0, <2>1, <2>3, Stays
<1>10. F[N] \in M
  BY <1>0, <1>9
<1> QED BY <1>5, <1>10, <1>m

\* Some positions have a largest one.
LEMMA GreatestPosition ==
  ASSUME NEW K \in SUBSET Positions, K # {}
  PROVE  \E p \in K : \A q \in K : p >= q
<1> DEFINE A == {MaxPos - p : p \in K}
<1>1. A \subseteq Nat /\ A # {}
  <2>1. K \subseteq Positions /\ MaxPos \in Nat /\ \A p \in Positions : MaxPos - p \in Nat
    BY CellsAssumption DEF Positions
  <2> QED BY <2>1
<1>2. PICK m \in A : \A k \in A : m <= k
  <2> HIDE DEF A
  <2> QED BY <1>1, LeastNat
<1>3. PICK p \in K : m = MaxPos - p
  BY <1>2
<1>4. ASSUME NEW q \in K PROVE p >= q
  <2>1. MaxPos - p <= MaxPos - q
    BY <1>2, <1>3
  <2>2. p \in Nat /\ q \in Nat /\ MaxPos \in Nat
    BY CellsAssumption DEF Positions
  <2> HIDE DEF A
  <2> QED BY <2>1, <2>2
<1> QED BY <1>4

\* The largest position of a sequence, if it has any.
LEMMA SeqPosMaxIs ==
  ASSUME NEW c, NEW s
  PROVE  /\ SeqPosMax(c, s) \in Positions \cup {-1}
         /\ Keys(c, s) = {} => SeqPosMax(c, s) = -1
         /\ Keys(c, s) # {} => /\ SeqPosMax(c, s) \in Keys(c, s)
                               /\ \A q \in Keys(c, s) : SeqPosMax(c, s) >= q
<1> DEFINE K == Keys(c, s)
<1>1. K \subseteq Positions
  BY DEF Keys
<1>2. CASE K = {}
  BY <1>2 DEF SeqPosMax
<1>3. CASE K # {}
  <2>1. \E p \in K : \A q \in K : p >= q
    <3> HIDE DEF K
    <3> QED BY <1>1, <1>3, GreatestPosition
  <2>2. SeqPosMax(c, s) = CHOOSE x \in K : \A q \in K : x >= q
    BY <1>3 DEF SeqPosMax
  <2> HIDE DEF K
  <2>3. SeqPosMax(c, s) \in K /\ \A q \in K : SeqPosMax(c, s) >= q
    BY <2>1, <2>2
  <2> QED BY <1>1, <1>3, <2>3 DEF K
<1> QED BY <1>2, <1>3

\* What a ubatch has, stream by stream and token by token.
LEMMA UbatchIs ==
  ASSUME NEW u \in UbatchSet
  PROVE  /\ DOMAIN u \subseteq Streams
         /\ \A st \in DOMAIN u :
              /\ u[st] \in Seq(Token) /\ Len(u[st]) \in Nat \ {0} /\ DOMAIN u[st] = 1 .. Len(u[st])
              /\ \A k \in 1 .. Len(u[st]) : u[st][k] \in Token /\ \A s \in u[st][k].seqs : Stream(s) = st
<1>1. PICK D \in SUBSET Streams : u \in [D -> NonEmpty(Token)]
  BY DEF UbatchSet
<1>2. DOMAIN u = D
  BY <1>1
<1>3. \A st \in D : u[st] \in Seq(Token) /\ Len(u[st]) > 0
  BY <1>1 DEF NonEmpty
<1>4. \A st \in D : \A k \in 1 .. Len(u[st]) : \A s \in u[st][k].seqs : Stream(s) = st
  BY <1>2 DEF UbatchSet
<1>5. \A st \in D : Len(u[st]) \in Nat \ {0} /\ DOMAIN u[st] = 1 .. Len(u[st])
                    /\ \A k \in 1 .. Len(u[st]) : u[st][k] \in Token
  BY <1>3
<1> QED BY <1>2, <1>3, <1>4, <1>5

\* Each token of a valid batch has a position in the cache.
LEMMA PosAtIs ==
  ASSUME NEW cs, NEW b \in Batches, ValidBatch(cs, b), NEW k \in Places(b)
  PROVE  PosAt(cs, b, k, SeqAt(b, k)) \in Positions
<1> DEFINE s == SeqAt(b, k)
           J == {j \in 1 .. k - 1 : s \in b[j]}
           m == SeqPosMax(cs[Stream(s)], s)
<1>1. k \in DOMAIN b /\ s \in b[k] /\ k \in Nat
  BY BatchIs DEF Places
<1>2. PosAt(cs, b, k, s) <= MaxPos
  BY <1>1 DEF ValidBatch
<1>3. m \in Positions \cup {-1}
  BY SeqPosMaxIs
<1>4. Cardinality(J) \in Nat
  <2>1. J \in SUBSET (1 .. k - 1)
    OBVIOUS
  <2>2. IsFiniteSet(1 .. k - 1)
    BY <1>1, FS_Interval
  <2> HIDE DEF J
  <2> QED BY <2>1, <2>2, FS_Subset, FS_CardinalityType
<1>5. PosAt(cs, b, k, s) = m + 1 + Cardinality(J)
  BY DEF PosAt, Before
<1> HIDE DEF s, m, J
<1>6. m \in Int /\ m >= -1 /\ MaxPos \in Nat
  BY <1>3, CellsAssumption DEF Positions
<1>7. PosAt(cs, b, k, s) \in Positions
  BY <1>2, <1>4, <1>5, <1>6 DEF Positions
<1> QED BY <1>7 DEF s

\* A decode works on well-formed ubatches.
LEMMA UbatchesAre ==
  ASSUME NEW cs, NEW b \in Batches, ValidBatch(cs, b), NEW t \in Toks
  PROVE  Ubatches(cs, b, t) \in Seq(UbatchSet)
<1> DEFINE split == IF NStream = 1 THEN SimpleSplit(b) ELSE EqualSplit(b)
           token(k) == [pos |-> PosAt(cs, b, k, SeqAt(b, k)), seqs |-> b[k], tok |-> t]
           row(p, st) == [k \in DOMAIN p[st] |-> token(p[st][k])]
           of(p) == [st \in DOMAIN p |-> row(p, st)]
<1>1. NStream \in {1, NSeqs} /\ NSeqs \in Nat \ {0}
  BY CacheAssumption, CellsAssumption
<1>2. split \in Seq(Parts(b))
  <2>1. CASE NStream = 1
    BY <2>1, SimpleSplitIs
  <2>2. CASE NStream # 1
    <3>1. NStream > 1
      BY <1>1, <2>2
    <3> QED BY <2>2, <3>1, EqualSplitIs
  <2> QED BY <2>1, <2>2
<1>3. \A k \in Places(b) : /\ token(k) \in Token /\ token(k).seqs = b[k]
  <2> SUFFICES ASSUME NEW k \in Places(b) PROVE token(k) \in Token /\ token(k).seqs = b[k]
    OBVIOUS
  <2>1. PosAt(cs, b, k, SeqAt(b, k)) \in Positions
    BY PosAtIs
  <2>2. b[k] \in SeqSet
    BY BatchIs DEF Places, SeqSet, Uncoupled
  <2> QED BY <2>1, <2>2 DEF Token
<1> HIDE DEF token
<1>4. ASSUME NEW p \in Parts(b) PROVE of(p) \in UbatchSet
  <2>1. PICK D \in SUBSET Streams : p \in [D -> NonEmpty(Places(b))]
    BY DEF Parts
  <2>2. DOMAIN p = D
    BY <2>1
  <2>3. \A st \in D : /\ p[st] \in Seq(Places(b)) /\ Len(p[st]) > 0
                      /\ DOMAIN p[st] = 1 .. Len(p[st])
                      /\ \A k \in 1 .. Len(p[st]) : p[st][k] \in Places(b)
    <3>1. \A st \in D : p[st] \in Seq(Places(b)) /\ Len(p[st]) > 0
      BY <2>1 DEF NonEmpty
    <3> QED BY <3>1
  <2>4. \A st \in D : /\ row(p, st) \in NonEmpty(Token) /\ Len(row(p, st)) = Len(p[st])
                      /\ \A k \in 1 .. Len(p[st]) : row(p, st)[k] = token(p[st][k])
    <3> SUFFICES ASSUME NEW st \in D
                 PROVE  /\ row(p, st) \in NonEmpty(Token) /\ Len(row(p, st)) = Len(p[st])
                        /\ \A k \in 1 .. Len(p[st]) : row(p, st)[k] = token(p[st][k])
      OBVIOUS
    <3>1. row(p, st) \in [1 .. Len(p[st]) -> Token] /\ Len(p[st]) \in Nat
      BY <1>3, <2>3
    <3>2. \A k \in 1 .. Len(p[st]) : row(p, st)[k] = token(p[st][k])
      BY <2>3
    <3> HIDE DEF row
    <3>3. row(p, st) \in Seq(Token) /\ Len(row(p, st)) = Len(p[st])
      BY <3>1
    <3> QED BY <2>3, <3>2, <3>3 DEF NonEmpty
  <2>5. ASSUME NEW st \in D, NEW k \in 1 .. Len(p[st]), NEW s \in b[p[st][k]]
        PROVE  Stream(s) = st
    <3>1. p[st][k] \in Places(b) /\ st \in Streams
      BY <2>3
    <3>2. CASE NStream = 1
      BY <3>1, <3>2 DEF Stream, Streams
    <3>3. CASE NStream # 1
      <4>1. NStream > 1
        BY <1>1, <3>3
      <4>2. SeqAt(b, p[st][k]) = st
        BY <2>2, <4>1 DEF Parts
      <4>3. b[p[st][k]] \in SeqSets /\ SeqAt(b, p[st][k]) \in b[p[st][k]] /\ b[p[st][k]] \subseteq Seqs
        BY <3>1, BatchIs DEF Places
      <4>4. Cardinality(b[p[st][k]]) = 1
        BY <4>1, <4>3, CacheAssumption
      <4>5. IsFiniteSet(b[p[st][k]])
        <5>1. IsFiniteSet(Seqs)
          BY CellsAssumption, FS_Interval DEF Seqs
        <5> QED BY <4>3, <5>1, FS_Subset
      <4>6. PICK x : b[p[st][k]] = {x}
        BY <4>4, <4>5, FS_Singleton
      <4> QED BY <3>3, <4>2, <4>3, <4>6 DEF Stream
    <3> QED BY <3>2, <3>3
  <2>6. of(p) \in [D -> NonEmpty(Token)] /\ DOMAIN of(p) = D /\ \A st \in D : of(p)[st] = row(p, st)
    BY <2>2, <2>4
  <2> HIDE DEF of, row
  <2>7. \A st \in D : \A k \in 1 .. Len(of(p)[st]) : \A s \in of(p)[st][k].seqs : Stream(s) = st
    <3> SUFFICES ASSUME NEW st \in D, NEW k \in 1 .. Len(of(p)[st]), NEW s \in of(p)[st][k].seqs
                 PROVE  Stream(s) = st
      OBVIOUS
    <3>1. k \in 1 .. Len(p[st]) /\ of(p)[st][k] = token(p[st][k])
      BY <2>4, <2>6
    <3>2. s \in b[p[st][k]]
      BY <1>3, <2>3, <3>1
    <3> QED BY <2>5, <3>1, <3>2
  <2> QED BY <2>6, <2>7 DEF UbatchSet
<1>5. Ubatches(cs, b, t) = [j \in DOMAIN split |-> of(split[j])]
  BY DEF Ubatches, token
<1> HIDE DEF split, of
<1>6. DOMAIN split = 1 .. Len(split) /\ Len(split) \in Nat
      /\ \A j \in 1 .. Len(split) : split[j] \in Parts(b)
  BY <1>2
<1>7. [j \in DOMAIN split |-> of(split[j])] \in [1 .. Len(split) -> UbatchSet]
  BY <1>4, <1>6
<1> QED BY <1>5, <1>6, <1>7

-----
(* Slots, and placing a ubatch in all streams. *)

\* What a slot for a ubatch has, stream by stream.
LEMMA SlotForIs ==
  ASSUME NEW u \in UbatchSet, NEW slot \in SlotFor(u)
  PROVE  /\ DOMAIN slot = DOMAIN u /\ DOMAIN slot \subseteq Streams /\ slot \in SlotSet
         /\ \A st \in DOMAIN slot :
              /\ slot[st] \in Idxs /\ Len(slot[st]) = Len(u[st]) /\ slot[st] # <<>>
              /\ CellsOf(slot[st]) \subseteq Cells /\ NoRepeat(slot[st])
              /\ Last(slot[st]) \in Cells
<1>1. slot \in [DOMAIN u -> Seq(Cells)] /\ DOMAIN slot = DOMAIN u
  BY DEF SlotFor
<1>2. DOMAIN u \in SUBSET Streams /\ \A st \in DOMAIN u : Len(u[st]) \in Nat \ {0}
  BY UbatchIs
<1>3. \A st \in DOMAIN u : /\ slot[st] \in Seq(Cells) /\ Len(slot[st]) = Len(u[st]) /\ Len(slot[st]) > 0
                           /\ NoRepeat(slot[st])
  BY <1>1, <1>2 DEF SlotFor
<1>4. \A st \in DOMAIN u : slot[st] \in NonEmpty(Cells)
  BY <1>3 DEF NonEmpty
<1>5. slot \in [DOMAIN u -> NonEmpty(Cells)]
  BY <1>1, <1>4
<1>6. slot \in SlotSet
  BY <1>2, <1>5 DEF SlotSet
<1>7. ASSUME NEW st \in DOMAIN u
      PROVE  /\ slot[st] # <<>> /\ CellsOf(slot[st]) \subseteq Cells /\ Last(slot[st]) \in Cells
  <2>1. slot[st] \in Seq(Cells) /\ Len(slot[st]) \in 1 .. Len(slot[st])
    BY <1>3
  <2> QED BY <2>1 DEF CellsOf, Last
<1> QED BY <1>1, <1>2, <1>3, <1>6, <1>7 DEF Idxs

\* The slot that is found has usable cells for the tokens of each stream.
LEMMA FindSlotIs ==
  ASSUME NEW cs \in CacheCells, NEW hs \in Heads, NEW u \in UbatchSet, Found(FindSlot(cs, hs, u))
  PROVE  /\ FindSlot(cs, hs, u) \in SlotFor(u)
         /\ AllUsable(cs, FindSlot(cs, hs, u))
<1> DEFINE slot == FindSlot(cs, hs, u)
<1>1. /\ slot = [st \in DOMAIN u |-> FindCells(cs[st], hs[st], Len(u[st]))]
      /\ DOMAIN slot = DOMAIN u
  BY DEF FindSlot
<1>2. ASSUME NEW st \in DOMAIN u
      PROVE  /\ slot[st] \in Seq(Cells) /\ Len(slot[st]) = Len(u[st]) /\ NoRepeat(slot[st])
             /\ \A i \in CellsOf(slot[st]) : CanUse(cs[st], i)
  <2>1. slot[st] = FindCells(cs[st], hs[st], Len(u[st])) /\ slot[st] # <<>>
    BY <1>1 DEF Found
  <2>2. hs[st] \in 0 .. NCells /\ Len(u[st]) \in Nat \ {0}
    BY UbatchIs DEF Heads
  <2> HIDE DEF slot
  <2>3. /\ slot[st] \in Idxs /\ Len(slot[st]) = Len(u[st])
        /\ \A k \in 1 .. Len(u[st]) : CanUse(cs[st], slot[st][k])
        /\ \A j, k \in 1 .. Len(u[st]) : slot[st][j] = slot[st][k] => j = k
    <3> DEFINE c == cs[st]
               head == hs[st]
               n == Len(u[st])
    <3>1. head \in 0 .. NCells /\ n \in Nat \ {0}
      BY <2>2
    <3>0. slot[st] = FindCells(c, head, n)
      BY <2>1
    <3> HIDE DEF c, head, n
    <3>2. FindCells(c, head, n) # <<>>
      BY <2>1, <3>0
    <3>3. /\ FindCells(c, head, n) \in Idxs /\ Len(FindCells(c, head, n)) = n
          /\ \A k \in 1 .. n : CanUse(c, FindCells(c, head, n)[k])
          /\ \A j, k \in 1 .. n : FindCells(c, head, n)[j] = FindCells(c, head, n)[k] => j = k
      BY <3>1, <3>2, FindCellsIs
    <3>4. /\ slot[st] \in Idxs /\ Len(slot[st]) = n
          /\ \A k \in 1 .. n : CanUse(c, slot[st][k])
          /\ \A j, k \in 1 .. n : slot[st][j] = slot[st][k] => j = k
      BY <3>0, <3>3
    <3> QED BY <3>4 DEF c, n
  <2>4. DOMAIN slot[st] = 1 .. Len(u[st])
    BY <2>3 DEF Idxs
  <2>5. NoRepeat(slot[st])
    BY <2>3 DEF NoRepeat
  <2> QED BY <2>3, <2>4, <2>5 DEF Idxs, CellsOf
<1> HIDE DEF slot
<1>3. slot \in [DOMAIN u -> Seq(Cells)]
  <2>1. slot = [st \in DOMAIN u |-> slot[st]]
    BY <1>1
  <2> QED BY <1>2, <2>1
<1>4. slot \in SlotFor(u) /\ AllUsable(cs, slot)
  BY <1>1, <1>2, <1>3 DEF SlotFor, AllUsable
<1> QED BY <1>4 DEF slot

\* Placing a ubatch leaves exact summaries; the cells of its slot are not
\* shifted, and the other ones lose at most sequences.
LEMMA ApplyIs ==
  ASSUME NEW cs \in CacheCells, NEW u \in UbatchSet, NEW slot \in SlotFor(u)
  PROVE  LET new == ApplyCells(cs, slot, u)
         IN  /\ new \in CacheCells
             /\ \A st \in Streams : \A i \in Cells :
                  /\ new[st].shift[i] \in {0, cs[st].shift[i]}
                  /\ InSlot(slot, st, i) => new[st].shift[i] = 0
                  /\ ~InSlot(slot, st, i) =>
                       /\ CellLess(new[st], cs[st], i)
                       /\ new[st].pos[i] # -1 => new[st].shift[i] = cs[st].shift[i]
                  /\ InSlot(slot, st, i) =>
                       /\ new[st].seq[i] \subseteq AtCell(slot[st], u[st], i).seqs
                       /\ new[st].pos[i] \in {-1, AtCell(slot[st], u[st], i).pos}
             /\ \A st \in Streams : new[st].has_shift = cs[st].has_shift
<1> DEFINE new == ApplyCells(cs, slot, u)
<1>1. cs \in [Streams -> GoodCells]
      /\ \A st \in Streams : Good(cs[st])
           /\ \A i \in Cells : \A s \in cs[st].seq[i] : Stream(s) = st
  BY GoodIs DEF CacheCells
<1>2. \A st \in Streams : new[st] = IF st \in DOMAIN u THEN Placed(cs[st], slot[st], u[st]) ELSE cs[st]
  BY DEF ApplyCells
<1>3. DOMAIN new = Streams /\ new = [st \in Streams |-> new[st]]
  BY DEF ApplyCells
<1> HIDE DEF new
<1>4. ASSUME NEW st \in Streams
      PROVE  /\ new[st] \in GoodCells
             /\ \A i \in Cells : \A s \in new[st].seq[i] : Stream(s) = st
             /\ \A i \in Cells :
                  /\ new[st].shift[i] \in {0, cs[st].shift[i]}
                  /\ InSlot(slot, st, i) => new[st].shift[i] = 0
                  /\ ~InSlot(slot, st, i) =>
                       /\ CellLess(new[st], cs[st], i)
                       /\ new[st].pos[i] # -1 => new[st].shift[i] = cs[st].shift[i]
                  /\ InSlot(slot, st, i) =>
                       /\ new[st].seq[i] \subseteq AtCell(slot[st], u[st], i).seqs
                       /\ new[st].pos[i] \in {-1, AtCell(slot[st], u[st], i).pos}
             /\ new[st].has_shift = cs[st].has_shift
  <2>1. CASE st \notin DOMAIN u
    <3>1. new[st] = cs[st] /\ \A i \in Cells : ~InSlot(slot, st, i)
      BY <1>2, <2>1, SlotForIs DEF InSlot
    <3>2. \A i \in Cells : CellLess(cs[st], cs[st], i)
      BY DEF CellLess
    <3> QED BY <1>1, <3>1, <3>2
  <2>2. CASE st \in DOMAIN u
    <3> DEFINE c == cs[st]
               q == slot[st]
               d == Placed(c, q, u[st])
    <3>1. /\ q \in Idxs /\ u[st] \in Seq(Token) /\ Len(u[st]) = Len(q) /\ Good(c)
          /\ \A k \in 1 .. Len(u[st]) : \A s \in u[st][k].seqs : Stream(s) = st
          /\ \A i \in Cells : \A s \in c.seq[i] : Stream(s) = st
          /\ st \in DOMAIN slot
      BY <1>1, <2>2, SlotForIs, UbatchIs
    <3>2. new[st] = d
      BY <1>2, <2>2
    <3> HIDE DEF c, q, d
    <3>3. PlacedIn(d, c, q, u[st])
      BY <3>1, PlacedGood DEF d
    <3>4. d \in GoodCells /\ d.has_shift = c.has_shift
      BY <3>3, GoodIs DEF PlacedIn
    <3>5. \A i \in CellsOf(q) : \A s \in AtCell(q, u[st], i).seqs : Stream(s) = st
      <4> SUFFICES ASSUME NEW i \in CellsOf(q) PROVE \A s \in AtCell(q, u[st], i).seqs : Stream(s) = st
        OBVIOUS
      <4>1. PICK k \in 1 .. Len(q) : AtCell(q, u[st], i) = u[st][k]
        BY <3>1, AtCellIs
      <4> QED BY <3>1, <4>1
    <3>6. \A i \in Cells : \A s \in d.seq[i] : Stream(s) = st
      BY <3>1, <3>3, <3>5 DEF PlacedIn
    <3>7. \A i \in Cells : InSlot(slot, st, i) <=> i \in CellsOf(q)
      BY <3>1 DEF InSlot, q
    <3>8. ASSUME NEW i \in Cells
          PROVE  /\ d.shift[i] \in {0, c.shift[i]}
                 /\ InSlot(slot, st, i) => d.shift[i] = 0
                 /\ ~InSlot(slot, st, i) => CellLess(d, c, i)
                 /\ ~InSlot(slot, st, i) => (d.pos[i] # -1 => d.shift[i] = c.shift[i])
                 /\ InSlot(slot, st, i) => d.seq[i] \subseteq AtCell(q, u[st], i).seqs
                 /\ InSlot(slot, st, i) => d.pos[i] \in {-1, AtCell(q, u[st], i).pos}
      BY <3>3, <3>7 DEF PlacedIn, CellLess, IsEmpty
    <3>9. /\ new[st] \in GoodCells /\ new[st].has_shift = cs[st].has_shift
          /\ \A i \in Cells : \A s \in new[st].seq[i] : Stream(s) = st
      BY <3>2, <3>4, <3>6 DEF c
    <3>10. \A i \in Cells :
                 /\ new[st].shift[i] \in {0, cs[st].shift[i]}
                 /\ InSlot(slot, st, i) => new[st].shift[i] = 0
                 /\ ~InSlot(slot, st, i) => CellLess(new[st], cs[st], i)
                 /\ ~InSlot(slot, st, i) => (new[st].pos[i] # -1 => new[st].shift[i] = cs[st].shift[i])
                 /\ InSlot(slot, st, i) => new[st].seq[i] \subseteq AtCell(slot[st], u[st], i).seqs
                 /\ InSlot(slot, st, i) => new[st].pos[i] \in {-1, AtCell(slot[st], u[st], i).pos}
      BY <3>2, <3>8 DEF c, q
    <3> QED BY <3>9, <3>10
  <2> QED BY <2>1, <2>2
<1>5. new \in CacheCells
  BY <1>3, <1>4 DEF CacheCells
<1> QED BY <1>4, <1>5 DEF new

\* The heads after a ubatch.
LEMMA ApplyHeadsIs ==
  ASSUME NEW hs \in Heads, NEW u \in UbatchSet, NEW slot \in SlotFor(u)
  PROVE  ApplyHeads(hs, slot) \in Heads
<1>1. ASSUME NEW st \in Streams
      PROVE  (IF st \in DOMAIN slot THEN Last(slot[st]) + 1 ELSE hs[st]) \in 0 .. NCells
  <2>1. CASE st \in DOMAIN slot
    <3>1. Last(slot[st]) \in 0 .. NCells - 1
      BY <2>1, SlotForIs DEF Cells
    <3> QED BY <2>1, <3>1, CellsAssumption
  <2>2. CASE st \notin DOMAIN slot
    BY <2>2 DEF Heads
  <2> QED BY <2>1, <2>2
<1> QED BY <1>1 DEF ApplyHeads, Heads

\* Over empty cells, apply_ubatch places the tokens and purges nothing.
LEMMA PlacedOnEmpty ==
  ASSUME NEW c, Good(c), NEW idxs \in Idxs, NEW toks \in Seq(Token), Len(toks) = Len(idxs),
         \A i \in CellsOf(idxs) : IsEmpty(c, i)
  PROVE  \A i \in Cells :
           LET in == i \in CellsOf(idxs)
               d  == Placed(c, idxs, toks)
           IN  /\ d.pos[i] = IF in THEN AtCell(idxs, toks, i).pos ELSE c.pos[i]
               /\ d.seq[i] = IF in THEN AtCell(idxs, toks, i).seqs ELSE c.seq[i]
<1> DEFINE b == Laid(c, idxs, toks)
           up == UpTo(c, idxs)
           d == Placed(c, idxs, toks)
<1>1. /\ Good(b)
      /\ \A i \in Cells :
           /\ b.pos[i] = IF i \in CellsOf(idxs) THEN AtCell(idxs, toks, i).pos ELSE c.pos[i]
           /\ b.seq[i] = IF i \in CellsOf(idxs) THEN AtCell(idxs, toks, i).seqs ELSE c.seq[i]
  BY LaidIs
<1>2. d = Purged(b, up)
  BY PlacedIs
<1>3. \A s \in Seqs : up[s] = -1
  <2>1. Over(c, idxs) = {}
    BY DEF Over
  <2>2. \A s \in Seqs : LostUpTo(c, {}, s) = -1
    BY DEF LostUpTo
  <2> QED BY <2>1, <2>2 DEF UpTo
<1> HIDE DEF b, up, d
<1>4. \A i \in Cells : b.seq[i] \in SUBSET Seqs /\ (b.seq[i] # {} => b.pos[i] \in Nat)
  <2>1. b \in CellsType /\ Exact(b)
    BY <1>1 DEF Good
  <2>2. \A i \in Cells : b.seq[i] \in SUBSET Seqs /\ b.pos[i] \in Positions \cup {-1}
    BY <2>1 DEF CellsType
  <2>3. \A i \in Cells : b.seq[i] # {} => b.pos[i] # -1
    BY <2>1 DEF Exact, IsEmpty
  <2> QED BY <2>2, <2>3, CellsAssumption DEF Positions
<1>5. \A i \in Cells : Gone(b, up)[i] = {}
  <2>1. \A i \in Cells : \A s \in b.seq[i] : ~(b.pos[i] <= up[s])
    BY <1>3, <1>4
  <2> QED BY <2>1 DEF Gone
<1>6. PurgedOut(b, up) = {}
  BY <1>5 DEF PurgedOut
<1>7. b \in CellsType
  BY <1>1 DEF Good
<1>8. /\ \A i \in Cells :
           /\ Purged(b, up).pos[i] = IF i \in PurgedOut(b, up) THEN -1 ELSE b.pos[i]
           /\ Purged(b, up).shift[i] = IF i \in PurgedOut(b, up) THEN 0 ELSE b.shift[i]
           /\ Purged(b, up).seq[i] = b.seq[i] \ Gone(b, up)[i]
      /\ Purged(b, up).has_shift = b.has_shift
  BY <1>7, PurgedFields
<1>9. \A i \in Cells : d.pos[i] = b.pos[i] /\ d.seq[i] = b.seq[i]
  BY <1>2, <1>5, <1>6, <1>8
<1>10. \A i \in Cells :
           /\ d.pos[i] = IF i \in CellsOf(idxs) THEN AtCell(idxs, toks, i).pos ELSE c.pos[i]
           /\ d.seq[i] = IF i \in CellsOf(idxs) THEN AtCell(idxs, toks, i).seqs ELSE c.seq[i]
  BY <1>1, <1>9
<1> QED BY <1>10 DEF d

\* Without a window, a ubatch fills the empty cells of its slot and leaves the
\* positions and sequences of all other cells alone.
LEMMA AppliedToEmpty ==
  ASSUME NSwa = 0, NEW cs \in CacheCells, NEW u \in UbatchSet, NEW slot \in SlotFor(u),
         AllUsable(cs, slot), NEW st \in Streams, NEW i \in Cells
  PROVE  LET new == ApplyCells(cs, slot, u)
         IN  /\ InSlot(slot, st, i) => IsEmpty(cs[st], i) /\ ~IsEmpty(new[st], i)
             /\ ~InSlot(slot, st, i) =>
                  new[st].pos[i] = cs[st].pos[i] /\ new[st].seq[i] = cs[st].seq[i]
<1> DEFINE new == ApplyCells(cs, slot, u)
<1>1. new[st] = IF st \in DOMAIN u THEN Placed(cs[st], slot[st], u[st]) ELSE cs[st]
  BY DEF ApplyCells
<1>2. DOMAIN slot = DOMAIN u
  BY SlotForIs
<1> HIDE DEF new
<1>3. CASE st \notin DOMAIN u
  BY <1>1, <1>2, <1>3 DEF InSlot, new
<1>4. CASE st \in DOMAIN u
  <2> DEFINE c == cs[st]
             idxs == slot[st]
             toks == u[st]
  <2>1. idxs \in Idxs /\ toks \in Seq(Token) /\ Len(toks) = Len(idxs)
    BY <1>2, <1>4, SlotForIs, UbatchIs
  <2>2. Good(c)
    <3> Good(cs[st])
      BY GoodIs DEF CacheCells
    <3> QED OBVIOUS
  <2>3. \A j \in CellsOf(idxs) : IsEmpty(c, j)
    BY <1>2, <1>4 DEF AllUsable, CanUse, MaskedSwa
  <2>4. new[st] = Placed(c, idxs, toks) /\ (InSlot(slot, st, i) <=> i \in CellsOf(idxs))
    BY <1>1, <1>2, <1>4 DEF InSlot
  <2> HIDE DEF c, idxs, toks
  <2>5. /\ new[st].pos[i] = IF i \in CellsOf(idxs) THEN AtCell(idxs, toks, i).pos ELSE c.pos[i]
        /\ new[st].seq[i] = IF i \in CellsOf(idxs) THEN AtCell(idxs, toks, i).seqs ELSE c.seq[i]
    BY <2>1, <2>2, <2>3, <2>4, PlacedOnEmpty
  <2>6. CASE i \in CellsOf(idxs)
    <3>1. AtCell(idxs, toks, i) \in Token
      BY <2>1, <2>6, AtCellIs
    <3>2. AtCell(idxs, toks, i).pos \in Positions
      BY <3>1, TokenFields
    <3>3. new[st].pos[i] # -1
      BY <2>5, <2>6, <3>2, CellsAssumption DEF Positions
    <3> QED BY <2>3, <2>4, <2>6, <3>3 DEF IsEmpty, new, c
  <2>7. CASE i \notin CellsOf(idxs)
    BY <2>4, <2>5, <2>7 DEF new, c
  <2> QED BY <2>6, <2>7
<1> QED BY <1>3, <1>4

-----
(* Undoing one ubatch. *)

\* The cells of a slot.
LEMMA SlotCells ==
  ASSUME NEW slot \in SlotSet
  PROVE  /\ DOMAIN slot \subseteq Streams
         /\ \A st \in DOMAIN slot : CellsOf(slot[st]) \subseteq Cells
<1>1. PICK D \in SUBSET Streams : slot \in [D -> NonEmpty(Cells)]
  BY DEF SlotSet
<1>2. DOMAIN slot = D
  BY <1>1
<1>3. ASSUME NEW st \in D PROVE CellsOf(slot[st]) \subseteq Cells
  <2>1. slot[st] \in Seq(Cells)
    BY <1>1 DEF NonEmpty
  <2> QED BY <2>1 DEF CellsOf
<1> QED BY <1>2, <1>3

\* The cells of one stream of a cache.
LEMMA CacheCellsIs ==
  ASSUME NEW cs
  PROVE  cs \in CacheCells <=>
           /\ DOMAIN cs = Streams /\ cs = [st \in Streams |-> cs[st]]
           /\ \A st \in Streams : Good(cs[st]) /\ \A i \in Cells : \A s \in cs[st].seq[i] : Stream(s) = st
<1>1. ASSUME cs \in CacheCells
      PROVE  /\ DOMAIN cs = Streams /\ cs = [st \in Streams |-> cs[st]]
             /\ \A st \in Streams : Good(cs[st]) /\ \A i \in Cells : \A s \in cs[st].seq[i] : Stream(s) = st
  BY <1>1, GoodIs DEF CacheCells
<1>2. ASSUME DOMAIN cs = Streams, cs = [st \in Streams |-> cs[st]],
             \A st \in Streams : Good(cs[st]) /\ \A i \in Cells : \A s \in cs[st].seq[i] : Stream(s) = st
      PROVE  cs \in CacheCells
  <2>1. \A st \in Streams : cs[st] \in GoodCells
    BY <1>2, GoodIs
  <2>2. cs \in [Streams -> GoodCells]
    BY <1>2, <2>1
  <2> QED BY <1>2, <2>2 DEF CacheCells
<1> QED BY <1>1, <1>2

\* Undoing an entry puts back the positions and sequences of the cells of its
\* slot, if these are not shifted.
LEMMA UndoIs ==
  ASSUME NEW acc \in Half, NEW e \in Entry, Unshifted(acc.cs, e.slot)
  PROVE  LET a == Undo(acc, e)
         IN  /\ a \in Half
             /\ \A st \in Streams :
                  /\ \A i \in Cells :
                       LET in == InSlot(e.slot, st, i)
                       IN  /\ a.cs[st].pos[i] = IF in THEN e.cs[st].pos[i] ELSE acc.cs[st].pos[i]
                           /\ a.cs[st].seq[i] = IF in THEN e.cs[st].seq[i] ELSE acc.cs[st].seq[i]
                           /\ a.cs[st].shift[i] = acc.cs[st].shift[i]
                  /\ a.cs[st].has_shift = acc.cs[st].has_shift
<1> DEFINE a == Undo(acc, e)
           new(st) == IF st \in DOMAIN e.slot
                      THEN SetCells(acc.cs[st], CellsOf(e.slot[st]), e.cs[st]) ELSE acc.cs[st]
           head(st) == IF st \in DOMAIN e.slot THEN e.hs[Nth(e.slot, st)] ELSE acc.hs[st]
<1>1. /\ acc.cs \in CacheCells /\ acc.hs \in Heads
      /\ e.slot \in SlotSet /\ e.cs \in CacheCells /\ e.hs \in Heads
  BY DEF Half, Entry
<1>2. a = [cs |-> [st \in Streams |-> new(st)], hs |-> [st \in Streams |-> head(st)]]
  BY DEF Undo
<1> HIDE DEF a
<1>3. ASSUME NEW st \in Streams
      PROVE  /\ Good(new(st)) /\ \A i \in Cells : \A s \in new(st).seq[i] : Stream(s) = st
             /\ \A i \in Cells :
                       LET in == InSlot(e.slot, st, i)
                       IN  /\ new(st).pos[i] = IF in THEN e.cs[st].pos[i] ELSE acc.cs[st].pos[i]
                           /\ new(st).seq[i] = IF in THEN e.cs[st].seq[i] ELSE acc.cs[st].seq[i]
                           /\ new(st).shift[i] = acc.cs[st].shift[i]
             /\ new(st).has_shift = acc.cs[st].has_shift
  <2> DEFINE c == acc.cs[st]
             old == e.cs[st]
             I == CellsOf(e.slot[st])
  <2>1. /\ Good(c) /\ \A i \in Cells : \A s \in c.seq[i] : Stream(s) = st
        /\ Good(old) /\ \A i \in Cells : \A s \in old.seq[i] : Stream(s) = st
    BY <1>1, CacheCellsIs
  <2>2. CASE st \notin DOMAIN e.slot
    BY <2>1, <2>2 DEF InSlot
  <2>3. CASE st \in DOMAIN e.slot
    <3>1. I \in SUBSET Cells /\ \A i \in I : c.shift[i] = 0
      BY <1>1, <2>3, SlotCells DEF Unshifted
    <3>2. \A i \in Cells : InSlot(e.slot, st, i) <=> i \in I
      BY <2>3 DEF InSlot
    <3>3. new(st) = SetCells(c, I, old) /\ c \in CellsType
      BY <2>1, <2>3 DEF Good
    <3> HIDE DEF new, c, old, I
    <3>4. Good(SetCells(c, I, old))
      BY <2>1, <3>1, SetGood
    <3>5. \A i \in Cells :
            LET d == SetCells(c, I, old)
            IN  /\ d.pos[i] = IF i \in I THEN old.pos[i] ELSE c.pos[i]
                /\ d.seq[i] = IF i \in I THEN old.seq[i] ELSE c.seq[i]
                /\ d.shift[i] = c.shift[i]
      BY <3>1, <3>3, SetFields
    <3>6. SetCells(c, I, old).has_shift = c.has_shift
      BY <3>3 DEF SetCells, CellsType
    <3>7. \A i \in Cells : \A s \in new(st).seq[i] : Stream(s) = st
      BY <2>1, <3>3, <3>5
    <3> QED BY <3>2, <3>3, <3>4, <3>5, <3>6, <3>7 DEF c, old
  <2> QED BY <2>2, <2>3
<1>4. ASSUME NEW st \in Streams PROVE head(st) \in 0 .. NCells
  <2>1. CASE st \notin DOMAIN e.slot
    BY <1>1, <2>1 DEF Heads
  <2>2. CASE st \in DOMAIN e.slot
    <3>1. Nth(e.slot, st) \in Streams
      <4> DEFINE B == {r \in DOMAIN e.slot : r < st}
      <4>1. st \in Nat /\ st < NStream /\ NStream \in Nat
        BY CacheAssumption, CellsAssumption DEF Streams
      <4>2. \A r \in DOMAIN e.slot : r \in Nat
        BY <1>1, SlotCells DEF Streams
      <4>3. B \subseteq 0 .. st - 1
        BY <4>1, <4>2
      <4>4. IsFiniteSet(0 .. st - 1) /\ Cardinality(0 .. st - 1) = st
        <5>1. 0 \in Int /\ st - 1 \in Int
          BY <4>1
        <5>2. /\ IsFiniteSet(0 .. st - 1)
              /\ Cardinality(0 .. st - 1) = IF 0 > st - 1 THEN 0 ELSE (st - 1) - 0 + 1
          BY <5>1, FS_Interval
        <5> QED BY <4>1, <5>2
      <4> HIDE DEF B
      <4>5. Cardinality(B) \in Nat /\ Cardinality(B) <= st
        BY <4>3, <4>4, FS_Subset, FS_CardinalityType
      <4>6. Nth(e.slot, st) = Cardinality(B)
        BY DEF Nth, B
      <4> QED BY <4>1, <4>5, <4>6 DEF Streams
    <3> QED BY <1>1, <2>2, <3>1 DEF Heads
  <2> QED BY <2>1, <2>2
<1> HIDE DEF new, head
<1>5. /\ a.cs = [st \in Streams |-> new(st)] /\ a.hs = [st \in Streams |-> head(st)]
      /\ a = [cs |-> a.cs, hs |-> a.hs]
  BY <1>2
<1>6. a.cs \in CacheCells
  <2>1. \A st \in Streams : a.cs[st] = new(st)
    BY <1>5
  <2>2. DOMAIN a.cs = Streams /\ a.cs = [st \in Streams |-> a.cs[st]]
    BY <1>5
  <2> QED BY <1>3, <2>1, <2>2, CacheCellsIs
<1>7. a.hs \in Heads
  BY <1>4, <1>5 DEF Heads
<1>8. a \in Half
  BY <1>5, <1>6, <1>7 DEF Half
<1> QED BY <1>3, <1>5, <1>8 DEF a

\* The cells are no more than themselves.
LEMMA LessSelf == ASSUME NEW cs PROVE Less(cs, cs)
BY DEF Less, CellLess

\* Less of less is less.
LEMMA CellLessTrans ==
  ASSUME NEW a, NEW b, NEW c, NEW i, CellLess(a, b, i), CellLess(b, c, i)
  PROVE  CellLess(a, c, i)
BY DEF CellLess

\* What undoing a placement leaves is less than what was there before.
LEMMA UndoLess ==
  ASSUME NEW acc \in Half, NEW e \in Entry, Unshifted(acc.cs, e.slot),
         NEW u \in UbatchSet, e.slot \in SlotFor(u), AllUsable(e.cs, e.slot),
         Less(acc.cs, ApplyCells(e.cs, e.slot, u))
  PROVE  Less(Undo(acc, e).cs, e.cs)
<1> DEFINE a == Undo(acc, e).cs
           b == acc.cs
           n == ApplyCells(e.cs, e.slot, u)
           c == e.cs
<1>1. \A st \in Streams :
        /\ \A i \in Cells :
             LET in == InSlot(e.slot, st, i)
             IN  /\ a[st].pos[i] = IF in THEN c[st].pos[i] ELSE b[st].pos[i]
                 /\ a[st].seq[i] = IF in THEN c[st].seq[i] ELSE b[st].seq[i]
                 /\ a[st].shift[i] = b[st].shift[i]
        /\ a[st].has_shift = b[st].has_shift
  BY UndoIs
<1>2. c \in CacheCells
  BY DEF Entry
<1>3. /\ \A st \in Streams : \A i \in Cells :
           /\ InSlot(e.slot, st, i) => n[st].shift[i] = 0
           /\ ~InSlot(e.slot, st, i) => CellLess(n[st], c[st], i)
      /\ \A st \in Streams : n[st].has_shift = c[st].has_shift
  BY <1>2, ApplyIs
<1>4. \A st \in Streams : b[st].has_shift = n[st].has_shift /\ \A i \in Cells : CellLess(b[st], n[st], i)
  BY DEF Less
<1> HIDE DEF a, b, c, n
<1>5. ASSUME NEW st \in Streams, NEW i \in Cells PROVE CellLess(a[st], c[st], i)
  <2>1. CASE ~InSlot(e.slot, st, i)
    <3>1. CellLess(b[st], c[st], i)
      BY <1>3, <1>4, <2>1, CellLessTrans
    <3> QED BY <1>1, <2>1, <3>1 DEF CellLess
  <2>2. CASE InSlot(e.slot, st, i)
    <3>1. b[st].shift[i] = 0
      BY <1>3, <1>4, <2>2 DEF CellLess
    <3>2. NSwa = 0 => c[st].pos[i] = -1
      BY <2>2 DEF AllUsable, CanUse, MaskedSwa, InSlot, IsEmpty, c
    <3> QED BY <1>1, <2>2, <3>1, <3>2 DEF CellLess
  <2> QED BY <2>1, <2>2
<1> QED BY <1>1, <1>3, <1>4, <1>5 DEF Less, a, c

-----
(* The trial placement of prepare. *)

\* The fields of what prepare keeps.
LEMMA AccSetIs ==
  ASSUME NEW acc \in AccSet
  PROVE  /\ acc.ok \in BOOLEAN /\ acc.cs \in CacheCells /\ acc.hs \in Heads
         /\ acc.stack \in Seq(Entry) /\ Len(acc.stack) \in Nat
         /\ \A k \in 1 .. Len(acc.stack) :
              /\ acc.stack[k] \in Entry
              /\ acc.stack[k].slot \in SlotSet /\ acc.stack[k].cs \in CacheCells
              /\ acc.stack[k].hs \in Heads
<1>1. /\ acc.ok \in BOOLEAN /\ acc.cs \in CacheCells /\ acc.hs \in Heads
      /\ acc.stack \in Seq(Entry)
  BY DEF AccSet
<1>2. Len(acc.stack) \in Nat /\ \A k \in 1 .. Len(acc.stack) : acc.stack[k] \in Entry
  BY <1>1
<1>3. \A e \in Entry : e.slot \in SlotSet /\ e.cs \in CacheCells /\ e.hs \in Heads
  BY DEF Entry
<1> QED BY <1>1, <1>2, <1>3

\* A sequence with one more in front.
LEMMA InFront ==
  ASSUME NEW X, NEW e \in X, NEW q \in Seq(X)
  PROVE  LET r == <<e>> \o q
         IN  /\ r \in Seq(X) /\ Len(r) = Len(q) + 1 /\ r[1] = e
             /\ \A k \in 2 .. Len(q) + 1 : r[k] = q[k - 1]
OBVIOUS

\* Trying one more ubatch.
LEMMA TryUbatchIs ==
  ASSUME NEW first, NEW us \in Seq(UbatchSet), NEW n \in 1 .. Len(us),
         NEW acc \in Accs(first, us, n - 1)
  PROVE  TryUbatch(acc, us[n]) \in Accs(first, us, n)
<1> DEFINE u == us[n]
           slot == FindSlot(acc.cs, acc.hs, u)
           e == [slot |-> slot, cs |-> acc.cs, hs |-> acc.hs]
           a == TryUbatch(acc, u)
           m == Len(acc.stack)
<1>1. /\ acc \in AccSet /\ n \in Nat \ {0} /\ u \in UbatchSet
      /\ m <= n - 1
      /\ acc.ok => m = n - 1
      /\ Back(acc, m) = first
      /\ \A k \in 1 .. m : Link(acc, us, k)
  BY DEF Accs
<1>2. /\ acc.cs \in CacheCells /\ acc.hs \in Heads /\ acc.stack \in Seq(Entry) /\ m \in Nat
      /\ acc.ok \in BOOLEAN
  BY <1>1, AccSetIs
<1>3. CASE ~acc.ok \/ ~Found(slot)
  <2>1. a = [acc EXCEPT !.ok = FALSE]
    BY <1>3 DEF TryUbatch
  <2> HIDE DEF a, slot, e, u
  <2>2. a \in AccSet /\ a.ok = FALSE /\ a.cs = acc.cs /\ a.stack = acc.stack
    BY <1>1, <2>1 DEF AccSet
  <2>3. \A k \in 1 .. m : Link(a, us, k)
    BY <1>1, <2>2 DEF Link, Back
  <2>4. Back(a, m) = first
    BY <1>1, <2>2 DEF Back
  <2> QED BY <1>1, <1>2, <2>2, <2>3, <2>4 DEF Accs, a, u
<1>4. CASE acc.ok /\ Found(slot)
  <2>1. a = [ok |-> TRUE, cs |-> ApplyCells(acc.cs, slot, u), hs |-> ApplyHeads(acc.hs, slot),
             stack |-> <<e>> \o acc.stack]
    BY <1>4 DEF TryUbatch
  <2>2. slot \in SlotFor(u) /\ AllUsable(acc.cs, slot)
    <3>1. Found(FindSlot(acc.cs, acc.hs, u))
      BY <1>4
    <3> HIDE DEF u
    <3> QED BY <1>1, <1>2, <3>1, FindSlotIs
  <2> HIDE DEF a, slot, u, m
  <2>3. slot \in SlotSet
    BY <1>1, <2>2, SlotForIs
  <2>4. e \in Entry /\ e.slot = slot /\ e.cs = acc.cs
    BY <1>2, <2>3 DEF Entry
  <2> HIDE DEF e
  <2>5. /\ a.ok = TRUE /\ a.cs = ApplyCells(acc.cs, slot, u) /\ a.hs = ApplyHeads(acc.hs, slot)
        /\ a.stack = <<e>> \o acc.stack
        /\ a = [ok |-> a.ok, cs |-> a.cs, hs |-> a.hs, stack |-> a.stack]
    BY <2>1
  <2>6. /\ a.stack \in Seq(Entry) /\ Len(a.stack) = n /\ a.stack[1] = e
        /\ \A k \in 2 .. n : a.stack[k] = acc.stack[k - 1]
    <3> DEFINE q == acc.stack
    <3>1. q \in Seq(Entry) /\ Len(q) = n - 1 /\ n \in Nat
      BY <1>1, <1>2, <1>4 DEF m
    <3>2. a.stack = <<e>> \o q
      BY <2>5
    <3> HIDE DEF q
    <3>3. /\ <<e>> \o q \in Seq(Entry) /\ Len(<<e>> \o q) = Len(q) + 1 /\ (<<e>> \o q)[1] = e
          /\ \A k \in 2 .. Len(q) + 1 : (<<e>> \o q)[k] = q[k - 1]
      BY <2>4, <3>1, InFront
    <3>4. Len(q) + 1 = n
      BY <3>1
    <3> QED BY <3>2, <3>3, <3>4 DEF q
  <2>7. /\ a.cs \in CacheCells
        /\ \A st \in Streams : \A i \in Cells :
             /\ a.cs[st].shift[i] \in {0, acc.cs[st].shift[i]}
             /\ InSlot(slot, st, i) => a.cs[st].shift[i] = 0
    BY <1>1, <1>2, <2>2, <2>5, ApplyIs
  <2>8. a.hs \in Heads
    BY <1>1, <1>2, <2>2, <2>5, ApplyHeadsIs
  <2>9. a \in AccSet
    BY <2>5, <2>6, <2>7, <2>8 DEF AccSet
  <2>10. Link(a, us, 1)
    <3>1. Len(a.stack) + 1 - 1 = n /\ us[n] = u
      BY <1>1, <2>6 DEF u
    <3>2. Back(a, 1 - 1) = a.cs
      BY DEF Back
    <3>3. Unshifted(a.cs, slot)
      <4>1. \A st \in DOMAIN slot : st \in Streams /\ \A i \in CellsOf(slot[st]) : i \in Cells
        BY <2>3, SlotCells
      <4> QED BY <2>7, <4>1 DEF Unshifted, InSlot
    <3> QED BY <2>2, <2>4, <2>5, <2>6, <3>1, <3>2, <3>3 DEF Link
  <2>11. ASSUME NEW k \in 2 .. n PROVE Link(a, us, k)
    <3> DEFINE j == k - 1
    <3>1. j \in 1 .. m /\ j \in Nat /\ m = n - 1 /\ k = j + 1 /\ k # 0
      BY <1>1, <1>4
    <3>2. Link(acc, us, j) /\ a.stack[k] = acc.stack[j]
      BY <1>1, <2>6, <3>1
    <3>3. Len(a.stack) + 1 - k = Len(acc.stack) + 1 - j
      BY <1>1, <2>6, <3>1 DEF m
    <3>4. Back(a, k - 1) = Back(acc, j - 1)
      <4>1. CASE j = 1
        BY <2>4, <2>6, <3>1, <4>1 DEF Back
      <4>2. CASE j # 1
        <5>1. j \in 2 .. n /\ j # 0 /\ j - 1 # 0 /\ k - 1 = j
          BY <1>1, <3>1, <4>2
        <5> QED BY <2>6, <5>1 DEF Back
      <4> QED BY <4>1, <4>2
    <3>5. Unshifted(a.cs, acc.stack[j].slot)
      <4> DEFINE sl == acc.stack[j].slot
      <4>1. sl \in SlotSet
        BY <1>1, <3>1, AccSetIs DEF m
      <4>2. \A st \in DOMAIN sl : st \in Streams /\ \A i \in CellsOf(sl[st]) : i \in Cells
        BY <4>1, SlotCells
      <4>3. \A st \in DOMAIN sl : \A i \in CellsOf(sl[st]) : acc.cs[st].shift[i] = 0
        BY <3>2 DEF Link, Unshifted
      <4> HIDE DEF sl
      <4>4. Unshifted(a.cs, sl)
        BY <2>7, <4>2, <4>3 DEF Unshifted
      <4> QED BY <4>4 DEF sl
    <3> HIDE DEF j
    <3> QED BY <3>2, <3>3, <3>4, <3>5 DEF Link
  <2>12. \A k \in 1 .. n : Link(a, us, k)
    <3>1. \A k \in 1 .. n : k = 1 \/ k \in 2 .. n
      BY <1>1
    <3> QED BY <2>10, <2>11, <3>1
  <2>13. Back(a, n) = first
    <3>1. CASE n = 1
      <4>1. m = 0 /\ n # 0
        BY <1>1, <1>4, <3>1
      <4> QED BY <1>1, <2>4, <2>6, <3>1, <4>1 DEF Back
    <3>2. CASE n # 1
      <4>1. n \in 2 .. n /\ n # 0 /\ m = n - 1 /\ m # 0
        BY <1>1, <1>4, <3>2
      <4> QED BY <1>1, <2>6, <4>1 DEF Back
    <3> QED BY <3>1, <3>2
  <2> QED BY <1>1, <2>5, <2>6, <2>9, <2>12, <2>13 DEF Accs, a, u
<1> QED BY <1>3, <1>4 DEF a

-----
(* Undoing all of it. *)

\* Trying the ubatches one by one.
LEMMA TriedIs ==
  ASSUME NEW cs \in CacheCells, NEW hs \in Heads, NEW us \in Seq(UbatchSet)
  PROVE  Tried(cs, hs, us) \in Accs(cs, us, Len(us))
<1> DEFINE N == Len(us)
           zero == [ok |-> TRUE, cs |-> cs, hs |-> hs, stack |-> <<>>]
           T == [n \in 0 .. N |-> Accs(cs, us, n)]
           step == [n \in 1 .. N |-> [a \in AccSet |-> TryUbatch(a, us[n])]]
           F == CHOOSE f : f = [j \in 0 .. N |->
                  IF j = 0 THEN zero ELSE TryUbatch(f[j - 1], us[j])]
<1>0. N \in Nat /\ \A n \in 0 .. N : T[n] = Accs(cs, us, n)
  OBVIOUS
<1>1. \A n \in 1 .. N : n \in 0 .. N /\ n - 1 \in 0 .. N
                        /\ T[n] = Accs(cs, us, n) /\ T[n - 1] = Accs(cs, us, n - 1)
  <2> HIDE DEF N, T
  <2> QED BY <1>0
<1>2. \A n \in 1 .. N : \A x \in Accs(cs, us, n - 1) :
        x \in AccSet /\ TryUbatch(x, us[n]) \in Accs(cs, us, n)
  <2> SUFFICES ASSUME NEW n \in 1 .. N, NEW x \in Accs(cs, us, n - 1)
               PROVE  x \in AccSet /\ TryUbatch(x, us[n]) \in Accs(cs, us, n)
    OBVIOUS
  <2>1. x \in AccSet
    BY DEF Accs
  <2>2. n \in 1 .. Len(us)
    OBVIOUS
  <2> QED BY <2>1, <2>2, TryUbatchIs
<1>3. \A n \in 1 .. N : \A x \in AccSet : step[n][x] = TryUbatch(x, us[n])
  OBVIOUS
<1>4. zero \in T[0]
  <2>1. zero \in AccSet /\ zero.ok = TRUE /\ zero.stack = <<>> /\ zero.cs = cs /\ Len(zero.stack) = 0
    BY DEF AccSet
  <2>2. zero \in Accs(cs, us, 0)
    <3> HIDE DEF zero
    <3>1. Back(zero, 0) = cs
      BY <2>1 DEF Back
    <3> QED BY <2>1, <3>1 DEF Accs
  <2> QED BY <1>0, <2>2
<1>5. Tried(cs, hs, us) = F[N]
  BY DEF Tried
<1> HIDE DEF N, T, step, zero
<1>6. PICK f : Iterates(f, N, zero, step) /\ \A n \in 0 .. N : f[n] \in T[n]
  <2>1. \A n \in 1 .. N : \A x \in T[n - 1] : step[n][x] \in T[n]
    <3> SUFFICES ASSUME NEW n \in 1 .. N, NEW x \in T[n - 1] PROVE step[n][x] \in T[n]
      OBVIOUS
    <3>1. x \in Accs(cs, us, n - 1) /\ T[n] = Accs(cs, us, n)
      BY <1>1
    <3>2. x \in AccSet /\ TryUbatch(x, us[n]) \in Accs(cs, us, n)
      BY <1>2, <3>1
    <3> QED BY <1>3, <3>1, <3>2
  <2> QED BY <1>0, <1>4, <2>1, Iterated
<1>7. f = [k \in 0 .. N |-> IF k = 0 THEN zero ELSE TryUbatch(f[k - 1], us[k])]
  <2>1. f = [n \in 0 .. N |-> IF n = 0 THEN zero ELSE step[n][f[n - 1]]]
    BY <1>6 DEF Iterates
  <2>2. \A k \in 0 .. N : k # 0 => step[k][f[k - 1]] = TryUbatch(f[k - 1], us[k])
    <3>1. \A k \in 0 .. N : k # 0 => k \in 1 .. N
      BY <1>0
    <3>2. \A k \in 1 .. N : f[k - 1] \in AccSet
      BY <1>1, <1>2, <1>6
    <3> QED BY <1>3, <3>1, <3>2
  <2> QED BY <2>1, <2>2
<1>8. F = [k \in 0 .. N |-> IF k = 0 THEN zero ELSE TryUbatch(F[k - 1], us[k])]
  BY <1>7
<1> HIDE DEF F
<1>9. \A n \in 0 .. N : F[n] \in T[n]
  <2>1. F[0] \in T[0]
    BY <1>8, <1>4, <1>0
  <2>2. \A n \in 1 .. N : F[n] = TryUbatch(F[n - 1], us[n])
    BY <1>8, <1>0
  <2>3. \A n \in 1 .. N : F[n - 1] \in T[n - 1] => F[n] \in T[n]
    BY <2>2, <1>1, <1>2
  <2> QED BY <1>0, <2>1, <2>3, Stays
<1>10. F[N] \in Accs(cs, us, N)
  BY <1>0, <1>9
<1> QED BY <1>5, <1>10 DEF N

\* Undoing one more entry leaves no more than was there before it.
LEMMA UndoneIs ==
  ASSUME NEW first, NEW us \in Seq(UbatchSet), NEW acc \in Accs(first, us, Len(us)),
         NEW j \in 1 .. Len(acc.stack), NEW a \in Undone(acc, j - 1)
  PROVE  Undo(a, acc.stack[j]) \in Undone(acc, j)
<1> DEFINE e == acc.stack[j]
           u == us[Len(acc.stack) + 1 - j]
           b == Undo(a, e)
<1>1. /\ acc \in AccSet /\ Link(acc, us, j) /\ j \in Nat /\ j # 0
      /\ Len(acc.stack) <= Len(us) /\ Len(us) \in Nat /\ Len(acc.stack) \in Nat
  BY DEF Accs, AccSet
<1>2. Len(acc.stack) + 1 - j \in 1 .. Len(us)
  BY <1>1
<1>3. u \in UbatchSet
  BY <1>2
<1>4. /\ e \in Entry /\ \A k \in 1 .. Len(acc.stack) : acc.stack[k].slot \in SlotSet
  BY <1>1, AccSetIs
<1>5. /\ a \in Half /\ Less(a.cs, Back(acc, j - 1))
      /\ NSwa = 0 => SameCells(a.cs, Back(acc, j - 1))
      /\ \A k \in 1 .. Len(acc.stack) : Unshifted(a.cs, acc.stack[k].slot)
  BY DEF Undone
<1>6. /\ e.slot \in SlotFor(u) /\ AllUsable(e.cs, e.slot)
      /\ Back(acc, j - 1) = ApplyCells(e.cs, e.slot, u)
  BY <1>1 DEF Link
<1>7. Unshifted(a.cs, e.slot) /\ Less(a.cs, ApplyCells(e.cs, e.slot, u))
  BY <1>5, <1>6
<1>8. Back(acc, j) = e.cs
  BY <1>1 DEF Back
<1> HIDE DEF e, u, b
<1>9. Less(b.cs, e.cs)
  BY <1>3, <1>4, <1>5, <1>6, <1>7, UndoLess DEF b
<1>10. /\ b \in Half
       /\ \A st \in Streams, i \in Cells :
            /\ b.cs[st].shift[i] = a.cs[st].shift[i]
            /\ b.cs[st].pos[i] = IF InSlot(e.slot, st, i) THEN e.cs[st].pos[i] ELSE a.cs[st].pos[i]
            /\ b.cs[st].seq[i] = IF InSlot(e.slot, st, i) THEN e.cs[st].seq[i] ELSE a.cs[st].seq[i]
  BY <1>4, <1>5, <1>7, UndoIs DEF b
<1>11. ASSUME NEW k \in 1 .. Len(acc.stack) PROVE Unshifted(b.cs, acc.stack[k].slot)
  <2> DEFINE sl == acc.stack[k].slot
  <2>1. sl \in SlotSet /\ Unshifted(a.cs, sl)
    BY <1>4, <1>5
  <2> HIDE DEF sl
  <2>2. \A st \in DOMAIN sl : st \in Streams /\ \A i \in CellsOf(sl[st]) : i \in Cells
    BY <2>1, SlotCells
  <2>3. Unshifted(b.cs, sl)
    BY <1>10, <2>1, <2>2 DEF Unshifted
  <2> QED BY <2>3 DEF sl
<1>12. NSwa = 0 => SameCells(b.cs, e.cs)
  <2> SUFFICES ASSUME NSwa = 0, NEW st \in Streams, NEW i \in Cells
               PROVE  b.cs[st].pos[i] = e.cs[st].pos[i] /\ b.cs[st].seq[i] = e.cs[st].seq[i]
    BY DEF SameCells
  <2>1. CASE InSlot(e.slot, st, i)
    BY <1>10, <2>1
  <2>2. CASE ~InSlot(e.slot, st, i)
    <3> DEFINE n == ApplyCells(e.cs, e.slot, u)
    <3>1. a.cs[st].pos[i] = n[st].pos[i] /\ a.cs[st].seq[i] = n[st].seq[i]
      BY <1>5, <1>6 DEF SameCells
    <3>2. e.cs \in CacheCells
      BY <1>4 DEF Entry
    <3>3. n[st].pos[i] = e.cs[st].pos[i] /\ n[st].seq[i] = e.cs[st].seq[i]
      BY <1>3, <1>6, <2>2, <3>2, AppliedToEmpty
    <3> HIDE DEF n
    <3> QED BY <1>10, <2>2, <3>1, <3>3
  <2> QED BY <2>1, <2>2
<1> QED BY <1>8, <1>9, <1>10, <1>11, <1>12 DEF Undone, b, e

\* Undoing all entries leads back to what was there before, or less.
LEMMA UndoAllIs ==
  ASSUME NEW first, NEW us \in Seq(UbatchSet), NEW acc \in Accs(first, us, Len(us))
  PROVE  LET after == UndoAll([cs |-> acc.cs, hs |-> acc.hs], acc.stack)
         IN  /\ after.cs \in CacheCells /\ after.hs \in Heads /\ Less(after.cs, first)
             /\ NSwa = 0 => SameCells(after.cs, first)
<1> DEFINE stack == acc.stack
           N == Len(stack)
           zero == [cs |-> acc.cs, hs |-> acc.hs]
           T == [n \in 0 .. N |-> Undone(acc, n)]
           step == [n \in 1 .. N |-> [a \in Half |-> Undo(a, stack[n])]]
           F == CHOOSE f : f = [j \in 0 .. N |->
                  IF j = 0 THEN zero ELSE Undo(f[j - 1], stack[j])]
<1>0. N \in Nat /\ \A n \in 0 .. N : T[n] = Undone(acc, n)
  BY AccSetIs DEF Accs
<1>1. \A n \in 1 .. N : n \in 0 .. N /\ n - 1 \in 0 .. N
                        /\ T[n] = Undone(acc, n) /\ T[n - 1] = Undone(acc, n - 1)
  <2> HIDE DEF N, T
  <2> QED BY <1>0
<1>2. \A n \in 1 .. N : \A x \in Undone(acc, n - 1) : x \in Half /\ Undo(x, stack[n]) \in Undone(acc, n)
  <2> SUFFICES ASSUME NEW n \in 1 .. N, NEW x \in Undone(acc, n - 1)
               PROVE  x \in Half /\ Undo(x, stack[n]) \in Undone(acc, n)
    OBVIOUS
  <2>1. x \in Half
    BY DEF Undone
  <2>2. n \in 1 .. Len(acc.stack)
    OBVIOUS
  <2> QED BY <2>1, <2>2, UndoneIs
<1>3. \A n \in 1 .. N : \A x \in Half : step[n][x] = Undo(x, stack[n])
  OBVIOUS
<1>4. zero \in T[0]
  <2>1. acc.cs \in CacheCells /\ acc.hs \in Heads
    BY AccSetIs DEF Accs
  <2>2. zero \in Half /\ zero.cs = acc.cs
    BY <2>1 DEF Half
  <2>3. Less(zero.cs, Back(acc, 0)) /\ SameCells(zero.cs, Back(acc, 0))
    BY <2>2, LessSelf DEF Back, SameCells
  <2>4. \A k \in 1 .. Len(acc.stack) : Unshifted(acc.cs, acc.stack[k].slot)
    BY DEF Accs, Link
  <2> HIDE DEF zero
  <2>5. zero \in Undone(acc, 0)
    BY <2>2, <2>3, <2>4 DEF Undone
  <2> QED BY <1>0, <2>5
<1>5. UndoAll(zero, stack) = F[N]
  BY DEF UndoAll
<1> HIDE DEF N, T, step, zero, stack
<1>6. PICK f : Iterates(f, N, zero, step) /\ \A n \in 0 .. N : f[n] \in T[n]
  <2>1. \A n \in 1 .. N : \A x \in T[n - 1] : step[n][x] \in T[n]
    BY <1>1, <1>2, <1>3
  <2> QED BY <1>0, <1>4, <2>1, Iterated
<1>7. f = [k \in 0 .. N |-> IF k = 0 THEN zero ELSE Undo(f[k - 1], stack[k])]
  <2>1. f = [n \in 0 .. N |-> IF n = 0 THEN zero ELSE step[n][f[n - 1]]]
    BY <1>6 DEF Iterates
  <2>2. \A k \in 0 .. N : k # 0 => step[k][f[k - 1]] = Undo(f[k - 1], stack[k])
    <3>1. \A k \in 0 .. N : k # 0 => k \in 1 .. N
      BY <1>0
    <3>2. \A k \in 1 .. N : f[k - 1] \in Half
      BY <1>1, <1>2, <1>6
    <3> QED BY <1>3, <3>1, <3>2
  <2> QED BY <2>1, <2>2
<1>8. F = [k \in 0 .. N |-> IF k = 0 THEN zero ELSE Undo(F[k - 1], stack[k])]
  BY <1>7
<1> HIDE DEF F
<1>9. \A n \in 0 .. N : F[n] \in T[n]
  <2>1. F[0] \in T[0]
    BY <1>8, <1>4, <1>0
  <2>2. \A n \in 1 .. N : F[n] = Undo(F[n - 1], stack[n])
    BY <1>8, <1>0
  <2>3. \A n \in 1 .. N : F[n - 1] \in T[n - 1] => F[n] \in T[n]
    BY <2>2, <1>1, <1>2
  <2> QED BY <1>0, <2>1, <2>3, Stays
<1>10. F[N] \in Undone(acc, N)
  BY <1>0, <1>9
<1>11. /\ F[N].cs \in CacheCells /\ F[N].hs \in Heads /\ Less(F[N].cs, Back(acc, N))
       /\ NSwa = 0 => SameCells(F[N].cs, Back(acc, N))
  BY <1>10 DEF Undone, Half
<1>12. Back(acc, N) = first
  BY DEF Accs, N, stack
<1> QED BY <1>5, <1>11, <1>12 DEF zero, stack

-----
(* Truncating what an aborted decode left. *)

\* The tokens of a ubatch are tokens.
LEMMA TokensAre ==
  ASSUME NEW u \in UbatchSet
  PROVE  /\ TokensOf(u) \subseteq Token
         /\ \A st \in DOMAIN u : \A k \in 1 .. Len(u[st]) : u[st][k] \in TokensOf(u)
<1>1. \A st \in DOMAIN u : DOMAIN u[st] = 1 .. Len(u[st])
                           /\ \A k \in 1 .. Len(u[st]) : u[st][k] \in Token
  BY UbatchIs
<1> QED BY <1>1 DEF TokensOf

\* A cell that still has a sequence has its position.
LEMMA ThinnedAt ==
  ASSUME NEW c, NEW d \in Thinned(c), NEW i \in Cells, NEW s \in d.seq[i]
  PROVE  d.pos[i] = c.pos[i] /\ s \in c.seq[i]
<1>1. d \in GoodCells /\ d.pos[i] \in {-1, c.pos[i]} /\ d.seq[i] \subseteq c.seq[i]
  BY DEF Thinned
<1>2. d.pos[i] # -1
  BY <1>1 DEF GoodCells, Exact, IsEmpty
<1> QED BY <1>1, <1>2

\* What is cut before u is clean of u.
LEMMA CutIsClean ==
  ASSUME NEW c \in GoodCells, NEW d \in Thinned(c), NEW u, NEW S, NEW s \in Seqs, s \in S, Cut(c, d, u, S)
  PROVE  Clean(d, u, s)
<1> SUFFICES ASSUME NEW x \in TokensOf(u), FirstSeq(x) = s, NEW i \in Cells, d.pos[i] = x.pos,
                    s \in d.seq[i]
             PROVE  FALSE
  BY DEF Clean
<1>1. c.pos[i] = x.pos /\ s \in c.seq[i]
  BY ThinnedAt
<1>2. c.pos[i] < x.pos
  BY DEF Cut, Ahead
<1>3. c.pos[i] \in Int
  BY CellsAssumption DEF GoodCells, CellsType, Positions
<1> QED BY <1>1, <1>2, <1>3

\* What an aborted decode removes of a sequence is taken away: all at or after the
\* first position of the ubatch, and nothing else.
LEMMA TruncatedIs ==
  ASSUME NEW c \in GoodCells, NEW u \in UbatchSet, NEW s \in Seqs
  PROVE  Truncated(c, u, s) \in Thinned(c) /\ Cut(c, Truncated(c, u, s), u, {s})
<1> DEFINE P == {x.pos : x \in {y \in TokensOf(u) : FirstSeq(y) = s}}
           least == CHOOSE p \in P : \A q \in P : p <= q
           d == SeqRmCells(c, s, least, Inf)
<1>1. P \subseteq Positions
  BY TokensAre, TokenFields
<1>2. \A x \in TokensOf(u) : FirstSeq(x) = s => x.pos \in P
  OBVIOUS
<1>2a. \A p \in P : \E x \in TokensOf(u) : FirstSeq(x) = s /\ x.pos = p
  OBVIOUS
<1>3. CASE P = {}
  <2>1. Truncated(c, u, s) = c
    BY <1>3 DEF Truncated
  <2> HIDE DEF P
  <2> QED BY <1>2, <1>3, <2>1, ThinnedSelf DEF Cut, Ahead
<1>4. CASE P # {}
  <2>1. Truncated(c, u, s) = d
    BY <1>4 DEF Truncated
  <2>2. least \in P /\ \A q \in P : least <= q
    <3> HIDE DEF P
    <3>1. P \subseteq Nat
      BY <1>1, CellsAssumption DEF Positions
    <3>2. \E p \in P : \A q \in P : p <= q
      BY <1>4, <3>1, LeastNat
    <3> QED BY <3>2
  <2>3. least \in Int /\ Inf \in Int
    <3> HIDE DEF P, least
    <3>1. least \in Positions
      BY <1>1, <2>2
    <3> QED BY <3>1, CellsAssumption DEF Positions, Inf
  <2> HIDE DEF least, P, d
  <2>4. d \in Thinned(c)
    BY <2>3, SeqRmThins DEF d
  <2>5. \A i \in Cells : d.seq[i] = IF i \in SeqHits(c, s, least, Inf) THEN c.seq[i] \ {s} ELSE c.seq[i]
    <3>1. c \in CellsType
      BY DEF GoodCells
    <3> QED BY <3>1, SeqRmFields DEF d
  <2>6. ASSUME NEW i \in Cells, s \in c.seq[i]
        PROVE  i \notin SeqHits(c, s, least, Inf) <=> Ahead(u, s, c.pos[i])
    <3>1. c.pos[i] \in Positions
      BY <2>6, CellHas, GoodIs
    <3>2. c.pos[i] \in Int /\ c.pos[i] < Inf
      BY <3>1, CellsAssumption DEF Positions, Inf
    <3>3. i \notin SeqHits(c, s, least, Inf) <=> c.pos[i] < least
      BY <2>3, <2>6, <3>2 DEF SeqHits, PosIn
    <3>4. \A p \in P : p \in Int
      BY <1>1, CellsAssumption DEF Positions
    <3>5. c.pos[i] < least <=> \A p \in P : c.pos[i] < p
      BY <2>2, <2>3, <3>2, <3>4
    <3> QED BY <1>2, <1>2a, <3>3, <3>5 DEF Ahead
  <2>7. Cut(c, d, u, {s})
    BY <2>5, <2>6 DEF Cut
  <2> QED BY <2>1, <2>4, <2>7
<1> QED BY <1>3, <1>4

\* Cutting one sequence more.
LEMMA CutMore ==
  ASSUME NEW c, NEW x \in Thinned(c), NEW d \in Thinned(x), NEW u, NEW S, NEW R,
         Cut(c, x, u, S), Cut(x, d, u, R)
  PROVE  Cut(c, d, u, S \cup R)
<1> SUFFICES ASSUME NEW i \in Cells, NEW s \in Seqs
             PROVE  s \in d.seq[i] <=> s \in c.seq[i] /\ (s \in S \cup R => Ahead(u, s, c.pos[i]))
  BY DEF Cut
<1>1. s \in x.seq[i] <=> s \in c.seq[i] /\ (s \in S => Ahead(u, s, c.pos[i]))
  BY DEF Cut
<1>2. s \in d.seq[i] <=> s \in x.seq[i] /\ (s \in R => Ahead(u, s, x.pos[i]))
  BY DEF Cut
<1>3. s \in x.seq[i] => x.pos[i] = c.pos[i]
  BY ThinnedAt
<1> QED BY <1>1, <1>2, <1>3

\* Truncating all sequences of a ubatch.
LEMMA TruncatedAllIs ==
  ASSUME NEW cs \in CacheCells, NEW u \in UbatchSet
  PROVE  LET new == TruncatedAll(cs, u)
         IN  /\ new \in CacheCells
             /\ \A st \in Streams : /\ new[st] \in Thinned(cs[st])
                                    /\ Cut(cs[st], new[st], u, {s \in Seqs : Stream(s) = st})
<1> DEFINE new == TruncatedAll(cs, u)
<1>1. ASSUME NEW st \in Streams
      PROVE  /\ new[st] \in Thinned(cs[st])
             /\ Cut(cs[st], new[st], u, {s \in Seqs : Stream(s) = st})
  <2> DEFINE N == NSeqs
             C == cs[st]
             Done(n) == {s \in 0 .. n - 1 : Stream(s) = st}
             T == [n \in 0 .. N |-> {d \in Thinned(C) : Cut(C, d, u, Done(n))}]
             E(d, k) == IF Stream(k - 1) = st THEN Truncated(d, u, k - 1) ELSE d
             step == [n \in 1 .. N |-> [d \in Thinned(C) |-> E(d, n)]]
             F == CHOOSE f : f = [k \in 0 .. N |->
                    IF k = 0 THEN C
                    ELSE IF Stream(k - 1) = st THEN Truncated(f[k - 1], u, k - 1) ELSE f[k - 1]]
  <2>0. /\ N \in Nat /\ C \in GoodCells
        /\ \A n \in 0 .. N : T[n] = {d \in Thinned(C) : Cut(C, d, u, Done(n))}
    BY CellsAssumption DEF CacheCells
  <2>1. new[st] = F[N]
    BY DEF TruncatedAll
  <2> HIDE DEF N, C, T, Done
  <2>2. \A n \in 1 .. N : n \in 0 .. N /\ n - 1 \in 0 .. N /\ n - 1 \in Seqs /\ n \in Nat
    BY <2>0 DEF N, Seqs
  <2>3. \A n \in 1 .. N : \A x \in T[n - 1] : x \in Thinned(C) /\ E(x, n) \in T[n]
    <3> SUFFICES ASSUME NEW n \in 1 .. N, NEW x \in T[n - 1]
                 PROVE  x \in Thinned(C) /\ E(x, n) \in T[n]
      OBVIOUS
    <3>1. x \in Thinned(C) /\ Cut(C, x, u, Done(n - 1))
      BY <2>0, <2>2
    <3>2. x \in GoodCells
      BY <3>1 DEF Thinned
    <3> DEFINE e == E(x, n)
               R == IF Stream(n - 1) = st THEN {n - 1} ELSE {}
    <3>3. e \in Thinned(x) /\ Cut(x, e, u, R)
      <4>1. CASE Stream(n - 1) = st
        <5>1. e = Truncated(x, u, n - 1) /\ R = {n - 1}
          BY <4>1
        <5> HIDE DEF e, R
        <5> QED BY <2>2, <3>2, <5>1, TruncatedIs
      <4>2. CASE Stream(n - 1) # st
        BY <3>2, <4>2, ThinnedSelf DEF Cut
      <4> QED BY <4>1, <4>2
    <3> HIDE DEF e
    <3>4. e \in Thinned(C)
      BY <3>1, <3>3, ThinnedTrans
    <3>5. Cut(C, e, u, Done(n))
      <4>1. Done(n) = Done(n - 1) \cup R
        <5>1. \A s : s \in 0 .. n - 1 <=> s = n - 1 \/ s \in 0 .. (n - 1) - 1
          BY <2>2
        <5> QED BY <5>1 DEF Done
      <4> HIDE DEF R
      <4> QED BY <3>1, <3>3, <4>1, CutMore
    <3>6. e \in T[n]
      BY <2>0, <2>2, <3>4, <3>5
    <3> QED BY <3>1, <3>6 DEF e
  <2>4. \A n \in 1 .. N : \A x \in Thinned(C) : step[n][x] = E(x, n)
    OBVIOUS
  <2>5. C \in T[0]
    <3>1. C \in Thinned(C) /\ 0 \in 0 .. N /\ Done(0) = {}
      BY <2>0, ThinnedSelf DEF Done
    <3>2. Cut(C, C, u, {})
      BY DEF Cut
    <3> QED BY <2>0, <3>1, <3>2
  <2> HIDE DEF E, step
  <2>6. PICK f : Iterates(f, N, C, step) /\ \A n \in 0 .. N : f[n] \in T[n]
    <3>1. \A n \in 1 .. N : \A x \in T[n - 1] : step[n][x] \in T[n]
      BY <2>3, <2>4
    <3> QED BY <2>0, <2>5, <3>1, Iterated
  <2>7. f = [k \in 0 .. N |-> IF k = 0 THEN C ELSE E(f[k - 1], k)]
    <3>1. f = [n \in 0 .. N |-> IF n = 0 THEN C ELSE step[n][f[n - 1]]]
      BY <2>6 DEF Iterates
    <3>2. \A k \in 0 .. N : k # 0 => step[k][f[k - 1]] = E(f[k - 1], k)
      <4>1. \A k \in 0 .. N : k # 0 => k \in 1 .. N
        BY <2>0
      <4>2. \A k \in 1 .. N : f[k - 1] \in Thinned(C)
        BY <2>2, <2>3, <2>6
      <4> QED BY <2>4, <4>1, <4>2
    <3> QED BY <3>1, <3>2
  <2>8. F = [k \in 0 .. N |-> IF k = 0 THEN C ELSE E(F[k - 1], k)]
    <3>1. f = [k \in 0 .. N |->
                    IF k = 0 THEN C
                    ELSE IF Stream(k - 1) = st THEN Truncated(f[k - 1], u, k - 1) ELSE f[k - 1]]
      BY <2>7 DEF E
    <3>2. F = [k \in 0 .. N |->
                    IF k = 0 THEN C
                    ELSE IF Stream(k - 1) = st THEN Truncated(F[k - 1], u, k - 1) ELSE F[k - 1]]
      BY <3>1
    <3> HIDE DEF F
    <3> QED BY <3>2 DEF E
  <2> HIDE DEF F
  <2>9. \A n \in 0 .. N : F[n] \in T[n]
    <3>1. F[0] \in T[0]
      BY <2>0, <2>5, <2>8
    <3>2. \A n \in 1 .. N : F[n] = E(F[n - 1], n)
      BY <2>0, <2>8
    <3>3. \A n \in 1 .. N : F[n - 1] \in T[n - 1] => F[n] \in T[n]
      BY <2>3, <3>2
    <3> QED BY <2>0, <3>1, <3>3, Stays
  <2>10. F[N] \in Thinned(C) /\ Cut(C, F[N], u, Done(N))
    BY <2>0, <2>9
  <2>11. Done(N) = {s \in Seqs : Stream(s) = st}
    BY DEF Done, N, Seqs
  <2> QED BY <2>1, <2>10, <2>11 DEF C
<1>2. DOMAIN new = Streams /\ new = [st \in Streams |-> new[st]]
  BY DEF TruncatedAll
<1> HIDE DEF new
<1>3. ASSUME NEW st \in Streams
      PROVE  Good(new[st]) /\ \A i \in Cells : \A s \in new[st].seq[i] : Stream(s) = st
  <2>1. new[st] \in GoodCells /\ \A i \in Cells : new[st].seq[i] \subseteq cs[st].seq[i]
    BY <1>1 DEF Thinned
  <2>2. \A i \in Cells : \A s \in cs[st].seq[i] : Stream(s) = st
    BY CacheCellsIs
  <2> QED BY <2>1, <2>2, GoodIs
<1>4. new \in CacheCells
  BY <1>2, <1>3, CacheCellsIs
<1> QED BY <1>1, <1>4 DEF new

-----
(* The inductive invariant, and the calls that take away. *)

\* Every sequence has a stream.
LEMMA StreamIs == \A s \in Seqs : Stream(s) \in Streams
BY CacheAssumption, CellsAssumption DEF Stream, Streams, Seqs

\* A range has a start that is no negative number.
LEMMA RangeIs ==
  ASSUME NEW r \in Ranges
  PROVE  r[1] \in Int /\ r[2] \in Int /\ r[1] >= 0
<1>1. r \in Positions \X (1 .. MaxPos + 1)
  BY CacheAssumption
<1>2. r[1] \in Positions /\ r[2] \in 1 .. MaxPos + 1
  BY <1>1
<1> QED BY <1>2, CellsAssumption DEF Positions

\* One stream gets other cells.
LEMMA CacheUpdate ==
  ASSUME NEW cs \in CacheCells, NEW st \in Streams, NEW c, Good(c),
         \A i \in Cells : \A s \in c.seq[i] : Stream(s) = st
  PROVE  [cs EXCEPT ![st] = c] \in CacheCells
<1> DEFINE new == [cs EXCEPT ![st] = c]
<1>1. /\ DOMAIN cs = Streams
      /\ \A q \in Streams : Good(cs[q]) /\ \A i \in Cells : \A s \in cs[q].seq[i] : Stream(s) = q
  BY CacheCellsIs
<1>2. DOMAIN new = Streams /\ new = [q \in Streams |-> new[q]]
      /\ \A q \in Streams : new[q] = IF q = st THEN c ELSE cs[q]
  BY <1>1
<1> HIDE DEF new
<1>3. \A q \in Streams : Good(new[q]) /\ \A i \in Cells : \A s \in new[q].seq[i] : Stream(s) = q
  BY <1>1, <1>2
<1>4. new \in CacheCells
  BY <1>2, <1>3, CacheCellsIs
<1> QED BY <1>4 DEF new

\* A stream that is only thinned stays good.
LEMMA ThinnedStream ==
  ASSUME NEW cs \in CacheCells, NEW st \in Streams, NEW c \in Thinned(cs[st])
  PROVE  Good(c) /\ \A i \in Cells : \A s \in c.seq[i] : Stream(s) = st
<1>1. \A i \in Cells : \A s \in cs[st].seq[i] : Stream(s) = st
  BY CacheCellsIs
<1>2. c \in GoodCells /\ \A i \in Cells : c.seq[i] \subseteq cs[st].seq[i]
  BY DEF Thinned
<1> QED BY <1>1, <1>2, GoodIs

\* The cells of one stream.
LEMMA GoodStream ==
  ASSUME NEW cs \in CacheCells, NEW st \in Streams
  PROVE  cs[st] \in GoodCells /\ cs[st] \in Thinned(cs[st])
BY CacheCellsIs, GoodIs, ThinnedSelf

\* Taking away in each stream leaves cells of a cache.
LEMMA ThinnedCache ==
  ASSUME NEW cs \in CacheCells, NEW new, DOMAIN new = Streams, new = [st \in Streams |-> new[st]],
         AllThinned(cs, new)
  PROVE  new \in CacheCells
<1>1. \A st \in Streams : Good(new[st]) /\ \A i \in Cells : \A s \in new[st].seq[i] : Stream(s) = st
  BY ThinnedStream DEF AllThinned
<1> QED BY <1>1, CacheCellsIs

\* So does taking away in one of them.
LEMMA SetCellsOfIs ==
  ASSUME v_cells \in CacheCells, v_heads \in Heads, NEW st \in Streams,
         NEW c \in Thinned(v_cells[st]), SetCellsOf(st, c)
  PROVE  v_cells' \in CacheCells /\ v_heads' \in Heads /\ AllThinned(v_cells, v_cells')
<1>1. DOMAIN v_cells = Streams /\ v_heads \in [Streams -> 0 .. NCells]
  BY CacheCellsIs DEF Heads
<1>2. v_cells' = [v_cells EXCEPT ![st] = c]
  BY DEF SetCellsOf
<1>3. v_cells' \in CacheCells
  BY <1>2, ThinnedStream, CacheUpdate
<1>4. \A q \in Streams : v_cells'[q] = IF q = st THEN c ELSE v_cells[q]
  BY <1>1, <1>2
<1>5. AllThinned(v_cells, v_cells')
  BY <1>4, GoodStream DEF AllThinned
<1>6. HeadAfter(v_heads[st], v_cells[st], c) \in 0 .. NCells
  BY <1>1, HeadAfterIs
<1>7. v_heads' = [v_heads EXCEPT ![st] = HeadAfter(v_heads[st], v_cells[st], c)]
  BY DEF SetCellsOf
<1>8. v_heads' \in Heads
  BY <1>1, <1>6, <1>7 DEF Heads
<1> QED BY <1>3, <1>5, <1>8

\* seq_rm keeps the invariant and only takes away.
LEMMA SeqRmIs ==
  ASSUME CacheInv, NEW s \in Seqs, NEW r \in Ranges, SeqRm(s, r[1], r[2])
  PROVE  CacheInv' /\ AllThinned(v_cells, v_cells')
<1> DEFINE c == SeqRmCells(v_cells[Stream(s)], s, r[1], r[2])
<1>1. v_cells \in CacheCells /\ v_heads \in Heads /\ Stream(s) \in Streams
  BY StreamIs DEF CacheInv
<1>2. c \in Thinned(v_cells[Stream(s)])
  BY <1>1, GoodStream, RangeIs, SeqRmThins
<1>3. SetCellsOf(Stream(s), c) /\ UNCHANGED <<sc_info, store, todo, saved>>
  BY DEF SeqRm
<1> HIDE DEF c
<1>4. v_cells' \in CacheCells /\ v_heads' \in Heads /\ AllThinned(v_cells, v_cells')
  BY <1>1, <1>2, <1>3, SetCellsOfIs
<1> QED BY <1>3, <1>4 DEF CacheInv

\* seq_keep keeps the invariant and only takes away.
LEMMA SeqKeepIs ==
  ASSUME CacheInv, NEW s \in Seqs, SeqKeep(s)
  PROVE  CacheInv' /\ AllThinned(v_cells, v_cells')
<1> DEFINE c == SeqKeepCells(v_cells[Stream(s)], s)
<1>1. v_cells \in CacheCells /\ v_heads \in Heads /\ Stream(s) \in Streams
  BY StreamIs DEF CacheInv
<1>2. c \in Thinned(v_cells[Stream(s)])
  BY <1>1, GoodStream, SeqKeepThins
<1>3. SetCellsOf(Stream(s), c) /\ UNCHANGED <<sc_info, store, todo, saved>>
  BY DEF SeqKeep
<1> HIDE DEF c
<1>4. v_cells' \in CacheCells /\ v_heads' \in Heads /\ AllThinned(v_cells, v_cells')
  BY <1>1, <1>2, <1>3, SetCellsOfIs
<1> QED BY <1>3, <1>4 DEF CacheInv

\* seq_rm of all sequences keeps the invariant and only takes away.
LEMMA SeqRmAnyIs ==
  ASSUME CacheInv, NEW r \in Ranges, SeqRmAny(r[1], r[2])
  PROVE  CacheInv' /\ AllThinned(v_cells, v_cells')
<1> DEFINE c(st) == RmCells(v_cells[st], InRange(v_cells[st], r[1], r[2]))
           h(st) == HeadAfter(v_heads[st], v_cells[st], c(st))
<1>1. v_cells \in CacheCells /\ v_heads \in [Streams -> 0 .. NCells]
  BY DEF CacheInv, Heads
<1>2. v_cells' = [st \in Streams |-> c(st)] /\ v_heads' = [st \in Streams |-> h(st)]
      /\ UNCHANGED <<sc_info, store, todo, saved>>
  BY DEF SeqRmAny
<1>3. ASSUME NEW st \in Streams PROVE c(st) \in Thinned(v_cells[st])
  <2>1. InRange(v_cells[st], r[1], r[2]) \in SUBSET Cells
    BY DEF InRange
  <2> QED BY <1>1, <2>1, GoodStream, RmThins
<1> HIDE DEF c
<1>4. \A st \in Streams : h(st) \in 0 .. NCells
  BY <1>1, HeadAfterIs
<1> HIDE DEF h
<1>5. v_heads' \in Heads
  BY <1>2, <1>4 DEF Heads
<1>6. DOMAIN v_cells' = Streams /\ v_cells' = [st \in Streams |-> v_cells'[st]]
      /\ AllThinned(v_cells, v_cells')
  BY <1>2, <1>3 DEF AllThinned
<1>7. v_cells' \in CacheCells
  BY <1>1, <1>6, ThinnedCache
<1> QED BY <1>2, <1>5, <1>6, <1>7 DEF CacheInv

\* clear keeps the invariant and leaves no cell in use.
LEMMA ClearIs ==
  ASSUME CacheInv, Clear
  PROVE  /\ CacheInv'
         /\ \A st \in Streams, i \in Cells : IsEmpty(v_cells'[st], i)
<1>1. v_cells' = [st \in Streams |-> NoCells] /\ v_heads' = [st \in Streams |-> 0]
      /\ UNCHANGED <<sc_info, store, todo, saved>>
  BY DEF Clear
<1>2. \A i \in Cells : NoCells.seq[i] = {} /\ NoCells.pos[i] = -1
  BY DEF NoCells
<1>3. DOMAIN v_cells' = Streams /\ v_cells' = [st \in Streams |-> v_cells'[st]]
      /\ \A st \in Streams : v_cells'[st] = NoCells
  BY <1>1
<1>4. v_cells' \in CacheCells
  BY <1>2, <1>3, NoCellsGood, CacheCellsIs
<1>5. v_heads' \in Heads
  BY <1>1, CellsAssumption DEF Heads
<1> QED BY <1>1, <1>2, <1>3, <1>4, <1>5 DEF CacheInv, IsEmpty

\* The invariant holds of the new, empty cache.
LEMMA InitIs ==
  ASSUME Init
  PROVE  /\ CacheInv /\ saved = <<>>
         /\ \A st \in Streams, i \in Cells : IsEmpty(v_cells[st], i)
<1>1. v_cells = [st \in Streams |-> NoCells] /\ v_heads = [st \in Streams |-> 0]
      /\ sc_info = <<>> /\ todo = <<>> /\ saved = <<>>
      /\ store = [st \in Streams |-> [i \in Cells |-> NoTok]]
  BY DEF Init
<1>2. \A i \in Cells : NoCells.seq[i] = {} /\ NoCells.pos[i] = -1
  BY DEF NoCells
<1>3. DOMAIN v_cells = Streams /\ v_cells = [st \in Streams |-> v_cells[st]]
      /\ \A st \in Streams : v_cells[st] = NoCells
  BY <1>1
<1>4. v_cells \in CacheCells
  BY <1>2, <1>3, NoCellsGood, CacheCellsIs
<1>5. v_heads \in Heads
  BY <1>1, CellsAssumption DEF Heads
<1>6. NoTok \in Datum
  BY CacheAssumption DEF NoTok, Datum
<1>7. store \in Stores
  BY <1>1, <1>6 DEF Stores
<1>8. sc_info \in Seq(Streams \X Streams) /\ todo \in Seq(Job) /\ saved \in SavedCells
  BY <1>1 DEF SavedCells
<1> QED BY <1>1, <1>2, <1>3, <1>4, <1>5, <1>7, <1>8 DEF CacheInv, IsEmpty

-----
(* Calls that copy and move. *)

\* The cells that a range of a sequence is in.
LEMMA HitsAre ==
  ASSUME NEW c, Good(c), NEW s \in Seqs, NEW r \in Ranges
  PROVE  LET hit == SeqHits(c, s, r[1], r[2])
         IN  /\ hit \in SUBSET Cells
             /\ \A i \in hit : ~IsEmpty(c, i) /\ s \in c.seq[i]
<1>1. SeqHits(c, s, r[1], r[2]) \in SUBSET Cells
  BY DEF SeqHits
<1>2. ASSUME NEW i \in SeqHits(c, s, r[1], r[2]) PROVE ~IsEmpty(c, i) /\ s \in c.seq[i]
  <2>1. c.pos[i] >= r[1] /\ s \in c.seq[i] /\ r[1] \in Int /\ r[1] >= 0
    BY RangeIs DEF SeqHits, PosIn
  <2> QED BY <2>1 DEF IsEmpty
<1> QED BY <1>1, <1>2

\* seq_cp within a stream keeps the invariant and moves no position.
LEMMA SeqCpShareIs ==
  ASSUME CacheInv, NEW s \in Seqs, NEW d \in Seqs, NEW r \in Ranges, SeqCpShare(s, d, r[1], r[2])
  PROVE  CacheInv' /\ SameDrift(v_cells, v_cells')
<1> DEFINE c == v_cells[Stream(s)]
           new == SeqCpCells(c, s, d, r[1], r[2])
<1>1. v_cells \in CacheCells /\ Stream(s) \in Streams /\ DOMAIN v_cells = Streams
  BY StreamIs, CacheCellsIs DEF CacheInv
<1>2. Good(c) /\ (\A i \in Cells : \A x \in c.seq[i] : Stream(x) = Stream(s)) /\ c \in CellsType
  BY <1>1, CacheCellsIs DEF Good
<1>3. /\ \A i \in SeqHits(c, s, r[1], r[2]) : d \notin c.seq[i]
      /\ v_cells' = [v_cells EXCEPT ![Stream(s)] = new]
      /\ Stream(s) = Stream(d)
      /\ UNCHANGED <<v_heads, sc_info, store, todo, saved>>
  BY DEF SeqCpShare
<1> HIDE DEF c
<1>4. Good(new)
  BY <1>2, <1>3, RangeIs, SeqCpGood
<1>5. \A i \in Cells :
        /\ new.pos[i] = c.pos[i] /\ new.shift[i] = c.shift[i]
        /\ new.seq[i] \subseteq c.seq[i] \cup {d}
  <2> SUFFICES ASSUME NEW i \in Cells
               PROVE  /\ new.pos[i] = c.pos[i] /\ new.shift[i] = c.shift[i]
                      /\ new.seq[i] \subseteq c.seq[i] \cup {d}
    OBVIOUS
  <2>1. /\ new.pos[i] = c.pos[i] /\ new.shift[i] = c.shift[i]
        /\ new.seq[i] = IF i \in SeqHits(c, s, r[1], r[2]) THEN c.seq[i] \cup {d} ELSE c.seq[i]
    BY <1>2, SeqCpFields
  <2> HIDE DEF new
  <2> QED BY <2>1
<1> HIDE DEF new
<1>6. \A i \in Cells : \A x \in new.seq[i] : Stream(x) = Stream(s)
  BY <1>2, <1>3, <1>5
<1>7. v_cells' \in CacheCells
  BY <1>1, <1>3, <1>4, <1>6, CacheUpdate
<1>8. \A st \in Streams : v_cells'[st] = IF st = Stream(s) THEN new ELSE v_cells[st]
  BY <1>1, <1>3
<1>9. SameDrift(v_cells, v_cells')
  BY <1>5, <1>8 DEF SameDrift, c
<1> QED BY <1>3, <1>7, <1>9 DEF CacheInv

\* seq_cp to another stream keeps the invariant; the cells get there at once,
\* and the data is left to be copied.
LEMMA SeqCpStreamIs ==
  ASSUME CacheInv, NEW s \in Seqs, NEW d \in Seqs, SeqCpStream(s, d)
  PROVE  /\ CacheInv'
         /\ LET st == Stream(s)  to == Stream(d)
            IN  /\ st \in Streams /\ to \in Streams
                /\ sc_info' = Append(sc_info, <<st, to>>)
                /\ \A q \in Streams : q # to => v_cells'[q] = v_cells[q]
                /\ \A i \in Cells :
                     v_cells'[to].pos[i] # -1 =>
                       /\ v_cells'[to].pos[i] = v_cells[st].pos[i]
                       /\ v_cells'[to].shift[i] = v_cells[st].shift[i]
<1> DEFINE c == v_cells[Stream(s)]
           new == Imported(c, s, d)
<1>1. /\ v_cells \in CacheCells /\ Stream(s) \in Streams /\ Stream(d) \in Streams
      /\ DOMAIN v_cells = Streams /\ v_heads \in [Streams -> 0 .. NCells]
      /\ sc_info \in Seq(Streams \X Streams)
  BY StreamIs, CacheCellsIs DEF CacheInv, Heads
<1>2. c \in GoodCells
  BY <1>1, GoodStream
<1>3. /\ v_cells' = [v_cells EXCEPT ![Stream(d)] = new]
      /\ v_heads' = [v_heads EXCEPT ![Stream(d)] = v_heads[Stream(s)]]
      /\ sc_info' = Append(sc_info, <<Stream(s), Stream(d)>>)
      /\ todo = <<>> /\ UNCHANGED <<store, todo, saved>>
  BY DEF SeqCpStream
<1> HIDE DEF c
<1>4. Good(new)
      /\ \A i \in Cells : /\ new.pos[i] = IF s \in c.seq[i] THEN c.pos[i] ELSE -1
                          /\ new.shift[i] = IF s \in c.seq[i] THEN c.shift[i] ELSE 0
                          /\ new.seq[i] = IF s \in c.seq[i] THEN {d} ELSE {}
  BY <1>2, ImportedIs, GoodIs
<1> HIDE DEF new
<1>5. v_cells' \in CacheCells
  BY <1>1, <1>3, <1>4, CacheUpdate
<1>6. v_heads' \in Heads
  BY <1>1, <1>3 DEF Heads
<1>7. sc_info' \in Seq(Streams \X Streams)
  BY <1>1, <1>3
<1>8. \A q \in Streams : v_cells'[q] = IF q = Stream(d) THEN new ELSE v_cells[q]
  BY <1>1, <1>3
<1>9. CacheInv'
  BY <1>3, <1>5, <1>6, <1>7 DEF CacheInv
<1>10. \A i \in Cells : new.pos[i] # -1 => new.pos[i] = c.pos[i] /\ new.shift[i] = c.shift[i]
  BY <1>4
<1> QED BY <1>1, <1>3, <1>8, <1>9, <1>10 DEF c

\* seq_add keeps the invariant; shifts grow as positions do.
LEMMA SeqAddIs ==
  ASSUME CacheInv, NEW s \in Seqs, NEW r \in Ranges, NEW n \in Deltas, SeqAdd(s, r[1], r[2], n)
  PROVE  CacheInv' /\ SameDrift(v_cells, v_cells')
<1> DEFINE c == v_cells[Stream(s)]
           hit == SeqHits(c, s, r[1], r[2])
           new == PosAddCells(c, hit, n)
           freed == {i \in hit : IsEmpty(new, i)}
           head == IF freed = {} THEN 0 ELSE CHOOSE i \in freed : \A j \in freed : i <= j
<1>1. /\ v_cells \in CacheCells /\ Stream(s) \in Streams /\ DOMAIN v_cells = Streams
      /\ v_heads \in [Streams -> 0 .. NCells]
  BY StreamIs, CacheCellsIs DEF CacheInv, Heads
<1>2. Good(c) /\ (\A i \in Cells : \A x \in c.seq[i] : Stream(x) = Stream(s)) /\ c \in CellsType
  BY <1>1, CacheCellsIs DEF Good
<1>3. /\ \A i \in hit : c.pos[i] + n <= MaxPos
      /\ v_cells' = [v_cells EXCEPT ![Stream(s)] = new]
      /\ v_heads' = [v_heads EXCEPT ![Stream(s)] = head]
      /\ UNCHANGED <<sc_info, store, todo, saved>>
  BY DEF SeqAdd
<1>4. n \in Int
  BY CacheAssumption
<1> HIDE DEF c
<1>5. hit \in SUBSET Cells /\ \A i \in hit : ~IsEmpty(c, i)
  BY <1>2, HitsAre
<1> HIDE DEF hit
<1>6. Good(new)
  BY <1>2, <1>3, <1>4, <1>5, PosAddGood
<1>7. \A i \in Cells :
        LET out == i \in hit /\ c.pos[i] + n < 0
        IN  /\ new.pos[i] = IF out THEN -1 ELSE IF i \in hit THEN c.pos[i] + n ELSE c.pos[i]
            /\ new.shift[i] = IF out THEN 0 ELSE IF i \in hit THEN c.shift[i] + n ELSE c.shift[i]
            /\ new.seq[i] = IF out THEN {} ELSE c.seq[i]
  BY <1>2, <1>4, <1>5, PosAddFields
<1> HIDE DEF new
<1>8. \A i \in Cells : \A x \in new.seq[i] : Stream(x) = Stream(s)
  BY <1>2, <1>7
<1>9. v_cells' \in CacheCells
  BY <1>1, <1>3, <1>6, <1>8, CacheUpdate
<1>10. head \in 0 .. NCells
  <2>1. freed \subseteq Nat /\ freed \subseteq 0 .. NCells
    <3>1. freed \subseteq Cells
      BY <1>5
    <3> HIDE DEF freed
    <3> QED BY <3>1, CellsAssumption DEF Cells
  <2> HIDE DEF freed
  <2>2. CASE freed = {}
    BY <2>2, CellsAssumption
  <2>3. CASE freed # {}
    <3>1. \E i \in freed : \A j \in freed : i <= j
      BY <2>1, <2>3, LeastNat
    <3>2. (CHOOSE i \in freed : \A j \in freed : i <= j) \in freed
      BY <3>1
    <3> QED BY <2>1, <2>3, <3>2
  <2> QED BY <2>2, <2>3
<1> HIDE DEF head
<1>11. v_heads' \in Heads
  BY <1>1, <1>3, <1>10 DEF Heads
<1>12. \A i \in Cells : c.pos[i] \in Int /\ c.shift[i] \in Int
  <2>1. c.pos \in [Cells -> Positions \cup {-1}] /\ c.shift \in [Cells -> Int]
    BY <1>2 DEF CellsType
  <2> QED BY <2>1, CellsAssumption DEF Positions
<1>13. ASSUME NEW i \in Cells, new.pos[i] # -1
       PROVE  c.pos[i] # -1 /\ new.pos[i] - new.shift[i] = c.pos[i] - c.shift[i]
  <2>1. CASE i \in hit
    <3>1. c.pos[i] # -1 /\ ~(c.pos[i] + n < 0)
      BY <1>5, <1>7, <1>13, <2>1 DEF IsEmpty
    <3>2. new.pos[i] = c.pos[i] + n /\ new.shift[i] = c.shift[i] + n
      BY <1>7, <2>1, <3>1
    <3> QED BY <1>4, <1>12, <3>1, <3>2
  <2>2. CASE i \notin hit
    BY <1>7, <1>13, <2>2
  <2> QED BY <2>1, <2>2
<1>14. \A st \in Streams : v_cells'[st] = IF st = Stream(s) THEN new ELSE v_cells[st]
  BY <1>1, <1>3
<1>15. SameDrift(v_cells, v_cells')
  BY <1>13, <1>14 DEF SameDrift, c
<1> QED BY <1>3, <1>9, <1>11, <1>15 DEF CacheInv

\* seq_div keeps the invariant.
LEMMA SeqDivIs ==
  ASSUME CacheInv, NEW s \in Seqs, NEW r \in Ranges, NEW n \in Divisors, SeqDiv(s, r[1], r[2], n)
  PROVE  CacheInv'
<1> DEFINE c == v_cells[Stream(s)]
           hit == SeqHits(c, s, r[1], r[2])
           new == PosDivCells(c, hit, n)
<1>1. /\ v_cells \in CacheCells /\ Stream(s) \in Streams /\ DOMAIN v_cells = Streams
  BY StreamIs, CacheCellsIs DEF CacheInv
<1>2. Good(c) /\ (\A i \in Cells : \A x \in c.seq[i] : Stream(x) = Stream(s)) /\ c \in CellsType
  BY <1>1, CacheCellsIs DEF Good
<1>3. /\ v_cells' = [v_cells EXCEPT ![Stream(s)] = new]
      /\ UNCHANGED <<v_heads, sc_info, store, todo, saved>>
  BY DEF SeqDiv
<1>4. n \in Nat \ {0}
  BY CacheAssumption
<1> HIDE DEF c
<1>5. hit \in SUBSET Cells /\ \A i \in hit : ~IsEmpty(c, i)
  BY <1>2, HitsAre
<1> HIDE DEF hit
<1>6. Good(new)
  BY <1>2, <1>4, <1>5, PosDivGood
<1>7. \A i \in Cells : new.seq[i] = c.seq[i]
  BY <1>2, <1>4, <1>5, PosDivFields
<1> HIDE DEF new
<1>8. \A i \in Cells : \A x \in new.seq[i] : Stream(x) = Stream(s)
  BY <1>2, <1>7
<1>9. v_cells' \in CacheCells
  BY <1>1, <1>3, <1>6, <1>8, CacheUpdate
<1> QED BY <1>3, <1>9 DEF CacheInv

-----
(* Doing the delayed copies and shifts. *)

\* CopiedStore does the copies that are pending.
LEMMA CopiedStoreIs == \A from : CopiedStore(from) = CopiedBy(from, sc_info)
BY DEF CopiedStore, CopiedBy

\* What one copy does.
LEMMA CopiedStep ==
  ASSUME NEW X, NEW m \in [Streams -> X], NEW cp \in Streams \X Streams
  PROVE  /\ Copied(m, cp) \in [Streams -> X]
         /\ \A st \in Streams : Copied(m, cp)[st] = IF st = cp[2] THEN m[cp[1]] ELSE m[st]
BY DEF Copied

\* The copies are done one after the other.
LEMMA CopiedByIs ==
  ASSUME NEW X, NEW from \in [Streams -> X], NEW q \in Seq(Streams \X Streams)
  PROVE  \E F : /\ F = [k \in 0 .. Len(q) |-> IF k = 0 THEN from ELSE Copied(F[k - 1], q[k])]
                /\ CopiedBy(from, q) = F[Len(q)]
                /\ \A n \in 0 .. Len(q) : F[n] \in [Streams -> X]
<1> DEFINE N == Len(q)
           M == [Streams -> X]
           T == [n \in 0 .. N |-> M]
           step == [n \in 1 .. N |-> [m \in M |-> Copied(m, q[n])]]
           F == CHOOSE f : f = [k \in 0 .. N |->
                  IF k = 0 THEN from ELSE Copied(f[k - 1], q[k])]
<1>0. N \in Nat /\ \A n \in 0 .. N : T[n] = M
  OBVIOUS
<1>1. \A n \in 1 .. N : n \in 0 .. N /\ n - 1 \in 0 .. N /\ T[n] = M /\ T[n - 1] = M
  BY <1>0
<1>2. \A n \in 1 .. N : \A x \in M : Copied(x, q[n]) \in M
  BY CopiedStep
<1>3. \A n \in 1 .. N : \A x \in M : step[n][x] = Copied(x, q[n])
  OBVIOUS
<1>4. from \in T[0]
  BY <1>0
<1>5. CopiedBy(from, q) = F[N]
  BY DEF CopiedBy
<1> HIDE DEF N, M, T, step
<1>6. PICK f : /\ Iterates(f, N, from, step)
               /\ \A n \in 0 .. N : f[n] \in T[n]
  <2>1. \A n \in 1 .. N : \A x \in T[n - 1] : step[n][x] \in T[n]
    BY <1>1, <1>2, <1>3
  <2> QED BY <1>0, <1>4, <2>1, Iterated
<1>6a. f = [n \in 0 .. N |-> IF n = 0 THEN from ELSE step[n][f[n - 1]]]
  BY <1>6 DEF Iterates
<1>7. f = [k \in 0 .. N |-> IF k = 0 THEN from ELSE Copied(f[k - 1], q[k])]
  <2>1. \A k \in 0 .. N : k # 0 => step[k][f[k - 1]] = Copied(f[k - 1], q[k])
    <3>1. \A k \in 0 .. N : k # 0 => k \in 1 .. N
      BY <1>0
    <3> QED BY <1>1, <1>3, <1>6, <3>1
  <2> QED BY <1>6a, <2>1
<1>8. F = [k \in 0 .. N |-> IF k = 0 THEN from ELSE Copied(F[k - 1], q[k])]
  BY <1>7
<1> HIDE DEF F
<1>9. \A n \in 0 .. N : F[n] \in T[n]
  <2>1. F[0] \in T[0]
    BY <1>8, <1>4, <1>0
  <2>2. \A n \in 1 .. N : F[n] = Copied(F[n - 1], q[n])
    BY <1>8, <1>0
  <2>3. \A n \in 1 .. N : F[n - 1] \in T[n - 1] => F[n] \in T[n]
    BY <2>2, <1>1, <1>2
  <2> QED BY <1>0, <2>1, <2>3, Stays
<1>10. \A n \in 0 .. N : F[n] \in M
  BY <1>0, <1>9
<1> QED BY <1>5, <1>8, <1>10 DEF M, N

\* No copy changes nothing.
LEMMA CopiedNone ==
  ASSUME NEW X, NEW from \in [Streams -> X], NEW q \in Seq(Streams \X Streams)
  PROVE  Len(q) = 0 => CopiedBy(from, q) = from
<1>1. PICK F : /\ F = [k \in 0 .. Len(q) |-> IF k = 0 THEN from ELSE Copied(F[k - 1], q[k])]
               /\ CopiedBy(from, q) = F[Len(q)]
               /\ \A n \in 0 .. Len(q) : F[n] \in [Streams -> X]
  BY CopiedByIs
<1>2. Len(q) = 0 => 0 \in 0 .. Len(q) /\ F[0] = from
  BY <1>1
<1> QED BY <1>1, <1>2

\* One copy more comes after the others.
LEMMA CopiedAppend ==
  ASSUME NEW X, NEW from \in [Streams -> X], NEW q \in Seq(Streams \X Streams),
         NEW cp \in Streams \X Streams
  PROVE  /\ CopiedBy(from, Append(q, cp)) = Copied(CopiedBy(from, q), cp)
         /\ CopiedBy(from, q) \in [Streams -> X]
<1> DEFINE r == Append(q, cp)
           N == Len(q)
<1>1. /\ r \in Seq(Streams \X Streams) /\ Len(r) = N + 1 /\ N \in Nat /\ r[N + 1] = cp
      /\ \A k \in 1 .. N : r[k] = q[k]
  OBVIOUS
<1> HIDE DEF r
<1>2. PICK F : /\ F = [k \in 0 .. N |-> IF k = 0 THEN from ELSE Copied(F[k - 1], q[k])]
               /\ CopiedBy(from, q) = F[N]
               /\ \A n \in 0 .. N : F[n] \in [Streams -> X]
  BY CopiedByIs
<1>3. PICK G : /\ G = [k \in 0 .. Len(r) |-> IF k = 0 THEN from ELSE Copied(G[k - 1], r[k])]
               /\ CopiedBy(from, r) = G[Len(r)]
               /\ \A n \in 0 .. Len(r) : G[n] \in [Streams -> X]
  BY <1>1, CopiedByIs
<1> HIDE DEF N
<1>4. ASSUME NEW k \in 1 .. N
      PROVE  F[k] = Copied(F[k - 1], q[k]) /\ G[k] = Copied(G[k - 1], q[k])
  <2>1. k \in 0 .. N /\ k \in 0 .. Len(r) /\ k # 0
    BY <1>1
  <2> QED BY <1>1, <1>2, <1>3, <2>1
<1>5. F[0] = from /\ G[0] = from
  <2>1. 0 \in 0 .. N /\ 0 \in 0 .. Len(r)
    BY <1>1
  <2> QED BY <1>2, <1>3, <2>1
<1> DEFINE S == {n \in 0 .. N : F[n] = G[n]}
<1>6. 0 \in S
  BY <1>1, <1>5
<1>7. \A n \in 1 .. N : n - 1 \in S => n \in S
  <2>1. \A n \in 1 .. N : n \in 0 .. N
    BY <1>1
  <2> QED BY <1>4, <2>1
<1>8. N \in S
  <2> HIDE DEF S
  <2>1. N \in 0 .. N
    BY <1>1
  <2> QED BY <1>1, <1>6, <1>7, <2>1, Induct
<1>9. G[N + 1] = Copied(G[N], cp)
  <2>1. N + 1 \in 0 .. Len(r) /\ N + 1 # 0 /\ (N + 1) - 1 = N
    BY <1>1
  <2> QED BY <1>1, <1>3, <2>1
<1>10. N \in 0 .. N
  BY <1>1
<1> QED BY <1>1, <1>2, <1>3, <1>8, <1>9, <1>10 DEF r

\* What the update does to the store and the cells.
LEMMA UpdatedIs ==
  ASSUME CacheInv, NEW shifted \in BOOLEAN
  PROVE  /\ UpdatedStore(shifted) \in Stores
         /\ UpdatedCells(shifted) \in CacheCells
         /\ \A st \in Streams, i \in Cells :
              LET c == UpdatedCells(shifted)[st]
              IN  /\ c.pos[i] = v_cells[st].pos[i] /\ c.seq[i] = v_cells[st].seq[i]
                  /\ c.shift[i] = IF shifted THEN 0 ELSE v_cells[st].shift[i]
                  /\ c.pos[i] # -1 =>
                       /\ UpdatedStore(shifted)[st][i].tok = CopiedStore(store)[st][i].tok
                       /\ UpdatedStore(shifted)[st][i].rot =
                            CopiedStore(store)[st][i].rot + IF shifted THEN v_cells[st].shift[i] ELSE 0
<1> DEFINE from == CopiedStore(store)
           by(st, i) == IF shifted THEN v_cells[st].shift[i] ELSE 0
           left(st, i) == IF shifted THEN 0 ELSE v_cells[st].shift[i]
           data(st, i) == IF IsEmpty(v_cells[st], i) THEN NoTok
                          ELSE [from[st][i] EXCEPT !.rot = @ + by(st, i)]
           cells == UpdatedCells(shifted)
<1>1. /\ v_cells \in CacheCells /\ store \in [Streams -> [Cells -> Datum]]
      /\ sc_info \in Seq(Streams \X Streams)
  BY DEF CacheInv, Stores
<1>2. from \in [Streams -> [Cells -> Datum]]
  <2>1. PICK F : /\ CopiedBy(store, sc_info) = F[Len(sc_info)]
                 /\ \A n \in 0 .. Len(sc_info) : F[n] \in [Streams -> [Cells -> Datum]]
    BY <1>1, CopiedByIs
  <2>2. Len(sc_info) \in 0 .. Len(sc_info)
    BY <1>1
  <2> QED BY <2>1, <2>2, CopiedStoreIs
<1>3. UpdatedStore(shifted) = [st \in Streams |-> [i \in Cells |-> data(st, i)]]
  BY DEF UpdatedStore
<1> HIDE DEF from
<1>4. \A st \in Streams : Good(v_cells[st]) /\ v_cells[st] \in CellsType
                          /\ \A i \in Cells : \A s \in v_cells[st].seq[i] : Stream(s) = st
  BY <1>1, CacheCellsIs DEF Good
<1>5. ASSUME NEW st \in Streams, NEW i \in Cells
      PROVE  /\ data(st, i) \in Datum
             /\ ~IsEmpty(v_cells[st], i) => /\ data(st, i).tok = from[st][i].tok
                                            /\ data(st, i).rot = from[st][i].rot + by(st, i)
  <2>1. from[st][i] \in Datum
    BY <1>2
  <2>2. NoTok \in Datum
    BY CacheAssumption DEF NoTok, Datum
  <2>3. by(st, i) \in Int
    <3>1. v_cells[st].shift \in [Cells -> Int]
      BY <1>4 DEF CellsType
    <3> QED BY <3>1
  <2> HIDE DEF by
  <2>4. from[st][i].rot \in Int /\ from[st][i].tok \in Toks
        /\ from[st][i] = [tok |-> from[st][i].tok, rot |-> from[st][i].rot]
    BY <2>1 DEF Datum
  <2>5. [from[st][i] EXCEPT !.rot = @ + by(st, i)]
          = [tok |-> from[st][i].tok, rot |-> from[st][i].rot + by(st, i)]
    BY <2>4
  <2>6. from[st][i].rot + by(st, i) \in Int
    BY <2>3, <2>4
  <2> QED BY <2>2, <2>4, <2>5, <2>6 DEF Datum
<1>6. UpdatedStore(shifted) \in Stores
  <2> HIDE DEF data
  <2> QED BY <1>3, <1>5 DEF Stores
<1>7. ASSUME NEW st \in Streams
      PROVE  /\ Good(cells[st]) /\ cells[st].pos = v_cells[st].pos /\ cells[st].seq = v_cells[st].seq
             /\ \A i \in Cells : cells[st].shift[i] = left(st, i)
  <2>1. CASE shifted
    <3>1. cells[st] = ResetShift(v_cells[st])
      BY <2>1 DEF UpdatedCells
    <3> HIDE DEF cells
    <3>2. Good(ResetShift(v_cells[st]))
      BY <1>4, ResetShiftGood
    <3>3. ResetShift(v_cells[st]).pos = v_cells[st].pos /\ ResetShift(v_cells[st]).seq = v_cells[st].seq
          /\ \A i \in Cells : ResetShift(v_cells[st]).shift[i] = 0
      BY <1>4 DEF ResetShift, CellsType
    <3>4. \A i \in Cells : left(st, i) = 0
      BY <2>1
    <3> HIDE DEF left
    <3> QED BY <3>1, <3>2, <3>3, <3>4
  <2>2. CASE ~shifted
    <3>1. cells[st] = v_cells[st]
      BY <2>2 DEF UpdatedCells
    <3>2. \A i \in Cells : v_cells[st].shift[i] = left(st, i)
      <4>1. v_cells[st].shift \in [Cells -> Int]
        BY <1>4 DEF CellsType
      <4>2. \A i \in Cells : left(st, i) = IF shifted THEN 0 ELSE v_cells[st].shift[i]
        OBVIOUS
      <4> QED BY <2>2, <4>1, <4>2
    <3> HIDE DEF cells, left
    <3> QED BY <1>4, <3>1, <3>2
  <2> QED BY <2>1, <2>2
<1>8. DOMAIN cells = Streams /\ cells = [st \in Streams |-> cells[st]]
  BY <1>1, CacheCellsIs DEF UpdatedCells
<1> HIDE DEF cells
<1>9. cells \in CacheCells
  BY <1>4, <1>7, <1>8, CacheCellsIs
<1>10. \A st \in Streams, i \in Cells : UpdatedStore(shifted)[st][i] = data(st, i)
  BY <1>3
<1> HIDE DEF data
<1>11. ASSUME NEW st \in Streams, NEW i \in Cells
       PROVE  LET c == cells[st]
              IN  /\ c.pos[i] = v_cells[st].pos[i] /\ c.seq[i] = v_cells[st].seq[i]
                  /\ c.shift[i] = left(st, i)
                  /\ c.pos[i] # -1 => /\ UpdatedStore(shifted)[st][i].tok = from[st][i].tok
                                       /\ UpdatedStore(shifted)[st][i].rot = from[st][i].rot + by(st, i)
  <2> HIDE DEF by, left
  <2>1. /\ cells[st].pos = v_cells[st].pos /\ cells[st].seq = v_cells[st].seq
        /\ cells[st].shift[i] = left(st, i)
    BY <1>7
  <2> QED BY <1>5, <1>10, <2>1 DEF IsEmpty
<1> QED BY <1>6, <1>9, <1>11 DEF cells, from

-----
(* Saving and loading the state of a sequence. *)

\* What the store has at a cell.
LEMMA StoreIs ==
  ASSUME NEW data \in Stores, NEW st \in Streams, NEW i \in Cells
  PROVE  data[st][i] \in Datum /\ data[st][i].tok \in Toks /\ data[st][i].rot \in Int
BY DEF Stores, Datum

\* What is saved are occupied cells of the cache.
LEMMA SaveSeqIs ==
  ASSUME CacheInv, NEW s \in Seqs, SaveSeq(s)
  PROVE  /\ CacheInv'
         /\ \A k \in DOMAIN saved' :
              \E st \in Streams, i \in Cells :
                /\ v_cells[st].pos[i] # -1
                /\ saved'[k].pos = v_cells[st].pos[i] /\ saved'[k].rot = store[st][i].rot
<1> DEFINE st == Stream(s)
           c == v_cells[st]
           data == store[st]
           I == {i \in Cells : s \in c.seq[i]}
           order == Ascending(I, Cardinality(I))
           cell(k) == [pos |-> c.pos[order[k]], tok |-> data[order[k]].tok, rot |-> data[order[k]].rot]
<1>1. /\ saved' = [k \in DOMAIN order |-> cell(k)]
      /\ UNCHANGED <<v_cells, v_heads, sc_info, store, todo>>
  BY DEF SaveSeq
<1>2. st \in Streams /\ v_cells \in CacheCells /\ store \in Stores
  BY StreamIs DEF CacheInv
<1>3. Good(c)
  BY <1>2, CacheCellsIs
<1>4. \A i \in Cells : data[i].tok \in Toks /\ data[i].rot \in Int
  BY <1>2, StoreIs
<1>5. \A i \in I : i \in Cells /\ c.pos[i] # -1 /\ c.pos[i] \in Positions
  <2>1. \A i \in Cells : c.pos[i] \in Positions \cup {-1}
    BY <1>3 DEF Good, CellsType
  <2>2. \A i \in Cells : IsEmpty(c, i) => c.seq[i] = {}
    BY <1>3 DEF Good, Exact
  <2> QED BY <2>1, <2>2 DEF IsEmpty
<1>6. /\ DOMAIN order = 1 .. Cardinality(I) /\ Cardinality(I) \in Nat
      /\ \A k \in 1 .. Cardinality(I) : order[k] \in I
  <2>1. I \subseteq Cells /\ I \subseteq Nat
    BY DEF Cells
  <2>2. IsFiniteSet(Cells)
    BY CellsAssumption, FS_Interval DEF Cells
  <2> HIDE DEF I
  <2>3. IsFiniteSet(I) /\ Cardinality(I) \in Nat
    BY <2>1, <2>2, FS_Subset, FS_CardinalityType
  <2>4. \A k \in 1 .. Cardinality(I) : order[k] \in I
    <3> DEFINE n == Cardinality(I)
    <3>1. n \in 0 .. Cardinality(I)
      BY <2>3
    <3> HIDE DEF n
    <3>2. \A j \in 1 .. n : Ascending(I, n)[j] = Kth(I, j) /\ Kth(I, j) \in I
      <4>1. I \subseteq Nat /\ IsFiniteSet(I)
        BY <2>1, <2>3
      <4> QED BY <3>1, <4>1, AscendingIs
    <3> QED BY <3>2 DEF n, order
  <2>5. DOMAIN order = 1 .. Cardinality(I)
    BY DEF Ascending
  <2> QED BY <2>3, <2>4, <2>5
<1> HIDE DEF I, order
<1>7. \A k \in DOMAIN order :
        /\ cell(k) \in [pos : Positions, tok : Toks, rot : Int]
        /\ order[k] \in Cells /\ c.pos[order[k]] # -1
        /\ cell(k).pos = c.pos[order[k]] /\ cell(k).rot = data[order[k]].rot
  BY <1>4, <1>5, <1>6
<1> HIDE DEF cell
<1>8. saved' \in SavedCells
  <2> DEFINE n == Cardinality(I)
             R == [pos : Positions, tok : Toks, rot : Int]
  <2>1. n \in Nat /\ DOMAIN order = 1 .. n
    BY <1>6
  <2>2. \A k \in 1 .. n : cell(k) \in R
    BY <1>7, <2>1
  <2> HIDE DEF n, R
  <2>3. [k \in DOMAIN order |-> cell(k)] \in [1 .. n -> R]
    BY <2>1, <2>2
  <2>4. [k \in DOMAIN order |-> cell(k)] \in Seq(R)
    BY <2>1, <2>3
  <2> QED BY <1>1, <2>4 DEF SavedCells, R
<1>9. CacheInv'
  BY <1>1, <1>8 DEF CacheInv
<1>10. ASSUME NEW k \in DOMAIN saved'
       PROVE  \E q \in Streams, i \in Cells :
                /\ v_cells[q].pos[i] # -1
                /\ saved'[k].pos = v_cells[q].pos[i] /\ saved'[k].rot = store[q][i].rot
  <2>1. k \in DOMAIN order /\ saved'[k] = cell(k)
    BY <1>1
  <2> QED BY <1>2, <1>7, <2>1
<1> QED BY <1>9, <1>10

\* Loading a state leaves the cells of the other sequences and fills the rest
\* with what was saved.
LEMMA LoadSeqIs ==
  ASSUME CacheInv, NEW d \in Seqs, LoadSeq(d)
  PROVE  /\ CacheInv'
         /\ \A st \in Streams, i \in Cells :
              v_cells'[st].pos[i] # -1 =>
                \/ /\ v_cells[st].pos[i] = v_cells'[st].pos[i]
                   /\ v_cells[st].shift[i] = v_cells'[st].shift[i]
                   /\ store'[st][i] = store[st][i]
                \/ /\ v_cells'[st].shift[i] = 0
                   /\ \E k \in DOMAIN saved : /\ v_cells'[st].pos[i] = saved[k].pos
                                              /\ store'[st][i].rot = saved[k].rot
<1> DEFINE st == Stream(d)
           c == RmSeq(v_cells[st], d)
           head == HeadAfter(v_heads[st], v_cells[st], c)
           toks == [k \in DOMAIN saved |-> [pos |-> saved[k].pos, seqs |-> {d}, tok |-> saved[k].tok]]
           idxs == FindCells(c, head, Len(saved))
           new == IF idxs = <<>> THEN c ELSE Placed(c, idxs, toks)
           at == IF idxs = <<>> THEN head ELSE Last(idxs) + 1
           data == Filled(store[st], idxs)
<1>1. /\ saved # <<>> /\ v_cells' = [v_cells EXCEPT ![st] = new]
      /\ v_heads' = [v_heads EXCEPT ![st] = at]
      /\ store' = [store EXCEPT ![st] = data]
      /\ UNCHANGED <<sc_info, todo, saved>>
  BY DEF LoadSeq, LoadOver
<1>2. /\ st \in Streams /\ v_cells \in CacheCells /\ DOMAIN v_cells = Streams
      /\ store \in [Streams -> [Cells -> Datum]] /\ v_heads \in [Streams -> 0 .. NCells]
      /\ saved \in Seq([pos : Positions, tok : Toks, rot : Int])
  BY StreamIs, CacheCellsIs DEF CacheInv, Stores, Heads, SavedCells
<1>3. c \in Thinned(v_cells[st])
  <2>1. v_cells[st] \in GoodCells /\ 0 \in Int /\ Inf \in Int
    BY <1>2, GoodStream, CellsAssumption DEF Inf
  <2> QED BY <2>1, SeqRmThins DEF RmSeq
<1>4. /\ Good(c) /\ (\A i \in Cells : \A s \in c.seq[i] : Stream(s) = st)
      /\ \A i \in Cells : c.pos[i] # -1 => /\ c.pos[i] = v_cells[st].pos[i]
                                           /\ c.shift[i] = v_cells[st].shift[i]
  <2>1. Good(c) /\ (\A i \in Cells : \A s \in c.seq[i] : Stream(s) = st)
    BY <1>2, <1>3, ThinnedStream
  <2>2. \A i \in Cells : c.pos[i] \in {-1, v_cells[st].pos[i]} /\ (c.pos[i] # -1 => c.shift[i] = v_cells[st].shift[i])
    BY <1>3 DEF Thinned
  <2> QED BY <2>1, <2>2
<1> HIDE DEF c
<1>5. head \in 0 .. NCells
  BY <1>2, HeadAfterIs
<1> HIDE DEF head
<1>6. Len(saved) \in Nat \ {0} /\ DOMAIN saved = 1 .. Len(saved)
      /\ \A k \in 1 .. Len(saved) : saved[k].pos \in Positions /\ saved[k].tok \in Toks /\ saved[k].rot \in Int
  <2> DEFINE R == [pos : Positions, tok : Toks, rot : Int]
  <2>1. \A x \in R : x.pos \in Positions /\ x.tok \in Toks /\ x.rot \in Int
    OBVIOUS
  <2>2. saved \in Seq(R)
    BY <1>2
  <2> HIDE DEF R
  <2>3. Len(saved) \in Nat \ {0} /\ DOMAIN saved = 1 .. Len(saved)
        /\ \A k \in 1 .. Len(saved) : saved[k] \in R
    BY <1>1, <2>2
  <2> QED BY <2>1, <2>3
<1>7. toks \in Seq(Token) /\ Len(toks) = Len(saved)
      /\ \A k \in 1 .. Len(saved) : toks[k].pos = saved[k].pos /\ toks[k].seqs = {d}
  <2>1. {d} \in SeqSet
    BY DEF SeqSet
  <2>2. \A k \in 1 .. Len(saved) : toks[k] \in Token /\ toks[k].pos = saved[k].pos /\ toks[k].seqs = {d}
    BY <1>6, <2>1 DEF Token
  <2>3. toks = [k \in 1 .. Len(saved) |-> toks[k]]
    BY <1>6
  <2> HIDE DEF toks
  <2>4. toks \in [1 .. Len(saved) -> Token]
    BY <2>2, <2>3
  <2> QED BY <1>6, <2>2, <2>4
<1> HIDE DEF toks
<1>8. idxs \in Idxs /\ (idxs # <<>> => Len(idxs) = Len(saved))
  BY <1>5, <1>6, FindCellsIs
<1> HIDE DEF idxs
<1>9. \A i \in CellsOf(idxs) : i \in Cells /\ (CHOOSE k \in DOMAIN idxs : idxs[k] = i) \in DOMAIN idxs
  BY <1>8 DEF CellsOf, Idxs
<1>10. ASSUME NEW i \in Cells
       PROVE  /\ data[i] \in Datum
              /\ i \notin CellsOf(idxs) => data[i] = store[st][i]
              /\ i \in CellsOf(idxs) =>
                   LET k == CHOOSE k \in DOMAIN idxs : idxs[k] = i
                   IN  idxs # <<>> /\ k \in DOMAIN saved /\ data[i].rot = saved[k].rot
  <2>1. store[st][i] \in Datum
    BY <1>2
  <2>2. CASE i \notin CellsOf(idxs)
    BY <2>1, <2>2 DEF Filled
  <2>3. CASE i \in CellsOf(idxs)
    <3> DEFINE k == CHOOSE k \in DOMAIN idxs : idxs[k] = i
    <3>1. k \in DOMAIN idxs
      BY <1>9, <2>3
    <3>2. data[i] = [tok |-> saved[k].tok, rot |-> saved[k].rot]
      BY <2>3 DEF Filled
    <3> HIDE DEF k
    <3>3. idxs # <<>> /\ DOMAIN idxs = 1 .. Len(idxs)
      BY <1>8, <3>1 DEF Idxs
    <3>4. k \in 1 .. Len(saved)
      BY <1>8, <3>1, <3>3
    <3> HIDE DEF data
    <3>5. data[i] \in Datum /\ data[i].rot = saved[k].rot
      BY <1>6, <3>2, <3>4 DEF Datum
    <3> QED BY <1>6, <2>3, <3>3, <3>4, <3>5 DEF k
  <2> QED BY <2>2, <2>3
<1>11. data \in [Cells -> Datum]
  <2>1. data = [i \in Cells |-> data[i]]
    BY DEF Filled
  <2> HIDE DEF data
  <2> QED BY <1>10, <2>1
<1> HIDE DEF data
<1>12. /\ Good(new) /\ \A i \in Cells : \A s \in new.seq[i] : Stream(s) = st
       /\ \A i \in Cells : new.pos[i] # -1 /\ i \notin CellsOf(idxs) =>
            new.pos[i] = c.pos[i] /\ new.shift[i] = c.shift[i]
       /\ \A i \in CellsOf(idxs) : new.pos[i] # -1 =>
            new.pos[i] = AtCell(idxs, toks, i).pos /\ new.shift[i] = 0
  <2>1. CASE idxs = <<>>
    <3>1. CellsOf(idxs) = {}
      BY <2>1 DEF CellsOf
    <3> QED BY <1>4, <2>1, <3>1
  <2>2. CASE idxs # <<>>
    <3>1. new = Placed(c, idxs, toks) /\ Len(toks) = Len(idxs)
      BY <1>7, <1>8, <2>2
    <3> HIDE DEF new
    <3>2. PlacedIn(new, c, idxs, toks)
      BY <1>4, <1>7, <1>8, <3>1, PlacedGood
    <3>3. \A i \in CellsOf(idxs) : AtCell(idxs, toks, i).seqs = {d}
      BY <1>7, <1>8, <3>1, AtCellIs
    <3>4. \A i \in Cells : \A s \in new.seq[i] : Stream(s) = st
      BY <1>4, <3>2, <3>3 DEF PlacedIn
    <3>5. \A i \in Cells : new.pos[i] # -1 =>
            IF i \in CellsOf(idxs)
            THEN new.pos[i] = AtCell(idxs, toks, i).pos /\ new.shift[i] = 0
            ELSE new.pos[i] = c.pos[i] /\ new.shift[i] = c.shift[i]
      BY <3>2 DEF IsEmpty, PlacedIn
    <3> QED BY <1>9, <3>2, <3>4, <3>5 DEF PlacedIn
  <2> QED BY <2>1, <2>2
<1> HIDE DEF new
<1>13. at \in 0 .. NCells
  <2>1. CASE idxs = <<>>
    BY <1>5, <2>1
  <2>2. CASE idxs # <<>>
    <3>1. Len(idxs) \in 1 .. Len(idxs) /\ idxs \in Seq(Cells)
      BY <1>6, <1>8, <2>2 DEF Idxs
    <3>2. Last(idxs) \in Cells
      BY <3>1 DEF Last
    <3> QED BY <2>2, <3>2, CellsAssumption DEF Cells
  <2> QED BY <2>1, <2>2
<1> HIDE DEF at
<1>14. CacheInv'
  <2>1. v_cells' \in CacheCells
    BY <1>1, <1>2, <1>12, CacheUpdate
  <2>2. v_heads' \in Heads
    BY <1>1, <1>2, <1>13 DEF Heads
  <2>3. store' \in Stores
    BY <1>1, <1>2, <1>11 DEF Stores
  <2> QED BY <1>1, <2>1, <2>2, <2>3 DEF CacheInv
<1>15. ASSUME NEW q \in Streams, NEW i \in Cells, v_cells'[q].pos[i] # -1
       PROVE  \/ /\ v_cells[q].pos[i] = v_cells'[q].pos[i]
                 /\ v_cells[q].shift[i] = v_cells'[q].shift[i]
                 /\ store'[q][i] = store[q][i]
              \/ /\ v_cells'[q].shift[i] = 0
                 /\ \E k \in DOMAIN saved : /\ v_cells'[q].pos[i] = saved[k].pos
                                            /\ store'[q][i].rot = saved[k].rot
  <2>1. /\ v_cells'[q] = IF q = st THEN new ELSE v_cells[q]
        /\ store'[q] = IF q = st THEN data ELSE store[q]
    BY <1>1, <1>2
  <2>2. CASE q # st
    BY <2>1, <2>2
  <2>3. CASE q = st /\ i \notin CellsOf(idxs)
    <3>1. v_cells'[q] = new /\ store'[q] = data
      BY <2>1, <2>3
    <3>2. new.pos[i] = c.pos[i] /\ new.shift[i] = c.shift[i] /\ c.pos[i] # -1
      BY <1>12, <1>15, <2>3, <3>1
    <3>3. c.pos[i] = v_cells[st].pos[i] /\ c.shift[i] = v_cells[st].shift[i]
      BY <1>4, <3>2
    <3>4. data[i] = store[st][i]
      BY <1>10, <2>3
    <3> QED BY <2>3, <3>1, <3>2, <3>3, <3>4
  <2>4. CASE q = st /\ i \in CellsOf(idxs)
    <3> DEFINE k == CHOOSE k \in DOMAIN idxs : idxs[k] = i
    <3>1. v_cells'[q] = new /\ store'[q] = data
      BY <2>1, <2>4
    <3>2. new.pos[i] = AtCell(idxs, toks, i).pos /\ new.shift[i] = 0
      BY <1>12, <1>15, <2>4, <3>1
    <3>3. AtCell(idxs, toks, i) = toks[k]
      BY DEF AtCell
    <3>4. k \in DOMAIN saved /\ data[i].rot = saved[k].rot
      BY <1>10, <2>4
    <3> HIDE DEF k
    <3>5. toks[k].pos = saved[k].pos
      BY <1>6, <1>7, <3>4
    <3> QED BY <3>1, <3>2, <3>3, <3>4, <3>5
  <2> QED BY <2>2, <2>3, <2>4
<1> QED BY <1>14, <1>15

-----
(* Decoding, and every step. *)

\* Decoding updates the cache and leaves slots for the ubatches, or nothing to do;
\* the cells keep what they had, or lose some of it.
LEMMA DecodeIs ==
  ASSUME CacheInv, NEW b \in Batches, NEW t \in Toks, NEW shifted \in BOOLEAN, Decode(b, t, shifted)
  PROVE  /\ CacheInv' /\ Less(v_cells', UpdatedCells(shifted))
         /\ NSwa = 0 => SameCells(v_cells', UpdatedCells(shifted))
         /\ sc_info' = <<>> /\ store' = UpdatedStore(shifted) /\ saved' = saved
         /\ shifted \in (IF ~HasShift THEN {FALSE} ELSE IF ShiftFails THEN BOOLEAN ELSE {TRUE})
<1> DEFINE cs    == UpdatedCells(shifted)
           us    == Ubatches(cs, b, t)
           tried == Tried(cs, v_heads, us)
           slots == Reverse(tried.stack)
           after == UndoAll([cs |-> tried.cs, hs |-> tried.hs], tried.stack)
           jobs  == [j \in DOMAIN us |-> [slot |-> slots[j].slot, ubatch |-> us[j]]]
<1>1. /\ ValidBatch(cs, b)
      /\ sc_info' = <<>> /\ store' = UpdatedStore(shifted)
      /\ v_cells' = after.cs /\ v_heads' = after.hs
      /\ todo' = IF tried.ok THEN jobs ELSE <<>>
      /\ saved' = saved
      /\ shifted \in (IF ~HasShift THEN {FALSE} ELSE IF ShiftFails THEN BOOLEAN ELSE {TRUE})
  BY DEF Decode
<1>2. cs \in CacheCells /\ store' \in Stores /\ v_heads \in Heads /\ saved \in SavedCells
  BY <1>1, UpdatedIs DEF CacheInv
<1> HIDE DEF cs
<1>3. us \in Seq(UbatchSet)
  BY <1>1, UbatchesAre
<1> HIDE DEF us
<1>4. tried \in Accs(cs, us, Len(us))
  BY <1>2, <1>3, TriedIs
<1> HIDE DEF tried
<1>5. /\ after.cs \in CacheCells /\ after.hs \in Heads /\ Less(after.cs, cs)
      /\ NSwa = 0 => SameCells(after.cs, cs)
  BY <1>3, <1>4, UndoAllIs
<1> HIDE DEF after
<1>6. todo' \in Seq(Job)
  <2>1. CASE ~tried.ok
    BY <1>1, <2>1
  <2>2. CASE tried.ok
    <3> DEFINE n == Len(us)
    <3>1. n \in Nat /\ DOMAIN us = 1 .. n /\ \A j \in 1 .. n : us[j] \in UbatchSet
      BY <1>3
    <3>2. tried \in AccSet /\ Len(tried.stack) = n /\ \A k \in 1 .. n : Link(tried, us, k)
      BY <1>4, <2>2 DEF Accs
    <3>3. tried.stack \in Seq(Entry) /\ \A k \in 1 .. n : tried.stack[k].slot \in SlotSet
      BY <3>2, AccSetIs
    <3>4. \A j \in 1 .. n : slots[j] = tried.stack[(n - j) + 1]
      BY <3>2 DEF Reverse
    <3> HIDE DEF slots, n
    <3>5. ASSUME NEW j \in 1 .. n PROVE [slot |-> slots[j].slot, ubatch |-> us[j]] \in Job
      <4> DEFINE k == (n - j) + 1
      <4>1. k \in 1 .. n /\ n + 1 - k = j
        BY <3>1
      <4>2. slots[j] = tried.stack[k]
        BY <3>4
      <4> HIDE DEF k
      <4>3. slots[j].slot \in SlotFor(us[j]) /\ slots[j].slot \in SlotSet
        BY <3>2, <3>3, <4>1, <4>2 DEF Link
      <4> QED BY <3>1, <4>3 DEF Job
    <3>6. jobs \in [1 .. n -> Job]
      BY <3>1, <3>5
    <3> HIDE DEF jobs
    <3>7. jobs \in Seq(Job)
      BY <3>1, <3>6
    <3> QED BY <1>1, <2>2, <3>7
  <2> QED BY <2>1, <2>2
<1>7. sc_info' \in Seq(Streams \X Streams)
  BY <1>1
<1>8. CacheInv'
  BY <1>1, <1>2, <1>5, <1>6, <1>7 DEF CacheInv
<1> QED BY <1>1, <1>5, <1>8 DEF cs

\* The next ubatch.
LEMMA NextJob ==
  ASSUME CacheInv, todo # <<>>
  PROVE  /\ Head(todo).slot \in SlotFor(Head(todo).ubatch) /\ Head(todo).slot \in SlotSet
         /\ Head(todo).ubatch \in UbatchSet /\ Tail(todo) \in Seq(Job) /\ sc_info = <<>>
<1>1. todo \in Seq(Job) /\ sc_info = <<>>
  BY DEF CacheInv
<1>2. Head(todo) \in Job /\ Tail(todo) \in Seq(Job)
  BY <1>1
<1>3. \A e \in Job : e.slot \in SlotFor(e.ubatch) /\ e.slot \in SlotSet /\ e.ubatch \in UbatchSet
  BY DEF Job
<1> QED BY <1>1, <1>2, <1>3

\* What the graph of a ubatch writes: its tokens, rotated by their positions.
LEMMA WrittenIs ==
  ASSUME store \in Stores, NEW u \in UbatchSet, NEW slot \in SlotFor(u)
  PROVE  /\ Written(slot, u) \in Stores
         /\ \A st \in Streams, i \in Cells :
              Written(slot, u)[st][i].rot = IF InSlot(slot, st, i) THEN AtCell(slot[st], u[st], i).pos
                                            ELSE store[st][i].rot
         /\ \A st \in Streams, i \in Cells :
              ~InSlot(slot, st, i) => Written(slot, u)[st][i] = store[st][i]
<1> DEFINE new(st, i) ==
             IF st \in DOMAIN slot /\ i \in CellsOf(slot[st])
             THEN LET k == CHOOSE k \in DOMAIN slot[st] : slot[st][k] = i
                  IN  [tok |-> u[st][k].tok, rot |-> u[st][k].pos]
             ELSE store[st][i]
<1>1. Written(slot, u) = [st \in Streams |-> [i \in Cells |-> new(st, i)]]
  BY DEF Written
<1>2. ASSUME NEW st \in Streams, NEW i \in Cells
      PROVE  /\ new(st, i) \in Datum
             /\ new(st, i).rot = IF InSlot(slot, st, i) THEN AtCell(slot[st], u[st], i).pos
                                 ELSE store[st][i].rot
             /\ ~InSlot(slot, st, i) => new(st, i) = store[st][i]
  <2>1. CASE ~InSlot(slot, st, i)
    <3>1. new(st, i) = store[st][i]
      BY <2>1 DEF InSlot
    <3> HIDE DEF new
    <3> QED BY <2>1, <3>1, StoreIs
  <2>2. CASE InSlot(slot, st, i)
    <3> DEFINE x == AtCell(slot[st], u[st], i)
    <3>1. new(st, i) = [tok |-> x.tok, rot |-> x.pos]
      BY <2>2 DEF InSlot, AtCell
    <3> HIDE DEF new
    <3>2. st \in DOMAIN u /\ i \in CellsOf(slot[st]) /\ slot[st] \in Idxs /\ Len(slot[st]) = Len(u[st])
          /\ u[st] \in Seq(Token)
      BY <2>2, SlotForIs, UbatchIs DEF InSlot
    <3>3. x \in Token
      BY <3>2, AtCellIs
    <3> HIDE DEF x
    <3>4. x.tok \in Toks /\ x.pos \in Int
      BY <3>3, TokenFields, CellsAssumption DEF Positions
    <3>5. new(st, i) \in Datum /\ new(st, i).rot = x.pos
      BY <3>1, <3>4 DEF Datum
    <3> QED BY <2>2, <3>5 DEF x
  <2> QED BY <2>1, <2>2
<1> HIDE DEF new
<1> QED BY <1>1, <1>2 DEF Stores

\* A processed ubatch keeps the invariant.
LEMMA ProcessUbatchIs ==
  ASSUME CacheInv, ProcessUbatch
  PROVE  CacheInv'
<1> DEFINE slot == Head(todo).slot
           u == Head(todo).ubatch
<1>1. /\ todo # <<>>
      /\ v_cells' = ApplyCells(v_cells, slot, u) /\ v_heads' = ApplyHeads(v_heads, slot)
      /\ store' = Written(slot, u) /\ todo' = Tail(todo)
      /\ UNCHANGED <<sc_info, saved, ret>>
  BY DEF ProcessUbatch
<1>2. slot \in SlotFor(u) /\ u \in UbatchSet /\ Tail(todo) \in Seq(Job) /\ sc_info = <<>>
  BY <1>1, NextJob
<1> HIDE DEF slot, u
<1>3. v_cells \in CacheCells /\ v_heads \in Heads /\ store \in Stores
  BY DEF CacheInv
<1>4. v_cells' \in CacheCells
  BY <1>1, <1>2, <1>3, ApplyIs
<1>5. v_heads' \in Heads
  BY <1>1, <1>2, <1>3, ApplyHeadsIs
<1>6. store' \in Stores
  BY <1>1, <1>2, <1>3, WrittenIs
<1> QED BY <1>1, <1>2, <1>4, <1>5, <1>6 DEF CacheInv

\* An aborted one does, too: what is left of the placed cells has nothing at or
\* after the positions of the ubatch.
LEMMA AbortUbatchIs ==
  ASSUME CacheInv, AbortUbatch
  PROVE  LET slot == Head(todo).slot
             u    == Head(todo).ubatch
             cs   == ApplyCells(v_cells, slot, u)
         IN  /\ CacheInv' /\ AllThinned(cs, v_cells')
             /\ \A s \in Seqs : Clean(v_cells'[Stream(s)], u, s)
             /\ \A st \in Streams : Cut(cs[st], v_cells'[st], u, {s \in Seqs : Stream(s) = st})
             /\ store' \in {store, Written(slot, u)}
<1> DEFINE slot == Head(todo).slot
           u == Head(todo).ubatch
           cs == ApplyCells(v_cells, slot, u)
           heads == ApplyHeads(v_heads, slot)
           new == TruncatedAll(cs, u)
<1>1. /\ todo # <<>> /\ todo' = <<>> /\ UNCHANGED <<sc_info, saved>>
      /\ v_cells' = new
      /\ v_heads' = [st \in Streams |-> HeadAfter(heads[st], cs[st], new[st])]
      /\ store' \in {store, Written(slot, u)}
  BY DEF AbortUbatch
<1>2. slot \in SlotFor(u) /\ u \in UbatchSet
  BY <1>1, NextJob
<1> HIDE DEF slot, u
<1>3. v_cells \in CacheCells /\ v_heads \in Heads /\ store \in Stores
  BY DEF CacheInv
<1>4. cs \in CacheCells
  BY <1>2, <1>3, ApplyIs
<1>5. heads \in Heads
  BY <1>2, <1>3, ApplyHeadsIs
<1> HIDE DEF cs, heads
<1>6. /\ new \in CacheCells /\ AllThinned(cs, new)
      /\ \A st \in Streams : Cut(cs[st], new[st], u, {s \in Seqs : Stream(s) = st})
  BY <1>2, <1>4, TruncatedAllIs DEF AllThinned
<1>6a. ASSUME NEW s \in Seqs PROVE Clean(new[Stream(s)], u, s)
  <2> DEFINE st == Stream(s)
             S == {r \in Seqs : Stream(r) = st}
  <2>1. st \in Streams /\ s \in S
    BY StreamIs
  <2> HIDE DEF st, S, new
  <2>2. cs[st] \in GoodCells /\ new[st] \in Thinned(cs[st]) /\ Cut(cs[st], new[st], u, S)
    BY <1>4, <1>6, <2>1 DEF CacheCells, AllThinned, S
  <2>3. Clean(new[st], u, s)
    BY <2>1, <2>2, CutIsClean
  <2> QED BY <2>3 DEF st
<1> HIDE DEF new
<1>7. v_heads' \in Heads
  <2>1. \A st \in Streams : HeadAfter(heads[st], cs[st], new[st]) \in 0 .. NCells
    BY <1>5, HeadAfterIs DEF Heads
  <2> QED BY <1>1, <2>1 DEF Heads
<1>8. store' \in Stores
  BY <1>1, <1>2, <1>3, WrittenIs
<1>9. CacheInv'
  <2>1. <<>> \in Seq(Job)
    OBVIOUS
  <2> QED BY <1>1, <1>6, <1>7, <1>8, <2>1 DEF CacheInv
<1> QED BY <1>1, <1>6, <1>6a, <1>9 DEF cs, u, slot

\* The invariant is inductive.
LEMMA CacheInvStep ==
  ASSUME CacheInv, [Next]_vars
  PROVE  CacheInv'
<1>1. CASE UNCHANGED vars
  BY <1>1 DEF vars, CacheInv
<1>2. CASE Clear
  BY <1>2, ClearIs
<1>3. CASE \E s \in Seqs, r \in Ranges : SeqRm(s, r[1], r[2])
  BY <1>3, SeqRmIs
<1>4. CASE \E r \in Ranges : SeqRmAny(r[1], r[2])
  BY <1>4, SeqRmAnyIs
<1>5. CASE \E s, d \in Seqs, r \in Ranges : SeqCpShare(s, d, r[1], r[2])
  BY <1>5, SeqCpShareIs
<1>6. CASE \E s, d \in Seqs : SeqCpStream(s, d)
  BY <1>6, SeqCpStreamIs
<1>7. CASE \E s \in Seqs : SeqKeep(s)
  BY <1>7, SeqKeepIs
<1>8. CASE \E s \in Seqs, r \in Ranges, d \in Deltas : SeqAdd(s, r[1], r[2], d)
  BY <1>8, SeqAddIs
<1>9. CASE \E s \in Seqs, r \in Ranges, d \in Divisors : SeqDiv(s, r[1], r[2], d)
  BY <1>9, SeqDivIs
<1>10. CASE \E b \in Batches, t \in Toks, shifted \in BOOLEAN : Decode(b, t, shifted)
  BY <1>10, DecodeIs
<1>11. CASE ProcessUbatch
  BY <1>11, ProcessUbatchIs
<1>12. CASE AbortUbatch
  BY <1>12, AbortUbatchIs
<1>13. CASE \E s \in Seqs : SaveSeq(s) \/ LoadSeq(s)
  BY <1>13, SaveSeqIs, LoadSeqIs
<1> QED BY <1>1, <1>2, <1>3, <1>4, <1>5, <1>6, <1>7, <1>8, <1>9, <1>10, <1>11, <1>12, <1>13 DEF Next

-----
(* What holds of the cache. *)

\* The variables of the cache keep their types: positions, heads, delayed copies,
\* the tokens and rotations of K and of a saved state, and each cell has only
\* sequences of its stream.
THEOREM CacheTypeCorrect == Spec => []TypeOK
<1>1. CacheInv => TypeOK
  <2> SUFFICES ASSUME CacheInv PROVE TypeOK
    OBVIOUS
  <2>1. /\ v_cells \in CacheCells /\ v_heads \in Heads /\ sc_info \in Seq(Streams \X Streams)
        /\ store \in Stores /\ saved \in SavedCells
    BY DEF CacheInv
  <2>2. v_cells \in [Streams -> CellsType]
        /\ \A st \in Streams, i \in Cells : \A s \in v_cells[st].seq[i] : Stream(s) = st
    BY <2>1 DEF CacheCells, GoodCells
  <2>3. \A k \in DOMAIN sc_info : sc_info[k] \in Streams \X Streams
    BY <2>1
  <2>4. \A st \in Streams, i \in Cells : store[st][i].tok \in Toks /\ store[st][i].rot \in Int
    BY <2>1, StoreIs
  <2>5. \A k \in DOMAIN saved : saved[k].pos \in Positions /\ saved[k].tok \in Toks
    <3> DEFINE R == [pos : Positions, tok : Toks, rot : Int]
    <3>1. \A x \in R : x.pos \in Positions /\ x.tok \in Toks
      OBVIOUS
    <3>2. saved \in Seq(R)
      BY <2>1 DEF SavedCells
    <3> HIDE DEF R
    <3>3. \A k \in DOMAIN saved : saved[k] \in R
      BY <3>2
    <3> QED BY <3>1, <3>3
  <2> QED BY <2>1, <2>2, <2>3, <2>4, <2>5 DEF TypeOK, Heads
<1>2. Init => CacheInv
  BY InitIs
<1>3. CacheInv /\ [Next]_vars => CacheInv'
  BY CacheInvStep
<1> QED BY <1>1, <1>2, <1>3, PTL DEF Spec

\* Whatever calls and decodes there were, failed and aborted ones too, used, the
\* positions of each sequence and has_shift of each stream are what the cells
\* have (llama_kv_cells keeps them by hand, update by update).
THEOREM SummariesExact == Spec => []CellsExact
<1>1. CacheInv => CellsExact
  <2> SUFFICES ASSUME CacheInv PROVE CellsExact
    OBVIOUS
  <2>1. v_cells \in CacheCells
    BY DEF CacheInv
  <2> QED BY <2>1, CacheCellsIs DEF CellsExact, Good
<1>2. Init => CacheInv
  BY InitIs
<1>3. CacheInv /\ [Next]_vars => CacheInv'
  BY CacheInvStep
<1> QED BY <1>1, <1>2, <1>3, PTL DEF Spec

\* RotationExact, said of the store with all copies done.
LEMMA RotatedIs ==
  /\ RotationExact <=> Rotated(v_cells, CopiedBy(store, sc_info))
  /\ RotationExact' <=> Rotated(v_cells', CopiedBy(store', sc_info'))
BY DEF RotationExact, Rotated, CopiedStore, CopiedBy, IsEmpty

\* Positions and shifts are integers.
LEMMA CellInts ==
  ASSUME NEW cs \in CacheCells, NEW st \in Streams, NEW i \in Cells
  PROVE  cs[st].pos[i] \in Int /\ cs[st].shift[i] \in Int
<1>1. cs[st].pos \in [Cells -> Positions \cup {-1}] /\ cs[st].shift \in [Cells -> Int]
  BY CacheCellsIs DEF Good, CellsType
<1> QED BY <1>1, CellsAssumption DEF Positions

\* The store with the pending copies done is a store.
LEMMA CopiedData ==
  ASSUME CacheInv
  PROVE  CopiedBy(store, sc_info) \in Stores /\ (sc_info = <<>> => CopiedBy(store, sc_info) = store)
<1>1. store \in [Streams -> [Cells -> Datum]] /\ sc_info \in Seq(Streams \X Streams)
  BY DEF CacheInv, Stores
<1>2. PICK F : /\ F = [k \in 0 .. Len(sc_info) |-> IF k = 0 THEN store ELSE Copied(F[k - 1], sc_info[k])]
               /\ CopiedBy(store, sc_info) = F[Len(sc_info)]
               /\ \A n \in 0 .. Len(sc_info) : F[n] \in [Streams -> [Cells -> Datum]]
  BY <1>1, CopiedByIs
<1>3. Len(sc_info) \in 0 .. Len(sc_info)
  BY <1>1
<1>4. sc_info = <<>> => Len(sc_info) = 0
  OBVIOUS
<1> QED BY <1>1, <1>2, <1>3, <1>4, CopiedNone DEF Stores

\* As long as positions and shifts move together, rotations stay right.
LEMMA DriftRotated ==
  ASSUME NEW cs \in CacheCells, NEW new \in CacheCells, NEW data \in Stores,
         Rotated(cs, data), SameDrift(cs, new)
  PROVE  Rotated(new, data)
<1> SUFFICES ASSUME NEW st \in Streams, NEW i \in Cells, new[st].pos[i] # -1
             PROVE  data[st][i].rot + new[st].shift[i] = new[st].pos[i]
  BY DEF Rotated
<1>1. /\ cs[st].pos[i] # -1
      /\ new[st].pos[i] - new[st].shift[i] = cs[st].pos[i] - cs[st].shift[i]
  BY DEF SameDrift
<1>2. data[st][i].rot + cs[st].shift[i] = cs[st].pos[i]
  BY <1>1 DEF Rotated
<1>3. data[st][i].rot \in Int
  BY StoreIs
<1>4. new[st].pos[i] \in Int /\ new[st].shift[i] \in Int /\ cs[st].pos[i] \in Int /\ cs[st].shift[i] \in Int
  BY CellInts
<1> QED BY <1>1, <1>2, <1>3, <1>4

\* What is only taken away from has not moved.
LEMMA ThinnedDrift ==
  ASSUME NEW cs \in CacheCells, NEW new, AllThinned(cs, new)
  PROVE  SameDrift(cs, new)
<1> SUFFICES ASSUME NEW st \in Streams, NEW i \in Cells, new[st].pos[i] # -1
             PROVE  /\ cs[st].pos[i] # -1
                    /\ new[st].pos[i] - new[st].shift[i] = cs[st].pos[i] - cs[st].shift[i]
  BY DEF SameDrift
<1>1. new[st] \in Thinned(cs[st])
  BY DEF AllThinned
<1>2. new[st].pos[i] = cs[st].pos[i] /\ new[st].shift[i] = cs[st].shift[i]
  BY <1>1 DEF Thinned
<1> QED BY <1>2

\* A decode copies, shifts and then prepares: rotations stay right.
LEMMA RotationDecode ==
  ASSUME RotationAssumption, CacheInv, RotationInv,
         NEW b \in Batches, NEW t \in Toks, NEW shifted \in BOOLEAN, Decode(b, t, shifted)
  PROVE  RotationInv'
<1> DEFINE cs == UpdatedCells(shifted)
           data == CopiedBy(store, sc_info)
<1>1. /\ CacheInv' /\ Less(v_cells', cs)
      /\ sc_info' = <<>> /\ store' = UpdatedStore(shifted) /\ saved' = saved
      /\ shifted \in (IF ~HasShift THEN {FALSE} ELSE IF ShiftFails THEN BOOLEAN ELSE {TRUE})
  BY DecodeIs
<1>2. CopiedBy(store', sc_info') = store'
  <2>1. store' \in Stores /\ sc_info' \in Seq(Streams \X Streams)
    BY <1>1 DEF CacheInv
  <2>2. Len(sc_info') = 0 /\ store' \in [Streams -> [Cells -> Datum]]
    BY <1>1, <2>1 DEF Stores
  <2> QED BY <2>1, <2>2, CopiedNone
<1>3. /\ \A st \in Streams, i \in Cells :
           /\ cs[st].pos[i] = v_cells[st].pos[i]
           /\ cs[st].shift[i] = IF shifted THEN 0 ELSE v_cells[st].shift[i]
           /\ cs[st].pos[i] # -1 =>
                store'[st][i].rot = data[st][i].rot + IF shifted THEN v_cells[st].shift[i] ELSE 0
  BY <1>1, UpdatedIs, CopiedStoreIs
<1>4. v_cells \in CacheCells /\ data \in Stores /\ Rotated(v_cells, data)
  BY CopiedData, RotatedIs DEF CacheInv, RotationInv
<1> HIDE DEF cs, data
<1>5. NSwa # 0 => \A st \in Streams, i \in Cells : cs[st].shift[i] = 0
  <2> SUFFICES ASSUME NSwa # 0, NEW st \in Streams, NEW i \in Cells PROVE cs[st].shift[i] = 0
    OBVIOUS
  <2>1. ~ShiftFails
    BY DEF RotationAssumption
  <2>2. CASE shifted
    BY <1>3, <2>2
  <2>3. CASE ~shifted
    <3>1. ~v_cells[st].has_shift
      BY <1>1, <2>1, <2>3 DEF HasShift
    <3>2. Exact(v_cells[st])
      BY <1>4, CacheCellsIs DEF Good
    <3>3. v_cells[st].shift[i] = 0
      BY <3>1, <3>2 DEF Exact
    <3> QED BY <1>3, <2>3, <3>3
  <2> QED BY <2>2, <2>3
<1>6. ASSUME NEW st \in Streams, NEW i \in Cells, v_cells'[st].pos[i] # -1
      PROVE  store'[st][i].rot + v_cells'[st].shift[i] = v_cells'[st].pos[i]
  <2>1. CellLess(v_cells'[st], cs[st], i)
    BY <1>1 DEF Less
  <2>2. v_cells'[st].pos[i] = cs[st].pos[i] /\ v_cells'[st].shift[i] = cs[st].shift[i]
    BY <1>5, <1>6, <2>1 DEF CellLess
  <2>3. cs[st].pos[i] = v_cells[st].pos[i] /\ v_cells[st].pos[i] # -1
    BY <1>3, <1>6, <2>2
  <2>4. data[st][i].rot + v_cells[st].shift[i] = v_cells[st].pos[i]
    BY <1>4, <2>3 DEF Rotated
  <2>5. data[st][i].rot \in Int /\ v_cells[st].shift[i] \in Int
    BY <1>4, StoreIs, CellInts
  <2>6. store'[st][i].rot = data[st][i].rot + IF shifted THEN v_cells[st].shift[i] ELSE 0
    BY <1>3, <1>6, <2>2
  <2>7. v_cells'[st].shift[i] = IF shifted THEN 0 ELSE v_cells[st].shift[i]
    BY <1>3, <2>2
  <2>8. store'[st][i].rot + v_cells'[st].shift[i] = v_cells[st].pos[i]
    <3>1. CASE shifted
      BY <2>4, <2>5, <2>6, <2>7, <3>1
    <3>2. CASE ~shifted
      BY <2>4, <2>5, <2>6, <2>7, <3>2
    <3> QED BY <3>1, <3>2
  <2> QED BY <2>2, <2>3, <2>8
<1>7. Rotated(v_cells', store')
  BY <1>6 DEF Rotated
<1>8. RotationExact'
  BY <1>2, <1>7, RotatedIs
<1> QED BY <1>1, <1>8 DEF RotationInv, SavedRotated

\* What is placed is rotated by its position.
LEMMA AppliedRotated ==
  ASSUME CacheInv, Rotated(v_cells, store), NEW u \in UbatchSet, NEW slot \in SlotFor(u),
         NEW st \in Streams, NEW i \in Cells, ApplyCells(v_cells, slot, u)[st].pos[i] # -1
  PROVE  LET cs == ApplyCells(v_cells, slot, u)
         IN  /\ Written(slot, u)[st][i].rot + cs[st].shift[i] = cs[st].pos[i]
             /\ ~InSlot(slot, st, i) => store[st][i].rot + cs[st].shift[i] = cs[st].pos[i]
<1> DEFINE cs == ApplyCells(v_cells, slot, u)
           x == AtCell(slot[st], u[st], i)
<1>1. v_cells \in CacheCells /\ store \in Stores
  BY DEF CacheInv
<1>2. /\ InSlot(slot, st, i) => cs[st].shift[i] = 0 /\ cs[st].pos[i] \in {-1, x.pos}
      /\ ~InSlot(slot, st, i) =>
           /\ CellLess(cs[st], v_cells[st], i)
           /\ cs[st].pos[i] # -1 => cs[st].shift[i] = v_cells[st].shift[i]
      /\ cs \in CacheCells
  BY <1>1, ApplyIs
<1>3. Written(slot, u)[st][i].rot = IF InSlot(slot, st, i) THEN x.pos ELSE store[st][i].rot
  BY <1>1, WrittenIs
<1>4. cs[st].pos[i] # -1
  OBVIOUS
<1> HIDE DEF cs, x
<1>5. CASE InSlot(slot, st, i)
  <2>1. cs[st].pos[i] = x.pos /\ cs[st].shift[i] = 0 /\ cs[st].pos[i] \in Int
    BY <1>2, <1>4, <1>5, CellInts
  <2>2. Written(slot, u)[st][i].rot = x.pos
    BY <1>3, <1>5
  <2>3. Written(slot, u)[st][i].rot + cs[st].shift[i] = cs[st].pos[i]
    BY <2>1, <2>2
  <2> QED BY <1>5, <2>3 DEF cs
<1>6. CASE ~InSlot(slot, st, i)
  <2>1. cs[st].pos[i] = v_cells[st].pos[i] /\ cs[st].shift[i] = v_cells[st].shift[i]
    BY <1>2, <1>4, <1>6 DEF CellLess
  <2>2. store[st][i].rot + v_cells[st].shift[i] = v_cells[st].pos[i]
    BY <1>4, <2>1 DEF Rotated
  <2>3. Written(slot, u)[st][i].rot = store[st][i].rot
    BY <1>3, <1>6
  <2>4. /\ store[st][i].rot + cs[st].shift[i] = cs[st].pos[i]
        /\ Written(slot, u)[st][i].rot + cs[st].shift[i] = cs[st].pos[i]
    BY <2>1, <2>2, <2>3
  <2> QED BY <2>4 DEF cs
<1> QED BY <1>5, <1>6

\* With no copy pending, RotationExact is about the store itself.
LEMMA StoreRotated ==
  ASSUME CacheInv, CacheInv', sc_info = <<>>, sc_info' = <<>>
  PROVE  /\ RotationExact => Rotated(v_cells, store)
         /\ Rotated(v_cells', store') => RotationExact'
<1>1. CopiedBy(store, sc_info) = store
  BY CopiedData
<1>2. CopiedBy(store', sc_info') = store'
  <2>1. store' \in [Streams -> [Cells -> Datum]] /\ sc_info' \in Seq(Streams \X Streams)
        /\ Len(sc_info') = 0
    BY DEF CacheInv, Stores
  <2> QED BY <2>1, CopiedNone
<1> QED BY <1>1, <1>2, RotatedIs

\* A processed ubatch leaves the rotations right.
LEMMA RotationProcess ==
  ASSUME CacheInv, RotationInv, ProcessUbatch
  PROVE  RotationInv'
<1> DEFINE slot == Head(todo).slot
           u == Head(todo).ubatch
<1>1. /\ todo # <<>> /\ v_cells' = ApplyCells(v_cells, slot, u) /\ store' = Written(slot, u)
      /\ UNCHANGED <<sc_info, saved>>
  BY DEF ProcessUbatch
<1>2. slot \in SlotFor(u) /\ u \in UbatchSet /\ sc_info = <<>>
  BY <1>1, NextJob
<1> HIDE DEF slot, u
<1>3. CacheInv' /\ sc_info' = <<>>
  BY <1>1, <1>2, ProcessUbatchIs
<1>4. Rotated(v_cells, store)
  BY <1>2, <1>3, StoreRotated DEF RotationInv
<1>5. Rotated(v_cells', store')
  BY <1>1, <1>2, <1>4, AppliedRotated DEF Rotated
<1>6. RotationExact'
  BY <1>2, <1>3, <1>5, StoreRotated
<1> QED BY <1>1, <1>6 DEF RotationInv, SavedRotated

\* So does an aborted one, written or not: what is left was there before.
LEMMA RotationAbort ==
  ASSUME RotationAssumption, CacheInv, RotationInv, AbortUbatch
  PROVE  RotationInv'
<1> DEFINE slot == Head(todo).slot
           u == Head(todo).ubatch
           cs == ApplyCells(v_cells, slot, u)
<1>1. /\ todo # <<>> /\ UNCHANGED <<sc_info, saved>> /\ ComputeFails
  BY DEF AbortUbatch
<1>2. slot \in SlotFor(u) /\ u \in UbatchSet /\ sc_info = <<>>
  BY <1>1, NextJob
<1>3. /\ CacheInv' /\ AllThinned(cs, v_cells')
      /\ \A s \in Seqs : Clean(v_cells'[Stream(s)], u, s)
      /\ store' \in {store, Written(slot, u)}
  BY AbortUbatchIs
<1>4. v_cells \in CacheCells /\ Uncoupled
  BY <1>1 DEF CacheInv, RotationAssumption
<1> HIDE DEF slot, u
<1>5. Rotated(v_cells, store)
  BY <1>1, <1>2, <1>3, StoreRotated DEF RotationInv
<1>6. ASSUME NEW st \in Streams, NEW i \in Cells, v_cells'[st].pos[i] # -1
      PROVE  store'[st][i].rot + v_cells'[st].shift[i] = v_cells'[st].pos[i]
  <2>1. /\ v_cells'[st].pos[i] = cs[st].pos[i] /\ v_cells'[st].shift[i] = cs[st].shift[i]
        /\ v_cells'[st].seq[i] \subseteq cs[st].seq[i]
    <3>1. v_cells'[st] \in Thinned(cs[st])
      BY <1>3 DEF AllThinned
    <3> HIDE DEF cs
    <3> QED BY <1>6, <3>1 DEF Thinned
  <2>2. ~InSlot(slot, st, i)
    <3> SUFFICES ASSUME InSlot(slot, st, i) PROVE FALSE
      OBVIOUS
    <3> DEFINE x == AtCell(slot[st], u[st], i)
    <3>1. cs[st].seq[i] \subseteq x.seqs /\ cs[st].pos[i] \in {-1, x.pos}
      BY <1>2, <1>4, ApplyIs
    <3>2. st \in DOMAIN u /\ i \in CellsOf(slot[st]) /\ slot[st] \in Idxs /\ Len(slot[st]) = Len(u[st])
          /\ u[st] \in Seq(Token)
      BY <1>2, SlotForIs, UbatchIs DEF InSlot
    <3>3. PICK k \in 1 .. Len(slot[st]) : x = u[st][k]
      BY <3>2, AtCellIs
    <3>4. x \in TokensOf(u) /\ (\A s \in x.seqs : Stream(s) = st) /\ x \in Token
      BY <1>2, <3>2, <3>3, TokensAre, UbatchIs
    <3> HIDE DEF cs, x
    <3>5. x.seqs \in SeqSet
      BY <3>4 DEF Token
    <3>6. PICK s \in Seqs : x.seqs = {s}
      BY <1>4, <3>5 DEF SeqSet
    <3>7. FirstSeq(x) = s
      BY <3>6 DEF FirstSeq, Seqs
    <3>8. Stream(s) = st
      BY <3>4, <3>6
    <3>9. s \notin v_cells'[st].seq[i]
      BY <1>3, <1>6, <2>1, <3>1, <3>4, <3>7, <3>8 DEF Clean
    <3>10. v_cells'[st].seq[i] = {}
      BY <2>1, <3>1, <3>6, <3>9
    <3>11. Exact(v_cells'[st])
      <4>1. v_cells' \in CacheCells
        BY <1>3 DEF CacheInv
      <4> QED BY <4>1, CacheCellsIs DEF Good
    <3> QED BY <1>6, <3>10, <3>11 DEF Exact, IsEmpty
  <2>3. cs[st].pos[i] # -1
    BY <1>6, <2>1
  <2>4. /\ Written(slot, u)[st][i].rot + cs[st].shift[i] = cs[st].pos[i]
        /\ store[st][i].rot + cs[st].shift[i] = cs[st].pos[i]
    BY <1>2, <1>5, <2>2, <2>3, AppliedRotated
  <2> HIDE DEF cs
  <2> QED BY <1>3, <2>1, <2>4
<1>7. Rotated(v_cells', store')
  BY <1>6 DEF Rotated
<1>8. RotationExact'
  BY <1>1, <1>2, <1>3, <1>7, StoreRotated
<1> QED BY <1>1, <1>8 DEF RotationInv, SavedRotated

\* What is saved of a settled cache is rotated by its position.
LEMMA RotationSave ==
  ASSUME RotationAssumption, CacheInv, RotationInv, NEW s \in Seqs, SaveSeq(s)
  PROVE  RotationInv'
<1>1. /\ UNCHANGED <<v_cells, sc_info, store>> /\ MaySave
  BY DEF SaveSeq
<1>2. Settled
  BY <1>1 DEF MaySave, RotationAssumption
<1>3. \A k \in DOMAIN saved' :
        \E st \in Streams, i \in Cells :
          /\ v_cells[st].pos[i] # -1
          /\ saved'[k].pos = v_cells[st].pos[i] /\ saved'[k].rot = store[st][i].rot
  BY SaveSeqIs
<1>4. SavedRotated'
  BY <1>2, <1>3 DEF SavedRotated, Settled, IsEmpty
<1>5. RotationExact'
  BY <1>1, RotatedIs DEF RotationInv
<1> QED BY <1>4, <1>5 DEF RotationInv

\* And so it is when it comes back.
LEMMA RotationLoad ==
  ASSUME RotationAssumption, CacheInv, RotationInv, NEW d \in Seqs, LoadSeq(d)
  PROVE  RotationInv'
<1>1. UNCHANGED <<sc_info, saved>> /\ MaySave
  BY DEF LoadSeq, LoadOver
<1>2. sc_info = <<>>
  BY <1>1 DEF MaySave, RotationAssumption, Settled
<1>3. /\ CacheInv'
      /\ \A st \in Streams, i \in Cells :
              v_cells'[st].pos[i] # -1 =>
                \/ /\ v_cells[st].pos[i] = v_cells'[st].pos[i]
                   /\ v_cells[st].shift[i] = v_cells'[st].shift[i]
                   /\ store'[st][i] = store[st][i]
                \/ /\ v_cells'[st].shift[i] = 0
                   /\ \E k \in DOMAIN saved : /\ v_cells'[st].pos[i] = saved[k].pos
                                              /\ store'[st][i].rot = saved[k].rot
  BY LoadSeqIs
<1>4. Rotated(v_cells, store)
  BY <1>1, <1>2, <1>3, StoreRotated DEF RotationInv
<1>5. ASSUME NEW st \in Streams, NEW i \in Cells, v_cells'[st].pos[i] # -1
      PROVE  store'[st][i].rot + v_cells'[st].shift[i] = v_cells'[st].pos[i]
  <2>1. CASE /\ v_cells[st].pos[i] = v_cells'[st].pos[i]
             /\ v_cells[st].shift[i] = v_cells'[st].shift[i]
             /\ store'[st][i] = store[st][i]
    BY <1>4, <1>5, <2>1 DEF Rotated
  <2>2. CASE /\ v_cells'[st].shift[i] = 0
             /\ \E k \in DOMAIN saved : /\ v_cells'[st].pos[i] = saved[k].pos
                                        /\ store'[st][i].rot = saved[k].rot
    <3>1. store'[st][i].rot = v_cells'[st].pos[i]
      BY <2>2 DEF RotationInv, SavedRotated
    <3>2. v_cells'[st].pos[i] \in Int
      BY <1>3, CellInts DEF CacheInv
    <3> QED BY <2>2, <3>1, <3>2
  <2> QED BY <1>3, <1>5, <2>1, <2>2
<1>6. RotationExact'
  BY <1>1, <1>2, <1>3, <1>5, StoreRotated DEF Rotated
<1> QED BY <1>1, <1>6 DEF RotationInv, SavedRotated

\* A copy to another stream takes positions and shifts along, and the data later.
LEMMA RotationCopy ==
  ASSUME CacheInv, RotationInv, NEW s \in Seqs, NEW d \in Seqs, SeqCpStream(s, d)
  PROVE  RotationInv'
<1> DEFINE st == Stream(s)
           to == Stream(d)
           data == CopiedBy(store, sc_info)
<1>1. UNCHANGED <<store, saved>>
  BY DEF SeqCpStream
<1>2. /\ st \in Streams /\ to \in Streams
      /\ sc_info' = Append(sc_info, <<st, to>>)
      /\ \A q \in Streams : q # to => v_cells'[q] = v_cells[q]
      /\ \A i \in Cells :
           v_cells'[to].pos[i] # -1 =>
             /\ v_cells'[to].pos[i] = v_cells[st].pos[i]
             /\ v_cells'[to].shift[i] = v_cells[st].shift[i]
  BY SeqCpStreamIs
<1>3. Rotated(v_cells, data)
  BY RotatedIs DEF RotationInv
<1> HIDE DEF st, to
<1>4. \A q \in Streams : CopiedBy(store', sc_info')[q] = IF q = to THEN data[st] ELSE data[q]
  <2> DEFINE cp == <<st, to>>
             X == [Cells -> Datum]
  <2>1. cp \in Streams \X Streams /\ cp[1] = st /\ cp[2] = to
    BY <1>2
  <2>2. store \in [Streams -> X] /\ sc_info \in Seq(Streams \X Streams)
    BY DEF CacheInv, Stores
  <2> HIDE DEF cp, X
  <2>3. CopiedBy(store, Append(sc_info, cp)) = Copied(data, cp) /\ data \in [Streams -> X]
    BY <2>1, <2>2, CopiedAppend
  <2> HIDE DEF data
  <2>4. \A q \in Streams : Copied(data, cp)[q] = IF q = cp[2] THEN data[cp[1]] ELSE data[q]
    BY <2>1, <2>3, CopiedStep
  <2> QED BY <1>1, <1>2, <2>1, <2>3, <2>4 DEF cp
<1> HIDE DEF data
<1>5. Rotated(v_cells', CopiedBy(store', sc_info'))
  <2> SUFFICES ASSUME NEW q \in Streams, NEW i \in Cells, v_cells'[q].pos[i] # -1
               PROVE  CopiedBy(store', sc_info')[q][i].rot + v_cells'[q].shift[i] = v_cells'[q].pos[i]
    BY DEF Rotated
  <2>1. CASE q = to
    BY <1>2, <1>3, <1>4, <2>1 DEF Rotated
  <2>2. CASE q # to
    BY <1>2, <1>3, <1>4, <2>2 DEF Rotated
  <2> QED BY <2>1, <2>2
<1>6. RotationExact'
  BY <1>5, RotatedIs
<1> QED BY <1>1, <1>6 DEF RotationInv, SavedRotated

\* A call that moves positions and shifts together leaves the rotations right.
LEMMA RotationDrift ==
  ASSUME CacheInv, RotationInv, CacheInv', SameDrift(v_cells, v_cells'),
         UNCHANGED <<sc_info, store, saved>>
  PROVE  RotationInv'
<1> DEFINE data == CopiedBy(store, sc_info)
<1>1. data \in Stores /\ v_cells \in CacheCells /\ v_cells' \in CacheCells
  BY CopiedData DEF CacheInv
<1>2. Rotated(v_cells, data)
  BY RotatedIs DEF RotationInv
<1>3. CopiedBy(store', sc_info') = data
  OBVIOUS
<1> HIDE DEF data
<1>4. Rotated(v_cells', data)
  BY <1>1, <1>2, DriftRotated
<1>5. RotationExact'
  BY <1>3, <1>4, RotatedIs
<1> QED BY <1>5 DEF RotationInv, SavedRotated

\* Every step leaves the rotations right.
LEMMA RotationStep ==
  ASSUME RotationAssumption, CacheInv, RotationInv, [Next]_vars
  PROVE  RotationInv'
<1>0. v_cells \in CacheCells
  BY DEF CacheInv
<1>1. CASE UNCHANGED vars
  BY <1>1, RotatedIs DEF vars, RotationInv, SavedRotated
<1>2. CASE Clear
  <2>1. CacheInv' /\ SameDrift(v_cells, v_cells') /\ UNCHANGED <<sc_info, store, saved>>
    BY <1>2, ClearIs DEF SameDrift, IsEmpty, Clear
  <2> QED BY <2>1, RotationDrift
<1>3. ASSUME NEW s \in Seqs, NEW r \in Ranges, SeqRm(s, r[1], r[2]) PROVE RotationInv'
  <2>1. CacheInv' /\ AllThinned(v_cells, v_cells') /\ UNCHANGED <<sc_info, store, saved>>
    BY <1>3, SeqRmIs DEF SeqRm
  <2> QED BY <1>0, <2>1, ThinnedDrift, RotationDrift
<1>4. ASSUME NEW r \in Ranges, SeqRmAny(r[1], r[2]) PROVE RotationInv'
  <2>1. CacheInv' /\ AllThinned(v_cells, v_cells') /\ UNCHANGED <<sc_info, store, saved>>
    BY <1>4, SeqRmAnyIs DEF SeqRmAny
  <2> QED BY <1>0, <2>1, ThinnedDrift, RotationDrift
<1>5. ASSUME NEW s \in Seqs, NEW d \in Seqs, NEW r \in Ranges, SeqCpShare(s, d, r[1], r[2])
      PROVE  RotationInv'
  <2>1. CacheInv' /\ SameDrift(v_cells, v_cells') /\ UNCHANGED <<sc_info, store, saved>>
    BY <1>5, SeqCpShareIs DEF SeqCpShare
  <2> QED BY <2>1, RotationDrift
<1>6. CASE \E s, d \in Seqs : SeqCpStream(s, d)
  BY <1>6, RotationCopy
<1>7. ASSUME NEW s \in Seqs, SeqKeep(s) PROVE RotationInv'
  <2>1. CacheInv' /\ AllThinned(v_cells, v_cells') /\ UNCHANGED <<sc_info, store, saved>>
    BY <1>7, SeqKeepIs DEF SeqKeep
  <2> QED BY <1>0, <2>1, ThinnedDrift, RotationDrift
<1>8. ASSUME NEW s \in Seqs, NEW r \in Ranges, NEW d \in Deltas, SeqAdd(s, r[1], r[2], d)
      PROVE  RotationInv'
  <2>1. CacheInv' /\ SameDrift(v_cells, v_cells')
    BY <1>8, SeqAddIs
  <2>2. UNCHANGED <<sc_info, store, saved>>
    BY <1>8 DEF SeqAdd
  <2> QED BY <2>1, <2>2, RotationDrift
<1>9. CASE \E s \in Seqs, r \in Ranges, d \in Divisors : SeqDiv(s, r[1], r[2], d)
  BY <1>9 DEF RotationAssumption
<1>10. CASE \E b \in Batches, t \in Toks, shifted \in BOOLEAN : Decode(b, t, shifted)
  BY <1>10, RotationDecode
<1>11. CASE ProcessUbatch
  BY <1>11, RotationProcess
<1>12. CASE AbortUbatch
  BY <1>12, RotationAbort
<1>13. CASE \E s \in Seqs : SaveSeq(s) \/ LoadSeq(s)
  BY <1>13, RotationSave, RotationLoad
<1> QED BY <1>1, <1>2, <1>3, <1>4, <1>5, <1>6, <1>7, <1>8, <1>9, <1>10, <1>11, <1>12, <1>13 DEF Next

\* Under RotationAssumption, the K of every cell in use is rotated by its position
\* once the pending copies and the pending shift are done, whatever was removed,
\* copied, shifted, decoded, undone, aborted, saved and loaded before.
THEOREM RotationsExact == RotationAssumption => (Spec => []RotationExact)
<1> SUFFICES ASSUME RotationAssumption PROVE Spec => []RotationExact
  OBVIOUS
<1> DEFINE Inv == CacheInv /\ RotationInv
<1>1. Init => Inv
  <2> SUFFICES ASSUME Init PROVE Inv
    OBVIOUS
  <2>1. /\ CacheInv /\ saved = <<>>
        /\ \A st \in Streams, i \in Cells : IsEmpty(v_cells[st], i)
    BY InitIs
  <2>2. RotationExact
    BY <2>1 DEF RotationExact
  <2> QED BY <2>1, <2>2 DEF RotationInv, SavedRotated
<1>2. Inv /\ [Next]_vars => Inv'
  BY CacheInvStep, RotationStep
<1>3. Inv => RotationExact
  BY DEF RotationInv
<1> QED BY <1>1, <1>2, <1>3, PTL DEF Spec

-----
(* Slots, and decodes that find none. *)

\* Without a window, prepare never takes a cell back from a ubatch: what is in use
\* before k entries is in use before fewer of them, too.
LEMMA FilledStays ==
  ASSUME NSwa = 0, NEW first, NEW us \in Seq(UbatchSet), NEW acc \in Accs(first, us, Len(us)),
         NEW k \in 0 .. Len(acc.stack), NEW st \in Streams, NEW i \in Cells,
         ~IsEmpty(Back(acc, k)[st], i)
  PROVE  \A j \in 0 .. k : ~IsEmpty(Back(acc, j)[st], i)
<1> DEFINE S == {d \in 0 .. k : ~IsEmpty(Back(acc, k - d)[st], i)}
<1>1. acc \in AccSet /\ Len(acc.stack) \in Nat /\ Len(acc.stack) <= Len(us) /\ Len(us) \in Nat
      /\ k \in Nat /\ \A m \in 1 .. Len(acc.stack) : Link(acc, us, m)
  BY DEF Accs, AccSet
<1>2. 0 \in S
  BY <1>1
<1>3. ASSUME NEW d \in 1 .. k, d - 1 \in S PROVE d \in S
  <2> DEFINE m == k - (d - 1)
             e == acc.stack[m]
             u == us[Len(acc.stack) + 1 - m]
  <2>1. m \in 1 .. Len(acc.stack) /\ m # 0 /\ m - 1 = k - d /\ Len(acc.stack) + 1 - m \in 1 .. Len(us)
        /\ d \in 0 .. k
    <3> DEFINE n == Len(acc.stack)
               l == Len(us)
    <3>1. n \in Nat /\ l \in Nat /\ n <= l /\ k \in 0 .. n /\ d \in 1 .. k
      BY <1>1
    <3> HIDE DEF n, l, S, e, u
    <3>2. m \in 1 .. n /\ m # 0 /\ m - 1 = k - d /\ n + 1 - m \in 1 .. l /\ d \in 0 .. k
      BY <3>1
    <3> QED BY <3>2 DEF n, l
  <2>2. ~IsEmpty(Back(acc, m)[st], i)
    BY <1>3
  <2> HIDE DEF m
  <2>3. /\ e.slot \in SlotFor(u) /\ AllUsable(e.cs, e.slot)
        /\ Back(acc, m - 1) = ApplyCells(e.cs, e.slot, u)
    BY <1>1, <2>1 DEF Link
  <2>4. u \in UbatchSet /\ Back(acc, m) = e.cs
    BY <2>1 DEF Back
  <2>5. e.cs \in CacheCells
    BY <1>1, <2>1, AccSetIs
  <2> HIDE DEF e, u
  <2>6. ~IsEmpty(Back(acc, m - 1)[st], i)
    BY <2>2, <2>3, <2>4, <2>5, AppliedToEmpty DEF IsEmpty
  <2> QED BY <2>1, <2>6
<1> HIDE DEF S
<1>4. \A d \in 0 .. k : d \in S
  BY <1>1, <1>2, <1>3, Induct
<1>5. ASSUME NEW j \in 0 .. k PROVE ~IsEmpty(Back(acc, j)[st], i)
  <2>1. k - j \in 0 .. k /\ k - (k - j) = j
    BY <1>1
  <2> QED BY <1>4, <2>1 DEF S
<1> QED BY <1>5

\* So the slots that prepare found are all empty before it and have no cell in common.
LEMMA TrialSlots ==
  ASSUME NSwa = 0, NEW first, NEW us \in Seq(UbatchSet), NEW acc \in Accs(first, us, Len(us)),
         NEW k \in 1 .. Len(acc.stack), NEW st \in Streams, NEW i \in Cells,
         InSlot(acc.stack[k].slot, st, i)
  PROVE  /\ IsEmpty(first[st], i)
         /\ \A j \in 1 .. Len(acc.stack) : InSlot(acc.stack[j].slot, st, i) => j = k
<1>1. /\ acc \in AccSet /\ Len(acc.stack) \in Nat /\ Len(acc.stack) <= Len(us) /\ Len(us) \in Nat
      /\ Back(acc, Len(acc.stack)) = first
      /\ \A m \in 1 .. Len(acc.stack) : Link(acc, us, m)
  BY DEF Accs, AccSet
<1>2. ASSUME NEW m \in 1 .. Len(acc.stack), InSlot(acc.stack[m].slot, st, i)
      PROVE  IsEmpty(Back(acc, m)[st], i) /\ ~IsEmpty(Back(acc, m - 1)[st], i)
  <2> DEFINE e == acc.stack[m]
             u == us[Len(acc.stack) + 1 - m]
  <2>1. Len(acc.stack) + 1 - m \in 1 .. Len(us) /\ m # 0
    BY <1>1
  <2>2. /\ e.slot \in SlotFor(u) /\ AllUsable(e.cs, e.slot)
        /\ Back(acc, m - 1) = ApplyCells(e.cs, e.slot, u)
    BY <1>1 DEF Link
  <2>3. u \in UbatchSet /\ Back(acc, m) = e.cs
    BY <2>1 DEF Back
  <2>4. e.cs \in CacheCells
    BY <1>1, AccSetIs
  <2>5. InSlot(e.slot, st, i)
    BY <1>2
  <2> HIDE DEF e, u
  <2> QED BY <2>2, <2>3, <2>4, <2>5, AppliedToEmpty
<1>3. ASSUME NEW m \in 0 .. Len(acc.stack), ~IsEmpty(Back(acc, m)[st], i)
      PROVE  \A j \in 0 .. m : ~IsEmpty(Back(acc, j)[st], i)
  BY <1>3, FilledStays
<1>4. IsEmpty(first[st], i)
  <2> SUFFICES ASSUME ~IsEmpty(first[st], i) PROVE FALSE
    OBVIOUS
  <2>1. Len(acc.stack) \in 0 .. Len(acc.stack) /\ k \in 0 .. Len(acc.stack)
    BY <1>1
  <2>2. ~IsEmpty(Back(acc, k)[st], i)
    BY <1>1, <1>3, <2>1
  <2> QED BY <1>2, <2>2
<1>5. ASSUME NEW j \in 1 .. Len(acc.stack), NEW m \in 1 .. Len(acc.stack), j < m,
             InSlot(acc.stack[j].slot, st, i), InSlot(acc.stack[m].slot, st, i)
      PROVE  FALSE
  <2>1. m - 1 \in 0 .. Len(acc.stack) /\ j \in 0 .. m - 1
    BY <1>1, <1>5
  <2>2. ~IsEmpty(Back(acc, j)[st], i)
    BY <1>2, <1>3, <1>5, <2>1
  <2> QED BY <1>2, <1>5, <2>2
<1>6. ASSUME NEW j \in 1 .. Len(acc.stack), InSlot(acc.stack[j].slot, st, i) PROVE j = k
  <2>1. j < k \/ k < j \/ j = k
    BY <1>1
  <2> QED BY <1>5, <1>6, <2>1
<1> QED BY <1>4, <1>6

\* A decode leaves free slots.
LEMMA SlotsDecode ==
  ASSUME NSwa = 0, CacheInv, NEW b \in Batches, NEW t \in Toks, NEW shifted \in BOOLEAN,
         Decode(b, t, shifted)
  PROVE  SlotsFree'
<1> DEFINE cs    == UpdatedCells(shifted)
           us    == Ubatches(cs, b, t)
           tried == Tried(cs, v_heads, us)
           slots == Reverse(tried.stack)
           jobs  == [j \in DOMAIN us |-> [slot |-> slots[j].slot, ubatch |-> us[j]]]
<1>1. ValidBatch(cs, b) /\ todo' = IF tried.ok THEN jobs ELSE <<>>
  BY DEF Decode
<1>2. cs \in CacheCells /\ v_heads \in Heads /\ Less(v_cells', cs)
  BY UpdatedIs, DecodeIs DEF CacheInv
<1> HIDE DEF cs
<1>3. us \in Seq(UbatchSet)
  BY <1>1, UbatchesAre
<1> HIDE DEF us
<1>4. tried \in Accs(cs, us, Len(us))
  BY <1>2, <1>3, TriedIs
<1> HIDE DEF tried
<1>5. CASE ~tried.ok
  <2>1. Len(todo') = 0
    BY <1>1, <1>5
  <2> QED BY <2>1 DEF SlotsFree
<1>6. CASE tried.ok
  <2> DEFINE n == Len(us)
             at(j) == (n - j) + 1
  <2>1. n \in Nat /\ DOMAIN us = 1 .. n
    BY <1>3
  <2>2. tried \in AccSet /\ Len(tried.stack) = n
    BY <1>4, <1>6 DEF Accs
  <2>3. \A j \in 1 .. n : slots[j] = tried.stack[at(j)]
    BY <2>2 DEF Reverse
  <2> HIDE DEF slots, n
  <2>4. \A j \in 1 .. n : at(j) \in 1 .. n
    BY <2>1
  <2>5. \A j, k \in 1 .. n : at(j) = at(k) => j = k
    BY <2>1
  <2> HIDE DEF at
  <2>6. Len(jobs) = n /\ \A j \in 1 .. n : jobs[j].slot = tried.stack[at(j)].slot
    BY <2>1, <2>3
  <2>7. Len(todo') = n /\ \A j \in 1 .. n : (todo'[j]).slot = tried.stack[at(j)].slot
    BY <1>1, <1>6, <2>6
  <2> HIDE DEF jobs
  <2>8. ASSUME NEW k \in 1 .. n, NEW st \in Streams, NEW i \in Cells, InSlot((todo'[k]).slot, st, i)
        PROVE  /\ IsEmpty(v_cells'[st], i)
               /\ \A j \in 1 .. n : InSlot((todo'[j]).slot, st, i) => j = k
    <3>1. InSlot(tried.stack[at(k)].slot, st, i) /\ at(k) \in 1 .. Len(tried.stack)
      BY <2>2, <2>4, <2>7, <2>8
    <3>2. /\ IsEmpty(cs[st], i)
          /\ \A j \in 1 .. Len(tried.stack) : InSlot(tried.stack[j].slot, st, i) => j = at(k)
      BY <1>3, <1>4, <3>1, TrialSlots
    <3>3. IsEmpty(v_cells'[st], i)
      BY <1>2, <3>2 DEF Less, CellLess, IsEmpty
    <3> QED BY <2>2, <2>4, <2>5, <2>7, <3>2, <3>3
  <2> QED BY <2>7, <2>8 DEF SlotsFree
<1> QED BY <1>5, <1>6

\* The slots that are left after a ubatch have none of its cells.
LEMMA SlotsProcess ==
  ASSUME CacheInv, SlotsFree, ProcessUbatch
  PROVE  SlotsFree'
<1> DEFINE slot == Head(todo).slot
           u == Head(todo).ubatch
<1>1. todo # <<>> /\ v_cells' = ApplyCells(v_cells, slot, u) /\ todo' = Tail(todo)
  BY DEF ProcessUbatch
<1>2. slot \in SlotFor(u) /\ u \in UbatchSet /\ v_cells \in CacheCells /\ todo \in Seq(Job)
  BY <1>1, NextJob DEF CacheInv
<1>3. Len(todo) \in Nat /\ 1 \in 1 .. Len(todo) /\ slot = todo[1].slot
  BY <1>1, <1>2
<1>4. Len(todo') = Len(todo) - 1 /\ \A k \in 1 .. Len(todo) - 1 : todo'[k] = todo[k + 1]
  BY <1>1, <1>2
<1>5. \A k \in 1 .. Len(todo) - 1 : k + 1 \in 1 .. Len(todo) /\ k + 1 # 1
  BY <1>3
<1> HIDE DEF slot, u
<1>6. ASSUME NEW k \in 1 .. Len(todo) - 1, NEW st \in Streams, NEW i \in Cells,
             InSlot((todo'[k]).slot, st, i)
      PROVE  /\ IsEmpty(v_cells'[st], i)
             /\ \A j \in 1 .. Len(todo) - 1 : InSlot((todo'[j]).slot, st, i) => j = k
  <2>1. k + 1 \in 1 .. Len(todo) /\ k + 1 # 1 /\ InSlot(todo[k + 1].slot, st, i)
    BY <1>4, <1>5, <1>6
  <2>2. /\ IsEmpty(v_cells[st], i)
        /\ \A j \in 1 .. Len(todo) : InSlot(todo[j].slot, st, i) => j = k + 1
    BY <2>1 DEF SlotsFree
  <2>3. ~InSlot(slot, st, i)
    BY <1>3, <2>1, <2>2
  <2>4. CellLess(v_cells'[st], v_cells[st], i)
    BY <1>1, <1>2, <2>3, ApplyIs
  <2>5. IsEmpty(v_cells'[st], i)
    BY <2>2, <2>4 DEF CellLess, IsEmpty
  <2>6. ASSUME NEW j \in 1 .. Len(todo) - 1, InSlot((todo'[j]).slot, st, i) PROVE j = k
    <3>1. j + 1 = k + 1
      BY <1>4, <1>5, <2>2, <2>6
    <3> QED BY <1>3, <3>1
  <2> QED BY <2>5, <2>6
<1> QED BY <1>4, <1>6 DEF SlotsFree

\* No call but a decode finds a ubatch to be done or leaves one.
LEMMA OtherCalls ==
  ASSUME Next, ~ProcessUbatch, ~AbortUbatch,
         ~\E b \in Batches, t \in Toks, shifted \in BOOLEAN : Decode(b, t, shifted)
  PROVE  todo = <<>> /\ todo' = <<>> /\ ret' \in {0, LoadFailed}
<1> DEFINE P == todo = <<>> /\ todo' = <<>> /\ ret' \in {0, LoadFailed}
<1>1. /\ Clear => P
      /\ \A s \in Seqs, r \in Ranges : SeqRm(s, r[1], r[2]) => P
      /\ \A r \in Ranges : SeqRmAny(r[1], r[2]) => P
  BY DEF Clear, SeqRm, SeqRmAny
<1>2. /\ \A s, d \in Seqs, r \in Ranges : SeqCpShare(s, d, r[1], r[2]) => P
      /\ \A s, d \in Seqs : SeqCpStream(s, d) => P
      /\ \A s \in Seqs : SeqKeep(s) => P
  BY DEF SeqCpShare, SeqCpStream, SeqKeep
<1>3. /\ \A s \in Seqs, r \in Ranges, d \in Deltas : SeqAdd(s, r[1], r[2], d) => P
      /\ \A s \in Seqs, r \in Ranges, d \in Divisors : SeqDiv(s, r[1], r[2], d) => P
  BY DEF SeqAdd, SeqDiv
<1>4. \A s \in Seqs : SaveSeq(s) \/ LoadSeq(s) => P
  <2>1. \A s \in Seqs : SaveSeq(s) => P
    BY DEF SaveSeq, MaySave
  <2>2. \A s \in Seqs : LoadSeq(s) => todo = <<>> /\ todo' = <<>>
    BY DEF LoadSeq, LoadOver, MaySave
  <2>3. \A s \in Seqs : LoadSeq(s) => ret' \in {0, LoadFailed}
    BY DEF LoadSeq, LoadOver
  <2> QED BY <2>1, <2>2, <2>3
<1> HIDE DEF P
<1>5. P
  BY <1>1, <1>2, <1>3, <1>4 DEF Next
<1> QED BY <1>5 DEF P

\* No call but a decode leaves a ubatch to be done.
LEMMA SlotsStep ==
  ASSUME NSwa = 0, CacheInv, SlotsFree, [Next]_vars
  PROVE  SlotsFree'
<1>1. CASE UNCHANGED vars
  BY <1>1 DEF vars, SlotsFree
<1>2. CASE \E b \in Batches, t \in Toks, shifted \in BOOLEAN : Decode(b, t, shifted)
  BY <1>2, SlotsDecode
<1>3. CASE ProcessUbatch
  BY <1>3, SlotsProcess
<1>4. CASE todo' = <<>>
  <2>1. Len(todo') = 0
    BY <1>4
  <2> QED BY <2>1 DEF SlotsFree
<1>5. CASE AbortUbatch
  BY <1>4, <1>5 DEF AbortUbatch
<1> QED BY <1>1, <1>2, <1>3, <1>4, <1>5, OtherCalls

\* So the slot of the next ubatch is empty.
LEMMA NextSlot ==
  ASSUME CacheInv, SlotsFree, todo # <<>>
  PROVE  LET slot == Head(todo).slot
         IN  /\ \A st \in Streams, i \in Cells : InSlot(slot, st, i) => IsEmpty(v_cells[st], i)
             /\ AllUsable(v_cells, slot)
<1> DEFINE slot == Head(todo).slot
<1>1. slot \in SlotSet /\ todo \in Seq(Job)
  BY NextJob DEF CacheInv
<1>2. 1 \in 1 .. Len(todo) /\ slot = todo[1].slot
  BY <1>1
<1> HIDE DEF slot
<1>3. \A st \in Streams, i \in Cells : InSlot(slot, st, i) => IsEmpty(v_cells[st], i)
  BY <1>2 DEF SlotsFree
<1>4. ASSUME NEW st \in DOMAIN slot, NEW i \in CellsOf(slot[st]) PROVE CanUse(v_cells[st], i)
  <2>1. InSlot(slot, st, i)
    BY DEF InSlot
  <2>2. st \in Streams /\ i \in Cells
    BY <1>1, <2>1, SlotCells DEF InSlot
  <2> QED BY <1>3, <2>1, <2>2 DEF CanUse
<1> QED BY <1>3, <1>4 DEF AllUsable, slot

\* The memory of a sequence is made of the cells in use, and of their tokens.
LEMMA MemIs ==
  ASSUME CacheInv, CacheInv', NEW s \in Seqs,
         SameCells(v_cells', v_cells),
         \A st \in Streams, i \in Cells :
           v_cells[st].pos[i] # -1 => CopiedStore(store)'[st][i].tok = CopiedStore(store)[st][i].tok
  PROVE  MemOf(s)' = MemOf(s)
<1> DEFINE st == Stream(s)
<1>1. st \in Streams
  BY StreamIs
<1> HIDE DEF st
<1>2. \A i \in Cells : v_cells'[st].pos[i] = v_cells[st].pos[i] /\ v_cells'[st].seq[i] = v_cells[st].seq[i]
  BY <1>1 DEF SameCells
<1>3. \A i \in Cells : s \in v_cells[st].seq[i] => v_cells[st].pos[i] # -1
  <2>1. Exact(v_cells[st])
    BY <1>1, CacheCellsIs DEF CacheInv, Good
  <2> QED BY <2>1 DEF Exact, IsEmpty
<1>4. \A t \in Toks, p \in Positions :
        {i \in Cells : s \in v_cells'[st].seq[i] /\ v_cells'[st].pos[i] = p /\ CopiedStore(store)'[st][i].tok = t}
      = {i \in Cells : s \in v_cells[st].seq[i] /\ v_cells[st].pos[i] = p /\ CopiedStore(store)[st][i].tok = t}
  BY <1>1, <1>2, <1>3
<1> QED BY <1>4 DEF MemOf, st

-----
(* What a sequence has before and after a ubatch. *)

\* A sequence loses positions up to the last one that is overwritten.
LEMMA UpToIs ==
  ASSUME NEW c, Good(c), NEW idxs, CellsOf(idxs) \subseteq Cells, NEW s \in Seqs
  PROVE  /\ UpTo(c, idxs)[s] \in Positions \cup {-1}
         /\ \A i \in CellsOf(idxs) : s \in c.seq[i] => c.pos[i] <= UpTo(c, idxs)[s]
         /\ UpTo(c, idxs)[s] # -1 =>
              \E i \in CellsOf(idxs) : s \in c.seq[i] /\ c.pos[i] = UpTo(c, idxs)[s]
<1> DEFINE lost == {c.pos[i] : i \in {j \in Over(c, idxs) : s \in c.seq[j]}}
           up == UpTo(c, idxs)[s]
<1>1. up = IF lost = {} THEN -1 ELSE CHOOSE p \in lost : \A q \in lost : p >= q
  BY DEF UpTo, LostUpTo
<1>2. \A i \in CellsOf(idxs) : s \in c.seq[i] => c.pos[i] \in lost
  BY CellHas DEF Over
<1>3. \A p \in lost : \E i \in CellsOf(idxs) : s \in c.seq[i] /\ c.pos[i] = p
  BY DEF Over
<1>4. lost \in SUBSET Positions
  BY CellHas DEF Over
<1> HIDE DEF lost, up
<1>5. CASE lost = {}
  BY <1>1, <1>2, <1>5 DEF up
<1>6. CASE lost # {}
  <2>1. up \in lost /\ \A q \in lost : up >= q
    BY <1>1, <1>4, <1>6, GreatestPosition
  <2>2. \A q \in lost : q \in Int
    BY <1>4, CellsAssumption DEF Positions
  <2>3. \A q \in lost : q <= up
    BY <2>1, <2>2
  <2> QED BY <1>2, <1>3, <1>4, <2>1, <2>3 DEF up
<1> QED BY <1>5, <1>6

\* What a cell has after tokens were placed: its token or what it had, unless that is purged.
LEMMA PlacedAt ==
  ASSUME NEW c, Good(c), NEW idxs \in Idxs, NEW toks \in Seq(Token), Len(toks) = Len(idxs),
         NEW i \in Cells, NEW s \in Seqs
  PROVE  LET d   == Placed(c, idxs, toks)
             in  == i \in CellsOf(idxs)
             at  == IF in THEN AtCell(idxs, toks, i).pos ELSE c.pos[i]
             has == IF in THEN s \in AtCell(idxs, toks, i).seqs ELSE s \in c.seq[i]
         IN  /\ s \in d.seq[i] <=> has /\ at > UpTo(c, idxs)[s]
             /\ s \in d.seq[i] => d.pos[i] = at
<1> DEFINE b == Laid(c, idxs, toks)
           up == UpTo(c, idxs)
           d == Placed(c, idxs, toks)
           at == IF i \in CellsOf(idxs) THEN AtCell(idxs, toks, i).pos ELSE c.pos[i]
           has == IF i \in CellsOf(idxs) THEN s \in AtCell(idxs, toks, i).seqs ELSE s \in c.seq[i]
<1>1. Good(b) /\ b.pos[i] = at /\ (s \in b.seq[i] <=> has)
  BY LaidIs
<1>2. up[s] \in Int
  <2>1. CellsOf(idxs) \subseteq Cells
    BY DEF CellsOf, Idxs
  <2>2. up[s] \in Positions \cup {-1}
    BY <2>1, UpToIs
  <2> QED BY <2>2 DEF Positions
<1>3. d = Purged(b, up)
  BY PlacedIs
<1> HIDE DEF b, up, d, at, has
<1>4. b \in CellsType
  BY <1>1 DEF Good
<1>5. \A j \in Cells :
        /\ Purged(b, up).pos[j] = IF j \in PurgedOut(b, up) THEN -1 ELSE b.pos[j]
        /\ Purged(b, up).shift[j] = IF j \in PurgedOut(b, up) THEN 0 ELSE b.shift[j]
        /\ Purged(b, up).seq[j] = b.seq[j] \ Gone(b, up)[j]
  BY <1>4, PurgedFields
<1>6. Gone(b, up)[i] = {r \in b.seq[i] : b.pos[i] <= up[r]}
  BY DEF Gone
<1>7. s \in d.seq[i] <=> s \in b.seq[i] /\ ~(b.pos[i] <= up[s])
  BY <1>3, <1>5, <1>6
<1>8. s \in b.seq[i] => b.pos[i] \in Int
  BY <1>1, CellHas
<1>9. s \in d.seq[i] => d.pos[i] = b.pos[i]
  BY <1>3, <1>5, <1>6 DEF PurgedOut
<1> QED BY <1>1, <1>2, <1>7, <1>8, <1>9 DEF b, up, d, at, has

\* So it is in every stream after a ubatch.
LEMMA CellApplied ==
  ASSUME NEW cs \in CacheCells, NEW u \in UbatchSet, NEW slot \in SlotFor(u),
         NEW st \in Streams, NEW i \in Cells, NEW s \in Seqs
  PROVE  LET new == ApplyCells(cs, slot, u)
             in  == InSlot(slot, st, i)
             at  == IF in THEN AtCell(slot[st], u[st], i).pos ELSE cs[st].pos[i]
             has == IF in THEN s \in AtCell(slot[st], u[st], i).seqs ELSE s \in cs[st].seq[i]
         IN  /\ s \in new[st].seq[i] <=>
                  has /\ (st \in DOMAIN u => at > UpTo(cs[st], slot[st])[s])
             /\ s \in new[st].seq[i] => new[st].pos[i] = at
<1> DEFINE new == ApplyCells(cs, slot, u)
<1>1. new[st] = IF st \in DOMAIN u THEN Placed(cs[st], slot[st], u[st]) ELSE cs[st]
  BY DEF ApplyCells
<1>2. DOMAIN slot = DOMAIN u
  BY SlotForIs
<1> HIDE DEF new
<1>3. CASE st \notin DOMAIN u
  <2>1. new[st] = cs[st] /\ ~InSlot(slot, st, i)
    BY <1>1, <1>2, <1>3 DEF InSlot
  <2> QED BY <1>3, <2>1 DEF new
<1>4. CASE st \in DOMAIN u
  <2>1. slot[st] \in Idxs /\ u[st] \in Seq(Token) /\ Len(u[st]) = Len(slot[st])
    BY <1>2, <1>4, SlotForIs, UbatchIs
  <2>2. Good(cs[st])
    BY CacheCellsIs
  <2>3. new[st] = Placed(cs[st], slot[st], u[st]) /\ (InSlot(slot, st, i) <=> i \in CellsOf(slot[st]))
    BY <1>1, <1>2, <1>4 DEF InSlot
  <2> QED BY <1>4, <2>1, <2>2, <2>3, PlacedAt DEF new
<1> QED BY <1>3, <1>4

\* Each token of a ubatch goes to a cell of its slot, and each cell gets one of them.
LEMMA TokenAt ==
  ASSUME NEW u \in UbatchSet, NEW slot \in SlotFor(u), NEW st \in Streams
  PROVE  /\ \A i \in Cells : InSlot(slot, st, i) => AtCell(slot[st], u[st], i) \in TokensOf(u)
         /\ \A x \in TokensOf(u), s \in Seqs : s \in x.seqs /\ Stream(s) = st =>
              \E i \in Cells : InSlot(slot, st, i) /\ AtCell(slot[st], u[st], i) = x
<1>1. DOMAIN slot = DOMAIN u
  BY SlotForIs
<1>2. ASSUME NEW i \in Cells, InSlot(slot, st, i) PROVE AtCell(slot[st], u[st], i) \in TokensOf(u)
  <2>1. /\ st \in DOMAIN u /\ i \in CellsOf(slot[st]) /\ slot[st] \in Idxs
        /\ u[st] \in Seq(Token) /\ Len(u[st]) = Len(slot[st])
    BY <1>1, <1>2, SlotForIs, UbatchIs DEF InSlot
  <2>2. PICK k \in 1 .. Len(slot[st]) : AtCell(slot[st], u[st], i) = u[st][k]
    BY <2>1, AtCellIs
  <2> QED BY <2>1, <2>2, TokensAre
<1>3. ASSUME NEW x \in TokensOf(u), NEW s \in Seqs, s \in x.seqs, Stream(s) = st
      PROVE  \E i \in Cells : InSlot(slot, st, i) /\ AtCell(slot[st], u[st], i) = x
  <2>1. PICK r \in DOMAIN u : \E k \in DOMAIN u[r] : x = u[r][k]
    BY DEF TokensOf
  <2>2. PICK k \in DOMAIN u[r] : x = u[r][k]
    BY <2>1
  <2>3. k \in 1 .. Len(u[r]) /\ r = st
    BY <1>3, <2>2, UbatchIs
  <2>4. /\ slot[st] \in Idxs /\ Len(slot[st]) = Len(u[st]) /\ NoRepeat(slot[st])
        /\ CellsOf(slot[st]) \subseteq Cells /\ st \in DOMAIN slot
    BY <1>1, <2>3, SlotForIs
  <2>5. DOMAIN slot[st] = 1 .. Len(slot[st]) /\ k \in 1 .. Len(slot[st])
    BY <2>3, <2>4 DEF Idxs
  <2> DEFINE i == slot[st][k]
  <2>6. i \in CellsOf(slot[st])
    BY <2>5 DEF CellsOf
  <2>7. (CHOOSE j \in DOMAIN slot[st] : slot[st][j] = i) = k
    BY <2>4, <2>5 DEF NoRepeat
  <2>8. AtCell(slot[st], u[st], i) = x
    BY <2>2, <2>3, <2>7 DEF AtCell
  <2> HIDE DEF i
  <2> QED BY <2>4, <2>6, <2>8 DEF InSlot
<1> QED BY <1>2, <1>3

\* A sequence has after a ubatch what it had and what the ubatch brings, less what is
\* purged.
LEMMA ApplyHolds ==
  ASSUME NEW cs \in CacheCells, NEW u \in UbatchSet, NEW slot \in SlotFor(u),
         NEW s \in Seqs, NEW p \in Positions
  PROVE  Holds(ApplyCells(cs, slot, u), s, p) <=>
           (Holds(cs, s, p) \/ Brings(u, s, p)) /\ Spared(cs, slot, u, s, p)
<1> DEFINE new == ApplyCells(cs, slot, u)
           st == Stream(s)
           at(i) == IF InSlot(slot, st, i) THEN AtCell(slot[st], u[st], i).pos ELSE cs[st].pos[i]
           has(i) == IF InSlot(slot, st, i) THEN s \in AtCell(slot[st], u[st], i).seqs
                     ELSE s \in cs[st].seq[i]
           up == UpTo(cs[st], slot[st])[s]
<1>1. st \in Streams /\ DOMAIN slot = DOMAIN u
  BY StreamIs, SlotForIs
<1>2. \A i \in Cells : /\ s \in new[st].seq[i] <=> has(i) /\ (st \in DOMAIN u => at(i) > up)
                       /\ s \in new[st].seq[i] => new[st].pos[i] = at(i)
  <2> SUFFICES ASSUME NEW i \in Cells
               PROVE  /\ s \in new[st].seq[i] <=> has(i) /\ (st \in DOMAIN u => at(i) > up)
                      /\ s \in new[st].seq[i] => new[st].pos[i] = at(i)
    OBVIOUS
  <2> HIDE DEF st
  <2> QED BY <1>1, CellApplied
<1>3. /\ \A i \in Cells : InSlot(slot, st, i) => AtCell(slot[st], u[st], i) \in TokensOf(u)
      /\ \A x \in TokensOf(u) : s \in x.seqs =>
           \E i \in Cells : InSlot(slot, st, i) /\ AtCell(slot[st], u[st], i) = x
  BY <1>1, TokenAt
<1>4. Spared(cs, slot, u, s, p) <=> (st \in DOMAIN u => p > up)
  BY DEF Spared
<1>5. \A i \in Cells : InSlot(slot, st, i) /\ s \in cs[st].seq[i] =>
        st \in DOMAIN u /\ ~(cs[st].pos[i] > up)
  <2> SUFFICES ASSUME NEW i \in Cells, InSlot(slot, st, i), s \in cs[st].seq[i]
               PROVE  st \in DOMAIN u /\ ~(cs[st].pos[i] > up)
    OBVIOUS
  <2>1. st \in DOMAIN u /\ i \in CellsOf(slot[st]) /\ Good(cs[st]) /\ CellsOf(slot[st]) \subseteq Cells
    BY <1>1, SlotForIs, CacheCellsIs DEF InSlot
  <2>2. cs[st].pos[i] \in Nat
    BY <2>1, CellHas
  <2>3. cs[st].pos[i] <= up /\ up \in Positions \cup {-1}
    <3> HIDE DEF st
    <3> QED BY <2>1, UpToIs
  <2>4. up \in Int
    BY <2>3, CellsAssumption DEF Positions
  <2> HIDE DEF up, st
  <2> QED BY <2>1, <2>2, <2>3, <2>4
<1> HIDE DEF up, new, st
<1>6. ASSUME Holds(new, s, p)
      PROVE  (Holds(cs, s, p) \/ Brings(u, s, p)) /\ Spared(cs, slot, u, s, p)
  <2>1. PICK i \in Cells : s \in new[st].seq[i] /\ new[st].pos[i] = p
    BY <1>6 DEF Holds, st
  <2>2. has(i) /\ at(i) = p /\ (st \in DOMAIN u => p > up)
    BY <1>2, <2>1
  <2>3. CASE InSlot(slot, st, i)
    BY <1>3, <1>4, <2>2, <2>3 DEF Brings
  <2>4. CASE ~InSlot(slot, st, i)
    BY <1>4, <2>2, <2>4 DEF Holds, st
  <2> QED BY <2>3, <2>4
<1>7. ASSUME Spared(cs, slot, u, s, p), Brings(u, s, p) PROVE Holds(new, s, p)
  <2>1. PICK x \in TokensOf(u) : s \in x.seqs /\ x.pos = p
    BY <1>7 DEF Brings
  <2>2. PICK i \in Cells : InSlot(slot, st, i) /\ AtCell(slot[st], u[st], i) = x
    BY <1>3, <2>1
  <2>3. s \in new[st].seq[i] /\ new[st].pos[i] = p
    BY <1>2, <1>4, <1>7, <2>1, <2>2
  <2> QED BY <2>3 DEF Holds, st
<1>8. ASSUME Spared(cs, slot, u, s, p), Holds(cs, s, p) PROVE Holds(new, s, p)
  <2>1. PICK i \in Cells : s \in cs[st].seq[i] /\ cs[st].pos[i] = p
    BY <1>8 DEF Holds, st
  <2>2. ~InSlot(slot, st, i)
    BY <1>4, <1>5, <1>8, <2>1
  <2>3. s \in new[st].seq[i] /\ new[st].pos[i] = p
    BY <1>2, <1>4, <1>8, <2>1, <2>2
  <2> QED BY <2>3 DEF Holds, st
<1> QED BY <1>6, <1>7, <1>8 DEF new

\* Nothing is purged from a slot that was empty.
LEMMA EmptySpares ==
  ASSUME NSwa = 0, NEW cs \in CacheCells, NEW u \in UbatchSet, NEW slot \in SlotFor(u),
         AllUsable(cs, slot), NEW s \in Seqs, NEW p \in Positions
  PROVE  Spared(cs, slot, u, s, p)
<1> DEFINE st == Stream(s)
           up == UpTo(cs[st], slot[st])[s]
<1>1. SUFFICES ASSUME st \in DOMAIN u PROVE p > up
  BY DEF Spared
<1>2. st \in Streams /\ st \in DOMAIN slot /\ CellsOf(slot[st]) \subseteq Cells /\ Good(cs[st])
  BY <1>1, StreamIs, SlotForIs, CacheCellsIs
<1>3. \A i \in CellsOf(slot[st]) : IsEmpty(cs[st], i)
  BY <1>2 DEF AllUsable, CanUse, MaskedSwa
<1>4. Over(cs[st], slot[st]) = {}
  BY <1>3 DEF Over
<1>5. up = -1
  BY <1>4 DEF UpTo, LostUpTo
<1> HIDE DEF up
<1> QED BY <1>5, CellsAssumption DEF Positions

\* Appending leaves no gap.
LEMMA AppendConvex ==
  ASSUME NEW H \in SUBSET Nat, NEW N \in SUBSET Nat, Convex(H),
         \A n \in N, h \in H : h < n,
         \A n \in N : n = 0 \/ n - 1 \in H \cup N
  PROVE  Convex(H \cup N)
<1> SUFFICES ASSUME NEW p \in H \cup N, NEW q \in H \cup N, NEW r \in p .. q
             PROVE  r \in H \cup N
  BY DEF Convex
<1> DEFINE S == {d \in 0 .. q - p : q - d \in H \cup N}
<1>1. p \in Nat /\ q \in Nat /\ r \in Nat /\ p <= r /\ r <= q /\ q - p \in Nat
  OBVIOUS
<1>2. 0 \in S
  BY <1>1
<1>3. ASSUME NEW d \in 1 .. q - p, d - 1 \in S PROVE d \in S
  <2> DEFINE x == q - (d - 1)
  <2>1. x \in H \cup N /\ x \in Nat /\ x - 1 \in Nat /\ p <= x - 1 /\ x - 1 = q - d /\ d \in 0 .. q - p
    BY <1>1, <1>3
  <2> HIDE DEF x, S
  <2>2. CASE x \in N
    <3>1. x - 1 \in H \cup N
      BY <2>1, <2>2
    <3> QED BY <2>1, <3>1 DEF S
  <2>3. CASE x \in H
    <3>1. p \in H
      <4>1. p < x
        BY <1>1, <2>1
      <4> QED BY <1>1, <2>1, <2>3, <4>1
    <3>2. x - 1 \in p .. x
      BY <1>1, <2>1
    <3>3. x - 1 \in H
      BY <2>3, <3>1, <3>2 DEF Convex
    <3> QED BY <2>1, <3>3 DEF S
  <2> QED BY <2>1, <2>2, <2>3
<1> HIDE DEF S
<1>4. \A d \in 0 .. q - p : d \in S
  BY <1>1, <1>2, <1>3, Induct
<1>5. q - r \in 0 .. q - p /\ q - (q - r) = r
  BY <1>1
<1> QED BY <1>4, <1>5 DEF S

\* So placing a ubatch that follows leaves none, whatever it purges.
LEMMA PlacedConvex ==
  ASSUME NEW cs \in CacheCells, NEW u \in UbatchSet, NEW slot \in SlotFor(u), NEW s \in Seqs,
         Follows(cs, u, s), Convex(Has(cs, s))
  PROVE  Convex(Has(ApplyCells(cs, slot, u), s))
<1> DEFINE H == Has(cs, s)
           N == {p \in Positions : Brings(u, s, p)}
           new == ApplyCells(cs, slot, u)
           st == Stream(s)
           up == UpTo(cs[st], slot[st])[s]
<1>1. Positions \subseteq Nat /\ MaxPos \in Nat
  BY CellsAssumption DEF Positions
<1>2. Convex(H \cup N)
  <2>1. H \in SUBSET Nat /\ N \in SUBSET Nat /\ Convex(H)
    BY <1>1 DEF Has
  <2>2. \A n \in N, h \in H : h < n
    BY DEF Follows, Has
  <2>3. \A n \in N : n = 0 \/ n - 1 \in H \cup N
    <3> SUFFICES ASSUME NEW n \in N, n # 0 PROVE n - 1 \in H \cup N
      OBVIOUS
    <3>1. n - 1 \in Positions
      BY CellsAssumption DEF Positions
    <3> QED BY <3>1 DEF Follows, Has
  <2> HIDE DEF H, N
  <2> QED BY <2>1, <2>2, <2>3, AppendConvex
<1>3. \A p \in Positions : p \in Has(new, s) <=> p \in H \cup N /\ Spared(cs, slot, u, s, p)
  BY ApplyHolds DEF Has
<1>4. ASSUME NEW p \in Positions, NEW r \in Positions, p <= r, Spared(cs, slot, u, s, p)
      PROVE  Spared(cs, slot, u, s, r)
  <2>1. SUFFICES ASSUME st \in DOMAIN u PROVE r > up
    BY DEF Spared
  <2>2. p > up
    BY <1>4, <2>1 DEF Spared
  <2>3. Good(cs[st]) /\ CellsOf(slot[st]) \subseteq Cells
    BY <2>1, StreamIs, SlotForIs, CacheCellsIs
  <2>4. up \in Positions \cup {-1}
    <3> HIDE DEF st
    <3> QED BY <2>3, UpToIs
  <2> HIDE DEF up
  <2> QED BY <1>1, <1>4, <2>2, <2>4
<1>5. Has(new, s) \subseteq Positions
  BY DEF Has
<1> HIDE DEF H, N, new
<1>6. ASSUME NEW p \in Has(new, s), NEW q \in Has(new, s), NEW r \in p .. q
      PROVE  r \in Has(new, s)
  <2>1. p \in Positions /\ q \in Positions /\ p \in H \cup N /\ q \in H \cup N /\ Spared(cs, slot, u, s, p)
    BY <1>3, <1>5
  <2>2. r \in Positions /\ p <= r
    BY <2>1, CellsAssumption DEF Positions
  <2>3. r \in H \cup N
    BY <1>2, <2>1 DEF Convex
  <2> QED BY <1>3, <1>4, <2>1, <2>2, <2>3
<1> QED BY <1>6 DEF Convex, new

\* What a sequence has left after it is cut before u.
LEMMA CutHolds ==
  ASSUME NEW cs \in CacheCells, NEW new \in CacheCells, NEW u, NEW s \in Seqs,
         new[Stream(s)] \in Thinned(cs[Stream(s)]),
         Cut(cs[Stream(s)], new[Stream(s)], u, {r \in Seqs : Stream(r) = Stream(s)})
  PROVE  \A p : Holds(new, s, p) <=> Holds(cs, s, p) /\ Ahead(u, s, p)
<1> DEFINE c == cs[Stream(s)]
           d == new[Stream(s)]
<1>1. \A i \in Cells : s \in d.seq[i] <=> s \in c.seq[i] /\ Ahead(u, s, c.pos[i])
  BY DEF Cut
<1>2. \A i \in Cells : s \in d.seq[i] => d.pos[i] = c.pos[i]
  BY ThinnedAt
<1> HIDE DEF c, d
<1> QED BY <1>1, <1>2 DEF Holds, c, d

\* Cutting leaves no gap.
LEMMA CutConvex ==
  ASSUME NEW cs, NEW new, NEW u \in UbatchSet, NEW s \in Seqs, Convex(Has(cs, s)),
         \A p : Holds(new, s, p) <=> Holds(cs, s, p) /\ Ahead(u, s, p)
  PROVE  Convex(Has(new, s))
<1> SUFFICES ASSUME NEW p \in Has(new, s), NEW q \in Has(new, s), NEW r \in p .. q
             PROVE  r \in Has(new, s)
  BY DEF Convex
<1>1. p \in Has(cs, s) /\ q \in Has(cs, s) /\ Ahead(u, s, q) /\ q \in Positions
  BY DEF Has
<1>2. r \in Has(cs, s)
  BY <1>1 DEF Convex
<1>3. Ahead(u, s, r)
  <2> SUFFICES ASSUME NEW x \in TokensOf(u), FirstSeq(x) = s PROVE r < x.pos
    BY DEF Ahead
  <2>1. q < x.pos /\ x.pos \in Positions /\ p \in Positions
    BY <1>1, TokensAre, TokenFields DEF Ahead, Has
  <2> QED BY <1>1, <2>1, CellsAssumption DEF Positions
<1> QED BY <1>2, <1>3 DEF Has

-----
(* The ubatches of a batch follow what the cache has, and one another. *)

\* The positions that are counted are those that the cells have.
LEMMA KeysAre ==
  ASSUME NEW cs \in CacheCells, NEW s \in Seqs, NEW p \in Positions
  PROVE  Holds(cs, s, p) <=> p \in Keys(cs[Stream(s)], s)
<1> DEFINE c == cs[Stream(s)]
           S == {i \in Cells : s \in c.seq[i] /\ c.pos[i] = p}
<1>1. Good(c)
  BY StreamIs, CacheCellsIs
<1> HIDE DEF c
<1>2. c.seq_pos[s][p] = Cardinality(S)
  BY <1>1 DEF Good, Exact, Counts
<1>3. IsFiniteSet(S)
  <2>1. IsFiniteSet(Cells) /\ S \in SUBSET Cells
    BY CellsAssumption, FS_Interval DEF Cells
  <2> HIDE DEF S
  <2> QED BY <2>1, FS_Subset
<1>4. S # {} <=> Cardinality(S) # 0
  <2> HIDE DEF S
  <2> QED BY <1>3, FS_EmptySet
<1>5. Holds(cs, s, p) <=> S # {}
  BY DEF Holds, c
<1> HIDE DEF S
<1> QED BY <1>2, <1>4, <1>5 DEF Keys, c

\* So seq_pos_max is the last position that the cells have of a sequence.
LEMMA LastPosition ==
  ASSUME NEW cs \in CacheCells, NEW s \in Seqs
  PROVE  LET m == SeqPosMax(cs[Stream(s)], s)
         IN  /\ m \in Positions \cup {-1}
             /\ m # -1 => Holds(cs, s, m)
             /\ \A q \in Positions : Holds(cs, s, q) => q <= m
<1> DEFINE c == cs[Stream(s)]
           m == SeqPosMax(c, s)
           K == Keys(c, s)
<1>1. /\ m \in Positions \cup {-1}
      /\ K = {} => m = -1
      /\ K # {} => m \in K /\ \A q \in K : m >= q
  <2> HIDE DEF c
  <2> QED BY SeqPosMaxIs
<1>2. \A q \in Positions : Holds(cs, s, q) <=> q \in K
  BY KeysAre
<1>3. K \subseteq Positions
  BY DEF Keys
<1>4. -1 \notin Positions /\ \A q \in Positions : q \in Int
  BY CellsAssumption DEF Positions
<1> HIDE DEF m, K, c
<1>5. m # -1 => Holds(cs, s, m)
  BY <1>1, <1>2, <1>3
<1>6. \A q \in Positions : Holds(cs, s, q) => q <= m
  <2> SUFFICES ASSUME NEW q \in Positions, Holds(cs, s, q) PROVE q <= m
    OBVIOUS
  <2>1. q \in K /\ m \in K /\ m >= q
    BY <1>1, <1>2
  <2>2. m \in Int /\ q \in Int
    BY <1>3, <1>4, <2>1
  <2> QED BY <2>1, <2>2
<1> QED BY <1>1, <1>5, <1>6 DEF m, c

\* How many tokens of a sequence come before place k of a batch.
LEMMA BeforeIs ==
  ASSUME NEW b \in Batches, NEW s \in Seqs, NEW k \in Places(b), s \in b[k]
  PROVE  /\ Before(b, k, s) \in Nat
         /\ \A j \in Places(b) : j < k /\ s \in b[j] => Before(b, j, s) < Before(b, k, s)
         /\ Before(b, k, s) # 0 =>
              \E j \in Places(b) : j < k /\ s \in b[j] /\ Before(b, j, s) = Before(b, k, s) - 1
<1> DEFINE S(j) == {i \in 1 .. j - 1 : s \in b[i]}
           n == Len(b)
<1>1. n \in Nat /\ Places(b) = 1 .. n /\ k \in 1 .. n
  BY BatchIs DEF Places
<1>2. \A j \in 1 .. n : IsFiniteSet(S(j)) /\ Cardinality(S(j)) \in Nat /\ Before(b, j, s) = Cardinality(S(j))
  <2> SUFFICES ASSUME NEW j \in 1 .. n
               PROVE  /\ IsFiniteSet(S(j)) /\ Cardinality(S(j)) \in Nat
                      /\ Before(b, j, s) = Cardinality(S(j))
    OBVIOUS
  <2>1. S(j) \in SUBSET (1 .. j - 1) /\ IsFiniteSet(1 .. j - 1)
    <3>1. 1 \in Int /\ j - 1 \in Int
      BY <1>1
    <3>2. IsFiniteSet(1 .. j - 1)
      BY <3>1, FS_Interval
    <3> QED BY <3>2
  <2>2. Before(b, j, s) = Cardinality(S(j))
    BY DEF Before
  <2> HIDE DEF S
  <2> QED BY <2>1, <2>2, FS_Subset, FS_CardinalityType
<1> HIDE DEF n
<1>3. ASSUME NEW j \in Places(b), j < k, s \in b[j] PROVE Before(b, j, s) < Before(b, k, s)
  <2>1. S(j) \in SUBSET S(k) /\ j \in S(k) /\ j \notin S(j) /\ j \in 1 .. n
    BY <1>1, <1>3
  <2> HIDE DEF S
  <2>2. Cardinality(S(j)) <= Cardinality(S(k)) /\ Cardinality(S(j)) # Cardinality(S(k))
    BY <1>1, <1>2, <2>1, FS_Subset
  <2> QED BY <1>1, <1>2, <2>1, <2>2
<1>4. ASSUME Before(b, k, s) # 0
      PROVE  \E j \in Places(b) : j < k /\ s \in b[j] /\ Before(b, j, s) = Before(b, k, s) - 1
  <2> DEFINE r == Cardinality(S(k))
             T == S(k)
  <2>1. r \in Nat /\ r # 0 /\ IsFiniteSet(T) /\ T \subseteq Nat
    BY <1>1, <1>2, <1>4
  <2> HIDE DEF T
  <2>2. r \in 1 .. Cardinality(T)
    BY <2>1 DEF T
  <2>3. PICK j \in T : Cardinality({i \in T : i < j}) = r - 1
    BY <2>1, <2>2, KthExists
  <2>4. j \in 1 .. k - 1 /\ s \in b[j] /\ j \in 1 .. n /\ j < k
    BY <1>1 DEF T
  <2>5. {i \in T : i < j} = S(j)
    BY <1>1, <2>4 DEF T
  <2> HIDE DEF S
  <2>6. Before(b, j, s) = Before(b, k, s) - 1
    BY <1>1, <1>2, <2>3, <2>4, <2>5
  <2> QED BY <1>1, <2>4, <2>6
<1> HIDE DEF S
<1> QED BY <1>1, <1>2, <1>3, <1>4

\* A batch is split in the order of each sequence.
LEMMA SplitIs ==
  ASSUME NEW b \in Batches
  PROVE  Split(b) \in Seq(Parts(b)) /\ InTurn(b, Split(b))
<1>1. NStream \in {1, NSeqs} /\ NSeqs \in Nat \ {0}
  BY CacheAssumption, CellsAssumption
<1>2. CASE NStream = 1
  BY <1>2, SimpleSplitIs DEF Split
<1>3. CASE NStream # 1
  <2>1. NStream > 1
    BY <1>1, <1>3
  <2> QED BY <1>3, <2>1, EqualSplitIs DEF Split
<1> QED BY <1>2, <1>3

\* The tokens of a ubatch are those at the places of its part of the split.
LEMMA UbatchTokens ==
  ASSUME NEW cs, NEW b \in Batches, NEW t
  PROVE  /\ Len(Ubatches(cs, b, t)) = Len(Split(b)) /\ Len(Split(b)) \in Nat
         /\ \A l \in 1 .. Len(Split(b)) :
              /\ Indices(Split(b)[l]) \subseteq Places(b)
              /\ \A x \in TokensOf(Ubatches(cs, b, t)[l]) :
                   \E k \in Indices(Split(b)[l]) : x = TokenOf(cs, b, t, k)
              /\ \A k \in Indices(Split(b)[l]) :
                   TokenOf(cs, b, t, k) \in TokensOf(Ubatches(cs, b, t)[l])
<1> DEFINE split == Split(b)
           us == Ubatches(cs, b, t)
           of(p) == [st \in DOMAIN p |-> [k \in DOMAIN p[st] |-> TokenOf(cs, b, t, p[st][k])]]
<1>1. us = [j \in DOMAIN split |-> of(split[j])]
  BY DEF Ubatches, Split, TokenOf
<1>2. split \in Seq(Parts(b))
  BY SplitIs
<1> HIDE DEF split
<1>3. Len(split) \in Nat /\ DOMAIN split = 1 .. Len(split) /\ \A l \in 1 .. Len(split) : split[l] \in Parts(b)
  BY <1>2
<1> HIDE DEF of, us
<1>4. Len(us) = Len(split) /\ \A l \in 1 .. Len(split) : us[l] = of(split[l])
  BY <1>1, <1>3
<1>5. ASSUME NEW p \in Parts(b)
      PROVE  /\ Indices(p) \subseteq Places(b)
             /\ \A x : x \in TokensOf(of(p)) <=> \E k \in Indices(p) : x = TokenOf(cs, b, t, k)
  <2>1. PICK D \in SUBSET Streams : p \in [D -> NonEmpty(Places(b))]
    BY DEF Parts
  <2>2. \A st \in DOMAIN p : \A k \in DOMAIN p[st] : p[st][k] \in Places(b)
    <3>1. \A st \in DOMAIN p : p[st] \in Seq(Places(b))
      BY <2>1 DEF NonEmpty
    <3> QED BY <3>1
  <2>3. Indices(p) \subseteq Places(b)
    BY <2>2 DEF Indices
  <2>4. /\ DOMAIN of(p) = DOMAIN p
        /\ \A st \in DOMAIN p : /\ DOMAIN of(p)[st] = DOMAIN p[st]
                                /\ \A k \in DOMAIN p[st] : of(p)[st][k] = TokenOf(cs, b, t, p[st][k])
    BY DEF of
  <2> HIDE DEF of
  <2>5. \A x : x \in TokensOf(of(p)) <=>
               \E st \in DOMAIN p : \E k \in DOMAIN p[st] : x = TokenOf(cs, b, t, p[st][k])
    BY <2>4 DEF TokensOf
  <2>6. \A k : k \in Indices(p) <=> \E st \in DOMAIN p : \E j \in DOMAIN p[st] : k = p[st][j]
    BY DEF Indices
  <2>7. \A x : x \in TokensOf(of(p)) <=> \E k \in Indices(p) : x = TokenOf(cs, b, t, k)
    BY <2>5, <2>6
  <2> QED BY <2>3, <2>7
<1> QED BY <1>3, <1>4, <1>5 DEF us, split

\* A ubatch brings to a sequence what the places of its part bring.
LEMMA BringsIs ==
  ASSUME NEW cs, NEW b \in Batches, ValidBatch(cs, b), NEW t, NEW l \in 1 .. Len(Split(b)),
         NEW s \in Seqs, NEW p
  PROVE  /\ Brings(Ubatches(cs, b, t)[l], s, p) <=>
              \E k \in Indices(Split(b)[l]) : s \in b[k] /\ PosAt(cs, b, k, s) = p
         /\ Indices(Split(b)[l]) \subseteq Places(b)
<1> DEFINE I == Indices(Split(b)[l])
           u == Ubatches(cs, b, t)[l]
<1>1. /\ I \subseteq Places(b)
      /\ \A x \in TokensOf(u) : \E k \in I : x = TokenOf(cs, b, t, k)
      /\ \A k \in I : TokenOf(cs, b, t, k) \in TokensOf(u)
  BY UbatchTokens
<1>2. \A k \in Places(b) : s \in b[k] => PosAt(cs, b, k, SeqAt(b, k)) = PosAt(cs, b, k, s)
  <2>1. \A k \in Places(b) : k \in DOMAIN b /\ SeqAt(b, k) \in b[k]
    BY BatchIs DEF Places
  <2> QED BY <2>1 DEF ValidBatch
<1> HIDE DEF I, u
<1>3. \A k \in I : s \in b[k] =>
        TokenOf(cs, b, t, k).seqs = b[k] /\ TokenOf(cs, b, t, k).pos = PosAt(cs, b, k, s)
  BY <1>1, <1>2 DEF TokenOf
<1>4. \A k : TokenOf(cs, b, t, k).seqs = b[k]
  BY DEF TokenOf
<1> QED BY <1>1, <1>3, <1>4 DEF Brings, I, u

\* So the ubatches of a decode follow what the cache has, and one another.
LEMMA AppendsNow ==
  ASSUME NEW cs \in CacheCells, NEW b \in Batches, ValidBatch(cs, b), NEW t
  PROVE  Appends(cs, Ubatches(cs, b, t))
<1> DEFINE split == Split(b)
           us == Ubatches(cs, b, t)
           I(l) == Indices(split[l])
<1>1. /\ Len(us) = Len(split) /\ Len(us) \in Nat /\ split \in Seq(Parts(b)) /\ InTurn(b, split)
  BY UbatchTokens, SplitIs
<1>2. \A l \in 1 .. Len(split), s \in Seqs, p \in Positions :
        Brings(us[l], s, p) <=> \E k \in I(l) : s \in b[k] /\ PosAt(cs, b, k, s) = p
  BY BringsIs
<1>3. \A l \in 1 .. Len(split) : I(l) \subseteq Places(b)
  BY UbatchTokens
<1>4. \A l \in 1 .. Len(split), k \in Places(b), q \in Places(b) : k \in I(l) /\ b[q] \cap b[k] # {} =>
        /\ q < k => \E j \in 1 .. l : q \in I(j)
        /\ \A j \in 1 .. l - 1 : q \in I(j) => q < k
  BY <1>1 DEF InTurn, Kin
<1> HIDE DEF split, us, I
<1> SUFFICES ASSUME NEW l \in 1 .. Len(us), NEW s \in Seqs, NEW p \in Positions, Brings(us[l], s, p)
             PROVE  /\ \A q \in Positions : Holds(cs, s, q) => q < p
                    /\ \A j \in 1 .. l - 1, q \in Positions : Brings(us[j], s, q) => q < p
                    /\ p = 0 \/ Holds(cs, s, p - 1) \/ \E j \in 1 .. l : Brings(us[j], s, p - 1)
  BY DEF Appends, us
<1> DEFINE m == SeqPosMax(cs[Stream(s)], s)
           Bef(k) == Before(b, k, s)
<1>5. /\ m \in Positions \cup {-1}
      /\ m # -1 => Holds(cs, s, m)
      /\ \A q \in Positions : Holds(cs, s, q) => q <= m
  BY LastPosition
<1>6. \A k : PosAt(cs, b, k, s) = m + 1 + Bef(k)
  BY DEF PosAt
<1>7. \A k \in Places(b) : s \in b[k] =>
        /\ Bef(k) \in Nat
        /\ \A j \in Places(b) : j < k /\ s \in b[j] => Bef(j) < Bef(k)
        /\ Bef(k) # 0 => \E j \in Places(b) : j < k /\ s \in b[j] /\ Bef(j) = Bef(k) - 1
  BY BeforeIs
<1> HIDE DEF m, Bef
<1>8. m \in Int /\ Positions \subseteq Nat /\ m >= -1
  <2>1. Positions \subseteq Nat
    BY CellsAssumption DEF Positions
  <2>2. m \in Nat \cup {-1}
    BY <1>5, <2>1
  <2> QED BY <2>1, <2>2
<1>9. PICK k \in I(l) : s \in b[k] /\ m + 1 + Bef(k) = p
  BY <1>1, <1>2, <1>6
<1>10. l \in 1 .. Len(split) /\ k \in Places(b) /\ Bef(k) \in Nat
  BY <1>1, <1>3, <1>7, <1>9
<1>11. \A q \in Positions : Holds(cs, s, q) => q < p
  <2> SUFFICES ASSUME NEW q \in Positions, Holds(cs, s, q) PROVE q < p
    OBVIOUS
  <2>1. q <= m /\ q \in Nat
    BY <1>5, <1>8
  <2> QED BY <1>8, <1>9, <1>10, <2>1
<1>12. ASSUME NEW j \in 1 .. l - 1, NEW q \in Positions, Brings(us[j], s, q) PROVE q < p
  <2>1. j \in 1 .. Len(split)
    BY <1>1
  <2>2. PICK i \in I(j) : s \in b[i] /\ m + 1 + Bef(i) = q
    BY <1>2, <1>6, <1>12, <2>1
  <2>3. i \in Places(b) /\ b[i] \cap b[k] # {}
    BY <1>3, <1>9, <2>1, <2>2
  <2>4. i < k
    BY <1>4, <1>9, <1>10, <2>2, <2>3
  <2>5. Bef(i) < Bef(k) /\ Bef(i) \in Nat
    BY <1>7, <1>9, <1>10, <2>2, <2>3, <2>4
  <2> QED BY <1>8, <1>9, <1>10, <2>2, <2>5
<1>13. p = 0 \/ Holds(cs, s, p - 1) \/ \E j \in 1 .. l : Brings(us[j], s, p - 1)
  <2>1. CASE Bef(k) = 0
    <3>1. p - 1 = m /\ (m = -1 => p = 0)
      BY <1>8, <1>9, <2>1
    <3> QED BY <1>5, <3>1
  <2>2. CASE Bef(k) # 0
    <3>1. PICK i \in Places(b) : i < k /\ s \in b[i] /\ Bef(i) = Bef(k) - 1
      BY <1>7, <1>9, <1>10, <2>2
    <3>2. b[i] \cap b[k] # {}
      BY <1>9, <3>1
    <3>3. PICK j \in 1 .. l : i \in I(j)
      BY <1>4, <1>9, <1>10, <3>1, <3>2
    <3>4. j \in 1 .. Len(split)
      BY <1>1
    <3>5. m + 1 + Bef(i) = p - 1 /\ p - 1 \in Positions
      <4>1. Bef(i) \in Nat /\ p # 0
        BY <1>7, <1>8, <1>9, <1>10, <2>2, <3>1
      <4>2. p - 1 \in Positions
        BY <4>1, CellsAssumption DEF Positions
      <4> QED BY <1>8, <1>9, <1>10, <3>1, <4>1, <4>2
    <3> QED BY <1>2, <1>6, <3>1, <3>3, <3>4, <3>5
  <2> QED BY <2>1, <2>2
<1> QED BY <1>11, <1>12, <1>13

\* The ubatches of a queue.
LEMMA QueueIs ==
  ASSUME NEW q \in Seq(Job)
  PROVE  /\ QueueOf(q) \in Seq(UbatchSet) /\ Len(QueueOf(q)) = Len(q) /\ Len(q) \in Nat
         /\ \A k \in 1 .. Len(q) : QueueOf(q)[k] = q[k].ubatch
<1>1. Len(q) \in Nat /\ \A k \in 1 .. Len(q) : q[k] \in Job
  OBVIOUS
<1>2. \A k \in 1 .. Len(q) : q[k].ubatch \in UbatchSet
  BY <1>1 DEF Job
<1>3. QueueOf(q) \in [1 .. Len(q) -> UbatchSet]
  BY <1>2 DEF QueueOf
<1>4. \A k \in 1 .. Len(q) : QueueOf(q)[k] = q[k].ubatch
  BY DEF QueueOf
<1> HIDE DEF QueueOf
<1> QED BY <1>1, <1>3, <1>4

\* Ubatches still follow cells that have lost something, if not the last position.
LEMMA AppendsLess ==
  ASSUME NEW a, NEW c, NEW us, Appends(c, us),
         \A s \in Seqs, p \in Positions : Holds(a, s, p) => Holds(c, s, p),
         \A l \in 1 .. Len(us), s \in Seqs, p \in Positions :
           Brings(us[l], s, p) /\ p # 0 /\ Holds(c, s, p - 1) => Holds(a, s, p - 1)
  PROVE  Appends(a, us)
<1> SUFFICES ASSUME NEW l \in 1 .. Len(us), NEW s \in Seqs, NEW p \in Positions, Brings(us[l], s, p)
             PROVE  /\ \A q \in Positions : Holds(a, s, q) => q < p
                    /\ \A j \in 1 .. l - 1, q \in Positions : Brings(us[j], s, q) => q < p
                    /\ p = 0 \/ Holds(a, s, p - 1) \/ \E j \in 1 .. l : Brings(us[j], s, p - 1)
  BY DEF Appends
<1>1. /\ \A q \in Positions : Holds(c, s, q) => q < p
      /\ \A j \in 1 .. l - 1, q \in Positions : Brings(us[j], s, q) => q < p
      /\ p = 0 \/ Holds(c, s, p - 1) \/ \E j \in 1 .. l : Brings(us[j], s, p - 1)
  BY DEF Appends
<1> QED BY <1>1

\* Cells that are less have no other positions.
LEMMA LessHolds ==
  ASSUME NEW a \in CacheCells, NEW c, Less(a, c), NEW s \in Seqs, NEW p, Holds(a, s, p)
  PROVE  Holds(c, s, p)
<1> DEFINE st == Stream(s)
<1>1. st \in Streams /\ Good(a[st])
  BY StreamIs, CacheCellsIs
<1>2. PICK i \in Cells : s \in a[st].seq[i] /\ a[st].pos[i] = p
  BY DEF Holds
<1>3. a[st].pos[i] # -1
  BY <1>1, <1>2, CellHas DEF IsEmpty
<1>4. CellLess(a[st], c[st], i)
  BY <1>1 DEF Less
<1> QED BY <1>2, <1>3, <1>4 DEF CellLess, Holds

\* Undoing a single ubatch.
LEMMA UndoOne ==
  ASSUME NEW x, NEW stack, Len(stack) = 1
  PROVE  UndoAll(x, stack) = Undo(x, stack[1])
<1> DEFINE F == CHOOSE f : f = [j \in 0 .. Len(stack) |->
                  IF j = 0 THEN x ELSE Undo(f[j - 1], stack[j])]
           y == Undo(x, stack[1])
           g == [j \in 0 .. 1 |-> IF j = 0 THEN x ELSE y]
<1>1. UndoAll(x, stack) = F[1]
  BY DEF UndoAll
<1>2. g = [j \in 0 .. 1 |-> IF j = 0 THEN x ELSE Undo(g[j - 1], stack[j])]
  <2>1. \A j \in 0 .. 1 : j # 0 => j = 1 /\ j - 1 = 0
    OBVIOUS
  <2>2. g[0] = x
    OBVIOUS
  <2>3. \A j \in 0 .. 1 : j # 0 => Undo(g[j - 1], stack[j]) = y
    BY <2>1, <2>2
  <2> HIDE DEF y
  <2> QED BY <2>3
<1> HIDE DEF g
<1>3. F = [j \in 0 .. 1 |-> IF j = 0 THEN x ELSE Undo(F[j - 1], stack[j])]
  BY <1>2
<1> HIDE DEF F
<1>4. F[0] = x /\ F[1] = Undo(F[0], stack[1])
  BY <1>3
<1> QED BY <1>1, <1>4

\* What a trial takes away is not the last position of a sequence: where that is overwritten,
\* it comes back.
LEMMA TrialKeepsLast ==
  ASSUME NEW cs \in CacheCells, NEW u \in UbatchSet, NEW slot \in SlotFor(u),
         NEW a, Trialled(a, cs, slot, u),
         NEW s \in Seqs, NEW p \in Nat \ {0},
         \A q \in Positions : Holds(cs, s, q) => q < p,
         Holds(cs, s, p - 1)
  PROVE  Holds(a, s, p - 1)
<1> DEFINE st == Stream(s)
           new == ApplyCells(cs, slot, u)
           up == UpTo(cs[st], slot[st])[s]
<1>1. st \in Streams /\ DOMAIN slot = DOMAIN u /\ p - 1 \in Nat
  BY StreamIs, SlotForIs
<1>2. PICK i \in Cells : s \in cs[st].seq[i] /\ cs[st].pos[i] = p - 1
  BY DEF Holds
<1>a. \A j \in Cells :
        LET from == IF InSlot(slot, st, j) THEN cs ELSE new
        IN  a[st].pos[j] = from[st].pos[j] /\ a[st].seq[j] = from[st].seq[j]
  BY <1>1 DEF Trialled
<1> HIDE DEF st, new
<1>3. CASE InSlot(slot, st, i)
  BY <1>2, <1>3, <1>a DEF Holds, st
<1>4. CASE ~InSlot(slot, st, i)
  <2>1. a[st].pos[i] = new[st].pos[i] /\ a[st].seq[i] = new[st].seq[i]
    BY <1>4, <1>a
  <2>2. /\ s \in new[st].seq[i] <=> s \in cs[st].seq[i] /\ (st \in DOMAIN u => cs[st].pos[i] > up)
        /\ s \in new[st].seq[i] => new[st].pos[i] = cs[st].pos[i]
    BY <1>1, <1>4, CellApplied DEF new
  <2>3. CASE st \in DOMAIN u => p - 1 > up
    BY <1>2, <2>1, <2>2, <2>3 DEF Holds, st
  <2>4. CASE st \in DOMAIN u /\ ~(p - 1 > up)
    <3>1. Good(cs[st]) /\ CellsOf(slot[st]) \subseteq Cells /\ st \in DOMAIN slot
      BY <1>1, <2>4, SlotForIs, CacheCellsIs
    <3>2. /\ up \in Positions \cup {-1}
          /\ up # -1 => \E j \in CellsOf(slot[st]) : s \in cs[st].seq[j] /\ cs[st].pos[j] = up
      BY <3>1, UpToIs
    <3> HIDE DEF up
    <3>3. up # -1 /\ up \in Positions
      BY <1>1, <2>4, <3>2
    <3>4. PICK j \in CellsOf(slot[st]) : s \in cs[st].seq[j] /\ cs[st].pos[j] = up
      BY <3>2, <3>3
    <3>5. j \in Cells /\ InSlot(slot, st, j)
      BY <3>1 DEF InSlot
    <3>6. Holds(cs, s, up)
      BY <3>4, <3>5 DEF Holds, st
    <3>7. up < p /\ up \in Int /\ p \in Int
      BY <3>3, <3>6, CellsAssumption DEF Positions
    <3>8. up = p - 1
      BY <2>4, <3>7
    <3>9. s \in a[st].seq[j] /\ a[st].pos[j] = p - 1
      BY <1>a, <3>4, <3>5, <3>8
    <3> QED BY <3>5, <3>9 DEF Holds, st
  <2> QED BY <2>3, <2>4
<1> QED BY <1>3, <1>4

\* With room for a whole batch there is one ubatch.
LEMMA OneUbatch ==
  ASSUME NEW b \in Batches, NStream = 1, NUbatch = NBatch
  PROVE  Len(Split(b)) = 1
<1> DEFINE L == Len(b)
           J == (L + NUbatch - 1) \div NUbatch
<1>1. L \in 1 .. NUbatch /\ NUbatch \in Nat \ {0}
  <2>1. PICK n \in 1 .. NBatch : b \in [1 .. n -> SeqSets]
    BY DEF Batches
  <2>2. Len(b) = n
    BY <2>1, CacheAssumption
  <2> QED BY <2>1, <2>2, CacheAssumption
<1>2. Split(b) = SimpleSplit(b) /\ SimpleSplit(b) \in Seq(Parts(b))
  BY SimpleSplitIs DEF Split
<1>3. DOMAIN SimpleSplit(b) = 1 .. J
  BY DEF SimpleSplit
<1> HIDE DEF L
<1>4. J = 1
  BY <1>1
<1> HIDE DEF J
<1>5. Len(SimpleSplit(b)) \in Nat /\ 1 .. Len(SimpleSplit(b)) = 1 .. 1
  <2> DEFINE S == SimpleSplit(b)
  <2>1. DOMAIN S = 1 .. 1
    BY <1>3, <1>4
  <2>2. S \in Seq(Parts(b))
    BY <1>2
  <2> HIDE DEF S
  <2>3. Len(S) \in Nat /\ DOMAIN S = 1 .. Len(S)
    <3> DEFINE T == Parts(b)
    <3>1. S \in Seq(T)
      BY <2>2
    <3> HIDE DEF T
    <3> QED BY <3>1
  <2> QED BY <2>1, <2>3 DEF S
<1>6. \A m \in Nat : 1 .. m = 1 .. 1 => m = 1
  <2> SUFFICES ASSUME NEW m \in Nat, 1 .. m = 1 .. 1 PROVE m = 1
    OBVIOUS
  <2>1. m = 0 \/ m = 1 \/ m > 1
    OBVIOUS
  <2>2. 1 \in 1 .. m /\ (m > 1 => m \in 1 .. 1)
    OBVIOUS
  <2> QED BY <2>1, <2>2
<1> QED BY <1>2, <1>5, <1>6

\* Undoing nothing.
LEMMA UndoNone ==
  ASSUME NEW x, NEW stack, Len(stack) = 0
  PROVE  UndoAll(x, stack) = x
<1> DEFINE F == CHOOSE f : f = [j \in 0 .. Len(stack) |->
                  IF j = 0 THEN x ELSE Undo(f[j - 1], stack[j])]
           g == [j \in 0 .. 0 |-> x]
<1>1. UndoAll(x, stack) = F[0]
  BY DEF UndoAll
<1>2. g = [j \in 0 .. 0 |-> IF j = 0 THEN x ELSE Undo(g[j - 1], stack[j])]
  OBVIOUS
<1> HIDE DEF g
<1>3. F = [j \in 0 .. 0 |-> IF j = 0 THEN x ELSE Undo(F[j - 1], stack[j])]
  BY <1>2
<1> HIDE DEF F
<1> QED BY <1>1, <1>3

\* With a window a decode tries one ubatch, in a slot of usable cells, or finds none.
LEMMA WindowTrial ==
  ASSUME WindowAssumption, NSwa # 0, CacheInv, NEW b \in Batches, NEW t \in Toks,
         NEW shifted \in BOOLEAN, Decode(b, t, shifted)
  PROVE  LET cs == UpdatedCells(shifted)
             us == Ubatches(cs, b, t)
         IN  \/ todo' = <<>> /\ v_cells' = cs
             \/ \E slot \in SlotFor(us[1]) :
                  /\ us[1] \in UbatchSet /\ AllUsable(cs, slot) /\ Trialled(v_cells', cs, slot, us[1])
                  /\ todo' = <<[slot |-> slot, ubatch |-> us[1]]>>
<1> DEFINE cs    == UpdatedCells(shifted)
           us    == Ubatches(cs, b, t)
           tried == Tried(cs, v_heads, us)
           slots == Reverse(tried.stack)
           after == UndoAll([cs |-> tried.cs, hs |-> tried.hs], tried.stack)
           jobs  == [j \in DOMAIN us |-> [slot |-> slots[j].slot, ubatch |-> us[j]]]
           e == tried.stack[1]
           u == us[1]
           zero == [cs |-> tried.cs, hs |-> tried.hs]
<1>1. /\ ValidBatch(cs, b) /\ todo' = IF tried.ok THEN jobs ELSE <<>>
      /\ v_cells' = after.cs
  BY DEF Decode
<1>2. cs \in CacheCells /\ v_heads \in Heads
  BY UpdatedIs DEF CacheInv
<1>3. us \in Seq(UbatchSet) /\ Len(us) = 1
  <2>1. us \in Seq(UbatchSet) /\ Len(us) = Len(Split(b))
    BY <1>1, UbatchesAre, UbatchTokens
  <2> HIDE DEF us
  <2> QED BY <2>1, OneUbatch DEF WindowAssumption
<1> HIDE DEF us, cs
<1>4. tried \in Accs(cs, us, Len(us))
  BY <1>2, <1>3, TriedIs
<1> HIDE DEF tried
<1>5. /\ tried \in AccSet /\ Len(tried.stack) <= 1 /\ Back(tried, Len(tried.stack)) = cs
      /\ (tried.ok <=> Len(tried.stack) = 1)
      /\ \A k \in 1 .. Len(tried.stack) : Link(tried, us, k)
  BY <1>3, <1>4 DEF Accs
<1>6. tried.stack \in Seq(Entry) /\ Len(tried.stack) \in Nat
  BY <1>5, AccSetIs
<1>7. CASE Len(tried.stack) = 0
  <2>1. after = zero
    BY <1>7, UndoNone
  <2>2. tried.cs = cs
    BY <1>5, <1>7 DEF Back
  <2> QED BY <1>1, <1>5, <1>7, <2>1, <2>2 DEF us, cs
<1>8. CASE Len(tried.stack) = 1
  <2>1. /\ e \in Entry /\ e.slot \in SlotFor(u) /\ u \in UbatchSet /\ AllUsable(cs, e.slot)
        /\ tried.cs = ApplyCells(cs, e.slot, u) /\ Unshifted(tried.cs, e.slot) /\ e.cs = cs
    <3>1. Link(tried, us, 1) /\ Len(tried.stack) + 1 - 1 = 1 /\ 1 - 1 = 0
      BY <1>5, <1>8
    <3>2. Back(tried, 0) = tried.cs /\ Back(tried, 1) = e.cs
      BY DEF Back
    <3> QED BY <1>3, <1>5, <1>6, <1>8, <3>1, <3>2 DEF Link
  <2>2. zero \in Half /\ zero.cs = tried.cs
    BY <1>5, AccSetIs DEF Half
  <2>3. v_cells' = Undo(zero, e).cs
    BY <1>1, <1>8, UndoOne
  <2>4. todo' = <<[slot |-> e.slot, ubatch |-> u]>>
    <3>1. slots[1] = e
      BY <1>8 DEF Reverse
    <3>2. DOMAIN us = 1 .. 1
      BY <1>3
    <3> HIDE DEF slots, e, u
    <3>3. jobs = <<[slot |-> e.slot, ubatch |-> u]>>
      BY <3>1, <3>2 DEF u
    <3> QED BY <1>1, <1>5, <1>8, <3>3
  <2> HIDE DEF zero, e, u
  <2>5. Trialled(v_cells', cs, e.slot, u)
    BY <2>1, <2>2, <2>3, UndoIs DEF Trialled
  <2> QED BY <2>1, <2>4, <2>5 DEF us, cs, u
<1>9. Len(tried.stack) = 0 \/ Len(tried.stack) = 1
  <2>1. Len(tried.stack) <= 1 /\ Len(tried.stack) \in Nat
    BY <1>5, <1>6
  <2>2. \A m \in Nat : m <= 1 => m = 0 \/ m = 1
    OBVIOUS
  <2> QED BY <2>1, <2>2
<1> QED BY <1>7, <1>8, <1>9

\* A decode leaves ubatches that follow the cells.
LEMMA QueuedDecode ==
  ASSUME WindowAssumption, CacheInv, NEW b \in Batches, NEW t \in Toks, NEW shifted \in BOOLEAN,
         Decode(b, t, shifted)
  PROVE  Queued'
<1> DEFINE cs    == UpdatedCells(shifted)
           us    == Ubatches(cs, b, t)
           tried == Tried(cs, v_heads, us)
           slots == Reverse(tried.stack)
           after == UndoAll([cs |-> tried.cs, hs |-> tried.hs], tried.stack)
           jobs  == [j \in DOMAIN us |-> [slot |-> slots[j].slot, ubatch |-> us[j]]]
           queue == QueueOf(todo')
<1>1. /\ ValidBatch(cs, b) /\ todo' = IF tried.ok THEN jobs ELSE <<>>
      /\ v_cells' = after.cs
  BY DEF Decode
<1>2. /\ cs \in CacheCells /\ v_heads \in Heads /\ Less(v_cells', cs)
      /\ NSwa = 0 => SameCells(v_cells', cs)
      /\ v_cells' \in CacheCells /\ todo' \in Seq(Job)
  BY UpdatedIs, DecodeIs DEF CacheInv
<1>3. /\ us \in Seq(UbatchSet) /\ Appends(cs, us)
      /\ NSwa # 0 => Len(us) = 1
  <2>1. Appends(cs, us)
    <3> HIDE DEF cs
    <3> QED BY <1>1, <1>2, AppendsNow
  <2>2. us \in Seq(UbatchSet) /\ Len(us) = Len(Split(b))
    BY <1>1, UbatchesAre, UbatchTokens
  <2> HIDE DEF us, cs
  <2> QED BY <2>1, <2>2, OneUbatch DEF WindowAssumption
<1> HIDE DEF us, cs
<1>4. tried \in Accs(cs, us, Len(us))
  BY <1>2, <1>3, TriedIs
<1> HIDE DEF tried
<1>5. /\ queue \in Seq(UbatchSet) /\ Len(queue) = Len(todo') /\ Len(todo') \in Nat
      /\ \A k \in 1 .. Len(todo') : queue[k] = (todo'[k]).ubatch
  BY <1>2, QueueIs
<1>6. CASE ~tried.ok
  <2>1. Len(todo') = 0
    BY <1>1, <1>6
  <2> HIDE DEF queue
  <2>2. Appends(v_cells', queue)
    BY <1>5, <2>1 DEF Appends
  <2> QED BY <2>1, <2>2 DEF Queued, queue
<1>7. CASE tried.ok
  <2> DEFINE n == Len(us)
  <2>1. n \in Nat /\ DOMAIN us = 1 .. n /\ tried \in AccSet /\ Len(tried.stack) = n
        /\ \A k \in 1 .. n : Link(tried, us, k)
    BY <1>3, <1>4, <1>7 DEF Accs
  <2> HIDE DEF slots, n, queue
  <2>2. Len(jobs) = n /\ \A j \in 1 .. n : jobs[j].ubatch = us[j]
    BY <2>1
  <2> HIDE DEF jobs, after
  <2>3. Len(queue) = n /\ \A k \in 1 .. n : queue[k] = us[k]
    BY <1>1, <1>5, <1>7, <2>2
  <2>4. \A s \in Seqs, p \in Positions : Holds(v_cells', s, p) => Holds(cs, s, p)
    BY <1>2, LessHolds
  <2>5. ASSUME NEW l \in 1 .. n, NEW s \in Seqs, NEW p \in Positions, Brings(us[l], s, p), p # 0,
               Holds(cs, s, p - 1)
        PROVE  Holds(v_cells', s, p - 1)
    <3>1. CASE NSwa = 0
      BY <1>2, <2>5, <3>1, StreamIs DEF Holds, SameCells
    <3>2. CASE NSwa # 0
      <4>1. n = 1 /\ l = 1 /\ us[1] \in UbatchSet
        <5>1. n = 1
          BY <1>3, <3>2 DEF n
        <5>2. us[1] \in UbatchSet
          <6>1. us \in Seq(UbatchSet) /\ 1 \in 1 .. Len(us)
            BY <1>3, <5>1 DEF n
          <6> QED BY <6>1
        <5> QED BY <5>1, <5>2
      <4>2. \/ v_cells' = cs
            \/ \E slot \in SlotFor(us[1]) : Trialled(v_cells', cs, slot, us[1])
        BY <3>2, WindowTrial DEF us, cs
      <4>3. \A q \in Positions : Holds(cs, s, q) => q < p
        BY <1>3, <2>5, <4>1 DEF Appends, n
      <4>4. p \in Nat \ {0}
        BY <2>5 DEF Positions
      <4>5. CASE v_cells' = cs
        BY <2>5, <4>5
      <4>6. ASSUME NEW slot \in SlotFor(us[1]), Trialled(v_cells', cs, slot, us[1])
            PROVE  Holds(v_cells', s, p - 1)
        BY <1>2, <2>5, <4>1, <4>3, <4>4, <4>6, TrialKeepsLast
      <4> QED BY <4>2, <4>5, <4>6
    <3> QED BY <3>1, <3>2
  <2>6. Appends(v_cells', us)
    BY <1>3, <2>4, <2>5, AppendsLess DEF n
  <2>7. Appends(v_cells', queue)
    <3> HIDE DEF us
    <3>1. \A l \in 1 .. n : l \in 1 .. n /\ \A j \in 1 .. l : j \in 1 .. n
      BY <2>1
    <3>2. \A l \in 1 .. n : \A j \in 1 .. l - 1 : j \in 1 .. n
      BY <2>1
    <3> QED BY <2>3, <2>6, <3>1, <3>2 DEF Appends, n
  <2>8. NSwa # 0 => Len(todo') <= 1
    BY <1>3, <1>5, <2>3 DEF n
  <2> QED BY <2>7, <2>8 DEF Queued, queue
<1> QED BY <1>6, <1>7

\* A processed ubatch leaves ubatches that follow what there is now.
LEMMA QueuedProcess ==
  ASSUME WindowAssumption, CacheInv, NSwa = 0 => SlotsFree, Queued, ProcessUbatch
  PROVE  Queued'
<1> DEFINE slot == Head(todo).slot
           u == Head(todo).ubatch
           old == QueueOf(todo)
           new == QueueOf(todo')
           n == Len(todo)
<1>1. todo # <<>> /\ v_cells' = ApplyCells(v_cells, slot, u) /\ todo' = Tail(todo)
  BY DEF ProcessUbatch
<1>2. slot \in SlotFor(u) /\ u \in UbatchSet /\ v_cells \in CacheCells /\ todo \in Seq(Job)
      /\ Tail(todo) \in Seq(Job)
  BY <1>1, NextJob DEF CacheInv
<1>3. n \in Nat /\ n >= 1 /\ Head(todo) = todo[1]
      /\ Len(todo') = n - 1 /\ \A k \in 1 .. n - 1 : todo'[k] = todo[k + 1]
  BY <1>1, <1>2
<1>4. /\ Len(old) = n /\ \A k \in 1 .. n : old[k] = todo[k].ubatch
      /\ Len(new) = n - 1 /\ \A k \in 1 .. n - 1 : new[k] = (todo'[k]).ubatch
  <2>1. todo' \in Seq(Job)
    BY <1>1, <1>2
  <2>2. Len(old) = Len(todo) /\ \A k \in 1 .. Len(todo) : old[k] = todo[k].ubatch
    BY <1>2, QueueIs
  <2>3. Len(new) = Len(todo') /\ \A k \in 1 .. Len(todo') : new[k] = (todo'[k]).ubatch
    BY <2>1, QueueIs
  <2> HIDE DEF old, new
  <2> QED BY <1>3, <2>2, <2>3
<1> HIDE DEF old, new, n
<1>5. \A k \in 1 .. n - 1 : new[k] = old[k + 1] /\ k + 1 \in 1 .. n
  <2>1. \A k \in 1 .. n - 1 : k + 1 \in 1 .. n
    BY <1>3
  <2> QED BY <1>3, <1>4, <2>1
<1>6. old[1] = u
  BY <1>3, <1>4
<1>7. Appends(v_cells, old) /\ (NSwa # 0 => n <= 1)
  BY DEF Queued, old, n
<1>8. NSwa # 0 => n - 1 = 0
  BY <1>3, <1>7
<1>9. CASE n - 1 = 0
  BY <1>3, <1>4, <1>9 DEF Queued, Appends, new
<1>10. CASE n - 1 # 0
  <2>1. NSwa = 0 /\ SlotsFree
    BY <1>8, <1>10
  <2>2. AllUsable(v_cells, slot)
    BY <1>1, <2>1, NextSlot
  <2> HIDE DEF slot, u
  <2>3. \A s \in Seqs, p \in Positions :
          Holds(v_cells', s, p) <=> Holds(v_cells, s, p) \/ Brings(u, s, p)
    BY <1>1, <1>2, <2>1, <2>2, ApplyHolds, EmptySpares
  <2>4. ASSUME NEW l \in 1 .. n - 1, NEW s \in Seqs, NEW p \in Positions, Brings(new[l], s, p)
        PROVE  /\ \A q \in Positions : Holds(v_cells', s, q) => q < p
               /\ \A j \in 1 .. l - 1, q \in Positions : Brings(new[j], s, q) => q < p
               /\ p = 0 \/ Holds(v_cells', s, p - 1) \/ \E j \in 1 .. l : Brings(new[j], s, p - 1)
    <3>1. l + 1 \in 1 .. n /\ Brings(old[l + 1], s, p)
      BY <1>5, <2>4
    <3>2. /\ \A q \in Positions : Holds(v_cells, s, q) => q < p
          /\ \A j \in 1 .. (l + 1) - 1, q \in Positions : Brings(old[j], s, q) => q < p
          /\ p = 0 \/ Holds(v_cells, s, p - 1) \/ \E j \in 1 .. l + 1 : Brings(old[j], s, p - 1)
      BY <1>4, <1>7, <3>1 DEF Appends
    <3>3. 1 \in 1 .. (l + 1) - 1 /\ \A j \in 1 .. l - 1 : j \in 1 .. n - 1 /\ j + 1 \in 1 .. (l + 1) - 1
      BY <1>3
    <3>4. \A q \in Positions : Holds(v_cells', s, q) => q < p
      BY <1>6, <2>3, <3>2, <3>3
    <3>5. \A j \in 1 .. l - 1, q \in Positions : Brings(new[j], s, q) => q < p
      BY <1>5, <3>2, <3>3
    <3>6. ASSUME p # 0, ~Holds(v_cells', s, p - 1) PROVE \E j \in 1 .. l : Brings(new[j], s, p - 1)
      <4>1. p - 1 \in Positions
        BY <3>6, CellsAssumption DEF Positions
      <4>2. ~Holds(v_cells, s, p - 1) /\ ~Brings(u, s, p - 1)
        BY <2>3, <3>6, <4>1
      <4>3. PICK j \in 1 .. l + 1 : Brings(old[j], s, p - 1)
        BY <3>2, <3>6, <4>2
      <4>4. j # 1
        BY <1>6, <4>2, <4>3
      <4>5. j - 1 \in 1 .. l /\ j - 1 \in 1 .. n - 1 /\ (j - 1) + 1 = j
        BY <1>3, <4>4
      <4> QED BY <1>5, <4>3, <4>5
    <3> QED BY <3>4, <3>5, <3>6
  <2> QED BY <1>4, <1>8, <1>10, <2>1, <2>4 DEF Queued, Appends, new
<1> QED BY <1>9, <1>10

\* Every step leaves ubatches that follow the cells.
LEMMA QueuedStep ==
  ASSUME WindowAssumption, CacheInv, NSwa = 0 => SlotsFree, Queued, [Next]_vars
  PROVE  Queued'
<1>1. CASE UNCHANGED vars
  BY <1>1 DEF vars, Queued
<1>2. CASE \E b \in Batches, t \in Toks, shifted \in BOOLEAN : Decode(b, t, shifted)
  BY <1>2, QueuedDecode
<1>3. CASE ProcessUbatch
  BY <1>3, QueuedProcess
<1>4. CASE todo' = <<>>
  <2>1. CacheInv'
    BY CacheInvStep
  <2>2. Len(todo') = 0 /\ todo' \in Seq(Job)
    BY <1>4, <2>1 DEF CacheInv
  <2>3. Len(QueueOf(todo')) = 0
    BY <2>2, QueueIs
  <2>4. Appends(v_cells', QueueOf(todo'))
    BY <2>3 DEF Appends
  <2> QED BY <2>2, <2>4 DEF Queued
<1>5. CASE AbortUbatch
  BY <1>4, <1>5 DEF AbortUbatch
<1> QED BY <1>1, <1>2, <1>3, <1>4, <1>5, OtherCalls

\* So the next ubatch follows the cells.
LEMMA NextFollows ==
  ASSUME CacheInv, Queued, todo # <<>>, NEW s \in Seqs
  PROVE  Follows(v_cells, Head(todo).ubatch, s)
<1> DEFINE u == Head(todo).ubatch
           us == QueueOf(todo)
<1>1. todo \in Seq(Job) /\ Appends(v_cells, us)
  BY DEF CacheInv, Queued
<1>2. 1 \in 1 .. Len(us) /\ us[1] = u
  <2>1. Len(us) = Len(todo) /\ \A k \in 1 .. Len(todo) : us[k] = todo[k].ubatch
    BY <1>1, QueueIs
  <2>2. 1 \in 1 .. Len(todo) /\ Head(todo) = todo[1]
    BY <1>1
  <2> HIDE DEF us
  <2> QED BY <2>1, <2>2
<1> HIDE DEF u, us
<1>3. \A j \in 1 .. 1 : j = 1
  OBVIOUS
<1> QED BY <1>1, <1>2, <1>3 DEF Appends, Follows, u

\* Neither placing a ubatch nor aborting it leaves a hole in a sequence.
LEMMA NoHoleStep ==
  ASSUME CacheInv, Queued, todo # <<>>, ProcessUbatch \/ AbortUbatch,
         NEW s \in Seqs, Convex(Has(v_cells, s))
  PROVE  Convex(Has(v_cells', s))
<1> DEFINE slot == Head(todo).slot
           u == Head(todo).ubatch
           cs == ApplyCells(v_cells, slot, u)
<1>1. slot \in SlotFor(u) /\ u \in UbatchSet /\ v_cells \in CacheCells
  BY NextJob DEF CacheInv
<1>2. Follows(v_cells, u, s)
  BY NextFollows
<1>3. CASE ProcessUbatch
  <2>1. v_cells' = cs
    BY <1>3 DEF ProcessUbatch
  <2> HIDE DEF slot, u
  <2> QED BY <1>1, <1>2, <2>1, PlacedConvex
<1>4. CASE AbortUbatch
  <2>1. CacheInv' /\ AllThinned(cs, v_cells')
        /\ \A st \in Streams : Cut(cs[st], v_cells'[st], u, {r \in Seqs : Stream(r) = st})
    BY <1>4, AbortUbatchIs
  <2> HIDE DEF slot, u
  <2>2. cs \in CacheCells /\ v_cells' \in CacheCells
    BY <1>1, <2>1, ApplyIs DEF CacheInv
  <2>3. Convex(Has(cs, s))
    BY <1>1, <1>2, PlacedConvex
  <2> HIDE DEF cs
  <2>4. Stream(s) \in Streams
    BY StreamIs
  <2>5. v_cells'[Stream(s)] \in Thinned(cs[Stream(s)])
    BY <2>1, <2>4 DEF AllThinned
  <2>6. \A p : Holds(v_cells', s, p) <=> Holds(cs, s, p) /\ Ahead(u, s, p)
    BY <2>1, <2>2, <2>4, <2>5, CutHolds
  <2> QED BY <1>1, <2>3, <2>6, CutConvex
<1> QED BY <1>3, <1>4

-----
(* The tokens of a sequence, as SeqMemory counts them. *)

\* MemOf is what s has in its stream, now and after a step.
LEMMA MemOfIs ==
  \A s \in Seqs : /\ MemOf(s) = Mem(v_cells[Stream(s)], Data[Stream(s)], s)
                  /\ MemOf(s)' = Mem(v_cells'[Stream(s)], Data'[Stream(s)], s)
BY CopiedStoreIs DEF MemOf, Mem, TokCells, Data, CopiedStore, CopiedBy

\* The abstract positions are those of the cache.
LEMMA SamePositions == Memory!Positions = Positions
BY DEF Memory!Positions, Positions

\* The cells with a token can be counted.
LEMMA TokCellsFinite ==
  ASSUME NEW c, NEW data, NEW s, NEW t, NEW p
  PROVE  IsFiniteSet(TokCells(c, data, s, t, p)) /\ Cardinality(TokCells(c, data, s, t, p)) \in Nat
<1>1. IsFiniteSet(Cells) /\ TokCells(c, data, s, t, p) \in SUBSET Cells
  BY CellsAssumption, FS_Interval DEF Cells, TokCells
<1>2. IsFiniteSet(TokCells(c, data, s, t, p))
  BY <1>1, FS_Subset
<1> QED BY <1>2, FS_CardinalityType

\* What a sequence has is a memory of SeqMemory.
LEMMA MemType ==
  ASSUME NEW c, NEW data, NEW s
  PROVE  /\ Mem(c, data, s) \in Memory!Memories
         /\ \A t \in Toks, p \in Positions :
              /\ Mem(c, data, s)[t][p] = Cardinality(TokCells(c, data, s, t, p))
              /\ Mem(c, data, s)[t][p] \in Nat
<1>1. \A t \in Toks, p \in Positions : Cardinality(TokCells(c, data, s, t, p)) \in Nat
  BY TokCellsFinite
<1> QED BY <1>1, SamePositions DEF Mem, Memory!Memories

\* They make the same memory.
LEMMA MemSame ==
  ASSUME NEW c, NEW data, NEW s, NEW d, NEW new, NEW r, SameTokens(c, data, s, d, new, r)
  PROVE  Mem(d, new, r) = Mem(c, data, s)
<1>1. \A t \in Toks, p \in Positions : TokCells(d, new, r, t, p) = TokCells(c, data, s, t, p)
  BY DEF TokCells, SameTokens
<1> QED BY <1>1 DEF Mem

\* A sequence that loses its cells at positions P.
LEMMA MemAt ==
  ASSUME NEW c, NEW data, NEW s, NEW d, NEW new, NEW P, CutTokens(c, data, s, d, new, P)
  PROVE  Mem(d, new, s) = Memory!At(Mem(c, data, s), Memory!Positions \ P)
<1>1. \A t \in Toks, p \in Positions :
        TokCells(d, new, s, t, p) = IF p \in P THEN {} ELSE TokCells(c, data, s, t, p)
  BY DEF TokCells, CutTokens
<1>2. \A t \in Toks, p \in Positions :
        Cardinality(TokCells(d, new, s, t, p)) =
          IF p \in Positions \ P THEN Cardinality(TokCells(c, data, s, t, p)) ELSE 0
  BY <1>1, FS_EmptySet
<1>3. Mem(d, new, s) = [t \in Toks |-> [p \in Positions |->
        IF p \in Positions \ P THEN Mem(c, data, s)[t][p] ELSE 0]]
  BY <1>2 DEF Mem
<1> QED BY <1>3, SamePositions DEF Memory!At

\* A sequence without cells has nothing.
LEMMA MemNothing ==
  ASSUME NEW d, NEW new, NEW s, \A i \in Cells : s \notin d.seq[i]
  PROVE  Mem(d, new, s) = Memory!Nothing
<1>1. \A t \in Toks, p \in Positions : TokCells(d, new, s, t, p) = {}
  BY DEF TokCells
<1> QED BY <1>1, FS_EmptySet, SamePositions DEF Mem, Memory!Nothing

\* Two sets without a common member.
LEMMA CardinalityJoin ==
  ASSUME NEW A, NEW B, IsFiniteSet(A), IsFiniteSet(B), A \cap B = {}
  PROVE  Cardinality(A \cup B) = Cardinality(A) + Cardinality(B)
<1>1. Cardinality(A) \in Nat /\ Cardinality(B) \in Nat /\ Cardinality(A \cap B) = 0
  BY FS_CardinalityType, FS_EmptySet
<1>2. Cardinality(A \cup B) = Cardinality(A) + Cardinality(B) - Cardinality(A \cap B)
  BY FS_Union
<1> QED BY <1>1, <1>2

\* SeqMemory's last position of a sequence is what seq_pos_max gives.
LEMMA MemLast ==
  ASSUME NEW c \in GoodCells, NEW data \in [Cells -> Datum], NEW s \in Seqs
  PROVE  Memory!Last(Mem(c, data, s)) = SeqPosMax(c, s)
<1> DEFINE has == {p \in Positions : \E t \in Toks : Mem(c, data, s)[t][p] > 0}
           Top(p) == \A q \in has : q <= p
<1>1. ASSUME NEW p \in Positions PROVE p \in has <=> p \in Keys(c, s)
  <2>1. c.seq_pos[s][p] = Cardinality(Holding(c, Cells, s, p)) /\ IsFiniteSet(Holding(c, Cells, s, p))
    <3>1. Exact(c)
      BY DEF GoodCells
    <3> QED BY <3>1, CountsType DEF Exact
  <2>2. p \in Keys(c, s) <=> Holding(c, Cells, s, p) # {}
    BY <2>1, FS_EmptySet DEF Keys
  <2>3. \A t \in Toks : Mem(c, data, s)[t][p] > 0 <=> TokCells(c, data, s, t, p) # {}
    <3> SUFFICES ASSUME NEW t \in Toks
                 PROVE Mem(c, data, s)[t][p] > 0 <=> TokCells(c, data, s, t, p) # {}
      OBVIOUS
    <3>1. IsFiniteSet(TokCells(c, data, s, t, p)) /\ Cardinality(TokCells(c, data, s, t, p)) \in Nat
      BY TokCellsFinite
    <3>2. Cardinality(TokCells(c, data, s, t, p)) = 0 <=> TokCells(c, data, s, t, p) = {}
      BY <3>1, FS_EmptySet
    <3> QED BY <3>1, <3>2, MemType
  <2>4. \A i \in Cells : data[i].tok \in Toks
    BY DEF Datum
  <2>5. (\E t \in Toks : TokCells(c, data, s, t, p) # {}) <=> Holding(c, Cells, s, p) # {}
    BY <2>4 DEF TokCells, Holding
  <2> QED BY <2>2, <2>3, <2>5
<1>2. has = Keys(c, s) /\ has \subseteq Positions
  <2>1. Keys(c, s) \subseteq Positions
    BY DEF Keys
  <2> QED BY <1>1, <2>1
<1>3. Memory!Last(Mem(c, data, s)) = CHOOSE p \in has \cup {-1} : Top(p)
  BY SamePositions DEF Memory!Last
<1> HIDE DEF has
<1>4. SeqPosMax(c, s) \in has \cup {-1} /\ Top(SeqPosMax(c, s))
  BY <1>2, SeqPosMaxIs DEF Positions
<1>5. \A p, q \in has \cup {-1} : Top(p) /\ Top(q) => p = q
  <2>1. \A p \in has : p \in Nat
    BY <1>2, CellsAssumption DEF Positions
  <2> SUFFICES ASSUME NEW p \in has \cup {-1}, NEW q \in has \cup {-1}, Top(p), Top(q) PROVE p = q
    OBVIOUS
  <2>2. p \in Int /\ q \in Int /\ (p # -1 => p <= q) /\ (q # -1 => q <= p)
        /\ (p \in Nat \/ p = -1) /\ (q \in Nat \/ q = -1)
    BY <2>1
  <2> QED BY <2>2
<1>6. PICK m \in has \cup {-1} : m = SeqPosMax(c, s)
  BY <1>4
<1>7. \A p \in has \cup {-1} : Top(p) => p = m
  BY <1>4, <1>5, <1>6
<1> HIDE DEF Top
<1>8. (CHOOSE p \in has \cup {-1} : Top(p)) = m
  BY <1>4, <1>6, <1>7
<1> QED BY <1>3, <1>6, <1>8

\* The streams of a cache in which the invariant holds.
LEMMA InStream ==
  ASSUME CacheInv, NEW st \in Streams
  PROVE  /\ v_cells[st] \in GoodCells /\ v_cells[st] \in CellsType /\ Good(v_cells[st])
         /\ Data \in Stores /\ Data[st] \in [Cells -> Datum]
         /\ \A i \in Cells : \A s \in v_cells[st].seq[i] :
              s \in Seqs /\ Stream(s) = st /\ v_cells[st].pos[i] \in Positions /\ v_cells[st].pos[i] \in Nat
<1>1. v_cells \in CacheCells /\ Data \in Stores
  BY CopiedData DEF CacheInv, Data
<1>2. Good(v_cells[st]) /\ \A i \in Cells : \A s \in v_cells[st].seq[i] : Stream(s) = st
  BY <1>1, CacheCellsIs
<1>3. \A i \in Cells : \A s \in v_cells[st].seq[i] :
        s \in Seqs /\ v_cells[st].pos[i] \in Positions /\ v_cells[st].pos[i] \in Nat
  BY <1>2, CellHas
<1>4. v_cells[st] \in GoodCells /\ v_cells[st] \in CellsType
  BY <1>2, GoodIs DEF Good
<1>5. Data[st] \in [Cells -> Datum]
  BY <1>1 DEF Stores
<1> QED BY <1>1, <1>2, <1>3, <1>4, <1>5

\* Two sequences share a stream when there is only one.
LEMMA OneStreamIs ==
  ASSUME NEW s \in Seqs, NEW d \in Seqs, s # d
  PROVE  Stream(s) = Stream(d) <=> NStream = 1
BY DEF Stream

\* Nothing happened to the data, or to the sequences of a stream.
LEMMA MemStays ==
  ASSUME CacheInv, UNCHANGED <<sc_info, store>>
  PROVE  /\ Data' = Data
         /\ \A s \in Seqs : v_cells'[Stream(s)] = v_cells[Stream(s)] => MemOf(s)' = MemOf(s)
<1>1. Data' = Data
  BY DEF Data, CopiedBy
<1> QED BY <1>1, MemOfIs

\* clear empties every sequence.
LEMMA PromiseClear ==
  ASSUME CacheInv, Clear
  PROVE  Memory!Clear
<1>1. CacheInv' /\ \A st \in Streams, i \in Cells : IsEmpty(v_cells'[st], i)
  BY ClearIs
<1>2. ASSUME NEW s \in Seqs PROVE MemOf(s)' = Memory!Nothing
  <2>1. Stream(s) \in Streams
    BY StreamIs
  <2>2. Exact(v_cells'[Stream(s)])
    <3>1. v_cells' \in CacheCells
      BY <1>1 DEF CacheInv
    <3> QED BY <2>1, <3>1, CacheCellsIs DEF Good
  <2>3. \A i \in Cells : s \notin v_cells'[Stream(s)].seq[i]
    BY <1>1, <2>1, <2>2 DEF Exact
  <2> QED BY <2>3, MemOfIs, MemNothing
<1> QED BY <1>2 DEF Memory!Clear

\* The positions of a range.
LEMMA SpanIs ==
  ASSUME NEW r \in Ranges
  PROVE  /\ Span(r) \subseteq Positions
         /\ \A p \in Int : p \in Span(r) <=> p >= r[1] /\ p < r[2]
<1>1. r[1] \in Positions /\ r[2] \in 1 .. MaxPos + 1 /\ MaxPos \in Nat
  BY CacheAssumption, CellsAssumption
<1> QED BY <1>1 DEF Span, Positions

\* What seq_rm leaves, for every sequence of the stream.
LEMMA SeqRmMem ==
  ASSUME NEW c, Good(c), NEW s \in Seqs, NEW P, NEW p0, NEW p1, Within(c, s, P, p0, p1),
         NEW data, NEW r \in Seqs
  PROVE  LET d == SeqRmCells(c, s, p0, p1)
         IN  /\ r # s => Mem(d, data, r) = Mem(c, data, r)
             /\ r = s => Mem(d, data, r) = Memory!At(Mem(c, data, r), Memory!Positions \ P)
<1> DEFINE d == SeqRmCells(c, s, p0, p1)
           hit == SeqHits(c, s, p0, p1)
<1>1. ASSUME NEW i \in Cells
      PROVE  /\ i \in hit <=> s \in c.seq[i] /\ c.pos[i] \in P
             /\ d.pos[i] = IF i \in Freed(c, hit, s) THEN -1 ELSE c.pos[i]
             /\ d.seq[i] = IF i \in hit THEN c.seq[i] \ {s} ELSE c.seq[i]
  <2>1. i \in hit <=> s \in c.seq[i] /\ c.pos[i] \in P
    BY DEF SeqHits, PosIn, Within
  <2> QED BY <2>1, SeqRmFields DEF Good
<1> HIDE DEF d, hit
<1>2. \A i \in Cells, q \in Seqs : q \in d.seq[i] => d.pos[i] = c.pos[i]
  BY <1>1 DEF Freed
<1>3. r # s => SameTokens(c, data, r, d, data, r)
  BY <1>1, <1>2 DEF SameTokens
<1>4. r = s => CutTokens(c, data, r, d, data, P)
  BY <1>1, <1>2 DEF CutTokens
<1> QED BY <1>3, <1>4, MemSame, MemAt DEF d

\* One stream has changed, to c.
LEMMA OneStreamSet ==
  ASSUME CacheInv, NEW st \in Streams, NEW c, v_cells' = [v_cells EXCEPT ![st] = c]
  PROVE  \A q \in Streams : v_cells'[q] = IF q = st THEN c ELSE v_cells[q]
<1>1. DOMAIN v_cells = Streams
  BY CacheCellsIs DEF CacheInv
<1> QED BY <1>1

\* seq_rm removes the tokens of one sequence.
LEMMA PromiseRm ==
  ASSUME CacheInv, NEW s \in Seqs, NEW r \in Ranges, SeqRm(s, r[1], r[2])
  PROVE  Memory!Remove({s}, Span(r))
<1> DEFINE st == Stream(s)
           c == SeqRmCells(v_cells[st], s, r[1], r[2])
<1>1. v_cells' = [v_cells EXCEPT ![st] = c] /\ UNCHANGED <<sc_info, store>> /\ st \in Streams
  BY StreamIs DEF SeqRm, SetCellsOf
<1>2. \A q \in Streams : v_cells'[q] = IF q = st THEN c ELSE v_cells[q]
  BY <1>1, OneStreamSet
<1>3. ASSUME NEW q \in Seqs
      PROVE  MemOf(q)' = IF q \in {s} THEN Memory!At(MemOf(q), Memory!Positions \ Span(r)) ELSE MemOf(q)
  <2>1. Stream(q) \in Streams /\ Data' = Data
    BY <1>1, StreamIs, MemStays
  <2>2. CASE Stream(q) # st
    <3>1. q # s /\ MemOf(q)' = MemOf(q)
      BY <1>1, <1>2, <2>1, <2>2, MemStays
    <3> QED BY <3>1
  <2>3. CASE Stream(q) = st
    <3> DEFINE x == v_cells[st]
               P == Span(r)
               p0 == r[1]
               p1 == r[2]
               data == Data[st]
    <3>1. Good(x) /\ \A i \in Cells : s \in x.seq[i] => x.pos[i] \in Int
      BY <1>1, InStream
    <3>4. Within(x, s, P, p0, p1)
      BY <3>1, SpanIs DEF Within
    <3>5. c = SeqRmCells(x, s, p0, p1)
      OBVIOUS
    <3> HIDE DEF x, P, p0, p1, data, c
    <3>3. /\ q # s => Mem(c, data, q) = Mem(x, data, q)
          /\ q = s => Mem(c, data, q) = Memory!At(Mem(x, data, q), Memory!Positions \ P)
      BY <3>1, <3>4, <3>5, SeqRmMem
    <3> QED BY <1>1, <1>2, <2>1, <2>3, <3>3, MemOfIs DEF x, P, data
  <2> QED BY <2>2, <2>3
<1> HIDE DEF c
<1>4. Memory!Remove({s}, Span(r)) <=>
        ([q \in Seqs |-> MemOf(q)])' =
          [q \in Seqs |-> IF q \in {s} THEN Memory!At([x \in Seqs |-> MemOf(x)][q], Memory!Positions \ Span(r))
                          ELSE [x \in Seqs |-> MemOf(x)][q]]
  BY DEF Memory!Remove
<1> QED BY <1>3, <1>4

\* seq_rm of a negative sequence removes those of all.
LEMMA PromiseRmAny ==
  ASSUME CacheInv, NEW r \in Ranges, SeqRmAny(r[1], r[2])
  PROVE  Memory!Remove(Seqs, Span(r))
<1>1. /\ v_cells' = [st \in Streams |-> RmCells(v_cells[st], InRange(v_cells[st], r[1], r[2]))]
      /\ UNCHANGED <<sc_info, store>>
  BY DEF SeqRmAny
<1>2. ASSUME NEW q \in Seqs
      PROVE  MemOf(q)' = Memory!At(MemOf(q), Memory!Positions \ Span(r))
  <2> DEFINE st == Stream(q)
             c == v_cells[st]
             I == InRange(c, r[1], r[2])
             d == RmCells(c, I)
  <2>1. st \in Streams /\ Data' = Data
    BY <1>1, StreamIs, MemStays
  <2>2. c \in CellsType /\ \A i \in Cells : q \in c.seq[i] => c.pos[i] \in Int
    BY <2>1, InStream
  <2>3. v_cells'[st] = d
    BY <1>1, <2>1
  <2>4. I \in SUBSET Cells /\ \A i \in Cells : q \in c.seq[i] => (i \in I <=> c.pos[i] \in Span(r))
    BY <2>2, SpanIs DEF InRange, PosIn
  <2>5. \A i \in Cells : /\ d.pos[i] = IF i \in I THEN -1 ELSE c.pos[i]
                         /\ d.seq[i] = IF i \in I THEN {} ELSE c.seq[i]
    BY <2>2, <2>4, RmFields
  <2> HIDE DEF d, I
  <2>6. CutTokens(c, Data[st], q, d, Data[st], Span(r))
    BY <2>4, <2>5 DEF CutTokens
  <2>7. Mem(d, Data[st], q) = Memory!At(Mem(c, Data[st], q), Memory!Positions \ Span(r))
    BY <2>6, MemAt
  <2> QED BY <2>1, <2>3, <2>7, MemOfIs
<1>3. Memory!Remove(Seqs, Span(r)) <=>
        ([q \in Seqs |-> MemOf(q)])' =
          [q \in Seqs |-> IF q \in Seqs THEN Memory!At([x \in Seqs |-> MemOf(x)][q], Memory!Positions \ Span(r))
                          ELSE [x \in Seqs |-> MemOf(x)][q]]
  BY DEF Memory!Remove
<1> QED BY <1>2, <1>3

\* seq_keep empties the other sequences of its stream, when there is only one.
LEMMA PromiseKeep ==
  ASSUME PromiseAssumption, CacheInv, NEW s \in Seqs, SeqKeep(s)
  PROVE  Memory!Keep(s)
<1> DEFINE st == Stream(s)
           c == v_cells[st]
           d == SeqKeepCells(c, s)
<1>1. v_cells' = [v_cells EXCEPT ![st] = d] /\ UNCHANGED <<sc_info, store>> /\ st \in Streams
  BY StreamIs DEF SeqKeep, SetCellsOf
<1>0. NStream = 1
  BY DEF SeqKeep, PromiseAssumption
<1>2. \A q \in Streams : v_cells'[q] = IF q = st THEN d ELSE v_cells[q]
  BY <1>1, OneStreamSet
<1>3. \A i \in Cells :
        /\ d.pos[i] = IF i \in KeptOut(c, s) THEN -1 ELSE c.pos[i]
        /\ d.seq[i] = IF s \in c.seq[i] THEN {s} ELSE IF i \in KeptOut(c, s) THEN {} ELSE c.seq[i]
  <2>1. c \in CellsType
    BY <1>1, InStream
  <2> HIDE DEF c
  <2> QED BY <2>1, SeqKeepFields
<1> HIDE DEF d
<1>4. ASSUME NEW q \in Seqs
      PROVE  MemOf(q)' = IF q # s THEN Memory!Nothing ELSE MemOf(q)
  <2>1. Stream(q) \in Streams /\ Data' = Data
    BY <1>1, StreamIs, MemStays
  <2>2. CASE q = s
    <3>1. SameTokens(c, Data[st], s, d, Data[st], s)
      BY <1>3 DEF SameTokens, KeptOut
    <3>2. Mem(d, Data[st], s) = Mem(c, Data[st], s)
      BY <3>1, MemSame
    <3> QED BY <1>1, <1>2, <2>1, <2>2, <3>2, MemOfIs
  <2>3. CASE q # s
    <3>1. Stream(q) = st
      BY <1>0, <2>3, OneStreamIs
    <3>2. \A i \in Cells : q \notin d.seq[i]
      BY <1>3, <2>3 DEF KeptOut
    <3>3. Mem(d, Data[st], q) = Memory!Nothing
      BY <3>2, MemNothing
    <3> QED BY <1>1, <1>2, <2>1, <2>3, <3>1, <3>3, MemOfIs
  <2> QED BY <2>2, <2>3
<1>5. Memory!Keep(s) <=>
        ([q \in Seqs |-> MemOf(q)])' =
          [q \in Seqs |-> IF q # s THEN Memory!Nothing ELSE [x \in Seqs |-> MemOf(x)][q]]
  BY DEF Memory!Keep
<1> QED BY <1>4, <1>5

\* Then t has its own tokens and those of s.
LEMMA MemJoin ==
  ASSUME NEW c, NEW data, NEW s, NEW t, NEW d, NEW P, SharedTokens(c, s, t, d, P)
  PROVE  Mem(d, data, t) = Memory!Join(Mem(c, data, t), Memory!At(Mem(c, data, s), P))
<1>1. ASSUME NEW k \in Toks, NEW p \in Positions
      PROVE  Cardinality(TokCells(d, data, t, k, p)) =
               Mem(c, data, t)[k][p] + Memory!At(Mem(c, data, s), P)[k][p]
  <2> DEFINE A == TokCells(c, data, t, k, p)
             B == TokCells(c, data, s, k, p)
  <2>1. IsFiniteSet(A) /\ IsFiniteSet(B) /\ Cardinality(A) \in Nat
    BY TokCellsFinite
  <2>2. /\ Mem(c, data, t)[k][p] = Cardinality(A)
        /\ Memory!At(Mem(c, data, s), P)[k][p] = IF p \in P THEN Cardinality(B) ELSE 0
    <3>1. Mem(c, data, t)[k][p] = Cardinality(A) /\ Mem(c, data, s)[k][p] = Cardinality(B)
      BY MemType
    <3> QED BY <3>1, SamePositions DEF Memory!At
  <2>3. CASE p \in P
    <3>1. TokCells(d, data, t, k, p) = A \cup B /\ A \cap B = {}
      BY <2>3 DEF TokCells, SharedTokens
    <3> QED BY <2>1, <2>2, <2>3, <3>1, CardinalityJoin
  <2>4. CASE p \notin P
    <3>1. TokCells(d, data, t, k, p) = A
      BY <2>4 DEF TokCells, SharedTokens
    <3> QED BY <2>1, <2>2, <2>4, <3>1
  <2> QED BY <2>3, <2>4
<1> QED BY <1>1, SamePositions DEF Mem, Memory!Join

\* seq_cp within a stream adds the tokens of one sequence to another one.
LEMMA PromiseCpShare ==
  ASSUME CacheInv, NEW s \in Seqs, NEW d \in Seqs, NEW r \in Ranges, SeqCpShare(s, d, r[1], r[2])
  PROVE  Memory!CopyInto(s, d, Span(r))
<1> DEFINE st == Stream(s)
           c == v_cells[st]
           hit == SeqHits(c, s, r[1], r[2])
           e == SeqCpCells(c, s, d, r[1], r[2])
<1>1. /\ v_cells' = [v_cells EXCEPT ![st] = e] /\ UNCHANGED <<sc_info, store>> /\ st \in Streams
      /\ s # d /\ Stream(d) = st /\ NStream = 1
      /\ \A i \in hit : d \notin c.seq[i]
  BY StreamIs, OneStreamIs DEF SeqCpShare
<1>2. \A q \in Streams : v_cells'[q] = IF q = st THEN e ELSE v_cells[q]
  BY <1>1, OneStreamSet
<1>3. \A i \in Cells : /\ e.pos[i] = c.pos[i]
                       /\ e.seq[i] = IF i \in hit THEN c.seq[i] \cup {d} ELSE c.seq[i]
  <2>1. c \in CellsType
    BY <1>1, InStream
  <2> HIDE DEF c
  <2> QED BY <2>1, SeqCpFields
<1>4. \A i \in Cells : i \in hit <=> s \in c.seq[i] /\ c.pos[i] \in Span(r)
  <2>1. \A i \in Cells : s \in c.seq[i] => c.pos[i] \in Int
    BY <1>1, InStream
  <2> QED BY <2>1, SpanIs DEF SeqHits, PosIn
<1> HIDE DEF e, hit
<1>5. ASSUME NEW q \in Seqs
      PROVE  MemOf(q)' = IF q = d THEN Memory!Join(MemOf(d), Memory!At(MemOf(s), Span(r))) ELSE MemOf(q)
  <2>1. Stream(q) = st /\ Data' = Data
    BY <1>1, MemStays DEF Stream
  <2>2. CASE q = d
    <3>1. Mem(e, Data[st], d) = Memory!Join(Mem(c, Data[st], d), Memory!At(Mem(c, Data[st], s), Span(r)))
      <4>1. SharedTokens(c, s, d, e, Span(r))
        BY <1>1, <1>3, <1>4 DEF SharedTokens
      <4> QED BY <4>1, MemJoin
    <3>2. MemOf(d)' = Mem(e, Data[st], d)
      BY <1>1, <1>2, <2>1, MemOfIs
    <3>3. MemOf(d) = Mem(c, Data[st], d) /\ MemOf(s) = Mem(c, Data[st], s)
      BY <1>1, MemOfIs
    <3> QED BY <2>2, <3>1, <3>2, <3>3
  <2>3. CASE q # d
    <3>1. SameTokens(c, Data[st], q, e, Data[st], q)
      BY <1>3, <2>3 DEF SameTokens
    <3>2. Mem(e, Data[st], q) = Mem(c, Data[st], q)
      BY <3>1, MemSame
    <3> QED BY <1>1, <1>2, <2>1, <2>3, <3>2, MemOfIs
  <2> QED BY <2>2, <2>3
<1>6. Memory!CopyInto(s, d, Span(r)) <=>
        /\ NStream = 1
        /\ ([q \in Seqs |-> MemOf(q)])' =
             [[q \in Seqs |-> MemOf(q)] EXCEPT ![d] =
                Memory!Join(@, Memory!At([q \in Seqs |-> MemOf(q)][s], Span(r)))]
  BY DEF Memory!CopyInto
<1> QED BY <1>1, <1>5, <1>6

\* seq_cp to another stream replaces what is there.
LEMMA PromiseCpStream ==
  ASSUME CacheInv, NEW s \in Seqs, NEW d \in Seqs, SeqCpStream(s, d)
  PROVE  Memory!CopyOver(s, d)
<1> DEFINE from == Stream(s)
           to == Stream(d)
           c == v_cells[from]
           e == Imported(c, s, d)
<1>1. /\ v_cells' = [v_cells EXCEPT ![to] = e] /\ store' = store /\ from \in Streams /\ to \in Streams
      /\ from # to /\ s # d /\ NStream # 1
      /\ sc_info' = Append(sc_info, <<from, to>>)
  <2>1. from # to
    BY DEF SeqCpStream
  <2>2. s # d
    BY <2>1
  <2> QED BY <2>1, <2>2, StreamIs, OneStreamIs DEF SeqCpStream
<1>2. \A q \in Streams : v_cells'[q] = IF q = to THEN e ELSE v_cells[q]
  BY <1>1, OneStreamSet
<1>3. \A i \in Cells : /\ e.pos[i] = IF s \in c.seq[i] THEN c.pos[i] ELSE -1
                       /\ e.seq[i] = IF s \in c.seq[i] THEN {d} ELSE {}
  <2>1. c \in GoodCells
    BY <1>1, InStream
  <2> HIDE DEF c
  <2> QED BY <2>1, ImportedIs
<1>4. \A q \in Streams : Data'[q] = IF q = to THEN Data[from] ELSE Data[q]
  <2> DEFINE cp == <<from, to>>
             X == [Cells -> Datum]
  <2>1. store \in [Streams -> X] /\ sc_info \in Seq(Streams \X Streams)
        /\ cp \in Streams \X Streams /\ cp[1] = from /\ cp[2] = to
    BY <1>1 DEF CacheInv, Stores
  <2>2. Data' = CopiedBy(store, Append(sc_info, cp))
    BY <1>1 DEF Data, CopiedBy
  <2> HIDE DEF cp, X
  <2>3. CopiedBy(store, Append(sc_info, cp)) = Copied(CopiedBy(store, sc_info), cp)
        /\ CopiedBy(store, sc_info) \in [Streams -> X]
    BY <2>1, CopiedAppend
  <2>4. Data' = Copied(Data, cp) /\ Data \in [Streams -> X]
    BY <2>2, <2>3 DEF Data
  <2>5. \A q \in Streams : Copied(Data, cp)[q] = IF q = cp[2] THEN Data[cp[1]] ELSE Data[q]
    <3>1. cp \in Streams \X Streams
      BY <2>1
    <3>2. \A m \in [Streams -> X] : \A q \in Streams : Copied(m, cp)[q] = IF q = cp[2] THEN m[cp[1]] ELSE m[q]
      BY <3>1, CopiedStep
    <3> QED BY <2>4, <3>2
  <2> QED BY <2>1, <2>4, <2>5
<1> HIDE DEF e
<1>5. ASSUME NEW q \in Seqs PROVE MemOf(q)' = IF q = d THEN MemOf(s) ELSE MemOf(q)
  <2>1. CASE q = d
    <3>1. SameTokens(c, Data[from], s, e, Data[from], d)
      BY <1>3 DEF SameTokens
    <3>2. Mem(e, Data[from], d) = Mem(c, Data[from], s)
      BY <3>1, MemSame
    <3>3. MemOf(d)' = Mem(e, Data[from], d)
      BY <1>1, <1>2, <1>4, MemOfIs
    <3>4. MemOf(s) = Mem(c, Data[from], s)
      BY MemOfIs
    <3> QED BY <2>1, <3>2, <3>3, <3>4
  <2>2. CASE q # d
    <3>1. Stream(q) # to /\ Stream(q) \in Streams
      BY <1>1, <2>2, OneStreamIs, StreamIs
    <3> QED BY <1>2, <1>4, <2>2, <3>1, MemOfIs
  <2> QED BY <2>1, <2>2
<1>6. Memory!CopyOver(s, d) <=>
        /\ ~(NStream = 1)
        /\ ([q \in Seqs |-> MemOf(q)])' = [[q \in Seqs |-> MemOf(q)] EXCEPT ![d] = [q \in Seqs |-> MemOf(q)][s]]
  BY DEF Memory!CopyOver
<1> QED BY <1>1, <1>5, <1>6

\* Such a function gives the sum of f.
LEMMA SumIs ==
  ASSUME NEW S, IsFiniteSet(S), NEW f, NEW g, AddsUp(g, f, S)
  PROVE  Memory!SumFunctionOnSet(f, S) = g[S]
<1> DEFINE pick(T) == CHOOSE x \in T : TRUE
           Rec(h) == h = [T \in SUBSET S |-> IF T = {} THEN 0 ELSE f[pick(T)] + h[T \ {pick(T)}]]
           sum == CHOOSE h : Rec(h)
<1>1. \A T \in SUBSET S : T # {} => pick(T) \in T
  OBVIOUS
<1>2. Memory!SumFunctionOnSet(f, S) = sum[S]
  BY DEF Memory!SumFunctionOnSet, Memory!FoldFunctionOnSet, Memory!MapThenFoldSet
<1> HIDE DEF pick
<1>g. /\ g = [T \in SUBSET S |-> g[T]] /\ g[{}] = 0
      /\ \A T \in SUBSET S : \A x \in T : g[T] = f[x] + g[T \ {x}]
  BY DEF AddsUp
<1>3. Rec(g)
  BY <1>1, <1>g
<1>4. ASSUME NEW h, Rec(h) PROVE \A T \in SUBSET S : h[T] = g[T]
  <2> DEFINE bad == {n \in Nat : \E T \in SUBSET S : h[T] # g[T] /\ n = Cardinality(T)}
  <2>1. SUFFICES ASSUME NEW U \in SUBSET S, h[U] # g[U] PROVE FALSE
    OBVIOUS
  <2>2. \A T \in SUBSET S : IsFiniteSet(T) /\ Cardinality(T) \in Nat
    BY FS_Subset, FS_CardinalityType
  <2>3. bad \subseteq Nat /\ bad # {}
    BY <2>1, <2>2
  <2>4. PICK m \in bad : \A k \in bad : m <= k
    <3> HIDE DEF bad
    <3> QED BY <2>3, LeastNat
  <2>5. PICK T \in SUBSET S : h[T] # g[T] /\ m = Cardinality(T)
    OBVIOUS
  <2>6. T # {}
    BY <1>4, <1>g, <2>5
  <2> DEFINE x == pick(T)
             R == T \ {x}
  <2>7. x \in T /\ R \in SUBSET S /\ h[T] = f[x] + h[R] /\ g[T] = f[x] + g[R]
    BY <1>1, <1>4, <1>g, <2>6
  <2>8. Cardinality(R) = Cardinality(T) - 1
    <3> HIDE DEF x
    <3> QED BY <2>2, <2>7, FS_RemoveElement
  <2>9. h[R] # g[R]
    BY <2>5, <2>7
  <2>10. Cardinality(R) \in bad
    BY <2>2, <2>7, <2>9
  <2> HIDE DEF bad
  <2>11. m <= Cardinality(R) /\ m \in Nat
    BY <2>3, <2>4, <2>10
  <2> QED BY <2>5, <2>8, <2>11
<1>5. Rec(sum)
  BY <1>3
<1> HIDE DEF sum
<1> QED BY <1>2, <1>4, <1>5

\* Then s has what was not moved and, at each position, the sum of what came there.
LEMMA MemMoved ==
  ASSUME NEW c, NEW data, NEW s, NEW d, NEW P \in SUBSET Positions, NEW to, MovedTokens(c, s, d, P, to),
         NEW t \in Toks, NEW p \in Positions
  PROVE  Mem(d, data, s)[t][p] =
           Memory!At(Mem(c, data, s), Memory!Positions \ P)[t][p]
           + Memory!SumFunctionOnSet(Mem(c, data, s)[t], Origins(P, to, p))
<1> DEFINE m == Mem(c, data, s)
           Q == Origins(P, to, p)
           F(T) == {i \in Cells : s \in c.seq[i] /\ c.pos[i] \in T /\ data[i].tok = t}
           A == {i \in Cells : s \in c.seq[i] /\ c.pos[i] \notin P /\ c.pos[i] = p /\ data[i].tok = t}
           g == [T \in SUBSET Q |-> Cardinality(F(T))]
<1>1. IsFiniteSet(Cells) /\ IsFiniteSet(Positions)
  BY CellsAssumption, FS_Interval DEF Cells, Positions
<1>2. \A T : IsFiniteSet(F(T))
  <2>1. \A T : F(T) \in SUBSET Cells
    OBVIOUS
  <2> QED BY <1>1, <2>1, FS_Subset
<1>3. IsFiniteSet(Q) /\ Q \subseteq Positions
  <2>1. Q \in SUBSET Positions
    BY DEF Origins
  <2> QED BY <1>1, <2>1, FS_Subset
<1>4. F({}) = {}
  OBVIOUS
<1>5. ASSUME NEW T \in SUBSET Q, NEW x \in T
      PROVE  g[T] = m[t][x] + g[T \ {x}]
  <2> DEFINE X == TokCells(c, data, s, t, x)
             R == F(T \ {x})
  <2>1. F(T) = X \cup R /\ X \cap R = {}
    BY DEF TokCells
  <2>2. IsFiniteSet(X) /\ IsFiniteSet(R)
    BY <1>2, TokCellsFinite
  <2>3. m[t][x] = Cardinality(X)
    BY <1>3, MemType
  <2>4. Cardinality(F(T)) = Cardinality(X) + Cardinality(R)
    <3> HIDE DEF X, R, F
    <3> QED BY <2>1, <2>2, CardinalityJoin
  <2>5. g[T] = Cardinality(F(T)) /\ g[T \ {x}] = Cardinality(R)
    OBVIOUS
  <2> HIDE DEF g, X, R, F, m
  <2> QED BY <2>3, <2>4, <2>5
<1>6. Memory!SumFunctionOnSet(m[t], Q) = Cardinality(F(Q))
  <2>1. g[{}] = 0
    BY <1>4, FS_EmptySet
  <2>2. g = [T \in SUBSET Q |-> g[T]] /\ g[Q] = Cardinality(F(Q))
    OBVIOUS
  <2> HIDE DEF g, F, Q, m
  <2>3. AddsUp(g, m[t], Q)
    BY <1>5, <2>1, <2>2 DEF AddsUp
  <2>4. Memory!SumFunctionOnSet(m[t], Q) = g[Q]
    BY <1>3, <2>3, SumIs
  <2> QED BY <2>2, <2>4
<1>7. Memory!At(m, Memory!Positions \ P)[t][p] = Cardinality(A)
  <2>1. Memory!At(m, Memory!Positions \ P)[t][p] = IF p \in P THEN 0 ELSE Cardinality(TokCells(c, data, s, t, p))
    <3>1. m[t][p] = Cardinality(TokCells(c, data, s, t, p))
      BY MemType
    <3> HIDE DEF m
    <3> QED BY <3>1, SamePositions DEF Memory!At
  <2>2. A = IF p \in P THEN {} ELSE TokCells(c, data, s, t, p)
    BY DEF TokCells
  <2> QED BY <2>1, <2>2, FS_EmptySet
<1>8. TokCells(d, data, s, t, p) = A \cup F(Q) /\ A \cap F(Q) = {}
  BY DEF TokCells, MovedTokens, Origins
<1>9. IsFiniteSet(A)
  <2>1. A \in SUBSET Cells
    OBVIOUS
  <2> QED BY <1>1, <2>1, FS_Subset
<1> HIDE DEF A, F, Q
<1>10. Cardinality(TokCells(d, data, s, t, p)) = Cardinality(A) + Cardinality(F(Q))
  BY <1>2, <1>8, <1>9, CardinalityJoin
<1>11. Mem(d, data, s)[t][p] = Cardinality(TokCells(d, data, s, t, p))
  BY MemType
<1> QED BY <1>6, <1>7, <1>10, <1>11 DEF m, Q

LEMMA PromiseMoved ==
  ASSUME CacheInv, NEW s \in Seqs, NEW P \in SUBSET Positions, NEW to, NEW d,
         v_cells' = [v_cells EXCEPT ![Stream(s)] = d], UNCHANGED <<sc_info, store>>,
         MovedTokens(v_cells[Stream(s)], s, d, P, to),
         \A i \in Cells : s \in v_cells[Stream(s)].seq[i] /\ v_cells[Stream(s)].pos[i] \in P =>
           v_cells[Stream(s)].seq[i] = {s} /\ d.seq[i] \subseteq {s},
         \A i \in Cells : ~(s \in v_cells[Stream(s)].seq[i] /\ v_cells[Stream(s)].pos[i] \in P) =>
           d.seq[i] = v_cells[Stream(s)].seq[i]
  PROVE  MovesTo(s, P, to)
<1> DEFINE st == Stream(s)
           c == v_cells[st]
<1>1. st \in Streams /\ Data' = Data
  BY StreamIs, MemStays
<1>2. \A q \in Streams : v_cells'[q] = IF q = st THEN d ELSE v_cells[q]
  <2>1. DOMAIN v_cells = Streams
    BY CacheCellsIs DEF CacheInv
  <2> QED BY <1>1, <2>1
<1>3. ASSUME NEW q \in Seqs, q # s PROVE MemOf(q)' = MemOf(q)
  <2>1. Stream(q) \in Streams
    BY StreamIs
  <2>2. CASE Stream(q) # st
    BY <1>2, <2>1, <2>2, MemStays
  <2>3. CASE Stream(q) = st
    <3>1. SameTokens(c, Data[st], q, d, Data[st], q)
      BY <1>3 DEF SameTokens, MovedTokens
    <3>2. Mem(d, Data[st], q) = Mem(c, Data[st], q)
      BY <3>1, MemSame
    <3> QED BY <1>1, <1>2, <2>3, <3>2, MemOfIs
  <2> QED BY <2>2, <2>3
<1>4. MemOf(s)' = Memory!Join(Memory!At(MemOf(s), Memory!Positions \ P),
         [t \in Toks |-> [p \in Memory!Positions |->
            Memory!SumFunctionOnSet(MemOf(s)[t], Origins(P, to, p))]])
  <2> DEFINE m == Mem(c, Data[st], s)
             stay == Memory!At(m, Memory!Positions \ P)
             Came(t, p) == Memory!SumFunctionOnSet(m[t], Origins(P, to, p))
             come == [t \in Toks |-> [p \in Positions |-> Came(t, p)]]
  <2>1. MemOf(s)' = Mem(d, Data[st], s) /\ MemOf(s) = m
    BY <1>1, <1>2, MemOfIs
  <2>2. \A t \in Toks, p \in Positions : Mem(d, Data[st], s)[t][p] = stay[t][p] + Came(t, p)
    <3> HIDE DEF c
    <3>1. ASSUME NEW t \in Toks, NEW p \in Positions
          PROVE  Mem(d, Data[st], s)[t][p] =
                   Memory!At(Mem(c, Data[st], s), Memory!Positions \ P)[t][p]
                   + Memory!SumFunctionOnSet(Mem(c, Data[st], s)[t], Origins(P, to, p))
      <4>1. MovedTokens(c, s, d, P, to)
        BY DEF c
      <4> QED BY <4>1, MemMoved
    <3> QED BY <3>1
  <2> HIDE DEF m, stay, Came
  <2>3. Mem(d, Data[st], s) = [t \in Toks |-> [p \in Positions |-> stay[t][p] + come[t][p]]]
    <3>1. Mem(d, Data[st], s) = [t \in Toks |-> [p \in Positions |-> Mem(d, Data[st], s)[t][p]]]
      BY DEF Mem
    <3> QED BY <2>2, <3>1
  <2>4. Mem(d, Data[st], s) = Memory!Join(stay, come)
    BY <2>3, SamePositions DEF Memory!Join
  <2> QED BY <2>1, <2>4, SamePositions DEF stay, Came
<1> QED BY <1>3, <1>4 DEF MovesTo

\* seq_add moves the tokens of one sequence, and drops those that fall below 0.
LEMMA PromiseAdd ==
  ASSUME CacheInv, ~SharedShift, NEW s \in Seqs, NEW r \in Ranges, NEW n \in Deltas,
         SeqAdd(s, r[1], r[2], n)
  PROVE  Memory!Move(s, Span(r), LAMBDA p : p + n)
<1> DEFINE st == Stream(s)
           c == v_cells[st]
           hit == SeqHits(c, s, r[1], r[2])
           d == PosAddCells(c, hit, n)
           to == [p \in Positions |-> p + n]
           P == Span(r)
<1>1. /\ v_cells' = [v_cells EXCEPT ![st] = d] /\ UNCHANGED <<sc_info, store>> /\ st \in Streams
      /\ \A i \in hit : c.seq[i] = {s} /\ c.pos[i] + n <= MaxPos
      /\ n \in Int /\ P \in SUBSET Positions
  BY StreamIs, SpanIs, CacheAssumption DEF SeqAdd
<1>2. /\ c \in CellsType /\ hit \in SUBSET Cells
      /\ \A i \in Cells : s \in c.seq[i] => c.pos[i] \in Positions /\ c.pos[i] \in Int
  BY <1>1, InStream DEF SeqHits, Positions
<1>3. \A i \in Cells : i \in hit <=> s \in c.seq[i] /\ c.pos[i] \in P
  BY <1>2, SpanIs DEF SeqHits, PosIn
<1> HIDE DEF hit
<1>4. \A i \in Cells :
        LET out == i \in hit /\ c.pos[i] + n < 0
        IN  /\ d.pos[i] = IF out THEN -1 ELSE IF i \in hit THEN c.pos[i] + n ELSE c.pos[i]
            /\ d.seq[i] = IF out THEN {} ELSE c.seq[i]
  <2> HIDE DEF c
  <2> QED BY <1>1, <1>2, PosAddFields
<1> HIDE DEF d, P
<1>5. \A i \in hit : to[c.pos[i]] = c.pos[i] + n
  BY <1>2, <1>3
<1>6. MovedTokens(c, s, d, P, to)
  <2>1. \A i \in hit : c.pos[i] + n < 0 <=> c.pos[i] + n \notin Positions
    BY <1>1, <1>2, <1>3, CellsAssumption DEF Positions
  <2> HIDE DEF to, c
  <2>2. ASSUME NEW i \in Cells, s \in c.seq[i], c.pos[i] \in P
        PROVE  \/ s \in d.seq[i] /\ d.pos[i] = to[c.pos[i]]
               \/ s \notin d.seq[i] /\ to[c.pos[i]] \notin Positions
    BY <1>3, <1>4, <1>5, <2>1, <2>2
  <2>3. ASSUME NEW i \in Cells, ~(s \in c.seq[i] /\ c.pos[i] \in P)
        PROVE  d.pos[i] = c.pos[i] /\ d.seq[i] = c.seq[i]
    BY <1>3, <1>4, <2>3
  <2> QED BY <2>2, <2>3 DEF MovedTokens
<1>7. MovesTo(s, P, to)
  <2>1. \A i \in Cells : s \in c.seq[i] /\ c.pos[i] \in P => c.seq[i] = {s} /\ d.seq[i] \subseteq {s}
    BY <1>1, <1>3, <1>4
  <2>2. \A i \in Cells : ~(s \in c.seq[i] /\ c.pos[i] \in P) => d.seq[i] = c.seq[i]
    BY <1>3, <1>4
  <2> HIDE DEF to
  <2> QED BY <1>1, <1>6, <2>1, <2>2, PromiseMoved
<1> DEFINE m == [q \in Seqs |-> MemOf(q)]
           X == Memory!Positions \ P
           Y == [t \in Toks |-> [p \in Memory!Positions |->
                   Memory!SumFunctionOnSet(MemOf(s)[t], Origins(P, to, p))]]
           Z == [t \in Toks |-> [p \in Memory!Positions |->
                   Memory!SumFunctionOnSet([q \in Seqs |-> MemOf(q)][s][t], {q \in P : q + n = p})]]
<1>8. Y = Z
  <2> DEFINE A(p) == Origins(P, to, p)
             B(p) == {q \in P : q + n = p}
             k == m[s]
  <2>1. \A p : A(p) = B(p)
    BY <1>1 DEF Origins
  <2>2. k = MemOf(s)
    OBVIOUS
  <2> HIDE DEF to, A, B, k
  <2>3. [t \in Toks |-> [p \in Memory!Positions |-> Memory!SumFunctionOnSet(MemOf(s)[t], A(p))]]
      = [t \in Toks |-> [p \in Memory!Positions |-> Memory!SumFunctionOnSet(k[t], B(p))]]
    BY <2>1, <2>2
  <2> QED BY <2>3 DEF A, B, k
<1>10. m[s] = MemOf(s)
  OBVIOUS
<1>11. m' = [m EXCEPT ![s] = Memory!Join(Memory!At(MemOf(s), X), Y)]
  BY <1>7 DEF MovesTo
<1> HIDE DEF m, X, Y, Z
<1>14. [m EXCEPT ![s] = Memory!Join(Memory!At(@, X), Z)] = [m EXCEPT ![s] = Memory!Join(Memory!At(MemOf(s), X), Y)]
  BY <1>8, <1>10
<1>15. m' = [m EXCEPT ![s] = Memory!Join(Memory!At(@, X), Z)]
  BY <1>11, <1>14
<1> QED BY <1>15 DEF m, X, Z, P, Memory!Move, Memory!Moved

\* seq_div moves them, too.
LEMMA PromiseDiv ==
  ASSUME CacheInv, ~SharedShift, NEW s \in Seqs, NEW r \in Ranges, NEW n \in Divisors,
         SeqDiv(s, r[1], r[2], n)
  PROVE  Memory!Move(s, Span(r), LAMBDA p : p \div n)
<1> DEFINE st == Stream(s)
           c == v_cells[st]
           hit == SeqHits(c, s, r[1], r[2])
           d == PosDivCells(c, hit, n)
           to == [p \in Positions |-> p \div n]
           P == Span(r)
<1>1. /\ v_cells' = [v_cells EXCEPT ![st] = d] /\ UNCHANGED <<sc_info, store>> /\ st \in Streams
      /\ \A i \in hit : c.seq[i] = {s}
      /\ n \in Nat \ {0} /\ P \in SUBSET Positions
  BY StreamIs, SpanIs, CacheAssumption DEF SeqDiv
<1>2. /\ c \in CellsType /\ hit \in SUBSET Cells
      /\ \A i \in Cells : s \in c.seq[i] => c.pos[i] \in Positions /\ c.pos[i] \in Int
  BY <1>1, InStream DEF SeqHits, Positions
<1>3. \A i \in Cells : i \in hit <=> s \in c.seq[i] /\ c.pos[i] \in P
  BY <1>2, SpanIs DEF SeqHits, PosIn
<1> HIDE DEF hit
<1>4. \A i \in Cells : /\ d.pos[i] = IF i \in hit THEN c.pos[i] \div n ELSE c.pos[i]
                       /\ d.seq[i] = c.seq[i]
  <2> HIDE DEF c
  <2> QED BY <1>1, <1>2, PosDivFields
<1> HIDE DEF d, P
<1>5. \A i \in hit : to[c.pos[i]] = c.pos[i] \div n
  BY <1>2, <1>3
<1> HIDE DEF to
<1>6. MovedTokens(c, s, d, P, to)
  <2> HIDE DEF c
  <2>2. ASSUME NEW i \in Cells, s \in c.seq[i], c.pos[i] \in P
        PROVE  s \in d.seq[i] /\ d.pos[i] = to[c.pos[i]]
    BY <1>3, <1>4, <1>5, <2>2
  <2>3. ASSUME NEW i \in Cells, ~(s \in c.seq[i] /\ c.pos[i] \in P)
        PROVE  d.pos[i] = c.pos[i] /\ d.seq[i] = c.seq[i]
    BY <1>3, <1>4, <2>3
  <2> QED BY <2>2, <2>3 DEF MovedTokens
<1>7. MovesTo(s, P, to)
  <2>1. \A i \in Cells : s \in c.seq[i] /\ c.pos[i] \in P => c.seq[i] = {s} /\ d.seq[i] \subseteq {s}
    BY <1>1, <1>3, <1>4
  <2>2. \A i \in Cells : ~(s \in c.seq[i] /\ c.pos[i] \in P) => d.seq[i] = c.seq[i]
    BY <1>3, <1>4
  <2> QED BY <1>1, <1>6, <2>1, <2>2, PromiseMoved
<1> DEFINE m == [q \in Seqs |-> MemOf(q)]
           X == Memory!Positions \ P
           Y == [t \in Toks |-> [p \in Memory!Positions |->
                   Memory!SumFunctionOnSet(MemOf(s)[t], Origins(P, to, p))]]
           Z == [t \in Toks |-> [p \in Memory!Positions |->
                   Memory!SumFunctionOnSet([q \in Seqs |-> MemOf(q)][s][t], {q \in P : q \div n = p})]]
<1>8. Y = Z
  <2> DEFINE A(p) == Origins(P, to, p)
             B(p) == {q \in P : q \div n = p}
             k == m[s]
  <2>1. \A p : A(p) = B(p)
    BY <1>1 DEF Origins, to
  <2>2. k = MemOf(s)
    OBVIOUS
  <2> HIDE DEF to, A, B, k
  <2>3. [t \in Toks |-> [p \in Memory!Positions |-> Memory!SumFunctionOnSet(MemOf(s)[t], A(p))]]
      = [t \in Toks |-> [p \in Memory!Positions |-> Memory!SumFunctionOnSet(k[t], B(p))]]
    BY <2>1, <2>2
  <2> QED BY <2>3 DEF A, B, k
<1>10. m[s] = MemOf(s)
  OBVIOUS
<1>11. m' = [m EXCEPT ![s] = Memory!Join(Memory!At(MemOf(s), X), Y)]
  BY <1>7 DEF MovesTo
<1> HIDE DEF m, X, Y, Z
<1>14. [m EXCEPT ![s] = Memory!Join(Memory!At(@, X), Z)] = [m EXCEPT ![s] = Memory!Join(Memory!At(MemOf(s), X), Y)]
  BY <1>8, <1>10
<1>15. m' = [m EXCEPT ![s] = Memory!Join(Memory!At(@, X), Z)]
  BY <1>11, <1>14
<1> QED BY <1>15 DEF m, X, Z, P, Memory!Move, Memory!Moved

\* SeqMemory sees the positions that are in view.
LEMMA SeenIs ==
  ASSUME NEW c \in GoodCells, NEW data \in [Cells -> Datum], NEW s \in Seqs, NEW p
  PROVE  Memory!Seen(Mem(c, data, s), p) <=> InView(c, s, p)
BY MemLast DEF Memory!Seen, InView

\* A sequence that has grown in its cells has grown in SeqMemory.
LEMMA MemGrown ==
  ASSUME NEW c \in GoodCells, NEW data \in [Cells -> Datum], NEW s \in Seqs, NEW d, NEW new,
         NEW t, NEW n \in 0 .. NBatch, NEW J, GrownTokens(c, data, s, d, new, t, n, J)
  PROVE  Memory!Grown(Mem(c, data, s), Mem(d, new, s), t)
<1> DEFINE m == Mem(c, data, s)
           e == Mem(d, new, s)
           added == SeqPosMax(c, s) + 1 .. SeqPosMax(c, s) + n
           one(u, p) == IF u = t /\ p \in added THEN 1 ELSE 0
<1>1. ASSUME NEW u \in Toks, NEW p \in Positions
      PROVE  /\ e[u][p] <= m[u][p] + one(u, p)
             /\ e[u][p] >= one(u, p) + IF InView(c, s, p) THEN m[u][p] ELSE 0
  <2> DEFINE O == TokCells(c, data, s, u, p)
             N == TokCells(d, new, s, u, p)
             A == N \ J
             B == N \cap J
  <2>1. /\ IsFiniteSet(O) /\ IsFiniteSet(N) /\ Cardinality(O) \in Nat
        /\ m[u][p] = Cardinality(O) /\ e[u][p] = Cardinality(N)
    BY TokCellsFinite, MemType
  <2>2. IsFiniteSet(A) /\ IsFiniteSet(B)
    <3>1. A \in SUBSET N /\ B \in SUBSET N
      OBVIOUS
    <3> QED BY <2>1, <3>1, FS_Subset
  <2>3. Cardinality(N) = Cardinality(A) + Cardinality(B)
    <3>1. N = A \cup B /\ A \cap B = {}
      OBVIOUS
    <3> HIDE DEF N, A, B
    <3> QED BY <2>2, <3>1, CardinalityJoin
  <2>4. A \in SUBSET O
    BY DEF TokCells, GrownTokens
  <2>5. Cardinality(A) \in Nat /\ Cardinality(A) <= Cardinality(O)
    <3> HIDE DEF A, O
    <3> QED BY <2>1, <2>2, <2>4, FS_Subset, FS_CardinalityType
  <2>6. InView(c, s, p) => A = O
    BY <2>4 DEF TokCells, GrownTokens
  <2>7. Cardinality(B) = one(u, p)
    <3>1. CASE u = t /\ p \in added
      <4>1. PICK i \in J : i \in Cells /\ s \in d.seq[i] /\ d.pos[i] = p
        BY <3>1 DEF GrownTokens
      <4>2. new[i].tok = t
        BY <4>1 DEF GrownTokens
      <4>3. B = {i}
        BY <3>1, <4>1, <4>2 DEF TokCells, GrownTokens
      <4> HIDE DEF B
      <4> QED BY <3>1, <4>3, FS_Singleton
    <3>2. CASE ~(u = t /\ p \in added)
      <4>1. B = {}
        BY <3>2 DEF TokCells, GrownTokens
      <4> HIDE DEF B
      <4> QED BY <3>2, <4>1, FS_EmptySet
    <3> QED BY <3>1, <3>2
  <2> HIDE DEF A, B, O, N, m, e, added
  <2> QED BY <2>1, <2>3, <2>5, <2>6, <2>7
<1>2. Memory!Last(m) = SeqPosMax(c, s) /\ m \in Memory!Memories /\ e \in Memory!Memories
  BY MemLast, MemType
<1>3. \A p : Memory!Seen(m, p) <=> InView(c, s, p)
  BY SeenIs
<1> HIDE DEF m, e
<1>4. \A u \in Toks, p \in Positions :
        LET more == IF u = t /\ p \in Memory!Last(m) + 1 .. Memory!Last(m) + n THEN 1 ELSE 0
        IN  /\ e[u][p] <= m[u][p] + more
            /\ e[u][p] >= more + IF Memory!Seen(m, p) THEN m[u][p] ELSE 0
  BY <1>1, <1>2, <1>3
<1> QED BY <1>2, <1>4, SamePositions DEF Memory!Grown, m, e

\* A sequence that was only thinned has not grown.
LEMMA MemKept ==
  ASSUME NEW c \in GoodCells, NEW data \in [Cells -> Datum], NEW s \in Seqs, NEW d, NEW new,
         KeptTokens(c, data, s, d, new)
  PROVE  /\ Memory!Kept(Mem(c, data, s), Mem(d, new, s))
         /\ \A t : Memory!Grown(Mem(c, data, s), Mem(d, new, s), t)
<1>1. ASSUME NEW t PROVE Memory!Grown(Mem(c, data, s), Mem(d, new, s), t)
  <2>1. SeqPosMax(c, s) \in Int
    BY SeqPosMaxIs DEF Positions
  <2>2. \A p \in SeqPosMax(c, s) + 1 .. SeqPosMax(c, s) + 0 : FALSE
    BY <2>1
  <2>3. GrownTokens(c, data, s, d, new, t, 0, {})
    BY <2>2 DEF GrownTokens, KeptTokens
  <2>4. 0 \in 0 .. NBatch
    BY CacheAssumption
  <2> QED BY <2>3, <2>4, MemGrown
<1>2. ASSUME NEW u \in Toks, NEW p \in Positions
      PROVE  /\ Mem(d, new, s)[u][p] <= Mem(c, data, s)[u][p]
             /\ InView(c, s, p) => Mem(d, new, s)[u][p] = Mem(c, data, s)[u][p]
  <2> DEFINE O == TokCells(c, data, s, u, p)
             N == TokCells(d, new, s, u, p)
  <2>1. /\ IsFiniteSet(O) /\ Mem(c, data, s)[u][p] = Cardinality(O) /\ Mem(d, new, s)[u][p] = Cardinality(N)
    BY TokCellsFinite, MemType
  <2>2. N \in SUBSET O /\ (InView(c, s, p) => N = O)
    BY DEF TokCells, KeptTokens
  <2> HIDE DEF O, N
  <2>3. Cardinality(N) <= Cardinality(O)
    BY <2>1, <2>2, FS_Subset
  <2> QED BY <2>1, <2>2, <2>3
<1>3. \A p : Memory!Seen(Mem(c, data, s), p) <=> InView(c, s, p)
  BY SeenIs
<1> QED BY <1>1, <1>2, <1>3, SamePositions DEF Memory!Kept

\* What is lost to a slot of usable cells is out of view.
LEMMA LostIsMasked ==
  ASSUME NEW c, Good(c), NEW idxs \in Idxs, \A i \in CellsOf(idxs) : CanUse(c, i), NEW s \in Seqs
  PROVE  /\ \A i \in CellsOf(idxs) : s \in c.seq[i] => ~InView(c, s, c.pos[i])
         /\ \A p \in Positions : InView(c, s, p) => p > UpTo(c, idxs)[s]
<1>1. CellsOf(idxs) \subseteq Cells
  BY DEF CellsOf, Idxs
<1>2. SeqPosMax(c, s) \in Int /\ NSwa \in Nat
  BY SeqPosMaxIs, CacheAssumption DEF Positions
<1>3. ASSUME NEW i \in CellsOf(idxs), s \in c.seq[i]
      PROVE  NSwa > 0 /\ c.pos[i] <= SeqPosMax(c, s) + 1 - NSwa
  <2>1. c.pos[i] \in Int /\ ~IsEmpty(c, i)
    BY <1>1, <1>3, CellHas
  <2>2. c.seq[i] = {s} /\ MaskedSwa(c.pos[i], SeqPosMax(c, s) + 1)
    BY <1>3, <2>1 DEF CanUse
  <2> QED BY <1>2, <2>1, <2>2 DEF MaskedSwa
<1>4. \A i \in CellsOf(idxs) : s \in c.seq[i] => ~InView(c, s, c.pos[i])
  <2>1. \A i \in CellsOf(idxs) : s \in c.seq[i] => c.pos[i] \in Int
    BY <1>1, CellHas
  <2> QED BY <1>2, <1>3, <2>1 DEF InView
<1>5. /\ UpTo(c, idxs)[s] \in Positions \cup {-1}
      /\ UpTo(c, idxs)[s] # -1 => \E i \in CellsOf(idxs) : s \in c.seq[i] /\ c.pos[i] = UpTo(c, idxs)[s]
  BY <1>1, UpToIs
<1>6. \A p \in Positions : InView(c, s, p) => p > UpTo(c, idxs)[s]
  BY <1>2, <1>3, <1>5 DEF InView, Positions
<1> QED BY <1>4, <1>6

\* There are as many places as there are cells in them.
LEMMA CountPlaces ==
  ASSUME NEW n \in Nat, NEW q, NEW K \in SUBSET (1 .. n), NEW A, Lists(q, K, A)
  PROVE  IsFiniteSet(K) /\ IsFiniteSet(A) /\ Cardinality(A) = Cardinality(K)
<1>1. IsFiniteSet(1 .. n)
  BY FS_Interval
<1>2. IsFiniteSet(K)
  BY <1>1, FS_Subset
<1> DEFINE f == [k \in K |-> q[k]]
<1>3. f \in Bijection(K, A)
  <2>1. f \in [K -> A] /\ (\A j, k \in K : f[j] = f[k] => j = k) /\ \A x \in A : \E k \in K : f[k] = x
    BY DEF Lists
  <2> HIDE DEF f
  <2>2. f \in Injection(K, A)
    BY <2>1 DEF Injection, IsInjective
  <2>3. f \in Surjection(K, A)
    BY <2>1 DEF Surjection
  <2> QED BY <2>2, <2>3 DEF Bijection
<1>4. ExistsBijection(K, A)
  BY <1>3 DEF ExistsBijection
<1> QED BY <1>2, <1>4, FS_Bijection

\* The cells of a sequence in order: each of them once.
LEMMA OrderIs ==
  ASSUME NEW I \in SUBSET Cells
  PROVE  LET order == Ascending(I, Cardinality(I))
             n     == Cardinality(I)
         IN  /\ n \in Nat /\ DOMAIN order = 1 .. n
             /\ \A j, k \in 1 .. n : order[j] = order[k] => j = k
             /\ I = {order[k] : k \in 1 .. n}
<1> DEFINE order == Ascending(I, Cardinality(I))
           n == Cardinality(I)
           R == {order[k] : k \in 1 .. n}
<1>1. I \subseteq Nat /\ IsFiniteSet(I) /\ n \in Nat
  <2>1. IsFiniteSet(Cells) /\ Cells \subseteq Nat
    BY CellsAssumption, FS_Interval DEF Cells
  <2>2. IsFiniteSet(I)
    BY <2>1, FS_Subset
  <2> QED BY <2>1, <2>2, FS_CardinalityType
<1>2. /\ DOMAIN order = 1 .. n
      /\ \A j \in 1 .. n : order[j] = Kth(I, j) /\ Kth(I, j) \in I
      /\ \A j, k \in 1 .. n : Kth(I, j) = Kth(I, k) => j = k
  <2>1. n \in 0 .. Cardinality(I)
    BY <1>1
  <2>2. order = Ascending(I, n)
    OBVIOUS
  <2> HIDE DEF n, order
  <2> QED BY <1>1, <2>1, <2>2, AscendingIs
<1>3. \A j, k \in 1 .. n : order[j] = order[k] => j = k
  BY <1>2
<1>4. R \in SUBSET I
  BY <1>2
<1>5. Cardinality(R) = n
  <2> DEFINE K == 1 .. n
  <2>1. K \in SUBSET (1 .. n) /\ R = {order[k] : k \in K} /\ Cardinality(K) = n
    BY <1>1, FS_Interval
  <2> HIDE DEF K, R, order, n
  <2>2. Lists(order, K, R)
    BY <1>3, <2>1 DEF Lists
  <2>3. n \in Nat /\ K \in SUBSET (1 .. n)
    BY <1>1, <2>1
  <2>4. Cardinality(R) = Cardinality(K)
    BY <2>2, <2>3, CountPlaces
  <2> QED BY <2>1, <2>4
<1>6. I = R
  <2>1. Cardinality(I) = Cardinality(R)
    BY <1>5
  <2> HIDE DEF R
  <2> QED BY <1>1, <1>4, <2>1, FS_Subset
<1> QED BY <1>1, <1>2, <1>3, <1>6

\* A settled cache has no copies to do, and its data are as the store has them.
LEMMA SettledData ==
  ASSUME CacheInv, Saves => ~EarlySaves, MaySave
  PROVE  sc_info = <<>> /\ Data = store
<1>1. sc_info = <<>>
  BY DEF MaySave, Settled
<1> QED BY <1>1, CopiedData DEF Data

\* What is saved is what the sequence has.
LEMMA PromiseSave ==
  ASSUME CacheInv, Saves => ~EarlySaves, NEW s \in Seqs, SaveSeq(s)
  PROVE  Memory!Save(s)
<1> DEFINE st == Stream(s)
           c == v_cells[st]
           data == store[st]
           I == {i \in Cells : s \in c.seq[i]}
           order == Ascending(I, Cardinality(I))
           n == Cardinality(I)
           cell(k) == [pos |-> c.pos[order[k]], tok |-> data[order[k]].tok, rot |-> data[order[k]].rot]
<1>1. /\ saved' = [k \in DOMAIN order |-> cell(k)]
      /\ UNCHANGED <<v_cells, sc_info, store>> /\ Data = store /\ st \in Streams
  BY StreamIs, SettledData DEF SaveSeq
<1>2. /\ n \in Nat /\ DOMAIN order = 1 .. n
      /\ \A j, k \in 1 .. n : order[j] = order[k] => j = k
      /\ I = {order[k] : k \in 1 .. n}
  <2>1. I \in SUBSET Cells
    OBVIOUS
  <2> HIDE DEF I
  <2> QED BY <2>1, OrderIs
<1>3. MemOf(s) = Mem(c, data, s) /\ \A q \in Seqs : MemOf(q)' = MemOf(q)
  BY <1>1, MemOfIs, MemStays
<1>a. \A k : cell(k).pos = c.pos[order[k]] /\ cell(k).tok = data[order[k]].tok
  OBVIOUS
<1> HIDE DEF order, cell, n
<1>4. DOMAIN saved' = 1 .. n /\ \A k \in 1 .. n : saved'[k].pos = c.pos[order[k]] /\ saved'[k].tok = data[order[k]].tok
  BY <1>1, <1>2, <1>a
<1>5. ASSUME NEW t \in Toks, NEW p \in Positions
      PROVE  Cardinality({k \in DOMAIN saved' : saved'[k].pos = p /\ saved'[k].tok = t}) = Mem(c, data, s)[t][p]
  <2> DEFINE K == {k \in DOMAIN saved' : saved'[k].pos = p /\ saved'[k].tok = t}
             A == TokCells(c, data, s, t, p)
  <2>1. K \in SUBSET (1 .. n)
    BY <1>4
  <2>2. Lists(order, K, A)
    <3>1. A = {order[k] : k \in K}
      BY <1>2, <1>4 DEF TokCells
    <3> QED BY <1>2, <2>1, <3>1 DEF Lists
  <2>3. Mem(c, data, s)[t][p] = Cardinality(A)
    BY MemType
  <2> HIDE DEF K, A
  <2>4. Cardinality(A) = Cardinality(K)
    BY <1>2, <2>1, <2>2, CountPlaces
  <2> QED BY <2>3, <2>4 DEF K
<1>6. SavedMem' = Mem(c, data, s)
  <2> DEFINE f(t, p) == Cardinality({k \in DOMAIN saved' : saved'[k].pos = p /\ saved'[k].tok = t})
             m == Mem(c, data, s)
  <2>1. SavedMem' = [t \in Toks |-> [p \in Positions |-> f(t, p)]]
    BY DEF SavedMem
  <2>2. m = [t \in Toks |-> [p \in Positions |-> m[t][p]]]
    BY DEF Mem
  <2>3. \A t \in Toks, p \in Positions : f(t, p) = m[t][p]
    BY <1>5
  <2> HIDE DEF f, m
  <2> QED BY <2>1, <2>2, <2>3 DEF m
<1>7. ([q \in Seqs |-> MemOf(q)])' = [q \in Seqs |-> MemOf(q)]
  BY <1>3
<1> QED BY <1>3, <1>6, <1>7 DEF Memory!Save

\* They can be placed.
LEMMA RestoredIs ==
  ASSUME CacheInv, NEW d \in Seqs
  PROVE  /\ Len(saved) \in Nat /\ DOMAIN saved = 1 .. Len(saved)
         /\ \A k \in 1 .. Len(saved) : saved[k].pos \in Positions
         /\ Restored(d) \in Seq(Token) /\ Len(Restored(d)) = Len(saved)
         /\ \A k \in 1 .. Len(saved) : /\ Restored(d)[k].pos = saved[k].pos
                                       /\ Restored(d)[k].seqs = {d}
<1> DEFINE R == [pos : Positions, tok : Toks, rot : Int]
<1>1. \A x \in R : x.pos \in Positions /\ x.tok \in Toks
  OBVIOUS
<1>2. saved \in Seq(R)
  BY DEF CacheInv, SavedCells
<1> HIDE DEF R
<1>3. Len(saved) \in Nat /\ DOMAIN saved = 1 .. Len(saved)
      /\ \A k \in 1 .. Len(saved) : saved[k].pos \in Positions /\ saved[k].tok \in Toks
  BY <1>1, <1>2
<1>4. {d} \in SeqSet
  BY DEF SeqSet
<1>5. \A k \in 1 .. Len(saved) : /\ Restored(d)[k] \in Token
                                 /\ Restored(d)[k].pos = saved[k].pos /\ Restored(d)[k].seqs = {d}
  BY <1>3, <1>4 DEF Restored, Token
<1>6. Restored(d) = [k \in 1 .. Len(saved) |-> Restored(d)[k]]
  BY <1>3 DEF Restored
<1>7. Restored(d) \in [1 .. Len(saved) -> Token]
  BY <1>5, <1>6
<1>8. Restored(d) \in Seq(Token) /\ Len(Restored(d)) = Len(saved)
  BY <1>3, <1>7
<1> QED BY <1>3, <1>5, <1>8

\* The place of a cell in a slot without repetition.
LEMMA PlaceOf ==
  ASSUME NEW idxs, NEW n, DOMAIN idxs = 1 .. n, \A j, k \in 1 .. n : idxs[j] = idxs[k] => j = k
  PROVE  /\ \A k \in 1 .. n : idxs[k] \in CellsOf(idxs) /\ (CHOOSE j \in DOMAIN idxs : idxs[j] = idxs[k]) = k
         /\ \A i \in CellsOf(idxs) : \E k \in 1 .. n : idxs[k] = i
BY DEF CellsOf

\* A saved state comes back as it was, and the other sequences keep what can be seen of them.
LEMMA LoadMem ==
  ASSUME CacheInv, NEW c, Good(c), NEW d \in Seqs, \A i \in Cells : d \notin c.seq[i],
         NEW idxs \in Idxs, Len(idxs) = Len(saved), NoRepeat(idxs),
         \A i \in CellsOf(idxs) : CanUse(c, i), NEW data \in [Cells -> Datum]
  PROVE  LET new  == Placed(c, idxs, Restored(d))
             fill == Filled(data, idxs)
         IN  /\ Mem(new, fill, d) = SavedMem
             /\ \A r \in Seqs : r # d => Memory!Kept(Mem(c, data, r), Mem(new, fill, r))
<1> DEFINE n == Len(saved)
           toks == Restored(d)
           new == Placed(c, idxs, toks)
           fill == Filled(data, idxs)
           up == UpTo(c, idxs)
<1>1. /\ n \in Nat /\ DOMAIN saved = 1 .. n /\ toks \in Seq(Token) /\ Len(toks) = n
      /\ \A k \in 1 .. n : saved[k].pos \in Positions /\ toks[k].pos = saved[k].pos /\ toks[k].seqs = {d}
  BY RestoredIs
<1>2. DOMAIN idxs = 1 .. n /\ CellsOf(idxs) \subseteq Cells /\ \A j, k \in 1 .. n : idxs[j] = idxs[k] => j = k
  BY DEF Idxs, CellsOf, NoRepeat
<1>3. /\ \A k \in 1 .. n : /\ idxs[k] \in CellsOf(idxs)
                           /\ (CHOOSE j \in DOMAIN idxs : idxs[j] = idxs[k]) = k
      /\ \A i \in CellsOf(idxs) : \E k \in 1 .. n : idxs[k] = i
  <2> HIDE DEF n
  <2> QED BY <1>2, PlaceOf
<1>4. up[d] = -1 /\ \A p \in Positions : p > up[d]
  <2>1. up[d] = -1
    <3>1. up[d] # -1 => \E i \in CellsOf(idxs) : d \in c.seq[i]
      BY <1>2, UpToIs
    <3> QED BY <1>2, <3>1
  <2> QED BY <2>1 DEF Positions
<1>5. \A k \in 1 .. n : /\ AtCell(idxs, toks, idxs[k]) = toks[k]
                        /\ fill[idxs[k]].tok = saved[k].tok
  BY <1>2, <1>3 DEF AtCell, Filled
<1>6. \A i \in Cells : i \notin CellsOf(idxs) => fill[i] = data[i]
  BY DEF Filled
<1>7. ASSUME NEW i \in Cells, NEW s \in Seqs
      PROVE  LET at  == IF i \in CellsOf(idxs) THEN AtCell(idxs, toks, i).pos ELSE c.pos[i]
                 has == IF i \in CellsOf(idxs) THEN s \in AtCell(idxs, toks, i).seqs ELSE s \in c.seq[i]
             IN  /\ s \in new.seq[i] <=> has /\ at > up[s]
                 /\ s \in new.seq[i] => new.pos[i] = at
  <2>1. Len(toks) = Len(idxs)
    BY <1>1
  <2> HIDE DEF toks
  <2> QED BY <1>1, <2>1, PlacedAt
<1> HIDE DEF toks, new, fill, up, n
<1>8. \A i \in CellsOf(idxs) : AtCell(idxs, toks, i).seqs = {d}
  BY <1>1, <1>3, <1>5
<1>9. \A k \in 1 .. n : d \in new.seq[idxs[k]] /\ new.pos[idxs[k]] = saved[k].pos
  BY <1>1, <1>2, <1>3, <1>4, <1>5, <1>7
<1>10. \A i \in Cells : d \in new.seq[i] => \E k \in 1 .. n : idxs[k] = i
  BY <1>3, <1>7
<1>11. ASSUME NEW t \in Toks, NEW p \in Positions
       PROVE  Cardinality({k \in DOMAIN saved : saved[k].pos = p /\ saved[k].tok = t}) = Mem(new, fill, d)[t][p]
  <2> DEFINE K == {k \in DOMAIN saved : saved[k].pos = p /\ saved[k].tok = t}
             A == TokCells(new, fill, d, t, p)
  <2>1. K \in SUBSET (1 .. n)
    BY <1>1
  <2>2. Lists(idxs, K, A)
    <3>1. A = {idxs[k] : k \in K}
      BY <1>1, <1>2, <1>3, <1>5, <1>9, <1>10 DEF TokCells
    <3> QED BY <1>2, <2>1, <3>1 DEF Lists
  <2>3. Mem(new, fill, d)[t][p] = Cardinality(A)
    BY MemType
  <2> HIDE DEF K, A
  <2>4. Cardinality(A) = Cardinality(K)
    BY <1>1, <2>1, <2>2, CountPlaces
  <2> QED BY <2>3, <2>4 DEF K
<1>12. Mem(new, fill, d) = SavedMem
  <2> DEFINE f(t, p) == Cardinality({k \in DOMAIN saved : saved[k].pos = p /\ saved[k].tok = t})
             m == Mem(new, fill, d)
  <2>1. SavedMem = [t \in Toks |-> [p \in Positions |-> f(t, p)]]
    BY DEF SavedMem
  <2>2. m = [t \in Toks |-> [p \in Positions |-> m[t][p]]]
    BY DEF Mem
  <2>3. \A t \in Toks, p \in Positions : f(t, p) = m[t][p]
    BY <1>11
  <2> HIDE DEF f, m
  <2> QED BY <2>1, <2>2, <2>3 DEF m
<1>13. ASSUME NEW r \in Seqs, r # d PROVE Memory!Kept(Mem(c, data, r), Mem(new, fill, r))
  <2>1. c \in GoodCells
    BY GoodIs
  <2>2. /\ \A i \in CellsOf(idxs) : r \in c.seq[i] => ~InView(c, r, c.pos[i])
        /\ \A p \in Positions : InView(c, r, p) => p > up[r]
    BY LostIsMasked DEF up
  <2>3. \A i \in Cells : r \in c.seq[i] => c.pos[i] \in Positions
    BY CellHas
  <2>4. KeptTokens(c, data, r, new, fill)
    BY <1>6, <1>7, <1>8, <1>13, <2>2, <2>3 DEF KeptTokens
  <2> QED BY <2>1, <2>4, MemKept
<1> QED BY <1>12, <1>13 DEF new, fill, toks

\* A sequence that stays as it is keeps all.
LEMMA KeptSame ==
  ASSUME CacheInv, NEW s \in Seqs
  PROVE  /\ Memory!Kept(MemOf(s), MemOf(s)) /\ \A t : Memory!Grown(MemOf(s), MemOf(s), t)
<1> DEFINE c == v_cells[Stream(s)]
           data == Data[Stream(s)]
<1>1. c \in GoodCells /\ data \in [Cells -> Datum]
  BY StreamIs, InStream
<1>2. MemOf(s) = Mem(c, data, s)
  BY MemOfIs
<1> HIDE DEF c, data
<1>3. KeptTokens(c, data, s, c, data)
  BY DEF KeptTokens
<1> QED BY <1>1, <1>2, <1>3, MemKept

\* The data after a load are what the store then has.
LEMMA LoadedData ==
  ASSUME CacheInv', sc_info' = <<>>
  PROVE  Data' = store'
<1> DEFINE X == [Cells -> Datum]
           q == sc_info'
<1>1. store' \in [Streams -> X] /\ q \in Seq(Streams \X Streams) /\ Len(q) = 0
  BY DEF CacheInv, Stores
<1>2. Data' = CopiedBy(store', q)
  BY DEF Data, CopiedBy
<1> HIDE DEF X, q
<1> QED BY <1>1, <1>2, CopiedNone

\* Loading a state replaces the sequence by what was saved or, without room for it, leaves
\* the sequence empty.
LEMMA PromiseLoad ==
  ASSUME CacheInv, Saves => ~EarlySaves, NEW d \in Seqs, LoadSeq(d)
  PROVE  /\ UNCHANGED saved
         /\ IF ret' = 0 THEN Memory!Load(d) ELSE Memory!LoadFails(d)
<1> DEFINE st == Stream(d)
           x == v_cells[st]
           c == RmSeq(x, d)
           head == HeadAfter(v_heads[st], x, c)
           idxs == FindCells(c, head, Len(saved))
           new == IF idxs = <<>> THEN c ELSE Placed(c, idxs, Restored(d))
           fill == Filled(store[st], idxs)
<1>1. /\ MaySave /\ saved # <<>> /\ v_cells' = [v_cells EXCEPT ![st] = new]
      /\ store' = [store EXCEPT ![st] = fill]
      /\ ret' = IF idxs = <<>> THEN LoadFailed ELSE 0
      /\ UNCHANGED <<sc_info, todo, saved>>
  BY DEF LoadSeq, LoadOver, Restored
<1>2. /\ Data = store /\ Data' = store' /\ st \in Streams /\ store \in [Streams -> [Cells -> Datum]]
  <2>1. CacheInv' /\ sc_info = <<>> /\ Data = store
    BY <1>1, LoadSeqIs, SettledData
  <2>2. Data' = store'
    BY <1>1, <2>1, LoadedData
  <2> QED BY <2>1, <2>2, StreamIs DEF CacheInv, Stores
<1>3. x \in GoodCells /\ Good(x) /\ store[st] \in [Cells -> Datum]
  BY <1>2, InStream
<1>4. \A q \in Streams : /\ v_cells'[q] = IF q = st THEN new ELSE v_cells[q]
                         /\ store'[q] = IF q = st THEN fill ELSE store[q]
  <2>1. \A q \in Streams : v_cells'[q] = IF q = st THEN new ELSE v_cells[q]
    <3> HIDE DEF new
    <3> QED BY <1>1, <1>2, OneStreamSet
  <2> QED BY <1>1, <1>2, <2>1
<1>5. Good(c)
  <2>1. 0 \in Int /\ Inf \in Int
    BY CellsAssumption DEF Inf
  <2> HIDE DEF x
  <2> QED BY <1>3, <2>1, SeqRmGood DEF RmSeq
<1>6. Within(x, d, Positions, 0, Inf)
  <2>1. \A i \in Cells : d \in x.seq[i] => x.pos[i] \in Positions
    BY <1>2, InStream
  <2> QED BY <2>1, CellsAssumption DEF Within, Positions, Inf
<1>7. \A data, r : r \in Seqs =>
        /\ r # d => Mem(c, data, r) = Mem(x, data, r)
        /\ r = d => Mem(c, data, r) = Memory!At(Mem(x, data, r), Memory!Positions \ Positions)
  <2> HIDE DEF x
  <2> QED BY <1>3, <1>6, SeqRmMem DEF RmSeq
<1>8. \A i \in Cells : d \notin c.seq[i]
  <2>1. \A i \in Cells : c.seq[i] = IF i \in SeqHits(x, d, 0, Inf) THEN x.seq[i] \ {d} ELSE x.seq[i]
    <3>1. x \in CellsType
      BY <1>3 DEF Good
    <3> HIDE DEF x
    <3> QED BY <3>1, SeqRmFields DEF RmSeq
  <2>2. \A i \in Cells : d \in x.seq[i] => i \in SeqHits(x, d, 0, Inf)
    <3>1. \A i \in Cells : d \in x.seq[i] => x.pos[i] \in Positions
      BY <1>2, InStream
    <3> QED BY <1>6, <3>1 DEF Within, SeqHits, PosIn
  <2> QED BY <2>1, <2>2
<1>9. head \in 0 .. NCells
  <2>1. v_heads[st] \in 0 .. NCells
    BY <1>2 DEF CacheInv, Heads
  <2> QED BY <2>1, HeadAfterIs
<1>10. Len(saved) \in Nat \ {0}
  <2>1. Len(saved) \in Nat /\ DOMAIN saved = 1 .. Len(saved) /\ saved \in SavedCells
    BY RestoredIs DEF CacheInv
  <2> QED BY <1>1, <2>1 DEF SavedCells
<1>11. /\ idxs \in Idxs
       /\ idxs # <<>> => Len(idxs) = Len(saved) /\ NoRepeat(idxs) /\ \A i \in CellsOf(idxs) : CanUse(c, i)
  <2> HIDE DEF c, head
  <2>1. /\ idxs \in Idxs
        /\ idxs # <<>> => /\ Len(idxs) = Len(saved)
                          /\ \A k \in 1 .. Len(saved) : CanUse(c, idxs[k])
                          /\ \A j, k \in 1 .. Len(saved) : idxs[j] = idxs[k] => j = k
    BY <1>9, <1>10, FindCellsIs
  <2> HIDE DEF idxs
  <2>2. idxs # <<>> => NoRepeat(idxs)
    BY <2>1 DEF NoRepeat
  <2>3. idxs # <<>> => \A i \in CellsOf(idxs) : CanUse(c, i)
    BY <2>1 DEF CellsOf, Idxs
  <2> QED BY <2>1, <2>2, <2>3
<1> HIDE DEF c, idxs
<1>12. \A s \in Seqs :
         /\ Stream(s) \in Streams
         /\ MemOf(s) = Mem(v_cells[Stream(s)], store[Stream(s)], s)
         /\ MemOf(s)' = IF Stream(s) = st THEN Mem(new, fill, s) ELSE MemOf(s)
  <2>1. \A s \in Seqs : /\ Stream(s) \in Streams
                        /\ MemOf(s) = Mem(v_cells[Stream(s)], store[Stream(s)], s)
                        /\ MemOf(s)' = Mem(v_cells'[Stream(s)], store'[Stream(s)], s)
    BY <1>2, MemOfIs, StreamIs
  <2> HIDE DEF new, fill, st
  <2> QED BY <1>4, <2>1
<1>13. CASE idxs = <<>>
  <2>1. new = c /\ fill = store[st] /\ ret' # 0
    <3>1. CellsOf(idxs) = {}
      BY <1>13 DEF CellsOf
    <3>2. fill = [i \in Cells |-> store[st][i]]
      BY <3>1 DEF Filled
    <3> QED BY <1>1, <1>3, <1>13, <3>2 DEF LoadFailed
  <2>2. ASSUME NEW q \in Seqs
        PROVE  MemOf(q)' = IF q \in {d} THEN Memory!At(MemOf(q), Memory!Positions \ Memory!Positions) ELSE MemOf(q)
    <3>1. CASE Stream(q) # st
      BY <1>12, <3>1
    <3>2. CASE Stream(q) = st
      BY <1>7, <1>12, <2>1, <3>2, SamePositions
    <3> QED BY <3>1, <3>2
  <2>3. Memory!LoadFails(d) <=>
        ([q \in Seqs |-> MemOf(q)])' =
          [q \in Seqs |-> IF q \in {d} THEN Memory!At([y \in Seqs |-> MemOf(y)][q], Memory!Positions \ Memory!Positions)
                          ELSE [y \in Seqs |-> MemOf(y)][q]]
    BY DEF Memory!LoadFails, Memory!Remove
  <2> QED BY <1>1, <2>1, <2>2, <2>3
<1>14. CASE idxs # <<>>
  <2>1. new = Placed(c, idxs, Restored(d)) /\ ret' = 0
    BY <1>1, <1>14
  <2>2. /\ Mem(new, fill, d) = SavedMem
        /\ \A r \in Seqs : r # d => Memory!Kept(Mem(c, store[st], r), Mem(new, fill, r))
    BY <1>3, <1>5, <1>8, <1>11, <1>14, <2>1, LoadMem
  <2>3. MemOf(d)' = SavedMem
    BY <1>12, <2>2
  <2>4. ASSUME NEW q \in Seqs \ {d} PROVE Memory!Kept(MemOf(q), MemOf(q)')
    <3>1. CASE Stream(q) # st
      BY <1>12, <3>1, KeptSame
    <3>2. CASE Stream(q) = st
      <4>1. MemOf(q) = Mem(c, store[st], q)
        BY <1>7, <1>12, <3>2
      <4> QED BY <1>12, <2>2, <3>2, <4>1
    <3> QED BY <3>1, <3>2
  <2>5. Memory!Load(d)
    <3>1. SavedMem' = SavedMem
      BY <1>1 DEF SavedMem
    <3> QED BY <2>3, <2>4, <3>1 DEF Memory!Load
  <2> QED BY <1>1, <2>1, <2>5
<1> QED BY <1>13, <1>14

\* The tokens of a sequence get the positions after its last one, in the order of the batch.
LEMMA PlacePos ==
  ASSUME NEW cs, NEW b \in Batches, ValidBatch(cs, b), NEW s \in Seqs,
         NEW k \in Places(b), s \in b[k]
  PROVE  /\ PosAt(cs, b, k, SeqAt(b, k)) = PosAt(cs, b, k, s)
         /\ PosAt(cs, b, k, s) = SeqPosMax(cs[Stream(s)], s) + 1 + Before(b, k, s)
         /\ SeqPosMax(cs[Stream(s)], s) \in Int /\ Before(b, k, s) \in 0 .. NBatch - 1
<1>1. Len(b) \in Nat \ {0} /\ DOMAIN b = 1 .. Len(b) /\ SeqAt(b, k) \in b[k] /\ k \in DOMAIN b
  BY BatchIs DEF Places
<1>2. PosAt(cs, b, k, SeqAt(b, k)) = PosAt(cs, b, k, s)
  BY <1>1 DEF ValidBatch
<1>3. Len(b) <= NBatch
  <2>1. PICK n \in 1 .. NBatch : b \in [1 .. n -> SeqSets]
    BY DEF Batches
  <2>2. Len(b) = n
    BY <2>1, CacheAssumption
  <2> QED BY <2>1, <2>2, CacheAssumption
<1>4. Before(b, k, s) \in 0 .. k - 1
  <2> DEFINE S == {j \in 1 .. k - 1 : s \in b[j]}
  <2>1. k \in Nat /\ k - 1 \in Nat
    BY <1>1
  <2>2. IsFiniteSet(1 .. k - 1) /\ Cardinality(1 .. k - 1) = k - 1
    BY <2>1, FS_Interval
  <2>3. S \in SUBSET (1 .. k - 1) /\ Before(b, k, s) = Cardinality(S)
    BY DEF Before
  <2> HIDE DEF S
  <2>4. IsFiniteSet(S) /\ Cardinality(S) <= k - 1
    <3>1. IsFiniteSet(S) /\ Cardinality(S) <= Cardinality(1 .. k - 1)
      BY <2>2, <2>3, FS_Subset
    <3> QED BY <2>2, <3>1
  <2>5. Cardinality(S) \in Nat
    BY <2>4, FS_CardinalityType
  <2> QED BY <2>1, <2>3, <2>4, <2>5
<1>5. SeqPosMax(cs[Stream(s)], s) \in Int
  BY SeqPosMaxIs DEF Positions
<1>6. Before(b, k, s) \in 0 .. NBatch - 1
  BY <1>1, <1>3, <1>4, CacheAssumption DEF Places
<1> QED BY <1>2, <1>5, <1>6 DEF PosAt

\* So two tokens of a sequence have two positions.
LEMMA PlacesApart ==
  ASSUME NEW cs, NEW b \in Batches, ValidBatch(cs, b), NEW s \in Seqs,
         NEW j \in Places(b), NEW k \in Places(b), s \in b[j], s \in b[k],
         PosAt(cs, b, j, s) = PosAt(cs, b, k, s)
  PROVE  j = k
<1>1. Before(b, j, s) = Before(b, k, s) /\ Before(b, j, s) \in Int
  BY PlacePos
<1>2. j \in Int /\ k \in Int
  BY BatchIs DEF Places
<1>3. ~(j < k)
  <2>1. j < k => Before(b, j, s) < Before(b, k, s)
    BY BeforeIs
  <2> QED BY <1>1, <2>1
<1>4. ~(k < j)
  <2>1. k < j => Before(b, k, s) < Before(b, j, s)
    BY BeforeIs
  <2> QED BY <1>1, <2>1
<1> QED BY <1>2, <1>3, <1>4

\* The ubatches of a decode are plain.
LEMMA PlainUbatches ==
  ASSUME NEW cs, NEW b \in Batches, ValidBatch(cs, b), NEW t \in Toks,
         NEW l \in 1 .. Len(Split(b))
  PROVE  Plain(Ubatches(cs, b, t)[l])
<1> DEFINE split == Split(b)
           p == split[l]
           us == Ubatches(cs, b, t)
           u == us[l]
<1>1. us = [j \in DOMAIN split |->
              [st \in DOMAIN split[j] |->
                 [k \in DOMAIN split[j][st] |-> TokenOf(cs, b, t, split[j][st][k])]]]
  BY DEF Ubatches, Split, TokenOf
<1>2. split \in Seq(Parts(b))
  BY SplitIs
<1> HIDE DEF split, us
<1>3. l \in DOMAIN split /\ p \in Parts(b)
  <2>1. l \in 1 .. Len(split)
    BY DEF split
  <2> DEFINE T == Parts(b)
  <2>2. split \in Seq(T)
    BY <1>2
  <2> HIDE DEF T
  <2>3. l \in DOMAIN split /\ split[l] \in T
    BY <2>1, <2>2
  <2> QED BY <2>3 DEF T
<1>4. u = [st \in DOMAIN p |-> [k \in DOMAIN p[st] |-> TokenOf(cs, b, t, p[st][k])]]
  BY <1>1, <1>3
<1> HIDE DEF p
<1>5. ASSUME NEW st \in DOMAIN p
      PROVE  /\ p[st] \in Seq(Places(b)) /\ NoRepeat(p[st])
             /\ Len(p[st]) \in Nat /\ DOMAIN p[st] = 1 .. Len(p[st])
             /\ \A k \in 1 .. Len(p[st]) : p[st][k] \in Places(b)
  <2>1. PICK D \in SUBSET Streams : p \in [D -> NonEmpty(Places(b))]
    BY <1>3 DEF Parts
  <2>2. p[st] \in Seq(Places(b))
    BY <2>1 DEF NonEmpty
  <2>3. NoRepeat(p[st])
    BY <1>3 DEF Parts
  <2> DEFINE q == p[st]
             T == Places(b)
  <2>4. q \in Seq(T)
    BY <2>2
  <2> HIDE DEF q, T
  <2>5. Len(q) \in Nat /\ DOMAIN q = 1 .. Len(q) /\ \A k \in 1 .. Len(q) : q[k] \in T
    BY <2>4
  <2> QED BY <2>2, <2>3, <2>5 DEF q, T
<1>6. /\ DOMAIN u = DOMAIN p
      /\ \A st \in DOMAIN p : /\ Len(u[st]) = Len(p[st])
                              /\ \A k \in 1 .. Len(p[st]) : u[st][k] = TokenOf(cs, b, t, p[st][k])
  <2>1. DOMAIN u = DOMAIN p
    BY <1>4
  <2>2. ASSUME NEW st \in DOMAIN p
        PROVE  u[st] = [k \in 1 .. Len(p[st]) |-> TokenOf(cs, b, t, p[st][k])] /\ Len(p[st]) \in Nat
    BY <1>4, <1>5, <2>2
  <2>3. ASSUME NEW st \in DOMAIN p
        PROVE  Len(u[st]) = Len(p[st]) /\ \A k \in 1 .. Len(p[st]) : u[st][k] = TokenOf(cs, b, t, p[st][k])
    <3> DEFINE n == Len(p[st])
               w == u[st]
    <3>1. w = [k \in 1 .. n |-> TokenOf(cs, b, t, p[st][k])] /\ n \in Nat
      BY <2>2
    <3> HIDE DEF n, w
    <3>2. Len(w) = n /\ \A k \in 1 .. n : w[k] = TokenOf(cs, b, t, p[st][k])
      BY <3>1
    <3> QED BY <3>2 DEF n, w
  <2> QED BY <2>1, <2>3
<1>7. \E a \in Toks : \A x \in TokensOf(u) : x.tok = a
  <2>1. \A x \in TokensOf(u) : \E k \in Indices(Split(b)[l]) : x = TokenOf(cs, b, t, k)
    <3>1. \A x \in TokensOf(Ubatches(cs, b, t)[l]) : \E k \in Indices(Split(b)[l]) : x = TokenOf(cs, b, t, k)
      <4>1. \A j \in 1 .. Len(Split(b)) :
              /\ Indices(Split(b)[j]) \subseteq Places(b)
              /\ \A x \in TokensOf(Ubatches(cs, b, t)[j]) :
                   \E k \in Indices(Split(b)[j]) : x = TokenOf(cs, b, t, k)
              /\ \A k \in Indices(Split(b)[j]) :
                   TokenOf(cs, b, t, k) \in TokensOf(Ubatches(cs, b, t)[j])
        BY UbatchTokens
      <4> QED BY <4>1
    <3> QED BY <3>1 DEF us
  <2>2. \A k : TokenOf(cs, b, t, k).tok = t
    BY DEF TokenOf
  <2> HIDE DEF u
  <2> QED BY <2>1, <2>2
<1>8. ASSUME NEW st \in DOMAIN u, NEW j \in 1 .. Len(u[st]), NEW k \in 1 .. Len(u[st]), NEW s \in Seqs,
             s \in u[st][j].seqs, s \in u[st][k].seqs, u[st][j].pos = u[st][k].pos
      PROVE  j = k
  <2> DEFINE x == p[st][j]
             y == p[st][k]
  <2>1. /\ st \in DOMAIN p /\ j \in 1 .. Len(p[st]) /\ k \in 1 .. Len(p[st])
        /\ u[st][j] = TokenOf(cs, b, t, x) /\ u[st][k] = TokenOf(cs, b, t, y)
    BY <1>6, <1>8
  <2>2. x \in Places(b) /\ y \in Places(b) /\ (x = y => j = k)
    BY <1>5, <2>1 DEF NoRepeat
  <2> HIDE DEF x, y
  <2>3. s \in b[x] /\ s \in b[y] /\ PosAt(cs, b, x, SeqAt(b, x)) = PosAt(cs, b, y, SeqAt(b, y))
    BY <1>8, <2>1 DEF TokenOf
  <2>4. PosAt(cs, b, x, s) = PosAt(cs, b, y, s)
    BY <2>2, <2>3, PlacePos
  <2> QED BY <2>2, <2>3, <2>4, PlacesApart
<1>9. ASSUME NEW s \in Seqs, NEW m \in Positions, NEW n \in Positions, Brings(u, s, m), Brings(u, s, n)
      PROVE  m - n < NBatch
  <2>1. ASSUME NEW r, Brings(u, s, r)
        PROVE  \E k \in 0 .. NBatch - 1 : r = SeqPosMax(cs[Stream(s)], s) + 1 + k
    <3>1. PICK k \in Places(b) : s \in b[k] /\ PosAt(cs, b, k, s) = r
      BY <2>1, BringsIs DEF us
    <3> QED BY <3>1, PlacePos
  <2>2. PICK j \in 0 .. NBatch - 1 : m = SeqPosMax(cs[Stream(s)], s) + 1 + j
    BY <1>9, <2>1
  <2>3. PICK k \in 0 .. NBatch - 1 : n = SeqPosMax(cs[Stream(s)], s) + 1 + k
    BY <1>9, <2>1
  <2>4. SeqPosMax(cs[Stream(s)], s) \in Int
    BY SeqPosMaxIs DEF Positions
  <2> QED BY <2>2, <2>3, <2>4, CacheAssumption
<1> HIDE DEF u
<1>10. Plain(u)
  BY <1>7, <1>8, <1>9 DEF Plain
<1> QED BY <1>10 DEF u, us

\* A trial leaves no position that was not there.
LEMMA TrialHolds ==
  ASSUME NEW cs \in CacheCells, NEW u \in UbatchSet, NEW slot \in SlotFor(u),
         NEW a, Trialled(a, cs, slot, u), NEW st \in Streams, NEW i \in Cells, NEW s \in Seqs,
         s \in a[st].seq[i]
  PROVE  s \in cs[st].seq[i] /\ a[st].pos[i] = cs[st].pos[i]
<1> DEFINE new == ApplyCells(cs, slot, u)
<1>1. LET from == IF InSlot(slot, st, i) THEN cs ELSE new
      IN  a[st].pos[i] = from[st].pos[i] /\ a[st].seq[i] = from[st].seq[i]
  BY DEF Trialled
<1>2. ~InSlot(slot, st, i) =>
        /\ s \in new[st].seq[i] => s \in cs[st].seq[i]
        /\ s \in new[st].seq[i] => new[st].pos[i] = cs[st].pos[i]
  BY CellApplied
<1> HIDE DEF new
<1> QED BY <1>1, <1>2

\* A trial leaves every sequence its last position.
LEMMA TrialLast ==
  ASSUME NEW cs \in CacheCells, NEW u \in UbatchSet, NEW slot \in SlotFor(u),
         NEW a \in CacheCells, Trialled(a, cs, slot, u), NEW s \in Seqs
  PROVE  SeqPosMax(a[Stream(s)], s) = SeqPosMax(cs[Stream(s)], s)
<1> DEFINE m == SeqPosMax(cs[Stream(s)], s)
           n == SeqPosMax(a[Stream(s)], s)
<1>1. /\ m \in Positions \cup {-1} /\ (m # -1 => Holds(cs, s, m))
      /\ \A q \in Positions : Holds(cs, s, q) => q <= m
  BY LastPosition
<1>2. /\ n \in Positions \cup {-1} /\ (n # -1 => Holds(a, s, n))
      /\ \A q \in Positions : Holds(a, s, q) => q <= n
  BY LastPosition
<1>3. \A q : Holds(a, s, q) => Holds(cs, s, q)
  BY TrialHolds, StreamIs DEF Holds
<1> HIDE DEF m, n
<1>4. m \in Int /\ n \in Int /\ m >= -1 /\ n >= -1
  BY <1>1, <1>2 DEF Positions
<1>5. n <= m
  BY <1>1, <1>2, <1>3, <1>4
<1>6. m <= n
  <2>1. CASE m = -1
    BY <1>4, <2>1
  <2>2. CASE m # -1
    <3>1. Holds(cs, s, m) /\ m \in Positions /\ m + 1 \in Nat \ {0} /\ (m + 1) - 1 = m
      BY <1>1, <2>2 DEF Positions
    <3>2. \A q \in Positions : Holds(cs, s, q) => q < m + 1
      BY <1>1, <1>4 DEF Positions
    <3>3. Holds(cs, s, (m + 1) - 1)
      BY <3>1
    <3>4. Holds(a, s, (m + 1) - 1)
      BY <3>1, <3>2, <3>3, TrialKeepsLast
    <3>5. Holds(a, s, m)
      BY <3>1, <3>4
    <3> QED BY <1>2, <3>1, <3>5
  <2> QED BY <2>1, <2>2
<1>7. m = n
  BY <1>4, <1>5, <1>6
<1> QED BY <1>7 DEF m, n

\* So the slot of a trial stays usable.
LEMMA TrialUsable ==
  ASSUME NEW cs \in CacheCells, NEW u \in UbatchSet, NEW slot \in SlotFor(u), AllUsable(cs, slot),
         NEW a \in CacheCells, Trialled(a, cs, slot, u)
  PROVE  AllUsable(a, slot)
<1> SUFFICES ASSUME NEW st \in DOMAIN slot, NEW i \in CellsOf(slot[st]) PROVE CanUse(a[st], i)
  BY DEF AllUsable
<1>1. st \in Streams /\ i \in Cells /\ InSlot(slot, st, i)
  BY SlotForIs DEF InSlot
<1>2. a[st].pos[i] = cs[st].pos[i] /\ a[st].seq[i] = cs[st].seq[i]
  BY <1>1 DEF Trialled
<1>3. CanUse(cs[st], i)
  BY DEF AllUsable
<1>4. CASE IsEmpty(cs[st], i)
  BY <1>2, <1>4 DEF CanUse, IsEmpty
<1>5. ASSUME NEW s \in Seqs, cs[st].seq[i] = {s}, MaskedSwa(cs[st].pos[i], SeqPosMax(cs[st], s) + 1)
      PROVE  CanUse(a[st], i)
  <2>1. Stream(s) = st
    BY <1>1, <1>5, CacheCellsIs
  <2>2. SeqPosMax(a[st], s) = SeqPosMax(cs[st], s)
    BY <2>1, TrialLast
  <2> QED BY <1>2, <1>5, <2>2 DEF CanUse
<1> QED BY <1>3, <1>4, <1>5 DEF CanUse

\* A decode leaves plain ubatches.
LEMMA PlainDecode ==
  ASSUME CacheInv, NEW b \in Batches, NEW t \in Toks, NEW shifted \in BOOLEAN, Decode(b, t, shifted)
  PROVE  PlainJobs'
<1> DEFINE cs == UpdatedCells(shifted)
           us == Ubatches(cs, b, t)
           tried == Tried(cs, v_heads, us)
           slots == Reverse(tried.stack)
           job(j) == [slot |-> slots[j].slot, ubatch |-> us[j]]
<1>1. /\ ValidBatch(cs, b)
      /\ todo' = IF tried.ok THEN [j \in DOMAIN us |-> job(j)] ELSE <<>>
  BY DEF Decode
<1>2. us \in Seq(UbatchSet) /\ Len(us) = Len(Split(b))
  BY <1>1, UbatchesAre, UbatchTokens
<1>3. \A l \in 1 .. Len(us) : Plain(us[l])
  BY <1>1, <1>2, PlainUbatches
<1> HIDE DEF us, tried, slots
<1>4. DOMAIN us = 1 .. Len(us) /\ Len(us) \in Nat
  BY <1>2
<1>5. CASE tried.ok
  <2>1. todo' = [j \in 1 .. Len(us) |-> job(j)]
    BY <1>1, <1>4, <1>5
  <2>2. \A j : job(j).ubatch = us[j]
    OBVIOUS
  <2> HIDE DEF job
  <2>3. Len(todo') = Len(us) /\ \A j \in 1 .. Len(us) : todo'[j] = job(j)
    BY <1>4, <2>1
  <2> QED BY <1>3, <2>2, <2>3 DEF PlainJobs
<1>6. CASE ~tried.ok
  BY <1>1, <1>6 DEF PlainJobs
<1> QED BY <1>5, <1>6

\* They stay so.
LEMMA PlainStep ==
  ASSUME CacheInv, PlainJobs, [Next]_vars
  PROVE  PlainJobs'
<1>1. CASE UNCHANGED vars
  BY <1>1 DEF PlainJobs, vars
<1>2. ASSUME NEW b \in Batches, NEW t \in Toks, NEW shifted \in BOOLEAN, Decode(b, t, shifted)
      PROVE  PlainJobs'
  BY <1>2, PlainDecode
<1>3. CASE ProcessUbatch
  <2> DEFINE q == todo
  <2>1. q \in Seq(Job) /\ q # <<>> /\ todo' = Tail(q)
    BY <1>3 DEF CacheInv, ProcessUbatch
  <2>2. \A k \in 1 .. Len(q) : Plain(q[k].ubatch)
    BY DEF PlainJobs
  <2> HIDE DEF q
  <2>3. \A k \in 1 .. Len(Tail(q)) : k + 1 \in 1 .. Len(q) /\ Tail(q)[k] = q[k + 1]
    <3> DEFINE T == Job
    <3>1. q \in Seq(T)
      BY <2>1
    <3> HIDE DEF T
    <3> QED BY <2>1, <3>1
  <2>4. \A k \in 1 .. Len(Tail(q)) : Plain(Tail(q)[k].ubatch)
    BY <2>2, <2>3
  <2> QED BY <2>1, <2>4 DEF PlainJobs
<1>4. CASE AbortUbatch
  <2>1. todo' = <<>>
    BY <1>4 DEF AbortUbatch
  <2> QED BY <2>1 DEF PlainJobs
<1>5. CASE /\ Next /\ ~ProcessUbatch /\ ~AbortUbatch
           /\ ~\E b \in Batches, t \in Toks, shifted \in BOOLEAN : Decode(b, t, shifted)
  <2>1. todo' = <<>>
    BY <1>5, OtherCalls
  <2> QED BY <2>1 DEF PlainJobs
<1> QED BY <1>1, <1>2, <1>3, <1>4, <1>5

\* The ubatch of a decode that has a window finds its slot as it was when it was tried.
LEMMA WindowStep ==
  ASSUME WindowAssumption, CacheInv, Queued, WindowSlot, [Next]_vars
  PROVE  WindowSlot'
<1> SUFFICES ASSUME NSwa # 0, todo' # <<>> PROVE AllUsable(v_cells', Head(todo').slot)
  BY DEF WindowSlot
<1>1. CASE UNCHANGED vars
  BY <1>1 DEF WindowSlot, vars
<1>2. ASSUME NEW b \in Batches, NEW t \in Toks, NEW shifted \in BOOLEAN, Decode(b, t, shifted)
      PROVE  AllUsable(v_cells', Head(todo').slot)
  <2> DEFINE cs == UpdatedCells(shifted)
             u == Ubatches(cs, b, t)[1]
  <2>1. PICK slot \in SlotFor(u) : /\ u \in UbatchSet /\ AllUsable(cs, slot) /\ Trialled(v_cells', cs, slot, u)
                                   /\ todo' = <<[slot |-> slot, ubatch |-> u]>>
    BY <1>2, WindowTrial
  <2>2. cs \in CacheCells /\ v_cells' \in CacheCells
    BY <1>2, UpdatedIs, DecodeIs DEF CacheInv
  <2> HIDE DEF cs, u
  <2>3. Head(todo').slot = slot
    BY <2>1
  <2> QED BY <2>1, <2>2, <2>3, TrialUsable
<1>3. CASE ProcessUbatch
  <2> DEFINE q == todo
             T == Job
  <2>1. q \in Seq(T) /\ q # <<>> /\ todo' = Tail(q) /\ Len(q) <= 1
    BY <1>3 DEF CacheInv, ProcessUbatch, Queued
  <2> HIDE DEF q, T
  <2>2. Len(q) \in Nat /\ Tail(q) \in Seq(T) /\ Len(Tail(q)) = Len(q) - 1
    BY <2>1
  <2>3. Tail(q) = <<>>
    BY <2>1, <2>2
  <2> QED BY <2>1, <2>3
<1>4. CASE AbortUbatch
  BY <1>4 DEF AbortUbatch
<1>5. CASE /\ Next /\ ~ProcessUbatch /\ ~AbortUbatch
           /\ ~\E b \in Batches, t \in Toks, shifted \in BOOLEAN : Decode(b, t, shifted)
  BY <1>5, OtherCalls
<1> QED BY <1>1, <1>2, <1>3, <1>4, <1>5

\* The next ubatch has a slot of usable cells.
LEMMA NextUsable ==
  ASSUME CacheInv, NSwa = 0 => SlotsFree, WindowSlot, todo # <<>>
  PROVE  AllUsable(v_cells, Head(todo).slot)
BY NextSlot DEF WindowSlot

\* What is in view is not in a slot of usable cells, nor purged when a ubatch is placed there.
LEMMA UsableView ==
  ASSUME NEW cs \in CacheCells, NEW u \in UbatchSet, NEW slot \in SlotFor(u), AllUsable(cs, slot),
         NEW s \in Seqs
  PROVE  /\ \A p \in Positions : InView(cs[Stream(s)], s, p) => Spared(cs, slot, u, s, p)
         /\ \A i \in Cells : s \in cs[Stream(s)].seq[i] /\ InView(cs[Stream(s)], s, cs[Stream(s)].pos[i]) =>
              ~InSlot(slot, Stream(s), i)
<1> DEFINE st == Stream(s)
<1>1. /\ st \in Streams /\ DOMAIN slot = DOMAIN u /\ Good(cs[st])
      /\ st \in DOMAIN slot => slot[st] \in Idxs
      /\ st \in DOMAIN slot => \A i \in CellsOf(slot[st]) : CanUse(cs[st], i)
  BY StreamIs, SlotForIs, CacheCellsIs DEF AllUsable
<1> HIDE DEF st
<1>2. st \in DOMAIN slot =>
        /\ \A i \in CellsOf(slot[st]) : s \in cs[st].seq[i] => ~InView(cs[st], s, cs[st].pos[i])
        /\ \A p \in Positions : InView(cs[st], s, p) => p > UpTo(cs[st], slot[st])[s]
  BY <1>1, LostIsMasked
<1> QED BY <1>1, <1>2 DEF Spared, InSlot, st

\* The last position is told by the cells.
LEMMA SameLast ==
  ASSUME NEW a \in CacheCells, NEW c \in CacheCells, SameCells(a, c), NEW s \in Seqs
  PROVE  SeqPosMax(a[Stream(s)], s) = SeqPosMax(c[Stream(s)], s)
<1>1. \A p : Holds(a, s, p) <=> Holds(c, s, p)
  BY StreamIs DEF Holds, SameCells
<1>2. \A p \in Positions : p \in Keys(a[Stream(s)], s) <=> p \in Keys(c[Stream(s)], s)
  BY <1>1, KeysAre
<1>3. Keys(a[Stream(s)], s) = Keys(c[Stream(s)], s)
  BY <1>2 DEF Keys
<1> QED BY <1>3 DEF SeqPosMax

\* A decode, before its ubatches, takes nothing from a sequence that could still be seen.
LEMMA DecodeKeeps ==
  ASSUME WindowAssumption, CacheInv, NEW b \in Batches, NEW t \in Toks, NEW shifted \in BOOLEAN,
         Decode(b, t, shifted), NEW s \in Seqs
  PROVE  \A k : Memory!Grown(MemOf(s), MemOf(s)', k)
<1> DEFINE st == Stream(s)
           c == v_cells[st]
           data == Data[st]
           d == v_cells'[st]
           cs == UpdatedCells(shifted)
           us == Ubatches(cs, b, t)
<1>1. /\ CacheInv' /\ sc_info' = <<>> /\ store' = UpdatedStore(shifted) /\ v_cells' \in CacheCells
      /\ NSwa = 0 => SameCells(v_cells', cs)
  BY DecodeIs DEF CacheInv
<1>2. /\ st \in Streams /\ Good(c) /\ c \in GoodCells /\ data \in [Cells -> Datum] /\ v_cells \in CacheCells
      /\ \A i \in Cells : s \in c.seq[i] => c.pos[i] # -1 /\ c.pos[i] \in Positions
  <2>1. st \in Streams
    BY StreamIs
  <2> HIDE DEF st
  <2>2. /\ Good(c) /\ c \in GoodCells /\ data \in [Cells -> Datum]
        /\ \A i \in Cells : s \in c.seq[i] => c.pos[i] \in Positions /\ c.pos[i] \in Nat
    BY <2>1, InStream
  <2> QED BY <2>1, <2>2 DEF CacheInv
<1>3. Data' = store' /\ MemOf(s) = Mem(c, data, s) /\ MemOf(s)' = Mem(d, Data'[st], s)
  BY <1>1, LoadedData, MemOfIs
<1>4. /\ cs \in CacheCells
      /\ \A q \in Streams, i \in Cells :
           /\ cs[q].pos[i] = v_cells[q].pos[i] /\ cs[q].seq[i] = v_cells[q].seq[i]
           /\ v_cells[q].pos[i] # -1 => store'[q][i].tok = Data[q][i].tok
  <2>1. CopiedStore(store) = Data
    BY CopiedStoreIs DEF Data
  <2> HIDE DEF cs
  <2> QED BY <1>1, <2>1, UpdatedIs DEF cs
<1>5. SeqPosMax(cs[st], s) = SeqPosMax(c, s)
  <2>1. SameCells(cs, v_cells)
    BY <1>4 DEF SameCells
  <2> HIDE DEF cs
  <2> QED BY <1>2, <1>4, <2>1, SameLast
<1> HIDE DEF cs, us
<1>6. \/ SameCells(v_cells', cs)
      \/ \E slot \in SlotFor(us[1]) :
           us[1] \in UbatchSet /\ AllUsable(cs, slot) /\ Trialled(v_cells', cs, slot, us[1])
  <2>1. CASE NSwa = 0
    BY <1>1, <2>1
  <2>2. CASE NSwa # 0
    <3>1. v_cells' = cs => SameCells(v_cells', cs)
      BY DEF SameCells
    <3> QED BY <2>2, <3>1, WindowTrial DEF us, cs
  <2> QED BY <2>1, <2>2
<1>7. ASSUME NEW i \in Cells
      PROVE  /\ s \in d.seq[i] => s \in cs[st].seq[i] /\ d.pos[i] = cs[st].pos[i]
             /\ s \in cs[st].seq[i] /\ InView(cs[st], s, cs[st].pos[i]) => s \in d.seq[i]
  <2>1. CASE SameCells(v_cells', cs)
    BY <1>2, <2>1 DEF SameCells
  <2>2. ASSUME NEW slot \in SlotFor(us[1]), us[1] \in UbatchSet, AllUsable(cs, slot),
               Trialled(v_cells', cs, slot, us[1])
        PROVE  /\ s \in d.seq[i] => s \in cs[st].seq[i] /\ d.pos[i] = cs[st].pos[i]
               /\ s \in cs[st].seq[i] /\ InView(cs[st], s, cs[st].pos[i]) => s \in d.seq[i]
    <3> DEFINE u == us[1]
               new == ApplyCells(cs, slot, u)
    <3> HIDE DEF u
    <3>1. s \in d.seq[i] => s \in cs[st].seq[i] /\ d.pos[i] = cs[st].pos[i]
      BY <1>2, <1>4, <2>2, TrialHolds
    <3>2. ASSUME s \in cs[st].seq[i], InView(cs[st], s, cs[st].pos[i]) PROVE s \in d.seq[i]
      <4>1. cs[st].pos[i] \in Positions
        BY <1>2, <1>4, <3>2
      <4>2. ~InSlot(slot, st, i) /\ Spared(cs, slot, u, s, cs[st].pos[i])
        BY <1>4, <2>2, <3>2, <4>1, UsableView DEF u
      <4>3. s \in new[st].seq[i]
        <5>1. s \in new[st].seq[i] <=>
                s \in cs[st].seq[i] /\ (st \in DOMAIN u => cs[st].pos[i] > UpTo(cs[st], slot[st])[s])
          BY <1>2, <1>4, <2>2, <4>2, CellApplied DEF u
        <5> QED BY <3>2, <4>2, <5>1 DEF Spared
      <4>4. d.seq[i] = new[st].seq[i]
        BY <1>2, <2>2, <4>2 DEF Trialled, u
      <4> QED BY <4>3, <4>4
    <3> QED BY <3>1, <3>2
  <2> QED BY <1>6, <2>1, <2>2
<1>8. \A p : InView(cs[st], s, p) <=> InView(c, s, p)
  BY <1>5 DEF InView
<1>9. \A i \in Cells : cs[st].pos[i] = c.pos[i] /\ cs[st].seq[i] = c.seq[i]
                       /\ (c.pos[i] # -1 => Data'[st][i].tok = data[i].tok)
  BY <1>2, <1>3, <1>4
<1> HIDE DEF c, d, data
<1>10. KeptTokens(c, data, s, d, Data'[st])
  BY <1>2, <1>7, <1>8, <1>9 DEF KeptTokens
<1> QED BY <1>2, <1>3, <1>10, MemKept

\* A ubatch that fails or is aborted takes nothing from a sequence that could still be seen,
\* and adds nothing, when callers give each token one sequence.
LEMMA AbortKeeps ==
  ASSUME Uncoupled, CacheInv, NSwa = 0 => SlotsFree, Queued, WindowSlot, AbortUbatch, NEW s \in Seqs
  PROVE  /\ Memory!Kept(MemOf(s), MemOf(s)')
         /\ \A k : Memory!Grown(MemOf(s), MemOf(s)', k)
<1> DEFINE slot == Head(todo).slot
           u == Head(todo).ubatch
           cs == ApplyCells(v_cells, slot, u)
           st == Stream(s)
           c == v_cells[st]
           data == Data[st]
           d == v_cells'[st]
<1>1. todo # <<>> /\ UNCHANGED sc_info
  BY DEF AbortUbatch
<1>2. /\ slot \in SlotFor(u) /\ u \in UbatchSet /\ v_cells \in CacheCells /\ store \in Stores
      /\ st \in Streams /\ sc_info = <<>>
  BY <1>1, NextJob, StreamIs DEF CacheInv
<1>3. AllUsable(v_cells, slot)
  BY <1>1, NextUsable
<1>4. Follows(v_cells, u, s)
  BY <1>1, NextFollows
<1>5. /\ CacheInv' /\ AllThinned(cs, v_cells') /\ store' \in {store, Written(slot, u)}
      /\ Cut(cs[st], v_cells'[st], u, {r \in Seqs : Stream(r) = st})
  BY <1>2, AbortUbatchIs
<1>6. s \in {r \in Seqs : Stream(r) = st}
  OBVIOUS
<1> HIDE DEF slot, u
<1>7. \A i \in Cells : s \in d.seq[i] <=> s \in cs[st].seq[i] /\ Ahead(u, s, cs[st].pos[i])
  BY <1>5, <1>6 DEF Cut
<1>8. \A i \in Cells : s \in d.seq[i] => d.pos[i] = cs[st].pos[i]
  <2>1. v_cells'[st] \in Thinned(cs[st])
    BY <1>2, <1>5 DEF AllThinned
  <2> HIDE DEF cs, st
  <2> QED BY <2>1, ThinnedAt
<1>9. \A x \in TokensOf(u) : x.pos \in Positions /\ \A r \in Seqs : r \in x.seqs <=> FirstSeq(x) = r
  <2> SUFFICES ASSUME NEW x \in TokensOf(u)
               PROVE  x.pos \in Positions /\ \A r \in Seqs : r \in x.seqs <=> FirstSeq(x) = r
    OBVIOUS
  <2>1. x \in Token
    BY <1>2, TokensAre
  <2>2. x.pos \in Positions /\ x.seqs \in SeqSet
    BY <2>1 DEF Token
  <2>3. PICK r \in Seqs : x.seqs = {r}
    BY <2>2 DEF SeqSet
  <2>4. FirstSeq(x) = r
    BY <2>3 DEF FirstSeq, Seqs
  <2> QED BY <2>2, <2>3, <2>4
<1>10. /\ c \in GoodCells /\ data \in [Cells -> Datum] /\ data = store[st] /\ Data'[st] = store'[st]
       /\ \A i \in Cells : s \in c.seq[i] => c.pos[i] \in Positions
  <2>1. Data = store
    BY <1>2, CopiedData DEF Data
  <2>2. Data' = store'
    BY <1>1, <1>2, <1>5, LoadedData
  <2> HIDE DEF st
  <2> QED BY <1>2, <2>1, <2>2, InStream
<1>11. MemOf(s) = Mem(c, data, s) /\ MemOf(s)' = Mem(d, Data'[st], s)
  BY MemOfIs
<1>12. ASSUME NEW i \in Cells
       PROVE  /\ s \in d.seq[i] => /\ s \in c.seq[i] /\ d.pos[i] = c.pos[i]
                                   /\ Data'[st][i].tok = data[i].tok
              /\ s \in c.seq[i] /\ InView(c, s, c.pos[i]) => s \in d.seq[i]
  <2>1. CASE InSlot(slot, st, i)
    <3> DEFINE x == AtCell(slot[st], u[st], i)
    <3>1. /\ s \in cs[st].seq[i] => s \in x.seqs /\ cs[st].pos[i] = x.pos
          /\ x \in TokensOf(u)
      <4> HIDE DEF st
      <4> QED BY <1>2, <2>1, CellApplied, TokenAt
    <3> HIDE DEF x, cs
    <3>2. ~(x.pos < x.pos)
      BY <1>9, <3>1, CellsAssumption DEF Positions
    <3>3. s \notin d.seq[i]
      BY <1>7, <1>9, <3>1, <3>2 DEF Ahead
    <3>4. ~(s \in c.seq[i] /\ InView(c, s, c.pos[i]))
      BY <1>2, <1>3, <2>1, UsableView
    <3> QED BY <3>3, <3>4
  <2>2. CASE ~InSlot(slot, st, i)
    <3>1. /\ s \in cs[st].seq[i] <=>
               s \in c.seq[i] /\ (st \in DOMAIN u => c.pos[i] > UpTo(v_cells[st], slot[st])[s])
          /\ s \in cs[st].seq[i] => cs[st].pos[i] = c.pos[i]
      <4> HIDE DEF st
      <4> QED BY <1>2, <2>2, CellApplied
    <3>2. store'[st][i] = store[st][i]
      <4> HIDE DEF st
      <4> QED BY <1>2, <1>5, <2>2, WrittenIs
    <3>3. ASSUME s \in c.seq[i] PROVE Ahead(u, s, c.pos[i])
      <4> SUFFICES ASSUME NEW x \in TokensOf(u), FirstSeq(x) = s PROVE c.pos[i] < x.pos
        BY DEF Ahead
      <4>1. Brings(u, s, x.pos) /\ x.pos \in Positions
        BY <1>9 DEF Brings
      <4>2. Holds(v_cells, s, c.pos[i]) /\ c.pos[i] \in Positions
        BY <1>10, <3>3 DEF Holds
      <4> QED BY <1>4, <4>1, <4>2 DEF Follows
    <3>4. s \in c.seq[i] /\ InView(c, s, c.pos[i]) => Spared(v_cells, slot, u, s, c.pos[i])
      BY <1>2, <1>3, <1>10, UsableView
    <3> HIDE DEF cs
    <3> QED BY <1>7, <1>8, <1>10, <3>1, <3>2, <3>3, <3>4 DEF Spared
  <2> QED BY <2>1, <2>2
<1> HIDE DEF c, d, data, st
<1>13. KeptTokens(c, data, s, d, Data'[st])
  BY <1>12 DEF KeptTokens
<1> QED BY <1>10, <1>11, <1>13, MemKept

\* The positions a ubatch brings to a sequence are the next ones after its last one.
LEMMA BroughtRun ==
  ASSUME NEW cs \in CacheCells, NEW u, Plain(u), NEW s \in Seqs, Follows(cs, u, s)
  PROVE  \E n \in 0 .. NBatch :
           LET L == SeqPosMax(cs[Stream(s)], s)
           IN  \A p : p \in L + 1 .. L + n <=> p \in Positions /\ Brings(u, s, p)
<1> DEFINE L == SeqPosMax(cs[Stream(s)], s)
           B == {p \in Positions : Brings(u, s, p)}
<1>1. /\ L \in Positions \cup {-1} /\ (L # -1 => Holds(cs, s, L))
      /\ \A q \in Positions : Holds(cs, s, q) => q <= L
  BY LastPosition
<1> HIDE DEF L
<1>2. L \in Int /\ L >= -1 /\ \A p \in Positions : p \in Int /\ p >= 0
  BY <1>1 DEF Positions
<1>3. \A p \in B : p > L
  BY <1>1, <1>2 DEF Follows
<1>4. CASE B = {}
  <2>1. \A p : p \in L + 1 .. L + 0 <=> p \in B
    BY <1>2, <1>4
  <2>2. 0 \in 0 .. NBatch
    BY CacheAssumption
  <2> QED BY <2>1, <2>2 DEF L
<1>5. CASE B # {}
  <2>1. B \in SUBSET Positions
    OBVIOUS
  <2>2. PICK m \in B : \A q \in B : m >= q
    <3> HIDE DEF B
    <3> QED BY <1>5, <2>1, GreatestPosition
  <2>3. m \in Positions /\ m \in Int /\ m > L /\ Brings(u, s, m)
    BY <1>2, <1>3, <2>2
  <2>4. ASSUME NEW r \in L + 1 .. m PROVE r \in B
    <3> DEFINE M == {q \in L + 1 .. m : q \notin B}
    <3> SUFFICES ASSUME M # {} PROVE FALSE
      OBVIOUS
    <3>1. M \in SUBSET Positions
      <4>1. \A q \in L + 1 .. m : q \in Positions
        BY <1>2, <2>3, CellsAssumption DEF Positions
      <4> QED BY <4>1
    <3>2. PICK q \in M : \A x \in M : q >= x
      <4> HIDE DEF M
      <4> QED BY <3>1, GreatestPosition
    <3>3. q \in L + 1 .. m /\ q \notin B /\ q \in Positions /\ q \in Int
      BY <1>2, <3>1, <3>2
    <3>4. q # m
      BY <2>2, <3>3
    <3>5. q + 1 \in L + 1 .. m /\ q + 1 \notin M
      BY <1>2, <2>3, <3>2, <3>3, <3>4
    <3>6. q + 1 \in B
      BY <3>5
    <3>7. q + 1 # 0 /\ (q + 1) - 1 = q /\ q > L
      BY <1>2, <3>3
    <3>8. Holds(cs, s, q) \/ Brings(u, s, q)
      BY <3>6, <3>7 DEF Follows
    <3> QED BY <1>1, <1>2, <3>3, <3>7, <3>8
  <2> DEFINE n == m - L
  <2>5. L + 1 \in B /\ L + n = m
    <3>1. L + 1 \in L + 1 .. m
      BY <1>2, <2>3
    <3> QED BY <1>2, <2>3, <2>4, <3>1
  <2>6. m - (L + 1) < NBatch
    BY <2>3, <2>5 DEF Plain
  <2>7. n \in 0 .. NBatch
    BY <1>2, <2>3, <2>6, CacheAssumption
  <2>8. \A p : p \in L + 1 .. L + n <=> p \in B
    <3>1. \A p \in B : p \in L + 1 .. m
      BY <1>2, <1>3, <2>2, <2>3
    <3> HIDE DEF B, n
    <3> QED BY <2>4, <2>5, <3>1
  <2> HIDE DEF n
  <2>9. \A p : p \in L + 1 .. L + n <=> p \in Positions /\ Brings(u, s, p)
    BY <2>8
  <2> QED BY <2>7, <2>9 DEF L
<1> QED BY <1>4, <1>5

\* A ubatch that is computed extends every sequence by its tokens.
LEMMA ProcessGrows ==
  ASSUME CacheInv, NSwa = 0 => SlotsFree, Queued, WindowSlot, PlainJobs, ProcessUbatch
  PROVE  \E t \in Toks : \A s \in Seqs : Memory!Grown(MemOf(s), MemOf(s)', t)
<1> DEFINE slot == Head(todo).slot
           u == Head(todo).ubatch
<1>1. /\ todo # <<>> /\ UNCHANGED sc_info
      /\ v_cells' = ApplyCells(v_cells, slot, u) /\ store' = Written(slot, u)
  BY DEF ProcessUbatch
<1>2. /\ slot \in SlotFor(u) /\ u \in UbatchSet /\ v_cells \in CacheCells /\ store \in Stores
      /\ sc_info = <<>> /\ CacheInv'
  BY <1>1, NextJob, ProcessUbatchIs DEF CacheInv
<1>3. AllUsable(v_cells, slot)
  BY <1>1, NextUsable
<1>4. \A s \in Seqs : Follows(v_cells, u, s)
  BY <1>1, NextFollows
<1>5. Plain(u)
  <2> DEFINE q == todo
             T == Job
  <2>1. q \in Seq(T) /\ q # <<>>
    BY <1>1 DEF CacheInv
  <2> HIDE DEF q, T
  <2>2. 1 \in 1 .. Len(q) /\ Head(q) = q[1]
    BY <2>1
  <2> QED BY <2>2 DEF PlainJobs, q
<1> HIDE DEF slot, u
<1>6. PICK t \in Toks : \A x \in TokensOf(u) : x.tok = t
  BY <1>5 DEF Plain
<1>7. Data = store /\ Data' = store'
  BY <1>1, <1>2, CopiedData, LoadedData DEF Data
<1>8. ASSUME NEW s \in Seqs PROVE Memory!Grown(MemOf(s), MemOf(s)', t)
  <2> DEFINE st == Stream(s)
             c == v_cells[st]
             data == Data[st]
             d == v_cells'[st]
             new == Data'[st]
             L == SeqPosMax(c, s)
             J == {i \in Cells : InSlot(slot, st, i)}
             x(i) == AtCell(slot[st], u[st], i)
  <2>1. st \in Streams
    BY StreamIs
  <2>2. PICK n \in 0 .. NBatch : \A p : p \in L + 1 .. L + n <=> p \in Positions /\ Brings(u, s, p)
    BY <1>2, <1>4, <1>5, BroughtRun
  <2> HIDE DEF st
  <2>3. /\ c \in GoodCells /\ data \in [Cells -> Datum]
        /\ \A i \in Cells : s \in c.seq[i] => c.pos[i] \in Positions
    BY <2>1, InStream
  <2>4. \A i \in Cells :
          /\ InSlot(slot, st, i) =>
               /\ s \in d.seq[i] <=> s \in x(i).seqs /\ Spared(v_cells, slot, u, s, x(i).pos)
               /\ s \in d.seq[i] => d.pos[i] = x(i).pos
          /\ ~InSlot(slot, st, i) =>
               /\ s \in d.seq[i] <=> s \in c.seq[i] /\ Spared(v_cells, slot, u, s, c.pos[i])
               /\ s \in d.seq[i] => d.pos[i] = c.pos[i]
    BY <1>1, <1>2, <2>1, CellApplied DEF Spared, st
  <2>5. \A i \in J : x(i) \in TokensOf(u) /\ x(i).pos \in Positions /\ x(i).tok = t
    <3>1. \A i \in J : x(i) \in TokensOf(u)
      BY <1>2, <2>1, TokenAt
    <3>2. TokensOf(u) \subseteq Token
      BY <1>2, TokensAre
    <3> HIDE DEF x, J
    <3> QED BY <1>6, <3>1, <3>2, TokenFields
  <2>6. \A i \in Cells : /\ i \in J => new[i].tok = x(i).tok
                         /\ i \notin J => new[i] = data[i]
    <3>1. \A i \in Cells : ~InSlot(slot, st, i) => Written(slot, u)[st][i] = store[st][i]
      BY <1>2, <2>1, WrittenIs
    <3>2. \A i \in Cells : InSlot(slot, st, i) => Written(slot, u)[st][i].tok = x(i).tok
      BY <2>1 DEF Written, InSlot, AtCell
    <3> QED BY <1>1, <1>7, <3>1, <3>2
  <2>7. /\ \A p \in Positions : InView(c, s, p) => Spared(v_cells, slot, u, s, p)
        /\ \A i \in Cells : s \in c.seq[i] /\ InView(c, s, c.pos[i]) => ~InSlot(slot, st, i)
    BY <1>2, <1>3, UsableView DEF st
  <2>8. ASSUME NEW i \in Cells, s \in d.seq[i]
        PROVE  IF i \in J THEN d.pos[i] \in L + 1 .. L + n /\ new[i].tok = t
               ELSE s \in c.seq[i] /\ d.pos[i] = c.pos[i] /\ new[i].tok = data[i].tok
    <3>1. CASE i \in J
      <4>1. s \in x(i).seqs /\ d.pos[i] = x(i).pos /\ x(i) \in TokensOf(u) /\ x(i).pos \in Positions
        BY <2>4, <2>5, <2>8, <3>1
      <4>2. Brings(u, s, x(i).pos)
        BY <4>1 DEF Brings
      <4> HIDE DEF x, c, d, J, new
      <4> QED BY <2>2, <2>5, <2>6, <3>1, <4>1, <4>2
    <3>2. CASE i \notin J
      BY <2>4, <2>6, <2>8, <3>2
    <3> QED BY <3>1, <3>2
  <2>9. ASSUME NEW i \in J, NEW j \in J, s \in d.seq[i], s \in d.seq[j], d.pos[i] = d.pos[j]
        PROVE  i = j
    <3>1. s \in x(i).seqs /\ s \in x(j).seqs /\ x(i).pos = x(j).pos
      BY <2>4, <2>9
    <3>2. /\ slot[st] \in Idxs /\ u[st] \in Seq(Token) /\ Len(u[st]) = Len(slot[st]) /\ st \in DOMAIN u
          /\ i \in CellsOf(slot[st]) /\ j \in CellsOf(slot[st])
      BY <1>2, SlotForIs, UbatchIs DEF InSlot
    <3>3. PICK k \in 1 .. Len(u[st]) : slot[st][k] = i /\ x(i) = u[st][k]
      BY <3>2, AtCellIs
    <3>4. PICK m \in 1 .. Len(u[st]) : slot[st][m] = j /\ x(j) = u[st][m]
      BY <3>2, AtCellIs
    <3> HIDE DEF x
    <3>5. k = m
      BY <1>5, <3>1, <3>2, <3>3, <3>4 DEF Plain
    <3> QED BY <3>3, <3>4, <3>5
  <2>10. ASSUME NEW p \in L + 1 .. L + n
         PROVE  \E i \in J : i \in Cells /\ s \in d.seq[i] /\ d.pos[i] = p
    <3>1. p \in Positions /\ Brings(u, s, p)
      BY <2>2
    <3>2. PICK y \in TokensOf(u) : s \in y.seqs /\ y.pos = p
      BY <3>1 DEF Brings
    <3>3. PICK i \in Cells : InSlot(slot, st, i) /\ x(i) = y
      BY <1>2, <2>1, <3>2, TokenAt DEF st
    <3>4. InView(c, s, p)
      <4>1. L \in Int /\ NSwa \in Nat
        BY SeqPosMaxIs, CacheAssumption DEF Positions
      <4> HIDE DEF L
      <4>2. NSwa = 0 \/ p > L + 1 - NSwa
        BY <4>1
      <4> QED BY <4>2 DEF InView, L
    <3>5. s \in d.seq[i] /\ d.pos[i] = p
      BY <2>4, <2>7, <3>1, <3>2, <3>3, <3>4
    <3> QED BY <3>3, <3>5
  <2>11. ASSUME NEW i \in Cells, s \in c.seq[i], InView(c, s, c.pos[i])
         PROVE  i \notin J /\ s \in d.seq[i]
    BY <2>3, <2>4, <2>7, <2>11
  <2> HIDE DEF c, d, data, new, J
  <2>12. GrownTokens(c, data, s, d, new, t, n, J)
    BY <2>8, <2>9, <2>10, <2>11 DEF GrownTokens
  <2>13. Memory!Grown(Mem(c, data, s), Mem(d, new, s), t)
    BY <2>3, <2>12, MemGrown
  <2>14. MemOf(s) = Mem(c, data, s) /\ MemOf(s)' = Mem(d, new, s)
    BY MemOfIs DEF c, d, data, new, st
  <2> QED BY <2>13, <2>14
<1> QED BY <1>8

-----
(* The cache keeps the promises of SeqMemory. *)

\* A decode and each of its ubatches extend the sequences.
LEMMA PromiseExtend ==
  ASSUME PromiseAssumption, PromiseInv,
         \/ ProcessUbatch \/ AbortUbatch
         \/ \E b \in Batches, t \in Toks, shifted \in BOOLEAN : Decode(b, t, shifted)
  PROVE  UNCHANGED saved /\ \E t \in Toks : Memory!Extend(t)
<1>1. UNCHANGED saved
  BY DEF ProcessUbatch, AbortUbatch, Decode
<1>2. PICK any \in Toks : TRUE
  BY CacheAssumption
<1>3. \E t \in Toks : \A s \in Seqs : Memory!Grown(MemOf(s), MemOf(s)', t)
  <2>1. CASE ProcessUbatch
    BY <2>1, ProcessGrows DEF PromiseInv
  <2>2. CASE AbortUbatch
    <3>1. Uncoupled
      BY <2>2 DEF PromiseAssumption, AbortUbatch
    <3>2. \A s \in Seqs : Memory!Grown(MemOf(s), MemOf(s)', any)
      BY <2>2, <3>1, AbortKeeps DEF PromiseInv
    <3> QED BY <1>2, <3>2
  <2>3. ASSUME NEW b \in Batches, NEW t \in Toks, NEW shifted \in BOOLEAN, Decode(b, t, shifted)
        PROVE  \E k \in Toks : \A s \in Seqs : Memory!Grown(MemOf(s), MemOf(s)', k)
    <3>1. \A s \in Seqs : Memory!Grown(MemOf(s), MemOf(s)', any)
      BY <2>3, DecodeKeeps DEF PromiseInv, PromiseAssumption
    <3> QED BY <1>2, <3>1
  <2> QED BY <2>1, <2>2, <2>3
<1>4. PICK t \in Toks : \A s \in Seqs : Memory!Grown(MemOf(s), MemOf(s)', t)
  BY <1>3
<1>5. Memory!Extend(t)
  BY <1>4 DEF Memory!Extend
<1> QED BY <1>1, <1>5

\* Every step does to the sequences what llama.h says of it.
LEMMA PromiseStep ==
  ASSUME PromiseAssumption, PromiseInv, Next
  PROVE  AsPromised
<1>1. CacheInv /\ (Saves => ~EarlySaves) /\ ~SharedShift
  BY DEF PromiseInv, PromiseAssumption
<1>2. Clear => Memory!Clear
  BY <1>1, PromiseClear
<1>3. \A r \in Ranges : SeqRmAny(r[1], r[2]) => Memory!Remove(Seqs, Span(r))
  BY <1>1, PromiseRmAny
<1>4. ASSUME NEW s \in Seqs
      PROVE  /\ SeqKeep(s) => Memory!Keep(s)
             /\ SaveSeq(s) => Memory!Save(s)
             /\ LoadSeq(s) => IF ret' = 0 THEN Memory!Load(s) ELSE Memory!LoadFails(s)
             /\ \A d \in Seqs : SeqCpStream(s, d) => Memory!CopyOver(s, d)
  <2>1. SeqKeep(s) => Memory!Keep(s)
    BY <1>1, PromiseKeep
  <2>2. SaveSeq(s) => Memory!Save(s)
    BY <1>1, PromiseSave
  <2>3. LoadSeq(s) => IF ret' = 0 THEN Memory!Load(s) ELSE Memory!LoadFails(s)
    BY <1>1, PromiseLoad
  <2>4. \A d \in Seqs : SeqCpStream(s, d) => Memory!CopyOver(s, d)
    BY <1>1, PromiseCpStream
  <2> QED BY <2>1, <2>2, <2>3, <2>4
<1>5. ASSUME NEW s \in Seqs, NEW r \in Ranges
      PROVE  /\ SeqRm(s, r[1], r[2]) => Memory!Remove({s}, Span(r))
             /\ \A d \in Seqs : SeqCpShare(s, d, r[1], r[2]) => Memory!CopyInto(s, d, Span(r))
  BY <1>1, PromiseRm, PromiseCpShare
<1>6. ASSUME NEW s \in Seqs, NEW r \in Ranges, NEW d \in Deltas, SeqAdd(s, r[1], r[2], d)
      PROVE  Memory!Move(s, Span(r), LAMBDA p : p + d)
  BY <1>1, <1>6, PromiseAdd
<1>7. ASSUME NEW s \in Seqs, NEW r \in Ranges, NEW d \in Divisors, SeqDiv(s, r[1], r[2], d)
      PROVE  Memory!Move(s, Span(r), LAMBDA p : p \div d)
  BY <1>1, <1>7, PromiseDiv
<1>8. ASSUME DecodeStep PROVE \E t \in Toks : Memory!Extend(t)
  <2>1. \/ ProcessUbatch \/ AbortUbatch
        \/ \E b \in Batches, t \in Toks, shifted \in BOOLEAN : Decode(b, t, shifted)
    BY <1>8, OtherCalls DEF DecodeStep
  <2> QED BY <2>1, PromiseExtend
<1> QED BY <1>2, <1>3, <1>4, <1>5, <1>6, <1>7, <1>8 DEF AsPromised

\* Every step is one that SeqMemory allows.
LEMMA MemoryStep ==
  ASSUME PromiseAssumption, PromiseInv, Next
  PROVE  Memory!Next
<1>1. AsPromised
  BY PromiseStep
<1>2. UNCHANGED saved => UNCHANGED SavedMem
  BY DEF SavedMem
<1>3. \A r \in Ranges : Span(r) \in Memory!Spans
  BY DEF Memory!Spans, Span
<1>4. UNCHANGED saved /\ Memory!Call => Memory!Next
  BY <1>2 DEF Memory!Next
<1>5. CASE Clear \/ \E s \in Seqs : SeqKeep(s) \/ \E d \in Seqs : SeqCpStream(s, d)
  <2>1. UNCHANGED saved /\ \A s, d \in Seqs : SeqCpStream(s, d) => s # d
    BY <1>5 DEF Clear, SeqKeep, SeqCpStream
  <2> QED BY <1>1, <1>4, <1>5, <2>1 DEF AsPromised, Memory!Call
<1>6. ASSUME NEW r \in Ranges,
             \/ SeqRmAny(r[1], r[2])
             \/ \E s \in Seqs : SeqRm(s, r[1], r[2]) \/ \E d \in Seqs : SeqCpShare(s, d, r[1], r[2])
      PROVE  Memory!Next
  <2>1. UNCHANGED saved /\ \A s, d \in Seqs : SeqCpShare(s, d, r[1], r[2]) => s # d
    BY <1>6 DEF SeqRm, SeqRmAny, SeqCpShare
  <2> QED BY <1>1, <1>3, <1>4, <1>6, <2>1 DEF AsPromised, Memory!Call
<1>7. ASSUME NEW s \in Seqs, NEW r \in Ranges, NEW d \in Deltas, SeqAdd(s, r[1], r[2], d)
       PROVE  Memory!Next
  <2>1. UNCHANGED saved
    BY <1>7 DEF SeqAdd
  <2>2. Memory!Move(s, Span(r), LAMBDA p : p + d)
    BY <1>1, <1>7 DEF AsPromised
  <2>3. Memory!Call
    BY <1>3, <2>2 DEF Memory!Call
  <2> QED BY <1>4, <2>1, <2>3
<1>8. ASSUME NEW s \in Seqs, NEW r \in Ranges, NEW d \in Divisors, SeqDiv(s, r[1], r[2], d)
       PROVE  Memory!Next
  <2>1. UNCHANGED saved
    BY <1>8 DEF SeqDiv
  <2>2. Memory!Move(s, Span(r), LAMBDA p : p \div d)
    BY <1>1, <1>8 DEF AsPromised
  <2>3. Memory!Call
    BY <1>3, <2>2 DEF Memory!Call
  <2> QED BY <1>4, <2>1, <2>3
<1>9. CASE \/ ProcessUbatch \/ AbortUbatch
            \/ \E b \in Batches, t \in Toks, shifted \in BOOLEAN : Decode(b, t, shifted)
  <2>1. UNCHANGED saved /\ \E t \in Toks : Memory!Extend(t)
    BY <1>9, PromiseExtend
  <2> QED BY <1>4, <2>1 DEF Memory!Call
<1>10. ASSUME NEW s \in Seqs, SaveSeq(s) PROVE Memory!Next
  <2>1. Memory!Save(s)
    BY <1>1, <1>10 DEF AsPromised
  <2> QED BY <2>1 DEF Memory!Next
<1>11. ASSUME NEW s \in Seqs, LoadSeq(s) PROVE Memory!Next
  <2>1. /\ UNCHANGED saved
        /\ IF ret' = 0 THEN Memory!Load(s) ELSE Memory!LoadFails(s)
    BY <1>11, PromiseLoad DEF PromiseInv, PromiseAssumption
  <2>2. CASE ret' = 0
    BY <2>1, <2>2 DEF Memory!Next
  <2>3. CASE ret' # 0
    BY <1>2, <2>1, <2>3 DEF Memory!Next
  <2> QED BY <2>2, <2>3
<1> QED BY <1>5, <1>6, <1>7, <1>8, <1>9, <1>10, <1>11 DEF Next

\* The invariant holds at the start, and every step keeps it.
LEMMA PromiseInvHolds ==
  ASSUME WindowAssumption
  PROVE  (Init => PromiseInv) /\ (PromiseInv /\ [Next]_vars => PromiseInv')
<1>1. ASSUME Init PROVE PromiseInv
  <2>1. CacheInv
    BY <1>1, InitIs
  <2>2. Len(todo) = 0 /\ todo = <<>> /\ todo \in Seq(Job)
    BY <1>1, <2>1 DEF Init, CacheInv
  <2>3. Len(QueueOf(todo)) = 0
    BY <2>2, QueueIs
  <2>4. Appends(v_cells, QueueOf(todo))
    BY <2>3 DEF Appends
  <2>5. SlotsFree /\ Queued
    BY <2>2, <2>4 DEF SlotsFree, Queued
  <2>6. PlainJobs /\ WindowSlot
    BY <2>2 DEF PlainJobs, WindowSlot
  <2> QED BY <2>1, <2>5, <2>6 DEF PromiseInv
<1>2. ASSUME PromiseInv, [Next]_vars PROVE PromiseInv'
  <2>1. CacheInv /\ (NSwa = 0 => SlotsFree) /\ Queued /\ PlainJobs /\ WindowSlot
    BY <1>2 DEF PromiseInv
  <2>2. CacheInv' /\ (NSwa = 0 => SlotsFree)' /\ Queued'
    BY <1>2, <2>1, CacheInvStep, SlotsStep, QueuedStep
  <2>3. PlainJobs' /\ WindowSlot'
    BY <1>2, <2>1, PlainStep, WindowStep
  <2> QED BY <2>2, <2>3 DEF PromiseInv
<1> QED BY <1>1, <1>2

\* Each call does to the sequences what llama.h says of that call, and a decode only
\* appends, and forgets what cannot be seen any more: whatever the number of cells, of
\* sequences and of streams, and whatever the calls before.
THEOREM CallsKeepPromise == PromiseAssumption => (Spec => CallsAsPromised)
<1> SUFFICES ASSUME PromiseAssumption PROVE Spec => CallsAsPromised
  OBVIOUS
<1>1. (Init => PromiseInv) /\ (PromiseInv /\ [Next]_vars => PromiseInv')
  BY PromiseInvHolds DEF PromiseAssumption
<1>2. PromiseInv /\ [Next]_vars => [AsPromised]_vars
  BY PromiseStep
<1>3. CallsAsPromised <=> [][AsPromised]_vars
  BY DEF CallsAsPromised, AsPromised
<1> QED BY <1>1, <1>2, <1>3, PTL DEF Spec

\* The cache implements SeqMemory, the memory in which every sequence owns its tokens.
THEOREM CacheImplementsMemory == PromiseAssumption => (Spec => ImplementsMemory)
<1> SUFFICES ASSUME PromiseAssumption PROVE Spec => Memory!Spec
  BY DEF ImplementsMemory
<1>1. (Init => PromiseInv) /\ (PromiseInv /\ [Next]_vars => PromiseInv')
  BY PromiseInvHolds DEF PromiseAssumption
<1>2. Init => Memory!Init
  <2> SUFFICES ASSUME Init PROVE Memory!Init
    OBVIOUS
  <2>1. CacheInv /\ saved = <<>> /\ \A st \in Streams, i \in Cells : IsEmpty(v_cells[st], i)
    BY InitIs
  <2>2. ASSUME NEW s \in Seqs PROVE MemOf(s) = Memory!Nothing
    <3>1. Stream(s) \in Streams
      BY StreamIs
    <3>2. \A i \in Cells : s \notin v_cells[Stream(s)].seq[i]
      <4>1. Exact(v_cells[Stream(s)])
        BY <2>1, <3>1, InStream DEF Good
      <4> QED BY <2>1, <3>1, <4>1 DEF Exact
    <3> QED BY <3>2, MemOfIs, MemNothing
  <2>3. SavedMem = Memory!Nothing
    <3>1. \A t \in Toks, p \in Positions :
            {k \in DOMAIN saved : saved[k].pos = p /\ saved[k].tok = t} = {}
      BY <2>1
    <3> QED BY <3>1, FS_EmptySet, SamePositions DEF SavedMem, Memory!Nothing
  <2> QED BY <2>2, <2>3 DEF Memory!Init
<1>3. PromiseInv /\ Next => Memory!Next
  BY MemoryStep
<1>4. UNCHANGED vars => UNCHANGED <<[s \in Seqs |-> MemOf(s)], SavedMem>>
  <2> SUFFICES ASSUME UNCHANGED vars PROVE UNCHANGED <<[s \in Seqs |-> MemOf(s)], SavedMem>>
    OBVIOUS
  <2>1. UNCHANGED <<v_cells, sc_info, store, saved>>
    BY DEF vars
  <2>2. \A s \in Seqs : MemOf(s)' = MemOf(s)
    <3>1. Data' = Data
      BY <2>1 DEF Data, CopiedBy
    <3> QED BY <2>1, <3>1, MemOfIs
  <2>3. SavedMem' = SavedMem
    BY <2>1 DEF SavedMem
  <2> QED BY <2>2, <2>3
<1>5. PromiseInv /\ [Next]_vars => [Memory!Next]_<<[s \in Seqs |-> MemOf(s)], SavedMem>>
  BY <1>3, <1>4
<1> QED BY <1>1, <1>2, <1>5, PTL DEF Spec, Memory!Spec

-----
(* Slots stay usable, no hole is left, and a decode that fails costs nothing. *)

\* The slot that prepare has found for a ubatch is still usable when the ubatch is
\* placed, whatever the trial placement did in between: without a window, or with one
\* ubatch in a batch, so that no other ubatch comes between the search and the use.
THEOREM SlotsStayUsable == WindowAssumption => (Spec => []SlotUsable)
<1> SUFFICES ASSUME WindowAssumption PROVE Spec => []SlotUsable
  OBVIOUS
<1>1. (Init => PromiseInv) /\ (PromiseInv /\ [Next]_vars => PromiseInv')
  BY PromiseInvHolds
<1>2. PromiseInv => SlotUsable
  BY NextUsable DEF PromiseInv, SlotUsable, AllUsable
<1> QED BY <1>1, <1>2, PTL DEF Spec

\* A decode that finds no slot leaves every sequence as it was: what prepare placed is
\* taken back without a loss, and the copies and shifts that were done before change no
\* token. With a window it is so of a batch of one ubatch, where nothing is placed when
\* no slot is found.
THEOREM NoSlotLosesNothing == WindowAssumption => (Spec => NoSlotRestores)
<1> SUFFICES ASSUME WindowAssumption PROVE Spec => NoSlotRestores
  OBVIOUS
<1> DEFINE A == ret' = 1 => \A s \in Seqs : MemOf(s)' = MemOf(s)
           Inv == CacheInv /\ (ret = 1 => todo = <<>>)
<1>1. Init => Inv
  BY InitIs DEF Init
<1>2. ASSUME Next, ~ProcessUbatch,
             ~\E b \in Batches, t \in Toks, shifted \in BOOLEAN : Decode(b, t, shifted)
      PROVE  ret' # 1
  <2>1. AbortUbatch => ret' = 2
    BY DEF AbortUbatch
  <2> QED BY <1>2, <2>1, OtherCalls DEF LoadFailed
<1>3. Inv /\ [Next]_vars => Inv'
  <2> SUFFICES ASSUME Inv, [Next]_vars PROVE ret' = 1 => todo' = <<>>
    BY CacheInvStep
  <2>1. CASE UNCHANGED vars
    BY <2>1 DEF vars
  <2>2. CASE \E b \in Batches, t \in Toks, shifted \in BOOLEAN : Decode(b, t, shifted)
    BY <2>2 DEF Decode
  <2>3. CASE ProcessUbatch
    BY <2>3 DEF ProcessUbatch
  <2> QED BY <1>2, <2>1, <2>2, <2>3
<1>4. Inv /\ [Next]_vars => [A]_vars
  <2> SUFFICES ASSUME Inv, Next, ret' = 1, vars' # vars, NEW s \in Seqs PROVE MemOf(s)' = MemOf(s)
    OBVIOUS
  <2>0. ret' = 1
    OBVIOUS
  <2>1. CacheInv'
    BY CacheInvStep
  <2>2. CASE \E b \in Batches, t \in Toks, shifted \in BOOLEAN : Decode(b, t, shifted)
    <3>1. PICK b \in Batches, t \in Toks, shifted \in BOOLEAN : Decode(b, t, shifted)
      BY <2>2
    <3>2. sc_info' = <<>> /\ store' = UpdatedStore(shifted) /\ SameCells(v_cells', UpdatedCells(shifted))
      <4>1. sc_info' = <<>> /\ store' = UpdatedStore(shifted)
        BY <3>1 DEF Decode
      <4>2. CASE NSwa = 0
        BY <3>1, <4>2, DecodeIs
      <4>3. CASE NSwa # 0
        <5>1. todo' = <<>>
          BY <2>0, <3>1 DEF Decode
        <5>2. v_cells' = UpdatedCells(shifted)
          BY <3>1, <4>3, <5>1, WindowTrial
        <5>3. SameCells(v_cells', UpdatedCells(shifted))
          BY <5>2 DEF SameCells
        <5> QED BY <4>1, <5>3
      <4> QED BY <4>1, <4>2, <4>3
    <3>3. \A st \in Streams, i \in Cells :
            /\ UpdatedCells(shifted)[st].pos[i] = v_cells[st].pos[i]
            /\ UpdatedCells(shifted)[st].seq[i] = v_cells[st].seq[i]
            /\ UpdatedCells(shifted)[st].pos[i] # -1 =>
                 UpdatedStore(shifted)[st][i].tok = CopiedStore(store)[st][i].tok
      BY UpdatedIs
    <3>4. SameCells(v_cells', v_cells)
      BY <3>2, <3>3 DEF SameCells
    <3>5. CopiedBy(store', sc_info') = store'
      <4>1. store' \in [Streams -> [Cells -> Datum]] /\ sc_info' \in Seq(Streams \X Streams) /\ Len(sc_info') = 0
        BY <2>1, <3>2 DEF CacheInv, Stores
      <4> QED BY <4>1, CopiedNone
    <3>6. CopiedStore(store)' = store'
      BY <3>5 DEF CopiedStore, CopiedBy
    <3> QED BY <2>1, <3>2, <3>3, <3>4, <3>6, MemIs
  <2>3. CASE ProcessUbatch
    BY <2>3 DEF ProcessUbatch
  <2> QED BY <1>2, <2>2, <2>3
<1> QED BY <1>1, <1>3, <1>4, PTL DEF Spec, NoSlotRestores

\* A ubatch that fails or is aborted leaves every sequence what it had before the
\* ubatch: without a window, and when callers give each token one sequence.
THEOREM AbortLeavesNothing == NSwa = 0 /\ Uncoupled => (Spec => AbortRestores)
<1> SUFFICES ASSUME NSwa = 0, Uncoupled PROVE Spec => AbortRestores
  OBVIOUS
<1> DEFINE A == ret' = 2 => \A s \in Seqs : MemOf(s)' = MemOf(s)
           Inv == PromiseInv /\ (ret = 2 => todo = <<>>)
<1>1. (Init => PromiseInv) /\ (PromiseInv /\ [Next]_vars => PromiseInv')
  BY PromiseInvHolds DEF WindowAssumption
<1>2. Init => Inv
  BY <1>1 DEF Init
<1>3. ASSUME Inv, Next, ret' = 2 PROVE AbortUbatch /\ todo' = <<>>
  <2>1. ~\E b \in Batches, t \in Toks, shifted \in BOOLEAN : Decode(b, t, shifted)
    BY <1>3 DEF Decode
  <2>2. ~ProcessUbatch
    BY <1>3 DEF ProcessUbatch
  <2>3. AbortUbatch
    BY <1>3, <2>1, <2>2, OtherCalls DEF LoadFailed
  <2> QED BY <2>3 DEF AbortUbatch
<1>4. Inv /\ [Next]_vars => Inv'
  <2> SUFFICES ASSUME Inv, [Next]_vars PROVE ret' = 2 => todo' = <<>>
    BY <1>1
  <2>1. CASE UNCHANGED vars
    BY <2>1 DEF vars
  <2> QED BY <1>3, <2>1
<1>5. Inv /\ [Next]_vars => [A]_vars
  <2> SUFFICES ASSUME Inv, Next, ret' = 2, NEW s \in Seqs PROVE MemOf(s)' = MemOf(s)
    OBVIOUS
  <2>1. Memory!Kept(MemOf(s), MemOf(s)')
    BY <1>3, AbortKeeps DEF PromiseInv
  <2>2. \A t \in Toks, p \in Positions : MemOf(s)'[t][p] = MemOf(s)[t][p]
    BY <2>1, SamePositions DEF Memory!Kept, Memory!Seen
  <2> QED BY <2>2, MemOfIs DEF Mem
<1> QED BY <1>2, <1>4, <1>5, PTL DEF Spec, AbortRestores

\* Placing a ubatch leaves no hole in a sequence, and aborting one leaves none either:
\* without a window whatever the ubatches, and with one when there is one ubatch per batch.
THEOREM NoHoleIsLeft == WindowAssumption => (Spec => DecodeLeavesNoHole)
<1> SUFFICES ASSUME WindowAssumption PROVE Spec => DecodeLeavesNoHole
  OBVIOUS
<1> DEFINE A == todo # <<>> => \A s \in Seqs : Contiguous(s) => Contiguous(s)'
<1>1. (Init => PromiseInv) /\ (PromiseInv /\ [Next]_vars => PromiseInv')
  BY PromiseInvHolds
<1>2. PromiseInv /\ [Next]_vars => [A]_vars
  <2> SUFFICES ASSUME PromiseInv, Next, todo # <<>>, NEW s \in Seqs, Contiguous(s) PROVE Contiguous(s)'
    OBVIOUS
  <2>1. PosHeld(s) = Has(v_cells, s) /\ PosHeld(s)' = Has(v_cells', s)
    BY DEF PosHeld, Has, Holds
  <2>2. Convex(Has(v_cells, s))
    BY <2>1 DEF Contiguous, Convex
  <2>3. ProcessUbatch \/ AbortUbatch
    <3>1. CASE \E b \in Batches, t \in Toks, shifted \in BOOLEAN : Decode(b, t, shifted)
      BY <3>1 DEF Decode
    <3> QED BY <3>1, OtherCalls
  <2>4. Convex(Has(v_cells', s))
    BY <2>2, <2>3, NoHoleStep DEF PromiseInv
  <2> QED BY <2>1, <2>4 DEF Contiguous, Convex
<1> QED BY <1>1, <1>2, PTL DEF Spec, DecodeLeavesNoHole

=============================================================================
