----------------------------- MODULE KvCacheInv -----------------------------
(***************************************************************************)
(* What is said of the cells and of the cache in KvCacheProofs: what it is *)
(* for cells to be good, what an operation leaves of them, the loop        *)
(* invariants of prepare, and the inductive invariants CacheInv and        *)
(* PromiseInv with their parts.                                            *)
(***************************************************************************)
EXTENDS KvCache

-----------------------------------------------------------------------------
(* Numbers, and functions that are defined from one number to the next. *)

\* f starts with s, and step[n] leads from its value before n to the one at n.
Iterates(f, N, s, step) == f = [n \in 0 .. N |-> IF n = 0 THEN s ELSE step[n][f[n - 1]]]

-----------------------------------------------------------------------------
(* Counting. *)

\* The cells a count looks at.
Holding(c, I, s, p) == {i \in I : s \in c.seq[i] /\ c.pos[i] = p}

\* No sequence at any position.
Zero == [s \in Seqs |-> [p \in Positions |-> 0]]

-----------------------------------------------------------------------------
(* The operations. *)

\* Cells of the right types with exact summaries.
Good(c) == c \in CellsType /\ Exact(c)

\* While positions move, they may be negative: Emptied, field by field.
WideType ==
  [pos : [Cells -> Int], shift : [Cells -> Int],
   seq : [Cells -> SUBSET Seqs], seq_pos : [Seqs -> [Positions -> Int]],
   used : SUBSET Cells, has_shift : BOOLEAN]

-----------------------------------------------------------------------------
(* Purging. *)

\* Cells of a stream whose summaries are exact.
GoodCells == {c \in CellsType : Exact(c)}

\* The cells that purging empties.
Gone(c, upto) == [i \in Cells |-> {s \in c.seq[i] : c.pos[i] <= upto[s]}]

\* The cells that lose their last sequence.
PurgedOut(c, upto) == {i \in Cells : Gone(c, upto)[i] # {} /\ Gone(c, upto)[i] = c.seq[i]}

-----------------------------------------------------------------------------
(* Finding cells. *)

\* Cells, one after the other.
Idxs == Seq(Cells)

-----------------------------------------------------------------------------
(* Placing the tokens of a ubatch. *)

\* No token is of several sequences.
Uncoupled == \A S \in SeqSets : \E s \in Seqs : S = {s}

\* The sequences a token may have: one alone, where no token is of several.
SeqSet == {S \in SUBSET Seqs : S # {} /\ (Uncoupled => \E s \in Seqs : S = {s})}

\* A token of a ubatch.
Token == [pos : Positions, seqs : SeqSet, tok : Toks]

\* The token that cell i of a slot gets.
AtCell(idxs, toks, i) == toks[CHOOSE k \in DOMAIN idxs : idxs[k] = i]

\* The cells that are overwritten.
Over(c, idxs) == {i \in CellsOf(idxs) : ~IsEmpty(c, i)}

\* The cells with the tokens placed, before anything is purged.
Laid(c, idxs, toks) ==
  PlaceCells(RmCells(c, Over(c, idxs)), CellsOf(idxs), [i \in CellsOf(idxs) |-> AtCell(idxs, toks, i)])

\* The position that is lost, for each sequence, if any is.
UpTo(c, idxs) == [s \in Seqs |-> LostUpTo(c, Over(c, idxs), s)]

\* What placing toks at idxs leaves: a part of the token in each cell of idxs, which is not
\* shifted, and in each other cell a part of what it had, with its shift.
PlacedIn(d, c, idxs, toks) ==
  /\ Good(d)
  /\ \A i \in Cells :
       LET in == i \in CellsOf(idxs)
       IN  /\ d.seq[i] \subseteq IF in THEN AtCell(idxs, toks, i).seqs ELSE c.seq[i]
           /\ d.shift[i] \in {0, IF in THEN 0 ELSE c.shift[i]}
           /\ d.pos[i] \in {-1, IF in THEN AtCell(idxs, toks, i).pos ELSE c.pos[i]}
           /\ ~IsEmpty(d, i) => d.shift[i] = IF in THEN 0 ELSE c.shift[i]
  /\ d.has_shift = c.has_shift

-----------------------------------------------------------------------------
(* Taking away. *)

\* What a cell may lose: sequences, and everything with the last of them.
Thinned(c) ==
  {d \in GoodCells :
     /\ \A i \in Cells : /\ d.seq[i] \subseteq c.seq[i]
                         /\ d.pos[i] \in {-1, c.pos[i]}
                         /\ d.shift[i] \in {0, c.shift[i]}
                         /\ d.pos[i] # -1 => d.shift[i] = c.shift[i]
     /\ d.has_shift = c.has_shift}

-----------------------------------------------------------------------------
(* Splitting a batch. *)

\* Some tokens of a batch, by their places, per sequence or stream.
Places(b) == 1 .. Len(b)

\* Sequences of at least one member.
NonEmpty(T) == {q \in Seq(T) : Len(q) > 0}

\* A sequence that has nothing twice.
NoRepeat(q) == \A j, k \in 1 .. Len(q) : q[j] = q[k] => j = k

\* What a split takes of a batch: no token twice and, with streams, only tokens of the
\* stream.
Parts(b) == {p \in UNION {[D -> NonEmpty(Places(b))] : D \in SUBSET Streams} :
               \A st \in DOMAIN p :
                 /\ NoRepeat(p[st])
                 /\ NStream > 1 => \A k \in 1 .. Len(p[st]) : SeqAt(b, p[st][k]) = st}

\* Tokens that have a sequence in common, and a split that hands out the tokens of each
\* sequence in their order.
Kin(b, p, q) == b[p] \cap b[q] # {}
InTurn(b, parts) ==
  \A l \in 1 .. Len(parts) : \A q \in Indices(parts[l]), p \in Places(b) : Kin(b, p, q) =>
    /\ p < q => \E j \in 1 .. l : p \in Indices(parts[j])
    /\ \A j \in 1 .. l - 1 : p \in Indices(parts[j]) => p < q

\* Ubatches: for some streams, tokens of sequences of those streams.
UbatchSet ==
  {u \in UNION {[D -> NonEmpty(Token)] : D \in SUBSET Streams} :
     \A st \in DOMAIN u : \A k \in 1 .. Len(u[st]) : \A s \in u[st][k].seqs : Stream(s) = st}

-----------------------------------------------------------------------------
(* Slots, and placing a ubatch in all streams. *)

\* v_heads: per stream, where the search for cells begins.
Heads == [Streams -> 0 .. NCells]

\* The cells of all streams, each with sequences of its stream only.
CacheCells ==
  {cs \in [Streams -> GoodCells] :
     \A st \in Streams : \A i \in Cells : \A s \in cs[st].seq[i] : Stream(s) = st}

\* A slot for a ubatch.
SlotFor(u) == {slot \in [DOMAIN u -> Seq(Cells)] :
                 \A st \in DOMAIN u : Len(slot[st]) = Len(u[st]) /\ NoRepeat(slot[st])}

\* Slots: for some streams, cells of it.
SlotSet == UNION {[D -> NonEmpty(Cells)] : D \in SUBSET Streams}

\* Cell i of stream st is in the slot.
InSlot(slot, st, i) == st \in DOMAIN slot /\ i \in CellsOf(slot[st])

\* All cells of the slot may be overwritten.
AllUsable(cs, slot) == \A st \in DOMAIN slot : \A i \in CellsOf(slot[st]) : CanUse(cs[st], i)

\* No cell of the slot has a shift pending.
Unshifted(cs, slot) == \A st \in DOMAIN slot : \A i \in CellsOf(slot[st]) : cs[st].shift[i] = 0

\* Of each cell, some of what it had, and no other shift.
CellLess(a, c, i) ==
  /\ a.seq[i] \subseteq c.seq[i]
  /\ a.pos[i] \in {-1, c.pos[i]}
  /\ a.shift[i] \in {0, c.shift[i]}
  /\ NSwa = 0 /\ a.pos[i] # -1 => a.shift[i] = c.shift[i]

\* The same of all cells of all streams.
Less(a, c) ==
  \A st \in Streams : /\ \A i \in Cells : CellLess(a[st], c[st], i)
                      /\ a[st].has_shift = c[st].has_shift

-----------------------------------------------------------------------------
(* Undoing one ubatch. *)

\* The cells and heads that prepare works on, and an entry of its stack.
Half  == [cs : CacheCells, hs : Heads]

\* What prepare remembers of a ubatch: its slot and what was there before.
Entry == [slot : SlotSet, cs : CacheCells, hs : Heads]

-----------------------------------------------------------------------------
(* The trial placement of prepare. *)

\* prepare after some of the ubatches us, from the cells first: the entries of
\* its stack lead back to them, the newest one first.
AccSet == [ok : BOOLEAN, cs : CacheCells, hs : Heads, stack : Seq(Entry)]

\* The cells before the newest k of the entries.
Back(acc, k) == IF k = 0 THEN acc.cs ELSE acc.stack[k].cs

\* Entry k and the ubatch of its slot lead to the cells after it.
Link(acc, us, k) ==
  LET e == acc.stack[k]
      u == us[Len(acc.stack) + 1 - k]
  IN  /\ e.slot \in SlotFor(u) /\ AllUsable(e.cs, e.slot)
      /\ Back(acc, k - 1) = ApplyCells(e.cs, e.slot, u)
      /\ Unshifted(acc.cs, e.slot)

\* After at most n of the ubatches: all n, just if every slot was found.
Accs(first, us, n) ==
  {acc \in AccSet :
     /\ Len(acc.stack) <= n
     /\ acc.ok <=> Len(acc.stack) = n
     /\ Back(acc, Len(acc.stack)) = first
     /\ \A k \in 1 .. Len(acc.stack) : Link(acc, us, k)}

-----------------------------------------------------------------------------
(* Undoing all of it. *)

\* The same positions and sequences, cell by cell.
SameCells(a, c) ==
  \A st \in Streams, i \in Cells : a[st].pos[i] = c[st].pos[i] /\ a[st].seq[i] = c[st].seq[i]

\* Where undoing j entries leads.
Undone(acc, j) ==
  {a \in Half : /\ Less(a.cs, Back(acc, j))
                /\ NSwa = 0 => SameCells(a.cs, Back(acc, j))
                /\ \A k \in 1 .. Len(acc.stack) : Unshifted(a.cs, acc.stack[k].slot)}

-----------------------------------------------------------------------------
(* Truncating what an aborted decode left. *)

\* No cell has a token of u left for sequence s.
Clean(d, u, s) ==
  \A x \in TokensOf(u) : FirstSeq(x) = s => \A i \in Cells : d.pos[i] = x.pos => s \notin d.seq[i]

\* Position p is before every token of u of which s is the first sequence.
Ahead(u, s, p) == \A x \in TokensOf(u) : FirstSeq(x) = s => p < x.pos

\* Of the sequences in S, the cells d have left of c what is before u.
Cut(c, d, u, S) ==
  \A i \in Cells, s \in Seqs :
    s \in d.seq[i] <=> s \in c.seq[i] /\ (s \in S => Ahead(u, s, c.pos[i]))

-----------------------------------------------------------------------------
(* The inductive invariant, and the calls that take away. *)

\* What K holds of a cell: its token, and by how much it is rotated.
Datum  == [tok : Toks, rot : Int]

\* The K data of all cells.
Stores == [Streams -> [Cells -> Datum]]

\* A ubatch with the slot it is going to.
Job    == {e \in [slot : SlotSet, ubatch : UbatchSet] : e.slot \in SlotFor(e.ubatch)}

\* A saved state: the cells of one sequence.
SavedCells == Seq([pos : Positions, tok : Toks, rot : Int])

\* The inductive invariant: types, exact summaries, and no copy left to do while
\* ubatches are.
CacheInv ==
  /\ v_cells \in CacheCells /\ v_heads \in Heads
  /\ sc_info \in Seq(Streams \X Streams)
  /\ store \in Stores
  /\ todo \in Seq(Job)
  /\ todo # <<>> => sc_info = <<>>
  /\ saved \in SavedCells

\* Every stream only thinned.
AllThinned(cs, new) == \A st \in Streams : new[st] \in Thinned(cs[st])

-----------------------------------------------------------------------------
(* Calls that copy and move. *)

\* A cell that holds something held it before, as far from its shift.
SameDrift(cs, new) ==
  \A st \in Streams, i \in Cells :
    new[st].pos[i] # -1 => /\ cs[st].pos[i] # -1
                           /\ new[st].pos[i] - new[st].shift[i] = cs[st].pos[i] - cs[st].shift[i]

-----------------------------------------------------------------------------
(* Doing the delayed copies and shifts. *)

\* The store once the copies q are done.
CopiedBy(from, q) ==
  LET copied[k \in 0 .. Len(q)] == IF k = 0 THEN from ELSE Copied(copied[k - 1], q[k])
  IN  copied[Len(q)]

-----------------------------------------------------------------------------
(* What holds of the cache. *)

\* Where the rotations are right: TLC refutes RotationExact without any of these,
\* when positions are divided, states are saved before an update is done, prepare
\* overwrites cells whose K-shift has failed, or an aborted ubatch had tokens of
\* several sequences.
RotationAssumption ==
  /\ Divisors = {}
  /\ Saves => ~EarlySaves
  /\ NSwa = 0 \/ ~ShiftFails
  /\ Uncoupled \/ ~ComputeFails

\* Every K is rotated by its position, and what was saved was.
Rotated(cs, data) ==
  \A st \in Streams, i \in Cells :
    cs[st].pos[i] # -1 => data[st][i].rot + cs[st].shift[i] = cs[st].pos[i]

\* So was what a saved state has.
SavedRotated == \A k \in DOMAIN saved : saved[k].rot = saved[k].pos

\* The part of the invariant that is about rotations.
RotationInv == RotationExact /\ SavedRotated

-----------------------------------------------------------------------------
(* Slots, and decodes that find none. *)

\* The cells of all slots to come are empty, and each is of one slot only.
SlotsFree ==
  \A k \in 1 .. Len(todo), st \in Streams, i \in Cells :
    InSlot(todo[k].slot, st, i) =>
      /\ IsEmpty(v_cells[st], i)
      /\ \A j \in 1 .. Len(todo) : InSlot(todo[j].slot, st, i) => j = k

-----------------------------------------------------------------------------
(* What a sequence has before and after a ubatch. *)

\* Sequence s has position p in the cells.
Holds(cs, s, p) == \E i \in Cells : s \in cs[Stream(s)].seq[i] /\ cs[Stream(s)].pos[i] = p

\* Ubatch u has a token of s for position p.
Brings(u, s, p) == \E x \in TokensOf(u) : s \in x.seqs /\ x.pos = p

\* Position p of s is not purged when u is placed.
Spared(cs, slot, u, s, p) ==
  Stream(s) \in DOMAIN u => p > UpTo(cs[Stream(s)], slot[Stream(s)])[s]

\* Positions without a gap.
Convex(P) == \A p, q \in P : \A r \in p .. q : r \in P

\* The positions a sequence has.
Has(cs, s) == {p \in Positions : Holds(cs, s, p)}

\* What u brings of s comes after all that s has, and each position after one that is
\* there or that u brings, too.
Follows(cs, u, s) ==
  \A p \in Positions : Brings(u, s, p) =>
    /\ \A q \in Positions : Holds(cs, s, q) => q < p
    /\ p = 0 \/ Holds(cs, s, p - 1) \/ Brings(u, s, p - 1)

-----------------------------------------------------------------------------
(* The ubatches of a batch follow what the cache has, and one another. *)

\* What the ubatches us bring of a sequence comes after all that it has in the cells
\* and in earlier ubatches, without a gap.
Appends(cs, us) ==
  \A l \in 1 .. Len(us), s \in Seqs, p \in Positions : Brings(us[l], s, p) =>
    /\ \A q \in Positions : Holds(cs, s, q) => q < p
    /\ \A j \in 1 .. l - 1, q \in Positions : Brings(us[j], s, q) => q < p
    /\ p = 0 \/ Holds(cs, s, p - 1) \/ \E j \in 1 .. l : Brings(us[j], s, p - 1)

\* The split of a batch.
Split(b) == IF NStream = 1 THEN SimpleSplit(b) ELSE EqualSplit(b)

\* The token that place k of a batch becomes.
TokenOf(cs, b, t, k) == [pos |-> PosAt(cs, b, k, SeqAt(b, k)), seqs |-> b[k], tok |-> t]

\* The ubatches of the queue q.
QueueOf(q) == [k \in 1 .. Len(q) |-> q[k].ubatch]

\* Without a window, or with one ubatch per batch and one stream, as in a cache that is
\* kv_unified and has n_batch = n_ubatch.
WindowAssumption == NSwa = 0 \/ (NStream = 1 /\ NUbatch = NBatch)

\* The ubatches that are still to do follow the cells, and one another; with a window
\* there is one at most.
Queued == /\ Appends(v_cells, QueueOf(todo))
          /\ NSwa # 0 => Len(todo) <= 1

\* Cells after a trial of one ubatch: those of the slot are back, and the other ones have
\* lost what was purged.
Trialled(a, cs, slot, u) ==
  \A st \in Streams, i \in Cells :
    LET from == IF InSlot(slot, st, i) THEN cs ELSE ApplyCells(cs, slot, u)
    IN  a[st].pos[i] = from[st].pos[i] /\ a[st].seq[i] = from[st].seq[i]

-----------------------------------------------------------------------------
(* The tokens of a sequence, as SeqMemory counts them. *)

\* The cells of a stream that hold token t of s at position p.
TokCells(c, data, s, t, p) == {i \in Cells : s \in c.seq[i] /\ c.pos[i] = p /\ data[i].tok = t}

\* What s has in a stream, given its cells and its data.
Mem(c, data, s) == [t \in Toks |-> [p \in Positions |-> Cardinality(TokCells(c, data, s, t, p))]]

\* The data as the pending stream copies will leave them.
Data == CopiedBy(store, sc_info)

\* Cells that have r in d where c has s, with the same positions and tokens.
SameTokens(c, data, s, d, new, r) ==
  \A i \in Cells : /\ r \in d.seq[i] <=> s \in c.seq[i]
                   /\ s \in c.seq[i] => d.pos[i] = c.pos[i] /\ new[i].tok = data[i].tok

\* Cells that have s in d where c has it, but for the positions P.
CutTokens(c, data, s, d, new, P) ==
  \A i \in Cells : /\ s \in d.seq[i] <=> s \in c.seq[i] /\ c.pos[i] \notin P
                   /\ s \in d.seq[i] => d.pos[i] = c.pos[i] /\ new[i].tok = data[i].tok

\* The cells of s with a position in P are those in [p0, p1).
Within(c, s, P, p0, p1) ==
  \A i \in Cells : s \in c.seq[i] => (c.pos[i] \in P <=> c.pos[i] >= p0 /\ c.pos[i] < p1)

\* In d the cells of s at positions P are cells of t as well, which had none of them in c.
SharedTokens(c, s, t, d, P) ==
  \A i \in Cells :
    LET hit == s \in c.seq[i] /\ c.pos[i] \in P
    IN  /\ hit => t \notin c.seq[i]
        /\ d.pos[i] = c.pos[i]
        /\ d.seq[i] = IF hit THEN c.seq[i] \cup {t} ELSE c.seq[i]

\* g adds up f over the subsets of S.
AddsUp(g, f, S) ==
  /\ g = [T \in SUBSET S |-> g[T]] /\ g[{}] = 0
  /\ \A T \in SUBSET S : \A x \in T : g[T] = f[x] + g[T \ {x}]

\* In d the tokens of s at positions P have gone to to[p], if that is a position at all,
\* and its other ones are where they are in c.
MovedTokens(c, s, d, P, to) ==
  \A i \in Cells :
    IF s \in c.seq[i] /\ c.pos[i] \in P
    THEN \/ s \in d.seq[i] /\ d.pos[i] = to[c.pos[i]]
         \/ s \notin d.seq[i] /\ to[c.pos[i]] \notin Positions
    ELSE d.pos[i] = c.pos[i] /\ (s \in d.seq[i] <=> s \in c.seq[i])

\* The positions of P that go to p.
Origins(P, to, p) == {q \in P : to[q] = p}

\* A call that moves the tokens of one sequence does what SeqMemory says, when no other
\* sequence has a cell of them.
MovesTo(s, P, to) ==
  ([q \in Seqs |-> MemOf(q)])' =
    [[q \in Seqs |-> MemOf(q)] EXCEPT ![s] =
       Memory!Join(Memory!At(MemOf(s), Memory!Positions \ P),
         [t \in Toks |-> [p \in Memory!Positions |->
            Memory!SumFunctionOnSet(MemOf(s)[t], Origins(P, to, p))]])]

\* Position p of s can be seen by the token that comes after the last one of s.
InView(c, s, p) == NSwa = 0 \/ p > SeqPosMax(c, s) + 1 - NSwa

\* In d sequence s has nothing new, and what was in view in c.
KeptTokens(c, data, s, d, new) ==
  \A i \in Cells :
    /\ s \in d.seq[i] => s \in c.seq[i] /\ d.pos[i] = c.pos[i] /\ new[i].tok = data[i].tok
    /\ s \in c.seq[i] /\ InView(c, s, c.pos[i]) => s \in d.seq[i]

\* In d sequence s has what was in view in c and, in cells of J, tokens t for the n positions
\* after the last one.
GrownTokens(c, data, s, d, new, t, n, J) ==
  LET added == SeqPosMax(c, s) + 1 .. SeqPosMax(c, s) + n
  IN  /\ \A i \in Cells : s \in d.seq[i] =>
           IF i \in J THEN d.pos[i] \in added /\ new[i].tok = t
           ELSE s \in c.seq[i] /\ d.pos[i] = c.pos[i] /\ new[i].tok = data[i].tok
      /\ \A i, j \in J : s \in d.seq[i] /\ s \in d.seq[j] /\ d.pos[i] = d.pos[j] => i = j
      /\ \A p \in added : \E i \in J : i \in Cells /\ s \in d.seq[i] /\ d.pos[i] = p
      /\ \A i \in Cells : s \in c.seq[i] /\ InView(c, s, c.pos[i]) => i \notin J /\ s \in d.seq[i]

\* The places K of q hold the members of A, each of them once.
Lists(q, K, A) == A = {q[k] : k \in K} /\ \A j, k \in K : q[j] = q[k] => j = k

\* The tokens of a saved state, for sequence d.
Restored(d) == [k \in DOMAIN saved |-> [pos |-> saved[k].pos, seqs |-> {d}, tok |-> saved[k].tok]]

\* A ubatch as a decode makes it: its tokens are all alike, those of a sequence have
\* positions of their own, and these are within the size of a batch.
Plain(u) ==
  /\ \E t \in Toks : \A x \in TokensOf(u) : x.tok = t
  /\ \A st \in DOMAIN u : \A j, k \in 1 .. Len(u[st]) : \A s \in Seqs :
       s \in u[st][j].seqs /\ s \in u[st][k].seqs /\ u[st][j].pos = u[st][k].pos => j = k
  /\ \A s \in Seqs, p, q \in Positions : Brings(u, s, p) /\ Brings(u, s, q) => p - q < NBatch

\* The ubatches to do are plain.
PlainJobs == \A k \in 1 .. Len(todo) : Plain(todo[k].ubatch)

\* With a window, the ubatch to do has a slot of usable cells.
WindowSlot == NSwa # 0 /\ todo # <<>> => AllUsable(v_cells, Head(todo).slot)

-----------------------------------------------------------------------------
(* The cache keeps the promises of SeqMemory. *)

\* What callers and the setup must grant: with a window, one ubatch per batch; states are
\* saved and loaded when nothing is pending; shared cells are not shifted; no sequence is
\* kept in a cache with several streams; and tokens that are shared by sequences are not
\* left to a computation that fails.
PromiseAssumption ==
  /\ WindowAssumption
  /\ NStream = 1 \/ ~KeepAcross
  /\ Saves => ~EarlySaves
  /\ ~SharedShift
  /\ Uncoupled \/ ~ComputeFails

\* What holds of the cache between the steps.
PromiseInv ==
  /\ CacheInv /\ (NSwa = 0 => SlotsFree) /\ Queued
  /\ PlainJobs /\ WindowSlot

\* What a step does, call by call.
AsPromised ==
  /\ Clear => Memory!Clear
  /\ \A r \in Ranges : SeqRmAny(r[1], r[2]) => Memory!Remove(Seqs, Span(r))
  /\ \A s \in Seqs :
       /\ SeqKeep(s) => Memory!Keep(s)
       /\ SaveSeq(s) => Memory!Save(s)
       /\ LoadSeq(s) => IF ret' = 0 THEN Memory!Load(s) ELSE Memory!LoadFails(s)
       /\ \A d \in Seqs : SeqCpStream(s, d) => Memory!CopyOver(s, d)
       /\ \A r \in Ranges :
            /\ SeqRm(s, r[1], r[2]) => Memory!Remove({s}, Span(r))
            /\ \A d \in Seqs :
                 SeqCpShare(s, d, r[1], r[2]) => Memory!CopyInto(s, d, Span(r))
            /\ \A d \in Deltas : SeqAdd(s, r[1], r[2], d) =>
                 Memory!Move(s, Span(r), LAMBDA p : p + d)
            /\ \A d \in Divisors : SeqDiv(s, r[1], r[2], d) =>
                 Memory!Move(s, Span(r), LAMBDA p : p \div d)
  /\ DecodeStep => \E t \in Toks : Memory!Extend(t)

=============================================================================
