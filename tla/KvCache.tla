------------------------------ MODULE KvCache ------------------------------
(***************************************************************************)
(* llama_kv_cache (src/llama-kv-cache.cpp) with the parts of llama_decode  *)
(* that drive it (src/llama-context.cpp).  One action per call of the      *)
(* memory API; a decode is one action that updates the cache and prepares  *)
(* the batch, then one action per ubatch, which is computed or aborted.    *)
(*                                                                         *)
(* The K and V tensors are abstracted to what the properties need: of each *)
(* cell, which token it holds and by which position its K has been rotated *)
(* (RoPE).  A context is used by one thread, so a memory call never falls  *)
(* between the steps of a decode.                                          *)
(***************************************************************************)
EXTENDS KvCells, Sequences, SequencesExt

CONSTANTS NStream,    \* 1 (kv_unified) or NSeqs: the streams of the cache
          NSwa,       \* size of the sliding window, 0 for LLAMA_SWA_TYPE_NONE
          NBatch, NUbatch,  \* n_batch and n_ubatch
          SeqSets,    \* the sequence sets callers give to tokens
          Toks,       \* token contents
          Ranges,     \* positions <<p0, p1>> of calls, with p0, p1 < 0 replaced
          Deltas, Divisors, \* arguments of seq_add and seq_div
          MaxCopies,  \* bound: pending stream copies
          KeepAcross,  \* TRUE: callers keep a sequence of a cache with
                       \* several streams
          SharedShift, \* TRUE: callers shift cells that sequences share
          ShiftFails,  \* TRUE: the graph of a K-shift may fail
          Saves,       \* TRUE: callers save and load the states of sequences
          EarlySaves,  \* TRUE: also while copies or a shift are pending, or when
                       \* positions were divided
          ComputeFails \* TRUE: the graph of a ubatch may fail or be aborted

ASSUME CacheAssumption ==
  /\ NStream \in {1, NSeqs}
  /\ NSwa \in Nat /\ NBatch \in Nat \ {0} /\ NUbatch \in 1 .. NBatch
  /\ SeqSets \subseteq SUBSET Seqs /\ {} \notin SeqSets /\ Toks # {}
  \* A batch for several streams has no coupled sequences.
  /\ NStream > 1 => \A S \in SeqSets : Cardinality(S) = 1
  /\ \A r \in Ranges : r \in Positions \X (1 .. MaxPos + 1) /\ r[1] < r[2]
  /\ Deltas \subseteq Int \ {0} /\ Divisors \subseteq Nat \ {0, 1}
  /\ KeepAcross \in BOOLEAN /\ SharedShift \in BOOLEAN
  /\ ShiftFails \in BOOLEAN /\ ComputeFails \in BOOLEAN
  /\ Saves \in BOOLEAN /\ EarlySaves \in BOOLEAN

VARIABLES v_cells,  \* per stream: its llama_kv_cells
          v_heads,  \* per stream: where the search for a slot starts
          sc_info,  \* stream copies to do at the next update: <<src, dst>>
          store,    \* per stream and cell: the token and rotation of its K
          todo,     \* ubatches of the current decode with their slots
          saved,    \* the cells of a sequence whose state was saved
          ret       \* what llama_decode returned; 0 or, if loading a state has
                    \* failed, LoadFailed after any other call

vars == <<v_cells, v_heads, sc_info, store, todo, saved, ret>>

LoadFailed == 3

Streams   == 0 .. NStream - 1
Stream(s) == IF NStream = 1 THEN 0 ELSE s
Inf       == MaxPos + 1   \* std::numeric_limits<llama_pos>::max()
NoTok     == [tok |-> CHOOSE t \in Toks : TRUE, rot |-> 0]

Init ==
  /\ v_cells = [st \in Streams |-> NoCells]
  /\ v_heads = [st \in Streams |-> 0]
  /\ sc_info = <<>>
  /\ store = [st \in Streams |-> [i \in Cells |-> NoTok]]
  /\ todo = <<>> /\ saved = <<>>
  /\ ret = 0

(***************************************************************************)
(* The memory API.                                                         *)
(***************************************************************************)

\* head moves down to the first cell that became empty.
HeadAfter(head, old, new) ==
  LET freed == {i \in Cells : ~IsEmpty(old, i) /\ IsEmpty(new, i)}
  IN  IF \E i \in freed : i < head
      THEN CHOOSE i \in freed : \A j \in freed : i <= j
      ELSE head

SetCellsOf(st, c) ==
  /\ v_cells' = [v_cells EXCEPT ![st] = c]
  /\ v_heads' = [v_heads EXCEPT ![st] = HeadAfter(@, v_cells[st], c)]

\* clear(false); the cleared data are never read again.
Clear ==
  /\ todo = <<>>
  /\ v_cells' = [st \in Streams |-> NoCells]
  /\ v_heads' = [st \in Streams |-> 0]
  /\ ret' = 0 /\ UNCHANGED <<sc_info, store, todo, saved>>

SeqRm(s, p0, p1) ==
  /\ todo = <<>>
  /\ SetCellsOf(Stream(s), SeqRmCells(v_cells[Stream(s)], s, p0, p1))
  /\ ret' = 0 /\ UNCHANGED <<sc_info, store, todo, saved>>

\* seq_rm with a negative sequence id.
InRange(c, p0, p1) == {i \in Cells : PosIn(c, i, p0, p1)}
SeqRmAny(p0, p1) ==
  LET c(st) == RmCells(v_cells[st], InRange(v_cells[st], p0, p1))
  IN  /\ todo = <<>>
      /\ v_cells' = [st \in Streams |-> c(st)]
      /\ v_heads' = [st \in Streams |-> HeadAfter(v_heads[st], v_cells[st], c(st))]
      /\ ret' = 0 /\ UNCHANGED <<sc_info, store, todo, saved>>

\* Within a stream the cells are shared.  seq_add may be called only for cells
\* without the sequence, which callers ensure by emptying d.
SeqCpShare(s, d, p0, p1) ==
  LET c == v_cells[Stream(s)]
  IN  /\ todo = <<>>
      /\ s # d /\ Stream(s) = Stream(d)
      /\ \A i \in SeqHits(c, s, p0, p1) : d \notin c.seq[i]
      /\ v_cells' = [v_cells EXCEPT ![Stream(s)] = SeqCpCells(c, s, d, p0, p1)]
      /\ ret' = 0 /\ UNCHANGED <<v_heads, sc_info, store, todo, saved>>

\* Between streams the metadata is copied now and the data at the next update.
\* Mutant: the pending shift of a cell is not copied.
ImportedUnshifted(c, s, d) ==
  LET I == {i \in Cells : s \in c.seq[i]}
      c1 == [NoCells EXCEPT !.pos = [i \in Cells |-> IF i \in I THEN c.pos[i] ELSE -1],
                            !.seq = [i \in Cells |-> IF i \in I THEN {d} ELSE {}],
                            !.used = I]
  IN  [c1 EXCEPT !.seq_pos = Counts(c1, I)]
Imported(c, s, d) ==
  LET I  == {i \in Cells : s \in c.seq[i]}
      c1 == [NoCells EXCEPT
               !.pos   = [i \in Cells |-> IF i \in I THEN c.pos[i] ELSE -1],
               !.shift = [i \in Cells |-> IF i \in I THEN c.shift[i] ELSE 0],
               !.seq   = [i \in Cells |-> IF i \in I THEN {d} ELSE {}],
               !.used  = I,
               !.has_shift = \E i \in I : c.shift[i] # 0]
  IN  [c1 EXCEPT !.seq_pos = Counts(c1, I)]
\* Mutant: the cells of d are not reset before.
SeqCpStreamKeeps(s, d) ==
  LET old == v_cells[Stream(d)]
      new == Imported(v_cells[Stream(s)], s, d)
      both == [new EXCEPT
        !.pos = [i \in Cells |-> IF i \in new.used THEN @[i] ELSE old.pos[i]],
        !.seq = [i \in Cells |-> IF i \in new.used THEN @[i] ELSE old.seq[i]],
        !.used = @ \cup old.used]
  IN  /\ todo = <<>>
      /\ Stream(s) # Stream(d) /\ Len(sc_info) < MaxCopies
      /\ sc_info' = Append(sc_info, <<Stream(s), Stream(d)>>)
      /\ v_cells' = [v_cells EXCEPT ![Stream(d)] =
                      [both EXCEPT !.seq_pos = Counts(both, Cells)]]
      /\ v_heads' = [v_heads EXCEPT ![Stream(d)] = v_heads[Stream(s)]]
      /\ ret' = 0 /\ UNCHANGED <<store, todo, saved>>
SeqCpStream(s, d) ==
  /\ todo = <<>>
  /\ Stream(s) # Stream(d) /\ Len(sc_info) < MaxCopies
  /\ sc_info' = Append(sc_info, <<Stream(s), Stream(d)>>)
  /\ v_cells' = [v_cells EXCEPT ![Stream(d)] = Imported(v_cells[Stream(s)], s, d)]
  /\ v_heads' = [v_heads EXCEPT ![Stream(d)] = v_heads[Stream(s)]]
  /\ ret' = 0 /\ UNCHANGED <<store, todo, saved>>

\* Only the stream of s is cleaned: with several streams the other sequences
\* keep their tokens.
SeqKeep(s) ==
  /\ todo = <<>>
  /\ NStream = 1 \/ KeepAcross
  /\ SetCellsOf(Stream(s), SeqKeepCells(v_cells[Stream(s)], s))
  /\ ret' = 0 /\ UNCHANGED <<sc_info, store, todo, saved>>

SeqAdd(s, p0, p1, shift) ==
  LET c   == v_cells[Stream(s)]
      hit == SeqHits(c, s, p0, p1)
      new == PosAddCells(c, hit, shift)
      freed == {i \in hit : IsEmpty(new, i)}
  IN  /\ todo = <<>>
      /\ \A i \in hit : c.pos[i] + shift <= MaxPos
      /\ SharedShift \/ \A i \in hit : c.seq[i] = {s}
      /\ v_cells' = [v_cells EXCEPT ![Stream(s)] = new]
      /\ v_heads' = [v_heads EXCEPT ![Stream(s)] =
           IF freed = {} THEN 0 ELSE CHOOSE i \in freed : \A j \in freed : i <= j]
      /\ ret' = 0 /\ UNCHANGED <<sc_info, store, todo, saved>>

SeqDiv(s, p0, p1, d) ==
  LET c   == v_cells[Stream(s)]
      hit == SeqHits(c, s, p0, p1)
  IN  /\ todo = <<>>
      /\ SharedShift \/ \A i \in hit : c.seq[i] = {s}
      /\ EarlySaves \/ saved = <<>>
      /\ v_cells' = [v_cells EXCEPT ![Stream(s)] = PosDivCells(c, hit, d)]
      /\ ret' = 0 /\ UNCHANGED <<v_heads, sc_info, store, todo, saved>>

(***************************************************************************)
(* Update: the pending stream copies, in order, and then the K-shift.      *)
(***************************************************************************)
Copied(m, cp) == [m EXCEPT ![cp[2]] = m[cp[1]]]
CopiedStore(from) ==
  LET copied[k \in 0 .. Len(sc_info)] ==
        IF k = 0 THEN from ELSE Copied(copied[k - 1], sc_info[k])
  IN  copied[Len(sc_info)]

\* shifted: whether the graph of the K-shift was computed.  The data of empty
\* cells are never read again, and forgotten here.
HasShift == \E st \in Streams : v_cells[st].has_shift
UpdatedStore(shifted) ==
  LET copied   == CopiedStore(store)
      by(st, i) == IF shifted THEN v_cells[st].shift[i] ELSE 0
  IN  [st \in Streams |-> [i \in Cells |->
         IF IsEmpty(v_cells[st], i) THEN NoTok
         ELSE [copied[st][i] EXCEPT !.rot = @ + by(st, i)]]]
UpdatedCells(shifted) ==
  IF shifted THEN [st \in Streams |-> ResetShift(v_cells[st])] ELSE v_cells

(***************************************************************************)
(* Batches and ubatches.  A batch is a sequence of tokens, here of the     *)
(* sequence sets they carry, and each token gets the position after the    *)
(* last one of its sequences.                                              *)
(***************************************************************************)
Before(b, k, s)  == Cardinality({j \in 1 .. k - 1 : s \in b[j]})
PosAt(cs, b, k, s) == SeqPosMax(cs[Stream(s)], s) + 1 + Before(b, k, s)
PosMin(cs, s) == SeqPosMin(cs[Stream(s)], s)
PosMax(cs, s) == SeqPosMax(cs[Stream(s)], s)

\* llama_batch_allocr::init: the sequences of a token have the same positions
\* in the memory and in the batch.
ValidBatch(cs, b) ==
  \A k \in DOMAIN b : \A s, r \in b[k] :
    /\ PosAt(cs, b, k, s) = PosAt(cs, b, k, r)
    /\ PosMin(cs, s) = PosMin(cs, r) /\ PosMax(cs, s) = PosMax(cs, r)
    /\ PosAt(cs, b, k, s) <= MaxPos

\* split_simple: chunks of n_ubatch tokens.
SimpleSplit(b) ==
  [j \in 1 .. (Len(b) + NUbatch - 1) \div NUbatch |->
     [st \in {0} |->
        [k \in 1 .. IF j * NUbatch <= Len(b) THEN NUbatch
                    ELSE Len(b) - (j - 1) * NUbatch |-> (j - 1) * NUbatch + k]]]

\* The j-th smallest of a set of numbers, and the first n in order.
Kth(S, j) == CHOOSE k \in S : Cardinality({i \in S : i < k}) = j - 1
Ascending(S, n) == [j \in 1 .. n |-> Kth(S, j)]

\* split_equal(n_ubatch, true): the sequences s0, s0 + 1, .. that appear in
\* this order in the unused tokens, with equally many tokens each.
SeqAt(b, k) == CHOOSE s \in b[k] : TRUE
Unused(b, used, s) == {k \in DOMAIN b \ used : SeqAt(b, k) = s}
Joined(b, used) ==
  LET first == CHOOSE k \in DOMAIN b \ used : \A j \in DOMAIN b \ used : k <= j
      s0 == SeqAt(b, first)
  IN  {s \in Seqs : s >= s0 /\ s - s0 <= NUbatch /\
         \E at \in [s0 .. s -> DOMAIN b \ used] :
           /\ at[s0] = first
           /\ \A r \in s0 .. s : SeqAt(b, at[r]) = r
           /\ \A r \in s0 .. s - 1 : at[r] < at[r + 1]}
EqualPart(b, used) ==
  LET S    == Joined(b, used)
      room == IF NUbatch \div Cardinality(S) > 1 THEN NUbatch \div Cardinality(S) ELSE 1
      n    == CHOOSE n \in 1 .. room :
                /\ \A s \in S : n <= Cardinality(Unused(b, used, s))
                /\ n = room \/ \E s \in S : n = Cardinality(Unused(b, used, s))
  IN  [s \in S |-> Ascending(Unused(b, used, s), n)]
Indices(u) == UNION {{u[st][k] : k \in DOMAIN u[st]} : st \in DOMAIN u}
SplitOnce(b, acc) ==
  IF acc.used = DOMAIN b THEN acc
  ELSE LET part == EqualPart(b, acc.used)
       IN  [used |-> acc.used \cup Indices(part), parts |-> Append(acc.parts, part)]
EqualSplit(b) ==
  LET split[j \in 0 .. Len(b)] ==
        IF j = 0 THEN [used |-> {}, parts |-> <<>>] ELSE SplitOnce(b, split[j - 1])
  IN  split[Len(b)].parts

\* The ubatches of b: per stream that takes part, its tokens.
Ubatches(cs, b, t) ==
  LET split == IF NStream = 1 THEN SimpleSplit(b) ELSE EqualSplit(b)
      token(k) == [pos |-> PosAt(cs, b, k, SeqAt(b, k)), seqs |-> b[k], tok |-> t]
  IN  [j \in DOMAIN split |->
         [st \in DOMAIN split[j] |->
            [k \in DOMAIN split[j][st] |-> token(split[j][st][k])]]]

(***************************************************************************)
(* Slots for a ubatch.                                                     *)
(***************************************************************************)

\* is_masked_swa, LLAMA_SWA_TYPE_STANDARD.
MaskedSwa(p0, p1) == NSwa > 0 /\ p1 - p0 >= NSwa

\* Mutant: the window ends one position too late.
CanUseEarly(c, i) ==
  IsEmpty(c, i) \/ \E s \in Seqs : c.seq[i] = {s} /\ MaskedSwa(c.pos[i], SeqPosMax(c, s) + 2)
CanUse(c, i) ==
  IsEmpty(c, i) \/ \E s \in Seqs : c.seq[i] = {s} /\ MaskedSwa(c.pos[i], SeqPosMax(c, s) + 1)

\* find_slot(ubatch, false) in one stream: the first n usable cells, searched
\* once around from the head, or from 0 when many cells before it are free.
SearchStart(c, head, n) ==
  IF head > Cardinality(c.used) + 2 * n \/ head >= NCells THEN 0 ELSE head
Around(start, k) == (start + k) % NCells
FindCells(c, head, n) ==
  LET start  == SearchStart(c, head, n)
      usable == {k \in 0 .. NCells - 1 : CanUse(c, Around(start, k))}
  IN  IF Cardinality(usable) < n THEN <<>>
      ELSE [j \in 1 .. n |-> Around(start, Kth(usable, j))]
FindSlot(cs, hs, u) ==
  [st \in DOMAIN u |-> FindCells(cs[st], hs[st], Len(u[st]))]
Found(slot) == \A st \in DOMAIN slot : slot[st] # <<>>

\* The cells of slot idxs take the tokens; then every sequence that lost a
\* cell loses all it has up to that position, so that no hole is left.
CellsOf(idxs) == {idxs[k] : k \in DOMAIN idxs}
\* Mutant: nothing is purged.
LostUpToNone(c, I, s) == -1
LostUpTo(c, I, s) ==
  LET lost == {c.pos[i] : i \in {j \in I : s \in c.seq[j]}}
  IN  IF lost = {} THEN -1 ELSE CHOOSE p \in lost : \A q \in lost : p >= q
Purged(c, upto) ==
  LET gone == [i \in Cells |-> {s \in c.seq[i] : c.pos[i] <= upto[s]}]
      c1   == [c EXCEPT !.seq = gone]
      left == [Emptied(c, {i \in Cells : gone[i] # {} /\ gone[i] = c.seq[i]})
                 EXCEPT !.seq = [i \in Cells |-> c.seq[i] \ gone[i]]]
  IN  [left EXCEPT !.seq_pos = Minus(@, Counts(c1, Cells))]
Placed(c, idxs, toks) ==
  LET I    == CellsOf(idxs)
      over == {i \in I : ~IsEmpty(c, i)}
      at   == [i \in I |-> toks[CHOOSE k \in DOMAIN idxs : idxs[k] = i]]
  IN  Purged(PlaceCells(RmCells(c, over), I, at),
             [s \in Seqs |-> LostUpTo(c, over, s)])
ApplyCells(cs, slot, u) ==
  [st \in Streams |-> IF st \in DOMAIN u THEN Placed(cs[st], slot[st], u[st]) ELSE cs[st]]
ApplyHeads(hs, slot) ==
  [st \in Streams |-> IF st \in DOMAIN slot THEN Last(slot[st]) + 1 ELSE hs[st]]

\* prepare: find a slot for each ubatch and place it, then put the cells of
\* the slots back.  A head comes back from the place of its stream in the
\* slot, which need not be the number of the stream.
TryUbatch(acc, u) ==
  LET slot == FindSlot(acc.cs, acc.hs, u)
  IN  IF ~acc.ok \/ ~Found(slot) THEN [acc EXCEPT !.ok = FALSE]
      ELSE [ok |-> TRUE, cs |-> ApplyCells(acc.cs, slot, u),
            hs |-> ApplyHeads(acc.hs, slot),
            stack |-> <<[slot |-> slot, cs |-> acc.cs, hs |-> acc.hs]>> \o acc.stack]
Tried(cs, hs, us) ==
  LET tried[j \in 0 .. Len(us)] ==
        IF j = 0 THEN [ok |-> TRUE, cs |-> cs, hs |-> hs, stack |-> <<>>]
        ELSE TryUbatch(tried[j - 1], us[j])
  IN  tried[Len(us)]
Nth(slot, st) == Cardinality({r \in DOMAIN slot : r < st})
Undo(acc, e) ==
  [cs |-> [st \in Streams |->
             IF st \in DOMAIN e.slot
             THEN SetCells(acc.cs[st], CellsOf(e.slot[st]), e.cs[st]) ELSE acc.cs[st]],
   hs |-> [st \in Streams |->
             IF st \in DOMAIN e.slot THEN e.hs[Nth(e.slot, st)] ELSE acc.hs[st]]]
\* Mutant: the newest entry of the stack is skipped.
UndoAllButNewest(acc, stack) ==
  LET undone[j \in 0 .. Len(stack)] ==
        IF j <= 1 THEN acc ELSE Undo(undone[j - 1], stack[j])
  IN  undone[Len(stack)]
UndoAll(acc, stack) ==
  LET undone[j \in 0 .. Len(stack)] ==
        IF j = 0 THEN acc ELSE Undo(undone[j - 1], stack[j])
  IN  undone[Len(stack)]

(***************************************************************************)
(* llama_decode.                                                           *)
(***************************************************************************)

\* The update, then prepare: 0 with the ubatches to do, or 1 without.  Without
\* a slot the code updates once more.  There is something left to update only if
\* the graph of the K-shift failed, which leaves has_shift set; the code then
\* shifts and prepares again, which is this action taken again with the same
\* batch.
Decode(b, t, shifted) ==
  LET cs    == UpdatedCells(shifted)
      us    == Ubatches(cs, b, t)
      tried == Tried(cs, v_heads, us)
      slots == Reverse(tried.stack)
      after == UndoAll([cs |-> tried.cs, hs |-> tried.hs], tried.stack)
  IN  /\ todo = <<>>
      /\ ValidBatch(cs, b)
      /\ shifted \in (IF ~HasShift THEN {FALSE} ELSE IF ShiftFails THEN BOOLEAN ELSE {TRUE})
      /\ sc_info' = <<>>
      /\ store' = UpdatedStore(shifted)
      /\ v_cells' = after.cs /\ v_heads' = after.hs
      /\ todo' = IF tried.ok
                 THEN [j \in DOMAIN us |-> [slot |-> slots[j].slot, ubatch |-> us[j]]]
                 ELSE <<>>
      /\ ret' = IF tried.ok THEN 0 ELSE 1
      /\ UNCHANGED saved

Written(slot, u) ==
  [st \in Streams |-> [i \in Cells |->
     IF st \in DOMAIN slot /\ i \in CellsOf(slot[st])
     THEN LET k == CHOOSE k \in DOMAIN slot[st] : slot[st][k] = i
          IN  [tok |-> u[st][k].tok, rot |-> u[st][k].pos]
     ELSE store[st][i]]]

\* process_ubatch: apply_ubatch and the computation, which writes K and V.
ProcessUbatch ==
  /\ todo # <<>>
  /\ LET slot == Head(todo).slot  u == Head(todo).ubatch
     IN  /\ v_cells' = ApplyCells(v_cells, slot, u)
         /\ v_heads' = ApplyHeads(v_heads, slot)
         /\ store' = Written(slot, u)
  /\ todo' = Tail(todo)
  /\ UNCHANGED <<sc_info, saved, ret>>

\* The computation fails or is aborted, with or without K and V written.  Of
\* the first sequence of each token, all from its position on is removed; the
\* other sequences of a token keep it.
FirstSeq(tok) == CHOOSE s \in tok.seqs : \A r \in tok.seqs : s <= r
TokensOf(u) == UNION {{u[st][k] : k \in DOMAIN u[st]} : st \in DOMAIN u}
\* Mutant: the first position of the ubatch stays.
TruncatedLate(c, u, s) ==
  LET P == {x.pos : x \in {y \in TokensOf(u) : FirstSeq(y) = s}}
  IN  IF P = {} THEN c ELSE SeqRmCells(c, s, 1 + CHOOSE p \in P : \A q \in P : p <= q, Inf)
Truncated(c, u, s) ==
  LET P == {x.pos : x \in {y \in TokensOf(u) : FirstSeq(y) = s}}
  IN  IF P = {} THEN c ELSE SeqRmCells(c, s, CHOOSE p \in P : \A q \in P : p <= q, Inf)
TruncatedAll(cs, u) ==
  [st \in Streams |->
     LET left[k \in 0 .. NSeqs] ==
           IF k = 0 THEN cs[st]
           ELSE IF Stream(k - 1) = st THEN Truncated(left[k - 1], u, k - 1)
           ELSE left[k - 1]
     IN  left[NSeqs]]
AbortUbatch ==
  /\ ComputeFails /\ todo # <<>>
  /\ \E written \in BOOLEAN :
       LET slot  == Head(todo).slot  u == Head(todo).ubatch
           cs    == ApplyCells(v_cells, slot, u)
           heads == ApplyHeads(v_heads, slot)
           new   == TruncatedAll(cs, u)
       IN  /\ v_cells' = new
           /\ v_heads' = [st \in Streams |-> HeadAfter(heads[st], cs[st], new[st])]
           /\ store' = IF written THEN Written(slot, u) ELSE store
  /\ todo' = <<>>
  /\ ret' = 2
  /\ UNCHANGED <<sc_info, saved>>

(***************************************************************************)
(* The state of a sequence: its cells as they are, without what the next   *)
(* update would do to them, and back into free cells of any sequence.      *)
(***************************************************************************)
Settled ==
  /\ sc_info = <<>> /\ ~HasShift
  /\ \A st \in Streams, i \in Cells :
       IsEmpty(v_cells[st], i) \/ store[st][i].rot = v_cells[st].pos[i]
MaySave == Saves /\ todo = <<>> /\ (EarlySaves \/ Settled)

\* state_write: the cells of s in the order of the cache.
SaveSeq(s) ==
  LET c    == v_cells[Stream(s)]
      data == store[Stream(s)]
      I     == {i \in Cells : s \in c.seq[i]}
      order == Ascending(I, Cardinality(I))
  IN  /\ MaySave
      /\ saved' = [k \in DOMAIN order |->
                    [pos |-> c.pos[order[k]], tok |-> data[order[k]].tok, rot |-> data[order[k]].rot]]
      /\ ret' = 0 /\ UNCHANGED <<v_cells, v_heads, sc_info, store, todo>>

\* state_read, of a state with cells.  Loading fails when it finds no slot, with
\* the sequence already removed.
RmSeq(c, d) == SeqRmCells(c, d, 0, Inf)
Filled(data, idxs) ==
  [i \in Cells |-> IF i \in CellsOf(idxs)
                   THEN LET k == CHOOSE k \in DOMAIN idxs : idxs[k] = i
                        IN  [tok |-> saved[k].tok, rot |-> saved[k].rot]
                   ELSE data[i]]
\* c: the cells of the stream when the slot is searched.
LoadOver(d, c) ==
  LET st    == Stream(d)
      head  == HeadAfter(v_heads[st], v_cells[st], c)
      toks  == [k \in DOMAIN saved |-> [pos |-> saved[k].pos, seqs |-> {d}, tok |-> saved[k].tok]]
      idxs  == FindCells(c, head, Len(saved))
  IN  /\ MaySave /\ saved # <<>>
      /\ v_cells' = [v_cells EXCEPT ![st] = IF idxs = <<>> THEN c ELSE Placed(c, idxs, toks)]
      /\ v_heads' = [v_heads EXCEPT ![st] = IF idxs = <<>> THEN head ELSE Last(idxs) + 1]
      /\ store' = [store EXCEPT ![st] = Filled(@, idxs)]
      /\ ret' = IF idxs = <<>> THEN LoadFailed ELSE 0
      /\ UNCHANGED <<sc_info, todo, saved>>
\* Mutant: the sequence keeps what it had.
LoadSeqKeeps(d) == LoadOver(d, v_cells[Stream(d)])
LoadSeq(d) == LoadOver(d, RmSeq(v_cells[Stream(d)], d))

Batches == UNION {[1 .. n -> SeqSets] : n \in 1 .. NBatch}

Next ==
  \/ Clear
  \/ \E s \in Seqs, r \in Ranges : SeqRm(s, r[1], r[2])
  \/ \E r \in Ranges : SeqRmAny(r[1], r[2])
  \/ \E s, d \in Seqs, r \in Ranges : SeqCpShare(s, d, r[1], r[2])
  \/ \E s, d \in Seqs : SeqCpStream(s, d)
  \/ \E s \in Seqs : SeqKeep(s)
  \/ \E s \in Seqs, r \in Ranges, d \in Deltas : SeqAdd(s, r[1], r[2], d)
  \/ \E s \in Seqs, r \in Ranges, d \in Divisors : SeqDiv(s, r[1], r[2], d)
  \/ \E b \in Batches, t \in Toks, shifted \in BOOLEAN : Decode(b, t, shifted)
  \/ ProcessUbatch
  \/ AbortUbatch
  \/ \E s \in Seqs : SaveSeq(s) \/ LoadSeq(s)

Spec == Init /\ [][Next]_vars

(***************************************************************************)
(* Properties.                                                             *)
(***************************************************************************)

\* Types; heads stay within the cells, and with several streams a cell holds
\* only the sequence of its stream.
TypeOK ==
  /\ v_cells \in [Streams -> CellsType]
  /\ v_heads \in [Streams -> 0 .. NCells]
  /\ \A k \in DOMAIN sc_info : sc_info[k] \in Streams \X Streams
  /\ \A st \in Streams, i \in Cells :
       /\ store[st][i].tok \in Toks /\ store[st][i].rot \in Int
       /\ \A s \in v_cells[st].seq[i] : Stream(s) = st
  /\ \A k \in DOMAIN saved : saved[k].pos \in Positions /\ saved[k].tok \in Toks

\* The summaries of llama_kv_cells, which each operation adjusts cell by cell,
\* stay what a recount gives: the used cells, whether a shift is pending, and
\* how often each sequence has each position, on which seq_pos_min and
\* seq_pos_max and with them every decode rely (seq_pos_dec, seq_pos_inc).
CellsExact == \A st \in Streams : Exact(v_cells[st])

\* Once the pending stream copies and the pending shift of a cell are applied,
\* its K is rotated by exactly the position the cell claims, whatever was
\* added, moved, copied, undone, saved and loaded in between.
RotationExact ==
  \A st \in Streams, i \in Cells :
    ~IsEmpty(v_cells[st], i) =>
      CopiedStore(store)[st][i].rot + v_cells[st].shift[i] = v_cells[st].pos[i]

\* The slots that prepare found on tentatively placed ubatches are still right
\* when the ubatch is applied to the restored cells: each cell is empty or out
\* of the window of the only sequence that has it.  In a cache with a window
\* this fails with batches of several ubatches: what the trial purged is lost.
SlotUsable ==
  todo # <<>> =>
    \A st \in DOMAIN Head(todo).slot :
      \A i \in CellsOf(Head(todo).slot[st]) : CanUse(v_cells[st], i)

\* Placing a ubatch leaves no hole, nor does aborting it: a sequence with all
\* positions from its first to its last one still has them all after each ubatch
\* of a decode (apply_ubatch: "we want to preserve the invariant that all
\* positions between [pos_min, pos_max] for each sequence will be present in the
\* cache").
PosHeld(s)     == {p \in Positions : \E i \in Cells : s \in v_cells[Stream(s)].seq[i] /\ v_cells[Stream(s)].pos[i] = p}
Contiguous(s) == \A p, q \in PosHeld(s) : \A r \in p .. q : r \in PosHeld(s)
DecodeStep    == todo # <<>> \/ todo' # <<>>
DecodeLeavesNoHole ==
  [][todo # <<>> => \A s \in Seqs : Contiguous(s) => Contiguous(s)']_vars

\* The cache implements what llama.h says of the sequences: a call on one
\* sequence leaves the tokens of all others alone, copies are copies, although
\* cells are shared and stream copies are delayed, and a decode appends its
\* tokens and loses none that could still be seen.
MemOf(s) ==
  LET c    == v_cells[Stream(s)]
      data == CopiedStore(store)[Stream(s)]
  IN  [t \in Toks |-> [p \in Positions |->
         Cardinality({i \in Cells : s \in c.seq[i] /\ c.pos[i] = p /\ data[i].tok = t})]]
SavedMem ==
  [t \in Toks |-> [p \in Positions |->
     Cardinality({k \in DOMAIN saved : saved[k].pos = p /\ saved[k].tok = t})]]
Memory == INSTANCE SeqMemory
            WITH mem <- [s \in Seqs |-> MemOf(s)], kept <- SavedMem, LastPosition <- MaxPos,
                 Window <- NSwa, MaxRun <- NBatch, OneStream <- (NStream = 1)
ImplementsMemory == Memory!Spec

\* Each call does to the sequences what llama.h says of that call, not only what
\* it says of some call: seq_rm removes, seq_cp copies, a state that was saved
\* comes back as it was, into any sequence, and so on, while a decode and its
\* ubatches only append and forget.
Span(r) == r[1] .. r[2] - 1
CallsAsPromised ==
  [][/\ Clear => Memory!Clear
     /\ \A r \in Ranges : SeqRmAny(r[1], r[2]) => Memory!Remove(Seqs, Span(r))
     /\ \A s \in Seqs :
          /\ SeqKeep(s) => Memory!Keep(s)
          /\ SaveSeq(s) => Memory!Save(s)
          /\ LoadSeq(s) => IF ret' = 0 THEN Memory!Load(s) ELSE Memory!LoadFails(s)
          /\ \A d \in Seqs : SeqCpStream(s, d) => Memory!CopyOver(s, d)
          /\ \A r \in Ranges :
               /\ SeqRm(s, r[1], r[2]) => Memory!Remove({s}, Span(r))
               /\ \A d \in Seqs :
                    SeqCpShare(s, d, r[1], r[2]) => Memory!CopyInto(s, d, Span(r))
               /\ \A d \in Deltas : SeqAdd(s, r[1], r[2], d) =>
                    Memory!Move(s, Span(r), LAMBDA p : p + d)
               /\ \A d \in Divisors : SeqDiv(s, r[1], r[2], d) =>
                    Memory!Move(s, Span(r), LAMBDA p : p \div d)
     /\ DecodeStep => \E t \in Toks : Memory!Extend(t)]_vars

\* A decode that reports "no slot" (1) leaves every sequence as it was
\* (llama.h: "the memory state is restored to the state before this call").
NoSlotRestores == [][ret' = 1 => \A s \in Seqs : MemOf(s)' = MemOf(s)]_vars

\* A ubatch that fails or is aborted leaves nothing of itself: every sequence
\* is what it was after the ubatch before ("remove all positions of that ubatch
\* from the memory module").
AbortRestores == [][ret' = 2 => \A s \in Seqs : MemOf(s)' = MemOf(s)]_vars
=============================================================================
