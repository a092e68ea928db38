------------------------------ MODULE KvCells ------------------------------
(***************************************************************************)
(* llama_kv_cells (src/llama-kv-cells.h): the metadata of the cells of one *)
(* stream of the KV cache, and the loops of llama_kv_cache over it.        *)
(*                                                                         *)
(* A record c stands for a llama_kv_cells: pos, shift and seq per cell,    *)
(* and three summaries the code maintains step by step next to them: the   *)
(* set used, the counts seq_pos and the flag has_shift.  Each operator     *)
(* below is one loop over the cells: iterations touch one cell each, and   *)
(* the summaries change by the cells the loop hits.  (ext, the 2D          *)
(* positions of vision models, is left out.)                               *)
(***************************************************************************)
EXTENDS Integers, FiniteSets

CONSTANTS NCells,  \* cells.size()
          NSeqs,   \* n_seq_max
          MaxPos   \* bound: the largest position

ASSUME CellsAssumption ==
  NCells \in Nat \ {0} /\ NSeqs \in Nat \ {0} /\ MaxPos \in Nat

Cells     == 0 .. NCells - 1
Seqs      == 0 .. NSeqs - 1
Positions == 0 .. MaxPos

CellsType ==
  [pos : [Cells -> Positions \cup {-1}], shift : [Cells -> Int],
   seq : [Cells -> SUBSET Seqs], seq_pos : [Seqs -> [Positions -> Int]],
   used : SUBSET Cells, has_shift : BOOLEAN]

\* reset().
NoCells ==
  [pos |-> [i \in Cells |-> -1], shift |-> [i \in Cells |-> 0],
   seq |-> [i \in Cells |-> {}],
   seq_pos |-> [s \in Seqs |-> [p \in Positions |-> 0]],
   used |-> {}, has_shift |-> FALSE]

IsEmpty(c, i)      == c.pos[i] = -1
PosIn(c, i, p0, p1) == c.pos[i] >= p0 /\ c.pos[i] < p1

\* How often the cells I hold each position for each sequence.
Counts(c, I) ==
  [s \in Seqs |-> [p \in Positions |->
     Cardinality({i \in I : s \in c.seq[i] /\ c.pos[i] = p})]]
Plus(m, n)  == [s \in Seqs |-> [p \in Positions |-> m[s][p] + n[s][p]]]
Minus(m, n) == [s \in Seqs |-> [p \in Positions |-> m[s][p] - n[s][p]]]

\* seq_pos_min and seq_pos_max: the first and last key of seq_pos[s].
Keys(c, s) == {p \in Positions : c.seq_pos[s][p] # 0}
SeqPosMin(c, s) ==
  IF Keys(c, s) = {} THEN -1
  ELSE CHOOSE p \in Keys(c, s) : \A q \in Keys(c, s) : p <= q
SeqPosMax(c, s) ==
  IF Keys(c, s) = {} THEN -1
  ELSE CHOOSE p \in Keys(c, s) : \A q \in Keys(c, s) : p >= q

\* The cells in I are emptied, and the other ones of c keep what they have.
Emptied(c, I) ==
  [c EXCEPT !.pos   = [i \in Cells |-> IF i \in I THEN -1 ELSE @[i]],
            !.shift = [i \in Cells |-> IF i \in I THEN 0 ELSE @[i]],
            !.seq   = [i \in Cells |-> IF i \in I THEN {} ELSE @[i]],
            !.used  = @ \ I]

\* rm(i) for the cells I.
RmCells(c, I) ==
  [Emptied(c, I) EXCEPT !.seq_pos = Minus(@, Counts(c, I))]

\* seq_rm(i, s) for the cells in [p0, p1) that have s.
SeqHits(c, s, p0, p1) == {i \in Cells : PosIn(c, i, p0, p1) /\ s \in c.seq[i]}
Freed(c, I, s) == {i \in I : c.seq[i] = {s}}
\* Mutant: the position is not taken out of seq_pos.
SeqRmCellsKeepCount(c, s, p0, p1) ==
  LET hit == SeqHits(c, s, p0, p1)
  IN  [Emptied(c, Freed(c, hit, s)) EXCEPT
         !.seq = [i \in Cells |-> IF i \in hit THEN c.seq[i] \ {s} ELSE @[i]]]
SeqRmCells(c, s, p0, p1) ==
  LET hit == SeqHits(c, s, p0, p1)
  IN  [Emptied(c, Freed(c, hit, s)) EXCEPT
         !.seq = [i \in Cells |-> IF i \in hit THEN c.seq[i] \ {s} ELSE @[i]],
         !.seq_pos[s] = [p \in Positions |->
                           @[p] - Cardinality({i \in hit : c.pos[i] = p})]]

\* seq_add(i, d) for the cells in [p0, p1) that have s.
SeqCpCells(c, s, d, p0, p1) ==
  LET hit == SeqHits(c, s, p0, p1)
  IN  [c EXCEPT
         !.seq = [i \in Cells |-> IF i \in hit THEN @[i] \cup {d} ELSE @[i]],
         !.seq_pos[d] = [p \in Positions |->
                           @[p] + Cardinality({i \in hit : c.pos[i] = p})]]

\* seq_keep(i, s) for all cells.
KeptOut(c, s) == {i \in Cells : c.seq[i] # {} /\ s \notin c.seq[i]}
SeqKeepCells(c, s) ==
  LET kept == {i \in Cells : s \in c.seq[i]}
      c1   == [RmCells(c, KeptOut(c, s)) EXCEPT
                 !.seq = [i \in Cells |-> IF i \in kept THEN {s} ELSE @[i]]]
  IN  [c1 EXCEPT !.seq_pos =
         Plus(Minus(@, Counts(c, kept)), Counts(c1, kept))]

\* pos_add(i, d) for the cells I: a cell whose position becomes negative is
\* emptied.
PosAddCells(c, I, d) ==
  LET c1   == [c EXCEPT
                 !.pos   = [i \in Cells |-> IF i \in I THEN @[i] + d ELSE @[i]],
                 !.shift = [i \in Cells |-> IF i \in I THEN @[i] + d ELSE @[i]],
                 !.has_shift = @ \/ I # {}]
      gone == {i \in I : c1.pos[i] < 0}
  IN  [Emptied(c1, gone) EXCEPT !.seq_pos =
         Plus(Minus(@, Counts(c, I)), Counts(c1, I \ gone))]

\* pos_div(i, d) for the cells I.  The code adds old - new to the shift, where
\* pos_add adds new - old.
PosDivCells(c, I, d) ==
  LET c1 == [c EXCEPT
               !.pos   = [i \in Cells |-> IF i \in I THEN @[i] \div d ELSE @[i]],
               !.shift = [i \in Cells |-> IF i \in I
                            THEN @[i] + (c.pos[i] - c.pos[i] \div d) ELSE @[i]],
               !.has_shift = @ \/ I # {}]
  IN  [c1 EXCEPT !.seq_pos = Plus(Minus(@, Counts(c, I)), Counts(c1, I))]

\* reset_shift().
ResetShift(c) ==
  [c EXCEPT !.shift = [i \in Cells |-> 0], !.has_shift = FALSE]

\* pos_set and seq_add of tokens at empty cells I; at[i] is the token of cell i.
PlaceCells(c, I, at) ==
  LET c1 == [c EXCEPT
               !.pos = [i \in Cells |-> IF i \in I THEN at[i].pos ELSE @[i]],
               !.seq = [i \in Cells |-> IF i \in I THEN at[i].seqs ELSE @[i]],
               !.used = @ \cup I]
  IN  [c1 EXCEPT !.seq_pos = Plus(@, Counts(c1, I))]

\* set(idxs, other), where other is cp(idxs) of an earlier state: back to the
\* positions and sequences the cells I had in old.
SetCells(c, I, old) ==
  LET c1 == [c EXCEPT
               !.pos  = [i \in Cells |-> IF i \in I THEN old.pos[i] ELSE @[i]],
               !.seq  = [i \in Cells |-> IF i \in I THEN old.seq[i] ELSE @[i]],
               !.used = (@ \ I) \cup {i \in I : old.pos[i] # -1}]
  IN  [c1 EXCEPT !.seq_pos = Plus(Minus(@, Counts(c, I)), Counts(c1, I))]

\* The summaries are what a recount gives, and an empty cell has nothing left.
Exact(c) ==
  /\ c.used = {i \in Cells : ~IsEmpty(c, i)}
  /\ c.seq_pos = Counts(c, Cells)
  /\ \A i \in Cells : IsEmpty(c, i) <=> c.seq[i] = {}
  /\ \A i \in Cells : IsEmpty(c, i) => c.shift[i] = 0
  /\ ~c.has_shift => \A i \in Cells : c.shift[i] = 0
=============================================================================
