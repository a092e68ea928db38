----------------------------- MODULE SeqMemory -----------------------------
(***************************************************************************)
(* What include/llama.h promises of llama_memory_* and llama_decode: each  *)
(* sequence owns its tokens, and a call on one sequence changes no other.  *)
(* mem[s][t][p] counts how often sequence s has token t at position p (a   *)
(* count, for a shift may put two equal tokens at one position).           *)
(*                                                                         *)
(* A memory with a sliding window may forget tokens of a sequence that its *)
(* next token cannot see.                                                  *)
(***************************************************************************)
EXTENDS Integers, Functions

CONSTANTS Seqs,       \* sequence ids
          Toks,       \* token contents
          LastPosition,  \* bound: the largest position
          Window,     \* size of the attention window, 0 when there is none
          MaxRun,     \* bound: tokens added to a sequence in one step
          Ranges,     \* the position ranges <<p0, p1>> of calls
          Deltas,     \* the position shifts of seq_add
          Divisors,   \* the divisors of seq_div
          OneStream   \* TRUE when all sequences live in one stream

VARIABLES mem,
          kept  \* the tokens of a sequence whose state was saved

Positions == 0 .. LastPosition
Spans     == {r[1] .. r[2] - 1 : r \in Ranges}
Memories  == [Toks -> [Positions -> Nat]]

Nothing == [t \in Toks |-> [p \in Positions |-> 0]]
At(m, P)  == [t \in Toks |-> [p \in Positions |-> IF p \in P THEN m[t][p] ELSE 0]]
Join(m, n) == [t \in Toks |-> [p \in Positions |-> m[t][p] + n[t][p]]]

Last(m) ==
  LET has == {p \in Positions : \E t \in Toks : m[t][p] > 0}
  IN  CHOOSE p \in has \cup {-1} : \A q \in has : q <= p

Init == mem = [s \in Seqs |-> Nothing] /\ kept = Nothing

\* llama_memory_clear.
Clear == mem' = [s \in Seqs |-> Nothing]

\* llama_memory_seq_rm, of one sequence or of any.
Remove(S, P) ==
  mem' = [s \in Seqs |-> IF s \in S THEN At(mem[s], Positions \ P) ELSE mem[s]]

\* llama_memory_seq_keep: only s keeps its tokens.
Keep(s) == mem' = [r \in Seqs |-> IF r # s THEN Nothing ELSE mem[r]]

\* llama_memory_seq_cp: the tokens of s in P join those of d or, between
\* streams, take their place.
CopyInto(s, d, P) == OneStream /\ mem' = [mem EXCEPT ![d] = Join(@, At(mem[s], P))]
CopyOver(s, d)    == ~OneStream /\ mem' = [mem EXCEPT ![d] = mem[s]]

\* llama_memory_seq_add and _div: the tokens of s in P go from p to to(p), and
\* one that falls below 0 is dropped.
Moved(m, P, to(_)) ==
  [t \in Toks |-> [p \in Positions |-> SumFunctionOnSet(m[t], {q \in P : to(q) = p})]]
Move(s, P, to(_)) ==
  mem' = [mem EXCEPT ![s] = Join(At(@, Positions \ P), Moved(@, P, to))]

\* Part of a batch: each sequence gets up to MaxRun more tokens t at its end,
\* and may lose those that its next token does not see.
Seen(m, p) == Window = 0 \/ p > Last(m) + 1 - Window
Grown(old, new, t) ==
  /\ old \in Memories /\ new \in Memories
  /\ \E n \in 0 .. MaxRun : \A u \in Toks, p \in Positions :
       LET added == IF u = t /\ p \in Last(old) + 1 .. Last(old) + n THEN 1 ELSE 0
       IN  /\ new[u][p] <= old[u][p] + added
           /\ new[u][p] >= added + IF Seen(old, p) THEN old[u][p] ELSE 0
Extend(t) ==
  /\ DOMAIN mem' = Seqs
  /\ \A s \in Seqs : Grown(mem[s], mem'[s], t)

\* llama_state_seq_get_data and _set_data: d becomes what was saved, of whichever
\* sequence; an empty state is not loaded.
Save(s) == kept' = mem[s] /\ UNCHANGED mem
Kept(old, new) ==
  \A t \in Toks, p \in Positions :
    new[t][p] <= old[t][p] /\ (Seen(old, p) => new[t][p] = old[t][p])
Load(d) ==
  /\ DOMAIN mem' = Seqs /\ mem'[d] = kept
  /\ \A s \in Seqs \ {d} : Kept(mem[s], mem'[s])
  /\ UNCHANGED kept

Call ==
  \/ \E t \in Toks : Extend(t)
  \/ Clear
  \/ \E s \in Seqs, P \in Spans : Remove({s}, P)
  \/ \E P \in Spans : Remove(Seqs, P)
  \/ \E s \in Seqs : Keep(s)
  \/ \E s, d \in Seqs, P \in Spans : s # d /\ CopyInto(s, d, P)
  \/ \E s, d \in Seqs : s # d /\ CopyOver(s, d)
  \/ \E s \in Seqs, P \in Spans, d \in Deltas : Move(s, P, LAMBDA p : p + d)
  \/ \E s \in Seqs, P \in Spans, d \in Divisors : Move(s, P, LAMBDA p : p \div d)

\* Loading a state that does not fit leaves the sequence empty.
LoadFails(d) == Remove({d}, Positions)

Next ==
  \/ (Call \/ \E d \in Seqs : LoadFails(d)) /\ UNCHANGED kept
  \/ \E s \in Seqs : Save(s) \/ Load(s)

Spec == Init /\ [][Next]_<<mem, kept>>
=============================================================================
