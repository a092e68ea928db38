----------------------------- MODULE MCKvCache -----------------------------
(***************************************************************************)
(* Instances of KvCache for TLC.                                           *)
(***************************************************************************)
EXTENDS KvCache

CONSTANTS t1, t2

Single == {{s} : s \in Seqs}
Every  == SUBSET Seqs \ {{}}
\* All positions, all but the first, and the second one.
Spans  == {<<0, Inf>>, <<1, Inf>>, <<1, 2>>}
AllOrOne == {<<0, Inf>>, <<1, 2>>}
Back   == {-1}

(***************************************************************************)
(* Single promises of llama.h, for the configurations that show where the  *)
(* code falls short of them.                                               *)
(***************************************************************************)

\* llama_memory_seq_keep "removes all tokens that do not belong to the specified
\* sequence", in whichever stream of the cache they are.
KeepRemovesOthers == [][\A s \in Seqs : SeqKeep(s) => Memory!Keep(s)]_vars

\* llama_state_seq_get_data copies the state of the sequence, with the tokens that
\* a stream copy has promised it but the next update has yet to bring.
SavesSequence == [][\A s \in Seqs : SaveSeq(s) => Memory!Save(s)]_vars
=============================================================================
