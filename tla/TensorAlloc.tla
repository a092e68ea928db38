----------------------------- MODULE TensorAlloc ------------------------------
(***************************************************************************)
(* A ggml_dyn_tallocr and the tensors that lie in it, in any order of      *)
(* allocations and releases a graph may ask for.                           *)
(***************************************************************************)
EXTENDS FreeList

CONSTANT Tensors  \* what may be allocated at one time

VARIABLES chunks,   \* the allocator
          live,     \* the tensors that lie in it
          at, size  \* where, and how large

allocVars == <<chunks, live, at, size>>

AllocTypeOK ==
  /\ Len(chunks) <= MaxChunks /\ chunks \in Seq(Chunk)
  /\ live \subseteq Tensors
  /\ at \in [Tensors -> Place]
  /\ size \in [Tensors -> Nat]

\* ggml_dyn_tallocr_new
AllocInit ==
  /\ chunks = <<>> /\ live = {}
  /\ at = [t \in Tensors |-> Nowhere] /\ size = [t \in Tensors |-> 0]

Allocate(t, n) ==
  /\ t \notin live /\ CanAlloc(chunks, n)
  /\ LET a == Alloc(chunks, n)
     IN chunks' = a.chunks /\ at' = [at EXCEPT ![t] = a.addr]
  /\ live' = live \cup {t} /\ size' = [size EXCEPT ![t] = n]

Free(t) ==
  /\ t \in live
  /\ chunks' = FreeBytes(chunks, at[t], size[t])
  /\ live' = live \ {t}
  /\ at' = [at EXCEPT ![t] = Nowhere] /\ size' = [size EXCEPT ![t] = 0]

\* A smaller tensor has taken the place of this one.
FreeExtra(t, n) ==
  /\ t \in live /\ n < size[t]
  /\ chunks' = FreeBytes(chunks, [at[t] EXCEPT !.offset = at[t].offset + n], size[t] - n)
  /\ size' = [size EXCEPT ![t] = n]
  /\ UNCHANGED <<live, at>>

\* ggml_dyn_tallocr_reset
Reset ==
  /\ chunks' = <<>> /\ live' = {}
  /\ at' = [t \in Tensors |-> Nowhere] /\ size' = [t \in Tensors |-> 0]

AllocNext ==
  \/ \E t \in Tensors, n \in Nat \ {0} : Allocate(t, n) \/ FreeExtra(t, n)
  \/ \E t \in Tensors : Free(t)
  \/ Reset

AllocSpec == AllocInit /\ [][AllocNext]_allocVars

(***************************************************************************)
(* What is checked.                                                        *)
(***************************************************************************)

Begins(t) == at[t].offset
Ends(t)   == at[t].offset + size[t]

\* Two tensors that live at one time share no memory, whatever was allocated,
\* released, split and merged before.
NoOverlap ==
  \A t, u \in live :
    t # u /\ at[t].chunk = at[u].chunk => Ends(t) <= Begins(u) \/ Ends(u) <= Begins(t)

\* The blocks are sorted and no two of them meet: whatever is released beside a
\* free block joins it, on both sides.
Sorted(free) ==
  /\ \A i \in 1 .. Len(free) : free[i].size > 0
  /\ \A i, j \in 1 .. Len(free) : i < j => End(free[i]) < free[j].offset

\* A free block holds no tensor.
FreeIsFree(c) ==
  \A t \in live : at[t].chunk = c =>
    \A i \in 1 .. Len(chunks[c].free) :
      \/ End(chunks[c].free[i]) <= Begins(t)
      \/ Ends(t) <= chunks[c].free[i].offset

\* No memory is lost: what has been in use is in use or free again.
Covered(c) ==
  \A x \in 0 .. chunks[c].max_size - 1 :
    \/ \E t \in live : at[t].chunk = c /\ Begins(t) <= x /\ x < Ends(t)
    \/ \E i \in 1 .. Len(chunks[c].free) :
         chunks[c].free[i].offset <= x /\ x < End(chunks[c].free[i])

\* The list of free blocks says exactly which memory is free.
FreeListExact ==
  \A c \in 1 .. Len(chunks) : Sorted(chunks[c].free) /\ FreeIsFree(c) /\ Covered(c)

\* The buffer that is made for a chunk, of size max_size, holds its tensors.
FitsBuffer ==
  \A t \in live : at[t].chunk \in 1 .. Len(chunks) /\ Ends(t) <= chunks[at[t].chunk].max_size

===============================================================================
