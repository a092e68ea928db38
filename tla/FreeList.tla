------------------------------- MODULE FreeList -------------------------------
(***************************************************************************)
(* The operations of ggml_dyn_tallocr (ggml/src/ggml-alloc.c): first plan, *)
(* without memory, where every tensor of a graph will lie.  An allocator   *)
(* is a sequence of chunks, each with its free blocks and the largest end  *)
(* of an allocation so far; a place is a chunk and an offset in it.        *)
(*                                                                         *)
(* Sizes are already multiples of the alignment.                           *)
(***************************************************************************)
EXTENDS Integers, Sequences

CONSTANTS MaxChunkSize,  \* max_chunk_size
          MaxChunks,     \* GGML_VBUFFER_MAX_CHUNKS
          Endless        \* SIZE_MAX/2, the room in the last chunk

ASSUME FreeListAssumption ==
  /\ MaxChunkSize \in Nat \ {0}
  /\ MaxChunks \in Nat \ {0}
  /\ Endless \in Nat /\ Endless >= MaxChunkSize

\* struct free_block, struct tallocr_chunk, struct buffer_address
Block == [offset : Nat, size : Nat]
Chunk == [free : Seq(Block), max_size : Nat]
Place == [chunk : Nat, offset : Nat]
Nowhere == [chunk |-> 0, offset |-> 0]

Larger(a, b) == IF a >= b THEN a ELSE b

First(S) == CHOOSE i \in S : \A j \in S : i <= j
Last(S)  == CHOOSE i \in S : \A j \in S : j <= i

End(b) == b.offset + b.size

\* ggml_dyn_tallocr_remove_block
RemoveBlock(free, idx) ==
  [i \in 1 .. Len(free) - 1 |-> IF i < idx THEN free[i] ELSE free[i + 1]]

\* ggml_dyn_tallocr_insert_block: the blocks stay sorted by offset.
InsertBlock(free, b) ==
  LET pos == First({i \in 1 .. Len(free) : free[i].offset >= b.offset} \cup {Len(free) + 1})
  IN [i \in 1 .. Len(free) + 1 |->
        IF i < pos THEN free[i] ELSE IF i = pos THEN b ELSE free[i - 1]]

(***************************************************************************)
(* Allocation.                                                             *)
(***************************************************************************)

\* The blocks of a chunk, the last one excepted, that are large enough, and of
\* the smallest of them the last.
Fits(free, size) == {i \in 1 .. Len(free) - 1 : free[i].size >= size}
BestFit(free, size) ==
  Last({i \in Fits(free, size) : \A j \in Fits(free, size) : free[i].size <= free[j].size})

\* The chunks whose last block is large enough.
LastFits(chunks, size) ==
  {c \in 1 .. Len(chunks) :
     LET free == chunks[c].free IN free # <<>> /\ free[Len(free)].size >= size}

\* What will remain unused of the memory a chunk has already; if it has to grow,
\* by how much.
Reaches(chunk, size) == chunk.free[Len(chunk.free)].offset + size
Surplus(chunk, size) == chunk.max_size - Reaches(chunk, size)
Lack(chunk, size)    == Reaches(chunk, size) - chunk.max_size

\* Of some chunks rather one that need not grow, and of these the one with the
\* least surplus, else the one that grows least (reuse_factor).
BestReuse(chunks, fits, size) ==
  LET roomy == {c \in fits : Surplus(chunks[c], size) >= 0}
  IN IF roomy # {}
     THEN First({c \in roomy : \A d \in roomy : Surplus(chunks[c], size) <= Surplus(chunks[d], size)})
     ELSE First({c \in fits : \A d \in fits : Lack(chunks[c], size) <= Lack(chunks[d], size)})

\* ggml_dyn_tallocr_new_chunk
NewChunk(n, min_size) ==
  [free |-> << [offset |-> 0,
                size |-> IF n = MaxChunks THEN Endless ELSE Larger(min_size, MaxChunkSize)] >>,
   max_size |-> 0]

\* The block in which an allocation is made, in the chunks it is made in.
HasFit(chunks, size) == {c \in 1 .. Len(chunks) : Fits(chunks[c].free, size) # {}}
InChunk(chunks, c, block) == [chunks |-> chunks, chunk |-> c, block |-> block]
InFit(chunks, c, size)    == InChunk(chunks, c, BestFit(chunks[c].free, size))
InLast(chunks, c)         == InChunk(chunks, c, Len(chunks[c].free))
Choice(chunks, size) ==
  IF HasFit(chunks, size) # {}
  THEN InFit(chunks, Last(HasFit(chunks, size)), size)
  ELSE IF LastFits(chunks, size) # {}
  THEN InLast(chunks, BestReuse(chunks, LastFits(chunks, size), size))
  ELSE InChunk(Append(chunks, NewChunk(Len(chunks) + 1, size)), Len(chunks) + 1, 1)

\* There is room, if need be in a new chunk (otherwise the program aborts).
CanAlloc(chunks, size) ==
  \/ HasFit(chunks, size) # {} \/ LastFits(chunks, size) # {}
  \/ /\ Len(chunks) < MaxChunks
     /\ Len(chunks) + 1 = MaxChunks => size <= Endless

\* The free blocks of a chunk when the beginning of one is taken.
TakeFrom(free, i, size) ==
  IF free[i].size = size
  THEN RemoveBlock(free, i)
  ELSE [free EXCEPT ![i] = [offset |-> free[i].offset + size, size |-> free[i].size - size]]

Taken(chunk, i, size) ==
  [free |-> TakeFrom(chunk.free, i, size),
   max_size |-> Larger(chunk.max_size, chunk.free[i].offset + size)]

\* ggml_dyn_tallocr_alloc: the chunks afterwards and the place.
AllocIn(ch, size) ==
  [chunks |-> [ch.chunks EXCEPT ![ch.chunk] = Taken(ch.chunks[ch.chunk], ch.block, size)],
   addr   |-> [chunk |-> ch.chunk, offset |-> ch.chunks[ch.chunk].free[ch.block].offset]]
Alloc(chunks, size) == AllocIn(Choice(chunks, size), size)

(***************************************************************************)
(* Release.                                                                *)
(***************************************************************************)

\* The first block that ends where b begins or begins where b ends.
Touches(free, b) == {i \in 1 .. Len(free) : End(free[i]) = b.offset \/ End(b) = free[i].offset}
\* A released block joins the block before it, and that the next, or the block
\* after it, or stands alone.
JoinBefore(free, i, size) ==
  IF i < Len(free) /\ End(free[i]) + size = free[i + 1].offset
  THEN RemoveBlock([free EXCEPT ![i].size = @ + size + free[i + 1].size], i + 1)
  ELSE [free EXCEPT ![i].size = @ + size]
JoinAfter(free, i, b) ==
  IF i > 1 /\ End(free[i - 1]) = b.offset
  THEN RemoveBlock([free EXCEPT ![i - 1].size = @ + b.size + free[i].size], i)
  ELSE [free EXCEPT ![i] = [offset |-> b.offset, size |-> @.size + b.size]]
Join(free, i, b) ==
  IF End(free[i]) = b.offset THEN JoinBefore(free, i, b.size) ELSE JoinAfter(free, i, b)
Release(free, b) ==
  IF Touches(free, b) = {} THEN InsertBlock(free, b) ELSE Join(free, First(Touches(free, b)), b)

\* ggml_dyn_tallocr_free_bytes
FreeBytes(chunks, addr, size) ==
  [chunks EXCEPT ![addr.chunk].free =
     Release(chunks[addr.chunk].free, [offset |-> addr.offset, size |-> size])]

===============================================================================
