------------------------------ MODULE GraphAlloc ------------------------------
(***************************************************************************)
(* The graph allocator ggml_gallocr with one buffer type, the graphs that  *)
(* are allocated with it one after the other, and the backend that         *)
(* computes them node by node.  A graph is planned before it is computed:  *)
(* memory that a later node may take over was freed in the plan when the   *)
(* last node that reads it had been placed.                                *)
(*                                                                         *)
(* A graph is a sequence of tensors, leafs first.  A tensor has            *)
(*   op    "leaf", "external" (it has data of its own), "plain",           *)
(*         "inplace" (ggml_op_can_inplace) or "view"                       *)
(*   src   the tensors it reads                                            *)
(*   view  the tensor that owns a view's memory, 0 for other tensors       *)
(*   size  its layout                                                      *)
(*   pad   what a backend adds to it (get_alloc_size)                      *)
(*   out   GGML_TENSOR_FLAG_OUTPUT                                         *)
(*                                                                         *)
(* Memory is a function from the places of the buffer to the tensor that   *)
(* wrote there last.                                                       *)
(***************************************************************************)
EXTENDS FreeList, FiniteSets

CONSTANTS MaxSrc,         \* GGML_MAX_SRC
          Graphs,         \* the graphs the program builds
          Series,         \* those it may build one after the other
          SameTopology,   \* graphs with as many nodes and leafs differ only in size
          BufferMayFail,  \* may the backend fail to allocate a buffer
          MaxGraphs       \* bound: graphs built

ASSUME GraphAllocAssumption ==
  /\ MaxSrc \in Nat /\ MaxGraphs \in Nat /\ Series \subseteq Graphs
  /\ {SameTopology, BufferMayFail} \subseteq BOOLEAN

NoBuffer == <<-1>>
NoPlan   == [graph |-> <<>>, addr |-> <<>>]

VARIABLES graph,    \* the one in use
          pc, node, \* what is done with it; the node that is computed next
          plan,     \* node_allocs, leaf_allocs: the graph planned last and its places
          buffer,   \* the sizes of its chunks, or NoBuffer
          data,     \* where the tensors of the graph lie
          memory,   \* what lies there
          built     \* bound

vars == <<graph, pc, node, plan, buffer, data, memory, built>>

(***************************************************************************)
(* Graphs.                                                                 *)
(***************************************************************************)

Ids(g) == 1 .. Len(g)
IsView(g, t) == g[t].view # 0
Owner(g, t) == IF IsView(g, t) THEN g[t].view ELSE t
Sources(g, t) == {g[t].src[j] : j \in 1 .. Len(g[t].src)}
AllocSize(g, t) == g[t].size + g[t].pad
Nodes(g) == {t \in Ids(g) : g[t].op \notin {"leaf", "external"}}
\* Its memory is the allocator's.
Owned(g, t) == g[t].op # "external" /\ ~IsView(g, t)

\* Times t is a source, and views of it.
ReadAt(g, t)  ==
  {r \in Ids(g) \X (1 .. MaxSrc) : r[2] <= Len(g[r[1]].src) /\ g[r[1]].src[r[2]] = t}
Reads(g, t)   == Cardinality(ReadAt(g, t))
ViewsOf(g, t) == Cardinality({u \in Ids(g) : g[u].view = t})

\* What ggml_build_forward_expand and the operations of ggml.h make of a graph:
\* leafs before nodes, sources before what reads them, leafs because somebody
\* reads them; the view of a view is one of its owner.
Tensor == [op : {"leaf", "external", "plain", "inplace", "view"}, src : Seq(Nat), view : Nat,
           size : Nat \ {0}, pad : Nat, out : BOOLEAN]
Ordered(g) ==
  \A t \in Ids(g) :
    /\ Len(g[t].src) <= MaxSrc
    /\ \A j \in 1 .. Len(g[t].src) : g[t].src[j] \in 1 .. t - 1
    /\ t \in Nodes(g) => \A u \in t .. Len(g) : u \in Nodes(g)
    /\ t \notin Nodes(g) => g[t].src = <<>>
    /\ g[t].op = "leaf" => Reads(g, t) > 0
ProperViews(g) ==
  \A t \in Ids(g) :
    /\ IsView(g, t) <=> g[t].op = "view"
    /\ IsView(g, t) => g[t].view \in 1 .. t - 1 /\ ~IsView(g, g[t].view)

\* In place, no more memory is needed than a source of the same layout has (asserted
\* by ggml_gallocr_free_extra_space).
InPlaceFits(g) ==
  \A t \in Ids(g) : g[t].op = "inplace" =>
    \A p \in Sources(g, t) : g[t].size = g[p].size => AllocSize(g, t) <= AllocSize(g, p)

\* The memory of all tensors together, which the last chunk has room for.
SizeTo(g) ==
  LET sum[t \in 0 .. Len(g)] == IF t = 0 THEN 0 ELSE sum[t - 1] + AllocSize(g, t) IN sum

WellFormed(g) ==
  /\ g \in Seq(Tensor) /\ g # <<>>
  /\ Ordered(g) /\ ProperViews(g) /\ InPlaceFits(g)
  /\ SizeTo(g)[Len(g)] <= Endless

ASSUME GraphsAssumption == \A g \in Graphs : WellFormed(g)

(***************************************************************************)
(* ggml_gallocr_alloc_graph_impl.  Its state: the allocator, and of every  *)
(* tensor n_children, n_views, allocated and addr.                         *)
(***************************************************************************)

Start(g) ==
  [chunks |-> <<>>,
   children |-> [t \in Ids(g) |-> Reads(g, t)], views |-> [t \in Ids(g) |-> ViewsOf(g, t)],
   own |-> [t \in Ids(g) |-> FALSE], addr |-> [t \in Ids(g) |-> Nowhere]]

\* Mutant: whoever else will read p.
CanReuseEarly(g, s, t, p) ==
  s.own[p] /\ ~g[p].out /\ g[t].size = g[p].size /\ s.views[p] = 0

\* Mutant: an output too.
CanReuseOutput(g, s, t, p) ==
  s.own[p] /\ g[t].size = g[p].size /\ s.children[p] = 1 /\ s.views[p] = 0

\* May a node take over the memory of its source p?  Of a view never, whose
\* allocated is never set.
CanReuse(g, s, t, p) ==
  /\ s.own[p] /\ ~g[p].out
  /\ g[t].size = g[p].size
  /\ s.children[p] = 1 /\ s.views[p] = 0

\* ggml_gallocr_free_extra_space
FreeExtraSpace(g, s, t, p) ==
  IF AllocSize(g, p) > AllocSize(g, t)
  THEN FreeBytes(s.chunks, [s.addr[p] EXCEPT !.offset = s.addr[p].offset + AllocSize(g, t)],
                 AllocSize(g, p) - AllocSize(g, t))
  ELSE s.chunks

\* ggml_gallocr_allocate_node: in the memory of its first source that allows it,
\* or in memory of its own.
Overlay(g, s, t, p) ==
  [s EXCEPT !.own[t] = TRUE, !.own[p] = FALSE, !.addr[t] = s.addr[p],
            !.chunks = FreeExtraSpace(g, s, t, p)]
Settle(s, t, a) == [s EXCEPT !.own[t] = TRUE, !.addr[t] = a.addr, !.chunks = a.chunks]
Reusable(g, s, t) == {j \in 1 .. Len(g[t].src) : CanReuse(g, s, t, g[t].src[j])}
AllocateNode(g, s, t) ==
  IF s.own[t] \/ ~Owned(g, t)
  THEN s
  ELSE IF g[t].op = "inplace" /\ Reusable(g, s, t) # {}
  THEN Overlay(g, s, t, g[t].src[First(Reusable(g, s, t))])
  ELSE Settle(s, t, Alloc(s.chunks, AllocSize(g, t)))

\* ggml_gallocr_free_node
FreeNode(g, s, t) ==
  IF g[t].out
  THEN s
  ELSE [s EXCEPT !.own[t] = FALSE, !.chunks = FreeBytes(s.chunks, s.addr[t], AllocSize(g, t))]

\* A node has read its source p: was that the last use of p, or of the tensor p is
\* a view of?
FreeUnused(g, s, t) ==
  IF s.views[t] = 0 /\ s.children[t] = 0 /\ s.own[t] THEN FreeNode(g, s, t) ELSE s
AfterRead(g, s, p) ==
  IF s.children[p] > 0 \/ s.views[p] > 0 \/ ~IsView(g, p)
  THEN FreeUnused(g, s, p)
  ELSE FreeUnused(g, [s EXCEPT !.views[g[p].view] = @ - 1], g[p].view)
UpdateParent(g, s, p) == AfterRead(g, [s EXCEPT !.children[p] = @ - 1], p)

\* One node: its sources, the node itself, and its sources again.
AllocateSources(g, s, t) ==
  LET f[j \in 0 .. Len(g[t].src)] ==
        IF j = 0 THEN s ELSE AllocateNode(g, f[j - 1], g[t].src[j])
  IN f[Len(g[t].src)]
UpdateSources(g, s, t) ==
  LET f[j \in 0 .. Len(g[t].src)] ==
        IF j = 0 THEN s ELSE UpdateParent(g, f[j - 1], g[t].src[j])
  IN f[Len(g[t].src)]
PlaceNode(g, s, t) == UpdateSources(g, AllocateNode(g, AllocateSources(g, s, t), t), t)

\* The leafs first, then the nodes in order.
PlaceTensor(g, s, t) == IF t \in Nodes(g) THEN PlaceNode(g, s, t) ELSE AllocateNode(g, s, t)
PlaceAll(g) ==
  LET f[t \in 0 .. Len(g)] == IF t = 0 THEN Start(g) ELSE PlaceTensor(g, f[t - 1], t)
  IN f[Len(g)]

(***************************************************************************)
(* ggml_gallocr_reserve_n_impl and ggml_gallocr_alloc_graph.               *)
(***************************************************************************)

\* A tensor can have the place that was planned for one of graph h
\* (ggml_gallocr_node_needs_realloc, which returns the opposite of its name).
FitsPlan(g, t, h, u) ==
  Owned(g, t) => Owned(h, u) /\ AllocSize(g, t) <= AllocSize(h, u)

\* ggml_gallocr_needs_realloc: counts and sizes are compared, of the nodes and of
\* what they read.
NeedsRealloc(g, h) ==
  \/ Len(g) # Len(h) \/ Cardinality(Nodes(g)) # Cardinality(Nodes(h))
  \/ \E t \in Nodes(g) :
       \/ ~FitsPlan(g, t, h, t)
       \/ \E j \in 1 .. Len(g[t].src) :
            IF j <= Len(h[t].src)
            THEN ~FitsPlan(g, g[t].src[j], h, h[t].src[j])
            ELSE Owned(g, g[t].src[j])

\* The sizes of the chunks that a plan needs.
ChunkSizes(s) == [c \in 1 .. Len(s.chunks) |-> s.chunks[c].max_size]

\* A buffer lacks one, or has one that is too small.
TooSmall(b, sizes) ==
  b = NoBuffer \/ \E c \in 1 .. Len(sizes) : c > Len(b) \/ sizes[c] > b[c]

\* The plan is kept and the buffer made large enough for it.
Keep(g, s, ok) ==
  /\ plan' = [graph |-> g, addr |-> s.addr]
  /\ buffer' = IF ~TooSmall(buffer, ChunkSizes(s)) THEN buffer
               ELSE IF ok THEN ChunkSizes(s) ELSE NoBuffer
Reserve(g, ok) == Keep(g, PlaceAll(g), ok)

\* The places of a tensor's memory.
Region(addr, g, t) ==
  {<<addr[t].chunk, x>> : x \in addr[t].offset .. addr[t].offset + g[t].size - 1}

\* The places of a buffer.
Places(b) == UNION {{<<c, x>> : x \in 0 .. b[c] - 1} : c \in 1 .. Len(b)}

\* The tensors get the places of the plan, and the user sets the inputs.
InitTensors(g, addr) ==
  LET leafs == {t \in Ids(g) : g[t].op = "leaf"}
  IN /\ data' = addr
     /\ memory' = [x \in Places(buffer') |->
                     IF \E t \in leafs : x \in Region(addr, g, t)
                     THEN CHOOSE t \in leafs : x \in Region(addr, g, t)
                     ELSE 0]

(***************************************************************************)
(* Actions.                                                                *)
(***************************************************************************)

Init ==
  /\ graph = <<>> /\ pc = "idle" /\ node = 0 /\ plan = NoPlan /\ buffer = NoBuffer
  /\ data = <<>> /\ memory = <<>> /\ built = 0

\* Two graphs whose tensors differ at most in size, and equal sizes are equal
\* in both.
Scaled(g, h) ==
  /\ Len(g) = Len(h)
  /\ \A t \in Ids(g) : [g[t] EXCEPT !.size = 0] = [h[t] EXCEPT !.size = 0]
  /\ \A t, u \in Ids(g) : h[t].size = h[u].size => g[t].size = g[u].size

\* The program builds a graph.
Build ==
  /\ pc = "idle" /\ built < MaxGraphs /\ (built > 0 => graph \in Series)
  /\ \E g \in IF built = 0 THEN Graphs ELSE Series :
       /\ SameTopology /\ Len(g) = Len(plan.graph) => Scaled(g, plan.graph)
       /\ graph' = g
  /\ pc' = "built" /\ built' = built + 1
  /\ UNCHANGED <<node, plan, buffer, data, memory>>

\* ggml_gallocr_reserve: a worst-case graph is only planned.
ReserveGraph ==
  /\ pc = "built"
  /\ \E ok \in IF BufferMayFail THEN BOOLEAN ELSE {TRUE} : Reserve(graph, ok)
  /\ pc' = "idle"
  /\ UNCHANGED <<graph, node, data, memory, built>>

\* ggml_gallocr_alloc_graph: planned anew if need be.  If there is no buffer, it
\* returns false after an attempt to allocate one.
AllocGraph ==
  /\ pc = "built"
  /\ IF NeedsRealloc(graph, plan.graph)
     THEN \E ok \in IF BufferMayFail THEN BOOLEAN ELSE {TRUE} : Reserve(graph, ok)
     ELSE UNCHANGED <<plan, buffer>>
  /\ IF NeedsRealloc(graph, plan.graph) /\ buffer' = NoBuffer
     THEN pc' = "idle" /\ UNCHANGED <<node, data, memory>>
     ELSE /\ InitTensors(graph, plan'.addr)
          /\ node' = Len(graph) - Cardinality(Nodes(graph)) + 1
          /\ pc' = "computing"
  /\ UNCHANGED <<graph, built>>

\* The backend computes a node; a view has nothing to compute.
Compute ==
  /\ pc = "computing" /\ node <= Len(graph)
  /\ memory' = IF IsView(graph, node) THEN memory
               ELSE [x \in DOMAIN memory |->
                       IF x \in Region(data, graph, node) THEN node ELSE memory[x]]
  /\ node' = node + 1
  /\ UNCHANGED <<graph, pc, plan, buffer, data, built>>

\* The outputs are read.
Finish ==
  /\ pc = "computing" /\ node > Len(graph)
  /\ pc' = "idle"
  /\ UNCHANGED <<graph, node, plan, buffer, data, memory, built>>

Next == Build \/ ReserveGraph \/ AllocGraph \/ Compute \/ Finish

Spec == Init /\ [][Next]_vars

(***************************************************************************)
(* What is checked.                                                        *)
(***************************************************************************)

\* All memory of t is in the buffer, and nothing else was written there.
Holds(t) ==
  Region(data, graph, t) \subseteq {x \in DOMAIN memory : memory[x] = t}

\* When a node is computed, what it reads is there: nothing that was planned
\* between the source and the node, and no reuse of its memory, has come over
\* it, and the buffer has room for it.  A node that is computed in place lies
\* exactly on its source, any other beside it.
OperandsIntact ==
  pc = "computing" /\ node <= Len(graph) =>
    \A p \in {Owner(graph, q) : q \in Sources(graph, node)} : Owned(graph, p) =>
      /\ Holds(p)
      /\ ~IsView(graph, node) =>
           \/ Region(data, graph, p) \cap Region(data, graph, node) = {}
           \/ graph[node].op = "inplace"
              /\ Region(data, graph, p) = Region(data, graph, node)

\* Outputs are never freed and never overwritten.
OutputsKept ==
  pc = "computing" /\ node > Len(graph) =>
    \A t \in Ids(graph) : graph[t].out /\ Owned(graph, Owner(graph, t)) => Holds(Owner(graph, t))

===============================================================================
