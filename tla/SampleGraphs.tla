---------------------------- MODULE SampleGraphs ------------------------------
\* Families of graphs for GraphAlloc.
EXTENDS GraphAlloc

NewTensor(op, src, view, size, pad) ==
  [op |-> op, src |-> src, view |-> view, size |-> size, pad |-> pad, out |-> FALSE]

Inputs(sizes) == {<<NewTensor("leaf", <<>>, 0, s, 0)>> : s \in sizes}

\* The nodes that may read src: in place an operation has the size of its first
\* source, a plain one may be padded, and the view of a view is one of its owner.
Reading(g, src, pads) ==
       {NewTensor("inplace", src, 0, g[src[1]].size, 0)}
  \cup {NewTensor("plain", src, 0, size, 0) : size \in {1, 2}}
  \cup {NewTensor("plain", src, 0, 1, pad) : pad \in pads}
  \cup {NewTensor("view", src, Owner(g, src[1]), g[src[1]].size, 0) : x \in {1} \cap {Len(src)}}

\* Graphs that grow by a node that reads one of some lists of tensors.
Grown(G, lists, pads) ==
  UNION {{Append(x[1], n) : n \in Reading(x[1], x[2], pads)} : x \in G \X lists}

\* All graphs of a leaf and three nodes that read one or two tensors.
Before(n) == {<<p>> : p \in 1 .. n} \cup {<<p, q>> : p, q \in 1 .. n}
OfThree(sizes) ==
  Grown(Grown(Grown(Inputs(sizes), Before(1), {}), Before(2), {}), Before(3), {})

\* The graphs of a leaf and nodes that read the tensors of some lists.
Shaped(sizes, lists, pads) ==
  LET G[n \in 0 .. Len(lists)] ==
        IF n = 0 THEN Inputs(sizes) ELSE Grown(G[n - 1], {lists[n]}, pads)
  IN G[Len(lists)]

\* A residual connection, two branches that meet, a tensor that is read late.
Residual == << <<1>>, <<2>>, <<1, 3>>, <<4>>, <<5, 4>> >>
Branches == << <<1>>, <<1>>, <<2, 3>>, <<1>>, <<4, 5>> >>
Late     == << <<1>>, <<2>>, <<3>>, <<2, 4>>, <<5, 2>> >>

\* The last node is an output, and the tensors of one of some sets; every tensor
\* is read or is an output.
Unread(g) == Ids(g) \ (UNION {Sources(g, t) : t \in Ids(g)} \cup {Len(g)})
WithOutputs(G, some) ==
  {[t \in Ids(x[1]) |-> [x[1][t] EXCEPT !.out = t \in x[2] \cup {Len(x[1])}]] :
     x \in {x \in G \X some : Unread(x[1]) \subseteq x[2]}}

\* Outputs are no views, but for the last node, which nothing reads.
OwnOutputs(G) == {g \in G : \A t \in Ids(g) : g[t].out /\ IsView(g, t) => t = Len(g)}

===============================================================================
