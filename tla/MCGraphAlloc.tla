---------------------------- MODULE MCGraphAlloc ------------------------------
\* GraphAlloc for all small graphs, for larger ones of three shapes, and for
\* graphs of two shapes that are allocated one after the other.
EXTENDS SampleGraphs

Computed ==
  OwnOutputs(
         WithOutputs(OfThree({2}), {{}, {2}, {3}})
    \cup WithOutputs(Shaped({2}, Residual, {1}), {{3}})
    \cup WithOutputs(Shaped({2}, Branches, {}) \cup Shaped({2}, Late, {}), {{}, {3}}))

Chain == Shaped({1, 2}, << <<1>>, <<2>>, <<3, 1>> >>, {})
Pair  == Shaped({1, 2}, << <<1>>, <<1, 2>> >>, {})
Mixed == {g \in WithOutputs(Chain \cup Pair, {{}}) : \A t \in Ids(g) : ~IsView(g, t)}

Both == Computed \cup Mixed

\* Graphs with as many nodes of the same sizes in which the third tensor or the
\* second one is read by the fourth.
Plain(G) == {g \in G : \A t \in Nodes(g) : g[t].op = "plain" /\ g[t].size = 1}
Rewired ==
  WithOutputs(Plain(     Shaped({1}, << <<1>>, <<2>>, <<3>>, <<4, 3>> >>, {})
                    \cup Shaped({1}, << <<1>>, <<2>>, <<2>>, <<4, 3>> >>, {})), {{}})

\* Graphs in which any node may be an output, a view that is read too.
Viewed == WithOutputs(OfThree({2}), {{}, {2}, {3}})

===============================================================================
