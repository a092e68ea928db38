---------------------------- MODULE MCThreadPool ----------------------------
(* Small instance of ThreadPool: a graph with an empty node between two      *)
(* others and two multiplications in a row, computed twice, each time by one,*)
(* two or all three threads of the pool (a plan for four gets three).        *)
EXTENDS ThreadPool

Nop == [op |-> "nop", chunks |-> 0]
Row == [op |-> "rows", chunks |-> 0]
Mul(c) == [op |-> "mul_mat", chunks |-> c]

MCThread == 0 .. 2
MCGraphs == {<<Row, Nop, Mul(8), Mul(2)>>}
MCRequests == {1, 2, 4}
=============================================================================
