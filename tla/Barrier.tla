------------------------------- MODULE Barrier -------------------------------
(***************************************************************************)
(* ggml_barrier of ggml/src/ggml-cpu/ggml-cpu.c: the spinning barrier the  *)
(* CPU threads meet at between two nodes of a graph, inside the matrix     *)
(* multiplications and at the end of a graph (the build without OpenMP).   *)
(*                                                                         *)
(* One action per atomic access.  n_threads is not a field of the barrier: *)
(* every thread reads it from the thread pool when it arrives, so it is an *)
(* argument here; a module that includes this one supplies it.  The        *)
(* atomics are taken in their sequentially consistent order, which is what *)
(* the two full fences of the function order them in.                      *)
(*                                                                         *)
(* n_barrier_passed only counts crossings and is compared for equality;    *)
(* it is an atomic_int and wraps, here after PassedMod values.             *)
(***************************************************************************)
EXTENDS Naturals, FiniteSets

CONSTANTS Thread,     \* the threads that may meet
          PassedMod   \* the number of values of n_barrier_passed: 2^32 in C

ASSUME ThreadAssumption == IsFiniteSet(Thread)
ASSUME PassedModAssumption == PassedMod \in Nat /\ PassedMod >= 2

VARIABLES n_barrier,         \* threads inside, waiting or about to
          n_barrier_passed,  \* crossings so far, modulo PassedMod
          bpc,               \* where each thread is in ggml_barrier
          party,             \* the n_threads each thread read on arrival
          seen               \* the n_barrier_passed each thread read

bvars == <<n_barrier, n_barrier_passed, bpc, party, seen>>

BarrierPC == {"out", "read", "add", "spin", "reset", "release"}

BarrierTypeOK ==
  /\ n_barrier \in 0 .. Cardinality(Thread)
  /\ n_barrier_passed \in 0 .. PassedMod - 1
  /\ bpc \in [Thread -> BarrierPC]
  /\ party \in [Thread -> 0 .. Cardinality(Thread)]
  /\ seen \in [Thread -> 0 .. PassedMod - 1]

BarrierInit ==
  /\ n_barrier = 0
  /\ n_barrier_passed = 0
  /\ bpc = [t \in Thread |-> "out"]
  /\ party = [t \in Thread |-> 0]
  /\ seen = [t \in Thread |-> 0]

NextPassed == IF n_barrier_passed = PassedMod - 1 THEN 0 ELSE n_barrier_passed + 1

(***************************************************************************)
(* The steps of ggml_barrier.                                              *)
(***************************************************************************)

\* The call: n is what n_graph says of the number of threads.  A single
\* thread returns at once.
Arrive(t, n) ==
  /\ bpc[t] = "out"
  /\ IF n = 1
     THEN UNCHANGED bvars
     ELSE /\ bpc' = [bpc EXCEPT ![t] = "read"]
          /\ party' = [party EXCEPT ![t] = n]
          /\ UNCHANGED <<n_barrier, n_barrier_passed, seen>>

\* Mutant: off by one, the last but one thread opens the barrier.
JoinEarly(t) ==
  \/ /\ bpc[t] = "read"
     /\ seen' = [seen EXCEPT ![t] = n_barrier_passed]
     /\ bpc' = [bpc EXCEPT ![t] = "add"]
     /\ UNCHANGED <<n_barrier, n_barrier_passed, party>>
  \/ /\ bpc[t] = "add"
     /\ n_barrier' = n_barrier + 1
     /\ bpc' = [bpc EXCEPT ![t] = IF n_barrier >= party[t] - 2 THEN "reset" ELSE "spin"]
     /\ UNCHANGED <<n_barrier_passed, party, seen>>

\* Read n_barrier_passed, then announce the arrival with a fetch_add on
\* n_barrier: the last thread to arrive opens the barrier, the others spin.
Join(t) ==
  \/ /\ bpc[t] = "read"
     /\ seen' = [seen EXCEPT ![t] = n_barrier_passed]
     /\ bpc' = [bpc EXCEPT ![t] = "add"]
     /\ UNCHANGED <<n_barrier, n_barrier_passed, party>>
  \/ /\ bpc[t] = "add"
     /\ n_barrier' = n_barrier + 1
     /\ bpc' = [bpc EXCEPT ![t] = IF n_barrier = party[t] - 1 THEN "reset" ELSE "spin"]
     /\ UNCHANGED <<n_barrier_passed, party, seen>>

\* The last thread clears the count, then publishes the crossing and returns.
Open(t) ==
  \/ /\ bpc[t] = "reset"
     /\ n_barrier' = 0
     /\ bpc' = [bpc EXCEPT ![t] = "release"]
     /\ UNCHANGED <<n_barrier_passed, party, seen>>
  \/ /\ bpc[t] = "release"
     /\ n_barrier_passed' = NextPassed
     /\ bpc' = [bpc EXCEPT ![t] = "out"]
     /\ UNCHANGED <<n_barrier, party, seen>>

\* The spinning read that sees the crossing, after which the call returns.
SpinExit(t) ==
  /\ bpc[t] = "spin"
  /\ n_barrier_passed # seen[t]
  /\ bpc' = [bpc EXCEPT ![t] = "out"]
  /\ UNCHANGED <<n_barrier, n_barrier_passed, party, seen>>

BarrierStep(t) == Join(t) \/ Open(t) \/ SpinExit(t)
=============================================================================
