-------------------------- MODULE ThreadPoolProofs ---------------------------
(***************************************************************************)
(* The CPU thread pool, for every number of threads, every graph and every *)
(* number of values of n_barrier_passed: the types, and that a node finds  *)
(* its operands complete and the work buffer ready, that no piece is       *)
(* computed twice, that the result is complete, and that the parameters of *)
(* a call are only touched when no worker is in a graph.                   *)
(*                                                                         *)
(* First the barrier alone, then the pool that meets at it.                *)
(***************************************************************************)
EXTENDS ThreadPool, Integers, FiniteSetTheorems, SequenceTheorems, TLAPS

(***************************************************************************)
(* ggml_barrier alone.  Any number of threads that keep meeting there stay *)
(* together: no thread returns from its k-th call before every thread has  *)
(* made its k-th call.                                                     *)
(*                                                                         *)
(* crossings is a history variable: how often the barrier has been opened. *)
(* returned[t] counts the calls of t that have returned.                   *)
(***************************************************************************)
VARIABLES crossings, returned

ringVars == <<bvars, crossings, returned>>

Size == Cardinality(Thread)

RingInit ==
  /\ BarrierInit
  /\ crossings = 0
  /\ returned = [t \in Thread |-> 0]

Return(t) == returned' = [returned EXCEPT ![t] = @ + 1]

Call(t) ==
  /\ Arrive(t, Size)
  /\ IF Size = 1 THEN Return(t) ELSE UNCHANGED returned
  /\ crossings' = IF Size = 1 THEN crossings + 1 ELSE crossings

JoinCall(t) == Join(t) /\ UNCHANGED <<crossings, returned>>

OpenCall(t) ==
  /\ Open(t)
  /\ IF bpc[t] = "release"
     THEN Return(t) /\ crossings' = crossings + 1
     ELSE UNCHANGED <<crossings, returned>>

SpinCall(t) == SpinExit(t) /\ Return(t) /\ UNCHANGED crossings

RingNext == \E t \in Thread : Call(t) \/ JoinCall(t) \/ OpenCall(t) \/ SpinCall(t)

RingSpec == RingInit /\ [][RingNext]_ringVars

\* The calls t has made.
Called(t) == returned[t] + (IF bpc[t] = "out" THEN 0 ELSE 1)

\* ggml_barrier keeps the threads together.
Together == \A t, u \in Thread : returned[t] <= Called(u)

(***************************************************************************)
(* The inductive invariant.  A thread is current when it has returned from *)
(* every crossing; one that has not is still spinning on the value of      *)
(* n_barrier_passed before the last crossing.                              *)
(***************************************************************************)
Current(t) == returned[t] = crossings

\* The threads counted by n_barrier while the barrier is closed.
RingInside == {t \in Thread : Current(t) /\ bpc[t] \in {"spin", "reset"}}

RingTypes ==
  /\ n_barrier \in Nat
  /\ n_barrier_passed \in 0 .. PassedMod - 1
  /\ bpc \in [Thread -> BarrierPC]
  /\ party \in [Thread -> Nat]
  /\ seen \in [Thread -> 0 .. PassedMod - 1]
  /\ crossings \in Nat
  /\ returned \in [Thread -> Nat]

\* A thread that has not left the last crossing is spinning, and what it read
\* is no longer what n_barrier_passed holds.
Stragglers ==
  \A t \in Thread : Current(t) \/ (/\ returned[t] + 1 = crossings
                                   /\ bpc[t] = "spin"
                                   /\ seen[t] # n_barrier_passed)

\* Current threads have read the current value; everybody waits for all.
RingFresh ==
  \A t \in Thread :
    /\ Current(t) /\ bpc[t] \in {"add", "spin", "reset", "release"} =>
         seen[t] = n_barrier_passed
    /\ bpc[t] # "out" => party[t] = Size

\* The count, and the one thread that opens the barrier: all the others are
\* inside and current then.
RingCount ==
  /\ (\A t \in Thread : bpc[t] # "release") => n_barrier = Cardinality(RingInside)
  /\ \A t \in Thread : bpc[t] = "release" => n_barrier = 0
  /\ \A t \in Thread : bpc[t] \in {"reset", "release"} =>
       \A u \in Thread \ {t} : Current(u) /\ bpc[u] = "spin"

RingInv == RingTypes /\ Stragglers /\ RingFresh /\ RingCount

\* The number of threads is a natural number, and with one thread there is no
\* other.
LEMMA Party ==
  /\ Size \in Nat
  /\ Size = 1 => \A t, u \in Thread : t = u
<1>1. Size \in Nat
  BY ThreadAssumption, FS_CardinalityType DEF Size
<1>2. ASSUME Size = 1 PROVE \A t, u \in Thread : t = u
  <2>1. \E x : Thread = {x}
    BY <1>2, ThreadAssumption, FS_Singleton DEF Size
  <2> QED
    BY <2>1
<1> QED
  BY <1>1, <1>2

\* RingInside is a finite set.
LEMMA RingInsideFinite == IsFiniteSet(RingInside) /\ Cardinality(RingInside) \in Nat
<1>1. RingInside \subseteq Thread
  BY DEF RingInside
<1>2. IsFiniteSet(RingInside)
  BY <1>1, ThreadAssumption, FS_Subset
<1> QED
  BY <1>2, FS_CardinalityType

\* The next value of n_barrier_passed is a value, and another one.
LEMMA NextDiffers ==
  ASSUME n_barrier_passed \in 0 .. PassedMod - 1
  PROVE  NextPassed \in 0 .. PassedMod - 1 /\ NextPassed # n_barrier_passed
BY PassedModAssumption DEF NextPassed

\* The initial state satisfies the invariant.
LEMMA RingInitInv == RingInit => RingInv
<1> SUFFICES ASSUME RingInit PROVE RingInv
  OBVIOUS
<1> USE DEF RingInit, BarrierInit
<1>1. RingInside = {}
  BY DEF RingInside
<1>2. Cardinality(RingInside) = 0
  BY <1>1, FS_EmptySet
<1>3. RingTypes
  BY PassedModAssumption DEF RingTypes, BarrierPC
<1>4. Stragglers /\ RingFresh
  BY DEF Stragglers, RingFresh, Current
<1>5. RingCount
  BY <1>2 DEF RingCount
<1> QED
  BY <1>3, <1>4, <1>5 DEF RingInv

\* A call either starts to wait or, with a single thread, returns at once.
LEMMA RingCallInv ==
  ASSUME RingInv, NEW t \in Thread, Call(t)
  PROVE  RingInv'
<1> USE DEF RingInv
<1>1. CASE Size = 1
  <2>1. Thread = {t}
    BY <1>1, Party
  <2>2. /\ UNCHANGED bvars /\ bpc[t] = "out"
        /\ returned' = [returned EXCEPT ![t] = @ + 1]
        /\ crossings' = crossings + 1
    BY <1>1 DEF Call, Arrive, Return
  <2>3. RingInside = {} /\ RingInside' = {}
    BY <2>1, <2>2 DEF RingInside, bvars
  <2>4. RingTypes'
    BY <2>2 DEF RingTypes, bvars
  <2>5. Stragglers' /\ RingFresh'
    BY <2>1, <2>2 DEF Stragglers, RingFresh, Current, RingTypes, bvars
  <2>6. RingCount'
    BY <2>1, <2>2, <2>3 DEF RingCount, bvars
  <2> QED
    BY <2>4, <2>5, <2>6
<1>2. CASE Size # 1
  <2>1. /\ bpc[t] = "out" /\ bpc' = [bpc EXCEPT ![t] = "read"]
        /\ party' = [party EXCEPT ![t] = Size]
        /\ UNCHANGED <<n_barrier, n_barrier_passed, seen, crossings, returned>>
    BY <1>2 DEF Call, Arrive
  <2>2. RingInside' = RingInside
    BY <2>1 DEF RingInside, Current, RingTypes
  <2>3. RingTypes'
    BY <2>1, Party DEF RingTypes, BarrierPC
  <2>4. Stragglers' /\ RingFresh'
    BY <2>1 DEF Stragglers, RingFresh, Current, RingTypes
  <2>5. RingCount'
    BY <2>1, <2>2 DEF RingCount, Current, RingTypes
  <2> QED
    BY <2>3, <2>4, <2>5
<1> QED
  BY <1>1, <1>2

\* Arriving: the thread is current, and when it is the last one all the
\* others are inside.
LEMMA RingJoinInv ==
  ASSUME RingInv, NEW t \in Thread, JoinCall(t)
  PROVE  RingInv'
<1> USE DEF RingInv
<1>0. UNCHANGED <<crossings, returned, n_barrier_passed, party>>
  BY DEF JoinCall, Join
<1>a. Current(t) /\ \A u \in Thread : bpc[u] \notin {"reset", "release"}
  BY DEF JoinCall, Join, Stragglers, RingCount
<1>1. CASE bpc[t] = "read"
  <2>1. /\ seen' = [seen EXCEPT ![t] = n_barrier_passed]
        /\ bpc' = [bpc EXCEPT ![t] = "add"] /\ n_barrier' = n_barrier
    BY <1>1 DEF JoinCall, Join
  <2>2. RingInside' = RingInside
    BY <2>1, <1>0, <1>1 DEF RingInside, Current, RingTypes
  <2>3. RingTypes'
    BY <2>1, <1>0 DEF RingTypes, BarrierPC
  <2>4. Stragglers' /\ RingFresh'
    BY <2>1, <1>0, <1>1, <1>a DEF Stragglers, RingFresh, Current, RingTypes
  <2>5. RingCount'
    BY <2>1, <2>2, <1>0, <1>a DEF RingCount, Current, RingTypes
  <2> QED
    BY <2>3, <2>4, <2>5
<1>2. CASE bpc[t] = "add"
  <2>1. /\ n_barrier' = n_barrier + 1 /\ seen' = seen
        /\ bpc' = [bpc EXCEPT ![t] = IF n_barrier = party[t] - 1 THEN "reset" ELSE "spin"]
    BY <1>2 DEF JoinCall, Join
  <2>2. n_barrier = Cardinality(RingInside)
    BY <1>a DEF RingCount
  <2>3. RingInside' = RingInside \cup {t}
    BY <2>1, <1>0, <1>2, <1>a DEF RingInside, Current, RingTypes
  <2>4. t \notin RingInside
    BY <1>2 DEF RingInside
  <2>5. Cardinality(RingInside') = n_barrier + 1
    BY <2>2, <2>3, <2>4, RingInsideFinite, FS_AddElement
  <2>6. RingTypes'
    BY <2>1, <1>0 DEF RingTypes, BarrierPC
  <2>7. Stragglers' /\ RingFresh'
    BY <2>1, <1>0, <1>2, <1>a DEF Stragglers, RingFresh, Current, RingTypes
  <2>8. ASSUME n_barrier = party[t] - 1
        PROVE  \A u \in Thread \ {t} : Current(u) /\ bpc[u] = "spin"
    <3>1. Cardinality(RingInside') = Size
      BY <2>5, <2>8, <1>2, Party DEF RingFresh, RingTypes
    <3>2. RingInside' \subseteq Thread
      BY DEF RingInside
    <3>3. RingInside' = Thread
      BY <3>1, <3>2, ThreadAssumption, FS_Subset DEF Size
    <3> QED
      BY <3>3, <2>3, <1>a DEF RingInside
  <2>9. \A u \in Thread : bpc'[u] # "release"
    BY <2>1, <1>a DEF RingTypes
  <2>10. ASSUME NEW u \in Thread, bpc'[u] = "reset"
         PROVE  \A v \in Thread \ {u} : Current(v)' /\ bpc'[v] = "spin"
    <3>1. u = t /\ n_barrier = party[t] - 1
      BY <2>10, <2>1, <1>a DEF RingTypes
    <3> QED
      BY <3>1, <2>8, <2>1, <1>0 DEF Current, RingTypes
  <2>11. RingCount'
    BY <2>1, <2>5, <2>9, <2>10 DEF RingCount
  <2> QED
    BY <2>6, <2>7, <2>11
<1> QED
  BY <1>1, <1>2 DEF JoinCall, Join

\* Opening: the count is cleared while all the others spin; the crossing turns
\* them into stragglers.
LEMMA RingOpenInv ==
  ASSUME RingInv, NEW t \in Thread, OpenCall(t)
  PROVE  RingInv'
<1> USE DEF RingInv
<1>0. UNCHANGED <<party, seen>>
  BY DEF OpenCall, Open
<1>a. /\ Current(t) /\ bpc[t] \in {"reset", "release"}
      /\ \A u \in Thread \ {t} : Current(u) /\ bpc[u] = "spin"
  BY DEF OpenCall, Open, Stragglers, RingCount
<1>1. CASE bpc[t] = "reset"
  <2>1. /\ n_barrier' = 0 /\ bpc' = [bpc EXCEPT ![t] = "release"]
        /\ UNCHANGED <<n_barrier_passed, crossings, returned>>
    BY <1>1 DEF OpenCall, Open
  <2>2. RingTypes'
    BY <2>1, <1>0 DEF RingTypes, BarrierPC
  <2>3. Stragglers' /\ RingFresh'
    BY <2>1, <1>0, <1>1, <1>a DEF Stragglers, RingFresh, Current, RingTypes
  <2>4. RingCount'
    BY <2>1, <1>0, <1>a DEF RingCount, Current, RingTypes
  <2> QED
    BY <2>2, <2>3, <2>4
<1>2. CASE bpc[t] = "release"
  <2>1. /\ n_barrier_passed' = NextPassed /\ bpc' = [bpc EXCEPT ![t] = "out"]
        /\ n_barrier' = n_barrier /\ crossings' = crossings + 1
        /\ returned' = [returned EXCEPT ![t] = @ + 1]
    BY <1>2 DEF OpenCall, Open, Return
  <2>2. NextPassed \in 0 .. PassedMod - 1 /\ NextPassed # n_barrier_passed
    BY NextDiffers DEF RingTypes
  <2>3. RingTypes'
    BY <2>1, <2>2, <1>0 DEF RingTypes, BarrierPC
  <2>4. \A u \in Thread \ {t} : /\ ~Current(u)' /\ returned'[u] + 1 = crossings'
                               /\ bpc'[u] = "spin" /\ seen'[u] # n_barrier_passed'
    BY <2>1, <2>2, <1>0, <1>a DEF RingFresh, Current, RingTypes
  <2>5. Current(t)' /\ bpc'[t] = "out"
    BY <2>1, <1>a DEF Current, RingTypes
  <2>6. Stragglers' /\ RingFresh'
    BY <2>1, <2>4, <2>5, <1>0 DEF Stragglers, RingFresh, RingTypes
  <2>7. RingInside' = {}
    BY <2>4, <2>5 DEF RingInside
  <2>8. n_barrier' = Cardinality(RingInside')
    BY <2>1, <2>7, <1>2, FS_EmptySet DEF RingCount
  <2>9. RingCount'
    BY <2>4, <2>5, <2>8 DEF RingCount
  <2> QED
    BY <2>3, <2>6, <2>9
<1> QED
  BY <1>1, <1>2, <1>a

\* Leaving: only a straggler sees another value, and it becomes current.
LEMMA RingSpinInv ==
  ASSUME RingInv, NEW t \in Thread, SpinCall(t)
  PROVE  RingInv'
<1> USE DEF RingInv
<1>1. /\ bpc[t] = "spin" /\ bpc' = [bpc EXCEPT ![t] = "out"]
      /\ seen[t] # n_barrier_passed
      /\ returned' = [returned EXCEPT ![t] = @ + 1]
      /\ UNCHANGED <<n_barrier, n_barrier_passed, party, seen, crossings>>
  BY DEF SpinCall, SpinExit, Return
<1>2. ~Current(t) /\ returned[t] + 1 = crossings
  BY <1>1 DEF Stragglers, RingFresh
<1>3. \A u \in Thread : bpc[u] \notin {"reset", "release"}
  BY <1>1, <1>2 DEF RingCount
<1>4. RingInside' = RingInside
  BY <1>1, <1>2 DEF RingInside, Current, RingTypes
<1>5. RingTypes'
  BY <1>1 DEF RingTypes, BarrierPC
<1>6. Stragglers' /\ RingFresh'
  BY <1>1, <1>2 DEF Stragglers, RingFresh, Current, RingTypes
<1>7. RingCount'
  BY <1>1, <1>3, <1>4 DEF RingCount, RingTypes
<1> QED
  BY <1>5, <1>6, <1>7

\* The invariant says what is wanted.
LEMMA RingInvTogether == RingInv => Together
BY DEF RingInv, RingTypes, Stragglers, Together, Called, Current

\* No thread returns from its k-th ggml_barrier before every thread has made
\* its k-th call, however many threads meet and however often n_barrier_passed
\* has wrapped.
THEOREM BarrierKeepsTogether == RingSpec => []Together
<1>1. RingInv /\ [RingNext]_ringVars => RingInv'
  <2> SUFFICES ASSUME RingInv, [RingNext]_ringVars PROVE RingInv'
    OBVIOUS
  <2>1. CASE RingNext
    BY <2>1, RingCallInv, RingJoinInv, RingOpenInv, RingSpinInv DEF RingNext
  <2>2. CASE UNCHANGED ringVars
    BY <2>2 DEF RingInv, RingTypes, Stragglers, RingFresh, RingCount, Current, RingInside, ringVars,
               bvars
  <2> QED
    BY <2>1, <2>2
<1> QED
  BY RingInitInv, <1>1, RingInvTogether, PTL DEF RingSpec

(***************************************************************************)
(* The pool.  The argument: every thread of the call is in a part of it,   *)
(* given by what is left of the graph and the half of a multiplication,    *)
(* and all are in the same part (Agree).  A thread leaves its part only by *)
(* crossing a barrier, and there the last one takes all of them with it,   *)
(* because n_barrier counts exactly the threads of the call that wait      *)
(* (Meeting).  What has been made follows from the part the threads are in *)
(* (Data), and so does the result when they come to the end.               *)
(***************************************************************************)

(*****************************************************************************)
(* The invariant, and the facts about its parts.                             *)
(*****************************************************************************)
\* The threads of the published work, and the number of nodes of its graph.
Team == 0 .. n_graph.n - 1
Length == Len(cgraph)

\* Where a thread is in ggml_graph_compute_thread, the caller anywhere, a
\* worker outside a graph.
Computing == {"begin", "loop", "rows", "convert", "chunks", "after", "leave"}
CallerPC == {"idle", "kick", "publish", "join", "freed"} \cup Computing
OuterPC == {"top", "plock", "pwait", "pwoken", "stopchk", "poll", "polln", "wlock", "wwait",
            "exited"}

\* A worker is in the call when it has seen the published work.
InCall(t) == t = Main \/ last_graph[t] = n_graph

\* The barrier has been opened and t is still to notice; t waits at it.
Behind(t) == bpc[t] = "spin" /\ seen[t] # n_barrier_passed
Waiting(t) == bpc[t] # "out" /\ ~Behind(t)

\* Before its first step in the graph, and after its last one: a thread past
\* the last barrier is done, even when it is still to notice.
Unstarted(t) == ~InCall(t) \/ pc[t] \in {"publish", "begin"}
Ended(t) == /\ ~Unstarted(t)
            /\ pc[t] \notin {"loop", "rows", "convert", "chunks", "after"}
            /\ ~(pc[t] = "leave" /\ Waiting(t))

\* What is left of a graph from node k on: its nodes that are not empty.
Rest(g, k) == {j \in k .. Len(g) : g[j].op # "nop"}

\* The node before k is the last of the graph and has just been computed: no
\* barrier follows it.
LastDone(k) == k = Length + 1 /\ Length >= 1 /\ cgraph[Length].op # "nop"

\* The thread has counted on to the next node while the one before it is not
\* known to be complete yet; Through(t): it has done its part of that node.
Past(t) == /\ ~Unstarted(t)
           /\ \/ pc[t] = "loop" /\ Waiting(t)
              \/ pc[t] \in {"loop", "leave"} /\ LastDone(node[t])
Through(t) == Past(t) \/ (~Unstarted(t) /\ pc[t] = "after")

\* The node a thread is at, for the purpose of what has been made.
At(t) == IF Unstarted(t) THEN 1 ELSE IF Past(t) THEN node[t] - 1 ELSE node[t]

\* A multiplication has a second half, after the meeting inside it.
Second(k) == IF cgraph[k].op = "mul_mat" THEN 1 ELSE 0
Half(t) == IF Through(t) THEN Second(At(t))
           ELSE IF ~Unstarted(t) /\ pc[t] = "chunks" /\ ~Waiting(t) THEN 1 ELSE 0

\* The part of the call a thread is in.  Skipping empty nodes does not leave
\* it, crossing a barrier does.
Region(t) == IF Ended(t) THEN <<{}, 2>> ELSE <<Rest(cgraph, At(t)), Half(t)>>

\* The types, with the thread counts bounded by the size of the pool.
Types ==
  /\ n_barrier \in Nat
  /\ n_barrier_passed \in 0 .. PassedMod - 1
  /\ bpc \in [Thread -> BarrierPC]
  /\ party \in [Thread -> 0 .. NThreads]
  /\ seen \in [Thread -> 0 .. PassedMod - 1]
  /\ cgraph \in Graphs \cup {<<>>}
  /\ n_graph \in [count : Nat, n : 0 .. NThreads]
  /\ current_chunk \in Nat
  /\ stop \in BOOLEAN /\ pause \in BOOLEAN /\ locked \in BOOLEAN /\ twice \in BOOLEAN
  /\ abort \in Nat /\ ec \in {"success", "aborted"}
  /\ pc \in [Thread -> PC]
  /\ pending \in [Thread -> BOOLEAN]
  /\ last_graph \in [Thread -> [count : Nat, n : 0 .. NThreads]]
  /\ graph \in [Thread -> Graphs \cup {<<>>}]
  /\ nth \in [Thread -> 0 .. NThreads]
  /\ node \in [Thread -> Nat]
  /\ chunk \in [Thread -> Nat]
  /\ wdata \in [Thread -> Nat]
  /\ calls \in 0 .. MaxCalls
  /\ \A t \in Thread : node[t] \in 0 .. Len(graph[t]) + 1

\* The thread holds the parameters of the call and is to use them.
InGraph(t) == \/ pc[t] \in {"loop", "rows", "convert", "chunks", "after"}
              \/ pc[t] = "leave" /\ InCall(t) /\ Waiting(t)

\* What a thread's place implies: who can be there, that it is needed for the
\* call, that it has taken over the parameters, and the kind of its node.
Place(t) ==
  /\ IF t = Main THEN pc[t] \in CallerPC ELSE pc[t] \in OuterPC \cup Computing
  /\ bpc[t] # "out" => pc[t] \in {"loop", "chunks", "leave"}
  /\ last_graph[t].count <= n_graph.count
  /\ pc[t] \in Computing \ {"leave"} => InCall(t)
  /\ pc[t] \in (Computing \ {"leave"}) \cup {"publish"} => t \in Team
  /\ pc[t] = "leave" /\ ~InCall(t) => bpc[t] \in {"out", "spin"}
  /\ pc[t] = "leave" /\ InCall(t) => t \in Team
  /\ InGraph(t) =>
       /\ graph[t] = cgraph /\ nth[t] = n_graph.n
       /\ node[t] \in 1 .. Length + 1
  /\ pc[t] \in {"rows", "convert", "chunks", "after"} => node[t] <= Length
  /\ pc[t] = "rows" => cgraph[node[t]].op = "rows"
  /\ pc[t] \in {"convert", "chunks"} => cgraph[node[t]].op = "mul_mat"
  /\ pc[t] = "after" => cgraph[node[t]].op # "nop"
  /\ pc[t] = "loop" /\ Waiting(t) =>
       2 <= node[t] /\ node[t] <= Length /\ cgraph[node[t] - 1].op # "nop"

Places == \A t \in Thread : Place(t)

\* The threads n_barrier counts while the barrier is closed.
Inside == {t \in Team : InCall(t) /\ bpc[t] \in {"spin", "reset"} /\ ~Behind(t)}

\* The barrier: all that wait at it wait for n_graph.n threads and, once they
\* have read it, on the current n_barrier_passed; the one that opens it finds
\* all the others waiting.
Meets(t) ==
  /\ t \in Team /\ InCall(t) /\ Waiting(t) =>
       party[t] = n_graph.n /\ (bpc[t] # "read" => seen[t] = n_barrier_passed)
  /\ bpc[t] = "release" => n_barrier = 0
  /\ bpc[t] \in {"reset", "release"} =>
       \A u \in Team \ {t} : InCall(u) /\ bpc[u] = "spin" /\ ~Behind(u)

Meeting ==
  /\ \A t \in Thread : Meets(t)
  /\ (\A t \in Thread : bpc[t] # "release") => n_barrier = Cardinality(Inside)

\* All threads of the call are in the same part of it.
Agree == \A t, u \in Team : Region(t) = Region(u)

\* Who is in the graph has not passed the node the caller stopped at, and who
\* leaves it has come to its end or to that node.
Stops(t) ==
  /\ abort # NoAbort /\ InGraph(t) =>
        node[t] < abort \/ (node[t] = abort /\ pc[t] \in {"loop", "leave"})
  /\ pc[t] = "leave" /\ InGraph(t) => node[t] = Length + 1 \/ node[t] = abort

Aborts ==
  /\ (ec = "success") <=> (abort = NoAbort)
  /\ abort # NoAbort =>
       node[Main] = abort /\ pc[Main] \in {"loop", "leave", "idle", "join", "freed"}
  /\ pc[Main] = "leave" =>
       (node[Main] = Length + 1 /\ abort = NoAbort) \/ node[Main] = abort
  /\ \A t \in Team : Stops(t)

\* What has been made when R is left: all pieces of every other node, and no
\* piece of a later node than the first of R; none of a multiplication that
\* is in its first half.
Filled(R, h) ==
  /\ \A j \in 1 .. Length : j \notin R => Pieces(cgraph, j, n_graph.n) \subseteq made
  /\ \A p \in made : /\ p[1] \in 1 .. Length
                     /\ p \in Pieces(cgraph, p[1], n_graph.n)
                     /\ \A m \in R : p[1] <= m
  /\ h = 0 => \A p \in made : p[1] \in R => cgraph[p[1]].op # "mul_mat"

\* The second half of a multiplication: the work buffer is converted, and
\* every chunk below current_chunk is made or held by a thread.
Sharing(k) ==
  /\ \A u \in Team : wdata[u] = k
  /\ current_chunk >= n_graph.n
  /\ \A p \in made : p[1] = k => p[2] < current_chunk
  /\ \A i \in 0 .. Chunks(cgraph[k].chunks, n_graph.n) - 1 :
       i < current_chunk => <<k, i>> \in made \/ \E u \in Team : pc[u] = "chunks" /\ chunk[u] = i

\* The chunk a thread holds is its own and not made yet.
Holding(t) ==
  /\ chunk[t] < current_chunk
  /\ <<node[t], chunk[t]>> \notin made
  /\ \A u \in Team \ {t} : pc[u] = "chunks" => chunk[u] # chunk[t]

\* What has been made, as far as the place of t tells.
DataOf(t) ==
  /\ Filled(Rest(cgraph, At(t)), Half(t))
  /\ \A k \in Rest(cgraph, At(t)) : cgraph[k].op = "rows" =>
       (<<k, t>> \in made <=> Through(t) /\ k = At(t))
  /\ pc[t] = "chunks" /\ Waiting(t) =>
       wdata[t] = node[t] /\ chunk[t] = t /\ (t = Main => current_chunk = n_graph.n)
  /\ Half(t) = 1 => Sharing(At(t))
  /\ Half(t) = 1 /\ pc[t] = "chunks" => Holding(t)
  /\ Half(t) = 1 /\ Through(t) => current_chunk >= Chunks(cgraph[At(t)].chunks, n_graph.n)

Data == \A t \in Team : ~Ended(t) => DataOf(t)

\* The caller's graph is complete, or complete up to where it was aborted,
\* from the last barrier on.
Result ==
  pc[Main] = "idle" \/ (pc[Main] = "leave" /\ ~Waiting(Main)) =>
    LET last == IF ec = "aborted" THEN abort - 1 ELSE Len(cgraph)
    IN made = UNION {Pieces(cgraph, k, n_graph.n) : k \in 1 .. last}

\* All of it.
PoolInv == Types /\ Places /\ Meeting /\ Agree /\ Aborts /\ Data /\ Result /\ ~twice

\* The caller is a thread, and the threads of a call are threads of the pool.
LEMMA TeamFacts ==
  ASSUME Types
  PROVE  /\ Main \in Thread /\ Main \in Nat
         /\ n_graph.n \in 0 .. NThreads
         /\ Team \subseteq Thread
         /\ Thread \subseteq Nat
         /\ IsFiniteSet(Team) /\ Cardinality(Team) = n_graph.n
         /\ Cardinality(Thread) = NThreads
<1>1. n_graph.n \in 0 .. NThreads
  BY DEF Types
<1>2. n_graph.n - 1 \in Int /\ 0 \in Int /\ NThreads \in Nat
  BY <1>1, PoolAssumption
<1>3. IsFiniteSet(Team) /\ Cardinality(Team) = n_graph.n
  <2>1. \A b \in Int : /\ IsFiniteSet(0 .. b)
                      /\ Cardinality(0 .. b) = IF 0 > b THEN 0 ELSE b - 0 + 1
    BY FS_Interval
  <2>2. /\ IsFiniteSet(Team)
        /\ Cardinality(Team) = IF 0 > n_graph.n - 1 THEN 0 ELSE n_graph.n - 1 - 0 + 1
    BY <1>2, <2>1 DEF Team
  <2> QED
    BY <1>1, <2>2
<1>4. Cardinality(Thread) = NThreads
  <2>1. Cardinality(0 .. NThreads - 1) = IF 0 > NThreads - 1 THEN 0 ELSE NThreads - 1 - 0 + 1
    BY FS_Interval, PoolAssumption
  <2> QED
    BY <2>1, PoolAssumption
<1> QED
  BY <1>1, <1>2, <1>3, <1>4, PoolAssumption DEF Team, Main

\* A graph is a sequence of nodes.
LEMMA GraphFacts ==
  ASSUME Types
  PROVE  /\ cgraph \in Seq([op : {"nop", "rows", "mul_mat"}, chunks : Nat])
         /\ Length \in Nat
         /\ \A k \in 1 .. Length : /\ cgraph[k].op \in {"nop", "rows", "mul_mat"}
                                   /\ cgraph[k].chunks \in Nat
<1> DEFINE Nodes == [op : {"nop", "rows", "mul_mat"}, chunks : Nat]
<1>1. <<>> \in Seq(Nodes)
  OBVIOUS
<1>2. cgraph \in Seq(Nodes)
  BY <1>1, PoolAssumption DEF Types
<1>3. Length \in Nat /\ \A k \in 1 .. Length : cgraph[k] \in Nodes
  BY <1>2, ElementOfSeq, LenProperties DEF Length
<1> QED
  BY <1>2, <1>3

\* What is left from a node on: an empty node changes nothing, any other node
\* is the first of what is left.
LEMMA RestNop ==
  ASSUME Types
  PROVE  /\ \A k \in Nat : k <= Length /\ cgraph[k].op = "nop" =>
              Rest(cgraph, k) = Rest(cgraph, k + 1)
         /\ \A k \in Nat : k <= Length /\ cgraph[k].op # "nop" =>
              /\ k \in Rest(cgraph, k)
              /\ Rest(cgraph, k + 1) = Rest(cgraph, k) \ {k}
BY GraphFacts DEF Length, Rest

\* What is left from a node on lies behind it.
LEMMA RestRange ==
  ASSUME Types
  PROVE  /\ \A k \in Nat : \A j \in Rest(cgraph, k) :
              k <= j /\ j <= Length /\ j \in Nat /\ cgraph[j].op # "nop"
         /\ \A k \in Nat : k > Length => Rest(cgraph, k) = {}
BY GraphFacts DEF Length, Rest

\* Two nodes that are not empty and have the same left are one.
LEMMA RestSame ==
  ASSUME Types, NEW j \in Nat, NEW k \in Nat, j <= Length, cgraph[j].op # "nop",
         k <= Length, cgraph[k].op # "nop", Rest(cgraph, j) = Rest(cgraph, k)
  PROVE  j = k
<1>1. j \in Rest(cgraph, k) /\ k \in Rest(cgraph, j)
  BY RestNop
<1> QED
  BY <1>1, RestRange

\* What a thread's place in the graph depends on.
LEMMA Frame ==
  ASSUME NEW t \in Thread,
         UNCHANGED <<n_barrier_passed, n_graph, cgraph>>,
         UNCHANGED <<pc[t], bpc[t], seen[t], last_graph[t], node[t]>>
  PROVE  /\ InCall(t)' <=> InCall(t)
         /\ Behind(t)' <=> Behind(t)
         /\ Waiting(t)' <=> Waiting(t)
         /\ Unstarted(t)' <=> Unstarted(t)
         /\ Ended(t)' <=> Ended(t)
         /\ Past(t)' <=> Past(t)
         /\ Through(t)' <=> Through(t)
         /\ At(t)' = At(t)
         /\ Half(t)' = Half(t)
         /\ Region(t)' = Region(t)
         /\ InGraph(t)' <=> InGraph(t)
         /\ Team' = Team /\ Length' = Length
         /\ \A k : Second(k)' = Second(k)
<1>1. (InCall(t)' <=> InCall(t)) /\ (Behind(t)' <=> Behind(t)) /\ (Waiting(t)' <=> Waiting(t))
  BY DEF InCall, Behind, Waiting
<1>2. Team' = Team /\ Length' = Length
  BY DEF Team, Length
<1>3. (Unstarted(t)' <=> Unstarted(t)) /\ (InGraph(t)' <=> InGraph(t))
  BY <1>1 DEF Unstarted, InGraph
<1>4. Ended(t)' <=> Ended(t)
  BY <1>1, <1>3 DEF Ended
<1>5. (Past(t)' <=> Past(t)) /\ (Through(t)' <=> Through(t))
  BY <1>1, <1>2, <1>3 DEF Past, Through, LastDone
<1>6. At(t)' = At(t)
  BY <1>3, <1>5 DEF At
<1>7. \A k : Second(k)' = Second(k)
  BY DEF Second
<1>8. Half(t)' = Half(t)
  BY <1>1, <1>3, <1>5, <1>6, <1>7 DEF Half
<1>9. Region(t)' = Region(t)
  BY <1>4, <1>6, <1>8 DEF Region, Rest
<1> QED
  BY <1>1, <1>2, <1>3, <1>4, <1>5, <1>6, <1>7, <1>8, <1>9

\* ... and its part of the invariant.
LEMMA FramePlace ==
  ASSUME NEW t \in Thread, Place(t),
         UNCHANGED <<n_barrier_passed, n_graph, cgraph>>,
         UNCHANGED <<pc[t], bpc[t], seen[t], last_graph[t], node[t], graph[t], nth[t]>>
  PROVE  Place(t)'
<1>1. /\ InCall(t)' <=> InCall(t)
      /\ Waiting(t)' <=> Waiting(t)
      /\ InGraph(t)' <=> InGraph(t)
      /\ Team' = Team /\ Length' = Length
  BY Frame
<1> QED
  BY <1>1 DEF Place

(*****************************************************************************)
(* The types.                                                                *)
(*****************************************************************************)
\* Entering and crossing the barrier keeps the types.
LEMMA ArriveTypes ==
  ASSUME Types, NEW t \in Thread, NEW n \in 0 .. NThreads, Arrive(t, n)
  PROVE  /\ n_barrier' \in Nat /\ n_barrier_passed' \in 0 .. PassedMod - 1
         /\ bpc' \in [Thread -> BarrierPC]
         /\ party' \in [Thread -> 0 .. NThreads]
         /\ seen' \in [Thread -> 0 .. PassedMod - 1]
<1>0. /\ n_barrier \in Nat /\ n_barrier_passed \in 0 .. PassedMod - 1
      /\ bpc \in [Thread -> BarrierPC]
      /\ party \in [Thread -> 0 .. NThreads]
      /\ seen \in [Thread -> 0 .. PassedMod - 1]
  BY DEF Types
<1>1. CASE UNCHANGED bvars
  BY <1>0, <1>1 DEF bvars
<1>2. CASE /\ bpc' = [bpc EXCEPT ![t] = "read"]
           /\ party' = [party EXCEPT ![t] = n]
           /\ UNCHANGED <<n_barrier, n_barrier_passed, seen>>
  <2>1. "read" \in BarrierPC
    BY DEF BarrierPC
  <2> QED
    BY <1>0, <1>2, <2>1
<1> QED
  BY <1>1, <1>2 DEF Arrive

\* Moving on in the barrier keeps the types.
LEMMA StepTypes ==
  ASSUME Types, NEW t \in Thread, BarrierStep(t)
  PROVE  /\ n_barrier' \in Nat /\ n_barrier_passed' \in 0 .. PassedMod - 1
         /\ bpc' \in [Thread -> BarrierPC]
         /\ party' \in [Thread -> 0 .. NThreads]
         /\ seen' \in [Thread -> 0 .. PassedMod - 1]
<1>1. NextPassed \in 0 .. PassedMod - 1
  BY NextDiffers DEF Types
<1>2. \E l \in BarrierPC : bpc' = [bpc EXCEPT ![t] = l]
  BY DEF BarrierStep, Join, Open, SpinExit, BarrierPC
<1>3. /\ n_barrier' \in {n_barrier, n_barrier + 1, 0}
      /\ n_barrier_passed' \in {n_barrier_passed, NextPassed}
      /\ party' = party
      /\ seen' \in {seen, [seen EXCEPT ![t] = n_barrier_passed]}
  BY DEF BarrierStep, Join, Open, SpinExit
<1>4. /\ n_barrier \in Nat /\ n_barrier_passed \in 0 .. PassedMod - 1
      /\ bpc \in [Thread -> BarrierPC]
      /\ party \in [Thread -> 0 .. NThreads]
      /\ seen \in [Thread -> 0 .. PassedMod - 1]
  BY DEF Types
<1>5. bpc' \in [Thread -> BarrierPC]
  BY <1>2, <1>4
<1> QED
  BY <1>1, <1>3, <1>4, <1>5

\* A label is stored where the thread is.
LEMMA GoTypes ==
  ASSUME pc \in [Thread -> PC], NEW t \in Thread, NEW l \in PC, Go(t, l) \/ Broadcast(t, l)
  PROVE  pc' \in [Thread -> PC]
<1>1. {"wlock", "pwoken"} \subseteq PC
  BY DEF PC
<1>2. CASE Go(t, l)
  BY <1>2 DEF Go
<1>3. CASE Broadcast(t, l)
  <2>1. \A u \in Thread : (CASE u = t           -> l
                            [] pc[u] = "wwait" -> "wlock"
                            [] pc[u] = "pwait" -> "pwoken"
                            [] OTHER           -> pc[u]) \in PC
    BY <1>1
  <2> QED
    BY <1>3, <2>1 DEF Broadcast
<1> QED
  BY <1>2, <1>3

\* Every step keeps the types.
LEMMA CallerTypes ==
  ASSUME Types,
         \/ \E g \in Graphs : SetParams(g)
         \/ \E p \in BOOLEAN : SetPause(p)
         \/ Free
         \/ MainStep
  PROVE  Types'
<1>0. Main \in Thread /\ NThreads \in Nat /\ Requests \subseteq Nat \ {0} /\ MaxCalls \in Nat
  BY TeamFacts, PoolAssumption
<1>p. {"idle", "kick", "publish", "begin", "join", "freed"} \subseteq PC
  BY DEF PC
<1>1. ASSUME NEW g \in Graphs, SetParams(g) PROVE Types'
  <2>1. pc' \in [Thread -> PC]
    BY <1>0, <1>1, <1>p, GoTypes DEF SetParams, Types
  <2>2. calls' \in 0 .. MaxCalls /\ abort' \in Nat /\ wdata' \in [Thread -> Nat]
    BY <1>0, <1>1 DEF SetParams, Types, NoAbort
  <2> QED
    BY <1>1, <2>1, <2>2 DEF SetParams, Types, bvars, local
<1>2. ASSUME NEW n \in Requests, Publish(n) PROVE Types'
  <2>1. pc' \in [Thread -> PC]
    BY <1>0, <1>2, <1>p, GoTypes DEF Publish, Types
  <2>2. (IF n > NThreads THEN NThreads ELSE n) \in 0 .. NThreads
    BY <1>0
  <2>3. n_graph' \in [count : Nat, n : 0 .. NThreads]
    BY <1>2, <2>2 DEF Publish, Types
  <2> QED
    BY <1>2, <2>1, <2>3 DEF Publish, Types, bvars, local, ghost
<1>3. ASSUME NEW p \in BOOLEAN, SetPause(p) PROVE Types'
  <2>1. pc' \in [Thread -> PC]
    BY <1>0, <1>3, <1>p, GoTypes DEF SetPause, Types
  <2> QED
    BY <1>3, <2>1 DEF SetPause, Types, bvars, local, ghost
<1>4. ASSUME Free PROVE Types'
  <2>1. pc' \in [Thread -> PC]
    BY <1>0, <1>4, <1>p, GoTypes DEF Free, Types
  <2> QED
    BY <1>4, <2>1 DEF Free, Types, bvars, local, ghost
<1>5. ASSUME Wake PROVE Types'
  <2>1. pc' \in [Thread -> PC]
    BY <1>0, <1>5, <1>p, GoTypes DEF Wake, Types
  <2> QED
    BY <1>5, <2>1 DEF Wake, Types, bvars, local, ghost
<1>6. ASSUME JoinWorkers PROVE Types'
  <2>1. pc' \in [Thread -> PC]
    BY <1>0, <1>6, <1>p, GoTypes DEF JoinWorkers, Types
  <2> QED
    BY <1>6, <2>1 DEF JoinWorkers, Types, bvars, pool, local, ghost
<1> QED
  BY <1>1, <1>2, <1>3, <1>4, <1>5, <1>6 DEF MainStep

\* The steps of a worker outside a graph keep the types.
LEMMA WorkerTypes ==
  ASSUME Types, NEW t \in Workers, WorkerStep(t) \/ SpuriousWake(t)
  PROVE  Types'
<1>0. t \in Thread
  BY DEF Workers
<1>1. CASE /\ UNCHANGED <<bvars, pool, pending, last_graph, graph, nth, node, chunk, ghost>>
           /\ \E l \in OuterPC : Go(t, l)
  <2>1. OuterPC \subseteq PC
    BY DEF OuterPC, PC
  <2>2. pc' \in [Thread -> PC]
    BY <1>0, <1>1, <2>1, GoTypes DEF Types
  <2> QED
    BY <1>1, <2>2 DEF Types, bvars, pool, ghost
<1>2. CASE /\ UNCHANGED <<bvars, pool, graph, nth, node, chunk, ghost>>
           /\ \E l \in OuterPC : TakeWork(t, "begin", l, {"poll", "wlock"})
                                 \/ TakeWork(t, "begin", l, {"wwait"})
  <2>1. pc' \in [Thread -> PC]
    <3>1. {"begin", "poll", "wlock", "wwait"} \subseteq PC /\ OuterPC \subseteq PC
      BY DEF PC, OuterPC
    <3>2. \E l \in PC : Go(t, l)
      BY <1>2, <3>1 DEF TakeWork
    <3> QED
      BY <1>0, <3>2, GoTypes DEF Types
  <2>2. pending' \in [Thread -> BOOLEAN]
    <3> DEFINE b == t < n_graph.n
    <3>1. b \in BOOLEAN
      BY <1>0, TeamFacts
    <3>2. pending' = [pending EXCEPT ![t] = b] \/ pending' = pending
      BY <1>2 DEF TakeWork
    <3> HIDE DEF b
    <3> QED
      BY <3>1, <3>2 DEF Types
  <2>3. last_graph' \in [Thread -> [count : Nat, n : 0 .. NThreads]]
    BY <1>0, <1>2 DEF TakeWork, Types
  <2> QED
    BY <1>2, <2>1, <2>2, <2>3 DEF Types, bvars, pool, ghost
<1>3. CASE ReadPause(t) \/ PauseSleep(t) \/ PauseWoken(t) \/ ReadStop(t) \/ PollFlags(t)
           \/ SpuriousWake(t)
  BY <1>1, <1>3 DEF ReadPause, PauseSleep, PauseWoken, ReadStop, PollFlags, SpuriousWake,
                    OuterPC, local
<1>4. CASE PollWork(t)
  BY <1>2, <1>4 DEF PollWork, OuterPC
<1>5. CASE WaitWork(t)
  <2>1. CASE stop \/ pause
    BY <1>1, <1>5, <2>1 DEF WaitWork, OuterPC
  <2>2. CASE ~(stop \/ pause)
    BY <1>2, <1>5, <2>2 DEF WaitWork, OuterPC
  <2> QED
    BY <2>1, <2>2
<1> QED
  BY <1>3, <1>4, <1>5 DEF WorkerStep

\* The steps of a thread in a graph keep the types.
LEMMA ComputeTypes ==
  ASSUME Types, Places, NEW t \in Thread, ComputeStep(t)
  PROVE  Types'
<1>0. n_graph.n \in 0 .. NThreads /\ Main \in Thread /\ Place(t)
  BY TeamFacts DEF Places
<1>p. {"loop", "leave", "rows", "convert", "after", "chunks", "idle", "top"} \subseteq PC
  BY DEF PC
<1>n. pc[t] \in {"rows", "convert", "chunks", "after"} =>
        /\ graph[t] = cgraph /\ node[t] \in 1 .. Len(graph[t])
  BY <1>0 DEF Place, InGraph, Length
<1>l. Len(cgraph) \in Nat /\ Len(graph[t]) \in Nat
  <2>1. <<>> \in Seq([op : {"nop", "rows", "mul_mat"}, chunks : Nat])
    OBVIOUS
  <2>2. graph[t] \in Seq([op : {"nop", "rows", "mul_mat"}, chunks : Nat])
    BY <2>1, PoolAssumption DEF Types
  <2> QED
    BY <2>2, GraphFacts, LenProperties
<1>1. CASE Begin(t)
  <2>1. pc' \in [Thread -> PC]
    BY <1>1, <1>p, GoTypes DEF Begin, Types
  <2>2. \A u \in Thread : node'[u] \in 0 .. Len(graph'[u]) + 1
    BY <1>1, <1>l DEF Begin, Types
  <2> QED
    BY <1>0, <1>1, <2>1, <2>2 DEF Begin, Types, bvars, pool, ghost
<1>2. CASE LoopHead(t)
  <2>1. pc' \in [Thread -> PC]
    <3>1. \E l \in PC : Go(t, l) \/ UNCHANGED pc
      BY <1>2, <1>p DEF LoopHead
    <3> QED
      BY <3>1, GoTypes DEF Types
  <2>2. node' \in [Thread -> Nat] /\ \A u \in Thread : node'[u] \in 0 .. Len(graph'[u]) + 1
    <3>1. graph' = graph
          /\ (node' = node \/ (node' = [node EXCEPT ![t] = @ + 1] /\ node[t] <= Len(graph[t])))
      <4>1. graph' = graph
        BY <1>2 DEF LoopHead
      <4>2. node[t] \in Nat
        BY DEF Types
      <4>3. CASE node[t] > Len(graph[t]) \/ abort = node[t]
        BY <1>2, <4>3 DEF LoopHead
      <4>4. CASE ~(node[t] > Len(graph[t]) \/ abort = node[t])
        <5>1. node[t] <= Len(graph[t])
          BY <1>l, <4>2, <4>4
        <5> QED
          BY <1>2, <4>4, <5>1 DEF LoopHead
      <4> QED
        BY <4>1, <4>3, <4>4
    <3>2. node \in [Thread -> Nat] /\ \A u \in Thread : node[u] \in 0 .. Len(graph[u]) + 1
      BY DEF Types
    <3>3. node' \in [Thread -> Nat]
      BY <3>1, <3>2
    <3>4. node'[t] \in 0 .. Len(graph[t]) + 1
      BY <3>1, <3>2, <1>l
    <3> QED
      BY <3>1, <3>2, <3>3, <3>4
  <2>3. /\ n_barrier' \in Nat /\ n_barrier_passed' \in 0 .. PassedMod - 1
        /\ bpc' \in [Thread -> BarrierPC]
        /\ party' \in [Thread -> 0 .. NThreads]
        /\ seen' \in [Thread -> 0 .. PassedMod - 1]
    <3>1. Arrive(t, n_graph.n) \/ UNCHANGED bvars
      BY <1>2 DEF LoopHead
    <3> QED
      BY <1>0, <3>1, ArriveTypes DEF Types, bvars
  <2> QED
    BY <1>2, <2>1, <2>2, <2>3 DEF LoopHead, Types, pool, ghost
<1>3. CASE Rows(t)
  <2>1. pc' \in [Thread -> PC]
    BY <1>3, <1>p, GoTypes DEF Rows, Types
  <2>2. twice' \in BOOLEAN
    BY <1>3 DEF Rows, Make, Types
  <2> QED
    BY <1>3, <2>1, <2>2 DEF Rows, Types, bvars, pool, local
<1>4. CASE Convert(t)
  <2>1. pc' \in [Thread -> PC]
    BY <1>4, <1>p, GoTypes DEF Convert, Types
  <2>2. wdata' \in [Thread -> Nat] /\ current_chunk' \in Nat
    BY <1>4, PoolAssumption DEF Convert, Types
  <2>4. chunk' \in [Thread -> Nat]
    BY <1>4, TeamFacts DEF Convert, Types
  <2>3. /\ n_barrier' \in Nat /\ n_barrier_passed' \in 0 .. PassedMod - 1
        /\ bpc' \in [Thread -> BarrierPC]
        /\ party' \in [Thread -> 0 .. NThreads]
        /\ seen' \in [Thread -> 0 .. PassedMod - 1]
    BY <1>0, <1>4, ArriveTypes DEF Convert
  <2> QED
    BY <1>4, <2>1, <2>2, <2>3, <2>4 DEF Convert, Types
<1>5. CASE Chunk(t)
  <2>1. pc' \in [Thread -> PC]
    <3>1. \E l \in PC : Go(t, l) \/ UNCHANGED pc
      BY <1>5, <1>p DEF Chunk
    <3> QED
      BY <3>1, GoTypes DEF Types
  <2>2. twice' \in BOOLEAN
    BY <1>5 DEF Chunk, Make, Types
  <2>3. chunk' \in [Thread -> Nat] /\ current_chunk' \in Nat
    <3>1. (chunk' = chunk /\ current_chunk' = current_chunk)
          \/ (chunk' = [chunk EXCEPT ![t] = current_chunk] /\ current_chunk' = current_chunk + 1)
      BY <1>5 DEF Chunk
    <3>2. chunk \in [Thread -> Nat] /\ current_chunk \in Nat
      BY DEF Types
    <3> QED
      BY <3>1, <3>2
  <2> QED
    BY <1>5, <2>1, <2>2, <2>3 DEF Chunk, Types, bvars
<1>6. CASE After(t)
  <2>1. pc' \in [Thread -> PC]
    BY <1>6, <1>p, GoTypes DEF After, Types
  <2>2. node' \in [Thread -> Nat] /\ \A u \in Thread : node'[u] \in 0 .. Len(graph'[u]) + 1
    <3>1. graph' = graph /\ node' = [node EXCEPT ![t] = @ + 1] /\ node[t] \in 1 .. Len(graph[t])
      BY <1>6, <1>n DEF After
    <3>2. node \in [Thread -> Nat] /\ \A u \in Thread : node[u] \in 0 .. Len(graph[u]) + 1
      BY DEF Types
    <3>3. node' \in [Thread -> Nat]
      BY <3>1, <3>2
    <3>4. node'[t] \in 0 .. Len(graph[t]) + 1
      BY <3>1, <3>2, <1>l
    <3> QED
      BY <3>1, <3>2, <3>3, <3>4
  <2>3. /\ n_barrier' \in Nat /\ n_barrier_passed' \in 0 .. PassedMod - 1
        /\ bpc' \in [Thread -> BarrierPC]
        /\ party' \in [Thread -> 0 .. NThreads]
        /\ seen' \in [Thread -> 0 .. PassedMod - 1]
    <3>1. Arrive(t, n_graph.n) \/ UNCHANGED bvars
      BY <1>6 DEF After
    <3> QED
      BY <1>0, <3>1, ArriveTypes DEF Types, bvars
  <2>4. abort' \in Nat /\ ec' \in {"success", "aborted"}
    BY <1>6, <1>n DEF After, Types
  <2> QED
    BY <1>6, <2>1, <2>2, <2>3, <2>4 DEF After, Types, ghost
<1>7. CASE Leave(t)
  <2>1. pc' \in [Thread -> PC]
    BY <1>7, <1>p, GoTypes DEF Leave, Types
  <2> QED
    BY <1>7, <2>1 DEF Leave, Types, bvars, pool, local, ghost
<1>8. CASE Meet(t)
  <2>1. /\ n_barrier' \in Nat /\ n_barrier_passed' \in 0 .. PassedMod - 1
        /\ bpc' \in [Thread -> BarrierPC]
        /\ party' \in [Thread -> 0 .. NThreads]
        /\ seen' \in [Thread -> 0 .. PassedMod - 1]
    BY <1>8, StepTypes DEF Meet
  <2> QED
    BY <1>8, <2>1 DEF Meet, Types, pool, local, ghost
<1> QED
  BY <1>1, <1>2, <1>3, <1>4, <1>5, <1>6, <1>7, <1>8 DEF ComputeStep

\* Every step keeps the types.
LEMMA NextTypes ==
  ASSUME Types, Places, [Next]_vars
  PROVE  Types'
<1>1. CASE UNCHANGED vars
  BY <1>1 DEF vars, Types, bvars, pool, local, ghost
<1>2. CASE Next
  BY <1>2, CallerTypes, WorkerTypes, ComputeTypes DEF Next
<1> QED
  BY <1>1, <1>2

(*****************************************************************************)
(* What a step leaves alone.                                                 *)
(*****************************************************************************)
\* A step of t leaves the other threads where they are.
Untouched(t) ==
  \A u \in Thread \ {t} :
    UNCHANGED <<pc[u], bpc[u], seen[u], party[u], last_graph[u], graph[u], nth[u], node[u],
                chunk[u], wdata[u]>>

\* A step in a graph changes no other thread and none of the parameters.
LEMMA ComputeFrame ==
  ASSUME Types, NEW t \in Thread, ComputeStep(t)
  PROVE  Untouched(t) /\ UNCHANGED <<cgraph, n_graph, stop, pause, locked, last_graph, calls>>
<1>0. /\ pc \in [Thread -> PC] /\ bpc \in [Thread -> BarrierPC]
      /\ seen \in [Thread -> 0 .. PassedMod - 1] /\ party \in [Thread -> 0 .. NThreads]
      /\ graph \in [Thread -> Graphs \cup {<<>>}] /\ nth \in [Thread -> 0 .. NThreads]
      /\ node \in [Thread -> Nat] /\ chunk \in [Thread -> Nat] /\ wdata \in [Thread -> Nat]
  BY DEF Types
<1>1. UNCHANGED <<cgraph, n_graph, stop, pause, locked, last_graph, calls>>
  BY DEF ComputeStep, Begin, LoopHead, Rows, Convert, Chunk, After, Leave, Meet, pool, local, ghost
<1>2. /\ \A u \in Thread \ {t} : pc'[u] = pc[u]
      /\ \A u \in Thread \ {t} : graph'[u] = graph[u]
      /\ \A u \in Thread \ {t} : nth'[u] = nth[u]
      /\ \A u \in Thread \ {t} : node'[u] = node[u]
      /\ \A u \in Thread \ {t} : chunk'[u] = chunk[u]
      /\ \A u \in Thread \ {t} : wdata'[u] = wdata[u]
  <2>1. pc' = pc \/ \E l : pc' = [pc EXCEPT ![t] = l]
    BY DEF ComputeStep, Begin, LoopHead, Rows, Convert, Chunk, After, Leave, Meet, Go, pool, local,
           ghost
  <2>2. graph' = graph \/ \E l : graph' = [graph EXCEPT ![t] = l]
    BY DEF ComputeStep, Begin, LoopHead, Rows, Convert, Chunk, After, Leave, Meet, Go, pool, local,
           ghost
  <2>3. nth' = nth \/ \E l : nth' = [nth EXCEPT ![t] = l]
    BY DEF ComputeStep, Begin, LoopHead, Rows, Convert, Chunk, After, Leave, Meet, Go, pool, local,
           ghost
  <2>4. node' = node \/ \E l : node' = [node EXCEPT ![t] = l]
    BY DEF ComputeStep, Begin, LoopHead, Rows, Convert, Chunk, After, Leave, Meet, Go, pool, local,
           ghost
  <2>5. chunk' = chunk \/ \E l : chunk' = [chunk EXCEPT ![t] = l]
    BY DEF ComputeStep, Begin, LoopHead, Rows, Convert, Chunk, After, Leave, Meet, Go, pool, local,
           ghost
  <2>6. wdata' = wdata \/ \E l : wdata' = [wdata EXCEPT ![t] = l]
    BY DEF ComputeStep, Begin, LoopHead, Rows, Convert, Chunk, After, Leave, Meet, Go, pool, local,
           ghost
  <2> QED
    BY <1>0, <2>1, <2>2, <2>3, <2>4, <2>5, <2>6
<1>3. UNCHANGED bvars \/ Arrive(t, n_graph.n) \/ BarrierStep(t)
  BY DEF ComputeStep, Begin, LoopHead, Rows, Convert, Chunk, After, Leave, Meet
<1>4. /\ \A u \in Thread \ {t} : bpc'[u] = bpc[u]
      /\ \A u \in Thread \ {t} : seen'[u] = seen[u]
      /\ \A u \in Thread \ {t} : party'[u] = party[u]
  <2>1. /\ bpc' = bpc \/ \E l : bpc' = [bpc EXCEPT ![t] = l]
        /\ seen' = seen \/ \E l : seen' = [seen EXCEPT ![t] = l]
        /\ party' = party \/ \E l : party' = [party EXCEPT ![t] = l]
    BY <1>3 DEF Arrive, BarrierStep, Join, Open, SpinExit, bvars
  <2> QED
    BY <1>0, <2>1
<1> QED
  BY <1>1, <1>2, <1>4 DEF Untouched

\* The parts of the invariant that a step of t leaves alone.
LEMMA PlacesFrame ==
  ASSUME NEW t \in Thread, Places, Untouched(t), Place(t)',
         UNCHANGED <<n_barrier_passed, n_graph, cgraph>>
  PROVE  Places'
<1> SUFFICES ASSUME NEW u \in Thread, u # t PROVE Place(u)'
  BY DEF Places
<1> QED
  BY FramePlace DEF Places, Untouched

\* A thread that is not touched stays in its part of the call.
LEMMA OthersFrame ==
  ASSUME NEW t \in Thread, NEW u \in Thread \ {t}, Untouched(t),
         UNCHANGED <<n_barrier_passed, n_graph, cgraph>>
  PROVE  /\ InCall(u)' <=> InCall(u)
         /\ Behind(u)' <=> Behind(u)
         /\ Waiting(u)' <=> Waiting(u)
         /\ Ended(u)' <=> Ended(u)
         /\ Through(u)' <=> Through(u)
         /\ At(u)' = At(u)
         /\ Half(u)' = Half(u)
         /\ Region(u)' = Region(u)
         /\ InGraph(u)' <=> InGraph(u)
         /\ Team' = Team /\ Length' = Length
BY Frame DEF Untouched

\* The threads still agree when the one that moves stays in its part.
LEMMA AgreeFrame ==
  ASSUME Types, NEW t \in Thread, Agree, Untouched(t), t \in Team => Region(t)' = Region(t),
         UNCHANGED <<n_barrier_passed, n_graph, cgraph>>
  PROVE  Agree'
<1>1. Team' = Team
  BY DEF Team
<1>2. \A u \in Team : Region(u)' = Region(u)
  BY OthersFrame, TeamFacts
<1> QED
  BY <1>1, <1>2 DEF Agree

\* Nothing changes at the barrier when nobody moves there.
LEMMA MeetingFrame ==
  ASSUME Meeting, UNCHANGED <<bvars, n_graph, last_graph>>
  PROVE  Meeting'
<1>1. /\ Team' = Team /\ Inside' = Inside
      /\ \A u : (InCall(u)' <=> InCall(u)) /\ (Behind(u)' <=> Behind(u)) 
                /\ (Waiting(u)' <=> Waiting(u))
  BY DEF Team, Inside, InCall, Behind, Waiting, bvars
<1>2. \A u \in Thread : Meets(u)'
  BY <1>1 DEF Meeting, Meets, bvars
<1> QED
  BY <1>1, <1>2 DEF Meeting, bvars

\* Where the threads stop, when the step does not abort the graph.
LEMMA AbortsFrame ==
  ASSUME Types, NEW t \in Thread, Aborts, Untouched(t),
         UNCHANGED <<n_barrier_passed, n_graph, cgraph, abort, ec>>,
         t \in Team => Stops(t)',
         t = Main =>
           /\ abort # NoAbort =>
                node'[Main] = abort /\ pc'[Main] \in {"loop", "leave", "idle", "join", "freed"}
           /\ pc'[Main] = "leave" =>
                (node'[Main] = Length + 1 /\ abort = NoAbort) \/ node'[Main] = abort
  PROVE  Aborts'
<1>1. Main \in Thread /\ Team \subseteq Thread
  BY TeamFacts
<1>2. Team' = Team /\ Length' = Length
  BY DEF Team, Length
<1>3. ASSUME NEW u \in Team PROVE Stops(u)'
  <2>1. CASE u = t
    BY <2>1
  <2>2. CASE u # t
    <3>1. (InGraph(u)' <=> InGraph(u)) /\ node'[u] = node[u] /\ pc'[u] = pc[u]
      BY <1>1, <2>2, OthersFrame DEF Untouched
    <3> QED
      BY <1>2, <3>1 DEF Stops, Aborts
  <2> QED
    BY <2>1, <2>2
<1>4. t # Main => node'[Main] = node[Main] /\ pc'[Main] = pc[Main]
  BY <1>1 DEF Untouched
<1> QED
  BY <1>2, <1>3, <1>4 DEF Aborts

\* Where a thread that is in the call is.
LEMMA AtFacts ==
  ASSUME Types, Places, NEW t \in Team, ~Ended(t)
  PROVE  /\ At(t) \in 1 .. Length + 1
         /\ ~Unstarted(t) => InGraph(t)
         /\ Half(t) \in {0, 1}
         /\ pc[t] \in {"rows", "convert", "chunks", "after"} =>
              /\ At(t) = node[t] /\ At(t) <= Length /\ cgraph[At(t)].op # "nop"
              /\ ~Unstarted(t) /\ ~Past(t)
         /\ Past(t) => At(t) = node[t] - 1 /\ At(t) <= Length /\ cgraph[At(t)].op # "nop"
         /\ Half(t) = 1 => At(t) <= Length /\ cgraph[At(t)].op = "mul_mat"
         /\ Through(t) => At(t) <= Length /\ cgraph[At(t)].op # "nop"
<1>1. t \in Thread /\ Place(t) /\ Length \in Nat /\ node[t] \in Nat
  BY TeamFacts, GraphFacts DEF Places, Types
<1>2. ~Unstarted(t) => InGraph(t) /\ node[t] \in 1 .. Length + 1
  BY <1>1 DEF Ended, Unstarted, InGraph, Place
<1>3. Past(t) => /\ ~Unstarted(t) /\ pc[t] \in {"loop", "leave"} /\ At(t) = node[t] - 1
                 /\ At(t) \in 1 .. Length /\ cgraph[At(t)].op # "nop"
  BY <1>1, <1>2 DEF Past, LastDone, At, Place
<1>4. At(t) \in 1 .. Length + 1
  BY <1>1, <1>2, <1>3 DEF At
<1>5. Half(t) \in {0, 1}
  BY DEF Half, Second
<1>6. pc[t] \in {"rows", "convert", "chunks", "after"} =>
              /\ At(t) = node[t] /\ At(t) <= Length /\ cgraph[At(t)].op # "nop"
              /\ ~Unstarted(t) /\ ~Past(t)
              /\ pc[t] = "chunks" => cgraph[At(t)].op = "mul_mat"
  BY <1>1, <1>3 DEF At, Place, Unstarted, Computing
<1>7. Through(t) => At(t) <= Length /\ cgraph[At(t)].op # "nop"
  BY <1>3, <1>6 DEF Through
<1>8. Half(t) = 1 => At(t) <= Length /\ cgraph[At(t)].op = "mul_mat"
  BY <1>6, <1>7 DEF Half, Second
<1> QED
  BY <1>2, <1>3, <1>4, <1>5, <1>6, <1>7, <1>8

\* Threads of a call are in the same part of it.
LEMMA SamePart ==
  ASSUME Types, Places, Agree, NEW t \in Team, NEW u \in Team
  PROVE  /\ Ended(t) <=> Ended(u)
         /\ ~Ended(t) => Rest(cgraph, At(t)) = Rest(cgraph, At(u)) /\ Half(t) = Half(u)
<1>1. Region(t) = Region(u)
  BY DEF Agree
<1>2. ~Ended(t) => Half(t) # 2
  BY AtFacts
<1>3. ~Ended(u) => Half(u) # 2
  BY AtFacts
<1> QED
  BY <1>1, <1>2, <1>3 DEF Region

\* While a thread works on a node the others do, or are on the way to it.
LEMMA SameNode ==
  ASSUME Types, Places, Agree, NEW t \in Team, NEW u \in Team, ~Ended(t),
         At(t) <= Length, cgraph[At(t)].op # "nop"
  PROVE  /\ ~Ended(u) /\ Half(u) = Half(t) /\ At(u) <= At(t)
         /\ At(t) \in Rest(cgraph, At(u))
         /\ cgraph[At(u)].op # "nop" => At(u) = At(t)
<1>1. ~Ended(u) /\ Half(u) = Half(t) /\ Rest(cgraph, At(t)) = Rest(cgraph, At(u))
  BY SamePart
<1>2. At(t) \in Nat /\ At(u) \in Nat
  BY <1>1, AtFacts, GraphFacts
<1>3. At(t) \in Rest(cgraph, At(u)) /\ At(u) <= At(t)
  BY <1>1, <1>2, RestNop, RestRange
<1>4. cgraph[At(u)].op # "nop" => At(u) = At(t)
  BY <1>1, <1>2, <1>3, RestSame, GraphFacts
<1> QED
  BY <1>1, <1>3, <1>4

\* A call of one thread is the caller's.
LEMMA Solo ==
  ASSUME Types, n_graph.n = 1, NEW t \in Team
  PROVE  t = Main /\ Team = {Main}
BY DEF Team, Main

\* What has been made, when the step makes nothing and t stays in its part.
LEMMA DataFrame ==
  ASSUME Types, NEW t \in Thread, Data, Untouched(t),
         UNCHANGED <<n_barrier_passed, n_graph, cgraph, made, current_chunk, wdata, chunk>>,
         pc'[t] = "chunks" <=> pc[t] = "chunks",
         t \in Team =>
           /\ Ended(t)' <=> Ended(t)
           /\ ~Ended(t) =>
                /\ Rest(cgraph, At(t)') = Rest(cgraph, At(t)) /\ Half(t)' = Half(t)
                /\ Through(t)' <=> Through(t)
                /\ Through(t) \/ Half(t) = 1 => At(t)' = At(t)
                /\ pc[t] = "chunks" => (Waiting(t)' <=> Waiting(t)) /\ node'[t] = node[t]
  PROVE  Data'
<1>1. Team' = Team /\ Length' = Length /\ Team \subseteq Thread
  BY TeamFacts DEF Team, Length
<1>2. \A u \in Thread : pc'[u] = "chunks" <=> pc[u] = "chunks"
  BY DEF Untouched
<1>3. \A R, h : Filled(R, h)' <=> Filled(R, h)
  BY <1>1 DEF Filled, Pieces, Chunks
<1>4. \A k : Sharing(k)' <=> Sharing(k)
  BY <1>1, <1>2 DEF Sharing, Chunks
<1>5. \A u \in Team : node'[u] = node[u] => (Holding(u)' <=> Holding(u))
  BY <1>1, <1>2 DEF Holding
<1>6. \A k, j : (Rest(cgraph, k))' = Rest(cgraph, k)
  BY DEF Rest
<1> SUFFICES ASSUME NEW u \in Team, ~Ended(u)' PROVE DataOf(u)'
  BY <1>1 DEF Data
<1>7. /\ ~Ended(u) /\ Rest(cgraph, At(u)') = Rest(cgraph, At(u)) /\ Half(u)' = Half(u)
      /\ Through(u)' <=> Through(u)
      /\ Through(u) \/ Half(u) = 1 => At(u)' = At(u)
      /\ pc[u] = "chunks" => (Waiting(u)' <=> Waiting(u)) /\ node'[u] = node[u]
  <2>1. CASE u = t
    BY <2>1
  <2>2. CASE u # t
    BY <1>1, <2>2, OthersFrame DEF Untouched
  <2> QED
    BY <2>1, <2>2
<1>8. DataOf(u)
  BY <1>7 DEF Data
<1>9. Filled(Rest(cgraph, At(u)), Half(u))'
  BY <1>3, <1>7, <1>8 DEF DataOf
<1> QED
  BY <1>1, <1>2, <1>4, <1>5, <1>7, <1>8, <1>9 DEF DataOf, Chunks

(*****************************************************************************)
(* The steps in a graph.                                                     *)
(*****************************************************************************)
\* The result, when the step does not end the call.
LEMMA ResultFrame ==
  ASSUME Types, NEW t \in Thread, Result, Untouched(t),
         UNCHANGED <<n_barrier_passed, n_graph, cgraph, made, abort, ec>>,
         t = Main => /\ pc'[Main] # "idle"
                     /\ pc'[Main] = "leave" =>
                          Waiting(Main)' \/ (pc[Main] = "leave" /\ ~Waiting(Main))
  PROVE  Result'
<1>1. Main \in Thread
  BY TeamFacts
<1>2. t # Main => pc'[Main] = pc[Main] /\ (Waiting(Main)' <=> Waiting(Main))
  BY <1>1, OthersFrame DEF Untouched
<1>3. \A k : Pieces(cgraph, k, n_graph.n)' = Pieces(cgraph, k, n_graph.n)
  BY DEF Pieces, Chunks
<1> QED
  BY <1>2, <1>3 DEF Result

\* A thread takes over the parameters of the call.
LEMMA BeginInv ==
  ASSUME PoolInv, NEW t \in Thread, Begin(t)
  PROVE  PoolInv'
<1> USE DEF PoolInv
<1>1. Untouched(t) /\ UNCHANGED <<cgraph, n_graph, last_graph>>
  BY ComputeFrame DEF ComputeStep
<1>2. Types'
  BY ComputeTypes DEF ComputeStep
<1>3. /\ UNCHANGED <<bvars, n_barrier_passed, made, wdata, chunk, current_chunk, abort, ec, twice>>
      /\ pc[t] = "begin" /\ pc'[t] = "loop" /\ node'[t] = 1 /\ graph'[t] = cgraph
      /\ nth'[t] = n_graph.n
  BY DEF Begin, Types, Go, bvars, pool, ghost
<1>4. /\ t \in Team /\ InCall(t) /\ Unstarted(t) /\ bpc[t] = "out"
      /\ Length \in Nat /\ Length' = Length /\ Team' = Team
  BY <1>1, <1>3, GraphFacts DEF Places, Place, Unstarted, Computing, Length, Team
<1>5. /\ ~Unstarted(t)' /\ ~Waiting(t)' /\ InCall(t)' /\ ~Past(t)' /\ ~Through(t)' /\ InGraph(t)'
      /\ At(t)' = 1 /\ Half(t)' = 0 /\ ~Ended(t)'
  <2>1. InCall(t)' /\ bpc'[t] = "out"
    BY <1>1, <1>3, <1>4 DEF InCall, bvars
  <2>2. ~Unstarted(t)' /\ ~Waiting(t)' /\ InGraph(t)' /\ ~Ended(t)'
    BY <1>3, <2>1 DEF Unstarted, Waiting, InGraph, Ended
  <2>3. ~Past(t)' /\ ~Through(t)'
    BY <1>3, <1>4, <2>2 DEF Past, Through, LastDone
  <2> QED
    BY <1>3, <2>1, <2>2, <2>3 DEF At, Half
<1>6. /\ ~Ended(t) /\ ~Waiting(t) /\ At(t) = 1 /\ Half(t) = 0 /\ ~Through(t)
  BY <1>3, <1>4 DEF Ended, Waiting, At, Half, Through, Past
<1>7. Region(t)' = Region(t)
  BY <1>1, <1>5, <1>6 DEF Region, Rest
<1>8. Place(t)'
  BY <1>1, <1>2, <1>3, <1>4, <1>5 DEF Place, Places, bvars, Computing, CallerPC, OuterPC
<1>9. Places' /\ Agree' /\ Meeting'
  BY <1>1, <1>3, <1>7, <1>8, PlacesFrame, AgreeFrame, MeetingFrame
<1>10. Aborts'
  <2>1. Stops(t)'
    BY <1>3 DEF Stops, NoAbort, Types
  <2>2. t = Main => abort = NoAbort
    BY <1>3 DEF Aborts
  <2> QED
    BY <1>1, <1>3, <2>1, <2>2, AbortsFrame
<1>11. Data'
  BY <1>1, <1>3, <1>5, <1>6, DataFrame
<1>12. Result'
  BY <1>1, <1>3, ResultFrame
<1> QED
  BY <1>2, <1>3, <1>9, <1>10, <1>11, <1>12

\* What holds at the loop's head.
LEMMA HeadFacts ==
  ASSUME PoolInv, NEW t \in Thread, pc[t] = "loop", Outside(t)
  PROVE  /\ t \in Team /\ Place(t) /\ InCall(t) /\ ~Unstarted(t) /\ ~Waiting(t) /\ ~Ended(t)
         /\ InGraph(t) /\ graph[t] = cgraph /\ nth[t] = n_graph.n
         /\ node[t] \in 1 .. Length + 1 /\ Length \in Nat
         /\ Past(t) <=> LastDone(node[t])
         /\ Through(t) <=> LastDone(node[t])
         /\ node[t] <= Length => At(t) = node[t] /\ Half(t) = 0 /\ ~Past(t)
<1> USE DEF PoolInv
<1>1. Place(t) /\ Length \in Nat
  BY GraphFacts DEF Places
<1>2. t \in Team /\ InCall(t) /\ InGraph(t) /\ graph[t] = cgraph /\ nth[t] = n_graph.n
      /\ node[t] \in 1 .. Length + 1
  BY <1>1 DEF Place, InGraph, Computing
<1>3. ~Unstarted(t) /\ ~Waiting(t) /\ ~Ended(t)
  BY <1>2 DEF Unstarted, Waiting, Ended, Outside
<1>4. (Past(t) <=> LastDone(node[t])) /\ (Through(t) <=> LastDone(node[t]))
  BY <1>3 DEF Past, Through
<1>5. node[t] <= Length => ~LastDone(node[t])
  BY <1>1 DEF LastDone
<1> QED
  BY <1>1, <1>2, <1>3, <1>4, <1>5 DEF At, Half

\* The steps of the loop's head that stay outside the barrier: an empty
\* operation is skipped, any other is entered.
LEMMA EnterInv ==
  ASSUME PoolInv, NEW t \in Thread, LoopHead(t),
         ~(node[t] > Len(graph[t]) \/ abort = node[t])
  PROVE  PoolInv'
<1> USE DEF PoolInv
<1>1. Untouched(t) /\ UNCHANGED <<cgraph, n_graph, last_graph>>
  BY ComputeFrame DEF ComputeStep
<1>2. Types'
  BY ComputeTypes DEF ComputeStep
<1>h. /\ pc[t] = "loop" /\ Outside(t)
      /\ t \in Team /\ Place(t) /\ InCall(t) /\ ~Unstarted(t) /\ ~Waiting(t) /\ ~Ended(t)
      /\ InGraph(t) /\ graph[t] = cgraph /\ nth[t] = n_graph.n
      /\ node[t] \in 1 .. Length /\ Length \in Nat
      /\ At(t) = node[t] /\ Half(t) = 0 /\ ~Past(t) /\ ~Through(t)
  <2>1. pc[t] = "loop" /\ Outside(t)
    BY DEF LoopHead
  <2>2. node[t] <= Length
    BY <2>1, HeadFacts DEF Length
  <2> QED
    BY <2>1, <2>2, HeadFacts DEF LastDone
<1>3. /\ UNCHANGED <<bvars, n_barrier_passed, made, wdata, chunk, current_chunk, abort, ec, twice>>
      /\ UNCHANGED <<graph, nth, bpc[t], seen[t]>>
  BY DEF LoopHead, pool, ghost, bvars
<1>4. Length' = Length /\ Team' = Team /\ InCall(t)' /\ ~Waiting(t)' /\ bpc'[t] = "out"
  BY <1>1, <1>3, <1>h DEF Length, Team, InCall, Waiting, Outside, bvars
<1>5. CASE cgraph[node[t]].op = "nop"
  <2>1. pc'[t] = "loop" /\ node'[t] = node[t] + 1
    BY <1>5, <1>h DEF LoopHead, Node, Types
  <2>2. ~LastDone(node[t] + 1)
    BY <1>5, <1>h DEF LastDone
  <2>3. ~Unstarted(t)' /\ InGraph(t)' /\ ~Ended(t)' /\ ~Past(t)' /\ ~Through(t)'
    BY <1>1, <1>4, <2>1, <2>2 DEF Unstarted, InGraph, Ended, Past, Through, LastDone
  <2>4. At(t)' = node[t] + 1 /\ Half(t)' = 0
    BY <2>1, <2>3 DEF At, Half
  <2>5. Rest(cgraph, At(t)') = Rest(cgraph, At(t))
    BY <1>5, <1>h, <2>4, RestNop
  <2>6. Region(t)' = Region(t)
    BY <1>1, <1>h, <2>3, <2>4, <2>5 DEF Region, Rest
  <2>7. Place(t)'
    BY <1>1, <1>3, <1>4, <1>h, <2>1, <2>3 DEF Place
  <2>8. Places' /\ Agree' /\ Meeting'
    BY <1>1, <1>3, <2>6, <2>7, PlacesFrame, AgreeFrame, MeetingFrame
  <2>9. Aborts'
    <3>1. Stops(t)'
      BY <1>3, <1>h, <2>1 DEF Aborts, Stops, Types
    <3>2. t = Main => abort = NoAbort
      BY <1>h, TeamFacts DEF Aborts, LoopHead
    <3> QED
      BY <1>1, <1>3, <2>1, <3>1, <3>2, AbortsFrame
  <2>10. Data'
    BY <1>1, <1>3, <1>h, <2>1, <2>3, <2>4, <2>5, DataFrame
  <2>11. Result'
    BY <1>1, <1>3, <2>1, ResultFrame
  <2> QED
    BY <1>2, <1>3, <2>8, <2>9, <2>10, <2>11
<1>6. CASE cgraph[node[t]].op # "nop"
  <2>1. /\ pc'[t] = IF cgraph[node[t]].op = "rows" THEN "rows" ELSE "convert"
        /\ node'[t] = node[t]
        /\ cgraph[node[t]].op # "rows" => cgraph[node[t]].op = "mul_mat"
    BY <1>6, <1>h, GraphFacts DEF LoopHead, Node, Types, Go
  <2>3. ~Unstarted(t)' /\ InGraph(t)' /\ ~Ended(t)' /\ ~Past(t)' /\ ~Through(t)'
    BY <1>1, <1>4, <2>1 DEF Unstarted, InGraph, Ended, Past, Through, LastDone
  <2>4. At(t)' = At(t) /\ Half(t)' = 0
    BY <1>h, <2>1, <2>3 DEF At, Half
  <2>6. Region(t)' = Region(t)
    BY <1>1, <1>h, <2>3, <2>4 DEF Region, Rest
  <2>7. Place(t)'
    BY <1>1, <1>3, <1>4, <1>6, <1>h, <2>1, <2>3 DEF Place, CallerPC, Computing
  <2>8. Places' /\ Agree' /\ Meeting'
    BY <1>1, <1>3, <2>6, <2>7, PlacesFrame, AgreeFrame, MeetingFrame
  <2>9. Aborts'
    <3>1. Stops(t)'
      BY <1>3, <1>h, <2>1 DEF Aborts, Stops, Types
    <3>2. t = Main => abort = NoAbort
      BY <1>h, TeamFacts DEF Aborts, LoopHead
    <3> QED
      BY <1>1, <1>3, <2>1, <3>1, <3>2, AbortsFrame
  <2>10. Data'
    BY <1>1, <1>3, <1>h, <2>1, <2>3, <2>4, DataFrame
  <2>11. Result'
    BY <1>1, <1>3, <2>1, ResultFrame
  <2> QED
    BY <1>2, <1>3, <2>8, <2>9, <2>10, <2>11
<1> QED
  BY <1>5, <1>6

\* Arriving at the barrier: the count of the threads inside is not touched.
LEMMA ArriveMeeting ==
  ASSUME Types, Types', Places, Meeting, NEW t \in Team, InCall(t), bpc[t] = "out",
         Arrive(t, n_graph.n), n_graph.n # 1, Untouched(t), UNCHANGED <<n_graph, last_graph>>
  PROVE  /\ Meeting'
         /\ UNCHANGED n_barrier_passed /\ bpc'[t] = "read" /\ Waiting(t)'
<1>0. t \in Thread /\ Team \subseteq Thread /\ Team' = Team
  BY TeamFacts DEF Team
<1>1. /\ bpc' = [bpc EXCEPT ![t] = "read"]
      /\ party' = [party EXCEPT ![t] = n_graph.n]
      /\ UNCHANGED <<n_barrier, n_barrier_passed, seen>>
  BY DEF Arrive
<1>2. bpc'[t] = "read" /\ party'[t] = n_graph.n
  BY <1>0, <1>1 DEF Types
<1>3. \A u \in Thread : bpc[u] \notin {"reset", "release"}
  BY <1>0 DEF Meeting, Meets
<1>4. \A u \in Thread \ {t} : /\ bpc'[u] = bpc[u] /\ party'[u] = party[u] /\ seen'[u] = seen[u]
                             /\ (InCall(u)' <=> InCall(u)) /\ (Behind(u)' <=> Behind(u))
                             /\ (Waiting(u)' <=> Waiting(u))
  BY <1>1 DEF Untouched, InCall, Behind, Waiting
<1>5. Waiting(t)'
  BY <1>2 DEF Waiting, Behind
<1>6. \A u \in Thread : Meets(u)'
  BY <1>0, <1>1, <1>2, <1>3, <1>4 DEF Meeting, Meets
<1>7. Inside' = Inside
  BY <1>0, <1>2, <1>4 DEF Inside
<1> QED
  BY <1>1, <1>2, <1>3, <1>5, <1>6, <1>7 DEF Meeting

\* Leaving the loop, with other threads to meet.
LEMMA LeaveLoopInv ==
  ASSUME PoolInv, NEW t \in Thread, LoopHead(t),
         node[t] > Len(graph[t]) \/ abort = node[t], n_graph.n # 1
  PROVE  PoolInv'
<1> USE DEF PoolInv
<1>1. Untouched(t) /\ UNCHANGED <<cgraph, n_graph, last_graph>>
  BY ComputeFrame DEF ComputeStep
<1>2. Types'
  BY ComputeTypes DEF ComputeStep
<1>h. /\ pc[t] = "loop" /\ Outside(t)
      /\ t \in Team /\ Place(t) /\ InCall(t) /\ ~Unstarted(t) /\ ~Waiting(t) /\ ~Ended(t)
      /\ InGraph(t) /\ graph[t] = cgraph /\ nth[t] = n_graph.n
      /\ node[t] \in 1 .. Length + 1 /\ Length \in Nat
      /\ (Past(t) <=> LastDone(node[t])) /\ (Through(t) <=> LastDone(node[t]))
  BY HeadFacts DEF LoopHead
<1>3. /\ UNCHANGED <<made, wdata, chunk, current_chunk, abort, ec, twice, graph, nth, node>>
      /\ Arrive(t, n_graph.n) /\ pc'[t] = "leave"
  BY DEF LoopHead, pool, ghost, Types, Go
<1>4. /\ Meeting'
      /\ UNCHANGED n_barrier_passed /\ bpc'[t] = "read" /\ Waiting(t)'
  BY <1>1, <1>2, <1>3, <1>h, ArriveMeeting DEF Outside
<1>5. Length' = Length /\ Team' = Team /\ InCall(t)'
  BY <1>1, <1>h DEF Length, Team, InCall
<1>6. /\ ~Unstarted(t)' /\ InGraph(t)' /\ ~Ended(t)' /\ (LastDone(node[t])' <=> LastDone(node[t]))
      /\ Past(t)' <=> Past(t)
      /\ Through(t)' <=> Through(t)
  BY <1>1, <1>3, <1>4, <1>5, <1>h
     DEF Unstarted, InGraph, Ended, Past, Through, LastDone
<1>7. At(t)' = At(t) /\ Half(t)' = Half(t)
  <2>1. \A k : Second(k)' = Second(k)
    BY <1>1 DEF Second
  <2>2. At(t)' = At(t)
    BY <1>3, <1>6, <1>h DEF At
  <2> QED
    BY <1>3, <1>6, <1>h, <2>1, <2>2 DEF Half
<1>8. Region(t)' = Region(t)
  BY <1>1, <1>6, <1>7, <1>h DEF Region, Rest
<1>9. Place(t)'
  BY <1>1, <1>3, <1>4, <1>5, <1>6, <1>h DEF Place, CallerPC, Computing
<1>10. Places' /\ Agree'
  BY <1>1, <1>4, <1>8, <1>9, PlacesFrame, AgreeFrame
<1>11. Aborts'
  <2>0. node[t] = Length + 1 \/ node[t] = abort
    BY <1>h DEF Length
  <2>1. Stops(t)'
    <3>1. abort # NoAbort => node[t] < abort \/ node[t] = abort
      BY <1>h DEF Aborts, Stops
    <3> QED
      BY <1>3, <1>5, <2>0, <3>1 DEF Stops
  <2>2. t = Main => /\ abort # NoAbort => node[t] = abort
                    /\ (node[Main] = Length + 1 /\ abort = NoAbort) \/ node[Main] = abort
    BY <1>3, <1>h DEF Aborts, Length
  <2> QED
    BY <1>1, <1>3, <1>4, <2>1, <2>2, AbortsFrame
<1>12. Data'
  BY <1>1, <1>3, <1>4, <1>6, <1>7, <1>h, DataFrame
<1>13. Result'
  BY <1>1, <1>3, <1>4, ResultFrame
<1> QED
  BY <1>2, <1>3, <1>4, <1>10, <1>11, <1>12, <1>13

\* The pieces of a node.
LEMMA PieceFacts ==
  ASSUME Types, NEW k \in 1 .. Length
  PROVE  /\ \A p \in Pieces(cgraph, k, n_graph.n) : p = <<k, p[2]>> /\ p[1] = k
         /\ \A i : <<k, i>> \in Pieces(cgraph, k, n_graph.n) <=>
              \/ cgraph[k].op = "rows" /\ i \in Team
              \/ /\ cgraph[k].op = "mul_mat"
                 /\ i \in 0 .. Chunks(cgraph[k].chunks, n_graph.n) - 1
         /\ Chunks(cgraph[k].chunks, n_graph.n) \in Nat
         /\ Chunks(cgraph[k].chunks, n_graph.n) >= n_graph.n
<1>1. /\ cgraph[k].op \in {"nop", "rows", "mul_mat"} /\ cgraph[k].chunks \in Nat
      /\ n_graph.n \in Nat
  BY GraphFacts, TeamFacts
<1>2. /\ Chunks(cgraph[k].chunks, n_graph.n) \in Nat
      /\ Chunks(cgraph[k].chunks, n_graph.n) >= n_graph.n
  BY <1>1 DEF Chunks
<1> DEFINE I == CASE cgraph[k].op = "nop"  -> {}
                  [] cgraph[k].op = "rows" -> 0 .. n_graph.n - 1
                  [] OTHER                 -> 0 .. Chunks(cgraph[k].chunks, n_graph.n) - 1
<1>3. Pieces(cgraph, k, n_graph.n) = {<<k, i>> : i \in I}
  BY DEF Pieces
<1>4. \A i : i \in I <=>
         \/ cgraph[k].op = "rows" /\ i \in Team
         \/ cgraph[k].op = "mul_mat" /\ i \in 0 .. Chunks(cgraph[k].chunks, n_graph.n) - 1
  BY <1>1 DEF Team
<1> HIDE DEF I
<1> QED
  BY <1>2, <1>3, <1>4

\* While a thread is in the call, the caller is.
LEMMA CallerBusy ==
  ASSUME Types, Places, Agree, NEW t \in Team, ~Ended(t)
  PROVE  Main \in Team /\ ~Ended(Main)
<1>1. Main \in Team
  BY TeamFacts DEF Team, Main
<1> QED
  BY <1>1, SamePart

\* While a thread is in the call there is no result yet.
LEMMA ResultBusy ==
  ASSUME Types, Places, Agree, NEW t \in Team, ~Ended(t), Untouched(t),
         UNCHANGED <<n_barrier_passed, n_graph, cgraph>>,
         pc'[t] # "idle", pc'[t] = "leave" => Waiting(t)'
  PROVE  Result'
<1>1. Main \in Team /\ ~Ended(Main)
  BY CallerBusy
<1>2. CASE t = Main
  BY <1>2 DEF Result
<1>3. CASE t # Main
  <2>1. pc'[Main] = pc[Main] /\ (Waiting(Main)' <=> Waiting(Main))
    BY <1>3, TeamFacts, OthersFrame DEF Untouched
  <2> QED
    BY <1>1, <2>1 DEF Ended, Unstarted, InCall, Result
<1> QED
  BY <1>2, <1>3

\* One more piece of the node the threads are at.
LEMMA FilledMake ==
  ASSUME Types, NEW k \in 1 .. Length, NEW i, <<k, i>> \in Pieces(cgraph, k, n_graph.n),
         made' = made \cup {<<k, i>>}, UNCHANGED <<cgraph, n_graph>>
  PROVE  \A R, h : /\ Filled(R, h)
                   /\ \A m \in R : k <= m
                   /\ h = 0 => cgraph[k].op # "mul_mat"
                   => Filled(R, h)'
<1>1. \A j : Pieces(cgraph, j, n_graph.n)' = Pieces(cgraph, j, n_graph.n)
  BY DEF Pieces, Chunks
<1>2. Length' = Length /\ <<k, i>>[1] = k
  BY DEF Length
<1> QED
  BY <1>1, <1>2 DEF Filled

\* Rows: the thread makes its piece, which it had not made before.
LEMMA RowsInv ==
  ASSUME PoolInv, NEW t \in Thread, Rows(t)
  PROVE  PoolInv'
<1> USE DEF PoolInv
<1>1. Untouched(t) /\ UNCHANGED <<cgraph, n_graph, last_graph>>
  BY ComputeFrame DEF ComputeStep
<1>2. Types'
  BY ComputeTypes DEF ComputeStep
<1> DEFINE K == node[t]
<1>3. /\ pc[t] = "rows" /\ pc'[t] = "after"
      /\ UNCHANGED <<bvars, n_barrier_passed, wdata, chunk, current_chunk, abort, ec>>
      /\ UNCHANGED <<graph, nth, node>>
      /\ made' = made \cup {<<K, t>>}
      /\ twice' = (twice \/ <<K, t>> \in made)
  BY DEF Rows, Make, pool, local, Types, Go, bvars
<1>h. /\ t \in Team /\ Place(t) /\ InCall(t) /\ ~Unstarted(t) /\ bpc[t] = "out"
      /\ ~Waiting(t) /\ ~Ended(t) /\ InGraph(t)
      /\ K \in 1 .. Length /\ Length \in Nat /\ cgraph[K].op = "rows"
  BY <1>3, GraphFacts DEF Places, Place, Computing, Unstarted, Waiting, Ended, InGraph
<1>4. At(t) = K /\ Half(t) = 0 /\ ~Past(t) /\ ~Through(t)
  BY <1>3, <1>h DEF At, Half, Past, Through
<1>5. Length' = Length /\ Team' = Team /\ InCall(t)' /\ ~Waiting(t)' /\ bpc'[t] = "out"
      /\ ~Unstarted(t)' /\ ~Ended(t)' /\ InGraph(t)'
  BY <1>1, <1>3, <1>h DEF Length, Team, InCall, Waiting, Unstarted, Ended, InGraph, bvars
<1>6. At(t)' = K /\ Half(t)' = 0 /\ ~Past(t)' /\ Through(t)'
  BY <1>1, <1>3, <1>5, <1>h DEF At, Half, Past, Through, Second
<1>7. Region(t)' = Region(t)
  BY <1>1, <1>4, <1>5, <1>6, <1>h DEF Region, Rest
<1>8. Place(t)'
  BY <1>1, <1>3, <1>5, <1>h DEF Place, CallerPC, Computing, InGraph
<1>9. Places' /\ Agree' /\ Meeting'
  BY <1>1, <1>3, <1>7, <1>8, PlacesFrame, AgreeFrame, MeetingFrame
<1>10. Aborts'
  <2>1. abort # NoAbort => K < abort
    BY <1>3, <1>h DEF Aborts, Stops
  <2>2. Stops(t)'
    BY <1>3, <2>1 DEF Stops
  <2>3. t = Main => abort = NoAbort
    BY <1>3 DEF Aborts
  <2> QED
    BY <1>1, <1>3, <2>2, <2>3, AbortsFrame
<1>11. <<K, t>> \notin made
  <2>1. K \in Rest(cgraph, K)
    BY <1>h, RestNop
  <2> QED
    BY <1>4, <1>h, <2>1 DEF Data, DataOf
<1>12. Data'
  <2> SUFFICES ASSUME NEW u \in Team, ~Ended(u)' PROVE DataOf(u)'
    BY <1>5 DEF Data
  <2>1. /\ ~Ended(u) /\ Half(u) = 0 /\ K \in Rest(cgraph, At(u))
        /\ Rest(cgraph, At(u)) = Rest(cgraph, K)
    <3>1. ~Ended(u) /\ Half(u) = Half(t) /\ At(t) \in Rest(cgraph, At(u))
      BY <1>4, <1>h, SameNode
    <3>2. Rest(cgraph, At(t)) = Rest(cgraph, At(u))
      BY <1>h, SamePart
    <3> QED
      BY <1>4, <3>1, <3>2
  <2>2. /\ At(u)' = At(u) /\ Half(u)' = 0
        /\ pc'[u] = "chunks" => pc[u] = "chunks"
        /\ pc'[u] = "chunks" => (Waiting(u)' <=> Waiting(u))
        /\ u # t => (Through(u)' <=> Through(u))
    <3>1. CASE u = t
      BY <1>3, <1>4, <1>6, <3>1
    <3>2. CASE u # t
      BY <1>1, <1>3, <2>1, <3>2, OthersFrame, TeamFacts DEF Untouched
    <3> QED
      BY <3>1, <3>2
  <2>3. DataOf(u)
    BY <2>1 DEF Data
  <2>4. Rest(cgraph, At(u))' = Rest(cgraph, At(u))
    BY <1>1, <2>2 DEF Rest
  <2>5. \A m \in Rest(cgraph, At(u)) : K <= m
    BY <1>h, <2>1, RestRange
  <2>6. <<K, t>> \in Pieces(cgraph, K, n_graph.n)
    BY <1>h, PieceFacts
  <2>7. Filled(Rest(cgraph, At(u)), Half(u))'
    <3>1. Filled(Rest(cgraph, At(u)), 0)'
      <4>1. \A R, h : Filled(R, h) /\ (\A m \in R : K <= m) /\ (h = 0 => cgraph[K].op # "mul_mat")
                      => Filled(R, h)'
        BY <1>1, <1>3, <1>h, <2>6, FilledMake
      <4> QED
        BY <1>h, <2>1, <2>3, <2>4, <2>5, <4>1 DEF DataOf
    <3> QED
      BY <2>2, <3>1
  <2>8. \A k \in Rest(cgraph, At(u)) : cgraph[k].op = "rows" =>
           (<<k, u>> \in made' <=> Through(u)' /\ k = At(u))
    <3>1. CASE u = t
      BY <1>3, <1>4, <1>6, <2>3, <3>1 DEF DataOf
    <3>2. CASE u # t
      BY <1>3, <2>2, <2>3, <3>2 DEF DataOf
    <3> QED
      BY <3>1, <3>2
  <2>9. pc'[u] = "chunks" /\ Waiting(u)' =>
         wdata'[u] = node'[u] /\ chunk'[u] = u /\ (u = Main => current_chunk' = n_graph'.n)
    BY <1>1, <1>3, <2>2, <2>3 DEF DataOf
  <2> QED
    BY <1>1, <2>2, <2>4, <2>7, <2>8, <2>9 DEF DataOf
<1>13. Result' /\ ~twice'
  BY <1>1, <1>3, <1>11, <1>h, ResultBusy
<1> QED
  BY <1>2, <1>9, <1>10, <1>12, <1>13

\* What holds while a thread takes chunks.
LEMMA ChunkFacts ==
  ASSUME PoolInv, NEW t \in Thread, pc[t] = "chunks", Outside(t)
  PROVE  /\ t \in Team /\ Place(t) /\ InCall(t) /\ ~Unstarted(t) /\ ~Waiting(t) /\ ~Ended(t)
         /\ InGraph(t) /\ graph[t] = cgraph /\ nth[t] = n_graph.n /\ Length \in Nat
         /\ node[t] \in 1 .. Length /\ cgraph[node[t]].op = "mul_mat"
         /\ At(t) = node[t] /\ Half(t) = 1 /\ ~Past(t) /\ ~Through(t)
         /\ Sharing(node[t]) /\ Holding(t)
         /\ \A u \in Team : /\ ~Ended(u) /\ Half(u) = 1 /\ At(u) = node[t]
                            /\ Rest(cgraph, At(u)) = Rest(cgraph, node[t])
                            /\ DataOf(u)
                            /\ pc[u] = "chunks" => Holding(u) /\ node[u] = node[t]
<1> USE DEF PoolInv
<1>h. /\ t \in Team /\ Place(t) /\ InCall(t) /\ ~Unstarted(t)
      /\ ~Waiting(t) /\ ~Ended(t) /\ InGraph(t)
      /\ graph[t] = cgraph /\ nth[t] = n_graph.n
      /\ node[t] \in 1 .. Length /\ Length \in Nat /\ cgraph[node[t]].op = "mul_mat"
  BY GraphFacts DEF Places, Place, Computing, Unstarted, Waiting, Ended, InGraph, Outside
<1>1. At(t) = node[t] /\ Half(t) = 1 /\ ~Past(t) /\ ~Through(t)
  BY <1>h DEF At, Half, Past, Through
<1>2. Sharing(node[t]) /\ Holding(t)
  BY <1>1, <1>h DEF Data, DataOf
<1>3. ASSUME NEW u \in Team
      PROVE  /\ ~Ended(u) /\ Half(u) = 1 /\ At(u) = node[t]
             /\ Rest(cgraph, At(u)) = Rest(cgraph, node[t])
             /\ DataOf(u)
             /\ pc[u] = "chunks" => Holding(u) /\ node[u] = node[t]
  <2>1. ~Ended(u) /\ Half(u) = 1 /\ (cgraph[At(u)].op # "nop" => At(u) = node[t])
    BY <1>1, <1>h, SameNode
  <2>2. cgraph[At(u)].op = "mul_mat" /\ (pc[u] = "chunks" => At(u) = node[u])
    BY <2>1, AtFacts
  <2>3. DataOf(u)
    BY <2>1 DEF Data
  <2> QED
    BY <2>1, <2>2, <2>3 DEF DataOf
<1> QED
  BY <1>h, <1>1, <1>2, <1>3

\* What a step of Chunk leaves alone, and where the thread is after it.
LEMMA ChunkInv ==
  ASSUME PoolInv, NEW t \in Thread, Chunk(t)
  PROVE  PoolInv'
<1> USE DEF PoolInv
<1>1. Untouched(t) /\ UNCHANGED <<cgraph, n_graph, last_graph>>
  BY ComputeFrame DEF ComputeStep
<1>2. Types'
  BY ComputeTypes DEF ComputeStep
<1> DEFINE K == node[t]
           C == Chunks(cgraph[K].chunks, n_graph.n)
<1>p. pc[t] = "chunks" /\ Outside(t)
  BY DEF Chunk
<1>h. /\ t \in Team /\ Place(t) /\ InCall(t) /\ ~Unstarted(t) /\ ~Waiting(t) /\ ~Ended(t)
      /\ InGraph(t) /\ graph[t] = cgraph /\ nth[t] = n_graph.n /\ Length \in Nat
      /\ K \in 1 .. Length /\ cgraph[K].op = "mul_mat"
      /\ At(t) = K /\ Half(t) = 1 /\ ~Past(t) /\ ~Through(t)
      /\ Sharing(K) /\ Holding(t)
  BY <1>p, ChunkFacts
<1>u. \A u \in Team : /\ ~Ended(u) /\ Half(u) = 1 /\ At(u) = K
                      /\ Rest(cgraph, At(u)) = Rest(cgraph, K)
                      /\ DataOf(u)
                      /\ pc[u] = "chunks" => Holding(u) /\ node[u] = K
  BY <1>p, ChunkFacts
<1>c. C \in Nat /\ C >= n_graph.n /\ n_graph.n \in Nat /\ Team \subseteq Thread
  BY <1>h, PieceFacts, TeamFacts
<1>3. /\ UNCHANGED <<bvars, n_barrier_passed, wdata, abort, ec, graph, nth, node>>
      /\ pc'[t] \in {"chunks", "after"}
  BY <1>p DEF Chunk, Types, Go, bvars
<1>4. \/ /\ chunk[t] >= C /\ pc'[t] = "after"
         /\ UNCHANGED <<current_chunk, chunk, made, twice>>
      \/ /\ chunk[t] < C /\ made' = made \cup {<<K, chunk[t]>>}
         /\ twice' = (twice \/ <<K, chunk[t]>> \in made)
         /\ \/ n_graph.n >= C /\ pc'[t] = "after" /\ UNCHANGED <<current_chunk, chunk>>
            \/ /\ pc'[t] = "chunks" /\ chunk'[t] = current_chunk
               /\ current_chunk' = current_chunk + 1
  <2>1. Chunks(Node(t).chunks, nth[t]) = C /\ nth[t] = n_graph.n
    BY <1>h DEF Node
  <2>2. chunk[t] \in Nat /\ pc \in [Thread -> PC] /\ chunk \in [Thread -> Nat]
    BY DEF Types
  <2> HIDE DEF C, K
  <2>3. CASE chunk[t] >= C
    BY <2>1, <2>2, <2>3 DEF Chunk, Go
  <2>4. CASE ~(chunk[t] >= C)
    <3>1. chunk[t] < C
      BY <2>2, <2>4, <1>c
    <3>2. Make(node[t], chunk[t])
          /\ IF nth[t] >= C
             THEN Go(t, "after") /\ UNCHANGED <<current_chunk, chunk>>
             ELSE /\ chunk' = [chunk EXCEPT ![t] = current_chunk]
                  /\ current_chunk' = current_chunk + 1
                  /\ UNCHANGED pc
      BY <2>1, <2>4 DEF Chunk
    <3>3. /\ made' = made \cup {<<K, chunk[t]>>}
          /\ twice' = (twice \/ <<K, chunk[t]>> \in made)
      BY <3>2 DEF Make, K
    <3> QED
      BY <2>1, <2>2, <3>1, <3>2, <3>3, <1>p DEF Go
  <2> QED
    BY <2>3, <2>4
<1>5. Length' = Length /\ Team' = Team /\ InCall(t)' /\ ~Waiting(t)' /\ bpc'[t] = "out"
      /\ ~Unstarted(t)' /\ ~Ended(t)' /\ InGraph(t)'
  BY <1>1, <1>3, <1>p, <1>h DEF Length, Team, InCall, Waiting, Unstarted, Ended, InGraph, Outside,
       bvars
<1>6. At(t)' = K /\ Half(t)' = 1 /\ ~Past(t)' /\ (Through(t)' <=> pc'[t] = "after")
  <2>1. ~Past(t)' /\ (Through(t)' <=> pc'[t] = "after")
    BY <1>3, <1>5 DEF Past, Through
  <2>2. At(t)' = K
    BY <1>3, <1>5, <2>1 DEF At
  <2>3. Second(K)' = 1
    BY <1>1, <1>3, <1>h DEF Second
  <2> QED
    BY <1>3, <1>5, <2>1, <2>2, <2>3 DEF Half, Second
<1>7. Region(t)' = Region(t)
  BY <1>1, <1>5, <1>6, <1>h DEF Region, Rest
<1>8. Place(t)'
  BY <1>1, <1>3, <1>5, <1>h DEF Place, CallerPC, Computing, InGraph
<1>9. Places' /\ Agree' /\ Meeting'
  BY <1>1, <1>3, <1>7, <1>8, PlacesFrame, AgreeFrame, MeetingFrame
<1>10. Aborts'
  <2>1. abort # NoAbort => K < abort
    BY <1>p, <1>h DEF Aborts, Stops
  <2>2. Stops(t)'
    BY <1>3, <2>1 DEF Stops
  <2>3. t = Main => abort = NoAbort
    BY <1>p DEF Aborts
  <2> QED
    BY <1>1, <1>3, <2>2, <2>3, AbortsFrame
<1>s. /\ chunk[t] \in Nat /\ current_chunk \in Nat
      /\ chunk[t] < current_chunk /\ <<K, chunk[t]>> \notin made
      /\ \A u \in Team \ {t} : pc[u] = "chunks" => chunk[u] # chunk[t]
      /\ \A u \in Team : wdata[u] = K
      /\ current_chunk >= n_graph.n
      /\ \A p \in made : p[1] = K => p[2] < current_chunk
      /\ \A i \in 0 .. C - 1 :
           i < current_chunk =>
             <<K, i>> \in made \/ \E u \in Team : pc[u] = "chunks" /\ chunk[u] = i
      /\ \A u \in Team : pc[u] = "chunks" =>
           /\ chunk[u] < current_chunk /\ <<K, chunk[u]>> \notin made /\ chunk[u] \in Nat
           /\ \A v \in Team \ {u} : pc[v] = "chunks" => chunk[v] # chunk[u]
  BY <1>h, <1>u, <1>c DEF Sharing, Holding, Types
<1>o. \A u \in Team \ {t} : pc'[u] = pc[u] /\ chunk'[u] = chunk[u] /\ node'[u] = node[u]
  BY <1>1, <1>c DEF Untouched
<1>t. ~twice'
  <2>1. ~twice /\ <<K, chunk[t]>> \notin made
    BY <1>s
  <2>2. (twice' = twice) \/ (twice' = (twice \/ <<K, chunk[t]>> \in made))
    BY <1>4
  <2> HIDE DEF K
  <2> QED
    BY <2>1, <2>2
<1>11. Sharing(K)' /\ (pc'[t] = "after" => current_chunk' >= C)
       /\ \A u \in Team : pc'[u] = "chunks" => Holding(u)'
  <2> SUFFICES /\ \A u \in Team : wdata'[u] = K
               /\ current_chunk' >= n_graph.n
               /\ \A p \in made' : p[1] = K => p[2] < current_chunk'
               /\ \A i \in 0 .. C - 1 : i < current_chunk' =>
                     <<K, i>> \in made' \/ \E u \in Team : pc'[u] = "chunks" /\ chunk'[u] = i
               /\ pc'[t] = "after" => current_chunk' >= C
               /\ \A u \in Team : pc'[u] = "chunks" =>
                    /\ chunk'[u] < current_chunk' /\ <<K, chunk'[u]>> \notin made'
                    /\ \A v \in Team \ {u} : pc'[v] = "chunks" => chunk'[v] # chunk'[u]
    BY <1>1, <1>3, <1>5, <1>u, <1>o DEF Sharing, Holding
  <2>w. \A u \in Team : wdata'[u] = K
    BY <1>3, <1>s
  <2> HIDE DEF C, K
  <2>1. CASE /\ chunk[t] >= C /\ pc'[t] = "after"
             /\ UNCHANGED <<current_chunk, chunk, made, twice>>
    <3>1. \A i \in 0 .. C - 1 : i < current_chunk' =>
            <<K, i>> \in made' \/ \E u \in Team : pc'[u] = "chunks" /\ chunk'[u] = i
      <4> SUFFICES ASSUME NEW i \in 0 .. C - 1, i < current_chunk, <<K, i>> \notin made
                   PROVE  \E u \in Team : pc'[u] = "chunks" /\ chunk'[u] = i
        BY <2>1
      <4>1. PICK u \in Team : pc[u] = "chunks" /\ chunk[u] = i
        BY <1>s
      <4>2. u # t
        BY <2>1, <4>1, <1>c, <1>s
      <4> QED
        BY <4>1, <4>2, <1>o
    <3>2. current_chunk' >= C
      BY <2>1, <1>s, <1>c
    <3>3. \A u \in Team : pc'[u] = "chunks" => pc[u] = "chunks" /\ chunk'[u] = chunk[u] /\ u # t
      BY <2>1, <1>o
    <3> QED
      BY <2>1, <2>w, <3>1, <3>2, <3>3, <1>s
  <2>2. CASE /\ chunk[t] < C /\ made' = made \cup {<<K, chunk[t]>>}
             /\ n_graph.n >= C /\ pc'[t] = "after" /\ UNCHANGED <<current_chunk, chunk>>
    <3>1. \A i \in 0 .. C - 1 : i < current_chunk' =>
            <<K, i>> \in made' \/ \E u \in Team : pc'[u] = "chunks" /\ chunk'[u] = i
      <4> SUFFICES ASSUME NEW i \in 0 .. C - 1, i < current_chunk, <<K, i>> \notin made'
                   PROVE  \E u \in Team : pc'[u] = "chunks" /\ chunk'[u] = i
        BY <2>2
      <4>1. PICK u \in Team : pc[u] = "chunks" /\ chunk[u] = i
        BY <1>s, <2>2
      <4>2. u # t
        BY <2>2, <4>1
      <4> QED
        BY <4>1, <4>2, <1>o
    <3>2. current_chunk' >= C
      BY <2>2, <1>s, <1>c
    <3>3. \A u \in Team : pc'[u] = "chunks" => pc[u] = "chunks" /\ chunk'[u] = chunk[u] /\ u # t
      BY <2>2, <1>o
    <3>4. \A p \in made' : p[1] = K => p[2] < current_chunk'
      BY <2>2, <1>s
    <3>5. ASSUME NEW u \in Team, pc'[u] = "chunks" PROVE <<K, chunk'[u]>> \notin made'
      BY <2>2, <3>3, <3>5, <1>s
    <3> QED
      BY <2>2, <2>w, <3>1, <3>2, <3>3, <3>4, <3>5, <1>s
  <2>3. CASE /\ chunk[t] < C /\ made' = made \cup {<<K, chunk[t]>>}
             /\ pc'[t] = "chunks" /\ chunk'[t] = current_chunk
             /\ current_chunk' = current_chunk + 1
    <3>1. \A i \in 0 .. C - 1 : i < current_chunk' =>
            <<K, i>> \in made' \/ \E u \in Team : pc'[u] = "chunks" /\ chunk'[u] = i
      <4> SUFFICES ASSUME NEW i \in 0 .. C - 1, i < current_chunk + 1, <<K, i>> \notin made'
                   PROVE  \E u \in Team : pc'[u] = "chunks" /\ chunk'[u] = i
        BY <2>3
      <4>1. CASE i = current_chunk
        BY <2>3, <4>1, <1>h
      <4>2. CASE i # current_chunk
        <5>1. i < current_chunk
          BY <4>2, <1>s, <1>c
        <5>2. PICK u \in Team : pc[u] = "chunks" /\ chunk[u] = i
          BY <5>1, <1>s, <2>3
        <5>3. u # t
          BY <2>3, <5>2
        <5> QED
          BY <5>2, <5>3, <1>o
      <4> QED
        BY <4>1, <4>2
    <3>2. current_chunk' >= n_graph.n
      BY <2>3, <1>s, <1>c
    <3>3. \A p \in made' : p[1] = K => p[2] < current_chunk /\ p[2] < current_chunk'
      <4>1. \A p \in made : p[1] = K => p[2] < current_chunk
        BY <1>s
      <4> SUFFICES ASSUME NEW p \in made', p[1] = K PROVE p[2] \in Nat /\ p[2] < current_chunk
        BY <2>3, <1>s
      <4>2. CASE p = <<K, chunk[t]>>
        BY <4>2, <1>s
      <4>3. CASE p \in made
        <5>1. p \in Pieces(cgraph, p[1], n_graph.n)
          BY <4>3, <1>h, <1>u DEF DataOf, Filled
        <5>2. K \in 1 .. Length /\ cgraph[K].op = "mul_mat"
          BY <1>h DEF K
        <5>3. p = <<K, p[2]>>
          BY <5>1, <5>2, PieceFacts
        <5>4. p[2] \in 0 .. C - 1
          BY <5>1, <5>2, <5>3, PieceFacts DEF C
        <5> QED
          BY <4>1, <4>3, <5>4, <1>c
      <4> QED
        BY <4>2, <4>3, <2>3
    <3>4. \A u \in Team \ {t} : pc'[u] = "chunks" =>
             /\ pc[u] = "chunks" /\ chunk'[u] = chunk[u]
             /\ chunk[u] < current_chunk /\ chunk[u] \in Nat
      BY <1>o, <1>s
    <3>5. ASSUME NEW u \in Team, pc'[u] = "chunks"
          PROVE  /\ chunk'[u] < current_chunk' /\ <<K, chunk'[u]>> \notin made'
                 /\ \A v \in Team \ {u} : pc'[v] = "chunks" => chunk'[v] # chunk'[u]
      <4>1. CASE u = t
        <5>1. <<K, current_chunk>> \notin made'
          BY <3>3, <1>s
        <5> QED
          BY <2>3, <3>4, <4>1, <5>1, <1>s
      <4>2. CASE u # t
        <5>1. <<K, chunk[u]>> \notin made'
          BY <2>3, <3>4, <3>5, <4>2, <1>s
        <5> QED
          BY <2>3, <3>4, <3>5, <4>2, <5>1, <1>s
      <4> QED
        BY <4>1, <4>2
    <3> QED
      BY <2>3, <2>w, <3>1, <3>2, <3>3, <3>5
  <2> QED
    BY <1>4, <2>1, <2>2, <2>3
<1>12. Data'
  <2> SUFFICES ASSUME NEW u \in Team, ~Ended(u)' PROVE DataOf(u)'
    BY <1>5 DEF Data
  <2>1. /\ At(u)' = K /\ Half(u)' = 1 /\ Rest(cgraph, At(u))' = Rest(cgraph, K)
        /\ Through(u)' => current_chunk' >= C
        /\ pc'[u] = "chunks" => ~Waiting(u)'
    <3>1. CASE u = t
      BY <1>1, <1>4, <1>5, <1>6, <1>11, <3>1 DEF Rest
    <3>2. CASE u # t
      <4>1. At(u)' = K /\ Half(u)' = 1 /\ (Through(u)' <=> Through(u)) /\ pc'[u] = pc[u]
            /\ (Waiting(u)' <=> Waiting(u))
        BY <1>1, <1>3, <1>u, <1>c, <3>2, OthersFrame DEF Untouched
      <4>2. Through(u) => current_chunk >= C
        BY <1>u DEF DataOf
      <4>3. pc[u] = "chunks" => ~Waiting(u)
        BY <1>u DEF Half, Through, Past
      <4>4. current_chunk' >= current_chunk /\ current_chunk \in Nat /\ current_chunk' \in Nat
        BY <1>2, <1>4 DEF Types
      <4> QED
        BY <1>1, <1>c, <4>1, <4>2, <4>3, <4>4 DEF Rest
    <3> QED
      BY <3>1, <3>2
  <2>2. Filled(Rest(cgraph, K), 1)'
    <3>0. Filled(Rest(cgraph, K), 1)
      BY <1>h, <1>u DEF DataOf
    <3>1. \A m \in Rest(cgraph, K) : K <= m
      BY <1>h, RestRange
    <3>2. CASE made' = made
      <4>1. \A R, h : Filled(R, h) => Filled(R, h)'
        BY <1>1, <1>5, <3>2 DEF Filled, Pieces, Chunks
      <4>2. Rest(cgraph, K)' = Rest(cgraph, K)
        BY <1>1, <1>3 DEF Rest
      <4> QED
        BY <3>0, <4>1, <4>2
    <3>3. CASE chunk[t] < C /\ made' = made \cup {<<K, chunk[t]>>}
      <4>1. <<K, chunk[t]>> \in Pieces(cgraph, K, n_graph.n)
        <5>1. chunk[t] \in 0 .. C - 1
          BY <3>3, <1>c, <1>s
        <5> QED
          BY <1>h, <5>1, PieceFacts
      <4>2. \A R, h : Filled(R, h) /\ (\A m \in R : K <= m) /\ (h = 0 => cgraph[K].op # "mul_mat")
                      => Filled(R, h)'
        BY <1>1, <1>h, <3>3, <4>1, FilledMake
      <4>3. Rest(cgraph, K)' = Rest(cgraph, K)
        BY <1>1, <1>3 DEF Rest
      <4> QED
        BY <3>0, <3>1, <4>2, <4>3
    <3> QED
      BY <1>4, <3>2, <3>3
  <2>3. \A k \in Rest(cgraph, K) : cgraph[k].op = "rows" =>
           (<<k, u>> \in made' <=> Through(u)' /\ k = K)
    <3>1. \A k \in Rest(cgraph, K) : cgraph[k].op = "rows" => k # K /\ <<k, u>> \notin made
      BY <1>h, <1>u DEF DataOf
    <3>2. \A k \in Rest(cgraph, K) : cgraph[k].op = "rows" => <<k, u>> \notin made'
      BY <1>4, <3>1
    <3> QED
      BY <3>1, <3>2
  <2>4. C' = Chunks(cgraph[At(u)].chunks, n_graph.n)' /\ (Sharing(K)' => Sharing(At(u))')
    BY <1>1, <1>3, <2>1 DEF Chunks, Sharing
  <2>5. Filled(Rest(cgraph, At(u)), Half(u))'
    <3>1. Rest(cgraph, K)' = Rest(cgraph, K)
      BY <1>1, <1>3 DEF Rest
    <3> QED
      BY <2>1, <2>2, <3>1
  <2>6. C' = C
    BY <1>1, <1>3 DEF Chunks
  <2> HIDE DEF C
  <2> QED
    BY <1>1, <2>1, <2>3, <2>4, <2>5, <2>6, <1>11 DEF DataOf
<1>13. Result'
  BY <1>1, <1>3, <1>h, ResultBusy
<1> QED
  BY <1>2, <1>9, <1>10, <1>12, <1>13, <1>t

\* The conversion, with other threads to meet after it.
LEMMA ConvertInv ==
  ASSUME PoolInv, NEW t \in Thread, Convert(t), n_graph.n # 1
  PROVE  PoolInv'
<1> USE DEF PoolInv
<1>1. Untouched(t) /\ UNCHANGED <<cgraph, n_graph, last_graph>>
  BY ComputeFrame DEF ComputeStep
<1>2. Types'
  BY ComputeTypes DEF ComputeStep
<1> DEFINE K == node[t]
<1>3. /\ pc[t] = "convert" /\ pc'[t] = "chunks" /\ Arrive(t, n_graph.n)
      /\ UNCHANGED <<abort, ec, graph, nth, node, made, twice>>
      /\ wdata'[t] = K /\ chunk'[t] = t
      /\ IF t = Main THEN current_chunk' = nth[t] ELSE current_chunk' = current_chunk
  BY DEF Convert, Types, Go, Main
<1>h. /\ t \in Team /\ Place(t) /\ InCall(t) /\ ~Unstarted(t) /\ bpc[t] = "out"
      /\ ~Waiting(t) /\ ~Ended(t) /\ InGraph(t) /\ nth[t] = n_graph.n
      /\ K \in 1 .. Length /\ Length \in Nat /\ cgraph[K].op = "mul_mat"
  BY <1>3, GraphFacts DEF Places, Place, Computing, Unstarted, Waiting, Ended, InGraph
<1>4. At(t) = K /\ Half(t) = 0 /\ ~Past(t) /\ ~Through(t)
  BY <1>3, <1>h DEF At, Half, Past, Through
<1>m. /\ Meeting'
      /\ UNCHANGED n_barrier_passed /\ bpc'[t] = "read" /\ Waiting(t)'
  BY <1>1, <1>2, <1>3, <1>h, ArriveMeeting
<1>5. Length' = Length /\ Team' = Team /\ InCall(t)'
      /\ ~Unstarted(t)' /\ ~Ended(t)' /\ InGraph(t)'
  BY <1>1, <1>3, <1>h DEF Length, Team, InCall, Unstarted, Ended, InGraph
<1>6. At(t)' = K /\ Half(t)' = 0 /\ ~Past(t)' /\ ~Through(t)'
  BY <1>1, <1>3, <1>5, <1>m, <1>h DEF At, Half, Past, Through
<1>7. Region(t)' = Region(t)
  BY <1>1, <1>4, <1>5, <1>6, <1>h DEF Region, Rest
<1>8. Place(t)'
  BY <1>1, <1>3, <1>5, <1>m, <1>h DEF Place, CallerPC, Computing, InGraph
<1>9. Places' /\ Agree'
  BY <1>1, <1>m, <1>7, <1>8, PlacesFrame, AgreeFrame
<1>10. Aborts'
  <2>1. abort # NoAbort => K < abort
    BY <1>3, <1>h DEF Aborts, Stops
  <2>2. Stops(t)'
    BY <1>3, <2>1 DEF Stops
  <2>3. t = Main => abort = NoAbort
    BY <1>3 DEF Aborts
  <2> QED
    BY <1>1, <1>3, <1>m, <2>2, <2>3, AbortsFrame
<1>11. Data'
  <2> SUFFICES ASSUME NEW u \in Team, ~Ended(u)' PROVE DataOf(u)'
    BY <1>5 DEF Data
  <2>1. /\ ~Ended(u) /\ Half(u) = 0 /\ At(u)' = At(u) /\ Half(u)' = 0
        /\ Through(u)' <=> Through(u)
    <3>1. CASE u = t
      BY <1>3, <1>4, <1>6, <1>h, <3>1
    <3>2. CASE u # t
      <4>1. ~Ended(u) /\ Half(u) = Half(t)
        BY <1>4, <1>h, SamePart
      <4> QED
        BY <1>1, <1>4, <1>m, <3>2, <4>1, OthersFrame, TeamFacts
    <3> QED
      BY <3>1, <3>2
  <2>2. DataOf(u)
    BY <2>1 DEF Data
  <2>3. Rest(cgraph, At(u))' = Rest(cgraph, At(u))
    BY <1>1, <2>1 DEF Rest
  <2>4. \A R, h : Filled(R, h) => Filled(R, h)'
    BY <1>1, <1>3, <1>5 DEF Filled, Pieces, Chunks
  <2>5. Filled(Rest(cgraph, At(u)), Half(u))'
    BY <2>1, <2>2, <2>3, <2>4 DEF DataOf
  <2>6. pc'[u] = "chunks" /\ Waiting(u)' =>
         wdata'[u] = node'[u] /\ chunk'[u] = u /\ (u = Main => current_chunk' = n_graph'.n)
    <3>1. CASE u = t
      BY <1>1, <1>3, <1>h, <3>1
    <3>2. CASE u # t
      <4>1. /\ pc'[u] = pc[u] /\ (Waiting(u)' <=> Waiting(u)) /\ wdata'[u] = wdata[u]
            /\ node'[u] = node[u] /\ chunk'[u] = chunk[u]
        BY <1>1, <1>m, <3>2, OthersFrame, TeamFacts DEF Untouched
      <4> QED
        BY <1>1, <1>3, <2>2, <3>2, <4>1 DEF DataOf
    <3> QED
      BY <3>1, <3>2
  <2> QED
    BY <1>1, <1>3, <2>1, <2>2, <2>3, <2>5, <2>6 DEF DataOf
<1>12. Result'
  BY <1>1, <1>3, <1>m, <1>h, ResultBusy
<1> QED
  BY <1>2, <1>3, <1>m, <1>9, <1>10, <1>11, <1>12

\* The end of a node: the threads that are not at the barrier after it yet
\* cannot be beyond the node the caller's abort names.
LEMMA AfterAborts ==
  ASSUME PoolInv, NEW t \in Team, pc[t] = "after", t = Main, Untouched(t),
         UNCHANGED <<n_barrier_passed, n_graph, cgraph>>,
         pc'[t] = "loop", node'[t] = node[t] + 1,
         abort' = node[t] + 1, ec' = "aborted"
  PROVE  Aborts'
<1> USE DEF PoolInv
<1>1. /\ Place(t) /\ InCall(t) /\ ~Unstarted(t) /\ ~Ended(t) /\ t \in Thread
      /\ node[t] \in 1 .. Length /\ Length \in Nat /\ cgraph[node[t]].op # "nop"
  <2>1. t \in Thread /\ Place(t) /\ Length \in Nat
    BY TeamFacts, GraphFacts DEF Places
  <2>2. InCall(t) /\ InGraph(t)
    BY DEF InCall, InGraph
  <2> QED
    BY <2>1, <2>2 DEF Place, Unstarted, Ended
<1>2. At(t) = node[t]
  BY <1>1 DEF At, Past
<1>3. abort = NoAbort
  BY DEF Aborts
<1>4. Team' = Team /\ Length' = Length /\ Team \subseteq Thread
  BY TeamFacts DEF Team, Length
<1>5. ASSUME NEW u \in Team PROVE Stops(u)'
  <2>1. CASE u = t
    BY <2>1 DEF Stops
  <2>2. CASE u # t
    <3>1. (InGraph(u)' <=> InGraph(u)) /\ node'[u] = node[u] /\ pc'[u] = pc[u]
      BY <1>4, <2>2, OthersFrame DEF Untouched
    <3>2. /\ ~Ended(u) /\ At(u) <= node[t]
          /\ cgraph[At(u)].op # "nop" => At(u) = node[t]
      BY <1>1, <1>2, SameNode
    <3> SUFFICES ASSUME InGraph(u) PROVE Stops(u)'
      BY <3>1 DEF Stops
    <3>3. ~Unstarted(u) /\ node[u] \in 1 .. Length + 1
      BY <1>4, TeamFacts DEF InGraph, Unstarted, Places, Place, Computing
    <3>4. pc[u] = "leave" => node[u] = Length + 1
      BY <1>3, <3>3 DEF Aborts, Stops, NoAbort
    <3>5. node[u] < node[t] + 1 \/ (node[u] = node[t] + 1 /\ pc[u] \in {"loop", "leave"})
      <4>1. CASE Past(u)
        <5>1. At(u) = node[u] - 1 /\ cgraph[At(u)].op # "nop" /\ pc[u] \in {"loop", "leave"}
          BY <3>2, <4>1, AtFacts DEF Past
        <5> QED
          BY <1>1, <3>2, <3>3, <5>1
      <4>2. CASE ~Past(u)
        BY <1>1, <3>2, <3>3, <4>2 DEF At
      <4> QED
        BY <4>1, <4>2
    <3> QED
      BY <1>4, <3>1, <3>4, <3>5 DEF Stops
  <2> QED
    BY <2>1, <2>2
<1> QED
  BY <1>1, <1>4, <1>5 DEF Aborts, NoAbort

\* After a node, unless a single thread goes on to the next one.
LEMMA AfterInv ==
  ASSUME PoolInv, NEW t \in Thread, After(t), node[t] < Length => n_graph.n # 1
  PROVE  PoolInv'
<1> USE DEF PoolInv
<1>1. Untouched(t) /\ UNCHANGED <<cgraph, n_graph, last_graph>>
  BY ComputeFrame DEF ComputeStep
<1>2. Types'
  BY ComputeTypes DEF ComputeStep
<1> DEFINE K == node[t]
<1>3. /\ pc[t] = "after" /\ pc'[t] = "loop" /\ node'[t] = K + 1
      /\ UNCHANGED <<current_chunk, wdata, chunk, graph, nth, made, twice>>
  BY DEF After, Types, Go, ghost
<1>h. /\ t \in Team /\ Place(t) /\ InCall(t) /\ ~Unstarted(t) /\ bpc[t] = "out"
      /\ ~Waiting(t) /\ ~Ended(t) /\ InGraph(t) /\ graph[t] = cgraph /\ nth[t] = n_graph.n
      /\ K \in 1 .. Length /\ Length \in Nat /\ cgraph[K].op # "nop"
  BY <1>3, GraphFacts DEF Places, Place, Computing, Unstarted, Waiting, Ended, InGraph
<1>4. At(t) = K /\ Half(t) = Second(K) /\ ~Past(t) /\ Through(t)
  BY <1>3, <1>h DEF At, Half, Past, Through
<1>m. /\ Meeting' /\ UNCHANGED n_barrier_passed
      /\ IF K < Length THEN Waiting(t)' ELSE bpc'[t] = "out" /\ ~Waiting(t)'
  <2>1. CASE K < Length
    <3>1. Arrive(t, n_graph.n)
      BY <1>h, <2>1 DEF After, Length
    <3> QED
      BY <1>1, <1>2, <1>h, <2>1, <3>1, ArriveMeeting
  <2>2. CASE ~(K < Length)
    <3>1. UNCHANGED bvars
      BY <1>h, <2>2 DEF After, Length
    <3> QED
      BY <1>1, <1>h, <2>2, <3>1, MeetingFrame DEF bvars, Waiting
  <2> QED
    BY <2>1, <2>2
<1>5. Length' = Length /\ Team' = Team /\ InCall(t)'
      /\ ~Unstarted(t)' /\ ~Ended(t)' /\ InGraph(t)'
  BY <1>1, <1>3, <1>h DEF Length, Team, InCall, Unstarted, Ended, InGraph
<1>6. Past(t)' /\ Through(t)'
  <2>1. CASE K < Length
    BY <1>3, <1>5, <1>m, <2>1 DEF Past, Through
  <2>2. CASE ~(K < Length)
    <3>1. K = Length /\ LastDone(node[t])'
      BY <1>1, <1>3, <1>5, <1>h, <2>2 DEF LastDone
    <3> QED
      BY <1>3, <1>5, <3>1 DEF Past, Through
  <2> QED
    BY <2>1, <2>2
<1>7. At(t)' = K /\ Half(t)' = Half(t)
  BY <1>1, <1>3, <1>4, <1>5, <1>6, <1>h DEF At, Half, Second
<1>8. Region(t)' = Region(t)
  BY <1>1, <1>4, <1>5, <1>7, <1>h DEF Region, Rest
<1>9. Place(t)'
  BY <1>1, <1>3, <1>5, <1>m, <1>h DEF Place, CallerPC, Computing, InGraph
<1>10. Places' /\ Agree'
  BY <1>1, <1>m, <1>8, <1>9, PlacesFrame, AgreeFrame
<1>11. Aborts'
  <2>1. CASE t = Main /\ abort' = K + 1 /\ ec' = "aborted"
    BY <1>1, <1>3, <1>m, <1>h, <2>1, AfterAborts
  <2>2. CASE UNCHANGED <<abort, ec>>
    <3>1. abort # NoAbort => K < abort
      BY <1>3, <1>h DEF Aborts, Stops
    <3>2. Stops(t)'
      <4>1. abort \in Nat
        BY DEF Types
      <4>2. abort # NoAbort => K + 1 < abort \/ K + 1 = abort
        BY <1>h, <3>1, <4>1
      <4> QED
        BY <1>3, <2>2, <4>2 DEF Stops
    <3>3. t = Main => abort = NoAbort
      BY <1>3 DEF Aborts
    <3> QED
      BY <1>1, <1>3, <1>m, <2>2, <3>2, <3>3, AbortsFrame
  <2> QED
    BY <2>1, <2>2 DEF After
<1>12. Data'
  BY <1>1, <1>3, <1>4, <1>5, <1>6, <1>7, <1>m, <1>h, DataFrame
<1>13. Result'
  BY <1>1, <1>3, <1>m, <1>h, ResultBusy
<1> QED
  BY <1>2, <1>3, <1>m, <1>10, <1>11, <1>12, <1>13

\* The end of the graph for a thread.
LEMMA LeaveInv ==
  ASSUME PoolInv, NEW t \in Thread, Leave(t)
  PROVE  PoolInv'
<1> USE DEF PoolInv
<1>1. Untouched(t) /\ UNCHANGED <<cgraph, n_graph, last_graph>>
  BY ComputeFrame DEF ComputeStep
<1>2. Types'
  BY ComputeTypes DEF ComputeStep
<1>3. /\ pc[t] = "leave" /\ bpc[t] = "out" /\ pc'[t] = IF t = Main THEN "idle" ELSE "top"
      /\ UNCHANGED <<bvars, n_barrier_passed, made, wdata, chunk, current_chunk, abort, ec, twice>>
      /\ UNCHANGED <<graph, nth, node>>
  BY DEF Leave, Types, Go, bvars, pool, local, ghost, Outside
<1>4. /\ bpc'[t] = "out" /\ ~Waiting(t) /\ ~Waiting(t)' /\ (InCall(t)' <=> InCall(t))
      /\ Unstarted(t) <=> ~InCall(t)
      /\ Unstarted(t)' <=> ~InCall(t)
      /\ Ended(t) <=> InCall(t)
      /\ Ended(t)' <=> InCall(t)
      /\ ~InGraph(t)'
  BY <1>1, <1>3 DEF Waiting, InCall, Unstarted, Ended, InGraph, bvars
<1>5. ~InCall(t) => /\ At(t) = 1 /\ At(t)' = 1 /\ ~Through(t) /\ ~Through(t)'
                    /\ Half(t) = 0 /\ Half(t)' = 0
  BY <1>4 DEF At, Half, Through, Past
<1>6. Region(t)' = Region(t)
  BY <1>1, <1>4, <1>5 DEF Region, Rest
<1>7. Place(t)'
  BY <1>1, <1>3, <1>4 DEF Places, Place, CallerPC, OuterPC, Computing
<1>8. Places' /\ Agree' /\ Meeting'
  BY <1>1, <1>3, <1>6, <1>7, PlacesFrame, AgreeFrame, MeetingFrame
<1>9. Aborts'
  <2>1. Stops(t)'
    BY <1>3, <1>4 DEF Stops, InGraph
  <2>2. t = Main /\ abort # NoAbort => node[Main] = abort
    BY DEF Aborts
  <2> QED
    BY <1>1, <1>3, <2>1, <2>2, AbortsFrame
<1>10. Data'
  BY <1>1, <1>3, <1>4, <1>5, DataFrame
<1>11. Result'
  <2>1. \A k : Pieces(cgraph, k, n_graph.n)' = Pieces(cgraph, k, n_graph.n)
    BY <1>1 DEF Pieces, Chunks
  <2>2. CASE t = Main
    BY <1>1, <1>3, <1>4, <2>1, <2>2 DEF Result
  <2>3. CASE t # Main
    BY <1>1, <1>3, <2>3, ResultFrame
  <2> QED
    BY <2>2, <2>3
<1> QED
  BY <1>2, <1>3, <1>8, <1>9, <1>10, <1>11

(*****************************************************************************)
(* The steps in the barrier.                                                 *)
(*****************************************************************************)
\* A thread inside the barrier is in the call.
LEMMA InsideFacts ==
  ASSUME Types, Places, NEW t \in Thread, bpc[t] \in {"read", "add", "reset", "release"}
  PROVE  t \in Team /\ InCall(t) /\ Waiting(t) /\ ~Behind(t)
<1>1. Place(t)
  BY DEF Places
<1> QED
  BY <1>1 DEF Place, Computing, Waiting, Behind

\* A thread's part of the call does not depend on where it is in the barrier,
\* only on whether it still waits there.
LEMMA FrameWaiting ==
  ASSUME NEW t \in Thread, UNCHANGED <<n_graph, cgraph, pc[t], last_graph[t], node[t]>>,
         Waiting(t)' <=> Waiting(t)
  PROVE  /\ InCall(t)' <=> InCall(t)
         /\ Ended(t)' <=> Ended(t)
         /\ Through(t)' <=> Through(t)
         /\ At(t)' = At(t)
         /\ Half(t)' = Half(t)
         /\ Region(t)' = Region(t)
         /\ InGraph(t)' <=> InGraph(t)
         /\ Team' = Team /\ Length' = Length
<1>1. InCall(t)' <=> InCall(t)
  BY DEF InCall
<1>2. Team' = Team /\ Length' = Length
  BY DEF Team, Length
<1>3. (Unstarted(t)' <=> Unstarted(t)) /\ (InGraph(t)' <=> InGraph(t))
  BY <1>1 DEF Unstarted, InGraph
<1>4. Ended(t)' <=> Ended(t)
  BY <1>1, <1>3 DEF Ended
<1>5. (Past(t)' <=> Past(t)) /\ (Through(t)' <=> Through(t))
  BY <1>1, <1>2, <1>3 DEF Past, Through, LastDone
<1>6. At(t)' = At(t)
  BY <1>3, <1>5 DEF At
<1>7. \A k : Second(k)' = Second(k)
  BY DEF Second
<1>8. Half(t)' = Half(t)
  BY <1>1, <1>3, <1>5, <1>6, <1>7 DEF Half
<1>9. Region(t)' = Region(t)
  BY <1>4, <1>6, <1>8 DEF Region, Rest
<1> QED
  BY <1>1, <1>2, <1>3, <1>4, <1>5, <1>6, <1>8, <1>9

\* A step in the barrier after which the thread waits if it waited before
\* changes nothing but the barrier.
LEMMA WaitKeeps ==
  ASSUME PoolInv, NEW t \in Thread, Meet(t), n_barrier_passed' = n_barrier_passed,
         Waiting(t)' <=> Waiting(t), Meeting',
         bpc'[t] = "out" \/ bpc[t] \in {"read", "add", "reset"}
  PROVE  PoolInv'
<1> USE DEF PoolInv
<1>1. Untouched(t) /\ UNCHANGED <<cgraph, n_graph, last_graph>>
  BY ComputeFrame DEF ComputeStep
<1>2. Types'
  BY ComputeTypes DEF ComputeStep
<1>3. /\ UNCHANGED <<pc, made, wdata, chunk, current_chunk, abort, ec, twice>>
      /\ UNCHANGED <<graph, nth, node>>
  BY DEF Meet, pool, local, ghost
<1>4. /\ InCall(t)' <=> InCall(t)
      /\ Ended(t)' <=> Ended(t)
      /\ Through(t)' <=> Through(t)
      /\ At(t)' = At(t)
      /\ Half(t)' = Half(t)
      /\ Region(t)' = Region(t)
      /\ InGraph(t)' <=> InGraph(t)
      /\ Team' = Team /\ Length' = Length
  BY <1>1, <1>3, FrameWaiting
<1>5. Place(t)'
  <2>1. Place(t) /\ (bpc'[t] = "out" \/ (bpc[t] # "out" /\ InCall(t)))
    BY InsideFacts DEF Places
  <2> QED
    BY <1>1, <1>3, <1>4, <2>1 DEF Place
<1>6. Places' /\ Agree'
  BY <1>1, <1>4, <1>5, PlacesFrame, AgreeFrame
<1>7. Aborts'
  <2>1. t \in Team => Stops(t)'
    BY <1>3, <1>4 DEF Stops, Aborts
  <2> QED
    BY <1>1, <1>3, <2>1, AbortsFrame DEF Aborts
<1>8. Data'
  BY <1>1, <1>3, <1>4, DataFrame
<1>9. Result'
  <2>1. pc'[Main] = "leave" /\ ~Waiting(Main)' => pc[Main] = "leave" /\ ~Waiting(Main)
    BY <1>1, <1>3, OthersFrame, TeamFacts
  <2>2. \A k : Pieces(cgraph, k, n_graph.n)' = Pieces(cgraph, k, n_graph.n)
    BY <1>1 DEF Pieces, Chunks
  <2> QED
    BY <1>1, <1>3, <2>1, <2>2 DEF Result
<1> QED
  BY <1>2, <1>3, <1>6, <1>7, <1>8, <1>9

\* Reading n_barrier_passed and being counted.
LEMMA JoinInv ==
  ASSUME PoolInv, NEW t \in Thread, Meet(t), Join(t)
  PROVE  PoolInv'
<1> USE DEF PoolInv
<1>1. Untouched(t) /\ UNCHANGED <<cgraph, n_graph, last_graph>>
  BY ComputeFrame DEF ComputeStep
<1>2. Types'
  BY ComputeTypes DEF ComputeStep
<1>3. n_barrier_passed' = n_barrier_passed /\ party' = party /\ bpc[t] \in {"read", "add"}
  BY DEF Join
<1>4. t \in Team /\ InCall(t) /\ Waiting(t) /\ ~Behind(t) /\ Team \subseteq Thread /\ Team' = Team
      /\ InCall(t)'
  BY <1>1, <1>3, InsideFacts, TeamFacts DEF Team, InCall
<1>5. \A u \in Thread : bpc[u] \notin {"reset", "release"}
  BY <1>3, <1>4 DEF Meeting, Meets
<1>6. \A u \in Thread \ {t} : /\ bpc'[u] = bpc[u] /\ party'[u] = party[u] /\ seen'[u] = seen[u]
                             /\ (InCall(u)' <=> InCall(u)) /\ (Behind(u)' <=> Behind(u))
                             /\ (Waiting(u)' <=> Waiting(u))
  BY <1>1, <1>3, OthersFrame DEF Untouched
<1>7. party[t] = n_graph.n /\ (bpc[t] # "read" => seen[t] = n_barrier_passed)
  BY <1>4 DEF Meeting, Meets
<1>8. n_barrier = Cardinality(Inside) /\ Inside \subseteq Team
  BY <1>5 DEF Meeting, Inside
<1>9. CASE bpc[t] = "read"
  <2>1. bpc'[t] = "add" /\ seen'[t] = n_barrier_passed /\ n_barrier' = n_barrier
    BY <1>9 DEF Join, Types
  <2>2. Inside' = Inside
    BY <1>4, <1>6, <1>9, <2>1 DEF Inside
  <2>3. \A u \in Thread : Meets(u)'
    BY <1>1, <1>3, <1>4, <1>5, <1>6, <1>7, <2>1 DEF Meeting, Meets
  <2>4. Meeting'
    BY <1>8, <2>1, <2>2, <2>3 DEF Meeting
  <2>5. Waiting(t)'
    BY <2>1 DEF Waiting, Behind
  <2> QED
    BY <1>3, <1>4, <2>4, <2>5, WaitKeeps
<1>10. CASE bpc[t] = "add"
  <2>1. /\ n_barrier' = n_barrier + 1 /\ seen' = seen
        /\ bpc'[t] = IF n_barrier = party[t] - 1 THEN "reset" ELSE "spin"
    BY <1>10 DEF Join, Types
  <2>2. ~Behind(t)' /\ Waiting(t)'
    BY <1>3, <1>7, <1>10, <2>1 DEF Behind, Waiting
  <2>3. Inside' = Inside \cup {t} /\ t \notin Inside
    BY <1>4, <1>6, <1>10, <2>1, <2>2 DEF Inside
  <2>4. IsFiniteSet(Inside)
    BY <1>8, TeamFacts, FS_Subset
  <2>5. Cardinality(Inside') = n_barrier + 1
    BY <1>8, <2>3, <2>4, FS_AddElement
  <2>6. ASSUME n_barrier = party[t] - 1
        PROVE  \A u \in Team \ {t} : InCall(u) /\ bpc[u] = "spin" /\ ~Behind(u)
    <3>1. n_graph.n \in Nat /\ n_barrier \in Nat
      BY TeamFacts DEF Types
    <3>2. Cardinality(Inside') = Cardinality(Team)
      BY <1>7, <2>5, <2>6, <3>1, TeamFacts
    <3>3. Inside' \subseteq Team
      BY <1>4, <1>8, <2>3
    <3>4. Inside' = Team
      BY <3>2, <3>3, TeamFacts, FS_Subset
    <3> QED
      BY <1>4, <1>5, <2>3, <3>4 DEF Inside
  <2>7. \A u \in Thread : Meets(u)'
    BY <1>1, <1>3, <1>4, <1>5, <1>6, <1>7, <1>10, <2>1, <2>6 DEF Meeting, Meets
  <2>8. Meeting'
    BY <2>1, <2>5, <2>7 DEF Meeting
  <2> QED
    BY <1>3, <1>4, <2>2, <2>8, WaitKeeps
<1> QED
  BY <1>3, <1>9, <1>10

\* The last thread clears the count.
LEMMA ResetInv ==
  ASSUME PoolInv, NEW t \in Thread, Meet(t), Open(t), bpc[t] = "reset"
  PROVE  PoolInv'
<1> USE DEF PoolInv
<1>1. Untouched(t) /\ UNCHANGED <<cgraph, n_graph, last_graph>>
  BY ComputeFrame DEF ComputeStep
<1>3. /\ n_barrier_passed' = n_barrier_passed /\ party' = party /\ seen' = seen
      /\ n_barrier' = 0 /\ bpc'[t] = "release"
  BY DEF Open, Types
<1>4. t \in Team /\ InCall(t) /\ Waiting(t) /\ ~Behind(t) /\ Team \subseteq Thread /\ Team' = Team
      /\ InCall(t)'
  BY <1>1, <1>3, InsideFacts, TeamFacts DEF Team, InCall
<1>5. \A u \in Team \ {t} : InCall(u) /\ bpc[u] = "spin" /\ ~Behind(u)
  BY DEF Meeting, Meets
<1>6. \A u \in Thread \ {t} : /\ bpc'[u] = bpc[u] /\ party'[u] = party[u] /\ seen'[u] = seen[u]
                             /\ (InCall(u)' <=> InCall(u)) /\ (Behind(u)' <=> Behind(u))
                             /\ (Waiting(u)' <=> Waiting(u))
  BY <1>1, <1>3, OthersFrame DEF Untouched
<1>7. \A u \in Thread \ {t} : bpc[u] \notin {"reset", "release"}
  BY <1>5, InsideFacts
<1>8. Waiting(t)'
  BY <1>3 DEF Waiting, Behind
<1>9. \A u \in Thread : Meets(u)'
  BY <1>1, <1>3, <1>4, <1>5, <1>6, <1>7 DEF Meeting, Meets
<1>10. Meeting'
  BY <1>3, <1>9 DEF Meeting
<1> QED
  BY <1>3, <1>4, <1>8, <1>10, WaitKeeps

\* A spinning thread sees the crossing.
LEMMA SpinInv ==
  ASSUME PoolInv, NEW t \in Thread, Meet(t), SpinExit(t)
  PROVE  PoolInv'
<1> USE DEF PoolInv
<1>1. Untouched(t) /\ UNCHANGED <<cgraph, n_graph, last_graph>>
  BY ComputeFrame DEF ComputeStep
<1>3. /\ n_barrier_passed' = n_barrier_passed /\ party' = party /\ seen' = seen
      /\ n_barrier' = n_barrier /\ bpc[t] = "spin" /\ bpc'[t] = "out"
      /\ seen[t] # n_barrier_passed
  BY DEF SpinExit, Types
<1>4. ~Waiting(t) /\ ~Waiting(t)' /\ Behind(t) /\ Team \subseteq Thread /\ Team' = Team
  BY <1>1, <1>3, TeamFacts DEF Team, Waiting, Behind
<1>5. \A u \in Thread \ {t} : /\ bpc'[u] = bpc[u] /\ party'[u] = party[u] /\ seen'[u] = seen[u]
                             /\ (InCall(u)' <=> InCall(u)) /\ (Behind(u)' <=> Behind(u))
                             /\ (Waiting(u)' <=> Waiting(u))
  BY <1>1, <1>3, OthersFrame DEF Untouched
<1>6. t \in Team => \A u \in Thread : bpc[u] \notin {"reset", "release"}
  BY <1>3, <1>4 DEF Meeting, Meets
<1>7. Inside' = Inside
  BY <1>3, <1>4, <1>5 DEF Inside
<1>8. \A u \in Thread : Meets(u)'
  BY <1>1, <1>3, <1>4, <1>5, <1>6 DEF Meeting, Meets
<1>9. Meeting'
  <2>1. (\A u \in Thread : bpc'[u] # "release") => \A u \in Thread : bpc[u] # "release"
    BY <1>3, <1>5
  <2> QED
    BY <1>3, <1>7, <1>8, <2>1 DEF Meeting
<1> QED
  BY <1>3, <1>4, <1>9, WaitKeeps

\* When all threads of the call wait, they wait at the same point.
LEMMA AllWait ==
  ASSUME PoolInv, n_graph.n >= 1, \A u \in Team : InCall(u) /\ Waiting(u)
  PROVE  \/ \E k \in 1 .. Length - 1 : /\ cgraph[k].op # "nop"
                                       /\ \A u \in Team : pc[u] = "loop" /\ node[u] = k + 1
         \/ \E k \in 1 .. Length : /\ cgraph[k].op = "mul_mat"
                                   /\ \A u \in Team : pc[u] = "chunks" /\ node[u] = k
         \/ \E b \in 1 .. Length + 1 : \A u \in Team : pc[u] = "leave" /\ node[u] = b
<1> USE DEF PoolInv
<1>1. Main \in Team /\ Length \in Nat /\ Team \subseteq Thread /\ n_graph.n \in Nat
  BY TeamFacts, GraphFacts DEF Team, Main
<1>2. ASSUME NEW u \in Team
      PROVE  /\ pc[u] \in {"loop", "chunks", "leave"} /\ ~Unstarted(u) /\ ~Ended(u) /\ InGraph(u)
             /\ node[u] \in 1 .. Length + 1
             /\ pc[u] = "loop" => /\ Past(u) /\ At(u) = node[u] - 1 /\ At(u) \in 1 .. Length - 1
                                  /\ cgraph[At(u)].op # "nop" /\ Half(u) = Second(At(u))
             /\ pc[u] = "chunks" => /\ At(u) = node[u] /\ At(u) \in 1 .. Length
                                    /\ cgraph[At(u)].op = "mul_mat" /\ Half(u) = 0
             /\ pc[u] = "leave" =>
                  \/ At(u) = Length /\ Length >= 1 /\ cgraph[At(u)].op # "nop" 
                     /\ Half(u) = Second(Length) /\ node[u] = Length + 1
                  \/ At(u) = node[u] /\ node[u] = Length + 1
                  \/ At(u) = node[u] /\ node[u] = abort /\ abort # NoAbort
  <2>1. Place(u) /\ InCall(u) /\ Waiting(u) /\ bpc[u] # "out" /\ node[u] \in Nat
    BY <1>1 DEF Places, Waiting, Types
  <2>2. pc[u] \in {"loop", "chunks", "leave"} /\ ~Unstarted(u) /\ ~Ended(u) /\ InGraph(u)
        /\ node[u] \in 1 .. Length + 1
    BY <2>1 DEF Place, Unstarted, Ended, InGraph
  <2>3. ASSUME pc[u] = "loop"
        PROVE  /\ Past(u) /\ At(u) = node[u] - 1 /\ At(u) \in 1 .. Length - 1
               /\ cgraph[At(u)].op # "nop" /\ Half(u) = Second(At(u))
    <3>1. Past(u) /\ Through(u) /\ At(u) = node[u] - 1
      BY <2>1, <2>2, <2>3 DEF Past, Through, At
    <3> QED
      BY <1>1, <2>1, <2>2, <2>3, <3>1 DEF Place, Half
  <2>4. ASSUME pc[u] = "chunks"
        PROVE  /\ At(u) = node[u] /\ At(u) \in 1 .. Length
               /\ cgraph[At(u)].op = "mul_mat" /\ Half(u) = 0
    <3>1. ~Past(u) /\ ~Through(u) /\ At(u) = node[u]
      BY <2>1, <2>2, <2>4 DEF Past, Through, At
    <3> QED
      BY <1>1, <2>1, <2>2, <2>4, <3>1 DEF Place, Half
  <2>5. ASSUME pc[u] = "leave"
        PROVE  \/ At(u) = Length /\ Length >= 1 /\ cgraph[At(u)].op # "nop"
                  /\ Half(u) = Second(Length) /\ node[u] = Length + 1
               \/ At(u) = node[u] /\ node[u] = Length + 1
               \/ At(u) = node[u] /\ node[u] = abort /\ abort # NoAbort
    <3>1. CASE LastDone(node[u])
      <4>1. Past(u) /\ Through(u) /\ node[u] = Length + 1
        BY <2>2, <2>5, <3>1 DEF Past, Through, LastDone
      <4>2. At(u) = Length
        BY <1>1, <2>2, <4>1 DEF At
      <4> QED
        BY <3>1, <4>1, <4>2 DEF Half, LastDone
    <3>2. CASE ~LastDone(node[u])
      <4>1. ~Past(u) /\ At(u) = node[u]
        BY <2>2, <2>5, <3>2 DEF Past, At
      <4>2. node[u] = Length + 1 \/ node[u] = abort
        BY <2>2, <2>5 DEF Aborts, Stops
      <4> QED
        BY <2>2, <4>1, <4>2 DEF NoAbort
    <3> QED
      BY <3>1, <3>2
  <2> QED
    BY <2>2, <2>3, <2>4, <2>5
<1>3. ASSUME NEW u \in Team, NEW v \in Team, At(u) \in 1 .. Length, cgraph[At(u)].op # "nop"
      PROVE  /\ Half(v) = Half(u) /\ At(v) <= At(u) /\ At(v) # Length + 1
             /\ cgraph[At(v)].op # "nop" => At(v) = At(u)
  BY <1>1, <1>2, <1>3, SameNode
<1>4. abort \in Nat /\ (abort # NoAbort => node[Main] = abort /\ pc[Main] \in {"loop", "leave"})
  BY <1>1, <1>2 DEF Aborts, Types
<1>5. CASE pc[Main] = "loop"
  <2> DEFINE k == node[Main] - 1
  <2>1. /\ k \in 1 .. Length - 1 /\ cgraph[k].op # "nop" /\ At(Main) = k
        /\ Half(Main) = Second(k)
    BY <1>1, <1>2, <1>5
  <2>2. ASSUME NEW u \in Team PROVE pc[u] = "loop" /\ node[u] = k + 1
    <3>1. /\ Half(u) = Second(k) /\ At(u) <= k /\ At(u) # Length + 1
          /\ cgraph[At(u)].op # "nop" => At(u) = k
      BY <1>1, <1>3, <2>1
    <3>2. pc[u] # "chunks"
      BY <1>2, <3>1 DEF Second
    <3>3. pc[u] # "leave"
      BY <1>1, <1>2, <1>4, <2>1, <3>1
    <3> QED
      BY <1>1, <1>2, <3>1, <3>2, <3>3
  <2> QED
    BY <2>1, <2>2
<1>6. CASE pc[Main] = "chunks"
  <2> DEFINE k == node[Main]
  <2>1. k \in 1 .. Length /\ cgraph[k].op = "mul_mat" /\ At(Main) = k /\ Half(Main) = 0
    BY <1>1, <1>2, <1>6
  <2>2. ASSUME NEW u \in Team PROVE pc[u] = "chunks" /\ node[u] = k
    <3>1. /\ Half(u) = 0 /\ At(u) <= k /\ At(u) # Length + 1
          /\ cgraph[At(u)].op # "nop" => At(u) = k
      BY <1>1, <1>3, <2>1
    <3>2. pc[u] # "loop"
      BY <1>2, <2>1, <3>1 DEF Second
    <3>3. pc[u] # "leave"
      BY <1>2, <1>4, <1>6, <2>1, <3>1 DEF Second
    <3> QED
      BY <1>2, <2>1, <3>1, <3>2, <3>3
  <2> QED
    BY <2>1, <2>2
<1>7. CASE pc[Main] = "leave"
  <2> DEFINE b == node[Main]
  <2>1. b \in 1 .. Length + 1
    BY <1>1, <1>2
  <2>m. \/ At(Main) = Length /\ Length >= 1 /\ cgraph[At(Main)].op # "nop" 
           /\ Half(Main) = Second(Length) /\ b = Length + 1
        \/ At(Main) = b /\ b = Length + 1
        \/ At(Main) = b /\ b = abort /\ abort # NoAbort
    BY <1>1, <1>2, <1>7
  <2>2. ASSUME NEW u \in Team PROVE pc[u] = "leave" /\ node[u] = b
    <3>1. abort # NoAbort => node[u] < abort \/ (node[u] = abort /\ pc[u] \in {"loop", "leave"})
      BY <1>2 DEF Aborts, Stops
    <3>2. pc[u] # "loop"
      <4> SUFFICES ASSUME pc[u] = "loop" PROVE FALSE
        OBVIOUS
      <4>1. At(u) = node[u] - 1 /\ At(u) \in 1 .. Length - 1 /\ cgraph[At(u)].op # "nop"
        BY <1>2
      <4>2. /\ At(Main) <= At(u) /\ At(Main) # Length + 1
            /\ cgraph[At(Main)].op # "nop" => At(Main) = At(u)
        BY <1>1, <1>3, <4>1
      <4> QED
        BY <1>1, <1>2, <1>4, <2>1, <2>m, <3>1, <4>1, <4>2
    <3>3. pc[u] # "chunks"
      <4> SUFFICES ASSUME pc[u] = "chunks" PROVE FALSE
        OBVIOUS
      <4>1. /\ At(u) = node[u] /\ At(u) \in 1 .. Length
            /\ cgraph[At(u)].op = "mul_mat" /\ Half(u) = 0
        BY <1>2
      <4>2. /\ Half(Main) = 0 /\ At(Main) <= At(u) /\ At(Main) # Length + 1
            /\ cgraph[At(Main)].op # "nop" => At(Main) = At(u)
        BY <1>1, <1>3, <4>1
      <4> QED
        BY <1>1, <1>2, <1>4, <2>1, <2>m, <3>1, <4>1, <4>2 DEF Second
    <3>4. pc[u] = "leave"
      BY <1>2, <3>2, <3>3
    <3>5. node[u] = Length + 1 \/ (node[u] = abort /\ abort # NoAbort)
      BY <1>2, <3>4
    <3>6. b = Length + 1 \/ (b = abort /\ abort # NoAbort)
      BY <2>m
    <3>7. abort # NoAbort => b = abort
      BY <1>4
    <3> QED
      BY <1>1, <1>2, <1>4, <2>1, <3>1, <3>4, <3>5, <3>6, <3>7
  <2> QED
    BY <2>1, <2>2
<1> QED
  BY <1>1, <1>2, <1>5, <1>6, <1>7

\* All threads are through with node k: its pieces are there, and none of a
\* later node.
LEMMA NodeDone ==
  ASSUME PoolInv, NEW k \in 1 .. Length, cgraph[k].op # "nop", n_graph.n >= 1,
         \A u \in Team : ~Ended(u) /\ Through(u) /\ At(u) = k
  PROVE  /\ Filled(Rest(cgraph, k + 1), 0)
         /\ \A j \in Rest(cgraph, k + 1) : \A p \in made : p[1] < j
<1> USE DEF PoolInv
<1>1. Main \in Team /\ Length \in Nat /\ Team \subseteq Thread /\ n_graph.n \in Nat
  BY TeamFacts, GraphFacts DEF Team, Main
<1>2. \A u \in Team : DataOf(u) /\ pc[u] # "chunks" /\ Half(u) = Second(k)
  BY DEF Data, Through, Past, Half
<1>3. Filled(Rest(cgraph, k), Second(k))
  BY <1>1, <1>2 DEF DataOf
<1>4. k \in Rest(cgraph, k) /\ Rest(cgraph, k + 1) = Rest(cgraph, k) \ {k}
  BY <1>1, RestNop
<1>5. \A j \in Rest(cgraph, k + 1) : j \in Nat /\ k < j
  BY <1>1, RestRange
<1>6. Pieces(cgraph, k, n_graph.n) \subseteq made
  <2> SUFFICES ASSUME NEW p \in Pieces(cgraph, k, n_graph.n) PROVE p \in made
    OBVIOUS
  <2>1. p = <<k, p[2]>>
    BY PieceFacts
  <2>2. \/ cgraph[k].op = "rows" /\ p[2] \in Team
        \/ cgraph[k].op = "mul_mat" /\ p[2] \in 0 .. Chunks(cgraph[k].chunks, n_graph.n) - 1
    BY <2>1, PieceFacts
  <2>3. CASE cgraph[k].op = "rows" /\ p[2] \in Team
    BY <1>2, <1>4, <2>1, <2>3 DEF DataOf
  <2>4. CASE cgraph[k].op = "mul_mat" /\ p[2] \in 0 .. Chunks(cgraph[k].chunks, n_graph.n) - 1
    <3>1. Half(Main) = 1
      BY <1>1, <1>2, <2>4 DEF Second
    <3>2. Sharing(k) /\ current_chunk >= Chunks(cgraph[k].chunks, n_graph.n)
      BY <1>1, <1>2, <3>1 DEF DataOf
    <3>3. p[2] < current_chunk
      <4>1. Chunks(cgraph[k].chunks, n_graph.n) \in Nat
        BY PieceFacts
      <4>2. current_chunk \in Nat
        BY DEF Types
      <4>3. current_chunk >= Chunks(cgraph[k].chunks, n_graph.n)
        BY <3>2
      <4> HIDE DEF PoolInv
      <4> QED
        BY <2>4, <4>1, <4>2, <4>3
    <3> QED
      BY <1>2, <2>1, <2>4, <3>2, <3>3 DEF Sharing
  <2> QED
    BY <2>2, <2>3, <2>4
<1>7. \A p \in made : p[1] \in 1 .. Length /\ p[1] <= k /\ p \in Pieces(cgraph, p[1], n_graph.n)
  BY <1>3, <1>4 DEF Filled
<1>8. \A j \in Rest(cgraph, k + 1) : \A p \in made : p[1] < j
  BY <1>1, <1>5, <1>7
<1>9. \A j \in 1 .. Length :
        j \notin Rest(cgraph, k + 1) => Pieces(cgraph, j, n_graph.n) \subseteq made
  BY <1>3, <1>4, <1>6 DEF Filled
<1>10. \A m \in Rest(cgraph, k + 1) : \A p \in made : p[1] <= m /\ p[1] # m
  BY <1>5, <1>7, <1>8
<1> QED
  BY <1>7, <1>8, <1>9, <1>10 DEF Filled

\* All threads have come to the end, after the last node or before the one
\* they stop at: what has been made is the result.
LEMMA EndResult ==
  ASSUME PoolInv, NEW b \in 1 .. Length + 1, n_graph.n >= 1,
         \A u \in Team : /\ ~Ended(u)
                         /\ IF LastDone(b) THEN Through(u) /\ At(u) = Length
                                           ELSE ~Through(u) /\ At(u) = b /\ Half(u) = 0,
         (b = Length + 1 /\ abort = NoAbort) \/ b = abort
  PROVE  LET last == IF ec = "aborted" THEN abort - 1 ELSE Len(cgraph)
         IN made = UNION {Pieces(cgraph, k, n_graph.n) : k \in 1 .. last}
<1> USE DEF PoolInv
<1>1. Main \in Team /\ Length \in Nat /\ Team \subseteq Thread /\ n_graph.n \in Nat
  BY TeamFacts, GraphFacts DEF Team, Main
<1>2. b - 1 = IF ec = "aborted" THEN abort - 1 ELSE Len(cgraph)
  BY <1>1 DEF Aborts, Types, NoAbort, Length
<1>3. /\ \A j \in 1 .. b - 1 : Pieces(cgraph, j, n_graph.n) \subseteq made
      /\ \A p \in made : p[1] \in 1 .. b - 1 /\ p \in Pieces(cgraph, p[1], n_graph.n)
  <2>1. CASE LastDone(b)
    <3>1. b = Length + 1 /\ Length \in 1 .. Length /\ cgraph[Length].op # "nop"
      BY <1>1, <2>1 DEF LastDone
    <3>2. Filled(Rest(cgraph, Length + 1), 0)
      BY <2>1, <3>1, NodeDone
    <3>3. Rest(cgraph, Length + 1) = {}
      BY <1>1, RestRange
    <3>4. b - 1 = Length
      BY <1>1, <3>1
    <3> QED
      BY <3>2, <3>3, <3>4 DEF Filled
  <2>2. CASE ~LastDone(b)
    <3>1. \A u \in Team : DataOf(u) /\ ~Through(u) /\ At(u) = b /\ Half(u) = 0
      BY <2>2 DEF Data
    <3>2. Filled(Rest(cgraph, b), 0)
      BY <1>1, <3>1 DEF DataOf
    <3>3. \A j \in 1 .. b - 1 : j \in 1 .. Length /\ j \notin Rest(cgraph, b)
      BY <1>1, RestRange
    <3>4. ASSUME NEW p \in made
          PROVE  p[1] \in 1 .. b - 1 /\ p \in Pieces(cgraph, p[1], n_graph.n)
      <4>1. p[1] \in 1 .. Length /\ p \in Pieces(cgraph, p[1], n_graph.n)
        BY <3>2 DEF Filled
      <4>2. p = <<p[1], p[2]>>
        BY <4>1, PieceFacts
      <4>3. cgraph[p[1]].op = "mul_mat" \/ (cgraph[p[1]].op = "rows" /\ p[2] \in Team)
        BY <4>1, <4>2, PieceFacts
      <4>4. p[1] \notin Rest(cgraph, b)
        <5> SUFFICES ASSUME p[1] \in Rest(cgraph, b) PROVE FALSE
          OBVIOUS
        <5>1. cgraph[p[1]].op # "mul_mat"
          BY <3>2 DEF Filled
        <5>2. <<p[1], p[2]>> \notin made
          BY <3>1, <4>3, <5>1 DEF DataOf
        <5> QED
          BY <4>2, <5>2
      <4> QED
        BY <1>1, <4>1, <4>3, <4>4 DEF Rest, Length
    <3> QED
      BY <3>2, <3>3, <3>4 DEF Filled
  <2> QED
    BY <2>1, <2>2
<1>4. made = UNION {Pieces(cgraph, k, n_graph.n) : k \in 1 .. b - 1}
  BY <1>3
<1> QED
  BY <1>2, <1>4

(*****************************************************************************)
(* Going on together, and alone.                                             *)
(*****************************************************************************)
\* All threads go on with the node after k: their part of the data is what is
\* left from there on, nothing of which has been made.
LEMMA NextNodeData ==
  ASSUME Types, NEW k \in 1 .. Length, k < Length,
         Filled(Rest(cgraph, k + 1), 0),
         \A j \in Rest(cgraph, k + 1) : \A p \in made : p[1] < j,
         UNCHANGED <<cgraph, n_graph, made>>,
         \A u \in Team : /\ InCall(u)' /\ ~Waiting(u)'
                         /\ pc'[u] = "loop" /\ node'[u] = k + 1
  PROVE  Data' /\ Agree'
<1>1. Team' = Team /\ Length' = Length /\ Length \in Nat
  BY GraphFacts DEF Team, Length
<1>2. ASSUME NEW u \in Team
      PROVE  ~Ended(u)' /\ ~Through(u)' /\ At(u)' = k + 1 /\ Half(u)' = 0
  <2>1. ~Unstarted(u)'
    BY DEF Unstarted
  <2>2. ~Ended(u)'
    BY <2>1 DEF Ended
  <2>3. ~Past(u)' /\ ~Through(u)'
    BY <1>1 DEF Past, Through, LastDone
  <2> QED
    BY <2>1, <2>2, <2>3 DEF At, Half
<1>3. \A R, h : Filled(R, h)' <=> Filled(R, h)
  BY <1>1 DEF Filled, Pieces, Chunks
<1>4. \A j : Rest(cgraph, j)' = Rest(cgraph, j)
  BY DEF Rest
<1>5. Agree'
  BY <1>1, <1>2, <1>4 DEF Agree, Region
<1>6. ASSUME NEW u \in Team PROVE DataOf(u)'
  <2>1. Filled(Rest(cgraph, At(u)), Half(u))'
    BY <1>2, <1>3, <1>4
  <2>2. \A j \in Rest(cgraph, k + 1) : <<j, u>> \notin made
    <3>1. \A j : <<j, u>>[1] = j
      OBVIOUS
    <3>2. \A j \in Rest(cgraph, k + 1) : j \in Nat
      BY RestRange
    <3> QED
      BY <3>1, <3>2
  <2> QED
    BY <1>2, <1>4, <2>1, <2>2 DEF DataOf
<1> QED
  BY <1>1, <1>5, <1>6 DEF Data

\* All threads are past the meeting in a multiplication: the work buffer is
\* converted, every thread holds the chunk of its index, the counter stands
\* behind these, and no piece of the node has been made.
LEMMA ChunksData ==
  ASSUME Types, NEW k \in 1 .. Length, cgraph[k].op = "mul_mat",
         Filled(Rest(cgraph, k), 0),
         \A u \in Team : \A j \in Rest(cgraph, k) :
            cgraph[j].op = "rows" => <<j, u>> \notin made,
         UNCHANGED <<cgraph, n_graph, made>>,
         current_chunk' = n_graph.n,
         \A u \in Team : /\ InCall(u)' /\ ~Waiting(u)'
                         /\ pc'[u] = "chunks" /\ node'[u] = k
                         /\ wdata'[u] = k /\ chunk'[u] = u
  PROVE  Data' /\ Agree'
<1>1. Team' = Team /\ Length' = Length /\ Length \in Nat /\ n_graph.n \in Nat
      /\ Team \subseteq Nat
  BY GraphFacts, TeamFacts DEF Team, Length
<1>2. ASSUME NEW u \in Team
      PROVE  ~Ended(u)' /\ ~Through(u)' /\ At(u)' = k /\ Half(u)' = 1
  <2>1. ~Unstarted(u)'
    BY DEF Unstarted
  <2>2. ~Ended(u)' /\ ~Past(u)' /\ ~Through(u)'
    BY <2>1 DEF Ended, Past, Through
  <2> QED
    BY <2>1, <2>2 DEF At, Half
<1>3. \A R, h : Filled(R, h)' <=> Filled(R, h)
  BY <1>1 DEF Filled, Pieces, Chunks
<1>4. \A j : Rest(cgraph, j)' = Rest(cgraph, j)
  BY DEF Rest
<1>5. Agree'
  BY <1>1, <1>2, <1>4 DEF Agree, Region
<1>6. k \in Rest(cgraph, k)
  BY <1>1, RestNop
<1>7. \A p \in made : p[1] # k
  BY <1>6 DEF Filled
<1>8. Filled(Rest(cgraph, k), 1)
  BY DEF Filled
<1>9. Sharing(k)'
  <2>1. \A u \in Team' : wdata'[u] = k
    BY <1>1
  <2>2. \A p \in made' : p[1] = k => p[2] < current_chunk'
    BY <1>7
  <2>3. ASSUME NEW i \in (0 .. Chunks(cgraph[k].chunks, n_graph.n) - 1)', i < current_chunk'
        PROVE  \E u \in Team' : pc'[u] = "chunks" /\ chunk'[u] = i
    <3>0. i \in Int /\ i >= 0
      OBVIOUS
    <3>1. i \in Team
      BY <1>1, <2>3, <3>0 DEF Team
    <3> QED
      BY <1>1, <3>1
  <2>4. current_chunk' >= n_graph'.n
    BY <1>1
  <2> QED
    BY <2>1, <2>2, <2>3, <2>4 DEF Sharing
<1>10. ASSUME NEW u \in Team PROVE DataOf(u)'
  <2>1. Filled(Rest(cgraph, At(u)), Half(u))'
    BY <1>2, <1>3, <1>4, <1>8
  <2>2. Holding(u)'
    <3>1. chunk'[u] < current_chunk'
      BY <1>1 DEF Team
    <3>2. <<k, u>> \notin made
      <4>1. <<k, u>>[1] = k
        OBVIOUS
      <4> QED
        BY <1>7, <4>1
    <3> QED
      BY <1>1, <3>1, <3>2 DEF Holding
  <2> QED
    BY <1>2, <1>4, <1>9, <2>1, <2>2 DEF DataOf
<1> QED
  BY <1>1, <1>5, <1>10 DEF Data

\* All threads are done: nothing is left to say of their data.
LEMMA EndedData ==
  ASSUME \A u \in Team : Ended(u)', Team' = Team
  PROVE  Data' /\ Agree'
BY DEF Data, Agree, Region

\* The same, by the pieces: the threads have come to a meeting inside node k.
LEMMA HalfWay ==
  ASSUME PoolInv, NEW k \in 1 .. Length, n_graph.n >= 1,
         \A u \in Team : ~Ended(u) /\ ~Through(u) /\ At(u) = k /\ Half(u) = 0
  PROVE  /\ Filled(Rest(cgraph, k), 0)
         /\ \A u \in Team : \A j \in Rest(cgraph, k) :
              cgraph[j].op = "rows" => <<j, u>> \notin made
<1> USE DEF PoolInv
<1>1. Main \in Team
  BY TeamFacts DEF Team, Main
<1>2. \A u \in Team : DataOf(u)
  BY DEF Data
<1> QED
  BY <1>1, <1>2 DEF DataOf

\* Publishing the crossing sets every thread of the call on its way out.
LEMMA ReleaseFacts ==
  ASSUME PoolInv, NEW t \in Thread, Meet(t), Open(t), bpc[t] = "release"
  PROVE  /\ n_graph.n >= 1 /\ t \in Team
         /\ \A u \in Team : InCall(u) /\ Waiting(u)
         /\ \A u \in Team : InCall(u)' /\ ~Waiting(u)' /\ bpc'[u] \in {"out", "spin"}
         /\ \A u \in Thread : Place(u)' /\ (InGraph(u)' => InGraph(u))
         /\ Meeting'
<1> USE DEF PoolInv
<1>1. Untouched(t) /\ UNCHANGED <<cgraph, n_graph, last_graph>>
  BY ComputeFrame DEF ComputeStep
<1>2. /\ UNCHANGED <<pc, graph, nth, node, n_barrier, party, seen>>
      /\ n_barrier_passed' = NextPassed /\ bpc'[t] = "out"
  BY DEF Open, Meet, pool, local, ghost, Types
<1>3. n_barrier_passed' # n_barrier_passed
  <2>1. n_barrier_passed \in 0 .. PassedMod - 1
    BY DEF Types
  <2> QED
    BY <1>2, <2>1, NextDiffers
<1>4. t \in Team /\ InCall(t) /\ Waiting(t) /\ Team \subseteq Thread /\ Team' = Team
      /\ Length' = Length /\ n_graph.n \in Nat
  BY <1>1, InsideFacts, TeamFacts DEF Team, Length
<1>5. n_graph.n >= 1
  BY <1>4 DEF Team
<1>6. n_barrier = 0 /\ \A u \in Team \ {t} : InCall(u) /\ bpc[u] = "spin" /\ ~Behind(u)
  BY DEF Meeting, Meets
<1>7. \A u \in Team : InCall(u) /\ Waiting(u)
  BY <1>4, <1>6 DEF Waiting
<1>8. \A u \in Thread : InCall(u)' <=> InCall(u)
  BY <1>1 DEF InCall
<1>9. \A u \in Thread \ {t} : bpc'[u] = bpc[u]
  BY <1>1 DEF Untouched
<1>10. ASSUME NEW u \in Team \ {t} PROVE Behind(u)' /\ ~Waiting(u)' /\ bpc'[u] = "spin"
  <2>1. bpc[u] = "spin" /\ seen[u] = n_barrier_passed /\ bpc'[u] = "spin" /\ seen'[u] = seen[u]
    BY <1>2, <1>4, <1>6, <1>9 DEF Behind
  <2> QED
    BY <1>3, <2>1 DEF Behind, Waiting
<1>11. ~Waiting(t)'
  BY <1>2 DEF Waiting
<1>12. \A u \in Team : InCall(u)' /\ ~Waiting(u)' /\ bpc'[u] \in {"out", "spin"}
  BY <1>2, <1>4, <1>7, <1>8, <1>10, <1>11
<1>13. ASSUME NEW u \in Thread PROVE InGraph(u)' => InGraph(u)
  <2>1. CASE u \in Team
    BY <1>2, <1>12, <2>1 DEF InGraph
  <2>2. CASE u \notin Team
    BY <1>2, <1>8, <2>2 DEF InGraph, Places, Place
  <2> QED
    BY <2>1, <2>2
<1>14. ASSUME NEW u \in Thread PROVE Place(u)'
  <2>1. Place(u)
    BY DEF Places
  <2>2. bpc'[u] # "out" => bpc[u] # "out"
    BY <1>2, <1>9
  <2>3. pc[u] = "loop" => ~Waiting(u)'
    BY <1>12, <2>1 DEF Place, Computing
  <2>4. bpc[u] \in {"out", "spin"} => bpc'[u] \in {"out", "spin"}
    BY <1>2, <1>9
  <2> QED
    BY <1>1, <1>2, <1>4, <1>8, <1>13, <2>1, <2>2, <2>3, <2>4 DEF Place
<1>15. Meeting'
  <2>1. \A u \in Thread : bpc'[u] \in {"out", "spin"}
    <3>1. \A u \in Thread \ Team : bpc[u] \in {"out", "spin"}
      BY InsideFacts DEF Types, BarrierPC
    <3> QED
      BY <1>4, <1>9, <1>12, <3>1
  <2>2. \A u \in Thread : Meets(u)'
    BY <1>4, <1>12, <2>1 DEF Meets
  <2>3. Inside' = {}
    <3>1. \A u \in Team' : ~(bpc'[u] \in {"spin", "reset"} /\ ~Behind(u)')
      BY <1>2, <1>4, <1>10
    <3> QED
      BY <3>1 DEF Inside
  <2>4. n_barrier' = Cardinality(Inside')
    BY <1>2, <1>6, <2>3, FS_EmptySet
  <2> QED
    BY <2>2, <2>4 DEF Meeting
<1> QED
  BY <1>4, <1>5, <1>7, <1>12, <1>13, <1>14, <1>15

\* The threads go on together: to the next node, to the chunks, or out of the
\* graph.
LEMMA ReleaseInv ==
  ASSUME PoolInv, NEW t \in Thread, Meet(t), Open(t), bpc[t] = "release"
  PROVE  PoolInv'
<1> USE DEF PoolInv
<1>1. Types' /\ UNCHANGED <<cgraph, n_graph, last_graph>>
  BY ComputeTypes, ComputeFrame DEF ComputeStep
<1>2. UNCHANGED <<pc, graph, nth, node, chunk, wdata, made, twice, current_chunk, abort, ec>>
  BY DEF Meet, pool, local, ghost
<1>3. /\ n_graph.n >= 1 /\ t \in Team
      /\ \A u \in Team : InCall(u) /\ Waiting(u)
      /\ \A u \in Team : InCall(u)' /\ ~Waiting(u)' /\ bpc'[u] \in {"out", "spin"}
      /\ \A u \in Thread : Place(u)' /\ (InGraph(u)' => InGraph(u))
      /\ Meeting'
  BY ReleaseFacts
<1>4. /\ Main \in Team /\ Team' = Team /\ Length' = Length /\ Length \in Nat
      /\ Team \subseteq Thread /\ n_graph.n \in Nat
  BY <1>1, <1>3, TeamFacts, GraphFacts DEF Team, Length, Main
<1>5. Places'
  BY <1>3 DEF Places
<1>6. Aborts'
  <2>1. \A u \in Team : Stops(u)'
    BY <1>2, <1>3, <1>4 DEF Aborts, Stops
  <2> QED
    BY <1>2, <1>4, <2>1 DEF Aborts
<1>7. \A k : Pieces(cgraph, k, n_graph.n)' = Pieces(cgraph, k, n_graph.n)
  BY <1>1 DEF Pieces, Chunks
<1>8. \A u \in Team : ~Unstarted(u) \/ pc[u] \in {"publish", "begin"}
  BY <1>3 DEF Unstarted
<1>9. SUFFICES Data' /\ Agree' /\ Result'
  BY <1>1, <1>2, <1>3, <1>5, <1>6
<1>10. CASE \E k \in 1 .. Length - 1 : /\ cgraph[k].op # "nop"
                                       /\ \A u \in Team : pc[u] = "loop" /\ node[u] = k + 1
  <2>1. PICK k \in 1 .. Length - 1 : /\ cgraph[k].op # "nop"
                                     /\ \A u \in Team : pc[u] = "loop" /\ node[u] = k + 1
    BY <1>10
  <2>2. k \in 1 .. Length /\ k < Length
    BY <1>4
  <2>3. ASSUME NEW u \in Team PROVE ~Ended(u) /\ Through(u) /\ At(u) = k
    <3>1. ~Unstarted(u) /\ pc[u] = "loop" /\ node[u] = k + 1 /\ Waiting(u)
      BY <1>3, <1>8, <2>1
    <3>2. Past(u)
      BY <3>1 DEF Past
    <3> QED
      BY <2>2, <3>1, <3>2 DEF Ended, Through, At
  <2>4. /\ Filled(Rest(cgraph, k + 1), 0)
        /\ \A j \in Rest(cgraph, k + 1) : \A p \in made : p[1] < j
    BY <1>3, <2>1, <2>2, <2>3, NodeDone
  <2>5. Data' /\ Agree'
    BY <1>1, <1>2, <1>3, <2>1, <2>2, <2>4, NextNodeData
  <2>6. Result'
    BY <1>2, <1>4, <2>1 DEF Result
  <2> QED
    BY <2>5, <2>6
<1>11. CASE \E k \in 1 .. Length : /\ cgraph[k].op = "mul_mat"
                                   /\ \A u \in Team : pc[u] = "chunks" /\ node[u] = k
  <2>1. PICK k \in 1 .. Length : /\ cgraph[k].op = "mul_mat"
                                 /\ \A u \in Team : pc[u] = "chunks" /\ node[u] = k
    BY <1>11
  <2>2. ASSUME NEW u \in Team
        PROVE  /\ ~Ended(u) /\ ~Through(u) /\ At(u) = k /\ Half(u) = 0
               /\ wdata[u] = k /\ chunk[u] = u /\ (u = Main => current_chunk = n_graph.n)
    <3>1. ~Unstarted(u) /\ pc[u] = "chunks" /\ node[u] = k /\ Waiting(u)
      BY <1>3, <1>8, <2>1
    <3>2. ~Past(u) /\ ~Ended(u) /\ ~Through(u)
      BY <3>1 DEF Past, Ended, Through
    <3>3. DataOf(u)
      BY <3>2 DEF Data
    <3> QED
      BY <3>1, <3>2, <3>3 DEF At, Half, DataOf
  <2>3. /\ Filled(Rest(cgraph, k), 0)
        /\ \A u \in Team : \A j \in Rest(cgraph, k) :
             cgraph[j].op = "rows" => <<j, u>> \notin made
    BY <1>3, <2>2, HalfWay
  <2>4. Data' /\ Agree'
    BY <1>1, <1>2, <1>3, <1>4, <2>1, <2>2, <2>3, ChunksData
  <2>5. Result'
    BY <1>2, <1>4, <2>1 DEF Result
  <2> QED
    BY <2>4, <2>5
<1>12. CASE \E b \in 1 .. Length + 1 : \A u \in Team : pc[u] = "leave" /\ node[u] = b
  <2>1. PICK b \in 1 .. Length + 1 : \A u \in Team : pc[u] = "leave" /\ node[u] = b
    BY <1>12
  <2>2. \A u \in Team : Ended(u)'
    BY <1>2, <1>3, <2>1 DEF Ended, Unstarted
  <2>3. ASSUME NEW u \in Team
        PROVE  /\ ~Ended(u)
               /\ IF LastDone(b) THEN Through(u) /\ At(u) = Length
                                 ELSE ~Through(u) /\ At(u) = b /\ Half(u) = 0
    <3>1. ~Unstarted(u) /\ pc[u] = "leave" /\ node[u] = b /\ Waiting(u)
      BY <1>3, <1>8, <2>1
    <3>2. ~Ended(u) /\ (Past(u) <=> LastDone(b)) /\ (Through(u) <=> LastDone(b))
      BY <3>1 DEF Ended, Past, Through
    <3>3. At(u) = IF LastDone(b) THEN b - 1 ELSE b
      BY <3>1, <3>2 DEF At
    <3>4. LastDone(b) => b - 1 = Length
      BY <1>4 DEF LastDone
    <3>5. ~LastDone(b) => Half(u) = 0
      BY <3>1, <3>2 DEF Half
    <3> QED
      BY <3>2, <3>3, <3>4, <3>5
  <2>4. (b = Length + 1 /\ abort = NoAbort) \/ b = abort
    BY <1>4, <2>1 DEF Aborts
  <2>5. LET last == IF ec = "aborted" THEN abort - 1 ELSE Len(cgraph)
        IN made = UNION {Pieces(cgraph, k, n_graph.n) : k \in 1 .. last}
    BY <1>3, <2>3, <2>4, EndResult
  <2>6. Result'
    BY <1>1, <1>2, <1>7, <2>5 DEF Result
  <2> QED
    BY <1>4, <2>2, <2>6, EndedData
<1> QED
  BY <1>3, <1>10, <1>11, <1>12, AllWait

\* The caller alone leaves the loop: the barrier lets it pass, and what it has
\* made is the result.
LEMMA LeaveLoopSolo ==
  ASSUME PoolInv, NEW t \in Thread, LoopHead(t),
         node[t] > Len(graph[t]) \/ abort = node[t], n_graph.n = 1
  PROVE  PoolInv'
<1> USE DEF PoolInv
<1>1. Untouched(t) /\ UNCHANGED <<cgraph, n_graph, last_graph>>
  BY ComputeFrame DEF ComputeStep
<1>2. Types'
  BY ComputeTypes DEF ComputeStep
<1>h. /\ pc[t] = "loop" /\ Outside(t)
      /\ t \in Team /\ Place(t) /\ InCall(t) /\ ~Unstarted(t) /\ ~Waiting(t) /\ ~Ended(t)
      /\ InGraph(t) /\ graph[t] = cgraph /\ nth[t] = n_graph.n
      /\ node[t] \in 1 .. Length + 1 /\ Length \in Nat
      /\ (Past(t) <=> LastDone(node[t])) /\ (Through(t) <=> LastDone(node[t]))
  BY HeadFacts DEF LoopHead
<1>s. t = Main /\ Team = {Main}
  BY <1>h, Solo
<1>3. /\ UNCHANGED <<made, wdata, chunk, current_chunk, abort, ec, twice, graph, nth, node>>
      /\ UNCHANGED <<bvars, n_barrier_passed>> /\ pc'[t] = "leave"
  BY DEF LoopHead, pool, ghost, Types, Go, Arrive, bvars
<1>4. Length' = Length /\ Team' = Team /\ InCall(t)' /\ bpc'[t] = "out" /\ ~Waiting(t)'
  BY <1>1, <1>3, <1>h DEF Length, Team, InCall, bvars, Outside, Waiting
<1>5. ~Unstarted(t)' /\ ~InGraph(t)' /\ Ended(t)'
  BY <1>1, <1>3, <1>4, <1>h DEF Unstarted, InGraph, Ended
<1>6. Place(t)'
  BY <1>1, <1>3, <1>4, <1>5, <1>h DEF Place, CallerPC, Computing
<1>7. Places' /\ Meeting'
  BY <1>1, <1>3, <1>6, PlacesFrame, MeetingFrame
<1>8. Data' /\ Agree'
  BY <1>4, <1>5, <1>s, EndedData
<1>9. (node[t] = Length + 1 /\ abort = NoAbort) \/ node[t] = abort
  BY <1>h, <1>s DEF Aborts, Length
<1>10. Aborts'
  <2>1. Stops(t)'
    BY <1>3, <1>5 DEF Stops
  <2>2. abort # NoAbort => node[t] = abort
    BY <1>9
  <2> QED
    BY <1>1, <1>3, <1>9, <2>1, <2>2, AbortsFrame
<1>11. Result'
  <2> DEFINE b == node[t]
  <2>1. IF LastDone(b) THEN Through(t) /\ At(t) = Length
                       ELSE ~Through(t) /\ At(t) = b /\ Half(t) = 0
    <3>1. At(t) = IF LastDone(b) THEN b - 1 ELSE b
      BY <1>h DEF At
    <3>2. LastDone(b) => b - 1 = Length
      BY <1>h DEF LastDone
    <3>3. ~LastDone(b) => Half(t) = 0
      BY <1>h DEF Half
    <3> QED
      BY <1>h, <3>1, <3>2, <3>3
  <2>2. LET last == IF ec = "aborted" THEN abort - 1 ELSE Len(cgraph)
        IN made = UNION {Pieces(cgraph, k, n_graph.n) : k \in 1 .. last}
    <3>1. \A u \in Team : /\ ~Ended(u)
                          /\ IF LastDone(b) THEN Through(u) /\ At(u) = Length
                                            ELSE ~Through(u) /\ At(u) = b /\ Half(u) = 0
      BY <1>h, <1>s, <2>1
    <3>2. n_graph.n >= 1 /\ b \in 1 .. Length + 1
      BY <1>h
    <3> HIDE DEF b
    <3> QED
      BY <1>9, <3>1, <3>2, EndResult DEF b
  <2>3. \A k : Pieces(cgraph, k, n_graph.n)' = Pieces(cgraph, k, n_graph.n)
    BY <1>1 DEF Pieces, Chunks
  <2> QED
    BY <1>1, <1>3, <2>2, <2>3 DEF Result
<1> QED
  BY <1>2, <1>3, <1>7, <1>8, <1>10, <1>11

\* The caller alone converts.
LEMMA ConvertSolo ==
  ASSUME PoolInv, NEW t \in Thread, Convert(t), n_graph.n = 1
  PROVE  PoolInv'
<1> USE DEF PoolInv
<1>1. Untouched(t) /\ UNCHANGED <<cgraph, n_graph, last_graph>>
  BY ComputeFrame DEF ComputeStep
<1>2. Types'
  BY ComputeTypes DEF ComputeStep
<1>3. /\ pc[t] = "convert" /\ pc'[t] = "chunks" /\ UNCHANGED <<bvars, n_barrier_passed>>
      /\ UNCHANGED <<abort, ec, graph, nth, node, made, twice>>
      /\ wdata'[t] = node[t] /\ chunk'[t] = t
      /\ t = Main => current_chunk' = nth[t]
  BY DEF Convert, Types, Go, Main, Arrive, bvars
<1>h. /\ t \in Team /\ Place(t) /\ InCall(t) /\ ~Unstarted(t) /\ bpc[t] = "out"
      /\ ~Waiting(t) /\ ~Ended(t) /\ InGraph(t) /\ nth[t] = n_graph.n
      /\ node[t] \in 1 .. Length /\ Length \in Nat /\ cgraph[node[t]].op = "mul_mat"
  BY <1>3, GraphFacts DEF Places, Place, Computing, Unstarted, Waiting, Ended, InGraph
<1>s. t = Main /\ Team = {Main}
  BY <1>h, Solo
<1>4. At(t) = node[t] /\ Half(t) = 0 /\ ~Past(t) /\ ~Through(t)
  BY <1>3, <1>h DEF At, Half, Past, Through
<1>5. Length' = Length /\ Team' = Team /\ InCall(t)' /\ bpc'[t] = "out" /\ ~Waiting(t)'
      /\ InGraph(t)'
  BY <1>1, <1>3, <1>h DEF Length, Team, InCall, bvars, Waiting, InGraph
<1>6. Place(t)'
  BY <1>1, <1>3, <1>5, <1>h DEF Place, CallerPC, Computing
<1>7. Places' /\ Meeting'
  BY <1>1, <1>3, <1>6, PlacesFrame, MeetingFrame
<1>8. Aborts'
  <2>1. t = Main => abort = NoAbort
    BY <1>3 DEF Aborts
  <2>2. Stops(t)'
    BY <1>3, <1>s, <2>1 DEF Stops
  <2> QED
    BY <1>1, <1>3, <2>1, <2>2, AbortsFrame
<1>9. Data' /\ Agree'
  <2>1. /\ Filled(Rest(cgraph, node[t]), 0)
        /\ \A u \in Team : \A j \in Rest(cgraph, node[t]) :
             cgraph[j].op = "rows" => <<j, u>> \notin made
    <3>1. n_graph.n >= 1
      BY <1>h
    <3>2. \A u \in Team : ~Ended(u) /\ ~Through(u) /\ At(u) = node[t] /\ Half(u) = 0
      BY <1>4, <1>h, <1>s
    <3> QED
      BY <1>h, <3>1, <3>2, HalfWay
  <2>2. \A u \in Team : /\ InCall(u)' /\ ~Waiting(u)'
                        /\ pc'[u] = "chunks" /\ node'[u] = node[t]
                        /\ wdata'[u] = node[t] /\ chunk'[u] = u
    BY <1>3, <1>5, <1>s
  <2>3. current_chunk' = n_graph.n
    BY <1>3, <1>h, <1>s
  <2> QED
    BY <1>1, <1>3, <1>h, <2>1, <2>2, <2>3, ChunksData
<1>10. Result'
  BY <1>1, <1>3, <1>h, ResultBusy
<1> QED
  BY <1>2, <1>3, <1>7, <1>8, <1>9, <1>10

\* The caller alone goes on to the next node.
LEMMA AfterSolo ==
  ASSUME PoolInv, NEW t \in Thread, After(t), node[t] < Length, n_graph.n = 1
  PROVE  PoolInv'
<1> USE DEF PoolInv
<1>1. Untouched(t) /\ UNCHANGED <<cgraph, n_graph, last_graph>>
  BY ComputeFrame DEF ComputeStep
<1>2. Types'
  BY ComputeTypes DEF ComputeStep
<1>3. /\ pc[t] = "after" /\ pc'[t] = "loop" /\ node'[t] = node[t] + 1
      /\ UNCHANGED <<current_chunk, wdata, chunk, graph, nth, made, twice>>
      /\ UNCHANGED <<bvars, n_barrier_passed>>
  BY DEF After, Types, Go, ghost, Arrive, bvars
<1>h. /\ t \in Team /\ Place(t) /\ InCall(t) /\ ~Unstarted(t) /\ bpc[t] = "out"
      /\ ~Waiting(t) /\ ~Ended(t) /\ InGraph(t) /\ graph[t] = cgraph /\ nth[t] = n_graph.n
      /\ node[t] \in 1 .. Length /\ Length \in Nat /\ cgraph[node[t]].op # "nop"
  BY <1>3, GraphFacts DEF Places, Place, Computing, Unstarted, Waiting, Ended, InGraph
<1>s. t = Main /\ Team = {Main}
  BY <1>h, Solo
<1>4. At(t) = node[t] /\ ~Past(t) /\ Through(t)
  BY <1>3, <1>h DEF At, Past, Through
<1>5. Length' = Length /\ Team' = Team /\ InCall(t)' /\ bpc'[t] = "out" /\ ~Waiting(t)'
      /\ InGraph(t)'
  BY <1>1, <1>3, <1>h DEF Length, Team, InCall, bvars, Waiting, InGraph
<1>6. Place(t)'
  BY <1>1, <1>3, <1>5, <1>h DEF Place, CallerPC, Computing
<1>7. Places' /\ Meeting'
  BY <1>1, <1>3, <1>6, PlacesFrame, MeetingFrame
<1>8. Aborts'
  <2>1. CASE abort' = node[t] + 1 /\ ec' = "aborted"
    BY <1>1, <1>3, <1>h, <1>s, <2>1, AfterAborts
  <2>2. CASE UNCHANGED <<abort, ec>>
    <3>1. abort = NoAbort
      BY <1>3, <1>s DEF Aborts
    <3>2. Stops(t)'
      BY <1>3, <2>2, <3>1 DEF Stops
    <3> QED
      BY <1>1, <1>3, <2>2, <3>1, <3>2, AbortsFrame
  <2> QED
    BY <2>1, <2>2 DEF After
<1>9. Data' /\ Agree'
  <2> DEFINE k == node[t]
  <2>1. \A u \in Team : ~Ended(u) /\ Through(u) /\ At(u) = k
    BY <1>4, <1>h, <1>s
  <2>2. n_graph.n >= 1 /\ k \in 1 .. Length /\ cgraph[k].op # "nop" /\ k < Length
    BY <1>h
  <2>3. \A u \in Team : /\ InCall(u)' /\ ~Waiting(u)'
                        /\ pc'[u] = "loop" /\ node'[u] = k + 1
    BY <1>3, <1>5, <1>s
  <2> HIDE DEF k
  <2>4. /\ Filled(Rest(cgraph, k + 1), 0)
        /\ \A j \in Rest(cgraph, k + 1) : \A p \in made : p[1] < j
    BY <2>1, <2>2, NodeDone
  <2> QED
    BY <1>1, <1>3, <2>2, <2>3, <2>4, NextNodeData
<1>10. Result'
  BY <1>1, <1>3, <1>h, ResultBusy
<1> QED
  BY <1>2, <1>3, <1>7, <1>8, <1>9, <1>10

(*****************************************************************************)
(* The steps outside a graph.                                                *)
(*****************************************************************************)
\* Every step of a thread in a graph.
LEMMA ComputeInv ==
  ASSUME PoolInv, NEW t \in Thread, ComputeStep(t)
  PROVE  PoolInv'
<1>1. CASE Begin(t)
  BY <1>1, BeginInv
<1>2. CASE LoopHead(t)
  BY <1>2, EnterInv, LeaveLoopInv, LeaveLoopSolo
<1>3. CASE Rows(t)
  BY <1>3, RowsInv
<1>4. CASE Convert(t)
  BY <1>4, ConvertInv, ConvertSolo
<1>5. CASE Chunk(t)
  BY <1>5, ChunkInv
<1>6. CASE After(t)
  BY <1>6, AfterInv, AfterSolo
<1>7. CASE Leave(t)
  BY <1>7, LeaveInv
<1>8. CASE Meet(t)
  <2>1. CASE Join(t)
    BY <1>8, <2>1, JoinInv
  <2>2. CASE Open(t)
    <3>1. bpc[t] \in {"reset", "release"}
      BY <2>2 DEF Open
    <3> QED
      BY <1>8, <2>2, <3>1, ResetInv, ReleaseInv
  <2>3. CASE SpinExit(t)
    BY <1>8, <2>3, SpinInv
  <2> QED
    BY <1>8, <2>1, <2>2, <2>3 DEF Meet, BarrierStep
<1> QED
  BY <1>1, <1>2, <1>3, <1>4, <1>5, <1>6, <1>7, <1>8 DEF ComputeStep

\* The moves outside a graph: of a worker that sleeps, wakes, polls or exits,
\* and of the caller that enters its graph or joins the workers.
Moved(t) ==
  \/ pc'[t] = pc[t]
  \/ t # Main /\ pc[t] \in OuterPC /\ pc'[t] \in OuterPC
  \/ t = Main /\ pc[t] = "publish" /\ pc'[t] = "begin"
  \/ t = Main /\ pc[t] = "idle" /\ pc'[t] = "join"
  \/ t = Main /\ pc[t] = "join" /\ pc'[t] = "freed"

\* These moves keep the invariant.
LEMMA MovedInv ==
  ASSUME PoolInv, Types', \A t \in Thread : Moved(t),
         UNCHANGED <<bvars, cgraph, n_graph, current_chunk, abort, ec, last_graph, graph, nth,
                     node, chunk, wdata, made, twice>>
  PROVE  PoolInv'
<1> USE DEF PoolInv
<1>1. /\ Team' = Team /\ Length' = Length /\ Team \subseteq Thread /\ Main \in Thread
      /\ \A k : Second(k)' = Second(k)
      /\ \A k : LastDone(k)' <=> LastDone(k)
      /\ \A k : Rest(cgraph, k)' = Rest(cgraph, k)
  BY TeamFacts DEF Team, Length, Second, LastDone, Rest
<1>2. ASSUME NEW t \in Thread
      PROVE  /\ InCall(t)' <=> InCall(t)
             /\ Waiting(t)' <=> Waiting(t)
             /\ Behind(t)' <=> Behind(t)
             /\ Unstarted(t)' <=> Unstarted(t)
             /\ Ended(t)' <=> Ended(t)
             /\ InGraph(t)' <=> InGraph(t)
             /\ Through(t)' <=> Through(t)
             /\ At(t)' = At(t) /\ Half(t)' = Half(t)
             /\ \A l \in (Computing \cup {"kick", "publish", "idle"}) \ {"begin"} :
                  pc'[t] = l => pc[t] = l
             /\ \A l \in Computing \cup {"kick"} : pc[t] = l => pc'[t] = l
  <2>1. /\ InCall(t)' <=> InCall(t)
        /\ Waiting(t)' <=> Waiting(t)
        /\ Behind(t)' <=> Behind(t)
    BY DEF InCall, Waiting, Behind, bvars
  <2>2. /\ \A l \in (Computing \cup {"kick", "publish", "idle"}) \ {"begin"} :
             pc'[t] = l => pc[t] = l
        /\ \A l \in Computing \cup {"kick"} : pc[t] = l => pc'[t] = l
        /\ pc'[t] \in {"publish", "begin"} <=> pc[t] \in {"publish", "begin"}
    BY DEF Moved, Computing, OuterPC
  <2>3. (Unstarted(t)' <=> Unstarted(t)) /\ (InGraph(t)' <=> InGraph(t))
    BY <2>1, <2>2 DEF Unstarted, InGraph, Computing
  <2>4. (Ended(t)' <=> Ended(t)) /\ (Past(t)' <=> Past(t)) /\ (Through(t)' <=> Through(t))
    BY <1>1, <2>1, <2>2, <2>3 DEF Ended, Past, Through, Computing
  <2>5. At(t)' = At(t)
    BY <2>3, <2>4 DEF At
  <2>6. Half(t)' = Half(t)
    BY <1>1, <2>1, <2>2, <2>3, <2>4, <2>5 DEF Half, Computing
  <2> QED
    BY <2>1, <2>2, <2>3, <2>4, <2>5, <2>6
<1>3. Places'
  <2> SUFFICES ASSUME NEW t \in Thread PROVE Place(t)'
    BY DEF Places
  <2>1. Place(t) /\ Moved(t) /\ (t = Main => InCall(t))
    BY DEF Places, InCall
  <2>2. IF t = Main THEN pc'[t] \in CallerPC ELSE pc'[t] \in OuterPC \cup Computing
    BY <2>1 DEF Place, Moved, CallerPC, Computing
  <2>3. /\ pc'[t] \in Computing \ {"leave"} => InCall(t)
        /\ pc'[t] \in (Computing \ {"leave"}) \cup {"publish"} => t \in Team
    BY <2>1 DEF Place, Moved, Computing, OuterPC
  <2> QED
    BY <1>1, <1>2, <2>1, <2>2, <2>3 DEF Place, bvars, Computing
<1>4. Meeting'
  BY MeetingFrame
<1>5. Agree'
  BY <1>1, <1>2 DEF Agree, Region
<1>6. Aborts'
  <2>1. \A t \in Team : Stops(t)'
    BY <1>1, <1>2 DEF Aborts, Stops, Computing
  <2>2. pc[Main] \in {"loop", "leave", "idle", "join", "freed"} =>
         pc'[Main] \in {"loop", "leave", "idle", "join", "freed"}
    BY <1>1 DEF Moved
  <2>3. pc'[Main] = "leave" => pc[Main] = "leave"
    BY <1>1, <1>2 DEF Computing
  <2> QED
    BY <1>1, <2>1, <2>2, <2>3 DEF Aborts
<1>7. Data'
  <2>1. \A R, h : Filled(R, h)' <=> Filled(R, h)
    BY <1>1 DEF Filled, Pieces, Chunks
  <2>2. \A t \in Thread : pc'[t] = "chunks" <=> pc[t] = "chunks"
    BY <1>2 DEF Computing
  <2>3. \A k : Sharing(k)' <=> Sharing(k)
    BY <1>1, <2>2 DEF Sharing, Chunks
  <2>4. \A t \in Team : Holding(t)' <=> Holding(t)
    BY <1>1, <2>2 DEF Holding
  <2> SUFFICES ASSUME NEW t \in Team, ~Ended(t)' PROVE DataOf(t)'
    BY <1>1 DEF Data
  <2>5. DataOf(t)
    BY <1>1, <1>2 DEF Data
  <2>6. Filled(Rest(cgraph, At(t)), Half(t))'
    BY <1>1, <1>2, <2>1, <2>5 DEF DataOf
  <2> QED
    BY <1>1, <1>2, <2>2, <2>3, <2>4, <2>5, <2>6 DEF DataOf, Chunks
<1>8. Result'
  <2>1. \A k : Pieces(cgraph, k, n_graph.n)' = Pieces(cgraph, k, n_graph.n)
    BY DEF Pieces, Chunks
  <2>2. /\ pc'[Main] = "idle" => pc[Main] = "idle"
        /\ pc'[Main] = "leave" => pc[Main] = "leave"
        /\ Waiting(Main)' <=> Waiting(Main)
    BY <1>1, <1>2 DEF Computing
  <2> QED
    BY <2>1, <2>2 DEF Result
<1> QED
  BY <1>3, <1>4, <1>5, <1>6, <1>7, <1>8

\* The caller between the reset of the parameters and the kickoff: nothing of
\* the new graph is there yet.
Fresh == pc[Main] = "kick" => made = {}

\* When the caller is not in a graph no thread of the call is, other than on
\* its way out of the last barrier.
LEMMA CallerIdle ==
  ASSUME PoolInv, pc[Main] \notin Computing \cup {"publish"}
  PROVE  /\ \A t \in Team : Ended(t)
         /\ \A t \in Thread : /\ ~InGraph(t)
                              /\ pc[t] \notin Computing \ {"leave"}
                              /\ bpc[t] \in {"out", "spin"}
                              /\ bpc[t] # "out" => pc[t] = "leave"
         /\ Inside = {} /\ n_barrier = 0
<1> USE DEF PoolInv
<1>1. Main \in Thread /\ Team \subseteq Thread
  BY TeamFacts
<1>2. ASSUME NEW t \in Team PROVE Ended(t)
  <2>1. Main \in Team
    BY TeamFacts DEF Team, Main
  <2>2. Ended(Main)
    BY DEF Ended, Unstarted, InCall, Computing
  <2> QED
    BY <2>1, <2>2, SamePart
<1>3. ASSUME NEW t \in Thread
      PROVE  /\ ~InGraph(t)
             /\ pc[t] \notin Computing \ {"leave"}
  <2>1. Place(t)
    BY DEF Places
  <2>2. pc[t] \in Computing \ {"leave"} => t \in Team /\ InCall(t) /\ pc[t] # "leave"
    BY <2>1 DEF Place
  <2>3. pc[t] \in Computing \ {"leave"} => ~Ended(t)
    BY <2>2 DEF Ended, Unstarted, Computing
  <2>4. pc[t] \notin Computing \ {"leave"}
    BY <1>2, <2>2, <2>3
  <2>5. InGraph(t) => pc[t] = "leave" /\ InCall(t) /\ Waiting(t) /\ t \in Team
    BY <2>1, <2>4 DEF InGraph, Place, Computing
  <2>6. InGraph(t) => ~Ended(t)
    BY <2>5 DEF Ended
  <2> QED
    BY <1>2, <2>4, <2>5, <2>6
<1>4. ASSUME NEW t \in Thread
      PROVE  /\ bpc[t] \in {"out", "spin"}
             /\ bpc[t] # "out" => pc[t] = "leave"
  <2>1. Place(t) /\ bpc[t] \in BarrierPC
    BY DEF Places, Types
  <2>2. bpc[t] # "out" => pc[t] = "leave"
    BY <1>3, <2>1 DEF Place, Computing
  <2>3. pc[t] = "leave" /\ InCall(t) => ~Waiting(t)
    BY <1>3 DEF InGraph
  <2> QED
    BY <2>1, <2>2, <2>3 DEF Place, Waiting, Behind
<1>5. Inside = {}
  <2> SUFFICES ASSUME NEW t \in Inside PROVE FALSE
    OBVIOUS
  <2>1. t \in Team /\ InCall(t) /\ Waiting(t) /\ bpc[t] # "out"
    BY DEF Inside, Waiting
  <2> QED
    BY <1>1, <1>3, <1>4, <2>1 DEF InGraph
<1>6. n_barrier = 0
  <2>1. \A t \in Thread : bpc[t] # "release"
    BY <1>4
  <2> QED
    BY <1>5, <2>1, FS_EmptySet DEF Meeting
<1> QED
  BY <1>2, <1>3, <1>4, <1>5, <1>6

\* The parameters of a new call.
LEMMA SetParamsInv ==
  ASSUME PoolInv, Types', NEW g \in Graphs, SetParams(g)
  PROVE  PoolInv'
<1> USE DEF PoolInv
<1>1. /\ pc[Main] = "idle" /\ pc' = [pc EXCEPT ![Main] = "kick"]
      /\ abort' = NoAbort /\ ec' = "success"
      /\ UNCHANGED <<bvars, n_barrier_passed, n_graph, last_graph, graph, nth, node, chunk, twice>>
  BY DEF SetParams, Go, local, bvars
<1>2. Main \in Thread /\ Team \subseteq Thread /\ Team' = Team
  BY <1>1, TeamFacts DEF Team
<1>3. /\ pc'[Main] = "kick"
      /\ \A t \in Thread \ {Main} : pc'[t] = pc[t]
  BY <1>1, <1>2 DEF Types
<1>4. /\ \A t \in Team : Ended(t)
      /\ \A t \in Thread : /\ ~InGraph(t)
                           /\ pc[t] \notin Computing \ {"leave"}
                           /\ bpc[t] \in {"out", "spin"}
                           /\ bpc[t] # "out" => pc[t] = "leave"
  BY <1>1, CallerIdle DEF Computing
<1>5. \A t \in Thread : /\ InCall(t)' <=> InCall(t)
                        /\ Waiting(t)' <=> Waiting(t)
                        /\ bpc'[t] = bpc[t]
  BY <1>1 DEF InCall, Waiting, Behind, bvars
<1>6. \A t \in Thread : ~InGraph(t)' /\ (pc'[t] \in Computing => pc'[t] = "leave")
  BY <1>3, <1>4, <1>5 DEF InGraph, Computing
<1>7. ASSUME NEW t \in Thread PROVE Place(t)'
  <2>1. Place(t)
    BY DEF Places
  <2>2. CASE t = Main
    BY <1>1, <1>2, <1>3, <1>4, <1>5, <1>6, <2>1, <2>2 DEF Place, CallerPC, Computing, InGraph
  <2>3. CASE t # Main
    <3>1. pc'[t] = pc[t]
      BY <1>3, <2>3
    <3>2. pc[t] \notin {"rows", "convert", "chunks", "after", "loop"}
      BY <1>4 DEF Computing
    <3> QED
      BY <1>1, <1>2, <1>4, <1>5, <1>6, <2>1, <2>3, <3>1, <3>2 DEF Place
  <2> QED
    BY <2>2, <2>3
<1>8. Meeting'
  BY <1>1, MeetingFrame
<1>9. \A t \in Team : Ended(t)'
  <2>1. Ended(Main)'
    BY <1>3 DEF Ended, Unstarted, InCall
  <2>2. \A t \in Team \ {Main} : Ended(t)'
    BY <1>2, <1>3, <1>4, <1>5 DEF Ended, Unstarted
  <2> QED
    BY <2>1, <2>2
<1>10. Data' /\ Agree'
  BY <1>2, <1>9, EndedData
<1>11. Aborts'
  BY <1>1, <1>2, <1>3, <1>6 DEF Aborts, Stops, NoAbort
<1>12. Result'
  BY <1>3 DEF Result
<1> QED
  BY <1>1, <1>7, <1>8, <1>10, <1>11, <1>12 DEF Places

\* A kickoff: no thread of the pool has seen the new work yet.
LEMMA PublishInv ==
  ASSUME PoolInv, Fresh, Types', NEW n \in Requests, Publish(n)
  PROVE  PoolInv'
<1> USE DEF PoolInv
<1>1. /\ pc[Main] = "kick" /\ pc' = [pc EXCEPT ![Main] = "publish"]
      /\ n_graph' = [count |-> n_graph.count + 1, n |-> IF n > NThreads THEN NThreads ELSE n]
      /\ UNCHANGED <<bvars, n_barrier, n_barrier_passed, bpc, party, seen, cgraph, abort, ec>>
      /\ UNCHANGED <<last_graph, graph, nth, node, chunk, wdata, made, twice>>
  BY DEF Publish, Go, local, bvars, ghost
<1>2. Main \in Thread /\ Team \subseteq Thread /\ Length' = Length /\ Length \in Nat
      /\ \A k : Rest(cgraph, k)' = Rest(cgraph, k)
  BY <1>1, TeamFacts, GraphFacts DEF Length, Rest
<1>3. /\ pc'[Main] = "publish"
      /\ \A t \in Thread \ {Main} : pc'[t] = pc[t]
  BY <1>1, <1>2 DEF Types
<1>4. /\ \A t \in Team : Ended(t)
      /\ \A t \in Thread : /\ ~InGraph(t)
                           /\ pc[t] \notin Computing \ {"leave"}
                           /\ bpc[t] \in {"out", "spin"}
                           /\ bpc[t] # "out" => pc[t] = "leave"
      /\ n_barrier = 0
  BY <1>1, CallerIdle DEF Computing
<1>5. n_graph'.count = n_graph.count + 1 /\ n_graph.count \in Nat
  BY <1>1 DEF Types
<1>6. \A t \in Thread \ {Main} : ~InCall(t)'
  <2> SUFFICES ASSUME NEW t \in Thread \ {Main} PROVE last_graph'[t] # n_graph'
    BY DEF InCall
  <2>1. last_graph[t].count <= n_graph.count /\ last_graph[t].count \in Nat
    BY DEF Places, Place, Types
  <2>2. last_graph'[t].count # n_graph'.count
    BY <1>1, <1>5, <2>1
  <2> QED
    BY <2>2
<1>7. Main \in Team' /\ Team' \subseteq Thread
  <2>1. NThreads \in Nat /\ NThreads >= 1 /\ Thread = 0 .. NThreads - 1
        /\ n \in Nat /\ n >= 1
    BY PoolAssumption
  <2>2. n_graph'.n >= 1 /\ n_graph'.n \in 0 .. NThreads
    BY <1>1, <2>1
  <2> QED
    BY <2>1, <2>2 DEF Team, Main
<1>8. ASSUME NEW t \in Thread
      PROVE  /\ Unstarted(t)' /\ ~Ended(t)' /\ ~Past(t)' /\ ~Through(t)' /\ At(t)' = 1
             /\ Half(t)' = 0 /\ ~InGraph(t)'
  <2>1. Unstarted(t)'
    BY <1>3, <1>6 DEF Unstarted
  <2>2. ~InGraph(t)'
    BY <1>3, <1>4, <1>6 DEF InGraph, Computing
  <2> QED
    BY <2>1, <2>2 DEF Ended, Past, Through, At, Half
<1>9. ASSUME NEW t \in Thread PROVE Place(t)'
  <2>1. Place(t) /\ last_graph[t].count \in Nat
    BY DEF Places, Types
  <2>2. last_graph'[t].count <= n_graph'.count
    BY <1>1, <1>5, <2>1 DEF Place
  <2>3. CASE t = Main
    BY <1>1, <1>3, <1>4, <1>7, <1>8, <2>2, <2>3 DEF Place, CallerPC, Computing
  <2>4. CASE t # Main
    <3>1. pc'[t] = pc[t] /\ ~InCall(t)' /\ bpc'[t] = bpc[t]
      BY <1>1, <1>3, <1>6, <2>4
    <3>2. pc[t] \notin Computing \ {"leave"} /\ pc[t] # "publish"
      BY <1>4, <2>1, <2>4 DEF Place, OuterPC
    <3> QED
      BY <1>4, <1>8, <2>1, <2>2, <2>4, <3>1, <3>2 DEF Place, Computing
  <2> QED
    BY <2>3, <2>4
<1>10. Meeting'
  <2>1. bpc'[Main] = "out"
    BY <1>1, <1>2, <1>4
  <2>2. \A t \in Thread : Meets(t)'
    BY <1>1, <1>4, <1>6, <2>1 DEF Meets, Waiting
  <2>3. Inside' = {}
    BY <1>6, <1>7, <2>1 DEF Inside
  <2> QED
    BY <1>1, <1>4, <2>2, <2>3, FS_EmptySet DEF Meeting
<1>11. Agree'
  BY <1>7, <1>8 DEF Agree, Region
<1>12. Aborts'
  <2>1. abort = NoAbort
    BY <1>1 DEF Aborts
  <2>2. \A t \in Team' : Stops(t)'
    BY <1>1, <1>7, <1>8, <2>1 DEF Stops
  <2> QED
    BY <1>1, <1>3, <2>1, <2>2 DEF Aborts
<1>13. Data'
  <2>1. made' = {}
    BY <1>1 DEF Fresh
  <2>2. \A j \in 1 .. Length : j \notin Rest(cgraph, 1) => cgraph[j].op = "nop"
    BY <1>2 DEF Rest, Length
  <2>3. \A j \in 1 .. Length : j \notin Rest(cgraph, 1) => Pieces(cgraph, j, n_graph.n)' = {}
    BY <1>1, <2>2 DEF Pieces
  <2>4. Filled(Rest(cgraph, 1), 0)'
    BY <1>2, <2>1, <2>3 DEF Filled
  <2> SUFFICES ASSUME NEW t \in Team' PROVE DataOf(t)'
    BY DEF Data
  <2>5. pc'[t] # "chunks"
    BY <1>3, <1>4, <1>7 DEF Computing
  <2> QED
    BY <1>7, <1>8, <2>1, <2>4, <2>5 DEF DataOf
<1>14. Result'
  BY <1>3 DEF Result
<1> QED
  BY <1>1, <1>9, <1>10, <1>11, <1>12, <1>13, <1>14 DEF Places

\* A worker sees the new work, and takes it or is not needed.
LEMMA TakeInv ==
  ASSUME PoolInv, Types', NEW t \in Workers, pc[t] \in OuterPC,
         n_graph # last_graph[t], last_graph' = [last_graph EXCEPT ![t] = n_graph],
         NEW label \in OuterPC, Go(t, IF t < n_graph.n THEN "begin" ELSE label),
         UNCHANGED <<bvars, pool, graph, nth, node, chunk, ghost>>
  PROVE  PoolInv'
<1> USE DEF PoolInv
<1>0. t \in Thread /\ t # Main /\ t \in Nat /\ Place(t)
  BY TeamFacts DEF Workers, Places
<1>1. /\ pc'[t] = IF t < n_graph.n THEN "begin" ELSE label
      /\ \A u \in Thread \ {t} : pc'[u] = pc[u] /\ last_graph'[u] = last_graph[u]
      /\ last_graph'[t] = n_graph
  BY <1>0 DEF Types, Go
<1>2. /\ UNCHANGED <<n_barrier, n_barrier_passed, bpc, party, seen>>
      /\ UNCHANGED <<cgraph, n_graph, current_chunk, abort, ec, made, wdata, twice>>
  BY DEF bvars, pool, ghost
<1>3. Untouched(t)
  BY <1>1, <1>2 DEF Untouched
<1>4. t \in Team <=> t < n_graph.n
  <2>1. n_graph.n \in Nat
    BY TeamFacts
  <2> QED
    BY <1>0, <2>1 DEF Team
<1>5. bpc[t] = "out" /\ ~Waiting(t) /\ ~Waiting(t)' /\ ~InCall(t) /\ InCall(t)'
      /\ pc'[t] \notin {"loop", "rows", "convert", "chunks", "after", "leave", "publish", "idle"}
      /\ pc[t] \notin {"loop", "rows", "convert", "chunks", "after", "leave", "publish", "idle"}
  BY <1>0, <1>1, <1>2 DEF Place, InCall, Waiting, OuterPC
<1>6. /\ t \in Team => Unstarted(t)' /\ ~Ended(t)' /\ ~Through(t)' /\ At(t)' = 1 /\ Half(t)' = 0
      /\ Unstarted(t) /\ ~Ended(t) /\ ~Through(t) /\ At(t) = 1 /\ Half(t) = 0
      /\ ~InGraph(t)'
  BY <1>1, <1>4, <1>5 DEF Unstarted, Ended, Through, Past, At, Half, InGraph
<1>7. t \in Team => Region(t)' = Region(t)
  BY <1>2, <1>6 DEF Region, Rest
<1>8. Place(t)'
  <2>1. n_graph.count <= n_graph.count
    BY DEF Types
  <2>2. Team' = Team
    BY <1>2 DEF Team
  <2>3. pc'[t] \in OuterPC \/ (pc'[t] = "begin" /\ t \in Team)
    BY <1>1, <1>4
  <2>4. last_graph'[t].count <= n_graph'.count
    BY <1>1, <1>2, <2>1
  <2>5. bpc'[t] = "out"
    BY <1>2, <1>5
  <2> QED
    BY <1>0, <1>5, <1>6, <2>2, <2>3, <2>4, <2>5 DEF Place, Computing, OuterPC
<1>9. Places' /\ Agree'
  BY <1>0, <1>2, <1>3, <1>7, <1>8, PlacesFrame, AgreeFrame
<1>10. Meeting'
  <2>1. \A u \in Thread \ {t} : InCall(u)' <=> InCall(u)
    BY <1>1, <1>2 DEF InCall
  <2>2. /\ Team' = Team /\ \A u \in Thread : Behind(u)' <=> Behind(u)
        /\ Team \subseteq Thread
    BY <1>2, TeamFacts DEF Team, Behind
  <2>3. Inside' = Inside
    BY <1>2, <1>5, <2>1, <2>2 DEF Inside
  <2>4. \A u \in Thread : Meets(u)'
    BY <1>2, <1>5, <2>1, <2>2 DEF Meeting, Meets, Waiting
  <2> QED
    BY <1>2, <2>3, <2>4 DEF Meeting
<1>11. Aborts'
  <2>1. Stops(t)'
    BY <1>5, <1>6 DEF Stops
  <2> QED
    BY <1>0, <1>2, <1>3, <2>1, AbortsFrame
<1>12. Data'
  BY <1>0, <1>2, <1>3, <1>5, <1>6, DataFrame
<1>13. Result'
  BY <1>0, <1>2, <1>3, ResultFrame
<1> QED
  BY <1>2, <1>9, <1>10, <1>11, <1>12, <1>13

(*****************************************************************************)
(* The theorems.                                                             *)
(*****************************************************************************)
\* The inductive invariant.
Inductive == PoolInv /\ Fresh

\* A broadcast moves sleepers only.
LEMMA BroadcastMoves ==
  ASSUME Types, Places, NEW label, Broadcast(Main, label),
         \/ label = pc[Main]
         \/ pc[Main] = "publish" /\ label = "begin"
         \/ pc[Main] = "idle" /\ label = "join"
  PROVE  \A t \in Thread : Moved(t)
<1>1. Main \in Thread /\ pc[Main] \in CallerPC
  BY TeamFacts DEF Places, Place
<1>2. ASSUME NEW t \in Thread \ {Main} PROVE Moved(t)
  <2>1. pc'[t] = IF pc[t] = "wwait" THEN "wlock" ELSE IF pc[t] = "pwait" THEN "pwoken" ELSE pc[t]
    BY DEF Broadcast
  <2> QED
    BY <2>1 DEF Moved, OuterPC
<1>3. Moved(Main)
  <2>1. pc[Main] # "wwait" /\ pc[Main] # "pwait"
    BY <1>1 DEF CallerPC, Computing
  <2>2. pc'[Main] = label
    BY <1>1, <2>1 DEF Broadcast
  <2> QED
    BY <2>2 DEF Moved
<1> QED
  BY <1>2, <1>3

\* A worker's own move.
LEMMA WorkerMoves ==
  ASSUME Types, NEW t \in Workers, NEW label \in OuterPC, pc[t] \in OuterPC, Go(t, label)
  PROVE  \A u \in Thread : Moved(u)
<1>1. t \in Thread /\ t # Main
  BY DEF Workers
<1>2. pc'[t] = label /\ \A u \in Thread \ {t} : pc'[u] = pc[u]
  BY <1>1 DEF Types, Go
<1> QED
  BY <1>1, <1>2 DEF Moved

\* What the moves leave alone.
LEMMA MovedFresh ==
  ASSUME Types, Fresh, \A t \in Thread : Moved(t), UNCHANGED made
  PROVE  Fresh'
BY TeamFacts DEF Fresh, Moved

\* The steps of the caller outside a graph keep the invariant.
LEMMA CallerInv ==
  ASSUME Inductive, Types',
         \/ \E g \in Graphs : SetParams(g)
         \/ \E p \in BOOLEAN : SetPause(p)
         \/ Free
         \/ MainStep
  PROVE  Inductive'
<1> USE DEF Inductive
<1>0. Types /\ Places /\ Main \in Thread
  BY TeamFacts DEF PoolInv
<1>1. ASSUME NEW g \in Graphs, SetParams(g) PROVE Inductive'
  <2>1. made' = {}
    BY <1>1 DEF SetParams
  <2> QED
    BY <1>1, <2>1, SetParamsInv DEF Fresh
<1>2. ASSUME NEW p \in BOOLEAN, SetPause(p) PROVE Inductive'
  <2>1. \A t \in Thread : Moved(t)
    BY <1>0, <1>2, BroadcastMoves DEF SetPause
  <2>2. UNCHANGED <<bvars, cgraph, n_graph, current_chunk, abort, ec, last_graph, graph, nth,
                    node, chunk, wdata, made, twice>>
    BY <1>2 DEF SetPause, local, ghost
  <2> QED
    BY <1>0, <2>1, <2>2, MovedInv, MovedFresh
<1>3. CASE Free
  <2>1. \A t \in Thread : Moved(t)
    BY <1>0, <1>3, BroadcastMoves DEF Free
  <2>2. UNCHANGED <<bvars, cgraph, n_graph, current_chunk, abort, ec, last_graph, graph, nth,
                    node, chunk, wdata, made, twice>>
    BY <1>3 DEF Free, local, ghost
  <2> QED
    BY <1>0, <2>1, <2>2, MovedInv, MovedFresh
<1>4. ASSUME NEW n \in Requests, Publish(n) PROVE Inductive'
  <2>1. pc'[Main] = "publish"
    BY <1>0, <1>4 DEF Publish, Go, Types
  <2> QED
    BY <1>4, <2>1, PublishInv DEF Fresh
<1>5. CASE Wake
  <2>1. \A t \in Thread : Moved(t)
    BY <1>0, <1>5, BroadcastMoves DEF Wake
  <2>2. UNCHANGED <<bvars, cgraph, n_graph, current_chunk, abort, ec, last_graph, graph, nth,
                    node, chunk, wdata, made, twice>>
    BY <1>5 DEF Wake, local, ghost
  <2> QED
    BY <1>0, <2>1, <2>2, MovedInv, MovedFresh
<1>6. CASE JoinWorkers
  <2>1. pc[Main] = "join" /\ pc'[Main] = "freed" /\ \A t \in Thread \ {Main} : pc'[t] = pc[t]
    BY <1>0, <1>6 DEF JoinWorkers, Go, Types
  <2>2. \A t \in Thread : Moved(t)
    BY <2>1 DEF Moved
  <2>3. UNCHANGED <<bvars, cgraph, n_graph, current_chunk, abort, ec, last_graph, graph, nth,
                    node, chunk, wdata, made, twice>>
    BY <1>6 DEF JoinWorkers, local, ghost, pool
  <2> QED
    BY <1>0, <2>2, <2>3, MovedInv, MovedFresh
<1> QED
  BY <1>1, <1>2, <1>3, <1>4, <1>5, <1>6 DEF MainStep

\* The steps of a worker outside a graph keep the invariant.
LEMMA WorkerInv ==
  ASSUME Inductive, Types', NEW t \in Workers, WorkerStep(t) \/ SpuriousWake(t)
  PROVE  Inductive'
<1> USE DEF Inductive
<1>0. Types /\ Places /\ Main \in Thread /\ t \in Thread /\ t # Main
  BY TeamFacts DEF PoolInv, Workers
<1> DEFINE Still == UNCHANGED <<bvars, cgraph, n_graph, current_chunk, abort, ec, last_graph,
                                graph, nth, node, chunk, wdata, made, twice>>
<1>m. ASSUME NEW label \in OuterPC, pc[t] \in OuterPC, Go(t, label), Still
      PROVE  Inductive'
  <2>1. \A u \in Thread : Moved(u)
    BY <1>0, <1>m, WorkerMoves
  <2> QED
    BY <1>0, <1>m, <2>1, MovedInv, MovedFresh
<1>t. ASSUME NEW label \in OuterPC, NEW nothing \in SUBSET OuterPC, pc[t] \in OuterPC,
             TakeWork(t, "begin", label, nothing),
             UNCHANGED <<bvars, pool, graph, nth, node, chunk, ghost>>
      PROVE  Inductive'
  <2>1. CASE n_graph # last_graph[t]
    <3>1. /\ last_graph' = [last_graph EXCEPT ![t] = n_graph]
          /\ Go(t, IF t < n_graph.n THEN "begin" ELSE label)
      BY <1>t, <2>1 DEF TakeWork
    <3>2. PoolInv'
      BY <1>t, <2>1, <3>1, TakeInv
    <3>3. pc'[Main] = pc[Main] /\ made' = made
      BY <1>0, <1>t, <3>1 DEF Go, Types, ghost
    <3> QED
      BY <3>2, <3>3 DEF Fresh
  <2>2. CASE n_graph = last_graph[t]
    <3>1. PICK l \in nothing : Go(t, l)
      BY <1>t, <2>2 DEF TakeWork
    <3>2. Still
      BY <1>t, <2>2 DEF TakeWork, pool, ghost
    <3> QED
      BY <1>m, <1>t, <3>1, <3>2
  <2> QED
    BY <2>1, <2>2
<1>1. CASE ReadPause(t)
  <2>1. \E l \in OuterPC : Go(t, l)
    BY <1>1 DEF ReadPause, OuterPC
  <2>2. Still /\ pc[t] \in OuterPC
    BY <1>1 DEF ReadPause, OuterPC, pool, local, ghost
  <2> QED
    BY <1>m, <2>1, <2>2
<1>2. CASE PauseSleep(t)
  <2>1. \E l \in OuterPC : Go(t, l)
    BY <1>2 DEF PauseSleep, OuterPC
  <2>2. Still /\ pc[t] \in OuterPC
    BY <1>2 DEF PauseSleep, OuterPC, pool, local, ghost
  <2> QED
    BY <1>m, <2>1, <2>2
<1>3. CASE PauseWoken(t)
  <2>1. \E l \in OuterPC : Go(t, l)
    BY <1>3 DEF PauseWoken, OuterPC
  <2>2. Still /\ pc[t] \in OuterPC
    BY <1>3 DEF PauseWoken, OuterPC, pool, local, ghost
  <2> QED
    BY <1>m, <2>1, <2>2
<1>4. CASE ReadStop(t)
  <2>1. \E l \in OuterPC : Go(t, l)
    BY <1>4 DEF ReadStop, OuterPC
  <2>2. Still /\ pc[t] \in OuterPC
    BY <1>4 DEF ReadStop, OuterPC, pool, local, ghost
  <2> QED
    BY <1>m, <2>1, <2>2
<1>5. CASE PollFlags(t)
  <2>1. \E l \in OuterPC : Go(t, l)
    BY <1>5 DEF PollFlags, OuterPC
  <2>2. Still /\ pc[t] \in OuterPC
    BY <1>5 DEF PollFlags, OuterPC, pool, local, ghost
  <2> QED
    BY <1>m, <2>1, <2>2
<1>6. CASE PollWork(t)
  <2>1. TakeWork(t, "begin", "wlock", {"poll", "wlock"})
        /\ UNCHANGED <<bvars, pool, graph, nth, node, chunk, ghost>>
    BY <1>6 DEF PollWork
  <2>2. pc[t] \in OuterPC /\ "wlock" \in OuterPC /\ {"poll", "wlock"} \in SUBSET OuterPC
    BY <1>6 DEF PollWork, OuterPC
  <2> QED
    BY <1>t, <2>1, <2>2
<1>7. CASE WaitWork(t)
  <2>1. pc[t] \in OuterPC /\ "top" \in OuterPC /\ {"wwait"} \in SUBSET OuterPC
        /\ UNCHANGED <<bvars, pool, graph, nth, node, chunk, ghost>>
    BY <1>7 DEF WaitWork, OuterPC
  <2>2. CASE stop \/ pause
    <3>1. Go(t, "top") /\ Still
      BY <1>7, <2>2 DEF WaitWork, pool, ghost
    <3> QED
      BY <1>m, <2>1, <3>1
  <2>3. CASE ~(stop \/ pause)
    <3>1. TakeWork(t, "begin", "top", {"wwait"})
      BY <1>7, <2>3 DEF WaitWork
    <3> QED
      BY <1>t, <2>1, <3>1
  <2> QED
    BY <2>2, <2>3
<1>8. CASE SpuriousWake(t)
  <2>1. \E l \in OuterPC : Go(t, l)
    BY <1>8 DEF SpuriousWake, OuterPC
  <2>2. Still /\ pc[t] \in OuterPC
    BY <1>8 DEF SpuriousWake, OuterPC, pool, local, ghost
  <2> QED
    BY <1>m, <2>1, <2>2
<1> QED
  BY <1>1, <1>2, <1>3, <1>4, <1>5, <1>6, <1>7, <1>8 DEF WorkerStep

\* No thread computes while the caller stands before the kickoff.
LEMMA ComputeFresh ==
  ASSUME Inductive, NEW t \in Thread, ComputeStep(t)
  PROVE  Fresh'
<1>1. PoolInv /\ Fresh /\ Types /\ Main \in Thread
  BY TeamFacts DEF Inductive, PoolInv
<1>2. pc'[Main] = "kick" => pc[Main] = "kick"
  <2>1. \/ pc' = pc
        \/ \E l \in Computing \cup {"idle", "top"} : Go(t, l)
    BY DEF ComputeStep, Begin, LoopHead, Rows, Convert, Chunk, After, Leave, Meet, Computing, local
  <2>2. pc \in [Thread -> PC]
    BY <1>1 DEF Types
  <2> QED
    BY <1>1, <2>1, <2>2 DEF Go, Computing
<1>3. SUFFICES ASSUME pc[Main] = "kick" PROVE made' = made
  BY <1>1, <1>2 DEF Fresh
<1>4. pc[t] \notin Computing \ {"leave"}
  BY <1>1, <1>3, CallerIdle DEF Computing
<1> QED
  BY <1>4 DEF ComputeStep, Begin, LoopHead, Rows, Convert, Chunk, After, Leave, Meet, Computing,
              ghost

\* Every step keeps the invariant.
LEMMA NextInv ==
  ASSUME Inductive, [Next]_vars
  PROVE  Inductive'
<1>1. Types'
  BY NextTypes DEF Inductive, PoolInv
<1>2. CASE UNCHANGED vars
  <2>1. \A t \in Thread : Moved(t)
    BY <1>2 DEF vars, Moved
  <2>2. UNCHANGED <<bvars, cgraph, n_graph, current_chunk, abort, ec, last_graph, graph, nth,
                    node, chunk, wdata, made, twice>>
    BY <1>2 DEF vars, pool, local, ghost
  <2> QED
    BY <1>1, <2>1, <2>2, MovedInv, MovedFresh DEF Inductive, PoolInv
<1>3. ASSUME NEW t \in Thread, ComputeStep(t) PROVE Inductive'
  BY <1>3, ComputeInv, ComputeFresh DEF Inductive
<1>4. CASE Next
  BY <1>1, <1>3, <1>4, CallerInv, WorkerInv DEF Next
<1> QED
  BY <1>2, <1>4

\* The initial states satisfy the invariant.
LEMMA InitInv ==
  ASSUME Init
  PROVE  Inductive
<1>1. n_graph = [count |-> 0, n |-> 0] /\ cgraph = <<>> /\ Main \in Thread
  BY PoolAssumption DEF Init, Main
<1>2. Team = {} /\ Length = 0
  BY <1>1 DEF Team, Length
<1>3. \A t \in Thread : /\ bpc[t] = "out" /\ last_graph[t] = [count |-> 0, n |-> 0]
                        /\ pc[t] = IF t = Main THEN "idle" ELSE "top"
                        /\ ~Waiting(t)
  BY DEF Init, BarrierInit, Waiting
<1>4. Types
  <2>1. NThreads \in Nat /\ NThreads >= 1 /\ PassedMod \in Nat /\ PassedMod >= 2 /\ MaxCalls \in Nat
    BY PoolAssumption, PassedModAssumption
  <2>2. pc \in [Thread -> PC] /\ bpc \in [Thread -> BarrierPC]
    BY DEF Init, BarrierInit, PC, BarrierPC
  <2>3. \A t \in Thread : node[t] = 0 /\ graph[t] = <<>>
    BY DEF Init
  <2>4. \A t \in Thread : node[t] \in 0 .. Len(graph[t]) + 1
    BY <2>3
  <2>5. seen \in [Thread -> 0 .. PassedMod - 1] /\ n_barrier_passed \in 0 .. PassedMod - 1
    BY <2>1 DEF Init, BarrierInit
  <2>6. /\ party \in [Thread -> 0 .. NThreads] /\ nth \in [Thread -> 0 .. NThreads]
        /\ n_graph \in [count : Nat, n : 0 .. NThreads]
        /\ last_graph \in [Thread -> [count : Nat, n : 0 .. NThreads]]
    BY <2>1 DEF Init, BarrierInit
  <2>7. /\ graph \in [Thread -> Graphs \cup {<<>>}] /\ cgraph \in Graphs \cup {<<>>}
        /\ node \in [Thread -> Nat] /\ chunk \in [Thread -> Nat] /\ wdata \in [Thread -> Nat]
        /\ pending \in [Thread -> BOOLEAN]
    BY DEF Init
  <2>8. /\ n_barrier \in Nat /\ current_chunk \in Nat /\ calls \in 0 .. MaxCalls
        /\ abort \in Nat /\ ec \in {"success", "aborted"}
    BY <2>1 DEF Init, BarrierInit, NoAbort
  <2>9. stop \in BOOLEAN /\ pause \in BOOLEAN /\ locked \in BOOLEAN /\ twice \in BOOLEAN
    BY DEF Init
  <2> QED
    BY <2>2, <2>4, <2>5, <2>6, <2>7, <2>8, <2>9 DEF Types
<1>5. Places
  BY <1>1, <1>3 DEF Places, Place, CallerPC, OuterPC, Computing, InGraph, Main
<1>6. Meeting
  <2>1. Inside = {} /\ n_barrier = 0
    BY <1>2 DEF Inside, Init, BarrierInit
  <2> QED
    BY <1>2, <1>3, <2>1, FS_EmptySet DEF Meeting, Meets
<1>7. Agree /\ Data
  BY <1>2 DEF Agree, Data
<1>8. Aborts
  BY <1>1, <1>2, <1>3 DEF Aborts, Init
<1>9. Result
  <2>1. made = {} /\ ec = "success" /\ Len(cgraph) = 0
    BY <1>1 DEF Init
  <2> QED
    BY <2>1 DEF Result
<1>10. ~twice /\ Fresh
  BY DEF Init, Fresh
<1> QED
  BY <1>4, <1>5, <1>6, <1>7, <1>8, <1>9, <1>10 DEF Inductive, PoolInv

\* The invariant holds in every state of every behaviour.
THEOREM Invariance == Spec => []Inductive
<1>1. Init => Inductive
  BY InitInv
<1>2. Inductive /\ [Next]_vars => Inductive'
  BY NextInv
<1> QED
  BY <1>1, <1>2, PTL DEF Spec

\* Every variable has its type: in particular n_barrier never counts more
\* threads than the pool has.
THEOREM TypeCorrect == Spec => []TypeOK
<1>1. ASSUME Inductive PROVE TypeOK
  <2>1. Types /\ Meeting
    BY <1>1 DEF Inductive, PoolInv
  <2>2. Cardinality(Thread) = NThreads /\ Team \subseteq Thread /\ IsFiniteSet(Team)
        /\ Cardinality(Team) = n_graph.n /\ n_graph.n \in 0 .. NThreads
    BY <2>1, TeamFacts
  <2>3. Inside \subseteq Team
    BY DEF Inside
  <2>4. Cardinality(Inside) \in Nat /\ Cardinality(Inside) <= n_graph.n
    BY <2>2, <2>3, FS_Subset, FS_CardinalityType
  <2>5. n_barrier = 0 \/ n_barrier = Cardinality(Inside)
    BY <2>1 DEF Meeting, Meets
  <2>6. NThreads \in Nat
    BY PoolAssumption
  <2>7. n_barrier \in 0 .. NThreads
    BY <2>2, <2>4, <2>5, <2>6
  <2>8. BarrierTypeOK
    BY <2>1, <2>2, <2>7 DEF BarrierTypeOK, Types
  <2>9. n_graph \in [count : Nat, n : Nat]
        /\ last_graph \in [Thread -> [count : Nat, n : Nat]]
    BY <2>1, <2>6 DEF Types
  <2> QED
    BY <2>1, <2>8, <2>9 DEF TypeOK, Types
<1> QED
  BY <1>1, Invariance, PTL

\* What a thread at work on a node knows.
LEMMA AtWork ==
  ASSUME PoolInv, NEW t \in Thread, pc[t] \in {"rows", "convert", "chunks", "after"}
  PROVE  /\ t \in Team /\ ~Ended(t) /\ DataOf(t) /\ At(t) = node[t]
         /\ graph[t] = cgraph /\ nth[t] = n_graph.n /\ node[t] \in 1 .. Length
         /\ pc[t] = "chunks" /\ bpc[t] = "out" => Half(t) = 1
<1>1. Types /\ Places /\ Data
  BY DEF PoolInv
<1>2. t \in Team /\ InCall(t) /\ InGraph(t) /\ graph[t] = cgraph /\ nth[t] = n_graph.n
      /\ node[t] \in 1 .. Length
  BY <1>1 DEF Places, Place, Computing, InGraph
<1>3. ~Unstarted(t) /\ ~Ended(t)
  BY <1>2 DEF Unstarted, Ended
<1>4. At(t) = node[t]
  BY <1>1, <1>2, <1>3, AtFacts
<1>5. pc[t] = "chunks" /\ bpc[t] = "out" => Half(t) = 1
  BY <1>3 DEF Half, Through, Past, Waiting
<1> QED
  BY <1>1, <1>2, <1>3, <1>4, <1>5 DEF Data

\* A thread that computes a node finds every piece of every earlier node
\* computed: the barrier after a node, the skipping of empty ones and the
\* abort keep the threads in step, for every graph, every number of threads
\* and every number of values n_barrier_passed wraps after.
THEOREM OperandsAreComplete == Spec => []OperandsComplete
<1>1. ASSUME Inductive PROVE OperandsComplete
  <2> SUFFICES ASSUME NEW t \in Thread, pc[t] \in {"rows", "convert", "chunks", "after"},
                      NEW k \in 1 .. node[t] - 1
               PROVE  Pieces(graph[t], k, nth[t]) \subseteq made
    BY DEF OperandsComplete
  <2>1. /\ DataOf(t) /\ At(t) = node[t]
        /\ graph[t] = cgraph /\ nth[t] = n_graph.n /\ node[t] \in 1 .. Length
    BY <1>1, AtWork DEF Inductive
  <2>2. Types /\ Length \in Nat
    BY <1>1, GraphFacts DEF Inductive, PoolInv
  <2>3. k \in 1 .. Length /\ k < node[t] /\ node[t] \in Nat
    BY <2>1, <2>2
  <2>4. k \notin Rest(cgraph, node[t])
    BY <2>2, <2>3, RestRange
  <2> QED
    BY <2>1, <2>3, <2>4 DEF DataOf, Filled
<1> QED
  BY <1>1, Invariance, PTL

\* A thread that multiplies finds the whole work buffer converted for its
\* node, the parts of the other threads too.
THEOREM WorkBufferIsReady == Spec => []WorkBufferReady
<1>1. ASSUME Inductive PROVE WorkBufferReady
  <2> SUFFICES ASSUME NEW t \in Thread, pc[t] = "chunks", bpc[t] = "out",
                      NEW u \in 0 .. nth[t] - 1
               PROVE  wdata[u] = node[t]
    BY DEF WorkBufferReady, Outside
  <2>1. /\ DataOf(t) /\ At(t) = node[t] /\ nth[t] = n_graph.n /\ Half(t) = 1
    BY <1>1, AtWork DEF Inductive
  <2>2. Sharing(node[t])
    BY <2>1 DEF DataOf
  <2> QED
    BY <2>1, <2>2 DEF Sharing, Team
<1> QED
  BY <1>1, Invariance, PTL

\* No piece of any node is computed twice: the chunks taken by thread index
\* and the ones handed out by current_chunk do not overlap.
THEOREM PiecesOnce == Spec => []NoPieceTwice
<1>1. Inductive => NoPieceTwice
  BY DEF Inductive, PoolInv, NoPieceTwice
<1> QED
  BY <1>1, Invariance, PTL

\* When ggml_graph_compute returns, the graph is complete or was stopped
\* between two nodes by the caller, at the same node for all threads.
THEOREM ResultIsComplete == Spec => []GraphResult
<1>1. Inductive => GraphResult
  BY DEF Inductive, PoolInv, Result, GraphResult
<1> QED
  BY <1>1, Invariance, PTL

\* When the parameters are reset, new work is published or the pool is told
\* to stop, no worker is in a graph other than on its way out of the last
\* barrier.
THEOREM ParamsAreQuiet == Spec => ParamsQuiet
<1> DEFINE Quiet == cgraph' # cgraph \/ n_graph' # n_graph \/ stop' # stop =>
        \A t \in Workers : pc[t] \notin {"begin", "loop", "rows", "convert", "chunks", "after"}
                          /\ bpc[t] \in {"out", "spin"}
<1>1. ASSUME Inductive, [Next]_vars PROVE [Quiet]_vars
  <2> SUFFICES ASSUME cgraph' # cgraph \/ n_graph' # n_graph \/ stop' # stop
               PROVE  \A t \in Workers :
                        pc[t] \notin {"begin", "loop", "rows", "convert", "chunks", "after"}
                        /\ bpc[t] \in {"out", "spin"}
    OBVIOUS
  <2>1. \/ \E g \in Graphs : SetParams(g)
        \/ \E n \in Requests : Publish(n)
        \/ Free
    <3>1. ASSUME NEW t \in Thread, ComputeStep(t) PROVE FALSE
      BY <1>1, <3>1, ComputeFrame DEF Inductive, PoolInv
    <3>2. ASSUME NEW t \in Workers, WorkerStep(t) \/ SpuriousWake(t) PROVE FALSE
      BY <3>2 DEF WorkerStep, SpuriousWake, ReadPause, PauseSleep, PauseWoken, ReadStop, PollFlags,
                  PollWork, WaitWork, pool
    <3>3. ~Wake /\ ~JoinWorkers /\ \A p \in BOOLEAN : ~SetPause(p)
      BY DEF Wake, JoinWorkers, SetPause, pool
    <3>4. ~UNCHANGED vars
      BY DEF vars, pool
    <3> QED
      BY <1>1, <3>1, <3>2, <3>3, <3>4 DEF Next, MainStep
  <2>2. pc[Main] \in {"idle", "kick"}
    BY <2>1 DEF SetParams, Publish, Free
  <2>3. PoolInv
    BY <1>1 DEF Inductive
  <2>4. \A t \in Thread : pc[t] \notin Computing \ {"leave"} /\ bpc[t] \in {"out", "spin"}
    BY <2>2, <2>3, CallerIdle DEF Computing
  <2> QED
    BY <2>4 DEF Computing, Workers
<1>2. Spec => [][Quiet]_vars
  BY <1>1, Invariance, PTL DEF Spec
<1> QED
  BY <1>2 DEF ParamsQuiet

=============================================================================
