------------------------------ MODULE ThreadPool -----------------------------
(***************************************************************************)
(* The CPU thread pool of ggml/src/ggml-cpu/ggml-cpu.c in the build        *)
(* without OpenMP: the caller of ggml_graph_compute (thread 0, "main")     *)
(* publishes a graph, the workers poll or sleep until they see it, all of  *)
(* them run the nodes of the graph in step, and the caller pauses, resumes *)
(* and frees the pool between two graphs.                                  *)
(*                                                                         *)
(* A graph is a sequence of nodes [op, chunks].  op is "nop" (an empty     *)
(* operation), "rows" (each thread computes its own rows) or "mul_mat": a  *)
(* matrix multiplication with the conversion of src1 into the shared work  *)
(* buffer, the barrier after it and the chunks handed out by current_chunk;*)
(* chunks is how many its natural chunking has.                            *)
(*                                                                         *)
(* pc is where a thread is outside ggml_barrier; a thread inside it has    *)
(* bpc # "out" and goes on at pc when it returns.                          *)
(***************************************************************************)
EXTENDS Barrier, Sequences

CONSTANTS NThreads,   \* threadpool->n_threads
          Graphs,     \* the graphs the caller may compute
          Requests,   \* the n_threads a plan may ask for
          MaxCalls    \* bound: calls of ggml_graph_compute

ASSUME PoolAssumption ==
  /\ NThreads \in Nat /\ NThreads >= 1
  /\ Thread = 0 .. NThreads - 1
  /\ Requests \subseteq Nat \ {0}
  /\ Graphs \subseteq Seq([op : {"nop", "rows", "mul_mat"}, chunks : Nat])
  /\ MaxCalls \in Nat

VARIABLES cgraph,         \* threadpool->cgraph (the plan comes with it)
          n_graph,        \* the published work: graph count and thread count
          current_chunk,  \* next chunk of the matrix multiplication
          stop, pause, abort, ec,
          locked,         \* the mutex, held across the two steps of a kickoff
          pc,             \* where each thread is
          pending,        \* state->pending
          last_graph,     \* state->last_graph
          graph, nth, node, chunk,  \* locals of the compute loop
          wdata,          \* ghost: the node each part of the work buffer is for
          made,           \* ghost: the pieces <<node, i>> computed in this call
          twice,          \* ghost: a piece was computed twice
          calls           \* bound

pool == <<cgraph, n_graph, current_chunk, stop, pause, abort, ec, locked>>
local == <<pending, last_graph, graph, nth, node, chunk>>
ghost == <<wdata, made, twice, calls>>
vars == <<bvars, pool, pc, local, ghost>>

Main == 0
Workers == Thread \ {Main}

PC == {"idle", "kick", "publish", "join", "freed",
       "top", "plock", "pwait", "pwoken", "stopchk", "poll", "polln", "wlock", "wwait", "exited",
       "begin", "loop", "rows", "convert", "chunks", "after", "leave"}

NoAbort == 0   \* stands for -1: the nodes are numbered from 1 here, not from 0

TypeOK ==
  /\ BarrierTypeOK
  /\ cgraph \in Graphs \cup {<<>>}
  /\ n_graph \in [count : Nat, n : Nat]
  /\ current_chunk \in Nat
  /\ {stop, pause, locked, twice} \subseteq BOOLEAN
  /\ abort \in Nat
  /\ ec \in {"success", "aborted"}
  /\ pc \in [Thread -> PC]
  /\ pending \in [Thread -> BOOLEAN]
  /\ last_graph \in [Thread -> [count : Nat, n : Nat]]
  /\ graph \in [Thread -> Graphs \cup {<<>>}]
  /\ nth \in [Thread -> 0 .. NThreads] /\ chunk \in [Thread -> Nat]
  /\ \A t \in Thread : node[t] \in 0 .. Len(graph[t]) + 1
  /\ wdata \in [Thread -> Nat]
  /\ calls \in 0 .. MaxCalls

\* ggml_threadpool_new: the workers start at the top of their loop, in a pool
\* that may be paused from the start.
Init ==
  /\ BarrierInit
  /\ cgraph = <<>> /\ n_graph = [count |-> 0, n |-> 0]
  /\ current_chunk = 0 /\ stop = FALSE /\ pause \in BOOLEAN
  /\ abort = NoAbort /\ ec = "success" /\ locked = FALSE
  /\ pc = [t \in Thread |-> IF t = Main THEN "idle" ELSE "top"]
  /\ pending = [t \in Thread |-> FALSE]
  /\ last_graph = [t \in Thread |-> [count |-> 0, n |-> 0]]
  /\ graph = [t \in Thread |-> <<>>]
  /\ nth = [t \in Thread |-> 0] /\ node = [t \in Thread |-> 0] /\ chunk = [t \in Thread |-> 0]
  /\ wdata = [t \in Thread |-> 0] /\ made = {} /\ twice = FALSE /\ calls = 0

Go(t, label) == pc' = [pc EXCEPT ![t] = label]
Outside(t) == bpc[t] = "out"

\* ggml_cond_broadcast, with t's own next label: a sleeper wakes at the point
\* where it takes the mutex again.
Broadcast(t, label) ==
  pc' = [u \in Thread |-> CASE u = t           -> label
                            [] pc[u] = "wwait" -> "wlock"
                            [] pc[u] = "pwait" -> "pwoken"
                            [] OTHER           -> pc[u]]

(***************************************************************************)
(* The caller.                                                             *)
(***************************************************************************)

\* ggml_graph_compute: the parameters are reset before the workers are told.
SetParams(g) ==
  /\ pc[Main] = "idle" /\ calls < MaxCalls
  /\ cgraph' = g /\ current_chunk' = 0 /\ abort' = NoAbort /\ ec' = "success"
  /\ Go(Main, "kick")
  /\ made' = {} /\ wdata' = [t \in Thread |-> 0] /\ calls' = calls + 1
  /\ UNCHANGED <<bvars, n_graph, stop, pause, locked, local, twice>>

\* ggml_graph_compute_kickoff, up to the store that the polling workers see.
Publish(n) ==
  /\ pc[Main] = "kick" /\ ~locked
  /\ locked' = TRUE
  /\ n_graph' = [count |-> n_graph.count + 1, n |-> IF n > NThreads THEN NThreads ELSE n]
  /\ Go(Main, "publish")
  /\ UNCHANGED <<bvars, cgraph, current_chunk, stop, pause, abort, ec, local, ghost>>

\* Mutant: a kickoff that wakes nobody.
NoWake ==
  /\ pc[Main] = "publish"
  /\ pause' = FALSE /\ locked' = FALSE
  /\ Go(Main, "begin")
  /\ UNCHANGED <<bvars, cgraph, n_graph, current_chunk, stop, abort, ec, local, ghost>>

\* Its second half: a paused pool is resumed, the sleepers are woken.
Wake ==
  /\ pc[Main] = "publish"
  /\ pause' = FALSE /\ locked' = FALSE
  /\ Broadcast(Main, "begin")
  /\ UNCHANGED <<bvars, cgraph, n_graph, current_chunk, stop, abort, ec, local, ghost>>

\* ggml_threadpool_pause and ggml_threadpool_resume, between two graphs.
SetPause(p) ==
  /\ pc[Main] = "idle" /\ ~locked /\ pause # p
  /\ pause' = p
  /\ Broadcast(Main, "idle")
  /\ UNCHANGED <<bvars, cgraph, n_graph, current_chunk, stop, abort, ec, locked, local, ghost>>

\* Mutant: a paused pool is freed without being resumed.
FreePaused ==
  /\ pc[Main] = "idle" /\ ~locked
  /\ stop' = TRUE
  /\ Broadcast(Main, "join")
  /\ UNCHANGED <<bvars, cgraph, n_graph, current_chunk, pause, abort, ec, locked, local, ghost>>

\* ggml_threadpool_free: stop the workers and join them.
Free ==
  /\ pc[Main] = "idle" /\ ~locked
  /\ stop' = TRUE /\ pause' = FALSE
  /\ Broadcast(Main, "join")
  /\ UNCHANGED <<bvars, cgraph, n_graph, current_chunk, abort, ec, locked, local, ghost>>

JoinWorkers ==
  /\ pc[Main] = "join"
  /\ \A t \in Workers : pc[t] = "exited"
  /\ Go(Main, "freed")
  /\ UNCHANGED <<bvars, pool, local, ghost>>

(***************************************************************************)
(* A worker outside a graph: ggml_graph_compute_secondary_thread.          *)
(***************************************************************************)

ReadPause(t) ==
  /\ pc[t] = "top"
  /\ Go(t, IF pause THEN "plock" ELSE "stopchk")
  /\ UNCHANGED <<bvars, pool, local, ghost>>

\* Under the mutex, sleep if the pool is still paused.
PauseSleep(t) ==
  /\ pc[t] = "plock" /\ ~locked
  /\ Go(t, IF pause THEN "pwait" ELSE "top")
  /\ UNCHANGED <<bvars, pool, local, ghost>>

PauseWoken(t) ==
  /\ pc[t] = "pwoken" /\ ~locked
  /\ Go(t, "top")
  /\ UNCHANGED <<bvars, pool, local, ghost>>

ReadStop(t) ==
  /\ pc[t] = "stopchk"
  /\ Go(t, IF stop THEN "exited" ELSE "poll")
  /\ UNCHANGED <<bvars, pool, local, ghost>>

\* ggml_graph_compute_thread_ready, first read: the flags end the polling.
PollFlags(t) ==
  /\ pc[t] = "poll"
  /\ Go(t, IF stop \/ pause THEN "wlock" ELSE "polln")
  /\ UNCHANGED <<bvars, pool, local, ghost>>

\* What thread_ready does with the published work, and where each outcome
\* leads: taken to compute, not taken, or nothing new.
TakeWork(t, taken, notTaken, nothing) ==
  IF n_graph # last_graph[t]
  THEN /\ pending' = [pending EXCEPT ![t] = t < n_graph.n]
       /\ last_graph' = [last_graph EXCEPT ![t] = n_graph]
       /\ Go(t, IF t < n_graph.n THEN taken ELSE notTaken)
  ELSE /\ \E label \in nothing : Go(t, label)
       /\ UNCHANGED <<pending, last_graph>>

\* Second read: new work, or poll again as long as the rounds last.
PollWork(t) ==
  /\ pc[t] = "polln"
  /\ TakeWork(t, "begin", "wlock", {"poll", "wlock"})
  /\ UNCHANGED <<bvars, pool, graph, nth, node, chunk, ghost>>

\* ggml_graph_compute_check_for_work under the mutex: leave, take the work or
\* sleep.
WaitWork(t) ==
  /\ pc[t] = "wlock" /\ ~locked
  /\ IF stop \/ pause
     THEN Go(t, "top") /\ UNCHANGED <<pending, last_graph>>
     ELSE TakeWork(t, "begin", "top", {"wwait"})
  /\ UNCHANGED <<bvars, pool, graph, nth, node, chunk, ghost>>

\* A condition variable may wake without a broadcast.
SpuriousWake(t) ==
  /\ pc[t] \in {"wwait", "pwait"}
  /\ Go(t, IF pc[t] = "wwait" THEN "wlock" ELSE "pwoken")
  /\ UNCHANGED <<bvars, pool, local, ghost>>

(***************************************************************************)
(* A thread in a graph: ggml_graph_compute_thread.                         *)
(***************************************************************************)

Begin(t) ==
  /\ pc[t] = "begin"
  /\ pending' = [pending EXCEPT ![t] = FALSE]
  /\ graph' = [graph EXCEPT ![t] = cgraph]
  /\ nth' = [nth EXCEPT ![t] = n_graph.n]
  /\ node' = [node EXCEPT ![t] = 1]
  /\ Go(t, "loop")
  /\ UNCHANGED <<bvars, pool, last_graph, chunk, ghost>>

\* The chunk counts of a matrix multiplication: a poor chunking is redone by
\* thread.
Chunks(c, n) == IF c < 4 * n THEN n ELSE c
Node(t) == graph[t][node[t]]

\* Mutant: an aborted graph still runs its next node.
LoopHeadLate(t) ==
  /\ pc[t] = "loop" /\ Outside(t)
  /\ IF node[t] > Len(graph[t]) \/ (abort # NoAbort /\ abort + 1 = node[t])
     THEN /\ Arrive(t, n_graph.n) /\ Go(t, "leave")
          /\ UNCHANGED node
     ELSE /\ IF Node(t).op = "nop"
             THEN node' = [node EXCEPT ![t] = @ + 1] /\ UNCHANGED pc
             ELSE /\ Go(t, IF Node(t).op = "rows" THEN "rows" ELSE "convert")
                  /\ UNCHANGED node
          /\ UNCHANGED bvars
  /\ UNCHANGED <<pool, pending, last_graph, graph, nth, chunk, ghost>>

\* The loop's test and the skipping of empty operations; past the last node,
\* or at the aborted one, the threads meet a last time.
LoopHead(t) ==
  /\ pc[t] = "loop" /\ Outside(t)
  /\ IF node[t] > Len(graph[t]) \/ abort = node[t]
     THEN /\ Arrive(t, n_graph.n) /\ Go(t, "leave")
          /\ UNCHANGED node
     ELSE /\ IF Node(t).op = "nop"
             THEN node' = [node EXCEPT ![t] = @ + 1] /\ UNCHANGED pc
             ELSE /\ Go(t, IF Node(t).op = "rows" THEN "rows" ELSE "convert")
                  /\ UNCHANGED node
          /\ UNCHANGED bvars
  /\ UNCHANGED <<pool, pending, last_graph, graph, nth, chunk, ghost>>

Make(k, i) ==
  /\ made' = made \cup {<<k, i>>}
  /\ twice' = (twice \/ <<k, i>> \in made)

Rows(t) ==
  /\ pc[t] = "rows"
  /\ Make(node[t], t)
  /\ Go(t, "after")
  /\ UNCHANGED <<bvars, pool, local, wdata, calls>>

\* Mutant: the threads do not meet after the conversion.
ConvertAlone(t) ==
  /\ pc[t] = "convert"
  /\ wdata' = [wdata EXCEPT ![t] = node[t]]
  /\ current_chunk' = IF t = 0 THEN nth[t] ELSE current_chunk
  /\ chunk' = [chunk EXCEPT ![t] = t]
  /\ Go(t, "chunks")
  /\ UNCHANGED <<bvars, cgraph, n_graph, stop, pause, abort, ec, locked, pending, last_graph,
                 graph, nth, node, made, twice, calls>>

\* Mutant: chunks are handed out from the first one.
ConvertFromZero(t) ==
  /\ pc[t] = "convert"
  /\ wdata' = [wdata EXCEPT ![t] = node[t]]
  /\ current_chunk' = IF t = 0 THEN 1 ELSE current_chunk
  /\ chunk' = [chunk EXCEPT ![t] = t]
  /\ Arrive(t, n_graph.n)
  /\ Go(t, "chunks")
  /\ UNCHANGED <<cgraph, n_graph, stop, pause, abort, ec, locked, pending, last_graph,
                 graph, nth, node, made, twice, calls>>

\* A matrix multiplication: each thread converts its share of src1, thread 0
\* sets the first chunk to hand out, all meet.
Convert(t) ==
  /\ pc[t] = "convert"
  /\ wdata' = [wdata EXCEPT ![t] = node[t]]
  /\ current_chunk' = IF t = 0 THEN nth[t] ELSE current_chunk
  /\ chunk' = [chunk EXCEPT ![t] = t]
  /\ Arrive(t, n_graph.n)
  /\ Go(t, "chunks")
  /\ UNCHANGED <<cgraph, n_graph, stop, pause, abort, ec, locked, pending, last_graph,
                 graph, nth, node, made, twice, calls>>

\* One chunk, then the next one by fetch_add.
Chunk(t) ==
  /\ pc[t] = "chunks" /\ Outside(t)
  /\ LET n == Chunks(Node(t).chunks, nth[t])
     IN IF chunk[t] >= n
        THEN Go(t, "after") /\ UNCHANGED <<current_chunk, chunk, made, twice>>
        ELSE /\ Make(node[t], chunk[t])
             /\ IF nth[t] >= n
                THEN Go(t, "after") /\ UNCHANGED <<current_chunk, chunk>>
                ELSE /\ chunk' = [chunk EXCEPT ![t] = current_chunk]
                     /\ current_chunk' = current_chunk + 1
                     /\ UNCHANGED pc
  /\ UNCHANGED <<bvars, cgraph, n_graph, stop, pause, abort, ec, locked, pending, last_graph,
                 graph, nth, node, wdata, calls>>

\* Mutant: no meeting between two nodes.
AfterNoMeeting(t) ==
  /\ pc[t] = "after"
  /\ \E aborted \in IF t = Main THEN BOOLEAN ELSE {FALSE} :
       IF aborted THEN abort' = node[t] + 1 /\ ec' = "aborted" ELSE UNCHANGED <<abort, ec>>
  /\ node' = [node EXCEPT ![t] = @ + 1]
  /\ UNCHANGED bvars
  /\ Go(t, "loop")
  /\ UNCHANGED <<cgraph, n_graph, current_chunk, stop, pause, locked, pending, last_graph,
                 graph, nth, chunk, ghost>>

\* After a node: the caller's abort callback may stop the graph at the next
\* node, and the threads meet unless this was the last one.
After(t) ==
  /\ pc[t] = "after"
  /\ \E aborted \in IF t = Main THEN BOOLEAN ELSE {FALSE} :
       IF aborted THEN abort' = node[t] + 1 /\ ec' = "aborted" ELSE UNCHANGED <<abort, ec>>
  /\ node' = [node EXCEPT ![t] = @ + 1]
  /\ IF node[t] < Len(graph[t]) THEN Arrive(t, n_graph.n) ELSE UNCHANGED bvars
  /\ Go(t, "loop")
  /\ UNCHANGED <<cgraph, n_graph, current_chunk, stop, pause, locked, pending, last_graph,
                 graph, nth, chunk, ghost>>

\* The end of the graph: a worker goes back to its loop, the caller returns ec.
Leave(t) ==
  /\ pc[t] = "leave" /\ Outside(t)
  /\ Go(t, IF t = Main THEN "idle" ELSE "top")
  /\ UNCHANGED <<bvars, pool, local, ghost>>

Meet(t) == BarrierStep(t) /\ UNCHANGED <<pool, pc, local, ghost>>

WorkerStep(t) ==
  \/ ReadPause(t) \/ PauseSleep(t) \/ PauseWoken(t) \/ ReadStop(t)
  \/ PollFlags(t) \/ PollWork(t) \/ WaitWork(t)

ComputeStep(t) ==
  \/ Begin(t) \/ LoopHead(t) \/ Rows(t) \/ Convert(t) \/ Chunk(t) \/ After(t) \/ Leave(t)
  \/ Meet(t)

MainStep ==
  \/ \E n \in Requests : Publish(n)
  \/ Wake \/ JoinWorkers

Next ==
  \/ \E g \in Graphs : SetParams(g)
  \/ \E p \in BOOLEAN : SetPause(p)
  \/ Free
  \/ MainStep
  \/ \E t \in Workers : WorkerStep(t) \/ SpuriousWake(t)
  \/ \E t \in Thread : ComputeStep(t)

\* Every running thread is scheduled; the caller is only obliged to finish the
\* call it is in.
Fairness ==
  /\ WF_vars(MainStep)
  /\ \A t \in Workers : WF_vars(WorkerStep(t))
  /\ \A t \in Thread : WF_vars(ComputeStep(t))

Spec == Init /\ [][Next]_vars /\ Fairness

(***************************************************************************)
(* What is checked.                                                        *)
(***************************************************************************)

\* The pieces a node is made of when n threads compute it.
Pieces(g, k, n) ==
  {<<k, i>> : i \in CASE g[k].op = "nop"  -> {}
                      [] g[k].op = "rows" -> 0 .. n - 1
                      [] OTHER            -> 0 .. Chunks(g[k].chunks, n) - 1}

\* A thread reads the operands of a node, which are the results of earlier
\* nodes, only when every piece of every earlier node has been computed.  The
\* barrier between two nodes, the skipping of empty ones and the agreement on
\* n_graph are what this rests on.
OperandsComplete ==
  \A t \in Thread : pc[t] \in {"rows", "convert", "chunks", "after"} =>
    \A k \in 1 .. node[t] - 1 : Pieces(graph[t], k, nth[t]) \subseteq made

\* A thread that multiplies finds every part of the shared work buffer
\* converted for its node: nobody is late with this node's conversion, and
\* nobody has begun the next one.
WorkBufferReady ==
  \A t \in Thread : pc[t] = "chunks" /\ Outside(t) /\ chunk[t] < Chunks(Node(t).chunks, nth[t]) =>
    \A u \in 0 .. nth[t] - 1 : wdata[u] = node[t]

\* No piece is computed by two threads: the first chunks the threads take by
\* their index and the ones current_chunk hands out do not meet.
NoPieceTwice == ~twice

\* Whenever the caller is between two calls the graph it last computed is
\* complete, or was aborted: then the threads all stopped at the same node,
\* every piece before it is there and none after it.
GraphResult ==
  pc[Main] = "idle" =>
    LET last == IF ec = "aborted" THEN abort - 1 ELSE Len(cgraph)
    IN made = UNION {Pieces(cgraph, k, n_graph.n) : k \in 1 .. last}

\* "No worker threads should be accessing the parameters below at this stage":
\* when ggml_graph_compute resets them, when a plan for fewer threads is
\* published, or when the pool is torn down, no worker is inside a graph
\* other than on its way out of the last barrier.
ParamsQuiet ==
  [][ cgraph' # cgraph \/ n_graph' # n_graph \/ stop' # stop =>
        \A t \in Workers : pc[t] \notin {"begin", "loop", "rows", "convert", "chunks", "after"}
                          /\ bpc[t] \in {"out", "spin"} ]_vars

\* A call of ggml_graph_compute returns and ggml_threadpool_free joins every
\* worker, whatever the workers were doing: polling, asleep on the condition
\* variable, paused, or still leaving the barrier of an earlier graph.
CallReturns == pc[Main] = "kick" ~> pc[Main] = "idle"
FreeReturns == pc[Main] = "join" ~> pc[Main] = "freed"
=============================================================================
