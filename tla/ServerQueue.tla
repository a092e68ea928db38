---------------------------- MODULE ServerQueue ----------------------------
(***************************************************************************)
(* The task plumbing of llama-server (tools/server): HTTP threads post     *)
(* tasks to server_queue, one main thread pops them, assigns them to slots *)
(* or defers them, advances all slots, and sends results to                *)
(* server_response, from which the HTTP threads take them through a        *)
(* server_response_reader.  Every step below is one critical section of    *)
(* mutex_tasks or mutex_results, or thread-local work between two of them, *)
(* so HTTP threads interleave inside every handler of the main thread.     *)
(*                                                                         *)
(* Abstracted: token values, sampling and the KV cache (a slot is its task,*)
(* its state and two counters); which of the idle slots a task gets (the   *)
(* code picks by prompt similarity, then LRU: here any idle slot); wake-ups*)
(* (the main thread polls its queue every second, a reader its results     *)
(* every second); sleeping, which is module ServerSleep.                   *)
(***************************************************************************)
EXTENDS Integers, Sequences, FiniteSets

CONSTANTS
  Readers,    \* HTTP requests, each with its server_response_reader
  Tasks,      \* the tasks of all requests (fresh ids, see get_new_id)
  NoTask,     \* "no task": slot.task == nullptr
  Request,    \* the tasks a reader posts, in the order of its vector
  Owner,      \* the reader of a task
  Kind,       \* "infer", "slot_op" (save, restore, erase) or "metrics"
  WantSlot,   \* task.id_slot or slot_action.slot_id, as the client wrote it
  Parent,     \* task.id_parent, or NoTask
  Stream,     \* tasks whose tokens are sent one by one
  BadTasks,   \* tasks launch_slot_with_task may reject (tokens, grammar)
  Impatient,  \* readers whose client may close the connection
  NSlots,     \* params.n_parallel
  MaxPrompt,  \* bound: decode iterations a prompt can take
  NPredict,   \* task.params.n_predict
  DecodeFails \* whether llama_decode may fail for the whole batch

Slots    == 0 .. NSlots - 1
AnySlot  == -1
Ids(r)   == {t \in Tasks : Owner[t] = r}
Run(t)   == [type |-> "run", id |-> t]
Cancel(t) == [type |-> "cancel", id |-> t]
NextResponse == [type |-> "next", id |-> NoTask]
Messages == [type : {"run", "cancel"}, id : Tasks] \cup {NextResponse}

ASSUME NSlotsAssumption   == NSlots \in Nat \ {0}
ASSUME BoundsAssumption   == MaxPrompt \in Nat \ {0} /\ NPredict \in Nat \ {0}
ASSUME TasksAssumption    == IsFiniteSet(Tasks) /\ NoTask \notin Tasks
ASSUME TaskAssumption ==
  /\ Owner \in [Tasks -> Readers]
  /\ Kind \in [Tasks -> {"infer", "slot_op", "metrics"}]
  /\ WantSlot \in [Tasks -> Int]
  /\ Parent \in [Tasks -> Tasks \cup {NoTask}]
  /\ Stream \subseteq Tasks /\ BadTasks \subseteq Tasks
  /\ Impatient \subseteq Readers /\ DecodeFails \in BOOLEAN
ASSUME RequestAssumption ==
  /\ Request \in [Readers -> Seq(Tasks)]
  /\ \A r \in Readers :
       /\ \A i \in DOMAIN Request[r] : Owner[Request[r][i]] = r
       /\ \A t \in Ids(r) : \E i \in DOMAIN Request[r] : Request[r][i] = t
       /\ \A i, j \in DOMAIN Request[r] :
            Request[r][i] = Request[r][j] => i = j
       \* the handler of /metrics and /slots posts its one task to the front
       /\ (\E t \in Ids(r) : Kind[t] = "metrics") => Len(Request[r]) = 1

VARIABLES
  queue_tasks,          \* server_queue::queue_tasks
  queue_tasks_deferred, \* server_queue::queue_tasks_deferred
  waiting_task_ids,     \* server_response::waiting_task_ids
  queue_results,        \* server_response::queue_results, split by task id
  rpc,                  \* where each HTTP thread is
  received_count,       \* server_response_reader::received_count
  cancelled,            \* server_response_reader::cancelled
  mpc,                  \* where the main thread is
  cur,                  \* the message it has popped
  pass,                 \* the pass of update_slots over the slots it is in
  at,                   \* the slot it looks at in that pass
  failed,               \* this iteration's llama_decode failed
  slot_task, slot_state, n_prompt, n_decoded,
  answered              \* history: tasks whose final result or error was sent

queueVars  == <<queue_tasks, queue_tasks_deferred>>
resultVars == <<waiting_task_ids, queue_results>>
readerVars == <<rpc, received_count, cancelled>>
slotVars   == <<slot_task, slot_state, n_prompt, n_decoded>>
mainVars   == <<mpc, cur, pass, at, failed>>
vars == <<queueVars, resultVars, readerVars, slotVars, mainVars, answered>>

SlotStates == {"idle", "prompt", "generating"}
Results    == {"partial", "final", "error"}

(***************************************************************************)
(* The sequence operations of the queues.  Kth(S, k) is the k-th smallest  *)
(* element of a finite set of integers; Without(q, ids) is q after         *)
(* std::remove_if and erase.                                               *)
(***************************************************************************)
Rank(S, k)  == Cardinality({j \in S : j <= k})
Kth(S, k)   == CHOOSE i \in S : Rank(S, i) = k
Kept(q, ids) ==
  {i \in DOMAIN q : ~ (q[i].type = "run" /\ q[i].id \in ids)}
Without(q, ids) ==
  [k \in 1 .. Cardinality(Kept(q, ids)) |-> q[Kth(Kept(q, ids), k)]]

\* Mutant: pop_deferred_task without the pop_front.
PopDeferredCopies ==
  /\ queue_tasks' = (IF queue_tasks_deferred = <<>> THEN <<>>
                     ELSE <<Head(queue_tasks_deferred)>>) \o queue_tasks
  /\ UNCHANGED queue_tasks_deferred

PopDeferred ==
  IF queue_tasks_deferred = <<>>
  THEN UNCHANGED queueVars
  ELSE /\ queue_tasks' = <<Head(queue_tasks_deferred)>> \o queue_tasks
       /\ queue_tasks_deferred' = Tail(queue_tasks_deferred)

\* Mutant: defer() forgets the task.
DeferDrops(m) == UNCHANGED queueVars

Defer(m) ==
  /\ queue_tasks_deferred' = Append(queue_tasks_deferred, m)
  /\ UNCHANGED queue_tasks

\* Mutant: send() queues a result nobody waits for.
SendAlways(t, res) ==
  /\ queue_results' = [queue_results EXCEPT ![t] = Append(@, res)]
  /\ answered' = IF res = "partial" THEN answered ELSE answered \cup {t}
  /\ UNCHANGED waiting_task_ids

\* A result nobody waits for is dropped.
Send(t, res) ==
  /\ queue_results' =
       IF t \in waiting_task_ids
       THEN [queue_results EXCEPT ![t] = Append(@, res)]
       ELSE queue_results
  /\ answered' = IF res = "partial" THEN answered ELSE answered \cup {t}
  /\ UNCHANGED waiting_task_ids

(***************************************************************************)
(* HTTP threads.                                                           *)
(***************************************************************************)
HasNext(r) == ~cancelled[r] /\ received_count[r] < Len(Request[r])

AddWaitingTasks(r) ==
  /\ rpc[r] = "new"
  /\ waiting_task_ids' = waiting_task_ids \cup Ids(r)
  /\ rpc' = [rpc EXCEPT ![r] = "post"]
  /\ UNCHANGED <<queueVars, queue_results, received_count, cancelled,
                 slotVars, mainVars, answered>>

PostTasks(r) ==
  /\ rpc[r] = "post"
  /\ LET ms == [i \in DOMAIN Request[r] |-> Run(Request[r][i])]
     IN  queue_tasks' = IF \E t \in Ids(r) : Kind[t] = "metrics"
                        THEN ms \o queue_tasks
                        ELSE queue_tasks \o ms
  /\ rpc' = [rpc EXCEPT ![r] = "recv"]
  /\ UNCHANGED <<queue_tasks_deferred, resultVars, received_count, cancelled,
                 slotVars, mainVars, answered>>

\* next(): an error stops the reader, a final result counts, a partial one
\* is handed to the client.  A reader that has nothing more to receive is
\* destroyed, which calls stop().
Recv(r, t) ==
  /\ rpc[r] = "recv" /\ HasNext(r) /\ Owner[t] = r
  /\ queue_results[t] # <<>>
  /\ LET res == Head(queue_results[t])
     IN  /\ received_count' =
              [received_count EXCEPT ![r] = IF res = "final" THEN @ + 1 ELSE @]
         /\ rpc' = [rpc EXCEPT ![r] =
              IF res = "error" \/ received_count'[r] = Len(Request[r])
              THEN "stop" ELSE @]
  /\ queue_results' = [queue_results EXCEPT ![t] = Tail(@)]
  /\ UNCHANGED <<queueVars, waiting_task_ids, cancelled, slotVars, mainVars,
                 answered>>

\* recv_with_timeout timed out and should_stop() holds: the connection is
\* closed.  A result may have arrived since the scan, so no guard on results.
Disconnect(r) ==
  /\ r \in Impatient /\ rpc[r] = "recv"
  /\ rpc' = [rpc EXCEPT ![r] = "stop"]
  /\ UNCHANGED <<queueVars, resultVars, received_count, cancelled, slotVars,
                 mainVars, answered>>

StopRemoveWaiting(r) ==
  /\ rpc[r] = "stop"
  /\ waiting_task_ids' = waiting_task_ids \ Ids(r)
  /\ rpc' = [rpc EXCEPT ![r] = IF HasNext(r) THEN "stop_clear" ELSE "done"]
  /\ cancelled' = [cancelled EXCEPT ![r] = HasNext(r)]
  /\ UNCHANGED <<queueVars, queue_results, received_count, slotVars,
                 mainVars, answered>>

\* remove_waiting_task_id for each task of the reader.
StopClearResults(r) ==
  /\ rpc[r] = "stop_clear"
  /\ waiting_task_ids' = waiting_task_ids \ Ids(r)
  /\ queue_results' = [t \in Tasks |-> IF Owner[t] = r THEN <<>>
                                       ELSE queue_results[t]]
  /\ rpc' = [rpc EXCEPT ![r] = "stop_post"]
  /\ UNCHANGED <<queueVars, received_count, cancelled, slotVars, mainVars,
                 answered>>

\* post() of the cancel tasks to the front: pending tasks are removed from
\* both queues in the same critical section.
StopPostCancel(r) ==
  /\ rpc[r] = "stop_post"
  /\ queue_tasks' = [i \in DOMAIN Request[r] |-> Cancel(Request[r][i])]
                    \o Without(queue_tasks, Ids(r))
  /\ queue_tasks_deferred' = Without(queue_tasks_deferred, Ids(r))
  /\ rpc' = [rpc EXCEPT ![r] = "done"]
  /\ UNCHANGED <<resultVars, received_count, cancelled, slotVars, mainVars,
                 answered>>

(***************************************************************************)
(* The main thread: start_loop pops every queued task, then updates slots. *)
(***************************************************************************)
IsIdle(s)  == slot_state[s] = "idle"
AllIdle    == \A s \in Slots : IsIdle(s)

PopTask ==
  /\ mpc = "pop" /\ queue_tasks # <<>>
  /\ cur' = Head(queue_tasks)
  /\ queue_tasks' = Tail(queue_tasks)
  /\ mpc' = "process"
  /\ UNCHANGED <<queue_tasks_deferred, resultVars, readerVars, slotVars, pass, at,
                 failed, answered>>

QueueEmpty ==
  /\ mpc = "pop" /\ queue_tasks = <<>>
  /\ mpc' = "update"
  /\ UNCHANGED <<queueVars, resultVars, readerVars, slotVars, cur, pass, at, failed,
                 answered>>

Wait ==
  /\ mpc = "wait" /\ queue_tasks # <<>>
  /\ mpc' = "pop"
  /\ UNCHANGED <<queueVars, resultVars, readerVars, slotVars, cur, pass, at, failed,
                 answered>>

\* process_single_task has handled cur.
Processed == mpc' = "pop" /\ cur' = NextResponse /\ UNCHANGED <<pass, at, failed>>

\* The slots cur may get: the one it names, or any idle one.
Candidates(t) == {s \in Slots : IsIdle(s) /\ WantSlot[t] \in {s, AnySlot}}

\* The slot is busy.  (A completion that names no slot of the server is
\* deferred as well: get_slot_by_id gives nullptr.)
MustWait(t) ==
  /\ Candidates(t) = {}
  /\ \/ Kind[t] = "infer"
     \/ Kind[t] = "slot_op" /\ WantSlot[t] \in Slots

ProcessDefer ==
  /\ mpc = "process" /\ cur.type = "run" /\ MustWait(cur.id)
  /\ Defer(cur)
  /\ Processed
  /\ UNCHANGED <<resultVars, readerVars, slotVars, answered>>

\* is_child() holds only for a slot that is processing.
IsChild(s, t) == ~IsIdle(s) /\ Parent[t] # NoTask

\* The slot has got its task and is still idle when it is asked whether it is a
\* child: no slot ever waits for its parent, and the loop of update_slots over
\* the slots in SLOT_STATE_WAIT_OTHER copies nothing.
ProcessLaunch ==
  /\ mpc = "process" /\ cur.type = "run" /\ Kind[cur.id] = "infer"
  /\ \E s \in Candidates(cur.id), n \in 1 .. MaxPrompt :
       /\ slot_task'  = [slot_task EXCEPT ![s] = cur.id]
       /\ slot_state' = [slot_state EXCEPT ![s] =
            IF IsChild(s, cur.id) THEN "wait_other" ELSE "prompt"]
       /\ n_prompt'   = [n_prompt EXCEPT ![s] = n]
       /\ n_decoded'  = [n_decoded EXCEPT ![s] = 0]
  /\ Processed
  /\ UNCHANGED <<queueVars, resultVars, readerVars, answered>>

\* launch_slot_with_task returned false: an error, and the slot stays idle.
ProcessReject ==
  /\ mpc = "process" /\ cur.type = "run" /\ Kind[cur.id] = "infer"
  /\ cur.id \in BadTasks /\ Candidates(cur.id) # {}
  /\ Send(cur.id, "error")
  /\ Processed
  /\ UNCHANGED <<queueVars, readerVars, slotVars>>

\* Save, restore or erase an idle slot (an error if there is no such slot);
\* or report metrics.
ProcessReply ==
  /\ mpc = "process" /\ cur.type = "run"
  /\ \E res \in {"final", "error"} :
       /\ \/ Kind[cur.id] = "slot_op" /\ Candidates(cur.id) # {}
          \/ /\ Kind[cur.id] = "slot_op" /\ WantSlot[cur.id] \notin Slots
             /\ res = "error"
          \/ Kind[cur.id] = "metrics" /\ res = "final"
       /\ Send(cur.id, res)
  /\ Processed
  /\ UNCHANGED <<queueVars, readerVars, slotVars>>

\* Mutants: release() without callback_on_release; without task.reset().
ReleaseSilent(s) ==
  /\ slot_task'  = [slot_task EXCEPT ![s] = NoTask]
  /\ slot_state' = [slot_state EXCEPT ![s] = "idle"]
  /\ UNCHANGED <<n_prompt, n_decoded, queueVars>>
ReleaseKeepsTask(s) ==
  /\ slot_state' = [slot_state EXCEPT ![s] = "idle"]
  /\ UNCHANGED <<slot_task, n_prompt, n_decoded>>
  /\ PopDeferred

\* release(): the slot forgets its task, then one deferred task is popped.
Release(s) ==
  /\ slot_task'  = [slot_task EXCEPT ![s] = NoTask]
  /\ slot_state' = [slot_state EXCEPT ![s] = "idle"]
  /\ UNCHANGED <<n_prompt, n_decoded>>
  /\ PopDeferred

ProcessCancel ==
  /\ mpc = "process" /\ cur.type = "cancel"
  /\ IF \E s \in Slots : slot_task[s] = cur.id
     THEN \E s \in Slots : slot_task[s] = cur.id /\ Release(s)
     ELSE UNCHANGED <<queueVars, slotVars>>
  /\ Processed
  /\ UNCHANGED <<resultVars, readerVars, answered>>

ProcessNext ==
  /\ mpc = "process" /\ cur.type = "next"
  /\ Processed
  /\ UNCHANGED <<queueVars, resultVars, readerVars, slotVars, answered>>

(***************************************************************************)
(* update_slots: the slots in order; each one may send and be released.    *)
(***************************************************************************)
UpdateIdle ==
  /\ mpc = "update" /\ AllIdle
  /\ mpc' = "wait"
  /\ UNCHANGED <<queueVars, resultVars, readerVars, slotVars, cur, pass, at, failed,
                 answered>>

UpdateBegin ==
  /\ mpc = "update" /\ ~AllIdle
  /\ queue_tasks' = Append(queue_tasks, NextResponse)
  /\ at' = 0 /\ mpc' = "visit" /\ pass' = "batch"
  /\ UNCHANGED <<queue_tasks_deferred, resultVars, readerVars, slotVars, cur,
                 failed, answered>>

NextSlot == at' = at + 1 /\ mpc' = "visit" /\ UNCHANGED <<cur, pass, failed>>

Visiting(s, p) == mpc = "visit" /\ pass = p /\ at = s /\ s \in Slots

Quit(s, res) ==
  /\ Send(slot_task[s], res)
  /\ mpc' = "release"
  /\ UNCHANGED <<queueVars, readerVars, slotVars, cur, pass, at, failed>>

BatchSlot(s) ==
  /\ Visiting(s, "batch")
  /\ NextSlot
  /\ UNCHANGED <<queueVars, resultVars, readerVars, slotVars, answered>>

\* A prompt that does not fit gets an error, an empty one an empty answer.
BatchReject(s) ==
  /\ Visiting(s, "batch")
  /\ slot_task[s] \in BadTasks /\ slot_state[s] = "prompt"
  /\ \E res \in {"final", "error"} : Quit(s, res)

\* llama_decode is called only if some slot has tokens in the batch.
Decode ==
  /\ mpc = "visit" /\ pass = "batch" /\ at = NSlots
  /\ pass' = "decode" /\ at' = 0
  /\ failed' \in {FALSE, /\ DecodeFails
                         /\ \E s \in Slots :
                              slot_state[s] \in {"prompt", "generating"}}
  /\ UNCHANGED <<queueVars, resultVars, readerVars, slotVars, mpc, cur,
                 answered>>

\* Idle slots have nothing to do.
VisitSkip(s) ==
  /\ Visiting(s, "decode") /\ IsIdle(s)
  /\ NextSlot
  /\ UNCHANGED <<queueVars, resultVars, readerVars, slotVars, answered>>

\* After a failed decode every task on a slot gets an error.
VisitError(s) ==
  /\ Visiting(s, "decode") /\ ~IsIdle(s) /\ failed
  /\ Quit(s, "error")

VisitPrompt(s) ==
  /\ Visiting(s, "decode") /\ ~failed
  /\ slot_state[s] = "prompt" /\ n_prompt[s] > 1
  /\ n_prompt' = [n_prompt EXCEPT ![s] = @ - 1]
  /\ NextSlot
  /\ UNCHANGED <<queueVars, resultVars, readerVars, slot_task, slot_state,
                 n_decoded, answered>>

\* The prompt is done, or the slot is generating: sample one token, and send
\* it if the client streams.
VisitSample(s) ==
  /\ Visiting(s, "decode") /\ ~failed
  /\ \/ /\ slot_state[s] = "prompt" /\ n_prompt[s] = 1
        /\ slot_state' = [slot_state EXCEPT ![s] = "generating"]
     \/ slot_state[s] = "generating" /\ UNCHANGED slot_state
  /\ n_decoded' = [n_decoded EXCEPT ![s] = @ + 1]
  /\ IF slot_task[s] \in Stream
     THEN Send(slot_task[s], "partial")
     ELSE UNCHANGED <<resultVars, answered>>
  /\ mpc' = "sampled"
  /\ UNCHANGED <<queueVars, readerVars, slot_task, n_prompt, cur, pass, at,
                 failed>>

\* A stop word or end of generation stops at any token, n_predict for sure.
SampledContinue ==
  /\ mpc = "sampled" /\ n_decoded[at] < NPredict
  /\ NextSlot
  /\ UNCHANGED <<queueVars, resultVars, readerVars, slotVars, answered>>

\* Mutant: the final result is sent and the slot not released.
SampledStopKeeps ==
  /\ mpc = "sampled"
  /\ Send(slot_task[at], "final")
  /\ NextSlot
  /\ UNCHANGED <<queueVars, readerVars, slotVars>>

SampledStop == mpc = "sampled" /\ Quit(at, "final")

ReleaseSlot ==
  /\ mpc = "release"
  /\ Release(at)
  /\ NextSlot
  /\ UNCHANGED <<resultVars, readerVars, answered>>

UpdateEnd ==
  /\ mpc = "visit" /\ pass = "decode" /\ at = NSlots
  /\ mpc' = "wait" /\ failed' = FALSE
  /\ UNCHANGED <<queueVars, resultVars, readerVars, slotVars, cur, pass,
                 at, answered>>

-----------------------------------------------------------------------------
Init ==
  /\ queue_tasks = <<>> /\ queue_tasks_deferred = <<>>
  /\ waiting_task_ids = {}
  /\ queue_results = [t \in Tasks |-> <<>>]
  /\ rpc = [r \in Readers |-> "new"]
  /\ received_count = [r \in Readers |-> 0]
  /\ cancelled = [r \in Readers |-> FALSE]
  /\ mpc = "pop" /\ cur = NextResponse
  /\ pass = "batch" /\ at = 0 /\ failed = FALSE
  /\ slot_task = [s \in Slots |-> NoTask]
  /\ slot_state = [s \in Slots |-> "idle"]
  /\ n_prompt = [s \in Slots |-> 0]
  /\ n_decoded = [s \in Slots |-> 0]
  /\ answered = {}

ReaderStep(r) ==
  \/ AddWaitingTasks(r) \/ PostTasks(r)
  \/ \E t \in Tasks : Recv(r, t)
  \/ StopRemoveWaiting(r) \/ StopClearResults(r) \/ StopPostCancel(r)

MainStep ==
  \/ PopTask \/ QueueEmpty \/ Wait
  \/ ProcessDefer \/ ProcessLaunch \/ ProcessReject \/ ProcessReply
  \/ ProcessCancel \/ ProcessNext
  \/ UpdateIdle \/ UpdateBegin \/ Decode
  \/ \E s \in Slots : \/ BatchSlot(s) \/ BatchReject(s)
                      \/ VisitSkip(s) \/ VisitError(s)
                      \/ VisitPrompt(s) \/ VisitSample(s)
  \/ SampledContinue \/ SampledStop \/ ReleaseSlot \/ UpdateEnd

Next == MainStep \/ \E r \in Readers : ReaderStep(r) \/ Disconnect(r)

Spec == Init /\ [][Next]_vars

\* The main thread and every HTTP thread keep running; a client need not
\* disconnect.
Fairness == WF_vars(MainStep) /\ \A r \in Readers : WF_vars(ReaderStep(r))
FairSpec == Spec /\ Fairness

-----------------------------------------------------------------------------
\* Type invariant: the shape of the queues, of the readers and of the slots.
TypeOK ==
  /\ queue_tasks \in Seq(Messages)
  /\ queue_tasks_deferred \in Seq([type : {"run"}, id : Tasks])
  /\ waiting_task_ids \subseteq Tasks
  /\ queue_results \in [Tasks -> Seq(Results)]
  /\ rpc \in [Readers -> {"new", "post", "recv", "stop", "stop_clear",
                          "stop_post", "done"}]
  /\ received_count \in [Readers -> Nat]
  /\ cancelled \in [Readers -> BOOLEAN]
  /\ mpc \in {"pop", "process", "update", "visit", "sampled", "release",
              "wait"}
  /\ cur \in Messages
  /\ pass \in {"batch", "decode"} /\ at \in 0 .. NSlots
  /\ mpc \in {"sampled", "release"} => at \in Slots /\ slot_state[at] # "idle"
  /\ failed \in BOOLEAN
  /\ slot_task \in [Slots -> Tasks \cup {NoTask}]
  /\ slot_state \in [Slots -> SlotStates]
  /\ \A s \in Slots : slot_state[s] = "idle" <=> slot_task[s] = NoTask
  /\ n_prompt \in [Slots -> Nat] /\ n_decoded \in [Slots -> Nat]
  /\ answered \subseteq Tasks

Queued(t)   == \E i \in DOMAIN queue_tasks : queue_tasks[i] = Run(t)
Deferred(t) == \E i \in DOMAIN queue_tasks_deferred :
                 queue_tasks_deferred[i] = Run(t)
InHand(t)   == mpc = "process" /\ cur = Run(t)
OnSlot(t)   == \E s \in Slots : slot_task[s] = t
\* The main thread has answered t and is about to release its slot.
Releasing(t) == mpc = "release" /\ slot_task[at] = t

\* A task is moved, never copied: it is in at most one of the two queues, the
\* hands of the main thread and the slots, once, and nowhere after it has
\* been answered.  (post, defer, pop_deferred_task, cleanup_pending_task,
\* launch_slot_with_task and release all move the same server_task.)
SinglePlace ==
  /\ \A i, j \in DOMAIN queue_tasks :
       queue_tasks[i] = queue_tasks[j] /\ queue_tasks[i].type = "run" => i = j
  /\ \A i, j \in DOMAIN queue_tasks_deferred :
       queue_tasks_deferred[i] = queue_tasks_deferred[j] => i = j
  /\ \A s1, s2 \in Slots :
       slot_task[s1] = slot_task[s2] /\ slot_task[s1] # NoTask => s1 = s2
  /\ \A t \in Tasks :
       /\ Queued(t)   => ~Deferred(t) /\ ~InHand(t) /\ ~OnSlot(t)
       /\ Deferred(t) => ~InHand(t) /\ ~OnSlot(t)
       /\ InHand(t)   => ~OnSlot(t)
       /\ t \in answered /\ (Queued(t) \/ Deferred(t) \/ InHand(t) \/ OnSlot(t))
            => Releasing(t)

\* No result outlives its reader: a result is in queue_results only while its
\* task is waited for, or while its reader is about to erase it.  A reader that
\* got all its final results calls only remove_waiting_task_ids, which erases
\* no result, so this relies on every task being answered once.
NoOrphanResult ==
  \A t \in Tasks : queue_results[t] # <<>> =>
     t \in waiting_task_ids \/ rpc[Owner[t]] = "stop_clear"

\* No task is lost: as long as its reader waits, a task that has not been
\* answered is queued, deferred, in the hands of the main thread or on a slot.
NoLostTask ==
  \A t \in Tasks :
     rpc[Owner[t]] = "recv" /\ t \notin answered =>
       Queued(t) \/ Deferred(t) \/ InHand(t) \/ OnSlot(t)

\* The reader's assertion "duplicate result received" cannot fail, and nothing
\* follows a terminal result: it is the last entry of the task, and a reader
\* never counts more results than it posted tasks.
TerminalResultLast ==
  /\ \A t \in Tasks : \A i \in DOMAIN queue_results[t] :
       queue_results[t][i] # "partial" => i = Len(queue_results[t])
  /\ \A r \in Readers : received_count[r] <= Len(Request[r])

\* No slot stays idle while completions are deferred: for each idle slot a
\* task is queued or in hand, which will take it.  A release moves one deferred
\* task back, the tasks that are posted meanwhile compete with it for the slot,
\* and the one that loses is deferred again, behind the others.  This is about
\* completions that name no slot and whose clients stay: a task that is moved
\* back and then cancelled, rejected or answered at once leaves the slot to
\* nobody, and nothing moves the next one back.
WorkConserving ==
  queue_tasks_deferred # <<>> =>
    Cardinality({s \in Slots : IsIdle(s)})
      <= Cardinality({t \in Tasks : Queued(t) \/ InHand(t)})

\* Every request that is posted ends: its reader gets all its results, an
\* error, or its client gives up.
RequestEnds ==
  \A r \in Readers : rpc[r] = "recv" ~> rpc[r] = "done"
=============================================================================
