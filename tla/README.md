# TLA+ verification of the llama.cpp tree in Step-3.5-Flash

The repository carries a copy of llama.cpp (`src/llama.cpp`) and, around it,
cookbooks for the Step-3.5-Flash model. The logic of its own that is hard to get
right sits in three layers: the inference server (`tools/server`), the library it
drives (`src/llama-*.cpp`) and the tensor runtime below (`ggml`). This project
models those layers as TLA+ modules, checks them with TLC on small instances and
proves what it can of them with TLAPS. Paths below are relative to
`src/llama.cpp`.

1. [Inventory](#1-inventory)
2. [Plan](#2-plan)
3. [Modules](#3-modules)
4. [Runs, bounds and fairness](#4-runs-bounds-and-fairness)
5. [Proofs](#5-proofs)
6. [Findings and observations](#6-findings-and-observations)
7. [What is not modelled](#7-what-is-not-modelled)

## 1. Inventory

### 1.1 Server (`tools/server`)

HTTP threads (cpp-httplib) parse requests, post tasks and wait for results; one
main thread runs everything that touches the model.

| Component | State | Operations | Correct when |
|---|---|---|---|
| Task queue: `server_queue` | `queue_tasks`, `queue_tasks_deferred`, `running`, `sleeping`, `req_stop_sleeping`, `time_last_task`; one mutex, one condition variable | `post` (a task or a vector, to either end; a cancel task first removes its target from both queues), `defer`, `pop_deferred_task`, `wait_until_no_sleep`, `terminate`, `start_loop` | a task is never lost or duplicated; a deferred task gets its turn; the loop ends when asked to |
| Results: `server_response`, `server_response_reader` | `waiting_task_ids`, `queue_results`; per request `received_count`, `cancelled` | `add_waiting_task_ids`, `remove_waiting_task_id(s)`, `send`, `recv_with_timeout`, `post_tasks`, `next`, `wait_for_all`, `stop` | every request gets one terminal result per task or an error, and leaves nothing behind |
| Slots: `server_slot`, `server_context_impl` | per slot its task, state (idle, prompt, generating), token counts | `process_single_task`, `get_available_slot`, `launch_slot_with_task`, `update_slots`, `release`, `copy_state_to` | a slot is owned by one task; it does not stay idle while one waits |
| Sleeping and shutdown | `sleeping`, whether the model is loaded, whether `start_loop` runs | `handle_sleeping_state` (`destroy`, `load_model`), `terminate` from a signal | nobody works without a model; nobody blocks for ever |
| Prompt cache and checkpoints (`server-task.cpp`) | list of saved prompts with states, size and token limits; checkpoints per slot | `alloc`, `load`, `update`, `size` | limits hold, a loaded state is a prefix of the prompt |
| Router (`server-models.cpp`) | map of model instances: child process, status, exit code, last use, monitoring thread; `stopping_models`; one mutex, two condition variables | `load`, `unload`, `unload_lru`, `unload_all`, `ensure_model_loaded`, `proxy_request`; per instance a log thread, a stopping thread with a timeout and the monitoring thread that joins both | a status follows its process; no report for a later instance; waits and the shutdown end |
| HTTP and JSON layer | none between requests | parsing, formatting | out of scope |

Interactions: readers and main thread share the two queues, each under its own
mutex, so an HTTP thread may act between any two critical sections of a handler
of the main thread. A slot's release calls back into the queue
(`callback_on_release` is `pop_deferred_task`); the idle queue calls back into the
context (`callback_sleeping_state`) with its mutex held. Hard: a client that
disconnects at any moment (`stop()` is three critical sections), decodes that
fail for all slots at once, several completions of one request, one condition
variable for waits with different predicates, a signal in the middle; in the
router, child processes that die at any moment and three threads that report for
each of them.

### 1.2 Library (`src/`)

| Component | State | Operations | Correct when |
|---|---|---|---|
| KV cells: `llama_kv_cells` | per cell position, shift, sequences; the summaries `used`, `seq_pos`, `has_shift` | `rm`, `seq_rm`, `seq_keep`, `seq_add`, `pos_set`, `pos_add`, `pos_div`, `cp`, `set`, `reset`, `reset_shift` | summaries equal a recount |
| KV cache: `llama_kv_cache` | cells and search head per stream, pending stream copies, the K and V tensors | `clear`, `seq_*`, `prepare`, `find_slot`, `apply_ubatch`, `update` (stream copies, K-shift), `state_write/read` | a sequence reads back what was written to it, at the positions it was moved to |
| Batches: `llama_batch_allocr` | `used`, sequence sets, positions of the batch | `init` (checks), `split_simple`, `split_equal`, `split_seq` | ubatches partition the batch in an order every sequence can be decoded in |
| Decode loop: `llama_context::decode` | output buffers | update, prepare with one retry, ubatch by ubatch, truncation of a failed one | documented return values and their effect on the memory |
| Other memories: iswa, recurrent, hybrid | two caches that must agree; cell chains with tails | the same interface | the parts stay in step |
| Sampling, grammar, speculative, n-gram caches (also `common/`) | ring buffer of penalties, grammar stacks | accept, apply, reset | numerical or character level |
| Models, graphs, vocabularies, loaders, quantization | tables | build, load | out of scope |

Hard: cells are shared by sequences; data operations are recorded now and done
at the next decode, after further calls; `prepare` places a batch tentatively and
takes it back; with a sliding window cells of one sequence are reused for
another; a ubatch may fail in the middle of a batch.

### 1.3 Runtime (`ggml/src`) and common code

| Component | State | Operations | Correct when |
|---|---|---|---|
| CPU thread pool (`ggml-cpu/ggml-cpu.c`) | `n_graph`, `n_barrier`, `n_barrier_passed`, `current_chunk`, `abort`, `pause`, `stop` | kick-off, barrier, polling, pause, resume, abort, free | all threads are in the same node of the same graph; nobody sleeps through a kick-off |
| Graph allocator (`ggml-alloc.c`) | free blocks per chunk, reference counts of tensors | allocate, free, reuse of a parent's memory | tensors that live at the same time do not overlap |
| Backend scheduler (`ggml-backend.cpp`) | splits, copies, events | assign, split, compute | a copy is not overwritten while in use |
| Log (`common/log.cpp`) | ring of entries, worker thread, file | add (growing the ring), pause, resume, flush, set_file | no entry lost or reordered; pause returns |
| Downloads (`common/download.cpp`) | a file, its `.etag`, its partial `.downloadInProgress` | HEAD, resumed GET, three attempts, rename | the file is one whole version, and the one its etag names |
| Tensors, files, GPU and RPC backends | | | numerical code, drivers |

## 2. Plan

Ordered by how much depends on the behaviour and how hard it is to test.

| # | Module | Composes with | Abstract specification | Theorems | State |
|---|---|---|---|---|---|
| 1 | `ServerQueue` | | `RequestEnds`, `SinglePlace` as the promise of the queue | types, `SinglePlace`, `NoLostTask`, `NoOrphanResult`, `TerminalResultLast`, `WorkConserving` | modelled, checked, proved |
| 2 | `ServerSleep` | shares the queue with 1 | | types, `ProcessesLoaded`, `FlagCoversUnload` | modelled, checked, proved |
| 3 | `KvCells`, `KvCache` | batches, decode loop | `SeqMemory`, what `llama.h` promises | types, the summaries are exact (`CellsExact`), K is rotated by its position (`RotationExact`) | modelled, checked, proved |
| 4 | `Barrier`, `ThreadPool` (`ggml-cpu.c`) | `ThreadPool` includes `Barrier` | | the barrier keeps any number of threads together; the safety of the pool | modelled, checked, proved |
| 5 | `Router` (`server-models.cpp`) | children run 1 and 2 | | `UnloadedIsGone`, `ActiveIsWatched` | modelled, checked, proved |
| 6 | `LogRing` (`log.cpp`) | | `LogFifo`, what `log.h` promises | the ring implements the queue | modelled, checked, proved |
| 7 | `Download` (`download.cpp`) | | | the three properties of its run | modelled, checked, proved |
| 8 | `FreeList`, `TensorAlloc`, `GraphAlloc` (`ggml-alloc.c`) | both use `FreeList` | | tensors do not overlap; what a node reads is intact, outputs are kept | modelled, checked, proved |
| 9 | `PromptCache`, iswa and recurrent memories, the backend scheduler | slots of 1; `KvCache`; `GraphAlloc` | `SeqMemory` for the memories | | later |

The modules keep the same form, so that they can be proved about as well as
checked: parameters are CONSTANTS with named, weak assumptions, one action per
operation or critical section, invariants are conjunctions of named parts, and
no module declares a RECURSIVE operator. Each run answers a question of its own
with the smallest numbers that show contention (three threads, two models, a ring
of two entries).

## 3. Modules

### `ServerQueue`, `MCServerQueue`, `ServerQueueProofs`

Every action is one critical section of `mutex_tasks` or `mutex_results`, or the
thread-local work between two of them. This is the finest interleaving the mutexes
allow, since nothing else is shared.

* Readers (`rpc`): `AddWaitingTasks`, `PostTasks`, `Recv`, `Disconnect`, then
  `stop()` in its three sections, `StopRemoveWaiting`, `StopClearResults`,
  `StopPostCancel`. `Request` is the vector handed to `post_tasks`; for `n_cmpl > 1`
  the children stand before their parent, as in `handle_completions_impl`.
* Main thread (`mpc`): `PopTask` takes a message in hand, `Process*` are the cases
  of `process_single_task`, `UpdateBegin` to `UpdateEnd` are `update_slots`: a pass
  that fills the batch, one decode that may fail for all, and a pass that samples
  each slot. `Quit` sends the terminal result, `ReleaseSlot` frees the slot; both are
  steps of their own, since a client may disconnect between them.
* A child is launched like any other task and processes the prompt itself:
  `launch_slot_with_task` asks `is_child()` (`server-context.cpp:1183`) while the slot is
  still idle, and `is_child()` is false of an idle slot (`:296`). So
  `SLOT_STATE_WAIT_OTHER` is never entered, the parent's loop over waiting children
  (`:2626`) finds none, and neither is in the model.
* Abstracted: the contents of prompts (a number of decodes left), the choice among
  idle slots (any), the time of timeouts (polls happen at any moment).

### `ServerSleep`, `MCServerSleep`, `ServerSleepProofs`

The same queue, seen from its mutex and condition variable. `condition_tasks` is
the set of threads blocked in a wait; `NotifyOne` takes any one out of it.
`mutex_tasks` is explicit where the main thread holds it over more than one step:
`LockPop` to `PopTask`, `LockCheck` to `CheckBreak`, `CheckWait` or, through
`EnterSleep`, `Unload`, `Sleep`, to the wait of the sleep, and from `SleepWoken`
through `Reload` to `Awake`. `Signal` puts `signal_handler` on a thread, where it
blocks until the mutex is free (for ever, if it interrupted its holder). A client that
has passed `wait_until_no_sleep` may post when the server sleeps again.

### `KvCells`, `KvCache`, `KvCacheInv`, `KvCacheProofs`, `SeqMemory`, `MCKvCache`

`KvCells` has one operator per loop over `llama_kv_cells`: it changes the hit cells
and adjusts `used`, `seq_pos` and `has_shift` by them, exactly as the code does
(`pos_div` adds the opposite shift, as the code does). `KvCache` holds the cells and
heads per stream, the pending copies `sc_info` and, for the tensors, which token
each cell holds and by which position its K has been rotated (`store`). Its actions
are the calls of the memory API and the decode: `Decode` is `memory_update` (stream
copies, then the K-shift, whose graph may fail), the position checks of
`llama_batch_allocr::init`, the split into ubatches and `prepare` with its undo;
then `ProcessUbatch` or `AbortUbatch` per ubatch. A context belongs to one thread,
so no call of the API falls between them. `SaveSeq` writes the cells of a sequence as
they are (`state_write`), `LoadSeq` removes a sequence and puts a saved state into free
cells, as a ubatch would (`state_read`).

`SeqMemory` is the abstract specification: for each sequence, how often it has
each token at each position. `KvCache` implements it (`ImplementsMemory`, the
refinement mapping `MemOf` reads the cells of a sequence and its tokens after
the pending stream copies). In it, a call on one sequence leaves the others
alone, a kept sequence is the only one left, whichever stream the others are in
(`llama.h:716`), and a decode appends tokens and forgets only what the next token of the
sequence could not see. The code cleans one stream only, so with several streams the
constant `KeepAcross` says whether callers keep sequences; the runs do not.
`ImplementsMemory` says that each step is some step of `SeqMemory`; `CallsAsPromised` that each call is the abstract operation of its own
name, with its own arguments. `store` forgets what an empty cell held at the
next update, since nothing reads it any more.

### `Barrier`, `ThreadPool`, `ThreadPoolProofs`, `MCThreadPool`

`Barrier` is `ggml_barrier`, one action per atomic access: `Arrive` reads the number
of threads from `n_graph`, `Join` reads `n_barrier_passed` and then adds to
`n_barrier`, `Open` is the last thread's reset and release, `SpinExit` the read that
sees the crossing. `ThreadPool` includes it (`EXTENDS`) and adds the pool: thread 0 is the
caller of `ggml_graph_compute` (`SetParams`, then the kickoff in the two steps
`Publish` and `Wake` with the mutex held between them, since polling workers read
`n_graph` without it), `SetPause`, `Free` and `JoinWorkers`. A worker reads `pause`,
`stop` and `n_graph` one by one (`ReadPause` to `WaitWork`); the polling may end
after any number of rounds. In a graph every thread runs `Begin`, `LoopHead`, then
`Rows` or, for a multiplication, `Convert`, the barrier and `Chunk` by `Chunk`, and
`After` with thread 0's abort callback and the barrier between two nodes. What a
node computes is the set `made` of its pieces, `wdata` says for which node each part
of the shared work buffer has been converted. This is the build without OpenMP; with
OpenMP the library's own barrier and thread team take the place of pool and
barrier. The relaxed accesses are taken in one order, the one the fences of the
kickoff and of the barrier establish.

### `Router`, `MCRouter`, `RouterProofs`

One action per critical section of `server_models::mutex`. Waits on `cv` and
`cv_stop` are guards, since both are notified with `notify_all` in the section that
changes what is waited for. Callers (`cpc`) are HTTP threads: `Request` is a request
with autoload, `LoadRoute` and `UnloadRoute` the two routes; `load` is `CheckLimit`,
`Evict`, `EvictDone` (the three sections of `unload_lru`), then `LoadNothing`,
`SpawnFails` or `Spawn`, which joins the old monitoring thread (its guard). An
instance is its child (`ChildReady`, `ChildExit`, `ChildCrash`) and three threads:
`LogReady`, `LogEof`; `StopAsk`, `StopSeen`, `StopKill`; `MonitorLog`, `MonitorStop`,
`MonitorReap`. `UnloadAll` and `JoinAll` are the shutdown, after the HTTP server
has stopped. `recent` orders the active models by `last_used`; when all were used
in the current millisecond the code finds none to evict, which is the second
alternative of `CheckLimit` (`SameMillisecond` = FALSE leaves it out). `LimitReached` is
the test of `models_max`.

### `LogFifo`, `LogRing`, `LogRingProofs`

`LogRing` is `common_log` with one step per critical section of `mtx` and two for
the printing outside it. Any thread may `Add`; one controlling thread calls pause,
resume, flush, `set_file`, `set_colors` and the destructor, which all are `Pause` (or
`PausePaused`), `Join` and what follows (`after`). `LogFifo` is the queue of messages
that `log.h` describes; `ImplementsFifo` maps the entries from head to tail, and the
one the worker has in hand, to that queue. `Pause` stores its end entry without a look
at the room in the ring, as the code does. With one entry free head and tail meet
(`Overrun`): the ring then holds `size` entries (`Held`) and looks empty to the worker.

### `Download`, `DownloadProofs`

One file of one URL, `common_download_file_single_online` with libcurl: an action
per file operation and per exchange with the server, so that `Crash` may fall
between any two. Contents are sequences of chunks of a version; the server may
publish a new version, cut a transfer off after any chunk, not answer HEAD or answer it
with status 200 and no etag (which the code takes for another etag), and,
as constants say, ignore ranges (`Ranges`), answer with an error page (`ErrorPages`)
or change its file while a partial one is around (`QuietChange` = FALSE).

### `FreeList`, `TensorAlloc`, `GraphAlloc`, `GraphAllocProofs`, `SampleGraphs`, `MCGraphAlloc`

`FreeList` holds the operations of `ggml_dyn_tallocr` as operators on its chunks; a
search loop that keeps the best candidate is a choice of the first, last, least or
largest one. `TensorAlloc` calls them in any order with any sizes; its next-state relation
ranges over all numbers, so it has no run and is there for its theorems.
`GraphAlloc` calls the same operators, checked by `galloc_safe`, in the order in which
`ggml_gallocr_alloc_graph_impl` walks over a graph: `PlaceAll` is a function of the
graph, whose state (`n_children`, `n_views`, `allocated`, `addr`) is a record that goes
from node to node (`PlaceTensor`), and in a node from source to source
(`AllocateSources`, the node, `UpdateSources`). `WellFormed` says what a graph is: leafs
before nodes, sources before their readers, at most `MaxSrc` of them, no views of views,
no unread leaf, and what the code asserts of in-place nodes; TLC checks it of all
graphs of the run. Its actions are the calls of the program: it builds a graph, reserves
or allocates it (`Reserve`: the plan is stored, then the buffer made if it is too
small), and the backend computes node by node. `memory` says which tensor has written
last to each place, so that a node can be asked whether what it reads is still there.
`SampleGraphs` builds families of graphs: all those of a few nodes, or of a given wiring
with all kinds of operations. Sizes are counted in units of the alignment. The branch
for in-place reuse of a view (`ggml-alloc.c:661`) is left out: it needs `allocated` of a
view, which is never set.

## 4. Runs, bounds and fairness

| Run | Expect | Instance | Shows |
|---|---|---|---|
| `queue_safe` | pass | a pair of completions whose client may disconnect, a completion bound to slot 0 that may be rejected, `/metrics`; 2 slots; decodes may fail | `TypeOK`, `SinglePlace`, `NoOrphanResult`, `NoLostTask`, `TerminalResultLast` |
| `queue_pair` | pass | a pair and two single completions, no slot named, no failures | `WorkConserving`, `RequestEnds` |
| `sleep_safe` | pass | 3 HTTP threads, one signal on another thread than the main one | `ProcessesLoaded`, `FlagCoversUnload`, `GateOpensUnlessStopped`, `TerminateEndsLoop` |
| `kv_unified` | pass | 2 sequences share 3 cells, window of 2, batches of 2, aborts, `seq_add` by -1 | `CellsExact`, `DecodeLeavesNoHole`, `ImplementsMemory` |
| `kv_streams` | pass | a stream of 2 cells per sequence, 2 pending copies, ubatches of 1 token, failing K-shifts, aborts, no `seq_keep` | `RotationExact`, `SlotUsable`, `NoSlotRestores`, `AbortRestores`, `CallsAsPromised` |
| `kv_shared` | pass | 2 cells of one stream, tokens of both sequences at once, `seq_div` by 2, saved and loaded states, ubatches of 1 token, aborts | `CallsAsPromised` |
| `pool_step` | pass | 3 threads, a graph of a row node, an empty one and two multiplications (8 and 2 chunks), computed twice by 1, 2 or all 3 threads (a plan for 4 gets 3) | `OperandsComplete`, `WorkBufferReady`, `NoPieceTwice`, `GraphResult`, `ParamsQuiet`, `CallReturns`, `FreeReturns` |
| `router_safe` | pass | 2 HTTP threads, 2 models, `models_max` = 1, 3 operations, children that crash when ready | `UnloadedIsGone`, `ActiveIsWatched`, `StopCompletes`, `WaitReturns`, `ShutdownEnds` |
| `router_child` | violation | the same with 1 operation and children that exit while they load | `WaitReturns` fails |
| `download_safe` | pass | files of 3 chunks, 3 versions, 5 runs of 3 attempts, HEAD answers without an etag | `FileWhole`, `FreshTrusted`, `DeleteOnlyOutdated` |
| `log_safe` | pass | a ring of 2 entries, 4 messages, 1 file; pauses of a ring with one free entry, too | `ImplementsFifo`, `AllWritten`, `PauseReturns` |
| `galloc_safe` | pass | all graphs of a leaf and 3 nodes, graphs of 6 tensors of three shapes, with views, padding, in-place nodes, outputs; up to 3 smaller graphs one after the other, reserved or allocated | `OperandsIntact`, `OutputsKept` |

Bounds, and why they are enough for the behaviours above.

* Two slots and four tasks: with them a task is deferred while both slots are
  busy, two slots are released in one pass, a pair holds both slots, and one
  of them is held by a stranger. A third slot adds no new kind of conflict.
* `NPredict` = 2: a generation survives at least one decode. `MaxPrompt` = 2 in
  `queue_pair` (1 elsewhere): a slot still prompts while another one generates, and
  prompts end in any order.
* Three HTTP threads: one that wakes the sleeper, one that finds the request
  made, one that posts meanwhile.
* Two cells and tokens of both sequences at once (`kv_shared`): a cell is
  shared, loses one of its sequences, or loses both. Ranges of positions are all
  positions or one (`AllOrOne`): a range empties a sequence or leaves a hole in it.
* Three cells for two sequences with a window of 2: a slot needs a cell of the
  other sequence, or has to be refused.
* `MaxCopies` = 2 pending stream copies: a copy of a copy, and a copy back.
* One saved state at a time, of either sequence, loaded into either, as often as
  wanted: into the cells it came from, beside cells of the other sequence, or into too
  few of them. It is saved when nothing is pending and no position has been divided
  (`EarlySaves` = FALSE), and positions are divided only while nothing is saved.
* `KeepAcross` = FALSE in `kv_streams`: section 6 says what a kept sequence leaves behind.
* `MaxPos` bounds positions by the guards of `SeqAdd` and of `ValidBatch`;
  rotations are bounded with them. One token content suffices where properties
  look at positions and counts only.
* Three threads: one opens a barrier, one leaves it late while the third is already
  in the next one. 8 chunks are below the four per thread at which three threads
  redo the chunking, and are kept by one or two; 2 are always redone. Two calls: the
  stragglers of one graph meet the kickoff of the next, with another number of
  threads. `PassedMod` = 16 stands for the 2^32 values of `n_barrier_passed` and is
  more than the two calls can cross; with 2, TLC finds a thread that is still
  spinning when the counter is back at the value it waits to change. The graph
  count of `n_graph` (16 bits in the code) does not wrap in the model.
* Two models and room for one: every second load evicts, and both HTTP threads may
  evict the same model, or each other's. Three operations: a load, an eviction and
  an unload, or a load that follows both.
* Three chunks: a transfer is cut off at the start, inside, and at the end. Three
  versions and five runs: a download of an old version is interrupted, resumed,
  replaced and replaced again.
* A ring of two entries and four messages: it wraps and grows twice, and a pause finds it
  with one free entry. From there `pause()` does not return (section 6); `PauseReturns` and
  `AllWritten` are about all other pauses, `ImplementsFifo` about these, too.
* `MaxSrc` = 2 sources of a node (10 in the code): one that is read twice, and two of which
  the second may be reused in place.
* Graphs of six tensors: a residual connection, two branches that meet, a tensor that is
  read late; blocks are released between two others, joined and split again. Chunks of 4
  units hold two tensors of size 2, the second chunk is the last one. Outputs are no views
  but the last node, and graphs with the same numbers of nodes and leafs have the same
  wiring (`SameTopology`), as those of a model do; section 6 says what happens otherwise.
  Three graphs: a smaller one keeps the plan of a larger one, a third is compared with it.
* `CHECK_DEADLOCK FALSE` in all cfgs: the server stops when all its clients are
  served or the loop has ended, in the cache every sequence may be full up to
  `MaxPos` (the calls that empty it remain), a pool or a log is freed, the router
  shut down, downloads have run as often as the bound allows, and so many graphs been
  built.

Fairness. `ServerQueue` assumes weak fairness of the main thread and of each HTTP
thread: the loop has no exit but `terminate`, and threads are scheduled by the
system; `Disconnect` is not fair, since clients need not give up. A poll of a wait
(one second) is a step like others, which is what makes weak fairness enough.
`ServerSleep` assumes weak fairness of the main thread and strong fairness of
threads that need the mutex, for the main thread takes it again and again: the
mutexes of the supported systems do not starve a waiter for ever. `PromptWake`
adds that a woken thread runs before the server has been idle for the whole
sleep time again (at least a second); without it a thread could be put back
to wait by sleep after sleep. `ThreadPool` assumes weak fairness of every running
thread; the caller need not start another call. `Router` assumes that threads run,
that a stop timeout passes, and that a child which is neither stopped nor crashing
gets ready in the end; that a child obeys the exit command is not assumed (it is
killed). `StopCompletes` and `ShutdownEnds` are about behaviours in which no child
exits unasked; section 6 says why. `LogRing` assumes weak fairness of the worker and of
a control call that has begun. `KvCache`, `Download` and the allocators have no liveness property.

Each property of a passing run has a mutant: a definition of the module changed
as a plausible bug would change it (defined just before the right one, marked
`Mutant`), with which the same run fails.

## 5. Proofs

The theorems are checked by TLAPS for every value of the constants that satisfies
the assumptions of the modules: any finite set of tasks and readers, any number of
slots, any shape of requests; any finite set of HTTP threads, any signal; any finite
set of threads at a barrier and any wrap of its counter; any models, callers and
limit of the router; any capacity of the log; any sizes of chunks and tensors; any graphs of any length.

* `ServerQueueProofs!TypeCorrect`: `TypeOK` of `ServerQueue`. It is inductive
  as stated, since it contains the two facts the actions need: a slot is idle iff
  it has no task, and the slot that is being sampled or released has one. The
  helper lemmas describe the sequence operations of the queues (`Without` yields a
  sequence over the same set).
* `ServerQueueProofs!TasksAreMoved`, `NoTaskIsLost`, `ResultsAreTaken`,
  `TerminalIsLast`: the four safety properties of `queue_safe`. None is inductive; `IInv`
  is, and TLC checked it on the instances of both runs first. A queue is seen as the set of
  tasks it runs, the set of tasks it cancels, and whether it runs each once; lemmas say
  what concatenation, `Tail` and `Without` do to these three. `PlaceInv` adds to
  `SinglePlace` and `NoLostTask` that a task is nowhere before it is posted and that only
  tasks of readers that have left are cancelled (otherwise a cancellation would take the
  slot of a task somebody waits for). `CountInv` adds that a reader has taken all results
  of at least as many tasks as it counted final results: a reader that counted all its
  tasks has taken everything, so `stop()` may leave `queue_results` alone. The argument
  that these counts suffice is one about the cardinality of a subset.
* `ServerQueueProofs!SlotsAreUsed`: `WorkConserving`, for any completions and number of
  slots that satisfy `CompletionsAssumption`: every task is a completion that names no slot,
  nothing is rejected or fails, clients stay. `queue_pair` checks the property under
  constants that satisfy it; section 6 has the strand that a task makes which is moved back
  and takes no slot. The property counts: while tasks are deferred there are as many tasks
  queued or in hand as slots are vacant. It is `RoomInv`, inductive next to `IInv` and
  `CalmInv` (nothing is cancelled, no error is on its way, a reader leaves only when it has
  all its results). A release vacates a slot and moves one deferred task back; a task that
  is deferred has found no vacant slot, and one that leaves the hand otherwise has taken
  one (`RoomRelease`, `RoomDefer`, `RoomLaunch`).
* `ServerSleepProofs!TypeCorrect`: `TypeOK` of `ServerSleep`, inductive as stated.
* `ServerSleepProofs!AlwaysLoaded`, `FlagCovers`: `ProcessesLoaded` and
  `FlagCoversUnload`. Neither is inductive. `Gone` is: while the model is gone the main
  thread is on its way through the sleep, or on its way out of the loop with `running`
  reset (a `terminate` during the sleep leaves it without a model, and only
  `running` keeps it from taking the next task); the flag is set while the model is
  gone, and already when the main thread is about to unload it. Each action either
  leaves these alone or moves the main thread along that path.

* `KvCacheProofs`, first part (the invariants and the operators that only the proofs use
  are defined in `KvCacheInv`): every loop over the cells keeps the summaries of
  `llama_kv_cells` exact (`Good`: the types, and `Exact`), for any number of cells,
  sequences and positions: `NoCellsGood`, `RmGood`, `SeqRmGood`, `SeqKeepGood`,
  `SeqCpGood`, `PosAddGood`, `PosDivGood`, `ResetShiftGood`, `PlaceGood`, `SetGood`. The
  argument is the same each time. `CountsSplit` divides a recount over all cells into the
  cells an operation touches and the others (cardinality of a disjoint union); `Recount`
  concludes that taking the old counts of the touched cells out and putting the new ones
  in gives the recount; `ChangeGood` adds the set of used cells, empty cells and the shift
  flag. What remains per operation is its fields, and, for `seq_rm` and `seq_add`, which
  adjust one sequence only, that the others' counts do not change. The hypotheses are the
  assertions of the code: occupied cells for `pos_add` and `pos_div`, empty ones for
  `pos_set`, no cell that has the sequence already for `seq_add`, no pending shift on
  cells that `set` empties; and for `pos_add` the bound `MaxPos` of the model.
* `KvCacheProofs!CacheTypeCorrect`, `SummariesExact`: `TypeOK` and `CellsExact` of
  `KvCache`, and on the way that the assertions above hold wherever the cache uses these
  operations. The inductive invariant `CacheInv` adds that ubatches that wait for their
  graph have a slot with one cell per token in each of their streams, and that no stream
  copy is pending while they do. Most of the work is in one step, `Decode`. The splits of
  a batch only take places that it has, and tokens of a stream's sequences go to that
  stream (`SimpleSplitIs`, `EqualSplitIs`, `UbatchesAre`). A slot has as many cells as
  tokens, all different and all usable (`FindCellsIs`). `apply_ubatch` removes what its
  cells had, lays the tokens over them and purges up to the lost position (`PlacedGood`).
  `prepare` does this for one ubatch after the other and keeps a stack of what was there.
  `Accs` is the invariant of that loop: each entry leads, by placing its ubatch, to the
  cells of the next newer one. The undo meets `set`'s assertion that the cells have no
  shift, since a cell that was tentatively filled has none (`Unshifted`) and none is
  added. Undoing is not exact, since purged tokens do not come back; so what `UndoAllIs`
  shows is `Less`: after the undo each cell has what it had at the start or a part of it.
* `KvCacheProofs!RotationsExact`: `RotationExact`, under `RotationAssumption`: no
  `seq_div`, states saved and loaded only when nothing is pending, no failing K-shift in a
  cache with a window, no aborted ubatch with tokens of several sequences. The four are
  where the code breaks the property: with any one of them dropped TLC refutes it (section
  6). The property is inductive next to `CacheInv` once it is also said of saved states.
  It is about the store after the pending copies: a call that moves positions moves the
  pending shifts with them (`SameDrift`), one that takes away moves nothing (`Thinned`), a
  copy to another stream takes position and shift along at once and the data later
  (`CopiedAppend`), and `update` does the copies before the shift. After an aborted
  ubatch, whose graph may or may not have written, nothing is left in the cells of its
  slot (`Clean`).
* `KvCacheProofs!SlotsStayUsable`, `NoSlotLosesNothing`: `SlotUsable` and the action
  property `NoSlotRestores`, under `WindowAssumption`: no window, or a window with one
  stream and batches of one ubatch (with several, TLC refutes both, section 6). Without a
  window a slot is made of empty cells, and nothing is purged (`AppliedToEmpty`), so
  undoing is exact (`SameCells`). `SlotsFree` is the invariant: the slots of all ubatches
  still to be done are empty and share no cell. `TrialSlots` derives it from the trial
  placement: what was in use before an entry is in use before each newer one
  (`FilledStays`), while the cells of a slot are empty before its own. With a window,
  `WindowTrial` says what the trial of the only ubatch leaves, and `WindowSlot`, the
  invariant, that the cells of its slot are still usable afterwards. For a decode that
  finds no slot, the copies and shifts done before the trial change no token
  (`UpdatedIs`), so each sequence has the tokens it had.
* `KvCacheProofs!NoHoleIsLeft`: the action property `DecodeLeavesNoHole`, under
  `WindowAssumption` too (section 6 says what several ubatches do with a window). It
  compares positions, so the splits count: places of a batch that share a sequence keep their order over and within
  the ubatches (`InTurn`, of `SimpleSplitIs` and `EqualSplitIs`), and `seq_pos_max` and the
  counts of `ValidBatch` give the k-th of them the k-th position after the last one that
  the cells hold (`AppendsNow`). `Queued` is the invariant: what the ubatches to be done
  bring of a sequence continues, one ubatch after the other, what the cells hold of it. The
  trial of `prepare` keeps it: without a window because nothing is lost, with one because
  the last position of a sequence that is purged is in a cell of the slot and comes back
  (`TrialKeepsLast`). A purge then takes a run of positions from the lower end and an abort
  one from the upper (`PlacedConvex`, `CutConvex`).
* `KvCacheProofs!AbortLeavesNothing`: the action property `AbortRestores`, without a window
  and with one sequence per token (`Uncoupled`). It follows from `AbortKeeps`, the lemma of
  the refinement below: nothing is added, and what could still be seen is kept, which
  without a window is everything. Without either hypothesis TLC refutes it: an overwritten
  cell does not come back, and the second sequence of a token keeps it (section 6).
* `KvCacheProofs!CallsKeepPromise`, `CacheImplementsMemory`: the action property
  `CallsAsPromised` and the refinement `ImplementsMemory`, under `PromiseAssumption`, each
  conjunct of which is where the code departs from `llama.h` (section 6): with a window,
  one ubatch per batch (`WindowAssumption`); states are saved and loaded when nothing is
  pending; shared cells are not shifted; no sequence is kept in a cache with several streams;
  and a failing computation does not meet tokens of several sequences. The lemmas `Promise...` take one call each. `MemOfIs` reads a sequence
  as a count of cells (`Mem`); a call that keeps, joins or moves tokens is then a bijection
  or a disjoint union of sets of cells, in the same stream or from one to the other
  (`PromiseMoved`, `PromiseCpShare`, `PromiseCpStream`), where pending copies count as done.
  A decode is a step of the abstract memory at once, although it happens in three:
  `DecodeKeeps` shows that copies, shifts, trial and undo take nothing that the next token
  sees, `ProcessGrows` that a placed ubatch gives each sequence the next run of positions
  and the cells that are overwritten or purged are out of its view, `AbortKeeps` that an
  aborted one adds nothing: nothing of its ubatch survives the truncation (`Clean`), and
  what a sequence had before lies below the ubatch's first position of it (`Queued`).
  `PromiseInv` is the invariant: `CacheInv`, `SlotsFree`, `Queued`
  and `WindowSlot` as above, and `PlainJobs`, that the tokens of a ubatch are of one
  content and never twice at a position of a sequence (`PlacesApart`: whichever way the
  batch is split, its places go to different tokens).

* `ThreadPoolProofs!BarrierKeepsTogether`: threads that meet at `ggml_barrier` again and
  again (`RingSpec`, the repeated use of `Barrier`'s actions) are never more than one
  crossing apart: no thread returns from its k-th call before every thread has made
  its k-th call. The inductive invariant counts: `n_barrier` is the number of threads
  inside the current crossing; a thread is either current or one crossing behind, and
  then it spins on the value before the last crossing, so that no later thread can
  open the barrier again before it has left, and equality of the wrapped counter
  is enough from two values on.
* `ThreadPoolProofs!TypeCorrect`, `OperandsAreComplete`, `WorkBufferIsReady`,
  `PiecesOnce`, `ResultIsComplete`, `ParamsAreQuiet`: `TypeOK` and the safety properties of
  `pool_step`, for any size of the pool, any set of graphs, any thread counts of the plans,
  with pauses, aborts and the end of the pool anywhere. None is inductive. The inductive
  invariant assigns to each thread of the call the part of it the thread is in (`Region`):
  the nodes left, where skipping an empty node makes no difference, and the half of a
  multiplication. `Agree` says that all threads are in the same part. A thread leaves
  its part only by crossing a barrier; `Meeting` says that `n_barrier` counts just the
  threads of the call that wait, so the one that opens it finds all the others inside,
  and `AllWait` concludes that all of them stand at the same point: after the same
  node, inside the same multiplication, or at the end. A thread that has left the
  barrier's crossing behind but still spins counts as gone on (`Behind`); that is what
  makes the step that publishes the crossing move all threads at once, and the late exits no steps
  at all. `Data` says what has been made by the part the threads are in: all of the nodes
  behind, nothing of the nodes ahead, in the second half of a multiplication every chunk below
  `current_chunk` made or held by one thread. `Aborts` says where threads may be once the caller
  has stopped the graph: none has passed that node, since thread 0 sets it
  before the barrier they all have to cross. Workers outside a graph are told apart by `InCall`,
  whether they have seen the published work: one that has not is taken to stand before the first
  node, which is why a late worker is waited for. With one thread the barrier
  lets the caller pass at once; these steps have lemmas of their own (`LeaveLoopSolo`,
  `ConvertSolo`, `AfterSolo`).
* `RouterProofs!RouterUnloadedIsGone`, `RouterActiveIsWatched`: `UnloadedIsGone` and
  `ActiveIsWatched`. The inductive invariant `EndsInOrder` orders the ends of an
  instance's threads and process: the monitoring thread is past its first join only if
  the log thread is done, past the second only if the stopping thread is, at its end
  only if the process is dead, and a status other than unloaded goes with a
  monitoring thread that runs. It holds wherever children crash, since a crash only
  stops these threads from getting further.
* `LogRingProofs!LogTypeOK`, `LogIsFifo`: `TypeOK` and `ImplementsFifo` of `LogRing`,
  pauses that overrun the ring included. The strengthening adds which positions of worker and controller
  go together (`Phase`) and that the entry marked as the end is the last one in the
  ring while a pause is under way (`EndLast`); the step of each action shows how the
  sequence of pending messages changes (appended, its head taken, or the same under
  another layout, which is what the growth of a full ring comes down to).
* `DownloadProofs!FileWholeAlways`, `FreshTrustedAlways`, `DeleteOnlyOutdatedAlways`:
  the properties of `Download` for files, versions, attempts and runs of any number;
  `DeleteOnlyOutdated` says that a current file is given up only after a HEAD answer of
  status 200 without an etag. They hold under `Calm`: the server honours ranges, sends no error pages, and publishes only
  while no partial file is around (without each of the three TLC refutes one of them,
  section 6). The invariant says what each file may hold at each point of a run: the
  partial file is a beginning of the server's version, whose rest is what the request
  under way still delivers, or too long for ever (the body of a refused range request
  was appended to it); and no cached file is there while anything is fetched.
* `GraphAllocProofs!NeverOverlap`, `FreeListIsExact`, `BufferFits`: for chunks of any
  sizes, any number of tensors and any order of allocations, releases, releases of
  a tensor's end and resets, live tensors share no memory, the free blocks are sorted,
  never touch and are just the memory that has been used and is not held, and the
  buffer made for a chunk holds its tensors. A free list is looked at as the set of its
  bytes: `TakeFromOK` and `ReleaseOK` say which bytes an allocation takes out of the
  list and a release puts back, through each way of splitting and joining blocks. The
  invariant `ChunkGood` adds to the properties that what was never in use is free
  without a gap (the last block reaches to the end of the chunk); otherwise the memory
  between the old and the new `max_size` could be lost. `ChoiceOK` shows that the choice
  of chunk and block, best fit or reuse, always names a block that is large enough. The
  limit of 256 free blocks, which the code asserts, is not in the model.
* `GraphAllocProofs!OperandsAreIntact`, `OutputsAreKept`: the two properties of
  `GraphAlloc`, for any set of well-formed graphs of any length, with any number of
  sources. Both assume `PlanAssumption` (graphs with the same counts have the same wiring,
  buffers can be had), the second also `OutputAssumption` (no node reads an output that is a
  view); section 6 has TLC's counterexamples without them. The argument has three parts.
  *Placing.* `PlaceInv` holds after each node has read each of its sources. `Counted`: the
  counters are the cardinalities of sets, of the reads still to come (`ToRead`) and of the
  views that are still to be read or that nobody reads (`ViewsLeft`). `OwnsNeeded`: a
  tensor that is `Needed`, since it is an output or one of its two sets is not empty, is
  allocated. `Laid`: those that are allocated lie apart in chunks with exact free lists,
  which is the invariant of `TensorAlloc` and lets its lemmas be used for `Alloc` and
  `FreeBytes`. These three are not enough, for the properties are about tensors whose
  memory has been given away since. So `WellPlaced` keeps of every pair of tensors that
  when the later one was placed the earlier one was needed and lies beside it, or was
  needed no more and lies under it. An address never changes once it is given, so this
  survives what is freed later. In-place reuse is the case with the most to show: the
  counters say that the reading node is the only one left, but the source may be read
  twice by it, may have views, or be larger than the node, whose end is then freed.
  `EndlessLast` shows that an allocation always finds room (`RoomLeft`): the last chunk has
  `Endless` units, and no more than the sum of the sizes (`SizeTo`) are used of it.
  *Planning for another graph.* A plan is used for a graph of the same wiring whose tensors
  are no larger than planned. `RegionsPlaced` says of regions what `WellPlaced` says of the
  planned sizes (`PlanPlaces`); equal regions of an in-place node need that equal
  layouts stay equal (`Scaled`).
  *Computing.* `ComputeInv`: before node n, every tensor before it that is still needed holds
  what was computed there, since each node in between lies beside it or over what was not
  needed any more. `OperandsNeeded` and the flag of outputs make the two properties of it.

Loops over data. `prepare` and its undo, `split_equal`, the stream copies and the
truncation after an abort, and in `GraphAlloc` the walk over a graph, are loops over
sequences, written as recursive functions (`f[j]` in terms of `f[j - 1]`). The induction
theorems of the library take an operator as a parameter and cannot be used, but a least
counterexample does the same: `LeastNat` (a set of naturals has a least member, by
`NatLessThanWellFounded` and `WFMin`), `Iterated` (a loop whose step leads from each set
to the next is a function that stays in those sets) and `Stays` (what holds at the start
and survives each step holds all along) are proved once and cited for each loop.

Only model-checked: all liveness properties (fairness and ENABLED are beyond TLAPS here),
and `CallsAsPromised` in the instance `kv_shared`, where tokens are shared by sequences and
computations fail: it has one token content, so that it does not tell what a cell holds
that the aborted graph did not write. Every invariant and every action property of the runs
has a theorem.

## 6. Findings and observations

A violation run shows a disagreement between the code and what its documents
and comments say; `PROJECT.json` quotes it:

1. A child that exits by itself is never reported as unloaded: its stopping thread
   waits for a stop request that nobody makes, the monitoring thread erases the name
   and joins it (`server-models.cpp:493`, `:526`, `:529`). A request that waits for that
   model to load never returns (`router_child`).

### 6.1 Configurations that the code fails

The following configurations are kept beside the runs. Each checks one property, says
with its constants what the runs exclude, and ends with a counterexample (`tlc -config
<cfg> <module>`).

| Configuration | Module | Property | What the code does |
|---|---|---|---|
| `ServerQueue_child` | `MCServerQueue` | `ChildWaits` | A child processes the prompt itself, beside its parent: `is_child()` is asked while its slot is idle (`server-context.cpp:1183`, `:296`). The comments say "wait for the parent to process prompt" (`:1184`, also `:38`). The answers are the same, the work is done once per child. |
| `ServerQueue_strand` | `MCServerQueue` | `DeferredUntilSlot` | A slot save that is moved back is answered without occupying the slot (`:1715`), so no release pops the next deferred task, which stays there while the server is idle ("defer until one slot is available", `server-queue.h:40`). |
| `ServerSleep_post` | `MCServerSleep` | `PostedIsDone` | A task posted by a thread that passed `wait_until_no_sleep` just before the server fell asleep wakes nobody (`server-queue.cpp:169`) and is served after the next request only ("Any new incoming task will automatically trigger the model to reload", server `README.md:1631`). |
| `ServerSleep_gate` | `MCServerSleep` | `GateOpensUnlessStopped` | A thread woken by the reload that gets the mutex only when the server sleeps again waits on, and `req_stop_sleeping` is not set again (`:98`, `:166`). `PromptWake` excludes it. |
| `KvCache_keep` | `MCKvCache` | `KeepRemovesOthers` | `seq_keep` cleans one stream (`llama-kv-cache.cpp:374`); "removes all tokens that do not belong to the specified sequence" (`llama.h:716`). `CallsAsPromised` fails with it; the runs and theorems exclude it by `KeepAcross`. Aborts are there so that the call is a step even where it changes no cell (it resets `ret`). |
| `KvCache_window` | `MCKvCache` | `NoSlotRestores` | With a window and batches of several ubatches, a decode that finds no slot returns 1, but positions that the trial of the first ubatches purged stay gone (`:603`, `:608`; "the memory state is restored", `llama.h:929`). |
| `KvCache_early` | `MCKvCache` | `SavesSequence` | `state_write` (`:1490`) reads K and V without the update that a decode starts with: the state of a sequence that was just copied to another stream holds what that stream held before ("Copy the state of a single sequence", `llama.h:825`). |
| `KvCache_div` | `MCKvCache` | `RotationExact` | `pos_div` records the shift of a cell with the wrong sign (`llama-kv-cells.h:451`; "accumulates any applied shifts", `:469`), and the next K-shift rotates K away from its position. |
| `KvCache_abort` | `MCKvCache` | `AbortRestores` | After a failed ubatch positions are taken back from the first sequence of each token only (`llama-context.cpp:1540`; "remove all positions of that ubatch", `:1533`). |
| `Router_limit` | `MCRouter` | `LimitHeld` | Two loads that both count before either spawns pass `models_max` together, since `unload_lru` counts and `load` adds in two critical sections (`server-models.cpp:398`; "maximum number of models to load simultaneously", `arg.cpp:2815`). Models used in the same millisecond are not evicted either (`SameMillisecond`, FALSE here). |
| `Download_untagged` | `Download` | `CurrentKept` | A HEAD answer of status 200 without an etag counts as another etag (`download.cpp:353`; "check if ETag or Last-Modified headers are different", `:351`): a current file is removed, its etag emptied and the file fetched again. |
| `Download_norange` | `Download` | `FileWhole` | The body of a server without ranges is appended to the partial file (`:267`; "Resumable downloads not supported, delete and start again", `:364`, deletes the finished file, not the partial one). |
| `LogRing_pause` | `LogRing` | `EndStopsWorker` | `pause()` pushes its end entry without the check `add()` makes for a full ring (`log.cpp:298`; "push an entry to signal the worker thread to stop", `:294`). With one entry free the ring then looks empty: the messages in it are not written and the join never returns. |
| `GraphAlloc_topology` | `MCGraphAlloc` | `OperandsIntact` | A graph with as many nodes and leafs of the same sizes as the one before is given the old places, though its nodes read other tensors (`ggml-alloc.c:1012`; "automatic reallocation if the topology changes", `ggml-alloc.h:70`). No part of the tree was found to change a graph in this way. |
| `GraphAlloc_view` | `MCGraphAlloc` | `OutputsKept` | The memory of an output that is a view belongs to the tensor it is a view of, and is given away by that tensor's flag alone (`:815`; "output tensors are never freed and never overwritten", `ggml-alloc.h:44`). |
| `GraphAlloc_buffer` | `MCGraphAlloc` | `OperandsIntact` | The new plan is stored before the buffer is allocated (`:859`, `:943`). When that fails, the next call finds the plan up to date and places the tensors in the buffer NULL ("will reallocate the buffers automatically if needed", `ggml-alloc.h:54`). `ggml_backend_sched_alloc_splits` makes these two calls (`ggml-backend.cpp:1433`). |

### 6.2 Observations

Found with TLC under other constants than those of the configurations:

* `KvCache` with a window of 2 and batches of three ubatches (`kv_unified` with `NUbatch`
  = 1, `NBatch` = 3, `MaxPos` = 3): a decode that succeeds loses positions, too.
  Tentatively, a later ubatch overwrites a cell that left the window only with the
  ubatches before it, and `apply_ubatch` purges all the sequence has up to there.
  `prepare` puts that one cell back, not the purged ones in other cells, so the first ubatch
  attends to fewer tokens than its window holds. `ImplementsMemory` and `SlotUsable` fail,
  the latter since the sequence may lose its last position. `kv_unified` has a window and
  batches of one ubatch, `kv_streams` several ubatches and no window.
* `KvCache` with tokens of two sequences and aborts: `RotationExact` fails, too, since the
  other sequence keeps a cell whose K the graph has not written. With a window as well
  (`kv_unified` with `NSwa` = 1, all `SeqSets` and two `Toks`) the second sequence keeps the
  position in cells that still hold the K of the tokens they overwrote, different ones in
  different cells, and `CallsAsPromised` fails; the theorem excludes this (`Uncoupled \/
  ~ComputeFails`).
* `KvCache` with a window of 1, batches of one ubatch and tokens that two sequences come to
  share (3 cells, `MaxPos` = 4): between `prepare` and the ubatch a sequence may have a hole.
  The trial takes two cells out of the window and purges what lies between them; only the
  two are put back, and the ubatch purges them again. `DecodeLeavesNoHole` is about the
  ubatches, after which the hole is closed, not about the trial. A ubatch that is aborted
  in a cache with a window does not bring back what it overwrote: `AbortRestores` is checked,
  and proved, without one.
* `KvCache` with a window of 2 and `ShiftFails` = TRUE: a K-shift whose graph fails stays
  pending, but when `prepare` tentatively overwrites such a cell and takes that back,
  `set` (`llama-kv-cells.h:191`) restores position and sequences, not the shift.
  `RotationExact` fails: that K is never shifted.
* `KvCache` with `EarlySaves` = TRUE: a shifted sequence is saved with unrotated K, and a
  pending copy overwrites a state that is loaded before the next decode. `RotationExact`
  fails.
* `KvCache` with `SharedShift` = TRUE: `seq_add` and `seq_div` move a cell for all sequences
  that share it, and `CallsAsPromised` fails; the runs let callers shift only cells they own.
* `Download` with `QuietChange` = FALSE: a file that is published anew while a partial
  one is around is completed with the bytes of the new version. With `ErrorPages` = TRUE an
  error page stays in the partial file. In both cases `FileWhole` fails.
* `Download`: after three attempts that broke off the loop ends and the function returns
  true without a file (`download.cpp:406`, `:427`; "returns true if download
  succeeded", `download.h:46`). A run that is killed between the last byte and the rename
  leaves a partial file whose next range request is answered 416, for ever.
* `Router`, a child that dies before its stopping thread has seen the stop request:
  the request is erased with the name, and the unload, the eviction that waits for it, or
  the shutdown hangs as in 1. `StopCompletes` and `ShutdownEnds` therefore assume that
  no child exits unasked.

Read in the code while modelling, without a run of their own:

* The second half of the joining of free blocks is never used: a released region that
  touches blocks on both sides is found at the first of them (`ggml-alloc.c:341`).
* A task that is cancelled while the main thread has it in hand is deferred
  after the clean-up of the queues, and runs later for nobody.
* A completion whose `id_slot` names no slot of the server is deferred for ever;
  `queue_safe` has the guard (`MustWait`).
* `terminate` during sleep ends the loop without waking the threads in
  `wait_until_no_sleep`; they stay there. `ServerSleep` has it, and
  `GateOpensUnlessStopped` excludes it.
* `terminate()` before `start_loop` has set `running` is lost; on the main thread
  while it holds the mutex, it never returns. Both are in `ServerSleep` (`SignalAt`
  = "any", `SignalOn` with "main"), and excluded from `sleep_safe`.
* A handler that has passed the gate tokenizes with the vocabulary of the model,
  which the main thread may destroy meanwhile.
* `prepare` puts back heads by the number of the entry in the slot, not by the
  stream (`llama-kv-cache.cpp:612`). `Undo` models it; heads only guide the search,
  so no property breaks.
* A decode goes on when its K-shift failed; the shift stays pending and is done
  by a later decode, or by the retry of the same one when `prepare` finds no slot at first
  (section 7).
* A cached file without an etag beside it is never refreshed (`download.cpp:353`).
* Loading a saved state without cells leaves the sequence as it was
  (`llama-kv-cache.cpp:1558`), while one with cells replaces it. The server saves no empty
  prompts.
* The wait of `unload_lru` may miss the status UNLOADED when another request loads
  the model again first. An unload after the name has been erased and before
  UNLOADED is reported leaves a name that stops the model's next instance at once.
* `tools/completion/completion.cpp:78` pauses the log in its SIGINT handler, which hangs if the
  signal interrupts the main thread inside `add()`.
* The result of `common_download_file_multiple` is not looked at for split files
  (`download.cpp:879`).
* `n_views` of a tensor is never taken back for a view that nobody reads, so memory of the
  tensor stays in use to the end of the graph: a loss of room, not of data.
* A worker that is not scheduled during exactly 65536 graphs would take the next one
  for the one it knows (the count in `n_graph` has 16 bits).

## 7. What is not modelled

* Of the server: what a batch contains, context shift, speculative decoding,
  LoRA switching, checkpoints, the prompt cache, HTTP and JSON (no state between
  requests). Of the router: presets, the list of models, ports, the proxied traffic.
* Of the cache: attention masks, saving and restoring the whole cache, the 2D positions of
  vision models, other memories than the plain cache, the failure of
  `output_reserve` after `prepare` (nothing has been applied then). When `prepare` finds no
  slot, `llama_context::decode` calls `memory_update` once more and tries again if that
  changed something. With a K-shift that had failed this is a second attempt at the shift; in
  the model it is the same `Decode` taken again after the failed one, with the state between
  them visible. With a window and several ubatches the second attempt starts from what the
  first has purged, which no run has.
* Of the thread pool: kernels, NUMA, priorities and affinities, `mul_mat_id` (the same
  use of `current_chunk` per expert), the build with OpenMP.
* Of the log: formatting, levels, prefixes. Of the downloads: split files, docker and
  Hugging Face names, the variant on cpp-httplib.
* `split_equal` and `split_simple` are modelled as far as the cache sees them;
  batches with coupled sequences occur in `kv_shared` only.
* Of the graph allocator: several buffer types and the backend scheduler on top of it,
  alignment, the flag for inputs (leafs are inputs), the limit of free blocks, the
  allocators for the tensors of a context.
* Numerical code (tensors, quantization, sampling), tables (models, vocabularies),
  string parsing (chat templates, grammars, arguments), drivers (GPU and RPC
  backends) and the cookbooks: out of reach of a model checker, or without state.

The map of `PROJECT.json` names a small share of the repository's lines. Most of the
tree is numerical kernels, one copy per backend (CUDA, Vulkan, OpenCL, SYCL, CANN, Metal),
model definitions, unicode and quantization tables; none of it keeps state between
calls that interleavings, failures or orders of calls could upset, and a model of it
would only repeat it. The modules cover the parts that have such state: queue, slots,
sleep, cache, pool, router, log, downloads and memory planning.
