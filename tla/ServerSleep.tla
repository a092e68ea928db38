---------------------------- MODULE ServerSleep ----------------------------
(***************************************************************************)
(* Sleeping on idle and shutting down (tools/server): server_queue's mutex *)
(* and condition variable, the main thread in start_loop, HTTP threads     *)
(* that pass wait_until_no_sleep before they use the model and post, and   *)
(* the signal handler that calls terminate().                              *)
(*                                                                         *)
(* mutex_tasks is explicit only where the main thread keeps it over more   *)
(* than one step (a signal may interrupt it there, and the model is        *)
(* unloaded and loaded under it).  condition_tasks is the set of blocked   *)
(* threads; notify_one takes any one of them out.  Abstracted: what a task *)
(* does (module ServerQueue), and time: the idle time (at least a second)  *)
(* may be over whenever a wait of the main thread has timed out since the  *)
(* last post, update or reload; PromptWake says that a woken HTTP thread   *)
(* runs before that.                                                       *)
(***************************************************************************)
EXTENDS Integers, Sequences, FiniteSets

CONSTANTS
  Clients,     \* HTTP threads, with one request each
  Main,        \* the main thread
  PromptWake,  \* woken HTTP threads run before the server is idle again
  SignalAt,    \* "never"; "loop": once start_loop runs; "any": or just before
  SignalOn     \* the threads the signal may be delivered to

NoTask == "none"

ASSUME ThreadsAssumption ==
  Main \notin Clients /\ NoTask \notin Clients /\ IsFiniteSet(Clients)
ASSUME SignalAssumption ==
  /\ PromptWake \in BOOLEAN
  /\ SignalAt \in {"never", "loop", "any"}
  /\ SignalOn \subseteq {"main", "other"}

VARIABLES
  running, sleeping, req_stop_sleeping, queue_tasks,  \* server_queue
  idle,             \* a wait has timed out since time_last_task was set
  mutex_tasks,      \* Main, "other" or "free"
  condition_tasks,  \* the threads blocked in a wait on the condition variable
  model,            \* "loaded" or "unloaded": ctx, model, vocab of ctx_server
  mpc,              \* where the main thread is
  cur,              \* the task it processes
  pc,               \* where each HTTP thread is
  signal            \* "none"; "main" or "other": that thread is in the
                    \* signal handler; "done"

flags == <<running, sleeping, req_stop_sleeping>>
vars == <<flags, queue_tasks, idle, mutex_tasks, condition_tasks, model, mpc,
          cur, pc, signal>>

Free == mutex_tasks = "free"
\* The main thread does nothing else while it is in the signal handler.
MainRuns == signal # "main"

\* notify_one wakes one blocked thread, if there is one.
NotifyOne(waiters) ==
  IF waiters = {} THEN {waiters} ELSE {waiters \ {t} : t \in waiters}

(***************************************************************************)
(* HTTP threads.                                                           *)
(***************************************************************************)
\* wait_until_no_sleep; only the first one requests the end of the sleep.
Gate(c) ==
  /\ pc[c] = "gate" /\ Free
  /\ IF ~sleeping
     THEN /\ pc' = [pc EXCEPT ![c] = "use"]
          /\ UNCHANGED <<req_stop_sleeping, condition_tasks>>
     ELSE /\ pc' = [pc EXCEPT ![c] = "blocked"]
          /\ req_stop_sleeping' = TRUE
          /\ \E left \in IF req_stop_sleeping THEN {condition_tasks}
                         ELSE NotifyOne(condition_tasks) :
               condition_tasks' = left \cup {c}
  /\ UNCHANGED <<idle, running, sleeping, queue_tasks, mutex_tasks, model, mpc,
                 cur, signal>>

GateWoken(c) ==
  /\ pc[c] = "blocked" /\ c \notin condition_tasks /\ Free
  /\ IF sleeping
     THEN condition_tasks' = condition_tasks \cup {c} /\ UNCHANGED pc
     ELSE pc' = [pc EXCEPT ![c] = "use"] /\ UNCHANGED condition_tasks
  /\ UNCHANGED <<idle, flags, queue_tasks, mutex_tasks, model, mpc, cur,
                 signal>>

\* The handler has tokenized its prompt with the model's vocabulary.
Post(c) ==
  /\ pc[c] = "use" /\ Free
  /\ queue_tasks' = Append(queue_tasks, c)
  /\ condition_tasks' \in NotifyOne(condition_tasks)
  /\ pc' = [pc EXCEPT ![c] = "recv"] /\ idle' = FALSE
  /\ UNCHANGED <<flags, mutex_tasks, model, mpc, cur, signal>>

(***************************************************************************)
(* The main thread.                                                        *)
(***************************************************************************)
StartLoop ==
  /\ mpc = "start" /\ MainRuns
  /\ running' = TRUE /\ mpc' = "pop" /\ idle' = FALSE
  /\ UNCHANGED <<sleeping, req_stop_sleeping, queue_tasks, mutex_tasks,
                 condition_tasks, model, cur, pc, signal>>

\* Enter a critical section of the loop.
Lock(from, to) ==
  /\ mpc = from /\ MainRuns /\ Free
  /\ mutex_tasks' = Main /\ mpc' = to
  /\ UNCHANGED <<idle, flags, queue_tasks, condition_tasks, model, cur, pc,
                 signal>>

LockPop   == Lock("pop", "pop_locked")
LockCheck == Lock("check", "check_locked")

PopTask ==
  /\ mpc = "pop_locked" /\ MainRuns
  /\ mutex_tasks' = "free"
  /\ IF ~running \/ queue_tasks = <<>>
     THEN /\ mpc' = IF running THEN "update" ELSE "exited"
          /\ UNCHANGED <<queue_tasks, cur>>
     ELSE /\ cur' = Head(queue_tasks)
          /\ queue_tasks' = Tail(queue_tasks)
          /\ mpc' = "process"
  /\ UNCHANGED <<idle, flags, condition_tasks, model, pc, signal>>

Process ==
  /\ mpc = "process" /\ MainRuns
  /\ pc' = [pc EXCEPT ![cur] = "done"]
  /\ cur' = NoTask /\ mpc' = "pop"
  /\ UNCHANGED <<idle, flags, queue_tasks, mutex_tasks, condition_tasks, model,
                 signal>>

Update ==
  /\ mpc = "update" /\ MainRuns
  /\ mpc' = "check" /\ idle' = FALSE
  /\ UNCHANGED <<flags, queue_tasks, mutex_tasks, condition_tasks, model, cur,
                 pc, signal>>

MoreWork == ~running \/ queue_tasks # <<>>

CheckBreak ==
  /\ mpc = "check_locked" /\ MainRuns /\ MoreWork
  /\ mutex_tasks' = "free" /\ mpc' = "pop"
  /\ UNCHANGED <<idle, flags, queue_tasks, condition_tasks, model, cur, pc,
                 signal>>

CheckWait ==
  /\ mpc = "check_locked" /\ MainRuns /\ ~MoreWork
  /\ mutex_tasks' = "free" /\ mpc' = "wait"
  /\ condition_tasks' = condition_tasks \cup {Main}
  /\ UNCHANGED <<idle, flags, queue_tasks, model, cur, pc, signal>>

\* wait_for returns when the predicate holds after a wake-up, or after a
\* second, when the predicate decides between the two outcomes as well.
WaitWoken ==
  /\ mpc = "wait" /\ MainRuns /\ Free
  /\ Main \notin condition_tasks
  /\ IF MoreWork
     THEN mpc' = "pop" /\ UNCHANGED condition_tasks
     ELSE condition_tasks' = condition_tasks \cup {Main} /\ UNCHANGED mpc
  /\ UNCHANGED <<idle, flags, queue_tasks, mutex_tasks, model, cur, pc,
                 signal>>

WaitTimeout ==
  /\ mpc = "wait" /\ MainRuns /\ Free
  /\ condition_tasks' = condition_tasks \ {Main}
  /\ mpc' = IF MoreWork THEN "pop" ELSE "check"
  /\ idle' = TRUE
  /\ UNCHANGED <<flags, queue_tasks, mutex_tasks, model, cur, pc, signal>>

\* Mutant: sleeping is set only once the model is gone.
EnterSleepLate ==
  /\ mpc = "check_locked" /\ MainRuns /\ ~MoreWork /\ idle
  /\ model' = "unloaded" /\ mpc' = "unloaded"
  /\ UNCHANGED <<idle, flags, queue_tasks, mutex_tasks, condition_tasks, cur,
                 pc, signal>>

\* should_sleep(): the idle time is over.
EnterSleep ==
  /\ mpc = "check_locked" /\ MainRuns /\ ~MoreWork /\ idle
  /\ PromptWake => \A c \in Clients : pc[c] = "blocked" => c \in condition_tasks
  /\ sleeping' = TRUE /\ mpc' = "unload"
  /\ UNCHANGED <<idle, running, req_stop_sleeping, queue_tasks, mutex_tasks,
                 condition_tasks, model, cur, pc, signal>>

\* callback_sleeping_state(true) is destroy(), with the mutex held.
Unload ==
  /\ mpc = "unload" /\ MainRuns
  /\ model' = "unloaded" /\ mpc' = "unloaded"
  /\ UNCHANGED <<idle, flags, queue_tasks, mutex_tasks, condition_tasks, cur,
                 pc, signal>>

Sleep ==
  /\ mpc = "unloaded" /\ MainRuns
  /\ req_stop_sleeping' = FALSE
  /\ mutex_tasks' = "free" /\ mpc' = "asleep"
  /\ condition_tasks' = condition_tasks \cup {Main}
  /\ UNCHANGED <<idle, running, sleeping, queue_tasks, model, cur, pc, signal>>

\* Mutant: a posted task ends the wait, as in the other wait of the loop.
SleepWokenByTask ==
  /\ mpc = "asleep" /\ MainRuns /\ Free /\ Main \notin condition_tasks
  /\ mpc' = IF MoreWork THEN "pop" ELSE "reload"
  /\ mutex_tasks' = IF MoreWork THEN "free" ELSE Main
  /\ req_stop_sleeping' = FALSE
  /\ UNCHANGED <<idle, running, sleeping, queue_tasks, condition_tasks, model,
                 cur, pc, signal>>

SleepWoken ==
  /\ mpc = "asleep" /\ MainRuns /\ Free /\ Main \notin condition_tasks
  /\ IF ~running \/ req_stop_sleeping
     THEN /\ mpc' = IF running THEN "reload" ELSE "pop"
          /\ mutex_tasks' = IF running THEN Main ELSE "free"
          /\ req_stop_sleeping' = (req_stop_sleeping /\ ~running)
          /\ UNCHANGED condition_tasks
     ELSE /\ condition_tasks' = condition_tasks \cup {Main}
          /\ UNCHANGED <<mpc, mutex_tasks, req_stop_sleeping>>
  /\ UNCHANGED <<idle, running, sleeping, queue_tasks, model, cur, pc, signal>>

\* callback_sleeping_state(false) is load_model(), with the mutex held.
Reload ==
  /\ mpc = "reload" /\ MainRuns
  /\ model' = "loaded" /\ mpc' = "awake"
  /\ UNCHANGED <<idle, flags, queue_tasks, mutex_tasks, condition_tasks, cur,
                 pc, signal>>

\* Mutant: notify_one instead of notify_all.
AwakeOne ==
  /\ mpc = "awake" /\ MainRuns
  /\ sleeping' = FALSE
  /\ condition_tasks' \in NotifyOne(condition_tasks)
  /\ mutex_tasks' = "free" /\ mpc' = "pop" /\ idle' = FALSE
  /\ UNCHANGED <<running, req_stop_sleeping, queue_tasks, model, cur, pc,
                 signal>>

Awake ==
  /\ mpc = "awake" /\ MainRuns
  /\ sleeping' = FALSE
  /\ condition_tasks' = {}
  /\ mutex_tasks' = "free" /\ mpc' = "pop" /\ idle' = FALSE
  /\ UNCHANGED <<running, req_stop_sleeping, queue_tasks, model, cur, pc,
                 signal>>

(***************************************************************************)
(* SIGINT: signal_handler calls terminate() on the thread it interrupts,   *)
(* which blocks for ever if that is the main thread and it has the mutex,  *)
(* for then the mutex never becomes free.                                  *)
(***************************************************************************)
Signal ==
  /\ signal = "none" /\ mpc # "exited"
  /\ SignalAt = "any" \/ (SignalAt = "loop" /\ mpc # "start")
  /\ signal' \in SignalOn
  /\ UNCHANGED <<idle, flags, queue_tasks, mutex_tasks, condition_tasks, model,
                 mpc, cur, pc>>

\* Mutant: terminate() does not notify.
TerminateSilent ==
  /\ signal \in {"main", "other"} /\ Free
  /\ running' = FALSE /\ signal' = "done"
  /\ UNCHANGED <<idle, sleeping, req_stop_sleeping, queue_tasks, mutex_tasks,
                 condition_tasks, model, mpc, cur, pc>>

Terminate ==
  /\ signal \in {"main", "other"} /\ Free
  /\ running' = FALSE /\ signal' = "done"
  /\ condition_tasks' = {}
  /\ UNCHANGED <<idle, sleeping, req_stop_sleeping, queue_tasks, mutex_tasks,
                 model, mpc, cur, pc>>

-----------------------------------------------------------------------------
Init ==
  /\ running = FALSE /\ sleeping = FALSE /\ req_stop_sleeping = FALSE
  /\ queue_tasks = <<>> /\ idle = FALSE
  /\ mutex_tasks = "free" /\ condition_tasks = {}
  /\ model = "loaded" /\ mpc = "start" /\ cur = NoTask
  /\ pc = [c \in Clients |-> "gate"]
  /\ signal = "none"

MainStep ==
  \/ StartLoop \/ LockPop \/ LockCheck \/ PopTask \/ Process \/ Update
  \/ CheckBreak \/ CheckWait \/ WaitWoken \/ WaitTimeout
  \/ EnterSleep \/ Unload \/ Sleep \/ SleepWoken \/ Reload \/ Awake

ClientStep(c) == Gate(c) \/ GateWoken(c) \/ Post(c)

Next == MainStep \/ Signal \/ Terminate \/ \E c \in Clients : ClientStep(c)

Spec == Init /\ [][Next]_vars

\* Every thread runs and a free mutex is eventually obtained: strong fairness,
\* because the main thread takes the mutex again and again.
FairSpec ==
  /\ Spec /\ WF_vars(MainStep) /\ SF_vars(Terminate)
  /\ \A c \in Clients : SF_vars(ClientStep(c))

-----------------------------------------------------------------------------
TypeOK ==
  /\ running \in BOOLEAN /\ sleeping \in BOOLEAN
  /\ req_stop_sleeping \in BOOLEAN
  /\ queue_tasks \in Seq(Clients) /\ idle \in BOOLEAN
  /\ mutex_tasks \in {Main, "free"}
  /\ condition_tasks \subseteq Clients \cup {Main}
  /\ model \in {"loaded", "unloaded"}
  /\ mpc \in {"start", "pop", "pop_locked", "process", "update", "check",
              "check_locked", "wait", "unload", "unloaded", "asleep",
              "reload", "awake", "exited"}
  /\ cur \in Clients \cup {NoTask} /\ (mpc = "process" <=> cur \in Clients)
  /\ pc \in [Clients -> {"gate", "blocked", "use", "recv", "done"}]
  /\ signal \in {"none", "main", "other", "done"}

\* The model is loaded whenever the main thread processes a task or updates
\* the slots, whatever was posted while it slept.
ProcessesLoaded == mpc \in {"process", "update"} => model = "loaded"

\* is_sleeping() never denies that the model is gone: the flag is set before
\* destroy() and reset after load_model(), so a thread that sees it reset under
\* the mutex sees a loaded model.
FlagCoversUnload == model = "unloaded" => sleeping

\* A thread blocked in wait_until_no_sleep gets out: the first one wakes the
\* main thread, and the reload wakes all of them.  After a signal it need not:
\* terminate() ends the sleep but leaves sleeping set.
GateOpensUnlessStopped ==
  \A c \in Clients :
    pc[c] = "blocked" ~> pc[c] # "blocked" \/ signal # "none"

\* A task that was posted is processed, unless the server is stopped ("any new
\* incoming task will automatically trigger the model to reload").
PostedIsDone ==
  \A c \in Clients : pc[c] = "recv" ~> pc[c] = "done" \/ signal # "none"

\* terminate() ends start_loop.
TerminateEndsLoop == signal # "none" ~> mpc = "exited"
=============================================================================
