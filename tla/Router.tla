-------------------------------- MODULE Router --------------------------------
(***************************************************************************)
(* The router mode of llama-server (tools/server/server-models.cpp): HTTP  *)
(* threads load, unload and proxy to models, each of which is a child      *)
(* process watched by a monitoring thread, which runs a log thread that    *)
(* reads the child's output and a stopping thread that asks the child to   *)
(* exit and kills it after a timeout.                                      *)
(*                                                                         *)
(* Every critical section of server_models::mutex is one action.  cv and   *)
(* cv_stop are notified with notify_all inside the sections that change    *)
(* what is waited for, so a wait is the guard of its action.               *)
(***************************************************************************)
EXTENDS Naturals, Sequences, FiniteSets, SequencesExt

CONSTANTS Model,       \* the keys of mapping
          Caller,      \* HTTP threads
          ModelsMax,   \* base_params.models_max, 0 for no limit
          CrashStates, \* in which states a child may exit unasked
          SameMillisecond, \* TRUE: models may have been used in the
                       \* millisecond in which unload_lru looks
          MaxOps       \* bound: operations of all callers

ASSUME RouterAssumption ==
  /\ ModelsMax \in Nat /\ CrashStates \subseteq {"starting", "ready"}
  /\ SameMillisecond \in BOOLEAN

NoModel == "none"   \* lru_model_name is empty

\* Before the first load a model is as after an unload: no process, no threads.
VARIABLES status,      \* mapping[m].meta.status
          failed,      \* mapping[m].meta.exit_code is not 0
          recent,      \* the active models by last_used, least recent first
          stopping,    \* stopping_models
          proc,        \* the child process of m
          dirty,       \* the child's exit code is not 0
          told,        \* the child has been sent the exit command
          said,        \* the child has written that it is ready
          monitor, logger, stopper,  \* the three threads of m's instance
          cpc, cmodel, cwait, victim, ops,  \* the callers
          down         \* unload_all: not called, joining, returned

meta == <<status, failed, recent, stopping>>
child == <<proc, dirty, told, said>>
threads == <<monitor, logger, stopper>>
callers == <<cpc, cmodel, cwait, victim, ops>>
vars == <<meta, child, threads, callers, down>>

Active(m) == status[m] \in {"loading", "loaded"}
Alive(m) == proc[m] \in {"starting", "ready"}

TypeOK ==
  /\ status \in [Model -> {"unloaded", "loading", "loaded"}]
  /\ failed \in [Model -> BOOLEAN]
  /\ ToSet(recent) = {m \in Model : Active(m)} /\ Len(recent) = Cardinality(ToSet(recent))
  /\ stopping \subseteq Model
  /\ proc \in [Model -> {"starting", "ready", "dead"}]
  /\ dirty \in [Model -> BOOLEAN]
  /\ told \in [Model -> BOOLEAN] /\ said \in [Model -> BOOLEAN]
  /\ monitor \in [Model -> {"log", "stop", "reap", "done"}]
  /\ logger \in [Model -> {"read", "done"}]
  /\ stopper \in [Model -> {"wait", "asked", "done"}]
  /\ cpc \in [Caller -> {"idle", "lru", "evict", "waitlru", "load", "waitload", "proxy"}]
  /\ cmodel \in [Caller -> Model \cup {NoModel}] /\ cwait \in [Caller -> BOOLEAN]
  /\ victim \in [Caller -> Model \cup {NoModel}]
  /\ ops \in 0 .. MaxOps
  /\ down \in {"no", "joining", "yes"}

Init ==
  /\ status = [m \in Model |-> "unloaded"] /\ failed = [m \in Model |-> FALSE]
  /\ recent = <<>> /\ stopping = {}
  /\ proc = [m \in Model |-> "dead"] /\ dirty = [m \in Model |-> FALSE]
  /\ told = [m \in Model |-> FALSE] /\ said = [m \in Model |-> FALSE]
  /\ monitor = [m \in Model |-> "done"]
  /\ logger = [m \in Model |-> "done"] /\ stopper = [m \in Model |-> "done"]
  /\ cpc = [c \in Caller |-> "idle"] /\ cmodel = [c \in Caller |-> NoModel]
  /\ cwait = [c \in Caller |-> FALSE] /\ victim = [c \in Caller |-> NoModel]
  /\ ops = 0 /\ down = "no"

Goto(c, label) == cpc' = [cpc EXCEPT ![c] = label]

\* The handler returns.
Return(c) ==
  /\ Goto(c, "idle")
  /\ cmodel' = [cmodel EXCEPT ![c] = NoModel] /\ cwait' = [cwait EXCEPT ![c] = FALSE]

\* last_used = ggml_time_ms()
Touch(m) == recent' = Append(SelectSeq(recent, LAMBDA x : x # m), m)
 

(***************************************************************************)
(* The HTTP threads.                                                       *)
(***************************************************************************)

Arrives(c) ==
  /\ cpc[c] = "idle" /\ ops < MaxOps /\ down = "no"
  /\ ops' = ops + 1

\* A request with autoload: router_validate_model and ensure_model_loaded,
\* which reads a copy of the status.
Request(c, m) ==
  /\ Arrives(c) /\ cmodel' = [cmodel EXCEPT ![c] = m]
  /\ cwait' = [cwait EXCEPT ![c] = TRUE]
  /\ Goto(c, CASE status[m] = "loaded"   -> "proxy"
               [] status[m] = "unloaded" -> "lru"
               [] OTHER                  -> "waitload")
  /\ UNCHANGED <<meta, child, threads, victim, down>>

\* POST /models/load
LoadRoute(c, m) ==
  /\ Arrives(c) /\ cmodel' = [cmodel EXCEPT ![c] = m]
  /\ status[m] # "loaded"
  /\ cwait' = [cwait EXCEPT ![c] = FALSE]
  /\ Goto(c, "lru")
  /\ UNCHANGED <<meta, child, threads, victim, down>>

\* unload(): an active model's name goes into stopping_models.
Unload(m) == stopping' = IF Active(m) THEN stopping \cup {m} ELSE stopping

\* POST /models/unload
UnloadRoute(c, m) ==
  /\ Arrives(c)
  /\ Active(m) /\ Unload(m)
  /\ UNCHANGED <<status, failed, recent, child, threads, cpc, cmodel, cwait, victim, down>>

\* unload_lru, first section: count the active models and find the least
\* recently used.  The clock is not modelled: when all active models were used
\* in this very millisecond none is found, as if the limit were not reached.
LimitReached == ModelsMax > 0 /\ Len(recent) >= ModelsMax
CheckLimit(c) ==
  /\ cpc[c] = "lru"
  /\ \/ /\ LimitReached
        /\ victim' = [victim EXCEPT ![c] = Head(recent)]
        /\ Goto(c, "evict")
     \/ /\ ~LimitReached \/ SameMillisecond
        /\ Goto(c, "load") /\ UNCHANGED victim
  /\ UNCHANGED <<meta, child, threads, cmodel, cwait, ops, down>>

\* Second section: unload the one found.
Evict(c) ==
  /\ cpc[c] = "evict"
  /\ Unload(victim[c])
  /\ Goto(c, "waitlru")
  /\ UNCHANGED <<status, failed, recent, child, threads, cmodel, cwait, victim, ops, down>>

\* Third section: wait until it is unloaded.
EvictDone(c) ==
  /\ cpc[c] = "waitlru"
  /\ status[victim[c]] = "unloaded"
  /\ victim' = [victim EXCEPT ![c] = NoModel]
  /\ Goto(c, "load")
  /\ UNCHANGED <<meta, child, threads, cmodel, cwait, ops, down>>

AfterLoad(c) ==
  IF cwait[c] THEN Goto(c, "waitload") /\ UNCHANGED <<cmodel, cwait>> ELSE Return(c)

\* The rest of load() finds the model active.
LoadNothing(c) ==
  /\ cpc[c] = "load" /\ status[cmodel[c]] # "unloaded"
  /\ AfterLoad(c)
  /\ UNCHANGED <<meta, child, threads, victim, ops, down>>

\* No free port, or the child cannot be spawned: load() throws.
SpawnFails(c) ==
  /\ cpc[c] = "load" /\ status[cmodel[c]] = "unloaded"
  /\ Return(c)
  /\ UNCHANGED <<meta, child, threads, victim, ops, down>>

\* The rest of load(): spawn the child, start its threads, join the old
\* instance's monitoring thread and publish the new instance.
Spawn(c) ==
  LET m == cmodel[c]
  IN /\ cpc[c] = "load" /\ status[m] = "unloaded"
     /\ monitor[m] = "done"
     /\ status' = [status EXCEPT ![m] = "loading"]
     /\ Touch(m)
     /\ proc' = [proc EXCEPT ![m] = "starting"]
     /\ dirty' = [dirty EXCEPT ![m] = FALSE]
     /\ told' = [told EXCEPT ![m] = FALSE] /\ said' = [said EXCEPT ![m] = FALSE]
     /\ monitor' = [monitor EXCEPT ![m] = "log"]
     /\ logger' = [logger EXCEPT ![m] = "read"]
     /\ stopper' = [stopper EXCEPT ![m] = "wait"]
     /\ AfterLoad(c)
     /\ UNCHANGED <<failed, stopping, victim, ops, down>>

\* wait_until_loaded, then the final look at the status.
Loaded(c) ==
  /\ cpc[c] = "waitload"
  /\ status[cmodel[c]] # "loading"
  /\ IF status[cmodel[c]] = "unloaded" /\ failed[cmodel[c]]
     THEN Return(c)
     ELSE Goto(c, "proxy") /\ UNCHANGED <<cmodel, cwait>>
  /\ UNCHANGED <<meta, child, threads, victim, ops, down>>

\* proxy_request: only POST requests count as a use.
Proxy(c) ==
  /\ cpc[c] = "proxy"
  /\ \/ status[cmodel[c]] = "loaded" /\ Touch(cmodel[c])
     \/ UNCHANGED recent
  /\ Return(c)
  /\ UNCHANGED <<status, failed, stopping, child, threads, victim, ops, down>>

(***************************************************************************)
(* A child process.                                                        *)
(***************************************************************************)

\* setup_child_server announces that the model is loaded.
ChildReady(m) ==
  /\ proc[m] = "starting"
  /\ proc' = [proc EXCEPT ![m] = "ready"]
  /\ said' = [said EXCEPT ![m] = TRUE]
  /\ UNCHANGED <<dirty, told, meta, threads, callers, down>>

\* The exit command was read from stdin: a clean exit.
ChildExit(m) ==
  /\ proc[m] = "ready" /\ told[m]
  /\ proc' = [proc EXCEPT ![m] = "dead"]
  /\ UNCHANGED <<dirty, told, said, meta, threads, callers, down>>

\* The child exits unasked: it cannot load its model, or it crashes.
ChildCrash(m) ==
  /\ proc[m] \in CrashStates
  /\ proc' = [proc EXCEPT ![m] = "dead"]
  /\ dirty' = [dirty EXCEPT ![m] = TRUE]
  /\ UNCHANGED <<told, said, meta, threads, callers, down>>

(***************************************************************************)
(* The threads of an instance.                                             *)
(***************************************************************************)

\* The log thread reads the ready line: update_status(LOADED).
LogReady(m) ==
  /\ logger[m] = "read" /\ said[m] /\ status[m] # "loaded"
  /\ status' = [status EXCEPT ![m] = "loaded"]
  /\ failed' = [failed EXCEPT ![m] = FALSE]
  /\ UNCHANGED <<recent, stopping, child, threads, callers, down>>

\* It has read everything and the child is gone.
LogEof(m) ==
  /\ logger[m] = "read" /\ proc[m] = "dead" /\ (said[m] => status[m] = "loaded")
  /\ logger' = [logger EXCEPT ![m] = "done"]
  /\ UNCHANGED <<meta, child, monitor, stopper, callers, down>>

\* The stopping thread sees the name in stopping_models and sends the command.
StopAsk(m) ==
  /\ stopper[m] = "wait" /\ m \in stopping
  /\ stopper' = [stopper EXCEPT ![m] = "asked"]
  /\ told' = [told EXCEPT ![m] = TRUE]
  /\ UNCHANGED <<proc, dirty, said, meta, monitor, logger, callers, down>>

\* The monitoring thread has removed the name: nothing more to do.
StopSeen(m) ==
  /\ stopper[m] = "asked" /\ m \notin stopping
  /\ stopper' = [stopper EXCEPT ![m] = "done"]
  /\ UNCHANGED <<meta, child, monitor, logger, callers, down>>

\* Mutant: after the timeout the thread gives up without killing the child.
StopGivesUp(m) ==
  /\ stopper[m] = "asked" /\ m \in stopping
  /\ stopper' = [stopper EXCEPT ![m] = "done"]
  /\ UNCHANGED <<meta, child, monitor, logger, callers, down>>

\* stop_timeout has passed: kill.
StopKill(m) ==
  /\ stopper[m] = "asked" /\ m \in stopping
  /\ stopper' = [stopper EXCEPT ![m] = "done"]
  /\ IF Alive(m)
     THEN proc' = [proc EXCEPT ![m] = "dead"] /\ dirty' = [dirty EXCEPT ![m] = TRUE]
     ELSE UNCHANGED <<proc, dirty>>
  /\ UNCHANGED <<told, said, meta, monitor, logger, callers, down>>

\* Mutant: the instance is reaped without waiting for its log thread.
MonitorLogEarly(m) ==
  /\ monitor[m] = "log" /\ proc[m] = "dead"
  /\ stopping' = stopping \ {m}
  /\ monitor' = [monitor EXCEPT ![m] = "stop"]
  /\ UNCHANGED <<status, failed, recent, child, logger, stopper, callers, down>>

\* The monitoring thread has joined the log thread: tell the stopping thread.
MonitorLog(m) ==
  /\ monitor[m] = "log" /\ logger[m] = "done"
  /\ stopping' = stopping \ {m}
  /\ monitor' = [monitor EXCEPT ![m] = "stop"]
  /\ UNCHANGED <<status, failed, recent, child, logger, stopper, callers, down>>

\* Mutant: the stopping thread is not joined.
MonitorStopUnjoined(m) ==
  /\ monitor[m] = "stop"
  /\ monitor' = [monitor EXCEPT ![m] = "reap"]
  /\ UNCHANGED <<meta, child, logger, stopper, callers, down>>

\* The stopping thread is joined.
MonitorStop(m) ==
  /\ monitor[m] = "stop" /\ stopper[m] = "done"
  /\ monitor' = [monitor EXCEPT ![m] = "reap"]
  /\ UNCHANGED <<meta, child, logger, stopper, callers, down>>

\* What is no longer looked at once the instance is gone is reset, so that the
\* model tells no two equal states apart.
Forget(m) ==
  /\ recent' = SelectSeq(recent, LAMBDA x : x # m) 
  /\ dirty' = [dirty EXCEPT ![m] = FALSE]
  /\ told' = [told EXCEPT ![m] = FALSE]

\* Mutant: an instance that never got ready is not reported unloaded.
MonitorReapLoaded(m) ==
  /\ monitor[m] = "reap" /\ proc[m] = "dead"
  /\ status' = [status EXCEPT ![m] = IF @ = "loaded" THEN "unloaded" ELSE @]
  /\ failed' = [failed EXCEPT ![m] = dirty[m]]
  /\ monitor' = [monitor EXCEPT ![m] = "done"]
  /\ Forget(m)
  /\ UNCHANGED <<stopping, proc, said, logger, stopper, callers, down>>

\* Join the process: update_status(UNLOADED) with its exit code.
MonitorReap(m) ==
  /\ monitor[m] = "reap" /\ proc[m] = "dead"
  /\ status' = [status EXCEPT ![m] = "unloaded"]
  /\ failed' = [failed EXCEPT ![m] = dirty[m]]
  /\ monitor' = [monitor EXCEPT ![m] = "done"]
  /\ Forget(m)
  /\ UNCHANGED <<stopping, proc, said, logger, stopper, callers, down>>

(***************************************************************************)
(* The end of the router: the HTTP server has stopped, so no handler runs. *)
(***************************************************************************)

\* Mutant: only models that finished loading are stopped.
UnloadAllLoaded ==
  /\ down = "no" /\ \A c \in Caller : cpc[c] = "idle"
  /\ down' = "joining"
  /\ stopping' = stopping \cup {m \in Model : status[m] = "loaded"}
  /\ UNCHANGED <<status, failed, recent, child, threads, callers>>

UnloadAll ==
  /\ down = "no" /\ \A c \in Caller : cpc[c] = "idle"
  /\ down' = "joining"
  /\ stopping' = stopping \cup {m \in Model : Active(m)}
  /\ UNCHANGED <<status, failed, recent, child, threads, callers>>

JoinAll ==
  /\ down = "joining" /\ \A m \in Model : monitor[m] = "done"
  /\ down' = "yes"
  /\ UNCHANGED <<meta, child, threads, callers>>

CallerStep(c) ==
  \/ CheckLimit(c) \/ Evict(c) \/ EvictDone(c)
  \/ LoadNothing(c) \/ SpawnFails(c) \/ Spawn(c) \/ Loaded(c) \/ Proxy(c)

InstanceStep(m) ==
  \/ LogReady(m) \/ LogEof(m) \/ StopAsk(m) \/ StopSeen(m)
  \/ MonitorLog(m) \/ MonitorStop(m) \/ MonitorReap(m)

Next ==
  \/ \E c \in Caller, m \in Model : Request(c, m) \/ LoadRoute(c, m) \/ UnloadRoute(c, m)
  \/ \E c \in Caller : CallerStep(c)
  \/ \E m \in Model : ChildReady(m) \/ ChildExit(m) \/ ChildCrash(m)
  \/ \E m \in Model : InstanceStep(m) \/ StopKill(m)
  \/ UnloadAll \/ JoinAll

\* Threads run, a timeout passes, and a child that is not stopped ends loading.
\* A child that has been told to exit need not obey.
Fairness ==
  /\ \A c \in Caller : WF_vars(CallerStep(c))
  /\ \A m \in Model : WF_vars(InstanceStep(m)) /\ WF_vars(StopKill(m)) /\ WF_vars(ChildReady(m))
  /\ WF_vars(JoinAll)

Spec == Init /\ [][Next]_vars /\ Fairness

(***************************************************************************)
(* What is checked.                                                        *)
(***************************************************************************)

\* A model that is reported unloaded has no process and no thread left that
\* could report for it: the next load cannot meet its predecessor.
UnloadedIsGone ==
  \A m \in Model : status[m] = "unloaded" =>
    /\ ~Alive(m)
    /\ monitor[m] = "done" /\ logger[m] = "done" /\ stopper[m] = "done"

\* A model that is reported loading or loaded is watched: its monitoring thread
\* has not come to its end, so a ready line that is read late never marks a
\* model whose instance is gone.
ActiveIsWatched == \A m \in Model : Active(m) => monitor[m] # "done"

\* A child exits unasked in no state of the behaviour.
NoCrash == \A m \in Model : dirty[m] => told[m]

\* An active model that is asked to stop is unloaded in the end, even if the
\* child ignores the command.  (When the child dies by itself first, the
\* request can be lost: MonitorLog removes the name before StopAsk sees it.)
StopCompletes ==
  []NoCrash => \A m \in Model : (m \in stopping /\ Active(m)) ~> status[m] = "unloaded"

\* "return when the model is loaded or failed to load"
WaitReturns == \A c \in Caller : cpc[c] = "waitload" ~> cpc[c] # "waitload"

\* No more models are active than models_max ("maximum number of models to load
\* simultaneously").
LimitHeld == ModelsMax > 0 => Len(recent) <= ModelsMax

\* unload_all joins every monitoring thread.
ShutdownEnds == []NoCrash => (down = "joining" ~> down = "yes")
===============================================================================
