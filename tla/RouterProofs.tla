---------------------------- MODULE RouterProofs ----------------------------
(***************************************************************************)
(* The router for any set of models and callers, any limit, and children   *)
(* that may exit at any moment: an instance that is reported unloaded is   *)
(* gone with its threads, and one that is reported active is watched.      *)
(***************************************************************************)
EXTENDS Router, TLAPS

\* The variables of the instances.
InstanceTypes ==
  /\ status \in [Model -> {"unloaded", "loading", "loaded"}]
  /\ proc \in [Model -> {"starting", "ready", "dead"}]
  /\ monitor \in [Model -> {"log", "stop", "reap", "done"}]
  /\ logger \in [Model -> {"read", "done"}]
  /\ stopper \in [Model -> {"wait", "asked", "done"}]

\* The threads of an instance end in one order: the log thread after the child,
\* the stopping thread, the monitoring thread, which reports the end.
EndsInOrder(m) ==
  /\ status[m] = "unloaded" <=> monitor[m] = "done"
  /\ monitor[m] # "log" => logger[m] = "done"
  /\ monitor[m] \in {"reap", "done"} => stopper[m] = "done"
  /\ logger[m] = "done" => proc[m] = "dead"

\* The inductive invariant.
IInv == InstanceTypes /\ \A m \in Model : EndsInOrder(m)

LEMMA InitInv == Init => IInv
  BY DEF Init, IInv, InstanceTypes, EndsInOrder

\* Steps of callers, and of the router, that leave the instances alone.
LEMMA InstancesKept ==
  ASSUME IInv, UNCHANGED <<status, proc, monitor, logger, stopper>>
  PROVE  IInv'
  BY DEF IInv, InstanceTypes, EndsInOrder

\* Loading starts a new instance where the old one was gone.
LEMMA SpawnInv ==
  ASSUME IInv, NEW c \in Caller, Spawn(c)
  PROVE  IInv'
  <1> DEFINE m == cmodel[c]
  <1>1. /\ status' = [status EXCEPT ![m] = "loading"]
        /\ proc' = [proc EXCEPT ![m] = "starting"]
        /\ monitor' = [monitor EXCEPT ![m] = "log"]
        /\ logger' = [logger EXCEPT ![m] = "read"]
        /\ stopper' = [stopper EXCEPT ![m] = "wait"]
    BY DEF Spawn
  <1> HIDE DEF m
  <1>2. InstanceTypes' BY <1>1 DEF IInv, InstanceTypes
  <1>3. ASSUME NEW k \in Model PROVE EndsInOrder(k)'
    <2>1. CASE k = m BY <1>1, <2>1 DEF IInv, InstanceTypes, EndsInOrder
    <2>2. CASE k # m BY <1>1, <2>2 DEF IInv, InstanceTypes, EndsInOrder
    <2> QED BY <2>1, <2>2
  <1> QED BY <1>2, <1>3 DEF IInv

\* Every step of a child or of a thread of an instance.
LEMMA InstanceInv ==
  ASSUME IInv, NEW m \in Model,
         InstanceStep(m) \/ StopKill(m) \/ ChildReady(m) \/ ChildExit(m) \/ ChildCrash(m)
  PROVE  IInv'
  <1> USE DEF IInv, InstanceTypes, EndsInOrder
  <1>1. CASE LogReady(m) BY <1>1 DEF LogReady, child, threads
  <1>2. CASE LogEof(m) BY <1>2 DEF LogEof, child, meta
  <1>3. CASE StopAsk(m) BY <1>3 DEF StopAsk, meta
  <1>4. CASE StopSeen(m) BY <1>4 DEF StopSeen, meta, child
  <1>5. CASE MonitorLog(m) BY <1>5 DEF MonitorLog, child
  <1>6. CASE MonitorStop(m) BY <1>6 DEF MonitorStop, meta, child
  <1>7. CASE MonitorReap(m) BY <1>7 DEF MonitorReap
  <1>8. CASE StopKill(m) BY <1>8 DEF StopKill, meta
  <1>9. CASE ChildReady(m) BY <1>9 DEF ChildReady, meta, threads
  <1>10. CASE ChildExit(m) BY <1>10 DEF ChildExit, meta, threads
  <1>11. CASE ChildCrash(m) BY <1>11 DEF ChildCrash, meta, threads
  <1> QED BY <1>1, <1>2, <1>3, <1>4, <1>5, <1>6, <1>7, <1>8, <1>9, <1>10, <1>11 DEF InstanceStep

LEMMA StepInv == IInv /\ [Next]_vars => IInv'
  <1> SUFFICES ASSUME IInv, [Next]_vars PROVE IInv' OBVIOUS
  <1>1. ASSUME NEW c \in Caller, NEW m \in Model,
               Request(c, m) \/ LoadRoute(c, m) \/ UnloadRoute(c, m)
        PROVE  IInv'
    BY <1>1, InstancesKept DEF Request, LoadRoute, UnloadRoute, meta, child, threads
  <1>2. ASSUME NEW c \in Caller, CallerStep(c) PROVE IInv'
    <2>1. CASE Spawn(c) BY <2>1, SpawnInv
    <2>2. CASE ~Spawn(c)
      <3>1. UNCHANGED <<status, proc, monitor, logger, stopper>>
        BY <1>2, <2>2 DEF CallerStep, CheckLimit, Evict, EvictDone, LoadNothing, SpawnFails,
                          Loaded, Proxy, meta, child, threads
      <3> QED BY <3>1, InstancesKept
    <2> QED BY <2>1, <2>2
  <1>3. ASSUME NEW m \in Model,
               InstanceStep(m) \/ StopKill(m) \/ ChildReady(m) \/ ChildExit(m) \/ ChildCrash(m)
        PROVE  IInv'
    BY <1>3, InstanceInv
  <1>4. CASE UnloadAll \/ JoinAll
    BY <1>4, InstancesKept DEF UnloadAll, JoinAll, meta, child, threads
  <1>5. CASE UNCHANGED vars
    BY <1>5, InstancesKept DEF vars, meta, child, threads
  <1> QED BY <1>1, <1>2, <1>3, <1>4, <1>5 DEF Next

\* For any models, callers and limit, and children that may exit whenever they
\* like: what is reported unloaded has no process and no thread left.
THEOREM RouterUnloadedIsGone == Spec => []UnloadedIsGone
  <1>1. IInv => UnloadedIsGone
    BY DEF IInv, InstanceTypes, EndsInOrder, UnloadedIsGone, Alive
  <1> QED BY <1>1, InitInv, StepInv, PTL DEF Spec

\* Under the same conditions: what is reported loading or loaded still has its
\* monitoring thread.
THEOREM RouterActiveIsWatched == Spec => []ActiveIsWatched
  <1>1. IInv => ActiveIsWatched
    BY DEF IInv, InstanceTypes, EndsInOrder, ActiveIsWatched, Active
  <1> QED BY <1>1, InitInv, StepInv, PTL DEF Spec
=============================================================================
