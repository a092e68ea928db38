------------------------- MODULE ServerSleepProofs -------------------------
(***************************************************************************)
(* Safety of sleeping, for any number of HTTP threads and any signal: the  *)
(* types, and that the main thread never works without a model.            *)
(***************************************************************************)
EXTENDS ServerSleep, SequenceTheorems, TLAPS

\* The type invariant of ServerSleep, for all threads.
THEOREM TypeCorrect == Spec => []TypeOK
<1> USE ThreadsAssumption, SignalAssumption DEF flags
<1>1. Init => TypeOK
  <2> SUFFICES ASSUME Init PROVE TypeOK
    OBVIOUS
  <2>1. queue_tasks \in Seq(Clients)
    BY EmptySeq DEF Init
  <2>2. pc \in [Clients -> {"gate", "blocked", "use", "recv", "done"}]
    BY DEF Init
  <2> QED BY <2>1, <2>2 DEF Init, TypeOK, NoTask
<1>2. TypeOK /\ [Next]_vars => TypeOK'
  <2> SUFFICES ASSUME TypeOK, [Next]_vars PROVE TypeOK'
    OBVIOUS
  <2> USE DEF TypeOK
  <2>1. CASE UNCHANGED vars
    BY <2>1 DEF vars
  <2>2. CASE MainStep
    <3>1. CASE StartLoop   BY <3>1 DEF StartLoop
    <3>2. CASE LockPop     BY <3>2 DEF LockPop, Lock
    <3>3. CASE LockCheck   BY <3>3 DEF LockCheck, Lock
    <3>4. CASE PopTask
      <4>1. CASE ~running \/ queue_tasks = <<>>
        BY <3>4, <4>1 DEF PopTask
      <4>2. CASE running /\ queue_tasks # <<>>
        <5>1. Head(queue_tasks) \in Clients /\ Tail(queue_tasks) \in Seq(Clients)
          BY <4>2, HeadTailProperties
        <5> QED BY <3>4, <4>2, <5>1 DEF PopTask
      <4> QED BY <4>1, <4>2
    <3>5. CASE Process     BY <3>5 DEF Process, NoTask
    <3>6. CASE Update      BY <3>6 DEF Update
    <3>7. CASE CheckBreak  BY <3>7 DEF CheckBreak
    <3>8. CASE CheckWait   BY <3>8 DEF CheckWait
    <3>9. CASE WaitWoken   BY <3>9 DEF WaitWoken
    <3>10. CASE WaitTimeout BY <3>10 DEF WaitTimeout
    <3>11. CASE EnterSleep BY <3>11 DEF EnterSleep
    <3>12. CASE Unload     BY <3>12 DEF Unload
    <3>13. CASE Sleep      BY <3>13 DEF Sleep
    <3>14. CASE SleepWoken BY <3>14 DEF SleepWoken
    <3>15. CASE Reload     BY <3>15 DEF Reload
    <3>16. CASE Awake      BY <3>16 DEF Awake
    <3> QED BY <2>2, <3>1, <3>2, <3>3, <3>4, <3>5, <3>6, <3>7, <3>8, <3>9,
               <3>10, <3>11, <3>12, <3>13, <3>14, <3>15, <3>16 DEF MainStep
  <2>3. CASE Signal
    BY <2>3 DEF Signal
  <2>4. CASE Terminate
    BY <2>4 DEF Terminate
  <2>5. ASSUME NEW c \in Clients, ClientStep(c) PROVE TypeOK'
    <3>1. CASE Gate(c)
      <4>1. condition_tasks' \subseteq Clients \cup {Main}
        BY <3>1 DEF Gate, NotifyOne
      <4>2. pc' \in [Clients -> {"gate", "blocked", "use", "recv", "done"}]
        <5>1. CASE ~sleeping
          BY <3>1, <5>1 DEF Gate
        <5>2. CASE sleeping
          BY <3>1, <5>2 DEF Gate
        <5> QED BY <5>1, <5>2
      <4>3. req_stop_sleeping' \in BOOLEAN
        BY <3>1 DEF Gate
      <4> QED BY <3>1, <4>1, <4>2, <4>3 DEF Gate
    <3>2. CASE GateWoken(c)
      BY <3>2 DEF GateWoken
    <3>3. CASE Post(c)
      <4>1. condition_tasks' \subseteq Clients \cup {Main}
        BY <3>3 DEF Post, NotifyOne
      <4>2. queue_tasks' \in Seq(Clients)
        BY <3>3, AppendProperties DEF Post
      <4> QED BY <3>3, <4>1, <4>2 DEF Post
    <3> QED BY <2>5, <3>1, <3>2, <3>3 DEF ClientStep
  <2> QED BY <2>1, <2>2, <2>3, <2>4, <2>5 DEF Next
<1> QED BY <1>1, <1>2, PTL DEF Spec

\* Where the main thread is while the model is gone: on its way through the
\* sleep, or, once terminate() has ended it, on its way out of the loop, which
\* runs no task because running stays false.  FlagCoversUnload is not inductive
\* without the first part (Awake resets the flag) nor without the last (Unload
\* does not set it).
Gone ==
  /\ model = "unloaded" =>
       \/ mpc \in {"unloaded", "asleep", "reload"}
       \/ ~running /\ mpc \in {"pop", "pop_locked", "exited"}
  /\ model = "unloaded" => sleeping
  /\ mpc = "unload" => sleeping

\* Gone is an invariant.
THEOREM GoneCorrect == Spec => []Gone
<1>1. Init => Gone
  BY DEF Init, Gone
<1>2. Gone /\ [Next]_vars => Gone'
  <2> SUFFICES ASSUME Gone, [Next]_vars PROVE Gone'
    OBVIOUS
  <2> USE DEF Gone, flags
  <2>1. CASE UNCHANGED vars
    BY <2>1 DEF vars
  <2>2. CASE StartLoop
    BY <2>2 DEF StartLoop
  <2>3. CASE LockPop \/ LockCheck
    BY <2>3 DEF LockPop, LockCheck, Lock
  <2>4. CASE PopTask
    BY <2>4 DEF PopTask
  <2>5. CASE Process \/ Update \/ CheckBreak \/ CheckWait
    BY <2>5 DEF Process, Update, CheckBreak, CheckWait
  <2>6. CASE WaitWoken \/ WaitTimeout
    BY <2>6 DEF WaitWoken, WaitTimeout
  <2>7. CASE EnterSleep \/ Unload
    BY <2>7 DEF EnterSleep, Unload
  <2>8. CASE Sleep \/ SleepWoken
    BY <2>8 DEF Sleep, SleepWoken
  <2>9. CASE Reload \/ Awake
    BY <2>9 DEF Reload, Awake
  <2>10. CASE Signal \/ Terminate
    BY <2>10 DEF Signal, Terminate
  <2>11. ASSUME NEW c \in Clients, ClientStep(c) PROVE Gone'
    BY <2>11 DEF ClientStep, Gate, GateWoken, Post
  <2> QED BY <2>1, <2>2, <2>3, <2>4, <2>5, <2>6, <2>7, <2>8, <2>9, <2>10,
             <2>11 DEF Next, MainStep
<1> QED BY <1>1, <1>2, PTL DEF Spec

\* No task is processed and no slot updated without a model, for any number of
\* threads, any interleaving with the sleep and a signal at any point.
THEOREM AlwaysLoaded == Spec => []ProcessesLoaded
<1>1. Gone /\ TypeOK => ProcessesLoaded
  BY DEF Gone, TypeOK, ProcessesLoaded
<1> QED BY <1>1, TypeCorrect, GoneCorrect, PTL

\* The sleeping flag is set whenever the model is gone.
THEOREM FlagCovers == Spec => []FlagCoversUnload
<1>1. Gone => FlagCoversUnload
  BY DEF Gone, FlagCoversUnload
<1> QED BY <1>1, GoneCorrect, PTL
=============================================================================
