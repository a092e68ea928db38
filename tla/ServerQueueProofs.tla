------------------------- MODULE ServerQueueProofs -------------------------
(***************************************************************************)
(* Theorems about ServerQueue, for every set of clients and tasks, every   *)
(* number of slots and every mix of requests.                              *)
(***************************************************************************)
EXTENDS ServerQueue, FiniteSetTheorems, FunctionTheorems, SequenceTheorems,
        TLAPS

-----------------------------------------------------------------------------
(***************************************************************************)
(* Sequences.  Rank numbers the elements of a finite set of naturals from  *)
(* 1, so Kth is defined on 1 .. Cardinality(S) and inverts it.             *)
(***************************************************************************)

\* Rank maps S one to one onto 1 .. Cardinality(S): the k-th kept element of
\* cleanup_pending_task exists and is unique.
LEMMA RankBijective ==
  ASSUME NEW S \in SUBSET Int, IsFiniteSet(S)
  PROVE  /\ Cardinality(S) \in Nat
         /\ \A i \in S : Rank(S, i) \in 1 .. Cardinality(S)
         /\ \A i, j \in S : Rank(S, i) = Rank(S, j) => i = j
         /\ \A k \in 1 .. Cardinality(S) : \E i \in S : Rank(S, i) = k
  <1> DEFINE n == Cardinality(S)
             Upto(i) == {j \in S : j <= i}
             f == [i \in S |-> Rank(S, i)]
  <1>1. n \in Nat
    BY FS_CardinalityType
  <1>2. ASSUME NEW i \in S
        PROVE  /\ IsFiniteSet(Upto(i))
               /\ Rank(S, i) = Cardinality(Upto(i))
               /\ Rank(S, i) \in 1 .. n
    <2>1. Upto(i) \in SUBSET S
      OBVIOUS
    <2>2. IsFiniteSet(Upto(i)) /\ Cardinality(Upto(i)) <= n
      BY <2>1, FS_Subset
    <2>3. Cardinality(Upto(i)) \in Nat
      BY <2>2, FS_CardinalityType
    <2>4. Upto(i) # {}
      OBVIOUS
    <2>5. Cardinality(Upto(i)) # 0
      BY <2>2, <2>4, FS_EmptySet
    <2>6. QED
      BY <1>1, <2>2, <2>3, <2>5 DEF Rank
  <1>3. ASSUME NEW i \in S, NEW j \in S, i < j
        PROVE  Rank(S, i) # Rank(S, j)
    <2>1. Upto(i) \in SUBSET Upto(j)
      <3>1. \A x \in S : x \in Int
        OBVIOUS
      <3>2. \A x \in S : x <= i => x <= j
        BY <1>3, <3>1
      <3>3. QED
        BY <3>2
    <2>2. Upto(i) # Upto(j)
      BY <1>3
    <2>3. QED
      BY <1>2, <2>1, <2>2, FS_Subset
  <1>4. \A i, j \in S : Rank(S, i) = Rank(S, j) => i = j
    BY <1>3
  <1>5. f \in Injection(S, 1 .. n)
    BY <1>2, <1>4, Fun_IsInj
  <1>6. IsFiniteSet(1 .. n) /\ Cardinality(1 .. n) = n
    BY <1>1, FS_Interval
  <1>7. f \in Surjection(S, 1 .. n)
    BY <1>5, <1>6, FS_Injection
  <1>8. \A k \in 1 .. n : \E i \in S : f[i] = k
    BY <1>7 DEF Surjection
  <1>9. QED
    BY <1>1, <1>2, <1>4, <1>8

\* What remove_if keeps: every element of the result comes from a kept
\* position, from a different one for each, and no kept element is lost.
LEMMA WithoutProperties ==
  ASSUME NEW M, NEW q \in Seq(M), NEW ids
  PROVE  /\ Without(q, ids) \in Seq(M)
         /\ \A k \in DOMAIN Without(q, ids) :
              /\ Kth(Kept(q, ids), k) \in Kept(q, ids)
              /\ Without(q, ids)[k] = q[Kth(Kept(q, ids), k)]
         /\ \A k, l \in DOMAIN Without(q, ids) :
              Kth(Kept(q, ids), k) = Kth(Kept(q, ids), l) => k = l
         /\ \A i \in Kept(q, ids) : \E k \in DOMAIN Without(q, ids) :
              Without(q, ids)[k] = q[i]
  <1> DEFINE S == Kept(q, ids)
             n == Cardinality(S)
  <1>1. DOMAIN q = 1 .. Len(q) /\ Len(q) \in Nat
    BY LenProperties
  <1>2. IsFiniteSet(1 .. Len(q))
    BY <1>1, FS_Interval
  <1>3. S \in SUBSET (1 .. Len(q))
    BY <1>1 DEF Kept
  <1>4. IsFiniteSet(S) /\ S \in SUBSET Int
    BY <1>1, <1>2, <1>3, FS_Subset
  <1>5. /\ n \in Nat
        /\ \A i \in S : Rank(S, i) \in 1 .. n
        /\ \A i, j \in S : Rank(S, i) = Rank(S, j) => i = j
        /\ \A k \in 1 .. n : \E i \in S : Rank(S, i) = k
    BY <1>4, RankBijective
  <1>6. \A k \in 1 .. n : Kth(S, k) \in S /\ Rank(S, Kth(S, k)) = k
    BY <1>5 DEF Kth
  <1>7. \A i \in S : Kth(S, Rank(S, i)) = i
    BY <1>5, <1>6
  <1>8. \A i \in S : q[i] \in M
    BY <1>3, ElementOfSeq
  <1>9. /\ Without(q, ids) = [k \in 1 .. n |-> q[Kth(S, k)]]
        /\ DOMAIN Without(q, ids) = 1 .. n
    BY DEF Without
  <1>10. \A k \in 1 .. n : q[Kth(S, k)] \in M
    BY <1>6, <1>8
  <1>11. Without(q, ids) \in Seq(M)
    BY <1>5, <1>9, <1>10, IsASeq
  <1>12. \A i \in S : Rank(S, i) \in 1 .. n /\ q[Kth(S, Rank(S, i))] = q[i]
    BY <1>5, <1>7
  <1>13. \A i \in S : \E k \in 1 .. n : Without(q, ids)[k] = q[i]
    BY <1>9, <1>12
  <1>14. \A k, l \in 1 .. n : Kth(S, k) = Kth(S, l) => k = l
    BY <1>6
  <1>15. /\ Without(q, ids) \in Seq(M)
         /\ \A k \in DOMAIN Without(q, ids) :
              Kth(S, k) \in S /\ Without(q, ids)[k] = q[Kth(S, k)]
    BY <1>6, <1>9, <1>11
  <1>16. \A k, l \in DOMAIN Without(q, ids) : Kth(S, k) = Kth(S, l) => k = l
    BY <1>9, <1>14
  <1>17. \A i \in S : \E k \in DOMAIN Without(q, ids) :
           Without(q, ids)[k] = q[i]
    BY <1>9, <1>13
  <1> HIDE DEF S
  <1>18. QED
    BY <1>15, <1>16, <1>17 DEF S

-----------------------------------------------------------------------------
(***************************************************************************)
(* Typing.                                                                 *)
(***************************************************************************)
Deferrable == [type : {"run"}, id : Tasks]

\* The messages are of the three kinds that the queues hold.
LEMMA MessageFacts ==
  /\ NextResponse \in Messages
  /\ \A t \in Tasks : Run(t) \in Deferrable /\ Cancel(t) \in Messages
  /\ \A m \in Messages : m.type \in {"run", "cancel"} => m.id \in Tasks
  /\ \A m \in Messages : m.type = "run" => m \in Deferrable
  /\ Deferrable \subseteq Messages
  BY DEF Messages, NextResponse, Run, Cancel, Deferrable

\* The initial states are well typed.
LEMMA TypeInit == Init => TypeOK
  <1> SUFFICES ASSUME Init PROVE TypeOK
    OBVIOUS
  <1>1. queue_tasks \in Seq(Messages) /\ queue_tasks_deferred \in Seq(Deferrable)
    BY EmptySeq DEF Init
  <1>2. queue_results \in [Tasks -> Seq(Results)]
    BY EmptySeq DEF Init
  <1>3. cur \in Messages
    BY MessageFacts DEF Init
  <1>4. at \in 0 .. NSlots
    BY NSlotsAssumption DEF Init
  <1>5. QED
    BY <1>1, <1>2, <1>3, <1>4 DEF Init, TypeOK, SlotStates, Deferrable, Slots

\* The two queues keep their type under the operations that move tasks.
LEMMA PopDeferredType ==
  ASSUME TypeOK, PopDeferred
  PROVE  queue_tasks' \in Seq(Messages) /\ queue_tasks_deferred' \in Seq(Deferrable)
  <1>1. queue_tasks \in Seq(Messages) /\ queue_tasks_deferred \in Seq(Deferrable)
    BY DEF TypeOK, Deferrable
  <1>2. CASE queue_tasks_deferred = <<>>
    BY <1>1, <1>2 DEF PopDeferred, queueVars
  <1>3. CASE queue_tasks_deferred # <<>>
    <2>1. /\ Head(queue_tasks_deferred) \in Messages
          /\ Tail(queue_tasks_deferred) \in Seq(Deferrable)
      BY <1>1, <1>3, HeadTailProperties, MessageFacts
    <2>2. <<Head(queue_tasks_deferred)>> \in Seq(Messages)
      BY <2>1
    <2>3. QED
      BY <1>1, <1>3, <2>1, <2>2, ConcatProperties DEF PopDeferred
  <1>4. QED
    BY <1>2, <1>3

\* send() keeps the types of what it changes.
LEMMA SendType ==
  ASSUME TypeOK, NEW t \in Tasks, NEW res \in Results, Send(t, res)
  PROVE  /\ queue_results' \in [Tasks -> Seq(Results)]
         /\ answered' \subseteq Tasks
         /\ waiting_task_ids' \subseteq Tasks
  <1>1. Append(queue_results[t], res) \in Seq(Results)
    BY DEF TypeOK
  <1>2. QED
    BY <1>1 DEF TypeOK, Send

\* release() keeps the types of what it changes.
LEMMA ReleaseType ==
  ASSUME TypeOK, NEW s \in Slots, Release(s)
  PROVE  /\ queue_tasks' \in Seq(Messages)
         /\ queue_tasks_deferred' \in Seq(Deferrable)
         /\ slot_task' \in [Slots -> Tasks \cup {NoTask}]
         /\ slot_state' \in [Slots -> SlotStates]
         /\ \A x \in Slots : slot_state'[x] = "idle" <=> slot_task'[x] = NoTask
         /\ n_prompt' \in [Slots -> Nat] /\ n_decoded' \in [Slots -> Nat]
  BY PopDeferredType DEF Release, TypeOK, SlotStates

\* The steps of a reader keep the types.
LEMMA TypeReader ==
  ASSUME TypeOK, NEW r \in Readers, ReaderStep(r) \/ Disconnect(r)
  PROVE  TypeOK'
  <1> USE DEF Deferrable
  <1>1. /\ Request[r] \in Seq(Tasks) /\ Len(Request[r]) \in Nat
        /\ DOMAIN Request[r] = 1 .. Len(Request[r])
        /\ \A i \in 1 .. Len(Request[r]) : Request[r][i] \in Tasks
        /\ Ids(r) \subseteq Tasks
    BY RequestAssumption, LenProperties, ElementOfSeq DEF Ids
  <1>2. CASE AddWaitingTasks(r)
    BY <1>1, <1>2 DEF TypeOK, AddWaitingTasks, queueVars, slotVars, mainVars
  <1>3. CASE PostTasks(r)
    <2> DEFINE ms == [i \in DOMAIN Request[r] |-> Run(Request[r][i])]
    <2>1. \A i \in 1 .. Len(Request[r]) : Run(Request[r][i]) \in Messages
      BY <1>1, MessageFacts
    <2>2. ms \in Seq(Messages)
      BY <1>1, <2>1, IsASeq
    <2>3. ms \o queue_tasks \in Seq(Messages) /\ queue_tasks \o ms \in Seq(Messages)
      BY <2>2, ConcatProperties DEF TypeOK
    <2>4. queue_tasks' \in Seq(Messages)
      BY <1>3, <2>3 DEF PostTasks
    <2>5. QED
      BY <1>3, <2>4 DEF TypeOK, PostTasks, resultVars, slotVars, mainVars
  <1>4. CASE \E t \in Tasks : Recv(r, t)
    <2> PICK t \in Tasks : Recv(r, t)
      BY <1>4
    <2>1. Tail(queue_results[t]) \in Seq(Results)
      BY HeadTailProperties DEF TypeOK, Recv
    <2>2. received_count' \in [Readers -> Nat]
      BY DEF TypeOK, Recv
    <2>3. rpc' \in [Readers -> {"new", "post", "recv", "stop", "stop_clear",
                                "stop_post", "done"}]
      BY DEF TypeOK, Recv
    <2>4. QED
      BY <2>1, <2>2, <2>3 DEF TypeOK, Recv, queueVars, slotVars, mainVars
  <1>5. CASE Disconnect(r)
    BY <1>5 DEF TypeOK, Disconnect, queueVars, resultVars, slotVars, mainVars
  <1>6. CASE StopRemoveWaiting(r)
    <2>1. HasNext(r) \in BOOLEAN
      BY <1>1 DEF TypeOK, HasNext
    <2>2. QED
      BY <1>6, <2>1 DEF TypeOK, StopRemoveWaiting, queueVars, slotVars, mainVars
  <1>7. CASE StopClearResults(r)
    <2>1. queue_results' \in [Tasks -> Seq(Results)]
      BY <1>7, EmptySeq DEF TypeOK, StopClearResults
    <2>2. QED
      BY <1>7, <2>1 DEF TypeOK, StopClearResults, queueVars, slotVars, mainVars
  <1>8. CASE StopPostCancel(r)
    <2> DEFINE cs == [i \in DOMAIN Request[r] |-> Cancel(Request[r][i])]
    <2>1. \A i \in 1 .. Len(Request[r]) : Cancel(Request[r][i]) \in Messages
      BY <1>1, MessageFacts
    <2>2. cs \in Seq(Messages)
      BY <1>1, <2>1, IsASeq
    <2>3. /\ Without(queue_tasks, Ids(r)) \in Seq(Messages)
          /\ Without(queue_tasks_deferred, Ids(r)) \in Seq(Deferrable)
      BY WithoutProperties DEF TypeOK
    <2>4. cs \o Without(queue_tasks, Ids(r)) \in Seq(Messages)
      BY <2>2, <2>3, ConcatProperties
    <2>5. /\ queue_tasks' \in Seq(Messages)
          /\ queue_tasks_deferred' \in Seq(Deferrable)
      BY <1>8, <2>3, <2>4 DEF StopPostCancel
    <2>6. QED
      BY <1>8, <2>5 DEF TypeOK, StopPostCancel, resultVars, slotVars, mainVars
  <1>9. QED
    BY <1>2, <1>3, <1>4, <1>5, <1>6, <1>7, <1>8 DEF ReaderStep

\* The state the main thread keeps outside the queues, unchanged.
LEMMA TypeMain ==
  ASSUME TypeOK, MainStep
  PROVE  TypeOK'
  <1> USE DEF Deferrable
  <1> USE MessageFacts, NSlotsAssumption
  <1>a. /\ at \in Int /\ NSlots \in Nat \ {0} /\ cur \in Messages
        /\ NextResponse \in Messages /\ 0 \in 0 .. NSlots
    BY DEF TypeOK
  <1>b. \A s \in Slots : s + 1 \in 0 .. NSlots
    BY DEF Slots
  <1>c. \A s \in Slots : slot_state[s] # "idle" => slot_task[s] \in Tasks
    BY DEF TypeOK
  <1>d. cur.type \in {"run", "cancel"} => cur.id \in Tasks
    BY <1>a
  <1>1. CASE PopTask
    <2>1. Head(queue_tasks) \in Messages /\ Tail(queue_tasks) \in Seq(Messages)
      BY <1>1, HeadTailProperties DEF TypeOK, PopTask
    <2>2. QED
      BY <1>1, <2>1 DEF TypeOK, PopTask, resultVars, readerVars, slotVars
  <1>2. CASE QueueEmpty \/ Wait \/ UpdateIdle
    BY <1>2 DEF TypeOK, QueueEmpty, Wait, UpdateIdle, queueVars, resultVars,
                readerVars, slotVars
  <1>3. CASE ProcessDefer
    <2>1. cur \in Deferrable
      BY <1>3, <1>a DEF ProcessDefer
    <2>2. queue_tasks_deferred' \in Seq(Deferrable)
      BY <1>3, <2>1 DEF TypeOK, ProcessDefer, Defer
    <2>3. QED
      BY <1>3, <1>a, <2>2 DEF TypeOK, ProcessDefer, Defer, Processed, resultVars,
                readerVars, slotVars
  <1>4. CASE ProcessLaunch
    <2>1. PICK s \in Candidates(cur.id), n \in 1 .. MaxPrompt :
            /\ slot_task'  = [slot_task EXCEPT ![s] = cur.id]
            /\ slot_state' = [slot_state EXCEPT ![s] =
                 IF IsChild(s, cur.id) THEN "wait_other" ELSE "prompt"]
            /\ n_prompt'   = [n_prompt EXCEPT ![s] = n]
            /\ n_decoded'  = [n_decoded EXCEPT ![s] = 0]
      BY <1>4 DEF ProcessLaunch
    <2>2. s \in Slots /\ n \in Nat /\ ~ IsChild(s, cur.id)
      BY BoundsAssumption DEF Candidates, IsChild
    <2>3. cur.id \in Tasks /\ cur.id # NoTask
      BY <1>4, <1>d, TasksAssumption DEF ProcessLaunch
    <2>4. /\ slot_task' \in [Slots -> Tasks \cup {NoTask}]
          /\ slot_state' \in [Slots -> SlotStates]
          /\ n_prompt' \in [Slots -> Nat] /\ n_decoded' \in [Slots -> Nat]
      BY <2>1, <2>2, <2>3 DEF TypeOK, SlotStates
    <2>5. \A x \in Slots : slot_state'[x] = "idle" <=> slot_task'[x] = NoTask
      BY <2>1, <2>2, <2>3 DEF TypeOK
    <2>6. /\ mpc' = "pop" /\ cur' = NextResponse
          /\ UNCHANGED <<pass, at, failed, queueVars, resultVars, readerVars,
                         answered>>
      BY <1>4 DEF ProcessLaunch, Processed
    <2>7. QED
      BY <1>a, <2>4, <2>5, <2>6 DEF TypeOK, queueVars, resultVars, readerVars
  <1>5. CASE ProcessReject \/ ProcessReply
    <2>1. PICK res \in Results : Send(cur.id, res) /\ cur.id \in Tasks
      BY <1>5, <1>d DEF ProcessReject, ProcessReply, Results
    <2>2. /\ queue_results' \in [Tasks -> Seq(Results)]
          /\ answered' \subseteq Tasks /\ waiting_task_ids' \subseteq Tasks
      BY <2>1, SendType
    <2>3. QED
      BY <1>5, <1>a, <2>2 DEF TypeOK, ProcessReject, ProcessReply, Processed,
                queueVars, readerVars, slotVars
  <1>6. CASE ProcessCancel
    <2>1. CASE \E s \in Slots : slot_task[s] = cur.id
      <3>1. PICK s \in Slots : Release(s)
        BY <1>6, <2>1 DEF ProcessCancel
      <3>2. QED
        BY <1>6, <1>a, <3>1, ReleaseType DEF TypeOK, ProcessCancel, Processed,
                  resultVars, readerVars
    <2>2. CASE ~ \E s \in Slots : slot_task[s] = cur.id
      BY <1>6, <1>a, <2>2 DEF TypeOK, ProcessCancel, Processed, queueVars,
                resultVars, readerVars, slotVars
    <2>3. QED
      BY <2>1, <2>2
  <1>7. CASE ProcessNext
    BY <1>7, <1>a DEF TypeOK, ProcessNext, Processed, queueVars, resultVars,
              readerVars, slotVars
  <1>8. CASE UpdateBegin
    <2>1. queue_tasks' \in Seq(Messages)
      BY <1>8, <1>a DEF TypeOK, UpdateBegin
    <2>2. QED
      BY <1>8, <1>a, <2>1 DEF TypeOK, UpdateBegin, resultVars, readerVars, slotVars
  <1>9. CASE Decode
    <2>1. failed' \in BOOLEAN
      BY <1>9, TaskAssumption DEF Decode
    <2>2. QED
      BY <1>9, <1>a, <2>1 DEF TypeOK, Decode, queueVars, resultVars, readerVars,
                slotVars
  <1>10. ASSUME NEW s \in Slots, BatchSlot(s) \/ VisitSkip(s)
         PROVE  TypeOK'
    <2>1. at' \in 0 .. NSlots
      BY <1>10, <1>b DEF BatchSlot, VisitSkip, Visiting, NextSlot
    <2>2. QED
      BY <1>10, <2>1 DEF TypeOK, BatchSlot, VisitSkip, Visiting, NextSlot,
                queueVars, resultVars, readerVars, slotVars
  <1>11. ASSUME NEW s \in Slots, NEW res \in Results, Quit(s, res),
                slot_state[s] # "idle", at = s
         PROVE  TypeOK'
    <2>1. slot_task[s] \in Tasks
      BY <1>11, <1>c
    <2>2. /\ queue_results' \in [Tasks -> Seq(Results)]
          /\ answered' \subseteq Tasks /\ waiting_task_ids' \subseteq Tasks
      BY <1>11, <2>1, SendType DEF Quit
    <2>3. QED
      BY <1>11, <2>2 DEF TypeOK, Quit, queueVars, readerVars, slotVars
  <1>12. ASSUME NEW s \in Slots, BatchReject(s) \/ VisitError(s)
         PROVE  TypeOK'
    BY <1>11, <1>12 DEF BatchReject, VisitError, Visiting, IsIdle, Results
  <1>13. ASSUME NEW s \in Slots, VisitPrompt(s)
         PROVE  TypeOK'
    <2>1. at' \in 0 .. NSlots
      BY <1>13, <1>b DEF VisitPrompt, Visiting, NextSlot
    <2>2. n_prompt' \in [Slots -> Nat]
      BY <1>13 DEF VisitPrompt, TypeOK
    <2>3. QED
      BY <1>13, <2>1, <2>2 DEF TypeOK, VisitPrompt, Visiting, NextSlot,
                queueVars, resultVars, readerVars
  <1>14. ASSUME NEW s \in Slots, VisitSample(s)
         PROVE  TypeOK'
    <2>2. slot_state[s] # "idle"
      BY <1>14 DEF VisitSample
    <2>3. /\ slot_state' \in [Slots -> SlotStates]
          /\ \A x \in Slots : slot_state'[x] = "idle" <=> slot_state[x] = "idle"
      BY <1>14, <2>2 DEF VisitSample, TypeOK, SlotStates
    <2>4. n_decoded' \in [Slots -> Nat]
      BY <1>14 DEF VisitSample, TypeOK
    <2>5. slot_task[s] \in Tasks
      BY <1>c, <2>2
    <2>6. /\ queue_results' \in [Tasks -> Seq(Results)]
          /\ answered' \subseteq Tasks /\ waiting_task_ids' \subseteq Tasks
      BY <1>14, <2>5, SendType DEF VisitSample, TypeOK, resultVars, Results
    <2>7. QED
      BY <1>14, <2>2, <2>3, <2>4, <2>6 DEF TypeOK, VisitSample, Visiting,
                queueVars, readerVars
  <1>15. CASE SampledContinue
    <2>1. at' \in 0 .. NSlots
      BY <1>15, <1>b DEF SampledContinue, NextSlot, TypeOK
    <2>2. QED
      BY <1>15, <2>1 DEF TypeOK, SampledContinue, NextSlot, queueVars,
                resultVars, readerVars, slotVars
  <1>16. CASE SampledStop
    BY <1>11, <1>16 DEF SampledStop, TypeOK, Results
  <1>17. CASE ReleaseSlot
    <2>1. at' \in 0 .. NSlots /\ at \in Slots
      BY <1>17, <1>b DEF ReleaseSlot, NextSlot, TypeOK
    <2>2. QED
      BY <1>17, <2>1, ReleaseType DEF TypeOK, ReleaseSlot, NextSlot,
                resultVars, readerVars
  <1>18. CASE UpdateEnd
    BY <1>18 DEF TypeOK, UpdateEnd, queueVars, resultVars, readerVars, slotVars
  <1>19. QED
    BY <1>1, <1>2, <1>3, <1>4, <1>5, <1>6, <1>7, <1>8, <1>9, <1>10, <1>12,
       <1>13, <1>14, <1>15, <1>16, <1>17, <1>18 DEF MainStep

\* Every step keeps the types.
LEMMA TypeNext == TypeOK /\ [Next]_vars => TypeOK'
  <1> SUFFICES ASSUME TypeOK, [Next]_vars PROVE TypeOK'
    OBVIOUS
  <1>1. CASE UNCHANGED vars
    BY <1>1 DEF TypeOK, vars, queueVars, resultVars, readerVars, slotVars,
                mainVars
  <1>2. QED
    BY <1>1, TypeReader, TypeMain DEF Next

\* The variables always have the types TypeOK gives them, and the main thread
\* only answers or releases a slot that has a task.
THEOREM TypeCorrect == Spec => []TypeOK
  BY TypeInit, TypeNext, PTL DEF Spec

-----------------------------------------------------------------------------
(***************************************************************************)
(* Where the tasks are.  A queue is seen as the set of tasks it runs, the  *)
(* set of tasks it cancels, and whether it runs each of them once.         *)
(***************************************************************************)
Runs(q)       == {t \in Tasks : \E i \in DOMAIN q : q[i] = Run(t)}
Cancels(q)    == {t \in Tasks : \E i \in DOMAIN q : q[i] = Cancel(t)}
UniqueRuns(q) == \A i, j \in DOMAIN q :
                   q[i] = q[j] /\ q[i].type = "run" => i = j
Slotted(st)   == {t \in Tasks : \E s \in Slots : st[s] = t}
Hand(pc, msg) == {t \in Tasks : pc = "process" /\ msg = Run(t)}

\* The kinds of messages are told apart, and a message names its task.
LEMMA MessageForms ==
  /\ \A t, u \in Tasks : Run(t) = Run(u) => t = u
  /\ \A t, u \in Tasks : Cancel(t) = Cancel(u) => t = u
  /\ \A t, u \in Tasks : Run(t) # Cancel(u)
  /\ \A t \in Tasks : Run(t) # NextResponse /\ Cancel(t) # NextResponse
  /\ \A t \in Tasks : Run(t).type = "run" /\ Run(t).id = t
  /\ \A t \in Tasks : Cancel(t).type = "cancel" /\ Cancel(t).id = t
  /\ \A m \in Messages : m.type = "run" => m.id \in Tasks /\ m = Run(m.id)
  /\ \A m \in Messages : m.type = "cancel" => m.id \in Tasks /\ m = Cancel(m.id)
  /\ NextResponse.type = "next"
  BY DEF Run, Cancel, NextResponse, Messages

\* A queue that is appended to another one (post, both ends).
LEMMA ConcatRuns ==
  ASSUME NEW p \in Seq(Messages), NEW q \in Seq(Messages)
  PROVE  /\ Runs(p \o q) = Runs(p) \cup Runs(q)
         /\ Cancels(p \o q) = Cancels(p) \cup Cancels(q)
         /\ UniqueRuns(p) /\ UniqueRuns(q) /\ Runs(p) \cap Runs(q) = {} =>
              UniqueRuns(p \o q)
  <1> DEFINE pq == p \o q
  <1>1. /\ Len(p) \in Nat /\ Len(q) \in Nat
        /\ DOMAIN p = 1 .. Len(p) /\ DOMAIN q = 1 .. Len(q)
        /\ DOMAIN pq = 1 .. Len(p) + Len(q)
        /\ \A i \in 1 .. Len(p) : pq[i] = p[i]
        /\ \A i \in Len(p) + 1 .. Len(p) + Len(q) : pq[i] = q[i - Len(p)]
    BY ConcatProperties, LenProperties
  <1>2. \A i \in 1 .. Len(q) :
          /\ Len(p) + i \in DOMAIN pq
          /\ pq[Len(p) + i] = q[i]
    BY <1>1
  <1>3. \A i \in DOMAIN pq : \/ i \in DOMAIN p /\ pq[i] = p[i]
                             \/ i - Len(p) \in DOMAIN q /\ pq[i] = q[i - Len(p)]
    BY <1>1
  <1>4. \A m : (\E i \in DOMAIN pq : pq[i] = m) <=>
                 \/ \E i \in DOMAIN p : p[i] = m
                 \/ \E i \in DOMAIN q : q[i] = m
    <2> TAKE m
    <2>1. (\E i \in DOMAIN pq : pq[i] = m) =>
            (\E i \in DOMAIN p : p[i] = m) \/ (\E i \in DOMAIN q : q[i] = m)
      BY <1>3
    <2>2. (\E i \in DOMAIN p : p[i] = m) => \E i \in DOMAIN pq : pq[i] = m
      BY <1>1
    <2>3. (\E i \in DOMAIN q : q[i] = m) => \E i \in DOMAIN pq : pq[i] = m
      BY <1>1, <1>2
    <2>4. QED
      BY <2>1, <2>2, <2>3
  <1>5. Runs(pq) = Runs(p) \cup Runs(q) /\ Cancels(pq) = Cancels(p) \cup Cancels(q)
    BY <1>4 DEF Runs, Cancels
  <1>6. ASSUME UniqueRuns(p), UniqueRuns(q), Runs(p) \cap Runs(q) = {},
               NEW i \in DOMAIN pq, NEW j \in DOMAIN pq,
               pq[i] = pq[j], pq[i].type = "run"
        PROVE  i = j
    <2>1. \A k \in DOMAIN p, l \in DOMAIN q : p[k].type = "run" => p[k] # q[l]
      <3>1. SUFFICES ASSUME NEW k \in DOMAIN p, NEW l \in DOMAIN q,
                            p[k].type = "run", p[k] = q[l]
                     PROVE  FALSE
        OBVIOUS
      <3>2. p[k] \in Messages
        BY <1>1, ElementOfSeq
      <3>3. p[k].id \in Runs(p) /\ p[k].id \in Runs(q)
        BY <3>1, <3>2, MessageForms DEF Runs
      <3>4. QED
        BY <1>6, <3>3
    <2>2. CASE i \in DOMAIN p /\ pq[i] = p[i]
      <3>1. j \in DOMAIN p /\ pq[j] = p[j]
        BY <1>3, <1>6, <2>1, <2>2
      <3>2. QED
        BY <1>6, <2>2, <3>1 DEF UniqueRuns
    <2>3. CASE i - Len(p) \in DOMAIN q /\ pq[i] = q[i - Len(p)]
      <3>1. j - Len(p) \in DOMAIN q /\ pq[j] = q[j - Len(p)]
        BY <1>3, <1>6, <2>1, <2>3
      <3>2. i - Len(p) = j - Len(p)
        BY <1>6, <2>3, <3>1 DEF UniqueRuns
      <3>3. QED
        BY <1>1, <3>2
    <2>4. QED
      BY <1>3, <2>2, <2>3
  <1> HIDE DEF pq
  <1>7. UniqueRuns(p) /\ UniqueRuns(q) /\ Runs(p) \cap Runs(q) = {} =>
          UniqueRuns(pq)
    BY <1>6 DEF UniqueRuns
  <1>8. QED
    BY <1>5, <1>7 DEF pq

\* A queue of one message.
LEMMA SingleRuns ==
  ASSUME NEW m \in Messages
  PROVE  /\ <<m>> \in Seq(Messages)
         /\ Runs(<<m>>) = {t \in Tasks : m = Run(t)}
         /\ Cancels(<<m>>) = {t \in Tasks : m = Cancel(t)}
         /\ UniqueRuns(<<m>>)
  BY DEF Runs, Cancels, UniqueRuns

\* The first message of a queue is taken from it (pop, pop_deferred_task).
LEMMA TailRuns ==
  ASSUME NEW q \in Seq(Messages), q # <<>>, UniqueRuns(q)
  PROVE  /\ Head(q) \in Messages /\ Tail(q) \in Seq(Messages)
         /\ Runs(Tail(q)) = {t \in Runs(q) : Head(q) # Run(t)}
         /\ Cancels(Tail(q)) \subseteq Cancels(q)
         /\ \A t \in Tasks : Head(q) = Run(t) => t \in Runs(q)
         /\ \A t \in Tasks : Head(q) = Cancel(t) => t \in Cancels(q)
         /\ UniqueRuns(Tail(q))
  <1>1. /\ Len(q) \in Nat /\ DOMAIN q = 1 .. Len(q) /\ 1 \in DOMAIN q
        /\ Head(q) = q[1] /\ Head(q) \in Messages /\ Tail(q) \in Seq(Messages)
        /\ DOMAIN Tail(q) = 1 .. Len(q) - 1
        /\ \A i \in 1 .. Len(q) - 1 : Tail(q)[i] = q[i + 1]
    BY HeadTailProperties, LenProperties, EmptySeq
  <1>2. \A i \in DOMAIN Tail(q) : i + 1 \in DOMAIN q /\ Tail(q)[i] = q[i + 1] /\ i + 1 # 1
    BY <1>1
  <1>3. \A i \in DOMAIN q : i # 1 =>
          i - 1 \in DOMAIN Tail(q) /\ Tail(q)[i - 1] = q[i]
    BY <1>1
  <1>4. UniqueRuns(Tail(q))
    <2>1. SUFFICES ASSUME NEW i \in DOMAIN Tail(q), NEW j \in DOMAIN Tail(q),
                          Tail(q)[i] = Tail(q)[j], Tail(q)[i].type = "run"
                   PROVE  i = j
      BY DEF UniqueRuns
    <2>2. i + 1 = j + 1
      BY <1>2, <2>1 DEF UniqueRuns
    <2>3. QED
      BY <1>1, <2>2
  <1>5. \A t \in Tasks : t \in Runs(Tail(q)) => t \in Runs(q) /\ Head(q) # Run(t)
    <2>1. SUFFICES ASSUME NEW t \in Tasks, NEW i \in DOMAIN Tail(q),
                          Tail(q)[i] = Run(t)
                   PROVE  t \in Runs(q) /\ Head(q) # Run(t)
      BY DEF Runs
    <2>2. i + 1 \in DOMAIN q /\ q[i + 1] = Run(t) /\ i + 1 # 1
      BY <1>2, <2>1
    <2>3. Head(q) # Run(t)
      BY <1>1, <2>2, MessageForms DEF UniqueRuns
    <2>4. QED
      BY <2>2, <2>3 DEF Runs
  <1>6. \A t \in Tasks : t \in Runs(q) /\ Head(q) # Run(t) => t \in Runs(Tail(q))
    BY <1>1, <1>3 DEF Runs
  <1>7. Cancels(Tail(q)) \subseteq Cancels(q)
    BY <1>2 DEF Cancels
  <1>8. /\ \A t \in Tasks : Head(q) = Run(t) => t \in Runs(q)
        /\ \A t \in Tasks : Head(q) = Cancel(t) => t \in Cancels(q)
    BY <1>1 DEF Runs, Cancels
  <1>9. Runs(Tail(q)) = {t \in Runs(q) : Head(q) # Run(t)}
    BY <1>5, <1>6 DEF Runs
  <1>10. QED
    BY <1>1, <1>4, <1>7, <1>8, <1>9

\* The pending tasks of a request that is cancelled are removed from a queue,
\* the others are all kept (cleanup_pending_task).
LEMMA WithoutRuns ==
  ASSUME NEW q \in Seq(Messages), NEW ids \in SUBSET Tasks, UniqueRuns(q)
  PROVE  /\ Without(q, ids) \in Seq(Messages)
         /\ Runs(Without(q, ids)) = Runs(q) \ ids
         /\ Cancels(Without(q, ids)) \subseteq Cancels(q)
         /\ UniqueRuns(Without(q, ids))
  <1> DEFINE w == Without(q, ids)
             K(k) == Kth(Kept(q, ids), k)
  <1>1. /\ w \in Seq(Messages)
        /\ \A k \in DOMAIN w : K(k) \in Kept(q, ids) /\ w[k] = q[K(k)]
        /\ \A k, l \in DOMAIN w : K(k) = K(l) => k = l
        /\ \A i \in Kept(q, ids) : \E k \in DOMAIN w : w[k] = q[i]
    BY WithoutProperties
  <1>2. \A i \in Kept(q, ids) :
          i \in DOMAIN q /\ ~ (q[i].type = "run" /\ q[i].id \in ids)
    BY DEF Kept
  <1> HIDE DEF w, K
  <1>3. \A t \in Tasks : t \in Runs(w) => t \in Runs(q) \ ids
    <2>1. SUFFICES ASSUME NEW t \in Tasks, NEW k \in DOMAIN w, w[k] = Run(t)
                   PROVE  t \in Runs(q) \ ids
      BY DEF Runs
    <2>2. K(k) \in DOMAIN q /\ q[K(k)] = Run(t)
      BY <1>1, <1>2, <2>1
    <2>3. t \notin ids
      BY <1>1, <1>2, <2>1, MessageForms
    <2>4. QED
      BY <2>2, <2>3 DEF Runs
  <1>4. \A t \in Tasks : t \in Runs(q) \ ids => t \in Runs(w)
    <2>1. SUFFICES ASSUME NEW t \in Tasks, t \notin ids, NEW i \in DOMAIN q,
                          q[i] = Run(t)
                   PROVE  t \in Runs(w)
      BY DEF Runs
    <2>2. i \in Kept(q, ids)
      BY <2>1, MessageForms DEF Kept
    <2>3. QED
      BY <1>1, <2>1, <2>2 DEF Runs
  <1>5. Cancels(w) \subseteq Cancels(q)
    BY <1>1, <1>2 DEF Cancels
  <1>6. UniqueRuns(w)
    BY <1>1, <1>2 DEF UniqueRuns
  <1>7. Runs(w) = Runs(q) \ ids
    BY <1>3, <1>4 DEF Runs
  <1>8. QED
    BY <1>1, <1>5, <1>6, <1>7 DEF w

-----------------------------------------------------------------------------
(***************************************************************************)
(* The inductive invariant behind SinglePlace, NoLostTask, NoOrphanResult  *)
(* and TerminalResultLast.                                                 *)
(***************************************************************************)
\* No queue runs a task twice, and no two slots have the same task.
UniqueInv ==
  /\ UniqueRuns(queue_tasks) /\ UniqueRuns(queue_tasks_deferred)
  /\ \A s1, s2 \in Slots :
       slot_task[s1] = slot_task[s2] /\ slot_task[s1] # NoTask => s1 = s2

\* A task is in one place; in none before it is posted; and, while its reader
\* waits, in some place or answered.  Only tasks of readers that have left are
\* cancelled.
PlaceInv ==
  \A t \in Tasks :
    LET inQ == t \in Runs(queue_tasks)
        inD == t \in Runs(queue_tasks_deferred)
        inH == t \in Hand(mpc, cur)
        inS == t \in Slotted(slot_task)
        inA == t \in answered
    IN  /\ inQ => ~inD /\ ~inH /\ ~inS
        /\ inD => ~inH /\ ~inS
        /\ inH => ~inS
        /\ inA => ~inQ /\ ~inD /\ ~inH
        /\ inA /\ inS => mpc = "release" /\ slot_task[at] = t
        /\ inQ \/ inD \/ inH \/ inS \/ inA =>
             rpc[Owner[t]] \notin {"new", "post"}
        /\ rpc[Owner[t]] = "recv" => inQ \/ inD \/ inH \/ inS \/ inA
        /\ t \in Cancels(queue_tasks) \/ (mpc = "process" /\ cur = Cancel(t))
             => rpc[Owner[t]] = "done"

\* A slot is released by update_slots only after its task was answered.
ReleaseInv == mpc = "release" => slot_task[at] \in answered

\* A result has somebody who takes or erases it, and a terminal one is the
\* last of a task that has been answered.
ResultInv ==
  \A t \in Tasks :
    /\ queue_results[t] # <<>> =>
         t \in waiting_task_ids \/ rpc[Owner[t]] = "stop_clear"
    /\ \A i \in DOMAIN queue_results[t] :
         queue_results[t][i] # "partial" =>
           i = Len(queue_results[t]) /\ t \in answered

\* The tasks of r whose results have all been taken.
Got(r, A, results) == {t \in Ids(r) : t \in A /\ results[t] = <<>>}

\* A reader has taken all the results of at least as many tasks as it counted.
CountInv ==
  \A r \in Readers :
    /\ received_count[r] <= Len(Request[r])
    /\ cancelled[r] => rpc[r] \in {"stop_clear", "stop_post", "done"}
    /\ rpc[r] \in {"new", "post", "recv", "stop"} =>
         received_count[r] <= Cardinality(Got(r, answered, queue_results))

\* The vector of a request lists its tasks, each once.
LEMMA RequestFacts ==
  ASSUME NEW r \in Readers
  PROVE  /\ Request[r] \in Seq(Tasks) /\ Len(Request[r]) \in Nat
         /\ DOMAIN Request[r] = 1 .. Len(Request[r])
         /\ \A i \in 1 .. Len(Request[r]) : Request[r][i] \in Ids(r)
         /\ \A t \in Ids(r) : \E i \in 1 .. Len(Request[r]) : Request[r][i] = t
         /\ \A i, j \in 1 .. Len(Request[r]) :
              Request[r][i] = Request[r][j] => i = j
         /\ Ids(r) \subseteq Tasks
         /\ \A t \in Tasks : t \in Ids(r) <=> Owner[t] = r
  <1>1. /\ Request[r] \in Seq(Tasks) /\ Len(Request[r]) \in Nat
        /\ DOMAIN Request[r] = 1 .. Len(Request[r])
        /\ \A i \in 1 .. Len(Request[r]) : Request[r][i] \in Tasks
    BY RequestAssumption, LenProperties, ElementOfSeq
  <1>2. /\ \A i \in DOMAIN Request[r] : Owner[Request[r][i]] = r
        /\ \A t \in Ids(r) : \E i \in DOMAIN Request[r] : Request[r][i] = t
        /\ \A i, j \in DOMAIN Request[r] :
             Request[r][i] = Request[r][j] => i = j
    BY RequestAssumption
  <1>3. QED
    BY <1>1, <1>2 DEF Ids

\* A request has as many tasks as its vector is long.
LEMMA IdsCount ==
  ASSUME NEW r \in Readers
  PROVE  IsFiniteSet(Ids(r)) /\ Cardinality(Ids(r)) = Len(Request[r])
  <1> DEFINE n == Len(Request[r])
  <1>1. /\ n \in Nat /\ DOMAIN Request[r] = 1 .. n /\ Request[r] \in Seq(Tasks)
        /\ \A i \in 1 .. n : Request[r][i] \in Ids(r)
        /\ \A t \in Ids(r) : \E i \in 1 .. n : Request[r][i] = t
        /\ \A i, j \in 1 .. n : Request[r][i] = Request[r][j] => i = j
    BY RequestFacts
  <1>2. Request[r] \in [1 .. n -> Ids(r)]
    BY <1>1
  <1>3. Request[r] \in Bijection(1 .. n, Ids(r))
    BY <1>1, <1>2 DEF Bijection, Injection, Surjection, IsInjective
  <1>4. ExistsBijection(1 .. n, Ids(r))
    BY <1>3 DEF ExistsBijection
  <1>5. IsFiniteSet(1 .. n) /\ Cardinality(1 .. n) = n
    BY <1>1, FS_Interval
  <1>6. QED
    BY <1>4, <1>5, FS_Bijection

\* A reader cannot have taken more than its tasks, nor all but some.
LEMMA GotCount ==
  ASSUME NEW r \in Readers, NEW A, NEW results
  PROVE  /\ IsFiniteSet(Got(r, A, results))
         /\ Cardinality(Got(r, A, results)) \in Nat
         /\ Cardinality(Got(r, A, results)) <= Len(Request[r])
         /\ Cardinality(Got(r, A, results)) = Len(Request[r]) =>
              Got(r, A, results) = Ids(r)
  <1>1. Got(r, A, results) \in SUBSET Ids(r)
    BY DEF Got
  <1>2. QED
    BY <1>1, IdsCount, FS_Subset, FS_CardinalityType

-----------------------------------------------------------------------------
\* Nothing is queued, running or answered at the start.
LEMMA InvInit ==
  ASSUME Init
  PROVE  UniqueInv /\ PlaceInv /\ ReleaseInv /\ ResultInv /\ CountInv
  <1>1. /\ Runs(<<>>) = {} /\ Cancels(<<>>) = {} /\ UniqueRuns(<<>>)
    BY DEF Runs, Cancels, UniqueRuns
  <1>2. Slotted(slot_task) = {} /\ Hand(mpc, cur) = {}
    BY TasksAssumption DEF Init, Slotted, Hand
  <1>3. UniqueInv
    BY <1>1 DEF Init, UniqueInv
  <1>4. PlaceInv
    BY <1>1, <1>2, TaskAssumption DEF Init, PlaceInv
  <1>5. ReleaseInv /\ ResultInv
    BY DEF Init, ReleaseInv, ResultInv
  <1>6. CountInv
    BY RequestFacts, GotCount DEF Init, CountInv
  <1>7. QED
    BY <1>3, <1>4, <1>5, <1>6

-----------------------------------------------------------------------------
(***************************************************************************)
(* Every step keeps the tasks in their places.                             *)
(***************************************************************************)
\* Both queues are sequences of messages.
LEMMA QueueTypes ==
  ASSUME TypeOK
  PROVE  /\ queue_tasks \in Seq(Messages)
         /\ queue_tasks_deferred \in Seq(Deferrable)
         /\ queue_tasks_deferred \in Seq(Messages)
  <1>1. queue_tasks \in Seq(Messages) /\ queue_tasks_deferred \in Seq(Deferrable)
    BY DEF TypeOK, Deferrable
  <1>2. QED
    BY <1>1, MessageFacts, SeqMonotonic

\* pop_deferred_task moves at most one task, and it was deferred.
LEMMA PopDeferredMoves ==
  ASSUME TypeOK, UniqueInv, PopDeferred,
         Runs(queue_tasks) \cap Runs(queue_tasks_deferred) = {}
  PROVE  \E moved \in SUBSET Runs(queue_tasks_deferred) :
           /\ Runs(queue_tasks') = Runs(queue_tasks) \cup moved
           /\ Runs(queue_tasks_deferred') = Runs(queue_tasks_deferred) \ moved
           /\ Cancels(queue_tasks') = Cancels(queue_tasks)
           /\ UniqueRuns(queue_tasks') /\ UniqueRuns(queue_tasks_deferred')
  <1>1. /\ queue_tasks \in Seq(Messages)
        /\ queue_tasks_deferred \in Seq(Deferrable)
        /\ queue_tasks_deferred \in Seq(Messages)
    BY QueueTypes
  <1>2. CASE queue_tasks_deferred = <<>>
    <2>1. {} \in SUBSET Runs(queue_tasks_deferred)
      OBVIOUS
    <2>2. queue_tasks' = queue_tasks /\ queue_tasks_deferred' = queue_tasks_deferred
      BY <1>2 DEF PopDeferred, queueVars
    <2>3. QED
      BY <2>1, <2>2 DEF UniqueInv
  <1>3. CASE queue_tasks_deferred # <<>>
    <2> DEFINE m == Head(queue_tasks_deferred)
               moved == {t \in Tasks : m = Run(t)}
    <2>1. /\ m \in Messages
          /\ Runs(Tail(queue_tasks_deferred)) =
               {t \in Runs(queue_tasks_deferred) : m # Run(t)}
          /\ \A t \in Tasks : m = Run(t) => t \in Runs(queue_tasks_deferred)
          /\ UniqueRuns(Tail(queue_tasks_deferred))
      BY <1>1, <1>3, TailRuns DEF UniqueInv
    <2>2. m \in Deferrable
      BY <1>1, <1>3, HeadTailProperties
    <2>3. /\ <<m>> \in Seq(Messages)
          /\ Runs(<<m>>) = moved
          /\ Cancels(<<m>>) = {}
          /\ UniqueRuns(<<m>>)
      <3>1. \A t \in Tasks : m # Cancel(t)
        BY <2>2 DEF Deferrable, Cancel
      <3>2. QED
        BY <2>1, <3>1, SingleRuns
    <2>4. /\ queue_tasks' = <<m>> \o queue_tasks
          /\ queue_tasks_deferred' = Tail(queue_tasks_deferred)
      BY <1>3 DEF PopDeferred
    <2> HIDE DEF m
    <2>5. moved \in SUBSET Runs(queue_tasks_deferred)
      BY <2>1
    <2>6. Runs(<<m>>) \cap Runs(queue_tasks) = {}
      BY <2>3, <2>5
    <2>7. /\ Runs(queue_tasks') = moved \cup Runs(queue_tasks)
          /\ Cancels(queue_tasks') = Cancels(queue_tasks)
          /\ UniqueRuns(queue_tasks')
      <3>1. UniqueRuns(queue_tasks)
        BY DEF UniqueInv
      <3>2. /\ Runs(queue_tasks') = Runs(<<m>>) \cup Runs(queue_tasks)
            /\ Cancels(queue_tasks') = Cancels(<<m>>) \cup Cancels(queue_tasks)
            /\ UniqueRuns(queue_tasks')
        BY <1>1, <2>3, <2>4, <2>6, <3>1, ConcatRuns
      <3>3. QED
        BY <2>3, <3>2
    <2>8. Runs(queue_tasks_deferred') = Runs(queue_tasks_deferred) \ moved
      BY <2>1, <2>4 DEF Runs
    <2>9. UniqueRuns(queue_tasks_deferred')
      BY <2>1, <2>4
    <2>10. QED
      BY <2>5, <2>7, <2>8, <2>9
  <1>4. QED
    BY <1>2, <1>3

\* A released slot loses its task, and the others keep theirs.
LEMMA ReleaseMoves ==
  ASSUME TypeOK, UniqueInv, PlaceInv, NEW s \in Slots, slot_task[s] \in Tasks,
         Release(s)
  PROVE  /\ UniqueInv'
         /\ Slotted(slot_task') = Slotted(slot_task) \ {slot_task[s]}
         /\ \E moved \in SUBSET Runs(queue_tasks_deferred) :
              /\ Runs(queue_tasks') = Runs(queue_tasks) \cup moved
              /\ Runs(queue_tasks_deferred') = Runs(queue_tasks_deferred) \ moved
              /\ Cancels(queue_tasks') = Cancels(queue_tasks)
  <1>1. Runs(queue_tasks) \cap Runs(queue_tasks_deferred) = {}
    BY DEF PlaceInv, Runs
  <1>2. PICK moved \in SUBSET Runs(queue_tasks_deferred) :
           /\ Runs(queue_tasks') = Runs(queue_tasks) \cup moved
           /\ Runs(queue_tasks_deferred') = Runs(queue_tasks_deferred) \ moved
           /\ Cancels(queue_tasks') = Cancels(queue_tasks)
           /\ UniqueRuns(queue_tasks') /\ UniqueRuns(queue_tasks_deferred')
    BY <1>1, PopDeferredMoves DEF Release
  <1>3. /\ slot_task \in [Slots -> Tasks \cup {NoTask}]
        /\ slot_task' = [slot_task EXCEPT ![s] = NoTask]
    BY DEF Release, TypeOK
  <1>4. \A s1, s2 \in Slots :
          slot_task'[s1] = slot_task'[s2] /\ slot_task'[s1] # NoTask => s1 = s2
    BY <1>3 DEF UniqueInv
  <1>5. Slotted(slot_task') = Slotted(slot_task) \ {slot_task[s]}
    BY <1>3, TasksAssumption DEF Slotted, UniqueInv
  <1>6. QED
    BY <1>2, <1>4, <1>5 DEF UniqueInv

\* HTTP threads: a request is posted once; one that is cancelled leaves the
\* queues, and the tasks of the others stay.
LEMMA PlacesReader ==
  ASSUME TypeOK, UniqueInv, PlaceInv, ReleaseInv,
         NEW r \in Readers, ReaderStep(r) \/ Disconnect(r)
  PROVE  UniqueInv' /\ PlaceInv' /\ ReleaseInv'
  <1>1. /\ queue_tasks \in Seq(Messages)
        /\ queue_tasks_deferred \in Seq(Messages)
    BY QueueTypes
  <1>2. \A t \in Tasks : Owner[t] \in Readers /\ (t \in Ids(r) <=> Owner[t] = r)
    BY TaskAssumption DEF Ids
  <1>3. /\ slotVars' = slotVars /\ mainVars' = mainVars /\ answered' = answered
    BY DEF ReaderStep, AddWaitingTasks, PostTasks, Recv, StopRemoveWaiting,
           StopClearResults, StopPostCancel, Disconnect
  <1>4. /\ slot_task' = slot_task /\ mpc' = mpc /\ cur' = cur /\ at' = at
    BY <1>3 DEF slotVars, mainVars
  <1>5. ReleaseInv'
    BY <1>3, <1>4 DEF ReleaseInv
  <1>6. CASE ~ PostTasks(r) /\ ~ StopPostCancel(r)
    <2>1. queueVars' = queueVars
      BY <1>6 DEF ReaderStep, AddWaitingTasks, Recv, StopRemoveWaiting,
             StopClearResults, Disconnect
    <2>2. /\ queue_tasks' = queue_tasks
          /\ queue_tasks_deferred' = queue_tasks_deferred
      BY <2>1 DEF queueVars
    <2>3. \A u \in Readers :
            /\ rpc[u] \notin {"new", "post"} => rpc'[u] \notin {"new", "post"}
            /\ rpc'[u] = "recv" => rpc[u] = "recv"
            /\ rpc[u] = "done" => rpc'[u] = "done"
      BY <1>6 DEF ReaderStep, AddWaitingTasks, Recv, StopRemoveWaiting,
             StopClearResults, Disconnect, TypeOK
    <2>4. UniqueInv'
      BY <1>4, <2>2 DEF UniqueInv
    <2>5. PlaceInv'
      BY <1>2, <1>3, <1>4, <2>2, <2>3 DEF PlaceInv
    <2>6. QED
      BY <1>5, <2>4, <2>5
  <1>7. CASE PostTasks(r)
    <2> DEFINE ms == [i \in DOMAIN Request[r] |-> Run(Request[r][i])]
    <2>1. /\ Len(Request[r]) \in Nat
          /\ DOMAIN Request[r] = 1 .. Len(Request[r])
          /\ \A i \in 1 .. Len(Request[r]) : Request[r][i] \in Ids(r)
          /\ \A t \in Ids(r) : \E i \in 1 .. Len(Request[r]) : Request[r][i] = t
          /\ \A i, j \in 1 .. Len(Request[r]) :
               Request[r][i] = Request[r][j] => i = j
          /\ Ids(r) \subseteq Tasks
      BY RequestFacts
    <2>2. \A i \in 1 .. Len(Request[r]) : Run(Request[r][i]) \in Messages
      BY <2>1, MessageFacts
    <2>3. ms \in Seq(Messages)
      BY <2>1, <2>2, IsASeq
    <2>0. /\ DOMAIN ms = 1 .. Len(Request[r])
          /\ \A i \in 1 .. Len(Request[r]) : ms[i] = Run(Request[r][i])
      BY <2>1
    <2> HIDE DEF ms
    <2>4. Runs(ms) = Ids(r)
      BY <2>0, <2>1, MessageForms DEF Runs
    <2>5. Cancels(ms) = {}
      BY <2>0, <2>1, MessageForms DEF Cancels
    <2>6. UniqueRuns(ms)
      BY <2>0, <2>1, MessageForms DEF UniqueRuns
    <2>7. /\ rpc[r] = "post" /\ rpc' = [rpc EXCEPT ![r] = "recv"]
          /\ queue_tasks_deferred' = queue_tasks_deferred
          /\ queue_tasks' = ms \o queue_tasks \/ queue_tasks' = queue_tasks \o ms
      BY <1>7 DEF PostTasks, ms
    <2>8. Runs(ms) \cap Runs(queue_tasks) = {}
      BY <1>2, <2>1, <2>4, <2>7 DEF PlaceInv
    <2>9. /\ Runs(queue_tasks') = Runs(queue_tasks) \cup Ids(r)
          /\ Cancels(queue_tasks') = Cancels(queue_tasks)
          /\ UniqueRuns(queue_tasks')
      <3>1. UniqueRuns(queue_tasks)
        BY DEF UniqueInv
      <3>2. CASE queue_tasks' = ms \o queue_tasks
        <4>1. /\ Runs(ms \o queue_tasks) = Runs(ms) \cup Runs(queue_tasks)
              /\ Cancels(ms \o queue_tasks) = Cancels(ms) \cup Cancels(queue_tasks)
              /\ UniqueRuns(ms \o queue_tasks)
          BY <1>1, <2>3, <2>6, <2>8, <3>1, ConcatRuns
        <4>2. QED
          BY <2>4, <2>5, <3>2, <4>1
      <3>3. CASE queue_tasks' = queue_tasks \o ms
        <4>1. Runs(queue_tasks) \cap Runs(ms) = {}
          BY <2>8
        <4>2. /\ Runs(queue_tasks \o ms) = Runs(queue_tasks) \cup Runs(ms)
              /\ Cancels(queue_tasks \o ms) = Cancels(queue_tasks) \cup Cancels(ms)
              /\ UniqueRuns(queue_tasks \o ms)
          BY <1>1, <2>3, <2>6, <3>1, <4>1, ConcatRuns
        <4>3. QED
          BY <2>4, <2>5, <3>3, <4>2
      <3>4. QED
        BY <2>7, <3>2, <3>3
    <2>10. UniqueInv'
      BY <1>4, <2>7, <2>9 DEF UniqueInv
    <2>11. \A u \in Readers : rpc'[u] = IF u = r THEN "recv" ELSE rpc[u]
      BY <2>7 DEF TypeOK
    <2>12. PlaceInv'
      BY <1>2, <1>3, <1>4, <2>1, <2>7, <2>9, <2>11 DEF PlaceInv
    <2>13. QED
      BY <1>5, <2>10, <2>12
  <1>8. CASE StopPostCancel(r)
    <2> DEFINE cs == [i \in DOMAIN Request[r] |-> Cancel(Request[r][i])]
    <2>1. /\ Len(Request[r]) \in Nat
          /\ DOMAIN Request[r] = 1 .. Len(Request[r])
          /\ \A i \in 1 .. Len(Request[r]) : Request[r][i] \in Ids(r)
          /\ Ids(r) \subseteq Tasks
      BY RequestFacts
    <2>2. \A i \in 1 .. Len(Request[r]) : Cancel(Request[r][i]) \in Messages
      BY <2>1, MessageFacts
    <2>3. cs \in Seq(Messages)
      BY <2>1, <2>2, IsASeq
    <2>0. /\ DOMAIN cs = 1 .. Len(Request[r])
          /\ \A i \in 1 .. Len(Request[r]) : cs[i] = Cancel(Request[r][i])
      BY <2>1
    <2> HIDE DEF cs
    <2>4. Runs(cs) = {}
      BY <2>0, <2>1, MessageForms DEF Runs
    <2>5. Cancels(cs) \subseteq Ids(r)
      BY <2>0, <2>1, MessageForms DEF Cancels
    <2>6. UniqueRuns(cs)
      BY <2>0, <2>1, MessageForms DEF UniqueRuns
    <2>7. /\ rpc[r] = "stop_post" /\ rpc' = [rpc EXCEPT ![r] = "done"]
          /\ queue_tasks_deferred' = Without(queue_tasks_deferred, Ids(r))
          /\ queue_tasks' = cs \o Without(queue_tasks, Ids(r))
      BY <1>8 DEF StopPostCancel, cs
    <2>8. /\ Without(queue_tasks, Ids(r)) \in Seq(Messages)
          /\ Runs(Without(queue_tasks, Ids(r))) = Runs(queue_tasks) \ Ids(r)
          /\ Cancels(Without(queue_tasks, Ids(r))) \subseteq Cancels(queue_tasks)
          /\ UniqueRuns(Without(queue_tasks, Ids(r)))
      BY <1>1, <2>1, WithoutRuns DEF UniqueInv
    <2>9. /\ Runs(queue_tasks_deferred') = Runs(queue_tasks_deferred) \ Ids(r)
          /\ UniqueRuns(queue_tasks_deferred')
      BY <1>1, <2>1, <2>7, WithoutRuns DEF UniqueInv
    <2>10. /\ Runs(queue_tasks') = Runs(queue_tasks) \ Ids(r)
           /\ Cancels(queue_tasks') \subseteq Cancels(queue_tasks) \cup Ids(r)
           /\ UniqueRuns(queue_tasks')
      BY <2>3, <2>4, <2>5, <2>6, <2>7, <2>8, ConcatRuns
    <2>11. UniqueInv'
      BY <1>4, <2>9, <2>10 DEF UniqueInv
    <2>12. \A u \in Readers : rpc'[u] = IF u = r THEN "done" ELSE rpc[u]
      BY <2>7 DEF TypeOK
    <2>13. PlaceInv'
      BY <1>2, <1>3, <1>4, <2>1, <2>7, <2>9, <2>10, <2>12 DEF PlaceInv
    <2>14. QED
      BY <1>5, <2>11, <2>13
  <1>9. QED
    BY <1>6, <1>7, <1>8

\* Steps of update_slots that move no task.
LEMMA QuietStep ==
  ASSUME UniqueInv, PlaceInv,
         mpc \notin {"process", "release"}, mpc' \notin {"process", "release"},
         queueVars' = queueVars, slot_task' = slot_task, rpc' = rpc,
         answered' = answered
  PROVE  UniqueInv' /\ PlaceInv' /\ ReleaseInv'
  <1>1. /\ queue_tasks' = queue_tasks
        /\ queue_tasks_deferred' = queue_tasks_deferred
    BY DEF queueVars
  <1>2. Hand(mpc, cur) = {} /\ Hand(mpc', cur') = {}
    BY DEF Hand
  <1>3. PlaceInv'
    BY <1>1, <1>2 DEF PlaceInv
  <1>4. QED
    BY <1>1, <1>3 DEF UniqueInv, ReleaseInv

\* The main thread sends the last answer to the task of a slot it will release.
LEMMA QuitPlaces ==
  ASSUME TypeOK, UniqueInv, PlaceInv, mpc \in {"visit", "sampled"},
         NEW s \in Slots, at = s, slot_task[s] \in Tasks,
         NEW res \in {"final", "error"}, Quit(s, res)
  PROVE  UniqueInv' /\ PlaceInv' /\ ReleaseInv'
  <1>1. /\ queue_tasks' = queue_tasks
        /\ queue_tasks_deferred' = queue_tasks_deferred
        /\ slot_task' = slot_task /\ rpc' = rpc /\ at' = at
        /\ mpc' = "release" /\ answered' = answered \cup {slot_task[s]}
    BY DEF Quit, Send, queueVars, readerVars, slotVars
  <1>2. Hand(mpc, cur) = {} /\ Hand(mpc', cur') = {}
    BY <1>1 DEF Hand
  <1>3. slot_task[s] \in Slotted(slot_task)
    BY DEF Slotted
  <1>4. PlaceInv'
    BY <1>1, <1>2, <1>3 DEF PlaceInv
  <1>5. QED
    BY <1>1, <1>4 DEF UniqueInv, ReleaseInv

\* The main thread takes, defers, launches, answers and releases.
LEMMA PlacesMain ==
  ASSUME TypeOK, UniqueInv, PlaceInv, ReleaseInv, MainStep
  PROVE  UniqueInv' /\ PlaceInv' /\ ReleaseInv'
  <1>a. /\ queue_tasks \in Seq(Messages) /\ cur \in Messages
        /\ queue_tasks_deferred \in Seq(Messages)
    BY QueueTypes DEF TypeOK
  <1>b. /\ slot_task \in [Slots -> Tasks \cup {NoTask}]
        /\ \A s \in Slots : slot_state[s] # "idle" => slot_task[s] \in Tasks
        /\ \A s \in Slots : slot_state[s] = "idle" => slot_task[s] = NoTask
    BY DEF TypeOK
  <1>c. rpc' = rpc
    BY DEF MainStep, PopTask, QueueEmpty, Wait, ProcessDefer, ProcessLaunch,
           ProcessReject, ProcessReply, ProcessCancel, ProcessNext, UpdateIdle,
           UpdateBegin, Decode, BatchSlot, BatchReject, Quit, VisitSkip,
           VisitError, VisitPrompt, VisitSample, SampledContinue, SampledStop,
           ReleaseSlot, UpdateEnd, readerVars
  <1>d. cur.type = "run" => cur.id \in Tasks /\ cur = Run(cur.id)
    BY <1>a, MessageForms
  <1>1. CASE PopTask
    <2>1. /\ queue_tasks # <<>> /\ cur' = Head(queue_tasks)
          /\ queue_tasks' = Tail(queue_tasks)
          /\ queue_tasks_deferred' = queue_tasks_deferred
          /\ slot_task' = slot_task /\ answered' = answered
          /\ mpc = "pop" /\ mpc' = "process"
      BY <1>1 DEF PopTask, slotVars
    <2>2. /\ Runs(queue_tasks') = {t \in Runs(queue_tasks) : cur' # Run(t)}
          /\ Cancels(queue_tasks') \subseteq Cancels(queue_tasks)
          /\ \A t \in Tasks : cur' = Run(t) => t \in Runs(queue_tasks)
          /\ \A t \in Tasks : cur' = Cancel(t) => t \in Cancels(queue_tasks)
          /\ UniqueRuns(queue_tasks')
      BY <1>a, <2>1, TailRuns DEF UniqueInv
    <2>3. Hand(mpc, cur) = {} /\ Hand(mpc', cur') = {t \in Tasks : cur' = Run(t)}
      BY <2>1 DEF Hand
    <2>4. PlaceInv'
      BY <1>c, <2>1, <2>2, <2>3 DEF PlaceInv
    <2>5. QED
      BY <2>1, <2>2, <2>4 DEF UniqueInv, ReleaseInv
  <1>2. CASE QueueEmpty \/ Wait \/ UpdateIdle \/ Decode \/ UpdateEnd \/ SampledContinue
    <2>1. /\ mpc \notin {"process", "release"} /\ mpc' \notin {"process", "release"}
          /\ queueVars' = queueVars /\ slot_task' = slot_task
          /\ answered' = answered
      BY <1>2 DEF QueueEmpty, Wait, UpdateIdle, Decode, UpdateEnd,
                  SampledContinue, NextSlot, slotVars
    <2>2. QED
      BY <1>c, <2>1, QuietStep
  <1>3. CASE \E s \in Slots : \/ BatchSlot(s) \/ VisitSkip(s)
                            \/ VisitPrompt(s) \/ VisitSample(s)
    <2>1. PICK s \in Slots :
            BatchSlot(s) \/ VisitSkip(s) \/ VisitPrompt(s) \/ VisitSample(s)
      BY <1>3
    <2>2. /\ mpc \notin {"process", "release"} /\ mpc' \notin {"process", "release"}
          /\ queueVars' = queueVars /\ slot_task' = slot_task
      BY <2>1 DEF BatchSlot, VisitSkip, VisitPrompt, VisitSample, Visiting,
                  NextSlot, slotVars
    <2>3. answered' = answered
      BY <2>1 DEF BatchSlot, VisitSkip, VisitPrompt, VisitSample, Send
    <2>4. QED
      BY <1>c, <2>2, <2>3, QuietStep
  <1>4. CASE ProcessDefer
    <2>1. /\ mpc = "process" /\ mpc' = "pop" /\ cur.type = "run"
          /\ queue_tasks_deferred' = Append(queue_tasks_deferred, cur)
          /\ queue_tasks' = queue_tasks
          /\ slot_task' = slot_task /\ answered' = answered
      BY <1>4 DEF ProcessDefer, Defer, Processed, slotVars
    <2>2. /\ <<cur>> \in Seq(Messages) /\ Runs(<<cur>>) = {cur.id}
          /\ UniqueRuns(<<cur>>)
      BY <1>a, <1>d, <2>1, SingleRuns, MessageForms
    <2>3. queue_tasks_deferred' = queue_tasks_deferred \o <<cur>>
      BY <1>a, <2>1, AppendIsConcat
    <2>4. Hand(mpc, cur) = {cur.id} /\ Hand(mpc', cur') = {}
      BY <1>d, <2>1, MessageForms DEF Hand
    <2>5. Runs(queue_tasks_deferred) \cap Runs(<<cur>>) = {}
      BY <1>d, <2>1, <2>2, <2>4 DEF PlaceInv
    <2>6. /\ Runs(queue_tasks_deferred') = Runs(queue_tasks_deferred) \cup {cur.id}
          /\ UniqueRuns(queue_tasks_deferred')
      BY <1>a, <2>2, <2>3, <2>5, ConcatRuns DEF UniqueInv
    <2>7. PlaceInv'
      BY <1>c, <1>d, <2>1, <2>4, <2>6 DEF PlaceInv
    <2>8. QED
      BY <2>1, <2>6, <2>7 DEF UniqueInv, ReleaseInv
  <1>5. CASE ProcessLaunch
    <2>1. PICK s \in Candidates(cur.id) :
            slot_task' = [slot_task EXCEPT ![s] = cur.id]
      BY <1>5 DEF ProcessLaunch
    <2>2. s \in Slots /\ slot_task[s] = NoTask
      BY <1>b DEF Candidates, IsIdle
    <2>3. /\ mpc = "process" /\ mpc' = "pop" /\ cur.type = "run"
          /\ queue_tasks_deferred' = queue_tasks_deferred
          /\ queue_tasks' = queue_tasks /\ answered' = answered
      BY <1>5 DEF ProcessLaunch, Processed, queueVars
    <2>4. Hand(mpc, cur) = {cur.id} /\ Hand(mpc', cur') = {}
      BY <1>d, <2>3, MessageForms DEF Hand
    <2>5. Slotted(slot_task') = Slotted(slot_task) \cup {cur.id}
      BY <1>b, <1>d, <2>1, <2>2, <2>3, TasksAssumption DEF Slotted
    <2>6. cur.id \notin Slotted(slot_task)
      BY <1>d, <2>3, <2>4 DEF PlaceInv
    <2>7. \A s1, s2 \in Slots :
            slot_task'[s1] = slot_task'[s2] /\ slot_task'[s1] # NoTask => s1 = s2
      BY <1>b, <1>d, <2>1, <2>2, <2>3, <2>6, TasksAssumption DEF UniqueInv, Slotted
    <2>8. PlaceInv'
      BY <1>c, <1>d, <2>3, <2>4, <2>5 DEF PlaceInv
    <2>9. QED
      BY <2>3, <2>7, <2>8 DEF UniqueInv, ReleaseInv
  <1>6. CASE ProcessReject \/ ProcessReply
    <2>1. /\ mpc = "process" /\ mpc' = "pop" /\ cur.type = "run"
          /\ queue_tasks_deferred' = queue_tasks_deferred
          /\ queue_tasks' = queue_tasks /\ slot_task' = slot_task
          /\ answered' = answered \cup {cur.id}
      BY <1>6 DEF ProcessReject, ProcessReply, Processed, Send, queueVars, slotVars
    <2>2. Hand(mpc, cur) = {cur.id} /\ Hand(mpc', cur') = {}
      BY <1>d, <2>1, MessageForms DEF Hand
    <2>3. PlaceInv'
      BY <1>c, <1>d, <2>1, <2>2 DEF PlaceInv
    <2>4. QED
      BY <2>1, <2>3 DEF UniqueInv, ReleaseInv
  <1>7. CASE ProcessCancel
    <2>1. /\ mpc = "process" /\ mpc' = "pop" /\ cur.type = "cancel"
          /\ answered' = answered
      BY <1>7 DEF ProcessCancel, Processed
    <2>2. cur.id \in Tasks /\ cur = Cancel(cur.id)
      BY <1>a, <2>1, MessageForms
    <2>3. Hand(mpc, cur) = {} /\ Hand(mpc', cur') = {}
      BY <2>1, <2>2, MessageForms DEF Hand
    <2>4. rpc[Owner[cur.id]] = "done"
      BY <2>1, <2>2 DEF PlaceInv
    <2>5. CASE \E s \in Slots : slot_task[s] = cur.id
      <3>1. PICK s \in Slots : slot_task[s] = cur.id /\ Release(s)
        BY <1>7, <2>5 DEF ProcessCancel
      <3>2. /\ UniqueInv'
            /\ Slotted(slot_task') = Slotted(slot_task) \ {cur.id}
        BY <2>2, <3>1, ReleaseMoves
      <3>3. PICK moved \in SUBSET Runs(queue_tasks_deferred) :
              /\ Runs(queue_tasks') = Runs(queue_tasks) \cup moved
              /\ Runs(queue_tasks_deferred') = Runs(queue_tasks_deferred) \ moved
              /\ Cancels(queue_tasks') = Cancels(queue_tasks)
        BY <2>2, <3>1, ReleaseMoves
      <3>4. PlaceInv'
        BY <1>c, <2>1, <2>3, <2>4, <3>2, <3>3 DEF PlaceInv
      <3>5. QED
        BY <2>1, <3>2, <3>4 DEF ReleaseInv
    <2>6. CASE ~ \E s \in Slots : slot_task[s] = cur.id
      <3>1. /\ queue_tasks' = queue_tasks /\ slot_task' = slot_task
            /\ queue_tasks_deferred' = queue_tasks_deferred
        BY <1>7, <2>6 DEF ProcessCancel, queueVars, slotVars
      <3>2. PlaceInv'
        BY <1>c, <2>1, <2>3, <3>1 DEF PlaceInv
      <3>3. QED
        BY <2>1, <3>1, <3>2 DEF UniqueInv, ReleaseInv
    <2>7. QED
      BY <2>5, <2>6
  <1>8. CASE ProcessNext
    <2>1. /\ mpc = "process" /\ mpc' = "pop" /\ cur.type = "next"
          /\ queue_tasks' = queue_tasks /\ slot_task' = slot_task
          /\ queue_tasks_deferred' = queue_tasks_deferred
          /\ answered' = answered
      BY <1>8 DEF ProcessNext, Processed, queueVars, slotVars
    <2>2. Hand(mpc, cur) = {} /\ Hand(mpc', cur') = {}
      BY <2>1, MessageForms DEF Hand
    <2>3. PlaceInv'
      BY <1>c, <2>1, <2>2 DEF PlaceInv
    <2>4. QED
      BY <2>1, <2>3 DEF UniqueInv, ReleaseInv
  <1>9. CASE UpdateBegin
    <2>1. /\ mpc = "update" /\ mpc' = "visit"
          /\ queue_tasks' = Append(queue_tasks, NextResponse)
          /\ queue_tasks_deferred' = queue_tasks_deferred
          /\ slot_task' = slot_task /\ answered' = answered
      BY <1>9 DEF UpdateBegin, slotVars
    <2>2. NextResponse \in Messages
      BY MessageFacts
    <2>3. /\ <<NextResponse>> \in Seq(Messages) /\ Runs(<<NextResponse>>) = {}
          /\ Cancels(<<NextResponse>>) = {} /\ UniqueRuns(<<NextResponse>>)
      BY <2>2, SingleRuns, MessageForms
    <2>4. queue_tasks' = queue_tasks \o <<NextResponse>>
      BY <1>a, <2>1, <2>2, AppendIsConcat
    <2>5. /\ Runs(queue_tasks') = Runs(queue_tasks)
          /\ Cancels(queue_tasks') = Cancels(queue_tasks)
          /\ UniqueRuns(queue_tasks')
      <3> DEFINE nr == <<NextResponse>>
      <3>1. UniqueRuns(queue_tasks) /\ Runs(queue_tasks) \cap Runs(nr) = {}
        BY <2>3 DEF UniqueInv
      <3>2. nr \in Seq(Messages) /\ UniqueRuns(nr)
        BY <2>3
      <3> HIDE DEF nr
      <3>3. /\ Runs(queue_tasks \o nr) = Runs(queue_tasks) \cup Runs(nr)
            /\ Cancels(queue_tasks \o nr) = Cancels(queue_tasks) \cup Cancels(nr)
            /\ UniqueRuns(queue_tasks \o nr)
        BY <1>a, <3>1, <3>2, ConcatRuns
      <3>4. QED
        BY <2>3, <2>4, <3>3 DEF nr
    <2>6. Hand(mpc, cur) = {} /\ Hand(mpc', cur') = {}
      BY <2>1 DEF Hand
    <2>7. PlaceInv'
      BY <1>c, <2>1, <2>5, <2>6 DEF PlaceInv
    <2>8. QED
      BY <2>1, <2>5, <2>7 DEF UniqueInv, ReleaseInv
  <1>10. CASE SampledStop \/ \E s \in Slots : BatchReject(s) \/ VisitError(s)
    <2>1. PICK s \in Slots, res \in {"final", "error"} :
            /\ Quit(s, res) /\ at = s /\ mpc \in {"visit", "sampled"}
            /\ slot_state[s] # "idle"
      BY <1>10 DEF SampledStop, BatchReject, VisitError, Visiting, IsIdle, TypeOK
    <2>2. QED
      BY <1>b, <2>1, QuitPlaces
  <1>11. CASE ReleaseSlot
    <2>1. /\ mpc = "release" /\ mpc' = "visit" /\ Release(at)
          /\ answered' = answered
      BY <1>11 DEF ReleaseSlot, NextSlot
    <2>2. at \in Slots /\ slot_task[at] \in Tasks /\ slot_task[at] \in answered
      BY <1>b, <2>1 DEF TypeOK, ReleaseInv
    <2>3. /\ UniqueInv'
          /\ Slotted(slot_task') = Slotted(slot_task) \ {slot_task[at]}
      BY <2>1, <2>2, ReleaseMoves
    <2>4. PICK moved \in SUBSET Runs(queue_tasks_deferred) :
            /\ Runs(queue_tasks') = Runs(queue_tasks) \cup moved
            /\ Runs(queue_tasks_deferred') = Runs(queue_tasks_deferred) \ moved
            /\ Cancels(queue_tasks') = Cancels(queue_tasks)
      BY <2>1, <2>2, ReleaseMoves
    <2>5. Hand(mpc, cur) = {} /\ Hand(mpc', cur') = {}
      BY <2>1 DEF Hand
    <2>6. PlaceInv'
      BY <1>c, <2>1, <2>2, <2>3, <2>4, <2>5 DEF PlaceInv
    <2>7. QED
      BY <2>1, <2>3, <2>6 DEF ReleaseInv
  <1>12. QED
    BY <1>1, <1>2, <1>3, <1>4, <1>5, <1>6, <1>7, <1>8, <1>9, <1>10, <1>11
       DEF MainStep

-----------------------------------------------------------------------------
(***************************************************************************)
(* Every step keeps the results in order and accounted for.                *)
(***************************************************************************)
\* A result may be sent for a task that has not been answered.
LEMMA SendKeeps ==
  ASSUME TypeOK, ResultInv, CountInv, NEW t \in Tasks, t \notin answered,
         NEW res \in Results, Send(t, res), readerVars' = readerVars
  PROVE  ResultInv' /\ CountInv'
  <1>1. /\ waiting_task_ids' = waiting_task_ids
        /\ rpc' = rpc /\ received_count' = received_count
        /\ cancelled' = cancelled
        /\ answered \subseteq answered'
        /\ res # "partial" => t \in answered'
        /\ \A u \in Tasks : u # t => queue_results'[u] = queue_results[u]
        /\ queue_results[t] \in Seq(Results)
        /\ \/ queue_results'[t] = queue_results[t]
           \/ /\ t \in waiting_task_ids
              /\ queue_results'[t] = Append(queue_results[t], res)
    BY DEF Send, readerVars, TypeOK
  <1>2. \A i \in DOMAIN queue_results[t] : queue_results[t][i] = "partial"
    BY DEF ResultInv
  <1>3. ASSUME t \in waiting_task_ids,
               queue_results'[t] = Append(queue_results[t], res)
        PROVE  \A i \in DOMAIN queue_results'[t] :
                 queue_results'[t][i] # "partial" =>
                   i = Len(queue_results'[t]) /\ t \in answered'
    <2> DEFINE q == queue_results[t]
    <2>1. /\ q \in Seq(Results) /\ Len(q) \in Nat /\ DOMAIN q = 1 .. Len(q)
      BY <1>1, LenProperties
    <2>2. /\ Len(Append(q, res)) = Len(q) + 1
          /\ DOMAIN Append(q, res) = 1 .. Len(q) + 1
          /\ \A i \in 1 .. Len(q) : Append(q, res)[i] = q[i]
          /\ Append(q, res)[Len(q) + 1] = res
      BY <2>1, AppendProperties
    <2>3. QED
      BY <1>1, <1>2, <1>3, <2>1, <2>2
  <1>4. ResultInv'
    BY <1>1, <1>3 DEF ResultInv
  <1>5. ASSUME NEW r \in Readers
        PROVE  Got(r, answered, queue_results) \subseteq
                 Got(r, answered', queue_results')
    BY <1>1 DEF Got, Ids
  <1>6. ASSUME NEW r \in Readers
        PROVE  Cardinality(Got(r, answered, queue_results)) <=
                 Cardinality(Got(r, answered', queue_results'))
    BY <1>5, GotCount, FS_Subset
  <1>7. ASSUME NEW r \in Readers, rpc[r] \in {"new", "post", "recv", "stop"}
        PROVE  received_count[r] <= Cardinality(Got(r, answered', queue_results'))
    <2>1. /\ received_count[r] <= Cardinality(Got(r, answered, queue_results))
          /\ received_count[r] \in Nat
      BY <1>7 DEF CountInv, TypeOK
    <2>2. /\ Cardinality(Got(r, answered, queue_results)) \in Nat
          /\ Cardinality(Got(r, answered', queue_results')) \in Nat
      BY GotCount
    <2>3. QED
      BY <1>6, <2>1, <2>2
  <1>8. CountInv'
    BY <1>1, <1>7 DEF CountInv
  <1>9. QED
    BY <1>4, <1>8

\* The main thread only sends for a task that has not been answered.
LEMMA ResultsMain ==
  ASSUME TypeOK, PlaceInv, ResultInv, CountInv, MainStep
  PROVE  ResultInv' /\ CountInv'
  <1>1. readerVars' = readerVars
    BY DEF MainStep, PopTask, QueueEmpty, Wait, ProcessDefer, ProcessLaunch,
           ProcessReject, ProcessReply, ProcessCancel, ProcessNext, UpdateIdle,
           UpdateBegin, Decode, BatchSlot, BatchReject, Quit, VisitSkip,
           VisitError, VisitPrompt, VisitSample, SampledContinue, SampledStop,
           ReleaseSlot, UpdateEnd
  <1>2. CASE UNCHANGED <<resultVars, answered>>
    BY <1>1, <1>2 DEF ResultInv, CountInv, resultVars, readerVars
  <1>3. CASE ProcessReject \/ ProcessReply
    <2>1. PICK res \in Results : Send(cur.id, res)
      BY <1>3 DEF ProcessReject, ProcessReply, Results
    <2>2. cur.id \in Tasks /\ cur.id \in Hand(mpc, cur)
      BY <1>3, MessageForms DEF ProcessReject, ProcessReply, Hand, TypeOK
    <2>3. cur.id \notin answered
      BY <2>2 DEF PlaceInv
    <2>4. QED
      BY <1>1, <2>1, <2>2, <2>3, SendKeeps
  <1>4. ASSUME NEW s \in Slots, NEW res \in Results, Send(slot_task[s], res),
               slot_state[s] # "idle", mpc # "release"
        PROVE  ResultInv' /\ CountInv'
    <2>1. slot_task[s] \in Tasks
      BY <1>4 DEF TypeOK
    <2>2. slot_task[s] \in Slotted(slot_task)
      BY <2>1 DEF Slotted
    <2>3. slot_task[s] \notin answered
      BY <1>4, <2>1, <2>2 DEF PlaceInv
    <2>4. QED
      BY <1>1, <1>4, <2>1, <2>3, SendKeeps
  <1>5. CASE SampledStop \/ \E s \in Slots : BatchReject(s) \/ VisitError(s)
    <2>1. PICK s \in Slots, res \in Results :
            Send(slot_task[s], res) /\ slot_state[s] # "idle" /\ mpc # "release"
      BY <1>5 DEF SampledStop, BatchReject, VisitError, Visiting, IsIdle, Quit,
                  TypeOK, Results
    <2>2. QED
      BY <1>4, <2>1
  <1>6. CASE \E s \in Slots : VisitSample(s)
    <2>1. PICK s \in Slots : VisitSample(s)
      BY <1>6
    <2>2. slot_state[s] # "idle" /\ mpc # "release"
      BY <2>1 DEF VisitSample, Visiting
    <2>3. CASE UNCHANGED <<resultVars, answered>>
      BY <1>2, <2>3
    <2>4. CASE Send(slot_task[s], "partial")
      BY <1>4, <2>2, <2>4 DEF Results
    <2>5. QED
      BY <2>1, <2>3, <2>4 DEF VisitSample
  <1>7. CASE \/ PopTask \/ QueueEmpty \/ Wait \/ ProcessDefer \/ ProcessLaunch
             \/ ProcessCancel \/ ProcessNext \/ UpdateIdle \/ UpdateBegin
             \/ Decode \/ SampledContinue \/ ReleaseSlot \/ UpdateEnd
    BY <1>2, <1>7 DEF PopTask, QueueEmpty, Wait, ProcessDefer, ProcessLaunch,
           ProcessCancel, ProcessNext, UpdateIdle, UpdateBegin, Decode,
           SampledContinue, ReleaseSlot, UpdateEnd
  <1>8. CASE \E s \in Slots : BatchSlot(s) \/ VisitSkip(s) \/ VisitPrompt(s)
    BY <1>2, <1>8 DEF BatchSlot, VisitSkip, VisitPrompt
  <1>9. QED
    BY <1>3, <1>5, <1>6, <1>7, <1>8 DEF MainStep

\* What a reader has counted stays counted as long as its tasks stay answered
\* and no result comes back.
LEMMA CountKept ==
  ASSUME TypeOK, CountInv, NEW r \in Readers, answered' = answered,
         \A u \in Readers \ {r} : /\ received_count'[u] = received_count[u]
                                  /\ cancelled'[u] = cancelled[u]
                                  /\ rpc'[u] = rpc[u],
         \A t \in Tasks : Owner[t] # r => queue_results'[t] = queue_results[t],
         received_count'[r] <= Len(Request[r]),
         cancelled'[r] => rpc'[r] \in {"stop_clear", "stop_post", "done"},
         rpc'[r] \in {"new", "post", "recv", "stop"} =>
           received_count'[r] <= Cardinality(Got(r, answered', queue_results'))
  PROVE  CountInv'
  <1>1. \A u \in Readers \ {r} :
          Got(u, answered', queue_results') = Got(u, answered, queue_results)
    BY DEF Got, Ids
  <1>2. QED
    BY <1>1 DEF CountInv

\* HTTP threads take results from the front, and stop waiting for a task only
\* when all its results are taken or are about to be erased.
LEMMA ResultsReader ==
  ASSUME TypeOK, ResultInv, CountInv,
         NEW r \in Readers, ReaderStep(r) \/ Disconnect(r)
  PROVE  ResultInv' /\ CountInv'
  <1>1. \A t \in Tasks : Owner[t] \in Readers /\ (t \in Ids(r) <=> Owner[t] = r)
    BY TaskAssumption DEF Ids
  <1>2. answered' = answered
    BY DEF ReaderStep, AddWaitingTasks, PostTasks, Recv, StopRemoveWaiting,
           StopClearResults, StopPostCancel, Disconnect
  <1>3. /\ received_count[r] \in Nat /\ received_count[r] <= Len(Request[r])
        /\ cancelled[r] => rpc[r] \in {"stop_clear", "stop_post", "done"}
        /\ Len(Request[r]) \in Nat
    BY RequestFacts DEF CountInv, TypeOK
  <1>4. CASE AddWaitingTasks(r) \/ PostTasks(r) \/ Disconnect(r)
    <2>1. /\ queue_results' = queue_results /\ received_count' = received_count
          /\ cancelled' = cancelled /\ waiting_task_ids \subseteq waiting_task_ids'
          /\ \A u \in Readers \ {r} : rpc'[u] = rpc[u]
          /\ rpc[r] \in {"new", "post", "recv"}
          /\ rpc'[r] \in {"post", "recv", "stop"}
      BY <1>4 DEF AddWaitingTasks, PostTasks, Disconnect, resultVars, TypeOK
    <2>2. ResultInv'
      BY <1>1, <1>2, <2>1 DEF ResultInv
    <2>3. received_count[r] <= Cardinality(Got(r, answered, queue_results))
      BY <2>1 DEF CountInv
    <2>4. CountInv'
      BY <1>2, <1>3, <2>1, <2>3, CountKept
    <2>5. QED
      BY <2>2, <2>4
  <1>5. CASE \E t \in Tasks : Recv(r, t)
    <2>1. PICK t \in Tasks : Recv(r, t)
      BY <1>5
    <2> DEFINE q == queue_results[t]
    <2>2. /\ rpc[r] = "recv" /\ received_count[r] < Len(Request[r])
          /\ Owner[t] = r /\ q # <<>> /\ q \in Seq(Results) /\ t \in Ids(r)
          /\ queue_results' = [queue_results EXCEPT ![t] = Tail(q)]
          /\ received_count' = [received_count EXCEPT ![r] =
                                  IF Head(q) = "final" THEN @ + 1 ELSE @]
          /\ waiting_task_ids' = waiting_task_ids /\ cancelled' = cancelled
          /\ \A u \in Readers \ {r} : rpc'[u] = rpc[u]
          /\ rpc'[r] \in {"recv", "stop"}
      BY <1>1, <2>1 DEF Recv, HasNext, TypeOK
    <2>3. /\ Len(q) \in Nat /\ DOMAIN q = 1 .. Len(q) /\ Len(q) >= 1
          /\ Head(q) = q[1] /\ 1 \in DOMAIN q
          /\ Tail(q) \in Seq(Results) /\ Len(Tail(q)) = Len(q) - 1
          /\ DOMAIN Tail(q) = 1 .. Len(q) - 1
          /\ \A i \in 1 .. Len(q) - 1 : Tail(q)[i] = q[i + 1]
      BY <2>2, HeadTailProperties, LenProperties, EmptySeq
    <2>4. \A i \in DOMAIN q : q[i] # "partial" => i = Len(q) /\ t \in answered
      BY DEF ResultInv
    <2>5. \A u \in Tasks : queue_results'[u] =
                             IF u = t THEN Tail(q) ELSE queue_results[u]
      BY <2>2 DEF TypeOK
    <2>6. \A i \in DOMAIN Tail(q) : Tail(q)[i] # "partial" =>
            i = Len(Tail(q)) /\ t \in answered
      BY <2>3, <2>4
    <2> HIDE DEF q
    <2>7. ResultInv'
      <3>1. \A u \in Tasks : queue_results'[u] # <<>> => queue_results[u] # <<>>
        BY <2>2, <2>5 DEF q
      <3>2. \A u \in Tasks : queue_results[u] # <<>> =>
              u \in waiting_task_ids' \/ rpc'[Owner[u]] = "stop_clear"
        BY <1>1, <2>2 DEF ResultInv
      <3>3. \A u \in Tasks : \A i \in DOMAIN queue_results'[u] :
              queue_results'[u][i] # "partial" =>
                i = Len(queue_results'[u]) /\ u \in answered'
        BY <1>2, <2>5, <2>6 DEF ResultInv
      <3>4. QED
        BY <3>1, <3>2, <3>3 DEF ResultInv
    <2>8. received_count'[r] <= Cardinality(Got(r, answered', queue_results'))
      <3> DEFINE G == Got(r, answered, queue_results)
                 H == Got(r, answered', queue_results')
      <3>1. /\ IsFiniteSet(G) /\ IsFiniteSet(H)
            /\ Cardinality(G) \in Nat /\ Cardinality(H) \in Nat
        BY GotCount
      <3>2. received_count[r] <= Cardinality(G)
        BY <2>2 DEF CountInv
      <3>3. G \subseteq H /\ t \notin G
        BY <1>2, <2>2, <2>5 DEF Got, q
      <3>4. CASE Head(q) = "final"
        <4>1. t \in answered /\ Len(q) = 1
          BY <2>3, <2>4, <3>4
        <4>2. Tail(q) = <<>>
          BY <2>3, <4>1, EmptySeq
        <4>3. t \in H
          BY <1>2, <2>2, <2>5, <4>1, <4>2 DEF Got
        <4>4. received_count'[r] = received_count[r] + 1
          BY <2>2, <3>4 DEF TypeOK
        <4> HIDE DEF G, H
        <4>5. /\ G \cup {t} \subseteq H
              /\ IsFiniteSet(G \cup {t})
              /\ Cardinality(G \cup {t}) = Cardinality(G) + 1
          BY <3>1, <3>3, <4>3, FS_AddElement
        <4>6. Cardinality(G \cup {t}) <= Cardinality(H)
          BY <3>1, <4>5, FS_Subset
        <4>7. received_count'[r] <= Cardinality(H)
          BY <1>3, <3>1, <3>2, <4>4, <4>5, <4>6
        <4>8. QED
          BY <4>7 DEF H
      <3>5. CASE Head(q) # "final"
        <4>1. received_count'[r] = received_count[r]
          BY <2>2, <3>5 DEF TypeOK
        <4> HIDE DEF G, H
        <4>2. Cardinality(G) <= Cardinality(H)
          BY <3>1, <3>3, FS_Subset
        <4>3. received_count'[r] <= Cardinality(H)
          BY <1>3, <3>1, <3>2, <4>1, <4>2
        <4>4. QED
          BY <4>3 DEF H
      <3>6. QED
        BY <3>4, <3>5
    <2>9. received_count'[r] <= Len(Request[r])
      BY <1>3, <2>2 DEF TypeOK
    <2>10. /\ \A u \in Readers \ {r} : /\ received_count'[u] = received_count[u]
                                      /\ cancelled'[u] = cancelled[u]
                                      /\ rpc'[u] = rpc[u]
           /\ \A u \in Tasks : Owner[u] # r => queue_results'[u] = queue_results[u]
           /\ ~ cancelled'[r]
      BY <1>3, <2>2, <2>5 DEF TypeOK
    <2>11. CountInv'
      BY <1>2, <2>8, <2>9, <2>10, CountKept
    <2>12. QED
      BY <2>7, <2>11
  <1>6. CASE StopRemoveWaiting(r)
    <2>1. /\ rpc[r] = "stop" /\ queue_results' = queue_results
          /\ received_count' = received_count
          /\ waiting_task_ids' = waiting_task_ids \ Ids(r)
          /\ \A u \in Readers \ {r} : rpc'[u] = rpc[u] /\ cancelled'[u] = cancelled[u]
          /\ rpc'[r] = IF HasNext(r) THEN "stop_clear" ELSE "done"
      BY <1>6 DEF StopRemoveWaiting, TypeOK
    <2>2. ASSUME ~ HasNext(r), NEW t \in Ids(r)
          PROVE  queue_results[t] = <<>>
      <3> DEFINE G == Got(r, answered, queue_results)
      <3>1. received_count[r] = Len(Request[r])
        BY <1>3, <2>1, <2>2 DEF HasNext
      <3>2. received_count[r] <= Cardinality(G)
        BY <2>1 DEF CountInv
      <3>3. /\ Cardinality(G) \in Nat /\ Cardinality(G) <= Len(Request[r])
            /\ Cardinality(G) = Len(Request[r]) => G = Ids(r)
        BY GotCount
      <3>4. G = Ids(r)
        BY <1>3, <3>1, <3>2, <3>3
      <3>5. QED
        BY <3>4 DEF Got
    <2>3. ResultInv'
      BY <1>1, <1>2, <2>1, <2>2 DEF ResultInv
    <2>4. CountInv'
      BY <1>2, <1>3, <2>1, CountKept
    <2>5. QED
      BY <2>3, <2>4
  <1>7. CASE StopClearResults(r)
    <2>1. /\ rpc[r] = "stop_clear" /\ received_count' = received_count
          /\ cancelled' = cancelled
          /\ waiting_task_ids' = waiting_task_ids \ Ids(r)
          /\ \A u \in Readers \ {r} : rpc'[u] = rpc[u]
          /\ rpc'[r] = "stop_post"
          /\ \A t \in Tasks : queue_results'[t] =
                                IF Owner[t] = r THEN <<>> ELSE queue_results[t]
      BY <1>7 DEF StopClearResults, TypeOK
    <2>2. ResultInv'
      BY <1>1, <1>2, <2>1 DEF ResultInv
    <2>3. CountInv'
      BY <1>2, <1>3, <2>1, CountKept
    <2>4. QED
      BY <2>2, <2>3
  <1>8. CASE StopPostCancel(r)
    <2>1. /\ rpc[r] = "stop_post" /\ received_count' = received_count
          /\ cancelled' = cancelled /\ waiting_task_ids' = waiting_task_ids
          /\ queue_results' = queue_results
          /\ \A u \in Readers \ {r} : rpc'[u] = rpc[u]
          /\ rpc'[r] = "done"
      BY <1>8 DEF StopPostCancel, resultVars, TypeOK
    <2>2. ResultInv'
      BY <1>1, <1>2, <2>1 DEF ResultInv
    <2>3. CountInv'
      BY <1>2, <1>3, <2>1, CountKept
    <2>4. QED
      BY <2>2, <2>3
  <1>9. QED
    BY <1>4, <1>5, <1>6, <1>7, <1>8 DEF ReaderStep

-----------------------------------------------------------------------------
\* The inductive invariant.
IInv == TypeOK /\ UniqueInv /\ PlaceInv /\ ReleaseInv /\ ResultInv /\ CountInv

\* The invariant is inductive.
LEMMA IInvNext == IInv /\ [Next]_vars => IInv'
  <1> SUFFICES ASSUME IInv, [Next]_vars PROVE IInv'
    OBVIOUS
  <1>1. CASE UNCHANGED vars
    <2>1. /\ UNCHANGED <<queue_tasks, queue_tasks_deferred, waiting_task_ids>>
          /\ UNCHANGED <<queue_results, rpc, received_count, cancelled>>
          /\ UNCHANGED <<mpc, cur, at, slot_task, answered>>
      BY <1>1 DEF vars, queueVars, resultVars, readerVars, slotVars, mainVars
    <2>2. TypeOK'
      BY <1>1, TypeNext DEF IInv
    <2>3. UniqueInv' /\ PlaceInv' /\ ReleaseInv' /\ ResultInv' /\ CountInv'
      BY <2>1 DEF IInv, UniqueInv, PlaceInv, ReleaseInv, ResultInv, CountInv
    <2>4. QED
      BY <2>2, <2>3 DEF IInv
  <1>2. CASE MainStep
    BY <1>2, TypeMain, PlacesMain, ResultsMain DEF IInv
  <1>3. CASE \E r \in Readers : ReaderStep(r) \/ Disconnect(r)
    BY <1>3, TypeReader, PlacesReader, ResultsReader DEF IInv
  <1>4. QED
    BY <1>1, <1>2, <1>3 DEF Next

\* It holds in every reachable state.
LEMMA IInvAlways == Spec => []IInv
  <1>1. Init => IInv
    BY TypeInit, InvInit DEF IInv
  <1>2. QED
    BY <1>1, IInvNext, PTL DEF Spec

\* A task is never in two places, and in none after its answer, but for the
\* slot that is about to be released.
THEOREM TasksAreMoved == Spec => []SinglePlace
  <1>1. IInv => SinglePlace
    <2> SUFFICES ASSUME IInv PROVE SinglePlace
      OBVIOUS
    <2>1. \A t \in Tasks :
            /\ Queued(t) <=> t \in Runs(queue_tasks)
            /\ Deferred(t) <=> t \in Runs(queue_tasks_deferred)
            /\ InHand(t) <=> t \in Hand(mpc, cur)
            /\ OnSlot(t) <=> t \in Slotted(slot_task)
      BY DEF Queued, Deferred, InHand, OnSlot, Runs, Hand, Slotted
    <2>2. \A i, j \in DOMAIN queue_tasks_deferred :
            queue_tasks_deferred[i] = queue_tasks_deferred[j] => i = j
      <3>1. \A i \in DOMAIN queue_tasks_deferred :
              queue_tasks_deferred[i] \in Deferrable
        BY QueueTypes, LenProperties, ElementOfSeq DEF IInv
      <3>2. \A m \in Deferrable : m.type = "run"
        BY DEF Deferrable
      <3>3. QED
        BY <3>1, <3>2 DEF IInv, UniqueInv, UniqueRuns
    <2>3. \A t \in Tasks :
            /\ Queued(t)   => ~Deferred(t) /\ ~InHand(t) /\ ~OnSlot(t)
            /\ Deferred(t) => ~InHand(t) /\ ~OnSlot(t)
            /\ InHand(t)   => ~OnSlot(t)
            /\ t \in answered /\ (Queued(t) \/ Deferred(t) \/ InHand(t) \/ OnSlot(t))
                 => Releasing(t)
      BY <2>1 DEF IInv, PlaceInv, Releasing
    <2>4. QED
      BY <2>2, <2>3 DEF SinglePlace, IInv, UniqueInv, UniqueRuns
  <1>2. QED
    BY <1>1, IInvAlways, PTL

\* As long as a reader waits, each of its tasks is somewhere or answered: no
\* deferral, release or cancellation of another request drops it.
THEOREM NoTaskIsLost == Spec => []NoLostTask
  <1>1. IInv => NoLostTask
    BY DEF IInv, PlaceInv, NoLostTask, Queued, Deferred, InHand, OnSlot, Runs,
           Hand, Slotted
  <1>2. QED
    BY <1>1, IInvAlways, PTL

\* Every result left in queue_results is waited for, or about to be erased.
THEOREM ResultsAreTaken == Spec => []NoOrphanResult
  <1>1. IInv => NoOrphanResult
    BY DEF IInv, ResultInv, NoOrphanResult
  <1>2. QED
    BY <1>1, IInvAlways, PTL

\* A terminal result is the last of its task, and no reader counts more final
\* results than it has tasks.
THEOREM TerminalIsLast == Spec => []TerminalResultLast
  <1>1. IInv => TerminalResultLast
    BY DEF IInv, ResultInv, CountInv, TerminalResultLast
  <1>2. QED
    BY <1>1, IInvAlways, PTL

-----------------------------------------------------------------------------
(***************************************************************************)
(* No idle slot while completions are deferred.  A task is deferred when   *)
(* no slot is vacant, and each release moves one back: the vacant slots    *)
(* never outnumber the tasks that are on their way to one.                 *)
(***************************************************************************)
\* Completions that name no slot, without errors, and clients that stay.
CompletionsAssumption ==
  /\ BadTasks = {} /\ Impatient = {} /\ ~DecodeFails
  /\ \A t \in Tasks : Kind[t] = "infer" /\ WantSlot[t] = AnySlot

\* No reader waits for, or has got, an error, and none gives up: a reader stops when
\* it has all its results.
NoErrors(results) ==
  \A t \in Tasks : \A i \in DOMAIN results[t] : results[t][i] # "error"
ReadersCalm ==
  \A r \in Readers : /\ rpc[r] \notin {"stop_clear", "stop_post"}
                     /\ rpc[r] = "stop" => received_count[r] = Len(Request[r])

\* Nothing is cancelled, rejected or fails.
CalmInv ==
  /\ ~failed /\ cur.type # "cancel" /\ Cancels(queue_tasks) = {}
  /\ NoErrors(queue_results) /\ ReadersCalm

\* Slots without a task.
Vacant(st) == {s \in Slots : st[s] = NoTask}

\* The tasks on their way to a slot.
Pending == Runs(queue_tasks) \cup Hand(mpc, cur)

\* There is one for each vacant slot, as long as tasks are deferred.
RoomInv ==
  queue_tasks_deferred # <<>> =>
    Cardinality(Vacant(slot_task)) <= Cardinality(Pending)

\* The inductive invariant.
ConservingInv == IInv /\ CalmInv /\ RoomInv

\* Few slots are vacant, one less when a task gets one, one more when it leaves.
LEMMA VacantCount ==
  ASSUME NEW st \in [Slots -> Tasks \cup {NoTask}]
  PROVE  /\ Cardinality(Vacant(st)) \in Nat
         /\ Vacant(st) = {} <=> Cardinality(Vacant(st)) = 0
         /\ \A s \in Slots, t \in Tasks : st[s] = NoTask =>
              Cardinality(Vacant([st EXCEPT ![s] = t])) = Cardinality(Vacant(st)) - 1
         /\ \A s \in Slots : st[s] # NoTask =>
              Cardinality(Vacant([st EXCEPT ![s] = NoTask])) = Cardinality(Vacant(st)) + 1
  <1>1. IsFiniteSet(Slots)
    BY NSlotsAssumption, FS_Interval DEF Slots
  <1>2. IsFiniteSet(Vacant(st))
    BY <1>1, FS_Subset DEF Vacant
  <1>3. Cardinality(Vacant(st)) \in Nat /\ (Vacant(st) = {} <=> Cardinality(Vacant(st)) = 0)
    BY <1>2, FS_CardinalityType, FS_EmptySet
  <1>4. ASSUME NEW s \in Slots, NEW t \in Tasks, st[s] = NoTask
        PROVE  Cardinality(Vacant([st EXCEPT ![s] = t])) = Cardinality(Vacant(st)) - 1
    <2>1. Vacant([st EXCEPT ![s] = t]) = Vacant(st) \ {s}
      BY <1>4, TasksAssumption DEF Vacant
    <2>2. s \in Vacant(st)
      BY <1>4 DEF Vacant
    <2>3. QED
      BY <1>2, <2>1, <2>2, FS_RemoveElement
  <1>5. ASSUME NEW s \in Slots, st[s] # NoTask
        PROVE  Cardinality(Vacant([st EXCEPT ![s] = NoTask])) = Cardinality(Vacant(st)) + 1
    <2>1. Vacant([st EXCEPT ![s] = NoTask]) = Vacant(st) \cup {s}
      BY <1>5 DEF Vacant
    <2>2. s \notin Vacant(st)
      BY <1>5 DEF Vacant
    <2>3. QED
      BY <1>2, <2>1, <2>2, FS_AddElement
  <1>6. QED
    BY <1>3, <1>4, <1>5

\* Under the assumption the main thread rejects no task, fails no decode, and handles
\* only completions.
LEMMA CalmSteps ==
  ASSUME CompletionsAssumption, TypeOK, CalmInv, MainStep
  PROVE  /\ ~ ProcessReject /\ ~ ProcessReply /\ ~ ProcessCancel
         /\ \A s \in Slots : ~ BatchReject(s) /\ ~ VisitError(s)
  <1>1. cur.type = "run" => cur.id \in Tasks
    BY MessageForms DEF TypeOK
  <1>2. ~ ProcessReject
    BY DEF CompletionsAssumption, ProcessReject
  <1>3. ~ ProcessReply
    <2>1. ASSUME ProcessReply PROVE FALSE
      <3>1. cur.id \in Tasks /\ Kind[cur.id] \in {"slot_op", "metrics"}
        BY <1>1, <2>1 DEF ProcessReply
      <3>2. QED
        BY <3>1 DEF CompletionsAssumption
    <2>2. QED
      BY <2>1
  <1>4. ~ ProcessCancel
    BY DEF CalmInv, ProcessCancel
  <1>5. \A s \in Slots : ~ BatchReject(s)
    BY DEF CompletionsAssumption, BatchReject
  <1>6. \A s \in Slots : ~ VisitError(s)
    BY DEF CalmInv, VisitError
  <1>7. QED
    BY <1>2, <1>3, <1>4, <1>5, <1>6

\* Nothing that is sent is an error.
LEMMA CalmSend ==
  ASSUME TypeOK, NEW t \in Tasks, NEW res \in {"partial", "final"}, Send(t, res),
         NoErrors(queue_results)
  PROVE  NoErrors(queue_results')
  <1>1. queue_results \in [Tasks -> Seq(Results)]
    BY DEF TypeOK
  <1>2. CASE queue_results' = queue_results
    BY <1>2
  <1>3. CASE queue_results' = [queue_results EXCEPT ![t] = Append(@, res)]
    <2> DEFINE q == queue_results[t]
    <2>1. q \in Seq(Results) /\ queue_results'[t] = Append(q, res)
      BY <1>1, <1>3
    <2>2. \A i \in DOMAIN q : q[i] # "error"
      BY DEF NoErrors
    <2> HIDE DEF q
    <2>3. \A i \in DOMAIN Append(q, res) : Append(q, res)[i] # "error"
      <3>1. /\ Len(q) \in Nat /\ DOMAIN q = 1 .. Len(q)
            /\ DOMAIN Append(q, res) = 1 .. Len(q) + 1
            /\ \A i \in 1 .. Len(q) : Append(q, res)[i] = q[i]
            /\ Append(q, res)[Len(q) + 1] = res
        BY <2>1 DEF Results
      <3>2. \A i \in 1 .. Len(q) + 1 : i \in 1 .. Len(q) \/ i = Len(q) + 1
        BY <3>1
      <3>3. QED
        BY <2>2, <3>1, <3>2
    <2>4. \A u \in Tasks : u # t => queue_results'[u] = queue_results[u]
      BY <1>1, <1>3
    <2>5. QED
      BY <2>1, <2>3, <2>4 DEF NoErrors
  <1>4. QED
    BY <1>2, <1>3 DEF Send

\* The main thread cancels nothing and sends no error.
LEMMA CalmMain ==
  ASSUME CompletionsAssumption, IInv, CalmInv, MainStep
  PROVE  CalmInv'
  <1>0. TypeOK /\ UniqueInv /\ PlaceInv /\ ReleaseInv
    BY DEF IInv
  <1>1. /\ ~ ProcessReject /\ ~ ProcessReply /\ ~ ProcessCancel
        /\ \A s \in Slots : ~ BatchReject(s) /\ ~ VisitError(s)
    BY <1>0, CalmSteps
  <1>2. rpc' = rpc /\ received_count' = received_count
    BY DEF MainStep, PopTask, QueueEmpty, Wait, ProcessDefer, ProcessLaunch,
           ProcessReject, ProcessReply, ProcessCancel, ProcessNext, UpdateIdle,
           UpdateBegin, Decode, BatchSlot, BatchReject, Quit, VisitSkip,
           VisitError, VisitPrompt, VisitSample, SampledContinue, SampledStop,
           ReleaseSlot, UpdateEnd, readerVars
  <1>3. ~ failed'
    BY <1>1 DEF MainStep, PopTask, QueueEmpty, Wait, ProcessDefer, ProcessLaunch,
           ProcessNext, Processed, UpdateIdle, UpdateBegin, Decode, BatchSlot,
           NextSlot, Quit, VisitSkip, VisitPrompt, VisitSample, SampledContinue,
           SampledStop, ReleaseSlot, UpdateEnd, CalmInv, CompletionsAssumption
  <1>4. /\ queue_tasks \in Seq(Messages) /\ queue_tasks_deferred \in Seq(Messages)
        /\ UniqueRuns(queue_tasks) /\ Cancels(queue_tasks) = {}
    BY <1>0, QueueTypes DEF UniqueInv, CalmInv
  <1>5. CASE PopTask
    <2>1. /\ queue_tasks # <<>> /\ cur' = Head(queue_tasks)
          /\ queue_tasks' = Tail(queue_tasks) /\ queue_results' = queue_results
      BY <1>5 DEF PopTask, resultVars
    <2>2. /\ cur' \in Messages /\ Cancels(queue_tasks') = {}
          /\ \A t \in Tasks : cur' # Cancel(t)
      BY <1>4, <2>1, TailRuns
    <2>3. cur'.type # "cancel"
      BY <2>2, MessageForms
    <2>4. QED
      BY <1>2, <1>3, <2>1, <2>2, <2>3 DEF CalmInv, ReadersCalm
  <1>6. cur' = cur \/ cur' = NextResponse \/ PopTask
    BY <1>1 DEF MainStep, QueueEmpty, Wait, ProcessDefer, ProcessLaunch,
           ProcessNext, Processed, UpdateIdle, UpdateBegin, Decode, BatchSlot,
           NextSlot, Quit, VisitSkip, VisitPrompt, VisitSample, SampledContinue,
           SampledStop, ReleaseSlot, UpdateEnd
  <1>7. CASE ~ PopTask
    <2>1. cur'.type # "cancel"
      BY <1>6, <1>7, MessageForms DEF CalmInv
    <2>2. Cancels(queue_tasks') = {}
      <3>1. CASE UpdateBegin
        <4>1. NextResponse \in Messages
          BY MessageFacts
        <4> DEFINE d == <<NextResponse>>
        <4>2. d \in Seq(Messages) /\ Cancels(d) = {}
          BY <4>1, SingleRuns, MessageForms
        <4>3. queue_tasks' = queue_tasks \o d
          BY <1>4, <3>1, <4>1, AppendIsConcat DEF UpdateBegin
        <4> HIDE DEF d
        <4>4. QED
          BY <1>4, <4>2, <4>3, ConcatRuns
      <3>2. CASE ReleaseSlot
        <4>1. Runs(queue_tasks) \cap Runs(queue_tasks_deferred) = {}
          BY <1>0 DEF PlaceInv, Runs
        <4>2. Cancels(queue_tasks') = Cancels(queue_tasks)
          BY <1>0, <3>2, <4>1, PopDeferredMoves DEF ReleaseSlot, Release
        <4>3. QED
          BY <1>4, <4>2
      <3>3. CASE ~ UpdateBegin /\ ~ ReleaseSlot
        <4>1. queue_tasks' = queue_tasks
          BY <1>1, <1>7, <3>3 DEF MainStep, QueueEmpty, Wait, ProcessDefer, Defer,
               ProcessLaunch, ProcessNext, UpdateIdle, Decode, BatchSlot, Quit,
               VisitSkip, VisitPrompt, VisitSample, SampledContinue, SampledStop,
               UpdateEnd, queueVars
        <4>2. QED
          BY <1>4, <4>1
      <3>4. QED
        BY <3>1, <3>2, <3>3
    <2>3. NoErrors(queue_results')
      <3>1. NoErrors(queue_results)
        BY DEF CalmInv
      <3>2. \/ queue_results' = queue_results
            \/ \E t \in Tasks, res \in {"partial", "final"} : Send(t, res)
        <4>1. CASE SampledStop
          <5>1. slot_task[at] \in Tasks /\ Send(slot_task[at], "final")
            BY <1>0, <4>1 DEF SampledStop, Quit, TypeOK
          <5>2. QED
            BY <5>1
        <4>2. CASE \E s \in Slots : VisitSample(s)
          <5>1. PICK s \in Slots : VisitSample(s)
            BY <4>2
          <5>2. slot_task[s] \in Tasks
            BY <1>0, <5>1 DEF VisitSample, TypeOK
          <5>3. QED
            BY <5>1, <5>2 DEF VisitSample, resultVars
        <4>3. CASE \/ PopTask \/ QueueEmpty \/ Wait \/ ProcessDefer \/ ProcessLaunch
                   \/ ProcessNext \/ UpdateIdle \/ UpdateBegin \/ Decode
                   \/ SampledContinue \/ ReleaseSlot \/ UpdateEnd
          BY <4>3 DEF PopTask, QueueEmpty, Wait, ProcessDefer, ProcessLaunch,
               ProcessNext, UpdateIdle, UpdateBegin, Decode, SampledContinue,
               ReleaseSlot, UpdateEnd, resultVars
        <4>4. CASE \E s \in Slots : BatchSlot(s) \/ VisitSkip(s) \/ VisitPrompt(s)
          BY <4>4 DEF BatchSlot, VisitSkip, VisitPrompt, resultVars
        <4>5. QED
          BY <1>1, <4>1, <4>2, <4>3, <4>4 DEF MainStep
      <3>3. QED
        BY <1>0, <3>1, <3>2, CalmSend
    <2>4. QED
      BY <1>2, <1>3, <2>1, <2>2, <2>3 DEF CalmInv, ReadersCalm
  <1>8. QED
    BY <1>5, <1>7

\* A reader gives up on nothing: it stops when it has all its results.
LEMMA CalmReader ==
  ASSUME CompletionsAssumption, IInv, CalmInv,
         NEW r \in Readers, ReaderStep(r) \/ Disconnect(r)
  PROVE  /\ CalmInv'
         /\ ~ StopClearResults(r) /\ ~ StopPostCancel(r) /\ ~ Disconnect(r)
  <1>0. TypeOK /\ queue_tasks \in Seq(Messages) /\ Cancels(queue_tasks) = {}
    BY QueueTypes DEF IInv, CalmInv
  <1>a. ReadersCalm /\ NoErrors(queue_results)
    BY DEF CalmInv
  <1>1. ~ StopClearResults(r) /\ ~ StopPostCancel(r) /\ ~ Disconnect(r)
    <2>1. rpc[r] \notin {"stop_clear", "stop_post"}
      BY <1>a DEF ReadersCalm
    <2>2. Impatient = {}
      BY DEF CompletionsAssumption
    <2>3. QED
      BY <2>1, <2>2 DEF StopClearResults, StopPostCancel, Disconnect
  <1>2. ~ failed' /\ cur' = cur
    BY <1>1 DEF ReaderStep, AddWaitingTasks, PostTasks, Recv, StopRemoveWaiting,
                mainVars, CalmInv
  <1>3. Cancels(queue_tasks') = {}
    <2>1. CASE PostTasks(r)
      <3> DEFINE ms == [i \in DOMAIN Request[r] |-> Run(Request[r][i])]
      <3>1. /\ Len(Request[r]) \in Nat /\ DOMAIN Request[r] = 1 .. Len(Request[r])
            /\ \A i \in 1 .. Len(Request[r]) : Request[r][i] \in Tasks
        BY RequestFacts
      <3>2. \A i \in 1 .. Len(Request[r]) : Run(Request[r][i]) \in Messages
        BY <3>1, MessageFacts
      <3>3. ms \in Seq(Messages)
        BY <3>1, <3>2, IsASeq
      <3>4. /\ DOMAIN ms = 1 .. Len(Request[r])
            /\ \A i \in 1 .. Len(Request[r]) : ms[i] = Run(Request[r][i])
        BY <3>1
      <3>5. queue_tasks' = ms \o queue_tasks \/ queue_tasks' = queue_tasks \o ms
        BY <2>1 DEF PostTasks
      <3> HIDE DEF ms
      <3>6. Cancels(ms) = {}
        BY <3>1, <3>4, MessageForms DEF Cancels
      <3>7. QED
        BY <1>0, <3>3, <3>5, <3>6, ConcatRuns
    <2>2. CASE ~ PostTasks(r)
      BY <1>0, <1>1, <2>2
         DEF ReaderStep, AddWaitingTasks, Recv, StopRemoveWaiting, queueVars
    <2>3. QED
      BY <2>1, <2>2
  <1>4. CASE AddWaitingTasks(r) \/ PostTasks(r)
    <2>1. queue_results' = queue_results /\ received_count' = received_count
          /\ \A u \in Readers : rpc'[u] # rpc[u] => rpc'[u] \in {"post", "recv"}
      BY <1>0, <1>4 DEF AddWaitingTasks, PostTasks, resultVars, TypeOK
    <2>2. ReadersCalm'
      BY <1>a, <2>1 DEF ReadersCalm
    <2>3. QED
      BY <1>1, <1>2, <1>3, <1>a, <2>1, <2>2 DEF CalmInv
  <1>5. CASE StopRemoveWaiting(r)
    <2>1. queue_results' = queue_results /\ received_count' = received_count
          /\ rpc[r] = "stop"
          /\ rpc' = [rpc EXCEPT ![r] = IF HasNext(r) THEN "stop_clear" ELSE "done"]
      BY <1>5 DEF StopRemoveWaiting
    <2>2. received_count[r] = Len(Request[r]) /\ Len(Request[r]) \in Nat
      BY <1>a, <2>1, RequestFacts DEF ReadersCalm
    <2>3. ~ HasNext(r)
      BY <2>2 DEF HasNext
    <2>4. \A u \in Readers : rpc'[u] # rpc[u] => rpc'[u] = "done"
      BY <1>0, <2>1, <2>3 DEF TypeOK
    <2>5. ReadersCalm'
      BY <1>a, <2>1, <2>4 DEF ReadersCalm
    <2>6. QED
      BY <1>1, <1>2, <1>3, <1>a, <2>1, <2>5 DEF CalmInv
  <1>6. CASE \E t \in Tasks : Recv(r, t)
    <2>1. PICK t \in Tasks : Recv(r, t)
      BY <1>6
    <2> DEFINE q == queue_results[t]
    <2>2. /\ q # <<>> /\ q \in Seq(Results) /\ rpc[r] = "recv"
          /\ queue_results' = [queue_results EXCEPT ![t] = Tail(q)]
          /\ received_count' = [received_count EXCEPT ![r] =
                                  IF Head(q) = "final" THEN @ + 1 ELSE @]
          /\ rpc' = [rpc EXCEPT ![r] =
                IF Head(q) = "error" \/ received_count'[r] = Len(Request[r])
                THEN "stop" ELSE @]
      BY <1>0, <2>1 DEF Recv, TypeOK
    <2>3. queue_results \in [Tasks -> Seq(Results)]
      BY <1>0 DEF TypeOK
    <2>4. \A i \in DOMAIN q : q[i] # "error"
      BY <1>a DEF NoErrors
    <2> HIDE DEF q
    <2>5. /\ Head(q) = q[1] /\ 1 \in DOMAIN q
          /\ \A i \in DOMAIN Tail(q) : i + 1 \in DOMAIN q /\ Tail(q)[i] = q[i + 1]
      <3>1. /\ Len(q) \in Nat /\ DOMAIN q = 1 .. Len(q) /\ Len(q) # 0
        BY <2>2, LenProperties, EmptySeq
      <3>2. /\ Head(q) = q[1] /\ DOMAIN Tail(q) = 1 .. Len(q) - 1
            /\ \A i \in 1 .. Len(q) - 1 : Tail(q)[i] = q[i + 1]
        BY <2>2, HeadTailProperties, LenProperties
      <3>3. QED
        BY <3>1, <3>2
    <2>6. NoErrors(queue_results')
      <3>1. \A i \in DOMAIN Tail(q) : Tail(q)[i] # "error"
        BY <2>4, <2>5
      <3>2. queue_results'[t] = Tail(q)
            /\ \A u \in Tasks : u # t => queue_results'[u] = queue_results[u]
        BY <2>2, <2>3
      <3>3. QED
        BY <1>a, <3>1, <3>2 DEF NoErrors
    <2>7. \A u \in Readers :
            /\ u # r => rpc'[u] = rpc[u] /\ received_count'[u] = received_count[u]
            /\ u = r => \/ rpc'[u] = "recv"
                        \/ /\ rpc'[u] = "stop"
                           /\ received_count'[u] = Len(Request[u])
      <3>1. Head(q) # "error"
        BY <2>4, <2>5
      <3>2. rpc \in [Readers -> {"new", "post", "recv", "stop", "stop_clear",
                                 "stop_post", "done"}]
            /\ received_count \in [Readers -> Nat]
        BY <1>0 DEF TypeOK
      <3>3. QED
        BY <2>2, <3>1, <3>2
    <2>8. ReadersCalm'
      BY <1>a, <2>7 DEF ReadersCalm
    <2>9. QED
      BY <1>1, <1>2, <1>3, <2>6, <2>8 DEF CalmInv
  <1>7. QED
    BY <1>1, <1>4, <1>5, <1>6 DEF ReaderStep

\* Finitely many tasks are on their way; one more, one less.
LEMMA PendingCount ==
  ASSUME NEW S \in SUBSET Tasks
  PROVE  /\ IsFiniteSet(S) /\ Cardinality(S) \in Nat
         /\ \A T \in SUBSET S : Cardinality(T) <= Cardinality(S)
         /\ \A t \in S : Cardinality(S \ {t}) = Cardinality(S) - 1
         /\ \A t \in Tasks \ S : Cardinality(S \cup {t}) = Cardinality(S) + 1
  <1>1. IsFiniteSet(S)
    BY TasksAssumption, FS_Subset
  <1>2. QED
    BY <1>1, FS_CardinalityType, FS_Subset, FS_RemoveElement, FS_AddElement

\* The first task is taken in hand: it stays on its way.
LEMMA RoomPop ==
  ASSUME IInv, RoomInv, PopTask
  PROVE  RoomInv'
  <1>1. /\ mpc = "pop" /\ mpc' = "process" /\ queue_tasks # <<>>
        /\ cur' = Head(queue_tasks) /\ queue_tasks' = Tail(queue_tasks)
        /\ queue_tasks_deferred' = queue_tasks_deferred /\ slot_task' = slot_task
    BY DEF PopTask, slotVars
  <1>2. queue_tasks \in Seq(Messages) /\ UniqueRuns(queue_tasks)
    BY QueueTypes DEF IInv, UniqueInv
  <1>3. /\ Runs(queue_tasks') = {t \in Runs(queue_tasks) : cur' # Run(t)}
        /\ \A t \in Tasks : cur' = Run(t) => t \in Runs(queue_tasks)
    BY <1>1, <1>2, TailRuns
  <1>4. Hand(mpc, cur) = {} /\ Hand(mpc', cur') = {t \in Tasks : cur' = Run(t)}
    BY <1>1 DEF Hand
  <1>5. Pending' = Pending
    BY <1>3, <1>4 DEF Pending, Runs
  <1>6. QED
    BY <1>1, <1>5 DEF RoomInv

\* A task that names no slot is deferred only when none is vacant.
LEMMA RoomDefer ==
  ASSUME CompletionsAssumption, IInv, ProcessDefer
  PROVE  RoomInv'
  <1>1. cur.id \in Tasks /\ Candidates(cur.id) = {} /\ slot_task' = slot_task
    BY MessageForms DEF IInv, TypeOK, ProcessDefer, MustWait, slotVars
  <1>2. Vacant(slot_task) = {}
    BY <1>1 DEF IInv, TypeOK, CompletionsAssumption, Candidates, IsIdle, Vacant
  <1>3. Cardinality(Vacant(slot_task')) = 0
    BY <1>1, <1>2, VacantCount DEF IInv, TypeOK
  <1>4. Pending' \in SUBSET Tasks
    BY DEF Pending, Runs, Hand
  <1>5. QED
    BY <1>3, <1>4, PendingCount DEF RoomInv

\* The task in hand takes one of the vacant slots.
LEMMA RoomLaunch ==
  ASSUME IInv, RoomInv, ProcessLaunch
  PROVE  RoomInv'
  <1> DEFINE t == cur.id
  <1>1. /\ mpc = "process" /\ mpc' = "pop" /\ cur = Run(t) /\ t \in Tasks
        /\ queue_tasks' = queue_tasks /\ queue_tasks_deferred' = queue_tasks_deferred
    BY MessageForms DEF ProcessLaunch, Processed, queueVars, IInv, TypeOK
  <1>2. PICK s \in Slots : slot_task[s] = NoTask /\ slot_task' = [slot_task EXCEPT ![s] = t]
    BY DEF ProcessLaunch, Candidates, IsIdle, IInv, TypeOK
  <1> HIDE DEF t
  <1>3. slot_task \in [Slots -> Tasks \cup {NoTask}]
    BY DEF IInv, TypeOK
  <1>4. /\ Cardinality(Vacant(slot_task')) = Cardinality(Vacant(slot_task)) - 1
        /\ Cardinality(Vacant(slot_task)) \in Nat
    BY <1>1, <1>2, <1>3, VacantCount
  <1>5. Hand(mpc, cur) = {t} /\ Hand(mpc', cur') = {} /\ t \notin Runs(queue_tasks)
    BY <1>1, MessageForms DEF Hand, IInv, PlaceInv
  <1>6. Pending' = Pending \ {t} /\ t \in Pending /\ Pending \in SUBSET Tasks
    BY <1>1, <1>5 DEF Pending, Runs
  <1>7. Cardinality(Pending') = Cardinality(Pending) - 1 /\ Cardinality(Pending) \in Nat
    BY <1>6, PendingCount
  <1>8. QED
    BY <1>1, <1>4, <1>7 DEF RoomInv

\* A slot is released, and the first deferred task is on its way to it.
LEMMA RoomRelease ==
  ASSUME IInv, RoomInv, ReleaseSlot
  PROVE  RoomInv'
  <1>1. /\ mpc = "release" /\ mpc' = "visit" /\ at \in Slots
        /\ slot_task[at] # NoTask /\ slot_task' = [slot_task EXCEPT ![at] = NoTask]
        /\ slot_task \in [Slots -> Tasks \cup {NoTask}]
        /\ PopDeferred
    BY DEF ReleaseSlot, Release, NextSlot, IInv, TypeOK
  <1>2. SUFFICES ASSUME queue_tasks_deferred' # <<>>
                 PROVE  Cardinality(Vacant(slot_task')) <= Cardinality(Pending')
    BY DEF RoomInv
  <1>3. queue_tasks_deferred # <<>>
    BY <1>1, <1>2 DEF PopDeferred, queueVars
  <1> DEFINE m == Head(queue_tasks_deferred)
  <1>4. queue_tasks' = <<m>> \o queue_tasks
    BY <1>1, <1>3 DEF PopDeferred
  <1>5. /\ queue_tasks \in Seq(Messages) /\ queue_tasks_deferred \in Seq(Messages)
        /\ queue_tasks_deferred \in Seq(Deferrable) /\ UniqueRuns(queue_tasks_deferred)
    BY QueueTypes DEF IInv, UniqueInv
  <1>6. m \in Deferrable /\ m \in Messages
    BY <1>3, <1>5, HeadTailProperties, MessageFacts
  <1>7. \A t \in Tasks : m = Run(t) => t \in Runs(queue_tasks_deferred)
    BY <1>3, <1>5, TailRuns
  <1> HIDE DEF m
  <1>8. m.type = "run" /\ m.id \in Tasks /\ m = Run(m.id)
    BY <1>6, MessageForms DEF Deferrable
  <1>9. /\ <<m>> \in Seq(Messages) /\ Runs(<<m>>) = {m.id}
        /\ Runs(queue_tasks') = Runs(<<m>>) \cup Runs(queue_tasks)
    <2>1. <<m>> \in Seq(Messages) /\ Runs(<<m>>) = {t \in Tasks : m = Run(t)}
      BY <1>6, SingleRuns
    <2>2. \A t \in Tasks : m = Run(t) <=> t = m.id
      BY <1>8, MessageForms
    <2>3. Runs(<<m>>) = {m.id}
      BY <1>8, <2>1, <2>2
    <2>4. QED
      BY <1>4, <1>5, <2>1, <2>3, ConcatRuns
  <1>10. Hand(mpc, cur) = {} /\ Hand(mpc', cur') = {}
    BY <1>1 DEF Hand
  <1>11. m.id \notin Runs(queue_tasks)
    BY <1>7, <1>8 DEF IInv, PlaceInv
  <1>12. Pending' = Pending \cup {m.id} /\ m.id \in Tasks \ Pending /\ Pending \in SUBSET Tasks
    BY <1>8, <1>9, <1>10, <1>11 DEF Pending, Runs
  <1>13. /\ Cardinality(Pending') = Cardinality(Pending) + 1
         /\ Cardinality(Pending) \in Nat
    BY <1>12, PendingCount
  <1>14. /\ Cardinality(Vacant(slot_task')) = Cardinality(Vacant(slot_task)) + 1
         /\ Cardinality(Vacant(slot_task)) \in Nat
    BY <1>1, VacantCount
  <1>15. QED
    BY <1>3, <1>13, <1>14 DEF RoomInv

\* A step that moves no task from the queues or to a slot, and may post some.
LEMMA RoomQuiet ==
  ASSUME RoomInv, queue_tasks_deferred' = queue_tasks_deferred, slot_task' = slot_task,
         Runs(queue_tasks) \subseteq Runs(queue_tasks'),
         Hand(mpc, cur) \subseteq Hand(mpc', cur')
  PROVE  RoomInv'
  <1>1. Pending \subseteq Pending' /\ Pending' \in SUBSET Tasks /\ Pending \in SUBSET Tasks
    BY DEF Pending, Runs, Hand
  <1>2. /\ Cardinality(Pending) <= Cardinality(Pending')
        /\ Cardinality(Pending) \in Nat /\ Cardinality(Pending') \in Nat
    BY <1>1, PendingCount
  <1>3. IsFiniteSet(Vacant(slot_task)) /\ Cardinality(Vacant(slot_task)) \in Nat
    <2>1. IsFiniteSet(Slots)
      BY NSlotsAssumption, FS_Interval DEF Slots
    <2>2. IsFiniteSet(Vacant(slot_task))
      BY <2>1, FS_Subset DEF Vacant
    <2>3. QED
      BY <2>2, FS_CardinalityType
  <1>4. QED
    BY <1>2, <1>3 DEF RoomInv

\* The main thread.
LEMMA RoomMain ==
  ASSUME CompletionsAssumption, IInv, CalmInv, RoomInv, MainStep
  PROVE  RoomInv'
  <1>1. /\ ~ ProcessReject /\ ~ ProcessReply /\ ~ ProcessCancel
        /\ \A s \in Slots : ~ BatchReject(s) /\ ~ VisitError(s)
    BY CalmSteps DEF IInv
  <1>2. CASE UpdateBegin
    <2>1. /\ queue_tasks \in Seq(Messages) /\ NextResponse \in Messages
          /\ queue_tasks' = queue_tasks \o <<NextResponse>>
      BY <1>2, QueueTypes, MessageFacts, AppendIsConcat DEF UpdateBegin, IInv
    <2>2. <<NextResponse>> \in Seq(Messages)
      BY <2>1, SingleRuns
    <2>3. Runs(queue_tasks) \subseteq Runs(queue_tasks')
      BY <2>1, <2>2, ConcatRuns
    <2>4. Hand(mpc, cur) = {}
      BY <1>2 DEF UpdateBegin, Hand
    <2>5. QED
      BY <1>2, <2>3, <2>4, RoomQuiet DEF UpdateBegin, slotVars
  <1>3. CASE \/ QueueEmpty \/ Wait \/ ProcessNext \/ UpdateIdle \/ Decode
             \/ SampledContinue \/ SampledStop \/ UpdateEnd
             \/ \E s \in Slots : \/ BatchSlot(s) \/ VisitSkip(s)
                                 \/ VisitPrompt(s) \/ VisitSample(s)
    <2>1. /\ queue_tasks' = queue_tasks /\ queue_tasks_deferred' = queue_tasks_deferred
          /\ slot_task' = slot_task
      BY <1>3 DEF QueueEmpty, Wait, ProcessNext, UpdateIdle, Decode, SampledContinue,
           SampledStop, UpdateEnd, BatchSlot, VisitSkip, VisitPrompt, VisitSample, Quit,
           queueVars, slotVars
    <2>2. mpc # "process" \/ cur.type = "next"
      BY <1>3 DEF QueueEmpty, Wait, ProcessNext, UpdateIdle, Decode, SampledContinue,
           SampledStop, UpdateEnd, BatchSlot, VisitSkip, VisitPrompt, VisitSample,
           Visiting
    <2>3. Hand(mpc, cur) = {}
      BY <2>2, MessageForms DEF Hand
    <2>4. QED
      BY <2>1, <2>3, RoomQuiet
  <1>4. QED
    BY <1>1, <1>2, <1>3, RoomPop, RoomDefer, RoomLaunch, RoomRelease DEF MainStep

\* HTTP threads: what they post is on its way.
LEMMA RoomReader ==
  ASSUME CompletionsAssumption, IInv, CalmInv, RoomInv,
         NEW r \in Readers, ReaderStep(r) \/ Disconnect(r)
  PROVE  RoomInv'
  <1>1. ~ StopClearResults(r) /\ ~ StopPostCancel(r) /\ ~ Disconnect(r)
    BY CalmReader
  <1>2. CASE PostTasks(r)
    <2> DEFINE ms == [i \in DOMAIN Request[r] |-> Run(Request[r][i])]
    <2>1. /\ Len(Request[r]) \in Nat /\ DOMAIN Request[r] = 1 .. Len(Request[r])
          /\ \A i \in 1 .. Len(Request[r]) : Request[r][i] \in Tasks
      BY RequestFacts
    <2>2. \A i \in 1 .. Len(Request[r]) : Run(Request[r][i]) \in Messages
      BY <2>1, MessageFacts
    <2>3. ms \in Seq(Messages)
      BY <2>1, <2>2, IsASeq
    <2>4. queue_tasks' = ms \o queue_tasks \/ queue_tasks' = queue_tasks \o ms
      BY <1>2 DEF PostTasks
    <2>5. queue_tasks \in Seq(Messages)
      BY QueueTypes DEF IInv
    <2> HIDE DEF ms
    <2>6. Runs(queue_tasks) \subseteq Runs(queue_tasks')
      BY <2>3, <2>4, <2>5, ConcatRuns
    <2>7. QED
      BY <1>2, <2>6, RoomQuiet DEF PostTasks, slotVars, mainVars
  <1>3. CASE AddWaitingTasks(r) \/ StopRemoveWaiting(r) \/ \E t \in Tasks : Recv(r, t)
    BY <1>3, RoomQuiet DEF AddWaitingTasks, StopRemoveWaiting, Recv, queueVars, slotVars,
         mainVars
  <1>4. QED
    BY <1>1, <1>2, <1>3 DEF ReaderStep

\* The invariant holds at the start and is inductive.
LEMMA ConservingInit ==
  ASSUME Init
  PROVE  ConservingInv
  <1>1. IInv
    BY TypeInit, InvInit DEF IInv
  <1>2. Cancels(<<>>) = {}
    BY DEF Cancels
  <1>3. CalmInv
    BY <1>2 DEF Init, CalmInv, NoErrors, ReadersCalm, NextResponse
  <1>4. QED
    BY <1>1, <1>3 DEF ConservingInv, RoomInv, Init

LEMMA ConservingNext ==
  ASSUME CompletionsAssumption, ConservingInv, [Next]_vars
  PROVE  ConservingInv'
  <1>1. IInv'
    BY IInvNext DEF ConservingInv
  <1>2. CASE MainStep
    BY <1>1, <1>2, CalmMain, RoomMain DEF ConservingInv
  <1>3. CASE \E r \in Readers : ReaderStep(r) \/ Disconnect(r)
    BY <1>1, <1>3, CalmReader, RoomReader DEF ConservingInv
  <1>4. CASE UNCHANGED vars
    <2>1. /\ UNCHANGED <<queue_tasks, queue_tasks_deferred, queue_results, rpc>>
          /\ UNCHANGED <<received_count, mpc, cur, failed, slot_task>>
      BY <1>4 DEF vars, queueVars, resultVars, readerVars, slotVars, mainVars
    <2>2. CalmInv' /\ RoomInv'
      BY <2>1 DEF ConservingInv, CalmInv, NoErrors, ReadersCalm, RoomInv, Pending
    <2>3. QED
      BY <1>1, <2>2 DEF ConservingInv
  <1>5. QED
    BY <1>2, <1>3, <1>4 DEF Next

\* While completions are deferred, a task is on its way to every idle slot.
THEOREM SlotsAreUsed ==
  ASSUME CompletionsAssumption
  PROVE  Spec => []WorkConserving
  <1>1. Init => ConservingInv
    BY ConservingInit
  <1>2. ConservingInv /\ [Next]_vars => ConservingInv'
    BY ConservingNext
  <1>3. ConservingInv => WorkConserving
    <2> SUFFICES ASSUME ConservingInv PROVE WorkConserving
      OBVIOUS
    <2>1. {s \in Slots : IsIdle(s)} = Vacant(slot_task)
      BY DEF ConservingInv, IInv, TypeOK, IsIdle, Vacant
    <2>2. {t \in Tasks : Queued(t) \/ InHand(t)} = Pending
      BY DEF Pending, Runs, Hand, Queued, InHand
    <2>3. QED
      BY <2>1, <2>2 DEF ConservingInv, RoomInv, WorkConserving
  <1>4. QED
    BY <1>1, <1>2, <1>3, PTL DEF Spec

=============================================================================
