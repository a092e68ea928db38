--------------------------- MODULE MCServerQueue ---------------------------
(***************************************************************************)
(* Instances of ServerQueue for TLC.  Each cfg chooses one of the request  *)
(* mixes below.                                                            *)
(***************************************************************************)
EXTENDS ServerQueue, TLC

CONSTANTS r1, r2, r3, a, b, c, d

Const(x) == [t \in Tasks |-> x]

\* r1: a completion with n_cmpl = 2 (a and its child b); r2: a completion on
\* slot 0; r3: /metrics.
MixReaders == {r1, r2, r3}
MixTasks   == {a, b, c, d}
MixRequest == r1 :> <<b, a>> @@ r2 :> <<c>> @@ r3 :> <<d>>
MixOwner   == a :> r1 @@ b :> r1 @@ c :> r2 @@ d :> r3
MixKind    == [Const("infer") EXCEPT ![d] = "metrics"]
MixWant    == [Const(AnySlot) EXCEPT ![c] = 0]
MixParent  == [Const(NoTask) EXCEPT ![b] = a]

\* The same without /metrics: r3 asks for a plain completion.
PairKind   == Const("infer")
PairWant   == Const(AnySlot)

\* The same, where r2 saves the prompt of slot 0.
SaveKind   == [Const("infer") EXCEPT ![c] = "slot_op"]

-----------------------------------------------------------------------------
\* A child waits while its parent's prompt is processed, as the comments of
\* slot_state and of launch_slot_with_task say.
ChildWaits ==
  \A s1, s2 \in Slots :
    /\ slot_task[s1] # NoTask /\ Parent[slot_task[s1]] # NoTask
    /\ slot_task[s2] = Parent[slot_task[s1]] /\ slot_state[s2] = "prompt"
    => slot_state[s1] = "wait_other"

\* A deferred task waits only until a slot is available, as server-queue.h
\* says of defer(): it does not stay deferred with all slots idle.
DeferredUntilSlot ==
  \A t \in Tasks : (Deferred(t) /\ AllIdle) ~> ~(Deferred(t) /\ AllIdle)
=============================================================================
