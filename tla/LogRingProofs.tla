--------------------------- MODULE LogRingProofs ---------------------------
(***************************************************************************)
(* The log is the queue of LogFifo for every capacity, number of messages  *)
(* and number of files, also when a pause overruns the ring: then nothing  *)
(* is written any more, but nothing is written wrongly either.             *)
(***************************************************************************)
EXTENDS LogRing, SequenceTheorems, TLAPS

\* The pending entry number i, counted from 0.
Cell(i) == entries[(head + i) % size]

\* Where the worker and the controller can be together.
Phase ==
  /\ running => ctl = "idle" /\ wpc \notin {"none", "done"}
  /\ ~running => (ctl = "join" <=> wpc # "none")
  /\ wpc \in {"none", "done"} => head = tail

\* The end entry is the last one, and there only while the worker has to stop.
EndLast == \A i \in 0 .. Held - 1 : Cell(i).is_end <=> EndQueued /\ i = Held - 1

\* The inductive invariant.
IInv == TypeOK /\ Phase /\ EndLast

(***************************************************************************)
(* Arithmetic of the ring.                                                 *)
(***************************************************************************)

\* An index past the end of the array wraps once.
LEMMA RingPlace ==
  ASSUME NEW s \in Nat, s > 0, NEW h \in 0 .. s - 1, NEW i \in 0 .. s
  PROVE  (h + i) % s = IF h + i < s THEN h + i ELSE h + i - s
  <1>1. CASE h + i < s BY <1>1, SMT
  <1>2. CASE h + i >= s BY <1>2, SMT
  <1> QED BY <1>1, <1>2, SMT

\* The number of entries between two indices.
LEMMA RingCount ==
  ASSUME NEW s \in Nat, s > 0, NEW h \in 0 .. s - 1, NEW t \in 0 .. s - 1
  PROVE  (t - h + s) % s = IF t >= h THEN t - h ELSE t - h + s
  <1>1. CASE t >= h
    <2>1. (t - h + s) \in Nat /\ t - h + s >= s /\ t - h + s < 2 * s BY <1>1, SMT
    <2>2. (t - h + s) % s = t - h + s - s BY <2>1, SMT
    <2> QED BY <1>1, <2>2, SMT
  <1>2. CASE t < h
    <2>1. (t - h + s) \in Nat /\ t - h + s < s BY <1>2, SMT
    <2> QED BY <1>2, <2>1, SMT
  <1> QED BY <1>1, <1>2, SMT

\* Equal indices are an empty ring.
LEMMA RingEmpty ==
  ASSUME NEW s \in Nat, s > 0, NEW h \in 0 .. s - 1, NEW t \in 0 .. s - 1
  PROVE  ((t - h + s) % s = 0) <=> (h = t)
  BY RingCount, SMT

\* The next index.
LEMMA RingNext ==
  ASSUME NEW s \in Nat, s > 1, NEW i \in 0 .. s - 1
  PROVE  (i + 1) % s = IF i = s - 1 THEN 0 ELSE i + 1
  BY RingPlace, SMT

\* The pending entries are counted by Pending, and tail is the place after them.
LEMMA PendingCounts ==
  ASSUME TypeOK
  PROVE  /\ Pending \in 0 .. size - 1
         /\ Pending = IF tail >= head THEN tail - head ELSE tail - head + size
         /\ (Pending = 0) <=> (head = tail)
         /\ (head + Pending) % size = tail
         /\ \A i \in 0 .. size - 1 : (head + i) % size \in 0 .. size - 1
         /\ \A i \in 0 .. size - 1 : (head + i) % size = tail <=> i = Pending
  <1>1. size \in Nat /\ size > 1 /\ head \in 0 .. size - 1 /\ tail \in 0 .. size - 1
    BY DEF TypeOK
  <1>2. Pending = IF tail >= head THEN tail - head ELSE tail - head + size
    BY <1>1, RingCount DEF Pending
  <1>3. Pending \in 0 .. size - 1 BY <1>1, <1>2, SMT
  <1>4. \A i \in 0 .. size - 1 : (head + i) % size = IF head + i < size THEN head + i ELSE head + i - size
    BY <1>1, RingPlace
  <1>5. \A i \in 0 .. size - 1 : (head + i) % size \in 0 .. size - 1
    BY <1>1, <1>4, SMT
  <1>6. \A i \in 0 .. size - 1 : (head + i) % size = tail <=> i = Pending
    BY <1>1, <1>2, <1>4, SMT
  <1> QED BY <1>1, <1>2, <1>3, <1>5, <1>6, SMT

\* The entries held are the pending ones but in a ring that was overrun.
LEMMA HeldCounts ==
  ASSUME TypeOK
  PROVE  /\ Held \in 0 .. size
         /\ EndQueued => Held > 0
         /\ ~EndQueued \/ head # tail => Held = Pending
  <1>1. /\ size \in Nat /\ size > 1
        /\ Pending \in 0 .. size - 1 /\ ((Pending = 0) <=> (head = tail))
    BY PendingCounts DEF TypeOK
  <1>2. CASE Overrun BY <1>1, <1>2, SMT DEF Held, Overrun
  <1>3. CASE ~Overrun BY <1>1, <1>3, SMT DEF Held, Overrun
  <1> QED BY <1>2, <1>3

(***************************************************************************)
(* What each step does to the pending entries.                             *)
(***************************************************************************)

\* add() keeps the types.
LEMMA AddTypes ==
  ASSUME TypeOK, Add
  PROVE  TypeOK'
  <1>1. size \in Nat /\ size > 1 /\ head \in 0 .. size - 1 /\ tail \in 0 .. size - 1
    BY DEF TypeOK
  <1>2. sent' \in 0 .. MaxSent /\ sent' \in Nat /\ sent' = sent + 1
    BY LogAssumption DEF TypeOK, Add
  <1>3. wpc' \in Worker BY DEF TypeOK, Add, Notify, Worker
  <1> DEFINE e == [entries EXCEPT ![tail] = [msg |-> sent', is_end |-> FALSE]]
  <1>4. e \in [0 .. size - 1 -> Entry] BY <1>1, <1>2 DEF TypeOK, Entry
  <1>5. After(tail) \in 0 .. size - 1 BY <1>1, RingNext DEF After
  <1>6. (size' \in Nat \ {0, 1} /\ entries' \in [0 .. size' - 1 -> Entry] /\ head' \in 0 .. size' - 1 /\ tail' \in 0 .. size' - 1)
    <2>1. CASE After(tail) # head
      <3>1. size' = size /\ head' = head /\ entries' = e /\ tail' = After(tail) BY <2>1 DEF Add
      <3> QED BY <3>1, <1>1, <1>4, <1>5, SMT
    <2>2. CASE After(tail) = head
      <3>1. size' = 2 * size /\ head' = 0 /\ entries' = Unrolled(e) /\ tail' = size BY <2>2 DEF Add
      <3>2. \A i \in 0 .. size - 1 : (head + i) % size \in 0 .. size - 1 BY PendingCounts
      <3>3. Unrolled(e) \in [0 .. 2 * size - 1 -> Entry]
        <4> HIDE DEF e
        <4>1. \A i \in 0 .. 2 * size - 1 : i < size => e[(head + i) % size] \in Entry
          BY <1>1, <1>4, <3>2, SMT
        <4>2. Blank \in Entry BY DEF Blank, Entry
        <4> QED BY <4>1, <4>2 DEF Unrolled
      <3>4. size' \in Nat \ {0, 1} /\ 0 \in 0 .. size' - 1 /\ size \in 0 .. size' - 1
        BY <3>1, <1>1, SMT
      <3>5. entries' \in [0 .. size' - 1 -> Entry] BY <3>1, <3>3
      <3> QED BY <3>1, <3>4, <3>5
    <2> QED BY <2>1, <2>2
  <1> QED BY <1>2, <1>3, <1>6 DEF TypeOK, Add

\* add() puts one entry after the pending ones, in a ring that grows as well.
LEMMA AddPending ==
  ASSUME TypeOK, Add
  PROVE  /\ Pending' = Pending + 1
         /\ \A i \in 0 .. Pending :
              Cell(i)' = IF i = Pending THEN [msg |-> sent', is_end |-> FALSE] ELSE Cell(i)
  <1>1. size \in Nat /\ size > 1 /\ head \in 0 .. size - 1 /\ tail \in 0 .. size - 1
    BY DEF TypeOK
  <1> DEFINE e == [entries EXCEPT ![tail] = [msg |-> sent', is_end |-> FALSE]]
  <1>2. Pending \in 0 .. size - 1 /\ (head + Pending) % size = tail
        /\ \A i \in 0 .. size - 1 : (head + i) % size \in 0 .. size - 1 /\ ((head + i) % size = tail <=> i = Pending)
    BY PendingCounts
  <1>3. \A i \in 0 .. Pending - 1 : e[(head + i) % size] = entries[(head + i) % size]
    <2>1. \A k \in 0 .. size - 1 : k # tail => e[k] = entries[k] BY DEF TypeOK
    <2>2. \A i \in 0 .. Pending - 1 : i \in 0 .. size - 1 /\ i # Pending BY <1>1, <1>2
    <2>3. \A i \in 0 .. Pending - 1 : (head + i) % size \in 0 .. size - 1 /\ (head + i) % size # tail
      BY <1>2, <2>2
    <2> HIDE DEF e
    <2> QED BY <2>1, <2>3
  <1>4. e[(head + Pending) % size] = [msg |-> sent', is_end |-> FALSE]
    BY <1>1, <1>2 DEF TypeOK
  <1> HIDE DEF e
  <1>5. After(tail) = IF tail = size - 1 THEN 0 ELSE tail + 1 BY <1>1, RingNext DEF After
  <1>6. Pending = IF tail >= head THEN tail - head ELSE tail - head + size BY PendingCounts
  <1>7. Pending' = IF tail' >= head' THEN tail' - head' ELSE tail' - head' + size'
    <2>1. TypeOK' BY AddTypes
    <2>2. size' \in Nat \ {0, 1} /\ head' \in 0 .. size' - 1 /\ tail' \in 0 .. size' - 1
      BY <2>1 DEF TypeOK
    <2>3. size' \in Nat /\ size' > 0 BY <2>2, SMT
    <2> QED BY <2>2, <2>3, RingCount DEF Pending
  <1>10. \A i \in 0 .. Pending :
           e[(head + i) % size] = IF i = Pending THEN [msg |-> sent', is_end |-> FALSE] ELSE Cell(i)
    <2> TAKE i \in 0 .. Pending
    <2>1. CASE i = Pending BY <2>1, <1>4
    <2>2. CASE i # Pending
      <3>1. i \in 0 .. Pending - 1 BY <2>2, <1>1, <1>2, SMT
      <3> QED BY <3>1, <2>2, <1>3 DEF Cell
    <2> QED BY <2>1, <2>2
  <1>8. CASE After(tail) # head
    <2>1. size' = size /\ head' = head /\ entries' = e /\ tail' = After(tail) BY <1>8 DEF Add, e
    <2>2. Pending' = Pending + 1 BY <2>1, <1>1, <1>5, <1>6, <1>7, <1>8, SMT
    <2>3. \A i \in 0 .. size - 1 : Cell(i)' = e[(head + i) % size] BY <2>1 DEF Cell
    <2>4. \A i \in 0 .. Pending : i \in 0 .. size - 1 BY <1>1, <1>2, SMT
    <2> QED BY <2>2, <2>3, <2>4, <1>10
  <1>9. CASE After(tail) = head
    <2>1. size' = 2 * size /\ head' = 0 /\ entries' = Unrolled(e) /\ tail' = size BY <1>9 DEF Add, e
    <2>2. Pending = size - 1 /\ Pending' = size BY <2>1, <1>1, <1>5, <1>6, <1>7, <1>9, SMT
    <2>3. \A i \in 0 .. size - 1 : (0 + i) % (2 * size) = i BY <1>1, RingPlace, SMT
    <2>4. \A i \in 0 .. size - 1 : Unrolled(e)[i] = e[(head + i) % size]
      BY <1>1, SMT DEF Unrolled
    <2>5. \A i \in 0 .. size - 1 : Cell(i)' = e[(head + i) % size]
      BY <2>1, <2>3, <2>4 DEF Cell
    <2>6. \A i \in 0 .. Pending : i \in 0 .. size - 1 BY <1>1, <1>2, SMT
    <2>7. Pending' = Pending + 1 BY <1>1, <2>2, SMT
    <2> QED BY <2>5, <2>6, <2>7, <1>10
  <1> QED BY <1>8, <1>9

\* The worker takes the first of the pending entries.
LEMMA TakePending ==
  ASSUME TypeOK, Take, head # tail
  PROVE  /\ Pending' = Pending - 1
         /\ \A i \in 0 .. Pending - 2 : Cell(i)' = Cell(i + 1)
         /\ cur' = Cell(0)
         /\ head' \in 0 .. size - 1
  <1>1. size \in Nat /\ size > 1 /\ head \in 0 .. size - 1 /\ tail \in 0 .. size - 1
    BY DEF TypeOK
  <1>2. Pending = (IF tail >= head THEN tail - head ELSE tail - head + size) /\ Pending \in 0 .. size - 1
    BY PendingCounts
  <1>3. head' = IF head = size - 1 THEN 0 ELSE head + 1
    BY <1>1, RingNext DEF Take, After
  <1>4. size' = size /\ tail' = tail /\ entries' = entries BY DEF Take
  <1>5. head' \in 0 .. size - 1 BY <1>1, <1>3, SMT
  <1>6. Pending' = IF tail >= head' THEN tail - head' ELSE tail - head' + size
    BY <1>1, <1>4, <1>5, RingCount DEF Pending
  <1>7. Pending' = Pending - 1 BY <1>1, <1>2, <1>3, <1>6, SMT
  <1>8. \A i \in 0 .. Pending - 2 : (head' + i) % size = (head + (i + 1)) % size
    <2> TAKE i \in 0 .. Pending - 2
    <2>1. i \in 0 .. size /\ i + 1 \in 0 .. size BY <1>1, <1>2, SMT
    <2>2. (head' + i) % size = IF head' + i < size THEN head' + i ELSE head' + i - size
      <3>1. size \in Nat /\ size > 0 BY <1>1, SMT
      <3> QED BY <3>1, <1>5, <2>1, RingPlace
    <2>3. (head + (i + 1)) % size = IF head + (i + 1) < size THEN head + (i + 1) ELSE head + (i + 1) - size
      BY <1>1, <2>1, RingPlace
    <2>4. CASE head = size - 1
      <3>1. head' = 0 /\ head' + i < size BY <1>1, <1>2, <1>3, <2>1, <2>4, SMT
      <3>2. ~(head + (i + 1) < size) /\ head + (i + 1) - size = head' + i
        BY <1>1, <1>3, <2>1, <2>4, SMT
      <3> QED BY <3>1, <3>2, <2>2, <2>3
    <2>5. CASE head # size - 1
      <3>1. head' + i = head + (i + 1) BY <1>1, <1>3, <2>1, <2>5, SMT
      <3> QED BY <3>1
    <2> QED BY <2>4, <2>5
  <1>9. cur' = entries[head] /\ (head + 0) % size = head
    BY <1>1, RingPlace, SMT DEF Take
  <1> QED BY <1>4, <1>5, <1>7, <1>8, <1>9 DEF Cell

\* pause() puts an end entry after the pending ones, and the ring may look empty.
LEMMA PausePending ==
  ASSUME TypeOK, NEW next, Pause(next), EndQueued'
  PROVE  /\ Held' = Pending + 1
         /\ tail' \in 0 .. size - 1
         /\ \A i \in 0 .. Pending - 1 : Cell(i)' = Cell(i)
         /\ \A i \in {Pending} : Cell(i)'.is_end = TRUE
  <1>1. size \in Nat /\ size > 1 /\ head \in 0 .. size - 1 /\ tail \in 0 .. size - 1
    BY DEF TypeOK
  <1>2. Pending \in 0 .. size - 1 /\ (head + Pending) % size = tail
        /\ \A i \in 0 .. size - 1 : (head + i) % size \in 0 .. size - 1 /\ ((head + i) % size = tail <=> i = Pending)
        /\ Pending = IF tail >= head THEN tail - head ELSE tail - head + size
    BY PendingCounts
  <1>4. size' = size /\ head' = head /\ entries' = [entries EXCEPT ![tail].is_end = TRUE]
        /\ tail' = IF tail = size - 1 THEN 0 ELSE tail + 1
    BY <1>1, RingNext DEF Pause, After
  <1>5. tail' \in 0 .. size - 1 BY <1>1, <1>4, SMT
  <1>6. Pending' = IF tail' >= head THEN tail' - head ELSE tail' - head + size
    <2>1. size \in Nat /\ size > 0 /\ size' = size /\ head' = head BY <1>1, <1>4, SMT
    <2>2. (tail' - head + size) % size = IF tail' >= head THEN tail' - head ELSE tail' - head + size
      BY <2>1, <1>1, <1>5, RingCount
    <2> QED BY <2>1, <2>2 DEF Pending
  <1>7. Held' = Pending + 1
    <2>1. Held' = IF head' = tail' THEN size' ELSE Pending' BY DEF Held, Overrun
    <2>2. CASE Pending < size - 1
      <3>1. Pending' = Pending + 1 /\ tail' # head BY <1>1, <1>2, <1>4, <1>6, <2>2, SMT
      <3> QED BY <1>4, <2>1, <3>1
    <2>3. CASE Pending = size - 1
      <3>1. tail' = head BY <1>1, <1>2, <1>4, <2>3, SMT
      <3> QED BY <1>1, <1>4, <2>1, <2>3, <3>1, SMT
    <2> QED BY <1>1, <1>2, <2>2, <2>3, SMT
  <1>8. \A i \in 0 .. size - 1 : i # tail => entries'[i] = entries[i] BY <1>4 DEF TypeOK
  <1>9. entries'[tail].is_end = TRUE BY <1>1, <1>4 DEF TypeOK, Entry
  <1>10. \A i \in 0 .. Pending - 1 : Cell(i)' = Cell(i)
    BY <1>1, <1>2, <1>4, <1>8, SMT DEF Cell
  <1>11. \A i \in {Pending} : Cell(i)'.is_end = TRUE
    <2> TAKE i \in {Pending}
    <2>1. Cell(i)' = entries'[(head + i) % size] BY <1>4 DEF Cell
    <2> QED BY <2>1, <1>2, <1>9
  <1> QED BY <1>5, <1>7, <1>9, <1>10, <1>11

(***************************************************************************)
(* The invariant.                                                          *)
(***************************************************************************)

\* A step that leaves the ring alone leaves the pending entries alone.
LEMMA RingKept ==
  ASSUME UNCHANGED ring
  PROVE  Pending' = Pending /\ \A i : Cell(i)' = Cell(i)
  BY DEF ring, Pending, Cell

\* So does a step that also leaves the end entry queued or not.
LEMMA HeldKept ==
  ASSUME UNCHANGED ring, EndQueued' <=> EndQueued
  PROVE  Held' = Held
  BY RingKept DEF Held, Overrun, ring

\* What the worker takes is the end entry only if that is the last one left, and
\* the ring it takes from has not been overrun.
LEMMA TakeHeld ==
  ASSUME IInv, Take, head # tail
  PROVE  /\ Pending \in 0 .. size - 1 /\ Pending > 0
         /\ Held = Pending /\ Held' = Pending'
         /\ cur'.is_end <=> EndQueued /\ Pending = 1
         /\ wpc' = IF cur'.is_end THEN "done" ELSE "print"
         /\ EndQueued' <=> EndQueued /\ ~cur'.is_end
  <1>1. size \in Nat /\ size > 0 /\ tail \in 0 .. size - 1 /\ UNCHANGED <<size, tail, running>>
    BY SMT DEF IInv, TypeOK, Take
  <1>2. Pending \in 0 .. size - 1 /\ Pending > 0
    BY <1>1, PendingCounts, SMT DEF IInv
  <1>3. Held = Pending
    BY HeldCounts DEF IInv
  <1>4. Pending' = Pending - 1 /\ cur' = Cell(0) /\ head' \in 0 .. size - 1
    BY TakePending DEF IInv
  <1>5. cur'.is_end <=> EndQueued /\ Pending = 1
    <2>1. 0 \in 0 .. Held - 1 /\ (0 = Held - 1 <=> Pending = 1) BY <1>1, <1>2, <1>3, SMT
    <2>2. Cell(0).is_end <=> EndQueued /\ 0 = Held - 1 BY <2>1 DEF IInv, EndLast
    <2> QED BY <1>4, <2>1, <2>2
  <1>6. wpc' = IF cur'.is_end THEN "done" ELSE "print"
    BY DEF Take
  <1>7. EndQueued' <=> EndQueued /\ ~cur'.is_end
    BY <1>1, <1>6 DEF EndQueued, Take
  <1>8. (Pending' = 0) <=> (head' = tail')
    BY <1>1, <1>4, RingEmpty DEF Pending
  <1>9. Held' = Pending'
    <2>1. EndQueued' => Pending' # 0 BY <1>1, <1>2, <1>4, <1>5, <1>7, SMT
    <2> QED BY <1>8, <2>1 DEF Held, Overrun
  <1> QED BY <1>2, <1>3, <1>5, <1>6, <1>7, <1>9

LEMMA InitInv == Init => IInv
  <1> SUFFICES ASSUME Init PROVE IInv OBVIOUS
  <1>1. size = Capacity /\ Capacity \in Nat \ {0, 1} /\ head = 0 /\ tail = 0
    BY LogAssumption DEF Init
  <1>2. entries \in [0 .. size - 1 -> Entry] /\ cur \in Entry
    BY DEF Init, Blank, Entry
  <1>3. 0 \in 0 .. size - 1 /\ 0 \in 0 .. MaxFiles /\ 0 \in 0 .. MaxSent /\ 0 \in 0 .. 0
    BY <1>1, LogAssumption, SMT
  <1>4. wpc \in Worker /\ ctl \in Jobs \cup {"join", "freed"} /\ after \in Jobs
    BY DEF Init, Worker, Jobs
  <1>5. written \in Seq(Nat \X Nat) /\ running \in BOOLEAN BY DEF Init
  <1>6. TypeOK BY <1>1, <1>2, <1>3, <1>4, <1>5 DEF TypeOK, Init
  <1>7. Held = 0
    <2>1. Pending = 0 /\ ~EndQueued BY <1>1, <1>6, PendingCounts DEF Init, EndQueued
    <2> QED BY <1>6, <2>1, HeldCounts
  <1>8. Phase BY <1>1 DEF Phase, Init, EndQueued
  <1>9. EndLast BY <1>7, SMT DEF EndLast
  <1> QED BY <1>6, <1>8, <1>9 DEF IInv

\* add() keeps the invariant.
LEMMA AddInv ==
  ASSUME IInv, Add
  PROVE  IInv'
  <1>1. TypeOK' BY AddTypes DEF IInv
  <1>2. running /\ running' = running /\ ctl' = ctl BY DEF Add
  <1>3. wpc \notin {"none", "done"} /\ wpc' \notin {"none", "done"} /\ ctl = "idle"
    BY <1>2 DEF IInv, Phase, Add, Notify
  <1>4. Phase' BY <1>2, <1>3 DEF Phase, EndQueued
  <1>5. Pending \in Nat BY PendingCounts, SMT DEF IInv
  <1>6. EndLast'
    <2>0. Held = Pending /\ Held' = Pending'
      BY <1>2 DEF Held, Overrun, EndQueued
    <2> SUFFICES ASSUME NEW i \in (0 .. Pending - 1)' PROVE Cell(i)'.is_end = FALSE
      BY <1>2, <2>0 DEF EndLast, EndQueued
    <2>1. Pending' = Pending + 1 BY AddPending DEF IInv
    <2>2. i \in 0 .. Pending /\ (i = Pending \/ i \in 0 .. Pending - 1) BY <1>5, <2>1, SMT
    <2>3. Cell(i)' = IF i = Pending THEN [msg |-> sent', is_end |-> FALSE] ELSE Cell(i)
      BY <2>2, AddPending DEF IInv
    <2>4. CASE i = Pending BY <2>3, <2>4
    <2>5. CASE i # Pending
      <3>1. i \in 0 .. Pending - 1 /\ Cell(i)' = Cell(i) BY <2>2, <2>3, <2>5
      <3>2. (Cell(i).is_end <=> EndQueued /\ i = Pending - 1) /\ ~EndQueued
        BY <3>1, <1>2, <2>0 DEF IInv, EndLast, EndQueued
      <3>3. i \in 0 .. size - 1 BY <3>1, PendingCounts, SMT DEF IInv, TypeOK
      <3>4. Cell(i) \in Entry BY <3>3, PendingCounts DEF IInv, TypeOK, Cell
      <3> QED BY <3>1, <3>2, <3>4 DEF Entry
    <2> QED BY <2>4, <2>5
  <1> QED BY <1>1, <1>4, <1>6 DEF IInv

\* The worker's critical section keeps the invariant.
LEMMA TakeInv ==
  ASSUME IInv, Take
  PROVE  IInv'
  <1>1. wpc = "test" /\ running' = running /\ ctl' = ctl BY DEF Take
  <1>2. CASE head = tail
    <2>1. wpc' = "wait" /\ cur' = cur /\ UNCHANGED ring BY <1>2 DEF Take, ring
    <2>2. TypeOK' BY <2>1 DEF IInv, TypeOK, Take, ring, Worker
    <2>3. Pending' = Pending /\ \A i : Cell(i)' = Cell(i) BY <2>1, RingKept
    <2>4. EndQueued' <=> EndQueued BY <1>1, <2>1 DEF EndQueued
    <2>5. Phase' BY <1>1, <2>1, <2>3, <2>4 DEF IInv, Phase, ring
    <2>6. EndLast' BY <2>1, <2>3, <2>4, HeldKept DEF IInv, EndLast
    <2> QED BY <2>2, <2>5, <2>6 DEF IInv
  <1>3. CASE head # tail
    <2>1. /\ Pending' = Pending - 1
          /\ \A i \in 0 .. Pending - 2 : Cell(i)' = Cell(i + 1)
          /\ cur' = Cell(0)
          /\ head' \in 0 .. size - 1
      BY <1>3, TakePending DEF IInv
    <2>2. Pending \in 0 .. size - 1 /\ Pending # 0 /\ size \in Nat BY <1>3, PendingCounts DEF IInv, TypeOK
    <2>3. Pending \in Nat /\ Pending > 0 /\ 0 \in 0 .. size - 1 BY <2>2, SMT
    <2>4. cur' \in Entry BY <2>1, <2>3, PendingCounts DEF IInv, TypeOK, Cell
    <2>5. wpc' = IF cur'.is_end THEN "done" ELSE "print" BY <1>3 DEF Take
    <2>6. TypeOK'
      <3>1. UNCHANGED <<size, entries, tail, running, ctl, after, file, opened, sent, written>> BY DEF Take
      <3>2. wpc' \in Worker BY <2>5 DEF Worker
      <3> QED BY <3>1, <3>2, <2>1, <2>4 DEF IInv, TypeOK
    <2>7. 0 \in 0 .. Pending - 1 BY <2>3, SMT
    <2>8. (cur'.is_end <=> EndQueued /\ Pending = 1) /\ Held = Pending /\ Held' = Pending'
      BY <1>3, TakeHeld
    <2>9. EndQueued' <=> EndQueued /\ ~cur'.is_end BY <1>1, <2>5 DEF EndQueued
    <2>10. (Pending' = 0) <=> (head' = tail')
      <3>1. size' \in Nat \ {0, 1} /\ head' \in 0 .. size' - 1 /\ tail' \in 0 .. size' - 1
        BY <2>6 DEF TypeOK
      <3>2. size' \in Nat /\ size' > 0 BY <3>1, SMT
      <3> QED BY <3>1, <3>2, RingEmpty DEF Pending
    <2>11. Phase'
      <3>1. running => ~EndQueued /\ ctl = "idle" BY DEF EndQueued, IInv, Phase
      <3>2. ~running => ctl = "join" BY <1>1 DEF IInv, Phase
      <3>3. wpc' \in {"none", "done"} => Pending = 1 /\ ~running BY <2>5, <2>8 DEF EndQueued
      <3>4. Pending = 1 => head' = tail' BY <2>1, <2>10, SMT
      <3>6. wpc' # "none" BY <2>5
      <3> QED BY <1>1, <3>1, <3>2, <3>3, <3>4, <3>6 DEF Phase
    <2>12. EndLast'
      <3> SUFFICES ASSUME NEW i \in (0 .. Pending - 1)'
                   PROVE  Cell(i)'.is_end <=> EndQueued' /\ i = Pending' - 1
        BY <2>8 DEF EndLast
      <3>1. i \in 0 .. Pending - 2 /\ i + 1 \in 0 .. Pending - 1 /\ (i = Pending' - 1 <=> i + 1 = Pending - 1)
        BY <2>1, <2>3, SMT
      <3>2. Cell(i)' = Cell(i + 1) BY <2>1, <3>1
      <3>3. Cell(i + 1).is_end <=> EndQueued /\ i + 1 = Pending - 1 BY <2>8, <3>1 DEF IInv, EndLast
      <3>4. EndQueued /\ i + 1 = Pending - 1 => ~cur'.is_end BY <2>3, <2>8, <3>1, SMT
      <3> QED BY <2>9, <3>1, <3>2, <3>3, <3>4
    <2> QED BY <2>6, <2>11, <2>12 DEF IInv
  <1> QED BY <1>2, <1>3

\* pause() keeps the invariant.
LEMMA PauseInv ==
  ASSUME IInv, NEW next \in Jobs, Pause(next)
  PROVE  IInv'
  <1>1. running /\ running' = FALSE /\ ctl = "idle" /\ ctl' = "join" /\ after' = next BY DEF Pause
  <1>2. wpc \notin {"none", "done"} /\ wpc' \notin {"none", "done"} /\ wpc' \in Worker
    BY <1>1 DEF IInv, Phase, TypeOK, Pause, Notify, Worker
  <1>6. EndQueued' BY <1>1, <1>2 DEF EndQueued
  <1>3. /\ Held' = Pending + 1
        /\ tail' \in 0 .. size - 1
        /\ \A i \in 0 .. Pending - 1 : Cell(i)' = Cell(i)
        /\ \A i \in {Pending} : Cell(i)'.is_end = TRUE
    BY <1>6, PausePending DEF IInv
  <1>4. Pending \in 0 .. size - 1 /\ size \in Nat BY PendingCounts DEF IInv, TypeOK
  <1>5. TypeOK'
    <2>1. UNCHANGED <<size, head, cur, file, opened, sent, written>> BY DEF Pause
    <2>2. entries' \in [0 .. size - 1 -> Entry]
      BY DEF Pause, IInv, TypeOK, Entry
    <2> QED BY <2>1, <2>2, <1>1, <1>2, <1>3 DEF IInv, TypeOK
  <1>7. Held = Pending BY <1>1 DEF Held, Overrun, EndQueued
  <1>8. Phase' BY <1>1, <1>2 DEF Phase
  <1>9. EndLast'
    <2> SUFFICES ASSUME NEW i \in (0 .. Held - 1)' PROVE Cell(i)'.is_end <=> i = Held' - 1
      BY <1>6 DEF EndLast
    <2>1. i = Pending \/ i \in 0 .. Pending - 1 BY <1>3, <1>4, SMT
    <2>2. Held' - 1 = Pending BY <1>3, <1>4, SMT
    <2>3. CASE i = Pending BY <2>2, <2>3, <1>3
    <2>4. CASE i \in 0 .. Pending - 1
      <3>1. i # Pending BY <2>4, <1>4, SMT
      <3>2. Cell(i)' = Cell(i) BY <2>4, <1>3
      <3>3. ~Cell(i).is_end BY <2>4, <1>1, <1>7 DEF IInv, EndLast, EndQueued
      <3> QED BY <3>1, <3>2, <3>3, <2>2
    <2> QED BY <2>1, <2>3, <2>4
  <1> QED BY <1>5, <1>8, <1>9 DEF IInv

\* The steps that leave the ring alone keep the invariant.
LEMMA OtherInv ==
  ASSUME IInv, UNCHANGED ring,
         \/ WakeSpuriously \/ PrintConsole \/ PrintFile
         \/ Join \/ Reopen \/ Resume \/ Close \/ ResumePaused
         \/ \E next \in Jobs : PausePaused(next)
         \/ UNCHANGED vars
  PROVE  IInv'
  <1>1. Pending' = Pending /\ \A i : Cell(i)' = Cell(i) BY RingKept
  <1>2. head' = head /\ tail' = tail /\ size' = size BY DEF ring
  <1> USE DEF IInv, TypeOK, Phase, EndLast, EndQueued, Overrun, Held, Worker, Jobs, ring, vars
  <1>3. CASE WakeSpuriously BY <1>1, <1>3 DEF WakeSpuriously
  <1>4. CASE PrintConsole BY <1>1, <1>4 DEF PrintConsole
  <1>5. CASE PrintFile
    <2>1. written' \in Seq(Nat \X Nat)
      <3>1. <<cur.msg, file>> \in Nat \X Nat BY DEF Entry
      <3> QED BY <3>1, <1>5 DEF PrintFile
    <2> QED BY <1>1, <1>5, <2>1 DEF PrintFile
  <1>6. CASE Join BY <1>1, <1>2, <1>6 DEF Join
  <1>7. CASE Reopen BY <1>1, <1>7, LogAssumption DEF Reopen
  <1>8. CASE Resume BY <1>1, <1>8 DEF Resume, StartWorker
  <1>9. CASE Close BY <1>1, <1>9 DEF Close
  <1>10. CASE ResumePaused BY <1>1, <1>10 DEF ResumePaused, StartWorker
  <1>11. CASE \E next \in Jobs : PausePaused(next) BY <1>1, <1>11 DEF PausePaused
  <1>12. CASE UNCHANGED vars BY <1>1, <1>12
  <1> QED BY <1>3, <1>4, <1>5, <1>6, <1>7, <1>8, <1>9, <1>10, <1>11, <1>12

LEMMA StepInv ==
  ASSUME IInv, [Next]_vars
  PROVE  IInv'
  <1> USE DEF ring, vars
  <1>1. CASE Add BY <1>1, AddInv
  <1>2. CASE Take BY <1>2, TakeInv
  <1>3. CASE \E next \in Jobs : Pause(next) BY <1>3, PauseInv
  <1>4. CASE WakeSpuriously BY <1>4, OtherInv DEF WakeSpuriously
  <1>5. CASE PrintConsole BY <1>5, OtherInv DEF PrintConsole
  <1>6. CASE PrintFile BY <1>6, OtherInv DEF PrintFile
  <1>7. CASE Join BY <1>7, OtherInv DEF Join
  <1>8. CASE Reopen BY <1>8, OtherInv DEF Reopen
  <1>9. CASE Resume BY <1>9, OtherInv DEF Resume, StartWorker
  <1>10. CASE Close BY <1>10, OtherInv DEF Close
  <1>11. CASE ResumePaused BY <1>11, OtherInv DEF ResumePaused, StartWorker
  <1>12. CASE \E next \in Jobs : PausePaused(next)
    <2>1. UNCHANGED ring BY <1>12 DEF PausePaused
    <2> QED BY <1>12, <2>1, OtherInv
  <1>13. CASE UNCHANGED vars BY <1>13, OtherInv
  <1> QED BY <1>1, <1>2, <1>3, <1>4, <1>5, <1>6, <1>7, <1>8, <1>9, <1>10, <1>11, <1>12, <1>13
          DEF Next, WorkerStep, ControlStep

\* The types hold, for every capacity, number of messages and of files.
THEOREM LogTypeOK == Spec => []TypeOK
  <1>1. Init => IInv BY InitInv
  <1>2. IInv /\ [Next]_vars => IInv' BY StepInv
  <1>3. IInv => TypeOK BY DEF IInv
  <1> QED BY <1>1, <1>2, <1>3, PTL DEF Spec

(***************************************************************************)
(* The ring implements LogFifo.                                            *)
(***************************************************************************)

\* The messages of the ring are a sequence of Count numbers.
Count == IF EndQueued THEN Held - 1 ELSE Held
Queue == InHand \o Messages

MessageFacts ==
  /\ Count \in Nat /\ Count <= Held
  /\ Messages \in Seq(Nat) /\ Len(Messages) = Count
  /\ \A i \in 1 .. Count : Messages[i] = Cell(i - 1).msg
  /\ InHand \in Seq(Nat)

LEMMA MessagesSeq == IInv => MessageFacts
  <1> SUFFICES ASSUME IInv PROVE MessageFacts OBVIOUS
  <1>1. Held \in 0 .. size /\ size \in Nat /\ (EndQueued => Held > 0)
    BY HeldCounts DEF IInv, TypeOK
  <1>2. Count \in Nat /\ Count <= Held
    BY <1>1, SMT DEF Count
  <1>3. \A i \in 1 .. Count : head + i - 1 = head + (i - 1)
    BY <1>2, SMT DEF IInv, TypeOK
  <1>4. Messages = [i \in 1 .. Count |-> Cell(i - 1).msg]
    BY <1>3 DEF Messages, Cell, Count
  <1>5. \A i \in 1 .. Count : i - 1 \in 0 .. size - 1 BY <1>1, <1>2, SMT
  <1>6. \A i \in 1 .. Count : Cell(i - 1).msg \in Nat
    <2> TAKE i \in 1 .. Count
    <2>1. (head + (i - 1)) % size \in 0 .. size - 1 BY <1>5, PendingCounts DEF IInv
    <2>2. Cell(i - 1) \in Entry BY <2>1 DEF Cell, IInv, TypeOK
    <2> QED BY <2>2 DEF Entry
  <1>7. InHand \in Seq(Nat) BY DEF InHand, IInv, TypeOK, Entry
  <1> HIDE DEF Count
  <1>8. Messages \in Seq(Nat) /\ Len(Messages) = Count BY <1>2, <1>4, <1>6, SMT
  <1> QED BY <1>2, <1>4, <1>7, <1>8 DEF MessageFacts

LEMMA MessagesSeqNext == IInv' => MessageFacts'
  BY MessagesSeq, PTL

\* A step that leaves the number of messages and their entries alone leaves the
\* messages alone.
LEMMA MessagesKept ==
  ASSUME IInv, IInv', Count' = Count, \A i \in 0 .. Count - 1 : Cell(i)'.msg = Cell(i).msg
  PROVE  Messages' = Messages
  <1>1. MessageFacts /\ MessageFacts' BY MessagesSeq, MessagesSeqNext
  <1>2. \A i \in 1 .. Count : i - 1 \in 0 .. Count - 1 BY <1>1, SMT DEF MessageFacts
  <1>3. \A i \in 1 .. Count : Messages'[i] = Messages[i] BY <1>1, <1>2 DEF MessageFacts
  <1> QED BY <1>1, <1>3, SeqEqual, Zenon DEF MessageFacts

\* add() appends to the abstract queue.
LEMMA AddFifo ==
  ASSUME IInv, IInv', Add
  PROVE  Fifo!Add
  <1>1. MessageFacts /\ MessageFacts' BY MessagesSeq, MessagesSeqNext
  <1>2. running /\ running' /\ InHand' = InHand
    <2>1. running /\ running' BY DEF Add
    <2>2. wpc' \in {"print", "file"} <=> wpc \in {"print", "file"} BY DEF Add, Notify
    <2>3. cur' = cur BY DEF Add
    <2> QED BY <2>1, <2>2, <2>3 DEF InHand
  <1>3. sent' = sent + 1 /\ sent' \in Nat /\ written' = written /\ file' = file
    BY LogAssumption DEF Add, IInv, TypeOK
  <1>4. Count = Pending /\ Count' = Pending' BY <1>2 DEF Count, Held, Overrun, EndQueued
  <1>5. Pending' = Pending + 1
        /\ \A i \in 0 .. Pending :
             Cell(i)' = IF i = Pending THEN [msg |-> sent', is_end |-> FALSE] ELSE Cell(i)
    BY AddPending DEF IInv
  <1>6. Messages' = Append(Messages, sent')
    <2>1. Append(Messages, sent') \in Seq(Nat) /\ Len(Append(Messages, sent')) = Count + 1
          /\ \A i \in 1 .. Count + 1 :
               Append(Messages, sent')[i] = IF i = Count + 1 THEN sent' ELSE Messages[i]
      BY <1>1, <1>3 DEF MessageFacts
    <2>2. Messages' \in Seq(Nat) /\ Len(Messages') = Count + 1 BY <1>1, <1>4, <1>5 DEF MessageFacts
    <2>3. \A i \in 1 .. Count + 1 : Messages'[i] = Append(Messages, sent')[i]
      <3> TAKE i \in 1 .. Count + 1
      <3>1. i \in 1 .. Count' /\ i - 1 \in 0 .. Pending BY <1>1, <1>4, <1>5, SMT DEF MessageFacts
      <3>2. Messages'[i] = Cell(i - 1)'.msg BY <1>1, <3>1 DEF MessageFacts
      <3>3. CASE i = Count + 1
        <4>1. i - 1 = Pending BY <1>1, <1>4, <3>3, SMT DEF MessageFacts
        <4>2. Cell(i - 1)' = [msg |-> sent', is_end |-> FALSE] BY <4>1, <3>1, <1>5
        <4> QED BY <4>2, <3>2, <3>3, <2>1
      <3>4. CASE i # Count + 1
        <4>1. i - 1 # Pending /\ i \in 1 .. Count BY <1>1, <1>4, <3>4, SMT DEF MessageFacts
        <4>2. Cell(i - 1)' = Cell(i - 1) BY <4>1, <3>1, <1>5
        <4> QED BY <4>1, <4>2, <3>2, <3>4, <2>1, <1>1 DEF MessageFacts
      <3> QED BY <3>3, <3>4
    <2> QED BY <2>1, <2>2, <2>3, SeqEqual, Zenon
  <1>7. InHand \o Append(Messages, sent') = Append(InHand \o Messages, sent')
    BY <1>1, <1>3 DEF MessageFacts
  <1>8. Queue' = Append(Queue, sent') BY <1>2, <1>6, <1>7 DEF Queue
  <1> QED BY <1>2, <1>3, <1>8 DEF Fifo!Add, Queue

\* The worker's critical section moves the first message into its hand.
LEMMA TakeFifo ==
  ASSUME IInv, IInv', Take
  PROVE  Queue' = Queue
  <1>1. MessageFacts /\ MessageFacts' BY MessagesSeq, MessagesSeqNext
  <1>2. wpc = "test" /\ InHand = <<>> /\ running' = running BY DEF Take, InHand
  <1>3. CASE head = tail
    <2>1. wpc' = "wait" /\ InHand' = <<>> BY <1>3 DEF Take, InHand
    <2>2. UNCHANGED ring BY <1>3 DEF Take, ring
    <2>3. Pending' = Pending /\ \A i : Cell(i)' = Cell(i) BY <2>2, RingKept
    <2>4. Count' = Count
      <3>1. EndQueued' <=> EndQueued BY <1>2, <2>1 DEF EndQueued
      <3> QED BY <2>2, <3>1, HeldKept DEF Count
    <2>5. Messages' = Messages BY <2>3, <2>4, MessagesKept
    <2> QED BY <1>2, <2>1, <2>5 DEF Queue
  <1>4. CASE head # tail
    <2>1. /\ Pending' = Pending - 1
          /\ \A i \in 0 .. Pending - 2 : Cell(i)' = Cell(i + 1)
          /\ cur' = Cell(0)
      BY <1>4, TakePending DEF IInv
    <2>2. Pending \in Nat /\ Pending > 0 /\ 0 \in 0 .. Pending - 1
      <3>1. Pending \in 0 .. size - 1 /\ Pending # 0 /\ size \in Nat
        BY <1>4, PendingCounts DEF IInv, TypeOK
      <3> QED BY <3>1, SMT
    <2>3. wpc' = IF cur'.is_end THEN "done" ELSE "print" BY <1>4 DEF Take
    <2>4. (cur'.is_end <=> EndQueued /\ Pending = 1) /\ Held = Pending /\ Held' = Pending'
      BY <1>4, TakeHeld
    <2>5. CASE cur'.is_end
      <3>1. wpc' = "done" /\ Count = 0 /\ Count' = 0
        BY <2>1, <2>3, <2>4, <2>5, SMT DEF Count, EndQueued
      <3>2. Messages = <<>> /\ Messages' = <<>> BY <1>1, <3>1, EmptySeq DEF MessageFacts
      <3> QED BY <1>2, <3>1, <3>2 DEF Queue, InHand
    <2>6. CASE ~cur'.is_end
      <3>1. wpc' = "print" BY <2>3, <2>6
      <3>2. EndQueued' <=> EndQueued BY <1>2, <3>1 DEF EndQueued
      <3>3. Count' = Count - 1 /\ Count > 0 BY <2>1, <2>2, <2>4, <2>6, <3>2, SMT DEF Count
      <3>4. Messages # <<>> BY <1>1, <3>3, EmptySeq, SMT DEF MessageFacts
      <3>5. /\ Tail(Messages) \in Seq(Nat) /\ Len(Tail(Messages)) = Count - 1
            /\ \A i \in 1 .. Len(Tail(Messages)) : Tail(Messages)[i] = Messages[i + 1]
        BY <1>1, <3>4, HeadTailProperties, Zenon DEF MessageFacts
      <3>6. Messages' = Tail(Messages)
        <4>1. \A i \in 1 .. Count - 1 : Messages'[i] = Tail(Messages)[i]
          <5> TAKE i \in 1 .. Count - 1
          <5>1. i - 1 \in 0 .. Pending - 2 /\ i + 1 \in 1 .. Count /\ (i + 1) - 1 = (i - 1) + 1
            BY <1>1, <2>2, <2>4, <3>3, SMT DEF MessageFacts
          <5>2. Messages'[i] = Cell(i - 1)'.msg BY <1>1, <3>3 DEF MessageFacts
          <5>3. Messages[i + 1] = Cell((i + 1) - 1).msg BY <1>1, <5>1 DEF MessageFacts
          <5>4. Cell(i - 1)' = Cell((i - 1) + 1) BY <2>1, <5>1
          <5> QED BY <5>1, <5>2, <5>3, <5>4, <3>5
        <4>2. Messages' \in Seq(Nat) /\ Len(Messages') = Count - 1 BY <1>1, <3>3 DEF MessageFacts
        <4> QED BY <4>1, <4>2, <3>5, SeqEqual, Zenon
      <3>7. InHand' = <<Messages[1]>>
        <4>1. 1 \in 1 .. Count /\ 1 - 1 = 0 BY <1>1, <3>3, SMT DEF MessageFacts
        <4>2. Messages[1] = Cell(0).msg BY <1>1, <4>1 DEF MessageFacts
        <4> QED BY <4>2, <2>1, <3>1 DEF InHand
      <3>8. <<Messages[1]>> \o Tail(Messages) = Messages
        BY <1>1, <3>4 DEF MessageFacts
      <3>9. <<>> \o Messages = Messages BY <1>1, ConcatEmptySeq DEF MessageFacts
      <3> QED BY <1>2, <3>6, <3>7, <3>8, <3>9 DEF Queue
    <2> QED BY <2>5, <2>6
  <1> QED BY <1>3, <1>4

\* pause() leaves the abstract queue alone: its end entry is not a message.
LEMMA PauseFifo ==
  ASSUME IInv, IInv', NEW next \in Jobs, Pause(next)
  PROVE  Queue' = Queue
  <1>1. running /\ running' = FALSE /\ cur' = cur BY DEF Pause
  <1>2. wpc \notin {"none", "done"} /\ wpc' \notin {"none", "done"}
        /\ (wpc' \in {"print", "file"} <=> wpc \in {"print", "file"})
    BY <1>1 DEF IInv, Phase, Pause, Notify
  <1>3. Held' = Pending + 1 /\ \A i \in 0 .. Pending - 1 : Cell(i)' = Cell(i)
    <2>1. EndQueued' BY <1>1, <1>2 DEF EndQueued
    <2> QED BY <2>1, PausePending DEF IInv
  <1>4. Pending \in Nat BY PendingCounts, SMT DEF IInv
  <1>5. Count = Pending /\ Count' = Held' - 1 BY <1>1, <1>2 DEF Count, Held, Overrun, EndQueued
  <1>6. Count' = Count BY <1>3, <1>4, <1>5, SMT
  <1>7. Messages' = Messages BY <1>3, <1>5, <1>6, MessagesKept
  <1> QED BY <1>1, <1>2, <1>7 DEF Queue, InHand

\* A paused log whose worker has stopped has an empty queue.
LEMMA StoppedEmpty ==
  ASSUME IInv, wpc \in {"none", "done"}
  PROVE  Queue = <<>> /\ InHand = <<>>
  <1>1. head = tail /\ ~EndQueued BY DEF IInv, Phase, EndQueued
  <1>2. Pending = 0 BY <1>1, PendingCounts DEF IInv
  <1>3. MessageFacts BY MessagesSeq
  <1>4. Messages = <<>> BY <1>1, <1>2, <1>3, EmptySeq DEF MessageFacts, Count, Held, Overrun
  <1>5. InHand = <<>> BY DEF InHand
  <1> QED BY <1>4, <1>5 DEF Queue

\* Each of the other steps that leave the ring and the messages alone.
LEMMA MessagesStay ==
  ASSUME IInv, IInv', UNCHANGED ring, EndQueued' <=> EndQueued
  PROVE  Messages' = Messages
  <1>1. Pending' = Pending /\ \A i : Cell(i)' = Cell(i) BY RingKept
  <1>2. Count' = Count BY HeldKept DEF Count
  <1> QED BY <1>1, <1>2, MessagesKept

\* The worker has written the message in its hand: the head of the queue.
LEMMA PrintFileFifo ==
  ASSUME IInv, IInv', PrintFile
  PROVE  Fifo!Write
  <1>1. MessageFacts BY MessagesSeq
  <1>2. wpc = "file" /\ wpc' = "test" /\ running' = running /\ UNCHANGED ring BY DEF PrintFile
  <1>3. Messages' = Messages BY <1>2, MessagesStay DEF EndQueued
  <1>4. InHand = <<cur.msg>> /\ InHand' = <<>> BY <1>2 DEF InHand
  <1>5. cur.msg \in Nat BY DEF IInv, TypeOK, Entry
  <1>6. Queue # <<>> /\ Head(Queue) = cur.msg /\ Tail(Queue) = Messages
    BY <1>1, <1>4, <1>5 DEF MessageFacts, Queue
  <1>7. Queue' = Messages BY <1>1, <1>3, <1>4, ConcatEmptySeq DEF MessageFacts, Queue
  <1> QED BY <1>6, <1>7 DEF Fifo!Write, PrintFile, Queue

\* Every step of the log is a step of LogFifo or leaves its variables alone.
LEMMA StepFifo ==
  ASSUME IInv, IInv', [Next]_vars
  PROVE  [Fifo!Next]_(Fifo!vars)
  <1>1. CASE Add BY <1>1, AddFifo DEF Fifo!Next
  <1>2. CASE Take
    <2>1. Queue' = Queue BY <1>2, TakeFifo
    <2> QED BY <1>2, <2>1 DEF Take, Queue, Fifo!vars
  <1>3. CASE \E next \in Jobs : Pause(next)
    <2>1. PICK next \in Jobs : Pause(next) BY <1>3
    <2>2. Queue' = Queue BY <2>1, PauseFifo
    <2> QED BY <2>1, <2>2 DEF Pause, Queue, Fifo!Next, Fifo!Stop
  <1>4. CASE WakeSpuriously
    <2>1. Messages' = Messages BY <1>4, MessagesStay DEF WakeSpuriously, EndQueued
    <2>2. InHand' = InHand BY <1>4 DEF WakeSpuriously, InHand
    <2> QED BY <1>4, <2>1, <2>2 DEF WakeSpuriously, Fifo!vars
  <1>5. CASE PrintConsole
    <2>1. Messages' = Messages BY <1>5, MessagesStay DEF PrintConsole, EndQueued
    <2>2. InHand' = InHand BY <1>5 DEF PrintConsole, InHand
    <2> QED BY <1>5, <2>1, <2>2 DEF PrintConsole, Fifo!vars
  <1>6. CASE PrintFile BY <1>6, PrintFileFifo DEF Fifo!Next
  <1>7. CASE Join
    <2>1. Messages' = Messages BY <1>7, MessagesStay DEF Join, EndQueued
    <2>2. InHand' = InHand BY <1>7 DEF Join, InHand
    <2> QED BY <1>7, <2>1, <2>2 DEF Join, Fifo!vars
  <1>8. CASE Reopen
    <2>1. ~running /\ wpc = "none" BY <1>8 DEF Reopen, IInv, Phase
    <2>2. Queue = <<>> BY <2>1, StoppedEmpty
    <2>3. Messages' = Messages BY <1>8, MessagesStay DEF Reopen, EndQueued
    <2>4. InHand' = InHand BY <1>8 DEF Reopen, InHand
    <2>5. file' \in Nat BY LogAssumption DEF IInv, TypeOK
    <2> QED BY <1>8, <2>1, <2>2, <2>3, <2>4, <2>5 DEF Reopen, Queue, Fifo!Next, Fifo!SetFile
  <1>9. CASE Resume \/ ResumePaused
    <2>1. StartWorker /\ ~running /\ wpc = "none"
      BY <1>9 DEF Resume, ResumePaused, IInv, Phase
    <2>2. Queue = <<>> /\ InHand = <<>> BY <2>1, StoppedEmpty
    <2>3. Messages' = Messages
      BY <2>1, MessagesStay DEF StartWorker, EndQueued
    <2>4. InHand' = <<>> BY <2>1 DEF StartWorker, InHand
    <2>5. Queue' = Queue BY <2>2, <2>3, <2>4 DEF Queue
    <2> QED BY <2>1, <2>2, <2>5 DEF StartWorker, Queue, Fifo!Next, Fifo!Start
  <1>10. CASE Close
    <2>1. ~running /\ wpc = "none" BY <1>10 DEF Close, IInv, Phase
    <2>2. Queue = <<>> BY <2>1, StoppedEmpty
    <2>3. Messages' = Messages BY <1>10, MessagesStay DEF Close, EndQueued
    <2>4. InHand' = InHand BY <1>10 DEF Close, InHand
    <2> QED BY <1>10, <2>1, <2>2, <2>3, <2>4 DEF Close, Queue, Fifo!Next, Fifo!SetFile
  <1>11. CASE \E next \in Jobs : PausePaused(next)
    <2>1. UNCHANGED <<ring, running, cur, wpc, file, sent, written>> BY <1>11 DEF PausePaused
    <2>2. Messages' = Messages BY <2>1, MessagesStay DEF EndQueued
    <2>3. InHand' = InHand BY <2>1 DEF InHand
    <2> QED BY <2>1, <2>2, <2>3 DEF Fifo!vars
  <1>12. CASE UNCHANGED vars
    <2>1. UNCHANGED <<ring, running, cur, wpc, file, sent, written>> BY <1>12 DEF vars
    <2>2. Messages' = Messages BY <2>1, MessagesStay DEF EndQueued
    <2>3. InHand' = InHand BY <2>1 DEF InHand
    <2> QED BY <2>1, <2>2, <2>3 DEF Fifo!vars
  <1> QED BY <1>1, <1>2, <1>3, <1>4, <1>5, <1>6, <1>7, <1>8, <1>9, <1>10, <1>11, <1>12
          DEF Next, WorkerStep, ControlStep

\* The log is the queue of log.h for every capacity and every number of messages
\* and files: messages are written once, in order, to the file that was set when
\* they were added, and a pause, a flush and a change of file go on only after
\* them, also if the end entry of a pause overruns the ring.
THEOREM LogIsFifo == Spec => ImplementsFifo
  <1>1. Init => IInv BY InitInv
  <1>2. IInv /\ [Next]_vars => IInv' BY StepInv
  <1>3. Init => Fifo!Init
    <2> SUFFICES ASSUME Init PROVE Fifo!Init OBVIOUS
    <2>1. IInv BY InitInv
    <2>2. MessageFacts BY <2>1, MessagesSeq
    <2>3. Pending = 0 /\ ~EndQueued
      <3>1. head = tail BY DEF Init
      <3>2. Pending = 0 BY <2>1, <3>1, PendingCounts DEF IInv
      <3> QED BY <3>2 DEF Init, EndQueued
    <2>4. Messages = <<>> BY <2>2, <2>3, EmptySeq DEF MessageFacts, Count, Held, Overrun
    <2>5. InHand = <<>> BY DEF Init, InHand
    <2> QED BY <2>4, <2>5 DEF Init, Fifo!Init
  <1>4. IInv /\ IInv' /\ [Next]_vars => [Fifo!Next]_(Fifo!vars) BY StepFifo
  <1> QED BY <1>1, <1>2, <1>3, <1>4, PTL DEF Spec, ImplementsFifo
=============================================================================
