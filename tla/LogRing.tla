------------------------------ MODULE LogRing ------------------------------
(***************************************************************************)
(* common_log (common/log.cpp): a ring of entries that any thread adds to  *)
(* under mtx, the worker thread that writes them, and the one controlling  *)
(* thread that pauses, flushes, redirects and destroys the log (log.h says *)
(* "not thread-safe" of these calls).  Each critical section is one step.  *)
(*                                                                         *)
(* A message is its number; its text, level and colours are left out.      *)
(***************************************************************************)
EXTENDS Integers, Sequences

CONSTANTS Capacity,   \* entries of the ring at the start (256)
          MaxSent,    \* bound: messages added
          MaxFiles    \* bound: files opened

ASSUME LogAssumption ==
  Capacity \in Nat \ {0, 1} /\ MaxSent \in Nat /\ MaxFiles \in Nat

VARIABLES size, entries, head, tail,  \* the ring: entries.size() and entries[0 .. size - 1]
          running,                    \* are messages accepted
          cur, wpc,                   \* the worker: the entry it has copied, where it is
          ctl, after,                 \* the controller: where it is, where it goes when pause() returns
          file, opened,               \* the file, 0 for nullptr; files opened so far
          sent, written               \* history: messages accepted, <<message, file>> written

ring == <<size, entries, head, tail>>
vars == <<ring, running, cur, wpc, ctl, after, file, opened, sent, written>>

Entry  == [msg : Nat, is_end : BOOLEAN]
Blank  == [msg |-> 0, is_end |-> FALSE]
Worker == {"none", "test", "wait", "print", "file", "done"}
Jobs   == {"idle", "reopen", "resume", "close"}

TypeOK ==
  /\ size \in Nat \ {0, 1} /\ entries \in [0 .. size - 1 -> Entry]
  /\ head \in 0 .. size - 1 /\ tail \in 0 .. size - 1
  /\ running \in BOOLEAN /\ cur \in Entry
  /\ wpc \in Worker /\ ctl \in Jobs \cup {"join", "freed"} /\ after \in Jobs
  /\ opened \in 0 .. MaxFiles /\ file \in 0 .. opened
  /\ sent \in 0 .. MaxSent /\ written \in Seq(Nat \X Nat)

Init ==
  /\ size = Capacity /\ entries = [i \in 0 .. Capacity - 1 |-> Blank]
  /\ head = 0 /\ tail = 0
  /\ running = TRUE /\ cur = Blank /\ wpc = "test"
  /\ ctl = "idle" /\ after = "idle"
  /\ file = 0 /\ opened = 0
  /\ sent = 0 /\ written = <<>>

After(i) == (i + 1) % size

\* Entries the worker has not taken yet.
Pending == (tail - head + size) % size

\* cv.notify_one: the worker is the only thread that waits.
Notify == wpc' = IF wpc = "wait" THEN "test" ELSE wpc

(***************************************************************************)
(* add(): the message goes to entries[tail]; a ring that is full then is   *)
(* copied, oldest entry first, to one of twice the size.                   *)
(***************************************************************************)

\* Mutant: the entries are copied from the first one of the array.
UnrolledFromZero(e) == [i \in 0 .. 2 * size - 1 |-> IF i < size THEN e[i] ELSE Blank]

Unrolled(e) == [i \in 0 .. 2 * size - 1 |-> IF i < size THEN e[(head + i) % size] ELSE Blank]

\* Mutant: the worker is not notified.
AddSilently ==
  /\ running /\ sent < MaxSent
  /\ sent' = sent + 1
  /\ LET e == [entries EXCEPT ![tail] = [msg |-> sent', is_end |-> FALSE]]
     IN  IF After(tail) # head
         THEN /\ entries' = e /\ tail' = After(tail)
              /\ UNCHANGED <<size, head>>
         ELSE /\ entries' = Unrolled(e)
              /\ size' = 2 * size /\ head' = 0 /\ tail' = size
  /\ UNCHANGED <<running, cur, wpc, ctl, after, file, opened, written>>

Add ==
  /\ running /\ sent < MaxSent
  /\ sent' = sent + 1
  /\ LET e == [entries EXCEPT ![tail] = [msg |-> sent', is_end |-> FALSE]]
     IN  IF After(tail) # head
         THEN /\ entries' = e /\ tail' = After(tail)
              /\ UNCHANGED <<size, head>>
         ELSE /\ entries' = Unrolled(e)
              /\ size' = 2 * size /\ head' = 0 /\ tail' = size
  /\ Notify
  /\ UNCHANGED <<running, cur, ctl, after, file, opened, written>>

(***************************************************************************)
(* The worker thread of resume().                                          *)
(***************************************************************************)
Take ==
  /\ wpc = "test"
  /\ IF head = tail
     THEN wpc' = "wait" /\ UNCHANGED <<head, cur>>
     ELSE /\ cur' = entries[head] /\ head' = After(head)
          /\ wpc' = IF cur'.is_end THEN "done" ELSE "print"
  /\ UNCHANGED <<size, entries, tail, running, ctl, after, file, opened, sent, written>>

\* A condition variable may wake for no reason.
WakeSpuriously ==
  /\ wpc = "wait"
  /\ wpc' = "test"
  /\ UNCHANGED <<ring, running, cur, ctl, after, file, opened, sent, written>>

\* cur.print() to the console, without the mutex.
PrintConsole ==
  /\ wpc = "print"
  /\ wpc' = "file"
  /\ UNCHANGED <<ring, running, cur, ctl, after, file, opened, sent, written>>

\* cur.print(file), if there is one.
PrintFile ==
  /\ wpc = "file"
  /\ wpc' = "test"
  /\ written' = Append(written, <<cur.msg, file>>)
  /\ UNCHANGED <<ring, running, cur, ctl, after, file, opened, sent>>

(***************************************************************************)
(* The controlling thread.  next is what follows pause(): nothing for      *)
(* pause() itself, "reopen" for set_file, "resume" for set_colors and      *)
(* common_log_flush, "close" for the destructor.  A pause() of a log that  *)
(* is paused returns at once.                                              *)
(***************************************************************************)

\* Mutant: pause() does not notify the worker.
PauseSilently(next) ==
  /\ ctl = "idle"
  /\ running
  /\ running' = FALSE
  /\ entries' = [entries EXCEPT ![tail].is_end = TRUE]
  /\ tail' = After(tail)
  /\ ctl' = "join" /\ after' = next
  /\ UNCHANGED <<size, head, wpc, cur, file, opened, sent, written>>

Pause(next) ==
  /\ ctl = "idle"
  /\ running
  /\ running' = FALSE
  /\ entries' = [entries EXCEPT ![tail].is_end = TRUE]
  /\ tail' = After(tail)
  /\ Notify
  /\ ctl' = "join" /\ after' = next
  /\ UNCHANGED <<size, head, cur, file, opened, sent, written>>

PausePaused(next) ==
  /\ ctl = "idle" /\ ~running
  /\ ctl' = next
  /\ UNCHANGED <<ring, running, cur, wpc, after, file, opened, sent, written>>

\* thrd.join().
Join ==
  /\ ctl = "join" /\ wpc = "done"
  /\ wpc' = "none" /\ ctl' = after /\ after' = "idle"
  /\ UNCHANGED <<ring, running, cur, file, opened, sent, written>>

\* set_file closes its file and opens another, or none (no path, fopen fails).
Reopen ==
  /\ ctl = "reopen"
  /\ \/ file' = 0 /\ opened' = opened
     \/ opened < MaxFiles /\ opened' = opened + 1 /\ file' = opened'
  /\ ctl' = "resume"
  /\ UNCHANGED <<ring, running, cur, wpc, after, sent, written>>

StartWorker ==
  /\ running' = TRUE /\ wpc' = "test"
  /\ UNCHANGED <<ring, cur, after, file, opened, sent, written>>

\* resume(), at the end of set_file, set_colors and common_log_flush.
Resume == ctl = "resume" /\ StartWorker /\ ctl' = "idle"

\* common_log_resume; a log that runs is left alone.
ResumePaused == ctl = "idle" /\ ~running /\ StartWorker /\ UNCHANGED ctl

\* ~common_log after its pause().
Close ==
  /\ ctl = "close"
  /\ file' = 0 /\ ctl' = "freed"
  /\ UNCHANGED <<ring, running, cur, wpc, after, opened, sent, written>>

WorkerStep  == Take \/ PrintConsole \/ PrintFile
ControlStep == Join \/ Reopen \/ Resume \/ Close

Next ==
  \/ Add \/ WorkerStep \/ WakeSpuriously
  \/ \E next \in Jobs : Pause(next) \/ PausePaused(next)
  \/ ControlStep \/ ResumePaused

\* Threads that are not blocked run; a call once begun goes on.
Fairness == WF_vars(WorkerStep) /\ WF_vars(ControlStep)

Spec == Init /\ [][Next]_vars /\ Fairness

(***************************************************************************)
(* Properties.                                                             *)
(***************************************************************************)

\* pause() has stored its end entry and the worker has not taken it.  The code
\* makes no check for a full ring there: if only one entry was free, head and
\* tail meet, and the ring that is full looks empty to the worker.
EndQueued == ~running /\ wpc \notin {"none", "done"}
Overrun   == EndQueued /\ head = tail
Held      == IF Overrun THEN size ELSE Pending

\* The ring is a first-in first-out queue: every accepted message is written at
\* most once, in order, to the file that was set when it was added, however the
\* ring wraps and grows, and pause(), set_file, flush and resume go on only when
\* the queue has run empty (log.h: "flush all pending log messages"); a pause
\* that overruns the ring never goes on.
InHand   == IF wpc \in {"print", "file"} THEN <<cur.msg>> ELSE <<>>
Messages == [i \in 1 .. (IF EndQueued THEN Held - 1 ELSE Held) |->
               entries[(head + i - 1) % size].msg]
Fifo == INSTANCE LogFifo WITH queue <- InHand \o Messages, on <- running
ImplementsFifo == Fifo!Init /\ [][Fifo!Next]_(Fifo!vars)

\* Every message that was accepted is written, even when no more messages come,
\* unless a pause overruns the ring.
AllWritten == \A n \in 1 .. MaxSent : (sent >= n) ~> (Len(written) >= n \/ Overrun)

\* pause() returns if it has not overrun the ring: its end entry reaches the
\* worker behind all messages, whatever the worker is doing, and it stops.
PauseReturns == (ctl = "join" /\ ~Overrun) ~> (ctl # "join")

\* The end entry of pause() stops the worker, as its comment says ("push an
\* entry to signal the worker thread to stop").
EndStopsWorker == EndQueued ~> ~EndQueued
=============================================================================
