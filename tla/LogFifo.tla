------------------------------ MODULE LogFifo ------------------------------
(***************************************************************************)
(* What common/log.h promises of a common_log: the messages added while it *)
(* runs are written once each, in the order they were added, each to the   *)
(* console and to the file that was set when it was added; while the log   *)
(* is paused messages are discarded, and a pause ends, a file is changed   *)
(* and the log runs again only when every message has been written.        *)
(***************************************************************************)
EXTENDS Naturals, Sequences

VARIABLES sent,     \* messages accepted so far: they are the numbers 1 .. sent
          queue,    \* messages accepted and not yet written
          written,  \* <<message, file>> in the order of writing
          file,     \* the current file, 0 when there is none
          on        \* does the log accept messages

vars == <<sent, queue, written, file, on>>

Init == sent = 0 /\ queue = <<>> /\ written = <<>> /\ file = 0 /\ on = TRUE

Add ==
  /\ on
  /\ sent' = sent + 1
  /\ queue' = Append(queue, sent')
  /\ UNCHANGED <<written, file, on>>

Write ==
  /\ queue # <<>>
  /\ written' = Append(written, <<Head(queue), file>>)
  /\ queue' = Tail(queue)
  /\ UNCHANGED <<sent, file, on>>

Stop == on' = FALSE /\ UNCHANGED <<sent, queue, written, file>>

Start ==
  /\ queue = <<>>
  /\ on' = TRUE
  /\ UNCHANGED <<sent, queue, written, file>>

SetFile ==
  /\ ~on /\ queue = <<>>
  /\ file' \in Nat
  /\ UNCHANGED <<sent, queue, written, on>>

Next == Add \/ Write \/ Stop \/ Start \/ SetFile

Spec == Init /\ [][Next]_vars
=============================================================================
