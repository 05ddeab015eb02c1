------------------------------ MODULE LogQueue ------------------------------
(***************************************************************************)
(* What the log promises (log.h): log_write never waits, a line is either  *)
(* queued or counted as lost, and queued lines reach the file in order.    *)
(***************************************************************************)
EXTENDS Naturals, Sequences

CONSTANTS
  Lines,   \* the lines that may be logged
  Room     \* lines the queue holds

VARIABLES
  queue,    \* lines that wait for the file, or are being written to it
  busy,     \* the first of them is in the file already
  written,  \* lines that reached it
  lost      \* lines that were discarded

vars == <<queue, busy, written, lost>>

Init == queue = <<>> /\ ~busy /\ written = <<>> /\ lost = 0

Put ==
  /\ Len(queue) < Room
  /\ \E l \in Lines : queue' = Append(queue, l)
  /\ UNCHANGED <<busy, written, lost>>

\* A line is discarded only with the queue full.
Lose ==
  /\ Len(queue) = Room
  /\ lost' = lost + 1
  /\ UNCHANGED <<queue, busy, written>>

Write ==
  /\ queue # <<>> /\ ~busy
  /\ written' = Append(written, Head(queue)) /\ busy' = TRUE
  /\ UNCHANGED <<queue, lost>>

Free ==
  /\ busy
  /\ queue' = Tail(queue) /\ busy' = FALSE
  /\ UNCHANGED <<written, lost>>

\* The log is stopped, with nothing left in the queue, and started over.
Reset ==
  /\ queue = <<>>
  /\ written' = <<>> /\ lost' = 0
  /\ UNCHANGED <<queue, busy>>

Next == Put \/ Lose \/ Write \/ Free \/ Reset

Spec == Init /\ [][Next]_vars
=============================================================================
