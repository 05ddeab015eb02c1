------------------------------ MODULE LogRing ------------------------------
(***************************************************************************)
(* The asynchronous log (log.c): a ring of slots that log_write fills and  *)
(* a consumer thread empties into the file.  The order of the accesses to  *)
(* memory is that of the program (head and tail are published with release *)
(* and read with acquire); the two counters of 64 bits do not wrap around. *)
(* A line is <<p, n>>, the n-th message of producer p; a slot holds the    *)
(* time and level of a line and its text, which are written one after the  *)
(* other.                                                                  *)
(***************************************************************************)
EXTENDS Naturals, Sequences

CONSTANTS
  Producers,   \* the threads that call log_write
  RingSlots,   \* LOG_RING_SLOTS
  MaxLines     \* bound: messages of each producer

ASSUME LogRingAssumption == RingSlots \in Nat \ {0} /\ MaxLines \in Nat

VARIABLES
  slots,       \* the slots of the ring
  head, tail,  \* lines published and lines taken since log_init
  dropped,     \* lines for which there was no room
  running,     \* the consumer is to go on
  mode,        \* the log is "on", "stopping" (log_shutdown waits) or "off"
  prod,        \* where each producer is in log_write, and the head it read
  sent,        \* messages each producer has logged
  con,         \* where the consumer is: drain() has read tail t and head h
  accepted,    \* ghost: lines published, in that order
  out          \* ghost: what the consumer took from the slots, in that order

vars == <<slots, head, tail, dropped, running, mode, prod, sent, con, accepted, out>>

None == <<>>
Index == 0..(RingSlots - 1)
Line(p) == <<p, sent[p]>>

Idle  == [pc |-> "idle", head |-> 0]
Awake == [pc |-> "check", t |-> 0, h |-> 0, last |-> FALSE]

Init ==
  /\ slots = [i \in Index |-> [time |-> None, text |-> None]]
  /\ head = 0 /\ tail = 0 /\ dropped = 0
  /\ running = TRUE /\ mode = "on"
  /\ prod = [p \in Producers |-> Idle]
  /\ sent = [p \in Producers |-> 0]
  /\ con = Awake
  /\ accepted = <<>> /\ out = <<>>

----------------------------------------------------------------------------
(* log_write.                                                              *)

Goes(p, pc) == prod' = [prod EXCEPT ![p].pc = pc]

\* A message whose level is not filtered out; head is read.
Begin(p) ==
  /\ mode = "on" /\ prod[p].pc = "idle" /\ sent[p] < MaxLines
  /\ sent' = [sent EXCEPT ![p] = @ + 1]
  /\ prod' = [prod EXCEPT ![p] = [pc |-> "tail", head |-> head]]
  /\ UNCHANGED <<slots, head, tail, dropped, running, mode, con, accepted, out>>

\* Mutants: one line more than there are slots, and one line less.
NoRoomLate(h, t)  == h < t \/ h - t > RingSlots
NoRoomEarly(h, t) == h < t \/ h - t >= RingSlots - 1

\* head - tail is unsigned: a head that is behind counts as a full ring.
NoRoom(h, t) == h < t \/ h - t >= RingSlots

\* tail is read: there is a slot for the line, or it is dropped.
Reserve(p) ==
  /\ prod[p].pc = "tail" /\ ~NoRoom(prod[p].head, tail)
  /\ Goes(p, "stamp")
  /\ UNCHANGED <<slots, head, tail, dropped, running, mode, sent, con, accepted, out>>

DropLine(p) ==
  /\ prod[p].pc = "tail" /\ NoRoom(prod[p].head, tail)
  /\ Goes(p, "idle")
  /\ dropped' = dropped + 1
  /\ UNCHANGED <<slots, head, tail, running, mode, sent, con, accepted, out>>

Slot(p) == prod[p].head % RingSlots

Stamp(p) ==
  /\ prod[p].pc = "stamp"
  /\ slots' = [slots EXCEPT ![Slot(p)].time = Line(p)]
  /\ Goes(p, "fill")
  /\ UNCHANGED <<head, tail, dropped, running, mode, sent, con, accepted, out>>

Fill(p) ==
  /\ prod[p].pc = "fill"
  /\ slots' = [slots EXCEPT ![Slot(p)].text = Line(p)]
  /\ Goes(p, "publish")
  /\ UNCHANGED <<head, tail, dropped, running, mode, sent, con, accepted, out>>

Publish(p) ==
  /\ prod[p].pc = "publish"
  /\ head' = prod[p].head + 1
  /\ accepted' = Append(accepted, Line(p))
  /\ Goes(p, "idle")
  /\ UNCHANGED <<slots, tail, dropped, running, mode, sent, con, out>>

----------------------------------------------------------------------------
(* The consumer thread.                                                    *)

\* Mutant: nothing is drained once the thread is told to stop.
CheckAndLeave ==
  /\ con.pc = "check"
  /\ con' = [con EXCEPT !.pc = IF running THEN "load" ELSE "exit"]
  /\ UNCHANGED <<slots, head, tail, dropped, running, mode, prod, sent, accepted, out>>

\* The condition of the loop; the last drain comes after it fails.
Check ==
  /\ con.pc = "check"
  /\ con' = [con EXCEPT !.pc = "load", !.last = ~running]
  /\ UNCHANGED <<slots, head, tail, dropped, running, mode, prod, sent, accepted, out>>

\* Mutant: head is not read again.
LoadOnce ==
  /\ con.pc = "load"
  /\ con' = [con EXCEPT !.pc = "drain", !.t = tail, !.h = IF @ = 0 THEN head ELSE @]
  /\ UNCHANGED <<slots, head, tail, dropped, running, mode, prod, sent, accepted, out>>

\* drain() reads tail and head once.
Load ==
  /\ con.pc = "load"
  /\ con' = [con EXCEPT !.pc = "drain", !.t = tail, !.h = head]
  /\ UNCHANGED <<slots, head, tail, dropped, running, mode, prod, sent, accepted, out>>

\* A line goes to the file; a write that fails loses it all the same.
Take ==
  /\ con.pc = "drain" /\ con.t # con.h
  /\ out' = Append(out, slots[con.t % RingSlots])
  /\ con' = [con EXCEPT !.pc = "taken"]
  /\ UNCHANGED <<slots, head, tail, dropped, running, mode, prod, sent, accepted>>

\* The slot is given back.
Release ==
  /\ con.pc = "taken"
  /\ tail' = con.t + 1
  /\ con' = [con EXCEPT !.pc = "drain", !.t = @ + 1]
  /\ UNCHANGED <<slots, head, dropped, running, mode, prod, sent, accepted, out>>

Drained ==
  /\ con.pc = "drain" /\ con.t = con.h
  /\ con' = [con EXCEPT !.pc = IF con.last THEN "exit" ELSE "check"]
  /\ UNCHANGED <<slots, head, tail, dropped, running, mode, prod, sent, accepted, out>>

Consumer == Check \/ Load \/ Take \/ Release \/ Drained

----------------------------------------------------------------------------
(* log_shutdown, by the thread of the loop after health_stop, so that no   *)
(* other thread is in log_write.                                           *)

Quiet == \A p \in Producers : prod[p].pc = "idle"

Shutdown ==
  /\ mode = "on" /\ Quiet
  /\ running' = FALSE /\ mode' = "stopping"
  /\ UNCHANGED <<slots, head, tail, dropped, prod, sent, con, accepted, out>>

Join ==
  /\ mode = "stopping" /\ con.pc = "exit"
  /\ mode' = "off"
  /\ UNCHANGED <<slots, head, tail, dropped, running, prod, sent, con, accepted, out>>

\* log_init after log_shutdown: everything starts from zero.
Restart ==
  /\ mode = "off"
  /\ slots' = [i \in Index |-> [time |-> None, text |-> None]]
  /\ head' = 0 /\ tail' = 0 /\ dropped' = 0
  /\ running' = TRUE /\ mode' = "on"
  /\ prod' = [p \in Producers |-> Idle]
  /\ sent' = [p \in Producers |-> 0]
  /\ con' = Awake
  /\ accepted' = <<>> /\ out' = <<>>

----------------------------------------------------------------------------

Log(p) == Begin(p) \/ Reserve(p) \/ DropLine(p) \/ Stamp(p) \/ Fill(p) \/ Publish(p)

Next == (\E p \in Producers : Log(p)) \/ Consumer \/ Shutdown \/ Join \/ Restart

Spec == Init /\ [][Next]_vars

\* The consumer thread keeps running, and log_shutdown waits for it.
FairSpec == Spec /\ WF_vars(Consumer) /\ WF_vars(Join)

----------------------------------------------------------------------------
(* Properties.                                                             *)

PCs == {"idle", "tail", "stamp", "fill", "publish"}
Lines == Producers \X (1..MaxLines)
Contents == [time : Lines \cup {None}, text : Lines \cup {None}]

\* With one producer the ring never holds more lines than it has slots.
TypeOK ==
  /\ slots \in [Index -> Contents]
  /\ tail \in Nat /\ head \in tail..(tail + RingSlots) /\ dropped \in Nat
  /\ running \in BOOLEAN /\ mode \in {"on", "stopping", "off"}
  /\ prod \in [Producers -> [pc : PCs, head : Nat]]
  /\ sent \in [Producers -> 0..MaxLines]
  /\ con \in [pc : {"check", "load", "drain", "taken", "exit"}, t : Nat, h : Nat, last : BOOLEAN]
  /\ accepted \in Seq(Lines) /\ out \in Seq(Contents)

Whole(l) == [time |-> l, text |-> l]

\* The file holds the lines in the order they were logged, each of them once
\* and whole: no slot is filled again before it was read, and none is read
\* before it was filled (log_write and drain).
InOrder ==
  /\ Len(out) <= Len(accepted)
  /\ \A n \in 1..Len(out) : out[n] = Whole(accepted[n])

\* When log_shutdown returns, every line that was not dropped is in the file.
Flushed == mode = "off" => Len(out) = Len(accepted)

\* A line that was not dropped is taken, unless the log is started over.
Reaches == \A n \in 1..(2 * MaxLines) : Len(accepted) >= n ~> (Len(out) >= n \/ accepted = <<>>)

\* What waits in the ring, and what reached the file.
Waiting == [n \in 1..(head - tail) |-> slots[(tail + n - 1) % RingSlots].text]
Written == [n \in 1..Len(out) |-> out[n].text]

\* What log_write and the consumer are together: a bounded queue.
Queue == INSTANCE LogQueue WITH
  Lines <- Lines,
  Room  <- RingSlots,
  queue <- Waiting,
  busy  <- con.pc = "taken",
  written <- Written,
  lost <- dropped
Implements == Queue!Spec
=============================================================================
