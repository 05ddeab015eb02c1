--------------------------- MODULE Threads_proof ---------------------------
(***************************************************************************)
(* Proofs about what two threads of a worker share without a lock: the     *)
(* ring of the log, with one producer and for every size of the ring, and  *)
(* the flags of the backends, for any number of backends and connections,  *)
(* any weights and any of the algorithms.                                  *)
(***************************************************************************)
EXTENDS LogRing, BackendPool, NaturalsInduction, WellFoundedInduction, SequenceTheorems,
        FiniteSetTheorems, TLAPS

(***************************************************************************)
(* Part 1: the ring of the log.                                            *)
(***************************************************************************)

(***************************************************************************)
(* Positions of the ring less than a turn apart have slots of their own.   *)
(***************************************************************************)
LEMMA SlotsDiffer ==
  ASSUME NEW n \in Nat \ {0}, NEW a \in Nat, NEW b \in Nat, a < b, b < a + n
  PROVE  a % n # b % n
<1> SUFFICES ASSUME a % n = b % n PROVE FALSE
  OBVIOUS
<1>1. a = n * (a \div n) + (a % n) /\ a \div n \in Int
  OBVIOUS
<1>2. b = n * (b \div n) + (b % n) /\ b \div n \in Int
  OBVIOUS
<1> DEFINE k == (b \div n) - (a \div n)
<1>3. k \in Int /\ b - a = n * k
  BY <1>1, <1>2
<1>4. k >= 1
  BY <1>3
<1>5. n * k >= n
  BY <1>3, <1>4
<1> QED
  BY <1>3, <1>5

----------------------------------------------------------------------------
(* The inductive invariant.                                                *)

\* The counters say how many lines were published and taken.
Sync ==
  /\ Len(accepted) = head
  /\ Len(out) = IF con.pc = "taken" THEN tail + 1 ELSE tail

\* What a producer found out in log_write is still so.
Writer ==
  \A p \in Producers :
    /\ prod[p].pc # "idle" => prod[p].head = head /\ sent[p] # 0 /\ mode = "on"
    /\ prod[p].pc \in {"stamp", "fill", "publish"} => head < tail + RingSlots
    /\ prod[p].pc = "fill" => slots[head % RingSlots].time = Line(p)
    /\ prod[p].pc = "publish" => slots[head % RingSlots] = Whole(Line(p))

\* What the consumer found out in drain() is still so, and it does not leave
\* before it took everything.
Reader ==
  /\ con.pc \in {"drain", "taken"} =>
       /\ con.t = tail /\ con.t <= con.h /\ con.h <= head
       /\ con.last => con.h = head
  /\ con.pc = "taken" => con.t < con.h
  /\ con.pc \in {"load", "drain", "taken"} /\ con.last => ~running
  /\ con.pc = "exit" => ~running /\ tail = head
  /\ ~running <=> mode # "on"
  /\ mode = "off" => con.pc = "exit"

\* The slots between tail and head hold the lines that were not taken yet.
Ring == \A i \in Nat : tail <= i /\ i < head => slots[i % RingSlots] = Whole(accepted[i + 1])

IInv == TypeOK /\ Sync /\ Writer /\ Reader /\ Ring /\ InOrder

(***************************************************************************)
(* The invariant holds when log_init is done, the first time or again.     *)
(***************************************************************************)
LEMMA InitInv == Init => IInv
<1> SUFFICES ASSUME Init PROVE IInv
  OBVIOUS
<1> USE LogRingAssumption DEF Init
<1>1. TypeOK
  BY DEF TypeOK, Contents, PCs, Idle, Awake
<1>2. Sync /\ Reader
  BY DEF Sync, Reader, Awake
<1>3. Writer /\ Ring /\ InOrder
  BY DEF Writer, Ring, InOrder, Idle
<1> QED
  BY <1>1, <1>2, <1>3 DEF IInv

(***************************************************************************)
(* With one producer no step of either thread breaks it.                   *)
(***************************************************************************)
LEMMA StepInv ==
  ASSUME NEW p, Producers = {p}, IInv, [Next]_vars
  PROVE  IInv'
<1> USE LogRingAssumption
<1>0. /\ \A i \in Nat : i % RingSlots \in Index
      /\ p \in Producers
  BY DEF Index
<1>a. /\ head \in Nat /\ tail \in Nat /\ tail <= head /\ head <= tail + RingSlots
      /\ dropped \in Nat /\ RingSlots \in Nat
      /\ accepted \in Seq(Lines) /\ out \in Seq(Contents)
      /\ prod[p].pc \in PCs /\ prod[p].head \in Nat /\ sent[p] \in 0..MaxLines
      /\ con.t \in Nat /\ con.h \in Nat
  BY <1>0 DEF IInv, TypeOK
<1>b. \A n \in Nat : n + 1 \in Nat
  OBVIOUS
<1>c. prod[p].pc \in {"stamp", "fill", "publish"} => Line(p) \in Lines
  <2> SUFFICES ASSUME prod[p].pc \in {"stamp", "fill", "publish"} PROVE Line(p) \in Lines
    OBVIOUS
  <2>1. sent[p] # 0
    BY <1>0 DEF IInv, Writer
  <2>2. sent[p] \in 1..MaxLines
    BY <1>a, <2>1
  <2> QED
    BY <1>0, <2>2 DEF Line, Lines
<1>1. CASE UNCHANGED vars
  BY <1>1 DEF IInv, vars, TypeOK, Sync, Writer, Reader, Ring, InOrder, Line
<1>2. CASE Begin(p)
  <2>1. TypeOK'
    <3>1. sent' \in [Producers -> 0..MaxLines]
      BY <1>2, <1>a DEF Begin, IInv, TypeOK
    <3>2. prod' \in [Producers -> [pc : PCs, head : Nat]]
      BY <1>2, <1>a DEF Begin, IInv, TypeOK, PCs
    <3> QED
      BY <1>2, <3>1, <3>2 DEF Begin, IInv, TypeOK
  <2>2. Sync'
    BY <1>2, <1>0 DEF Begin, IInv, TypeOK, Sync
  <2>3. Writer'
    BY <1>2, <1>0 DEF Begin, IInv, TypeOK, Writer, Line, Whole
  <2>4. Reader'
    BY <1>2, <1>0 DEF Begin, IInv, TypeOK, Sync, Writer, Reader
  <2>5. Ring'
    BY <1>2, <1>0 DEF Begin, IInv, TypeOK, Sync, Reader, Writer, Ring, Line, Whole
  <2>6. InOrder'
    BY <1>2, <1>0 DEF Begin, IInv, TypeOK, Sync, Ring, Reader, InOrder, Line
  <2> QED
    BY <2>1, <2>2, <2>3, <2>4, <2>5, <2>6 DEF IInv
<1>3. CASE Reserve(p)
  <2>1. TypeOK'
    BY <1>3, <1>0 DEF Reserve, Goes, NoRoom, IInv, TypeOK, Line, PCs
  <2>2. Sync'
    BY <1>3, <1>0 DEF Reserve, Goes, NoRoom, IInv, TypeOK, Sync
  <2>3. Writer'
    BY <1>3, <1>0 DEF Reserve, Goes, NoRoom, IInv, TypeOK, Writer, Line, Whole
  <2>4. Reader'
    BY <1>3, <1>0 DEF Reserve, Goes, NoRoom, IInv, TypeOK, Sync, Writer, Reader
  <2>5. Ring'
    BY <1>3, <1>0 DEF Reserve, Goes, NoRoom, IInv, TypeOK, Sync, Reader, Writer, Ring, Line, Whole
  <2>6. InOrder'
    BY <1>3, <1>0 DEF Reserve, Goes, NoRoom, IInv, TypeOK, Sync, Ring, Reader, InOrder, Line
  <2> QED
    BY <2>1, <2>2, <2>3, <2>4, <2>5, <2>6 DEF IInv
<1>4. CASE DropLine(p)
  <2>1. TypeOK'
    <3>1. dropped' \in Nat
      BY <1>4, <1>a, <1>b DEF DropLine
    <3>2. prod' \in [Producers -> [pc : PCs, head : Nat]]
      BY <1>4 DEF DropLine, Goes, IInv, TypeOK, PCs
    <3> QED
      BY <1>4, <3>1, <3>2 DEF DropLine, IInv, TypeOK
  <2>2. Sync'
    BY <1>4, <1>0 DEF DropLine, Goes, IInv, TypeOK, Sync
  <2>3. Writer'
    BY <1>4, <1>0 DEF DropLine, Goes, IInv, TypeOK, Writer, Line, Whole
  <2>4. Reader'
    BY <1>4, <1>0 DEF DropLine, Goes, IInv, TypeOK, Sync, Writer, Reader
  <2>5. Ring'
    BY <1>4, <1>0 DEF DropLine, Goes, IInv, TypeOK, Sync, Reader, Writer, Ring, Line, Whole
  <2>6. InOrder'
    BY <1>4, <1>0 DEF DropLine, Goes, IInv, TypeOK, Sync, Ring, Reader, InOrder, Line
  <2> QED
    BY <2>1, <2>2, <2>3, <2>4, <2>5, <2>6 DEF IInv
<1>5. CASE Stamp(p)
  <2>1. TypeOK'
    <3>1. slots' \in [Index -> Contents]
      <4>1. Line(p) \in Lines
        BY <1>5, <1>c DEF Stamp
      <4> QED
        BY <1>5, <4>1 DEF Stamp, IInv, TypeOK, Contents
    <3>2. prod' \in [Producers -> [pc : PCs, head : Nat]]
      BY <1>5 DEF Stamp, Goes, IInv, TypeOK, PCs
    <3> QED
      BY <1>5, <3>1, <3>2 DEF Stamp, IInv, TypeOK
  <2>2. Sync'
    BY <1>5, <1>0 DEF Stamp, Slot, Goes, IInv, TypeOK, Sync
  <2>3. Writer'
    BY <1>5, <1>0 DEF Stamp, Slot, Goes, IInv, TypeOK, Writer, Line, Whole
  <2>4. Reader'
    BY <1>5, <1>0 DEF Stamp, Slot, Goes, IInv, TypeOK, Sync, Writer, Reader
  <2>5. Ring'
    BY <1>5, <1>0, SlotsDiffer DEF Stamp, Slot, Goes, IInv, TypeOK, Sync, Reader, Writer, Ring, Line, Whole
  <2>6. InOrder'
    BY <1>5, <1>0 DEF Stamp, Slot, Goes, IInv, TypeOK, Sync, Ring, Reader, InOrder, Line
  <2> QED
    BY <2>1, <2>2, <2>3, <2>4, <2>5, <2>6 DEF IInv
<1>6. CASE Fill(p)
  <2>1. TypeOK'
    <3>1. slots' \in [Index -> Contents]
      <4>1. Line(p) \in Lines
        BY <1>6, <1>c DEF Fill
      <4> QED
        BY <1>6, <4>1 DEF Fill, IInv, TypeOK, Contents
    <3>2. prod' \in [Producers -> [pc : PCs, head : Nat]]
      BY <1>6 DEF Fill, Goes, IInv, TypeOK, PCs
    <3> QED
      BY <1>6, <3>1, <3>2 DEF Fill, IInv, TypeOK
  <2>2. Sync'
    BY <1>6, <1>0 DEF Fill, Slot, Goes, IInv, TypeOK, Sync
  <2>3. Writer'
    <3>1. prod[p].head = head /\ slots[head % RingSlots].time = Line(p)
      BY <1>6, <1>0 DEF Fill, IInv, Writer
    <3>2. slots'[head % RingSlots] = Whole(Line(p))
      BY <1>6, <1>0, <1>a, <3>1 DEF Fill, Slot, IInv, TypeOK, Contents, Whole
    <3> QED
      BY <1>6, <1>0, <3>2 DEF Fill, Goes, IInv, TypeOK, Writer, Line, Whole
  <2>4. Reader'
    BY <1>6, <1>0 DEF Fill, Slot, Goes, IInv, TypeOK, Sync, Writer, Reader
  <2>5. Ring'
    BY <1>6, <1>0, SlotsDiffer DEF Fill, Slot, Goes, IInv, TypeOK, Sync, Reader, Writer, Ring, Line, Whole
  <2>6. InOrder'
    BY <1>6, <1>0 DEF Fill, Slot, Goes, IInv, TypeOK, Sync, Ring, Reader, InOrder, Line
  <2> QED
    BY <2>1, <2>2, <2>3, <2>4, <2>5, <2>6 DEF IInv
<1>7. CASE Publish(p)
  <2>1. TypeOK'
    <3>1. prod[p].head = head /\ head < tail + RingSlots
      BY <1>7, <1>0 DEF Publish, IInv, Writer
    <3>2. head' \in tail..(tail + RingSlots)
      BY <1>7, <1>a, <3>1 DEF Publish
    <3>3. accepted' \in Seq(Lines)
      BY <1>7, <1>a, <1>c DEF Publish
    <3>4. prod' \in [Producers -> [pc : PCs, head : Nat]]
      BY <1>7 DEF Publish, Goes, IInv, TypeOK, PCs
    <3> QED
      BY <1>7, <3>2, <3>3, <3>4 DEF Publish, IInv, TypeOK
  <2>2. Sync'
    <3>1. head' = head + 1 /\ accepted' = Append(accepted, Line(p)) /\ UNCHANGED <<out, con, tail>>
      BY <1>7, <1>0 DEF Publish, IInv, Writer
    <3>2. Len(accepted') = Len(accepted) + 1
      BY <1>7, <1>a, <1>c, <3>1 DEF Publish
    <3> QED
      BY <3>1, <3>2 DEF IInv, Sync
  <2>3. Writer'
    BY <1>7, <1>0 DEF Publish, Goes, IInv, TypeOK, Writer, Line, Whole
  <2>4. Reader'
    <3>1. head' = head + 1 /\ mode = "on"
      BY <1>7, <1>0 DEF Publish, IInv, Writer
    <3> QED
      BY <1>7, <1>a, <3>1 DEF Publish, IInv, Reader
  <2>5. Ring'
    <3>1. /\ head' = head + 1 /\ accepted' = Append(accepted, Line(p)) /\ tail' = tail /\ slots' = slots
          /\ slots[head % RingSlots] = Whole(Line(p))
      BY <1>7, <1>0 DEF Publish, IInv, Writer
    <3>2. accepted'[head + 1] = Line(p) /\ \A i \in Nat : i < head => accepted'[i + 1] = accepted[i + 1]
      BY <1>a, <1>c, <1>7, <3>1 DEF IInv, Sync, Publish
    <3> SUFFICES ASSUME NEW i \in Nat, tail <= i, i < head + 1
                 PROVE  slots[i % RingSlots] = Whole(accepted'[i + 1])
      BY <3>1 DEF Ring, Whole
    <3>3. CASE i = head
      BY <3>1, <3>2, <3>3
    <3>4. CASE i < head
      BY <3>2, <3>4 DEF IInv, Ring
    <3> QED
      BY <1>a, <3>3, <3>4
  <2>6. InOrder'
    <3>1. accepted' = Append(accepted, Line(p)) /\ out' = out
      BY <1>7 DEF Publish
    <3>2. Len(accepted') = Len(accepted) + 1 /\ \A n \in 1..Len(accepted) : accepted'[n] = accepted[n]
      BY <1>a, <1>7, <1>c, <3>1 DEF Publish
    <3>3. Len(accepted) \in Nat /\ Len(out) \in Nat
      BY <1>a
    <3> QED
      BY <3>1, <3>2, <3>3 DEF IInv, InOrder, Whole
  <2> QED
    BY <2>1, <2>2, <2>3, <2>4, <2>5, <2>6 DEF IInv
<1>8. CASE Check
  <2>1. TypeOK'
    BY <1>8, <1>0 DEF Check, IInv, TypeOK, Line
  <2>2. Sync'
    BY <1>8, <1>0 DEF Check, IInv, TypeOK, Sync
  <2>3. Writer'
    BY <1>8, <1>0 DEF Check, IInv, TypeOK, Writer, Line, Whole
  <2>4. Reader'
    BY <1>8, <1>0 DEF Check, IInv, TypeOK, Sync, Writer, Reader
  <2>5. Ring'
    BY <1>8, <1>0 DEF Check, IInv, TypeOK, Sync, Reader, Writer, Ring, Line, Whole
  <2>6. InOrder'
    BY <1>8, <1>0 DEF Check, IInv, TypeOK, Sync, Ring, Reader, InOrder, Line
  <2> QED
    BY <2>1, <2>2, <2>3, <2>4, <2>5, <2>6 DEF IInv
<1>9. CASE Load
  <2>1. TypeOK'
    <3>1. con' \in [pc : {"check", "load", "drain", "taken", "exit"}, t : Nat, h : Nat, last : BOOLEAN]
      BY <1>9, <1>a DEF Load, IInv, TypeOK
    <3> QED
      BY <1>9, <3>1 DEF Load, IInv, TypeOK
  <2>2. Sync'
    BY <1>9, <1>0 DEF Load, IInv, TypeOK, Sync
  <2>3. Writer'
    BY <1>9, <1>0 DEF Load, IInv, TypeOK, Writer, Line, Whole
  <2>4. Reader'
    BY <1>9, <1>0 DEF Load, IInv, TypeOK, Sync, Writer, Reader
  <2>5. Ring'
    BY <1>9, <1>0 DEF Load, IInv, TypeOK, Sync, Reader, Writer, Ring, Line, Whole
  <2>6. InOrder'
    BY <1>9, <1>0 DEF Load, IInv, TypeOK, Sync, Ring, Reader, InOrder, Line
  <2> QED
    BY <2>1, <2>2, <2>3, <2>4, <2>5, <2>6 DEF IInv
<1>10. CASE Take
  <2>1. TypeOK'
    <3>1. slots[con.t % RingSlots] \in Contents
      BY <1>0, <1>a DEF IInv, TypeOK
    <3>2. out' \in Seq(Contents)
      BY <1>10, <1>a, <3>1 DEF Take
    <3>3. con' \in [pc : {"check", "load", "drain", "taken", "exit"}, t : Nat, h : Nat, last : BOOLEAN]
      BY <1>10 DEF Take, IInv, TypeOK
    <3> QED
      BY <1>10, <3>2, <3>3 DEF Take, IInv, TypeOK
  <2>2. Sync'
    BY <1>10, <1>0 DEF Take, IInv, TypeOK, Sync
  <2>3. Writer'
    BY <1>10, <1>0 DEF Take, IInv, TypeOK, Writer, Line, Whole
  <2>4. Reader'
    BY <1>10, <1>0 DEF Take, IInv, TypeOK, Sync, Writer, Reader
  <2>5. Ring'
    BY <1>10, <1>0 DEF Take, IInv, TypeOK, Sync, Reader, Writer, Ring, Line, Whole
  <2>6. InOrder'
    <3>1. con.t = tail /\ tail < head /\ Len(out) = tail /\ Len(accepted) = head
      BY <1>10, <1>a DEF Take, IInv, Reader, Sync
    <3>2. slots[tail % RingSlots] = Whole(accepted[tail + 1])
      BY <1>a, <3>1 DEF IInv, Ring
    <3>3. slots[tail % RingSlots] \in Contents
      BY <1>0, <1>a DEF IInv, TypeOK
    <3>4. /\ Len(out') = tail + 1 /\ out'[tail + 1] = Whole(accepted[tail + 1])
          /\ \A n \in 1..tail : out'[n] = out[n]
      BY <1>10, <1>a, <3>1, <3>2, <3>3 DEF Take
    <3>5. accepted' = accepted
      BY <1>10 DEF Take
    <3> QED
      BY <1>a, <3>1, <3>4, <3>5 DEF IInv, InOrder, Whole
  <2> QED
    BY <2>1, <2>2, <2>3, <2>4, <2>5, <2>6 DEF IInv
<1>11. CASE Release
  <2>1. TypeOK'
    <3>1. con.t = tail /\ tail < head
      BY <1>11, <1>a DEF Release, IInv, Reader
    <3>2. tail' \in Nat /\ head \in tail'..(tail' + RingSlots)
      BY <1>11, <1>a, <3>1 DEF Release
    <3>3. con' \in [pc : {"check", "load", "drain", "taken", "exit"}, t : Nat, h : Nat, last : BOOLEAN]
      BY <1>11, <1>a, <1>b DEF Release, IInv, TypeOK
    <3> QED
      BY <1>11, <3>2, <3>3 DEF Release, IInv, TypeOK
  <2>2. Sync'
    BY <1>11, <1>a DEF Release, IInv, Sync, Reader, TypeOK
  <2>3. Writer'
    <3>1. tail' = tail + 1
      BY <1>11 DEF Release, IInv, Reader
    <3>2. prod[p].pc \in {"stamp", "fill", "publish"} => head < tail' + RingSlots
      BY <1>0, <1>a, <3>1 DEF IInv, Writer
    <3> QED
      BY <1>11, <1>0, <3>2 DEF Release, IInv, Writer, Line, Whole
  <2>4. Reader'
    BY <1>11, <1>0 DEF Release, IInv, TypeOK, Sync, Writer, Reader
  <2>5. Ring'
    <3>1. tail' = tail + 1 /\ UNCHANGED <<slots, head, accepted>>
      BY <1>11 DEF Release, IInv, Reader
    <3> SUFFICES ASSUME NEW i \in Nat, tail + 1 <= i, i < head
                 PROVE  slots[i % RingSlots] = Whole(accepted[i + 1])
      BY <3>1 DEF Ring, Whole
    <3>2. tail <= i
      BY <1>a
    <3> QED
      BY <3>2 DEF IInv, Ring
  <2>6. InOrder'
    BY <1>11, <1>0 DEF Release, IInv, TypeOK, Sync, Ring, Reader, InOrder, Line
  <2> QED
    BY <2>1, <2>2, <2>3, <2>4, <2>5, <2>6 DEF IInv
<1>12. CASE Drained
  <2>1. TypeOK'
    BY <1>12, <1>0 DEF Drained, IInv, TypeOK, Line
  <2>2. Sync'
    BY <1>12, <1>0 DEF Drained, IInv, TypeOK, Sync
  <2>3. Writer'
    BY <1>12, <1>0 DEF Drained, IInv, TypeOK, Writer, Line, Whole
  <2>4. Reader'
    BY <1>12, <1>0 DEF Drained, IInv, TypeOK, Sync, Writer, Reader
  <2>5. Ring'
    BY <1>12, <1>0 DEF Drained, IInv, TypeOK, Sync, Reader, Writer, Ring, Line, Whole
  <2>6. InOrder'
    BY <1>12, <1>0 DEF Drained, IInv, TypeOK, Sync, Ring, Reader, InOrder, Line
  <2> QED
    BY <2>1, <2>2, <2>3, <2>4, <2>5, <2>6 DEF IInv
<1>13. CASE Shutdown
  <2>1. TypeOK'
    BY <1>13, <1>0 DEF Shutdown, Quiet, IInv, TypeOK, Line
  <2>2. Sync'
    BY <1>13, <1>0 DEF Shutdown, Quiet, IInv, TypeOK, Sync
  <2>3. Writer'
    BY <1>13, <1>0 DEF Shutdown, Quiet, IInv, TypeOK, Writer, Line, Whole
  <2>4. Reader'
    BY <1>13, <1>0 DEF Shutdown, Quiet, IInv, TypeOK, Sync, Writer, Reader
  <2>5. Ring'
    BY <1>13, <1>0 DEF Shutdown, Quiet, IInv, TypeOK, Sync, Reader, Writer, Ring, Line, Whole
  <2>6. InOrder'
    BY <1>13, <1>0 DEF Shutdown, Quiet, IInv, TypeOK, Sync, Ring, Reader, InOrder, Line
  <2> QED
    BY <2>1, <2>2, <2>3, <2>4, <2>5, <2>6 DEF IInv
<1>14. CASE Join
  <2>1. TypeOK'
    BY <1>14, <1>0 DEF Join, IInv, TypeOK, Line
  <2>2. Sync'
    BY <1>14, <1>0 DEF Join, IInv, TypeOK, Sync
  <2>3. Writer'
    BY <1>14, <1>0 DEF Join, IInv, TypeOK, Writer, Line, Whole
  <2>4. Reader'
    BY <1>14, <1>0 DEF Join, IInv, TypeOK, Sync, Writer, Reader
  <2>5. Ring'
    BY <1>14, <1>0 DEF Join, IInv, TypeOK, Sync, Reader, Writer, Ring, Line, Whole
  <2>6. InOrder'
    BY <1>14, <1>0 DEF Join, IInv, TypeOK, Sync, Ring, Reader, InOrder, Line
  <2> QED
    BY <2>1, <2>2, <2>3, <2>4, <2>5, <2>6 DEF IInv
<1>15. CASE Restart
  <2>1. Init'
    BY <1>15 DEF Restart, Init
  <2> QED
    BY <2>1, InitInv, PTL
<1> QED
  BY <1>1, <1>2, <1>3, <1>4, <1>5, <1>6, <1>7, <1>8, <1>9, <1>10, <1>11, <1>12, <1>13, <1>14, <1>15 DEF Next, Log, Consumer

(***************************************************************************)
(* With a single producer, whatever the size of the ring and the speed of  *)
(* the two threads: the file holds the lines in order, each once and whole *)
(* (log_write, drain).                                                     *)
(***************************************************************************)
THEOREM RingInOrder ==
  ASSUME NEW p, Producers = {p}
  PROVE  Spec => []InOrder
<1>1. IInv /\ [Next]_vars => IInv'
  BY StepInv
<1>2. IInv => InOrder
  BY DEF IInv
<1> QED
  BY <1>1, <1>2, InitInv, PTL DEF Spec

\* The ring never holds more lines than it has slots (log_write's test of tail).
THEOREM RingBounded ==
  ASSUME NEW p, Producers = {p}
  PROVE  Spec => []TypeOK
<1>1. IInv /\ [Next]_vars => IInv'
  BY StepInv
<1>2. IInv => TypeOK
  BY DEF IInv
<1> QED
  BY <1>1, <1>2, InitInv, PTL DEF Spec

(***************************************************************************)
(* When log_shutdown returns no line is left in the ring.                  *)
(***************************************************************************)
THEOREM ShutdownFlushes ==
  ASSUME NEW p, Producers = {p}
  PROVE  Spec => []Flushed
<1>1. IInv /\ [Next]_vars => IInv'
  BY StepInv
<1>2. IInv => Flushed
  BY DEF IInv, Flushed, Sync, Reader
<1> QED
  BY <1>1, <1>2, InitInv, PTL DEF Spec

----------------------------------------------------------------------------
(***************************************************************************)
(* The ring of log.c, with one producer and of any size, is the bounded    *)
(* queue of LogQueue: each step of either thread is a step of the queue or *)
(* leaves it as it is.                                                      *)
(***************************************************************************)

\* The lines that were published and not taken, by their position.
Awaiting == [n \in 1..(head - tail) |-> accepted[tail + n]]
Gone     == [n \in 1..Len(out) |-> accepted[n]]

\* What the queue is made of, and that it is made of lines.
Mapped ==
  /\ Waiting = Awaiting /\ Awaiting \in Seq(Lines) /\ Len(Awaiting) = head - tail
  /\ Written = Gone /\ Gone \in Seq(Lines) /\ Len(Gone) = Len(out)

(***************************************************************************)
(* The slots between tail and head say what waits (Ring), and the file     *)
(* what was taken (InOrder).                                                *)
(***************************************************************************)
LEMMA InvMapped == IInv => Mapped
<1> SUFFICES ASSUME IInv PROVE Mapped
  OBVIOUS
<1> USE LogRingAssumption
<1>1. /\ head \in Nat /\ tail \in Nat /\ tail <= head /\ head - tail \in Nat
      /\ accepted \in Seq(Lines) /\ out \in Seq(Contents) /\ Len(out) \in Nat
      /\ Len(accepted) = head /\ Len(out) <= Len(accepted)
  BY DEF IInv, TypeOK, Sync, InOrder
<1>2. ASSUME NEW n \in 1..(head - tail)
      PROVE  /\ accepted[tail + n] \in Lines
             /\ slots[(tail + n - 1) % RingSlots].text = accepted[tail + n]
  <2>1. tail + n - 1 \in Nat /\ tail <= tail + n - 1 /\ tail + n - 1 < head
    BY <1>1
  <2>2. slots[(tail + n - 1) % RingSlots] = Whole(accepted[(tail + n - 1) + 1])
    BY <2>1 DEF IInv, Ring
  <2>3. (tail + n - 1) + 1 = tail + n /\ tail + n \in 1..Len(accepted)
    BY <1>1
  <2> QED
    BY <1>1, <2>2, <2>3, ElementOfSeq DEF Whole
<1>3. ASSUME NEW n \in 1..Len(out)
      PROVE  accepted[n] \in Lines /\ out[n].text = accepted[n]
  <2>1. n \in 1..Len(accepted) /\ out[n] = Whole(accepted[n])
    BY <1>1 DEF IInv, InOrder
  <2> QED
    BY <1>1, <2>1, ElementOfSeq DEF Whole
<1>4. Waiting = Awaiting /\ Awaiting \in Seq(Lines) /\ Len(Awaiting) = head - tail
  <2>1. Waiting = Awaiting
    BY <1>2 DEF Waiting, Awaiting
  <2>2. Awaiting \in [1..(head - tail) -> Lines]
    BY <1>2 DEF Awaiting
  <2>3. head - tail \in Nat
    BY <1>1
  <2>4. Awaiting \in Seq(Lines)
    BY <2>2, <2>3, SeqDef
  <2>5. DOMAIN Awaiting = 1..(head - tail)
    BY DEF Awaiting
  <2>6. Len(Awaiting) = head - tail
    BY <2>3, <2>4, <2>5, LenProperties
  <2> QED
    BY <2>1, <2>4, <2>6
<1>5. Written = Gone /\ Gone \in Seq(Lines) /\ Len(Gone) = Len(out)
  BY <1>1, <1>3 DEF Written, Gone
<1> QED
  BY <1>4, <1>5 DEF Mapped

LEMMA InitQueue == Init => Queue!Init
<1> SUFFICES ASSUME Init PROVE Queue!Init
  OBVIOUS
<1>1. Waiting = <<>> /\ Written = <<>>
  BY DEF Init, Waiting, Written
<1> QED
  BY <1>1 DEF Init, Awake, Queue!Init

\* A step that moves no line leaves the queue as it is.
Still ==
  /\ UNCHANGED <<head, tail, accepted, out, dropped>>
  /\ (con.pc = "taken")' = (con.pc = "taken")

LEMMA StillStutters ==
  ASSUME Mapped, Mapped', Still
  PROVE  UNCHANGED Queue!vars
<1>1. Awaiting' = Awaiting /\ Gone' = Gone
  BY DEF Still, Awaiting, Gone
<1> QED
  BY <1>1 DEF Mapped, Still, Queue!vars

(***************************************************************************)
(* log_write publishes a line: it is put at the end of the queue.          *)
(***************************************************************************)
LEMMA PublishPuts ==
  ASSUME NEW p, Producers = {p}, IInv, IInv', Publish(p)
  PROVE  Queue!Put
<1> USE LogRingAssumption
<1>1. /\ head \in Nat /\ tail \in Nat /\ tail <= head /\ RingSlots \in Nat
      /\ accepted \in Seq(Lines) /\ Len(accepted) = head
      /\ p \in Producers
  BY DEF IInv, TypeOK, Sync
<1>2. /\ head' = head + 1 /\ head < tail + RingSlots
      /\ accepted' = Append(accepted, Line(p))
      /\ UNCHANGED <<tail, dropped, out, con>>
  BY <1>1 DEF Publish, IInv, Writer
<1>3. Line(p) \in Lines
  <2>1. sent[p] \in 1..MaxLines
    BY <1>1 DEF Publish, IInv, Writer, TypeOK
  <2> QED
    BY <1>1, <2>1 DEF Line, Lines
<1>4. Mapped /\ Mapped'
  BY InvMapped, PTL
<1>5. Awaiting' = Append(Awaiting, Line(p))
  <2>1. /\ Awaiting \in Seq(Lines) /\ Awaiting' \in Seq(Lines)
        /\ Len(Awaiting) = head - tail /\ Len(Awaiting') = head' - tail'
    BY <1>4 DEF Mapped
  <2>2. /\ Append(Awaiting, Line(p)) \in Seq(Lines)
        /\ Len(Append(Awaiting, Line(p))) = head - tail + 1
    BY <1>3, <2>1, AppendProperties
  <2>3. Len(Awaiting') = head - tail + 1
    BY <1>1, <1>2, <2>1
  <2>4. ASSUME NEW n \in 1..Len(Awaiting')
        PROVE  Awaiting'[n] = Append(Awaiting, Line(p))[n]
    <3>1. n \in 1..(head' - tail') /\ Awaiting'[n] = accepted'[tail + n]
      BY <1>1, <1>2, <2>3 DEF Awaiting
    <3>2. CASE n \in 1..(head - tail)
      <4>1. tail + n \in 1..Len(accepted)
        BY <1>1, <3>2
      <4>2. accepted'[tail + n] = accepted[tail + n]
        BY <1>1, <1>2, <1>3, <4>1, AppendProperties
      <4>3. Append(Awaiting, Line(p))[n] = Awaiting[n]
        BY <1>3, <2>1, <3>2, AppendProperties
      <4> QED
        BY <3>1, <3>2, <4>2, <4>3 DEF Awaiting
    <3>3. CASE n = head - tail + 1
      <4>1. tail + n = Len(accepted) + 1
        BY <1>1, <3>3
      <4>2. accepted'[tail + n] = Line(p)
        BY <1>1, <1>2, <1>3, <4>1, AppendProperties
      <4>3. Append(Awaiting, Line(p))[n] = Line(p)
        BY <1>3, <2>1, <3>3, AppendProperties
      <4> QED
        BY <3>1, <4>2, <4>3
    <3>4. n \in 1..(head - tail) \/ n = head - tail + 1
      BY <1>1, <2>3
    <3> QED
      BY <3>2, <3>3, <3>4
  <2> QED
    BY <2>1, <2>2, <2>3, <2>4, SeqEqual
<1>6. Gone' = Gone
  <2>1. Len(out) \in Nat /\ Len(out) <= Len(accepted)
    BY DEF IInv, TypeOK, InOrder
  <2>2. \A n \in 1..Len(out) : accepted'[n] = accepted[n]
    BY <1>1, <1>2, <1>3, <2>1, AppendProperties
  <2> QED
    BY <1>2, <2>2 DEF Gone
<1>7. Len(Waiting) < RingSlots
  BY <1>1, <1>2, <1>4 DEF Mapped
<1> QED
  BY <1>2, <1>3, <1>4, <1>5, <1>6, <1>7 DEF Mapped, Queue!Put

(***************************************************************************)
(* log_write drops a line: the queue is full.                              *)
(***************************************************************************)
LEMMA DropLoses ==
  ASSUME NEW p, Producers = {p}, IInv, IInv', DropLine(p)
  PROVE  Queue!Lose
<1> USE LogRingAssumption
<1>1. /\ head \in Nat /\ tail \in Nat /\ tail <= head /\ head <= tail + RingSlots
      /\ RingSlots \in Nat /\ p \in Producers
  BY DEF IInv, TypeOK
<1>2. head - tail = RingSlots
  BY <1>1 DEF DropLine, NoRoom, IInv, Writer
<1>3. Mapped /\ Mapped'
  BY InvMapped, PTL
<1>4. Awaiting' = Awaiting /\ Gone' = Gone
  BY DEF DropLine, Awaiting, Gone
<1> QED
  BY <1>2, <1>3, <1>4 DEF DropLine, Mapped, Queue!Lose

(***************************************************************************)
(* The consumer writes the line at the front, and then gives its slot back.*)
(***************************************************************************)
LEMMA TakeWrites ==
  ASSUME IInv, IInv', Take
  PROVE  Queue!Write
<1> USE LogRingAssumption
<1>1. /\ head \in Nat /\ tail \in Nat /\ tail < head /\ con.t = tail
      /\ accepted \in Seq(Lines) /\ Len(accepted) = head /\ Len(out) = tail
  BY DEF Take, IInv, TypeOK, Sync, Reader
<1>2. Mapped /\ Mapped'
  BY InvMapped, PTL
<1>3. /\ UNCHANGED <<head, tail, accepted, slots, dropped>>
      /\ con.pc # "taken" /\ con'.pc = "taken"
  BY DEF Take, IInv, TypeOK
<1>4. Len(out') = tail + 1
  BY <1>3 DEF IInv, Sync
<1>5. Awaiting' = Awaiting /\ Waiting' = Waiting
  BY <1>3 DEF Awaiting, Waiting
<1>6. Awaiting # <<>> /\ Head(Awaiting) = accepted[tail + 1]
  <2>1. Awaiting \in Seq(Lines) /\ Len(Awaiting) >= 1
    BY <1>1, <1>2 DEF Mapped
  <2>2. Awaiting # <<>> /\ Head(Awaiting) = Awaiting[1]
    BY <2>1
  <2>3. 1 \in 1..(head - tail)
    BY <1>1
  <2> QED
    BY <2>2, <2>3 DEF Awaiting
<1>7. Gone' = Append(Gone, accepted[tail + 1])
  <2>1. accepted[tail + 1] \in Lines
    BY <1>1, ElementOfSeq
  <2>2. Gone \in Seq(Lines) /\ Gone' \in Seq(Lines) /\ Len(Gone) = tail /\ Len(Gone') = tail + 1
    BY <1>1, <1>2, <1>4 DEF Mapped
  <2>3. /\ Append(Gone, accepted[tail + 1]) \in Seq(Lines)
        /\ Len(Append(Gone, accepted[tail + 1])) = tail + 1
    BY <2>1, <2>2, AppendProperties
  <2>4. ASSUME NEW n \in 1..Len(Gone')
        PROVE  Gone'[n] = Append(Gone, accepted[tail + 1])[n]
    <3>1. Gone'[n] = accepted[n]
      BY <1>3, <1>4, <2>2 DEF Gone
    <3>2. CASE n \in 1..tail
      <4>1. Append(Gone, accepted[tail + 1])[n] = Gone[n]
        BY <2>1, <2>2, <3>2, AppendProperties
      <4> QED
        BY <1>1, <3>1, <3>2, <4>1 DEF Gone
    <3>3. CASE n = tail + 1
      BY <2>1, <2>2, <3>1, <3>3, AppendProperties
    <3>4. n \in 1..tail \/ n = tail + 1
      BY <1>1, <2>2
    <3> QED
      BY <3>2, <3>3, <3>4
  <2> QED
    BY <2>2, <2>3, <2>4, SeqEqual
<1> QED
  BY <1>2, <1>3, <1>5, <1>6, <1>7 DEF Mapped, Queue!Write

LEMMA ReleaseFrees ==
  ASSUME IInv, IInv', Release
  PROVE  Queue!Free
<1> USE LogRingAssumption
<1>1. /\ head \in Nat /\ tail \in Nat /\ tail < head /\ con.t = tail
  BY DEF Release, IInv, TypeOK, Reader
<1>2. Mapped /\ Mapped'
  BY InvMapped, PTL
<1>3. /\ UNCHANGED <<head, accepted, out, dropped>> /\ tail' = tail + 1
      /\ con.pc = "taken" /\ con'.pc # "taken"
  BY <1>1 DEF Release, IInv, TypeOK
<1>4. Gone' = Gone /\ Written' = Written
  BY <1>3 DEF Gone, Written
<1>5. Awaiting' = Tail(Awaiting)
  <2>1. /\ Awaiting \in Seq(Lines) /\ Awaiting' \in Seq(Lines)
        /\ Len(Awaiting) = head - tail /\ Len(Awaiting') = head - tail - 1
    BY <1>1, <1>2, <1>3 DEF Mapped
  <2>2. Awaiting # <<>>
    BY <1>1, <2>1
  <2>3. /\ Tail(Awaiting) \in Seq(Lines) /\ Len(Tail(Awaiting)) = head - tail - 1
        /\ \A i \in 1..Len(Tail(Awaiting)) : Tail(Awaiting)[i] = Awaiting[i + 1]
    BY <2>1, <2>2, HeadTailProperties
  <2>4. ASSUME NEW n \in 1..Len(Awaiting')
        PROVE  Awaiting'[n] = Tail(Awaiting)[n]
    <3>1. n \in 1..(head' - tail') /\ n + 1 \in 1..(head - tail) /\ (tail + 1) + n = tail + (n + 1)
      BY <1>1, <1>3, <2>1
    <3>2. Awaiting'[n] = accepted[(tail + 1) + n]
      BY <1>3, <3>1 DEF Awaiting
    <3>3. Awaiting[n + 1] = accepted[tail + (n + 1)]
      BY <3>1 DEF Awaiting
    <3>4. Tail(Awaiting)[n] = Awaiting[n + 1]
      BY <2>1, <2>3
    <3> QED
      BY <3>1, <3>2, <3>3, <3>4
  <2> QED
    BY <2>1, <2>3, <2>4, SeqEqual
<1> QED
  BY <1>2, <1>3, <1>4, <1>5 DEF Mapped, Queue!Free

(***************************************************************************)
(* log_init after log_shutdown finds nothing in the ring.                  *)
(***************************************************************************)
LEMMA RestartResets ==
  ASSUME IInv, Restart
  PROVE  Queue!Reset
<1>1. tail = head /\ head \in Nat /\ con.pc = "exit"
  BY DEF Restart, IInv, TypeOK, Reader
<1>2. Waiting = <<>>
  BY <1>1 DEF Waiting
<1>3. Init'
  BY DEF Restart, Init
<1>4. Queue!Init'
  BY <1>3, InitQueue, PTL
<1> QED
  BY <1>1, <1>2, <1>4 DEF Restart, Awake, Queue!Init, Queue!Reset

(***************************************************************************)
(* Each step of log_write, of drain() or of log_shutdown is a step of the  *)
(* queue or leaves it as it is.                                            *)
(***************************************************************************)
LEMMA StepQueue ==
  ASSUME NEW p, Producers = {p}, IInv, IInv', [Next]_vars
  PROVE  [Queue!Next]_(Queue!vars)
<1>1. Mapped /\ Mapped'
  BY InvMapped, PTL
<1>2. ASSUME Still PROVE UNCHANGED Queue!vars
  BY <1>1, <1>2, StillStutters
<1>3. con \in [pc : {"check", "load", "drain", "taken", "exit"}, t : Nat, h : Nat, last : BOOLEAN]
  BY DEF IInv, TypeOK
<1>4. CASE UNCHANGED vars
  BY <1>2, <1>4 DEF vars, Still
<1>5. CASE Begin(p) \/ Reserve(p) \/ Stamp(p) \/ Fill(p) \/ Shutdown \/ Join
  BY <1>2, <1>5 DEF Begin, Reserve, Stamp, Fill, Shutdown, Join, Still
<1>6. CASE Check \/ Load \/ Drained
  BY <1>2, <1>3, <1>6 DEF Check, Load, Drained, Still
<1>7. CASE DropLine(p)
  BY <1>7, DropLoses DEF Queue!Next
<1>8. CASE Publish(p)
  BY <1>8, PublishPuts DEF Queue!Next
<1>9. CASE Take
  BY <1>9, TakeWrites DEF Queue!Next
<1>10. CASE Release
  BY <1>10, ReleaseFrees DEF Queue!Next
<1>11. CASE Restart
  BY <1>11, RestartResets DEF Queue!Next
<1> QED
  BY <1>4, <1>5, <1>6, <1>7, <1>8, <1>9, <1>10, <1>11 DEF Next, Log, Consumer

(***************************************************************************)
(* With one producer, and whatever the size of the ring, log.c implements  *)
(* the bounded queue: a line is discarded only when the ring is full, and  *)
(* the others reach the file in order, each of them once.                  *)
(***************************************************************************)
THEOREM RingIsQueue ==
  ASSUME NEW p, Producers = {p}
  PROVE  Spec => Implements
<1>1. IInv /\ [Next]_vars => IInv'
  BY StepInv
<1>2. IInv /\ IInv' /\ [Next]_vars => [Queue!Next]_(Queue!vars)
  BY StepQueue
<1> QED
  BY <1>1, <1>2, InitInv, InitQueue, PTL DEF Spec, Implements, Queue!Spec

(***************************************************************************)
(* Part 2: the pool of backends.                                           *)
(***************************************************************************)

----------------------------------------------------------------------------
(* The inductive invariant.                                                *)

Status == [pc : {"none", "routing", "connecting", "refused", "accepted", "open", "closing"},
           b : Servers, attempts : 0..MaxAttempts]

\* What the handler that is running holds.
Held ==
  /\ loop.pc = "scan" => loop \in [pc : {"scan"}, x : Conns, k : 0..N, seen : SUBSET Servers]
  /\ loop.pc = "load" => loop \in [pc : {"load"}, x : Conns, b : Servers, ok : BOOLEAN]
  /\ loop.pc = "store" =>
       loop \in [pc : {"store"}, x : Conns, b : Servers, ok : BOOLEAN, up : BOOLEAN]

PoolShape ==
  /\ balance \in Balances /\ up \in [Servers -> BOOLEAN] /\ rr \in Servers
  /\ fails \in [Servers -> 0..(Fall - 1)] /\ successes \in [Servers -> 0..(Rise - 1)]
  /\ p_fail \in [Servers -> 0..(Fall - 1)] /\ p_ok \in [Servers -> 0..(Rise - 1)]
  /\ active \in [Servers -> Nat] /\ current \in [Servers -> Int]
  /\ conn \in [Conns -> Status]
  /\ loop.pc \in LoopPCs /\ Held
  /\ probe \in [pc : {"dial", "load", "store"}, i : Servers, ok : BOOLEAN, up : BOOLEAN]
  /\ got \in [n : [Servers -> Nat], of : SUBSET Servers, calm : BOOLEAN]

\* The connection that a handler is about is where the handler found it: it is
\* accepted if the attempt went well.
Found ==
  /\ loop.pc = "scan" => conn[loop.x].pc = "routing"
  /\ loop.pc \in {"load", "store"} =>
       /\ conn[loop.x].pc \in IF loop.ok THEN {"accepted"} ELSE {"routing", "refused", "open"}
       /\ conn[loop.x].pc # "routing" => conn[loop.x].b = loop.b

\* No backend counts more connections than it has.
On(b) == {x \in Conns : conn[x].pc \in {"open", "closing"} /\ conn[x].b = b}

ActiveFits == \A b \in Servers : active[b] <= Cardinality(On(b))

\* As long as no backend went down, nobody has seen one that is.
Calm ==
  got.calm =>
    /\ \A i \in Servers : up[i]
    /\ loop.pc = "store" => loop.up
    /\ balance = "weighted" /\ loop.pc = "scan" => loop.seen = 0..(loop.k - 1)

\* How far i is from s in the order of the turns.
Dist(i, s) == IF i >= s THEN i - s ELSE i + N - s

\* In a round that started at s those have been picked whom rr has passed, and
\* somebody is left.
Passed(s) ==
  /\ \A i \in got.of : got.n[i] = IF Dist(i, s) < Dist(rr, s) THEN 1 ELSE 0
  /\ \E i \in got.of : got.n[i] = 0

InTurn == balance = "round_robin" => \E s \in Servers : Passed(s)

\* After t picks of a round the dynamic weight of i is what t picks owe it and
\* it did not get.
Owed ==
  LET t == Sum(got.n)
      T == Total(Servers)
  IN /\ got.of = Servers /\ t < T
     /\ \A i \in Servers : got.n[i] <= Weight[i] /\ current[i] = t * Weight[i] - got.n[i] * T

Weighted == balance = "weighted" /\ got.calm => Owed

PoolInv == PoolShape /\ Found /\ ActiveFits /\ Calm /\ InTurn /\ Weighted

----------------------------------------------------------------------------
(* Loops over the backends.                                                *)

LEMMA ServersAre == N \in Nat \ {0} /\ \A i : i \in Servers <=> i \in Nat /\ i < N
BY BackendPoolAssumption DEF Servers

LEMMA LeastOfSome ==
  ASSUME NEW T, T \subseteq Nat, T # {}
  PROVE  \E x \in T : \A y \in T : x <= y
<1> DEFINE R == {xy \in Nat \X Nat : xy[1] < xy[2]}
<1>1. IsWellFoundedOn(R, Nat)
  BY NatLessThanWellFounded DEF OpToRel
<1> HIDE DEF R
<1>2. \E x \in T : \A y \in T : ~ (<<y, x>> \in R)
  BY <1>1, WFMin
<1>3. \A x, y \in Nat : <<y, x>> \notin R => x <= y
  BY DEF R
<1> QED
  BY <1>2, <1>3

\* What holds before the loop and is kept by each turn holds after it.
LEMMA EachTurn ==
  ASSUME NEW m \in Nat, NEW G, 0 \in G, \A k \in 1..m : k - 1 \in G => k \in G
  PROVE  \A k \in 0..m : k \in G
<1> DEFINE Bad == {k \in 0..m : k \notin G}
<1> SUFFICES ASSUME Bad # {} PROVE FALSE
  OBVIOUS
<1>1. PICK k \in Bad : \A j \in Bad : k <= j
  <2>1. Bad \subseteq Nat
    OBVIOUS
  <2> HIDE DEF Bad
  <2> QED
    BY <2>1, LeastOfSome
<1>2. k \in 1..m /\ k - 1 \in 0..m
  BY <1>1
<1>3. k - 1 \notin Bad
  BY <1>1, <1>2
<1> QED
  BY <1>1, <1>2, <1>3

\* The sums after each turn.
Partial(p, f) ==
  /\ p \in [0..N -> Int] /\ p[0] = 0
  /\ \A k \in 1..N : p[k] = p[k - 1] + f[k - 1]

LEMMA PartialSums ==
  ASSUME NEW f \in [Servers -> Int]
  PROVE  \E p : Partial(p, f)
<1> USE ServersAre
<1> DEFINE Upto(p, u) == /\ p \in [0..u -> Int] /\ p[0] = 0
                         /\ \A k \in 1..u : p[k] = p[k - 1] + f[k - 1]
           G == {u \in 0..N : \E p : Upto(p, u)}
<1>1. 0 \in G
  <2>1. Upto([k \in 0..0 |-> 0], 0)
    OBVIOUS
  <2> HIDE DEF Upto
  <2> QED
    BY <2>1
<1>2. ASSUME NEW u \in 1..N, u - 1 \in G PROVE u \in G
  <2>1. PICK p : Upto(p, u - 1)
    BY <1>2
  <2> DEFINE q == [k \in 0..u |-> IF k < u THEN p[k] ELSE p[u - 1] + f[u - 1]]
  <2>2. p[u - 1] \in Int /\ f[u - 1] \in Int
    BY <2>1
  <2>3. q \in [0..u -> Int]
    BY <2>1, <2>2
  <2>4. ASSUME NEW k \in 1..u PROVE q[k] = q[k - 1] + f[k - 1]
    <3>1. CASE k \in 1..(u - 1)
      BY <3>1, <2>1
    <3>2. CASE k = u
      BY <3>2
    <3> QED
      BY <3>1, <3>2
  <2>5. Upto(q, u)
    BY <2>1, <2>3, <2>4
  <2> HIDE DEF Upto, q
  <2> QED
    BY <2>5
<1>3. \A k \in 0..N : k \in G
  <2>1. \A u \in 1..N : u - 1 \in G => u \in G
    BY <1>2
  <2> HIDE DEF G
  <2> QED
    BY <1>1, <2>1, EachTurn
<1>4. \E p : Upto(p, N)
  <2> HIDE DEF Upto
  <2> QED
    BY <1>3
<1> QED
  BY <1>4 DEF Partial

LEMMA SumIs ==
  ASSUME NEW f \in [Servers -> Int]
  PROVE  \E p : Partial(p, f) /\ Sum(f) = p[N]
<1> USE ServersAre
<1> DEFINE Is(u) == u = [k \in 0..N |-> IF k = 0 THEN 0 ELSE u[k - 1] + f[k - 1]]
           upto == CHOOSE u : Is(u)
<1>1. Sum(f) = upto[N]
  BY DEF Sum
<1>2. PICK p : Partial(p, f)
  BY PartialSums
<1>3. Is(p)
  <2>1. \A k \in 0..N : p[k] = IF k = 0 THEN 0 ELSE p[k - 1] + f[k - 1]
    BY <1>2 DEF Partial
  <2>2. p = [k \in 0..N |-> p[k]]
    BY <1>2 DEF Partial
  <2> QED
    BY <2>1, <2>2
<1>4. Is(upto)
  BY <1>3
<1> HIDE DEF upto
<1>5. \A k \in 0..N : upto[k] = IF k = 0 THEN 0 ELSE upto[k - 1] + f[k - 1]
  BY <1>4
<1>6. \A k \in 0..N : k \in {j \in 0..N : upto[j] = p[j]}
  <2> DEFINE G == {j \in 0..N : upto[j] = p[j]}
  <2>1. 0 \in G
    BY <1>5, <1>2 DEF Partial
  <2>2. \A k \in 1..N : k - 1 \in G => k \in G
    BY <1>5, <1>2 DEF Partial
  <2> HIDE DEF G
  <2>3. \A k \in 0..N : k \in G
    BY <2>1, <2>2, EachTurn
  <2> QED
    BY <2>3 DEF G
<1>7. upto[N] = p[N]
  BY <1>6
<1> QED
  BY <1>1, <1>2, <1>7

\* One more of b is one more of all.
LEMMA SumAddsOne ==
  ASSUME NEW f \in [Servers -> Int], NEW b \in Servers
  PROVE  Sum([f EXCEPT ![b] = @ + 1]) = Sum(f) + 1
<1> USE ServersAre
<1> DEFINE g == [f EXCEPT ![b] = @ + 1]
<1>0. g \in [Servers -> Int] /\ \A i \in Servers : g[i] = IF i = b THEN f[i] + 1 ELSE f[i]
  OBVIOUS
<1> HIDE DEF g
<1>1. PICK p : Partial(p, f) /\ Sum(f) = p[N]
  BY SumIs
<1>2. PICK q : Partial(q, g) /\ Sum(g) = q[N]
  BY <1>0, SumIs
<1> DEFINE G == {k \in 0..N : q[k] = IF k > b THEN p[k] + 1 ELSE p[k]}
<1>3. 0 \in G
  BY <1>1, <1>2 DEF Partial
<1>4. ASSUME NEW k \in 1..N, k - 1 \in G PROVE k \in G
  <2>1. k - 1 \in Servers /\ k - 1 \in 0..N
    OBVIOUS
  <2>2. q[k] = q[k - 1] + g[k - 1] /\ p[k] = p[k - 1] + f[k - 1]
    BY <1>1, <1>2 DEF Partial
  <2>3. p[k - 1] \in Int /\ f[k - 1] \in Int
    BY <1>1, <2>1 DEF Partial
  <2>4. q[k - 1] = IF k - 1 > b THEN p[k - 1] + 1 ELSE p[k - 1]
    BY <1>4
  <2>5. g[k - 1] = IF k - 1 = b THEN f[k - 1] + 1 ELSE f[k - 1]
    BY <1>0, <2>1
  <2>6. q[k] = IF k > b THEN p[k] + 1 ELSE p[k]
    BY <2>2, <2>3, <2>4, <2>5
  <2> QED
    BY <2>6
<1>5. \A k \in 0..N : k \in G
  <2>1. \A k \in 1..N : k - 1 \in G => k \in G
    BY <1>4
  <2> HIDE DEF G
  <2> QED
    BY <1>3, <2>1, EachTurn
<1>6. q[N] = p[N] + 1
  BY <1>5
<1> QED
  BY <1>1, <1>2, <1>6 DEF g

\* Sums compare as what is summed.
LEMMA SumScales ==
  ASSUME NEW c \in Int, NEW d \in Int, NEW f \in [Servers -> Int], NEW g \in [Servers -> Int],
         \A i \in Servers : c * g[i] <= d * f[i]
  PROVE  c * Sum(g) <= d * Sum(f)
<1> USE ServersAre
<1>1. PICK p : Partial(p, f) /\ Sum(f) = p[N]
  BY SumIs
<1>2. PICK q : Partial(q, g) /\ Sum(g) = q[N]
  BY SumIs
<1> DEFINE G == {k \in 0..N : c * q[k] <= d * p[k]}
<1>3. 0 \in G
  BY <1>1, <1>2 DEF Partial
<1>4. ASSUME NEW k \in 1..N, k - 1 \in G PROVE k \in G
  <2>1. k - 1 \in Servers /\ k - 1 \in 0..N
    OBVIOUS
  <2>2. q[k] = q[k - 1] + g[k - 1] /\ p[k] = p[k - 1] + f[k - 1]
    BY <1>1, <1>2 DEF Partial
  <2>3. p[k - 1] \in Int /\ f[k - 1] \in Int /\ q[k - 1] \in Int /\ g[k - 1] \in Int
    BY <1>1, <1>2, <2>1 DEF Partial
  <2>4. c * q[k - 1] <= d * p[k - 1] /\ c * g[k - 1] <= d * f[k - 1]
    BY <1>4, <2>1
  <2>5. c * q[k] = c * q[k - 1] + c * g[k - 1] /\ d * p[k] = d * p[k - 1] + d * f[k - 1]
    BY <2>2, <2>3
  <2>6. c * q[k - 1] \in Int /\ c * g[k - 1] \in Int /\ d * p[k - 1] \in Int /\ d * f[k - 1] \in Int
    BY <2>3
  <2>7. c * q[k] <= d * p[k]
    BY <2>4, <2>5, <2>6
  <2> QED
    BY <2>7
<1>5. \A k \in 0..N : k \in G
  <2>1. \A k \in 1..N : k - 1 \in G => k \in G
    BY <1>4
  <2> HIDE DEF G
  <2> QED
    BY <1>3, <2>1, EachTurn
<1> QED
  BY <1>1, <1>2, <1>5

LEMMA SumType ==
  ASSUME NEW f \in [Servers -> Int]
  PROVE  Sum(f) \in Int
<1>1. PICK p : Partial(p, f) /\ Sum(f) = p[N]
  BY SumIs
<1> QED
  BY <1>1, ServersAre DEF Partial

\* What is no greater anywhere, and less somewhere, sums up to less.
LEMMA SumLess ==
  ASSUME NEW f \in [Servers -> Int], NEW g \in [Servers -> Int], NEW b \in Servers,
         \A i \in Servers : f[i] <= g[i], f[b] < g[b]
  PROVE  Sum(f) < Sum(g)
<1> DEFINE h == [f EXCEPT ![b] = @ + 1]
<1>1. h \in [Servers -> Int] /\ \A i \in Servers : 1 * h[i] <= 1 * g[i]
  OBVIOUS
<1>2. Sum(h) = Sum(f) + 1
  BY SumAddsOne
<1> HIDE DEF h
<1>3. 1 * Sum(h) <= 1 * Sum(g)
  BY <1>1, SumScales
<1>4. Sum(f) \in Int /\ Sum(g) \in Int
  BY SumType
<1> QED
  BY <1>2, <1>3, <1>4

LEMMA SumOfNothing == Sum([i \in Servers |-> 0]) = 0
<1> DEFINE z == [i \in Servers |-> 0]
<1>1. z \in [Servers -> Int] /\ \A i \in Servers : 0 * z[i] <= 1 * z[i] /\ 1 * z[i] <= 0 * z[i]
  OBVIOUS
<1> HIDE DEF z
<1>2. 0 * Sum(z) <= 1 * Sum(z)
  BY <1>1, SumScales
<1>3. 1 * Sum(z) <= 0 * Sum(z)
  BY <1>1, SumScales
<1>4. Sum(z) \in Int
  BY <1>1, SumType
<1>5. Sum(z) = 0
  BY <1>2, <1>3, <1>4
<1> QED
  BY <1>5 DEF z

LEMMA TotalOfAll ==
  /\ Weight \in [Servers -> Int] /\ \A i \in Servers : Weight[i] \in Nat /\ Weight[i] > 0
  /\ Total(Servers) = Sum(Weight) /\ Total(Servers) \in Int /\ Total(Servers) > 0
<1>1. Weight \in [Servers -> Nat \ {0}]
  BY BackendPoolAssumption
<1>2. Weight \in [Servers -> Int] /\ \A i \in Servers : Weight[i] \in Nat /\ Weight[i] > 0
  BY <1>1
<1>3. [i \in Servers |-> IF i \in Servers THEN Weight[i] ELSE 0] = Weight
  BY <1>1
<1>4. Total(Servers) = Sum(Weight)
  BY <1>3 DEF Total
<1> DEFINE z == [i \in Servers |-> 0]
<1>5. Sum(z) < Sum(Weight)
  <2>1. z \in [Servers -> Int] /\ 0 \in Servers
    BY ServersAre
  <2>2. \A i \in Servers : z[i] <= Weight[i] /\ z[i] < Weight[i]
    BY <1>2
  <2> HIDE DEF z
  <2> QED
    BY <1>2, <2>1, <2>2, SumLess
<1>6. Sum(Weight) \in Int
  BY <1>2, SumType
<1> QED
  BY <1>2, <1>4, <1>5, <1>6, SumOfNothing

----------------------------------------------------------------------------
(* Which backend is picked.                                                *)

LEMMA ModLessTwice ==
  ASSUME NEW a \in Nat, a < 2 * N
  PROVE  a % N = IF a < N THEN a ELSE a - N
<1> USE ServersAre
<1>1. a = N * (a \div N) + (a % N) /\ a \div N \in Int /\ a % N \in 0..(N - 1)
  OBVIOUS
<1> DEFINE k == a \div N
<1> HIDE DEF k
<1>2. k \in Int /\ a = N * k + (a % N)
  BY <1>1 DEF k
<1>3. CASE k >= 2
  <2>1. N * k >= N * 2
    BY <1>2, <1>3
  <2> QED
    BY <1>1, <1>2, <2>1
<1>4. CASE k <= -1
  <2>1. N * k <= N * (-1)
    BY <1>2, <1>4
  <2> QED
    BY <1>1, <1>2, <2>1
<1>5. CASE k = 0
  BY <1>1, <1>2, <1>5
<1>6. CASE k = 1
  BY <1>1, <1>2, <1>6
<1> QED
  BY <1>2, <1>3, <1>4, <1>5, <1>6

\* The distance is what the scan counts.
LEMMA DistIs ==
  ASSUME NEW i \in Servers, NEW s \in Servers
  PROVE  (i + N - s) % N = Dist(i, s) /\ Dist(i, s) \in Servers
<1> DEFINE a == i + N - s
<1>1. a \in Nat /\ a < 2 * N
  BY ServersAre
<1> HIDE DEF a
<1>2. a % N = IF a < N THEN a ELSE a - N
  BY <1>1, ModLessTwice
<1> QED
  BY <1>2, ServersAre DEF Dist, a

LEMMA NearestExists ==
  ASSUME NEW S, S \subseteq Servers, S # {}, NEW s \in Servers
  PROVE  \E i \in S : \A j \in S : Dist(i, s) <= Dist(j, s)
<1> DEFINE T == {Dist(i, s) : i \in S}
<1>1. T \subseteq Nat /\ T # {}
  <2>1. \A i \in S : Dist(i, s) \in Nat
    BY DistIs, ServersAre
  <2> QED
    BY <2>1
<1> HIDE DEF T
<1>2. PICK x \in T : \A y \in T : x <= y
  BY <1>1, LeastOfSome
<1>3. PICK i \in S : x = Dist(i, s)
  BY <1>2 DEF T
<1>4. \A j \in S : Dist(j, s) \in T
  BY DEF T
<1> QED
  BY <1>2, <1>3, <1>4

\* First returns the one that the scan meets first.
LEMMA FirstIsNearest ==
  ASSUME NEW S, S \subseteq Servers, S # {}, Start \in Servers
  PROVE  First(S) \in S /\ \A j \in S : Dist(First(S), Start) <= Dist(j, Start)
<1> DEFINE Near(i) == \A j \in S : (i + N - Start) % N <= (j + N - Start) % N
<1>0. \A i \in S : (i + N - Start) % N = Dist(i, Start)
  BY DistIs
<1>1. \E i \in S : Near(i)
  <2>1. PICK i \in S : \A j \in S : Dist(i, Start) <= Dist(j, Start)
    BY NearestExists
  <2> QED
    BY <2>1, <1>0
<1>2. First(S) = CHOOSE i \in S : Near(i)
  BY DEF First
<1> HIDE DEF Near
<1>3. First(S) \in S /\ Near(First(S))
  BY <1>1, <1>2
<1> QED
  BY <1>3, <1>0 DEF Near

\* Among some backends there is one with the most.
LEMMA MostExists ==
  ASSUME NEW S, S \subseteq Servers, S # {}, NEW f \in [Servers -> Int]
  PROVE  \E i \in S : \A j \in S : f[i] >= f[j]
<1> USE ServersAre
<1> DEFINE Seen(k) == {i \in S : i < k}
           Most(k) == \E i \in Seen(k) : \A j \in Seen(k) : f[i] >= f[j]
           G == {k \in 0..N : Seen(k) = {} \/ Most(k)}
<1>1. 0 \in G
  OBVIOUS
<1>2. ASSUME NEW k \in 1..N, k - 1 \in G PROVE k \in G
  <2>1. \A i \in Seen(k) : i \in Seen(k - 1) \/ (i = k - 1 /\ k - 1 \in S)
    OBVIOUS
  <2>2. \A i \in Seen(k - 1) : i \in Seen(k)
    OBVIOUS
  <2>3. CASE k - 1 \notin S
    <3>1. Seen(k) = Seen(k - 1)
      BY <2>1, <2>2, <2>3
    <3> HIDE DEF Seen
    <3> QED
      BY <3>1, <1>2
  <2>4. CASE k - 1 \in S
    <3>1. k - 1 \in Seen(k) /\ \A i \in Seen(k) : i \in Servers
      BY <2>4
    <3>2. \A i \in Servers : f[i] \in Int
      OBVIOUS
    <3>3. CASE Seen(k - 1) = {}
      <4>1. \A j \in Seen(k) : j = k - 1
        BY <2>1, <3>3
      <4> HIDE DEF Seen
      <4>2. Most(k)
        BY <3>1, <3>2, <4>1
      <4> QED
        BY <4>2
    <3>4. CASE Seen(k - 1) # {}
      <4>1. PICK i \in Seen(k - 1) : \A j \in Seen(k - 1) : f[i] >= f[j]
        BY <3>4, <1>2
      <4> HIDE DEF Seen
      <4>2. i \in Seen(k) /\ i \in Servers
        BY <2>2, <3>1
      <4>3. CASE f[i] >= f[k - 1]
        <5>1. \A j \in Seen(k) : f[i] >= f[j]
          BY <2>1, <4>1, <4>3
        <5> QED
          BY <5>1, <4>2
      <4>4. CASE ~(f[i] >= f[k - 1])
        <5>1. \A j \in Seen(k) : f[k - 1] >= f[j]
          <6> TAKE j \in Seen(k)
          <6>1. CASE j = k - 1
            BY <6>1, <3>1, <3>2
          <6>2. CASE j # k - 1
            <7>1. f[i] >= f[j]
              BY <6>2, <2>1, <4>1
            <7>2. f[i] \in Int /\ f[j] \in Int /\ f[k - 1] \in Int
              BY <3>1, <3>2, <4>2
            <7> QED
              BY <7>1, <7>2, <4>4
          <6> QED
            BY <6>1, <6>2
        <5> QED
          BY <5>1, <3>1
      <4> QED
        BY <4>3, <4>4
    <3> QED
      BY <3>3, <3>4
  <2> QED
    BY <2>3, <2>4
<1>3. \A k \in 0..N : k \in G
  <2>1. \A k \in 1..N : k - 1 \in G => k \in G
    BY <1>2
  <2> HIDE DEF G
  <2> QED
    BY <1>1, <2>1, EachTurn
<1>4. Seen(N) = {} \/ Most(N)
  BY <1>3
<1>5. Seen(N) = S
  OBVIOUS
<1> HIDE DEF Seen
<1> QED
  BY <1>4, <1>5

LEMMA LeastBusyExists ==
  ASSUME NEW S, S \subseteq Servers, S # {}, NEW f \in [Servers -> Nat]
  PROVE  \E i \in S : \A j \in S : f[i] <= f[j]
<1> DEFINE T == {f[i] : i \in S}
<1>1. T \subseteq Nat /\ T # {}
  OBVIOUS
<1> HIDE DEF T
<1>2. PICK x \in T : \A y \in T : x <= y
  BY <1>1, LeastOfSome
<1>3. PICK i \in S : x = f[i]
  BY <1>2 DEF T
<1>4. \A j \in S : f[j] \in T
  BY DEF T
<1> QED
  BY <1>2, <1>3, <1>4

\* What each algorithm picks among those that are up.
LEMMA BestIs ==
  ASSUME NEW S, S \subseteq Servers, S # {}, rr \in Servers, balance \in Balances,
         active \in [Servers -> Nat], current \in [Servers -> Int]
  PROVE  /\ Best(S) \in S
         /\ balance = "round_robin" => \A j \in S : Dist(Best(S), rr) <= Dist(j, rr)
         /\ balance = "weighted" => \A j \in S : Raised(S)[Best(S)] >= Raised(S)[j]
<1> USE ServersAre
<1>1. balance \in {"round_robin", "weighted", "least_conn"}
  BY BackendPoolAssumption
<1>2. Start \in Servers
  BY DEF Start
<1>3. CASE balance = "round_robin"
  <2>1. Best(S) = First(S) /\ Start = rr
    BY <1>3 DEF Best, Start
  <2> QED
    BY <1>2, <1>3, <2>1, FirstIsNearest
<1>4. CASE balance = "weighted"
  <2> DEFINE T == {i \in S : \A j \in S : Raised(S)[i] >= Raised(S)[j]}
  <2>1. Best(S) = First(T)
    BY <1>4 DEF Best
  <2>2. Raised(S) \in [Servers -> Int]
    BY TotalOfAll DEF Raised
  <2>3. T # {}
    <3>1. PICK i \in S : \A j \in S : Raised(S)[i] >= Raised(S)[j]
      BY <2>2, MostExists
    <3> QED
      BY <3>1
  <2>4. T \subseteq S /\ \A i \in T : \A j \in S : Raised(S)[i] >= Raised(S)[j]
    OBVIOUS
  <2> HIDE DEF T
  <2>5. First(T) \in T
    BY <1>2, <2>3, <2>4, FirstIsNearest
  <2> QED
    BY <1>4, <2>1, <2>4, <2>5
<1>5. CASE balance = "least_conn"
  <2> DEFINE T == {i \in S : \A j \in S : active[i] <= active[j]}
  <2>1. Best(S) = First(T)
    BY <1>5 DEF Best
  <2>3. T # {}
    <3>1. PICK i \in S : \A j \in S : active[i] <= active[j]
      BY LeastBusyExists
    <3> QED
      BY <3>1
  <2>4. T \subseteq S
    OBVIOUS
  <2> HIDE DEF T
  <2>5. First(T) \in T
    BY <1>2, <2>3, <2>4, FirstIsNearest
  <2> QED
    BY <1>5, <2>1, <2>4, <2>5
<1> QED
  BY <1>1, <1>3, <1>4, <1>5

----------------------------------------------------------------------------
(* Shape.                                                                  *)

LEMMA ShapeStart == pool_create => PoolShape /\ Found
<1> SUFFICES ASSUME pool_create PROVE PoolShape /\ Found
  OBVIOUS
<1> USE ServersAre, BackendPoolAssumption DEF pool_create
<1>1. 0 \in Servers /\ 0 \in 0..(Fall - 1) /\ 0 \in 0..(Rise - 1) /\ 0 \in 0..MaxAttempts
  OBVIOUS
<1>2. conn \in [Conns -> Status]
  BY <1>1 DEF Status, NoConn
<1>3. loop.pc = "idle"
  BY DEF NoHandler
<1>4. Held /\ Found /\ loop.pc \in LoopPCs
  BY <1>3 DEF Held, Found, LoopPCs
<1>5. probe \in [pc : {"dial", "load", "store"}, i : Servers, ok : BOOLEAN, up : BOOLEAN]
  BY <1>1
<1>6. got \in [n : [Servers -> Nat], of : SUBSET Servers, calm : BOOLEAN]
  OBVIOUS
<1> QED
  BY <1>1, <1>2, <1>4, <1>5, <1>6 DEF PoolShape

LEMMA NthIs ==
  ASSUME NEW k \in Nat, k < N, rr \in Servers
  PROVE  Nth(k) \in Servers /\ (balance = "weighted" => Nth(k) = k)
<1> DEFINE a == Start + k
<1>1. a \in Nat /\ a < 2 * N /\ (balance = "weighted" => a = k)
  BY ServersAre DEF Start
<1> HIDE DEF a
<1>2. a % N = IF a < N THEN a ELSE a - N
  BY <1>1, ModLessTwice
<1>3. a % N \in Servers /\ (balance = "weighted" => a % N = k)
  BY <1>1, <1>2, ServersAre
<1> QED
  BY <1>3 DEF Nth, a

\* Whoever has had his turn, it is then that of the next one.
LEMMA NextTurn ==
  ASSUME NEW b \in Servers
  PROVE  (b + 1) % N \in Servers /\ (b + 1) % N = IF b = N - 1 THEN 0 ELSE b + 1
<1> DEFINE a == b + 1
<1>1. a \in Nat /\ a < 2 * N
  BY ServersAre
<1> HIDE DEF a
<1>2. a % N = IF a < N THEN a ELSE a - N
  BY <1>1, ModLessTwice
<1> QED
  BY <1>2, ServersAre DEF a

\* The numbers that each user of the pool keeps.
LEMMA ReportsFit ==
  ASSUME PoolShape, NEW b \in Servers, NEW was \in BOOLEAN
  PROVE  /\ ReportOk(b, was) =>
              /\ fails' \in [Servers -> 0..(Fall - 1)] /\ successes' \in [Servers -> 0..(Rise - 1)]
              /\ up' \in [Servers -> BOOLEAN] /\ current' \in [Servers -> Int]
              /\ \A i \in Servers : up[i] => up'[i]
              /\ was => current' = current
         /\ ReportFailure(b, was) =>
              /\ fails' \in [Servers -> 0..(Fall - 1)] /\ successes' \in [Servers -> 0..(Rise - 1)]
              /\ up' \in [Servers -> BOOLEAN] /\ current' = current
         /\ ProbeOk(b, was) \/ ProbeFailure(b, was) =>
              /\ p_fail' \in [Servers -> 0..(Fall - 1)] /\ p_ok' \in [Servers -> 0..(Rise - 1)]
              /\ up' \in [Servers -> BOOLEAN]
<1> USE BackendPoolAssumption DEF PoolShape
<1>0. /\ \A f \in 0..(Fall - 1) : (was /\ ~(f + 1 >= Fall) => f + 1 \in 0..(Fall - 1))
      /\ \A s \in 0..(Rise - 1) : (~was /\ ~(s + 1 >= Rise) => s + 1 \in 0..(Rise - 1))
      /\ 0 \in 0..(Fall - 1) /\ 0 \in 0..(Rise - 1)
  OBVIOUS
<1>1. ReportOk(b, was) =>
              /\ fails' \in [Servers -> 0..(Fall - 1)] /\ successes' \in [Servers -> 0..(Rise - 1)]
              /\ up' \in [Servers -> BOOLEAN] /\ current' \in [Servers -> Int]
              /\ \A i \in Servers : up[i] => up'[i]
              /\ was => current' = current
  BY <1>0 DEF ReportOk
<1>2. ReportFailure(b, was) =>
              /\ fails' \in [Servers -> 0..(Fall - 1)] /\ successes' \in [Servers -> 0..(Rise - 1)]
              /\ up' \in [Servers -> BOOLEAN] /\ current' = current
  BY <1>0 DEF ReportFailure
<1>3. ProbeOk(b, was) =>
              /\ p_fail' \in [Servers -> 0..(Fall - 1)] /\ p_ok' \in [Servers -> 0..(Rise - 1)]
              /\ up' \in [Servers -> BOOLEAN]
  BY <1>0 DEF ProbeOk
<1>4. ProbeFailure(b, was) =>
              /\ p_fail' \in [Servers -> 0..(Fall - 1)] /\ p_ok' \in [Servers -> 0..(Rise - 1)]
              /\ up' \in [Servers -> BOOLEAN]
  BY <1>0 DEF ProbeFailure
<1> QED
  BY <1>1, <1>2, <1>3, <1>4

\* One more attempt, or the end of them.
LEMMA Routed ==
  ASSUME PoolShape, NEW x \in Conns, NEW a \in 0..MaxAttempts, Route(x, a)
  PROVE  /\ conn' \in [Conns -> Status]
         /\ loop'.pc \in {"idle", "scan"} /\ Held' /\ Found'
         /\ loop'.pc = "scan" => loop'.k = 0 /\ loop'.seen = {}
         /\ \A y \in Conns \ {x} : conn'[y] = conn[y]
         /\ conn'[x].pc \in {"none", "routing"}
<1> USE BackendPoolAssumption, ServersAre
<1>1. CASE a < MaxAttempts
  <2>1. [pc |-> "routing", b |-> 0, attempts |-> a + 1] \in Status
    BY <1>1 DEF Status
  <2>2. /\ conn' = [conn EXCEPT ![x] = [pc |-> "routing", b |-> 0, attempts |-> a + 1]]
        /\ loop' = [pc |-> "scan", x |-> x, k |-> 0, seen |-> {}]
    BY <1>1 DEF Route
  <2>3. conn'[x].pc = "routing" /\ conn' \in [Conns -> Status]
    BY <2>1, <2>2 DEF PoolShape
  <2>4. Held'
    BY <2>2 DEF Held
  <2>5. Found'
    BY <2>2, <2>3 DEF Found
  <2> QED
    BY <2>2, <2>3, <2>4, <2>5 DEF PoolShape
<1>2. CASE ~(a < MaxAttempts)
  <2>1. NoConn \in Status
    BY DEF NoConn, Status
  <2>2. conn' = [conn EXCEPT ![x] = NoConn] /\ loop' = NoHandler
    BY <1>2 DEF Route
  <2>3. conn'[x].pc = "none" /\ conn' \in [Conns -> Status]
    BY <2>1, <2>2 DEF PoolShape, NoConn
  <2>4. loop'.pc = "idle"
    BY <2>2 DEF NoHandler
  <2>5. Held' /\ Found'
    BY <2>4 DEF Held, Found
  <2> QED
    BY <2>2, <2>3, <2>4, <2>5 DEF PoolShape
<1> QED
  BY <1>1, <1>2

\* The rounds are counted in numbers.
LEMMA CountedFits ==
  ASSUME PoolShape, NEW S \in SUBSET Servers, NEW b \in Servers
  PROVE  /\ Counted(S, b) \in [n : [Servers -> Nat], of : SUBSET Servers, calm : BOOLEAN]
         /\ Counted(S, b).of = S /\ Counted(S, b).calm = got.calm
<1> USE DEF PoolShape
<1> DEFINE none == [i \in Servers |-> 0]
           base == IF S = got.of THEN got.n ELSE none
           n == [base EXCEPT ![b] = IF @ > Share(b) THEN @ ELSE @ + 1]
           m == IF \A i \in S : n[i] >= Share(i) THEN none ELSE n
<1>1. Counted(S, b) = [got EXCEPT !.of = S, !.n = m]
  BY DEF Counted
<1>2. none \in [Servers -> Nat] /\ base \in [Servers -> Nat]
  OBVIOUS
<1> HIDE DEF base
<1>3. n \in [Servers -> Nat]
  BY <1>2
<1>4. m \in [Servers -> Nat]
  BY <1>2, <1>3
<1> HIDE DEF m
<1> QED
  BY <1>1, <1>4

(***************************************************************************)
(* Every step keeps the numbers in their ranges, and what a handler found  *)
(* about its connection true until the handler is done with it.            *)
(***************************************************************************)
LEMMA ShapeSteps ==
  ASSUME PoolShape, Found, [PoolNext]_pool_vars
  PROVE  PoolShape' /\ Found'
<1> USE ServersAre, BackendPoolAssumption
<1>0. \A y \in Conns : conn[y] \in Status
  BY DEF PoolShape
<1>1. CASE UNCHANGED pool_vars
  <2>1. Held' /\ Found'
    BY <1>1 DEF pool_vars, passive, active_, world, PoolShape, Held, Found
  <2> QED
    BY <1>1, <2>1 DEF pool_vars, passive, active_, world, PoolShape
<1>2. ASSUME NEW x \in Conns, Request(x) PROVE PoolShape' /\ Found'
  <2>1. Held' /\ Found' /\ conn' \in [Conns -> Status] /\ loop'.pc \in LoopPCs
    BY <1>2, Routed DEF Request, LoopPCs
  <2> QED
    BY <1>2, <2>1 DEF Request, PoolShape, passive, active_, world
<1>3. ASSUME NEW x \in Conns, Answer(x) PROVE PoolShape' /\ Found'
  <2>1. conn' \in [Conns -> Status] /\ \A y \in Conns : y = x \/ conn'[y] = conn[y]
    <3>1. [conn[x] EXCEPT !.pc = IF server[conn[x].b] = "dead" THEN "refused" ELSE "accepted"]
            \in Status
      BY <1>0 DEF Status
    <3> QED
      BY <1>3, <3>1 DEF Answer, PoolShape
  <2>2. Found'
    <3>1. loop.pc = "scan" \/ loop.pc \in {"load", "store"} => loop.x \in Conns
      BY DEF PoolShape, Held
    <3>2. loop.pc = "scan" \/ loop.pc \in {"load", "store"} => loop.x # x
      BY <1>3 DEF Answer, Found
    <3> QED
      BY <1>3, <2>1, <3>1, <3>2 DEF Answer, Found
  <2> QED
    BY <1>3, <2>1, <2>2 DEF Answer, PoolShape, Held, passive, active_, world
<1>4. ASSUME NEW x \in Conns, ConnectEnds(x) PROVE PoolShape' /\ Found'
  <2>1. loop' = [pc |-> "load", x |-> x, b |-> conn[x].b, ok |-> conn[x].pc = "accepted"]
    BY <1>4 DEF ConnectEnds
  <2>2. conn[x].b \in Servers /\ conn' = conn
    BY <1>0, <1>4 DEF ConnectEnds, Status
  <2>3. Held' /\ loop'.pc \in LoopPCs
    BY <2>1, <2>2 DEF Held, LoopPCs
  <2>4. Found'
    <3>1. CASE conn[x].pc = "accepted"
      <4>1. loop'.ok = TRUE /\ loop'.pc = "load" /\ loop'.x = x /\ loop'.b = conn[x].b
        BY <2>1, <3>1
      <4> QED
        BY <2>2, <3>1, <4>1 DEF Found
    <3>2. CASE conn[x].pc = "refused"
      <4>1. loop'.ok = FALSE /\ loop'.pc = "load" /\ loop'.x = x /\ loop'.b = conn[x].b
        BY <2>1, <3>2
      <4> QED
        BY <2>2, <3>2, <4>1 DEF Found
    <3> QED
      BY <1>4, <3>1, <3>2 DEF ConnectEnds
  <2> QED
    BY <1>4, <2>2, <2>3, <2>4 DEF ConnectEnds, PoolShape, passive, active_, world
<1>5. ASSUME NEW x \in Conns, Garbled(x) PROVE PoolShape' /\ Found'
  <2>1. loop' = [pc |-> "load", x |-> x, b |-> conn[x].b, ok |-> FALSE]
    BY <1>5 DEF Garbled
  <2>2. conn[x].b \in Servers /\ conn' = conn
    BY <1>0, <1>5 DEF Garbled, Status
  <2>3. Held' /\ loop'.pc \in LoopPCs
    BY <2>1, <2>2 DEF Held, LoopPCs
  <2>4. Found'
    BY <1>5, <2>1, <2>2 DEF Found, Garbled
  <2> QED
    BY <1>5, <2>2, <2>3, <2>4 DEF Garbled, PoolShape, passive, active_, world
<1>6. ASSUME NEW x \in Conns, Close(x) PROVE PoolShape' /\ Found'
  <2>1. conn' \in [Conns -> Status]
    <3>1. NoConn \in Status
      BY DEF NoConn, Status
    <3> QED
      BY <1>6, <3>1 DEF Close, PoolShape
  <2>2. active' \in [Servers -> Nat]
    <3>1. conn[x].b \in Servers
      BY <1>0 DEF Status
    <3>2. active' = [active EXCEPT ![conn[x].b] = IF @ > 0 THEN @ - 1 ELSE 0]
      BY <1>6 DEF Close, Closed
    <3> QED
      BY <3>1, <3>2 DEF PoolShape
  <2>3. Held' /\ Found'
    BY <1>6 DEF Close, Held, Found
  <2> QED
    BY <1>6, <2>1, <2>2, <2>3 DEF Close, PoolShape, active_, world
<1>7. CASE Scan
  <2>1. loop \in [pc : {"scan"}, x : Conns, k : 0..N, seen : SUBSET Servers] /\ loop.k < N
    BY <1>7 DEF Scan, PoolShape, Held
  <2>2. Nth(loop.k) \in Servers
    BY <2>1, NthIs DEF PoolShape
  <2>3. loop' \in [pc : {"scan"}, x : Conns, k : 0..N, seen : SUBSET Servers] /\ loop'.x = loop.x
    <3> DEFINE e == IF up[Nth(loop.k)] THEN loop.seen \cup {Nth(loop.k)} ELSE loop.seen
    <3>1. e \in SUBSET Servers
      BY <2>1, <2>2
    <3>2. loop' = [loop EXCEPT !.k = @ + 1, !.seen = e]
      BY <1>7 DEF Scan
    <3> HIDE DEF e
    <3>3. loop.k + 1 \in 0..N
      BY <2>1
    <3>4. loop' = [pc |-> "scan", x |-> loop.x, k |-> loop.k + 1, seen |-> e]
      BY <2>1, <3>2
    <3> QED
      BY <2>1, <3>1, <3>3, <3>4
  <2>4. Held' /\ loop'.pc \in LoopPCs
    BY <2>3 DEF Held, LoopPCs
  <2>5. Found'
    BY <1>7, <2>3 DEF Found, Scan
  <2> QED
    BY <1>7, <2>4, <2>5 DEF Scan, PoolShape, passive, active_, world
<1>8. CASE NobodyUp
  <2>1. NoConn \in Status
    BY DEF NoConn, Status
  <2>2. loop'.pc = "idle" /\ conn' \in [Conns -> Status]
    BY <1>8, <2>1 DEF NobodyUp, NoHandler, PoolShape
  <2>3. Held' /\ Found' /\ loop'.pc \in LoopPCs
    BY <2>2 DEF Held, Found, LoopPCs
  <2> QED
    BY <1>8, <2>2, <2>3 DEF NobodyUp, PoolShape, passive, active_, world
<1>9. CASE Pick
  <2> DEFINE S == loop.seen
             b == Best(S)
  <2>1. loop \in [pc : {"scan"}, x : Conns, k : 0..N, seen : SUBSET Servers] /\ S # {}
    BY <1>9 DEF Pick, PoolShape, Held
  <2>2. S \subseteq Servers /\ b \in Servers
    <3>1. S \subseteq Servers /\ S # {}
      BY <2>1
    <3> HIDE DEF S
    <3> QED
      BY <3>1, BestIs DEF PoolShape
  <2>3. Advance(b) /\ Reweigh(S, b) /\ got' = Counted(S, b)
    BY <1>9 DEF Pick
  <2>4. \/ /\ conn' = [conn EXCEPT ![loop.x].pc = "connecting", ![loop.x].b = b]
           /\ loop' = NoHandler
        \/ /\ loop' = [pc |-> "load", x |-> loop.x, b |-> b, ok |-> FALSE]
           /\ UNCHANGED conn
    BY <1>9 DEF Pick
  <2>5. UNCHANGED <<up, fails, successes, active, p_ok, p_fail, probe, balance>>
    BY <1>9 DEF Pick, active_, world
  <2>6. conn[loop.x].pc = "routing"
    BY <2>1 DEF Found
  <2> HIDE DEF b
  <2>7. rr' \in Servers
    BY <2>2, <2>3, NextTurn DEF Advance, PoolShape
  <2>8. current' \in [Servers -> Int]
    <3>1. \A i \in Servers : Weight[i] \in Int /\ current[i] \in Int
      BY TotalOfAll DEF PoolShape
    <3>2. Raised(S) \in [Servers -> Int]
      BY <3>1 DEF Raised
    <3>3. Total(S) \in Int
      <4> DEFINE f == [i \in Servers |-> IF i \in S THEN Weight[i] ELSE 0]
      <4>1. f \in [Servers -> Int]
        BY <3>1
      <4> HIDE DEF f
      <4>2. Sum(f) \in Int
        BY <4>1, SumType
      <4> QED
        BY <4>2 DEF Total, f
    <3> QED
      BY <2>2, <2>3, <3>2, <3>3 DEF Reweigh, PoolShape
  <2>9. got' \in [n : [Servers -> Nat], of : SUBSET Servers, calm : BOOLEAN]
    BY <2>2, <2>3, CountedFits
  <2>10. conn' \in [Conns -> Status]
    <3>1. [conn[loop.x] EXCEPT !.pc = "connecting", !.b = b] \in Status
      BY <1>0, <2>1, <2>2 DEF Status
    <3> QED
      BY <2>1, <2>4, <3>1 DEF PoolShape
  <2>11. Held' /\ Found' /\ loop'.pc \in LoopPCs
    <3>1. CASE loop' = NoHandler
      BY <3>1 DEF Held, Found, NoHandler, LoopPCs
    <3>2. CASE loop' = [pc |-> "load", x |-> loop.x, b |-> b, ok |-> FALSE] /\ conn' = conn
      BY <2>1, <2>2, <2>6, <3>2 DEF Held, Found, LoopPCs
    <3> QED
      BY <2>4, <3>1, <3>2
  <2> QED
    BY <2>5, <2>7, <2>8, <2>9, <2>10, <2>11 DEF PoolShape
<1>10. CASE ReportLoad
  <2>1. loop \in [pc : {"load"}, x : Conns, b : Servers, ok : BOOLEAN]
    BY <1>10 DEF ReportLoad, PoolShape, Held
  <2>2. loop' = [pc |-> "store", x |-> loop.x, b |-> loop.b, ok |-> loop.ok, up |-> up[loop.b]]
    BY <1>10 DEF ReportLoad
  <2>3. Held' /\ loop'.pc \in LoopPCs
    BY <2>1, <2>2 DEF Held, LoopPCs, PoolShape
  <2>4. Found'
    BY <1>10, <2>1, <2>2 DEF Found, ReportLoad
  <2> QED
    BY <1>10, <2>3, <2>4 DEF ReportLoad, PoolShape, passive, active_, world
<1>11. CASE Established
  <2>1. loop \in [pc : {"store"}, x : Conns, b : Servers, ok : BOOLEAN, up : BOOLEAN]
    BY <1>11 DEF Established, PoolShape, Held
  <2>2. ReportOk(loop.b, loop.up)
    BY <1>11 DEF Established
  <2>3. loop.b \in Servers /\ loop.up \in BOOLEAN
    BY <2>1
  <2>4. /\ fails' \in [Servers -> 0..(Fall - 1)] /\ successes' \in [Servers -> 0..(Rise - 1)]
        /\ up' \in [Servers -> BOOLEAN] /\ current' \in [Servers -> Int]
    BY <2>2, <2>3, ReportsFit
  <2>5. active' \in [Servers -> Nat]
    BY <1>11, <2>1 DEF Established, PoolShape
  <2>6. conn' \in [Conns -> Status]
    <3>1. [conn[loop.x] EXCEPT !.pc = "open"] \in Status
      BY <1>0, <2>1 DEF Status
    <3> QED
      BY <1>11, <3>1 DEF Established, PoolShape
  <2>7. Held' /\ Found' /\ loop'.pc \in LoopPCs
    BY <1>11 DEF Established, Held, Found, NoHandler, LoopPCs
  <2> QED
    BY <1>11, <2>4, <2>5, <2>6, <2>7 DEF Established, PoolShape, active_, world
<1>12. CASE Failed
  <2>1. loop \in [pc : {"store"}, x : Conns, b : Servers, ok : BOOLEAN, up : BOOLEAN]
    BY <1>12 DEF Failed, PoolShape, Held
  <2>2. ReportFailure(loop.b, loop.up)
    BY <1>12 DEF Failed
  <2>3. loop.b \in Servers /\ loop.up \in BOOLEAN
    BY <2>1
  <2>4. /\ fails' \in [Servers -> 0..(Fall - 1)] /\ successes' \in [Servers -> 0..(Rise - 1)]
        /\ up' \in [Servers -> BOOLEAN] /\ current' = current
    BY <2>2, <2>3, ReportsFit
  <2>5. active' \in [Servers -> Nat]
    BY <1>12, <2>1 DEF Failed, Closed, PoolShape
  <2>6. conn[loop.x].attempts \in 0..MaxAttempts
    BY <1>0, <2>1 DEF Status
  <2>7. Held' /\ Found' /\ loop'.pc \in LoopPCs /\ conn' \in [Conns -> Status]
    BY <1>12, <2>1, <2>6, Routed DEF Failed, LoopPCs
  <2>8. got' \in [n : [Servers -> Nat], of : SUBSET Servers, calm : BOOLEAN]
    BY <1>12 DEF Failed, Watched, PoolShape
  <2> QED
    BY <1>12, <2>4, <2>5, <2>7, <2>8 DEF Failed, PoolShape, active_, world
<1>13. CASE Answered502
  <2>1. loop \in [pc : {"store"}, x : Conns, b : Servers, ok : BOOLEAN, up : BOOLEAN]
    BY <1>13 DEF Answered502, PoolShape, Held
  <2>2. ReportFailure(loop.b, loop.up)
    BY <1>13 DEF Answered502
  <2>3. loop.b \in Servers /\ loop.up \in BOOLEAN
    BY <2>1
  <2>4. /\ fails' \in [Servers -> 0..(Fall - 1)] /\ successes' \in [Servers -> 0..(Rise - 1)]
        /\ up' \in [Servers -> BOOLEAN] /\ current' = current
    BY <2>2, <2>3, ReportsFit
  <2>6. conn' \in [Conns -> Status]
    <3>1. [conn[loop.x] EXCEPT !.pc = "closing"] \in Status
      BY <1>0, <2>1 DEF Status
    <3> QED
      BY <1>13, <3>1 DEF Answered502, PoolShape
  <2>7. Held' /\ Found' /\ loop'.pc \in LoopPCs
    BY <1>13 DEF Answered502, Held, Found, NoHandler, LoopPCs
  <2>8. got' \in [n : [Servers -> Nat], of : SUBSET Servers, calm : BOOLEAN]
    BY <1>13 DEF Answered502, Watched, PoolShape
  <2> QED
    BY <1>13, <2>4, <2>6, <2>7, <2>8 DEF Answered502, PoolShape, active_, world
<1>14. CASE Dial \/ ProbeLoad
  <2>1. probe' \in [pc : {"dial", "load", "store"}, i : Servers, ok : BOOLEAN, up : BOOLEAN]
    BY <1>14 DEF Dial, ProbeLoad, PoolShape
  <2>2. UNCHANGED <<loop, conn>>
    BY <1>14 DEF Dial, ProbeLoad
  <2>3. Held' /\ Found'
    BY <2>2 DEF Held, Found, PoolShape
  <2> QED
    BY <1>14, <2>1, <2>2, <2>3 DEF Dial, ProbeLoad, PoolShape, passive, active_, world
<1>15. CASE ProbeResult
  <2>1. probe.i \in Servers /\ probe.up \in BOOLEAN
    BY DEF PoolShape
  <2>2. ProbeOk(probe.i, probe.up) \/ ProbeFailure(probe.i, probe.up)
    BY <1>15 DEF ProbeResult
  <2>3. /\ p_fail' \in [Servers -> 0..(Fall - 1)] /\ p_ok' \in [Servers -> 0..(Rise - 1)]
        /\ up' \in [Servers -> BOOLEAN]
    BY <2>1, <2>2, ReportsFit
  <2>4. probe' \in [pc : {"dial", "load", "store"}, i : Servers, ok : BOOLEAN, up : BOOLEAN]
    BY <1>15, <2>1, NextTurn DEF ProbeResult
  <2>5. got' \in [n : [Servers -> Nat], of : SUBSET Servers, calm : BOOLEAN]
    BY <1>15 DEF ProbeResult, Watched, PoolShape
  <2>6. Held' /\ Found'
    BY <1>15 DEF ProbeResult, Held, Found, PoolShape
  <2> QED
    BY <1>15, <2>3, <2>4, <2>5, <2>6 DEF ProbeResult, PoolShape, passive, world
<1>16. ASSUME NEW i \in Servers, Change(i) PROVE PoolShape' /\ Found'
  <2>1. Held' /\ Found'
    BY <1>16 DEF Change, Held, Found, PoolShape
  <2> QED
    BY <1>16, <2>1 DEF Change, PoolShape, passive, active_
<1> QED
  BY <1>1, <1>2, <1>3, <1>4, <1>5, <1>6, <1>7, <1>8, <1>9, <1>10, <1>11, <1>12, <1>13, <1>14,
     <1>15, <1>16 DEF PoolNext, Handler, Probe

----------------------------------------------------------------------------
(* The counts of the connections.                                          *)

LEMMA OnFinite ==
  ASSUME NEW b
  PROVE  IsFiniteSet(On(b)) /\ Cardinality(On(b)) \in Nat /\ Cardinality(On(b)) <= Cardinality(Conns)
<1>1. IsFiniteSet(Conns) /\ On(b) \subseteq Conns
  BY BackendPoolAssumption DEF On
<1> QED
  BY <1>1, FS_Subset, FS_CardinalityType

\* A connection that has no upstream yet counts nowhere.
LEMMA OnSame ==
  ASSUME NEW x \in Conns, conn[x].pc \notin {"open", "closing"}, conn'[x].pc \notin {"open", "closing"},
         \A y \in Conns \ {x} : conn'[y] = conn[y]
  PROVE  \A b : On(b)' = On(b)
BY DEF On

LEMMA ActiveSteps ==
  ASSUME PoolShape, Found, PoolShape', ActiveFits, [PoolNext]_pool_vars
  PROVE  ActiveFits'
<1> USE BackendPoolAssumption
<1> DEFINE Kept == (\A b \in Servers : On(b)' = On(b)) /\ \A b \in Servers : active'[b] <= active[b]
<1>1. ASSUME Kept PROVE ActiveFits'
  <2> SUFFICES ASSUME NEW b \in Servers PROVE active'[b] <= Cardinality(On(b)')
    BY DEF ActiveFits
  <2>1. active'[b] <= active[b] /\ active[b] <= Cardinality(On(b))
    BY <1>1 DEF ActiveFits
  <2>2. active'[b] \in Nat /\ active[b] \in Nat /\ Cardinality(On(b)) \in Nat
    BY OnFinite DEF PoolShape
  <2> QED
    BY <1>1, <2>1, <2>2
<1>2. ASSUME active' = active PROVE \A b \in Servers : active'[b] <= active[b]
  BY <1>2 DEF PoolShape
<1>3. \A b \in Servers : active[b] \in Nat
  BY DEF PoolShape
<1>4. ASSUME conn' = conn, active' = active PROVE ActiveFits'
  <2>1. \A b : On(b)' = On(b)
    BY <1>4 DEF On
  <2> QED
    BY <2>1, <1>2, <1>4, <1>1
<1>5. ASSUME NEW x \in Conns, Request(x) PROVE ActiveFits'
  <2>1. Route(x, 0) /\ active' = active /\ conn[x].pc = "none" /\ 0 \in 0..MaxAttempts
    BY <1>5 DEF Request, passive
  <2>2. conn'[x].pc \in {"none", "routing"} /\ \A y \in Conns \ {x} : conn'[y] = conn[y]
    BY <2>1, Routed
  <2>3. \A b : On(b)' = On(b)
    BY <2>1, <2>2, OnSame
  <2> QED
    BY <2>1, <2>3, <1>1, <1>2
<1>6. ASSUME NEW x \in Conns, Answer(x) PROVE ActiveFits'
  <2>1. /\ active' = active /\ conn[x].pc = "connecting"
        /\ conn'[x].pc \in {"refused", "accepted"} /\ \A y \in Conns \ {x} : conn'[y] = conn[y]
    BY <1>6 DEF Answer, passive, PoolShape, Status
  <2>2. \A b : On(b)' = On(b)
    BY <2>1, OnSame
  <2> QED
    BY <2>1, <2>2, <1>1, <1>2
<1>7. CASE NobodyUp
  <2>1. loop.x \in Conns /\ conn[loop.x].pc = "routing"
    BY <1>7 DEF NobodyUp, PoolShape, Held, Found
  <2>2. /\ active' = active /\ conn'[loop.x].pc = "none"
        /\ \A y \in Conns \ {loop.x} : conn'[y] = conn[y]
    BY <1>7, <2>1 DEF NobodyUp, passive, PoolShape, NoConn
  <2>3. \A b : On(b)' = On(b)
    BY <2>1, <2>2, OnSame
  <2> QED
    BY <2>2, <2>3, <1>1, <1>2
<1>8. CASE Pick
  <2> DEFINE b == Best(loop.seen)
  <2>1. loop.x \in Conns /\ conn[loop.x].pc = "routing" /\ active' = active
    BY <1>8 DEF Pick, PoolShape, Held, Found
  <2>2. conn' = conn \/ conn' = [conn EXCEPT ![loop.x].pc = "connecting", ![loop.x].b = b]
    BY <1>8 DEF Pick
  <2> HIDE DEF b
  <2>3. conn'[loop.x].pc \in {"routing", "connecting"} /\ \A y \in Conns \ {loop.x} : conn'[y] = conn[y]
    BY <2>1, <2>2 DEF PoolShape, Status
  <2>4. \A c : On(c)' = On(c)
    BY <2>1, <2>3, OnSame
  <2> QED
    BY <2>1, <2>4, <1>1, <1>2
<1>9. CASE Established
  <2>1. PICK x \in Conns, b \in Servers :
          /\ conn[x].pc = "accepted" /\ conn[x].b = b
          /\ active' = [active EXCEPT ![b] = @ + 1]
          /\ conn' = [conn EXCEPT ![x].pc = "open"]
    <3>1. loop.x \in Conns /\ loop.b \in Servers
      BY <1>9 DEF Established, PoolShape, Held
    <3>2. conn[loop.x].pc = "accepted" /\ conn[loop.x].b = loop.b
      BY <1>9 DEF Established, Found
    <3> QED
      BY <1>9, <3>1, <3>2 DEF Established
  <2>3. /\ conn'[x].pc = "open" /\ conn'[x].b = b
        /\ \A y \in Conns \ {x} : conn'[y] = conn[y]
    BY <2>1 DEF PoolShape, Status
  <2>4. On(b)' = On(b) \cup {x} /\ x \notin On(b)
    <3>1. \A y \in Conns \ {x} : y \in On(b)' <=> y \in On(b)
      BY <2>3 DEF On
    <3>2. x \in On(b)' /\ x \notin On(b)
      BY <2>1, <2>3 DEF On
    <3>3. On(b)' \subseteq Conns /\ On(b) \subseteq Conns
      BY DEF On
    <3> QED
      BY <3>1, <3>2, <3>3
  <2>5. \A c \in Servers \ {b} : On(c)' = On(c)
    BY <2>1, <2>3 DEF On
  <2>6. Cardinality(On(b)') = Cardinality(On(b)) + 1
    BY <2>4, OnFinite, FS_AddElement
  <2>7. active'[b] = active[b] + 1 /\ \A c \in Servers \ {b} : active'[c] = active[c]
    BY <2>1 DEF PoolShape
  <2> SUFFICES ASSUME NEW c \in Servers PROVE active'[c] <= Cardinality(On(c)')
    BY DEF ActiveFits
  <2>8. active[c] <= Cardinality(On(c)) /\ active[c] \in Nat /\ Cardinality(On(c)) \in Nat
    BY <1>3, OnFinite DEF ActiveFits
  <2>9. CASE c = b
    BY <2>6, <2>7, <2>8, <2>9
  <2>10. CASE c # b
    BY <2>5, <2>7, <2>8, <2>10
  <2> QED
    BY <2>9, <2>10
<1>10. CASE Failed
  <2>1. /\ loop.x \in Conns /\ loop.b \in Servers
        /\ conn[loop.x].pc \in {"routing", "refused"}
        /\ conn[loop.x].attempts \in 0..MaxAttempts
    BY <1>10 DEF Failed, PoolShape, Held, Found, Status
  <2>2. Route(loop.x, conn[loop.x].attempts)
    BY <1>10 DEF Failed
  <2>3. conn'[loop.x].pc \in {"none", "routing"} /\ \A y \in Conns \ {loop.x} : conn'[y] = conn[y]
    BY <2>1, <2>2, Routed
  <2>4. \A b : On(b)' = On(b)
    BY <2>1, <2>3, OnSame
  <2>5. \A b \in Servers : active'[b] <= active[b]
    BY <1>10, <1>3, <2>1 DEF Failed, Closed, PoolShape
  <2> QED
    BY <2>4, <2>5, <1>1
<1>11. CASE Answered502
  <2>1. loop.x \in Conns /\ conn[loop.x].pc = "open" /\ active' = active
    BY <1>11 DEF Answered502, PoolShape, Held, passive
  <2>2. conn' = [conn EXCEPT ![loop.x].pc = "closing"]
    BY <1>11 DEF Answered502
  <2>3. /\ conn'[loop.x].pc = "closing" /\ conn'[loop.x].b = conn[loop.x].b
        /\ \A y \in Conns \ {loop.x} : conn'[y] = conn[y]
    BY <2>1, <2>2 DEF PoolShape, Status
  <2>4. \A b : On(b)' = On(b)
    BY <2>1, <2>3 DEF On
  <2> QED
    BY <2>1, <2>4, <1>1, <1>2
<1>12. ASSUME NEW x \in Conns, Close(x) PROVE ActiveFits'
  <2>1. PICK b \in Servers : conn[x].b = b
    BY DEF PoolShape, Status
  <2>2. active' = [active EXCEPT ![b] = IF @ > 0 THEN @ - 1 ELSE 0] /\ conn' = [conn EXCEPT ![x] = NoConn]
    BY <1>12, <2>1 DEF Close, Closed
  <2>3. conn'[x].pc = "none" /\ \A y \in Conns \ {x} : conn'[y] = conn[y]
    BY <2>2 DEF PoolShape, NoConn
  <2>4. On(b)' = On(b) \ {x} /\ \A c \in Servers \ {b} : On(c)' = On(c)
    <3>1. \A c : \A y \in Conns \ {x} : y \in On(c)' <=> y \in On(c)
      BY <2>3 DEF On
    <3>2. \A c : x \notin On(c)'
      BY <2>3 DEF On
    <3>3. \A c : On(c)' \subseteq Conns /\ On(c) \subseteq Conns
      BY DEF On
    <3>4. \A c \in Servers \ {b} : x \notin On(c)
      BY <2>1 DEF On
    <3> QED
      BY <3>1, <3>2, <3>3, <3>4
  <2>5. /\ active'[b] = IF active[b] > 0 THEN active[b] - 1 ELSE 0
        /\ \A c \in Servers \ {b} : active'[c] = active[c]
    BY <2>1, <2>2 DEF PoolShape
  <2>6. Cardinality(On(b)') >= Cardinality(On(b)) - 1 /\ Cardinality(On(b)') \in Nat
    <3>1. IsFiniteSet(On(b)) /\ Cardinality(On(b)) \in Nat
      BY OnFinite
    <3>2. CASE x \in On(b)
      <4>1. Cardinality(On(b) \ {x}) = Cardinality(On(b)) - 1 /\ IsFiniteSet(On(b) \ {x})
        BY <3>1, <3>2, FS_RemoveElement
      <4>2. Cardinality(On(b) \ {x}) \in Nat
        BY <4>1, FS_CardinalityType
      <4> QED
        BY <2>4, <3>1, <4>1, <4>2
    <3>3. CASE x \notin On(b)
      <4>1. On(b)' = On(b)
        BY <2>4, <3>3
      <4> QED
        BY <3>1, <4>1
    <3> QED
      BY <3>2, <3>3
  <2> SUFFICES ASSUME NEW c \in Servers PROVE active'[c] <= Cardinality(On(c)')
    BY DEF ActiveFits
  <2>7. active[c] <= Cardinality(On(c)) /\ active[c] \in Nat /\ Cardinality(On(c)) \in Nat
    BY <1>3, OnFinite DEF ActiveFits
  <2>8. CASE c = b
    BY <2>5, <2>6, <2>7, <2>8
  <2>9. CASE c # b
    BY <2>4, <2>5, <2>7, <2>9
  <2> QED
    BY <2>8, <2>9
<1>13. ASSUME NEW x \in Conns, ConnectEnds(x) \/ Garbled(x) PROVE ActiveFits'
  BY <1>13, <1>4 DEF ConnectEnds, Garbled, passive
<1>14. CASE Scan \/ ReportLoad
  BY <1>14, <1>4 DEF Scan, ReportLoad, passive
<1>15. CASE Probe
  BY <1>15, <1>4 DEF Probe, Dial, ProbeLoad, ProbeResult, passive
<1>16. ASSUME NEW i \in Servers, Change(i) PROVE ActiveFits'
  BY <1>16, <1>4 DEF Change, passive
<1>17. CASE UNCHANGED pool_vars
  BY <1>17, <1>4 DEF pool_vars, passive
<1> QED
  BY <1>5, <1>6, <1>7, <1>8, <1>9, <1>10, <1>11, <1>12, <1>13, <1>14, <1>15, <1>16, <1>17
     DEF PoolNext, Handler

----------------------------------------------------------------------------
(* Rounds.                                                                 *)

\* Only a pick counts, and the calm does not come back.
LEMMA OnlyPicks ==
  ASSUME PoolShape, [PoolNext]_pool_vars, ~Pick
  PROVE  /\ rr' = rr /\ got'.n = got.n /\ got'.of = got.of
         /\ got'.calm => got.calm
<1>1. rr' = rr
  BY DEF PoolNext, Handler, Probe, pool_vars, passive, Request, Answer, ConnectEnds, Garbled, Close,
         Scan, NobodyUp, ReportLoad, Established, Failed, Answered502, Dial, ProbeLoad, ProbeResult,
         Change
<1>2. got' = got \/ Watched
  BY DEF PoolNext, Handler, Probe, pool_vars, passive, Request, Answer, ConnectEnds, Garbled, Close,
         Scan, NobodyUp, ReportLoad, Established, Failed, Answered502, Dial, ProbeLoad, ProbeResult,
         Change
<1>3. got'.n = got.n /\ got'.of = got.of /\ (got'.calm => got.calm)
  BY <1>2 DEF Watched, PoolShape
<1> QED
  BY <1>1, <1>3

LEMMA BalanceStays ==
  ASSUME [PoolNext]_pool_vars
  PROVE  balance' = balance
BY DEF PoolNext, Handler, Probe, pool_vars, world, Request, Answer, ConnectEnds, Garbled, Close,
       Scan, NobodyUp, Pick, ReportLoad, Established, Failed, Answered502, Dial, ProbeLoad,
       ProbeResult, Change

\* A failure that takes a backend down ends the calm.
LEMMA CalmSteps ==
  ASSUME PoolShape, PoolShape', Calm, [PoolNext]_pool_vars
  PROVE  Calm'
<1> SUFFICES ASSUME got'.calm
             PROVE  /\ \A i \in Servers : up'[i]
                    /\ loop'.pc = "store" => loop'.up
                    /\ balance' = "weighted" /\ loop'.pc = "scan" => loop'.seen = 0..(loop'.k - 1)
  BY DEF Calm
<1> USE ServersAre, BackendPoolAssumption
<1>0. balance' = balance
  BY BalanceStays
<1>1. got.calm
  <2>1. CASE Pick
    <3> DEFINE S == loop.seen
               b == Best(S)
    <3>1. S \subseteq Servers /\ S # {}
      BY <2>1 DEF Pick, PoolShape, Held
    <3>2. b \in Servers
      <4> HIDE DEF S
      <4> QED
        BY <3>1, BestIs DEF PoolShape
    <3>3. got' = Counted(S, b)
      BY <2>1 DEF Pick
    <3> HIDE DEF S, b
    <3> QED
      BY <3>1, <3>2, <3>3, CountedFits
  <2> QED
    BY <2>1, OnlyPicks
<1>2. /\ \A i \in Servers : up[i]
      /\ loop.pc = "store" => loop.up
      /\ balance = "weighted" /\ loop.pc = "scan" => loop.seen = 0..(loop.k - 1)
  BY <1>1 DEF Calm
<1>3. {} = 0..(0 - 1)
  OBVIOUS
<1>4. CASE UNCHANGED pool_vars
  BY <1>0, <1>2, <1>4 DEF pool_vars
<1>5. ASSUME NEW x \in Conns, Request(x) PROVE Calm'
  <2>1. loop'.pc \in {"idle", "scan"} /\ (loop'.pc = "scan" => loop'.k = 0 /\ loop'.seen = {})
    BY <1>5, Routed DEF Request
  <2> QED
    BY <1>0, <1>2, <1>5, <1>3, <2>1 DEF Request, Calm
<1>6. ASSUME NEW x \in Conns, Answer(x) \/ Close(x) PROVE Calm'
  BY <1>0, <1>2, <1>6 DEF Answer, Close, Calm
<1>7. ASSUME NEW x \in Conns, ConnectEnds(x) \/ Garbled(x) PROVE Calm'
  <2>1. loop'.pc = "load"
    BY <1>7 DEF ConnectEnds, Garbled
  <2> QED
    BY <1>0, <1>2, <1>7, <2>1 DEF ConnectEnds, Garbled, Calm
<1>8. CASE Scan
  <2>1. loop \in [pc : {"scan"}, x : Conns, k : 0..N, seen : SUBSET Servers] /\ loop.k < N
    BY <1>8 DEF Scan, PoolShape, Held
  <2>2. Nth(loop.k) \in Servers /\ (balance = "weighted" => Nth(loop.k) = loop.k)
    BY <2>1, NthIs DEF PoolShape
  <2>3. up[Nth(loop.k)] /\ up' = up
    BY <1>2, <1>8, <2>2 DEF Scan
  <2>4. loop'.pc = "scan" /\ loop'.k = loop.k + 1 /\ loop'.seen = loop.seen \cup {Nth(loop.k)}
    BY <1>8, <2>1, <2>3 DEF Scan
  <2>5. balance = "weighted" => loop'.seen = 0..(loop'.k - 1)
    BY <1>2, <2>1, <2>2, <2>4
  <2> QED
    BY <1>0, <1>2, <2>3, <2>4, <2>5
<1>9. CASE NobodyUp
  BY <1>2, <1>9 DEF NobodyUp, NoHandler
<1>10. CASE Pick
  <2>1. loop'.pc \in {"idle", "load"} /\ up' = up
    BY <1>10 DEF Pick, NoHandler
  <2> QED
    BY <1>2, <2>1
<1>11. CASE ReportLoad
  <2>1. loop.b \in Servers
    BY <1>11 DEF ReportLoad, PoolShape, Held
  <2>2. loop'.pc = "store" /\ loop'.up = up[loop.b] /\ up' = up
    BY <1>11 DEF ReportLoad
  <2> QED
    BY <1>2, <2>1, <2>2
<1>12. CASE Established
  <2>1. loop.b \in Servers /\ loop.up \in BOOLEAN
    BY <1>12 DEF Established, PoolShape, Held
  <2>2. ReportOk(loop.b, loop.up) /\ loop'.pc = "idle"
    BY <1>12 DEF Established, NoHandler
  <2>3. \A i \in Servers : up[i] => up'[i]
    BY <2>1, <2>2, ReportsFit
  <2> QED
    BY <1>2, <2>2, <2>3
<1>13. ASSUME Watched PROVE \A i \in Servers : up'[i]
  BY <1>13 DEF Watched, PoolShape
<1>14. CASE Failed
  <2>1. loop.x \in Conns /\ conn[loop.x].attempts \in 0..MaxAttempts
    BY <1>14 DEF Failed, PoolShape, Held, Status
  <2>2. loop'.pc \in {"idle", "scan"} /\ (loop'.pc = "scan" => loop'.k = 0 /\ loop'.seen = {})
    BY <1>14, <2>1, Routed DEF Failed
  <2> QED
    BY <1>13, <1>14, <1>3, <2>2 DEF Failed
<1>15. CASE Answered502
  BY <1>13, <1>15 DEF Answered502, NoHandler
<1>16. CASE Dial \/ ProbeLoad
  BY <1>0, <1>2, <1>16 DEF Dial, ProbeLoad
<1>17. CASE ProbeResult
  BY <1>0, <1>2, <1>13, <1>17 DEF ProbeResult
<1>18. ASSUME NEW i \in Servers, Change(i) PROVE Calm'
  BY <1>0, <1>2, <1>18 DEF Change, Calm
<1> QED
  BY <1>4, <1>5, <1>6, <1>7, <1>8, <1>9, <1>10, <1>11, <1>12, <1>14, <1>15, <1>16, <1>17, <1>18
     DEF PoolNext, Handler, Probe, Calm

\* The round with one more pick of b.
Before(S)  == IF S = got.of THEN got.n ELSE [i \in Servers |-> 0]
After(S, b) == [Before(S) EXCEPT ![b] = IF @ > Share(b) THEN @ ELSE @ + 1]
Over(S, b)  == \A i \in S : After(S, b)[i] >= Share(i)

LEMMA CountedIs ==
  ASSUME PoolShape, NEW S \in SUBSET Servers, NEW b \in Servers
  PROVE  /\ Before(S) \in [Servers -> Nat] /\ After(S, b) \in [Servers -> Nat]
         /\ Counted(S, b).n = IF Over(S, b) THEN [i \in Servers |-> 0] ELSE After(S, b)
         /\ Counted(S, b).of = S /\ Counted(S, b).calm = got.calm
<1>1. Before(S) \in [Servers -> Nat]
  BY DEF Before, PoolShape
<1>2. After(S, b) \in [Servers -> Nat]
  BY <1>1 DEF After
<1>3. Counted(S, b) = [got EXCEPT !.of = S,
                                  !.n = IF Over(S, b) THEN [i \in Servers |-> 0] ELSE After(S, b)]
  BY DEF Counted, Over, After, Before
<1>4. Counted(S, b).n = IF Over(S, b) THEN [i \in Servers |-> 0] ELSE After(S, b)
  BY <1>3 DEF PoolShape
<1> QED
  BY <1>1, <1>2, <1>4, CountedFits

LEMMA PickIs ==
  ASSUME PoolShape, Pick
  PROVE  \E S \in SUBSET Servers : \E b \in S :
           /\ S = loop.seen /\ b = Best(S) /\ loop.pc = "scan" /\ loop.k = N
           /\ Advance(b) /\ Reweigh(S, b) /\ got' = Counted(S, b)
<1> DEFINE S == loop.seen
<1>1. S \subseteq Servers /\ S # {}
  BY DEF Pick, PoolShape, Held
<1>2. Best(S) \in S
  <2> HIDE DEF S
  <2> QED
    BY <1>1, BestIs DEF PoolShape
<1> QED
  BY <1>1, <1>2 DEF Pick

----------------------------------------------------------------------------
(* The round robin.                                                        *)

LEMMA DistTurns ==
  ASSUME NEW i \in Servers, NEW r \in Servers, NEW s \in Servers
  PROVE  Dist(i, r) = IF Dist(i, s) >= Dist(r, s) THEN Dist(i, s) - Dist(r, s)
                                                  ELSE Dist(i, s) - Dist(r, s) + N
BY ServersAre DEF Dist

LEMMA DistNext ==
  ASSUME NEW b \in Servers, NEW s \in Servers
  PROVE  Dist((b + 1) % N, s) = IF Dist(b, s) = N - 1 THEN 0 ELSE Dist(b, s) + 1
<1>1. PICK r \in Servers : r = (b + 1) % N /\ r = IF b = N - 1 THEN 0 ELSE b + 1
  BY NextTurn
<1>2. Dist(r, s) = IF Dist(b, s) = N - 1 THEN 0 ELSE Dist(b, s) + 1
  BY <1>1, ServersAre DEF Dist
<1> QED
  BY <1>1, <1>2

\* A pick in a round of the same backends, and the first pick of a round.
LEMMA TurnPicked ==
  ASSUME PoolShape, InTurn, balance = "round_robin",
         NEW S \in SUBSET Servers, NEW b \in S, b = Best(S)
  PROVE  \/ Over(S, b)
         \/ \E s \in Servers :
              \A i \in S : After(S, b)[i] = IF Dist(i, s) < Dist((b + 1) % N, s) THEN 1 ELSE 0
<1> USE ServersAre
<1> SUFFICES ASSUME ~Over(S, b)
             PROVE  \E s \in Servers : \A i \in S :
                      After(S, b)[i] = IF Dist(i, s) < Dist((b + 1) % N, s) THEN 1 ELSE 0
  OBVIOUS
<1>1. \A i \in Servers : Share(i) = 1
  BY DEF Share
<1>2. PICK w \in S : After(S, b)[w] < 1
  <2>1. b \in Servers /\ After(S, b) \in [Servers -> Nat]
    BY CountedIs
  <2>2. PICK w \in S : ~(After(S, b)[w] >= Share(w))
    BY DEF Over
  <2>3. After(S, b)[w] \in Nat /\ Share(w) = 1
    BY <1>1, <2>1
  <2> QED
    BY <2>2, <2>3
<1>3. After(S, b)[w] = 0 /\ Before(S) \in [Servers -> Nat] /\ b \in Servers
  BY <1>2, CountedIs
<1>4. \A i \in Servers : After(S, b)[i] = IF i = b /\ Before(S)[b] <= 1 THEN Before(S)[b] + 1
                                                                        ELSE Before(S)[i]
  BY <1>1, <1>3 DEF After
<1>5. CASE S # got.of
  <2>1. \A i \in Servers : Before(S)[i] = 0
    BY <1>5 DEF Before
  <2>2. w # b
    BY <1>3, <1>4, <2>1
  <2>3. Dist(b, b) = 0 /\ Dist((b + 1) % N, b) = 1
    <3>1. Dist(b, b) = 0
      BY DEF Dist
    <3>2. N > 1
      BY <1>3, <2>2
    <3> QED
      BY <1>3, <3>1, <3>2, DistNext
  <2>4. \A i \in S : i # b => Dist(i, b) >= 1
    BY DEF Dist
  <2>5. \A i \in S : After(S, b)[i] = IF Dist(i, b) < Dist((b + 1) % N, b) THEN 1 ELSE 0
    <3> TAKE i \in S
    <3>1. CASE i = b
      BY <1>3, <1>4, <2>1, <2>3, <3>1
    <3>2. CASE i # b
      <4>1. Dist(i, b) \in Int /\ Dist(i, b) >= 1
        BY <1>3, <2>4, <3>2, DistIs
      <4> QED
        BY <1>4, <2>1, <2>3, <3>2, <4>1
    <3> QED
      BY <3>1, <3>2
  <2> QED
    BY <1>3, <2>5
<1>6. CASE S = got.of
  <2>1. PICK s \in Servers : Passed(s)
    BY DEF InTurn
  <2>2. \A i \in S : Before(S)[i] = IF Dist(i, s) < Dist(rr, s) THEN 1 ELSE 0
    BY <1>6, <2>1 DEF Passed, Before
  <2>3. PICK u \in S : Before(S)[u] = 0
    BY <1>6, <2>1 DEF Passed, Before
  <2>4. rr \in Servers /\ \A i \in Servers : Dist(i, s) \in Servers
    BY DistIs DEF PoolShape
  <2>5. \A j \in S : Dist(b, rr) <= Dist(j, rr)
    BY <1>3, BestIs DEF PoolShape
  <2>6. \A i \in S : Dist(i, rr) = IF Dist(i, s) >= Dist(rr, s) THEN Dist(i, s) - Dist(rr, s)
                                                                 ELSE Dist(i, s) - Dist(rr, s) + N
    BY <2>4, DistTurns
  <2>7. Dist(b, s) >= Dist(rr, s)
    <3>1. Dist(u, s) >= Dist(rr, s)
      BY <2>2, <2>3, <2>4
    <3> QED
      BY <2>4, <2>5, <2>6, <3>1
  <2>8. \A i \in S : Dist(i, s) >= Dist(rr, s) => Dist(i, s) >= Dist(b, s)
    BY <2>4, <2>5, <2>6, <2>7
  <2>9. \A i \in S : i # b => Dist(i, s) # Dist(b, s)
    BY DEF Dist
  <2>10. Before(S)[b] = 0
    BY <1>3, <2>2, <2>4, <2>7
  <2>11. \A i \in S : After(S, b)[i] = IF Dist(i, s) <= Dist(b, s) THEN 1 ELSE 0
    <3> TAKE i \in S
    <3>1. CASE i = b
      BY <1>3, <1>4, <2>4, <2>10, <3>1
    <3>2. CASE i # b
      <4>1. After(S, b)[i] = IF Dist(i, s) < Dist(rr, s) THEN 1 ELSE 0
        BY <1>4, <2>2, <3>2
      <4>2. Dist(i, s) < Dist(rr, s) <=> Dist(i, s) <= Dist(b, s)
        BY <1>3, <2>4, <2>7, <2>8, <2>9, <3>2
      <4> QED
        BY <4>1, <4>2
    <3> QED
      BY <3>1, <3>2
  <2>12. Dist(b, s) < Dist(w, s)
    BY <1>3, <2>4, <2>11
  <2>13. Dist((b + 1) % N, s) = Dist(b, s) + 1
    BY <1>3, <2>4, <2>12, DistNext
  <2>14. \A i \in S : Dist(i, s) <= Dist(b, s) <=> Dist(i, s) < Dist((b + 1) % N, s)
    BY <1>3, <2>4, <2>13
  <2> QED
    BY <2>11, <2>14
<1> QED
  BY <1>5, <1>6

(***************************************************************************)
(* The next turn is that of whoever follows the one who had his turn, so   *)
(* nobody is met again before all of the others were.                      *)
(***************************************************************************)
LEMMA TurnSteps ==
  ASSUME PoolShape, PoolShape', InTurn, [PoolNext]_pool_vars
  PROVE  InTurn'
<1> USE ServersAre
<1> SUFFICES ASSUME balance = "round_robin"
             PROVE  \E s \in Servers :
                      /\ \A i \in got'.of : got'.n[i] = IF Dist(i, s) < Dist(rr', s) THEN 1 ELSE 0
                      /\ \E i \in got'.of : got'.n[i] = 0
  BY BalanceStays DEF InTurn, Passed, Dist
<1>1. CASE ~Pick
  BY <1>1, OnlyPicks DEF InTurn, Passed
<1>2. CASE Pick
  <2>1. PICK S \in SUBSET Servers : \E b \in S :
          b = Best(S) /\ Advance(b) /\ got' = Counted(S, b)
    BY <1>2, PickIs
  <2>2. PICK b \in S : b = Best(S) /\ Advance(b) /\ got' = Counted(S, b)
    BY <2>1
  <2>3. b \in Servers /\ got'.of = S /\ rr' = (b + 1) % N /\ rr' \in Servers
    BY <2>2, CountedIs, NextTurn DEF Advance
  <2>4. got'.n = IF Over(S, b) THEN [i \in Servers |-> 0] ELSE After(S, b)
    BY <2>2, CountedIs
  <2>5. CASE Over(S, b)
    <3>1. \A i \in S : got'.n[i] = 0
      BY <2>4, <2>5
    <3>2. Dist(rr', rr') = 0 /\ \A i \in Servers : ~(Dist(i, rr') < 0)
      BY <2>3 DEF Dist
    <3> QED
      BY <2>3, <3>1, <3>2
  <2>6. CASE ~Over(S, b)
    <3>1. PICK s \in Servers :
            \A i \in S : After(S, b)[i] = IF Dist(i, s) < Dist((b + 1) % N, s) THEN 1 ELSE 0
      BY <2>2, <2>6, TurnPicked
    <3>2. \E i \in S : After(S, b)[i] = 0
      <4>1. PICK i \in S : ~(After(S, b)[i] >= 1)
        BY <2>6 DEF Over, Share
      <4>2. After(S, b) \in [Servers -> Nat]
        BY <2>3, CountedIs
      <4>3. After(S, b)[i] \in Nat
        BY <4>2
      <4> QED
        BY <4>1, <4>3
    <3> QED
      BY <2>3, <2>4, <2>6, <3>1, <3>2
  <2> QED
    BY <2>5, <2>6
<1> QED
  BY <1>1, <1>2

----------------------------------------------------------------------------
(* The weights.                                                            *)

LEMMA TimesGrows ==
  ASSUME NEW a \in Int, NEW b \in Int, NEW c \in Nat, a <= b
  PROVE  a * c <= b * c /\ c * a <= c * b
OBVIOUS

\* Somebody is owed something, and the one that is owed most has not had his
\* share.
LEMMA MostOwed ==
  ASSUME PoolShape, Owed, NEW b \in Servers,
         \A j \in Servers : Raised(Servers)[b] >= Raised(Servers)[j]
  PROVE  got.n[b] < Weight[b]
<1> DEFINE n == got.n
           t == Sum(n)
           T == Total(Servers)
           r == Raised(Servers)
<1>1. n \in [Servers -> Int] /\ t \in Int /\ \A i \in Servers : n[i] \in Nat
  <2>1. n \in [Servers -> Int]
    BY DEF PoolShape
  <2> HIDE DEF n
  <2>2. Sum(n) \in Int
    BY <2>1, SumType
  <2> QED
    BY <2>1, <2>2 DEF n, PoolShape
<1>2. t < T /\ \A i \in Servers : current[i] = t * Weight[i] - n[i] * T
  BY DEF Owed
<1>3. T \in Int /\ T > 0 /\ Weight \in [Servers -> Int] /\ \A i \in Servers : Weight[i] \in Nat
  BY TotalOfAll
<1>4. \A i \in Servers : r[i] = (t + 1) * Weight[i] - T * n[i]
  <2> TAKE i \in Servers
  <2>1. r[i] = current[i] + Weight[i]
    BY DEF Raised
  <2>2. current[i] = t * Weight[i] - n[i] * T
    BY <1>2
  <2>3. Weight[i] \in Int /\ n[i] \in Int
    BY <1>1, <1>3
  <2> HIDE DEF n, t, T, r
  <2>4. (t + 1) * Weight[i] = t * Weight[i] + Weight[i] /\ n[i] * T = T * n[i]
    BY <1>1, <1>3, <2>3
  <2>5. t * Weight[i] \in Int /\ T * n[i] \in Int
    BY <1>1, <1>3, <2>3
  <2> QED
    BY <2>1, <2>2, <2>3, <2>4, <2>5
<1>5. r[b] > 0
  <2> SUFFICES ASSUME ~(r[b] > 0) PROVE FALSE
    OBVIOUS
  <2>1. \A i \in Servers : r[i] \in Int
    BY TotalOfAll DEF Raised, PoolShape
  <2>2. \A i \in Servers : r[i] <= 0
    BY <2>1
  <2> HIDE DEF n, T, r
  <2>3. \A i \in Servers : (t + 1) * Weight[i] <= T * n[i]
    <3> TAKE i \in Servers
    <3>1. (t + 1) * Weight[i] \in Int /\ T * n[i] \in Int
      BY <1>1, <1>3
    <3> QED
      BY <1>4, <2>2, <3>1
  <2>4. t + 1 \in Int
    BY <1>1
  <2>5. (t + 1) * Sum(Weight) <= T * Sum(n)
    <3> DEFINE c == t + 1
    <3>1. c \in Int /\ \A i \in Servers : c * Weight[i] <= T * n[i]
      BY <2>3, <2>4
    <3> HIDE DEF c
    <3>2. c * Sum(Weight) <= T * Sum(n)
      BY <1>1, <1>3, <3>1, SumScales
    <3> QED
      BY <3>2 DEF c
  <2>6. (t + 1) * T <= T * t
    BY <2>5, TotalOfAll DEF T
  <2> HIDE DEF t
  <2>7. (t + 1) * T = T * t + T /\ T * t \in Int
    BY <1>1, <1>3
  <2> QED
    BY <1>3, <2>6, <2>7
<1>6. SUFFICES ASSUME ~(n[b] < Weight[b]) PROVE FALSE
  OBVIOUS
<1>7. Weight[b] \in Nat /\ n[b] \in Nat
  BY <1>1, <1>3
<1> HIDE DEF n, t, T, r
<1>8. T * Weight[b] <= T * n[b]
  <2>1. T \in Nat /\ Weight[b] <= n[b]
    BY <1>3, <1>6, <1>7
  <2> QED
    BY <1>7, <2>1, TimesGrows
<1>9. (t + 1) * Weight[b] <= T * Weight[b]
  <2>1. t + 1 \in Int /\ t + 1 <= T
    BY <1>1, <1>2, <1>3
  <2> DEFINE c == t + 1
  <2> HIDE DEF c
  <2>2. c * Weight[b] <= T * Weight[b]
    BY <1>3, <1>7, <2>1, TimesGrows DEF c
  <2> QED
    BY <2>2 DEF c
<1>10. (t + 1) * Weight[b] \in Int /\ T * Weight[b] \in Int /\ T * n[b] \in Int
  BY <1>1, <1>3, <1>7
<1> QED
  BY <1>4, <1>5, <1>8, <1>9, <1>10

\* Without a pick, and as long as the calm lasts, the dynamic weights stay.
LEMMA CurrentStays ==
  ASSUME PoolShape, Calm, got.calm, [PoolNext]_pool_vars, ~Pick
  PROVE  current' = current
<1>1. CASE Established
  <2>1. loop.b \in Servers /\ loop.up \in BOOLEAN /\ loop.up
    BY <1>1 DEF Established, PoolShape, Held, Calm
  <2> QED
    BY <1>1, <2>1, ReportsFit DEF Established
<1>2. CASE Failed \/ Answered502
  BY <1>2 DEF Failed, Answered502, ReportFailure
<1>3. CASE ~Established /\ ~Failed /\ ~Answered502
  BY <1>3 DEF PoolNext, Handler, Probe, pool_vars, passive, Request, Answer, ConnectEnds, Garbled,
              Close, Scan, NobodyUp, ReportLoad, Dial, ProbeLoad, ProbeResult, Change
<1> QED
  BY <1>1, <1>2, <1>3

(***************************************************************************)
(* Each pick settles what the one picked was owed; when everybody had his  *)
(* weight, nothing is owed to anybody.                                     *)
(***************************************************************************)
LEMMA WeightSteps ==
  ASSUME PoolShape, PoolShape', Calm, Weighted, [PoolNext]_pool_vars
  PROVE  Weighted'
<1> USE ServersAre
<1> SUFFICES ASSUME balance = "weighted", got'.calm PROVE Owed'
  BY BalanceStays DEF Weighted
<1>1. CASE ~Pick
  <2>1. got.calm /\ got'.n = got.n /\ got'.of = got.of
    BY <1>1, OnlyPicks
  <2>2. current' = current
    BY <1>1, <2>1, CurrentStays
  <2>3. Owed
    BY <2>1 DEF Weighted
  <2>4. Sum(got.n)' = Sum(got.n) /\ Total(Servers)' = Total(Servers)
    BY <2>1 DEF Sum, Total
  <2> QED
    BY <2>1, <2>2, <2>3, <2>4 DEF Owed
<1>2. CASE Pick
  <2>1. PICK S \in SUBSET Servers : \E b \in S :
          /\ S = loop.seen /\ b = Best(S) /\ loop.pc = "scan" /\ loop.k = N
          /\ Advance(b) /\ Reweigh(S, b) /\ got' = Counted(S, b)
    BY <1>2, PickIs
  <2>2. PICK b \in S :
          /\ S = loop.seen /\ b = Best(S) /\ loop.pc = "scan" /\ loop.k = N
          /\ Reweigh(S, b) /\ got' = Counted(S, b)
    BY <2>1
  <2>3. b \in Servers /\ got.calm
    BY <2>2, CountedIs
  <2>4. S = Servers
    BY <2>2, <2>3 DEF Calm, Servers
  <2>5. Owed
    BY <2>3 DEF Weighted
  <2>6. \A j \in Servers : Raised(Servers)[b] >= Raised(Servers)[j]
    BY <2>2, <2>4, BestIs DEF PoolShape
  <2>7. got.n[b] < Weight[b]
    BY <2>3, <2>5, <2>6, MostOwed
  <2> DEFINE n == got.n
             t == Sum(n)
             T == Total(Servers)
             m == After(S, b)
  <2>8. n \in [Servers -> Nat] /\ n \in [Servers -> Int] /\ t \in Int
    <3>1. n \in [Servers -> Nat] /\ n \in [Servers -> Int]
      BY DEF PoolShape
    <3> HIDE DEF n
    <3> QED
      BY <3>1, SumType
  <2>9. T \in Int /\ T > 0 /\ Weight \in [Servers -> Int] /\ \A i \in Servers : Weight[i] \in Nat
    BY TotalOfAll
  <2>10. m = [n EXCEPT ![b] = @ + 1]
    <3>1. Before(S) = n /\ Share(b) = Weight[b]
      BY <2>4, <2>5 DEF Before, Owed, Share
    <3>2. ~(n[b] > Weight[b])
      BY <2>3, <2>7, <2>8, <2>9
    <3> QED
      BY <3>1, <3>2 DEF After
  <2>11. m \in [Servers -> Int] /\ Sum(m) = t + 1
    <3>1. m \in [Servers -> Int]
      BY <2>8, <2>10
    <3> HIDE DEF m, n
    <3> QED
      BY <2>3, <2>8, <2>10, <3>1, SumAddsOne DEF t
  <2>12. \A i \in Servers : m[i] \in Int /\ m[i] <= Weight[i]
    <3>1. \A i \in Servers : n[i] \in Int /\ n[i] <= Weight[i]
      BY <2>5, <2>8 DEF Owed
    <3> QED
      BY <2>3, <2>7, <2>8, <2>9, <2>10, <3>1
  <2>13. \A i \in Servers : current'[i] = (t + 1) * Weight[i] - m[i] * T
    <3> TAKE i \in Servers
    <3>1. current' = [Raised(Servers) EXCEPT ![b] = @ - T]
      BY <2>2, <2>4 DEF Reweigh
    <3>2. current'[i] = IF i = b THEN current[i] + Weight[i] - T ELSE current[i] + Weight[i]
      <4> DEFINE r == Raised(Servers)
      <4>1. DOMAIN r = Servers /\ r[i] = current[i] + Weight[i]
        BY DEF Raised
      <4>2. current' = [r EXCEPT ![b] = @ - T]
        BY <3>1
      <4> HIDE DEF r, T, m, n, t
      <4>3. current'[i] = IF i = b THEN r[b] - T ELSE r[i]
        BY <4>1, <4>2
      <4>4. current[i] \in Int /\ Weight[i] \in Int
        BY <2>9 DEF PoolShape
      <4>5. CASE i = b
        <5>1. r[b] = current[i] + Weight[i]
          BY <4>1, <4>5
        <5>2. current'[i] = r[b] - T
          BY <4>3, <4>5
        <5>3. current'[i] = current[i] + Weight[i] - T
          BY <2>9, <4>4, <5>1, <5>2
        <5> QED
          BY <4>5, <5>3
      <4>6. CASE i # b
        BY <4>1, <4>3, <4>6
      <4> QED
        BY <4>5, <4>6
    <3>3. current[i] = t * Weight[i] - n[i] * T
      BY <2>5 DEF Owed
    <3>4. m[i] = IF i = b THEN n[i] + 1 ELSE n[i]
      BY <2>8, <2>10
    <3>5. n[i] \in Int /\ Weight[i] \in Int
      BY <2>8, <2>9
    <3> HIDE DEF n, t, T, m
    <3>6. (t + 1) * Weight[i] = t * Weight[i] + Weight[i] /\ (n[i] + 1) * T = n[i] * T + T
      BY <2>8, <2>9, <3>5
    <3>7. t * Weight[i] \in Int /\ n[i] * T \in Int
      BY <2>8, <2>9, <3>5
    <3>8. CASE i = b
      BY <2>8, <2>9, <3>2, <3>3, <3>4, <3>5, <3>6, <3>7, <3>8
    <3>9. CASE i # b
      BY <2>8, <2>9, <3>2, <3>3, <3>4, <3>5, <3>6, <3>7, <3>9
    <3> QED
      BY <3>8, <3>9
  <2>14. got'.of = Servers /\ got'.n = IF Over(S, b) THEN [i \in Servers |-> 0] ELSE m
    BY <2>2, <2>3, <2>4, CountedIs
  <2>15. Over(S, b) <=> \A i \in Servers : m[i] >= Weight[i]
    BY <2>4 DEF Over, Share
  <2> SUFFICES /\ got'.of = Servers /\ Sum(got'.n) < T
               /\ \A i \in Servers : /\ got'.n[i] <= Weight[i]
                                     /\ current'[i] = Sum(got'.n) * Weight[i] - got'.n[i] * T
    BY DEF Owed, Sum, Total
  <2> HIDE DEF n, t, T, m
  <2>16. CASE Over(S, b)
    <3>1. \A i \in Servers : m[i] = Weight[i]
      BY <2>9, <2>12, <2>15, <2>16
    <3>2. m = Weight
      BY <2>9, <2>11, <3>1
    <3>3. t + 1 = T
      BY <2>11, <3>2, TotalOfAll DEF T
    <3>4. \A i \in Servers : current'[i] = 0
      BY <2>9, <2>13, <3>1, <3>3
    <3>5. Sum(got'.n) = 0 /\ \A i \in Servers : got'.n[i] = 0
      BY <2>14, <2>16, SumOfNothing
    <3>6. \A i \in Servers : 0 * Weight[i] - 0 * T = 0 /\ 0 <= Weight[i]
      BY <2>9
    <3> QED
      BY <2>9, <2>14, <3>4, <3>5, <3>6
  <2>17. CASE ~Over(S, b)
    <3>1. PICK i \in Servers : m[i] < Weight[i]
      BY <2>9, <2>12, <2>15, <2>17
    <3>2. Sum(m) < Sum(Weight)
      BY <2>9, <2>11, <2>12, <3>1, SumLess
    <3>3. t + 1 < T
      BY <2>11, <3>2, TotalOfAll DEF T
    <3> QED
      BY <2>11, <2>12, <2>13, <2>14, <2>17, <3>3
  <2> QED
    BY <2>16, <2>17
<1> QED
  BY <1>1, <1>2

----------------------------------------------------------------------------
(* The invariant.                                                          *)

LEMMA PoolStart == pool_create => PoolInv
<1> SUFFICES ASSUME pool_create PROVE PoolInv
  OBVIOUS
<1> USE ServersAre DEF pool_create
<1>1. PoolShape /\ Found
  BY ShapeStart
<1>2. ActiveFits
  BY OnFinite DEF ActiveFits
<1>3. Calm
  BY DEF Calm, NoHandler
<1>4. InTurn
  <2>1. 0 \in Servers /\ Dist(0, 0) = 0 /\ \A i \in Servers : ~(Dist(i, 0) < 0)
    BY DEF Dist
  <2>2. Passed(0)
    BY <2>1 DEF Passed
  <2> QED
    BY <2>1, <2>2 DEF InTurn
<1>5. Weighted
  <2>1. \A i \in Servers : 0 <= Weight[i] /\ 0 * Weight[i] - 0 * Total(Servers) = 0
    BY TotalOfAll
  <2>2. got.n = [i \in Servers |-> 0] /\ got.of = Servers
    OBVIOUS
  <2> QED
    BY <2>1, <2>2, SumOfNothing, TotalOfAll DEF Weighted, Owed
<1> QED
  BY <1>1, <1>2, <1>3, <1>4, <1>5 DEF PoolInv

LEMMA PoolStep == PoolInv /\ [PoolNext]_pool_vars => PoolInv'
<1> SUFFICES ASSUME PoolInv, [PoolNext]_pool_vars PROVE PoolInv'
  OBVIOUS
<1>1. PoolShape' /\ Found'
  BY ShapeSteps DEF PoolInv
<1>2. ActiveFits'
  BY <1>1, ActiveSteps DEF PoolInv
<1>3. Calm'
  BY <1>1, CalmSteps DEF PoolInv
<1>4. InTurn'
  BY <1>1, TurnSteps DEF PoolInv
<1>5. Weighted'
  BY <1>1, WeightSteps DEF PoolInv
<1> QED
  BY <1>1, <1>2, <1>3, <1>4, <1>5 DEF PoolInv

LEMMA PoolAlways == PoolSpec => []PoolInv
BY PoolStart, PoolStep, PTL DEF PoolSpec

\* Each count goes back to zero before it passes its limit, and no backend
\* counts more connections than there are (pool_report, backend_probe_result,
\* backend_conn_closed).
THEOREM PoolCounts == PoolSpec => []PoolTypeOK
<1>1. PoolInv => PoolTypeOK
  <2> SUFFICES ASSUME PoolInv PROVE PoolTypeOK
    OBVIOUS
  <2>1. active \in [Servers -> 0..Cardinality(Conns)]
    <3>1. \A b \in Servers : active[b] \in 0..Cardinality(Conns)
      <4> TAKE b \in Servers
      <4>1. active[b] \in Nat /\ active[b] <= Cardinality(On(b))
        BY DEF PoolInv, PoolShape, ActiveFits
      <4>2. Cardinality(Conns) \in Nat
        BY BackendPoolAssumption, FS_CardinalityType
      <4> QED
        BY <4>1, <4>2, OnFinite
    <3> QED
      BY <3>1 DEF PoolInv, PoolShape
  <2>2. \A x \in Conns : conn[x] \in Status
    BY DEF PoolInv, PoolShape
  <2>3. probe.pc \in {"dial", "load", "store"} /\ probe.i \in Servers
    BY DEF PoolInv, PoolShape
  <2> QED
    BY <2>1, <2>2, <2>3 DEF PoolTypeOK, PoolInv, PoolShape, Status
<1> QED
  BY <1>1, PoolAlways, PTL

\* As long as the same backends are up, each round of picks gives nobody more
\* than his share (pick_round_robin, pick_weighted).
THEOREM SharesEven == PoolSpec => []EvenShare
<1>1. PoolInv => EvenShare
  <2> SUFFICES ASSUME PoolInv, balance = "round_robin" \/ (balance = "weighted" /\ got.calm),
                      NEW i \in got.of
               PROVE  got.n[i] <= Share(i)
    BY DEF EvenShare
  <2>1. CASE balance = "round_robin"
    BY <2>1 DEF PoolInv, InTurn, Passed, Share
  <2>2. CASE balance = "weighted" /\ got.calm
    BY <2>2 DEF PoolInv, Weighted, Owed, Share
  <2> QED
    BY <2>1, <2>2
<1> QED
  BY <1>1, PoolAlways, PTL

----------------------------------------------------------------------------
(***************************************************************************)
(* The dynamic weights through failures.  Nothing bounds one of them by    *)
(* itself: a pick raises all of S and lowers one.  But whoever is raised   *)
(* was no higher than the one picked, so what some have together is        *)
(* bounded by what they have without those who were raised and by what     *)
(* they have together with the one picked, and so for every number of      *)
(* them, with a bound that is concave in the number (Cap).  A backend that  *)
(* comes back with zero leaves to the others no more than they had.        *)
(***************************************************************************)

\* What those in A have together.
Part(f, A) == Sum([i \in Servers |-> IF i \in A THEN f[i] ELSE 0])

\* Twice what k of them may have together, or owe.
Cap(k) == k * (2 * N - 1 - k) * Total(Servers)

Within(c) ==
  \A A \in SUBSET Servers :
    /\ 2 * Part(c, A) <= Cap(Cardinality(A))
    /\ 0 <= 2 * Part(c, A) + Cap(Cardinality(A))

Spread == Within(current)

\* What is added up in parts.
LEMMA SumAdds ==
  ASSUME NEW f \in [Servers -> Int], NEW g \in [Servers -> Int], NEW h \in [Servers -> Int],
         \A i \in Servers : h[i] = f[i] + g[i]
  PROVE  Sum(h) = Sum(f) + Sum(g)
<1> USE ServersAre
<1>1. PICK p : Partial(p, f) /\ Sum(f) = p[N]
  BY SumIs
<1>2. PICK q : Partial(q, g) /\ Sum(g) = q[N]
  BY SumIs
<1>3. PICK s : Partial(s, h) /\ Sum(h) = s[N]
  BY SumIs
<1> DEFINE G == {k \in 0..N : s[k] = p[k] + q[k]}
<1>4. 0 \in G
  BY <1>1, <1>2, <1>3 DEF Partial
<1>5. ASSUME NEW k \in 1..N, k - 1 \in G PROVE k \in G
  <2>1. k - 1 \in Servers /\ k - 1 \in 0..N
    OBVIOUS
  <2>2. /\ p[k] = p[k - 1] + f[k - 1] /\ q[k] = q[k - 1] + g[k - 1]
        /\ s[k] = s[k - 1] + h[k - 1] /\ h[k - 1] = f[k - 1] + g[k - 1]
    BY <1>1, <1>2, <1>3, <2>1 DEF Partial
  <2>3. p[k - 1] \in Int /\ q[k - 1] \in Int /\ f[k - 1] \in Int /\ g[k - 1] \in Int
    BY <1>1, <1>2, <2>1 DEF Partial
  <2>4. s[k - 1] = p[k - 1] + q[k - 1]
    BY <1>5
  <2>5. s[k] = p[k] + q[k]
    BY <2>2, <2>3, <2>4
  <2> QED
    BY <2>5
<1>6. \A k \in 0..N : k \in G
  <2>1. \A k \in 1..N : k - 1 \in G => k \in G
    BY <1>5
  <2> HIDE DEF G
  <2> QED
    BY <1>4, <2>1, EachTurn
<1> QED
  BY <1>1, <1>2, <1>3, <1>6

LEMMA PartType ==
  ASSUME NEW f \in [Servers -> Int], NEW A
  PROVE  Part(f, A) \in Int
<1> DEFINE g == [i \in Servers |-> IF i \in A THEN f[i] ELSE 0]
<1>1. g \in [Servers -> Int]
  OBVIOUS
<1> HIDE DEF g
<1>2. Sum(g) \in Int
  BY <1>1, SumType
<1> QED
  BY <1>2 DEF Part, g

\* Parts that agree where it matters.
LEMMA PartAlike ==
  ASSUME NEW f, NEW g, NEW A, NEW B,
         \A i \in Servers : /\ i \in A <=> i \in B
                            /\ i \in A => f[i] = g[i]
  PROVE  Part(f, A) = Part(g, B)
<1>1. [i \in Servers |-> IF i \in A THEN f[i] ELSE 0] = [i \in Servers |-> IF i \in B THEN g[i] ELSE 0]
  OBVIOUS
<1> QED
  BY <1>1 DEF Part

LEMMA PartNone ==
  ASSUME NEW f
  PROVE  Part(f, {}) = 0
<1>1. [i \in Servers |-> IF i \in {} THEN f[i] ELSE 0] = [i \in Servers |-> 0]
  OBVIOUS
<1> QED
  BY <1>1, SumOfNothing DEF Part

\* Of two parts that share nobody, and of one backend.
LEMMA PartJoin ==
  ASSUME NEW f \in [Servers -> Int], NEW A, NEW B, A \cap B = {}
  PROVE  Part(f, A \cup B) = Part(f, A) + Part(f, B)
<1> DEFINE g == [i \in Servers |-> IF i \in A THEN f[i] ELSE 0]
           h == [i \in Servers |-> IF i \in B THEN f[i] ELSE 0]
           u == [i \in Servers |-> IF i \in A \cup B THEN f[i] ELSE 0]
<1>1. g \in [Servers -> Int] /\ h \in [Servers -> Int] /\ u \in [Servers -> Int]
  OBVIOUS
<1>2. \A i \in Servers : u[i] = g[i] + h[i]
  OBVIOUS
<1> HIDE DEF g, h, u
<1>3. Sum(u) = Sum(g) + Sum(h)
  BY <1>1, <1>2, SumAdds
<1> QED
  BY <1>3 DEF Part, g, h, u

LEMMA PartOne ==
  ASSUME NEW f \in [Servers -> Int], NEW b \in Servers
  PROVE  Part(f, {b}) = f[b]
<1> USE ServersAre
<1> DEFINE g == [i \in Servers |-> IF i \in {b} THEN f[i] ELSE 0]
<1>0. g \in [Servers -> Int] /\ \A i \in Servers : g[i] = IF i = b THEN f[b] ELSE 0
  OBVIOUS
<1> HIDE DEF g
<1>1. PICK p : Partial(p, g) /\ Sum(g) = p[N]
  BY <1>0, SumIs
<1> DEFINE G == {k \in 0..N : p[k] = IF k > b THEN f[b] ELSE 0}
<1>2. 0 \in G
  BY <1>1 DEF Partial
<1>3. ASSUME NEW k \in 1..N, k - 1 \in G PROVE k \in G
  <2>1. k - 1 \in Servers /\ k - 1 \in 0..N /\ f[b] \in Int
    OBVIOUS
  <2>2. p[k] = p[k - 1] + g[k - 1]
    BY <1>1 DEF Partial
  <2>3. p[k - 1] = IF k - 1 > b THEN f[b] ELSE 0
    BY <1>3
  <2>4. g[k - 1] = IF k - 1 = b THEN f[b] ELSE 0
    BY <1>0, <2>1
  <2>5. p[k] = IF k > b THEN f[b] ELSE 0
    BY <2>1, <2>2, <2>3, <2>4
  <2> QED
    BY <2>5
<1>4. \A k \in 0..N : k \in G
  <2>1. \A k \in 1..N : k - 1 \in G => k \in G
    BY <1>3
  <2> HIDE DEF G
  <2> QED
    BY <1>2, <2>1, EachTurn
<1>5. p[N] = f[b]
  BY <1>4
<1> QED
  BY <1>1, <1>5 DEF Part, g

LEMMA PartWith ==
  ASSUME NEW f \in [Servers -> Int], NEW A, NEW b \in Servers
  PROVE  /\ b \notin A => Part(f, A \cup {b}) = Part(f, A) + f[b]
         /\ b \in A => Part(f, A) = Part(f, A \ {b}) + f[b]
<1>1. ASSUME NEW B, b \notin B PROVE Part(f, B \cup {b}) = Part(f, B) + f[b]
  <2>1. B \cap {b} = {}
    BY <1>1
  <2>2. Part(f, B \cup {b}) = Part(f, B) + Part(f, {b})
    BY <2>1, PartJoin
  <2>3. Part(f, {b}) = f[b]
    BY PartOne
  <2> QED
    BY <2>2, <2>3
<1>2. ASSUME b \in A PROVE (A \ {b}) \cup {b} = A
  BY <1>2
<1>3. ASSUME b \in A PROVE Part(f, A) = Part(f, A \ {b}) + f[b]
  <2>1. b \notin A \ {b}
    OBVIOUS
  <2> QED
    BY <1>1, <1>2, <1>3, <2>1
<1> QED
  BY <1>1, <1>3

LEMMA ServersFinite ==
  /\ IsFiniteSet(Servers) /\ Cardinality(Servers) = N
  /\ \A A \in SUBSET Servers : IsFiniteSet(A) /\ Cardinality(A) \in 0..N
<1>1. IsFiniteSet(Servers) /\ Cardinality(Servers) = N
  <2>1. N - 1 \in Int /\ 0 \in Int
    BY ServersAre
  <2> QED
    BY <2>1, ServersAre, FS_Interval DEF Servers
<1>2. ASSUME NEW A \in SUBSET Servers PROVE IsFiniteSet(A) /\ Cardinality(A) \in 0..N
  <2>1. IsFiniteSet(A) /\ Cardinality(A) <= Cardinality(Servers)
    BY <1>1, FS_Subset
  <2>2. Cardinality(A) \in Nat
    BY <2>1, FS_CardinalityType
  <2> QED
    BY <1>1, <2>1, <2>2, ServersAre
<1> QED
  BY <1>1, <1>2

\* As many times what none of them passes.
LEMMA PartAtMost ==
  ASSUME NEW f \in [Servers -> Int], NEW A \in SUBSET Servers, NEW v \in Int,
         \A i \in A : f[i] <= v
  PROVE  Part(f, A) <= Cardinality(A) * v
<1> USE ServersAre
<1> DEFINE Up(k) == {i \in A : i < k}
           G == {k \in 0..N : Part(f, Up(k)) <= Cardinality(Up(k)) * v}
<1>1. 0 \in G
  <2>1. Up(0) = {}
    OBVIOUS
  <2>2. Cardinality(Up(0)) = 0
    BY <2>1, FS_EmptySet
  <2>3. Part(f, Up(0)) = 0
    BY <2>1, PartNone
  <2> HIDE DEF Up
  <2> QED
    BY <2>2, <2>3
<1>2. ASSUME NEW k \in 1..N, k - 1 \in G PROVE k \in G
  <2> DEFINE B == Up(k - 1)
             C == Up(k)
  <2>1. k - 1 \in Servers /\ B \in SUBSET Servers /\ k - 1 \notin B
    OBVIOUS
  <2>2. C = IF k - 1 \in A THEN B \cup {k - 1} ELSE B
    OBVIOUS
  <2>3. k - 1 \in A => f[k - 1] <= v
    OBVIOUS
  <2>4. Part(f, B) <= Cardinality(B) * v
    BY <1>2
  <2> SUFFICES Part(f, C) <= Cardinality(C) * v
    OBVIOUS
  <2> HIDE DEF B, C, Up
  <2>5. IsFiniteSet(B) /\ Cardinality(B) \in Nat /\ Part(f, B) \in Int
    BY <2>1, ServersFinite, PartType
  <2>6. CASE k - 1 \notin A
    BY <2>2, <2>4, <2>6
  <2>7. CASE k - 1 \in A
    <3>1. Cardinality(C) = Cardinality(B) + 1
      BY <2>1, <2>2, <2>5, <2>7, FS_AddElement
    <3>2. Part(f, C) = Part(f, B) + f[k - 1]
      BY <2>1, <2>2, <2>7, PartWith
    <3> DEFINE n == Cardinality(B)
    <3>3. n \in Int /\ f[k - 1] \in Int
      BY <2>1, <2>5
    <3> HIDE DEF n
    <3>4. (n + 1) * v = n * v + v /\ n * v \in Int
      BY <3>3
    <3> QED
      BY <2>3, <2>4, <2>5, <2>7, <3>1, <3>2, <3>3, <3>4 DEF n
  <2> QED
    BY <2>6, <2>7
<1>3. \A k \in 0..N : k \in G
  <2>1. \A k \in 1..N : k - 1 \in G => k \in G
    BY <1>2
  <2> HIDE DEF G
  <2> QED
    BY <1>1, <2>1, EachTurn
<1>4. Up(N) = A
  OBVIOUS
<1> HIDE DEF Up
<1> QED
  BY <1>3, <1>4

\* The weights of more backends are more.
LEMMA PartWeight ==
  ASSUME NEW A, NEW B, A \subseteq B
  PROVE  /\ Part(Weight, A) \in Int /\ Part(Weight, B) \in Int
         /\ 0 <= Part(Weight, A) /\ Part(Weight, A) <= Part(Weight, B)
         /\ Total(A) = Part(Weight, A)
<1>1. Weight \in [Servers -> Int] /\ \A i \in Servers : Weight[i] \in Nat
  BY TotalOfAll
<1>2. ASSUME NEW C PROVE 0 <= Part(Weight, C) /\ Part(Weight, C) \in Int
  <2> DEFINE g == [i \in Servers |-> IF i \in C THEN Weight[i] ELSE 0]
  <2>1. g \in [Servers -> Int] /\ \A i \in Servers : 0 * g[i] <= 1 * g[i]
    BY <1>1
  <2> HIDE DEF g
  <2>2. 0 * Sum(g) <= 1 * Sum(g) /\ Sum(g) \in Int
    BY <2>1, SumScales, SumType
  <2>3. 0 <= Sum(g)
    BY <2>2
  <2> QED
    BY <2>2, <2>3 DEF Part, g
<1>3. A \cap (B \ A) = {} /\ A \cup (B \ A) = B
  OBVIOUS
<1>4. Part(Weight, B) = Part(Weight, A) + Part(Weight, B \ A)
  BY <1>1, <1>3, PartJoin
<1>5. 0 <= Part(Weight, B \ A) /\ Part(Weight, B \ A) \in Int
  BY <1>2
<1> QED
  BY <1>2, <1>4, <1>5 DEF Part, Total

\* What a few together may have is a concave function of how many they are.
LEMMA CapFacts ==
  /\ Cap(0) = 0
  /\ \A k \in 0..N : Cap(k) \in Int
  /\ \A k \in 1..N : Cap(k - 1) <= Cap(k)
  /\ Cap(1) = 2 * ((N - 1) * Total(Servers))
<1> DEFINE T == Total(Servers)
           q(k) == k * (2 * N - 1 - k)
<1>1. N \in Nat \ {0} /\ T \in Nat
  BY ServersAre, TotalOfAll
<1>2. \A k \in 0..N : q(k) \in Int
  BY <1>1
<1>3. ASSUME NEW k \in 1..N PROVE q(k - 1) <= q(k)
  <2>1. q(k) = q(k - 1) + 2 * (N - k)
    BY <1>1
  <2> HIDE DEF q
  <2>2. q(k - 1) \in Int
    BY <1>1, <1>2
  <2> QED
    BY <1>1, <2>1, <2>2
<1>4. q(0) = 0 /\ q(1) = 2 * (N - 1)
  BY <1>1
<1>5. \A k : Cap(k) = q(k) * T
  BY DEF Cap
<1> HIDE DEF q, T
<1>6. ASSUME NEW k \in 1..N PROVE Cap(k - 1) <= Cap(k)
  <2>1. q(k - 1) \in Int /\ q(k) \in Int
    BY <1>1, <1>2
  <2> DEFINE a == q(k - 1)
             b == q(k)
  <2>2. a <= b
    BY <1>3
  <2> HIDE DEF a, b
  <2>3. a * T <= b * T
    BY <1>1, <2>1, <2>2, TimesGrows DEF a, b
  <2> QED
    BY <1>5, <2>3 DEF a, b
<1>7. \A k \in 0..N : Cap(k) \in Int
  BY <1>1, <1>2, <1>5
<1>8. Cap(0) = 0
  BY <1>1, <1>4, <1>5
<1>9. Cap(1) = 2 * ((N - 1) * T)
  BY <1>1, <1>4, <1>5
<1> QED
  BY <1>6, <1>7, <1>8, <1>9 DEF T

\* One more m times over and m less once, or the other way round, with what a
\* pick gives away, is no more than what as many have m + 1 times.
LEMMA CapConcave ==
  ASSUME NEW k \in Int, NEW m \in Nat \ {0}
  PROVE  /\ Cap(k - m) + m * (Cap(k + 1) + 2 * Total(Servers)) <= (m + 1) * Cap(k)
         /\ Cap(k + m) + m * (Cap(k - 1) + 2 * Total(Servers)) <= (m + 1) * Cap(k)
<1> DEFINE T == Total(Servers)
           q(j) == j * (2 * N - 1 - j)
<1>1. N \in Int /\ T \in Nat
  BY ServersAre, TotalOfAll
<1>2. \A j : Cap(j) = q(j) * T
  BY DEF Cap
<1>3. \A j \in Int : q(j) \in Int
  BY <1>1
<1>4. q(k + 1) = q(k) + (2 * N - 2 - 2 * k)
  BY <1>1
<1>5. q(k - 1) = q(k) - (2 * N - 2 * k)
  BY <1>1
<1>6. q(k - m) = q(k) - m * (2 * N - 1 - 2 * k) - m * m
  BY <1>1
<1>7. q(k + m) = q(k) + m * (2 * N - 1 - 2 * k) - m * m
  BY <1>1
<1> DEFINE a == q(k)
           z == 2 * N - 1 - 2 * k
<1>8. /\ a \in Int /\ z \in Int
      /\ q(k + 1) = a + z - 1 /\ q(k - 1) = a - z - 1
      /\ q(k - m) = a - m * z - m * m /\ q(k + m) = a + m * z - m * m
  BY <1>1, <1>3, <1>4, <1>5, <1>6, <1>7
<1> HIDE DEF q, a, z, T
<1>9. Cap(k) = a * T
  BY <1>2 DEF a
<1>10. 0 <= (m * m - m) * T
  <2>1. m * m - m = m * (m - 1) /\ m - 1 \in Nat
    OBVIOUS
  <2>2. m * (m - 1) \in Nat
    BY <2>1
  <2> QED
    BY <1>1, <2>1, <2>2
<1>11. Cap(k - m) + m * (Cap(k + 1) + 2 * T) = (m + 1) * Cap(k) - (m * m - m) * T
  <2>1. Cap(k - m) = (a - m * z - m * m) * T /\ Cap(k + 1) = (a + z - 1) * T
    BY <1>2, <1>8
  <2>2. (a - m * z - m * m) * T + m * ((a + z - 1) * T + 2 * T) = (m + 1) * (a * T) - (m * m - m) * T
    BY <1>1, <1>8
  <2> QED
    BY <1>9, <2>1, <2>2
<1>12. Cap(k + m) + m * (Cap(k - 1) + 2 * T) = (m + 1) * Cap(k) - (m * m - m) * T
  <2>1. Cap(k + m) = (a + m * z - m * m) * T /\ Cap(k - 1) = (a - z - 1) * T
    BY <1>2, <1>8
  <2>2. (a + m * z - m * m) * T + m * ((a - z - 1) * T + 2 * T) = (m + 1) * (a * T) - (m * m - m) * T
    BY <1>1, <1>8
  <2> QED
    BY <1>9, <2>1, <2>2
<1> DEFINE x == (m + 1) * Cap(k)
           y == (m * m - m) * T
<1>13. x \in Int /\ y \in Int
  BY <1>1, <1>8, <1>9
<1> HIDE DEF x, y
<1>14. x - y <= x
  BY <1>10, <1>13 DEF y
<1> QED
  BY <1>11, <1>12, <1>14 DEF T, x, y

\* m + 1 times what two bounds and m times what a third allow.
LEMMA Averaged ==
  ASSUME NEW x \in Int, NEW y \in Int, NEW z \in Int, NEW m \in Nat \ {0},
         NEW cy \in Int, NEW cz \in Int, NEW c \in Int,
         2 * y <= cy, 2 * z <= cz, x <= y + m * (z - x), cy + m * cz <= (m + 1) * c
  PROVE  2 * x <= c
<1>1. m * (2 * z) <= m * cz
  <2> DEFINE u == 2 * z
  <2>1. u \in Int /\ u <= cz
    OBVIOUS
  <2> HIDE DEF u
  <2>2. m * u <= m * cz
    BY <2>1, TimesGrows
  <2> QED
    BY <2>2 DEF u
<1>2. m * (z - x) = m * z - m * x /\ m * (2 * z) = 2 * (m * z) /\ m * z \in Int /\ m * x \in Int
      /\ m * cz \in Int
  OBVIOUS
<1>3. (m + 1) * (2 * x) = 2 * (m * x) + 2 * x
  OBVIOUS
<1>4. (m + 1) * (2 * x) <= cy + m * cz
  BY <1>1, <1>2, <1>3
<1>5. (m + 1) * (2 * x) <= (m + 1) * c
  <2> DEFINE u == (m + 1) * (2 * x)
             v == (m + 1) * c
  <2>1. u \in Int /\ v \in Int
    OBVIOUS
  <2> HIDE DEF u, v
  <2>2. u <= v
    BY <1>2, <1>4, <2>1 DEF u, v
  <2> QED
    BY <2>2 DEF u, v
<1> SUFFICES ASSUME 2 * x >= c + 1 PROVE FALSE
  OBVIOUS
<1> DEFINE n == m + 1
           u == 2 * x
           d == c + 1
<1>6. n \in Nat /\ n > 0 /\ u \in Int /\ d \in Int /\ d <= u
  OBVIOUS
<1> HIDE DEF n, u, d
<1>7. n * d <= n * u
  BY <1>6, TimesGrows
<1>8. n * d = n * c + n /\ n * c \in Int /\ n * u \in Int
  BY <1>6 DEF d
<1>9. n * u <= n * c
  BY <1>5 DEF n, u
<1> QED
  BY <1>6, <1>7, <1>8, <1>9

(***************************************************************************)
(* A pick among S takes from b, who has most, what it gives to S: so those *)
(* who gained, and b with them, or those who lost, without him, were        *)
(* further from their own bound than the pick takes them.                  *)
(***************************************************************************)
LEMMA PickWithin ==
  ASSUME NEW c \in [Servers -> Int], NEW S \in SUBSET Servers, NEW b \in S,
         NEW r \in [Servers -> Int], NEW d \in [Servers -> Int],
         \A i \in Servers : r[i] = IF i \in S THEN c[i] + Weight[i] ELSE c[i],
         \A j \in S : r[j] <= r[b],
         \A i \in Servers : d[i] = IF i = b THEN r[i] - Total(S) ELSE r[i],
         Within(c)
  PROVE  Within(d)
<1> DEFINE T == Total(Servers)
           W == Total(S)
<1>1. T \in Int /\ W \in Int /\ W <= T /\ W = Part(Weight, S)
  <2>1. Total(Servers) = Part(Weight, Servers) /\ Total(S) = Part(Weight, S)
    BY PartWeight
  <2> QED
    BY <2>1, PartWeight
<1>2. ASSUME NEW A
      PROVE  Part(r, A) = Part(c, A) + Part(Weight, A \cap S)
  <2> DEFINE f == [i \in Servers |-> IF i \in A THEN c[i] ELSE 0]
             g == [i \in Servers |-> IF i \in A \cap S THEN Weight[i] ELSE 0]
             h == [i \in Servers |-> IF i \in A THEN r[i] ELSE 0]
  <2>1. \A i \in Servers : Weight[i] \in Int
    BY TotalOfAll
  <2>2. f \in [Servers -> Int] /\ g \in [Servers -> Int] /\ h \in [Servers -> Int]
    BY <2>1
  <2>3. \A i \in Servers : h[i] = f[i] + g[i]
    BY <2>1
  <2> HIDE DEF f, g, h
  <2>4. Sum(h) = Sum(f) + Sum(g)
    BY <2>2, <2>3, SumAdds
  <2> QED
    BY <2>4 DEF Part, f, g, h
<1>3. ASSUME NEW A
      PROVE  /\ b \notin A => Part(d, A) = Part(r, A)
             /\ b \in A => Part(d, A) = Part(r, A) - W
  <2>1. ASSUME NEW B, b \notin B PROVE Part(d, B) = Part(r, B)
    BY <2>1, PartAlike
  <2>2. b \in Servers /\ b \notin A \ {b}
    OBVIOUS
  <2>3. Part(d, A \ {b}) = Part(r, A \ {b})
    BY <2>1, <2>2
  <2>4. ASSUME b \in A
        PROVE  Part(d, A) = Part(d, A \ {b}) + d[b] /\ Part(r, A) = Part(r, A \ {b}) + r[b]
    BY <2>2, <2>4, PartWith
  <2>5. Part(r, A \ {b}) \in Int /\ r[b] \in Int /\ d[b] = r[b] - W
    BY <2>2, PartType
  <2>6. ASSUME b \in A PROVE Part(d, A) = Part(r, A) - W
    <3> HIDE DEF W
    <3> QED
      BY <1>1, <2>3, <2>4, <2>5, <2>6
  <2> QED
    BY <2>1, <2>6
<1> SUFFICES ASSUME NEW A \in SUBSET Servers
             PROVE  /\ 2 * Part(d, A) <= Cap(Cardinality(A))
                    /\ 0 <= 2 * Part(d, A) + Cap(Cardinality(A))
  BY DEF Within
<1> DEFINE k == Cardinality(A)
           x == Part(d, A)
<1>4. IsFiniteSet(A) /\ k \in 0..N /\ Cap(k) \in Int /\ x \in Int /\ b \in Servers /\ r[b] \in Int
  BY ServersFinite, CapFacts, PartType
<1>5. ASSUME NEW B \in SUBSET Servers
      PROVE  /\ 2 * Part(c, B) <= Cap(Cardinality(B)) /\ 0 <= 2 * Part(c, B) + Cap(Cardinality(B))
             /\ Part(c, B) \in Int /\ Cap(Cardinality(B)) \in Int
  BY ServersFinite, CapFacts, PartType DEF Within
<1>6. ASSUME NEW B
      PROVE  /\ Part(Weight, B \cap S) \in Int
             /\ 0 <= Part(Weight, B \cap S) /\ Part(Weight, B \cap S) <= W
  BY <1>1, PartWeight
<1> HIDE DEF T, W, k, x
<1>7. CASE b \notin A /\ A \cap S = {}
  <2>1. x = Part(c, A) + Part(Weight, {})
    BY <1>2, <1>3, <1>7 DEF x
  <2>2. x = Part(c, A)
    BY <1>5, <2>1, PartNone
  <2> QED
    BY <1>5, <2>2 DEF x
<1>8. CASE b \notin A /\ A \cap S # {}
  <2> DEFINE B == A \cap S
             m == Cardinality(B)
             C == A \ B
             y == Part(c, C)
             z == Part(r, A \cup {b})
  <2>1. x = Part(r, A) /\ x = Part(c, A) + Part(Weight, B)
    BY <1>2, <1>3, <1>8 DEF x
  <2>2. B \in SUBSET Servers /\ C \in SUBSET Servers /\ A \cup {b} \in SUBSET Servers
    BY <1>4
  <2>3. m \in Nat \ {0} /\ Cardinality(C) = k - m /\ Cardinality(A \cup {b}) = k + 1
    <3>1. IsFiniteSet(B) /\ m \in Nat
      BY <2>2, ServersFinite
    <3>2. m # 0
      BY <1>8, <3>1, FS_EmptySet
    <3>3. Cardinality(A \ B) = Cardinality(A) - Cardinality(A \cap B) /\ A \cap B = B
      BY <1>4, FS_Difference
    <3>4. Cardinality(A \cup {b}) = Cardinality(A) + 1
      BY <1>4, <1>8, FS_AddElement
    <3> QED
      BY <3>1, <3>2, <3>3, <3>4 DEF k
  <2>4. y \in Int /\ 2 * y <= Cap(k - m) /\ Cap(k - m) \in Int
    BY <1>5, <2>2, <2>3
  <2>5. 2 * z <= Cap(k + 1) + 2 * T /\ z \in Int /\ Cap(k + 1) \in Int
    <3> DEFINE u == Part(c, A \cup {b})
               v == Part(Weight, (A \cup {b}) \cap S)
    <3>1. z = u + v
      BY <1>2
    <3>2. 2 * u <= Cap(k + 1) /\ u \in Int /\ Cap(k + 1) \in Int
      BY <1>5, <2>2, <2>3
    <3>3. v \in Int /\ v <= W
      BY <1>6
    <3> HIDE DEF u, v, z
    <3> QED
      BY <1>1, <3>1, <3>2, <3>3
  <2>6. z = x + r[b]
    <3>1. Part(r, A \cup {b}) = Part(r, A) + r[b]
      BY <1>4, <1>8, PartWith
    <3> QED
      BY <2>1, <3>1
  <2>7. x <= y + m * r[b]
    <3>1. Part(r, B) <= m * r[b]
      BY <1>4, <2>2, PartAtMost
    <3>2. x = Part(r, C) + Part(r, B)
      <4>1. C \cap B = {} /\ C \cup B = A
        OBVIOUS
      <4> HIDE DEF B, C
      <4> QED
        BY <2>1, <4>1, PartJoin
    <3>3. Part(r, C) = y
      <4>1. C \cap S = {}
        OBVIOUS
      <4>2. Part(r, C) = y + Part(Weight, {})
        BY <1>2, <4>1
      <4> QED
        BY <2>4, <4>2, PartNone
    <3>4. Part(r, B) \in Int /\ m * r[b] \in Int
      BY <1>4, <2>3, PartType
    <3> HIDE DEF B, C, y, m
    <3> QED
      BY <2>4, <3>1, <3>2, <3>3, <3>4
  <2> DEFINE cy == Cap(k - m)
             cz == Cap(k + 1) + 2 * T
             cx == Cap(k)
  <2>8. cy + m * cz <= (m + 1) * cx
    BY <1>4, <2>3, CapConcave DEF T
  <2>9. cy \in Int /\ cz \in Int /\ cx \in Int /\ 2 * y <= cy /\ 2 * z <= cz /\ x <= y + m * (z - x)
    <3>1. z - x = r[b]
      BY <1>4, <2>6
    <3>2. x <= y + m * (z - x)
      BY <2>7, <3>1
    <3> HIDE DEF y, z, m
    <3> QED
      BY <1>1, <1>4, <2>4, <2>5, <3>2
  <2> HIDE DEF cy, cz, cx, y, z, m
  <2>10. 2 * x <= cx
    BY <1>4, <2>3, <2>4, <2>5, <2>8, <2>9, Averaged
  <2>11. 0 <= 2 * x + Cap(k)
    <3> DEFINE u == Part(c, A)
               v == Part(Weight, B)
    <3>1. x = u + v /\ u \in Int /\ v \in Int /\ 0 <= v /\ 0 <= 2 * u + Cap(k)
      BY <1>5, <1>6, <2>1 DEF k
    <3> HIDE DEF u, v
    <3> QED
      BY <1>4, <3>1
  <2> QED
    BY <2>10, <2>11 DEF cx, x, k
<1>9. CASE b \in A
  <2> DEFINE v == Part(Weight, A \cap S)
             u == Part(c, A)
  <2>1. x = u + v - W /\ u \in Int /\ v \in Int /\ v <= W
        /\ 2 * u <= Cap(k) /\ 0 <= 2 * u + Cap(k)
    <3>1. x = Part(r, A) - W /\ Part(r, A) = u + v
      BY <1>2, <1>3, <1>9 DEF x
    <3>2. u \in Int /\ 2 * u <= Cap(k) /\ 0 <= 2 * u + Cap(k)
      BY <1>5 DEF k
    <3>3. v \in Int /\ v <= W
      BY <1>6
    <3> HIDE DEF u, v
    <3> QED
      BY <1>1, <3>1, <3>2, <3>3
  <2>2. 2 * x <= Cap(k)
    <3> HIDE DEF u, v
    <3> QED
      BY <1>1, <1>4, <2>1
  <2>3. CASE S \subseteq A
    <3>1. v = W
      <4>1. A \cap S = S
        BY <2>3
      <4> QED
        BY <1>1, <4>1
    <3>2. 0 <= 2 * x + Cap(k)
      <4> HIDE DEF u, v
      <4> QED
        BY <1>1, <1>4, <2>1, <3>1
    <3> QED
      BY <2>2, <3>2 DEF x, k
  <2>4. CASE ~(S \subseteq A)
    <3> DEFINE B == S \ A
               m == Cardinality(B)
               y == Part(c, A \cup B)
               z == Part(r, A \ {b})
               R == Part(r, A)
    <3>1. B \in SUBSET Servers /\ A \cup B \in SUBSET Servers /\ A \ {b} \in SUBSET Servers
      OBVIOUS
    <3>2. /\ m \in Nat \ {0} /\ Cardinality(A \cup B) = k + m
          /\ Cardinality(A \ {b}) = k - 1
      <4>1. IsFiniteSet(B) /\ m \in Nat
        BY <3>1, ServersFinite
      <4>2. m # 0
        BY <2>4, <4>1, FS_EmptySet
      <4>3. A \cap B = {}
        OBVIOUS
      <4>4. Cardinality(A \cup B) = k + m
        <5>1. Cardinality(A \cup B) = Cardinality(A) + Cardinality(B) - Cardinality({})
          BY <1>4, <4>1, <4>3, FS_Union
        <5>2. Cardinality({}) = 0 /\ Cardinality(A) = k /\ Cardinality(B) = m
          BY FS_EmptySet DEF k
        <5> HIDE DEF B, m
        <5> QED
          BY <1>4, <4>1, <5>1, <5>2
      <4>5. Cardinality(A \ {b}) = k - 1
        BY <1>4, <1>9, FS_RemoveElement DEF k
      <4> QED
        BY <4>1, <4>2, <4>4, <4>5
    <3>3. R = x + W /\ R \in Int
      <4>1. x = R - W /\ R \in Int
        BY <1>3, <1>9, PartType DEF x
      <4> HIDE DEF R
      <4> QED
        BY <1>1, <4>1
    <3>4. y \in Int /\ Cap(k + m) \in Int /\ 0 <= 2 * y + Cap(k + m)
      BY <1>5, <3>1, <3>2
    <3>5. y <= x + m * r[b]
      <4> DEFINE Q == Part(r, A \cup B)
                 P == Part(r, B)
      <4>1. Q = y + W
        <5>1. (A \cup B) \cap S = S
          OBVIOUS
        <5> QED
          BY <1>1, <1>2, <5>1
      <4>2. Q = R + P
        <5>1. A \cap B = {}
          OBVIOUS
        <5> HIDE DEF B
        <5> QED
          BY <5>1, PartJoin
      <4>3. P <= m * r[b]
        BY <1>4, <3>1, PartAtMost
      <4>4. P \in Int /\ m * r[b] \in Int
        BY <1>4, <3>2, PartType
      <4> HIDE DEF Q, P, y, R, m
      <4> QED
        BY <1>1, <1>4, <3>3, <3>4, <4>1, <4>2, <4>3, <4>4
    <3>6. 0 <= 2 * (x - r[b]) + Cap(k - 1) + 2 * T /\ Cap(k - 1) \in Int
      <4> DEFINE Q == Part(c, A \ {b})
                 P == Part(Weight, (A \ {b}) \cap S)
      <4>1. R = z + r[b]
        BY <1>4, <1>9, PartWith
      <4>2. z = Q + P
        BY <1>2
      <4>3. Q \in Int /\ Cap(k - 1) \in Int /\ 0 <= 2 * Q + Cap(k - 1)
        BY <1>5, <3>1, <3>2
      <4>4. P \in Int /\ 0 <= P
        BY <1>6
      <4> HIDE DEF Q, P, R, z
      <4> QED
        BY <1>1, <1>4, <3>3, <4>1, <4>2, <4>3, <4>4
    <3> DEFINE x1 == 0 - x
               y1 == 0 - y
               z1 == r[b] - x
               cy == Cap(k + m)
               cz == Cap(k - 1) + 2 * T
               cx == Cap(k)
    <3>7. cy + m * cz <= (m + 1) * cx
      BY <1>4, <3>2, CapConcave DEF T
    <3>8. /\ x1 \in Int /\ y1 \in Int /\ z1 \in Int /\ cy \in Int /\ cz \in Int /\ cx \in Int
          /\ 2 * y1 <= cy /\ 2 * z1 <= cz /\ x1 <= y1 + m * (z1 - x1)
      <4> HIDE DEF y, m
      <4>1. z1 - x1 = r[b]
        BY <1>4
      <4>2. m * r[b] \in Int
        BY <1>4, <3>2
      <4>3. x1 <= y1 + m * r[b]
        BY <1>4, <3>4, <3>5, <4>2
      <4> QED
        BY <1>1, <1>4, <3>4, <3>6, <4>1, <4>3
    <3> HIDE DEF x1, y1, z1, cy, cz, cx, m
    <3>9. 2 * x1 <= cx
      BY <3>2, <3>7, <3>8, Averaged
    <3>10. 0 <= 2 * x + Cap(k)
      BY <1>4, <3>9 DEF x1, cx
    <3> QED
      BY <2>2, <3>10 DEF x, k
  <2> QED
    BY <2>3, <2>4
<1> QED
  BY <1>7, <1>8, <1>9

\* A backend that starts again from nothing.
LEMMA ResetWithin ==
  ASSUME NEW c \in [Servers -> Int], NEW b \in Servers, NEW d,
         d = [c EXCEPT ![b] = 0], Within(c)
  PROVE  Within(d)
<1> SUFFICES ASSUME NEW A \in SUBSET Servers
             PROVE  /\ 2 * Part(d, A) <= Cap(Cardinality(A))
                    /\ 0 <= 2 * Part(d, A) + Cap(Cardinality(A))
  BY DEF Within
<1> DEFINE B == A \ {b}
<1>1. B \in SUBSET Servers
  OBVIOUS
<1>2. d \in [Servers -> Int] /\ d[b] = 0 /\ \A i \in B : d[i] = c[i]
  OBVIOUS
<1>3. Part(d, B) = Part(c, B) /\ Part(c, B) \in Int
  <2>1. Part(d, B) = Part(c, B)
    <3>1. [i \in Servers |-> IF i \in B THEN d[i] ELSE 0] = [i \in Servers |-> IF i \in B THEN c[i] ELSE 0]
      BY <1>2
    <3> HIDE DEF B
    <3> QED
      BY <3>1 DEF Part
  <2> QED
    BY <1>2, <2>1, PartType
<1>4. Part(d, A) = Part(c, B)
  <2>1. CASE b \in A
    <3>1. Part(d, A) = Part(d, B) + d[b]
      BY <1>2, <2>1, PartWith
    <3> QED
      BY <1>2, <1>3, <3>1
  <2>2. CASE b \notin A
    <3>1. A = B
      BY <2>2
    <3> QED
      BY <1>3, <3>1
  <2> QED
    BY <2>1, <2>2
<1>5. /\ 2 * Part(c, B) <= Cap(Cardinality(B)) /\ 0 <= 2 * Part(c, B) + Cap(Cardinality(B))
  BY <1>1 DEF Within
<1>6. /\ Cap(Cardinality(B)) \in Int /\ Cap(Cardinality(A)) \in Int
      /\ Cap(Cardinality(B)) <= Cap(Cardinality(A))
  <2>1. IsFiniteSet(A) /\ Cardinality(A) \in 0..N /\ Cardinality(B) \in 0..N
    BY <1>1, ServersFinite
  <2>2. Cap(Cardinality(B)) \in Int /\ Cap(Cardinality(A)) \in Int
    BY <2>1, CapFacts
  <2>3. CASE b \in A
    <3>1. Cardinality(B) = Cardinality(A) - 1
      BY <2>1, <2>3, FS_RemoveElement
    <3>2. Cardinality(A) \in 1..N
      BY <2>1, <3>1, ServersAre
    <3> QED
      BY <2>2, <3>1, <3>2, CapFacts
  <2>4. CASE b \notin A
    <3>1. A = B
      BY <2>4
    <3> QED
      BY <2>2, <3>1
  <2> QED
    BY <2>2, <2>3, <2>4
<1> HIDE DEF B
<1> QED
  BY <1>3, <1>4, <1>5, <1>6

LEMMA SpreadStart == pool_create => Spread
<1> SUFFICES ASSUME pool_create, NEW A \in SUBSET Servers
             PROVE  /\ 2 * Part(current, A) <= Cap(Cardinality(A))
                    /\ 0 <= 2 * Part(current, A) + Cap(Cardinality(A))
  BY DEF Spread, Within
<1>1. \A i \in Servers : current[i] = 0
  BY DEF pool_create
<1>2. Part(current, A) = 0
  <2>1. [i \in Servers |-> IF i \in A THEN current[i] ELSE 0] = [i \in Servers |-> 0]
    BY <1>1
  <2> QED
    BY <2>1, SumOfNothing DEF Part
<1>3. ASSUME NEW k \in 0..N PROVE Cap(k) \in Int /\ 0 <= Cap(k)
  <2> DEFINE G == {j \in 0..N : 0 <= Cap(j)}
  <2>1. 0 \in G
    BY CapFacts, ServersAre
  <2>2. \A j \in 1..N : j - 1 \in G => j \in G
    <3> TAKE j \in 1..N
    <3>1. j - 1 \in 0..N /\ j \in 0..N /\ N \in Nat
      BY ServersAre
    <3>2. Cap(j - 1) \in Int /\ Cap(j) \in Int /\ Cap(j - 1) <= Cap(j)
      BY <3>1, CapFacts
    <3> QED
      BY <3>1, <3>2
  <2> HIDE DEF G
  <2>3. k \in G
    BY <2>1, <2>2, ServersAre, EachTurn
  <2> QED
    BY <2>3, CapFacts DEF G
<1>4. Cardinality(A) \in 0..N
  BY ServersFinite
<1> QED
  BY <1>2, <1>3, <1>4

LEMMA SpreadSteps ==
  ASSUME PoolShape, Spread, [PoolNext]_pool_vars
  PROVE  Spread'
<1> SUFFICES Within(current')
  BY DEF Spread, Within, Part, Sum, Cap, Total
<1>0. Within(current) /\ current \in [Servers -> Int]
  BY DEF Spread, PoolShape
<1>1. CASE Pick
  <2>1. PICK S \in SUBSET Servers : \E b \in S :
          /\ S = loop.seen /\ b = Best(S) /\ loop.pc = "scan" /\ loop.k = N
          /\ Advance(b) /\ Reweigh(S, b) /\ got' = Counted(S, b)
    BY <1>1, PickIs
  <2>2. PICK b \in S : b = Best(S) /\ Reweigh(S, b)
    BY <2>1
  <2>3. CASE balance = "weighted"
    <3>1. current' = [Raised(S) EXCEPT ![b] = @ - Total(S)]
      BY <2>2, <2>3 DEF Reweigh
    <3> DEFINE r == Raised(S)
               d == [r EXCEPT ![b] = @ - Total(S)]
    <3>2. r \in [Servers -> Int]
          /\ \A i \in Servers : r[i] = IF i \in S THEN current[i] + Weight[i] ELSE current[i]
      BY <1>0, TotalOfAll DEF Raised
    <3>3. \A j \in S : r[j] <= r[b]
      <4>1. \A j \in S : r[b] >= r[j]
        BY <1>0, <2>2, <2>3, BestIs DEF PoolShape
      <4>2. \A j \in S : r[j] \in Int
        BY <3>2
      <4> HIDE DEF r
      <4> QED
        BY <4>1, <4>2
    <3> HIDE DEF r
    <3>4. Total(S) \in Int
      BY PartWeight
    <3>5. /\ d \in [Servers -> Int]
          /\ \A i \in Servers : d[i] = IF i = b THEN r[i] - Total(S) ELSE r[i]
      BY <3>2, <3>4
    <3> HIDE DEF d
    <3>6. Within(d)
      BY <1>0, <3>2, <3>3, <3>5, PickWithin
    <3> QED
      BY <3>1, <3>6 DEF d, r
  <2>4. CASE balance # "weighted"
    BY <1>0, <2>2, <2>4 DEF Reweigh
  <2> QED
    BY <2>3, <2>4
<1>2. CASE Established
  <2>1. loop.b \in Servers
    BY <1>2 DEF Established, PoolShape, Held
  <2>2. current' = [current EXCEPT ![loop.b] = 0] \/ current' = current
    BY <1>2 DEF Established, ReportOk
  <2> QED
    BY <1>0, <2>1, <2>2, ResetWithin
<1>3. CASE ~Pick /\ ~Established
  <2>1. current' = current
    BY <1>3 DEF PoolNext, Handler, Probe, pool_vars, passive, Request, Answer, ConnectEnds, Garbled,
                Close, Scan, NobodyUp, ReportLoad, Failed, Answered502, ReportFailure, Dial, ProbeLoad,
                ProbeResult, Change
  <2> QED
    BY <1>0, <2>1
<1> QED
  BY <1>1, <1>2, <1>3

\* However often backends go down and come back, no count of the pool passes its
\* limit and no dynamic weight the total times the number of the other backends
\* (pick_weighted, and current in pool_report).
THEOREM WeightsBounded == PoolSpec => []CurrentBounded
<1>1. PoolInv /\ Spread /\ [PoolNext]_pool_vars => Spread'
  BY SpreadSteps DEF PoolInv
<1>2. PoolTypeOK /\ Spread => CurrentBounded
  <2> SUFFICES ASSUME PoolTypeOK, Spread, NEW i \in Servers
               PROVE  current[i] \in (-((N - 1) * Total(Servers)))..((N - 1) * Total(Servers))
    BY DEF CurrentBounded
  <2> DEFINE most == (N - 1) * Total(Servers)
  <2>1. most \in Int /\ current[i] \in Int /\ current \in [Servers -> Int]
    BY TotalOfAll, ServersAre DEF PoolTypeOK
  <2>2. {i} \in SUBSET Servers /\ Cardinality({i}) = 1
    BY FS_Singleton
  <2>3. 2 * Part(current, {i}) <= Cap(1) /\ 0 <= 2 * Part(current, {i}) + Cap(1)
    BY <2>2 DEF Spread, Within
  <2>4. Part(current, {i}) = current[i] /\ Cap(1) = 2 * most
    BY <2>1, PartOne, CapFacts
  <2> HIDE DEF most
  <2>5. current[i] <= most /\ -most <= current[i]
    BY <2>1, <2>3, <2>4
  <2> QED
    BY <2>1, <2>5 DEF most
<1> QED
  BY <1>1, <1>2, SpreadStart, PoolAlways, PoolCounts, PTL DEF PoolSpec
=============================================================================
