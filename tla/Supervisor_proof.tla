-------------------------- MODULE Supervisor_proof --------------------------
(***************************************************************************)
(* For any number of workers and of signals, the supervisor leaves its     *)
(* loop with no worker alive, and relays only what was sent to it.          *)
(***************************************************************************)
EXTENDS Supervisor, FiniteSetTheorems, TLAPS

----------------------------------------------------------------------------
(* The inductive invariant of the count of workers.                        *)

Reaped == {w \in Workers : life[w] = "reaped"}

\* alive is what is left of N without the workers that wait returned.
Counted == sup.alive = N - Cardinality(Reaped)

\* Those that were not forked yet have not begun.
NotYet == At("fork") => \A w \in Workers : w >= sup.i => life[w] = "none"

\* A return of wait with EINTR, and the round of kill that follows, have a
\* signal: without it what a round puts into the inboxes would have no type.
Noted ==
  /\ At("eintr") => last # NoSignal
  /\ At("relay") => sup.sig # NoSignal

CountInv == TypeOK /\ Counted /\ NotYet /\ Noted /\ NoOrphan

----------------------------------------------------------------------------
(* The inductive invariant of the signals.                                 *)

WasSent == {sent[k] : k \in DOMAIN sent}

\* Whatever is on its way was sent.
SignalInv ==
  /\ CountInv
  /\ pending \subseteq WasSent
  /\ {last, sup.sig} \subseteq WasSent \cup {NoSignal}
  /\ \A w \in Workers : inbox[w] \subseteq WasSent

----------------------------------------------------------------------------
(* Counting.                                                               *)

\* The workers are N.
LEMMA WorkersFinite == IsFiniteSet(Workers) /\ Cardinality(Workers) = N
BY SupervisorAssumption, FS_Interval DEF Workers

\* Those that wait returned are some of them, and all of them if they are N.
LEMMA ReapedOfWorkers ==
  ASSUME NEW S \in SUBSET Workers
  PROVE  /\ IsFiniteSet(S) /\ Cardinality(S) \in 0..N
         /\ Cardinality(S) = N => S = Workers
         /\ \A w \in Workers \ S : /\ Cardinality(S \cup {w}) = Cardinality(S) + 1
                                   /\ Cardinality(S) < N
<1>1. IsFiniteSet(S) /\ Cardinality(S) <= N /\ (Cardinality(S) = N => S = Workers)
  BY WorkersFinite, FS_Subset
<1>2. Cardinality(S) \in Nat
  BY <1>1, FS_CardinalityType
<1>3. ASSUME NEW w \in Workers \ S
      PROVE  Cardinality(S \cup {w}) = Cardinality(S) + 1
  BY <1>1, FS_AddElement
<1>4. ASSUME NEW w \in Workers \ S
      PROVE  Cardinality(S) # N
  BY <1>1, <1>4
<1> QED
  BY <1>1, <1>2, <1>3, <1>4, SupervisorAssumption

----------------------------------------------------------------------------
(* No worker is left behind.                                               *)

\* Nothing was forked, and nothing waited for.
LEMMA CountInit == Init => CountInv
<1> SUFFICES ASSUME Init PROVE CountInv
  OBVIOUS
<1>1. Reaped = {}
  BY DEF Init, Reaped
<1>2. Counted
  BY <1>1, FS_EmptySet, SupervisorAssumption DEF Init, Counted
<1>3. 0 \in 0..N /\ N \in 0..N /\ 0 \in 0..Deaths /\ 0 \in Nat /\ 0 \in 0..0
  BY SupervisorAssumption
<1>4. TypeOK
  <2>1. sent \in Seq(Signals) /\ deaths \in 0..Deaths /\ file \in Nat
    BY <1>3 DEF Init
  <2>2. gen \in [Workers -> 0..file]
    BY <1>3 DEF Init
  <2>3. sup \in [pc : {"fork"}, i : 0..N, sig : {NoSignal}, alive : 0..N]
    BY <1>3 DEF Init
  <2> QED
    BY <2>1, <2>2, <2>3 DEF Init, TypeOK
<1> QED
  BY <1>2, <1>4 DEF Init, CountInv, NotYet, Noted, NoOrphan, At

\* The workers live, end and are forked in their own steps; wait takes one
\* that ended; everything else leaves them as they are.
LEMMA CountStep == CountInv /\ [Next]_vars => CountInv'
<1> SUFFICES ASSUME CountInv, [Next]_vars PROVE CountInv'
  OBVIOUS
<1> USE SupervisorAssumption DEF CountInv, At, Goto
<1>0. Cardinality(Reaped) \in 0..N
  BY ReapedOfWorkers DEF Reaped
<1>a. ASSUME UNCHANGED life, sup'.alive = sup.alive, NotYet', Noted', NoOrphan', TypeOK'
      PROVE  CountInv'
  BY <1>a DEF Counted, Reaped
\* A worker that changes its life is there, and stays one to wait for.
<1>b. ASSUME NEW w \in Workers, life[w] \in {"young", "ready", "stopping"},
             NEW l \in {"ready", "stopping", "zombie"},
             life' = [life EXCEPT ![w] = l], UNCHANGED sup
      PROVE  Counted' /\ NotYet' /\ NoOrphan'
  <2>1. Reaped' = Reaped
    BY <1>b DEF Reaped, TypeOK
  <2>2. Counted'
    BY <1>b, <2>1 DEF Counted
  <2>3. NotYet'
    BY <1>b DEF NotYet, TypeOK
  <2>4. NoOrphan'
    BY <1>b DEF NoOrphan, Child, TypeOK
  <2> QED
    BY <2>2, <2>3, <2>4
<1>1. CASE UNCHANGED vars
  BY <1>1 DEF vars, kernel, world, TypeOK, Counted, Reaped, NotYet, Noted, NoOrphan, Child
<1>2. CASE Fork
  <2>1. TypeOK'
    <3>1. sup.i + 1 \in 0..N
      BY <1>2 DEF Fork, TypeOK
    <3> QED
      BY <1>2, <3>1 DEF Fork, TypeOK, kernel, world
  <2>2. life[sup.i] = "none" /\ sup.i \in Workers
    BY <1>2 DEF Fork, NotYet, TypeOK, Workers
  <2>3. Reaped' = Reaped
    BY <1>2, <2>2 DEF Fork, Reaped, TypeOK
  <2>4. Counted' /\ NoOrphan'
    BY <1>2, <2>3 DEF Fork, Counted, NoOrphan, TypeOK
  <2>5. NotYet'
    BY <1>2, <2>2 DEF Fork, NotYet, TypeOK, Workers
  <2>6. Noted'
    BY <1>2 DEF Fork, Noted, TypeOK
  <2> QED
    BY <2>1, <2>4, <2>5, <2>6
<1>3. CASE Forked \/ Arm \/ Wait \/ Interrupted \/ Relay \/ Reset
  <2>1. UNCHANGED life /\ sup'.alive = sup.alive /\ sup'.pc \notin {"fork", "over"}
    BY <1>3 DEF Forked, Arm, Wait, Interrupted, Relay, Reset, TypeOK, kernel
  <2>2. NotYet' /\ NoOrphan'
    BY <2>1 DEF NotYet, NoOrphan
  <2>4. Noted'
    BY <1>3 DEF Forked, Arm, Wait, Interrupted, Relay, Reset, Noted, TypeOK
  <2>3. TypeOK'
    <3>1. CASE Forked \/ Arm \/ Wait \/ Interrupted \/ Reset
      <4>1. 0 \in 0..N
        OBVIOUS
      <4>2. sup' \in [pc : {"arm", "loop", "wait", "relay"}, i : 0..N,
                      sig : Signals \cup {NoSignal}, alive : 0..N]
        BY <3>1, <4>1 DEF Forked, Arm, Wait, Interrupted, Reset, TypeOK
      <4> QED
        BY <3>1, <4>2 DEF Forked, Arm, Wait, Interrupted, Reset, TypeOK, kernel, world
    <3>2. CASE Relay
      <4>1. sup.i + 1 \in 0..N /\ sup.sig \in Signals /\ sup.i \in Workers
        BY <3>2 DEF Relay, Noted, TypeOK, Workers
      <4> QED
        BY <3>2, <4>1 DEF Relay, TypeOK, world
    <3> QED
      BY <1>3, <3>1, <3>2
  <2> QED
    BY <1>a, <2>1, <2>2, <2>3, <2>4
<1>4. CASE Reap
  <2>1. PICK w \in Workers : life[w] = "zombie" /\ life' = [life EXCEPT ![w] = "reaped"]
    BY <1>4 DEF Reap, Zombies
  <2>2. Reaped' = Reaped \cup {w} /\ w \notin Reaped
    BY <2>1 DEF Reaped, TypeOK
  <2>3. Cardinality(Reaped') = Cardinality(Reaped) + 1 /\ Cardinality(Reaped) < N
    BY <2>2, ReapedOfWorkers DEF Reaped
  <2>4. sup'.alive = sup.alive - 1 /\ sup'.alive \in 0..N
    BY <1>4, <1>0, <2>3 DEF Reap, Counted, TypeOK
  <2>5. Counted'
    BY <1>0, <2>3, <2>4 DEF Counted
  <2>6. TypeOK'
    BY <1>4, <2>1, <2>4 DEF Reap, TypeOK, kernel, world
  <2>7. NotYet' /\ Noted'
    BY <1>4 DEF Reap, NotYet, Noted, TypeOK
  <2>8. NoOrphan'
    <3>1. SUFFICES ASSUME sup'.pc = "over" PROVE Reaped' = Workers
      BY <3>1 DEF NoOrphan, Reaped, Child
    <3>2. sup.alive = 1
      BY <1>4, <3>1 DEF Reap, TypeOK
    <3>3. Cardinality(Reaped') = N
      BY <1>0, <2>3, <3>2 DEF Counted
    <3> QED
      BY <3>3, ReapedOfWorkers DEF Reaped
  <2> QED
    BY <2>5, <2>6, <2>7, <2>8
<1>5. CASE Childless
  BY <1>5, <1>a DEF Childless, NotYet, Noted, NoOrphan, Child, TypeOK, kernel, world
<1>6. CASE Deliver
  <2>1. UNCHANGED life /\ sup' \in {sup, [sup EXCEPT !.pc = "killed"], [sup EXCEPT !.pc = "eintr"]}
    BY <1>6 DEF Deliver
  <2>2. TypeOK'
    BY <1>6, <2>1 DEF Deliver, TypeOK, world
  <2>3. sup'.alive = sup.alive /\ NotYet' /\ NoOrphan'
    BY <2>1 DEF NotYet, NoOrphan, Child, TypeOK
  <2>4. Noted'
    BY <1>6 DEF Deliver, Noted, Signals, NoSignal, TypeOK
  <2> QED
    BY <1>a, <2>1, <2>2, <2>3, <2>4
<1>7. ASSUME NEW w \in Workers, WorkerStep(w) \/ Die(w)
      PROVE  CountInv'
  <2>1. TypeOK'
    <3>1. CASE Ready(w) \/ KilledYoung(w) \/ End(w)
      BY <3>1 DEF Ready, KilledYoung, End, TypeOK, kernel, world
    <3>2. CASE Handle(w)
      BY <3>2 DEF Handle, TypeOK, world
    <3>3. CASE Die(w)
      BY <3>3 DEF Die, TypeOK
    <3> QED
      BY <1>7, <3>1, <3>2, <3>3 DEF WorkerStep
  <2>2. Noted'
    BY <1>7 DEF WorkerStep, Ready, KilledYoung, Handle, End, Die, Noted
  <2>3. CASE UNCHANGED <<sup, life>>
    BY <2>1, <2>2, <2>3, <1>a DEF NotYet, NoOrphan, Child
  <2>4. CASE UNCHANGED sup /\ life[w] \in {"young", "ready", "stopping"}
             /\ \E l \in {"ready", "stopping", "zombie"} : life' = [life EXCEPT ![w] = l]
    BY <1>b, <2>1, <2>2, <2>4
  <2> QED
    BY <1>7, <2>3, <2>4 DEF WorkerStep, Ready, KilledYoung, Handle, End, Die
<1>8. ASSUME NEW s \in Signals, Send(s)
      PROVE  CountInv'
  <2>1. sent' \in Seq(Signals) /\ file' \in Nat /\ file <= file'
    BY <1>8 DEF Send, TypeOK
  <2>2. gen' \in [Workers -> 0..file']
    BY <1>8, <2>1 DEF Send, TypeOK
  <2>3. TypeOK'
    BY <1>8, <2>1, <2>2 DEF Send, TypeOK
  <2> QED
    BY <1>8, <1>a, <2>3 DEF Send, NotYet, Noted, NoOrphan, Child
<1> QED
  BY <1>1, <1>2, <1>3, <1>4, <1>5, <1>6, <1>7, <1>8 DEF Next, Main

----------------------------------------------------------------------------
(* Nothing is relayed that was not sent.                                   *)

\* What was sent stays sent.
LEMMA WasSentGrows ==
  ASSUME TypeOK, NEW s \in Signals, sent' = Append(sent, s)
  PROVE  WasSent' = WasSent \cup {s}
<1>1. /\ DOMAIN sent' = DOMAIN sent \cup {Len(sent) + 1}
      /\ sent'[Len(sent) + 1] = s
      /\ \A n \in DOMAIN sent : sent'[n] = sent[n]
  BY DEF TypeOK
<1> QED
  BY <1>1 DEF WasSent

LEMMA SignalInit == Init => SignalInv
BY CountInit DEF Init, SignalInv

\* Signals move from the operator to pending, from there to g_last_signal, to
\* the round of kill and to the workers; nothing else is put there.
LEMMA SignalStep == SignalInv /\ [Next]_vars => SignalInv'
<1> SUFFICES ASSUME SignalInv, [Next]_vars PROVE SignalInv'
  OBVIOUS
<1>0. CountInv'
  BY CountStep DEF SignalInv
<1> USE <1>0 DEF SignalInv, CountInv, TypeOK, At, Goto
<1>1. CASE UNCHANGED vars
  BY <1>1 DEF vars, kernel, world, WasSent
<1>2. CASE Fork \/ Forked \/ Arm \/ Wait \/ Reap \/ Childless \/ Interrupted \/ Reset
  <2>1. UNCHANGED <<pending, inbox, sent>> /\ {last', sup'.sig} \subseteq {last, sup.sig, NoSignal}
    BY <1>2 DEF Fork, Forked, Arm, Wait, Reap, Childless, Interrupted, Reset, kernel, world
  <2> QED
    BY <2>1 DEF WasSent
<1>3. CASE Relay
  <2>1. UNCHANGED <<pending, last, sent>> /\ sup'.sig = sup.sig
    BY <1>3 DEF Relay, world
  <2>2. sup.sig \in WasSent
    BY <1>3 DEF Relay, Noted
  <2> QED
    BY <1>3, <2>1, <2>2 DEF Relay, WasSent
<1>4. CASE Deliver
  BY <1>4 DEF Deliver, world, WasSent
<1>5. ASSUME NEW w \in Workers, WorkerStep(w) \/ Die(w)
      PROVE  SignalInv'
  <2>1. UNCHANGED <<sup, last, pending, sent>>
    BY <1>5 DEF WorkerStep, Ready, KilledYoung, Handle, End, Die, kernel, world
  <2>2. \A x \in Workers : inbox'[x] \subseteq inbox[x]
    BY <1>5 DEF WorkerStep, Ready, KilledYoung, Handle, End, Die, kernel
  <2> QED
    BY <2>1, <2>2 DEF WasSent
<1>6. ASSUME NEW s \in Signals, Send(s)
      PROVE  SignalInv'
  <2>1. WasSent' = WasSent \cup {s}
    BY <1>6, WasSentGrows DEF Send
  <2> QED
    BY <1>6, <2>1 DEF Send
<1> QED
  BY <1>1, <1>2, <1>3, <1>4, <1>5, <1>6 DEF Next, Main

----------------------------------------------------------------------------
(* The theorems.                                                           *)

(***************************************************************************)
(* Main leaves its loop by counting every worker or because wait has none  *)
(* left: never with a worker alive, also when fork failed half-way.         *)
(***************************************************************************)
THEOREM OrphanFree == Spec => []NoOrphan
<1>1. CountInv => NoOrphan
  BY DEF CountInv
<1> QED
  BY <1>1, CountInit, CountStep, PTL DEF Spec

\* The state of the supervisor is always well typed.
THEOREM TypeCorrect == Spec => []TypeOK
<1>1. CountInv => TypeOK
  BY DEF CountInv
<1> QED
  BY <1>1, CountInit, CountStep, PTL DEF Spec

\* Each worker is told only what the operator sent, and never signal 0.
THEOREM RelaysOnlySent == Spec => []OnlySent
<1>1. SignalInv => OnlySent
  BY DEF SignalInv, CountInv, Noted, OnlySent, WasSent, At
<1> QED
  BY <1>1, SignalInit, SignalStep, PTL DEF Spec
=============================================================================
