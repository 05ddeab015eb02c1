------------------------- MODULE ConnManager_proof -------------------------
(* Proofs about ConnManager, for every number of connections, slots and    *)
(* backends.                                                               *)
EXTENDS ConnManager, FiniteSetTheorems, TLAPS

\* Types alone are not inductive: only BuffersOfState says that a request is
\* read into a buffer, so that the slot PrepareBuffers gives back is a slot.
Shape == TypeOK /\ BuffersOfState

\* The inductive invariant of the arena of buffers.
SlotInv == Shape /\ NoSharedSlot /\ NoLostSlot

(***************************************************************************)
(* prepare_request on a connection that is reading moves it from its slot  *)
(* to a free slot s, gives its own back, and takes t for the response      *)
(* unless there is a buffer for it already.                                *)
(***************************************************************************)
LEMMA PrepareBuffersEffect ==
  ASSUME Shape, NEW x \in Conns, state[x] = "READING", PrepareBuffers(x)
  PROVE  \E s \in free, t \in Slots :
              /\ in[x] = Null => t \in (free \ {s}) \cup {out[x]}
              /\ in[x] # Null => t = in[x]
              /\ out' = [out EXCEPT ![x] = s]
              /\ in'  = [in EXCEPT ![x] = t]
              /\ free' = ((free \ {s}) \cup {out[x]}) \ {t}
<1>1. out[x] \in Slots
  BY DEF Shape, TypeOK, BuffersOfState
<1>2. PICK s \in free :
        \E t \in IF in[x] = Null THEN (free \ {s}) \cup {out[x]} ELSE {in[x]} :
          /\ out' = [out EXCEPT ![x] = s]
          /\ in'  = [in EXCEPT ![x] = t]
          /\ free' = ((free \ {s}) \cup {out[x]}) \ {t}
  BY DEF PrepareBuffers
<1>3. (free \ {s}) \cup {out[x]} \in SUBSET Slots /\ (in[x] # Null => in[x] \in Slots)
  BY <1>1 DEF Shape, TypeOK
<1> QED
  BY <1>2, <1>3

\* Every connection starts free, without buffers.
LEMMA ShapeInit == Init => Shape
<1> SUFFICES ASSUME Init PROVE Shape
  OBVIOUS
<1>1. 0 \in 0..MaxAttempts /\ 0 \in Nat
  BY ConnManagerAssumption
<1>2. attempts \in [Conns -> 0..MaxAttempts] /\ active \in [Backends -> Nat]
  BY <1>1 DEF Init
<1>3. TypeOK
  BY <1>2 DEF Init, TypeOK, States
<1>4. BuffersOfState
  BY DEF Init, BuffersOfState
<1> QED
  BY <1>3, <1>4 DEF Shape

(***************************************************************************)
(* No handler breaks the types, or leaves a connection without the buffers *)
(* of its state.                                                           *)
(***************************************************************************)
LEMMA ShapeStep == Shape /\ [Next]_vars => Shape'
<1> SUFFICES ASSUME Shape, [Next]_vars PROVE Shape'
  OBVIOUS
<1> USE ConnManagerAssumption DEF Shape
<1>1. CASE UNCHANGED vars
  BY <1>1 DEF vars, TypeOK, BuffersOfState
<1>2. ASSUME NEW x \in Conns, Step(x) PROVE Shape'
  <2> USE DEF TypeOK, States
  <2>0. Closed(x) \in [Backends -> Nat]
    BY DEF Closed
  <2>1. ASSUME ReturnBuffers(x), state' = [state EXCEPT ![x] = "FREE"]
        PROVE  /\ out' \in [Conns -> Slots \cup {Null}]
               /\ in' \in [Conns -> Slots \cup {Null}]
               /\ free' \in SUBSET Slots
               /\ BuffersOfState'
    BY <2>1 DEF ReturnBuffers, Returned, BuffersOfState
  <2>2. ASSUME PrepareBuffers(x), state[x] = "READING",
               \/ state' = [state EXCEPT ![x] = "PROXYING"]
               \/ state' = [state EXCEPT ![x] = "CONNECTING"]
        PROVE  /\ out' \in [Conns -> Slots \cup {Null}]
               /\ in' \in [Conns -> Slots \cup {Null}]
               /\ free' \in SUBSET Slots
               /\ BuffersOfState'
    <3>1. PICK s \in free, t \in Slots :
                 /\ out' = [out EXCEPT ![x] = s]
                 /\ in'  = [in EXCEPT ![x] = t]
                 /\ free' = ((free \ {s}) \cup {out[x]}) \ {t}
      BY <2>2, PrepareBuffersEffect
    <3>2. out[x] \in Slots /\ s # Null /\ t # Null
      BY <2>2 DEF BuffersOfState
    <3> QED
      BY <2>2, <3>1, <3>2 DEF BuffersOfState
  <2>3. CASE Close(x)
    BY <2>0, <2>1, <2>3 DEF Close, DropUpstream
  <2>4. CASE Accept(x)
    BY <2>4 DEF Accept, BuffersOfState
  <2>5. CASE Reject(x)
    BY <2>5 DEF Reject, BuffersOfState
  <2>6. CASE Starve(x)
    BY <2>0, <2>1, <2>6 DEF Starve, DropUpstream
  <2>7. CASE Reuse(x)
    <3>1. BuffersOfState' /\ out' \in [Conns -> Slots \cup {Null}]
          /\ in' \in [Conns -> Slots \cup {Null}] /\ free' \in SUBSET Slots
      BY <2>2, <2>7 DEF Reuse
    <3> QED
      BY <2>7, <3>1 DEF Reuse
  <2>8. CASE Connect(x)
    <3>1. state' = [state EXCEPT ![x] = "CONNECTING"]
      BY <2>8 DEF Connect, ConnectLoop
    <3>2. BuffersOfState' /\ out' \in [Conns -> Slots \cup {Null}]
          /\ in' \in [Conns -> Slots \cup {Null}] /\ free' \in SUBSET Slots
      BY <2>2, <2>8, <3>1 DEF Connect
    <3>3. PICK b \in Backends, n \in 1..MaxAttempts : ConnectLoop(x, b, n)
      BY <2>8 DEF Connect
    <3>4. attempts' \in [Conns -> 0..MaxAttempts]
      BY <3>3 DEF ConnectLoop
    <3>5. state' \in [Conns -> States] /\ be' \in [Conns -> Backends \cup {Null}]
          /\ opened' \in [Conns -> BOOLEAN] /\ leaked' \in BOOLEAN
      BY <3>3 DEF ConnectLoop
    <3> QED
      BY <2>0, <2>8, <3>2, <3>4, <3>5 DEF Connect
  <2>9. CASE Connected(x)
    <3>1. active' \in [Backends -> Nat]
      <4>1. \A m \in Nat : m + 1 \in Nat
        OBVIOUS
      <4>2. active' = [active EXCEPT ![be[x]] = @ + 1]
        BY <2>9 DEF Connected
      <4> QED
        BY <4>1, <4>2
    <3>2. BuffersOfState'
      BY <2>9 DEF Connected, BuffersOfState
    <3> QED
      BY <2>9, <3>1, <3>2 DEF Connected
  <2>10. CASE Retry(x)
    <3>1. PICK b \in Backends, n \in 1..MaxAttempts : ConnectLoop(x, b, n)
      BY <2>10 DEF Retry
    <3>2. attempts' \in [Conns -> 0..MaxAttempts]
      BY <3>1 DEF ConnectLoop
    <3>3. BuffersOfState'
      BY <2>10, <3>1 DEF Retry, ConnectLoop, BuffersOfState
    <3> QED
      BY <2>0, <2>10, <3>1, <3>2, <3>3 DEF Retry, ConnectLoop
  <2>11. CASE FinishKeep(x)
    BY <2>11 DEF FinishKeep, BuffersOfState
  <2>12. CASE FinishDrop(x)
    BY <2>0, <2>12 DEF FinishDrop, DropUpstream, BuffersOfState
  <2>13. CASE IdleUpstream(x)
    BY <2>0, <2>13 DEF IdleUpstream, DropUpstream, BuffersOfState
  <2> QED
    BY <1>2, <2>3, <2>4, <2>5, <2>6, <2>7, <2>8, <2>9, <2>10, <2>11, <2>12, <2>13 DEF Step
<1> QED
  BY <1>1, <1>2 DEF Next

(***************************************************************************)
(* The variables have their types and every connection has the buffers its *)
(* state works on, whatever the order in which the handlers run.           *)
(***************************************************************************)
THEOREM TypeCorrect == Spec => []TypeOK
<1> QED
  BY ShapeInit, ShapeStep, PTL DEF Spec, Shape

\* A connection never works on a buffer it does not have, nor keeps one that its
\* state has no use for.
THEOREM BuffersMatchState == Spec => []BuffersOfState
<1> QED
  BY ShapeInit, ShapeStep, PTL DEF Spec, Shape

----------------------------------------------------------------------------

\* What a step may do to the slots, and which connections it may free.
SlotsUntouched == UNCHANGED <<out, in, free>> /\ \A y \in Conns : state'[y] = "FREE" <=> state[y] = "FREE"

(***************************************************************************)
(* A slot keeps its only owner through every handler: the three that move  *)
(* slots are conn_close, conn_accepted and prepare_request.                *)
(***************************************************************************)
LEMMA SlotStep == SlotInv /\ [Next]_vars => SlotInv'
<1> SUFFICES ASSUME SlotInv, [Next]_vars PROVE SlotInv'
  OBVIOUS
<1>1. Shape'
  BY ShapeStep DEF SlotInv
<1>2. ASSUME SlotsUntouched PROVE SlotInv'
  BY <1>1, <1>2 DEF SlotInv, SlotsUntouched, NoSharedSlot, NoLostSlot
<1>3. CASE UNCHANGED vars
  BY <1>2, <1>3 DEF vars, SlotsUntouched
<1>4. ASSUME NEW x \in Conns, Step(x) PROVE SlotInv'
  <2> USE DEF Shape, TypeOK, States
  <2>1. ASSUME ReturnBuffers(x), state' = [state EXCEPT ![x] = "FREE"]
        PROVE  SlotInv'
    <3>1. NoSharedSlot'
      BY <2>1 DEF SlotInv, NoSharedSlot, ReturnBuffers, Returned
    <3>2. NoLostSlot'
      <4> SUFFICES ASSUME NEW u \in Slots, u \notin free'
                   PROVE  \E y \in Conns : state'[y] # "FREE" /\ u \in {out'[y], in'[y]}
        BY DEF NoLostSlot
      <4>1. u \notin free /\ u \notin {out[x], in[x]}
        BY <2>1, ConnManagerAssumption DEF ReturnBuffers, Returned
      <4>2. PICK y \in Conns : state[y] # "FREE" /\ u \in {out[y], in[y]}
        BY <4>1 DEF SlotInv, NoLostSlot
      <4>3. y # x
        BY <4>1, <4>2
      <4>4. state'[y] = state[y] /\ out'[y] = out[y] /\ in'[y] = in[y]
        BY <2>1, <4>3 DEF ReturnBuffers, SlotInv
      <4> QED
        BY <4>2, <4>4
    <3> QED
      BY <1>1, <3>1, <3>2 DEF SlotInv
  <2>2. ASSUME PrepareBuffers(x), state[x] = "READING",
               \/ state' = [state EXCEPT ![x] = "PROXYING"]
               \/ state' = [state EXCEPT ![x] = "CONNECTING"]
        PROVE  SlotInv'
    <3>1. PICK s \in free, t \in Slots :
                 /\ in[x] = Null => t \in (free \ {s}) \cup {out[x]}
                 /\ in[x] # Null => t = in[x]
                 /\ out' = [out EXCEPT ![x] = s]
                 /\ in'  = [in EXCEPT ![x] = t]
                 /\ free' = ((free \ {s}) \cup {out[x]}) \ {t}
      BY <2>2, PrepareBuffersEffect DEF SlotInv
    <3>2. out[x] \in Slots /\ out[x] \notin free
      BY <2>2 DEF SlotInv, BuffersOfState, NoSharedSlot
    <3>3. t # s
      BY <3>1, <3>2 DEF SlotInv, NoSharedSlot
    <3>4. NoSharedSlot'
      BY <3>1, <3>2, <3>3, ConnManagerAssumption DEF SlotInv, NoSharedSlot
    <3>5. NoLostSlot'
      <4> SUFFICES ASSUME NEW u \in Slots, u \notin free'
                   PROVE  \E y \in Conns : state'[y] # "FREE" /\ u \in {out'[y], in'[y]}
        BY DEF NoLostSlot
      <4>0. state \in [Conns -> States] /\ out \in [Conns -> Slots \cup {Null}]
            /\ in \in [Conns -> Slots \cup {Null}]
        BY DEF SlotInv
      <4>1. state'[x] # "FREE" /\ out'[x] = s /\ in'[x] = t
        BY <2>2, <3>1, <4>0
      <4>2. CASE u \in {s, t}
        BY <4>1, <4>2
      <4>3. CASE u \notin {s, t}
        <5>1. u \notin free /\ u # out[x]
          BY <3>1, <4>3
        <5>2. PICK y \in Conns : state[y] # "FREE" /\ u \in {out[y], in[y]}
          BY <5>1 DEF SlotInv, NoLostSlot
        <5>3. y # x
          BY <3>1, <4>3, <5>1, <5>2, ConnManagerAssumption
        <5>4. state'[y] = state[y] /\ out'[y] = out[y] /\ in'[y] = in[y]
          BY <2>2, <3>1, <4>0, <5>3
        <5> QED
          BY <5>2, <5>4
      <4> QED
        BY <4>2, <4>3
    <3> QED
      BY <1>1, <3>4, <3>5 DEF SlotInv
  <2>3. CASE Close(x)
    BY <2>1, <2>3 DEF Close
  <2>4. CASE Accept(x)
    <3>1. PICK s \in free : free' = free \ {s} /\ out' = [out EXCEPT ![x] = s]
      BY <2>4 DEF Accept
    <3>2. out[x] = Null /\ in[x] = Null
      BY <2>4 DEF Accept, SlotInv, BuffersOfState
    <3>3. NoSharedSlot'
      BY <2>4, <3>1, <3>2, ConnManagerAssumption DEF Accept, SlotInv, NoSharedSlot
    <3>4. NoLostSlot'
      BY <2>4, <3>1, <3>2, ConnManagerAssumption DEF Accept, SlotInv, NoLostSlot
    <3> QED
      BY <1>1, <3>3, <3>4 DEF SlotInv
  <2>5. CASE Starve(x)
    BY <2>1, <2>5 DEF Starve
  <2>6. CASE Reuse(x)
    BY <2>2, <2>6 DEF Reuse
  <2>7. CASE Connect(x)
    BY <2>2, <2>7 DEF Connect, ConnectLoop
  <2>8. CASE Retry(x)
    BY <1>2, <2>8 DEF Retry, ConnectLoop, SlotsUntouched
  <2>9. CASE Reject(x) \/ Connected(x) \/ FinishKeep(x) \/ FinishDrop(x) \/ IdleUpstream(x)
    BY <1>2, <2>9 DEF Reject, Connected, FinishKeep, FinishDrop, IdleUpstream, SlotsUntouched, SlotInv
  <2> QED
    BY <1>4, <2>3, <2>4, <2>5, <2>6, <2>7, <2>8, <2>9 DEF Step
<1> QED
  BY <1>3, <1>4 DEF Next

\* Slots are neither shared nor lost before anything happens.
LEMMA SlotInit == Init => SlotInv
  BY ShapeInit DEF Init, NoSharedSlot, NoLostSlot, SlotInv

(***************************************************************************)
(* No two connections, and no two directions of one, are ever given the    *)
(* same slot, and every slot that is not free has an owner that will       *)
(* return it (bufpool_get, bufpool_put, conn_close and their callers).     *)
(***************************************************************************)
THEOREM SlotsSafe == Spec => []SlotsExact
<1> QED
  BY SlotInit, SlotStep, PTL DEF Spec, SlotInv, SlotsExact

----------------------------------------------------------------------------

\* The inductive invariant of the counts: a connection that is not counted is
\* one that connects or has no backend.
CountInv == Shape /\ BackendOfState /\ NeverOvercounted

(***************************************************************************)
(* Giving up a backend: the count goes down at most by the connection that *)
(* leaves (backend_conn_closed, and every place that calls it).            *)
(***************************************************************************)
LEMMA CountDrop ==
  ASSUME CountInv, Shape', NEW x \in Conns, active' = Closed(x),
         opened' = [opened EXCEPT ![x] = FALSE],
         \A y \in Conns \ {x} : be'[y] = be[y]
  PROVE  NeverOvercounted'
<1> SUFFICES ASSUME NEW b \in Backends PROVE active'[b] <= Cardinality(Live(b)')
  BY DEF NeverOvercounted
<1> USE DEF Shape, TypeOK
<1>1. IsFiniteSet(Live(b)) /\ Cardinality(Live(b)) \in Nat
  BY ConnManagerAssumption, FS_Subset, FS_CardinalityType DEF Live
<1>2. Live(b)' = Live(b) \ {x}
  BY DEF Live, CountInv
<1>3. active[b] \in Nat /\ active[b] <= Cardinality(Live(b))
  BY DEF CountInv, NeverOvercounted
<1>4. CASE x \in Live(b)
  <2>1. Cardinality(Live(b)') = Cardinality(Live(b)) - 1
    BY <1>1, <1>2, <1>4, FS_RemoveElement
  <2>2. be[x] = b /\ be[x] # Null
    BY <1>4, ConnManagerAssumption DEF Live
  <2>3. active'[b] = IF active[b] > 0 THEN active[b] - 1 ELSE active[b]
    BY <2>2 DEF Closed, CountInv
  <2>4. x \in Live(b) => Cardinality(Live(b)) # 0
    BY <1>1, FS_EmptySet
  <2> QED
    BY <1>1, <1>3, <1>4, <2>1, <2>3, <2>4
<1>5. CASE x \notin Live(b)
  <2>1. Live(b)' = Live(b)
    BY <1>2, <1>5
  <2>2. active'[b] <= active[b] /\ active'[b] \in Nat
    <3>1. active'[b] = active[b] \/ (active[b] > 0 /\ active'[b] = active[b] - 1)
      BY DEF Closed, CountInv
    <3> QED
      BY <1>3, <3>1
  <2> QED
    BY <1>1, <1>3, <2>1, <2>2
<1> QED
  BY <1>4, <1>5

\* What leaves the connections each backend is told of as they are.
CountUntouched ==
  /\ UNCHANGED <<be, opened, active>>
  /\ \A y \in Conns : /\ state'[y] = "FREE" => be[y] = Null
                      /\ state'[y] \in {"CONNECTING", "PROXYING"} => be[y] # Null
                      /\ state'[y] = "CONNECTING" <=> state[y] = "CONNECTING"

(***************************************************************************)
(* Every handler keeps the counts from running ahead of the connections.   *)
(***************************************************************************)
LEMMA CountStep == CountInv /\ [Next]_vars => CountInv'
<1> SUFFICES ASSUME CountInv, [Next]_vars PROVE CountInv'
  OBVIOUS
<1>1. Shape'
  BY ShapeStep DEF CountInv
<1>2. ASSUME CountUntouched PROVE CountInv'
  <2>1. BackendOfState'
    BY <1>2 DEF CountInv, CountUntouched, BackendOfState
  <2>2. NeverOvercounted'
    BY <1>2 DEF CountInv, CountUntouched, NeverOvercounted, Live
  <2> QED
    BY <1>1, <2>1, <2>2 DEF CountInv
<1>3. CASE UNCHANGED vars
  BY <1>2, <1>3 DEF vars, CountUntouched, CountInv, BackendOfState
<1>4. ASSUME NEW x \in Conns, Step(x) PROVE CountInv'
  <2> USE DEF Shape, TypeOK, States
  <2>1. ASSUME DropUpstream(x), NEW q \in {"FREE", "READING"}, state' = [state EXCEPT ![x] = q]
        PROVE  CountInv'
    <3>1. BackendOfState'
      BY <2>1 DEF CountInv, BackendOfState, DropUpstream
    <3>2. NeverOvercounted'
      BY <1>1, <2>1, CountDrop DEF DropUpstream, CountInv
    <3> QED
      BY <1>1, <3>1, <3>2 DEF CountInv
  <2>2. ASSUME NEW b \in Backends, NEW n \in 1..MaxAttempts, ConnectLoop(x, b, n),
               active' = Closed(x)
        PROVE  CountInv'
    <3>1. BackendOfState'
      BY <2>2, ConnManagerAssumption DEF CountInv, BackendOfState, ConnectLoop
    <3>2. NeverOvercounted'
      <4>1. \A y \in Conns \ {x} : be'[y] = be[y]
        BY <2>2 DEF ConnectLoop, CountInv
      <4> QED
        BY <1>1, <2>2, <4>1, CountDrop DEF ConnectLoop
    <3> QED
      BY <1>1, <3>1, <3>2 DEF CountInv
  <2>3. CASE Connected(x)
    <3>1. be[x] \in Backends /\ ~opened[x]
      BY <2>3 DEF Connected, CountInv, BackendOfState
    <3>2. BackendOfState'
      BY <2>3, <3>1 DEF Connected, CountInv, BackendOfState
    <3>3. NeverOvercounted'
      <4> SUFFICES ASSUME NEW b \in Backends PROVE active'[b] <= Cardinality(Live(b)')
        BY DEF NeverOvercounted
      <4>1. IsFiniteSet(Live(b)) /\ Cardinality(Live(b)) \in Nat
        BY ConnManagerAssumption, FS_Subset, FS_CardinalityType DEF Live
      <4>2. active[b] \in Nat /\ active[b] <= Cardinality(Live(b))
        BY DEF CountInv, NeverOvercounted
      <4>3. CASE b = be[x]
        <5>1. x \notin Live(b) /\ Live(b)' = Live(b) \cup {x}
          BY <2>3, <3>1, <4>3 DEF Connected, Live, CountInv
        <5>2. Cardinality(Live(b)') = Cardinality(Live(b)) + 1
          BY <4>1, <5>1, FS_AddElement
        <5>3. active'[b] = active[b] + 1
          BY <2>3, <4>3 DEF Connected, CountInv
        <5> QED
          BY <4>1, <4>2, <5>2, <5>3
      <4>4. CASE b # be[x]
        <5>1. Live(b)' = Live(b)
          BY <2>3, <4>4 DEF Connected, Live, CountInv
        <5>2. active'[b] = active[b]
          BY <2>3, <4>4 DEF Connected, CountInv
        <5> QED
          BY <4>2, <5>1, <5>2
      <4> QED
        BY <4>3, <4>4
    <3> QED
      BY <1>1, <3>2, <3>3 DEF CountInv
  <2>4. CASE Close(x) \/ Starve(x)
    BY <2>1, <2>4 DEF Close, Starve
  <2>5. CASE FinishDrop(x)
    BY <2>1, <2>5 DEF FinishDrop
  <2>6. CASE IdleUpstream(x)
    <3>1. state' = [state EXCEPT ![x] = "READING"]
      BY <2>6 DEF IdleUpstream, CountInv
    <3> QED
      BY <2>1, <2>6, <3>1 DEF IdleUpstream
  <2>7. CASE Connect(x)
    BY <2>2, <2>7 DEF Connect
  <2>8. CASE Retry(x)
    BY <2>2, <2>8 DEF Retry
  <2>9. CASE Reuse(x) \/ Accept(x) \/ Reject(x) \/ FinishKeep(x)
    <3>1. \A y \in Conns : state[y] = "FREE" => be[y] = Null
      BY DEF CountInv, BackendOfState
    <3> QED
      BY <1>2, <2>9, <3>1
         DEF Reuse, Accept, Reject, FinishKeep, CountUntouched, CountInv, BackendOfState
  <2> QED
    BY <1>4, <2>3, <2>4, <2>5, <2>6, <2>7, <2>8, <2>9 DEF Step
<1> QED
  BY <1>3, <1>4 DEF Next

(***************************************************************************)
(* The count of a backend never exceeds the connections that are open to   *)
(* it: least_conn may favour a backend wrongly (ActiveIsLive is refuted by *)
(* TLC) but never shuns one for connections that are gone.                 *)
(***************************************************************************)
THEOREM CountSafe == Spec => []NeverOvercounted
<1>1. Init => BackendOfState
  BY DEF Init, BackendOfState
<1>2. Init => NeverOvercounted
  <2> SUFFICES ASSUME Init, NEW b \in Backends PROVE active[b] <= Cardinality(Live(b))
    BY DEF NeverOvercounted
  <2>1. IsFiniteSet(Live(b))
    BY ConnManagerAssumption, FS_Subset DEF Live
  <2>2. Cardinality(Live(b)) \in Nat /\ active[b] = 0
    BY <2>1, FS_CardinalityType DEF Init
  <2> QED
    BY <2>2
<1> QED
  BY <1>1, <1>2, ShapeInit, CountStep, PTL DEF Spec, CountInv
=============================================================================
