---------------------------- MODULE Worker_proof ----------------------------
(***************************************************************************)
(* For any number of descriptors and of clients, run_worker takes down     *)
(* what it set up in an order that breaks nothing, loses no descriptor and *)
(* leaves nothing undone of what its loop was told once.                    *)
(***************************************************************************)
EXTENDS Worker, FiniteSetTheorems, TLAPS

----------------------------------------------------------------------------
(* The order of the parts.                                                 *)

Core  == {"log", "router", "slot", "loop", "bufs"}
Full  == Core \cup {"conns", "listener", "health"}
Parts == Full \cup {"stats", "pipe"}

\* How far run_worker got says what it holds.
Stage ==
  /\ pc \in {"log", "router", "core", "conns", "listener", "health", "stats", "signals",
             "watch", "run", "loop", "close", "exit"}
  /\ pc = "log" => held = {}
  /\ pc = "router" => held = {"log"}
  /\ pc = "core" => held = {"log", "router"}
  /\ pc = "conns" => held = Core
  /\ pc = "listener" => held = Core \cup {"conns"}
  /\ pc = "health" => held = Core \cup {"conns", "listener"}
  /\ pc = "stats" => held = Full
  /\ pc = "signals" => held \in {Full, Full \cup {"stats"}}
  /\ pc \in {"watch", "run", "loop"} => held \in {Full \cup {"pipe"}, Full \cup {"stats", "pipe"}}

\* What was closed stays closed.
Undone ==
  /\ pc \notin {"close", "exit"} => k = 1
  /\ pc = "close" => k \in 1..9
  /\ pc = "exit" => k \in {1, 10}
  /\ \A n \in 1..9 : n < k => Teardown[n] \notin held
  /\ k = 1 /\ pc = "exit" => held \subseteq {"log"}

\* NeedsHeld, part by part.
Uses ==
  /\ "slot" \in held => "router" \in held
  /\ "conns" \in held => {"loop", "slot", "bufs", "log"} \subseteq held
  /\ "listener" \in held => {"conns", "loop"} \subseteq held
  /\ "health" \in held => {"router", "log"} \subseteq held
  /\ "stats" \in held => {"loop", "slot", "conns", "log"} \subseteq held
  /\ "pipe" \in held => "loop" \in held \/ pc = "close"

OrderInv == Stage /\ Undone /\ Uses /\ held \subseteq Parts

LEMMA UsesSuffice == OrderInv => NeedsHeld
<1> SUFFICES ASSUME OrderInv, NEW r \in held
             PROVE  Needs[r] \subseteq held \/ (r = "pipe" /\ pc = "close")
  BY DEF NeedsHeld
<1>1. r \in Parts
  BY DEF OrderInv
<1>2. CASE r \in {"log", "loop", "bufs", "router"}
  BY <1>2 DEF Needs
<1>3. CASE r = "slot"
  BY <1>3 DEF OrderInv, Uses, Needs
<1>4. CASE r = "conns"
  BY <1>4 DEF OrderInv, Uses, Needs
<1>5. CASE r = "listener"
  BY <1>5 DEF OrderInv, Uses, Needs
<1>6. CASE r = "health"
  BY <1>6 DEF OrderInv, Uses, Needs
<1>7. CASE r = "stats"
  BY <1>7 DEF OrderInv, Uses, Needs
<1>8. CASE r = "pipe"
  BY <1>8 DEF OrderInv, Uses, Needs
<1> QED
  BY <1>1, <1>2, <1>3, <1>4, <1>5, <1>6, <1>7, <1>8 DEF Parts, Full, Core

\* run_worker begins with nothing.
LEMMA InitOrder == Init => OrderInv
BY DEF Init, OrderInv, Stage, Undone, Uses, Teardown

\* The part that Close closes.
LEMMA TeardownIs ==
  /\ Teardown[1] = "stats" /\ Teardown[2] = "health" /\ Teardown[3] = "listener"
  /\ Teardown[4] = "conns" /\ Teardown[5] = "bufs" /\ Teardown[6] = "slot"
  /\ Teardown[7] = "loop" /\ Teardown[8] = "log" /\ Teardown[9] = "pipe"
BY DEF Teardown

(***************************************************************************)
(* Each step of run_worker keeps the order; the loop opens nothing.        *)
(***************************************************************************)
LEMMA StepOrder ==
  ASSUME OrderInv, [Next]_vars
  PROVE  OrderInv'
<1>1. CASE UNCHANGED <<pc, k, held>>
  BY <1>1 DEF OrderInv, Stage, Undone, Uses
<1>2. CASE OpenLog
  <2>1. /\ held = {} /\ k = 1 /\ k' = 1
        /\ \/ held' = {"log"} /\ pc' = "router"
           \/ held' = {} /\ pc' = "exit"
    BY <1>2 DEF OpenLog, Acquire, Setup, OrderInv, Stage, Undone
  <2> QED
    BY <2>1 DEF OrderInv, Stage, Undone, Uses, Parts, Full, Core
<1>3. CASE BuildRouter
  BY <1>3 DEF BuildRouter, Acquire, Setup, OrderInv, Stage, Undone, Uses, Parts, Full, Core
<1>4. CASE OpenCore
  BY <1>4 DEF OpenCore, Acquire, Setup, OrderInv, Stage, Undone, Uses, Parts, Full, Core
<1>5. CASE OpenConns
  BY <1>5 DEF OpenConns, Acquire, Setup, OrderInv, Stage, Undone, Uses, Parts, Full, Core
<1>6. CASE OpenListener
  BY <1>6 DEF OpenListener, Acquire, Setup, OrderInv, Stage, Undone, Uses, Parts, Full, Core
<1>7. CASE StartHealth
  BY <1>7 DEF StartHealth, Acquire, Setup, OrderInv, Stage, Undone, Uses, Parts, Full, Core
<1>8. CASE OpenStats
  BY <1>8 DEF OpenStats, Acquire, Setup, OrderInv, Stage, Undone, Uses, Parts, Full, Core
<1>9. CASE SetupSignals
  BY <1>9 DEF SetupSignals, Acquire, Setup, OrderInv, Stage, Undone, Uses, Parts, Full, Core
<1>10. CASE Leave
  BY <1>10 DEF Leave, InLoop, OrderInv, Stage, Undone, Uses
<1>11. CASE Close
  <2>1. /\ pc = "close" /\ k \in 1..9 /\ k' = k + 1 /\ pc' = IF k = 9 THEN "exit" ELSE pc
        /\ held' = held \ (IF Teardown[k] = "slot" /\ Teardown[k] \in held
                           THEN {Teardown[k], "router"} ELSE {Teardown[k]})
    BY <1>11 DEF Close, OrderInv, Undone
  <2>2. Stage' /\ held' \subseteq Parts
    BY <2>1 DEF OrderInv, Stage
  <2>3. Undone'
    <3>1. \A n \in 1..9 : n < k' => Teardown[n] \notin held'
      BY <2>1 DEF OrderInv, Undone
    <3> QED
      BY <2>1, <3>1 DEF Undone
  <2>4. Uses'
    <3>1. \A n \in 1..9 : n <= k => Teardown[n] \notin held'
      BY <2>1 DEF OrderInv, Undone
    <3>2. k = 1 \/ k = 2 \/ k = 3 \/ k = 4 \/ k = 5 \/ k = 6 \/ k = 7 \/ k = 8 \/ k = 9
      BY <2>1
    <3> QED
      BY <2>1, <3>1, <3>2, TeardownIs DEF OrderInv, Uses
  <2> QED
    BY <2>2, <2>3, <2>4 DEF OrderInv
<1>12. CASE Wait \/ Dispatch \/ Handlers \/ ConnEnds
  <2>1. UNCHANGED <<pc, k, held>>
    BY <1>12 DEF Wait, Dispatch, Handlers, ConnEnds, Accept, AcceptStops, Refuse, Snapshot, AddClient,
         AddFails, QueriesStop, WriteSome, WriteWaits, WriteEnds, client_close, ReadSignal, SignalsRead
  <2> QED
    BY <1>1, <2>1
<1>13. CASE \/ \E s \in {"listener", "stats"} : Connect(s)
            \/ \E c \in ClientFds : ClientReads(c) \/ ClientGone(c)
            \/ \E s \in {"HUP", "TERM"} : Signal(s)
  BY <1>1, <1>13 DEF Connect, ClientReads, ClientGone, Signal
<1>14. CASE WatchSignals \/ EnterLoop
  BY <1>14 DEF WatchSignals, EnterLoop, OrderInv, Stage, Undone, Uses
<1> QED
  BY <1>1, <1>2, <1>3, <1>4, <1>5, <1>6, <1>7, <1>8, <1>9, <1>10, <1>11, <1>12, <1>13, <1>14
     DEF Next, Process, Start, Loop, vars

(***************************************************************************)
(* No part is closed before one that uses it (run_worker, after done).     *)
(***************************************************************************)
THEOREM OrderSafe == Spec => []NeedsHeld
BY InitOrder, StepOrder, UsesSuffice, PTL DEF Spec

----------------------------------------------------------------------------
(* The count of descriptors.                                               *)

ClientType == [open : BOOLEAN, off : 0..BODY, room : 0..BODY, gone : BOOLEAN]

Types ==
  /\ client \in [ClientFds -> ClientType]
  /\ free \in Int /\ conns \in Int /\ limit \in Int

\* A handler runs only for something that is open, and statistics clients
\* are there only while their socket is.
Hands ==
  /\ pc # "loop" => handler = Nobody
  /\ handler.fn \in {"client", "add"} => handler.fd \in Open
  /\ handler.fn = "stats" \/ handler.nested => "stats" \in held
  /\ Open # {} => "stats" \in held

\* The descriptors of a set of parts.
Cost(S) == (IF "pipe" \in S THEN 2 ELSE 0) + Cardinality({r \in S : Fds(r) = 1})

Counted == free + Cost(held) + conns + Cardinality(Open) = limit

FdInv == OrderInv /\ Types /\ Hands /\ Counted

\* One more of the parts that have one descriptor each.
LEMMA OneMore ==
  ASSUME NEW S, NEW T, IsFiniteSet(T), NEW r, r \notin T
  PROVE  /\ IsFiniteSet(IF r \in S THEN T \cup {r} ELSE T)
         /\ Cardinality(IF r \in S THEN T \cup {r} ELSE T)
              = Cardinality(T) + (IF r \in S THEN 1 ELSE 0)
<1>1. Cardinality(T) \in Nat
  BY FS_CardinalityType
<1> QED
  BY <1>1, FS_AddElement

\* The cost of a set of parts is the sum of theirs.
LEMMA CostIsSum ==
  ASSUME NEW S \in SUBSET Parts
  PROVE  /\ Cost(S) \in Nat
         /\ Cost(S) = (IF "pipe" \in S THEN 2 ELSE 0) + (IF "log" \in S THEN 1 ELSE 0)
                        + (IF "loop" \in S THEN 1 ELSE 0) + (IF "listener" \in S THEN 1 ELSE 0)
                        + (IF "stats" \in S THEN 1 ELSE 0)
<1> DEFINE A == IF "log" \in S THEN {} \cup {"log"} ELSE {}
           B == IF "loop" \in S THEN A \cup {"loop"} ELSE A
           C == IF "listener" \in S THEN B \cup {"listener"} ELSE B
           D == IF "stats" \in S THEN C \cup {"stats"} ELSE C
<1>1. IsFiniteSet(A) /\ Cardinality(A) = (IF "log" \in S THEN 1 ELSE 0)
  <2>1. IsFiniteSet({}) /\ Cardinality({}) = 0 /\ "log" \notin {}
    BY FS_EmptySet
  <2> QED
    BY <2>1, OneMore
<1>2. IsFiniteSet(B) /\ Cardinality(B) = Cardinality(A) + (IF "loop" \in S THEN 1 ELSE 0)
  <2>1. "loop" \notin A
    OBVIOUS
  <2> QED
    BY <1>1, <2>1, OneMore
<1>3. IsFiniteSet(C) /\ Cardinality(C) = Cardinality(B) + (IF "listener" \in S THEN 1 ELSE 0)
  <2>1. "listener" \notin B
    OBVIOUS
  <2> HIDE DEF B
  <2> QED
    BY <1>2, <2>1, OneMore
<1>4. IsFiniteSet(D) /\ Cardinality(D) = Cardinality(C) + (IF "stats" \in S THEN 1 ELSE 0)
  <2>1. "stats" \notin C
    OBVIOUS
  <2> HIDE DEF C
  <2> QED
    BY <1>3, <2>1, OneMore
<1>5. {r \in S : Fds(r) = 1} = D
  BY DEF Fds, Parts, Full, Core
<1> HIDE DEF A, B, C, D
<1> QED
  BY <1>1, <1>2, <1>3, <1>4, <1>5 DEF Cost

\* Parts are finitely many.
LEMMA CostParts ==
  ASSUME NEW S \in SUBSET Parts
  PROVE  Cardinality({r \in S : Fds(r) = 1}) \in Nat
<1> DEFINE T == {r \in S : Fds(r) = 1}
       A == {} \cup {"log"}
       B == A \cup {"loop"}
       C == B \cup {"listener"}
       D == C \cup {"stats"}
<1>1. T \in SUBSET D
  BY DEF Fds, Parts, Full, Core
<1>2. IsFiniteSet(A)
  BY FS_EmptySet, FS_AddElement
<1> HIDE DEF A
<1>3. IsFiniteSet(B)
  BY <1>2, FS_AddElement
<1> HIDE DEF B
<1>4. IsFiniteSet(C)
  BY <1>3, FS_AddElement
<1> HIDE DEF C
<1>5. IsFiniteSet(D)
  BY <1>4, FS_AddElement
<1> HIDE DEF D, T
<1>6. IsFiniteSet(T)
  BY <1>1, <1>5, FS_Subset
<1> QED
  BY <1>6, FS_CardinalityType DEF T

\* A client that is gone, or never came, and one that has just been accepted.
LEMMA ClosedTyped ==
  /\ Closed \in ClientType /\ Closed.open = FALSE
  /\ \A room \in 1..BODY :
       /\ [Closed EXCEPT !.open = TRUE, !.room = room] \in ClientType
       /\ [Closed EXCEPT !.open = TRUE, !.room = room].open = TRUE
<1>1. Closed \in ClientType /\ Closed.open = FALSE
  BY WorkerAssumption DEF Closed, ClientType
<1>2. ASSUME NEW room \in 1..BODY, NEW x \in ClientType
      PROVE  /\ [x EXCEPT !.open = TRUE, !.room = room] \in ClientType
             /\ [x EXCEPT !.open = TRUE, !.room = room].open = TRUE
  <2>1. room \in 0..BODY
    BY WorkerAssumption
  <2> QED
    BY <2>1 DEF ClientType
<1> QED
  BY <1>1, <1>2

\* What is opened is added to the cost of what there was.
LEMMA CostAdds ==
  ASSUME NEW S \in SUBSET Parts, NEW T \in SUBSET Parts, S \cap T = {}
  PROVE  Cost(S \cup T) = Cost(S) + Cost(T)
<1>1. S \cup T \in SUBSET Parts
  OBVIOUS
<1> QED
  BY <1>1, CostIsSum

\* Clients of the statistics socket: they are finitely many.
LEMMA OpenFinite ==
  ASSUME NEW S \in SUBSET ClientFds
  PROVE  /\ IsFiniteSet(S) /\ Cardinality(S) \in Nat
         /\ \A c \in ClientFds \ S : Cardinality(S \cup {c}) = Cardinality(S) + 1
         /\ \A c \in S : Cardinality(S \ {c}) = Cardinality(S) - 1
<1>1. IsFiniteSet(ClientFds)
  BY WorkerAssumption, FS_Interval DEF ClientFds
<1>2. IsFiniteSet(S) /\ Cardinality(S) \in Nat
  BY <1>1, FS_Subset, FS_CardinalityType
<1> QED
  BY <1>2, FS_AddElement, FS_RemoveElement

LEMMA InitFds == Init => FdInv
<1> SUFFICES ASSUME Init PROVE FdInv
  OBVIOUS
<1>1. OrderInv
  BY InitOrder
<1>2. Types
  <2>1. Closed \in ClientType
    BY ClosedTyped
  <2>2. limit \in Int
    BY WorkerAssumption DEF Init
  <2> QED
    BY <2>1, <2>2 DEF Init, Types
<1>3. Open = {} /\ Hands
  BY DEF Init, Hands, Open, Closed, Nobody
<1>4. Cost({}) = 0
  BY CostIsSum
<1>5. free = limit /\ limit \in Int /\ conns = 0 /\ held = {}
  BY <1>2 DEF Init, Types
<1> QED
  BY <1>1, <1>2, <1>3, <1>4, <1>5, FS_EmptySet DEF FdInv, Counted

\* A part of run_worker that is opened takes what it costs; nothing else moves.
LEMMA AcquireCounts ==
  ASSUME FdInv, OrderInv', NEW parts \in SUBSET Parts, held \cap parts = {}, Acquire(parts),
         pc # "loop", UNCHANGED <<limit, conns, handler, client>>
  PROVE  FdInv'
<1>1. /\ held' = held \cup parts /\ free' = free - Cost(parts)
      /\ held \in SUBSET Parts
  BY DEF Acquire, Cost, FdInv, OrderInv
<1>2. Cost(held') = Cost(held) + Cost(parts) /\ Cost(held) \in Int /\ Cost(parts) \in Int
  BY <1>1, CostAdds, CostIsSum
<1>3. Types'
  BY <1>1, <1>2 DEF FdInv, Types
<1>4. Hands' /\ Open' = Open
  BY <1>1 DEF FdInv, Hands, Open, Nobody
<1>5. Cardinality(Open) \in Int
  BY OpenFinite DEF Open
<1>6. Counted'
  BY <1>1, <1>2, <1>4, <1>5 DEF FdInv, Types, Counted
<1> QED
  BY <1>3, <1>4, <1>6 DEF FdInv

\* A descriptor that a connection gives or takes.
LEMMA CountKept ==
  ASSUME Counted, Types, held \in SUBSET Parts, held' = held, limit' = limit, Open' = Open,
         free' \in Int, conns' \in Int, free' + conns' = free + conns
  PROVE  Counted'
<1>1. Cost(held) \in Int
  BY CostIsSum
<1>2. Cardinality(Open) \in Int
  BY OpenFinite DEF Open
<1> DEFINE h == Cost(held)
           o == Cardinality(Open)
<1>3. h \in Int /\ o \in Int /\ free + h + conns + o = limit
  BY <1>1, <1>2 DEF Counted
<1>4. Counted' <=> free' + h + conns' + o = limit
  BY DEF Counted
<1> HIDE DEF h, o
<1>5. free' + h + conns' + o = limit
  <2>1. PICK f \in Int : f = free'
    OBVIOUS
  <2>2. PICK c \in Int : c = conns'
    OBVIOUS
  <2>3. f + c = free + conns /\ free \in Int /\ conns \in Int
    BY <2>1, <2>2 DEF Types
  <2>4. f + h + c + o = limit
    BY <1>3, <2>3
  <2> QED
    BY <2>1, <2>2, <2>4
<1> QED
  BY <1>4, <1>5

\* A handler, or a client, that moves no descriptor of a statistics client.
LEMMA LoopCounts ==
  ASSUME FdInv, OrderInv', pc = "loop", UNCHANGED <<pc, held, limit>>,
         client' \in [ClientFds -> ClientType],
         Open' = Open, free' \in Int, conns' \in Int, free' + conns' = free + conns,
         \/ UNCHANGED handler
         \/ handler' = Nobody
         \/ handler.nested /\ handler' = Call("stats", 0, FALSE)
  PROVE  FdInv'
<1>1. Types'
  BY DEF FdInv, Types
<1>2. Hands'
  BY DEF FdInv, Hands, Nobody, Call
<1>3. Counted'
  BY CountKept DEF FdInv, OrderInv
<1> QED
  BY <1>1, <1>2, <1>3 DEF FdInv

(***************************************************************************)
(* Before the loop: a call that fails has taken nothing.                    *)
(***************************************************************************)
LEMMA StartCounts ==
  ASSUME FdInv, OrderInv', Start
  PROVE  FdInv'
<1>1. CASE WatchSignals \/ EnterLoop
  <2>1. UNCHANGED <<held, limit, free, conns, handler, client>> /\ handler = Nobody
    BY <1>1 DEF WatchSignals, EnterLoop, loopvars, world, FdInv, Hands
  <2>2. Types' /\ Hands' /\ Counted'
    BY <2>1 DEF FdInv, Types, Hands, Counted, Cost, Open
  <2> QED
    BY <2>2 DEF FdInv
<1>2. ASSUME NEW parts \in SUBSET Parts, held \cap parts = {}, Acquire(parts), Setup, pc # "loop"
      PROVE  FdInv'
  BY <1>2, AcquireCounts DEF Setup, loopvars, world
<1> USE DEF FdInv, OrderInv, Stage, Parts, Full, Core
<1>3. CASE OpenLog
  BY <1>2, <1>3 DEF OpenLog
<1>4. CASE BuildRouter
  BY <1>2, <1>4 DEF BuildRouter
<1>5. CASE OpenCore
  BY <1>2, <1>5 DEF OpenCore
<1>6. CASE OpenConns
  BY <1>2, <1>6 DEF OpenConns
<1>7. CASE OpenListener
  BY <1>2, <1>7 DEF OpenListener
<1>8. CASE StartHealth
  BY <1>2, <1>8 DEF StartHealth
<1>9. CASE OpenStats
  BY <1>2, <1>9 DEF OpenStats
<1>10. CASE SetupSignals
  BY <1>2, <1>10 DEF SetupSignals
<1> QED
  BY <1>1, <1>3, <1>4, <1>5, <1>6, <1>7, <1>8, <1>9, <1>10 DEF Start

(***************************************************************************)
(* After done: what a part has is free again.                              *)
(***************************************************************************)
LEMMA CloseCounts ==
  ASSUME FdInv, OrderInv', Close
  PROVE  FdInv'
<1> DEFINE r == Teardown[k]
           lost == IF r = "slot" /\ r \in held THEN {r, "router"} ELSE {r}
<1>1. /\ pc = "close" /\ pc' # "loop" /\ k \in 1..9 /\ UNCHANGED <<limit, conns, handler>>
      /\ held' = held \ lost
      /\ free' = free + (IF r \in held THEN Fds(r) + GoWith(r) ELSE 0)
      /\ client' = IF r = "stats" THEN [c \in ClientFds |-> Closed] ELSE client
  BY DEF Close, loopvars, FdInv, OrderInv, Undone
<1>2. r \in {"stats", "health", "listener", "conns", "bufs", "slot", "loop", "log", "pipe"}
  <2>1. k = 1 \/ k = 2 \/ k = 3 \/ k = 4 \/ k = 5 \/ k = 6 \/ k = 7 \/ k = 8 \/ k = 9
    BY <1>1
  <2> QED
    BY <2>1, TeardownIs
<1> HIDE DEF r
<1>3. held \in SUBSET Parts /\ held' \in SUBSET Parts
  BY <1>1 DEF FdInv, OrderInv
<1>4. Cardinality(Open) \in Int /\ (Open = {} => Cardinality(Open) = 0)
  BY OpenFinite, FS_EmptySet DEF Open
<1>5. Open' = IF r = "stats" THEN {} ELSE Open
  BY <1>1 DEF Open, Closed
<1>6. Cost(held) = Cost(held') + (IF r \in held THEN Fds(r) ELSE 0) /\ Cost(held') \in Int
  <2>1. Cost(held) \in Int /\ Cost(held') \in Int
    BY <1>3, CostIsSum
  <2>2. CASE r \notin held
    <3>1. held' = held
      BY <1>1, <2>2
    <3> QED
      BY <2>1, <2>2, <3>1
  <2>3. CASE r \in held
    BY <1>1, <1>2, <1>3, <2>3, CostIsSum DEF Fds
  <2> QED
    BY <2>1, <2>2, <2>3
<1>7. Cardinality(Open') = Cardinality(Open) - (IF r \in held THEN GoWith(r) ELSE 0)
  BY <1>4, <1>5, FS_EmptySet DEF GoWith, FdInv, Hands
<1>8. Fds(r) \in Int /\ GoWith(r) \in Int /\ free \in Int /\ conns \in Int /\ limit \in Int
  BY <1>4 DEF Fds, GoWith, FdInv, Types
<1>9. Types'
  <2>1. Closed \in ClientType
    BY ClosedTyped
  <2>2. client' \in [ClientFds -> ClientType]
    BY <1>1, <2>1 DEF FdInv, Types
  <2> QED
    BY <1>1, <1>8, <2>2 DEF Types
<1>10. Hands'
  BY <1>1, <1>5 DEF FdInv, Hands, Nobody
<1>11. Counted'
  BY <1>1, <1>4, <1>6, <1>7, <1>8 DEF FdInv, Counted
<1> QED
  BY <1>9, <1>10, <1>11 DEF FdInv

(***************************************************************************)
(* The loop, its handlers and the world.                                    *)
(***************************************************************************)
LEMMA TurnCounts ==
  ASSUME FdInv, OrderInv',
         \/ Loop \/ Handlers \/ ConnEnds
         \/ \E s \in {"listener", "stats"} : Connect(s)
         \/ \E c \in ClientFds : ClientReads(c) \/ ClientGone(c)
         \/ \E s \in {"HUP", "TERM"} : Signal(s)
  PROVE  FdInv'
<1> DEFINE Clients == [ClientFds -> ClientType]
<1> USE WorkerAssumption
<1>1. /\ client \in Clients /\ free \in Int /\ conns \in Int /\ limit \in Int
      /\ Open \in SUBSET ClientFds /\ (Running("client") \/ Running("add") => handler.fd \in Open)
      /\ held \in SUBSET Parts
  BY DEF FdInv, OrderInv, Types, Hands, Open, Running
<1>2. ASSUME UNCHANGED client PROVE Open' = Open
  BY <1>2 DEF Open
<1>3. CASE Wait \/ \E s \in {"listener", "stats"} : Connect(s)
  <2>1. pc = "loop" /\ UNCHANGED <<pc, held, limit, free, conns, handler, client>>
    BY <1>3 DEF Wait, InLoop, Connect, world, loopvars
  <2> QED
    BY <1>1, <1>2, <2>1, LoopCounts
<1>4. CASE Dispatch
  <2>1. /\ pc = "loop" /\ UNCHANGED <<pc, held, limit, free, conns, client>>
        /\ \/ UNCHANGED handler
           \/ \E e \in batch : Watched(e) /\ handler' = Call(e[1], e[2], FALSE)
    BY <1>4 DEF Dispatch, InLoop, world
  <2>2. CASE UNCHANGED handler
    BY <1>1, <1>2, <2>1, <2>2, LoopCounts
  <2>3. CASE \E e \in batch : Watched(e) /\ handler' = Call(e[1], e[2], FALSE)
    <3>1. "add" \notin held
      BY <1>1 DEF Parts, Full, Core
    <3>3. Hands' /\ Open' = Open
      BY <1>2, <2>1, <2>3, <3>1 DEF Watched, Call, FdInv, Hands
    <3>2. Types' /\ Counted'
      BY <2>1, <3>3 DEF FdInv, Types, Counted, Cost
    <3> QED
      BY <3>2, <3>3 DEF FdInv
  <2> QED
    BY <2>1, <2>2, <2>3
<1>5. CASE Leave
  <2>1. /\ handler = Nobody /\ UNCHANGED <<held, limit, free, conns, client, handler>>
    BY <1>5 DEF Leave, InLoop, world
  <2>2. Types' /\ Hands' /\ Open' = Open
    BY <1>2, <2>1 DEF FdInv, Types, Hands, Nobody
  <2>3. Counted'
    BY <2>1, <2>2 DEF FdInv, Counted, Cost
  <2> QED
    BY <2>2, <2>3 DEF FdInv
<1>6. CASE Accept
  <2>1. /\ pc = "loop" /\ UNCHANGED <<pc, held, limit, handler, client>>
        /\ free' \in Int /\ conns' \in Int /\ free' + conns' = free + conns
    BY <1>1, <1>6 DEF Accept, Running, loopvars
  <2> QED
    BY <1>1, <1>2, <2>1, LoopCounts
<1>7. CASE ConnEnds
  <2>1. /\ pc = "loop" /\ UNCHANGED <<pc, held, limit, handler, client>>
        /\ free' \in Int /\ conns' \in Int /\ free' + conns' = free + conns
    BY <1>1, <1>7 DEF ConnEnds, InLoop, loopvars, world
  <2> QED
    BY <1>1, <1>2, <2>1, LoopCounts
<1>8. CASE AcceptStops \/ QueriesStop \/ WriteWaits \/ SignalsRead
  <2>1. /\ pc = "loop" /\ Return /\ UNCHANGED <<pc, held, limit, free, conns, client>>
    BY <1>8 DEF AcceptStops, QueriesStop, WriteWaits, SignalsRead, Running, world
  <2>2. CASE handler.nested
    <3>1. handler' = Call("stats", 0, FALSE)
      BY <2>1, <2>2 DEF Return
    <3> QED
      BY <1>1, <1>2, <2>1, <2>2, <3>1, LoopCounts
  <2>3. CASE ~handler.nested
    <3>1. handler' = Nobody
      BY <2>1, <2>3 DEF Return
    <3> QED
      BY <1>1, <1>2, <2>1, <3>1, LoopCounts
  <2> QED
    BY <2>2, <2>3
<1>9. CASE Refuse \/ ReadSignal
  <2>1. /\ pc = "loop" /\ UNCHANGED <<pc, held, limit, free, conns, client, handler>>
    BY <1>9 DEF Refuse, ReadSignal, Waiting, Running, loopvars
  <2> QED
    BY <1>1, <1>2, <2>1, LoopCounts
<1>10. CASE Snapshot
  <2>1. PICK c \in ClientFds \ Open, room \in 1..BODY :
          /\ client' = [client EXCEPT ![c] = [Closed EXCEPT !.open = TRUE, !.room = room]]
          /\ handler' = Call("add", c, TRUE)
    BY <1>10 DEF Snapshot
  <2>2. /\ pc = "loop" /\ "stats" \in held /\ free' = free - 1
        /\ UNCHANGED <<pc, held, limit, conns>>
    BY <1>10 DEF Snapshot, Waiting, Running, FdInv, Hands
  <2>3. Open' = Open \cup {c}
    BY <1>1, <2>1, ClosedTyped DEF Open
  <2>4. client' \in Clients
    BY <1>1, <2>1, ClosedTyped
  <2>5. Types'
    BY <1>1, <2>2, <2>4 DEF Types
  <2>6. Hands'
    BY <2>1, <2>2, <2>3 DEF Hands, Call
  <2>7. Cardinality(Open') = Cardinality(Open) + 1 /\ Cardinality(Open) \in Int
    BY <1>1, <2>1, <2>3, OpenFinite
  <2>8. Cost(held) \in Int
    BY <1>1, CostIsSum
  <2>9. Counted'
    BY <1>1, <2>2, <2>7, <2>8 DEF FdInv, Counted
  <2> QED
    BY <2>5, <2>6, <2>9 DEF FdInv
<1>11. CASE WriteSome
  <2>1. /\ pc = "loop" /\ UNCHANGED <<pc, held, limit, free, conns, handler>>
        /\ handler.fd \in Open /\ Me.off < BODY
        /\ client' = [client EXCEPT ![handler.fd].off = @ + Fit, ![handler.fd].room = @ - Fit]
    BY <1>1, <1>11 DEF WriteSome, Running, loopvars
  <2>2. Me.off + Fit \in 0..BODY /\ Me.room - Fit \in 0..BODY
    BY <1>1, <2>1 DEF Me, Fit, ClientType
  <2>3. client' = [client EXCEPT ![handler.fd] = [client[handler.fd] EXCEPT !.off = Me.off + Fit, !.room = Me.room - Fit]]
    BY <1>1, <2>1 DEF Me
  <2>4. client' \in Clients /\ Open' = Open
    <3>1. client[handler.fd] \in ClientType /\ handler.fd \in ClientFds
      BY <1>1, <2>1
    <3> DEFINE new == [client[handler.fd] EXCEPT !.off = Me.off + Fit, !.room = Me.room - Fit]
    <3>2. new \in ClientType /\ new.open = client[handler.fd].open
      BY <2>2, <3>1 DEF ClientType
    <3> HIDE DEF new
    <3>3. client' = [client EXCEPT ![handler.fd] = new]
      BY <2>3 DEF new
    <3> QED
      BY <1>1, <3>1, <3>2, <3>3 DEF Open
  <2> QED
    BY <1>1, <2>1, <2>4, LoopCounts
<1>12. CASE WriteEnds \/ AddFails
  <2>1. /\ pc = "loop" /\ UNCHANGED <<pc, held, limit, conns>>
        /\ handler.fd \in Open /\ free' = free + 1 /\ Return
        /\ client' = [client EXCEPT ![handler.fd] = Closed]
    BY <1>1, <1>12 DEF WriteEnds, AddFails, client_close, Running
  <2>2. Open' = Open \ {handler.fd} /\ client' \in Clients
    BY <1>1, <2>1, ClosedTyped DEF Open
  <2>3. Types'
    BY <1>1, <2>1, <2>2 DEF Types
  <2>4. Hands'
    BY <2>1, <2>2 DEF FdInv, Hands, Return, Nobody, Call
  <2>5. Cardinality(Open') = Cardinality(Open) - 1 /\ Cardinality(Open) \in Int
    BY <1>1, <2>1, <2>2, OpenFinite
  <2>6. Cost(held) \in Int
    BY <1>1, CostIsSum
  <2>7. Counted'
    BY <1>1, <2>1, <2>5, <2>6 DEF FdInv, Counted
  <2> QED
    BY <2>3, <2>4, <2>7 DEF FdInv
<1>13. CASE \E c \in ClientFds : ClientReads(c) \/ ClientGone(c)
  <2>1. PICK c \in ClientFds :
          \/ client' = [client EXCEPT ![c].room = BODY]
          \/ client' = [client EXCEPT ![c].gone = TRUE]
    BY <1>13 DEF ClientReads, ClientGone
  <2>2. /\ pc = "loop" /\ UNCHANGED <<pc, held, limit, free, conns, handler>>
    BY <1>13 DEF ClientReads, ClientGone, loopvars
  <2>3. client[c] \in ClientType
    BY <1>1
  <2>4. /\ [client[c] EXCEPT !.room = BODY] \in ClientType
        /\ [client[c] EXCEPT !.room = BODY].open = client[c].open
    BY <2>3 DEF ClientType
  <2>5. /\ [client[c] EXCEPT !.gone = TRUE] \in ClientType
        /\ [client[c] EXCEPT !.gone = TRUE].open = client[c].open
    BY <2>3 DEF ClientType
  <2>6. client' \in Clients /\ Open' = Open
    <3>1. CASE client' = [client EXCEPT ![c] = [client[c] EXCEPT !.room = BODY]]
      BY <1>1, <2>4, <3>1 DEF Open
    <3>2. CASE client' = [client EXCEPT ![c] = [client[c] EXCEPT !.gone = TRUE]]
      BY <1>1, <2>5, <3>2 DEF Open
    <3> QED
      BY <2>1, <3>1, <3>2
  <2> QED
    BY <1>1, <2>2, <2>6, LoopCounts
<1>14. CASE AddClient
  <2>1. /\ pc = "loop" /\ UNCHANGED <<pc, held, limit, free, conns, client>>
        /\ handler.fn = "add" /\ handler' = Call("client", handler.fd, TRUE)
    BY <1>14 DEF AddClient, Running, world
  <2>2. Hands'
    BY <1>1, <1>2, <2>1 DEF FdInv, Hands, Call, Running
  <2> QED
    BY <1>2, <2>1, <2>2 DEF FdInv, Types, Counted, Cost
<1>15. CASE \E s \in {"HUP", "TERM"} : Signal(s)
  <2>1. UNCHANGED <<pc, held, limit, free, conns, client, handler>>
    BY <1>15 DEF Signal, loopvars
  <2> QED
    BY <1>2, <2>1 DEF FdInv, Types, Hands, Counted, Cost
<1> QED
  BY <1>3, <1>4, <1>5, <1>6, <1>7, <1>8, <1>9, <1>10, <1>11, <1>12, <1>13, <1>14, <1>15
     DEF Loop, Handlers

LEMMA StepFds ==
  ASSUME FdInv, [Next]_vars
  PROVE  FdInv'
<1>1. OrderInv'
  BY StepOrder DEF FdInv
<1>2. CASE UNCHANGED vars
  <2>1. Types' /\ Hands' /\ Counted'
    BY <1>2 DEF FdInv, vars, loopvars, world, Types, Hands, Counted, Cost, Open
  <2> QED
    BY <1>1, <2>1 DEF FdInv
<1>3. CASE Start
  BY <1>1, <1>3, StartCounts
<1>4. CASE Close
  BY <1>1, <1>4, CloseCounts
<1>5. CASE \/ Loop \/ Handlers \/ ConnEnds
           \/ \E s \in {"listener", "stats"} : Connect(s)
           \/ \E c \in ClientFds : ClientReads(c) \/ ClientGone(c)
           \/ \E s \in {"HUP", "TERM"} : Signal(s)
  BY <1>1, <1>5, TurnCounts
<1> QED
  BY <1>2, <1>3, <1>4, <1>5 DEF Next, Process

\* Whoever leaves by way of done has closed everything.
LEMMA InvExact == FdInv => FdExact
<1> SUFFICES ASSUME FdInv PROVE FdExact
  OBVIOUS
<1>1. /\ held \in SUBSET Parts /\ Cost(held) \in Int /\ Cardinality(Open) \in Int
      /\ free \in Int /\ conns \in Int /\ limit \in Int
  BY CostIsSum, OpenFinite DEF FdInv, OrderInv, Types, Open
<1>2. free + Cost(held) + conns + Cardinality(Open) = limit
  BY DEF FdInv, Counted
<1>3. /\ (IF "pipe" \in held THEN 2 ELSE 0) \in Int
      /\ Cardinality({r \in held : Fds(r) = 1}) = Cost(held) - (IF "pipe" \in held THEN 2 ELSE 0)
  <2>1. Cardinality({r \in held : Fds(r) = 1}) \in Int
    BY <1>1, CostParts
  <2> QED
    BY <2>1 DEF Cost
<1>4. ASSUME pc = "exit", k > 1
      PROVE  free + conns = limit /\ held \subseteq {"router"}
  <2>1. \A n \in 1..9 : Teardown[n] \notin held
    BY <1>4 DEF FdInv, OrderInv, Undone
  <2>2. held \subseteq {"router"}
    BY <1>1, <2>1, TeardownIs DEF Parts, Full, Core
  <2>3. Open = {} /\ Cost(held) = 0
    BY <1>1, <2>2, CostIsSum DEF FdInv, Hands
  <2> QED
    BY <1>1, <1>2, <2>2, <2>3, FS_EmptySet
<1> QED
  BY <1>1, <1>2, <1>3, <1>4 DEF FdExact

(***************************************************************************)
(* For any number of descriptors, clients and signals, and wherever a call *)
(* fails: every descriptor that is not free belongs to something that is   *)
(* open, and run_worker leaves none behind by way of done.                  *)
(***************************************************************************)
THEOREM FdSafe == Spec => []FdExact
BY InitFds, StepFds, InvExact, PTL DEF Spec

----------------------------------------------------------------------------
(* What waits for a handler.                                               *)

\* Whoever came waits in a socket that is open, has a descriptor or is gone.
Crowd ==
  /\ backlog \in [listener : Nat, stats : Nat]
  /\ came \in [listener : Nat, stats : Nat, hup : Nat] /\ conns \in Nat
  /\ conns + Cardinality(Open) + backlog.listener + backlog.stats <= came.listener + came.stats
  /\ came.listener + came.stats <= Visits
  /\ backlog.stats > 0 => "stats" \in held
  /\ pc \notin {"loop", "close", "exit"} =>
       Open = {} /\ backlog.listener = 0 /\ backlog.stats = 0

WakeInv == FdInv /\ Crowd /\ NothingMissed

LEMMA InitWake == Init => Crowd /\ NothingMissed
<1> SUFFICES ASSUME Init PROVE Crowd /\ NothingMissed
  OBVIOUS
<1>1. Open = {} /\ Cardinality(Open) = 0
  BY FS_EmptySet DEF Init, Open, Closed
<1> QED
  BY <1>1, WorkerAssumption DEF Init, Crowd, NothingMissed

\* With descriptors for all there is one for each who waits.
LEMMA RoomForAll ==
  ASSUME FdInv, Crowd, Ample, backlog.listener > 0 \/ backlog.stats > 0
  PROVE  free > 0
<1> DEFINE cost == Cost(held)
           open == Cardinality(Open)
<1>1. cost \in Nat /\ cost <= 6
  BY CostIsSum DEF FdInv, OrderInv
<1>2. open \in Nat
  BY OpenFinite DEF Open
<1>3. free + cost + conns + open = limit
  BY DEF FdInv, Counted
<1>4. /\ conns + open + backlog.listener + backlog.stats <= came.listener + came.stats
      /\ came.listener + came.stats <= Visits
  BY DEF Crowd
<1> HIDE DEF cost, open
<1> QED
  BY <1>1, <1>2, <1>3, <1>4, WorkerAssumption DEF Crowd, Ample, FdInv, Types

\* Nobody comes but by Connect, and nobody waits any more who was let in.
LEMMA StepCrowd ==
  ASSUME FdInv, FdInv', Crowd, [Next]_vars
  PROVE  Crowd'
<1> DEFINE open == Cardinality(Open)
<1>1. /\ open \in Nat /\ open' \in Nat /\ (Open' = Open => open' = open) /\ (Open' = {} => open' = 0)
  BY OpenFinite, FS_EmptySet DEF Open
<1>2. ASSUME UNCHANGED client PROVE Open' = Open
  BY <1>2 DEF Open
<1> HIDE DEF open
<1>3. CASE UNCHANGED vars
  BY <1>1, <1>2, <1>3 DEF vars, world, Crowd, open
<1>4. CASE Start
  <2>1. UNCHANGED <<conns, backlog, came, client>>
    BY <1>4 DEF Start, OpenLog, BuildRouter, OpenCore, OpenConns, OpenListener, StartHealth,
       OpenStats, SetupSignals, WatchSignals, EnterLoop, Setup, world
  <2>2. pc \notin {"loop", "close", "exit"}
    BY <1>4 DEF Start, OpenLog, BuildRouter, OpenCore, OpenConns, OpenListener, StartHealth,
       OpenStats, SetupSignals, WatchSignals, EnterLoop
  <2> QED
    BY <1>1, <1>2, <2>1, <2>2 DEF Crowd, open
<1>5. CASE Close
  <2>1. /\ pc = "close" /\ pc' \in {"close", "exit"} /\ UNCHANGED <<conns, came>>
        /\ client' = client \/ client' = [c \in ClientFds |-> Closed]
    BY <1>5 DEF Close
  <2>2. Open' = Open \/ Open' = {}
    BY <2>1 DEF Open, Closed
  <2>3. /\ backlog' \in [listener : Nat, stats : Nat]
        /\ backlog'.listener <= backlog.listener /\ backlog'.stats <= backlog.stats
        /\ backlog'.stats > 0 => "stats" \in held'
    BY <1>5 DEF Close, Crowd
  <2> QED
    BY <1>1, <2>1, <2>2, <2>3 DEF Crowd, open
<1>6. CASE Loop \/ AcceptStops \/ QueriesStop \/ WriteWaits \/ AddClient \/ ReadSignal \/ SignalsRead
  <2>1. UNCHANGED <<held, conns, backlog, came, client>> /\ pc = "loop" /\ pc' \in {"loop", "close"}
    BY <1>6 DEF Loop, Wait, Dispatch, Leave, InLoop, AcceptStops, QueriesStop, WriteWaits, AddClient,
       ReadSignal, SignalsRead, Running, world
  <2> QED
    BY <1>1, <1>2, <2>1 DEF Crowd, open
<1>7. CASE Accept \/ Refuse \/ ConnEnds
  <2>1. /\ UNCHANGED <<pc, held, came, client>> /\ pc = "loop" /\ conns' \in Nat
        /\ backlog' \in [listener : Nat, stats : Nat] /\ backlog'.stats <= backlog.stats
        /\ conns' + backlog'.listener + backlog'.stats <= conns + backlog.listener + backlog.stats
    BY <1>7 DEF Accept, Refuse, ConnEnds, InLoop, Running, Waiting, Taken, Crowd, loopvars, world
  <2> QED
    BY <1>1, <1>2, <2>1 DEF Crowd, open
<1>8. CASE Snapshot
  <2>1. PICK c \in ClientFds \ Open, room \in 1..BODY :
          client' = [client EXCEPT ![c] = [Closed EXCEPT !.open = TRUE, !.room = room]]
    BY <1>8 DEF Snapshot
  <2>2. Open' = Open \cup {c}
    BY <2>1, ClosedTyped DEF Open, FdInv, Types
  <2>3. open' = open + 1
    BY <2>2, OpenFinite DEF Open, open
  <2>4. /\ UNCHANGED <<pc, held, came, conns>> /\ pc = "loop"
        /\ backlog' = [backlog EXCEPT !.stats = @ - 1] /\ backlog.stats > 0
    BY <1>8 DEF Snapshot, Running, Waiting, Taken
  <2> QED
    BY <1>1, <2>3, <2>4 DEF Crowd, open
<1>9. CASE WriteSome \/ WriteEnds \/ AddFails \/ \E c \in ClientFds : ClientReads(c) \/ ClientGone(c)
  <2>1. /\ UNCHANGED <<pc, held, came, conns, backlog>> /\ pc = "loop"
    BY <1>9 DEF WriteSome, WriteEnds, AddFails, client_close, ClientReads, ClientGone, Running, loopvars
  <2>2. Open' \subseteq Open
    <3>1. \/ client' = [client EXCEPT ![handler.fd].off = @ + Fit, ![handler.fd].room = @ - Fit]
          \/ client' = [client EXCEPT ![handler.fd] = Closed]
          \/ \E c \in ClientFds : \/ client' = [client EXCEPT ![c].room = BODY]
                                  \/ client' = [client EXCEPT ![c].gone = TRUE]
      BY <1>9 DEF WriteSome, WriteEnds, AddFails, client_close, ClientReads, ClientGone
    <3>2. client \in [ClientFds -> ClientType]
      BY DEF FdInv, Types
    <3>3. \A c \in ClientFds : client'[c].open => client[c].open
      <4>1. CASE client' = [client EXCEPT ![handler.fd].off = @ + Fit, ![handler.fd].room = @ - Fit]
        BY <3>2, <4>1 DEF ClientType
      <4>2. CASE client' = [client EXCEPT ![handler.fd] = Closed]
        <5>1. Closed.open = FALSE
          BY ClosedTyped
        <5> QED
          BY <3>2, <4>2, <5>1
      <4>3. ASSUME NEW c \in ClientFds,
                   \/ client' = [client EXCEPT ![c].room = BODY]
                   \/ client' = [client EXCEPT ![c].gone = TRUE]
            PROVE  \A d \in ClientFds : client'[d].open => client[d].open
        BY <3>2, <4>3 DEF ClientType
      <4> QED
        BY <3>1, <4>1, <4>2, <4>3
    <3> QED
      BY <3>3 DEF Open
  <2>3. open' <= open
    BY <2>2, OpenFinite, FS_Subset DEF Open, open
  <2> QED
    BY <1>1, <2>1, <2>3 DEF Crowd, open
<1>10. CASE \E s \in {"listener", "stats"} : Connect(s)
  <2>1. PICK s \in {"listener", "stats"} :
          /\ UNCHANGED <<pc, held, conns, client>> /\ pc = "loop" /\ s \in held
          /\ came.listener + came.stats < Visits
          /\ backlog' = [backlog EXCEPT ![s] = @ + 1] /\ came' = [came EXCEPT ![s] = @ + 1]
    BY <1>10 DEF Connect
  <2>2. CASE s = "listener"
    BY <1>1, <1>2, <2>1, <2>2, WorkerAssumption DEF Crowd, open
  <2>3. CASE s = "stats"
    BY <1>1, <1>2, <2>1, <2>3, WorkerAssumption DEF Crowd, open
  <2> QED
    BY <2>2, <2>3
<1>11. CASE \E s \in {"HUP", "TERM"} : Signal(s)
  <2>1. /\ UNCHANGED <<pc, held, conns, client, backlog>>
        /\ came' = came \/ came' = [came EXCEPT !.hup = @ + 1]
    BY <1>11 DEF Signal, Sent
  <2> QED
    BY <1>1, <1>2, <2>1 DEF Crowd, open
<1> QED
  BY <1>3, <1>4, <1>5, <1>6, <1>7, <1>8, <1>9, <1>10, <1>11
     DEF Next, Process, Handlers

\* The descriptors that may have something to do.
Places == {Event("pipe", 0), Event("listener", 0), Event("stats", 0)}
            \cup {Event("client", c) : c \in ClientFds}

LEMMA PlacesAre ==
  ASSUME NEW e \in Places
  PROVE  \E fn, fd :
           /\ e = Event(fn, fd) /\ e[1] = fn /\ e[2] = fd
           /\ fn \in {"pipe", "listener", "stats", "client"}
           /\ fn = "client" => fd \in ClientFds
           /\ fn # "client" => fd = 0
<1>1. PICK fn, fd : /\ e = Event(fn, fd) /\ fn \in {"pipe", "listener", "stats", "client"}
                    /\ fn = "client" => fd \in ClientFds
                    /\ fn # "client" => fd = 0
  BY DEF Places
<1> QED
  BY <1>1 DEF Event

\* The events are told apart by what they are of.
LEMMA EventsApart ==
  ASSUME NEW fn, NEW fd, NEW gn, NEW gd, Event(fn, fd) = Event(gn, gd)
  PROVE  fn = gn /\ fd = gd
BY DEF Event

(***************************************************************************)
(* No step leaves a descriptor with something to do and nobody to do it:   *)
(* what comes brings its event, and a handler returns when nothing is left.*)
(***************************************************************************)
LEMMA StepMissed ==
  ASSUME WakeInv, FdInv', [Next]_vars
  PROVE  NothingMissed'
<1> SUFFICES ASSUME pc' \in {"run", "loop"}, NEW e \in Places, Due(e[1], e[2])'
             PROVE  Attended(e[1], e[2])'
  BY DEF NothingMissed, Places
<1>1. PICK fn, fd : /\ e = Event(fn, fd) /\ e[1] = fn /\ e[2] = fd
                    /\ fn \in {"pipe", "listener", "stats", "client"}
                    /\ fn = "client" => fd \in ClientFds
                    /\ fn # "client" => fd = 0
  BY PlacesAre
<1>2. SUFFICES ASSUME Due(fn, fd)' PROVE Attended(fn, fd)'
  BY <1>1
<1>3. ASSUME pc \in {"run", "loop"}, Due(fn, fd) PROVE Attended(fn, fd)
  BY <1>1, <1>3 DEF WakeInv, NothingMissed, Places
<1>4. client \in [ClientFds -> ClientType] /\ Closed.open = FALSE
  BY ClosedTyped DEF WakeInv, FdInv, Types
<1>5. /\ Call("add", fd, TRUE).fn = "add" /\ Call("add", fd, TRUE).fd = fd
      /\ Call("add", fd, TRUE).nested = TRUE /\ Nobody.fn = "none" /\ Nobody.nested = FALSE
  BY DEF Call, Nobody
<1>6. CASE UNCHANGED <<pc, handler, ready, batch, pipe, backlog, client, limit>>
  <2>1. Due(fn, fd)
    BY <1>2, <1>6 DEF Due, Ample, Open
  <2> QED
    BY <1>3, <1>6, <2>1 DEF Attended
<1>7. CASE WatchSignals \/ EnterLoop
  <2>1. CASE WatchSignals
    <3>1. /\ pc = "watch" /\ UNCHANGED <<limit, pipe, backlog, client>>
          /\ pipe # <<>> => Event("pipe", 0) \in ready'
      BY <2>1 DEF WatchSignals, world
    <3>2. Open = {} /\ backlog["listener"] = 0 /\ backlog["stats"] = 0
      BY <3>1 DEF WakeInv, Crowd
    <3>3. fn = "pipe" /\ pipe # <<>>
      BY <1>1, <1>2, <3>1, <3>2 DEF Due, Ample, Open
    <3> QED
      BY <1>1, <3>1, <3>3 DEF Attended
  <2>2. CASE EnterLoop
    BY <1>2, <1>3, <2>2 DEF EnterLoop, Due, Attended, Ample, Open, world
  <2> QED
    BY <1>7, <2>1, <2>2
<1>8. CASE Wait
  BY <1>2, <1>3, <1>8 DEF Wait, InLoop, Due, Attended, Ample, Open, world
<1>9. CASE Dispatch
  <2>1. PICK d \in batch : /\ batch' = batch \ {d}
                           /\ handler' = IF Watched(d) THEN Call(d[1], d[2], FALSE) ELSE handler
    BY <1>9 DEF Dispatch
  <2>2. UNCHANGED <<pc, held, limit, ready, backlog, pipe, client>> /\ pc = "loop" /\ handler = Nobody
    BY <1>9 DEF Dispatch, InLoop, world
  <2>3. Due(fn, fd)
    BY <1>2, <2>2 DEF Due, Ample, Open
  <2>4. e \in ready \cup batch
    BY <1>1, <1>3, <1>5, <2>2, <2>3 DEF Attended
  <2>5. ASSUME d = e PROVE Watched(d)
    <3>1. CASE fn = "client"
      BY <1>1, <2>3, <2>5, <3>1 DEF Watched, Due
    <3>2. CASE fn # "client"
      <4>1. {"pipe", "listener"} \subseteq held
        BY <2>2 DEF WakeInv, FdInv, OrderInv, Stage, Full
      <4>2. fn = "stats" => "stats" \in held
        BY <2>3 DEF Due, WakeInv, Crowd
      <4> QED
        BY <1>1, <2>5, <3>2, <4>1, <4>2 DEF Watched
    <3> QED
      BY <3>1, <3>2
  <2>6. CASE d = e
    BY <1>1, <2>1, <2>5, <2>6 DEF Attended, Call
  <2>7. CASE d # e
    BY <1>1, <2>1, <2>2, <2>4, <2>7 DEF Attended
  <2> QED
    BY <2>6, <2>7
<1>10. ASSUME Attended(fn, fd), Return, UNCHANGED batch,
              Event(fn, fd) \in ready => Event(fn, fd) \in ready',
              ~(handler.fn = fn /\ handler.fd = fd),
              ~(fn = "client" /\ handler = Call("add", fd, TRUE))
       PROVE  Attended(fn, fd)'
  <2>1. CASE Event(fn, fd) \in ready \cup batch
    BY <1>10, <2>1 DEF Attended
  <2>2. CASE fn = "stats" /\ handler.nested
    BY <1>1, <1>10, <2>2 DEF Return, Call, Attended
  <2> QED
    BY <1>10, <2>1, <2>2 DEF Attended
<1>11. CASE AcceptStops \/ QueriesStop \/ WriteWaits \/ SignalsRead
  <2>1. /\ pc = "loop" /\ Return /\ UNCHANGED <<limit, ready, batch, backlog, pipe, client>>
        /\ handler.fn \in {"listener", "stats", "client", "pipe"}
    BY <1>11 DEF AcceptStops, QueriesStop, WriteWaits, SignalsRead, Running, world
  <2>2. Due(fn, fd)
    BY <1>2, <2>1 DEF Due, Ample, Open
  <2>3. ASSUME handler.fn = fn, handler.fd = fd PROVE FALSE
    <3>1. CASE AcceptStops \/ QueriesStop
      <4>1. fn \in {"listener", "stats"} /\ (backlog[fn] = 0 \/ free = 0)
        BY <2>3, <3>1 DEF AcceptStops, QueriesStop, Running
      <4>2. Ample /\ backlog[fn] > 0
        BY <2>2, <4>1 DEF Due
      <4>3. free > 0
        BY <4>1, <4>2, RoomForAll DEF WakeInv
      <4> QED
        BY <4>1, <4>2, <4>3
    <3>2. CASE WriteWaits
      BY <2>2, <2>3, <3>2, WorkerAssumption DEF WriteWaits, Running, Due, Me
    <3>3. CASE SignalsRead
      BY <2>2, <2>3, <3>3 DEF SignalsRead, Running, Due
    <3> QED
      BY <1>11, <3>1, <3>2, <3>3
  <2>4. ~(fn = "client" /\ handler = Call("add", fd, TRUE))
    BY <1>5, <2>1
  <2> QED
    BY <1>3, <1>10, <2>1, <2>2, <2>3, <2>4
<1>12. CASE Accept \/ Refuse
  <2>1. /\ pc = "loop" /\ UNCHANGED <<limit, ready, batch, handler, pipe, client>>
        /\ \/ backlog' = [backlog EXCEPT !.listener = @ - 1]
           \/ backlog' = [backlog EXCEPT !.stats = @ - 1]
    BY <1>12 DEF Accept, Refuse, Waiting, Taken, Running, loopvars
  <2>2. Due(fn, fd)
    BY <1>2, <2>1 DEF Due, Ample, Open, WakeInv, Crowd
  <2> QED
    BY <1>3, <2>1, <2>2 DEF Attended
<1>13. CASE Snapshot
  <2>1. PICK c \in ClientFds \ Open, room \in 1..BODY :
          /\ client' = [client EXCEPT ![c] = [Closed EXCEPT !.open = TRUE, !.room = room]]
          /\ handler' = Call("add", c, TRUE)
    BY <1>13 DEF Snapshot
  <2>2. /\ pc = "loop" /\ handler.fn = "stats" /\ UNCHANGED <<limit, ready, batch, pipe>>
        /\ backlog' = [backlog EXCEPT !.stats = @ - 1]
    BY <1>13 DEF Snapshot, Waiting, Running, Taken
  <2>3. CASE fn = "stats" \/ (fn = "client" /\ fd = c)
    BY <2>1, <2>3 DEF Attended, Call
  <2>4. CASE ~(fn = "stats" \/ (fn = "client" /\ fd = c))
    <3>1. Due(fn, fd)
      BY <1>1, <1>2, <1>4, <2>1, <2>2, <2>4 DEF Due, Ample, Open, WakeInv, Crowd
    <3>2. handler.fn # fn /\ handler # Call("add", fd, TRUE)
      BY <1>5, <2>2, <2>4
    <3> QED
      BY <1>3, <2>2, <2>4, <3>1, <3>2 DEF Attended
  <2> QED
    BY <2>3, <2>4
<1>14. CASE AddClient
  <2>1. /\ pc = "loop" /\ handler.fn = "add" /\ handler' = Call("client", handler.fd, TRUE)
        /\ ready \subseteq ready' /\ UNCHANGED <<limit, batch, backlog, pipe, client>>
    BY <1>14 DEF AddClient, Running, world
  <2>2. Due(fn, fd)
    BY <1>2, <2>1 DEF Due, Ample, Open
  <2>3. handler = Call("add", fd, TRUE) => handler.fd = fd
    BY <1>5
  <2> QED
    BY <1>1, <1>3, <2>1, <2>2, <2>3 DEF Attended, Call
<1>15. CASE WriteEnds \/ AddFails
  <2>1. /\ pc = "loop" /\ handler.fn \in {"client", "add"} /\ Return
        /\ client' = [client EXCEPT ![handler.fd] = Closed]
        /\ ready' = ready \ {Event("client", handler.fd)}
        /\ UNCHANGED <<limit, batch, backlog, pipe>>
    BY <1>15 DEF WriteEnds, AddFails, client_close, Running
  <2>2. ~(fn = "client" /\ fd = handler.fd)
    BY <1>1, <1>2, <1>4, <2>1 DEF Due, Open
  <2>3. Due(fn, fd)
    BY <1>1, <1>2, <1>4, <2>1, <2>2 DEF Due, Ample, Open
  <2>4. Event(fn, fd) \in ready => Event(fn, fd) \in ready'
    BY <2>1, <2>2, EventsApart
  <2>5. /\ ~(handler.fn = fn /\ handler.fd = fd)
        /\ ~(fn = "client" /\ handler = Call("add", fd, TRUE))
    BY <1>1, <1>5, <2>1, <2>2
  <2> QED
    BY <1>3, <1>10, <2>1, <2>3, <2>4, <2>5
<1>16. CASE WriteSome
  <2>1. /\ pc = "loop" /\ handler.fn = "client"
        /\ client' = [client EXCEPT ![handler.fd].off = @ + Fit, ![handler.fd].room = @ - Fit]
        /\ UNCHANGED <<limit, handler, ready, batch, backlog, pipe>>
    BY <1>16 DEF WriteSome, Running, loopvars
  <2>2. CASE fn = "client" /\ fd = handler.fd
    BY <2>1, <2>2 DEF Attended
  <2>3. CASE ~(fn = "client" /\ fd = handler.fd)
    <3>1. Due(fn, fd)
      BY <1>1, <1>2, <1>4, <2>1, <2>3 DEF Due, Ample, Open
    <3> QED
      BY <1>3, <2>1, <3>1 DEF Attended
  <2> QED
    BY <2>2, <2>3
<1>17. CASE ReadSignal
  <2>1. /\ pc = "loop" /\ handler.fn = "pipe" /\ UNCHANGED <<limit, handler, ready, batch, backlog, client>>
    BY <1>17 DEF ReadSignal, Running
  <2>2. CASE fn = "pipe"
    <3>1. pipe # <<>>
      BY <1>17 DEF ReadSignal
    <3>2. Due(fn, fd)
      BY <2>2, <3>1 DEF Due
    <3> QED
      BY <1>3, <2>1, <3>2 DEF Attended
  <2>3. CASE fn # "pipe"
    <3>1. Due(fn, fd)
      BY <1>2, <2>1, <2>3 DEF Due, Ample, Open
    <3> QED
      BY <1>3, <2>1, <3>1 DEF Attended
  <2> QED
    BY <2>2, <2>3
<1>18. CASE \E s \in {"listener", "stats"} : Connect(s)
  <2>1. PICK s \in {"listener", "stats"} :
          /\ pc = "loop" /\ backlog' = [backlog EXCEPT ![s] = @ + 1]
          /\ ready' = ready \cup {Event(s, 0)}
          /\ UNCHANGED <<limit, handler, batch, pipe, client>>
    BY <1>18 DEF Connect, loopvars
  <2>2. CASE fn = s
    BY <1>1, <2>1, <2>2 DEF Attended
  <2>3. CASE fn # s
    <3>1. Due(fn, fd)
      BY <1>2, <2>1, <2>3 DEF Due, Ample, Open, WakeInv, Crowd
    <3> QED
      BY <1>3, <2>1, <3>1 DEF Attended
  <2> QED
    BY <2>2, <2>3
<1>19. CASE \E c \in ClientFds : ClientReads(c) \/ ClientGone(c)
  <2>1. PICK c \in ClientFds :
          /\ pc = "loop" /\ UNCHANGED <<limit, handler, batch, backlog, pipe>> /\ c \in Open
          /\ \/ client' = [client EXCEPT ![c].room = BODY]
             \/ client' = [client EXCEPT ![c].gone = TRUE]
          /\ ready' = Wake(c) \/ (client[c].room # 0 /\ ready' = ready)
    BY <1>19 DEF ClientReads, ClientGone, loopvars, Open
  <2>2. ready \subseteq ready'
    BY <2>1 DEF Wake
  <2>3. CASE fn = "client" /\ fd = c /\ ready' = Wake(c)
    BY <2>1, <2>3 DEF Wake, Attended
  <2>4. CASE fn = "client" /\ fd = c /\ client[c].room # 0
    <3>1. Due(fn, fd)
      BY <1>4, <2>1, <2>4, WorkerAssumption DEF Due, ClientType
    <3> QED
      BY <1>3, <2>1, <2>2, <3>1 DEF Attended
  <2>5. CASE ~(fn = "client" /\ fd = c)
    <3>1. Due(fn, fd)
      BY <1>1, <1>2, <1>4, <2>1, <2>5 DEF Due, Ample, Open
    <3> QED
      BY <1>3, <2>1, <2>2, <3>1 DEF Attended
  <2> QED
    BY <2>1, <2>3, <2>4, <2>5
<1>20. CASE \E s \in {"HUP", "TERM"} : Signal(s)
  <2>1. PICK s : Signal(s)
    BY <1>20
  <2>2. /\ pc \in {"run", "loop"} /\ UNCHANGED <<pc, limit, handler, batch, backlog, client>>
        /\ ready \subseteq ready'
        /\ pipe' = pipe \/ Event("pipe", 0) \in ready'
    BY <2>1 DEF Signal, loopvars
  <2>3. CASE fn = "pipe" /\ Event("pipe", 0) \in ready'
    BY <1>1, <2>3 DEF Attended
  <2>4. CASE ~(fn = "pipe" /\ Event("pipe", 0) \in ready')
    <3>1. Due(fn, fd)
      BY <1>2, <2>2, <2>4 DEF Due, Ample, Open
    <3> QED
      BY <1>3, <2>2, <3>1 DEF Attended
  <2> QED
    BY <2>3, <2>4
<1>21. CASE UNCHANGED vars \/ ConnEnds
  <2>1. UNCHANGED <<pc, handler, ready, batch, pipe, backlog, client, limit>>
    BY <1>21 DEF vars, ConnEnds, loopvars, world
  <2> QED
    BY <1>6, <2>1
<1>22. CASE \/ Close \/ Leave \/ OpenLog \/ BuildRouter \/ OpenCore \/ OpenConns \/ OpenListener
            \/ StartHealth \/ OpenStats \/ SetupSignals
  <2>1. pc' \notin {"run", "loop"}
    BY <1>22 DEF Close, Leave, OpenLog, BuildRouter, OpenCore, OpenConns, OpenListener,
       StartHealth, OpenStats, SetupSignals
  <2> QED
    BY <2>1
<1> QED
  BY <1>7, <1>8, <1>9, <1>11, <1>12, <1>13, <1>14, <1>15, <1>16, <1>17, <1>18, <1>19, <1>20, <1>21,
     <1>22 DEF Next, Process, Start, Loop, Handlers

(***************************************************************************)
(* For any number of descriptors, clients and signals: whatever a handler  *)
(* could do has its event still to come, or its handler at it; readiness   *)
(* that is told only once is never used up with something left undone.     *)
(***************************************************************************)
THEOREM WakeupsKept == Spec => []NothingMissed
<1>1. Init => WakeInv
  BY InitFds, InitWake DEF WakeInv
<1>2. WakeInv /\ [Next]_vars => WakeInv'
  BY StepFds, StepCrowd, StepMissed DEF WakeInv
<1>3. WakeInv => NothingMissed
  BY DEF WakeInv
<1> QED
  BY <1>1, <1>2, <1>3, PTL DEF Spec
=============================================================================
