----------------------------- MODULE RouterRcu -----------------------------
(***************************************************************************)
(* The life of a router (router.c): built from a configuration it owns,    *)
(* published in the slot, held by every connection that was accepted under *)
(* it and by the thread of the health probes (health.c), replaced by a     *)
(* reload (main.c), and freed by whoever drops the last reference.  Two    *)
(* threads: the event loop, whose handlers are sequential, and the probes. *)
(***************************************************************************)
EXTENDS Naturals, FiniteSets

CONSTANTS
  Routers,    \* bound: the routers a worker may build, one after the other
  Conns,      \* the connections of the worker
  Null,
  NoMemory    \* router_build and health_start may fail

ASSUME RouterRcuAssumption ==
  /\ IsFiniteSet(Conns) /\ Null \notin Routers
  /\ NoMemory \in BOOLEAN

VARIABLES
  life,     \* of each router: "none", "live", "freed"
  refs,     \* its refcount
  given,    \* how many times its configuration was freed
  slot,     \* what router_slot points to
  conn,     \* the router each connection holds, Null when it is closed
  loop,     \* what the event loop is doing, and the routers in its hands
  hc,       \* current of struct health, and who has its lock
  probe,    \* what the thread of the probes is doing, and with which router;
            \* due: next_at has passed; last (ghost): the router it last probed
  running   \* of struct health

vars == <<life, refs, given, slot, conn, loop, hc, probe, running>>

\* refs and life after router_ref and router_unref.
Ref(r) == refs' = [refs EXCEPT ![r] = @ + 1] /\ UNCHANGED <<life, given>>
Unref(r) ==
  /\ refs' = [refs EXCEPT ![r] = @ - 1]
  /\ life' = [life EXCEPT ![r] = IF refs[r] = 1 THEN "freed" ELSE @]
  /\ given' = [given EXCEPT ![r] = IF refs[r] = 1 THEN @ + 1 ELSE @]

Loop(pc) == loop' = [loop EXCEPT !.pc = pc]
Fresh    == {r \in Routers : life[r] = "none"}

----------------------------------------------------------------------------
(* run_worker: the first router, its slot and the thread of the probes.    *)

Init ==
  \E first \in Routers :
    /\ life  = [r \in Routers |-> IF r = first THEN "live" ELSE "none"]
    /\ refs  = [r \in Routers |-> IF r = first THEN 1 ELSE 0]
    /\ given = [r \in Routers |-> 0]
    /\ slot  = first
    /\ conn  = [x \in Conns |-> Null]
    /\ loop  = [pc |-> "start", next |-> Null, old |-> Null]
    /\ hc    = [current |-> Null, lock |-> "free"]
    /\ probe = [pc |-> "none", r |-> Null, due |-> TRUE, last |-> Null]
    /\ running = FALSE

HealthStart ==
  /\ loop.pc = "start"
  /\ Ref(slot)
  /\ hc' = [hc EXCEPT !.current = slot]
  /\ probe' = [probe EXCEPT !.pc = "sleep"] /\ running' = TRUE
  /\ Loop("idle")
  /\ UNCHANGED <<slot, conn>>

\* No thread: its reference is dropped at once and the worker ends.
HealthFails ==
  /\ loop.pc = "start" /\ NoMemory
  /\ Loop("destroy")
  /\ UNCHANGED <<life, refs, given, slot, conn, hc, probe, running>>

----------------------------------------------------------------------------
(* Connections: conn_accepted and conn_close.  stats.c does both at once.  *)

\* router_slot_acquire; the slot is published by this same thread only.
Acquire(x) ==
  /\ loop.pc = "idle" /\ conn[x] = Null
  /\ conn' = [conn EXCEPT ![x] = slot]
  /\ Ref(slot)
  /\ UNCHANGED <<slot, loop, hc, probe, running>>

Drop(x) ==
  /\ loop.pc = "idle" /\ conn[x] # Null
  /\ conn' = [conn EXCEPT ![x] = Null]
  /\ Unref(conn[x])
  /\ UNCHANGED <<slot, loop, hc, probe, running>>

----------------------------------------------------------------------------
(* SIGHUP: reload_config.                                                  *)

\* A valid configuration, and a router built from it.
Build ==
  /\ loop.pc = "idle"
  /\ \E r \in Fresh :
       /\ life' = [life EXCEPT ![r] = "live"]
       /\ refs' = [refs EXCEPT ![r] = 1]
       /\ loop' = [loop EXCEPT !.pc = "publish", !.next = r]
  /\ UNCHANGED <<given, slot, conn, hc, probe, running>>

\* The router could not be built.  The caller frees the configuration; so does
\* router_build, unless not even the struct of the router could be allocated.
BuildFails ==
  /\ NoMemory /\ loop.pc = "idle"
  /\ \E r \in Fresh :
       /\ life' = [life EXCEPT ![r] = "freed"]
       /\ \E n \in {1, 2} : given' = [given EXCEPT ![r] = n]
  /\ UNCHANGED <<refs, slot, conn, loop, hc, probe, running>>

\* router_slot_publish: the exchange, and the reference of the slot.
Publish ==
  /\ loop.pc = "publish"
  /\ slot' = loop.next
  /\ loop' = [loop EXCEPT !.pc = "retire", !.old = slot]
  /\ UNCHANGED <<life, refs, given, conn, hc, probe, running>>

\* Mutant: the old router is left as it is.
RetireNot ==
  /\ loop.pc = "retire"
  /\ loop' = [loop EXCEPT !.pc = "ref", !.old = Null]
  /\ UNCHANGED <<life, refs, given, slot, conn, hc, probe, running>>

Retire ==
  /\ loop.pc = "retire"
  /\ Unref(loop.old)
  /\ loop' = [loop EXCEPT !.pc = "ref", !.old = Null]
  /\ UNCHANGED <<slot, conn, hc, probe, running>>

\* health_set_router: a reference, the exchange under the lock, and the old
\* reference goes.
RefNext ==
  /\ loop.pc = "ref"
  /\ Ref(loop.next)
  /\ Loop("swap")
  /\ UNCHANGED <<slot, conn, hc, probe, running>>

\* Mutant: the probes are left with the pools they had.
SwapNot ==
  /\ loop.pc = "swap" /\ hc.lock = "free"
  /\ loop' = [loop EXCEPT !.pc = "release", !.next = Null, !.old = loop.next]
  /\ UNCHANGED <<life, refs, given, slot, conn, hc, probe, running>>

Swap ==
  /\ loop.pc = "swap" /\ hc.lock = "free"
  /\ hc' = [hc EXCEPT !.current = loop.next]
  /\ loop' = [loop EXCEPT !.pc = "release", !.next = Null, !.old = hc.current]
  /\ UNCHANGED <<life, refs, given, slot, conn, probe, running>>

Release ==
  /\ loop.pc = "release"
  /\ Unref(loop.old)
  /\ loop' = [loop EXCEPT !.pc = "idle", !.old = Null]
  /\ UNCHANGED <<slot, conn, hc, probe, running>>

----------------------------------------------------------------------------
(* The thread of the probes.                                               *)

\* The clock reaches next_at.
Time ==
  /\ ~probe.due
  /\ probe' = [probe EXCEPT !.due = TRUE]
  /\ UNCHANGED <<life, refs, given, slot, conn, loop, hc, running>>

\* The condition of the loop, and the sleep, after which nothing is done before
\* its time.
Wake ==
  /\ probe.pc = "sleep" /\ (running => probe.due)
  /\ probe' = [probe EXCEPT !.pc = IF running THEN "lock" ELSE "done"]
  /\ UNCHANGED <<life, refs, given, slot, conn, loop, hc, running>>

\* Mutant: current is read and released without the lock.
ReadBare ==
  /\ probe.pc = "lock"
  /\ probe' = [probe EXCEPT !.pc = "ref", !.r = hc.current]
  /\ UNCHANGED <<life, refs, given, slot, conn, loop, hc, running>>

\* take_router: the pointer is read and referenced under the lock.
Read ==
  /\ probe.pc = "lock" /\ hc.lock = "free"
  /\ hc' = [hc EXCEPT !.lock = "probe"]
  /\ probe' = [probe EXCEPT !.pc = "ref", !.r = hc.current]
  /\ UNCHANGED <<life, refs, given, slot, conn, loop, running>>

TakeRef ==
  /\ probe.pc = "ref"
  /\ Ref(probe.r)
  /\ hc' = [hc EXCEPT !.lock = "free"]
  /\ probe' = [probe EXCEPT !.pc = "probing"]
  /\ UNCHANGED <<slot, conn, loop, running>>

\* Every backend of every pool was probed, which takes its time, and next_at is
\* the shortest interval away.
Probed ==
  /\ probe.pc = "probing"
  /\ Unref(probe.r)
  /\ probe' = [pc |-> "sleep", r |-> Null, due |-> FALSE, last |-> probe.r]
  /\ UNCHANGED <<slot, conn, loop, hc, running>>

Probe == Time \/ Wake \/ Read \/ TakeRef \/ Probed

----------------------------------------------------------------------------
(* SIGTERM: the end of run_worker.                                         *)

Stop ==
  /\ loop.pc = "idle"
  /\ Loop("join") /\ running' = FALSE
  /\ UNCHANGED <<life, refs, given, slot, conn, hc, probe>>

\* health_stop waits for the thread and drops its router.
HealthStop ==
  /\ loop.pc = "join" /\ probe.pc = "done"
  /\ Unref(hc.current)
  /\ hc' = [hc EXCEPT !.current = Null]
  /\ Loop("destroy")
  /\ UNCHANGED <<slot, conn, probe, running>>

\* conn_manager_destroy only frees the structs of closed connections, so what
\* the open ones hold stays; router_slot_destroy.
Destroy ==
  /\ loop.pc = "destroy"
  /\ Unref(slot)
  /\ slot' = Null
  /\ Loop("end")
  /\ UNCHANGED <<conn, hc, probe, running>>

----------------------------------------------------------------------------

Reload == Publish \/ Retire \/ RefNext \/ Swap \/ Release
Finish == HealthStop \/ Destroy

Next ==
  \/ HealthStart \/ HealthFails
  \/ \E x \in Conns : Acquire(x) \/ Drop(x)
  \/ Build \/ BuildFails \/ Reload
  \/ Probe
  \/ Stop \/ Finish

Spec == Init /\ [][Next]_vars

\* A handler runs to its end, the probes have their timeouts, and the mutex
\* lets in whoever keeps asking for it.
FairSpec == Spec /\ WF_vars(Reload) /\ SF_vars(Swap) /\ WF_vars(Probe) /\ WF_vars(Finish)

----------------------------------------------------------------------------
(* Properties.                                                             *)

\* A thread or a connection that has a router in its hands.
Uses(r) ==
  \/ slot = r \/ hc.current = r \/ loop.next = r \/ loop.old = r
  \/ probe.r = r \/ \E x \in Conns : conn[x] = r

TypeOK ==
  /\ life \in [Routers -> {"none", "live", "freed"}]
  /\ refs \in [Routers -> Nat]
  /\ given \in [Routers -> 0..2]
  /\ slot \in Routers \cup {Null}
  /\ conn \in [Conns -> Routers \cup {Null}]
  /\ loop \in [pc : {"start", "idle", "publish", "retire", "ref", "swap", "release",
                     "join", "destroy", "end"},
               next : Routers \cup {Null}, old : Routers \cup {Null}]
  /\ hc \in [current : Routers \cup {Null}, lock : {"free", "probe"}]
  /\ probe \in [pc : {"none", "sleep", "lock", "ref", "probing", "done"},
                r : Routers \cup {Null}, due : BOOLEAN, last : Routers \cup {Null}]
  /\ running \in BOOLEAN

\* Nobody is left with a router that was freed: neither a connection that was
\* accepted before a reload, nor the probes in the middle of a cycle.
NoUseAfterFree == \A r \in Routers : Uses(r) => life[r] = "live"

One(b) == IF b THEN 1 ELSE 0

\* The refcount is the number of references there are, those that a thread is
\* about to drop included.
RefsExact ==
  \A r \in Routers :
    refs[r] = One(slot = r) + One(hc.current = r)
            + One(loop.pc = "publish" /\ loop.next = r)
            + One(loop.pc = "swap" /\ loop.next = r)
            + One(loop.old = r)
            + One(probe.pc = "probing" /\ probe.r = r)
            + Cardinality({x \in Conns : conn[x] = r})

\* A configuration is freed once, with its router.
FreedOnce == \A r \in Routers : given[r] <= 1

\* A router that was replaced is freed, or some connection still holds it.
OldGoes ==
  \A r \in Routers :
    loop.pc = "retire" /\ loop.old = r ~> (life[r] = "freed" \/ \E x \in Conns : conn[x] = r)

\* After a reload the probes go to the new pools.
ProbesFollow ==
  \A r \in Routers :
    loop.pc = "swap" /\ loop.next = r ~> (slot # r \/ ~running \/ (probe.pc = "probing" /\ probe.r = r))

\* A reload starts the wait for the next probe over: the pools are others
\* (worker of health.c).
FreshIsDue ==
  probe.pc = "sleep" /\ hc.current \notin {Null, probe.last} => probe.due

\* When the worker ends, no router is left but those of the connections that
\* were open (health_stop, router_slot_destroy).
AllReleased ==
  loop.pc = "end" => \A r \in Routers : life[r] = "live" => \E x \in Conns : conn[x] = r

\* Not even those: "suelta la última referencia del router" (main.c).
NothingLeft == loop.pc = "end" => \A r \in Routers : life[r] # "live"
=============================================================================
