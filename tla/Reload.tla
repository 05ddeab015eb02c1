------------------------------- MODULE Reload -------------------------------
(***************************************************************************)
(* The life of the configuration in a worker (main.c, run_worker and       *)
(* reload_config): the first file that is loaded opens the listeners, and  *)
(* each SIGHUP loads the file again and publishes its tables if the        *)
(* listeners that are open can go on serving them.                          *)
(***************************************************************************)
EXTENDS Config, Routes

CONSTANTS
  Cpus,      \* what sysconf says
  Balances,  \* net_reuseport_balances
  MinSlots, MaxSlots,  \* MIN_SLOTS_PER_WORKER, MAX_SLOTS_PER_WORKER
  Hosts,     \* hosts that requests ask for: [labels, ok]
  MaxLoads   \* bound: times that the file is loaded

ASSUME ReloadAssumption ==
  /\ Cpus \in Nat \ {0} /\ Balances \in BOOLEAN /\ MaxLoads \in Nat
  /\ MinSlots \in Nat /\ MaxSlots \in Nat /\ MinSlots <= MaxSlots
  /\ \A h \in Hosts : Hash[router_normalize_host(h)] \in Nat

VARIABLES
  listeners,  \* the ports they are bound to, in order; <<>> before there are any
  workers,    \* decide_workers
  slots,      \* slots_for
  tables,     \* of the published router: a table for each frontend
  backends,   \* of the published router: its pools
  live,       \* ghost: the file that the published router comes from
  loads       \* how many times the file was loaded

worker == <<listeners, workers, slots, tables, backends, live, loads>>
vars == <<parse, worker>>

Init ==
  /\ ParseInit
  /\ listeners = <<>> /\ workers = 0 /\ slots = 0 /\ tables = <<>> /\ backends = <<>>
  /\ live = loading /\ loads = 0

Idle == pc \in {"idle", "rejected"} /\ loads < MaxLoads

\* The file has been written, or written again, and it is loaded: by main at
\* the start, by reload_config when a SIGHUP comes.
Load ==
  /\ Idle /\ (loads > 0 => listeners # <<>>)
  /\ \E f \in Files : config_load(f)
  /\ loads' = loads + 1
  /\ UNCHANGED <<listeners, workers, slots, tables, backends, live>>

Step == Parse /\ UNCHANGED worker

decide_workers(c) ==
  LET w == IF c.workers <= 0 THEN Cpus ELSE c.workers IN IF w > 1 /\ ~Balances THEN 1 ELSE w

\* max_conns is made unsigned: what is negative as an int is beyond MaxSlots.
slots_for(max_conns, w) ==
  LET want == IF max_conns < 0 THEN MaxSlots ELSE 2 * (max_conns \div w)
  IN IF want < MinSlots THEN MinSlots ELSE IF want > MaxSlots THEN MaxSlots ELSE want

Publish ==
  /\ tables' = [j \in DOMAIN cfg.frontends |-> table_build(cfg.frontends[j].routes)]
  /\ backends' = cfg.backends /\ live' = loading

Start ==
  /\ pc = "loaded" /\ listeners = <<>>
  /\ LET w == decide_workers(cfg)
     IN workers' = w /\ slots' = slots_for(cfg.max_conns, w)
  /\ listeners' = [j \in DOMAIN cfg.frontends |-> cfg.frontends[j].listen.port]
  /\ Publish /\ pc' = "idle"
  /\ UNCHANGED <<loading, n, cfg, loads>>

\* Mutant: only the number of frontends is compared.
SameCount == Len(cfg.frontends) = Len(listeners)

\* The frontends of the new configuration, one by one, against the listeners.
SameListeners ==
  /\ Len(cfg.frontends) = Len(listeners)
  /\ \A j \in DOMAIN listeners : cfg.frontends[j].listen.port = listeners[j]

\* reload_config: the new router is published, or, if it cannot be built, not.
Replace ==
  /\ pc = "loaded" /\ listeners # <<>> /\ SameListeners
  /\ Publish \/ UNCHANGED <<tables, backends, live>>
  /\ pc' = "idle"
  /\ UNCHANGED <<loading, n, cfg, listeners, workers, slots, loads>>

RejectReload ==
  /\ pc = "loaded" /\ listeners # <<>> /\ ~SameListeners
  /\ pc' = "rejected"
  /\ UNCHANGED <<loading, n, cfg, worker>>

Next == Load \/ Step \/ Start \/ Replace \/ RejectReload

Spec == Init /\ [][Next]_vars

----------------------------------------------------------------------------
(* Properties.                                                             *)

Up == listeners # <<>>

\* What each listener serves is what the file says of the frontend with its
\* port: whatever the reloads did, the table at its index is that frontend's.
ServesItsFrontend ==
  Up => /\ Len(tables) = Len(listeners) /\ Len(live.frontends) = Len(listeners)
        /\ \A j \in DOMAIN listeners : live.frontends[j].listen.port = listeners[j]

\* The names of the backends that a lookup finds: one or none.
Found(table, h) ==
  LET p == router_lookup(table, h) IN IF p = NoPool THEN {} ELSE {backends[p].name}

\* For every listener and host, the lookup finds the backend that the live
\* file names: the order of its routes, the chains of the buckets and the
\* index that stands for the name make no difference.
LookupRight ==
  Up => \A j \in DOMAIN listeners : \A h \in Hosts :
          Found(tables[j], h) = Answer(live.frontends[j].routes, h)

\* Also with a file of numbers that do not fit an int, a pool is probed at an
\* interval that outlasts the probe, and a worker gets slots within the limits.
NumbersFit ==
  /\ \A j \in DOMAIN backends :
       backends[j].health.timeout > 0 /\ backends[j].health.timeout < backends[j].health.interval
  /\ Up => workers >= 1 /\ slots \in MinSlots..MaxSlots

\* The router changes as a whole, and only for a file that was loaded whole
\* just before; a file that is rejected leaves everything as it was.
AllOrNothing ==
  [][live' # live \/ tables' # tables \/ backends' # backends =>
       pc = "loaded" /\ live' = loading
         /\ Len(tables') = Len(loading.frontends)
         /\ Len(backends') = Len(loading.backends)]_vars

\* Refuted: weights are at least 1 (config.c:331).  The check is made before
\* the conversion to int.
WeightsPositive ==
  \A j \in DOMAIN backends : \A s \in DOMAIN backends[j].servers :
    backends[j].servers[s].weight >= 1

\* Refuted: two frontends never share a port (config.c:516-517).  What is
\* compared is the text of the two addresses.
PortsApart == \A i, j \in DOMAIN listeners : i # j => listeners[i] # listeners[j]

\* Refuted: a host that has a route of its own is found by it (the README's
\* "dominio exacto").  A route written with capitals is accepted and is never
\* found, because the request's host is made lower-case and the route is not.
RouteFound ==
  Up => \A j \in DOMAIN listeners : \A r \in DOMAIN live.frontends[j].routes :
          LET route == live.frontends[j].routes[r]
          IN route.host.form = "exact" =>
               Found(tables[j], [labels |-> route.host.labels, ok |-> TRUE]) = {route.backend}
=============================================================================
