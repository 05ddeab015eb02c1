---------------------------- MODULE BackendPool ----------------------------
(***************************************************************************)
(* A pool of backends (backend_pool.c) as its two users see it: the event  *)
(* loop, which picks a backend for a connection and reports how the        *)
(* attempt went (connection.c), and the thread of the health probes        *)
(* (health.c).  They share the flag up of each backend, which is atomic,   *)
(* and nothing else; each access to a flag is a step of its own.           *)
(***************************************************************************)
EXTENDS Integers, FiniteSets

CONSTANTS
  N,            \* the backends of the pool are 0 .. N - 1
  Weight,       \* their weights
  Balances,     \* the algorithms to consider
  Rise, Fall,   \* of its [backend.health]
  MaxAttempts,  \* MAX_CONNECT_ATTEMPTS
  Conns,        \* the connections of the worker that go to this pool
  Changes,      \* bound: times that a server changes its state
  Exhausted     \* socket() may fail, for want of descriptors

Servers == 0..(N - 1)

ASSUME BackendPoolAssumption ==
  /\ N \in Nat \ {0} /\ Weight \in [Servers -> Nat \ {0}]
  /\ Balances \subseteq {"round_robin", "weighted", "least_conn"}
  /\ IsFiniteSet(Conns)
  /\ Rise \in Nat \ {0} /\ Fall \in Nat \ {0} /\ MaxAttempts \in Nat \ {0}
  /\ Changes \in Nat /\ Exhausted \in BOOLEAN

VARIABLES
  balance,  \* of the pool
  up,       \* up of each backend
  fails, successes, active, current,   \* what the loop keeps of it
  p_ok, p_fail,                        \* what the probes keep of it
  rr,       \* of the pool
  conn,     \* of each connection: what it is doing, its be, its attempts
  loop,     \* where the handler that is running is, and for which connection
  probe,    \* where the probes are, the backend, and the result
  server,   \* external: each server is "good", "sick" (what it answers is no
            \* HTTP) or "dead"
  changes,  \* external: how often one of them changed
  got       \* ghost: picks of each backend in this round, no further than one
            \* too many, the backends that are up in it, and whether all of
            \* them have been up since the start

passive == <<fails, successes, active, current, rr>>
active_ == <<p_ok, p_fail>>
world   == <<balance, server, changes>>
pool_vars == <<up, passive, active_, conn, loop, probe, world, got>>

NoConn    == [pc |-> "none", b |-> 0, attempts |-> 0]
NoHandler == [pc |-> "idle"]

pool_create ==
  /\ balance \in Balances
  /\ up = [i \in Servers |-> TRUE]
  /\ fails = [i \in Servers |-> 0] /\ successes = [i \in Servers |-> 0]
  /\ active = [i \in Servers |-> 0] /\ current = [i \in Servers |-> 0]
  /\ p_ok = [i \in Servers |-> 0] /\ p_fail = [i \in Servers |-> 0]
  /\ rr = 0
  /\ conn = [x \in Conns |-> NoConn]
  /\ loop = NoHandler
  /\ probe = [pc |-> "dial", i |-> 0, ok |-> FALSE, up |-> FALSE]
  /\ server = [i \in Servers |-> "good"] /\ changes = 0
  /\ got = [n |-> [i \in Servers |-> 0], of |-> Servers, calm |-> TRUE]

----------------------------------------------------------------------------
(* pool_pick, in the hands of route_and_connect.                           *)

\* route_and_connect: one more attempt, or 502.
Route(x, attempts) ==
  IF attempts < MaxAttempts
    THEN /\ conn' = [conn EXCEPT ![x] = [pc |-> "routing", b |-> 0, attempts |-> attempts + 1]]
         /\ loop' = [pc |-> "scan", x |-> x, k |-> 0, seen |-> {}]
    ELSE /\ conn' = [conn EXCEPT ![x] = NoConn]
         /\ loop' = NoHandler

\* A request for this pool that finds no upstream open.
Request(x) ==
  /\ loop.pc = "idle" /\ conn[x].pc = "none"
  /\ Route(x, 0)
  /\ UNCHANGED <<up, passive, active_, probe, world, got>>

\* The k-th backend that is looked at.  The round robin stops at the first one
\* that is up; what it would see later does not change its choice.
Start  == IF balance = "weighted" THEN 0 ELSE rr
Nth(k) == (Start + k) % N

Scan ==
  /\ loop.pc = "scan" /\ loop.k < N
  /\ loop' = [loop EXCEPT !.k = @ + 1, !.seen = IF up[Nth(loop.k)] THEN @ \cup {Nth(loop.k)} ELSE @]
  /\ UNCHANGED <<up, passive, active_, conn, probe, world, got>>

\* The one of S that comes first in the order of the scan.
First(S) == CHOOSE i \in S : \A j \in S : (i + N - Start) % N <= (j + N - Start) % N

Sum(f) ==
  LET upto[k \in 0..N] == IF k = 0 THEN 0 ELSE upto[k - 1] + f[k - 1]
  IN upto[N]

Total(S) == Sum([i \in Servers |-> IF i \in S THEN Weight[i] ELSE 0])
Raised(S) == [i \in Servers |-> IF i \in S THEN current[i] + Weight[i] ELSE current[i]]

Best(S) ==
  CASE balance = "round_robin" -> First(S)
    [] balance = "weighted"    -> First({i \in S : \A j \in S : Raised(S)[i] >= Raised(S)[j]})
    [] balance = "least_conn"  -> First({i \in S : \A j \in S : active[i] <= active[j]})

\* Mutant: the next turn is that of whoever follows the last one to have had
\* his turn, picked or not.
AdvanceOne(b) == rr' = IF balance = "weighted" THEN rr ELSE (rr + 1) % N

Advance(b) == rr' = IF balance = "weighted" THEN rr ELSE (b + 1) % N

\* Mutant: the backends that are down count in the total.
ReweighAll(S, b) ==
  current' = IF balance = "weighted" THEN [Raised(S) EXCEPT ![b] = @ - Total(Servers)] ELSE current

Reweigh(S, b) ==
  current' = IF balance = "weighted" THEN [Raised(S) EXCEPT ![b] = @ - Total(S)] ELSE current

Share(i) == IF balance = "weighted" THEN Weight[i] ELSE 1

\* A round starts when others are up, and ends when everybody had his share.
Counted(S, b) ==
  LET none == [i \in Servers |-> 0]
      n == [(IF S = got.of THEN got.n ELSE none) EXCEPT ![b] = IF @ > Share(b) THEN @ ELSE @ + 1]
  IN  [got EXCEPT !.of = S,
                  !.n = IF \A i \in S : n[i] >= Share(i) THEN none ELSE n]

\* The end of the calm: a backend goes down.
Watched == got' = [got EXCEPT !.calm = @ /\ \A i \in Servers : up'[i]]

NobodyUp ==
  /\ loop.pc = "scan" /\ loop.k = N /\ loop.seen = {}
  /\ conn' = [conn EXCEPT ![loop.x] = NoConn]
  /\ loop' = NoHandler
  /\ UNCHANGED <<up, passive, active_, probe, world, got>>

\* A backend is picked, and start_connect begins, or there is no socket.
Pick ==
  /\ loop.pc = "scan" /\ loop.k = N /\ loop.seen # {}
  /\ LET b == Best(loop.seen) IN
       /\ Advance(b) /\ Reweigh(loop.seen, b)
       /\ got' = Counted(loop.seen, b)
       /\ \/ /\ conn' = [conn EXCEPT ![loop.x].pc = "connecting", ![loop.x].b = b]
             /\ loop' = NoHandler
          \/ /\ Exhausted
             /\ loop' = [pc |-> "load", x |-> loop.x, b |-> b, ok |-> FALSE]
             /\ UNCHANGED conn
  /\ UNCHANGED <<up, fails, successes, active, active_, probe, world>>

----------------------------------------------------------------------------
(* The events of the upstream, and pool_report.                            *)

\* The server answers the connect of x; the event comes when the loop gets to it.
Answer(x) ==
  /\ conn[x].pc = "connecting"
  /\ conn' = [conn EXCEPT ![x].pc = IF server[conn[x].b] = "dead" THEN "refused" ELSE "accepted"]
  /\ UNCHANGED <<up, passive, active_, loop, probe, world, got>>

\* The event of the connect of x.
ConnectEnds(x) ==
  /\ loop.pc = "idle" /\ conn[x].pc \in {"refused", "accepted"}
  /\ loop' = [pc |-> "load", x |-> x, b |-> conn[x].b, ok |-> conn[x].pc = "accepted"]
  /\ UNCHANGED <<up, passive, active_, conn, probe, world, got>>

\* What x received is not a response.
Garbled(x) ==
  /\ loop.pc = "idle" /\ conn[x].pc = "open" /\ server[conn[x].b] = "sick"
  /\ loop' = [pc |-> "load", x |-> x, b |-> conn[x].b, ok |-> FALSE]
  /\ UNCHANGED <<up, passive, active_, conn, probe, world, got>>

ReportLoad ==
  /\ loop.pc = "load"
  /\ loop' = [pc |-> "store", x |-> loop.x, b |-> loop.b, ok |-> loop.ok, up |-> up[loop.b]]
  /\ UNCHANGED <<up, passive, active_, conn, probe, world, got>>

Closed(b) == active' = [active EXCEPT ![b] = IF @ > 0 THEN @ - 1 ELSE 0]

ReportOk(b, was) ==
  LET back == ~was /\ successes[b] + 1 >= Rise IN
  /\ fails' = [fails EXCEPT ![b] = 0]
  /\ successes' = [successes EXCEPT ![b] = IF was THEN @ ELSE IF back THEN 0 ELSE @ + 1]
  /\ up' = IF back THEN [up EXCEPT ![b] = TRUE] ELSE up
  /\ current' = IF back THEN [current EXCEPT ![b] = 0] ELSE current

ReportFailure(b, was) ==
  LET down == was /\ fails[b] + 1 >= Fall IN
  /\ successes' = [successes EXCEPT ![b] = 0]
  /\ fails' = [fails EXCEPT ![b] = IF down THEN 0 ELSE IF was THEN @ + 1 ELSE @]
  /\ up' = IF down THEN [up EXCEPT ![b] = FALSE] ELSE up
  /\ UNCHANGED current

\* The connection is established: backend_conn_opened.
Established ==
  /\ loop.pc = "store" /\ loop.ok
  /\ ReportOk(loop.b, loop.up)
  /\ active' = [active EXCEPT ![loop.b] = @ + 1]
  /\ conn' = [conn EXCEPT ![loop.x].pc = "open"]
  /\ loop' = NoHandler
  /\ UNCHANGED <<rr, active_, probe, world, got>>

\* The attempt failed, and another one follows: drop_upstream, if there was a
\* socket, forgets a connection that was never counted.
Failed ==
  /\ loop.pc = "store" /\ ~loop.ok /\ conn[loop.x].pc # "open"
  /\ ReportFailure(loop.b, loop.up)
  /\ IF conn[loop.x].pc = "refused" THEN Closed(loop.b) ELSE UNCHANGED active
  /\ Watched
  /\ Route(loop.x, conn[loop.x].attempts)
  /\ UNCHANGED <<rr, active_, probe, world>>

\* send_error; the connection is closed when the answer was written.
Answered502 ==
  /\ loop.pc = "store" /\ ~loop.ok /\ conn[loop.x].pc = "open"
  /\ ReportFailure(loop.b, loop.up)
  /\ conn' = [conn EXCEPT ![loop.x].pc = "closing"]
  /\ loop' = NoHandler
  /\ Watched
  /\ UNCHANGED <<active, rr, active_, probe, world>>

\* conn_close, or the upstream of a connection that stays is dropped.
Close(x) ==
  /\ loop.pc = "idle" /\ conn[x].pc \in {"connecting", "refused", "accepted", "open", "closing"}
  /\ Closed(conn[x].b)
  /\ conn' = [conn EXCEPT ![x] = NoConn]
  /\ UNCHANGED <<up, fails, successes, current, rr, active_, loop, probe, world, got>>

----------------------------------------------------------------------------
(* The thread of the probes: probe_backend and backend_probe_result, for    *)
(* one backend after the other.                                            *)

\* A sick server passes a probe of type TCP and fails one of type HTTP.
Dial ==
  /\ probe.pc = "dial"
  /\ \E ok \in BOOLEAN :
       /\ server[probe.i] = "good" => ok
       /\ server[probe.i] = "dead" => ~ok
       /\ probe' = [probe EXCEPT !.pc = "load", !.ok = ok]
  /\ UNCHANGED <<up, passive, active_, conn, loop, world, got>>

ProbeLoad ==
  /\ probe.pc = "load"
  /\ probe' = [probe EXCEPT !.pc = "store", !.up = up[probe.i]]
  /\ UNCHANGED <<up, passive, active_, conn, loop, world, got>>

\* Mutant: the good probes of a backend that is down are not counted.
ProbeOkLost(b, was) ==
  /\ p_fail' = [p_fail EXCEPT ![b] = 0]
  /\ UNCHANGED <<p_ok, up>>

ProbeOk(b, was) ==
  LET back == ~was /\ p_ok[b] + 1 >= Rise IN
  /\ p_fail' = [p_fail EXCEPT ![b] = 0]
  /\ p_ok' = [p_ok EXCEPT ![b] = IF was THEN @ ELSE IF back THEN 0 ELSE @ + 1]
  /\ up' = IF back THEN [up EXCEPT ![b] = TRUE] ELSE up

ProbeFailure(b, was) ==
  LET down == was /\ p_fail[b] + 1 >= Fall IN
  /\ p_ok' = [p_ok EXCEPT ![b] = 0]
  /\ p_fail' = [p_fail EXCEPT ![b] = IF down THEN 0 ELSE IF was THEN @ + 1 ELSE @]
  /\ up' = IF down THEN [up EXCEPT ![b] = FALSE] ELSE up

ProbeResult ==
  /\ probe.pc = "store"
  /\ IF probe.ok THEN ProbeOk(probe.i, probe.up) ELSE ProbeFailure(probe.i, probe.up)
  /\ probe' = [pc |-> "dial", i |-> (probe.i + 1) % N, ok |-> FALSE, up |-> FALSE]
  /\ Watched
  /\ UNCHANGED <<passive, conn, loop, world>>

----------------------------------------------------------------------------
(* The servers.                                                            *)

Change(i) ==
  /\ changes < Changes
  /\ \E s \in {"good", "sick", "dead"} \ {server[i]} : server' = [server EXCEPT ![i] = s]
  /\ changes' = changes + 1
  /\ UNCHANGED <<up, passive, active_, conn, loop, probe, got, balance>>

----------------------------------------------------------------------------

Handler == Scan \/ NobodyUp \/ Pick \/ ReportLoad \/ Established \/ Failed \/ Answered502
Probe   == Dial \/ ProbeLoad \/ ProbeResult

PoolNext ==
  \/ \E x \in Conns : Request(x) \/ Answer(x) \/ ConnectEnds(x) \/ Garbled(x) \/ Close(x)
  \/ Handler \/ Probe
  \/ \E i \in Servers : Change(i)

PoolSpec == pool_create /\ [][PoolNext]_pool_vars

\* A handler runs to its end, and the probes have their timeouts.
PoolFairSpec == PoolSpec /\ WF_pool_vars(Handler) /\ WF_pool_vars(Probe)

----------------------------------------------------------------------------
(* Properties.                                                             *)

LoopPCs == {"idle", "scan", "load", "store"}

\* No count reaches its limit without being acted upon (fails, successes and
\* those of the probes).
PoolTypeOK ==
  /\ balance \in Balances
  /\ up \in [Servers -> BOOLEAN]
  /\ fails \in [Servers -> 0..(Fall - 1)] /\ successes \in [Servers -> 0..(Rise - 1)]
  /\ p_fail \in [Servers -> 0..(Fall - 1)] /\ p_ok \in [Servers -> 0..(Rise - 1)]
  /\ active \in [Servers -> 0..Cardinality(Conns)] /\ current \in [Servers -> Int]
  /\ rr \in Servers
  /\ \A x \in Conns : conn[x] \in [pc : {"none", "routing", "connecting", "refused", "accepted",
                                         "open", "closing"},
                                   b : Servers, attempts : 0..MaxAttempts]
  /\ loop.pc \in LoopPCs /\ probe.pc \in {"dial", "load", "store"} /\ probe.i \in Servers

\* As long as the same backends are up, each round of picks gives nobody more
\* than his share; with weights this is so until one of them goes down, for those
\* that stay keep the dynamic weights they had (pick_round_robin, pick_weighted).
EvenShare ==
  balance = "round_robin" \/ (balance = "weighted" /\ got.calm) =>
    \A i \in got.of : got.n[i] <= Share(i)

\* However often the backends go down and come back, no number of the pool runs
\* away: each count of failures or successes goes back to zero at its limit, and no
\* dynamic weight passes the total once for each of the other backends
\* (pick_weighted, and current in pool_report).
CurrentBounded ==
  /\ PoolTypeOK
  /\ LET most == (N - 1) * Total(Servers)
     IN \A i \in Servers : current[i] \in -most..most

\* up ends up as the servers are, whoever of the two threads wrote it last
\* (pool_report and backend_probe_result).
Converges ==
  \A i \in Servers : /\ <>[](server[i] = "good") => <>[]up[i]
                     /\ <>[](server[i] = "dead") => <>[]~up[i]

\* Only the probes bring a backend back (pool_report).
OnlyProbesReturn == [][\A i \in Servers : ~up[i] /\ up'[i] => probe' # probe]_pool_vars

\* A backend comes back with no dynamic weight (pick_weighted).
CleanReturn == [][\A i \in Servers : ~up[i] /\ up'[i] => current'[i] = 0]_pool_vars
=============================================================================
