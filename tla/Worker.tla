------------------------------- MODULE Worker -------------------------------
(***************************************************************************)
(* One worker process (main.c, run_worker): what it sets up and in which   *)
(* order, the loop of events, and how it takes everything down.  Of the    *)
(* handlers that the loop calls, those of the listener (listener.c), of    *)
(* the statistics socket (stats.c) and of the pipe of signals are here;    *)
(* those of the connections are in Relay and ConnManager.                   *)
(***************************************************************************)
EXTENDS Integers, FiniteSets, Sequences

CONSTANTS
  Limits,      \* descriptors that the process may have
  BODY,        \* units of a snapshot: what its client takes at once
  PipeRoom,    \* bytes that the pipe of signals holds
  Arrivals,    \* bound: clients that connect to the listener
  Queries,     \* bound: clients that connect to the statistics socket
  Visits,      \* bound: clients of both kinds together
  Hups         \* bound: SIGHUPs

\* Descriptors of statistics clients: the lowest free one is taken.
ClientFds == 1..Queries

ASSUME WorkerAssumption ==
  /\ Limits \subseteq Nat /\ BODY \in Nat \ {0} /\ PipeRoom \in Nat \ {0}
  /\ Arrivals \in Nat /\ Queries \in Nat /\ Visits \in Nat /\ Hups \in Nat

VARIABLES
  pc,        \* of run_worker: what it opens next, "run", "loop", "close", "exit"
  k,         \* of the part after done: how much of it is over
  held,      \* what run_worker has opened and not closed
  limit,     \* external: descriptors it may have
  free,      \* how many of them are not in use
  conns,     \* descriptors of connections
  running,   \* of io_loop
  batch,     \* of io_loop_run: events of this round not dispatched yet
  handler,   \* the handler that runs, and whether it was called by on_accept
  ready,     \* of the kernel: descriptors with an event to report
  backlog,   \* of the kernel: clients waiting in each socket
  pipe,      \* of the kernel: bytes in the pipe of signals
  client,    \* of stats: the client at each descriptor
  came,      \* how many clients came to each socket, and SIGHUPs
  told       \* a SIGTERM was sent and found room in the pipe

loopvars == <<running, batch, handler>>
world == <<backlog, pipe, client, came, told>>
vars == <<pc, k, held, limit, free, conns, loopvars, ready, world>>

Closed == [open |-> FALSE, off |-> 0, room |-> 0, gone |-> FALSE]
Open   == {c \in ClientFds : client[c].open}
Nobody == [fn |-> "none", fd |-> 0, nested |-> FALSE]
Call(fn, fd, nested) == [fn |-> fn, fd |-> fd, nested |-> nested]

\* The sockets and the pipe are watched by the names of what they belong to.
Event(fn, fd) == <<fn, fd>>

Init ==
  /\ pc = "log" /\ k = 1 /\ held = {} /\ limit \in Limits /\ free = limit /\ conns = 0
  /\ running = FALSE /\ ready = {} /\ batch = {} /\ handler = Nobody
  /\ backlog = [listener |-> 0, stats |-> 0] /\ pipe = <<>>
  /\ client = [c \in ClientFds |-> Closed]
  /\ came = [listener |-> 0, stats |-> 0, hup |-> 0] /\ told = FALSE

----------------------------------------------------------------------------
(* run_worker, up to its loop.                                             *)

\* The descriptors that each part keeps open.
Fds(r) == CASE r \in {"log", "loop", "listener", "stats"} -> 1
            [] r = "pipe" -> 2
            [] OTHER -> 0

Acquire(parts) ==
  LET cost == (IF "pipe" \in parts THEN 2 ELSE 0)
                + Cardinality({r \in parts : Fds(r) = 1})
  IN free >= cost /\ free' = free - cost /\ held' = held \cup parts

Setup == UNCHANGED <<k, limit, conns, loopvars, ready, world>>

\* log_init: without it the worker ends here.
OpenLog ==
  /\ pc = "log" /\ Setup
  /\ \/ Acquire({"log"}) /\ pc' = "router"
     \/ Acquire({}) /\ pc' = "exit"

\* router_build: if it fails the worker ends, without log_shutdown.
BuildRouter ==
  /\ pc = "router" /\ Setup
  /\ \/ Acquire({"router"}) /\ pc' = "core"
     \/ Acquire({}) /\ pc' = "exit"

\* router_slot_create, io_loop_create, bufpool_create: each may fail.
OpenCore ==
  /\ pc = "core" /\ Setup
  /\ \E parts \in SUBSET {"slot", "loop", "bufs"} :
       /\ Acquire(parts)
       /\ pc' = IF parts = {"slot", "loop", "bufs"} THEN "conns" ELSE "close"

OpenConns ==
  /\ pc = "conns" /\ Setup
  /\ \/ Acquire({"conns"}) /\ pc' = "listener"
     \/ Acquire({}) /\ pc' = "close"

\* listener_open and listener_attach: opened but not attached is closed too.
OpenListener ==
  /\ pc = "listener" /\ Setup
  /\ \/ Acquire({"listener"}) /\ pc' \in {"health", "close"}
     \/ Acquire({}) /\ pc' = "close"

StartHealth ==
  /\ pc = "health" /\ Setup
  /\ \/ Acquire({"health"}) /\ pc' = "stats"
     \/ Acquire({}) /\ pc' = "close"

\* stats_open, of worker 0: if it fails the worker goes on without it.
OpenStats ==
  /\ pc = "stats" /\ Setup /\ pc' = "signals"
  /\ Acquire({"stats"}) \/ Acquire({})

\* setup_signals, up to the handlers: the pipe may be there when a later call
\* fails.  From here on signals write into it.
SetupSignals ==
  /\ pc = "signals" /\ Setup
  /\ \/ Acquire({"pipe"}) /\ pc' \in {"watch", "close"}
     \/ Acquire({}) /\ pc' = "close"

\* Its io_loop_add, which reports what the pipe has already.
WatchSignals ==
  /\ pc = "watch" /\ pc' \in {"run", "close"}
  /\ ready' = IF pipe # <<>> /\ pc' = "run" THEN ready \cup {Event("pipe", 0)} ELSE ready
  /\ UNCHANGED <<k, held, limit, free, conns, loopvars, world>>

----------------------------------------------------------------------------
(* io_loop_run.                                                            *)

EnterLoop ==
  /\ pc = "run" /\ pc' = "loop" /\ running' = TRUE
  /\ UNCHANGED <<k, held, limit, free, conns, batch, handler, ready, world>>

InLoop == pc = "loop" /\ handler = Nobody

Wait ==
  /\ InLoop /\ running /\ batch = {} /\ ready # {}
  /\ batch' = ready /\ ready' = {}
  /\ UNCHANGED <<pc, k, held, limit, free, conns, running, handler, world>>

Watched(e) == IF e[1] = "client" THEN e[2] \in Open ELSE e[1] \in held

\* The next event, in the order that the kernel chose; that of a descriptor
\* nobody watches any more is dropped.
Dispatch ==
  /\ InLoop /\ running
  /\ \E e \in batch :
       /\ batch' = batch \ {e}
       /\ handler' = IF Watched(e) THEN Call(e[1], e[2], FALSE) ELSE handler
  /\ UNCHANGED <<pc, k, held, limit, free, conns, running, ready, world>>

\* io_loop_stop was called: what is left of the batch is not dispatched.
Leave ==
  /\ InLoop /\ ~running /\ pc' = "close" /\ batch' = {} /\ ready' = {}
  /\ UNCHANGED <<k, held, limit, free, conns, running, handler, world>>

Running(fn) == pc = "loop" /\ handler.fn = fn

\* Mutant: once the client is dealt with, on_accept returns with it.
ReturnToLoop == handler' = Nobody

\* A handler returns: on_client_writable sometimes to on_accept.
Return == handler' = IF handler.nested THEN Call("stats", 0, FALSE) ELSE Nobody

----------------------------------------------------------------------------
(* on_acceptable, of the listener.                                         *)

\* Mutant: one client for each event.
AcceptOne ==
  /\ Running("listener") /\ backlog.listener > 0 /\ free > 0
  /\ backlog' = [backlog EXCEPT !.listener = @ - 1]
  /\ conns' = conns + 1 /\ free' = free - 1
  /\ Return
  /\ UNCHANGED <<pc, k, held, limit, running, batch, ready, pipe, client, came, told>>

\* A client is accepted; conn_accepted keeps it or closes it, and one that is
\* gone already (ECONNABORTED) is passed over.
Accept ==
  /\ Running("listener") /\ backlog.listener > 0 /\ free > 0
  /\ backlog' = [backlog EXCEPT !.listener = @ - 1]
  /\ \/ conns' = conns + 1 /\ free' = free - 1
     \/ UNCHANGED <<conns, free>>
  /\ UNCHANGED <<pc, k, held, limit, loopvars, ready, pipe, client, came, told>>

\* EAGAIN, or no descriptor for one more (EMFILE).
AcceptStops ==
  /\ Running("listener") /\ (backlog.listener = 0 \/ free = 0)
  /\ Return
  /\ UNCHANGED <<pc, k, held, limit, free, conns, running, batch, ready, world>>

\* A connection ends (Relay).
ConnEnds ==
  /\ InLoop /\ running /\ conns > 0
  /\ conns' = conns - 1 /\ free' = free + 1
  /\ UNCHANGED <<pc, k, held, limit, loopvars, ready, world>>

----------------------------------------------------------------------------
(* stats.c: on_accept and on_client_writable.                              *)

Waiting == Running("stats") /\ backlog.stats > 0 /\ free > 0
Taken   == backlog' = [backlog EXCEPT !.stats = @ - 1]

\* A client that is accepted and closed before it is linked: O_NONBLOCK, malloc,
\* a snapshot that does not fit or calloc fails.
Refuse ==
  /\ Waiting /\ Taken
  /\ UNCHANGED <<pc, k, held, limit, free, conns, loopvars, ready, pipe, client, came, told>>

\* A client gets its snapshot and is linked, to be registered next.
Snapshot ==
  /\ Waiting /\ Taken /\ free' = free - 1
  /\ \E c \in ClientFds \ Open :
       /\ \A d \in ClientFds \ Open : c <= d
       /\ \E room \in 1..BODY :
            client' = [client EXCEPT ![c] = [Closed EXCEPT !.open = TRUE, !.room = room]]
       /\ handler' = Call("add", c, TRUE)
  /\ UNCHANGED <<pc, k, held, limit, conns, running, batch, ready, pipe, came, told>>

\* io_loop_add: what fits of the snapshot is written at once, and the event
\* that says there is room for it comes all the same.
AddClient ==
  /\ Running("add")
  /\ handler' = Call("client", handler.fd, TRUE)
  /\ ready' = ready \cup {Event("client", handler.fd)}
  /\ UNCHANGED <<pc, k, held, limit, free, conns, running, batch, world>>

QueriesStop ==
  /\ Running("stats") /\ (backlog.stats = 0 \/ free = 0)
  /\ Return
  /\ UNCHANGED <<pc, k, held, limit, free, conns, running, batch, ready, world>>

Me  == client[handler.fd]
Fit == IF Me.room < BODY - Me.off THEN Me.room ELSE BODY - Me.off

\* Mutant: it waits for another event after each write.
WriteOnce ==
  /\ Running("client") /\ Me.off < BODY /\ Me.room > 0 /\ ~Me.gone
  /\ client' = [client EXCEPT ![handler.fd].off = @ + Fit, ![handler.fd].room = @ - Fit]
  /\ Return
  /\ UNCHANGED <<pc, k, held, limit, free, conns, running, batch, ready, backlog, pipe,
                 came, told>>

WriteSome ==
  /\ Running("client") /\ Me.off < BODY /\ Me.room > 0 /\ ~Me.gone
  /\ client' = [client EXCEPT ![handler.fd].off = @ + Fit, ![handler.fd].room = @ - Fit]
  /\ UNCHANGED <<pc, k, held, limit, free, conns, loopvars, ready, backlog, pipe, came, told>>

\* EAGAIN.
WriteWaits ==
  /\ Running("client") /\ Me.off < BODY /\ Me.room = 0 /\ ~Me.gone
  /\ Return
  /\ UNCHANGED <<pc, k, held, limit, free, conns, running, batch, ready, world>>

client_close ==
  /\ client' = [client EXCEPT ![handler.fd] = Closed] /\ free' = free + 1
  /\ ready' = ready \ {Event("client", handler.fd)}
  /\ Return
  /\ UNCHANGED <<pc, k, held, limit, conns, running, batch, backlog, pipe, came, told>>

\* All is written, or write fails.
WriteEnds ==
  /\ Running("client") /\ (Me.off = BODY \/ Me.gone)
  /\ client_close

\* Mutant: on_accept closes it too, as it does where nothing is linked yet.
AddFailsTwice ==
  /\ Running("add")
  /\ client' = [client EXCEPT ![handler.fd] = Closed] /\ free' = free + 2
  /\ Return
  /\ UNCHANGED <<pc, k, held, limit, conns, running, batch, ready, backlog, pipe, came, told>>

\* io_loop_add fails, and the client is linked already.
AddFails == Running("add") /\ client_close

----------------------------------------------------------------------------
(* on_signal_readable.                                                     *)

\* A byte is read and handled; a SIGHUP is the business of Reload.
ReadSignal ==
  /\ Running("pipe") /\ pipe # <<>>
  /\ pipe' = Tail(pipe) /\ running' = (running /\ Head(pipe) # "TERM")
  /\ UNCHANGED <<pc, k, held, limit, free, conns, batch, handler, ready, backlog, client,
                 came, told>>

SignalsRead ==
  /\ Running("pipe") /\ pipe = <<>>
  /\ Return
  /\ UNCHANGED <<pc, k, held, limit, free, conns, running, batch, ready, world>>

----------------------------------------------------------------------------
(* run_worker, after done.                                                 *)

\* Mutant: the loop goes before those who are registered in it.
TeardownLoopFirst ==
  <<"stats", "health", "listener", "loop", "conns", "bufs", "slot", "log", "pipe">>

Teardown ==
  <<"stats", "health", "listener", "conns", "bufs", "slot", "loop", "log", "pipe">>

\* The descriptors that go with a part: stats_close closes its clients, whereas
\* conn_manager_destroy leaves the connections that are open as they are.
GoWith(r) == IF r = "stats" THEN Cardinality(Open) ELSE 0

\* The next part is closed, if it was ever opened.
Close ==
  /\ pc = "close" /\ k <= 9
  /\ LET r == Teardown[k]
     IN /\ held' = held \ (IF r = "slot" /\ r \in held THEN {r, "router"} ELSE {r})
        /\ free' = free + (IF r \in held THEN Fds(r) + GoWith(r) ELSE 0)
        /\ client' = IF r = "stats" THEN [c \in ClientFds |-> Closed] ELSE client
        /\ backlog' = IF r \in {"stats", "listener"} THEN [backlog EXCEPT ![r] = 0] ELSE backlog
  /\ k' = k + 1 /\ pc' = IF k = 9 THEN "exit" ELSE pc
  /\ UNCHANGED <<limit, conns, loopvars, ready, pipe, came, told>>

----------------------------------------------------------------------------
(* The world: clients, and the signals of the supervisor.  A client that    *)
(* comes before the loop is as if it came when the loop begins.             *)

Connect(s) ==
  /\ pc = "loop" /\ s \in held /\ came[s] < (IF s = "listener" THEN Arrivals ELSE Queries)
  /\ came.listener + came.stats < Visits
  /\ backlog' = [backlog EXCEPT ![s] = @ + 1] /\ came' = [came EXCEPT ![s] = @ + 1]
  /\ ready' = ready \cup {Event(s, 0)}
  /\ UNCHANGED <<pc, k, held, limit, free, conns, loopvars, pipe, client, told>>

\* What happens to a client that is registered is reported.
Wake(c) == IF handler = Call("add", c, TRUE) THEN ready ELSE ready \cup {Event("client", c)}

\* A client takes what was written: its socket has room again, which is an
\* event if it had none.
ClientReads(c) ==
  /\ pc = "loop" /\ client[c].open /\ ~client[c].gone /\ client[c].room < BODY
  /\ client' = [client EXCEPT ![c].room = BODY]
  /\ ready' = IF client[c].room = 0 THEN Wake(c) ELSE ready
  /\ UNCHANGED <<pc, k, held, limit, free, conns, loopvars, backlog, pipe, came, told>>

ClientGone(c) ==
  /\ pc = "loop" /\ client[c].open /\ ~client[c].gone
  /\ client' = [client EXCEPT ![c].gone = TRUE] /\ ready' = Wake(c)
  /\ UNCHANGED <<pc, k, held, limit, free, conns, loopvars, backlog, pipe, came, told>>

\* The operator sends up to Hups SIGHUPs, and SIGTERM until one is written.
Sent(s) ==
  IF s = "TERM" THEN ~told /\ told' = (Len(pipe) < PipeRoom) /\ UNCHANGED came
  ELSE came.hup < Hups /\ came' = [came EXCEPT !.hup = @ + 1] /\ UNCHANGED told

\* Mutant: the handler of SIGTERM calls io_loop_stop itself.
SignalStops(s) ==
  /\ pc \in {"watch", "run", "loop"} /\ Sent(s)
  /\ running' = (running /\ s # "TERM")
  /\ UNCHANGED <<pc, k, held, limit, free, conns, batch, handler, ready, backlog, pipe, client>>

\* on_signal, once it is installed: the byte is lost if the pipe is full.
Signal(s) ==
  /\ pc \in {"watch", "run", "loop"} /\ Sent(s)
  /\ pipe' = IF Len(pipe) < PipeRoom THEN Append(pipe, s) ELSE pipe
  /\ ready' = IF pc # "watch" /\ Len(pipe) < PipeRoom
              THEN ready \cup {Event("pipe", 0)} ELSE ready
  /\ UNCHANGED <<pc, k, held, limit, free, conns, loopvars, backlog, client>>

----------------------------------------------------------------------------

Start == \/ OpenLog \/ BuildRouter \/ OpenCore \/ OpenConns \/ OpenListener \/ StartHealth
         \/ OpenStats \/ SetupSignals \/ WatchSignals \/ EnterLoop
Loop  == Wait \/ Dispatch \/ Leave
Handlers == \/ Accept \/ AcceptStops \/ Refuse \/ Snapshot \/ AddClient \/ AddFails
            \/ QueriesStop \/ WriteSome \/ WriteWaits \/ WriteEnds \/ ReadSignal
            \/ SignalsRead
Process == Start \/ Loop \/ Handlers \/ Close

Next ==
  \/ Process \/ ConnEnds
  \/ \E s \in {"listener", "stats"} : Connect(s)
  \/ \E c \in ClientFds : ClientReads(c) \/ ClientGone(c)
  \/ \E s \in {"HUP", "TERM"} : Signal(s)

Spec == Init /\ [][Next]_vars

\* The process runs, and a client of the statistics socket reads on.
FairSpec ==
  /\ Spec /\ WF_vars(Process)
  /\ \A c \in ClientFds : WF_vars(ClientReads(c))

----------------------------------------------------------------------------
(* Properties.                                                             *)

\* No descriptor is lost: what is not free is open in a part that is held, in a
\* connection or in a statistics client, after any failure half-way; and a worker
\* that leaves by way of done ends with nothing open but what the connections had
\* that were open, which goes with the process.
FdExact ==
  /\ free + (IF "pipe" \in held THEN 2 ELSE 0) + Cardinality({r \in held : Fds(r) = 1})
       + conns + Cardinality(Open) = limit
  /\ pc = "exit" /\ k > 1 => free + conns = limit /\ held \subseteq {"router"}

\* What each part uses while it is there.
Needs == [log |-> {}, router |-> {}, slot |-> {"router"}, loop |-> {}, bufs |-> {},
          conns |-> {"loop", "slot", "bufs", "log"}, listener |-> {"conns", "loop"},
          health |-> {"router", "log"}, stats |-> {"loop", "slot", "conns", "log"},
          pipe |-> {"loop"}]

\* No part is closed before one that uses it: the probes end before the router,
\* the connections before the loop and the buffers.  Only the pipe, which
\* nobody reads after the loop, outlives what it needs.
NeedsHeld == \A r \in held : Needs[r] \subseteq held \/ (r = "pipe" /\ pc = "close")

\* There are descriptors for everyone who may come.
Ample == limit >= 6 + Visits

\* Something for the handler of a descriptor to do.
Due(fn, fd) ==
  \/ fn = "pipe" /\ pipe # <<>>
  \/ fn \in {"listener", "stats"} /\ backlog[fn] > 0 /\ Ample
  \/ /\ fn = "client" /\ fd \in Open
     /\ client[fd].room > 0 \/ client[fd].gone \/ client[fd].off = BODY

\* Its handler runs or is going to, or is to be resumed by the one it called.
Attended(fn, fd) ==
  \/ Event(fn, fd) \in ready \cup batch
  \/ handler.fn = fn /\ handler.fd = fd
  \/ fn = "client" /\ handler = Call("add", fd, TRUE)
  \/ fn = "stats" /\ handler.nested

\* Readiness is told once, at its edge, so nothing may be left undone with its
\* event used up: a byte in the pipe, also one that came before the pipe was
\* registered, a client who waits in a socket (with descriptors for all), a
\* statistics client who can be written to or has to be let go of.
NothingMissed ==
  pc \in {"run", "loop"} =>
    \A e \in {Event("pipe", 0), Event("listener", 0), Event("stats", 0)}
               \cup {Event("client", c) : c \in ClientFds} :
      Due(e[1], e[2]) => Attended(e[1], e[2])

\* With descriptors for all, no client waits in the listener for ever, although
\* its event is reported once for all those who come at the same time.
Admitted == (Ample /\ pc = "loop" /\ backlog.listener > 0) ~> (backlog.listener = 0 \/ ~running)

\* With descriptors for all, every client of the statistics socket is attended
\* and let go of.
Answered ==
  (Ample /\ pc = "loop" /\ (backlog.stats > 0 \/ Open # {})) ~>
    ((backlog.stats = 0 /\ Open = {}) \/ ~running)

\* A SIGTERM that found room in the pipe ends the worker, whatever comes before
\* or after it, also between the installation of the handlers and io_loop_run,
\* which sets running.  One that finds the pipe full is lost.
TermHeeded == told ~> (pc = "exit")

\* Refuted: a worker without descriptors tries again at the next event
\* (listener.c:157-158).  If nobody else comes, there is none.
TriedAgain == (pc = "loop" /\ backlog.listener > 0) ~> (backlog.listener = 0 \/ ~running)

\* Refuted: after log_init any failure is told through the log (main.c:219-220).
\* If the router cannot be built the worker leaves before log_shutdown.
SaysWhy == pc = "exit" => "log" \notin held
=============================================================================
