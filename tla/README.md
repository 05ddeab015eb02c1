# Specifications of the epoll/kqueue reverse proxy

TLA+ modules that model the proxy of this repository (`src/src/*.c`), the TLC
configurations that check them on small instances, and proofs that TLAPS
checks for every value of the constants. Paths below are relative to
`src/src/` unless they say otherwise.

Run a check with `tlc -config RelayFaults.cfg MCRelay.tla` (each configuration
`X*.cfg` belongs to `MCX.tla`), a proof with `tlapm ConnManager_proof.tla`. TLC
needs from a second to a minute and a half for each.

## 1. The system

A supervisor (`main.c`) forks workers. Each worker runs one edge-triggered event
loop (`io_event_epoll.c`) in one thread, in which all handlers are sequential,
and two more threads: the consumer of the log (`log.c`) and the active health
checks (`health.c`). Workers share nothing.

| component | state | operations | talks to |
|---|---|---|---|
| connection (`connection.c`) | per connection: state, two buffers with offsets, parse progress, peers' EOFs, attempts, backend, router; per worker: free list, counters | accept, events of client and upstream, route and connect, relay, finish, close | io_event, buffer_pool, backend_pool, router, http_parser |
| io_event (`io_event_epoll.c`, `io_event_kqueue.c`, `io_event_common.c`) | table descriptor -> handler, kernel's interest set, the batch | add, mod, del, run, stop | everything that waits |
| http_parser | position in header or chunked body | request, response, chunk scanners, rewriting | connection |
| buffer_pool | arena, free list threaded through it | get, put | connection |
| backend_pool | per backend: `up` (atomic, two writers), passive counters (loop), active counters (probes), `active`, `current`; per pool `rr` | pick, report, probe result, opened, closed | connection, health |
| health | mutex, `current` router, thread | start, set_router, stop, the cycle of probes | router, backend_pool, log |
| router | refcount, configuration, pools, routes; the slot | build, ref, unref, publish, acquire, lookup | connection, health, stats, main |
| log | ring of slots, head, tail, dropped, running | write, init, shutdown, the consumer | everybody |
| listener | listening sockets | accept until EAGAIN | connection |
| stats | one client at a time over a UNIX socket | snapshot | router, connection |
| config | the parsed file | load, validate | router |
| main: worker | the pipe of signals | start, reload, stop | all of the above |
| main: supervisor | pids, last signal | fork, relay signals, wait | workers |

What is hard here:

* *Edge-triggered readiness.* A report is given once. Any early return of a
  handler that was given one may strand data; re-arming (`io_loop_mod`) makes the
  kernel look again, and the code relies on that.
* *Two byte streams with bounded buffers,* half-closes, resets, responses
  without a length, keep-alive on both sides, and retries of a connect with a
  request that must not have been sent in part.
* *Descriptors by number.* An event of the batch may concern a descriptor that
  an earlier handler of the same batch closed and another one reused.
* *Three threads.* `up` is written by two of them, the router is replaced under
  the probes, and both the loop and the probes write to a log that is written for
  one producer.
* *Failure in the middle*: no buffer, no descriptor, no memory, `epoll_ctl`
  that fails, each of which must give back what was borrowed.

What makes each component correct is stated in sections 3 and 4; the hazards,
with the line at which each bites, are listed in `PROJECT.json`.

## 2. The modules

| module | models | composes with |
|---|---|---|
| `Relay` | one connection: `struct conn`, both sockets, the epoll set and its batch, with the client and the server as environment | - |
| `ConnManager` | all the connections of a worker: buffers, backends and their counts | the bytes of `Relay` are left out |
| `BackendPool` | the pool as its two threads see it, with the servers behind | - |
| `RouterRcu` | the life of routers: slot, connections, reload, probes, the end of the worker | - |
| `LogRing` | the ring, its producers and its consumer | implements `LogQueue` |
| `LogQueue` | what the log promises: a bounded queue that never blocks the writer | - |
| `Supervisor` | the parent process: fork, wait, signals; workers from outside | - |
| `Worker` | one worker process: start with its failures, the loop with the listener, the statistics socket and the pipe of signals, the end | connections are a number of descriptors here |
| `HttpHead` | the heads of requests and responses, and the rewriting, over a row of proxies | - |
| `Chunked` | the scanner of chunked bodies, byte by byte | - |
| `ChunkedBody` | the grammar of a chunked body: where a stream ends or stops being one | extends `Chunked` with what it promises |
| `Config` | the validation of a file | - |
| `Routes` | the table of a frontend and the lookup in it, and the answer it stands for | - |
| `Reload` | start and reloads of a worker, from the file to the published tables | extends `Config` and `Routes` |
| `MC*` | the scripts, files, heads, weights and symmetries TLC uses | |
| `Relay_proof`, `ConnManager_proof`, `Threads_proof`, `RouterRcu_proof`, `Supervisor_proof`, `Worker_proof`, `HttpParser_proof`, `Reload_proof` | theorems and proofs | each extends its component, `HttpParser_proof` both `HttpHead` and `Chunked`, `Threads_proof` (what threads share without a lock) both `LogRing` and `BackendPool` |

Definitions have the names of the functions they translate where that is
possible; `PROJECT.json` maps each one to its lines. Definitions whose comment
begins with "Mutant" are not part of the system: each is the mistake with which
one property was seen to fail, and no other definition uses them.

### Relay

`c` is `struct conn`, `net` the two sockets as the proxy's kernel has them (send
buffers `toCli` and `toUp`, receive buffers `cRecv` and `uRecv`, FIN and RST
flags), `ep` the epoll set: masks, registrations, the ready list and the batch
that `io_loop_run` is going through. `cli` and `srv` are the peers. Every handler is a
function from a *world* (`c`, `net`, `ep`, `res`) to the worlds it may leave, so
that the order of the calls inside a handler is the order of composition:
`ProxyStep` writes both ways, decides on the end of the response, and ends in
`FinishResponse`, `ConnClose` or `UpdateMasks`, as `proxy_step` does. One step of
`Dispatch` is one call of a handler.

Bytes are tokens `<<message, position>>`. Headers and bodies have lengths in
tokens, and the buffers hold `Slot` of them. The parser is reduced to its verdict on
what the buffer holds (more, done, error), the way the body is delimited, whether
the connection is kept, and how much the header grows when it is rewritten. The
scripts of `MCRelay` say what the peers exchange, and the `may` of a script which
`Liberties` they and the system take: half-closes, resets, early closes, refused
connects, a registration that fails, pipelining, an answer before the request is in.

The epoll model: an event is put on the ready list when the kernel notices
something that the descriptor waits for (`Wake`), and whenever `io_loop_add` or
`io_loop_mod` finds a condition that holds already (`Arm`). `Wait` turns the ready
list into a batch with the conditions that hold at that moment. An event whose
descriptor was deregistered stays in the batch and is skipped, or delivered to
whoever registered that number since.

### ConnManager

Per connection: state, the slots in `out` and `in`, the backend `be`, attempts;
per worker: the free list, the `active` count of each backend. `opened`,
`leaked` and `starved` are ghosts. What the bytes decide in `Relay` is a choice
here; each handler is one action, with the buffers it takes and returns in the
order of the code (`PrepareBuffers`: a third slot is taken to rewrite the request
before the one that was read into goes back).

### BackendPool

`up` is shared by two threads and each access to it is a step of its own: `Scan`
looks at one backend per step, `pool_report` and `backend_probe_result` load
(`Load`, `ProbeLoad`) and then store. Everything else belongs to one of the
threads. The three algorithms are `Best`, `Advance` and `Reweigh`; the pool's
algorithm is the variable `balance`, chosen at the start. A server is "good", "sick"
(it accepts and answers nonsense) or "dead". `got` is a ghost that counts the picks
of a round.

### RouterRcu

`life` and `refs` of each router, the `slot`, the router of each connection, and
what the loop (`loop`) and the probes (`probe`) have in their hands. A reload is
six steps of the loop (`Build`, `Publish`, `Retire`, `RefNext`, `Swap`,
`Release`) between which the probes move; the mutex of `health.c` is
`hc.lock`. `given` counts how often a configuration is freed.

### LogRing

Producers go through `Begin`, `Reserve` or `DropLine`, `Stamp`, `Fill`, `Publish`,
one step per access to shared memory; the consumer through `Check`, `Load`,
`Take`, `Release`, `Drained`. A slot's time and text are written apart, so that a
torn line is visible. Release/acquire on `head` and `tail` orders the accesses to
slots, so interleaving is a faithful account of the memory with one
producer; with two, the program has a race, of which `LogRingTwoProducers`
shows one outcome.

### Supervisor

`sup` is where `main` is, with its `i`, `alive` and the signal it relays; `last` is
`g_last_signal`. A signal is first `pending` in the kernel; `Deliver` is the handler, which
interrupts `wait` if the supervisor is in it and otherwise only writes `last`. `Fork`
may fail at any worker. A worker is young until its `setup_signals` (a SIGHUP kills
it, as its disposition is still the default one), then ready; it may die by itself, up
to `Deaths` times. `gen` is the generation of the file each worker goes by, `file`
the one that is there. The ghost `clash` says that a signal was sent with
another still under way, or that a worker died then: the promises of section 3 are
about the rest.

### Worker

`pc` goes through the ten parts that `run_worker` opens, in its order; each
may fail, and what follows is the `goto done` with what is `held`. Closing is one step
for each part, `k`. The loop is `io_loop_run`: `Wait` makes `batch` of `ready`,
`Dispatch` calls a handler, and the handlers of the listener (`Accept` until the
`backlog` is empty or `free` is zero), of the statistics socket
(accept, a failure before the client is linked or a snapshot, registration or its failure, a
first write from inside the handler that registered the client, closing) and of the pipe
(`ReadSignal`) move a step at a time
while clients and signals come. A descriptor is the lowest free number, so that one
that was closed comes back at once. Signals come from the installation of their handlers on:
`SetupSignals`, `WatchSignals` (the pipe is registered) and `EnterLoop` (`io_loop_run` sets
`running`) are steps apart, and a byte may be written between any two of them.

### HttpHead, Chunked

`HttpHead`: a head is a first line and lines of a name, a value and a size; `Receive`
hands over some more of it. `hp_execute` and `hp_response_execute` go over the lines
one step at a time, in any order the sender chose, and `hp_rewrite` over them again;
what is written is then the head that the next hop receives, so that
`NextHopAgrees` and `ChainGrows` relate two runs of the parser. `Meaning`, `Acceptable`
and `ErrorIn` are the reference: they look at the head as a whole.

`Chunked`: one step per turn of the loop of `hp_chunked_feed`, with `upto` the bytes
of the call in progress, so that a stream may be cut anywhere. `ChunkedBody`
composes streams from chunks, extensions and trailers, and says of each where it ends
or is to be refused: `Joined` and `Value`, the recursive functions in it, are what a sender
does, and have nothing of the scanner's loop.

### Config, Routes, Reload

`Config` has one action for each section of the file and each turn of a loop, and
rejects from any of them. `ToInt` is the narrowing of `int64_t` to `int`, with a
width of `INT_BITS`. `Routes` is `table_build` and `router_lookup` on sequences
of labels (a loop over the routes that enters each where it belongs: at the front of the chain of
its bucket, among the wildcards, as the fallback; then the wildcards sorted by insertion), with
`Answer` as the reference. The loops are recursive functions, so that they can be proved about. `Reload` is `run_worker` up to its listeners, then `reload_config`
for each SIGHUP: load, compare the listeners, build, publish.

## 3. The runs

`pass` runs:

| run | question | bounds |
|---|---|---|
| `RelayFaults` | With peers that keep to the protocol and with resets, half-closes, early closes, refused connects, failing registrations, no backend up and messages that do not parse: `TypeOK` (offsets and buffers within their limits); what the client is sent is whole responses in order and a 4xx/5xx of the proxy only between two of them (`ClientStream`); an upstream carries whole requests in order (`UpstreamStream`); a response is taken for complete only with its last token read (`NotTruncated`); an upstream is kept only with nothing in flight (`KeptIdle`); a retry still has the request from its first byte (`RetryWhole`); a request that was sent is answered or its connection closed (`Served`), and answered if nobody misbehaves (`AllAnswered`) | 22 scripts, 3 attempts, 3 slots; bodies by length and chunks, a response larger than the buffer, two pools on one connection, heads in two parts. 299 546 states |
| `ConnManager` | Over many connections: every slot is in exactly one place (`SlotsExact`), and a backend is never believed busier than it is (`NeverOvercounted`) | 3 connections, 4 slots (the arena does not grow with the connections), 2 backends, 2 attempts, with symmetry. 500 states |
| `LogRing` | One producer: in order, once, whole (`InOrder`), nothing left by a shutdown (`Flushed`), every accepted line written (`Reaches`), and `LogQueue` implemented (`Implements`) | ring of 2 slots, 5 lines, so that it wraps twice and fills up. 950 states |
| `RouterRcu` | No router in anybody's hands is freed (`NoUseAfterFree`), the end of the worker leaves only the routers of connections that were open (`AllReleased`), replaced routers go (`OldGoes`), the probes follow a reload (`ProbesFollow`) | 3 routers (two reloads, with failures), 2 connections. 16 543 states |
| `BackendPool` | Each round gives each backend its share (`EvenShare`); no counter passes its limit and dynamic weights stay within the total times the number of other backends, through failures (`CurrentBounded`) | 3 backends of weights 2, 1, 1 under each algorithm, rise = fall = 2, 3 attempts; they go down for want of descriptors and the probes bring them back. 1 722 748 states |
| `BackendPoolConverges` | `up` ends up as the server is, whichever thread wrote last (`Converges`) | 2 backends, rise = fall = 2, 3 attempts, 2 changes of a server. 402 816 states |
| `Supervisor` | No worker outlives the loop of the supervisor, also if `fork` failed half-way (`NoOrphan`); a signal sent while nothing else is under way ends every worker (`TermEnds`) or makes every worker go by the new file (`ReloadReaches`) | 3 workers, 2 signals, 1 death. 116 272 states |
| `Worker` | No descriptor is lost, at any point and at the end (`FdExact`); nothing is closed before what uses it (`NeedsHeld`); no readiness that is told once is used up with something left to do, by the accept loops, by partial writes or by registering a pipe that has bytes already (`NothingMissed`); a statistics client is let go of (`Answered`); nobody waits in the listener for ever (`Admitted`); a SIGTERM ends the worker whatever surrounds it, also before the loop runs (`TermHeeded`) | 7 or 9 descriptors, so that they run out or do not; a snapshot of 2 units, 2 clients of each kind but 3 in all, two SIGHUPs and a pipe of two bytes. 500 593 states |
| `Chunked` | No size line grows past its limit and none inherits from the one before (`LineBounded`); cut anywhere, a good body ends at its last byte and a bad one is refused at the line that is bad (`Agrees`) | counter up to 20, size lines of 4, bodies of up to two chunks whose data looks like size lines. 31 633 states |
| `HttpHead` | The verdict is that of the head as a whole (`VerdictOfWhole`); the next hop reads what this one read (`NextHopAgrees`); X-Forwarded-For grows by one address a hop (`ChainGrows`); a response is kept open only if its end is known (`ResponseFraming`) | up to 3 lines of 10 that matter in every order, 9 odd ones, 2 hops; limit of 8 units, room for 11. 61 315 states |
| `Reload` | Each listener goes on serving its frontend (`ServesItsFrontend`); every lookup finds what the file names (`LookupRight`); numbers beyond an `int` pass no check (`NumbersFit`); a reload is all or nothing (`AllOrNothing`) | 18 files, 3 loads, `int` of 4 bits, 3 ports, slots from 2 to 5. 8132 states |

The `violation` run shows the code doing other than what a comment says of it, as a
trace of TLC.

| run | refuted | what happens |
|---|---|---|
| `RelayUploadHang` | `Served` | `connection.c:616` returns while the response header is incomplete and does not reach `proxy_step`. If the event also said the upstream can be written to, it is spent: the rest of the request stays in `out`, where `:321` says it is tried again when IO_WRITE is reported |

### Further disagreements

These properties say what a comment or document of the repository says, and TLC
refutes them too; their configurations are kept beside, for a team that wants to
replay them. A `*Promises.cfg` checks one of them as it stands and names in its first
lines what to put in for the others.

| configuration | property | what happens, and where the text is |
|---|---|---|
| `RelayPromises` | `NotTruncated` | `connection.c:460` takes the upstream's close for the end of the message while a full buffer has left bytes of it in the socket (`:459`, `:305`) |
| | `UpstreamStream` | a response that is complete before its request was passed on: `start_next_request` (`connection.c:369`) keeps the upstream, on which half a request is followed by the next one (`:341`) |
| | `Connected` | an event of a descriptor closed in the same batch reaches the connect that reused its number (`io_event_epoll.c:180`; `connection.c:682`) |
| | `NoReadAhead` | while a response is awaited the next request is read as long as there is room (`connection.c:527`; `src/resumen.md:198`) |
| | `KeptIdle` | a 1xx response is taken for the final one (`http_parser.c:320`; `connection.c:583`) |
| | `ShutdownWhole` | the upstream is shut down with bytes of the client still unread because the buffer was full (`connection.c:465`) |
| | `HeaderFirst` | a half-close of the client runs `proxy_step`, which forwards the part of a response header that is there (`connection.c:617`). If that response then turns out too large or malformed, `ClientStream` fails as well; `RelayFaults` therefore has no script with a response header longer than its buffer |
| | `LargeHeaderOnly` | 431 for a small header with a body that came along and does not fit with it (`connection.c:698`; `http_parser.h:18`) |
| `ConnManagerPromises` | `ActiveIsLive` | `drop_upstream` (`connection.c:198`) discounts an upstream that was never counted, so `active` falls below the live connections that `backend_pool.c:14` says it is |
| | `NoLeak` | a socket that could not be registered is overwritten by the next attempt (`connection.c:683`; `:220`) |
| | `NoStarvation` | rewriting takes a third slot, so two per connection run out (`connection.c:689`; `main.c:190`) |
| `LogRingTwoProducers` | `InOrder` | the probes log (`health.c:222`) while the loop does; `log.h:12-14` says there are no concurrent producers |
| `RouterRcuPromises` | `FreedOnce` | a router that could not be built has its configuration freed twice (`router.c:219`, `main.c:98`; `router.h:20`) |
| | `NothingLeft` | connections open at the end keep their routers (`main.c:329`) |
| | `FreshIsDue` | a reload does not restart the wait for the next probe (`health.c:189`; `:187`) |
| `BackendPoolExhausted` | `Converges` | the lack of descriptors counts as a failure of the backend (`connection.c:794`; `backend_pool.c:214`) |
| `BackendPoolReturn` | `OnlyProbesReturn` | connects that were on their way bring a backend back without the probes (`backend_pool.c:193`; `src/resumen.md:140`) |
| `BackendPoolBurst` | `CleanReturn` | a backend brought back by the probes keeps its dynamic weight (`backend_pool.c:227`; `:196`) |
| `SupervisorLost` | `TermAlways` | a second signal before the first was relayed takes its place, and one that arrives outside `wait` is relayed only when something else ends it (`main.c:346`, `:458`; `:444`) |
| `SupervisorYoung` | `HupHarmless` | a SIGHUP relayed to a worker that has not come to `setup_signals` kills it (`main.c:467`; `:58`) |
| `WorkerFew` | `TriedAgain` | without descriptors `accept` stops, and as the listener is edge-triggered the clients wait until another one comes (`listener.c:159`; `:157`) |
| `WorkerSilent` | `SaysWhy` | a worker that fails at its start returns before `log_shutdown`, and the line that says why may stay in the ring (`main.c:236`; `:219`) |
| `HttpHeadLarge` | `LargeRefused` | a head over the limit is accepted if it is complete when it is first looked at (`http_parser.c:267`; `http_parser.h:18`) |
| `HttpHeadTwice` | `NoAddressLost` | of several X-Forwarded-For lines the last one remains (`http_parser.c:505`; `http_parser.h:100`) |
| `ReloadPromises` | `WeightsPositive` | a weight of 2^32 passes the check and is 0 as an `int` (`config.c:331`) |
| | `PortsApart` | two spellings of an address share a port (`config.c:519`; `:516`) |
| | `RouteFound` | a host with a capital letter in the file is never found (`router.c:184`; README of the repository, line 45) |

## 4. Why the bounds are enough

* *Relay.* The code compares lengths only with the capacity of a buffer, with what
  is left of a message and with zero. A buffer of 5 tokens with messages of 1 to 9
  is on both sides of each comparison; a client send buffer of 2 fills in
  every response of more than a token, and makes both back-pressure and its
  release happen. `UpstreamRoom = 10` in the passing runs is room for a whole request:
  with less, `RelayUploadHang` happens, which is a fact about the code and
  not about the bound. The peers in the passing runs do not pipeline and do not
  answer before the request is in, for the same reason (`RelayReadAhead`,
  `RelayEarlyAnswer`). One connection is enough for what `Relay` asks; what
  connections share is in `ConnManager`, `RouterRcu` and `BackendPool`.
* *ConnManager.* Three connections and four slots: two that hold both their buffers
  turn the third one away, and one that reads finds no slot to rewrite its request into. The slot and count invariants are also proved for any number.
* *LogRing.* Positions matter modulo the ring; five lines in two slots wrap
  twice. Also proved for any size.
* *RouterRcu.* A reload concerns the old and the new router; the third makes one
  reload overlap connections that outlived another.
* *BackendPool.* The round robin needs a third backend for the turn to skip somebody;
  rise and fall of 2 have a count between none and the limit. With one
  connection, `least_conn` never sees different counts at a pick: what it needs of
  them is `ActiveIsLive`, which is refuted. In the safety run servers stay good and backends go
  down for want of descriptors; in `BackendPoolConverges` servers change twice and
  descriptors do not run out, for if they do without end a backend that is well is
  taken down for ever (`BackendPoolExhausted`).
* *Supervisor.* Three workers leave one before, one at and one after the place where a
  round of kills or of forks is interrupted; two signals overtake each other. The
  safety half is proved for any number.
* *Worker.* Six descriptors is what a worker holds when all of it is up; with 7 a single client
  exhausts them, with 9 nobody has to wait. Two units of a snapshot make a first write
  that is partial. Two bytes in the pipe let a SIGHUP and a SIGTERM be read in either order, and
  two SIGHUPs fill it, so that a SIGTERM is lost (`told` stays false) and may be sent again.
* *Chunked.* What matters of the counter is which side of `(UMax - d) / 16` it is on: 20 is reached
  by sizes of one, two and four digits and passed by two. Proved for any width and stream.
* *HttpHead.* Lines interact in pairs (two that contradict each other, or one before the
  other); the third has a line between. The second hop reads what the first wrote, and a
  third would read the same again. Proved for any heads and any number of hops.
* *Reload.* The files differ from a usual one in one thing each: an order, a number of frontends, a
  value at, below or beyond the width. Three loads are a start, a reload and another from
  its result. Hosts that share a bucket and hosts that do not are both there. The safety half is
  proved for any files.

Constants that bound an otherwise endless count: `MaxLines`, `Routers`, `Changes`,
`MaxSignals`, `Deaths`, `Arrivals`, `Queries`, `Visits`, `Hups`, `Hops`, `MaxLoads`, and the
length of the scripts. `CHECK_DEADLOCK FALSE` is said of the systems that stop: a
closed connection stays closed (`Relay`), the worker ends (`RouterRcu`, `Worker`), so does the
supervisor, a body or a head is read to its end (`Chunked`, `HttpHead`), and after
`MaxLoads` nothing is left to load (`Reload`).

## 5. Fairness

* `Relay`: the loop turns whenever it has something to do (`LoopFairness`, weak
  fairness of `Loop` with its guard and effect written out, because TLC would evaluate
  the handlers twice for `ENABLED`); connects get a result; peers read what
  they are sent, finish the message they are in, and a server that said its last word closes.
  No fairness on faults.
* `LogRing`: the consumer thread runs, and `log_shutdown` waits for it.
* `RouterRcu`: handlers run to their end, probes have timeouts; strong
  fairness of `Swap` only, since it takes a mutex that the probes take again and
  again, and POSIX mutexes are assumed not to starve a waiter for ever.
* `BackendPool`: handlers run to their end, the probes go on. None on the
  connections: nobody need send a request.
* `Supervisor`: the process runs, the kernel delivers a pending signal, a worker goes on
  (it gets to its `setup_signals`, handles what it is told, ends when told to). None on deaths
  or on the operator.
* `Worker`: the process runs, and a client of the statistics socket reads what it is
  sent. None on who comes. `Admitted` and `Answered` suppose descriptors for all
  (`Ample`), without which `WorkerFew` refutes the first. So does what `NothingMissed` says of
  clients who wait.

## 6. What is proved

`Relay_proof`, for any scripts, any liberties the peers take and any sizes of the buffers and
of the sockets' buffers (assumption `RelayAssumption`):

* `TypeCorrect`: `TypeOK`, no buffer, offset or count of attempts passes its limit. The invariant
  `TypeInv` is `Fits` (types, capacities, and the slots that are free or with the
  connection add up) and `Shape` (what each state says of the struct: which buffers it has, when
  offsets are zero). Neither is inductive alone: that `ReadClient` writes within a buffer rests
  on the state having one. `PrepareRequest` is where it is tight: the request grows only if it fits (`WrittenFits`).
  One lemma for each function of the code that changes the world, then one for each
  handler; a step of the connection is `Become` of one of them.
* `RetriesWhole`: `RetryWhole`, from `Shape`.

The theorems on the two streams have one hypothesis, `Mannered`: requests do not overlap
and are not answered before they are whole, each has one response, a message
without a body has none, response headers come whole, and only the last response is delimited by
the close. Each of these is needed, or takes the place of a disagreement of section 3: without
it `RelayPromises` refutes one of the properties (`pipelining`, `earlyAnswer`, 1xx responses, headers
in parts with a half-close, a close with the buffer full). What is left is
not tame: resets and half-closes of either end at any point, servers that close
a kept connection at the worst moment, refused connects, registrations that fail, no backend
up, messages that do not parse, and buffers and sockets of any size, so that any read and any write
is partial.

* `StreamAlways`: the invariant `StreamInv == TypeInv /\ Sides /\ Flow(World) /\ Shown(World)`. `Sides` is
  what the peers know of their own messages. `Flow` follows every token from one peer to the
  other: what the client got, what is in its socket, in the buffer `in`, in the
  upstream's socket and not sent yet make one sequence of whole responses (`Chained`), and so do
  requests the other way; and for each state of the connection it says where in the exchange they
  stand: `Resting` (nothing under way), `Trying` (the request is in `out` from its
  first byte, nobody has seen it), `Relayed` (one request and its response, which
  the counters `reqLeft` and `respLeft` measure). `Shown` says that a finished response
  waits only for room in the client's socket. There are lemmas on segments of messages
  (`SegJoin`, `SegSplit`, `ChainAppend`, `JoinParts`), then one `*Flow` lemma for each function of the
  code and each step of the two ends. TLC checked `StreamInv` on the scripts that are `Mannered`
  before it was proved.
* `ClientWhole`, `UpstreamWhole`, `IdleKept`: `ClientStream`, `UpstreamStream` and `KeptIdle`, from it.
* `CompleteIsWhole`: `NotTruncated` for responses by length, in chunks or without a body, from it.
* `CompleteUncut`: `NotTruncated` for all responses, with a second hypothesis, `Roomy`: those that end with
  the connection fit the buffer. Without it the property is false (section 3). The invariant is
  `HeardInv == StreamInv /\ Heard(World)`. `Heard` follows the end of the upstream's stream from the socket
  through the batch of events to `upEof`: the server ends it between two responses (`Over`); an event of the batch
  that reports an end is of this upstream, not of one that was dropped and whose descriptor
  has a new owner (`Warned`, which holds but while a connect is under way, and `Single`); and when the end is noted, nothing
  of the response is left in the socket (`Room`), because what was sent of it fits what is free in `in`. One `*Heard`
  lemma for each function and step again, over `Follows`, which says what every function does to
  batch and socket. TLC checked `Heard` on `Mannered` scripts that are `Roomy` before it was proved.

`ConnManager_proof`, for any finite set of connections and any slots, backends and
attempts (assumption `ConnManagerAssumption`):

* `TypeCorrect`, `BuffersMatchState`: types, and `BuffersOfState`. Types alone are not inductive: that a
  reading connection has a buffer is what makes the slot `PrepareBuffers` gives
  back a slot. `Shape` is both.
* `SlotsSafe`: `SlotsExact`, no slot has two owners and none is lost. Inductive invariant
  `SlotInv == Shape /\ NoSharedSlot /\ NoLostSlot`: neither of the last two
  holds up without the other, as a slot that was shared could be given back twice.
  `PrepareBuffersEffect` is the lemma on the exchange of slots.
* `CountSafe`: `active` never exceeds the live connections. `CountInv` adds
  `BackendOfState` (a connection that connects is not counted), and the proof
  follows how the set `Live(b)` and its cardinality change in each step.

`Threads_proof`, for a ring of any size with one producer (hypothesis
`Producers = {p}`; with two the property is false):

* `RingInOrder`, `RingBounded`: `InOrder` and `TypeOK`. The inductive invariant `IInv` adds `Sync` (the
  counters are the lengths of what was published and taken), `Writer` and `Reader` (what
  each thread found out and acts on is still so), and `Ring` (slots between tail and head
  hold the lines not taken yet). The lemma `SlotsDiffer` is the arithmetic:
  positions less than a turn apart differ modulo the size.
* `ShutdownFlushes`: `Flushed`, from `Reader`: the consumer leaves only with tail = head.
* `RingIsQueue`: `Implements`, the ring is the bounded queue of `LogQueue`. `IInv` is enough to say
  what the queue is made of (`InvMapped`: the lines between tail and head of what was
  published); then there is one lemma for each action that moves a line (`PublishPuts`,
  `DropLoses`, `TakeWrites`, `ReleaseFrees`, `RestartResets`), and the others leave the queue alone
  (`StillStutters`). `Ring` is what makes a line that is published the one that is
  written, and `Writer` that a line is dropped only when the queue is full.

and for any number of backends and connections, any weights, rise, fall and number of attempts
(assumption `BackendPoolAssumption`):

* `SharesEven`: `EvenShare`, each round of picks gives nobody more than his share. The inductive
  invariant is `PoolInv`. Its part for the round robin, `InTurn`, says where the round began: those have been
  picked whom `rr` has passed since (`Dist` is the distance on the ring), and somebody is left. So the first
  one up from `rr` on has not been picked yet (`TurnPicked`). Its part for the weights, `Weighted`, is an
  equation: after t picks of a round the dynamic weight of i is `t * Weight[i] - n[i] * Total`. Summed up over
  all, with the weights of the next pick added, that is positive, so somebody is owed something; whoever has the
  most is, and cannot have had his share (`MostOwed`). When everybody had his weight, all is back at zero. The
  equation holds until a backend goes down, and `Calm` says what keeps it: nobody loads a flag that is
  down before. `Sum` is a recursive function, like the loop of the code, and the lemmas on
  it (`SumAddsOne`, `SumScales`, `SumLess`) go by the turns of that loop (`EachTurn`).
* `WeightsBounded`: `CurrentBounded`, a dynamic weight stays within `(N - 1) * Total(Servers)` whoever goes down and comes
  back. Once some keep what they had while others go on, the weights of all no longer add up to
  zero, and no bound on each backend alone is inductive. `Spread` bounds what any k of them add up to, by
  half of `Cap(k) == k * (2N - 1 - k) * Total`. A pick raises all that are up and takes the whole
  of it from the highest (`PickWithin`): what a set then adds up to lies between what it had without those that
  were raised and what it had with the one that was picked, because nobody raised was above that one
  (`Averaged`), and `Cap` is concave (`CapConcave`). A reset leaves the others as they were
  (`ResetWithin`). For k = 1 that is the bound claimed. `Part` is a `Sum` over a set, and its lemmas
  (`PartJoin`, `PartOne`, `PartAtMost`) go by `EachTurn` too. So the code's `int` is wide enough as long as N times the
  total of the weights fits it; the parser limits neither from above (`config.c:329`).
* `PoolCounts`: `PoolTypeOK`. That `active` stays within the number of connections is `ActiveFits`: no backend
  counts more connections than are open on it. It can count fewer, for `drop_upstream` takes one
  off that was never added; and it rests on `Found`: a handler that reports a success
  between the steps of the probes still has its connection where it was.

`RouterRcu_proof`, for any finite sets of routers and connections:

* `RefcountExact`: the refcount of each router is the number of references to it, those
  in the hands of a thread included. `IInv == TypeOK /\ RefsExact /\ LifeByRefs /\ Hands`:
  `LifeByRefs` ties life to the count, and `Hands` says what loop and probes hold at
  each point, in particular that the lock covers what lies between reading
  `current` and counting it. `RefEffect`, `UnrefEffect`, `HoldersMore` and `HoldersLess` are the
  lemmas on what a step does to counts and to the cardinality of the holders.
* `NeverFreedInUse` and `EndReleasesAll` (`NoUseAfterFree`, `AllReleased`) follow from it:
  whoever uses a router is counted (`UsedIsCounted`). `RcuTypes` is the types.

`Supervisor_proof`, for any number of workers, signals and deaths:

* `OrphanFree`: `NoOrphan`. `CountInv` adds `Counted` (`alive` is what is left of N without
  the workers that were reaped), `NotYet` (those not forked yet do not live) and
  `Noted`. Leaving with `alive = 0` then means that all N were reaped
  (`ReapedOfWorkers`); leaving because `wait` has no child means there is none.
* `RelaysOnlySent`: only what the operator sent is ever relayed (`OnlySent`); `SignalInv`
  follows a signal from `pending` through `last` and `sup.sig` into an inbox. `TypeCorrect`: the types.

`Worker_proof`, for any number of descriptors, of clients and of signals:

* `OrderSafe`: `NeedsHeld`, the teardown closes no part before one that uses it, wherever the
  setup failed. `OrderInv` adds `Stage` (how far `run_worker` got says what it holds), `Undone`
  (what was closed stays closed) and `Uses` (`NeedsHeld` spelled out by part).
* `FdSafe`: `FdExact`. `FdInv` adds to `OrderInv` the equation itself (`Counted`, with
  `Cost` for what the parts have open) and `Hands`: a handler runs only for something that is
  open, so that `client_close` gives back one descriptor once. `CostIsSum` and `OpenFinite`
  are the lemmas on counting; one lemma for the setup, one for the teardown and one for the loop.
* `WakeupsKept`: `NothingMissed`, whatever a handler could do has its event still to come, or the
  handler is at it. `WakeInv` adds `Crowd` to `FdInv`: whoever came waits in a socket that is open, has a
  descriptor or is gone, so that with descriptors for all an accept loop stops only when nobody
  waits (`RoomForAll`). In `StepMissed` each step brings the event of what it makes possible, and a
  handler returns only with nothing left.

`HttpParser_proof`, for heads of any number of lines in any order, cut anywhere, any limit of a
head and any number of proxies in a row (assumption `HttpHeadAssumption`, which says only what a
head is made of):

* `HeadsJudgedWhole`: `VerdictOfWhole`. The loop of `hp_execute` sees one line at a time, the
  property looks at all of them, so the invariant `ReadInv` says of the lines before the one it is at
  what the property says of the whole: `ReadBefore` is what `http_request` holds after them,
  `SoundBefore` that none of them is a reason to refuse. `ReadNext` and `SoundNext` take them past one
  line, `ReadLast` and `SoundAll` from the last line to the whole.
* `HopsAgree`, `AddressesChained`: `NextHopAgrees` and `ChainGrows`, from `ChainInv`: each head in the
  row `Follows` from the one before. `RewriteInv` describes the loop of `hp_rewrite`: the lines it
  has kept are lines of the original in their order, which an increasing map says (`KeptBefore`).
  `KeptLines` is what such a map preserves (which lines have a name, and which is the last of them), and
  `RewriteFollows` that the lines added at the end do not contradict those that were kept.
* `ResponsesFramed`: `ResponseFraming`, by the same kind of invariant for `hp_response_execute`
  (`FieldsBefore`, `Framed`).
* The last line of a name and the size of a head are defined over all lines. The lemmas on them
  (`LatestAt`, `SizeNat`) go by the least number with a property (`LeastNat`), a first-order
  form of induction, which the provers can use.

and for any chunked stream, cut anywhere, any width of the counter and any limit of a line:

* `NeverWraps`: `remaining` stays within `0..UMax`. The lemma `DigitFits` is that the guard
  of the code is exact: `r <= (UMax - d) \div 16` if and only if `r * 16 + d <= UMax`.
* `SizeLinesBounded`: `LineBounded`: a size line never gets past its limit, and whenever one begins
  `remaining` and `line_len` are back at zero.
* `BodiesDelimited`: `Agrees`, for any bodies (assumption `ChunkedBodyAssumption`, which says only that
  a line has no byte that would end it). The scanner sees a byte at a time and the property
  compares it with the encoding of the whole body. The inductive invariant `PlacesInv` says
  where in the body it stands: in a good one (`GoodPlace`) in the size line of a chunk with the value of the digits
  so far, in its data with what is left of them, in a line of the trailer, or at the end; in a bad one (`BadPlace`)
  not past the bad line. `Layout` is where each piece lies in the stream, `ReadStep`, `PassStep` and
  `SkipStep` take the scanner past one byte of each kind, and `Fault` past the byte that is refused. The recursive
  functions of `ChunkedBody` are unfolded a turn at a time by `IterationExists`, and
  `EachPlace` is the induction over the pieces.

`Reload_proof`, for any files the operator may write (in the sense of `File`), integers of any
size, any width of `int`, any hash and any number of reloads:

* `ListenersServed`: `ServesItsFrontend`, each listener routes by the frontend of its own address after
  any reload, accepted or not. `NumbersSafe`: `NumbersFit`, every number a published configuration is used with is in
  its range, although they are narrowed after some checks and before others. `ReloadAtomic`: the
  action property `AllOrNothing`.
* The inductive invariant `Inv` follows the parser: `ParseTypes`, `Progress` (how far it has come with
  each list) and `Agrees` (what it built agrees with what it read), so that what is published
  passed every check (`PublishGood`). `HalfPositive` is an assumption because the provers know
  nothing of powers; TLC evaluates it.
* `LookupsRight`: `LookupRight`, a lookup finds the backend that the live file names. One half is
  about the operators: `table_build` enters each route (`EnterHolds`, `BuildHolds`, with
  `Holds` for what the table has after the first m routes), the insertion sort keeps them all and puts those
  with more labels first (`InsertSorted`, `SortIs`), and so the first entry of those that match is the one
  `Answer` means (`LookupIs`). It rests on what the parser checks: no host twice in a frontend, and
  an index that stands for the name. That is the other half, the invariant `RoutesInv`: `Routed` follows
  `parse_routes` from route to route, `TablesRight` says it of what is published. Recursion is dealt with
  by `Climb` and `Loop`, first-order forms of induction and of recursive definition.

Theorems rest on nothing but the named assumptions on constants in the modules
(`*Assumption`) and the standard library's facts on finite sets and sequences.

Every safety invariant and action property of the passing runs is stated by one of these theorems.
Only model-checked: the streams of `Relay` for response headers that come in parts; all liveness
(`Served`, `AllAnswered`, `Reaches`, `OldGoes`, `ProbesFollow`, `Converges`, `TermEnds`,
`ReloadReaches`, `Admitted`, `Answered`, `TermHeeded`), which is out of the prover's reach.

## 7. Not modelled

* *kqueue* (`io_event_kqueue.c`): its two filters report apart what epoll reports
  together, so its schedules are others; nothing here carries over to it.
* *The table of descriptors* that `io_event_common.c` lets grow: entries keep their index and
  no pointer to one is held over a call that may move it. The lookup is modelled.
* *The free list* that `buffer_pool.c` threads through its arena: a set here.
* *Text*: bytes within a header line (names without case, trimming), the wording of log lines and of the
  snapshots of `stats.c`. The path of the statistics socket.
* *Libraries*: TOML, the system's hash of connections over listeners, `net_compat.c`, which
  only wraps system calls.
* *Memory that runs out* where the code handles it like any other failure of the
  same function; it is modelled where it matters (`router_build`, buffers, `io_loop_add`,
  the snapshot of a statistics client).
* *Processes that get the number of a reaped worker*: `pids` keeps it (`main.c:466`), and
  `Supervisor` takes it for nobody's.
* *How often* the loop turns: a client that half-closes while an answer is awaited is reported again
  each time its mask is set (`connection.c:346`), which the relay takes as turns like others.
* Tests and the benchmark were read and are not part of the program.

## 8. Plan

Done: the modules of section 2. What is left, in this order:

1. `BufferPool`: the free list in the arena as a data structure, and `ConnManager`'s set
   `free` as its abstraction.
2. Proofs: the streams of `Relay` when headers come in parts and nobody half-closes.
3. `IoEventKqueue`: the two filters of a descriptor as separate events, against the promise of
   `io_event.h`, and `Relay` over it.
4. A composition of `ConnManager` with `RouterRcu`: what a connection holds of a pool that
   belongs to a router that was replaced.
