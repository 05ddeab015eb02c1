---------------------------- MODULE ConnManager ----------------------------
(***************************************************************************)
(* The connections of one worker (connection.c) and what they borrow:      *)
(* slots of the buffer arena (buffer_pool.c), a backend of the pool with   *)
(* its counter of connections, and a socket to it.  Relay follows the      *)
(* bytes of one connection; here those are left out, and whatever the      *)
(* bytes decide is a choice: which requests arrive, how they are answered, *)
(* which backend pool_pick returns and which calls fail.                   *)
(***************************************************************************)
EXTENDS Naturals, FiniteSets

CONSTANTS
  Conns,        \* the structs of the arena of connections
  Slots,        \* the slots of the buffer arena
  Backends,     \* the backends of all the pools
  MaxAttempts,  \* MAX_CONNECT_ATTEMPTS
  Null,         \* no slot, no backend
  AddFails      \* io_loop_add may fail for a socket that is connecting

ASSUME ConnManagerAssumption ==
  /\ IsFiniteSet(Conns)
  /\ MaxAttempts \in Nat \ {0}
  /\ Null \notin Slots /\ Null \notin Backends
  /\ AddFails \in BOOLEAN

VARIABLES
  state,     \* state of each connection; a closed one is on the free list
  out, in,   \* its buffers
  free,      \* the free list of the arena of buffers
  be,        \* its backend
  opened,    \* ghost: backend_conn_opened was called for that backend
  attempts,  \* connects tried for the request in hand
  active,    \* connections each backend is believed to have
  leaked,    \* ghost: a socket is open that no connection refers to
  starved    \* ghost: bufpool_get returned NULL

vars == <<state, out, in, free, be, opened, attempts, active, leaked, starved>>

States == {"FREE", "READING", "CONNECTING", "PROXYING"}

TypeOK ==
  /\ state    \in [Conns -> States]
  /\ out      \in [Conns -> Slots \cup {Null}]
  /\ in       \in [Conns -> Slots \cup {Null}]
  /\ free     \in SUBSET Slots
  /\ be       \in [Conns -> Backends \cup {Null}]
  /\ opened   \in [Conns -> BOOLEAN]
  /\ attempts \in [Conns -> 0..MaxAttempts]
  /\ active   \in [Backends -> Nat]
  /\ leaked   \in BOOLEAN
  /\ starved  \in BOOLEAN

Init ==
  /\ state    = [x \in Conns |-> "FREE"]
  /\ out      = [x \in Conns |-> Null]
  /\ in       = [x \in Conns |-> Null]
  /\ free     = Slots
  /\ be       = [x \in Conns |-> Null]
  /\ opened   = [x \in Conns |-> FALSE]
  /\ attempts = [x \in Conns |-> 0]
  /\ active   = [b \in Backends |-> 0]
  /\ leaked   = FALSE
  /\ starved  = FALSE

----------------------------------------------------------------------------
(* drop_upstream and conn_close.                                           *)

\* Mutant: the count never goes down.
ClosedNever(x) == active

\* backend_conn_closed, called for any backend the connection points to.
Closed(x) ==
  IF be[x] # Null /\ active[be[x]] > 0
  THEN [active EXCEPT ![be[x]] = @ - 1] ELSE active

DropUpstream(x) ==
  /\ active' = Closed(x)
  /\ be'     = [be EXCEPT ![x] = Null]
  /\ opened' = [opened EXCEPT ![x] = FALSE]

\* Both buffers go back, whatever the state the connection was in.
Returned(x) == (free \cup {out[x], in[x]}) \ {Null}

ReturnBuffers(x) ==
  /\ free' = Returned(x)
  /\ out'  = [out EXCEPT ![x] = Null]
  /\ in'   = [in EXCEPT ![x] = Null]

\* conn_close, from any handler and for any reason.
Close(x) ==
  /\ state[x] # "FREE"
  /\ state'    = [state EXCEPT ![x] = "FREE"]
  /\ attempts' = [attempts EXCEPT ![x] = 0]
  /\ DropUpstream(x) /\ ReturnBuffers(x)
  /\ UNCHANGED <<leaked, starved>>

----------------------------------------------------------------------------
(* conn_accepted.                                                          *)

Accept(x) ==
  /\ state[x] = "FREE"
  /\ \E s \in free :
       /\ free' = free \ {s}
       /\ out'  = [out EXCEPT ![x] = s]
  /\ state' = [state EXCEPT ![x] = "READING"]
  /\ UNCHANGED <<in, be, opened, attempts, active, leaked, starved>>

\* No buffer: the client gets a 503 and the struct goes straight back.
Reject(x) ==
  /\ state[x] = "FREE" /\ free = {}
  /\ starved' = TRUE
  /\ UNCHANGED <<state, out, in, free, be, opened, attempts, active, leaked>>

----------------------------------------------------------------------------
(* A whole request header: route_and_connect.                              *)

\* Mutant: the slot the request was read into goes back and stays in use.
PrepareBuffersInPlace(x) ==
  \E t \in IF in[x] = Null THEN free ELSE {in[x]} :
    /\ out'  = out
    /\ in'   = [in EXCEPT ![x] = t]
    /\ free' = (free \cup {out[x]}) \ {t}

\* prepare_request takes a slot for the rewritten request and gives back the
\* one it was read into; the buffer for the response is taken after that.
PrepareBuffers(x) ==
  \E s \in free :
    LET f == (free \ {s}) \cup {out[x]}
    IN  \E t \in IF in[x] = Null THEN f ELSE {in[x]} :
          /\ out'  = [out EXCEPT ![x] = s]
          /\ in'   = [in EXCEPT ![x] = t]
          /\ free' = f \ {t}

\* No slot to rewrite into: 503.
Starve(x) ==
  /\ state[x] = "READING" /\ free = {}
  /\ starved'  = TRUE
  /\ state'    = [state EXCEPT ![x] = "FREE"]
  /\ attempts' = [attempts EXCEPT ![x] = 0]
  /\ DropUpstream(x) /\ ReturnBuffers(x)
  /\ UNCHANGED leaked

\* The upstream connection of the last request goes to the right pool.
Reuse(x) ==
  /\ state[x] = "READING" /\ be[x] # Null
  /\ PrepareBuffers(x)
  /\ state' = [state EXCEPT ![x] = "PROXYING"]
  /\ UNCHANGED <<be, opened, attempts, active, leaked, starved>>

\* The loop over pool_pick and start_connect, n more attempts up to the one
\* that is under way with backend b.  The socket of an attempt that could not
\* be registered stays in upstream_fd, which the next attempt overwrites.
ConnectLoop(x, b, n) ==
  /\ attempts[x] + n <= MaxAttempts
  /\ attempts' = [attempts EXCEPT ![x] = @ + n]
  /\ be'       = [be EXCEPT ![x] = b]
  /\ opened'   = [opened EXCEPT ![x] = FALSE]
  /\ state'    = [state EXCEPT ![x] = "CONNECTING"]
  /\ \E lost \in BOOLEAN : /\ lost => AddFails /\ n > 1
                           /\ leaked' = (leaked \/ lost)

\* No upstream connection, or one to another pool, which is dropped first.
\* If the loop ends with no attempt under way the connection is closed: Close.
Connect(x) ==
  /\ state[x] = "READING"
  /\ PrepareBuffers(x)
  /\ \E b \in Backends, n \in 1..MaxAttempts : ConnectLoop(x, b, n)
  /\ active' = Closed(x)
  /\ UNCHANGED starved

----------------------------------------------------------------------------
(* The result of the connect: on_upstream_event in CONN_CONNECTING.        *)

Connected(x) ==
  /\ state[x] = "CONNECTING"
  /\ state'  = [state EXCEPT ![x] = "PROXYING"]
  /\ active' = [active EXCEPT ![be[x]] = @ + 1]
  /\ opened' = [opened EXCEPT ![x] = TRUE]
  /\ UNCHANGED <<out, in, free, be, attempts, leaked, starved>>

\* It failed: drop_upstream, and the loop goes on (or the connection closes).
Retry(x) ==
  /\ state[x] = "CONNECTING"
  /\ \E b \in Backends, n \in 1..MaxAttempts : ConnectLoop(x, b, n)
  /\ active' = Closed(x)
  /\ UNCHANGED <<out, in, free, starved>>

----------------------------------------------------------------------------
(* The end of a response: start_next_request, and the idle upstream.       *)

FinishKeep(x) ==
  /\ state[x] = "PROXYING"
  /\ state'    = [state EXCEPT ![x] = "READING"]
  /\ attempts' = [attempts EXCEPT ![x] = 0]
  /\ UNCHANGED <<out, in, free, be, opened, active, leaked, starved>>

FinishDrop(x) ==
  /\ state[x] = "PROXYING"
  /\ state'    = [state EXCEPT ![x] = "READING"]
  /\ attempts' = [attempts EXCEPT ![x] = 0]
  /\ DropUpstream(x)
  /\ UNCHANGED <<out, in, free, leaked, starved>>

IdleUpstream(x) ==
  /\ state[x] = "READING" /\ be[x] # Null
  /\ DropUpstream(x)
  /\ UNCHANGED <<state, out, in, free, attempts, leaked, starved>>

----------------------------------------------------------------------------

Step(x) ==
  \/ Close(x) \/ Accept(x) \/ Reject(x) \/ Starve(x)
  \/ Reuse(x) \/ Connect(x) \/ Connected(x) \/ Retry(x)
  \/ FinishKeep(x) \/ FinishDrop(x) \/ IdleUpstream(x)

Next == \E x \in Conns : Step(x)

Spec == Init /\ [][Next]_vars

----------------------------------------------------------------------------
(* Properties.                                                             *)

\* No slot is lent twice: not to two connections, not for both directions of
\* one, and not while it is on the free list (bufpool_get, bufpool_put).
NoSharedSlot ==
  \A x, y \in Conns :
    /\ out[x] # Null => out[x] \notin free /\ out[x] # in[y] /\ (out[x] = out[y] => x = y)
    /\ in[x]  # Null => in[x]  \notin free /\ (in[x] = in[y] => x = y)

\* No slot is lost: what is not free is held by a connection that is alive.
NoLostSlot ==
  \A s \in Slots \ free : \E x \in Conns : state[x] # "FREE" /\ s \in {out[x], in[x]}

\* Every slot is in one place: on the free list, or lent to one connection for
\* one direction, whatever fails half-way.
SlotsExact == NoSharedSlot /\ NoLostSlot

\* A connection has the buffers its state works on, and only live ones do.
BuffersOfState ==
  \A x \in Conns :
    /\ state[x] = "FREE" <=> out[x] = Null
    /\ state[x] = "FREE" => in[x] = Null
    /\ state[x] \in {"CONNECTING", "PROXYING"} => in[x] # Null

\* A connection points to a backend while it connects and while it has an
\* upstream connection; the backend was told of the latter only.
BackendOfState ==
  \A x \in Conns :
    /\ state[x] = "FREE" => be[x] = Null
    /\ state[x] \in {"CONNECTING", "PROXYING"} => be[x] # Null
    /\ opened[x] <=> be[x] # Null /\ state[x] # "CONNECTING"

Live(b) == {x \in Conns : be[x] = b /\ opened[x]}

\* A backend is never believed busier than it is (backend_conn_opened and
\* backend_conn_closed), or least_conn would keep away from it for good.
NeverOvercounted == \A b \in Backends : active[b] <= Cardinality(Live(b))

\* The count that least_conn reads is the number of live connections.
ActiveIsLive == \A b \in Backends : active[b] = Cardinality(Live(b))

\* Every socket to a backend belongs to a connection that will close it.
NoLeak == ~leaked

\* Two slots per connection are enough (slots_for).
NoStarvation == ~starved
=============================================================================
