------------------------------- MODULE Relay -------------------------------
(***************************************************************************)
(* One client connection of the proxy and the upstream connection it       *)
(* borrows (connection.c), on top of the edge-triggered event loop         *)
(* (io_event_epoll.c) and of the two TCP sockets, with the client and the  *)
(* server at the far ends as environment.                                  *)
(*                                                                         *)
(* Bytes are tokens <<i, j>>: token j of message i of a script.  The first *)
(* hdr tokens of a message are its header, the following body ones its     *)
(* body; the header is recognised when its last token is in the buffer.    *)
(* Token <<i, 0>> is what hp_rewrite adds to the header of request i, and  *)
(* <<0, code>> is a response made up by the proxy itself.                  *)
(***************************************************************************)
EXTENDS Naturals, Sequences, FiniteSets

CONSTANTS
  Scripts,       \* [reqs, resps, may]: the messages the two ends may exchange, and
                 \* what else may happen to them
  Slot,          \* capacity of the buffers `out` and `in`, in tokens
  Growth,        \* tokens hp_rewrite adds to a request header
  ClientRoom,    \* capacity of the send buffer of the client socket
  UpstreamRoom,  \* capacity of the send buffer of the upstream socket
  MaxAttempts,   \* MAX_CONNECT_ATTEMPTS
  Slots          \* slots of the buffer arena

\* What the environment may do besides exchanging the messages:
Liberties == {
  "pipelining",  \* the client sends a request before the last answer is in
  "earlyAnswer", \* the server answers once it has the header of the request
  "halfClose",   \* the client closes its sending side at any time
  "reset",       \* either peer resets its connection at any time
  "idleClose",   \* the server closes a connection on which it owes nothing
  "refusal" }    \* connects and registrations may fail, no backend may be up

Modes == {"NONE", "LENGTH", "CHUNKED", "UNTIL_CLOSE"}
Forms == {"ok", "badHeader", "badChunk"}

Request  == [hdr : Nat \ {0}, body : Nat, mode : Modes \ {"UNTIL_CLOSE"},
             keep : BOOLEAN, form : Forms, pool : Nat]
Response == [hdr : Nat \ {0}, body : Nat, mode : Modes, keep : BOOLEAN,
             form : Forms, answers : Nat \ {0}, final : BOOLEAN]

ASSUME RelayAssumption ==
  /\ \A s \in Scripts : /\ s.reqs \in Seq(Request) /\ s.resps \in Seq(Response)
                        /\ s.may \subseteq Liberties
  /\ {Slot, ClientRoom, UpstreamRoom, MaxAttempts, Slots} \subseteq Nat \ {0}
  /\ Growth \in 0..1

VARIABLES
  script,  \* the script of this behaviour, which stays as it is
  c,       \* struct conn
  net,     \* the two sockets, as the kernel of the proxy sees them
  ep,      \* the epoll set and the batch being dispatched by io_loop_run
  res,     \* what is shared with other connections: arena and counters
  cli,     \* the client
  srv      \* the server, as seen on the current upstream connection

vars == <<script, c, net, ep, res, cli, srv>>

\* What a handler of the proxy reads and writes.
World == [c |-> c, net |-> net, ep |-> ep, res |-> res]

May(liberty) == liberty \in script.may

Err(code) == <<0, code>>
IsErr(t)  == t[1] = 0
FDs  == {"C", "U"}            \* client_fd and upstream_fd
Evs  == {"R", "W", "E", "X"}  \* IO_READ, IO_WRITE, IO_EOF, IO_ERR

Total(m)   == m.hdr + m.body
Least(a, b) == IF a <= b THEN a ELSE b
Take(s, n) == SubSeq(s, 1, n)
Drop(s, n) == SubSeq(s, n + 1, Len(s))
Has(s, t)  == \E n \in 1..Len(s) : s[n] = t

----------------------------------------------------------------------------
(* The struct, the sockets and the event loop.                             *)

Blank ==
  [state |-> "NEW", hasOut |-> FALSE, hasIn |-> FALSE, out |-> <<>>,
   outOff |-> 0, in |-> <<>>, inOff |-> 0, req |-> 0, reqReady |-> FALSE,
   reqLeft |-> 0, reqComplete |-> FALSE, resp |-> 0, respLeft |-> 0,
   respHdr |-> FALSE, respComplete |-> FALSE, clientEof |-> FALSE,
   upEof |-> FALSE, keep |-> TRUE, attempts |-> 0, be |-> FALSE, pool |-> 0]

NoUpstream(n) == [n EXCEPT !.u = "none", !.uRecv = <<>>, !.uFin = FALSE,
                           !.uRst = FALSE, !.uShut = FALSE, !.toUp = <<>>]

\* The conditions the kernel reports for a descriptor (to_epoll always asks
\* for EPOLLRDHUP; EPOLLERR and EPOLLHUP are reported without asking).
Poll(n, fd) ==
  IF fd = "C"
  THEN {e \in Evs : \/ e = "R" /\ (n.cRecv # <<>> \/ n.cFin \/ n.cRst)
                    \/ e = "W" /\ (Len(n.toCli) < ClientRoom \/ n.cRst)
                    \/ e = "E" /\ (n.cFin \/ n.cRst)
                    \/ e = "X" /\ n.cRst}
  ELSE {e \in Evs : \/ n.u = "failed" \/ n.uRst
                    \/ e = "R" /\ (n.uRecv # <<>> \/ n.uFin)
                    \/ e = "W" /\ n.u = "up" /\ Len(n.toUp) < UpstreamRoom
                    \/ e = "E" /\ n.uFin}

Events(n, e, fd) == Poll(n, fd) \cap (e.mask[fd] \cup {"E", "X"})

\* Mutant: the kernel does not look at the descriptor again.
ArmNoPoll(w, fd, m) == [w EXCEPT !.ep.mask[fd] = m, !.ep.reg = @ \cup {fd}]

\* io_loop_add and io_loop_mod: the kernel polls the descriptor again, so a
\* condition that already holds is reported once more in spite of EPOLLET.
Arm(w, fd, m) ==
  LET e == [w.ep EXCEPT !.mask[fd] = m, !.reg = @ \cup {fd}]
  IN  [w EXCEPT !.ep = [e EXCEPT !.rdy =
        IF Events(w.net, e, fd) # {} THEN @ \cup {fd} ELSE @ \ {fd}]]

\* io_loop_del.  The watch goes; an event of the descriptor that was already
\* returned by epoll_wait stays in the batch.
Disarm(w, fd) == [w EXCEPT !.ep.reg = @ \ {fd}, !.ep.rdy = @ \ {fd},
                           !.ep.mask[fd] = {}]

----------------------------------------------------------------------------
(* Closing and error responses.                                            *)

DropUpstream(w) ==
  LET v == IF w.net.u = "none" THEN w
           ELSE [Disarm(w, "U") EXCEPT !.net = NoUpstream(@)]
  IN  [v EXCEPT !.c.be = FALSE,
                !.res.active = IF v.c.be /\ @ > 0 THEN @ - 1 ELSE @]

\* The slots of the arena a connection holds.
Held(k) == {b \in {"out", "in"} : (b = "out" /\ k.hasOut) \/ (b = "in" /\ k.hasIn)}

\* The struct goes back to the free list, where conn_acquire will clear it.
ConnClose(w) ==
  LET v == Disarm(DropUpstream(w), "C")
  IN  [v EXCEPT !.c = [Blank EXCEPT !.state = "CLOSING"],
                !.net.cRecv = <<>>,
                !.res.free = @ + Cardinality(Held(w.c))]

\* A single attempt to write; it does not matter whether it gets through.
SendError(w, code) ==
  ConnClose([w EXCEPT
    !.net.toCli = IF ~w.net.cRst /\ Len(@) < ClientRoom THEN Append(@, Err(code)) ELSE @,
    !.res.errors = @ + 1])

----------------------------------------------------------------------------
(* Draining reads and writes.                                              *)

ReadClient(w) ==
  LET n == Least(Slot - Len(w.c.out), Len(w.net.cRecv))
  IN  [w EXCEPT !.c.out = @ \o Take(w.net.cRecv, n), !.net.cRecv = Drop(@, n)]

\* Mutant: the capacity of the buffer is not looked at.
ReadUpstreamAll(w) == [w EXCEPT !.c.in = @ \o w.net.uRecv, !.net.uRecv = <<>>]

ReadUpstream(w) ==
  LET n == Least(Slot - Len(w.c.in), Len(w.net.uRecv))
  IN  [w EXCEPT !.c.in = @ \o Take(w.net.uRecv, n), !.net.uRecv = Drop(@, n)]

\* drain_read reaches EOF, or the error, only if the buffer did not fill up.
ClientEof(v, ev) == "E" \in ev \/ (Len(v.c.out) < Slot /\ v.net.cFin)
ClientDead(v)    == Len(v.c.out) < Slot /\ v.net.cRst
UpEof(v, ev)     == "E" \in ev \/ (Len(v.c.in) < Slot /\ v.net.uFin)
UpDead(v)        == Len(v.c.in) < Slot /\ (v.net.uRst \/ v.net.u = "failed")

WriteUpstream(w) ==
  LET n   == IF w.net.u # "up" THEN 0
             ELSE Least(Len(w.c.out) - w.c.outOff, UpstreamRoom - Len(w.net.toUp))
      off == w.c.outOff + n
      end == off = Len(w.c.out)
  IN  [w EXCEPT !.net.toUp = @ \o SubSeq(w.c.out, w.c.outOff + 1, off),
                !.c.out    = IF end THEN <<>> ELSE @,
                !.c.outOff = IF end THEN 0 ELSE off]

WriteClient(w) ==
  LET n   == Least(Len(w.c.in) - w.c.inOff, ClientRoom - Len(w.net.toCli))
      off == w.c.inOff + n
      end == off = Len(w.c.in)
  IN  [w EXCEPT !.net.toCli = @ \o SubSeq(w.c.in, w.c.inOff + 1, off),
                !.c.in    = IF end THEN <<>> ELSE @,
                !.c.inOff = IF end THEN 0 ELSE off]

OutPending(w) == w.c.outOff < Len(w.c.out)
InPending(w)  == w.c.inOff < Len(w.c.in)
UpBroken(w)   == OutPending(w) /\ (w.net.u = "failed" \/ w.net.uRst \/ w.net.uShut)
CliBroken(w)  == InPending(w) /\ w.net.cRst

\* Mutant: the client is never waited for to take more.
ClientMaskRead(w)  == {e \in {"R"} : ~w.c.clientEof /\ ~w.c.reqComplete /\ Len(w.c.out) < Slot}

\* What update_masks waits for on either side.
ClientMask(w) ==
  {e \in {"R", "W"} : \/ e = "R" /\ ~w.c.clientEof /\ ~w.c.reqComplete /\ Len(w.c.out) < Slot
                      \/ e = "W" /\ InPending(w)}
UpstreamMask(w) ==
  {e \in {"R", "W"} : \/ e = "R" /\ ~w.c.upEof /\ Len(w.c.in) < Slot
                      \/ e = "W" /\ OutPending(w)}

UpdateMasks(w) ==
  LET v == Arm(w, "C", ClientMask(w))
  IN  IF w.net.u = "none" THEN v ELSE Arm(v, "U", UpstreamMask(w))

----------------------------------------------------------------------------
(* End of a response, and the relay step.                                  *)

Reqs  == script.reqs
Resps == script.resps

StartNextRequest(w) ==
  LET m     == Resps[w.c.resp]
      reuse == m.keep /\ ~w.c.upEof /\ m.mode # "UNTIL_CLOSE"
      v     == IF reuse THEN w ELSE DropUpstream(w)
      next  == [v EXCEPT !.c = [Blank EXCEPT !.state = "READING", !.pool = v.c.pool,
                                 !.hasOut = v.c.hasOut, !.hasIn = v.c.hasIn,
                                 !.be = v.c.be],
                         !.res.requests = @ + 1]
      armed == Arm(next, "C", {"R"})
  IN  IF armed.net.u = "none" THEN armed ELSE Arm(armed, "U", {"R"})

FinishResponse(w) ==
  IF ~w.c.keep \/ ~Resps[w.c.resp].keep THEN ConnClose(w) ELSE StartNextRequest(w)

ProxyStep(w) ==
  LET a == WriteUpstream(w)
      b == WriteClient(a)
      d == [b EXCEPT !.c.respComplete =
              @ \/ (b.c.upEof /\ b.c.respHdr /\ Resps[b.c.resp].mode = "UNTIL_CLOSE"),
                     !.net.uShut =
              @ \/ (b.c.clientEof /\ ~OutPending(b) /\ b.net.u = "up")]
  IN  IF w.net.u # "none" /\ UpBroken(w) THEN ConnClose(w)
      ELSE IF CliBroken(a) THEN ConnClose(a)
      ELSE IF d.c.respComplete /\ ~InPending(d) THEN FinishResponse(d)
      ELSE IF d.c.upEof /\ ~d.c.respComplete /\ ~InPending(d) THEN ConnClose(d)
      ELSE UpdateMasks(d)

----------------------------------------------------------------------------
(* Parsing, routing and connecting.                                        *)

\* hp_execute and hp_response_execute: the verdict on the bytes at hand.
Parse(msgs, buf) ==
  IF buf = <<>> THEN "more"
  ELSE LET m == msgs[buf[1][1]]
       IN  IF buf[1][2] # 1 THEN "error"
           ELSE IF Len(buf) < m.hdr THEN "more"
           ELSE IF m.form = "badHeader" THEN "error"
           ELSE "done"

\* Mutant: off by one.
LeftShort(left, got) == IF got + 1 >= left THEN 0 ELSE left - got

\* The scanners of Content-Length and chunked bodies: what is left after
\* `got` more tokens; a malformed chunked body shows at its last token.
Left(left, got) == IF got >= left THEN 0 ELSE left - got
Garbled(m, left) == m.mode = "CHUNKED" /\ m.form = "badChunk" /\ left = 0

Rewritten(i) == [n \in 1..Growth |-> <<i, 0>>] \o [n \in 1..Reqs[i].hdr |-> <<i, n>>]

\* Mutant: the body that came with the header is not copied.
BodyDropped(w, m) == <<>>

\* The bytes of the body that came with the header.
BodyRead(w, m) == Drop(w.c.out, m.hdr)

\* prepare_request: a transient third slot holds the rewritten request until
\* the one that was read into goes back.  The result is closed on failure.
PrepareRequest(w) ==
  LET i    == w.c.out[1][1]
      m    == Reqs[i]
      rest == BodyRead(w, m)
      left == IF m.mode = "NONE" THEN 0 ELSE Left(m.body, Len(rest))
      v    == [w EXCEPT !.c.req = i, !.c.out = Rewritten(i) \o rest, !.c.outOff = 0,
                        !.c.reqLeft = left, !.c.reqComplete = (left = 0)]
  IN  IF w.res.free = 0 THEN SendError(w, 503)
      ELSE IF Growth + Len(w.c.out) > Slot THEN SendError(w, 431)
      ELSE IF Garbled(m, left) THEN SendError(v, 400)
      ELSE [v EXCEPT !.c.reqReady = TRUE]

\* The loop of route_and_connect: f attempts fail on the spot, then either
\* one is under way, or no backend is up, or no attempt is left.
ConnectLoop(w) ==
  LET v     == Arm(w, "C", {})
      tries == MaxAttempts - w.c.attempts
      Connecting(f) ==
        Arm([v EXCEPT !.c.attempts = @ + f + 1, !.c.be = TRUE,
                      !.c.state = "CONNECTING", !.net.u = "connecting"], "U", {"W"})
      some  == IF May("refusal") THEN 0..(tries - 1) ELSE {0} \cap 0..(tries - 1)
  IN  {Connecting(f) : f \in some}
      \cup IF May("refusal") \/ tries = 0 THEN {SendError(v, 502)} ELSE {}

RouteAndConnect(w) ==
  LET m == Reqs[IF w.c.reqReady THEN w.c.req ELSE w.c.out[1][1]]
      v == IF w.net.u # "none" /\ w.c.pool # m.pool THEN DropUpstream(w) ELSE w
      k == [v EXCEPT !.c.pool = m.pool, !.c.keep = IF w.c.reqReady THEN @ ELSE m.keep]
      p == IF w.c.reqReady THEN k ELSE PrepareRequest(k)
      q == [p EXCEPT !.c.hasIn = TRUE, !.res.free = IF p.c.hasIn THEN @ ELSE @ - 1]
  IN  IF m.pool = 0 THEN {SendError(w, 502)}
      ELSE IF p.c.state = "CLOSING" THEN {p}
      ELSE IF ~p.c.hasIn /\ p.res.free = 0 THEN {SendError(p, 503)}
      ELSE IF q.net.u # "none" THEN {ProxyStep(Arm([q EXCEPT !.c.state = "PROXYING"],
                                              "U", {"R", "W"}))}
      ELSE ConnectLoop(q)

----------------------------------------------------------------------------
(* The handlers.                                                           *)

Become(W) == \E w \in W : /\ c' = w.c /\ net' = w.net /\ ep' = w.ep /\ res' = w.res
                          /\ UNCHANGED <<script, cli, srv>>

\* conn_accepted; io_loop_add may find no memory.
Accept ==
  LET got == [World EXCEPT !.c.state = "READING", !.c.hasOut = TRUE, !.res.free = @ - 1]
  IN  /\ c.state = "NEW"
      /\ Become(IF res.free = 0 THEN {SendError(World, 503)}
                ELSE {Arm(got, "C", {"R"})} \cup IF May("refusal") THEN {ConnClose(got)} ELSE {})

\* epoll_wait: the events of the ready descriptors, as they are now.
Wait ==
  /\ ep.batch = {} /\ ep.rdy # {}
  /\ ep' = [ep EXCEPT !.rdy = {},
              !.batch = {b \in [fd : ep.rdy, ev : SUBSET Evs] :
                           b.ev = Events(net, ep, b.fd) /\ b.ev # {}}]
  /\ UNCHANGED <<script, c, net, res, cli, srv>>

\* io_loop_run calls the handler registered for the descriptor of the event:
\* the one that asked for it, or whoever holds that number by now.
Taken(b) == [World EXCEPT !.ep.batch = @ \ {b}]

Skip(b) == b.fd \notin ep.reg /\ Become({Taken(b)})

ClientReset(b) == b.fd = "C" /\ "C" \in ep.reg /\ "X" \in b.ev /\ Become({ConnClose(Taken(b))})

ClientRequest(b) ==
  LET v   == ReadClient(Taken(b))
      eof == ClientEof(v, b.ev)
      st  == Parse(Reqs, v.c.out)
  IN  /\ b.fd = "C" /\ "C" \in ep.reg /\ "X" \notin b.ev /\ c.state = "READING"
      /\ Become(IF ClientDead(v) THEN {ConnClose(v)}
                ELSE IF eof /\ v.c.out = <<>> THEN {ConnClose(v)}
                ELSE IF st = "error" THEN {SendError(v, 400)}
                ELSE IF st = "more" /\ eof THEN {ConnClose(v)}
                ELSE IF st = "more" /\ Len(v.c.out) >= Slot THEN {SendError(v, 431)}
                ELSE IF st = "more" THEN {v}
                ELSE RouteAndConnect([v EXCEPT !.c.clientEof = eof]))

ClientBody(b) ==
  LET v    == ReadClient(Taken(b))
      got  == Len(v.c.out) - Len(c.out)
      feed == ~c.reqComplete /\ got > 0
      left == IF feed THEN Left(c.reqLeft, got) ELSE c.reqLeft
      next == [v EXCEPT !.c.reqLeft = left,
                        !.c.reqComplete = IF feed THEN left = 0 ELSE @,
                        !.c.clientEof = @ \/ ClientEof(v, b.ev)]
  IN  /\ b.fd = "C" /\ "C" \in ep.reg /\ "X" \notin b.ev /\ c.state = "PROXYING"
      /\ Become(IF ClientDead(v) THEN {ConnClose(v)}
                ELSE IF feed /\ Garbled(Reqs[c.req], left) THEN {ConnClose(v)}
                ELSE {ProxyStep(next)})

\* While connecting, the client only gets its error looked at.
ClientIgnored(b) ==
  /\ b.fd = "C" /\ "C" \in ep.reg /\ "X" \notin b.ev /\ c.state = "CONNECTING"
  /\ Become({Taken(b)})

\* SO_ERROR or the event itself tell that the connect failed.
ConnectFailed(b) == net.u = "failed" \/ "X" \in b.ev

ConnectResult(b) ==
  /\ b.fd = "U" /\ "U" \in ep.reg /\ c.state = "CONNECTING"
  /\ Become(IF ConnectFailed(b)
            THEN RouteAndConnect(DropUpstream(Taken(b)))
            ELSE {ProxyStep(Arm([Taken(b) EXCEPT !.c.state = "PROXYING",
                                                 !.res.active = @ + 1], "U", {"R", "W"}))})

\* Whatever happens to an upstream connection between requests, it is dropped.
IdleUpstream(b) ==
  /\ b.fd = "U" /\ "U" \in ep.reg /\ c.state = "READING"
  /\ Become({DropUpstream(Taken(b))})

\* Mutant: the request is tried again on another upstream.
UpstreamRetry(b) ==
  /\ b.fd = "U" /\ "U" \in ep.reg /\ c.state = "PROXYING" /\ "X" \in b.ev
  /\ Become(RouteAndConnect(DropUpstream(Taken(b))))

\* Mutant: the client is told, in whatever point of the response it is.
UpstreamError(b) ==
  /\ b.fd = "U" /\ "U" \in ep.reg /\ c.state = "PROXYING" /\ "X" \in b.ev
  /\ Become({SendError(Taken(b), 502)})

UpstreamReset(b) ==
  /\ b.fd = "U" /\ "U" \in ep.reg /\ c.state = "PROXYING" /\ "X" \in b.ev
  /\ Become({ConnClose(Taken(b))})

\* Mutant: a response is over when its header is in.
FeedHeader(v, got) == [v EXCEPT !.c.respComplete = TRUE]

\* feed_response_body: v holds `got` body tokens more than before.
FeedResponse(v, got) ==
  LET m    == Resps[v.c.resp]
      left == Left(v.c.respLeft, got)
  IN  IF m.mode = "NONE" THEN [v EXCEPT !.c.respComplete = TRUE]
      ELSE IF m.mode = "UNTIL_CLOSE" THEN v
      ELSE [v EXCEPT !.c.respLeft = left, !.c.respComplete = @ \/ left = 0]

UpstreamData(b) ==
  LET v     == ReadUpstream(Taken(b))
      eof   == UpEof(v, b.ev)
      first == ~c.respHdr
      st    == IF first THEN Parse(Resps, v.c.in) ELSE "done"
      h     == IF first THEN [v EXCEPT !.c.respHdr = TRUE, !.c.resp = v.c.in[1][1],
                                !.c.respLeft = Resps[v.c.in[1][1]].body]
               ELSE v
      fed   == FeedResponse(h, Len(v.c.in) -
                 IF first THEN Resps[v.c.in[1][1]].hdr ELSE Len(c.in))
  IN  /\ b.fd = "U" /\ "U" \in ep.reg /\ c.state = "PROXYING" /\ "X" \notin b.ev
      /\ Become(IF UpDead(v) THEN {ConnClose(v)}
                ELSE IF st = "error" THEN {SendError(v, 502)}
                ELSE IF st = "more" /\ (eof \/ Len(v.c.in) >= Slot) THEN {ConnClose(v)}
                ELSE IF st = "more" THEN {v}
                ELSE IF Garbled(Resps[h.c.resp], fed.c.respLeft) THEN {ConnClose(fed)}
                ELSE {ProxyStep([fed EXCEPT !.c.upEof = @ \/ eof])})

Dispatch ==
  \E b \in ep.batch :
    \/ Skip(b)
    \/ ClientReset(b) \/ ClientRequest(b) \/ ClientBody(b) \/ ClientIgnored(b)
    \/ ConnectResult(b) \/ IdleUpstream(b) \/ UpstreamReset(b) \/ UpstreamData(b)

----------------------------------------------------------------------------
(* The environment.  The kernel puts a descriptor on the ready list when   *)
(* something it is waited for happens (EPOLLET: once per happening).       *)

Wake(fd, what) ==
  IF fd \in ep.reg /\ (what \in ep.mask[fd] \/ what = "state")
  THEN ep' = [ep EXCEPT !.rdy = @ \cup {fd}] ELSE UNCHANGED ep

EnvStep == UNCHANGED <<script, c, res>>

ConnectDone ==
  /\ net.u = "connecting"
  /\ \E u \in {"up"} \cup IF May("refusal") THEN {"failed"} ELSE {} : net' = [net EXCEPT !.u = u]
  /\ srv' = [got |-> <<>>, msg |-> 0, pos |-> 0]
  /\ Wake("U", "state") /\ EnvStep /\ UNCHANGED cli

\* The last token of the final response to request i has reached the client.
Answered(i) == \E k \in 1..Len(Resps) : /\ Resps[k].answers = i /\ Resps[k].final
                                        /\ Has(cli.got, <<k, Total(Resps[k])>>)
ClientOpen == c.state # "CLOSING" /\ ~net.cRst /\ ~net.cFin
Segment(i, from, n) == [x \in 1..n |-> <<i, from + x>>]

ClientSend ==
  /\ ClientOpen
  /\ LET done == cli.msg = 0 \/ cli.pos = Total(Reqs[cli.msg])
         i    == IF done THEN cli.msg + 1 ELSE cli.msg
         from == IF done THEN 0 ELSE cli.pos
     IN  /\ i <= Len(Reqs)
         /\ done /\ i > 1 => May("pipelining") \/ Answered(i - 1)
         /\ \E n \in 1..(Total(Reqs[i]) - from) :
              /\ net' = [net EXCEPT !.cRecv = @ \o Segment(i, from, n)]
              /\ cli' = [cli EXCEPT !.msg = i, !.pos = from + n]
  /\ Wake("C", "R") /\ EnvStep /\ UNCHANGED srv

ClientReceive ==
  /\ net.toCli # <<>> /\ ~net.cRst
  /\ cli' = [cli EXCEPT !.got = @ \o net.toCli]
  /\ net' = [net EXCEPT !.toCli = <<>>]
  /\ Wake("C", "W") /\ EnvStep /\ UNCHANGED srv

ClientShutdown ==
  /\ May("halfClose") /\ ClientOpen
  /\ net' = [net EXCEPT !.cFin = TRUE]
  /\ Wake("C", "state") /\ EnvStep /\ UNCHANGED <<cli, srv>>

ClientAbort ==
  /\ May("reset") /\ ClientOpen
  /\ net' = [net EXCEPT !.cRst = TRUE]
  /\ Wake("C", "state") /\ EnvStep /\ UNCHANGED <<cli, srv>>

ServerReceive ==
  /\ net.u = "up" /\ net.toUp # <<>> /\ ~net.uFin /\ ~net.uRst
  /\ srv' = [srv EXCEPT !.got = @ \o net.toUp]
  /\ net' = [net EXCEPT !.toUp = <<>>]
  /\ Wake("U", "W") /\ EnvStep /\ UNCHANGED cli

\* The response the server writes next: the rest of the one it is in, or the
\* first one it owes for what it has received on this connection.
Sending    == srv.msg # 0 /\ srv.pos < Total(Resps[srv.msg])
Asked(i)   == Has(srv.got, <<i, IF May("earlyAnswer") THEN Reqs[i].hdr ELSE Total(Reqs[i])>>)
Owed       == {k \in (srv.msg + 1)..Len(Resps) : Asked(Resps[k].answers)}
LastWord(m) == ~m.keep \/ m.mode = "UNTIL_CLOSE"
ServerDone == srv.msg # 0 /\ ~Sending /\ LastWord(Resps[srv.msg])

ServerSend ==
  /\ net.u = "up" /\ ~net.uFin /\ ~net.uRst /\ ~ServerDone
  /\ \E k \in IF Sending THEN {srv.msg} ELSE {k \in Owed : \A l \in Owed : k <= l} :
       LET from == IF Sending THEN srv.pos ELSE 0
       IN  \E n \in 1..(Total(Resps[k]) - from) :
             /\ srv' = [srv EXCEPT !.msg = k, !.pos = from + n]
             /\ net' = [net EXCEPT !.uRecv = @ \o Segment(k, from, n)]
  /\ Wake("U", "R") /\ EnvStep /\ UNCHANGED cli

ServerClose ==
  /\ net.u = "up" /\ ~net.uFin /\ ~net.uRst
  /\ ServerDone \/ (May("idleClose") /\ ~Sending /\ Owed = {})
  /\ net' = [net EXCEPT !.uFin = TRUE]
  /\ Wake("U", "state") /\ EnvStep /\ UNCHANGED <<cli, srv>>

\* A crash, or the answer of a closed socket to what the proxy still writes.
ServerReset ==
  /\ net.u = "up" /\ ~net.uRst
  /\ May("reset") \/ (net.uFin /\ net.toUp # <<>>)
  /\ net' = [net EXCEPT !.uRst = TRUE]
  /\ Wake("U", "state") /\ EnvStep /\ UNCHANGED <<cli, srv>>

----------------------------------------------------------------------------

Init ==
  /\ script \in Scripts
  /\ c = Blank
  /\ net = [cRecv |-> <<>>, cFin |-> FALSE, cRst |-> FALSE, toCli |-> <<>>, u |-> "none",
            uRecv |-> <<>>, uFin |-> FALSE, uRst |-> FALSE, uShut |-> FALSE, toUp |-> <<>>]
  /\ ep = [mask |-> [fd \in FDs |-> {}], reg |-> {}, rdy |-> {}, batch |-> {}]
  /\ res = [free |-> Slots, active |-> 0, errors |-> 0, requests |-> 0]
  /\ cli = [msg |-> 0, pos |-> 0, got |-> <<>>]
  /\ srv = [got |-> <<>>, msg |-> 0, pos |-> 0]

Loop == Accept \/ Wait \/ Dispatch
Environment == \/ ConnectDone \/ ClientSend \/ ClientReceive \/ ClientShutdown \/ ClientAbort
               \/ ServerReceive \/ ServerSend \/ ServerClose \/ ServerReset

Next == Loop \/ Environment

\* The loop runs for ever: whenever it has something to do, it does it.  (Weak
\* fairness of Loop, with its guard and its effect spelled out.)
Runnable == c.state = "NEW" \/ ep.batch # {} \/ ep.rdy # {}
Turn     == \/ c.state = "NEW" /\ c'.state # "NEW"
            \/ ep'.batch # ep.batch
            \/ ep.rdy # {} /\ ep'.rdy = {}
LoopFairness == []<>~Runnable \/ []<><<Turn>>_vars

\* Connects get a result; both peers read what they are sent, the client goes
\* on with its request and the server answers it.
Fairness ==
  /\ LoopFairness /\ WF_vars(ConnectDone)
  /\ WF_vars(ClientSend) /\ WF_vars(ClientReceive)
  /\ WF_vars(ServerReceive) /\ WF_vars(ServerSend)
  /\ WF_vars(ServerDone /\ ServerClose) /\ WF_vars(net.uFin /\ ServerReset)

Spec == Init /\ [][Next]_vars
FairSpec == Spec /\ Fairness

----------------------------------------------------------------------------
(* Properties.                                                             *)

TypeOK ==
  /\ script \in Scripts
  /\ c.state \in {"NEW", "READING", "CONNECTING", "PROXYING", "CLOSING"}
  /\ c.outOff \in 0..Len(c.out) /\ Len(c.out) <= Slot
  /\ c.inOff \in 0..Len(c.in) /\ Len(c.in) <= Slot
  /\ c.attempts \in 0..MaxAttempts
  /\ net.u \in {"none", "connecting", "up", "failed"}
  /\ Len(net.toCli) <= ClientRoom /\ Len(net.toUp) <= UpstreamRoom
  /\ ep.reg \subseteq FDs /\ ep.rdy \subseteq ep.reg
  /\ res.free \in 0..Slots /\ res.active \in Nat

\* Everything written to the client so far, and to this upstream connection.
ToClient   == cli.got \o net.toCli
ToUpstream == srv.got \o net.toUp

\* What the client is sent is whole responses, each after the one before it,
\* and a response made up by the proxy comes between two of them and ends the
\* stream (finish_response, send_error): never half a response taken for the
\* next one.
ClientStream ==
  \A n \in 1..Len(ToClient) :
    LET t == ToClient[n]
        starts == n = 1 \/ \E k \in 1..Len(Resps) : /\ ToClient[n - 1] = <<k, Total(Resps[k])>>
                                                    /\ IsErr(t) \/ k < t[1]
    IN  IF IsErr(t) THEN starts /\ n = Len(ToClient) /\ c.state = "CLOSING"
        ELSE IF t[2] = 1 THEN starts
        ELSE n > 1 /\ ToClient[n - 1] = <<t[1], t[2] - 1>>

\* What an upstream connection carries is whole requests, each after the one
\* before it, whatever became of the connection they were to be answered on.
UpstreamStream ==
  net.u # "none" =>
    \A n \in 1..Len(ToUpstream) :
      LET t == ToUpstream[n]
      IN  IF t[2] > 1 - Growth
          THEN n > 1 /\ ToUpstream[n - 1] = <<t[1], t[2] - 1>>
          ELSE n > 1 => \E i \in 1..(t[1] - 1) : ToUpstream[n - 1] = <<i, Total(Reqs[i])>>

\* Nothing of a response goes to the client before its whole header is in.
HeaderFirst ==
  c.state = "PROXYING" /\ ~c.respHdr =>
    c.inOff = 0 /\ (ToClient = <<>> \/
      \E k \in 1..Len(Resps) : ToClient[Len(ToClient)] = <<k, Total(Resps[k])>>)

\* A response taken for complete has been read to its last token.
NotTruncated ==
  c.respComplete =>
    LET m == Resps[c.resp]
    IN  m.form = "ok" => Has(ToClient \o c.in, <<c.resp, Total(m)>>)

\* An upstream connection is kept between requests only with nothing in
\* flight: it has answered every request it was sent, in full.
KeptIdle ==
  c.state = "READING" /\ net.u = "up" =>
    /\ net.toUp = <<>>
    /\ ~Sending /\ Owed = {} /\ net.uRecv = <<>>

\* A connection is in CONN_PROXYING only with an upstream that did connect.
Connected == c.state = "PROXYING" => net.u = "up"

\* A request goes to one upstream only: while another one is being tried, it is
\* still in the buffer from its first byte to the last one read.
RetryWhole ==
  c.state = "CONNECTING" => c.outOff = 0 /\ c.out # <<>> /\ c.out[1] = <<c.req, 1 - Growth>>

\* 431 is the answer to a request whose header does not fit the buffer.
LargeHeaderOnly ==
  Has(ToClient, Err(431)) => \E i \in 1..Len(Reqs) : Growth + Reqs[i].hdr > Slot

\* The proxy tells the server that the request is over (shutdown) only when it
\* has passed on everything the client had sent before closing its side.
ShutdownWhole == net.uShut => net.cRecv = <<>> /\ c.out = <<>>

\* While the response is awaited, nothing is read from the client.
NoReadAhead ==
  [][c.state = "PROXYING" /\ c.reqComplete /\ c'.state # "CLOSING"
       => Len(net'.cRecv) >= Len(net.cRecv)]_vars

\* The client has sent the whole of request i.
Sent(i) == i <= Len(Reqs) /\ (cli.msg > i \/ (cli.msg = i /\ cli.pos = Total(Reqs[i])))

\* A request that was sent whole is answered, or the connection is closed.
Served == \A i \in 1..2 : Sent(i) ~> (Answered(i) \/ c.state = "CLOSING")

\* With well-behaved peers, it is answered (update_masks, on_upstream_event).
AllAnswered == script.may = {} => \A i \in 1..2 : Sent(i) ~> Answered(i)
=============================================================================
