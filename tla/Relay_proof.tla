---------------------------- MODULE Relay_proof ----------------------------
(***************************************************************************)
(* Proofs about Relay, for any scripts and any sizes of the buffers.       *)
(***************************************************************************)
EXTENDS Relay, Integers, SequenceTheorems, FiniteSetTheorems, TLAPS

----------------------------------------------------------------------------
(* The types of the state.                                                 *)

\* The tokens of the requests and of the responses of the script.
ReqToks  == (1..Len(Reqs)) \X Nat
RespToks == (1..Len(Resps)) \X Nat
CliToks  == (0..Len(Resps)) \X Nat

Conns ==
  [state : {"NEW", "READING", "CONNECTING", "PROXYING", "CLOSING"},
   hasOut : BOOLEAN, hasIn : BOOLEAN, out : Seq(ReqToks), outOff : Nat,
   in : Seq(RespToks), inOff : Nat, req : Nat, reqReady : BOOLEAN, reqLeft : Nat,
   reqComplete : BOOLEAN, resp : Nat, respLeft : Nat, respHdr : BOOLEAN,
   respComplete : BOOLEAN, clientEof : BOOLEAN, upEof : BOOLEAN, keep : BOOLEAN,
   attempts : Nat, be : BOOLEAN, pool : Nat]

Nets ==
  [cRecv : Seq(ReqToks), cFin : BOOLEAN, cRst : BOOLEAN, toCli : Seq(CliToks),
   u : {"none", "connecting", "up", "failed"}, uRecv : Seq(RespToks), uFin : BOOLEAN,
   uRst : BOOLEAN, uShut : BOOLEAN, toUp : Seq(ReqToks)]

Batch  == [fd : FDs, ev : SUBSET Evs]
Eps    == [mask : [FDs -> SUBSET Evs], reg : SUBSET FDs, rdy : SUBSET FDs, batch : SUBSET Batch]
Shares == [free : Nat, active : Nat, errors : Nat, requests : Nat]
Worlds == [c : Conns, net : Nets, ep : Eps, res : Shares]

\* The buffers and the socket buffers are within their capacities.
ConnFits(k) ==
  /\ k.outOff <= Len(k.out) /\ Len(k.out) <= Slot
  /\ k.inOff <= Len(k.in) /\ Len(k.in) <= Slot
  /\ k.attempts <= MaxAttempts
NetFits(n) == Len(n.toCli) <= ClientRoom /\ Len(n.toUp) <= UpstreamRoom

\* The slots are in the arena or in the connection.
InUse(k) == (IF k.hasOut THEN 1 ELSE 0) + (IF k.hasIn THEN 1 ELSE 0)

Fits(w) ==
  /\ script \in Scripts /\ w \in Worlds
  /\ ConnFits(w.c) /\ NetFits(w.net) /\ w.ep.rdy \subseteq w.ep.reg
  /\ w.res.free + InUse(w.c) = Slots

\* A handler goes on with the batch that was returned, and with the upstream it has or
\* with none.
Follows(v, w) ==
  /\ v.ep.batch = w.ep.batch
  /\ \/ v.net.u = w.net.u /\ v.net.uFin = w.net.uFin
     \/ v.net.u = "none" /\ ~v.net.uFin

----------------------------------------------------------------------------
(* Facts about the script and the constants.                               *)

LEMMA Sizes ==
  /\ Slot \in Nat \ {0} /\ ClientRoom \in Nat \ {0} /\ UpstreamRoom \in Nat \ {0}
  /\ MaxAttempts \in Nat \ {0} /\ Slots \in Nat \ {0} /\ Growth \in 0..1
BY RelayAssumption

LEMMA ScriptType ==
  ASSUME script \in Scripts
  PROVE  /\ Reqs \in Seq(Request) /\ Resps \in Seq(Response)
         /\ Len(Reqs) \in Nat /\ Len(Resps) \in Nat
BY RelayAssumption, LenProperties DEF Reqs, Resps

LEMMA ReqType ==
  ASSUME script \in Scripts, NEW i \in 1..Len(Reqs)
  PROVE  /\ Reqs[i] \in Request /\ Reqs[i].hdr \in Nat \ {0} /\ Reqs[i].body \in Nat
         /\ Reqs[i].keep \in BOOLEAN /\ Reqs[i].pool \in Nat
<1>1. Reqs[i] \in Request
  BY ScriptType, ElementOfSeq
<1> QED
  BY <1>1 DEF Request

LEMMA RespType ==
  ASSUME script \in Scripts, NEW i \in 1..Len(Resps)
  PROVE  /\ Resps[i] \in Response /\ Resps[i].hdr \in Nat \ {0} /\ Resps[i].body \in Nat
         /\ Resps[i].keep \in BOOLEAN
<1>1. Resps[i] \in Response
  BY ScriptType, ElementOfSeq
<1> QED
  BY <1>1 DEF Response

----------------------------------------------------------------------------
(* Sequences cut in two.                                                   *)

LEMMA TakeType ==
  ASSUME NEW S, NEW s \in Seq(S), NEW n \in 0..Len(s)
  PROVE  /\ Take(s, n) \in Seq(S) /\ Len(Take(s, n)) = n
         /\ \A x \in 1..n : Take(s, n)[x] = s[x]
<1>1. Len(s) \in Nat /\ \A x \in 1..n : s[x] \in S
  BY LenProperties, ElementOfSeq
<1> QED
  BY <1>1, SubSeqProperties DEF Take

LEMMA DropType ==
  ASSUME NEW S, NEW s \in Seq(S), NEW n \in 0..Len(s)
  PROVE  /\ Drop(s, n) \in Seq(S) /\ Len(Drop(s, n)) = Len(s) - n
         /\ \A x \in 1..(Len(s) - n) : Drop(s, n)[x] = s[n + x]
<1>1. Len(s) \in Nat /\ \A x \in (n + 1)..Len(s) : s[x] \in S
  BY LenProperties, ElementOfSeq
<1>2. /\ SubSeq(s, n + 1, Len(s)) \in Seq(S)
      /\ Len(SubSeq(s, n + 1, Len(s))) = IF n + 1 <= Len(s) THEN Len(s) - (n + 1) + 1 ELSE 0
      /\ \A x \in 1..(Len(s) - (n + 1) + 1) : SubSeq(s, n + 1, Len(s))[x] = s[(n + 1) + x - 1]
  BY <1>1, SubSeqProperties
<1> QED
  BY <1>1, <1>2 DEF Drop

LEMMA PieceType ==
  ASSUME NEW S, NEW s \in Seq(S), NEW a \in 0..Len(s), NEW b \in a..Len(s)
  PROVE  /\ SubSeq(s, a + 1, b) \in Seq(S) /\ Len(SubSeq(s, a + 1, b)) = b - a
         /\ \A x \in 1..(b - a) : SubSeq(s, a + 1, b)[x] = s[a + x]
<1>1. Len(s) \in Nat /\ \A x \in (a + 1)..b : s[x] \in S
  BY LenProperties, ElementOfSeq
<1>2. /\ SubSeq(s, a + 1, b) \in Seq(S)
      /\ Len(SubSeq(s, a + 1, b)) = IF a + 1 <= b THEN b - (a + 1) + 1 ELSE 0
      /\ \A x \in 1..(b - (a + 1) + 1) : SubSeq(s, a + 1, b)[x] = s[(a + 1) + x - 1]
  BY <1>1, SubSeqProperties
<1> QED
  BY <1>1, <1>2

LEMMA JoinType ==
  ASSUME NEW S, NEW s \in Seq(S), NEW t \in Seq(S)
  PROVE  s \o t \in Seq(S) /\ Len(s \o t) = Len(s) + Len(t)
BY ConcatProperties

\* The end of what a buffer takes, whatever it holds and whatever there is.
LEMMA LeastType ==
  ASSUME NEW a \in Nat, NEW b \in Nat
  PROVE  Least(a, b) \in Nat /\ Least(a, b) <= a /\ Least(a, b) <= b
BY DEF Least

----------------------------------------------------------------------------
(* Registration, closing and error responses.                              *)

LEMMA WorldParts ==
  ASSUME NEW w \in Worlds
  PROVE  w.c \in Conns /\ w.net \in Nets /\ w.ep \in Eps /\ w.res \in Shares
BY DEF Worlds

LEMMA FollowsOn ==
  ASSUME NEW x, NEW v, NEW w, Follows(x, v), Follows(v, w) PROVE Follows(x, w)
BY DEF Follows

LEMMA FollowsSame ==
  ASSUME NEW v, NEW w, v.ep = w.ep, v.net.u = w.net.u, v.net.uFin = w.net.uFin
  PROVE  Follows(v, w)
BY DEF Follows

LEMMA ArmFits ==
  ASSUME NEW w, Fits(w), NEW fd \in FDs, NEW m \in SUBSET Evs
  PROVE  /\ Fits(Arm(w, fd, m))
         /\ Arm(w, fd, m).c = w.c /\ Arm(w, fd, m).net = w.net /\ Arm(w, fd, m).res = w.res
         /\ Follows(Arm(w, fd, m), w)
<1>1. w \in Worlds /\ w.ep \in Eps /\ w.ep.rdy \subseteq w.ep.reg
  BY DEF Fits, Worlds
<1> DEFINE e == [w.ep EXCEPT !.mask[fd] = m, !.reg = @ \cup {fd}]
           rdy == IF Events(w.net, e, fd) # {} THEN e.rdy \cup {fd} ELSE e.rdy \ {fd}
           ep2 == [e EXCEPT !.rdy = rdy]
<1>2. e \in Eps /\ e.rdy = w.ep.rdy /\ e.reg = w.ep.reg \cup {fd} /\ e.batch = w.ep.batch
  BY <1>1 DEF Eps
<1>3. Arm(w, fd, m) = [w EXCEPT !.ep = ep2]
  BY <1>1, <1>2 DEF Arm
<1> HIDE DEF e
<1>4. rdy \in SUBSET FDs /\ rdy \subseteq e.reg
  BY <1>1, <1>2 DEF Eps
<1> HIDE DEF rdy
<1>5. ep2 \in Eps /\ ep2.rdy \subseteq ep2.reg /\ ep2.batch = w.ep.batch
  BY <1>2, <1>4 DEF Eps
<1> HIDE DEF ep2
<1>6. /\ Arm(w, fd, m) \in Worlds /\ Arm(w, fd, m).c = w.c /\ Arm(w, fd, m).net = w.net
      /\ Arm(w, fd, m).res = w.res /\ Arm(w, fd, m).ep = ep2
  BY <1>1, <1>3, <1>5 DEF Worlds
<1> QED
  BY <1>5, <1>6 DEF Fits, Follows

LEMMA DisarmFits ==
  ASSUME NEW w, Fits(w), NEW fd \in FDs
  PROVE  /\ Fits(Disarm(w, fd))
         /\ Disarm(w, fd).c = w.c /\ Disarm(w, fd).net = w.net /\ Disarm(w, fd).res = w.res
         /\ Follows(Disarm(w, fd), w)
<1>1. w \in Worlds /\ w.ep \in Eps /\ w.ep.rdy \subseteq w.ep.reg
  BY DEF Fits, Worlds
<1> DEFINE e == [w.ep EXCEPT !.reg = @ \ {fd}, !.rdy = @ \ {fd}, !.mask[fd] = {}]
<1>2. e \in Eps /\ e.rdy \subseteq e.reg /\ e.batch = w.ep.batch
  BY <1>1 DEF Eps
<1>3. Disarm(w, fd) = [w EXCEPT !.ep = e]
  BY <1>1, Zenon DEF Disarm, Worlds
<1> HIDE DEF e
<1>4. /\ Disarm(w, fd) \in Worlds /\ Disarm(w, fd).c = w.c /\ Disarm(w, fd).net = w.net
      /\ Disarm(w, fd).res = w.res /\ Disarm(w, fd).ep = e
  BY <1>1, <1>2, <1>3 DEF Worlds
<1> QED
  BY <1>2, <1>4 DEF Fits, Follows

LEMMA NoUpstreamType ==
  ASSUME NEW n \in Nets
  PROVE  /\ NoUpstream(n) \in Nets /\ NoUpstream(n).u = "none"
         /\ NoUpstream(n).toUp = <<>> /\ NoUpstream(n).uRecv = <<>>
         /\ NoUpstream(n).uFin = FALSE
         /\ NoUpstream(n).cRecv = n.cRecv /\ NoUpstream(n).toCli = n.toCli
         /\ NoUpstream(n).cFin = n.cFin /\ NoUpstream(n).cRst = n.cRst
         /\ NetFits(n) => NetFits(NoUpstream(n))
<1>1. /\ NoUpstream(n) \in Nets /\ NoUpstream(n).u = "none"
      /\ NoUpstream(n).toUp = <<>> /\ NoUpstream(n).uRecv = <<>> /\ NoUpstream(n).uFin = FALSE
      /\ NoUpstream(n).cRecv = n.cRecv /\ NoUpstream(n).toCli = n.toCli
      /\ NoUpstream(n).cFin = n.cFin /\ NoUpstream(n).cRst = n.cRst
  <2>1. <<>> \in Seq(ReqToks) /\ <<>> \in Seq(RespToks) /\ FALSE \in BOOLEAN
    OBVIOUS
  <2>2. NoUpstream(n) \in Nets
    BY <2>1 DEF NoUpstream, Nets
  <2> QED
    BY <2>2 DEF NoUpstream, Nets
<1> QED
  BY <1>1, Sizes DEF NetFits

\* What drop_upstream leaves alone, and what it leaves.
Dropped(n) == IF n.u = "none" THEN n ELSE NoUpstream(n)

LEMMA DropUpstreamFits ==
  ASSUME NEW w, Fits(w)
  PROVE  /\ Fits(DropUpstream(w))
         /\ DropUpstream(w).c = [w.c EXCEPT !.be = FALSE]
         /\ DropUpstream(w).net = Dropped(w.net)
         /\ DropUpstream(w).res.free = w.res.free
         /\ DropUpstream(w).net.u = "none"
         /\ Follows(DropUpstream(w), w)
<1> DEFINE v == IF w.net.u = "none" THEN w ELSE [Disarm(w, "U") EXCEPT !.net = NoUpstream(@)]
           res2 == [v.res EXCEPT !.active = IF v.c.be /\ @ > 0 THEN @ - 1 ELSE @]
           c2 == [v.c EXCEPT !.be = FALSE]
<1>1. /\ Fits(v) /\ v.c = w.c /\ v.net = Dropped(w.net) /\ v.res = w.res /\ v.net.u = "none"
      /\ Follows(v, w)
  <2>1. CASE w.net.u = "none"
    BY <2>1 DEF Dropped, Follows
  <2>2. CASE w.net.u # "none"
    <3> DEFINE d == Disarm(w, "U")
    <3>1. Fits(d) /\ d.c = w.c /\ d.net = w.net /\ d.res = w.res /\ Follows(d, w)
      BY DisarmFits DEF FDs
    <3> HIDE DEF d
    <3>2. v = [d EXCEPT !.net = NoUpstream(w.net)]
      BY <2>2, <3>1 DEF d
    <3>3. /\ NoUpstream(w.net) \in Nets /\ NoUpstream(w.net).u = "none"
          /\ NetFits(NoUpstream(w.net)) /\ ~NoUpstream(w.net).uFin
      BY <3>1, NoUpstreamType DEF Fits, Worlds
    <3> HIDE DEF v
    <3>4. /\ v \in Worlds /\ v.c = d.c /\ v.net = NoUpstream(w.net) /\ v.ep = d.ep
          /\ v.res = d.res
      BY <3>1, <3>2, <3>3 DEF Fits, Worlds
    <3> QED
      BY <2>2, <3>1, <3>3, <3>4 DEF Fits, Dropped, Follows
  <2> QED
    BY <2>1, <2>2
<1>2. DropUpstream(w) = [v EXCEPT !.c = c2, !.res = res2]
  BY <1>1 DEF DropUpstream, Fits, Worlds
<1> HIDE DEF v
<1>3. v.c \in Conns /\ v.res \in Shares /\ v \in Worlds
  BY <1>1 DEF Fits, Worlds
<1>4. c2 \in Conns /\ ConnFits(c2) /\ InUse(c2) = InUse(v.c)
  BY <1>1, <1>3 DEF Conns, Fits, ConnFits, InUse
<1>5. res2 \in Shares /\ res2.free = v.res.free
  <2>1. (IF v.c.be /\ v.res.active > 0 THEN v.res.active - 1 ELSE v.res.active) \in Nat
    BY <1>3 DEF Shares
  <2> QED
    BY <1>3, <2>1 DEF Shares
<1> HIDE DEF c2, res2
<1>6. /\ DropUpstream(w) \in Worlds /\ DropUpstream(w).c = c2 /\ DropUpstream(w).res = res2
      /\ DropUpstream(w).net = v.net /\ DropUpstream(w).ep = v.ep
  BY <1>2, <1>3, <1>4, <1>5 DEF Worlds
<1>7. Fits(DropUpstream(w)) /\ Follows(DropUpstream(w), w)
  BY <1>1, <1>4, <1>5, <1>6 DEF Fits, Follows
<1> QED
  BY <1>1, <1>5, <1>6, <1>7 DEF c2

LEMMA HeldCount == ASSUME NEW k \in Conns PROVE Cardinality(Held(k)) = InUse(k)
<1>1. Held(k) = (IF k.hasOut THEN {"out"} ELSE {}) \cup (IF k.hasIn THEN {"in"} ELSE {})
  BY DEF Held
<1>2. /\ Cardinality({}) = 0 /\ Cardinality({"out"}) = 1 /\ Cardinality({"in"}) = 1
      /\ Cardinality({"out"} \cup {"in"}) = 2
  <2>1. IsFiniteSet({}) /\ Cardinality({}) = 0
    BY FS_EmptySet
  <2>2. IsFiniteSet({} \cup {"out"}) /\ Cardinality({} \cup {"out"}) = 1
    BY <2>1, FS_AddElement
  <2>3. IsFiniteSet({} \cup {"in"}) /\ Cardinality({} \cup {"in"}) = 1
    BY <2>1, FS_AddElement
  <2>4. {} \cup {"out"} = {"out"} /\ {} \cup {"in"} = {"in"}
    OBVIOUS
  <2>5. Cardinality({"out"} \cup {"in"}) = 1 + 1
    BY <2>2, <2>4, FS_AddElement
  <2> QED
    BY <2>1, <2>2, <2>3, <2>4, <2>5
<1>3. k.hasOut \in BOOLEAN /\ k.hasIn \in BOOLEAN
  BY DEF Conns
<1>4. \A X : X \cup {} = X /\ {} \cup X = X
  OBVIOUS
<1>5. CASE k.hasOut
  <2>1. CASE k.hasIn
    BY <1>1, <1>2, <1>5, <2>1 DEF InUse
  <2>2. CASE ~k.hasIn
    BY <1>1, <1>2, <1>4, <1>5, <2>2 DEF InUse
  <2> QED
    BY <2>1, <2>2
<1>6. CASE ~k.hasOut
  <2>1. CASE k.hasIn
    BY <1>1, <1>2, <1>4, <1>6, <2>1 DEF InUse
  <2>2. CASE ~k.hasIn
    BY <1>1, <1>2, <1>4, <1>6, <2>2 DEF InUse
  <2> QED
    BY <2>1, <2>2
<1> QED
  BY <1>5, <1>6

\* The struct of a connection that was closed.
Closed == [Blank EXCEPT !.state = "CLOSING"]

LEMMA BlankType ==
  /\ Blank \in Conns /\ ConnFits(Blank) /\ InUse(Blank) = 0
  /\ Closed \in Conns /\ ConnFits(Closed) /\ InUse(Closed) = 0 /\ Closed.state = "CLOSING"
  /\ Closed.upEof = FALSE
<1>1. <<>> \in Seq(ReqToks) /\ <<>> \in Seq(RespToks) /\ FALSE \in BOOLEAN /\ TRUE \in BOOLEAN
  OBVIOUS
<1>2. Blank \in Conns /\ ConnFits(Blank) /\ InUse(Blank) = 0 /\ Blank.upEof = FALSE
  BY <1>1, Sizes DEF Blank, Conns, ConnFits, InUse
<1> QED
  BY <1>2 DEF Closed, Conns, ConnFits, InUse

LEMMA ConnCloseFits ==
  ASSUME NEW w, Fits(w)
  PROVE  /\ Fits(ConnClose(w)) /\ ConnClose(w).c = Closed
         /\ ConnClose(w).net = [Dropped(w.net) EXCEPT !.cRecv = <<>>]
         /\ Follows(ConnClose(w), w)
<1> DEFINE d == DropUpstream(w)
           v == Disarm(d, "C")
           net2 == [v.net EXCEPT !.cRecv = <<>>]
           res2 == [v.res EXCEPT !.free = @ + Cardinality(Held(w.c))]
<1>1. Fits(d) /\ d.net = Dropped(w.net) /\ d.res.free = w.res.free /\ Follows(d, w)
  BY DropUpstreamFits
<1> HIDE DEF d
<1>2. Fits(v) /\ v.net = Dropped(w.net) /\ v.res.free = w.res.free /\ Follows(v, w)
  BY <1>1, DisarmFits, FollowsOn DEF FDs
<1>3. ConnClose(w) = [v EXCEPT !.c = Closed, !.net = net2, !.res = res2]
  BY <1>2 DEF ConnClose, Closed, Fits, Worlds, d
<1> HIDE DEF v
<1>4. v \in Worlds /\ v.net \in Nets /\ v.res \in Shares /\ w.c \in Conns /\ NetFits(v.net)
  BY <1>2 DEF Fits, Worlds
<1>5. net2 \in Nets /\ NetFits(net2) /\ net2.u = v.net.u /\ net2.uFin = v.net.uFin
  <2>1. <<>> \in Seq(ReqToks)
    OBVIOUS
  <2> QED
    BY <1>4, <2>1 DEF Nets, NetFits
<1>6. res2 \in Shares /\ res2.free = Slots
  <2>1. Cardinality(Held(w.c)) = InUse(w.c) /\ w.res.free + InUse(w.c) = Slots
    BY <1>4, HeldCount DEF Fits
  <2>2. v.res.free + Cardinality(Held(w.c)) = Slots
    BY <1>2, <2>1
  <2> QED
    BY <1>4, <2>2, Sizes DEF Shares
<1> HIDE DEF res2, net2
<1>7. /\ ConnClose(w) \in Worlds /\ ConnClose(w).c = Closed /\ ConnClose(w).net = net2
      /\ ConnClose(w).res = res2 /\ ConnClose(w).ep = v.ep
  BY <1>3, <1>4, <1>5, <1>6, BlankType DEF Worlds
<1>8. Fits(ConnClose(w)) /\ Follows(ConnClose(w), w)
  BY <1>2, <1>5, <1>6, <1>7, BlankType, Sizes DEF Fits, Follows
<1> QED
  BY <1>2, <1>7, <1>8 DEF net2

\* What send_error gets through to the client.
Told(n, code) ==
  IF ~n.cRst /\ Len(n.toCli) < ClientRoom THEN Append(n.toCli, Err(code)) ELSE n.toCli

LEMMA SendErrorFits ==
  ASSUME NEW w, Fits(w), NEW code \in Nat
  PROVE  /\ Fits(SendError(w, code)) /\ SendError(w, code).c = Closed
         /\ SendError(w, code).net.toCli = Told(w.net, code)
         /\ SendError(w, code).net.cRecv = <<>>
         /\ SendError(w, code).net.uRecv = Dropped(w.net).uRecv
         /\ SendError(w, code).net.toUp = Dropped(w.net).toUp
         /\ SendError(w, code).net.u = "none"
         /\ Follows(SendError(w, code), w)
<1> DEFINE net2 == [w.net EXCEPT !.toCli = Told(w.net, code)]
           res2 == [w.res EXCEPT !.errors = @ + 1]
           v == [w EXCEPT !.net = net2, !.res = res2]
<1>1. w \in Worlds /\ w.net \in Nets /\ w.res \in Shares /\ NetFits(w.net)
  BY DEF Fits, Worlds
<1>2. Told(w.net, code) \in Seq(CliToks) /\ Len(Told(w.net, code)) <= ClientRoom
  <2>1. Err(code) \in CliToks /\ w.net.toCli \in Seq(CliToks)
    <3>1. 0 \in 0..Len(Resps)
      BY ScriptType DEF Fits
    <3> QED
      BY <1>1, <3>1 DEF Err, CliToks, Nets
  <2>2. Append(w.net.toCli, Err(code)) \in Seq(CliToks)
        /\ Len(Append(w.net.toCli, Err(code))) = Len(w.net.toCli) + 1
        /\ Len(w.net.toCli) \in Nat
    BY <2>1, AppendProperties, LenProperties
  <2> QED
    BY <1>1, <2>1, <2>2, Sizes DEF Told, NetFits
<1>3. net2 \in Nets /\ NetFits(net2) /\ net2.toCli = Told(w.net, code) /\ net2.u = w.net.u
      /\ net2.uRecv = w.net.uRecv /\ net2.toUp = w.net.toUp /\ net2.uFin = w.net.uFin
  BY <1>1, <1>2 DEF Nets, NetFits
<1>4. res2 \in Shares /\ res2.free = w.res.free
  BY <1>1 DEF Shares
<1>5. SendError(w, code) = ConnClose(v)
  BY <1>1 DEF SendError, Told, Worlds
<1> HIDE DEF net2, res2
<1>6. v \in Worlds /\ v.c = w.c /\ v.net = net2 /\ v.ep = w.ep /\ v.res = res2
  BY <1>1, <1>3, <1>4 DEF Worlds
<1> HIDE DEF v
<1>7. Fits(v)
  BY <1>3, <1>4, <1>6 DEF Fits
<1>8. /\ Fits(ConnClose(v)) /\ ConnClose(v).c = Closed
      /\ ConnClose(v).net = [Dropped(net2) EXCEPT !.cRecv = <<>>]
      /\ Follows(ConnClose(v), v) /\ Follows(v, w)
  BY <1>3, <1>6, <1>7, ConnCloseFits, FollowsSame
<1>9. Dropped(net2) \in Nets /\ Dropped(net2).toCli = net2.toCli
      /\ Dropped(net2).uRecv = Dropped(w.net).uRecv
      /\ Dropped(net2).toUp = Dropped(w.net).toUp /\ Dropped(net2).u = "none"
  BY <1>1, <1>3, NoUpstreamType DEF Dropped
<1> QED
  BY <1>3, <1>5, <1>8, <1>9, FollowsOn DEF Nets

----------------------------------------------------------------------------
(* Reading and writing.                                                    *)

\* How much a read of either side, or a write to it, moves.
CliRead(w)  == Least(Slot - Len(w.c.out), Len(w.net.cRecv))
UpRead(w)   == Least(Slot - Len(w.c.in), Len(w.net.uRecv))
UpWrite(w)  == IF w.net.u # "up" THEN 0
               ELSE Least(Len(w.c.out) - w.c.outOff, UpstreamRoom - Len(w.net.toUp))
CliWrite(w) == Least(Len(w.c.in) - w.c.inOff, ClientRoom - Len(w.net.toCli))

LEMMA FitsParts ==
  ASSUME NEW w, Fits(w)
  PROVE  /\ w \in Worlds /\ w.c \in Conns /\ w.net \in Nets /\ w.ep \in Eps /\ w.res \in Shares
         /\ w.c.out \in Seq(ReqToks) /\ w.c.in \in Seq(RespToks)
         /\ Len(w.c.out) \in 0..Slot /\ Len(w.c.in) \in 0..Slot
         /\ w.c.outOff \in 0..Len(w.c.out) /\ w.c.inOff \in 0..Len(w.c.in)
         /\ w.net.cRecv \in Seq(ReqToks) /\ Len(w.net.cRecv) \in Nat
         /\ w.net.uRecv \in Seq(RespToks) /\ Len(w.net.uRecv) \in Nat
         /\ w.net.toCli \in Seq(CliToks) /\ Len(w.net.toCli) \in 0..ClientRoom
         /\ w.net.toUp \in Seq(ReqToks) /\ Len(w.net.toUp) \in 0..UpstreamRoom
<1>1. w \in Worlds /\ w.c \in Conns /\ w.net \in Nets /\ w.ep \in Eps /\ w.res \in Shares
  BY DEF Fits, Worlds
<1>2. /\ w.c.out \in Seq(ReqToks) /\ w.c.in \in Seq(RespToks)
      /\ w.c.outOff \in Nat /\ w.c.inOff \in Nat
  BY <1>1 DEF Conns
<1>3. /\ w.net.cRecv \in Seq(ReqToks) /\ w.net.uRecv \in Seq(RespToks)
      /\ w.net.toCli \in Seq(CliToks) /\ w.net.toUp \in Seq(ReqToks)
  BY <1>1 DEF Nets
<1>4. /\ Len(w.c.out) \in Nat /\ Len(w.c.in) \in Nat /\ Len(w.net.cRecv) \in Nat
      /\ Len(w.net.uRecv) \in Nat /\ Len(w.net.toCli) \in Nat /\ Len(w.net.toUp) \in Nat
  BY <1>2, <1>3, LenProperties
<1> QED
  BY <1>1, <1>2, <1>3, <1>4, Sizes DEF Fits, ConnFits, NetFits

LEMMA ReadClientFits ==
  ASSUME NEW w, Fits(w)
  PROVE  /\ Fits(ReadClient(w))
         /\ ReadClient(w).c = [w.c EXCEPT !.out = @ \o Take(w.net.cRecv, CliRead(w))]
         /\ ReadClient(w).net = [w.net EXCEPT !.cRecv = Drop(@, CliRead(w))]
         /\ ReadClient(w).ep = w.ep /\ ReadClient(w).res = w.res
         /\ CliRead(w) \in 0..Len(w.net.cRecv)
         /\ Len(ReadClient(w).c.out) = Len(w.c.out) + CliRead(w)
<1> DEFINE n == CliRead(w)
           out2 == w.c.out \o Take(w.net.cRecv, n)
           recv2 == Drop(w.net.cRecv, n)
           c2 == [w.c EXCEPT !.out = out2]
           net2 == [w.net EXCEPT !.cRecv = recv2]
<1>0. /\ w \in Worlds /\ w.c \in Conns /\ w.net \in Nets /\ w.ep \in Eps /\ w.res \in Shares
      /\ ConnFits(w.c) /\ NetFits(w.net)
  BY FitsParts DEF Fits
<1>a. /\ w.c.out \in Seq(ReqToks) /\ Len(w.c.out) \in 0..Slot
      /\ w.net.cRecv \in Seq(ReqToks) /\ Len(w.net.cRecv) \in Nat
  BY FitsParts
<1>1. n \in 0..Len(w.net.cRecv) /\ Len(w.c.out) + n <= Slot
  <2>0. Slot - Len(w.c.out) \in Nat
    BY <1>a, Sizes
  <2>1. /\ Least(Slot - Len(w.c.out), Len(w.net.cRecv)) \in Nat
        /\ Least(Slot - Len(w.c.out), Len(w.net.cRecv)) <= Slot - Len(w.c.out)
        /\ Least(Slot - Len(w.c.out), Len(w.net.cRecv)) <= Len(w.net.cRecv)
    BY <1>a, <2>0, LeastType
  <2> QED
    BY <1>a, <2>0, <2>1, Sizes DEF CliRead
<1>2. ReadClient(w) = [w EXCEPT !.c = c2, !.net = net2]
  BY <1>0 DEF ReadClient, CliRead, Worlds
<1> HIDE DEF n
<1>3. out2 \in Seq(ReqToks) /\ Len(out2) = Len(w.c.out) + n
  <2>1. Take(w.net.cRecv, n) \in Seq(ReqToks) /\ Len(Take(w.net.cRecv, n)) = n
    BY <1>1, <1>a, TakeType
  <2> QED
    BY <1>a, <2>1, JoinType
<1>4. recv2 \in Seq(ReqToks)
  BY <1>1, <1>a, DropType
<1> HIDE DEF out2, recv2
<1>5. c2 \in Conns /\ ConnFits(c2) /\ InUse(c2) = InUse(w.c) /\ c2.out = out2
  <2>1. Len(out2) \in Nat /\ Len(out2) <= Slot /\ Len(w.c.out) <= Len(out2)
    BY <1>1, <1>3, <1>a
  <2>2. c2 \in Conns /\ c2.out = out2 /\ InUse(c2) = InUse(w.c)
    BY <1>0, <1>3 DEF Conns, InUse
  <2>3. c2.in = w.c.in /\ c2.outOff = w.c.outOff /\ c2.inOff = w.c.inOff
        /\ c2.attempts = w.c.attempts
    BY <1>0 DEF Conns
  <2>4. /\ w.c.outOff <= Len(w.c.out) /\ w.c.outOff \in Nat /\ Len(w.c.out) \in Nat
        /\ w.c.inOff <= Len(w.c.in) /\ Len(w.c.in) <= Slot
        /\ w.c.attempts <= MaxAttempts
    BY <1>0, <1>a DEF ConnFits, Conns
  <2>5. w.c.outOff <= Len(out2)
    BY <2>1, <2>4
  <2>6. ConnFits(c2)
    BY <2>1, <2>2, <2>3, <2>4, <2>5, Zenon DEF ConnFits
  <2> QED
    BY <2>2, <2>6
<1>6. net2 \in Nets /\ NetFits(net2)
  BY <1>0, <1>4 DEF Nets, NetFits
<1> HIDE DEF c2, net2
<1>7. /\ ReadClient(w) \in Worlds /\ ReadClient(w).c = c2 /\ ReadClient(w).net = net2
      /\ ReadClient(w).ep = w.ep /\ ReadClient(w).res = w.res
  BY <1>0, <1>2, <1>5, <1>6 DEF Worlds
<1>8. Fits(ReadClient(w))
  BY <1>5, <1>6, <1>7 DEF Fits
<1> QED
  BY <1>1, <1>3, <1>5, <1>7, <1>8 DEF c2, net2, out2, recv2, n

LEMMA ReadUpstreamFits ==
  ASSUME NEW w, Fits(w)
  PROVE  /\ Fits(ReadUpstream(w))
         /\ ReadUpstream(w).c = [w.c EXCEPT !.in = @ \o Take(w.net.uRecv, UpRead(w))]
         /\ ReadUpstream(w).net = [w.net EXCEPT !.uRecv = Drop(@, UpRead(w))]
         /\ ReadUpstream(w).ep = w.ep /\ ReadUpstream(w).res = w.res
         /\ UpRead(w) \in 0..Len(w.net.uRecv)
         /\ Len(ReadUpstream(w).c.in) = Len(w.c.in) + UpRead(w)
<1> DEFINE n == UpRead(w)
           in2 == w.c.in \o Take(w.net.uRecv, n)
           recv2 == Drop(w.net.uRecv, n)
           c2 == [w.c EXCEPT !.in = in2]
           net2 == [w.net EXCEPT !.uRecv = recv2]
<1>0. /\ w \in Worlds /\ w.c \in Conns /\ w.net \in Nets /\ w.ep \in Eps /\ w.res \in Shares
      /\ ConnFits(w.c) /\ NetFits(w.net)
  BY FitsParts DEF Fits
<1>a. /\ w.c.in \in Seq(RespToks) /\ Len(w.c.in) \in 0..Slot
      /\ w.net.uRecv \in Seq(RespToks) /\ Len(w.net.uRecv) \in Nat
  BY FitsParts
<1>1. n \in 0..Len(w.net.uRecv) /\ Len(w.c.in) + n <= Slot
  <2>0. Slot - Len(w.c.in) \in Nat
    BY <1>a, Sizes
  <2>1. /\ Least(Slot - Len(w.c.in), Len(w.net.uRecv)) \in Nat
        /\ Least(Slot - Len(w.c.in), Len(w.net.uRecv)) <= Slot - Len(w.c.in)
        /\ Least(Slot - Len(w.c.in), Len(w.net.uRecv)) <= Len(w.net.uRecv)
    BY <1>a, <2>0, LeastType
  <2> QED
    BY <1>a, <2>0, <2>1, Sizes DEF UpRead
<1>2. ReadUpstream(w) = [w EXCEPT !.c = c2, !.net = net2]
  BY <1>0 DEF ReadUpstream, UpRead, Worlds
<1> HIDE DEF n
<1>3. in2 \in Seq(RespToks) /\ Len(in2) = Len(w.c.in) + n
  <2>1. Take(w.net.uRecv, n) \in Seq(RespToks) /\ Len(Take(w.net.uRecv, n)) = n
    BY <1>1, <1>a, TakeType
  <2> QED
    BY <1>a, <2>1, JoinType
<1>4. recv2 \in Seq(RespToks)
  BY <1>1, <1>a, DropType
<1> HIDE DEF in2, recv2
<1>5. c2 \in Conns /\ ConnFits(c2) /\ InUse(c2) = InUse(w.c) /\ c2.in = in2
  <2>1. Len(in2) \in Nat /\ Len(in2) <= Slot /\ Len(w.c.in) <= Len(in2)
    BY <1>1, <1>3, <1>a
  <2>2. c2 \in Conns /\ c2.in = in2 /\ InUse(c2) = InUse(w.c)
    BY <1>0, <1>3 DEF Conns, InUse
  <2>3. c2.out = w.c.out /\ c2.outOff = w.c.outOff /\ c2.inOff = w.c.inOff
        /\ c2.attempts = w.c.attempts
    BY <1>0 DEF Conns
  <2>4. /\ w.c.outOff <= Len(w.c.out) /\ Len(w.c.out) <= Slot
        /\ w.c.inOff <= Len(w.c.in) /\ w.c.inOff \in Nat /\ Len(w.c.in) \in Nat
        /\ w.c.attempts <= MaxAttempts
    BY <1>0, <1>a DEF ConnFits, Conns
  <2>5. w.c.inOff <= Len(in2)
    BY <2>1, <2>4
  <2>6. ConnFits(c2)
    BY <2>1, <2>2, <2>3, <2>4, <2>5, Zenon DEF ConnFits
  <2> QED
    BY <2>2, <2>6
<1>6. net2 \in Nets /\ NetFits(net2)
  BY <1>0, <1>4 DEF Nets, NetFits
<1> HIDE DEF c2, net2
<1>7. /\ ReadUpstream(w) \in Worlds /\ ReadUpstream(w).c = c2 /\ ReadUpstream(w).net = net2
      /\ ReadUpstream(w).ep = w.ep /\ ReadUpstream(w).res = w.res
  BY <1>0, <1>2, <1>5, <1>6 DEF Worlds
<1>8. Fits(ReadUpstream(w))
  BY <1>5, <1>6, <1>7 DEF Fits
<1> QED
  BY <1>1, <1>3, <1>5, <1>7, <1>8 DEF c2, net2, in2, recv2, n

\* Tokens of requests and of responses only ever go one way.
LEMMA RespAreCli == Len(Resps) \in Nat => RespToks \subseteq CliToks
BY DEF RespToks, CliToks

LEMMA WriteUpstreamFits ==
  ASSUME NEW w, Fits(w)
  PROVE  LET off == w.c.outOff + UpWrite(w)
             end == off = Len(w.c.out)
         IN  /\ Fits(WriteUpstream(w)) /\ off \in w.c.outOff..Len(w.c.out)
             /\ WriteUpstream(w).net =
                  [w.net EXCEPT !.toUp = @ \o SubSeq(w.c.out, w.c.outOff + 1, off)]
             /\ WriteUpstream(w).c = [w.c EXCEPT !.out = IF end THEN <<>> ELSE @,
                                                 !.outOff = IF end THEN 0 ELSE off]
             /\ WriteUpstream(w).ep = w.ep /\ WriteUpstream(w).res = w.res
<1> DEFINE n == UpWrite(w)
           off == w.c.outOff + n
           end == off = Len(w.c.out)
           out2 == IF end THEN <<>> ELSE w.c.out
           off2 == IF end THEN 0 ELSE off
           up2 == w.net.toUp \o SubSeq(w.c.out, w.c.outOff + 1, off)
           c2 == [w.c EXCEPT !.out = out2, !.outOff = off2]
           net2 == [w.net EXCEPT !.toUp = up2]
<1>0. /\ w \in Worlds /\ w.c \in Conns /\ w.net \in Nets /\ w.ep \in Eps /\ w.res \in Shares
      /\ ConnFits(w.c) /\ NetFits(w.net)
  BY FitsParts DEF Fits
<1>a. /\ w.c.out \in Seq(ReqToks) /\ Len(w.c.out) \in 0..Slot
      /\ w.c.outOff \in 0..Len(w.c.out)
      /\ w.net.toUp \in Seq(ReqToks) /\ Len(w.net.toUp) \in 0..UpstreamRoom
  BY FitsParts
<1>1. /\ n \in Nat /\ off \in w.c.outOff..Len(w.c.out) /\ off \in Nat
      /\ Len(w.net.toUp) + n <= UpstreamRoom
  <2>1. /\ Len(w.c.out) - w.c.outOff \in Nat /\ UpstreamRoom - Len(w.net.toUp) \in Nat
    BY <1>a, Sizes
  <2>2. /\ Least(Len(w.c.out) - w.c.outOff, UpstreamRoom - Len(w.net.toUp)) \in Nat
        /\ Least(Len(w.c.out) - w.c.outOff, UpstreamRoom - Len(w.net.toUp)) <= Len(w.c.out) - w.c.outOff
        /\ Least(Len(w.c.out) - w.c.outOff, UpstreamRoom - Len(w.net.toUp)) <= UpstreamRoom - Len(w.net.toUp)
    BY <2>1, LeastType
  <2>3. n \in Nat /\ n <= Len(w.c.out) - w.c.outOff /\ n <= UpstreamRoom - Len(w.net.toUp)
    BY <2>1, <2>2 DEF UpWrite
  <2> HIDE DEF n
  <2>4. off = w.c.outOff + n
    OBVIOUS
  <2> HIDE DEF off
  <2>5. /\ w.c.outOff \in Nat /\ Len(w.c.out) \in Nat
        /\ Len(w.net.toUp) \in Nat /\ UpstreamRoom \in Nat
    BY <1>a, Sizes
  <2> QED
    BY <2>3, <2>4, <2>5
<1>2. WriteUpstream(w) = [w EXCEPT !.c = c2, !.net = net2]
  BY <1>0 DEF WriteUpstream, UpWrite, Worlds
<1>3. up2 \in Seq(ReqToks) /\ Len(up2) = Len(w.net.toUp) + n
  <2>1. /\ SubSeq(w.c.out, w.c.outOff + 1, off) \in Seq(ReqToks)
        /\ Len(SubSeq(w.c.out, w.c.outOff + 1, off)) = off - w.c.outOff
    BY <1>1, <1>a, PieceType
  <2> DEFINE piece == SubSeq(w.c.out, w.c.outOff + 1, off)
  <2>2. off - w.c.outOff = n
    BY <1>1, <1>a
  <2> HIDE DEF piece, off
  <2> QED
    BY <1>a, <2>1, <2>2, JoinType DEF piece
<1> HIDE DEF n
<1>4. out2 \in Seq(ReqToks) /\ Len(out2) <= Slot /\ off2 \in Nat /\ off2 <= Len(out2)
  BY <1>1, <1>a, Sizes, EmptySeq
<1> HIDE DEF out2, off2, up2, off
<1>5. c2 \in Conns /\ ConnFits(c2) /\ InUse(c2) = InUse(w.c)
  BY <1>0, <1>4 DEF Conns, ConnFits, InUse
<1>6. net2 \in Nets /\ NetFits(net2)
  BY <1>0, <1>1, <1>3 DEF Nets, NetFits
<1> HIDE DEF c2, net2
<1>7. /\ WriteUpstream(w) \in Worlds /\ WriteUpstream(w).c = c2 /\ WriteUpstream(w).net = net2
      /\ WriteUpstream(w).ep = w.ep /\ WriteUpstream(w).res = w.res
  BY <1>0, <1>2, <1>5, <1>6 DEF Worlds
<1>8. Fits(WriteUpstream(w))
  BY <1>5, <1>6, <1>7 DEF Fits
<1> QED
  BY <1>1, <1>7, <1>8 DEF c2, net2, out2, off2, up2, off, n

LEMMA WriteClientFits ==
  ASSUME NEW w, Fits(w)
  PROVE  LET off == w.c.inOff + CliWrite(w)
             end == off = Len(w.c.in)
         IN  /\ Fits(WriteClient(w)) /\ off \in w.c.inOff..Len(w.c.in)
             /\ WriteClient(w).net =
                  [w.net EXCEPT !.toCli = @ \o SubSeq(w.c.in, w.c.inOff + 1, off)]
             /\ WriteClient(w).c = [w.c EXCEPT !.in = IF end THEN <<>> ELSE @,
                                               !.inOff = IF end THEN 0 ELSE off]
             /\ WriteClient(w).ep = w.ep /\ WriteClient(w).res = w.res
<1> DEFINE n == CliWrite(w)
           off == w.c.inOff + n
           end == off = Len(w.c.in)
           in2 == IF end THEN <<>> ELSE w.c.in
           off2 == IF end THEN 0 ELSE off
           cli2 == w.net.toCli \o SubSeq(w.c.in, w.c.inOff + 1, off)
           c2 == [w.c EXCEPT !.in = in2, !.inOff = off2]
           net2 == [w.net EXCEPT !.toCli = cli2]
<1>0. /\ w \in Worlds /\ w.c \in Conns /\ w.net \in Nets /\ w.ep \in Eps /\ w.res \in Shares
      /\ ConnFits(w.c) /\ NetFits(w.net)
  BY FitsParts DEF Fits
<1>a. /\ w.c.in \in Seq(RespToks) /\ Len(w.c.in) \in 0..Slot
      /\ w.c.inOff \in 0..Len(w.c.in)
      /\ w.net.toCli \in Seq(CliToks) /\ Len(w.net.toCli) \in 0..ClientRoom
  BY FitsParts
<1>1. /\ n \in Nat /\ off \in w.c.inOff..Len(w.c.in) /\ off \in Nat
      /\ Len(w.net.toCli) + n <= ClientRoom
  <2>1. /\ Len(w.c.in) - w.c.inOff \in Nat /\ ClientRoom - Len(w.net.toCli) \in Nat
    BY <1>a, Sizes
  <2>2. /\ Least(Len(w.c.in) - w.c.inOff, ClientRoom - Len(w.net.toCli)) \in Nat
        /\ Least(Len(w.c.in) - w.c.inOff, ClientRoom - Len(w.net.toCli)) <= Len(w.c.in) - w.c.inOff
        /\ Least(Len(w.c.in) - w.c.inOff, ClientRoom - Len(w.net.toCli)) <= ClientRoom - Len(w.net.toCli)
    BY <2>1, LeastType
  <2>3. n \in Nat /\ n <= Len(w.c.in) - w.c.inOff /\ n <= ClientRoom - Len(w.net.toCli)
    BY <2>1, <2>2 DEF CliWrite
  <2> HIDE DEF n
  <2>4. off = w.c.inOff + n
    OBVIOUS
  <2> HIDE DEF off
  <2>5. /\ w.c.inOff \in Nat /\ Len(w.c.in) \in Nat
        /\ Len(w.net.toCli) \in Nat /\ ClientRoom \in Nat
    BY <1>a, Sizes
  <2> QED
    BY <2>3, <2>4, <2>5
<1>2. WriteClient(w) = [w EXCEPT !.c = c2, !.net = net2]
  BY <1>0 DEF WriteClient, CliWrite, Worlds
<1>3. cli2 \in Seq(CliToks) /\ Len(cli2) = Len(w.net.toCli) + n
  <2>1. /\ SubSeq(w.c.in, w.c.inOff + 1, off) \in Seq(RespToks)
        /\ Len(SubSeq(w.c.in, w.c.inOff + 1, off)) = off - w.c.inOff
    BY <1>1, <1>a, PieceType, Zenon
  <2>2. SubSeq(w.c.in, w.c.inOff + 1, off) \in Seq(CliToks)
    BY <2>1, RespAreCli, ScriptType, SeqMonotonic DEF Fits
  <2> DEFINE piece == SubSeq(w.c.in, w.c.inOff + 1, off)
  <2>3. off - w.c.inOff = n
    BY <1>1, <1>a
  <2> HIDE DEF piece, off
  <2> QED
    BY <1>a, <2>1, <2>2, <2>3, JoinType DEF piece
<1> HIDE DEF n
<1>4. in2 \in Seq(RespToks) /\ Len(in2) <= Slot /\ off2 \in Nat /\ off2 <= Len(in2)
  BY <1>1, <1>a, Sizes, EmptySeq
<1> HIDE DEF in2, off2, cli2, off
<1>5. c2 \in Conns /\ ConnFits(c2) /\ InUse(c2) = InUse(w.c)
  BY <1>0, <1>4 DEF Conns, ConnFits, InUse
<1>6. net2 \in Nets /\ NetFits(net2)
  BY <1>0, <1>1, <1>3 DEF Nets, NetFits
<1> HIDE DEF c2, net2
<1>7. /\ WriteClient(w) \in Worlds /\ WriteClient(w).c = c2 /\ WriteClient(w).net = net2
      /\ WriteClient(w).ep = w.ep /\ WriteClient(w).res = w.res
  BY <1>0, <1>2, <1>5, <1>6 DEF Worlds
<1>8. Fits(WriteClient(w))
  BY <1>5, <1>6, <1>7 DEF Fits
<1> QED
  BY <1>1, <1>7, <1>8 DEF c2, net2, in2, off2, cli2, off, n

\* A write changes nothing of the struct but the buffer it empties.
LEMMA WritesKeep ==
  ASSUME NEW w, Fits(w)
  PROVE  /\ WriteUpstream(w).c.state = w.c.state /\ WriteClient(w).c.state = w.c.state
         /\ WriteUpstream(w).c.in = w.c.in /\ WriteUpstream(w).c.inOff = w.c.inOff
         /\ WriteUpstream(w).c.resp = w.c.resp /\ WriteClient(w).c.resp = w.c.resp
         /\ WriteUpstream(w).c.respHdr = w.c.respHdr /\ WriteClient(w).c.respHdr = w.c.respHdr
         /\ WriteUpstream(w).c.upEof = w.c.upEof /\ WriteClient(w).c.upEof = w.c.upEof
         /\ WriteUpstream(w).c.respComplete = w.c.respComplete
         /\ WriteClient(w).c.respComplete = w.c.respComplete
         /\ WriteUpstream(w).net.toCli = w.net.toCli
         /\ WriteUpstream(w).net.uRecv = w.net.uRecv /\ WriteClient(w).net.uRecv = w.net.uRecv
         /\ WriteUpstream(w).net.u = w.net.u /\ WriteClient(w).net.u = w.net.u
         /\ Follows(WriteUpstream(w), w) /\ Follows(WriteClient(w), w)
<1>1. w.c \in Conns /\ w.net \in Nets
  BY DEF Fits, Worlds
<1> DEFINE a == WriteUpstream(w)
           b == WriteClient(w)
           off == w.c.outOff + UpWrite(w)
           end == off = Len(w.c.out)
           up2 == w.net.toUp \o SubSeq(w.c.out, w.c.outOff + 1, off)
           out2 == IF end THEN <<>> ELSE w.c.out
           off2 == IF end THEN 0 ELSE off
           inOff == w.c.inOff + CliWrite(w)
           inEnd == inOff = Len(w.c.in)
           cli2 == w.net.toCli \o SubSeq(w.c.in, w.c.inOff + 1, inOff)
           in2 == IF inEnd THEN <<>> ELSE w.c.in
           inOff2 == IF inEnd THEN 0 ELSE inOff
<1>2. /\ a.net = [w.net EXCEPT !.toUp = up2]
      /\ a.c = [w.c EXCEPT !.out = out2, !.outOff = off2]
  BY WriteUpstreamFits, Zenon
<1>3. /\ b.net = [w.net EXCEPT !.toCli = cli2]
      /\ b.c = [w.c EXCEPT !.in = in2, !.inOff = inOff2]
  BY WriteClientFits, Zenon
<1> HIDE DEF a, b, up2, out2, off2, cli2, in2, inOff2
<1>4. /\ a.c.state = w.c.state /\ a.c.in = w.c.in /\ a.c.inOff = w.c.inOff
      /\ a.c.resp = w.c.resp /\ a.c.respHdr = w.c.respHdr /\ a.c.upEof = w.c.upEof
      /\ a.c.respComplete = w.c.respComplete
  BY <1>1, <1>2 DEF Conns
<1>5. /\ b.c.state = w.c.state /\ b.c.resp = w.c.resp /\ b.c.respHdr = w.c.respHdr
      /\ b.c.upEof = w.c.upEof /\ b.c.respComplete = w.c.respComplete
  BY <1>1, <1>3 DEF Conns
<1>6. /\ a.net.toCli = w.net.toCli /\ a.net.uRecv = w.net.uRecv /\ a.net.u = w.net.u
      /\ b.net.uRecv = w.net.uRecv /\ b.net.u = w.net.u
      /\ a.net.uFin = w.net.uFin /\ b.net.uFin = w.net.uFin
  BY <1>1, <1>2, <1>3 DEF Nets
<1>7. a.ep = w.ep /\ b.ep = w.ep
  BY WriteUpstreamFits, WriteClientFits, Zenon DEF a, b
<1>8. Follows(a, w) /\ Follows(b, w)
  BY <1>6, <1>7, FollowsSame
<1> QED
  BY <1>4, <1>5, <1>6, <1>8 DEF a, b

LEMMA UpdateMasksFits ==
  ASSUME NEW w, Fits(w)
  PROVE  /\ Fits(UpdateMasks(w))
         /\ UpdateMasks(w).c = w.c /\ UpdateMasks(w).net = w.net /\ UpdateMasks(w).res = w.res
         /\ Follows(UpdateMasks(w), w)
<1> DEFINE v == Arm(w, "C", ClientMask(w))
<1>1. ClientMask(w) \in SUBSET Evs /\ UpstreamMask(w) \in SUBSET Evs
  BY DEF ClientMask, UpstreamMask, Evs
<1>2. Fits(v) /\ v.c = w.c /\ v.net = w.net /\ v.res = w.res /\ Follows(v, w)
  BY <1>1, ArmFits DEF FDs
<1>3. UpdateMasks(w) = IF w.net.u = "none" THEN v ELSE Arm(v, "U", UpstreamMask(w))
  BY DEF UpdateMasks
<1> HIDE DEF v
<1>4. /\ Fits(Arm(v, "U", UpstreamMask(w))) /\ Arm(v, "U", UpstreamMask(w)).c = w.c
      /\ Arm(v, "U", UpstreamMask(w)).net = w.net /\ Arm(v, "U", UpstreamMask(w)).res = w.res
      /\ Follows(Arm(v, "U", UpstreamMask(w)), w)
  BY <1>1, <1>2, ArmFits, FollowsOn DEF FDs
<1> QED
  BY <1>2, <1>3, <1>4

----------------------------------------------------------------------------
(* What each state of a connection says of its struct.                     *)

\* The request is in the buffer, ready to be sent, from its first byte on.
Whole(k) ==
  /\ k.reqReady /\ k.req \in 1..Len(Reqs) /\ k.outOff = 0
  /\ k.out # <<>> /\ k.out[1] = <<k.req, 1 - Growth>>

Shape(k) ==
  /\ k.state = "NEW" => k = Blank
  /\ k.state = "READING" => ~k.reqReady /\ k.outOff = 0
  /\ k.state = "CONNECTING" => Whole(k)
  /\ k.state = "CLOSING" => k = Closed

LEMMA ClosedShape == Shape(Closed)
BY DEF Shape, Closed, Blank

\* The struct of a connection that starts over, as start_next_request leaves it.
Fresh(k) == [Blank EXCEPT !.state = "READING", !.pool = k.pool, !.hasOut = k.hasOut,
                          !.hasIn = k.hasIn, !.be = k.be]

LEMMA FreshType ==
  ASSUME NEW k \in Conns
  PROVE  /\ Fresh(k) \in Conns /\ ConnFits(Fresh(k)) /\ InUse(Fresh(k)) = InUse(k)
         /\ Fresh(k).state = "READING" /\ Shape(Fresh(k))
         /\ Fresh(k).in = <<>> /\ Fresh(k).inOff = 0 /\ Fresh(k).out = <<>>
         /\ Fresh(k).respHdr = FALSE /\ Fresh(k).respComplete = FALSE /\ Fresh(k).upEof = FALSE
<1>1. <<>> \in Seq(ReqToks) /\ <<>> \in Seq(RespToks) /\ FALSE \in BOOLEAN /\ TRUE \in BOOLEAN
      /\ Len(<<>>) = 0
  OBVIOUS
<1>2. Fresh(k) \in Conns
  <2>1. k.hasOut \in BOOLEAN /\ k.hasIn \in BOOLEAN /\ k.be \in BOOLEAN /\ k.pool \in Nat
    BY DEF Conns
  <2> QED
    BY <2>1, BlankType DEF Fresh, Conns
<1>3. /\ Fresh(k).state = "READING" /\ Fresh(k).hasOut = k.hasOut /\ Fresh(k).hasIn = k.hasIn
      /\ Fresh(k).in = <<>> /\ Fresh(k).inOff = 0 /\ Fresh(k).out = <<>> /\ Fresh(k).outOff = 0
      /\ Fresh(k).reqReady = FALSE /\ Fresh(k).attempts = 0
      /\ Fresh(k).respHdr = FALSE /\ Fresh(k).respComplete = FALSE /\ Fresh(k).upEof = FALSE
  BY DEF Fresh, Blank
<1> QED
  BY <1>1, <1>2, <1>3, Sizes DEF ConnFits, InUse, Shape

\* Whether start_next_request keeps the upstream.
Reuse(w) == Resps[w.c.resp].keep /\ ~w.c.upEof /\ Resps[w.c.resp].mode # "UNTIL_CLOSE"

LEMMA StartNextFits ==
  ASSUME NEW w, Fits(w)
  PROVE  /\ Fits(StartNextRequest(w))
         /\ StartNextRequest(w).c.state = "READING" /\ Shape(StartNextRequest(w).c)
         /\ StartNextRequest(w).c.in = <<>> /\ StartNextRequest(w).c.inOff = 0
         /\ StartNextRequest(w).c.out = <<>>
         /\ StartNextRequest(w).c.respHdr = FALSE /\ StartNextRequest(w).c.respComplete = FALSE
         /\ StartNextRequest(w).net = IF Reuse(w) THEN w.net ELSE Dropped(w.net)
         /\ StartNextRequest(w).c.upEof = FALSE /\ Follows(StartNextRequest(w), w)
<1> DEFINE v == IF Reuse(w) THEN w ELSE DropUpstream(w)
           res2 == [v.res EXCEPT !.requests = @ + 1]
           next == [v EXCEPT !.c = Fresh(v.c), !.res = res2]
           armed == Arm(next, "C", {"R"})
<1>1. Fits(v) /\ v.net = (IF Reuse(w) THEN w.net ELSE Dropped(w.net)) /\ Follows(v, w)
  BY DropUpstreamFits, FollowsSame
<1>2. StartNextRequest(w) = IF armed.net.u = "none" THEN armed ELSE Arm(armed, "U", {"R"})
  <2>1. v \in Worlds
    BY <1>1 DEF Fits
  <2>2. next = [v EXCEPT !.c = [Blank EXCEPT !.state = "READING", !.pool = v.c.pool,
                                 !.hasOut = v.c.hasOut, !.hasIn = v.c.hasIn,
                                 !.be = v.c.be],
                         !.res.requests = @ + 1]
    BY <2>1 DEF Fresh, Worlds
  <2> HIDE DEF next
  <2> QED
    BY <2>2 DEF StartNextRequest, Reuse
<1> HIDE DEF v
<1>3. v \in Worlds /\ v.c \in Conns /\ v.res \in Shares
  BY <1>1, Zenon DEF Fits, Worlds
<1>4. res2 \in Shares /\ res2.free = v.res.free
  BY <1>3 DEF Shares
<1> HIDE DEF res2
<1>5. next \in Worlds /\ next.c = Fresh(v.c) /\ next.net = v.net /\ next.ep = v.ep /\ next.res = res2
  BY <1>3, <1>4, FreshType DEF Worlds
<1> HIDE DEF next
<1>6. Fits(next) /\ Follows(next, v)
  BY <1>1, <1>3, <1>4, <1>5, FreshType, FollowsSame DEF Fits
<1>7. {"R"} \in SUBSET Evs
  BY DEF Evs
<1>8. Fits(armed) /\ armed.c = Fresh(v.c) /\ armed.net = v.net /\ Follows(armed, w)
  BY <1>1, <1>5, <1>6, <1>7, ArmFits, FollowsOn DEF FDs
<1> HIDE DEF armed
<1>9. /\ Fits(Arm(armed, "U", {"R"})) /\ Arm(armed, "U", {"R"}).c = Fresh(v.c)
      /\ Arm(armed, "U", {"R"}).net = v.net /\ Follows(Arm(armed, "U", {"R"}), w)
  BY <1>7, <1>8, ArmFits, FollowsOn DEF FDs
<1>10. Fits(StartNextRequest(w)) /\ StartNextRequest(w).c = Fresh(v.c)
       /\ StartNextRequest(w).net = v.net /\ Follows(StartNextRequest(w), w)
  BY <1>2, <1>8, <1>9
<1> QED
  BY <1>1, <1>3, <1>10, FreshType

LEMMA FinishFits ==
  ASSUME NEW w, Fits(w)
  PROVE  /\ Fits(FinishResponse(w)) /\ Shape(FinishResponse(w).c)
         /\ FinishResponse(w).c.state \in {"CLOSING", "READING"}
         /\ FinishResponse(w).c.upEof = FALSE /\ Follows(FinishResponse(w), w)
BY StartNextFits, ConnCloseFits, ClosedShape, BlankType DEF FinishResponse

----------------------------------------------------------------------------
(* The relay step.                                                         *)

\* After the writes, proxy_step notes the end of the response and of the request.
Moved(w)   == WriteClient(WriteUpstream(w))
Settled(w) ==
  LET b == Moved(w)
  IN [b EXCEPT !.c.respComplete =
        @ \/ (b.c.upEof /\ b.c.respHdr /\ Resps[b.c.resp].mode = "UNTIL_CLOSE"),
      !.net.uShut = @ \/ (b.c.clientEof /\ ~OutPending(b) /\ b.net.u = "up")]

LEMMA SettledFits ==
  ASSUME NEW w, Fits(w)
  PROVE  /\ Fits(Settled(w)) /\ Settled(w).c.state = w.c.state
         /\ Settled(w).c.in = Moved(w).c.in /\ Settled(w).c.inOff = Moved(w).c.inOff
         /\ Settled(w).c.resp = Moved(w).c.resp /\ Settled(w).c.respHdr = Moved(w).c.respHdr
         /\ Settled(w).c.upEof = Moved(w).c.upEof
         /\ Settled(w).c.respComplete =
              (Moved(w).c.respComplete
               \/ (Moved(w).c.upEof /\ Moved(w).c.respHdr
                    /\ Resps[Moved(w).c.resp].mode = "UNTIL_CLOSE"))
         /\ Settled(w).net.toCli = Moved(w).net.toCli
         /\ Settled(w).net.uRecv = Moved(w).net.uRecv /\ Settled(w).net.u = Moved(w).net.u
         /\ Settled(w).c.out = Moved(w).c.out /\ Settled(w).c.outOff = Moved(w).c.outOff
         /\ Settled(w).c.req = Moved(w).c.req /\ Settled(w).c.respLeft = Moved(w).c.respLeft
         /\ Settled(w).net.cRecv = Moved(w).net.cRecv /\ Settled(w).net.toUp = Moved(w).net.toUp
         /\ Follows(Settled(w), w)
<1> DEFINE b == Moved(w)
           done == b.c.respComplete
                     \/ (b.c.upEof /\ b.c.respHdr /\ Resps[b.c.resp].mode = "UNTIL_CLOSE")
           shut == b.net.uShut \/ (b.c.clientEof /\ ~OutPending(b) /\ b.net.u = "up")
           c2 == [b.c EXCEPT !.respComplete = done]
           net2 == [b.net EXCEPT !.uShut = shut]
<1>1. Fits(b) /\ b.c.state = w.c.state /\ Follows(b, w)
  <2>1. /\ Fits(WriteUpstream(w)) /\ WriteUpstream(w).c.state = w.c.state
        /\ Follows(WriteUpstream(w), w)
    BY WriteUpstreamFits, WritesKeep, Zenon
  <2>2. Fits(b) /\ b.c.state = WriteUpstream(w).c.state /\ Follows(b, WriteUpstream(w))
    BY <2>1, WriteClientFits, WritesKeep, Zenon DEF Moved
  <2> QED
    BY <2>1, <2>2, FollowsOn
<1> HIDE DEF b
<1>2. b \in Worlds /\ b.c \in Conns /\ b.net \in Nets /\ ConnFits(b.c) /\ NetFits(b.net)
  BY <1>1 DEF Fits, Worlds
<1>3. done \in BOOLEAN /\ shut \in BOOLEAN
  BY DEF OutPending
<1>4. Settled(w) = [b EXCEPT !.c = c2, !.net = net2]
  BY <1>2 DEF Settled, Worlds, b
<1>5. /\ c2 \in Conns /\ ConnFits(c2) /\ InUse(c2) = InUse(b.c) /\ c2.state = b.c.state
      /\ c2.in = b.c.in /\ c2.inOff = b.c.inOff /\ c2.resp = b.c.resp
      /\ c2.respHdr = b.c.respHdr /\ c2.upEof = b.c.upEof /\ c2.respComplete = done
      /\ c2.out = b.c.out /\ c2.outOff = b.c.outOff /\ c2.req = b.c.req
      /\ c2.respLeft = b.c.respLeft
  <2> HIDE DEF done
  <2> QED
    BY <1>2, <1>3 DEF Conns, ConnFits, InUse
<1>6. /\ net2 \in Nets /\ NetFits(net2) /\ net2.toCli = b.net.toCli
      /\ net2.uRecv = b.net.uRecv /\ net2.u = b.net.u
      /\ net2.cRecv = b.net.cRecv /\ net2.toUp = b.net.toUp /\ net2.uFin = b.net.uFin
  <2> HIDE DEF shut
  <2> QED
    BY <1>2, <1>3 DEF Nets, NetFits
<1> HIDE DEF c2, net2
<1>7. /\ Settled(w) \in Worlds /\ Settled(w).c = c2 /\ Settled(w).net = net2
      /\ Settled(w).ep = b.ep /\ Settled(w).res = b.res
  BY <1>2, <1>4, <1>5, <1>6 DEF Worlds
<1>8. Fits(Settled(w)) /\ Follows(Settled(w), w)
  BY <1>1, <1>5, <1>6, <1>7, FollowsSame, FollowsOn DEF Fits
<1> QED
  BY <1>1, <1>5, <1>6, <1>7, <1>8 DEF b

LEMMA ProxyStepFits ==
  ASSUME NEW w, Fits(w), w.c.state = "PROXYING"
  PROVE  /\ Fits(ProxyStep(w)) /\ Shape(ProxyStep(w).c)
         /\ ProxyStep(w).c.state \in {"PROXYING", "READING", "CLOSING"}
<1> DEFINE a == WriteUpstream(w)
           d == Settled(w)
<1>1. Fits(a) /\ Fits(d) /\ d.c.state = "PROXYING"
  BY WriteUpstreamFits, SettledFits, Zenon
<1>2. ProxyStep(w) = IF w.net.u # "none" /\ UpBroken(w) THEN ConnClose(w)
                     ELSE IF CliBroken(a) THEN ConnClose(a)
                     ELSE IF d.c.respComplete /\ ~InPending(d) THEN FinishResponse(d)
                     ELSE IF d.c.upEof /\ ~d.c.respComplete /\ ~InPending(d) THEN ConnClose(d)
                     ELSE UpdateMasks(d)
  BY DEF ProxyStep, Settled, Moved
<1> HIDE DEF a, d
<1>3. /\ Fits(ConnClose(w)) /\ ConnClose(w).c = Closed
      /\ Fits(ConnClose(a)) /\ ConnClose(a).c = Closed
      /\ Fits(ConnClose(d)) /\ ConnClose(d).c = Closed
  BY <1>1, ConnCloseFits
<1>4. Shape(Closed) /\ Closed.state = "CLOSING"
  BY ClosedShape, BlankType
<1>5. /\ Fits(FinishResponse(d)) /\ Shape(FinishResponse(d).c)
      /\ FinishResponse(d).c.state \in {"CLOSING", "READING"}
  BY <1>1, FinishFits
<1>6. Fits(UpdateMasks(d)) /\ Shape(UpdateMasks(d).c) /\ UpdateMasks(d).c.state = "PROXYING"
  BY <1>1, UpdateMasksFits DEF Shape
<1> QED
  BY <1>2, <1>3, <1>4, <1>5, <1>6

----------------------------------------------------------------------------
(* Parsing, routing and connecting.                                        *)

LEMMA Regroup ==
  ASSUME NEW a \in Int, NEW b \in Int, NEW d \in Int PROVE (a + b) + (d - b) = a + d
OBVIOUS

\* What Parse says of a buffer that holds a whole header.
LEMMA ParseDone ==
  ASSUME NEW msgs, NEW buf, Parse(msgs, buf) = "done"
  PROVE  buf # <<>> /\ buf[1][2] = 1 /\ ~(Len(buf) < msgs[buf[1][1]].hdr)
         /\ msgs[buf[1][1]].form # "badHeader"
<1>1. buf # <<>>
  BY DEF Parse
<1>2. buf[1][2] = 1
  BY <1>1 DEF Parse
<1>3. ~(Len(buf) < msgs[buf[1][1]].hdr)
  BY <1>1, <1>2 DEF Parse
<1>4. msgs[buf[1][1]].form # "badHeader"
  BY <1>1, <1>2, <1>3 DEF Parse
<1> QED
  BY <1>1, <1>2, <1>3, <1>4

\* The buffer of a connection begins with a whole header.
Headed(k) ==
  /\ ~k.reqReady /\ k.outOff = 0 /\ k.out # <<>>
  /\ k.out[1][1] \in 1..Len(Reqs) /\ k.out[1][2] = 1
  /\ Reqs[k.out[1][1]].hdr <= Len(k.out)

LEMMA RewrittenType ==
  ASSUME script \in Scripts, NEW i \in 1..Len(Reqs)
  PROVE  /\ Rewritten(i) \in Seq(ReqToks) /\ Len(Rewritten(i)) = Growth + Reqs[i].hdr
         /\ Rewritten(i)[1] = <<i, 1 - Growth>>
         /\ \A x \in 1..(Growth + Reqs[i].hdr) : Rewritten(i)[x] = <<i, x - Growth>>
<1> DEFINE extra == [n \in 1..Growth |-> <<i, 0>>]
           header == [n \in 1..Reqs[i].hdr |-> <<i, n>>]
<1>1. Reqs[i].hdr \in Nat \ {0} /\ Growth \in {0, 1}
  BY ReqType, Sizes
<1>2. extra \in Seq(ReqToks) /\ Len(extra) = Growth /\ \A x \in 1..Growth : extra[x] = <<i, 0>>
  <2>1. extra \in [1..Growth -> ReqToks] /\ \A x \in 1..Growth : extra[x] = <<i, 0>>
    BY DEF ReqToks
  <2> HIDE DEF extra
  <2>2. extra \in Seq(ReqToks)
    BY <1>1, <2>1, SeqDef
  <2> QED
    BY <1>1, <2>1, <2>2, LenProperties
<1>3. header \in Seq(ReqToks) /\ Len(header) = Reqs[i].hdr
      /\ \A x \in 1..Reqs[i].hdr : header[x] = <<i, x>>
  <2>1. header \in [1..Reqs[i].hdr -> ReqToks] /\ \A x \in 1..Reqs[i].hdr : header[x] = <<i, x>>
    BY <1>1 DEF ReqToks
  <2> HIDE DEF header
  <2>2. header \in Seq(ReqToks)
    BY <1>1, <2>1, SeqDef
  <2> QED
    BY <1>1, <2>1, <2>2, LenProperties
<1>4. Rewritten(i) = extra \o header
  BY DEF Rewritten
<1> HIDE DEF extra, header
<1>5. /\ extra \o header \in Seq(ReqToks) /\ Len(extra \o header) = Growth + Reqs[i].hdr
      /\ \A x \in 1..(Growth + Reqs[i].hdr) :
           (extra \o header)[x] = IF x <= Growth THEN extra[x] ELSE header[x - Growth]
  <2>1. /\ extra \o header \in Seq(ReqToks) /\ Len(extra \o header) = Len(extra) + Len(header)
        /\ \A x \in 1..(Len(extra) + Len(header)) :
             (extra \o header)[x] = IF x <= Len(extra) THEN extra[x] ELSE header[x - Len(extra)]
    BY <1>2, <1>3, ConcatProperties
  <2> QED
    BY <1>2, <1>3, <2>1
<1>6. ASSUME NEW x \in 1..(Growth + Reqs[i].hdr) PROVE (extra \o header)[x] = <<i, x - Growth>>
  <2>1. CASE x <= Growth
    BY <1>1, <1>2, <1>5, <2>1
  <2>2. CASE ~(x <= Growth)
    <3>1. x - Growth \in 1..Reqs[i].hdr
      BY <1>1, <2>2
    <3> QED
      BY <1>3, <1>5, <2>2, <3>1
  <2> QED
    BY <2>1, <2>2
<1>7. 1 \in 1..(Growth + Reqs[i].hdr)
  BY <1>1
<1> QED
  BY <1>4, <1>5, <1>6, <1>7

\* The request as prepare_request leaves it in the buffer.
Prepared(k) == Rewritten(k.out[1][1]) \o Drop(k.out, Reqs[k.out[1][1]].hdr)

LEMMA PreparedType ==
  ASSUME script \in Scripts, NEW k \in Conns, Headed(k)
  PROVE  /\ Prepared(k) \in Seq(ReqToks) /\ Len(Prepared(k)) = Growth + Len(k.out)
         /\ Prepared(k) # <<>> /\ Prepared(k)[1] = <<k.out[1][1], 1 - Growth>>
<1> DEFINE i == k.out[1][1]
           h == Reqs[i].hdr
<1>1. i \in 1..Len(Reqs) /\ h \in 0..Len(k.out) /\ h >= 1 /\ k.out \in Seq(ReqToks)
      /\ Len(k.out) \in Nat
  BY ReqType, LenProperties DEF Headed, Conns
<1>2. /\ Rewritten(i) \in Seq(ReqToks) /\ Len(Rewritten(i)) = Growth + h
      /\ Rewritten(i)[1] = <<i, 1 - Growth>>
  BY <1>1, RewrittenType
<1>3. Drop(k.out, h) \in Seq(ReqToks) /\ Len(Drop(k.out, h)) = Len(k.out) - h
  BY <1>1, DropType
<1>4. Prepared(k) = Rewritten(i) \o Drop(k.out, h)
  BY DEF Prepared
<1> HIDE DEF i, h
<1>5. /\ Prepared(k) \in Seq(ReqToks) /\ Len(Prepared(k)) = Growth + Len(k.out)
      /\ Len(Prepared(k)) >= 1
  <2>1. /\ Prepared(k) \in Seq(ReqToks)
        /\ Len(Prepared(k)) = Len(Rewritten(i)) + Len(Drop(k.out, h))
    BY <1>2, <1>3, <1>4, JoinType
  <2>2. PICK l \in Nat : l = Len(k.out)
    BY <1>1
  <2>3. h \in Nat /\ Growth \in {0, 1}
    BY <1>1, Sizes
  <2>4. Len(Prepared(k)) = (Growth + h) + (l - h)
    BY <1>2, <1>3, <2>1, <2>2
  <2>a. h >= 1 /\ h \in 0..l
    BY <1>1, <2>2
  <2>5. h >= 1 /\ h <= l
    BY <2>a, <2>2, <2>3
  <2>7. (Growth + h) + (l - h) = Growth + l
    <3>1. Growth \in Int /\ h \in Int /\ l \in Int
      BY <2>2, <2>3
    <3> QED
      BY <3>1, Regroup
  <2>6. Growth + l >= 1
    BY <2>2, <2>3, <2>5
  <2> QED
    BY <2>1, <2>2, <2>4, <2>6, <2>7
<1>6. Prepared(k)[1] = Rewritten(i)[1]
  <2> DEFINE r == Rewritten(i)
             d == Drop(k.out, h)
  <2>1. r \in Seq(ReqToks) /\ Len(r) \in Nat /\ 1 \in 1..Len(r)
    BY <1>1, <1>2, Sizes
  <2>2. d \in Seq(ReqToks)
    BY <1>3
  <2> HIDE DEF r, d
  <2>3. (r \o d)[1] = r[1]
    BY <2>1, <2>2, ConcatProperties
  <2> QED
    BY <1>4, <2>3 DEF r, d
<1> QED
  BY <1>2, <1>5, <1>6, EmptySeq DEF i

\* prepare_request and what it is made of, to be read on its own.
Written(w) ==
  LET i    == w.c.out[1][1]
      rest == BodyRead(w, Reqs[i])
      left == IF Reqs[i].mode = "NONE" THEN 0 ELSE Left(Reqs[i].body, Len(rest))
  IN  [w EXCEPT !.c.req = i, !.c.out = Rewritten(i) \o rest, !.c.outOff = 0,
                !.c.reqLeft = left, !.c.reqComplete = (left = 0)]
Ready(w) == [Written(w) EXCEPT !.c.reqReady = TRUE]

LEMMA PrepareCases ==
  ASSUME NEW w
  PROVE  \/ PrepareRequest(w) = SendError(w, 503)
         \/ PrepareRequest(w) = SendError(w, 431)
         \/ /\ ~(Growth + Len(w.c.out) > Slot)
            /\ PrepareRequest(w) \in {SendError(Written(w), 400), Ready(w)}
<1> DEFINE i == w.c.out[1][1]
           rest == BodyRead(w, Reqs[i])
           bad == Garbled(Reqs[i], IF Reqs[i].mode = "NONE" THEN 0 ELSE Left(Reqs[i].body, Len(rest)))
<1>1. PrepareRequest(w) = IF w.res.free = 0 THEN SendError(w, 503)
                          ELSE IF Growth + Len(w.c.out) > Slot THEN SendError(w, 431)
                          ELSE IF bad THEN SendError(Written(w), 400)
                          ELSE Ready(w)
  BY DEF PrepareRequest, Written, Ready
<1> DEFINE none == w.res.free = 0
           full == Growth + Len(w.c.out) > Slot
<1>2. PrepareRequest(w) = IF none THEN SendError(w, 503)
                          ELSE IF full THEN SendError(w, 431)
                          ELSE IF bad THEN SendError(Written(w), 400)
                          ELSE Ready(w)
  BY <1>1
<1> HIDE DEF bad, none, full
<1>3. \/ PrepareRequest(w) = SendError(w, 503)
      \/ PrepareRequest(w) = SendError(w, 431)
      \/ ~full /\ PrepareRequest(w) \in {SendError(Written(w), 400), Ready(w)}
  BY <1>2
<1> QED
  BY <1>3 DEF full

LEMMA WrittenFits ==
  ASSUME NEW w, Fits(w), Headed(w.c), ~(Growth + Len(w.c.out) > Slot)
  PROVE  LET left == IF Reqs[w.c.out[1][1]].mode = "NONE" THEN 0
                     ELSE Left(Reqs[w.c.out[1][1]].body, Len(w.c.out) - Reqs[w.c.out[1][1]].hdr)
             k == [w.c EXCEPT !.req = w.c.out[1][1], !.out = Prepared(w.c), !.outOff = 0,
                              !.reqLeft = left, !.reqComplete = (left = 0)]
         IN  /\ Fits(Written(w)) /\ Written(w).c = k
             /\ Written(w).net = w.net /\ Written(w).ep = w.ep /\ Written(w).res = w.res
             /\ Fits(Ready(w)) /\ Ready(w).c = [k EXCEPT !.reqReady = TRUE]
             /\ Ready(w).net = w.net /\ Ready(w).ep = w.ep /\ Ready(w).res = w.res
             /\ Whole(Ready(w).c)
<1> DEFINE i == w.c.out[1][1]
           m == Reqs[i]
           rest == Drop(w.c.out, m.hdr)
           left == IF m.mode = "NONE" THEN 0 ELSE Left(m.body, Len(w.c.out) - m.hdr)
           out2 == Prepared(w.c)
           k == [w.c EXCEPT !.req = i, !.out = out2, !.outOff = 0,
                            !.reqLeft = left, !.reqComplete = (left = 0)]
           kr == [k EXCEPT !.reqReady = TRUE]
<1>1. /\ script \in Scripts /\ w \in Worlds /\ w.c \in Conns /\ ConnFits(w.c)
      /\ w.c.out \in Seq(ReqToks) /\ Len(w.c.out) \in 0..Slot
  BY FitsParts DEF Fits
<1>2. /\ i \in 1..Len(Reqs) /\ m.hdr \in 1..Len(w.c.out) /\ m.body \in Nat
      /\ i \in Nat
  BY <1>1, ReqType, ScriptType DEF Headed
<1>3. rest \in Seq(ReqToks) /\ Len(rest) = Len(w.c.out) - m.hdr
  <2> DEFINE n == m.hdr
  <2>1. n \in 0..Len(w.c.out)
    BY <1>1, <1>2
  <2> HIDE DEF n
  <2>2. Drop(w.c.out, n) \in Seq(ReqToks) /\ Len(Drop(w.c.out, n)) = Len(w.c.out) - n
    BY <1>1, <2>1, DropType
  <2> QED
    BY <2>2 DEF n
<1>4. left \in Nat
  <2> DEFINE h == m.hdr
             l == Len(w.c.out)
             body == m.body
  <2>1. h \in 1..l /\ l \in Nat /\ body \in Nat
    BY <1>1, <1>2
  <2> HIDE DEF h, l, body
  <2>2. l - h \in Nat
    BY <2>1
  <2>3. Left(body, l - h) \in Nat
    BY <2>1, <2>2 DEF Left
  <2> QED
    BY <2>3 DEF h, l, body
<1>5. /\ out2 \in Seq(ReqToks) /\ Len(out2) = Growth + Len(w.c.out) /\ out2 # <<>>
      /\ out2[1] = <<i, 1 - Growth>>
  BY <1>1, PreparedType
<1>6. Len(out2) \in Nat /\ Len(out2) <= Slot
  BY <1>1, <1>5, Sizes
<1>7. Written(w) = [w EXCEPT !.c = k]
  BY <1>1, <1>3, Zenon DEF Written, BodyRead, Prepared, Worlds
<1> HIDE DEF left, out2, rest
<1>8. /\ k \in Conns /\ InUse(k) = InUse(w.c) /\ k.out = out2 /\ k.outOff = 0 /\ k.req = i
      /\ k.in = w.c.in /\ k.inOff = w.c.inOff /\ k.attempts = w.c.attempts
  BY <1>1, <1>2, <1>4, <1>5 DEF Conns, InUse
<1>9. ConnFits(k)
  BY <1>1, <1>6, <1>8 DEF ConnFits
<1> HIDE DEF k
<1>10. /\ kr \in Conns /\ InUse(kr) = InUse(w.c) /\ ConnFits(kr) /\ kr.reqReady = TRUE
       /\ kr.out = out2 /\ kr.outOff = 0 /\ kr.req = i
  BY <1>8, <1>9 DEF Conns, InUse, ConnFits
<1>11. Ready(w) = [w EXCEPT !.c = kr]
  BY <1>1, <1>7, <1>8 DEF Ready, Worlds
<1> HIDE DEF kr
<1>12. /\ Written(w) \in Worlds /\ Written(w).c = k /\ Written(w).net = w.net
       /\ Written(w).ep = w.ep /\ Written(w).res = w.res
  BY <1>1, <1>7, <1>8 DEF Worlds
<1>13. /\ Ready(w) \in Worlds /\ Ready(w).c = kr /\ Ready(w).net = w.net
       /\ Ready(w).ep = w.ep /\ Ready(w).res = w.res
  BY <1>1, <1>10, <1>11 DEF Worlds
<1>14. Fits(Written(w)) /\ Fits(Ready(w))
  BY <1>8, <1>9, <1>10, <1>12, <1>13 DEF Fits
<1>15. Whole(Ready(w).c)
  BY <1>2, <1>5, <1>10, <1>13 DEF Whole
<1> QED
  BY <1>12, <1>13, <1>14, <1>15, Zenon DEF k, kr, left, out2

LEMMA PrepareFits ==
  ASSUME NEW w, Fits(w), Headed(w.c)
  PROVE  /\ Fits(PrepareRequest(w)) /\ Follows(PrepareRequest(w), w)
         /\ \/ PrepareRequest(w).c = Closed
            \/ PrepareRequest(w) = Ready(w) /\ Whole(Ready(w).c)
<1>1. CASE PrepareRequest(w) = SendError(w, 503) \/ PrepareRequest(w) = SendError(w, 431)
  BY <1>1, SendErrorFits
<1>2. CASE ~(Growth + Len(w.c.out) > Slot)
           /\ PrepareRequest(w) \in {SendError(Written(w), 400), Ready(w)}
  <2>1. /\ Fits(Written(w)) /\ Fits(Ready(w)) /\ Whole(Ready(w).c)
        /\ Written(w).net = w.net /\ Written(w).ep = w.ep
        /\ Ready(w).net = w.net /\ Ready(w).ep = w.ep
    BY <1>2, WrittenFits, Zenon
  <2>2. /\ Fits(SendError(Written(w), 400)) /\ SendError(Written(w), 400).c = Closed
        /\ Follows(SendError(Written(w), 400), Written(w))
    BY <2>1, SendErrorFits
  <2>3. Follows(Written(w), w) /\ Follows(Ready(w), w)
    BY <2>1, FollowsSame
  <2> QED
    BY <1>2, <2>1, <2>2, <2>3, FollowsOn
<1> QED
  BY <1>1, <1>2, PrepareCases, FitsParts, Sizes

\* One connect under way, after f that failed on the spot.
Connecting(w, f) ==
  [w EXCEPT !.c.attempts = @ + f + 1, !.c.be = TRUE, !.c.state = "CONNECTING",
            !.net.u = "connecting"]

LEMMA ConnectingFits ==
  ASSUME NEW w, Fits(w), NEW f \in 0..((MaxAttempts - w.c.attempts) - 1)
  PROVE  /\ Fits(Connecting(w, f)) /\ Connecting(w, f).net = [w.net EXCEPT !.u = "connecting"]
         /\ Connecting(w, f).c = [w.c EXCEPT !.attempts = @ + f + 1, !.be = TRUE,
                                            !.state = "CONNECTING"]
         /\ Connecting(w, f).ep = w.ep /\ Connecting(w, f).res = w.res
<1> DEFINE c2 == [w.c EXCEPT !.attempts = @ + f + 1, !.be = TRUE, !.state = "CONNECTING"]
           net2 == [w.net EXCEPT !.u = "connecting"]
<1>1. w \in Worlds /\ w.c \in Conns /\ w.net \in Nets /\ ConnFits(w.c) /\ NetFits(w.net)
  BY DEF Fits, Worlds
<1>2. w.c.attempts \in Nat /\ MaxAttempts \in Nat /\ f \in Nat
  BY <1>1, Sizes DEF Conns
<1>3. w.c.attempts + f + 1 \in Nat /\ w.c.attempts + f + 1 <= MaxAttempts
  BY <1>2
<1>4. c2 \in Conns /\ ConnFits(c2) /\ InUse(c2) = InUse(w.c)
  BY <1>1, <1>3 DEF Conns, ConnFits, InUse
<1>5. net2 \in Nets /\ NetFits(net2)
  BY <1>1 DEF Nets, NetFits
<1>6. Connecting(w, f) = [w EXCEPT !.c = c2, !.net = net2]
  BY <1>1 DEF Connecting, Worlds
<1> HIDE DEF c2, net2
<1>7. /\ Connecting(w, f) \in Worlds /\ Connecting(w, f).c = c2 /\ Connecting(w, f).net = net2
      /\ Connecting(w, f).ep = w.ep /\ Connecting(w, f).res = w.res
  BY <1>1, <1>4, <1>5, <1>6 DEF Worlds
<1>8. Fits(Connecting(w, f))
  BY <1>1, <1>4, <1>5, <1>7 DEF Fits
<1> QED
  BY <1>7, <1>8 DEF c2, net2

\* What the loop of route_and_connect may come to.
LEMMA ConnectCases ==
  ASSUME NEW w, Fits(w), NEW r \in ConnectLoop(w)
  PROVE  \/ r = SendError(Arm(w, "C", {}), 502)
         \/ \E f \in 0..((MaxAttempts - Arm(w, "C", {}).c.attempts) - 1) :
              r = Arm(Connecting(Arm(w, "C", {}), f), "U", {"W"})
<1> DEFINE v == Arm(w, "C", {})
           tries == MaxAttempts - w.c.attempts
           some == IF May("refusal") THEN 0..(tries - 1) ELSE {0} \cap 0..(tries - 1)
<1>1. r \in {Arm([v EXCEPT !.c.attempts = @ + f + 1, !.c.be = TRUE, !.c.state = "CONNECTING",
                          !.net.u = "connecting"], "U", {"W"}) : f \in some}
      \/ r = SendError(v, 502)
  BY Zenon DEF ConnectLoop
<1>2. Arm(w, "C", {}).c = w.c
  BY ArmFits DEF FDs
<1> HIDE DEF v
<1>3. some \subseteq 0..(tries - 1)
  OBVIOUS
<1> HIDE DEF some
<1>4. CASE r = SendError(v, 502)
  BY <1>4 DEF v
<1>5. CASE r # SendError(v, 502)
  <2>1. PICK f \in some : r = Arm([v EXCEPT !.c.attempts = @ + f + 1, !.c.be = TRUE,
                                   !.c.state = "CONNECTING", !.net.u = "connecting"], "U", {"W"})
    BY <1>1, <1>5, Zenon
  <2>2. f \in 0..((MaxAttempts - Arm(w, "C", {}).c.attempts) - 1)
    BY <1>2, <1>3
  <2> QED
    BY <2>1, <2>2, Zenon DEF Connecting, v
<1> QED
  BY <1>4, <1>5

LEMMA ConnectLoopFits ==
  ASSUME NEW w, Fits(w), Whole(w.c), NEW r \in ConnectLoop(w)
  PROVE  Fits(r) /\ Shape(r.c) /\ r.c.state \in {"CONNECTING", "CLOSING"}
<1> DEFINE v == Arm(w, "C", {})
<1>1. Fits(v) /\ v.c = w.c /\ v.net = w.net
  BY ArmFits DEF FDs
<1>2. ASSUME r = SendError(v, 502) PROVE Fits(r) /\ r.c = Closed
  BY <1>1, <1>2, SendErrorFits
<1>3. ASSUME NEW f \in 0..((MaxAttempts - v.c.attempts) - 1), r = Arm(Connecting(v, f), "U", {"W"})
      PROVE  Fits(r) /\ Shape(r.c) /\ r.c.state = "CONNECTING"
  <2>1. Fits(Connecting(v, f)) /\ Connecting(v, f).c =
           [v.c EXCEPT !.attempts = @ + f + 1, !.be = TRUE, !.state = "CONNECTING"]
    BY <1>1, ConnectingFits, Zenon
  <2>2. {"W"} \in SUBSET Evs
    BY DEF Evs
  <2>3. Fits(r) /\ r.c = Connecting(v, f).c
    BY <1>3, <2>1, <2>2, ArmFits DEF FDs
  <2>4. w.c \in Conns /\ r.c = [w.c EXCEPT !.attempts = @ + f + 1, !.be = TRUE,
                                          !.state = "CONNECTING"]
    BY <1>1, <2>1, <2>3 DEF Fits, Worlds
  <2>5. /\ r.c.state = "CONNECTING" /\ r.c.reqReady = w.c.reqReady /\ r.c.req = w.c.req
        /\ r.c.outOff = w.c.outOff /\ r.c.out = w.c.out
    BY <2>4 DEF Conns
  <2> QED
    BY <2>3, <2>5 DEF Shape, Whole
<1> HIDE DEF v
<1>4. \/ r = SendError(v, 502)
      \/ \E f \in 0..((MaxAttempts - v.c.attempts) - 1) : r = Arm(Connecting(v, f), "U", {"W"})
  BY ConnectCases DEF v
<1> QED
  BY <1>2, <1>3, <1>4, ClosedShape, BlankType

\* The steps of route_and_connect before it relays or connects.
Wanted(w)  == Reqs[IF w.c.reqReady THEN w.c.req ELSE w.c.out[1][1]]
OtherOut(w) == IF w.net.u # "none" /\ w.c.pool # Wanted(w).pool THEN DropUpstream(w) ELSE w
Routed(w)  == [OtherOut(w) EXCEPT !.c.pool = Wanted(w).pool,
                                  !.c.keep = IF w.c.reqReady THEN @ ELSE Wanted(w).keep]
Prep(w)    == IF w.c.reqReady THEN Routed(w) ELSE PrepareRequest(Routed(w))
Both(p)    == [p EXCEPT !.c.hasIn = TRUE, !.res.free = IF p.c.hasIn THEN @ ELSE @ - 1]
Relaying(q) == [q EXCEPT !.c.state = "PROXYING"]

LEMMA RouteCases ==
  ASSUME NEW w, NEW r \in RouteAndConnect(w)
  PROVE  \/ r = SendError(w, 502)
         \/ Prep(w).c.state = "CLOSING" /\ r = Prep(w)
         \/ Prep(w).c.state # "CLOSING" /\ r = SendError(Prep(w), 503)
         \/ /\ Prep(w).c.state # "CLOSING" /\ ~(~Prep(w).c.hasIn /\ Prep(w).res.free = 0)
            /\ \/ /\ Both(Prep(w)).net.u # "none"
                  /\ r = ProxyStep(Arm(Relaying(Both(Prep(w))), "U", {"R", "W"}))
               \/ Both(Prep(w)).net.u = "none" /\ r \in ConnectLoop(Both(Prep(w)))
<1> DEFINE p == Prep(w)
           q == Both(p)
<1>1. RouteAndConnect(w) =
        IF Wanted(w).pool = 0 THEN {SendError(w, 502)}
        ELSE IF p.c.state = "CLOSING" THEN {p}
        ELSE IF ~p.c.hasIn /\ p.res.free = 0 THEN {SendError(p, 503)}
        ELSE IF q.net.u # "none" THEN {ProxyStep(Arm(Relaying(q), "U", {"R", "W"}))}
        ELSE ConnectLoop(q)
  BY Zenon DEF RouteAndConnect, Prep, Routed, OtherOut, Wanted, Both, Relaying
<1> HIDE DEF p, q
<1>2. CASE Wanted(w).pool = 0
  BY <1>1, <1>2
<1>3. CASE Wanted(w).pool # 0 /\ p.c.state = "CLOSING"
  BY <1>1, <1>3 DEF p
<1>4. CASE Wanted(w).pool # 0 /\ p.c.state # "CLOSING" /\ ~p.c.hasIn /\ p.res.free = 0
  BY <1>1, <1>4 DEF p
<1>5. CASE Wanted(w).pool # 0 /\ p.c.state # "CLOSING" /\ ~(~p.c.hasIn /\ p.res.free = 0)
  <2>1. CASE q.net.u # "none"
    <3>1. r = ProxyStep(Arm(Relaying(q), "U", {"R", "W"}))
      BY <1>1, <1>5, <2>1
    <3> QED
      BY <1>5, <2>1, <3>1 DEF p, q
  <2>2. CASE q.net.u = "none"
    <3>1. r \in ConnectLoop(q)
      BY <1>1, <1>5, <2>2
    <3> QED
      BY <1>5, <2>2, <3>1 DEF p, q
  <2> QED
    BY <2>1, <2>2
<1> QED
  BY <1>2, <1>3, <1>4, <1>5

\* The request that is to be routed is known: it was read, or it is ready.
Routable(w) ==
  /\ Fits(w) /\ w.c.state \in {"READING", "CONNECTING"}
  /\ IF w.c.reqReady THEN Whole(w.c) ELSE Headed(w.c)

LEMMA RoutedFits ==
  ASSUME NEW w, Routable(w)
  PROVE  /\ Fits(Routed(w)) /\ Routed(w).c.state = w.c.state
         /\ Routed(w).c.reqReady = w.c.reqReady
         /\ Routed(w).c.out = w.c.out /\ Routed(w).c.outOff = w.c.outOff
         /\ Routed(w).c.req = w.c.req /\ Routed(w).c.hasIn = w.c.hasIn
         /\ Routed(w).c.in = w.c.in /\ Routed(w).c.inOff = w.c.inOff
         /\ Routed(w).c.respHdr = w.c.respHdr /\ Routed(w).c.respComplete = w.c.respComplete
         /\ Routed(w).net \in {w.net, Dropped(w.net)}
         /\ Routed(w).c.upEof = w.c.upEof /\ Follows(Routed(w), w)
         /\ (w.c.reqReady => Whole(Routed(w).c)) /\ (~w.c.reqReady => Headed(Routed(w).c))
<1> DEFINE v == OtherOut(w)
           m == Wanted(w)
           keep2 == IF w.c.reqReady THEN v.c.keep ELSE m.keep
           c2 == [v.c EXCEPT !.pool = m.pool, !.keep = keep2]
<1>1. Fits(w) /\ w.c \in Conns /\ w \in Worlds
  BY DEF Routable, Fits, Worlds
<1>2. m.pool \in Nat /\ m.keep \in BOOLEAN
  <2>1. CASE w.c.reqReady
    BY <1>1, <2>1, ReqType DEF Routable, Whole, Wanted, Fits
  <2>2. CASE ~w.c.reqReady
    BY <1>1, <2>2, ReqType DEF Routable, Headed, Wanted, Fits
  <2> QED
    BY <2>1, <2>2
<1>3. /\ Fits(v) /\ (v.c = w.c \/ v.c = [w.c EXCEPT !.be = FALSE])
      /\ v.net \in {w.net, Dropped(w.net)} /\ Follows(v, w)
  BY <1>1, DropUpstreamFits, FollowsSame DEF OtherOut
<1> HIDE DEF v, m
<1>4. v \in Worlds /\ v.c \in Conns /\ ConnFits(v.c)
  BY <1>3 DEF Fits, Worlds
<1>5. keep2 \in BOOLEAN
  BY <1>2, <1>4 DEF Conns
<1>6. Routed(w) = [v EXCEPT !.c = c2]
  BY <1>4 DEF Routed, Worlds, v, m
<1> HIDE DEF keep2
<1>7. /\ c2 \in Conns /\ ConnFits(c2) /\ InUse(c2) = InUse(v.c) /\ c2.state = v.c.state
      /\ c2.reqReady = v.c.reqReady /\ c2.out = v.c.out /\ c2.outOff = v.c.outOff
      /\ c2.req = v.c.req /\ c2.hasIn = v.c.hasIn /\ c2.in = v.c.in /\ c2.inOff = v.c.inOff
      /\ c2.respHdr = v.c.respHdr /\ c2.respComplete = v.c.respComplete
      /\ c2.upEof = v.c.upEof
  BY <1>2, <1>4, <1>5 DEF Conns, ConnFits, InUse
<1>8. /\ v.c.state = w.c.state /\ v.c.reqReady = w.c.reqReady /\ v.c.out = w.c.out
      /\ v.c.outOff = w.c.outOff /\ v.c.req = w.c.req /\ v.c.hasIn = w.c.hasIn
      /\ v.c.in = w.c.in /\ v.c.inOff = w.c.inOff
      /\ v.c.respHdr = w.c.respHdr /\ v.c.respComplete = w.c.respComplete
      /\ v.c.upEof = w.c.upEof
  BY <1>1, <1>3 DEF Conns
<1> HIDE DEF c2
<1>9. /\ Routed(w) \in Worlds /\ Routed(w).c = c2 /\ Routed(w).net = v.net
      /\ Routed(w).ep = v.ep /\ Routed(w).res = v.res
  BY <1>4, <1>6, <1>7 DEF Worlds
<1>10. Fits(Routed(w)) /\ Follows(Routed(w), w)
  BY <1>3, <1>7, <1>9, FollowsSame, FollowsOn DEF Fits
<1>11. (w.c.reqReady => Whole(Routed(w).c)) /\ (~w.c.reqReady => Headed(Routed(w).c))
  BY <1>7, <1>8, <1>9 DEF Routable, Whole, Headed
<1> QED
  BY <1>3, <1>7, <1>8, <1>9, <1>10, <1>11

LEMMA BothFits ==
  ASSUME NEW p, Fits(p), p.c.hasIn \/ p.res.free # 0
  PROVE  /\ Fits(Both(p)) /\ Both(p).c = [p.c EXCEPT !.hasIn = TRUE]
         /\ Both(p).net = p.net /\ Both(p).ep = p.ep
<1> DEFINE c2 == [p.c EXCEPT !.hasIn = TRUE]
           res2 == [p.res EXCEPT !.free = IF p.c.hasIn THEN @ ELSE @ - 1]
<1>1. /\ p \in Worlds /\ p.c \in Conns /\ p.res \in Shares /\ ConnFits(p.c)
      /\ p.res.free + InUse(p.c) = Slots
  BY DEF Fits, Worlds
<1>2. c2 \in Conns /\ ConnFits(c2)
  BY <1>1 DEF Conns, ConnFits
<1>3. InUse(c2) = IF p.c.hasIn THEN InUse(p.c) ELSE InUse(p.c) + 1
  BY <1>1 DEF Conns, InUse
<1>4. InUse(p.c) \in 0..2
  BY <1>1 DEF Conns, InUse
<1>5. res2 \in Shares /\ res2.free = IF p.c.hasIn THEN p.res.free ELSE p.res.free - 1
  BY <1>1 DEF Shares
<1>6. Both(p) = [p EXCEPT !.c = c2, !.res = res2]
  BY <1>1 DEF Both, Worlds
<1> HIDE DEF c2, res2
<1>7. /\ Both(p) \in Worlds /\ Both(p).c = c2 /\ Both(p).res = res2 /\ Both(p).net = p.net
      /\ Both(p).ep = p.ep
  BY <1>1, <1>2, <1>5, <1>6 DEF Worlds
<1>8. p.res.free \in Nat /\ Slots \in Nat
  BY <1>1, Sizes DEF Shares
<1>9. res2.free + InUse(c2) = Slots
  BY <1>1, <1>3, <1>4, <1>5, <1>8
<1>10. Fits(Both(p))
  BY <1>2, <1>7, <1>9 DEF Fits
<1> QED
  BY <1>7, <1>10 DEF c2

LEMMA RelayingFits ==
  ASSUME NEW q, Fits(q)
  PROVE  /\ Fits(Relaying(q)) /\ Relaying(q).c = [q.c EXCEPT !.state = "PROXYING"]
         /\ Relaying(q).c.state = "PROXYING"
         /\ Relaying(q).net = q.net /\ Relaying(q).ep = q.ep /\ Relaying(q).res = q.res
<1> DEFINE c2 == [q.c EXCEPT !.state = "PROXYING"]
<1>1. q \in Worlds /\ q.c \in Conns /\ ConnFits(q.c)
  BY DEF Fits, Worlds
<1>2. c2 \in Conns /\ ConnFits(c2) /\ InUse(c2) = InUse(q.c) /\ c2.state = "PROXYING"
  BY <1>1 DEF Conns, ConnFits, InUse
<1>3. Relaying(q) = [q EXCEPT !.c = c2]
  BY <1>1 DEF Relaying, Worlds
<1> HIDE DEF c2
<1>4. /\ Relaying(q) \in Worlds /\ Relaying(q).c = c2 /\ Relaying(q).net = q.net
      /\ Relaying(q).ep = q.ep /\ Relaying(q).res = q.res
  BY <1>1, <1>2, <1>3 DEF Worlds
<1> QED
  BY <1>2, <1>4 DEF Fits, c2

\* The request is ready, or the connection was closed with an answer.
LEMMA PrepFits ==
  ASSUME NEW w, Routable(w)
  PROVE  /\ Fits(Prep(w)) /\ Follows(Prep(w), w)
         /\ \/ Prep(w).c = Closed
            \/ /\ Whole(Prep(w).c) /\ Prep(w).c.state = w.c.state
               /\ Prep(w).c.upEof = w.c.upEof
               /\ Prep(w) = IF w.c.reqReady THEN Routed(w) ELSE Ready(Routed(w))
<1>1. /\ Fits(Routed(w)) /\ Routed(w).c.state = w.c.state
      /\ Routed(w).c.upEof = w.c.upEof /\ Follows(Routed(w), w)
      /\ (w.c.reqReady => Whole(Routed(w).c)) /\ (~w.c.reqReady => Headed(Routed(w).c))
  BY RoutedFits
<1>2. CASE w.c.reqReady
  BY <1>1, <1>2 DEF Prep
<1>3. CASE ~w.c.reqReady
  <2>1. Prep(w) = PrepareRequest(Routed(w))
    BY <1>3 DEF Prep
  <2>2. /\ Fits(Prep(w)) /\ Follows(Prep(w), w)
        /\ Prep(w).c = Closed \/ (Prep(w) = Ready(Routed(w)) /\ Whole(Ready(Routed(w)).c))
    BY <1>1, <1>3, <2>1, PrepareFits, FollowsOn
  <2>3. Ready(Routed(w)).c.state = Routed(w).c.state
    BY <1>1, Zenon DEF Fits, Worlds, Ready, Written, Conns
  <2>4. Ready(Routed(w)).c.upEof = Routed(w).c.upEof
    BY <1>1, Zenon DEF Fits, Worlds, Ready, Written, Conns
  <2> QED
    BY <1>1, <1>3, <2>2, <2>3, <2>4
<1> QED
  BY <1>2, <1>3

LEMMA RouteFits ==
  ASSUME NEW w, Routable(w), NEW r \in RouteAndConnect(w)
  PROVE  Fits(r) /\ Shape(r.c) /\ r.c.state # "NEW"
<1> DEFINE p == Prep(w)
           q == Both(p)
<1>1. Fits(w) /\ Fits(p) /\ (p.c = Closed \/ Whole(p.c))
  BY PrepFits DEF Routable
<1>2. CASE r = SendError(w, 502)
  <2>1. Fits(r) /\ r.c = Closed
    <3>1. 502 \in Nat
      OBVIOUS
    <3> HIDE DEF p
    <3> QED
      BY <1>1, <1>2, <3>1, SendErrorFits
  <2> QED
    BY <2>1, ClosedShape, BlankType
<1>3. CASE p.c.state = "CLOSING" /\ r = p
  <2>1. p.c = Closed
    <3>1. CASE Whole(p.c)
      <4>1. w.c.state \in {"READING", "CONNECTING"}
        BY DEF Routable
      <4>2. p.c = Closed \/ p.c.state = w.c.state
        BY PrepFits
      <4> QED
        BY <1>3, <4>1, <4>2
    <3> QED
      BY <1>1, <3>1
  <2> QED
    BY <1>1, <1>3, <2>1, ClosedShape
<1>4. CASE p.c.state # "CLOSING" /\ r = SendError(p, 503)
  <2>1. Fits(r) /\ r.c = Closed
    <3>1. 503 \in Nat
      OBVIOUS
    <3> HIDE DEF p
    <3> QED
      BY <1>1, <1>4, <3>1, SendErrorFits
  <2> QED
    BY <2>1, ClosedShape, BlankType
<1>5. CASE /\ p.c.state # "CLOSING" /\ ~(~p.c.hasIn /\ p.res.free = 0)
           /\ \/ q.net.u # "none" /\ r = ProxyStep(Arm(Relaying(q), "U", {"R", "W"}))
              \/ q.net.u = "none" /\ r \in ConnectLoop(q)
  <2>1. Fits(q) /\ q.c = [p.c EXCEPT !.hasIn = TRUE]
    BY <1>1, <1>5, BothFits
  <2>2. Whole(p.c) /\ p.c \in Conns
    <3>1. p.c # Closed
      BY <1>5, BlankType DEF Closed
    <3> QED
      BY <1>1, <3>1 DEF Fits, Worlds
  <2>3. Whole(q.c)
    BY <2>1, <2>2 DEF Whole, Conns
  <2> HIDE DEF q
  <2>4. CASE r = ProxyStep(Arm(Relaying(q), "U", {"R", "W"}))
    <3>1. {"R", "W"} \in SUBSET Evs
      BY DEF Evs
    <3>2. Fits(Relaying(q)) /\ Relaying(q).c.state = "PROXYING"
      BY <2>1, RelayingFits
    <3>3. /\ Fits(Arm(Relaying(q), "U", {"R", "W"}))
          /\ Arm(Relaying(q), "U", {"R", "W"}).c.state = "PROXYING"
      BY <3>1, <3>2, ArmFits DEF FDs
    <3> QED
      BY <2>4, <3>3, ProxyStepFits
  <2>5. CASE r \in ConnectLoop(q)
    BY <2>1, <2>3, <2>5, ConnectLoopFits
  <2> QED
    BY <1>5, <2>4, <2>5
<1> HIDE DEF p, q
<1> QED
  BY <1>2, <1>3, <1>4, <1>5, RouteCases DEF p, q

----------------------------------------------------------------------------
(* The handlers.                                                           *)

\* What every handler is handed and leaves.
Good(w) == Fits(w) /\ Shape(w.c)

LEMMA WorldIs == World.c = c /\ World.net = net /\ World.ep = ep /\ World.res = res
BY DEF World

LEMMA TakenFits ==
  ASSUME Good(World), NEW b \in ep.batch
  PROVE  /\ Good(Taken(b)) /\ Taken(b).c = c /\ Taken(b).net = net /\ Taken(b).res = res
         /\ Taken(b).ep = [ep EXCEPT !.batch = @ \ {b}] /\ b \in Batch
<1> DEFINE e == [ep EXCEPT !.batch = @ \ {b}]
<1>1. World \in Worlds /\ ep \in Eps /\ ep.rdy \subseteq ep.reg
  BY WorldIs, FitsParts DEF Good, Fits
<1>2. e \in Eps /\ e.rdy \subseteq e.reg
  BY <1>1 DEF Eps
<1>3. Taken(b) = [World EXCEPT !.ep = e]
  BY <1>1, WorldIs DEF Taken, Worlds
<1> HIDE DEF e
<1>4. /\ Taken(b) \in Worlds /\ Taken(b).c = c /\ Taken(b).net = net /\ Taken(b).res = res
      /\ Taken(b).ep = e
  BY <1>1, <1>2, <1>3, WorldIs DEF Worlds
<1>5. b \in Batch
  BY <1>1 DEF Eps
<1> QED
  BY <1>2, <1>4, <1>5, WorldIs DEF Good, Fits, e

\* A closed connection, with or without an answer.
LEMMA ClosedGood ==
  ASSUME NEW w, Fits(w), NEW code \in Nat
  PROVE  Good(ConnClose(w)) /\ Good(SendError(w, code))
BY ConnCloseFits, SendErrorFits, ClosedShape DEF Good

LEMMA AcceptGood ==
  ASSUME Good(World), c.state = "NEW", res.free # 0
  PROVE  LET got == [World EXCEPT !.c.state = "READING", !.c.hasOut = TRUE, !.res.free = @ - 1]
         IN  /\ Good(got) /\ got.c = [c EXCEPT !.state = "READING", !.hasOut = TRUE]
             /\ got.net = net /\ got.ep = ep
<1> DEFINE got == [World EXCEPT !.c.state = "READING", !.c.hasOut = TRUE, !.res.free = @ - 1]
           c2 == [c EXCEPT !.state = "READING", !.hasOut = TRUE]
           res2 == [res EXCEPT !.free = @ - 1]
<1>1. /\ World \in Worlds /\ c \in Conns /\ ConnFits(c) /\ c = Blank
      /\ res \in Shares /\ res.free + InUse(c) = Slots
  BY WorldIs, FitsParts DEF Good, Fits, Shape
<1>2. got = [World EXCEPT !.c = c2, !.res = res2]
  BY <1>1, WorldIs DEF Worlds
<1>3. /\ c2 \in Conns /\ ConnFits(c2) /\ InUse(c2) = 1 /\ c2.state = "READING"
      /\ c2.reqReady = FALSE /\ c2.outOff = 0
  <2>1. c.reqReady = FALSE /\ c.outOff = 0 /\ c.hasIn = FALSE
    BY <1>1 DEF Blank
  <2>2. /\ c2 \in Conns /\ c2.state = "READING" /\ c2.reqReady = c.reqReady
        /\ c2.outOff = c.outOff /\ c2.out = c.out /\ c2.in = c.in /\ c2.inOff = c.inOff
        /\ c2.attempts = c.attempts /\ c2.hasOut = TRUE /\ c2.hasIn = c.hasIn
    BY <1>1 DEF Conns
  <2> HIDE DEF c2
  <2> QED
    BY <1>1, <2>1, <2>2 DEF ConnFits, InUse
<1>4. InUse(c) = 0
  BY <1>1, BlankType
<1>5. res2 \in Shares /\ res2.free + 1 = Slots
  BY <1>1, <1>4, Sizes DEF Shares
<1> HIDE DEF c2, res2
<1>6. got \in Worlds /\ got.c = c2 /\ got.res = res2 /\ got.net = net /\ got.ep = ep
  BY <1>1, <1>2, <1>3, <1>5, WorldIs DEF Worlds
<1> HIDE DEF got
<1>7. Fits(got)
  BY <1>3, <1>5, <1>6, WorldIs DEF Good, Fits
<1>8. Good(got)
  BY <1>3, <1>6, <1>7 DEF Good, Shape
<1> QED
  BY <1>6, <1>8 DEF got, c2

\* The request read so far, with what it was not known to be over.
LEMMA ReadingGood ==
  ASSUME NEW w, Good(w), w.c.state = "READING", NEW eof
  PROVE  LET v == ReadClient(w)
         IN  /\ Good(v) /\ v.c.state = "READING"
             /\ Parse(Reqs, v.c.out) = "done" /\ eof \in BOOLEAN =>
                  Routable([v EXCEPT !.c.clientEof = eof])
<1> DEFINE v == ReadClient(w)
           c2 == [v.c EXCEPT !.clientEof = eof]
           k == [v EXCEPT !.c.clientEof = eof]
<1>1. Fits(v) /\ v.c = [w.c EXCEPT !.out = @ \o Take(w.net.cRecv, CliRead(w))] /\ w.c \in Conns
  BY ReadClientFits DEF Good, Fits, Worlds
<1>2. v.c.state = "READING" /\ ~v.c.reqReady /\ v.c.outOff = 0
  BY <1>1 DEF Conns, Good, Shape
<1>3. Good(v)
  BY <1>1, <1>2 DEF Good, Shape
<1> HIDE DEF v
<1>4. v \in Worlds /\ v.c \in Conns /\ ConnFits(v.c) /\ v.c.out \in Seq(ReqToks)
  BY <1>1, FitsParts DEF Fits
<1>5. ASSUME Parse(Reqs, v.c.out) = "done", eof \in BOOLEAN PROVE Routable(k)
  <2>1. /\ v.c.out # <<>> /\ v.c.out[1][2] = 1
        /\ ~(Len(v.c.out) < Reqs[v.c.out[1][1]].hdr)
    BY <1>5, ParseDone
  <2>2. v.c.out[1] \in ReqToks /\ Len(v.c.out) \in Nat
    BY <1>4, <2>1, ElementOfSeq, EmptySeq, LenProperties
  <2>3. v.c.out[1][1] \in 1..Len(Reqs)
    BY <2>2 DEF ReqToks
  <2>4. Reqs[v.c.out[1][1]].hdr \in Nat
    BY <1>1, <2>3, ReqType DEF Fits
  <2>5. Reqs[v.c.out[1][1]].hdr <= Len(v.c.out)
    BY <2>1, <2>2, <2>4
  <2>6. Headed(v.c)
    BY <1>2, <2>1, <2>3, <2>5 DEF Headed
  <2>7. /\ c2 \in Conns /\ ConnFits(c2) /\ InUse(c2) = InUse(v.c) /\ c2.state = v.c.state
        /\ c2.reqReady = v.c.reqReady /\ c2.outOff = v.c.outOff /\ c2.out = v.c.out
    BY <1>4, <1>5 DEF Conns, ConnFits, InUse
  <2>8. k = [v EXCEPT !.c = c2]
    BY <1>4 DEF Worlds
  <2> HIDE DEF c2
  <2>9. k \in Worlds /\ k.c = c2 /\ k.net = v.net /\ k.ep = v.ep /\ k.res = v.res
    BY <1>4, <2>7, <2>8 DEF Worlds
  <2> HIDE DEF k
  <2>10. Fits(k)
    BY <1>1, <2>7, <2>9 DEF Fits
  <2>11. Headed(k.c)
    BY <2>6, <2>7, <2>9 DEF Headed
  <2> QED
    BY <1>2, <2>7, <2>9, <2>10, <2>11 DEF Routable
<1> QED
  BY <1>2, <1>3, <1>5 DEF v

\* A struct with the same buffers and slots may take the place of another.
LEMMA SwapFits ==
  ASSUME NEW w, Fits(w), NEW k \in Conns,
         k.out = w.c.out, k.outOff = w.c.outOff, k.in = w.c.in, k.inOff = w.c.inOff,
         k.attempts = w.c.attempts, k.hasOut = w.c.hasOut, k.hasIn = w.c.hasIn
  PROVE  /\ Fits([w EXCEPT !.c = k]) /\ [w EXCEPT !.c = k].c = k
         /\ [w EXCEPT !.c = k].net = w.net /\ [w EXCEPT !.c = k].ep = w.ep
         /\ [w EXCEPT !.c = k].res = w.res
<1>1. w \in Worlds /\ w.c \in Conns /\ ConnFits(w.c)
  BY FitsParts DEF Fits
<1>2. ConnFits(k) /\ InUse(k) = InUse(w.c)
  BY <1>1 DEF ConnFits, InUse
<1> DEFINE v == [w EXCEPT !.c = k]
<1>3. v \in Worlds /\ v.c = k /\ v.net = w.net /\ v.ep = w.ep /\ v.res = w.res
  BY <1>1 DEF Worlds
<1> HIDE DEF v
<1>4. Fits(v)
  BY <1>2, <1>3 DEF Fits
<1> QED
  BY <1>3, <1>4 DEF v

\* What a handler leaves is the next state, and the script stays as it is.
LEMMA BecomeGood ==
  ASSUME NEW W, Become(W), \A w \in W : Good(w)
  PROVE  Good(World)' /\ Reqs' = Reqs /\ Resps' = Resps /\ script' = script
<1>1. PICK w \in W : /\ c' = w.c /\ net' = w.net /\ ep' = w.ep /\ res' = w.res
                     /\ script' = script
  BY DEF Become
<1>2. Good(w) /\ w \in Worlds
  BY FitsParts DEF Good, Fits
<1>3. World' = w
  BY <1>1, <1>2 DEF World, Worlds
<1>4. Reqs' = Reqs /\ Resps' = Resps
  BY <1>1 DEF Reqs, Resps
<1>5. ReqToks' = ReqToks /\ RespToks' = RespToks /\ CliToks' = CliToks
  BY <1>4 DEF ReqToks, RespToks, CliToks
<1>6. Conns' = Conns /\ Nets' = Nets
  BY <1>5 DEF Conns, Nets
<1>7. Worlds' = Worlds
  BY <1>6 DEF Worlds
<1>8. Fits(World)'
  BY <1>1, <1>2, <1>3, <1>7 DEF Good, Fits
<1>9. Shape(World.c)'
  BY <1>2, <1>3, <1>4 DEF Good, Shape, Whole
<1> QED
  BY <1>1, <1>4, <1>8, <1>9 DEF Good

\* The struct after `got` more tokens of the body of the response.
FedConn(k, got) ==
  LET m    == Resps[k.resp]
      left == Left(k.respLeft, got)
  IN  [k EXCEPT !.respLeft = IF m.mode \in {"NONE", "UNTIL_CLOSE"} THEN @ ELSE left,
                !.respComplete = IF m.mode = "NONE" THEN TRUE
                                 ELSE IF m.mode = "UNTIL_CLOSE" THEN @
                                 ELSE @ \/ left = 0]

LEMMA FeedFits ==
  ASSUME NEW w, Fits(w), w.c.state = "PROXYING", NEW got \in Nat
  PROVE  /\ Fits(FeedResponse(w, got)) /\ FeedResponse(w, got).c.state = "PROXYING"
         /\ FeedResponse(w, got).c = FedConn(w.c, got)
         /\ FeedResponse(w, got).net = w.net /\ FeedResponse(w, got).ep = w.ep
         /\ FeedResponse(w, got).res = w.res
<1> DEFINE m == Resps[w.c.resp]
           left == Left(w.c.respLeft, got)
           left2 == IF m.mode \in {"NONE", "UNTIL_CLOSE"} THEN w.c.respLeft ELSE left
           done2 == IF m.mode = "NONE" THEN TRUE ELSE IF m.mode = "UNTIL_CLOSE" THEN w.c.respComplete
                    ELSE w.c.respComplete \/ left = 0
           k2 == [w.c EXCEPT !.respLeft = left2, !.respComplete = done2]
<1>1. w \in Worlds /\ w.c \in Conns /\ w.c.respLeft \in Nat /\ w.c.respComplete \in BOOLEAN
      /\ w.c.respHdr \in BOOLEAN /\ w.c.resp \in Nat /\ w.c.upEof \in BOOLEAN
  BY FitsParts DEF Conns
<1>2. left2 \in Nat /\ done2 \in BOOLEAN
  <2>1. left \in Nat
    BY <1>1 DEF Left
  <2> HIDE DEF left
  <2>2. (left = 0) \in BOOLEAN
    OBVIOUS
  <2> QED
    BY <1>1, <2>1, <2>2
<1>3. FeedResponse(w, got) = [w EXCEPT !.c = k2]
  <2>1. CASE m.mode = "NONE"
    BY <1>1, <2>1 DEF FeedResponse, Worlds, Conns
  <2>2. CASE m.mode = "UNTIL_CLOSE"
    BY <1>1, <2>2 DEF FeedResponse, Worlds, Conns
  <2>3. CASE m.mode \notin {"NONE", "UNTIL_CLOSE"}
    <3>1. FeedResponse(w, got) = [w EXCEPT !.c.respLeft = left, !.c.respComplete = @ \/ left = 0]
      BY <2>3 DEF FeedResponse
    <3>2. left2 = left /\ done2 = (w.c.respComplete \/ left = 0)
      BY <2>3
    <3> HIDE DEF left2, done2, left
    <3> QED
      BY <1>1, <3>1, <3>2 DEF Worlds
  <2> QED
    BY <2>1, <2>2, <2>3
<1> HIDE DEF left2, done2
<1>4. /\ k2 \in Conns /\ k2.state = w.c.state
      /\ k2.out = w.c.out /\ k2.outOff = w.c.outOff /\ k2.in = w.c.in /\ k2.inOff = w.c.inOff
      /\ k2.attempts = w.c.attempts /\ k2.hasOut = w.c.hasOut /\ k2.hasIn = w.c.hasIn
  BY <1>1, <1>2, Zenon DEF Conns
<1> HIDE DEF k2
<1>5. /\ Fits([w EXCEPT !.c = k2]) /\ [w EXCEPT !.c = k2].c = k2
      /\ [w EXCEPT !.c = k2].net = w.net /\ [w EXCEPT !.c = k2].ep = w.ep
      /\ [w EXCEPT !.c = k2].res = w.res
  BY <1>4, SwapFits
<1> QED
  BY <1>1, <1>3, <1>4, <1>5 DEF k2, left2, done2, left, m, FedConn

\* The header is in: the struct takes the response for the one it begins.
HeaderIn(v) == [v EXCEPT !.c.respHdr = TRUE, !.c.resp = v.c.in[1][1],
                         !.c.respLeft = Resps[v.c.in[1][1]].body]

LEMMA HeaderFits ==
  ASSUME NEW v, Fits(v), v.c.state = "PROXYING", Parse(Resps, v.c.in) = "done"
  PROVE  /\ Fits(HeaderIn(v)) /\ HeaderIn(v).c.state = "PROXYING"
         /\ HeaderIn(v).c = [v.c EXCEPT !.respHdr = TRUE, !.resp = v.c.in[1][1],
                                        !.respLeft = Resps[v.c.in[1][1]].body]
         /\ HeaderIn(v).net = v.net /\ HeaderIn(v).ep = v.ep /\ HeaderIn(v).res = v.res
         /\ v.c.in[1][1] \in 1..Len(Resps) /\ v.c.in # <<>> /\ v.c.in[1][2] = 1
         /\ Resps[v.c.in[1][1]].hdr <= Len(v.c.in)
         /\ Len(v.c.in) - Resps[v.c.in[1][1]].hdr \in Nat
<1> DEFINE j == v.c.in[1][1]
           body == Resps[j].body
           k2 == [v.c EXCEPT !.respHdr = TRUE, !.resp = j, !.respLeft = body]
<1>1. v \in Worlds /\ v.c \in Conns /\ v.c.in \in Seq(RespToks) /\ Len(v.c.in) \in Nat
      /\ v.c.respComplete \in BOOLEAN /\ v.c.upEof \in BOOLEAN /\ script \in Scripts
  BY FitsParts DEF Conns, Fits
<1>2. v.c.in # <<>> /\ v.c.in[1][2] = 1 /\ ~(Len(v.c.in) < Resps[j].hdr)
  BY ParseDone
<1>3. v.c.in[1] \in RespToks
  BY <1>1, <1>2, ElementOfSeq, EmptySeq, LenProperties
<1>4. j \in 1..Len(Resps)
  BY <1>3 DEF RespToks
<1>5. j \in Nat /\ body \in Nat /\ Resps[j].hdr \in Nat
  <2>1. Len(Resps) \in Nat
    BY <1>1, ScriptType
  <2> HIDE DEF j
  <2>2. Resps[j].body \in Nat /\ Resps[j].hdr \in Nat
    BY <1>1, <1>4, RespType
  <2> QED
    BY <1>4, <2>1, <2>2
<1>6. Resps[j].hdr <= Len(v.c.in) /\ Len(v.c.in) - Resps[j].hdr \in Nat
  BY <1>1, <1>2, <1>5
<1> HIDE DEF body, j
<1>7. HeaderIn(v) = [v EXCEPT !.c = k2]
  BY <1>1 DEF HeaderIn, Worlds, body, j
<1>8. /\ k2 \in Conns /\ k2.state = v.c.state
      /\ k2.out = v.c.out /\ k2.outOff = v.c.outOff /\ k2.in = v.c.in /\ k2.inOff = v.c.inOff
      /\ k2.attempts = v.c.attempts /\ k2.hasOut = v.c.hasOut /\ k2.hasIn = v.c.hasIn
  BY <1>1, <1>5 DEF Conns
<1> HIDE DEF k2
<1>9. /\ Fits([v EXCEPT !.c = k2]) /\ [v EXCEPT !.c = k2].c = k2
      /\ [v EXCEPT !.c = k2].net = v.net /\ [v EXCEPT !.c = k2].ep = v.ep
      /\ [v EXCEPT !.c = k2].res = v.res
  BY <1>8, SwapFits
<1> QED
  BY <1>2, <1>4, <1>6, <1>7, <1>8, <1>9 DEF k2, body, j

LEMMA EofFits ==
  ASSUME NEW w, Fits(w), w.c.state = "PROXYING", NEW eof \in BOOLEAN
  PROVE  LET k == [w EXCEPT !.c.upEof = @ \/ eof]
         IN  /\ Fits(k) /\ k.c.state = "PROXYING" /\ k.c = [w.c EXCEPT !.upEof = @ \/ eof]
             /\ k.net = w.net /\ k.ep = w.ep /\ k.res = w.res
<1> DEFINE k == [w EXCEPT !.c.upEof = @ \/ eof]
           eof2 == w.c.upEof \/ eof
           k2 == [w.c EXCEPT !.upEof = eof2]
<1>1. w \in Worlds /\ w.c \in Conns /\ w.c.respLeft \in Nat /\ w.c.respComplete \in BOOLEAN
      /\ w.c.respHdr \in BOOLEAN /\ w.c.resp \in Nat /\ w.c.upEof \in BOOLEAN
  BY FitsParts DEF Conns
<1>2. eof2 \in BOOLEAN
  OBVIOUS
<1>3. k = [w EXCEPT !.c = k2]
  BY <1>1 DEF Worlds
<1> HIDE DEF eof2
<1>4. /\ k2 \in Conns /\ k2.state = w.c.state
      /\ k2.out = w.c.out /\ k2.outOff = w.c.outOff /\ k2.in = w.c.in /\ k2.inOff = w.c.inOff
      /\ k2.attempts = w.c.attempts /\ k2.hasOut = w.c.hasOut /\ k2.hasIn = w.c.hasIn
  BY <1>1, <1>2 DEF Conns
<1> HIDE DEF k2, k
<1>5. /\ Fits([w EXCEPT !.c = k2]) /\ [w EXCEPT !.c = k2].c = k2
      /\ [w EXCEPT !.c = k2].net = w.net /\ [w EXCEPT !.c = k2].ep = w.ep
      /\ [w EXCEPT !.c = k2].res = w.res
  BY <1>4, SwapFits
<1> QED
  BY <1>3, <1>4, <1>5 DEF k, k2, eof2

\* One lemma per handler: what it leaves is as good as what it was handed.
Steady == Good(World)' /\ Reqs' = Reqs /\ Resps' = Resps /\ script' = script

LEMMA AcceptSteady == ASSUME Good(World), Accept PROVE Steady
<1> DEFINE got == [World EXCEPT !.c.state = "READING", !.c.hasOut = TRUE, !.res.free = @ - 1]
           W == IF res.free = 0 THEN {SendError(World, 503)}
                ELSE {Arm(got, "C", {"R"})} \cup IF May("refusal") THEN {ConnClose(got)} ELSE {}
<1>1. Become(W) /\ c.state = "NEW"
  BY DEF Accept
<1>2. ASSUME res.free # 0 PROVE Good(got)
  BY <1>1, <1>2, AcceptGood
<1> HIDE DEF got
<1>3. ASSUME res.free # 0 PROVE Good(Arm(got, "C", {"R"})) /\ Good(ConnClose(got))
  <2>1. {"R"} \in SUBSET Evs
    BY DEF Evs
  <2> QED
    BY <1>2, <1>3, <2>1, ArmFits, ConnCloseFits, ClosedShape DEF Good, FDs
<1>4. Good(SendError(World, 503))
  BY ClosedGood DEF Good
<1>5. \A w \in W : Good(w)
  BY <1>3, <1>4
<1> HIDE DEF W
<1> QED
  BY <1>1, <1>5, BecomeGood DEF Steady

LEMMA RequestSteady ==
  ASSUME Good(World), NEW b \in ep.batch, ClientRequest(b) PROVE Steady
<1> DEFINE v == ReadClient(Taken(b))
           eof == ClientEof(v, b.ev)
           st == Parse(Reqs, v.c.out)
           k == [v EXCEPT !.c.clientEof = eof]
           W == IF ClientDead(v) THEN {ConnClose(v)}
                ELSE IF eof /\ v.c.out = <<>> THEN {ConnClose(v)}
                ELSE IF st = "error" THEN {SendError(v, 400)}
                ELSE IF st = "more" /\ eof THEN {ConnClose(v)}
                ELSE IF st = "more" /\ Len(v.c.out) >= Slot THEN {SendError(v, 431)}
                ELSE IF st = "more" THEN {v}
                ELSE RouteAndConnect(k)
<1>1. Become(W) /\ c.state = "READING"
  BY DEF ClientRequest
<1>2. Good(Taken(b)) /\ Taken(b).c.state = "READING"
  BY <1>1, TakenFits
<1>3. eof \in BOOLEAN
  <2>1. ReadClient(Taken(b)).net \in Nets
    BY <1>2, ReadClientFits DEF Good, Fits, Worlds
  <2> QED
    BY <2>1 DEF ClientEof, Nets
<1>4. Good(v) /\ v.c.state = "READING"
  BY <1>2, ReadingGood
<1>5. st = "done" => Routable(k)
  BY <1>2, <1>3, ReadingGood
<1>6. st \in {"more", "error", "done"}
  BY DEF Parse
<1> HIDE DEF v, eof, st, k
<1>7. Good(ConnClose(v)) /\ Good(SendError(v, 400)) /\ Good(SendError(v, 431))
  BY <1>4, ClosedGood DEF Good
<1>8. ASSUME st = "done", NEW r \in RouteAndConnect(k) PROVE Good(r)
  BY <1>5, <1>8, RouteFits DEF Good
<1>9. \A w \in W : Good(w)
  BY <1>4, <1>6, <1>7, <1>8
<1> HIDE DEF W
<1> QED
  BY <1>1, <1>9, BecomeGood DEF Steady

LEMMA BodySteady ==
  ASSUME Good(World), NEW b \in ep.batch, ClientBody(b) PROVE Steady
<1> DEFINE v == ReadClient(Taken(b))
           got == Len(v.c.out) - Len(c.out)
           feed == ~c.reqComplete /\ got > 0
           left == IF feed THEN Left(c.reqLeft, got) ELSE c.reqLeft
           done == IF feed THEN left = 0 ELSE v.c.reqComplete
           eof == v.c.clientEof \/ ClientEof(v, b.ev)
           next == [v EXCEPT !.c.reqLeft = left, !.c.reqComplete = done, !.c.clientEof = eof]
           W == IF ClientDead(v) THEN {ConnClose(v)}
                ELSE IF feed /\ Garbled(Reqs[c.req], left) THEN {ConnClose(v)}
                ELSE {ProxyStep(next)}
<1>1. c.state = "PROXYING"
  BY DEF ClientBody
<1>2. Good(Taken(b)) /\ Taken(b).c = c /\ c \in Conns
  BY TakenFits DEF Good, Fits, Worlds
<1>3. /\ Fits(v) /\ Len(v.c.out) = Len(c.out) + CliRead(Taken(b)) /\ CliRead(Taken(b)) \in Nat
      /\ v.c = [c EXCEPT !.out = @ \o Take(Taken(b).net.cRecv, CliRead(Taken(b)))]
  <2>1. CliRead(Taken(b)) \in 0..Len(Taken(b).net.cRecv)
    BY <1>2, ReadClientFits DEF Good
  <2>2. Len(Taken(b).net.cRecv) \in Nat
    BY <1>2, FitsParts DEF Good
  <2>3. CliRead(Taken(b)) \in Nat
    BY <2>1, <2>2
  <2> QED
    BY <1>2, <2>3, ReadClientFits DEF Good
<1>4. v.c.state = "PROXYING" /\ v.c \in Conns /\ v \in Worlds
  BY <1>1, <1>2, <1>3, FitsParts DEF Conns
<1>5. Good(v)
  BY <1>3, <1>4 DEF Good, Shape
<1>6. Become(W)
  <2>1. next = [v EXCEPT !.c.reqLeft = left,
                         !.c.reqComplete = IF feed THEN left = 0 ELSE @,
                         !.c.clientEof = @ \/ ClientEof(v, b.ev)]
    <3> HIDE DEF v, left, feed
    <3> QED
      BY <1>4 DEF Worlds
  <2> HIDE DEF next
  <2> QED
    BY <2>1 DEF ClientBody
<1>7. left \in Nat /\ done \in BOOLEAN /\ eof \in BOOLEAN
  <2>1. got \in Nat
    <3>1. Len(c.out) \in Nat
      BY <1>2, FitsParts DEF Good
    <3> QED
      BY <1>3, <3>1
  <2>2. left \in Nat
    <3>1. c.reqLeft \in Nat
      BY <1>2 DEF Conns
    <3> HIDE DEF got
    <3>2. Left(c.reqLeft, got) \in Nat
      BY <2>1, <3>1 DEF Left
    <3> QED
      BY <3>1, <3>2
  <2> HIDE DEF left, feed, v
  <2> QED
    BY <1>4, <2>2 DEF Conns
<1> HIDE DEF left, done, eof, v, feed
<1>8. Fits(next) /\ next.c.state = "PROXYING"
  <2> DEFINE c2 == [v.c EXCEPT !.reqLeft = left, !.reqComplete = done, !.clientEof = eof]
  <2>1. /\ c2 \in Conns /\ c2.state = v.c.state
        /\ c2.out = v.c.out /\ c2.outOff = v.c.outOff /\ c2.in = v.c.in /\ c2.inOff = v.c.inOff
        /\ c2.attempts = v.c.attempts /\ c2.hasOut = v.c.hasOut /\ c2.hasIn = v.c.hasIn
    BY <1>4, <1>7 DEF Conns
  <2>2. next = [v EXCEPT !.c = c2]
    BY <1>4 DEF Worlds
  <2> HIDE DEF c2, next
  <2>3. Fits([v EXCEPT !.c = c2]) /\ [v EXCEPT !.c = c2].c = c2
    BY <1>5, <2>1, SwapFits DEF Good
  <2> QED
    BY <1>4, <2>1, <2>2, <2>3
<1> HIDE DEF next
<1>9. Good(ConnClose(v)) /\ Good(ProxyStep(next))
  BY <1>3, <1>8, ClosedGood, ProxyStepFits DEF Good
<1>10. \A w \in W : Good(w)
  BY <1>9
<1> HIDE DEF W
<1> QED
  BY <1>6, <1>10, BecomeGood DEF Steady

LEMMA ResultSteady ==
  ASSUME Good(World), NEW b \in ep.batch, ConnectResult(b) PROVE Steady
<1> DEFINE d == DropUpstream(Taken(b))
           q == [Taken(b) EXCEPT !.c.state = "PROXYING", !.res.active = @ + 1]
           W == IF ConnectFailed(b) THEN RouteAndConnect(d)
                ELSE {ProxyStep(Arm(q, "U", {"R", "W"}))}
<1>1. Become(W) /\ c.state = "CONNECTING"
  BY DEF ConnectResult
<1>2. /\ Good(Taken(b)) /\ Taken(b).c = c /\ c \in Conns /\ ConnFits(c)
      /\ Taken(b) \in Worlds /\ Taken(b).res = res /\ res \in Shares
  BY TakenFits, WorldIs, FitsParts DEF Good, Fits
<1>3. Whole(c)
  BY <1>1, <1>2 DEF Good, Shape
<1>4. ASSUME NEW r \in RouteAndConnect(d) PROVE Good(r)
  <2>1. Fits(d) /\ d.c = [c EXCEPT !.be = FALSE]
    BY <1>2, DropUpstreamFits DEF Good
  <2> HIDE DEF d
  <2>2. Routable(d)
    BY <1>1, <1>2, <1>3, <2>1 DEF Conns, Routable, Whole
  <2> QED
    BY <1>4, <2>2, RouteFits DEF Good
<1>5. Good(ProxyStep(Arm(q, "U", {"R", "W"})))
  <2> DEFINE c2 == [c EXCEPT !.state = "PROXYING"]
             res2 == [res EXCEPT !.active = @ + 1]
  <2>1. q = [Taken(b) EXCEPT !.c = c2, !.res = res2]
    BY <1>2 DEF Worlds
  <2>2. c2 \in Conns /\ ConnFits(c2) /\ InUse(c2) = InUse(c) /\ c2.state = "PROXYING"
    BY <1>2 DEF Conns, ConnFits, InUse
  <2>3. res2 \in Shares /\ res2.free = res.free
    BY <1>2 DEF Shares
  <2> HIDE DEF c2, res2
  <2>4. q \in Worlds /\ q.c = c2 /\ q.res = res2 /\ q.net = Taken(b).net /\ q.ep = Taken(b).ep
    BY <1>2, <2>1, <2>2, <2>3 DEF Worlds
  <2> HIDE DEF q
  <2>5. Fits(q)
    BY <1>2, <2>2, <2>3, <2>4 DEF Good, Fits
  <2>6. {"R", "W"} \in SUBSET Evs
    BY DEF Evs
  <2>7. Fits(Arm(q, "U", {"R", "W"})) /\ Arm(q, "U", {"R", "W"}).c = c2
    BY <2>4, <2>5, <2>6, ArmFits DEF FDs
  <2> QED
    BY <2>2, <2>7, ProxyStepFits DEF Good
<1> HIDE DEF d, q
<1>6. \A w \in W : Good(w)
  BY <1>4, <1>5
<1> HIDE DEF W
<1> QED
  BY <1>1, <1>6, BecomeGood DEF Steady

LEMMA IdleSteady ==
  ASSUME Good(World), NEW b \in ep.batch, IdleUpstream(b) PROVE Steady
<1>1. Become({DropUpstream(Taken(b))}) /\ c.state = "READING"
  BY DEF IdleUpstream
<1>2. Good(Taken(b)) /\ Taken(b).c = c /\ c \in Conns
  BY TakenFits, WorldIs, FitsParts DEF Good, Fits
<1>3. Fits(DropUpstream(Taken(b))) /\ DropUpstream(Taken(b)).c = [c EXCEPT !.be = FALSE]
  BY <1>2, DropUpstreamFits DEF Good
<1>4. Good(DropUpstream(Taken(b)))
  BY <1>1, <1>2, <1>3 DEF Good, Shape, Conns
<1>5. \A w \in {DropUpstream(Taken(b))} : Good(w)
  BY <1>4
<1> QED
  BY <1>1, <1>5, BecomeGood DEF Steady

\* The handlers that do one thing, whatever the state of the connection.
LEMMA PlainSteady ==
  ASSUME Good(World), NEW b \in ep.batch,
         Skip(b) \/ ClientIgnored(b) \/ ClientReset(b) \/ UpstreamReset(b)
  PROVE  Steady
<1>1. Good(Taken(b)) /\ Good(ConnClose(Taken(b)))
  BY TakenFits, ConnCloseFits, ClosedShape DEF Good
<1>2. CASE Become({Taken(b)})
  <2>1. \A w \in {Taken(b)} : Good(w)
    BY <1>1
  <2> QED
    BY <1>2, <2>1, BecomeGood DEF Steady
<1>3. CASE Become({ConnClose(Taken(b))})
  <2>1. \A w \in {ConnClose(Taken(b))} : Good(w)
    BY <1>1
  <2> QED
    BY <1>3, <2>1, BecomeGood DEF Steady
<1> QED
  BY <1>2, <1>3 DEF Skip, ClientIgnored, ClientReset, UpstreamReset

LEMMA DataSteady ==
  ASSUME Good(World), NEW b \in ep.batch, UpstreamData(b) PROVE Steady
<1> DEFINE v == ReadUpstream(Taken(b))
           eof == UpEof(v, b.ev)
           first == ~c.respHdr
           st == IF first THEN Parse(Resps, v.c.in) ELSE "done"
           h == IF first THEN HeaderIn(v) ELSE v
           got == Len(v.c.in) - IF first THEN Resps[v.c.in[1][1]].hdr ELSE Len(c.in)
           fed == FeedResponse(h, got)
           next == [fed EXCEPT !.c.upEof = @ \/ eof]
           W == IF UpDead(v) THEN {ConnClose(v)}
                ELSE IF st = "error" THEN {SendError(v, 502)}
                ELSE IF st = "more" /\ (eof \/ Len(v.c.in) >= Slot) THEN {ConnClose(v)}
                ELSE IF st = "more" THEN {v}
                ELSE IF Garbled(Resps[h.c.resp], fed.c.respLeft) THEN {ConnClose(fed)}
                ELSE {ProxyStep(next)}
<1>1. Become(W) /\ c.state = "PROXYING"
  BY Zenon DEF UpstreamData, HeaderIn
<1>2. Good(Taken(b)) /\ Taken(b).c = c /\ c \in Conns /\ Len(c.in) \in Nat
  BY TakenFits, WorldIs, FitsParts, LenProperties DEF Good, Fits, Conns
<1>3. /\ Fits(v) /\ v.c.state = "PROXYING" /\ Len(v.c.in) - Len(c.in) \in Nat
      /\ v.c.respHdr = c.respHdr /\ v.net \in Nets
  <2>1. /\ Fits(v) /\ v.c = [c EXCEPT !.in = @ \o Take(Taken(b).net.uRecv, UpRead(Taken(b)))]
        /\ UpRead(Taken(b)) \in 0..Len(Taken(b).net.uRecv)
        /\ Len(v.c.in) = Len(c.in) + UpRead(Taken(b))
    BY <1>2, ReadUpstreamFits DEF Good
  <2>2. Len(Taken(b).net.uRecv) \in Nat
    BY <1>2, FitsParts DEF Good
  <2>3. Len(v.c.in) - Len(c.in) \in Nat
    BY <1>2, <2>1, <2>2
  <2>4. v.c.state = "PROXYING" /\ v.c.respHdr = c.respHdr
    BY <1>1, <1>2, <2>1, Zenon DEF Conns
  <2> QED
    BY <2>1, <2>3, <2>4, FitsParts
<1>4. Good(v) /\ eof \in BOOLEAN
  BY <1>3 DEF Good, Shape, UpEof, Nets
<1> HIDE DEF v
<1>5. st \in {"more", "error", "done"}
  BY DEF Parse
<1>6. ASSUME st = "done" PROVE Fits(h) /\ h.c.state = "PROXYING" /\ got \in Nat
  <2>1. CASE first
    BY <1>3, <1>6, <2>1, HeaderFits, Zenon
  <2>2. CASE ~first
    BY <1>3, <2>2
  <2> QED
    BY <2>1, <2>2
<1> HIDE DEF h, got, st, eof
<1>7. ASSUME st = "done" PROVE Fits(fed) /\ fed.c.state = "PROXYING"
  BY <1>6, <1>7, FeedFits
<1> HIDE DEF fed
<1>8. ASSUME st = "done" PROVE Fits(next) /\ next.c.state = "PROXYING"
  BY <1>4, <1>7, <1>8, EofFits
<1> HIDE DEF next
<1>9. st = "done" => Good(ConnClose(fed)) /\ Good(ProxyStep(next))
  BY <1>7, <1>8, ClosedGood, ProxyStepFits DEF Good
<1>10. Good(ConnClose(v)) /\ Good(SendError(v, 502))
  BY <1>3, ClosedGood
<1>11. \A w \in W : Good(w)
  BY <1>4, <1>5, <1>9, <1>10
<1> HIDE DEF W
<1> QED
  BY <1>1, <1>11, BecomeGood DEF Steady

----------------------------------------------------------------------------
(* The environment.                                                        *)

LEMMA SegmentType ==
  ASSUME NEW i \in Nat, NEW from \in Nat, NEW n \in Nat
  PROVE  /\ Segment(i, from, n) \in Seq({i} \X Nat) /\ Len(Segment(i, from, n)) = n
         /\ \A x \in 1..n : Segment(i, from, n)[x] = <<i, from + x>>
<1> DEFINE s == [x \in 1..n |-> <<i, from + x>>]
<1>1. s \in [1..n -> {i} \X Nat] /\ \A x \in 1..n : s[x] = <<i, from + x>>
  OBVIOUS
<1> HIDE DEF s
<1>2. s \in Seq({i} \X Nat)
  BY <1>1, SeqDef
<1> QED
  BY <1>1, <1>2, LenProperties DEF Segment, s

\* A step of one of the ends changes one socket and wakes its descriptor.
LEMMA EnvGood ==
  ASSUME Good(World), EnvStep, net' \in Nets, NetFits(net'),
         NEW fd \in FDs, NEW what, Wake(fd, what)
  PROVE  Steady
<1>1. /\ c \in Conns /\ ep \in Eps /\ res \in Shares /\ ep.rdy \subseteq ep.reg
      /\ ConnFits(c) /\ res.free + InUse(c) = Slots /\ script \in Scripts
  BY WorldIs, FitsParts DEF Good, Fits
<1>2. ep' \in Eps /\ ep'.rdy \subseteq ep'.reg
  <2>1. CASE ep' = ep
    BY <1>1, <2>1
  <2>2. CASE fd \in ep.reg /\ ep' = [ep EXCEPT !.rdy = @ \cup {fd}]
    BY <1>1, <2>2 DEF Eps
  <2> QED
    BY <2>1, <2>2 DEF Wake
<1>3. c' = c /\ script' = script /\ res' = res
  BY DEF EnvStep
<1>4. Reqs' = Reqs /\ Resps' = Resps
  BY <1>3 DEF Reqs, Resps
<1>5. ReqToks' = ReqToks /\ RespToks' = RespToks /\ CliToks' = CliToks
  BY <1>4 DEF ReqToks, RespToks, CliToks
<1>6. Conns' = Conns /\ Nets' = Nets
  BY <1>5 DEF Conns, Nets
<1>7. Worlds' = Worlds
  BY <1>6 DEF Worlds
<1>8. World' \in Worlds
  BY <1>1, <1>2, <1>3 DEF World, Worlds
<1>9. World'.c = c /\ World'.net = net' /\ World'.ep = ep' /\ World'.res = res
  BY <1>3 DEF World
<1>10. Fits(World)'
  BY <1>1, <1>2, <1>3, <1>7, <1>8, <1>9 DEF Fits
<1>11. Shape(World.c)'
  BY <1>3, <1>4, <1>9, WorldIs DEF Good, Shape, Whole
<1> QED
  BY <1>3, <1>4, <1>10, <1>11 DEF Steady, Good

\* What the two ends have sent and received.
Clients == [msg : 0..Len(Reqs), pos : Nat, got : Seq(CliToks)]
Servers == [got : Seq(ReqToks), msg : 0..Len(Resps), pos : Nat]
Ends    == cli \in Clients /\ srv \in Servers

LEMMA SameTypes ==
  ASSUME Steady PROVE Clients' = Clients /\ Servers' = Servers
<1>1. ReqToks' = ReqToks /\ CliToks' = CliToks
  BY DEF Steady, ReqToks, CliToks
<1> QED
  BY <1>1 DEF Steady, Clients, Servers

\* The inductive invariant: types, sizes, and what each state means.
TypeInv == Good(World) /\ Ends

LEMMA NetIs ==
  ASSUME TypeInv
  PROVE  /\ net \in Nets /\ NetFits(net) /\ script \in Scripts
         /\ net.cRecv \in Seq(ReqToks) /\ net.uRecv \in Seq(RespToks)
         /\ net.toCli \in Seq(CliToks) /\ net.toUp \in Seq(ReqToks)
         /\ Len(Reqs) \in Nat /\ Len(Resps) \in Nat
         /\ cli \in Clients /\ srv \in Servers
<1>1. net \in Nets /\ NetFits(net) /\ script \in Scripts
  BY WorldIs, FitsParts DEF TypeInv, Good, Fits
<1>2. Len(Reqs) \in Nat /\ Len(Resps) \in Nat
  BY <1>1, ScriptType
<1> QED
  BY <1>1, <1>2 DEF Nets, TypeInv, Ends

LEMMA ClientSendType ==
  ASSUME TypeInv, ClientSend PROVE Steady /\ Ends'
<1> DEFINE done == cli.msg = 0 \/ cli.pos = Total(Reqs[cli.msg])
           i == IF done THEN cli.msg + 1 ELSE cli.msg
           from == IF done THEN 0 ELSE cli.pos
<1>1. /\ i <= Len(Reqs) /\ Wake("C", "R") /\ EnvStep /\ srv' = srv
      /\ \E n \in 1..(Total(Reqs[i]) - from) :
              /\ net' = [net EXCEPT !.cRecv = @ \o Segment(i, from, n)]
              /\ cli' = [cli EXCEPT !.msg = i, !.pos = from + n]
  BY Zenon DEF ClientSend
<1>2. /\ cli.msg \in 0..Len(Reqs) /\ cli.pos \in Nat /\ cli.msg \in Nat /\ Len(Reqs) \in Nat
      /\ cli.got \in Seq(CliToks)
  BY NetIs DEF Clients
<1>3. i \in 1..Len(Reqs) /\ from \in Nat /\ i \in Nat
  BY <1>1, <1>2
<1> HIDE DEF i, from, done
<1>4. Total(Reqs[i]) \in Nat
  BY <1>3, NetIs, ReqType DEF Total
<1>5. PICK n \in 1..(Total(Reqs[i]) - from) :
              /\ net' = [net EXCEPT !.cRecv = @ \o Segment(i, from, n)]
              /\ cli' = [cli EXCEPT !.msg = i, !.pos = from + n]
  BY <1>1, Zenon
<1>6. n \in Nat
  BY <1>3, <1>4
<1>7. Segment(i, from, n) \in Seq(ReqToks)
  <2>1. {i} \X Nat \subseteq ReqToks
    BY <1>3 DEF ReqToks
  <2> QED
    BY <1>3, <1>6, <2>1, SegmentType, SeqMonotonic
<1>8. net.cRecv \o Segment(i, from, n) \in Seq(ReqToks)
  BY <1>7, NetIs, JoinType
<1>9. net' \in Nets /\ NetFits(net')
  BY <1>5, <1>8, NetIs DEF Nets, NetFits
<1>10. cli' \in Clients
  <2>1. from + n \in Nat /\ i \in 0..Len(Reqs)
    BY <1>2, <1>3, <1>6
  <2>2. cli \in Clients
    BY NetIs
  <2> QED
    BY <1>5, <2>1, <2>2 DEF Clients
<1>11. Steady
  BY <1>1, <1>9, EnvGood DEF TypeInv, FDs
<1> QED
  BY <1>1, <1>10, <1>11, NetIs, SameTypes DEF Ends

LEMMA ServerSendType ==
  ASSUME TypeInv, ServerSend PROVE Steady /\ Ends'
<1>1. /\ Wake("U", "R") /\ EnvStep /\ cli' = cli
      /\ \E k \in IF Sending THEN {srv.msg} ELSE {k \in Owed : \A l \in Owed : k <= l} :
           LET from == IF Sending THEN srv.pos ELSE 0
           IN  \E n \in 1..(Total(Resps[k]) - from) :
                 /\ srv' = [srv EXCEPT !.msg = k, !.pos = from + n]
                 /\ net' = [net EXCEPT !.uRecv = @ \o Segment(k, from, n)]
  BY Zenon DEF ServerSend
<1> DEFINE from == IF Sending THEN srv.pos ELSE 0
<1>2. PICK k \in IF Sending THEN {srv.msg} ELSE Owed :
         \E n \in 1..(Total(Resps[k]) - from) :
                 /\ srv' = [srv EXCEPT !.msg = k, !.pos = from + n]
                 /\ net' = [net EXCEPT !.uRecv = @ \o Segment(k, from, n)]
  BY <1>1, Zenon
<1>3. /\ srv.msg \in 0..Len(Resps) /\ srv.pos \in Nat /\ srv.msg \in Nat /\ Len(Resps) \in Nat
      /\ srv.got \in Seq(ReqToks)
  BY NetIs DEF Servers
<1>4. k \in 1..Len(Resps) /\ k \in Nat /\ from \in Nat
  <2>1. CASE Sending
    BY <1>2, <1>3, <2>1 DEF Sending
  <2>2. CASE ~Sending
    BY <1>2, <1>3, <2>2 DEF Owed
  <2> QED
    BY <2>1, <2>2
<1> HIDE DEF from
<1>5. Total(Resps[k]) \in Nat
  BY <1>4, NetIs, RespType DEF Total
<1>6. PICK n \in 1..(Total(Resps[k]) - from) :
                 /\ srv' = [srv EXCEPT !.msg = k, !.pos = from + n]
                 /\ net' = [net EXCEPT !.uRecv = @ \o Segment(k, from, n)]
  BY <1>2, Zenon
<1>7. n \in Nat
  BY <1>4, <1>5
<1>8. Segment(k, from, n) \in Seq(RespToks)
  <2>1. {k} \X Nat \subseteq RespToks
    BY <1>4 DEF RespToks
  <2> QED
    BY <1>4, <1>7, <2>1, SegmentType, SeqMonotonic
<1>9. net.uRecv \o Segment(k, from, n) \in Seq(RespToks)
  BY <1>8, NetIs, JoinType
<1>10. net' \in Nets /\ NetFits(net')
  BY <1>6, <1>9, NetIs DEF Nets, NetFits
<1>11. srv' \in Servers
  <2>1. from + n \in Nat /\ k \in 0..Len(Resps)
    BY <1>3, <1>4, <1>7
  <2>2. srv \in Servers
    BY NetIs
  <2> QED
    BY <1>6, <2>1, <2>2 DEF Servers
<1>12. Steady
  BY <1>1, <1>10, EnvGood DEF TypeInv, FDs
<1> QED
  BY <1>1, <1>11, <1>12, NetIs, SameTypes DEF Ends

LEMMA ReceiveType ==
  ASSUME TypeInv, ClientReceive \/ ServerReceive PROVE Steady /\ Ends'
<1>1. <<>> \in Seq(CliToks) /\ <<>> \in Seq(ReqToks) /\ Len(<<>>) = 0
  OBVIOUS
<1>2. CASE ClientReceive
  <2>1. /\ cli' = [cli EXCEPT !.got = @ \o net.toCli] /\ net' = [net EXCEPT !.toCli = <<>>]
        /\ Wake("C", "W") /\ EnvStep /\ srv' = srv
    BY <1>2 DEF ClientReceive
  <2>2. cli.got \in Seq(CliToks)
    BY NetIs DEF Clients
  <2>3. cli.got \o net.toCli \in Seq(CliToks)
    BY <2>2, NetIs, JoinType
  <2>4. cli' \in Clients
    BY <2>1, <2>3, NetIs DEF Clients
  <2>5. net' \in Nets /\ NetFits(net')
    <3>1. net' \in Nets /\ net'.toCli = <<>> /\ net'.toUp = net.toUp
      BY <1>1, <2>1, NetIs DEF Nets
    <3> QED
      BY <1>1, <3>1, NetIs, Sizes DEF NetFits
  <2>6. Steady
    BY <2>1, <2>5, EnvGood DEF TypeInv, FDs
  <2> QED
    BY <2>1, <2>4, <2>6, NetIs, SameTypes DEF Ends
<1>3. CASE ServerReceive
  <2>1. /\ srv' = [srv EXCEPT !.got = @ \o net.toUp] /\ net' = [net EXCEPT !.toUp = <<>>]
        /\ Wake("U", "W") /\ EnvStep /\ cli' = cli
    BY <1>3 DEF ServerReceive
  <2>2. srv.got \in Seq(ReqToks)
    BY NetIs DEF Servers
  <2>3. srv.got \o net.toUp \in Seq(ReqToks)
    BY <2>2, NetIs, JoinType
  <2>4. srv' \in Servers
    BY <2>1, <2>3, NetIs DEF Servers
  <2>5. net' \in Nets /\ NetFits(net')
    <3>1. net' \in Nets /\ net'.toUp = <<>> /\ net'.toCli = net.toCli
      BY <1>1, <2>1, NetIs DEF Nets
    <3> QED
      BY <1>1, <3>1, NetIs, Sizes DEF NetFits
  <2>6. Steady
    BY <2>1, <2>5, EnvGood DEF TypeInv, FDs
  <2> QED
    BY <2>1, <2>4, <2>6, NetIs, SameTypes DEF Ends
<1> QED
  BY <1>2, <1>3

\* The steps that only change the condition of a socket.
LEMMA SignalType ==
  ASSUME TypeInv, \/ ConnectDone \/ ClientShutdown \/ ClientAbort
                  \/ ServerClose \/ ServerReset
  PROVE  Steady /\ Ends'
<1>1. CASE ConnectDone
  <2>1. /\ srv' = [got |-> <<>>, msg |-> 0, pos |-> 0] /\ Wake("U", "state") /\ EnvStep
        /\ cli' = cli
        /\ \E u \in {"up", "failed"} : net' = [net EXCEPT !.u = u]
    BY <1>1 DEF ConnectDone
  <2>2. net' \in Nets /\ NetFits(net')
    BY <2>1, NetIs DEF Nets, NetFits
  <2>3. srv' \in Servers
    <3>1. <<>> \in Seq(ReqToks) /\ 0 \in 0..Len(Resps)
      BY NetIs
    <3> QED
      BY <2>1, <3>1 DEF Servers
  <2>4. Steady
    BY <2>1, <2>2, EnvGood DEF TypeInv, FDs
  <2> QED
    BY <2>1, <2>3, <2>4, NetIs, SameTypes DEF Ends
<1>2. ASSUME \/ ClientShutdown \/ ClientAbort \/ ServerClose \/ ServerReset
      PROVE  Steady /\ Ends'
  <2>1. /\ \E fd \in FDs : Wake(fd, "state")
        /\ EnvStep /\ cli' = cli /\ srv' = srv
        /\ \/ net' = [net EXCEPT !.cFin = TRUE] \/ net' = [net EXCEPT !.cRst = TRUE]
           \/ net' = [net EXCEPT !.uFin = TRUE] \/ net' = [net EXCEPT !.uRst = TRUE]
    BY <1>2 DEF ClientShutdown, ClientAbort, ServerClose, ServerReset, FDs
  <2>2. net' \in Nets /\ NetFits(net')
    BY <2>1, NetIs DEF Nets, NetFits
  <2>3. Steady
    BY <2>1, <2>2, EnvGood DEF TypeInv
  <2> QED
    BY <2>1, <2>3, NetIs, SameTypes DEF Ends
<1> QED
  BY <1>1, <1>2

\* epoll_wait: an event is in the batch with the descriptor it is of.
LEMMA WaitType == ASSUME TypeInv, Wait PROVE Steady /\ Ends'
<1> DEFINE batch2 == {b \in [fd : ep.rdy, ev : SUBSET Evs] :
                        b.ev = Events(net, ep, b.fd) /\ b.ev # {}}
<1>1. /\ ep' = [ep EXCEPT !.rdy = {}, !.batch = batch2]
      /\ script' = script /\ c' = c /\ net' = net /\ res' = res /\ cli' = cli /\ srv' = srv
  BY DEF Wait
<1>2. /\ c \in Conns /\ ep \in Eps /\ res \in Shares /\ ConnFits(c)
      /\ res.free + InUse(c) = Slots /\ script \in Scripts
  BY WorldIs, FitsParts DEF TypeInv, Good, Fits
<1>3. batch2 \in SUBSET Batch
  BY <1>2 DEF Eps, Batch
<1> HIDE DEF batch2
<1>4. ep' \in Eps /\ ep'.rdy \subseteq ep'.reg
  BY <1>1, <1>2, <1>3 DEF Eps
<1>5. Reqs' = Reqs /\ Resps' = Resps
  BY <1>1 DEF Reqs, Resps
<1>6. ReqToks' = ReqToks /\ RespToks' = RespToks /\ CliToks' = CliToks
  BY <1>5 DEF ReqToks, RespToks, CliToks
<1>7. Conns' = Conns /\ Nets' = Nets
  BY <1>6 DEF Conns, Nets
<1>8. Worlds' = Worlds
  BY <1>7 DEF Worlds
<1>9. World' \in Worlds
  BY <1>1, <1>2, <1>4, NetIs DEF World, Worlds
<1>10. World'.c = c /\ World'.net = net /\ World'.ep = ep' /\ World'.res = res
  BY <1>1 DEF World
<1>11. Fits(World)'
  BY <1>1, <1>2, <1>4, <1>8, <1>9, <1>10, NetIs DEF Fits
<1>12. Shape(World.c)'
  BY <1>1, <1>5, <1>10, WorldIs DEF TypeInv, Good, Shape, Whole
<1>13. Steady
  BY <1>1, <1>5, <1>11, <1>12 DEF Steady, Good
<1> QED
  BY <1>1, <1>13, NetIs, SameTypes DEF Ends

LEMMA HandlersSteady ==
  ASSUME Good(World), Accept \/ Dispatch PROVE Steady /\ cli' = cli /\ srv' = srv
<1>1. CASE Accept
  BY <1>1, AcceptSteady DEF Accept, Become
<1>2. CASE Dispatch
  <2>1. PICK b \in ep.batch :
          \/ Skip(b)
          \/ ClientReset(b) \/ ClientRequest(b) \/ ClientBody(b) \/ ClientIgnored(b)
          \/ ConnectResult(b) \/ IdleUpstream(b) \/ UpstreamReset(b) \/ UpstreamData(b)
    BY <1>2 DEF Dispatch
  <2>2. Steady
    BY <2>1, PlainSteady, RequestSteady, BodySteady, ResultSteady, IdleSteady, DataSteady
  <2>3. cli' = cli /\ srv' = srv
    BY <2>1, Zenon DEF Skip, ClientReset, ClientRequest, ClientBody, ClientIgnored, ConnectResult,
                IdleUpstream, UpstreamReset, UpstreamData, Become
  <2> QED
    BY <2>2, <2>3
<1> QED
  BY <1>1, <1>2

LEMMA TypeInit == Init => TypeInv
<1> SUFFICES ASSUME Init PROVE TypeInv
  OBVIOUS
<1>1. <<>> \in Seq(ReqToks) /\ <<>> \in Seq(RespToks) /\ <<>> \in Seq(CliToks) /\ Len(<<>>) = 0
      /\ FALSE \in BOOLEAN
  OBVIOUS
<1>2. script \in Scripts /\ Len(Reqs) \in Nat /\ Len(Resps) \in Nat
  BY ScriptType DEF Init
<1>3. c \in Conns /\ ConnFits(c) /\ InUse(c) = 0 /\ c = Blank
  BY BlankType DEF Init
<1>4. net \in Nets /\ NetFits(net)
  BY <1>1, Sizes DEF Init, Nets, NetFits
<1>5. ep \in Eps /\ ep.rdy \subseteq ep.reg
  BY DEF Init, Eps
<1>6. res \in Shares /\ res.free = Slots
  BY Sizes DEF Init, Shares
<1>7. World \in Worlds
  BY <1>3, <1>4, <1>5, <1>6 DEF World, Worlds
<1>8. Fits(World)
  BY <1>2, <1>3, <1>4, <1>5, <1>6, <1>7, WorldIs, Sizes DEF Fits
<1>9. Shape(c)
  <2>1. c.state = "NEW"
    BY <1>3 DEF Blank
  <2> QED
    BY <1>3, <2>1 DEF Shape
<1>10. Ends
  BY <1>1, <1>2 DEF Init, Ends, Clients, Servers
<1> QED
  BY <1>8, <1>9, <1>10, WorldIs DEF TypeInv, Good

LEMMA TypeNext == TypeInv /\ [Next]_vars => TypeInv'
<1> SUFFICES ASSUME TypeInv, [Next]_vars PROVE TypeInv'
  OBVIOUS
<1>1. ASSUME Steady /\ Ends' PROVE TypeInv'
  BY <1>1 DEF TypeInv, Steady
<1>2. CASE Accept \/ Dispatch
  BY <1>1, <1>2, HandlersSteady, SameTypes, NetIs DEF Ends, TypeInv
<1>3. CASE Wait
  BY <1>1, <1>3, WaitType
<1>4. CASE ClientSend \/ ServerSend
  BY <1>1, <1>4, ClientSendType, ServerSendType
<1>5. CASE ClientReceive \/ ServerReceive
  BY <1>1, <1>5, ReceiveType
<1>6. CASE ConnectDone \/ ClientShutdown \/ ClientAbort \/ ServerClose \/ ServerReset
  BY <1>1, <1>6, SignalType
<1>7. CASE UNCHANGED vars
  <2>1. /\ script' = script /\ c' = c /\ net' = net /\ ep' = ep /\ res' = res
        /\ cli' = cli /\ srv' = srv
    BY <1>7 DEF vars
  <2>2. World' = World /\ Reqs' = Reqs /\ Resps' = Resps
    BY <2>1 DEF World, Reqs, Resps
  <2>3. ReqToks' = ReqToks /\ RespToks' = RespToks /\ CliToks' = CliToks
    BY <2>2 DEF ReqToks, RespToks, CliToks
  <2>4. Conns' = Conns /\ Nets' = Nets
    BY <2>3 DEF Conns, Nets
  <2>5. Fits(World)'
    BY <2>1, <2>2, <2>4 DEF TypeInv, Good, Fits, Worlds
  <2>6. Shape(World.c)'
    BY <2>2 DEF TypeInv, Good, Shape, Whole
  <2>7. Ends'
    BY <2>1, <2>2, <2>3 DEF TypeInv, Ends, Clients, Servers
  <2> QED
    BY <2>5, <2>6, <2>7 DEF TypeInv, Good
<1> QED
  BY <1>2, <1>3, <1>4, <1>5, <1>6, <1>7 DEF Next, Loop, Environment

----------------------------------------------------------------------------
(* The theorems.                                                           *)

\* The types, the sizes and the shape of each state hold throughout
\* (conn_acquire, start_next_request, conn_close and every handler).
THEOREM TypeAlways == Spec => []TypeInv
BY TypeInit, TypeNext, PTL DEF Spec

\* No buffer, no socket and no count of attempts ever goes past its limit, the
\* ready list holds registered descriptors only and the arena neither loses nor
\* makes up a slot (drain_read, drain_write, route_and_connect, conn_close).
THEOREM TypeCorrect == Spec => []TypeOK
<1>1. TypeInv => TypeOK
  <2> SUFFICES ASSUME TypeInv PROVE TypeOK
    OBVIOUS
  <2>1. /\ c \in Conns /\ net \in Nets /\ ep \in Eps /\ res \in Shares
        /\ Len(c.out) \in 0..Slot /\ Len(c.in) \in 0..Slot
        /\ c.outOff \in 0..Len(c.out) /\ c.inOff \in 0..Len(c.in)
        /\ Len(net.toCli) \in 0..ClientRoom /\ Len(net.toUp) \in 0..UpstreamRoom
    BY WorldIs, FitsParts DEF TypeInv, Good
  <2>2. /\ script \in Scripts /\ c.attempts <= MaxAttempts /\ ep.rdy \subseteq ep.reg
        /\ res.free + InUse(c) = Slots
    BY WorldIs DEF TypeInv, Good, Fits, ConnFits
  <2>3. c.attempts \in 0..MaxAttempts
    BY <2>1, <2>2, Sizes DEF Conns
  <2>4. res.free \in 0..Slots
    <3>1. InUse(c) \in 0..2
      BY <2>1 DEF Conns, InUse
    <3>2. res.free \in Nat /\ Slots \in Nat
      BY <2>1, Sizes DEF Shares
    <3> QED
      BY <2>2, <3>1, <3>2
  <2>5. /\ c.state \in {"NEW", "READING", "CONNECTING", "PROXYING", "CLOSING"}
        /\ net.u \in {"none", "connecting", "up", "failed"}
        /\ ep.reg \subseteq FDs /\ res.active \in Nat
    BY <2>1 DEF Conns, Nets, Eps, Shares
  <2>6. /\ Len(c.out) <= Slot /\ Len(c.in) <= Slot
        /\ Len(net.toCli) <= ClientRoom /\ Len(net.toUp) <= UpstreamRoom
    BY <2>1, Sizes
  <2> QED
    BY <2>1, <2>2, <2>3, <2>4, <2>5, <2>6 DEF TypeOK
<1> QED
  BY <1>1, TypeAlways, PTL

\* A request that is tried on another backend is still in the buffer from its
\* first byte on (on_connect_result, route_and_connect).
THEOREM RetriesWhole == Spec => []RetryWhole
<1>1. TypeInv => RetryWhole
  BY WorldIs DEF TypeInv, Good, Shape, Whole, RetryWhole
<1> QED
  BY <1>1, TypeAlways, PTL

----------------------------------------------------------------------------
(* Segments of messages, and sequences of tokens.                          *)

----------------------------------------------------------------------------
(* Streams: sequences of tokens, put together and taken apart.             *)

Toks == Int \X Int

End(s) == s[Len(s)]

LEMMA TakeDropIs ==
  ASSUME NEW S, NEW s \in Seq(S), NEW n \in 0..Len(s)
  PROVE  Take(s, n) \o Drop(s, n) = s
<1>1. Len(s) \in Nat
  BY LenProperties
<1>2. SubSeq(s, 1, n) \o SubSeq(s, n + 1, Len(s)) = SubSeq(s, 1, Len(s))
  <2>1. 1 \in 1..(Len(s) + 1) /\ n \in (1 - 1)..Len(s) /\ Len(s) \in n..Len(s)
    BY <1>1
  <2> QED
    BY <2>1, ConcatAdjacentSubSeq
<1> QED
  BY <1>2, SubSeqFull DEF Take, Drop

LEMMA PieceDropIs ==
  ASSUME NEW S, NEW s \in Seq(S), NEW a \in 0..Len(s), NEW b \in a..Len(s)
  PROVE  SubSeq(s, a + 1, b) \o Drop(s, b) = Drop(s, a)
<1>1. Len(s) \in Nat
  BY LenProperties
<1>2. a + 1 \in 1..(Len(s) + 1) /\ b \in ((a + 1) - 1)..Len(s) /\ Len(s) \in b..Len(s)
  BY <1>1
<1> QED
  BY <1>2, ConcatAdjacentSubSeq DEF Drop

LEMMA DropJoin ==
  ASSUME NEW S, NEW s \in Seq(S), NEW t \in Seq(S), NEW a \in 0..Len(s)
  PROVE  Drop(s \o t, a) = Drop(s, a) \o t
<1>1. Len(s) \in Nat /\ Len(t) \in Nat /\ a \in Nat
  BY LenProperties
<1>2. /\ s \o t \in Seq(S) /\ Len(s \o t) = Len(s) + Len(t)
      /\ \A x \in 1..(Len(s) + Len(t)) : (s \o t)[x] = IF x <= Len(s) THEN s[x] ELSE t[x - Len(s)]
  BY ConcatProperties
<1>3. a \in 0..Len(s \o t)
  BY <1>1, <1>2
<1>4. /\ Drop(s \o t, a) \in Seq(S) /\ Len(Drop(s \o t, a)) = (Len(s) + Len(t)) - a
      /\ \A x \in 1..((Len(s) + Len(t)) - a) : Drop(s \o t, a)[x] = (s \o t)[a + x]
  <2>1. /\ Drop(s \o t, a) \in Seq(S) /\ Len(Drop(s \o t, a)) = Len(s \o t) - a
        /\ \A x \in 1..(Len(s \o t) - a) : Drop(s \o t, a)[x] = (s \o t)[a + x]
    BY <1>2, <1>3, DropType
  <2> HIDE DEF Drop
  <2> QED
    BY <1>2, <2>1
<1>5. /\ Drop(s, a) \in Seq(S) /\ Len(Drop(s, a)) = Len(s) - a
      /\ \A x \in 1..(Len(s) - a) : Drop(s, a)[x] = s[a + x]
  BY DropType
<1>6. /\ Drop(s, a) \o t \in Seq(S) /\ Len(Drop(s, a) \o t) = (Len(s) - a) + Len(t)
      /\ \A x \in 1..((Len(s) - a) + Len(t)) :
           (Drop(s, a) \o t)[x] = IF x <= Len(s) - a THEN Drop(s, a)[x] ELSE t[x - (Len(s) - a)]
  <2>1. /\ Drop(s, a) \o t \in Seq(S) /\ Len(Drop(s, a) \o t) = Len(Drop(s, a)) + Len(t)
        /\ \A x \in 1..(Len(Drop(s, a)) + Len(t)) :
             (Drop(s, a) \o t)[x] = IF x <= Len(Drop(s, a)) THEN Drop(s, a)[x]
                                    ELSE t[x - Len(Drop(s, a))]
    BY <1>5, ConcatProperties
  <2> HIDE DEF Drop
  <2> QED
    BY <1>5, <2>1
<1>7. ASSUME NEW x \in 1..((Len(s) + Len(t)) - a)
      PROVE  Drop(s \o t, a)[x] = (Drop(s, a) \o t)[x]
  <2>1. a + x \in 1..(Len(s) + Len(t)) /\ x \in 1..((Len(s) - a) + Len(t))
    BY <1>1
  <2>2. CASE x <= Len(s) - a
    <3>1. x \in 1..(Len(s) - a) /\ a + x <= Len(s)
      BY <1>1, <2>2
    <3> QED
      BY <1>2, <1>4, <1>5, <1>6, <2>1, <2>2, <3>1
  <2>3. CASE ~(x <= Len(s) - a)
    <3>1. ~(a + x <= Len(s)) /\ (a + x) - Len(s) = x - (Len(s) - a)
      BY <1>1, <2>3
    <3> QED
      BY <1>2, <1>4, <1>6, <2>1, <2>3, <3>1
  <2> QED
    BY <2>2, <2>3
<1>8. Len(Drop(s \o t, a)) = Len(Drop(s, a) \o t)
  BY <1>1, <1>4, <1>6
<1>9. \A x \in 1..Len(Drop(s \o t, a)) : Drop(s \o t, a)[x] = (Drop(s, a) \o t)[x]
  BY <1>4, <1>7
<1> HIDE DEF Drop
<1> QED
  BY <1>4, <1>6, <1>8, <1>9, SeqEqual

LEMMA EndJoin ==
  ASSUME NEW S, NEW s \in Seq(S), NEW t \in Seq(S), t # <<>>
  PROVE  s \o t # <<>> /\ End(s \o t) = End(t)
<1>1. Len(s) \in Nat /\ Len(t) \in Nat \ {0}
  BY LenProperties, EmptySeq
<1>2. /\ s \o t \in Seq(S) /\ Len(s \o t) = Len(s) + Len(t)
      /\ \A x \in 1..(Len(s) + Len(t)) : (s \o t)[x] = IF x <= Len(s) THEN s[x] ELSE t[x - Len(s)]
  BY ConcatProperties
<1>3. Len(s) + Len(t) \in 1..(Len(s) + Len(t)) /\ ~(Len(s) + Len(t) <= Len(s))
      /\ (Len(s) + Len(t)) - Len(s) = Len(t)
  BY <1>1
<1>4. (s \o t)[Len(s) + Len(t)] = t[Len(t)]
  BY <1>2, <1>3
<1>5. s \o t # <<>>
  BY <1>1, <1>2, EmptySeq
<1> QED
  BY <1>2, <1>4, <1>5 DEF End

----------------------------------------------------------------------------
(* Segments.                                                               *)

LEMMA SegType ==
  ASSUME NEW i \in Int, NEW a \in Int, NEW n \in Nat
  PROVE  /\ Segment(i, a, n) \in Seq(Toks) /\ Len(Segment(i, a, n)) = n
         /\ \A x \in 1..n : Segment(i, a, n)[x] = <<i, a + x>>
         /\ Segment(i, a, n) = <<>> <=> n = 0
         /\ n # 0 => End(Segment(i, a, n)) = <<i, a + n>>
<1> DEFINE s == [x \in 1..n |-> <<i, a + x>>]
<1>1. s \in [1..n -> Toks] /\ \A x \in 1..n : s[x] = <<i, a + x>>
  BY DEF Toks
<1> HIDE DEF s
<1>2. s \in Seq(Toks)
  BY <1>1, SeqDef
<1>3. Len(s) = n
  BY <1>1, <1>2, LenProperties
<1>4. s = <<>> <=> n = 0
  BY <1>2, <1>3, EmptySeq
<1>5. n # 0 => n \in 1..n
  OBVIOUS
<1> QED
  BY <1>1, <1>2, <1>3, <1>4, <1>5 DEF Segment, s, End

LEMMA SegJoin ==
  ASSUME NEW i \in Int, NEW a \in Int, NEW m \in Nat, NEW n \in Nat
  PROVE  Segment(i, a, m) \o Segment(i, a + m, n) = Segment(i, a, m + n)
<1> DEFINE s == Segment(i, a, m)
           t == Segment(i, a + m, n)
           u == Segment(i, a, m + n)
<1>0. a + m \in Int /\ m + n \in Nat
  OBVIOUS
<1>1. /\ s \in Seq(Toks) /\ Len(s) = m /\ \A x \in 1..m : s[x] = <<i, a + x>>
  BY SegType
<1>2. /\ t \in Seq(Toks) /\ Len(t) = n /\ \A x \in 1..n : t[x] = <<i, (a + m) + x>>
  BY <1>0, SegType
<1>3. /\ u \in Seq(Toks) /\ Len(u) = m + n /\ \A x \in 1..(m + n) : u[x] = <<i, a + x>>
  BY <1>0, SegType
<1> HIDE DEF s, t, u
<1>4. /\ s \o t \in Seq(Toks) /\ Len(s \o t) = m + n
      /\ \A x \in 1..(m + n) : (s \o t)[x] = IF x <= m THEN s[x] ELSE t[x - m]
  <2>1. /\ s \o t \in Seq(Toks) /\ Len(s \o t) = Len(s) + Len(t)
        /\ \A x \in 1..(Len(s) + Len(t)) : (s \o t)[x] = IF x <= Len(s) THEN s[x] ELSE t[x - Len(s)]
    BY <1>1, <1>2, ConcatProperties
  <2> QED
    BY <1>1, <1>2, <2>1
<1>5. ASSUME NEW x \in 1..(m + n) PROVE (s \o t)[x] = u[x]
  <2>1. CASE x <= m
    <3>1. x \in 1..m
      BY <2>1
    <3> QED
      BY <1>1, <1>3, <1>4, <2>1, <3>1
  <2>2. CASE ~(x <= m)
    <3>1. x - m \in 1..n /\ (a + m) + (x - m) = a + x
      BY <2>2
    <3> QED
      BY <1>2, <1>3, <1>4, <2>2, <3>1
  <2> QED
    BY <2>1, <2>2
<1>6. s \o t = u
  BY <1>3, <1>4, <1>5, SeqEqual
<1> QED
  BY <1>6 DEF s, t, u

\* The two parts of a segment are segments.
Cut(i, a, n, s, t) ==
  /\ Len(s) \in 0..n /\ Len(t) = n - Len(s)
  /\ s = Segment(i, a, Len(s)) /\ t = Segment(i, a + Len(s), n - Len(s))

LEMMA SegSplit ==
  ASSUME NEW i \in Int, NEW a \in Int, NEW n \in Nat, NEW s \in Seq(Toks), NEW t \in Seq(Toks),
         s \o t = Segment(i, a, n)
  PROVE  Cut(i, a, n, s, t)
<1> DEFINE m == Len(s)
           u == Segment(i, a, n)
<1>1. m \in Nat /\ Len(t) \in Nat
  BY LenProperties
<1>2. /\ s \o t \in Seq(Toks) /\ Len(s \o t) = m + Len(t)
      /\ \A x \in 1..(m + Len(t)) : (s \o t)[x] = IF x <= m THEN s[x] ELSE t[x - m]
  BY ConcatProperties
<1>3. Len(u) = n /\ \A x \in 1..n : u[x] = <<i, a + x>>
  BY SegType
<1> HIDE DEF u
<1>4. s \o t = u
  BY DEF u
<1>5. m + Len(t) = n
  BY <1>2, <1>3, <1>4
<1>6. m \in 0..n /\ Len(t) = n - m /\ n - m \in Nat
  BY <1>1, <1>5
<1> HIDE DEF m
<1>7. /\ Segment(i, a, m) \in Seq(Toks) /\ Len(Segment(i, a, m)) = m
      /\ \A x \in 1..m : Segment(i, a, m)[x] = <<i, a + x>>
  <2>1. i \in Int /\ a \in Int /\ m \in Nat
    BY <1>1, <1>6
  <2> QED
    BY <2>1, SegType
<1>8. /\ Segment(i, a + m, n - m) \in Seq(Toks) /\ Len(Segment(i, a + m, n - m)) = n - m
      /\ \A x \in 1..(n - m) : Segment(i, a + m, n - m)[x] = <<i, (a + m) + x>>
  <2> DEFINE b == a + m
             l == n - m
  <2>1. i \in Int /\ b \in Int /\ l \in Nat
    BY <1>1, <1>6
  <2> HIDE DEF b, l
  <2>2. /\ Segment(i, b, l) \in Seq(Toks) /\ Len(Segment(i, b, l)) = l
        /\ \A x \in 1..l : Segment(i, b, l)[x] = <<i, b + x>>
    BY <2>1, SegType, Zenon
  <2> QED
    BY <2>2 DEF b, l
<1>9. ASSUME NEW x \in 1..m PROVE s[x] = Segment(i, a, m)[x]
  <2>1. x \in 1..n /\ x \in 1..(m + Len(t)) /\ x <= m
    BY <1>1, <1>5, <1>6
  <2> QED
    BY <1>2, <1>3, <1>4, <1>7, <2>1
<1>10. ASSUME NEW x \in 1..(n - m) PROVE t[x] = Segment(i, a + m, n - m)[x]
  <2>1. m + x \in 1..n /\ m + x \in 1..(m + Len(t)) /\ ~(m + x <= m) /\ (m + x) - m = x
        /\ a + (m + x) = (a + m) + x
    BY <1>1, <1>5, <1>6
  <2> QED
    BY <1>2, <1>3, <1>4, <1>8, <2>1
<1>11. Len(s) = m
  BY DEF m
<1>12. s = Segment(i, a, m)
  BY <1>7, <1>9, <1>11, SeqEqual
<1>13. t = Segment(i, a + m, n - m)
  BY <1>6, <1>8, <1>10, SeqEqual
<1> QED
  BY <1>6, <1>12, <1>13 DEF m, Cut

----------------------------------------------------------------------------
(* The invariant of the two streams.                                       *)

\* Peers that keep to the protocol, and a response header that comes whole:
\* a request is not sent before the last one is answered, nor answered before it
\* is whole; each request has one response; a message without a body has none;
\* only the last response may be delimited by the close of the connection.
Mannered ==
  \A s \in Scripts :
    /\ "pipelining" \notin s.may /\ "earlyAnswer" \notin s.may
    /\ \A i \in 1..Len(s.reqs) : s.reqs[i].mode = "NONE" => s.reqs[i].body = 0
    /\ \A k \in 1..Len(s.resps) :
         /\ s.resps[k].hdr = 1
         /\ s.resps[k].mode = "NONE" => s.resps[k].body = 0
         /\ s.resps[k].mode = "UNTIL_CLOSE" =>
              ~s.resps[k].keep /\ s.resps[k].answers = Len(s.reqs)
         /\ \A l \in 1..Len(s.resps) : k < l => s.resps[k].answers < s.resps[l].answers

Before(t, u) == t[1] < u[1] \/ (t[1] = u[1] /\ t[2] < u[2])

\* A stream of tokens of msgs, each message from its token b on and whole
\* before the next one begins.
Chained(msgs, b, s) ==
  /\ \A n \in 1..Len(s) :
       /\ s[n][1] \in 1..Len(msgs) /\ s[n][2] \in b..Total(msgs[s[n][1]])
       /\ IF s[n][2] > b THEN n > 1 /\ s[n - 1] = <<s[n][1], s[n][2] - 1>>
          ELSE n > 1 => \E k \in 1..(s[n][1] - 1) : s[n - 1] = <<k, Total(msgs[k])>>
  /\ \A m, n \in 1..Len(s) : m < n => Before(s[m], s[n])

UpS(w)  == IF w.net.u = "up" THEN srv.got \o w.net.toUp ELSE <<>>
Rest(w) == Drop(w.c.out, w.c.outOff) \o w.net.cRecv
Down(w) == cli.got \o w.net.toCli
Mine(w) == Down(w) \o Drop(w.c.in, w.c.inOff)

\* The stream ends with the end of a request before i, of an answer to one.
Asking(s, i)   == s = <<>> \/ \E j \in 1..(i - 1) : End(s) = <<j, Total(Reqs[j])>>
Answering(s, i) == s = <<>> \/ \E k \in 1..Len(Resps) : /\ End(s) = <<k, Total(Resps[k])>>
                                                         /\ Resps[k].answers < i

\* The request that is read, or that comes next.
Current(w) == IF w.c.state \in {"NEW", "READING"} /\ Rest(w) = <<>> THEN cli.msg + 1 ELSE cli.msg

\* What the server has got of which requests it has not answered.
Unanswered(w, i) ==
  \A k \in (srv.msg + 1)..Len(Resps) :
    Resps[k].answers \in 1..Len(Reqs) /\ Has(UpS(w), <<Resps[k].answers, Total(Reqs[Resps[k].answers])>>)
       => Resps[k].answers = i

Silent(w, i) ==
  /\ w.net.uRecv = <<>>
  /\ w.net.u = "up" /\ srv.msg # 0 => srv.pos = Total(Resps[srv.msg]) /\ Resps[srv.msg].answers < i

NoResp(w) == w.c.in = <<>> /\ w.c.inOff = 0 /\ ~w.c.respHdr /\ ~w.c.respComplete

\* Between two requests.
Resting(w) ==
  /\ NoResp(w) /\ w.net.u \in {"none", "up"}
  /\ \/ Rest(w) = <<>> /\ (cli.msg = 0 \/ cli.pos = Total(Reqs[cli.msg]))
     \/ cli.msg # 0 /\ Rest(w) = Segment(cli.msg, 0, cli.pos)
  /\ Answering(Down(w), Current(w)) /\ Asking(UpS(w), Current(w))
  /\ Silent(w, Current(w)) /\ w.net.toUp = <<>>
  /\ Unanswered(w, 0)

Trying(w) ==
  /\ NoResp(w) /\ w.net.toUp = <<>> /\ w.net.uRecv = <<>> /\ cli.msg # 0 /\ w.c.req = cli.msg
  /\ Rest(w) = Segment(cli.msg, 0 - Growth, cli.pos + Growth)
  /\ Answering(Down(w), cli.msg)
  /\ w.net.u # "none"
  /\ w.net.u = "up" => srv.got = <<>> /\ srv.msg = 0

\* How far the request is written.
AskedTo(w, q) ==
  /\ q \in (0 - Growth)..cli.pos
  /\ Rest(w) = Segment(cli.msg, q, cli.pos - q)
  /\ IF q = 0 - Growth THEN Asking(UpS(w), cli.msg) ELSE UpS(w) # <<>> /\ End(UpS(w)) = <<cli.msg, q>>

\* No token of the response is in, or p tokens are.
Waiting(w) == NoResp(w) /\ Answering(Down(w), cli.msg)
AnsweredTo(w, p) ==
  LET m == Resps[srv.msg]
  IN  /\ p \in 0..srv.pos /\ w.net.uRecv = Segment(srv.msg, p, srv.pos - p)
      /\ IF p = 0 THEN Waiting(w)
         ELSE /\ w.c.respHdr /\ w.c.resp = srv.msg
              /\ Mine(w) # <<>> /\ End(Mine(w)) = <<srv.msg, p>>
              /\ m.mode = "NONE" => w.c.respComplete
              /\ m.mode \in {"LENGTH", "CHUNKED"} =>
                   w.c.respLeft = Total(m) - p /\ w.c.respComplete = (w.c.respLeft = 0)

Relayed(w) ==
  /\ cli.msg # 0 /\ w.c.req = cli.msg /\ w.net.u # "none"
  /\ \E q \in (0 - Growth)..cli.pos : AskedTo(w, q)
  /\ Unanswered(w, cli.msg)
  /\ \/ Silent(w, cli.msg) /\ Waiting(w)
     \/ /\ w.net.u = "up" /\ srv.msg # 0 /\ Resps[srv.msg].answers = cli.msg
        /\ Has(srv.got, <<cli.msg, Total(Reqs[cli.msg])>>)
        /\ \E p \in 0..srv.pos : AnsweredTo(w, p)

\* The last token of the stream may be a response made up by the proxy.
Ends2(s) == 
  \/ Chained(Resps, 1, s)
  \/ \E d \in {Take(s, Len(s) - 1)} :
       /\ s # <<>> /\ IsErr(End(s)) /\ Chained(Resps, 1, d)
       /\ d = <<>> \/ \E k \in 1..Len(Resps) : End(d) = <<k, Total(Resps[k])>>

\* What holds of the two streams in the middle of a handler as well.
Links(w) ==
  /\ Chained(Reqs, 1 - Growth, srv.got \o w.net.toUp)
  /\ w.net.u # "up" => w.net.toUp = <<>> /\ w.net.uRecv = <<>>

Flow(w) ==
  /\ Links(w)
  /\ w.c.state = "CLOSING" => Ends2(Down(w)) /\ w.net.u = "none"
  /\ w.c.state # "CLOSING" => Chained(Resps, 1, Mine(w))
  /\ w.c.state \in {"NEW", "READING"} => Resting(w)
  /\ w.c.state = "CONNECTING" => Trying(w)
  /\ w.c.state = "PROXYING" => Relayed(w)

Shown(w) == w.c.state = "PROXYING" /\ w.c.respComplete => w.c.inOff < Len(w.c.in)

Sides ==
  /\ cli.msg # 0 => cli.pos \in 1..Total(Reqs[cli.msg])
  /\ srv.msg # 0 => srv.pos \in 1..Total(Resps[srv.msg])

StreamInv == TypeInv /\ Sides /\ Flow(World) /\ Shown(World)

----------------------------------------------------------------------------
(* Streams of whole messages.                                              *)

LEMMA TokIs ==
  ASSUME NEW t \in Toks
  PROVE  t[1] \in Int /\ t[2] \in Int /\ t = <<t[1], t[2]>>
BY DEF Toks

\* The lengths of the messages are numbers.
Sized(msgs) == Len(msgs) \in Nat /\ \A i \in 1..Len(msgs) : Total(msgs[i]) \in Nat

LEMMA ChainEmpty == ASSUME NEW msgs, NEW b PROVE Chained(msgs, b, <<>>)
<1>1. Len(<<>>) = 0
  BY EmptySeq
<1>2. 1..Len(<<>>) = {}
  BY <1>1
<1> QED
  BY <1>2 DEF Chained

\* No token of a chained stream comes after its last one.
LEMMA ChainUpTo ==
  ASSUME NEW msgs, NEW b, NEW s \in Seq(Toks), Chained(msgs, b, s), NEW t, Has(s, t)
  PROVE  s # <<>> /\ (t = End(s) \/ Before(t, End(s)))
<1>1. Len(s) \in Nat
  BY LenProperties
<1>2. PICK n \in 1..Len(s) : s[n] = t
  BY DEF Has
<1>3. Len(s) \in 1..Len(s) /\ s # <<>>
  BY <1>1, <1>2, EmptySeq
<1>4. n = Len(s) \/ n < Len(s)
  BY <1>1
<1>5. n < Len(s) => Before(s[n], s[Len(s)])
  BY <1>3 DEF Chained
<1> QED
  BY <1>2, <1>3, <1>4, <1>5 DEF End

LEMMA JoinParts ==
  ASSUME NEW S, NEW s \in Seq(S), NEW t \in Seq(S)
  PROVE  /\ Len(s) \in Nat /\ Len(t) \in Nat
         /\ s \o t \in Seq(S) /\ Len(s \o t) = Len(s) + Len(t)
         /\ \A x \in 1..Len(s) : x \in 1..Len(s \o t) /\ (s \o t)[x] = s[x]
         /\ \A x \in 1..Len(t) : /\ Len(s) + x \in 1..Len(s \o t)
                                 /\ (s \o t)[Len(s) + x] = t[x]
         /\ \A x \in 1..Len(s \o t) : x \in 1..Len(s) \/ x - Len(s) \in 1..Len(t)
<1>1. Len(s) \in Nat /\ Len(t) \in Nat
  BY LenProperties
<1>2. /\ s \o t \in Seq(S) /\ Len(s \o t) = Len(s) + Len(t)
      /\ \A x \in 1..(Len(s) + Len(t)) : (s \o t)[x] = IF x <= Len(s) THEN s[x] ELSE t[x - Len(s)]
  BY ConcatProperties
<1>3. ASSUME NEW x \in 1..Len(s) PROVE x \in 1..(Len(s) + Len(t)) /\ (s \o t)[x] = s[x]
  <2>1. x \in 1..(Len(s) + Len(t)) /\ x <= Len(s)
    BY <1>1
  <2> QED
    BY <1>2, <2>1
<1>4. ASSUME NEW x \in 1..Len(t)
      PROVE  Len(s) + x \in 1..(Len(s) + Len(t)) /\ (s \o t)[Len(s) + x] = t[x]
  <2>1. Len(s) + x \in 1..(Len(s) + Len(t)) /\ ~(Len(s) + x <= Len(s)) /\ (Len(s) + x) - Len(s) = x
    BY <1>1
  <2> QED
    BY <1>2, <2>1
<1>5. \A x \in 1..(Len(s) + Len(t)) : x \in 1..Len(s) \/ x - Len(s) \in 1..Len(t)
  BY <1>1
<1> QED
  BY <1>1, <1>2, <1>3, <1>4, <1>5

LEMMA ChainPrefix ==
  ASSUME NEW msgs, NEW b, NEW s \in Seq(Toks), NEW t \in Seq(Toks), Chained(msgs, b, s \o t)
  PROVE  Chained(msgs, b, s)
<1>1. /\ Len(s) \in Nat /\ Len(s \o t) = Len(s) + Len(t)
      /\ \A x \in 1..Len(s) : x \in 1..Len(s \o t) /\ (s \o t)[x] = s[x]
  BY JoinParts
<1> DEFINE u == s \o t
<1>2. /\ \A x \in 1..Len(s) : x \in 1..Len(u) /\ u[x] = s[x]
      /\ Chained(msgs, b, u)
  BY <1>1
<1> HIDE DEF u
<1>3. ASSUME NEW n \in 1..Len(s)
      PROVE  /\ s[n][1] \in 1..Len(msgs) /\ s[n][2] \in b..Total(msgs[s[n][1]])
             /\ IF s[n][2] > b THEN n > 1 /\ s[n - 1] = <<s[n][1], s[n][2] - 1>>
                ELSE n > 1 => \E k \in 1..(s[n][1] - 1) : s[n - 1] = <<k, Total(msgs[k])>>
  <2>1. n \in 1..Len(u) /\ u[n] = s[n]
    BY <1>2
  <2>2. n > 1 => n - 1 \in 1..Len(s)
    BY <1>1
  <2>3. n > 1 => u[n - 1] = s[n - 1]
    BY <1>2, <2>2
  <2>4. /\ u[n][1] \in 1..Len(msgs) /\ u[n][2] \in b..Total(msgs[u[n][1]])
        /\ IF u[n][2] > b THEN n > 1 /\ u[n - 1] = <<u[n][1], u[n][2] - 1>>
           ELSE n > 1 => \E k \in 1..(u[n][1] - 1) : u[n - 1] = <<k, Total(msgs[k])>>
    BY <1>2, <2>1 DEF Chained
  <2> QED
    BY <2>1, <2>3, <2>4
<1>4. ASSUME NEW m \in 1..Len(s), NEW n \in 1..Len(s), m < n PROVE Before(s[m], s[n])
  <2>1. m \in 1..Len(u) /\ u[m] = s[m] /\ n \in 1..Len(u) /\ u[n] = s[n]
    BY <1>2
  <2>2. Before(u[m], u[n])
    BY <1>2, <1>4, <2>1 DEF Chained
  <2> QED
    BY <2>1, <2>2
<1> QED
  BY <1>3, <1>4 DEF Chained

\* A token of the first part of a chained stream comes before the end of the rest.
LEMMA ChainApart ==
  ASSUME NEW msgs, NEW b, NEW s \in Seq(Toks), NEW t \in Seq(Toks), Chained(msgs, b, s \o t),
         NEW x, Has(s, x), t # <<>>
  PROVE  Before(x, End(t))
<1>1. /\ Len(s) \in Nat /\ Len(t) \in Nat /\ Len(s \o t) = Len(s) + Len(t)
      /\ \A y \in 1..Len(s) : y \in 1..Len(s \o t) /\ (s \o t)[y] = s[y]
      /\ \A y \in 1..Len(t) : Len(s) + y \in 1..Len(s \o t) /\ (s \o t)[Len(s) + y] = t[y]
  BY JoinParts
<1>2. Len(t) \in 1..Len(t)
  BY <1>1, EmptySeq
<1>3. PICK y \in 1..Len(s) : s[y] = x
  BY DEF Has
<1>4. /\ y \in 1..Len(s \o t) /\ (s \o t)[y] = x
      /\ Len(s) + Len(t) \in 1..Len(s \o t) /\ (s \o t)[Len(s) + Len(t)] = End(t)
  BY <1>1, <1>2, <1>3 DEF End
<1>5. y < Len(s) + Len(t)
  BY <1>1, <1>2
<1> QED
  BY <1>4, <1>5 DEF Chained

LEMMA BeforeChain ==
  ASSUME NEW x \in Toks, NEW y \in Toks, NEW z \in Toks, x = y \/ Before(x, y), Before(y, z)
  PROVE  Before(x, z)
<1>1. /\ x[1] \in Int /\ x[2] \in Int /\ y[1] \in Int /\ y[2] \in Int
      /\ z[1] \in Int /\ z[2] \in Int
  BY TokIs
<1> QED
  BY <1>1 DEF Before

\* Where a segment may be put: at the start of a message, after a whole one, or
\* where the last one stopped.
Fitting(msgs, b, s, i, a) ==
  IF a = b - 1 THEN s = <<>> \/ \E k \in 1..(i - 1) : End(s) = <<k, Total(msgs[k])>>
  ELSE s # <<>> /\ End(s) = <<i, a>>

LEMMA ChainAppend ==
  ASSUME NEW msgs, Sized(msgs), NEW b \in Int, NEW s \in Seq(Toks), Chained(msgs, b, s),
         NEW i \in 1..Len(msgs), NEW a \in Int, NEW n \in Nat, a >= b - 1,
         a + n <= Total(msgs[i]), Fitting(msgs, b, s, i, a)
  PROVE  Chained(msgs, b, s \o Segment(i, a, n))
<1> DEFINE t == Segment(i, a, n)
           u == s \o t
           l == Len(s)
<1>0. i \in Int /\ Len(msgs) \in Nat /\ Total(msgs[i]) \in Int
  BY DEF Sized
<1>1. t \in Seq(Toks) /\ Len(t) = n /\ \A x \in 1..n : t[x] = <<i, a + x>>
  BY <1>0, SegType, Zenon
<1> HIDE DEF t
<1>2. /\ l \in Nat /\ u \in Seq(Toks) /\ Len(u) = l + n
      /\ \A x \in 1..l : x \in 1..(l + n) /\ u[x] = s[x]
      /\ \A x \in 1..n : l + x \in 1..(l + n) /\ u[l + x] = t[x]
      /\ \A x \in 1..(l + n) : x \in 1..l \/ x - l \in 1..n
  <2>0. t \in Seq(Toks)
    BY <1>1
  <2>1. /\ Len(s) \in Nat /\ Len(t) \in Nat
        /\ s \o t \in Seq(Toks) /\ Len(s \o t) = Len(s) + Len(t)
        /\ \A x \in 1..Len(s) : x \in 1..Len(s \o t) /\ (s \o t)[x] = s[x]
        /\ \A x \in 1..Len(t) : /\ Len(s) + x \in 1..Len(s \o t)
                                /\ (s \o t)[Len(s) + x] = t[x]
        /\ \A x \in 1..Len(s \o t) : x \in 1..Len(s) \/ x - Len(s) \in 1..Len(t)
    BY <2>0, JoinParts
  <2>2. u = s \o t /\ l = Len(s) /\ Len(t) = n
    BY <1>1
  <2> HIDE DEF u, l
  <2> QED
    BY <2>1, <2>2
<1>3. l # 0 => s # <<>> /\ l \in 1..l /\ s[l] = End(s)
  BY <1>2, EmptySeq DEF End
<1>4. l = 0 => s = <<>>
  BY EmptySeq
<1> HIDE DEF u, l
<1>5. \A x \in 1..n : u[l + x] = <<i, a + x>>
  BY <1>1, <1>2
<1>6. ASSUME NEW y \in 1..(l + n)
      PROVE  /\ u[y][1] \in 1..Len(msgs) /\ u[y][2] \in b..Total(msgs[u[y][1]])
             /\ IF u[y][2] > b THEN y > 1 /\ u[y - 1] = <<u[y][1], u[y][2] - 1>>
                ELSE y > 1 => \E k \in 1..(u[y][1] - 1) : u[y - 1] = <<k, Total(msgs[k])>>
  <2>1. CASE y \in 1..l
    <3>1. /\ s[y][1] \in 1..Len(msgs) /\ s[y][2] \in b..Total(msgs[s[y][1]])
          /\ IF s[y][2] > b THEN y > 1 /\ s[y - 1] = <<s[y][1], s[y][2] - 1>>
             ELSE y > 1 => \E k \in 1..(s[y][1] - 1) : s[y - 1] = <<k, Total(msgs[k])>>
      BY <2>1 DEF Chained, l
    <3>2. y > 1 => y - 1 \in 1..l
      BY <1>2, <2>1
    <3>3. u[y] = s[y] /\ (y > 1 => u[y - 1] = s[y - 1])
      BY <1>2, <2>1, <3>2
    <3> QED
      BY <3>1, <3>3
  <2>2. CASE y - l \in 1..n
    <3>1. PICK x \in 1..n : y = l + x
      BY <1>2, <2>2
    <3>a. l \in Nat /\ n \in Nat /\ x \in Int /\ y = l + x
      BY <1>2, <3>1
    <3> HIDE DEF l
    <3>2. u[y] = <<i, a + x>> /\ a + x \in b..Total(msgs[i])
      BY <1>0, <1>5, <3>1
    <3>3. CASE x > 1
      <4>1. x - 1 \in 1..n /\ y - 1 = l + (x - 1) /\ a + (x - 1) = (a + x) - 1 /\ y > 1
            /\ a + x > b
        BY <3>1, <3>a, <3>3
      <4>2. u[y - 1] = <<i, (a + x) - 1>>
        BY <1>5, <4>1
      <4> QED
        BY <3>2, <4>1, <4>2
    <3>4. CASE x = 1 /\ a = b - 1
      <4>1. a + x = b /\ ~(a + x > b) /\ (y > 1 => l # 0 /\ y - 1 = l)
        BY <3>1, <3>a, <3>4
      <4>2. y > 1 => \E k \in 1..(i - 1) : u[y - 1] = <<k, Total(msgs[k])>>
        <5> SUFFICES ASSUME y > 1 PROVE \E k \in 1..(i - 1) : u[y - 1] = <<k, Total(msgs[k])>>
          OBVIOUS
        <5>1. s # <<>> /\ u[y - 1] = End(s)
          BY <1>2, <1>3, <4>1
        <5> QED
          BY <3>4, <5>1 DEF Fitting
      <4> QED
        BY <3>2, <4>1, <4>2
    <3>5. CASE x = 1 /\ a # b - 1
      <4>1. s # <<>> /\ End(s) = <<i, a>>
        BY <3>5 DEF Fitting
      <4>2. a + x > b /\ (a + x) - 1 = a /\ l # 0 /\ y - 1 = l /\ y > 1
        BY <1>2, <1>4, <3>1, <3>5, <4>1
      <4>3. u[y - 1] = <<i, a>>
        BY <1>2, <1>3, <4>1, <4>2
      <4> QED
        BY <3>2, <4>2, <4>3
    <3> QED
      BY <3>3, <3>4, <3>5
  <2> QED
    BY <1>2, <2>1, <2>2
<1>7. l # 0 => \A x \in 1..n : Before(End(s), <<i, a + x>>)
  <2>1. SUFFICES ASSUME l # 0, NEW x \in 1..n PROVE Before(End(s), <<i, a + x>>)
    OBVIOUS
  <2>2. s # <<>>
    BY <1>3, <2>1
  <2>3. CASE a = b - 1
    <3>1. PICK k \in 1..(i - 1) : End(s) = <<k, Total(msgs[k])>>
      BY <2>2, <2>3 DEF Fitting
    <3> QED
      BY <1>0, <3>1 DEF Before
  <2>4. CASE a # b - 1
    <3>1. End(s) = <<i, a>>
      BY <2>4 DEF Fitting
    <3> QED
      BY <3>1 DEF Before
  <2> QED
    BY <2>3, <2>4
<1>8. ASSUME NEW y \in 1..(l + n), NEW z \in 1..(l + n), y < z PROVE Before(u[y], u[z])
  <2>1. CASE z \in 1..l
    <3>1. y \in 1..l
      BY <1>2, <1>8, <2>1
    <3>2. Before(s[y], s[z])
      BY <1>8, <2>1, <3>1 DEF Chained, l
    <3> QED
      BY <1>2, <2>1, <3>1, <3>2
  <2>2. CASE z - l \in 1..n
    <3>1. PICK x \in 1..n : z = l + x
      BY <1>2, <2>2
    <3>2. u[z] = <<i, a + x>> /\ u[z] \in Toks
      <4>1. u[z] = <<i, a + x>>
        BY <1>5, <3>1
      <4>2. i \in Int /\ a + x \in Int
        BY <1>0
      <4> QED
        BY <4>1, <4>2 DEF Toks
    <3>3. CASE y \in 1..l
      <4>1. u[y] = s[y] /\ l # 0
        BY <1>2, <3>3
      <4>2. Has(s, s[y]) /\ s[y] \in Toks
        BY <3>3, ElementOfSeq DEF Has, l
      <4>3. s[y] = End(s) \/ Before(s[y], End(s))
        BY <4>2, ChainUpTo
      <4>4. Before(End(s), u[z]) /\ End(s) \in Toks
        <5>1. l \in 1..Len(s)
          BY <1>3, <4>1 DEF l
        <5>2. End(s) \in Toks
          BY <5>1, ElementOfSeq DEF End, l
        <5> QED
          BY <1>7, <3>2, <4>1, <5>2
      <4> QED
        BY <3>2, <4>1, <4>2, <4>3, <4>4, BeforeChain
    <3>4. CASE y - l \in 1..n
      <4>1. PICK v \in 1..n : y = l + v
        BY <1>2, <3>4
      <4>2. u[y] = <<i, a + v>> /\ v < x
        BY <1>2, <1>5, <1>8, <3>1, <4>1
      <4> QED
        BY <1>0, <3>2, <4>2 DEF Before
    <3> QED
      BY <1>2, <3>3, <3>4
  <2> QED
    BY <1>2, <2>1, <2>2
<1>9. Chained(msgs, b, u)
  <2>1. Len(u) = l + n
    BY <1>2
  <2> QED
    BY <1>6, <1>8, <2>1 DEF Chained
<1> QED
  BY <1>9 DEF u, t

----------------------------------------------------------------------------
(* Closing, errors and what leaves the streams alone.                      *)

LEMMA ScriptSized == ASSUME script \in Scripts PROVE Sized(Reqs) /\ Sized(Resps)
<1>1. \A i \in 1..Len(Reqs) : Total(Reqs[i]) \in Nat
  BY ReqType DEF Total
<1>2. \A i \in 1..Len(Resps) : Total(Resps[i]) \in Nat
  BY RespType DEF Total
<1> QED
  BY <1>1, <1>2, ScriptType DEF Sized

LEMMA TokTypes ==
  ASSUME script \in Scripts
  PROVE  /\ Seq(ReqToks) \subseteq Seq(Toks) /\ Seq(RespToks) \subseteq Seq(Toks)
         /\ Seq(CliToks) \subseteq Seq(Toks)
<1>1. Len(Reqs) \in Nat /\ Len(Resps) \in Nat
  BY ScriptType
<1>2. ReqToks \subseteq Toks /\ RespToks \subseteq Toks /\ CliToks \subseteq Toks
  BY <1>1 DEF ReqToks, RespToks, CliToks, Toks
<1> QED
  BY <1>2, SeqMonotonic

\* The streams of a world are sequences of tokens.
LEMMA Streams ==
  ASSUME NEW w, Fits(w), Ends
  PROVE  /\ srv.got \in Seq(Toks) /\ w.net.toUp \in Seq(Toks) /\ w.net.uRecv \in Seq(Toks)
         /\ cli.got \in Seq(Toks) /\ w.net.toCli \in Seq(Toks) /\ w.net.cRecv \in Seq(Toks)
         /\ w.c.out \in Seq(Toks) /\ w.c.in \in Seq(Toks)
         /\ Drop(w.c.out, w.c.outOff) \in Seq(Toks) /\ Drop(w.c.in, w.c.inOff) \in Seq(Toks)
         /\ srv.got \o w.net.toUp \in Seq(Toks) /\ UpS(w) \in Seq(Toks)
         /\ Rest(w) \in Seq(Toks) /\ Down(w) \in Seq(Toks) /\ Mine(w) \in Seq(Toks)
<1>1. script \in Scripts
  BY DEF Fits
<1>2. /\ w.c.out \in Seq(Toks) /\ w.c.in \in Seq(Toks)
      /\ w.c.outOff \in 0..Len(w.c.out) /\ w.c.inOff \in 0..Len(w.c.in)
      /\ w.net.toUp \in Seq(Toks) /\ w.net.uRecv \in Seq(Toks)
      /\ w.net.toCli \in Seq(Toks) /\ w.net.cRecv \in Seq(Toks)
  BY <1>1, FitsParts, TokTypes
<1>3. srv.got \in Seq(Toks) /\ cli.got \in Seq(Toks)
  BY <1>1, TokTypes DEF Ends, Servers, Clients
<1>4. Drop(w.c.out, w.c.outOff) \in Seq(Toks) /\ Drop(w.c.in, w.c.inOff) \in Seq(Toks)
  BY <1>2, DropType
<1>5. srv.got \o w.net.toUp \in Seq(Toks) /\ Down(w) \in Seq(Toks)
  BY <1>2, <1>3, JoinType DEF Down
<1>6. Rest(w) \in Seq(Toks) /\ Mine(w) \in Seq(Toks)
  BY <1>2, <1>4, <1>5, JoinType DEF Rest, Mine
<1>7. <<>> \in Seq(Toks)
  BY EmptySeq
<1> QED
  BY <1>2, <1>3, <1>4, <1>5, <1>6, <1>7 DEF UpS

LEMMA Nothing == ASSUME NEW S, NEW s \in Seq(S) PROVE s \o <<>> = s /\ <<>> \o s = s
BY ConcatEmptySeq

LEMMA Joined == \A s, t, u \in Seq(Toks) : s \o (t \o u) = (s \o t) \o u
BY ConcatAssociative

LEMMA LinksCut ==
  ASSUME NEW w, Fits(w), Ends, Links(w), NEW v, v.net.toUp = <<>>, v.net.uRecv = <<>>
  PROVE  Links(v)
<1>1. Chained(Reqs, 1 - Growth, srv.got)
  BY Streams, ChainPrefix DEF Links
<1>2. srv.got \o v.net.toUp = srv.got
  BY Streams, Nothing
<1> QED
  BY <1>1, <1>2 DEF Links

LEMMA DroppedIs ==
  ASSUME NEW w, Fits(w), Links(w)
  PROVE  /\ Dropped(w.net).u = "none" /\ Dropped(w.net).toUp = <<>> /\ Dropped(w.net).uRecv = <<>>
         /\ Dropped(w.net).cRecv = w.net.cRecv /\ Dropped(w.net).toCli = w.net.toCli
         /\ Dropped(w.net) \in Nets
<1>1. w.net \in Nets
  BY FitsParts
<1> QED
  BY <1>1, NoUpstreamType DEF Dropped, Links

LEMMA CloseFlow ==
  ASSUME NEW w, Fits(w), Ends, Links(w), Chained(Resps, 1, Down(w))
  PROVE  Flow(ConnClose(w)) /\ Shown(ConnClose(w))
<1> DEFINE v == ConnClose(w)
<1>1. v.c = Closed /\ v.net = [Dropped(w.net) EXCEPT !.cRecv = <<>>]
  BY ConnCloseFits
<1>2. /\ v.net.u = "none" /\ v.net.toUp = <<>> /\ v.net.uRecv = <<>> /\ v.net.toCli = w.net.toCli
      /\ v.c.state = "CLOSING"
  BY <1>1, DroppedIs, BlankType DEF Nets
<1> HIDE DEF v
<1>3. Links(v)
  BY <1>2, LinksCut
<1>4. Ends2(Down(v))
  BY <1>2 DEF Ends2, Down
<1> QED
  BY <1>2, <1>3, <1>4 DEF Flow, Shown, v

\* Between two responses the proxy may put one of its own, which is the last.
Between(s) == s = <<>> \/ \E k \in 1..Len(Resps) : End(s) = <<k, Total(Resps[k])>>

LEMMA AppendDown ==
  ASSUME NEW s \in Seq(Toks), NEW t \in Toks
  PROVE  /\ Append(s, t) # <<>> /\ End(Append(s, t)) = t
         /\ Take(Append(s, t), Len(Append(s, t)) - 1) = s
<1>1. /\ Append(s, t) \in Seq(Toks) /\ Len(Append(s, t)) = Len(s) + 1 /\ Len(s) \in Nat
      /\ \A x \in 1..Len(s) : Append(s, t)[x] = s[x]
      /\ Append(s, t)[Len(s) + 1] = t
  BY AppendProperties, LenProperties
<1> DEFINE u == Append(s, t)
<1> HIDE DEF u
<1>2. u \in Seq(Toks) /\ Len(u) = Len(s) + 1 /\ \A x \in 1..Len(s) : u[x] = s[x]
  BY <1>1 DEF u
<1>3. Len(s) \in 0..Len(u) /\ Len(u) - 1 = Len(s)
  BY <1>1, <1>2
<1>4. /\ Take(u, Len(s)) \in Seq(Toks) /\ Len(Take(u, Len(s))) = Len(s)
      /\ \A x \in 1..Len(s) : Take(u, Len(s))[x] = u[x]
  BY <1>2, <1>3, TakeType
<1> HIDE DEF Take
<1>5. Take(u, Len(s)) = s
  BY <1>2, <1>4, SeqEqual
<1>6. u # <<>>
  BY <1>1, <1>2, EmptySeq
<1> QED
  BY <1>1, <1>3, <1>5, <1>6 DEF u, End

LEMMA ErrorFlow ==
  ASSUME NEW w, Fits(w), Ends, Links(w), Chained(Resps, 1, Down(w)), Between(Down(w)),
         NEW code \in Nat
  PROVE  Flow(SendError(w, code)) /\ Shown(SendError(w, code))
<1> DEFINE v == SendError(w, code)
<1>1. /\ v.c = Closed /\ v.net.toCli = Told(w.net, code) /\ v.net.u = "none"
      /\ v.net.toUp = Dropped(w.net).toUp /\ v.net.uRecv = Dropped(w.net).uRecv
  BY SendErrorFits
<1>2. v.net.toUp = <<>> /\ v.net.uRecv = <<>> /\ v.c.state = "CLOSING"
  BY <1>1, DroppedIs, BlankType
<1> HIDE DEF v
<1>3. Links(v)
  BY <1>2, LinksCut
<1>4. Ends2(Down(v))
  <2>1. CASE v.net.toCli = w.net.toCli
    BY <2>1 DEF Ends2, Down
  <2>2. CASE v.net.toCli = Append(w.net.toCli, Err(code))
    <3>1. cli.got \in Seq(Toks) /\ w.net.toCli \in Seq(Toks) /\ Down(w) \in Seq(Toks)
      BY Streams
    <3>2. Err(code) \in Toks /\ IsErr(Err(code))
      BY DEF Err, Toks, IsErr
    <3>3. Down(v) = Append(Down(w), Err(code))
      <4>1. Append(w.net.toCli, Err(code)) = w.net.toCli \o <<Err(code)>>
            /\ <<Err(code)>> \in Seq(Toks)
        BY <3>1, <3>2, AppendIsConcat
      <4>2. Append(Down(w), Err(code)) = Down(w) \o <<Err(code)>>
        BY <3>1, <3>2, AppendIsConcat
      <4>3. cli.got \o (w.net.toCli \o <<Err(code)>>) = (cli.got \o w.net.toCli) \o <<Err(code)>>
        <5> DEFINE e == <<Err(code)>>
        <5>1. e \in Seq(Toks)
          BY <4>1
        <5> HIDE DEF e
        <5>2. cli.got \o (w.net.toCli \o e) = (cli.got \o w.net.toCli) \o e
          BY <3>1, <5>1, Joined, Zenon
        <5> QED
          BY <5>2 DEF e
      <4> QED
        BY <2>2, <4>1, <4>2, <4>3 DEF Down
    <3>4. /\ Down(v) # <<>> /\ End(Down(v)) = Err(code)
          /\ Take(Down(v), Len(Down(v)) - 1) = Down(w)
      BY <3>1, <3>2, <3>3, AppendDown
    <3> QED
      BY <3>2, <3>4 DEF Ends2, Between
  <2> QED
    BY <1>1, <2>1, <2>2 DEF Told
<1>5. Flow(v) /\ Shown(v)
  BY <1>1, <1>2, <1>3, <1>4 DEF Flow, Shown
<1> QED
  BY <1>5 DEF v

\* Two worlds that differ only in what the streams do not depend on.
Alike(v, w) ==
  /\ Rest(v) = Rest(w) /\ v.c.in = w.c.in /\ v.c.inOff = w.c.inOff
  /\ v.c.respHdr = w.c.respHdr /\ v.c.respComplete = w.c.respComplete
  /\ v.c.resp = w.c.resp /\ v.c.respLeft = w.c.respLeft
  /\ v.net.u = w.net.u /\ v.net.toUp = w.net.toUp /\ v.net.uRecv = w.net.uRecv
  /\ v.net.toCli = w.net.toCli

LEMMA AlikeStreams ==
  ASSUME NEW v, NEW w, Alike(v, w)
  PROVE  /\ UpS(v) = UpS(w) /\ Down(v) = Down(w) /\ Mine(v) = Mine(w)
         /\ NoResp(v) = NoResp(w) /\ Waiting(v) = Waiting(w) /\ (Links(v) <=> Links(w))
<1>1. UpS(v) = UpS(w) /\ Down(v) = Down(w) /\ Mine(v) = Mine(w)
  BY DEF Alike, UpS, Down, Mine
<1>2. NoResp(v) = NoResp(w)
  BY DEF Alike, NoResp
<1> QED
  BY <1>1, <1>2 DEF Waiting, Links, Alike

LEMMA AlikeAnswers ==
  ASSUME NEW v, NEW w, Alike(v, w)
  PROVE  /\ \A i : Silent(w, i) => Silent(v, i)
         /\ \A i : Unanswered(w, i) => Unanswered(v, i)
         /\ \A p : AnsweredTo(w, p) => AnsweredTo(v, p)
         /\ \A q : AskedTo(w, q) => AskedTo(v, q)
<1>1. /\ UpS(v) = UpS(w) /\ Mine(v) = Mine(w) /\ Waiting(v) = Waiting(w)
  BY AlikeStreams
<1>2. \A i : Silent(w, i) => Silent(v, i)
  BY DEF Silent, Alike
<1>3. \A i : Unanswered(w, i) => Unanswered(v, i)
  BY <1>1 DEF Unanswered
<1>4. \A p : AnsweredTo(w, p) => AnsweredTo(v, p)
  BY <1>1 DEF AnsweredTo, Alike
<1>5. \A q : AskedTo(w, q) => AskedTo(v, q)
  BY <1>1 DEF AskedTo, Alike
<1> QED
  BY <1>2, <1>3, <1>4, <1>5

LEMMA SameResting ==
  ASSUME NEW v, NEW w, Alike(v, w), Resting(w), w.c.state \in {"NEW", "READING"},
         v.c.state \in {"NEW", "READING"}
  PROVE  Resting(v)
<1>1. Current(v) = Current(w)
  BY DEF Current, Alike
<1>2. Silent(v, Current(w)) /\ Unanswered(v, 0)
  BY AlikeAnswers DEF Resting
<1>3. NoResp(v) /\ Down(v) = Down(w) /\ UpS(v) = UpS(w)
  BY AlikeStreams DEF Resting
<1> QED
  BY <1>1, <1>2, <1>3 DEF Resting, Alike

LEMMA SameTrying ==
  ASSUME NEW v, NEW w, Alike(v, w), Trying(w), v.c.req = w.c.req PROVE Trying(v)
<1>1. NoResp(v) /\ Down(v) = Down(w)
  BY AlikeStreams DEF Trying
<1> QED
  BY <1>1 DEF Trying, Alike

LEMMA SameRelayed ==
  ASSUME NEW v, NEW w, Alike(v, w), Relayed(w), v.c.req = w.c.req PROVE Relayed(v)
<1>1. /\ \A i : Silent(w, i) => Silent(v, i)
      /\ \A i : Unanswered(w, i) => Unanswered(v, i)
      /\ \A p : AnsweredTo(w, p) => AnsweredTo(v, p)
      /\ \A q : AskedTo(w, q) => AskedTo(v, q)
  BY AlikeAnswers
<1>2. Waiting(v) = Waiting(w) /\ v.net.u = w.net.u
  BY AlikeStreams DEF Alike
<1> QED
  BY <1>1, <1>2 DEF Relayed

LEMMA SameFlow ==
  ASSUME NEW v, NEW w, Alike(v, w), v.c.state = w.c.state, v.c.req = w.c.req, Flow(w)
  PROVE  Flow(v)
<1>1. Links(v) /\ Down(v) = Down(w) /\ Mine(v) = Mine(w) /\ v.net.u = w.net.u
  BY AlikeStreams DEF Flow, Alike
<1>2. w.c.state \in {"NEW", "READING"} => Resting(v)
  BY SameResting DEF Flow
<1>3. w.c.state = "CONNECTING" => Trying(v)
  BY SameTrying DEF Flow
<1>4. w.c.state = "PROXYING" => Relayed(v)
  BY SameRelayed DEF Flow
<1> QED
  BY <1>1, <1>2, <1>3, <1>4 DEF Flow

----------------------------------------------------------------------------
(* The relay step: writing on either side.                                 *)

LEMMA ReadClientAlike ==
  ASSUME NEW w, Fits(w), Ends
  PROVE  /\ Alike(ReadClient(w), w) /\ ReadClient(w).c.state = w.c.state
         /\ ReadClient(w).c.req = w.c.req
<1> DEFINE v == ReadClient(w)
           n == CliRead(w)
           t == Take(w.net.cRecv, n)
           d == Drop(w.net.cRecv, n)
           h == Drop(w.c.out, w.c.outOff)
<1>1. /\ v.c = [w.c EXCEPT !.out = @ \o t] /\ v.net = [w.net EXCEPT !.cRecv = d]
      /\ n \in 0..Len(w.net.cRecv)
  BY ReadClientFits
<1>2. w.c \in Conns /\ w.net \in Nets /\ w.c.outOff \in 0..Len(w.c.out)
  BY FitsParts
<1>3. w.c.out \in Seq(Toks) /\ w.net.cRecv \in Seq(Toks) /\ h \in Seq(Toks)
  BY Streams
<1>4. t \in Seq(Toks) /\ d \in Seq(Toks) /\ t \o d = w.net.cRecv
  BY <1>1, <1>3, TakeType, DropType, TakeDropIs
<1>5. Drop(w.c.out \o t, w.c.outOff) = h \o t
  BY <1>2, <1>3, <1>4, DropJoin
<1> HIDE DEF v, n, t, d, h
<1>6. (h \o t) \o d = h \o (t \o d)
  BY <1>3, <1>4, Joined
<1>7. /\ v.c.out = w.c.out \o t /\ v.c.outOff = w.c.outOff /\ v.c.in = w.c.in
      /\ v.c.inOff = w.c.inOff /\ v.c.respHdr = w.c.respHdr
      /\ v.c.respComplete = w.c.respComplete /\ v.c.resp = w.c.resp
      /\ v.c.respLeft = w.c.respLeft /\ v.c.state = w.c.state /\ v.c.req = w.c.req
  BY <1>1, <1>2 DEF Conns
<1>8. /\ v.net.cRecv = d /\ v.net.u = w.net.u /\ v.net.toUp = w.net.toUp
      /\ v.net.uRecv = w.net.uRecv /\ v.net.toCli = w.net.toCli
  BY <1>1, <1>2 DEF Nets
<1>9. Rest(v) = Rest(w)
  <2>1. Rest(v) = (h \o t) \o d
    BY <1>5, <1>7, <1>8 DEF Rest
  <2>2. Rest(w) = h \o w.net.cRecv
    BY DEF Rest, h
  <2> QED
    BY <1>4, <1>6, <2>1, <2>2
<1>10. Alike(v, w)
  BY <1>7, <1>8, <1>9 DEF Alike
<1> QED
  BY <1>7, <1>10 DEF v

LEMMA DropAll ==
  ASSUME NEW S, NEW s \in Seq(S) PROVE Drop(s, Len(s)) = <<>> /\ Drop(s, 0) = s
<1>1. Len(s) \in Nat
  BY LenProperties
<1>2. Drop(s, Len(s)) \in Seq(S) /\ Len(Drop(s, Len(s))) = Len(s) - Len(s)
  <2>1. Len(s) \in 0..Len(s)
    BY <1>1
  <2> QED
    BY <2>1, DropType
<1>3. Drop(s, 0) = s
  BY SubSeqFull DEF Drop
<1> HIDE DEF Drop
<1>4. Len(Drop(s, Len(s))) = 0
  BY <1>1, <1>2
<1> QED
  BY <1>2, <1>3, <1>4, EmptySeq

\* What a write to the upstream connection moves from the buffer to the socket.
LEMMA UpPiece ==
  ASSUME NEW w, Fits(w), Ends
  PROVE  LET v == WriteUpstream(w)
         IN  /\ \E t \in Seq(Toks) : /\ v.net.toUp = w.net.toUp \o t /\ Rest(w) = t \o Rest(v)
                                     /\ w.net.u # "up" => t = <<>>
             /\ v.c.in = w.c.in /\ v.c.inOff = w.c.inOff /\ v.c.respHdr = w.c.respHdr
             /\ v.c.respComplete = w.c.respComplete /\ v.c.resp = w.c.resp
             /\ v.c.respLeft = w.c.respLeft /\ v.c.state = w.c.state /\ v.c.req = w.c.req
             /\ v.net.cRecv = w.net.cRecv /\ v.net.u = w.net.u
             /\ v.net.uRecv = w.net.uRecv /\ v.net.toCli = w.net.toCli
<1> DEFINE v == WriteUpstream(w)
           off == w.c.outOff + UpWrite(w)
           end == off = Len(w.c.out)
           t == SubSeq(w.c.out, w.c.outOff + 1, off)
           h == Drop(w.c.out, off)
<1>1. /\ off \in w.c.outOff..Len(w.c.out)
      /\ v.net = [w.net EXCEPT !.toUp = @ \o t]
      /\ v.c = [w.c EXCEPT !.out = IF end THEN <<>> ELSE @, !.outOff = IF end THEN 0 ELSE off]
  BY WriteUpstreamFits, Zenon
<1>2. w.c \in Conns /\ w.net \in Nets /\ w.c.outOff \in 0..Len(w.c.out)
      /\ Len(w.c.out) \in Nat
  BY FitsParts
<1>3. w.c.out \in Seq(Toks) /\ w.net.cRecv \in Seq(Toks) /\ Rest(w) \in Seq(Toks)
  BY Streams
<1>4. t \in Seq(Toks) /\ t \o h = Drop(w.c.out, w.c.outOff)
  BY <1>1, <1>2, <1>3, PieceType, PieceDropIs
<1>5. h \in Seq(Toks)
  <2>1. off \in 0..Len(w.c.out)
    BY <1>1, <1>2
  <2> QED
    BY <1>3, <2>1, DropType
<1>6. w.net.u # "up" => t = <<>>
  <2>1. w.net.u # "up" => off = w.c.outOff
    BY <1>2 DEF UpWrite
  <2>2. t \in Seq(Toks) /\ Len(t) = off - w.c.outOff
    <3> DEFINE z == w.c.outOff
               o == w.c.out
    <3>1. o \in Seq(Toks) /\ z \in 0..Len(o) /\ off \in z..Len(o)
      BY <1>1, <1>2, <1>3
    <3> HIDE DEF z, o, off
    <3>2. SubSeq(o, z + 1, off) \in Seq(Toks) /\ Len(SubSeq(o, z + 1, off)) = off - z
      BY <3>1, PieceType
    <3> QED
      BY <3>2 DEF z, o
  <2> HIDE DEF t, off
  <2>3. w.net.u # "up" => Len(t) = 0
    BY <1>2, <2>1, <2>2
  <2> QED
    BY <2>2, <2>3, EmptySeq
<1>7. <<>> \in Seq(Toks) /\ Drop(<<>>, 0) = <<>>
  BY EmptySeq, DropAll
<1>8. end => h = <<>>
  BY <1>3, DropAll
<1> HIDE DEF v, t, h, off
<1>9. /\ v.c.in = w.c.in /\ v.c.inOff = w.c.inOff /\ v.c.respHdr = w.c.respHdr
      /\ v.c.respComplete = w.c.respComplete /\ v.c.resp = w.c.resp
      /\ v.c.respLeft = w.c.respLeft /\ v.c.state = w.c.state /\ v.c.req = w.c.req
      /\ v.c.out = (IF end THEN <<>> ELSE w.c.out) /\ v.c.outOff = (IF end THEN 0 ELSE off)
  BY <1>1, <1>2 DEF Conns
<1>10. /\ v.net.cRecv = w.net.cRecv /\ v.net.u = w.net.u /\ v.net.uRecv = w.net.uRecv
       /\ v.net.toCli = w.net.toCli /\ v.net.toUp = w.net.toUp \o t
  BY <1>1, <1>2 DEF Nets
<1>11. Drop(v.c.out, v.c.outOff) = h
  <2> HIDE DEF Drop
  <2>1. CASE end
    BY <1>7, <1>8, <1>9, <2>1
  <2>2. CASE ~end
    BY <1>9, <2>2 DEF h
  <2> QED
    BY <2>1, <2>2
<1>12. Rest(w) = t \o Rest(v)
  <2>1. (t \o h) \o w.net.cRecv = t \o (h \o w.net.cRecv)
    BY <1>3, <1>4, <1>5, Joined
  <2> QED
    BY <1>4, <1>10, <1>11, <2>1 DEF Rest
<1> QED
  BY <1>4, <1>6, <1>9, <1>10, <1>12, Zenon DEF v

\* What a write to the client moves: nothing of the stream.
LEMMA DownPiece ==
  ASSUME NEW w, Fits(w), Ends
  PROVE  LET v == WriteClient(w)
         IN  /\ Mine(v) = Mine(w)
             /\ w.c.in = <<>> => v.c.in = <<>> /\ v.c.inOff = 0 /\ v.net.toCli = w.net.toCli
             /\ v.c.out = w.c.out /\ v.c.outOff = w.c.outOff /\ v.c.respHdr = w.c.respHdr
             /\ v.c.respComplete = w.c.respComplete /\ v.c.resp = w.c.resp
             /\ v.c.respLeft = w.c.respLeft /\ v.c.state = w.c.state /\ v.c.req = w.c.req
             /\ v.net.cRecv = w.net.cRecv /\ v.net.u = w.net.u
             /\ v.net.uRecv = w.net.uRecv /\ v.net.toUp = w.net.toUp
<1> DEFINE v == WriteClient(w)
           off == w.c.inOff + CliWrite(w)
           end == off = Len(w.c.in)
           t == SubSeq(w.c.in, w.c.inOff + 1, off)
           h == Drop(w.c.in, off)
<1>1. /\ off \in w.c.inOff..Len(w.c.in)
      /\ v.net = [w.net EXCEPT !.toCli = @ \o t]
      /\ v.c = [w.c EXCEPT !.in = IF end THEN <<>> ELSE @, !.inOff = IF end THEN 0 ELSE off]
  BY WriteClientFits, Zenon
<1>2. w.c \in Conns /\ w.net \in Nets /\ w.c.inOff \in 0..Len(w.c.in)
      /\ Len(w.c.in) \in Nat
  BY FitsParts
<1>3. /\ w.c.in \in Seq(Toks) /\ w.net.toCli \in Seq(Toks) /\ cli.got \in Seq(Toks)
      /\ Down(w) \in Seq(Toks)
  BY Streams
<1>4. /\ t \in Seq(Toks) /\ Len(t) = off - w.c.inOff
      /\ t \o h = Drop(w.c.in, w.c.inOff)
  <2>1. t \in Seq(Toks) /\ Len(t) = off - w.c.inOff
    <3> DEFINE z == w.c.inOff
               o == w.c.in
    <3>1. o \in Seq(Toks) /\ z \in 0..Len(o) /\ off \in z..Len(o)
      BY <1>1, <1>2, <1>3
    <3> HIDE DEF z, o, off
    <3>2. SubSeq(o, z + 1, off) \in Seq(Toks) /\ Len(SubSeq(o, z + 1, off)) = off - z
      BY <3>1, PieceType
    <3> QED
      BY <3>2 DEF z, o
  <2>2. t \o h = Drop(w.c.in, w.c.inOff)
    BY <1>1, <1>2, <1>3, PieceDropIs
  <2> QED
    BY <2>1, <2>2
<1>5. h \in Seq(Toks)
  <2>1. off \in 0..Len(w.c.in)
    BY <1>1, <1>2
  <2> QED
    BY <1>3, <2>1, DropType
<1>6. w.c.in = <<>> => end /\ t = <<>>
  <2> HIDE DEF t, off
  <2>1. w.c.in = <<>> => Len(w.c.in) = 0
    BY EmptySeq
  <2>2. w.c.in = <<>> => off = 0 /\ w.c.inOff = 0
    BY <1>1, <1>2, <2>1
  <2>3. w.c.in = <<>> => Len(t) = 0
    BY <1>4, <2>2
  <2> QED
    BY <1>4, <2>1, <2>2, <2>3, EmptySeq
<1>7. <<>> \in Seq(Toks) /\ Drop(<<>>, 0) = <<>>
  BY EmptySeq, DropAll
<1>8. end => h = <<>>
  BY <1>3, DropAll
<1> HIDE DEF v, t, h, off
<1>9. /\ v.c.out = w.c.out /\ v.c.outOff = w.c.outOff /\ v.c.respHdr = w.c.respHdr
      /\ v.c.respComplete = w.c.respComplete /\ v.c.resp = w.c.resp
      /\ v.c.respLeft = w.c.respLeft /\ v.c.state = w.c.state /\ v.c.req = w.c.req
      /\ v.c.in = (IF end THEN <<>> ELSE w.c.in) /\ v.c.inOff = (IF end THEN 0 ELSE off)
  BY <1>1, <1>2 DEF Conns
<1>10. /\ v.net.cRecv = w.net.cRecv /\ v.net.u = w.net.u /\ v.net.uRecv = w.net.uRecv
       /\ v.net.toUp = w.net.toUp /\ v.net.toCli = w.net.toCli \o t
  BY <1>1, <1>2 DEF Nets
<1>11. Drop(v.c.in, v.c.inOff) = h
  <2> HIDE DEF Drop
  <2>1. CASE end
    BY <1>7, <1>8, <1>9, <2>1
  <2>2. CASE ~end
    BY <1>9, <2>2 DEF h
  <2> QED
    BY <2>1, <2>2
<1>12. Mine(v) = Mine(w)
  <2>1. Down(v) = Down(w) \o t
    <3>1. cli.got \o (w.net.toCli \o t) = (cli.got \o w.net.toCli) \o t
      BY <1>3, <1>4, Joined, Zenon
    <3> QED
      BY <1>10, <3>1 DEF Down
  <2>2. (Down(w) \o t) \o h = Down(w) \o (t \o h)
    BY <1>3, <1>4, <1>5, Joined, Zenon
  <2> QED
    BY <1>4, <1>11, <2>1, <2>2 DEF Mine
<1>13. w.c.in = <<>> => v.c.in = <<>> /\ v.c.inOff = 0 /\ v.net.toCli = w.net.toCli
  BY <1>3, <1>6, <1>9, <1>10, Nothing
<1> QED
  BY <1>9, <1>10, <1>12, <1>13 DEF v

----------------------------------------------------------------------------
(* The relay step.                                                         *)

LEMMA HasJoin ==
  ASSUME NEW s \in Seq(Toks), NEW t \in Seq(Toks), NEW x, Has(s \o t, x)
  PROVE  Has(s, x) \/ Has(t, x)
<1>1. /\ Len(s) \in Nat /\ Len(t) \in Nat /\ Len(s \o t) = Len(s) + Len(t)
      /\ \A y \in 1..Len(s) : (s \o t)[y] = s[y]
      /\ \A y \in 1..Len(t) : (s \o t)[Len(s) + y] = t[y]
      /\ \A y \in 1..Len(s \o t) : y \in 1..Len(s) \/ y - Len(s) \in 1..Len(t)
  BY JoinParts
<1>2. PICK y \in 1..Len(s \o t) : (s \o t)[y] = x
  BY DEF Has
<1>3. CASE y \in 1..Len(s)
  <2>1. s[y] = x
    BY <1>1, <1>2, <1>3
  <2> QED
    BY <1>3, <2>1 DEF Has
<1>4. CASE y - Len(s) \in 1..Len(t)
  <2>1. Len(s) + (y - Len(s)) = y
    BY <1>1, <1>2
  <2>2. t[y - Len(s)] = x
    BY <1>1, <1>2, <1>4, <2>1
  <2> QED
    BY <1>4, <2>2 DEF Has
<1> QED
  BY <1>1, <1>3, <1>4

LEMMA JoinHas ==
  ASSUME NEW s \in Seq(Toks), NEW t \in Seq(Toks), NEW x, Has(s, x) \/ Has(t, x)
  PROVE  Has(s \o t, x)
<1>1. /\ \A y \in 1..Len(s) : y \in 1..Len(s \o t) /\ (s \o t)[y] = s[y]
      /\ \A y \in 1..Len(t) : Len(s) + y \in 1..Len(s \o t) /\ (s \o t)[Len(s) + y] = t[y]
  BY JoinParts
<1>2. CASE Has(s, x)
  BY <1>1, <1>2 DEF Has
<1>3. CASE Has(t, x)
  BY <1>1, <1>3 DEF Has
<1> QED
  BY <1>2, <1>3

LEMMA SegHas ==
  ASSUME NEW i \in Int, NEW a \in Int, NEW n \in Nat, NEW x, Has(Segment(i, a, n), x)
  PROVE  x \in Toks /\ x[1] = i /\ a < x[2] /\ x[2] <= a + n
<1>1. /\ Len(Segment(i, a, n)) = n
      /\ \A y \in 1..n : Segment(i, a, n)[y] = <<i, a + y>>
  BY SegType
<1>2. PICK y \in 1..n : x = <<i, a + y>>
  BY <1>1 DEF Has
<1> QED
  BY <1>2 DEF Toks

LEMMA SidesAre ==
  ASSUME script \in Scripts, Ends, Sides
  PROVE  /\ Growth \in 0..1 /\ Sized(Reqs) /\ Sized(Resps)
         /\ Len(Reqs) \in Nat /\ Len(Resps) \in Nat
         /\ cli.msg \in 0..Len(Reqs) /\ srv.msg \in 0..Len(Resps)
         /\ cli.pos \in Nat /\ srv.pos \in Nat
         /\ cli.msg # 0 => /\ cli.msg \in 1..Len(Reqs) /\ cli.pos \in 1..Total(Reqs[cli.msg])
                           /\ Total(Reqs[cli.msg]) \in Nat
         /\ srv.msg # 0 => /\ srv.msg \in 1..Len(Resps) /\ srv.pos \in 1..Total(Resps[srv.msg])
                           /\ Total(Resps[srv.msg]) \in Nat
<1>1. Growth \in 0..1 /\ Sized(Reqs) /\ Sized(Resps)
  BY Sizes, ScriptSized
<1>2. cli.msg \in 0..Len(Reqs) /\ srv.msg \in 0..Len(Resps) /\ cli.pos \in Nat /\ srv.pos \in Nat
  BY DEF Ends, Clients, Servers
<1>3. Len(Reqs) \in Nat /\ Len(Resps) \in Nat
  BY <1>1 DEF Sized
<1>4. cli.msg # 0 => cli.msg \in 1..Len(Reqs)
  BY <1>2, <1>3
<1>5. srv.msg # 0 => srv.msg \in 1..Len(Resps)
  BY <1>2, <1>3
<1> QED
  BY <1>1, <1>2, <1>3, <1>4, <1>5 DEF Sides, Sized

LEMMA WriteUpFlow ==
  ASSUME NEW w, Fits(w), Ends, Sides, w.c.state = "PROXYING", Flow(w)
  PROVE  Flow(WriteUpstream(w))
<1> DEFINE v == WriteUpstream(w)
           i == cli.msg
           b == 1 - Growth
<1>1. Relayed(w) /\ Links(w) /\ Chained(Resps, 1, Mine(w))
  BY DEF Flow
<1>2. PICK t \in Seq(Toks) : /\ v.net.toUp = w.net.toUp \o t /\ Rest(w) = t \o Rest(v)
                             /\ w.net.u # "up" => t = <<>>
  BY UpPiece
<1>3. /\ v.c.in = w.c.in /\ v.c.inOff = w.c.inOff /\ v.c.respHdr = w.c.respHdr
      /\ v.c.respComplete = w.c.respComplete /\ v.c.resp = w.c.resp
      /\ v.c.respLeft = w.c.respLeft /\ v.c.state = w.c.state /\ v.c.req = w.c.req
      /\ v.net.cRecv = w.net.cRecv /\ v.net.u = w.net.u
      /\ v.net.uRecv = w.net.uRecv /\ v.net.toCli = w.net.toCli
  BY UpPiece
<1>4. Rest(v) \in Seq(Toks) /\ UpS(v) \in Seq(Toks)
  <2>1. Fits(v)
    BY WriteUpstreamFits, Zenon
  <2> QED
    BY <2>1, Streams
<1> HIDE DEF v
<1>5. /\ srv.got \in Seq(Toks) /\ w.net.toUp \in Seq(Toks) /\ UpS(w) \in Seq(Toks)
      /\ script \in Scripts
  BY Streams DEF Fits
<1>6. i \in 1..Len(Reqs) /\ i \in Int /\ cli.pos \in 1..Total(Reqs[i]) /\ Total(Reqs[i]) \in Nat
      /\ Growth \in 0..1 /\ Sized(Reqs)
  BY <1>1, <1>5, SidesAre DEF Relayed
<1>7. PICK q \in (0 - Growth)..cli.pos : AskedTo(w, q)
  BY <1>1 DEF Relayed
<1>8. q \in Int /\ cli.pos - q \in Nat /\ Rest(w) = Segment(i, q, cli.pos - q)
  BY <1>6, <1>7 DEF AskedTo
<1> DEFINE n == Len(t)
<1>9. /\ n \in 0..(cli.pos - q) /\ t = Segment(i, q, n)
      /\ Rest(v) = Segment(i, q + n, (cli.pos - q) - n)
  <2>1. t \o Rest(v) = Segment(i, q, cli.pos - q)
    BY <1>2, <1>8
  <2>2. /\ i \in Int /\ q \in Int /\ cli.pos - q \in Nat /\ Rest(v) \in Seq(Toks)
        /\ t \in Seq(Toks)
    BY <1>2, <1>4, <1>6, <1>8
  <2> DEFINE m == cli.pos - q
             r == Rest(v)
  <2>3. t \o r = Segment(i, q, m) /\ m \in Nat /\ r \in Seq(Toks)
    BY <2>1, <2>2
  <2> HIDE DEF i, m, r
  <2>4. Cut(i, q, m, t, r)
    BY <2>2, <2>3, SegSplit
  <2> QED
    BY <2>4 DEF Cut, m, r
<1>10. n \in Nat /\ (n = 0 <=> t = <<>>)
  BY <1>2, LenProperties, EmptySeq
<1> HIDE DEF n, i
<1>11. UpS(v) = UpS(w) \o t
  <2>1. CASE w.net.u = "up"
    <3>1. UpS(w) = srv.got \o w.net.toUp /\ UpS(v) = srv.got \o (w.net.toUp \o t)
      BY <1>2, <1>3, <2>1 DEF UpS
    <3>2. srv.got \o (w.net.toUp \o t) = (srv.got \o w.net.toUp) \o t
      BY <1>2, <1>5, Joined
    <3> QED
      BY <3>1, <3>2
  <2>2. CASE w.net.u # "up"
    <3>1. UpS(w) = <<>> /\ UpS(v) = <<>> /\ t = <<>>
      BY <1>2, <1>3, <2>2 DEF UpS
    <3> QED
      BY <1>5, <3>1, Nothing
  <2> QED
    BY <2>1, <2>2
<1>12. Chained(Reqs, b, UpS(v))
  <2>1. Chained(Reqs, b, UpS(w))
    BY <1>1, ChainEmpty DEF Links, UpS
  <2>2. Fitting(Reqs, b, UpS(w), i, q)
    BY <1>6, <1>7 DEF Fitting, AskedTo, Asking, i
  <2>3. b \in Int /\ q >= b - 1 /\ q + n <= Total(Reqs[i])
    BY <1>6, <1>7, <1>8, <1>9
  <2>4. Sized(Reqs) /\ UpS(w) \in Seq(Toks) /\ i \in 1..Len(Reqs) /\ q \in Int /\ n \in Nat
    BY <1>5, <1>6, <1>8, <1>10
  <2> HIDE DEF b
  <2>5. Chained(Reqs, b, UpS(w) \o Segment(i, q, n))
    BY <2>1, <2>2, <2>3, <2>4, ChainAppend
  <2> QED
    BY <1>9, <1>11, <2>5
<1>13. Links(v)
  <2>1. CASE w.net.u = "up"
    BY <1>3, <1>12, <2>1 DEF Links, UpS
  <2>2. CASE w.net.u # "up"
    <3>1. v.net.toUp = <<>> /\ v.net.uRecv = <<>>
      BY <1>1, <1>2, <1>3, <1>5, <2>2, Nothing DEF Links
    <3> QED
      BY <1>1, <3>1, LinksCut
  <2> QED
    BY <2>1, <2>2
<1>14. \E p \in (0 - Growth)..cli.pos : AskedTo(v, p)
  <2>1. CASE n = 0
    <3>1. UpS(v) = UpS(w)
      BY <1>5, <1>10, <1>11, <2>1, Nothing
    <3>2. q + n = q /\ (cli.pos - q) - n = cli.pos - q
      BY <1>8, <2>1
    <3>3. AskedTo(v, q)
      BY <1>7, <1>9, <3>1, <3>2 DEF AskedTo, i
    <3> QED
      BY <1>7, <3>3
  <2>2. CASE n # 0
    <3>1. UpS(v) # <<>> /\ End(UpS(v)) = End(t)
      BY <1>2, <1>5, <1>10, <1>11, <2>2, EndJoin
    <3>2. End(t) = <<i, q + n>>
      BY <1>6, <1>8, <1>9, <1>10, <2>2, SegType
    <3>3. /\ q + n \in (0 - Growth)..cli.pos /\ q + n # 0 - Growth
          /\ (cli.pos - q) - n = cli.pos - (q + n)
      BY <1>6, <1>7, <1>8, <1>9, <2>2
    <3>4. AskedTo(v, q + n)
      BY <1>9, <3>1, <3>2, <3>3 DEF AskedTo, i
    <3> QED
      BY <3>3, <3>4
  <2> QED
    BY <2>1, <2>2
<1>15. Unanswered(v, i)
  <2>1. SUFFICES ASSUME NEW k \in (srv.msg + 1)..Len(Resps), Resps[k].answers \in 1..Len(Reqs),
                        Has(UpS(v), <<Resps[k].answers, Total(Reqs[Resps[k].answers])>>)
                 PROVE  Resps[k].answers = i
    BY DEF Unanswered
  <2>2. CASE Has(UpS(w), <<Resps[k].answers, Total(Reqs[Resps[k].answers])>>)
    BY <1>1, <2>1, <2>2 DEF Relayed, Unanswered, i
  <2>3. CASE Has(t, <<Resps[k].answers, Total(Reqs[Resps[k].answers])>>)
    <3>1. i \in Int /\ q \in Int /\ n \in Nat
      BY <1>6, <1>8, <1>10
    <3>2. Has(Segment(i, q, n), <<Resps[k].answers, Total(Reqs[Resps[k].answers])>>)
      BY <1>9, <2>3
    <3>3. <<Resps[k].answers, Total(Reqs[Resps[k].answers])>>[1] = i
      BY <3>1, <3>2, SegHas
    <3> QED
      BY <3>3
  <2> QED
    BY <1>2, <1>5, <1>11, <2>1, <2>2, <2>3, HasJoin
<1>16. Mine(v) = Mine(w) /\ Down(v) = Down(w)
  BY <1>3 DEF Mine, Down
<1>17. Waiting(v) = Waiting(w)
  BY <1>3, <1>16 DEF Waiting, NoResp
<1>18. \A p : AnsweredTo(w, p) => AnsweredTo(v, p)
  BY <1>3, <1>16, <1>17 DEF AnsweredTo
<1>19. Silent(w, i) => Silent(v, i)
  BY <1>3 DEF Silent
<1>20. Relayed(v)
  BY <1>1, <1>3, <1>14, <1>15, <1>17, <1>18, <1>19 DEF Relayed, i
<1>21. Flow(v)
  BY <1>1, <1>3, <1>13, <1>16, <1>20 DEF Flow
<1> QED
  BY <1>21 DEF v

LEMMA WriteDownFlow ==
  ASSUME NEW w, Fits(w), Ends, w.c.state = "PROXYING", Flow(w)
  PROVE  Flow(WriteClient(w))
<1> DEFINE v == WriteClient(w)
<1>1. /\ Mine(v) = Mine(w)
      /\ w.c.in = <<>> => v.c.in = <<>> /\ v.c.inOff = 0 /\ v.net.toCli = w.net.toCli
      /\ v.c.out = w.c.out /\ v.c.outOff = w.c.outOff /\ v.c.respHdr = w.c.respHdr
      /\ v.c.respComplete = w.c.respComplete /\ v.c.resp = w.c.resp
      /\ v.c.respLeft = w.c.respLeft /\ v.c.state = w.c.state /\ v.c.req = w.c.req
      /\ v.net.cRecv = w.net.cRecv /\ v.net.u = w.net.u
      /\ v.net.uRecv = w.net.uRecv /\ v.net.toUp = w.net.toUp
  BY DownPiece
<1> HIDE DEF v
<1>2. Rest(v) = Rest(w) /\ UpS(v) = UpS(w)
  BY <1>1 DEF Rest, UpS
<1>3. Waiting(w) => Waiting(v)
  BY <1>1 DEF Waiting, NoResp, Down
<1>4. /\ \A i : Silent(w, i) => Silent(v, i)
      /\ \A i : Unanswered(w, i) => Unanswered(v, i)
      /\ \A q : AskedTo(w, q) => AskedTo(v, q)
  BY <1>1, <1>2 DEF Silent, Unanswered, AskedTo
<1>5. \A p : AnsweredTo(w, p) => AnsweredTo(v, p)
  BY <1>1, <1>3 DEF AnsweredTo
<1>6. Relayed(v)
  BY <1>1, <1>3, <1>4, <1>5 DEF Relayed, Flow
<1>7. Links(v) /\ Chained(Resps, 1, Mine(v))
  BY <1>1 DEF Links, Flow
<1>8. Flow(v)
  BY <1>1, <1>6, <1>7 DEF Flow
<1> QED
  BY <1>8 DEF v

LEMMA SettledFlow ==
  ASSUME NEW w, Fits(w), Ends, Sides, w.c.state = "PROXYING", Flow(w)
  PROVE  Flow(Settled(w))
<1> DEFINE a == WriteUpstream(w)
           v == Moved(w)
           d == Settled(w)
<1>1. Fits(a) /\ a.c.state = "PROXYING" /\ Flow(a)
  BY WriteUpstreamFits, UpPiece, WriteUpFlow, Zenon
<1>2. v = WriteClient(a)
  BY DEF Moved
<1> HIDE DEF a, v
<1>3. Fits(v) /\ v.c.state = "PROXYING" /\ Flow(v)
  BY <1>1, <1>2, WriteClientFits, DownPiece, WriteDownFlow, Zenon
<1>4. /\ d.c.state = w.c.state
      /\ d.c.in = v.c.in /\ d.c.inOff = v.c.inOff /\ d.c.resp = v.c.resp
      /\ d.c.respHdr = v.c.respHdr
      /\ d.c.respComplete = (v.c.respComplete \/ (v.c.upEof /\ v.c.respHdr
                               /\ Resps[v.c.resp].mode = "UNTIL_CLOSE"))
      /\ d.net.toCli = v.net.toCli /\ d.net.uRecv = v.net.uRecv /\ d.net.u = v.net.u
      /\ d.c.out = v.c.out /\ d.c.outOff = v.c.outOff /\ d.c.req = v.c.req
      /\ d.c.respLeft = v.c.respLeft /\ d.net.cRecv = v.net.cRecv /\ d.net.toUp = v.net.toUp
  BY SettledFits DEF v
<1> HIDE DEF d
<1>5. Rest(d) = Rest(v) /\ UpS(d) = UpS(v) /\ Mine(d) = Mine(v) /\ Down(d) = Down(v)
  BY <1>4 DEF Rest, UpS, Mine, Down
<1>6. Waiting(v) => Waiting(d)
  <2>1. v.c \in Conns
    BY <1>3, FitsParts
  <2> QED
    BY <1>4, <1>5, <2>1 DEF Waiting, NoResp, Conns
<1>7. /\ \A i : Silent(v, i) => Silent(d, i)
      /\ \A i : Unanswered(v, i) => Unanswered(d, i)
      /\ \A q : AskedTo(v, q) => AskedTo(d, q)
  BY <1>4, <1>5 DEF Silent, Unanswered, AskedTo
<1>8. ASSUME NEW p, AnsweredTo(v, p) PROVE AnsweredTo(d, p)
  <2>1. CASE p = 0
    BY <1>4, <1>6, <1>8, <2>1 DEF AnsweredTo
  <2>2. CASE p # 0
    <3>1. /\ p \in 0..srv.pos /\ v.net.uRecv = Segment(srv.msg, p, srv.pos - p)
          /\ v.c.respHdr /\ v.c.resp = srv.msg
          /\ Mine(v) # <<>> /\ End(Mine(v)) = <<srv.msg, p>>
      BY <1>8, <2>2 DEF AnsweredTo
    <3>2. Resps[srv.msg].mode = "NONE" => v.c.respComplete
      BY <1>8, <2>2 DEF AnsweredTo
    <3>3. Resps[srv.msg].mode \in {"LENGTH", "CHUNKED"} =>
             v.c.respLeft = Total(Resps[srv.msg]) - p /\ v.c.respComplete = (v.c.respLeft = 0)
      BY <1>8, <2>2 DEF AnsweredTo
    <3>4. Resps[srv.msg].mode = "NONE" => d.c.respComplete
      BY <1>4, <3>2
    <3>5. Resps[srv.msg].mode \in {"LENGTH", "CHUNKED"} =>
             d.c.respLeft = Total(Resps[srv.msg]) - p /\ d.c.respComplete = (d.c.respLeft = 0)
      <4> SUFFICES ASSUME Resps[srv.msg].mode \in {"LENGTH", "CHUNKED"}
                   PROVE  d.c.respLeft = Total(Resps[srv.msg]) - p
                          /\ d.c.respComplete = (d.c.respLeft = 0)
        OBVIOUS
      <4>1. ~(Resps[v.c.resp].mode = "UNTIL_CLOSE")
        BY <3>1
      <4>2. d.c.respComplete = (v.c.respComplete \/ FALSE)
        BY <1>4, <4>1
      <4>3. v.c.respComplete = (v.c.respLeft = 0)
        BY <3>3
      <4>4. d.c.respComplete = (v.c.respLeft = 0)
        BY <4>2, <4>3
      <4> QED
        BY <1>4, <3>3, <4>4
    <3> QED
      BY <1>4, <1>5, <2>2, <3>1, <3>4, <3>5 DEF AnsweredTo
  <2> QED
    BY <2>1, <2>2
<1>9. Relayed(d)
  BY <1>3, <1>4, <1>6, <1>7, <1>8 DEF Relayed, Flow
<1>10. Links(d) /\ Chained(Resps, 1, Mine(d))
  BY <1>3, <1>4, <1>5 DEF Links, Flow
<1>11. Flow(d)
  BY <1>4, <1>9, <1>10 DEF Flow
<1> QED
  BY <1>11 DEF d

----------------------------------------------------------------------------
(* The relay step: the end of a response.                                  *)

\* What Mannered says of the script of this behaviour.
Polite ==
  /\ ~May("pipelining") /\ ~May("earlyAnswer")
  /\ \A i \in 1..Len(Reqs) : Reqs[i].mode = "NONE" => Reqs[i].body = 0
  /\ \A k \in 1..Len(Resps) :
       /\ Resps[k].hdr = 1
       /\ Resps[k].mode = "NONE" => Resps[k].body = 0
       /\ Resps[k].mode = "UNTIL_CLOSE" => ~Resps[k].keep /\ Resps[k].answers = Len(Reqs)
       /\ \A l \in 1..Len(Resps) : k < l => Resps[k].answers < Resps[l].answers

LEMMA Manners == ASSUME Mannered, script \in Scripts PROVE Polite
BY DEF Mannered, Polite, May, Reqs, Resps

LEMMA NotBefore ==
  ASSUME NEW i \in Int, NEW a \in Int PROVE ~Before(<<i, a>>, <<i, a>>)
BY DEF Before

\* When the response is complete and passed on, it has come to its last token.
LEMMA WholeAnswer ==
  ASSUME NEW d, Fits(d), Ends, Sides, Polite, Relayed(d), d.c.respComplete,
         Resps[d.c.resp].mode # "UNTIL_CLOSE"
  PROVE  /\ srv.msg \in 1..Len(Resps) /\ d.net.u = "up" /\ Resps[srv.msg].answers = cli.msg
         /\ srv.pos = Total(Resps[srv.msg]) /\ d.net.uRecv = <<>>
         /\ Mine(d) # <<>> /\ End(Mine(d)) = <<srv.msg, Total(Resps[srv.msg])>>
         /\ Has(srv.got, <<cli.msg, Total(Reqs[cli.msg])>>)
<1>1. ~Waiting(d)
  BY DEF Waiting, NoResp
<1>2. /\ d.net.u = "up" /\ srv.msg # 0 /\ Resps[srv.msg].answers = cli.msg
      /\ Has(srv.got, <<cli.msg, Total(Reqs[cli.msg])>>)
      /\ \E p \in 0..srv.pos : AnsweredTo(d, p)
  BY <1>1 DEF Relayed
<1>3. PICK p \in 0..srv.pos : AnsweredTo(d, p)
  BY <1>2
<1>4. /\ p # 0 /\ d.net.uRecv = Segment(srv.msg, p, srv.pos - p) /\ d.c.resp = srv.msg
      /\ Mine(d) # <<>> /\ End(Mine(d)) = <<srv.msg, p>>
      /\ Resps[srv.msg].mode \in {"LENGTH", "CHUNKED"} =>
           d.c.respLeft = Total(Resps[srv.msg]) - p /\ d.c.respComplete = (d.c.respLeft = 0)
  BY <1>1, <1>3 DEF AnsweredTo
<1>5. script \in Scripts
  BY DEF Fits
<1>6. /\ srv.msg \in 1..Len(Resps) /\ srv.pos \in 1..Total(Resps[srv.msg])
      /\ Total(Resps[srv.msg]) \in Nat
  BY <1>2, <1>5, SidesAre
<1>7. Resps[srv.msg].mode \in {"NONE", "LENGTH", "CHUNKED"}
  <2>1. Resps[srv.msg] \in Response
    BY <1>5, <1>6, RespType
  <2> QED
    BY <1>4, <2>1 DEF Response, Modes
<1>8. p = Total(Resps[srv.msg])
  <2>1. CASE Resps[srv.msg].mode = "NONE"
    <3>1. Total(Resps[srv.msg]) = 1
      BY <1>6, <2>1 DEF Polite, Total
    <3> QED
      BY <1>3, <1>4, <1>6, <3>1
  <2>2. CASE Resps[srv.msg].mode \in {"LENGTH", "CHUNKED"}
    <3>1. d.c.respLeft = Total(Resps[srv.msg]) - p /\ d.c.respLeft = 0
      BY <1>4, <2>2
    <3> QED
      BY <1>3, <1>6, <3>1
  <2> QED
    BY <1>7, <2>1, <2>2
<1>9. srv.pos = p
  BY <1>3, <1>6, <1>8
<1>10. d.net.uRecv = <<>>
  <2>1. srv.msg \in Int /\ p \in Int /\ srv.pos - p = 0
    BY <1>6, <1>9
  <2>2. Segment(srv.msg, p, 0) = <<>>
    BY <2>1, SegType
  <2> QED
    BY <1>4, <2>1, <2>2
<1> QED
  BY <1>2, <1>4, <1>6, <1>8, <1>9, <1>10

\* And then the request has been written to its last token.
LEMMA WholeRequest ==
  ASSUME NEW d, Fits(d), Ends, Sides, Links(d), Relayed(d), d.net.u = "up",
         Has(srv.got, <<cli.msg, Total(Reqs[cli.msg])>>)
  PROVE  /\ cli.msg \in 1..Len(Reqs) /\ cli.pos = Total(Reqs[cli.msg])
         /\ Rest(d) = <<>> /\ d.net.toUp = <<>>
         /\ UpS(d) # <<>> /\ End(UpS(d)) = <<cli.msg, cli.pos>>
<1> DEFINE i == cli.msg
           n == Total(Reqs[i])
<1>1. /\ i \in 1..Len(Reqs) /\ i \in Int /\ cli.pos \in 1..n /\ n \in Nat /\ Growth \in 0..1
      /\ script \in Scripts
  <2>1. script \in Scripts
    BY DEF Fits
  <2> QED
    BY <2>1, SidesAre DEF Relayed
<1>2. /\ srv.got \in Seq(Toks) /\ d.net.toUp \in Seq(Toks) /\ UpS(d) \in Seq(Toks)
      /\ UpS(d) = srv.got \o d.net.toUp /\ Chained(Reqs, 1 - Growth, srv.got \o d.net.toUp)
  BY Streams DEF UpS, Links
<1>3. Has(UpS(d), <<i, n>>)
  BY <1>2, JoinHas
<1>4. UpS(d) # <<>> /\ (<<i, n>> = End(UpS(d)) \/ Before(<<i, n>>, End(UpS(d))))
  BY <1>2, <1>3, ChainUpTo
<1>5. PICK q \in (0 - Growth)..cli.pos : AskedTo(d, q)
  BY DEF Relayed
<1> HIDE DEF n, i
<1>6. q # 0 - Growth
  <2> SUFFICES ASSUME q = 0 - Growth PROVE FALSE
    OBVIOUS
  <2>1. PICK j \in 1..(i - 1) : End(UpS(d)) = <<j, Total(Reqs[j])>>
    BY <1>4, <1>5 DEF AskedTo, Asking, i
  <2>2. j < i
    BY <1>1
  <2>3. j \in Int
    BY <1>1, <2>1
  <2> QED
    BY <1>1, <1>4, <2>1, <2>2, <2>3 DEF Before
<1>7. End(UpS(d)) = <<i, q>> /\ Rest(d) = Segment(i, q, cli.pos - q)
  BY <1>5, <1>6 DEF AskedTo, i
<1>8. q = n /\ cli.pos = n
  <2>1. n <= q
    BY <1>1, <1>4, <1>5, <1>7 DEF Before
  <2> QED
    BY <1>1, <1>5, <2>1
<1>9. Rest(d) = <<>>
  <2>1. i \in Int /\ q \in Int /\ cli.pos - q = 0
    BY <1>1, <1>5, <1>8
  <2>2. Segment(i, q, 0) = <<>>
    BY <2>1, SegType
  <2> QED
    BY <1>7, <2>1, <2>2
<1>10. d.net.toUp = <<>>
  <2> SUFFICES ASSUME d.net.toUp # <<>> PROVE FALSE
    OBVIOUS
  <2>1. End(UpS(d)) = End(d.net.toUp)
    BY <1>2, EndJoin
  <2>2. Before(<<i, n>>, End(d.net.toUp))
    BY <1>2, ChainApart DEF i, n
  <2>3. Before(<<i, n>>, <<i, n>>)
    BY <1>7, <1>8, <2>1, <2>2
  <2> QED
    BY <1>1, <2>3, NotBefore
<1> QED
  BY <1>1, <1>4, <1>7, <1>8, <1>9, <1>10 DEF i, n

LEMMA NothingPending ==
  ASSUME NEW d, Fits(d), Ends, ~InPending(d) PROVE Mine(d) = Down(d)
<1>1. d.c.inOff \in 0..Len(d.c.in) /\ Len(d.c.in) \in Nat
  BY FitsParts
<1>2. d.c.inOff = Len(d.c.in)
  BY <1>1 DEF InPending
<1>3. Drop(d.c.in, d.c.inOff) = <<>>
  BY <1>2, Streams, DropAll
<1> QED
  BY <1>3, Streams, Nothing DEF Mine

LEMMA DownPrefix ==
  ASSUME NEW w, Fits(w), Ends, Chained(Resps, 1, Mine(w)) PROVE Chained(Resps, 1, Down(w))
BY Streams, ChainPrefix DEF Mine

LEMMA FinishFlow ==
  ASSUME NEW d, Fits(d), Ends, Sides, Polite, d.c.state = "PROXYING", Flow(d),
         d.c.respComplete, ~InPending(d)
  PROVE  Flow(FinishResponse(d)) /\ Shown(FinishResponse(d))
<1>1. Relayed(d) /\ Links(d) /\ Chained(Resps, 1, Mine(d)) /\ script \in Scripts
  BY DEF Flow, Fits
<1>2. Chained(Resps, 1, Down(d)) /\ Mine(d) = Down(d)
  BY <1>1, DownPrefix, NothingPending
<1>3. CASE ~d.c.keep \/ ~Resps[d.c.resp].keep
  BY <1>1, <1>2, <1>3, CloseFlow DEF FinishResponse
<1>4. CASE d.c.keep /\ Resps[d.c.resp].keep
  <2> DEFINE v == StartNextRequest(d)
             i == cli.msg
  <2>1. FinishResponse(d) = v
    BY <1>4 DEF FinishResponse
  <2>2. Resps[d.c.resp].mode # "UNTIL_CLOSE"
    <3> SUFFICES ASSUME Resps[d.c.resp].mode = "UNTIL_CLOSE" PROVE FALSE
      OBVIOUS
    <3>1. ~Waiting(d)
      BY DEF Waiting, NoResp
    <3>2. PICK p \in 0..srv.pos : AnsweredTo(d, p)
      BY <1>1, <3>1 DEF Relayed
    <3>3. d.c.resp = srv.msg /\ srv.msg # 0
      BY <1>1, <3>1, <3>2 DEF AnsweredTo, Relayed
    <3>4. srv.msg \in 1..Len(Resps)
      BY <1>1, <3>3, SidesAre
    <3>5. ~Resps[srv.msg].keep
      BY <3>3, <3>4 DEF Polite
    <3> QED
      BY <1>4, <3>3, <3>5
  <2>3. /\ srv.msg \in 1..Len(Resps) /\ d.net.u = "up" /\ Resps[srv.msg].answers = i
        /\ srv.pos = Total(Resps[srv.msg]) /\ d.net.uRecv = <<>>
        /\ Mine(d) # <<>> /\ End(Mine(d)) = <<srv.msg, Total(Resps[srv.msg])>>
        /\ Has(srv.got, <<i, Total(Reqs[i])>>)
    BY <1>1, <2>2, WholeAnswer
  <2>4. /\ i \in 1..Len(Reqs) /\ cli.pos = Total(Reqs[i])
        /\ Rest(d) = <<>> /\ d.net.toUp = <<>>
        /\ UpS(d) # <<>> /\ End(UpS(d)) = <<i, cli.pos>>
    BY <1>1, <2>3, WholeRequest
  <2>5. d.net.cRecv = <<>>
    BY <2>4, Streams, ConcatEqualIffEmpty DEF Rest
  <2>6. /\ v.c.state = "READING" /\ v.c.in = <<>> /\ v.c.inOff = 0 /\ v.c.out = <<>>
        /\ v.c.outOff = 0 /\ v.c.respHdr = FALSE /\ v.c.respComplete = FALSE
        /\ v.net = IF Reuse(d) THEN d.net ELSE Dropped(d.net)
    BY StartNextFits DEF Shape
  <2>7. /\ Dropped(d.net).u = "none" /\ Dropped(d.net).toUp = <<>> /\ Dropped(d.net).uRecv = <<>>
        /\ Dropped(d.net).cRecv = d.net.cRecv /\ Dropped(d.net).toCli = d.net.toCli
    BY <1>1, DroppedIs
  <2> HIDE DEF v, i
  <2>8. /\ v.net.u \in {"none", "up"} /\ v.net.toUp = <<>> /\ v.net.uRecv = <<>>
        /\ v.net.cRecv = <<>> /\ v.net.toCli = d.net.toCli
        /\ UpS(v) \in {<<>>, UpS(d)}
    <3>1. CASE Reuse(d)
      BY <2>3, <2>4, <2>5, <2>6, <3>1 DEF UpS
    <3>2. CASE ~Reuse(d)
      BY <2>5, <2>6, <2>7, <3>2 DEF UpS
    <3> QED
      BY <3>1, <3>2
  <2>9. Down(v) = Down(d) /\ Rest(v) = <<>> /\ Mine(v) = Down(v)
    <3>1. <<>> \in Seq(Toks) /\ Drop(<<>>, 0) = <<>> /\ <<>> \o <<>> = <<>>
      BY EmptySeq, DropAll, Nothing
    <3>2. Down(v) = Down(d) /\ Down(d) \in Seq(Toks)
      BY <2>8, Streams DEF Down
    <3>3. Down(v) \o <<>> = Down(v)
      BY <3>2, Nothing
    <3> HIDE DEF Drop
    <3> QED
      BY <2>6, <2>8, <3>1, <3>2, <3>3 DEF Rest, Mine
  <2>10. Current(v) = i + 1 /\ i \in Nat
    BY <2>4, <2>6, <2>9, <1>1, SidesAre DEF Current, i
  <2>11. Links(v)
    BY <1>1, <2>8, LinksCut
  <2>12. Answering(Down(v), i + 1)
    BY <1>2, <2>3, <2>9, <2>10 DEF Answering
  <2>13. Asking(UpS(v), i + 1)
    BY <2>4, <2>8, <2>10 DEF Asking
  <2>14. Silent(v, i + 1)
    BY <2>3, <2>8, <2>10 DEF Silent
  <2>15. Unanswered(v, 0)
    <3> SUFFICES ASSUME NEW k \in (srv.msg + 1)..Len(Resps), Resps[k].answers \in 1..Len(Reqs),
                        Has(UpS(v), <<Resps[k].answers, Total(Reqs[Resps[k].answers])>>)
                 PROVE  FALSE
      BY DEF Unanswered
    <3> DEFINE a == Resps[k].answers
               t == Total(Reqs[a])
    <3>1. Len(Resps) \in Nat /\ Len(Reqs) \in Nat
      BY <1>1, SidesAre
    <3>2. k \in 1..Len(Resps) /\ srv.msg < k
      BY <2>3, <3>1
    <3>3. i < a /\ a \in Int
      BY <2>3, <3>1, <3>2 DEF Polite
    <3>4. UpS(v) # <<>>
      BY ChainUpTo, ChainEmpty, EmptySeq DEF Has
    <3>5. Has(UpS(d), <<a, t>>)
      BY <2>8, <3>4
    <3>6. UpS(d) \in Seq(Toks) /\ Chained(Reqs, 1 - Growth, UpS(d))
      BY <1>1, <2>3, Streams DEF Links, UpS
    <3>7. <<a, t>> = <<i, cli.pos>> \/ Before(<<a, t>>, <<i, cli.pos>>)
      BY <2>4, <3>5, <3>6, ChainUpTo
    <3> HIDE DEF a, t
    <3> QED
      BY <2>10, <3>3, <3>7 DEF Before
  <2>16. Resting(v)
    BY <2>4, <2>6, <2>8, <2>9, <2>10, <2>12, <2>13, <2>14, <2>15 DEF Resting, NoResp, i
  <2>17. Flow(v) /\ Shown(v)
    BY <1>2, <2>6, <2>9, <2>11, <2>16 DEF Flow, Shown
  <2> QED
    BY <2>1, <2>17
<1> QED
  BY <1>3, <1>4

LEMMA SameParts ==
  ASSUME NEW v, NEW w, v.c = w.c, v.net = w.net
  PROVE  /\ Alike(v, w) /\ v.c.state = w.c.state /\ v.c.req = w.c.req
         /\ (Flow(w) => Flow(v)) /\ (Shown(w) => Shown(v))
<1>1. Alike(v, w)
  BY DEF Alike, Rest
<1> QED
  BY <1>1, SameFlow DEF Shown

LEMMA ProxyFlow ==
  ASSUME NEW w, Fits(w), Ends, Sides, Polite, w.c.state = "PROXYING", Flow(w)
  PROVE  Flow(ProxyStep(w)) /\ Shown(ProxyStep(w))
<1> DEFINE a == WriteUpstream(w)
           d == Settled(w)
           Done(r) == Flow(r) /\ Shown(r)
<1>1. ProxyStep(w) \in {ConnClose(w), ConnClose(a), ConnClose(d)}
      \/ (ProxyStep(w) = FinishResponse(d) /\ d.c.respComplete /\ ~InPending(d))
      \/ (ProxyStep(w) = UpdateMasks(d) /\ ~(d.c.respComplete /\ ~InPending(d)))
  BY DEF ProxyStep, Settled, Moved
<1>2. /\ Fits(a) /\ a.c.state = "PROXYING" /\ Flow(a)
      /\ Fits(d) /\ d.c.state = "PROXYING" /\ Flow(d)
  BY WriteUpstreamFits, UpPiece, WriteUpFlow, SettledFits, SettledFlow, Zenon
<1> HIDE DEF a, d
<1>3. ASSUME NEW v \in {w, a, d} PROVE Done(ConnClose(v))
  <2>1. Fits(v) /\ v.c.state = "PROXYING" /\ Flow(v)
    BY <1>2
  <2>2. Links(v) /\ Chained(Resps, 1, Down(v))
    BY <2>1, DownPrefix DEF Flow
  <2> QED
    BY <2>1, <2>2, CloseFlow
<1>4. d.c.respComplete /\ ~InPending(d) => Done(FinishResponse(d))
  BY <1>2, FinishFlow
<1>5. ~(d.c.respComplete /\ ~InPending(d)) => Done(UpdateMasks(d))
  <2>1. Shown(d) \/ (d.c.respComplete /\ ~InPending(d))
    BY DEF Shown, InPending
  <2>2. UpdateMasks(d).c = d.c /\ UpdateMasks(d).net = d.net
    BY <1>2, UpdateMasksFits
  <2> QED
    BY <1>2, <2>1, <2>2, SameParts
<1> QED
  BY <1>1, <1>3, <1>4, <1>5, Zenon

----------------------------------------------------------------------------
(* A piece of a response is read.                                          *)

Faithful(w) == Flow(w) /\ Shown(w)

\* What a read from the upstream connection moves: the next tokens of the response.
LEMMA ReadPiece ==
  ASSUME NEW w, Fits(w), Ends
  PROVE  LET v == ReadUpstream(w)
         IN  /\ Fits(v)
             /\ \E t \in Seq(Toks) : /\ v.c.in = w.c.in \o t /\ w.net.uRecv = t \o v.net.uRecv
                                     /\ Mine(v) = Mine(w) \o t
                                     /\ Len(t) = Len(v.c.in) - Len(w.c.in)
             /\ v.c.inOff = w.c.inOff /\ Rest(v) = Rest(w)
             /\ v.c.respHdr = w.c.respHdr /\ v.c.respComplete = w.c.respComplete
             /\ v.c.resp = w.c.resp /\ v.c.respLeft = w.c.respLeft
             /\ v.c.state = w.c.state /\ v.c.req = w.c.req /\ v.net.u = w.net.u
             /\ v.net.toUp = w.net.toUp /\ v.net.toCli = w.net.toCli
<1> DEFINE v == ReadUpstream(w)
           n == UpRead(w)
           t == Take(w.net.uRecv, n)
           d == Drop(w.net.uRecv, n)
           h == Drop(w.c.in, w.c.inOff)
<1>1. /\ Fits(v) /\ v.c = [w.c EXCEPT !.in = @ \o t] /\ v.net = [w.net EXCEPT !.uRecv = d]
      /\ n \in 0..Len(w.net.uRecv)
  BY ReadUpstreamFits
<1>2. w.c \in Conns /\ w.net \in Nets /\ w.c.inOff \in 0..Len(w.c.in)
  BY FitsParts
<1>3. /\ w.c.in \in Seq(Toks) /\ w.net.uRecv \in Seq(Toks) /\ h \in Seq(Toks)
      /\ Down(w) \in Seq(Toks)
  BY Streams
<1>4. t \in Seq(Toks) /\ d \in Seq(Toks) /\ t \o d = w.net.uRecv
  BY <1>1, <1>3, TakeType, DropType, TakeDropIs
<1>5. Drop(w.c.in \o t, w.c.inOff) = h \o t
  BY <1>2, <1>3, <1>4, DropJoin
<1>6. Len(w.c.in \o t) = Len(w.c.in) + Len(t) /\ Len(w.c.in) \in Nat /\ Len(t) \in Nat
  BY <1>3, <1>4, JoinParts
<1> HIDE DEF v, n, t, d, h
<1>7. /\ v.c.in = w.c.in \o t /\ v.c.inOff = w.c.inOff /\ v.c.out = w.c.out
      /\ v.c.outOff = w.c.outOff /\ v.c.respHdr = w.c.respHdr
      /\ v.c.respComplete = w.c.respComplete /\ v.c.resp = w.c.resp
      /\ v.c.respLeft = w.c.respLeft /\ v.c.state = w.c.state /\ v.c.req = w.c.req
  BY <1>1, <1>2 DEF Conns
<1>8. /\ v.net.uRecv = d /\ v.net.u = w.net.u /\ v.net.toUp = w.net.toUp
      /\ v.net.cRecv = w.net.cRecv /\ v.net.toCli = w.net.toCli
  BY <1>1, <1>2 DEF Nets
<1>9. Mine(v) = Mine(w) \o t
  <2>1. Mine(v) = Down(w) \o (h \o t) /\ Mine(w) = Down(w) \o h
    BY <1>5, <1>7, <1>8 DEF Mine, Down, h
  <2>2. Down(w) \o (h \o t) = (Down(w) \o h) \o t
    BY <1>3, <1>4, Joined
  <2> QED
    BY <2>1, <2>2
<1>10. Rest(v) = Rest(w)
  BY <1>7, <1>8 DEF Rest
<1>11. Len(t) = Len(v.c.in) - Len(w.c.in)
  BY <1>6, <1>7
<1> QED
  BY <1>1, <1>4, <1>7, <1>8, <1>9, <1>10, <1>11 DEF v

\* Nothing of the response is there to read.
LEMMA ReadNothing ==
  ASSUME NEW w, Fits(w), Ends, w.c.state = "PROXYING", Flow(w), Waiting(w), w.net.uRecv = <<>>
  PROVE  LET v == ReadUpstream(w)
         IN  Faithful(v) /\ v.c.in = <<>> /\ v.net.uRecv = <<>> /\ Alike(v, w)
<1> DEFINE v == ReadUpstream(w)
<1>1. PICK t \in Seq(Toks) : v.c.in = w.c.in \o t /\ w.net.uRecv = t \o v.net.uRecv
  BY ReadPiece
<1>2. /\ Fits(v) /\ v.c.inOff = w.c.inOff /\ Rest(v) = Rest(w)
      /\ v.c.respHdr = w.c.respHdr /\ v.c.respComplete = w.c.respComplete
      /\ v.c.resp = w.c.resp /\ v.c.respLeft = w.c.respLeft
      /\ v.c.state = w.c.state /\ v.c.req = w.c.req /\ v.net.u = w.net.u
      /\ v.net.toUp = w.net.toUp /\ v.net.toCli = w.net.toCli
  BY ReadPiece
<1>3. v.net.uRecv \in Seq(Toks) /\ w.c.in \in Seq(Toks)
  BY <1>2, Streams
<1> HIDE DEF v
<1>4. t = <<>> /\ v.net.uRecv = <<>>
  BY <1>1, <1>3, ConcatEqualIffEmpty
<1>5. v.c.in = <<>> /\ w.c.in = <<>>
  BY <1>1, <1>3, <1>4, Nothing DEF Waiting, NoResp
<1>6. Alike(v, w)
  BY <1>2, <1>4, <1>5 DEF Alike
<1>7. Flow(v)
  BY <1>2, <1>6, SameFlow
<1>8. Shown(v)
  BY <1>2 DEF Shown, Waiting, NoResp
<1> QED
  BY <1>4, <1>5, <1>6, <1>7, <1>8 DEF v, Faithful

\* The server is sending the answer to the request in hand, p tokens of which are in.
Receiving(w, p) ==
  /\ w.net.u = "up" /\ srv.msg # 0 /\ Resps[srv.msg].answers = cli.msg
  /\ Has(srv.got, <<cli.msg, Total(Reqs[cli.msg])>>)
  /\ p \in 0..srv.pos /\ AnsweredTo(w, p)

\* l more tokens of it are read.
ReadOf(v, w, p, l) ==
  /\ v.c.in = w.c.in \o Segment(srv.msg, p, l)
  /\ v.net.uRecv = Segment(srv.msg, p + l, srv.pos - (p + l))
  /\ Mine(v) = Mine(w) \o Segment(srv.msg, p, l)
  /\ Len(v.c.in) - Len(w.c.in) = l

LEMMA ReadAnswer ==
  ASSUME NEW w, Fits(w), Ends, Sides, Polite, NEW p, Receiving(w, p)
  PROVE  \E l \in 0..(srv.pos - p) : ReadOf(ReadUpstream(w), w, p, l)
<1> DEFINE v == ReadUpstream(w)
           i == srv.msg
           n == srv.pos - p
           u == v.net.uRecv
<1>1. PICK t \in Seq(Toks) : /\ v.c.in = w.c.in \o t /\ w.net.uRecv = t \o u
                             /\ Mine(v) = Mine(w) \o t
                             /\ Len(t) = Len(v.c.in) - Len(w.c.in)
  BY ReadPiece
<1>2. Fits(v)
  BY ReadPiece
<1>3. script \in Scripts
  BY DEF Fits
<1>4. i \in Int /\ p \in Int /\ n \in Nat /\ srv.pos \in Int
  BY <1>3, SidesAre DEF Receiving
<1>5. u \in Seq(Toks)
  BY <1>2, Streams
<1>6. w.net.uRecv = Segment(i, p, n)
  BY DEF Receiving, AnsweredTo
<1> HIDE DEF v, i, n, u
<1>7. t \o u = Segment(i, p, n) /\ t \in Seq(Toks)
  BY <1>1, <1>6
<1>8. Cut(i, p, n, t, u)
  BY <1>4, <1>5, <1>7, SegSplit
<1> DEFINE l == Len(t)
<1>9. l \in 0..n /\ t = Segment(i, p, l) /\ u = Segment(i, p + l, n - l)
  BY <1>8 DEF Cut
<1>10. n - l = srv.pos - (p + l) /\ l \in 0..(srv.pos - p)
  <2> HIDE DEF l
  <2> QED
    BY <1>4, <1>9 DEF n
<1> HIDE DEF l
<1>11. Len(v.c.in) - Len(w.c.in) = l
  BY <1>1 DEF l
<1>12. ReadOf(v, w, p, l)
  BY <1>1, <1>9, <1>10, <1>11 DEF ReadOf, i, u
<1> QED
  BY <1>10, <1>12 DEF v

LEMMA ReadChain ==
  ASSUME NEW w, Fits(w), Ends, Sides, Polite, w.c.state = "PROXYING", Flow(w), NEW p,
         Receiving(w, p), NEW l \in 0..(srv.pos - p), NEW v, ReadOf(v, w, p, l)
  PROVE  /\ Chained(Resps, 1, Mine(v))
         /\ p + l # 0 => Mine(v) # <<>> /\ End(Mine(v)) = <<srv.msg, p + l>>
<1> DEFINE i == srv.msg
           t == Segment(i, p, l)
<1>1. /\ i \in 1..Len(Resps) /\ i \in Int /\ p \in 0..srv.pos /\ l \in Nat
      /\ srv.pos \in 1..Total(Resps[i]) /\ Total(Resps[i]) \in Nat /\ Sized(Resps)
      /\ p \in Int /\ Len(Resps) \in Nat
  <2>1. script \in Scripts
    BY DEF Fits
  <2> QED
    BY <2>1, SidesAre DEF Receiving
<1>2. Chained(Resps, 1, Mine(w)) /\ Mine(w) \in Seq(Toks) /\ Down(w) \in Seq(Toks)
  BY Streams DEF Flow
<1> HIDE DEF i
<1>3. t \in Seq(Toks) /\ (t = <<>> <=> l = 0) /\ (l # 0 => End(t) = <<i, p + l>>)
  BY <1>1, SegType, Zenon
<1>4. Fitting(Resps, 1, Mine(w), i, p)
  <2>1. CASE p = 0
    <3>1. Waiting(w)
      BY <2>1 DEF Receiving, AnsweredTo
    <3>2. Mine(w) = Down(w)
      <4>1. Drop(<<>>, 0) = <<>>
        BY DropAll, EmptySeq
      <4> HIDE DEF Drop
      <4> QED
        BY <1>2, <3>1, <4>1, Nothing DEF Waiting, NoResp, Mine
    <3>3. CASE Down(w) = <<>>
      BY <2>1, <3>2, <3>3 DEF Fitting
    <3>4. CASE Down(w) # <<>>
      <4>1. PICK k \in 1..Len(Resps) : /\ End(Down(w)) = <<k, Total(Resps[k])>>
                                       /\ Resps[k].answers < cli.msg
        BY <3>1, <3>4 DEF Waiting, Answering
      <4>2. Resps[i].answers = cli.msg
        BY DEF Receiving, i
      <4>3. /\ Resps[k].answers \in Int /\ Resps[i].answers \in Int
        <5>1. script \in Scripts
          BY DEF Fits
        <5> QED
          BY <1>1, <4>1, <5>1, RespType DEF Response
      <4>4. k < i
        <5> SUFFICES ASSUME ~(k < i) PROVE FALSE
          OBVIOUS
        <5>1. k = i \/ i < k
          BY <1>1, <4>1
        <5>2. i < k => Resps[i].answers < Resps[k].answers
          BY <1>1, <4>1 DEF Polite
        <5> QED
          BY <4>1, <4>2, <4>3, <5>1, <5>2
      <4>5. k \in 1..(i - 1)
        BY <1>1, <4>1, <4>4
      <4> QED
        BY <2>1, <3>2, <4>1, <4>5 DEF Fitting
    <3> QED
      BY <3>3, <3>4
  <2>2. CASE p # 0
    BY <1>1, <2>2 DEF Receiving, AnsweredTo, Fitting, i
  <2> QED
    BY <2>1, <2>2
<1>7. Mine(v) = Mine(w) \o t
  BY DEF ReadOf, i
<1>5. Chained(Resps, 1, Mine(w) \o t)
  <2>1. p >= 1 - 1 /\ p + l <= Total(Resps[i]) /\ 1 \in Int
    BY <1>1
  <2> QED
    BY <1>1, <1>2, <1>4, <2>1, ChainAppend
<1>6. ASSUME p + l # 0 PROVE Mine(v) # <<>> /\ End(Mine(v)) = <<i, p + l>>
  <2>1. CASE l = 0
    <3>1. Mine(v) = Mine(w) /\ p # 0 /\ p + l = p
      BY <1>1, <1>2, <1>3, <1>6, <1>7, <2>1, Nothing
    <3> QED
      BY <3>1 DEF Receiving, AnsweredTo, i
  <2>2. CASE l # 0
    <3>1. Mine(w) \o t # <<>> /\ End(Mine(w) \o t) = End(t)
      BY <1>2, <1>3, <2>2, EndJoin
    <3> QED
      BY <1>3, <1>7, <2>2, <3>1
  <2> QED
    BY <2>1, <2>2
<1> QED
  BY <1>5, <1>6, <1>7 DEF i

LEMMA FedFlow ==
  ASSUME NEW w, w.c.state = "PROXYING", Flow(w), NEW p, Receiving(w, p),
         NEW x, Rest(x) = Rest(w), x.c.req = w.c.req, x.c.state = w.c.state,
         x.net.u = w.net.u, x.net.toUp = w.net.toUp, x.net.toCli = w.net.toCli,
         NEW r \in 1..srv.pos, x.net.uRecv = Segment(srv.msg, r, srv.pos - r),
         Chained(Resps, 1, Mine(x)), Mine(x) # <<>>, End(Mine(x)) = <<srv.msg, r>>,
         x.c.respHdr, x.c.resp = srv.msg,
         Resps[srv.msg].mode = "NONE" => x.c.respComplete,
         Resps[srv.msg].mode \in {"LENGTH", "CHUNKED"} =>
           x.c.respLeft = Total(Resps[srv.msg]) - r /\ x.c.respComplete = (x.c.respLeft = 0)
  PROVE  Flow(x)
<1>1. Links(x) /\ UpS(x) = UpS(w)
  BY DEF Flow, Links, UpS, Receiving
<1>2. /\ \A i : Unanswered(w, i) => Unanswered(x, i)
      /\ \A q : AskedTo(w, q) => AskedTo(x, q)
  BY <1>1 DEF Unanswered, AskedTo
<1>3. r \in 0..srv.pos /\ AnsweredTo(x, r)
  BY DEF AnsweredTo
<1>4. Relayed(x)
  BY <1>2, <1>3 DEF Relayed, Receiving, Flow
<1> QED
  BY <1>1, <1>4 DEF Flow

\* A handler is proved to keep to the streams by what it may turn the world into.
Flowing == Flow(World)' /\ Shown(World)'

LEMMA SameSides ==
  ASSUME NEW y, World' = y, cli' = cli, srv' = srv, Reqs' = Reqs, Resps' = Resps, Faithful(y)
  PROVE  Flowing
<1>1. /\ UpS(World)' = UpS(y) /\ Rest(World)' = Rest(y) /\ Down(World)' = Down(y)
      /\ Mine(World)' = Mine(y) /\ NoResp(World)' = NoResp(y)
  BY DEF UpS, Rest, Down, Mine, NoResp
<1>2. \A s, i : Asking(s, i)' = Asking(s, i)
  BY DEF Asking
<1>3. \A s, i : Answering(s, i)' = Answering(s, i)
  BY DEF Answering
<1>4. \A i : Unanswered(World, i)' = Unanswered(y, i)
  BY <1>1 DEF Unanswered
<1>5. \A i : Silent(World, i)' = Silent(y, i)
  BY DEF Silent
<1>6. Current(World)' = Current(y)
  BY <1>1 DEF Current
<1>7. Waiting(World)' = Waiting(y)
  BY <1>1, <1>3 DEF Waiting
<1>8. \A q : AskedTo(World, q)' = AskedTo(y, q)
  BY <1>1, <1>2 DEF AskedTo
<1>9. \A p : AnsweredTo(World, p)' = AnsweredTo(y, p)
  BY <1>1, <1>7 DEF AnsweredTo
<1>10. Resting(y) => Resting(World)'
  BY <1>1, <1>2, <1>3, <1>4, <1>5, <1>6 DEF Resting
<1>11. Trying(y) => Trying(World)'
  BY <1>1, <1>3 DEF Trying
<1>12. Relayed(y) => Relayed(World)'
  BY <1>4, <1>5, <1>7, <1>8, <1>9 DEF Relayed
<1>13. Links(y) => Links(World)'
  BY DEF Links
<1>14. Ends2(Down(y)) => Ends2(Down(World))'
  BY <1>1 DEF Ends2
<1>15. Flow(World)'
  BY <1>1, <1>10, <1>11, <1>12, <1>13, <1>14 DEF Flow, Faithful
<1>16. Shown(World)'
  BY DEF Shown, Faithful
<1> QED
  BY <1>15, <1>16 DEF Flowing

LEMMA BecomeFlow ==
  ASSUME NEW W, Become(W), \A w \in W : Faithful(w) PROVE Flowing
<1>1. PICK w \in W : /\ c' = w.c /\ net' = w.net /\ ep' = w.ep /\ res' = w.res
                     /\ script' = script /\ cli' = cli /\ srv' = srv
  BY DEF Become
<1> DEFINE y == [c |-> w.c, net |-> w.net, ep |-> w.ep, res |-> w.res]
<1>2. World' = y /\ Reqs' = Reqs /\ Resps' = Resps
  BY <1>1 DEF World, Reqs, Resps
<1>3. Faithful(y)
  <2>1. y.c = w.c /\ y.net = w.net
    OBVIOUS
  <2> HIDE DEF y
  <2> QED
    BY <1>1, <2>1, SameParts DEF Faithful
<1> HIDE DEF y
<1> QED
  BY <1>1, <1>2, <1>3, SameSides

----------------------------------------------------------------------------
(* A response comes in.                                                    *)

LEMMA FedFields ==
  ASSUME NEW k \in Conns, NEW got
  PROVE  LET f == FedConn(k, got)
         IN  /\ f.state = k.state /\ f.out = k.out /\ f.outOff = k.outOff /\ f.in = k.in
             /\ f.inOff = k.inOff /\ f.req = k.req /\ f.resp = k.resp /\ f.respHdr = k.respHdr
             /\ Resps[k.resp].mode = "NONE" => f.respComplete
             /\ Resps[k.resp].mode \in {"LENGTH", "CHUNKED"} =>
                  /\ f.respLeft = Left(k.respLeft, got)
                  /\ f.respComplete = (k.respComplete \/ Left(k.respLeft, got) = 0)
<1> DEFINE f == FedConn(k, got)
           m == Resps[k.resp].mode
           left == Left(k.respLeft, got)
           nl == IF m \in {"NONE", "UNTIL_CLOSE"} THEN k.respLeft ELSE left
           nc == IF m = "NONE" THEN TRUE ELSE IF m = "UNTIL_CLOSE" THEN k.respComplete
                 ELSE k.respComplete \/ left = 0
<1>1. f = [k EXCEPT !.respLeft = nl, !.respComplete = nc]
  BY DEF FedConn
<1> HIDE DEF f, nl, nc
<1>2. /\ f.state = k.state /\ f.out = k.out /\ f.outOff = k.outOff /\ f.in = k.in
      /\ f.inOff = k.inOff /\ f.req = k.req /\ f.resp = k.resp /\ f.respHdr = k.respHdr
      /\ f.respLeft = nl /\ f.respComplete = nc
  BY <1>1 DEF Conns
<1> HIDE DEF m, left
<1>3. m = "NONE" => f.respComplete
  BY <1>2 DEF nc
<1>4. m \in {"LENGTH", "CHUNKED"} => nl = left /\ nc = (k.respComplete \/ left = 0)
  BY DEF nl, nc
<1> QED
  BY <1>2, <1>3, <1>4 DEF f, m, left

\* The struct has the buffers and the state of v, and takes the response for srv.msg,
\* of which r tokens are in once `got` more of its body are counted.
TakenOver(k, v) ==
  /\ k \in Conns /\ k.out = v.c.out /\ k.outOff = v.c.outOff /\ k.in = v.c.in
  /\ k.inOff = v.c.inOff /\ k.state = v.c.state /\ k.req = v.c.req
Counting(k, got, r) ==
  /\ k.respHdr /\ k.resp = srv.msg /\ k.respComplete \in BOOLEAN
  /\ Resps[srv.msg].mode \in {"LENGTH", "CHUNKED"} =>
       /\ Left(k.respLeft, got) = Total(Resps[srv.msg]) - r
       /\ k.respComplete => Left(k.respLeft, got) = 0
FedInto(x, v, k, got) == x.net = v.net /\ \E e : x.c = [FedConn(k, got) EXCEPT !.upEof = e]

LEMMA FedAnswer ==
  ASSUME NEW w, Fits(w), Ends, Sides, Polite, w.c.state = "PROXYING", Flow(w), NEW p,
         Receiving(w, p), NEW l \in 0..(srv.pos - p), NEW v, v = ReadUpstream(w),
         ReadOf(v, w, p, l), p + l # 0,
         NEW k, TakenOver(k, v), NEW got, Counting(k, got, p + l), NEW x, FedInto(x, v, k, got)
  PROVE  Flow(x)
<1> DEFINE f == FedConn(k, got)
           r == p + l
           m == Resps[srv.msg]
<1>0. k \in Conns /\ x.net = v.net
  BY DEF TakenOver, FedInto
<1>1. /\ f.state = k.state /\ f.out = k.out /\ f.outOff = k.outOff /\ f.in = k.in
      /\ f.inOff = k.inOff /\ f.req = k.req /\ f.resp = k.resp /\ f.respHdr = k.respHdr
      /\ m.mode = "NONE" => f.respComplete
      /\ m.mode \in {"LENGTH", "CHUNKED"} =>
           /\ f.respLeft = Left(k.respLeft, got)
           /\ f.respComplete = (k.respComplete \/ Left(k.respLeft, got) = 0)
  <2>1. k.resp = srv.msg
    BY DEF Counting
  <2> QED
    BY <1>0, <2>1, FedFields
<1>2. /\ x.c.state = f.state /\ x.c.out = f.out /\ x.c.outOff = f.outOff /\ x.c.in = f.in
      /\ x.c.inOff = f.inOff /\ x.c.req = f.req /\ x.c.resp = f.resp
      /\ x.c.respHdr = f.respHdr /\ x.c.respLeft = f.respLeft
      /\ x.c.respComplete = f.respComplete
  BY <1>0 DEF FedInto, FedConn, Conns
<1> HIDE DEF f, m
<1>3. /\ v.c.inOff = w.c.inOff /\ Rest(v) = Rest(w) /\ v.c.state = w.c.state
      /\ v.c.req = w.c.req /\ v.net.u = w.net.u /\ v.net.toUp = w.net.toUp
      /\ v.net.toCli = w.net.toCli
  BY ReadPiece
<1>4. Rest(x) = Rest(w) /\ Mine(x) = Mine(v)
  <2>1. /\ x.c.out = v.c.out /\ x.c.outOff = v.c.outOff /\ x.c.in = v.c.in
        /\ x.c.inOff = v.c.inOff
    BY <1>1, <1>2 DEF TakenOver
  <2>2. Rest(x) = Rest(v)
    BY <1>0, <2>1 DEF Rest
  <2>3. Down(x) = Down(v)
    BY <1>0 DEF Down
  <2>4. Mine(x) = Mine(v)
    BY <2>1, <2>3 DEF Mine
  <2> QED
    BY <1>3, <2>2, <2>4
<1>5. /\ Mine(v) = Mine(w) \o Segment(srv.msg, p, l)
      /\ x.net.uRecv = Segment(srv.msg, r, srv.pos - r)
  BY <1>0 DEF ReadOf
<1>6. Chained(Resps, 1, Mine(x)) /\ Mine(x) # <<>> /\ End(Mine(x)) = <<srv.msg, r>>
  <2>1. /\ Chained(Resps, 1, Mine(v))
        /\ p + l # 0 => Mine(v) # <<>> /\ End(Mine(v)) = <<srv.msg, p + l>>
    BY ReadChain
  <2> QED
    BY <1>4, <2>1
<1>7. r \in 1..srv.pos
  <2>1. script \in Scripts
    BY DEF Fits
  <2>2. srv.pos \in Nat /\ p \in 0..srv.pos
    BY <2>1, SidesAre DEF Receiving
  <2> QED
    BY <2>2
<1>8. m.mode = "NONE" => x.c.respComplete
  BY <1>1, <1>2
<1>9. m.mode \in {"LENGTH", "CHUNKED"} =>
        x.c.respLeft = Total(m) - r /\ x.c.respComplete = (x.c.respLeft = 0)
  <2> SUFFICES ASSUME m.mode \in {"LENGTH", "CHUNKED"}
               PROVE  x.c.respLeft = Total(m) - r /\ x.c.respComplete = (x.c.respLeft = 0)
    OBVIOUS
  <2>1. x.c.respLeft = Left(k.respLeft, got)
        /\ x.c.respComplete = (k.respComplete \/ Left(k.respLeft, got) = 0)
    BY <1>1, <1>2
  <2>2. Left(k.respLeft, got) = Total(m) - r /\ (k.respComplete => Left(k.respLeft, got) = 0)
    BY DEF Counting, m
  <2> QED
    BY <2>1, <2>2
<1>10. /\ x.c.respHdr /\ x.c.resp = srv.msg /\ x.c.req = w.c.req /\ x.c.state = w.c.state
       /\ x.net.u = w.net.u /\ x.net.toUp = w.net.toUp /\ x.net.toCli = w.net.toCli
  <2>1. x.c.respHdr /\ x.c.resp = srv.msg
    BY <1>1, <1>2 DEF Counting
  <2>2. x.c.req = w.c.req /\ x.c.state = w.c.state
    BY <1>1, <1>2, <1>3 DEF TakenOver
  <2>3. x.net.u = w.net.u /\ x.net.toUp = w.net.toUp /\ x.net.toCli = w.net.toCli
    BY <1>0, <1>3
  <2> QED
    BY <2>1, <2>2, <2>3
<1> HIDE DEF r
<1>11. /\ Resps[srv.msg].mode = "NONE" => x.c.respComplete
       /\ Resps[srv.msg].mode \in {"LENGTH", "CHUNKED"} =>
            x.c.respLeft = Total(Resps[srv.msg]) - r /\ x.c.respComplete = (x.c.respLeft = 0)
  BY <1>8, <1>9 DEF m
<1> QED
  BY <1>4, <1>5, <1>6, <1>7, <1>10, <1>11, FedFlow

----------------------------------------------------------------------------
(* The upstream is readable.                                               *)

LEMMA TakenFlow ==
  ASSUME Good(World), Faithful(World), NEW b \in ep.batch
  PROVE  /\ Good(Taken(b)) /\ Fits(Taken(b)) /\ Faithful(Taken(b)) /\ Taken(b).c = c
         /\ Taken(b).net = net /\ Taken(b).res = res
<1>1. Good(Taken(b)) /\ Taken(b).c = c /\ Taken(b).net = net /\ Taken(b).res = res
  BY TakenFits
<1>2. World.c = c /\ World.net = net
  BY WorldIs
<1>3. Faithful(Taken(b))
  BY <1>1, <1>2, SameParts DEF Faithful
<1> QED
  BY <1>1, <1>3 DEF Good

\* The connection may be given up in the middle of a response, or before it.
LEMMA ReadLost ==
  ASSUME NEW w, Fits(w), Ends, w.c.state = "PROXYING", Flow(w)
  PROVE  LET v == ReadUpstream(w)
         IN  /\ Faithful(ConnClose(v))
             /\ Waiting(w) => Faithful(SendError(v, 502))
<1> DEFINE v == ReadUpstream(w)
<1>1. /\ Fits(v) /\ v.net.u = w.net.u /\ v.net.toUp = w.net.toUp /\ v.net.toCli = w.net.toCli
      /\ v.net.uRecv \in Seq(Toks)
  BY ReadPiece, Streams
<1>2. PICK t \in Seq(Toks) : w.net.uRecv = t \o v.net.uRecv
  BY ReadPiece
<1> HIDE DEF v
<1>3. Links(w) /\ Chained(Resps, 1, Mine(w))
  BY DEF Flow
<1>4. Down(v) = Down(w) /\ Chained(Resps, 1, Down(v))
  BY <1>1, <1>3, DownPrefix DEF Down
<1>5. ASSUME w.net.uRecv = <<>> PROVE v.net.uRecv = <<>>
  <2> DEFINE u == v.net.uRecv
  <2>1. t \o u = <<>> /\ u \in Seq(Toks) /\ t \in Seq(Toks)
    BY <1>1, <1>2, <1>5
  <2> HIDE DEF u
  <2>2. u = <<>>
    BY <2>1, ConcatEqualIffEmpty
  <2> QED
    BY <2>2 DEF u
<1>6. Links(v)
  BY <1>1, <1>3, <1>5 DEF Links
<1>7. Faithful(ConnClose(v))
  BY <1>1, <1>4, <1>6, CloseFlow DEF Faithful
<1>8. ASSUME Waiting(w) PROVE Faithful(SendError(v, 502))
  <2>1. Between(Down(v))
    BY <1>4, <1>8 DEF Waiting, Answering, Between
  <2> QED
    BY <1>1, <1>4, <1>6, <2>1, ErrorFlow DEF Faithful
<1> QED
  BY <1>7, <1>8 DEF v

\* What the upstream connection is doing, once the request is being written.
LEMMA Answers ==
  ASSUME NEW w, w.c.state = "PROXYING", Flow(w)
  PROVE  \/ Silent(w, cli.msg) /\ Waiting(w)
         \/ \E p \in 0..srv.pos : Receiving(w, p)
BY DEF Flow, Relayed, Receiving

\* The header comes in with what follows it.
FirstFed(v) == FeedResponse(HeaderIn(v), Len(v.c.in) - Resps[v.c.in[1][1]].hdr)

\* More of the body comes in.
MoreFed(v, w) == FeedResponse(v, Len(v.c.in) - Len(w.c.in))

LEMMA FirstFlow ==
  ASSUME NEW w, Fits(w), Ends, Sides, Polite, w.c.state = "PROXYING", Flow(w),
         ~w.c.respHdr, Parse(Resps, ReadUpstream(w).c.in) = "done"
  PROVE  LET f == FirstFed(ReadUpstream(w))
         IN  /\ Fits(f) /\ f.c.state = "PROXYING"
             /\ \A x, e : x.net = f.net /\ x.c = [f.c EXCEPT !.upEof = e] => Flow(x)
<1> DEFINE v == ReadUpstream(w)
           i == srv.msg
           j == v.c.in[1][1]
           h == HeaderIn(v)
           got == Len(v.c.in) - Resps[j].hdr
           f == FeedResponse(h, got)
<1>1. Fits(v) /\ v.c.state = "PROXYING" /\ v.c.respComplete = w.c.respComplete
  BY ReadPiece
<1>2. /\ Fits(h) /\ h.c.state = "PROXYING" /\ h.net = v.net
      /\ h.c = [v.c EXCEPT !.respHdr = TRUE, !.resp = j, !.respLeft = Resps[j].body]
      /\ v.c.in # <<>> /\ v.c \in Conns /\ h.c \in Conns /\ got \in Nat
  <2>1. v.c \in Conns
    BY <1>1, FitsParts
  <2>2. /\ Fits(h) /\ h.c.state = "PROXYING" /\ h.net = v.net
        /\ h.c = [v.c EXCEPT !.respHdr = TRUE, !.resp = j, !.respLeft = Resps[j].body]
        /\ v.c.in # <<>> /\ got \in Nat
    BY <1>1, HeaderFits, Zenon
  <2> HIDE DEF h
  <2>3. h.c \in Conns
    BY <2>2, FitsParts
  <2> HIDE DEF v, got, j
  <2> QED
    BY <2>1, <2>2, <2>3
<1>3. ~(Silent(w, cli.msg) /\ Waiting(w))
  <2> SUFFICES ASSUME Silent(w, cli.msg), Waiting(w) PROVE FALSE
    OBVIOUS
  <2>1. w.net.uRecv = <<>>
    BY DEF Silent
  <2>2. v.c.in = <<>>
    BY <2>1, ReadNothing
  <2> HIDE DEF v
  <2> QED
    BY <1>2, <2>2
<1>4. PICK p \in 0..srv.pos : Receiving(w, p)
  BY <1>3, Answers
<1>5. p = 0 /\ Waiting(w)
  BY <1>4 DEF Receiving, AnsweredTo
<1>6. PICK l \in 0..(srv.pos - p) : ReadOf(v, w, p, l)
  BY <1>4, ReadAnswer
<1>7. /\ i \in 1..Len(Resps) /\ i \in Int /\ srv.pos \in 1..Total(Resps[i])
      /\ Total(Resps[i]) \in Nat /\ l \in Nat /\ Resps[i].hdr = 1 /\ Resps[i].body \in Nat
  <2>1. script \in Scripts
    BY DEF Fits
  <2>2. i \in 1..Len(Resps) /\ srv.pos \in 1..Total(Resps[i]) /\ Total(Resps[i]) \in Nat
        /\ Len(Resps) \in Nat
    BY <1>4, <2>1, SidesAre DEF Receiving
  <2>3. Resps[i].hdr = 1 /\ Resps[i].body \in Nat
    BY <2>1, <2>2, RespType DEF Polite
  <2> QED
    BY <1>5, <1>6, <2>2, <2>3
<1> HIDE DEF v, i, j, h, got, f
<1>8. v.c.in = Segment(i, p, l)
  <2>1. v.c.in = <<>> \o Segment(i, p, l)
    BY <1>5, <1>6 DEF ReadOf, Waiting, NoResp, i
  <2>2. Segment(i, p, l) \in Seq(Toks)
    BY <1>5, <1>7, SegType
  <2> DEFINE s == Segment(i, p, l)
  <2> HIDE DEF s
  <2>3. <<>> \o s = s
    BY <2>2, Nothing DEF s
  <2> QED
    BY <2>1, <2>3 DEF s
<1>9. l # 0 /\ Len(v.c.in) = l /\ v.c.in[1] = <<i, 1>>
  <2>1. /\ Len(Segment(i, p, l)) = l /\ (Segment(i, p, l) = <<>> <=> l = 0)
        /\ \A x \in 1..l : Segment(i, p, l)[x] = <<i, p + x>>
    <3>1. i \in Int /\ p \in Int /\ l \in Nat
      BY <1>5, <1>7
    <3> QED
      BY <3>1, SegType
  <2>2. l # 0
    BY <1>2, <1>8, <2>1
  <2>3. Segment(i, p, l)[1] = <<i, p + 1>>
    BY <1>7, <2>1, <2>2
  <2> QED
    BY <1>5, <1>8, <2>1, <2>2, <2>3
<1>10. j = i /\ got = l - 1
  BY <1>7, <1>9 DEF j, got
<1>11. /\ h.c.out = v.c.out /\ h.c.outOff = v.c.outOff /\ h.c.in = v.c.in
       /\ h.c.inOff = v.c.inOff /\ h.c.state = v.c.state /\ h.c.req = v.c.req
       /\ h.c.respHdr /\ h.c.resp = srv.msg /\ h.c.respComplete = FALSE
       /\ h.c.respLeft = Resps[i].body
  <2>1. v.c.respComplete = FALSE
    BY <1>1, <1>2, <1>5 DEF Waiting, NoResp, Conns
  <2> QED
    BY <1>2, <1>10, <2>1 DEF Conns, i
<1>12. Left(h.c.respLeft, got) = Total(Resps[srv.msg]) - (p + l)
  <2>1. l - 1 <= Resps[i].body /\ Total(Resps[i]) = 1 + Resps[i].body
    BY <1>5, <1>7, <1>6 DEF Total
  <2> QED
    BY <1>5, <1>7, <1>10, <1>11, <2>1 DEF Left, i
<1>13. Fits(f) /\ f.c.state = "PROXYING" /\ f.c = FedConn(h.c, got) /\ f.net = v.net
  <2>1. Fits(h) /\ h.c.state = "PROXYING" /\ got \in Nat
    BY <1>2
  <2>2. Fits(f) /\ f.c.state = "PROXYING" /\ f.c = FedConn(h.c, got) /\ f.net = h.net
    BY <2>1, FeedFits DEF f
  <2> QED
    BY <1>2, <2>2
<1>14. ASSUME NEW x, NEW e, x.net = f.net, x.c = [f.c EXCEPT !.upEof = e] PROVE Flow(x)
  <2>1. FedInto(x, v, h.c, got)
    BY <1>13, <1>14 DEF FedInto
  <2>2. p + l # 0 /\ v = ReadUpstream(w)
    BY <1>5, <1>7, <1>9 DEF v
  <2>3. TakenOver(h.c, v)
    BY <1>2, <1>11 DEF TakenOver
  <2>4. Counting(h.c, got, p + l)
    BY <1>11, <1>12 DEF Counting
  <2> QED
    BY <1>4, <1>6, <2>1, <2>2, <2>3, <2>4, FedAnswer
<1> QED
  BY <1>13, <1>14, Zenon DEF FirstFed, f, h, got, j, v

LEMMA MoreFlow ==
  ASSUME NEW w, Fits(w), Ends, Sides, Polite, w.c.state = "PROXYING", Flow(w), w.c.respHdr
  PROVE  LET f == MoreFed(ReadUpstream(w), w)
         IN  /\ Fits(f) /\ f.c.state = "PROXYING"
             /\ \A x, e : x.net = f.net /\ x.c = [f.c EXCEPT !.upEof = e] => Flow(x)
<1> DEFINE v == ReadUpstream(w)
           got == Len(v.c.in) - Len(w.c.in)
           f == FeedResponse(v, got)
           m == Resps[srv.msg]
<1>1. /\ Fits(v) /\ v.c.state = "PROXYING" /\ v.c.respComplete = w.c.respComplete
      /\ v.c.respHdr = w.c.respHdr /\ v.c.resp = w.c.resp /\ v.c.respLeft = w.c.respLeft
  BY ReadPiece
<1>2. ~Waiting(w)
  BY DEF Waiting, NoResp
<1>3. PICK p \in 0..srv.pos : Receiving(w, p)
  BY <1>2, Answers
<1>4. /\ p # 0 /\ w.c.resp = srv.msg
      /\ m.mode \in {"LENGTH", "CHUNKED"} =>
           w.c.respLeft = Total(m) - p /\ w.c.respComplete = (w.c.respLeft = 0)
  BY <1>2, <1>3 DEF Receiving, AnsweredTo
<1>5. PICK l \in 0..(srv.pos - p) : ReadOf(v, w, p, l)
  BY <1>3, ReadAnswer
<1>6. /\ srv.pos \in 1..Total(m) /\ Total(m) \in Nat /\ l \in Nat /\ p \in Nat
      /\ p + l <= Total(m) /\ p + l # 0
  <2>1. script \in Scripts
    BY DEF Fits
  <2>2. srv.pos \in 1..Total(m) /\ Total(m) \in Nat
    BY <1>3, <2>1, SidesAre DEF Receiving
  <2> HIDE DEF m
  <2> QED
    BY <1>3, <1>4, <1>5, <2>2
<1> HIDE DEF v, got, f, m
<1>7. got = l /\ got \in Nat
  BY <1>5, <1>6 DEF ReadOf, got
<1>8. v.c \in Conns /\ v.c.respComplete \in BOOLEAN
  BY <1>1, FitsParts DEF Conns
<1>9. m.mode \in {"LENGTH", "CHUNKED"} =>
        /\ Left(v.c.respLeft, got) = Total(m) - (p + l)
        /\ v.c.respComplete => Left(v.c.respLeft, got) = 0
  <2> SUFFICES ASSUME m.mode \in {"LENGTH", "CHUNKED"}
               PROVE  /\ Left(v.c.respLeft, got) = Total(m) - (p + l)
                      /\ v.c.respComplete => Left(v.c.respLeft, got) = 0
    OBVIOUS
  <2>1. v.c.respLeft = Total(m) - p
    BY <1>1, <1>4
  <2>2. v.c.respComplete => v.c.respLeft = 0
    BY <1>1, <1>4
  <2>3. Left(v.c.respLeft, got) = Total(m) - (p + l)
    BY <1>6, <1>7, <2>1 DEF Left
  <2>4. v.c.respLeft = 0 => Left(v.c.respLeft, got) = 0
    BY <1>7 DEF Left
  <2> QED
    BY <2>2, <2>3, <2>4
<1>10. Fits(f) /\ f.c.state = "PROXYING" /\ f.c = FedConn(v.c, got) /\ f.net = v.net
  BY <1>1, <1>7, FeedFits DEF f
<1>11. ASSUME NEW x, NEW e, x.net = f.net, x.c = [f.c EXCEPT !.upEof = e] PROVE Flow(x)
  <2>1. FedInto(x, v, v.c, got)
    BY <1>10, <1>11 DEF FedInto
  <2>2. p + l # 0 /\ v = ReadUpstream(w)
    BY <1>6 DEF v
  <2>3. TakenOver(v.c, v)
    BY <1>8 DEF TakenOver
  <2>4. Counting(v.c, got, p + l)
    BY <1>1, <1>4, <1>8, <1>9 DEF Counting, m
  <2> QED
    BY <1>3, <1>5, <2>1, <2>2, <2>3, <2>4, FedAnswer
<1> QED
  BY <1>10, <1>11 DEF MoreFed, f, got, v

\* One token is all a header has: with any token there is a verdict.
LEMMA HeaderComes ==
  ASSUME NEW w, Fits(w), Ends, Sides, Polite, NEW p, Receiving(w, p), p = 0, Waiting(w),
         NEW l \in 0..(srv.pos - p), NEW v, ReadOf(v, w, p, l), Parse(Resps, v.c.in) = "more"
  PROVE  l = 0
<1> DEFINE i == srv.msg
<1> SUFFICES ASSUME l # 0 PROVE FALSE
  OBVIOUS
<1>1. /\ i \in 1..Len(Resps) /\ i \in Int /\ l \in Nat /\ Resps[i].hdr = 1 /\ p \in Int
  <2>1. script \in Scripts
    BY DEF Fits
  <2>2. i \in 1..Len(Resps) /\ srv.pos \in Nat /\ Len(Resps) \in Nat
    BY <2>1, SidesAre DEF Receiving
  <2>3. Resps[i].hdr = 1
    BY <2>2 DEF Polite
  <2> QED
    BY <2>2, <2>3
<1> HIDE DEF i
<1>2. v.c.in = <<>> \o Segment(i, p, l)
  BY DEF ReadOf, Waiting, NoResp, i
<1>3. /\ Segment(i, p, l) \in Seq(Toks) /\ Len(Segment(i, p, l)) = l
      /\ (Segment(i, p, l) = <<>> <=> l = 0)
      /\ \A x \in 1..l : Segment(i, p, l)[x] = <<i, p + x>>
  BY <1>1, SegType, Zenon
<1> DEFINE s == Segment(i, p, l)
<1>4. s[1] = <<i, p + 1>>
  BY <1>1, <1>3
<1> HIDE DEF s
<1>5. v.c.in = s
  BY <1>2, <1>3, Nothing DEF s
<1>6. s # <<>> /\ s[1] = <<i, 1>> /\ ~(Len(s) < 1)
  BY <1>1, <1>3, <1>4 DEF s
<1> QED
  BY <1>1, <1>5, <1>6 DEF Parse

\* When none is read, nothing has changed.
LEMMA ReadNone ==
  ASSUME NEW w, Fits(w), Ends, Sides, Polite, w.c.state = "PROXYING", Flow(w),
         NEW p, Receiving(w, p), p = 0, Waiting(w), ReadOf(ReadUpstream(w), w, p, 0)
  PROVE  Faithful(ReadUpstream(w))
<1> DEFINE v == ReadUpstream(w)
<1>1. /\ Fits(v) /\ v.c.inOff = w.c.inOff /\ Rest(v) = Rest(w)
      /\ v.c.respHdr = w.c.respHdr /\ v.c.respComplete = w.c.respComplete
      /\ v.c.resp = w.c.resp /\ v.c.respLeft = w.c.respLeft
      /\ v.c.state = w.c.state /\ v.c.req = w.c.req /\ v.net.u = w.net.u
      /\ v.net.toUp = w.net.toUp /\ v.net.toCli = w.net.toCli
  BY ReadPiece
<1>2. srv.msg \in Int /\ p \in Int /\ srv.pos \in Int
  <2>1. script \in Scripts
    BY DEF Fits
  <2> QED
    BY <2>1, SidesAre DEF Receiving
<1> HIDE DEF v
<1>3. v.net.uRecv = w.net.uRecv
  <2>1. p + 0 = p
    BY <1>2
  <2> QED
    BY <2>1 DEF ReadOf, Receiving, AnsweredTo, v
<1>4. v.c.in = w.c.in
  <2>1. Segment(srv.msg, p, 0) = <<>>
    BY <1>2, SegType
  <2>2. w.c.in \in Seq(Toks)
    BY Streams
  <2>3. v.c.in = w.c.in \o <<>>
    BY <2>1 DEF ReadOf, v
  <2> QED
    BY <2>2, <2>3, Nothing
<1>5. Alike(v, w)
  BY <1>1, <1>3, <1>4 DEF Alike
<1>6. Flow(v) /\ Shown(v)
  BY <1>1, <1>5, SameFlow DEF Shown, Waiting, NoResp
<1> QED
  BY <1>6 DEF Faithful, v

LEMMA GivenUp ==
  ASSUME NEW w, Fits(w), Ends, w.c.state # "CLOSING", Flow(w) PROVE Faithful(ConnClose(w))
<1>1. Links(w) /\ Chained(Resps, 1, Down(w))
  BY DownPrefix DEF Flow
<1> QED
  BY <1>1, CloseFlow DEF Faithful

\* Whatever is fed, what is left may be relayed or given up.
LEMMA FedOn ==
  ASSUME NEW f, Fits(f), Ends, Sides, Polite, f.c.state = "PROXYING", NEW eof \in BOOLEAN,
         \A x, e : x.net = f.net /\ x.c = [f.c EXCEPT !.upEof = e] => Flow(x)
  PROVE  /\ Faithful(ConnClose(f))
         /\ Faithful(ProxyStep([f EXCEPT !.c.upEof = @ \/ eof]))
<1> DEFINE k == [f EXCEPT !.c.upEof = @ \/ eof]
<1>1. /\ Fits(k) /\ k.c.state = "PROXYING" /\ k.c = [f.c EXCEPT !.upEof = f.c.upEof \/ eof]
      /\ k.net = f.net
  BY EofFits
<1> HIDE DEF k
<1>2. Flow(k)
  BY <1>1
<1>3. f.c = [f.c EXCEPT !.upEof = f.c.upEof]
  BY FitsParts DEF Conns
<1>4. Flow(f)
  BY <1>3
<1> QED
  BY <1>1, <1>2, <1>4, GivenUp, ProxyFlow DEF Faithful, k

LEMMA DataFlow ==
  ASSUME Good(World), Ends, Sides, Polite, Faithful(World), NEW b \in ep.batch, UpstreamData(b)
  PROVE  Flowing
<1> DEFINE w == Taken(b)
           v == ReadUpstream(w)
           eof == UpEof(v, b.ev)
           first == ~c.respHdr
           st == IF first THEN Parse(Resps, v.c.in) ELSE "done"
           h == IF first THEN HeaderIn(v) ELSE v
           got == Len(v.c.in) - IF first THEN Resps[v.c.in[1][1]].hdr ELSE Len(c.in)
           fed == FeedResponse(h, got)
           next == [fed EXCEPT !.c.upEof = @ \/ eof]
           W == IF UpDead(v) THEN {ConnClose(v)}
                ELSE IF st = "error" THEN {SendError(v, 502)}
                ELSE IF st = "more" /\ (eof \/ Len(v.c.in) >= Slot) THEN {ConnClose(v)}
                ELSE IF st = "more" THEN {v}
                ELSE IF Garbled(Resps[h.c.resp], fed.c.respLeft) THEN {ConnClose(fed)}
                ELSE {ProxyStep(next)}
<1>1. Become(W) /\ c.state = "PROXYING"
  BY Zenon DEF UpstreamData, HeaderIn
<1>2. /\ Good(w) /\ Fits(w) /\ Faithful(w) /\ Flow(w) /\ w.c = c /\ w.c.state = "PROXYING"
  BY <1>1, TakenFlow, Zenon DEF Faithful
<1> HIDE DEF w
<1>3. Fits(v) /\ v.net \in Nets
  BY <1>2, ReadPiece, FitsParts
<1>4. eof \in BOOLEAN
  BY <1>3 DEF UpEof, Nets
<1>5. Faithful(ConnClose(v))
  BY <1>2, ReadLost
<1>6. ASSUME st = "error" PROVE Faithful(SendError(v, 502))
  <2>1. first
    BY <1>6
  <2>2. CASE Waiting(w)
    BY <1>2, <2>2, ReadLost
  <2>3. CASE ~Waiting(w)
    <3>1. PICK p \in 0..srv.pos : Receiving(w, p)
      BY <1>2, <2>3, Answers
    <3> QED
      BY <1>2, <2>1, <2>3, <3>1 DEF Receiving, AnsweredTo
  <2> QED
    BY <2>2, <2>3
<1>7. ASSUME st = "more" PROVE Faithful(v)
  <2>1. first /\ Parse(Resps, v.c.in) = "more"
    BY <1>7
  <2>2. CASE Silent(w, cli.msg) /\ Waiting(w)
    BY <1>2, <2>2, ReadNothing DEF Silent
  <2>3. CASE ~(Silent(w, cli.msg) /\ Waiting(w))
    <3>1. PICK p \in 0..srv.pos : Receiving(w, p)
      BY <1>2, <2>3, Answers
    <3>2. p = 0 /\ Waiting(w) /\ w.net.uRecv = Segment(srv.msg, p, srv.pos - p)
      BY <1>2, <2>1, <3>1 DEF Receiving, AnsweredTo
    <3>3. PICK l \in 0..(srv.pos - p) : ReadOf(v, w, p, l)
      BY <1>2, <3>1, ReadAnswer
    <3>4. l = 0
      BY <1>2, <2>1, <3>1, <3>2, <3>3, HeaderComes
    <3> QED
      BY <1>2, <3>1, <3>2, <3>3, <3>4, ReadNone
  <2> QED
    BY <2>2, <2>3
<1>8. ASSUME st = "done"
      PROVE  /\ Fits(fed) /\ fed.c.state = "PROXYING"
             /\ \A x, e : x.net = fed.net /\ x.c = [fed.c EXCEPT !.upEof = e] => Flow(x)
  <2>1. CASE first
    <3>1. ~w.c.respHdr /\ Parse(Resps, v.c.in) = "done" /\ fed = FirstFed(v)
      BY <1>2, <1>8, <2>1 DEF FirstFed
    <3> QED
      BY <1>2, <3>1, FirstFlow, Zenon
  <2>2. CASE ~first
    <3>1. w.c.respHdr /\ fed = MoreFed(v, w)
      BY <1>2, <2>2 DEF MoreFed
    <3> DEFINE f == MoreFed(v, w)
    <3>2. /\ Fits(f) /\ f.c.state = "PROXYING"
          /\ \A x, e : x.net = f.net /\ x.c = [f.c EXCEPT !.upEof = e] => Flow(x)
      BY <1>2, <3>1, MoreFlow
    <3>3. fed = f
      BY <3>1
    <3> HIDE DEF f, fed
    <3> QED
      BY <3>2, <3>3
  <2> QED
    BY <2>1, <2>2, Zenon
<1>9. st \in {"more", "error", "done"}
  BY DEF Parse
<1> HIDE DEF v, fed, st, eof, h
<1>10. st = "done" => Faithful(ConnClose(fed)) /\ Faithful(ProxyStep(next))
  BY <1>4, <1>8, FedOn
<1> HIDE DEF next
<1>11. \A r \in W : Faithful(r)
  BY <1>5, <1>6, <1>7, <1>9, <1>10
<1> HIDE DEF W
<1> QED
  BY <1>1, <1>11, BecomeFlow

----------------------------------------------------------------------------
(* From a request in the buffer to an upstream.                            *)

\* A request is in hand and nothing is written of it, nor come back for it.
Open(w) ==
  /\ Links(w) /\ Chained(Resps, 1, Mine(w)) /\ NoResp(w) /\ cli.msg # 0
  /\ Answering(Down(w), cli.msg) /\ w.net.u \in {"none", "up"}
  /\ w.net.toUp = <<>> /\ w.net.uRecv = <<>>
  /\ Asking(UpS(w), cli.msg) /\ Silent(w, cli.msg) /\ Unanswered(w, cli.msg)

\* It is as the client sent it, or as prepare_request wrote it.
Read(w)   == Rest(w) = Segment(cli.msg, 0, cli.pos)
Queued(w) == w.c.req = cli.msg /\ Rest(w) = Segment(cli.msg, 0 - Growth, cli.pos + Growth)

SameAnswer(v, w) ==
  /\ v.c.in = w.c.in /\ v.c.inOff = w.c.inOff /\ v.c.respHdr = w.c.respHdr
  /\ v.c.respComplete = w.c.respComplete /\ v.net.toCli = w.net.toCli

LEMMA NoneHas == \A t : ~Has(<<>>, t)
<1> SUFFICES ASSUME NEW t, Has(<<>>, t) PROVE FALSE
  OBVIOUS
<1> QED
  BY ChainUpTo, ChainEmpty, EmptySeq

LEMMA OpenKeeps ==
  ASSUME NEW w, Fits(w), Ends, Open(w), NEW v, SameAnswer(v, w),
         v.net.toUp = <<>>, v.net.uRecv = <<>>, v.net.u \in {"none", w.net.u}
  PROVE  Open(v)
<1>1. Links(v)
  BY LinksCut DEF Open
<1>2. /\ Down(v) = Down(w) /\ Mine(v) = Mine(w) /\ NoResp(v)
      /\ UpS(v) \in {<<>>, UpS(w)}
  <2>1. Down(v) = Down(w)
    BY DEF Down, SameAnswer
  <2>2. Mine(v) = Mine(w)
    BY <2>1 DEF Mine, SameAnswer
  <2>3. NoResp(v)
    BY DEF NoResp, Open, SameAnswer
  <2>4. UpS(v) \in {<<>>, UpS(w)}
    BY DEF UpS, Open
  <2> QED
    BY <2>1, <2>2, <2>3, <2>4
<1>3. Asking(UpS(v), cli.msg)
  BY <1>2 DEF Asking, Open
<1>4. Silent(v, cli.msg)
  BY DEF Silent, Open
<1>5. Unanswered(v, cli.msg)
  <2>1. CASE UpS(v) = <<>>
    BY <2>1, NoneHas DEF Unanswered
  <2>2. CASE UpS(v) = UpS(w)
    BY <2>2 DEF Unanswered, Open
  <2> QED
    BY <1>2, <2>1, <2>2
<1> QED
  BY <1>1, <1>2, <1>3, <1>4, <1>5 DEF Open

LEMMA OpenError ==
  ASSUME NEW w, Fits(w), Ends, Open(w), NEW code \in Nat
  PROVE  Faithful(SendError(w, code)) /\ Faithful(ConnClose(w))
<1>1. Links(w) /\ Chained(Resps, 1, Down(w)) /\ Between(Down(w))
  BY DownPrefix DEF Open, Answering, Between
<1> QED
  BY <1>1, ErrorFlow, CloseFlow DEF Faithful

LEMMA RoutedOpen ==
  ASSUME NEW w, Routable(w), Ends, Open(w)
  PROVE  Open(Routed(w)) /\ Rest(Routed(w)) = Rest(w) /\ Routed(w).c.req = w.c.req
<1> DEFINE v == Routed(w)
<1>1. /\ v.c.out = w.c.out /\ v.c.outOff = w.c.outOff
      /\ v.c.req = w.c.req /\ v.c.in = w.c.in /\ v.c.inOff = w.c.inOff
      /\ v.c.respHdr = w.c.respHdr /\ v.c.respComplete = w.c.respComplete
      /\ v.net \in {w.net, Dropped(w.net)}
  BY RoutedFits
<1>2. Fits(w) /\ Links(w) /\ w.net.toUp = <<>> /\ w.net.uRecv = <<>>
  BY DEF Routable, Open
<1>3. /\ Dropped(w.net).u = "none" /\ Dropped(w.net).toUp = <<>> /\ Dropped(w.net).uRecv = <<>>
      /\ Dropped(w.net).cRecv = w.net.cRecv /\ Dropped(w.net).toCli = w.net.toCli
  BY <1>2, DroppedIs
<1> HIDE DEF v
<1>4. /\ v.net.toUp = <<>> /\ v.net.uRecv = <<>> /\ v.net.u \in {"none", w.net.u}
      /\ v.net.cRecv = w.net.cRecv /\ v.net.toCli = w.net.toCli
  BY <1>1, <1>2, <1>3
<1>5. Open(v)
  <2>1. SameAnswer(v, w)
    BY <1>1, <1>4 DEF SameAnswer
  <2> QED
    BY <1>2, <1>4, <2>1, OpenKeeps
<1>6. Rest(v) = Rest(w)
  BY <1>1, <1>4 DEF Rest
<1> QED
  BY <1>1, <1>5, <1>6 DEF v

\* hp_rewrite puts a token in front, and takes none away.
LEMMA RewrittenIs ==
  ASSUME script \in Scripts, NEW i \in 1..Len(Reqs)
  PROVE  Rewritten(i) = Segment(i, 0 - Growth, Growth + Reqs[i].hdr)
<1> DEFINE n == Growth + Reqs[i].hdr
           r == Rewritten(i)
           s == Segment(i, 0 - Growth, n)
<1>1. /\ Growth \in Int /\ n \in Nat /\ i \in Int /\ 0 - Growth \in Int
  BY ReqType, ScriptType, Sizes
<1>2. /\ r \in Seq(ReqToks) /\ Len(r) = n /\ \A x \in 1..n : r[x] = <<i, x - Growth>>
  BY RewrittenType
<1>3. r \in Seq(Toks)
  BY <1>2, TokTypes
<1>4. /\ s \in Seq(Toks) /\ Len(s) = n /\ \A x \in 1..n : s[x] = <<i, (0 - Growth) + x>>
  BY <1>1, SegType
<1> HIDE DEF n, r, s
<1>5. \A x \in 1..n : r[x] = s[x]
  <2> SUFFICES ASSUME NEW x \in 1..n PROVE r[x] = s[x]
    OBVIOUS
  <2>1. x - Growth = (0 - Growth) + x
    BY <1>1
  <2> QED
    BY <1>2, <1>4, <2>1
<1>6. r = s
  BY <1>2, <1>3, <1>4, <1>5, SeqEqual
<1> QED
  BY <1>6 DEF r, s, n

LEMMA PreparedIs ==
  ASSUME NEW w, Fits(w), Ends, Sides, Headed(w.c), cli.msg # 0, Read(w)
  PROVE  /\ w.c.out[1][1] = cli.msg
         /\ Prepared(w.c) \o w.net.cRecv = Segment(cli.msg, 0 - Growth, cli.pos + Growth)
<1> DEFINE i == cli.msg
           out == w.c.out
           rcv == w.net.cRecv
           l == Len(out)
           h == Reqs[i].hdr
           z == 0
<1>z. z \in Int /\ z = 0
  OBVIOUS
<1> HIDE DEF z
<1>1. /\ script \in Scripts /\ i \in 1..Len(Reqs) /\ i \in Int /\ cli.pos \in Nat
      /\ Growth \in Int /\ Growth \in Nat
  <2>1. script \in Scripts
    BY DEF Fits
  <2> QED
    BY <2>1, SidesAre
<1>2. out \in Seq(Toks) /\ rcv \in Seq(Toks) /\ l \in Nat
  BY Streams, LenProperties
<1>3. Rest(w) = out \o rcv
  <2>1. w.c.outOff = 0
    BY DEF Headed
  <2>2. Drop(out, 0) = out
    BY <1>2, DropAll
  <2> HIDE DEF Drop
  <2> QED
    BY <2>1, <2>2 DEF Rest
<1> HIDE DEF out, rcv
<1>4. Cut(i, z, cli.pos, out, rcv)
  <2>1. out \o rcv = Segment(i, z, cli.pos)
    BY <1>z, <1>3 DEF Read
  <2> QED
    BY <1>z, <1>1, <1>2, <2>1, SegSplit
<1>5. l \in 0..cli.pos /\ out = Segment(i, z, l) /\ rcv = Segment(i, z + l, cli.pos - l)
  BY <1>4 DEF Cut
<1>6. out # <<>> /\ l # 0
  BY <1>2, EmptySeq DEF Headed, out
<1> HIDE DEF l
<1>7. out[1] = <<i, z + 1>>
  <2>1. \A x \in 1..l : Segment(i, z, l)[x] = <<i, z + x>>
    BY <1>z, <1>1, <1>2, SegType, Zenon
  <2>2. 1 \in 1..l
    BY <1>2, <1>6
  <2> QED
    BY <1>5, <2>1, <2>2
<1>8. out[1][1] = i
  BY <1>7
<1>9. h \in Nat /\ h <= l
  <2>1. Reqs[out[1][1]].hdr <= l
    BY DEF Headed, out, l
  <2> QED
    BY <1>1, <1>8, <2>1, ReqType
<1>10. Drop(out, h) = Segment(i, h, l - h)
  <2>1. h \in 0..Len(out)
    BY <1>2, <1>9 DEF l
  <2> DEFINE a == Take(out, h)
             d == Drop(out, h)
  <2>2. a \in Seq(Toks) /\ d \in Seq(Toks) /\ Len(a) = h /\ a \o d = out
    BY <1>2, <2>1, TakeType, DropType, TakeDropIs, Zenon
  <2> HIDE DEF a, d
  <2>3. a \o d = Segment(i, z, l)
    BY <1>5, <2>2
  <2>4. Cut(i, z, l, a, d)
    BY <1>z, <1>1, <1>2, <2>2, <2>3, SegSplit
  <2>5. d = Segment(i, z + h, l - h)
    BY <2>2, <2>4 DEF Cut
  <2>6. z + h = h
    BY <1>z, <1>9
  <2> QED
    BY <2>5, <2>6 DEF d
<1> DEFINE g == Growth
           r == Rewritten(i)
           b == Segment(i, h, l - h)
<1>11. r = Segment(i, 0 - g, g + h)
  BY <1>1, RewrittenIs
<1>12. Prepared(w.c) = r \o b
  BY <1>8, <1>10 DEF Prepared, out
<1>13. r \o b = Segment(i, 0 - g, g + l)
  <2>1. 0 - g \in Int /\ g + h \in Nat /\ l - h \in Nat /\ (0 - g) + (g + h) = h
        /\ (g + h) + (l - h) = g + l
    <3> HIDE DEF h
    <3>1. g \in Nat /\ h \in Nat /\ l \in Nat /\ h <= l
      BY <1>1, <1>2, <1>9
    <3> HIDE DEF g
    <3>2. (g + h) + (l - h) = g + l
      BY <3>1, Regroup
    <3> QED
      BY <3>1, <3>2
  <2>2. Segment(i, 0 - g, g + h) \o Segment(i, (0 - g) + (g + h), l - h)
          = Segment(i, 0 - g, (g + h) + (l - h))
    BY <1>1, <2>1, SegJoin, Zenon
  <2> QED
    BY <1>11, <2>1, <2>2
<1>14. Segment(i, 0 - g, g + l) \o rcv = Segment(i, 0 - g, cli.pos + g)
  <2>1. 0 - g \in Int /\ g + l \in Nat /\ cli.pos - l \in Nat /\ (0 - g) + (g + l) = z + l
        /\ (g + l) + (cli.pos - l) = cli.pos + g
    BY <1>z, <1>1, <1>2, <1>5
  <2>2. Segment(i, 0 - g, g + l) \o Segment(i, (0 - g) + (g + l), cli.pos - l)
          = Segment(i, 0 - g, (g + l) + (cli.pos - l))
    BY <1>1, <2>1, SegJoin, Zenon
  <2> QED
    BY <1>5, <2>1, <2>2
<1> QED
  BY <1>8, <1>12, <1>13, <1>14 DEF out, rcv

LEMMA WrittenOpen ==
  ASSUME NEW w, Fits(w), Ends, Sides, Headed(w.c), ~(Growth + Len(w.c.out) > Slot),
         Open(w), Read(w)
  PROVE  /\ Fits(Written(w)) /\ Open(Written(w))
         /\ Fits(Ready(w)) /\ Open(Ready(w)) /\ Queued(Ready(w))
<1> DEFINE left == IF Reqs[w.c.out[1][1]].mode = "NONE" THEN 0
                   ELSE Left(Reqs[w.c.out[1][1]].body, Len(w.c.out) - Reqs[w.c.out[1][1]].hdr)
           k == [w.c EXCEPT !.req = w.c.out[1][1], !.out = Prepared(w.c), !.outOff = 0,
                            !.reqLeft = left, !.reqComplete = (left = 0)]
           v == Written(w)
           r == Ready(w)
<1>1. /\ Fits(v) /\ v.c = k /\ v.net = w.net
      /\ Fits(r) /\ r.c = [k EXCEPT !.reqReady = TRUE] /\ r.net = w.net
  BY WrittenFits, Zenon
<1>2. w.c \in Conns
  BY FitsParts
<1> HIDE DEF left, v, r
<1>3. /\ v.c.in = w.c.in /\ v.c.inOff = w.c.inOff /\ v.c.respHdr = w.c.respHdr
      /\ v.c.respComplete = w.c.respComplete
      /\ r.c.in = w.c.in /\ r.c.inOff = w.c.inOff /\ r.c.respHdr = w.c.respHdr
      /\ r.c.respComplete = w.c.respComplete
      /\ r.c.out = Prepared(w.c) /\ r.c.outOff = 0 /\ r.c.req = w.c.out[1][1]
  BY <1>1, <1>2 DEF Conns
<1> HIDE DEF k
<1>4. Open(v) /\ Open(r)
  <2>1. SameAnswer(v, w) /\ SameAnswer(r, w)
    BY <1>1, <1>3 DEF SameAnswer
  <2>2. w.net.toUp = <<>> /\ w.net.uRecv = <<>>
    BY DEF Open
  <2> QED
    BY <1>1, <2>1, <2>2, OpenKeeps
<1>5. Queued(r)
  <2>1. cli.msg # 0
    BY DEF Open
  <2>2. /\ w.c.out[1][1] = cli.msg
        /\ Prepared(w.c) \o w.net.cRecv = Segment(cli.msg, 0 - Growth, cli.pos + Growth)
    BY <2>1, PreparedIs
  <2>3. Drop(r.c.out, 0) = r.c.out
    BY <1>1, Streams, DropAll
  <2> HIDE DEF Drop
  <2>4. Rest(r) = Prepared(w.c) \o w.net.cRecv
    BY <1>1, <1>3, <2>3 DEF Rest
  <2> QED
    BY <1>3, <2>2, <2>4 DEF Queued
<1> QED
  BY <1>1, <1>4, <1>5 DEF v, r

\* What route_and_connect is called with.
Routing(w) ==
  /\ Routable(w) /\ Open(w)
  /\ IF w.c.reqReady THEN Queued(w) ELSE Read(w)

LEMMA PrepQueued ==
  ASSUME NEW w, Routing(w), Ends, Sides
  PROVE  /\ Fits(Prep(w))
         /\ Prep(w).c.state = "CLOSING" => Faithful(Prep(w))
         /\ Prep(w).c.state # "CLOSING" => Open(Prep(w)) /\ Queued(Prep(w))
<1> DEFINE x == Routed(w)
           p == Prep(w)
<1>1. /\ Fits(p) /\ Fits(x) /\ x.c.state = w.c.state /\ Open(x) /\ Rest(x) = Rest(w)
      /\ x.c.req = w.c.req /\ w.c.state \in {"READING", "CONNECTING"}
      /\ ~w.c.reqReady => Headed(x.c)
  <2>1. Routable(w) /\ Open(w)
    BY DEF Routing
  <2>2. Fits(p)
    BY <2>1, PrepFits
  <2>3. Fits(x) /\ x.c.state = w.c.state /\ (~w.c.reqReady => Headed(x.c))
    BY <2>1, RoutedFits
  <2>4. Open(x) /\ Rest(x) = Rest(w) /\ x.c.req = w.c.req
    BY <2>1, RoutedOpen
  <2> QED
    BY <2>1, <2>2, <2>3, <2>4 DEF Routable
<1> HIDE DEF x
<1>2. CASE w.c.reqReady
  <2>1. p = x /\ Queued(w)
    BY <1>2 DEF Prep, x, Routing
  <2>2. Queued(x)
    BY <1>1, <2>1 DEF Queued
  <2> QED
    BY <1>1, <2>1, <2>2
<1>3. CASE ~w.c.reqReady
  <2>1. p = PrepareRequest(x) /\ Read(x) /\ Headed(x.c)
    BY <1>1, <1>3 DEF Prep, x, Routing, Read
  <2>2. \/ p = SendError(x, 503) \/ p = SendError(x, 431)
        \/ /\ ~(Growth + Len(x.c.out) > Slot)
           /\ p \in {SendError(Written(x), 400), Ready(x)}
    BY <2>1, PrepareCases
  <2>3. /\ Faithful(SendError(x, 503)) /\ Faithful(SendError(x, 431))
        /\ SendError(x, 503).c.state = "CLOSING" /\ SendError(x, 431).c.state = "CLOSING"
    <3>1. /\ Faithful(SendError(x, 503)) /\ Faithful(SendError(x, 431))
      BY <1>1, OpenError
    <3>2. /\ SendError(x, 503).c = Closed /\ SendError(x, 431).c = Closed
      BY <1>1, SendErrorFits
    <3> QED
      BY <3>1, <3>2, BlankType
  <2>4. ASSUME ~(Growth + Len(x.c.out) > Slot)
        PROVE  /\ Open(Ready(x)) /\ Queued(Ready(x)) /\ Faithful(SendError(Written(x), 400))
               /\ SendError(Written(x), 400).c.state = "CLOSING"
               /\ Ready(x).c.state # "CLOSING"
    <3>1. /\ Fits(Written(x)) /\ Open(Written(x)) /\ Fits(Ready(x)) /\ Open(Ready(x))
          /\ Queued(Ready(x))
      BY <1>1, <2>1, <2>4, WrittenOpen
    <3>2. Faithful(SendError(Written(x), 400)) /\ SendError(Written(x), 400).c.state = "CLOSING"
      <4>1. 400 \in Nat
        OBVIOUS
      <4>2. Faithful(SendError(Written(x), 400))
        BY <3>1, <4>1, OpenError
      <4>3. SendError(Written(x), 400).c = Closed
        BY <3>1, <4>1, SendErrorFits
      <4> QED
        BY <4>2, <4>3, BlankType
    <3>3. Ready(x).c.state = x.c.state
      BY <1>1, Zenon DEF Fits, Worlds, Ready, Written, Conns
    <3> QED
      BY <1>1, <3>1, <3>2, <3>3
  <2> HIDE DEF p
  <2> QED
    BY <1>1, <2>2, <2>3, <2>4 DEF p
<1> QED
  BY <1>2, <1>3

\* The request begins to be written on a connection that is kept.
LEMMA RelayStart ==
  ASSUME NEW p, Open(p), Queued(p), NEW q, Rest(q) = Rest(p), SameAnswer(q, p),
         q.c.req = p.c.req, q.c.state = "PROXYING", q.net.u = p.net.u, q.net.u # "none",
         q.net.toUp = p.net.toUp, q.net.uRecv = p.net.uRecv, script \in Scripts, Ends, Sides
  PROVE  Flow(q)
<1>1. /\ Links(q) /\ UpS(q) = UpS(p) /\ Down(q) = Down(p)
  BY DEF Open, Links, UpS, Down, SameAnswer
<1>2. Mine(q) = Mine(p) /\ NoResp(q)
  BY <1>1 DEF Mine, NoResp, Open, SameAnswer
<1>3. Waiting(q) /\ Silent(q, cli.msg) /\ Unanswered(q, cli.msg)
  BY <1>1, <1>2 DEF Open, Waiting, Silent, Unanswered
<1>4. AskedTo(q, 0 - Growth) /\ 0 - Growth \in (0 - Growth)..cli.pos
  <2>1. Growth \in 0..1 /\ cli.pos \in Nat
    BY SidesAre
  <2>2. 0 - Growth \in (0 - Growth)..cli.pos /\ cli.pos - (0 - Growth) = cli.pos + Growth
    BY <2>1
  <2> QED
    BY <1>1, <2>2 DEF AskedTo, Queued, Open
<1>5. Relayed(q)
  BY <1>3, <1>4 DEF Relayed, Open, Queued
<1> QED
  BY <1>1, <1>2, <1>5 DEF Flow, Open

\* Or it waits for a connection that is under way.
LEMMA TryStart ==
  ASSUME NEW p, Open(p), Queued(p), NEW q, Rest(q) = Rest(p), SameAnswer(q, p),
         q.c.req = p.c.req, q.c.state = "CONNECTING", q.net.u = "connecting",
         q.net.toUp = p.net.toUp, q.net.uRecv = p.net.uRecv
  PROVE  Faithful(q)
<1>1. Links(q) /\ Down(q) = Down(p)
  BY DEF Open, Links, Down, SameAnswer
<1>2. Mine(q) = Mine(p) /\ NoResp(q)
  BY <1>1 DEF Mine, NoResp, Open, SameAnswer
<1>3. Trying(q)
  BY <1>1, <1>2 DEF Trying, Open, Queued
<1> QED
  BY <1>1, <1>2, <1>3 DEF Flow, Open, Faithful, Shown

LEMMA ConnectFlow ==
  ASSUME NEW q, Fits(q), Ends, Open(q), Queued(q), q.net.u = "none", NEW r \in ConnectLoop(q)
  PROVE  Faithful(r)
<1> DEFINE a == Arm(q, "C", {})
<1>1. Fits(a) /\ a.c = q.c /\ a.net = q.net
  BY ArmFits DEF FDs, Evs
<1>2. \/ r = SendError(a, 502)
      \/ \E f \in 0..((MaxAttempts - a.c.attempts) - 1) : r = Arm(Connecting(a, f), "U", {"W"})
  BY ConnectCases
<1> HIDE DEF a
<1>3. Open(a)
  <2>1. SameAnswer(a, q)
    BY <1>1 DEF SameAnswer
  <2> QED
    BY <1>1, <2>1, OpenKeeps DEF Open
<1>4. CASE r = SendError(a, 502)
  BY <1>1, <1>3, <1>4, OpenError
<1>5. ASSUME NEW f \in 0..((MaxAttempts - a.c.attempts) - 1),
             r = Arm(Connecting(a, f), "U", {"W"})
      PROVE  Faithful(r)
  <2> DEFINE k == Connecting(a, f)
  <2>1. /\ Fits(k) /\ k.net = [a.net EXCEPT !.u = "connecting"]
        /\ k.c = [a.c EXCEPT !.attempts = @ + f + 1, !.be = TRUE, !.state = "CONNECTING"]
    BY <1>1, <1>5, ConnectingFits, Zenon
  <2> HIDE DEF k
  <2>2. {"W"} \in SUBSET Evs
    BY DEF Evs
  <2>3. r.c = k.c /\ r.net = k.net
    BY <1>5, <2>1, <2>2, ArmFits DEF FDs, k
  <2>4. q.c \in Conns /\ q.net \in Nets
    BY FitsParts
  <2>5. /\ r.c.in = q.c.in /\ r.c.inOff = q.c.inOff /\ r.c.respHdr = q.c.respHdr
        /\ r.c.respComplete = q.c.respComplete /\ r.c.out = q.c.out
        /\ r.c.outOff = q.c.outOff /\ r.c.req = q.c.req /\ r.c.state = "CONNECTING"
    BY <1>1, <2>1, <2>3, <2>4 DEF Conns
  <2>6. /\ r.net.u = "connecting" /\ r.net.toUp = q.net.toUp /\ r.net.uRecv = q.net.uRecv
        /\ r.net.toCli = q.net.toCli /\ r.net.cRecv = q.net.cRecv
    BY <1>1, <2>1, <2>3, <2>4 DEF Nets
  <2>7. Rest(r) = Rest(q) /\ SameAnswer(r, q)
    BY <2>5, <2>6 DEF Rest, SameAnswer
  <2> QED
    BY <2>5, <2>6, <2>7, TryStart
<1> QED
  BY <1>2, <1>4, <1>5

LEMMA RelayingFlow ==
  ASSUME NEW q, Fits(q), Ends, Sides, Polite, Open(q), Queued(q), q.net.u # "none"
  PROVE  Faithful(ProxyStep(Arm(Relaying(q), "U", {"R", "W"})))
<1> DEFINE k == Relaying(q)
           a == Arm(k, "U", {"R", "W"})
<1>1. /\ Fits(k) /\ k.c = [q.c EXCEPT !.state = "PROXYING"] /\ k.net = q.net
  BY RelayingFits
<1>2. {"R", "W"} \in SUBSET Evs
  BY DEF Evs
<1>3. Fits(a) /\ a.c = k.c /\ a.net = k.net
  BY <1>1, <1>2, ArmFits DEF FDs
<1> HIDE DEF a, k
<1>4. /\ a.c.in = q.c.in /\ a.c.inOff = q.c.inOff /\ a.c.respHdr = q.c.respHdr
      /\ a.c.respComplete = q.c.respComplete /\ a.c.out = q.c.out
      /\ a.c.outOff = q.c.outOff /\ a.c.req = q.c.req /\ a.c.state = "PROXYING"
      /\ a.net = q.net
  BY <1>1, <1>3, FitsParts DEF Conns
<1>5. Rest(a) = Rest(q) /\ SameAnswer(a, q) /\ script \in Scripts
  BY <1>4 DEF Rest, SameAnswer, Fits
<1>6. Flow(a)
  BY <1>4, <1>5, RelayStart
<1> QED
  BY <1>3, <1>4, <1>6, ProxyFlow DEF Faithful, a, k

LEMMA RouteFlow ==
  ASSUME NEW w, Routing(w), Ends, Sides, Polite, NEW r \in RouteAndConnect(w)
  PROVE  Faithful(r)
<1> DEFINE p == Prep(w)
           q == Both(p)
<1>1. /\ Fits(w) /\ Open(w) /\ Fits(p)
      /\ p.c.state = "CLOSING" => Faithful(p)
      /\ p.c.state # "CLOSING" => Open(p) /\ Queued(p)
  BY PrepQueued DEF Routing, Routable
<1> HIDE DEF p
<1>2. CASE r = SendError(w, 502)
  BY <1>1, <1>2, OpenError
<1>3. CASE p.c.state = "CLOSING" /\ r = p
  BY <1>1, <1>3
<1>4. CASE p.c.state # "CLOSING" /\ r = SendError(p, 503)
  BY <1>1, <1>4, OpenError
<1>5. CASE /\ p.c.state # "CLOSING" /\ ~(~p.c.hasIn /\ p.res.free = 0)
           /\ \/ q.net.u # "none" /\ r = ProxyStep(Arm(Relaying(q), "U", {"R", "W"}))
              \/ q.net.u = "none" /\ r \in ConnectLoop(q)
  <2>1. Fits(q) /\ q.c = [p.c EXCEPT !.hasIn = TRUE] /\ q.net = p.net
    BY <1>1, <1>5, BothFits
  <2> HIDE DEF q
  <2>2. /\ q.c.in = p.c.in /\ q.c.inOff = p.c.inOff /\ q.c.respHdr = p.c.respHdr
        /\ q.c.respComplete = p.c.respComplete /\ q.c.out = p.c.out
        /\ q.c.outOff = p.c.outOff /\ q.c.req = p.c.req
    BY <1>1, <2>1, FitsParts DEF Conns
  <2>3. Open(q) /\ Queued(q)
    <3>1. SameAnswer(q, p) /\ Rest(q) = Rest(p)
      BY <2>1, <2>2 DEF SameAnswer, Rest
    <3>2. q.net.toUp = <<>> /\ q.net.uRecv = <<>>
      BY <1>1, <1>5, <2>1 DEF Open
    <3>3. Open(q)
      BY <1>1, <1>5, <2>1, <3>1, <3>2, OpenKeeps
    <3> QED
      BY <1>1, <1>5, <2>2, <3>1, <3>3 DEF Queued
  <2>4. CASE q.net.u # "none" /\ r = ProxyStep(Arm(Relaying(q), "U", {"R", "W"}))
    BY <2>1, <2>3, <2>4, RelayingFlow
  <2>5. CASE q.net.u = "none" /\ r \in ConnectLoop(q)
    BY <2>1, <2>3, <2>5, ConnectFlow
  <2> QED
    BY <1>5, <2>4, <2>5
<1> HIDE DEF q
<1> QED
  BY <1>2, <1>3, <1>4, <1>5, RouteCases DEF p, q

----------------------------------------------------------------------------
(* The handlers of the client and of the connect.                          *)

\* Before the response, an error of the proxy may be told.
LEMMA RestingLost ==
  ASSUME NEW w, Fits(w), Ends, w.c.state \in {"NEW", "READING"}, Flow(w), NEW code \in Nat
  PROVE  Faithful(SendError(w, code)) /\ Faithful(ConnClose(w))
<1>1. Links(w) /\ Chained(Resps, 1, Down(w)) /\ Resting(w)
  BY DownPrefix DEF Flow
<1>2. Between(Down(w))
  BY <1>1 DEF Resting, Answering, Between
<1> QED
  BY <1>1, <1>2, ErrorFlow, CloseFlow DEF Faithful

\* Once some of a request is there, it is the one in hand.
LEMMA RestingOpen ==
  ASSUME NEW w, Fits(w), Ends, w.c.state = "READING", Flow(w), w.c.out # <<>>, w.c.outOff = 0
  PROVE  Open(w) /\ Read(w)
<1>1. w.c.out \in Seq(Toks) /\ w.net.cRecv \in Seq(Toks)
  BY Streams
<1>2. Rest(w) = w.c.out \o w.net.cRecv
  <2>1. Drop(w.c.out, 0) = w.c.out
    BY <1>1, DropAll
  <2> HIDE DEF Drop
  <2> QED
    BY <2>1 DEF Rest
<1>3. Rest(w) # <<>>
  BY <1>1, <1>2, ConcatEqualIffEmpty
<1>4. Resting(w) /\ Links(w) /\ Chained(Resps, 1, Mine(w))
  BY DEF Flow
<1>5. Current(w) = cli.msg
  BY <1>3 DEF Current
<1>6. Unanswered(w, cli.msg)
  BY <1>4 DEF Unanswered, Resting
<1>7. Read(w) /\ cli.msg # 0
  BY <1>3, <1>4 DEF Read, Resting
<1>8. Silent(w, cli.msg) /\ w.net.uRecv = <<>>
  BY <1>4, <1>5 DEF Resting, Silent
<1>9. /\ Answering(Down(w), cli.msg) /\ Asking(UpS(w), cli.msg) /\ NoResp(w)
      /\ w.net.u \in {"none", "up"} /\ w.net.toUp = <<>>
  BY <1>4, <1>5 DEF Resting
<1> QED
  BY <1>4, <1>6, <1>7, <1>8, <1>9 DEF Open

LEMMA AcceptFlow ==
  ASSUME Good(World), Ends, Sides, Polite, Faithful(World), Accept PROVE Flowing
<1> DEFINE got == [World EXCEPT !.c.state = "READING", !.c.hasOut = TRUE, !.res.free = @ - 1]
           W == IF res.free = 0 THEN {SendError(World, 503)}
                ELSE {Arm(got, "C", {"R"})} \cup IF May("refusal") THEN {ConnClose(got)} ELSE {}
<1>1. Become(W) /\ c.state = "NEW"
  BY DEF Accept
<1>2. Fits(World) /\ World.c.state = "NEW" /\ Flow(World) /\ World.c = c /\ World.net = net
  BY <1>1, WorldIs DEF Good, Faithful
<1>3. Faithful(SendError(World, 503))
  BY <1>2, RestingLost
<1>4. ASSUME res.free # 0
      PROVE  Faithful(Arm(got, "C", {"R"})) /\ Faithful(ConnClose(got))
  <2>1. /\ Fits(got) /\ got.c = [c EXCEPT !.state = "READING", !.hasOut = TRUE]
        /\ got.net = net
    BY <1>1, <1>4, AcceptGood DEF Good
  <2> HIDE DEF got
  <2>2. c \in Conns
    BY <1>2, FitsParts
  <2>3. /\ Alike(got, World) /\ got.c.state = "READING"
    BY <1>2, <2>1, <2>2 DEF Alike, Conns, Rest
  <2>4. Resting(got)
    BY <1>2, <2>3, SameResting DEF Flow
  <2>5. Links(got) /\ Mine(got) = Mine(World)
    BY <1>2, <2>3, AlikeStreams DEF Flow
  <2>6. Flow(got) /\ Shown(got)
    BY <1>2, <2>3, <2>4, <2>5 DEF Flow, Shown
  <2>7. {"R"} \in SUBSET Evs
    BY DEF Evs
  <2>8. Arm(got, "C", {"R"}).c = got.c /\ Arm(got, "C", {"R"}).net = got.net
    BY <2>1, <2>7, ArmFits DEF FDs
  <2>9. Faithful(Arm(got, "C", {"R"}))
    BY <2>6, <2>8, SameParts DEF Faithful
  <2> QED
    BY <2>1, <2>3, <2>6, <2>9, RestingLost
<1> HIDE DEF got
<1>5. \A w \in W : Faithful(w)
  BY <1>3, <1>4
<1> HIDE DEF W
<1> QED
  BY <1>1, <1>5, BecomeFlow

LEMMA RequestFlow ==
  ASSUME Good(World), Ends, Sides, Polite, Faithful(World), NEW b \in ep.batch,
         ClientRequest(b)
  PROVE  Flowing
<1> DEFINE w == Taken(b)
           v == ReadClient(w)
           eof == ClientEof(v, b.ev)
           st == Parse(Reqs, v.c.out)
           k == [v EXCEPT !.c.clientEof = eof]
           W == IF ClientDead(v) THEN {ConnClose(v)}
                ELSE IF eof /\ v.c.out = <<>> THEN {ConnClose(v)}
                ELSE IF st = "error" THEN {SendError(v, 400)}
                ELSE IF st = "more" /\ eof THEN {ConnClose(v)}
                ELSE IF st = "more" /\ Len(v.c.out) >= Slot THEN {SendError(v, 431)}
                ELSE IF st = "more" THEN {v}
                ELSE RouteAndConnect(k)
<1>1. Become(W) /\ c.state = "READING"
  BY DEF ClientRequest
<1>2. Good(w) /\ Fits(w) /\ Faithful(w) /\ w.c = c /\ w.c.state = "READING"
  BY <1>1, TakenFlow
<1> HIDE DEF w
<1>3. /\ Good(v) /\ Fits(v) /\ v.c.state = "READING" /\ v.net \in Nets /\ v.c \in Conns
      /\ v \in Worlds
  <2>1. Good(v) /\ v.c.state = "READING"
    BY <1>2, ReadingGood
  <2> HIDE DEF v
  <2> QED
    BY <2>1, FitsParts DEF Good
<1>4. eof \in BOOLEAN
  BY <1>3 DEF ClientEof, Nets
<1>5. st = "done" => Routable(k)
  BY <1>2, <1>4, ReadingGood
<1>6. st \in {"more", "error", "done"}
  BY DEF Parse
<1>7. Flow(v) /\ Shown(v)
  <2>1. Alike(v, w) /\ v.c.state = w.c.state /\ v.c.req = w.c.req
    BY <1>2, ReadClientAlike
  <2> HIDE DEF v
  <2> QED
    BY <1>2, <1>3, <2>1, SameFlow DEF Faithful, Shown
<1> HIDE DEF v, eof
<1>8. Faithful(ConnClose(v)) /\ Faithful(SendError(v, 400)) /\ Faithful(SendError(v, 431))
  BY <1>3, <1>7, RestingLost
<1>9. ASSUME st = "done", NEW r \in RouteAndConnect(k) PROVE Faithful(r)
  <2>1. k.net = v.net /\ k.c = [v.c EXCEPT !.clientEof = eof]
    BY <1>3, <1>4 DEF Worlds
  <2> HIDE DEF k, st
  <2>2. /\ Routable(k) /\ Fits(k) /\ k.c.state = "READING" /\ k.c.req = v.c.req
    BY <1>3, <1>5, <1>9, <2>1 DEF Routable, Conns
  <2>3. Alike(k, v)
    BY <1>3, <2>1 DEF Alike, Rest, Conns
  <2>4. Flow(k)
    BY <1>3, <1>7, <2>2, <2>3, SameFlow
  <2>5. ~k.c.reqReady /\ k.c.out # <<>> /\ k.c.outOff = 0
    <3>1. ~v.c.reqReady
      BY <1>3 DEF Good, Shape
    <3>2. ~k.c.reqReady
      BY <1>3, <2>1, <3>1 DEF Conns
    <3> QED
      BY <2>2, <3>2 DEF Routable, Headed
  <2>6. Routing(k)
    BY <2>2, <2>4, <2>5, RestingOpen DEF Routing
  <2> QED
    BY <1>9, <2>6, RouteFlow
<1> HIDE DEF k, st
<1>10. \A r \in W : Faithful(r)
  BY <1>6, <1>7, <1>8, <1>9 DEF Faithful
<1> HIDE DEF W
<1> QED
  BY <1>1, <1>10, BecomeFlow

\* The struct with what the tokens of the body tell.
Counted(v, left, done, eof) ==
  [v EXCEPT !.c.reqLeft = left, !.c.reqComplete = done, !.c.clientEof = eof]

LEMMA CountedFits ==
  ASSUME NEW v, Fits(v), v.c.state = "PROXYING", NEW left \in Nat, NEW done \in BOOLEAN,
         NEW eof \in BOOLEAN
  PROVE  LET k == Counted(v, left, done, eof)
         IN  /\ Fits(k) /\ k.c.state = "PROXYING" /\ Alike(k, v) /\ k.c.req = v.c.req
             /\ k.c.upEof = v.c.upEof /\ Follows(k, v)
<1> DEFINE c2 == [v.c EXCEPT !.reqLeft = left, !.reqComplete = done, !.clientEof = eof]
           k == Counted(v, left, done, eof)
<1>1. v \in Worlds /\ v.c \in Conns
  BY FitsParts
<1>2. /\ c2 \in Conns /\ c2.state = v.c.state
      /\ c2.out = v.c.out /\ c2.outOff = v.c.outOff /\ c2.in = v.c.in /\ c2.inOff = v.c.inOff
      /\ c2.attempts = v.c.attempts /\ c2.hasOut = v.c.hasOut /\ c2.hasIn = v.c.hasIn
      /\ c2.req = v.c.req /\ c2.resp = v.c.resp /\ c2.respHdr = v.c.respHdr
      /\ c2.respComplete = v.c.respComplete /\ c2.respLeft = v.c.respLeft
      /\ c2.upEof = v.c.upEof
  BY <1>1 DEF Conns
<1>3. k = [v EXCEPT !.c = c2]
  BY <1>1 DEF Worlds, Counted
<1> HIDE DEF c2, k
<1>4. /\ Fits([v EXCEPT !.c = c2]) /\ [v EXCEPT !.c = c2].c = c2
      /\ [v EXCEPT !.c = c2].net = v.net /\ [v EXCEPT !.c = c2].ep = v.ep
  BY <1>2, SwapFits
<1>5. Alike(k, v) /\ k.c.req = v.c.req
  <2>1. k.c = c2 /\ k.net = v.net
    BY <1>3, <1>4
  <2> QED
    BY <1>2, <2>1 DEF Alike, Rest
<1>6. Follows(k, v)
  BY <1>3, <1>4, FollowsSame
<1> QED
  BY <1>2, <1>3, <1>4, <1>5, <1>6 DEF k

\* The client handler while proxying: the connection is closed, or relays.
LEMMA BodyStep ==
  ASSUME Good(World), NEW b \in ep.batch, ClientBody(b)
  PROVE  LET w == Taken(b)
             v == ReadClient(w)
         IN  /\ c.state = "PROXYING" /\ Fits(w) /\ w.c = c /\ Fits(v)
             /\ \E k : /\ Become({ConnClose(v)}) \/ Become({ProxyStep(k)})
                      /\ Fits(k) /\ k.c.state = "PROXYING" /\ Alike(k, v) /\ k.c.req = v.c.req
                      /\ k.c.upEof = v.c.upEof /\ Follows(k, v)
<1> DEFINE w == Taken(b)
           v == ReadClient(w)
           got == Len(v.c.out) - Len(c.out)
           feed == ~c.reqComplete /\ got > 0
           left == IF feed THEN Left(c.reqLeft, got) ELSE c.reqLeft
           done == IF feed THEN left = 0 ELSE v.c.reqComplete
           eof == v.c.clientEof \/ ClientEof(v, b.ev)
           next == Counted(v, left, done, eof)
           W == IF ClientDead(v) THEN {ConnClose(v)}
                ELSE IF feed /\ Garbled(Reqs[c.req], left) THEN {ConnClose(v)}
                ELSE {ProxyStep(next)}
<1>1. c.state = "PROXYING"
  BY DEF ClientBody
<1>2. Fits(w) /\ w.c = c /\ w.c.state = "PROXYING" /\ w.c \in Conns
  BY <1>1, TakenFits, FitsParts DEF Good
<1>3. /\ Fits(v) /\ v \in Worlds /\ v.c \in Conns /\ v.net \in Nets
      /\ Len(v.c.out) = Len(c.out) + CliRead(w) /\ CliRead(w) \in Nat /\ Len(c.out) \in Nat
  <2>1. Fits(v) /\ CliRead(w) \in 0..Len(w.net.cRecv) /\ Len(v.c.out) = Len(w.c.out) + CliRead(w)
    BY <1>2, ReadClientFits
  <2>2. Len(w.net.cRecv) \in Nat /\ Len(w.c.out) \in Nat
    BY <1>2, FitsParts
  <2> HIDE DEF v, w
  <2> QED
    BY <1>2, <2>1, <2>2, FitsParts
<1>4. v.c.state = "PROXYING"
  <2>1. v.c = [w.c EXCEPT !.out = @ \o Take(w.net.cRecv, CliRead(w))]
    BY <1>2, ReadClientFits
  <2> HIDE DEF v, w
  <2> QED
    BY <1>2, <2>1 DEF Conns
<1>5. Become(W)
  <2>1. next = [v EXCEPT !.c.reqLeft = left,
                         !.c.reqComplete = IF feed THEN left = 0 ELSE @,
                         !.c.clientEof = @ \/ ClientEof(v, b.ev)]
    <3> HIDE DEF v, left, feed
    <3> QED
      BY <1>3 DEF Worlds, Counted
  <2> HIDE DEF next
  <2> QED
    BY <2>1 DEF ClientBody
<1>6. left \in Nat /\ done \in BOOLEAN /\ eof \in BOOLEAN
  <2>1. got \in Nat
    BY <1>3
  <2>2. left \in Nat
    <3>1. c.reqLeft \in Nat
      BY <1>2 DEF Conns
    <3> HIDE DEF got
    <3>2. Left(c.reqLeft, got) \in Nat
      BY <2>1, <3>1 DEF Left
    <3> QED
      BY <3>1, <3>2
  <2>3. v.c.clientEof \in BOOLEAN /\ v.c.reqComplete \in BOOLEAN
    BY <1>3 DEF Conns
  <2>4. ClientEof(v, b.ev) \in BOOLEAN
    BY <1>3 DEF ClientEof, Nets
  <2> HIDE DEF left, feed, v
  <2> QED
    BY <2>2, <2>3, <2>4
<1> HIDE DEF left, done, eof, v, w, feed
<1>7. /\ Fits(next) /\ next.c.state = "PROXYING" /\ Alike(next, v) /\ next.c.req = v.c.req
      /\ next.c.upEof = v.c.upEof /\ Follows(next, v)
  BY <1>3, <1>4, <1>6, CountedFits
<1> HIDE DEF next
<1>8. Become({ConnClose(v)}) \/ Become({ProxyStep(next)})
  BY <1>5
<1> HIDE DEF W
<1> QED
  BY <1>1, <1>2, <1>3, <1>7, <1>8 DEF v, w

LEMMA BodyFlow ==
  ASSUME Good(World), Ends, Sides, Polite, Faithful(World), NEW b \in ep.batch, ClientBody(b)
  PROVE  Flowing
<1> DEFINE w == Taken(b)
           v == ReadClient(w)
<1>1. c.state = "PROXYING" /\ Fits(w) /\ w.c = c /\ Fits(v)
  BY BodyStep
<1>2. PICK k : /\ Become({ConnClose(v)}) \/ Become({ProxyStep(k)})
               /\ Fits(k) /\ k.c.state = "PROXYING" /\ Alike(k, v) /\ k.c.req = v.c.req
  BY BodyStep
<1>3. Faithful(w)
  BY TakenFlow
<1> HIDE DEF w
<1>4. v.c.state = "PROXYING" /\ Flow(v)
  <2>1. Alike(v, w) /\ v.c.state = w.c.state /\ v.c.req = w.c.req
    BY <1>1, ReadClientAlike
  <2> HIDE DEF v
  <2> QED
    BY <1>1, <1>3, <2>1, SameFlow DEF Faithful
<1> HIDE DEF v
<1>5. Flow(k)
  BY <1>2, <1>4, SameFlow
<1>6. Faithful(ConnClose(v)) /\ Faithful(ProxyStep(k))
  BY <1>1, <1>2, <1>4, <1>5, GivenUp, ProxyFlow DEF Faithful
<1>7. (\A r \in {ConnClose(v)} : Faithful(r)) /\ (\A r \in {ProxyStep(k)} : Faithful(r))
  BY <1>6
<1> QED
  BY <1>2, <1>7, BecomeFlow

\* The connect failed: nothing of the request has gone anywhere.
LEMMA TryingOpen ==
  ASSUME NEW w, Fits(w), Ends, w.c.state = "CONNECTING", Flow(w),
         NEW d, Alike(d, [w EXCEPT !.net = Dropped(@)]), d.c.req = w.c.req
  PROVE  Open(d) /\ Queued(d)
<1> DEFINE x == [w EXCEPT !.net = Dropped(@)]
<1>1. Links(w) /\ Trying(w) /\ Chained(Resps, 1, Mine(w))
  BY DEF Flow
<1>2. /\ Dropped(w.net).u = "none" /\ Dropped(w.net).toUp = <<>> /\ Dropped(w.net).uRecv = <<>>
      /\ Dropped(w.net).cRecv = w.net.cRecv /\ Dropped(w.net).toCli = w.net.toCli
  BY <1>1, DroppedIs
<1>3. x.c = w.c /\ x.net = Dropped(w.net)
  BY FitsParts DEF Worlds
<1> HIDE DEF x
<1>4. /\ d.net.u = "none" /\ d.net.toUp = <<>> /\ d.net.uRecv = <<>>
      /\ SameAnswer(d, w) /\ Rest(d) = Rest(x)
  BY <1>2, <1>3 DEF Alike, SameAnswer, x
<1>5. Rest(x) = Rest(w)
  BY <1>2, <1>3 DEF Rest
<1>6. Links(d)
  BY <1>1, <1>4, LinksCut
<1>7. Down(d) = Down(w)
  BY <1>4 DEF Down, SameAnswer
<1>8. Mine(d) = Mine(w) /\ NoResp(d)
  BY <1>1, <1>4, <1>7 DEF Mine, NoResp, SameAnswer, Trying
<1>9. UpS(d) = <<>>
  BY <1>4 DEF UpS
<1>10. Asking(UpS(d), cli.msg) /\ Silent(d, cli.msg) /\ Unanswered(d, cli.msg)
  BY <1>4, <1>9, NoneHas DEF Asking, Silent, Unanswered
<1>11. Open(d)
  BY <1>1, <1>4, <1>6, <1>7, <1>8, <1>10 DEF Open, Trying
<1>12. Queued(d)
  BY <1>1, <1>4, <1>5 DEF Queued, Trying
<1> QED
  BY <1>11, <1>12

\* The connect is done: the request begins to be written on a new connection.
LEMMA TryingRelay ==
  ASSUME NEW w, Fits(w), Ends, Sides, w.c.state = "CONNECTING", Flow(w),
         NEW q, Alike(q, w), q.c.req = w.c.req, q.c.state = "PROXYING"
  PROVE  Flow(q)
<1>1. Links(w) /\ Trying(w) /\ Chained(Resps, 1, Mine(w)) /\ script \in Scripts
  BY DEF Flow, Fits
<1>2. Trying(q) /\ Links(q) /\ Mine(q) = Mine(w)
  BY <1>1, SameTrying, AlikeStreams
<1>3. UpS(q) = <<>>
  <2>1. <<>> \o <<>> = <<>>
    BY EmptySeq, Nothing
  <2> QED
    BY <1>2, <2>1 DEF Trying, UpS
<1>4. Silent(q, cli.msg) /\ Waiting(q) /\ Unanswered(q, cli.msg)
  BY <1>2, <1>3, NoneHas DEF Trying, Silent, Waiting, Unanswered
<1>5. AskedTo(q, 0 - Growth) /\ 0 - Growth \in (0 - Growth)..cli.pos
  <2>1. Growth \in 0..1 /\ cli.pos \in Nat
    BY <1>1, SidesAre
  <2>2. 0 - Growth \in (0 - Growth)..cli.pos /\ cli.pos - (0 - Growth) = cli.pos + Growth
    BY <2>1
  <2>3. Asking(UpS(q), cli.msg)
    BY <1>3 DEF Asking
  <2> QED
    BY <1>2, <2>2, <2>3 DEF AskedTo, Trying
<1>6. Relayed(q)
  BY <1>2, <1>4, <1>5 DEF Relayed, Trying
<1> QED
  BY <1>1, <1>2, <1>6 DEF Flow

LEMMA ResultFlow ==
  ASSUME Good(World), Ends, Sides, Polite, Faithful(World), NEW b \in ep.batch,
         ConnectResult(b)
  PROVE  Flowing
<1> DEFINE w == Taken(b)
           d == DropUpstream(w)
           q == [w EXCEPT !.c.state = "PROXYING", !.res.active = @ + 1]
           a == Arm(q, "U", {"R", "W"})
           W == IF ConnectFailed(b) THEN RouteAndConnect(d) ELSE {ProxyStep(a)}
<1>1. Become(W) /\ c.state = "CONNECTING"
  BY DEF ConnectResult
<1>2. /\ Good(w) /\ Fits(w) /\ Faithful(w) /\ w.c = c /\ w.c.state = "CONNECTING"
      /\ w \in Worlds /\ w.c \in Conns /\ w.net \in Nets /\ w.res \in Shares /\ ConnFits(w.c)
  BY <1>1, TakenFlow, FitsParts DEF Fits
<1> HIDE DEF w
<1>3. Whole(w.c) /\ w.c.reqReady
  BY <1>2 DEF Good, Shape, Whole
<1>4. ASSUME NEW r \in RouteAndConnect(d) PROVE Faithful(r)
  <2>1. Fits(d) /\ d.c = [w.c EXCEPT !.be = FALSE] /\ d.net = Dropped(w.net)
    BY <1>2, DropUpstreamFits
  <2> HIDE DEF d
  <2>2. Routable(d) /\ d.c.reqReady /\ d.c.req = w.c.req
    BY <1>2, <1>3, <2>1 DEF Conns, Routable, Whole
  <2>3. Open(d) /\ Queued(d)
    <3> DEFINE x == [w EXCEPT !.net = Dropped(@)]
    <3>1. x.c = w.c /\ x.net = Dropped(w.net)
      BY <1>2 DEF Worlds
    <3> HIDE DEF x
    <3>2. Alike(d, x)
      BY <1>2, <2>1, <3>1 DEF Alike, Rest, Conns
    <3> QED
      BY <1>2, <2>2, <3>2, TryingOpen DEF Faithful, x
  <2>4. Routing(d)
    BY <2>2, <2>3 DEF Routing
  <2> QED
    BY <1>4, <2>4, RouteFlow
<1>5. Faithful(ProxyStep(a))
  <2> DEFINE c2 == [w.c EXCEPT !.state = "PROXYING"]
             res2 == [w.res EXCEPT !.active = @ + 1]
  <2>1. q = [w EXCEPT !.c = c2, !.res = res2]
    BY <1>2 DEF Worlds
  <2>2. c2 \in Conns /\ ConnFits(c2) /\ InUse(c2) = InUse(w.c) /\ c2.state = "PROXYING"
        /\ c2.req = w.c.req
    BY <1>2 DEF Conns, ConnFits, InUse
  <2>3. res2 \in Shares /\ res2.free = w.res.free
    BY <1>2 DEF Shares
  <2> HIDE DEF c2, res2
  <2>4. q \in Worlds /\ q.c = c2 /\ q.res = res2 /\ q.net = w.net /\ q.ep = w.ep
    BY <1>2, <2>1, <2>2, <2>3 DEF Worlds
  <2> HIDE DEF q
  <2>5. Fits(q)
    BY <1>2, <2>2, <2>3, <2>4 DEF Fits
  <2>6. {"R", "W"} \in SUBSET Evs
    BY DEF Evs
  <2>7. Fits(a) /\ a.c = c2 /\ a.net = w.net
    BY <2>4, <2>5, <2>6, ArmFits DEF FDs
  <2> HIDE DEF a
  <2>8. Alike(a, w)
    BY <1>2, <2>7 DEF Alike, Rest, Conns, c2
  <2>9. Flow(a)
    BY <1>2, <2>2, <2>7, <2>8, TryingRelay DEF Faithful
  <2> QED
    BY <2>2, <2>7, <2>9, ProxyFlow DEF Faithful
<1> HIDE DEF d, a
<1>6. \A r \in W : Faithful(r)
  BY <1>4, <1>5
<1> HIDE DEF W
<1> QED
  BY <1>1, <1>6, BecomeFlow

----------------------------------------------------------------------------
(* The other handlers, and the ends that take what was sent.               *)

\* A client that comes to be gone is closed whatever the state, closed or not.
LEMMA ClosedAnyway ==
  ASSUME NEW w, Fits(w), Ends, Flow(w) PROVE Faithful(ConnClose(w))
<1>1. CASE w.c.state # "CLOSING"
  BY <1>1, GivenUp
<1>2. CASE w.c.state = "CLOSING"
  <2> DEFINE v == ConnClose(w)
  <2>1. Links(w) /\ Ends2(Down(w))
    BY <1>2 DEF Flow
  <2>2. v.c = Closed /\ v.net = [Dropped(w.net) EXCEPT !.cRecv = <<>>]
    BY ConnCloseFits
  <2>3. /\ v.net.u = "none" /\ v.net.toUp = <<>> /\ v.net.uRecv = <<>>
        /\ v.net.toCli = w.net.toCli /\ v.c.state = "CLOSING"
    BY <2>1, <2>2, DroppedIs, BlankType DEF Nets
  <2> HIDE DEF v
  <2>4. Links(v)
    BY <2>1, <2>3, LinksCut
  <2>5. Ends2(Down(v))
    BY <2>1, <2>3 DEF Down
  <2>6. Flow(v) /\ Shown(v)
    BY <2>3, <2>4, <2>5 DEF Flow, Shown
  <2> QED
    BY <2>6 DEF Faithful, v
<1> QED
  BY <1>1, <1>2

\* An idle upstream connection goes without a trace.
LEMMA IdleFlow ==
  ASSUME Good(World), Ends, Faithful(World), NEW b \in ep.batch, IdleUpstream(b)
  PROVE  Flowing
<1> DEFINE w == Taken(b)
           d == DropUpstream(w)
<1>1. Become({d}) /\ c.state = "READING"
  BY DEF IdleUpstream
<1>2. Fits(w) /\ Flow(w) /\ w.c = c /\ w.c \in Conns /\ w.c.state = "READING"
  BY <1>1, TakenFlow, FitsParts DEF Faithful
<1> HIDE DEF w
<1>3. d.c = [w.c EXCEPT !.be = FALSE] /\ d.net = Dropped(w.net) /\ d.net.u = "none"
  BY <1>2, DropUpstreamFits
<1> HIDE DEF d
<1>4. Links(w) /\ Resting(w) /\ Chained(Resps, 1, Mine(w))
  BY <1>2 DEF Flow
<1>5. /\ d.net.toUp = <<>> /\ d.net.uRecv = <<>> /\ d.net.cRecv = w.net.cRecv
      /\ d.net.toCli = w.net.toCli
  BY <1>2, <1>3, <1>4, DroppedIs
<1>6. /\ d.c.state = "READING" /\ d.c.out = w.c.out /\ d.c.outOff = w.c.outOff
      /\ d.c.in = w.c.in /\ d.c.inOff = w.c.inOff /\ d.c.respHdr = w.c.respHdr
      /\ d.c.respComplete = w.c.respComplete
  BY <1>2, <1>3 DEF Conns
<1>7. Rest(d) = Rest(w) /\ Down(d) = Down(w)
  BY <1>5, <1>6 DEF Rest, Down
<1>8. Mine(d) = Mine(w) /\ NoResp(d) /\ Current(d) = Current(w)
  BY <1>2, <1>4, <1>6, <1>7 DEF Mine, NoResp, Resting, Current
<1>9. UpS(d) = <<>>
  BY <1>3 DEF UpS
<1>10. Asking(UpS(d), Current(d)) /\ Silent(d, Current(d)) /\ Unanswered(d, 0)
  BY <1>3, <1>5, <1>9, NoneHas DEF Asking, Silent, Unanswered
<1>11. Resting(d)
  BY <1>3, <1>4, <1>5, <1>7, <1>8, <1>10 DEF Resting
<1>12. Links(d)
  BY <1>2, <1>4, <1>5, LinksCut
<1>13. Faithful(d)
  BY <1>4, <1>6, <1>8, <1>11, <1>12 DEF Faithful, Flow, Shown
<1>14. \A x \in {d} : Faithful(x)
  BY <1>13
<1> QED
  BY <1>1, <1>14, BecomeFlow

LEMMA PlainFlow ==
  ASSUME Good(World), Ends, Faithful(World), NEW b \in ep.batch,
         Skip(b) \/ ClientIgnored(b) \/ ClientReset(b) \/ UpstreamReset(b)
  PROVE  Flowing
<1>1. Fits(Taken(b)) /\ Faithful(Taken(b))
  BY TakenFlow
<1>2. Faithful(ConnClose(Taken(b)))
  BY <1>1, ClosedAnyway DEF Faithful
<1>3. CASE Become({Taken(b)})
  <2>1. \A x \in {Taken(b)} : Faithful(x)
    BY <1>1
  <2> QED
    BY <1>3, <2>1, BecomeFlow
<1>4. CASE Become({ConnClose(Taken(b))})
  <2>1. \A x \in {ConnClose(Taken(b))} : Faithful(x)
    BY <1>2
  <2> QED
    BY <1>4, <2>1, BecomeFlow
<1> QED
  BY <1>3, <1>4 DEF Skip, ClientIgnored, ClientReset, UpstreamReset

LEMMA HandlersFlow ==
  ASSUME Good(World), Ends, Sides, Polite, Faithful(World), Accept \/ Dispatch
  PROVE  Flowing
<1>1. CASE Accept
  BY <1>1, AcceptFlow
<1>2. CASE Dispatch
  <2>1. PICK b \in ep.batch :
          \/ Skip(b)
          \/ ClientReset(b) \/ ClientRequest(b) \/ ClientBody(b) \/ ClientIgnored(b)
          \/ ConnectResult(b) \/ IdleUpstream(b) \/ UpstreamReset(b) \/ UpstreamData(b)
    BY <1>2 DEF Dispatch
  <2> QED
    BY <2>1, PlainFlow, RequestFlow, BodyFlow, ResultFlow, IdleFlow, DataFlow
<1> QED
  BY <1>1, <1>2

----------------------------------------------------------------------------
(* The two ends.                                                           *)

\* Steps that move the streams along and change none of what was said of them.
SameView ==
  /\ script' = script /\ c' = c /\ cli'.msg = cli.msg /\ cli'.pos = cli.pos
  /\ srv'.msg = srv.msg /\ srv'.pos = srv.pos
  /\ net'.cRecv = net.cRecv /\ net'.uRecv = net.uRecv /\ net'.u = net.u
  /\ cli'.got \o net'.toCli = cli.got \o net.toCli
  /\ srv'.got \o net'.toUp = srv.got \o net.toUp
  /\ net.toUp = <<>> => net'.toUp = <<>>
  /\ net.toUp = <<>> => srv'.got = srv.got
  /\ \A t : Has(srv.got, t) => Has(srv'.got, t)

LEMMA ViewFlow ==
  ASSUME SameView, Faithful(World) PROVE Flowing
<1>1. /\ World.c = c /\ World.net = net /\ World'.c = c /\ World'.net = net'
      /\ Reqs' = Reqs /\ Resps' = Resps
  BY DEF World, SameView, Reqs, Resps
<1>2. /\ UpS(World)' = UpS(World) /\ Rest(World)' = Rest(World) /\ Down(World)' = Down(World)
      /\ NoResp(World)' = NoResp(World)
  BY <1>1 DEF UpS, Rest, Down, NoResp, SameView
<1>3. Mine(World)' = Mine(World)
  BY <1>1, <1>2 DEF Mine
<1>4. \A s, i : Asking(s, i)' = Asking(s, i)
  BY <1>1 DEF Asking
<1>5. \A s, i : Answering(s, i)' = Answering(s, i)
  BY <1>1 DEF Answering
<1>6. \A i : Unanswered(World, i)' = Unanswered(World, i)
  BY <1>1, <1>2 DEF Unanswered, SameView
<1>7. \A i : Silent(World, i)' = Silent(World, i)
  BY <1>1 DEF Silent, SameView
<1>8. Current(World)' = Current(World)
  BY <1>1, <1>2 DEF Current, SameView
<1>9. Waiting(World)' = Waiting(World)
  BY <1>1, <1>2, <1>5 DEF Waiting, SameView
<1>10. \A q : AskedTo(World, q)' = AskedTo(World, q)
  BY <1>1, <1>2, <1>4 DEF AskedTo, SameView
<1>11. \A p : AnsweredTo(World, p)' = AnsweredTo(World, p)
  BY <1>1, <1>3, <1>9 DEF AnsweredTo, SameView
<1>12. Resting(World) => Resting(World)'
  BY <1>1, <1>2, <1>4, <1>5, <1>6, <1>7, <1>8 DEF Resting, SameView
<1>13. Trying(World) => Trying(World)'
  BY <1>1, <1>2, <1>5 DEF Trying, SameView
<1>14. Relayed(World) => Relayed(World)'
  BY <1>1, <1>6, <1>7, <1>9, <1>10, <1>11 DEF Relayed, SameView
<1>15. Links(World) => Links(World)'
  BY <1>1 DEF Links, SameView
<1>16. Ends2(Down(World)) => Ends2(Down(World))'
  BY <1>1, <1>2 DEF Ends2
<1>17. Flow(World)'
  BY <1>1, <1>2, <1>3, <1>12, <1>13, <1>14, <1>15, <1>16 DEF Flow, Faithful, SameView
<1>18. Shown(World)'
  BY <1>1 DEF Shown, Faithful
<1> QED
  BY <1>17, <1>18 DEF Flowing

LEMMA FlagsFlow ==
  ASSUME TypeInv, Faithful(World),
         \/ Wait \/ ClientShutdown \/ ClientAbort \/ ServerClose \/ ServerReset
  PROVE  Flowing
<1>1. net \in Nets
  BY NetIs
<1>2. /\ script' = script /\ c' = c /\ cli' = cli /\ srv' = srv
      /\ \/ net' = net
         \/ net' = [net EXCEPT !.cFin = TRUE] \/ net' = [net EXCEPT !.cRst = TRUE]
         \/ net' = [net EXCEPT !.uFin = TRUE] \/ net' = [net EXCEPT !.uRst = TRUE]
  BY DEF Wait, ClientShutdown, ClientAbort, ServerClose, ServerReset, EnvStep
<1>3. /\ net'.cRecv = net.cRecv /\ net'.uRecv = net.uRecv /\ net'.u = net.u
      /\ net'.toCli = net.toCli /\ net'.toUp = net.toUp
  BY <1>1, <1>2 DEF Nets
<1> QED
  BY <1>2, <1>3, ViewFlow DEF SameView

LEMMA ReceiveFlow ==
  ASSUME TypeInv, Faithful(World), ClientReceive \/ ServerReceive PROVE Flowing
<1>1. /\ net \in Nets /\ cli \in Clients /\ srv \in Servers
      /\ cli.got \in Seq(Toks) /\ net.toCli \in Seq(Toks)
      /\ srv.got \in Seq(Toks) /\ net.toUp \in Seq(Toks)
  BY NetIs, Streams, WorldIs DEF TypeInv, Good
<1>2. CASE ClientReceive
  <2>1. /\ script' = script /\ c' = c /\ srv' = srv
        /\ cli' = [cli EXCEPT !.got = @ \o net.toCli] /\ net' = [net EXCEPT !.toCli = <<>>]
    BY <1>2 DEF ClientReceive, EnvStep
  <2>2. /\ net'.cRecv = net.cRecv /\ net'.uRecv = net.uRecv /\ net'.u = net.u
        /\ net'.toCli = <<>> /\ net'.toUp = net.toUp
        /\ cli'.msg = cli.msg /\ cli'.pos = cli.pos /\ cli'.got = cli.got \o net.toCli
    BY <1>1, <2>1 DEF Nets, Clients
  <2>3. (cli.got \o net.toCli) \o <<>> = cli.got \o net.toCli
    BY <1>1, JoinType, Nothing
  <2>4. cli'.got \o net'.toCli = cli.got \o net.toCli
    BY <2>2, <2>3
  <2> QED
    BY <2>1, <2>2, <2>4, ViewFlow DEF SameView
<1>3. CASE ServerReceive
  <2>1. /\ script' = script /\ c' = c /\ cli' = cli /\ net.toUp # <<>>
        /\ srv' = [srv EXCEPT !.got = @ \o net.toUp] /\ net' = [net EXCEPT !.toUp = <<>>]
    BY <1>3 DEF ServerReceive, EnvStep
  <2>2. /\ net'.cRecv = net.cRecv /\ net'.uRecv = net.uRecv /\ net'.u = net.u
        /\ net'.toCli = net.toCli /\ net'.toUp = <<>>
        /\ srv'.msg = srv.msg /\ srv'.pos = srv.pos /\ srv'.got = srv.got \o net.toUp
    BY <1>1, <2>1 DEF Nets, Servers
  <2>3. (srv.got \o net.toUp) \o <<>> = srv.got \o net.toUp
    BY <1>1, JoinType, Nothing
  <2>4. srv'.got \o net'.toUp = srv.got \o net.toUp
    BY <2>2, <2>3
  <2>5. \A t : Has(srv.got, t) => Has(srv'.got, t)
    <3> SUFFICES ASSUME NEW t, Has(srv.got, t) PROVE Has(srv'.got, t)
      OBVIOUS
    <3>1. Has(srv.got \o net.toUp, t)
      BY <1>1, JoinHas
    <3> QED
      BY <2>2, <3>1
  <2> QED
    BY <2>1, <2>2, <2>4, <2>5, ViewFlow DEF SameView
<1> QED
  BY <1>2, <1>3

\* A new upstream connection, or none after all: the server begins afresh.
LEMMA ConnectedFlow ==
  ASSUME TypeInv, Faithful(World), ConnectDone PROVE Flowing
<1>1. /\ script' = script /\ c' = c /\ cli' = cli /\ net.u = "connecting"
      /\ srv' = [got |-> <<>>, msg |-> 0, pos |-> 0]
      /\ \E u \in {"up", "failed"} : net' = [net EXCEPT !.u = u]
  BY DEF ConnectDone, EnvStep
<1>2. net \in Nets
  BY NetIs
<1>3. /\ net'.cRecv = net.cRecv /\ net'.uRecv = net.uRecv /\ net'.u \in {"up", "failed"}
      /\ net'.toCli = net.toCli /\ net'.toUp = net.toUp
      /\ srv'.got = <<>> /\ srv'.msg = 0
  BY <1>1, <1>2 DEF Nets
<1>4. /\ World.c = c /\ World.net = net /\ World'.c = c /\ World'.net = net'
      /\ Reqs' = Reqs /\ Resps' = Resps
  BY <1>1 DEF World, Reqs, Resps
<1>5. Links(World) /\ net.toUp = <<>> /\ net.uRecv = <<>>
  BY <1>1, <1>4 DEF Links, Flow, Faithful
<1>6. <<>> \o <<>> = <<>>
  BY EmptySeq, Nothing
<1>7. UpS(World) = <<>> /\ UpS(World)' = <<>>
  BY <1>1, <1>3, <1>4, <1>5, <1>6 DEF UpS
<1>8. /\ Rest(World)' = Rest(World) /\ Down(World)' = Down(World)
      /\ NoResp(World)' = NoResp(World) /\ Mine(World)' = Mine(World)
  BY <1>1, <1>3, <1>4 DEF Rest, Down, NoResp, Mine
<1>9. \A i : Unanswered(World, i)' /\ Silent(World, i)'
  <2> SUFFICES ASSUME NEW i PROVE Unanswered(World, i)' /\ Silent(World, i)'
    OBVIOUS
  <2>1. Unanswered(World, i)'
    BY <1>7, NoneHas DEF Unanswered
  <2>2. Silent(World, i)'
    BY <1>3, <1>4, <1>5 DEF Silent
  <2> QED
    BY <2>1, <2>2
<1>10. Links(World)'
  <2>1. srv'.got \o net'.toUp = <<>>
    BY <1>3, <1>5, <1>6
  <2>2. Chained(Reqs, 1 - Growth, <<>>)
    BY ChainEmpty
  <2> QED
    BY <1>3, <1>4, <1>5, <2>1, <2>2 DEF Links
<1>11. \A s, i : Asking(s, i)' = Asking(s, i) /\ Answering(s, i)' = Answering(s, i)
  BY <1>4 DEF Asking, Answering
<1>12. c.state \notin {"NEW", "READING", "CLOSING"}
  BY <1>1, <1>4 DEF Flow, Faithful, Resting
<1>13. c.state = "CONNECTING" => Trying(World)'
  BY <1>1, <1>3, <1>4, <1>5, <1>8, <1>11 DEF Trying, Flow, Faithful
<1>14. c.state = "PROXYING" => Relayed(World)'
  <2> SUFFICES ASSUME c.state = "PROXYING" PROVE Relayed(World)'
    OBVIOUS
  <2>1. Relayed(World) /\ Waiting(World)
    BY <1>1, <1>4 DEF Relayed, Flow, Faithful
  <2>2. Waiting(World)'
    BY <1>1, <1>8, <1>11, <2>1 DEF Waiting
  <2>3. \A q : AskedTo(World, q)' = AskedTo(World, q)
    BY <1>1, <1>7, <1>8, <1>11 DEF AskedTo
  <2> QED
    BY <1>1, <1>3, <1>4, <1>9, <2>1, <2>2, <2>3 DEF Relayed
<1>15. Flow(World)'
  BY <1>4, <1>8, <1>10, <1>12, <1>13, <1>14 DEF Flow, Faithful
<1>16. Shown(World)'
  BY <1>4 DEF Shown, Faithful
<1> QED
  BY <1>15, <1>16 DEF Flowing

----------------------------------------------------------------------------
(* The client sends.                                                       *)

LEMMA RespAnswers ==
  ASSUME script \in Scripts, NEW k \in 1..Len(Resps)
  PROVE  /\ Resps[k].answers \in Nat /\ Resps[k].answers # 0 /\ Total(Resps[k]) \in Nat
         /\ k \in Int
<1>1. Len(Resps) \in Nat /\ Resps[k] \in Response
  BY ScriptType, RespType
<1> QED
  BY <1>1 DEF Response, Total

\* With the stream at the end of an answer to an earlier request, the last
\* request cannot have been answered.
LEMMA NotYet ==
  ASSUME NEW w, Fits(w), Ends, Polite, Chained(Resps, 1, Mine(w)),
         Answering(Down(w), cli.msg)
  PROVE  ~Answered(cli.msg)
<1> SUFFICES ASSUME Answered(cli.msg) PROVE FALSE
  OBVIOUS
<1>1. script \in Scripts /\ Len(Resps) \in Nat
  BY ScriptType DEF Fits
<1>2. PICK k \in 1..Len(Resps) : /\ Resps[k].answers = cli.msg
                                 /\ Has(cli.got, <<k, Total(Resps[k])>>)
  BY DEF Answered
<1>3. cli.got \in Seq(Toks) /\ w.net.toCli \in Seq(Toks) /\ Down(w) \in Seq(Toks)
  BY Streams
<1>4. Chained(Resps, 1, Down(w))
  BY DownPrefix
<1>5. Has(Down(w), <<k, Total(Resps[k])>>)
  BY <1>2, <1>3, JoinHas DEF Down
<1>6. /\ Down(w) # <<>>
      /\ <<k, Total(Resps[k])>> = End(Down(w)) \/ Before(<<k, Total(Resps[k])>>, End(Down(w)))
  BY <1>3, <1>4, <1>5, ChainUpTo
<1>7. PICK l \in 1..Len(Resps) : /\ End(Down(w)) = <<l, Total(Resps[l])>>
                                 /\ Resps[l].answers < cli.msg
  BY <1>6 DEF Answering
<1>8. /\ Resps[k].answers \in Nat /\ Resps[l].answers \in Nat
      /\ Total(Resps[k]) \in Nat /\ Total(Resps[l]) \in Nat
  BY <1>1, <1>2, <1>7, RespAnswers
<1>9. k < l \/ k = l
  BY <1>1, <1>2, <1>6, <1>7, <1>8 DEF Before
<1>10. k < l => Resps[k].answers < Resps[l].answers
  BY <1>2, <1>7 DEF Polite
<1> QED
  BY <1>2, <1>7, <1>8, <1>9, <1>10

\* A response that was delivered whole and is still being relayed is one that
\* only the close of its connection delimits.
LEMMA AnswerOver ==
  ASSUME NEW w, Fits(w), Ends, Sides, Polite, w.c.state = "PROXYING", Faithful(w),
         Answered(cli.msg)
  PROVE  cli.msg = Len(Reqs)
<1>1. Flow(w) /\ Chained(Resps, 1, Mine(w)) /\ script \in Scripts
  BY DEF Faithful, Flow, Fits
<1>2. ~Waiting(w)
  BY <1>1, NotYet DEF Waiting
<1>3. PICK p \in 0..srv.pos : Receiving(w, p)
  BY <1>1, <1>2, Answers
<1>4. /\ srv.msg \in 1..Len(Resps) /\ srv.pos \in 1..Total(Resps[srv.msg]) /\ p \in Int
      /\ Total(Resps[srv.msg]) \in Nat /\ srv.msg \in Int /\ Len(Resps) \in Nat
  BY <1>1, <1>3, SidesAre DEF Receiving
<1> DEFINE n == Total(Resps[srv.msg])
           s == Down(w)
           t == Drop(w.c.in, w.c.inOff)
<1>5. /\ p # 0 /\ w.c.respHdr /\ w.c.resp = srv.msg /\ Mine(w) # <<>>
      /\ End(Mine(w)) = <<srv.msg, p>>
      /\ Resps[srv.msg].mode = "NONE" => w.c.respComplete
      /\ Resps[srv.msg].mode \in {"LENGTH", "CHUNKED"} =>
           w.c.respLeft = n - p /\ w.c.respComplete = (w.c.respLeft = 0)
  BY <1>2, <1>3 DEF Receiving, AnsweredTo
<1>6. PICK k \in 1..Len(Resps) : /\ Resps[k].answers = cli.msg
                                 /\ Has(cli.got, <<k, Total(Resps[k])>>)
  BY DEF Answered
<1>7. Resps[srv.msg].answers = cli.msg
  BY <1>3 DEF Receiving
<1>8. k = srv.msg
  <2>1. /\ Resps[k].answers \in Nat /\ k \in Int
        /\ k < srv.msg => Resps[k].answers < Resps[srv.msg].answers
        /\ srv.msg < k => Resps[srv.msg].answers < Resps[k].answers
    BY <1>1, <1>4, <1>6, RespAnswers DEF Polite
  <2> QED
    BY <1>4, <1>6, <1>7, <2>1
<1>9. /\ cli.got \in Seq(Toks) /\ w.net.toCli \in Seq(Toks) /\ s \in Seq(Toks)
      /\ t \in Seq(Toks) /\ Mine(w) \in Seq(Toks) /\ Mine(w) = s \o t
  BY Streams DEF Mine
<1>10. Has(s, <<srv.msg, n>>)
  BY <1>6, <1>8, <1>9, JoinHas DEF Down
<1> HIDE DEF n, s, t
<1>11. Has(Mine(w), <<srv.msg, n>>)
  BY <1>9, <1>10, JoinHas
<1>12. <<srv.msg, n>> = End(Mine(w)) \/ Before(<<srv.msg, n>>, End(Mine(w)))
  BY <1>1, <1>9, <1>11, ChainUpTo
<1>13. p = n
  BY <1>3, <1>4, <1>5, <1>12 DEF Before, n
<1>14. t = <<>>
  <2> SUFFICES ASSUME t # <<>> PROVE FALSE
    OBVIOUS
  <2>1. Before(<<srv.msg, n>>, End(t))
    BY <1>1, <1>9, <1>10, ChainApart
  <2>2. End(Mine(w)) = End(t)
    BY <1>9, EndJoin
  <2> QED
    BY <1>4, <1>5, <1>13, <2>1, <2>2, NotBefore
<1>15. ~(w.c.inOff < Len(w.c.in))
  <2>1. w.c.in \in Seq(Toks) /\ w.c.inOff \in 0..Len(w.c.in) /\ Len(w.c.in) \in Nat
    BY FitsParts, Streams, LenProperties DEF Fits, ConnFits
  <2>2. Len(t) = Len(w.c.in) - w.c.inOff
    BY <2>1, DropType DEF t
  <2>3. Len(t) = 0
    BY <1>14
  <2> QED
    BY <2>1, <2>2, <2>3
<1>16. ~w.c.respComplete
  BY <1>15 DEF Faithful, Shown
<1>17. Resps[srv.msg].mode \notin {"NONE", "LENGTH", "CHUNKED"}
  <2>1. w.c.respComplete \in BOOLEAN
    BY FitsParts DEF Conns
  <2>2. n - p = 0
    BY <1>4, <1>13 DEF n
  <2> QED
    BY <1>5, <1>16, <2>1, <2>2
<1>18. Resps[srv.msg].mode \in Modes
  BY <1>1, <1>4, RespType DEF Response
<1> QED
  BY <1>4, <1>7, <1>17, <1>18 DEF Polite, Modes

\* The rest of the request in hand: it queues up behind what was sent of it.
MoreSent(i, from, n) ==
  /\ script' = script /\ c' = c /\ srv' = srv
  /\ cli'.msg = i /\ cli'.pos = from + n /\ cli'.got = cli.got
  /\ net'.toCli = net.toCli /\ net'.toUp = net.toUp /\ net'.uRecv = net.uRecv
  /\ net'.u = net.u /\ Rest(World)' = Rest(World) \o Segment(i, from, n)

LEMMA SentIs ==
  ASSUME TypeInv, Sides, ClientSend
  PROVE  LET done == cli.msg = 0 \/ cli.pos = Total(Reqs[cli.msg])
             i    == IF done THEN cli.msg + 1 ELSE cli.msg
             from == IF done THEN 0 ELSE cli.pos
         IN  /\ c.state # "CLOSING" /\ i \in 1..Len(Reqs)
             /\ done /\ i > 1 => May("pipelining") \/ Answered(i - 1)
             /\ \E n \in 1..(Total(Reqs[i]) - from) : MoreSent(i, from, n)
<1> DEFINE done == cli.msg = 0 \/ cli.pos = Total(Reqs[cli.msg])
           i == IF done THEN cli.msg + 1 ELSE cli.msg
           from == IF done THEN 0 ELSE cli.pos
<1>1. /\ i <= Len(Reqs) /\ EnvStep /\ srv' = srv /\ c.state # "CLOSING"
      /\ done /\ i > 1 => May("pipelining") \/ Answered(i - 1)
      /\ \E n \in 1..(Total(Reqs[i]) - from) :
              /\ net' = [net EXCEPT !.cRecv = @ \o Segment(i, from, n)]
              /\ cli' = [cli EXCEPT !.msg = i, !.pos = from + n]
  BY Zenon DEF ClientSend, ClientOpen
<1>2. /\ cli.msg \in 0..Len(Reqs) /\ cli.pos \in Nat /\ Len(Reqs) \in Nat
      /\ cli \in Clients /\ net \in Nets
  BY NetIs DEF Clients
<1>3. i \in 1..Len(Reqs) /\ from \in Nat /\ i \in Nat
  BY <1>1, <1>2
<1> HIDE DEF i, from, done
<1>4. Total(Reqs[i]) \in Nat
  BY <1>3, NetIs, ReqType DEF Total
<1>5. PICK n \in 1..(Total(Reqs[i]) - from) :
              /\ net' = [net EXCEPT !.cRecv = @ \o Segment(i, from, n)]
              /\ cli' = [cli EXCEPT !.msg = i, !.pos = from + n]
  BY <1>1, Zenon
<1>6. n \in Nat
  BY <1>3, <1>4
<1>7. /\ net'.cRecv = net.cRecv \o Segment(i, from, n)
      /\ net'.toCli = net.toCli /\ net'.toUp = net.toUp /\ net'.uRecv = net.uRecv
      /\ net'.u = net.u /\ cli'.msg = i /\ cli'.pos = from + n /\ cli'.got = cli.got
  BY <1>2, <1>5 DEF Nets, Clients
<1>8. c' = c /\ script' = script
  BY <1>1 DEF EnvStep
<1>9. Rest(World)' = Rest(World) \o Segment(i, from, n)
  <2> DEFINE a == Drop(c.out, c.outOff)
             b == Segment(i, from, n)
  <2>1. Fits(World) /\ Ends
    BY DEF TypeInv, Good
  <2>2. a \in Seq(Toks) /\ net.cRecv \in Seq(Toks)
    BY <2>1, Streams, WorldIs
  <2>3. b \in Seq(Toks)
    <3>1. i \in Int /\ from \in Int
      BY <1>3
    <3> QED
      BY <1>6, <3>1, SegType
  <2>4. Rest(World)' = a \o net'.cRecv
    BY <1>8 DEF Rest, World
  <2>5. Rest(World) = a \o net.cRecv
    BY DEF Rest, World
  <2>6. net'.cRecv = net.cRecv \o b
    BY <1>7
  <2> HIDE DEF a, b
  <2>7. a \o (net.cRecv \o b) = (a \o net.cRecv) \o b
    BY <2>2, <2>3, Joined
  <2>8. Rest(World)' = Rest(World) \o b
    BY <2>4, <2>5, <2>6, <2>7
  <2> QED
    BY <2>8 DEF b
<1>10. MoreSent(i, from, n)
  BY <1>1, <1>7, <1>8, <1>9 DEF MoreSent
<1> QED
  BY <1>1, <1>3, <1>10 DEF i, from, done

\* What a step of the client leaves as it was.
LEMMA ClientView ==
  ASSUME NEW i, NEW from, NEW n, MoreSent(i, from, n)
  PROVE  /\ World'.c = c /\ World'.net = net' /\ Reqs' = Reqs /\ Resps' = Resps
         /\ UpS(World)' = UpS(World) /\ Down(World)' = Down(World)
         /\ NoResp(World)' = NoResp(World) /\ Mine(World)' = Mine(World)
         /\ (Links(World) => Links(World)')
         /\ \A s, j : Asking(s, j)' = Asking(s, j)
         /\ \A s, j : Answering(s, j)' = Answering(s, j)
         /\ \A j : Unanswered(World, j)' = Unanswered(World, j)
         /\ \A j : Silent(World, j)' = Silent(World, j)
<1>1. World'.c = c /\ World'.net = net' /\ Reqs' = Reqs /\ Resps' = Resps
  BY DEF World, Reqs, Resps, MoreSent
<1>2. World.c = c /\ World.net = net
  BY WorldIs
<1>3. /\ UpS(World)' = UpS(World) /\ Down(World)' = Down(World)
      /\ NoResp(World)' = NoResp(World)
  BY <1>1, <1>2 DEF UpS, Down, NoResp, MoreSent
<1>4. Mine(World)' = Mine(World)
  BY <1>1, <1>2, <1>3 DEF Mine
<1>5. Links(World) => Links(World)'
  BY <1>1, <1>2 DEF Links, MoreSent
<1>6. \A s, j : Asking(s, j)' = Asking(s, j)
  BY <1>1 DEF Asking
<1>7. \A s, j : Answering(s, j)' = Answering(s, j)
  BY <1>1 DEF Answering
<1>8. \A j : Unanswered(World, j)' = Unanswered(World, j)
  BY <1>1, <1>3 DEF Unanswered, MoreSent
<1>9. \A j : Silent(World, j)' = Silent(World, j)
  BY <1>1, <1>2 DEF Silent, MoreSent
<1> QED
  BY <1>1, <1>3, <1>4, <1>5, <1>6, <1>7, <1>8, <1>9

\* More of the request that the client is in.
LEMMA SendOnFlow ==
  ASSUME TypeInv, Sides, Faithful(World), NEW i, NEW from, NEW n \in Nat \ {0},
         i = cli.msg, from = cli.pos, i # 0, c.state # "CLOSING",
         from # Total(Reqs[i]), MoreSent(i, from, n)
  PROVE  Flowing
<1>1. /\ Fits(World) /\ Ends /\ Flow(World) /\ World.c = c /\ World.net = net
      /\ script \in Scripts
  BY WorldIs DEF TypeInv, Good, Faithful, Fits
<1>2. /\ i \in 1..Len(Reqs) /\ i \in Int /\ from \in 1..Total(Reqs[i]) /\ from \in Nat
      /\ Growth \in 0..1
  BY <1>1, SidesAre
<1>3. /\ World'.c = c /\ World'.net = net' /\ Reqs' = Reqs /\ Resps' = Resps
      /\ UpS(World)' = UpS(World) /\ Down(World)' = Down(World)
      /\ NoResp(World)' = NoResp(World) /\ Mine(World)' = Mine(World)
      /\ (Links(World) => Links(World)')
  BY ClientView
<1>4. /\ \A s, j : Asking(s, j)' = Asking(s, j)
      /\ \A s, j : Answering(s, j)' = Answering(s, j)
      /\ \A j : Unanswered(World, j)' = Unanswered(World, j)
      /\ \A j : Silent(World, j)' = Silent(World, j)
  BY ClientView
<1>5. /\ cli'.msg = i /\ cli'.pos = from + n /\ srv' = srv /\ net'.u = net.u
      /\ net'.toUp = net.toUp /\ net'.uRecv = net.uRecv
      /\ Rest(World)' = Rest(World) \o Segment(i, from, n)
  BY DEF MoreSent
<1>6. \A q \in (0 - Growth)..from :
        Rest(World) = Segment(i, q, from - q) => Rest(World)' = Segment(i, q, (from + n) - q)
  <2> SUFFICES ASSUME NEW q \in (0 - Growth)..from, Rest(World) = Segment(i, q, from - q)
               PROVE  Rest(World)' = Segment(i, q, (from + n) - q)
    OBVIOUS
  <2>1. q \in Int /\ from - q \in Nat /\ n \in Nat
    BY <1>2
  <2> DEFINE m == from - q
  <2>2. q + m = from /\ m + n = (from + n) - q /\ m \in Nat
    BY <1>2, <2>1
  <2> HIDE DEF m
  <2>3. Segment(i, q, m) \o Segment(i, q + m, n) = Segment(i, q, m + n)
    <3>1. i \in Int /\ q \in Int /\ m \in Nat /\ n \in Nat
      BY <1>2, <2>1, <2>2
    <3> QED
      BY <3>1, SegJoin, Zenon
  <2> QED
    BY <1>5, <2>2, <2>3 DEF m
<1>7. Rest(World)' # <<>>
  <2>1. Rest(World) \in Seq(Toks)
    BY <1>1, Streams
  <2>2. Segment(i, from, n) \in Seq(Toks) /\ Segment(i, from, n) # <<>>
    <3>1. i \in Int /\ from \in Int /\ n \in Nat /\ n # 0
      BY <1>2
    <3> QED
      BY <3>1, SegType, Zenon
  <2> QED
    BY <1>5, <2>1, <2>2, EndJoin
<1>8. ASSUME c.state \in {"NEW", "READING"} PROVE Resting(World)'
  <2>1. Resting(World)
    BY <1>1, <1>8 DEF Flow
  <2>2. Rest(World) = Segment(i, 0, from)
    BY <1>2, <2>1 DEF Resting
  <2>3. Rest(World)' = Segment(i, 0, from + n)
    BY <1>2, <1>6, <2>2
  <2>4. Rest(World) # <<>>
    <3>1. 0 \in Int /\ from # 0
      BY <1>2
    <3> DEFINE z == 0
    <3>2. z \in Int /\ z = 0
      OBVIOUS
    <3> HIDE DEF z
    <3>3. i \in Int /\ from \in Nat
      BY <1>2
    <3>4. Len(Segment(i, z, from)) = from
      BY <3>2, <3>3, SegType, Zenon
    <3>5. Len(<<>>) = 0
      OBVIOUS
    <3> QED
      BY <2>2, <3>1, <3>2, <3>4, <3>5
  <2>5. Current(World) = i /\ Current(World)' = i
    BY <1>5, <1>7, <2>4 DEF Current
  <2> QED
    BY <1>1, <1>2, <1>3, <1>4, <1>5, <2>1, <2>3, <2>5 DEF Resting
<1>9. ASSUME c.state = "CONNECTING" PROVE Trying(World)'
  <2>1. Trying(World)
    BY <1>1, <1>9 DEF Flow
  <2>2. from - (0 - Growth) = from + Growth /\ (from + n) - (0 - Growth) = (from + n) + Growth
        /\ 0 - Growth \in (0 - Growth)..from
    BY <1>2
  <2>3. Rest(World)' = Segment(i, 0 - Growth, (from + n) + Growth)
    <3>1. Rest(World) = Segment(i, 0 - Growth, from - (0 - Growth))
      BY <2>1, <2>2 DEF Trying
    <3>2. Rest(World)' = Segment(i, 0 - Growth, (from + n) - (0 - Growth))
      BY <1>6, <2>2, <3>1
    <3> QED
      BY <2>2, <3>2
  <2> QED
    BY <1>1, <1>3, <1>4, <1>5, <2>1, <2>3 DEF Trying
<1>10. ASSUME c.state = "PROXYING" PROVE Relayed(World)'
  <2>1. Relayed(World)
    BY <1>1, <1>10 DEF Flow
  <2>2. PICK q \in (0 - Growth)..from : AskedTo(World, q)
    BY <2>1 DEF Relayed
  <2>3. q \in (0 - Growth)..(from + n)
    BY <1>2, <2>2
  <2>4. Rest(World)' = Segment(i, q, (from + n) - q)
    BY <1>6, <2>2 DEF AskedTo
  <2>5. AskedTo(World, q)'
    BY <1>3, <1>4, <1>5, <2>2, <2>3, <2>4 DEF AskedTo
  <2>6. Waiting(World)' = Waiting(World)
    BY <1>3, <1>4, <1>5 DEF Waiting
  <2>7. \A p : AnsweredTo(World, p)' = AnsweredTo(World, p)
    BY <1>1, <1>3, <1>5, <2>6 DEF AnsweredTo
  <2> QED
    BY <1>1, <1>3, <1>4, <1>5, <2>1, <2>3, <2>5, <2>6, <2>7 DEF Relayed
<1>11. Flow(World)'
  BY <1>1, <1>3, <1>8, <1>9, <1>10 DEF Flow
<1>12. Shown(World)'
  BY <1>1, <1>3 DEF Shown, Faithful
<1> QED
  BY <1>11, <1>12 DEF Flowing

\* The first of a request, once the one before it has been answered.
LEMMA SendNextFlow ==
  ASSUME TypeInv, Sides, Polite, Faithful(World), NEW i, NEW from, NEW n \in Nat \ {0},
         i = cli.msg + 1, from = 0, i \in 1..Len(Reqs), c.state # "CLOSING",
         cli.msg # 0 => Answered(cli.msg), MoreSent(i, from, n)
  PROVE  Flowing
<1>1. /\ Fits(World) /\ Ends /\ Flow(World) /\ World.c = c /\ World.net = net
      /\ script \in Scripts /\ Chained(Resps, 1, Mine(World))
  BY WorldIs DEF TypeInv, Good, Faithful, Fits, Flow
<1>2. cli.msg \in Nat /\ i \in Int /\ i # 0 /\ cli.msg # Len(Reqs)
  BY <1>1, SidesAre
<1>3. /\ World'.c = c /\ World'.net = net' /\ Reqs' = Reqs /\ Resps' = Resps
      /\ UpS(World)' = UpS(World) /\ Down(World)' = Down(World)
      /\ NoResp(World)' = NoResp(World) /\ Mine(World)' = Mine(World)
      /\ (Links(World) => Links(World)')
  BY ClientView
<1>4. /\ \A s, j : Asking(s, j)' = Asking(s, j)
      /\ \A s, j : Answering(s, j)' = Answering(s, j)
      /\ \A j : Unanswered(World, j)' = Unanswered(World, j)
      /\ \A j : Silent(World, j)' = Silent(World, j)
  BY ClientView
<1>5. /\ cli'.msg = i /\ cli'.pos = from + n /\ srv' = srv /\ net'.u = net.u
      /\ net'.toUp = net.toUp /\ net'.uRecv = net.uRecv
      /\ Rest(World)' = Rest(World) \o Segment(i, from, n)
  BY DEF MoreSent
<1>6. c.state # "PROXYING"
  <2> SUFFICES ASSUME c.state = "PROXYING" PROVE FALSE
    OBVIOUS
  <2>1. cli.msg # 0
    BY <1>1 DEF Flow, Relayed
  <2> QED
    BY <1>1, <1>2, <2>1, AnswerOver DEF TypeInv
<1>7. c.state # "CONNECTING"
  <2> SUFFICES ASSUME c.state = "CONNECTING" PROVE FALSE
    OBVIOUS
  <2>1. cli.msg # 0 /\ Answering(Down(World), cli.msg)
    BY <1>1 DEF Flow, Trying
  <2> QED
    BY <1>1, <2>1, NotYet
<1>8. c.state \in {"NEW", "READING"}
  BY <1>1, <1>6, <1>7, FitsParts DEF Conns
<1>9. Resting(World)
  BY <1>1, <1>8 DEF Flow
<1>10. Rest(World) = <<>>
  <2> SUFFICES ASSUME Rest(World) # <<>> PROVE FALSE
    OBVIOUS
  <2>1. Current(World) = cli.msg
    BY DEF Current
  <2>2. cli.msg # 0 /\ Answering(Down(World), cli.msg)
    BY <1>9, <2>1 DEF Resting
  <2> QED
    BY <1>1, <2>2, NotYet
<1>11. Segment(i, from, n) \in Seq(Toks) /\ Segment(i, from, n) # <<>>
  <2>1. i \in Int /\ from \in Int /\ n \in Nat /\ n # 0
    BY <1>2
  <2> QED
    BY <2>1, SegType
<1>12. Rest(World)' = Segment(i, 0, from + n) /\ Rest(World)' # <<>>
  <2>1. <<>> \o Segment(i, from, n) = Segment(i, from, n)
    BY <1>11, Nothing
  <2>2. from = 0 /\ from + n = n
    OBVIOUS
  <2> QED
    BY <1>5, <1>10, <1>11, <2>1, <2>2
<1>13. Current(World) = i /\ Current(World)' = i
  BY <1>1, <1>3, <1>5, <1>8, <1>10, <1>12 DEF Current
<1>14. Resting(World)'
  BY <1>1, <1>2, <1>3, <1>4, <1>5, <1>9, <1>12, <1>13 DEF Resting
<1>15. Flow(World)'
  BY <1>1, <1>3, <1>8, <1>14 DEF Flow
<1>16. Shown(World)'
  BY <1>1, <1>3 DEF Shown, Faithful
<1> QED
  BY <1>15, <1>16 DEF Flowing

LEMMA ClientSendFlow ==
  ASSUME TypeInv, Sides, Polite, Faithful(World), ClientSend PROVE Flowing /\ Sides'
<1>1. PICK done : done = (cli.msg = 0 \/ cli.pos = Total(Reqs[cli.msg]))
  OBVIOUS
<1>2. PICK i : i = IF done THEN cli.msg + 1 ELSE cli.msg
  OBVIOUS
<1>3. PICK from : from = IF done THEN 0 ELSE cli.pos
  OBVIOUS
<1>4. /\ c.state # "CLOSING" /\ i \in 1..Len(Reqs)
      /\ done /\ i > 1 => Answered(i - 1)
      /\ \E n \in 1..(Total(Reqs[i]) - from) : MoreSent(i, from, n)
  BY <1>1, <1>2, <1>3, SentIs DEF Polite
<1>5. PICK n \in 1..(Total(Reqs[i]) - from) : MoreSent(i, from, n)
  BY <1>4
<1>6. script \in Scripts /\ Ends
  BY DEF TypeInv, Good, Fits
<1>7. /\ Total(Reqs[i]) \in Nat /\ from \in Nat /\ cli.msg \in Nat
      /\ cli.msg # 0 => cli.pos \in Nat
  BY <1>2, <1>3, <1>4, <1>6, SidesAre DEF Sized
<1>8. n \in Nat \ {0} /\ from + n \in 1..Total(Reqs[i])
  BY <1>5, <1>7
<1>9. Flowing
  <2>1. CASE done
    <3>1. cli.msg # 0 => Answered(cli.msg)
      <4> SUFFICES ASSUME cli.msg # 0 PROVE Answered(cli.msg)
        OBVIOUS
      <4>1. i > 1 /\ i - 1 = cli.msg
        BY <1>2, <1>7, <2>1
      <4> QED
        BY <1>4, <2>1, <4>1
    <3> QED
      BY <1>2, <1>3, <1>4, <1>5, <1>8, <2>1, <3>1, SendNextFlow
  <2>2. CASE ~done
    BY <1>1, <1>2, <1>3, <1>4, <1>5, <1>8, <2>2, SendOnFlow
  <2> QED
    BY <2>1, <2>2
<1>10. Sides'
  <2>1. /\ cli'.msg = i /\ cli'.pos = from + n /\ srv' = srv
        /\ Reqs' = Reqs /\ Resps' = Resps
    BY <1>5 DEF MoreSent, Reqs, Resps
  <2> QED
    BY <1>8, <2>1 DEF Sides
<1> QED
  BY <1>9, <1>10

----------------------------------------------------------------------------
(* The server sends.                                                       *)

\* What the server owes it owes for the request that is not answered yet.
LEMMA OwedIs ==
  ASSUME NEW w, Fits(w), Ends, Polite, Links(w), w.net.u = "up", NEW i, Unanswered(w, i),
         NEW k \in Owed
  PROVE  /\ k \in (srv.msg + 1)..Len(Resps) /\ Resps[k].answers = i
         /\ Has(srv.got, <<i, Total(Reqs[i])>>)
<1> DEFINE a == Resps[k].answers
<1>1. k \in (srv.msg + 1)..Len(Resps) /\ Has(srv.got, <<a, Total(Reqs[a])>>)
  BY DEF Owed, Asked, Polite
<1> HIDE DEF a
<1>2. /\ srv.got \in Seq(Toks) /\ w.net.toUp \in Seq(Toks) /\ UpS(w) = srv.got \o w.net.toUp
      /\ Chained(Reqs, 1 - Growth, srv.got)
  BY Streams, ChainPrefix DEF UpS, Links
<1>3. PICK x \in 1..Len(srv.got) : srv.got[x] = <<a, Total(Reqs[a])>>
  BY <1>1 DEF Has
<1>4. a \in 1..Len(Reqs)
  BY <1>2, <1>3 DEF Chained
<1>5. Has(UpS(w), <<a, Total(Reqs[a])>>)
  BY <1>1, <1>2, JoinHas
<1>6. a = i
  BY <1>1, <1>4, <1>5 DEF Unanswered, a
<1> QED
  BY <1>1, <1>6 DEF a

MoreServed(k, from, n) ==
  /\ script' = script /\ c' = c /\ cli' = cli
  /\ srv'.msg = k /\ srv'.pos = from + n /\ srv'.got = srv.got
  /\ net'.toCli = net.toCli /\ net'.toUp = net.toUp /\ net'.cRecv = net.cRecv
  /\ net'.u = net.u /\ net'.uRecv = net.uRecv \o Segment(k, from, n)

LEMMA ServedIs ==
  ASSUME TypeInv, Sides, ServerSend
  PROVE  /\ net.u = "up"
         /\ \E k \in 1..Len(Resps), from \in Nat, n \in Nat \ {0} :
              /\ \/ Sending /\ k = srv.msg /\ from = srv.pos
                 \/ ~Sending /\ k \in Owed /\ from = 0
              /\ from + n \in 1..Total(Resps[k]) /\ MoreServed(k, from, n)
<1>1. /\ net.u = "up" /\ EnvStep /\ cli' = cli
      /\ \E k \in IF Sending THEN {srv.msg} ELSE {k \in Owed : \A l \in Owed : k <= l} :
           LET from == IF Sending THEN srv.pos ELSE 0
           IN  \E n \in 1..(Total(Resps[k]) - from) :
                 /\ srv' = [srv EXCEPT !.msg = k, !.pos = from + n]
                 /\ net' = [net EXCEPT !.uRecv = @ \o Segment(k, from, n)]
  BY Zenon DEF ServerSend
<1> DEFINE from == IF Sending THEN srv.pos ELSE 0
<1>2. PICK k \in IF Sending THEN {srv.msg} ELSE Owed :
         \E n \in 1..(Total(Resps[k]) - from) :
                 /\ srv' = [srv EXCEPT !.msg = k, !.pos = from + n]
                 /\ net' = [net EXCEPT !.uRecv = @ \o Segment(k, from, n)]
  BY <1>1, Zenon
<1>3. /\ srv.msg \in 0..Len(Resps) /\ srv.pos \in Nat /\ Len(Resps) \in Nat
      /\ srv \in Servers /\ net \in Nets
  BY NetIs DEF Servers
<1>4. k \in 1..Len(Resps) /\ from \in Nat
  <2>1. CASE Sending
    BY <1>2, <1>3, <2>1 DEF Sending
  <2>2. CASE ~Sending
    BY <1>2, <1>3, <2>2 DEF Owed
  <2> QED
    BY <2>1, <2>2
<1>5. \/ Sending /\ k = srv.msg /\ from = srv.pos
      \/ ~Sending /\ k \in Owed /\ from = 0
  BY <1>2
<1> HIDE DEF from
<1>6. Total(Resps[k]) \in Nat
  BY <1>4, NetIs, RespType DEF Total
<1>7. PICK n \in 1..(Total(Resps[k]) - from) :
                 /\ srv' = [srv EXCEPT !.msg = k, !.pos = from + n]
                 /\ net' = [net EXCEPT !.uRecv = @ \o Segment(k, from, n)]
  BY <1>2, Zenon
<1>8. n \in Nat \ {0} /\ from + n \in 1..Total(Resps[k])
  BY <1>4, <1>6, <1>7
<1>9. /\ net'.uRecv = net.uRecv \o Segment(k, from, n)
      /\ net'.toCli = net.toCli /\ net'.toUp = net.toUp /\ net'.cRecv = net.cRecv
      /\ net'.u = net.u /\ srv'.msg = k /\ srv'.pos = from + n /\ srv'.got = srv.got
  BY <1>3, <1>7 DEF Nets, Servers
<1>10. MoreServed(k, from, n)
  BY <1>1, <1>9 DEF MoreServed, EnvStep
<1> QED
  BY <1>1, <1>4, <1>5, <1>8, <1>10

\* What a step of the server leaves as it was.
LEMMA ServerView ==
  ASSUME NEW k, NEW from, NEW n, MoreServed(k, from, n), net.u = "up"
  PROVE  /\ World'.c = c /\ World'.net = net' /\ Reqs' = Reqs /\ Resps' = Resps
         /\ UpS(World)' = UpS(World) /\ Down(World)' = Down(World) /\ Rest(World)' = Rest(World)
         /\ NoResp(World)' = NoResp(World) /\ Mine(World)' = Mine(World)
         /\ (Links(World) => Links(World)') /\ Waiting(World)' = Waiting(World)
         /\ \A q : AskedTo(World, q)' = AskedTo(World, q)
<1>1. World'.c = c /\ World'.net = net' /\ Reqs' = Reqs /\ Resps' = Resps
  BY DEF World, Reqs, Resps, MoreServed
<1>2. World.c = c /\ World.net = net
  BY WorldIs
<1>3. /\ UpS(World)' = UpS(World) /\ Down(World)' = Down(World) /\ Rest(World)' = Rest(World)
      /\ NoResp(World)' = NoResp(World)
  BY <1>1, <1>2 DEF UpS, Down, Rest, NoResp, MoreServed
<1>4. Mine(World)' = Mine(World)
  BY <1>1, <1>2, <1>3 DEF Mine
<1>5. Links(World) => Links(World)'
  BY <1>1, <1>2 DEF Links, MoreServed
<1>6. \A s, j : Asking(s, j)' = Asking(s, j)
  BY <1>1 DEF Asking
<1>7. \A s, j : Answering(s, j)' = Answering(s, j)
  BY <1>1 DEF Answering
<1>8. Waiting(World)' = Waiting(World)
  BY <1>3, <1>7 DEF Waiting, MoreServed
<1>9. \A q : AskedTo(World, q)' = AskedTo(World, q)
  BY <1>1, <1>3, <1>6 DEF AskedTo, MoreServed
<1> QED
  BY <1>1, <1>3, <1>4, <1>5, <1>8, <1>9

\* The first of the response to the request being relayed.
LEMMA AnswerStarts ==
  ASSUME TypeInv, Sides, Polite, Relayed(World), Links(World), net.u = "up", ~Sending,
         NEW k \in Owed, NEW from, from = 0, NEW n \in Nat, MoreServed(k, from, n)
  PROVE  Relayed(World)' /\ Silent(World, cli.msg) /\ Waiting(World)
<1>1. /\ Fits(World) /\ Ends /\ World.c = c /\ World.net = net /\ script \in Scripts
  BY WorldIs DEF TypeInv, Good, Fits
<1>2. Unanswered(World, cli.msg) /\ cli.msg # 0 /\ c.req = cli.msg
  BY <1>1 DEF Relayed
<1>3. /\ k \in (srv.msg + 1)..Len(Resps) /\ Resps[k].answers = cli.msg
      /\ Has(srv.got, <<cli.msg, Total(Reqs[cli.msg])>>)
  BY <1>1, <1>2, OwedIs
<1>4. /\ srv.msg \in 0..Len(Resps) /\ Len(Resps) \in Nat
  BY <1>1, SidesAre
<1>5. k \in 1..Len(Resps) /\ k # srv.msg /\ k \in Int
  BY <1>3, <1>4
<1>6. Silent(World, cli.msg) /\ Waiting(World)
  <2> SUFFICES ASSUME srv.msg # 0, Resps[srv.msg].answers = cli.msg PROVE FALSE
    BY <1>1 DEF Relayed
  <2>1. srv.msg \in 1..Len(Resps) /\ srv.msg < k
    BY <1>3, <1>4
  <2>2. Resps[srv.msg].answers < Resps[k].answers
    BY <1>5, <2>1 DEF Polite
  <2>3. Resps[k].answers \in Nat
    BY <1>1, <1>5, RespAnswers
  <2> QED
    BY <1>3, <2>2, <2>3
<1>7. /\ World'.c = c /\ World'.net = net' /\ Reqs' = Reqs /\ Resps' = Resps
      /\ UpS(World)' = UpS(World) /\ Waiting(World)' = Waiting(World)
      /\ \A q : AskedTo(World, q)' = AskedTo(World, q)
  BY ServerView
<1>8. /\ cli' = cli /\ srv'.msg = k /\ srv'.pos = from + n /\ srv'.got = srv.got /\ c' = c
      /\ net'.u = net.u /\ net'.uRecv = net.uRecv \o Segment(k, from, n)
  BY DEF MoreServed
<1>9. net'.uRecv = Segment(k, 0, n)
  <2>1. k \in Int /\ from \in Int /\ n \in Nat
    BY <1>5
  <2>2. Segment(k, from, n) \in Seq(Toks)
    BY <2>1, SegType
  <2>3. <<>> \o Segment(k, from, n) = Segment(k, from, n)
    BY <2>2, Nothing
  <2> QED
    BY <1>1, <1>6, <1>8, <2>3 DEF Silent
<1>10. 0 \in 0..srv'.pos /\ AnsweredTo(World, 0)'
  <2>1. srv'.pos = n /\ 0 \in 0..n /\ n - 0 = n
    BY <1>8
  <2> QED
    BY <1>6, <1>7, <1>8, <1>9, <2>1 DEF AnsweredTo
<1>11. Unanswered(World, cli.msg)'
  <2> SUFFICES ASSUME NEW l \in (k + 1)..Len(Resps), Resps[l].answers \in 1..Len(Reqs),
                      Has(UpS(World), <<Resps[l].answers, Total(Reqs[Resps[l].answers])>>)
               PROVE  Resps[l].answers = cli.msg
    BY <1>7, <1>8 DEF Unanswered
  <2>1. l \in (srv.msg + 1)..Len(Resps)
    BY <1>3, <1>4
  <2> QED
    BY <1>2, <2>1 DEF Unanswered
<1> QED
  BY <1>1, <1>2, <1>3, <1>5, <1>6, <1>7, <1>8, <1>10, <1>11 DEF Relayed

\* More of the response that the server is in.
LEMMA AnswerGoesOn ==
  ASSUME TypeInv, Sides, Polite, Relayed(World), net.u = "up", Sending,
         NEW k, k = srv.msg, NEW from, from = srv.pos, NEW n \in Nat, MoreServed(k, from, n)
  PROVE  Relayed(World)'
<1>1. /\ Fits(World) /\ Ends /\ World.c = c /\ World.net = net /\ script \in Scripts
  BY WorldIs DEF TypeInv, Good, Fits
<1>2. /\ k \in 1..Len(Resps) /\ k # 0 /\ k \in Int /\ from \in Nat
  BY <1>1, SidesAre DEF Sending
<1>3. ~Silent(World, cli.msg)
  BY <1>1, <1>2, SidesAre DEF Silent, Sending
<1>4. /\ Resps[k].answers = cli.msg /\ Has(srv.got, <<cli.msg, Total(Reqs[cli.msg])>>)
      /\ \E p \in 0..srv.pos : AnsweredTo(World, p)
  BY <1>1, <1>3 DEF Relayed
<1>5. PICK p \in 0..from : AnsweredTo(World, p)
  BY <1>4
<1>6. /\ World'.c = c /\ World'.net = net' /\ Reqs' = Reqs /\ Resps' = Resps
      /\ UpS(World)' = UpS(World) /\ Waiting(World)' = Waiting(World)
      /\ Mine(World)' = Mine(World)
      /\ \A q : AskedTo(World, q)' = AskedTo(World, q)
  BY ServerView
<1>7. /\ cli' = cli /\ srv'.msg = k /\ srv'.pos = from + n /\ srv'.got = srv.got /\ c' = c
      /\ net'.u = net.u /\ net'.uRecv = net.uRecv \o Segment(k, from, n)
  BY DEF MoreServed
<1>8. net'.uRecv = Segment(k, p, (from + n) - p) /\ p \in 0..(from + n)
  <2> DEFINE m == from - p
  <2>1. k \in Int /\ p \in Int /\ m \in Nat /\ n \in Nat
    BY <1>2, <1>5
  <2>2. p + m = from /\ m + n = (from + n) - p /\ p \in 0..(from + n)
    BY <1>2, <1>5
  <2>3. net.uRecv = Segment(k, p, m)
    BY <1>1, <1>5 DEF AnsweredTo
  <2> HIDE DEF m
  <2>4. Segment(k, p, m) \o Segment(k, p + m, n) = Segment(k, p, m + n)
    BY <2>1, SegJoin
  <2> QED
    BY <1>7, <2>2, <2>3, <2>4
<1>9. AnsweredTo(World, p)'
  BY <1>1, <1>2, <1>5, <1>6, <1>7, <1>8 DEF AnsweredTo
<1>10. Unanswered(World, cli.msg)'
  BY <1>6, <1>7 DEF Unanswered, Relayed
<1> QED
  BY <1>1, <1>2, <1>4, <1>6, <1>7, <1>8, <1>9, <1>10 DEF Relayed

----------------------------------------------------------------------------
(* The invariant is kept.                                                  *)

LEMMA ServerSendFlow ==
  ASSUME TypeInv, Sides, Polite, Faithful(World), ServerSend
  PROVE  Flowing /\ Sides' /\ c.state = "PROXYING"
<1>1. net.u = "up"
  BY ServedIs
<1>2. PICK k \in 1..Len(Resps), from \in Nat, n \in Nat \ {0} :
        /\ \/ Sending /\ k = srv.msg /\ from = srv.pos
           \/ ~Sending /\ k \in Owed /\ from = 0
        /\ from + n \in 1..Total(Resps[k]) /\ MoreServed(k, from, n)
  BY ServedIs
<1>3. /\ Fits(World) /\ Ends /\ Flow(World) /\ Links(World) /\ World.c = c /\ World.net = net
      /\ script \in Scripts /\ Chained(Resps, 1, Mine(World))
  BY <1>1, WorldIs DEF TypeInv, Good, Faithful, Fits, Flow
<1>4. c.state \notin {"NEW", "READING"}
  <2> SUFFICES ASSUME Resting(World) PROVE FALSE
    BY <1>3 DEF Flow
  <2>1. ~Sending
    BY <1>1, <1>3, SidesAre DEF Resting, Silent, Sending
  <2>2. k \in Owed /\ Unanswered(World, 0)
    BY <1>2, <2>1 DEF Resting
  <2> DEFINE z == 0
  <2>3. z = 0 /\ Unanswered(World, z)
    BY <2>2
  <2> HIDE DEF z
  <2>4. Resps[k].answers = z
    BY <1>1, <1>3, <2>2, <2>3, OwedIs
  <2> QED
    BY <1>2, <1>3, <2>3, <2>4, RespAnswers
<1>5. c.state # "CONNECTING"
  <2> SUFFICES ASSUME Trying(World) PROVE FALSE
    BY <1>3 DEF Flow
  <2>1. srv.got = <<>> /\ srv.msg = 0
    BY <1>1, <1>3 DEF Trying
  <2>2. k \in Owed
    BY <1>2, <2>1 DEF Sending
  <2>3. \E t : Has(srv.got, t)
    BY <2>2 DEF Owed, Asked
  <2> QED
    BY <2>1, <2>3, NoneHas
<1>6. c.state = "PROXYING"
  BY <1>1, <1>3, <1>4, <1>5, FitsParts DEF Conns, Flow
<1>7. Relayed(World)
  BY <1>3, <1>6 DEF Flow
<1>8. Relayed(World)'
  <2>1. n \in Nat
    OBVIOUS
  <2>2. CASE Sending /\ k = srv.msg /\ from = srv.pos
    BY <1>1, <1>2, <1>7, <2>1, <2>2, AnswerGoesOn
  <2>3. CASE ~Sending /\ k \in Owed /\ from = 0
    BY <1>1, <1>2, <1>3, <1>7, <2>1, <2>3, AnswerStarts
  <2> QED
    BY <1>2, <2>2, <2>3
<1>9. /\ World'.c = c /\ World'.net = net' /\ Reqs' = Reqs /\ Resps' = Resps
      /\ Mine(World)' = Mine(World) /\ (Links(World) => Links(World)')
  BY <1>1, <1>2, ServerView
<1>10. Flow(World)'
  BY <1>3, <1>6, <1>8, <1>9 DEF Flow
<1>11. Shown(World)'
  BY <1>3, <1>9 DEF Shown, Faithful
<1>12. Sides'
  <2>1. cli' = cli /\ srv'.msg = k /\ srv'.pos = from + n
    BY <1>2 DEF MoreServed
  <2> QED
    BY <1>2, <1>9, <2>1 DEF Sides
<1> QED
  BY <1>6, <1>10, <1>11, <1>12 DEF Flowing

----------------------------------------------------------------------------
(* The invariant.                                                          *)

LEMMA StreamInit == Init => StreamInv
<1> SUFFICES ASSUME Init PROVE StreamInv
  OBVIOUS
<1>1. TypeInv
  BY TypeInit
<1>2. /\ c = Blank /\ net.toUp = <<>> /\ net.uRecv = <<>> /\ net.u = "none" /\ net.toCli = <<>>
      /\ net.cRecv = <<>> /\ cli.msg = 0 /\ cli.got = <<>> /\ srv.got = <<>> /\ srv.msg = 0
  BY DEF Init
<1>3. /\ c.state = "NEW" /\ c.out = <<>> /\ c.outOff = 0 /\ c.in = <<>> /\ c.inOff = 0
      /\ ~c.respHdr /\ ~c.respComplete
  BY <1>2 DEF Blank
<1>4. World.c = c /\ World.net = net
  BY WorldIs
<1>5. <<>> \o <<>> = <<>>
  BY EmptySeq, Nothing
<1>6. Drop(<<>>, 0) = <<>>
  BY EmptySeq, DropAll
<1> HIDE DEF Drop
<1>7. Rest(World) = <<>> /\ Down(World) = <<>> /\ UpS(World) = <<>>
  BY <1>2, <1>3, <1>4, <1>5, <1>6 DEF Rest, Down, UpS
<1>8. Mine(World) = <<>>
  BY <1>3, <1>4, <1>5, <1>6, <1>7 DEF Mine
<1>9. Links(World)
  BY <1>2, <1>4, <1>5, ChainEmpty DEF Links
<1>10. Unanswered(World, 0)
  BY <1>7, NoneHas DEF Unanswered
<1>11. Resting(World)
  BY <1>2, <1>3, <1>4, <1>7, <1>10 DEF Resting, NoResp, Answering, Asking, Silent
<1>12. Chained(Resps, 1, Mine(World))
  BY <1>8, ChainEmpty
<1>13. Flow(World) /\ Shown(World)
  BY <1>3, <1>4, <1>9, <1>11, <1>12 DEF Flow, Shown
<1> QED
  BY <1>1, <1>2, <1>13 DEF StreamInv, Sides

LEMMA StreamNext ==
  ASSUME Mannered PROVE StreamInv /\ [Next]_vars => StreamInv'
<1> SUFFICES ASSUME StreamInv, [Next]_vars PROVE StreamInv'
  OBVIOUS
<1>1. TypeInv /\ Sides /\ Faithful(World) /\ Good(World) /\ Ends
  BY DEF StreamInv, Faithful, TypeInv
<1>2. Polite
  BY <1>1, Manners DEF Good, Fits
<1>3. TypeInv'
  BY <1>1, TypeNext
<1>4. ASSUME Flowing, Sides' PROVE StreamInv'
  BY <1>3, <1>4 DEF StreamInv, Flowing
<1>5. ASSUME cli'.msg = cli.msg, cli'.pos = cli.pos, srv'.msg = srv.msg, srv'.pos = srv.pos,
             script' = script
      PROVE  Sides'
  BY <1>1, <1>5 DEF Sides, Reqs, Resps
<1>6. cli \in Clients /\ srv \in Servers
  BY <1>1, NetIs
<1>7. CASE Accept \/ Dispatch
  <2>1. cli' = cli /\ srv' = srv /\ script' = script
    BY <1>1, <1>7, HandlersSteady DEF Steady
  <2> QED
    BY <1>1, <1>2, <1>4, <1>5, <1>7, <2>1, HandlersFlow
<1>8. CASE Wait \/ ClientShutdown \/ ClientAbort \/ ServerClose \/ ServerReset
  <2>1. cli' = cli /\ srv' = srv /\ script' = script
    BY <1>8 DEF Wait, ClientShutdown, ClientAbort, ServerClose, ServerReset, EnvStep
  <2> QED
    BY <1>1, <1>4, <1>5, <1>8, <2>1, FlagsFlow
<1>9. CASE ClientReceive \/ ServerReceive
  <2>1. /\ cli'.msg = cli.msg /\ cli'.pos = cli.pos /\ srv'.msg = srv.msg
        /\ srv'.pos = srv.pos /\ script' = script
    BY <1>6, <1>9 DEF ClientReceive, ServerReceive, EnvStep, Clients, Servers
  <2> QED
    BY <1>1, <1>4, <1>5, <1>9, <2>1, ReceiveFlow
<1>10. CASE ConnectDone
  <2>1. cli' = cli /\ script' = script /\ srv'.msg = 0
    BY <1>10 DEF ConnectDone, EnvStep
  <2>2. Sides'
    BY <1>1, <2>1 DEF Sides, Reqs
  <2> QED
    BY <1>1, <1>4, <1>10, <2>2, ConnectedFlow
<1>11. CASE ClientSend
  BY <1>1, <1>2, <1>4, <1>11, ClientSendFlow
<1>12. CASE ServerSend
  BY <1>1, <1>2, <1>4, <1>12, ServerSendFlow
<1>13. CASE UNCHANGED vars
  <2>1. /\ script' = script /\ c' = c /\ net' = net /\ cli' = cli /\ srv' = srv
    BY <1>13 DEF vars
  <2>2. SameView
    BY <2>1 DEF SameView
  <2> QED
    BY <1>1, <1>4, <1>5, <2>1, <2>2, ViewFlow
<1> QED
  BY <1>7, <1>8, <1>9, <1>10, <1>11, <1>12, <1>13 DEF Next, Loop, Environment

\* With peers that keep to the protocol, what is said of the two streams holds
\* after every handler of connection.c and every step of either end.
THEOREM StreamAlways == ASSUME Mannered PROVE Spec => []StreamInv
BY StreamInit, StreamNext, PTL DEF Spec

\* What the client is sent is whole responses in the order of the script, each
\* to its last token before the next one begins, and a response made up by the
\* proxy only comes between two of them, as the last thing before the close
\* (drain_write, finish_response, send_error, on_upstream_event).
THEOREM ClientWhole == ASSUME Mannered PROVE Spec => []ClientStream
<1>1. StreamInv => ClientStream
  <2> SUFFICES ASSUME StreamInv PROVE ClientStream
    OBVIOUS
  <2> DEFINE s == ToClient
  <2>1. /\ Fits(World) /\ Ends /\ Flow(World) /\ World.c = c /\ World.net = net
        /\ Down(World) = s /\ s \in Seq(Toks)
    BY WorldIs, Streams DEF StreamInv, TypeInv, Good, Down, ToClient
  <2>2. Len(s) \in Nat /\ Len(Resps) \in Nat
    BY <2>1, LenProperties, ScriptType DEF Fits
  <2> HIDE DEF s
  <2> DEFINE Good1(n) ==
        LET t == s[n]
            starts == n = 1 \/ \E k \in 1..Len(Resps) : /\ s[n - 1] = <<k, Total(Resps[k])>>
                                                        /\ IsErr(t) \/ k < t[1]
        IN  IF IsErr(t) THEN starts /\ n = Len(s) /\ c.state = "CLOSING"
            ELSE IF t[2] = 1 THEN starts
            ELSE n > 1 /\ s[n - 1] = <<t[1], t[2] - 1>>
  <2>3. ASSUME NEW d \in Seq(Toks), Chained(Resps, 1, d), NEW n \in 1..Len(d),
               d[n] = s[n], n > 1 => d[n - 1] = s[n - 1]
        PROVE  Good1(n)
    <3>1. /\ d[n][1] \in 1..Len(Resps) /\ d[n][2] \in 1..Total(Resps[d[n][1]])
          /\ IF d[n][2] > 1 THEN n > 1 /\ d[n - 1] = <<d[n][1], d[n][2] - 1>>
             ELSE n > 1 => \E k \in 1..(d[n][1] - 1) : d[n - 1] = <<k, Total(Resps[k])>>
      BY <2>3 DEF Chained
    <3>2. ~IsErr(s[n]) /\ d[n][1] \in Int /\ d[n][2] \in Int /\ n \in Nat
      BY <2>2, <2>3, <3>1 DEF IsErr
    <3>3. CASE d[n][2] > 1
      BY <2>3, <3>1, <3>2, <3>3
    <3>4. CASE ~(d[n][2] > 1)
      <4>1. d[n][2] = 1
        BY <3>1, <3>2, <3>4
      <4>2. n = 1 \/ n > 1
        BY <2>3, <3>2
      <4>3. n > 1 => \E k \in 1..Len(Resps) : /\ s[n - 1] = <<k, Total(Resps[k])>>
                                             /\ k < s[n][1]
        BY <2>2, <2>3, <3>1, <3>2, <4>1
      <4> QED
        BY <2>3, <3>2, <4>1, <4>2, <4>3
    <3> QED
      BY <3>3, <3>4
  <2>4. ASSUME Chained(Resps, 1, s) PROVE \A n \in 1..Len(s) : Good1(n)
    BY <2>1, <2>3, <2>4
  <2>5. ASSUME c.state # "CLOSING" PROVE \A n \in 1..Len(s) : Good1(n)
    BY <2>1, <2>4, <2>5, DownPrefix DEF Flow
  <2>6. ASSUME c.state = "CLOSING", ~Chained(Resps, 1, s), NEW n \in 1..Len(s) PROVE Good1(n)
    <3> DEFINE d == Take(s, Len(s) - 1)
    <3>1. /\ s # <<>> /\ IsErr(End(s)) /\ Chained(Resps, 1, d)
          /\ d = <<>> \/ \E k \in 1..Len(Resps) : End(d) = <<k, Total(Resps[k])>>
      BY <2>1, <2>6 DEF Flow, Ends2
    <3>2. Len(s) - 1 \in 0..Len(s) /\ Len(s) # 0
      BY <2>1, <2>2, <2>6
    <3>3. /\ d \in Seq(Toks) /\ Len(d) = Len(s) - 1
          /\ \A x \in 1..(Len(s) - 1) : d[x] = s[x]
      BY <2>1, <3>2, TakeType
    <3> HIDE DEF d
    <3>4. CASE n = Len(s)
      <4>1. IsErr(s[n])
        BY <3>1, <3>4 DEF End
      <4>2. n = 1 \/ \E k \in 1..Len(Resps) : s[n - 1] = <<k, Total(Resps[k])>>
        <5>1. CASE d = <<>>
          <6>1. Len(d) = 0
            BY <5>1
          <6> QED
            BY <2>2, <3>2, <3>3, <3>4, <6>1
        <5>2. CASE d # <<>>
          <6>1. PICK k \in 1..Len(Resps) : End(d) = <<k, Total(Resps[k])>>
            BY <3>1, <5>2
          <6>2. Len(d) # 0
            BY <3>3, <5>2, EmptySeq
          <6>3. Len(d) \in 1..(Len(s) - 1) /\ Len(d) = n - 1
            BY <2>2, <3>2, <3>3, <3>4, <6>2
          <6> QED
            BY <3>3, <6>1, <6>3 DEF End
        <5> QED
          BY <5>1, <5>2
      <4> QED
        BY <2>6, <3>4, <4>1, <4>2
    <3>5. CASE n # Len(s)
      <4>1. n \in 1..Len(d) /\ d[n] = s[n] /\ (n > 1 => d[n - 1] = s[n - 1])
        BY <2>2, <2>6, <3>3, <3>5
      <4> QED
        BY <2>3, <3>1, <3>3, <4>1
    <3> QED
      BY <3>4, <3>5
  <2>7. \A n \in 1..Len(s) : Good1(n)
    BY <2>4, <2>5, <2>6
  <2> QED
    BY <2>7 DEF ClientStream, s
<1> QED
  BY <1>1, StreamAlways, PTL

\* An upstream connection carries whole requests, each to its last token before
\* the next one begins, from the first byte that prepare_request wrote on
\* (drain_write, route_and_connect, on_upstream_event).
THEOREM UpstreamWhole == ASSUME Mannered PROVE Spec => []UpstreamStream
<1>1. StreamInv => UpstreamStream
  <2> SUFFICES ASSUME StreamInv PROVE UpstreamStream
    OBVIOUS
  <2>1. Chained(Reqs, 1 - Growth, ToUpstream)
    BY WorldIs DEF StreamInv, Flow, Links, ToUpstream
  <2> QED
    BY <2>1 DEF UpstreamStream, Chained
<1> QED
  BY <1>1, StreamAlways, PTL

\* Between requests the upstream connection has nothing in flight in either
\* direction and the server owes nothing on it (start_next_request).
THEOREM IdleKept == ASSUME Mannered PROVE Spec => []KeptIdle
<1>1. Mannered /\ StreamInv => KeptIdle
  <2> SUFFICES ASSUME Mannered, StreamInv, c.state = "READING", net.u = "up"
               PROVE  net.toUp = <<>> /\ ~Sending /\ Owed = {} /\ net.uRecv = <<>>
    BY DEF KeptIdle
  <2>1. /\ Fits(World) /\ Ends /\ Flow(World) /\ Links(World) /\ World.c = c /\ World.net = net
        /\ script \in Scripts /\ Sides /\ Polite
    BY WorldIs, Manners DEF StreamInv, TypeInv, Good, Flow, Fits
  <2>2. Resting(World)
    BY <2>1 DEF Flow
  <2>3. ~Sending
    BY <2>1, <2>2, SidesAre DEF Resting, Silent, Sending
  <2>4. ASSUME NEW k \in Owed PROVE FALSE
    <3> DEFINE z == 0
    <3>1. z = 0 /\ Unanswered(World, z)
      BY <2>2 DEF Resting
    <3> HIDE DEF z
    <3>2. k \in (srv.msg + 1)..Len(Resps) /\ Resps[k].answers = z
      BY <2>1, <2>4, <3>1, OwedIs
    <3>3. k \in 1..Len(Resps)
      BY <2>1, <3>2, SidesAre
    <3> QED
      BY <2>1, <3>1, <3>2, <3>3, RespAnswers
  <2> QED
    BY <2>1, <2>2, <2>3, <2>4 DEF Resting, Silent
<1> QED
  BY <1>1, StreamAlways, PTL

LEMMA DropHas ==
  ASSUME NEW s \in Seq(Toks), NEW n \in 0..Len(s), NEW x, Has(Drop(s, n), x)
  PROVE  Has(s, x)
<1>1. Take(s, n) \in Seq(Toks) /\ Drop(s, n) \in Seq(Toks)
  BY TakeType, DropType
<1>2. Take(s, n) \o Drop(s, n) = s
  BY TakeDropIs
<1> HIDE DEF Take, Drop
<1>3. Has(Take(s, n) \o Drop(s, n), x)
  BY <1>1, JoinHas
<1> QED
  BY <1>2, <1>3

\* What ends with a token has it, be it with the client or in the buffer.
LEMMA EndRead ==
  ASSUME StreamInv, NEW x, Mine(World) # <<>>, End(Mine(World)) = x
  PROVE  Has(ToClient \o c.in, x)
<1> DEFINE s == Down(World)
           t == Drop(c.in, c.inOff)
<1>1. Fits(World) /\ Ends /\ World.c = c /\ World.net = net
  BY WorldIs DEF StreamInv, TypeInv, Good
<1>2. /\ s \in Seq(Toks) /\ t \in Seq(Toks) /\ c.in \in Seq(Toks) /\ c.inOff \in 0..Len(c.in)
      /\ Mine(World) \in Seq(Toks) /\ Mine(World) = s \o t /\ s = ToClient
  BY <1>1, Streams, FitsParts DEF Mine, Down, ToClient, Fits, ConnFits, Conns
<1>3. Has(Mine(World), x)
  <2>1. Len(Mine(World)) \in Nat
    BY <1>2, LenProperties
  <2>2. Len(Mine(World)) \in 1..Len(Mine(World))
    BY <1>2, <2>1, EmptySeq
  <2> QED
    BY <2>2 DEF Has, End
<1> HIDE DEF s
<1>4. Has(s, x) \/ Has(t, x)
  <2> HIDE DEF t
  <2> QED
    BY <1>2, <1>3, HasJoin
<1>5. Has(s, x) \/ Has(c.in, x)
  BY <1>2, <1>4, DropHas
<1>6. Has(s \o c.in, x)
  BY <1>2, <1>5, JoinHas
<1> QED
  BY <1>2, <1>6

\* A response is only complete while it is relayed.
LEMMA CompleteRelayed ==
  ASSUME Mannered, StreamInv, c.respComplete
  PROVE  /\ Fits(World) /\ Ends /\ Sides /\ Polite /\ World.c = c /\ World.net = net
         /\ c.state = "PROXYING" /\ Relayed(World) /\ ~Waiting(World)
<1>1. /\ Fits(World) /\ Ends /\ Flow(World) /\ World.c = c /\ World.net = net /\ Shape(c)
      /\ script \in Scripts /\ Sides /\ Polite /\ c \in Conns
  BY WorldIs, FitsParts, Manners DEF StreamInv, TypeInv, Good, Fits
<1>2. c.state = "PROXYING"
  <2>1. c.state # "CLOSING"
    BY <1>1 DEF Shape, Closed, Blank
  <2>2. c.state \notin {"NEW", "READING"}
    BY <1>1 DEF Flow, Resting, NoResp
  <2>3. c.state # "CONNECTING"
    BY <1>1 DEF Flow, Trying, NoResp
  <2> QED
    BY <1>1, <2>1, <2>2, <2>3 DEF Conns
<1>3. Relayed(World) /\ ~Waiting(World)
  BY <1>1, <1>2 DEF Flow, Waiting, NoResp
<1> QED
  BY <1>1, <1>2, <1>3

\* A response with a length or in chunks, or without a body, that is taken for
\* complete has been read to its last token (feed_response_body,
\* on_upstream_event), whatever the size of the others.
THEOREM CompleteIsWhole ==
  ASSUME Mannered PROVE Spec => [](Resps[c.resp].mode # "UNTIL_CLOSE" => NotTruncated)
<1>1. Mannered /\ StreamInv => (Resps[c.resp].mode # "UNTIL_CLOSE" => NotTruncated)
  <2> SUFFICES ASSUME Mannered, StreamInv, Resps[c.resp].mode # "UNTIL_CLOSE", c.respComplete
               PROVE  Has(ToClient \o c.in, <<c.resp, Total(Resps[c.resp])>>)
    BY DEF NotTruncated
  <2>1. /\ Fits(World) /\ Ends /\ Sides /\ Polite /\ World.c = c
        /\ Relayed(World) /\ ~Waiting(World)
    BY CompleteRelayed
  <2>2. c.resp = srv.msg
    BY <2>1 DEF Relayed, AnsweredTo
  <2>3. Mine(World) # <<>> /\ End(Mine(World)) = <<c.resp, Total(Resps[c.resp])>>
    BY <2>1, <2>2, WholeAnswer
  <2> QED
    BY <2>3, EndRead
<1> QED
  BY <1>1, StreamAlways, PTL

----------------------------------------------------------------------------
(* Responses that end with the connection.                                 *)

\* Such a response fits the buffer.
Roomy ==
  \A s \in Scripts : \A k \in 1..Len(s.resps) :
    s.resps[k].mode = "UNTIL_CLOSE" => Total(s.resps[k]) <= Slot

\* An event of the batch that reports the end of the server's stream is of this upstream.
Single(w) == \A a, b \in w.ep.batch : a.fd = b.fd => a = b
Warned(w) ==
  w.net.u # "none" =>
    \A b \in w.ep.batch : b.fd = "U" /\ "E" \in b.ev /\ "X" \notin b.ev => w.net.uFin
\* The server ends its stream between two responses.
Over(w) == w.net.uFin => w.net.u = "up" /\ ~Sending
Calm(w) == Single(w) /\ Warned(w) /\ Over(w)

\* The buffer has room for what the server has sent, and the end of the stream is
\* noted with all of it read.
Room(w) ==
  /\ w.net.u = "up" => Len(w.c.in) + Len(w.net.uRecv) <= srv.pos
  /\ w.c.upEof => /\ w.net.uFin
                  /\ srv.msg # 0 /\ Resps[srv.msg].mode = "UNTIL_CLOSE" => w.net.uRecv = <<>>
  /\ w.c.respComplete /\ Resps[w.c.resp].mode = "UNTIL_CLOSE" => w.c.upEof

Heard(w) ==
  /\ Single(w) /\ Over(w)
  /\ w.c.state # "CONNECTING" => Warned(w)
  /\ w.c.state # "PROXYING" => ~w.c.upEof
  /\ w.c.state = "PROXYING" => Room(w)

LEMMA CalmFollows ==
  ASSUME NEW v, NEW w, Calm(w), Follows(v, w) PROVE Calm(v)
BY DEF Calm, Single, Warned, Over, Follows

\* Whoever is closed, from whatever state.
LEMMA ClosedHeard ==
  ASSUME NEW v, NEW w, Single(w), Over(w), Follows(v, w), v.c = Closed, v.net.u = "none"
  PROVE  Heard(v)
<1>1. v.c.state = "CLOSING" /\ ~v.c.upEof
  BY BlankType
<1>2. Single(v) /\ Over(v) /\ Warned(v)
  BY DEF Single, Over, Warned, Follows
<1> QED
  BY <1>1, <1>2 DEF Heard

LEMMA GivenUpHeard ==
  ASSUME NEW w, Fits(w), Single(w), Over(w), NEW code \in Nat
  PROVE  Heard(ConnClose(w)) /\ Heard(SendError(w, code))
<1>1. /\ ConnClose(w).c = Closed /\ Follows(ConnClose(w), w)
      /\ ConnClose(w).net = [Dropped(w.net) EXCEPT !.cRecv = <<>>]
  BY ConnCloseFits
<1>2. SendError(w, code).c = Closed /\ Follows(SendError(w, code), w)
      /\ SendError(w, code).net.u = "none"
  BY SendErrorFits
<1>3. ConnClose(w).net.u = "none"
  <2>1. w.net \in Nets
    BY FitsParts
  <2>2. Dropped(w.net) \in Nets /\ Dropped(w.net).u = "none"
    BY <2>1, NoUpstreamType DEF Dropped
  <2> QED
    BY <1>1, <2>2 DEF Nets
<1> QED
  BY <1>1, <1>2, <1>3, ClosedHeard

\* What proxy_step leaves in the buffer, and of the upstream.
LEMMA SettledRoom ==
  ASSUME NEW w, Fits(w), Calm(w), Room(w), Ends PROVE Room(Settled(w))
<1> DEFINE a == WriteUpstream(w)
           b == WriteClient(a)
           d == Settled(w)
<1>1. Fits(a) /\ Fits(b) /\ Fits(d)
  BY WriteUpstreamFits, WriteClientFits, SettledFits, Zenon
<1>2. /\ a.c.in = w.c.in /\ a.c.resp = w.c.resp /\ a.c.respHdr = w.c.respHdr
      /\ a.c.upEof = w.c.upEof /\ a.c.respComplete = w.c.respComplete
      /\ a.net.uRecv = w.net.uRecv /\ a.net.u = w.net.u
  BY WritesKeep, Zenon
<1>3. /\ b.c.resp = a.c.resp /\ b.c.upEof = a.c.upEof /\ b.c.respComplete = a.c.respComplete
      /\ b.net.uRecv = a.net.uRecv /\ b.net.u = a.net.u
  BY <1>1, WritesKeep, Zenon
<1>4. b.c.in = <<>> \/ b.c.in = a.c.in
  <2>1. PICK x, end, off : b.c = [a.c EXCEPT !.in = x, !.inOff = off]
                           /\ x = IF end THEN <<>> ELSE a.c.in
    BY <1>1, WriteClientFits, Zenon
  <2>2. a.c \in Conns
    BY <1>1, FitsParts
  <2>3. b.c.in = x
    BY <2>1, <2>2 DEF Conns
  <2> QED
    BY <2>1, <2>3
<1>5. b = Moved(w)
  BY DEF Moved
<1>6. /\ d.c.in = b.c.in /\ d.c.resp = b.c.resp /\ d.c.upEof = b.c.upEof
      /\ d.c.respComplete => b.c.respComplete \/ b.c.upEof
      /\ d.net.uRecv = b.net.uRecv /\ d.net.u = b.net.u /\ Follows(d, w)
  BY <1>5, SettledFits, Zenon
<1> HIDE DEF a, b, d
<1>7. w.c \in Conns /\ w.net \in Nets /\ w.c.in \in Seq(Toks) /\ w.net.uRecv \in Seq(Toks)
  BY Streams, FitsParts
<1>8. Len(w.c.in) \in Nat /\ Len(w.net.uRecv) \in Nat /\ Len(<<>>) = 0
  BY <1>7, LenProperties, EmptySeq
<1>9. w.c.upEof => d.net.uFin
  BY <1>2, <1>3, <1>6 DEF Room, Calm, Over, Follows
<1>10. d.net.u = "up" => Len(d.c.in) + Len(d.net.uRecv) <= srv.pos
  <2>1. w.net.u = "up" => Len(w.c.in) + Len(w.net.uRecv) <= srv.pos
    BY DEF Room
  <2>2. srv.pos \in Nat
    BY DEF Ends, Servers
  <2>3. d.net.u = w.net.u /\ d.net.uRecv = w.net.uRecv
    BY <1>2, <1>3, <1>6
  <2>4. d.c.in = <<>> \/ d.c.in = w.c.in
    BY <1>2, <1>4, <1>6
  <2>5. Len(d.c.in) \in Nat /\ Len(d.c.in) <= Len(w.c.in)
    BY <1>8, <2>4
  <2> DEFINE x == Len(d.c.in)
             y == Len(w.c.in)
             z == Len(w.net.uRecv)
  <2>6. x \in Nat /\ y \in Nat /\ z \in Nat /\ x <= y
    BY <1>8, <2>5
  <2>7. w.net.u = "up" => y + z <= srv.pos
    BY <2>1
  <2> HIDE DEF x, y, z
  <2>8. w.net.u = "up" => x + z <= srv.pos
    BY <2>2, <2>6, <2>7
  <2> QED
    BY <2>3, <2>8 DEF x, z
<1>11. d.c.upEof = w.c.upEof /\ d.c.resp = w.c.resp /\ d.net.uRecv = w.net.uRecv
       /\ (d.c.respComplete => w.c.respComplete \/ w.c.upEof)
  BY <1>2, <1>3, <1>6
<1> QED
  BY <1>9, <1>10, <1>11 DEF Room, d

\* The relay step keeps what is known of the end.
LEMMA ProxyHeard ==
  ASSUME NEW w, Fits(w), Ends, w.c.state = "PROXYING", Calm(w), Room(w)
  PROVE  Heard(ProxyStep(w))
<1> DEFINE a == WriteUpstream(w)
           d == Settled(w)
<1>1. /\ Fits(a) /\ Fits(d) /\ d.c.state = "PROXYING" /\ Follows(a, w) /\ Follows(d, w)
  BY WriteUpstreamFits, WritesKeep, SettledFits, Zenon
<1>2. ProxyStep(w) = IF w.net.u # "none" /\ UpBroken(w) THEN ConnClose(w)
                     ELSE IF CliBroken(a) THEN ConnClose(a)
                     ELSE IF d.c.respComplete /\ ~InPending(d) THEN FinishResponse(d)
                     ELSE IF d.c.upEof /\ ~d.c.respComplete /\ ~InPending(d) THEN ConnClose(d)
                     ELSE UpdateMasks(d)
  BY DEF ProxyStep, Settled, Moved
<1>3. Room(d)
  BY SettledRoom
<1> HIDE DEF a, d
<1>4. Calm(a) /\ Calm(d)
  BY <1>1, CalmFollows
<1>5. Heard(ConnClose(w)) /\ Heard(ConnClose(a)) /\ Heard(ConnClose(d))
  <2>1. 0 \in Nat
    OBVIOUS
  <2> QED
    BY <1>1, <1>4, <2>1, GivenUpHeard DEF Calm
<1>6. Heard(FinishResponse(d))
  <2>1. /\ FinishResponse(d).c.state \in {"CLOSING", "READING"}
        /\ FinishResponse(d).c.upEof = FALSE /\ Follows(FinishResponse(d), d)
    BY <1>1, FinishFits
  <2>2. Calm(FinishResponse(d))
    BY <1>4, <2>1, CalmFollows
  <2> QED
    BY <2>1, <2>2 DEF Heard, Calm
<1>7. Heard(UpdateMasks(d))
  <2>1. UpdateMasks(d).c = d.c /\ UpdateMasks(d).net = d.net /\ Follows(UpdateMasks(d), d)
    BY <1>1, UpdateMasksFits
  <2>2. Calm(UpdateMasks(d)) /\ Room(UpdateMasks(d))
    BY <1>3, <1>4, <2>1, CalmFollows DEF Room
  <2> QED
    BY <1>1, <2>1, <2>2 DEF Heard, Calm
<1> QED
  BY <1>2, <1>5, <1>6, <1>7

----------------------------------------------------------------------------
(* What is read of an upstream, and a response that is complete.           *)

LEMMA ReadRoom ==
  ASSUME NEW w, Fits(w), Ends, Sides, Roomy, Links(w), Room(w)
  PROVE  LET v == ReadUpstream(w)
         IN  /\ Fits(v) /\ Follows(v, w) /\ v.c.upEof = w.c.upEof /\ v.net.uFin = w.net.uFin
             /\ v.net.u = "up" => Len(v.c.in) + Len(v.net.uRecv) <= srv.pos
             /\ srv.msg # 0 /\ Resps[srv.msg].mode = "UNTIL_CLOSE" => v.net.uRecv = <<>>
<1> DEFINE v == ReadUpstream(w)
           n == UpRead(w)
<1>1. /\ Fits(v) /\ v.c = [w.c EXCEPT !.in = @ \o Take(w.net.uRecv, n)]
      /\ v.net = [w.net EXCEPT !.uRecv = Drop(@, n)] /\ v.ep = w.ep
      /\ n \in 0..Len(w.net.uRecv) /\ Len(v.c.in) = Len(w.c.in) + n
  BY ReadUpstreamFits
<1>2. /\ w.c \in Conns /\ w.net \in Nets /\ w.net.uRecv \in Seq(RespToks)
      /\ Len(w.net.uRecv) \in Nat /\ Len(w.c.in) \in 0..Slot /\ script \in Scripts
      /\ Slot \in Nat
  BY FitsParts, Sizes DEF Fits
<1>3. v.c.upEof = w.c.upEof /\ v.net.u = w.net.u /\ v.net.uFin = w.net.uFin
  BY <1>1, <1>2 DEF Conns, Nets
<1>4. v.net.uRecv = Drop(w.net.uRecv, n)
  BY <1>1, <1>2 DEF Nets
<1> DEFINE x == Len(w.c.in)
           y == Len(w.net.uRecv)
<1>5. x \in Nat /\ y \in Nat /\ n \in 0..y /\ srv.pos \in Nat
  BY <1>1, <1>2 DEF Ends, Servers
<1>8. n = Least(Slot - x, y)
  BY DEF UpRead
<1> HIDE DEF v, n
<1>6. Len(v.c.in) = x + n /\ Len(v.net.uRecv) = y - n
  <2>1. Len(Drop(w.net.uRecv, n)) = y - n
    BY <1>2, <1>5, DropType
  <2> QED
    BY <1>1, <1>4, <2>1
<1>7. w.net.u = "up" => x + y <= srv.pos
  BY DEF Room
<1> HIDE DEF x
<1>9. v.net.u = "up" => Len(v.c.in) + Len(v.net.uRecv) <= srv.pos
  <2> HIDE DEF y
  <2>1. (x + n) + (y - n) = x + y
    BY <1>5
  <2> QED
    BY <1>3, <1>6, <1>7, <2>1
<1>10. ASSUME srv.msg # 0, Resps[srv.msg].mode = "UNTIL_CLOSE" PROVE v.net.uRecv = <<>>
  <2>1. CASE w.net.u = "up"
    <3>1. srv.msg \in 1..Len(Resps) /\ srv.pos <= Total(Resps[srv.msg]) /\ Total(Resps[srv.msg]) \in Nat
      BY <1>2, <1>10, SidesAre
    <3>2. Total(Resps[srv.msg]) <= Slot
      BY <1>2, <1>10, <3>1 DEF Roomy, Resps
    <3> DEFINE m == Total(Resps[srv.msg])
    <3>3. m \in Nat /\ srv.pos <= m /\ m <= Slot
      BY <3>1, <3>2
    <3> HIDE DEF m
    <3>4. n = y
      <4> HIDE DEF y
      <4> QED
        BY <1>2, <1>5, <1>7, <1>8, <2>1, <3>3 DEF Least
    <3> QED
      BY <1>2, <1>4, <3>4, DropAll
  <2>2. CASE w.net.u # "up"
    <3>1. w.net.uRecv = <<>>
      BY <2>2 DEF Links
    <3>2. n = 0
      BY <1>5, <3>1, EmptySeq
    <3> QED
      BY <1>2, <1>4, <3>1, <3>2, DropAll
  <2> QED
    BY <2>1, <2>2
<1>11. Follows(v, w)
  BY <1>1, <1>3, FollowsSame
<1> QED
  BY <1>1, <1>3, <1>9, <1>10, <1>11 DEF v

\* Feeding the body of a response does not end one that ends with the connection.
LEMMA FedOpen ==
  ASSUME NEW k \in Conns, NEW got, Resps[k.resp].mode = "UNTIL_CLOSE"
  PROVE  FedConn(k, got).respComplete = k.respComplete
BY DEF FedConn, Conns

LEMMA FedResp ==
  ASSUME NEW k \in Conns, NEW got PROVE FedConn(k, got).upEof = k.upEof
BY DEF FedConn, Conns

\* What the fed response leaves, with the end of the stream noted.
LEMMA FedRoom ==
  ASSUME NEW w, Fits(w), Ends, Sides, Roomy, Links(w), Calm(w), Room(w),
         NEW v, v = ReadUpstream(w), NEW k \in Conns, k.upEof = v.c.upEof, k.in = v.c.in,
         k.respComplete /\ Resps[k.resp].mode = "UNTIL_CLOSE" => w.c.upEof,
         NEW got, NEW x, NEW eof \in BOOLEAN, x.net = v.net, x.ep = v.ep,
         x.c = [FedConn(k, got) EXCEPT !.upEof = @ \/ eof], eof => v.net.uFin
  PROVE  Calm(x) /\ Room(x)
<1>1. /\ Fits(v) /\ Follows(v, w) /\ v.c.upEof = w.c.upEof /\ v.net.uFin = w.net.uFin
      /\ v.net.u = "up" => Len(v.c.in) + Len(v.net.uRecv) <= srv.pos
      /\ srv.msg # 0 /\ Resps[srv.msg].mode = "UNTIL_CLOSE" => v.net.uRecv = <<>>
  BY ReadRoom
<1>2. Follows(x, v)
  BY FollowsSame
<1>3. Calm(x)
  BY <1>1, <1>2, CalmFollows, FollowsOn
<1> DEFINE f == FedConn(k, got)
<1>4. f.in = k.in /\ f.resp = k.resp /\ f.upEof = k.upEof
  BY FedFields, FedResp
<1>5. Resps[k.resp].mode = "UNTIL_CLOSE" => f.respComplete = k.respComplete
  BY FedOpen
<1>6. x.c.in = f.in /\ x.c.resp = f.resp /\ x.c.respComplete = f.respComplete
      /\ x.c.upEof = (f.upEof \/ eof)
  BY DEF FedConn, Conns
<1> HIDE DEF f
<1>7. x.c.upEof = (w.c.upEof \/ eof)
  BY <1>1, <1>4, <1>6
<1>8. w.c.upEof => w.net.uFin
  BY DEF Room
<1> QED
  BY <1>1, <1>3, <1>4, <1>5, <1>6, <1>7, <1>8 DEF Room

----------------------------------------------------------------------------
(* The handlers.                                                           *)

LEMMA TakenHeard ==
  ASSUME Good(World), Heard(World), NEW b \in ep.batch
  PROVE  /\ Heard(Taken(b))
         /\ c.state # "CONNECTING" \/ b.fd = "U" => Calm(Taken(b))
<1>1. /\ Taken(b).c = c /\ Taken(b).net = net /\ Taken(b).ep = [ep EXCEPT !.batch = @ \ {b}]
      /\ World.c = c /\ World.net = net /\ World.ep = ep
  BY TakenFits, WorldIs
<1>2. Taken(b).ep.batch = ep.batch \ {b}
  BY <1>1, FitsParts, WorldIs DEF Good, Eps
<1>3. Single(Taken(b)) /\ Over(Taken(b))
  BY <1>1, <1>2 DEF Heard, Single, Over
<1>4. Warned(World) => Warned(Taken(b))
  BY <1>1, <1>2 DEF Warned
<1>5. b.fd = "U" => Warned(Taken(b))
  BY <1>1, <1>2 DEF Heard, Single, Warned
<1>6. Room(World) => Room(Taken(b))
  BY <1>1 DEF Room
<1> QED
  BY <1>1, <1>3, <1>4, <1>5, <1>6 DEF Heard, Calm

LEMMA HeardSame ==
  ASSUME NEW v, NEW w, Heard(w), v.c = w.c, v.net = w.net, v.ep.batch = w.ep.batch
  PROVE  Heard(v)
BY DEF Heard, Single, Over, Warned, Room

LEMMA BecomeHeard ==
  ASSUME NEW W, Become(W), \A w \in W : Heard(w) PROVE Heard(World)'
<1>1. PICK w \in W : /\ c' = w.c /\ net' = w.net /\ ep' = w.ep /\ res' = w.res
                     /\ script' = script /\ cli' = cli /\ srv' = srv
  BY DEF Become
<1>2. World'.c = w.c /\ World'.net = w.net /\ World'.ep = w.ep /\ Resps' = Resps
  BY <1>1 DEF World, Resps
<1>3. Sending' = Sending
  BY <1>1, <1>2 DEF Sending
<1> QED
  BY <1>1, <1>2, <1>3 DEF Heard, Single, Over, Warned, Room

\* Between requests nothing is known of an end.
LEMMA CalmHeard ==
  ASSUME NEW w, Calm(w), ~w.c.upEof, w.c.state # "PROXYING" PROVE Heard(w)
BY DEF Calm, Heard

LEMMA OpenRoom ==
  ASSUME NEW w, NoResp(w), w.net.uRecv = <<>>, ~w.c.upEof, Ends PROVE Room(w)
<1>1. srv.pos \in Nat
  BY DEF Ends, Servers
<1>2. Len(<<>>) = 0
  BY EmptySeq
<1>3. w.c.in = <<>> /\ ~w.c.respComplete
  BY DEF NoResp
<1>4. Len(w.c.in) = 0 /\ Len(w.net.uRecv) = 0
  BY <1>2, <1>3
<1>5. Len(w.c.in) + Len(w.net.uRecv) <= srv.pos
  BY <1>1, <1>4
<1> QED
  BY <1>3, <1>5 DEF Room

LEMMA ConnectHeard ==
  ASSUME NEW q, Fits(q), q.net.u = "none", Calm(q), ~q.c.upEof, NEW r \in ConnectLoop(q)
  PROVE  Heard(r)
<1> DEFINE a == Arm(q, "C", {})
<1>1. Fits(a) /\ a.c = q.c /\ a.net = q.net /\ Follows(a, q)
  BY ArmFits DEF FDs, Evs
<1>2. \/ r = SendError(a, 502)
      \/ \E f \in 0..((MaxAttempts - a.c.attempts) - 1) : r = Arm(Connecting(a, f), "U", {"W"})
  BY ConnectCases
<1> HIDE DEF a
<1>3. Calm(a)
  BY <1>1, CalmFollows
<1>4. CASE r = SendError(a, 502)
  <2>1. 502 \in Nat
    OBVIOUS
  <2> QED
    BY <1>1, <1>3, <1>4, <2>1, GivenUpHeard DEF Calm
<1>5. ASSUME NEW f \in 0..((MaxAttempts - a.c.attempts) - 1),
             r = Arm(Connecting(a, f), "U", {"W"})
      PROVE  Heard(r)
  <2> DEFINE k == Connecting(a, f)
  <2>1. /\ Fits(k) /\ k.net = [a.net EXCEPT !.u = "connecting"] /\ k.ep = a.ep
        /\ k.c = [a.c EXCEPT !.attempts = @ + f + 1, !.be = TRUE, !.state = "CONNECTING"]
    BY <1>1, <1>5, ConnectingFits, Zenon
  <2> HIDE DEF k
  <2>2. {"W"} \in SUBSET Evs
    BY DEF Evs
  <2>3. r.c = k.c /\ r.net = k.net /\ Follows(r, k)
    BY <1>5, <2>1, <2>2, ArmFits DEF FDs, k
  <2>4. q.c \in Conns /\ q.net \in Nets
    BY FitsParts
  <2>5. r.c.state = "CONNECTING" /\ ~r.c.upEof
    BY <1>1, <2>1, <2>3, <2>4 DEF Conns
  <2>6. r.net.uFin = q.net.uFin /\ r.ep.batch = a.ep.batch
    BY <1>1, <2>1, <2>3, <2>4 DEF Nets, Follows
  <2>7. Single(r) /\ Over(r)
    BY <1>1, <1>3, <2>6 DEF Calm, Single, Over
  <2> QED
    BY <2>5, <2>7 DEF Heard
<1> QED
  BY <1>2, <1>4, <1>5

LEMMA RelayingHeard ==
  ASSUME NEW q, Fits(q), Ends, Open(q), Calm(q), ~q.c.upEof
  PROVE  Heard(ProxyStep(Arm(Relaying(q), "U", {"R", "W"})))
<1> DEFINE k == Relaying(q)
           a == Arm(k, "U", {"R", "W"})
<1>1. /\ Fits(k) /\ k.c = [q.c EXCEPT !.state = "PROXYING"] /\ k.net = q.net /\ k.ep = q.ep
  BY RelayingFits
<1>2. {"R", "W"} \in SUBSET Evs
  BY DEF Evs
<1>3. Fits(a) /\ a.c = k.c /\ a.net = k.net /\ Follows(a, k)
  BY <1>1, <1>2, ArmFits DEF FDs
<1> HIDE DEF a, k
<1>4. /\ a.c.in = q.c.in /\ a.c.inOff = q.c.inOff /\ a.c.respHdr = q.c.respHdr
      /\ a.c.respComplete = q.c.respComplete /\ a.c.upEof = q.c.upEof
      /\ a.c.state = "PROXYING" /\ a.net = q.net
  BY <1>1, <1>3, FitsParts DEF Conns
<1>5. Calm(a)
  <2>1. Follows(k, q)
    BY <1>1, FollowsSame
  <2> QED
    BY <1>3, <2>1, FollowsOn, CalmFollows
<1>6. Room(a)
  <2>1. NoResp(a) /\ a.net.uRecv = <<>> /\ ~a.c.upEof
    BY <1>4 DEF Open, NoResp
  <2> QED
    BY <2>1, OpenRoom
<1> QED
  BY <1>3, <1>4, <1>5, <1>6, ProxyHeard DEF a, k

LEMMA RouteHeard ==
  ASSUME NEW w, Routing(w), Ends, Sides, Polite, Calm(w), ~w.c.upEof,
         NEW r \in RouteAndConnect(w)
  PROVE  Heard(r)
<1> DEFINE p == Prep(w)
           q == Both(p)
<1>1. /\ Fits(w) /\ Fits(p) /\ Follows(p, w)
      /\ p.c = Closed \/ p.c.upEof = w.c.upEof
      /\ p.c.state # "CLOSING" => Open(p) /\ Queued(p)
  BY PrepQueued, PrepFits DEF Routing, Routable
<1> HIDE DEF p
<1>2. Calm(p) /\ ~p.c.upEof
  BY <1>1, CalmFollows, BlankType
<1>3. Heard(SendError(w, 502)) /\ Heard(SendError(p, 503))
  <2>1. 502 \in Nat /\ 503 \in Nat
    OBVIOUS
  <2> QED
    BY <1>1, <1>2, <2>1, GivenUpHeard DEF Calm
<1>4. CASE p.c.state = "CLOSING" /\ r = p
  BY <1>2, <1>4, CalmHeard
<1>5. CASE /\ p.c.state # "CLOSING" /\ ~(~p.c.hasIn /\ p.res.free = 0)
           /\ \/ q.net.u # "none" /\ r = ProxyStep(Arm(Relaying(q), "U", {"R", "W"}))
              \/ q.net.u = "none" /\ r \in ConnectLoop(q)
  <2>1. Fits(q) /\ q.c = [p.c EXCEPT !.hasIn = TRUE] /\ q.net = p.net /\ q.ep = p.ep
    BY <1>1, <1>5, BothFits
  <2> HIDE DEF q
  <2>2. /\ q.c.in = p.c.in /\ q.c.inOff = p.c.inOff /\ q.c.respHdr = p.c.respHdr
        /\ q.c.respComplete = p.c.respComplete /\ q.c.upEof = p.c.upEof
    BY <1>1, <2>1, FitsParts DEF Conns
  <2>3. Open(q)
    <3>1. SameAnswer(q, p)
      BY <2>1, <2>2 DEF SameAnswer
    <3>2. q.net.toUp = <<>> /\ q.net.uRecv = <<>>
      BY <1>1, <1>5, <2>1 DEF Open
    <3> QED
      BY <1>1, <1>5, <2>1, <3>1, <3>2, OpenKeeps
  <2>4. Calm(q)
    BY <1>2, <2>1, FollowsSame, CalmFollows
  <2>5. CASE q.net.u # "none" /\ r = ProxyStep(Arm(Relaying(q), "U", {"R", "W"}))
    BY <1>2, <2>1, <2>2, <2>3, <2>4, <2>5, RelayingHeard
  <2>6. CASE q.net.u = "none" /\ r \in ConnectLoop(q)
    BY <1>2, <2>1, <2>2, <2>4, <2>6, ConnectHeard
  <2> QED
    BY <1>5, <2>5, <2>6
<1> HIDE DEF q
<1> QED
  BY <1>3, <1>4, <1>5, RouteCases DEF p, q

LEMMA AcceptHeard ==
  ASSUME TypeInv, Heard(World), Accept PROVE Heard(World)'
<1> DEFINE got == [World EXCEPT !.c.state = "READING", !.c.hasOut = TRUE, !.res.free = @ - 1]
           W == IF res.free = 0 THEN {SendError(World, 503)}
                ELSE {Arm(got, "C", {"R"})} \cup IF May("refusal") THEN {ConnClose(got)} ELSE {}
<1>1. Become(W) /\ c.state = "NEW"
  BY DEF Accept
<1>2. /\ Good(World) /\ Fits(World) /\ World.c = c /\ World.net = net /\ World.ep = ep
      /\ Calm(World) /\ ~c.upEof
  BY <1>1, WorldIs DEF TypeInv, Good, Heard, Calm
<1>3. 503 \in Nat
  OBVIOUS
<1>4. Heard(SendError(World, 503))
  BY <1>2, <1>3, GivenUpHeard DEF Calm
<1>5. ASSUME res.free # 0
      PROVE  Heard(Arm(got, "C", {"R"})) /\ Heard(ConnClose(got))
  <2>1. /\ Fits(got) /\ got.c = [c EXCEPT !.state = "READING", !.hasOut = TRUE]
        /\ got.net = net /\ got.ep = ep
    BY <1>1, <1>2, <1>5, AcceptGood DEF Good
  <2> HIDE DEF got
  <2>2. got.c.state = "READING" /\ ~got.c.upEof
    BY <1>2, <2>1, FitsParts DEF Conns
  <2>3. Calm(got)
    BY <1>2, <2>1, FollowsSame, CalmFollows
  <2>4. {"R"} \in SUBSET Evs
    BY DEF Evs
  <2>5. Arm(got, "C", {"R"}).c = got.c /\ Follows(Arm(got, "C", {"R"}), got)
    BY <2>1, <2>4, ArmFits DEF FDs
  <2>6. Heard(Arm(got, "C", {"R"}))
    BY <2>2, <2>3, <2>5, CalmFollows, CalmHeard
  <2> QED
    BY <1>3, <2>1, <2>3, <2>6, GivenUpHeard DEF Calm
<1> HIDE DEF got
<1>6. \A w \in W : Heard(w)
  BY <1>4, <1>5
<1> HIDE DEF W
<1> QED
  BY <1>1, <1>6, BecomeHeard

LEMMA ReadClientKeeps ==
  ASSUME NEW w, Fits(w)
  PROVE  Follows(ReadClient(w), w) /\ ReadClient(w).c.upEof = w.c.upEof
<1> DEFINE v == ReadClient(w)
<1>1. /\ v.c = [w.c EXCEPT !.out = @ \o Take(w.net.cRecv, CliRead(w))]
      /\ v.net = [w.net EXCEPT !.cRecv = Drop(@, CliRead(w))] /\ v.ep = w.ep
  BY ReadClientFits
<1> HIDE DEF v
<1>2. v.net.u = w.net.u /\ v.net.uFin = w.net.uFin /\ v.c.upEof = w.c.upEof
  BY <1>1, FitsParts DEF Conns, Nets
<1> QED
  BY <1>1, <1>2, FollowsSame DEF v

LEMMA RequestHeard ==
  ASSUME Good(World), Ends, Sides, Polite, Faithful(World), Heard(World),
         NEW b \in ep.batch, ClientRequest(b)
  PROVE  Heard(World)'
<1> DEFINE w == Taken(b)
           v == ReadClient(w)
           eof == ClientEof(v, b.ev)
           st == Parse(Reqs, v.c.out)
           k == [v EXCEPT !.c.clientEof = eof]
           W == IF ClientDead(v) THEN {ConnClose(v)}
                ELSE IF eof /\ v.c.out = <<>> THEN {ConnClose(v)}
                ELSE IF st = "error" THEN {SendError(v, 400)}
                ELSE IF st = "more" /\ eof THEN {ConnClose(v)}
                ELSE IF st = "more" /\ Len(v.c.out) >= Slot THEN {SendError(v, 431)}
                ELSE IF st = "more" THEN {v}
                ELSE RouteAndConnect(k)
<1>1. Become(W) /\ c.state = "READING"
  BY DEF ClientRequest
<1>2. /\ Good(w) /\ Fits(w) /\ Faithful(w) /\ w.c = c /\ w.c.state = "READING"
      /\ Calm(w) /\ ~w.c.upEof
  BY <1>1, TakenFlow, TakenHeard DEF Heard
<1> HIDE DEF w
<1>3. /\ Good(v) /\ Fits(v) /\ v.c.state = "READING" /\ v.net \in Nets /\ v.c \in Conns
      /\ v \in Worlds
  <2>1. Good(v) /\ v.c.state = "READING"
    BY <1>2, ReadingGood
  <2> HIDE DEF v
  <2> QED
    BY <2>1, FitsParts DEF Good
<1>4. eof \in BOOLEAN
  BY <1>3 DEF ClientEof, Nets
<1>5. st = "done" => Routable(k)
  BY <1>2, <1>4, ReadingGood
<1>6. st \in {"more", "error", "done"}
  BY DEF Parse
<1>7. Flow(v)
  <2>1. Alike(v, w) /\ v.c.state = w.c.state /\ v.c.req = w.c.req
    BY <1>2, ReadClientAlike
  <2> HIDE DEF v
  <2> QED
    BY <1>2, <1>3, <2>1, SameFlow DEF Faithful
<1>8. Follows(v, w) /\ ~v.c.upEof
  BY <1>2, ReadClientKeeps
<1> HIDE DEF v, eof
<1>9. Calm(v)
  BY <1>2, <1>8, CalmFollows
<1>10. Heard(ConnClose(v)) /\ Heard(SendError(v, 400)) /\ Heard(SendError(v, 431)) /\ Heard(v)
  <2>1. 400 \in Nat /\ 431 \in Nat
    OBVIOUS
  <2> QED
    BY <1>3, <1>8, <1>9, <2>1, GivenUpHeard, CalmHeard DEF Calm
<1>11. ASSUME st = "done", NEW r \in RouteAndConnect(k) PROVE Heard(r)
  <2>1. k.net = v.net /\ k.ep = v.ep /\ k.c = [v.c EXCEPT !.clientEof = eof]
    BY <1>3, <1>4 DEF Worlds
  <2> HIDE DEF k, st
  <2>2. /\ Routable(k) /\ Fits(k) /\ k.c.state = "READING" /\ k.c.req = v.c.req /\ ~k.c.upEof
    BY <1>3, <1>5, <1>8, <1>11, <2>1 DEF Routable, Conns
  <2>3. Alike(k, v)
    BY <1>3, <2>1 DEF Alike, Rest, Conns
  <2>4. Flow(k)
    BY <1>3, <1>7, <2>2, <2>3, SameFlow
  <2>5. ~k.c.reqReady /\ k.c.out # <<>> /\ k.c.outOff = 0
    <3>1. ~v.c.reqReady
      BY <1>3 DEF Good, Shape
    <3>2. ~k.c.reqReady
      BY <1>3, <2>1, <3>1 DEF Conns
    <3> QED
      BY <2>2, <3>2 DEF Routable, Headed
  <2>6. Routing(k)
    BY <2>2, <2>4, <2>5, RestingOpen DEF Routing
  <2>7. Calm(k)
    BY <1>9, <2>1, FollowsSame, CalmFollows
  <2> QED
    BY <1>11, <2>2, <2>6, <2>7, RouteHeard
<1> HIDE DEF k, st
<1>12. \A r \in W : Heard(r)
  BY <1>6, <1>10, <1>11
<1> HIDE DEF W
<1> QED
  BY <1>1, <1>12, BecomeHeard

LEMMA BodyHeard ==
  ASSUME Good(World), Ends, Heard(World), NEW b \in ep.batch, ClientBody(b)
  PROVE  Heard(World)'
<1> DEFINE w == Taken(b)
           v == ReadClient(w)
<1>1. c.state = "PROXYING" /\ Fits(w) /\ w.c = c /\ Fits(v)
  BY BodyStep
<1>2. PICK k : /\ Become({ConnClose(v)}) \/ Become({ProxyStep(k)})
               /\ Fits(k) /\ k.c.state = "PROXYING" /\ Alike(k, v)
               /\ k.c.upEof = v.c.upEof /\ Follows(k, v)
  BY BodyStep
<1>3. Calm(w) /\ Room(w)
  BY <1>1, TakenHeard DEF Heard
<1> HIDE DEF w
<1>4. Follows(v, w) /\ v.c.upEof = w.c.upEof /\ Alike(v, w)
  BY <1>1, ReadClientKeeps, ReadClientAlike
<1> HIDE DEF v
<1>5. Calm(v) /\ Calm(k)
  BY <1>2, <1>3, <1>4, CalmFollows
<1>6. Room(k)
  <2>1. /\ k.c.in = w.c.in /\ k.c.resp = w.c.resp /\ k.c.respComplete = w.c.respComplete
        /\ k.net.u = w.net.u /\ k.net.uRecv = w.net.uRecv /\ k.c.upEof = w.c.upEof
    BY <1>2, <1>4 DEF Alike
  <2>2. w.net.uFin => k.net.uFin \/ k.net.u = "none"
    BY <1>2, <1>4 DEF Follows
  <2>3. w.net.uFin => w.net.u = "up"
    BY <1>3 DEF Calm, Over
  <2> QED
    BY <1>3, <2>1, <2>2, <2>3 DEF Room
<1>7. Heard(ConnClose(v)) /\ Heard(ProxyStep(k))
  <2>1. 0 \in Nat
    OBVIOUS
  <2> QED
    BY <1>1, <1>2, <1>5, <1>6, <2>1, GivenUpHeard, ProxyHeard DEF Calm
<1>8. (\A r \in {ConnClose(v)} : Heard(r)) /\ (\A r \in {ProxyStep(k)} : Heard(r))
  BY <1>7
<1> QED
  BY <1>2, <1>8, BecomeHeard

LEMMA ResultHeard ==
  ASSUME Good(World), Ends, Sides, Polite, Faithful(World), Heard(World),
         NEW b \in ep.batch, ConnectResult(b)
  PROVE  Heard(World)'
<1> DEFINE w == Taken(b)
           d == DropUpstream(w)
           q == [w EXCEPT !.c.state = "PROXYING", !.res.active = @ + 1]
           a == Arm(q, "U", {"R", "W"})
           W == IF ConnectFailed(b) THEN RouteAndConnect(d) ELSE {ProxyStep(a)}
<1>1. Become(W) /\ c.state = "CONNECTING" /\ b.fd = "U"
  BY DEF ConnectResult
<1>2. /\ Good(w) /\ Fits(w) /\ Faithful(w) /\ w.c = c /\ w.c.state = "CONNECTING"
      /\ w \in Worlds /\ w.c \in Conns /\ w.net \in Nets /\ w.res \in Shares /\ ConnFits(w.c)
      /\ Calm(w) /\ ~w.c.upEof
  BY <1>1, TakenFlow, TakenHeard, FitsParts DEF Fits, Heard
<1> HIDE DEF w
<1>3. Whole(w.c) /\ w.c.reqReady
  BY <1>2 DEF Good, Shape, Whole
<1>4. ASSUME NEW r \in RouteAndConnect(d) PROVE Heard(r)
  <2>1. /\ Fits(d) /\ d.c = [w.c EXCEPT !.be = FALSE] /\ d.net = Dropped(w.net)
        /\ Follows(d, w)
    BY <1>2, DropUpstreamFits
  <2> HIDE DEF d
  <2>2. Routable(d) /\ d.c.reqReady /\ d.c.req = w.c.req /\ ~d.c.upEof
    BY <1>2, <1>3, <2>1 DEF Conns, Routable, Whole
  <2>3. Open(d) /\ Queued(d)
    <3> DEFINE x == [w EXCEPT !.net = Dropped(@)]
    <3>1. x.c = w.c /\ x.net = Dropped(w.net)
      BY <1>2 DEF Worlds
    <3> HIDE DEF x
    <3>2. Alike(d, x)
      BY <1>2, <2>1, <3>1 DEF Alike, Rest, Conns
    <3> QED
      BY <1>2, <2>2, <3>2, TryingOpen DEF Faithful, x
  <2>4. Routing(d) /\ Calm(d)
    BY <1>2, <2>1, <2>2, <2>3, CalmFollows DEF Routing
  <2> QED
    BY <1>4, <2>2, <2>4, RouteHeard
<1>5. Heard(ProxyStep(a))
  <2> DEFINE c2 == [w.c EXCEPT !.state = "PROXYING"]
             res2 == [w.res EXCEPT !.active = @ + 1]
  <2>1. q = [w EXCEPT !.c = c2, !.res = res2]
    BY <1>2 DEF Worlds
  <2>2. c2 \in Conns /\ ConnFits(c2) /\ InUse(c2) = InUse(w.c) /\ c2.state = "PROXYING"
    BY <1>2 DEF Conns, ConnFits, InUse
  <2>3. res2 \in Shares /\ res2.free = w.res.free
    BY <1>2 DEF Shares
  <2> HIDE DEF c2, res2
  <2>4. q \in Worlds /\ q.c = c2 /\ q.res = res2 /\ q.net = w.net /\ q.ep = w.ep
    BY <1>2, <2>1, <2>2, <2>3 DEF Worlds
  <2> HIDE DEF q
  <2>5. Fits(q)
    BY <1>2, <2>2, <2>3, <2>4 DEF Fits
  <2>6. {"R", "W"} \in SUBSET Evs
    BY DEF Evs
  <2>7. Fits(a) /\ a.c = c2 /\ a.net = w.net /\ Follows(a, q)
    BY <2>4, <2>5, <2>6, ArmFits DEF FDs
  <2>8. Follows(q, w)
    BY <2>4, FollowsSame
  <2> HIDE DEF a
  <2>9. Calm(a)
    BY <1>2, <2>7, <2>8, CalmFollows
  <2>10. Alike(a, w) /\ ~a.c.upEof
    BY <1>2, <2>7 DEF Alike, Rest, Conns, c2
  <2>11. NoResp(a) /\ a.net.uRecv = <<>>
    <3>1. NoResp(w) /\ w.net.uRecv = <<>>
      BY <1>2 DEF Faithful, Flow, Trying
    <3> QED
      BY <2>10, <3>1 DEF NoResp, Alike
  <2>12. Room(a)
    BY <2>10, <2>11, OpenRoom
  <2> QED
    BY <2>2, <2>7, <2>9, <2>12, ProxyHeard
<1> HIDE DEF d, a
<1>6. \A r \in W : Heard(r)
  BY <1>4, <1>5
<1> HIDE DEF W
<1> QED
  BY <1>1, <1>6, BecomeHeard

LEMMA IdleHeard ==
  ASSUME Good(World), Heard(World), NEW b \in ep.batch, IdleUpstream(b)
  PROVE  Heard(World)'
<1> DEFINE w == Taken(b)
           d == DropUpstream(w)
<1>1. Become({d}) /\ c.state = "READING"
  BY DEF IdleUpstream
<1>2. Fits(w) /\ w.c = c /\ w.c \in Conns /\ Calm(w) /\ ~w.c.upEof
  BY <1>1, TakenFits, TakenHeard, FitsParts DEF Good, Heard
<1> HIDE DEF w
<1>3. d.c = [w.c EXCEPT !.be = FALSE] /\ Follows(d, w)
  BY <1>2, DropUpstreamFits
<1> HIDE DEF d
<1>4. d.c.state = "READING" /\ ~d.c.upEof
  BY <1>1, <1>2, <1>3 DEF Conns
<1>5. Calm(d)
  BY <1>2, <1>3, CalmFollows
<1>6. \A r \in {d} : Heard(r)
  BY <1>4, <1>5, CalmHeard
<1> QED
  BY <1>1, <1>6, BecomeHeard

LEMMA PlainHeard ==
  ASSUME Good(World), Heard(World), NEW b \in ep.batch,
         Skip(b) \/ ClientIgnored(b) \/ ClientReset(b) \/ UpstreamReset(b)
  PROVE  Heard(World)'
<1>1. Fits(Taken(b)) /\ Heard(Taken(b))
  BY TakenFits, TakenHeard DEF Good
<1>2. Heard(ConnClose(Taken(b)))
  <2>1. 0 \in Nat
    OBVIOUS
  <2> QED
    BY <1>1, <2>1, GivenUpHeard DEF Heard
<1>3. CASE Become({Taken(b)})
  <2>1. \A x \in {Taken(b)} : Heard(x)
    BY <1>1
  <2> QED
    BY <1>3, <2>1, BecomeHeard
<1>4. CASE Become({ConnClose(Taken(b))})
  <2>1. \A x \in {ConnClose(Taken(b))} : Heard(x)
    BY <1>2
  <2> QED
    BY <1>4, <2>1, BecomeHeard
<1> QED
  BY <1>3, <1>4 DEF Skip, ClientIgnored, ClientReset, UpstreamReset

LEMMA DataHeard ==
  ASSUME Good(World), Ends, Sides, Polite, Roomy, Faithful(World), Heard(World),
         NEW b \in ep.batch, UpstreamData(b)
  PROVE  Heard(World)'
<1> DEFINE w == Taken(b)
           v == ReadUpstream(w)
           eof == UpEof(v, b.ev)
           first == ~c.respHdr
           st == IF first THEN Parse(Resps, v.c.in) ELSE "done"
           h == IF first THEN HeaderIn(v) ELSE v
           got == Len(v.c.in) - IF first THEN Resps[v.c.in[1][1]].hdr ELSE Len(c.in)
           fed == FeedResponse(h, got)
           next == [fed EXCEPT !.c.upEof = @ \/ eof]
           W == IF UpDead(v) THEN {ConnClose(v)}
                ELSE IF st = "error" THEN {SendError(v, 502)}
                ELSE IF st = "more" /\ (eof \/ Len(v.c.in) >= Slot) THEN {ConnClose(v)}
                ELSE IF st = "more" THEN {v}
                ELSE IF Garbled(Resps[h.c.resp], fed.c.respLeft) THEN {ConnClose(fed)}
                ELSE {ProxyStep(next)}
<1>1. Become(W) /\ c.state = "PROXYING" /\ b.fd = "U" /\ "X" \notin b.ev
  BY Zenon DEF UpstreamData, HeaderIn
<1>2. /\ Good(w) /\ Fits(w) /\ Flow(w) /\ w.c = c /\ w.net = net /\ w.c.state = "PROXYING"
      /\ Links(w) /\ Relayed(w) /\ Calm(w) /\ Room(w)
  BY <1>1, TakenFlow, TakenHeard, Zenon DEF Faithful, Flow, Heard
<1>3. "E" \in b.ev => w.net.uFin
  <2>1. Warned(World) /\ World.net = net /\ World.ep = ep
    BY <1>1, WorldIs DEF Heard
  <2> QED
    BY <1>1, <1>2, <2>1 DEF Warned, Relayed
<1> HIDE DEF w
<1>4. /\ Fits(v) /\ Follows(v, w) /\ v.c.upEof = w.c.upEof /\ v.net.uFin = w.net.uFin
      /\ v.net.u = "up" => Len(v.c.in) + Len(v.net.uRecv) <= srv.pos
      /\ srv.msg # 0 /\ Resps[srv.msg].mode = "UNTIL_CLOSE" => v.net.uRecv = <<>>
  BY <1>2, ReadRoom
<1>5. /\ v.c.state = "PROXYING" /\ v.c.respHdr = w.c.respHdr /\ v.c.resp = w.c.resp
      /\ v.c.respComplete = w.c.respComplete /\ v.c \in Conns /\ v.net \in Nets
  BY <1>2, <1>4, ReadPiece, FitsParts
<1>6. eof \in BOOLEAN /\ (eof => v.net.uFin)
  BY <1>3, <1>4, <1>5 DEF UpEof, Nets
<1> HIDE DEF v, eof
<1>7. Calm(v) /\ Room(v)
  BY <1>2, <1>4, <1>5, CalmFollows DEF Room
<1>8. Heard(v) /\ Heard(ConnClose(v)) /\ Heard(SendError(v, 502))
  <2>1. 502 \in Nat
    OBVIOUS
  <2> QED
    BY <1>4, <1>5, <1>7, <2>1, GivenUpHeard DEF Heard, Calm
<1>9. st \in {"more", "error", "done"}
  BY DEF Parse
<1>10. ASSUME st = "done"
       PROVE  /\ Fits(h) /\ h.c.state = "PROXYING" /\ h.net = v.net /\ h.ep = v.ep
              /\ h.c \in Conns /\ h.c.upEof = v.c.upEof /\ h.c.in = v.c.in /\ got \in Nat
              /\ h.c.respComplete /\ Resps[h.c.resp].mode = "UNTIL_CLOSE" => w.c.upEof
  <2>1. CASE first
    <3>1. Parse(Resps, v.c.in) = "done"
      BY <1>10, <2>1
    <3>2. /\ Fits(HeaderIn(v)) /\ HeaderIn(v).c.state = "PROXYING"
          /\ HeaderIn(v).c = [v.c EXCEPT !.respHdr = TRUE, !.resp = v.c.in[1][1],
                                         !.respLeft = Resps[v.c.in[1][1]].body]
          /\ HeaderIn(v).net = v.net /\ HeaderIn(v).ep = v.ep
          /\ Len(v.c.in) - Resps[v.c.in[1][1]].hdr \in Nat
      BY <1>4, <1>5, <3>1, HeaderFits
    <3>3. h = HeaderIn(v) /\ got \in Nat
      BY <2>1, <3>2
    <3>4. ~w.c.respComplete
      BY <1>2, <2>1, Answers DEF Waiting, NoResp, Receiving, AnsweredTo
    <3> HIDE DEF h, got
    <3>5. h.c \in Conns
      BY <3>2, <3>3, FitsParts
    <3>6. h.c.upEof = v.c.upEof /\ h.c.in = v.c.in /\ h.c.respComplete = v.c.respComplete
      BY <1>5, <3>2, <3>3 DEF Conns
    <3> QED
      BY <1>5, <3>2, <3>3, <3>4, <3>5, <3>6
  <2>2. CASE ~first
    <3>1. h = v /\ got = Len(v.c.in) - Len(w.c.in)
      BY <1>2, <2>2
    <3>2. got \in Nat
      <4>1. \E t \in Seq(Toks) : Len(t) = Len(v.c.in) - Len(w.c.in)
        BY <1>2, ReadPiece DEF v
      <4> QED
        BY <3>1, <4>1, LenProperties
    <3> HIDE DEF h, got
    <3>3. w.c.respComplete /\ Resps[w.c.resp].mode = "UNTIL_CLOSE" => w.c.upEof
      BY <1>2 DEF Room
    <3> QED
      BY <1>4, <1>5, <3>1, <3>2, <3>3
  <2> QED
    BY <2>1, <2>2
<1> HIDE DEF h, got, first
<1>11. ASSUME st = "done" PROVE Heard(ConnClose(fed)) /\ Heard(ProxyStep(next))
  <2>1. /\ Fits(fed) /\ fed.c.state = "PROXYING" /\ fed.c = FedConn(h.c, got)
        /\ fed.net = v.net /\ fed.ep = v.ep
    BY <1>10, <1>11, FeedFits
  <2> HIDE DEF fed
  <2>2. /\ Fits(next) /\ next.c.state = "PROXYING"
        /\ next.c = [fed.c EXCEPT !.upEof = @ \/ eof]
        /\ next.net = v.net /\ next.ep = v.ep
    BY <1>6, <2>1, EofFits
  <2> HIDE DEF next
  <2>3. Calm(fed)
    BY <1>7, <2>1, FollowsSame, CalmFollows
  <2>4. Calm(next) /\ Room(next)
    <3> DEFINE k == h.c
    <3>1. /\ k \in Conns /\ k.upEof = v.c.upEof /\ k.in = v.c.in
          /\ k.respComplete /\ Resps[k.resp].mode = "UNTIL_CLOSE" => w.c.upEof
          /\ next.c = [FedConn(k, got) EXCEPT !.upEof = @ \/ eof]
      BY <1>10, <1>11, <2>1, <2>2
    <3> HIDE DEF k
    <3>2. v = ReadUpstream(w)
      BY DEF v
    <3> QED
      BY <1>2, <1>6, <2>2, <3>1, <3>2, FedRoom
  <2>5. 0 \in Nat
    OBVIOUS
  <2> QED
    BY <2>1, <2>2, <2>3, <2>4, <2>5, GivenUpHeard, ProxyHeard DEF Calm
<1> HIDE DEF fed, st
<1> HIDE DEF next
<1>12. \A r \in W : Heard(r)
  BY <1>8, <1>9, <1>11
<1> HIDE DEF W
<1> QED
  BY <1>1, <1>12, BecomeHeard

LEMMA HandlersHeard ==
  ASSUME TypeInv, Sides, Polite, Roomy, Faithful(World), Heard(World), Accept \/ Dispatch
  PROVE  Heard(World)'
<1>1. Good(World) /\ Ends
  BY DEF TypeInv
<1>2. CASE Accept
  BY <1>2, AcceptHeard
<1>3. CASE Dispatch
  <2>1. PICK b \in ep.batch :
          \/ Skip(b)
          \/ ClientReset(b) \/ ClientRequest(b) \/ ClientBody(b) \/ ClientIgnored(b)
          \/ ConnectResult(b) \/ IdleUpstream(b) \/ UpstreamReset(b) \/ UpstreamData(b)
    BY <1>3 DEF Dispatch
  <2> QED
    BY <1>1, <2>1, PlainHeard, RequestHeard, BodyHeard, ResultHeard, IdleHeard, DataHeard
<1> QED
  BY <1>2, <1>3

----------------------------------------------------------------------------
(* The two ends, and the kernel.                                           *)

\* Steps that leave alone what the proxy knows of the server and of its stream.
SameEnd ==
  /\ script' = script /\ c' = c /\ ep'.batch = ep.batch
  /\ srv'.msg = srv.msg /\ srv'.pos = srv.pos
  /\ net'.u = net.u /\ net'.uFin = net.uFin /\ net'.uRecv = net.uRecv

LEMMA EndHeard ==
  ASSUME SameEnd, Heard(World) PROVE Heard(World)'
<1>1. /\ World.c = c /\ World.net = net /\ World.ep = ep
      /\ World'.c = c /\ World'.net = net' /\ World'.ep = ep' /\ Resps' = Resps
  BY DEF World, SameEnd, Resps
<1>2. Sending' = Sending
  BY <1>1 DEF Sending, SameEnd
<1> QED
  BY <1>1, <1>2 DEF Heard, Single, Over, Warned, Room, SameEnd

LEMMA WakeBatch ==
  ASSUME NEW fd, NEW what, Wake(fd, what), ep \in Eps PROVE ep'.batch = ep.batch
BY DEF Wake, Eps

LEMMA OthersHeard ==
  ASSUME TypeInv, Heard(World),
         \/ ClientSend \/ ClientReceive \/ ClientShutdown \/ ClientAbort
         \/ ServerReceive \/ ServerReset
  PROVE  Heard(World)'
<1>1. net \in Nets /\ srv \in Servers /\ ep \in Eps
  BY NetIs, WorldIs, FitsParts DEF TypeInv, Good
<1>2. /\ script' = script /\ c' = c /\ \E fd, what : Wake(fd, what)
  BY DEF ClientSend, ClientReceive, ClientShutdown, ClientAbort, ServerReceive, ServerReset, EnvStep
<1>3. /\ net'.u = net.u /\ net'.uFin = net.uFin /\ net'.uRecv = net.uRecv
      /\ srv'.msg = srv.msg /\ srv'.pos = srv.pos
  BY <1>1 DEF ClientSend, ClientReceive, ClientShutdown, ClientAbort, ServerReceive, ServerReset,
              Nets, Servers
<1> QED
  BY <1>1, <1>2, <1>3, WakeBatch, EndHeard DEF SameEnd

LEMMA WaitHeard ==
  ASSUME TypeInv, Heard(World), Wait PROVE Heard(World)'
<1>1. /\ ep' = [ep EXCEPT !.rdy = {},
                !.batch = {b \in [fd : ep.rdy, ev : SUBSET Evs] :
                             b.ev = Events(net, ep, b.fd) /\ b.ev # {}}]
      /\ script' = script /\ c' = c /\ net' = net /\ res' = res /\ srv' = srv
  BY DEF Wait
<1>2. ep \in Eps /\ World.c = c /\ World.net = net /\ net \in Nets
  BY WorldIs, FitsParts DEF TypeInv, Good
<1>3. /\ World'.c = c /\ World'.net = net /\ World'.ep = ep' /\ Resps' = Resps
      /\ Sending' = Sending
  BY <1>1 DEF World, Resps, Sending
<1>4. ep'.batch = {b \in [fd : ep.rdy, ev : SUBSET Evs] :
                     b.ev = Events(net, ep, b.fd) /\ b.ev # {}}
  BY <1>1, <1>2 DEF Eps
<1>5. Single(World)'
  <2> SUFFICES ASSUME NEW a \in ep'.batch, NEW b \in ep'.batch, a.fd = b.fd PROVE a = b
    BY <1>3 DEF Single
  <2>1. a \in [fd : ep.rdy, ev : SUBSET Evs] /\ b \in [fd : ep.rdy, ev : SUBSET Evs]
    BY <1>4
  <2>2. a.ev = b.ev
    BY <1>4
  <2> QED
    BY <2>1, <2>2
<1>6. Warned(World)'
  <2> SUFFICES ASSUME NEW b \in ep'.batch, b.fd = "U", "E" \in b.ev, "X" \notin b.ev
               PROVE  net.uFin
    BY <1>3 DEF Warned
  <2>1. b.ev = Events(net, ep, "U")
    BY <1>4
  <2> QED
    BY <2>1 DEF Events, Poll, Evs
<1> QED
  BY <1>1, <1>2, <1>3, <1>5, <1>6 DEF Heard, Over, Room

\* The upstream connection comes up with a server that has said nothing.
LEMMA ConnectedHeard ==
  ASSUME TypeInv, Faithful(World), Heard(World), ConnectDone PROVE Heard(World)'
<1>1. /\ script' = script /\ c' = c /\ net.u = "connecting" /\ Wake("U", "state")
      /\ srv' = [got |-> <<>>, msg |-> 0, pos |-> 0]
      /\ \E u \in {"up", "failed"} : net' = [net EXCEPT !.u = u]
  BY DEF ConnectDone, EnvStep
<1>2. net \in Nets /\ ep \in Eps
  BY NetIs, WorldIs, FitsParts DEF TypeInv, Good
<1>3. /\ net'.uRecv = net.uRecv /\ net'.u \in {"up", "failed"} /\ net'.uFin = net.uFin
      /\ srv'.msg = 0 /\ srv'.pos = 0 /\ ep'.batch = ep.batch
  BY <1>1, <1>2, WakeBatch DEF Nets
<1>4. /\ World.c = c /\ World.net = net /\ World.ep = ep
      /\ World'.c = c /\ World'.net = net' /\ World'.ep = ep' /\ Resps' = Resps
  BY <1>1 DEF World, Resps
<1>5. net.uRecv = <<>> /\ ~net.uFin
  BY <1>1, <1>4 DEF Links, Flow, Faithful, Heard, Over
<1>6. c.state = "PROXYING" => c.in = <<>>
  BY <1>1, <1>4 DEF Relayed, Waiting, NoResp, Flow, Faithful
<1>7. Single(World)' /\ Over(World)' /\ (Warned(World) => Warned(World)')
  BY <1>1, <1>3, <1>4, <1>5 DEF Heard, Single, Over, Warned
<1>8. c.state = "PROXYING" => Room(World)'
  <2>1. Len(<<>>) + Len(<<>>) <= 0
    BY EmptySeq
  <2> QED
    BY <1>3, <1>4, <1>5, <1>6, <2>1 DEF Heard, Room
<1> QED
  BY <1>4, <1>7, <1>8 DEF Heard

LEMMA ClosedEndHeard ==
  ASSUME TypeInv, Heard(World), ServerClose PROVE Heard(World)'
<1>1. /\ script' = script /\ c' = c /\ srv' = srv /\ net.u = "up" /\ ~Sending
      /\ net' = [net EXCEPT !.uFin = TRUE] /\ Wake("U", "state")
  BY DEF ServerClose, ServerDone, EnvStep
<1>2. net \in Nets /\ ep \in Eps
  BY NetIs, WorldIs, FitsParts DEF TypeInv, Good
<1>3. /\ net'.u = "up" /\ net'.uFin /\ net'.uRecv = net.uRecv /\ ep'.batch = ep.batch
  BY <1>1, <1>2, WakeBatch DEF Nets
<1>4. /\ World.c = c /\ World.net = net /\ World.ep = ep
      /\ World'.c = c /\ World'.net = net' /\ World'.ep = ep' /\ Resps' = Resps
      /\ Sending' = Sending
  BY <1>1 DEF World, Resps, Sending
<1> QED
  BY <1>1, <1>3, <1>4 DEF Heard, Single, Over, Warned, Room

\* What the server sends goes on what is in the buffer and on the way to it.
LEMMA ServedHeard ==
  ASSUME TypeInv, Sides, Polite, Faithful(World), Heard(World), ServerSend PROVE Heard(World)'
<1>1. /\ net.u = "up" /\ c.state = "PROXYING" /\ ~net.uFin /\ Wake("U", "R")
      /\ \E x : net' = [net EXCEPT !.uRecv = x]
  BY ServerSendFlow DEF ServerSend
<1>2. /\ World.c = c /\ World.net = net /\ World.ep = ep /\ Relayed(World) /\ Links(World)
      /\ Fits(World) /\ Ends /\ net \in Nets /\ ep \in Eps /\ srv.pos \in Nat
      /\ c.in \in Seq(Toks) /\ net.uRecv \in Seq(Toks)
  BY <1>1, NetIs, WorldIs, FitsParts, Streams DEF TypeInv, Good, Faithful, Flow, Servers
<1>3. PICK k \in 1..Len(Resps), from \in Nat, n \in Nat \ {0} :
        /\ \/ Sending /\ k = srv.msg /\ from = srv.pos
           \/ ~Sending /\ k \in Owed /\ from = 0
        /\ MoreServed(k, from, n)
  BY ServedIs
<1>4. /\ World'.c = c /\ World'.net = net' /\ World'.ep = ep' /\ Resps' = Resps
      /\ srv'.pos = from + n /\ net'.uRecv = net.uRecv \o Segment(k, from, n)
  BY <1>3 DEF World, Resps, MoreServed
<1>5. net'.u = "up" /\ ~net'.uFin /\ ep'.batch = ep.batch
  BY <1>1, <1>2, WakeBatch DEF Nets
<1>6. Room(World) /\ Single(World) /\ Warned(World)
  BY <1>1, <1>2 DEF Heard
<1>7. ~c.upEof
  BY <1>1, <1>2, <1>6 DEF Room
<1>8. Len(c.in) + Len(net.uRecv) <= from
  <2>1. CASE from = srv.pos
    BY <1>1, <1>2, <1>6, <2>1 DEF Room
  <2>2. CASE ~Sending /\ k \in Owed /\ from = 0
    <3>1. Silent(World, cli.msg) /\ Waiting(World)
      <4>1. n \in Nat
        OBVIOUS
      <4> QED
        BY <1>1, <1>2, <1>3, <2>2, <4>1, AnswerStarts
    <3>2. c.in = <<>> /\ net.uRecv = <<>>
      BY <1>2, <3>1 DEF Silent, Waiting, NoResp
    <3> QED
      BY <2>2, <3>2, EmptySeq
  <2> QED
    BY <1>3, <2>1, <2>2
<1>9. Len(c.in) + Len(net'.uRecv) <= srv'.pos
  <2> DEFINE x == Len(c.in)
             y == Len(net.uRecv)
             z == Len(net'.uRecv)
  <2>0. k \in Int /\ from \in Int /\ n \in Nat
    OBVIOUS
  <2>1. Segment(k, from, n) \in Seq(Toks) /\ Len(Segment(k, from, n)) = n
    BY <2>0, SegType
  <2>2. z = y + n
    <3> DEFINE t == Segment(k, from, n)
    <3>1. t \in Seq(Toks) /\ Len(t) = n /\ net'.uRecv = net.uRecv \o t
      BY <1>4, <2>1
    <3> HIDE DEF t
    <3>2. Len(net.uRecv \o t) = Len(net.uRecv) + Len(t)
      BY <1>2, <3>1, JoinType
    <3> QED
      BY <3>1, <3>2
  <2>3. x \in Nat /\ y \in Nat
    BY <1>2, LenProperties
  <2>4. x + y <= from
    BY <1>8
  <2> HIDE DEF x, y, z
  <2>5. x + z <= from + n
    BY <2>2, <2>3, <2>4
  <2> QED
    BY <1>4, <2>5 DEF x, z
<1> QED
  BY <1>1, <1>2, <1>4, <1>5, <1>6, <1>7, <1>9 DEF Heard, Single, Over, Warned, Room

----------------------------------------------------------------------------
(* The invariant.                                                          *)

HeardInv == StreamInv /\ Heard(World)

LEMMA HeardInit == Init => HeardInv
<1> SUFFICES ASSUME Init PROVE HeardInv
  OBVIOUS
<1>1. StreamInv
  BY StreamInit
<1>2. c.state = "NEW" /\ ~c.upEof /\ net.u = "none" /\ ~net.uFin /\ ep.batch = {}
  BY DEF Init, Blank
<1>3. Heard(World)
  BY <1>2, WorldIs DEF Heard, Single, Over, Warned
<1> QED
  BY <1>1, <1>3 DEF HeardInv

LEMMA HeardNext ==
  ASSUME Mannered, Roomy PROVE HeardInv /\ [Next]_vars => HeardInv'
<1> SUFFICES ASSUME HeardInv, [Next]_vars PROVE HeardInv'
  OBVIOUS
<1>1. StreamInv /\ TypeInv /\ Sides /\ Faithful(World) /\ Heard(World)
  BY DEF HeardInv, StreamInv, Faithful
<1>2. Polite
  BY <1>1, Manners DEF TypeInv, Good, Fits
<1>3. StreamInv'
  BY <1>1, StreamNext
<1>4. Accept \/ Dispatch => Heard(World)'
  BY <1>1, <1>2, HandlersHeard
<1>5. Wait \/ ConnectDone \/ ServerClose => Heard(World)'
  BY <1>1, WaitHeard, ConnectedHeard, ClosedEndHeard
<1>6. ServerSend => Heard(World)'
  BY <1>1, <1>2, ServedHeard
<1>7. \/ ClientSend \/ ClientReceive \/ ClientShutdown \/ ClientAbort
      \/ ServerReceive \/ ServerReset
      => Heard(World)'
  BY <1>1, OthersHeard
<1>8. UNCHANGED vars => Heard(World)'
  BY <1>1, EndHeard DEF vars, SameEnd
<1>9. Heard(World)'
  BY <1>4, <1>5, <1>6, <1>7, <1>8 DEF Next, Loop, Environment
<1> QED
  BY <1>3, <1>9 DEF HeardInv

\* A response that is complete has gone, or is in the buffer, to its last token.
LEMMA CompleteAtEnd ==
  ASSUME Mannered, Roomy, HeardInv, c.respComplete
  PROVE  /\ Relayed(World) /\ c.resp = srv.msg
         /\ Mine(World) # <<>> /\ End(Mine(World)) = <<srv.msg, Total(Resps[srv.msg])>>
<1>1. StreamInv /\ Heard(World)
  BY DEF HeardInv
<1>2. /\ Fits(World) /\ Ends /\ Sides /\ Polite /\ World.c = c /\ World.net = net
      /\ c.state = "PROXYING" /\ script \in Scripts
  BY <1>1, CompleteRelayed DEF Fits
<1>3. Relayed(World) /\ ~Waiting(World)
  BY <1>1, CompleteRelayed
<1>4. PICK p \in 0..srv.pos : AnsweredTo(World, p)
  BY <1>3 DEF Relayed
<1>5. /\ srv.msg # 0 /\ c.resp = srv.msg /\ Mine(World) # <<>> /\ End(Mine(World)) = <<srv.msg, p>>
      /\ net.uRecv = Segment(srv.msg, p, srv.pos - p)
  BY <1>2, <1>3, <1>4 DEF AnsweredTo, Relayed
<1>6. CASE Resps[c.resp].mode # "UNTIL_CLOSE"
  BY <1>2, <1>3, <1>5, <1>6, WholeAnswer
<1>7. CASE Resps[c.resp].mode = "UNTIL_CLOSE"
  <2>1. net.uFin /\ net.uRecv = <<>> /\ ~Sending
    BY <1>1, <1>2, <1>5, <1>7 DEF Heard, Room, Over
  <2>2. /\ srv.msg \in 1..Len(Resps) /\ srv.pos \in 1..Total(Resps[srv.msg])
        /\ Total(Resps[srv.msg]) \in Nat
    BY <1>2, <1>5, SidesAre
  <2>3. srv.pos = Total(Resps[srv.msg])
    BY <1>5, <2>1, <2>2 DEF Sending
  <2>4. srv.pos - p \in Nat /\ srv.msg \in Int /\ p \in Int
    BY <1>4, <2>2
  <2>5. srv.pos - p = 0
    BY <1>5, <2>1, <2>4, SegType
  <2>6. p = srv.pos
    BY <1>4, <2>2, <2>5
  <2> QED
    BY <1>3, <1>5, <2>3, <2>6
<1> QED
  BY <1>6, <1>7

\* A response taken for complete has been read to its last token
\* (feed_response_body, on_upstream_event), whichever way its body is delimited,
\* if those that the close of the connection delimits fit the buffer: beyond it
\* the code can cut one short.
THEOREM CompleteUncut ==
  ASSUME Mannered, Roomy PROVE Spec => []NotTruncated
<1>1. Mannered /\ Roomy /\ HeardInv => NotTruncated
  <2> SUFFICES ASSUME Mannered, Roomy, HeardInv, c.respComplete
               PROVE  Has(ToClient \o c.in, <<c.resp, Total(Resps[c.resp])>>)
    BY DEF NotTruncated
  <2>1. /\ c.resp = srv.msg /\ Mine(World) # <<>>
        /\ End(Mine(World)) = <<srv.msg, Total(Resps[srv.msg])>>
    BY CompleteAtEnd
  <2>2. StreamInv
    BY DEF HeardInv
  <2> QED
    BY <2>1, <2>2, EndRead
<1> QED
  BY <1>1, HeardInit, HeardNext, PTL DEF Spec
=============================================================================
