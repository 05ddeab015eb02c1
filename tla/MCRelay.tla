------------------------------ MODULE MCRelay ------------------------------
(* Scripts with which TLC checks Relay.                                    *)
EXTENDS Relay

Req(hdr, body, mode, pool) ==
  [hdr |-> hdr, body |-> body, mode |-> mode, keep |-> TRUE, form |-> "ok", pool |-> pool]
Resp(i, hdr, body, mode) ==
  [hdr |-> hdr, body |-> body, mode |-> mode, keep |-> mode # "UNTIL_CLOSE", form |-> "ok",
   answers |-> i, final |-> TRUE]

Get  == Req(1, 0, "NONE", 1)
Post == Req(1, 2, "LENGTH", 1)

Ok(i, mode, body) == Resp(i, 1, body, mode)
Script(reqs, resps) == [reqs |-> reqs, resps |-> resps, may |-> {}]
With(liberties, S) == {[s EXCEPT !.may = liberties] : s \in S}
Last(m)  == [m EXCEPT !.keep = FALSE]
Bad(m, form) == [m EXCEPT !.form = form]

\* Two requests one after the other, with and without bodies.
Basic == { Script(<<Post, Get>>, <<Ok(1, "LENGTH", 2), Ok(2, "NONE", 0)>>) }

\* A response larger than the buffer, delimited by its length or in chunks.
BigResponse == { Script(<<Get>>, <<Ok(1, mode, 6)>>) : mode \in {"LENGTH", "CHUNKED"} }

\* The same, delimited by the close of the connection.
Endless == { Script(<<Get>>, <<Ok(1, "UNTIL_CLOSE", 6)>>) }
Short   == { Script(<<Get>>, <<Ok(1, "UNTIL_CLOSE", 2)>>) }

\* A request larger than the buffer.
Upload == { Script(<<Req(1, 8, mode, 1), Get>>, <<Ok(1, "LENGTH", 1), Ok(2, "NONE", 0)>>) :
              mode \in {"LENGTH", "CHUNKED"} }

\* Peers that close after the exchange, and that do not keep to the protocol.
Closing == { Script(<<Last(Get)>>, <<Ok(1, "LENGTH", 1)>>),
             Script(<<Get, Get>>, <<Last(Ok(1, "LENGTH", 1)), Ok(2, "NONE", 0)>>) }
Broken  == { Script(<<Bad(Get, "badHeader")>>, <<>>),
             Script(<<Req(6, 0, "NONE", 1)>>, <<>>),
             Script(<<Req(2, 0, "NONE", 0)>>, <<>>),
             Script(<<Bad(Req(1, 2, "CHUNKED", 1), "badChunk")>>, <<>>),
             Script(<<Get>>, <<Bad(Ok(1, "NONE", 0), "badHeader")>>),
             Script(<<Get>>, <<Bad(Ok(1, "CHUNKED", 3), "badChunk")>>) }

\* Two requests for different pools on one client connection.
TwoPools == { Script(<<Get, Req(1, 0, "NONE", 2)>>, <<Ok(1, "LENGTH", 1), Ok(2, "NONE", 0)>>) }

\* An interim (1xx) response before the final one.
Interim == { Script(<<Get>>, <<[Ok(1, "NONE", 0) EXCEPT !.final = FALSE], Ok(1, "LENGTH", 1)>>) }

\* A response whose header comes in two parts.
SplitHeader == { Script(<<Get>>, <<Resp(1, 2, 1, "LENGTH")>>) }

\* What well-behaved peers go through, and what those with faults do.
WellFormed == Basic \cup BigResponse \cup Short \cup Closing \cup TwoPools \cup SplitHeader
Faulty     == Basic \cup BigResponse \cup Short \cup Closing \cup Broken \cup Upload
Faults     == {"halfClose", "reset", "idleClose", "refusal"}
Mixed      == WellFormed \cup With(Faults, Faulty)

EarlyUpload   == With({"earlyAnswer"}, Upload)
HalfUpload    == With({"halfClose"}, Upload)
Pipelined     == With({"pipelining"}, Basic)
HalfSplit     == With({"halfClose"}, SplitHeader)
ClosedTwice   == With({"idleClose"}, TwoPools)
=============================================================================
