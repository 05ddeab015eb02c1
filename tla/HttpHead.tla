------------------------------ MODULE HttpHead ------------------------------
(***************************************************************************)
(* The heads of HTTP messages (http_parser.c): a request head that arrives *)
(* in pieces, is read by hp_execute and rewritten by hp_rewrite for the    *)
(* next hop, which may be another of these proxies and reads it the same   *)
(* way; and a response head read by hp_response_execute.  One step is one  *)
(* call that wants more, or one turn of a loop over the lines.              *)
(***************************************************************************)
EXTENDS Integers, Sequences

CONSTANTS
  HP_MAX_HEADER_BYTES,
  SLOT,       \* room for the rewritten head
  Requests,   \* [first, lines]: heads that a client may send
  Responses,  \* heads that an upstream may send
  Hops        \* bound: proxies in a row

\* A line: the name without its case, the value as a sequence of words, the
\* size in units of an ordinary line.  A line that split_header refuses has
\* the name "".
HeaderLine == [name : STRING, value : Seq(STRING), size : Nat]

RequestHead ==
  [first : [words : BOOLEAN, minor : Nat, is_head : BOOLEAN], lines : Seq(HeaderLine)]
ResponseHead ==
  [first : [words : BOOLEAN, minor : Nat, code : Nat, to_head : BOOLEAN],
   lines : Seq(HeaderLine)]

ASSUME HttpHeadAssumption ==
  /\ HP_MAX_HEADER_BYTES \in Nat /\ SLOT \in Nat /\ Hops \in Nat \ {0}
  /\ Requests \subseteq RequestHead /\ Responses \subseteq ResponseHead

VARIABLES
  kind,   \* "request" or "response"
  head,   \* external: the head on its way to this hop
  len,    \* units of it received so far, what follows it included
  pc,     \* where hp_execute, hp_response_execute or hp_rewrite is
  k,      \* the line it is at
  req,    \* http_request, or http_response
  out,    \* the lines written by hp_rewrite so far
  xff,    \* xff_val of hp_rewrite
  hop,    \* this hop
  past    \* what each earlier hop read and sent: [head, req]

vars == <<kind, head, len, pc, k, req, out, xff, hop, past>>

Size(h) ==
  LET upTo[n \in 0..Len(h.lines)] == IF n = 0 THEN 0 ELSE upTo[n - 1] + h.lines[n].size
  IN 2 + upTo[Len(h.lines)]   \* with the first line and the empty one

\* What follows the head in the stream: one unit of it at most is looked at.
Total == Size(head) + 1

hp_init ==
  [status |-> "NEED_MORE", error_code |-> 0, host |-> <<>>, minor_version |-> 1,
   keep_alive |-> TRUE, has_xff |-> FALSE, is_head |-> FALSE,
   body_mode |-> "NONE", content_length |-> "0"]

hp_response_init ==
  [status |-> "NEED_MORE", error_code |-> 0, minor_version |-> 1, keep_alive |-> TRUE,
   body_mode |-> "UNTIL_CLOSE", content_length |-> "0",
   have_length |-> FALSE, have_chunked |-> FALSE]

Init ==
  /\ \/ kind = "request" /\ head \in Requests /\ req = hp_init
     \/ kind = "response" /\ head \in Responses /\ req = hp_response_init
  /\ len = 0 /\ pc = "wait" /\ k = 1 /\ out = <<>> /\ xff = <<>>
  /\ hop = 1 /\ past = <<>>

rewriting == <<out, xff>>
chain == <<hop, past>>

Fail(code) == /\ pc' = "over"
              /\ req' = [req EXCEPT !.status = "ERROR", !.error_code = code]

----------------------------------------------------------------------------
(* The start of hp_execute and of hp_response_execute.                     *)

Receive ==
  /\ pc = "wait" /\ len < Total
  /\ \E n \in 1..(Total - len) : len' = len + n
  /\ pc' = "call"
  /\ UNCHANGED <<kind, head, k, req, rewriting, chain>>

Complete == len >= Size(head)

NeedMore ==
  /\ pc = "call" /\ ~Complete /\ len <= HP_MAX_HEADER_BYTES
  /\ pc' = "wait"
  /\ UNCHANGED <<kind, head, len, k, req, rewriting, chain>>

TooLarge ==
  /\ pc = "call" /\ ~Complete /\ len > HP_MAX_HEADER_BYTES
  /\ Fail(IF kind = "request" THEN 431 ELSE 502)
  /\ UNCHANGED <<kind, head, len, k, rewriting, chain>>

\* A response head that is complete has no limit of its own.
TooLargeWhole ==
  /\ pc = "call" /\ Complete /\ kind = "request" /\ Size(head) > HP_MAX_HEADER_BYTES
  /\ Fail(431)
  /\ UNCHANGED <<kind, head, len, k, rewriting, chain>>

----------------------------------------------------------------------------
(* hp_execute.                                                             *)

Fits == Size(head) <= HP_MAX_HEADER_BYTES

RequestLine ==
  /\ pc = "call" /\ Complete /\ kind = "request" /\ Fits
  /\ LET f == head.first
         version == [req EXCEPT !.is_head = f.is_head, !.minor_version = f.minor,
                                !.keep_alive = (f.minor = 1)]
     IN CASE ~f.words -> Fail(400)
          [] f.words /\ f.minor \notin {0, 1} -> Fail(505)
          [] OTHER -> pc' = "lines" /\ req' = version
  /\ UNCHANGED <<kind, head, len, k, rewriting, chain>>

line == head.lines[k]

\* A turn of a loop over the lines with a line of one of these names.
At(where, names) ==
  /\ pc = where /\ k <= Len(head.lines) /\ line.name \in names
  /\ k' = k + 1
  /\ UNCHANGED <<kind, head, len, chain>>

\* Names that the switch of hp_execute knows.
Known == {"", "host", "connection", "x-forwarded-for", "content-length",
          "transfer-encoding"}

NoColon == At("lines", {""}) /\ Fail(400) /\ UNCHANGED rewriting

\* Mutant: the last Host counts.
HostAgain ==
  /\ At("lines", {"host"})
  /\ IF line.value \in {<<>>, <<"long">>} THEN Fail(400)
     ELSE pc' = pc /\ req' = [req EXCEPT !.host = line.value]
  /\ UNCHANGED rewriting

Host ==
  /\ At("lines", {"host"})
  /\ IF req.host # <<>> \/ line.value \in {<<>>, <<"long">>} THEN Fail(400)
     ELSE pc' = pc /\ req' = [req EXCEPT !.host = line.value]
  /\ UNCHANGED rewriting

Asked(r) == CASE line.value = <<"close">> -> [r EXCEPT !.keep_alive = FALSE]
              [] line.value = <<"keep-alive">> -> [r EXCEPT !.keep_alive = TRUE]
              [] OTHER -> r

Connection ==
  /\ At("lines", {"connection"}) /\ req' = Asked(req)
  /\ UNCHANGED <<pc, rewriting>>

Forwarded ==
  /\ At("lines", {"x-forwarded-for"}) /\ req' = [req EXCEPT !.has_xff = TRUE]
  /\ UNCHANGED <<pc, rewriting>>

\* parse_u64: a number, and not too long.
IsNumber(v) == v \notin {<<>>, <<"bad">>}

\* Mutant: the last of the two headers decides.
ContentLengthLast ==
  /\ At("lines", {"content-length"})
  /\ IF ~IsNumber(line.value) THEN Fail(400)
     ELSE /\ req' = [req EXCEPT !.content_length = line.value[1], !.body_mode = "LENGTH"]
          /\ UNCHANGED pc
  /\ UNCHANGED rewriting

ContentLength ==
  /\ At("lines", {"content-length"})
  /\ IF ~IsNumber(line.value) THEN Fail(400)
     ELSE /\ req' = [req EXCEPT !.content_length = line.value[1],
                                !.body_mode = IF @ = "CHUNKED" THEN @ ELSE "LENGTH"]
          /\ UNCHANGED pc
  /\ UNCHANGED rewriting

TransferEncoding ==
  /\ At("lines", {"transfer-encoding"})
  /\ IF line.value # <<"chunked">> THEN Fail(400)
     ELSE req' = [req EXCEPT !.body_mode = "CHUNKED"] /\ UNCHANGED pc
  /\ UNCHANGED rewriting

\* Any other header is passed over.
Ignored ==
  /\ pc = "lines" /\ k <= Len(head.lines) /\ line.name \notin Known
  /\ k' = k + 1
  /\ UNCHANGED <<kind, head, len, pc, req, rewriting, chain>>

Execute_End ==
  /\ pc = "lines" /\ k > Len(head.lines)
  /\ IF req.host = <<>> THEN Fail(400) /\ k' = k
     ELSE pc' = "rewrite" /\ k' = 1 /\ req' = [req EXCEPT !.status = "DONE"]
  /\ UNCHANGED <<kind, head, len, rewriting, chain>>

----------------------------------------------------------------------------
(* hp_rewrite, and the next hop.                                           *)

Ours == {"x-forwarded-for", "x-forwarded-proto", "x-real-ip", "connection",
         "proxy-connection", "keep-alive"}

Client(n) == IF n = 1 THEN "client" ELSE "proxy"

\* Mutant: X-Forwarded-For is replaced, not chained.
DropReplaces ==
  /\ At("rewrite", Ours) /\ UNCHANGED <<pc, req, out, xff>>

Drop ==
  /\ At("rewrite", Ours)
  /\ xff' = IF line.name = "x-forwarded-for" THEN line.value ELSE xff
  /\ UNCHANGED <<pc, req, out>>

Copy ==
  /\ pc = "rewrite" /\ k <= Len(head.lines) /\ line.name \notin Ours
  /\ out' = Append(out, line) /\ k' = k + 1
  /\ UNCHANGED <<kind, head, len, pc, req, xff, chain>>

New(name, value) == [name |-> name, value |-> value, size |-> 1]

\* Mutant: keep-alive is taken to be the default of the next hop.
RewrittenNoWish ==
  [head EXCEPT !.lines =
     out \o << New("x-forwarded-for", Append(xff, Client(hop))),
               New("x-forwarded-proto", <<"http">>), New("x-real-ip", <<Client(hop)>>) >>]

Rewritten ==
  [head EXCEPT !.lines =
     out \o << New("x-forwarded-for", Append(xff, Client(hop))),
               New("x-forwarded-proto", <<"http">>), New("x-real-ip", <<Client(hop)>>),
               New("connection", <<"keep-alive">>) >>]

\* prepare_request refuses what does not fit; otherwise it goes to the next
\* hop, which starts to read it.
Rewrite_End ==
  /\ pc = "rewrite" /\ k > Len(head.lines)
  /\ out' = <<>> /\ xff' = <<>>
  /\ IF Size(Rewritten) > SLOT
     THEN Fail(431) /\ UNCHANGED <<head, len, k, chain>>
     ELSE /\ past' = Append(past, [head |-> head, req |-> req])
          /\ head' = Rewritten
          /\ IF hop = Hops THEN pc' = "over" /\ UNCHANGED <<len, k, req, hop>>
             ELSE pc' = "wait" /\ len' = 0 /\ k' = 1 /\ req' = hp_init /\ hop' = hop + 1
  /\ UNCHANGED kind

----------------------------------------------------------------------------
(* hp_response_execute.                                                    *)

StatusLine ==
  /\ pc = "call" /\ Complete /\ kind = "response"
  /\ IF ~head.first.words \/ head.first.code \notin 100..599 THEN Fail(502)
     ELSE /\ pc' = "fields"
          /\ req' = [req EXCEPT !.minor_version = head.first.minor,
                                !.keep_alive = (head.first.minor = 1)]
  /\ UNCHANGED <<kind, head, len, k, rewriting, chain>>

Field ==
  /\ At("fields", {"content-length", "transfer-encoding", "connection"})
  /\ req' = CASE line.name = "content-length" ->
                   [req EXCEPT !.have_length = IsNumber(line.value),
                               !.content_length =
                                  IF IsNumber(line.value) THEN line.value[1] ELSE @]
              [] line.name = "transfer-encoding" ->
                   [req EXCEPT !.have_chunked = (line.value = <<"chunked">>)]
              [] OTHER -> Asked(req)
  /\ UNCHANGED <<pc, rewriting>>

FieldIgnored ==
  /\ pc = "fields" /\ k <= Len(head.lines)
  /\ line.name \notin {"content-length", "transfer-encoding", "connection"}
  /\ k' = k + 1
  /\ UNCHANGED <<kind, head, len, pc, req, rewriting, chain>>

\* The response to a HEAD (first.to_head), and some codes, have no body.
Bodiless(f) == f.to_head \/ f.code \in {204, 304} \cup (100..199)

\* Mutant: Content-Length is preferred.
ModeLength ==
  CASE Bodiless(head.first) -> "NONE"
    [] ~Bodiless(head.first) /\ req.have_length -> "LENGTH"
    [] ~Bodiless(head.first) /\ ~req.have_length /\ req.have_chunked -> "CHUNKED"
    [] OTHER -> "UNTIL_CLOSE"

Mode ==
  CASE Bodiless(head.first) -> "NONE"
    [] ~Bodiless(head.first) /\ req.have_chunked -> "CHUNKED"
    [] ~Bodiless(head.first) /\ ~req.have_chunked /\ req.have_length -> "LENGTH"
    [] OTHER -> "UNTIL_CLOSE"

Response_End ==
  /\ pc = "fields" /\ k > Len(head.lines)
  /\ pc' = "over"
  /\ req' = [req EXCEPT !.status = "DONE", !.body_mode = Mode,
                        !.keep_alive = @ /\ Mode # "UNTIL_CLOSE"]
  /\ UNCHANGED <<kind, head, len, k, rewriting, chain>>

----------------------------------------------------------------------------

Arrival == Receive \/ NeedMore \/ TooLarge \/ TooLargeWhole
Execute == \/ RequestLine \/ NoColon \/ Host \/ Connection \/ Forwarded \/ ContentLength
           \/ TransferEncoding \/ Ignored \/ Execute_End
Rewrite == Drop \/ Copy \/ Rewrite_End
ResponseExecute == StatusLine \/ Field \/ FieldIgnored \/ Response_End

Next == Arrival \/ Execute \/ Rewrite \/ ResponseExecute

Spec == Init /\ [][Next]_vars

----------------------------------------------------------------------------
(* Properties: what a head means, said of the head as a whole.             *)

Named(h, n) == {j \in DOMAIN h.lines : h.lines[j].name = n}
Latest(h, S) == h.lines[CHOOSE j \in S : \A m \in S : m <= j].value

\* What the last Connection line that says something asks for.
Wish(h) ==
  LET said == {j \in Named(h, "connection") :
                 h.lines[j].value \in {<<"close">>, <<"keep-alive">>}}
  IN IF said = {} THEN h.first.minor = 1 ELSE Latest(h, said) = <<"keep-alive">>

ErrorIn(h) ==
  CASE Size(h) > HP_MAX_HEADER_BYTES -> 431
    [] Size(h) <= HP_MAX_HEADER_BYTES /\ h.first.words /\ h.first.minor \notin {0, 1} -> 505
    [] OTHER -> 400

Acceptable(h) ==
  /\ Size(h) <= HP_MAX_HEADER_BYTES
  /\ h.first.words /\ h.first.minor \in {0, 1} /\ Named(h, "") = {}
  /\ \E j \in DOMAIN h.lines :
       Named(h, "host") = {j} /\ h.lines[j].value \notin {<<>>, <<"long">>}
  /\ \A j \in Named(h, "content-length") : IsNumber(h.lines[j].value)
  /\ \A j \in Named(h, "transfer-encoding") : h.lines[j].value = <<"chunked">>

Meaning(h) ==
  LET lengths == Named(h, "content-length")
  IN [status |-> "DONE", error_code |-> 0, host |-> Latest(h, Named(h, "host")),
      minor_version |-> h.first.minor, keep_alive |-> Wish(h),
      has_xff |-> Named(h, "x-forwarded-for") # {}, is_head |-> h.first.is_head,
      body_mode |-> IF Named(h, "transfer-encoding") # {} THEN "CHUNKED"
                    ELSE IF lengths # {} THEN "LENGTH" ELSE "NONE",
      content_length |-> IF lengths = {} THEN "0" ELSE Latest(h, lengths)[1]]

\* However a request head is cut, and whatever the order of its lines, it is
\* refused exactly when it is not acceptable as a whole, and is otherwise
\* taken for what it means: one host, one delimitation of the body.
VerdictOfWhole ==
  kind = "request" =>
    /\ \A j \in DOMAIN past : Acceptable(past[j].head) /\ past[j].req = Meaning(past[j].head)
    /\ req.status = "ERROR" =>
         \/ ~Acceptable(head) /\ req.error_code = ErrorIn(head)
         \/ Acceptable(head) /\ req.error_code = 431 /\ hop - 1 = Len(past)
    /\ pc = "wait" => len < Size(head)

\* What the next hop reads in the rewritten head is what this hop read in the
\* original: the same host, version and method, and a body that ends at the
\* same byte; only the wish to keep the connection is this hop's own.  The one
\* reason it may have to refuse is that the head has grown.
NextHopAgrees ==
  /\ \A j \in DOMAIN past : j > 1 =>
       /\ past[j].req.keep_alive /\ past[j].req.has_xff
       /\ past[j].req = [past[j - 1].req EXCEPT !.keep_alive = TRUE, !.has_xff = TRUE]
  /\ hop > 1 /\ req.status = "ERROR" => req.error_code = 431

\* The addresses a head was forwarded for.
Forwards(h) ==
  IF Named(h, "x-forwarded-for") = {} THEN <<>> ELSE Latest(h, Named(h, "x-forwarded-for"))

\* X-Forwarded-For is chained: after each hop there is one such line, with
\* what the client's had and then one address for each hop.
ChainGrows ==
  \A j \in DOMAIN past :
    LET next == IF j < Len(past) THEN past[j + 1].head ELSE head
    IN /\ \E m \in DOMAIN next.lines : Named(next, "x-forwarded-for") = {m}
       /\ Forwards(next) = Append(Forwards(past[j].head), Client(j))

\* A response is kept open only if its end is known, and what delimits it does
\* not depend on the order of its lines except among lines of one name.
ResponseFraming ==
  kind = "response" /\ req.status = "DONE" =>
    LET coded   == Named(head, "transfer-encoding")
        lengths == Named(head, "content-length")
        chunked == coded # {} /\ Latest(head, coded) = <<"chunked">>
        counted == lengths # {} /\ IsNumber(Latest(head, lengths))
    IN /\ req.body_mode = "NONE" <=> Bodiless(head.first)
       /\ req.body_mode = "CHUNKED" <=> chunked /\ ~Bodiless(head.first)
       /\ req.body_mode = "LENGTH" =>
            counted /\ req.content_length = Latest(head, lengths)[1]
       /\ req.keep_alive <=> Wish(head) /\ (Bodiless(head.first) \/ chunked \/ counted)

\* Refuted: a head over the limit is refused (http_parser.h:18-19).  That of a
\* response is refused only if it arrives in more than one piece.
LargeRefused == req.status = "DONE" => Size(head) <= HP_MAX_HEADER_BYTES \/ kind = "request"

\* Refuted: no address of the chain is lost (http_parser.h:100).  Of two
\* X-Forwarded-For lines only the last one is chained.
NoAddressLost ==
  \A j \in DOMAIN past : \A m \in Named(past[j].head, "x-forwarded-for") :
    LET next == IF j < Len(past) THEN past[j + 1].head ELSE head
        v == past[j].head.lines[m].value
    IN \A a \in DOMAIN v : \E b \in DOMAIN Forwards(next) : Forwards(next)[b] = v[a]
=============================================================================
