-------------------------- MODULE HttpParser_proof --------------------------
(***************************************************************************)
(* Theorems on http_parser.c.  For request heads of any number of lines,   *)
(* cut anywhere and passed on by any number of these proxies: each is      *)
(* refused or taken for what the whole of it says.  For response heads:    *)
(* what delimits the body is what the whole head says.  For chunked bodies *)
(* cut anywhere, whatever the width of remaining and the limit of a size   *)
(* line: the size of a chunk never wraps, no chunk inherits anything of    *)
(* the one before, and bodies of any number of chunks are found to end     *)
(* where their sender ended them, or refused at their first bad line.       *)
(***************************************************************************)
EXTENDS HttpHead, ChunkedBody, NaturalsInduction, WellFoundedInduction, SequenceTheorems, TLAPS

----------------------------------------------------------------------------
(* Types.  The provers do not know a string for a member of STRING: those  *)
(* that the program writes are named.                                       *)

Text == STRING \cup {"0", "client", "proxy", "http", "keep-alive", "x-forwarded-for",
                     "x-forwarded-proto", "x-real-ip", "connection"}

Line == [name : Text, value : Seq(Text), size : Nat]

TypedRequest ==
  [first : [words : BOOLEAN, minor : Nat, is_head : BOOLEAN], lines : Seq(Line)]
TypedResponse ==
  [first : [words : BOOLEAN, minor : Nat, code : Nat, to_head : BOOLEAN], lines : Seq(Line)]

LEMMA SeqMonotone ==
  ASSUME NEW S, NEW T, S \subseteq T
  PROVE  Seq(S) \subseteq Seq(T)
<1> SUFFICES ASSUME NEW s \in Seq(S) PROVE s \in Seq(T)
  OBVIOUS
<1>1. Len(s) \in Nat /\ s \in [1..Len(s) -> T]
  OBVIOUS
<1> QED
  BY <1>1, SeqDef

LEMMA HeadsTyped == Requests \subseteq TypedRequest /\ Responses \subseteq TypedResponse
<1>1. STRING \subseteq Text
  BY DEF Text
<1>2. Seq(STRING) \subseteq Seq(Text)
  BY <1>1, SeqMonotone
<1>3. HeaderLine \subseteq Line
  BY <1>1, <1>2 DEF HeaderLine, Line
<1>4. Seq(HeaderLine) \subseteq Seq(Line)
  BY <1>3, SeqMonotone
<1> QED
  BY <1>4, HttpHeadAssumption DEF RequestHead, ResponseHead, TypedRequest, TypedResponse

----------------------------------------------------------------------------
(* Heads: what is read of the lines before one of them.                    *)

Before(h, n, m) == {j \in Named(h, n) : j < m}

\* The value of the last line of a name before line m.
LastBefore(h, n, m, default) ==
  IF Before(h, n, m) = {} THEN default ELSE Latest(h, Before(h, n, m))

SaidBefore(h, m) ==
  {j \in Before(h, "connection", m) : h.lines[j].value \in {<<"close">>, <<"keep-alive">>}}

WishBefore(h, m) ==
  IF SaidBefore(h, m) = {} THEN h.first.minor = 1
  ELSE Latest(h, SaidBefore(h, m)) = <<"keep-alive">>

----------------------------------------------------------------------------
(* Least and last elements: the induction that the rest needs.             *)

LEMMA LeastNat ==
  ASSUME NEW T, T \subseteq Nat, T # {}
  PROVE  \E x \in T : \A y \in T : x <= y
<1> DEFINE R == {xy \in Nat \X Nat : xy[1] < xy[2]}
<1>1. IsWellFoundedOn(R, Nat)
  BY NatLessThanWellFounded DEF OpToRel
<1> HIDE DEF R
<1>2. \E x \in T : \A y \in T : ~ (<<y, x>> \in R)
  BY <1>1, WFMin
<1>3. \A x, y \in Nat : <<y, x>> \notin R => x <= y
  BY DEF R
<1> QED
  BY <1>2, <1>3

LEMMA LastNat ==
  ASSUME NEW N \in Nat, NEW S, S \subseteq 1..N, S # {}
  PROVE  \E j \in S : \A m \in S : m <= j
<1> DEFINE T == {N - x : x \in S}
<1>0. \A x \in S : x \in 1..N /\ N - x \in Nat
  OBVIOUS
<1>1. T \subseteq Nat /\ T # {}
  BY <1>0
<1>2. PICK t \in T : \A y \in T : t <= y
  <2> HIDE DEF T
  <2> QED
    BY <1>1, LeastNat
<1>3. PICK j \in S : t = N - j
  BY <1>2
<1>4. \A m \in S : N - m \in T
  OBVIOUS
<1>5. \A m \in S : N - j <= N - m
  BY <1>2, <1>3, <1>4
<1> HIDE DEF T
<1>6. \A m \in S : m <= j
  BY <1>5
<1> QED
  BY <1>6

LEMMA LatestAt ==
  ASSUME NEW h, NEW S, S \subseteq Int, NEW j \in S, \A m \in S : m <= j
  PROVE  Latest(h, S) = h.lines[j].value
<1> DEFINE Is(u) == u \in S /\ \A m \in S : m <= u
<1>0. \A u : Is(u) => u = j
  OBVIOUS
<1>2. Is(j)
  OBVIOUS
<1>1. (CHOOSE u \in S : \A m \in S : m <= u) = j
  <2>1. (CHOOSE u : Is(u)) = j
    <3> HIDE DEF Is
    <3> QED
      BY <1>0, <1>2
  <2> QED
    BY <2>1
<1> QED
  BY <1>1 DEF Latest

----------------------------------------------------------------------------
(* The size of a head.                                                     *)

LEMMA SizeNat ==
  ASSUME NEW h, h.lines \in Seq(Line)
  PROVE  Size(h) \in Nat /\ Size(h) >= 2
<1> DEFINE N == Len(h.lines)
           Sums(f, n) ==
             f = [m \in 0..n |-> IF m = 0 THEN 0 ELSE f[m - 1] + h.lines[m].size]
<1>1. N \in Nat /\ \A m \in 1..N : h.lines[m].size \in Nat
  <2>1. N \in Nat /\ \A m \in 1..N : h.lines[m] \in Line
    OBVIOUS
  <2>2. \A l \in Line : l.size \in Nat
    BY DEF Line
  <2> QED
    BY <2>1, <2>2
<1>2. Size(h) = 2 + (CHOOSE f : Sums(f, N))[N]
  BY DEF Size
<1> HIDE DEF N
<1>3. \A n \in 0..N : \E f : Sums(f, n)
  <2> DEFINE Bad == {n \in 0..N : ~ \E f : Sums(f, n)}
  <2> SUFFICES ASSUME Bad # {} PROVE FALSE
    OBVIOUS
  <2>1. PICK n \in Bad : \A m \in Bad : n <= m
    <3>1. Bad \subseteq Nat
      BY <1>1
    <3> HIDE DEF Bad
    <3> QED
      BY <3>1, LeastNat
  <2>2. n # 0
    <3>1. Sums([m \in 0..0 |-> 0], 0)
      OBVIOUS
    <3> QED
      BY <3>1, <2>1
  <2>3. n \in 1..N /\ n - 1 \in 0..N /\ n - 1 \notin Bad
    BY <2>1, <2>2, <1>1
  <2>4. PICK f : Sums(f, n - 1)
    BY <2>3
  <2> DEFINE g == [m \in 0..n |-> IF m < n THEN f[m] ELSE f[n - 1] + h.lines[n].size]
  <2>5. \A m \in 0..n : g[m] = IF m = 0 THEN 0 ELSE g[m - 1] + h.lines[m].size
    <3> TAKE m \in 0..n
    <3>1. CASE m = 0
      BY <3>1, <2>3, <2>4, <1>1
    <3>2. CASE m \in 1..(n - 1)
      BY <3>2, <2>3, <2>4, <1>1
    <3>3. CASE m = n
      BY <3>3, <2>3, <1>1
    <3> QED
      BY <3>1, <3>2, <3>3, <2>3, <1>1
  <2>6. Sums(g, n)
    <3>1. g = [m \in 0..n |-> g[m]]
      OBVIOUS
    <3> HIDE DEF g
    <3>2. [m \in 0..n |-> g[m]]
          = [m \in 0..n |-> IF m = 0 THEN 0 ELSE g[m - 1] + h.lines[m].size]
      BY <2>5
    <3> QED
      BY <3>1, <3>2
  <2> QED
    BY <2>6, <2>1
<1> DEFINE f == CHOOSE g : Sums(g, N)
<1>4. Sums(f, N)
  <2>1. \E g : Sums(g, N)
    BY <1>1, <1>3
  <2> HIDE DEF Sums
  <2> QED
    BY <2>1
<1> HIDE DEF f
<1>5. \A n \in 0..N : f[n] \in Nat
  <2> DEFINE Bad == {n \in 0..N : f[n] \notin Nat}
  <2> SUFFICES ASSUME Bad # {} PROVE FALSE
    OBVIOUS
  <2>1. PICK n \in Bad : \A m \in Bad : n <= m
    <3>1. Bad \subseteq Nat
      BY <1>1
    <3> HIDE DEF Bad
    <3> QED
      BY <3>1, LeastNat
  <2>2. \A m \in 0..N : f[m] = IF m = 0 THEN 0 ELSE f[m - 1] + h.lines[m].size
    BY <1>4
  <2>3. n # 0
    BY <2>1, <2>2, <1>1
  <2>4. n \in 1..N /\ n - 1 \in 0..N /\ n - 1 \notin Bad
    BY <2>1, <2>3, <1>1
  <2>5. f[n - 1] \in Nat
    BY <2>4
  <2>6. f[n] = f[n - 1] + h.lines[n].size
    BY <2>2, <2>4, <1>1
  <2> QED
    BY <2>1, <2>4, <2>5, <2>6, <1>1
<1>6. f[N] \in Nat
  BY <1>1, <1>5
<1> QED
  BY <1>2, <1>6 DEF f

----------------------------------------------------------------------------
(* One more line.                                                          *)

LEMMA BeforeTypes ==
  ASSUME NEW h, h.lines \in Seq(Line), NEW n, NEW m
  PROVE  /\ Len(h.lines) \in Nat
         /\ Named(h, n) = {j \in 1..Len(h.lines) : h.lines[j].name = n}
         /\ Before(h, n, m) = {j \in 1..Len(h.lines) : h.lines[j].name = n /\ j < m}
         /\ Before(h, n, m) \subseteq Int
BY DEF Before, Named

LEMMA BeforeEnds ==
  ASSUME NEW h, h.lines \in Seq(Line), NEW n
  PROVE  Before(h, n, 1) = {} /\ Before(h, n, Len(h.lines) + 1) = Named(h, n)
BY DEF Before, Named

LEMMA BeforeNext ==
  ASSUME NEW h, h.lines \in Seq(Line), NEW n, NEW m \in 1..Len(h.lines)
  PROVE  Before(h, n, m + 1) = IF h.lines[m].name = n THEN Before(h, n, m) \cup {m}
                               ELSE Before(h, n, m)
<1>1. Len(h.lines) \in Nat
  OBVIOUS
<1>2. \A j \in 1..Len(h.lines) : j < m + 1 <=> j < m \/ j = m
  BY <1>1
<1> QED
  BY <1>1, <1>2 DEF Before, Named

LEMMA LastBeforeNext ==
  ASSUME NEW h, h.lines \in Seq(Line), NEW n, NEW m \in 1..Len(h.lines), NEW d
  PROVE  LastBefore(h, n, m + 1, d) =
           IF h.lines[m].name = n THEN h.lines[m].value ELSE LastBefore(h, n, m, d)
<1>1. CASE h.lines[m].name = n
  <2>1. Before(h, n, m + 1) = Before(h, n, m) \cup {m}
    BY <1>1, BeforeNext
  <2>2. /\ Before(h, n, m + 1) \subseteq Int /\ m \in Before(h, n, m + 1)
        /\ \A j \in Before(h, n, m + 1) : j <= m
    BY <2>1, BeforeTypes
  <2>3. Latest(h, Before(h, n, m + 1)) = h.lines[m].value
    BY <2>2, LatestAt
  <2> QED
    BY <1>1, <2>2, <2>3 DEF LastBefore
<1>2. CASE h.lines[m].name # n
  BY <1>2, BeforeNext DEF LastBefore
<1> QED
  BY <1>1, <1>2

LEMMA WishNext ==
  ASSUME NEW h, h.lines \in Seq(Line), NEW m \in 1..Len(h.lines)
  PROVE  WishBefore(h, m + 1) =
           IF h.lines[m].name = "connection"
              /\ h.lines[m].value \in {<<"close">>, <<"keep-alive">>}
           THEN h.lines[m].value = <<"keep-alive">>
           ELSE WishBefore(h, m)
<1>1. CASE /\ h.lines[m].name = "connection"
           /\ h.lines[m].value \in {<<"close">>, <<"keep-alive">>}
  <2>1. SaidBefore(h, m + 1) = SaidBefore(h, m) \cup {m}
    BY <1>1, BeforeNext DEF SaidBefore
  <2>2. /\ SaidBefore(h, m + 1) \subseteq Int /\ m \in SaidBefore(h, m + 1)
        /\ \A j \in SaidBefore(h, m + 1) : j <= m
    BY <2>1, BeforeTypes DEF SaidBefore
  <2>3. Latest(h, SaidBefore(h, m + 1)) = h.lines[m].value
    BY <2>2, LatestAt
  <2> QED
    BY <1>1, <2>2, <2>3 DEF WishBefore
<1>2. CASE ~ (/\ h.lines[m].name = "connection"
              /\ h.lines[m].value \in {<<"close">>, <<"keep-alive">>})
  <2>1. SaidBefore(h, m + 1) = SaidBefore(h, m)
    BY <1>2, BeforeNext DEF SaidBefore
  <2> QED
    BY <1>2, <2>1 DEF WishBefore
<1> QED
  BY <1>1, <1>2

LEMMA WishEnds ==
  ASSUME NEW h, h.lines \in Seq(Line)
  PROVE  (WishBefore(h, 1) <=> h.first.minor = 1)
         /\ (WishBefore(h, Len(h.lines) + 1) <=> Wish(h))
<1>1. SaidBefore(h, 1) = {}
  BY BeforeEnds DEF SaidBefore
<1>2. SaidBefore(h, Len(h.lines) + 1)
      = {j \in Named(h, "connection") : h.lines[j].value \in {<<"close">>, <<"keep-alive">>}}
  BY BeforeEnds DEF SaidBefore
<1> QED
  BY <1>1, <1>2 DEF WishBefore, Wish

----------------------------------------------------------------------------
(* Request heads: what hp_execute has made of the lines before one of them,*)
(* and when it has not refused any.                                         *)

Request ==
  [status : {"NEED_MORE", "DONE", "ERROR"}, error_code : Nat, host : Seq(Text),
   minor_version : Nat, keep_alive : BOOLEAN, has_xff : BOOLEAN, is_head : BOOLEAN,
   body_mode : {"NONE", "LENGTH", "CHUNKED"}, content_length : Text]

ReadBefore(r, h, m) ==
  /\ r \in Request /\ r.status = "NEED_MORE" /\ r.error_code = 0
  /\ r.host = LastBefore(h, "host", m, <<>>)
  /\ r.minor_version = h.first.minor /\ r.is_head = h.first.is_head
  /\ r.keep_alive <=> WishBefore(h, m)
  /\ r.has_xff <=> Before(h, "x-forwarded-for", m) # {}
  /\ r.body_mode = IF Before(h, "transfer-encoding", m) # {} THEN "CHUNKED"
                   ELSE IF Before(h, "content-length", m) # {} THEN "LENGTH" ELSE "NONE"
  /\ r.content_length = LastBefore(h, "content-length", m, <<"0">>)[1]

SoundBefore(h, m) ==
  /\ h.first.words /\ h.first.minor \in {0, 1} /\ Before(h, "", m) = {}
  /\ \A u, j \in Before(h, "host", m) : u = j
  /\ \A j \in Before(h, "host", m) : h.lines[j].value \notin {<<>>, <<"long">>}
  /\ \A j \in Before(h, "content-length", m) : IsNumber(h.lines[j].value)
  /\ \A j \in Before(h, "transfer-encoding", m) : h.lines[j].value = <<"chunked">>

\* Acceptable, but for its size.
Sound(h) == SoundBefore(h, Len(h.lines) + 1) /\ Named(h, "host") # {}

LEMMA AcceptableSound ==
  ASSUME NEW h, h.lines \in Seq(Line)
  PROVE  Acceptable(h) <=> Size(h) <= HP_MAX_HEADER_BYTES /\ Sound(h)
<1>1. \A n : Before(h, n, Len(h.lines) + 1) = Named(h, n)
  BY BeforeEnds
<1>2. Named(h, "host") \subseteq DOMAIN h.lines
  BY DEF Named
<1>3. (\E j \in DOMAIN h.lines :
         Named(h, "host") = {j} /\ h.lines[j].value \notin {<<>>, <<"long">>})
      <=> /\ Named(h, "host") # {}
          /\ \A u, j \in Named(h, "host") : u = j
          /\ \A j \in Named(h, "host") : h.lines[j].value \notin {<<>>, <<"long">>}
  <2>1. ASSUME Named(h, "host") # {}, \A u, j \in Named(h, "host") : u = j
        PROVE  \E j \in DOMAIN h.lines : Named(h, "host") = {j}
    BY <2>1, <1>2
  <2> QED
    BY <2>1
<1> QED
  BY <1>1, <1>3 DEF Acceptable, Sound, SoundBefore

\* What makes a line bad.
LEMMA SoundNext ==
  ASSUME NEW h, h.lines \in Seq(Line), NEW m \in 1..Len(h.lines), SoundBefore(h, m)
  PROVE  SoundBefore(h, m + 1) <=>
           /\ h.lines[m].name # ""
           /\ h.lines[m].name = "host" =>
                Before(h, "host", m) = {} /\ h.lines[m].value \notin {<<>>, <<"long">>}
           /\ h.lines[m].name = "content-length" => IsNumber(h.lines[m].value)
           /\ h.lines[m].name = "transfer-encoding" => h.lines[m].value = <<"chunked">>
<1>1. \A n : Before(h, n, m + 1) = IF h.lines[m].name = n THEN Before(h, n, m) \cup {m}
                                   ELSE Before(h, n, m)
  BY BeforeNext
<1>2. \A n : m \notin Before(h, n, m)
  BY BeforeTypes
<1>3. Before(h, "", m + 1) = {} <=> h.lines[m].name # "" /\ Before(h, "", m) = {}
  BY <1>1
<1>4. (\A u, j \in Before(h, "host", m + 1) : u = j)
      <=> (h.lines[m].name = "host" => Before(h, "host", m) = {})
  <2>1. \A u, j \in Before(h, "host", m) : u = j
    BY DEF SoundBefore
  <2>2. Before(h, "host", m + 1) = IF h.lines[m].name = "host" THEN Before(h, "host", m) \cup {m}
                                   ELSE Before(h, "host", m)
    BY <1>1
  <2> QED
    BY <1>2, <2>1, <2>2
<1>6. (\A j \in Before(h, "host", m + 1) : h.lines[j].value \notin {<<>>, <<"long">>})
      <=> (h.lines[m].name = "host" => h.lines[m].value \notin {<<>>, <<"long">>})
  <2>1. \A j \in Before(h, "host", m) : h.lines[j].value \notin {<<>>, <<"long">>}
    BY DEF SoundBefore
  <2> QED
    BY <1>1, <2>1
<1>7. (\A j \in Before(h, "content-length", m + 1) : IsNumber(h.lines[j].value))
      <=> (h.lines[m].name = "content-length" => IsNumber(h.lines[m].value))
  <2>1. \A j \in Before(h, "content-length", m) : IsNumber(h.lines[j].value)
    BY DEF SoundBefore
  <2>2. Before(h, "content-length", m + 1)
        = IF h.lines[m].name = "content-length" THEN Before(h, "content-length", m) \cup {m}
          ELSE Before(h, "content-length", m)
    BY <1>1
  <2> QED
    BY <2>1, <2>2
<1>8. (\A j \in Before(h, "transfer-encoding", m + 1) : h.lines[j].value = <<"chunked">>)
      <=> (h.lines[m].name = "transfer-encoding" => h.lines[m].value = <<"chunked">>)
  <2> DEFINE Good(j) == h.lines[j].value = <<"chunked">>
  <2>1. \A j \in Before(h, "transfer-encoding", m) : Good(j)
    BY DEF SoundBefore
  <2>2. Before(h, "transfer-encoding", m + 1)
        = IF h.lines[m].name = "transfer-encoding" THEN Before(h, "transfer-encoding", m) \cup {m}
          ELSE Before(h, "transfer-encoding", m)
    BY <1>1
  <2>3. (\A j \in Before(h, "transfer-encoding", m + 1) : Good(j))
        <=> (h.lines[m].name = "transfer-encoding" => Good(m))
    <3> HIDE DEF Good
    <3> QED
      BY <2>1, <2>2
  <2> QED
    BY <2>3
<1>9. h.first.words /\ h.first.minor \in {0, 1} /\ Before(h, "", m) = {}
  BY DEF SoundBefore
<1> QED
  BY <1>3, <1>4, <1>6, <1>7, <1>8, <1>9 DEF SoundBefore

\* A bad line makes the head bad.
LEMMA SoundAll ==
  ASSUME NEW h, h.lines \in Seq(Line), NEW m \in 1..(Len(h.lines) + 1), Sound(h)
  PROVE  SoundBefore(h, m)
<1>1. \A n : Before(h, n, m) \subseteq Before(h, n, Len(h.lines) + 1)
  BY BeforeTypes, BeforeEnds DEF Before
<1> QED
  BY <1>1 DEF Sound, SoundBefore

LEMMA WishBoolean ==
  ASSUME NEW h, NEW m
  PROVE  Wish(h) \in BOOLEAN /\ WishBefore(h, m) \in BOOLEAN
BY DEF Wish, WishBefore

LEMMA AllNext ==
  ASSUME NEW h, h.lines \in Seq(Line), NEW m \in 1..Len(h.lines)
  PROVE  /\ \A n : Before(h, n, m + 1) = IF h.lines[m].name = n THEN Before(h, n, m) \cup {m}
                                         ELSE Before(h, n, m)
         /\ \A n, d : LastBefore(h, n, m + 1, d) = IF h.lines[m].name = n THEN h.lines[m].value
                                                   ELSE LastBefore(h, n, m, d)
BY BeforeNext, LastBeforeNext

\* A line read.
LEMMA ReadNext ==
  ASSUME NEW h, h.lines \in Seq(Line), NEW m \in 1..Len(h.lines),
         NEW r, ReadBefore(r, h, m), NEW l, l = h.lines[m], NEW q \in Request,
         q.status = r.status, q.error_code = r.error_code,
         q.minor_version = r.minor_version, q.is_head = r.is_head,
         q.host = IF l.name = "host" THEN l.value ELSE r.host,
         q.keep_alive <=> IF l.name = "connection"
                              /\ l.value \in {<<"close">>, <<"keep-alive">>}
                           THEN l.value = <<"keep-alive">> ELSE r.keep_alive,
         q.has_xff <=> l.name = "x-forwarded-for" \/ r.has_xff,
         q.body_mode = IF l.name = "transfer-encoding" THEN "CHUNKED"
                       ELSE IF l.name = "content-length" /\ r.body_mode # "CHUNKED"
                            THEN "LENGTH" ELSE r.body_mode,
         q.content_length = IF l.name = "content-length" THEN l.value[1] ELSE r.content_length
  PROVE  ReadBefore(q, h, m + 1)
<1>1. \A n : Before(h, n, m + 1) = IF l.name = n THEN Before(h, n, m) \cup {m}
                                   ELSE Before(h, n, m)
  <2>1. \A n : Before(h, n, m + 1) = IF h.lines[m].name = n THEN Before(h, n, m) \cup {m}
                                     ELSE Before(h, n, m)
    BY AllNext
  <2> QED
    BY <2>1
<1>2. \A n, d : LastBefore(h, n, m + 1, d) = IF l.name = n THEN l.value
                                             ELSE LastBefore(h, n, m, d)
  <2>1. \A n, d : LastBefore(h, n, m + 1, d) = IF h.lines[m].name = n THEN h.lines[m].value
                                               ELSE LastBefore(h, n, m, d)
    BY AllNext
  <2> QED
    BY <2>1
<1>3. q.keep_alive <=> WishBefore(h, m + 1)
  BY WishNext DEF ReadBefore
<1>4. q.has_xff <=> Before(h, "x-forwarded-for", m + 1) # {}
  BY <1>1 DEF ReadBefore
<1>5. q.body_mode = IF Before(h, "transfer-encoding", m + 1) # {} THEN "CHUNKED"
                    ELSE IF Before(h, "content-length", m + 1) # {} THEN "LENGTH" ELSE "NONE"
  BY <1>1 DEF ReadBefore
<1>6. q.content_length = LastBefore(h, "content-length", m + 1, <<"0">>)[1]
  <2>1. LastBefore(h, "content-length", m + 1, <<"0">>)
        = IF l.name = "content-length" THEN l.value
          ELSE LastBefore(h, "content-length", m, <<"0">>)
    BY <1>2
  <2>2. r.content_length = LastBefore(h, "content-length", m, <<"0">>)[1]
    BY DEF ReadBefore
  <2> QED
    BY <2>1, <2>2
<1>7. q.host = LastBefore(h, "host", m + 1, <<>>)
  BY <1>2 DEF ReadBefore
<1>8. /\ q.status = "NEED_MORE" /\ q.error_code = 0
      /\ q.minor_version = h.first.minor /\ q.is_head = h.first.is_head
  BY DEF ReadBefore
<1> QED
  BY <1>3, <1>4, <1>5, <1>6, <1>7, <1>8 DEF ReadBefore

LEMMA ReadFirst ==
  ASSUME NEW h \in TypedRequest, NEW q,
         q = [hp_init EXCEPT !.is_head = h.first.is_head, !.minor_version = h.first.minor,
                             !.keep_alive = (h.first.minor = 1)]
  PROVE  ReadBefore(q, h, 1)
<1>1. h.lines \in Seq(Line) /\ h.first.minor \in Nat /\ h.first.is_head \in BOOLEAN
  BY DEF TypedRequest
<1>2. q \in Request
  <2>1. hp_init \in Request
    BY DEF hp_init, Request, Text
  <2> QED
    BY <1>1, <2>1 DEF Request
<1>3. /\ q.status = "NEED_MORE" /\ q.error_code = 0 /\ q.host = <<>>
      /\ q.minor_version = h.first.minor /\ q.is_head = h.first.is_head
      /\ ~q.has_xff /\ q.body_mode = "NONE" /\ q.content_length = "0"
  BY DEF hp_init
<1>4. q.keep_alive <=> h.first.minor = 1
  BY DEF hp_init
<1>5. \A n : Before(h, n, 1) = {}
  BY <1>1, BeforeEnds
<1>6. LastBefore(h, "host", 1, <<>>) = <<>> /\ LastBefore(h, "content-length", 1, <<"0">>) = <<"0">>
  BY <1>5 DEF LastBefore
<1>7. LastBefore(h, "content-length", 1, <<"0">>)[1] = "0"
  BY <1>6
<1>8. WishBefore(h, 1) <=> h.first.minor = 1
  BY <1>1, WishEnds
<1> QED
  BY <1>2, <1>3, <1>4, <1>5, <1>6, <1>7, <1>8 DEF ReadBefore

LEMMA SameRequest ==
  ASSUME NEW p \in Request, NEW q \in Request,
         p.status = q.status, p.error_code = q.error_code, p.host = q.host,
         p.minor_version = q.minor_version, p.is_head = q.is_head,
         p.keep_alive <=> q.keep_alive, p.has_xff <=> q.has_xff,
         p.body_mode = q.body_mode, p.content_length = q.content_length
  PROVE  p = q
BY DEF Request

\* The lines read.
LEMMA MeaningFields ==
  ASSUME NEW h \in TypedRequest, Sound(h)
  PROVE  /\ Meaning(h) \in Request
         /\ Meaning(h).status = "DONE" /\ Meaning(h).error_code = 0
         /\ Meaning(h).host = Latest(h, Named(h, "host"))
         /\ Meaning(h).minor_version = h.first.minor
         /\ Meaning(h).is_head = h.first.is_head
         /\ Meaning(h).keep_alive <=> Wish(h)
         /\ Meaning(h).has_xff <=> Named(h, "x-forwarded-for") # {}
         /\ Meaning(h).body_mode =
              IF Named(h, "transfer-encoding") # {} THEN "CHUNKED"
              ELSE IF Named(h, "content-length") # {} THEN "LENGTH" ELSE "NONE"
         /\ Meaning(h).content_length =
              IF Named(h, "content-length") = {} THEN "0"
              ELSE Latest(h, Named(h, "content-length"))[1]
<1>1. h.lines \in Seq(Line) /\ h.first.minor \in Nat /\ h.first.is_head \in BOOLEAN
  BY DEF TypedRequest
<1>2. \A j \in DOMAIN h.lines : h.lines[j].value \in Seq(Text)
  <2>1. \A j \in DOMAIN h.lines : h.lines[j] \in Line
    BY <1>1
  <2> QED
    BY <2>1 DEF Line
<1>3. ASSUME NEW n, Named(h, n) # {}
      PROVE  \E j \in Named(h, n) : Latest(h, Named(h, n)) = h.lines[j].value
  <2>1. Len(h.lines) \in Nat /\ Named(h, n) \subseteq 1..Len(h.lines)
    BY <1>1 DEF Named
  <2>2. PICK j \in Named(h, n) : \A m \in Named(h, n) : m <= j
    BY <1>3, <2>1, LastNat
  <2> QED
    BY <2>1, <2>2, LatestAt
<1>4. Latest(h, Named(h, "host")) \in Seq(Text)
  BY <1>2, <1>3 DEF Sound, Named
<1>5. ASSUME Named(h, "content-length") # {}
      PROVE  Latest(h, Named(h, "content-length"))[1] \in Text
  <2>1. PICK j \in Named(h, "content-length") :
               Latest(h, Named(h, "content-length")) = h.lines[j].value
    BY <1>3, <1>5
  <2>2. h.lines[j].value \in Seq(Text)
    BY <1>2, <2>1 DEF Named
  <2>3. IsNumber(h.lines[j].value)
    <3>1. Before(h, "content-length", Len(h.lines) + 1) = Named(h, "content-length")
      BY <1>1, BeforeEnds
    <3> QED
      BY <2>1, <3>1 DEF Sound, SoundBefore
  <2>4. \A v \in Seq(Text) : v # <<>> => v[1] \in Text
    OBVIOUS
  <2> QED
    BY <2>1, <2>2, <2>3, <2>4 DEF IsNumber
<1> DEFINE w == Wish(h)
           x == Named(h, "x-forwarded-for") # {}
           mode == IF Named(h, "transfer-encoding") # {} THEN "CHUNKED"
                   ELSE IF Named(h, "content-length") # {} THEN "LENGTH" ELSE "NONE"
           host == Latest(h, Named(h, "host"))
           length == IF Named(h, "content-length") = {} THEN "0"
                     ELSE Latest(h, Named(h, "content-length"))[1]
<1>6. w \in BOOLEAN /\ x \in BOOLEAN
  BY WishBoolean
<1>7. mode \in {"NONE", "LENGTH", "CHUNKED"}
  OBVIOUS
<1>8. length \in Text
  <2>1. "0" \in Text
    BY DEF Text
  <2> QED
    BY <2>1, <1>5
<1>9. Meaning(h) =
  [status |-> "DONE", error_code |-> 0, host |-> host, minor_version |-> h.first.minor,
   keep_alive |-> w, has_xff |-> x, is_head |-> h.first.is_head, body_mode |-> mode,
   content_length |-> length]
  BY DEF Meaning
<1>10. host \in Seq(Text)
  BY <1>4
<1> HIDE DEF w, x, mode, host, length
<1>11. Meaning(h) \in Request
  BY <1>1, <1>6, <1>7, <1>8, <1>9, <1>10 DEF Request
<1>12. /\ Meaning(h).status = "DONE" /\ Meaning(h).error_code = 0
       /\ Meaning(h).host = host /\ Meaning(h).minor_version = h.first.minor
       /\ Meaning(h).is_head = h.first.is_head /\ Meaning(h).keep_alive = w
       /\ Meaning(h).has_xff = x /\ Meaning(h).body_mode = mode
       /\ Meaning(h).content_length = length
  BY <1>9
<1> QED
  BY <1>11, <1>12 DEF w, x, mode, host, length

LEMMA ReadLast ==
  ASSUME NEW h \in TypedRequest, Sound(h), NEW r, ReadBefore(r, h, Len(h.lines) + 1),
         NEW q, q = [r EXCEPT !.status = "DONE"]
  PROVE  q = Meaning(h)
<1>0. h.lines \in Seq(Line)
  BY DEF TypedRequest
<1>1. \A n : Before(h, n, Len(h.lines) + 1) = Named(h, n)
  BY <1>0, BeforeEnds
<1>2. q \in Request
  BY DEF ReadBefore, Request
<1>3. q.status = "DONE" /\ q.error_code = 0
  BY DEF ReadBefore, Request
<1>4. q.host = Latest(h, Named(h, "host"))
  BY <1>1 DEF ReadBefore, Request, LastBefore, Sound
<1>5. q.minor_version = h.first.minor /\ q.is_head = h.first.is_head
  BY DEF ReadBefore, Request
<1>6. q.keep_alive <=> Wish(h)
  BY <1>0, WishEnds DEF ReadBefore, Request
<1>7. q.has_xff <=> Named(h, "x-forwarded-for") # {}
  BY <1>1 DEF ReadBefore, Request
<1>8. q.body_mode = IF Named(h, "transfer-encoding") # {} THEN "CHUNKED"
                    ELSE IF Named(h, "content-length") # {} THEN "LENGTH" ELSE "NONE"
  BY <1>1 DEF ReadBefore, Request
<1>9. q.content_length = IF Named(h, "content-length") = {} THEN "0"
                         ELSE Latest(h, Named(h, "content-length"))[1]
  <2>1. q.content_length = LastBefore(h, "content-length", Len(h.lines) + 1, <<"0">>)[1]
    BY DEF ReadBefore, Request
  <2>2. LastBefore(h, "content-length", Len(h.lines) + 1, <<"0">>)
        = IF Named(h, "content-length") = {} THEN <<"0">>
          ELSE Latest(h, Named(h, "content-length"))
    BY <1>1 DEF LastBefore
  <2> QED
    BY <2>1, <2>2
<1> DEFINE p == Meaning(h)
<1>10. /\ p \in Request /\ p.status = q.status /\ p.error_code = q.error_code
       /\ p.host = q.host /\ p.minor_version = q.minor_version /\ p.is_head = q.is_head
       /\ (p.keep_alive <=> q.keep_alive) /\ (p.has_xff <=> q.has_xff)
       /\ p.body_mode = q.body_mode /\ p.content_length = q.content_length
  BY <1>3, <1>4, <1>5, <1>6, <1>7, <1>8, <1>9, MeaningFields
<1> HIDE DEF p
<1>11. p = q
  BY <1>2, <1>10, SameRequest
<1> QED
  BY <1>11 DEF p

----------------------------------------------------------------------------
(* Rewriting: the lines that are kept mean in the new head what they meant *)
(* in the old one.                                                          *)

\* o holds the lines before m that hp_rewrite keeps, in their order.
Keeps(h, m, o, f) ==
  /\ \A a, b \in 1..Len(o) : a < b => f[a] < f[b]
  /\ \A a \in 1..Len(o) : o[a] = h.lines[f[a]] /\ o[a].name \notin Ours
  /\ \A j \in 1..m : h.lines[j].name \notin Ours => \E a \in 1..Len(o) : f[a] = j

KeptBefore(h, m, o) == \E f \in [1..Len(o) -> 1..(m - 1)] : Keeps(h, m - 1, o, f)

\* The first L lines of g are lines of h, in the order they have there.
Carries(h, g, L, f) ==
  /\ h.lines \in Seq(Line) /\ g.lines \in Seq(Line)
  /\ L \in Nat /\ L <= Len(g.lines) /\ f \in [1..L -> 1..Len(h.lines)]
  /\ \A a, b \in 1..L : a < b => f[a] < f[b]
  /\ \A a \in 1..L : g.lines[a] = h.lines[f[a]]

\* What the lines of one name come to, carried over by f.
LEMMA KeptLines ==
  ASSUME NEW h, NEW g, NEW L, NEW f, Carries(h, g, L, f), NEW n,
         \A j \in Named(h, n) : \E a \in 1..L : f[a] = j,
         Named(g, n) \subseteq 1..L
  PROVE  /\ Named(g, n) = {} <=> Named(h, n) = {}
         /\ Named(h, n) # {} => Latest(g, Named(g, n)) = Latest(h, Named(h, n))
         /\ \A u \in Named(g, n) : \E j \in Named(h, n) : g.lines[u] = h.lines[j]
         /\ (\A u, j \in Named(h, n) : u = j) => \A u, j \in Named(g, n) : u = j
<1> USE DEF Carries
<1>1. /\ Len(h.lines) \in Nat /\ Len(g.lines) \in Nat
      /\ Named(h, n) = {j \in 1..Len(h.lines) : h.lines[j].name = n}
      /\ Named(g, n) = {u \in 1..Len(g.lines) : g.lines[u].name = n}
  BY DEF Named
<1>2. \A u \in Named(g, n) : u \in 1..L /\ f[u] \in Named(h, n) /\ g.lines[u] = h.lines[f[u]]
  BY <1>1
<1>3. \A j \in Named(h, n) : \E a \in Named(g, n) : f[a] = j
  <2> SUFFICES ASSUME NEW j \in Named(h, n) PROVE \E a \in Named(g, n) : f[a] = j
    OBVIOUS
  <2>1. PICK a \in 1..L : f[a] = j
    OBVIOUS
  <2>2. a \in 1..Len(g.lines) /\ g.lines[a].name = n
    BY <1>1, <2>1
  <2> QED
    BY <1>1, <2>1, <2>2
<1>4. ASSUME Named(h, n) # {}
      PROVE  Latest(g, Named(g, n)) = Latest(h, Named(h, n))
  <2>1. Named(g, n) # {}
    BY <1>3, <1>4
  <2>2. PICK u \in Named(g, n) : \A m \in Named(g, n) : m <= u
    BY <1>1, <2>1, LastNat
  <2>3. f[u] \in Named(h, n) /\ g.lines[u] = h.lines[f[u]] /\ u \in 1..L
    BY <1>2
  <2>4. \A j \in Named(h, n) : j <= f[u]
    <3> SUFFICES ASSUME NEW j \in Named(h, n) PROVE j <= f[u]
      OBVIOUS
    <3>1. PICK a \in Named(g, n) : f[a] = j
      BY <1>3
    <3>2. a \in 1..L /\ u \in 1..L /\ a <= u /\ f[u] \in Nat
      BY <1>1, <1>2, <2>2, <2>3
    <3>3. a < u => f[a] < f[u]
      BY <3>2
    <3>4. a = u \/ a < u
      BY <3>2
    <3>5. CASE a = u
      BY <3>1, <3>2, <3>5
    <3>6. f[a] \in Nat
      BY <1>1, <3>1
    <3> QED
      BY <3>1, <3>2, <3>3, <3>4, <3>5, <3>6
  <2> HIDE DEF Carries
  <2>5. Latest(g, Named(g, n)) = g.lines[u].value
    <3>1. Named(g, n) \subseteq Int
      BY <1>1
    <3> QED
      BY <2>2, <3>1, LatestAt
  <2>6. Latest(h, Named(h, n)) = h.lines[f[u]].value
    <3>1. Named(h, n) \subseteq Int
      BY <1>1
    <3>2. f[u] \in Named(h, n)
      BY <2>3
    <3> QED
      BY <2>4, <3>1, <3>2, LatestAt
  <2> QED
    BY <2>3, <2>5, <2>6
<1>5. ASSUME \A u, j \in Named(h, n) : u = j
      PROVE  \A u, j \in Named(g, n) : u = j
  <2> SUFFICES ASSUME NEW u \in Named(g, n), NEW j \in Named(g, n) PROVE u = j
    OBVIOUS
  <2>0. u \in 1..L /\ j \in 1..L /\ f[u] \in Named(h, n) /\ f[j] \in Named(h, n)
    BY <1>2
  <2>1. u \in 1..L /\ j \in 1..L /\ f[u] = f[j] /\ f[u] \in 1..Len(h.lines)
    BY <1>5, <2>0
  <2> QED
    BY <2>1
<1> QED
  BY <1>2, <1>3, <1>4, <1>5

\* A line is kept or left out.
LEMMA KeptNext ==
  ASSUME NEW h, h.lines \in Seq(Line), NEW m \in 1..Len(h.lines),
         NEW o \in Seq(Line), KeptBefore(h, m, o)
  PROVE  /\ h.lines[m].name \in Ours => KeptBefore(h, m + 1, o)
         /\ h.lines[m].name \notin Ours => KeptBefore(h, m + 1, Append(o, h.lines[m]))
<1>0. m \in Nat /\ m + 1 - 1 = m /\ Len(o) \in Nat
  OBVIOUS
<1>01. PICK f \in [1..Len(o) -> 1..(m - 1)] : Keeps(h, m - 1, o, f)
  BY DEF KeptBefore
<1>1. /\ \A a, b \in 1..Len(o) : a < b => f[a] < f[b]
      /\ \A a \in 1..Len(o) : o[a] = h.lines[f[a]] /\ o[a].name \notin Ours
      /\ \A j \in 1..(m - 1) : h.lines[j].name \notin Ours => \E a \in 1..Len(o) : f[a] = j
  BY <1>01 DEF Keeps
<1>2. ASSUME h.lines[m].name \in Ours
      PROVE  KeptBefore(h, m + 1, o)
  <2>1. f \in [1..Len(o) -> 1..m]
    BY <1>0, <1>1
  <2>2. \A j \in 1..m : h.lines[j].name \notin Ours => \E a \in 1..Len(o) : f[a] = j
    <3> TAKE j \in 1..m
    <3>1. CASE j = m
      BY <1>2, <3>1
    <3>2. CASE j \in 1..(m - 1)
      BY <1>1, <3>2
    <3> QED
      BY <1>0, <3>1, <3>2
  <2>3. /\ \A a, b \in 1..Len(o) : a < b => f[a] < f[b]
        /\ \A a \in 1..Len(o) : o[a] = h.lines[f[a]] /\ o[a].name \notin Ours
    BY <1>1
  <2>4. Keeps(h, m, o, f)
    BY <2>2, <2>3 DEF Keeps
  <2> QED
    BY <1>0, <2>1, <2>4 DEF KeptBefore
<1>3. ASSUME h.lines[m].name \notin Ours
      PROVE  KeptBefore(h, m + 1, Append(o, h.lines[m]))
  <2> DEFINE p == Append(o, h.lines[m])
             g == [a \in 1..(Len(o) + 1) |-> IF a = Len(o) + 1 THEN m ELSE f[a]]
  <2>1. /\ Len(p) = Len(o) + 1 /\ p[Len(o) + 1] = h.lines[m]
        /\ \A a \in 1..Len(o) : p[a] = o[a]
    OBVIOUS
  <2> HIDE DEF p
  <2>2. g \in [1..Len(p) -> 1..m]
    BY <1>0, <2>1
  <2>3. \A a \in 1..Len(o) : g[a] = f[a] /\ a \in 1..Len(p)
    BY <1>0, <2>1
  <2>4. g[Len(o) + 1] = m /\ Len(o) + 1 \in 1..Len(p)
    BY <1>0, <2>1
  <2>5. \A a \in 1..Len(p) : a \in 1..Len(o) \/ a = Len(o) + 1
    BY <1>0, <2>1
  <2> HIDE DEF g
  <2>6. \A a, b \in 1..Len(p) : a < b => g[a] < g[b]
    <3> SUFFICES ASSUME NEW a \in 1..Len(p), NEW b \in 1..Len(p), a < b PROVE g[a] < g[b]
      OBVIOUS
    <3>1. a \in 1..Len(o) /\ f[a] \in 1..(m - 1) /\ g[a] = f[a]
      BY <1>0, <1>1, <2>1, <2>3, <2>5
    <3>2. CASE b = Len(o) + 1
      BY <1>0, <2>4, <3>1, <3>2
    <3>3. CASE b \in 1..Len(o)
      BY <1>1, <2>3, <3>1, <3>3
    <3> QED
      BY <2>5, <3>2, <3>3
  <2>7. \A a \in 1..Len(p) : p[a] = h.lines[g[a]] /\ p[a].name \notin Ours
    <3> TAKE a \in 1..Len(p)
    <3>1. CASE a = Len(o) + 1
      BY <1>3, <2>1, <2>4, <3>1
    <3>2. CASE a \in 1..Len(o)
      BY <1>1, <2>1, <2>3, <3>2
    <3> QED
      BY <2>5, <3>1, <3>2
  <2>8. \A j \in 1..m : h.lines[j].name \notin Ours => \E a \in 1..Len(p) : g[a] = j
    <3> TAKE j \in 1..m
    <3>1. CASE j = m
      BY <2>4, <3>1
    <3>2. CASE j \in 1..(m - 1)
      BY <1>1, <2>3, <3>2
    <3> QED
      BY <1>0, <3>1, <3>2
  <2>9. Keeps(h, m, p, g)
    BY <2>6, <2>7, <2>8 DEF Keeps
  <2>10. KeptBefore(h, m + 1, p)
    BY <1>0, <2>2, <2>9 DEF KeptBefore
  <2> QED
    BY <2>10 DEF p
<1> QED
  BY <1>2, <1>3

LEMMA KeptFirst ==
  ASSUME NEW h
  PROVE  KeptBefore(h, 1, <<>>)
<1> DEFINE f == [a \in 1..0 |-> 0]
<1>1. f \in [1..0 -> 1..(1 - 1)] /\ Len(<<>>) = 0 /\ 1..0 = {} /\ 1 - 1 = 0
  OBVIOUS
<1> HIDE DEF f
<1>2. Keeps(h, 1 - 1, <<>>, f)
  BY <1>1 DEF Keeps
<1> QED
  BY <1>1, <1>2 DEF KeptBefore

\* g, that hop n makes of h, is acceptable but for its size and says the same,
\* but for the connection and the address.
Follows(h, g, n) ==
  /\ Sound(g)
  /\ Meaning(g) = [Meaning(h) EXCEPT !.keep_alive = TRUE, !.has_xff = TRUE]
  /\ \E m \in DOMAIN g.lines : Named(g, "x-forwarded-for") = {m}
  /\ Forwards(g) = Append(Forwards(h), Client(n))

NewLines ==
  << New("x-forwarded-for", Append(xff, Client(hop))), New("x-forwarded-proto", <<"http">>),
     New("x-real-ip", <<Client(hop)>>), New("connection", <<"keep-alive">>) >>

LEMMA NewLinesTyped ==
  ASSUME xff \in Seq(Text)
  PROVE  /\ NewLines \in Seq(Line) /\ Len(NewLines) = 4
         /\ NewLines[1].name = "x-forwarded-for"
         /\ NewLines[1].value = Append(xff, Client(hop))
         /\ NewLines[2].name = "x-forwarded-proto" /\ NewLines[3].name = "x-real-ip"
         /\ NewLines[4].name = "connection" /\ NewLines[4].value = <<"keep-alive">>
<1>1. Client(hop) \in Text
  BY DEF Client, Text
<1>2. /\ Append(xff, Client(hop)) \in Seq(Text) /\ <<Client(hop)>> \in Seq(Text)
      /\ <<"http">> \in Seq(Text) /\ <<"keep-alive">> \in Seq(Text)
  <2>1. \A t \in Text : <<t>> \in Seq(Text) /\ Append(xff, t) \in Seq(Text)
    OBVIOUS
  <2>2. "http" \in Text /\ "keep-alive" \in Text
    BY DEF Text
  <2> QED
    BY <1>1, <2>1, <2>2
<1>3. /\ "x-forwarded-for" \in Text /\ "x-forwarded-proto" \in Text
      /\ "x-real-ip" \in Text /\ "connection" \in Text
  BY DEF Text
<1>4. \A n \in Text, v \in Seq(Text) : New(n, v) \in Line /\ New(n, v).name = n /\ New(n, v).value = v
  BY DEF New, Line
<1>5. /\ New("x-forwarded-for", Append(xff, Client(hop))) \in Line
      /\ New("x-forwarded-proto", <<"http">>) \in Line
      /\ New("x-real-ip", <<Client(hop)>>) \in Line
      /\ New("connection", <<"keep-alive">>) \in Line
  BY <1>2, <1>3, <1>4
<1>6. \A a, b, c, d \in Line : <<a, b, c, d>> \in Seq(Line)
  OBVIOUS
<1>7. NewLines \in Seq(Line)
  BY <1>5, <1>6 DEF NewLines
<1> QED
  BY <1>7 DEF NewLines, New

LEMMA RewriteFollows ==
  ASSUME head \in TypedRequest, Sound(head), out \in Seq(Line),
         KeptBefore(head, Len(head.lines) + 1, out),
         xff \in Seq(Text), xff = Forwards(head)
  PROVE  Rewritten \in TypedRequest /\ Follows(head, Rewritten, hop)
<1> DEFINE g == Rewritten
           L == Len(out)
<1>1. head.lines \in Seq(Line) /\ Len(head.lines) \in Nat /\ L \in Nat
  BY DEF TypedRequest
<1>2. /\ g \in TypedRequest /\ g.first = head.first /\ g.lines = out \o NewLines
      /\ g.lines \in Seq(Line)
  <2>1. g = [head EXCEPT !.lines = out \o NewLines]
    BY DEF Rewritten, NewLines
  <2> DEFINE o == out \o NewLines
  <2>2. o \in Seq(Line)
    BY NewLinesTyped
  <2> HIDE DEF g, o
  <2>3. g = [head EXCEPT !.lines = o]
    BY <2>1 DEF o
  <2>4. g \in TypedRequest /\ g.first = head.first /\ g.lines = o
    BY <2>2, <2>3 DEF TypedRequest
  <2> QED
    BY <2>2, <2>4 DEF o
<1> HIDE DEF g
<1>3. /\ Len(g.lines) = L + 4 /\ \A u \in 1..L : g.lines[u] = out[u]
      /\ g.lines[L + 1] = NewLines[1] /\ g.lines[L + 2] = NewLines[2]
      /\ g.lines[L + 3] = NewLines[3] /\ g.lines[L + 4] = NewLines[4]
  <2>1. \A s, t \in Seq(Line) :
          /\ Len(s \o t) = Len(s) + Len(t)
          /\ \A u \in 1..Len(s) : (s \o t)[u] = s[u]
          /\ \A u \in 1..Len(t) : (s \o t)[Len(s) + u] = t[u]
    OBVIOUS
  <2> DEFINE n == NewLines
             o == out \o NewLines
  <2>2. /\ Len(o) = L + Len(n) /\ \A u \in 1..L : o[u] = out[u]
        /\ \A u \in 1..Len(n) : o[L + u] = n[u]
    BY <2>1, NewLinesTyped
  <2>3. Len(n) = 4
    BY NewLinesTyped
  <2> HIDE DEF n, o
  <2>4. /\ Len(o) = L + 4 /\ \A u \in 1..L : o[u] = out[u]
        /\ o[L + 1] = n[1] /\ o[L + 2] = n[2] /\ o[L + 3] = n[3] /\ o[L + 4] = n[4]
    BY <2>2, <2>3
  <2>5. g.lines = o
    BY <1>2 DEF o
  <2> QED
    BY <2>4, <2>5 DEF n
<1>4. PICK f \in [1..L -> 1..Len(head.lines)] :
        /\ \A a, b \in 1..L : a < b => f[a] < f[b]
        /\ \A a \in 1..L : out[a] = head.lines[f[a]] /\ out[a].name \notin Ours
        /\ \A j \in 1..Len(head.lines) :
             head.lines[j].name \notin Ours => \E a \in 1..L : f[a] = j
  <2>1. Len(head.lines) + 1 - 1 = Len(head.lines)
    BY <1>1
  <2> QED
    BY <2>1 DEF KeptBefore, Keeps
<1> HIDE DEF L
<1>5. \A u \in 1..Len(g.lines) : u \in 1..L \/ u = L + 1 \/ u = L + 2 \/ u = L + 3 \/ u = L + 4
  BY <1>1, <1>3
<1>6. /\ g.lines[L + 1].name = "x-forwarded-for"
      /\ g.lines[L + 1].value = Append(xff, Client(hop))
      /\ g.lines[L + 2].name = "x-forwarded-proto" /\ g.lines[L + 3].name = "x-real-ip"
      /\ g.lines[L + 4].name = "connection" /\ g.lines[L + 4].value = <<"keep-alive">>
  BY <1>3, NewLinesTyped
<1>7. \A u \in 1..L : g.lines[u].name \notin Ours
  BY <1>3, <1>4
<1>8. ASSUME NEW n, n \notin Ours
      PROVE  /\ Named(g, n) = {} <=> Named(head, n) = {}
             /\ Named(head, n) # {} => Latest(g, Named(g, n)) = Latest(head, Named(head, n))
             /\ \A u \in Named(g, n) : \E j \in Named(head, n) : g.lines[u] = head.lines[j]
             /\ (\A u, j \in Named(head, n) : u = j) => \A u, j \in Named(g, n) : u = j
  <2>1. Named(g, n) \subseteq 1..L
    BY <1>2, <1>5, <1>6, <1>8 DEF Named, Ours
  <2>2. \A j \in Named(head, n) : \E a \in 1..L : f[a] = j
    <3> TAKE j \in Named(head, n)
    <3>1. j \in 1..Len(head.lines) /\ head.lines[j].name \notin Ours
      BY <1>1, <1>8 DEF Named
    <3> QED
      BY <1>4, <3>1
  <2>3. \A a \in 1..L : g.lines[a] = head.lines[f[a]]
    BY <1>3, <1>4
  <2>4. \A a, b \in 1..L : a < b => f[a] < f[b]
    BY <1>4
  <2>5. L <= Len(g.lines)
    BY <1>1, <1>3
  <2>6. Carries(head, g, L, f)
    BY <1>1, <1>2, <2>3, <2>4, <2>5 DEF Carries
  <2> QED
    BY <2>1, <2>2, <2>6, KeptLines
<1>9. Named(g, "x-forwarded-for") = {L + 1} /\ L + 1 \in DOMAIN g.lines
  <2>1. L + 1 \in 1..Len(g.lines)
    BY <1>1, <1>3
  <2>2. \A u \in 1..Len(g.lines) : g.lines[u].name = "x-forwarded-for" => u = L + 1
    BY <1>5, <1>6, <1>7 DEF Ours
  <2> QED
    BY <1>2, <1>6, <2>1, <2>2 DEF Named
<1>10. Named(g, "connection") = {L + 4} /\ L + 4 \in DOMAIN g.lines
  <2>1. L + 4 \in 1..Len(g.lines)
    BY <1>1, <1>3
  <2>2. \A u \in 1..Len(g.lines) : g.lines[u].name = "connection" => u = L + 4
    BY <1>5, <1>6, <1>7 DEF Ours
  <2> QED
    BY <1>2, <1>6, <2>1, <2>2 DEF Named
<1>11. Forwards(g) = Append(Forwards(head), Client(hop))
  <2>1. Latest(g, {L + 1}) = g.lines[L + 1].value
    BY <1>1, LatestAt
  <2> QED
    BY <1>6, <1>9, <2>1 DEF Forwards
<1>12. Wish(g)
  <2> DEFINE said == {j \in Named(g, "connection") :
                        g.lines[j].value \in {<<"close">>, <<"keep-alive">>}}
  <2>1. said = {L + 4}
    BY <1>6, <1>10
  <2>2. Latest(g, {L + 4}) = g.lines[L + 4].value
    BY <1>1, LatestAt
  <2> QED
    BY <1>6, <2>1, <2>2 DEF Wish
<1>13. /\ "" \notin Ours /\ "host" \notin Ours /\ "content-length" \notin Ours
       /\ "transfer-encoding" \notin Ours
  BY DEF Ours
<1>14. Sound(g)
  <2>1. \A n : /\ Before(g, n, Len(g.lines) + 1) = Named(g, n)
               /\ Before(head, n, Len(head.lines) + 1) = Named(head, n)
    BY <1>1, <1>2, BeforeEnds
  <2>2. /\ Named(g, "") = {} /\ Named(g, "host") # {}
        /\ \A u, j \in Named(g, "host") : u = j
    <3>1. /\ Named(g, "") = {} <=> Named(head, "") = {}
          /\ Named(g, "host") = {} <=> Named(head, "host") = {}
          /\ (\A u, j \in Named(head, "host") : u = j) => \A u, j \in Named(g, "host") : u = j
      BY <1>8, <1>13
    <3> QED
      BY <2>1, <3>1 DEF Sound, SoundBefore
  <2>3. \A j \in Named(g, "host") : g.lines[j].value \notin {<<>>, <<"long">>}
    <3>1. \A u \in Named(g, "host") : \E j \in Named(head, "host") : g.lines[u] = head.lines[j]
      BY <1>8, <1>13
    <3>2. \A j \in Named(head, "host") : head.lines[j].value \notin {<<>>, <<"long">>}
      BY <2>1 DEF Sound, SoundBefore
    <3> QED
      BY <3>1, <3>2
  <2>4. \A j \in Named(g, "content-length") : IsNumber(g.lines[j].value)
    <3>1. \A u \in Named(g, "content-length") : \E j \in Named(head, "content-length") : g.lines[u] = head.lines[j]
      BY <1>8, <1>13
    <3>2. \A j \in Named(head, "content-length") : IsNumber(head.lines[j].value)
      BY <2>1 DEF Sound, SoundBefore
    <3> QED
      BY <3>1, <3>2
  <2>5. \A j \in Named(g, "transfer-encoding") : g.lines[j].value = <<"chunked">>
    <3>1. \A u \in Named(g, "transfer-encoding") : \E j \in Named(head, "transfer-encoding") : g.lines[u] = head.lines[j]
      BY <1>8, <1>13
    <3>2. \A j \in Named(head, "transfer-encoding") : head.lines[j].value = <<"chunked">>
      BY <2>1 DEF Sound, SoundBefore
    <3> QED
      BY <3>1, <3>2
  <2>6. g.first.words /\ g.first.minor \in {0, 1}
    BY <1>2 DEF Sound, SoundBefore
  <2> QED
    BY <2>1, <2>2, <2>3, <2>4, <2>5, <2>6 DEF Sound, SoundBefore
<1>15. Meaning(g) = [Meaning(head) EXCEPT !.keep_alive = TRUE, !.has_xff = TRUE]
  <2> DEFINE p == Meaning(g)
             q == [Meaning(head) EXCEPT !.keep_alive = TRUE, !.has_xff = TRUE]
             r == Meaning(head)
  <2>1. /\ p \in Request /\ p.status = "DONE" /\ p.error_code = 0
        /\ p.host = Latest(g, Named(g, "host"))
        /\ p.minor_version = g.first.minor /\ p.is_head = g.first.is_head
        /\ p.keep_alive /\ p.has_xff
        /\ p.body_mode = (IF Named(g, "transfer-encoding") # {} THEN "CHUNKED"
                          ELSE IF Named(g, "content-length") # {} THEN "LENGTH" ELSE "NONE")
        /\ p.content_length = (IF Named(g, "content-length") = {} THEN "0"
                               ELSE Latest(g, Named(g, "content-length"))[1])
    BY <1>2, <1>9, <1>12, <1>14, MeaningFields
  <2>2. /\ r \in Request /\ r.status = "DONE" /\ r.error_code = 0
        /\ r.host = Latest(head, Named(head, "host"))
        /\ r.minor_version = head.first.minor /\ r.is_head = head.first.is_head
        /\ r.body_mode = (IF Named(head, "transfer-encoding") # {} THEN "CHUNKED"
                          ELSE IF Named(head, "content-length") # {} THEN "LENGTH" ELSE "NONE")
        /\ r.content_length = (IF Named(head, "content-length") = {} THEN "0"
                               ELSE Latest(head, Named(head, "content-length"))[1])
    BY MeaningFields
  <2>3. q = [r EXCEPT !.keep_alive = TRUE, !.has_xff = TRUE]
    OBVIOUS
  <2> HIDE DEF p, q, r
  <2>4. /\ q \in Request /\ q.status = r.status /\ q.error_code = r.error_code /\ q.host = r.host
        /\ q.minor_version = r.minor_version /\ q.is_head = r.is_head /\ q.keep_alive /\ q.has_xff
        /\ q.body_mode = r.body_mode /\ q.content_length = r.content_length
    BY <2>2, <2>3 DEF Request
  <2>5. p.host = q.host
    BY <1>8, <1>13, <2>1, <2>2, <2>4 DEF Sound
  <2>6. p.body_mode = q.body_mode
    BY <1>8, <1>13, <2>1, <2>2, <2>4
  <2>7. p.content_length = q.content_length
    BY <1>8, <1>13, <2>1, <2>2, <2>4
  <2>8. /\ p.status = q.status /\ p.error_code = q.error_code
        /\ p.minor_version = q.minor_version /\ p.is_head = q.is_head
        /\ (p.keep_alive <=> q.keep_alive) /\ (p.has_xff <=> q.has_xff)
    BY <1>2, <2>1, <2>2, <2>4
  <2>9. p \in Request /\ q \in Request
    BY <2>1, <2>4
  <2>10. p = q
    BY <2>5, <2>6, <2>7, <2>8, <2>9, SameRequest
  <2> QED
    BY <2>10 DEF p, q
<1> QED
  BY <1>2, <1>9, <1>11, <1>14, <1>15 DEF Follows, g

----------------------------------------------------------------------------
(* The invariant of a request head.                                        *)

ReadInv ==
  pc = "lines" => /\ Fits /\ k \in 1..(Len(head.lines) + 1)
                  /\ SoundBefore(head, k) /\ ReadBefore(req, head, k)

RewriteInv ==
  pc = "rewrite" => /\ Fits /\ Sound(head) /\ req = Meaning(head)
                    /\ k \in 1..(Len(head.lines) + 1)
                    /\ out \in Seq(Line) /\ KeptBefore(head, k, out)
                    /\ xff \in Seq(Text)
                    /\ xff = LastBefore(head, "x-forwarded-for", k, <<>>)

Verdict ==
  pc = "over" => /\ req.status \in {"DONE", "ERROR"}
                 /\ req.status = "ERROR" =>
                      \/ ~ (Fits /\ Sound(head)) /\ req.error_code = ErrorIn(head)
                      \/ Fits /\ Sound(head) /\ req.error_code = 431

RequestInv ==
  /\ head \in TypedRequest /\ len \in Nat
  /\ pc \in {"wait", "call", "lines", "rewrite", "over"}
  /\ pc \in {"wait", "call"} => req = hp_init /\ k = 1
  /\ pc = "wait" => len < Size(head)
  /\ pc # "rewrite" => out = <<>> /\ xff = <<>>
  /\ ReadInv /\ RewriteInv /\ Verdict

\* The head that hop j sent on.
After(j) == IF j < Len(past) THEN past[j + 1].head ELSE head

ChainInv ==
  /\ past \in Seq([head : TypedRequest, req : Request])
  /\ \A j \in 1..Len(past) :
       /\ Size(past[j].head) <= HP_MAX_HEADER_BYTES /\ Sound(past[j].head)
       /\ past[j].req = Meaning(past[j].head)
       /\ Follows(past[j].head, After(j), j)
  /\ hop = IF pc = "over" /\ req.status = "DONE" THEN Len(past) ELSE Len(past) + 1

----------------------------------------------------------------------------
(* The steps of a request.                                                 *)

LEMMA HeadSize ==
  ASSUME RequestInv
  PROVE  /\ head.lines \in Seq(Line) /\ Len(head.lines) \in Nat
         /\ Size(head) \in Nat /\ Size(head) >= 2
BY SizeNat DEF RequestInv, TypedRequest

LEMMA ChainSame ==
  ASSUME ChainInv, pc # "over", UNCHANGED <<head, hop, past>>,
         pc' # "over" \/ req'.status = "ERROR"
  PROVE  ChainInv'
<1>1. hop' = Len(past') + 1 /\ ~ (pc' = "over" /\ req'.status = "DONE")
  BY DEF ChainInv
<1>2. \A j : After(j)' = After(j)
  BY DEF After
<1> QED
  BY <1>1, <1>2 DEF ChainInv

LEMMA ArrivalStep ==
  ASSUME kind = "request", RequestInv, ChainInv, Arrival
  PROVE  kind' = "request" /\ RequestInv' /\ ChainInv'
<1> USE DEF RequestInv, ReadInv, RewriteInv, Verdict
<1>0. Size(head) \in Nat /\ HP_MAX_HEADER_BYTES \in Nat
  BY HeadSize, HttpHeadAssumption
<1>1. CASE Receive
  <2>1. len' \in Nat /\ UNCHANGED <<kind, head, k, req, out, xff, hop, past>> /\ pc' = "call"
        /\ pc = "wait"
    BY <1>0, <1>1 DEF Receive, Total, rewriting, chain
  <2>2. ChainInv'
    BY <2>1, ChainSame
  <2> QED
    BY <2>1, <2>2
<1>2. CASE NeedMore
  <2>1. UNCHANGED <<kind, head, len, k, req, out, xff, hop, past>> /\ pc' = "wait"
        /\ pc = "call" /\ len < Size(head)
    BY <1>0, <1>2 DEF NeedMore, Complete, rewriting, chain
  <2>2. ChainInv'
    BY <2>1, ChainSame
  <2> QED
    BY <2>1, <2>2
<1>3. CASE TooLarge \/ TooLargeWhole
  <2>1. /\ UNCHANGED <<kind, head, len, k, out, xff, hop, past>> /\ pc' = "over" /\ pc = "call"
        /\ req' = [req EXCEPT !.status = "ERROR", !.error_code = 431] /\ req = hp_init
        /\ Size(head) > HP_MAX_HEADER_BYTES
    BY <1>0, <1>3 DEF TooLarge, TooLargeWhole, Complete, Fail, rewriting, chain
  <2>2. req'.status = "ERROR" /\ req'.error_code = 431
    BY <2>1 DEF hp_init
  <2>3. ~Fits' /\ ErrorIn(head) = 431
    BY <1>0, <2>1 DEF Fits, ErrorIn
  <2>4. ChainInv'
    BY <2>1, <2>2, ChainSame
  <2> QED
    BY <2>1, <2>2, <2>3, <2>4
<1> QED
  BY <1>1, <1>2, <1>3 DEF Arrival

\* A line or a first line that is refused.
LEMMA RefuseStep ==
  ASSUME RequestInv, ChainInv, pc \in {"call", "lines"}, NEW c, Fail(c),
         UNCHANGED <<kind, head, len, out, xff, hop, past>>,
         req \in Request, c = ErrorIn(head), ~Sound(head)
  PROVE  RequestInv' /\ ChainInv'
<1>1. req'.status = "ERROR" /\ req'.error_code = c /\ pc' = "over"
  BY DEF Fail, Request
<1>2. ChainInv'
  BY <1>1, ChainSame
<1>3. Verdict'
  BY <1>1 DEF Verdict
<1> QED
  BY <1>1, <1>2, <1>3 DEF RequestInv, ReadInv, RewriteInv

LEMMA RequestLineStep ==
  ASSUME kind = "request", RequestInv, ChainInv, RequestLine
  PROVE  kind' = "request" /\ RequestInv' /\ ChainInv'
<1>1. /\ UNCHANGED <<kind, head, len, k, out, xff, hop, past>>
      /\ pc = "call" /\ Fits /\ req = hp_init /\ k = 1 /\ out = <<>> /\ xff = <<>>
  BY DEF RequestLine, RequestInv, rewriting, chain
<1>2. head.lines \in Seq(Line) /\ Size(head) \in Nat /\ head \in TypedRequest /\ len \in Nat
      /\ HP_MAX_HEADER_BYTES \in Nat /\ Len(head.lines) \in Nat
  BY HeadSize, HttpHeadAssumption DEF RequestInv
<1>3. hp_init \in Request
  BY DEF hp_init, Request, Text
<1>4. CASE ~head.first.words
  <2>1. Fail(400)
    BY <1>4 DEF RequestLine
  <2>2. ErrorIn(head) = 400
    BY <1>1, <1>2, <1>4 DEF ErrorIn, Fits
  <2>3. ~Sound(head)
    BY <1>4 DEF Sound, SoundBefore
  <2> QED
    BY <1>1, <1>3, <2>1, <2>2, <2>3, RefuseStep
<1>5. CASE head.first.words /\ head.first.minor \notin {0, 1}
  <2>1. Fail(505)
    BY <1>5 DEF RequestLine
  <2>2. ErrorIn(head) = 505
    BY <1>1, <1>2, <1>5 DEF ErrorIn, Fits
  <2>3. ~Sound(head)
    BY <1>5 DEF Sound, SoundBefore
  <2> QED
    BY <1>1, <1>3, <2>1, <2>2, <2>3, RefuseStep
<1>6. CASE head.first.words /\ head.first.minor \in {0, 1}
  <2>1. pc' = "lines"
        /\ req' = [hp_init EXCEPT !.is_head = head.first.is_head,
                                  !.minor_version = head.first.minor,
                                  !.keep_alive = (head.first.minor = 1)]
    BY <1>1, <1>6 DEF RequestLine
  <2>2. ReadBefore(req', head, 1)
    BY <1>2, <2>1, ReadFirst
  <2>3. \A n : Before(head, n, 1) = {}
    BY <1>2, BeforeEnds
  <2>4. SoundBefore(head, 1)
    BY <1>6, <2>3 DEF SoundBefore
  <2>5. Fits'
    BY <1>1 DEF Fits
  <2>6. ReadInv'
    BY <1>1, <1>2, <2>2, <2>4, <2>5 DEF ReadInv
  <2>7. RewriteInv' /\ Verdict'
    BY <2>1 DEF RewriteInv, Verdict
  <2>8. ChainInv'
    BY <1>1, <2>1, ChainSame
  <2> QED
    BY <1>1, <1>2, <2>1, <2>6, <2>7, <2>8 DEF RequestInv
<1> QED
  BY <1>4, <1>5, <1>6

\* A line that is taken.
LEMMA TakenStep ==
  ASSUME kind = "request", RequestInv, ChainInv, pc = "lines", k <= Len(head.lines),
         UNCHANGED <<kind, head, len, pc, out, xff, hop, past>>, k' = k + 1,
         SoundBefore(head, k + 1), ReadBefore(req', head, k + 1)
  PROVE  kind' = "request" /\ RequestInv' /\ ChainInv'
<1>1. k' \in 1..(Len(head'.lines) + 1)
  BY HeadSize DEF RequestInv, ReadInv
<1>2. ReadInv'
  BY <1>1 DEF ReadInv, RequestInv, Fits
<1>3. ChainInv'
  BY ChainSame
<1> QED
  BY <1>2, <1>3 DEF RequestInv, RewriteInv, Verdict

LEMMA LineStep ==
  ASSUME kind = "request", RequestInv, ChainInv,
         NoColon \/ Host \/ Connection \/ Forwarded \/ ContentLength \/ TransferEncoding \/ Ignored
  PROVE  kind' = "request" /\ RequestInv' /\ ChainInv'
<1> DEFINE l == head.lines[k]
<1>1. /\ pc = "lines" /\ k \in 1..Len(head.lines) /\ k' = k + 1
      /\ UNCHANGED <<kind, head, len, out, xff, hop, past>>
  <2>1. pc = "lines" /\ k <= Len(head.lines) /\ k' = k + 1
        /\ UNCHANGED <<kind, head, len, out, xff, hop, past>>
    BY DEF NoColon, Host, Connection, Forwarded, ContentLength, TransferEncoding, Ignored,
           At, rewriting, chain
  <2> QED
    BY <2>1, HeadSize DEF RequestInv, ReadInv
<1>2. /\ head.lines \in Seq(Line) /\ Len(head.lines) \in Nat /\ Size(head) \in Nat
      /\ HP_MAX_HEADER_BYTES \in Nat /\ head \in TypedRequest
  BY HeadSize, HttpHeadAssumption DEF RequestInv
<1>3. Fits /\ SoundBefore(head, k) /\ ReadBefore(req, head, k)
  BY <1>1 DEF RequestInv, ReadInv
<1>4. l \in Line /\ l.value \in Seq(Text)
  <2>1. l \in Line
    BY <1>1, <1>2
  <2> HIDE DEF l
  <2> QED
    BY <2>1 DEF Line
<1>5. req \in Request /\ k + 1 \in 1..(Len(head.lines) + 1)
  BY <1>1, <1>2, <1>3 DEF ReadBefore
<1>6. SoundBefore(head, k + 1) <=>
           /\ l.name # ""
           /\ l.name = "host" =>
                Before(head, "host", k) = {} /\ l.value \notin {<<>>, <<"long">>}
           /\ l.name = "content-length" => IsNumber(l.value)
           /\ l.name = "transfer-encoding" => l.value = <<"chunked">>
  BY <1>1, <1>2, <1>3, SoundNext
<1>7. req.host # <<>> <=> Before(head, "host", k) # {}
  <2>1. ASSUME Before(head, "host", k) # {}
        PROVE  req.host # <<>>
    <3>1. PICK j \in Before(head, "host", k) : TRUE
      BY <2>1
    <3>2. Before(head, "host", k) = {j} /\ j \in Int /\ head.lines[j].value # <<>>
      BY <1>2, <1>3, BeforeTypes DEF SoundBefore
    <3>3. Latest(head, {j}) = head.lines[j].value
      BY <3>2, LatestAt
    <3> QED
      BY <1>3, <2>1, <3>2, <3>3 DEF ReadBefore, LastBefore
  <2>2. ASSUME Before(head, "host", k) = {}
        PROVE  req.host = <<>>
    BY <1>3, <2>2 DEF ReadBefore, LastBefore
  <2> QED
    BY <2>1, <2>2
<1>8. ASSUME ~SoundBefore(head, k + 1), Fail(400)
      PROVE  kind' = "request" /\ RequestInv' /\ ChainInv'
  <2>1. ~Sound(head)
    BY <1>2, <1>5, <1>8, SoundAll
  <2>2. ErrorIn(head) = 400
    <3>1. head.first.minor \in {0, 1}
      BY <1>3 DEF SoundBefore
    <3>2. ~ (Size(head) > HP_MAX_HEADER_BYTES)
      BY <1>2, <1>3 DEF Fits
    <3> QED
      BY <3>1, <3>2 DEF ErrorIn
  <2> QED
    BY <1>1, <1>5, <1>8, <2>1, <2>2, RefuseStep
<1>9. ASSUME SoundBefore(head, k + 1), pc' = pc, NEW q \in Request, q = req',
             q.status = req.status, q.error_code = req.error_code,
             q.minor_version = req.minor_version, q.is_head = req.is_head,
             q.host = IF l.name = "host" THEN l.value ELSE req.host,
             q.keep_alive <=> IF l.name = "connection"
                                  /\ l.value \in {<<"close">>, <<"keep-alive">>}
                               THEN l.value = <<"keep-alive">> ELSE req.keep_alive,
             q.has_xff <=> l.name = "x-forwarded-for" \/ req.has_xff,
             q.body_mode = IF l.name = "transfer-encoding" THEN "CHUNKED"
                           ELSE IF l.name = "content-length" /\ req.body_mode # "CHUNKED"
                                THEN "LENGTH" ELSE req.body_mode,
             q.content_length = IF l.name = "content-length" THEN l.value[1]
                                ELSE req.content_length
      PROVE  kind' = "request" /\ RequestInv' /\ ChainInv'
  <2>1. ReadBefore(q, head, k + 1)
    <3> DEFINE r == req
               m == k
    <3> HIDE DEF l, r, m
    <3>1. l = head.lines[m] /\ m \in 1..Len(head.lines) /\ ReadBefore(r, head, m)
      BY <1>1, <1>3 DEF l, m, r
    <3>2. /\ q.status = r.status /\ q.error_code = r.error_code
          /\ q.minor_version = r.minor_version /\ q.is_head = r.is_head
          /\ q.host = IF l.name = "host" THEN l.value ELSE r.host
          /\ q.keep_alive <=> IF l.name = "connection"
                                  /\ l.value \in {<<"close">>, <<"keep-alive">>}
                               THEN l.value = <<"keep-alive">> ELSE r.keep_alive
          /\ q.has_xff <=> l.name = "x-forwarded-for" \/ r.has_xff
          /\ q.body_mode = IF l.name = "transfer-encoding" THEN "CHUNKED"
                           ELSE IF l.name = "content-length" /\ r.body_mode # "CHUNKED"
                                THEN "LENGTH" ELSE r.body_mode
          /\ q.content_length = IF l.name = "content-length" THEN l.value[1]
                                ELSE r.content_length
      BY <1>9 DEF r, l
    <3>3. ReadBefore(q, head, m + 1)
      BY <1>2, <3>1, <3>2, ReadNext
    <3> QED
      BY <3>3 DEF m
  <2>2. ReadBefore(req', head, k + 1)
    BY <1>9, <2>1
  <2> QED
    BY <1>1, <1>9, <2>2, TakenStep
<1> HIDE DEF l
<1>10. CASE NoColon
  <2>1. l.name = "" /\ Fail(400)
    BY <1>10 DEF NoColon, At, line, l
  <2> QED
    BY <1>6, <1>8, <2>1
<1>11. CASE Host
  <2>1. l.name = "host"
    BY <1>11 DEF Host, At, line, l
  <2>2. CASE req.host # <<>> \/ l.value \in {<<>>, <<"long">>}
    <3>1. Fail(400)
      BY <1>11, <2>2 DEF Host, line, l
    <3> QED
      BY <1>6, <1>7, <1>8, <2>1, <2>2, <3>1
  <2>3. CASE req.host = <<>> /\ l.value \notin {<<>>, <<"long">>}
    <3>1. pc' = pc /\ req' = [req EXCEPT !.host = l.value]
      BY <1>11, <2>3 DEF Host, line, l
    <3>2. SoundBefore(head, k + 1)
      BY <1>6, <1>7, <2>1, <2>3
    <3>3. req' \in Request
      BY <1>4, <1>5, <3>1 DEF Request
    <3>4. /\ req'.status = req.status /\ req'.error_code = req.error_code
          /\ req'.minor_version = req.minor_version /\ req'.is_head = req.is_head
          /\ req'.host = l.value /\ req'.keep_alive = req.keep_alive
          /\ req'.has_xff = req.has_xff /\ req'.body_mode = req.body_mode
          /\ req'.content_length = req.content_length
      BY <1>5, <3>1 DEF Request
    <3> QED
      BY <1>9, <2>1, <3>1, <3>2, <3>3, <3>4
  <2> QED
    BY <2>2, <2>3
<1>12. CASE Connection
  <2>1. l.name = "connection" /\ pc' = pc /\ req' = Asked(req)
    BY <1>12 DEF Connection, At, line, l
  <2>2. SoundBefore(head, k + 1)
    BY <1>6, <2>1
  <2>3. req' = IF l.value = <<"close">> THEN [req EXCEPT !.keep_alive = FALSE]
               ELSE IF l.value = <<"keep-alive">> THEN [req EXCEPT !.keep_alive = TRUE] ELSE req
    BY <2>1 DEF Asked, line, l
  <2>4. <<"close">> # <<"keep-alive">>
    OBVIOUS
  <2>5. req' \in Request
    BY <1>5, <2>3 DEF Request
  <2>6. /\ req'.status = req.status /\ req'.error_code = req.error_code
        /\ req'.minor_version = req.minor_version /\ req'.is_head = req.is_head
        /\ req'.host = req.host /\ req'.has_xff = req.has_xff
        /\ req'.body_mode = req.body_mode /\ req'.content_length = req.content_length
    BY <1>5, <2>3 DEF Request
  <2>7. req'.keep_alive <=> IF l.value \in {<<"close">>, <<"keep-alive">>}
                            THEN l.value = <<"keep-alive">> ELSE req.keep_alive
    BY <1>5, <2>3, <2>4 DEF Request
  <2> QED
    BY <1>9, <2>1, <2>2, <2>5, <2>6, <2>7
<1>13. CASE Forwarded
  <2>1. l.name = "x-forwarded-for" /\ pc' = pc /\ req' = [req EXCEPT !.has_xff = TRUE]
    BY <1>13 DEF Forwarded, At, line, l
  <2>2. SoundBefore(head, k + 1)
    BY <1>6, <2>1
  <2>3. req' \in Request
    BY <1>5, <2>1 DEF Request
  <2>4. /\ req'.status = req.status /\ req'.error_code = req.error_code
        /\ req'.minor_version = req.minor_version /\ req'.is_head = req.is_head
        /\ req'.host = req.host /\ req'.keep_alive = req.keep_alive
        /\ req'.has_xff = TRUE /\ req'.body_mode = req.body_mode
        /\ req'.content_length = req.content_length
    BY <1>5, <2>1 DEF Request
  <2> QED
    BY <1>9, <2>1, <2>2, <2>3, <2>4
<1>14. CASE ContentLength
  <2>1. l.name = "content-length"
    BY <1>14 DEF ContentLength, At, line, l
  <2>2. CASE ~IsNumber(l.value)
    <3>1. Fail(400)
      BY <1>14, <2>2 DEF ContentLength, line, l
    <3> QED
      BY <1>6, <1>8, <2>1, <2>2, <3>1
  <2>3. CASE IsNumber(l.value)
    <3>1. pc' = pc
          /\ req' = [req EXCEPT !.content_length = l.value[1],
                                !.body_mode = IF req.body_mode = "CHUNKED" THEN req.body_mode
                                              ELSE "LENGTH"]
      BY <1>14, <2>3 DEF ContentLength, line, l
    <3>2. SoundBefore(head, k + 1)
      BY <1>6, <2>1, <2>3
    <3>3. l.value[1] \in Text
      <4>1. \A v \in Seq(Text) : v # <<>> => v[1] \in Text
        OBVIOUS
      <4> QED
        BY <1>4, <2>3, <4>1 DEF IsNumber
    <3>4. req' \in Request
      BY <1>5, <3>1, <3>3 DEF Request
    <3>5. /\ req'.status = req.status /\ req'.error_code = req.error_code
          /\ req'.minor_version = req.minor_version /\ req'.is_head = req.is_head
          /\ req'.host = req.host /\ req'.keep_alive = req.keep_alive
          /\ req'.has_xff = req.has_xff
          /\ req'.body_mode = (IF req.body_mode # "CHUNKED" THEN "LENGTH" ELSE req.body_mode)
          /\ req'.content_length = l.value[1]
      BY <1>5, <3>1 DEF Request
    <3> QED
      BY <1>9, <2>1, <3>1, <3>2, <3>4, <3>5
  <2> QED
    BY <2>2, <2>3
<1>15. CASE TransferEncoding
  <2>1. l.name = "transfer-encoding"
    BY <1>15 DEF TransferEncoding, At, line, l
  <2>2. CASE l.value # <<"chunked">>
    <3>1. Fail(400)
      BY <1>15, <2>2 DEF TransferEncoding, line, l
    <3> QED
      BY <1>6, <1>8, <2>1, <2>2, <3>1
  <2>3. CASE l.value = <<"chunked">>
    <3>1. pc' = pc /\ req' = [req EXCEPT !.body_mode = "CHUNKED"]
      BY <1>15, <2>3 DEF TransferEncoding, line, l
    <3>2. SoundBefore(head, k + 1)
      BY <1>6, <2>1, <2>3
    <3>3. req' \in Request
      BY <1>5, <3>1 DEF Request
    <3>4. /\ req'.status = req.status /\ req'.error_code = req.error_code
          /\ req'.minor_version = req.minor_version /\ req'.is_head = req.is_head
          /\ req'.host = req.host /\ req'.keep_alive = req.keep_alive
          /\ req'.has_xff = req.has_xff /\ req'.body_mode = "CHUNKED"
          /\ req'.content_length = req.content_length
      BY <1>5, <3>1 DEF Request
    <3> QED
      BY <1>9, <2>1, <3>1, <3>2, <3>3, <3>4
  <2> QED
    BY <2>2, <2>3
<1>16. CASE Ignored
  <2>1. l.name \notin Known /\ pc' = pc /\ req' = req
    BY <1>16 DEF Ignored, line, l
  <2>2. /\ l.name # "" /\ l.name # "host" /\ l.name # "connection"
        /\ l.name # "x-forwarded-for" /\ l.name # "content-length"
        /\ l.name # "transfer-encoding"
    BY <2>1 DEF Known
  <2>3. SoundBefore(head, k + 1)
    BY <1>6, <2>2
  <2> QED
    BY <1>5, <1>9, <2>1, <2>2, <2>3
<1> QED
  BY <1>10, <1>11, <1>12, <1>13, <1>14, <1>15, <1>16

LEMMA ExecuteEndStep ==
  ASSUME kind = "request", RequestInv, ChainInv, Execute_End
  PROVE  kind' = "request" /\ RequestInv' /\ ChainInv'
<1>1. /\ UNCHANGED <<kind, head, len, out, xff, hop, past>> /\ pc = "lines"
      /\ k > Len(head.lines) /\ k \in 1..(Len(head.lines) + 1)
      /\ SoundBefore(head, k) /\ ReadBefore(req, head, k) /\ Fits /\ out = <<>> /\ xff = <<>>
  BY DEF Execute_End, RequestInv, ReadInv, rewriting, chain
<1>2. /\ head.lines \in Seq(Line) /\ Len(head.lines) \in Nat /\ Size(head) \in Nat
      /\ HP_MAX_HEADER_BYTES \in Nat /\ head \in TypedRequest /\ req \in Request /\ len \in Nat
  BY <1>1, HeadSize, HttpHeadAssumption DEF RequestInv, ReadBefore
<1>3. k = Len(head.lines) + 1
  BY <1>1, <1>2
<1>4. \A n : Before(head, n, k) = Named(head, n)
  BY <1>2, <1>3, BeforeEnds
<1>5. CASE req.host = <<>>
  <2>1. Fail(400)
    BY <1>5 DEF Execute_End
  <2>2. ~Sound(head)
    <3> SUFFICES ASSUME Sound(head) PROVE FALSE
      OBVIOUS
    <3>1. PICK j \in Named(head, "host") : TRUE
      BY DEF Sound
    <3>2. Named(head, "host") = {j} /\ head.lines[j].value # <<>>
      BY <1>1, <1>4, <3>1 DEF SoundBefore
    <3>3. {j} \subseteq Int
      BY <1>2, <3>1 DEF Named
    <3>4. Latest(head, {j}) = head.lines[j].value
      BY <3>3, LatestAt
    <3> QED
      BY <1>1, <1>4, <1>5, <3>1, <3>2, <3>4 DEF ReadBefore, LastBefore
  <2>3. ErrorIn(head) = 400
    <3>1. head.first.minor \in {0, 1}
      BY <1>1 DEF SoundBefore
    <3>2. ~ (Size(head) > HP_MAX_HEADER_BYTES)
      BY <1>1, <1>2 DEF Fits
    <3> QED
      BY <3>1, <3>2 DEF ErrorIn
  <2> QED
    BY <1>1, <1>2, <2>1, <2>2, <2>3, RefuseStep
<1>6. CASE req.host # <<>>
  <2>1. pc' = "rewrite" /\ k' = 1 /\ req' = [req EXCEPT !.status = "DONE"]
    BY <1>6 DEF Execute_End
  <2>2. Sound(head)
    BY <1>1, <1>3, <1>4, <1>6 DEF Sound, ReadBefore, LastBefore
  <2>3. req' = Meaning(head)
    BY <1>1, <1>2, <1>3, <2>1, <2>2, ReadLast
  <2>4. KeptBefore(head, 1, <<>>) /\ LastBefore(head, "x-forwarded-for", 1, <<>>) = <<>>
    BY <1>2, BeforeEnds, KeptFirst DEF LastBefore
  <2>5. <<>> \in Seq(Line) /\ <<>> \in Seq(Text) /\ 1 \in 1..(Len(head.lines) + 1)
    BY <1>2
  <2>6. RewriteInv'
    BY <1>1, <2>1, <2>2, <2>3, <2>4, <2>5 DEF RewriteInv, Fits
  <2>7. ChainInv'
    BY <1>1, <2>1, ChainSame
  <2> QED
    BY <1>1, <1>2, <2>1, <2>6, <2>7 DEF RequestInv, ReadInv, Verdict
<1> QED
  BY <1>5, <1>6

----------------------------------------------------------------------------
(* The steps of a rewriting.                                               *)

LEMMA RewriteLineStep ==
  ASSUME kind = "request", RequestInv, ChainInv, Drop \/ Copy
  PROVE  kind' = "request" /\ RequestInv' /\ ChainInv'
<1> DEFINE l == head.lines[k]
<1>1. /\ pc = "rewrite" /\ pc' = pc /\ k \in 1..Len(head.lines) /\ k' = k + 1
      /\ UNCHANGED <<kind, head, len, req, hop, past>>
      /\ \/ l.name \in Ours /\ out' = out
            /\ xff' = IF l.name = "x-forwarded-for" THEN l.value ELSE xff
         \/ l.name \notin Ours /\ out' = Append(out, l) /\ xff' = xff
  <2>1. /\ pc = "rewrite" /\ pc' = pc /\ k <= Len(head.lines) /\ k' = k + 1
        /\ UNCHANGED <<kind, head, len, req, hop, past>>
        /\ \/ l.name \in Ours /\ out' = out
              /\ xff' = IF l.name = "x-forwarded-for" THEN l.value ELSE xff
           \/ l.name \notin Ours /\ out' = Append(out, l) /\ xff' = xff
    BY DEF Drop, Copy, At, line, chain
  <2> QED
    BY <2>1, HeadSize DEF RequestInv, RewriteInv
<1>2. /\ head.lines \in Seq(Line) /\ Len(head.lines) \in Nat
  BY HeadSize
<1>3. /\ Fits /\ Sound(head) /\ req = Meaning(head)
      /\ out \in Seq(Line) /\ KeptBefore(head, k, out)
      /\ xff \in Seq(Text) /\ xff = LastBefore(head, "x-forwarded-for", k, <<>>)
  BY <1>1 DEF RequestInv, RewriteInv
<1>4. l \in Line /\ l.value \in Seq(Text)
  <2>1. l \in Line
    BY <1>1, <1>2
  <2> HIDE DEF l
  <2> QED
    BY <2>1 DEF Line
<1>5. /\ l.name \in Ours => KeptBefore(head, k + 1, out)
      /\ l.name \notin Ours => KeptBefore(head, k + 1, Append(out, l))
  BY <1>1, <1>2, <1>3, KeptNext
<1>6. LastBefore(head, "x-forwarded-for", k + 1, <<>>)
      = IF l.name = "x-forwarded-for" THEN l.value
        ELSE LastBefore(head, "x-forwarded-for", k, <<>>)
  BY <1>1, <1>2, LastBeforeNext
<1> HIDE DEF l
<1>7. xff' \in Seq(Text) /\ xff' = LastBefore(head, "x-forwarded-for", k + 1, <<>>)
  BY <1>1, <1>3, <1>4, <1>6 DEF Ours
<1>8. out' \in Seq(Line) /\ KeptBefore(head, k + 1, out')
  <2>1. CASE l.name \in Ours
    BY <1>1, <1>3, <1>5, <2>1
  <2>2. CASE l.name \notin Ours
    <3>1. Append(out, l) \in Seq(Line)
      BY <1>3, <1>4
    <3> QED
      BY <1>1, <1>5, <2>2, <3>1
  <2> QED
    BY <2>1, <2>2
<1>9. k + 1 \in 1..(Len(head.lines) + 1)
  BY <1>1, <1>2
<1>10. RewriteInv'
  BY <1>1, <1>3, <1>7, <1>8, <1>9 DEF RewriteInv, Fits
<1>11. ChainInv'
  BY <1>1, ChainSame
<1> QED
  BY <1>1, <1>10, <1>11 DEF RequestInv, ReadInv, Verdict

LEMMA RewriteEndStep ==
  ASSUME kind = "request", RequestInv, ChainInv, Rewrite_End
  PROVE  kind' = "request" /\ RequestInv' /\ ChainInv'
<1>1. /\ pc = "rewrite" /\ k > Len(head.lines) /\ out' = <<>> /\ xff' = <<>> /\ kind' = kind
      /\ Fits /\ Sound(head) /\ req = Meaning(head) /\ k \in 1..(Len(head.lines) + 1)
      /\ out \in Seq(Line) /\ KeptBefore(head, k, out)
      /\ xff \in Seq(Text) /\ xff = LastBefore(head, "x-forwarded-for", k, <<>>)
      /\ head \in TypedRequest /\ len \in Nat
  BY DEF Rewrite_End, RequestInv, RewriteInv
<1>2. /\ head.lines \in Seq(Line) /\ Len(head.lines) \in Nat /\ k = Len(head.lines) + 1
  BY <1>1, HeadSize
<1>3. xff = Forwards(head)
  BY <1>1, <1>2, BeforeEnds DEF LastBefore, Forwards
<1>4. Rewritten \in TypedRequest /\ Follows(head, Rewritten, hop)
  BY <1>1, <1>2, <1>3, RewriteFollows
<1>5. req \in Request
  BY <1>1, MeaningFields
<1>6. hop = Len(past) + 1 /\ past \in Seq([head : TypedRequest, req : Request])
  BY <1>1 DEF ChainInv
<1>7. CASE Size(Rewritten) > SLOT
  <2>1. Fail(431) /\ UNCHANGED <<head, len, k, hop, past>>
    BY <1>7 DEF Rewrite_End, chain
  <2>2. req'.status = "ERROR" /\ req'.error_code = 431 /\ pc' = "over"
    BY <1>5, <2>1 DEF Fail, Request
  <2>3. ChainInv'
    BY <1>1, <2>1, <2>2, ChainSame
  <2> QED
    BY <1>1, <2>1, <2>2, <2>3 DEF RequestInv, ReadInv, RewriteInv, Verdict, Fits
<1>8. CASE ~ (Size(Rewritten) > SLOT)
  <2> DEFINE e == [head |-> head, req |-> req]
             E == [head : TypedRequest, req : Request]
  <2>1. past' = Append(past, e) /\ head' = Rewritten
    BY <1>8 DEF Rewrite_End
  <2>2. e \in E /\ e.head = head /\ e.req = req
    BY <1>1, <1>5
  <2> HIDE DEF e
  <2>3. /\ past' \in Seq(E) /\ Len(past') = Len(past) + 1 /\ Len(past) \in Nat
        /\ past'[Len(past) + 1] = e /\ \A j \in 1..Len(past) : past'[j] = past[j]
    BY <1>6, <2>1, <2>2
  <2>4. \A j \in 1..Len(past) : After(j)' = After(j)
    <3> SUFFICES ASSUME NEW j \in 1..Len(past) PROVE After(j)' = After(j)
      OBVIOUS
    <3>1. CASE j < Len(past)
      BY <2>3, <3>1 DEF After
    <3>2. CASE j = Len(past)
      BY <2>2, <2>3, <3>2 DEF After
    <3> QED
      BY <2>3, <3>1, <3>2
  <2>6. \A j \in 1..Len(past') :
          /\ Size(past'[j].head) <= HP_MAX_HEADER_BYTES /\ Sound(past'[j].head)
          /\ past'[j].req = Meaning(past'[j].head)
          /\ Follows(past'[j].head, After(j)', j)
    <3> TAKE j \in 1..Len(past')
    <3>1. CASE j \in 1..Len(past)
      BY <2>3, <2>4, <3>1 DEF ChainInv
    <3>2. CASE j = Len(past) + 1
      <4>1. past'[j].head = head /\ past'[j].req = req /\ After(j)' = Rewritten /\ j = hop
        <5>1. past'[j] = e /\ j = hop
          BY <1>6, <2>3, <3>2
        <5>2. After(j)' = Rewritten
          BY <2>1, <2>3, <3>2 DEF After
        <5> QED
          BY <2>2, <5>1, <5>2
      <4> QED
        BY <1>1, <1>4, <4>1 DEF Fits
    <3> QED
      BY <2>3, <3>1, <3>2
  <2>7. CASE hop = Hops
    <3>1. pc' = "over" /\ UNCHANGED <<len, k, req, hop>>
      BY <1>8, <2>7 DEF Rewrite_End
    <3>2. req'.status = "DONE"
      BY <1>1, <3>1, MeaningFields
    <3>3. ChainInv'
      BY <1>6, <2>3, <2>6, <3>1, <3>2 DEF ChainInv
    <3> QED
      BY <1>1, <1>4, <2>1, <3>1, <3>2, <3>3 DEF RequestInv, ReadInv, RewriteInv, Verdict
  <2>8. CASE hop # Hops
    <3>1. pc' = "wait" /\ len' = 0 /\ k' = 1 /\ req' = hp_init /\ hop' = hop + 1
      BY <1>8, <2>8 DEF Rewrite_End
    <3>2. Size(head') \in Nat /\ Size(head') >= 2
      BY <1>4, <2>1, SizeNat DEF TypedRequest
    <3>3. ChainInv'
      BY <1>6, <2>3, <2>6, <3>1 DEF ChainInv
    <3> QED
      BY <1>1, <1>4, <2>1, <3>1, <3>2, <3>3 DEF RequestInv, ReadInv, RewriteInv, Verdict
  <2> QED
    BY <2>7, <2>8
<1> QED
  BY <1>7, <1>8

----------------------------------------------------------------------------
(* Response heads.                                                         *)

Response ==
  [status : {"NEED_MORE", "DONE", "ERROR"}, error_code : Nat, minor_version : Nat,
   keep_alive : BOOLEAN, body_mode : {"NONE", "LENGTH", "CHUNKED", "UNTIL_CLOSE"},
   content_length : Text, have_length : BOOLEAN, have_chunked : BOOLEAN]

\* What hp_response_execute has made of the lines before line m.
FieldsBefore(r, h, m) ==
  /\ r \in Response /\ r.status = "NEED_MORE"
  /\ r.keep_alive <=> WishBefore(h, m)
  /\ r.have_length <=> IsNumber(LastBefore(h, "content-length", m, <<>>))
  /\ r.have_length => r.content_length = LastBefore(h, "content-length", m, <<>>)[1]
  /\ r.have_chunked <=> LastBefore(h, "transfer-encoding", m, <<>>) = <<"chunked">>

Framed ==
  LET length == LastBefore(head, "content-length", Len(head.lines) + 1, <<>>)
      coding == LastBefore(head, "transfer-encoding", Len(head.lines) + 1, <<>>)
  IN /\ req.body_mode = "NONE" <=> Bodiless(head.first)
     /\ req.body_mode = "CHUNKED" <=> coding = <<"chunked">> /\ ~Bodiless(head.first)
     /\ req.body_mode = "LENGTH" => IsNumber(length) /\ req.content_length = length[1]
     /\ req.keep_alive <=>
          /\ WishBefore(head, Len(head.lines) + 1)
          /\ Bodiless(head.first) \/ coding = <<"chunked">> \/ IsNumber(length)

ResponseInv ==
  /\ head \in TypedResponse /\ past = <<>> /\ hop = 1
  /\ pc \in {"wait", "call", "fields", "over"}
  /\ pc \in {"wait", "call"} => req = hp_response_init /\ k = 1
  /\ pc = "fields" => k \in 1..(Len(head.lines) + 1) /\ FieldsBefore(req, head, k)
  /\ req.status = "DONE" => pc = "over" /\ Framed

LEMMA ResponseStart ==
  ASSUME NEW h \in TypedResponse, NEW q,
         q = [hp_response_init EXCEPT !.minor_version = h.first.minor,
                                      !.keep_alive = (h.first.minor = 1)]
  PROVE  FieldsBefore(q, h, 1)
<1>1. h.lines \in Seq(Line) /\ h.first.minor \in Nat
  BY DEF TypedResponse
<1>2. q \in Response
  <2>1. hp_response_init \in Response
    BY DEF hp_response_init, Response, Text
  <2> QED
    BY <1>1, <2>1 DEF Response
<1>3. q.status = "NEED_MORE" /\ ~q.have_length /\ ~q.have_chunked
  BY DEF hp_response_init
<1>4. q.keep_alive <=> h.first.minor = 1
  BY DEF hp_response_init
<1>5. \A n : LastBefore(h, n, 1, <<>>) = <<>>
  BY <1>1, BeforeEnds DEF LastBefore
<1>6. ~IsNumber(<<>>) /\ <<>> # <<"chunked">>
  BY DEF IsNumber
<1>7. WishBefore(h, 1) <=> h.first.minor = 1
  BY <1>1, WishEnds
<1> QED
  BY <1>2, <1>3, <1>4, <1>5, <1>6, <1>7 DEF FieldsBefore

LEMMA FieldNext ==
  ASSUME NEW h, h.lines \in Seq(Line), NEW m \in 1..Len(h.lines),
         NEW r, FieldsBefore(r, h, m), NEW l, l = h.lines[m], NEW q \in Response,
         q.status = r.status,
         q.keep_alive <=> IF l.name = "connection"
                              /\ l.value \in {<<"close">>, <<"keep-alive">>}
                           THEN l.value = <<"keep-alive">> ELSE r.keep_alive,
         q.have_length <=> IF l.name = "content-length" THEN IsNumber(l.value)
                           ELSE r.have_length,
         q.content_length = IF l.name = "content-length" /\ IsNumber(l.value) THEN l.value[1]
                            ELSE r.content_length,
         q.have_chunked <=> IF l.name = "transfer-encoding" THEN l.value = <<"chunked">>
                            ELSE r.have_chunked
  PROVE  FieldsBefore(q, h, m + 1)
<1>1. \A n, d : LastBefore(h, n, m + 1, d) = IF l.name = n THEN l.value
                                             ELSE LastBefore(h, n, m, d)
  <2>1. \A n, d : LastBefore(h, n, m + 1, d) = IF h.lines[m].name = n THEN h.lines[m].value
                                               ELSE LastBefore(h, n, m, d)
    BY AllNext
  <2> QED
    BY <2>1
<1>2. q.keep_alive <=> WishBefore(h, m + 1)
  BY WishNext DEF FieldsBefore
<1>3. /\ LastBefore(h, "content-length", m + 1, <<>>)
         = IF l.name = "content-length" THEN l.value ELSE LastBefore(h, "content-length", m, <<>>)
      /\ LastBefore(h, "transfer-encoding", m + 1, <<>>)
         = IF l.name = "transfer-encoding" THEN l.value
           ELSE LastBefore(h, "transfer-encoding", m, <<>>)
  BY <1>1
<1>4. q.have_length <=> IsNumber(LastBefore(h, "content-length", m + 1, <<>>))
  BY <1>3 DEF FieldsBefore
<1>5. q.have_length => q.content_length = LastBefore(h, "content-length", m + 1, <<>>)[1]
  BY <1>3 DEF FieldsBefore
<1>6. q.have_chunked <=> LastBefore(h, "transfer-encoding", m + 1, <<>>) = <<"chunked">>
  BY <1>3 DEF FieldsBefore
<1>7. q.status = "NEED_MORE"
  BY DEF FieldsBefore
<1> QED
  BY <1>2, <1>4, <1>5, <1>6, <1>7 DEF FieldsBefore

LEMMA ResponseStep ==
  ASSUME kind = "response", ResponseInv, Next
  PROVE  kind' = "response" /\ ResponseInv'
<1>1. /\ head \in TypedResponse /\ head.lines \in Seq(Line) /\ Len(head.lines) \in Nat
      /\ past = <<>> /\ hop = 1
  BY DEF ResponseInv, TypedResponse
<1>2. hp_response_init \in Response /\ hp_response_init.status = "NEED_MORE"
  BY DEF hp_response_init, Response, Text
<1>3. CASE Receive \/ NeedMore
  <2>1. UNCHANGED <<kind, head, k, req, hop, past>> /\ pc \in {"wait", "call"}
        /\ pc' \in {"wait", "call"}
    BY <1>3 DEF Receive, NeedMore, chain
  <2> QED
    BY <1>2, <2>1 DEF ResponseInv
<1>4. CASE TooLarge \/ TooLargeWhole
  <2>1. UNCHANGED <<kind, head, hop, past>> /\ pc = "call" /\ pc' = "over" /\ req' = [req EXCEPT !.status = "ERROR", !.error_code = 502]
    BY <1>4 DEF TooLarge, TooLargeWhole, Fail, chain
  <2>2. req'.status = "ERROR"
    BY <1>2, <2>1 DEF ResponseInv, hp_response_init
  <2> QED
    BY <2>1, <2>2 DEF ResponseInv
<1>5. CASE StatusLine
  <2>1. UNCHANGED <<kind, head, k, hop, past>> /\ pc = "call" /\ req = hp_response_init /\ k = 1
    BY <1>5 DEF StatusLine, ResponseInv, chain
  <2>2. CASE Fail(502)
    <3>1. pc' = "over" /\ req'.status = "ERROR"
      BY <2>1, <2>2 DEF Fail, hp_response_init
    <3> QED
      BY <2>1, <3>1 DEF ResponseInv
  <2>3. CASE pc' = "fields"
             /\ req' = [req EXCEPT !.minor_version = head.first.minor,
                                   !.keep_alive = (head.first.minor = 1)]
    <3>1. FieldsBefore(req', head, 1)
      BY <1>1, <2>1, <2>3, ResponseStart
    <3>2. req'.status = "NEED_MORE" /\ 1 \in 1..(Len(head.lines) + 1)
      BY <1>1, <3>1 DEF FieldsBefore
    <3> QED
      BY <2>1, <2>3, <3>1, <3>2 DEF ResponseInv
  <2> QED
    BY <1>5, <2>2, <2>3 DEF StatusLine
<1>6. CASE Field \/ FieldIgnored
  <2> DEFINE l == head.lines[k]
  <2>1. /\ pc = "fields" /\ pc' = pc /\ k \in 1..Len(head.lines) /\ k' = k + 1
        /\ UNCHANGED <<kind, head, hop, past>>
    <3>1. /\ pc = "fields" /\ pc' = pc /\ k <= Len(head.lines) /\ k' = k + 1
          /\ UNCHANGED <<kind, head, hop, past>>
      BY <1>6 DEF Field, FieldIgnored, At, chain
    <3> QED
      BY <1>1, <3>1 DEF ResponseInv
  <2>2. FieldsBefore(req, head, k) /\ req \in Response
    BY <2>1 DEF ResponseInv, FieldsBefore
  <2>3. l \in Line /\ l.value \in Seq(Text)
    <3>1. l \in Line
      BY <1>1, <2>1
    <3> HIDE DEF l
    <3> QED
      BY <3>1 DEF Line
  <2> HIDE DEF l
  <2>4. ASSUME NEW q \in Response, q = req', q.status = req.status,
               q.keep_alive <=> IF l.name = "connection"
                                    /\ l.value \in {<<"close">>, <<"keep-alive">>}
                                 THEN l.value = <<"keep-alive">> ELSE req.keep_alive,
               q.have_length <=> IF l.name = "content-length" THEN IsNumber(l.value)
                                 ELSE req.have_length,
               q.content_length = IF l.name = "content-length" /\ IsNumber(l.value)
                                  THEN l.value[1] ELSE req.content_length,
               q.have_chunked <=> IF l.name = "transfer-encoding" THEN l.value = <<"chunked">>
                                  ELSE req.have_chunked
        PROVE  kind' = "response" /\ ResponseInv'
    <3>1. FieldsBefore(q, head, k + 1)
      <4> DEFINE r == req
                 m == k
      <4> HIDE DEF r, m
      <4>1. l = head.lines[m] /\ m \in 1..Len(head.lines) /\ FieldsBefore(r, head, m)
        BY <2>1, <2>2 DEF l, r, m
      <4>2. /\ q.status = r.status
            /\ q.keep_alive <=> IF l.name = "connection"
                                    /\ l.value \in {<<"close">>, <<"keep-alive">>}
                                 THEN l.value = <<"keep-alive">> ELSE r.keep_alive
            /\ q.have_length <=> IF l.name = "content-length" THEN IsNumber(l.value)
                                 ELSE r.have_length
            /\ q.content_length = IF l.name = "content-length" /\ IsNumber(l.value)
                                  THEN l.value[1] ELSE r.content_length
            /\ q.have_chunked <=> IF l.name = "transfer-encoding" THEN l.value = <<"chunked">>
                                  ELSE r.have_chunked
        BY <2>4 DEF r
      <4>3. FieldsBefore(q, head, m + 1)
        BY <1>1, <4>1, <4>2, FieldNext
      <4> QED
        BY <4>3 DEF m
    <3>2. FieldsBefore(req', head, k + 1)
      BY <2>4, <3>1
    <3>3. req'.status = "NEED_MORE"
      BY <3>2 DEF FieldsBefore
    <3>4. k + 1 \in 1..(Len(head.lines) + 1)
      BY <1>1, <2>1
    <3> QED
      BY <1>1, <2>1, <3>2, <3>3, <3>4 DEF ResponseInv
  <2>5. CASE FieldIgnored
    <3>1. req' = req /\ l.name \notin {"content-length", "transfer-encoding", "connection"}
      BY <2>5 DEF FieldIgnored, line, l
    <3> QED
      BY <2>2, <2>4, <3>1
  <2>6. CASE Field /\ l.name = "content-length"
    <3>1. req' = [req EXCEPT !.have_length = IsNumber(l.value),
                             !.content_length = IF IsNumber(l.value) THEN l.value[1]
                                                ELSE req.content_length]
      BY <2>6 DEF Field, line, l
    <3>2. IsNumber(l.value) \in BOOLEAN /\ (IsNumber(l.value) => l.value[1] \in Text)
      <4>1. \A v \in Seq(Text) : v # <<>> => v[1] \in Text
        OBVIOUS
      <4> QED
        BY <2>3, <4>1 DEF IsNumber
    <3> DEFINE b == IsNumber(l.value)
               v == IF IsNumber(l.value) THEN l.value[1] ELSE req.content_length
    <3>3. b \in BOOLEAN /\ v \in Text
      BY <2>2, <3>2 DEF Response
    <3>4. req' = [req EXCEPT !.have_length = b, !.content_length = v]
      BY <3>1
    <3> HIDE DEF b, v
    <3>5. /\ req' \in Response /\ req'.status = req.status /\ req'.keep_alive = req.keep_alive
          /\ req'.have_length = b /\ req'.content_length = v
          /\ req'.have_chunked = req.have_chunked
      BY <2>2, <3>3, <3>4 DEF Response
    <3>6. /\ req' \in Response /\ req'.status = req.status
          /\ (req'.keep_alive <=> req.keep_alive)
          /\ (req'.have_length <=> IsNumber(l.value))
          /\ req'.content_length = (IF IsNumber(l.value) THEN l.value[1] ELSE req.content_length)
          /\ (req'.have_chunked <=> req.have_chunked)
      BY <3>5 DEF b, v
    <3> QED
      BY <2>4, <2>6, <3>6
  <2>7. CASE Field /\ l.name = "transfer-encoding"
    <3>1. req' = [req EXCEPT !.have_chunked = (l.value = <<"chunked">>)]
      BY <2>7 DEF Field, line, l
    <3> DEFINE b == l.value = <<"chunked">>
    <3>2. b \in BOOLEAN /\ req' = [req EXCEPT !.have_chunked = b]
      BY <3>1
    <3> HIDE DEF b
    <3>3. /\ req' \in Response /\ req'.status = req.status /\ req'.keep_alive = req.keep_alive
          /\ req'.have_length = req.have_length /\ req'.content_length = req.content_length
          /\ req'.have_chunked = b
      BY <2>2, <3>2 DEF Response
    <3>4. req'.have_chunked <=> l.value = <<"chunked">>
      BY <3>3 DEF b
    <3> QED
      BY <2>4, <2>7, <3>3, <3>4
  <2>8. CASE Field /\ l.name = "connection"
    <3>1. req' = IF l.value = <<"close">> THEN [req EXCEPT !.keep_alive = FALSE]
                 ELSE IF l.value = <<"keep-alive">> THEN [req EXCEPT !.keep_alive = TRUE] ELSE req
      BY <2>8 DEF Field, Asked, line, l
    <3>2. <<"close">> # <<"keep-alive">>
      OBVIOUS
    <3>3. /\ req' \in Response /\ req'.status = req.status
          /\ req'.have_length = req.have_length /\ req'.content_length = req.content_length
          /\ req'.have_chunked = req.have_chunked
      BY <2>2, <3>1 DEF Response
    <3>4. req'.keep_alive <=> IF l.value \in {<<"close">>, <<"keep-alive">>}
                              THEN l.value = <<"keep-alive">> ELSE req.keep_alive
      BY <2>2, <3>1, <3>2 DEF Response
    <3> QED
      BY <2>4, <2>8, <3>3, <3>4
  <2>9. Field => l.name \in {"content-length", "transfer-encoding", "connection"}
    BY DEF Field, At, line, l
  <2> QED
    BY <1>6, <2>5, <2>6, <2>7, <2>8, <2>9
<1>7. CASE Response_End
  <2>1. /\ UNCHANGED <<kind, head, hop, past>> /\ pc = "fields" /\ pc' = "over"
        /\ k > Len(head.lines) /\ k \in 1..(Len(head.lines) + 1)
        /\ FieldsBefore(req, head, k) /\ req \in Response
        /\ req' = [req EXCEPT !.status = "DONE", !.body_mode = Mode,
                              !.keep_alive = (req.keep_alive /\ Mode # "UNTIL_CLOSE")]
    BY <1>7 DEF Response_End, ResponseInv, FieldsBefore, chain
  <2>2. k = Len(head.lines) + 1
    BY <1>1, <2>1
  <2> DEFINE length == LastBefore(head, "content-length", Len(head.lines) + 1, <<>>)
             coding == LastBefore(head, "transfer-encoding", Len(head.lines) + 1, <<>>)
             wish == WishBefore(head, Len(head.lines) + 1)
             b == Bodiless(head.first)
             ka == req.keep_alive /\ Mode # "UNTIL_CLOSE"
  <2>3. /\ req.keep_alive <=> wish
        /\ req.have_length <=> IsNumber(length)
        /\ req.have_length => req.content_length = length[1]
        /\ req.have_chunked <=> coding = <<"chunked">>
    BY <2>1, <2>2 DEF FieldsBefore
  <2>4. Mode = IF b THEN "NONE" ELSE IF req.have_chunked THEN "CHUNKED"
               ELSE IF req.have_length THEN "LENGTH" ELSE "UNTIL_CLOSE"
    BY DEF Mode
  <2>5. req' = [req EXCEPT !.status = "DONE", !.body_mode = Mode, !.keep_alive = ka]
        /\ ka \in BOOLEAN
    BY <2>1
  <2>6. ka <=> req.keep_alive /\ Mode # "UNTIL_CLOSE"
    OBVIOUS
  <2> HIDE DEF length, coding, wish, b, ka
  <2>7. /\ req'.status = "DONE" /\ req'.body_mode = Mode /\ req'.keep_alive = ka
        /\ req'.content_length = req.content_length
    BY <2>1, <2>5 DEF Response
  <2>8. /\ req'.body_mode = "NONE" <=> b
        /\ req'.body_mode = "CHUNKED" <=> coding = <<"chunked">> /\ ~b
        /\ req'.body_mode = "LENGTH" => IsNumber(length) /\ req'.content_length = length[1]
    BY <2>3, <2>4, <2>7
  <2>9. req'.keep_alive <=> wish /\ (b \/ coding = <<"chunked">> \/ IsNumber(length))
    BY <2>3, <2>4, <2>6, <2>7
  <2>10. Framed'
    BY <2>1, <2>8, <2>9 DEF Framed, length, coding, wish, b
  <2> QED
    BY <2>1, <2>7, <2>10 DEF ResponseInv
<1>8. pc # "lines" /\ pc # "rewrite" /\ ~RequestLine
  BY DEF ResponseInv, RequestLine
<1> QED
  BY <1>3, <1>4, <1>5, <1>6, <1>7, <1>8
  DEF Next, Arrival, Execute, Rewrite, ResponseExecute, NoColon, Host, Connection, Forwarded,
      ContentLength, TransferEncoding, Ignored, Execute_End, Drop, Copy, Rewrite_End, At

----------------------------------------------------------------------------
(* The theorems on heads.                                                  *)

HeadInv ==
  \/ kind = "request" /\ RequestInv /\ ChainInv
  \/ kind = "response" /\ ResponseInv

LEMMA HeadInit == Init => HeadInv
<1> SUFFICES ASSUME Init PROVE HeadInv
  OBVIOUS
<1>1. CASE kind = "request" /\ head \in Requests /\ req = hp_init
  <2>1. head \in TypedRequest
    BY <1>1, HeadsTyped
  <2>2. head.lines \in Seq(Line)
    BY <2>1 DEF TypedRequest
  <2>3. Size(head) \in Nat /\ Size(head) >= 2
    BY <2>2, SizeNat
  <2>4. RequestInv
    BY <1>1, <2>1, <2>3 DEF Init, RequestInv, ReadInv, RewriteInv, Verdict
  <2>5. past \in Seq([head : TypedRequest, req : Request]) /\ Len(past) = 0 /\ hop = 1 /\ pc = "wait"
    BY DEF Init
  <2>6. ChainInv
    BY <2>5 DEF ChainInv
  <2> QED
    BY <1>1, <2>4, <2>6 DEF HeadInv
<1>2. CASE kind = "response" /\ head \in Responses /\ req = hp_response_init
  <2>1. head \in TypedResponse
    BY <1>2, HeadsTyped
  <2>2. ResponseInv
    BY <1>2, <2>1 DEF Init, ResponseInv, hp_response_init
  <2> QED
    BY <1>2, <2>2 DEF HeadInv
<1> QED
  BY <1>1, <1>2 DEF Init

LEMMA HeadStep == HeadInv /\ [Next]_vars => HeadInv'
<1> SUFFICES ASSUME HeadInv, [Next]_vars PROVE HeadInv'
  OBVIOUS
<1>1. CASE UNCHANGED vars
  <2>1. UNCHANGED <<kind, head, len, pc, k, req, out, xff, hop, past>>
    BY <1>1 DEF vars
  <2>2. \A j : After(j)' = After(j)
    BY <2>1 DEF After
  <2> QED
    BY <2>1, <2>2 DEF HeadInv, RequestInv, ReadInv, RewriteInv, Verdict, ChainInv, ResponseInv,
                      Framed, Fits
<1>2. CASE Next /\ kind = "response"
  BY <1>2, ResponseStep DEF HeadInv
<1>3. CASE Next /\ kind = "request"
  <2>1. RequestInv /\ ChainInv
    BY <1>3 DEF HeadInv
  <2>2. ~ResponseExecute
    BY <1>3, <2>1 DEF ResponseExecute, StatusLine, Field, FieldIgnored, Response_End, At,
                      RequestInv
  <2>3. CASE Arrival
    BY <1>3, <2>1, <2>3, ArrivalStep DEF HeadInv
  <2>4. CASE RequestLine
    BY <1>3, <2>1, <2>4, RequestLineStep DEF HeadInv
  <2>5. CASE NoColon \/ Host \/ Connection \/ Forwarded \/ ContentLength \/ TransferEncoding
             \/ Ignored
    BY <1>3, <2>1, <2>5, LineStep DEF HeadInv
  <2>6. CASE Execute_End
    BY <1>3, <2>1, <2>6, ExecuteEndStep DEF HeadInv
  <2>7. CASE Drop \/ Copy
    BY <1>3, <2>1, <2>7, RewriteLineStep DEF HeadInv
  <2>8. CASE Rewrite_End
    BY <1>3, <2>1, <2>8, RewriteEndStep DEF HeadInv
  <2> QED
    BY <1>3, <2>2, <2>3, <2>4, <2>5, <2>6, <2>7, <2>8 DEF Next, Execute, Rewrite
<1> QED
  BY <1>1, <1>2, <1>3 DEF HeadInv

LEMMA PastTyped ==
  ASSUME ChainInv, NEW j \in DOMAIN past
  PROVE  j \in 1..Len(past) /\ past[j].head \in TypedRequest /\ past[j].req \in Request
<1> DEFINE E == [head : TypedRequest, req : Request]
<1>1. past \in Seq(E)
  BY DEF ChainInv
<1> HIDE DEF E
<1>2. j \in 1..Len(past) /\ past[j] \in E
  BY <1>1
<1> QED
  BY <1>2 DEF E

\* A request is refused only at its end.
LEMMA RefusedIsOver ==
  ASSUME RequestInv, req.status = "ERROR"
  PROVE  pc = "over"
BY MeaningFields DEF RequestInv, ReadInv, RewriteInv, ReadBefore, hp_init

(***************************************************************************)
(* However a head of any length is cut, and whatever its lines, hp_execute *)
(* refuses it exactly when it is not acceptable as a whole, with the error *)
(* that the whole of it deserves, and takes it for what it means.          *)
(***************************************************************************)
THEOREM HeadsJudgedWhole == Spec => []VerdictOfWhole
<1>1. HeadInv => VerdictOfWhole
  <2> SUFFICES ASSUME RequestInv, ChainInv PROVE VerdictOfWhole
    BY DEF HeadInv, VerdictOfWhole
  <2>1. \A j \in DOMAIN past : Acceptable(past[j].head) /\ past[j].req = Meaning(past[j].head)
    <3> TAKE j \in DOMAIN past
    <3>1. j \in 1..Len(past) /\ past[j].head \in TypedRequest
      BY PastTyped
    <3>2. past[j].head.lines \in Seq(Line)
      BY <3>1 DEF TypedRequest
    <3> QED
      BY <3>1, <3>2, AcceptableSound DEF ChainInv
  <2>2. Acceptable(head) <=> Fits /\ Sound(head)
    BY HeadSize, AcceptableSound DEF Fits
  <2>3. ASSUME req.status = "ERROR"
        PROVE  \/ ~Acceptable(head) /\ req.error_code = ErrorIn(head)
               \/ Acceptable(head) /\ req.error_code = 431 /\ hop - 1 = Len(past)
    <3>1. pc = "over"
      BY <2>3, RefusedIsOver
    <3>2. hop = Len(past) + 1 /\ Len(past) \in Nat
      BY <2>3 DEF ChainInv
    <3> QED
      BY <2>2, <2>3, <3>1, <3>2 DEF RequestInv, Verdict
  <2> QED
    BY <2>1, <2>3 DEF VerdictOfWhole, RequestInv
<1> QED
  BY <1>1, HeadInit, HeadStep, PTL DEF Spec

(***************************************************************************)
(* What a hop reads in the head that another of these proxies rewrote is   *)
(* what that one read, for heads of any length and any number of hops; the *)
(* only reason it may have to refuse it is its size.                       *)
(***************************************************************************)
THEOREM HopsAgree == Spec => []NextHopAgrees
<1>1. ASSUME RequestInv, ChainInv
      PROVE  NextHopAgrees
  <2>1. ASSUME NEW j \in DOMAIN past, j > 1
        PROVE  /\ past[j].req.keep_alive /\ past[j].req.has_xff
               /\ past[j].req = [past[j - 1].req EXCEPT !.keep_alive = TRUE, !.has_xff = TRUE]
    <3>1. /\ j \in 1..Len(past) /\ j - 1 \in 1..Len(past) /\ j - 1 < Len(past)
          /\ j - 1 + 1 = j
      BY <1>1, <2>1 DEF ChainInv
    <3>2. /\ past[j].req = Meaning(past[j].head)
          /\ past[j - 1].req = Meaning(past[j - 1].head)
          /\ Follows(past[j - 1].head, After(j - 1), j - 1)
      BY <1>1, <3>1 DEF ChainInv
    <3>5. past[j - 1].req \in Request
      <4>1. j - 1 \in DOMAIN past
        BY <1>1, <3>1 DEF ChainInv
      <4> QED
        BY <1>1, <4>1, PastTyped
    <3>3. After(j - 1) = past[j].head
      BY <3>1 DEF After
    <3>4. past[j].req = [past[j - 1].req EXCEPT !.keep_alive = TRUE, !.has_xff = TRUE]
      BY <3>2, <3>3 DEF Follows
    <3> QED
      BY <3>4, <3>5 DEF Request
  <2>2. ASSUME hop > 1, req.status = "ERROR"
        PROVE  req.error_code = 431
    <3>1. hop = Len(past) + 1 /\ Len(past) \in Nat
      BY <1>1, <2>2 DEF ChainInv
    <3>2. Len(past) \in 1..Len(past)
      BY <2>2, <3>1
    <3>3. After(Len(past)) = head
      BY <3>1 DEF After
    <3>4. Sound(head)
      BY <1>1, <3>2, <3>3 DEF ChainInv, Follows
    <3>5. pc = "over"
      BY <1>1, <2>2, RefusedIsOver
    <3>6. \/ ~ (Fits /\ Sound(head)) /\ req.error_code = ErrorIn(head)
          \/ Fits /\ Sound(head) /\ req.error_code = 431
      BY <1>1, <2>2, <3>5 DEF RequestInv, Verdict
    <3>7. ~Fits => ErrorIn(head) = 431
      BY <1>1, HeadSize, HttpHeadAssumption DEF ErrorIn, Fits
    <3> QED
      BY <3>4, <3>6, <3>7
  <2> QED
    BY <2>1, <2>2 DEF NextHopAgrees
<1>2. ResponseInv => NextHopAgrees
  BY DEF ResponseInv, NextHopAgrees
<1>3. HeadInv => NextHopAgrees
  BY <1>1, <1>2 DEF HeadInv
<1> QED
  BY <1>3, HeadInit, HeadStep, PTL DEF Spec

(***************************************************************************)
(* Each hop leaves one X-Forwarded-For line, with the addresses that the   *)
(* head had come with and one more, for any number of hops and of lines.   *)
(***************************************************************************)
THEOREM AddressesChained == Spec => []ChainGrows
<1>1. ASSUME RequestInv, ChainInv
      PROVE  ChainGrows
  <2> SUFFICES ASSUME NEW j \in DOMAIN past
               PROVE  /\ \E m \in DOMAIN After(j).lines :
                           Named(After(j), "x-forwarded-for") = {m}
                      /\ Forwards(After(j)) = Append(Forwards(past[j].head), Client(j))
    BY DEF ChainGrows, After
  <2>1. j \in 1..Len(past)
    BY <1>1 DEF ChainInv
  <2> QED
    BY <1>1, <2>1 DEF ChainInv, Follows
<1>2. ResponseInv => ChainGrows
  BY DEF ResponseInv, ChainGrows
<1>3. HeadInv => ChainGrows
  BY <1>1, <1>2 DEF HeadInv
<1> QED
  BY <1>3, HeadInit, HeadStep, PTL DEF Spec

(***************************************************************************)
(* What delimits a response is what its whole head says, for heads of any  *)
(* length, and one whose end is not known is not kept open.                *)
(***************************************************************************)
THEOREM ResponsesFramed == Spec => []ResponseFraming
<1>1. ASSUME kind = "response", ResponseInv, req.status = "DONE"
      PROVE  ResponseFraming
  <2> DEFINE coded   == Named(head, "transfer-encoding")
             lengths == Named(head, "content-length")
             length  == LastBefore(head, "content-length", Len(head.lines) + 1, <<>>)
             coding  == LastBefore(head, "transfer-encoding", Len(head.lines) + 1, <<>>)
             chunked == coded # {} /\ Latest(head, coded) = <<"chunked">>
             counted == lengths # {} /\ IsNumber(Latest(head, lengths))
  <2>1. head.lines \in Seq(Line)
    BY <1>1 DEF ResponseInv, TypedResponse
  <2>2. /\ length = IF lengths = {} THEN <<>> ELSE Latest(head, lengths)
        /\ coding = IF coded = {} THEN <<>> ELSE Latest(head, coded)
    BY <2>1, BeforeEnds DEF LastBefore
  <2>3. ~IsNumber(<<>>) /\ <<>> # <<"chunked">>
    BY DEF IsNumber
  <2>4. chunked <=> coding = <<"chunked">>
    BY <2>2, <2>3
  <2>5. counted <=> IsNumber(length)
    BY <2>2, <2>3
  <2>6. counted => length = Latest(head, lengths)
    BY <2>2
  <2>7. WishBefore(head, Len(head.lines) + 1) <=> Wish(head)
    BY <2>1, WishEnds
  <2>8. /\ req.body_mode = "NONE" <=> Bodiless(head.first)
        /\ req.body_mode = "CHUNKED" <=> coding = <<"chunked">> /\ ~Bodiless(head.first)
        /\ req.body_mode = "LENGTH" => IsNumber(length) /\ req.content_length = length[1]
        /\ req.keep_alive <=>
             /\ WishBefore(head, Len(head.lines) + 1)
             /\ Bodiless(head.first) \/ coding = <<"chunked">> \/ IsNumber(length)
    BY <1>1 DEF ResponseInv, Framed
  <2> HIDE DEF length, coding, chunked, counted, coded, lengths
  <2>9. /\ req.body_mode = "NONE" <=> Bodiless(head.first)
        /\ req.body_mode = "CHUNKED" <=> chunked /\ ~Bodiless(head.first)
        /\ req.body_mode = "LENGTH" => counted /\ req.content_length = Latest(head, lengths)[1]
        /\ req.keep_alive <=> Wish(head) /\ (Bodiless(head.first) \/ chunked \/ counted)
    BY <2>4, <2>5, <2>6, <2>7, <2>8
  <2> QED
    BY <2>9 DEF ResponseFraming, chunked, counted, coded, lengths
<1>2. HeadInv => ResponseFraming
  BY <1>1 DEF HeadInv, ResponseFraming
<1> QED
  BY <1>2, HeadInit, HeadStep, PTL DEF Spec

----------------------------------------------------------------------------
(* Chunked bodies: the arithmetic and the invariant.                       *)

BodyInv == TypeOK /\ LineBounded

\* The guard of a digit is exact: what passes it fits, and what does not
\* pass it would not.
LEMMA DigitFits ==
  ASSUME NEW r \in 0..UMax, NEW d \in Digits
  PROVE  r <= (UMax - d) \div 16 <=> r * 16 + d <= UMax
<1>1. UMax \in Nat /\ UMax >= d
  BY ChunkedAssumption DEF Digits
<1>2. UMax - d \in Nat
  BY <1>1 DEF Digits
<1>3. \A n \in Nat : r <= n \div 16 <=> r * 16 <= n
  OBVIOUS
<1> QED
  BY <1>1, <1>2, <1>3 DEF Digits

\* The bytes of a stream are bytes.
LEMMA ByteOfWire ==
  ASSUME TypeOK, i < upto
  PROVE  Byte \in Bytes /\ i + 1 \in 0..upto
BY ChunkedAssumption DEF TypeOK, Byte

LEMMA ScanInit == hp_chunked_init => BodyInv
BY ChunkedAssumption DEF hp_chunked_init, BodyInv, TypeOK, LineBounded, InSize, States

\* The values of hp_chunked.
HpChunked == [state : States, remaining : 0..UMax, line_len : Nat,
              done : BOOLEAN, error : BOOLEAN]

\* Counting one more byte of the line keeps the type.
LEMMA CountedType ==
  ASSUME TypeOK
  PROVE  /\ Counted \in HpChunked
         /\ Counted = [ch EXCEPT !.line_len = ch.line_len + 1]
BY DEF TypeOK, Counted, HpChunked

\* What every step that consumes one byte leaves as it was.
LEMMA Consumed ==
  ASSUME TypeOK, Consume, ch' \in HpChunked
  PROVE  TypeOK'
BY ByteOfWire DEF Consume, TypeOK, HpChunked

LEMMA ScanStep == BodyInv /\ [hp_chunked_feed]_chunked_vars => BodyInv'
<1> SUFFICES ASSUME BodyInv, [hp_chunked_feed]_chunked_vars PROVE BodyInv'
  OBVIOUS
<1> USE DEF BodyInv
<1>0. CH_MAX_LINE \in Nat /\ 0 \in 0..UMax
  BY ChunkedAssumption
<1>1. CASE UNCHANGED chunked_vars
  BY <1>1 DEF chunked_vars, TypeOK, LineBounded, InSize
<1>2. CASE Feed
  <2>1. upto' \in 0..Len(wire) /\ i \in 0..upto'
    BY <1>2, ChunkedAssumption DEF Feed, TypeOK
  <2> QED
    BY <1>2, <2>1 DEF Feed, TypeOK, LineBounded, InSize
<1>3. CASE SizeEnds
  <2>1. TypeOK'
    BY <1>3, <1>0, Consumed DEF SizeEnds, TypeOK, HpChunked, States
  <2> QED
    BY <1>3, <2>1 DEF SizeEnds, TypeOK, LineBounded, InSize
<1>4. CASE SizeCr
  BY <1>4, Consumed DEF SizeCr, TypeOK, HpChunked, LineBounded, InSize
<1>5. CASE SizeTooLong
  <2>1. TypeOK'
    <3>1. Consume /\ ch' \in HpChunked
      BY <1>5, CountedType DEF SizeTooLong, SizeByte, HpChunked
    <3> QED
      BY <3>1, Consumed
  <2>2. ch.line_len <= CH_MAX_LINE
    BY <1>5, <1>0 DEF SizeTooLong, SizeByte, Consume, Going, LineBounded, TypeOK
  <2> QED
    BY <1>5, <1>0, <2>1, <2>2 DEF SizeTooLong, SizeByte, Counted, TypeOK, LineBounded, InSize
<1>6. CASE Extension \/ ExtensionBegins
  <2>1. TypeOK'
    <3>1. Consume /\ ch' \in HpChunked
      BY <1>6, CountedType DEF Extension, ExtensionBegins, SizeByte, HpChunked, States
    <3> QED
      BY <3>1, Consumed
  <2>2. /\ ch'.line_len = ch.line_len + 1 /\ ch'.line_len <= CH_MAX_LINE
        /\ ch'.state \in {"CH_SIZE_EXT"}
    BY <1>6, CountedType DEF Extension, ExtensionBegins, SizeByte, TypeOK
  <2> QED
    BY <1>0, <2>1, <2>2 DEF TypeOK, LineBounded, InSize
<1>7. CASE SizeBad
  <2>1. TypeOK'
    <3>1. Consume /\ ch' \in HpChunked
      BY <1>7, CountedType DEF SizeBad, SizeByte, HpChunked
    <3> QED
      BY <3>1, Consumed
  <2> QED
    BY <1>7, <1>0, <2>1 DEF SizeBad, SizeByte, Counted, TypeOK, LineBounded, InSize
<1>8. CASE SizeDigit
  <2>1. Byte \in Digits /\ ch.remaining * 16 + Byte \in 0..UMax
    <3>1. ch.remaining \in 0..UMax /\ Byte \in Digits /\ ~Overflows(Byte)
      BY <1>8 DEF SizeDigit, TypeOK
    <3>2. ch.remaining * 16 + Byte <= UMax
      BY <3>1, DigitFits, ChunkedAssumption DEF Overflows, Digits
    <3> QED
      BY <3>1, <3>2, ChunkedAssumption DEF Digits
  <2>2. TypeOK'
    <3>1. Consume /\ ch' = [Counted EXCEPT !.remaining = ch.remaining * 16 + Byte]
      BY <1>8, CountedType DEF SizeDigit, SizeByte, Counted, TypeOK
    <3>2. ch' \in HpChunked
      BY <2>1, <3>1, CountedType DEF HpChunked
    <3> QED
      BY <3>1, <3>2, Consumed
  <2> QED
    BY <1>8, <1>0, <2>1, <2>2 DEF SizeDigit, SizeByte, Counted, TypeOK, LineBounded, InSize
<1>9. CASE Data
  <2> DEFINE avail == upto - i
             take  == IF avail < ch.remaining THEN avail ELSE ch.remaining
  <2>1. take \in Nat /\ i + take \in 0..upto /\ ch.remaining - take \in 0..UMax
        /\ (take = ch.remaining => ch.remaining - take = 0)
    BY <1>9, ChunkedAssumption DEF Data, TypeOK
  <2>2. /\ i' = i + take /\ UNCHANGED <<wire, upto>> /\ ch.state = "CH_DATA"
        /\ ch' = [ch EXCEPT !.remaining = ch.remaining - take,
                            !.state = IF take = ch.remaining THEN "CH_DATA_CRLF" ELSE ch.state]
    BY <1>9 DEF Data
  <2> HIDE DEF take
  <2>3. TypeOK'
    BY <2>1, <2>2 DEF TypeOK, States
  <2> QED
    BY <2>1, <2>2, <2>3 DEF TypeOK, LineBounded, InSize
<1>10. CASE DataCrlf
  <2>1. TypeOK'
    BY <1>10, Consumed DEF DataCrlf, TypeOK, HpChunked, States
  <2> QED
    BY <1>10, <1>0, <2>1 DEF DataCrlf, TypeOK, LineBounded, InSize
<1>11. CASE Trailer
  <2>1. TypeOK'
    <3>1. Consume /\ ch' \in {[ch EXCEPT !.state = "CH_END", !.done = TRUE],
                              [ch EXCEPT !.line_len = 0], Counted, ch}
      BY <1>11 DEF Trailer, Counted, TypeOK
    <3>2. [ch EXCEPT !.state = "CH_END", !.done = TRUE] \in HpChunked
          /\ [ch EXCEPT !.line_len = 0] \in HpChunked /\ ch \in HpChunked
      BY DEF TypeOK, HpChunked, States
    <3>3. ch' \in HpChunked
      BY <3>1, <3>2, CountedType
    <3> QED
      BY <3>1, <3>3, Consumed
  <2> QED
    BY <1>11, <2>1 DEF Trailer, TypeOK, LineBounded, InSize
<1> QED
  BY <1>1, <1>2, <1>3, <1>4, <1>5, <1>6, <1>7, <1>8, <1>9, <1>10, <1>11 DEF hp_chunked_feed, Scan

(***************************************************************************)
(* remaining never wraps, whatever digits come, and the scanner never goes *)
(* past the bytes it was given.                                             *)
(***************************************************************************)
THEOREM NeverWraps == ChunkedSpec => []TypeOK
<1>1. BodyInv => TypeOK
  BY DEF BodyInv
<1> QED
  BY <1>1, ScanInit, ScanStep, PTL DEF ChunkedSpec

\* No size line is read past its limit, and none begins with what is left of
\* another chunk.
THEOREM SizeLinesBounded == ChunkedSpec => []LineBounded
<1>1. BodyInv => LineBounded
  BY DEF BodyInv
<1> QED
  BY <1>1, ScanInit, ScanStep, PTL DEF ChunkedSpec

----------------------------------------------------------------------------
(* Chunked bodies: where their parts lie.  What is defined by recursion on *)
(* a length, unfolded.                                                     *)

\* What holds at 0 and is kept from each place to the next holds everywhere.
LEMMA EachPlace ==
  ASSUME NEW m \in Nat, NEW G, 0 \in G, \A h \in 1..m : h - 1 \in G => h \in G
  PROVE  \A h \in 0..m : h \in G
<1> DEFINE Missing == {h \in 0..m : h \notin G}
<1> SUFFICES ASSUME Missing # {} PROVE FALSE
  OBVIOUS
<1>1. PICK h \in Missing : \A j \in Missing : h <= j
  <2>1. Missing \subseteq Nat
    OBVIOUS
  <2> HIDE DEF Missing
  <2> QED
    BY <2>1, LeastNat
<1>2. h \in 1..m /\ h - 1 \in 0..m
  BY <1>1
<1>3. h - 1 \notin Missing
  BY <1>1, <1>2
<1> QED
  BY <1>1, <1>2, <1>3

\* A start and a step determine a function on 0..m.
Iterates(f, m, S, start, step) ==
  /\ f \in [0..m -> S] /\ f[0] = start
  /\ \A h \in 1..m : f[h] = step[<<f[h - 1], h>>]

LEMMA IterationExists ==
  ASSUME NEW n \in Nat, NEW S, NEW start \in S, NEW step \in [S \X (1..n) -> S]
  PROVE  \E f : Iterates(f, n, S, start, step)
<1> DEFINE G == {m \in 0..n : \E f : Iterates(f, m, S, start, step)}
<1>1. 0 \in G
  <2>1. Iterates([h \in 0..0 |-> start], 0, S, start, step)
    BY DEF Iterates
  <2> QED
    BY <2>1
<1>2. ASSUME NEW m \in 1..n, m - 1 \in G PROVE m \in G
  <2>1. PICK f : Iterates(f, m - 1, S, start, step)
    BY <1>2
  <2> DEFINE g == [h \in 0..m |-> IF h < m THEN f[h] ELSE step[<<f[m - 1], m>>]]
  <2>2. f[m - 1] \in S /\ step[<<f[m - 1], m>>] \in S
    BY <2>1 DEF Iterates
  <2>3. g \in [0..m -> S] /\ g[0] = start
    BY <2>1, <2>2 DEF Iterates
  <2>4. ASSUME NEW h \in 1..m PROVE g[h] = step[<<g[h - 1], h>>]
    <3>1. CASE h \in 1..(m - 1)
      BY <3>1, <2>1 DEF Iterates
    <3>2. CASE h = m
      <4>1. g[m] = step[<<f[m - 1], m>>]
        OBVIOUS
      <4>2. g[m - 1] = f[m - 1]
        OBVIOUS
      <4> HIDE DEF g
      <4> QED
        BY <3>2, <4>1, <4>2
    <3> QED
      BY <3>1, <3>2
  <2> HIDE DEF g
  <2>5. Iterates(g, m, S, start, step)
    BY <2>3, <2>4 DEF Iterates
  <2> QED
    BY <2>5
<1>3. \A m \in 0..n : m \in G
  <2> HIDE DEF G
  <2> QED
    BY <1>1, <1>2, EachPlace
<1> QED
  BY <1>3

LEMMA ValueSteps ==
  ASSUME NEW size \in Seq(Bytes)
  PROVE  /\ Value(size, 0) = 0
         /\ \A h \in 0..Len(size) : Value(size, h) \in Nat
         /\ \A h \in 1..Len(size) : Value(size, h) = Value(size, h - 1) * 16 + size[h]
<1> DEFINE n     == Len(size)
           Is(v) == v = [h \in 0..n |-> IF h = 0 THEN 0 ELSE v[h - 1] * 16 + size[h]]
           value == CHOOSE v : Is(v)
           step  == [p \in Nat \X (1..n) |-> p[1] * 16 + size[p[2]]]
<1>1. n \in Nat /\ \A h \in 1..n : size[h] \in Nat
  BY DEF Bytes
<1>2. \A h : Value(size, h) = value[h]
  BY DEF Value
<1>3. step \in [Nat \X (1..n) -> Nat]
  BY <1>1
<1>4. PICK f : Iterates(f, n, Nat, 0, step)
  <2> HIDE DEF n, step
  <2> QED
    BY <1>1, <1>3, IterationExists
<1>5. /\ f \in [0..n -> Nat] /\ f[0] = 0
      /\ \A h \in 1..n : f[h] = f[h - 1] * 16 + size[h]
  <2>1. \A u \in Nat, h \in 1..n : step[<<u, h>>] = u * 16 + size[h]
    OBVIOUS
  <2> HIDE DEF n, step
  <2>2. f \in [0..n -> Nat] /\ f[0] = 0 /\ \A h \in 1..n : f[h] = step[<<f[h - 1], h>>]
    BY <1>4 DEF Iterates
  <2>3. \A h \in 1..n : f[h - 1] \in Nat
    BY <1>1, <2>2
  <2> QED
    BY <2>1, <2>2, <2>3
<1> HIDE DEF n, step
<1>6. Is(f)
  <2>1. \A h \in 0..n : f[h] = IF h = 0 THEN 0 ELSE f[h - 1] * 16 + size[h]
    BY <1>1, <1>5
  <2>2. f = [h \in 0..n |-> f[h]]
    BY <1>5
  <2> QED
    BY <2>1, <2>2
<1>7. Is(value)
  <2> HIDE DEF Is
  <2> QED
    BY <1>6
<1> HIDE DEF value
<1>8. \A h \in 0..n : value[h] = IF h = 0 THEN 0 ELSE value[h - 1] * 16 + size[h]
  BY <1>7
<1>9. \A h \in 0..n : value[h] \in Nat
  <2> DEFINE G == {h \in 0..n : value[h] \in Nat}
  <2>1. 0 \in G
    BY <1>1, <1>8
  <2>2. \A h \in 1..n : h - 1 \in G => h \in G
    BY <1>1, <1>8
  <2>3. \A h \in 0..n : h \in G
    <3> HIDE DEF G
    <3> QED
      BY <1>1, <2>1, <2>2, EachPlace
  <2> QED
    BY <2>3
<1>10. 0 \in 0..n /\ \A h \in 1..n : h \in 0..n /\ h # 0
  BY <1>1
<1>11. /\ value[0] = 0
       /\ \A h \in 1..n : value[h] = value[h - 1] * 16 + size[h]
  BY <1>8, <1>10, Zenon
<1> QED
  BY <1>2, <1>9, <1>11, Zenon DEF n

LEMMA JoinedSteps ==
  ASSUME NEW S, NEW parts \in Seq(Seq(S))
  PROVE  /\ Joined(parts, 0) = <<>>
         /\ \A h \in 0..Len(parts) : Joined(parts, h) \in Seq(S)
         /\ \A h \in 1..Len(parts) : Joined(parts, h) = Joined(parts, h - 1) \o parts[h]
<1> DEFINE n      == Len(parts)
           Is(v)  == v = [h \in 0..n |-> IF h = 0 THEN <<>> ELSE v[h - 1] \o parts[h]]
           joined == CHOOSE v : Is(v)
           step   == [p \in Seq(S) \X (1..n) |-> p[1] \o parts[p[2]]]
<1>1. n \in Nat /\ <<>> \in Seq(S) /\ \A h \in 1..n : parts[h] \in Seq(S)
  OBVIOUS
<1>2. \A h : Joined(parts, h) = joined[h]
  BY DEF Joined
<1>3. step \in [Seq(S) \X (1..n) -> Seq(S)]
  BY <1>1, ConcatProperties
<1>4. PICK f : Iterates(f, n, Seq(S), <<>>, step)
  <2> HIDE DEF n, step
  <2> QED
    BY <1>1, <1>3, IterationExists
<1>5. /\ f \in [0..n -> Seq(S)] /\ f[0] = <<>>
      /\ \A h \in 1..n : f[h] = f[h - 1] \o parts[h]
  <2>1. \A u \in Seq(S), h \in 1..n : step[<<u, h>>] = u \o parts[h]
    BY Zenon
  <2> HIDE DEF n, step
  <2>2. f \in [0..n -> Seq(S)] /\ f[0] = <<>> /\ \A h \in 1..n : f[h] = step[<<f[h - 1], h>>]
    BY <1>4 DEF Iterates
  <2>3. \A h \in 1..n : f[h - 1] \in Seq(S)
    <3>1. \A h \in 1..n : h - 1 \in 0..n
      BY <1>1
    <3> QED
      BY <2>2, <3>1
  <2> QED
    BY <2>1, <2>2, <2>3, Zenon
<1> HIDE DEF n, step
<1>6. 0 \in 0..n /\ \A h \in 1..n : h \in 0..n /\ h # 0
  BY <1>1
<1>7. \A h \in 0..n : h = 0 \/ h \in 1..n
  BY <1>1
<1>8. Is(f)
  <2>1. \A h \in 0..n : f[h] = IF h = 0 THEN <<>> ELSE f[h - 1] \o parts[h]
    BY <1>7, <1>5, Zenon
  <2>2. f = [h \in 0..n |-> f[h]]
    BY <1>5
  <2> QED
    BY <2>1, <2>2
<1>9. Is(joined)
  <2> HIDE DEF Is
  <2> QED
    BY <1>8
<1> HIDE DEF joined
<1>10. \A h \in 0..n : joined[h] = IF h = 0 THEN <<>> ELSE joined[h - 1] \o parts[h]
  BY <1>9
<1>11. /\ joined[0] = <<>>
       /\ \A h \in 1..n : joined[h] = joined[h - 1] \o parts[h]
  BY <1>10, <1>6, Zenon
<1>12. \A h \in 0..n : joined[h] \in Seq(S)
  <2> DEFINE G == {h \in 0..n : joined[h] \in Seq(S)}
  <2>1. 0 \in G
    BY <1>1, <1>6, <1>11, Zenon
  <2>2. \A u, v \in Seq(S) : u \o v \in Seq(S)
    BY ConcatProperties, Zenon
  <2>3. \A h \in 1..n : h - 1 \in G => h \in G
    BY <1>1, <1>6, <1>11, <2>2, Zenon
  <2>4. \A h \in 0..n : h \in G
    <3> HIDE DEF G
    <3> QED
      BY <1>1, <2>1, <2>3, EachPlace
  <2> QED
    BY <2>4
<1> QED
  BY <1>2, <1>12, <1>11, Zenon DEF n

----------------------------------------------------------------------------
(* One sequence within another.                                            *)

Within(w, p, s) ==
  /\ s \in Nat /\ s + Len(p) <= Len(w)
  /\ \A j \in 1..Len(p) : w[s + j] = p[j]

LEMMA WithinParts ==
  ASSUME NEW S, NEW w \in Seq(S), NEW p \in Seq(S), NEW q \in Seq(S), NEW s, Within(w, p \o q, s)
  PROVE  Within(w, p, s) /\ Within(w, q, s + Len(p))
<1>1. /\ s \in Nat /\ Len(p) \in Nat /\ Len(q) \in Nat /\ Len(w) \in Nat
      /\ Len(p \o q) = Len(p) + Len(q)
  BY DEF Within
<1>2. s + (Len(p) + Len(q)) <= Len(w) /\ \A j \in 1..(Len(p) + Len(q)) : w[s + j] = (p \o q)[j]
  BY <1>1 DEF Within
<1>3. \A j \in 1..Len(p) : (p \o q)[j] = p[j]
  OBVIOUS
<1>4. \A j \in 1..Len(q) : (p \o q)[Len(p) + j] = q[j]
  OBVIOUS
<1>5. \A j \in 1..Len(p) : w[s + j] = p[j]
  BY <1>1, <1>2, <1>3
<1>6. \A j \in 1..Len(q) : w[(s + Len(p)) + j] = q[j]
  <2> TAKE j \in 1..Len(q)
  <2>1. Len(p) + j \in 1..(Len(p) + Len(q))
    BY <1>1
  <2>2. w[s + (Len(p) + j)] = (p \o q)[Len(p) + j]
    BY <1>2, <2>1
  <2>3. s + (Len(p) + j) = (s + Len(p)) + j
    BY <1>1
  <2> QED
    BY <1>4, <2>2, <2>3
<1> QED
  BY <1>1, <1>2, <1>5, <1>6 DEF Within

\* A sequence is within what it begins.
LEMMA WithinSelf ==
  ASSUME NEW S, NEW p \in Seq(S), NEW q \in Seq(S)
  PROVE  Within(p, p, 0) /\ Within(p \o q, p, 0)
BY DEF Within

LEMMA WithinLonger ==
  ASSUME NEW S, NEW w \in Seq(S), NEW q \in Seq(S), NEW p \in Seq(S), NEW s, Within(w, p, s)
  PROVE  Within(w \o q, p, s)
<1>1. s \in Nat /\ Len(p) \in Nat /\ Len(w) \in Nat /\ Len(w \o q) = Len(w) + Len(q) /\ Len(q) \in Nat
  BY DEF Within
<1>2. \A j \in 1..Len(p) : s + j \in 1..Len(w)
  BY <1>1 DEF Within
<1>3. \A j \in 1..Len(w) : (w \o q)[j] = w[j]
  OBVIOUS
<1> QED
  BY <1>1, <1>2, <1>3 DEF Within

LEMMA JoinedWithin ==
  ASSUME NEW S, NEW parts \in Seq(Seq(S)), NEW w \in Seq(S), NEW s, NEW n \in 0..Len(parts),
         Within(w, Joined(parts, n), s), NEW h \in 1..n
  PROVE  Within(w, parts[h], s + Len(Joined(parts, h - 1)))
<1>1. Len(parts) \in Nat /\ n \in Nat
  OBVIOUS
<1>2. /\ \A m \in 0..Len(parts) : Joined(parts, m) \in Seq(S)
      /\ \A m \in 1..Len(parts) : Joined(parts, m) = Joined(parts, m - 1) \o parts[m]
      /\ \A m \in 1..Len(parts) : parts[m] \in Seq(S)
  <2>1. \A m \in 1..Len(parts) : parts[m] \in Seq(S)
    OBVIOUS
  <2> QED
    BY <2>1, JoinedSteps, Zenon
<1> DEFINE G == {m \in 0..n : Within(w, Joined(parts, n - m), s)}
<1>3. 0 \in G
  OBVIOUS
<1>4. ASSUME NEW m \in 1..n, m - 1 \in G PROVE m \in G
  <2>1. n - (m - 1) \in 1..Len(parts) /\ (n - (m - 1)) - 1 = n - m /\ n - m \in 0..Len(parts)
    BY <1>1
  <2>2. Joined(parts, n - (m - 1)) = Joined(parts, n - m) \o parts[n - (m - 1)]
    BY <2>1, <1>2, Zenon
  <2>3. Joined(parts, n - m) \in Seq(S) /\ parts[n - (m - 1)] \in Seq(S)
    BY <2>1, <1>2, Zenon
  <2>4. Within(w, Joined(parts, n - m) \o parts[n - (m - 1)], s)
    BY <1>4, <2>2
  <2>5. Within(w, Joined(parts, n - m), s)
    BY <2>3, <2>4, WithinParts
  <2> QED
    BY <2>5
<1>5. \A m \in 0..n : m \in G
  <2> HIDE DEF G
  <2> QED
    BY <1>1, <1>3, <1>4, EachPlace
<1>6. n - h \in 0..n /\ n - (n - h) = h /\ h \in 1..Len(parts) /\ h - 1 \in 0..Len(parts)
  BY <1>1
<1>7. Within(w, Joined(parts, h), s)
  BY <1>5, <1>6
<1>8. Joined(parts, h) = Joined(parts, h - 1) \o parts[h]
      /\ Joined(parts, h - 1) \in Seq(S) /\ parts[h] \in Seq(S)
  BY <1>6, <1>2, Zenon
<1>9. Within(w, Joined(parts, h - 1) \o parts[h], s)
  BY <1>7, <1>8
<1> QED
  BY <1>8, <1>9, WithinParts

----------------------------------------------------------------------------
(* Chunked bodies: where the bytes of one of Bodies lie.                   *)

\* Where chunk h begins, and where the last line does after all of them.
ChunkAt(b, h) == Len(Joined(Sent(b), h - 1))

\* Where line h of the trailer begins, and where the empty line does.
TrailerAt(b, h) ==
  ChunkAt(b, Len(b.chunks) + 1) + Len(Terminated(SizeLine(b.last)))
    + Len(Joined(Trailing(b), h - 1))

\* The lines that follow the chunks, the one that ends the body among them.
TrailerLine(b, h) == IF h <= Len(b.trailer) THEN b.trailer[h] ELSE <<>>

Body == [chunks : Seq(Chunk), last : LastLine,
         trailer : Seq(Seq(LineBytes) \ {<<>>}), after : Seq(Bytes)]

LEMMA LineTyped ==
  ASSUME NEW c \in Chunk \cup LastLine
  PROVE  /\ c.size \in Seq(Bytes) /\ c.ext \in Seq(Bytes) /\ SizeLine(c) \in Seq(Bytes)
         /\ SizeLine(c) \in Seq(LineBytes)
         /\ \A j \in 1..Len(c.size) : c.size[j] \in Digits \cup {Other}
         /\ Terminated(SizeLine(c)) \in Seq(Bytes)
         /\ Len(Terminated(SizeLine(c))) = Len(SizeLine(c)) + 2
<1> USE DEF Bytes, LineBytes, Digits, CR, LF, Semicolon, Other
<1>1. LineBytes \subseteq Bytes /\ LineBytes \ {Semicolon} \subseteq LineBytes
  OBVIOUS
<1>2. c.size \in Seq(LineBytes \ {Semicolon}) /\ c.ext \in Seq(LineBytes)
  BY DEF Chunk, LastLine
<1>3. \A s \in Seq(LineBytes) : s \in Seq(Bytes)
  BY <1>1, SeqMonotone
<1>4. c.size \in Seq(LineBytes)
  BY <1>1, <1>2, SeqMonotone
<1>5. SizeLine(c) \in Seq(LineBytes)
  <2>1. <<>> \in Seq(LineBytes) /\ <<Semicolon>> \in Seq(LineBytes)
    OBVIOUS
  <2> HIDE DEF Bytes, LineBytes, Digits, CR, LF, Semicolon, Other
  <2>2. <<Semicolon>> \o c.ext \in Seq(LineBytes)
    BY <1>2, <2>1, ConcatProperties
  <2> DEFINE e == IF c.ext = <<>> THEN <<>> ELSE <<Semicolon>> \o c.ext
  <2>3. e \in Seq(LineBytes)
    BY <2>1, <2>2
  <2>4. SizeLine(c) = c.size \o e
    BY DEF SizeLine
  <2> HIDE DEF e
  <2> QED
    BY <1>4, <2>3, <2>4, ConcatProperties
<1>6. \A j \in 1..Len(c.size) : c.size[j] \in LineBytes \ {Semicolon}
  BY <1>2
<1>7. <<CR, LF>> \in Seq(Bytes) /\ Len(<<CR, LF>>) = 2
  OBVIOUS
<1> HIDE DEF Bytes, LineBytes, Digits, CR, LF, Semicolon, Other
<1>8. \A j \in 1..Len(c.size) : c.size[j] \in Digits \cup {Other}
  BY <1>6 DEF LineBytes, Bytes, Digits, Other, CR, LF, Semicolon
<1>9. SizeLine(c) \in Seq(Bytes)
  BY <1>3, <1>5
<1>10. /\ Terminated(SizeLine(c)) \in Seq(Bytes)
       /\ Len(Terminated(SizeLine(c))) = Len(SizeLine(c)) + 2
  BY <1>7, <1>9, ConcatProperties DEF Terminated
<1> QED
  BY <1>2, <1>3, <1>4, <1>5, <1>8, <1>9, <1>10

\* A line that ends, and where.
LEMMA TerminatedTyped ==
  ASSUME NEW s \in Seq(Bytes)
  PROVE  /\ Terminated(s) \in Seq(Bytes) /\ Len(Terminated(s)) = Len(s) + 2
         /\ \A j \in 1..Len(s) : Terminated(s)[j] = s[j]
         /\ Terminated(s)[Len(s) + 1] = CR /\ Terminated(s)[Len(s) + 2] = LF
<1>1. <<CR, LF>> \in Seq(Bytes)
  BY DEF Bytes, CR, LF
<1> QED
  BY <1>1 DEF Terminated

LEMMA BodyTyped ==
  ASSUME NEW b \in Body
  PROVE  /\ Sent(b) \in Seq(Seq(Bytes)) /\ Len(Sent(b)) = Len(b.chunks)
         /\ Trailing(b) \in Seq(Seq(Bytes)) /\ Len(Trailing(b)) = Len(b.trailer)
         /\ Len(b.chunks) \in Nat /\ Len(b.trailer) \in Nat
         /\ \A h \in 1..Len(b.chunks) :
              b.chunks[h] \in Chunk /\ Sent(b)[h] = ChunkBytes(b.chunks[h])
         /\ \A h \in 1..Len(b.trailer) :
              /\ b.trailer[h] \in Seq(LineBytes) /\ b.trailer[h] # <<>>
              /\ Trailing(b)[h] = Terminated(b.trailer[h])
<1>1. b.chunks \in Seq(Chunk) /\ b.trailer \in Seq(Seq(LineBytes) \ {<<>>})
  BY DEF Body
<1>2. /\ Len(b.chunks) \in Nat /\ DOMAIN b.chunks = 1..Len(b.chunks)
      /\ \A h \in 1..Len(b.chunks) : b.chunks[h] \in Chunk
  BY <1>1
<1>3. /\ Len(b.trailer) \in Nat /\ DOMAIN b.trailer = 1..Len(b.trailer)
      /\ \A h \in 1..Len(b.trailer) : b.trailer[h] \in Seq(LineBytes) /\ b.trailer[h] # <<>>
  BY <1>1
<1>4. LineBytes \subseteq Bytes
  BY DEF LineBytes
<1>5. \A h \in 1..Len(b.chunks) : ChunkBytes(b.chunks[h]) \in Seq(Bytes)
  <2> TAKE h \in 1..Len(b.chunks)
  <2> DEFINE c == b.chunks[h]
  <2>1. c \in Chunk
    BY <1>2
  <2> HIDE DEF c
  <2>2. c.data \in Seq(Bytes) /\ Terminated(SizeLine(c)) \in Seq(Bytes)
    BY <2>1, LineTyped DEF Chunk
  <2>3. Terminated(c.data) \in Seq(Bytes)
    BY <2>2, TerminatedTyped
  <2>4. ChunkBytes(c) \in Seq(Bytes)
    BY <2>2, <2>3, ConcatProperties DEF ChunkBytes
  <2> QED
    BY <2>4 DEF c
<1>6. \A h \in 1..Len(b.trailer) : Terminated(b.trailer[h]) \in Seq(Bytes)
  BY <1>3, <1>4, SeqMonotone, TerminatedTyped
<1>7. Sent(b) = [h \in 1..Len(b.chunks) |-> ChunkBytes(b.chunks[h])]
  BY <1>2 DEF Sent
<1>8. Trailing(b) = [h \in 1..Len(b.trailer) |-> Terminated(b.trailer[h])]
  BY <1>3 DEF Trailing
<1>9. Sent(b) \in Seq(Seq(Bytes)) /\ Len(Sent(b)) = Len(b.chunks)
  BY <1>2, <1>5, <1>7
<1>10. Trailing(b) \in Seq(Seq(Bytes)) /\ Len(Trailing(b)) = Len(b.trailer)
  BY <1>3, <1>6, <1>8
<1> QED
  BY <1>2, <1>3, <1>7, <1>8, <1>9, <1>10

\* The parts of the encoding, each behind the one before.
LEMMA Layout ==
  ASSUME NEW b \in Body
  PROVE  /\ Encoding(b) \in Seq(Bytes)
         /\ Within(Encoding(b), Joined(Sent(b), Len(b.chunks)), 0)
         /\ Within(Encoding(b), Terminated(SizeLine(b.last)), ChunkAt(b, Len(b.chunks) + 1))
         /\ Within(Encoding(b), Joined(Trailing(b), Len(b.trailer)), TrailerAt(b, 1))
         /\ Within(Encoding(b), <<CR, LF>>, TrailerAt(b, Len(b.trailer) + 1))
         /\ Len(Encoding(b)) = TrailerAt(b, Len(b.trailer) + 1) + 2
<1> DEFINE A == Joined(Sent(b), Len(b.chunks))
           L == Terminated(SizeLine(b.last))
           T == Joined(Trailing(b), Len(b.trailer))
           E == <<CR, LF>>
<1>1. /\ Len(b.chunks) \in 0..Len(Sent(b)) /\ Sent(b) \in Seq(Seq(Bytes))
      /\ Len(b.trailer) \in 0..Len(Trailing(b)) /\ Trailing(b) \in Seq(Seq(Bytes))
  BY BodyTyped
<1>2. A \in Seq(Bytes)
  BY <1>1, JoinedSteps, Zenon
<1>3. L \in Seq(Bytes)
  BY LineTyped DEF Body
<1>4. T \in Seq(Bytes) /\ Joined(Trailing(b), 0) = <<>>
  BY <1>1, JoinedSteps, Zenon
<1>5. E \in Seq(Bytes) /\ Len(E) = 2
  BY DEF Bytes, CR, LF
<1>6. /\ ChunkAt(b, Len(b.chunks) + 1) = Len(A)
      /\ TrailerAt(b, 1) = Len(A) + Len(L) + 0
      /\ TrailerAt(b, Len(b.trailer) + 1) = Len(A) + Len(L) + Len(T)
  <2>1. /\ (Len(b.chunks) + 1) - 1 = Len(b.chunks) /\ 1 - 1 = 0
        /\ (Len(b.trailer) + 1) - 1 = Len(b.trailer)
    BY BodyTyped
  <2> QED
    BY <2>1, <1>4 DEF ChunkAt, TrailerAt
<1>7. Encoding(b) = ((A \o L) \o T) \o E
  BY DEF Encoding
<1> HIDE DEF A, L, T, E
<1>8. A \o L \in Seq(Bytes) /\ (A \o L) \o T \in Seq(Bytes) /\ ((A \o L) \o T) \o E \in Seq(Bytes)
  BY <1>2, <1>3, <1>4, <1>5, ConcatProperties
<1>9. /\ Len(A \o L) = Len(A) + Len(L) /\ Len((A \o L) \o T) = Len(A) + Len(L) + Len(T)
      /\ Len(((A \o L) \o T) \o E) = Len(A) + Len(L) + Len(T) + 2
      /\ Len(A) \in Nat /\ Len(L) \in Nat /\ Len(T) \in Nat
  <2>1. Len(A \o L) = Len(A) + Len(L) /\ Len(A) \in Nat /\ Len(L) \in Nat /\ Len(T) \in Nat
    BY <1>2, <1>3, <1>4, ConcatProperties
  <2>2. Len((A \o L) \o T) = Len(A \o L) + Len(T)
    BY <1>4, <1>8, ConcatProperties
  <2>3. Len(((A \o L) \o T) \o E) = Len((A \o L) \o T) + Len(E)
    BY <1>5, <1>8, ConcatProperties
  <2> QED
    BY <1>5, <2>1, <2>2, <2>3
<1> DEFINE w == Encoding(b)
<1>10. w \in Seq(Bytes) /\ Len(w) = Len(A) + Len(L) + Len(T) + 2
  BY <1>7, <1>8, <1>9
<1>11. Within(w, ((A \o L) \o T) \o E, 0)
  BY <1>7, <1>8, WithinSelf
<1> HIDE DEF w
<1>12. Within(w, (A \o L) \o T, 0) /\ Within(w, E, 0 + Len((A \o L) \o T))
  BY <1>5, <1>8, <1>10, <1>11, WithinParts
<1>13. Within(w, A \o L, 0) /\ Within(w, T, 0 + Len(A \o L))
  BY <1>4, <1>8, <1>10, <1>12, WithinParts
<1>14. Within(w, A, 0) /\ Within(w, L, 0 + Len(A))
  BY <1>2, <1>3, <1>10, <1>13, WithinParts
<1>15. /\ 0 + Len(A) = Len(A) /\ 0 + Len(A \o L) = Len(A) + Len(L) + 0
       /\ 0 + Len((A \o L) \o T) = Len(A) + Len(L) + Len(T)
  BY <1>9
<1> QED
  BY <1>6, <1>9, <1>10, <1>12, <1>13, <1>14, <1>15 DEF w, A, L, T, E

----------------------------------------------------------------------------
(* Chunked bodies: what the scanner has made of part of a body.            *)

\* A byte of a size line at which the scanner has to refuse it.
Fault(c, p) ==
  \/ p > CH_MAX_LINE
  \/ p <= Len(c.size) /\ (c.size[p] \notin Digits \/ Value(c.size, p) > UMax)

LEMMA ValueGrows ==
  ASSUME NEW size \in Seq(Bytes), NEW p \in 0..Len(size)
  PROVE  Value(size, p) <= Number(size) /\ Number(size) \in Nat
<1> DEFINE n == Len(size)
           G == {m \in 0..n : Value(size, n - m) <= Value(size, n)}
<1>1. n \in Nat
  OBVIOUS
<1>2. /\ \A h \in 0..n : Value(size, h) \in Nat
      /\ \A h \in 1..n : Value(size, h) = Value(size, h - 1) * 16 + size[h]
      /\ \A h \in 1..n : size[h] \in Nat
  <2>1. \A h \in 1..n : size[h] \in Nat
    BY DEF Bytes
  <2> QED
    BY <2>1, ValueSteps
<1> HIDE DEF n
<1>3. 0 \in G
  BY <1>1, <1>2
<1>4. ASSUME NEW m \in 1..n, m - 1 \in G PROVE m \in G
  <2>1. n - (m - 1) \in 1..n /\ (n - (m - 1)) - 1 = n - m /\ n - m \in 0..n /\ n \in 0..n
    BY <1>1
  <2>2. Value(size, n - (m - 1)) = Value(size, n - m) * 16 + size[n - (m - 1)]
    BY <1>2, <2>1
  <2>3. Value(size, n - m) \in Nat /\ size[n - (m - 1)] \in Nat /\ Value(size, n) \in Nat
    BY <1>2, <2>1
  <2>4. Value(size, n - (m - 1)) <= Value(size, n)
    BY <1>4
  <2>5. Value(size, n - m) <= Value(size, n)
    BY <2>2, <2>3, <2>4
  <2> QED
    BY <2>5
<1>5. \A m \in 0..n : m \in G
  <2> HIDE DEF G
  <2> QED
    BY <1>1, <1>3, <1>4, EachPlace
<1>6. n - p \in 0..n /\ n - (n - p) = p /\ n \in 0..n
  BY <1>1 DEF n
<1>7. Value(size, p) <= Value(size, n)
  BY <1>5, <1>6
<1> QED
  BY <1>2, <1>6, <1>7 DEF Number, n

\* Where the bytes of a size line are.
LEMMA SizeLineBytes ==
  ASSUME NEW c \in Chunk \cup LastLine
  PROVE  /\ Len(c.size) \in Nat /\ Len(SizeLine(c)) \in Nat /\ Len(c.size) <= Len(SizeLine(c))
         /\ \A p \in 1..Len(c.size) : SizeLine(c)[p] = c.size[p]
         /\ Len(c.size) < Len(SizeLine(c)) => SizeLine(c)[Len(c.size) + 1] = Semicolon
         /\ \A p \in 1..Len(SizeLine(c)) : SizeLine(c)[p] \notin {CR, LF}
<1>1. c.size \in Seq(Bytes) /\ c.ext \in Seq(Bytes) /\ SizeLine(c) \in Seq(LineBytes)
  BY LineTyped
<1>2. \A p \in 1..Len(SizeLine(c)) : SizeLine(c)[p] \notin {CR, LF}
  BY <1>1 DEF LineBytes
<1>3. CASE c.ext = <<>>
  <2>1. SizeLine(c) = c.size
    BY <1>1, <1>3 DEF SizeLine
  <2> QED
    BY <1>1, <1>2, <2>1
<1>4. CASE c.ext # <<>>
  <2>1. SizeLine(c) = c.size \o (<<Semicolon>> \o c.ext)
    BY <1>4 DEF SizeLine
  <2> DEFINE e == <<Semicolon>> \o c.ext
  <2>2. e \in Seq(Bytes) /\ e[1] = Semicolon /\ Len(e) = 1 + Len(c.ext) /\ Len(c.ext) \in Nat
    BY <1>1 DEF Bytes, Semicolon
  <2> HIDE DEF e
  <2>3. SizeLine(c) = c.size \o e
    BY <2>1 DEF e
  <2>4. /\ Len(c.size \o e) = Len(c.size) + Len(e)
        /\ \A p \in 1..Len(c.size) : (c.size \o e)[p] = c.size[p]
        /\ (c.size \o e)[Len(c.size) + 1] = e[1]
    <3>1. Len(c.size) \in Nat /\ 1 \in 1..Len(e)
      BY <1>1, <2>2
    <3> DEFINE z == c.size
    <3>2. z \in Seq(Bytes)
      BY <1>1
    <3> HIDE DEF z
    <3>3. /\ Len(z \o e) = Len(z) + Len(e)
          /\ \A p \in 1..Len(z) : (z \o e)[p] = z[p]
          /\ \A p \in 1..Len(e) : (z \o e)[Len(z) + p] = e[p]
      BY <2>2, <3>2
    <3>4. /\ Len(c.size \o e) = Len(c.size) + Len(e)
          /\ \A p \in 1..Len(c.size) : (c.size \o e)[p] = c.size[p]
      BY <3>3 DEF z
    <3>5. \A p \in 1..Len(e) : (c.size \o e)[Len(c.size) + p] = e[p]
      BY <3>3 DEF z
    <3> QED
      BY <3>1, <3>4, <3>5
  <2>5. Len(c.size) \in Nat /\ Len(e) \in Nat
    BY <1>1, <2>2
  <2>6. /\ Len(SizeLine(c)) = Len(c.size) + Len(e)
        /\ \A p \in 1..Len(c.size) : SizeLine(c)[p] = c.size[p]
        /\ SizeLine(c)[Len(c.size) + 1] = Semicolon
    BY <2>2, <2>3, <2>4
  <2> QED
    BY <1>2, <2>5, <2>6
<1> QED
  BY <1>3, <1>4

LEMMA NoFault ==
  ASSUME NEW c \in Chunk \cup LastLine
  PROVE  LineAccepted(c) <=> \A p \in 1..Len(SizeLine(c)) : ~Fault(c, p)
<1>1. CH_MAX_LINE \in Nat /\ UMax \in Nat
  BY ChunkedAssumption
<1>2. /\ Len(c.size) \in Nat /\ Len(SizeLine(c)) \in Nat /\ Len(c.size) <= Len(SizeLine(c))
      /\ c.size \in Seq(Bytes) /\ DOMAIN c.size = 1..Len(c.size)
  BY SizeLineBytes, LineTyped
<1>3. Number(c.size) = Value(c.size, Len(c.size))
  BY DEF Number
<1>4. /\ Value(c.size, 0) = 0 /\ \A p \in 0..Len(c.size) : Value(c.size, p) \in Nat
      /\ \A p \in 0..Len(c.size) : Value(c.size, p) <= Number(c.size)
  BY <1>2, ValueSteps, ValueGrows
<1>5. ASSUME LineAccepted(c), NEW p \in 1..Len(SizeLine(c)) PROVE ~Fault(c, p)
  <2>1. /\ Len(SizeLine(c)) <= CH_MAX_LINE /\ Number(c.size) <= UMax
        /\ \A h \in 1..Len(c.size) : c.size[h] \in Digits
    BY <1>2, <1>5 DEF LineAccepted
  <2>2. ~ (p > CH_MAX_LINE)
    BY <1>1, <1>2, <2>1
  <2>3. ASSUME p <= Len(c.size) PROVE c.size[p] \in Digits /\ ~ (Value(c.size, p) > UMax)
    <3>1. p \in 1..Len(c.size) /\ p \in 0..Len(c.size) /\ Len(c.size) \in 0..Len(c.size)
      BY <1>2, <2>3
    <3>2. Value(c.size, p) \in Nat /\ Value(c.size, p) <= Number(c.size) /\ Number(c.size) \in Nat
      BY <1>3, <1>4, <3>1
    <3> QED
      BY <1>1, <2>1, <3>1, <3>2
  <2> QED
    BY <2>2, <2>3 DEF Fault
<1>6. ASSUME \A p \in 1..Len(SizeLine(c)) : ~Fault(c, p) PROVE LineAccepted(c)
  <2>1. Len(SizeLine(c)) <= CH_MAX_LINE
    <3>1. CASE Len(SizeLine(c)) = 0
      BY <1>1, <3>1
    <3>2. CASE Len(SizeLine(c)) # 0
      <4>1. Len(SizeLine(c)) \in 1..Len(SizeLine(c))
        BY <1>2, <3>2
      <4> QED
        BY <1>1, <1>2, <1>6, <4>1 DEF Fault
    <3> QED
      BY <3>1, <3>2
  <2>2. \A h \in 1..Len(c.size) : c.size[h] \in Digits /\ Value(c.size, h) <= UMax
    <3> TAKE h \in 1..Len(c.size)
    <3>1. h \in 1..Len(SizeLine(c)) /\ h <= Len(c.size) /\ h \in 0..Len(c.size)
      BY <1>2
    <3>2. Value(c.size, h) \in Nat
      BY <1>4, <3>1
    <3> QED
      BY <1>1, <1>6, <3>1, <3>2 DEF Fault
  <2>3. Number(c.size) <= UMax
    <3>1. CASE Len(c.size) = 0
      BY <1>1, <1>3, <1>4, <3>1
    <3>2. CASE Len(c.size) # 0
      <4>1. Len(c.size) \in 1..Len(c.size)
        BY <1>2, <3>2
      <4> QED
        BY <1>3, <2>2, <4>1
    <3> QED
      BY <3>1, <3>2
  <2> QED
    BY <1>2, <2>1, <2>2, <2>3 DEF LineAccepted
<1> QED
  BY <1>5, <1>6

\* The next byte, of a line that lies in the wire.
LEMMA NextByte ==
  ASSUME NEW l \in Seq(Bytes), NEW s, Within(wire, Terminated(l), s),
         NEW t \in 0..(Len(l) + 1), i = s + t
  PROVE  /\ t < Len(l) => Byte = l[t + 1]
         /\ t = Len(l) => Byte = CR
         /\ t = Len(l) + 1 => Byte = LF
<1>1. Len(l) \in Nat /\ s \in Nat /\ t + 1 \in 1..(Len(l) + 2) /\ s + t + 1 = s + (t + 1)
  BY DEF Within
<1>2. wire[s + (t + 1)] = Terminated(l)[t + 1]
  BY <1>1, TerminatedTyped DEF Within
<1>3. Byte = Terminated(l)[t + 1]
  BY <1>1, <1>2 DEF Byte
<1>4. t < Len(l) => t + 1 \in 1..Len(l)
  BY <1>1
<1>5. t = Len(l) + 1 => t + 1 = Len(l) + 2
  BY <1>1
<1> QED
  BY <1>3, <1>4, <1>5, TerminatedTyped

----------------------------------------------------------------------------
(* A size line.                                                            *)

\* t bytes of it have been taken, CR and LF apart.
HasRead(c, t) ==
  /\ Going /\ ch.line_len = t
  /\ IF t <= Len(c.size) THEN ch.state = "CH_SIZE" /\ ch.remaining = Value(c.size, t)
     ELSE ch.state = "CH_SIZE_EXT" /\ ch.remaining = Number(c.size)
  /\ \A p \in 1..t : ~Fault(c, p)

\* The line of c, which begins at s, is being read.
Reading(c, s) ==
  \E t \in 0..Len(SizeLine(c)) :
    HasRead(c, t) /\ (i = s + t \/ (t = Len(SizeLine(c)) /\ i = s + t + 1))

RefusedAt(c, s) ==
  ch.error /\ ~ch.done /\ \E p \in 1..Len(SizeLine(c)) : Fault(c, p) /\ i = s + p

LineRead(c, s) ==
  /\ Going /\ i = s + Len(SizeLine(c)) + 2 /\ LineAccepted(c)
  /\ ch.line_len = 0 /\ ch.remaining = Number(c.size)
  /\ ch.state = IF Number(c.size) = 0 THEN "CH_TRAILER" ELSE "CH_DATA"

LEMMA ReadingByte ==
  ASSUME TypeOK, NEW c \in Chunk \cup LastLine, NEW s \in Nat, NEW t \in 0..(Len(SizeLine(c)) - 1),
         HasRead(c, t), i = s + t, Byte = SizeLine(c)[t + 1], Scan
  PROVE  (HasRead(c, t + 1)' /\ i' = s + (t + 1)) \/ RefusedAt(c, s)'
<1>1. CH_MAX_LINE \in Nat /\ UMax \in Nat
  BY ChunkedAssumption
<1>2. /\ Len(c.size) \in Nat /\ Len(SizeLine(c)) \in Nat /\ Len(c.size) <= Len(SizeLine(c))
      /\ t \in Nat /\ t + 1 \in 1..Len(SizeLine(c)) /\ t + 1 \in Nat
      /\ \A p \in 1..(t + 1) : p \in 1..t \/ p = t + 1
  BY SizeLineBytes
<1>3. Byte \notin {CR, LF}
  BY <1>2, SizeLineBytes
<1>4. t < Len(c.size) => Byte = c.size[t + 1] /\ Byte \in Digits \cup {Other}
  <2>1. t < Len(c.size) => t + 1 \in 1..Len(c.size)
    BY <1>2
  <2> QED
    BY <2>1, SizeLineBytes, LineTyped
<1>5. t = Len(c.size) => Byte = Semicolon
  BY <1>2, SizeLineBytes
<1>6. /\ t < Len(c.size) => /\ Value(c.size, t + 1) = Value(c.size, t) * 16 + Byte
                            /\ Value(c.size, t) \in Nat /\ Value(c.size, t + 1) \in Nat
      /\ Value(c.size, Len(c.size)) = Number(c.size)
  <2>1. t < Len(c.size) => t + 1 \in 1..Len(c.size) /\ (t + 1) - 1 = t /\ t \in 0..Len(c.size)
                           /\ t + 1 \in 0..Len(c.size)
    BY <1>2
  <2> QED
    BY <1>4, <2>1, ValueSteps, LineTyped DEF Number
<1>7. /\ ch \in HpChunked /\ Going /\ ch.line_len = t /\ InSize
      /\ t <= Len(c.size) => ch.state = "CH_SIZE" /\ ch.remaining = Value(c.size, t)
      /\ ~ (t <= Len(c.size)) => ch.state = "CH_SIZE_EXT" /\ ch.remaining = Number(c.size)
      /\ \A p \in 1..t : ~Fault(c, p)
  BY DEF HasRead, TypeOK, HpChunked, InSize
<1>8. Counted = [ch EXCEPT !.line_len = t + 1] /\ ch.state # "CH_DATA" /\ ch.state # "CH_DATA_CRLF"
      /\ ch.state # "CH_TRAILER"
  BY <1>7 DEF Counted, InSize, HpChunked
<1>9. Consume => i' = s + (t + 1)
  BY <1>2 DEF Consume
<1>10. ASSUME Fault(c, t + 1), Consume, ch' = [Counted EXCEPT !.error = TRUE]
      PROVE  RefusedAt(c, s)'
  <2>1. ch'.error /\ ~ch'.done
    BY <1>7, <1>8, <1>10 DEF HpChunked, Going
  <2> QED
    BY <1>2, <1>9, <1>10, <2>1 DEF RefusedAt
<1>11. CASE SizeTooLong
  BY <1>10, <1>11, <1>2, <1>7 DEF SizeTooLong, SizeByte, Fault
<1>12. CASE Extension
  <2>1. t > Len(c.size) /\ t + 1 <= CH_MAX_LINE /\ Consume /\ ch' = Counted
    BY <1>2, <1>7, <1>12 DEF Extension, SizeByte
  <2>2. ~Fault(c, t + 1)
    BY <1>1, <1>2, <2>1 DEF Fault
  <2>3. \A p \in 1..(t + 1) : ~Fault(c, p)
    BY <1>2, <1>7, <2>2
  <2>4. /\ ch'.line_len = t + 1 /\ ch'.state = "CH_SIZE_EXT" /\ ch'.remaining = Number(c.size)
        /\ ~ch'.done /\ ~ch'.error /\ ~ (t + 1 <= Len(c.size))
    BY <1>2, <1>7, <1>8, <2>1 DEF HpChunked, Going
  <2> QED
    BY <1>9, <2>1, <2>3, <2>4 DEF HasRead, Going
<1>13. CASE ExtensionBegins
  <2>1. /\ t <= Len(c.size) /\ t + 1 <= CH_MAX_LINE /\ Consume /\ Byte = Semicolon
        /\ ch' = [Counted EXCEPT !.state = "CH_SIZE_EXT"]
    BY <1>2, <1>7, <1>13 DEF ExtensionBegins, SizeByte
  <2>2. t = Len(c.size)
    BY <1>2, <1>4, <2>1 DEF Digits, Other, Semicolon
  <2>3. ~Fault(c, t + 1)
    BY <1>1, <1>2, <2>1, <2>2 DEF Fault
  <2>4. \A p \in 1..(t + 1) : ~Fault(c, p)
    BY <1>2, <1>7, <2>3
  <2>5. /\ ch'.line_len = t + 1 /\ ch'.state = "CH_SIZE_EXT" /\ ch'.remaining = Number(c.size)
        /\ ~ch'.done /\ ~ch'.error /\ ~ (t + 1 <= Len(c.size))
    BY <1>2, <1>6, <1>7, <1>8, <2>1, <2>2 DEF HpChunked, Going
  <2> QED
    BY <1>9, <2>1, <2>4, <2>5 DEF HasRead, Going
<1>14. CASE SizeBad
  <2>1. /\ t <= Len(c.size) /\ t + 1 <= CH_MAX_LINE /\ Consume
        /\ Byte = Other \/ (Byte \in Digits /\ Overflows(Byte))
        /\ ch' = [Counted EXCEPT !.error = TRUE]
    <3>1. /\ Consume /\ ch.state = "CH_SIZE" /\ ch.line_len + 1 <= CH_MAX_LINE
          /\ Byte = Other \/ (Byte \in Digits /\ Overflows(Byte))
          /\ ch' = [Counted EXCEPT !.error = TRUE]
      BY <1>14 DEF SizeBad, SizeByte
    <3> QED
      BY <1>2, <1>7, <3>1
  <2>2. t < Len(c.size)
    BY <1>2, <1>5, <2>1 DEF Digits, Other, Semicolon
  <2>3. CASE Byte = Other
    <3>1. c.size[t + 1] \notin Digits
      BY <1>4, <2>2, <2>3 DEF Digits, Other
    <3> QED
      BY <1>2, <1>10, <2>1, <2>2, <3>1 DEF Fault
  <2>4. CASE Byte \in Digits /\ Overflows(Byte)
    <3>1. ch.remaining \in 0..UMax /\ ch.remaining = Value(c.size, t)
      BY <1>7, <2>1 DEF HpChunked
    <3>2. ~ (ch.remaining <= (UMax - Byte) \div 16)
      BY <1>1, <2>4, <3>1 DEF Overflows, Digits
    <3>3. ~ (ch.remaining * 16 + Byte <= UMax)
      BY <2>4, <3>1, <3>2, DigitFits
    <3>4. Value(c.size, t + 1) > UMax
      BY <1>1, <1>6, <2>2, <3>1, <3>3
    <3> QED
      BY <1>2, <1>10, <2>1, <2>2, <3>4 DEF Fault
  <2> QED
    BY <2>1, <2>3, <2>4
<1>15. CASE SizeDigit
  <2>1. /\ t <= Len(c.size) /\ t + 1 <= CH_MAX_LINE /\ Consume
        /\ Byte \in Digits /\ ~Overflows(Byte)
        /\ ch' = [Counted EXCEPT !.remaining = ch.remaining * 16 + Byte]
    BY <1>2, <1>7, <1>8, <1>15 DEF SizeDigit, SizeByte, HpChunked
  <2>2. t < Len(c.size)
    BY <1>2, <1>5, <2>1 DEF Digits, Semicolon
  <2>3. ch.remaining \in 0..UMax /\ ch.remaining = Value(c.size, t)
    BY <1>7, <2>1 DEF HpChunked
  <2>4. ch.remaining * 16 + Byte <= UMax
    <3>1. ch.remaining <= (UMax - Byte) \div 16
      <4>1. UMax - Byte \in Int /\ ch.remaining \in Int
        <5>1. Byte \in Int
          BY <2>1 DEF Digits
        <5> QED
          BY <1>1, <2>3, <5>1
      <4> DEFINE u == UMax - Byte
      <4>2. u \div 16 \in Int
        BY <4>1
      <4>3. ~ (ch.remaining > u \div 16)
        BY <2>1 DEF Overflows
      <4> HIDE DEF u
      <4>4. ch.remaining <= u \div 16
        BY <4>1, <4>2, <4>3
      <4> QED
        BY <4>4 DEF u
    <3> QED
      BY <2>1, <2>3, <3>1, DigitFits
  <2>5. ~Fault(c, t + 1)
    <3>1. c.size[t + 1] \in Digits /\ ~ (Value(c.size, t + 1) > UMax) /\ ~ (t + 1 > CH_MAX_LINE)
      BY <1>1, <1>2, <1>4, <1>6, <2>1, <2>2, <2>3, <2>4
    <3> QED
      BY <3>1 DEF Fault
  <2>6. \A p \in 1..(t + 1) : ~Fault(c, p)
    BY <1>2, <1>7, <2>5
  <2>7. /\ ch'.line_len = t + 1 /\ ch'.state = "CH_SIZE" /\ ch'.remaining = Value(c.size, t + 1)
        /\ ~ch'.done /\ ~ch'.error /\ t + 1 <= Len(c.size)
    BY <1>2, <1>6, <1>7, <1>8, <2>1, <2>2, <2>3 DEF HpChunked, Going
  <2> QED
    BY <1>9, <2>1, <2>6, <2>7 DEF HasRead, Going
<1> QED
  BY <1>3, <1>7, <1>8, <1>11, <1>12, <1>13, <1>14, <1>15
     DEF Scan, SizeEnds, SizeCr, Data, DataCrlf, Trailer

LEMMA ReadStep ==
  ASSUME TypeOK, NEW c \in Chunk \cup LastLine, NEW s,
         Within(wire, Terminated(SizeLine(c)), s), Reading(c, s), Scan
  PROVE  Reading(c, s)' \/ RefusedAt(c, s)' \/ LineRead(c, s)'
<1>1. /\ Len(c.size) \in Nat /\ Len(SizeLine(c)) \in Nat /\ Len(c.size) <= Len(SizeLine(c))
      /\ s \in Nat /\ SizeLine(c) \in Seq(Bytes)
  BY SizeLineBytes, LineTyped DEF Within
<1>2. PICK t \in 0..Len(SizeLine(c)) :
        HasRead(c, t) /\ (i = s + t \/ (t = Len(SizeLine(c)) /\ i = s + t + 1))
  BY DEF Reading
<1>3. CASE t # Len(SizeLine(c))
  <2>1. t \in 0..(Len(SizeLine(c)) - 1) /\ i = s + t /\ t \in 0..(Len(SizeLine(c)) + 1)
        /\ t < Len(SizeLine(c)) /\ t + 1 \in 0..Len(SizeLine(c))
    BY <1>1, <1>2, <1>3
  <2>2. Byte = SizeLine(c)[t + 1]
    BY <1>1, <2>1, NextByte
  <2>3. (HasRead(c, t + 1)' /\ i' = s + (t + 1)) \/ RefusedAt(c, s)'
    BY <1>1, <1>2, <2>1, <2>2, ReadingByte
  <2>4. ASSUME HasRead(c, t + 1)', i' = s + (t + 1) PROVE Reading(c, s)'
    BY <2>1, <2>4 DEF Reading
  <2> QED
    BY <2>3, <2>4
<1>4. CASE t = Len(SizeLine(c))
  <2>1. /\ ch \in HpChunked /\ Going /\ InSize /\ ch.remaining = Number(c.size)
        /\ \A p \in 1..Len(SizeLine(c)) : ~Fault(c, p)
    <3>1. t <= Len(c.size) => t = Len(c.size)
      BY <1>1, <1>4
    <3> QED
      BY <1>2, <1>4, <3>1 DEF HasRead, TypeOK, HpChunked, InSize, Number
  <2>2. ch.state # "CH_DATA" /\ ch.state # "CH_DATA_CRLF" /\ ch.state # "CH_TRAILER"
    BY <2>1 DEF InSize
  <2>3. CASE i = s + t
    <3>1. t \in 0..(Len(SizeLine(c)) + 1)
      BY <1>1, <1>4
    <3>2. Byte = CR
      BY <1>1, <1>4, <2>3, <3>1, NextByte
    <3>3. SizeCr
      BY <2>2, <3>2 DEF Scan, SizeEnds, SizeTooLong, Extension, ExtensionBegins, SizeBad, SizeDigit,
                        SizeByte, Data, DataCrlf, Trailer, CR, LF
    <3>4. ch' = ch /\ i' = s + t + 1
      BY <1>1, <2>3, <3>3 DEF SizeCr, Consume
    <3>5. HasRead(c, t)'
      BY <1>2, <3>4 DEF HasRead, Going
    <3> QED
      BY <1>4, <3>4, <3>5 DEF Reading
  <2>4. CASE i = s + t + 1
    <3>1. t + 1 \in 0..(Len(SizeLine(c)) + 1) /\ i = s + (t + 1)
      BY <1>1, <1>4, <2>4
    <3>2. Byte = LF
      BY <1>1, <1>4, <3>1, NextByte
    <3>3. SizeEnds
      BY <2>2, <3>2 DEF Scan, SizeCr, SizeTooLong, Extension, ExtensionBegins, SizeBad, SizeDigit,
                        SizeByte, Data, DataCrlf, Trailer, CR, LF
    <3>4. /\ ch' = [ch EXCEPT !.line_len = 0,
                              !.state = IF ch.remaining = 0 THEN "CH_TRAILER" ELSE "CH_DATA"]
          /\ i' = s + Len(SizeLine(c)) + 2
      BY <1>1, <1>4, <2>4, <3>3 DEF SizeEnds, Consume
    <3>5. /\ ~ch'.done /\ ~ch'.error /\ ch'.line_len = 0 /\ ch'.remaining = Number(c.size)
          /\ ch'.state = IF Number(c.size) = 0 THEN "CH_TRAILER" ELSE "CH_DATA"
      BY <2>1, <3>4 DEF HpChunked, Going
    <3>6. LineAccepted(c)
      BY <2>1, NoFault
    <3> QED
      BY <3>4, <3>5, <3>6 DEF LineRead, Going
  <2> QED
    BY <1>2, <2>3, <2>4
<1> QED
  BY <1>3, <1>4

----------------------------------------------------------------------------
(* The data of a chunk.                                                    *)

\* The data d, which begins at s, and what ends it are being passed over.
Passing(d, s) ==
  /\ Going
  /\ \/ \E j \in 0..(Len(d) - 1) :
          i = s + j /\ ch.state = "CH_DATA" /\ ch.remaining = Len(d) - j
     \/ /\ i = s + Len(d) \/ i = s + Len(d) + 1
        /\ ch.state = "CH_DATA_CRLF" /\ ch.remaining = 0

\* A size line is about to be read.
Passed(d, s) ==
  /\ Going /\ i = s + Len(d) + 2
  /\ ch.state = "CH_SIZE" /\ ch.line_len = 0 /\ ch.remaining = 0

LEMMA PassStep ==
  ASSUME TypeOK, NEW d \in Seq(Bytes), NEW s, Within(wire, Terminated(d), s), Passing(d, s), Scan
  PROVE  Passing(d, s)' \/ Passed(d, s)'
<1>1. Len(d) \in Nat /\ s \in Nat /\ ch \in HpChunked /\ Going /\ i \in Nat /\ upto \in Nat
  BY ChunkedAssumption DEF Within, TypeOK, HpChunked, Passing
<1>2. CASE ch.state = "CH_DATA"
  <2>1. PICK j \in 0..(Len(d) - 1) : i = s + j /\ ch.remaining = Len(d) - j
    BY <1>2 DEF Passing
  <2>2. Data
    BY <1>2 DEF Scan, SizeEnds, SizeCr, SizeTooLong, Extension, ExtensionBegins, SizeBad, SizeDigit,
                SizeByte, InSize, DataCrlf, Trailer
  <2> DEFINE avail == upto - i
             take  == IF avail < ch.remaining THEN avail ELSE ch.remaining
  <2>3. /\ i < upto /\ i' = i + take
        /\ ch' = [ch EXCEPT !.remaining = ch.remaining - take,
                            !.state = IF take = ch.remaining THEN "CH_DATA_CRLF" ELSE ch.state]
    BY <2>2 DEF Data
  <2>4. take \in Nat /\ take <= Len(d) - j
    <3>1. avail \in Nat /\ Len(d) - j \in Nat
      BY <1>1, <2>1, <2>3
    <3> HIDE DEF avail
    <3> QED
      BY <2>1, <3>1
  <2> HIDE DEF take
  <2>5. ~ch'.done /\ ~ch'.error
    BY <1>1, <2>3 DEF HpChunked, Going
  <2>6. CASE take = ch.remaining
    <3>1. i' = s + Len(d) /\ ch'.state = "CH_DATA_CRLF" /\ ch'.remaining = 0
      BY <1>1, <2>1, <2>3, <2>4, <2>6 DEF HpChunked
    <3> QED
      BY <2>5, <3>1 DEF Passing, Going
  <2>7. CASE take # ch.remaining
    <3>1. /\ j + take \in 0..(Len(d) - 1) /\ i' = s + (j + take)
          /\ ch'.state = "CH_DATA" /\ ch'.remaining = Len(d) - (j + take)
      BY <1>1, <1>2, <2>1, <2>3, <2>4, <2>7 DEF HpChunked
    <3> QED
      BY <2>5, <3>1 DEF Passing, Going
  <2> QED
    BY <2>6, <2>7
<1>3. CASE ch.state # "CH_DATA"
  <2>1. /\ i = s + Len(d) \/ i = s + Len(d) + 1
        /\ ch.state = "CH_DATA_CRLF" /\ ch.remaining = 0
    BY <1>3 DEF Passing
  <2>2. DataCrlf
    BY <2>1 DEF Scan, SizeEnds, SizeCr, SizeTooLong, Extension, ExtensionBegins, SizeBad, SizeDigit,
                SizeByte, InSize, Data, Trailer
  <2>3. /\ i' = i + 1
        /\ ch' = IF Byte = LF THEN [ch EXCEPT !.state = "CH_SIZE", !.line_len = 0] ELSE ch
    BY <2>2 DEF DataCrlf, Consume
  <2>4. CASE i = s + Len(d)
    <3>1. Byte = CR
      BY <1>1, <2>4, NextByte
    <3>2. ch' = ch /\ i' = s + Len(d) + 1
      BY <2>3, <2>4, <3>1 DEF CR, LF
    <3> QED
      BY <1>1, <2>1, <3>2 DEF Passing, Going
  <2>5. CASE i = s + Len(d) + 1
    <3>1. Len(d) + 1 \in 0..(Len(d) + 1) /\ i = s + (Len(d) + 1)
      BY <1>1, <2>5
    <3>2. Byte = LF
      BY <3>1, NextByte
    <3>3. ch' = [ch EXCEPT !.state = "CH_SIZE", !.line_len = 0] /\ i' = s + Len(d) + 2
      BY <1>1, <2>3, <2>5, <3>2
    <3>4. ~ch'.done /\ ~ch'.error /\ ch'.state = "CH_SIZE" /\ ch'.line_len = 0 /\ ch'.remaining = 0
      BY <1>1, <2>1, <3>3 DEF HpChunked, Going
    <3> QED
      BY <3>3, <3>4 DEF Passed, Going
  <2> QED
    BY <2>1, <2>4, <2>5
<1> QED
  BY <1>2, <1>3

----------------------------------------------------------------------------
(* A line of the trailer, the empty one that ends it included.             *)

Skipping(l, s) ==
  /\ Going /\ ch.state = "CH_TRAILER"
  /\ \E t \in 0..Len(l) : ch.line_len = t /\ (i = s + t \/ (t = Len(l) /\ i = s + t + 1))

Skipped(l, s) ==
  /\ i = s + Len(l) + 2 /\ ~ch.error
  /\ IF l = <<>> THEN ch.done ELSE ~ch.done /\ ch.state = "CH_TRAILER" /\ ch.line_len = 0

LEMMA SkipStep ==
  ASSUME TypeOK, NEW l \in Seq(LineBytes), NEW s, Within(wire, Terminated(l), s),
         Skipping(l, s), Scan
  PROVE  Skipping(l, s)' \/ Skipped(l, s)'
<1>1. l \in Seq(Bytes)
  <2>1. LineBytes \subseteq Bytes
    BY DEF LineBytes
  <2> QED
    BY <2>1, SeqMonotone
<1>2. Len(l) \in Nat /\ s \in Nat /\ ch \in HpChunked /\ Going /\ (l = <<>> <=> Len(l) = 0)
  BY DEF Within, TypeOK, HpChunked, Skipping
<1>3. PICK t \in 0..Len(l) : ch.line_len = t /\ (i = s + t \/ (t = Len(l) /\ i = s + t + 1))
  BY DEF Skipping
<1>4. ch.state = "CH_TRAILER"
  BY DEF Skipping
<1>5. Trailer
  BY <1>4 DEF Scan, SizeEnds, SizeCr, SizeTooLong, Extension, ExtensionBegins, SizeBad, SizeDigit,
              SizeByte, InSize, Data, DataCrlf
<1>6. /\ i' = i + 1
      /\ Byte = CR => ch' = ch
      /\ Byte = LF /\ ch.line_len = 0 => ch' = [ch EXCEPT !.state = "CH_END", !.done = TRUE]
      /\ Byte = LF /\ ch.line_len > 0 => ch' = [ch EXCEPT !.line_len = 0]
      /\ Byte \notin {CR, LF} => ch' = [ch EXCEPT !.line_len = t + 1]
  BY <1>3, <1>5 DEF Trailer, Consume, CR, LF
<1>7. CASE t # Len(l)
  <2>1. t < Len(l) /\ i = s + t /\ t \in 0..(Len(l) + 1) /\ t + 1 \in 1..Len(l) /\ t + 1 \in 0..Len(l)
    BY <1>2, <1>3, <1>7
  <2>2. Byte = l[t + 1]
    BY <1>1, <2>1, NextByte
  <2>3. Byte \notin {CR, LF}
    BY <2>1, <2>2 DEF LineBytes
  <2>4. /\ ~ch'.done /\ ~ch'.error /\ ch'.state = "CH_TRAILER" /\ ch'.line_len = t + 1
        /\ i' = s + (t + 1)
    BY <1>2, <1>4, <1>6, <2>1, <2>3 DEF HpChunked, Going
  <2> QED
    BY <2>1, <2>4 DEF Skipping, Going
<1>8. CASE t = Len(l) /\ i = s + t
  <2>1. t \in 0..(Len(l) + 1)
    BY <1>2, <1>8
  <2>2. Byte = CR
    BY <1>1, <1>8, <2>1, NextByte
  <2>3. ch' = ch /\ i' = s + t + 1
    BY <1>6, <1>8, <2>2
  <2> QED
    BY <1>2, <1>3, <1>4, <1>8, <2>3 DEF Skipping, Going
<1>9. CASE t = Len(l) /\ i = s + t + 1
  <2>1. t + 1 \in 0..(Len(l) + 1) /\ i = s + (t + 1)
    BY <1>2, <1>9
  <2>2. Byte = LF
    BY <1>1, <1>9, <2>1, NextByte
  <2>3. i' = s + Len(l) + 2
    BY <1>2, <1>6, <1>9
  <2>4. CASE l = <<>>
    <3>1. ch' = [ch EXCEPT !.state = "CH_END", !.done = TRUE]
      BY <1>2, <1>3, <1>6, <1>9, <2>2, <2>4
    <3>2. ch'.done /\ ~ch'.error
      BY <1>2, <3>1 DEF HpChunked, Going
    <3> QED
      BY <2>3, <2>4, <3>2 DEF Skipped
  <2>5. CASE l # <<>>
    <3>1. ch' = [ch EXCEPT !.line_len = 0]
      BY <1>2, <1>3, <1>6, <1>9, <2>2, <2>5
    <3>2. ~ch'.done /\ ~ch'.error /\ ch'.state = "CH_TRAILER" /\ ch'.line_len = 0
      BY <1>2, <1>4, <3>1 DEF HpChunked, Going
    <3> QED
      BY <2>3, <2>5, <3>2 DEF Skipped
  <2> QED
    BY <2>4, <2>5
<1> QED
  BY <1>3, <1>7, <1>8, <1>9

----------------------------------------------------------------------------
(* Chunked bodies: the places of a body, in the wire.                      *)

\* The size line h of a body: the last one is that of no chunk.
LineOf(b, h) == IF h <= Len(b.chunks) THEN b.chunks[h] ELSE b.last

LEMMA TrailerLineTyped ==
  ASSUME NEW b \in Body, NEW h \in 1..(Len(b.trailer) + 1)
  PROVE  TrailerLine(b, h) \in Seq(LineBytes) /\ (TrailerLine(b, h) = <<>> <=> h = Len(b.trailer) + 1)
<1>1. CASE h <= Len(b.trailer)
  <2>1. h \in 1..Len(b.trailer) /\ h # Len(b.trailer) + 1
    BY <1>1, BodyTyped
  <2> QED
    BY <1>1, <2>1, BodyTyped DEF TrailerLine
<1>2. CASE ~ (h <= Len(b.trailer))
  <2>1. h = Len(b.trailer) + 1
    BY <1>2, BodyTyped
  <2> QED
    BY <1>2, <2>1 DEF TrailerLine
<1> QED
  BY <1>1, <1>2

LEMMA LineOfTyped ==
  ASSUME NEW b \in Body, NEW h \in 1..(Len(b.chunks) + 1)
  PROVE  LineOf(b, h) \in Chunk \cup LastLine
<1>1. CASE h <= Len(b.chunks)
  <2>1. h \in 1..Len(b.chunks)
    BY <1>1, BodyTyped
  <2> QED
    BY <1>1, <2>1, BodyTyped DEF LineOf
<1>2. CASE ~ (h <= Len(b.chunks))
  BY <1>2 DEF LineOf, Body
<1> QED
  BY <1>1, <1>2

\* Where data of chunk h begins.
DataAt(b, h) == ChunkAt(b, h) + Len(SizeLine(b.chunks[h])) + 2

LEMMA ChunkPlaces ==
  ASSUME NEW b \in Body, NEW w \in Seq(Bytes), NEW n \in 0..Len(b.chunks),
         Within(w, Joined(Sent(b), n), 0), NEW h \in 1..n
  PROVE  /\ Within(w, Terminated(SizeLine(b.chunks[h])), ChunkAt(b, h))
         /\ Within(w, Terminated(b.chunks[h].data), DataAt(b, h))
<1>1. h \in 1..Len(b.chunks) /\ n \in 0..Len(Sent(b)) /\ Sent(b) \in Seq(Seq(Bytes))
  BY BodyTyped
<1>2. Within(w, Sent(b)[h], 0 + Len(Joined(Sent(b), h - 1)))
  BY <1>1, JoinedWithin
<1> DEFINE c == b.chunks[h]
<1>3. c \in Chunk /\ Sent(b)[h] = ChunkBytes(c)
  BY <1>1, BodyTyped
<1> HIDE DEF c
<1>4. /\ Terminated(SizeLine(c)) \in Seq(Bytes) /\ c.data \in Seq(Bytes)
      /\ Len(Terminated(SizeLine(c))) = Len(SizeLine(c)) + 2 /\ Len(SizeLine(c)) \in Nat
  BY <1>3, LineTyped, SizeLineBytes DEF Chunk
<1>5. Terminated(c.data) \in Seq(Bytes)
  BY <1>4, TerminatedTyped
<1>6. 0 + Len(Joined(Sent(b), h - 1)) = ChunkAt(b, h) /\ ChunkAt(b, h) \in Nat
  <2>1. Joined(Sent(b), h - 1) \in Seq(Bytes)
    <3>1. h - 1 \in 0..Len(Sent(b))
      BY <1>1
    <3> QED
      BY <1>1, <3>1, JoinedSteps, Zenon
  <2> QED
    BY <2>1 DEF ChunkAt
<1>7. Within(w, Terminated(SizeLine(c)) \o Terminated(c.data), ChunkAt(b, h))
  BY <1>2, <1>3, <1>6 DEF ChunkBytes
<1>8. /\ Within(w, Terminated(SizeLine(c)), ChunkAt(b, h))
      /\ Within(w, Terminated(c.data), ChunkAt(b, h) + Len(Terminated(SizeLine(c))))
  BY <1>4, <1>5, <1>7, WithinParts
<1>9. ChunkAt(b, h) + Len(Terminated(SizeLine(c))) = ChunkAt(b, h) + Len(SizeLine(c)) + 2
  BY <1>4, <1>6
<1> QED
  BY <1>8, <1>9 DEF DataAt, c

\* Chunk h, and what comes after it.
LEMMA ChunkEnds ==
  ASSUME NEW b \in Body
  PROVE  /\ ChunkAt(b, 1) = 0
         /\ \A h \in 1..(Len(b.chunks) + 1) : ChunkAt(b, h) \in Nat
         /\ \A h \in 1..Len(b.chunks) : ChunkAt(b, h + 1) = DataAt(b, h) + Len(b.chunks[h].data) + 2
<1>1. Len(b.chunks) \in Nat /\ Len(Sent(b)) = Len(b.chunks) /\ Sent(b) \in Seq(Seq(Bytes))
  BY BodyTyped
<1>2. /\ Joined(Sent(b), 0) = <<>>
      /\ \A h \in 0..Len(b.chunks) : Joined(Sent(b), h) \in Seq(Bytes)
      /\ \A h \in 1..Len(b.chunks) : Joined(Sent(b), h) = Joined(Sent(b), h - 1) \o Sent(b)[h]
  BY <1>1, JoinedSteps, Zenon
<1>3. ChunkAt(b, 1) = 0
  <2>1. 1 - 1 = 0
    OBVIOUS
  <2> QED
    BY <1>2, <2>1 DEF ChunkAt
<1>4. \A h \in 1..(Len(b.chunks) + 1) : ChunkAt(b, h) \in Nat
  <2> TAKE h \in 1..(Len(b.chunks) + 1)
  <2>1. h - 1 \in 0..Len(b.chunks)
    BY <1>1
  <2>2. Joined(Sent(b), h - 1) \in Seq(Bytes)
    BY <1>2, <2>1
  <2> QED
    BY <2>2 DEF ChunkAt
<1>5. ASSUME NEW h \in 1..Len(b.chunks)
      PROVE  ChunkAt(b, h + 1) = DataAt(b, h) + Len(b.chunks[h].data) + 2
  <2> DEFINE c == b.chunks[h]
  <2>1. c \in Chunk /\ Sent(b)[h] = ChunkBytes(c)
    BY BodyTyped
  <2> HIDE DEF c
  <2>2. /\ Terminated(SizeLine(c)) \in Seq(Bytes) /\ c.data \in Seq(Bytes)
        /\ Len(Terminated(SizeLine(c))) = Len(SizeLine(c)) + 2 /\ Len(SizeLine(c)) \in Nat
    BY <2>1, LineTyped, SizeLineBytes DEF Chunk
  <2>3. Terminated(c.data) \in Seq(Bytes) /\ Len(Terminated(c.data)) = Len(c.data) + 2
        /\ Len(c.data) \in Nat
    <3>1. Len(c.data) \in Nat
      BY <2>2
    <3> QED
      BY <2>2, <3>1, TerminatedTyped, Zenon
  <2>4. /\ ChunkBytes(c) \in Seq(Bytes)
        /\ Len(ChunkBytes(c)) = (Len(SizeLine(c)) + 2) + (Len(c.data) + 2)
    <3> DEFINE u == Terminated(SizeLine(c))
               v == Terminated(c.data)
    <3>1. u \in Seq(Bytes) /\ v \in Seq(Bytes) /\ ChunkBytes(c) = u \o v
      BY <2>2, <2>3 DEF ChunkBytes
    <3>2. Len(u) = Len(SizeLine(c)) + 2 /\ Len(v) = Len(c.data) + 2
      BY <2>2, <2>3
    <3> HIDE DEF u, v
    <3>3. u \o v \in Seq(Bytes) /\ Len(u \o v) = Len(u) + Len(v)
      BY <3>1, ConcatProperties
    <3> QED
      BY <3>1, <3>2, <3>3
  <2>5. h - 1 \in 0..Len(b.chunks) /\ (h + 1) - 1 = h /\ h \in 1..(Len(b.chunks) + 1)
    BY <1>1
  <2>6. Len(Joined(Sent(b), h)) = Len(Joined(Sent(b), h - 1)) + Len(ChunkBytes(c))
    <3>1. Joined(Sent(b), h) = Joined(Sent(b), h - 1) \o ChunkBytes(c)
      BY <1>2, <2>1
    <3>2. Joined(Sent(b), h - 1) \in Seq(Bytes)
      BY <1>2, <2>5
    <3> QED
      BY <2>4, <3>1, <3>2, ConcatProperties
  <2>7. ChunkAt(b, h + 1) = ChunkAt(b, h) + Len(ChunkBytes(c)) /\ ChunkAt(b, h) \in Nat
    BY <1>4, <2>5, <2>6 DEF ChunkAt
  <2>8. DataAt(b, h) = ChunkAt(b, h) + Len(SizeLine(c)) + 2
    BY DEF DataAt, c
  <2>9. ChunkAt(b, h + 1) = DataAt(b, h) + Len(c.data) + 2
    <3> DEFINE x == Len(SizeLine(c))
               y == Len(c.data)
    <3>1. x \in Nat /\ y \in Nat /\ DataAt(b, h) = ChunkAt(b, h) + x + 2
          /\ ChunkAt(b, h + 1) = ChunkAt(b, h) + ((x + 2) + (y + 2)) /\ ChunkAt(b, h) \in Nat
      BY <2>2, <2>3, <2>4, <2>7, <2>8
    <3> HIDE DEF x, y
    <3>2. ChunkAt(b, h + 1) = DataAt(b, h) + y + 2
      BY <3>1
    <3> QED
      BY <3>2 DEF y
  <2> QED
    BY <2>9 DEF c
<1> QED
  BY <1>3, <1>4, <1>5

\* The chunks before one do not reach past its beginning.
LEMMA ChunksBefore ==
  ASSUME NEW b \in Body, NEW h \in 1..Len(b.chunks), NEW m \in 1..(h - 1)
  PROVE  DataAt(b, m) + Len(b.chunks[m].data) + 2 <= ChunkAt(b, h)
<1>1. Len(b.chunks) \in Nat /\ Len(Sent(b)) = Len(b.chunks) /\ Sent(b) \in Seq(Seq(Bytes))
      /\ h - 1 \in 0..Len(b.chunks) /\ m \in 1..Len(b.chunks)
  BY BodyTyped
<1> DEFINE w == Joined(Sent(b), h - 1)
<1>2. w \in Seq(Bytes)
  BY <1>1, JoinedSteps, Zenon
<1>3. Within(w, Joined(Sent(b), h - 1), 0)
  BY <1>2, WithinSelf
<1>4. Len(w) = ChunkAt(b, h)
  BY DEF ChunkAt
<1> HIDE DEF w
<1>5. Within(w, Terminated(b.chunks[m].data), DataAt(b, m))
  BY <1>1, <1>2, <1>3, ChunkPlaces
<1>6. b.chunks[m].data \in Seq(Bytes)
  BY <1>1, BodyTyped DEF Chunk
<1>7. Len(Terminated(b.chunks[m].data)) = Len(b.chunks[m].data) + 2
  BY <1>6, TerminatedTyped
<1>8. DataAt(b, m) \in Nat /\ Len(b.chunks[m].data) \in Nat /\ Len(w) \in Nat
  BY <1>2, <1>5, <1>6 DEF Within
<1> QED
  BY <1>4, <1>5, <1>7, <1>8 DEF Within

LEMMA TrailerPlaces ==
  ASSUME NEW b \in Body
  PROVE  /\ TrailerAt(b, 1) = ChunkAt(b, Len(b.chunks) + 1) + Len(SizeLine(b.last)) + 2
         /\ \A h \in 1..Len(b.trailer) :
              TrailerAt(b, h + 1) = TrailerAt(b, h) + Len(b.trailer[h]) + 2
         /\ \A h \in 1..(Len(b.trailer) + 1) :
              Within(Encoding(b), Terminated(TrailerLine(b, h)), TrailerAt(b, h))
<1>1. /\ Len(b.trailer) \in Nat /\ Len(Trailing(b)) = Len(b.trailer)
      /\ Trailing(b) \in Seq(Seq(Bytes)) /\ Len(b.chunks) \in Nat
  BY BodyTyped
<1>2. /\ Joined(Trailing(b), 0) = <<>>
      /\ \A h \in 0..Len(b.trailer) : Joined(Trailing(b), h) \in Seq(Bytes)
      /\ \A h \in 1..Len(b.trailer) :
           Joined(Trailing(b), h) = Joined(Trailing(b), h - 1) \o Trailing(b)[h]
  BY <1>1, JoinedSteps, Zenon
<1> DEFINE from == ChunkAt(b, Len(b.chunks) + 1) + Len(Terminated(SizeLine(b.last)))
<1>3. from \in Nat /\ from = ChunkAt(b, Len(b.chunks) + 1) + Len(SizeLine(b.last)) + 2
  <2>1. Len(b.chunks) + 1 \in 1..(Len(b.chunks) + 1)
    BY <1>1
  <2>2. ChunkAt(b, Len(b.chunks) + 1) \in Nat
    BY <2>1, ChunkEnds
  <2>3. b.last \in Chunk \cup LastLine
    BY DEF Body
  <2>4. Len(Terminated(SizeLine(b.last))) = Len(SizeLine(b.last)) + 2
        /\ Len(SizeLine(b.last)) \in Nat
    BY <2>3, LineTyped, SizeLineBytes
  <2> QED
    BY <2>2, <2>4
<1>4. \A h : TrailerAt(b, h) = from + Len(Joined(Trailing(b), h - 1))
  BY DEF TrailerAt
<1> HIDE DEF from
<1>5. TrailerAt(b, 1) = from
  <2>1. 1 - 1 = 0
    OBVIOUS
  <2> QED
    BY <1>2, <1>3, <1>4, <2>1
<1>6. \A h \in 1..Len(b.trailer) :
        /\ Trailing(b)[h] = Terminated(b.trailer[h]) /\ Terminated(b.trailer[h]) \in Seq(Bytes)
        /\ Len(Terminated(b.trailer[h])) = Len(b.trailer[h]) + 2 /\ Len(b.trailer[h]) \in Nat
  <2>1. LineBytes \subseteq Bytes
    BY DEF LineBytes
  <2>2. \A h \in 1..Len(b.trailer) : b.trailer[h] \in Seq(Bytes)
    BY <2>1, BodyTyped, SeqMonotone
  <2>3. \A h \in 1..Len(b.trailer) : Len(b.trailer[h]) \in Nat
    BY <2>2
  <2> QED
    BY <2>2, <2>3, BodyTyped, TerminatedTyped
<1>7. ASSUME NEW h \in 1..Len(b.trailer)
      PROVE  TrailerAt(b, h + 1) = TrailerAt(b, h) + Len(b.trailer[h]) + 2
  <2>1. h - 1 \in 0..Len(b.trailer) /\ (h + 1) - 1 = h
    BY <1>1
  <2> DEFINE u == Joined(Trailing(b), h - 1)
             v == Terminated(b.trailer[h])
  <2>2. u \in Seq(Bytes) /\ v \in Seq(Bytes) /\ Joined(Trailing(b), h) = u \o v
    BY <1>2, <1>6, <2>1
  <2>3. TrailerAt(b, h) = from + Len(u)
    BY <1>4
  <2>4. Len(v) = Len(b.trailer[h]) + 2 /\ Len(b.trailer[h]) \in Nat
    BY <1>6
  <2>5. TrailerAt(b, h + 1) = from + Len(Joined(Trailing(b), h))
    BY <1>4, <2>1
  <2> HIDE DEF u, v
  <2>6. Len(u \o v) = Len(u) + Len(v) /\ Len(u) \in Nat
    BY <2>2, ConcatProperties
  <2> QED
    <3>1. TrailerAt(b, h + 1) = from + (Len(u) + Len(v))
      BY <2>2, <2>5, <2>6
    <3> DEFINE x == Len(b.trailer[h])
               y == Len(u)
    <3>2. /\ TrailerAt(b, h + 1) = from + (y + (x + 2)) /\ TrailerAt(b, h) = from + y
          /\ x \in Nat /\ y \in Nat
      BY <2>3, <2>4, <2>6, <3>1
    <3> HIDE DEF x, y
    <3>3. TrailerAt(b, h + 1) = TrailerAt(b, h) + x + 2
      BY <1>3, <3>2
    <3> QED
      BY <3>3 DEF x
<1>8. ASSUME NEW h \in 1..(Len(b.trailer) + 1)
      PROVE  Within(Encoding(b), Terminated(TrailerLine(b, h)), TrailerAt(b, h))
  <2>1. CASE h <= Len(b.trailer)
    <3>1. h \in 1..Len(b.trailer) /\ Len(b.trailer) \in 0..Len(Trailing(b))
      BY <1>1, <2>1
    <3>2. Encoding(b) \in Seq(Bytes)
          /\ Within(Encoding(b), Joined(Trailing(b), Len(b.trailer)), from)
      BY <1>5, Layout
    <3>3. Within(Encoding(b), Trailing(b)[h], from + Len(Joined(Trailing(b), h - 1)))
      <4> DEFINE w == Encoding(b)
                 parts == Trailing(b)
                 n == Len(b.trailer)
      <4>1. /\ w \in Seq(Bytes) /\ parts \in Seq(Seq(Bytes)) /\ n \in 0..Len(parts)
            /\ Within(w, Joined(parts, n), from) /\ h \in 1..n
        BY <1>1, <3>1, <3>2
      <4> HIDE DEF w, parts, n
      <4>2. Within(w, parts[h], from + Len(Joined(parts, h - 1)))
        BY <4>1, JoinedWithin
      <4> QED
        BY <4>2 DEF w, parts
    <3> QED
      BY <1>4, <1>6, <2>1, <3>1, <3>3 DEF TrailerLine
  <2>2. CASE ~ (h <= Len(b.trailer))
    <3>1. h = Len(b.trailer) + 1
      BY <1>1, <2>2
    <3>2. Terminated(<<>>) = <<CR, LF>>
      BY DEF Terminated
    <3> QED
      BY <2>2, <3>1, <3>2, Layout DEF TrailerLine
  <2> QED
    BY <2>1, <2>2
<1> QED
  BY <1>3, <1>5, <1>7, <1>8

\* What lies within the encoding lies within what follows it, too.
LEMMA StreamOf ==
  ASSUME NEW b \in Body, NEW p \in Seq(Bytes), NEW s, Within(Encoding(b), p, s)
  PROVE  Within(Stream(b), p, s)
<1>1. Encoding(b) \in Seq(Bytes) /\ b.after \in Seq(Bytes)
  BY Layout DEF Body
<1> DEFINE w == Encoding(b)
<1>2. w \in Seq(Bytes) /\ Within(w, p, s)
  BY <1>1
<1> HIDE DEF w
<1>3. Within(w \o b.after, p, s)
  BY <1>1, <1>2, WithinLonger
<1> QED
  BY <1>3 DEF w, Stream

----------------------------------------------------------------------------
(* Chunked bodies: where the scanner is in a body.                         *)

\* In one that is well formed: in a size line, in data, in a line of the
\* trailer or at the end.
GoodPlace(b) ==
  \/ \E h \in 1..(Len(b.chunks) + 1) : Reading(LineOf(b, h), ChunkAt(b, h))
  \/ \E h \in 1..Len(b.chunks) : Passing(b.chunks[h].data, DataAt(b, h))
  \/ \E h \in 1..(Len(b.trailer) + 1) : Skipping(TrailerLine(b, h), TrailerAt(b, h))
  \/ ch.done /\ ~ch.error /\ i = Len(Encoding(b))

\* In one whose first bad line is that of chunk h: not past that line.
BadPlace(b, h) ==
  \/ \E m \in 1..h : Reading(b.chunks[m], ChunkAt(b, m))
  \/ \E m \in 1..(h - 1) : Passing(b.chunks[m].data, DataAt(b, m))
  \/ ch.error /\ ~ch.done /\ i <= BadLineEnds(b, h)

PlacesInv ==
  /\ \A b \in GoodBodies : wire = Stream(b) => GoodPlace(b)
  /\ \A b \in Bodies : \A h \in 1..Len(b.chunks) :
       FirstBad(b, h) /\ wire = Stream(b) => BadPlace(b, h)

LEMMA GoodBody ==
  ASSUME NEW b \in GoodBodies
  PROVE  /\ b \in Body
         /\ \A h \in 1..(Len(b.chunks) + 1) : LineAccepted(LineOf(b, h))
         /\ \A h \in 1..Len(b.chunks) :
              /\ LineOf(b, h) = b.chunks[h] /\ b.chunks[h].data \in Seq(Bytes)
              /\ Number(b.chunks[h].size) = Len(b.chunks[h].data)
              /\ Len(b.chunks[h].data) \in Nat /\ Len(b.chunks[h].data) > 0
         /\ LineOf(b, Len(b.chunks) + 1) = b.last /\ Number(b.last.size) = 0
<1>1. b \in Body /\ WellFormed(b)
  BY ChunkedBodyAssumption DEF GoodBodies, Body
<1>2. Len(b.chunks) \in Nat /\ DOMAIN b.chunks = 1..Len(b.chunks)
  BY <1>1 DEF Body
<1>3. \A h \in 1..Len(b.chunks) : LineOf(b, h) = b.chunks[h]
  BY <1>2 DEF LineOf
<1>4. LineOf(b, Len(b.chunks) + 1) = b.last
  BY <1>2 DEF LineOf
<1>5. \A h \in 1..(Len(b.chunks) + 1) : h \in 1..Len(b.chunks) \/ h = Len(b.chunks) + 1
  BY <1>2
<1>6. \A h \in 1..(Len(b.chunks) + 1) : LineAccepted(LineOf(b, h))
  BY <1>1, <1>2, <1>3, <1>4, <1>5 DEF WellFormed, ChunkAccepted
<1>7. ASSUME NEW h \in 1..Len(b.chunks)
      PROVE  /\ b.chunks[h].data \in Seq(Bytes)
             /\ Number(b.chunks[h].size) = Len(b.chunks[h].data)
             /\ Len(b.chunks[h].data) \in Nat /\ Len(b.chunks[h].data) > 0
  <2>1. b.chunks[h] \in Chunk
    BY <1>1, BodyTyped
  <2>2. b.chunks[h].data \in Seq(Bytes)
    BY <2>1 DEF Chunk
  <2>3. Number(b.chunks[h].size) = Len(b.chunks[h].data) /\ b.chunks[h].data # <<>>
    BY <1>1, <1>2 DEF WellFormed, ChunkAccepted
  <2> QED
    BY <2>2, <2>3
<1> QED
  BY <1>1, <1>3, <1>4, <1>6, <1>7 DEF WellFormed

\* Where its parts lie.
LEMMA GoodPlaces ==
  ASSUME NEW b \in Body
  PROVE  /\ \A h \in 1..(Len(b.chunks) + 1) :
              Within(Encoding(b), Terminated(SizeLine(LineOf(b, h))), ChunkAt(b, h))
         /\ \A h \in 1..Len(b.chunks) :
              Within(Encoding(b), Terminated(b.chunks[h].data), DataAt(b, h))
<1>1. Len(b.chunks) \in Nat
  BY BodyTyped
<1>2. ASSUME NEW h \in 1..Len(b.chunks)
      PROVE  /\ Within(Encoding(b), Terminated(SizeLine(b.chunks[h])), ChunkAt(b, h))
             /\ Within(Encoding(b), Terminated(b.chunks[h].data), DataAt(b, h))
  <2> DEFINE w == Encoding(b)
             n == Len(b.chunks)
  <2>1. /\ w \in Seq(Bytes) /\ Within(w, Joined(Sent(b), n), 0) /\ n \in 0..Len(b.chunks)
        /\ h \in 1..n
    BY <1>1, Layout
  <2> HIDE DEF w, n
  <2>2. /\ Within(w, Terminated(SizeLine(b.chunks[h])), ChunkAt(b, h))
        /\ Within(w, Terminated(b.chunks[h].data), DataAt(b, h))
    BY <2>1, ChunkPlaces
  <2> QED
    BY <2>2 DEF w
<1>3. Within(Encoding(b), Terminated(SizeLine(b.last)), ChunkAt(b, Len(b.chunks) + 1))
  BY Layout
<1>4. \A h \in 1..(Len(b.chunks) + 1) : h \in 1..Len(b.chunks) \/ h = Len(b.chunks) + 1
  BY <1>1
<1>5. \A h \in 1..Len(b.chunks) : LineOf(b, h) = b.chunks[h]
  BY <1>1 DEF LineOf
<1>6. LineOf(b, Len(b.chunks) + 1) = b.last
  BY <1>1 DEF LineOf
<1> QED
  BY <1>2, <1>3, <1>4, <1>5, <1>6

LEMMA GoodReadStep ==
  ASSUME TypeOK, NEW b \in GoodBodies, wire = Stream(b), Scan,
         NEW h \in 1..(Len(b.chunks) + 1), Reading(LineOf(b, h), ChunkAt(b, h))
  PROVE  GoodPlace(b)'
<1>1. b \in Body
  BY GoodBody
<1> DEFINE c == LineOf(b, h)
           s == ChunkAt(b, h)
<1>2. c \in Chunk \cup LastLine /\ LineAccepted(c) /\ s \in Nat
  BY <1>1, LineOfTyped, GoodBody, ChunkEnds
<1>3. Within(wire, Terminated(SizeLine(c)), s)
  <2>1. Within(Encoding(b), Terminated(SizeLine(c)), s)
    BY <1>1, GoodPlaces
  <2> HIDE DEF c, s
  <2>2. Terminated(SizeLine(c)) \in Seq(Bytes)
    BY <1>2, LineTyped
  <2> QED
    BY <1>1, <2>1, <2>2, StreamOf
<1>4. Reading(c, s)' \/ RefusedAt(c, s)' \/ LineRead(c, s)'
  <2> HIDE DEF c, s
  <2> QED
    BY <1>2, <1>3, ReadStep DEF c, s
<1>5. ASSUME Reading(c, s)' PROVE GoodPlace(b)'
  BY <1>5 DEF GoodPlace
<1>6. ASSUME RefusedAt(c, s)' PROVE FALSE
  <2> HIDE DEF c, s
  <2>1. \A p \in 1..Len(SizeLine(c)) : ~Fault(c, p)
    BY <1>2, NoFault
  <2> QED
    BY <1>6, <2>1 DEF RefusedAt
<1>7. ASSUME LineRead(c, s)', h \in 1..Len(b.chunks) PROVE GoodPlace(b)'
  <2> DEFINE d == b.chunks[h].data
             u == DataAt(b, h)
  <2>1. c = b.chunks[h] /\ Number(c.size) = Len(d) /\ Len(d) \in Nat /\ Len(d) > 0
    BY <1>7, GoodBody
  <2>2. u = s + Len(SizeLine(c)) + 2 /\ u \in Nat
    <3>1. Len(SizeLine(c)) \in Nat
      BY <1>2, SizeLineBytes
    <3> QED
      BY <1>2, <2>1, <3>1 DEF DataAt
  <2> HIDE DEF c, s, d, u
  <2>3. Going' /\ i' = u + 0 /\ ch'.state = "CH_DATA" /\ ch'.remaining = Len(d) - 0
    BY <1>7, <2>1, <2>2 DEF LineRead
  <2>4. 0 \in 0..(Len(d) - 1)
    BY <2>1
  <2>5. Passing(d, u)'
    BY <2>3, <2>4 DEF Passing
  <2> QED
    BY <1>7, <2>5 DEF GoodPlace, d, u
<1>8. ASSUME LineRead(c, s)', h = Len(b.chunks) + 1 PROVE GoodPlace(b)'
  <2> DEFINE l == TrailerLine(b, 1)
             u == TrailerAt(b, 1)
  <2>1. c = b.last /\ Number(c.size) = 0 /\ s = ChunkAt(b, Len(b.chunks) + 1)
    BY <1>8, GoodBody
  <2>2. u = s + Len(SizeLine(c)) + 2 /\ u \in Nat
    <3>1. Len(SizeLine(c)) \in Nat
      BY <1>2, SizeLineBytes
    <3> QED
      BY <1>1, <1>2, <2>1, <3>1, TrailerPlaces
  <2>3. 1 \in 1..(Len(b.trailer) + 1) /\ l \in Seq(LineBytes)
    BY <1>1, BodyTyped, TrailerLineTyped
  <2> HIDE DEF c, s, l, u
  <2>4. Going' /\ ch'.state = "CH_TRAILER" /\ ch'.line_len = 0 /\ i' = u + 0
    BY <1>8, <2>1, <2>2 DEF LineRead
  <2>5. 0 \in 0..Len(l)
    BY <2>3
  <2>6. Skipping(l, u)'
    BY <2>4, <2>5 DEF Skipping
  <2> QED
    BY <2>3, <2>6 DEF GoodPlace, l, u
<1>9. h \in 1..Len(b.chunks) \/ h = Len(b.chunks) + 1
  BY <1>1, BodyTyped
<1> QED
  BY <1>4, <1>5, <1>6, <1>7, <1>8, <1>9

\* A size line begins where the data before it has ended.
LEMMA NextLine ==
  ASSUME NEW d, NEW s, NEW c \in Chunk \cup LastLine, NEW u \in Nat, u = s + Len(d) + 2,
         Passed(d, s)'
  PROVE  Reading(c, u)'
<1>1. Len(c.size) \in Nat /\ Len(SizeLine(c)) \in Nat
  BY SizeLineBytes
<1>2. Value(c.size, 0) = 0
  BY LineTyped, ValueSteps
<1>3. HasRead(c, 0)'
  BY <1>1, <1>2 DEF Passed, HasRead
<1>4. 0 \in 0..Len(SizeLine(c)) /\ i' = u + 0
  BY <1>1 DEF Passed
<1> QED
  BY <1>3, <1>4 DEF Reading

LEMMA GoodPassStep ==
  ASSUME TypeOK, NEW b \in GoodBodies, wire = Stream(b), Scan,
         NEW h \in 1..Len(b.chunks), Passing(b.chunks[h].data, DataAt(b, h))
  PROVE  GoodPlace(b)'
<1>1. b \in Body /\ Len(b.chunks) \in Nat
  BY GoodBody, BodyTyped
<1> DEFINE d == b.chunks[h].data
           s == DataAt(b, h)
           c == LineOf(b, h + 1)
           u == ChunkAt(b, h + 1)
<1>2. d \in Seq(Bytes)
  BY GoodBody
<1>3. Within(wire, Terminated(d), s)
  <2>1. Within(Encoding(b), Terminated(d), s)
    BY <1>1, GoodPlaces
  <2> HIDE DEF d, s
  <2>2. Terminated(d) \in Seq(Bytes)
    BY <1>2, TerminatedTyped
  <2> QED
    BY <1>1, <2>1, <2>2, StreamOf
<1>4. h + 1 \in 1..(Len(b.chunks) + 1)
  BY <1>1
<1>5. c \in Chunk \cup LastLine /\ u \in Nat /\ u = s + Len(d) + 2
  BY <1>1, <1>4, LineOfTyped, ChunkEnds
<1>6. Passing(d, s)' \/ Passed(d, s)'
  <2> HIDE DEF d, s
  <2> QED
    BY <1>2, <1>3, PassStep DEF d, s
<1>7. ASSUME Passing(d, s)' PROVE GoodPlace(b)'
  BY <1>7 DEF GoodPlace
<1>8. ASSUME Passed(d, s)' PROVE GoodPlace(b)'
  <2> HIDE DEF d, s, c, u
  <2>1. Reading(c, u)'
    BY <1>5, <1>8, NextLine
  <2> QED
    BY <1>4, <2>1 DEF GoodPlace, c, u
<1> QED
  BY <1>6, <1>7, <1>8

LEMMA GoodSkipStep ==
  ASSUME TypeOK, NEW b \in GoodBodies, wire = Stream(b), Scan,
         NEW h \in 1..(Len(b.trailer) + 1), Skipping(TrailerLine(b, h), TrailerAt(b, h))
  PROVE  GoodPlace(b)'
<1>1. b \in Body /\ Len(b.trailer) \in Nat
  BY GoodBody, BodyTyped
<1> DEFINE l == TrailerLine(b, h)
           s == TrailerAt(b, h)
<1>2. l \in Seq(LineBytes) /\ (l = <<>> <=> h = Len(b.trailer) + 1)
  BY <1>1, TrailerLineTyped
<1>3. Within(wire, Terminated(l), s) /\ s \in Nat
  <2>1. Within(Encoding(b), Terminated(l), s)
    BY <1>1, TrailerPlaces
  <2> HIDE DEF l, s
  <2>2. LineBytes \subseteq Bytes
    BY DEF LineBytes
  <2>3. Terminated(l) \in Seq(Bytes)
    BY <1>2, <2>2, SeqMonotone, TerminatedTyped
  <2> QED
    BY <1>1, <2>1, <2>3, StreamOf DEF Within
<1>4. Skipping(l, s)' \/ Skipped(l, s)'
  <2> HIDE DEF l, s
  <2> QED
    BY <1>2, <1>3, SkipStep DEF l, s
<1>5. ASSUME Skipping(l, s)' PROVE GoodPlace(b)'
  BY <1>5 DEF GoodPlace
<1>6. ASSUME Skipped(l, s)', h \in 1..Len(b.trailer) PROVE GoodPlace(b)'
  <2> DEFINE m == TrailerLine(b, h + 1)
             u == TrailerAt(b, h + 1)
  <2>1. h + 1 \in 1..(Len(b.trailer) + 1) /\ l # <<>> /\ l = b.trailer[h]
    BY <1>1, <1>2, <1>6 DEF TrailerLine
  <2>2. m \in Seq(LineBytes)
    BY <1>1, <2>1, TrailerLineTyped
  <2>3. u = s + Len(l) + 2
    BY <1>1, <1>6, <2>1, TrailerPlaces
  <2>4. Within(Encoding(b), Terminated(m), u)
    BY <1>1, <2>1, TrailerPlaces
  <2> HIDE DEF l, s, m, u
  <2>5. ~ch'.error /\ ~ch'.done /\ ch'.state = "CH_TRAILER" /\ ch'.line_len = 0 /\ i' = u
    BY <1>6, <2>1, <2>3 DEF Skipped
  <2>6. 0 \in 0..Len(m) /\ u + 0 = u
    BY <2>2, <2>4 DEF Within
  <2>7. Skipping(m, u)'
    BY <2>5, <2>6 DEF Skipping, Going
  <2> QED
    BY <2>1, <2>7 DEF GoodPlace, m, u
<1>7. ASSUME Skipped(l, s)', h = Len(b.trailer) + 1 PROVE GoodPlace(b)'
  <2>1. Len(Encoding(b)) = s + 2 /\ l = <<>> /\ Len(l) = 0
    BY <1>1, <1>2, <1>7, Layout
  <2> HIDE DEF l, s
  <2>2. ch'.done /\ ~ch'.error /\ i' = Len(Encoding(b))
    BY <1>3, <1>7, <2>1 DEF Skipped
  <2> QED
    BY <2>2 DEF GoodPlace
<1>8. h \in 1..Len(b.trailer) \/ h = Len(b.trailer) + 1
  BY <1>1
<1> QED
  BY <1>4, <1>5, <1>6, <1>7, <1>8

LEMMA ScanGoing == Scan => Going
BY DEF Scan, SizeEnds, SizeCr, SizeTooLong, Extension, ExtensionBegins, SizeBad, SizeDigit,
       SizeByte, Data, DataCrlf, Trailer, Consume

LEMMA GoodStep ==
  ASSUME TypeOK, NEW b \in GoodBodies, wire = Stream(b), Scan, GoodPlace(b)
  PROVE  GoodPlace(b)'
<1>1. ~ch.done
  BY ScanGoing DEF Going
<1> QED
  BY <1>1, GoodReadStep, GoodPassStep, GoodSkipStep DEF GoodPlace

LEMMA BadBody ==
  ASSUME NEW b \in Bodies, NEW h \in 1..Len(b.chunks), FirstBad(b, h)
  PROVE  /\ b \in Body /\ Len(b.chunks) \in Nat /\ ~LineAccepted(b.chunks[h])
         /\ \A m \in 1..h : /\ m \in 1..Len(b.chunks) /\ b.chunks[m] \in Chunk
                            /\ b.chunks[m].data \in Seq(Bytes)
         /\ \A m \in 1..(h - 1) :
              /\ m \in 1..h /\ m + 1 \in 1..h /\ LineAccepted(b.chunks[m])
              /\ Number(b.chunks[m].size) = Len(b.chunks[m].data)
              /\ Len(b.chunks[m].data) \in Nat /\ Len(b.chunks[m].data) > 0
         /\ BadLineEnds(b, h) = ChunkAt(b, h) + Len(SizeLine(b.chunks[h]))
<1>1. b \in Body
  BY ChunkedBodyAssumption DEF Body
<1>2. Len(b.chunks) \in Nat /\ \A m \in 1..Len(b.chunks) : b.chunks[m] \in Chunk
  BY <1>1, BodyTyped
<1>3. \A m \in 1..h : /\ m \in 1..Len(b.chunks) /\ b.chunks[m] \in Chunk
                      /\ b.chunks[m].data \in Seq(Bytes)
  <2>1. \A m \in 1..h : m \in 1..Len(b.chunks)
    BY <1>2
  <2> QED
    BY <1>2, <2>1 DEF Chunk
<1>4. ASSUME NEW m \in 1..(h - 1)
      PROVE  /\ m \in 1..h /\ m + 1 \in 1..h /\ LineAccepted(b.chunks[m])
             /\ Number(b.chunks[m].size) = Len(b.chunks[m].data)
             /\ Len(b.chunks[m].data) \in Nat /\ Len(b.chunks[m].data) > 0
  <2>1. m \in 1..h /\ m + 1 \in 1..h
    BY <1>2
  <2>2. /\ LineAccepted(b.chunks[m]) /\ Number(b.chunks[m].size) = Len(b.chunks[m].data)
        /\ b.chunks[m].data # <<>>
    BY DEF FirstBad, ChunkAccepted
  <2>3. b.chunks[m].data \in Seq(Bytes)
    BY <1>3, <2>1
  <2> QED
    BY <2>1, <2>2, <2>3
<1>5. BadLineEnds(b, h) = ChunkAt(b, h) + Len(SizeLine(b.chunks[h]))
  BY DEF BadLineEnds, ChunkAt
<1> QED
  BY <1>1, <1>2, <1>3, <1>4, <1>5 DEF FirstBad

LEMMA BadPlaces ==
  ASSUME NEW b \in Bodies, NEW h \in 1..Len(b.chunks), FirstBad(b, h), NEW m \in 1..h
  PROVE  /\ Within(Stream(b), Terminated(SizeLine(b.chunks[m])), ChunkAt(b, m))
         /\ Within(Stream(b), Terminated(b.chunks[m].data), DataAt(b, m))
         /\ b.chunks[m] \in Chunk \cup LastLine /\ ChunkAt(b, m) \in Nat /\ DataAt(b, m) \in Nat
         /\ DataAt(b, m) = ChunkAt(b, m) + Len(SizeLine(b.chunks[m])) + 2
         /\ Len(SizeLine(b.chunks[m])) \in Nat
<1>1. /\ b \in Body /\ m \in 1..Len(b.chunks) /\ b.chunks[m] \in Chunk \cup LastLine
      /\ b.chunks[m].data \in Seq(Bytes) /\ m \in 1..(Len(b.chunks) + 1)
  BY BadBody
<1>2. LineOf(b, m) = b.chunks[m]
  BY <1>1 DEF LineOf
<1>3. /\ Terminated(SizeLine(b.chunks[m])) \in Seq(Bytes)
      /\ Len(SizeLine(b.chunks[m])) \in Nat
  BY <1>1, LineTyped, SizeLineBytes
<1>4. Terminated(b.chunks[m].data) \in Seq(Bytes)
  BY <1>1, TerminatedTyped
<1>5. /\ Within(Encoding(b), Terminated(SizeLine(b.chunks[m])), ChunkAt(b, m))
      /\ Within(Encoding(b), Terminated(b.chunks[m].data), DataAt(b, m))
  BY <1>1, <1>2, GoodPlaces
<1>6. ChunkAt(b, m) \in Nat /\ DataAt(b, m) \in Nat
  BY <1>5 DEF Within
<1>7. Within(Stream(b), Terminated(SizeLine(b.chunks[m])), ChunkAt(b, m))
  BY <1>1, <1>3, <1>5, StreamOf
<1>8. Within(Stream(b), Terminated(b.chunks[m].data), DataAt(b, m))
  BY <1>1, <1>4, <1>5, StreamOf
<1> QED
  BY <1>1, <1>3, <1>6, <1>7, <1>8 DEF DataAt

LEMMA BadReadStep ==
  ASSUME TypeOK, NEW b \in Bodies, NEW h \in 1..Len(b.chunks), FirstBad(b, h), wire = Stream(b),
         Scan, NEW m \in 1..h, Reading(b.chunks[m], ChunkAt(b, m))
  PROVE  BadPlace(b, h)'
<1> DEFINE c == b.chunks[m]
           s == ChunkAt(b, m)
<1>1. /\ c \in Chunk \cup LastLine /\ Within(wire, Terminated(SizeLine(c)), s) /\ s \in Nat
      /\ Len(SizeLine(c)) \in Nat
  BY BadPlaces
<1>2. Reading(c, s)' \/ RefusedAt(c, s)' \/ LineRead(c, s)'
  <2> HIDE DEF c, s
  <2> QED
    BY <1>1, ReadStep DEF c, s
<1>3. ASSUME Reading(c, s)' PROVE BadPlace(b, h)'
  BY <1>3 DEF BadPlace
<1>4. m = h \/ m \in 1..(h - 1)
  OBVIOUS
<1>5. ASSUME RefusedAt(c, s)' PROVE BadPlace(b, h)'
  <2>1. ~LineAccepted(c)
    <3> HIDE DEF c, s
    <3>1. PICK p \in 1..Len(SizeLine(c)) : Fault(c, p)
      BY <1>5 DEF RefusedAt
    <3> QED
      BY <1>1, <3>1, NoFault
  <2>2. m = h
    BY <1>4, <2>1, BadBody
  <2>3. BadLineEnds(b, h) = s + Len(SizeLine(c))
    BY <2>2, BadBody
  <2> HIDE DEF c, s
  <2>4. ch'.error /\ ~ch'.done /\ i' <= s + Len(SizeLine(c))
    BY <1>1, <1>5 DEF RefusedAt
  <2> QED
    BY <2>3, <2>4 DEF BadPlace
<1>6. ASSUME LineRead(c, s)' PROVE BadPlace(b, h)'
  <2> DEFINE d == b.chunks[m].data
             u == DataAt(b, m)
  <2>1. m \in 1..(h - 1)
    <3>1. LineAccepted(c)
      BY <1>6 DEF LineRead
    <3> QED
      BY <1>4, <3>1, BadBody
  <2>2. Number(c.size) = Len(d) /\ Len(d) \in Nat /\ Len(d) > 0
    BY <2>1, BadBody
  <2>3. u = s + Len(SizeLine(c)) + 2 /\ u \in Nat
    BY BadPlaces
  <2> HIDE DEF c, s, d, u
  <2>4. Going' /\ i' = u + 0 /\ ch'.state = "CH_DATA" /\ ch'.remaining = Len(d) - 0
    BY <1>6, <2>2, <2>3 DEF LineRead
  <2>5. 0 \in 0..(Len(d) - 1)
    BY <2>2
  <2>6. Passing(d, u)'
    BY <2>4, <2>5 DEF Passing
  <2> QED
    BY <2>1, <2>6 DEF BadPlace, d, u
<1> QED
  BY <1>2, <1>3, <1>5, <1>6

LEMMA BadPassStep ==
  ASSUME TypeOK, NEW b \in Bodies, NEW h \in 1..Len(b.chunks), FirstBad(b, h), wire = Stream(b),
         Scan, NEW m \in 1..(h - 1), Passing(b.chunks[m].data, DataAt(b, m))
  PROVE  BadPlace(b, h)'
<1> DEFINE d == b.chunks[m].data
           s == DataAt(b, m)
           c == b.chunks[m + 1]
           u == ChunkAt(b, m + 1)
<1>1. m \in 1..h /\ m + 1 \in 1..h /\ m \in 1..Len(b.chunks) /\ b \in Body /\ d \in Seq(Bytes)
  BY BadBody
<1>2. Within(wire, Terminated(d), s)
  BY <1>1, BadPlaces
<1>3. c \in Chunk \cup LastLine /\ u \in Nat
  BY <1>1, BadPlaces
<1>4. u = s + Len(d) + 2
  BY <1>1, ChunkEnds
<1>5. Passing(d, s)' \/ Passed(d, s)'
  <2> HIDE DEF d, s
  <2> QED
    BY <1>1, <1>2, PassStep DEF d, s
<1>6. ASSUME Passing(d, s)' PROVE BadPlace(b, h)'
  BY <1>6 DEF BadPlace
<1>7. ASSUME Passed(d, s)' PROVE BadPlace(b, h)'
  <2> HIDE DEF d, s, c, u
  <2>1. Reading(c, u)'
    BY <1>3, <1>4, <1>7, NextLine
  <2> QED
    BY <1>1, <2>1 DEF BadPlace, c, u
<1> QED
  BY <1>5, <1>6, <1>7

LEMMA BadStep ==
  ASSUME TypeOK, NEW b \in Bodies, NEW h \in 1..Len(b.chunks), FirstBad(b, h), wire = Stream(b),
         Scan, BadPlace(b, h)
  PROVE  BadPlace(b, h)'
<1>1. ~ch.error
  BY ScanGoing DEF Going
<1> QED
  BY <1>1, BadReadStep, BadPassStep DEF BadPlace

----------------------------------------------------------------------------
(* Chunked bodies: where they end, and where they are refused.             *)

\* A line that begins the body is about to be read.
LEMMA FirstLine ==
  ASSUME hp_chunked_init, NEW c \in Chunk \cup LastLine
  PROVE  Reading(c, 0)
<1>1. Len(c.size) \in Nat /\ Len(SizeLine(c)) \in Nat
  BY SizeLineBytes
<1>2. Value(c.size, 0) = 0
  BY LineTyped, ValueSteps
<1>3. HasRead(c, 0)
  BY <1>1, <1>2 DEF hp_chunked_init, HasRead, Going
<1>4. 0 \in 0..Len(SizeLine(c)) /\ i = 0 + 0
  BY <1>1 DEF hp_chunked_init
<1> QED
  BY <1>3, <1>4 DEF Reading

LEMMA PlacesInit == hp_chunked_init => PlacesInv
<1> SUFFICES ASSUME hp_chunked_init PROVE PlacesInv
  OBVIOUS
<1>1. ASSUME NEW b \in GoodBodies PROVE GoodPlace(b)
  <2>1. b \in Body /\ 1 \in 1..(Len(b.chunks) + 1)
    BY GoodBody, BodyTyped
  <2>2. LineOf(b, 1) \in Chunk \cup LastLine /\ ChunkAt(b, 1) = 0
    BY <2>1, LineOfTyped, ChunkEnds
  <2>3. Reading(LineOf(b, 1), ChunkAt(b, 1))
    BY <2>2, FirstLine
  <2> QED
    BY <2>1, <2>3 DEF GoodPlace
<1>2. ASSUME NEW b \in Bodies, NEW h \in 1..Len(b.chunks), FirstBad(b, h) PROVE BadPlace(b, h)
  <2>1. b \in Body /\ 1 \in 1..h
    BY <1>2, BadBody
  <2>2. b.chunks[1] \in Chunk \cup LastLine /\ ChunkAt(b, 1) = 0
    BY <1>2, <2>1, BadPlaces, ChunkEnds
  <2>3. Reading(b.chunks[1], ChunkAt(b, 1))
    BY <2>2, FirstLine
  <2> QED
    BY <2>1, <2>3 DEF BadPlace
<1> QED
  BY <1>1, <1>2 DEF PlacesInv

LEMMA PlacesStep == TypeOK /\ PlacesInv /\ [hp_chunked_feed]_chunked_vars => PlacesInv'
<1> SUFFICES ASSUME TypeOK, PlacesInv, [hp_chunked_feed]_chunked_vars PROVE PlacesInv'
  OBVIOUS
<1>1. CASE Feed \/ UNCHANGED chunked_vars
  <2>1. UNCHANGED <<wire, ch, i>>
    BY <1>1 DEF Feed, chunked_vars
  <2> QED
    BY <2>1 DEF PlacesInv, GoodPlace, BadPlace, Reading, HasRead, Passing, Skipping, Going
<1>2. CASE Scan
  <2>1. wire' = wire
    BY <1>2 DEF Scan, SizeEnds, SizeCr, SizeTooLong, Extension, ExtensionBegins, SizeBad, SizeDigit,
                SizeByte, Data, DataCrlf, Trailer, Consume
  <2>2. ASSUME NEW b \in GoodBodies, wire' = Stream(b) PROVE GoodPlace(b)'
    BY <1>2, <2>1, <2>2, GoodStep DEF PlacesInv
  <2>3. ASSUME NEW b \in Bodies, NEW h \in 1..Len(b.chunks), FirstBad(b, h), wire' = Stream(b)
        PROVE  BadPlace(b, h)'
    BY <1>2, <2>1, <2>3, BadStep DEF PlacesInv
  <2> QED
    BY <2>2, <2>3 DEF PlacesInv
<1> QED
  BY <1>1, <1>2 DEF hp_chunked_feed

\* Who is in a part of a sequence is not at the end of it.
LEMMA NotAtEnd ==
  ASSUME NEW w \in Seq(Bytes), NEW p \in Seq(Bytes), NEW s, Within(w, Terminated(p), s)
  PROVE  /\ s \in Nat /\ Len(p) \in Nat /\ Len(w) \in Nat /\ s + Len(p) + 2 <= Len(w)
         /\ \A t \in 0..Len(p) : s + t < Len(w) /\ s + t + 1 < Len(w)
<1>1. /\ s \in Nat /\ Len(p) \in Nat /\ Len(w) \in Nat
      /\ s + (Len(p) + 2) <= Len(w)
  <2>1. Len(p) \in Nat /\ Len(w) \in Nat
    OBVIOUS
  <2>2. Len(Terminated(p)) = Len(p) + 2
    BY TerminatedTyped
  <2> QED
    BY <2>1, <2>2 DEF Within
<1>2. s + (Len(p) + 2) = s + Len(p) + 2
  BY <1>1
<1> QED
  BY <1>1, <1>2

LEMMA GoodVerdict ==
  ASSUME NEW b \in GoodBodies, GoodPlace(b)
  PROVE  ~ch.error /\ (ch.done <=> i = Len(Encoding(b)))
<1>1. b \in Body /\ Encoding(b) \in Seq(Bytes)
  BY GoodBody, Layout
<1> DEFINE w == Encoding(b)
<1>2. ASSUME NEW p \in Seq(Bytes), NEW s, Within(w, Terminated(p), s), Going,
             NEW t \in 0..Len(p), i = s + t \/ i = s + t + 1
      PROVE  ~ch.error /\ (ch.done <=> i = Len(w))
  <2> HIDE DEF w
  <2>1. s \in Nat /\ t \in Nat /\ Len(w) \in Nat /\ s + t < Len(w) /\ s + t + 1 < Len(w)
    BY <1>1, <1>2, NotAtEnd DEF w
  <2> QED
    BY <1>2, <2>1 DEF Going
<1>3. ASSUME NEW h \in 1..(Len(b.chunks) + 1), Reading(LineOf(b, h), ChunkAt(b, h))
      PROVE  ~ch.error /\ (ch.done <=> i = Len(w))
  <2>1. /\ SizeLine(LineOf(b, h)) \in Seq(Bytes)
        /\ Within(w, Terminated(SizeLine(LineOf(b, h))), ChunkAt(b, h))
    BY <1>1, LineOfTyped, LineTyped, GoodPlaces
  <2>2. PICK t \in 0..Len(SizeLine(LineOf(b, h))) :
          Going /\ (i = ChunkAt(b, h) + t \/ i = ChunkAt(b, h) + t + 1)
    BY <1>3 DEF Reading, HasRead
  <2> HIDE DEF w
  <2> QED
    BY <1>2, <2>1, <2>2
<1>4. ASSUME NEW h \in 1..Len(b.chunks), Passing(b.chunks[h].data, DataAt(b, h))
      PROVE  ~ch.error /\ (ch.done <=> i = Len(w))
  <2> DEFINE d == b.chunks[h].data
  <2>1. d \in Seq(Bytes) /\ Within(w, Terminated(d), DataAt(b, h)) /\ Len(d) \in Nat
    BY <1>1, GoodBody, GoodPlaces
  <2> HIDE DEF d, w
  <2>2. PICK t \in 0..Len(d) : Going /\ (i = DataAt(b, h) + t \/ i = DataAt(b, h) + t + 1)
    <3>1. Len(d) \in 0..Len(d) /\ \A j \in 0..(Len(d) - 1) : j \in 0..Len(d)
      BY <2>1
    <3>2. Passing(d, DataAt(b, h))
      BY <1>4 DEF d
    <3> QED
      BY <3>1, <3>2 DEF Passing
  <2> QED
    BY <1>2, <2>1, <2>2
<1>5. ASSUME NEW h \in 1..(Len(b.trailer) + 1), Skipping(TrailerLine(b, h), TrailerAt(b, h))
      PROVE  ~ch.error /\ (ch.done <=> i = Len(w))
  <2>1. LineBytes \subseteq Bytes
    BY DEF LineBytes
  <2>2. /\ TrailerLine(b, h) \in Seq(Bytes)
        /\ Within(w, Terminated(TrailerLine(b, h)), TrailerAt(b, h))
    BY <1>1, <2>1, TrailerLineTyped, TrailerPlaces, SeqMonotone
  <2>3. PICK t \in 0..Len(TrailerLine(b, h)) :
          Going /\ (i = TrailerAt(b, h) + t \/ i = TrailerAt(b, h) + t + 1)
    BY <1>5 DEF Skipping
  <2> HIDE DEF w
  <2> QED
    BY <1>2, <2>2, <2>3
<1> QED
  BY <1>3, <1>4, <1>5 DEF GoodPlace

LEMMA BadVerdict ==
  ASSUME NEW b \in Bodies, NEW h \in 1..Len(b.chunks), FirstBad(b, h), BadPlace(b, h)
  PROVE  ~ch.done /\ i <= BadLineEnds(b, h) /\ (i = BadLineEnds(b, h) => ch.error)
<1> DEFINE n == ChunkAt(b, h) + Len(SizeLine(b.chunks[h]))
<1>1. /\ b \in Body /\ h \in 1..h /\ BadLineEnds(b, h) = n /\ ChunkAt(b, h) \in Nat
      /\ Len(SizeLine(b.chunks[h])) \in Nat /\ n \in Nat /\ ChunkAt(b, h) <= n
  <2>1. h \in 1..h /\ b \in Body /\ BadLineEnds(b, h) = n
    BY BadBody
  <2>2. ChunkAt(b, h) \in Nat /\ Len(SizeLine(b.chunks[h])) \in Nat
    BY <2>1, BadPlaces
  <2> QED
    BY <2>1, <2>2
<1>2. ASSUME Going, i \in Nat, i < n
      PROVE  ~ch.done /\ i <= n /\ (i = n => ch.error)
  <2> HIDE DEF n
  <2> QED
    BY <1>1, <1>2 DEF Going
<1>3. ASSUME NEW m \in 1..(h - 1)
      PROVE  /\ ChunkAt(b, m) \in Nat /\ DataAt(b, m) \in Nat
             /\ Len(SizeLine(b.chunks[m])) \in Nat /\ Len(b.chunks[m].data) \in Nat
             /\ DataAt(b, m) = ChunkAt(b, m) + Len(SizeLine(b.chunks[m])) + 2
             /\ DataAt(b, m) + Len(b.chunks[m].data) + 2 <= n
  <2>1. m \in 1..h /\ Len(b.chunks[m].data) \in Nat
    BY BadBody
  <2>2. DataAt(b, m) + Len(b.chunks[m].data) + 2 <= ChunkAt(b, h)
    BY <1>1, ChunksBefore
  <2>3. /\ ChunkAt(b, m) \in Nat /\ DataAt(b, m) \in Nat /\ Len(SizeLine(b.chunks[m])) \in Nat
        /\ DataAt(b, m) = ChunkAt(b, m) + Len(SizeLine(b.chunks[m])) + 2
    BY <2>1, BadPlaces
  <2> DEFINE x == DataAt(b, m) + Len(b.chunks[m].data) + 2
  <2>4. x \in Nat /\ x <= ChunkAt(b, h)
    BY <2>1, <2>2, <2>3
  <2> HIDE DEF n, x
  <2>5. x <= n
    BY <1>1, <2>4
  <2> QED
    BY <2>1, <2>3, <2>5 DEF x
<1>4. ASSUME NEW m \in 1..(h - 1), Reading(b.chunks[m], ChunkAt(b, m)) PROVE Going /\ i \in Nat /\ i < n
  <2>1. PICK t \in 0..Len(SizeLine(b.chunks[m])) :
          Going /\ (i = ChunkAt(b, m) + t \/ i = ChunkAt(b, m) + t + 1)
    BY <1>4 DEF Reading, HasRead
  <2> DEFINE s == ChunkAt(b, m)
             x == Len(SizeLine(b.chunks[m]))
             y == Len(b.chunks[m].data)
  <2>2. /\ s \in Nat /\ x \in Nat /\ y \in Nat /\ (s + x + 2) + y + 2 <= n /\ t \in 0..x
        /\ Going /\ (i = s + t \/ i = s + t + 1)
    BY <1>3, <2>1
  <2> HIDE DEF n, s, x, y
  <2> QED
    BY <1>1, <2>2
<1>5. ASSUME NEW m \in 1..(h - 1), Passing(b.chunks[m].data, DataAt(b, m)) PROVE Going /\ i \in Nat /\ i < n
  <2> DEFINE d == b.chunks[m].data
             s == DataAt(b, m)
  <2>1. Len(d) \in Nat /\ s \in Nat /\ s + Len(d) + 2 <= n
    BY <1>3
  <2> HIDE DEF n, d, s
  <2>2. Passing(d, s)
    BY <1>5 DEF d, s
  <2>3. Going /\ ((\E j \in 0..(Len(d) - 1) : i = s + j) \/ i = s + Len(d) \/ i = s + Len(d) + 1)
    BY <2>2 DEF Passing
  <2> QED
    BY <1>1, <2>1, <2>3
<1>6. ASSUME Reading(b.chunks[h], ChunkAt(b, h)) PROVE Going /\ i \in Nat /\ i < n
  <2> DEFINE c == b.chunks[h]
             s == ChunkAt(b, h)
  <2>1. c \in Chunk \cup LastLine /\ ~LineAccepted(c) /\ Len(SizeLine(c)) \in Nat /\ s \in Nat
        /\ n = s + Len(SizeLine(c))
    BY <1>1, BadBody
  <2> HIDE DEF n, c, s
  <2>2. PICK t \in 0..Len(SizeLine(c)) :
          HasRead(c, t) /\ (i = s + t \/ (t = Len(SizeLine(c)) /\ i = s + t + 1))
    BY <1>6 DEF Reading, c, s
  <2>3. t # Len(SizeLine(c))
    BY <2>1, <2>2, NoFault DEF HasRead
  <2> QED
    BY <2>1, <2>2, <2>3 DEF HasRead
<1>7. ASSUME NEW m \in 1..h, Reading(b.chunks[m], ChunkAt(b, m)) PROVE Going /\ i \in Nat /\ i < n
  <2>1. m = h \/ m \in 1..(h - 1)
    OBVIOUS
  <2> QED
    BY <1>4, <1>6, <1>7, <2>1
<1> QED
  BY <1>1, <1>2, <1>5, <1>7 DEF BadPlace

(***************************************************************************)
(* However a chunked body is cut, whatever its chunks, its trailer and what *)
(* follows it, and whatever the limits: hp_chunked_feed finds its end at its*)
(* last byte, and refuses it at or before the end of its first bad line.   *)
(***************************************************************************)
THEOREM BodiesDelimited == ChunkedSpec => []Agrees
<1>1. PlacesInv => Agrees
  <2> SUFFICES ASSUME PlacesInv PROVE EndFound /\ BadRefused
    BY DEF Agrees
  <2>1. EndFound
    <3> SUFFICES ASSUME NEW b \in GoodBodies, wire = Stream(b)
                 PROVE  ~ch.error /\ (ch.done <=> i = Len(Encoding(b)))
      BY DEF EndFound, GoodStreams
    <3>1. GoodPlace(b)
      BY DEF PlacesInv
    <3> QED
      BY <3>1, GoodVerdict
  <2>2. BadRefused
    <3> SUFFICES ASSUME NEW b \in Bodies, NEW h \in DOMAIN b.chunks, FirstBad(b, h),
                        wire = Stream(b)
                 PROVE  ~ch.done /\ i <= BadLineEnds(b, h) /\ (i = BadLineEnds(b, h) => ch.error)
      BY DEF BadRefused, BadStreams, BadBodies
    <3>1. h \in 1..Len(b.chunks)
      BY ChunkedBodyAssumption
    <3>2. BadPlace(b, h)
      BY <3>1 DEF PlacesInv
    <3> QED
      BY <3>1, <3>2, BadVerdict
  <2> QED
    BY <2>1, <2>2
<1>2. ChunkedSpec => []TypeOK
  BY NeverWraps
<1> QED
  BY <1>1, <1>2, PlacesInit, PlacesStep, PTL DEF ChunkedSpec
=============================================================================
