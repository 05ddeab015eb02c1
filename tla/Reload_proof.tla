---------------------------- MODULE Reload_proof ----------------------------
(***************************************************************************)
(* Proofs about Reload, for any files, any width of int, any hash and any  *)
(* number of loads: what the parser has built agrees with the file it      *)
(* reads, what is published with the file it comes from, and what a lookup *)
(* finds in a table with the routes that the table was built from.         *)
(***************************************************************************)
EXTENDS Reload, NaturalsInduction, WellFoundedInduction, FiniteSetTheorems, SequenceTheorems, TLAPS

----------------------------------------------------------------------------
(* The inductive invariant.                                                *)

Parts == {"idle", "global", "backends", "frontends", "routes", "loaded", "rejected"}

\* What a config is made of.
Server  == [addr : Address, weight : Int]
Times   == [interval : Int, timeout : Int, rise : Int, fall : Int]
Built   == [name : STRING, servers : Seq(Server), health : Times]
Route   == [host : Host, backend_index : Nat]
Served   == [listen : Address, routes : Seq(Route)]
Configs == [workers : Int, max_conns : Int, backends : Seq(Built), frontends : Seq(Served)]

ParseTypes ==
  /\ loading \in Files /\ live \in Files
  /\ pc \in Parts /\ n \in Nat \ {0} /\ cfg \in Configs

\* How far the parser has come with either list.
Progress ==
  /\ pc = "global" => cfg.backends = <<>>
  /\ pc = "backends" => n = Len(cfg.backends) + 1 /\ Len(cfg.backends) <= Len(loading.backends)
  /\ pc \in {"frontends", "routes", "loaded"} => Len(cfg.backends) = Len(loading.backends)
  /\ Len(cfg.frontends) <= Len(loading.frontends)
  /\ pc \in {"global", "backends"} => cfg.frontends = <<>>
  /\ pc = "routes" => cfg.frontends # <<>>
  /\ pc = "loaded" => cfg.frontends # <<>> /\ Len(cfg.frontends) = Len(loading.frontends)

Sound(h) == h.timeout > 0 /\ h.timeout < h.interval

\* What it has built agrees with what it read.
Agrees ==
  /\ \A j \in 1..Len(cfg.frontends) : cfg.frontends[j].listen = loading.frontends[j].listen
  /\ \A j \in 1..Len(cfg.backends) : Sound(cfg.backends[j].health)

Inv ==
  /\ ParseTypes /\ Progress /\ Agrees
  /\ listeners \in Seq(Int) /\ ServesItsFrontend /\ NumbersFit

----------------------------------------------------------------------------
(* Loops: what the recursive functions of Routes amount to.                *)

LEMMA LeastNat ==
  ASSUME NEW T, T \subseteq Nat, T # {}
  PROVE  \E x \in T : \A y \in T : x <= y
<1> DEFINE R == {xy \in Nat \X Nat : xy[1] < xy[2]}
<1>1. IsWellFoundedOn(R, Nat)
  BY NatLessThanWellFounded DEF OpToRel
<1> HIDE DEF R
<1>2. \E x \in T : \A y \in T : ~ (<<y, x>> \in R)
  BY <1>1, WFMin
<1>3. \A x, y \in Nat : <<y, x>> \notin R => x <= y
  BY DEF R
<1> QED
  BY <1>2, <1>3

\* What holds at the start and is kept by each turn holds at the end.
LEMMA Climb ==
  ASSUME NEW N \in Nat, NEW G, 0 \in G, \A m \in 1..N : m - 1 \in G => m \in G
  PROVE  \A m \in 0..N : m \in G
<1> DEFINE Bad == {m \in 0..N : m \notin G}
<1> SUFFICES ASSUME Bad # {} PROVE FALSE
  OBVIOUS
<1>1. PICK m \in Bad : \A k \in Bad : m <= k
  <2>1. Bad \subseteq Nat
    OBVIOUS
  <2> HIDE DEF Bad
  <2> QED
    BY <2>1, LeastNat
<1>2. m \in 1..N /\ m - 1 \in 0..N
  BY <1>1
<1>3. m - 1 \notin Bad
  BY <1>1, <1>2
<1> QED
  BY <1>1, <1>2, <1>3

\* A loop whose turns are functions on a set has a result in it.
Runs(f, N, X, base, F) ==
  /\ f \in [0..N -> X] /\ f[0] = base
  /\ \A m \in 1..N : f[m] = F[m][f[m - 1]]

LEMMA Loop ==
  ASSUME NEW N \in Nat, NEW X, NEW base \in X, NEW F \in [1..N -> [X -> X]]
  PROVE  \E f : Runs(f, N, X, base, F)
<1> DEFINE Upto(f, u) == /\ f \in [0..u -> X] /\ f[0] = base
                         /\ \A m \in 1..u : f[m] = F[m][f[m - 1]]
           G == {u \in 0..N : \E f : Upto(f, u)}
<1>1. 0 \in G
  <2>1. Upto([m \in 0..0 |-> base], 0)
    OBVIOUS
  <2> HIDE DEF Upto
  <2> QED
    BY <2>1
<1>2. ASSUME NEW u \in 1..N, u - 1 \in G PROVE u \in G
  <2>1. PICK f : Upto(f, u - 1)
    BY <1>2
  <2> DEFINE g == [m \in 0..u |-> IF m < u THEN f[m] ELSE F[u][f[u - 1]]]
  <2>2. f[u - 1] \in X /\ F[u][f[u - 1]] \in X
    BY <2>1
  <2>3. g \in [0..u -> X]
    BY <2>1, <2>2
  <2>4. ASSUME NEW m \in 1..u PROVE g[m] = F[m][g[m - 1]]
    <3>1. CASE m \in 1..(u - 1)
      BY <3>1, <2>1
    <3>2. CASE m = u
      BY <3>2
    <3> QED
      BY <3>1, <3>2
  <2>5. Upto(g, u)
    BY <2>1, <2>3, <2>4
  <2> HIDE DEF Upto, g
  <2> QED
    BY <2>5
<1>3. \A m \in 0..N : m \in G
  <2>1. \A u \in 1..N : u - 1 \in G => u \in G
    BY <1>2
  <2> HIDE DEF G
  <2> QED
    BY <1>1, <2>1, Climb
<1>4. PICK f : Upto(f, N)
  BY <1>3
<1> QED
  BY <1>4 DEF Runs

\* The last of a set of positions.
LEMMA LastOf ==
  ASSUME NEW N \in Nat, NEW S, S \subseteq 0..N, S # {}
  PROVE  Max(S) \in S /\ \A y \in S : Max(S) >= y
<1> DEFINE T == {N - x : x \in S}
<1>0. \A x \in S : x \in 0..N /\ N - x \in Nat
  OBVIOUS
<1>1. T \subseteq Nat /\ T # {}
  BY <1>0
<1>2. PICK t \in T : \A y \in T : t <= y
  <2> HIDE DEF T
  <2> QED
    BY <1>1, LeastNat
<1>3. PICK j \in S : t = N - j
  BY <1>2
<1>4. \A m \in S : N - m \in T
  OBVIOUS
<1>5. \A m \in S : N - j <= N - m
  BY <1>2, <1>3, <1>4
<1> HIDE DEF T
<1>6. \A m \in S : j >= m
  BY <1>0, <1>5
<1> QED
  BY <1>6 DEF Max

\* The pool of the first entry of those that match is that of the least.
LEMMA FirstIs ==
  ASSUME NEW entries, NEW S, S \subseteq Nat, S # {}
  PROVE  \E j \in S : /\ First(entries, S) = entries[j].backend_index
                      /\ \A m \in S : j <= m
<1>1. PICK j \in S : \A m \in S : j <= m
  BY LeastNat
<1>2. Min(S) \in S /\ \A m \in S : Min(S) <= m
  BY <1>1 DEF Min
<1> QED
  BY <1>2 DEF First

----------------------------------------------------------------------------
(* The number of buckets.                                                  *)

LEMMA PowerPositive ==
  ASSUME NEW want \in Nat
  PROVE  next_pow2(want) \in Nat \ {0}
<1> DEFINE Is(f) == f = [e \in 0..want |-> IF e = 0 THEN 8 ELSE 2 * f[e - 1]]
           power == CHOOSE f : Is(f)
           Up2(e) == power[e] >= want /\ \A d \in 0..(e - 1) : power[d] < want
           e0 == CHOOSE e \in 0..want : Up2(e)
<1>1. next_pow2(want) = power[e0]
  BY DEF next_pow2
<1>2. Is(power)
  <2> DEFINE F == [m \in 1..want |-> [x \in Nat |-> 2 * x]]
  <2>1. F \in [1..want -> [Nat -> Nat]]
    OBVIOUS
  <2>2. \A m \in 1..want : \A x \in Nat : F[m][x] = 2 * x
    OBVIOUS
  <2> HIDE DEF F
  <2>3. PICK f : Runs(f, want, Nat, 8, F)
    BY <2>1, Loop
  <2>4. \A m \in 0..want : f[m] = IF m = 0 THEN 8 ELSE 2 * f[m - 1]
    <3> TAKE m \in 0..want
    <3>1. CASE m = 0
      BY <2>3, <3>1 DEF Runs
    <3>2. CASE m \in 1..want
      <4>1. f[m - 1] \in Nat
        BY <3>2, <2>3 DEF Runs
      <4>2. f[m] = F[m][f[m - 1]]
        BY <2>3, <3>2 DEF Runs
      <4>3. F[m][f[m - 1]] = 2 * f[m - 1]
        BY <2>2, <3>2, <4>1
      <4> QED
        BY <3>2, <4>2, <4>3
    <3> QED
      BY <3>1, <3>2
  <2>5. f = [m \in 0..want |-> f[m]]
    BY <2>3 DEF Runs
  <2>6. Is(f)
    BY <2>4, <2>5
  <2> QED
    BY <2>6
<1> HIDE DEF power
<1>3. \A e \in 0..want : power[e] = IF e = 0 THEN 8 ELSE 2 * power[e - 1]
  BY <1>2
<1> HIDE DEF Is
<1>4. \A e \in 0..want : e \in {d \in 0..want : power[d] \in Nat /\ power[d] > d}
  <2> DEFINE G == {d \in 0..want : power[d] \in Nat /\ power[d] > d}
  <2>1. 0 \in G
    BY <1>3
  <2>2. \A m \in 1..want : m - 1 \in G => m \in G
    <3> SUFFICES ASSUME NEW m \in 1..want, m - 1 \in G PROVE m \in G
      OBVIOUS
    <3>1. power[m] = 2 * power[m - 1]
      BY <1>3
    <3> QED
      BY <3>1
  <2> HIDE DEF G
  <2>3. \A e \in 0..want : e \in G
    BY <2>1, <2>2, Climb
  <2> QED
    BY <2>3 DEF G
<1>5. \E e \in 0..want : Up2(e)
  <2> DEFINE T == {e \in 0..want : power[e] >= want}
  <2>1. want \in T /\ T \subseteq Nat
    BY <1>4
  <2>2. PICK e \in T : \A d \in T : e <= d
    <3> HIDE DEF T
    <3> QED
      BY <2>1, LeastNat
  <2>3. \A d \in 0..(e - 1) : d \in 0..want /\ d \notin T /\ power[d] \in Nat
    BY <1>4, <2>2
  <2>4. Up2(e)
    BY <2>2, <2>3
  <2> QED
    BY <2>2, <2>4
<1>6. e0 \in 0..want
  <2> HIDE DEF Up2
  <2> QED
    BY <1>5
<1> HIDE DEF e0
<1> QED
  BY <1>1, <1>4, <1>6

LEMMA BucketsPositive ==
  ASSUME NEW routes, Len(routes) \in Nat, DOMAIN routes = 1..Len(routes)
  PROVE  Buckets(routes) \in Nat \ {0}
<1> DEFINE E == {j \in DOMAIN routes : routes[j].host.form = "exact"}
<1>1. E \subseteq 1..Len(routes)
  OBVIOUS
<1>2. IsFiniteSet(1..Len(routes))
  BY FS_Interval
<1> HIDE DEF E
<1>3. Cardinality(E) \in Nat
  BY <1>1, <1>2, FS_Subset, FS_CardinalityType
<1>4. 2 * Cardinality(E) + 1 \in Nat
  BY <1>3
<1> QED
  BY <1>4, PowerPositive DEF Buckets, E

----------------------------------------------------------------------------
(* The wildcards.                                                          *)

Size(r) == Len(r.host.labels)

LEMMA SizeNat == ASSUME NEW r \in Route PROVE Size(r) \in Nat
<1>1. r.host \in Host
  BY DEF Route
<1>2. CASE r.host \in [form : {"exact", "wild"}, labels : Seq(STRING), labels_ok : BOOLEAN]
  BY <1>2 DEF Size
<1>3. CASE r.host \in [form : {"default"}, labels : {<<>>}, labels_ok : {TRUE}]
  <2>1. r.host.labels = <<>>
    BY <1>3
  <2> QED
    BY <2>1 DEF Size
<1> QED
  BY <1>1, <1>2, <1>3 DEF Host

Sorted(w) == \A j, k \in 1..Len(w) : j < k => Size(w[j]) >= Size(w[k])

\* v is w with an element more, at i.
Inserted(v, w, i, key) ==
  /\ i \in 1..(Len(w) + 1) /\ Len(v) = Len(w) + 1 /\ v[i] = key
  /\ \A j \in 1..(i - 1) : v[j] = w[j]
  /\ \A j \in (i + 1)..Len(v) : v[j] = w[j - 1]

LEMMA InsertAtIs ==
  ASSUME NEW S, NEW w \in Seq(S), NEW i \in 1..(Len(w) + 1), NEW e \in S
  PROVE  InsertAt(w, i, e) \in Seq(S) /\ Inserted(InsertAt(w, i, e), w, i, e)
<1> DEFINE front == SubSeq(w, 1, i - 1)
           back  == SubSeq(w, i, Len(w))
<1>1. /\ front \in Seq(S) /\ Len(front) = i - 1 /\ Len(w) \in Nat
      /\ \A j \in 1..(i - 1) : front[j] = w[j]
  OBVIOUS
<1>2. /\ back \in Seq(S) /\ Len(back) = Len(w) - i + 1
      /\ \A j \in 1..(Len(w) - i + 1) : back[j] = w[i + j - 1]
  <2>1. CASE i = Len(w) + 1
    BY <2>1
  <2>2. CASE i <= Len(w)
    BY <2>2, SubSeqProperties
  <2> QED
    BY <2>1, <2>2
<1> HIDE DEF front, back
<1> DEFINE head == front \o <<e>>
<1>3. head \in Seq(S) /\ Len(head) = i /\ head[i] = e /\ \A j \in 1..(i - 1) : head[j] = w[j]
  BY <1>1
<1> HIDE DEF head
<1> DEFINE v == head \o back
<1>4. /\ v \in Seq(S) /\ Len(v) = Len(w) + 1
      /\ \A j \in 1..i : v[j] = head[j]
      /\ \A j \in (i + 1)..(Len(w) + 1) : v[j] = back[j - i]
  BY <1>1, <1>2, <1>3
<1> HIDE DEF v
<1>5. \A j \in (i + 1)..(Len(w) + 1) : v[j] = w[j - 1]
  <2> TAKE j \in (i + 1)..(Len(w) + 1)
  <2>1. j - i \in 1..(Len(w) - i + 1) /\ i + (j - i) - 1 = j - 1
    BY <1>1
  <2> QED
    BY <1>2, <1>4, <2>1
<1>6. InsertAt(w, i, e) = v
  BY DEF InsertAt, v, head, front, back
<1> QED
  BY <1>1, <1>3, <1>4, <1>5, <1>6 DEF Inserted

LEMMA InsertSorted ==
  ASSUME NEW w \in Seq(Route), Sorted(w), NEW key \in Route
  PROVE  /\ Insert(w, key) \in Seq(Route) /\ Sorted(Insert(w, key))
         /\ \E i : Inserted(Insert(w, key), w, i, key)
<1> DEFINE S == {0} \cup {j \in DOMAIN w : Size(w[j]) >= Size(key)}
           top == Max(S)
           i == top + 1
           v == InsertAt(w, i, key)
<1>1. Insert(w, key) = v
  BY DEF Insert, Size
<1>2. /\ Len(w) \in Nat /\ DOMAIN w = 1..Len(w) /\ Size(key) \in Nat
      /\ \A j \in 1..Len(w) : w[j] \in Route /\ Size(w[j]) \in Nat
  BY SizeNat
<1>3. S \subseteq 0..Len(w) /\ S # {}
  BY <1>2
<1>4. top \in S /\ \A y \in S : top >= y
  <2> HIDE DEF S
  <2> QED
    BY <1>2, <1>3, LastOf
<1>5. top \in 0..Len(w) /\ top \in Nat
  <2> HIDE DEF S, top
  <2> QED
    BY <1>2, <1>3, <1>4
<1> HIDE DEF top
<1>6. i \in 1..(Len(w) + 1)
  BY <1>2, <1>5
<1>7. \A j \in 1..Len(w) : Size(w[j]) >= Size(key) => j < i
  <2> TAKE j \in 1..Len(w)
  <2>1. Size(w[j]) >= Size(key) => j \in S
    BY <1>2
  <2> HIDE DEF S
  <2> QED
    BY <1>2, <1>4, <1>5, <2>1
<1>8. i > 1 => i - 1 \in 1..Len(w) /\ Size(w[i - 1]) >= Size(key)
  <2>1. top # 0 => top \in 1..Len(w) /\ Size(w[top]) >= Size(key)
    BY <1>2, <1>4
  <2> QED
    BY <1>5, <2>1
<1> HIDE DEF i, S
<1>9. v \in Seq(Route) /\ Inserted(v, w, i, key)
  BY <1>6, InsertAtIs
<1> HIDE DEF v
<1>10. \A j \in 1..(i - 1) : j \in 1..Len(w) /\ Size(w[j]) >= Size(key)
  <2> TAKE j \in 1..(i - 1)
  <2>1. i > 1 /\ i - 1 \in 1..Len(w) /\ Size(w[i - 1]) >= Size(key) /\ j \in 1..Len(w)
    BY <1>2, <1>6, <1>8
  <2>2. CASE j = i - 1
    BY <2>1, <2>2
  <2>3. CASE j < i - 1
    <3>1. Size(w[j]) >= Size(w[i - 1])
      BY <2>1, <2>3 DEF Sorted
    <3> QED
      BY <1>2, <2>1, <3>1
  <2> QED
    BY <1>6, <2>2, <2>3
<1>11. \A j \in i..Len(w) : Size(w[j]) < Size(key)
  BY <1>2, <1>6, <1>7
<1>12. ASSUME NEW j \in 1..Len(v), NEW k \in 1..Len(v), j < k PROVE Size(v[j]) >= Size(v[k])
  <2>1. Len(v) = Len(w) + 1 /\ v[i] = key
    BY <1>9 DEF Inserted
  <2>2. j < i => v[j] = w[j] /\ j \in 1..Len(w)
    BY <1>2, <1>6, <1>9, <2>1 DEF Inserted
  <2>3. k < i => v[k] = w[k] /\ k \in 1..Len(w)
    BY <1>2, <1>6, <1>9, <2>1 DEF Inserted
  <2>4. j > i => v[j] = w[j - 1] /\ j - 1 \in i..Len(w) /\ j - 1 \in 1..Len(w)
    BY <1>2, <1>6, <1>9, <2>1 DEF Inserted
  <2>5. k > i => v[k] = w[k - 1] /\ k - 1 \in i..Len(w) /\ k - 1 \in 1..Len(w)
    BY <1>2, <1>6, <1>9, <2>1 DEF Inserted
  <2>6. CASE k < i
    BY <1>6, <1>12, <2>1, <2>2, <2>3, <2>6 DEF Sorted
  <2>7. CASE k = i
    BY <1>6, <1>10, <1>12, <2>1, <2>2, <2>7
  <2>8. CASE k > i
    <3>1. Size(v[k]) < Size(key) /\ Size(v[k]) \in Nat
      BY <1>2, <1>11, <2>5, <2>8
    <3>2. CASE j < i
      <4>1. Size(v[j]) >= Size(key) /\ Size(v[j]) \in Nat
        BY <1>2, <1>6, <1>10, <2>2, <3>2
      <4> QED
        BY <1>2, <3>1, <4>1
    <3>3. CASE j = i
      BY <1>2, <2>1, <3>1, <3>3
    <3>4. CASE j > i
      <4>1. Size(w[j - 1]) >= Size(w[k - 1])
        BY <1>6, <1>12, <2>4, <2>5, <2>8, <3>4 DEF Sorted
      <4> QED
        BY <2>4, <2>5, <2>8, <3>4, <4>1
    <3> QED
      BY <1>6, <2>1, <3>2, <3>3, <3>4
  <2> QED
    BY <1>6, <2>1, <2>6, <2>7, <2>8
<1> QED
  BY <1>1, <1>9, <1>12 DEF Sorted

\* Each element of w is one of the first m of v, and the other way round.
SameUpTo(w, v, m) ==
  /\ \A j \in 1..Len(w) : \E q \in 1..m : w[j] = v[q]
  /\ \A q \in 1..m : \E j \in 1..Len(w) : w[j] = v[q]

LEMMA InsertSame ==
  ASSUME NEW w \in Seq(Route), NEW v, NEW m \in Nat, SameUpTo(w, v, m), NEW x, NEW i,
         x \in Seq(Route), Inserted(x, w, i, v[m + 1])
  PROVE  SameUpTo(x, v, m + 1)
<1>1. /\ Len(w) \in Nat /\ i \in 1..(Len(w) + 1) /\ Len(x) = Len(w) + 1 /\ x[i] = v[m + 1]
      /\ \A j \in 1..(i - 1) : x[j] = w[j]
      /\ \A j \in (i + 1)..Len(x) : x[j] = w[j - 1]
  BY DEF Inserted
<1>2. ASSUME NEW j \in 1..Len(x) PROVE \E q \in 1..(m + 1) : x[j] = v[q]
  <2>1. CASE j = i
    BY <1>1, <2>1
  <2>2. CASE j # i
    <3>1. PICK k \in 1..Len(w) : x[j] = w[k]
      <4>1. CASE j \in 1..(i - 1)
        BY <1>1, <4>1
      <4>2. CASE j \in (i + 1)..Len(x)
        <5>1. x[j] = w[j - 1] /\ j - 1 \in 1..Len(w)
          BY <1>1, <4>2
        <5> QED
          BY <5>1
      <4> QED
        BY <1>1, <2>2, <4>1, <4>2
    <3>2. PICK q \in 1..m : w[k] = v[q]
      BY <3>1 DEF SameUpTo
    <3> QED
      BY <3>1, <3>2
  <2> QED
    BY <2>1, <2>2
<1>3. ASSUME NEW q \in 1..(m + 1) PROVE \E j \in 1..Len(x) : x[j] = v[q]
  <2>1. CASE q = m + 1
    BY <1>1, <2>1
  <2>2. CASE q \in 1..m
    <3>1. PICK k \in 1..Len(w) : w[k] = v[q]
      BY <2>2 DEF SameUpTo
    <3>2. k < i => x[k] = w[k] /\ k \in 1..Len(x)
      BY <1>1
    <3>3. k >= i => x[k + 1] = w[k] /\ k + 1 \in 1..Len(x)
      <4> SUFFICES ASSUME k >= i PROVE x[k + 1] = w[k] /\ k + 1 \in 1..Len(x)
        OBVIOUS
      <4>1. k + 1 \in (i + 1)..Len(x) /\ (k + 1) - 1 = k
        BY <1>1
      <4> QED
        BY <1>1, <4>1
    <3> QED
      BY <1>1, <3>1, <3>2, <3>3
  <2> QED
    BY <2>1, <2>2
<1> QED
  BY <1>2, <1>3 DEF SameUpTo

LEMMA SortIs ==
  ASSUME NEW w \in Seq(Route)
  PROVE  LET s == sort_wildcards(w)
         IN s \in Seq(Route) /\ Sorted(s) /\ SameUpTo(s, w, Len(w))
<1> DEFINE N == Len(w)
           Is(f) == f = [m \in 0..N |-> IF m = 0 THEN <<>> ELSE Insert(f[m - 1], w[m])]
           sorted == CHOOSE f : Is(f)
           X == {s \in Seq(Route) : Sorted(s)}
<1>1. N \in Nat /\ \A m \in 1..N : w[m] \in Route
  OBVIOUS
<1>2. sort_wildcards(w) = sorted[N]
  BY DEF sort_wildcards
<1> HIDE DEF N
<1>3. <<>> \in X
  BY DEF Sorted
<1>4. \A m \in 1..N : \A s \in X : Insert(s, w[m]) \in X
  BY <1>1, InsertSorted
<1> HIDE DEF X
<1>5. Is(sorted)
  <2> DEFINE F == [m \in 1..N |-> [s \in X |-> Insert(s, w[m])]]
  <2>1. F \in [1..N -> [X -> X]]
    BY <1>4
  <2>2. \A m \in 1..N : \A s \in X : F[m][s] = Insert(s, w[m])
    OBVIOUS
  <2> HIDE DEF F
  <2>3. PICK f : Runs(f, N, X, <<>>, F)
    BY <1>1, <1>3, <2>1, Loop
  <2>4. \A m \in 0..N : f[m] = IF m = 0 THEN <<>> ELSE Insert(f[m - 1], w[m])
    <3> TAKE m \in 0..N
    <3>1. CASE m = 0
      BY <2>3, <3>1 DEF Runs
    <3>2. CASE m \in 1..N
      <4>1. f[m - 1] \in X
        BY <1>1, <3>2, <2>3 DEF Runs
      <4>2. f[m] = F[m][f[m - 1]]
        BY <2>3, <3>2 DEF Runs
      <4>3. F[m][f[m - 1]] = Insert(f[m - 1], w[m])
        BY <2>2, <3>2, <4>1
      <4> QED
        BY <1>1, <3>2, <4>2, <4>3
    <3> QED
      BY <1>1, <3>1, <3>2
  <2>5. f = [m \in 0..N |-> f[m]]
    BY <2>3 DEF Runs
  <2>6. Is(f)
    BY <2>4, <2>5
  <2> HIDE DEF Is
  <2> QED
    BY <2>6
<1> HIDE DEF sorted
<1>6. /\ sorted[0] = <<>>
      /\ \A m \in 1..N : sorted[m] = Insert(sorted[m - 1], w[m])
  BY <1>1, <1>5
<1> HIDE DEF Is
<1> DEFINE G == {m \in 0..N : sorted[m] \in X /\ SameUpTo(sorted[m], w, m)}
<1>7. 0 \in G
  BY <1>1, <1>3, <1>6 DEF SameUpTo
<1>8. ASSUME NEW m \in 1..N, m - 1 \in G PROVE m \in G
  <2> DEFINE s == sorted[m - 1]
  <2>1. s \in Seq(Route) /\ Sorted(s) /\ SameUpTo(s, w, m - 1)
    BY <1>8 DEF X
  <2>2. sorted[m] = Insert(s, w[m]) /\ w[m] \in Route /\ m - 1 \in Nat /\ (m - 1) + 1 = m
    BY <1>1, <1>6
  <2> HIDE DEF s
  <2>3. /\ sorted[m] \in Seq(Route) /\ Sorted(sorted[m])
        /\ \E i : Inserted(sorted[m], s, i, w[m])
    BY <2>1, <2>2, InsertSorted
  <2>4. PICK i : Inserted(sorted[m], s, i, w[(m - 1) + 1])
    BY <2>2, <2>3
  <2>5. SameUpTo(sorted[m], w, (m - 1) + 1)
    BY <2>1, <2>2, <2>3, <2>4, InsertSame
  <2> QED
    BY <1>1, <2>2, <2>3, <2>5 DEF X
<1>9. \A m \in 0..N : m \in G
  <2>1. \A m \in 1..N : m - 1 \in G => m \in G
    BY <1>8
  <2> HIDE DEF G
  <2> QED
    BY <1>1, <1>7, <2>1, Climb
<1>10. N \in G
  BY <1>1, <1>9
<1> QED
  BY <1>2, <1>10 DEF X, N

----------------------------------------------------------------------------
(* The table.                                                              *)

Tables(nb) ==
  [nbuckets : {nb}, chains : [0..(nb - 1) -> Seq(Route)], wild : Seq(Route), fallback : Nat]

\* The first m routes that have a form; those that have a name.
Of(R, m, form) == {q \in 1..m : R[q].host.form = form}
Called(R, m, norm) == {q \in Of(R, m, "exact") : R[q].host.labels = norm}

Within(entries, R, Q) == \A j \in 1..Len(entries) : \E q \in Q : entries[j] = R[q]
HasAll(entries, R, Q) == \A q \in Q : \E j \in 1..Len(entries) : entries[j] = R[q]

\* What the table holds of the first m routes, as far as a lookup of norm in
\* bucket b is concerned.
Holds(t, R, m, b, norm) ==
  /\ Within(t.wild, R, Of(R, m, "wild")) /\ HasAll(t.wild, R, Of(R, m, "wild"))
  /\ Within(t.chains[b], R, Of(R, m, "exact")) /\ HasAll(t.chains[b], R, Called(R, m, norm))
  /\ Of(R, m, "default") = {} => t.fallback = NoPool
  /\ \A q \in Of(R, m, "default") : t.fallback = R[q].backend_index

\* One entry more, at either end.
LEMMA OneMore ==
  ASSUME NEW entries \in Seq(Route), NEW R, NEW Q, NEW m, R[m] \in Route, NEW v,
         v \in {Append(entries, R[m]), <<R[m]>> \o entries}
  PROVE  /\ v \in Seq(Route)
         /\ Within(entries, R, Q) => Within(v, R, Q \cup {m})
         /\ HasAll(entries, R, Q) => HasAll(v, R, Q \cup {m})
<1> DEFINE r == R[m]
<1>1. Len(entries) \in Nat /\ r \in Route
  OBVIOUS
<1> HIDE DEF r
<1>2. PICK at \in 1..(Len(entries) + 1), d \in {0, 1} :
        /\ v \in Seq(Route) /\ Len(v) = Len(entries) + 1 /\ v[at] = r
        /\ \A j \in 1..Len(entries) : v[j + d] = entries[j]
        /\ \A j \in 1..Len(v) : j # at => j - d \in 1..Len(entries)
  <2>1. CASE v = Append(entries, r)
    <3>1. /\ v \in Seq(Route) /\ Len(v) = Len(entries) + 1 /\ v[Len(entries) + 1] = r
          /\ \A j \in 1..Len(entries) : v[j] = entries[j]
      BY <1>1, <2>1
    <3>2. \A j \in 1..Len(v) : j # Len(entries) + 1 => j - 0 \in 1..Len(entries)
      BY <1>1, <3>1
    <3>3. \A j \in 1..Len(entries) : v[j + 0] = entries[j]
      BY <1>1, <3>1
    <3>4. Len(entries) + 1 \in 1..(Len(entries) + 1)
      BY <1>1
    <3> QED
      BY <3>1, <3>2, <3>3, <3>4
  <2>2. CASE v = <<r>> \o entries
    <3>1. <<r>> \in Seq(Route) /\ Len(<<r>>) = 1 /\ <<r>>[1] = r
      BY <1>1
    <3>2. v \in Seq(Route) /\ Len(v) = Len(entries) + 1 /\ v[1] = r
      BY <1>1, <2>2, <3>1
    <3>3. \A j \in 1..Len(entries) : v[j + 1] = entries[j]
      BY <1>1, <2>2, <3>1
    <3>4. \A j \in 1..Len(v) : j # 1 => j - 1 \in 1..Len(entries)
      BY <1>1, <3>2
    <3>5. 1 \in 1..(Len(entries) + 1)
      BY <1>1
    <3> QED
      BY <3>2, <3>3, <3>4, <3>5
  <2> QED
    BY <2>1, <2>2 DEF r
<1>3. ASSUME Within(entries, R, Q), NEW j \in 1..Len(v)
      PROVE  \E q \in Q \cup {m} : v[j] = R[q]
  <2>1. CASE j = at
    BY <1>2, <2>1 DEF r
  <2>2. CASE j # at
    <3>1. j - d \in 1..Len(entries) /\ (j - d) + d = j
      BY <1>1, <1>2, <2>2
    <3>2. v[j] = entries[j - d]
      BY <1>2, <3>1
    <3>3. PICK q \in Q : entries[j - d] = R[q]
      BY <1>3, <3>1 DEF Within
    <3> QED
      BY <3>2, <3>3
  <2> QED
    BY <2>1, <2>2
<1>4. ASSUME HasAll(entries, R, Q), NEW q \in Q \cup {m}
      PROVE  \E j \in 1..Len(v) : v[j] = R[q]
  <2>1. CASE q = m
    BY <1>1, <1>2, <2>1 DEF r
  <2>2. CASE q \in Q
    <3>1. PICK j \in 1..Len(entries) : entries[j] = R[q]
      BY <1>4, <2>2 DEF HasAll
    <3>2. j + d \in 1..Len(v) /\ v[j + d] = R[q]
      BY <1>1, <1>2, <3>1
    <3> QED
      BY <3>2
  <2> QED
    BY <2>1, <2>2
<1> QED
  BY <1>2, <1>3, <1>4 DEF Within, HasAll

LEMMA FormOf ==
  ASSUME NEW r \in Route
  PROVE  r.host.form \in {"exact", "wild", "default"} /\ r.backend_index \in Nat
BY DEF Route, Host

\* The sets of routes of which one is added.
LEMMA OfNext ==
  ASSUME NEW R, NEW m \in Nat \ {0}, NEW form
  PROVE  /\ R[m].host.form = form => Of(R, m, form) = Of(R, m - 1, form) \cup {m}
         /\ R[m].host.form # form => Of(R, m, form) = Of(R, m - 1, form)
<1>1. 1..m = 1..(m - 1) \cup {m} /\ m \notin 1..(m - 1)
  OBVIOUS
<1> QED
  BY <1>1 DEF Of

LEMMA CalledNext ==
  ASSUME NEW R, NEW m \in Nat \ {0}, NEW norm
  PROVE  /\ R[m].host.form # "exact" => Called(R, m, norm) = Called(R, m - 1, norm)
         /\ R[m].host.labels # norm => Called(R, m, norm) = Called(R, m - 1, norm)
         /\ Called(R, m, norm) \subseteq Called(R, m - 1, norm) \cup {m}
<1>1. 1..m = 1..(m - 1) \cup {m} /\ m \notin 1..(m - 1)
  OBVIOUS
<1> QED
  BY <1>1 DEF Called, Of

LEMMA EnterTyped ==
  ASSUME NEW nb \in Nat \ {0}, NEW t \in Tables(nb), NEW r \in Route
  PROVE  Enter(t, r) \in Tables(nb)
<1>1. /\ r.host.form \in {"exact", "wild", "default"} /\ r.backend_index \in Nat
      /\ t.nbuckets = nb /\ t.chains \in [0..(nb - 1) -> Seq(Route)] /\ t.wild \in Seq(Route)
  BY FormOf DEF Tables
<1>2. CASE r.host.form = "default"
  BY <1>1, <1>2 DEF Enter, Tables
<1>3. CASE r.host.form = "wild"
  <2>1. Append(t.wild, r) \in Seq(Route)
    BY <1>1
  <2>2. Enter(t, r) = [t EXCEPT !.wild = Append(t.wild, r)]
    BY <1>3 DEF Enter
  <2> QED
    BY <2>1, <2>2 DEF Tables
<1>4. CASE r.host.form = "exact"
  <2> DEFINE c == Hash[r.host.labels] % nb
             chains == [t.chains EXCEPT ![c] = <<r>> \o @]
  <2>1. Enter(t, r) = [t EXCEPT !.chains = chains]
    BY <1>1, <1>4 DEF Enter, Tables
  <2>2. \A s \in Seq(Route) : <<r>> \o s \in Seq(Route)
    OBVIOUS
  <2>3. chains \in [0..(nb - 1) -> Seq(Route)]
    BY <1>1, <2>2
  <2> HIDE DEF chains
  <2> QED
    BY <2>1, <2>3 DEF Tables
<1> QED
  BY <1>1, <1>2, <1>3, <1>4

\* A route that is entered is in the table from then on.
LEMMA EnterHolds ==
  ASSUME NEW R \in Seq(Route), NEW nb \in Nat \ {0}, NEW norm, NEW b \in 0..(nb - 1),
         Hash[norm] % nb = b, NEW m \in 1..Len(R), NEW t \in Tables(nb),
         Holds(t, R, m - 1, b, norm),
         \A q, p \in Of(R, Len(R), "default") : q = p
  PROVE  Enter(t, R[m]) \in Tables(nb) /\ Holds(Enter(t, R[m]), R, m, b, norm)
<1> DEFINE r == R[m]
           e == Enter(t, r)
           c == Hash[r.host.labels] % nb
<1>1. /\ r \in Route /\ m \in Nat \ {0} /\ Len(R) \in Nat
      /\ r.host.form \in {"exact", "wild", "default"} /\ r.backend_index \in Nat
  BY FormOf
<1>2. /\ t.nbuckets = nb /\ t.chains \in [0..(nb - 1) -> Seq(Route)] /\ t.wild \in Seq(Route)
      /\ t.fallback \in Nat
  BY DEF Tables
<1>3. CASE r.host.form = "default"
  <2>1. e = [t EXCEPT !.fallback = r.backend_index]
    BY <1>3 DEF Enter
  <2>2. /\ e \in Tables(nb) /\ e.wild = t.wild /\ e.chains = t.chains
        /\ e.fallback = r.backend_index
    BY <1>1, <2>1 DEF Tables
  <2>3. /\ Of(R, m, "wild") = Of(R, m - 1, "wild") /\ Of(R, m, "exact") = Of(R, m - 1, "exact")
        /\ Called(R, m, norm) = Called(R, m - 1, norm) /\ m \in Of(R, m, "default")
    <3>1. Of(R, m, "wild") = Of(R, m - 1, "wild")
      BY <1>1, <1>3, OfNext
    <3>2. Of(R, m, "exact") = Of(R, m - 1, "exact")
      BY <1>1, <1>3, OfNext
    <3>3. Of(R, m, "default") = Of(R, m - 1, "default") \cup {m}
      BY <1>1, <1>3, OfNext
    <3>4. Called(R, m, norm) = Called(R, m - 1, norm)
      BY <1>1, <1>3, CalledNext
    <3> QED
      BY <3>1, <3>2, <3>3, <3>4
  <2>4. \A q \in Of(R, m, "default") : q = m
    <3>1. Of(R, m, "default") \subseteq Of(R, Len(R), "default")
      BY <1>1 DEF Of
    <3> QED
      BY <2>3, <3>1
  <2> HIDE DEF e
  <2>5. Holds(e, R, m, b, norm)
    BY <2>2, <2>3, <2>4 DEF Holds, r
  <2> QED
    BY <2>2, <2>5 DEF e
<1>4. CASE r.host.form = "wild"
  <2> DEFINE w == Append(t.wild, r)
  <2>1. e = [t EXCEPT !.wild = w]
    BY <1>4 DEF Enter
  <2>2. w \in Seq(Route)
    BY <1>1, <1>2
  <2>3. /\ Within(w, R, Of(R, m - 1, "wild") \cup {m})
        /\ HasAll(w, R, Of(R, m - 1, "wild") \cup {m})
    BY <1>1, <1>2, OneMore DEF Holds
  <2> HIDE DEF w
  <2>4. /\ e \in Tables(nb) /\ e.wild = w /\ e.chains = t.chains
        /\ e.fallback = t.fallback
    BY <2>1, <2>2 DEF Tables
  <2>5. /\ Of(R, m, "wild") = Of(R, m - 1, "wild") \cup {m}
        /\ Of(R, m, "exact") = Of(R, m - 1, "exact")
        /\ Called(R, m, norm) = Called(R, m - 1, norm)
        /\ Of(R, m, "default") = Of(R, m - 1, "default")
    <3>1. Of(R, m, "wild") = Of(R, m - 1, "wild") \cup {m}
      BY <1>1, <1>4, OfNext
    <3>2. Of(R, m, "exact") = Of(R, m - 1, "exact")
      BY <1>1, <1>4, OfNext
    <3>3. Of(R, m, "default") = Of(R, m - 1, "default")
      BY <1>1, <1>4, OfNext
    <3>4. Called(R, m, norm) = Called(R, m - 1, norm)
      BY <1>1, <1>4, CalledNext
    <3> QED
      BY <3>1, <3>2, <3>3, <3>4
  <2> HIDE DEF e
  <2>6. Holds(e, R, m, b, norm)
    BY <2>3, <2>4, <2>5 DEF Holds
  <2> QED
    BY <2>4, <2>6 DEF e
<1>5. CASE r.host.form = "exact"
  <2> DEFINE chain == <<r>> \o t.chains[b]
  <2>1. e = [t EXCEPT !.chains[c] = <<r>> \o @]
    BY <1>2, <1>5 DEF Enter
  <2>2. /\ e.wild = t.wild /\ e.fallback = t.fallback /\ e.nbuckets = nb
        /\ e.chains = [t.chains EXCEPT ![c] = <<r>> \o @]
    BY <1>2, <2>1 DEF Tables
  <2>3. e \in Tables(nb)
    BY <1>1, EnterTyped
  <2>4. /\ Of(R, m, "exact") = Of(R, m - 1, "exact") \cup {m}
        /\ Of(R, m, "wild") = Of(R, m - 1, "wild")
        /\ Of(R, m, "default") = Of(R, m - 1, "default")
    <3>1. Of(R, m, "exact") = Of(R, m - 1, "exact") \cup {m}
      BY <1>1, <1>5, OfNext
    <3>2. Of(R, m, "wild") = Of(R, m - 1, "wild")
      BY <1>1, <1>5, OfNext
    <3>3. Of(R, m, "default") = Of(R, m - 1, "default")
      BY <1>1, <1>5, OfNext
    <3> QED
      BY <3>1, <3>2, <3>3
  <2>5. /\ Called(R, m, norm) \subseteq Called(R, m - 1, norm) \cup {m}
        /\ r.host.labels # norm => Called(R, m, norm) = Called(R, m - 1, norm)
    BY <1>1, CalledNext
  <2> HIDE DEF e
  <2>6. CASE c = b
    <3>1. e.chains[b] = chain
      BY <1>2, <2>2, <2>6
    <3>2. t.chains[b] \in Seq(Route)
      BY <1>2
    <3>3. /\ Within(chain, R, Of(R, m - 1, "exact") \cup {m})
          /\ HasAll(chain, R, Called(R, m - 1, norm) \cup {m})
      BY <1>1, <3>2, OneMore DEF Holds
    <3> HIDE DEF chain
    <3>4. HasAll(chain, R, Called(R, m, norm))
      BY <2>5, <3>3 DEF HasAll
    <3>5. Holds(e, R, m, b, norm)
      BY <2>2, <2>4, <3>1, <3>3, <3>4 DEF Holds
    <3> QED
      BY <2>3, <3>5 DEF e
  <2>7. CASE c # b
    <3>1. e.chains[b] = t.chains[b]
      BY <1>2, <2>2, <2>7
    <3>2. Called(R, m, norm) = Called(R, m - 1, norm)
      BY <2>5, <2>7
    <3>3. Within(t.chains[b], R, Of(R, m, "exact"))
      BY <2>4 DEF Holds, Within
    <3>4. Holds(e, R, m, b, norm)
      BY <2>2, <2>4, <3>1, <3>2, <3>3 DEF Holds
    <3> QED
      BY <2>3, <3>4 DEF e
  <2> QED
    BY <2>6, <2>7
<1> QED
  BY <1>1, <1>3, <1>4, <1>5

\* table_build holds every route, the wildcards sorted.
LEMMA BuildHolds ==
  ASSUME NEW R \in Seq(Route), NEW norm, Hash[norm] \in Nat,
         \A q, p \in Of(R, Len(R), "default") : q = p
  PROVE  LET t == table_build(R)
             b == Hash[norm] % t.nbuckets
         IN /\ t \in Tables(t.nbuckets) /\ t.nbuckets \in Nat \ {0} /\ b \in 0..(t.nbuckets - 1)
            /\ Holds(t, R, Len(R), b, norm) /\ Sorted(t.wild)
<1> DEFINE N == Len(R)
           nb == Buckets(R)
           b == Hash[norm] % nb
           empty == EmptyTable(nb)
           X == Tables(nb)
           Is(f) == f = [m \in 0..N |-> IF m = 0 THEN empty ELSE Enter(f[m - 1], R[m])]
           after == CHOOSE f : Is(f)
           last == after[N]
<1>1. table_build(R) = [last EXCEPT !.wild = sort_wildcards(@)]
  BY DEF table_build
<1>2. N \in Nat /\ nb \in Nat \ {0} /\ \A m \in 1..N : R[m] \in Route
  BY BucketsPositive
<1> HIDE DEF nb, last
<1>3. b \in 0..(nb - 1)
  BY <1>2
<1>4. empty \in X /\ empty.wild = <<>> /\ empty.chains[b] = <<>> /\ empty.fallback = NoPool
  BY <1>2, <1>3 DEF EmptyTable, Tables, NoPool
<1>5. \A m \in 1..N : \A t \in X : Enter(t, R[m]) \in X
  BY <1>2, EnterTyped
<1> HIDE DEF N, b, empty, X
<1>6. Is(after)
  <2> DEFINE F == [m \in 1..N |-> [t \in X |-> Enter(t, R[m])]]
  <2>1. F \in [1..N -> [X -> X]]
    BY <1>5
  <2>2. \A m \in 1..N : \A t \in X : F[m][t] = Enter(t, R[m])
    OBVIOUS
  <2> HIDE DEF F
  <2>3. PICK f : Runs(f, N, X, empty, F)
    BY <1>2, <1>4, <2>1, Loop
  <2>4. \A m \in 0..N : f[m] = IF m = 0 THEN empty ELSE Enter(f[m - 1], R[m])
    <3> TAKE m \in 0..N
    <3>1. CASE m = 0
      BY <2>3, <3>1 DEF Runs
    <3>2. CASE m \in 1..N
      <4>1. f[m - 1] \in X
        BY <1>2, <3>2, <2>3 DEF Runs
      <4>2. f[m] = F[m][f[m - 1]]
        BY <2>3, <3>2 DEF Runs
      <4>3. F[m][f[m - 1]] = Enter(f[m - 1], R[m])
        BY <2>2, <3>2, <4>1
      <4> QED
        BY <1>2, <3>2, <4>2, <4>3
    <3> QED
      BY <1>2, <3>1, <3>2
  <2>5. f = [m \in 0..N |-> f[m]]
    BY <2>3 DEF Runs
  <2>6. Is(f)
    BY <2>4, <2>5
  <2> HIDE DEF Is
  <2> QED
    BY <2>6
<1> HIDE DEF after
<1>7. /\ after[0] = empty
      /\ \A m \in 1..N : after[m] = Enter(after[m - 1], R[m])
  BY <1>2, <1>6
<1> HIDE DEF Is
<1> DEFINE G == {m \in 0..N : after[m] \in X /\ Holds(after[m], R, m, b, norm)}
<1>8. 0 \in G
  <2>1. \A form : Of(R, 0, form) = {}
    BY DEF Of
  <2>2. Called(R, 0, norm) = {}
    BY <2>1 DEF Called
  <2>3. Holds(empty, R, 0, b, norm)
    BY <1>4, <2>1, <2>2 DEF Holds, Within, HasAll
  <2> QED
    BY <1>2, <1>4, <1>7, <2>3
<1>9. ASSUME NEW m \in 1..N, m - 1 \in G PROVE m \in G
  <2> DEFINE t == after[m - 1]
  <2>1. t \in Tables(nb) /\ Holds(t, R, m - 1, b, norm)
    BY <1>9 DEF X
  <2>2. after[m] = Enter(t, R[m])
    BY <1>7
  <2> HIDE DEF t
  <2>3. Hash[norm] % nb = b /\ b \in 0..(nb - 1) /\ nb \in Nat \ {0} /\ m \in 1..Len(R)
    BY <1>2, <1>3 DEF b, N
  <2>4. Holds(Enter(t, R[m]), R, m, b, norm)
    BY <2>1, <2>3, EnterHolds
  <2> QED
    BY <1>2, <1>5, <2>1, <2>2, <2>4 DEF X
<1>10. \A m \in 0..N : m \in G
  <2>1. \A m \in 1..N : m - 1 \in G => m \in G
    BY <1>9
  <2> HIDE DEF G
  <2> QED
    BY <1>2, <1>8, <2>1, Climb
<1>11. last \in Tables(nb) /\ Holds(last, R, N, b, norm)
  BY <1>2, <1>10 DEF last, X
<1> HIDE DEF G
<1> DEFINE s == sort_wildcards(last.wild)
           t == table_build(R)
<1>12. last.wild \in Seq(Route)
  BY <1>11 DEF Tables
<1>13. s \in Seq(Route) /\ Sorted(s) /\ SameUpTo(s, last.wild, Len(last.wild))
  BY <1>12, SortIs
<1> HIDE DEF s
<1>14. /\ t \in Tables(nb) /\ t.nbuckets = nb /\ t.wild = s /\ t.chains = last.chains
       /\ t.fallback = last.fallback
  BY <1>1, <1>11, <1>13 DEF Tables, s
<1> HIDE DEF t
<1>15. Within(s, R, Of(R, N, "wild")) /\ HasAll(s, R, Of(R, N, "wild"))
  <2>1. Within(last.wild, R, Of(R, N, "wild")) /\ HasAll(last.wild, R, Of(R, N, "wild"))
    BY <1>11 DEF Holds
  <2> QED
    BY <1>13, <2>1 DEF Within, HasAll, SameUpTo
<1>16. Holds(t, R, N, b, norm)
  BY <1>11, <1>14, <1>15 DEF Holds
<1> QED
  BY <1>2, <1>3, <1>13, <1>14, <1>16 DEF t, b, N

----------------------------------------------------------------------------
(* The lookup.                                                             *)

\* R is what config_load makes of the first m routes of the file, for those pools.
Resolves(R, routes, m, pools) ==
  /\ R \in Seq(Route) /\ Len(R) = m
  /\ \A q \in 1..Len(R) :
       /\ R[q].host = routes[q].host /\ HostOk(R[q].host)
       /\ R[q].backend_index # NoPool /\ pools[R[q].backend_index].name = routes[q].backend
  /\ \A q, p \in 1..Len(R) : R[q].host = R[p].host => q = p

\* What a lookup should find: pool p for the routes, or none.
Finds(p, routes, pools, host) ==
  Answer(routes, host) = IF p = NoPool THEN {} ELSE {pools[p].name}

LEMMA MatchesSame ==
  ASSUME NEW l, NEW s, NEW t, Matches(l, s), Matches(l, t), Len(s) = Len(t)
  PROVE  s = t
BY DEF Matches

\* Two routes of one form with one name are one route.
LEMMA SameHost ==
  ASSUME NEW r \in Route, NEW s \in Route, r.host.form = s.host.form,
         r.host.form = "default" \/ r.host.labels = s.host.labels,
         HostOk(r.host), HostOk(s.host)
  PROVE  r.host = s.host
<1>1. r.host \in Host /\ s.host \in Host
  BY DEF Route
<1>2. CASE r.host.form = "default"
  <2>1. /\ r.host \in [form : {"default"}, labels : {<<>>}, labels_ok : {TRUE}]
        /\ s.host \in [form : {"default"}, labels : {<<>>}, labels_ok : {TRUE}]
    BY <1>1, <1>2 DEF Host
  <2>2. /\ r.host.form = "default" /\ r.host.labels = <<>> /\ r.host.labels_ok = TRUE
        /\ s.host.form = "default" /\ s.host.labels = <<>> /\ s.host.labels_ok = TRUE
    BY <2>1
  <2>3. \A h \in [form : {"default"}, labels : {<<>>}, labels_ok : {TRUE}] :
          h = [form |-> h.form, labels |-> h.labels, labels_ok |-> h.labels_ok]
    OBVIOUS
  <2>4. /\ r.host = [form |-> "default", labels |-> <<>>, labels_ok |-> TRUE]
        /\ s.host = [form |-> "default", labels |-> <<>>, labels_ok |-> TRUE]
    BY <2>1, <2>2, <2>3, Zenon
  <2> QED
    BY <2>4
<1>3. CASE r.host.form # "default"
  <2>1. /\ r.host \in [form : {"exact", "wild"}, labels : Seq(STRING), labels_ok : BOOLEAN]
        /\ s.host \in [form : {"exact", "wild"}, labels : Seq(STRING), labels_ok : BOOLEAN]
    BY <1>1, <1>3 DEF Host
  <2>2. r.host.labels_ok /\ s.host.labels_ok /\ r.host.labels = s.host.labels
    BY <1>3 DEF HostOk
  <2> QED
    BY <2>1, <2>2
<1> QED
  BY <1>2, <1>3

LEMMA LookupIs ==
  ASSUME NEW R, NEW routes, NEW pools, Resolves(R, routes, Len(routes), pools),
         DOMAIN routes = 1..Len(routes), NEW host,
         Hash[router_normalize_host(host)] \in Nat
  PROVE  Finds(router_lookup(table_build(R), host), routes, pools, host)
<1> DEFINE norm  == router_normalize_host(host)
           N     == Len(R)
           t     == table_build(R)
           b     == Hash[norm] % t.nbuckets
           chain == t.chains[b]
           named == {j \in DOMAIN chain : chain[j].host.labels = norm}
           under == {j \in DOMAIN t.wild : Matches(norm, t.wild[j].host.labels)}
           exact == First(chain, named)
           wild  == First(t.wild, under)
           S       == {routes[j] : j \in DOMAIN routes}
           exacts  == {r \in S : r.host.form = "exact" /\ r.host.labels = norm}
           wilds   == {r \in S : r.host.form = "wild" /\ Matches(norm, r.host.labels)}
           longest == {r \in wilds : \A s \in wilds : Len(s.host.labels) <= Len(r.host.labels)}
           default == {r \in S : r.host.form = "default"}
           best == CASE ~host.ok -> {}
                     [] host.ok /\ exacts # {} -> exacts
                     [] host.ok /\ exacts = {} /\ wilds # {} -> longest
                     [] OTHER -> default
           found == router_lookup(t, host)
<1>1. found = CASE ~host.ok -> NoPool
                [] host.ok /\ exact # NoPool -> exact
                [] host.ok /\ exact = NoPool /\ wild # NoPool -> wild
                [] OTHER -> t.fallback
  BY DEF router_lookup
<1>2. Answer(routes, host) = {r.backend : r \in best}
  BY DEF Answer
<1>3. /\ R \in Seq(Route) /\ N \in Nat /\ DOMAIN routes = 1..N
      /\ \A q \in 1..N :
           /\ R[q] \in Route /\ R[q].host = routes[q].host /\ HostOk(R[q].host)
           /\ R[q].backend_index # NoPool
           /\ pools[R[q].backend_index].name = routes[q].backend
  BY DEF Resolves
<1>4. \A q, p \in 1..N :
        /\ R[q].host.form = R[p].host.form
        /\ R[q].host.form = "default" \/ R[q].host.labels = R[p].host.labels
        => q = p
  <2> TAKE q, p \in 1..N
  <2> HAVE /\ R[q].host.form = R[p].host.form
           /\ R[q].host.form = "default" \/ R[q].host.labels = R[p].host.labels
  <2>1. R[q].host = R[p].host
    BY <1>3, SameHost
  <2> QED
    BY <2>1 DEF Resolves
<1>5. \A q, p \in Of(R, N, "default") : q = p
  BY <1>4 DEF Of
<1>6. /\ t \in Tables(t.nbuckets) /\ t.nbuckets \in Nat \ {0} /\ b \in 0..(t.nbuckets - 1)
      /\ Holds(t, R, N, b, norm) /\ Sorted(t.wild)
  BY <1>3, <1>5, BuildHolds
<1> HIDE DEF t, norm, found, N, b
<1>7. /\ chain \in Seq(Route) /\ DOMAIN chain = 1..Len(chain) /\ Len(chain) \in Nat
      /\ t.wild \in Seq(Route) /\ DOMAIN t.wild = 1..Len(t.wild) /\ Len(t.wild) \in Nat
  <2>1. t.chains \in [0..(t.nbuckets - 1) -> Seq(Route)] /\ t.wild \in Seq(Route)
    BY <1>6 DEF Tables
  <2>2. chain \in Seq(Route)
    BY <1>6, <2>1
  <2> HIDE DEF chain
  <2> QED
    BY <2>1, <2>2
<1> HIDE DEF chain
\* The exact names.
<1>8. \/ named = {} /\ exacts = {}
      \/ \E q \in 1..N : exact = R[q].backend_index /\ exacts = {routes[q]} /\ named # {}
  <2>1. ASSUME named = {} PROVE exacts = {}
    <3> SUFFICES ASSUME NEW q \in 1..N, R[q].host.form = "exact", R[q].host.labels = norm
                 PROVE  FALSE
      BY <1>3
    <3>1. q \in Called(R, N, norm)
      BY DEF Called, Of
    <3>2. PICK j \in 1..Len(chain) : chain[j] = R[q]
      BY <1>6, <3>1 DEF Holds, HasAll, chain
    <3> QED
      BY <1>7, <2>1, <3>2
  <2>2. ASSUME named # {}
        PROVE  \E q \in 1..N : exact = R[q].backend_index /\ exacts = {routes[q]}
    <3>1. named \subseteq Nat
      BY <1>7
    <3>2. PICK j \in named : exact = chain[j].backend_index
      <4> HIDE DEF named
      <4> QED
        BY <2>2, <3>1, FirstIs
    <3>3. PICK q \in 1..N : R[q].host.form = "exact" /\ chain[j] = R[q]
      <4>1. \E q \in Of(R, N, "exact") : chain[j] = R[q]
        BY <1>6, <1>7 DEF Holds, Within, chain
      <4> QED
        BY <4>1 DEF Of
    <3>4. R[q].host.labels = norm
      BY <3>3
    <3>5. \A p \in 1..N : R[p].host.form = "exact" /\ R[p].host.labels = norm => p = q
      BY <1>4, <3>3, <3>4
    <3>6. exacts = {routes[q]}
      BY <1>3, <3>3, <3>4, <3>5
    <3> QED
      BY <3>2, <3>3, <3>6
  <2> QED
    BY <2>1, <2>2
\* The wildcards.
<1>9. \/ under = {} /\ wilds = {}
      \/ \E q \in 1..N : /\ wild = R[q].backend_index /\ longest = {routes[q]}
                         /\ under # {} /\ wilds # {}
  <2>1. ASSUME under = {} PROVE wilds = {}
    <3> SUFFICES ASSUME NEW q \in 1..N, R[q].host.form = "wild", Matches(norm, R[q].host.labels)
                 PROVE  FALSE
      BY <1>3
    <3>1. q \in Of(R, N, "wild")
      BY DEF Of
    <3>2. PICK j \in 1..Len(t.wild) : t.wild[j] = R[q]
      BY <1>6, <3>1 DEF Holds, HasAll
    <3> QED
      BY <1>7, <2>1, <3>2
  <2>2. ASSUME under # {}
        PROVE  \E q \in 1..N : /\ wild = R[q].backend_index /\ longest = {routes[q]}
                               /\ wilds # {}
    <3>1. under \subseteq Nat
      BY <1>7
    <3>2. PICK j \in under : /\ wild = t.wild[j].backend_index
                             /\ \A k \in under : j <= k
      <4> HIDE DEF under
      <4> QED
        BY <2>2, <3>1, FirstIs
    <3>3. PICK q \in 1..N : R[q].host.form = "wild" /\ t.wild[j] = R[q]
      <4>1. \E q \in Of(R, N, "wild") : t.wild[j] = R[q]
        BY <1>6, <1>7 DEF Holds, Within
      <4> QED
        BY <4>1 DEF Of
    <3>4. Matches(norm, R[q].host.labels)
      BY <3>3
    <3>5. routes[q] \in wilds
      BY <1>3, <3>3, <3>4
    <3>6. \A p \in 1..N : R[p].host.form = "wild" /\ Matches(norm, R[p].host.labels)
                            => Size(R[p]) <= Size(R[q])
      <4> SUFFICES ASSUME NEW p \in 1..N, R[p].host.form = "wild",
                          Matches(norm, R[p].host.labels)
                   PROVE  Size(R[p]) <= Size(R[q])
        OBVIOUS
      <4>1. p \in Of(R, N, "wild")
        BY DEF Of
      <4>2. PICK k \in 1..Len(t.wild) : t.wild[k] = R[p]
        BY <1>6, <4>1 DEF Holds, HasAll
      <4>3. k \in under /\ j <= k /\ j \in 1..Len(t.wild)
        BY <1>7, <3>2, <4>2
      <4>4. Size(R[p]) \in Nat /\ Size(R[q]) \in Nat
        BY <1>3, SizeNat
      <4>5. CASE j = k
        BY <3>3, <4>2, <4>4, <4>5
      <4>6. CASE j < k
        BY <1>6, <3>3, <4>2, <4>3, <4>4, <4>6 DEF Sorted
      <4> QED
        BY <4>3, <4>5, <4>6
    <3>7. \A r \in wilds : \E p \in 1..N : /\ r = routes[p] /\ R[p].host.form = "wild"
                                           /\ Matches(norm, R[p].host.labels)
                                           /\ r.host = R[p].host
      BY <1>3
    <3>8. \A r \in wilds : Len(r.host.labels) <= Len(routes[q].host.labels)
      BY <1>3, <3>6, <3>7 DEF Size
    <3>9. \A r \in longest : r = routes[q]
      <4> SUFFICES ASSUME NEW r \in longest PROVE r = routes[q]
        OBVIOUS
      <4>1. PICK p \in 1..N : /\ r = routes[p] /\ R[p].host.form = "wild"
                              /\ Matches(norm, R[p].host.labels) /\ r.host = R[p].host
        BY <3>7
      <4>2. Len(routes[q].host.labels) <= Len(r.host.labels)
        BY <3>5
      <4>3. Size(R[q]) <= Size(R[p]) /\ Size(R[p]) <= Size(R[q])
        BY <1>3, <3>6, <4>1, <4>2 DEF Size
      <4>4. Size(R[q]) = Size(R[p])
        BY <1>3, <4>3, SizeNat
      <4>5. R[q].host.labels = R[p].host.labels
        BY <3>4, <4>1, <4>4, MatchesSame DEF Size
      <4> QED
        BY <1>4, <3>3, <4>1, <4>5
    <3>10. longest = {routes[q]}
      BY <3>5, <3>8, <3>9
    <3> QED
      BY <3>2, <3>3, <3>5, <3>10
  <2> QED
    BY <2>1, <2>2
\* The default.
<1>10. \/ t.fallback = NoPool /\ default = {}
       \/ \E q \in 1..N : t.fallback = R[q].backend_index /\ default = {routes[q]}
  <2>1. CASE Of(R, N, "default") = {}
    <3>1. \A q \in 1..N : R[q].host.form # "default"
      BY <2>1 DEF Of
    <3>2. default = {}
      BY <1>3, <3>1
    <3> QED
      BY <1>6, <2>1, <3>2 DEF Holds
  <2>2. CASE Of(R, N, "default") # {}
    <3>1. PICK q \in Of(R, N, "default") : TRUE
      BY <2>2
    <3>2. q \in 1..N /\ R[q].host.form = "default" /\ t.fallback = R[q].backend_index
      BY <1>6, <3>1 DEF Holds, Of
    <3>3. \A p \in 1..N : R[p].host.form = "default" => p = q
      BY <1>4, <3>2
    <3>4. default = {routes[q]}
      BY <1>3, <3>2, <3>3
    <3> QED
      BY <3>2, <3>4
  <2> QED
    BY <2>1, <2>2
<1>11. named = {} => exact = NoPool
  BY DEF First
<1>12. under = {} => wild = NoPool
  BY DEF First
<1> HIDE DEF named, under, exact, wild, exacts, wilds, longest, default
<1>13. \/ found = NoPool /\ best = {}
       \/ \E q \in 1..N : found = R[q].backend_index /\ best = {routes[q]}
  <2>1. CASE ~host.ok
    BY <1>1, <2>1
  <2>2. CASE host.ok /\ named # {}
    BY <1>1, <1>3, <1>8, <2>2
  <2>3. CASE host.ok /\ named = {} /\ under # {}
    BY <1>1, <1>3, <1>8, <1>9, <1>11, <2>3
  <2>4. CASE host.ok /\ named = {} /\ under = {}
    BY <1>1, <1>8, <1>9, <1>10, <1>11, <1>12, <2>4
  <2> QED
    BY <2>1, <2>2, <2>3, <2>4
<1> HIDE DEF best
<1>14. Answer(routes, host) = IF found = NoPool THEN {} ELSE {pools[found].name}
  <2>1. CASE found = NoPool /\ best = {}
    BY <1>2, <2>1
  <2>2. ASSUME NEW q \in 1..N, found = R[q].backend_index, best = {routes[q]}
        PROVE  Answer(routes, host) = {pools[found].name} /\ found # NoPool
    BY <1>2, <1>3, <2>2
  <2> QED
    BY <1>13, <2>1, <2>2
<1> QED
  BY <1>14 DEF Finds, found, t

----------------------------------------------------------------------------
(* Lemmas about the operators.                                             *)

\* What is narrowed to int is an integer.
LEMMA ToIntType == ASSUME NEW v \in Int PROVE ToInt(v) \in Int
<1>1. Half \in Int
  BY ConfigAssumption DEF Half
<1> QED
  BY <1>1, HalfPositive DEF ToInt

\* A worker is given at least one process.
LEMMA SomeWorkers ==
  ASSUME NEW k \in Configs PROVE decide_workers(k) \in Nat \ {0}
BY ReloadAssumption DEF decide_workers, Configs

\* Whatever is asked for, a worker gets slots within the limits.
LEMMA SlotsWithin ==
  ASSUME NEW m \in Int, NEW w \in Nat \ {0} PROVE slots_for(m, w) \in MinSlots..MaxSlots
<1>1. m \div w \in Int
  OBVIOUS
<1>2. (IF m < 0 THEN MaxSlots ELSE 2 * (m \div w)) \in Int
  BY <1>1, ReloadAssumption
<1> QED
  BY <1>2, ReloadAssumption DEF slots_for

\* A pool that passes the checks is built with the numbers that were checked.
LEMMA BackendBuilt ==
  ASSUME NEW b \in Pool, HealthOk(b.health)
  PROVE  Backend(b) \in Built /\ Sound(Backend(b).health)
<1> DEFINE servers == [j \in DOMAIN b.servers |->
                        [addr |-> b.servers[j].addr, weight |-> ToInt(b.servers[j].weight)]]
<1>1. b.health \in Probing /\ b.name \in STRING /\ b.servers \in Seq([addr : Address, weight : Int])
  BY DEF Pool
<1>2. \A v \in {b.health.interval, b.health.timeout, b.health.rise, b.health.fall} :
        ToInt(v) \in Int
  BY <1>1, ToIntType DEF Probing
<1>3. servers \in Seq(Server)
  <2>1. ASSUME NEW j \in 1..Len(b.servers) PROVE servers[j] \in Server
    <3>1. b.servers[j] \in [addr : Address, weight : Int]
      BY <1>1, ElementOfSeq
    <3>2. ToInt(b.servers[j].weight) \in Int
      BY <3>1, ToIntType
    <3> QED
      BY <1>1, <3>1, <3>2 DEF Server
  <2>2. servers \in [1..Len(b.servers) -> Server] /\ Len(b.servers) \in Nat
    <3>1. Len(b.servers) \in Nat /\ DOMAIN b.servers = 1..Len(b.servers)
      BY <1>1, LenProperties
    <3> QED
      BY <3>1, <2>1
  <2> HIDE DEF servers
  <2> QED
    BY <2>2, SeqDef
<1>4. Backend(b).health \in Times /\ Sound(Backend(b).health)
  BY <1>2 DEF Backend, Times, HealthOk, Sound
<1> QED
  BY <1>1, <1>3, <1>4 DEF Backend, Built

\* What the lists of a file are made of.
LEMMA FileParts ==
  ASSUME NEW f \in Files
  PROVE  /\ f.global \in Global /\ f.backends \in Seq(Pool) /\ f.frontends \in Seq(Frontend)
         /\ Len(f.backends) \in Nat /\ Len(f.frontends) \in Nat
         /\ \A j \in 1..Len(f.backends) : f.backends[j] \in Pool
         /\ \A j \in 1..Len(f.frontends) : f.frontends[j] \in Frontend
<1>1. f.global \in Global /\ f.backends \in Seq(Pool) /\ f.frontends \in Seq(Frontend)
  BY ConfigAssumption DEF File
<1> QED
  BY <1>1, ElementOfSeq

----------------------------------------------------------------------------
(* The steps.                                                              *)

\* The parser's own part of the invariant.
Parsed == ParseTypes /\ Progress /\ Agrees

LEMMA InitParsed == ParseInit /\ live = loading => Parsed
<1> SUFFICES ASSUME ParseInit, live = loading PROVE Parsed
  OBVIOUS
<1>1. loading \in Files /\ pc = "idle" /\ n = 1 /\ cfg = EmptyConfig
  BY DEF ParseInit
<1>2. cfg \in Configs /\ Len(cfg.frontends) = 0 /\ Len(cfg.backends) = 0
  BY <1>1 DEF EmptyConfig, Configs
<1>3. Len(loading.frontends) \in Nat /\ Len(loading.backends) \in Nat
  BY <1>1, FileParts
<1> QED
  BY <1>1, <1>2, <1>3 DEF Parsed, ParseTypes, Parts, Progress, Agrees

LEMMA LoadParsed ==
  ASSUME Parsed, NEW f \in Files, config_load(f), UNCHANGED live PROVE Parsed'
<1>1. loading' \in Files /\ pc' = "global" /\ n' = 1 /\ cfg' = EmptyConfig
  BY DEF config_load
<1>2. cfg' \in Configs /\ cfg'.frontends = <<>> /\ Len(cfg'.frontends) = 0
      /\ Len(cfg'.backends) = 0
  BY <1>1 DEF EmptyConfig, Configs
<1>3. Len(loading'.frontends) \in Nat /\ Len(loading'.backends) \in Nat
  BY <1>1, FileParts
<1> QED
  BY <1>1, <1>2, <1>3 DEF Parsed, ParseTypes, Parts, Progress, Agrees

\* A file that is rejected leaves what was built as it was.
LEMMA RejectParsed == ASSUME Parsed, Reject, UNCHANGED <<loading, live>> PROVE Parsed'
BY DEF Parsed, ParseTypes, Parts, Progress, Agrees, Reject

LEMMA GlobalParsed == ASSUME Parsed, parse_global, UNCHANGED live PROVE Parsed'
<1>1. CASE Reject
  BY <1>1, RejectParsed DEF parse_global
<1>2. CASE ~Reject
  <2> DEFINE g == loading.global
  <2>1. /\ pc' = "backends" /\ n' = 1 /\ UNCHANGED loading /\ pc = "global"
        /\ cfg' = [cfg EXCEPT !.workers = ToInt(g.workers), !.max_conns = ToInt(g.max_conns)]
    BY <1>2 DEF parse_global
  <2>2. g \in Global /\ Len(loading.backends) \in Nat
    BY FileParts DEF Parsed, ParseTypes
  <2>3. ToInt(g.workers) \in Int /\ ToInt(g.max_conns) \in Int
    BY <2>2, ToIntType DEF Global
  <2>4. cfg' \in Configs /\ cfg'.backends = cfg.backends /\ cfg'.frontends = cfg.frontends
    BY <2>1, <2>3 DEF Parsed, ParseTypes, Configs
  <2> QED
    BY <2>1, <2>2, <2>4 DEF Parsed, ParseTypes, Parts, Progress, Agrees
<1> QED
  BY <1>1, <1>2

LEMMA BackendsParsed == ASSUME Parsed, parse_backends, UNCHANGED live PROVE Parsed'
<1> DEFINE b == loading.backends[n]
<1>1. /\ loading \in Files /\ live \in Files /\ pc = "backends" /\ n \in Nat \ {0}
      /\ cfg \in Configs /\ n = Len(cfg.backends) + 1 /\ cfg.frontends = <<>>
      /\ Len(cfg.backends) <= Len(loading.backends) /\ UNCHANGED loading
  BY DEF Parsed, ParseTypes, Progress, parse_backends
<1>2. cfg.backends \in Seq(Built) /\ Len(cfg.backends) \in Nat /\ Len(cfg.frontends) = 0
  BY <1>1 DEF Configs
<1>3. Len(loading.backends) \in Nat /\ Len(loading.frontends) \in Nat
  BY <1>1, FileParts
<1>4. CASE Reject
  BY <1>1, <1>4, RejectParsed
<1>5. CASE n <= Len(loading.backends) /\ ~Reject
  <2>1. /\ BackendOk(b) /\ cfg' = [cfg EXCEPT !.backends = Append(@, Backend(b))]
        /\ n' = n + 1 /\ pc' = pc
    BY <1>5 DEF parse_backends
  <2>2. b \in Pool
    BY <1>1, <1>5, FileParts
  <2>3. Backend(b) \in Built /\ Sound(Backend(b).health)
    BY <2>1, <2>2, BackendBuilt DEF BackendOk
  <2> DEFINE more == Append(cfg.backends, Backend(b))
  <2>4. /\ more \in Seq(Built) /\ Len(more) = Len(cfg.backends) + 1
        /\ \A j \in 1..Len(cfg.backends) : more[j] = cfg.backends[j]
        /\ more[Len(cfg.backends) + 1] = Backend(b)
    BY <1>2, <2>3, AppendProperties
  <2> HIDE DEF more
  <2>5. cfg' \in Configs /\ cfg'.backends = more /\ cfg'.frontends = cfg.frontends
    BY <1>1, <2>1, <2>4 DEF Configs, more
  <2>6. ASSUME NEW j \in 1..Len(more) PROVE Sound(more[j].health)
    <3>1. CASE j = Len(cfg.backends) + 1
      BY <2>3, <2>4, <3>1
    <3>2. CASE j \in 1..Len(cfg.backends)
      BY <2>4, <3>2 DEF Parsed, Agrees
    <3> QED
      BY <1>2, <2>4, <3>1, <3>2
  <2>7. ParseTypes' /\ Progress'
    BY <1>1, <1>2, <1>3, <1>5, <2>1, <2>4, <2>5 DEF ParseTypes, Progress, Parts
  <2>8. Agrees'
    BY <1>2, <2>5, <2>6 DEF Agrees
  <2> QED
    BY <2>7, <2>8 DEF Parsed
<1>6. CASE ~(n <= Len(loading.backends)) /\ ~Reject
  <2>1. pc' = "frontends" /\ n' = 1 /\ UNCHANGED cfg
    BY <1>6 DEF parse_backends
  <2> QED
    BY <1>1, <1>2, <1>3, <1>6, <2>1 DEF Parsed, ParseTypes, Progress, Agrees, Parts
<1> QED
  BY <1>4, <1>5, <1>6

LEMMA FrontendsParsed == ASSUME Parsed, parse_frontends, UNCHANGED live PROVE Parsed'
<1> DEFINE done == Len(cfg.frontends)
           f    == loading.frontends[done + 1]
           new  == [listen |-> f.listen, routes |-> <<>>]
           more == Append(cfg.frontends, new)
<1>1. /\ loading \in Files /\ live \in Files /\ pc = "frontends" /\ n \in Nat \ {0}
      /\ cfg \in Configs /\ Len(cfg.backends) = Len(loading.backends)
      /\ done <= Len(loading.frontends) /\ UNCHANGED loading
  BY DEF Parsed, ParseTypes, Progress, parse_frontends
<1>2. cfg.frontends \in Seq(Served) /\ done \in Nat
  BY <1>1 DEF Configs
<1>3. Len(loading.backends) \in Nat /\ Len(loading.frontends) \in Nat
  BY <1>1, FileParts
<1>4. CASE Reject
  BY <1>1, <1>4, RejectParsed
<1>5. CASE done < Len(loading.frontends) /\ ~Reject
  <2>1. cfg' = [cfg EXCEPT !.frontends = more] /\ pc' = "routes" /\ n' = 1
    BY <1>5 DEF parse_frontends
  <2>2. new \in Served
    <3>1. f \in Frontend
      BY <1>1, <1>2, <1>3, <1>5, FileParts
    <3>2. <<>> \in Seq(Route)
      OBVIOUS
    <3> QED
      BY <3>1, <3>2 DEF Frontend, Served
  <2> HIDE DEF new, f
  <2>3. /\ more \in Seq(Served) /\ Len(more) = done + 1 /\ more[done + 1] = new
        /\ \A j \in 1..done : more[j] = cfg.frontends[j]
    BY <1>2, <2>2, AppendProperties
  <2> HIDE DEF more
  <2>4. cfg' \in Configs /\ cfg'.backends = cfg.backends /\ cfg'.frontends = more
    BY <1>1, <2>1, <2>3 DEF Configs
  <2>5. ASSUME NEW j \in 1..Len(more) PROVE more[j].listen = loading.frontends[j].listen
    <3>1. CASE j = done + 1
      BY <2>3, <3>1 DEF new, f
    <3>2. CASE j \in 1..done
      BY <2>3, <3>2 DEF Parsed, Agrees
    <3> QED
      BY <1>2, <2>3, <3>1, <3>2
  <2>6. more # <<>>
    BY <1>2, <2>3
  <2>7. ParseTypes' /\ Progress'
    BY <1>1, <1>2, <1>3, <1>5, <2>1, <2>3, <2>4, <2>6 DEF ParseTypes, Progress, Parts
  <2>8. Agrees'
    BY <1>1, <2>4, <2>5 DEF Parsed, Agrees
  <2> QED
    BY <2>7, <2>8 DEF Parsed
<1>6. CASE ~(done < Len(loading.frontends)) /\ ~Reject
  <2>1. pc' = "loaded" /\ UNCHANGED <<n, cfg>> /\ done # 0
    BY <1>6 DEF parse_frontends
  <2> QED
    BY <1>1, <1>2, <1>3, <1>6, <2>1 DEF Parsed, ParseTypes, Progress, Agrees, Parts
<1> QED
  BY <1>4, <1>5, <1>6

LEMMA RoutesParsed == ASSUME Parsed, parse_routes, UNCHANGED live PROVE Parsed'
<1> DEFINE last == Len(cfg.frontends)
           raw  == loading.frontends[last].routes
<1>1. /\ loading \in Files /\ live \in Files /\ pc = "routes" /\ n \in Nat \ {0}
      /\ cfg \in Configs /\ Len(cfg.backends) = Len(loading.backends)
      /\ last <= Len(loading.frontends) /\ cfg.frontends # <<>> /\ UNCHANGED loading
  BY DEF Parsed, ParseTypes, Progress, parse_routes
<1>2. /\ cfg.frontends \in Seq(Served) /\ last \in Nat \ {0}
      /\ \A j \in 1..last : cfg.frontends[j] \in Served
      /\ cfg.backends \in Seq(Built) /\ DOMAIN cfg.backends \subseteq Nat
  <2>1. cfg.frontends \in Seq(Served) /\ cfg.backends \in Seq(Built)
    BY <1>1 DEF Configs
  <2> QED
    BY <1>1, <2>1, ElementOfSeq, EmptySeq, LenProperties
<1>3. Len(loading.backends) \in Nat /\ Len(loading.frontends) \in Nat
  BY <1>1, FileParts
<1>4. CASE Reject
  BY <1>1, <1>4, RejectParsed
<1>5. CASE n <= Len(raw) /\ ~Reject
  <2>1. n' = n + 1 /\ pc' = pc
    BY <1>5 DEF parse_routes
  <2>2. PICK j \in DOMAIN cfg.backends :
          cfg' = [cfg EXCEPT !.frontends[last].routes =
                    Append(@, [host |-> raw[n].host, backend_index |-> j])]
    BY <1>5 DEF parse_routes, config_find_backend
  <2> DEFINE new == [host |-> raw[n].host, backend_index |-> j]
             front == [cfg.frontends[last] EXCEPT !.routes = Append(@, new)]
             more == [cfg.frontends EXCEPT ![last] = front]
  <2>3. new \in Route
    <3>1. loading.frontends[last] \in Frontend
      BY <1>1, <1>2, <1>3, FileParts
    <3>2. raw \in Seq([host : Host, backend : STRING]) /\ n \in 1..Len(raw)
      BY <1>1, <1>5, <3>1, LenProperties DEF Frontend
    <3>3. raw[n] \in [host : Host, backend : STRING]
      BY <3>2, ElementOfSeq
    <3> QED
      BY <1>2, <3>3 DEF Route
  <2> HIDE DEF new
  <2>4. front \in Served /\ front.listen = cfg.frontends[last].listen
    <3> DEFINE old == cfg.frontends[last]
    <3>1. old \in Served
      BY <1>2
    <3> HIDE DEF old
    <3>2. Append(old.routes, new) \in Seq(Route)
      BY <2>3, <3>1, AppendProperties DEF Served
    <3>3. [old EXCEPT !.routes = Append(@, new)] \in Served
      BY <3>1, <3>2 DEF Served
    <3>4. [old EXCEPT !.routes = Append(@, new)].listen = old.listen
      BY <3>1 DEF Served
    <3> QED
      BY <3>3, <3>4 DEF old
  <2>5. cfg' = [cfg EXCEPT !.frontends = more]
    BY <1>1, <1>2, <2>2 DEF new, Configs, Served
  <2> HIDE DEF front
  <2>6. /\ more \in Seq(Served) /\ Len(more) = last
        /\ \A k \in 1..last : more[k].listen = cfg.frontends[k].listen
    BY <1>2, <2>4
  <2> HIDE DEF more
  <2>7. cfg' \in Configs /\ cfg'.backends = cfg.backends /\ cfg'.frontends = more
    BY <1>1, <2>5, <2>6 DEF Configs
  <2>8. more # <<>>
    BY <1>2, <2>6
  <2>9. ParseTypes' /\ Progress'
    BY <1>1, <1>2, <1>3, <2>1, <2>6, <2>7, <2>8 DEF ParseTypes, Progress, Parts
  <2>10. Agrees'
    BY <1>1, <2>6, <2>7 DEF Parsed, Agrees
  <2> QED
    BY <2>9, <2>10, <1>1 DEF Parsed
<1>6. CASE ~(n <= Len(raw)) /\ ~Reject
  <2>1. pc' = "frontends" /\ n' = 1 /\ UNCHANGED cfg
    BY <1>6 DEF parse_routes
  <2> QED
    BY <1>1, <1>2, <1>3, <1>6, <2>1 DEF Parsed, ParseTypes, Progress, Agrees, Parts
<1> QED
  BY <1>4, <1>5, <1>6

\* A config that was loaded, or refused, is not looked at again.
LEMMA EndParsed ==
  ASSUME Parsed, pc = "loaded", pc' \in {"idle", "rejected"}, UNCHANGED <<loading, n, cfg>>,
         live' \in {live, loading}
  PROVE  Parsed'
BY DEF Parsed, ParseTypes, Progress, Agrees, Parts

\* What is published, at the start or by a reload, is the file that was just
\* loaded: frontends with the same listeners, pools with sound probes.
LEMMA PublishGood ==
  ASSUME Parsed, pc = "loaded", Publish
  PROVE  /\ live' = loading /\ Len(tables') = Len(cfg.frontends)
         /\ Len(tables') = Len(loading.frontends) /\ Len(backends') = Len(loading.backends)
         /\ \A j \in 1..Len(loading.frontends) :
              loading.frontends[j].listen = cfg.frontends[j].listen
         /\ \A j \in DOMAIN backends' : Sound(backends'[j].health)
<1>1. /\ cfg \in Configs /\ Len(cfg.backends) = Len(loading.backends)
      /\ Len(cfg.frontends) = Len(loading.frontends)
  BY DEF Parsed, ParseTypes, Progress
<1>2. /\ Len(cfg.frontends) \in Nat /\ DOMAIN cfg.frontends = 1..Len(cfg.frontends)
      /\ DOMAIN cfg.backends = 1..Len(cfg.backends)
  BY <1>1, LenProperties DEF Configs
<1>3. tables' = [j \in 1..Len(cfg.frontends) |-> table_build(cfg.frontends[j].routes)]
  BY <1>2 DEF Publish
<1>4. Len(tables') = Len(cfg.frontends)
  BY <1>2, <1>3
<1> QED
  BY <1>1, <1>2, <1>4 DEF Publish, Parsed, Agrees

\* The parser leaves the worker alone.
LEMMA StepParsed == ASSUME Parsed, Step PROVE Parsed'
<1>1. UNCHANGED live
  BY DEF Step, worker
<1> QED
  BY <1>1, GlobalParsed, BackendsParsed, FrontendsParsed, RoutesParsed DEF Step, Parse

LEMMA StepUnchanged ==
  ASSUME NumbersFit, ServesItsFrontend, UNCHANGED worker PROVE NumbersFit' /\ ServesItsFrontend'
BY DEF NumbersFit, ServesItsFrontend, worker, Up

LEMMA StartGood == ASSUME Inv, Start PROVE Inv'
<1>1. Parsed /\ pc = "loaded" /\ Publish
  BY DEF Inv, Parsed, Start
<1>2. Parsed'
  BY <1>1, EndParsed DEF Start, Publish
<1>3. /\ cfg \in Configs /\ cfg.max_conns \in Int /\ Len(cfg.frontends) \in Nat
      /\ DOMAIN cfg.frontends = 1..Len(cfg.frontends)
  BY <1>1, LenProperties DEF Parsed, ParseTypes, Configs
<1>4. workers' \in Nat \ {0} /\ slots' \in MinSlots..MaxSlots
  BY <1>3, SomeWorkers, SlotsWithin DEF Start
<1>5. /\ listeners' \in Seq(Int)
      /\ Len(listeners') = Len(cfg.frontends) /\ DOMAIN listeners' = 1..Len(cfg.frontends)
      /\ \A j \in DOMAIN listeners' : listeners'[j] = cfg.frontends[j].listen.port
  <2>1. \A j \in 1..Len(cfg.frontends) : cfg.frontends[j].listen.port \in Int
    <3>1. ASSUME NEW j \in 1..Len(cfg.frontends) PROVE cfg.frontends[j].listen.port \in Int
      <4>1. cfg.frontends \in Seq(Served)
        BY <1>3 DEF Configs
      <4>2. cfg.frontends[j] \in Served
        BY <4>1, ElementOfSeq
      <4> QED
        BY <4>2 DEF Served, Address
    <3> QED
      BY <3>1
  <2> DEFINE ports == [j \in 1..Len(cfg.frontends) |-> cfg.frontends[j].listen.port]
  <2>2. listeners' = ports
    BY <1>3 DEF Start
  <2>3. ports \in [1..Len(cfg.frontends) -> Int]
    BY <2>1
  <2>4. \A j \in 1..Len(cfg.frontends) : ports[j] = cfg.frontends[j].listen.port
    OBVIOUS
  <2> HIDE DEF ports
  <2>5. ports \in Seq(Int)
    BY <1>3, <2>3, SeqDef
  <2>6. DOMAIN ports = 1..Len(cfg.frontends)
    BY <2>3
  <2>7. Len(ports) = Len(cfg.frontends)
    BY <1>3, <2>5, <2>6, LenProperties
  <2> QED
    BY <2>2, <2>4, <2>5, <2>6, <2>7
<1>6. ServesItsFrontend'
  BY <1>1, <1>5, PublishGood DEF ServesItsFrontend, Up, Parsed, Progress
<1>7. NumbersFit'
  BY <1>1, <1>4, PublishGood DEF NumbersFit, Sound
<1> QED
  BY <1>2, <1>5, <1>6, <1>7 DEF Inv, Parsed

LEMMA ReplaceGood == ASSUME Inv, Replace PROVE Inv'
<1>1. Parsed /\ pc = "loaded" /\ SameListeners
  BY DEF Inv, Parsed, Replace
<1>2. Parsed'
  BY <1>1, EndParsed DEF Replace, Publish
<1>3. UNCHANGED <<listeners, workers, slots>>
  BY DEF Replace
<1>4. CASE UNCHANGED <<tables, backends, live>>
  BY <1>2, <1>3, <1>4 DEF Inv, Parsed, ServesItsFrontend, NumbersFit, Up
<1>5. CASE Publish
  <2>1. ServesItsFrontend'
    <3>1. DOMAIN listeners = 1..Len(cfg.frontends) /\ Len(listeners) = Len(cfg.frontends)
      BY <1>1, LenProperties DEF Inv, SameListeners
    <3>2. Len(tables') = Len(listeners) /\ Len(live'.frontends) = Len(listeners)
      BY <1>1, <1>5, <3>1, PublishGood DEF Parsed, Progress
    <3>3. \A j \in DOMAIN listeners : live'.frontends[j].listen.port = listeners[j]
      BY <1>1, <1>5, <3>1, PublishGood DEF SameListeners, Parsed, Progress
    <3> QED
      BY <1>3, <3>2, <3>3 DEF ServesItsFrontend
  <2>2. NumbersFit'
    BY <1>1, <1>3, <1>5, PublishGood DEF Inv, NumbersFit, Sound, Up
  <2> QED
    BY <1>2, <1>3, <2>1, <2>2 DEF Inv, Parsed
<1> QED
  BY <1>4, <1>5 DEF Replace

LEMMA Invariance == Spec => []Inv
<1>1. Init => Inv
  <2> SUFFICES ASSUME Init PROVE Inv
    OBVIOUS
  <2>1. Parsed
    BY InitParsed DEF Init
  <2>2. listeners = <<>> /\ backends = <<>>
    BY DEF Init
  <2> QED
    BY <2>1, <2>2 DEF Inv, Parsed, ServesItsFrontend, NumbersFit, Up
<1>2. Inv /\ [Next]_vars => Inv'
  <2> SUFFICES ASSUME Inv, [Next]_vars PROVE Inv'
    OBVIOUS
  <2>1. CASE Load
    <3>1. Parsed'
      BY <2>1, LoadParsed DEF Load, Inv, Parsed
    <3> QED
      BY <2>1, <3>1, StepUnchanged DEF Load, Inv, Parsed, ServesItsFrontend, NumbersFit, Up
  <2>2. CASE Step
    <3>1. Parsed'
      BY <2>2, StepParsed DEF Inv, Parsed
    <3> QED
      BY <2>2, <3>1, StepUnchanged DEF Inv, Parsed, Step, worker
  <2>3. CASE Start
    BY <2>3, StartGood
  <2>4. CASE Replace
    BY <2>4, ReplaceGood
  <2>5. CASE RejectReload
    <3>1. Parsed'
      BY <2>5, EndParsed DEF RejectReload, Inv, Parsed, worker
    <3> QED
      BY <2>5, <3>1, StepUnchanged DEF Inv, Parsed, RejectReload, worker
  <2>6. CASE UNCHANGED vars
    BY <2>6 DEF vars, parse, worker, Inv, ParseTypes, Progress, Agrees, ServesItsFrontend,
                NumbersFit, Up
  <2> QED
    BY <2>1, <2>2, <2>3, <2>4, <2>5, <2>6 DEF Next
<1> QED
  BY <1>1, <1>2, PTL DEF Spec

----------------------------------------------------------------------------
(* The routes that are published.                                          *)

\* How many of the routes of frontend j have been read.
Read(j) ==
  IF pc = "routes" /\ j = Len(cfg.frontends) THEN n - 1 ELSE Len(loading.frontends[j].routes)

\* What has been built of the routes agrees with what was read of them.
Routed ==
  pc \in {"frontends", "routes", "loaded"} =>
    \A j \in 1..Len(cfg.frontends) :
      /\ Resolves(cfg.frontends[j].routes, loading.frontends[j].routes, Read(j), cfg.backends)
      /\ Read(j) <= Len(loading.frontends[j].routes)

\* The tables are made of routes that agree with the live file.
TablesRight ==
  Up => \A j \in 1..Len(listeners) : \E R :
          /\ tables[j] = table_build(R)
          /\ Resolves(R, live.frontends[j].routes, Len(live.frontends[j].routes), backends)

\* The routes of a frontend of a file.
LEMMA RoutesOfFile ==
  ASSUME NEW f \in Files, NEW j \in 1..Len(f.frontends)
  PROVE  LET routes == f.frontends[j].routes
         IN /\ routes \in Seq([host : Host, backend : STRING]) /\ Len(routes) \in Nat
            /\ DOMAIN routes = 1..Len(routes)
            /\ \A q \in 1..Len(routes) : routes[q] \in [host : Host, backend : STRING]
<1>1. f.frontends[j] \in Frontend
  BY FileParts
<1>2. f.frontends[j].routes \in Seq([host : Host, backend : STRING])
  BY <1>1 DEF Frontend
<1> QED
  BY <1>2, LenProperties, ElementOfSeq

\* One route more.
LEMMA ResolvesNext ==
  ASSUME NEW R, NEW routes, NEW m \in Nat, NEW pools, Resolves(R, routes, m, pools),
         NEW r \in Route, r.host = routes[m + 1].host, HostOk(r.host),
         r.backend_index # NoPool, pools[r.backend_index].name = routes[m + 1].backend,
         \A q \in 1..m : R[q].host # r.host
  PROVE  Resolves(Append(R, r), routes, m + 1, pools)
<1> DEFINE more == Append(R, r)
<1>1. R \in Seq(Route) /\ Len(R) = m
  BY DEF Resolves
<1>2. /\ more \in Seq(Route) /\ Len(more) = m + 1 /\ more[m + 1] = r
      /\ \A q \in 1..m : more[q] = R[q]
  BY <1>1, AppendProperties
<1> HIDE DEF more
<1>3. ASSUME NEW q \in 1..(m + 1)
      PROVE  /\ more[q].host = routes[q].host /\ HostOk(more[q].host)
             /\ more[q].backend_index # NoPool
             /\ pools[more[q].backend_index].name = routes[q].backend
  <2>1. CASE q = m + 1
    BY <1>2, <2>1
  <2>2. CASE q \in 1..m
    BY <1>2, <1>1, <2>2 DEF Resolves
  <2> QED
    BY <2>1, <2>2
<1>4. ASSUME NEW q \in 1..(m + 1), NEW p \in 1..(m + 1), more[q].host = more[p].host
      PROVE  q = p
  <2>1. CASE q \in 1..m /\ p \in 1..m
    BY <1>1, <1>2, <1>4, <2>1 DEF Resolves
  <2>2. CASE q = m + 1 /\ p \in 1..m
    BY <1>2, <1>4, <2>2
  <2>3. CASE q \in 1..m /\ p = m + 1
    BY <1>2, <1>4, <2>3
  <2> QED
    BY <2>1, <2>2, <2>3
<1>5. Resolves(more, routes, m + 1, pools)
  BY <1>2, <1>3, <1>4 DEF Resolves
<1> QED
  BY <1>5 DEF more

LEMMA FrontendsRouted == ASSUME Parsed, Routed, parse_frontends PROVE Routed'
<1> DEFINE done == Len(cfg.frontends)
           f    == loading.frontends[done + 1]
           new  == [listen |-> f.listen, routes |-> <<>>]
           more == Append(cfg.frontends, new)
<1>1. /\ loading \in Files /\ pc = "frontends" /\ cfg \in Configs
      /\ done <= Len(loading.frontends) /\ UNCHANGED loading
  BY DEF Parsed, ParseTypes, Progress, parse_frontends
<1>2. cfg.frontends \in Seq(Served) /\ done \in Nat /\ Len(loading.frontends) \in Nat
  BY <1>1, FileParts DEF Configs
<1>3. \A j \in 1..done :
        Resolves(cfg.frontends[j].routes, loading.frontends[j].routes,
                 Len(loading.frontends[j].routes), cfg.backends)
  BY <1>1 DEF Routed, Read
<1>4. \A j \in 1..Len(loading.frontends) : Len(loading.frontends[j].routes) \in Nat
  BY <1>1, RoutesOfFile
<1>5. CASE done < Len(loading.frontends) /\ ~Reject
  <2>1. cfg' = [cfg EXCEPT !.frontends = more] /\ pc' = "routes" /\ n' = 1
    BY <1>5 DEF parse_frontends
  <2>2. new \in Served
    <3>1. f \in Frontend
      BY <1>1, <1>2, <1>5, FileParts
    <3>2. <<>> \in Seq(Route)
      OBVIOUS
    <3> QED
      BY <3>1, <3>2 DEF Frontend, Served
  <2>3. new.routes = <<>>
    OBVIOUS
  <2> HIDE DEF new, f
  <2>4. /\ Len(more) = done + 1 /\ more[done + 1] = new
        /\ \A j \in 1..done : more[j] = cfg.frontends[j]
    BY <1>2, <2>2, AppendProperties
  <2> HIDE DEF more
  <2>5. cfg'.backends = cfg.backends /\ cfg'.frontends = more
    BY <1>1, <2>1 DEF Configs
  <2>6. ASSUME NEW j \in 1..(done + 1)
        PROVE  /\ Resolves(more[j].routes, loading.frontends[j].routes, Read(j)', cfg.backends)
               /\ Read(j)' <= Len(loading.frontends[j].routes)
    <3>1. CASE j = done + 1
      <4>1. Read(j)' = 0
        BY <1>1, <2>1, <2>4, <2>5, <3>1 DEF Read
      <4>2. more[j].routes = <<>>
        BY <2>3, <2>4, <3>1
      <4>3. Resolves(<<>>, loading.frontends[j].routes, 0, cfg.backends)
        BY DEF Resolves
      <4>4. Len(loading.frontends[j].routes) \in Nat
        BY <1>2, <1>4, <1>5, <3>1
      <4> QED
        BY <4>1, <4>2, <4>3, <4>4
    <3>2. CASE j \in 1..done
      <4>1. Read(j)' = Len(loading.frontends[j].routes)
        BY <1>1, <1>2, <2>1, <2>4, <2>5, <3>2 DEF Read
      <4>2. j \in 1..Len(loading.frontends)
        BY <1>1, <1>2, <3>2
      <4>3. Len(loading.frontends[j].routes) \in Nat
        BY <1>4, <4>2
      <4> QED
        BY <1>3, <2>4, <3>2, <4>1, <4>3
    <3> QED
      BY <1>2, <3>1, <3>2
  <2> QED
    BY <1>1, <2>4, <2>5, <2>6 DEF Routed
<1>6. CASE ~(done < Len(loading.frontends)) /\ ~Reject
  <2>1. pc' = "loaded" /\ UNCHANGED <<n, cfg>>
    BY <1>6 DEF parse_frontends
  <2>2. \A j \in 1..done : Read(j)' = Len(loading.frontends[j].routes)
    BY <1>1, <2>1 DEF Read
  <2>3. \A j \in 1..done : Len(loading.frontends[j].routes) \in Nat
    BY <1>1, <1>2, <1>4
  <2> QED
    BY <1>1, <1>3, <2>1, <2>2, <2>3 DEF Routed
<1>7. CASE Reject
  BY <1>7 DEF Routed, Reject
<1> QED
  BY <1>5, <1>6, <1>7

LEMMA RoutesRouted == ASSUME Parsed, Routed, parse_routes PROVE Routed'
<1> DEFINE last == Len(cfg.frontends)
           raw  == loading.frontends[last].routes
           old  == cfg.frontends[last]
<1>1. /\ loading \in Files /\ pc = "routes" /\ n \in Nat \ {0} /\ cfg \in Configs
      /\ last <= Len(loading.frontends) /\ cfg.frontends # <<>> /\ UNCHANGED loading
  BY DEF Parsed, ParseTypes, Progress, parse_routes
<1>2. /\ cfg.frontends \in Seq(Served) /\ last \in Nat \ {0}
      /\ \A j \in 1..last : cfg.frontends[j] \in Served
      /\ cfg.backends \in Seq(Built) /\ DOMAIN cfg.backends = 1..Len(cfg.backends)
      /\ Len(cfg.backends) \in Nat /\ Len(loading.frontends) \in Nat
  <2>1. cfg.frontends \in Seq(Served) /\ cfg.backends \in Seq(Built)
    BY <1>1 DEF Configs
  <2> QED
    BY <1>1, <2>1, ElementOfSeq, EmptySeq, LenProperties, FileParts
<1>3. \A j \in 1..last : Len(loading.frontends[j].routes) \in Nat
  BY <1>1, <1>2, RoutesOfFile
<1>4. /\ \A j \in 1..(last - 1) :
           Resolves(cfg.frontends[j].routes, loading.frontends[j].routes,
                    Len(loading.frontends[j].routes), cfg.backends)
      /\ Resolves(old.routes, raw, n - 1, cfg.backends) /\ n - 1 <= Len(raw)
  <2>1. Read(last) = n - 1 /\ last \in 1..last
    BY <1>1, <1>2 DEF Read
  <2>2. \A j \in 1..(last - 1) :
          Read(j) = Len(loading.frontends[j].routes) /\ j \in 1..last
    BY <1>1, <1>2 DEF Read
  <2> QED
    BY <1>1, <2>1, <2>2 DEF Routed
<1>5. CASE n <= Len(raw) /\ ~Reject
  <2>1. n' = n + 1 /\ pc' = pc /\ HostOk(raw[n].host)
        /\ \A q \in DOMAIN old.routes : old.routes[q].host # raw[n].host
    BY <1>5 DEF parse_routes
  <2>2. PICK k \in DOMAIN cfg.backends :
          /\ cfg.backends[k].name = raw[n].backend
          /\ cfg' = [cfg EXCEPT !.frontends[last].routes =
                       Append(@, [host |-> raw[n].host, backend_index |-> k])]
    BY <1>5 DEF parse_routes, config_find_backend
  <2> DEFINE new == [host |-> raw[n].host, backend_index |-> k]
             more == [cfg.frontends EXCEPT ![last].routes = Append(@, new)]
  <2>3. new \in Route /\ new.host = raw[n].host /\ new.backend_index = k
    <3>1. raw[n] \in [host : Host, backend : STRING]
      <4>1. last \in 1..Len(loading.frontends) /\ last \in 1..last
        BY <1>1, <1>2
      <4>2. n \in 1..Len(raw)
        BY <1>1, <1>3, <1>5, <4>1
      <4> QED
        BY <1>1, <4>1, <4>2, RoutesOfFile
    <3> QED
      BY <1>2, <3>1 DEF Route
  <2> HIDE DEF new
  <2>4. cfg'.frontends = more /\ cfg'.backends = cfg.backends
    BY <1>1, <1>2, <2>2 DEF new, Configs
  <2>5. /\ Len(more) = last /\ more[last].routes = Append(old.routes, new)
        /\ \A j \in 1..(last - 1) : more[j] = cfg.frontends[j]
    BY <1>2 DEF Served
  <2> HIDE DEF more
  <2>6. Resolves(Append(old.routes, new), raw, (n - 1) + 1, cfg.backends)
    <3>1. n - 1 \in Nat /\ (n - 1) + 1 = n
      BY <1>1
    <3>2. DOMAIN old.routes = 1..(n - 1)
      BY <1>4, LenProperties DEF Resolves
    <3>3. k # NoPool
      BY <1>2 DEF NoPool
    <3> HIDE DEF old, raw, last
    <3>4. \A q \in 1..(n - 1) : old.routes[q].host # new.host
      BY <2>1, <2>3, <3>2
    <3> QED
      BY <1>4, <2>1, <2>2, <2>3, <3>1, <3>3, <3>4, ResolvesNext
  <2>7. ASSUME NEW j \in 1..last
        PROVE  /\ Resolves(more[j].routes, loading.frontends[j].routes, Read(j)', cfg.backends)
               /\ Read(j)' <= Len(loading.frontends[j].routes)
    <3>1. CASE j = last
      <4>1. Read(j)' = n /\ (n - 1) + 1 = n
        BY <1>1, <2>1, <2>4, <2>5, <3>1 DEF Read
      <4> QED
        BY <1>5, <2>5, <2>6, <3>1, <4>1
    <3>2. CASE j \in 1..(last - 1)
      <4>1. Read(j)' = Len(loading.frontends[j].routes)
        BY <1>1, <1>2, <2>1, <2>4, <2>5, <3>2 DEF Read
      <4>2. Len(loading.frontends[j].routes) \in Nat
        BY <1>3
      <4> QED
        BY <1>4, <2>5, <3>2, <4>1, <4>2
    <3> QED
      BY <1>2, <3>1, <3>2
  <2> QED
    BY <1>1, <2>4, <2>5, <2>7 DEF Routed
<1>6. CASE ~(n <= Len(raw)) /\ ~Reject
  <2>1. pc' = "frontends" /\ UNCHANGED cfg
    BY <1>6 DEF parse_routes
  <2>2. \A j \in 1..last : Read(j)' = Len(loading.frontends[j].routes)
    BY <1>1, <2>1 DEF Read
  <2>3. n - 1 = Len(raw)
    <3>1. last \in 1..last
      BY <1>2
    <3>2. Len(raw) \in Nat
      BY <1>3, <3>1
    <3> QED
      BY <1>1, <1>4, <1>6, <3>2
  <2>4. \A j \in 1..last :
          Resolves(cfg.frontends[j].routes, loading.frontends[j].routes,
                   Len(loading.frontends[j].routes), cfg.backends)
    BY <1>2, <1>4, <2>3
  <2> QED
    BY <1>1, <1>3, <2>1, <2>2, <2>4 DEF Routed
<1>7. CASE Reject
  BY <1>7 DEF Routed, Reject
<1> QED
  BY <1>5, <1>6, <1>7

LEMMA StepRouted == ASSUME Parsed, Routed, Step PROVE Routed'
<1>1. CASE parse_global \/ parse_backends
  <2>1. pc' \in {"backends", "rejected"} \/ (pc' = "frontends" /\ cfg' = cfg /\ pc = "backends")
    BY <1>1 DEF parse_global, parse_backends, Reject
  <2>2. pc = "backends" => Len(cfg.frontends) = 0
    BY DEF Parsed, Progress
  <2> QED
    BY <2>1, <2>2 DEF Routed
<1> QED
  BY <1>1, FrontendsRouted, RoutesRouted DEF Step, Parse

\* What is published at the start or by a reload.
LEMMA PublishRight ==
  ASSUME Parsed, Routed, pc = "loaded", Publish, Len(listeners') = Len(cfg.frontends)
  PROVE  TablesRight'
<1>1. /\ Len(cfg.frontends) \in Nat /\ DOMAIN cfg.frontends = 1..Len(cfg.frontends)
  BY LenProperties DEF Parsed, ParseTypes, Configs
<1>2. ASSUME NEW j \in 1..Len(cfg.frontends)
      PROVE  /\ tables'[j] = table_build(cfg.frontends[j].routes)
             /\ Resolves(cfg.frontends[j].routes, live'.frontends[j].routes,
                         Len(live'.frontends[j].routes), backends')
  <2>1. tables'[j] = table_build(cfg.frontends[j].routes)
    BY <1>1 DEF Publish
  <2>2. Read(j) = Len(loading.frontends[j].routes)
    BY DEF Read
  <2>3. Resolves(cfg.frontends[j].routes, loading.frontends[j].routes, Read(j), cfg.backends)
    BY DEF Routed
  <2> QED
    BY <2>1, <2>2, <2>3 DEF Publish
<1> QED
  BY <1>2 DEF TablesRight

RoutesInv == Routed /\ TablesRight

LEMMA RoutesInvariance == Spec => []RoutesInv
<1>1. Init => RoutesInv
  BY DEF Init, ParseInit, RoutesInv, Routed, TablesRight, Up
<1>2. Inv /\ Inv' /\ RoutesInv /\ [Next]_vars => RoutesInv'
  <2> SUFFICES ASSUME Inv, Inv', RoutesInv, [Next]_vars PROVE RoutesInv'
    OBVIOUS
  <2>1. Parsed /\ Parsed'
    BY DEF Inv, Parsed
  <2>2. CASE Load
    <3>1. pc' = "global" /\ UNCHANGED <<listeners, tables, backends, live>>
      BY <2>2 DEF Load, config_load
    <3> QED
      BY <3>1 DEF RoutesInv, Routed, TablesRight, Up
  <2>3. CASE Step
    <3>1. UNCHANGED <<listeners, tables, backends, live>>
      BY <2>3 DEF Step, worker
    <3> QED
      BY <2>1, <2>3, <3>1, StepRouted DEF RoutesInv, TablesRight, Up
  <2>4. CASE Start
    <3>1. pc = "loaded" /\ pc' = "idle" /\ Publish
      BY <2>4 DEF Start
    <3>2. Len(listeners') = Len(cfg.frontends)
      <4>1. Len(cfg.frontends) \in Nat /\ DOMAIN cfg.frontends = 1..Len(cfg.frontends)
        BY <2>1, LenProperties DEF Parsed, ParseTypes, Configs
      <4> QED
        BY <2>4, <4>1 DEF Start
    <3> QED
      BY <2>1, <3>1, <3>2, PublishRight DEF RoutesInv, Routed
  <2>5. CASE Replace
    <3>1. pc = "loaded" /\ pc' = "idle" /\ UNCHANGED listeners /\ SameListeners
      BY <2>5 DEF Replace
    <3>2. CASE Publish
      BY <2>1, <3>1, <3>2, PublishRight DEF RoutesInv, Routed, SameListeners
    <3>3. CASE UNCHANGED <<tables, backends, live>>
      BY <3>1, <3>3 DEF RoutesInv, Routed, TablesRight, Up
    <3> QED
      BY <2>5, <3>2, <3>3 DEF Replace
  <2>6. CASE RejectReload
    BY <2>6 DEF RejectReload, worker, RoutesInv, Routed, TablesRight, Up
  <2>7. CASE UNCHANGED vars
    BY <2>7 DEF vars, parse, worker, RoutesInv, Routed, Read, TablesRight, Up
  <2> QED
    BY <2>2, <2>3, <2>4, <2>5, <2>6, <2>7 DEF Next
<1> QED
  BY <1>1, <1>2, Invariance, PTL DEF Spec

----------------------------------------------------------------------------
(* The theorems.                                                           *)

(***************************************************************************)
(* For any files and any number of reloads, the table at the index of a    *)
(* listener is that of the frontend which the live file gives its port     *)
(* (main.c, reload_config).                                                *)
(***************************************************************************)
THEOREM ListenersServed == Spec => []ServesItsFrontend
<1>1. Inv => ServesItsFrontend
  BY DEF Inv
<1> QED
  BY <1>1, Invariance, PTL

(***************************************************************************)
(* For any files, any hash and any number of reloads, a lookup in the      *)
(* table of a listener finds the backend that the live file names for the  *)
(* host, whatever the order of its routes and whatever names share a       *)
(* bucket (router.c, router_lookup).                                       *)
(***************************************************************************)
THEOREM LookupsRight == Spec => []LookupRight
<1>1. Inv /\ RoutesInv => LookupRight
  <2> SUFFICES ASSUME Inv, RoutesInv, Up, NEW j \in DOMAIN listeners, NEW h \in Hosts
               PROVE  Found(tables[j], h) = Answer(live.frontends[j].routes, h)
    BY DEF LookupRight
  <2> DEFINE routes == live.frontends[j].routes
  <2>1. j \in 1..Len(listeners) /\ Len(listeners) = Len(live.frontends) /\ live \in Files
    BY LenProperties DEF Inv, ServesItsFrontend, ParseTypes
  <2>2. PICK R : tables[j] = table_build(R) /\ Resolves(R, routes, Len(routes), backends)
    BY <2>1 DEF RoutesInv, TablesRight
  <2>3. DOMAIN routes = 1..Len(routes)
    BY <2>1, RoutesOfFile
  <2>4. Hash[router_normalize_host(h)] \in Nat
    BY ReloadAssumption
  <2> HIDE DEF routes
  <2>5. Finds(router_lookup(table_build(R), h), routes, backends, h)
    BY <2>2, <2>3, <2>4, LookupIs
  <2> QED
    BY <2>2, <2>5 DEF Finds, Found, routes
<1> QED
  BY <1>1, Invariance, RoutesInvariance, PTL

(***************************************************************************)
(* For any files and any width of int, the probes of a published pool end  *)
(* before the next one is due, and a worker has processes, and slots       *)
(* within the limits (config.c, load_health; main.c, slots_for).           *)
(***************************************************************************)
THEOREM NumbersSafe == Spec => []NumbersFit
<1>1. Inv => NumbersFit
  BY DEF Inv
<1> QED
  BY <1>1, Invariance, PTL

(***************************************************************************)
(* Only a file that was loaded to its end replaces the live one, with all  *)
(* its frontends and pools (main.c, reload_config).                        *)
(***************************************************************************)
THEOREM ReloadAtomic == Spec => AllOrNothing
<1> DEFINE Whole == live' # live \/ tables' # tables \/ backends' # backends =>
                      /\ pc = "loaded" /\ live' = loading
                      /\ Len(tables') = Len(loading.frontends)
                      /\ Len(backends') = Len(loading.backends)
<1>1. Inv /\ [Next]_vars => [Whole]_vars
  <2> SUFFICES ASSUME Inv, Next PROVE Whole
    BY DEF Whole
  <2>1. CASE pc = "loaded" /\ Publish
    BY <2>1, PublishGood DEF Inv, Parsed
  <2>2. CASE UNCHANGED <<live, tables, backends>>
    BY <2>2
  <2> QED
    BY <2>1, <2>2 DEF Next, Load, Step, Start, Replace, RejectReload, worker
<1> QED
  BY <1>1, Invariance, PTL DEF Spec, AllOrNothing
=============================================================================
