------------------------------- MODULE Routes -------------------------------
(***************************************************************************)
(* The table of routes of one frontend (router.c): how table_build makes   *)
(* it from the routes of the configuration, and what router_lookup finds    *)
(* in it.  A host is the sequence of its labels; "*.b.test" is a pattern    *)
(* of the form "wild" with the labels of its suffix.                        *)
(***************************************************************************)
EXTENDS Integers, Sequences, SequencesExt

CONSTANTS
  Hash,      \* router_hash_djb2 on the hosts of this model
  Lower      \* tolower, label by label

NoPool == 0

\* The first power of two, from 8 on, that is not below want.
next_pow2(want) ==
  LET power[e \in 0..want] == IF e = 0 THEN 8 ELSE 2 * power[e - 1]
  IN power[CHOOSE e \in 0..want : power[e] >= want /\ \A d \in 0..(e - 1) : power[d] < want]

Buckets(routes) ==
  next_pow2(2 * Cardinality({j \in DOMAIN routes : routes[j].host.form = "exact"}) + 1)

EmptyTable(nbuckets) ==
  [nbuckets |-> nbuckets, chains |-> [b \in 0..(nbuckets - 1) |-> <<>>],
   wild |-> <<>>, fallback |-> NoPool]

\* One route: an exact host goes to the front of the chain of its bucket.
Enter(table, r) ==
  CASE r.host.form = "default" -> [table EXCEPT !.fallback = r.backend_index]
    [] r.host.form = "wild"    -> [table EXCEPT !.wild = Append(@, r)]
    [] r.host.form = "exact"   ->
         [table EXCEPT !.chains[Hash[r.host.labels] % table.nbuckets] = <<r>> \o @]

\* A wildcard among others that are sorted: behind those with as many labels.
Insert(w, key) ==
  InsertAt(w, Max({0} \cup {j \in DOMAIN w : Len(w[j].host.labels) >= Len(key.host.labels)}) + 1,
           key)

\* Mutant: the wildcards are kept in the order of the configuration.
unsorted_wildcards(w) == w

\* An insertion that is stable, the most labels first.
sort_wildcards(w) ==
  LET sorted[m \in 0..Len(w)] == IF m = 0 THEN <<>> ELSE Insert(sorted[m - 1], w[m])
  IN sorted[Len(w)]

table_build(routes) ==
  LET after[m \in 0..Len(routes)] ==
        IF m = 0 THEN EmptyTable(Buckets(routes)) ELSE Enter(after[m - 1], routes[m])
  IN [after[Len(routes)] EXCEPT !.wild = sort_wildcards(@)]

\* The pool of the first entry of those that match.
First(entries, matching) ==
  IF matching = {} THEN NoPool ELSE entries[Min(matching)].backend_index

\* Something has to be in front of the suffix.
Matches(labels, suffix) ==
  LET front == Len(labels) - Len(suffix)
  IN /\ front > 0 /\ SubSeq(labels, front + 1, Len(labels)) = suffix
     /\ front > 1 \/ labels[1] # ""

\* The labels in lower case.  The port is gone; whether there is a character
\* that is refused is host.ok.
router_normalize_host(host) == [j \in DOMAIN host.labels |-> Lower[host.labels[j]]]

router_lookup(table, host) ==
  LET norm  == router_normalize_host(host)
      chain == table.chains[Hash[norm] % table.nbuckets]
      exact == First(chain, {j \in DOMAIN chain : chain[j].host.labels = norm})
      wild  == First(table.wild, {j \in DOMAIN table.wild :
                                    Matches(norm, table.wild[j].host.labels)})
  IN CASE ~host.ok -> NoPool
       [] host.ok /\ exact # NoPool -> exact
       [] host.ok /\ exact = NoPool /\ wild # NoPool -> wild
       [] OTHER -> table.fallback

----------------------------------------------------------------------------
(* What the tables promise.                                                *)

\* The backends for a host, said of the routes of the file as a set: that of its
\* very name, else of the longest suffix of it, else the default.
Answer(routes, host) ==
  LET norm == router_normalize_host(host)
      R == {routes[j] : j \in DOMAIN routes}
      exact   == {r \in R : r.host.form = "exact" /\ r.host.labels = norm}
      wild    == {r \in R : r.host.form = "wild" /\ Matches(norm, r.host.labels)}
      longest == {r \in wild : \A s \in wild : Len(s.host.labels) <= Len(r.host.labels)}
      default == {r \in R : r.host.form = "default"}
      best == CASE ~host.ok -> {}
                [] host.ok /\ exact # {} -> exact
                [] host.ok /\ exact = {} /\ wild # {} -> longest
                [] OTHER -> default
  IN {r.backend : r \in best}
=============================================================================
