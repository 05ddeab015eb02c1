------------------------------- MODULE Config -------------------------------
(***************************************************************************)
(* The loading of the configuration (config.c): a file, as the TOML        *)
(* library (external) gives it, is validated part by part and becomes a    *)
(* config, or is rejected whole.  One step is one section, or one turn of  *)
(* the loop over the backends, the frontends or the routes of one.          *)
(***************************************************************************)
EXTENDS Integers, Sequences

CONSTANTS
  Files,     \* contents that the file may have; absent keys have their default
  INT_BITS,  \* width of int: the library's integers are wider
  MaxPort

\* What the library makes of a file: its integers are of any size here.
Address  == [host : STRING, port : Int, text : STRING \X Int]
Probing  == [type_ok : BOOLEAN, interval : Int, timeout : Int, rise : Int, fall : Int]
Global   == [workers : Int, max_conns : Int, log_level_ok : BOOLEAN]
Pool     == [name : STRING, balance_ok : BOOLEAN, health : Probing,
             servers : Seq([addr : Address, weight : Int])]
Host     == [form : {"exact", "wild"}, labels : Seq(STRING), labels_ok : BOOLEAN]
              \cup [form : {"default"}, labels : {<<>>}, labels_ok : {TRUE}]
Frontend == [listen : Address, routes : Seq([host : Host, backend : STRING])]
File     == [global : Global, backends : Seq(Pool), frontends : Seq(Frontend)]

ASSUME ConfigAssumption ==
  /\ INT_BITS \in Nat \ {0} /\ MaxPort \in Nat
  /\ Files # {} /\ \A f \in Files : f \in File

\* The conversion of an int64_t to int.
Half == 2 ^ (INT_BITS - 1)
\* (Of the powers the provers know nothing.)
ASSUME HalfPositive == Half > 0
ToInt(v) == ((v + Half) % (2 * Half)) - Half

VARIABLES
  loading,  \* the file that config_load is reading
  pc,       \* the part it is at, "idle", or how it ended
  n,        \* the index of that loop
  cfg       \* the config under construction

parse == <<loading, pc, n, cfg>>

EmptyConfig == [workers |-> 0, max_conns |-> 0, backends |-> <<>>, frontends |-> <<>>]

ParseInit == pc = "idle" /\ loading \in Files /\ n = 1 /\ cfg = EmptyConfig

config_load(f) ==
  /\ loading' = f /\ pc' = "global" /\ n' = 1 /\ cfg' = EmptyConfig

Reject == pc' = "rejected" /\ UNCHANGED <<n, cfg>>

parse_global ==
  /\ pc = "global" /\ UNCHANGED loading
  /\ LET g == loading.global
     IN IF g.workers >= 0 /\ g.max_conns >= 1 /\ g.log_level_ok
        THEN /\ cfg' = [cfg EXCEPT !.workers = ToInt(g.workers),
                                   !.max_conns = ToInt(g.max_conns)]
             /\ pc' = "backends" /\ n' = 1
        ELSE Reject

split_addr(a) == a.host # "" /\ a.port \in 1..MaxPort

ServerOk(s) == split_addr(s.addr) /\ s.weight >= 1

\* Mutant: interval and timeout are compared before they are narrowed.
HealthWide(h) ==
  /\ h.type_ok /\ \A v \in {h.interval, h.timeout, h.rise, h.fall} : v > 0
  /\ h.timeout < h.interval

HealthOk(h) ==
  /\ h.type_ok /\ \A v \in {h.interval, h.timeout, h.rise, h.fall} : ToInt(v) > 0
  /\ ToInt(h.timeout) < ToInt(h.interval)

Names(seq) == {seq[j].name : j \in DOMAIN seq}

BackendOk(b) ==
  /\ b.name # "" /\ b.name \notin Names(cfg.backends)
  /\ b.balance_ok /\ b.servers # <<>>
  /\ \A j \in DOMAIN b.servers : ServerOk(b.servers[j])
  /\ HealthOk(b.health)

Backend(b) ==
  [name |-> b.name,
   servers |-> [j \in DOMAIN b.servers |->
                  [addr |-> b.servers[j].addr, weight |-> ToInt(b.servers[j].weight)]],
   health |-> [interval |-> ToInt(b.health.interval), timeout |-> ToInt(b.health.timeout),
               rise |-> ToInt(b.health.rise), fall |-> ToInt(b.health.fall)]]

parse_backends ==
  /\ pc = "backends" /\ UNCHANGED loading
  /\ IF n <= Len(loading.backends)
     THEN LET b == loading.backends[n]
          IN IF BackendOk(b)
             THEN cfg' = [cfg EXCEPT !.backends = Append(@, Backend(b))] /\ n' = n + 1 /\ pc' = pc
             ELSE Reject
     ELSE IF loading.backends = <<>> THEN Reject
     ELSE pc' = "frontends" /\ n' = 1 /\ UNCHANGED cfg

\* A frontend, before its routes.  Only the text of listen is compared.
FrontendOk(f) ==
  /\ split_addr(f.listen)
  /\ \A j \in DOMAIN cfg.frontends : cfg.frontends[j].listen.text # f.listen.text

\* Mutant: a frontend that is not valid ends the list.
FrontendsUpTo ==
  /\ pc = "frontends" /\ UNCHANGED loading
  /\ LET done == Len(cfg.frontends)
     IN IF done < Len(loading.frontends)
        THEN LET f == loading.frontends[done + 1]
             IN IF FrontendOk(f) /\ f.routes # <<>>
                THEN /\ cfg' = [cfg EXCEPT !.frontends =
                                  Append(@, [listen |-> f.listen, routes |-> <<>>])]
                     /\ pc' = "routes" /\ n' = 1
                ELSE pc' = "loaded" /\ UNCHANGED <<n, cfg>>
        ELSE IF done = 0 THEN Reject
        ELSE pc' = "loaded" /\ UNCHANGED <<n, cfg>>

parse_frontends ==
  /\ pc = "frontends" /\ UNCHANGED loading
  /\ LET done == Len(cfg.frontends)
     IN IF done < Len(loading.frontends)
        THEN LET f == loading.frontends[done + 1]
             IN IF FrontendOk(f) /\ f.routes # <<>>
                THEN /\ cfg' = [cfg EXCEPT !.frontends =
                                  Append(@, [listen |-> f.listen, routes |-> <<>>])]
                     /\ pc' = "routes" /\ n' = 1
                ELSE Reject
        ELSE IF done = 0 THEN Reject
        ELSE pc' = "loaded" /\ UNCHANGED <<n, cfg>>

\* valid_wildcard, or valid_hostname; "default" needs no check.
HostOk(h) == h.form = "default" \/ (h.labels_ok /\ h.labels # <<>>)

config_find_backend(name) == {j \in DOMAIN cfg.backends : cfg.backends[j].name = name}

parse_routes ==
  /\ pc = "routes" /\ UNCHANGED loading
  /\ LET last == Len(cfg.frontends)
         raw  == loading.frontends[last].routes
         seen == cfg.frontends[last].routes
     IN IF n <= Len(raw)
        THEN LET found == config_find_backend(raw[n].backend)
             IN IF /\ HostOk(raw[n].host) /\ found # {}
                   /\ \A j \in DOMAIN seen : seen[j].host # raw[n].host
                THEN /\ \E j \in found :
                          /\ \A m \in found : j <= m
                          /\ cfg' = [cfg EXCEPT !.frontends[last].routes =
                                       Append(@, [host |-> raw[n].host, backend_index |-> j])]
                     /\ n' = n + 1 /\ pc' = pc
                ELSE Reject
        ELSE pc' = "frontends" /\ n' = 1 /\ UNCHANGED cfg

Parse == parse_global \/ parse_backends \/ parse_frontends \/ parse_routes
=============================================================================
