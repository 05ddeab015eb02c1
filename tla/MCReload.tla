------------------------------ MODULE MCReload ------------------------------
(***************************************************************************)
(* Reload with a dozen files, valid and not, for TLC.                      *)
(***************************************************************************)
EXTENDS Reload

Labels == {"a", "b", "t", "A", ""}
Names3 == UNION {[1..m -> Labels] : m \in 1..3}

LowerTLC == [l \in Labels |-> IF l = "A" THEN "a" ELSE l]

\* Hosts that begin with the same label share a bucket of eight.
HashTLC == [s \in Names3 |-> IF s[1] \in {"a", "A"} THEN 3 + 8 * Len(s) ELSE Len(s)]

HostsTLC ==
  {[labels |-> s, ok |-> TRUE] : s \in
     [1..1 -> Labels] \cup [1..2 -> Labels] \cup [1..3 -> {"a", "b", "t"}]
       \cup {<<"", "b", "t">>, <<"A", "b", "t">>}}
    \cup {[labels |-> <<"a", "t">>, ok |-> FALSE]}

Exact(labels) == [form |-> "exact", labels |-> labels, labels_ok |-> TRUE]
Wildcard(labels) == [form |-> "wild", labels |-> labels, labels_ok |-> TRUE]
Default == [form |-> "default", labels |-> <<>>, labels_ok |-> TRUE]
To(host, backend) == [host |-> host, backend |-> backend]

Many ==
  << To(Wildcard(<<"t">>), "b1"), To(Exact(<<"a", "b", "t">>), "b2"),
     To(Wildcard(<<"b", "t">>), "b2"), To(Exact(<<"a", "t">>), "b1"), To(Default, "b1"),
     To(Exact(<<"b", "t">>), "b1") >>
Few == <<To(Exact(<<"b">>), "b2"), To(Wildcard(<<"a", "t">>), "b1"), To(Wildcard(<<"t">>), "b2")>>

Addr(host, port) == [host |-> host, port |-> port, text |-> <<host, port>>]

Listen(port, routes) == [listen |-> Addr("h", port), routes |-> routes]

Health(interval, timeout) ==
  [type_ok |-> TRUE, interval |-> interval, timeout |-> timeout, rise |-> 1, fall |-> 2]

Weighing(name, weight) ==
  [name |-> name, balance_ok |-> TRUE, health |-> Health(4, 2),
   servers |-> <<[addr |-> Addr("s", 1), weight |-> weight]>>]
Back(name) == Weighing(name, 2)

Globals(w, c) == [workers |-> w, max_conns |-> c, log_level_ok |-> TRUE]

Toml(fronts, backs) == [global |-> Globals(0, 6), backends |-> backs, frontends |-> fronts]

Usual == Toml(<<Listen(1, Many), Listen(2, Few)>>, <<Back("b1"), Back("b2")>>)

FilesTLC ==
  { Usual,
    Toml(<<Listen(1, Reverse(Few)), Listen(2, Reverse(Many))>>, <<Back("b2"), Back("b1")>>),
    Toml(<<Listen(2, Many), Listen(1, Few)>>, <<Back("b1"), Back("b2")>>),
    Toml(<<Listen(1, Many)>>, <<Back("b1"), Back("b2"), Back("b3")>>),
    [Usual EXCEPT !.global = Globals(20, 16)],
    [Usual EXCEPT !.global = Globals(3, 8)],
    [Usual EXCEPT !.global = Globals(-1, 6)],
    [Usual EXCEPT !.backends[2].name = "b1"],
    [Usual EXCEPT !.backends[2].health = Health(17, 2)],
    [Usual EXCEPT !.backends[1].health = Health(2, 2)],
    [Usual EXCEPT !.backends[1].servers = <<>>],
    [Usual EXCEPT !.frontends[2].routes[3].backend = "b3"],
    [Usual EXCEPT !.frontends[2].routes[3].host = Exact(<<"b">>)],
    [Usual EXCEPT !.frontends[2].listen = Addr("h", 1)],
    [Usual EXCEPT !.frontends[2].listen = Addr("h", 9)],
    [Usual EXCEPT !.frontends[2].routes = <<>>],
    Toml(<<>>, <<Back("b1")>>), Toml(<<Listen(1, Many)>>, <<>>) }

HeavyFile == {Toml(<<Listen(1, Few)>>, <<Weighing("b1", 16), Back("b2")>>)}

SpelledTwice ==
  {[Usual EXCEPT !.frontends[2].listen = [host |-> "h", port |-> 1, text |-> <<"h", 101>>]]}

CapitalFile ==
  {Toml(<<Listen(1, <<To(Exact(<<"A", "t">>), "b1"), To(Default, "b2")>>)>>,
        <<Back("b1"), Back("b2")>>)}
=============================================================================
