----------------------------- MODULE MCHttpHead -----------------------------
(***************************************************************************)
(* HttpHead with heads of a few lines in every order, for TLC.             *)
(***************************************************************************)
EXTENDS HttpHead

L(name, value) == [name |-> name, value |-> value, size |-> 1]

Get == [words |-> TRUE, minor |-> 1, is_head |-> FALSE]

AHost == L("host", <<"a">>)

\* Lines that decide something.
Lines ==
  {AHost, L("connection", <<"close">>), L("connection", <<"keep-alive">>),
   L("x-forwarded-for", <<"x">>), L("content-length", <<"1">>), L("content-length", <<"2">>),
   L("content-length", <<"bad">>), L("transfer-encoding", <<"chunked">>),
   L("transfer-encoding", <<"gzip">>), L("proxy-connection", <<"close">>)}

OddLines ==
  {L("host", <<>>), L("host", <<"long">>), L("host", <<"b">>), L("", <<>>),
   L("x-forwarded-for", <<>>), L("connection", <<"upgrade">>), L("x-real-ip", <<"x">>),
   [name |-> "other", value |-> <<>>, size |-> 4], [name |-> "other", value |-> <<>>, size |-> 2]}

Firsts ==
  {[words |-> w, minor |-> v, is_head |-> h] : w \in BOOLEAN, v \in {0, 1, 2}, h \in BOOLEAN}

RequestsTLC ==
  {[first |-> Get, lines |-> <<a, b, c>>] : a \in Lines, b \in Lines, c \in Lines}
    \cup {[first |-> Get, lines |-> s] : s \in
            {<<a, b>> : a \in {AHost}, b \in Lines \cup OddLines}
              \cup {<<a, b>> : a \in OddLines, b \in {AHost}}
              \cup {<<>>}
              \cup {<<AHost, a, b>> : a \in OddLines, b \in OddLines}}
    \cup {[first |-> f, lines |-> <<AHost, b>>] : f \in Firsts, b \in Lines}

ResponseFirsts ==
  {[words |-> TRUE, minor |-> 1, code |-> c, to_head |-> h] : c \in {100, 200, 304, 600},
                                                           h \in BOOLEAN}
    \cup {[words |-> w, minor |-> 0, code |-> 200, to_head |-> FALSE] : w \in BOOLEAN}

ResponsesTLC ==
  {[first |-> f, lines |-> <<a, b>>] : f \in ResponseFirsts, a \in Lines, b \in Lines}
    \cup {[first |-> f, lines |-> <<a, b>>] : f \in ResponseFirsts, a \in OddLines, b \in Lines}

NoHeads == {}

LargeResponses ==
  {[first |-> [words |-> TRUE, minor |-> 1, code |-> 200, to_head |-> FALSE],
    lines |-> <<a, b>>] : a \in OddLines, b \in OddLines}

TwiceForwarded ==
  {[first |-> Get, lines |-> <<AHost, L("x-forwarded-for", <<"x">>), L("x-forwarded-for", <<"y">>)>>]}
=============================================================================
