----------------------------- MODULE MCChunked -----------------------------
(***************************************************************************)
(* Chunked with bodies of up to two chunks, for TLC: data that looks like  *)
(* size lines, digits in extensions, sizes at the limit and one past it.    *)
(***************************************************************************)
EXTENDS ChunkedBody

\* Data of n bytes that looks like anything else in the body.
Filler(n) == [k \in 1..n |-> CASE k % 4 = 1 -> 0 [] k % 4 = 2 -> CR [] k % 4 = 3 -> LF
                                  [] OTHER -> Semicolon]

MCChunk(size, ext) == [size |-> size, ext |-> ext, data |-> Filler(Number(size))]

Chunks ==
  {MCChunk(<<1>>, <<>>), MCChunk(<<2>>, <<1, 5>>), MCChunk(<<0, 0, 0, 3>>, <<>>),
   MCChunk(<<1, 4>>, <<>>), MCChunk(<<1>>, <<Semicolon, 0>>)}

BadChunks ==
  {[size |-> <<1, 5>>, ext |-> <<>>, data |-> Filler(5)],
   [size |-> <<2, 0>>, ext |-> <<>>, data |-> Filler(2)],
   [size |-> <<0, 0, 0, 0, 1>>, ext |-> <<>>, data |-> Filler(1)],
   [size |-> <<1>>, ext |-> <<0, 0, 0>>, data |-> Filler(1)],
   [size |-> <<1, Other>>, ext |-> <<>>, data |-> Filler(1)]}

LastLines == {[size |-> <<0>>, ext |-> <<>>], [size |-> <<0, 0>>, ext |-> <<1>>]}

Trailers == {<<>>, <<<<Other>>, <<1, Semicolon>>>>}

Compose(chunks, last, trailer, after) ==
  [chunks |-> chunks, last |-> last, trailer |-> trailer, after |-> after]

BodiesTLC ==
  {Compose(<<>>, l, t, <<0>>) : l \in LastLines, t \in Trailers}
    \cup {Compose(<<c>>, l, t, <<>>) : c \in Chunks, l \in LastLines, t \in Trailers}
    \cup {Compose(<<c, d>>, [size |-> <<0>>, ext |-> <<>>], <<>>, <<LF, Other>>) :
            c \in Chunks, d \in Chunks \cup BadChunks}
    \cup {Compose(<<d>>, [size |-> <<0>>, ext |-> <<>>], <<>>, <<>>) : d \in BadChunks}

WiresTLC == {Stream(b) : b \in BodiesTLC}
=============================================================================
