---------------------------- MODULE ChunkedBody ----------------------------
(***************************************************************************)
(* What the scanner of Chunked promises: bodies as their sender composed   *)
(* them, chunk by chunk, and where each ends or stops being well formed.    *)
(***************************************************************************)
EXTENDS Chunked

CONSTANT Bodies  \* [chunks, last, trailer, after]

\* A line holds no byte that ends it, and a size nothing that ends a size.
LineBytes == Bytes \ {CR, LF}
LastLine  == [size : Seq(LineBytes \ {Semicolon}), ext : Seq(LineBytes)]
Chunk     == [size : Seq(LineBytes \ {Semicolon}), ext : Seq(LineBytes), data : Seq(Bytes)]

ASSUME ChunkedBodyAssumption ==
  Bodies \subseteq [chunks : Seq(Chunk), last : LastLine,
                   trailer : Seq(Seq(LineBytes) \ {<<>>}), after : Seq(Bytes)]

\* The first k of some sequences, one behind the other.
Joined(parts, k) ==
  LET joined[n \in 0..Len(parts)] == IF n = 0 THEN <<>> ELSE joined[n - 1] \o parts[n]
  IN joined[k]

Terminated(s) == s \o <<CR, LF>>

SizeLine(c) == c.size \o (IF c.ext = <<>> THEN <<>> ELSE <<Semicolon>> \o c.ext)

ChunkBytes(c) == Terminated(SizeLine(c)) \o Terminated(c.data)

Sent(b)     == [k \in DOMAIN b.chunks |-> ChunkBytes(b.chunks[k])]
Trailing(b) == [k \in DOMAIN b.trailer |-> Terminated(b.trailer[k])]

Encoding(b) ==
  Joined(Sent(b), Len(b.chunks)) \o Terminated(SizeLine(b.last))
    \o Joined(Trailing(b), Len(b.trailer)) \o <<CR, LF>>

Stream(b) == Encoding(b) \o b.after

\* What the first k digits of a size amount to, in base 16.
Value(size, k) ==
  LET value[n \in 0..Len(size)] == IF n = 0 THEN 0 ELSE value[n - 1] * 16 + size[n]
  IN value[k]

\* The number that a size line declares.
Number(size) == Value(size, Len(size))

LineAccepted(c) ==
  /\ Len(SizeLine(c)) <= CH_MAX_LINE
  /\ \A k \in DOMAIN c.size : c.size[k] \in Digits
  /\ Number(c.size) <= UMax

ChunkAccepted(c) ==
  LineAccepted(c) /\ Number(c.size) = Len(c.data) /\ c.data # <<>>

WellFormed(b) ==
  /\ LineAccepted(b.last) /\ Number(b.last.size) = 0
  /\ \A k \in DOMAIN b.chunks : ChunkAccepted(b.chunks[k])

\* Of a body whose first bad size line is that of chunk k: where the line ends.
BadLineEnds(b, k) == Len(Joined(Sent(b), k - 1)) + Len(SizeLine(b.chunks[k]))

FirstBad(b, k) ==
  /\ ~LineAccepted(b.chunks[k])
  /\ \A m \in 1..(k - 1) : ChunkAccepted(b.chunks[m])

GoodBodies == {b \in Bodies : WellFormed(b)}
BadBodies  == UNION {{<<b, k>> : k \in {m \in DOMAIN b.chunks : FirstBad(b, m)}} : b \in Bodies}

\* Each stream with the place where its body ends, or where it is refused.
GoodStreams == {<<Stream(b), Len(Encoding(b))>> : b \in GoodBodies}
BadStreams  == {<<Stream(p[1]), BadLineEnds(p[1], p[2])>> : p \in BadBodies}

----------------------------------------------------------------------------
(* Properties.                                                             *)

\* However it is cut, a well-formed body is found complete at its last byte
\* and not before or after, and never refused: not for what its data, its
\* extensions or its trailer look like, nor for what follows it.
EndFound ==
  \A p \in GoodStreams : wire = p[1] => ~ch.error /\ (ch.done <=> i = p[2])

\* However it is cut, a body with a size line that is not a number, is too
\* long or does not fit is refused before anything after that line is taken.
BadRefused ==
  \A p \in BadStreams : wire = p[1] =>
    /\ ~ch.done /\ i <= p[2]
    /\ i = p[2] => ch.error

\* The scanner finds what the grammar says, byte for byte.
Agrees == EndFound /\ BadRefused
=============================================================================
