------------------------------ MODULE Chunked ------------------------------
(***************************************************************************)
(* The scanner of chunked bodies (http_parser.c, hp_chunked): it looks for *)
(* the end of a body that arrives in pieces cut anywhere.  One step is one *)
(* turn of the loop of hp_chunked_feed.                                     *)
(***************************************************************************)
EXTENDS Integers, Sequences

CONSTANTS
  UMax,   \* UINT64_MAX
  CH_MAX_LINE,
  Wires   \* the streams that may arrive: sequences of bytes

\* A byte is what the scanner tells apart: a hexadecimal digit is its value.
Digits == 0..15
CR == 16
LF == 17
Semicolon == 18
Other == 19
Bytes == 0..19

ASSUME ChunkedAssumption ==
  /\ UMax \in Nat /\ UMax >= 15
  /\ CH_MAX_LINE \in Nat
  /\ Wires \subseteq Seq(Bytes)

States == {"CH_SIZE", "CH_SIZE_EXT", "CH_DATA", "CH_DATA_CRLF", "CH_TRAILER", "CH_END"}

VARIABLES
  wire,   \* external: what the other end sends
  ch,     \* hp_chunked: state, remaining, line_len, done, error
  i,      \* bytes consumed
  upto    \* bytes handed over so far: the call in progress ends there

chunked_vars == <<wire, ch, i, upto>>

hp_chunked_init ==
  /\ wire \in Wires
  /\ ch = [state |-> "CH_SIZE", remaining |-> 0, line_len |-> 0,
           done |-> FALSE, error |-> FALSE]
  /\ i = 0 /\ upto = 0

Byte == wire[i + 1]
Going == ~ch.done /\ ~ch.error

\* feed_response_body and on_client_event: the next call, with what was read.
Feed ==
  /\ Going /\ i = upto
  /\ \E n \in 1..(Len(wire) - upto) : upto' = upto + n
  /\ UNCHANGED <<wire, ch, i>>

\* One more byte is consumed.
Consume == Going /\ i < upto /\ i' = i + 1 /\ UNCHANGED <<wire, upto>>

InSize == ch.state \in {"CH_SIZE", "CH_SIZE_EXT"}

SizeEnds ==
  /\ Consume /\ InSize /\ Byte = LF
  /\ ch' = [ch EXCEPT !.line_len = 0,
                      !.state = IF ch.remaining = 0 THEN "CH_TRAILER" ELSE "CH_DATA"]

SizeCr == Consume /\ InSize /\ Byte = CR /\ UNCHANGED ch

SizeByte == Consume /\ InSize /\ Byte \notin {LF, CR}
Counted  == [ch EXCEPT !.line_len = @ + 1]

SizeTooLong ==
  /\ SizeByte /\ ch.line_len + 1 > CH_MAX_LINE
  /\ ch' = [Counted EXCEPT !.error = TRUE]

\* Inside the extension there is nothing to accumulate.
Extension ==
  /\ SizeByte /\ ch.line_len + 1 <= CH_MAX_LINE /\ ch.state = "CH_SIZE_EXT"
  /\ ch' = Counted

\* Mutant: the digits of an extension are taken for digits of the size.
ExtensionBeginsNot ==
  /\ SizeByte /\ ch.line_len + 1 <= CH_MAX_LINE /\ ch.state = "CH_SIZE"
  /\ Byte = Semicolon
  /\ ch' = Counted

ExtensionBegins ==
  /\ SizeByte /\ ch.line_len + 1 <= CH_MAX_LINE /\ ch.state = "CH_SIZE"
  /\ Byte = Semicolon
  /\ ch' = [Counted EXCEPT !.state = "CH_SIZE_EXT"]

\* One more digit would take remaining past 64 bits.
Overflows(d) == ch.remaining > (UMax - d) \div 16

SizeBad ==
  /\ SizeByte /\ ch.line_len + 1 <= CH_MAX_LINE /\ ch.state = "CH_SIZE"
  /\ \/ Byte = Other
     \/ Byte \in Digits /\ Overflows(Byte)
  /\ ch' = [Counted EXCEPT !.error = TRUE]

SizeDigit ==
  /\ SizeByte /\ ch.line_len + 1 <= CH_MAX_LINE /\ ch.state = "CH_SIZE"
  /\ Byte \in Digits /\ ~Overflows(Byte)
  /\ ch' = [Counted EXCEPT !.remaining = @ * 16 + Byte]

\* Mutant: the data is taken to arrive in one piece.
DataOnce ==
  /\ Going /\ ch.state = "CH_DATA" /\ i < upto
  /\ LET avail == upto - i
         take  == IF avail < ch.remaining THEN avail ELSE ch.remaining
     IN /\ i' = i + take
        /\ ch' = [ch EXCEPT !.remaining = @ - take, !.state = "CH_DATA_CRLF"]
  /\ UNCHANGED <<wire, upto>>

\* The data of a chunk, or as much of it as there is in this piece.
Data ==
  /\ Going /\ ch.state = "CH_DATA" /\ i < upto
  /\ LET avail == upto - i
         take  == IF avail < ch.remaining THEN avail ELSE ch.remaining
     IN /\ i' = i + take
        /\ ch' = [ch EXCEPT !.remaining = @ - take,
                            !.state = IF take = ch.remaining THEN "CH_DATA_CRLF" ELSE @]
  /\ UNCHANGED <<wire, upto>>

DataCrlf ==
  /\ Consume /\ ch.state = "CH_DATA_CRLF"
  /\ ch' = IF Byte = LF THEN [ch EXCEPT !.state = "CH_SIZE", !.line_len = 0] ELSE ch

\* Mutant: CR counts as a byte of the line.
TrailerCr ==
  /\ Consume /\ ch.state = "CH_TRAILER"
  /\ ch' = IF Byte # LF THEN [ch EXCEPT !.line_len = @ + 1]
           ELSE IF ch.line_len = 0 THEN [ch EXCEPT !.state = "CH_END", !.done = TRUE]
           ELSE [ch EXCEPT !.line_len = 0]

\* Lines of the trailer, up to an empty one.
Trailer ==
  /\ Consume /\ ch.state = "CH_TRAILER"
  /\ ch' = CASE Byte = CR -> ch
             [] Byte = LF /\ ch.line_len = 0 -> [ch EXCEPT !.state = "CH_END", !.done = TRUE]
             [] Byte = LF /\ ch.line_len > 0 -> [ch EXCEPT !.line_len = 0]
             [] OTHER -> [ch EXCEPT !.line_len = @ + 1]

Scan ==
  \/ SizeEnds \/ SizeCr \/ SizeTooLong \/ Extension \/ ExtensionBegins \/ SizeBad
  \/ SizeDigit \/ Data \/ DataCrlf \/ Trailer

hp_chunked_feed == Feed \/ Scan

ChunkedSpec == hp_chunked_init /\ [][hp_chunked_feed]_chunked_vars

----------------------------------------------------------------------------
(* Properties.                                                             *)

\* Every variable has the values its type allows; remaining never wraps.
TypeOK ==
  /\ wire \in Wires
  /\ ch \in [state : States, remaining : 0..UMax, line_len : Nat,
             done : BOOLEAN, error : BOOLEAN]
  /\ upto \in 0..Len(wire) /\ i \in 0..upto

\* A size line longer than CH_MAX_LINE is never read on, and what it declared
\* is used up to the last byte before another one is read: remaining starts a
\* size line at 0 although nothing resets it.
LineBounded ==
  /\ InSize => ch.line_len <= CH_MAX_LINE + 1
  /\ InSize /\ ch.line_len > CH_MAX_LINE => ch.error
  /\ ch.state = "CH_SIZE" /\ ch.line_len = 0 => ch.remaining = 0
  /\ ch.state \in {"CH_DATA_CRLF", "CH_TRAILER", "CH_END"} => ch.remaining = 0
=============================================================================
