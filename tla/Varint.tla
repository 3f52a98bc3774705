-------------------------------- MODULE Varint --------------------------------
(***************************************************************************)
(* src/varint.rs: the writer of unsigned LEB128 numbers, and the reader    *)
(* that takes them from bytes nobody vouches for.  A call either reads a   *)
(* private header, one number and nothing else (read_single_usize), or a   *)
(* payload, a number and then as many bytes (read_usize, read_exact).      *)
(*                                                                         *)
(* A byte is payload plus Radix when another byte follows.  usize is as    *)
(* wide as u64, so that read_usize accepts every number.                   *)
(***************************************************************************)
EXTENDS Integers, Sequences

CONSTANTS
  Radix,      \* 2^7
  MaxBytes,   \* U64_VARINT_MAX_BYTES
  LastMax,    \* largest payload of the last byte
  Word,       \* 2^64
  Bytes       \* the byte sequences a reader may be given

\* Radix to the k-th, what shifting left by k payloads multiplies with.
Weight[k \in Nat] == IF k = 0 THEN 1 ELSE Radix * Weight[k - 1]

ASSUME VarintAssumption ==
  /\ Radix \in Nat \ {0, 1}
  /\ MaxBytes \in Nat \ {0}
  /\ LastMax \in 0..(Radix - 1)
  /\ Word = (LastMax + 1) * Weight[MaxBytes - 1]
  /\ Bytes \subseteq Seq(0..(2 * Radix - 1))
  /\ \A s \in Bytes : Len(s) < Word

VARIABLES
  bytes,      \* input of the reader
  purpose,    \* "single" or "payload": what the number is read for
  pos,        \* pos
  index,      \* byte_index
  value,      \* value
  reading     \* "number", "rest", then "done", "error" or "panic"

readerVars == <<bytes, purpose, pos, index, value, reading>>

ReaderInit ==
  /\ bytes \in Bytes
  /\ purpose \in {"single", "payload"}
  /\ pos = 0
  /\ index = 0
  /\ value = 0
  /\ reading = "number"

\* write_u64
Written[v \in Nat] ==
  IF v < Radix THEN <<v>> ELSE <<(v % Radix) + Radix>> \o Written[v \div Radix]

-----------------------------------------------------------------------------
\* read_u64

Byte == bytes[pos + 1]
Payload == Byte % Radix
Continues == Byte >= Radix

\* value | payload << shift; the shifted payload overlaps nothing, and bits
\* past the word are lost.
Extended == (value + Payload * Weight[index]) % Word

\* Faulty variant: the last byte may hold any payload.
OverflowsUnchecked == FALSE

Overflows == index = MaxBytes - 1 /\ Payload > LastMax

\* Faulty variant: a number padded with zero bytes is let through.
CanonicalUnchecked == TRUE

\* The last byte was needed.
Canonical == index = 0 \/ Extended >= Weight[index]

\* No byte left, too large a number, or one byte too many.
RejectByte ==
  /\ reading = "number"
  /\ \/ pos >= Len(bytes)
     \/ pos < Len(bytes) /\ Overflows
     \/ pos < Len(bytes) /\ Continues /\ index = MaxBytes - 1
     \/ pos < Len(bytes) /\ ~ Continues /\ ~ Canonical
  /\ reading' = "error"
  /\ pos' = IF pos < Len(bytes) THEN pos + 1 ELSE pos
  /\ UNCHANGED <<bytes, purpose, index, value>>

AcceptsByte == reading = "number" /\ pos < Len(bytes) /\ ~ Overflows

ReadContinued ==
  /\ AcceptsByte
  /\ Continues
  /\ index + 1 < MaxBytes
  /\ value' = Extended
  /\ index' = index + 1
  /\ pos' = pos + 1
  /\ UNCHANGED <<bytes, purpose, reading>>

ReadLast ==
  /\ AcceptsByte
  /\ ~ Continues
  /\ Canonical
  /\ value' = Extended
  /\ pos' = pos + 1
  /\ reading' = "rest"
  /\ UNCHANGED <<bytes, purpose, index>>

-----------------------------------------------------------------------------
\* After the number

\* read_single_usize: the private header ends here.
EndSingle ==
  /\ reading = "rest"
  /\ purpose = "single"
  /\ reading' = IF pos = Len(bytes) THEN "done" ELSE "error"
  /\ UNCHANGED <<bytes, purpose, pos, index, value>>

\* Faulty variant: the end of the payload is not looked for in the input.
SliceUnbounded(end) == end >= pos

\* get(pos..end)
Slice(end) == pos <= end /\ end <= Len(bytes)

TakePayload(end) ==
  /\ reading' = IF Slice(end) THEN "done" ELSE "error"
  /\ pos' = IF Slice(end) THEN end ELSE pos

\* read_exact.  A build with overflow checks panics when the end does not
\* fit a word; any other wraps around.
ReadPayload ==
  /\ reading = "rest"
  /\ purpose = "payload"
  /\ IF pos + value < Word
     THEN TakePayload(pos + value)
     ELSE \/ reading' = "panic" /\ UNCHANGED pos
          \/ TakePayload((pos + value) % Word)
  /\ UNCHANGED <<bytes, purpose, index, value>>

ReaderReturned == reading \in {"done", "error", "panic"} /\ UNCHANGED readerVars

ReaderNext ==
  \/ RejectByte
  \/ ReadContinued
  \/ ReadLast
  \/ EndSingle
  \/ ReadPayload
  \/ ReaderReturned

ReaderSpec == ReaderInit /\ [][ReaderNext]_readerVars

-----------------------------------------------------------------------------
\* Properties

Fits(s) == \E v \in 0..(Word - 1) : s = Written[v]

\* Numbers have one spelling.  A private header is accepted just when it is
\* what the writer makes of some number, and then that number is read: no
\* padding, no bit lost in the last byte, no byte behind.
AcceptsOnlyWritten ==
  purpose = "single" =>
    /\ reading = "done" => value < Word /\ bytes = Written[value]
    /\ reading = "error" => ~ Fits(bytes)

\* Whatever the length says, the reader moves forward inside its input, and
\* a payload it hands out has that length, even in a build where the end
\* wraps around.
ReaderAdvances ==
  [][/\ pos <= pos' /\ pos' <= Len(bytes)
     /\ (purpose = "payload" /\ reading' = "done" /\ reading # "done")
          => pos' = pos + value]_readerVars

\* The plan for the format: "all byte-size arithmetic must be checked for
\* overflow" (plan.md:388).
NoOverflowPanic == reading # "panic"

=============================================================================
