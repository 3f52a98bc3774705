---------------------------- MODULE FieldLzFormat ----------------------------
(***************************************************************************)
(* The FieldLZ side-stream format shared by the encoder and the decoder of *)
(* src/field_lz.rs: the five streams, the 16-bit token and the limits a    *)
(* chunk obeys.                                                            *)
(*                                                                         *)
(* Abstractions.  A stream is a sequence of entries, not of bytes: the     *)
(* little-endian split of an entry into bytes is left out, and the one     *)
(* check that sees it (a byte length that is no multiple of the entry      *)
(* width) is the decoder's variable `aligned`.  A token is a record of its *)
(* bit fields.  Positions are 0-based as in the code, so that position p   *)
(* of a slice is entry p + 1 of a sequence.                                *)
(***************************************************************************)
EXTENDS Integers, Sequences, FiniteSets

CONSTANTS
  Value,      \* the u32 values a chunk may hold
  MaxChunk,   \* MAX_CHUNK_ELEMENTS_U32: most elements of one chunk
  CodeMax     \* greatest value of a 4-bit length code (15), the escape code

ASSUME FormatAssumption ==
  /\ MaxChunk \in Nat \ {0}
  /\ CodeMax \in Nat \ {0}

\* MAX_OFFSET_ELEMENTS: the farthest back a match may refer.
MaxOffset == MaxChunk - 1

\* A chunk handed to the encoder: frame.rs never cuts an empty one.
Chunk == UNION {[1..n -> Value] : n \in 1..MaxChunk}

\* The 16-bit token: bits 0-1, 2-5, 6-9, and whether a bit of 0xfc00 is set.
Token == [offsetCode  : 0..3,
          literalCode : 0..CodeMax,
          matchCode   : 0..CodeMax,
          reserved    : BOOLEAN]

\* The five side streams, in the order FieldLZ takes its inputs.
Streams == [literals            : Seq(Value),
            tokens              : Seq(Token),
            offsets             : Seq(Nat),
            extraLiteralLengths : Seq(Nat),
            extraMatchLengths   : Seq(Nat)]

\* FieldLzSideStreams::default()
NoStreams == [literals            |-> <<>>,
              tokens              |-> <<>>,
              offsets             |-> <<>>,
              extraLiteralLengths |-> <<>>,
              extraMatchLengths   |-> <<>>]

\* The repeat offsets every chunk starts from.
InitialRepeats == <<1, 2, 4>>

=============================================================================
