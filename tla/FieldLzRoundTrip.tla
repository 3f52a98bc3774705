-------------------------- MODULE FieldLzRoundTrip --------------------------
(***************************************************************************)
(* The encoder and the decoder of src/field_lz.rs put together: a chunk is *)
(* parsed into side streams, and the streams are decoded with the chunk    *)
(* length the frame records, as compress_u32 and decompress_u32 do through *)
(* the graph of src/frame.rs.  The transforms between them (zstd, byte     *)
(* split, dictionary) hand the same bytes back and are left out here.      *)
(***************************************************************************)
EXTENDS FieldLzEncoder

CONSTANT Pending   \* no result yet: see LosslessCodec

ASSUME PendingAssumption == Pending \notin Chunk

VARIABLES streams, aligned, chunkLen, read, repeats, output, offset, left,
          decoding

Dec == INSTANCE FieldLzDecoder

decoderVars ==
  <<streams, aligned, chunkLen, read, repeats, output, offset, left, decoding>>
roundTripVars == <<encoderVars, decoderVars>>

-----------------------------------------------------------------------------

\* The decoder has not been called yet.
RoundTripInit ==
  /\ Init
  /\ streams = NoStreams
  /\ aligned = TRUE
  /\ chunkLen = 0
  /\ read = Dec!NothingRead
  /\ repeats = InitialRepeats
  /\ output = <<>>
  /\ offset = 0
  /\ left = 0
  /\ decoding = "idle"

Encode == EncoderStep /\ UNCHANGED decoderVars

\* Faulty variant: the length recorded is that of the literal stream.
HandoffLiteralCount ==
  /\ encoding = "done"
  /\ decoding = "idle"
  /\ streams' = out
  /\ chunkLen' = Len(out.literals)
  /\ decoding' = "check"
  /\ UNCHANGED encoderVars
  /\ UNCHANGED <<aligned, read, repeats, output, offset, left>>

\* The FieldLZ transform record carries the streams and the chunk length.
Handoff ==
  /\ encoding = "done"
  /\ decoding = "idle"
  /\ streams' = out
  /\ chunkLen' = N
  /\ decoding' = "check"
  /\ UNCHANGED encoderVars
  /\ UNCHANGED <<aligned, read, repeats, output, offset, left>>

Decode == Dec!DecoderStep /\ UNCHANGED encoderVars

\* Both functions have returned.
BothReturned == Dec!DecoderReturned /\ UNCHANGED encoderVars

RoundTripNext == Encode \/ Handoff \/ Decode \/ BothReturned

RoundTripSpec == RoundTripInit /\ [][RoundTripNext]_roundTripVars

\* Both functions are called and run to their end.
FairRoundTripSpec == RoundTripSpec /\ WF_roundTripVars(RoundTripNext)

-----------------------------------------------------------------------------
\* Properties

\* The decoder never refuses what the encoder wrote: none of its limit,
\* underflow, offset, overrun or leftover checks can fire on a valid frame.
DecoderNeverRejects == decoding # "error"

\* At every moment of decoding, in the middle of an overlapping copy too,
\* the output is the beginning of the chunk that was encoded.
OutputIsPrefix ==
  /\ Len(output) <= N
  /\ \A p \in 1..Len(output) : output[p] = input[p]

\* Encoder and decoder implement a lossless codec: whatever is handed back
\* is the chunk that went in, and it is handed back.
Codec == INSTANCE LosslessCodec WITH
           Source <- Chunk,
           source <- input,
           result <- IF decoding = "done" THEN output ELSE Pending

ImplementsLosslessCodec == Codec!FairSpec

=============================================================================
