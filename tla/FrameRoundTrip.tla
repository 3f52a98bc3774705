---------------------------- MODULE FrameRoundTrip ----------------------------
(***************************************************************************)
(* compress_u32 composed with decompress_u32: the ranges of Chunker become *)
(* the chunk records of one frame, which FrameDecoder reads back.  A chunk *)
(* record decodes to the chunk it was made from; that is what              *)
(* FieldLzRoundTrip and PlannedChunk show of its parts.                    *)
(***************************************************************************)
EXTENDS Chunker, FrameDecoder

CONSTANT Pending   \* no result yet

ASSUME PendingAssumption == Pending \notin Input

VARIABLE writing   \* "ranges", "chunks", then "written"

vars == <<chunkerVars, writing, decoderVars>>

Codec == INSTANCE LosslessCodec WITH
           Source <- Input,
           source <- input,
           result <- IF status = "accepted" THEN output ELSE Pending

NoFrame == [prologue |-> TRUE, numElements |-> 0, chunkCount |-> 0,
            chunks |-> <<>>, extra |-> FALSE]

Init ==
  /\ ChunkerInit
  /\ writing = "ranges"
  /\ frame = NoFrame
  /\ Fresh

ChooseRange ==
  /\ writing = "ranges"
  /\ ChunkerStep
  /\ UNCHANGED <<writing, decoderVars>>

WriteHeader ==
  /\ writing = "ranges"
  /\ start = Len(input)
  /\ frame' = [NoFrame EXCEPT !.numElements = Len(input), !.chunkCount = Len(ranges)]
  /\ writing' = "chunks"
  /\ UNCHANGED <<chunkerVars, status, chunksRead, output>>

\* Faulty variant: a position of the end is taken for a length.
ChunkAtShort(r) == SubSeq(input, r.first + 1, r.past - 1)

\* input[start..end]
ChunkAt(r) == SubSeq(input, r.first + 1, r.past)

WriteChunk ==
  /\ writing = "chunks"
  /\ Len(frame.chunks) < Len(ranges)
  /\ frame' = [frame EXCEPT !.chunks = Append(@, ChunkAt(ranges[Len(@) + 1]))]
  /\ UNCHANGED <<chunkerVars, writing, status, chunksRead, output>>

CloseFrame ==
  /\ writing = "chunks"
  /\ Len(frame.chunks) = Len(ranges)
  /\ writing' = "written"
  /\ UNCHANGED <<chunkerVars, decoderVars>>

Read ==
  /\ writing = "written"
  /\ DecoderStep
  /\ UNCHANGED <<chunkerVars, writing>>

BothReturned == Returned /\ UNCHANGED vars

Next ==
  \/ ChooseRange
  \/ WriteHeader
  \/ WriteChunk
  \/ CloseFrame
  \/ Read
  \/ BothReturned

Spec == Init /\ [][Next]_vars /\ WF_vars(Next)

-----------------------------------------------------------------------------
\* Properties

\* Compressing and decompressing is a lossless codec that always returns,
\* for the empty input too: ranges, counts and totals fit together.
ImplementsLosslessCodec == Codec!FairSpec

=============================================================================
