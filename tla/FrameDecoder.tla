----------------------------- MODULE FrameDecoder -----------------------------
(***************************************************************************)
(* decompress_u32 of src/frame.rs on any frame: the prologue, the two      *)
(* counts, one chunk after the other with the running total checked, and   *)
(* the checks at the end of the input.                                     *)
(*                                                                         *)
(* The running total is the length of the output.                          *)
(***************************************************************************)
EXTENDS FrameFormat, SequencesExt

VARIABLES
  frame,        \* the frame being read
  status,       \* "header", "chunks", then "accepted" or "rejected"
  chunksRead,   \* chunks decoded so far
  output        \* output

decoderVars == <<frame, status, chunksRead, output>>

Fresh == status = "header" /\ chunksRead = 0 /\ output = <<>>

-----------------------------------------------------------------------------

ReadHeader ==
  /\ status = "header"
  /\ status' = IF /\ frame.prologue
                  /\ (frame.chunkCount = 0) = (frame.numElements = 0)
               THEN "chunks" ELSE "rejected"
  /\ UNCHANGED <<frame, chunksRead, output>>

\* Faulty variant: the total is only compared at the end.
ChunkFitsUnchecked ==
  /\ chunksRead < Len(frame.chunks)
  /\ frame.chunks[chunksRead + 1] # Refused

\* The next record is there, is decoded, and the total stays within the
\* count of the header.
ChunkFits ==
  /\ chunksRead < Len(frame.chunks)
  /\ frame.chunks[chunksRead + 1] # Refused
  /\ Len(output) + Len(frame.chunks[chunksRead + 1]) <= frame.numElements

DecodeChunk ==
  /\ status = "chunks"
  /\ chunksRead < frame.chunkCount
  /\ ChunkFits
  /\ output' = output \o frame.chunks[chunksRead + 1]
  /\ chunksRead' = chunksRead + 1
  /\ UNCHANGED <<frame, status>>

RejectChunk ==
  /\ status = "chunks"
  /\ chunksRead < frame.chunkCount
  /\ ~ ChunkFits
  /\ status' = "rejected"
  /\ UNCHANGED <<frame, chunksRead, output>>

\* Faulty variant: too few elements are not noticed.
TotalsUnchecked == chunksRead = Len(frame.chunks) /\ ~ frame.extra

TotalsAgree ==
  /\ Len(output) = frame.numElements
  /\ chunksRead = Len(frame.chunks)
  /\ ~ frame.extra

Finish ==
  /\ status = "chunks"
  /\ chunksRead = frame.chunkCount
  /\ status' = IF TotalsAgree THEN "accepted" ELSE "rejected"
  /\ UNCHANGED <<frame, chunksRead, output>>

DecoderStep ==
  \/ ReadHeader
  \/ DecodeChunk
  \/ RejectChunk
  \/ Finish

Returned == status \in {"accepted", "rejected"} /\ UNCHANGED decoderVars

DecoderInit == frame \in Frame /\ Fresh

DecoderNext == DecoderStep \/ Returned

DecoderSpec ==
  DecoderInit /\ [][DecoderNext]_decoderVars /\ WF_decoderVars(DecoderNext)

-----------------------------------------------------------------------------
\* Properties

\* The counters agree with the frame, and memory stays within what the
\* header announced: a frame cannot make the output grow past its count.
DecoderTypeOK ==
  /\ status \in {"header", "chunks", "accepted", "rejected"}
  /\ chunksRead \in 0..Len(frame.chunks)
  /\ status # "rejected" => chunksRead <= frame.chunkCount
  /\ output \in Seq(Value)
  /\ Len(output) <= frame.numElements

\* A frame without fault: what the format plan demands of one.
Exact(f) ==
  /\ f.prologue
  /\ f.chunkCount = Len(f.chunks)
  /\ \A k \in DOMAIN f.chunks : f.chunks[k] # Refused
  /\ Len(FlattenSeq(f.chunks)) = f.numElements
  /\ ~ f.extra

\* The checks, spread over three places and partly redundant, accept just
\* the frames without fault, and hand back their chunks in order.
AcceptsExactFrames ==
  /\ status = "accepted" => Exact(frame) /\ output = FlattenSeq(frame.chunks)
  /\ status = "rejected" => ~ Exact(frame)

=============================================================================
