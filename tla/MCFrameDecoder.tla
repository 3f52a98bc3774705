---------------------------- MODULE MCFrameDecoder ----------------------------
\* Instance of FrameDecoder for TLC: frames of up to three records, right and
\* wrong in every count, and the set of states to start from.
EXTENDS FrameDecoder

MCRecords == UNION {[1..n -> 1..2] : n \in 0..2}

MCFrames ==
  [prologue : BOOLEAN, numElements : 0..5, chunkCount : 0..4,
   chunks : UNION {[1..n -> MCRecords] : n \in 0..3}, extra : BOOLEAN]

MCInit == frame \in MCFrames /\ Fresh
MCSpec == MCInit /\ [][DecoderNext]_decoderVars /\ WF_decoderVars(DecoderNext)

=============================================================================
