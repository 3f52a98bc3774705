---------------------------- MODULE MCPlannedChunk ----------------------------
\* Instance of PlannedChunk for TLC: the five real FieldLZ inputs and four
\* lanes, chunks of up to five values, three bytes to a compressed stream.
EXTENDS PlannedChunk

MCWidth == {1, 2, 4}
MCFieldLzWidths == <<4, 2, 4, 4, 4>>

=============================================================================
