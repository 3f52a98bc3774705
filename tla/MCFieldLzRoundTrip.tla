------------------------- MODULE MCFieldLzRoundTrip -------------------------
\* Instance of FieldLzRoundTrip for TLC: every chunk of up to MaxChunk
\* values over two values, and every hash of the four pairs into two buckets.
EXTENDS FieldLzRoundTrip

CONSTANTS a, b, h1, h2

MCValue == {a, b}
MCBucket == {h1, h2}

=============================================================================
