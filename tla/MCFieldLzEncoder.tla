-------------------------- MODULE MCFieldLzEncoder --------------------------
\* Instance of FieldLzEncoder for TLC: every chunk of up to MaxChunk values
\* over two values, and every way the four pairs can fall into two buckets.
EXTENDS FieldLzEncoder

CONSTANTS a, b, h1, h2

MCValue == {a, b}
MCBucket == {h1, h2}

=============================================================================
