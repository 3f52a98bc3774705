------------------------------- MODULE MCVarint -------------------------------
\* Instance of Varint for TLC: two bits to a byte, three bytes to a word of
\* five bits, every sequence of up to four bytes.
EXTENDS Varint

MCBytes == UNION {[1..n -> 0..(2 * Radix - 1)] : n \in 0..4}

=============================================================================
