---------------------------- MODULE MCLiteralRoute ----------------------------
\* Instance of LiteralRoute for TLC: streams of up to six of five values,
\* two one-byte and four two-byte codes, so that every way to give up and
\* every clause of the split test occurs.
EXTENDS LiteralRoute

MCByte == 0..2
MCValue == {<<0, 0, 0, 0>>, <<0, 2, 1, 0>>, <<0, 1, 2, 0>>, <<1, 2, 1, 0>>, <<1, 1, 2, 2>>}
MCLiterals == UNION {[1..n -> MCValue] : n \in 0..6}
MCCodeSpan == [w \in {1, 2} |-> 2 * w]

=============================================================================
