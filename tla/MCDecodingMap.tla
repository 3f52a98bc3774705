---------------------------- MODULE MCDecodingMap ----------------------------
\* Instance of DecodingMap for TLC: FieldLZ with a value and a token input,
\* a byte split into two lanes.
EXTENDS DecodingMap

MCWidth == {1, 2, 4}
MCFieldLzWidths == <<4, 2>>

=============================================================================
