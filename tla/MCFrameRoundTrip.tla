--------------------------- MODULE MCFrameRoundTrip ---------------------------
\* Instance of FrameRoundTrip for TLC.  Values are only compared with one
\* another, so the inputs are those that number their values in the order
\* of first occurrence.
EXTENDS FrameRoundTrip

MCValue == 1..3
MCInput ==
  {s \in UNION {[1..n -> MCValue] : n \in 0..10} :
     \A i \in DOMAIN s : s[i] = 1 \/ \E j \in 1..(i - 1) : s[j] = s[i] - 1}

=============================================================================
