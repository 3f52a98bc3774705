---------------------------- MODULE RouteSelection ----------------------------
(***************************************************************************)
(* choose_and_write_best_chunk_encoding of src/frame.rs and src/delta.rs:  *)
(* statistics of a chunk decide whether its values are stored as literals  *)
(* only, whether FieldLZ is run on their wrapping deltas, or on the values *)
(* themselves; the decoder undoes what was done.                           *)
(*                                                                         *)
(* Abstractions.  Compressed sizes are not modelled: the samples may come  *)
(* out either way.  What FieldLZ is run on it gives back (FieldLzRoundTrip *)
(* shows it); the streams of the literal-only route, which bypass the      *)
(* encoder, are spelled out and read by their meaning.                     *)
(***************************************************************************)
EXTENDS FieldLzReference

CONSTANTS
  Modulus,                     \* 2^32
  LowMax, HighMin,             \* 0x0000_ffff and 0xffff_0000
  MinLiteralOnly,              \* LITERAL_ONLY_MIN_ELEMENTS
  SampleMin, SampleLen, SampleCount,   \* DELTA_SAMPLE_*
  Pending                      \* nothing decoded yet

ASSUME RouteAssumption ==
  /\ Modulus \in Nat \ {0}
  /\ Value = 0..(Modulus - 1)
  /\ LowMax \in Value /\ HighMin \in Value
  /\ MinLiteralOnly \in Nat \ (0..3)
  /\ {SampleMin, SampleLen, SampleCount} \subseteq Nat \ {0}
  /\ Pending \notin Chunk

VARIABLES
  chunk,      \* chunk
  route,      \* "scan", "sample", then "literals", "delta" or "plain"
  sampled,    \* the ranges compressed as samples so far
  restored    \* the chunk the decoder returns

vars == <<chunk, route, sampled, restored>>

N == Len(chunk)

Codec == INSTANCE LosslessCodec WITH
           Source <- Chunk,
           source <- chunk,
           result <- restored

Init ==
  /\ chunk \in Chunk
  /\ route = "scan"
  /\ sampled = <<>>
  /\ restored = Pending

-----------------------------------------------------------------------------
\* src/delta.rs

EncodeDeltas(s) == [i \in DOMAIN s |-> (s[i] - (IF i = 1 THEN 0 ELSE s[i - 1])) % Modulus]

\* Faulty variant: the sum does not wrap.
DecodeDeltasUnwrapped(d) ==
  LET acc[k \in 0..Len(d)] == IF k = 0 THEN 0 ELSE acc[k - 1] + d[k]
  IN  [k \in DOMAIN d |-> acc[k]]

DecodeDeltas(d) ==
  LET acc[k \in 0..Len(d)] == IF k = 0 THEN 0 ELSE (acc[k - 1] + d[k]) % Modulus
  IN  [k \in DOMAIN d |-> acc[k]]

-----------------------------------------------------------------------------
\* ChunkValueAnalysis::scan_u32

Deltas == EncodeDeltas(chunk)
EqualPairs(s) == Cardinality({i \in 2..N : s[i] = s[i - 1]})
Compact(s) == Cardinality({i \in 1..N : s[i] <= LowMax \/ s[i] >= HighMin})

\* Ratio: count is at least, or less than, num/den of the elements.
AtLeast(count, num, den) == count * den >= N * num
Below(count, num, den) == count * den < N * num

LiteralOnly ==
  /\ N >= MinLiteralOnly
  /\ AtLeast(EqualPairs(chunk), 1, 2)
  /\ Below(EqualPairs(chunk), 9, 10)
  /\ Below(EqualPairs(Deltas), 1, 2)

-----------------------------------------------------------------------------
\* DeltaIntFieldLzStrategy::should_build

FewRuns == N >= 2 /\ ~ AtLeast(EqualPairs(chunk), 1, 4)

SteadyStride == AtLeast(EqualPairs(Deltas), 1, 2)

MinCompactGain == IF N \div 4 >= 1 THEN N \div 4 ELSE 1

CompactDeltas ==
  /\ AtLeast(Compact(Deltas), 1, 2)
  /\ Compact(Deltas) >= Compact(chunk) + MinCompactGain

\* Faulty variant: runs of equal values are not ruled out.
DeltaGateWithRuns ==
  CASE N < 2 -> "plain"
    [] N >= 2 /\ SteadyStride -> "delta"
    [] N >= 2 /\ ~ SteadyStride /\ CompactDeltas ->
         IF N < SampleMin THEN "delta" ELSE "sample"
    [] OTHER -> "plain"

\* Where the gates lead: to an answer, or to the samples.
DeltaGate ==
  CASE ~ FewRuns -> "plain"
    [] FewRuns /\ SteadyStride -> "delta"
    [] FewRuns /\ ~ SteadyStride /\ CompactDeltas ->
         IF N < SampleMin THEN "delta" ELSE "sample"
    [] OTHER -> "plain"

\* delta_sample_ranges: spread over the chunk, or the only one (SampleCount is
\* 1 in the code) in its middle.
SampleRanges ==
  LET len   == IF SampleLen < N THEN SampleLen ELSE N
      most  == (N + len - 1) \div len
      count == IF SampleCount < most THEN SampleCount ELSE most
      first(i) == IF count = 1 THEN (N - len) \div 2
                               ELSE ((i - 1) * (N - len)) \div (count - 1)
  IN  [i \in 1..count |-> [first |-> first(i), past |-> first(i) + len]]

-----------------------------------------------------------------------------

Scan ==
  /\ route = "scan"
  /\ route' = IF LiteralOnly THEN "literals" ELSE DeltaGate
  /\ UNCHANGED <<chunk, sampled, restored>>

Sample ==
  /\ route = "sample"
  /\ Len(sampled) < Len(SampleRanges)
  /\ sampled' = Append(sampled, SampleRanges[Len(sampled) + 1])
  /\ UNCHANGED <<chunk, route, restored>>

\* Which total is smaller.
Compare ==
  /\ route = "sample"
  /\ Len(sampled) = Len(SampleRanges)
  /\ route' \in {"delta", "plain"}
  /\ UNCHANGED <<chunk, sampled, restored>>

\* serialize_literal_only_chunk_encoding
LiteralStreams == [NoStreams EXCEPT !.literals = chunk]

RestoreLiterals ==
  /\ route = "literals"
  /\ restored = Pending
  /\ WellFormed(LiteralStreams, N)
  /\ restored' = Meaning(LiteralStreams, N)
  /\ UNCHANGED <<chunk, route, sampled>>

RestoreDeltas ==
  /\ route = "delta"
  /\ restored = Pending
  /\ restored' = DecodeDeltas(Deltas)
  /\ UNCHANGED <<chunk, route, sampled>>

RestorePlain ==
  /\ route = "plain"
  /\ restored = Pending
  /\ restored' = chunk
  /\ UNCHANGED <<chunk, route, sampled>>

Returned == restored # Pending /\ UNCHANGED vars

Next ==
  \/ Scan
  \/ Sample
  \/ Compare
  \/ RestoreLiterals
  \/ RestoreDeltas
  \/ RestorePlain
  \/ Returned

Spec == Init /\ [][Next]_vars /\ WF_vars(Next)

-----------------------------------------------------------------------------
\* Properties

Constant == \A i \in 2..N : chunk[i] = chunk[1]

\* The same step modulo the word everywhere, and not zero.
Progression ==
  \E step \in 1..(Modulus - 1) :
    \A i \in 2..N : chunk[i] = (chunk[i - 1] + step) % Modulus

\* What the gates together make of the shapes they are written for: the
\* order of the two gates does not matter, as no chunk passes both;
\* a constant chunk always stays with plain FieldLZ; four or more values in
\* steady steps always go through delta_int, around the end of the value
\* range too; and no sample reaches outside the chunk.
RoutesFitShapes ==
  /\ LiteralOnly => DeltaGate = "plain"
  /\ Constant => route \in {"scan", "plain"}
  /\ N >= 4 /\ Progression => route \in {"scan", "delta"}
  /\ \A i \in DOMAIN sampled : 0 <= sampled[i].first /\ sampled[i].past <= N

\* Whichever route a chunk takes, the decoder gets the same values back:
\* deltas wrap both ways, and streams without tokens are read as they are.
ChunkIsRestored == Codec!FairSpec

=============================================================================
