------------------------- MODULE RouteSelectionProofs -------------------------
(***************************************************************************)
(* Proofs about RouteSelection, for every word, every chunk and every      *)
(* threshold: where the two gates send the shapes they are written for,    *)
(* and that each route is undone.                                          *)
(***************************************************************************)
EXTENDS RouteSelection, FieldLzReferenceProofs

-----------------------------------------------------------------------------
\* Chunks and differences modulo the word

LEMMA ChunkFacts ==
  ASSUME chunk \in Chunk
  PROVE  /\ N \in 1..MaxChunk /\ MaxChunk \in Nat
         /\ DOMAIN chunk = 1..N
         /\ chunk \in Seq(Value)
         /\ \A i \in 1..N : chunk[i] \in 0..(Modulus - 1)
<1>1. PICK n \in 1..MaxChunk : chunk \in [1..n -> Value]
  BY DEF Chunk
<1>2. MaxChunk \in Nat /\ Value = 0..(Modulus - 1)
  BY FormatAssumption, RouteAssumption
<1>3. chunk \in Seq(Value) /\ Len(chunk) = n
  <2>1. n \in Nat /\ DOMAIN chunk = 1..n /\ \A i \in 1..n : chunk[i] \in Value
    BY <1>1, <1>2
  <2>2. chunk \in Seq(Value)
    BY <1>1, <2>1
  <2> QED
    BY <2>1, <2>2
<1> QED
  BY <1>1, <1>2, <1>3 DEF N

\* What is added modulo the word can be taken off again, and the other way
\* round; what is not zero changes the value.
LEMMA WrappingSteps ==
  ASSUME NEW m \in Nat \ {0}, NEW a \in 0..(m - 1), NEW b \in 0..(m - 1)
  PROVE  /\ (a - b) % m \in 0..(m - 1)
         /\ (b + ((a - b) % m)) % m = a
         /\ (((a + b) % m) - a) % m = b
         /\ b # 0 => (a + b) % m # a
         /\ (a - a) % m = 0 /\ (0 + ((a - 0) % m)) % m = a
<1>1. (a - b) % m = IF a >= b THEN a - b ELSE (a - b) + m
  OBVIOUS
<1>2. (a + b) % m = IF a + b < m THEN a + b ELSE (a + b) - m
  OBVIOUS
<1>3. \A c \in 0..(m - 1) : c % m = c
  OBVIOUS
<1>4. (b + ((a - b) % m)) % m = a
  <2>1. CASE a >= b
    BY <1>1, <1>3, <2>1
  <2>2. CASE ~ (a >= b)
    <3>1. b + ((a - b) % m) = a + m
      BY <1>1, <2>2
    <3>2. (a + m) % m = a
      OBVIOUS
    <3> QED
      BY <3>1, <3>2
  <2> QED
    BY <2>1, <2>2
<1>5. (((a + b) % m) - a) % m = b
  <2>1. CASE a + b < m
    BY <1>2, <1>3, <2>1
  <2>2. CASE ~ (a + b < m)
    <3>1. ((a + b) % m) - a = b - m
      BY <1>2, <2>2
    <3>2. (b - m) % m = b
      OBVIOUS
    <3> QED
      BY <3>1, <3>2
  <2> QED
    BY <2>1, <2>2
<1> QED
  BY <1>1, <1>2, <1>3, <1>4, <1>5

LEMMA WrapsBack ==
  ASSUME NEW m \in Nat \ {0}, NEW a \in 0..(m - 1), NEW b \in 0..(m - 1)
  PROVE  (b + ((a - b) % m)) % m = a
  BY WrappingSteps

\* The first delta is the value itself, each later one the step to the value.
LEMMA DeltaEntries ==
  ASSUME chunk \in Chunk
  PROVE  /\ DOMAIN Deltas = 1..N /\ Len(Deltas) = N
         /\ Deltas[1] = chunk[1]
         /\ \A i \in 2..N : Deltas[i] = (chunk[i] - chunk[i - 1]) % Modulus
<1>1. /\ N \in Nat /\ N >= 1 /\ DOMAIN chunk = 1..N
      /\ \A i \in 1..N : chunk[i] \in 0..(Modulus - 1)
  BY ChunkFacts
<1>2. Deltas = [i \in 1..N |-> (chunk[i] - (IF i = 1 THEN 0 ELSE chunk[i - 1])) % Modulus]
  BY <1>1 DEF Deltas, EncodeDeltas
<1>3. Deltas[1] = chunk[1]
  <2>1. Deltas[1] = (chunk[1] - 0) % Modulus
    BY <1>1, <1>2
  <2>2. chunk[1] \in 0..(Modulus - 1) /\ Modulus \in Nat \ {0}
    BY <1>1, RouteAssumption
  <2> QED
    BY <2>1, <2>2
<1>4. \A i \in 2..N : i \in 1..N /\ i # 1
  OBVIOUS
<1> QED
  BY <1>1, <1>2, <1>3, <1>4

\* Deltas are summed up to the chunk they were made from.
LEMMA DeltasRestore ==
  ASSUME chunk \in Chunk
  PROVE  DecodeDeltas(Deltas) = chunk
<1> DEFINE d == Deltas
           Sums(f) == f = [k \in 0..N |-> IF k = 0 THEN 0 ELSE (f[k - 1] + d[k]) % Modulus]
           acc == CHOOSE f : Sums(f)
           whole == [k \in 0..N |-> IF k = 0 THEN 0 ELSE chunk[k]]
<1>1. /\ N \in Nat /\ N >= 1 /\ DOMAIN chunk = 1..N /\ chunk \in Seq(Value)
      /\ \A i \in 1..N : chunk[i] \in 0..(Modulus - 1)
  BY ChunkFacts
<1>2. /\ DOMAIN d = 1..N /\ Len(d) = N
      /\ d[1] = chunk[1]
      /\ \A i \in 2..N : d[i] = (chunk[i] - chunk[i - 1]) % Modulus
  BY DeltaEntries
<1>3. Modulus \in Nat \ {0}
  BY RouteAssumption
<1>4. DecodeDeltas(d) = [k \in 1..N |-> acc[k]]
  BY <1>2 DEF DecodeDeltas
<1> HIDE DEF d
<1>5. ASSUME NEW f, Sums(f), NEW k \in 1..N,
             f[k - 1] = IF k = 1 THEN 0 ELSE chunk[k - 1]
      PROVE  f[k] = chunk[k]
  <2>1. k \in 0..N /\ k # 0
    BY <1>1
  <2>2. f[k] = (f[k - 1] + d[k]) % Modulus
    BY <1>5, <2>1
  <2>3. CASE k = 1
    <3>1. chunk[1] \in 0..(Modulus - 1)
      BY <1>1
    <3>2. f[k] = (0 + chunk[1]) % Modulus
      BY <1>2, <1>5, <2>2, <2>3
    <3> QED
      BY <1>3, <2>3, <3>1, <3>2
  <2>4. CASE k # 1
    <3>1. k \in 2..N /\ k - 1 \in 1..N
      BY <1>1, <2>4
    <3>2. chunk[k] \in 0..(Modulus - 1) /\ chunk[k - 1] \in 0..(Modulus - 1)
      BY <1>1, <3>1
    <3>3. f[k] = (chunk[k - 1] + ((chunk[k] - chunk[k - 1]) % Modulus)) % Modulus
      BY <1>2, <1>5, <2>2, <2>4, <3>1
    <3>4. (chunk[k - 1] + ((chunk[k] - chunk[k - 1]) % Modulus)) % Modulus = chunk[k]
      BY <1>3, <3>2, WrapsBack
    <3> QED
      BY <3>3, <3>4
  <2> QED
    BY <2>3, <2>4
<1>6. Sums(whole)
  <2>1. ASSUME NEW k \in 0..N
        PROVE  whole[k] = IF k = 0 THEN 0 ELSE (whole[k - 1] + d[k]) % Modulus
    <3>1. CASE k = 0
      BY <3>1
    <3>2. CASE k = 1
      <4>1. 0 \in 0..N /\ 1 \in 1..N /\ 1 \in 0..N
        BY <1>1
      <4>2. whole[1 - 1] = 0 /\ whole[1] = chunk[1] /\ d[1] = chunk[1]
        BY <1>2, <4>1
      <4>3. chunk[1] \in 0..(Modulus - 1)
        BY <1>1, <4>1
      <4>4. (0 + chunk[1]) % Modulus = chunk[1]
        BY <1>3, <4>3
      <4> QED
        BY <3>2, <4>2, <4>4
    <3>3. CASE k \notin {0, 1}
      <4>1. k \in 2..N /\ k - 1 \in 1..N /\ k - 1 \in 0..N /\ k - 1 # 0 /\ k \in 1..N
        BY <1>1, <3>3
      <4>2. whole[k] = chunk[k] /\ whole[k - 1] = chunk[k - 1]
        BY <4>1
      <4>3. d[k] = (chunk[k] - chunk[k - 1]) % Modulus
        BY <1>2, <4>1
      <4>4. chunk[k] \in 0..(Modulus - 1) /\ chunk[k - 1] \in 0..(Modulus - 1)
        BY <1>1, <4>1
      <4>5. (chunk[k - 1] + ((chunk[k] - chunk[k - 1]) % Modulus)) % Modulus = chunk[k]
        BY <1>3, <4>4, WrapsBack
      <4> QED
        BY <4>1, <4>2, <4>3, <4>5
    <3> QED
      BY <3>1, <3>2, <3>3
  <2> HIDE DEF whole
  <2>2. whole = [k \in 0..N |-> whole[k]]
    BY DEF whole
  <2>3. [k \in 0..N |-> whole[k]]
          = [k \in 0..N |-> IF k = 0 THEN 0 ELSE (whole[k - 1] + d[k]) % Modulus]
    BY <2>1
  <2> QED
    BY <2>2, <2>3
<1>7. Sums(acc)
  <2> HIDE DEF Sums, whole
  <2> QED
    BY <1>6
<1> HIDE DEF acc
<1> DEFINE S == {m \in 0..N : acc[m] = IF m = 0 THEN 0 ELSE chunk[m]}
<1>8. 0 \in S
  BY <1>1, <1>7
<1>9. ASSUME NEW m \in 1..N, m - 1 \in S PROVE m \in S
  <2>1. acc[m - 1] = IF m = 1 THEN 0 ELSE chunk[m - 1]
    BY <1>9
  <2>2. acc[m] = chunk[m]
    <3> HIDE DEF Sums, S
    <3> QED
      BY <1>5, <1>7, <2>1
  <2> QED
    BY <2>2
<1> HIDE DEF S
<1>10. 0..N \subseteq S
  BY <1>1, <1>8, <1>9, InductionUpTo
<1>11. \A k \in 1..N : acc[k] = chunk[k]
  <2>1. ASSUME NEW k \in 1..N PROVE acc[k] = chunk[k]
    <3>1. k \in S /\ k # 0
      BY <1>1, <1>10
    <3> QED
      BY <3>1 DEF S
  <2> QED
    BY <2>1
<1>12. chunk = [k \in 1..N |-> chunk[k]]
  BY <1>1
<1>13. DecodeDeltas(Deltas) = [k \in 1..N |-> acc[k]]
  BY <1>4 DEF d
<1> QED
  BY <1>11, <1>12, <1>13

\* Streams of literals and no token are well formed and mean the literals.
LEMMA LiteralsMean ==
  ASSUME chunk \in Chunk
  PROVE  WellFormed(LiteralStreams, N) /\ Meaning(LiteralStreams, N) = chunk
<1> DEFINE s == LiteralStreams
<1>1. N \in Nat /\ chunk \in Seq(Value) /\ Len(chunk) = N
  BY ChunkFacts DEF N
<1>2. /\ s.literals = chunk /\ s.tokens = <<>> /\ s.offsets = <<>>
      /\ s.extraLiteralLengths = <<>> /\ s.extraMatchLengths = <<>>
      /\ s \in Streams
  <2>1. /\ s.literals = chunk /\ s.tokens = <<>> /\ s.offsets = <<>>
        /\ s.extraLiteralLengths = <<>> /\ s.extraMatchLengths = <<>>
    BY DEF LiteralStreams, NoStreams
  <2>2. <<>> \in Seq(Token) /\ <<>> \in Seq(Nat) /\ NoStreams.literals = <<>>
    BY DEF NoStreams
  <2>3. LiteralStreams = [literals |-> chunk, tokens |-> <<>>, offsets |-> <<>>,
                          extraLiteralLengths |-> <<>>, extraMatchLengths |-> <<>>]
    BY DEF LiteralStreams, NoStreams
  <2>4. LiteralStreams \in Streams
    BY <1>1, <2>2, <2>3 DEF Streams
  <2> QED
    BY <2>1, <2>4
<1> HIDE DEF s
<1>3. Len(s.tokens) = 0 /\ Tokens(s) = 1..0 /\ Tokens(s) = {}
  BY <1>2 DEF Tokens
<1>4. LengthsKnown(s, 0)
  BY DEF LengthsKnown
<1>5. LiteralsThrough(s, 0) = 0 /\ MatchedThrough(s, 0) = 0
  <2>1. Len(s.tokens) \in Nat /\ Tokens(s) = 1..Len(s.tokens) /\ 0 \in 0..Len(s.tokens)
    BY <1>3
  <2> QED
    BY <1>4, <2>1, PositionsGrow
<1>6. EntriesAreTaken(s)
  <2>1. /\ ExplicitUpTo(s, 0) = {} /\ LongLiteralUpTo(s, 0) = {}
        /\ LongMatchUpTo(s, 0) = {}
    BY DEF ExplicitUpTo, LongLiteralUpTo, LongMatchUpTo
  <2>2. Cardinality({}) = 0
    BY FS_EmptySet
  <2>3. /\ Len(s.offsets) = 0 /\ Len(s.extraLiteralLengths) = 0
        /\ Len(s.extraMatchLengths) = 0
    BY <1>2
  <2> QED
    BY <1>3, <2>1, <2>2, <2>3 DEF EntriesAreTaken
<1>7. WellFormed(s, N)
  BY <1>1, <1>2, <1>3, <1>5, <1>6 DEF WellFormed
<1>8. OutputFollows(s, Len(s.tokens), chunk)
  BY <1>3 DEF OutputFollows
<1>9. ASSUME NEW p \in 1..N PROVE chunk[p] = s.literals[p - MatchedThrough(s, Len(s.tokens))]
  BY <1>1, <1>2, <1>3, <1>5, <1>9
<1>10. chunk = Meaning(s, N)
  BY <1>1, <1>2, <1>7, <1>8, <1>9, MeaningIsUnique
<1> QED
  BY <1>7, <1>10 DEF s

-----------------------------------------------------------------------------
\* Samples

\* Every sample is a range of the chunk.
LEMMA SamplesWithinChunk ==
  ASSUME chunk \in Chunk
  PROVE  /\ Len(SampleRanges) \in Nat /\ DOMAIN SampleRanges = 1..Len(SampleRanges)
         /\ \A i \in DOMAIN SampleRanges : SampleRanges[i] \in [first : Nat, past : 0..N]
<1> DEFINE len   == IF SampleLen < N THEN SampleLen ELSE N
           most  == (N + len - 1) \div len
           count == IF SampleCount < most THEN SampleCount ELSE most
           first(i) == IF count = 1 THEN (N - len) \div 2
                                    ELSE ((i - 1) * (N - len)) \div (count - 1)
<1>1. N \in Nat \ {0}
  BY ChunkFacts
<1>2. SampleLen \in Nat \ {0} /\ SampleCount \in Nat \ {0}
  BY RouteAssumption
<1>3. len \in 1..N
  BY <1>1, <1>2
<1>4. SampleRanges = [i \in 1..count |-> [first |-> first(i), past |-> first(i) + len]]
  BY DEF SampleRanges
<1> HIDE DEF len
<1>5. most \in Nat \ {0}
  <2>1. N + len - 1 \in Nat /\ len \in Nat \ {0} /\ len <= N + len - 1
    BY <1>1, <1>3
  <2> QED
    BY <2>1
<1> HIDE DEF most
<1>6. count \in Nat \ {0}
  BY <1>2, <1>5
<1> HIDE DEF count
<1>7. ASSUME NEW i \in 1..count PROVE first(i) \in 0..(N - len)
  <2>1. N - len \in Nat
    BY <1>1, <1>3
  <2>2. CASE count = 1
    BY <2>1, <2>2
  <2>3. CASE count # 1
    <3>1. count - 1 \in Nat \ {0} /\ i - 1 \in Nat /\ i - 1 <= count - 1
      BY <1>6, <2>3
    <3>2. \A a, b \in Nat : \A c \in Nat \ {0} : a <= c => (a * b) \div c \in 0..b
      OBVIOUS
    <3> QED
      BY <2>1, <2>3, <3>1, <3>2
  <2> QED
    BY <2>2, <2>3
<1> HIDE DEF first
<1>8. Len(SampleRanges) = count /\ DOMAIN SampleRanges = 1..count
  BY <1>4, <1>6
<1>9. ASSUME NEW i \in 1..count PROVE SampleRanges[i] \in [first : Nat, past : 0..N]
  <2>1. SampleRanges[i] = [first |-> first(i), past |-> first(i) + len]
    BY <1>4
  <2>2. first(i) \in 0..(N - len)
    BY <1>7
  <2>3. first(i) \in Nat /\ first(i) + len \in 0..N
    BY <1>1, <1>3, <2>2
  <2> QED
    BY <2>1, <2>3
<1> QED
  BY <1>6, <1>8, <1>9

-----------------------------------------------------------------------------
\* Gates

\* Pairs are counted among N - 1, and those of a part of the chunk at least.
LEMMA PairsCounted ==
  ASSUME chunk \in Chunk, NEW s
  PROVE  /\ EqualPairs(s) \in 0..(N - 1)
         /\ (\A i \in 2..N : s[i] = s[i - 1]) => EqualPairs(s) = N - 1
         /\ (\A i \in 2..N : s[i] # s[i - 1]) => EqualPairs(s) = 0
         /\ (\A i \in 3..N : s[i] = s[i - 1]) => EqualPairs(s) >= N - 2
<1> DEFINE P == {i \in 2..N : s[i] = s[i - 1]}
<1>1. N \in Nat \ {0}
  BY ChunkFacts
<1>2. IsFiniteSet(2..N) /\ Cardinality(2..N) = N - 1
  <2>1. 2 \in Int /\ N \in Int
    BY <1>1
  <2>2. /\ IsFiniteSet(2..N)
        /\ Cardinality(2..N) = IF 2 > N THEN 0 ELSE N - 2 + 1
    BY <2>1, FS_Interval
  <2> QED
    BY <1>1, <2>2
<1>3. IsFiniteSet(P) /\ Cardinality(P) <= N - 1 /\ Cardinality(P) \in Nat
  <2>1. P \subseteq 2..N
    OBVIOUS
  <2> HIDE DEF P
  <2>2. IsFiniteSet(P) /\ Cardinality(P) <= Cardinality(2..N)
    BY <1>2, <2>1, FS_Subset
  <2>3. Cardinality(P) \in Nat
    BY <2>2, FS_CardinalityType
  <2> QED
    BY <1>2, <2>2, <2>3
<1>4. ASSUME \A i \in 2..N : s[i] = s[i - 1] PROVE Cardinality(P) = N - 1
  <2>1. P = 2..N
    BY <1>4
  <2> QED
    BY <1>2, <2>1
<1>5. ASSUME \A i \in 2..N : s[i] # s[i - 1] PROVE Cardinality(P) = 0
  <2>1. P = {}
    BY <1>5
  <2> QED
    BY <2>1, FS_EmptySet
<1>6. ASSUME \A i \in 3..N : s[i] = s[i - 1] PROVE Cardinality(P) >= N - 2
  <2>1. 3..N \subseteq P
    BY <1>6
  <2> HIDE DEF P
  <2>2. Cardinality(3..N) <= Cardinality(P)
    BY <1>3, <2>1, FS_Subset
  <2>3. 3 \in Int /\ N \in Int
    BY <1>1
  <2>4. Cardinality(3..N) = IF 3 > N THEN 0 ELSE N - 3 + 1
    BY <2>3, FS_Interval
  <2> QED
    BY <1>1, <1>3, <2>2, <2>4
<1>7. EqualPairs(s) = Cardinality(P)
  BY DEF EqualPairs
<1> HIDE DEF P
<1> QED
  BY <1>1, <1>3, <1>4, <1>5, <1>6, <1>7

\* A chunk that is stored as literals only would not be tried with deltas.
LEMMA GatesExclude ==
  ASSUME chunk \in Chunk, LiteralOnly
  PROVE  DeltaGate = "plain"
<1>1. PICK n, e \in Nat : n = N /\ e = EqualPairs(chunk)
  <2>1. N \in Nat /\ EqualPairs(chunk) \in Nat
    BY ChunkFacts, PairsCounted
  <2> QED
    BY <2>1
<1>2. e * 2 >= n
  BY <1>1 DEF LiteralOnly, AtLeast
<1>3. e * 4 >= n
  BY <1>1, <1>2
<1>4. ~ FewRuns
  BY <1>1, <1>3 DEF FewRuns, AtLeast
<1> QED
  BY <1>4, Zenon DEF DeltaGate

\* A constant chunk has too many runs for deltas, and no steps between its
\* deltas for literals.
LEMMA ConstantIsPlain ==
  ASSUME chunk \in Chunk, Constant
  PROVE  ~ LiteralOnly /\ DeltaGate = "plain"
<1>1. N \in Nat \ {0} /\ \A i \in 1..N : chunk[i] \in 0..(Modulus - 1)
  BY ChunkFacts
<1>2. EqualPairs(chunk) = N - 1
  <2>1. \A i \in 2..N : chunk[i] = chunk[i - 1]
    <3>1. ASSUME NEW i \in 2..N PROVE chunk[i] = chunk[i - 1]
      <4>1. i - 1 = 1 \/ i - 1 \in 2..N
        BY <1>1
      <4> QED
        BY <4>1 DEF Constant
    <3> QED
      BY <3>1
  <2> QED
    BY <2>1, PairsCounted
<1>3. EqualPairs(Deltas) >= N - 2 /\ EqualPairs(Deltas) \in Nat
  <2>1. ASSUME NEW i \in 3..N PROVE Deltas[i] = Deltas[i - 1]
    <3>1. i \in 2..N /\ i - 1 \in 2..N /\ (i - 1) - 1 \in 1..N
      BY <1>1
    <3>2. chunk[i] = chunk[1] /\ chunk[i - 1] = chunk[1] /\ chunk[(i - 1) - 1] = chunk[1]
      <4>1. (i - 1) - 1 = 1 \/ (i - 1) - 1 \in 2..N
        BY <3>1
      <4> QED
        BY <3>1, <4>1 DEF Constant
    <3>3. /\ Deltas[i] = (chunk[i] - chunk[i - 1]) % Modulus
          /\ Deltas[i - 1] = (chunk[i - 1] - chunk[(i - 1) - 1]) % Modulus
      BY <3>1, DeltaEntries
    <3> QED
      BY <3>2, <3>3
  <2> QED
    BY <2>1, PairsCounted
<1>4. PICK n, f \in Nat : n = N /\ f = EqualPairs(Deltas)
  BY <1>1, <1>3
<1>5. n >= 1 /\ f >= n - 2 /\ EqualPairs(chunk) = n - 1
  BY <1>1, <1>2, <1>3, <1>4
<1>6. ASSUME LiteralOnly PROVE FALSE
  <2>1. n >= 4
    BY <1>4, <1>6, RouteAssumption DEF LiteralOnly
  <2>2. f * 2 < n
    BY <1>4, <1>6 DEF LiteralOnly, Below
  <2> QED
    BY <1>5, <2>1, <2>2
<1>7. ASSUME FewRuns PROVE FALSE
  <2>1. n >= 2 /\ ~ ((n - 1) * 4 >= n)
    BY <1>4, <1>5, <1>7 DEF FewRuns, AtLeast
  <2> QED
    BY <2>1
<1>8. DeltaGate = "plain"
  BY <1>7, Zenon DEF DeltaGate
<1> QED
  BY <1>6, <1>8

\* Steady steps leave no two values equal and all deltas but the first.
LEMMA ProgressionIsDelta ==
  ASSUME chunk \in Chunk, N >= 4, Progression
  PROVE  ~ LiteralOnly /\ DeltaGate = "delta"
<1>1. /\ N \in Nat \ {0} /\ Modulus \in Nat \ {0}
      /\ \A i \in 1..N : chunk[i] \in 0..(Modulus - 1)
  BY ChunkFacts, RouteAssumption
<1>2. PICK step \in 1..(Modulus - 1) :
        \A i \in 2..N : chunk[i] = (chunk[i - 1] + step) % Modulus
  BY DEF Progression
<1>3. ASSUME NEW i \in 2..N
      PROVE  chunk[i] # chunk[i - 1] /\ Deltas[i] = step
  <2>1. i - 1 \in 1..N
    BY <1>1
  <2>2. chunk[i - 1] \in 0..(Modulus - 1) /\ step \in 0..(Modulus - 1) /\ step # 0
    BY <1>1, <1>2, <2>1
  <2>3. chunk[i] = (chunk[i - 1] + step) % Modulus
    BY <1>2
  <2>4. Deltas[i] = (chunk[i] - chunk[i - 1]) % Modulus
    BY DeltaEntries
  <2>5. ASSUME NEW a \in 0..(Modulus - 1), NEW b \in 0..(Modulus - 1), b # 0
        PROVE  (a + b) % Modulus # a /\ (((a + b) % Modulus) - a) % Modulus = b
    BY <1>1, <2>5, WrappingSteps
  <2>6. /\ (chunk[i - 1] + step) % Modulus # chunk[i - 1]
        /\ (((chunk[i - 1] + step) % Modulus) - chunk[i - 1]) % Modulus = step
    BY <2>2, <2>5
  <2> QED
    BY <2>3, <2>4, <2>6
<1>4. EqualPairs(chunk) = 0
  BY <1>3, PairsCounted
<1>5. EqualPairs(Deltas) >= N - 2 /\ EqualPairs(Deltas) \in Nat
  <2>1. ASSUME NEW i \in 3..N PROVE Deltas[i] = Deltas[i - 1]
    <3>1. i \in 2..N /\ i - 1 \in 2..N
      BY <1>1
    <3> QED
      BY <1>3, <3>1
  <2> QED
    BY <2>1, PairsCounted
<1>6. PICK n, f \in Nat : n = N /\ f = EqualPairs(Deltas)
  BY <1>1, <1>5
<1>7. n >= 4 /\ f >= n - 2
  BY <1>5, <1>6
<1>8. ~ LiteralOnly
  BY <1>4, <1>6, <1>7 DEF LiteralOnly, AtLeast
<1>9. FewRuns
  BY <1>4, <1>6, <1>7 DEF FewRuns, AtLeast
<1>10. SteadyStride
  BY <1>6, <1>7 DEF SteadyStride, AtLeast
<1>11. DeltaGate = "delta"
  BY <1>9, <1>10, Zenon DEF DeltaGate
<1> QED
  BY <1>8, <1>11

-----------------------------------------------------------------------------
\* The invariant

\* Once scanned, a chunk is where the gates sent it, or where the samples did.
FollowsGates ==
  \/ route = "scan"
  \/ LiteralOnly /\ route = "literals"
  \/ ~ LiteralOnly /\ route = DeltaGate
  \/ ~ LiteralOnly /\ DeltaGate = "sample" /\ route \in {"delta", "plain"}

RouteInv ==
  /\ chunk \in Chunk
  /\ FollowsGates
  /\ sampled \in Seq([first : Nat, past : 0..N])

\* Init => RouteInv.
LEMMA RouteInvInit ==
  ASSUME Init
  PROVE  RouteInv
  BY DEF Init, RouteInv, FollowsGates

\* RouteInv /\ [Next]_vars => RouteInv'.
LEMMA RouteInvNext ==
  ASSUME RouteInv, [Next]_vars
  PROVE  RouteInv'
<1>1. chunk \in Chunk /\ FollowsGates /\ sampled \in Seq([first : Nat, past : 0..N])
  BY DEF RouteInv
<1>2. ASSUME UNCHANGED chunk
      PROVE  N' = N /\ LiteralOnly' = LiteralOnly /\ DeltaGate' = DeltaGate
  BY <1>2 DEF N, LiteralOnly, DeltaGate, FewRuns, SteadyStride, CompactDeltas,
     MinCompactGain, Deltas, EqualPairs, Compact, AtLeast, Below
<1>3. CASE Scan
  <2>1. UNCHANGED <<chunk, sampled>> /\ route' = IF LiteralOnly THEN "literals" ELSE DeltaGate
    BY <1>3 DEF Scan
  <2> QED
    BY <1>1, <1>2, <2>1 DEF RouteInv, FollowsGates
<1>4. CASE Sample
  <2>1. /\ UNCHANGED <<chunk, route>>
        /\ Len(sampled) < Len(SampleRanges)
        /\ sampled' = Append(sampled, SampleRanges[Len(sampled) + 1])
    BY <1>4 DEF Sample
  <2>2. SampleRanges[Len(sampled) + 1] \in [first : Nat, past : 0..N]
    <3>1. Len(sampled) \in Nat
      BY <1>1
    <3>2. Len(sampled) + 1 \in DOMAIN SampleRanges
      BY <1>1, <2>1, <3>1, SamplesWithinChunk
    <3> QED
      BY <1>1, <3>2, SamplesWithinChunk
  <2>3. sampled' \in Seq([first : Nat, past : 0..N])
    BY <1>1, <2>1, <2>2
  <2> QED
    BY <1>1, <1>2, <2>1, <2>3 DEF RouteInv, FollowsGates
<1>5. CASE Compare
  <2>1. route = "sample" /\ route' \in {"delta", "plain"} /\ UNCHANGED <<chunk, sampled>>
    BY <1>5 DEF Compare
  <2> QED
    BY <1>1, <1>2, <2>1 DEF RouteInv, FollowsGates
<1>6. CASE RestoreLiterals \/ RestoreDeltas \/ RestorePlain \/ Returned \/ UNCHANGED vars
  <2>1. UNCHANGED <<chunk, route, sampled>>
    BY <1>6 DEF RestoreLiterals, RestoreDeltas, RestorePlain, Returned, vars
  <2> QED
    BY <1>1, <1>2, <2>1 DEF RouteInv, FollowsGates
<1> QED
  BY <1>3, <1>4, <1>5, <1>6 DEF Next

\* The choices follow the gates in every behaviour.
THEOREM RouteInvariant == Spec => []RouteInv
<1>1. Init => RouteInv
  BY RouteInvInit
<1>2. RouteInv /\ [Next]_vars => RouteInv'
  BY RouteInvNext
<1> QED
  BY <1>1, <1>2, PTL DEF Spec

\* Whatever the word, the thresholds and the chunk: no chunk passes both gates,
\* constant chunks and steady steps go where they are meant to, and no sample
\* reaches outside the chunk.
THEOREM RoutesFit == Spec => []RoutesFitShapes
<1>1. ASSUME RouteInv PROVE RoutesFitShapes
  <2>1. chunk \in Chunk /\ FollowsGates /\ sampled \in Seq([first : Nat, past : 0..N])
    BY <1>1 DEF RouteInv
  <2>2. LiteralOnly => DeltaGate = "plain"
    BY <2>1, GatesExclude
  <2>3. Constant => route \in {"scan", "plain"}
    BY <2>1, ConstantIsPlain DEF FollowsGates
  <2>4. N >= 4 /\ Progression => route \in {"scan", "delta"}
    BY <2>1, ProgressionIsDelta DEF FollowsGates
  <2>5. \A i \in DOMAIN sampled : 0 <= sampled[i].first /\ sampled[i].past <= N
    <3>1. N \in Nat
      BY <2>1, ChunkFacts
    <3>2. ASSUME NEW i \in DOMAIN sampled PROVE sampled[i] \in [first : Nat, past : 0..N]
      <4> DEFINE R == [first : Nat, past : 0..N]
      <4>1. sampled \in Seq(R)
        BY <2>1
      <4> HIDE DEF R
      <4>2. sampled[i] \in R
        BY <4>1, <3>2
      <4> QED
        BY <4>2 DEF R
    <3>3. ASSUME NEW r \in [first : Nat, past : 0..N] PROVE 0 <= r.first /\ r.past <= N
      BY <3>1
    <3> QED
      BY <3>2, <3>3
  <2> QED
    BY <2>2, <2>3, <2>4, <2>5 DEF RoutesFitShapes
<1> QED
  BY <1>1, RouteInvariant, PTL

\* The streams of a chunk stored as literals are never refused.
THEOREM LiteralsAccepted == Spec => [](WellFormed(LiteralStreams, N))
<1>1. RouteInv => WellFormed(LiteralStreams, N)
  BY LiteralsMean DEF RouteInv
<1> QED
  BY <1>1, RouteInvariant, PTL

\* Every route gives the chunk back: the safety part of ChunkIsRestored.
THEOREM RoutesLossless == Spec => Codec!Spec
<1>1. Init => Codec!Init
  BY DEF Init, Codec!Init
<1>2. ASSUME RouteInv, [Next]_vars
      PROVE  [Codec!Next]_(Codec!codecVars)
  <2>1. chunk \in Chunk
    BY <1>2 DEF RouteInv
  <2>2. CASE RestoreLiterals
    <3>1. restored = Pending /\ restored' = Meaning(LiteralStreams, N) /\ UNCHANGED chunk
      BY <2>2 DEF RestoreLiterals
    <3>2. restored' = chunk
      BY <2>1, <3>1, LiteralsMean
    <3> QED
      BY <3>1, <3>2 DEF Codec!Next, Codec!Return
  <2>3. CASE RestoreDeltas
    <3>1. restored = Pending /\ restored' = DecodeDeltas(Deltas) /\ UNCHANGED chunk
      BY <2>3 DEF RestoreDeltas
    <3>2. restored' = chunk
      BY <2>1, <3>1, DeltasRestore
    <3> QED
      BY <3>1, <3>2 DEF Codec!Next, Codec!Return
  <2>4. CASE RestorePlain
    BY <2>4 DEF RestorePlain, Codec!Next, Codec!Return
  <2>5. CASE Scan \/ Sample \/ Compare \/ Returned \/ UNCHANGED vars
    BY <2>5 DEF Scan, Sample, Compare, Returned, vars, Codec!codecVars
  <2> QED
    BY <1>2, <2>2, <2>3, <2>4, <2>5 DEF Next
<1> QED
  BY <1>1, <1>2, RouteInvariant, PTL DEF Spec, Codec!Spec

=============================================================================
