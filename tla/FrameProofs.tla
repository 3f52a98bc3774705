------------------------------ MODULE FrameProofs ------------------------------
(***************************************************************************)
(* Proofs about what a frame is made of and how it is read: FrameDecoder,  *)
(* for every frame, right or wrong; Chunker and FrameRoundTrip, for every  *)
(* input and every limit of the chunker; and Varint, which reads the       *)
(* numbers of a frame, for every input, base and width of the word.        *)
(*                                                                         *)
(* In the decoder the output is always the records read so far, joined,    *)
(* and the joined records never get shorter: so a total that passes the    *)
(* header's count early cannot come back to it, and the checks in the loop *)
(* refuse only what the checks at the end would have refused too.          *)
(*                                                                         *)
(* The varint reader knows, after each byte, which numbers are written     *)
(* with the bytes so far and which could still be meant by all of them.    *)
(***************************************************************************)
EXTENDS FrameRoundTrip, Varint, SequenceTheorems, FiniteSetTheorems,
        WellFoundedInduction, TLAPS

\* A non-empty set of naturals has a least element.
LEMMA LeastNatural ==
  ASSUME NEW S, S \subseteq Nat, S # {}
  PROVE  \E x \in S : \A y \in S : x <= y
<1>1. IsWellFoundedOn(OpToRel(<, Nat), Nat)
  BY NatLessThanWellFounded
<1>2. PICK x \in S : \A y \in S : ~ (<<y, x>> \in OpToRel(<, Nat))
  BY <1>1, WFMin
<1>3. ASSUME NEW y \in S PROVE x <= y
  <2>1. ~ (y < x)
    BY <1>2 DEF OpToRel
  <2> QED
    BY <2>1
<1> QED
  BY <1>3

\* Induction on the numbers up to a bound, for the set of those a formula holds
\* of: the least number outside would have a predecessor inside.
LEMMA InductionUpTo ==
  ASSUME NEW n \in Nat, NEW S, 0 \in S,
         \A k \in 1..n : k - 1 \in S => k \in S
  PROVE  0..n \subseteq S
<1> DEFINE Bad == {k \in 0..n : k \notin S}
<1>1. SUFFICES ASSUME Bad # {} PROVE FALSE
  OBVIOUS
<1>2. PICK m \in Bad : \A k \in Bad : m <= k
  <2>1. Bad \subseteq Nat
    OBVIOUS
  <2> HIDE DEF Bad
  <2> QED
    BY <1>1, <2>1, LeastNatural
<1>3. m \in 1..n /\ m \notin S
  BY <1>2
<1>4. m - 1 \in S
  BY <1>2, <1>3
<1> QED
  BY <1>3, <1>4

-----------------------------------------------------------------------------
\* The records, joined

\* The first k of a list of sequences, joined.
Joined(seqs, k) ==
  IF k = 0 THEN <<>> ELSE
    LET flatten[i \in 1..Len(seqs)] ==
          IF i = 1 THEN seqs[i] ELSE flatten[i - 1] \o seqs[i]
    IN flatten[k]

\* Joining is one sequence after the other, and never makes the result shorter.
LEMMA JoinedGrows ==
  ASSUME NEW S, NEW seqs \in Seq(Seq(S))
  PROVE  /\ FlattenSeq(seqs) = Joined(seqs, Len(seqs))
         /\ Joined(seqs, 0) = <<>>
         /\ \A k \in 1..Len(seqs) : Joined(seqs, k) = Joined(seqs, k - 1) \o seqs[k]
         /\ \A k \in 0..Len(seqs) : Joined(seqs, k) \in Seq(S)
         /\ \A k \in 0..Len(seqs) : \A j \in 0..k :
              Len(Joined(seqs, j)) <= Len(Joined(seqs, k))
<1> DEFINE n == Len(seqs)
           Joins(f, m) == f = [i \in 1..m |-> IF i = 1 THEN seqs[i] ELSE f[i - 1] \o seqs[i]]
           Exist == {m \in 0..n : \E f : Joins(f, m)}
           flat == CHOOSE f : Joins(f, n)
<1>1. n \in Nat /\ \A i \in 1..n : seqs[i] \in Seq(S)
  OBVIOUS
<1>2. 0 \in Exist
  <2> DEFINE f == [i \in 1..0 |-> 0]
  <2>1. Joins(f, 0)
    OBVIOUS
  <2> HIDE DEF f, Joins
  <2> QED
    BY <2>1, <1>1
<1>3. ASSUME NEW m \in 1..n, m - 1 \in Exist PROVE m \in Exist
  <2>1. PICK f : Joins(f, m - 1)
    BY <1>3
  <2> DEFINE last == IF m = 1 THEN seqs[m] ELSE f[m - 1] \o seqs[m]
             g == [i \in 1..m |-> IF i = m THEN last ELSE f[i]]
  <2>2. ASSUME NEW i \in 1..m
        PROVE  g[i] = IF i = 1 THEN seqs[i] ELSE g[i - 1] \o seqs[i]
    <3>1. CASE i = m
      <4>1. m # 1 => m - 1 \in 1..m /\ m - 1 # m
        OBVIOUS
      <4> QED
        BY <3>1, <4>1
    <3>2. CASE i # m
      <4>1. i \in 1..(m - 1) /\ g[i] = f[i]
        BY <3>2
      <4>2. f[i] = IF i = 1 THEN seqs[i] ELSE f[i - 1] \o seqs[i]
        BY <2>1, <4>1
      <4>3. i # 1 => i - 1 \in 1..m /\ i - 1 # m
        BY <4>1
      <4> QED
        BY <4>1, <4>2, <4>3
    <3> QED
      BY <3>1, <3>2
  <2>3. Joins(g, m)
    BY <2>2, Zenon
  <2> HIDE DEF g, Joins
  <2> QED
    BY <2>3, <1>1
<1>4. n \in Exist
  <2> HIDE DEF Exist, n
  <2>1. 0..n \subseteq Exist
    BY <1>1, <1>2, <1>3, InductionUpTo
  <2> QED
    BY <2>1, <1>1
<1>5. Joins(flat, n)
  <2>1. \E f : Joins(f, n)
    BY <1>4
  <2> HIDE DEF Joins
  <2> QED
    BY <2>1
<1>6. \A k \in 1..n : flat[k] = IF k = 1 THEN seqs[k] ELSE flat[k - 1] \o seqs[k]
  <2> HIDE DEF flat
  <2> QED
    BY <1>5
<1>7. \A k : Joined(seqs, k) = IF k = 0 THEN <<>> ELSE flat[k]
  BY DEF Joined
<1>8. FlattenSeq(seqs) = Joined(seqs, n)
  <2>1. CASE n = 0
    <3>1. seqs = <<>>
      BY <2>1
    <3>2. FlattenSeq(seqs) = seqs
      BY <2>1 DEF FlattenSeq
    <3> QED
      BY <2>1, <3>1, <3>2, <1>7
  <2>2. CASE n # 0
    <3>1. FlattenSeq(seqs) = flat[n]
      BY <2>2 DEF FlattenSeq
    <3> QED
      BY <2>2, <3>1, <1>7
  <2> QED
    BY <2>1, <2>2
<1> HIDE DEF flat, n, Joins, Exist
<1> DEFINE Grown(k) ==
             /\ Joined(seqs, k) \in Seq(S)
             /\ \A j \in 0..k : /\ Joined(seqs, j) \in Seq(S)
                               /\ Len(Joined(seqs, j)) <= Len(Joined(seqs, k))
           Good == {k \in 0..n : Grown(k)}
<1>9. Joined(seqs, 0) = <<>>
  BY <1>7
<1>10. ASSUME NEW k \in 1..n
       PROVE  Joined(seqs, k) = Joined(seqs, k - 1) \o seqs[k]
  <2>1. CASE k = 1
    <3>1. Joined(seqs, 1) = seqs[1] /\ Joined(seqs, 0) = <<>>
      BY <2>1, <1>1, <1>6, <1>7
    <3>2. <<>> \o seqs[1] = seqs[1]
      BY <2>1, <1>1, ConcatEmptySeq
    <3>3. k - 1 = 0
      BY <2>1
    <3> QED
      BY <2>1, <3>1, <3>2, <3>3, Zenon
  <2>2. CASE k # 1
    <3>1. k # 0 /\ k - 1 # 0 /\ k \in 1..n
      BY <2>2, <1>1
    <3>2. flat[k] = flat[k - 1] \o seqs[k]
      BY <2>2, <3>1, <1>6
    <3> QED
      BY <3>1, <3>2, <1>7
  <2> QED
    BY <2>1, <2>2
<1>11. Grown(0)
  <2>1. Joined(seqs, 0) \in Seq(S)
    BY <1>9, EmptySeq, Zenon
  <2> QED
    BY <2>1, <1>9
<1>12. ASSUME NEW k \in 1..n, Grown(k - 1) PROVE Grown(k)
  <2>1. /\ Joined(seqs, k - 1) \in Seq(S) /\ seqs[k] \in Seq(S)
        /\ Joined(seqs, k) = Joined(seqs, k - 1) \o seqs[k]
    BY <1>12, <1>1, <1>10
  <2>2. /\ Joined(seqs, k) \in Seq(S)
        /\ Len(Joined(seqs, k)) = Len(Joined(seqs, k - 1)) + Len(seqs[k])
    BY <2>1, ConcatProperties
  <2>3. /\ Len(Joined(seqs, k)) \in Nat /\ Len(Joined(seqs, k - 1)) \in Nat
        /\ Len(seqs[k]) \in Nat
    BY <2>1, <2>2, LenProperties
  <2>4. ASSUME NEW j \in 0..k
        PROVE  /\ Joined(seqs, j) \in Seq(S)
               /\ Len(Joined(seqs, j)) <= Len(Joined(seqs, k))
    <3>1. CASE j = k
      BY <3>1, <2>2, <2>3
    <3>2. CASE j \in 0..(k - 1)
      <4>1. /\ Joined(seqs, j) \in Seq(S)
            /\ Len(Joined(seqs, j)) <= Len(Joined(seqs, k - 1))
        BY <3>2, <1>12
      <4>2. Len(Joined(seqs, j)) \in Nat
        BY <4>1, LenProperties
      <4>3. \A a, b, c, d \in Nat : a <= b /\ d = b + c => a <= d
        OBVIOUS
      <4> QED
        BY <4>1, <4>2, <4>3, <2>2, <2>3, Zenon
    <3> QED
      BY <3>1, <3>2, <1>1
  <2> QED
    BY <2>2, <2>4
<1>13. \A k \in 0..n : Grown(k)
  <2> HIDE DEF Grown
  <2>1. 0 \in Good /\ \A k \in 1..n : k - 1 \in Good => k \in Good
    BY <1>1, <1>11, <1>12
  <2> HIDE DEF Good
  <2>2. 0..n \subseteq Good
    BY <1>1, <2>1, InductionUpTo
  <2> QED
    BY <2>2 DEF Good
<1> QED
  BY <1>1, <1>8, <1>9, <1>10, <1>13 DEF n


\* What every step of the decoder preserves, the verdicts apart: the output is
\* the chunks read so far, joined, and every one of them was a good record.
DecoderInv ==
  /\ frame \in Frame
  /\ status \in {"header", "chunks", "accepted", "rejected"}
  /\ chunksRead \in 0..Len(frame.chunks)
  /\ chunksRead <= frame.chunkCount
  /\ status = "header" => chunksRead = 0
  /\ output = Joined(frame.chunks, chunksRead)
  /\ Len(output) <= frame.numElements
  /\ \A k \in 1..chunksRead : frame.chunks[k] # Refused
  /\ status \in {"chunks", "accepted"} => frame.prologue
  /\ AcceptsExactFrames

\* What a frame is made of.
LEMMA FrameParts ==
  ASSUME frame \in Frame
  PROVE  /\ frame.prologue \in BOOLEAN /\ frame.extra \in BOOLEAN
         /\ frame.numElements \in Nat /\ frame.chunkCount \in Nat
         /\ Len(frame.chunks) \in Nat
         /\ DOMAIN frame.chunks = 1..Len(frame.chunks)
         /\ frame.chunks \in Seq(Seq(Value))
         /\ \A k \in 1..Len(frame.chunks) :
              /\ frame.chunks[k] \in Seq(Value)
              /\ frame.chunks[k] # Refused => Len(frame.chunks[k]) > 0
<1> DEFINE C == Chunk \cup {Refused}
<1>1. /\ frame.prologue \in BOOLEAN /\ frame.extra \in BOOLEAN
      /\ frame.numElements \in Nat /\ frame.chunkCount \in Nat
      /\ frame.chunks \in Seq(C)
  BY DEF Frame
<1>2. ASSUME NEW c \in C PROVE c \in Seq(Value) /\ (c # Refused => Len(c) > 0)
  <2>1. CASE c = Refused
    <3>1. c = <<>> /\ <<>> \in Seq(Value)
      BY <2>1, EmptySeq, Zenon DEF Refused
    <3> QED
      BY <2>1, <3>1
  <2>2. CASE c \in Chunk
    <3>1. PICK n \in 1..MaxChunk : c \in [1..n -> Value]
      BY <2>2 DEF Chunk
    <3>2. n \in Nat /\ n > 0
      BY <3>1, ChunkLimitAssumption
    <3>3. c \in Seq(Value) /\ Len(c) = n
      BY <3>1, <3>2
    <3> QED
      BY <3>2, <3>3
  <2> QED
    BY <2>1, <2>2
<1>3. C \subseteq Seq(Value)
  BY <1>2
<1>4. /\ Len(frame.chunks) \in Nat
      /\ DOMAIN frame.chunks = 1..Len(frame.chunks)
      /\ \A k \in 1..Len(frame.chunks) : frame.chunks[k] \in C
  BY <1>1, LenProperties, ElementOfSeq
<1>5. frame.chunks \in Seq(Seq(Value))
  BY <1>1, <1>3, SeqMonotonic
<1> QED
  BY <1>1, <1>2, <1>4, <1>5

\* The lengths the checks compare: the running total is a part of the whole, and
\* the first good record adds to it.
LEMMA TotalsGrow ==
  ASSUME frame \in Frame
  PROVE  /\ FlattenSeq(frame.chunks) = Joined(frame.chunks, Len(frame.chunks))
         /\ \A k \in 0..Len(frame.chunks) :
              /\ Joined(frame.chunks, k) \in Seq(Value)
              /\ Len(Joined(frame.chunks, k)) \in Nat
              /\ Len(Joined(frame.chunks, k)) <= Len(FlattenSeq(frame.chunks))
         /\ Joined(frame.chunks, 0) = <<>>
         /\ \A k \in 0..(Len(frame.chunks) - 1) :
              /\ Joined(frame.chunks, k + 1) = Joined(frame.chunks, k) \o frame.chunks[k + 1]
              /\ Len(Joined(frame.chunks, k + 1))
                   = Len(Joined(frame.chunks, k)) + Len(frame.chunks[k + 1])
<1> DEFINE cs == frame.chunks
           n == Len(cs)
<1>1. /\ n \in Nat /\ cs \in Seq(Seq(Value))
      /\ \A k \in 1..n : cs[k] \in Seq(Value)
  BY FrameParts
<1> HIDE DEF cs
<1>2. /\ FlattenSeq(cs) = Joined(cs, n)
      /\ Joined(cs, 0) = <<>>
      /\ \A k \in 1..n : Joined(cs, k) = Joined(cs, k - 1) \o cs[k]
      /\ \A k \in 0..n : Joined(cs, k) \in Seq(Value)
      /\ \A k \in 0..n : \A j \in 0..k : Len(Joined(cs, j)) <= Len(Joined(cs, k))
  BY <1>1, JoinedGrows
<1>3. ASSUME NEW k \in 0..n
      PROVE  /\ Joined(cs, k) \in Seq(Value) /\ Len(Joined(cs, k)) \in Nat
             /\ Len(Joined(cs, k)) <= Len(FlattenSeq(cs))
  <2>1. n \in 0..n
    BY <1>1
  <2>2. Joined(cs, k) \in Seq(Value)
    BY <1>2
  <2> QED
    BY <2>1, <2>2, <1>2, LenProperties
<1>4. ASSUME NEW k \in 0..(n - 1)
      PROVE  /\ Joined(cs, k + 1) = Joined(cs, k) \o cs[k + 1]
             /\ Len(Joined(cs, k + 1)) = Len(Joined(cs, k)) + Len(cs[k + 1])
  <2>1. k + 1 \in 1..n /\ (k + 1) - 1 = k /\ k \in 0..n
    BY <1>1
  <2>2. Joined(cs, k + 1) = Joined(cs, k) \o cs[k + 1]
    BY <2>1, <1>2
  <2>3. Joined(cs, k) \in Seq(Value) /\ cs[k + 1] \in Seq(Value)
    BY <2>1, <1>1, <1>2
  <2> QED
    BY <2>2, <2>3, ConcatProperties
<1> QED
  BY <1>2, <1>3, <1>4 DEF cs

\* A frame without fault announces no chunk just when it announces no element.
LEMMA ExactCounts ==
  ASSUME frame \in Frame, Exact(frame)
  PROVE  (frame.chunkCount = 0) = (frame.numElements = 0)
<1>1. /\ frame.chunkCount = Len(frame.chunks)
      /\ \A k \in 1..Len(frame.chunks) : frame.chunks[k] # Refused
      /\ Len(FlattenSeq(frame.chunks)) = frame.numElements
  BY FrameParts DEF Exact
<1>2. CASE Len(frame.chunks) = 0
  BY <1>1, <1>2, TotalsGrow
<1>3. CASE Len(frame.chunks) # 0
  <2>1. 1 \in 1..Len(frame.chunks) /\ 0 \in 0..(Len(frame.chunks) - 1)
    BY <1>3, FrameParts
  <2>2. Len(frame.chunks[1]) > 0 /\ Len(frame.chunks[1]) \in Nat
    <3>1. frame.chunks[1] \in Seq(Value) /\ Len(frame.chunks[1]) > 0
      BY <2>1, <1>1, FrameParts
    <3> QED
      BY <3>1, LenProperties
  <2>3. Len(Joined(frame.chunks, 0 + 1)) = 0 + Len(frame.chunks[0 + 1])
    BY <2>1, TotalsGrow
  <2>4. 1 \in 0..Len(frame.chunks) /\ 0 + 1 = 1
    BY <2>1
  <2>5. Len(frame.chunks[1]) <= Len(FlattenSeq(frame.chunks))
    BY <2>2, <2>3, <2>4, TotalsGrow
  <2> QED
    BY <1>1, <1>3, <2>2, <2>5, FrameParts
<1> QED
  BY <1>2, <1>3

LEMMA DecoderInvInit ==
  ASSUME DecoderInit
  PROVE  DecoderInv
<1>1. frame \in Frame /\ status = "header" /\ chunksRead = 0 /\ output = <<>>
  BY DEF DecoderInit, Fresh
<1>2. /\ Len(frame.chunks) \in Nat /\ frame.chunkCount \in Nat
      /\ frame.numElements \in Nat /\ Joined(frame.chunks, 0) = <<>>
  BY <1>1, FrameParts, TotalsGrow
<1> QED
  BY <1>1, <1>2 DEF DecoderInv, AcceptsExactFrames

LEMMA DecoderInvNext ==
  ASSUME DecoderInv, [DecoderNext]_decoderVars
  PROVE  DecoderInv'
<1> DEFINE cs == frame.chunks
           k == chunksRead
<1>1. /\ frame \in Frame /\ k \in 0..Len(cs) /\ k <= frame.chunkCount
      /\ output = Joined(cs, k) /\ Len(output) <= frame.numElements
      /\ \A i \in 1..k : cs[i] # Refused
  BY DEF DecoderInv
<1>2. /\ frame.numElements \in Nat /\ frame.chunkCount \in Nat /\ Len(cs) \in Nat
      /\ DOMAIN cs = 1..Len(cs)
  BY <1>1, FrameParts
<1>3. CASE ReadHeader
  <2>1. /\ frame' = frame /\ chunksRead' = k /\ output' = output /\ status = "header"
        /\ status' \in {"chunks", "rejected"}
        /\ status' = "chunks" => frame.prologue
        /\ status' = "rejected" =>
             ~ (frame.prologue /\ (frame.chunkCount = 0) = (frame.numElements = 0))
    BY <1>3 DEF ReadHeader
  <2>2. status' = "rejected" => ~ Exact(frame)
    <3>1. Exact(frame) => frame.prologue
      BY DEF Exact
    <3> QED
      BY <2>1, <3>1, <1>1, ExactCounts
  <2>3. AcceptsExactFrames'
    BY <2>1, <2>2 DEF AcceptsExactFrames, Exact
  <2> QED
    BY <2>1, <2>3 DEF DecoderInv
<1>4. CASE DecodeChunk
  <2>1. /\ frame' = frame /\ chunksRead' = k + 1 /\ output' = output \o cs[k + 1]
        /\ status = "chunks" /\ status' = "chunks"
        /\ k < frame.chunkCount /\ k < Len(cs) /\ cs[k + 1] # Refused
        /\ Len(output) + Len(cs[k + 1]) <= frame.numElements
    BY <1>4 DEF DecodeChunk, ChunkFits
  <2>2. k \in 0..(Len(cs) - 1) /\ k + 1 \in 0..Len(cs) /\ k + 1 <= frame.chunkCount
    BY <2>1, <1>1, <1>2
  <2>3. output' = Joined(cs, k + 1) /\ Len(output') <= frame.numElements
    BY <2>1, <2>2, <1>1, TotalsGrow
  <2>4. \A i \in 1..(k + 1) : cs[i] # Refused
    BY <2>1, <1>1, <1>2
  <2>5. AcceptsExactFrames'
    BY <2>1 DEF AcceptsExactFrames
  <2>6. frame'.chunks = cs
    BY <2>1
  <2> HIDE DEF cs
  <2> QED
    BY <2>1, <2>2, <2>3, <2>4, <2>5, <2>6 DEF DecoderInv
<1>5. CASE RejectChunk
  <2>1. /\ frame' = frame /\ chunksRead' = k /\ output' = output /\ status' = "rejected"
        /\ k < frame.chunkCount
        /\ k < Len(cs) /\ cs[k + 1] # Refused =>
             ~ (Len(output) + Len(cs[k + 1]) <= frame.numElements)
    BY <1>5 DEF RejectChunk, ChunkFits
  <2>2. ~ Exact(frame)
    <3>1. SUFFICES ASSUME Exact(frame) PROVE FALSE
      OBVIOUS
    <3>2. /\ frame.chunkCount = Len(cs)
          /\ \A i \in 1..Len(cs) : cs[i] # Refused
          /\ Len(FlattenSeq(cs)) = frame.numElements
      BY <3>1, <1>2 DEF Exact
    <3>3. /\ k \in 0..(Len(cs) - 1) /\ k + 1 \in 1..Len(cs) /\ k + 1 \in 0..Len(cs)
          /\ k < Len(cs)
      BY <3>2, <2>1, <1>1, <1>2
    <3>4. /\ Len(Joined(cs, k + 1)) = Len(output) + Len(cs[k + 1])
          /\ Len(Joined(cs, k + 1)) <= Len(FlattenSeq(cs))
      BY <3>3, <1>1, TotalsGrow
    <3> HIDE DEF cs, k
    <3> QED
      BY <2>1, <3>2, <3>3, <3>4
  <2>3. AcceptsExactFrames'
    BY <2>1, <2>2 DEF AcceptsExactFrames, Exact
  <2> QED
    BY <2>1, <2>3 DEF DecoderInv
<1>6. CASE Finish
  <2>1. /\ frame' = frame /\ chunksRead' = k /\ output' = output /\ status = "chunks"
        /\ k = frame.chunkCount
        /\ status' = IF TotalsAgree THEN "accepted" ELSE "rejected"
    BY <1>6 DEF Finish
  <2>2. frame.prologue /\ frame.prologue \in BOOLEAN
    BY <2>1, <1>1, FrameParts DEF DecoderInv
  <2>3. k = Len(cs) => FlattenSeq(cs) = output
    BY <1>1, TotalsGrow
  <2>4. TotalsAgree => Exact(frame) /\ output = FlattenSeq(cs)
    BY <2>1, <2>2, <2>3, <1>1, <1>2 DEF TotalsAgree, Exact
  <2>5. Exact(frame) => TotalsAgree
    BY <2>1, <2>3, <1>2 DEF TotalsAgree, Exact
  <2>6. AcceptsExactFrames'
    BY <2>1, <2>4, <2>5 DEF AcceptsExactFrames, Exact
  <2>7. status' \in {"accepted", "rejected"}
    BY <2>1
  <2> QED
    BY <2>1, <2>2, <2>6, <2>7 DEF DecoderInv
<1>7. CASE Returned \/ UNCHANGED decoderVars
  <2>1. /\ frame' = frame /\ chunksRead' = k /\ output' = output /\ status' = status
    BY <1>7 DEF Returned, decoderVars
  <2>2. AcceptsExactFrames'
    BY <2>1 DEF DecoderInv, AcceptsExactFrames, Exact
  <2> QED
    BY <2>1, <2>2 DEF DecoderInv
<1> QED
  BY <1>3, <1>4, <1>5, <1>6, <1>7 DEF DecoderNext, DecoderStep

-----------------------------------------------------------------------------
\* Theorems

\* On any frame, right or wrong, the decoder's output is the chunks read so far.
THEOREM DecoderInvariant == DecoderSpec => []DecoderInv
<1>1. DecoderInit => DecoderInv
  BY DecoderInvInit
<1>2. DecoderInv /\ [DecoderNext]_decoderVars => DecoderInv'
  BY DecoderInvNext
<1> QED
  BY <1>1, <1>2, PTL DEF DecoderSpec

\* decompress_u32 never holds more elements than the header announced, whatever
\* the frame is.
THEOREM DecoderTyped == DecoderSpec => []DecoderTypeOK
<1>1. DecoderInv => DecoderTypeOK
  BY TotalsGrow DEF DecoderInv, DecoderTypeOK
<1> QED
  BY <1>1, DecoderInvariant, PTL

\* decompress_u32 accepts exactly the frames without fault, and returns their
\* chunks in order: no check is missing and none is too strict.
THEOREM DecoderExact == DecoderSpec => []AcceptsExactFrames
<1>1. DecoderInv => AcceptsExactFrames
  BY DEF DecoderInv
<1> QED
  BY <1>1, DecoderInvariant, PTL

-----------------------------------------------------------------------------
\* The chunker and the round trip


\* The strengthening of the chunker's properties that every step preserves:
\* no range ends beyond start, and until a cut is taken all windows but the
\* last are full.
ChunkerInv ==
  /\ input \in Input
  /\ refined \in BOOLEAN
  /\ RangesTileInput
  /\ CutHeadFitsCode
  /\ \A i \in DOMAIN ranges : ranges[i].past <= start
  /\ ~ refined /\ start < Len(input) =>
       \A i \in DOMAIN ranges : ranges[i].past = ranges[i].first + MaxChunk

\* CutHeadFitsCode with the variables as parameters, so that a step that keeps
\* the input keeps what is said of its values.
ValuesOf(s, first, past) == {s[p + 1] : p \in first..(past - 1)}

CutFits(s, flag, rs) ==
  /\ flag = \E i \in DOMAIN rs : rs[i].cut
  /\ \A i \in DOMAIN rs :
       rs[i].cut =>
         /\ Cardinality(ValuesOf(s, rs[i].first, rs[i].past)) = DictCap
         /\ Cardinality(ValuesOf(s, rs[i].first, rs[i].past + 1)) > DictCap
         /\ rs[i].past - rs[i].first > DictCap
         /\ \A j \in 1..(i - 1) :
              ~ rs[j].cut /\ rs[j].past = rs[j].first + MaxChunk
         /\ \A j \in (i + 1)..Len(rs) :
              ~ rs[j].cut /\ rs[j].past <= rs[j].first + RefinedChunk

LEMMA CutFitsNow == CutHeadFitsCode = CutFits(input, refined, ranges)
  BY DEF CutHeadFitsCode, CutFits, ValuesIn, ValuesOf

LEMMA CutFitsNext == CutHeadFitsCode' = CutFits(input', refined', ranges')
  BY DEF CutHeadFitsCode, CutFits, ValuesIn, ValuesOf

-----------------------------------------------------------------------------
\* Lemmas about values and positions

\* The distinct values of a stretch of the input are finitely many.
LEMMA ValuesAreFinite ==
  ASSUME NEW first \in Int, NEW past \in Int
  PROVE  IsFiniteSet(ValuesIn(first, past))
<1> DEFINE P == first..(past - 1)
           V == ValuesIn(first, past)
           f == [p \in P |-> input[p + 1]]
<1>1. f \in Surjection(P, V)
  BY DEF ValuesIn, Surjection
<1>2. IsFiniteSet(P)
  BY FS_Interval
<1> HIDE DEF P, V, f
<1>3. IsFiniteSet(V)
  BY <1>1, <1>2, FS_Surjection
<1> QED
  BY <1>3 DEF V

\* One value more, and a new one, makes the stretch one distinct value richer.
LEMMA NewValueCounts ==
  ASSUME NEW first \in Nat, NEW past \in Nat, first <= past,
         input[past + 1] \notin ValuesIn(first, past)
  PROVE  Cardinality(ValuesIn(first, past + 1)) = Cardinality(ValuesIn(first, past)) + 1
<1>1. ValuesIn(first, past + 1) = ValuesIn(first, past) \cup {input[past + 1]}
  <2>1. first..(past + 1 - 1) = first..(past - 1) \cup {past}
    OBVIOUS
  <2> QED
    BY <2>1 DEF ValuesIn
<1>2. IsFiniteSet(ValuesIn(first, past))
  BY ValuesAreFinite
<1> QED
  BY <1>1, <1>2, FS_AddElement

\* The facts about lengths and limits the steps below use.
LEMMA ChunkerFacts ==
  ASSUME ChunkerInv
  PROVE  /\ input \in Seq(Value) /\ Len(input) \in Nat
         /\ start \in Nat /\ start <= Len(input)
         /\ ranges \in Seq(ChunkRange) /\ Len(ranges) \in Nat
         /\ DOMAIN ranges = 1..Len(ranges)
         /\ \A i \in DOMAIN ranges :
              /\ ranges[i].first \in Nat /\ ranges[i].past \in Nat
              /\ ranges[i].cut \in BOOLEAN
         /\ MaxChunk \in Nat /\ RefinedChunk \in Nat \ {0} /\ RefinedChunk <= MaxChunk
<1>1. input \in Seq(Value) /\ Len(input) \in Nat
  BY ChunkerAssumption DEF ChunkerInv
<1>2. start \in Nat /\ start <= Len(input)
  BY <1>1 DEF ChunkerInv, RangesTileInput
<1>3. ranges \in Seq(ChunkRange) /\ Len(ranges) \in Nat /\ DOMAIN ranges = 1..Len(ranges)
  BY DEF ChunkerInv, RangesTileInput
<1>4. \A i \in DOMAIN ranges : ranges[i] \in ChunkRange
  BY <1>3
<1> QED
  BY <1>1, <1>2, <1>3, <1>4, ChunkerAssumption, ChunkLimitAssumption DEF ChunkRange

-----------------------------------------------------------------------------
\* One range more

\* What CutHeadFitsCode says of one cut range by itself.
HeadFits(first, past) ==
  /\ Cardinality(ValuesIn(first, past)) = DictCap
  /\ Cardinality(ValuesIn(first, past + 1)) > DictCap
  /\ past - first > DictCap

\* A range that is not empty, not too long and inside the input, refined when
\* the flag is set, fit for a dictionary when it is a cut, and full when it is
\* neither nor the last, keeps all that was established.
LEMMA AddRangeKeeps ==
  ASSUME ChunkerInv, NEW past \in Nat, NEW cut \in BOOLEAN, AddRange(past, cut),
         start < Len(input), start < past,
         past <= Len(input), past <= start + MaxChunk,
         refined => ~ cut /\ past <= start + RefinedChunk,
         cut => HeadFits(start, past),
         ~ refined /\ ~ cut /\ past < Len(input) => past = start + MaxChunk
  PROVE  ChunkerInv'
<1> DEFINE n == Len(ranges)
           r == [first |-> start, past |-> past, cut |-> cut]
<1>1. /\ input' = input /\ start' = past /\ refined' = (refined \/ cut)
      /\ ranges' = Append(ranges, r)
  BY DEF AddRange
<1>2. /\ input \in Seq(Value) /\ Len(input) \in Nat /\ start \in Nat
      /\ ranges \in Seq(ChunkRange) /\ n \in Nat /\ DOMAIN ranges = 1..n
      /\ \A i \in 1..n :
           /\ ranges[i].first \in Nat /\ ranges[i].past \in Nat
           /\ ranges[i].cut \in BOOLEAN
      /\ MaxChunk \in Nat /\ RefinedChunk \in Nat
  BY ChunkerFacts
<1>3. r \in ChunkRange
  BY <1>2 DEF ChunkRange
<1>4. /\ ranges' \in Seq(ChunkRange) /\ Len(ranges') = n + 1
      /\ DOMAIN ranges' = 1..(n + 1)
      /\ \A i \in 1..n : ranges'[i] = ranges[i]
      /\ ranges'[n + 1] = r
  BY <1>1, <1>2, <1>3
<1>5. \A i \in DOMAIN ranges' : i = n + 1 \/ i \in 1..n
  BY <1>2, <1>4
<1> HIDE DEF r
<1>r. r.first = start /\ r.past = past /\ r.cut = cut
  BY DEF r
<1>6. RangesTileInput'
  <2>1. start' \in 0..Len(input')
    BY <1>1, <1>2
  <2>2. ranges' # <<>>
    BY <1>4, <1>2
  <2>3. ranges'[1].first = 0
    <3>1. CASE n = 0
      BY <3>1, <1>4, <1>r DEF ChunkerInv, RangesTileInput
    <3>2. CASE n # 0
      <4>1. 1 \in 1..n /\ ranges # <<>>
        BY <3>2, <1>2
      <4> QED
        BY <4>1, <1>4 DEF ChunkerInv, RangesTileInput
    <3> QED
      BY <3>1, <3>2
  <2>4. ranges'[Len(ranges')].past = start'
    BY <1>1, <1>4, <1>r
  <2>5. ASSUME NEW i \in DOMAIN ranges'
        PROVE  /\ ranges'[i].first < ranges'[i].past
               /\ ranges'[i].past <= ranges'[i].first + MaxChunk
               /\ i > 1 => ranges'[i].first = ranges'[i - 1].past
    <3>1. CASE i = n + 1
      <4>1. ranges'[i].first = start /\ ranges'[i].past = past
        BY <3>1, <1>4, <1>r
      <4>2. ASSUME i > 1 PROVE start = ranges'[i - 1].past
        <5>1. i - 1 = n /\ n \in 1..n /\ ranges # <<>>
          BY <3>1, <4>2, <1>2
        <5> QED
          BY <5>1, <1>4 DEF ChunkerInv, RangesTileInput
      <4> QED
        BY <4>1, <4>2
    <3>2. CASE i \in 1..n
      <4>1. i > 1 => i - 1 \in 1..n
        BY <3>2, <1>2
      <4> QED
        BY <3>2, <4>1, <1>2, <1>4 DEF ChunkerInv, RangesTileInput
    <3> QED
      BY <3>1, <3>2, <1>5
  <2> QED
    BY <2>1, <2>2, <2>3, <2>4, <2>5, <1>4 DEF RangesTileInput
<1>7. \A i \in DOMAIN ranges' : ranges'[i].past <= start'
  <2>1. \A i \in 1..n : ranges[i].past <= past
    BY <1>2 DEF ChunkerInv
  <2> QED
    BY <2>1, <1>1, <1>2, <1>4, <1>5, <1>r
<1>8. ASSUME ~ refined', start' < Len(input')
      PROVE  \A i \in DOMAIN ranges' : ranges'[i].past = ranges'[i].first + MaxChunk
  <2>1. ~ refined /\ ~ cut /\ past < Len(input)
    BY <1>8, <1>1
  <2>2. \A i \in 1..n : ranges[i].past = ranges[i].first + MaxChunk
    BY <2>1, <1>2 DEF ChunkerInv
  <2>3. past = start + MaxChunk
    BY <2>1
  <2> QED
    BY <2>2, <2>3, <1>4, <1>5, <1>r
<1>9. CutHeadFitsCode'
  <2>1. refined = \E i \in 1..n : ranges[i].cut
    BY <1>2 DEF ChunkerInv, CutHeadFitsCode
  <2>2. refined' = \E i \in DOMAIN ranges' : ranges'[i].cut
    <3>1. (\E i \in DOMAIN ranges' : ranges'[i].cut)
            <=> (\E i \in 1..n : ranges[i].cut) \/ cut
      BY <1>2, <1>4, <1>5, <1>r, SMTT(30)
    <3>2. (\E i \in DOMAIN ranges' : ranges'[i].cut) \in BOOLEAN
      OBVIOUS
    <3> QED
      BY <2>1, <3>1, <3>2, <1>1
  <2>4. ASSUME NEW i \in DOMAIN ranges', ranges'[i].cut
        PROVE  /\ Cardinality(ValuesOf(input, ranges'[i].first, ranges'[i].past)) = DictCap
               /\ Cardinality(ValuesOf(input, ranges'[i].first, ranges'[i].past + 1)) > DictCap
               /\ ranges'[i].past - ranges'[i].first > DictCap
               /\ \A j \in 1..(i - 1) :
                    ~ ranges'[j].cut /\ ranges'[j].past = ranges'[j].first + MaxChunk
               /\ \A j \in (i + 1)..Len(ranges') :
                    ~ ranges'[j].cut /\ ranges'[j].past <= ranges'[j].first + RefinedChunk
    <3>1. CASE i = n + 1
      <4>1. cut /\ ~ refined /\ HeadFits(start, past)
        BY <3>1, <2>4, <1>4, <1>r
      <4>2. \A j \in 1..n : ~ ranges[j].cut /\ ranges[j].past = ranges[j].first + MaxChunk
        BY <4>1, <2>1, <1>2 DEF ChunkerInv
      <4>3. \A j \in 1..(i - 1) :
              ~ ranges'[j].cut /\ ranges'[j].past = ranges'[j].first + MaxChunk
        BY <4>2, <3>1, <1>2, <1>4
      <4>4. (i + 1)..Len(ranges') = {}
        BY <3>1, <1>2, <1>4
      <4>5. ranges'[i].first = start /\ ranges'[i].past = past
        BY <3>1, <1>4, <1>r
      <4> QED
        BY <4>1, <4>3, <4>4, <4>5 DEF HeadFits, ValuesIn, ValuesOf
    <3>2. CASE i \in 1..n
      <4>1. /\ ranges[i].cut /\ ranges'[i] = ranges[i]
            /\ refined /\ ~ cut /\ past <= start + RefinedChunk
        BY <3>2, <2>4, <2>1, <1>4
      <4>2. /\ Cardinality(ValuesOf(input, ranges[i].first, ranges[i].past)) = DictCap
            /\ Cardinality(ValuesOf(input, ranges[i].first, ranges[i].past + 1)) > DictCap
            /\ ranges[i].past - ranges[i].first > DictCap
            /\ \A j \in 1..(i - 1) :
                 ~ ranges[j].cut /\ ranges[j].past = ranges[j].first + MaxChunk
            /\ \A j \in (i + 1)..n :
                 ~ ranges[j].cut /\ ranges[j].past <= ranges[j].first + RefinedChunk
        BY <3>2, <4>1, <1>2, CutFitsNow DEF ChunkerInv, CutFits
      <4>3. \A j \in 1..(i - 1) :
              ~ ranges'[j].cut /\ ranges'[j].past = ranges'[j].first + MaxChunk
        <5>1. \A j \in 1..(i - 1) : j \in 1..n
          BY <3>2, <1>2
        <5> QED
          BY <5>1, <4>2, <1>4
      <4>4. ASSUME NEW j \in (i + 1)..Len(ranges')
            PROVE  ~ ranges'[j].cut /\ ranges'[j].past <= ranges'[j].first + RefinedChunk
        <5>1. CASE j = n + 1
          BY <5>1, <4>1, <1>4, <1>r
        <5>2. CASE j \in (i + 1)..n
          <6>1. j \in 1..n
            BY <5>2, <3>2, <1>2
          <6> QED
            BY <5>2, <6>1, <4>2, <1>4
        <5> QED
          BY <5>1, <5>2, <3>2, <1>2, <1>4
      <4> QED
        BY <4>1, <4>2, <4>3, <4>4
    <3> QED
      BY <3>1, <3>2, <1>5
  <2> QED
    BY <2>2, <2>4, <1>1, CutFitsNext DEF CutFits
<1> QED
  BY <1>1, <1>6, <1>7, <1>8, <1>9 DEF ChunkerInv

\* Where a window ends: inside the input, after its start, within the limit.
LEMMA HardEndBounds ==
  ASSUME ChunkerInv, start < Len(input)
  PROVE  /\ HardEnd \in Nat /\ start < HardEnd /\ HardEnd <= Len(input)
         /\ HardEnd <= start + MaxChunk
         /\ refined => HardEnd <= start + RefinedChunk
         /\ ~ refined /\ HardEnd < Len(input) => HardEnd = start + MaxChunk
  BY ChunkerFacts DEF HardEnd, Smaller, ChunkerInv

\* Cutting a head keeps the invariant.
LEMMA CutHeadKeeps ==
  ASSUME ChunkerInv, CutHead
  PROVE  ChunkerInv'
<1>1. PICK cut \in CutPositions : AddRange(cut, TRUE)
  BY DEF CutHead
<1>2. /\ start < Len(input) /\ ~ refined /\ start \in Nat /\ Len(input) \in Nat
      /\ MaxChunk \in Nat
  BY ChunkerFacts DEF CutHead
<1>3. /\ HardEnd \in Nat /\ HardEnd <= Len(input) /\ HardEnd <= start + MaxChunk
  BY <1>2, HardEndBounds
<1>4. /\ cut \in start..(HardEnd - 1)
      /\ Cardinality(ValuesIn(start, cut)) = DictCap
      /\ input[cut + 1] \notin ValuesIn(start, cut)
      /\ cut - start >= MinHead
  BY DEF CutPositions
<1>5. cut \in Nat /\ cut < HardEnd /\ start <= cut
  BY <1>2, <1>3, <1>4
<1>6. cut - start > DictCap /\ start < cut /\ DictCap \in Nat
  BY <1>2, <1>4, <1>5, ChunkerAssumption
<1>7. HeadFits(start, cut)
  <2>1. Cardinality(ValuesIn(start, cut + 1)) = DictCap + 1
    BY <1>2, <1>4, <1>5, NewValueCounts
  <2> QED
    BY <2>1, <1>4, <1>6 DEF HeadFits
<1>8. cut <= Len(input) /\ cut <= start + MaxChunk
  BY <1>2, <1>3, <1>5
<1> QED
  BY <1>1, <1>2, <1>5, <1>6, <1>7, <1>8, AddRangeKeeps

\* Taking a whole window keeps the invariant.
LEMMA TakeWindowKeeps ==
  ASSUME ChunkerInv, TakeWindow
  PROVE  ChunkerInv'
<1>1. start < Len(input) /\ AddRange(HardEnd, FALSE)
  BY DEF TakeWindow
<1> QED
  BY <1>1, HardEndBounds, AddRangeKeeps

\* It holds before the first range.
LEMMA ChunkerInvInit ==
  ASSUME ChunkerInit
  PROVE  ChunkerInv
<1>1. Len(input) \in Nat
  BY ChunkerAssumption DEF ChunkerInit
<1>2. ranges = <<>> /\ DOMAIN ranges = {} /\ ranges \in Seq(ChunkRange)
  BY DEF ChunkerInit
<1>3. input \in Input /\ start = 0 /\ refined = FALSE
  BY DEF ChunkerInit
<1>4. RangesTileInput
  BY <1>1, <1>2, <1>3 DEF RangesTileInput
<1>5. CutHeadFitsCode
  <2>1. refined = \E i \in DOMAIN ranges : ranges[i].cut
    BY <1>2, <1>3
  <2> QED
    BY <2>1, <1>2 DEF CutHeadFitsCode
<1> QED
  BY <1>2, <1>3, <1>4, <1>5 DEF ChunkerInv

\* A step that leaves the chunker alone keeps it.
LEMMA ChunkerUnchanged ==
  ASSUME ChunkerInv, UNCHANGED chunkerVars
  PROVE  ChunkerInv'
<1>1. input' = input /\ start' = start /\ refined' = refined /\ ranges' = ranges
  BY DEF chunkerVars
<1>2. RangesTileInput'
  BY <1>1 DEF ChunkerInv, RangesTileInput
<1>3. CutHeadFitsCode'
  BY <1>1, CutFitsNow, CutFitsNext DEF ChunkerInv
<1> QED
  BY <1>1, <1>2, <1>3 DEF ChunkerInv

-----------------------------------------------------------------------------
\* The composition

\* Where the first k ranges end.
Past(k) == IF k = 0 THEN 0 ELSE ranges[k].past

\* What of the frame exists, as the writer goes on.
FrameInv ==
  /\ writing \in {"ranges", "chunks", "written"}
  /\ writing = "ranges" => frame = NoFrame
  /\ writing # "ranges" =>
       /\ start = Len(input)
       /\ frame = [prologue |-> TRUE, numElements |-> Len(input),
                   chunkCount |-> Len(ranges), chunks |-> frame.chunks, extra |-> FALSE]
       /\ frame.chunks \in Seq(Seq(Value))
       /\ Len(frame.chunks) <= Len(ranges)
       /\ \A i \in 1..Len(frame.chunks) : frame.chunks[i] = ChunkAt(ranges[i])
  /\ writing = "written" => Len(frame.chunks) = Len(ranges)

\* What the reader has of it: it starts when the frame is closed, refuses
\* nothing, and its output is the input up to the end of the last range read.
ReaderInv ==
  /\ status \in {"header", "chunks", "accepted"}
  /\ writing # "written" => status = "header"
  /\ status = "header" => chunksRead = 0
  /\ chunksRead \in 0..Len(ranges)
  /\ output = SubSeq(input, 1, Past(chunksRead))
  /\ status = "accepted" => output = input

RoundTripInv == ChunkerInv /\ FrameInv /\ ReaderInv

\* Ranges end where they should: in order, the last one with the input once
\* all of it is covered, and there is none just for the empty input.
LEMMA RangeEnds ==
  ASSUME ChunkerInv
  PROVE  /\ \A k \in 0..Len(ranges) : Past(k) \in Nat /\ Past(k) <= Len(input)
         /\ \A k \in 0..(Len(ranges) - 1) :
              /\ ranges[k + 1].first = Past(k)
              /\ Past(k) < Past(k + 1)
         /\ Past(Len(ranges)) = start
         /\ (Len(ranges) = 0) = (start = 0)
<1> DEFINE n == Len(ranges)
<1>1. /\ Len(input) \in Nat /\ start \in Nat /\ start <= Len(input)
      /\ n \in Nat /\ DOMAIN ranges = 1..n /\ ranges \in Seq(ChunkRange)
      /\ \A i \in 1..n : ranges[i].first \in Nat /\ ranges[i].past \in Nat
  BY ChunkerFacts
<1>2. \A i \in 1..n : ranges[i].past <= start
  BY <1>1 DEF ChunkerInv
<1>3. \A i \in 1..n :
        /\ ranges[i].first < ranges[i].past
        /\ i > 1 => ranges[i].first = ranges[i - 1].past
  BY <1>1 DEF ChunkerInv, RangesTileInput
<1>4. n = 0 => ranges = <<>> /\ start = 0
  BY <1>1 DEF ChunkerInv, RangesTileInput
<1>5. n # 0 => ranges[1].first = 0 /\ ranges[n].past = start
  <2>1. n # 0 => ranges # <<>>
    BY <1>1
  <2> QED
    BY <2>1 DEF ChunkerInv, RangesTileInput
<1> HIDE DEF n
<1>6. ASSUME NEW k \in 0..n
      PROVE  Past(k) \in Nat /\ Past(k) <= Len(input)
  <2>1. CASE k = 0
    BY <2>1, <1>1 DEF Past
  <2>2. CASE k \in 1..n
    BY <2>2, <1>1, <1>2 DEF Past
  <2> QED
    BY <2>1, <2>2, <1>1
<1>7. ASSUME NEW k \in 0..(n - 1)
      PROVE  ranges[k + 1].first = Past(k) /\ Past(k) < Past(k + 1)
  <2>1. k + 1 \in 1..n
    BY <1>1
  <2>2. ranges[k + 1].first = Past(k)
    <3>1. CASE k = 0
      BY <3>1, <1>1, <1>5 DEF Past
    <3>2. CASE k # 0
      <4>1. k + 1 > 1 /\ (k + 1) - 1 = k
        BY <3>2, <1>1
      <4> QED
        BY <4>1, <2>1, <1>3, <3>2 DEF Past
    <3> QED
      BY <3>1, <3>2
  <2>3. Past(k + 1) = ranges[k + 1].past
    BY <2>1, <1>1 DEF Past
  <2> QED
    BY <2>1, <2>2, <2>3, <1>3
<1>8. Past(n) = start
  BY <1>4, <1>5 DEF Past
<1>9. (n = 0) = (start = 0)
  <2>1. ASSUME n # 0 PROVE start # 0
    <3>1. n \in 1..n
      BY <2>1, <1>1
    <3> QED
      BY <3>1, <2>1, <1>1, <1>3, <1>5
  <2> QED
    BY <2>1, <1>4
<1> QED
  BY <1>6, <1>7, <1>8, <1>9 DEF n

\* A prefix and the stretch right after it make the longer prefix.
LEMMA PrefixGrows ==
  ASSUME NEW s \in Seq(Value), NEW a \in Nat, NEW b \in Nat, a <= b, b <= Len(s)
  PROVE  /\ SubSeq(s, 1, a) \o SubSeq(s, a + 1, b) = SubSeq(s, 1, b)
         /\ SubSeq(s, a + 1, b) \in Seq(Value)
         /\ Len(SubSeq(s, 1, a)) = a /\ Len(SubSeq(s, a + 1, b)) = b - a
<1> DEFINE p == SubSeq(s, 1, a)
           q == SubSeq(s, a + 1, b)
           w == SubSeq(s, 1, b)
<1>1. p \in Seq(Value) /\ Len(p) = a /\ \A i \in 1..a : p[i] = s[i]
  OBVIOUS
<1>2. q \in Seq(Value) /\ Len(q) = b - a /\ \A i \in 1..(b - a) : q[i] = s[a + i]
  OBVIOUS
<1>3. w \in Seq(Value) /\ Len(w) = b /\ \A i \in 1..b : w[i] = s[i]
  OBVIOUS
<1> HIDE DEF p, q, w
<1>4. p \o q \in Seq(Value) /\ Len(p \o q) = b
  <2>1. p \o q \in Seq(Value) /\ Len(p \o q) = Len(p) + Len(q)
    BY <1>1, <1>2, ConcatProperties, ZenonT(30)
  <2> QED
    BY <2>1, <1>1, <1>2
<1>5. \A i \in 1..b : (p \o q)[i] = s[i]
  <2>1. \A i \in 1..b : (p \o q)[i] = IF i <= a THEN p[i] ELSE q[i - a]
    BY <1>1, <1>2, ConcatProperties
  <2> QED
    BY <2>1, <1>1, <1>2
<1>6. p \o q = w
  BY <1>3, <1>4, <1>5, SeqEqual
<1> QED
  BY <1>1, <1>2, <1>6 DEF p, q, w

\* The whole of a sequence is its longest prefix, the empty one its shortest.
LEMMA WholePrefix ==
  ASSUME NEW s \in Seq(Value)
  PROVE  SubSeq(s, 1, Len(s)) = s /\ SubSeq(s, 1, 0) = <<>>
  OBVIOUS

-----------------------------------------------------------------------------
\* The steps of the composition

LEMMA RoundTripInvInit ==
  ASSUME Init
  PROVE  RoundTripInv
<1>1. ChunkerInv
  BY ChunkerInvInit DEF Init
<1>2. FrameInv
  BY DEF Init, FrameInv
<1>3. ReaderInv
  <2>1. status = "header" /\ chunksRead = 0 /\ output = <<>> /\ writing = "ranges"
    BY DEF Init, Fresh
  <2>2. input \in Seq(Value) /\ Len(ranges) \in Nat
    BY <1>1, ChunkerFacts
  <2>3. Past(chunksRead) = 0
    BY <2>1 DEF Past
  <2>4. chunksRead \in 0..Len(ranges) /\ output = <<>>
    BY <2>1, <2>2
  <2>5. output = SubSeq(input, 1, Past(chunksRead))
    BY <2>2, <2>3, <2>4, WholePrefix
  <2> QED
    BY <2>1, <2>4, <2>5 DEF ReaderInv
<1> QED
  BY <1>1, <1>2, <1>3 DEF RoundTripInv

\* While ranges are chosen, nothing is written and nothing is read.
LEMMA ChooseRangeKeeps ==
  ASSUME RoundTripInv, ChooseRange
  PROVE  RoundTripInv'
<1>1. /\ writing = "ranges" /\ UNCHANGED <<writing, decoderVars>> /\ ChunkerStep
      /\ ChunkerInv
  BY DEF ChooseRange, RoundTripInv
<1>2. ChunkerInv'
  BY <1>1, CutHeadKeeps, TakeWindowKeeps DEF ChunkerStep
<1>3. FrameInv'
  BY <1>1 DEF RoundTripInv, FrameInv, decoderVars
<1>4. status = "header" /\ chunksRead = 0 /\ output = SubSeq(input, 1, 0)
  BY <1>1 DEF RoundTripInv, ReaderInv, Past
<1>5. input' = input
  BY <1>1 DEF ChunkerStep, CutHead, TakeWindow, AddRange
<1>6. Len(ranges') \in Nat
  BY <1>2 DEF ChunkerInv, RangesTileInput
<1>7. ReaderInv'
  BY <1>1, <1>4, <1>5, <1>6 DEF ReaderInv, Past, decoderVars
<1> QED
  BY <1>2, <1>3, <1>7 DEF RoundTripInv

\* What the steps after the chunker leave alone.
LEMMA RangesKept ==
  ASSUME ChunkerInv, UNCHANGED chunkerVars
  PROVE  /\ ChunkerInv'
         /\ input' = input /\ start' = start /\ ranges' = ranges
         /\ \A k : Past(k)' = Past(k)
<1>1. input' = input /\ start' = start /\ ranges' = ranges
  BY DEF chunkerVars
<1>2. \A k : Past(k)' = Past(k)
  BY <1>1 DEF Past
<1> QED
  BY <1>1, <1>2, ChunkerUnchanged

\* The three steps that write the frame.
LEMMA WriterKeeps ==
  ASSUME RoundTripInv, WriteHeader \/ WriteChunk \/ CloseFrame
  PROVE  RoundTripInv'
<1>1. /\ ChunkerInv /\ FrameInv /\ ReaderInv
      /\ UNCHANGED chunkerVars /\ UNCHANGED <<status, chunksRead, output>>
  BY DEF RoundTripInv, WriteHeader, WriteChunk, CloseFrame, decoderVars
<1>2. /\ ChunkerInv' /\ input' = input /\ start' = start /\ ranges' = ranges
      /\ \A k : Past(k)' = Past(k)
  BY <1>1, RangesKept
<1>3. /\ input \in Seq(Value) /\ Len(ranges) \in Nat
      /\ \A i \in 1..Len(ranges) : ranges[i].first \in Nat /\ ranges[i].past \in Nat
  BY <1>1, ChunkerFacts
<1>4. ReaderInv' /\ writing # "written"
  <2>1. writing # "written"
    BY DEF WriteHeader, WriteChunk, CloseFrame
  <2>2. status = "header"
    BY <2>1, <1>1 DEF ReaderInv
  <2> QED
    BY <2>1, <2>2, <1>1, <1>2 DEF ReaderInv
<1>5. CASE WriteHeader
  <2>1. /\ frame' = [prologue |-> TRUE, numElements |-> Len(input),
                     chunkCount |-> Len(ranges), chunks |-> <<>>, extra |-> FALSE]
        /\ start = Len(input) /\ writing' = "chunks"
    BY <1>5 DEF WriteHeader, NoFrame
  <2>2. frame'.chunks = <<>> /\ <<>> \in Seq(Seq(Value)) /\ Len(<<>>) = 0
    BY <2>1
  <2>3. FrameInv'
    BY <2>1, <2>2, <1>2, <1>3 DEF FrameInv
  <2> QED
    BY <2>3, <1>2, <1>4 DEF RoundTripInv
<1>6. CASE WriteChunk
  <2> DEFINE cs == frame.chunks
             m == Len(cs)
             c == ChunkAt(ranges[m + 1])
  <2>1. /\ writing = "chunks" /\ writing' = "chunks"
        /\ m < Len(ranges)
        /\ frame' = [frame EXCEPT !.chunks = Append(frame.chunks, c)]
    BY <1>6 DEF WriteChunk
  <2>2. /\ start = Len(input)
        /\ frame = [prologue |-> TRUE, numElements |-> Len(input),
                    chunkCount |-> Len(ranges), chunks |-> cs, extra |-> FALSE]
        /\ cs \in Seq(Seq(Value)) /\ m \in Nat
        /\ \A i \in 1..m : cs[i] = ChunkAt(ranges[i])
    BY <2>1, <1>1 DEF FrameInv
  <2>e. frame' = [frame EXCEPT !.chunks = Append(cs, c)]
    BY <2>1
  <2>3. c \in Seq(Value)
    <3>1. m + 1 \in 1..Len(ranges)
      BY <2>1, <2>2, <1>3
    <3>2. m \in 0..(Len(ranges) - 1)
      BY <2>1, <2>2, <1>3
    <3>3. /\ ranges[m + 1].first = Past(m) /\ Past(m) < Past(m + 1)
          /\ Past(m) \in Nat /\ Past(m + 1) \in Nat /\ Past(m + 1) <= Len(input)
      BY <3>1, <3>2, <1>1, <1>3, RangeEnds
    <3>4. Past(m + 1) = ranges[m + 1].past
      BY <3>1, <2>2 DEF Past
    <3> QED
      BY <3>3, <3>4, <1>3, PrefixGrows DEF ChunkAt
  <2> HIDE DEF c
  <2> DEFINE d == Append(cs, c)
  <2>4. /\ d \in Seq(Seq(Value)) /\ Len(d) = m + 1
        /\ \A i \in 1..m : d[i] = cs[i]
        /\ d[m + 1] = c
    BY <2>2, <2>3
  <2> HIDE DEF d, cs
  <2>5. frame' = [prologue |-> TRUE, numElements |-> Len(input),
                  chunkCount |-> Len(ranges), chunks |-> d, extra |-> FALSE]
    BY <2>2, <2>e DEF d
  <2>6. \A i \in 1..(m + 1) : d[i] = ChunkAt(ranges[i])
    <3>1. \A i \in 1..(m + 1) : i \in 1..m \/ i = m + 1
      BY <2>2
    <3> QED
      BY <3>1, <2>2, <2>4 DEF c
  <2>7. frame'.chunks = d
    BY <2>5
  <2>8. /\ frame'.chunks \in Seq(Seq(Value))
        /\ Len(frame'.chunks) = m + 1 /\ m + 1 <= Len(ranges)
        /\ \A i \in 1..(m + 1) : frame'.chunks[i] = ChunkAt(ranges[i])'
    <3>1. \A i \in 1..(m + 1) : ChunkAt(ranges[i])' = ChunkAt(ranges[i])
      BY <1>2 DEF ChunkAt
    <3> QED
      BY <3>1, <2>1, <2>2, <2>4, <2>6, <2>7, <1>2, <1>3, SMTT(30)
  <2>9. FrameInv'
    BY <2>1, <2>2, <2>5, <2>7, <2>8, <1>2 DEF FrameInv
  <2> QED
    BY <2>9, <1>2, <1>4 DEF RoundTripInv
<1>7. CASE CloseFrame
  <2>1. /\ writing = "chunks" /\ writing' = "written" /\ frame' = frame
        /\ Len(frame.chunks) = Len(ranges)
    BY <1>7 DEF CloseFrame, decoderVars
  <2>2. FrameInv'
    BY <2>1, <1>1, <1>2 DEF FrameInv, ChunkAt
  <2> QED
    BY <2>2, <1>2, <1>4 DEF RoundTripInv
<1> QED
  BY <1>5, <1>6, <1>7

\* Where the reader stands once the frame is written: the header has the right
\* counts and each record is the stretch of the input its range names.
LEMMA FrameWritten ==
  ASSUME ChunkerInv, FrameInv, writing = "written"
  PROVE  /\ frame.prologue = TRUE /\ frame.extra = FALSE
         /\ frame.numElements = Len(input) /\ frame.chunkCount = Len(ranges)
         /\ Len(frame.chunks) = Len(ranges)
         /\ (frame.chunkCount = 0) = (frame.numElements = 0)
         /\ Past(Len(ranges)) = Len(input)
         /\ \A k \in 0..(Len(ranges) - 1) :
              /\ Past(k) \in Nat /\ Past(k + 1) \in Nat
              /\ Past(k) < Past(k + 1) /\ Past(k + 1) <= Len(input)
              /\ frame.chunks[k + 1] = SubSeq(input, Past(k) + 1, Past(k + 1))
<1>1. /\ start = Len(input)
      /\ frame = [prologue |-> TRUE, numElements |-> Len(input),
                  chunkCount |-> Len(ranges), chunks |-> frame.chunks, extra |-> FALSE]
      /\ Len(frame.chunks) = Len(ranges)
      /\ \A i \in 1..Len(ranges) : frame.chunks[i] = ChunkAt(ranges[i])
  BY DEF FrameInv
<1>2. /\ frame.prologue = TRUE /\ frame.extra = FALSE
      /\ frame.numElements = Len(input) /\ frame.chunkCount = Len(ranges)
  <2> DEFINE cs == frame.chunks
  <2>1. frame = [prologue |-> TRUE, numElements |-> Len(input),
                 chunkCount |-> Len(ranges), chunks |-> cs, extra |-> FALSE]
    BY <1>1
  <2> HIDE DEF cs
  <2> QED
    BY <2>1
<1>3. Len(ranges) \in Nat /\ Len(input) \in Nat
  BY ChunkerFacts
<1>4. (Len(ranges) = 0) = (Len(input) = 0) /\ Past(Len(ranges)) = Len(input)
  BY <1>1, RangeEnds
<1>5. ASSUME NEW k \in 0..(Len(ranges) - 1)
      PROVE  /\ Past(k) \in Nat /\ Past(k + 1) \in Nat
             /\ Past(k) < Past(k + 1) /\ Past(k + 1) <= Len(input)
             /\ frame.chunks[k + 1] = SubSeq(input, Past(k) + 1, Past(k + 1))
  <2>1. k \in 0..Len(ranges) /\ k + 1 \in 0..Len(ranges) /\ k + 1 \in 1..Len(ranges)
    BY <1>3
  <2>2. /\ Past(k) \in Nat /\ Past(k + 1) \in Nat
        /\ Past(k) < Past(k + 1) /\ Past(k + 1) <= Len(input)
        /\ ranges[k + 1].first = Past(k)
    BY <2>1, RangeEnds
  <2>3. ranges[k + 1].past = Past(k + 1)
    BY <2>1 DEF Past
  <2>4. frame.chunks[k + 1] = ChunkAt(ranges[k + 1])
    BY <2>1, <1>1
  <2> QED
    BY <2>2, <2>3, <2>4 DEF ChunkAt
<1> QED
  BY <1>1, <1>2, <1>3, <1>4, <1>5

\* The reader refuses nothing of a written frame: the next record is there, is
\* not empty, and fits into the announced total.
LEMMA ChunkFitsAlways ==
  ASSUME RoundTripInv, writing = "written", chunksRead < frame.chunkCount
  PROVE  /\ ChunkFits
         /\ chunksRead + 1 \in 0..Len(ranges)
         /\ output \o frame.chunks[chunksRead + 1] = SubSeq(input, 1, Past(chunksRead + 1))
<1> DEFINE k == chunksRead
           c == frame.chunks[k + 1]
<1>1. ChunkerInv /\ FrameInv /\ ReaderInv
  BY DEF RoundTripInv
<1>2. input \in Seq(Value) /\ Len(ranges) \in Nat /\ Len(input) \in Nat
  BY <1>1, ChunkerFacts
<1>3. /\ frame.numElements = Len(input) /\ frame.chunkCount = Len(ranges)
      /\ Len(frame.chunks) = Len(ranges)
  BY <1>1, FrameWritten
<1>4. k \in 0..(Len(ranges) - 1) /\ k + 1 \in 0..Len(ranges)
  BY <1>1, <1>2, <1>3 DEF ReaderInv
<1>5. /\ Past(k) \in Nat /\ Past(k + 1) \in Nat
      /\ Past(k) < Past(k + 1) /\ Past(k + 1) <= Len(input)
      /\ c = SubSeq(input, Past(k) + 1, Past(k + 1))
  BY <1>1, <1>4, FrameWritten
<1>6. output = SubSeq(input, 1, Past(k))
  BY <1>1 DEF ReaderInv
<1> HIDE DEF c
<1>7. /\ output \o c = SubSeq(input, 1, Past(k + 1))
      /\ c \in Seq(Value)
      /\ Len(output) = Past(k) /\ Len(c) = Past(k + 1) - Past(k)
  <2>1. ASSUME NEW a \in Nat, NEW b \in Nat, a < b, b <= Len(input)
        PROVE  /\ SubSeq(input, 1, a) \o SubSeq(input, a + 1, b) = SubSeq(input, 1, b)
               /\ SubSeq(input, a + 1, b) \in Seq(Value)
               /\ Len(SubSeq(input, 1, a)) = a /\ Len(SubSeq(input, a + 1, b)) = b - a
    <3>1. a <= b
      BY <2>1
    <3> QED
      BY <2>1, <3>1, <1>2, PrefixGrows
  <2> QED
    BY <2>1, <1>5, <1>6
<1>8. c # Refused
  <2>1. Len(c) # 0
    BY <1>5, <1>7
  <2> QED
    BY <2>1 DEF Refused
<1>9. Len(output) + Len(c) <= frame.numElements /\ k < Len(frame.chunks)
  BY <1>2, <1>3, <1>4, <1>5, <1>7
<1> QED
  BY <1>4, <1>7, <1>8, <1>9 DEF ChunkFits, c

\* Nor does it refuse the frame at its end.
LEMMA TotalsAgreeAlways ==
  ASSUME RoundTripInv, writing = "written", chunksRead = frame.chunkCount
  PROVE  TotalsAgree /\ output = input
<1>1. ChunkerInv /\ FrameInv /\ ReaderInv
  BY DEF RoundTripInv
<1>2. input \in Seq(Value)
  BY <1>1, ChunkerFacts
<1>3. /\ frame.numElements = Len(input) /\ frame.chunkCount = Len(ranges)
      /\ Len(frame.chunks) = Len(ranges) /\ frame.extra = FALSE
      /\ Past(Len(ranges)) = Len(input)
  BY <1>1, FrameWritten
<1>4. output = SubSeq(input, 1, Len(input))
  <2>1. output = SubSeq(input, 1, Past(chunksRead)) /\ chunksRead = Len(ranges)
    BY <1>1, <1>3 DEF ReaderInv
  <2> QED
    BY <2>1, <1>3
<1>5. output = input
  BY <1>2, <1>4, WholePrefix
<1> QED
  BY <1>3, <1>5 DEF TotalsAgree

\* The reader's steps: none rejects, and the output grows along the ranges.
LEMMA ReaderKeeps ==
  ASSUME RoundTripInv, Read
  PROVE  RoundTripInv'
<1>1. /\ ChunkerInv /\ FrameInv /\ ReaderInv /\ writing = "written"
      /\ UNCHANGED chunkerVars /\ writing' = writing /\ DecoderStep
  BY DEF RoundTripInv, Read
<1>2. /\ ChunkerInv' /\ input' = input /\ start' = start /\ ranges' = ranges
      /\ \A k : Past(k)' = Past(k)
  BY <1>1, RangesKept
<1>3. frame' = frame
  BY <1>1 DEF DecoderStep, ReadHeader, DecodeChunk, RejectChunk, Finish
<1>4. FrameInv'
  BY <1>1, <1>2, <1>3 DEF FrameInv, ChunkAt
<1>5. CASE ReadHeader
  <2>1. frame.prologue /\ (frame.chunkCount = 0) = (frame.numElements = 0)
    BY <1>1, FrameWritten
  <2>2. /\ status' = "chunks" /\ chunksRead' = chunksRead /\ output' = output
    BY <1>5, <2>1 DEF ReadHeader
  <2>3. ReaderInv'
    BY <2>2, <1>1, <1>2 DEF ReaderInv
  <2> QED
    BY <2>3, <1>2, <1>4 DEF RoundTripInv
<1>6. CASE DecodeChunk
  <2>1. /\ chunksRead < frame.chunkCount /\ status = "chunks" /\ status' = "chunks"
        /\ output' = output \o frame.chunks[chunksRead + 1]
        /\ chunksRead' = chunksRead + 1
    BY <1>6 DEF DecodeChunk
  <2>2. /\ chunksRead + 1 \in 0..Len(ranges)
        /\ output' = SubSeq(input, 1, Past(chunksRead + 1))
    BY <2>1, <1>1, ChunkFitsAlways
  <2>3. ReaderInv'
    BY <2>1, <2>2, <1>1, <1>2 DEF ReaderInv
  <2> QED
    BY <2>3, <1>2, <1>4 DEF RoundTripInv
<1>7. CASE RejectChunk
  <2>1. FALSE
    BY <1>7, <1>1, ChunkFitsAlways DEF RejectChunk
  <2> QED
    BY <2>1
<1>8. CASE Finish
  <2>1. chunksRead = frame.chunkCount
    BY <1>8 DEF Finish
  <2>2. TotalsAgree /\ output = input
    BY <2>1, <1>1, TotalsAgreeAlways
  <2>3. status' = "accepted" /\ chunksRead' = chunksRead /\ output' = output
    BY <1>8, <2>2 DEF Finish
  <2>4. ReaderInv'
    BY <2>2, <2>3, <1>1, <1>2 DEF ReaderInv
  <2> QED
    BY <2>4, <1>2, <1>4 DEF RoundTripInv
<1> QED
  BY <1>1, <1>5, <1>6, <1>7, <1>8 DEF DecoderStep

\* Nothing happens to a returned call.
LEMMA NothingKeeps ==
  ASSUME RoundTripInv, UNCHANGED vars
  PROVE  RoundTripInv'
<1>1. /\ UNCHANGED chunkerVars /\ writing' = writing /\ frame' = frame
      /\ status' = status /\ chunksRead' = chunksRead /\ output' = output
      /\ ChunkerInv /\ FrameInv /\ ReaderInv
  BY DEF vars, decoderVars, RoundTripInv
<1>2. /\ ChunkerInv' /\ input' = input /\ start' = start /\ ranges' = ranges
      /\ \A k : Past(k)' = Past(k)
  BY <1>1, RangesKept
<1>3. FrameInv'
  BY <1>1, <1>2 DEF FrameInv, ChunkAt
<1>4. ReaderInv'
  BY <1>1, <1>2 DEF ReaderInv
<1> QED
  BY <1>2, <1>3, <1>4 DEF RoundTripInv

LEMMA RoundTripInvNext ==
  ASSUME RoundTripInv, [Next]_vars
  PROVE  RoundTripInv'
<1>1. CASE UNCHANGED vars
  BY <1>1, NothingKeeps
<1>2. CASE ChooseRange
  BY <1>2, ChooseRangeKeeps
<1>3. CASE WriteHeader \/ WriteChunk \/ CloseFrame
  BY <1>3, WriterKeeps
<1>4. CASE Read
  BY <1>4, ReaderKeeps
<1>5. CASE BothReturned
  BY <1>5, NothingKeeps DEF BothReturned
<1> QED
  BY <1>1, <1>2, <1>3, <1>4, <1>5 DEF Next

-----------------------------------------------------------------------------
\* Theorems

\* The strengthened invariant holds in every reachable state.
THEOREM RoundTripInvariant == Spec => []RoundTripInv
<1>1. Init => RoundTripInv
  BY RoundTripInvInit
<1>2. RoundTripInv /\ [Next]_vars => RoundTripInv'
  BY RoundTripInvNext
<1> QED
  BY <1>1, <1>2, PTL DEF Spec

\* choose_chunk_ranges leaves no element out, takes none twice and makes no
\* empty and no overlong chunk, whatever the input and the limits are.
THEOREM RangesTile == Spec => []RangesTileInput
<1>1. RoundTripInv => RangesTileInput
  BY DEF RoundTripInv, ChunkerInv
<1> QED
  BY <1>1, RoundTripInvariant, PTL

\* An adaptive cut is where one-byte codes just suffice for the head, it is
\* taken at most once, after full windows, and before refined ones.
THEOREM CutsFit == Spec => []CutHeadFitsCode
<1>1. RoundTripInv => CutHeadFitsCode
  BY DEF RoundTripInv, ChunkerInv
<1> QED
  BY <1>1, RoundTripInvariant, PTL

\* compress_u32 and decompress_u32 together are a lossless codec, for every
\* input and every choice of the limits: the reader accepts every frame the
\* writer makes, and hands back the input.
THEOREM FrameLossless == Spec => Codec!Spec
<1> DEFINE res == IF status = "accepted" THEN output ELSE Pending
<1>1. Init => Codec!Init
  BY DEF Init, ChunkerInit, Fresh, Codec!Init
<1>2. ASSUME RoundTripInv, RoundTripInv', [Next]_vars
      PROVE  [Codec!Next]_(Codec!codecVars)
  <2>1. input' = input
    <3>1. input' = input
      BY <1>2 DEF Next, vars, chunkerVars, ChooseRange, ChunkerStep, CutHead,
         TakeWindow, AddRange, WriteHeader, WriteChunk, CloseFrame, Read, BothReturned
    <3> QED
      BY <3>1
  <2>2. input \in Input
    BY <1>2 DEF RoundTripInv, ChunkerInv
  <2>3. status = "accepted" => status' = status /\ output' = output
    BY <1>2 DEF Next, vars, decoderVars, ChooseRange, WriteHeader, WriteChunk,
       CloseFrame, Read, BothReturned, DecoderStep, ReadHeader,
       DecodeChunk, RejectChunk, Finish
  <2>4. status' = "accepted" => output' = input'
    BY <1>2 DEF RoundTripInv, ReaderInv
  <2>5. CASE status = "accepted"
    BY <2>1, <2>3, <2>5 DEF Codec!codecVars
  <2>6. CASE status # "accepted" /\ status' = "accepted"
    BY <2>1, <2>4, <2>6 DEF Codec!Next, Codec!Return
  <2>7. CASE status # "accepted" /\ status' # "accepted"
    BY <2>1, <2>7 DEF Codec!codecVars
  <2> QED
    BY <2>5, <2>6, <2>7
<1> QED
  BY <1>1, <1>2, RoundTripInvariant, PTL DEF Spec, Codec!Spec

-----------------------------------------------------------------------------
\* The varint reader: functions defined by recursion


\* A recursion that goes down to smaller numbers: where it stops, `stop` gives
\* the value, elsewhere `step` makes it from the one of a smaller number.
Descends(T, Stops, stop, less, step) ==
  /\ \A v \in Nat : v \in Stops => stop[v] \in T
  /\ \A v \in Nat : v \notin Stops =>
       less[v] \in Nat /\ less[v] < v /\ \A x \in T : step[v][x] \in T

Solution(f, T, Stops, stop, less, step) ==
  /\ f \in [Nat -> T]
  /\ f = [v \in Nat |-> IF v \in Stops THEN stop[v] ELSE step[v][f[less[v]]]]

\* Such a recursion has a solution on all of Nat.
LEMMA RecursionOnNat ==
  ASSUME NEW T, NEW Stops, NEW stop, NEW less, NEW step,
         Descends(T, Stops, stop, less, step)
  PROVE  \E f : Solution(f, T, Stops, stop, less, step)
<1> SUFFICES ASSUME \A v \in Nat : v \in Stops => stop[v] \in T,
                    \A v \in Nat : v \notin Stops =>
                      less[v] \in Nat /\ less[v] < v /\ \A x \in T : step[v][x] \in T
             PROVE  \E f : Solution(f, T, Stops, stop, less, step)
  BY DEF Descends
<1> DEFINE Follows(f, n) == /\ f \in [0..n -> T]
                            /\ \A v \in 0..n : f[v] = IF v \in Stops THEN stop[v]
                                                      ELSE step[v][f[less[v]]]
           Chosen(n) == CHOOSE f : Follows(f, n)
           whole == [v \in Nat |-> Chosen(v)[v]]
<1>1. ASSUME NEW n \in Nat PROVE \E f : Follows(f, n)
  <2> DEFINE S == {m \in 0..n : \E f : Follows(f, m)}
  <2>1. 0 \in S
    <3>1. 0 \in Stops
      <4>1. ASSUME 0 \notin Stops PROVE FALSE
        <5>1. less[0] \in Nat /\ less[0] < 0
          BY <4>1
        <5> QED
          BY <5>1
      <4> QED
        BY <4>1
    <3> DEFINE g == [v \in 0..0 |-> stop[0]]
    <3>2. stop[0] \in T
      BY <3>1
    <3>3. Follows(g, 0)
      BY <3>1, <3>2
    <3> HIDE DEF Follows, g
    <3> QED
      BY <3>3
  <2>2. ASSUME NEW m \in 1..n, m - 1 \in S PROVE m \in S
    <3>1. PICK f : Follows(f, m - 1)
      BY <2>2
    <3> DEFINE here == IF m \in Stops THEN stop[m] ELSE step[m][f[less[m]]]
               g == [v \in 0..m |-> IF v = m THEN here ELSE f[v]]
    <3>2. m \in Nat /\ \A v \in 0..(m - 1) : f[v] \in T
      BY <3>1
    <3>3. here \in T
      <4>1. CASE m \in Stops
        BY <3>2, <4>1
      <4>2. CASE m \notin Stops
        <5>1. less[m] \in 0..(m - 1) /\ \A x \in T : step[m][x] \in T
          BY <3>2, <4>2
        <5> QED
          BY <3>2, <4>2, <5>1
      <4> QED
        BY <4>1, <4>2
    <3> HIDE DEF here
    <3>4. g \in [0..m -> T]
      BY <3>2, <3>3
    <3>5. \A v \in 0..(m - 1) : g[v] = f[v]
      BY <3>2
    <3>6. g[m] = here
      BY <3>2
    <3> HIDE DEF g
    <3>7. ASSUME NEW v \in 0..m
          PROVE  g[v] = IF v \in Stops THEN stop[v] ELSE step[v][g[less[v]]]
      <4>1. v \notin Stops => less[v] \in 0..(m - 1) /\ g[less[v]] = f[less[v]]
        BY <3>2, <3>5
      <4>2. CASE v = m
        BY <3>6, <4>1, <4>2 DEF here
      <4>3. CASE v # m
        <5>1. v \in 0..(m - 1)
          BY <3>2, <4>3
        <5>2. f[v] = IF v \in Stops THEN stop[v] ELSE step[v][f[less[v]]]
          BY <3>1, <5>1
        <5> QED
          BY <3>5, <4>1, <5>1, <5>2
      <4> QED
        BY <4>2, <4>3
    <3>8. Follows(g, m)
      BY <3>4, <3>7
    <3> HIDE DEF Follows
    <3> QED
      BY <3>8
  <2> HIDE DEF S
  <2>3. 0..n \subseteq S
    BY <2>1, <2>2, InductionUpTo
  <2>4. n \in S
    BY <2>3
  <2> QED
    BY <2>4 DEF S
<1>2. ASSUME NEW n \in Nat PROVE Follows(Chosen(n), n)
  <2> HIDE DEF Follows
  <2> QED
    BY <1>1
<1>3. ASSUME NEW n \in Nat, NEW m \in 0..n, NEW f, NEW g, Follows(f, n), Follows(g, m)
      PROVE  f[m] = g[m]
  <2> DEFINE Bad == {k \in 0..m : f[k] # g[k]}
  <2>1. SUFFICES ASSUME Bad # {} PROVE FALSE
    BY <1>3
  <2>2. PICK k \in Bad : \A j \in Bad : k <= j
    <3>1. Bad \subseteq Nat
      OBVIOUS
    <3> HIDE DEF Bad
    <3> QED
      BY <2>1, <3>1, LeastNatural
  <2>3. k \in 0..m /\ k \in 0..n /\ k \in Nat /\ f[k] # g[k]
    BY <2>2
  <2>4. /\ f[k] = IF k \in Stops THEN stop[k] ELSE step[k][f[less[k]]]
        /\ g[k] = IF k \in Stops THEN stop[k] ELSE step[k][g[less[k]]]
    BY <1>3, <2>3
  <2>5. k \notin Stops => f[less[k]] = g[less[k]]
    <3>1. ASSUME k \notin Stops PROVE f[less[k]] = g[less[k]]
      <4>1. less[k] \in Nat /\ less[k] < k
        BY <2>3, <3>1
      <4>2. less[k] \in 0..m /\ less[k] \notin Bad
        BY <2>2, <2>3, <4>1
      <4> QED
        BY <4>2
    <3> QED
      BY <3>1
  <2> QED
    BY <2>3, <2>4, <2>5
<1> HIDE DEF Chosen
<1>4. ASSUME NEW v \in Nat
      PROVE  /\ whole[v] \in T
             /\ whole[v] = IF v \in Stops THEN stop[v] ELSE step[v][whole[less[v]]]
  <2>1. Follows(Chosen(v), v)
    BY <1>2
  <2>2. v \in 0..v /\ whole[v] = Chosen(v)[v]
    OBVIOUS
  <2>3. ASSUME v \notin Stops PROVE whole[less[v]] = Chosen(v)[less[v]]
    <3>1. less[v] \in Nat /\ less[v] < v
      BY <2>3
    <3>2. less[v] \in 0..v /\ whole[less[v]] = Chosen(less[v])[less[v]]
      BY <3>1
    <3>3. Follows(Chosen(less[v]), less[v])
      BY <1>2, <3>1
    <3>4. Chosen(v)[less[v]] = Chosen(less[v])[less[v]]
      <4> HIDE DEF Follows
      <4> QED
        BY <1>3, <2>1, <3>2, <3>3
    <3> QED
      BY <3>2, <3>4
  <2> HIDE DEF whole
  <2> QED
    BY <2>1, <2>2, <2>3
<1>5. whole = [v \in Nat |-> whole[v]]
  OBVIOUS
<1> HIDE DEF whole
<1>6. whole \in [Nat -> T]
  BY <1>4, <1>5
<1>7. whole = [v \in Nat |-> IF v \in Stops THEN stop[v] ELSE step[v][whole[less[v]]]]
  BY <1>4, <1>5
<1>8. Solution(whole, T, Stops, stop, less, step)
  BY <1>6, <1>7 DEF Solution
<1> QED
  BY <1>8

\* Weights are positive, each Radix times the one before.
LEMMA Weights ==
  /\ Weight[0] = 1
  /\ \A k \in Nat : Weight[k] \in Nat \ {0} /\ Weight[k + 1] = Radix * Weight[k]
<1> DEFINE Solves(f) == f = [k \in Nat |-> IF k = 0 THEN 1 ELSE Radix * f[k - 1]]
           weight == CHOOSE f : Solves(f)
           T == Nat \ {0}
           Stops == {0}
           stop == [v \in Nat |-> 1]
           less == [v \in Nat |-> v - 1]
           step == [v \in Nat |-> [x \in T |-> Radix * x]]
<1>1. Radix \in Nat \ {0}
  BY VarintAssumption
<1>2. \E f : Solves(f)
  <2>1. \A v \in Nat : v \in Stops => stop[v] \in T
    OBVIOUS
  <2>2. \A v \in Nat : v \notin Stops =>
          less[v] \in Nat /\ less[v] < v /\ \A x \in T : step[v][x] \in T
    BY <1>1
  <2>3. /\ \A v \in Nat : stop[v] = 1 /\ less[v] = v - 1
        /\ \A v \in Nat : \A x \in T : step[v][x] = Radix * x
    OBVIOUS
  <2> HIDE DEF T, stop, less, step
  <2>4. PICK f : /\ f \in [Nat -> T]
                 /\ f = [v \in Nat |-> IF v \in Stops THEN stop[v] ELSE step[v][f[less[v]]]]
    <3> HIDE DEF Stops
    <3>1. Descends(T, Stops, stop, less, step)
      BY <2>1, <2>2 DEF Descends
    <3> QED
      BY <3>1, RecursionOnNat DEF Solution
  <2>5. ASSUME NEW k \in Nat
        PROVE  f[k] = IF k = 0 THEN 1 ELSE Radix * f[k - 1]
    <3>1. f[k] = IF k \in Stops THEN stop[k] ELSE step[k][f[less[k]]]
      BY <2>4
    <3>2. k # 0 => f[k - 1] \in T
      BY <2>4
    <3> QED
      BY <2>3, <3>1, <3>2
  <2>6. f = [k \in Nat |-> f[k]]
    BY <2>4
  <2>7. Solves(f)
    BY <2>5, <2>6
  <2> HIDE DEF Solves
  <2> QED
    BY <2>7
<1>3. Solves(weight)
  <2> HIDE DEF Solves
  <2> QED
    BY <1>2
<1>4. Weight = weight
  BY DEF Weight
<1> HIDE DEF weight
<1>5. \A k \in Nat : Weight[k] = IF k = 0 THEN 1 ELSE Radix * Weight[k - 1]
  BY <1>3, <1>4
<1>6. Weight[0] = 1
  BY <1>5
<1>7. ASSUME NEW k \in Nat PROVE Weight[k + 1] = Radix * Weight[k]
  <2>1. k + 1 \in Nat /\ k + 1 # 0 /\ (k + 1) - 1 = k
    OBVIOUS
  <2> QED
    BY <1>5, <2>1
<1>8. ASSUME NEW k \in Nat PROVE Weight[k] \in Nat \ {0}
  <2> DEFINE S == {j \in 0..k : Weight[j] \in Nat \ {0}}
  <2>1. 0 \in S
    BY <1>6
  <2>2. ASSUME NEW m \in 1..k, m - 1 \in S PROVE m \in S
    <3>1. m - 1 \in Nat /\ (m - 1) + 1 = m
      OBVIOUS
    <3>2. Weight[m] = Radix * Weight[m - 1]
      BY <1>7, <3>1
    <3>3. Weight[m - 1] \in Nat \ {0}
      BY <2>2
    <3> QED
      BY <1>1, <3>2, <3>3
  <2> HIDE DEF S
  <2>3. 0..k \subseteq S
    BY <2>1, <2>2, InductionUpTo
  <2>4. k \in S
    BY <2>3
  <2> QED
    BY <2>4 DEF S
<1> QED
  BY <1>6, <1>7, <1>8

\* A weight divides no greater one: weights never decrease.
LEMMA WeightsGrow ==
  ASSUME NEW n \in Nat, NEW k \in 0..n
  PROVE  Weight[k] <= Weight[n]
<1> DEFINE S == {j \in 0..(n - k) : Weight[k] <= Weight[k + j]}
<1>1. Radix \in Nat \ {0} /\ k \in Nat
  BY VarintAssumption
<1>2. 0 \in S
  <2>1. k + 0 = k /\ Weight[k] \in Nat
    BY <1>1, Weights
  <2> QED
    BY <1>1, <2>1
<1>3. ASSUME NEW m \in 1..(n - k), m - 1 \in S PROVE m \in S
  <2>1. k + (m - 1) \in Nat /\ (k + (m - 1)) + 1 = k + m
    BY <1>1
  <2>2. PICK a, b, c \in Nat :
          a = Weight[k] /\ b = Weight[k + (m - 1)] /\ c = Weight[k + m]
    <3>1. Weight[k] \in Nat /\ Weight[k + (m - 1)] \in Nat /\ Weight[k + m] \in Nat
      <4>1. k + m \in Nat
        BY <1>1
      <4> QED
        BY <1>1, <2>1, <4>1, Weights
    <3> QED
      BY <3>1
  <2>3. c = Radix * b
    <3>1. Weight[(k + (m - 1)) + 1] = Radix * Weight[k + (m - 1)]
      BY <2>1, Weights
    <3> QED
      BY <2>1, <2>2, <3>1
  <2>4. a <= b
    BY <1>3, <2>2
  <2>5. a <= c
    BY <1>1, <2>3, <2>4
  <2> QED
    BY <2>2, <2>5
<1> HIDE DEF S
<1>4. 0..(n - k) \subseteq S
  <2>1. n - k \in Nat
    OBVIOUS
  <2> QED
    BY <1>2, <1>3, <2>1, InductionUpTo
<1>5. n - k \in S /\ k + (n - k) = n
  BY <1>1, <1>4
<1> QED
  BY <1>5 DEF S

\* The writer gives a number that fits one byte that byte; of any other the low
\* part with a mark, and then the rest.
LEMMA WrittenBytes ==
  ASSUME NEW v \in Nat
  PROVE  /\ Written[v] \in Seq(0..(2 * Radix - 1))
         /\ v < Radix => Written[v] = <<v>>
         /\ v >= Radix => /\ v \div Radix \in Nat \ {0} /\ v \div Radix < v
                          /\ Written[v] = <<(v % Radix) + Radix>> \o Written[v \div Radix]
<1> DEFINE Solves(f) == f = [u \in Nat |-> IF u < Radix THEN <<u>>
                               ELSE <<(u % Radix) + Radix>> \o f[u \div Radix]]
           written == CHOOSE f : Solves(f)
           T == Seq(0..(2 * Radix - 1))
           Stops == 0..(Radix - 1)
           stop == [u \in Nat |-> <<u>>]
           less == [u \in Nat |-> u \div Radix]
           step == [u \in Nat |-> [x \in T |-> <<(u % Radix) + Radix>> \o x]]
<1>1. Radix \in Nat \ {0, 1}
  BY VarintAssumption
<1>2. ASSUME NEW u \in Nat, ~ (u < Radix)
      PROVE  u \div Radix \in Nat \ {0} /\ u \div Radix < u
  BY <1>1, <1>2
<1>3. \A u \in Nat : u \in Stops <=> u < Radix
  BY <1>1
<1>4. PICK f : f \in [Nat -> T] /\ Solves(f)
  <2>1. \A u \in Nat : u \in Stops => stop[u] \in T
    <3>1. ASSUME NEW u \in Nat, u \in Stops PROVE <<u>> \in T
      <4>1. u \in 0..(2 * Radix - 1)
        BY <1>1, <3>1
      <4> QED
        BY <4>1
    <3> QED
      BY <3>1
  <2>2. ASSUME NEW u \in Nat, NEW x \in T PROVE <<(u % Radix) + Radix>> \o x \in T
    <3>1. (u % Radix) + Radix \in 0..(2 * Radix - 1)
      BY <1>1
    <3>2. <<(u % Radix) + Radix>> \in T
      BY <3>1
    <3> QED
      BY <3>2, ConcatProperties
  <2>3. /\ \A u \in Nat : stop[u] = <<u>> /\ less[u] = u \div Radix
        /\ \A u \in Nat : \A x \in T : step[u][x] = <<(u % Radix) + Radix>> \o x
    OBVIOUS
  <2> HIDE DEF T, Stops, stop, less, step
  <2>4. \A u \in Nat : u \notin Stops =>
          less[u] \in Nat /\ less[u] < u /\ \A x \in T : step[u][x] \in T
    BY <1>2, <1>3, <2>2, <2>3
  <2>5. PICK f : /\ f \in [Nat -> T]
                 /\ f = [u \in Nat |-> IF u \in Stops THEN stop[u] ELSE step[u][f[less[u]]]]
    <3>1. Descends(T, Stops, stop, less, step)
      BY <2>1, <2>4 DEF Descends
    <3> QED
      BY <3>1, RecursionOnNat DEF Solution
  <2>6. ASSUME NEW u \in Nat
        PROVE  f[u] = IF u < Radix THEN <<u>>
                      ELSE <<(u % Radix) + Radix>> \o f[u \div Radix]
    <3>1. f[u] = IF u \in Stops THEN stop[u] ELSE step[u][f[less[u]]]
      BY <2>5
    <3>2. ~ (u < Radix) => f[u \div Radix] \in T
      BY <1>2, <2>5
    <3> QED
      BY <1>3, <2>3, <3>1, <3>2, Zenon
  <2>7. f = [u \in Nat |-> f[u]]
    BY <2>5
  <2>8. Solves(f)
    BY <2>6, <2>7, Zenon
  <2> HIDE DEF Solves
  <2> QED
    BY <2>5, <2>8
<1>5. Solves(written)
  <2> HIDE DEF Solves
  <2> QED
    BY <1>4
<1>6. Written = written
  BY DEF Written
<1> HIDE DEF written
<1>7. ASSUME NEW u \in Nat
      PROVE  Written[u] = IF u < Radix THEN <<u>>
                          ELSE <<(u % Radix) + Radix>> \o Written[u \div Radix]
  <2>1. Written = [k \in Nat |-> IF k < Radix THEN <<k>>
                               ELSE <<(k % Radix) + Radix>> \o Written[k \div Radix]]
    BY <1>5, <1>6, Zenon
  <2> QED
    BY <2>1, Zenon
<1>8. Written[v] \in T
  <2> DEFINE S == {n \in 0..v : \A u \in 0..n : Written[u] \in T}
  <2>1. ASSUME NEW n \in 0..v, \A u \in 0..(n - 1) : Written[u] \in T
        PROVE  Written[n] \in T
    <3>1. n \in Nat
      OBVIOUS
    <3>2. CASE n < Radix
      <4>1. n \in 0..(2 * Radix - 1)
        BY <1>1, <3>1, <3>2
      <4>2. Written[n] = <<n>>
        BY <1>7, <3>1, <3>2
      <4> QED
        BY <4>1, <4>2
    <3>3. CASE ~ (n < Radix)
      <4>1. n \div Radix \in 0..(n - 1)
        BY <1>2, <3>1, <3>3
      <4>2. Written[n] = <<(n % Radix) + Radix>> \o Written[n \div Radix]
        BY <1>7, <3>1, <3>3
      <4>3. (n % Radix) + Radix \in 0..(2 * Radix - 1)
        BY <1>1, <3>1
      <4>4. <<(n % Radix) + Radix>> \in T
        BY <4>3
      <4>5. Written[n \div Radix] \in T
        BY <2>1, <4>1
      <4> QED
        BY <4>2, <4>4, <4>5, ConcatProperties
    <3> QED
      BY <3>2, <3>3
  <2> HIDE DEF T
  <2>2. 0 \in S
    <3>1. 0..(0 - 1) = {} /\ 0 \in 0..v
      OBVIOUS
    <3>2. Written[0] \in T
      BY <2>1, <3>1
    <3> QED
      BY <3>1, <3>2
  <2>3. ASSUME NEW m \in 1..v, m - 1 \in S PROVE m \in S
    <3>1. m \in 0..v
      OBVIOUS
    <3>2. \A u \in 0..(m - 1) : Written[u] \in T
      BY <2>3
    <3>3. Written[m] \in T
      BY <2>1, <3>1, <3>2
    <3>4. \A u \in 0..m : u = m \/ u \in 0..(m - 1)
      OBVIOUS
    <3> QED
      BY <3>1, <3>2, <3>3, <3>4
  <2> HIDE DEF S
  <2>4. 0..v \subseteq S
    BY <2>2, <2>3, InductionUpTo
  <2>5. v \in S
    BY <2>4
  <2> QED
    BY <2>5 DEF S
<1>9. v >= Radix => ~ (v < Radix)
  BY <1>1
<1> QED
  BY <1>2, <1>7, <1>8, <1>9

-----------------------------------------------------------------------------
\* One byte more

Bytewise == Seq(0..(2 * Radix - 1))

LEMMA WrittenTyped ==
  ASSUME NEW v \in Nat
  PROVE  Written[v] \in Bytewise
<1>1. Written[v] \in Seq(0..(2 * Radix - 1))
  BY WrittenBytes
<1> QED
  BY <1>1 DEF Bytewise

LEMMA OneByte ==
  ASSUME NEW b \in 0..(2 * Radix - 1)
  PROVE  <<b>> \in Bytewise /\ Len(<<b>>) = 1 /\ <<b>>[1] = b
  BY DEF Bytewise

LEMMA BytesJoined ==
  ASSUME NEW a \in Bytewise, NEW b \in Bytewise
  PROVE  /\ a \o b \in Bytewise
         /\ Len(a \o b) = Len(a) + Len(b)
         /\ \A i \in 1..(Len(a) + Len(b)) :
              (a \o b)[i] = IF i <= Len(a) THEN a[i] ELSE b[i - Len(a)]
<1> DEFINE B == 0..(2 * Radix - 1)
<1>1. a \in Seq(B) /\ b \in Seq(B) /\ Bytewise = Seq(B)
  BY DEF Bytewise
<1> HIDE DEF B
<1> QED
  BY <1>1, ConcatProperties

LEMMA Regrouped ==
  ASSUME NEW a \in Bytewise, NEW b \in Bytewise, NEW c \in Bytewise
  PROVE  (a \o b) \o c = a \o (b \o c)
<1> DEFINE B == 0..(2 * Radix - 1)
<1>1. a \in Seq(B) /\ b \in Seq(B) /\ c \in Seq(B)
  BY DEF Bytewise
<1> HIDE DEF B
<1> QED
  BY <1>1, ConcatAssociative

\* s is r and then what the writer makes of w.
Spells(s, r, w) == s = r \o Written[w]

\* What is written is never empty, and its first byte tells whether the number
\* fits one: if it does, it is that byte; else the byte has its low part.
LEMMA FirstByte ==
  ASSUME NEW s, NEW r \in Bytewise, NEW w \in Nat, Spells(s, r, w)
  PROVE  /\ Len(s) > Len(r)
         /\ s[Len(r) + 1] < Radix => s[Len(r) + 1] = w /\ Len(s) = Len(r) + 1
         /\ s[Len(r) + 1] >= Radix =>
              /\ w >= Radix /\ w \div Radix \in Nat \ {0}
              /\ s[Len(r) + 1] = (w % Radix) + Radix
              /\ Spells(s, r \o <<s[Len(r) + 1]>>, w \div Radix)
<1> USE DEF Spells
<1> DEFINE l == Len(r)
<1>1. Radix \in Nat \ {0, 1} /\ l \in Nat /\ l + 1 \in 1..(l + 1) /\ ~ (l + 1 <= l)
  BY VarintAssumption DEF Bytewise
<1>2. CASE w < Radix
  <2>1. Written[w] = <<w>>
    BY <1>2, WrittenBytes
  <2>2. w \in 0..(2 * Radix - 1)
    BY <1>1, <1>2
  <2>3. <<w>> \in Bytewise /\ Len(<<w>>) = 1 /\ <<w>>[1] = w
    BY <2>2, OneByte
  <2>4. Len(s) = l + 1 /\ s[l + 1] = w
    <3>1. /\ Len(r \o <<w>>) = Len(r) + Len(<<w>>)
          /\ \A i \in 1..(Len(r) + Len(<<w>>)) :
               (r \o <<w>>)[i] = IF i <= Len(r) THEN r[i] ELSE <<w>>[i - Len(r)]
      BY <2>3, BytesJoined
    <3>2. (l + 1) - l = 1
      BY <1>1
    <3> QED
      BY <1>1, <2>1, <2>3, <3>1, <3>2
  <2>5. Len(s) > l /\ ~ (s[l + 1] >= Radix)
    BY <1>1, <1>2, <2>4
  <2> QED
    BY <2>4, <2>5, Zenon
<1>3. CASE ~ (w < Radix)
  <2> DEFINE b == (w % Radix) + Radix
             q == w \div Radix
  <2>1. b \in 0..(2 * Radix - 1) /\ b >= Radix /\ w >= Radix /\ ~ (b < Radix)
    BY <1>1, <1>3
  <2>2. q \in Nat \ {0} /\ Written[w] = <<b>> \o Written[q]
    BY <2>1, WrittenBytes
  <2> HIDE DEF b, q
  <2>3. /\ <<b>> \in Bytewise /\ Len(<<b>>) = 1 /\ <<b>>[1] = b
        /\ Written[q] \in Bytewise
    BY <2>1, <2>2, OneByte, WrittenTyped
  <2>4. s = (r \o <<b>>) \o Written[q]
    <3>1. (r \o <<b>>) \o Written[q] = r \o (<<b>> \o Written[q])
      BY <2>3, Regrouped
    <3> QED
      BY <2>2, <3>1, Zenon
  <2> DEFINE h == r \o <<b>>
  <2>5. h \in Bytewise /\ Len(h) = l + 1 /\ h[l + 1] = b
    <3>1. /\ h \in Bytewise
          /\ Len(h) = Len(r) + Len(<<b>>)
          /\ \A i \in 1..(Len(r) + Len(<<b>>)) :
               h[i] = IF i <= Len(r) THEN r[i] ELSE <<b>>[i - Len(r)]
      BY <2>3, BytesJoined
    <3>2. (l + 1) - l = 1
      BY <1>1
    <3> HIDE DEF h
    <3> QED
      BY <1>1, <2>3, <3>1, <3>2
  <2>6. Len(s) > l /\ s[l + 1] = b
    <3> HIDE DEF h
    <3>1. /\ Len(h \o Written[q]) = Len(h) + Len(Written[q])
          /\ \A i \in 1..(Len(h) + Len(Written[q])) :
               (h \o Written[q])[i] = IF i <= Len(h) THEN h[i] ELSE Written[q][i - Len(h)]
      BY <2>3, <2>5, BytesJoined
    <3>2. s = h \o Written[q]
      BY <2>4 DEF h
    <3>3. PICK n \in Nat : n = Len(Written[q])
      BY <2>3 DEF Bytewise
    <3>4. l + 1 \in 1..((l + 1) + n) /\ l + 1 <= l + 1 /\ (l + 1) + n > l
      BY <1>1
    <3>5. Len(s) = (l + 1) + n
      BY <2>5, <3>1, <3>2, <3>3
    <3>6. s[l + 1] = h[l + 1]
      BY <2>5, <3>1, <3>2, <3>3, <3>4
    <3> QED
      BY <2>5, <3>4, <3>5, <3>6
  <2> QED
    BY <2>1, <2>2, <2>4, <2>6 DEF b, q
<1> QED
  BY <1>2, <1>3

\* A marked byte is what the writer puts before any further number.
LEMMA MarkedByte ==
  ASSUME NEW p \in 0..(Radix - 1), NEW w \in Nat \ {0}
  PROVE  Written[p + w * Radix] = <<p + Radix>> \o Written[w]
<1>1. Radix \in Nat \ {0, 1}
  BY VarintAssumption
<1>2. /\ p + w * Radix \in Nat
      /\ p + w * Radix >= Radix
      /\ (p + w * Radix) % Radix = p
      /\ (p + w * Radix) \div Radix = w
  BY <1>1
<1> HIDE <1>1
<1>3. Written[p + w * Radix]
        = <<((p + w * Radix) % Radix) + Radix>> \o Written[(p + w * Radix) \div Radix]
  BY <1>2, WrittenBytes
<1> QED
  BY <1>2, <1>3

\* r is what the writer starts every number with that agrees with v in its
\* lowest k payloads.
Starts(r, v, k) ==
  \A w \in Nat \ {0} : Written[v + w * Weight[k]] = r \o Written[w]

LEMMA StartsLonger ==
  ASSUME NEW r \in Bytewise, NEW v \in Nat, NEW k \in Nat, NEW p \in 0..(Radix - 1),
         Starts(r, v, k)
  PROVE  /\ Starts(r \o <<p + Radix>>, v + p * Weight[k], k + 1)
         /\ p # 0 => Written[v + p * Weight[k]] = r \o <<p>>
<1>1. Radix \in Nat \ {0, 1}
  BY VarintAssumption
<1>2. PICK m \in Nat \ {0} : m = Weight[k] /\ Weight[k + 1] = Radix * m
  BY Weights
<1>3. ASSUME NEW w \in Nat \ {0}
      PROVE  Written[(v + p * Weight[k]) + w * Weight[k + 1]] = (r \o <<p + Radix>>) \o Written[w]
  <2>1. p + w * Radix \in Nat \ {0}
    BY <1>1
  <2>2. (v + p * m) + w * (Radix * m) = v + (p + w * Radix) * m
    BY <1>1
  <2>3. Written[v + (p + w * Radix) * m] = r \o Written[p + w * Radix]
    BY <1>2, <2>1 DEF Starts
  <2>4. Written[p + w * Radix] = <<p + Radix>> \o Written[w]
    BY MarkedByte
  <2>5. (r \o <<p + Radix>>) \o Written[w] = r \o (<<p + Radix>> \o Written[w])
    <3>1. p + Radix \in 0..(2 * Radix - 1)
      BY <1>1
    <3>2. <<p + Radix>> \in Bytewise /\ Written[w] \in Bytewise
      BY <3>1, OneByte, WrittenTyped
    <3> QED
      BY <3>2, Regrouped
  <2> QED
    BY <1>2, <2>2, <2>3, <2>4, <2>5
<1>4. ASSUME p # 0 PROVE Written[v + p * Weight[k]] = r \o <<p>>
  <2>1. p \in Nat \ {0} /\ p < Radix
    BY <1>1, <1>4
  <2>2. Written[p] = <<p>>
    BY <2>1, WrittenBytes
  <2> QED
    BY <2>1, <2>2 DEF Starts
<1> QED
  BY <1>3, <1>4 DEF Starts

\* s is written for no number but those that r and what is left of them spell.
Leaves(s, r, v, k) ==
  \A u \in Nat : s = Written[u] =>
    \E w \in Nat : u = v + w * Weight[k] /\ Spells(s, r, w) /\ (k = 0 \/ w # 0)

LEMMA LeavesLess ==
  ASSUME NEW s, NEW r \in Bytewise, NEW v \in Nat, NEW k \in Nat, Leaves(s, r, v, k),
         NEW b, b = s[Len(r) + 1], b >= Radix, b \in 0..(2 * Radix - 1)
  PROVE  Leaves(s, r \o <<b>>, v + (b % Radix) * Weight[k], k + 1)
<1>1. Radix \in Nat \ {0, 1}
  BY VarintAssumption
<1>2. PICK m \in Nat \ {0} : m = Weight[k] /\ Weight[k + 1] = Radix * m
  BY Weights
<1> SUFFICES ASSUME NEW u \in Nat, s = Written[u]
             PROVE  \E w \in Nat : /\ u = (v + (b % Radix) * Weight[k]) + w * Weight[k + 1]
                                   /\ Spells(s, r \o <<b>>, w)
                                   /\ (k + 1 = 0 \/ w # 0)
  BY DEF Leaves
<1>3. PICK w \in Nat : u = v + w * Weight[k] /\ Spells(s, r, w)
  BY DEF Leaves
<1>4. /\ w \div Radix \in Nat \ {0}
      /\ b = (w % Radix) + Radix
      /\ Spells(s, r \o <<b>>, w \div Radix)
  <2>1. s[Len(r) + 1] >= Radix =>
          /\ w >= Radix /\ w \div Radix \in Nat \ {0}
          /\ s[Len(r) + 1] = (w % Radix) + Radix
          /\ Spells(s, r \o <<s[Len(r) + 1]>>, w \div Radix)
    BY <1>3, FirstByte
  <2> QED
    BY <2>1, Zenon
<1>5. PICK q \in Nat \ {0}, p \in 0..(Radix - 1) :
        q = w \div Radix /\ p = w % Radix /\ w = q * Radix + p
  BY <1>1, <1>4
<1>6. b % Radix = p
  <2>1. b = p + Radix
    BY <1>4, <1>5
  <2>2. (p + Radix) % Radix = p
    BY <1>1
  <2> QED
    BY <2>1, <2>2, Zenon
<1>7. u = (v + p * m) + q * (Radix * m)
  <2>1. u = v + (q * Radix + p) * m
    BY <1>2, <1>3, <1>5
  <2> QED
    BY <1>1, <2>1
<1> QED
  BY <1>2, <1>4, <1>5, <1>6, <1>7

-----------------------------------------------------------------------------
\* The reader's invariant

Taken == SubSeq(bytes, 1, pos)

ReaderTypeOK ==
  /\ bytes \in Bytes
  /\ purpose \in {"single", "payload"}
  /\ pos \in 0..Len(bytes)
  /\ reading \in {"number", "rest", "done", "error", "panic"}

\* While a number is read: every number that goes on as the bytes read so far
\* is written with those bytes first, and no other number is written as bytes.
NumberInv ==
  reading = "number" =>
    /\ index = pos /\ index \in 0..(MaxBytes - 1)
    /\ value \in 0..(Weight[index] - 1)
    /\ Starts(Taken, value, index)
    /\ Leaves(bytes, Taken, value, index)

\* Once it is read: the bytes read are what is written for it, and if bytes are
\* written for any number, none is left.
RestInv ==
  reading = "rest" =>
    /\ value \in 0..(Word - 1)
    /\ Written[value] = Taken
    /\ \A u \in Nat : bytes = Written[u] => pos = Len(bytes)

VarintInv ==
  /\ ReaderTypeOK
  /\ NumberInv
  /\ RestInv
  /\ AcceptsOnlyWritten

\* The word and the bytes of the input.
LEMMA ReaderFacts ==
  ASSUME ReaderTypeOK
  PROVE  /\ Radix \in Nat \ {0, 1} /\ MaxBytes \in Nat \ {0} /\ LastMax \in 0..(Radix - 1)
         /\ Word \in Nat \ {0} /\ Word = (LastMax + 1) * Weight[MaxBytes - 1]
         /\ bytes \in Bytewise /\ Len(bytes) \in Nat /\ Len(bytes) < Word
         /\ pos \in 0..Len(bytes)
         /\ Taken \in Bytewise /\ Len(Taken) = pos
<1>1. /\ Radix \in Nat \ {0, 1} /\ MaxBytes \in Nat \ {0} /\ LastMax \in 0..(Radix - 1)
      /\ Word = (LastMax + 1) * Weight[MaxBytes - 1]
  BY VarintAssumption
<1>2. Word \in Nat \ {0}
  <2>1. MaxBytes - 1 \in Nat
    BY <1>1
  <2>2. PICK m \in Nat \ {0} : m = Weight[MaxBytes - 1]
    BY <2>1, Weights
  <2> QED
    BY <1>1, <2>2
<1>3. /\ bytes \in Bytewise /\ Len(bytes) \in Nat /\ Len(bytes) < Word
      /\ pos \in 0..Len(bytes)
  BY VarintAssumption DEF ReaderTypeOK, Bytewise
<1>4. Taken \in Bytewise /\ Len(Taken) = pos
  <2> DEFINE B == 0..(2 * Radix - 1)
  <2>1. bytes \in Seq(B) /\ 1 \in Int /\ pos \in Int /\ pos \in Nat
    BY <1>3 DEF Bytewise
  <2>2. \A i \in 1..pos : bytes[i] \in B
    <3> HIDE DEF B
    <3> QED
      BY <1>3, <2>1
  <2> HIDE DEF B
  <2>3. /\ SubSeq(bytes, 1, pos) \in Seq(B)
        /\ Len(SubSeq(bytes, 1, pos)) = IF 1 <= pos THEN pos - 1 + 1 ELSE 0
    BY <2>1, <2>2, SubSeqProperties
  <2> QED
    BY <2>1, <2>3 DEF Taken, Bytewise, B
<1> QED
  BY <1>1, <1>2, <1>3, <1>4

\* The next byte.
LEMMA ByteFacts ==
  ASSUME ReaderTypeOK, pos < Len(bytes)
  PROVE  /\ Byte \in 0..(2 * Radix - 1) /\ Payload \in 0..(Radix - 1)
         /\ Byte = bytes[Len(Taken) + 1]
         /\ Continues => Byte >= Radix /\ Byte = Payload + Radix
         /\ ~ Continues => Byte < Radix /\ Byte = Payload
         /\ SubSeq(bytes, 1, pos + 1) = Taken \o <<Byte>>
         /\ pos + 1 \in 0..Len(bytes)
<1>1. /\ Radix \in Nat \ {0, 1} /\ bytes \in Bytewise /\ Len(bytes) \in Nat
      /\ pos \in 0..Len(bytes) /\ Len(Taken) = pos
  BY ReaderFacts
<1>2. pos + 1 \in 1..Len(bytes)
  BY <1>1
<1>3. Byte \in 0..(2 * Radix - 1)
  <2> DEFINE B == 0..(2 * Radix - 1)
  <2>1. bytes \in Seq(B)
    BY <1>1 DEF Bytewise
  <2> HIDE DEF B
  <2>2. bytes[pos + 1] \in B
    BY <1>2, <2>1
  <2> QED
    BY <2>2 DEF B, Byte
<1>4. /\ Byte % Radix \in 0..(Radix - 1)
      /\ Byte >= Radix => Byte = (Byte % Radix) + Radix
      /\ ~ (Byte >= Radix) => Byte < Radix /\ Byte = Byte % Radix
  BY <1>1, <1>3
<1>5. SubSeq(bytes, 1, pos + 1) = Taken \o <<Byte>>
  <2> DEFINE B == 0..(2 * Radix - 1)
  <2>1. bytes \in Seq(B) /\ 1 \in 1..Len(bytes) /\ pos + 1 \in 1..Len(bytes)
        /\ (pos + 1) - 1 = pos
    BY <1>1, <1>2 DEF Bytewise
  <2> HIDE DEF B
  <2>2. SubSeq(bytes, 1, pos + 1) = SubSeq(bytes, 1, (pos + 1) - 1) \o <<bytes[pos + 1]>>
    BY <2>1, SubSeqRecursiveSecond
  <2> QED
    BY <2>1, <2>2 DEF Taken, Byte
<1>6. Byte = bytes[Len(Taken) + 1]
  BY <1>1 DEF Byte
<1>7. pos + 1 \in 0..Len(bytes)
  BY <1>1, <1>2
<1> QED
  BY <1>3, <1>4, <1>5, <1>6, <1>7 DEF Payload, Continues

\* What a byte adds fits the word unless the last byte holds too much; then so
\* would every number with these bytes.
LEMMA SumFits ==
  ASSUME NEW k \in 0..(MaxBytes - 1), NEW v \in 0..(Weight[k] - 1),
         NEW p \in 0..(Radix - 1)
  PROVE  /\ v + p * Weight[k] \in Nat
         /\ ~ (k = MaxBytes - 1 /\ p > LastMax) =>
              v + p * Weight[k] < Word /\ (v + p * Weight[k]) % Word = v + p * Weight[k]
         /\ v + p * Weight[k] \in 0..(Weight[k + 1] - 1)
         /\ (v + p * Weight[k] >= Weight[k]) = (p # 0)
         /\ k = MaxBytes - 1 =>
              \A w \in Nat : w > LastMax => v + w * Weight[k] >= Word
<1>1. /\ Radix \in Nat \ {0, 1} /\ MaxBytes \in Nat \ {0} /\ LastMax \in 0..(Radix - 1)
      /\ Word = (LastMax + 1) * Weight[MaxBytes - 1]
  BY VarintAssumption
<1>2. k \in Nat /\ MaxBytes - 1 \in Nat
  BY <1>1
<1>3. PICK m, n, top \in Nat \ {0} :
        m = Weight[k] /\ n = Weight[k + 1] /\ top = Weight[MaxBytes - 1]
  <2>1. /\ Weight[k] \in Nat \ {0} /\ Weight[MaxBytes - 1] \in Nat \ {0}
        /\ Weight[k + 1] \in Nat \ {0}
    <3>1. k + 1 \in Nat
      BY <1>2
    <3> QED
      BY <1>2, <3>1, Weights
  <2> QED
    BY <2>1
<1>4. n = Radix * m
  BY <1>2, <1>3, Weights
<1>5. v \in 0..(m - 1)
  BY <1>3
<1>6. v + p * m \in Nat /\ v + p * m < (p + 1) * m
  BY <1>1, <1>5
<1>7. (p + 1) * m <= n
  <2>1. p + 1 <= Radix /\ p \in Nat
    BY <1>1
  <2> QED
    BY <1>1, <1>4, <2>1
<1>8. (v + p * m >= m) = (p # 0)
  BY <1>1, <1>5
<1>9. ASSUME ~ (k = MaxBytes - 1 /\ p > LastMax)
      PROVE  v + p * m < Word
  <2>1. CASE k = MaxBytes - 1
    <3>1. p + 1 <= LastMax + 1 /\ Word = (LastMax + 1) * m
      BY <1>1, <1>3, <1>9, <2>1
    <3>2. (p + 1) * m <= (LastMax + 1) * m
      BY <1>1, <3>1
    <3>3. PICK big \in Nat : big = (LastMax + 1) * m
      BY <1>1
    <3>4. PICK mid \in Nat : mid = (p + 1) * m
      BY <1>1
    <3> QED
      BY <1>6, <3>1, <3>2, <3>3, <3>4
  <2>2. CASE k # MaxBytes - 1
    <3>1. k + 1 \in 0..(MaxBytes - 1)
      BY <1>1, <2>2
    <3>2. n <= top
      BY <1>2, <1>3, <3>1, WeightsGrow
    <3>3. top <= Word /\ Word \in Nat
      BY <1>1, <1>3
    <3>4. PICK mid \in Nat : mid = (p + 1) * m
      BY <1>1
    <3> QED
      BY <1>6, <1>7, <3>2, <3>3, <3>4
  <2> QED
    BY <2>1, <2>2
<1>10. Word \in Nat \ {0}
  BY <1>1, <1>3
<1>11. \A x \in Nat : x < Word => x % Word = x
  BY <1>10
<1>12. ASSUME k = MaxBytes - 1, NEW w \in Nat, w > LastMax
       PROVE  v + w * m >= Word
  <2>1. Word = (LastMax + 1) * m
    BY <1>1, <1>3, <1>12
  <2>2. w >= LastMax + 1
    BY <1>1, <1>12
  <2>3. w * m >= (LastMax + 1) * m
    BY <1>1, <2>2
  <2>4. PICK big, mid \in Nat : big = w * m /\ mid = (LastMax + 1) * m
    BY <1>1
  <2> QED
    BY <1>5, <2>1, <2>3, <2>4
<1>13. v + p * m \in 0..(n - 1)
  <2>1. PICK mid \in Nat : mid = (p + 1) * m
    BY <1>1
  <2>2. PICK sum \in Nat : sum = v + p * m
    BY <1>6
  <2> QED
    BY <1>6, <1>7, <2>1, <2>2
<1> QED
  BY <1>3, <1>6, <1>8, <1>9, <1>11, <1>12, <1>13

-----------------------------------------------------------------------------
\* Every step keeps the invariant

\* ReaderInit => VarintInv.
LEMMA VarintInvInit ==
  ASSUME ReaderInit
  PROVE  VarintInv
<1>1. /\ bytes \in Bytes /\ purpose \in {"single", "payload"}
      /\ pos = 0 /\ index = 0 /\ value = 0 /\ reading = "number"
  BY DEF ReaderInit
<1>2. ReaderTypeOK
  <2>1. Len(bytes) \in Nat
    BY <1>1, VarintAssumption
  <2> QED
    BY <1>1, <2>1 DEF ReaderTypeOK
<1>3. /\ MaxBytes \in Nat \ {0} /\ Taken \in Bytewise /\ Len(Taken) = 0
  BY <1>1, <1>2, ReaderFacts
<1>4. Taken = <<>>
  BY <1>3 DEF Bytewise
<1>5. Weight[0] = 1
  BY Weights
<1>6. ASSUME NEW w \in Nat PROVE 0 + w * 1 = w /\ <<>> \o Written[w] = Written[w]
  <2>1. Written[w] \in Seq(0..(2 * Radix - 1))
    BY WrittenBytes
  <2>2. <<>> \o Written[w] = Written[w]
    BY <2>1, ConcatEmptySeq
  <2> QED
    BY <2>2
<1>7. Starts(Taken, value, index)
  <2>1. ASSUME NEW w \in Nat \ {0} PROVE Written[0 + w * 1] = <<>> \o Written[w]
    BY <1>6
  <2> QED
    BY <1>1, <1>4, <1>5, <2>1, Zenon DEF Starts
<1>8. Leaves(bytes, Taken, value, index)
  <2>1. ASSUME NEW u \in Nat, bytes = Written[u]
        PROVE  /\ u = value + u * Weight[index] /\ Spells(bytes, Taken, u) /\ index = 0
    BY <1>1, <1>4, <1>5, <1>6, <2>1 DEF Spells
  <2> QED
    BY <2>1 DEF Leaves
<1>9. NumberInv
  <2>1. 0 \in 0..(MaxBytes - 1) /\ 0 \in 0..(1 - 1)
    BY <1>3
  <2> QED
    BY <1>1, <1>5, <1>7, <1>8, <2>1 DEF NumberInv
<1> QED
  BY <1>1, <1>2, <1>9 DEF VarintInv, RestInv, AcceptsOnlyWritten

\* What the invariant says while a number is read and a byte is left.
LEMMA AtByte ==
  ASSUME VarintInv, reading = "number", pos < Len(bytes)
  PROVE  /\ index = pos /\ index \in 0..(MaxBytes - 1) /\ index \in Nat
         /\ value \in 0..(Weight[index] - 1) /\ value \in Nat
         /\ Starts(Taken, value, index) /\ Leaves(bytes, Taken, value, index)
         /\ ~ Overflows => Extended = value + Payload * Weight[index] /\ Extended \in 0..(Word - 1)
<1>1. ReaderTypeOK /\ NumberInv
  BY DEF VarintInv
<1>2. /\ index = pos /\ index \in 0..(MaxBytes - 1)
      /\ value \in 0..(Weight[index] - 1)
      /\ Starts(Taken, value, index) /\ Leaves(bytes, Taken, value, index)
  BY <1>1 DEF NumberInv
<1>3. Payload \in 0..(Radix - 1)
  BY <1>1, ByteFacts
<1>4. index \in Nat /\ value \in Nat
  BY <1>1, <1>2, ReaderFacts
<1>5. ASSUME ~ Overflows
      PROVE  Extended = value + Payload * Weight[index] /\ Extended \in 0..(Word - 1)
  <2>1. ~ (index = MaxBytes - 1 /\ Payload > LastMax)
    BY <1>5 DEF Overflows
  <2>2. PICK sum \in Nat : /\ sum = value + Payload * Weight[index]
                           /\ sum < Word /\ sum % Word = sum
    BY <1>2, <1>3, <2>1, SumFits
  <2>3. Word \in Nat
    BY <1>1, ReaderFacts
  <2> QED
    BY <2>2, <2>3 DEF Extended
<1> QED
  BY <1>2, <1>4, <1>5

\* A refused byte is one that the writer puts nowhere.
LEMMA RejectByteKeeps ==
  ASSUME VarintInv, RejectByte
  PROVE  VarintInv'
<1>1. ReaderTypeOK /\ NumberInv
  BY DEF VarintInv
<1>2. /\ reading = "number" /\ reading' = "error"
      /\ pos' = (IF pos < Len(bytes) THEN pos + 1 ELSE pos)
      /\ UNCHANGED <<bytes, purpose, index, value>>
      /\ \/ pos >= Len(bytes)
         \/ pos < Len(bytes) /\ Overflows
         \/ pos < Len(bytes) /\ Continues /\ index = MaxBytes - 1
         \/ pos < Len(bytes) /\ ~ Continues /\ ~ Canonical
  BY DEF RejectByte
<1>3. /\ Len(bytes) \in Nat /\ pos \in 0..Len(bytes)
      /\ Taken \in Bytewise /\ Len(Taken) = pos
      /\ Radix \in Nat \ {0, 1} /\ LastMax \in 0..(Radix - 1) /\ Word \in Nat \ {0}
  BY <1>1, ReaderFacts
<1>4. /\ index \in 0..(MaxBytes - 1) /\ value \in 0..(Weight[index] - 1)
      /\ Leaves(bytes, Taken, value, index)
  BY <1>1, <1>2 DEF NumberInv
<1>5. ASSUME NEW u \in 0..(Word - 1), bytes = Written[u] PROVE FALSE
  <2>1. u \in Nat /\ u < Word
    BY <1>3
  <2>2. PICK w \in Nat : /\ u = value + w * Weight[index] /\ Spells(bytes, Taken, w)
                         /\ index = 0 \/ w # 0
    BY <1>4, <1>5, <2>1 DEF Leaves
  <2>3. /\ Len(bytes) > pos
        /\ bytes[pos + 1] < Radix => bytes[pos + 1] = w
        /\ bytes[pos + 1] >= Radix =>
             w >= Radix /\ bytes[pos + 1] = (w % Radix) + Radix
    BY <1>3, <2>2, FirstByte
  <2>4. pos < Len(bytes)
    BY <1>3, <2>3
  <2>5. /\ Payload \in 0..(Radix - 1)
        /\ Continues => Byte >= Radix /\ Byte = Payload + Radix
        /\ ~ Continues => Byte < Radix /\ Byte = Payload
    BY <1>1, <2>4, ByteFacts
  <2>6. /\ Continues => w >= Radix
        /\ ~ Continues => w = Payload
    BY <2>3, <2>5 DEF Byte
  <2>7. index = MaxBytes - 1 => ~ (w > LastMax)
    <3>1. index = MaxBytes - 1 => \A x \in Nat : x > LastMax => value + x * Weight[index] >= Word
      BY <1>4, <2>5, SumFits
    <3>2. PICK sum \in Nat : sum = value + w * Weight[index] /\ sum < Word
      BY <2>1, <2>2
    <3> QED
      BY <1>3, <3>1, <3>2
  <2>8. ~ (Continues /\ index = MaxBytes - 1)
    BY <1>3, <2>6, <2>7
  <2>9. ~ Overflows
    BY <1>3, <2>5, <2>6, <2>7, <2>8 DEF Overflows
  <2>10. ~ Continues /\ ~ Canonical
    BY <1>2, <1>3, <2>4, <2>8, <2>9
  <2>11. index # 0 /\ ~ (Extended >= Weight[index])
    BY <2>10 DEF Canonical
  <2>12. Extended = value + Payload * Weight[index]
    BY <1>2, <2>4, <2>9, AtByte
  <2>13. (value + Payload * Weight[index] >= Weight[index]) = (Payload # 0)
    BY <1>4, <2>5, SumFits
  <2>14. Payload = 0
    BY <2>11, <2>12, <2>13, Zenon
  <2> QED
    BY <2>2, <2>6, <2>10, <2>11, <2>14
<1>6. ~ Fits(bytes)
  BY <1>5 DEF Fits
<1>7. ReaderTypeOK'
  <2>1. pos' \in 0..Len(bytes)
    BY <1>2, <1>3
  <2> QED
    BY <1>1, <1>2, <2>1 DEF ReaderTypeOK
<1>8. Fits(bytes)' = Fits(bytes)
  BY <1>2 DEF Fits
<1> QED
  BY <1>2, <1>6, <1>7, <1>8 DEF VarintInv, NumberInv, RestInv, AcceptsOnlyWritten

\* A marked byte belongs to every number that is written with it.
LEMMA ReadContinuedKeeps ==
  ASSUME VarintInv, ReadContinued
  PROVE  VarintInv'
<1>1. ReaderTypeOK
  BY DEF VarintInv
<1>2. /\ reading = "number" /\ pos < Len(bytes) /\ ~ Overflows /\ Continues
      /\ index + 1 < MaxBytes
      /\ value' = Extended /\ index' = index + 1 /\ pos' = pos + 1
      /\ UNCHANGED <<bytes, purpose, reading>>
  BY DEF ReadContinued, AcceptsByte
<1>3. /\ index = pos /\ index \in 0..(MaxBytes - 1) /\ index \in Nat
      /\ value \in 0..(Weight[index] - 1) /\ value \in Nat
      /\ Starts(Taken, value, index) /\ Leaves(bytes, Taken, value, index)
      /\ Extended = value + Payload * Weight[index]
  BY <1>2, AtByte
<1>4. /\ Byte \in 0..(2 * Radix - 1) /\ Payload \in 0..(Radix - 1)
      /\ Byte = bytes[Len(Taken) + 1] /\ Byte >= Radix /\ Byte = Payload + Radix
      /\ SubSeq(bytes, 1, pos + 1) = Taken \o <<Byte>>
      /\ pos + 1 \in 0..Len(bytes)
  BY <1>1, <1>2, ByteFacts
<1>5. Taken \in Bytewise /\ MaxBytes \in Nat
  BY <1>1, ReaderFacts
<1>6. Taken' = Taken \o <<Byte>>
  BY <1>2, <1>4 DEF Taken
<1>7. Starts(Taken \o <<Byte>>, value + Payload * Weight[index], index + 1)
  <2>1. Starts(Taken \o <<Payload + Radix>>, value + Payload * Weight[index], index + 1)
    BY <1>3, <1>4, <1>5, StartsLonger
  <2> QED
    BY <1>4, <2>1, Zenon
<1>8. Leaves(bytes, Taken \o <<Byte>>, value + Payload * Weight[index], index + 1)
  <2>1. Leaves(bytes, Taken \o <<Byte>>, value + (Byte % Radix) * Weight[index], index + 1)
    BY <1>3, <1>4, <1>5, LeavesLess
  <2> QED
    BY <2>1, Zenon DEF Payload
<1>9. value + Payload * Weight[index] \in 0..(Weight[index + 1] - 1)
  BY <1>3, <1>4, SumFits
<1>10. index + 1 \in 0..(MaxBytes - 1)
  BY <1>2, <1>3, <1>5
<1>11. NumberInv'
  <2>1. Starts(Taken, value, index)'
    BY <1>2, <1>3, <1>6, <1>7, Zenon DEF Starts
  <2>2. Leaves(bytes, Taken, value, index)'
    BY <1>2, <1>3, <1>6, <1>8, Zenon DEF Leaves, Spells
  <2>3. index' = pos' /\ index' \in 0..(MaxBytes - 1) /\ value' \in 0..(Weight[index'] - 1)
    BY <1>2, <1>3, <1>9, <1>10
  <2> QED
    BY <2>1, <2>2, <2>3 DEF NumberInv
<1>12. ReaderTypeOK'
  BY <1>1, <1>2, <1>4 DEF ReaderTypeOK
<1> QED
  BY <1>2, <1>11, <1>12 DEF VarintInv, RestInv, AcceptsOnlyWritten

\* The last byte completes what is written for the number.
LEMMA ReadLastKeeps ==
  ASSUME VarintInv, ReadLast
  PROVE  VarintInv'
<1>1. ReaderTypeOK
  BY DEF VarintInv
<1>2. /\ reading = "number" /\ pos < Len(bytes) /\ ~ Overflows /\ ~ Continues /\ Canonical
      /\ value' = Extended /\ pos' = pos + 1 /\ reading' = "rest"
      /\ UNCHANGED <<bytes, purpose, index>>
  BY DEF ReadLast, AcceptsByte
<1>3. /\ index = pos /\ index \in 0..(MaxBytes - 1) /\ index \in Nat
      /\ value \in 0..(Weight[index] - 1) /\ value \in Nat
      /\ Starts(Taken, value, index) /\ Leaves(bytes, Taken, value, index)
      /\ Extended = value + Payload * Weight[index] /\ Extended \in 0..(Word - 1)
  BY <1>2, AtByte
<1>4. /\ Payload \in 0..(Radix - 1)
      /\ Byte = bytes[Len(Taken) + 1] /\ Byte < Radix /\ Byte = Payload
      /\ SubSeq(bytes, 1, pos + 1) = Taken \o <<Byte>>
      /\ pos + 1 \in 0..Len(bytes)
  BY <1>1, <1>2, ByteFacts
<1>5. Taken \in Bytewise /\ Len(Taken) = pos /\ Radix \in Nat \ {0, 1}
  BY <1>1, ReaderFacts
<1>6. Taken' = Taken \o <<Payload>>
  BY <1>2, <1>4 DEF Taken
<1>7. Written[Extended] = Taken \o <<Payload>>
  <2>1. CASE Payload # 0
    <3>1. Written[value + Payload * Weight[index]] = Taken \o <<Payload>>
      BY <1>3, <1>4, <1>5, <2>1, StartsLonger, ZenonT(30)
    <3> QED
      BY <1>3, <3>1, Zenon
  <2>2. CASE Payload = 0
    <3>1. ~ (value + Payload * Weight[index] >= Weight[index])
      BY <1>3, <1>4, <2>2, SumFits
    <3>2. index = 0
      BY <1>2, <1>3, <3>1, Zenon DEF Canonical
    <3>3. value = 0 /\ Extended = 0
      <4>1. Weight[0] = 1
        BY Weights
      <4>2. value = 0
        BY <1>3, <3>2, <4>1
      <4> QED
        BY <1>3, <2>2, <3>2, <4>1, <4>2
    <3>4. Taken = <<>>
      BY <1>3, <1>5, <3>2 DEF Bytewise
    <3>5. Written[0] = <<0>>
      <4>1. 0 \in Nat /\ 0 < Radix
        BY <1>5
      <4> QED
        BY <4>1, WrittenBytes
    <3>6. <<>> \o <<0>> = <<0>>
      BY ConcatEmptySeq
    <3> QED
      BY <2>2, <3>3, <3>4, <3>5, <3>6
  <2> QED
    BY <2>1, <2>2
<1>8. ASSUME NEW u \in Nat, bytes = Written[u] PROVE pos + 1 = Len(bytes)
  <2>1. PICK w \in Nat : Spells(bytes, Taken, w)
    BY <1>3, <1>8 DEF Leaves
  <2>2. bytes[Len(Taken) + 1] < Radix => Len(bytes) = Len(Taken) + 1
    BY <1>5, <2>1, FirstByte
  <2> QED
    BY <1>4, <1>5, <2>2
<1>9. RestInv'
  BY <1>2, <1>3, <1>6, <1>7, <1>8 DEF RestInv
<1>10. ReaderTypeOK'
  BY <1>1, <1>2, <1>4 DEF ReaderTypeOK
<1> QED
  BY <1>2, <1>9, <1>10 DEF VarintInv, NumberInv, AcceptsOnlyWritten

LEMMA EndSingleKeeps ==
  ASSUME VarintInv, EndSingle
  PROVE  VarintInv'
<1>1. /\ reading = "rest" /\ reading' = (IF pos = Len(bytes) THEN "done" ELSE "error")
      /\ UNCHANGED <<bytes, purpose, pos, index, value>>
  BY DEF EndSingle
<1>2. ReaderTypeOK /\ RestInv
  BY DEF VarintInv
<1>3. /\ value \in 0..(Word - 1) /\ Written[value] = Taken
      /\ \A u \in Nat : bytes = Written[u] => pos = Len(bytes)
  BY <1>1, <1>2 DEF RestInv
<1>4. bytes \in Bytewise /\ Word \in Nat
  BY <1>2, ReaderFacts
<1>5. pos = Len(bytes) => bytes = Taken
  BY <1>4, SubSeqFull DEF Taken, Bytewise
<1>6. AcceptsOnlyWritten'
  <2>1. CASE pos = Len(bytes)
    <3>1. value' < Word /\ bytes' = Written[value'] /\ reading' = "done"
      BY <1>1, <1>3, <1>4, <1>5, <2>1
    <3> QED
      BY <3>1 DEF AcceptsOnlyWritten
  <2>2. CASE pos # Len(bytes)
    <3>1. ~ Fits(bytes)
      BY <1>3, <1>4, <2>2 DEF Fits
    <3>2. Fits(bytes)' = Fits(bytes) /\ reading' = "error"
      BY <1>1, <2>2 DEF Fits
    <3> QED
      BY <3>1, <3>2 DEF AcceptsOnlyWritten
  <2> QED
    BY <2>1, <2>2
<1>7. ReaderTypeOK' /\ reading' \in {"done", "error"}
  BY <1>1, <1>2 DEF ReaderTypeOK
<1> QED
  BY <1>6, <1>7 DEF VarintInv, NumberInv, RestInv

\* Where the payload of the length just read ends, in either build; a sum that
\* wrapped around lies before the position.
LEMMA PayloadTaken ==
  ASSUME VarintInv, ReadPayload
  PROVE  /\ reading = "rest" /\ purpose = "payload"
         /\ reading' \in {"done", "error", "panic"}
         /\ pos' \in 0..Len(bytes) /\ pos <= pos'
         /\ reading' = "done" => pos' = pos + value
         /\ UNCHANGED <<bytes, purpose, index, value>>
<1>1. /\ reading = "rest" /\ purpose = "payload"
      /\ UNCHANGED <<bytes, purpose, index, value>>
      /\ IF pos + value < Word
         THEN TakePayload(pos + value)
         ELSE \/ reading' = "panic" /\ UNCHANGED pos
              \/ TakePayload((pos + value) % Word)
  BY DEF ReadPayload
<1>2. ReaderTypeOK /\ RestInv
  BY DEF VarintInv
<1>3. value \in 0..(Word - 1)
  BY <1>1, <1>2 DEF RestInv
<1>4. Word \in Nat \ {0} /\ Len(bytes) \in Nat /\ Len(bytes) < Word /\ pos \in 0..Len(bytes)
  BY <1>2, ReaderFacts
<1>5. ASSUME NEW end \in Nat, TakePayload(end)
      PROVE  /\ reading' \in {"done", "error"}
             /\ pos' \in 0..Len(bytes) /\ pos <= pos'
             /\ reading' = "done" => pos' = end /\ pos <= end
  BY <1>4, <1>5 DEF TakePayload, Slice
<1>6. CASE pos + value < Word
  <2>1. pos + value \in Nat /\ TakePayload(pos + value)
    BY <1>1, <1>3, <1>4, <1>6
  <2> QED
    BY <1>1, <1>5, <2>1
<1>7. CASE ~ (pos + value < Word) /\ TakePayload((pos + value) % Word)
  <2>1. (pos + value) % Word = (pos + value) - Word
    BY <1>3, <1>4, <1>7
  <2>2. (pos + value) % Word \in Nat /\ ~ (pos <= (pos + value) % Word)
    BY <1>3, <1>4, <1>7, <2>1
  <2> QED
    BY <1>1, <1>5, <1>7, <2>2
<1>8. CASE reading' = "panic" /\ UNCHANGED pos
  BY <1>1, <1>4, <1>8
<1> QED
  BY <1>1, <1>6, <1>7, <1>8

\* VarintInv /\ [ReaderNext]_readerVars => VarintInv'.
LEMMA VarintInvNext ==
  ASSUME VarintInv, [ReaderNext]_readerVars
  PROVE  VarintInv'
<1>1. CASE RejectByte
  BY <1>1, RejectByteKeeps
<1>2. CASE ReadContinued
  BY <1>2, ReadContinuedKeeps
<1>3. CASE ReadLast
  BY <1>3, ReadLastKeeps
<1>4. CASE EndSingle
  BY <1>4, EndSingleKeeps
<1>5. CASE ReadPayload
  <2>1. /\ reading' \in {"done", "error", "panic"} /\ purpose = "payload"
        /\ pos' \in 0..Len(bytes)
        /\ UNCHANGED <<bytes, purpose, index, value>>
    BY <1>5, PayloadTaken
  <2>2. ReaderTypeOK'
    BY <2>1 DEF VarintInv, ReaderTypeOK
  <2> QED
    BY <2>1, <2>2 DEF VarintInv, NumberInv, RestInv, AcceptsOnlyWritten
<1>6. CASE ReaderReturned \/ UNCHANGED readerVars
  <2>1. UNCHANGED readerVars
    BY <1>6 DEF ReaderReturned
  <2> QED
    BY <2>1 DEF readerVars, VarintInv, ReaderTypeOK, NumberInv, RestInv, Taken,
       AcceptsOnlyWritten, Fits, Starts, Leaves, Spells
<1> QED
  BY <1>1, <1>2, <1>3, <1>4, <1>5, <1>6 DEF ReaderNext

\* What the reader knows of the number holds in every behaviour.
THEOREM VarintInvariant == ReaderSpec => []VarintInv
<1>1. ReaderInit => VarintInv
  BY VarintInvInit
<1>2. VarintInv /\ [ReaderNext]_readerVars => VarintInv'
  BY VarintInvNext
<1> QED
  BY <1>1, <1>2, PTL DEF ReaderSpec

\* Whatever the bytes, the base and the width of the word: a private header is
\* accepted just when it is what the writer makes of a number that fits, and
\* that number is read.
THEOREM VarintExact == ReaderSpec => []AcceptsOnlyWritten
<1>1. VarintInv => AcceptsOnlyWritten
  BY DEF VarintInv
<1> QED
  BY <1>1, VarintInvariant, PTL

\* Whatever length a payload announces, the reader moves forward inside its
\* input, also where the end wraps around.
THEOREM VarintMovesForward == ReaderSpec => ReaderAdvances
<1>1. ASSUME VarintInv, [ReaderNext]_readerVars
      PROVE  [/\ pos <= pos' /\ pos' <= Len(bytes)
              /\ (purpose = "payload" /\ reading' = "done" /\ reading # "done")
                   => pos' = pos + value]_readerVars
  <2>1. Len(bytes) \in Nat /\ pos \in 0..Len(bytes)
    BY <1>1, ReaderFacts DEF VarintInv
  <2>2. CASE RejectByte
    <3>1. reading' = "error" /\ pos' = (IF pos < Len(bytes) THEN pos + 1 ELSE pos)
      BY <2>2 DEF RejectByte
    <3> QED
      BY <2>1, <3>1
  <2>3. CASE ReadContinued \/ ReadLast
    <3>1. pos < Len(bytes) /\ pos' = pos + 1 /\ reading' \in {"number", "rest"}
      BY <2>3 DEF ReadContinued, ReadLast, AcceptsByte
    <3> QED
      BY <2>1, <3>1
  <2>4. CASE EndSingle
    <3>1. purpose = "single" /\ pos' = pos
      BY <2>4 DEF EndSingle
    <3> QED
      BY <2>1, <3>1
  <2>5. CASE ReadPayload
    <3>1. /\ pos' \in 0..Len(bytes) /\ pos <= pos'
          /\ reading' = "done" => pos' = pos + value
      BY <1>1, <2>5, PayloadTaken
    <3> QED
      BY <2>1, <3>1
  <2>6. CASE ReaderReturned \/ UNCHANGED readerVars
    BY <2>6 DEF ReaderReturned
  <2> QED
    BY <1>1, <2>2, <2>3, <2>4, <2>5, <2>6 DEF ReaderNext
<1> QED
  BY <1>1, VarintInvariant, PTL DEF ReaderSpec, ReaderAdvances

===============================================================================
