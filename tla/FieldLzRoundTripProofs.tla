----------------------- MODULE FieldLzRoundTripProofs -----------------------
(***************************************************************************)
(* Proofs about FieldLzEncoder and FieldLzRoundTrip, for every chunk,      *)
(* every hash function and every value of the constants.                   *)
(*                                                                         *)
(* The encoder's inductive invariant is IInv: the shapes, the table, the   *)
(* marks and the description of each token hold together.  None of them is *)
(* inductive alone: a new token is right only because the table pointed    *)
(* behind the cursor, and the old tokens stay right only because the marks *)
(* bound what they look at to streams that grow at their ends.  That the   *)
(* streams mean the input, in the terms of FieldLzReference, follows from  *)
(* it by induction over the tokens.                                        *)
(*                                                                         *)
(* Then decode_side_streams accepts what encode_u32_to_side_streams wrote  *)
(* and gives the chunk back: the two functions implement LosslessCodec.    *)
(* The invariant RInv adds to IInv where the decoder stands.  After k      *)
(* tokens every one of its cursors is at the k-th mark the encoder left,   *)
(* and its output is the input up to the end of that mark.                 *)
(***************************************************************************)
EXTENDS FieldLzRoundTrip, FieldLzReferenceProofs

\* No more than one extra length per token, and at least two values for
\* each token besides its literals.
SizesFollowTokens ==
  /\ Len(out.extraLiteralLengths) <= Len(out.tokens)
  /\ Len(out.extraMatchLengths) <= Len(out.tokens)
  /\ marks[Len(marks)].literals + 2 * Len(out.tokens) <= anchor

IInv ==
  /\ TypeOK
  /\ TableBehindCursor
  /\ MarksFollowStreams
  /\ TokensDescribeInput
  /\ SizesFollowTokens
  /\ NeverFails

-----------------------------------------------------------------------------
\* Lemmas about the operators of the model

\* A chunk is a non-empty sequence of at most MaxChunk values.
LEMMA ChunkIsSequence ==
  ASSUME input \in Chunk
  PROVE  /\ input \in Seq(Value)
         /\ N \in 1..MaxChunk
         /\ \A p \in 1..N : input[p] \in Value
<1>1. PICK n \in 1..MaxChunk : input \in [1..n -> Value]
  BY FormatAssumption DEF Chunk
<1>2. input \in Seq(Value) /\ Len(input) = n
  BY <1>1, FormatAssumption
<1> QED
  BY <1>1, <1>2 DEF N

\* What a concatenation holds, one half at a time.
LEMMA ConcatenatedSequences ==
  ASSUME NEW T, NEW s1 \in Seq(T), NEW s2 \in Seq(T)
  PROVE  /\ s1 \o s2 \in Seq(T)
         /\ Len(s1 \o s2) = Len(s1) + Len(s2)
         /\ \A q \in 1..Len(s1) : (s1 \o s2)[q] = s1[q]
         /\ \A q \in 1..Len(s2) : (s1 \o s2)[Len(s1) + q] = s2[q]
<1>1. /\ s1 \o s2 \in Seq(T)
      /\ Len(s1 \o s2) = Len(s1) + Len(s2)
      /\ \A i \in 1..Len(s1) + Len(s2) :
           (s1 \o s2)[i] = IF i <= Len(s1) THEN s1[i] ELSE s2[i - Len(s1)]
  BY ConcatProperties
<1>2. Len(s1) \in Nat /\ Len(s2) \in Nat
  OBVIOUS
<1>3. ASSUME NEW q \in 1..Len(s1) PROVE (s1 \o s2)[q] = s1[q]
  <2>1. q \in 1..Len(s1) + Len(s2) /\ q <= Len(s1)
    BY <1>2
  <2> QED
    BY <1>1, <2>1
<1>4. ASSUME NEW q \in 1..Len(s2) PROVE (s1 \o s2)[Len(s1) + q] = s2[q]
  <2> DEFINE i == Len(s1) + q
  <2>1. i \in 1..Len(s1) + Len(s2) /\ ~ (i <= Len(s1)) /\ i - Len(s1) = q
    BY <1>2
  <2> HIDE DEF i
  <2>2. (s1 \o s2)[i] = s2[q]
    BY <1>1, <2>1
  <2> QED
    BY <2>2 DEF i
<1> QED
  BY <1>1, <1>3, <1>4

\* Appending a piece of the input to the literals changes nothing else.
LEMMA LiteralsAppended ==
  ASSUME input \in Chunk, NEW s \in Streams,
         NEW from \in 0..N, NEW to \in from..N
  PROVE  LET r == AppendLiterals(s, from, to)
         IN  /\ r \in Streams
             /\ r.tokens = s.tokens
             /\ r.offsets = s.offsets
             /\ r.extraLiteralLengths = s.extraLiteralLengths
             /\ r.extraMatchLengths = s.extraMatchLengths
             /\ Len(r.literals) = Len(s.literals) + (to - from)
             /\ \A q \in 1..Len(s.literals) : r.literals[q] = s.literals[q]
             /\ \A q \in 1..(to - from) :
                  r.literals[Len(s.literals) + q] = input[from + q]
<1> DEFINE r == AppendLiterals(s, from, to)
           piece == SubSeq(input, from + 1, to)
<1>1. input \in Seq(Value) /\ N \in Nat /\ Len(input) = N
  BY ChunkIsSequence, FormatAssumption DEF N
<1>2. from \in Nat /\ to \in Nat /\ from <= to /\ to <= N
  BY <1>1
<1>3. /\ piece \in Seq(Value)
      /\ Len(piece) = to - from
      /\ \A q \in 1..(to - from) : piece[q] = input[from + q]
  BY <1>1, <1>2
<1>4. s.literals \in Seq(Value)
  BY DEF Streams
<1>5. r = [s EXCEPT !.literals = s.literals \o piece]
  BY DEF AppendLiterals
<1> HIDE DEF piece, r
<1>6. s.literals \o piece \in Seq(Value)
  BY <1>3, <1>4
<1>7. /\ r \in Streams
      /\ r.literals = s.literals \o piece
      /\ r.tokens = s.tokens
      /\ r.offsets = s.offsets
      /\ r.extraLiteralLengths = s.extraLiteralLengths
      /\ r.extraMatchLengths = s.extraMatchLengths
  BY <1>5, <1>6 DEF Streams
<1>8. /\ Len(s.literals \o piece) = Len(s.literals) + (to - from)
      /\ \A q \in 1..Len(s.literals) : (s.literals \o piece)[q] = s.literals[q]
      /\ \A q \in 1..(to - from) :
           (s.literals \o piece)[Len(s.literals) + q] = piece[q]
  <2>1. PICK lits \in Seq(Value) : lits = s.literals
    BY <1>4
  <2>2. PICK more \in Seq(Value) : more = piece
    BY <1>3
  <2>3. /\ Len(lits \o more) = Len(lits) + Len(more)
        /\ \A q \in 1..Len(lits) : (lits \o more)[q] = lits[q]
        /\ \A q \in 1..Len(more) : (lits \o more)[Len(lits) + q] = more[q]
    BY ONLY ConcatenatedSequences
  <2>4. Len(more) = to - from
    BY <1>3, <2>2
  <2> QED
    BY <2>1, <2>2, <2>3, <2>4, Zenon
<1> QED
  BY <1>3, <1>7, <1>8 DEF r

\* The token for a literal run and a match, as a record.
TokenFor(lit, len) ==
  [offsetCode  |-> 3,
   literalCode |-> IF lit >= CodeMax THEN CodeMax ELSE lit,
   matchCode   |-> IF len >= CodeMax + 1 THEN CodeMax ELSE len - 1,
   reserved    |-> FALSE]

\* r is s with the token of these lengths, its offset and its extra lengths.
HasOneMoreToken(r, s, lit, len, off) ==
  /\ r \in Streams
  /\ r.literals = s.literals
  /\ r.tokens = Append(s.tokens, TokenFor(lit, len))
  /\ r.offsets = Append(s.offsets, off)
  /\ r.extraLiteralLengths =
       IF lit >= CodeMax THEN Append(s.extraLiteralLengths, lit - CodeMax)
       ELSE s.extraLiteralLengths
  /\ r.extraMatchLengths =
       IF len >= CodeMax + 1
       THEN Append(s.extraMatchLengths, len - (CodeMax + 1))
       ELSE s.extraMatchLengths

\* Appending a token leaves the literals alone and keeps the stream types.
LEMMA TokenAppended ==
  ASSUME NEW s \in Streams, NEW lit \in Nat, NEW len \in Nat \ {0}, NEW off \in Nat,
         NEW r, r = AppendMatchSequence(s, lit, len, off)
  PROVE  HasOneMoreToken(r, s, lit, len, off)
<1> DEFINE literalExtras ==
             IF lit >= CodeMax THEN Append(s.extraLiteralLengths, lit - CodeMax)
             ELSE s.extraLiteralLengths
           matchExtras ==
             IF len >= CodeMax + 1
             THEN Append(s.extraMatchLengths, len - (CodeMax + 1))
             ELSE s.extraMatchLengths
<1>1. /\ s.tokens \in Seq(Token)
      /\ s.offsets \in Seq(Nat)
      /\ s.extraLiteralLengths \in Seq(Nat)
      /\ s.extraMatchLengths \in Seq(Nat)
      /\ s.literals \in Seq(Value)
  BY DEF Streams
<1>2. TokenFor(lit, len) \in Token
  BY FormatAssumption DEF TokenFor, Token
<1>3. Append(s.tokens, TokenFor(lit, len)) \in Seq(Token)
  BY <1>1, <1>2
<1>4. Append(s.offsets, off) \in Seq(Nat)
  BY <1>1
<1>5. literalExtras \in Seq(Nat)
  BY <1>1, FormatAssumption
<1>6. matchExtras \in Seq(Nat)
  BY <1>1, FormatAssumption
<1>7. r = [s EXCEPT !.tokens = Append(s.tokens, TokenFor(lit, len)),
                    !.offsets = Append(s.offsets, off),
                    !.extraLiteralLengths = literalExtras,
                    !.extraMatchLengths = matchExtras]
  BY DEF AppendMatchSequence, TokenFor
<1> HIDE DEF literalExtras, matchExtras
<1>8. /\ r \in Streams
      /\ r.literals = s.literals
      /\ r.tokens = Append(s.tokens, TokenFor(lit, len))
      /\ r.offsets = Append(s.offsets, off)
      /\ r.extraLiteralLengths = literalExtras
      /\ r.extraMatchLengths = matchExtras
  BY <1>1, <1>3, <1>4, <1>5, <1>6, <1>7 DEF Streams
<1> QED
  BY <1>8 DEF HasOneMoreToken, literalExtras, matchExtras

\* Where the table may point when the cursor stands at c.
BehindIn(t, c) ==
  \A h \in Bucket : t[h] # 0 =>
    /\ t[h] <= c
    /\ t[h] < N
    /\ HashAt(t[h] - 1) = h

\* Seeding inside a match leaves every entry behind the end of the match.
LEMMA SeedsBehindMatchEnd ==
  ASSUME input \in Chunk,
         NEW t \in [Bucket -> 0..N],
         NEW start \in 0..N, NEW end \in start..N,
         BehindIn(t, end)
  PROVE  LET r == Seeded(t, SeedPositions(start, end))
         IN  r \in [Bucket -> 0..N] /\ BehindIn(r, end)
<1> DEFINE S == SeedPositions(start, end)
           r == Seeded(t, S)
           hits(h) == {p \in S : HashAt(p) = h}
           last(h) == CHOOSE p \in hits(h) : \A q \in hits(h) : q <= p
<1>1. N \in Nat /\ start \in Nat /\ end \in Nat /\ end <= N
  BY ChunkIsSequence, FormatAssumption
<1>2. \A p \in S : p \in Nat /\ p < end /\ p < N - 1
  BY <1>1 DEF SeedPositions
<1>3. r = [h \in Bucket |-> IF hits(h) = {} THEN t[h] ELSE last(h) + 1]
  BY DEF Seeded
<1> HIDE DEF S, r
<1>4. ASSUME NEW h \in Bucket, hits(h) # {}
      PROVE  last(h) \in hits(h)
  <2>1. hits(h) \subseteq 0..N
    BY <1>1, <1>2
  <2> HIDE DEF hits
  <2>2. \E p \in hits(h) : \A q \in hits(h) : q <= p
    BY <1>1, <1>4, <2>1, GreatestNatural
  <2> QED
    BY <2>2
<1>5. ASSUME NEW h \in Bucket
      PROVE  /\ r[h] \in 0..N
             /\ r[h] # 0 => r[h] <= end /\ r[h] < N /\ HashAt(r[h] - 1) = h
  <2>1. CASE hits(h) = {}
    <3>1. r[h] = t[h]
      BY <1>3, <2>1
    <3> QED
      BY <3>1 DEF BehindIn
  <2>2. CASE hits(h) # {}
    <3>1. r[h] = last(h) + 1
      BY <1>3, <2>2
    <3>2. last(h) \in S /\ HashAt(last(h)) = h
      BY <1>4, <2>2
    <3> HIDE DEF last
    <3>3. last(h) \in Nat /\ last(h) < end /\ last(h) < N - 1
      BY <1>2, <3>2
    <3>4. r[h] - 1 = last(h) /\ r[h] \in 0..N /\ r[h] <= end /\ r[h] < N
      BY <1>1, <3>1, <3>3
    <3> QED
      BY <3>2, <3>4
  <2> QED
    BY <2>1, <2>2
<1>6. r \in [Bucket -> 0..N]
  BY <1>3, <1>5
<1> QED
  BY <1>5, <1>6 DEF BehindIn, r, S

-----------------------------------------------------------------------------
\* What one match step does

\* EmitMatch with its match length named, when nothing is refused.
EmitsMatch(len) ==
  /\ PairLeft
  /\ FoundMatch(len)
  /\ out' = AppendMatchSequence(AppendLiterals(out, anchor, cursor),
                                cursor - anchor, len, cursor - Candidate)
  /\ table' = Seeded(TableWithCursor, SeedPositions(cursor, cursor + len))
  /\ cursor' = cursor + len
  /\ anchor' = cursor + len
  /\ marks' = Append(marks, Mark(cursor + len, out'))
  /\ encoding' = encoding
  /\ UNCHANGED <<input, hash>>

\* What IInv says of plain numbers, for the steps that count.
LEMMA Counts ==
  ASSUME TypeOK
  PROVE  /\ input \in Chunk /\ N \in Nat /\ N <= MaxChunk
         /\ cursor \in Nat /\ anchor \in Nat /\ cursor <= N /\ anchor <= cursor
         /\ \A p \in 1..N : input[p] \in Value
BY ChunkIsSequence, FormatAssumption DEF TypeOK

\* A candidate read from the table lies before the cursor, and what the
\* match covers equals what the offset points back to.
LEMMA CandidateMatches ==
  ASSUME TypeOK, PairLeft, NEW len \in MinMatch..(N - cursor), FoundMatch(len)
  PROVE  /\ Candidate \in Nat
         /\ cursor - Candidate \in 1..cursor
         /\ Encodable(len, cursor - Candidate)
         /\ \A p \in (cursor + 1) .. (cursor + len) :
              input[p] = input[p - (cursor - Candidate)]
<1>1. /\ N \in Nat /\ cursor \in Nat /\ cursor + 1 < N
      /\ \A p \in 1..N : input[p] \in Value
  BY Counts DEF PairLeft
<1>2. HashAt(cursor) \in Bucket
  BY <1>1 DEF TypeOK, HashAt, At
<1>3. table[HashAt(cursor)] \in 0..N
  BY <1>2 DEF TypeOK
<1>4. Candidate \in Nat /\ Candidate < cursor /\ cursor - Candidate <= MaxOffset
  BY <1>1, <1>3 DEF FoundMatch, HasCandidate, Candidate
<1>5. len \in Nat /\ len >= 2 /\ cursor + len <= N
  BY <1>1 DEF MinMatch
<1>6. Encodable(len, cursor - Candidate)
  BY <1>1, <1>4, <1>5 DEF Encodable
<1>7. ASSUME NEW p \in (cursor + 1) .. (cursor + len)
      PROVE  input[p] = input[p - (cursor - Candidate)]
  <2> DEFINE k == p - cursor - 1
  <2>1. k \in 0..(len - 1)
    BY <1>1, <1>5
  <2>2. At(Candidate + k) = At(cursor + k)
    BY <2>1 DEF FoundMatch, IsMatchLen
  <2>3. Candidate + k + 1 = p - (cursor - Candidate) /\ cursor + k + 1 = p
    BY <1>1, <1>4, <1>5
  <2> HIDE DEF k
  <2> QED
    BY <2>2, <2>3 DEF At
<1> QED
  BY <1>1, <1>4, <1>6, <1>7

\* So the refusing branch of EmitMatch is never taken.
LEMMA EmitEffect ==
  ASSUME TypeOK, EmitMatch
  PROVE  \E len \in MinMatch..(N - cursor) : EmitsMatch(len)
<1>1. PICK len \in MinMatch..(N - cursor) :
        /\ FoundMatch(len)
        /\ IF Encodable(len, cursor - Candidate)
           THEN /\ out' = AppendMatchSequence(
                            AppendLiterals(out, anchor, cursor),
                            cursor - anchor, len, cursor - Candidate)
                /\ table' = Seeded(TableWithCursor,
                                   SeedPositions(cursor, cursor + len))
                /\ cursor' = cursor + len
                /\ anchor' = cursor + len
                /\ marks' = Append(marks, Mark(cursor + len, out'))
                /\ encoding' = encoding
           ELSE /\ encoding' = "error"
                /\ UNCHANGED <<table, cursor, anchor, out, marks>>
  BY DEF EmitMatch
<1>2. PairLeft /\ UNCHANGED <<input, hash>>
  BY DEF EmitMatch
<1>3. Encodable(len, cursor - Candidate)
  BY <1>1, <1>2, CandidateMatches
<1> QED
  BY <1>1, <1>2, <1>3 DEF EmitsMatch

\* A sequence that keeps what it had and may have more.
GrowsAtEnd(old, new) ==
  /\ Len(old) <= Len(new)
  /\ \A q \in 1..Len(old) : new[q] = old[q]

\* Append is one way to grow at the end.
LEMMA AppendGrows ==
  ASSUME NEW T, NEW s \in Seq(T), NEW e \in T
  PROVE  /\ GrowsAtEnd(s, Append(s, e))
         /\ Len(Append(s, e)) = Len(s) + 1
         /\ Append(s, e)[Len(s) + 1] = e
BY AppendProperties DEF GrowsAtEnd

\* The streams after a match of len values was emitted.
StreamsGrewBy(len) ==
  LET lit == cursor - anchor
  IN  /\ out' \in Streams
      /\ GrowsAtEnd(out.literals, out'.literals)
      /\ Len(out'.literals) = Len(out.literals) + lit
      /\ \A q \in 1..lit : out'.literals[Len(out.literals) + q] = input[anchor + q]
      /\ GrowsAtEnd(out.tokens, out'.tokens)
      /\ Len(out'.tokens) = Len(out.tokens) + 1
      /\ out'.tokens[Len(out.tokens) + 1] = TokenFor(lit, len)
      /\ GrowsAtEnd(out.offsets, out'.offsets)
      /\ Len(out'.offsets) = Len(out.offsets) + 1
      /\ out'.offsets[Len(out.offsets) + 1] = cursor - Candidate
      /\ GrowsAtEnd(out.extraLiteralLengths, out'.extraLiteralLengths)
      /\ IF lit >= CodeMax
         THEN /\ Len(out'.extraLiteralLengths) = Len(out.extraLiteralLengths) + 1
              /\ out'.extraLiteralLengths[Len(out.extraLiteralLengths) + 1]
                   = lit - CodeMax
         ELSE Len(out'.extraLiteralLengths) = Len(out.extraLiteralLengths)
      /\ GrowsAtEnd(out.extraMatchLengths, out'.extraMatchLengths)
      /\ IF len >= CodeMax + 1
         THEN /\ Len(out'.extraMatchLengths) = Len(out.extraMatchLengths) + 1
              /\ out'.extraMatchLengths[Len(out.extraMatchLengths) + 1]
                   = len - (CodeMax + 1)
         ELSE Len(out'.extraMatchLengths) = Len(out.extraMatchLengths)

\* What a match adds to each of the five streams.
LEMMA EmitStreams ==
  ASSUME TypeOK, NEW len \in MinMatch..(N - cursor), EmitsMatch(len)
  PROVE  StreamsGrewBy(len)
<1> DEFINE lit == cursor - anchor
           mid == AppendLiterals(out, anchor, cursor)
           off == cursor - Candidate
<1>1. /\ N \in Nat /\ cursor \in Nat /\ anchor \in Nat
      /\ cursor <= N /\ anchor <= cursor
      /\ input \in Chunk /\ out \in Streams
  BY Counts DEF TypeOK
<1>2. lit \in Nat /\ len \in Nat \ {0} /\ anchor \in 0..N /\ cursor \in anchor..N
  BY <1>1 DEF MinMatch
<1>3. off \in Nat
  BY <1>1, CandidateMatches DEF EmitsMatch
<1>4. /\ mid \in Streams
      /\ mid.tokens = out.tokens
      /\ mid.offsets = out.offsets
      /\ mid.extraLiteralLengths = out.extraLiteralLengths
      /\ mid.extraMatchLengths = out.extraMatchLengths
      /\ Len(mid.literals) = Len(out.literals) + lit
      /\ \A q \in 1..Len(out.literals) : mid.literals[q] = out.literals[q]
      /\ \A q \in 1..lit : mid.literals[Len(out.literals) + q] = input[anchor + q]
  BY <1>1, <1>2, LiteralsAppended
<1>5. out' = AppendMatchSequence(mid, lit, len, off)
  BY DEF EmitsMatch
<1>6. TokenFor(lit, len) \in Token
  BY <1>2, FormatAssumption DEF TokenFor, Token
<1> HIDE DEF lit, mid, off
<1>7. /\ out' \in Streams
      /\ out'.literals = mid.literals
      /\ out'.tokens = Append(out.tokens, TokenFor(lit, len))
      /\ out'.offsets = Append(out.offsets, off)
      /\ out'.extraLiteralLengths =
           IF lit >= CodeMax THEN Append(out.extraLiteralLengths, lit - CodeMax)
           ELSE out.extraLiteralLengths
      /\ out'.extraMatchLengths =
           IF len >= CodeMax + 1
           THEN Append(out.extraMatchLengths, len - (CodeMax + 1))
           ELSE out.extraMatchLengths
  <2>1. PICK m \in Streams : m = mid
    BY <1>4
  <2>2. PICK l \in Nat : l = lit
    BY <1>2
  <2>3. PICK o \in Nat : o = off
    BY <1>3
  <2>4. PICK n \in Nat \ {0} : n = len
    BY <1>2
  <2>5. PICK r : r = out'
    OBVIOUS
  <2>6. r = AppendMatchSequence(m, l, n, o)
    BY <1>5, <2>1, <2>2, <2>3, <2>4, <2>5, Zenon
  <2>7. HasOneMoreToken(r, m, l, n, o)
    BY ONLY m \in Streams, l \in Nat, n \in Nat \ {0}, o \in Nat, <2>6, TokenAppended
  <2> QED
    BY <1>4, <2>1, <2>2, <2>3, <2>4, <2>5, <2>7, Zenon DEF HasOneMoreToken
<1>8. /\ out.literals \in Seq(Value)
      /\ out.tokens \in Seq(Token)
      /\ out.offsets \in Seq(Nat)
      /\ out.extraLiteralLengths \in Seq(Nat)
      /\ out.extraMatchLengths \in Seq(Nat)
  BY <1>1 DEF Streams
<1>9. /\ GrowsAtEnd(out.literals, out'.literals)
      /\ Len(out'.literals) = Len(out.literals) + lit
      /\ \A q \in 1..lit : out'.literals[Len(out.literals) + q] = input[anchor + q]
  <2>1. Len(out.literals) <= Len(out.literals) + lit
    BY <1>2, <1>8
  <2> QED
    BY <1>4, <1>7, <2>1, Zenon DEF GrowsAtEnd
<1>10. /\ GrowsAtEnd(out.tokens, out'.tokens)
       /\ Len(out'.tokens) = Len(out.tokens) + 1
       /\ out'.tokens[Len(out.tokens) + 1] = TokenFor(lit, len)
  BY <1>6, <1>7, <1>8, AppendGrows
<1>11. /\ GrowsAtEnd(out.offsets, out'.offsets)
       /\ Len(out'.offsets) = Len(out.offsets) + 1
       /\ out'.offsets[Len(out.offsets) + 1] = off
  BY <1>3, <1>7, <1>8, AppendGrows
<1>12. /\ GrowsAtEnd(out.extraLiteralLengths, out'.extraLiteralLengths)
       /\ IF lit >= CodeMax
          THEN /\ Len(out'.extraLiteralLengths) = Len(out.extraLiteralLengths) + 1
               /\ out'.extraLiteralLengths[Len(out.extraLiteralLengths) + 1]
                    = lit - CodeMax
          ELSE Len(out'.extraLiteralLengths) = Len(out.extraLiteralLengths)
  <2>1. CASE lit >= CodeMax
    <3>1. lit - CodeMax \in Nat
      BY <1>2, <2>1, FormatAssumption
    <3>2. out'.extraLiteralLengths = Append(out.extraLiteralLengths, lit - CodeMax)
      BY <1>7, <2>1, Zenon
    <3> QED
      BY <1>8, <2>1, <3>1, <3>2, AppendGrows
  <2>2. CASE ~ (lit >= CodeMax)
    BY <1>7, <1>8, <2>2 DEF GrowsAtEnd
  <2> QED
    BY <2>1, <2>2
<1>13. /\ GrowsAtEnd(out.extraMatchLengths, out'.extraMatchLengths)
       /\ IF len >= CodeMax + 1
          THEN /\ Len(out'.extraMatchLengths) = Len(out.extraMatchLengths) + 1
               /\ out'.extraMatchLengths[Len(out.extraMatchLengths) + 1]
                    = len - (CodeMax + 1)
          ELSE Len(out'.extraMatchLengths) = Len(out.extraMatchLengths)
  <2>1. CASE len >= CodeMax + 1
    <3>1. len - (CodeMax + 1) \in Nat
      BY <1>2, <2>1, FormatAssumption
    <3>2. out'.extraMatchLengths = Append(out.extraMatchLengths, len - (CodeMax + 1))
      BY <1>7, <2>1, Zenon
    <3> QED
      BY <1>8, <2>1, <3>1, <3>2, AppendGrows
  <2>2. CASE ~ (len >= CodeMax + 1)
    BY <1>7, <1>8, <2>2 DEF GrowsAtEnd
  <2> QED
    BY <2>1, <2>2
<1> QED
  BY <1>7, <1>9, <1>10, <1>11, <1>12, <1>13, Zenon DEF StreamsGrewBy, lit, off

MarkType == [end : Nat, literals : Nat,
             extraLiteralLengths : Nat, extraMatchLengths : Nat]

\* The marks are a sequence of quadruples of naturals, one more than tokens.
LEMMA MarksTyped ==
  ASSUME TypeOK, MarksFollowStreams
  PROVE  /\ marks \in Seq(MarkType)
         /\ Len(marks) \in Nat
         /\ Len(out.tokens) \in Nat
         /\ Len(marks) = Len(out.tokens) + 1
         /\ \A k \in 1..Len(marks) : marks[k] \in MarkType
<1> DEFINE M == [end : 0..N, literals : Nat,
                 extraLiteralLengths : Nat, extraMatchLengths : Nat]
<1>1. Len(out.tokens) \in Nat /\ Len(marks) = Len(out.tokens) + 1
  BY DEF TypeOK, Streams, MarksFollowStreams
<1>2. marks \in Seq(M)
  BY DEF TypeOK
<1>3. 0..N \subseteq Nat
  BY Counts
<1>4. M \subseteq MarkType
  BY <1>3 DEF MarkType
<1> HIDE DEF M
<1>5. Len(marks) \in Nat /\ \A k \in 1..Len(marks) : marks[k] \in M
  BY <1>2
<1>6. \A k \in 1..Len(marks) : marks[k] \in MarkType
  BY <1>4, <1>5
<1>7. marks \in Seq(MarkType)
  <2>1. marks = [k \in 1..Len(marks) |-> marks[k]]
    BY <1>2
  <2> QED
    BY <1>5, <1>6, <2>1
<1> QED
  BY <1>1, <1>5, <1>6, <1>7

\* The marks after a match of len values was emitted.
MarksGrewBy(len) ==
  /\ GrowsAtEnd(marks, marks')
  /\ Len(marks') = Len(marks) + 1
  /\ marks'[Len(marks) + 1] =
       [end      |-> cursor + len,
        literals |-> Len(out'.literals),
        extraLiteralLengths |-> Len(out'.extraLiteralLengths),
        extraMatchLengths   |-> Len(out'.extraMatchLengths)]

\* What a match adds to the history.
LEMMA EmitMarks ==
  ASSUME TypeOK, MarksFollowStreams,
         NEW len \in MinMatch..(N - cursor), EmitsMatch(len), StreamsGrewBy(len)
  PROVE  /\ MarksGrewBy(len)
         /\ marks' \in Seq([end : 0..N, literals : Nat,
                            extraLiteralLengths : Nat, extraMatchLengths : Nat])
<1> DEFINE M == [end : 0..N, literals : Nat,
                 extraLiteralLengths : Nat, extraMatchLengths : Nat]
           m == [end      |-> cursor + len,
                 literals |-> Len(out'.literals),
                 extraLiteralLengths |-> Len(out'.extraLiteralLengths),
                 extraMatchLengths   |-> Len(out'.extraMatchLengths)]
<1>1. marks \in Seq(M)
  BY DEF TypeOK
<1>2. cursor + len \in 0..N
  BY Counts DEF MinMatch
<1>3. /\ Len(out'.literals) \in Nat
      /\ Len(out'.extraLiteralLengths) \in Nat
      /\ Len(out'.extraMatchLengths) \in Nat
  BY DEF StreamsGrewBy, Streams
<1>4. m \in M
  BY <1>2, <1>3
<1>5. marks' = Append(marks, m)
  BY DEF EmitsMatch, Mark
<1> HIDE DEF m, M
<1>6. /\ GrowsAtEnd(marks, marks')
      /\ Len(marks') = Len(marks) + 1
      /\ marks'[Len(marks) + 1] = m
      /\ marks' \in Seq(M)
  BY <1>1, <1>4, <1>5, AppendGrows, AppendProperties
<1> QED
  BY <1>6 DEF MarksGrewBy, m, M

\* The table after a match of len values was emitted.
LEMMA EmitTable ==
  ASSUME TypeOK, TableBehindCursor,
         NEW len \in MinMatch..(N - cursor), EmitsMatch(len)
  PROVE  /\ table' \in [Bucket -> 0..N]
         /\ BehindIn(table', cursor + len)
<1>1. /\ N \in Nat /\ cursor \in Nat /\ cursor + 1 < N
      /\ len \in Nat /\ len >= 2 /\ cursor + len <= N /\ input \in Chunk
  BY Counts DEF EmitsMatch, PairLeft, MinMatch
<1>2. table \in [Bucket -> 0..N]
  BY DEF TypeOK
<1>3. TableWithCursor \in [Bucket -> 0..N]
  <2>1. cursor + 1 \in 0..N
    BY <1>1
  <2> QED
    BY <1>2, <2>1, Zenon DEF TableWithCursor
<1>4. BehindIn(TableWithCursor, cursor + len)
  <2> SUFFICES ASSUME NEW h \in Bucket, TableWithCursor[h] # 0
               PROVE  /\ TableWithCursor[h] <= cursor + len
                      /\ TableWithCursor[h] < N
                      /\ HashAt(TableWithCursor[h] - 1) = h
    BY DEF BehindIn
  <2>1. CASE h = HashAt(cursor)
    <3>1. TableWithCursor[h] = cursor + 1
      BY <1>2, <2>1 DEF TableWithCursor
    <3>2. cursor + 1 - 1 = cursor
      BY <1>1
    <3> QED
      BY <1>1, <2>1, <3>1, <3>2
  <2>2. CASE h # HashAt(cursor)
    <3>1. TableWithCursor[h] = table[h] /\ table[h] \in 0..N
      BY <1>2, <2>2 DEF TableWithCursor
    <3>2. table[h] <= cursor /\ table[h] < N /\ HashAt(table[h] - 1) = h
      BY <3>1 DEF TableBehindCursor
    <3> QED
      BY <1>1, <3>1, <3>2
  <2> QED
    BY <2>1, <2>2
<1>5. cursor \in 0..N /\ cursor + len \in cursor..N
  BY <1>1
<1>6. table' = Seeded(TableWithCursor, SeedPositions(cursor, cursor + len))
  BY DEF EmitsMatch
<1> QED
  BY <1>1, <1>3, <1>4, <1>5, <1>6, SeedsBehindMatchEnd

-----------------------------------------------------------------------------
\* Each part of the invariant, for a match step

\* After a match the last mark is at the new anchor.
LEMMA EmitKeepsMarks ==
  ASSUME TypeOK, MarksFollowStreams, encoding = "scan",
         NEW len \in MinMatch..(N - cursor), EmitsMatch(len),
         StreamsGrewBy(len), MarksGrewBy(len)
  PROVE  MarksFollowStreams'
<1> DEFINE L == Len(marks)
<1>1. /\ L \in Nat /\ L >= 1 /\ L = Len(out.tokens) + 1
      /\ \A k \in 1..L : marks[k] \in MarkType
  BY MarksTyped
<1>2. /\ N \in Nat /\ cursor \in Nat /\ anchor \in Nat /\ anchor <= cursor
      /\ len \in Nat /\ input' = input /\ encoding' = encoding
      /\ anchor' = cursor + len
  BY Counts DEF EmitsMatch, MinMatch
<1>3. /\ Len(marks') = L + 1
      /\ \A k \in 1..L : marks'[k] = marks[k]
      /\ marks'[L + 1].end = cursor + len
      /\ marks'[L + 1].literals = Len(out'.literals)
      /\ marks'[L + 1].extraLiteralLengths = Len(out'.extraLiteralLengths)
      /\ marks'[L + 1].extraMatchLengths = Len(out'.extraMatchLengths)
  BY DEF MarksGrewBy, GrowsAtEnd
<1>4. /\ Len(out'.tokens) = Len(out.tokens) + 1
      /\ Len(out'.offsets) = Len(out.offsets) + 1
      /\ Len(out.literals) <= Len(out'.literals)
      /\ Len(out.extraLiteralLengths) <= Len(out'.extraLiteralLengths)
      /\ Len(out.extraMatchLengths) <= Len(out'.extraMatchLengths)
  BY DEF StreamsGrewBy, GrowsAtEnd
<1>5. /\ Len(out.literals) \in Nat /\ Len(out'.literals) \in Nat
      /\ Len(out.extraLiteralLengths) \in Nat /\ Len(out'.extraLiteralLengths) \in Nat
      /\ Len(out.extraMatchLengths) \in Nat /\ Len(out'.extraMatchLengths) \in Nat
  <2>1. out \in Streams /\ out' \in Streams
    BY DEF StreamsGrewBy, TypeOK
  <2> QED
    BY <2>1 DEF Streams
<1>6. /\ Len(out.offsets) = Len(out.tokens)
      /\ marks[1] = Mark(0, NoStreams)
      /\ \A k \in 1..L :
           /\ marks[k].end <= anchor
           /\ marks[k].literals <= marks[L].literals
           /\ marks[k].extraLiteralLengths <= Len(out.extraLiteralLengths)
           /\ marks[k].extraMatchLengths <= Len(out.extraMatchLengths)
      /\ Len(out.literals) = marks[L].literals
  <2>1. Len(out.literals) = marks[L].literals + 0
    BY DEF MarksFollowStreams
  <2>2. marks[L].literals \in Nat
    BY <1>1 DEF MarkType
  <2> QED
    BY <2>1, <2>2 DEF MarksFollowStreams
<1> HIDE DEF L
<1>7. ASSUME NEW k \in 1..(L + 1)
      PROVE  /\ marks'[k].end <= anchor'
             /\ marks'[k].literals <= marks'[L + 1].literals
             /\ marks'[k].extraLiteralLengths <= Len(out'.extraLiteralLengths)
             /\ marks'[k].extraMatchLengths <= Len(out'.extraMatchLengths)
  <2>1. CASE k = L + 1
    BY <1>2, <1>3, <1>5, <2>1
  <2>2. CASE k # L + 1
    <3>1. k \in 1..L
      BY <1>1, <2>2
    <3>2. marks'[k] = marks[k] /\ marks[k] \in MarkType
      BY <1>1, <1>3, <3>1
    <3> QED
      <4>1. /\ marks[k].end \in Nat /\ marks[k].literals \in Nat
            /\ marks[k].extraLiteralLengths \in Nat
            /\ marks[k].extraMatchLengths \in Nat
        BY <3>2 DEF MarkType
      <4>2. /\ marks[k].end <= anchor
            /\ marks[k].literals <= Len(out.literals)
            /\ marks[k].extraLiteralLengths <= Len(out.extraLiteralLengths)
            /\ marks[k].extraMatchLengths <= Len(out.extraMatchLengths)
        BY <1>6, <3>1
      <4> QED
        <5>1. marks[k].end <= anchor'
          BY <1>2, <4>1, <4>2
        <5>2. marks[k].literals <= marks'[L + 1].literals
          <6>1. PICK x \in Nat : x = marks[k].literals
            BY <4>1
          <6>2. PICK y \in Nat : y = Len(out.literals)
            BY <1>5
          <6>3. PICK z \in Nat : z = Len(out'.literals)
            BY <1>5
          <6>4. x <= y /\ y <= z
            BY <1>4, <4>2, <6>1, <6>2, <6>3, Zenon
          <6>5. x <= z
            BY <6>4
          <6> QED
            BY <1>3, <6>1, <6>3, <6>5, Zenon
        <5>3. marks[k].extraLiteralLengths <= Len(out'.extraLiteralLengths)
          <6>1. PICK x \in Nat : x = marks[k].extraLiteralLengths
            BY <4>1
          <6>2. PICK y \in Nat : y = Len(out.extraLiteralLengths)
            BY <1>5
          <6>3. PICK z \in Nat : z = Len(out'.extraLiteralLengths)
            BY <1>5
          <6>4. x <= y /\ y <= z
            BY <1>4, <4>2, <6>1, <6>2, <6>3, Zenon
          <6>5. x <= z
            BY <6>4
          <6> QED
            BY <6>1, <6>3, <6>5, Zenon
        <5>4. marks[k].extraMatchLengths <= Len(out'.extraMatchLengths)
          <6>1. PICK x \in Nat : x = marks[k].extraMatchLengths
            BY <4>1
          <6>2. PICK y \in Nat : y = Len(out.extraMatchLengths)
            BY <1>5
          <6>3. PICK z \in Nat : z = Len(out'.extraMatchLengths)
            BY <1>5
          <6>4. x <= y /\ y <= z
            BY <1>4, <4>2, <6>1, <6>2, <6>3, Zenon
          <6>5. x <= z
            BY <6>4
          <6> QED
            BY <6>1, <6>3, <6>5, Zenon
        <5> QED
          BY <3>2, <5>1, <5>2, <5>3, <5>4, Zenon
  <2> QED
    BY <2>1, <2>2
<1>8. marks'[1] = Mark(0, NoStreams)
  BY <1>1, <1>3, <1>6
<1>9. Len(out'.literals) = marks'[L + 1].literals + 0
  BY <1>3, <1>5
<1>10. \A q \in 1..(Len(out'.literals) - marks'[L + 1].literals) :
         out'.literals[marks'[L + 1].literals + q] = input[anchor' + q]
  BY <1>3, <1>5
<1>11. /\ Len(marks') = Len(out'.tokens) + 1
       /\ Len(out'.offsets) = Len(out'.tokens)
  BY <1>1, <1>3, <1>4, <1>6
<1>12. encoding' # "done"
  BY <1>2
<1> QED
  BY <1>2, <1>3, <1>7, <1>8, <1>9, <1>10, <1>11, <1>12, Zenon
  DEF MarksFollowStreams, Mark

\* A token that describes its piece keeps doing so while the streams and the
\* marks only grow at their ends.
LEMMA OldTokensStay ==
  ASSUME TypeOK, MarksFollowStreams, encoding = "scan", input' = input,
         GrowsAtEnd(out.literals, out'.literals),
         GrowsAtEnd(out.tokens, out'.tokens),
         GrowsAtEnd(out.offsets, out'.offsets),
         GrowsAtEnd(out.extraLiteralLengths, out'.extraLiteralLengths),
         GrowsAtEnd(out.extraMatchLengths, out'.extraMatchLengths),
         GrowsAtEnd(marks, marks'),
         NEW k \in 1..Len(out.tokens),
         TokenDescribesInput(k)
  PROVE  TokenDescribesInput(k)'
<1>1. /\ Len(marks) \in Nat /\ Len(marks) = Len(out.tokens) + 1
      /\ Len(out.tokens) \in Nat
      /\ marks[k] \in MarkType /\ marks[k + 1] \in MarkType
      /\ marks[Len(marks)] \in MarkType
      /\ k \in 1..Len(marks) /\ k + 1 \in 1..Len(marks)
  BY MarksTyped
<1>2. /\ marks'[k] = marks[k] /\ marks'[k + 1] = marks[k + 1]
      /\ out'.tokens[k] = out.tokens[k]
  BY <1>1 DEF GrowsAtEnd
<1>3. out'.offsets[k] = out.offsets[k]
  BY <1>1 DEF GrowsAtEnd, MarksFollowStreams
<1>4. /\ LiteralRun(k)' = LiteralRun(k)
      /\ MatchFrom(k)' = MatchFrom(k)
      /\ MatchRun(k)' = MatchRun(k)
  BY <1>2 DEF LiteralRun, MatchFrom, MatchRun
<1>5. /\ marks[k + 1].literals <= Len(out.literals)
      /\ marks[k + 1].extraLiteralLengths <= Len(out.extraLiteralLengths)
      /\ marks[k + 1].extraMatchLengths <= Len(out.extraMatchLengths)
      /\ Len(out.literals) \in Nat
      /\ Len(out.extraLiteralLengths) \in Nat
      /\ Len(out.extraMatchLengths) \in Nat
  <2>1. /\ marks[k + 1].literals <= marks[Len(marks)].literals
        /\ marks[k + 1].extraLiteralLengths <= Len(out.extraLiteralLengths)
        /\ marks[k + 1].extraMatchLengths <= Len(out.extraMatchLengths)
    BY <1>1 DEF MarksFollowStreams
  <2>2. Len(out.literals) = marks[Len(marks)].literals + 0
    BY DEF MarksFollowStreams
  <2>3. /\ Len(out.literals) \in Nat
        /\ Len(out.extraLiteralLengths) \in Nat
        /\ Len(out.extraMatchLengths) \in Nat
    BY DEF TypeOK, Streams
  <2> QED
    BY <1>1, <2>1, <2>2, <2>3 DEF MarkType
<1>6. ASSUME NEW q \in 1..LiteralRun(k)
      PROVE  out'.literals[marks[k].literals + q] = out.literals[marks[k].literals + q]
  <2>1. marks[k].literals \in Nat /\ marks[k + 1].literals \in Nat
    BY <1>1 DEF MarkType
  <2>2. marks[k].literals + q \in 1..Len(out.literals)
    <3>1. PICK l1 \in Nat : l1 = marks[k].literals
      BY <2>1
    <3>2. PICK l2 \in Nat : l2 = marks[k + 1].literals
      BY <2>1
    <3>3. PICK n \in Nat : n = Len(out.literals)
      BY <1>5
    <3>4. q \in 1..(l2 - l1) /\ l2 <= n
      BY <1>5, <1>6, <3>1, <3>2, <3>3, Zenon DEF LiteralRun
    <3>5. l1 + q \in 1..n
      BY <3>4
    <3> QED
      BY <3>1, <3>3, <3>5, Zenon
  <2> QED
    BY <2>2 DEF GrowsAtEnd
<1>7. ASSUME marks[k + 1].extraLiteralLengths = marks[k].extraLiteralLengths + 1
      PROVE  out'.extraLiteralLengths[marks[k + 1].extraLiteralLengths]
               = out.extraLiteralLengths[marks[k + 1].extraLiteralLengths]
  <2>1. marks[k].extraLiteralLengths \in Nat
    BY <1>1 DEF MarkType
  <2>2. PICK before \in Nat : before = marks[k].extraLiteralLengths
    BY <2>1
  <2>3. PICK n \in Nat : n = Len(out.extraLiteralLengths)
    BY <1>5
  <2>4. marks[k + 1].extraLiteralLengths = before + 1 /\ before + 1 <= n
    BY <1>5, <1>7, <2>2, <2>3, Zenon
  <2>5. before + 1 \in 1..n
    BY <2>4
  <2>6. marks[k + 1].extraLiteralLengths \in 1..Len(out.extraLiteralLengths)
    BY <2>3, <2>4, <2>5, Zenon
  <2> QED
    BY <2>6, Zenon DEF GrowsAtEnd
<1>8. ASSUME marks[k + 1].extraMatchLengths = marks[k].extraMatchLengths + 1
      PROVE  out'.extraMatchLengths[marks[k + 1].extraMatchLengths]
               = out.extraMatchLengths[marks[k + 1].extraMatchLengths]
  <2>1. marks[k].extraMatchLengths \in Nat
    BY <1>1 DEF MarkType
  <2>2. PICK before \in Nat : before = marks[k].extraMatchLengths
    BY <2>1
  <2>3. PICK n \in Nat : n = Len(out.extraMatchLengths)
    BY <1>5
  <2>4. marks[k + 1].extraMatchLengths = before + 1 /\ before + 1 <= n
    BY <1>5, <1>8, <2>2, <2>3, Zenon
  <2>5. before + 1 \in 1..n
    BY <2>4
  <2>6. marks[k + 1].extraMatchLengths \in 1..Len(out.extraMatchLengths)
    BY <2>3, <2>4, <2>5, Zenon
  <2> QED
    BY <2>6, Zenon DEF GrowsAtEnd
<1>9. TokenDescribesInput(k)
  OBVIOUS
<1>10. /\ out.tokens[k].offsetCode = 3
       /\ ~ out.tokens[k].reserved
       /\ LiteralRun(k) >= 0
       /\ MatchRun(k) >= MinMatch
       /\ out.offsets[k] \in 1..MatchFrom(k)
       /\ \A p \in (MatchFrom(k) + 1) .. marks[k + 1].end :
            input[p] = input[p - out.offsets[k]]
  BY <1>9, Zenon DEF TokenDescribesInput
<1>11. \A q \in 1..LiteralRun(k) :
         out'.literals[marks[k].literals + q] = input[marks[k].end + q]
  BY <1>6, <1>9, Zenon DEF TokenDescribesInput
<1>12. IF LiteralRun(k) < CodeMax
       THEN /\ out.tokens[k].literalCode = LiteralRun(k)
            /\ marks[k + 1].extraLiteralLengths = marks[k].extraLiteralLengths
       ELSE /\ out.tokens[k].literalCode = CodeMax
            /\ marks[k + 1].extraLiteralLengths = marks[k].extraLiteralLengths + 1
            /\ out'.extraLiteralLengths[marks[k + 1].extraLiteralLengths]
                 = LiteralRun(k) - CodeMax
  BY <1>7, <1>9, Zenon DEF TokenDescribesInput
<1>13. IF MatchRun(k) < CodeMax + 1
       THEN /\ out.tokens[k].matchCode = MatchRun(k) - 1
            /\ marks[k + 1].extraMatchLengths = marks[k].extraMatchLengths
       ELSE /\ out.tokens[k].matchCode = CodeMax
            /\ marks[k + 1].extraMatchLengths = marks[k].extraMatchLengths + 1
            /\ out'.extraMatchLengths[marks[k + 1].extraMatchLengths]
                 = MatchRun(k) - (CodeMax + 1)
  BY <1>8, <1>9, Zenon DEF TokenDescribesInput
<1> QED
  BY <1>2, <1>3, <1>4, <1>10, <1>11, <1>12, <1>13, Zenon
  DEF TokenDescribesInput, MinMatch

\* The token just emitted describes the values from the anchor to the end of
\* the match.
LEMMA NewTokenDescribes ==
  ASSUME TypeOK, MarksFollowStreams, encoding = "scan",
         NEW len \in MinMatch..(N - cursor), EmitsMatch(len),
         StreamsGrewBy(len), MarksGrewBy(len),
         NEW L \in Nat, L = Len(out.tokens) + 1
  PROVE  TokenDescribesInput(L)'
<1> DEFINE lit == cursor - anchor
           off == cursor - Candidate
<1>1. L >= 1 /\ L = Len(marks) /\ marks[L] \in MarkType
  BY MarksTyped
<1>2. /\ N \in Nat /\ cursor \in Nat /\ anchor \in Nat /\ anchor <= cursor
      /\ len \in Nat /\ len >= 2 /\ input' = input
      /\ lit \in Nat
  BY Counts DEF EmitsMatch, MinMatch
<1>3. /\ marks'[L] = marks[L]
      /\ marks'[L + 1].end = cursor + len
      /\ marks'[L + 1].literals = Len(out'.literals)
      /\ marks'[L + 1].extraLiteralLengths = Len(out'.extraLiteralLengths)
      /\ marks'[L + 1].extraMatchLengths = Len(out'.extraMatchLengths)
  <2>1. L \in 1..Len(marks)
    BY <1>1
  <2>2. marks'[L] = marks[L]
    BY <2>1 DEF MarksGrewBy, GrowsAtEnd
  <2> QED
    BY <1>1, <2>2 DEF MarksGrewBy
<1>4. /\ marks[L].end = anchor
      /\ marks[L].extraLiteralLengths = Len(out.extraLiteralLengths)
      /\ marks[L].extraMatchLengths = Len(out.extraMatchLengths)
      /\ Len(out.literals) = marks[L].literals
      /\ Len(out.offsets) = Len(out.tokens)
  BY <1>1 DEF MarksFollowStreams, MarkType
<1>5. /\ Len(out.literals) \in Nat
      /\ Len(out.extraLiteralLengths) \in Nat
      /\ Len(out.extraMatchLengths) \in Nat
  BY DEF TypeOK, Streams
<1>6. /\ off \in 1..cursor
      /\ \A p \in (cursor + 1) .. (cursor + len) : input[p] = input[p - off]
  BY CandidateMatches DEF EmitsMatch
<1>7. /\ Len(out'.literals) = Len(out.literals) + lit
      /\ \A q \in 1..lit : out'.literals[Len(out.literals) + q] = input[anchor + q]
      /\ out'.tokens[L] = TokenFor(lit, len)
      /\ out'.offsets[L] = off
      /\ IF lit >= CodeMax
         THEN /\ Len(out'.extraLiteralLengths) = Len(out.extraLiteralLengths) + 1
              /\ out'.extraLiteralLengths[Len(out.extraLiteralLengths) + 1]
                   = lit - CodeMax
         ELSE Len(out'.extraLiteralLengths) = Len(out.extraLiteralLengths)
      /\ IF len >= CodeMax + 1
         THEN /\ Len(out'.extraMatchLengths) = Len(out.extraMatchLengths) + 1
              /\ out'.extraMatchLengths[Len(out.extraMatchLengths) + 1]
                   = len - (CodeMax + 1)
         ELSE Len(out'.extraMatchLengths) = Len(out.extraMatchLengths)
  BY <1>1, <1>4, Zenon DEF StreamsGrewBy
<1> HIDE DEF lit, off
<1>8. /\ LiteralRun(L)' = lit
      /\ MatchFrom(L)' = cursor
      /\ MatchRun(L)' = len
  <2>1. LiteralRun(L)' = lit
    BY <1>2, <1>3, <1>4, <1>5, <1>7, SMTT(30) DEF LiteralRun
  <2>2. MatchFrom(L)' = cursor
    BY <1>2, <1>3, <1>4, <2>1 DEF MatchFrom, lit
  <2>3. MatchRun(L)' = len
    BY <1>2, <1>3, <2>2 DEF MatchRun
  <2> QED
    BY <2>1, <2>2, <2>3
<1>9. /\ (lit < CodeMax) = ~ (lit >= CodeMax)
      /\ (len < CodeMax + 1) = ~ (len >= CodeMax + 1)
  BY <1>2, FormatAssumption
<1>10. /\ out'.tokens[L].offsetCode = 3
       /\ ~ out'.tokens[L].reserved
       /\ lit < CodeMax => out'.tokens[L].literalCode = lit
       /\ ~ (lit < CodeMax) => out'.tokens[L].literalCode = CodeMax
       /\ len < CodeMax + 1 => out'.tokens[L].matchCode = len - 1
       /\ ~ (len < CodeMax + 1) => out'.tokens[L].matchCode = CodeMax
  <2>1. out'.tokens[L] = TokenFor(lit, len)
    BY <1>7
  <2> QED
    BY <1>9, <2>1 DEF TokenFor
<1>11. IF lit < CodeMax
       THEN /\ out'.tokens[L].literalCode = lit
            /\ marks'[L + 1].extraLiteralLengths = marks'[L].extraLiteralLengths
       ELSE /\ out'.tokens[L].literalCode = CodeMax
            /\ marks'[L + 1].extraLiteralLengths = marks'[L].extraLiteralLengths + 1
            /\ out'.extraLiteralLengths[marks'[L + 1].extraLiteralLengths]
                 = lit - CodeMax
  BY <1>3, <1>4, <1>7, <1>9, <1>10, Zenon
<1>12. IF len < CodeMax + 1
       THEN /\ out'.tokens[L].matchCode = len - 1
            /\ marks'[L + 1].extraMatchLengths = marks'[L].extraMatchLengths
       ELSE /\ out'.tokens[L].matchCode = CodeMax
            /\ marks'[L + 1].extraMatchLengths = marks'[L].extraMatchLengths + 1
            /\ out'.extraMatchLengths[marks'[L + 1].extraMatchLengths]
                 = len - (CodeMax + 1)
  BY <1>3, <1>4, <1>7, <1>9, <1>10, Zenon
<1>13. \A q \in 1..lit :
         out'.literals[marks'[L].literals + q] = input'[marks'[L].end + q]
  <2>1. \A q \in 1..lit : out'.literals[Len(out.literals) + q] = input[anchor + q]
    BY <1>7
  <2>2. /\ marks'[L].literals = Len(out.literals)
        /\ marks'[L].end = anchor
        /\ input' = input
    BY <1>2, <1>3, <1>4, Zenon
  <2> QED
    BY <2>1, <2>2, Zenon
<1>14. \A p \in (cursor + 1) .. marks'[L + 1].end :
         input'[p] = input'[p - out'.offsets[L]]
  BY <1>2, <1>3, <1>6, <1>7, Zenon
<1>15. lit >= 0 /\ len >= MinMatch' /\ out'.offsets[L] \in 1..cursor
  BY <1>2, <1>6, <1>7 DEF MinMatch
<1> QED
  BY <1>8, <1>10, <1>11, <1>12, <1>13, <1>14, <1>15, Zenon DEF TokenDescribesInput

\* A match adds at most one entry to each extra stream, and covers at least
\* two values more than its literals.
LEMMA EmitKeepsSizes ==
  ASSUME TypeOK, MarksFollowStreams, SizesFollowTokens, encoding = "scan",
         NEW len \in MinMatch..(N - cursor), EmitsMatch(len),
         StreamsGrewBy(len), MarksGrewBy(len)
  PROVE  SizesFollowTokens'
<1>1. /\ N \in Nat /\ cursor \in Nat /\ anchor \in Nat /\ anchor <= cursor
      /\ len \in Nat /\ len >= 2 /\ anchor' = cursor + len
  BY Counts DEF EmitsMatch, MinMatch
<1>2. /\ Len(out.tokens) \in Nat
      /\ Len(out.extraLiteralLengths) \in Nat
      /\ Len(out.extraMatchLengths) \in Nat
      /\ marks[Len(marks)].literals \in Nat
  <2>1. /\ Len(out.tokens) \in Nat
        /\ Len(out.extraLiteralLengths) \in Nat
        /\ Len(out.extraMatchLengths) \in Nat
    BY DEF TypeOK, Streams
  <2>2. marks[Len(marks)] \in MarkType
    BY MarksTyped
  <2> QED
    BY <2>1, <2>2 DEF MarkType
<1>3. Len(out.literals) = marks[Len(marks)].literals
  <2>1. Len(out.literals) = marks[Len(marks)].literals + 0
    BY DEF MarksFollowStreams
  <2> QED
    BY <1>2, <2>1
<1>4. /\ Len(out'.tokens) = Len(out.tokens) + 1
      /\ Len(out'.literals) = Len(out.literals) + (cursor - anchor)
      /\ \/ Len(out'.extraLiteralLengths) = Len(out.extraLiteralLengths) + 1
         \/ Len(out'.extraLiteralLengths) = Len(out.extraLiteralLengths)
      /\ \/ Len(out'.extraMatchLengths) = Len(out.extraMatchLengths) + 1
         \/ Len(out'.extraMatchLengths) = Len(out.extraMatchLengths)
  BY Zenon DEF StreamsGrewBy
<1>5. marks'[Len(marks')].literals = Len(out'.literals)
  BY DEF MarksGrewBy
<1>6. /\ Len(out.extraLiteralLengths) <= Len(out.tokens)
      /\ Len(out.extraMatchLengths) <= Len(out.tokens)
      /\ marks[Len(marks)].literals + 2 * Len(out.tokens) <= anchor
  BY DEF SizesFollowTokens
<1>7. /\ Len(out'.extraLiteralLengths) <= Len(out'.tokens)
      /\ Len(out'.extraMatchLengths) <= Len(out'.tokens)
  <2>1. PICK tokens \in Nat : tokens = Len(out.tokens)
    BY <1>2
  <2>2. PICK lengths \in Nat : lengths = Len(out.extraLiteralLengths)
    BY <1>2
  <2>3. PICK matches \in Nat : matches = Len(out.extraMatchLengths)
    BY <1>2
  <2>4. lengths <= tokens /\ matches <= tokens
    BY <1>6, <2>1, <2>2, <2>3, Zenon
  <2>5. /\ lengths <= tokens + 1 /\ lengths + 1 <= tokens + 1
        /\ matches <= tokens + 1 /\ matches + 1 <= tokens + 1
    BY <2>4
  <2>6. Len(out'.extraLiteralLengths) <= Len(out'.tokens)
    BY <1>4, <2>1, <2>2, <2>5, Zenon
  <2>7. Len(out'.extraMatchLengths) <= Len(out'.tokens)
    BY <1>4, <2>1, <2>3, <2>5, Zenon
  <2> QED
    BY <2>6, <2>7
<1>8. marks'[Len(marks')].literals + 2 * Len(out'.tokens) <= anchor'
  <2>1. PICK literals \in Nat : literals = Len(out.literals)
    BY <1>2, <1>3
  <2>2. PICK tokens \in Nat : tokens = Len(out.tokens)
    BY <1>2
  <2>3. literals + 2 * tokens <= anchor
    BY <1>3, <1>6, <2>1, <2>2
  <2>4. (literals + (cursor - anchor)) + 2 * (tokens + 1) <= cursor + len
    BY <1>1, <2>3
  <2> QED
    BY <1>1, <1>4, <1>5, <2>1, <2>2, <2>4, Zenon
<1> QED
  BY <1>7, <1>8 DEF SizesFollowTokens

-----------------------------------------------------------------------------
\* The invariant is inductive

\* A loop iteration with a match preserves the invariant.
LEMMA EmitStep ==
  ASSUME IInv, EmitMatch
  PROVE  IInv'
<1>1. /\ TypeOK /\ TableBehindCursor /\ MarksFollowStreams
      /\ TokensDescribeInput /\ SizesFollowTokens /\ encoding = "scan"
  BY DEF IInv, EmitMatch, PairLeft
<1>2. PICK len \in MinMatch..(N - cursor) : EmitsMatch(len)
  BY <1>1, EmitEffect
<1>3. StreamsGrewBy(len)
  BY <1>1, <1>2, EmitStreams
<1>4. /\ MarksGrewBy(len)
      /\ marks' \in Seq([end : 0..N, literals : Nat,
                         extraLiteralLengths : Nat, extraMatchLengths : Nat])
  BY <1>1, <1>2, <1>3, EmitMarks
<1>5. /\ table' \in [Bucket -> 0..N]
      /\ BehindIn(table', cursor + len)
  BY <1>1, <1>2, EmitTable
<1>6. /\ input' = input /\ hash' = hash /\ encoding' = encoding
      /\ cursor' = cursor + len /\ anchor' = cursor + len
  BY <1>2 DEF EmitsMatch
<1>7. N' = N
  BY <1>6 DEF N
<1>8. TypeOK'
  <2>1. cursor + len \in 0..N /\ cursor + len \in 0..(cursor + len)
    BY <1>1, Counts DEF MinMatch
  <2>2. out' \in Streams
    BY <1>3 DEF StreamsGrewBy
  <2> QED
    BY <1>1, <1>4, <1>5, <1>6, <1>7, <2>1, <2>2, Zenon DEF TypeOK
<1>9. TableBehindCursor'
  BY <1>5, <1>6, <1>7 DEF TableBehindCursor, BehindIn, HashAt, At
<1>10. MarksFollowStreams'
  BY <1>1, <1>2, <1>3, <1>4, EmitKeepsMarks
<1>11. TokensDescribeInput'
  <2> SUFFICES ASSUME NEW k \in 1..Len(out'.tokens)
               PROVE  TokenDescribesInput(k)'
    BY DEF TokensDescribeInput
  <2>1. Len(out'.tokens) = Len(out.tokens) + 1 /\ Len(out.tokens) \in Nat
    BY <1>1, MarksTyped, <1>3 DEF StreamsGrewBy
  <2>2. CASE k = Len(out.tokens) + 1
    BY <1>1, <1>2, <1>3, <1>4, <2>1, <2>2, NewTokenDescribes
  <2>3. CASE k # Len(out.tokens) + 1
    <3>1. k \in 1..Len(out.tokens)
      BY <2>1, <2>3
    <3>2. TokenDescribesInput(k)
      BY <1>1, <3>1 DEF TokensDescribeInput
    <3>3. /\ GrowsAtEnd(out.literals, out'.literals)
          /\ GrowsAtEnd(out.tokens, out'.tokens)
          /\ GrowsAtEnd(out.offsets, out'.offsets)
          /\ GrowsAtEnd(out.extraLiteralLengths, out'.extraLiteralLengths)
          /\ GrowsAtEnd(out.extraMatchLengths, out'.extraMatchLengths)
          /\ GrowsAtEnd(marks, marks')
      BY <1>3, <1>4, Zenon DEF StreamsGrewBy, MarksGrewBy
    <3> QED
      BY <1>1, <1>6, <3>1, <3>2, <3>3, OldTokensStay
  <2> QED
    BY <2>2, <2>3
<1>12. SizesFollowTokens'
  BY <1>1, <1>2, <1>3, <1>4, EmitKeepsSizes
<1>13. NeverFails'
  BY <1>1, <1>6 DEF NeverFails
<1> QED
  BY <1>8, <1>9, <1>10, <1>11, <1>12, <1>13 DEF IInv

\* A loop iteration without a match preserves the invariant.
LEMMA AdvanceStep ==
  ASSUME IInv, Advance
  PROVE  IInv'
<1>1. /\ TypeOK /\ TableBehindCursor /\ MarksFollowStreams
      /\ TokensDescribeInput /\ SizesFollowTokens /\ NeverFails
  BY DEF IInv
<1>2. /\ table' = TableWithCursor /\ cursor' = cursor + 1 /\ cursor + 1 < N
      /\ input' = input /\ hash' = hash /\ anchor' = anchor
      /\ out' = out /\ encoding' = encoding /\ marks' = marks
  BY DEF Advance, PairLeft
<1>3. /\ N \in Nat /\ cursor \in Nat /\ anchor \in Nat /\ anchor <= cursor
      /\ table \in [Bucket -> 0..N]
  BY <1>1, Counts DEF TypeOK
<1>4. N' = N
  BY <1>2 DEF N
<1>5. table' \in [Bucket -> 0..N]
  <2>1. cursor + 1 \in 0..N
    BY <1>2, <1>3
  <2> QED
    BY <1>2, <1>3, <2>1, Zenon DEF TableWithCursor
<1>6. TypeOK'
  <2>1. cursor + 1 \in 0..N /\ anchor \in 0..(cursor + 1)
    BY <1>2, <1>3
  <2> QED
    BY <1>1, <1>2, <1>4, <1>5, <2>1, Zenon DEF TypeOK
<1>7. TableBehindCursor'
  <2> SUFFICES ASSUME NEW h \in Bucket, table'[h] # 0
               PROVE  /\ table'[h] <= cursor + 1
                      /\ table'[h] < N
                      /\ HashAt(table'[h] - 1) = h
    BY <1>2, <1>4 DEF TableBehindCursor, HashAt, At
  <2>1. CASE h = HashAt(cursor)
    <3>1. table'[h] = cursor + 1 /\ cursor + 1 - 1 = cursor
      BY <1>2, <1>3, <2>1 DEF TableWithCursor
    <3> QED
      BY <1>2, <1>3, <2>1, <3>1
  <2>2. CASE h # HashAt(cursor)
    <3>1. table'[h] = table[h] /\ table[h] \in 0..N
      BY <1>2, <1>3, <2>2 DEF TableWithCursor
    <3>2. table[h] <= cursor /\ table[h] < N /\ HashAt(table[h] - 1) = h
      BY <1>1, <3>1 DEF TableBehindCursor
    <3> QED
      BY <1>3, <3>1, <3>2
  <2> QED
    BY <2>1, <2>2
<1>8. MarksFollowStreams'
  BY <1>1, <1>2, <1>4 DEF MarksFollowStreams, Mark
<1>9. TokensDescribeInput'
  BY <1>1, <1>2 DEF TokensDescribeInput, TokenDescribesInput, LiteralRun,
                    MatchFrom, MatchRun, MinMatch
<1>10. SizesFollowTokens' /\ NeverFails'
  BY <1>1, <1>2 DEF SizesFollowTokens, NeverFails
<1> QED
  BY <1>6, <1>7, <1>8, <1>9, <1>10 DEF IInv

\* Flushing the last literals preserves the invariant.
LEMMA FinishStep ==
  ASSUME IInv, Finish
  PROVE  IInv'
<1>1. /\ TypeOK /\ TableBehindCursor /\ MarksFollowStreams
      /\ TokensDescribeInput /\ SizesFollowTokens
  BY DEF IInv
<1>2. /\ out' = AppendLiterals(out, anchor, N)
      /\ encoding = "scan" /\ encoding' = "done"
      /\ input' = input /\ hash' = hash /\ table' = table
      /\ cursor' = cursor /\ anchor' = anchor /\ marks' = marks
  BY DEF Finish
<1>3. /\ N \in Nat /\ anchor \in 0..N /\ N \in anchor..N
      /\ input \in Chunk /\ out \in Streams
  BY <1>1, Counts DEF TypeOK
<1>4. N' = N
  BY <1>2 DEF N
<1>5. /\ out' \in Streams
      /\ out'.tokens = out.tokens
      /\ out'.offsets = out.offsets
      /\ out'.extraLiteralLengths = out.extraLiteralLengths
      /\ out'.extraMatchLengths = out.extraMatchLengths
      /\ Len(out'.literals) = Len(out.literals) + (N - anchor)
      /\ \A q \in 1..Len(out.literals) : out'.literals[q] = out.literals[q]
      /\ \A q \in 1..(N - anchor) :
           out'.literals[Len(out.literals) + q] = input[anchor + q]
  BY <1>2, <1>3, LiteralsAppended
<1>6. TypeOK'
  BY <1>1, <1>2, <1>4, <1>5, Zenon DEF TypeOK
<1>7. TableBehindCursor'
  BY <1>1, <1>2, <1>4 DEF TableBehindCursor, HashAt, At
<1>8. /\ Len(out.literals) \in Nat
      /\ Len(out.literals) = marks[Len(marks)].literals
  <2>1. Len(out.literals) = marks[Len(marks)].literals + 0
    BY <1>1, <1>2 DEF MarksFollowStreams
  <2>2. marks[Len(marks)] \in MarkType
    BY <1>1, MarksTyped
  <2>3. marks[Len(marks)].literals \in Nat
    BY <2>2 DEF MarkType
  <2> QED
    BY <2>1, <2>3
<1>9. Len(out'.literals) - marks[Len(marks)].literals = N - anchor
  BY <1>3, <1>5, <1>8
<1>10. MarksFollowStreams'
  <2>1. Len(out'.literals) = marks[Len(marks)].literals + (N - anchor)
    BY <1>5, <1>8
  <2>2. \A q \in 1..(Len(out'.literals) - marks[Len(marks)].literals) :
          out'.literals[marks[Len(marks)].literals + q] = input[anchor + q]
    BY <1>5, <1>8, <1>9
  <2> QED
    BY <1>1, <1>2, <1>4, <1>5, <2>1, <2>2, Zenon DEF MarksFollowStreams, Mark
<1>11. TokensDescribeInput'
  <2> SUFFICES ASSUME NEW k \in 1..Len(out.tokens)
               PROVE  TokenDescribesInput(k)'
    BY <1>5 DEF TokensDescribeInput
  <2>1. TokenDescribesInput(k)
    BY <1>1 DEF TokensDescribeInput
  <2>2. /\ Len(out.tokens) \in Nat /\ Len(out.offsets) \in Nat
        /\ Len(out.extraLiteralLengths) \in Nat
        /\ Len(out.extraMatchLengths) \in Nat
        /\ Len(marks) \in Nat
    BY <1>1, <1>3, MarksTyped DEF Streams
  <2>3. /\ GrowsAtEnd(out.tokens, out'.tokens)
        /\ GrowsAtEnd(out.offsets, out'.offsets)
        /\ GrowsAtEnd(out.extraLiteralLengths, out'.extraLiteralLengths)
        /\ GrowsAtEnd(out.extraMatchLengths, out'.extraMatchLengths)
        /\ GrowsAtEnd(marks, marks')
    BY <1>2, <1>5, <2>2 DEF GrowsAtEnd
  <2>4. GrowsAtEnd(out.literals, out'.literals)
    BY <1>3, <1>5, <1>8 DEF GrowsAtEnd
  <2> QED
    BY <1>1, <1>2, <2>1, <2>3, <2>4, OldTokensStay
<1>12. SizesFollowTokens' /\ NeverFails'
  BY <1>1, <1>2, <1>5 DEF SizesFollowTokens, NeverFails
<1> QED
  BY <1>6, <1>7, <1>10, <1>11, <1>12 DEF IInv

\* The invariant holds when the function is entered with a legal chunk.
LEMMA InvInit ==
  ASSUME Init
  PROVE  IInv
<1>1. input \in Chunk /\ N \in 1..MaxChunk
  BY ChunkIsSequence DEF Init
<1>2. ~ TooLong
  BY <1>1, FormatAssumption DEF TooLong
<1>3. /\ table = [h \in Bucket |-> 0] /\ cursor = 0 /\ anchor = 0
      /\ out = NoStreams /\ encoding = "scan"
      /\ hash \in [Value \X Value -> Bucket]
      /\ marks = <<Mark(0, NoStreams)>>
  BY <1>2 DEF Init
<1>4. /\ Mark(0, NoStreams) = [end |-> 0, literals |-> 0,
                               extraLiteralLengths |-> 0, extraMatchLengths |-> 0]
      /\ NoStreams \in Streams
      /\ Len(NoStreams.tokens) = 0 /\ Len(NoStreams.offsets) = 0
      /\ Len(NoStreams.literals) = 0
      /\ Len(NoStreams.extraLiteralLengths) = 0
      /\ Len(NoStreams.extraMatchLengths) = 0
  BY DEF Mark, NoStreams, Streams
<1>5. 0 \in 0..N /\ 0 \in 0..0 /\ N \in Nat
  BY <1>1, FormatAssumption
<1>6. TypeOK
  <2>1. Mark(0, NoStreams) \in [end : 0..N, literals : Nat,
                                extraLiteralLengths : Nat, extraMatchLengths : Nat]
    BY <1>4, <1>5
  <2>2. marks \in Seq([end : 0..N, literals : Nat,
                       extraLiteralLengths : Nat, extraMatchLengths : Nat])
    BY <1>3, <2>1
  <2>3. table \in [Bucket -> 0..N]
    BY <1>3, <1>5
  <2> QED
    BY <1>1, <1>3, <1>4, <1>5, <2>2, <2>3, Zenon DEF TypeOK
<1>7. TableBehindCursor
  BY <1>3 DEF TableBehindCursor
<1>8. Len(marks) = 1 /\ marks[1] = Mark(0, NoStreams)
  BY <1>3
<1>9. MarksFollowStreams
  BY <1>3, <1>4, <1>5, <1>8 DEF MarksFollowStreams
<1>10. TokensDescribeInput
  BY <1>3, <1>4 DEF TokensDescribeInput
<1>11. SizesFollowTokens
  BY <1>3, <1>4, <1>8 DEF SizesFollowTokens
<1>12. NeverFails
  BY <1>3 DEF NeverFails
<1> QED
  BY <1>6, <1>7, <1>9, <1>10, <1>11, <1>12 DEF IInv

\* Every step of encode_u32_to_side_streams preserves the invariant.
LEMMA InvStep ==
  ASSUME IInv, [Next]_encoderVars
  PROVE  IInv'
<1>1. CASE EmitMatch
  BY <1>1, EmitStep
<1>2. CASE Advance
  BY <1>2, AdvanceStep
<1>3. CASE Finish
  BY <1>3, FinishStep
<1>4. CASE UNCHANGED encoderVars
  <2>1. /\ input' = input /\ hash' = hash /\ table' = table /\ cursor' = cursor
        /\ anchor' = anchor /\ out' = out /\ encoding' = encoding /\ marks' = marks
    BY <1>4 DEF encoderVars
  <2>2. TypeOK'
    BY <2>1, Zenon DEF IInv, TypeOK, N
  <2>3. TableBehindCursor'
    BY <2>1, Zenon DEF IInv, TableBehindCursor, HashAt, At, N
  <2>4. MarksFollowStreams'
    BY <2>1, Zenon DEF IInv, MarksFollowStreams, N
  <2>5. TokensDescribeInput'
    <3>1. ASSUME NEW k \in 1..Len(out.tokens)
          PROVE  TokenDescribesInput(k)'
      <4>1. TokenDescribesInput(k)
        BY DEF IInv, TokensDescribeInput
      <4> QED
        BY <2>1, <4>1, Zenon DEF TokenDescribesInput, LiteralRun, MatchFrom, MatchRun
    <3> QED
      BY <2>1, <3>1, Zenon DEF TokensDescribeInput
  <2>6. SizesFollowTokens' /\ NeverFails'
    BY <2>1, Zenon DEF IInv, SizesFollowTokens, NeverFails
  <2> QED
    BY <2>2, <2>3, <2>4, <2>5, <2>6 DEF IInv
<1> QED
  BY <1>1, <1>2, <1>3, <1>4 DEF Next, EncoderStep, EncoderReturned

\* The decoder's up-front limits follow from the invariant.
LEMMA LimitsFollow ==
  ASSUME IInv
  PROVE  WithinDecoderLimits
<1>1. /\ N \in Nat /\ anchor \in Nat /\ anchor <= N
      /\ Len(out.tokens) \in Nat
      /\ marks[Len(marks)] \in MarkType
  BY Counts, MarksTyped DEF IInv
<1>2. marks[Len(marks)].literals \in Nat
  BY <1>1 DEF MarkType
<1>3. /\ Len(out.extraLiteralLengths) <= Len(out.tokens)
      /\ Len(out.extraMatchLengths) <= Len(out.tokens)
      /\ marks[Len(marks)].literals + 2 * Len(out.tokens) <= anchor
      /\ Len(out.offsets) = Len(out.tokens)
  BY DEF IInv, SizesFollowTokens, MarksFollowStreams
<1>4. \/ Len(out.literals) = marks[Len(marks)].literals + (N - anchor)
      \/ Len(out.literals) = marks[Len(marks)].literals + 0
  BY Zenon DEF IInv, MarksFollowStreams
<1>5. Len(out.literals) + 2 * Len(out.tokens) <= N
  <2>1. PICK literals \in Nat : literals = marks[Len(marks)].literals
    BY <1>2
  <2>2. PICK tokens \in Nat : tokens = Len(out.tokens)
    BY <1>1
  <2>3. literals + 2 * tokens <= anchor
    BY <1>3, <2>1, <2>2
  <2>4. \/ Len(out.literals) = literals + (N - anchor)
        \/ Len(out.literals) = literals
    BY <1>4, <2>1
  <2>5. /\ (literals + (N - anchor)) + 2 * tokens <= N
        /\ literals + 2 * tokens <= N
    BY <1>1, <2>3
  <2> QED
    BY <2>2, <2>4, <2>5, Zenon
<1> QED
  BY <1>3, <1>5 DEF WithinDecoderLimits

-----------------------------------------------------------------------------
\* What the streams mean

\* The numbers the two marks of a token and its entries stand for.
LEMMA TokenNumbers ==
  ASSUME IInv, NEW k \in 1..Len(out.tokens)
  PROVE  /\ Len(out.tokens) \in Nat
         /\ marks[k] \in MarkType /\ marks[k + 1] \in MarkType
         /\ marks[k + 1].end <= N
         /\ marks[k + 1].literals <= Len(out.literals)
         /\ marks[k + 1].extraLiteralLengths <= Len(out.extraLiteralLengths)
         /\ marks[k + 1].extraMatchLengths <= Len(out.extraMatchLengths)
         /\ Len(out.literals) \in Nat
         /\ Len(out.extraLiteralLengths) \in Nat
         /\ Len(out.extraMatchLengths) \in Nat
         /\ Len(out.offsets) = Len(out.tokens)
<1>1. /\ TypeOK /\ MarksFollowStreams
  BY DEF IInv
<1>2. /\ Len(marks) = Len(out.tokens) + 1 /\ Len(out.tokens) \in Nat
      /\ \A j \in 1..Len(marks) : marks[j] \in MarkType
  BY <1>1, MarksTyped
<1>3. k \in 1..Len(marks) /\ k + 1 \in 1..Len(marks) /\ Len(marks) \in 1..Len(marks)
  BY <1>2
<1>4. /\ marks[k + 1].end <= anchor
      /\ marks[k + 1].literals <= marks[Len(marks)].literals
      /\ marks[k + 1].extraLiteralLengths <= Len(out.extraLiteralLengths)
      /\ marks[k + 1].extraMatchLengths <= Len(out.extraMatchLengths)
      /\ Len(out.offsets) = Len(out.tokens)
  BY <1>1, <1>3 DEF MarksFollowStreams
<1>5. /\ Len(out.literals) \in Nat
      /\ Len(out.extraLiteralLengths) \in Nat
      /\ Len(out.extraMatchLengths) \in Nat
  BY <1>1 DEF TypeOK, Streams
<1>6. /\ N \in Nat /\ anchor \in Nat /\ anchor <= N
  BY <1>1, Counts
<1>7. /\ marks[k] \in MarkType /\ marks[k + 1] \in MarkType
      /\ marks[Len(marks)] \in MarkType
  BY <1>2, <1>3
<1>8. marks[k + 1].end <= N
  BY <1>4, <1>6, <1>7 DEF MarkType
<1>9. marks[k + 1].literals <= Len(out.literals)
  <2>1. \/ Len(out.literals) = marks[Len(marks)].literals + (N - anchor)
        \/ Len(out.literals) = marks[Len(marks)].literals + 0
    BY <1>1, Zenon DEF MarksFollowStreams
  <2>2. marks[Len(marks)].literals \in Nat /\ marks[k + 1].literals \in Nat
    BY <1>7 DEF MarkType
  <2> QED
    BY <1>4, <1>6, <2>1, <2>2, SMTT(30)
<1> QED
  BY <1>2, <1>4, <1>5, <1>7, <1>8, <1>9

\* The match of a token runs from the end of its literals to the next mark.
LEMMA PieceEnds ==
  ASSUME NEW j,
         marks[j].end \in Nat, marks[j + 1].end \in Nat,
         marks[j].literals \in Nat, marks[j + 1].literals \in Nat,
         LiteralRun(j) >= 0, MatchRun(j) >= 2
  PROVE  /\ LiteralRun(j) \in Nat /\ MatchFrom(j) \in Nat
         /\ MatchRun(j) \in Nat \ {0}
         /\ MatchFrom(j) = marks[j].end + LiteralRun(j)
         /\ marks[j].literals + LiteralRun(j) = marks[j + 1].literals
         /\ MatchFrom(j) + MatchRun(j) = marks[j + 1].end
         /\ MatchFrom(j) < marks[j + 1].end
<1>1. PICK e1 \in Nat : e1 = marks[j].end
  OBVIOUS
<1>2. PICK e2 \in Nat : e2 = marks[j + 1].end
  OBVIOUS
<1>3. PICK l1 \in Nat : l1 = marks[j].literals
  OBVIOUS
<1>4. PICK l2 \in Nat : l2 = marks[j + 1].literals
  OBVIOUS
<1>5. /\ LiteralRun(j) = l2 - l1
      /\ MatchFrom(j) = e1 + (l2 - l1)
      /\ MatchRun(j) = e2 - (e1 + (l2 - l1))
  BY <1>1, <1>2, <1>3, <1>4, Zenon DEF LiteralRun, MatchFrom, MatchRun
<1>6. l2 - l1 >= 0 /\ e2 - (e1 + (l2 - l1)) >= 2
  BY <1>5, Zenon
<1>7. /\ l2 - l1 \in Nat /\ e1 + (l2 - l1) \in Nat
      /\ e2 - (e1 + (l2 - l1)) \in Nat \ {0}
      /\ l1 + (l2 - l1) = l2
      /\ (e1 + (l2 - l1)) + (e2 - (e1 + (l2 - l1))) = e2
      /\ e1 + (l2 - l1) < e2
  BY <1>6
<1> QED
  BY <1>1, <1>2, <1>3, <1>4, <1>5, <1>7, Zenon

\* After k tokens the entries they took are those the mark behind them counts.
EntriesMarked(k) ==
  /\ Explicits(out, k) = k
  /\ LongLiterals(out, k) = marks[k + 1].extraLiteralLengths
  /\ LongMatches(out, k) = marks[k + 1].extraMatchLengths

LEMMA EntriesAtMarks ==
  ASSUME IInv
  PROVE  \A k \in 0..Len(out.tokens) : EntriesMarked(k)
<1> DEFINE S == {k \in 0..Len(out.tokens) : EntriesMarked(k)}
<1>1. /\ Len(out.tokens) \in Nat
      /\ marks[1].extraLiteralLengths = 0 /\ marks[1].extraMatchLengths = 0
  <2>1. marks[1] = Mark(0, NoStreams)
    BY DEF IInv, MarksFollowStreams
  <2> QED
    BY <2>1, MarksTyped DEF IInv, Mark, NoStreams
<1>2. 0 \in S
  <2>1. Explicits(out, 0) = 0 /\ LongLiterals(out, 0) = 0 /\ LongMatches(out, 0) = 0
    BY EntriesCounted
  <2> QED
    BY <1>1, <2>1 DEF EntriesMarked
<1>3. ASSUME NEW k \in 1..Len(out.tokens), k - 1 \in S PROVE k \in S
  <2>1. PICK b \in Nat : k = b + 1 /\ b = k - 1
    <3>1. k - 1 \in Nat /\ k = (k - 1) + 1
      BY <1>1
    <3> QED
      BY <3>1
  <2>2. /\ Explicits(out, b) = b
        /\ LongLiterals(out, b) = marks[k].extraLiteralLengths
        /\ LongMatches(out, b) = marks[k].extraMatchLengths
    BY <1>3, <2>1 DEF EntriesMarked
  <2>3. /\ Explicits(out, k)
             = Explicits(out, b) + IF out.tokens[k].offsetCode = 3 THEN 1 ELSE 0
        /\ LongLiterals(out, k)
             = LongLiterals(out, b) + IF out.tokens[k].literalCode = CodeMax THEN 1 ELSE 0
        /\ LongMatches(out, k)
             = LongMatches(out, b) + IF out.tokens[k].matchCode = CodeMax THEN 1 ELSE 0
    BY <2>1, EntriesCounted
  <2>4. TokenDescribesInput(k)
    BY DEF IInv, TokensDescribeInput
  <2>5. out.tokens[k].offsetCode = 3
    BY <2>4 DEF TokenDescribesInput
  <2>6. /\ LiteralRun(k) \in Nat /\ MatchRun(k) \in Nat
        /\ marks[k].extraLiteralLengths \in Nat /\ marks[k].extraMatchLengths \in Nat
    BY <2>4, TokenNumbers, PieceEnds DEF TokenDescribesInput, MinMatch, MarkType
  <2>7. LongLiterals(out, k) = marks[k + 1].extraLiteralLengths
    <3>1. CASE LiteralRun(k) < CodeMax
      <4>1. /\ out.tokens[k].literalCode = LiteralRun(k)
            /\ marks[k + 1].extraLiteralLengths = marks[k].extraLiteralLengths
        BY <2>4, <3>1, Zenon DEF TokenDescribesInput
      <4>2. out.tokens[k].literalCode # CodeMax
        BY <2>6, <3>1, <4>1, FormatAssumption
      <4> QED
        BY <2>2, <2>3, <2>6, <4>1, <4>2
    <3>2. CASE ~ (LiteralRun(k) < CodeMax)
      <4>1. /\ out.tokens[k].literalCode = CodeMax
            /\ marks[k + 1].extraLiteralLengths = marks[k].extraLiteralLengths + 1
        BY <2>4, <3>2, Zenon DEF TokenDescribesInput
      <4> QED
        BY <2>2, <2>3, <4>1
    <3> QED
      BY <3>1, <3>2
  <2>8. LongMatches(out, k) = marks[k + 1].extraMatchLengths
    <3>1. CASE MatchRun(k) < CodeMax + 1
      <4>1. /\ out.tokens[k].matchCode = MatchRun(k) - 1
            /\ marks[k + 1].extraMatchLengths = marks[k].extraMatchLengths
        BY <2>4, <3>1, Zenon DEF TokenDescribesInput
      <4>2. out.tokens[k].matchCode # CodeMax
        BY <2>6, <3>1, <4>1, FormatAssumption
      <4> QED
        BY <2>2, <2>3, <2>6, <4>1, <4>2
    <3>2. CASE ~ (MatchRun(k) < CodeMax + 1)
      <4>1. /\ out.tokens[k].matchCode = CodeMax
            /\ marks[k + 1].extraMatchLengths = marks[k].extraMatchLengths + 1
        BY <2>4, <3>2, Zenon DEF TokenDescribesInput
      <4> QED
        BY <2>2, <2>3, <4>1
    <3> QED
      BY <3>1, <3>2
  <2>9. Explicits(out, k) = k
    BY <2>1, <2>2, <2>3, <2>5
  <2> QED
    BY <1>1, <2>7, <2>8, <2>9 DEF EntriesMarked
<1> HIDE DEF S
<1>4. 0..Len(out.tokens) \subseteq S
  BY <1>1, <1>2, <1>3, InductionUpTo
<1> QED
  BY <1>4 DEF S

\* The lengths the reference gives a token are those the parser found.
LEMMA LengthsAreRuns ==
  ASSUME IInv, NEW k \in 1..Len(out.tokens)
  PROVE  /\ LiteralRun(k) \in Nat /\ MatchRun(k) \in Nat \ {0}
         /\ LiteralLength(out, k) = LiteralRun(k)
         /\ MatchLength(out, k) = MatchRun(k)
<1>1. TokenDescribesInput(k)
  BY DEF IInv, TokensDescribeInput
<1>2. LiteralRun(k) \in Nat /\ MatchRun(k) \in Nat \ {0}
  BY <1>1, TokenNumbers, PieceEnds DEF TokenDescribesInput, MinMatch, MarkType
<1>3. /\ Cardinality(LongLiteralUpTo(out, k)) = marks[k + 1].extraLiteralLengths
      /\ Cardinality(LongMatchUpTo(out, k)) = marks[k + 1].extraMatchLengths
  <2>1. k \in 0..Len(out.tokens)
    BY TokenNumbers
  <2> QED
    BY <2>1, EntriesAtMarks DEF EntriesMarked, LongLiterals, LongMatches
<1>4. LiteralLength(out, k) = LiteralRun(k)
  <2>1. CASE LiteralRun(k) < CodeMax
    <3>1. out.tokens[k].literalCode = LiteralRun(k)
      BY <1>1, <2>1, Zenon DEF TokenDescribesInput
    <3> QED
      BY <2>1, <3>1, Zenon DEF LiteralLength
  <2>2. CASE ~ (LiteralRun(k) < CodeMax)
    <3>1. /\ out.tokens[k].literalCode = CodeMax
          /\ out.extraLiteralLengths[marks[k + 1].extraLiteralLengths]
               = LiteralRun(k) - CodeMax
      BY <1>1, <2>2, Zenon DEF TokenDescribesInput
    <3>2. ~ (CodeMax < CodeMax) /\ CodeMax + (LiteralRun(k) - CodeMax) = LiteralRun(k)
      BY <1>2, FormatAssumption
    <3> QED
      BY <1>3, <3>1, <3>2, Zenon DEF LiteralLength
  <2> QED
    BY <2>1, <2>2
<1>5. MatchLength(out, k) = MatchRun(k)
  <2>1. CASE MatchRun(k) < CodeMax + 1
    <3>1. out.tokens[k].matchCode = MatchRun(k) - 1
      BY <1>1, <2>1, Zenon DEF TokenDescribesInput
    <3>2. MatchRun(k) - 1 < CodeMax /\ 1 + (MatchRun(k) - 1) = MatchRun(k)
      BY <1>2, <2>1, FormatAssumption
    <3> QED
      BY <3>1, <3>2, Zenon DEF MatchLength
  <2>2. CASE ~ (MatchRun(k) < CodeMax + 1)
    <3>1. /\ out.tokens[k].matchCode = CodeMax
          /\ out.extraMatchLengths[marks[k + 1].extraMatchLengths]
               = MatchRun(k) - (CodeMax + 1)
      BY <1>1, <2>2, Zenon DEF TokenDescribesInput
    <3>2. /\ ~ (CodeMax < CodeMax)
          /\ 1 + CodeMax + (MatchRun(k) - (CodeMax + 1)) = MatchRun(k)
      BY <1>2, FormatAssumption
    <3> QED
      BY <1>3, <3>1, <3>2, Zenon DEF MatchLength
  <2> QED
    BY <2>1, <2>2
<1> QED
  BY <1>2, <1>4, <1>5

\* After k tokens the reference has covered what the mark behind them says.
LEMMA PositionsAtMarks ==
  ASSUME IInv
  PROVE  /\ Len(out.tokens) \in Nat /\ Tokens(out) = 1..Len(out.tokens)
         /\ LengthsKnown(out, Len(out.tokens))
         /\ \A k \in 0..Len(out.tokens) :
              /\ LiteralsThrough(out, k) = marks[k + 1].literals
              /\ MatchEnd(out, k) = marks[k + 1].end
         /\ \A k \in 1..Len(out.tokens) : MatchStart(out, k) = MatchFrom(k)
<1> DEFINE t == Len(out.tokens)
           S == {k \in 0..t : /\ LiteralsThrough(out, k) = marks[k + 1].literals
                              /\ MatchEnd(out, k) = marks[k + 1].end}
<1>1. t \in Nat /\ Tokens(out) = 1..t
  <2>1. out.tokens \in Seq(Token)
    BY DEF IInv, TypeOK, Streams
  <2> HIDE DEF Token
  <2> QED
    BY <2>1 DEF Tokens
<1>2. LengthsKnown(out, t)
  BY LengthsAreRuns DEF LengthsKnown
<1>3. /\ LiteralsThrough(out, 0) = 0 /\ MatchEnd(out, 0) = 0
      /\ \A k \in 1..t :
           /\ LiteralsThrough(out, k) = LiteralsThrough(out, k - 1) + LiteralLength(out, k)
           /\ MatchStart(out, k) = MatchEnd(out, k - 1) + LiteralLength(out, k)
           /\ MatchEnd(out, k) = MatchStart(out, k) + MatchLength(out, k)
  <2>1. t \in 0..t
    BY <1>1
  <2> QED
    BY <1>1, <1>2, <2>1, PositionsGrow, MatchesFollow
<1>4. 0 \in S
  <2>1. marks[1] = Mark(0, NoStreams)
    BY DEF IInv, MarksFollowStreams
  <2>2. marks[1].literals = 0 /\ marks[1].end = 0
    BY <2>1 DEF Mark, NoStreams
  <2> QED
    BY <1>1, <1>3, <2>2
<1>5. ASSUME NEW k \in 1..t, k - 1 \in S
      PROVE  /\ MatchStart(out, k) = MatchFrom(k)
             /\ LiteralsThrough(out, k) = marks[k + 1].literals
             /\ MatchEnd(out, k) = marks[k + 1].end
  <2>1. (k - 1) + 1 = k
    BY <1>1
  <2>2. /\ LiteralsThrough(out, k - 1) = marks[k].literals
        /\ MatchEnd(out, k - 1) = marks[k].end
    BY <1>5, <2>1
  <2>3. LiteralLength(out, k) = LiteralRun(k) /\ MatchLength(out, k) = MatchRun(k)
    BY LengthsAreRuns
  <2>4. /\ MatchFrom(k) = marks[k].end + LiteralRun(k)
        /\ marks[k].literals + LiteralRun(k) = marks[k + 1].literals
        /\ MatchFrom(k) + MatchRun(k) = marks[k + 1].end
    <3>1. TokenDescribesInput(k)
      BY DEF IInv, TokensDescribeInput
    <3> QED
      BY <3>1, TokenNumbers, PieceEnds DEF TokenDescribesInput, MinMatch, MarkType
  <2> QED
    BY <1>3, <2>2, <2>3, <2>4, Zenon
<1>6. 0..t \subseteq S
  <2>1. \A k \in 1..t : k - 1 \in S => k \in S
    BY <1>1, <1>5
  <2> HIDE DEF S
  <2> QED
    BY <1>1, <1>4, <2>1, InductionUpTo
<1>7. \A k \in 1..t : MatchStart(out, k) = MatchFrom(k)
  <2>1. \A k \in 1..t : k - 1 \in 0..t
    BY <1>1
  <2> QED
    BY <1>5, <1>6, <2>1
<1> QED
  BY <1>1, <1>2, <1>6, <1>7

\* Every token brings its own offset, and that one is the most recent.
LEMMA OwnOffsetFirst ==
  ASSUME IInv, NEW k \in 1..Len(out.tokens)
  PROVE  RecentOffsets(out)[k][1] = out.offsets[k]
<1> DEFINE t == Len(out.tokens)
           recent == RecentOffsets(out)
           S == {i \in 0..t : recent[i] \in Seq(Nat) /\ Len(recent[i]) = 3}
<1>1. t \in Nat /\ out.offsets \in Seq(Nat) /\ Len(out.offsets) = t
  BY TokenNumbers DEF IInv, TypeOK, Streams
<1>2. \A i \in 1..t : out.tokens[i].offsetCode = 3 /\ OffsetRead(out, i) = out.offsets[i]
  <2>1. ASSUME NEW i \in 1..t PROVE out.tokens[i].offsetCode = 3
    BY DEF IInv, TokensDescribeInput, TokenDescribesInput
  <2>2. ASSUME NEW i \in 1..t PROVE Cardinality(ExplicitUpTo(out, i)) = i
    <3>1. i \in 0..t
      BY <1>1
    <3> QED
      BY <3>1, EntriesAtMarks DEF EntriesMarked, Explicits
  <2> QED
    BY <2>1, <2>2 DEF OffsetRead
<1>3. /\ recent[0] = InitialRepeats
      /\ \A i \in 1..t : recent[i] = MoveToFront(Append(recent[i - 1], out.offsets[i]), 3)
  BY <1>1, <1>2, RecentOffsetsStep, ZenonT(30)
<1> HIDE DEF recent
<1>4. 0 \in S
  <2>1. InitialRepeats \in Seq(Nat) /\ Len(InitialRepeats) = 3
    BY DEF InitialRepeats
  <2>2. recent[0] \in Seq(Nat) /\ Len(recent[0]) = 3
    BY <1>3, <2>1, Zenon
  <2> QED
    BY <1>1, <2>2
<1>5. ASSUME NEW i \in 1..t, i - 1 \in S
      PROVE  /\ recent[i] \in Seq(Nat) /\ Len(recent[i]) = 3
             /\ recent[i][1] = out.offsets[i]
  <2>1. PICK x \in Nat : x = out.offsets[i]
    BY <1>1
  <2>2. PICK r \in Seq(Nat) : r = recent[i - 1] /\ Len(r) = 3
    BY <1>5
  <2> DEFINE q == Append(r, x)
  <2>3. q \in Seq(Nat) /\ Len(q) = 4 /\ q[4] = x
    <3>1. /\ q \in Seq(Nat) /\ Len(q) = Len(r) + 1
          /\ q[Len(r) + 1] = x
      BY AppendProperties
    <3> QED
      BY <2>2, <3>1
  <2> HIDE DEF q
  <2>4. /\ MoveToFront(q, 3) \in Seq(Nat) /\ Len(MoveToFront(q, 3)) = 3
        /\ MoveToFront(q, 3)[1] = q[3 + 1]
    <3>1. \A code \in 0..3 :
            /\ MoveToFront(q, code) \in Seq(Nat) /\ Len(MoveToFront(q, code)) = 3
            /\ MoveToFront(q, code)[1] = q[code + 1]
      BY <2>3, MovedEntries
    <3>2. 3 \in 0..3
      OBVIOUS
    <3> QED
      BY <3>1, <3>2, Zenon
  <2>5. recent[i] = MoveToFront(q, 3)
    BY <1>3, <2>1, <2>2 DEF q
  <2> QED
    BY <2>1, <2>3, <2>4, <2>5
<1>6. 0..t \subseteq S
  <2>1. \A i \in 1..t : i - 1 \in S => i \in S
    BY <1>1, <1>5
  <2> HIDE DEF S
  <2> QED
    BY <1>1, <1>4, <2>1, InductionUpTo
<1>7. k - 1 \in S
  <2>1. k - 1 \in 0..t
    BY <1>1
  <2> HIDE DEF S, t
  <2> QED
    BY <1>6, <2>1
<1>8. recent[k][1] = out.offsets[k]
  BY <1>5, <1>7
<1> QED
  BY <1>8 DEF recent

\* The encoder's streams are well formed for as much of the input as they cover.
LEMMA StreamsWellFormed ==
  ASSUME IInv, NEW covered, covered = IF encoding = "done" THEN N ELSE anchor
  PROVE  WellFormed(out, covered)
<1> DEFINE t == Len(out.tokens)
           last == marks[Len(marks)]
<1>1. /\ t \in Nat /\ Tokens(out) = 1..t /\ LengthsKnown(out, t)
      /\ \A k \in 0..t : /\ LiteralsThrough(out, k) = marks[k + 1].literals
                         /\ MatchEnd(out, k) = marks[k + 1].end
      /\ \A k \in 1..t : MatchStart(out, k) = MatchFrom(k)
  BY PositionsAtMarks
<1>2. /\ Len(marks) = t + 1 /\ last \in MarkType
      /\ Len(out.offsets) = t
      /\ last.end = anchor
      /\ last.extraLiteralLengths = Len(out.extraLiteralLengths)
      /\ last.extraMatchLengths = Len(out.extraMatchLengths)
      /\ Len(out.literals) = last.literals + (IF encoding = "done" THEN N - anchor ELSE 0)
  <2>1. Len(marks) \in 1..Len(marks)
    BY MarksTyped DEF IInv
  <2> QED
    BY <2>1, MarksTyped DEF IInv, MarksFollowStreams
<1>3. \A k \in Tokens(out) : ~ out.tokens[k].reserved
  BY <1>1 DEF IInv, TokensDescribeInput, TokenDescribesInput
<1>4. EntriesAreTaken(out)
  <2>1. EntriesMarked(t)
    BY <1>1, EntriesAtMarks
  <2> QED
    BY <1>2, <2>1 DEF EntriesAreTaken, EntriesMarked, Explicits, LongLiterals, LongMatches
<1>5. LiteralsThrough(out, t) = last.literals /\ MatchEnd(out, t) = last.end
  BY <1>1, <1>2
<1>6. PICK l, m \in Nat : l = LiteralsThrough(out, t) /\ m = MatchedThrough(out, t)
  BY <1>1, PositionsGrow
<1>7. anchor = l + m
  BY <1>2, <1>5, <1>6, Zenon DEF MatchEnd
<1>8. N \in Nat /\ anchor \in Nat /\ anchor <= N
  BY Counts DEF IInv
<1>9. l <= Len(out.literals) /\ Len(out.literals) + m = covered
  <2>1. PICK tail \in Nat :
          tail = (IF encoding = "done" THEN N - anchor ELSE 0) /\ covered = anchor + tail
    BY <1>8
  <2>2. Len(out.literals) = l + tail
    BY <1>2, <1>5, <1>6, <2>1, Zenon
  <2>3. l <= l + tail /\ (l + tail) + m = (l + m) + tail
    BY <1>6, <2>1
  <2> QED
    BY <1>7, <2>1, <2>2, <2>3, Zenon
<1>10. ASSUME NEW k \in Tokens(out)
       PROVE  RecentOffsets(out)[k][1] \in 1..MatchStart(out, k)
  <2>1. out.offsets[k] \in 1..MatchFrom(k)
    BY <1>1 DEF IInv, TokensDescribeInput, TokenDescribesInput
  <2> QED
    BY <1>1, <2>1, OwnOffsetFirst
<1> QED
  BY <1>3, <1>4, <1>6, <1>9, <1>10 DEF WellFormed

\* The part of the input that is covered reads as the reference reads streams.
LEMMA InputFollows ==
  ASSUME IInv, NEW covered \in 0..N, NEW s, s = SubSeq(input, 1, covered)
  PROVE  /\ s \in Seq(Value) /\ Len(s) = covered
         /\ \A p \in 1..covered : s[p] = input[p]
         /\ OutputFollows(out, Len(out.tokens), s)
<1> DEFINE t == Len(out.tokens)
<1>1. input \in Seq(Value) /\ N \in Nat /\ Len(input) = N
  BY ChunkIsSequence, FormatAssumption DEF IInv, TypeOK, N
<1>2. /\ s \in Seq(Value) /\ Len(s) = covered
      /\ \A p \in 1..covered : s[p] = input[p]
  BY <1>1
<1>3. /\ t \in Nat
      /\ Tokens(out) = 1..t /\ LengthsKnown(out, t)
      /\ \A k \in 0..t : /\ LiteralsThrough(out, k) = marks[k + 1].literals
                         /\ MatchEnd(out, k) = marks[k + 1].end
      /\ \A k \in 1..t : MatchStart(out, k) = MatchFrom(k)
  BY PositionsAtMarks
<1>4. ASSUME NEW j \in 1..t, NEW p \in 1..covered
      PROVE  /\ MatchEnd(out, j - 1) < p /\ p <= MatchStart(out, j) =>
                  s[p] = out.literals[p - MatchedThrough(out, j - 1)]
             /\ MatchStart(out, j) < p /\ p <= MatchEnd(out, j) =>
                  s[p] = s[p - RecentOffsets(out)[j][1]]
  <2>1. j - 1 \in 0..t /\ j \in 0..t /\ (j - 1) + 1 = j
    BY <1>3
  <2>2. /\ LiteralsThrough(out, j - 1) = marks[j].literals
        /\ MatchEnd(out, j - 1) = marks[j].end
        /\ MatchEnd(out, j) = marks[j + 1].end
        /\ MatchStart(out, j) = MatchFrom(j)
    BY <1>3, <2>1
  <2>3. /\ out.offsets[j] \in 1..MatchFrom(j)
        /\ \A q \in 1..LiteralRun(j) :
             out.literals[marks[j].literals + q] = input[marks[j].end + q]
        /\ \A i \in (MatchFrom(j) + 1) .. marks[j + 1].end :
             input[i] = input[i - out.offsets[j]]
    BY DEF IInv, TokensDescribeInput, TokenDescribesInput
  <2>4. PICK e, r \in Nat : e = marks[j].end /\ r = LiteralRun(j)
    BY TokenNumbers, LengthsAreRuns DEF MarkType
  <2>5. MatchFrom(j) = e + r
    BY <2>4 DEF MatchFrom
  <2>6. p \in Nat /\ covered \in Nat
    BY <1>1
  <2>7. ASSUME MatchEnd(out, j - 1) < p, p <= MatchStart(out, j)
        PROVE  s[p] = out.literals[p - MatchedThrough(out, j - 1)]
    <3>1. e < p /\ p <= e + r
      BY <2>2, <2>4, <2>5, <2>7
    <3>2. PICK l, m \in Nat :
            l = LiteralsThrough(out, j - 1) /\ m = MatchedThrough(out, j - 1)
      <4>1. t \in 0..t
        BY <1>3
      <4> QED
        BY <1>3, <2>1, <4>1, PositionsGrow
    <3>3. e = l + m /\ l = marks[j].literals
      BY <2>2, <2>4, <3>2, Zenon DEF MatchEnd
    <3>4. p - e \in 1..r /\ e + (p - e) = p /\ l + (p - e) = p - m
      <4>1. e = l + m
        BY <3>3
      <4>2. e \in Nat /\ r \in Nat /\ l \in Nat /\ m \in Nat /\ p \in Nat
        BY <2>4, <2>6, <3>2, Zenon
      <4> QED
        BY <3>1, <4>1, <4>2
    <3>5. out.literals[l + (p - e)] = input[e + (p - e)]
      BY <2>3, <2>4, <3>3, <3>4
    <3> QED
      BY <1>2, <3>2, <3>4, <3>5
  <2>8. ASSUME MatchStart(out, j) < p, p <= MatchEnd(out, j)
        PROVE  s[p] = s[p - RecentOffsets(out)[j][1]]
    <3>1. PICK d, b \in Nat : d = out.offsets[j] /\ b = marks[j + 1].end /\ d \in 1..(e + r)
      <4>1. marks[j + 1].end \in Nat
        BY TokenNumbers DEF MarkType
      <4>2. out.offsets[j] \in 1..(e + r)
        BY <2>3, <2>5
      <4>3. out.offsets[j] \in Nat
        BY <2>4, <4>2
      <4> QED
        BY <4>1, <4>2, <4>3
    <3>2. e + r < p /\ p <= b
      BY <2>2, <2>5, <2>8, <3>1
    <3>3. p \in (e + r + 1)..b /\ p - d \in 1..covered
      BY <2>6, <3>1, <3>2
    <3>4. input[p] = input[p - d]
      BY <2>3, <2>5, <3>1, <3>3
    <3>5. RecentOffsets(out)[j][1] = d
      BY <3>1, OwnOffsetFirst
    <3> QED
      BY <1>2, <3>3, <3>4, <3>5
  <2> QED
    BY <2>7, <2>8
<1> QED
  BY <1>2, <1>4 DEF OutputFollows

\* What the streams mean is the covered part of the input.
LEMMA StreamsMean ==
  ASSUME IInv
  PROVE  StreamsMeanInput
<1>1. PICK covered : covered = IF encoding = "done" THEN N ELSE anchor
  OBVIOUS
<1>2. N \in Nat /\ anchor \in Nat /\ anchor <= N /\ covered \in 0..N
  BY <1>1, Counts DEF IInv
<1>3. PICK s : s = SubSeq(input, 1, covered)
  OBVIOUS
<1>4. WellFormed(out, covered)
  BY <1>1, StreamsWellFormed
<1>5. /\ s \in Seq(Value) /\ Len(s) = covered
      /\ \A p \in 1..covered : s[p] = input[p]
      /\ OutputFollows(out, Len(out.tokens), s)
  BY <1>2, <1>3, InputFollows
<1>6. ASSUME NEW p \in 1..covered, MatchEnd(out, Len(out.tokens)) < p
      PROVE  s[p] = out.literals[p - MatchedThrough(out, Len(out.tokens))]
  <2> DEFINE t == Len(out.tokens)
             last == marks[Len(marks)]
  <2>1. /\ t \in Nat /\ t \in 0..t /\ LengthsKnown(out, t) /\ Tokens(out) = 1..t
        /\ LiteralsThrough(out, t) = marks[t + 1].literals
        /\ MatchEnd(out, t) = marks[t + 1].end
    BY PositionsAtMarks
  <2>2. /\ Len(marks) = t + 1 /\ last.end = anchor
        /\ Len(out.literals) = last.literals + (IF encoding = "done" THEN N - anchor ELSE 0)
        /\ \A q \in 1..(Len(out.literals) - last.literals) :
             out.literals[last.literals + q] = input[anchor + q]
    BY DEF IInv, MarksFollowStreams
  <2>3. PICK l, m \in Nat : l = LiteralsThrough(out, t) /\ m = MatchedThrough(out, t)
    BY <2>1, PositionsGrow
  <2>4. anchor = l + m /\ last.literals = l
    BY <2>1, <2>2, <2>3, Zenon DEF MatchEnd
  <2>5. anchor < p
    BY <1>6, <2>1, <2>2
  <2>6. encoding = "done" /\ covered = N
    BY <1>1, <1>2, <2>5
  <2>7. Len(out.literals) - last.literals = N - anchor
    BY <1>2, <2>2, <2>3, <2>4, <2>6
  <2>8. /\ p - anchor \in 1..(N - anchor)
        /\ anchor + (p - anchor) = p /\ l + (p - anchor) = p - m
    BY <1>2, <2>4, <2>5, <2>6
  <2>9. out.literals[l + (p - anchor)] = input[anchor + (p - anchor)]
    BY <2>2, <2>4, <2>7, <2>8
  <2> QED
    BY <1>5, <2>3, <2>8, <2>9
<1>7. out \in Streams /\ covered \in Nat
  BY <1>2 DEF IInv, TypeOK
<1>8. s = Meaning(out, covered)
  BY <1>4, <1>5, <1>6, <1>7, MeaningIsUnique
<1> QED
  BY <1>1, <1>3, <1>4, <1>8 DEF StreamsMeanInput

-----------------------------------------------------------------------------
\* Theorems about the encoder

\* The invariant holds in every state of every run of
\* encode_u32_to_side_streams.
THEOREM EncoderInvariant == Spec => []IInv
<1>1. Init => IInv
  BY InvInit
<1>2. IInv /\ [Next]_encoderVars => IInv'
  BY InvStep
<1> QED
  BY <1>1, <1>2, PTL DEF Spec

\* The cursor, the anchor, the table and the streams keep their shapes.
THEOREM TypeCorrect == Spec => []TypeOK
<1>1. IInv => TypeOK
  BY DEF IInv
<1> QED
  BY <1>1, EncoderInvariant, PTL

\* Whatever the hash function does, the table never names a position the
\* decoder would not have produced: each of its three writers is covered.
THEOREM TableStaysBehind == Spec => []TableBehindCursor
<1>1. IInv => TableBehindCursor
  BY DEF IInv
<1> QED
  BY <1>1, EncoderInvariant, PTL

\* Every token written describes its piece of the input exactly.
THEOREM TokensAreRight == Spec => []TokensDescribeInput
<1>1. IInv => TokensDescribeInput
  BY DEF IInv
<1> QED
  BY <1>1, EncoderInvariant, PTL

\* The pieces the tokens describe follow each other without gap or overlap
\* up to the anchor, and the last literals cover the rest.
THEOREM MarksCoverInput == Spec => []MarksFollowStreams
<1>1. IInv => MarksFollowStreams
  BY DEF IInv
<1> QED
  BY <1>1, EncoderInvariant, PTL

\* The limits decode_side_streams checks before its first token hold for
\* every stream the encoder writes.
THEOREM StreamsFitDecoder == Spec => []WithinDecoderLimits
<1>1. IInv => WithinDecoderLimits
  BY LimitsFollow
<1> QED
  BY <1>1, EncoderInvariant, PTL

\* None of the checks that would make the function return an error can fire.
THEOREM EncoderNeverFails == Spec => []NeverFails
<1>1. IInv => NeverFails
  BY DEF IInv
<1> QED
  BY <1>1, EncoderInvariant, PTL

\* At every step the streams emitted so far are well formed and mean exactly
\* the input up to the anchor, and in the end the whole chunk: the greedy
\* parser, the escapes and the table lose, invent and reorder nothing.
THEOREM StreamsAreRight == Spec => []StreamsMeanInput
<1>1. IInv => StreamsMeanInput
  BY StreamsMean
<1> QED
  BY <1>1, EncoderInvariant, PTL

-----------------------------------------------------------------------------
\* Encoder and decoder together

\* The decoder was called with what the encoder returned.
Handed ==
  /\ encoding = "done"
  /\ streams = out
  /\ aligned = TRUE
  /\ chunkLen = N

\* The decoder's cursors are at the mark behind its last token.
AtMark ==
  /\ read.tokens \in 0..Len(out.tokens)
  /\ read.offsets = read.tokens
  /\ read.literals = marks[read.tokens + 1].literals
  /\ read.extraLiteralLengths = marks[read.tokens + 1].extraLiteralLengths
  /\ read.extraMatchLengths = marks[read.tokens + 1].extraMatchLengths

\* The match of the last token is being copied.
MatchUnderWay ==
  /\ read.tokens >= 1
  /\ left \in Nat \ {0}
  /\ offset = out.offsets[read.tokens]
  /\ Len(output) >= MatchFrom(read.tokens)
  /\ Len(output) + left = marks[read.tokens + 1].end

RInv ==
  /\ IInv
  /\ output \in Seq(Value)
  /\ OutputIsPrefix
  /\ decoding \in {"idle", "check", "token", "match", "done"}
  /\ decoding # "idle" => Handed
  /\ decoding \in {"idle", "check"} =>
       aligned = TRUE /\ read = Dec!NothingRead /\ output = <<>>
  /\ decoding = "token" => AtMark /\ Len(output) = marks[read.tokens + 1].end
  /\ decoding = "match" => AtMark /\ MatchUnderWay
  /\ decoding = "done" => Len(output) = N

-----------------------------------------------------------------------------
\* The decoder's steps

\* The limits checked up front are the ones the encoder keeps.
LEMMA LimitsHold ==
  ASSUME IInv, Handed, WithinDecoderLimits
  PROVE  Dec!WithinLimits
<1>1. /\ Len(out.tokens) \in Nat /\ Len(out.literals) \in Nat /\ N \in Nat
  BY Counts DEF IInv, TypeOK, Streams
<1>2. /\ Len(out.offsets) = Len(out.tokens)
      /\ Len(out.extraLiteralLengths) <= Len(out.tokens)
      /\ Len(out.extraMatchLengths) <= Len(out.tokens)
      /\ Len(out.literals) + 2 * Len(out.tokens) <= N
  BY DEF WithinDecoderLimits
<1>3. Len(out.literals) <= N /\ Len(out.tokens) <= N
  <2>1. PICK literals \in Nat : literals = Len(out.literals)
    BY <1>1
  <2>2. PICK tokens \in Nat : tokens = Len(out.tokens)
    BY <1>1
  <2>3. literals + 2 * tokens <= N
    BY <1>2, <2>1, <2>2
  <2>4. literals <= N /\ tokens <= N
    BY <1>1, <2>3
  <2> QED
    BY <2>1, <2>2, <2>4
<1> QED
  BY <1>1, <1>2, <1>3 DEF Handed, Dec!WithinLimits

\* What the decoder makes of the next token: the offset, the two lengths and
\* no reason to refuse it.
LEMMA NextTokenAccepted ==
  ASSUME IInv, Handed, AtMark, Len(output) = marks[read.tokens + 1].end,
         NEW j \in 1..Len(out.tokens), j = read.tokens + 1
  PROVE  /\ Dec!TakesOffset
         /\ Dec!TokenOffset = out.offsets[j]
         /\ Dec!LiteralLen = LiteralRun(j)
         /\ Dec!MatchLen = MatchRun(j)
         /\ Dec!TakesExtraLiteral =>
              marks[j + 1].extraLiteralLengths = marks[j].extraLiteralLengths + 1
         /\ ~ Dec!TakesExtraLiteral =>
              marks[j + 1].extraLiteralLengths = marks[j].extraLiteralLengths
         /\ Dec!TakesExtraMatch =>
              marks[j + 1].extraMatchLengths = marks[j].extraMatchLengths + 1
         /\ ~ Dec!TakesExtraMatch =>
              marks[j + 1].extraMatchLengths = marks[j].extraMatchLengths
         /\ Dec!AcceptsToken
<1>1. TokenDescribesInput(j)
  BY DEF IInv, TokensDescribeInput
<1>2. /\ read.tokens + 1 = j /\ read.offsets + 1 = j /\ j \in Nat
      /\ read.offsets = j - 1 /\ read.tokens \in Nat
      /\ read.literals = marks[j].literals
      /\ read.extraLiteralLengths = marks[j].extraLiteralLengths
      /\ read.extraMatchLengths = marks[j].extraMatchLengths
      /\ Len(output) = marks[j].end
      /\ streams = out /\ chunkLen = N
  <2>1. read.tokens \in Nat
    BY DEF AtMark
  <2> QED
    BY <2>1 DEF AtMark, Handed
<1>3. /\ marks[j].end \in Nat /\ marks[j + 1].end \in Nat
      /\ marks[j].literals \in Nat /\ marks[j + 1].literals \in Nat
      /\ marks[j].extraLiteralLengths \in Nat
      /\ marks[j].extraMatchLengths \in Nat
  BY TokenNumbers DEF MarkType
<1>4. /\ LiteralRun(j) = marks[j + 1].literals - marks[j].literals
      /\ MatchFrom(j) = marks[j].end + LiteralRun(j)
      /\ MatchRun(j) = marks[j + 1].end - MatchFrom(j)
  BY DEF LiteralRun, MatchFrom, MatchRun
<1>5. /\ LiteralRun(j) \in Nat /\ MatchFrom(j) \in Nat /\ MatchRun(j) \in Nat
      /\ MatchRun(j) >= 2
      /\ marks[j].literals + LiteralRun(j) = marks[j + 1].literals
      /\ MatchFrom(j) + MatchRun(j) = marks[j + 1].end
  <2>1. LiteralRun(j) >= 0 /\ MatchRun(j) >= 2
    BY <1>1 DEF TokenDescribesInput, MinMatch
  <2> QED
    BY ONLY <1>3, <2>1, PieceEnds
<1>6. /\ Dec!NextToken = out.tokens[j]
      /\ out.tokens[j].offsetCode = 3
      /\ ~ out.tokens[j].reserved
  BY <1>1, <1>2, Zenon DEF TokenDescribesInput, Dec!NextToken
<1>7. Dec!TakesOffset
  BY <1>6 DEF Dec!TakesOffset
<1>8. Dec!TokenOffset = out.offsets[j]
  BY <1>2, <1>7, Zenon DEF Dec!TokenOffset
<1>9. /\ Dec!LiteralLen = LiteralRun(j)
      /\ Dec!TakesExtraLiteral =>
           marks[j + 1].extraLiteralLengths = marks[j].extraLiteralLengths + 1
      /\ ~ Dec!TakesExtraLiteral =>
           marks[j + 1].extraLiteralLengths = marks[j].extraLiteralLengths
  <2>1. CASE LiteralRun(j) < CodeMax
    <3>1. /\ out.tokens[j].literalCode = LiteralRun(j)
          /\ marks[j + 1].extraLiteralLengths = marks[j].extraLiteralLengths
      BY <1>1, <2>1, Zenon DEF TokenDescribesInput
    <3>2. LiteralRun(j) # CodeMax
      BY <1>5, <2>1, FormatAssumption
    <3> QED
      BY <1>6, <3>1, <3>2, Zenon DEF Dec!LiteralLen, Dec!TakesExtraLiteral
  <2>2. CASE ~ (LiteralRun(j) < CodeMax)
    <3>1. /\ out.tokens[j].literalCode = CodeMax
          /\ marks[j + 1].extraLiteralLengths = marks[j].extraLiteralLengths + 1
          /\ out.extraLiteralLengths[marks[j + 1].extraLiteralLengths]
               = LiteralRun(j) - CodeMax
      BY <1>1, <2>2, Zenon DEF TokenDescribesInput
    <3>2. Dec!TakesExtraLiteral
      BY <1>6, <3>1, Zenon DEF Dec!TakesExtraLiteral
    <3>3. Dec!LiteralLen = CodeMax + (LiteralRun(j) - CodeMax)
      BY <1>2, <3>1, <3>2, Zenon DEF Dec!LiteralLen
    <3>4. CodeMax + (LiteralRun(j) - CodeMax) = LiteralRun(j)
      BY <1>5, FormatAssumption
    <3> QED
      BY <3>1, <3>2, <3>3, <3>4, Zenon
  <2> QED
    BY <2>1, <2>2
<1>10. /\ Dec!MatchLen = MatchRun(j)
       /\ Dec!TakesExtraMatch =>
            marks[j + 1].extraMatchLengths = marks[j].extraMatchLengths + 1
       /\ ~ Dec!TakesExtraMatch =>
            marks[j + 1].extraMatchLengths = marks[j].extraMatchLengths
  <2>1. CASE MatchRun(j) < CodeMax + 1
    <3>1. /\ out.tokens[j].matchCode = MatchRun(j) - 1
          /\ marks[j + 1].extraMatchLengths = marks[j].extraMatchLengths
      BY <1>1, <2>1, Zenon DEF TokenDescribesInput
    <3>2. MatchRun(j) - 1 # CodeMax /\ 1 + (MatchRun(j) - 1) = MatchRun(j)
      BY <1>5, <2>1, FormatAssumption
    <3> QED
      BY <1>6, <3>1, <3>2, Zenon DEF Dec!MatchLen, Dec!TakesExtraMatch
  <2>2. CASE ~ (MatchRun(j) < CodeMax + 1)
    <3>1. /\ out.tokens[j].matchCode = CodeMax
          /\ marks[j + 1].extraMatchLengths = marks[j].extraMatchLengths + 1
          /\ out.extraMatchLengths[marks[j + 1].extraMatchLengths]
               = MatchRun(j) - (CodeMax + 1)
      BY <1>1, <2>2, Zenon DEF TokenDescribesInput
    <3>2. Dec!TakesExtraMatch
      BY <1>6, <3>1, Zenon DEF Dec!TakesExtraMatch
    <3>3. Dec!MatchLen = CodeMax + 1 + (MatchRun(j) - (CodeMax + 1))
      BY <1>2, <3>1, <3>2, Zenon DEF Dec!MatchLen
    <3>4. CodeMax + 1 + (MatchRun(j) - (CodeMax + 1)) = MatchRun(j)
      BY <1>5, FormatAssumption
    <3> QED
      BY <3>1, <3>2, <3>3, <3>4, Zenon
  <2> QED
    BY <2>1, <2>2
<1>11. ~ Dec!SideStreamUnderflow
  <2>1. ~ (read.offsets >= Len(out.offsets))
    BY <1>2, TokenNumbers
  <2>2. Dec!TakesExtraLiteral =>
          ~ (read.extraLiteralLengths >= Len(out.extraLiteralLengths))
    <3>1. /\ marks[j + 1].extraLiteralLengths <= Len(out.extraLiteralLengths)
          /\ Len(out.extraLiteralLengths) \in Nat
      BY TokenNumbers
    <3>2. marks[j + 1].extraLiteralLengths = marks[j].extraLiteralLengths + 1 =>
            ~ (marks[j].extraLiteralLengths >= Len(out.extraLiteralLengths))
      BY <1>3, <3>1
    <3> QED
      BY <1>2, <1>9, <3>2, Zenon
  <2>3. Dec!TakesExtraMatch =>
          ~ (read.extraMatchLengths >= Len(out.extraMatchLengths))
    <3>1. /\ marks[j + 1].extraMatchLengths <= Len(out.extraMatchLengths)
          /\ Len(out.extraMatchLengths) \in Nat
      BY TokenNumbers
    <3>2. marks[j + 1].extraMatchLengths = marks[j].extraMatchLengths + 1 =>
            ~ (marks[j].extraMatchLengths >= Len(out.extraMatchLengths))
      BY <1>3, <3>1
    <3> QED
      BY <1>2, <1>10, <3>2, Zenon
  <2> QED
    BY <1>2, <2>1, <2>2, <2>3, Zenon DEF Dec!SideStreamUnderflow
<1>12. Dec!TokenFits
  <2>1. out.offsets[j] \in 1..MatchFrom(j)
    BY <1>1 DEF TokenDescribesInput
  <2>2. /\ marks[j].literals + LiteralRun(j) <= Len(out.literals)
        /\ out.offsets[j] # 0
        /\ out.offsets[j] <= marks[j].end + LiteralRun(j)
        /\ (marks[j].end + LiteralRun(j)) + MatchRun(j) <= N
    <3>1. /\ marks[j + 1].literals <= Len(out.literals)
          /\ marks[j + 1].end <= N
      BY TokenNumbers
    <3>2. marks[j].literals + LiteralRun(j) = marks[j + 1].literals
      BY <1>5
    <3>3. (marks[j].end + LiteralRun(j)) + MatchRun(j) = marks[j + 1].end
      BY <1>4, <1>5, Zenon
    <3>4. out.offsets[j] # 0 /\ out.offsets[j] <= MatchFrom(j)
      BY <1>5, <2>1
    <3> QED
      BY <1>4, <3>1, <3>2, <3>3, <3>4, Zenon
  <2> QED
    BY <1>2, <1>8, <1>9, <1>10, <2>2, Zenon DEF Dec!TokenFits
<1>13. Dec!AcceptsToken
  BY <1>6, <1>11, <1>12, Zenon DEF Dec!AcceptsToken
<1> QED
  BY <1>7, <1>8, <1>9, <1>10, <1>13, Zenon

\* The literals of token j are the values behind the output so far.
LEMMA LiteralsContinueInput ==
  ASSUME IInv, OutputIsPrefix, output \in Seq(Value),
         NEW from \in Nat, NEW n \in Nat,
         from + n <= Len(out.literals), Len(output) + n <= N,
         \A q \in 1..n : out.literals[from + q] = input[Len(output) + q]
  PROVE  LET r == output \o SubSeq(out.literals, from + 1, from + n)
         IN  /\ r \in Seq(Value)
             /\ Len(r) = Len(output) + n
             /\ \A p \in 1..Len(r) : r[p] = input[p]
<1> DEFINE piece == SubSeq(out.literals, from + 1, from + n)
<1>1. out.literals \in Seq(Value) /\ Len(out.literals) \in Nat
  BY DEF IInv, TypeOK, Streams
<1>2. /\ piece \in Seq(Value)
      /\ Len(piece) = n
      /\ \A q \in 1..n : piece[q] = out.literals[from + q]
  <2>1. PICK lits \in Seq(Value) : lits = out.literals
    BY <1>1
  <2>2. from + n <= Len(lits) /\ Len(lits) \in Nat
    BY <2>1
  <2>3. /\ SubSeq(lits, from + 1, from + n) \in Seq(Value)
        /\ Len(SubSeq(lits, from + 1, from + n)) = n
        /\ \A q \in 1..n : SubSeq(lits, from + 1, from + n)[q] = lits[from + q]
    BY <2>2
  <2> QED
    BY <2>1, <2>3, Zenon
<1> HIDE DEF piece
<1>3. PICK more \in Seq(Value) : more = piece
  BY <1>2
<1>4. PICK before \in Seq(Value) : before = output
  OBVIOUS
<1>5. /\ Len(before) \in Nat
      /\ Len(more) = n
      /\ \A p \in 1..Len(before) : before[p] = input[p]
      /\ \A q \in 1..n : more[q] = input[Len(before) + q]
  <2>1. Len(before) \in Nat
    OBVIOUS
  <2>2. Len(more) = n
    BY <1>2, <1>3, Zenon
  <2>3. \A p \in 1..Len(before) : before[p] = input[p]
    BY <1>4, Zenon DEF OutputIsPrefix
  <2>4. \A q \in 1..n : more[q] = input[Len(before) + q]
    BY <1>2, <1>3, <1>4, Zenon
  <2> QED
    BY <2>1, <2>2, <2>3, <2>4, Zenon
<1>6. /\ before \o more \in Seq(Value)
      /\ Len(before \o more) = Len(before) + Len(more)
      /\ \A q \in 1..Len(before) : (before \o more)[q] = before[q]
      /\ \A q \in 1..Len(more) : (before \o more)[Len(before) + q] = more[q]
  BY ONLY ConcatenatedSequences
<1>7. ASSUME NEW p \in 1..(Len(before) + n)
      PROVE  (before \o more)[p] = input[p]
  <2>1. CASE p <= Len(before)
    <3>1. p \in 1..Len(before)
      BY <1>5, <2>1
    <3> QED
      BY <1>5, <1>6, <3>1
  <2>2. CASE ~ (p <= Len(before))
    <3>1. PICK q \in 1..n : p = Len(before) + q
      <4>1. p - Len(before) \in 1..n /\ p = Len(before) + (p - Len(before))
        BY <1>5, <2>2
      <4> QED
        BY <4>1
    <3> QED
      BY <1>5, <1>6, <3>1
  <2> QED
    BY <2>1, <2>2
<1>8. /\ before \o more \in Seq(Value)
      /\ Len(before \o more) = Len(before) + n
      /\ \A p \in 1..Len(before \o more) : (before \o more)[p] = input[p]
  BY <1>5, <1>6, <1>7
<1> QED
  BY <1>3, <1>4, <1>8, Zenon DEF piece

\* No header is refused.
LEMMA NoTokenRejected ==
  ASSUME RInv
  PROVE  ~ Dec!RejectToken
<1>1. SUFFICES ASSUME Dec!RejectToken PROVE FALSE
  OBVIOUS
<1>2. decoding = "token" /\ read.tokens < Len(streams.tokens) /\ ~ Dec!AcceptsToken
  BY <1>1 DEF Dec!RejectToken, Dec!TokenLeft
<1>3. /\ IInv /\ Handed /\ AtMark
      /\ Len(output) = marks[read.tokens + 1].end
  BY <1>2 DEF RInv
<1>4. PICK j \in 1..Len(out.tokens) : j = read.tokens + 1
  <2>1. Len(out.tokens) \in Nat
    BY <1>3 DEF IInv, TypeOK, Streams
  <2>2. read.tokens + 1 \in 1..Len(out.tokens)
    BY <1>2, <1>3, <2>1 DEF AtMark, Handed
  <2> QED
    BY <2>2
<1> QED
  BY <1>2, <1>3, <1>4, NextTokenAccepted

\* One header read moves every cursor to the next mark and the output to the
\* start of the token's match.
LEMMA ReadTokenStep ==
  ASSUME RInv, Dec!ReadToken, UNCHANGED encoderVars
  PROVE  RInv'
<1>1. /\ IInv /\ Handed /\ AtMark /\ OutputIsPrefix /\ output \in Seq(Value)
      /\ Len(output) = marks[read.tokens + 1].end
      /\ decoding = "token" /\ read.tokens < Len(out.tokens)
  BY DEF RInv, Dec!ReadToken, Dec!TokenLeft, Handed
<1>2. PICK j \in 1..Len(out.tokens) : j = read.tokens + 1
  <2>1. Len(out.tokens) \in Nat
    BY <1>1 DEF IInv, TypeOK, Streams
  <2>2. read.tokens + 1 \in 1..Len(out.tokens)
    BY <1>1, <2>1 DEF AtMark
  <2> QED
    BY <2>2
<1>3. /\ Dec!TakesOffset
      /\ Dec!TokenOffset = out.offsets[j]
      /\ Dec!LiteralLen = LiteralRun(j)
      /\ Dec!MatchLen = MatchRun(j)
      /\ Dec!TakesExtraLiteral =>
           marks[j + 1].extraLiteralLengths = marks[j].extraLiteralLengths + 1
      /\ ~ Dec!TakesExtraLiteral =>
           marks[j + 1].extraLiteralLengths = marks[j].extraLiteralLengths
      /\ Dec!TakesExtraMatch =>
           marks[j + 1].extraMatchLengths = marks[j].extraMatchLengths + 1
      /\ ~ Dec!TakesExtraMatch =>
           marks[j + 1].extraMatchLengths = marks[j].extraMatchLengths
  BY <1>1, <1>2, NextTokenAccepted
<1>4. /\ input' = input /\ hash' = hash /\ table' = table /\ cursor' = cursor
      /\ anchor' = anchor /\ out' = out /\ encoding' = encoding /\ marks' = marks
      /\ streams' = streams /\ aligned' = aligned /\ chunkLen' = chunkLen
      /\ decoding' = "match"
  BY DEF encoderVars, Dec!ReadToken
<1>5. IInv'
  BY <1>1, InvStep DEF encoderVars
<1>6. /\ marks[j].end \in Nat /\ marks[j + 1].end \in Nat
      /\ marks[j].literals \in Nat /\ marks[j + 1].literals \in Nat
      /\ marks[j + 1].literals <= Len(out.literals)
      /\ marks[j + 1].end <= N
      /\ Len(out.tokens) \in Nat
  BY TokenNumbers, <1>1 DEF MarkType
<1>7. /\ LiteralRun(j) = marks[j + 1].literals - marks[j].literals
      /\ MatchFrom(j) = marks[j].end + LiteralRun(j)
      /\ MatchRun(j) = marks[j + 1].end - MatchFrom(j)
      /\ LiteralRun(j) >= 0 /\ MatchRun(j) >= 2
      /\ \A q \in 1..LiteralRun(j) :
           out.literals[marks[j].literals + q] = input[marks[j].end + q]
  <2>1. TokenDescribesInput(j)
    BY <1>1 DEF IInv, TokensDescribeInput
  <2> QED
    BY <2>1 DEF TokenDescribesInput, MinMatch, LiteralRun, MatchFrom, MatchRun
<1>8. /\ LiteralRun(j) \in Nat /\ MatchFrom(j) \in Nat /\ MatchRun(j) \in Nat \ {0}
      /\ marks[j].literals + LiteralRun(j) = marks[j + 1].literals
      /\ MatchFrom(j) + MatchRun(j) = marks[j + 1].end
      /\ MatchFrom(j) <= N
  <2>1. /\ LiteralRun(j) \in Nat /\ MatchFrom(j) \in Nat
        /\ MatchRun(j) \in Nat \ {0}
        /\ marks[j].literals + LiteralRun(j) = marks[j + 1].literals
        /\ MatchFrom(j) + MatchRun(j) = marks[j + 1].end
        /\ MatchFrom(j) < marks[j + 1].end
    BY <1>6, <1>7, PieceEnds
  <2>2. N \in Nat
    BY <1>1, Counts DEF IInv
  <2>3. MatchFrom(j) <= N
    BY <1>6, <2>1, <2>2
  <2> QED
    BY <2>1, <2>3
<1>9. /\ read.literals = marks[j].literals /\ read.offsets + 1 = j
      /\ read.tokens + 1 = j
      /\ read.extraLiteralLengths = marks[j].extraLiteralLengths
      /\ read.extraMatchLengths = marks[j].extraMatchLengths
      /\ Len(output) = marks[j].end
      /\ streams = out
  BY <1>1, <1>2, Zenon DEF AtMark, Handed
<1>10. /\ read'.tokens = j
       /\ read'.literals = marks[j].literals + LiteralRun(j)
       /\ read'.offsets = j
       /\ read'.extraLiteralLengths = marks[j + 1].extraLiteralLengths
       /\ read'.extraMatchLengths = marks[j + 1].extraMatchLengths
  <2>1. read' = [tokens   |-> read.tokens + 1,
                 literals |-> read.literals + Dec!LiteralLen,
                 offsets  |-> Dec!Taken(read.offsets, Dec!TakesOffset),
                 extraLiteralLengths |->
                   Dec!Taken(read.extraLiteralLengths, Dec!TakesExtraLiteral),
                 extraMatchLengths |->
                   Dec!Taken(read.extraMatchLengths, Dec!TakesExtraMatch)]
    BY DEF Dec!ReadToken
  <2>2. /\ read'.tokens = read.tokens + 1
        /\ read'.literals = read.literals + Dec!LiteralLen
        /\ read'.offsets = Dec!Taken(read.offsets, Dec!TakesOffset)
        /\ read'.extraLiteralLengths =
             Dec!Taken(read.extraLiteralLengths, Dec!TakesExtraLiteral)
        /\ read'.extraMatchLengths =
             Dec!Taken(read.extraMatchLengths, Dec!TakesExtraMatch)
    BY <2>1
  <2> QED
    BY <1>3, <1>9, <2>2, Zenon DEF Dec!Taken
<1>11. output' = output \o SubSeq(out.literals, marks[j].literals + 1,
                                  marks[j].literals + LiteralRun(j))
  BY <1>3, <1>9, Zenon DEF Dec!ReadToken, Dec!OutputWithLiterals
<1>12. /\ output' \in Seq(Value)
       /\ Len(output') = Len(output) + LiteralRun(j)
       /\ \A p \in 1..Len(output') : output'[p] = input[p]
  <2>1. /\ marks[j].literals + LiteralRun(j) <= Len(out.literals)
        /\ Len(output) + LiteralRun(j) <= N
    BY <1>6, <1>7, <1>8, <1>9
  <2>2. PICK from \in Nat : from = marks[j].literals
    BY <1>6
  <2>3. PICK n \in Nat : n = LiteralRun(j)
    BY <1>8
  <2>4. \A q \in 1..n : out.literals[from + q] = input[Len(output) + q]
    BY <1>7, <1>9, <2>2, <2>3, Zenon
  <2>5. /\ output' = output \o SubSeq(out.literals, from + 1, from + n)
        /\ from + n <= Len(out.literals)
        /\ Len(output) + n <= N
    BY <1>11, <2>1, <2>2, <2>3, Zenon
  <2>6. LET r == output \o SubSeq(out.literals, from + 1, from + n)
        IN  /\ r \in Seq(Value)
            /\ Len(r) = Len(output) + n
            /\ \A p \in 1..Len(r) : r[p] = input[p]
    BY <1>1, <2>4, <2>5, LiteralsContinueInput
  <2> QED
    BY <2>3, <2>5, <2>6, Zenon
<1>13. Len(output') = MatchFrom(j)
  BY <1>7, <1>9, <1>12, Zenon
<1>14. OutputIsPrefix'
  BY <1>4, <1>8, <1>12, <1>13 DEF OutputIsPrefix, N
<1>15. AtMark'
  <2>1. j \in 0..Len(out.tokens)
    BY <1>6
  <2> QED
    BY <1>4, <1>8, <1>10, <2>1, Zenon DEF AtMark
<1>16. MatchUnderWay'
  <2>1. offset' = out.offsets[j] /\ left' = MatchRun(j)
    BY <1>3, Zenon DEF Dec!ReadToken
  <2>2. j \in Nat /\ j >= 1
    BY <1>2, <1>6
  <2>3. Len(output') >= MatchFrom(j)
    BY <1>8, <1>13
  <2>4. Len(output') + left' = marks[j + 1].end
    BY <1>8, <1>13, <2>1, Zenon
  <2>5. MatchFrom(j) = marks[j].end + (marks[j + 1].literals - marks[j].literals)
    BY DEF MatchFrom, LiteralRun
  <2> QED
    BY <1>4, <1>8, <1>10, <2>1, <2>2, <2>3, <2>4, <2>5, Zenon
    DEF MatchUnderWay, MatchFrom, LiteralRun
<1>17. Handed'
  BY <1>1, <1>4 DEF Handed, N
<1> QED
  BY <1>4, <1>5, <1>12, <1>14, <1>15, <1>16, <1>17 DEF RInv

\* The limits let the streams through, and reading starts at the first mark.
LEMMA CheckLimitsStep ==
  ASSUME RInv, Dec!CheckLimits, UNCHANGED encoderVars
  PROVE  RInv'
<1>1. /\ IInv /\ Handed /\ OutputIsPrefix /\ output \in Seq(Value)
      /\ read = Dec!NothingRead /\ output = <<>>
  BY DEF RInv, Dec!CheckLimits
<1>2. Dec!WithinLimits
  BY <1>1, LimitsFollow, LimitsHold
<1>3. /\ input' = input /\ hash' = hash /\ table' = table /\ cursor' = cursor
      /\ anchor' = anchor /\ out' = out /\ encoding' = encoding /\ marks' = marks
      /\ streams' = streams /\ aligned' = aligned /\ chunkLen' = chunkLen
      /\ read' = read /\ output' = output /\ decoding' = "token"
  BY <1>2 DEF encoderVars, Dec!CheckLimits
<1>4. IInv'
  BY <1>1, InvStep DEF encoderVars
<1>5. marks[1] = Mark(0, NoStreams) /\ Len(out.tokens) \in Nat
  BY <1>1 DEF IInv, MarksFollowStreams, TypeOK, Streams
<1>6. /\ marks[1].end = 0 /\ marks[1].literals = 0
      /\ marks[1].extraLiteralLengths = 0 /\ marks[1].extraMatchLengths = 0
  BY <1>5 DEF Mark, NoStreams
<1>7. /\ read.tokens = 0 /\ read.offsets = 0 /\ read.literals = 0
      /\ read.extraLiteralLengths = 0 /\ read.extraMatchLengths = 0
  BY <1>1 DEF Dec!NothingRead
<1>8. read.tokens + 1 = 1
  BY <1>7
<1>9. AtMark
  <2>1. read.tokens \in 0..Len(out.tokens)
    BY <1>5, <1>7
  <2> QED
    BY <1>6, <1>7, <1>8, <2>1, Zenon DEF AtMark
<1>10. Len(output) = marks[read.tokens + 1].end
  <2>1. Len(output) = 0
    BY <1>1
  <2> QED
    BY <1>6, <1>8, <2>1, Zenon
<1>11. /\ AtMark' /\ Handed' /\ OutputIsPrefix'
       /\ Len(output') = marks'[read'.tokens + 1].end
  BY <1>1, <1>3, <1>9, <1>10, Zenon DEF AtMark, Handed, OutputIsPrefix, N
<1> QED
  BY <1>1, <1>3, <1>4, <1>11 DEF RInv

\* The value copied is the next one of the chunk: the token says so of the
\* chunk, and the output is the chunk as far as the offset reaches back.
LEMMA CopiedValueIsNext ==
  ASSUME RInv, decoding = "match"
  PROVE  /\ Len(output) + 1 <= N
         /\ Dec!CopySource = input[Len(output) + 1]
         /\ Dec!CopySource \in Value
<1>1. /\ IInv /\ AtMark /\ MatchUnderWay /\ OutputIsPrefix
      /\ output \in Seq(Value)
  BY DEF RInv
<1>2. PICK k \in 1..Len(out.tokens) : k = read.tokens
  <2>1. Len(out.tokens) \in Nat
    BY <1>1 DEF IInv, TypeOK, Streams
  <2>2. read.tokens \in 1..Len(out.tokens)
    BY <1>1, <2>1 DEF AtMark, MatchUnderWay
  <2> QED
    BY <2>2
<1>3. TokenDescribesInput(k)
  BY <1>1 DEF IInv, TokensDescribeInput
<1>4. /\ marks[k].end \in Nat /\ marks[k + 1].end \in Nat
      /\ marks[k].literals \in Nat /\ marks[k + 1].literals \in Nat
      /\ marks[k + 1].end <= N
  BY <1>1, TokenNumbers DEF MarkType
<1>5. MatchFrom(k) \in Nat
  <2>1. LiteralRun(k) >= 0 /\ MatchRun(k) >= 2
    BY <1>3 DEF TokenDescribesInput, MinMatch
  <2> QED
    BY <1>4, <2>1, PieceEnds
<1>6. /\ offset = out.offsets[k] /\ left \in Nat \ {0}
      /\ Len(output) >= MatchFrom(k)
      /\ Len(output) + left = marks[k + 1].end
  BY <1>1, <1>2, Zenon DEF MatchUnderWay
<1>7. /\ offset \in 1..MatchFrom(k)
      /\ \A p \in (MatchFrom(k) + 1) .. marks[k + 1].end : input[p] = input[p - offset]
  BY <1>3, <1>6, Zenon DEF TokenDescribesInput
<1>8. PICK n \in Nat : n = Len(output)
  BY <1>1
<1>9. PICK end \in Nat : end = marks[k + 1].end
  BY <1>4
<1>10. PICK start \in Nat : start = MatchFrom(k)
  BY <1>5
<1>11. N \in Nat
  BY <1>1, Counts DEF IInv
<1>12. offset \in 1..start /\ n >= start /\ n + left = end /\ end <= N
  BY <1>4, <1>6, <1>7, <1>8, <1>9, <1>10, Zenon
<1>13. /\ n + 1 <= N
       /\ n + 1 \in (start + 1) .. end
       /\ n - offset + 1 \in 1..n
       /\ (n + 1) - offset = n - offset + 1
  <2>1. PICK back \in 1..start : back = offset
    BY <1>12
  <2>2. PICK rest \in Nat \ {0} : rest = left
    BY <1>6
  <2>3. n >= start /\ n + rest = end /\ end <= N
    BY <1>12, <2>2, Zenon
  <2>4. /\ n + 1 <= N
        /\ n + 1 \in (start + 1) .. end
    BY <1>11, <2>3
  <2>5. /\ n - back + 1 \in 1..n
        /\ (n + 1) - back = n - back + 1
    BY <2>3
  <2> QED
    BY <2>1, <2>4, <2>5, Zenon
<1>14. input[n + 1] = input[n - offset + 1]
  <2>1. \A p \in (start + 1) .. end : input[p] = input[p - offset]
    BY <1>7, <1>9, <1>10, Zenon
  <2>2. input[n + 1] = input[(n + 1) - offset]
    BY <1>13, <2>1, Zenon
  <2> QED
    BY <1>13, <2>2, Zenon
<1>15. output[n - offset + 1] = input[n - offset + 1]
  BY <1>1, <1>8, <1>13, Zenon DEF OutputIsPrefix
<1>16. output[n - offset + 1] \in Value
  BY <1>1, <1>8, <1>13
<1> QED
  BY <1>8, <1>13, <1>14, <1>15, <1>16, Zenon DEF Dec!CopySource

\* A copy step keeps the output a prefix; the last one ends at the mark.
LEMMA CopyValueStep ==
  ASSUME RInv, Dec!CopyValue, UNCHANGED encoderVars
  PROVE  RInv'
<1>1. decoding = "match"
  BY DEF Dec!CopyValue
<1>2. /\ IInv /\ Handed /\ AtMark /\ MatchUnderWay /\ OutputIsPrefix
      /\ output \in Seq(Value)
  BY <1>1 DEF RInv
<1>3. /\ Len(output) + 1 <= N
      /\ Dec!CopySource = input[Len(output) + 1]
      /\ Dec!CopySource \in Value
  BY <1>1, CopiedValueIsNext
<1>4. /\ input' = input /\ hash' = hash /\ table' = table /\ cursor' = cursor
      /\ anchor' = anchor /\ out' = out /\ encoding' = encoding /\ marks' = marks
      /\ streams' = streams /\ aligned' = aligned /\ chunkLen' = chunkLen
      /\ read' = read /\ offset' = offset /\ left' = left - 1
      /\ decoding' = (IF left = 1 THEN "token" ELSE "match")
      /\ output' = Append(output, Dec!CopySource)
  BY DEF encoderVars, Dec!CopyValue
<1>5. IInv'
  BY <1>2, InvStep DEF encoderVars
<1>6. PICK v \in Value : v = Dec!CopySource
  BY <1>3
<1>7. /\ output' \in Seq(Value)
      /\ Len(output') = Len(output) + 1
      /\ \A p \in 1..Len(output) : output'[p] = output[p]
      /\ output'[Len(output) + 1] = v
  <2>1. output' = Append(output, v)
    BY <1>4, <1>6, Zenon
  <2> QED
    BY <1>2, <2>1
<1>8. OutputIsPrefix'
  <2>1. Len(output') <= N /\ Len(output) \in Nat
    BY <1>2, <1>3, <1>7
  <2>2. ASSUME NEW p \in 1..Len(output') PROVE output'[p] = input[p]
    <3>1. CASE p \in 1..Len(output)
      BY <1>2, <1>7, <3>1, Zenon DEF OutputIsPrefix
    <3>2. CASE p = Len(output) + 1
      BY <1>3, <1>6, <1>7, <3>2, Zenon
    <3> QED
      BY <1>7, <2>1, <3>1, <3>2
  <2>3. N' = N
    BY <1>4 DEF N
  <2> QED
    BY <1>4, <2>1, <2>2, <2>3, Zenon DEF OutputIsPrefix
<1>9. AtMark' /\ Handed'
  BY <1>2, <1>4, Zenon DEF AtMark, Handed, N
<1>10. /\ read.tokens >= 1 /\ read.tokens \in Nat
       /\ left \in Nat \ {0}
       /\ offset = out.offsets[read.tokens]
       /\ Len(output) >= MatchFrom(read.tokens)
       /\ Len(output) + left = marks[read.tokens + 1].end
  BY <1>2 DEF AtMark, MatchUnderWay
<1>11. PICK n \in Nat : n = Len(output)
  BY <1>2
<1>12. Len(output') + left' = marks[read.tokens + 1].end
  <2>1. (n + 1) + (left - 1) = n + left
    BY <1>10
  <2> QED
    BY <1>4, <1>7, <1>10, <1>11, <2>1, Zenon
<1>13. CASE left = 1
  <2>1. left' = 0 /\ decoding' = "token"
    BY <1>4, <1>13
  <2>2. Len(output') = marks[read.tokens + 1].end
    <3>1. n + 1 = n + left
      BY <1>13
    <3> QED
      BY <1>7, <1>10, <1>11, <3>1, Zenon
  <2>3. Len(output') = marks'[read'.tokens + 1].end
    BY <1>4, <2>2, Zenon
  <2> QED
    BY <1>5, <1>7, <1>8, <1>9, <2>1, <2>3 DEF RInv
<1>14. CASE left # 1
  <2>1. left' \in Nat \ {0} /\ decoding' = "match"
    BY <1>4, <1>10, <1>14
  <2>2. Len(output') >= MatchFrom(read.tokens)
    <3>1. PICK k \in 1..Len(out.tokens) : k = read.tokens
      <4>1. Len(out.tokens) \in Nat
        BY <1>2 DEF IInv, TypeOK, Streams
      <4>2. read.tokens \in 1..Len(out.tokens)
        BY <1>2, <1>10, <4>1 DEF AtMark
      <4> QED
        BY <4>2
    <3>2. MatchFrom(k) \in Nat
      <4>1. LiteralRun(k) >= 0 /\ MatchRun(k) >= 2
        BY <1>2 DEF IInv, TokensDescribeInput, TokenDescribesInput, MinMatch
      <4>2. /\ marks[k].end \in Nat /\ marks[k + 1].end \in Nat
            /\ marks[k].literals \in Nat /\ marks[k + 1].literals \in Nat
        BY <1>2, TokenNumbers DEF MarkType
      <4> QED
        BY <4>1, <4>2, PieceEnds
    <3>3. PICK start \in Nat : start = MatchFrom(read.tokens)
      BY <3>1, <3>2, Zenon
    <3>4. n >= start
      BY <1>10, <1>11, <3>3, Zenon
    <3>5. n + 1 >= start
      BY <3>4
    <3> QED
      BY <1>7, <1>11, <3>3, <3>5, Zenon
  <2>3. MatchUnderWay'
    BY <1>4, <1>10, <1>12, <2>1, <2>2, Zenon DEF MatchUnderWay, MatchFrom, LiteralRun
  <2> QED
    BY <1>5, <1>7, <1>8, <1>9, <2>1, <2>3 DEF RInv
<1> QED
  BY <1>13, <1>14

\* After the last token the leftover literals are the rest of the chunk.
LEMMA FinishDecodingStep ==
  ASSUME RInv, Dec!Finish, UNCHANGED encoderVars
  PROVE  RInv' /\ decoding' = "done" /\ output' = input
<1>1. decoding = "token" /\ read.tokens = Len(streams.tokens)
  BY DEF Dec!Finish
<1>2. /\ IInv /\ Handed /\ AtMark /\ OutputIsPrefix /\ output \in Seq(Value)
      /\ Len(output) = marks[read.tokens + 1].end
  BY <1>1 DEF RInv
<1>3. /\ input' = input /\ hash' = hash /\ table' = table /\ cursor' = cursor
      /\ anchor' = anchor /\ out' = out /\ encoding' = encoding /\ marks' = marks
      /\ streams' = streams /\ aligned' = aligned /\ chunkLen' = chunkLen
      /\ read' = read
  BY DEF encoderVars, Dec!Finish
<1>4. IInv'
  BY <1>2, InvStep DEF encoderVars
<1>5. PICK last : last = marks[Len(marks)]
  OBVIOUS
<1>6. /\ Len(marks) = Len(out.tokens) + 1
      /\ Len(out.offsets) = Len(out.tokens)
      /\ last.end = anchor
      /\ last.extraLiteralLengths = Len(out.extraLiteralLengths)
      /\ last.extraMatchLengths = Len(out.extraMatchLengths)
      /\ Len(out.literals) = last.literals + (N - anchor)
      /\ \A q \in 1..(Len(out.literals) - last.literals) :
           out.literals[last.literals + q] = input[anchor + q]
  <2>1. MarksFollowStreams /\ encoding = "done"
    BY <1>2 DEF IInv, Handed
  <2> QED
    BY <1>5, <2>1, Zenon DEF MarksFollowStreams
<1>7. streams = out /\ chunkLen = N /\ read.tokens + 1 = Len(marks)
  BY <1>1, <1>2, <1>6, Zenon DEF Handed
<1>8. /\ read.offsets = Len(out.offsets)
      /\ read.literals = last.literals
      /\ read.extraLiteralLengths = Len(out.extraLiteralLengths)
      /\ read.extraMatchLengths = Len(out.extraMatchLengths)
      /\ Len(output) = anchor
  BY <1>1, <1>2, <1>5, <1>6, <1>7, Zenon DEF AtMark
<1>9. /\ N \in Nat /\ anchor \in Nat /\ anchor <= N
  BY <1>2, Counts DEF IInv
<1>10. PICK from \in Nat : from = last.literals
  <2>1. /\ Len(marks) = Len(out.tokens) + 1 /\ Len(out.tokens) \in Nat
        /\ \A j \in 1..Len(marks) : marks[j] \in MarkType
    BY <1>2, MarksTyped DEF IInv
  <2>2. Len(marks) \in 1..Len(marks)
    BY <2>1
  <2>3. last \in MarkType
    BY <1>5, <2>1, <2>2, Zenon
  <2> QED
    BY <2>3 DEF MarkType
<1>11. PICK n \in Nat : n = N - anchor
  BY <1>9
<1>12. Len(out.literals) = from + n /\ anchor + n = N
  BY <1>6, <1>9, <1>10, <1>11
<1>13. Dec!TrailingLiterals = SubSeq(out.literals, from + 1, from + n)
  BY <1>7, <1>8, <1>10, <1>12, Zenon DEF Dec!TrailingLiterals
<1>14. LET r == output \o SubSeq(out.literals, from + 1, from + n)
       IN  /\ r \in Seq(Value)
           /\ Len(r) = Len(output) + n
           /\ \A p \in 1..Len(r) : r[p] = input[p]
  <2>1. (from + n) - from = n
    OBVIOUS
  <2>2. \A q \in 1..n : out.literals[from + q] = input[Len(output) + q]
    BY <1>6, <1>8, <1>10, <1>12, <2>1, Zenon
  <2>3. from + n <= Len(out.literals) /\ Len(output) + n <= N
    BY <1>8, <1>9, <1>12
  <2> QED
    BY <1>2, <2>2, <2>3, LiteralsContinueInput
<1>15. Len(Dec!TrailingLiterals) = n
  <2>1. PICK lits \in Seq(Value) : lits = out.literals
    BY <1>2 DEF IInv, TypeOK, Streams
  <2>2. Len(lits) = from + n
    BY <1>12, <2>1, Zenon
  <2>3. Len(SubSeq(lits, from + 1, from + n)) = n
    BY <2>2
  <2> QED
    BY <1>13, <2>1, <2>3, Zenon
<1>16. Dec!FullyConsumed /\ Len(output) + Len(Dec!TrailingLiterals) = chunkLen
  BY <1>7, <1>8, <1>12, <1>15, Zenon DEF Dec!FullyConsumed
<1>17. output' = output \o Dec!TrailingLiterals /\ decoding' = "done"
  <2>1. chunkLen <= chunkLen
    BY <1>7, <1>9
  <2> QED
    BY <1>16, <2>1, Zenon DEF Dec!Finish
<1>18. /\ output' \in Seq(Value)
       /\ Len(output') = N
       /\ \A p \in 1..Len(output') : output'[p] = input[p]
  <2>1. Len(output) + n = N
    BY <1>8, <1>12, Zenon
  <2> QED
    BY <1>13, <1>14, <1>17, <2>1, Zenon
<1>19. OutputIsPrefix' /\ Handed'
  <2>1. N' = N /\ N <= N
    BY <1>3, <1>9 DEF N
  <2> QED
    BY <1>2, <1>3, <1>18, <2>1, Zenon DEF OutputIsPrefix, Handed
<1>20. output' = input
  <2>1. input \in Seq(Value) /\ N = Len(input)
    BY <1>2, ChunkIsSequence DEF IInv, TypeOK, N
  <2> QED
    BY <1>18, <2>1, SeqEqual
<1>21. Len(output') = N'
  BY <1>3, <1>18 DEF N
<1> QED
  BY <1>4, <1>17, <1>18, <1>19, <1>20, <1>21 DEF RInv

-----------------------------------------------------------------------------
\* The steps of the composition

\* Nothing is decoded yet.
LEMMA RoundTripInvInit == RoundTripInit => RInv
<1> SUFFICES ASSUME RoundTripInit PROVE RInv
  OBVIOUS
<1>1. IInv
  BY InvInit DEF RoundTripInit
<1>2. N \in Nat
  BY <1>1, Counts DEF IInv
<1>3. /\ output = <<>> /\ decoding = "idle" /\ aligned = TRUE
      /\ read = Dec!NothingRead
  BY DEF RoundTripInit
<1>4. output \in Seq(Value) /\ Len(output) = 0
  BY <1>3
<1>5. OutputIsPrefix
  BY <1>2, <1>4 DEF OutputIsPrefix
<1> QED
  BY <1>1, <1>3, <1>4, <1>5 DEF RInv

\* The decoder is idle while the encoder runs.
LEMMA EncodeStep ==
  ASSUME RInv, Encode
  PROVE  RInv' /\ decoding' = "idle"
<1>1. encoding = "scan"
  BY DEF Encode, EncoderStep, EmitMatch, Advance, Finish, PairLeft
<1>2. decoding = "idle"
  BY <1>1 DEF RInv, Handed
<1>3. UNCHANGED decoderVars
  BY DEF Encode
<1>4. /\ output' = output /\ decoding' = decoding /\ aligned' = aligned
      /\ read' = read
  BY <1>3 DEF decoderVars
<1>5. IInv'
  BY InvStep DEF RInv, Encode, Next
<1>6. N' \in Nat
  <2>1. TypeOK'
    BY <1>5 DEF IInv
  <2> QED
    BY <2>1, FormatAssumption DEF TypeOK, Chunk, N
<1>7. output = <<>> /\ aligned = TRUE /\ read = Dec!NothingRead
  BY <1>2 DEF RInv
<1>8. output' \in Seq(Value) /\ Len(output') = 0
  BY <1>4, <1>7
<1>9. OutputIsPrefix'
  BY <1>6, <1>8 DEF OutputIsPrefix
<1> QED
  BY <1>2, <1>4, <1>5, <1>7, <1>8, <1>9 DEF RInv

\* What the encoder returned is handed over as it is.
LEMMA HandoffStep ==
  ASSUME RInv, Handoff
  PROVE  RInv' /\ decoding = "idle" /\ decoding' = "check"
<1>1. /\ encoding = "done" /\ decoding = "idle" /\ decoding' = "check"
      /\ streams' = out /\ chunkLen' = N /\ aligned' = aligned
      /\ read' = read /\ output' = output
      /\ UNCHANGED encoderVars
  BY DEF Handoff
<1>2. /\ IInv /\ aligned = TRUE /\ read = Dec!NothingRead /\ output = <<>>
      /\ output \in Seq(Value) /\ OutputIsPrefix
  BY <1>1 DEF RInv
<1>3. IInv'
  BY <1>1, <1>2, InvStep
<1>4. input' = input /\ out' = out /\ encoding' = encoding
  BY <1>1 DEF encoderVars
<1>5. Handed' /\ OutputIsPrefix'
  BY <1>1, <1>2, <1>4, Zenon DEF Handed, OutputIsPrefix, N
<1> QED
  BY <1>1, <1>2, <1>3, <1>5 DEF RInv

\* A stuttering step changes nothing the invariant speaks of.
LEMMA StutterKeepsRInv ==
  ASSUME RInv, UNCHANGED roundTripVars
  PROVE  RInv'
<1>1. /\ UNCHANGED encoderVars /\ UNCHANGED decoderVars
  BY DEF roundTripVars
<1>2. IInv'
  BY <1>1, InvStep DEF RInv
<1>3. /\ input' = input /\ out' = out /\ encoding' = encoding /\ marks' = marks
      /\ streams' = streams /\ aligned' = aligned /\ chunkLen' = chunkLen
      /\ read' = read /\ offset' = offset /\ left' = left
      /\ decoding' = decoding /\ output' = output
  BY <1>1 DEF encoderVars, decoderVars
<1>4. /\ Handed' = Handed /\ AtMark' = AtMark /\ OutputIsPrefix' = OutputIsPrefix
      /\ MatchUnderWay' = MatchUnderWay
  BY <1>3, Zenon DEF Handed, AtMark, OutputIsPrefix, MatchUnderWay, MatchFrom,
                     LiteralRun, N
<1> QED
  BY <1>2, <1>3, <1>4, Zenon DEF RInv, N, Dec!NothingRead

\* Every step of the composition preserves the invariant.
LEMMA RInvStep ==
  ASSUME RInv, [RoundTripNext]_roundTripVars
  PROVE  RInv'
<1>1. CASE Encode
  BY <1>1, EncodeStep
<1>2. CASE Handoff
  BY <1>2, HandoffStep
<1>3. CASE Decode
  <2>1. UNCHANGED encoderVars
    BY <1>3 DEF Decode
  <2>2. CASE Dec!CheckLimits
    BY <2>1, <2>2, CheckLimitsStep
  <2>3. CASE Dec!ReadToken
    BY <2>1, <2>3, ReadTokenStep
  <2>4. CASE Dec!RejectToken
    BY <2>4, NoTokenRejected
  <2>5. CASE Dec!CopyValue
    BY <2>1, <2>5, CopyValueStep
  <2>6. CASE Dec!Finish
    BY <2>1, <2>6, FinishDecodingStep
  <2> QED
    BY <1>3, <2>2, <2>3, <2>4, <2>5, <2>6 DEF Decode, Dec!DecoderStep
<1>4. CASE BothReturned \/ UNCHANGED roundTripVars
  <2>1. UNCHANGED roundTripVars
    BY <1>4 DEF BothReturned, Dec!DecoderReturned, Dec!decoderVars, decoderVars,
                roundTripVars
  <2> QED
    BY <2>1, StutterKeepsRInv
<1> QED
  BY <1>1, <1>2, <1>3, <1>4 DEF RoundTripNext

-----------------------------------------------------------------------------
\* Theorems about the round trip

\* The decoder is where the marks say, in every state of every run of
\* encoder and decoder.
THEOREM RoundTripInvariant == RoundTripSpec => []RInv
<1>1. RoundTripInit => RInv
  BY RoundTripInvInit
<1>2. RInv /\ [RoundTripNext]_roundTripVars => RInv'
  BY RInvStep
<1> QED
  BY <1>1, <1>2, PTL DEF RoundTripSpec

\* decode_side_streams never returns an error on what
\* encode_u32_to_side_streams wrote.
THEOREM DecoderAccepts == RoundTripSpec => []DecoderNeverRejects
<1>1. RInv => DecoderNeverRejects
  BY DEF RInv, DecoderNeverRejects
<1> QED
  BY <1>1, RoundTripInvariant, PTL

\* At every step of decoding the output is the beginning of the chunk.
THEOREM OutputStaysPrefix == RoundTripSpec => []OutputIsPrefix
<1>1. RInv => OutputIsPrefix
  BY DEF RInv
<1> QED
  BY <1>1, RoundTripInvariant, PTL

\* The two functions implement a lossless codec: a result is only ever the
\* chunk that went in.
THEOREM RoundTripIsLossless == RoundTripSpec => Codec!Spec
<1>1. RoundTripInit => Codec!Init
  BY DEF RoundTripInit, Init, Codec!Init
<1>2. ASSUME RInv, [RoundTripNext]_roundTripVars
      PROVE  [Codec!Next]_(Codec!codecVars)
  <2>1. CASE Encode
    <3>1. decoding = "idle" /\ decoding' = "idle"
      BY <1>2, <2>1, EncodeStep DEF Encode, decoderVars
    <3>2. input' = input
      BY <2>1 DEF Encode, EncoderStep, EmitMatch, Advance, Finish
    <3> QED
      BY <3>1, <3>2 DEF Codec!codecVars
  <2>2. CASE Handoff
    <3>1. decoding = "idle" /\ decoding' = "check" /\ input' = input
      BY <2>2 DEF Handoff, encoderVars
    <3> QED
      BY <3>1 DEF Codec!codecVars
  <2>3. CASE Decode
    <3>1. UNCHANGED encoderVars /\ input' = input
      BY <2>3 DEF Decode, encoderVars
    <3>2. CASE Dec!Finish
      <4>1. decoding' = "done" /\ output' = input /\ decoding = "token"
        BY <1>2, <3>1, <3>2, FinishDecodingStep DEF Dec!Finish
      <4> QED
        BY <3>1, <4>1 DEF Codec!Next, Codec!Return
    <3>3. CASE Dec!CheckLimits \/ Dec!ReadToken \/ Dec!CopyValue \/ Dec!RejectToken
      <4>1. decoding # "done" /\ decoding' # "done"
        BY <3>3 DEF Dec!CheckLimits, Dec!ReadToken, Dec!CopyValue,
                    Dec!RejectToken, Dec!TokenLeft
      <4> QED
        BY <3>1, <4>1 DEF Codec!codecVars
    <3> QED
      BY <2>3, <3>2, <3>3 DEF Decode, Dec!DecoderStep
  <2>4. CASE BothReturned \/ UNCHANGED roundTripVars
    <3>1. input' = input /\ output' = output /\ decoding' = decoding
      BY <2>4 DEF BothReturned, Dec!DecoderReturned, Dec!decoderVars, decoderVars,
                  roundTripVars, encoderVars
    <3> QED
      BY <3>1 DEF Codec!codecVars
  <2> QED
    BY <1>2, <2>1, <2>2, <2>3, <2>4 DEF RoundTripNext
<1> QED
  BY <1>1, <1>2, RoundTripInvariant, PTL DEF RoundTripSpec, Codec!Spec

=============================================================================
