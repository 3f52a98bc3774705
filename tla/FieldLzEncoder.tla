--------------------------- MODULE FieldLzEncoder ---------------------------
(***************************************************************************)
(* encode_u32_to_side_streams of src/field_lz.rs: the greedy,              *)
(* single-candidate parser that turns one chunk into five side streams.    *)
(*                                                                         *)
(* One action is one iteration of the `while i + 1 < input.len()` loop, or *)
(* the code after it.  The hash function is a parameter of the behaviour   *)
(* (variable hash, never changed): nothing below depends on which pairs of *)
(* values collide.  The table is a function from buckets to `position + 1` *)
(* with 0 for "no candidate", as MatchHashTable stores it.                 *)
(***************************************************************************)
EXTENDS FieldLzReference

CONSTANTS
  Bucket,      \* indices of the hash table, 0..mask
  SeedStride,  \* distance between mid-match seeds of a long match (8)
  DenseSpan    \* matches shorter than this are seeded at every position (16)

ASSUME EncoderAssumption ==
  /\ SeedStride \in Nat \ {0}
  /\ DenseSpan \in Nat

VARIABLES
  input,     \* the chunk, a slice of the caller's values
  hash,      \* hash_two_values(_, _, mask) for this call
  table,     \* MatchHashTable.entries
  cursor,    \* i, the position being parsed
  anchor,    \* first position not yet covered by a token
  out,       \* the five side streams produced so far
  encoding,  \* "scan", then what the function returned: "done" or "error"
  marks      \* history: where each token begins and the last one ends

encoderVars == <<input, hash, table, cursor, anchor, out, encoding, marks>>

N == Len(input)

At(p) == input[p + 1]

HashAt(p) == hash[<<At(p), At(p + 1)>>]

\* Faulty variant: a single equal value counts as a match.
MinMatchOne == 1

\* The shortest match the parser takes: the two values it hashed.
MinMatch == 2

-----------------------------------------------------------------------------
\* Helpers of the parser

\* Faulty variant: the run counted includes the first pair that differs.
IsMatchLenOneMore(c, p, len) ==
  /\ \A k \in 0..(len - 2) : At(c + k) = At(p + k)
  /\ p + len < N => At(c + len - 1) # At(p + len - 1)

\* count_match_len: the run of equal values at candidate c and position p
\* is exactly len long; c < p, so the run may overlap itself.
IsMatchLen(c, p, len) ==
  /\ \A k \in 0..(len - 1) : At(c + k) = At(p + k)
  /\ p + len < N => At(c + len) # At(p + len)

\* Faulty variant: the last seed is the first position after the match.
SeedPositionsPastEnd(start, end) ==
  {p \in {start + 1, end} : start < p /\ p <= end /\ p < N - 1}

\* The positions seed_hash_table_after_match inserts for a match start..end.
SeedPositions(start, end) ==
  LET every  == (start + 1) .. (end - 2)
      strided == {p \in every : p >= start + SeedStride
                                /\ (p - start) % SeedStride = 0}
      wanted == IF end - start < DenseSpan
                THEN every
                ELSE {start + 1, end - 1} \cup strided
  IN  {p \in wanted : start < p /\ p < end /\ p < N - 1}

\* The table after put() of every position of S in increasing order: the
\* last position of a bucket wins.
Seeded(t, S) ==
  [h \in DOMAIN t |->
     LET hits == {p \in S : HashAt(p) = h}
     IN  IF hits = {} THEN t[h]
         ELSE (CHOOSE p \in hits : \A q \in hits : q <= p) + 1]

\* append_match_sequence refuses what no token can express.
Encodable(matchLen, offset) ==
  /\ offset # 0
  /\ offset <= MaxOffset
  /\ matchLen # 0

\* Faulty variant: a literal run of exactly CodeMax takes the escape code
\* without writing the extra length the escape promises.
AppendMatchSequenceLostExtra(s, literalLen, matchLen, offset) ==
  LET longLiteral == literalLen > CodeMax
      longMatch   == matchLen >= CodeMax + 1
  IN  [s EXCEPT
        !.tokens = Append(@,
           [offsetCode  |-> 3,
            literalCode |-> IF longLiteral THEN CodeMax ELSE literalLen,
            matchCode   |-> IF longMatch THEN CodeMax ELSE matchLen - 1,
            reserved    |-> FALSE]),
        !.offsets = Append(@, offset),
        !.extraLiteralLengths =
           IF longLiteral THEN Append(@, literalLen - CodeMax) ELSE @,
        !.extraMatchLengths =
           IF longMatch THEN Append(@, matchLen - (CodeMax + 1)) ELSE @]

\* Faulty variant: a match of CodeMax already spills, one too early, and its
\* extra length is negative.
AppendMatchSequenceEarlySpill(s, literalLen, matchLen, offset) ==
  [s EXCEPT
    !.tokens = Append(@, [offsetCode  |-> 3,
                          literalCode |-> CodeMax,
                          matchCode   |-> CodeMax,
                          reserved    |-> FALSE]),
    !.offsets = Append(@, offset),
    !.extraMatchLengths = Append(@, matchLen - (CodeMax + 1))]

\* append_match_sequence: one explicit-offset token, its offset, and the
\* part of each length that does not fit the 4-bit code.
AppendMatchSequence(s, literalLen, matchLen, offset) ==
  LET longLiteral == literalLen >= CodeMax
      longMatch   == matchLen >= CodeMax + 1
  IN  [s EXCEPT
        !.tokens = Append(@,
           [offsetCode  |-> 3,
            literalCode |-> IF longLiteral THEN CodeMax ELSE literalLen,
            matchCode   |-> IF longMatch THEN CodeMax ELSE matchLen - 1,
            reserved    |-> FALSE]),
        !.offsets = Append(@, offset),
        !.extraLiteralLengths =
           IF longLiteral THEN Append(@, literalLen - CodeMax) ELSE @,
        !.extraMatchLengths =
           IF longMatch THEN Append(@, matchLen - (CodeMax + 1)) ELSE @]

\* Faulty variant: the first value of the run is skipped.
AppendLiteralsOneShort(s, from, to) ==
  [s EXCEPT !.literals = @ \o SubSeq(input, from + 2, to)]

\* append_literal_values(&input[from..to])
AppendLiterals(s, from, to) ==
  [s EXCEPT !.literals = @ \o SubSeq(input, from + 1, to)]

\* History: how far the parse has come when `end` values are covered by s.
\* Token k lies between marks[k] and marks[k + 1].  No guard reads a mark.
Mark(end, s) ==
  [end      |-> end,
   literals |-> Len(s.literals),
   extraLiteralLengths |-> Len(s.extraLiteralLengths),
   extraMatchLengths   |-> Len(s.extraMatchLengths)]

-----------------------------------------------------------------------------
\* The parser

\* Faulty variant: a full chunk is refused.
TooLongAtLimit == N >= MaxChunk

\* The size check on entry.
TooLong == N > MaxChunk

Init ==
  /\ input \in Chunk
  /\ hash \in [Value \X Value -> Bucket]
  /\ table = [h \in Bucket |-> 0]
  /\ cursor = 0
  /\ anchor = 0
  /\ out = NoStreams
  /\ encoding = IF TooLong THEN "error" ELSE "scan"
  /\ marks = <<Mark(0, NoStreams)>>

\* The loop condition.
PairLeft == encoding = "scan" /\ cursor + 1 < N

Candidate == table[HashAt(cursor)] - 1

\* The candidate read from the table before the cursor is stored over it.
HasCandidate ==
  /\ table[HashAt(cursor)] # 0
  /\ Candidate < cursor
  /\ cursor - Candidate <= MaxOffset

FoundMatch(len) == HasCandidate /\ IsMatchLen(Candidate, cursor, len)

\* table.set(hash, (i + 1) as u32), made before the candidate is judged.
TableWithCursor == [table EXCEPT ![HashAt(cursor)] = cursor + 1]

\* A match of at least two values: flush the literals, emit the token, seed
\* the table inside the match and jump past it.
EmitMatch ==
  /\ PairLeft
  /\ \E len \in MinMatch..(N - cursor) :
       /\ FoundMatch(len)
       /\ IF Encodable(len, cursor - Candidate)
          THEN /\ out' = AppendMatchSequence(
                           AppendLiterals(out, anchor, cursor),
                           cursor - anchor, len, cursor - Candidate)
               /\ table' = Seeded(TableWithCursor,
                                  SeedPositions(cursor, cursor + len))
               /\ cursor' = cursor + len
               /\ anchor' = cursor + len
               /\ marks' = Append(marks, Mark(cursor + len, out'))
               /\ encoding' = encoding
          ELSE /\ encoding' = "error"
               /\ UNCHANGED <<table, cursor, anchor, out, marks>>
  /\ UNCHANGED <<input, hash>>

\* Faulty variant: a pair whose bucket was taken skips the increment.
AdvanceStuck ==
  /\ PairLeft
  /\ ~ \E len \in MinMatch..(N - cursor) : FoundMatch(len)
  /\ table' = TableWithCursor
  /\ cursor' = IF table[HashAt(cursor)] # 0 THEN cursor ELSE cursor + 1
  /\ UNCHANGED <<input, hash, anchor, out, encoding, marks>>

\* No usable match: the value stays a pending literal.
Advance ==
  /\ PairLeft
  /\ ~ \E len \in MinMatch..(N - cursor) : FoundMatch(len)
  /\ table' = TableWithCursor
  /\ cursor' = cursor + 1
  /\ UNCHANGED <<input, hash, anchor, out, encoding, marks>>

\* After the loop: the values past the last match are literals too.
Finish ==
  /\ encoding = "scan"
  /\ cursor + 1 >= N
  /\ out' = AppendLiterals(out, anchor, N)
  /\ encoding' = "done"
  /\ UNCHANGED <<input, hash, table, cursor, anchor, marks>>

\* The function has returned.
EncoderReturned == encoding # "scan" /\ UNCHANGED encoderVars

EncoderStep == EmitMatch \/ Advance \/ Finish

Next == EncoderStep \/ EncoderReturned

Spec == Init /\ [][Next]_encoderVars

\* The function is called and runs: nothing but its own steps can stop it.
FairSpec == Spec /\ WF_encoderVars(Next)

-----------------------------------------------------------------------------
\* Properties

\* The positions and the streams have the shapes the code gives them: the
\* anchor never passes the cursor and the cursor never passes the input
\* (match_end = i + match_len stays inside the slice).
TypeOK ==
  /\ input \in Chunk
  /\ hash \in [Value \X Value -> Bucket]
  /\ table \in [Bucket -> 0..N]
  /\ cursor \in 0..N
  /\ anchor \in 0..cursor
  /\ out \in Streams
  /\ encoding \in {"scan", "done", "error"}
  /\ marks \in Seq([end : 0..N, literals : Nat,
                    extraLiteralLengths : Nat, extraMatchLengths : Nat])

\* Every table entry is the position of a pair that lies wholly behind the
\* cursor and hashes to that bucket.  The table is written from three places
\* (each scanned position, and two seeding patterns inside a match), before
\* the cursor moves past what they wrote; a seed at or beyond the cursor
\* would give offset zero, or a candidate the decoder has not produced yet.
TableBehindCursor ==
  \A h \in Bucket : table[h] # 0 =>
    /\ table[h] <= cursor
    /\ table[h] < N
    /\ HashAt(table[h] - 1) = h

\* At every step the streams emitted so far are well formed and mean exactly
\* the input up to the anchor; once the function has returned, the whole
\* input.  It ties the literal flush, the token's two lengths and escapes,
\* the offset and the cursor jump together, for overlapping matches too.
StreamsMeanInput ==
  LET covered == IF encoding = "done" THEN N ELSE anchor
  IN  /\ WellFormed(out, covered)
      /\ Meaning(out, covered) = SubSeq(input, 1, covered)

\* The marks agree with the streams: one more than tokens, none beyond what
\* is written, the last one at the anchor; after the last token only the
\* literals grow, by the uncovered tail of the input.
MarksFollowStreams ==
  LET last == marks[Len(marks)]
  IN  /\ Len(marks) = Len(out.tokens) + 1
      /\ Len(out.offsets) = Len(out.tokens)
      /\ marks[1] = Mark(0, NoStreams)
      /\ \A k \in 1..Len(marks) :
           /\ marks[k].end <= anchor
           /\ marks[k].literals <= last.literals
           /\ marks[k].extraLiteralLengths <= Len(out.extraLiteralLengths)
           /\ marks[k].extraMatchLengths <= Len(out.extraMatchLengths)
      /\ last.end = anchor
      /\ last.extraLiteralLengths = Len(out.extraLiteralLengths)
      /\ last.extraMatchLengths = Len(out.extraMatchLengths)
      /\ Len(out.literals) =
           last.literals + (IF encoding = "done" THEN N - anchor ELSE 0)
      /\ \A q \in 1..(Len(out.literals) - last.literals) :
           out.literals[last.literals + q] = input[anchor + q]

\* What token k says: from marks[k], so many literals and then a match.
LiteralRun(k) == marks[k + 1].literals - marks[k].literals
MatchFrom(k) == marks[k].end + LiteralRun(k)
MatchRun(k) == marks[k + 1].end - MatchFrom(k)

\* Token k, with the entries between its two marks, describes its piece of
\* the input.
TokenDescribesInput(k) ==
  LET t == out.tokens[k]
      before == marks[k]
      after == marks[k + 1]
  IN  /\ t.offsetCode = 3
      /\ ~ t.reserved
      /\ LiteralRun(k) >= 0
      /\ MatchRun(k) >= MinMatch
      /\ IF LiteralRun(k) < CodeMax
         THEN /\ t.literalCode = LiteralRun(k)
              /\ after.extraLiteralLengths = before.extraLiteralLengths
         ELSE /\ t.literalCode = CodeMax
              /\ after.extraLiteralLengths = before.extraLiteralLengths + 1
              /\ out.extraLiteralLengths[after.extraLiteralLengths]
                   = LiteralRun(k) - CodeMax
      /\ IF MatchRun(k) < CodeMax + 1
         THEN /\ t.matchCode = MatchRun(k) - 1
              /\ after.extraMatchLengths = before.extraMatchLengths
         ELSE /\ t.matchCode = CodeMax
              /\ after.extraMatchLengths = before.extraMatchLengths + 1
              /\ out.extraMatchLengths[after.extraMatchLengths]
                   = MatchRun(k) - (CodeMax + 1)
      /\ out.offsets[k] \in 1..MatchFrom(k)
      /\ \A q \in 1..LiteralRun(k) :
           out.literals[before.literals + q] = input[before.end + q]
      /\ \A p \in (MatchFrom(k) + 1) .. after.end :
           input[p] = input[p - out.offsets[k]]

\* Every single token describes its piece of the input: the codes and extras
\* add up to the two lengths, the literals are the values of the piece, and
\* each matched value equals the one its offset points back to, which lies
\* before it in the chunk.
TokensDescribeInput == \A k \in 1..Len(out.tokens) : TokenDescribesInput(k)

\* The decoder's up-front limits hold for whatever the encoder writes: as
\* many offsets as tokens, no more extra lengths than tokens, no more
\* literals than elements, and at most one token per two elements.
WithinDecoderLimits ==
  /\ Len(out.offsets) = Len(out.tokens)
  /\ Len(out.extraLiteralLengths) <= Len(out.tokens)
  /\ Len(out.extraMatchLengths) <= Len(out.tokens)
  /\ Len(out.literals) + 2 * Len(out.tokens) <= N

\* A chunk the frame code may cut is never refused: the size check, the
\* offset limit and the zero-length check of append_match_sequence are
\* unreachable from compress_u32.
NeverFails == encoding # "error"

\* Every call returns: each iteration moves the cursor forward.
Terminates == <>(encoding # "scan")

=============================================================================
