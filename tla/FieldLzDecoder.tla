--------------------------- MODULE FieldLzDecoder ---------------------------
(***************************************************************************)
(* decode_side_streams of src/field_lz.rs: the decoder that turns five     *)
(* side streams, valid or not, back into the values of one chunk.          *)
(*                                                                         *)
(* The steps follow the code's loops: the checks made before any token is  *)
(* read, one step per token header (which also copies the literals), one   *)
(* step per value a match copies, because each copied value may be the     *)
(* source of a later one, and the final checks.  A step that ends in an    *)
(* error keeps what the code had read and appended before the check that   *)
(* failed; the caller never sees it.                                       *)
(***************************************************************************)
EXTENDS FieldLzReference

VARIABLES
  streams,    \* the five input streams
  aligned,    \* every stream's byte length is a multiple of its entry width
  chunkLen,   \* chunk_num_elements
  read,       \* entries consumed of each stream: literal_pos, offset_pos, ...
  repeats,    \* repeated_offsets
  output,     \* the values produced so far
  offset,     \* the current token's offset
  left,       \* values its match still has to copy
  decoding    \* "check", "token", "match", then "done" or "error"

decoderVars ==
  <<streams, aligned, chunkLen, read, repeats, output, offset, left, decoding>>

\* Nothing read yet.
NothingRead == [tokens |-> 0, literals |-> 0, offsets |-> 0,
                extraLiteralLengths |-> 0, extraMatchLengths |-> 0]

\* The state in which the function is entered, but for its streams.
Entered ==
  /\ aligned \in BOOLEAN
  /\ chunkLen \in 1..MaxChunk
  /\ read = NothingRead
  /\ repeats = InitialRepeats
  /\ output = <<>>
  /\ offset = 0
  /\ left = 0
  /\ decoding = "check"

\* The bytes come from a frame: any streams at all.
Init == streams \in Streams /\ Entered

-----------------------------------------------------------------------------
\* The checks before the first token

\* Faulty variant: the literal stream may be longer than the chunk.
WithinLimitsAnyLiterals ==
  /\ aligned
  /\ Len(streams.tokens) <= chunkLen
  /\ Len(streams.offsets) <= Len(streams.tokens)
  /\ Len(streams.extraLiteralLengths) <= Len(streams.tokens)
  /\ Len(streams.extraMatchLengths) <= Len(streams.tokens)

\* Faulty variant: a chunk of literals only is taken for an overrun.
WithinLimitsStrict ==
  /\ aligned
  /\ Len(streams.literals) < chunkLen
  /\ Len(streams.tokens) <= chunkLen
  /\ Len(streams.offsets) <= Len(streams.tokens)
  /\ Len(streams.extraLiteralLengths) <= Len(streams.tokens)
  /\ Len(streams.extraMatchLengths) <= Len(streams.tokens)

\* Limits on every stream, checked before anything is allocated.
WithinLimits ==
  /\ aligned
  /\ Len(streams.literals) <= chunkLen
  /\ Len(streams.tokens) <= chunkLen
  /\ Len(streams.offsets) <= Len(streams.tokens)
  /\ Len(streams.extraLiteralLengths) <= Len(streams.tokens)
  /\ Len(streams.extraMatchLengths) <= Len(streams.tokens)

CheckLimits ==
  /\ decoding = "check"
  /\ decoding' = IF WithinLimits THEN "token" ELSE "error"
  /\ UNCHANGED <<streams, aligned, chunkLen, read, repeats, output, offset, left>>

-----------------------------------------------------------------------------
\* One token

TokenLeft == decoding = "token" /\ read.tokens < Len(streams.tokens)

NextToken == streams.tokens[read.tokens + 1]

TakesOffset == NextToken.offsetCode = 3
TakesExtraLiteral == NextToken.literalCode = CodeMax
TakesExtraMatch == NextToken.matchCode = CodeMax

\* A side stream runs out before the entry this token calls for.
SideStreamUnderflow ==
  \/ TakesOffset /\ read.offsets >= Len(streams.offsets)
  \/ TakesExtraLiteral
     /\ read.extraLiteralLengths >= Len(streams.extraLiteralLengths)
  \/ TakesExtraMatch
     /\ read.extraMatchLengths >= Len(streams.extraMatchLengths)

TokenOffset ==
  IF TakesOffset THEN streams.offsets[read.offsets + 1]
                 ELSE repeats[NextToken.offsetCode + 1]

LiteralLen ==
  IF TakesExtraLiteral
  THEN CodeMax + streams.extraLiteralLengths[read.extraLiteralLengths + 1]
  ELSE NextToken.literalCode

MatchLen ==
  IF TakesExtraMatch
  THEN CodeMax + 1 + streams.extraMatchLengths[read.extraMatchLengths + 1]
  ELSE 1 + NextToken.matchCode

\* Faulty variant: code 2 swaps the first and third offset instead of moving
\* the third to the front.
NextRepeatsSwapped ==
  CASE NextToken.offsetCode = 0 -> repeats
    [] NextToken.offsetCode = 1 -> <<repeats[2], repeats[1], repeats[3]>>
    [] NextToken.offsetCode = 2 -> <<repeats[3], repeats[2], repeats[1]>>
    [] NextToken.offsetCode = 3 -> <<TokenOffset, repeats[1], repeats[2]>>

\* repeated_offsets after this token.
NextRepeats ==
  CASE NextToken.offsetCode = 0 -> repeats
    [] NextToken.offsetCode = 1 -> <<repeats[2], repeats[1], repeats[3]>>
    [] NextToken.offsetCode = 2 -> <<repeats[3], repeats[1], repeats[2]>>
    [] NextToken.offsetCode = 3 -> <<TokenOffset, repeats[1], repeats[2]>>

\* Faulty variant: the offset is checked against the chunk, not the output.
TokenFitsOffsetInChunk ==
  LET start == Len(output) + LiteralLen
  IN  /\ read.literals + LiteralLen <= Len(streams.literals)
      /\ TokenOffset # 0
      /\ TokenOffset <= chunkLen
      /\ start + MatchLen <= chunkLen

\* The literals fit what is left, and the match starts inside the output
\* and ends inside the chunk.
TokenFits ==
  LET start == Len(output) + LiteralLen
  IN  /\ read.literals + LiteralLen <= Len(streams.literals)
      /\ TokenOffset # 0
      /\ TokenOffset <= start
      /\ start + MatchLen <= chunkLen

AcceptsToken == ~ NextToken.reserved /\ ~ SideStreamUnderflow /\ TokenFits

\* Faulty variant: every cursor moves on every token.
TakenAlways(count, taken) == count + 1

\* A cursor moves past the entry its token took.
Taken(count, taken) == IF taken THEN count + 1 ELSE count

\* output with the token's literals.
OutputWithLiterals ==
  output \o SubSeq(streams.literals, read.literals + 1, read.literals + LiteralLen)

\* The header is read, the literals are copied, the match begins.
ReadToken ==
  /\ TokenLeft
  /\ AcceptsToken
  /\ read' = [tokens   |-> read.tokens + 1,
              literals |-> read.literals + LiteralLen,
              offsets  |-> Taken(read.offsets, TakesOffset),
              extraLiteralLengths |->
                Taken(read.extraLiteralLengths, TakesExtraLiteral),
              extraMatchLengths |->
                Taken(read.extraMatchLengths, TakesExtraMatch)]
  /\ repeats' = NextRepeats
  /\ output' = OutputWithLiterals
  /\ offset' = TokenOffset
  /\ left' = MatchLen
  /\ decoding' = "match"
  /\ UNCHANGED <<streams, aligned, chunkLen>>

\* How far a bad token is read: first its offset, then its two lengths, then
\* its literals, which are in the output before the match is looked at.
ReadsOffset ==
  /\ ~ NextToken.reserved
  /\ TakesOffset => read.offsets < Len(streams.offsets)

ReadsLiteralLen ==
  /\ ReadsOffset
  /\ TakesExtraLiteral =>
       read.extraLiteralLengths < Len(streams.extraLiteralLengths)

ReadsMatchLen ==
  /\ ReadsLiteralLen
  /\ TakesExtraMatch => read.extraMatchLengths < Len(streams.extraMatchLengths)

CopiesLiterals ==
  /\ ReadsMatchLen
  /\ read.literals + LiteralLen <= Len(streams.literals)

\* Any failed check ends the call, after the part of the token before it.
RejectToken ==
  /\ TokenLeft
  /\ ~ AcceptsToken
  /\ read' = [tokens   |-> read.tokens + 1,
              literals |-> IF CopiesLiterals THEN read.literals + LiteralLen
                                             ELSE read.literals,
              offsets  |-> Taken(read.offsets, ReadsOffset /\ TakesOffset),
              extraLiteralLengths |->
                Taken(read.extraLiteralLengths, ReadsLiteralLen /\ TakesExtraLiteral),
              extraMatchLengths |->
                Taken(read.extraMatchLengths, ReadsMatchLen /\ TakesExtraMatch)]
  /\ repeats' = IF ReadsOffset THEN NextRepeats ELSE repeats
  /\ output' = IF CopiesLiterals THEN OutputWithLiterals ELSE output
  /\ decoding' = "error"
  /\ UNCHANGED <<streams, aligned, chunkLen, offset, left>>

\* Faulty variant: the offset is counted from the start of the chunk.
CopySourceFromStart == output[offset]

\* output[output.len() - offset]
CopySource == output[Len(output) - offset + 1]

\* One turn of the copy loop; the source may itself be a copied value.
CopyValue ==
  /\ decoding = "match"
  /\ output' = Append(output, CopySource)
  /\ left' = left - 1
  /\ decoding' = IF left = 1 THEN "token" ELSE "match"
  /\ UNCHANGED <<streams, aligned, chunkLen, read, repeats, offset>>

-----------------------------------------------------------------------------
\* After the last token

TrailingLiterals ==
  SubSeq(streams.literals, read.literals + 1, Len(streams.literals))

\* Faulty variant: leftover extra match lengths are ignored.
FullyConsumedButMatches ==
  /\ read.offsets = Len(streams.offsets)
  /\ read.extraLiteralLengths = Len(streams.extraLiteralLengths)

\* No side stream holds an entry that no token took.
FullyConsumed ==
  /\ read.offsets = Len(streams.offsets)
  /\ read.extraLiteralLengths = Len(streams.extraLiteralLengths)
  /\ read.extraMatchLengths = Len(streams.extraMatchLengths)

\* The leftover literals are appended if they fit, and must complete the chunk.
Finish ==
  LET total == Len(output) + Len(TrailingLiterals)
  IN  /\ decoding = "token"
      /\ read.tokens = Len(streams.tokens)
      /\ output' = IF total <= chunkLen THEN output \o TrailingLiterals ELSE output
      /\ decoding' = IF FullyConsumed /\ total = chunkLen THEN "done" ELSE "error"
      /\ UNCHANGED <<streams, aligned, chunkLen, read, repeats, offset, left>>

\* The function has returned.
DecoderReturned == decoding \in {"done", "error"} /\ UNCHANGED decoderVars

DecoderStep ==
  \/ CheckLimits
  \/ ReadToken
  \/ RejectToken
  \/ CopyValue
  \/ Finish

Next == DecoderStep \/ DecoderReturned

Spec == Init /\ [][Next]_decoderVars

-----------------------------------------------------------------------------
\* Properties

\* The cursors stay inside their streams and the phases have the fields they
\* use.
TypeOK ==
  /\ streams \in Streams
  /\ aligned \in BOOLEAN
  /\ chunkLen \in 1..MaxChunk
  /\ read \in [tokens   : 0..Len(streams.tokens),
               literals : 0..Len(streams.literals),
               offsets  : 0..Len(streams.offsets),
               extraLiteralLengths : 0..Len(streams.extraLiteralLengths),
               extraMatchLengths   : 0..Len(streams.extraMatchLengths)]
  /\ repeats \in [1..3 -> Nat]
  /\ output \in Seq(Value)
  /\ offset \in Nat
  /\ left \in 0..chunkLen
  /\ decoding \in {"check", "token", "match", "done", "error"}

\* How far the output grows, whatever the lengths in the streams claim.  While
\* the call runs and when it succeeds, it stays within the chunk, with what a
\* match still has to copy.  Only the literals of a token that is then
\* refused go past it, since they are appended before the token is measured
\* against the chunk; the limit on the literal stream keeps even them below
\* twice the chunk.
OutputIsBounded ==
  /\ decoding # "error" => Len(output) + left <= chunkLen
  /\ Len(output) < 2 * chunkLen

\* While a match is copied its source lies in the output: the indexing
\* output[output.len() - offset] cannot panic, on any element of an
\* overlapping copy.  No offset in reach is ever zero: a zero read from the
\* offset stream ends the call before a later token could repeat it.
CopySourceExists ==
  /\ decoding = "match" => left > 0 /\ offset \in 1..Len(output)
  /\ decoding \in {"token", "match"} => \A k \in 1..3 : repeats[k] > 0

\* The three offsets in reach are the move-to-front history of the tokens
\* read so far, whatever mix of codes they used.
RepeatsAreRecent ==
  decoding \in {"token", "match"} =>
    repeats = RecentOffsets(streams)[read.tokens]

\* The decoder accepts exactly the streams the format calls well formed for
\* the chunk length: the order of its checks, and the ones that overlap,
\* neither let a bad stream through nor refuse a good one.
AcceptsWellFormed ==
  /\ decoding = "done" => aligned /\ WellFormed(streams, chunkLen)
  /\ decoding = "error" => ~ (aligned /\ WellFormed(streams, chunkLen))

\* What it returns is what the streams mean.
OutputIsMeaning == decoding = "done" => output = Meaning(streams, chunkLen)

=============================================================================
