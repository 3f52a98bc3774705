------------------------ MODULE FieldLzDecoderProofs ------------------------
(***************************************************************************)
(* Proofs about FieldLzDecoder on any streams at all, valid or not, for    *)
(* every chunk length and every value of the constants.                    *)
(*                                                                         *)
(* The first part shows that no index of the code is out of range and how  *)
(* far the output can grow, on a refused token too (DInv).  The second     *)
(* part relates the decoder to FieldLzReference, which knows no decoder:   *)
(* the cursors stand where the first tokens lead, and what is written so   *)
(* far is what those tokens mean (ReadSoFar, MeaningInv).  So the decoder  *)
(* accepts exactly the well formed streams, and returns their meaning.     *)
(***************************************************************************)
EXTENDS FieldLzDecoder, FieldLzReferenceProofs

\* Between two matches nothing is left to copy, so what a match may copy is
\* bounded when its token is checked.
NothingLeftBetweenMatches ==
  /\ decoding \in {"check", "token"} => left = 0
  /\ decoding = "check" => repeats = InitialRepeats

\* The literals still to come fit in the chunk, and the output was begun with
\* one of the literals: no match can be the first to write to it.
LiteralsBounded ==
  /\ decoding \in {"token", "match"} => Len(streams.literals) <= chunkLen
  /\ decoding \in {"check", "token", "match"} /\ Len(output) > 0 =>
       read.literals > 0

DInv ==
  /\ TypeOK
  /\ OutputIsBounded
  /\ CopySourceExists
  /\ NothingLeftBetweenMatches
  /\ LiteralsBounded

-----------------------------------------------------------------------------
\* Lemmas about the operators of the model

\* The lengths the cursors run to are numbers.
LEMMA LengthsAreNaturals ==
  ASSUME TypeOK
  PROVE  /\ Len(streams.tokens) \in Nat /\ Len(streams.literals) \in Nat
         /\ Len(streams.offsets) \in Nat
         /\ Len(streams.extraLiteralLengths) \in Nat
         /\ Len(streams.extraMatchLengths) \in Nat
         /\ Len(output) \in Nat /\ chunkLen \in Nat /\ left \in Nat
  BY FormatAssumption, SMTT(30) DEF TypeOK, Streams

\* Each cursor is a number no greater than the length of its stream.
LEMMA CursorsInRange ==
  ASSUME TypeOK
  PROVE  /\ read.tokens \in Nat /\ read.tokens <= Len(streams.tokens)
         /\ read.literals \in Nat /\ read.literals <= Len(streams.literals)
         /\ read.offsets \in Nat /\ read.offsets <= Len(streams.offsets)
         /\ read.extraLiteralLengths \in Nat
         /\ read.extraLiteralLengths <= Len(streams.extraLiteralLengths)
         /\ read.extraMatchLengths \in Nat
         /\ read.extraMatchLengths <= Len(streams.extraMatchLengths)
  BY LengthsAreNaturals DEF TypeOK

\* A cursor moves on only if there is an entry to take.
LEMMA TakenInRange ==
  ASSUME NEW count \in Nat, NEW len \in Nat, count <= len,
         NEW taken, taken => count < len
  PROVE  Taken(count, taken) \in 0..len
<1>1. CASE taken
  BY <1>1 DEF Taken
<1>2. CASE ~ taken
  BY <1>2 DEF Taken
<1> QED
  BY <1>1, <1>2

\* Three positive numbers are repeat offsets.
LEMMA ThreeOffsets ==
  ASSUME NEW a \in Nat \ {0}, NEW b \in Nat \ {0}, NEW c \in Nat \ {0}
  PROVE  <<a, b, c>> \in [1..3 -> Nat] /\ \A k \in 1..3 : <<a, b, c>>[k] > 0
<1>1. /\ <<a, b, c>> \in Seq(Nat) /\ Len(<<a, b, c>>) = 3
      /\ <<a, b, c>>[1] = a /\ <<a, b, c>>[2] = b /\ <<a, b, c>>[3] = c
  OBVIOUS
<1>2. <<a, b, c>> \in [1..3 -> Nat]
  BY <1>1
<1> QED
  BY <1>1, <1>2

\* As far as a token is read, refused or not, its fields are numbers.
LEMMA TokenFields ==
  ASSUME TypeOK, TokenLeft
  PROVE  /\ NextToken \in Token
         /\ ReadsOffset => TokenOffset \in Nat
         /\ ReadsLiteralLen => LiteralLen \in Nat
         /\ ReadsMatchLen => MatchLen \in Nat \ {0}
<1>1. NextToken \in Token
  <2>1. streams.tokens \in Seq(Token)
    BY DEF TypeOK, Streams
  <2>2. read.tokens + 1 \in 1..Len(streams.tokens)
    BY CursorsInRange, LengthsAreNaturals DEF TokenLeft
  <2> HIDE DEF Token
  <2> QED
    BY <2>1, <2>2 DEF NextToken
<1>2. ASSUME ReadsOffset PROVE TokenOffset \in Nat
  <2>1. CASE TakesOffset
    <3>1. streams.offsets \in Seq(Nat)
      BY DEF TypeOK, Streams
    <3>2. read.offsets < Len(streams.offsets)
      BY <1>2, <2>1 DEF ReadsOffset
    <3>3. read.offsets + 1 \in 1..Len(streams.offsets)
      BY <3>2, CursorsInRange, LengthsAreNaturals, SMTT(30)
    <3> QED
      BY <2>1, <3>1, <3>3 DEF TokenOffset
  <2>2. CASE ~ TakesOffset
    <3>1. NextToken.offsetCode + 1 \in 1..3
      BY <1>1, <2>2 DEF TakesOffset, Token
    <3> QED
      BY <2>2, <3>1 DEF TokenOffset, TypeOK
  <2> QED
    BY <2>1, <2>2
<1>3. ASSUME ReadsLiteralLen PROVE LiteralLen \in Nat
  <2>1. CASE TakesExtraLiteral
    <3>1. streams.extraLiteralLengths \in Seq(Nat)
      BY DEF TypeOK, Streams
    <3>2. read.extraLiteralLengths < Len(streams.extraLiteralLengths)
      BY <1>3, <2>1 DEF ReadsLiteralLen
    <3>3. read.extraLiteralLengths + 1 \in 1..Len(streams.extraLiteralLengths)
      BY <3>2, CursorsInRange, LengthsAreNaturals, SMTT(30)
    <3>4. streams.extraLiteralLengths[read.extraLiteralLengths + 1] \in Nat
      BY <3>1, <3>3
    <3> QED
      BY <2>1, <3>4, FormatAssumption DEF LiteralLen
  <2>2. CASE ~ TakesExtraLiteral
    BY <1>1, <2>2, FormatAssumption DEF LiteralLen, Token
  <2> QED
    BY <2>1, <2>2
<1>4. ASSUME ReadsMatchLen PROVE MatchLen \in Nat \ {0}
  <2>1. CASE TakesExtraMatch
    <3>1. streams.extraMatchLengths \in Seq(Nat)
      BY DEF TypeOK, Streams
    <3>2. read.extraMatchLengths < Len(streams.extraMatchLengths)
      BY <1>4, <2>1 DEF ReadsMatchLen
    <3>3. read.extraMatchLengths + 1 \in 1..Len(streams.extraMatchLengths)
      BY <3>2, CursorsInRange, LengthsAreNaturals, SMTT(30)
    <3>4. streams.extraMatchLengths[read.extraMatchLengths + 1] \in Nat
      BY <3>1, <3>3
    <3> QED
      BY <2>1, <3>4, FormatAssumption DEF MatchLen
  <2>2. CASE ~ TakesExtraMatch
    BY <1>1, <2>2, FormatAssumption DEF MatchLen, Token
  <2> QED
    BY <2>1, <2>2
<1> QED
  BY <1>1, <1>2, <1>3, <1>4

\* An accepted token is read to its end.
LEMMA AcceptedIsRead ==
  ASSUME TypeOK, AcceptsToken
  PROVE  ReadsOffset /\ ReadsLiteralLen /\ ReadsMatchLen
<1>1. /\ TakesOffset => read.offsets < Len(streams.offsets)
      /\ TakesExtraLiteral =>
           read.extraLiteralLengths < Len(streams.extraLiteralLengths)
      /\ TakesExtraMatch =>
           read.extraMatchLengths < Len(streams.extraMatchLengths)
  BY CursorsInRange, LengthsAreNaturals DEF AcceptsToken, SideStreamUnderflow
<1> QED
  BY <1>1 DEF ReadsOffset, ReadsLiteralLen, ReadsMatchLen, AcceptsToken

\* What an accepted token calls for is there: the entries it takes, its
\* literals, the source of its match and room for both.
LEMMA AcceptedToken ==
  ASSUME DInv, TokenLeft, AcceptsToken
  PROVE  /\ NextToken \in Token
         /\ TokenOffset \in Nat \ {0} /\ LiteralLen \in Nat /\ MatchLen \in Nat \ {0}
         /\ read.literals + LiteralLen <= Len(streams.literals)
         /\ TokenOffset <= Len(output) + LiteralLen
         /\ (Len(output) + LiteralLen) + MatchLen <= chunkLen
         /\ TakesOffset => read.offsets < Len(streams.offsets)
         /\ TakesExtraLiteral =>
              read.extraLiteralLengths < Len(streams.extraLiteralLengths)
         /\ TakesExtraMatch =>
              read.extraMatchLengths < Len(streams.extraMatchLengths)
<1>1. TypeOK
  BY DEF DInv
<1>2. ReadsOffset /\ ReadsLiteralLen /\ ReadsMatchLen
  BY <1>1, AcceptedIsRead
<1>3. /\ NextToken \in Token /\ TokenOffset \in Nat
      /\ LiteralLen \in Nat /\ MatchLen \in Nat \ {0}
  BY <1>1, <1>2, TokenFields
<1>4. /\ TokenOffset # 0
      /\ read.literals + LiteralLen <= Len(streams.literals)
      /\ TokenOffset <= Len(output) + LiteralLen
      /\ (Len(output) + LiteralLen) + MatchLen <= chunkLen
  BY DEF AcceptsToken, TokenFits
<1> QED
  BY <1>2, <1>3, <1>4 DEF ReadsOffset, ReadsLiteralLen, ReadsMatchLen

\* The literals of a token are appended whole.
LEMMA LiteralsAppended ==
  ASSUME TypeOK, LiteralLen \in Nat,
         read.literals + LiteralLen <= Len(streams.literals)
  PROVE  /\ OutputWithLiterals \in Seq(Value)
         /\ Len(OutputWithLiterals) = Len(output) + LiteralLen
<1> DEFINE piece == SubSeq(streams.literals, read.literals + 1, read.literals + LiteralLen)
<1>1. piece \in Seq(Value) /\ Len(piece) = LiteralLen
  <2>1. PICK lits \in Seq(Value) : lits = streams.literals
    BY DEF TypeOK, Streams
  <2>2. PICK from \in Nat : from = read.literals
    BY CursorsInRange
  <2>3. PICK n \in Nat : n = LiteralLen
    OBVIOUS
  <2>4. from + n <= Len(lits)
    BY <2>1, <2>2, <2>3
  <2>5. /\ SubSeq(lits, from + 1, from + n) \in Seq(Value)
        /\ Len(SubSeq(lits, from + 1, from + n)) = n
    <3>1. \A i \in (from + 1)..(from + n) : lits[i] \in Value
      BY <2>4
    <3>2. IF from + 1 <= from + n THEN (from + n) - (from + 1) + 1 = n ELSE n = 0
      OBVIOUS
    <3> QED
      BY <2>4, <3>1, <3>2, SubSeqProperties
  <2> QED
    BY <2>1, <2>2, <2>3, <2>5
<1> HIDE DEF piece
<1>2. output \in Seq(Value) /\ OutputWithLiterals = output \o piece
  BY DEF TypeOK, OutputWithLiterals, piece
<1> QED
  BY <1>1, <1>2, ConcatProperties

\* Whatever offset a token brings, three numbers stay in reach.
LEMMA NextRepeatsAreOffsets ==
  ASSUME repeats \in [1..3 -> Nat], TokenOffset \in Nat, NextToken.offsetCode \in 0..3
  PROVE  NextRepeats \in [1..3 -> Nat]
<1>1. repeats[1] \in Nat /\ repeats[2] \in Nat /\ repeats[3] \in Nat
  OBVIOUS
<1>2. ASSUME NEW a \in Nat, NEW b \in Nat, NEW c \in Nat
      PROVE  <<a, b, c>> \in [1..3 -> Nat]
  <2>1. <<a, b, c>> \in Seq(Nat) /\ Len(<<a, b, c>>) = 3
    OBVIOUS
  <2> QED
    BY <2>1
<1>3. \/ NextRepeats = repeats
      \/ NextRepeats = <<repeats[2], repeats[1], repeats[3]>>
      \/ NextRepeats = <<repeats[3], repeats[1], repeats[2]>>
      \/ NextRepeats = <<TokenOffset, repeats[1], repeats[2]>>
  BY DEF NextRepeats
<1> QED
  BY <1>1, <1>2, <1>3

\* Whatever the code of a token, the offsets in reach stay positive.
LEMMA NextRepeatsPositive ==
  ASSUME DInv, TokenLeft, AcceptsToken
  PROVE  NextRepeats \in [1..3 -> Nat] /\ \A k \in 1..3 : NextRepeats[k] > 0
<1>1. TokenOffset \in Nat \ {0} /\ NextToken.offsetCode \in 0..3
  BY AcceptedToken DEF Token
<1>2. repeats \in [1..3 -> Nat] /\ \A k \in 1..3 : repeats[k] > 0
  BY DEF DInv, TypeOK, CopySourceExists, TokenLeft
<1>3. repeats[1] \in Nat \ {0} /\ repeats[2] \in Nat \ {0} /\ repeats[3] \in Nat \ {0}
  BY <1>2
<1>4. CASE NextToken.offsetCode = 0
  BY <1>2, <1>4 DEF NextRepeats
<1>5. CASE NextToken.offsetCode = 1
  <2>1. NextRepeats = <<repeats[2], repeats[1], repeats[3]>>
    BY <1>5 DEF NextRepeats
  <2> QED
    BY <1>3, <2>1, ThreeOffsets
<1>6. CASE NextToken.offsetCode = 2
  <2>1. NextRepeats = <<repeats[3], repeats[1], repeats[2]>>
    BY <1>6 DEF NextRepeats
  <2> QED
    BY <1>3, <2>1, ThreeOffsets
<1>7. CASE NextToken.offsetCode = 3
  <2>1. NextRepeats = <<TokenOffset, repeats[1], repeats[2]>>
    BY <1>7 DEF NextRepeats
  <2> QED
    BY <1>1, <1>3, <2>1, ThreeOffsets
<1> QED
  BY <1>1, <1>4, <1>5, <1>6, <1>7

-----------------------------------------------------------------------------
\* The steps

\* In the state the function is entered in nothing was read.
LEMMA DInvInit ==
  ASSUME Init
  PROVE  DInv
<1>1. /\ streams \in Streams /\ aligned \in BOOLEAN /\ chunkLen \in 1..MaxChunk
      /\ read = NothingRead /\ repeats = InitialRepeats /\ output = <<>>
      /\ offset = 0 /\ left = 0 /\ decoding = "check"
  BY DEF Init, Entered
<1>2. repeats \in [1..3 -> Nat]
  BY <1>1, ThreeOffsets DEF InitialRepeats
<1>3. /\ Len(streams.tokens) \in Nat /\ Len(streams.literals) \in Nat
      /\ Len(streams.offsets) \in Nat
      /\ Len(streams.extraLiteralLengths) \in Nat
      /\ Len(streams.extraMatchLengths) \in Nat
  BY <1>1 DEF Streams
<1>4. /\ read \in [tokens   : 0..Len(streams.tokens),
                   literals : 0..Len(streams.literals),
                   offsets  : 0..Len(streams.offsets),
                   extraLiteralLengths : 0..Len(streams.extraLiteralLengths),
                   extraMatchLengths   : 0..Len(streams.extraMatchLengths)]
  BY <1>1, <1>3 DEF NothingRead
<1>5. chunkLen \in Nat /\ left \in 0..chunkLen /\ output \in Seq(Value) /\ Len(output) = 0
  BY <1>1, FormatAssumption
<1>6. TypeOK
  BY <1>1, <1>2, <1>4, <1>5 DEF TypeOK
<1>7. OutputIsBounded /\ LiteralsBounded
  BY <1>1, <1>5, FormatAssumption DEF OutputIsBounded, LiteralsBounded
<1> QED
  BY <1>1, <1>6, <1>7 DEF DInv, CopySourceExists, NothingLeftBetweenMatches

\* A token's header moves each cursor by what it takes, no further.
LEMMA ReadTokenKeeps ==
  ASSUME DInv, ReadToken
  PROVE  DInv'
<1>1. /\ TypeOK /\ TokenLeft /\ AcceptsToken
      /\ repeats' = NextRepeats /\ output' = OutputWithLiterals
      /\ offset' = TokenOffset /\ left' = MatchLen /\ decoding' = "match"
      /\ streams' = streams /\ aligned' = aligned /\ chunkLen' = chunkLen
  BY DEF ReadToken, DInv
<1>2. /\ TokenOffset \in Nat \ {0} /\ LiteralLen \in Nat /\ MatchLen \in Nat \ {0}
      /\ read.literals + LiteralLen <= Len(streams.literals)
      /\ TokenOffset <= Len(output) + LiteralLen
      /\ (Len(output) + LiteralLen) + MatchLen <= chunkLen
  BY <1>1, AcceptedToken
<1>3. /\ Len(output) \in Nat /\ chunkLen \in Nat /\ read.literals \in Nat
  BY <1>1, LengthsAreNaturals, CursorsInRange
<1>4. /\ Len(streams.literals) <= chunkLen
      /\ Len(output) > 0 => read.literals > 0
  BY <1>1 DEF DInv, LiteralsBounded, TokenLeft
<1>5. output' \in Seq(Value) /\ Len(output') = Len(output) + LiteralLen
  BY <1>1, <1>2, LiteralsAppended
<1>6. read' \in [tokens   : 0..Len(streams.tokens),
                 literals : 0..Len(streams.literals),
                 offsets  : 0..Len(streams.offsets),
                 extraLiteralLengths : 0..Len(streams.extraLiteralLengths),
                 extraMatchLengths   : 0..Len(streams.extraMatchLengths)]
  <2>1. read.tokens + 1 \in 0..Len(streams.tokens)
    BY <1>1, CursorsInRange, LengthsAreNaturals, SMTT(30) DEF TokenLeft
  <2>2. read.literals + LiteralLen \in 0..Len(streams.literals)
    <3>1. read.literals \in Nat /\ Len(streams.literals) \in Nat
      BY <1>1, CursorsInRange, LengthsAreNaturals
    <3> QED
      BY <1>2, <3>1
  <2>3. Taken(read.offsets, TakesOffset) \in 0..Len(streams.offsets)
    BY <1>1, AcceptedToken, CursorsInRange, LengthsAreNaturals, TakenInRange
  <2>4. Taken(read.extraLiteralLengths, TakesExtraLiteral)
          \in 0..Len(streams.extraLiteralLengths)
    BY <1>1, AcceptedToken, CursorsInRange, LengthsAreNaturals, TakenInRange
  <2>5. Taken(read.extraMatchLengths, TakesExtraMatch)
          \in 0..Len(streams.extraMatchLengths)
    BY <1>1, AcceptedToken, CursorsInRange, LengthsAreNaturals, TakenInRange
  <2>6. read' = [tokens   |-> read.tokens + 1,
                 literals |-> read.literals + LiteralLen,
                 offsets  |-> Taken(read.offsets, TakesOffset),
                 extraLiteralLengths |->
                   Taken(read.extraLiteralLengths, TakesExtraLiteral),
                 extraMatchLengths |->
                   Taken(read.extraMatchLengths, TakesExtraMatch)]
    BY DEF ReadToken
  <2> QED
    BY <2>1, <2>2, <2>3, <2>4, <2>5, <2>6
<1>7. repeats' \in [1..3 -> Nat] /\ \A k \in 1..3 : repeats'[k] > 0
  BY <1>1, NextRepeatsPositive
<1>8. offset' \in Nat /\ left' \in 0..chunkLen' /\ left' > 0
  BY <1>1, <1>2, <1>3
<1>9. TypeOK'
  BY <1>1, <1>5, <1>6, <1>7, <1>8 DEF TypeOK
<1>10. OutputIsBounded'
  BY <1>1, <1>2, <1>3, <1>5 DEF OutputIsBounded
<1>11. offset' \in 1..Len(output')
  BY <1>1, <1>2, <1>3, <1>5
<1>12. LiteralsBounded'
  <2>1. read'.literals = read.literals + LiteralLen
    BY DEF ReadToken
  <2>2. read'.literals > 0
    BY <1>2, <1>3, <1>4, <2>1
  <2> QED
    BY <1>1, <1>4, <2>2 DEF LiteralsBounded
<1> QED
  BY <1>1, <1>7, <1>8, <1>9, <1>10, <1>11, <1>12
  DEF DInv, CopySourceExists, NothingLeftBetweenMatches

\* What a refused token leaves behind is still typed, and its literals are the
\* only ones that can take the output past the chunk.
LEMMA RejectTokenKeeps ==
  ASSUME DInv, RejectToken
  PROVE  DInv'
<1>1. /\ TypeOK /\ TokenLeft /\ decoding = "token" /\ decoding' = "error"
      /\ streams' = streams /\ aligned' = aligned /\ chunkLen' = chunkLen
      /\ offset' = offset /\ left' = left
      /\ repeats' = (IF ReadsOffset THEN NextRepeats ELSE repeats)
      /\ output' = (IF CopiesLiterals THEN OutputWithLiterals ELSE output)
  BY DEF RejectToken, DInv, TokenLeft
<1>2. /\ NextToken \in Token
      /\ ReadsOffset => TokenOffset \in Nat
      /\ CopiesLiterals =>
           LiteralLen \in Nat /\ read.literals + LiteralLen <= Len(streams.literals)
  BY <1>1, TokenFields DEF CopiesLiterals, ReadsMatchLen
<1>3. /\ read.literals \in Nat /\ Len(streams.literals) \in Nat
      /\ Len(output) \in Nat /\ chunkLen \in Nat
  BY <1>1, CursorsInRange, LengthsAreNaturals
<1>4. read' \in [tokens   : 0..Len(streams.tokens),
                 literals : 0..Len(streams.literals),
                 offsets  : 0..Len(streams.offsets),
                 extraLiteralLengths : 0..Len(streams.extraLiteralLengths),
                 extraMatchLengths   : 0..Len(streams.extraMatchLengths)]
  <2> DEFINE lits == IF CopiesLiterals THEN read.literals + LiteralLen ELSE read.literals
  <2>1. read.tokens + 1 \in 0..Len(streams.tokens)
    BY <1>1, CursorsInRange, LengthsAreNaturals, SMTT(30) DEF TokenLeft
  <2>2. lits \in 0..Len(streams.literals)
    BY <1>1, <1>2, <1>3, CursorsInRange
  <2>3. Taken(read.offsets, ReadsOffset /\ TakesOffset) \in 0..Len(streams.offsets)
    <3>1. ReadsOffset /\ TakesOffset => read.offsets < Len(streams.offsets)
      BY DEF ReadsOffset
    <3> QED
      BY <1>1, <3>1, CursorsInRange, LengthsAreNaturals, TakenInRange
  <2>4. Taken(read.extraLiteralLengths, ReadsLiteralLen /\ TakesExtraLiteral)
          \in 0..Len(streams.extraLiteralLengths)
    <3>1. ReadsLiteralLen /\ TakesExtraLiteral =>
            read.extraLiteralLengths < Len(streams.extraLiteralLengths)
      BY DEF ReadsLiteralLen
    <3> QED
      BY <1>1, <3>1, CursorsInRange, LengthsAreNaturals, TakenInRange
  <2>5. Taken(read.extraMatchLengths, ReadsMatchLen /\ TakesExtraMatch)
          \in 0..Len(streams.extraMatchLengths)
    <3>1. ReadsMatchLen /\ TakesExtraMatch =>
            read.extraMatchLengths < Len(streams.extraMatchLengths)
      BY DEF ReadsMatchLen
    <3> QED
      BY <1>1, <3>1, CursorsInRange, LengthsAreNaturals, TakenInRange
  <2>6. read' = [tokens   |-> read.tokens + 1,
                 literals |-> lits,
                 offsets  |-> Taken(read.offsets, ReadsOffset /\ TakesOffset),
                 extraLiteralLengths |->
                   Taken(read.extraLiteralLengths, ReadsLiteralLen /\ TakesExtraLiteral),
                 extraMatchLengths |->
                   Taken(read.extraMatchLengths, ReadsMatchLen /\ TakesExtraMatch)]
    BY DEF RejectToken
  <2> HIDE DEF lits
  <2> QED
    BY <2>1, <2>2, <2>3, <2>4, <2>5, <2>6
<1>5. repeats' \in [1..3 -> Nat]
  <2>1. repeats \in [1..3 -> Nat] /\ NextToken.offsetCode \in 0..3
    BY <1>1, <1>2 DEF TypeOK, Token
  <2> QED
    BY <1>1, <1>2, <2>1, NextRepeatsAreOffsets
<1>6. output' \in Seq(Value) /\ Len(output') < 2 * chunkLen
  <2>1. Len(output) <= chunkLen
    BY <1>1, <1>3 DEF DInv, OutputIsBounded, NothingLeftBetweenMatches
  <2>2. chunkLen > 0 /\ output \in Seq(Value)
    BY <1>1, FormatAssumption DEF TypeOK
  <2>3. CASE CopiesLiterals
    <3>1. output' \in Seq(Value) /\ Len(output') = Len(output) + LiteralLen
      BY <1>1, <1>2, <2>3, LiteralsAppended
    <3>2. /\ Len(streams.literals) <= chunkLen
          /\ Len(output) > 0 => read.literals > 0
      BY <1>1 DEF DInv, LiteralsBounded
    <3>3. LiteralLen \in Nat /\ read.literals + LiteralLen <= Len(streams.literals)
      BY <1>2, <2>3
    <3> QED
      BY <1>3, <2>1, <2>2, <3>1, <3>2, <3>3
  <2>4. CASE ~ CopiesLiterals
    BY <1>1, <1>3, <2>1, <2>2, <2>4
  <2> QED
    BY <2>3, <2>4
<1>7. TypeOK'
  BY <1>1, <1>4, <1>5, <1>6 DEF TypeOK
<1> QED
  BY <1>1, <1>6, <1>7
  DEF DInv, OutputIsBounded, CopySourceExists, NothingLeftBetweenMatches,
      LiteralsBounded

\* One copied value makes the output one longer and the rest one shorter.
LEMMA CopyValueKeeps ==
  ASSUME DInv, CopyValue
  PROVE  DInv'
<1>1. /\ TypeOK /\ decoding = "match"
      /\ output' = Append(output, CopySource) /\ left' = left - 1
      /\ decoding' = (IF left = 1 THEN "token" ELSE "match")
      /\ streams' = streams /\ aligned' = aligned /\ chunkLen' = chunkLen
      /\ read' = read /\ repeats' = repeats /\ offset' = offset
  BY DEF CopyValue, DInv
<1>2. /\ left > 0 /\ offset \in 1..Len(output)
      /\ \A k \in 1..3 : repeats[k] > 0
      /\ Len(output) + left <= chunkLen
  BY <1>1 DEF DInv, CopySourceExists, OutputIsBounded
<1>3. Len(output) \in Nat /\ left \in Nat /\ chunkLen \in Nat /\ output \in Seq(Value)
  BY <1>1, LengthsAreNaturals DEF TypeOK
<1>4. CopySource \in Value
  <2>1. Len(output) - offset + 1 \in 1..Len(output)
    BY <1>2, <1>3
  <2> QED
    BY <1>3, <2>1 DEF CopySource
<1>5. output' \in Seq(Value) /\ Len(output') = Len(output) + 1
  BY <1>1, <1>3, <1>4
<1>6. left' \in 0..chunkLen' /\ Len(output') + left' <= chunkLen'
  BY <1>1, <1>2, <1>3, <1>5
<1>7. TypeOK'
  BY <1>1, <1>5, <1>6 DEF TypeOK
<1>8. OutputIsBounded'
  BY <1>1, <1>3, <1>5, <1>6, <1>2 DEF OutputIsBounded
<1>9. offset' \in 1..Len(output')
  BY <1>1, <1>2, <1>3, <1>5
<1>10. /\ decoding' = "match" => left' > 0
       /\ decoding' \in {"check", "token"} => left' = 0
  BY <1>1, <1>2, <1>3
<1>11. LiteralsBounded'
  BY <1>1, <1>2, <1>3 DEF DInv, LiteralsBounded
<1> QED
  BY <1>1, <1>2, <1>7, <1>8, <1>9, <1>10, <1>11
  DEF DInv, CopySourceExists, NothingLeftBetweenMatches

\* The literals that are left are only appended when they fit in the chunk.
LEMMA FinishKeeps ==
  ASSUME DInv, Finish
  PROVE  DInv'
<1> DEFINE total == Len(output) + Len(TrailingLiterals)
<1>1. /\ TypeOK /\ decoding = "token" /\ left = 0
      /\ streams' = streams /\ aligned' = aligned /\ chunkLen' = chunkLen
      /\ read' = read /\ repeats' = repeats /\ offset' = offset /\ left' = left
      /\ output' = (IF total <= chunkLen THEN output \o TrailingLiterals ELSE output)
      /\ decoding' \in {"done", "error"}
  BY DEF Finish, DInv, NothingLeftBetweenMatches
<1>2. TrailingLiterals \in Seq(Value)
  <2>1. /\ streams.literals \in Seq(Value) /\ read.literals \in Nat
        /\ Len(streams.literals) \in Nat
    BY <1>1, CursorsInRange, LengthsAreNaturals DEF TypeOK, Streams
  <2>2. \A i \in (read.literals + 1)..Len(streams.literals) :
          streams.literals[i] \in Value
    BY <2>1
  <2> QED
    BY <2>1, <2>2, SubSeqProperties DEF TrailingLiterals
<1>3. /\ output \in Seq(Value) /\ Len(output) \in Nat
      /\ chunkLen \in Nat /\ chunkLen > 0
  BY <1>1, LengthsAreNaturals, FormatAssumption DEF TypeOK
<1>4. Len(output) <= chunkLen
  BY <1>1, <1>3 DEF DInv, OutputIsBounded
<1>5. output' \in Seq(Value) /\ Len(output') <= chunkLen
  <2>1. CASE total <= chunkLen
    BY <1>1, <1>2, <1>3, <2>1, ConcatProperties
  <2>2. CASE ~ (total <= chunkLen)
    BY <1>1, <1>3, <1>4, <2>2
  <2> QED
    BY <2>1, <2>2
<1> HIDE DEF total
<1>6. TypeOK'
  BY <1>1, <1>5 DEF TypeOK
<1>7. OutputIsBounded'
  <2>1. Len(output') \in Nat
    BY <1>5, LenProperties
  <2> QED
    BY <1>1, <1>3, <1>5, <2>1 DEF OutputIsBounded
<1> QED
  BY <1>1, <1>6, <1>7
  DEF DInv, CopySourceExists, NothingLeftBetweenMatches, LiteralsBounded

\* Every step of the decoder keeps the strengthened invariant.
LEMMA DInvNext ==
  ASSUME DInv, [Next]_decoderVars
  PROVE  DInv'
<1>1. CASE CheckLimits
  <2>1. /\ decoding = "check" /\ decoding' \in {"token", "error"}
        /\ decoding' = "token" => WithinLimits
        /\ UNCHANGED <<streams, aligned, chunkLen, read, repeats, output, offset, left>>
    BY <1>1 DEF CheckLimits
  <2>2. TypeOK' /\ OutputIsBounded' /\ LiteralsBounded' /\ left' = 0
    BY <2>1 DEF DInv, TypeOK, OutputIsBounded, LiteralsBounded, WithinLimits,
                NothingLeftBetweenMatches
  <2>3. \A k \in 1..3 : repeats'[k] > 0
    BY <2>1, ThreeOffsets DEF DInv, NothingLeftBetweenMatches, InitialRepeats
  <2> QED
    BY <2>1, <2>2, <2>3 DEF DInv, CopySourceExists, NothingLeftBetweenMatches
<1>2. CASE ReadToken
  BY <1>2, ReadTokenKeeps
<1>3. CASE RejectToken
  BY <1>3, RejectTokenKeeps
<1>4. CASE CopyValue
  BY <1>4, CopyValueKeeps
<1>5. CASE Finish
  BY <1>5, FinishKeeps
<1>6. CASE DecoderReturned \/ UNCHANGED decoderVars
  <2>1. UNCHANGED decoderVars
    BY <1>6 DEF DecoderReturned
  <2> QED
    BY <2>1 DEF decoderVars, DInv, TypeOK, OutputIsBounded, CopySourceExists,
                NothingLeftBetweenMatches, LiteralsBounded
<1> QED
  BY <1>1, <1>2, <1>3, <1>4, <1>5, <1>6 DEF Next, DecoderStep


-----------------------------------------------------------------------------
\* What the decoder knows of the meaning

\* While the call runs, each cursor is where the reference says the tokens read
\* so far have left it.
ReadSoFar ==
  /\ read.offsets = Explicits(streams, read.tokens)
  /\ read.extraLiteralLengths = LongLiterals(streams, read.tokens)
  /\ read.extraMatchLengths = LongMatches(streams, read.tokens)
  /\ read.literals = LiteralsThrough(streams, read.tokens)
  /\ repeats = RecentOffsets(streams)[read.tokens]
  /\ Len(output) + left = MatchEnd(streams, read.tokens)
  /\ LengthsKnown(streams, read.tokens)
  /\ TokensFit(streams, read.tokens)
  /\ OutputFollows(streams, read.tokens, output)
  /\ decoding = "check" => read.tokens = 0
  /\ decoding = "match" =>
       /\ read.tokens > 0
       /\ offset = RecentOffsets(streams)[read.tokens][1]
       /\ left <= MatchLength(streams, read.tokens)

MeaningInv ==
  /\ DInv
  /\ decoding \in {"check", "token", "match"} => ReadSoFar
  /\ decoding \in {"token", "match", "done"} => aligned
  /\ AcceptsWellFormed
  /\ OutputIsMeaning

\* What is known while the call runs, of the numbers the steps add up.
LEMMA RunningFacts ==
  ASSUME MeaningInv, decoding \in {"check", "token", "match"}
  PROVE  /\ TypeOK /\ ReadSoFar /\ streams \in Streams
         /\ Len(streams.tokens) \in Nat /\ Tokens(streams) = 1..Len(streams.tokens)
         /\ read.tokens \in 0..Len(streams.tokens) /\ read.tokens \in Nat
         /\ LengthsKnown(streams, read.tokens)
<1>1. TypeOK /\ ReadSoFar
  BY DEF MeaningInv, DInv
<1>2. streams \in Streams /\ streams.tokens \in Seq(Token)
  BY <1>1 DEF TypeOK, Streams
<1>3. Len(streams.tokens) \in Nat /\ Tokens(streams) = 1..Len(streams.tokens)
  <2> HIDE DEF Token
  <2> QED
    BY <1>2 DEF Tokens
<1> QED
  BY <1>1, <1>2, <1>3, CursorsInRange DEF ReadSoFar

\* The next token's fields and lengths are those the reference gives it, when
\* the entries it calls for are there.
LEMMA NextTokenMeans ==
  ASSUME MeaningInv, TokenLeft, ~ SideStreamUnderflow
  PROVE  /\ read.tokens + 1 \in 1..Len(streams.tokens)
         /\ NextToken \in Token
         /\ LiteralLen = LiteralLength(streams, read.tokens + 1)
         /\ MatchLen = MatchLength(streams, read.tokens + 1)
         /\ LiteralLen \in Nat /\ MatchLen \in Nat \ {0}
         /\ NextRepeats = RecentOffsets(streams)[read.tokens + 1]
         /\ TokenOffset = RecentOffsets(streams)[read.tokens + 1][1]
         /\ Taken(read.offsets, TakesOffset) = Explicits(streams, read.tokens + 1)
         /\ Taken(read.extraLiteralLengths, TakesExtraLiteral)
              = LongLiterals(streams, read.tokens + 1)
         /\ Taken(read.extraMatchLengths, TakesExtraMatch)
              = LongMatches(streams, read.tokens + 1)
<1> DEFINE s == streams
           k == read.tokens
<1>1. /\ TypeOK /\ ReadSoFar /\ s \in Streams /\ Len(s.tokens) \in Nat
      /\ k \in Nat /\ k \in 0..Len(s.tokens)
  BY RunningFacts DEF TokenLeft
<1>2. k + 1 \in 1..Len(s.tokens) /\ (k + 1) - 1 = k
  BY <1>1 DEF TokenLeft
<1>3. NextToken = s.tokens[k + 1] /\ NextToken \in Token
  <2>1. s.tokens \in Seq(Token)
    BY <1>1 DEF Streams
  <2> HIDE DEF Token
  <2> QED
    BY <2>1, <1>2 DEF NextToken
<1>4. /\ NextToken.offsetCode \in 0..3 /\ NextToken.literalCode \in 0..CodeMax
      /\ NextToken.matchCode \in 0..CodeMax
  BY <1>3 DEF Token
<1>5. /\ read.offsets = Explicits(s, k) /\ read.extraLiteralLengths = LongLiterals(s, k)
      /\ read.extraMatchLengths = LongMatches(s, k) /\ repeats = RecentOffsets(s)[k]
  BY <1>1 DEF ReadSoFar
<1>6. /\ read.offsets \in Nat /\ read.extraLiteralLengths \in Nat
      /\ read.extraMatchLengths \in Nat
      /\ Len(s.offsets) \in Nat /\ Len(s.extraLiteralLengths) \in Nat
      /\ Len(s.extraMatchLengths) \in Nat
  BY <1>1, CursorsInRange, LengthsAreNaturals
<1>7. /\ Explicits(s, k + 1) = Explicits(s, k) + (IF TakesOffset THEN 1 ELSE 0)
      /\ LongLiterals(s, k + 1)
           = LongLiterals(s, k) + (IF TakesExtraLiteral THEN 1 ELSE 0)
      /\ LongMatches(s, k + 1) = LongMatches(s, k) + (IF TakesExtraMatch THEN 1 ELSE 0)
  BY <1>1, <1>3, EntriesCounted DEF TakesOffset, TakesExtraLiteral, TakesExtraMatch
<1>8. /\ Taken(read.offsets, TakesOffset) = Explicits(s, k + 1)
      /\ Taken(read.extraLiteralLengths, TakesExtraLiteral) = LongLiterals(s, k + 1)
      /\ Taken(read.extraMatchLengths, TakesExtraMatch) = LongMatches(s, k + 1)
  BY <1>5, <1>6, <1>7 DEF Taken
<1>9. LiteralLen = LiteralLength(s, k + 1) /\ LiteralLen \in Nat
  <2>1. CASE TakesExtraLiteral
    <3>1. /\ ~ (s.tokens[k + 1].literalCode < CodeMax)
          /\ LongLiterals(s, k + 1) = read.extraLiteralLengths + 1
      BY <2>1, <1>3, <1>5, <1>7, FormatAssumption DEF TakesExtraLiteral
    <3>2. LiteralLength(s, k + 1)
            = CodeMax + s.extraLiteralLengths[read.extraLiteralLengths + 1]
      BY <3>1 DEF LiteralLength, LongLiterals
    <3>3. s.extraLiteralLengths[read.extraLiteralLengths + 1] \in Nat
      <4>1. s.extraLiteralLengths \in Seq(Nat)
        BY <1>1 DEF Streams
      <4>2. read.extraLiteralLengths + 1 \in 1..Len(s.extraLiteralLengths)
        BY <2>1, <1>6 DEF SideStreamUnderflow
      <4> QED
        BY <4>1, <4>2
    <3> QED
      BY <2>1, <3>2, <3>3, FormatAssumption DEF LiteralLen
  <2>2. CASE ~ TakesExtraLiteral
    <3>1. s.tokens[k + 1].literalCode < CodeMax
      BY <2>2, <1>3, <1>4, FormatAssumption DEF TakesExtraLiteral
    <3> QED
      BY <2>2, <3>1, <1>3, <1>4 DEF LiteralLen, LiteralLength
  <2> QED
    BY <2>1, <2>2
<1>10. MatchLen = MatchLength(s, k + 1) /\ MatchLen \in Nat \ {0}
  <2>1. CASE TakesExtraMatch
    <3>1. /\ ~ (s.tokens[k + 1].matchCode < CodeMax)
          /\ LongMatches(s, k + 1) = read.extraMatchLengths + 1
      BY <2>1, <1>3, <1>5, <1>7, FormatAssumption DEF TakesExtraMatch
    <3>2. MatchLength(s, k + 1)
            = 1 + CodeMax + s.extraMatchLengths[read.extraMatchLengths + 1]
      BY <3>1 DEF MatchLength, LongMatches
    <3>3. PICK x \in Nat : x = s.extraMatchLengths[read.extraMatchLengths + 1]
      <4>1. s.extraMatchLengths \in Seq(Nat)
        BY <1>1 DEF Streams
      <4>2. read.extraMatchLengths + 1 \in 1..Len(s.extraMatchLengths)
        BY <2>1, <1>6 DEF SideStreamUnderflow
      <4> QED
        BY <4>1, <4>2
    <3> QED
      BY <2>1, <3>2, <3>3, FormatAssumption DEF MatchLen
  <2>2. CASE ~ TakesExtraMatch
    <3>1. s.tokens[k + 1].matchCode < CodeMax
      BY <2>2, <1>3, <1>4, FormatAssumption DEF TakesExtraMatch
    <3> QED
      BY <2>2, <3>1, <1>3, <1>4, FormatAssumption DEF MatchLen, MatchLength
  <2> QED
    BY <2>1, <2>2
<1>11. TakesOffset => TokenOffset = OffsetRead(s, k + 1)
  BY <1>3, <1>5, <1>6, <1>7 DEF TakesOffset, TokenOffset, OffsetRead, Explicits
<1>12. /\ NextRepeats = RecentOffsets(s)[k + 1]
       /\ TokenOffset = RecentOffsets(s)[k + 1][1]
  <2> DEFINE x == OffsetRead(s, k + 1)
  <2>1. RecentOffsets(s)[k + 1]
          = MoveToFront(Append(repeats, x), NextToken.offsetCode)
    BY <1>1, <1>2, <1>3, <1>5, RecentOffsetsStep
  <2>2. PICK a, b, c \in Nat : repeats = <<a, b, c>>
    <3>1. repeats \in [1..3 -> Nat]
      BY <1>1 DEF TypeOK
    <3>2. repeats = <<repeats[1], repeats[2], repeats[3]>>
      BY <3>1
    <3>3. repeats[1] \in Nat /\ repeats[2] \in Nat /\ repeats[3] \in Nat
      BY <3>1
    <3> QED
      BY <3>2, <3>3
  <2> HIDE DEF x
  <2>3. CASE NextToken.offsetCode = 0
    <3>1. NextRepeats = repeats /\ TokenOffset = repeats[1]
      BY <2>3 DEF NextRepeats, TokenOffset, TakesOffset
    <3> QED
      BY <3>1, <2>1, <2>2, <2>3, MovedToFront
  <2>4. CASE NextToken.offsetCode = 1
    <3>1. NextRepeats = <<b, a, c>> /\ TokenOffset = b
      BY <2>2, <2>4 DEF NextRepeats, TokenOffset, TakesOffset
    <3>2. RecentOffsets(s)[k + 1] = <<b, a, c>>
      BY <2>1, <2>2, <2>4, MovedToFront
    <3> QED
      BY <3>1, <3>2
  <2>5. CASE NextToken.offsetCode = 2
    <3>1. NextRepeats = <<c, a, b>> /\ TokenOffset = c
      BY <2>2, <2>5 DEF NextRepeats, TokenOffset, TakesOffset
    <3>2. RecentOffsets(s)[k + 1] = <<c, a, b>>
      BY <2>1, <2>2, <2>5, MovedToFront
    <3> QED
      BY <3>1, <3>2
  <2>6. CASE NextToken.offsetCode = 3
    <3>1. NextRepeats = <<TokenOffset, a, b>> /\ TokenOffset = x
      BY <1>11, <2>2, <2>6 DEF NextRepeats, TakesOffset, x
    <3>2. RecentOffsets(s)[k + 1] = <<x, a, b>>
      BY <2>1, <2>2, <2>6, MovedToFront
    <3> QED
      BY <3>1, <3>2
  <2> QED
    BY <1>4, <2>3, <2>4, <2>5, <2>6
<1> QED
  BY <1>2, <1>3, <1>8, <1>9, <1>10, <1>12

\* Reading a token adds its literals, and what was said of the output stays.
LEMMA ReadTokenMeans ==
  ASSUME MeaningInv, ReadToken
  PROVE  ReadSoFar'
<1> DEFINE s == streams
           k == read.tokens
           piece == SubSeq(s.literals, read.literals + 1, read.literals + LiteralLen)
<1>1. /\ TokenLeft /\ AcceptsToken /\ ~ SideStreamUnderflow /\ DInv
      /\ decoding = "token" /\ left = 0 /\ streams' = s
      /\ read' = [tokens   |-> k + 1,
                  literals |-> read.literals + LiteralLen,
                  offsets  |-> Taken(read.offsets, TakesOffset),
                  extraLiteralLengths |->
                    Taken(read.extraLiteralLengths, TakesExtraLiteral),
                  extraMatchLengths |->
                    Taken(read.extraMatchLengths, TakesExtraMatch)]
      /\ repeats' = NextRepeats /\ output' = output \o piece
      /\ offset' = TokenOffset /\ left' = MatchLen /\ decoding' = "match"
  BY DEF ReadToken, OutputWithLiterals, AcceptsToken, TokenLeft, MeaningInv, DInv,
         NothingLeftBetweenMatches
<1>2. /\ TypeOK /\ ReadSoFar /\ s \in Streams
      /\ Len(s.tokens) \in Nat /\ Tokens(s) = 1..Len(s.tokens)
      /\ k \in Nat /\ k \in 0..Len(s.tokens) /\ LengthsKnown(s, k)
  BY <1>1, RunningFacts
<1>3. /\ k + 1 \in 1..Len(s.tokens)
      /\ LiteralLen = LiteralLength(s, k + 1) /\ MatchLen = MatchLength(s, k + 1)
      /\ LiteralLen \in Nat /\ MatchLen \in Nat \ {0}
      /\ NextRepeats = RecentOffsets(s)[k + 1]
      /\ TokenOffset = RecentOffsets(s)[k + 1][1]
      /\ Taken(read.offsets, TakesOffset) = Explicits(s, k + 1)
      /\ Taken(read.extraLiteralLengths, TakesExtraLiteral) = LongLiterals(s, k + 1)
      /\ Taken(read.extraMatchLengths, TakesExtraMatch) = LongMatches(s, k + 1)
  BY <1>1, NextTokenMeans
<1>4. /\ read.literals + LiteralLen <= Len(s.literals)
      /\ TokenOffset \in Nat \ {0} /\ TokenOffset <= Len(output) + LiteralLen
  BY <1>1, AcceptedToken
<1>5. /\ read.literals = LiteralsThrough(s, k) /\ Len(output) + left = MatchEnd(s, k)
      /\ TokensFit(s, k) /\ OutputFollows(s, k, output)
  BY <1>2 DEF ReadSoFar
<1>6. LengthsKnown(s, k + 1)
  BY <1>2, <1>3 DEF LengthsKnown
<1>7. PICK o, l, a, b, ll, ml \in Nat :
        /\ o = Len(output) /\ l = Len(s.literals) /\ a = LiteralsThrough(s, k)
        /\ b = MatchedThrough(s, k) /\ ll = LiteralLen /\ ml = MatchLen
  <2>1. LiteralsThrough(s, k) \in Nat /\ MatchedThrough(s, k) \in Nat
    BY <1>2, PositionsGrow
  <2>2. Len(output) \in Nat /\ Len(s.literals) \in Nat
    BY <1>2, LengthsAreNaturals
  <2> QED
    BY <2>1, <2>2, <1>3
<1>8. /\ LiteralsThrough(s, k + 1) = a + ll
      /\ MatchEnd(s, k) = a + b /\ MatchStart(s, k + 1) = a + b + ll
      /\ MatchEnd(s, k + 1) = (a + b + ll) + ml
  <2>1. k + 1 \in 0..Len(s.tokens) /\ k + 1 \in 1..(k + 1) /\ (k + 1) - 1 = k
    BY <1>2, <1>3
  <2>2. LiteralsThrough(s, k + 1) = LiteralsThrough(s, (k + 1) - 1) + LiteralLength(s, k + 1)
    BY <2>1, <1>2, <1>6, PositionsGrow
  <2>3. /\ MatchStart(s, k + 1) = MatchEnd(s, (k + 1) - 1) + LiteralLength(s, k + 1)
        /\ MatchEnd(s, k + 1) = MatchStart(s, k + 1) + MatchLength(s, k + 1)
    BY <2>1, <1>2, <1>6, MatchesFollow
  <2>4. MatchEnd(s, k) = a + b
    BY <1>7 DEF MatchEnd
  <2> QED
    BY <2>1, <2>2, <2>3, <2>4, <1>3, <1>7
<1>9. o = a + b /\ read.literals = a /\ a + ll <= l
  BY <1>1, <1>4, <1>5, <1>7, <1>8
<1>10. /\ output' \in Seq(Value) /\ Len(output') = o + ll
       /\ \A p \in 1..o : output'[p] = output[p]
       /\ \A p \in 1..(o + ll) : p > o => output'[p] = s.literals[p - b]
  <2>1. PICK lits \in Seq(Value) : lits = s.literals /\ Len(lits) = l
    BY <1>2, <1>7 DEF Streams
  <2>2. /\ SubSeq(lits, a + 1, a + ll) \in Seq(Value)
        /\ Len(SubSeq(lits, a + 1, a + ll)) = ll
        /\ \A i \in 1..ll : SubSeq(lits, a + 1, a + ll)[i] = lits[a + i]
    <3>1. \A i \in (a + 1)..(a + ll) : lits[i] \in Value
      BY <1>9, <2>1
    <3>2. /\ SubSeq(lits, a + 1, a + ll) \in Seq(Value)
          /\ Len(SubSeq(lits, a + 1, a + ll))
               = IF a + 1 <= a + ll THEN (a + ll) - (a + 1) + 1 ELSE 0
          /\ \A i \in 1..((a + ll) - (a + 1) + 1) :
               SubSeq(lits, a + 1, a + ll)[i] = lits[(a + 1) + i - 1]
      BY <3>1, SubSeqProperties
    <3>3. (a + ll) - (a + 1) + 1 = ll /\ (a + 1 <= a + ll \/ ll = 0)
          /\ \A i \in 1..ll : (a + 1) + i - 1 = a + i
      OBVIOUS
    <3> QED
      BY <3>2, <3>3
  <2>3. piece = SubSeq(lits, a + 1, a + ll)
    BY <1>7, <1>9, <2>1
  <2> HIDE DEF piece
  <2>4. output \in Seq(Value) /\ piece \in Seq(Value) /\ Len(piece) = ll
        /\ \A i \in 1..ll : piece[i] = lits[a + i]
    BY <1>2, <2>2, <2>3 DEF TypeOK
  <2>5. /\ output \o piece \in Seq(Value) /\ Len(output \o piece) = o + ll
        /\ \A i \in 1..(o + ll) :
             (output \o piece)[i] = IF i <= o THEN output[i] ELSE piece[i - o]
    <3>1. /\ output \o piece \in Seq(Value)
          /\ Len(output \o piece) = Len(output) + Len(piece)
          /\ \A i \in 1..(Len(output) + Len(piece)) :
               (output \o piece)[i]
                 = IF i <= Len(output) THEN output[i] ELSE piece[i - Len(output)]
      BY <2>4, ConcatProperties
    <3>2. Len(output) = o /\ Len(piece) = ll
      BY <1>7, <2>4
    <3> QED
      BY <3>1, <3>2
  <2>6. \A p \in 1..o : p \in 1..(o + ll) /\ p <= o
    OBVIOUS
  <2>7. ASSUME NEW p \in 1..(o + ll), p > o
        PROVE  piece[p - o] = lits[p - b]
    <3>1. p - o \in 1..ll /\ a + (p - o) = p - b
      BY <1>9, <2>7
    <3> QED
      BY <2>4, <3>1
  <2>8. output' = output \o piece
    BY <1>1
  <2>9. \A p \in 1..o : output'[p] = output[p]
    BY <2>5, <2>6, <2>8
  <2>10. ASSUME NEW p \in 1..(o + ll), p > o
         PROVE  output'[p] = s.literals[p - b]
    <3>1. ~ (p <= o)
      BY <2>10
    <3> QED
      BY <2>1, <2>5, <2>7, <2>8, <2>10, <3>1, Zenon
  <2> QED
    BY <2>5, <2>8, <2>9, <2>10
<1>11. TokensFit(s, k + 1)
  <2>1. ~ s.tokens[k + 1].reserved
    BY <1>1 DEF AcceptsToken, NextToken
  <2>2. RecentOffsets(s)[k + 1][1] \in 1..MatchStart(s, k + 1)
    <3>1. PICK d \in Nat : d = TokenOffset /\ d > 0 /\ d <= o + ll
      BY <1>4, <1>7
    <3>2. MatchStart(s, k + 1) = o + ll /\ d \in 1..(o + ll)
      BY <1>8, <1>9, <3>1
    <3> QED
      BY <1>3, <3>1, <3>2, Zenon
  <2>3. ASSUME NEW j \in 1..(k + 1), j # k + 1 PROVE j \in 1..k
    BY <1>2, <2>3
  <2> QED
    BY <1>5, <2>1, <2>2, <2>3, Zenon DEF TokensFit
<1>12. OutputFollows(s, k + 1, output')
  <2>1. SUFFICES ASSUME NEW j \in 1..(k + 1), NEW p \in 1..Len(output')
                 PROVE  /\ MatchEnd(s, j - 1) < p /\ p <= MatchStart(s, j) =>
                             output'[p] = s.literals[p - MatchedThrough(s, j - 1)]
                        /\ MatchStart(s, j) < p /\ p <= MatchEnd(s, j) =>
                             output'[p] = output'[p - RecentOffsets(s)[j][1]]
    BY DEF OutputFollows
  <2>2. p \in 1..(o + ll)
    BY <1>10
  <2>3. CASE j = k + 1
    <3>1. j - 1 = k /\ MatchStart(s, j) = o + ll /\ MatchEnd(s, j - 1) = o
      BY <1>2, <1>8, <1>9, <2>3
    <3>2. MatchEnd(s, j - 1) < p => output'[p] = s.literals[p - MatchedThrough(s, j - 1)]
      BY <1>7, <1>10, <2>2, <3>1
    <3>3. ~ (MatchStart(s, j) < p)
      BY <2>2, <3>1
    <3> QED
      BY <3>2, <3>3
  <2>4. CASE j \in 1..k
    <3>1. /\ MatchEnd(s, j) \in Nat /\ MatchStart(s, j) \in Nat
          /\ MatchEnd(s, j) <= MatchEnd(s, k)
          /\ MatchEnd(s, j) = MatchStart(s, j) + MatchLength(s, j)
          /\ MatchLength(s, j) \in Nat
      <4>1. j \in 0..k /\ k \in 0..k
        BY <1>2, <2>4
      <4> QED
        BY <4>1, <1>2, <2>4, MatchesFollow DEF LengthsKnown
    <3>2. MatchStart(s, j) <= MatchEnd(s, j) /\ MatchEnd(s, j) <= o
      BY <1>8, <1>9, <3>1
    <3>3. ASSUME p <= MatchEnd(s, j) PROVE p \in 1..o /\ output'[p] = output[p]
      BY <1>10, <2>2, <3>1, <3>2, <3>3
    <3>4. ASSUME MatchEnd(s, j - 1) < p, p <= MatchStart(s, j)
          PROVE  output'[p] = s.literals[p - MatchedThrough(s, j - 1)]
      <4>1. p <= MatchEnd(s, j)
        BY <2>2, <3>1, <3>4
      <4> QED
        BY <1>5, <1>7, <2>4, <3>3, <3>4, <4>1 DEF OutputFollows
    <3>5. ASSUME MatchStart(s, j) < p, p <= MatchEnd(s, j)
          PROVE  output'[p] = output'[p - RecentOffsets(s)[j][1]]
      <4>1. PICK d \in Nat : d = RecentOffsets(s)[j][1] /\ d > 0 /\ d <= MatchStart(s, j)
        BY <1>5, <2>4, <3>1 DEF TokensFit
      <4>2. p \in 1..o /\ p - d \in 1..o
        BY <2>2, <3>1, <3>3, <3>5, <4>1, SMTT(30)
      <4>3. output'[p] = output[p] /\ output'[p - d] = output[p - d]
        BY <1>10, <4>2
      <4>4. output[p] = output[p - d]
        BY <1>5, <1>7, <2>4, <3>5, <4>1, <4>2 DEF OutputFollows
      <4> QED
        BY <4>1, <4>3, <4>4
    <3> QED
      BY <3>4, <3>5
  <2> QED
    BY <1>2, <2>3, <2>4
<1>13. /\ read'.tokens = k + 1 /\ read'.literals = a + ll
       /\ read'.offsets = Explicits(s, k + 1)
       /\ read'.extraLiteralLengths = LongLiterals(s, k + 1)
       /\ read'.extraMatchLengths = LongMatches(s, k + 1)
  BY <1>1, <1>3, <1>7, <1>9
<1>14. Len(output') + left' = MatchEnd(s, k + 1)
  BY <1>1, <1>7, <1>8, <1>9, <1>10
<1>15. left' <= MatchLength(s, k + 1) /\ k + 1 > 0
  BY <1>1, <1>2, <1>3, <1>7
<1> HIDE DEF s, k, piece
<1> QED
  BY <1>1, <1>3, <1>6, <1>8, <1>11, <1>12, <1>13, <1>14, <1>15 DEF ReadSoFar

\* A copied value is the one its position's match says.
LEMMA CopyValueMeans ==
  ASSUME MeaningInv, CopyValue
  PROVE  ReadSoFar'
<1> DEFINE s == streams
           k == read.tokens
<1>1. /\ decoding = "match" /\ output' = Append(output, CopySource) /\ left' = left - 1
      /\ decoding' = (IF left = 1 THEN "token" ELSE "match")
      /\ streams' = s /\ read' = read /\ repeats' = repeats /\ offset' = offset
  BY DEF CopyValue
<1>2. /\ TypeOK /\ ReadSoFar /\ s \in Streams
      /\ Len(s.tokens) \in Nat /\ Tokens(s) = 1..Len(s.tokens)
      /\ k \in Nat /\ k \in 0..Len(s.tokens) /\ LengthsKnown(s, k)
  BY <1>1, RunningFacts
<1>3. /\ k > 0 /\ offset = RecentOffsets(s)[k][1] /\ left <= MatchLength(s, k)
      /\ Len(output) + left = MatchEnd(s, k)
      /\ TokensFit(s, k) /\ OutputFollows(s, k, output)
  BY <1>1, <1>2 DEF ReadSoFar
<1>4. left > 0 /\ offset \in 1..Len(output)
  BY <1>1 DEF MeaningInv, DInv, CopySourceExists
<1>5. PICK o, f, m, d \in Nat :
        o = Len(output) /\ f = left /\ m = MatchLength(s, k) /\ d = offset
  <2>1. Len(output) \in Nat /\ left \in Nat
    BY <1>2, LengthsAreNaturals
  <2>2. MatchLength(s, k) \in Nat
    BY <1>2, <1>3 DEF LengthsKnown
  <2>3. offset \in Nat
    BY <1>2 DEF TypeOK
  <2> QED
    BY <2>1, <2>2, <2>3
<1>6. k \in 1..k /\ d \in 1..o /\ f > 0 /\ f <= m
  BY <1>2, <1>3, <1>4, <1>5
<1>7. PICK b \in Nat : b = MatchStart(s, k) /\ MatchEnd(s, k) = b + m
  BY <1>2, <1>5, <1>6, MatchesFollow
<1>8. b <= o /\ o < b + m /\ o + f = b + m
  BY <1>3, <1>5, <1>6, <1>7
<1>9. /\ output' \in Seq(Value) /\ Len(output') = o + 1
      /\ \A p \in 1..o : output'[p] = output[p]
      /\ output'[o + 1] = output[o + 1 - d]
  <2>1. output \in Seq(Value) /\ o - d + 1 \in 1..o /\ o - d + 1 = o + 1 - d
    BY <1>2, <1>6 DEF TypeOK
  <2>2. CopySource = output[o - d + 1]
    BY <1>5 DEF CopySource
  <2>3. CopySource \in Value
    BY <1>5, <2>1, <2>2, ElementOfSeq
  <2> QED
    BY <1>1, <1>5, <2>1, <2>2, <2>3
<1>10. OutputFollows(s, k, output')
  <2>1. SUFFICES ASSUME NEW j \in 1..k, NEW p \in 1..Len(output')
                 PROVE  /\ MatchEnd(s, j - 1) < p /\ p <= MatchStart(s, j) =>
                             output'[p] = s.literals[p - MatchedThrough(s, j - 1)]
                        /\ MatchStart(s, j) < p /\ p <= MatchEnd(s, j) =>
                             output'[p] = output'[p - RecentOffsets(s)[j][1]]
    BY DEF OutputFollows
  <2>2. PICK x, y, z \in Nat :
          /\ x = MatchStart(s, j) /\ y = MatchEnd(s, j) /\ z = RecentOffsets(s)[j][1]
          /\ z > 0 /\ z <= x
    <3>1. j \in 0..k /\ k \in 0..k
      BY <1>2, <2>1
    <3>2. MatchStart(s, j) \in Nat /\ MatchEnd(s, j) \in Nat
      BY <3>1, <1>2, MatchesFollow
    <3> QED
      BY <3>2, <1>3, <2>1 DEF TokensFit
  <2>3. CASE p \in 1..o
    <3>1. output'[p] = output[p]
      BY <1>9, <2>3
    <3>2. ASSUME MatchEnd(s, j - 1) < p, p <= MatchStart(s, j)
          PROVE  output'[p] = s.literals[p - MatchedThrough(s, j - 1)]
      BY <1>3, <1>5, <2>3, <3>1, <3>2, Zenon DEF OutputFollows
    <3>3. ASSUME MatchStart(s, j) < p, p <= MatchEnd(s, j)
          PROVE  output'[p] = output'[p - RecentOffsets(s)[j][1]]
      <4>1. p - z \in 1..o
        BY <2>2, <2>3, <3>3
      <4>2. output'[p - z] = output[p - z]
        BY <1>9, <4>1
      <4>3. output[p] = output[p - z]
        BY <1>3, <1>5, <2>2, <2>3, <3>3, Zenon DEF OutputFollows
      <4> QED
        BY <2>2, <3>1, <4>2, <4>3
    <3> QED
      BY <3>2, <3>3
  <2>4. CASE p = o + 1
    <3>1. CASE j = k
      <4>1. ~ (p <= MatchStart(s, j))
        BY <1>7, <1>8, <2>4, <3>1
      <4>2. z = d
        BY <1>3, <1>5, <2>2, <3>1, Zenon
      <4>3. p - z = o + 1 - d /\ p - z \in 1..o
        BY <1>6, <2>4, <4>2
      <4>4. output'[p] = output'[p - z]
        BY <1>9, <2>4, <4>3
      <4> QED
        BY <2>2, <4>1, <4>4
    <3>2. CASE j < k
      <4>1. j \in 0..(k - 1) /\ k - 1 \in 0..k /\ j \in 0..k /\ j \in 1..k
        BY <1>2, <2>1, <3>2
      <4>2. MatchEnd(s, j) <= MatchEnd(s, k - 1)
        BY <4>1, <1>2, MatchesFollow
      <4>3. /\ MatchStart(s, k) = MatchEnd(s, k - 1) + LiteralLength(s, k)
            /\ LiteralLength(s, k) \in Nat /\ MatchEnd(s, k - 1) \in Nat
        BY <4>1, <1>2, <1>6, MatchesFollow DEF LengthsKnown
      <4>4. y <= b
        BY <1>7, <2>2, <4>2, <4>3
      <4>5. x <= y
        <5>1. MatchEnd(s, j) = MatchStart(s, j) + MatchLength(s, j) /\ MatchLength(s, j) \in Nat
          BY <4>1, <1>2, MatchesFollow DEF LengthsKnown
        <5> QED
          BY <2>2, <5>1
      <4>6. ~ (p <= x) /\ ~ (p <= y)
        BY <1>8, <2>4, <4>4, <4>5
      <4> QED
        BY <2>2, <4>6
    <3> QED
      BY <1>2, <3>1, <3>2
  <2> QED
    BY <1>9, <2>3, <2>4
<1>11. Len(output') + left' = MatchEnd(s, k)
  BY <1>1, <1>3, <1>5, <1>9
<1>12. left' <= MatchLength(s, k)
  BY <1>1, <1>5, <1>6
<1>13. decoding' # "check"
  BY <1>1
<1> HIDE DEF s, k
<1> QED
  BY <1>1, <1>2, <1>3, <1>10, <1>11, <1>12, <1>13 DEF ReadSoFar, s, k

\* In the state the function is entered in nothing was read.
LEMMA MeaningInvInit ==
  ASSUME Init
  PROVE  MeaningInv
<1>1. /\ streams \in Streams /\ read.tokens = 0 /\ read.literals = 0 /\ read.offsets = 0
      /\ read.extraLiteralLengths = 0 /\ read.extraMatchLengths = 0
      /\ repeats = InitialRepeats /\ output = <<>> /\ left = 0 /\ decoding = "check"
  BY DEF Init, Entered, NothingRead
<1>2. DInv
  BY DInvInit
<1>3. Len(streams.tokens) \in Nat /\ Tokens(streams) = 1..Len(streams.tokens)
  <2>1. streams.tokens \in Seq(Token)
    BY <1>1 DEF Streams
  <2> HIDE DEF Token
  <2> QED
    BY <2>1 DEF Tokens
<1>4. LengthsKnown(streams, 0) /\ TokensFit(streams, 0) /\ OutputFollows(streams, 0, output)
  BY DEF LengthsKnown, TokensFit, OutputFollows
<1>5. LiteralsThrough(streams, 0) = 0 /\ MatchEnd(streams, 0) = 0
  <2>1. 0 \in 0..Len(streams.tokens)
    BY <1>3
  <2> QED
    BY <2>1, <1>3, <1>4, PositionsGrow, MatchesFollow
<1>6. /\ Explicits(streams, 0) = 0 /\ LongLiterals(streams, 0) = 0
      /\ LongMatches(streams, 0) = 0
  BY EntriesCounted
<1>7. RecentOffsets(streams)[0] = InitialRepeats
  BY <1>3, RecentOffsetsStep
<1>8. ReadSoFar
  BY <1>1, <1>4, <1>5, <1>6, <1>7 DEF ReadSoFar
<1> QED
  BY <1>1, <1>2, <1>8 DEF MeaningInv, AcceptsWellFormed, OutputIsMeaning

-----------------------------------------------------------------------------
\* What the decoder refuses, and what it returns

\* The limits checked first refuse no streams that describe the chunk.
LEMMA LimitsRefuseNone ==
  ASSUME TypeOK, aligned, WellFormed(streams, chunkLen)
  PROVE  WithinLimits
<1>1. streams \in Streams /\ chunkLen \in Nat
  BY LengthsAreNaturals DEF TypeOK
<1>2. /\ Len(streams.tokens) \in Nat
      /\ Len(streams.tokens) <= chunkLen /\ Len(streams.literals) <= chunkLen
      /\ Len(streams.offsets) = Explicits(streams, Len(streams.tokens))
      /\ Len(streams.extraLiteralLengths) = LongLiterals(streams, Len(streams.tokens))
      /\ Len(streams.extraMatchLengths) = LongMatches(streams, Len(streams.tokens))
  BY <1>1, WellFormedBounds
<1>3. /\ Explicits(streams, Len(streams.tokens)) \in 0..Len(streams.tokens)
      /\ LongLiterals(streams, Len(streams.tokens)) \in 0..Len(streams.tokens)
      /\ LongMatches(streams, Len(streams.tokens)) \in 0..Len(streams.tokens)
  BY <1>2, EntriesCounted
<1> QED
  BY <1>2, <1>3 DEF WithinLimits

\* Nor does any check of a token.
LEMMA TokenRefusesNone ==
  ASSUME MeaningInv, TokenLeft, WellFormed(streams, chunkLen)
  PROVE  AcceptsToken
<1> DEFINE s == streams
           k == read.tokens
<1>1. /\ TypeOK /\ ReadSoFar /\ s \in Streams /\ chunkLen \in Nat
      /\ Len(s.tokens) \in Nat /\ Tokens(s) = 1..Len(s.tokens)
      /\ k \in Nat /\ k \in 0..Len(s.tokens) /\ LengthsKnown(s, k)
      /\ left = 0
  BY RunningFacts, LengthsAreNaturals
     DEF TokenLeft, MeaningInv, DInv, NothingLeftBetweenMatches
<1>2. /\ k + 1 \in 1..Len(s.tokens) /\ k + 1 \in 0..Len(s.tokens) /\ (k + 1) - 1 = k
  BY <1>1 DEF TokenLeft
<1>3. /\ LengthsKnown(s, Len(s.tokens))
      /\ Len(s.offsets) = Explicits(s, Len(s.tokens))
      /\ Len(s.extraLiteralLengths) = LongLiterals(s, Len(s.tokens))
      /\ Len(s.extraMatchLengths) = LongMatches(s, Len(s.tokens))
      /\ ~ s.tokens[k + 1].reserved
      /\ RecentOffsets(s)[k + 1][1] \in 1..MatchStart(s, k + 1)
      /\ LiteralsThrough(s, k + 1) <= Len(s.literals)
      /\ MatchEnd(s, k + 1) <= chunkLen
  BY <1>1, <1>2, WellFormedBounds
<1>4. NextToken = s.tokens[k + 1]
  BY DEF NextToken
<1>5. /\ read.offsets = Explicits(s, k) /\ read.extraLiteralLengths = LongLiterals(s, k)
      /\ read.extraMatchLengths = LongMatches(s, k)
      /\ read.literals = LiteralsThrough(s, k) /\ Len(output) + left = MatchEnd(s, k)
  BY <1>1 DEF ReadSoFar
<1>6. ~ SideStreamUnderflow
  <2>1. /\ Explicits(s, k) \in Nat /\ LongLiterals(s, k) \in Nat
        /\ LongMatches(s, k) \in Nat
        /\ Explicits(s, k + 1) = Explicits(s, k) + (IF TakesOffset THEN 1 ELSE 0)
        /\ LongLiterals(s, k + 1)
             = LongLiterals(s, k) + (IF TakesExtraLiteral THEN 1 ELSE 0)
        /\ LongMatches(s, k + 1)
             = LongMatches(s, k) + (IF TakesExtraMatch THEN 1 ELSE 0)
    <3>1. /\ Explicits(s, k) \in 0..k /\ LongLiterals(s, k) \in 0..k
          /\ LongMatches(s, k) \in 0..k
      BY <1>1, EntriesCounted
    <3>2. /\ Explicits(s, k + 1) = Explicits(s, k) + (IF TakesOffset THEN 1 ELSE 0)
          /\ LongLiterals(s, k + 1)
               = LongLiterals(s, k) + (IF TakesExtraLiteral THEN 1 ELSE 0)
          /\ LongMatches(s, k + 1)
               = LongMatches(s, k) + (IF TakesExtraMatch THEN 1 ELSE 0)
      BY <1>1, <1>4, EntriesCounted DEF TakesOffset, TakesExtraLiteral, TakesExtraMatch
    <3> QED
      BY <1>1, <3>1, <3>2
  <2>2. /\ Explicits(s, k + 1) <= Len(s.offsets)
        /\ LongLiterals(s, k + 1) <= Len(s.extraLiteralLengths)
        /\ LongMatches(s, k + 1) <= Len(s.extraMatchLengths)
    BY <1>1, <1>2, <1>3, EntriesCounted
  <2>3. /\ Len(s.offsets) \in Nat /\ Len(s.extraLiteralLengths) \in Nat
        /\ Len(s.extraMatchLengths) \in Nat
    BY <1>1, LengthsAreNaturals
  <2>4. TakesOffset => ~ (read.offsets >= Len(s.offsets))
    BY <1>5, <2>1, <2>2, <2>3
  <2>5. TakesExtraLiteral => ~ (read.extraLiteralLengths >= Len(s.extraLiteralLengths))
    BY <1>5, <2>1, <2>2, <2>3
  <2>6. TakesExtraMatch => ~ (read.extraMatchLengths >= Len(s.extraMatchLengths))
    BY <1>5, <2>1, <2>2, <2>3
  <2> QED
    BY <2>4, <2>5, <2>6 DEF SideStreamUnderflow
<1>7. /\ LiteralLen = LiteralLength(s, k + 1) /\ MatchLen = MatchLength(s, k + 1)
      /\ LiteralLen \in Nat /\ MatchLen \in Nat
      /\ TokenOffset = RecentOffsets(s)[k + 1][1]
  BY <1>6, NextTokenMeans
<1>8. /\ LiteralsThrough(s, k + 1) = LiteralsThrough(s, k) + LiteralLen
      /\ MatchStart(s, k + 1) = Len(output) + LiteralLen
      /\ MatchEnd(s, k + 1) = (Len(output) + LiteralLen) + MatchLen
  <2>1. Len(s.tokens) \in 0..Len(s.tokens)
    BY <1>1
  <2>2. LiteralsThrough(s, k + 1) = LiteralsThrough(s, (k + 1) - 1) + LiteralLength(s, k + 1)
    BY <1>1, <1>2, <1>3, <2>1, PositionsGrow
  <2>3. /\ MatchStart(s, k + 1) = MatchEnd(s, (k + 1) - 1) + LiteralLength(s, k + 1)
        /\ MatchEnd(s, k + 1) = MatchStart(s, k + 1) + MatchLength(s, k + 1)
    BY <1>1, <1>2, <1>3, <2>1, MatchesFollow
  <2>4. Len(output) = MatchEnd(s, k)
    <3>1. Len(output) \in Nat
      BY <1>1, LengthsAreNaturals
    <3> QED
      BY <1>1, <1>5, <3>1
  <2> QED
    BY <1>2, <1>7, <2>2, <2>3, <2>4
<1>9. TokenOffset \in 1..(Len(output) + LiteralLen)
  BY <1>3, <1>7, <1>8
<1>10. TokenFits
  <2>1. TokenOffset # 0 /\ TokenOffset <= Len(output) + LiteralLen
    BY <1>9
  <2>2. read.literals + LiteralLen <= Len(s.literals)
    BY <1>3, <1>5, <1>8
  <2>3. (Len(output) + LiteralLen) + MatchLen <= chunkLen
    BY <1>3, <1>8
  <2> QED
    BY <2>1, <2>2, <2>3 DEF TokenFits
<1> QED
  BY <1>3, <1>4, <1>6, <1>10 DEF AcceptsToken

\* After the last token the final checks say just what the reference says of the
\* whole.
LEMMA FinalChecksExact ==
  ASSUME MeaningInv, decoding = "token", read.tokens = Len(streams.tokens)
  PROVE  /\ TrailingLiterals \in Seq(Value)
         /\ Len(TrailingLiterals) = Len(streams.literals) - read.literals
         /\ \A i \in 1..Len(TrailingLiterals) :
              TrailingLiterals[i] = streams.literals[read.literals + i]
         /\ FullyConsumed /\ Len(output) + Len(TrailingLiterals) = chunkLen
              <=> WellFormed(streams, chunkLen)
<1> DEFINE s == streams
           t == Len(streams.tokens)
<1>1. /\ TypeOK /\ ReadSoFar /\ s \in Streams /\ chunkLen \in Nat
      /\ t \in Nat /\ Tokens(s) = 1..t /\ t \in 0..t /\ LengthsKnown(s, t)
      /\ left = 0
  BY RunningFacts, LengthsAreNaturals DEF MeaningInv, DInv, NothingLeftBetweenMatches
<1>2. /\ read.offsets = Explicits(s, t) /\ read.extraLiteralLengths = LongLiterals(s, t)
      /\ read.extraMatchLengths = LongMatches(s, t)
      /\ read.literals = LiteralsThrough(s, t) /\ Len(output) + left = MatchEnd(s, t)
      /\ TokensFit(s, t)
  BY <1>1 DEF ReadSoFar
<1>3. PICK l, a, b, o \in Nat :
        /\ l = Len(s.literals) /\ a = LiteralsThrough(s, t) /\ b = MatchedThrough(s, t)
        /\ o = Len(output) /\ a <= l
  <2>1. LiteralsThrough(s, t) \in Nat /\ MatchedThrough(s, t) \in Nat
    BY <1>1, PositionsGrow
  <2>2. Len(s.literals) \in Nat /\ Len(output) \in Nat
    BY <1>1, LengthsAreNaturals
  <2>3. read.literals <= Len(s.literals)
    BY <1>1, CursorsInRange
  <2> QED
    BY <1>2, <2>1, <2>2, <2>3
<1>4. o = a + b
  BY <1>1, <1>2, <1>3 DEF MatchEnd
<1>5. /\ TrailingLiterals \in Seq(Value) /\ Len(TrailingLiterals) = l - a
      /\ \A i \in 1..(l - a) : TrailingLiterals[i] = s.literals[a + i]
  <2>1. s.literals \in Seq(Value)
    BY <1>1 DEF Streams
  <2>2. \A i \in (a + 1)..l : s.literals[i] \in Value
    BY <1>3, <2>1
  <2> DEFINE rest == SubSeq(s.literals, a + 1, l)
  <2>3. /\ rest \in Seq(Value)
        /\ Len(rest) = (IF a + 1 <= l THEN l - (a + 1) + 1 ELSE 0)
        /\ \A i \in 1..(l - (a + 1) + 1) : rest[i] = s.literals[(a + 1) + i - 1]
    BY <2>2, SubSeqProperties
  <2>4. TrailingLiterals = rest
    BY <1>2, <1>3 DEF TrailingLiterals
  <2> HIDE DEF rest
  <2>5. (IF a + 1 <= l THEN l - (a + 1) + 1 ELSE 0) = l - a /\ l - (a + 1) + 1 = l - a
    BY <1>3
  <2>6. \A i \in 1..(l - a) : (a + 1) + i - 1 = a + i
    OBVIOUS
  <2> QED
    BY <2>3, <2>4, <2>5, <2>6
<1>6. FullyConsumed <=> EntriesAreTaken(s)
  BY <1>2 DEF FullyConsumed, EntriesAreTaken, Explicits, LongLiterals, LongMatches
<1>7. Len(output) + Len(TrailingLiterals) = Len(s.literals) + MatchedThrough(s, t)
  BY <1>3, <1>4, <1>5, SMTT(30)
<1>8. /\ \A k \in Tokens(s) : ~ s.tokens[k].reserved
      /\ \A k \in Tokens(s) : RecentOffsets(s)[k][1] \in 1..MatchStart(s, k)
  BY <1>1, <1>2 DEF TokensFit
<1>9. FullyConsumed /\ Len(output) + Len(TrailingLiterals) = chunkLen
        <=> WellFormed(streams, chunkLen)
  BY <1>3, <1>6, <1>7, <1>8 DEF WellFormed
<1> QED
  BY <1>2, <1>3, <1>5, <1>9


\* The last step hands back what the streams mean.
LEMMA FinishMeans ==
  ASSUME MeaningInv, Finish
  PROVE  AcceptsWellFormed' /\ OutputIsMeaning'
<1> DEFINE s == streams
           t == Len(streams.tokens)
<1>1. /\ decoding = "token" /\ read.tokens = t /\ aligned
      /\ streams' = s /\ aligned' = aligned /\ chunkLen' = chunkLen
  BY DEF Finish, MeaningInv
<1>2. /\ TrailingLiterals \in Seq(Value)
      /\ Len(TrailingLiterals) = Len(s.literals) - read.literals
      /\ \A i \in 1..Len(TrailingLiterals) :
           TrailingLiterals[i] = s.literals[read.literals + i]
      /\ FullyConsumed /\ Len(output) + Len(TrailingLiterals) = chunkLen
           <=> WellFormed(s, chunkLen)
  BY <1>1, FinalChecksExact
<1>3. CASE WellFormed(s, chunkLen)
  <2>1. output' = output \o TrailingLiterals /\ decoding' = "done"
    <3>1. chunkLen \in Nat
      BY <1>1, LengthsAreNaturals DEF MeaningInv, DInv
    <3>2. chunkLen <= chunkLen
      BY <3>1
    <3> QED
      BY <1>2, <1>3, <3>2 DEF Finish
  <2>2. Len(output) + Len(TrailingLiterals) = chunkLen
    BY <1>2, <1>3
  <2>3. /\ TypeOK /\ ReadSoFar /\ s \in Streams /\ chunkLen \in Nat
        /\ t \in Nat /\ Tokens(s) = 1..t /\ t \in 0..t /\ LengthsKnown(s, t)
        /\ left = 0 /\ output \in Seq(Value)
    BY <1>1, RunningFacts, LengthsAreNaturals
       DEF MeaningInv, DInv, NothingLeftBetweenMatches, TypeOK
  <2>4. /\ read.literals = LiteralsThrough(s, t) /\ Len(output) + left = MatchEnd(s, t)
        /\ OutputFollows(s, t, output)
    BY <1>1, <2>3 DEF ReadSoFar
  <2>5. PICK a, b, o \in Nat :
          a = LiteralsThrough(s, t) /\ b = MatchedThrough(s, t) /\ o = Len(output)
    <3>1. LiteralsThrough(s, t) \in Nat /\ MatchedThrough(s, t) \in Nat
      BY <2>3, PositionsGrow
    <3> QED
      BY <2>3, <3>1
  <2>6. o = a + b /\ MatchEnd(s, t) = o
    BY <2>3, <2>4, <2>5 DEF MatchEnd
  <2>7. /\ output' \in Seq(Value) /\ Len(output') = chunkLen
        /\ \A p \in 1..chunkLen :
             output'[p] = IF p <= o THEN output[p] ELSE TrailingLiterals[p - o]
    <3>1. /\ output \o TrailingLiterals \in Seq(Value)
          /\ Len(output \o TrailingLiterals) = Len(output) + Len(TrailingLiterals)
          /\ \A p \in 1..(Len(output) + Len(TrailingLiterals)) :
               (output \o TrailingLiterals)[p]
                 = IF p <= Len(output) THEN output[p] ELSE TrailingLiterals[p - Len(output)]
      BY <1>2, <2>3, ConcatProperties
    <3> QED
      BY <2>1, <2>2, <2>5, <3>1
  <2>8. Len(TrailingLiterals) = chunkLen - o /\ o <= chunkLen
    <3>1. Len(TrailingLiterals) \in Nat
      BY <1>2, LenProperties
    <3> QED
      BY <2>2, <2>3, <2>5, <3>1
  <2>9. ASSUME NEW p \in 1..chunkLen, MatchEnd(s, t) < p
        PROVE  output'[p] = s.literals[p - MatchedThrough(s, t)]
    <3>1. p - o \in 1..Len(TrailingLiterals) /\ ~ (p <= o) /\ a + (p - o) = p - b
      BY <2>3, <2>6, <2>8, <2>9
    <3>2. TrailingLiterals[p - o] = s.literals[a + (p - o)]
      BY <1>2, <2>4, <2>5, <3>1
    <3> QED
      BY <2>5, <2>7, <3>1, <3>2
  <2>10. OutputFollows(s, t, output')
    <3>1. SUFFICES ASSUME NEW j \in 1..t, NEW p \in 1..Len(output')
                   PROVE  /\ MatchEnd(s, j - 1) < p /\ p <= MatchStart(s, j) =>
                               output'[p] = s.literals[p - MatchedThrough(s, j - 1)]
                          /\ MatchStart(s, j) < p /\ p <= MatchEnd(s, j) =>
                               output'[p] = output'[p - RecentOffsets(s)[j][1]]
      BY DEF OutputFollows
    <3>2. PICK x, y, z \in Nat :
            /\ x = MatchStart(s, j) /\ y = MatchEnd(s, j) /\ z = RecentOffsets(s)[j][1]
            /\ z > 0 /\ z <= x /\ x <= y /\ y <= o
      <4>1. j \in 0..t
        BY <2>3, <3>1
      <4>2. /\ MatchStart(s, j) \in Nat /\ MatchEnd(s, j) \in Nat
            /\ MatchEnd(s, j) <= MatchEnd(s, t)
            /\ MatchEnd(s, j) = MatchStart(s, j) + MatchLength(s, j)
            /\ MatchLength(s, j) \in Nat
        BY <4>1, <2>3, <3>1, MatchesFollow DEF LengthsKnown
      <4>3. RecentOffsets(s)[j][1] \in 1..MatchStart(s, j)
        BY <1>3, <2>3, <3>1, WellFormedBounds
      <4> QED
        BY <2>6, <4>2, <4>3
    <3>3. ASSUME p <= y PROVE p \in 1..o /\ p \in 1..Len(output) /\ output'[p] = output[p]
      BY <2>5, <2>7, <3>2, <3>3
    <3>4. ASSUME MatchEnd(s, j - 1) < p, p <= MatchStart(s, j)
          PROVE  output'[p] = s.literals[p - MatchedThrough(s, j - 1)]
      <4>1. p <= y
        BY <2>3, <2>7, <3>2, <3>4
      <4> QED
        BY <2>4, <3>3, <3>4, <4>1, Zenon DEF OutputFollows
    <3>5. ASSUME MatchStart(s, j) < p, p <= MatchEnd(s, j)
          PROVE  output'[p] = output'[p - RecentOffsets(s)[j][1]]
      <4>1. p \in 1..Len(output) /\ output'[p] = output[p]
        BY <3>2, <3>3, <3>5
      <4>2. p - z \in 1..o /\ p - z \in 1..chunkLen /\ p - z <= o
        <5>1. p \in Nat /\ p <= o /\ x < p
          BY <2>5, <3>2, <3>5, <4>1
        <5>2. p - z \in 1..o
          BY <3>2, <5>1
        <5>3. PICK q \in Nat : q = p - z /\ q \in 1..o
          BY <3>2, <5>2
        <5>4. PICK m \in Nat : m = chunkLen
          BY <2>3
        <5>5. q \in 1..m
          BY <2>8, <5>3, <5>4
        <5> QED
          BY <5>3, <5>4, <5>5
      <4>3. output'[p - z] = output[p - z]
        BY <2>7, <4>2
      <4>4. output[p] = output[p - z]
        BY <2>4, <3>2, <3>5, <4>1, Zenon DEF OutputFollows
      <4> QED
        BY <3>2, <4>1, <4>3, <4>4
    <3> QED
      BY <3>4, <3>5
  <2>11. output' = Meaning(s, chunkLen)
    BY <1>3, <2>3, <2>7, <2>9, <2>10, MeaningIsUnique
  <2> QED
    BY <1>1, <1>3, <2>1, <2>11 DEF AcceptsWellFormed, OutputIsMeaning
<1>4. CASE ~ WellFormed(s, chunkLen)
  <2>1. decoding' = "error"
    BY <1>2, <1>4 DEF Finish
  <2> QED
    BY <1>1, <1>4, <2>1 DEF AcceptsWellFormed, OutputIsMeaning
<1> QED
  BY <1>3, <1>4

\* Every step of the decoder keeps what it knows of the meaning.
LEMMA MeaningInvNext ==
  ASSUME MeaningInv, [Next]_decoderVars
  PROVE  MeaningInv'
<1>1. DInv'
  BY DInvNext DEF MeaningInv
<1>2. CASE CheckLimits
  <2>1. /\ decoding = "check" /\ decoding' = (IF WithinLimits THEN "token" ELSE "error")
        /\ UNCHANGED <<streams, aligned, chunkLen, read, repeats, output, offset, left>>
    BY <1>2 DEF CheckLimits
  <2>2. decoding' = "token" => ReadSoFar' /\ aligned
    BY <2>1 DEF MeaningInv, ReadSoFar, WithinLimits
  <2>3. AcceptsWellFormed'
    <3>1. aligned /\ WellFormed(streams, chunkLen) => WithinLimits
      BY LimitsRefuseNone DEF MeaningInv, DInv
    <3> QED
      BY <2>1, <3>1 DEF AcceptsWellFormed
  <2>4. decoding' \in {"token", "error"}
    BY <2>1
  <2> QED
    BY <1>1, <2>1, <2>2, <2>3, <2>4 DEF MeaningInv, OutputIsMeaning
<1>3. CASE ReadToken
  <2>1. ReadSoFar'
    BY <1>3, ReadTokenMeans
  <2>2. decoding' = "match" /\ aligned' = aligned /\ aligned
    BY <1>3 DEF ReadToken, TokenLeft, MeaningInv
  <2> QED
    BY <1>1, <2>1, <2>2 DEF MeaningInv, AcceptsWellFormed, OutputIsMeaning
<1>4. CASE RejectToken
  <2>1. /\ TokenLeft /\ ~ AcceptsToken /\ decoding' = "error"
        /\ UNCHANGED <<streams, aligned, chunkLen>>
    BY <1>4 DEF RejectToken
  <2>2. ~ WellFormed(streams, chunkLen)
    BY <2>1, TokenRefusesNone
  <2> QED
    BY <1>1, <2>1, <2>2 DEF MeaningInv, AcceptsWellFormed, OutputIsMeaning
<1>5. CASE CopyValue
  <2>1. ReadSoFar'
    BY <1>5, CopyValueMeans
  <2>2. decoding' \in {"token", "match"} /\ aligned' = aligned /\ aligned
    BY <1>5 DEF CopyValue, MeaningInv
  <2> QED
    BY <1>1, <2>1, <2>2 DEF MeaningInv, AcceptsWellFormed, OutputIsMeaning
<1>6. CASE Finish
  <2>1. AcceptsWellFormed' /\ OutputIsMeaning'
    BY <1>6, FinishMeans
  <2>2. decoding' \in {"done", "error"} /\ aligned' = aligned /\ aligned
    BY <1>6 DEF Finish, MeaningInv
  <2> QED
    BY <1>1, <2>1, <2>2 DEF MeaningInv
<1>7. CASE DecoderReturned \/ UNCHANGED decoderVars
  <2>1. UNCHANGED decoderVars
    BY <1>7 DEF DecoderReturned
  <2>2. /\ UNCHANGED <<streams, aligned, chunkLen, read, repeats, output>>
        /\ UNCHANGED <<offset, left, decoding>>
    BY <2>1 DEF decoderVars
  <2> QED
    BY <1>1, <2>2 DEF MeaningInv, ReadSoFar, AcceptsWellFormed, OutputIsMeaning
<1> QED
  BY <1>2, <1>3, <1>4, <1>5, <1>6, <1>7 DEF Next, DecoderStep

-----------------------------------------------------------------------------
\* Theorems

\* The strengthened invariant holds in every state, on any streams.
THEOREM DecoderInvariant == Spec => []DInv
<1>1. Init => DInv
  BY DInvInit
<1>2. DInv /\ [Next]_decoderVars => DInv'
  BY DInvNext
<1> QED
  BY <1>1, <1>2, PTL DEF Spec

\* The cursors never pass the ends of their streams and all values keep their
\* types.
THEOREM DecoderTypes == Spec => []TypeOK
<1>1. DInv => TypeOK
  BY DEF DInv
<1> QED
  BY <1>1, DecoderInvariant, PTL

\* On any streams the output stays within the chunk, with what a match still has
\* to copy, for as long as the call runs and when it succeeds; a token that is
\* refused after its literals were appended leaves it below twice the chunk.
THEOREM OutputBounded == Spec => []OutputIsBounded
<1>1. DInv => OutputIsBounded
  BY DEF DInv
<1> QED
  BY <1>1, DecoderInvariant, PTL

\* output[output.len() - offset] is never out of range, and no offset in reach
\* is ever zero.
THEOREM CopyNeverPanics == Spec => []CopySourceExists
<1>1. DInv => CopySourceExists
  BY DEF DInv
<1> QED
  BY <1>1, DecoderInvariant, PTL

\* In every state the cursors, the offsets and the output are where the
\* reference says the tokens read so far have left them.
THEOREM DecoderMeaning == Spec => []MeaningInv
<1>1. Init => MeaningInv
  BY MeaningInvInit
<1>2. MeaningInv /\ [Next]_decoderVars => MeaningInv'
  BY MeaningInvNext
<1> QED
  BY <1>1, <1>2, PTL DEF Spec

\* repeated_offsets is the move-to-front history of the tokens read.
THEOREM RepeatsRecent == Spec => []RepeatsAreRecent
<1>1. MeaningInv => RepeatsAreRecent
  BY DEF MeaningInv, ReadSoFar, RepeatsAreRecent
<1> QED
  BY <1>1, DecoderMeaning, PTL

\* decode_side_streams accepts exactly the streams the format calls well formed.
THEOREM DecoderAccepts == Spec => []AcceptsWellFormed
<1>1. MeaningInv => AcceptsWellFormed
  BY DEF MeaningInv
<1> QED
  BY <1>1, DecoderMeaning, PTL

\* What it returns is what they mean.
THEOREM DecoderCorrect == Spec => []OutputIsMeaning
<1>1. MeaningInv => OutputIsMeaning
  BY DEF MeaningInv
<1> QED
  BY <1>1, DecoderMeaning, PTL

=============================================================================
