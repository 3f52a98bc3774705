--------------------------- MODULE FieldLzReference ---------------------------
(***************************************************************************)
(* What five side streams mean, written without a decoder: which streams   *)
(* are well formed for a chunk of n elements, and which n values they      *)
(* stand for.  It is the abstract counterpart of decode_side_streams in    *)
(* src/field_lz.rs: no cursor, no order of checks, no element copied one   *)
(* at a time.  The encoder and the decoder are both checked against it.    *)
(***************************************************************************)
EXTENDS FieldLzFormat

Tokens(s) == DOMAIN s.tokens

\* The tokens, up to the k-th, that take an entry of a side stream.
ExplicitUpTo(s, k) == {j \in 1..k : s.tokens[j].offsetCode = 3}
LongLiteralUpTo(s, k) == {j \in 1..k : s.tokens[j].literalCode = CodeMax}
LongMatchUpTo(s, k) == {j \in 1..k : s.tokens[j].matchCode = CodeMax}

\* Every side stream holds exactly the entries its tokens call for.
EntriesAreTaken(s) ==
  LET k == Len(s.tokens)
  IN  /\ Len(s.offsets) = Cardinality(ExplicitUpTo(s, k))
      /\ Len(s.extraLiteralLengths) = Cardinality(LongLiteralUpTo(s, k))
      /\ Len(s.extraMatchLengths) = Cardinality(LongMatchUpTo(s, k))

LiteralLength(s, k) ==
  IF s.tokens[k].literalCode < CodeMax
  THEN s.tokens[k].literalCode
  ELSE CodeMax + s.extraLiteralLengths[Cardinality(LongLiteralUpTo(s, k))]

MatchLength(s, k) ==
  IF s.tokens[k].matchCode < CodeMax
  THEN 1 + s.tokens[k].matchCode
  ELSE 1 + CodeMax + s.extraMatchLengths[Cardinality(LongMatchUpTo(s, k))]

\* Three recent offsets and, for code 3, a fourth just read: the one chosen
\* moves to the front and the oldest falls off.
MoveToFront(recent, code) ==
  <<recent[code + 1]>> \o
  SubSeq(SubSeq(recent, 1, code) \o SubSeq(recent, code + 2, 4), 1, 2)

\* The offsets in reach after each token; the first is the one it used.
RecentOffsets(s) ==
  LET read(k) == IF s.tokens[k].offsetCode = 3
                 THEN s.offsets[Cardinality(ExplicitUpTo(s, k))]
                 ELSE 0
      after[k \in 0..Len(s.tokens)] ==
        IF k = 0 THEN InitialRepeats
        ELSE MoveToFront(Append(after[k - 1], read(k)), s.tokens[k].offsetCode)
  IN  after

\* The sums of the first 0, 1, ... n numbers of a list.
PartialSums(n, list) ==
  LET sum[k \in 0..n] == IF k = 0 THEN 0 ELSE sum[k - 1] + list[k]
  IN  sum

\* Values the first k tokens take from the literals, and copy.
LiteralsThrough(s, k) ==
  PartialSums(Len(s.tokens), [j \in Tokens(s) |-> LiteralLength(s, j)])[k]
MatchedThrough(s, k) ==
  PartialSums(Len(s.tokens), [j \in Tokens(s) |-> MatchLength(s, j)])[k]

\* The match of token k covers MatchStart(s, k) .. MatchEnd(s, k) - 1.
MatchStart(s, k) == LiteralsThrough(s, k) + MatchedThrough(s, k - 1)
MatchEnd(s, k) == LiteralsThrough(s, k) + MatchedThrough(s, k)

\* s describes exactly n values.
WellFormed(s, n) ==
  /\ \A k \in Tokens(s) : ~ s.tokens[k].reserved
  /\ EntriesAreTaken(s)
  /\ LiteralsThrough(s, Len(s.tokens)) <= Len(s.literals)
  /\ Len(s.literals) + MatchedThrough(s, Len(s.tokens)) = n
  /\ \A k \in Tokens(s) : RecentOffsets(s)[k][1] \in 1..MatchStart(s, k)

\* The n values a well-formed s describes: a position inside a match is the
\* value its offset points back to, any other is the next literal.
Meaning(s, n) ==
  LET recent == RecentOffsets(s)
      covering(p) == {k \in Tokens(s) : MatchStart(s, k) < p /\ p <= MatchEnd(s, k)}
      before(p) == {k \in Tokens(s) : MatchEnd(s, k) < p}
      value[p \in 1..n] ==
        IF covering(p) = {}
        THEN s.literals[p - MatchedThrough(s, Cardinality(before(p)))]
        ELSE value[p - recent[CHOOSE k \in covering(p) : TRUE][1]]
  IN  [p \in 1..n |-> value[p]]

=============================================================================
