-------------------------- MODULE MCFieldLzDecoder --------------------------
(***************************************************************************)
(* Instance of FieldLzDecoder for TLC.  The decoder never compares values, *)
(* so the literals are numbered by position: an output that mixes up any   *)
(* two of them is a different output.  MCInit is Init on the streams named *)
(* below.                                                                  *)
(***************************************************************************)
EXTENDS FieldLzDecoder, SequencesExt

\* Longest literal stream, and the entries offsets and extras are drawn from.
MCLiterals == 4
MCOffset == 0..3
MCExtra == 0..1

Numbered(n) == [j \in 1..n |-> j]

MCValue == 1..MCLiterals

\* Every token of two-valued length codes; only one has a reserved bit set.
MCToken ==
  [offsetCode : 0..3, literalCode : 0..CodeMax, matchCode : 0..CodeMax,
   reserved : {FALSE}]
  \cup
  {[offsetCode |-> 0, literalCode |-> 1, matchCode |-> 0, reserved |-> TRUE]}

\* Entries a side stream of token sequence t needs, off by d.
Needed(t, Takes(_), d) ==
  LET n == Cardinality({k \in DOMAIN t : Takes(t[k])}) + d
  IN  IF n < 0 THEN 0 ELSE n

\* The streams are made of tokens t, as many literals as lits allows, and as
\* many entries in the other streams as t needs, off by d.
StreamsOf(t, lits, offs, extras, d) ==
  \E n  \in lits,
     o  \in [1..Needed(t, LAMBDA x : x.offsetCode = 3, d[1]) -> offs],
     el \in [1..Needed(t, LAMBDA x : x.literalCode = CodeMax, d[2]) -> extras],
     em \in [1..Needed(t, LAMBDA x : x.matchCode = CodeMax, d[3]) -> extras] :
       streams = [literals |-> Numbered(n), tokens |-> t, offsets |-> o,
                  extraLiteralLengths |-> el, extraMatchLengths |-> em]

\* Up to two tokens of every kind, with the entries they call for.
AllPairs ==
  \E t \in BoundedSeq(MCToken, 2) :
    StreamsOf(t, 0..MCLiterals, MCOffset, MCExtra, <<0, 0, 0>>)

\* One side stream a single entry too long or too short.
OffByOne ==
  \E t \in BoundedSeq(MCToken, 2),
     d \in {<<1, 0, 0>>, <<-1, 0, 0>>, <<0, 1, 0>>,
            <<0, -1, 0>>, <<0, 0, 1>>, <<0, 0, -1>>} :
    StreamsOf(t, {2}, {1}, {0}, d)

\* Up to four tokens after four literals, every mix of offset codes: the
\* repeat offsets go through every permutation.
RepeatChains ==
  LET header(lits) == [offsetCode : 0..3, literalCode : {lits},
                       matchCode : {0}, reserved : {FALSE}]
  IN  \E t1 \in header(1), rest \in SeqOf(header(0), 3) :
        StreamsOf(<<t1>> \o rest, {4}, 1..3, {3}, <<0, 0, 0>>)

MCInit ==
  /\ AllPairs \/ OffByOne \/ RepeatChains
  /\ Entered

MCSpec == MCInit /\ [][Next]_decoderVars

=============================================================================
