----------------------------- MODULE LiteralDict -----------------------------
(***************************************************************************)
(* build_candidate and decode of src/literal_dict.rs: a table of the       *)
(* distinct literals in the order they are met, and for each literal the   *)
(* index of its value as a one- or two-byte code.                          *)
(*                                                                         *)
(* Abstractions.  Literals are values, not four bytes each, and a code is  *)
(* the number its bytes spell, so that the checks on byte lengths being    *)
(* multiples of a width always hold.  The hash map is the table read       *)
(* backwards.                                                              *)
(***************************************************************************)
EXTENDS Integers, Sequences

CONSTANTS
  Value,           \* u32 values
  Literals,        \* the literal streams FieldLZ may leave
  CodeSpan,        \* codes of each width: 256 for 1, 65536 for 2
  MinLiterals,     \* literals in 256 bytes
  EarlyDistinct,   \* U16_EARLY_CHECK_DISTINCT_VALUES
  EarlyMinDuplicates   \* U16_EARLY_CHECK_MIN_DUPLICATE_OCCURRENCES

ASSUME DictAssumption ==
  /\ Literals \subseteq Seq(Value)
  /\ CodeSpan \in [{1, 2} -> Nat \ {0}]
  /\ MinLiterals \in Nat \ {0}
  /\ EarlyDistinct \in Nat
  /\ EarlyMinDuplicates \in Nat

VARIABLES
  source,    \* bytes: the literals
  width,     \* code_width
  values,    \* values: the table
  codes,     \* dict_ord, one entry a literal read so far
  building   \* "scanning", "candidate" (Some) or "none" (None)

dictVars == <<source, width, values, codes, building>>

\* A call of build_candidate with codes of w bytes.
CallBuild(w) ==
  /\ width' = w
  /\ values' = <<>>
  /\ codes' = <<>>
  /\ building' = "scanning"
  /\ UNCHANGED source

DictInit ==
  /\ source \in Literals
  /\ width = 1
  /\ values = <<>>
  /\ codes = <<>>
  /\ building = "scanning"

-----------------------------------------------------------------------------

\* index as u8, index as u16: what does not fit is cut off.
Code(index) == index % CodeSpan[width]

\* Faulty variant: the table may hold one value more than there are codes.
TableIsFullLate == Len(values) > CodeSpan[width]

TableIsFull == Len(values) = CodeSpan[width]

\* u16_candidate_should_continue, asked only when the table grew.
ShouldContinue(elements, distinct) ==
  \/ width = 1
  \/ distinct # EarlyDistinct
  \/ elements - distinct >= EarlyMinDuplicates

Scanning ==
  /\ building = "scanning"
  /\ Len(source) >= MinLiterals
  /\ Len(codes) < Len(source)

NextLiteral == source[Len(codes) + 1]

KnownAt == {i \in DOMAIN values : values[i] = NextLiteral}

CodeKnown ==
  /\ Scanning
  /\ \E i \in KnownAt : codes' = Append(codes, Code(i - 1))
  /\ UNCHANGED <<source, width, values, building>>

CodeNew ==
  /\ Scanning
  /\ KnownAt = {}
  /\ ~ TableIsFull
  /\ ShouldContinue(Len(codes) + 1, Len(values) + 1)
  /\ values' = Append(values, NextLiteral)
  /\ codes' = Append(codes, Code(Len(values)))
  /\ UNCHANGED <<source, width, building>>

\* No dictionary: too few literals, no code left, or too few repetitions
\* half way.
GiveUp ==
  /\ building = "scanning"
  /\ \/ Len(source) < MinLiterals
     \/ /\ Scanning
        /\ KnownAt = {}
        /\ TableIsFull \/ ~ ShouldContinue(Len(codes) + 1, Len(values) + 1)
  /\ building' = "none"
  /\ UNCHANGED <<source, width, values, codes>>

\* A table as long as the stream saves nothing.
Complete ==
  /\ building = "scanning"
  /\ Len(source) >= MinLiterals
  /\ Len(codes) = Len(source)
  /\ building' = IF Len(values) < Len(source) THEN "candidate" ELSE "none"
  /\ UNCHANGED <<source, width, values, codes>>

BuildStep ==
  \/ CodeKnown
  \/ CodeNew
  \/ GiveUp
  \/ Complete

DictSpec == DictInit /\ [][BuildStep]_dictVars

-----------------------------------------------------------------------------
\* decode

DecodeAccepts(table, ords) == \A k \in DOMAIN ords : ords[k] < Len(table)

Decode(table, ords) == [k \in DOMAIN ords |-> table[ords[k] + 1]]

-----------------------------------------------------------------------------
\* Properties

\* At every step, for either width, the codes written so far name the
\* literals read so far; the table has no value twice, no value that was not
\* met, and no more values than there are codes.
CodesNameLiterals ==
  /\ width \in {1, 2}
  /\ Len(values) <= CodeSpan[width]
  /\ Len(codes) <= Len(source)
  /\ \A k \in DOMAIN codes : codes[k] < Len(values) /\ values[codes[k] + 1] = source[k]
  /\ \A i \in DOMAIN values :
       /\ \E k \in DOMAIN codes : source[k] = values[i]
       /\ \A j \in DOMAIN values : values[i] = values[j] => i = j

=============================================================================
