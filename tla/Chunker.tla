------------------------------- MODULE Chunker -------------------------------
(***************************************************************************)
(* choose_chunk_ranges and choose_adaptive_chunk_end of src/frame.rs: the  *)
(* input is cut into ranges, each one chunk of the frame.  A window of     *)
(* MaxChunk values is one range unless its first DictCap distinct values   *)
(* cover a long head and a long tail is left; then the head is a range of  *)
(* its own, and from there on ranges are RefinedChunk long.                *)
(*                                                                         *)
(* Positions are 0-based as in the code: input[p + 1] is at position p.    *)
(***************************************************************************)
EXTENDS FrameFormat, FiniteSets

CONSTANTS
  Input,          \* the inputs compress_u32 may be called with
  RefinedChunk,   \* LITERAL_DICT_REFINED_CHUNK_ELEMENTS
  DictCap,        \* values a one-byte dictionary holds (256)
  MinHead,        \* LITERAL_DICT_U8_ADAPTIVE_MIN_ELEMENTS
  MinTail         \* LITERAL_DICT_ADAPTIVE_MIN_TAIL_ELEMENTS

ASSUME ChunkerAssumption ==
  /\ Input \subseteq Seq(Value)
  /\ RefinedChunk \in Nat \ {0}
  /\ RefinedChunk <= MaxChunk
  /\ DictCap \in Nat \ {0}
  /\ MinHead \in Nat
  /\ DictCap < MinHead
  /\ MinTail \in Nat \ {0}

VARIABLES
  input,     \* input
  start,     \* start
  refined,   \* use_refined_chunks
  ranges     \* ranges; `cut` is history: the range is an adaptive head

chunkerVars == <<input, start, refined, ranges>>

ChunkRange == [first : Nat, past : Nat, cut : BOOLEAN]

ChunkerInit ==
  /\ input \in Input
  /\ start = 0
  /\ refined = FALSE
  /\ ranges = <<>>

-----------------------------------------------------------------------------

Smaller(a, b) == IF a <= b THEN a ELSE b

ValuesIn(first, past) == {input[p + 1] : p \in first..(past - 1)}

HardEnd == Smaller(Len(input), start + (IF refined THEN RefinedChunk ELSE MaxChunk))

\* Faulty variant: the value that no longer fits goes with the head.
CutPositionsPastOverflow ==
  {cut \in (start + 1)..(HardEnd - 1) :
     /\ Cardinality(ValuesIn(start, cut - 1)) = DictCap
     /\ input[cut] \notin ValuesIn(start, cut - 1)
     /\ cut - start >= MinHead
     /\ HardEnd - cut >= MinTail}

\* Faulty variant: the position within the window is taken for one in the
\* input.  Only a cut after a full first window shows the difference.
CutPositionsInWindow ==
  {cut - start : cut \in {c \in start..(HardEnd - 1) :
     /\ Cardinality(ValuesIn(start, c)) = DictCap
     /\ input[c + 1] \notin ValuesIn(start, c)
     /\ c - start >= MinHead
     /\ HardEnd - c >= MinTail}}

\* Where the first value beyond DictCap distinct ones stands, if the head
\* before it and the rest of the window are both long enough.  There is at
\* most one such position; the code stops at the first one.
CutPositions ==
  {cut \in start..(HardEnd - 1) :
     /\ Cardinality(ValuesIn(start, cut)) = DictCap
     /\ input[cut + 1] \notin ValuesIn(start, cut)
     /\ cut - start >= MinHead
     /\ HardEnd - cut >= MinTail}

AddRange(past, cut) ==
  /\ ranges' = Append(ranges, [first |-> start, past |-> past, cut |-> cut])
  /\ start' = past
  /\ refined' = (refined \/ cut)
  /\ UNCHANGED input

CutHead ==
  /\ start < Len(input)
  /\ ~ refined
  /\ \E cut \in CutPositions : AddRange(cut, TRUE)

TakeWindow ==
  /\ start < Len(input)
  /\ refined \/ CutPositions = {}
  /\ AddRange(HardEnd, FALSE)

ChunkerStep == CutHead \/ TakeWindow

ChunkerSpec == ChunkerInit /\ [][ChunkerStep]_chunkerVars

-----------------------------------------------------------------------------
\* Properties

\* The ranges follow one another from position 0 to start, without gap or
\* overlap, and never past the input; none is empty and none is longer than
\* the decoder allows.
RangesTileInput ==
  /\ start \in 0..Len(input)
  /\ ranges \in Seq(ChunkRange)
  /\ ranges = <<>> => start = 0
  /\ ranges # <<>> => ranges[1].first = 0 /\ ranges[Len(ranges)].past = start
  /\ \A i \in DOMAIN ranges :
       /\ ranges[i].first < ranges[i].past
       /\ ranges[i].past <= ranges[i].first + MaxChunk
       /\ i > 1 => ranges[i].first = ranges[i - 1].past

\* What a cut is for: its head is the longest whose values one-byte codes
\* can name, and some value in it repeats.  A cut happens once, after full
\* windows only; from then on the flag is set and ranges are refined ones.
CutHeadFitsCode ==
  /\ refined = \E i \in DOMAIN ranges : ranges[i].cut
  /\ \A i \in DOMAIN ranges :
       LET r == ranges[i]
       IN r.cut =>
            /\ Cardinality(ValuesIn(r.first, r.past)) = DictCap
            /\ Cardinality(ValuesIn(r.first, r.past + 1)) > DictCap
            /\ r.past - r.first > DictCap
            /\ \A j \in 1..(i - 1) :
                 ~ ranges[j].cut /\ ranges[j].past = ranges[j].first + MaxChunk
            /\ \A j \in (i + 1)..Len(ranges) :
                 ~ ranges[j].cut /\ ranges[j].past <= ranges[j].first + RefinedChunk

=============================================================================
