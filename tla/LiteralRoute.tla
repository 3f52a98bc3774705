----------------------------- MODULE LiteralRoute -----------------------------
(***************************************************************************)
(* encode_literal_side_stream_route of src/frame.rs and its inverses: the  *)
(* literal stream becomes a dictionary with one-byte codes, else one with  *)
(* two-byte codes, else four byte lanes (src/transpose.rs), else stays as  *)
(* it is; the decoder's transforms bring it back.                          *)
(*                                                                         *)
(* A value is the tuple of its bytes, lowest first.  Whether a dictionary  *)
(* saves enough depends on compressed sizes: it may be turned down.        *)
(***************************************************************************)
EXTENDS LiteralDict, FiniteSets

CONSTANTS
  Byte,            \* values of a byte
  ByteMax,         \* 0xff
  LaneCount,       \* U32_WIDTH
  LargeStream,     \* elements of a stream that is split on weaker signs
  SmallAlphabet, WideAlphabet, TinyAlphabet,   \* 16, 32 and 4 distinct bytes
  Pending          \* no literals decoded yet

ASSUME RouteAssumption ==
  /\ LaneCount \in Nat \ {0, 1}
  /\ Value \subseteq [1..LaneCount -> Byte]
  /\ {0, ByteMax} \subseteq Byte
  /\ Pending \notin Literals

VARIABLES
  route,      \* "choosing", then "dict", "split" or "raw"
  restored    \* the literals the decoder gets back

vars == <<dictVars, route, restored>>

Codec == INSTANCE LosslessCodec WITH
           Source <- Literals,
           result <- restored

Init ==
  /\ DictInit
  /\ route = "choosing"
  /\ restored = Pending

-----------------------------------------------------------------------------
\* src/transpose.rs

Alphabet(lane) == Cardinality({source[i][lane] : i \in DOMAIN source})

\* Both high bytes are 0x00, or both 0xff.
StableHighPairs ==
  Cardinality({i \in DOMAIN source :
                 \E b \in {0, ByteMax} :
                   source[i][LaneCount - 1] = b /\ source[i][LaneCount] = b})

\* should_try_literal_split4
ShouldTrySplit ==
  /\ Len(source) >= MinLiterals
  /\ \/ StableHighPairs * 2 >= Len(source)
     \/ Alphabet(LaneCount - 1) <= SmallAlphabet /\ Alphabet(LaneCount) <= SmallAlphabet
     \/ /\ Len(source) >= LargeStream
        /\ Alphabet(LaneCount - 1) <= WideAlphabet
        /\ Alphabet(LaneCount) <= TinyAlphabet
     \/ Cardinality({lane \in 1..LaneCount : Alphabet(lane) <= TinyAlphabet}) >= 2

EncodeSplit(s) == [lane \in 1..LaneCount |-> [i \in DOMAIN s |-> s[i][lane]]]

\* Faulty variant: the bytes of a value come back highest first.
DecodeSplitReversed(lanes) ==
  [i \in DOMAIN lanes[1] |-> [lane \in 1..LaneCount |-> lanes[LaneCount + 1 - lane][i]]]

DecodeSplit(lanes) ==
  [i \in DOMAIN lanes[1] |-> [lane \in 1..LaneCount |-> lanes[lane][i]]]

-----------------------------------------------------------------------------

Build ==
  /\ route = "choosing"
  /\ BuildStep
  /\ UNCHANGED <<route, restored>>

TakeDictionary ==
  /\ route = "choosing"
  /\ building = "candidate"
  /\ route' = "dict"
  /\ UNCHANGED <<dictVars, restored>>

\* None, or not small enough: try two-byte codes, then the other routes.
TryWiderCodes ==
  /\ route = "choosing"
  /\ building \in {"candidate", "none"}
  /\ width = 1
  /\ CallBuild(2)
  /\ UNCHANGED <<route, restored>>

PassDictionary ==
  /\ route = "choosing"
  /\ building \in {"candidate", "none"}
  /\ width = 2
  /\ route' = IF ShouldTrySplit THEN "split" ELSE "raw"
  /\ UNCHANGED <<dictVars, restored>>

\* The transform the decoder finds in the map.
Restore ==
  /\ route # "choosing"
  /\ restored = Pending
  /\ route = "dict" => DecodeAccepts(values, codes)
  /\ restored' = CASE route = "dict" -> Decode(values, codes)
                   [] route = "split" -> DecodeSplit(EncodeSplit(source))
                   [] route = "raw" -> source
  /\ UNCHANGED <<dictVars, route>>

Returned == restored # Pending /\ UNCHANGED vars

Next ==
  \/ Build
  \/ TakeDictionary
  \/ TryWiderCodes
  \/ PassDictionary
  \/ Restore
  \/ Returned

Spec == Init /\ [][Next]_vars /\ WF_vars(Next)

-----------------------------------------------------------------------------
\* Properties

\* Whichever route a literal stream takes, and whatever a first dictionary
\* that was turned down left behind, the decoder gets the same literals.
RouteIsLossless == Codec!FairSpec

=============================================================================
