----------------------------- MODULE PlannedChunk -----------------------------
(***************************************************************************)
(* The planner of SideStreamPlanner composed with the chunk decoder of     *)
(* DecodingMap: serialize_field_lz_side_streams writes what was planned,   *)
(* decode_chunk_encoding reads it back record by record.                   *)
(*                                                                         *)
(* The steps of the decoder are those of DecodingMap, restricted to read   *)
(* what the planner wrote.  DecodingMap lets a codec refuse any payload    *)
(* and return anything; here `contents` says what every slot holds, and a  *)
(* codec refuses or decodes what it is really given.                       *)
(***************************************************************************)
EXTENDS SideStreamPlanner

CONSTANTS
  MaxSlots,        \* RUNTIME_STREAM_LIMIT
  MaxTransforms,   \* RUNTIME_TRANSFORM_LIMIT
  Width            \* element widths a stream may be given

VARIABLES
  status, header, slots, storedRead, log, inputsOf,   \* DecodingMap
  contents                                            \* payload of each filled slot

mapVars == <<status, header, slots, storedRead, log, inputsOf>>
vars == <<planVars, mapVars, contents>>


Map == INSTANCE DecodingMap

ASSUME ComposedAssumption == Map!MapAssumption

\* The limits leave room for the longest plan: four lanes and four streams
\* compressed, each with a record, then transpose_split4, field_lz, delta_int.
ASSUME LimitsAssumption == MaxSlots >= 19 /\ MaxTransforms >= 11

MaxChunkBytes == U32Width * MaxChunk

Init ==
  /\ PlanInit
  /\ Map!Init
  /\ contents = [s \in {} |-> Garbage]

Plan == PlanStep /\ UNCHANGED <<mapVars, contents>>

Filled(s, payload) ==
  [i \in DOMAIN contents \cup {s} |-> IF i = s THEN payload ELSE contents[i]]

-----------------------------------------------------------------------------
\* What the codecs make of the payloads they are given

Rebuilt(means, bytes) == [means |-> means, bytes |-> bytes, zstd |-> FALSE]

Given(rec) == [k \in DOMAIN rec.ins |-> contents[rec.ins[k]]]

\* The checks the codecs make on lengths and on their private header.
CodecAccepts(rec, xs) ==
  CASE rec.id = "zstd" -> /\ xs[1].zstd
                          /\ xs[1].bytes <= MaxChunkBytes
                          /\ xs[1].bytes % rec.private = 0
    [] rec.id = "transpose_split4" -> /\ \A k \in DOMAIN xs : xs[k].bytes = xs[1].bytes
                                      /\ xs[1].bytes <= chunkLen
    [] rec.id = "literal_dict_u32" -> /\ xs[1].bytes % U32Width = 0
                                      /\ xs[2].bytes % rec.private = 0
    [] rec.id = "field_lz" -> rec.private = chunkLen
    [] rec.id = "delta_int" -> xs[1].bytes % U32Width = 0

\* The payload a record restores, when its inputs are the ones it expects.
Restored(rec, xs) ==
  CASE rec.id = "zstd" -> Rebuilt(xs[1].means, xs[1].bytes)
    [] rec.id = "transpose_split4" /\ xs = [k \in DOMAIN xs |-> Rebuilt(Lane(k), entries[1])]
         -> Rebuilt(Side(1), SplitLanes * entries[1])
    [] rec.id = "literal_dict_u32"
         /\ xs[1].means = Table
         /\ xs[2] = Rebuilt(Codes, rec.private * entries[1])
         -> Rebuilt(Side(1), U32Width * entries[1])
    [] rec.id = "field_lz"
         /\ xs = [k \in DOMAIN xs |-> Rebuilt(Side(k), entries[k] * FieldLzWidths[k])]
         -> Rebuilt(IF delta THEN Parsed ELSE ChunkOf, U32Width * chunkLen)
    [] rec.id = "delta_int" /\ xs[1].means = Parsed -> Rebuilt(ChunkOf, xs[1].bytes)
    [] OTHER -> Rebuilt(Garbage, U32Width * chunkLen)

IsFull(payload) == ~payload.zstd /\ payload.bytes = U32Width * chunkLen

-----------------------------------------------------------------------------
\* Reading back what was planned

NextStored == stored[storedRead + 1]
NextRecord == transforms[Len(log) + 1]

HeaderAcceptable ==
  /\ nextId <= MaxSlots
  /\ Len(stored) <= nextId
  /\ Len(transforms) <= MaxTransforms
  /\ final < nextId

\* The next record passes the checks of the decoder and of its codec.
Acceptable(rec) ==
  /\ \A k \in DOMAIN rec.ins : rec.ins[k] \in Map!InputSlots
  /\ rec.out \in Map!OutputSlots
  /\ Len(rec.ins) = Map!Arity(rec.id)
  /\ Map!AcceptsHeader(rec.id, rec.private)
  /\ \A k \in DOMAIN rec.ins :
       Map!AcceptsWidth(rec.id, k, rec.private, slots[rec.ins[k]].width)
  /\ CodecAccepts(rec, Given(rec))

Refused == Map!Fail /\ UNCHANGED contents

ReadHeader ==
  /\ status = "header"
  /\ phase = "planned"
  /\ IF HeaderAcceptable
     THEN /\ header' = [slots |-> nextId, stored |-> Len(stored),
                        transforms |-> Len(transforms), final |-> final]
          /\ Map!ReadHeader
          /\ UNCHANGED contents
     ELSE Refused
  /\ UNCHANGED planVars

ReadStored ==
  /\ status = "reading"
  /\ storedRead < header.stored
  /\ LET s == NextStored
     IN IF s.id \in Map!Undefined
        THEN /\ slots' = [slots EXCEPT ![s.id].defined = TRUE,
                                       ![s.id].full = IsFull(s.payload)]
             /\ Map!ReadStored
             /\ contents' = Filled(s.id, s.payload)
        ELSE Refused
  /\ UNCHANGED planVars

ExecuteTransform ==
  /\ status = "reading"
  /\ storedRead = header.stored
  /\ Len(log) < header.transforms
  /\ LET rec == NextRecord
         out == Restored(rec, Given(rec))
     IN IF Acceptable(rec)
        THEN /\ Map!ExecuteRecord(rec.id, rec.ins, rec.out, rec.private, IsFull(out))
             /\ contents' = Filled(rec.out, out)
             /\ UNCHANGED <<status, header, storedRead>>
        ELSE Refused
  /\ UNCHANGED planVars

Judge ==
  /\ Map!Judge
  /\ UNCHANGED <<planVars, contents>>

Returned == status \in {"accepted", "rejected"} /\ UNCHANGED vars

Next ==
  \/ Plan
  \/ ReadHeader
  \/ ReadStored
  \/ ExecuteTransform
  \/ Judge
  \/ Returned

\* Both functions run until they return.
Spec == Init /\ [][Next]_vars /\ WF_vars(Next)

-----------------------------------------------------------------------------
\* Properties

\* Whatever routes were taken, decoding only ever rebuilds streams that the
\* encoder had, and the map is accepted with the chunk in its final slot: no
\* id, width, order or length the planner writes is refused or mixed up.
PlanIsDecoded ==
  /\ status # "rejected"
  /\ \A s \in DOMAIN contents : contents[s].means # Garbage
  /\ status = "accepted" => contents[final] = Rebuilt(ChunkOf, U32Width * chunkLen)

\* Every chunk that is planned is read back to the end and accepted.
EventuallyAccepted == <>(status = "accepted")

=============================================================================
