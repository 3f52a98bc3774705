-------------------------- MODULE SideStreamPlanner --------------------------
(***************************************************************************)
(* build_field_lz_side_stream_graph of src/frame.rs and the routes it      *)
(* appends: how five FieldLZ side streams become stored streams and        *)
(* transform records, with stream ids handed out from one counter that     *)
(* every route advances.                                                   *)
(*                                                                         *)
(* Abstractions.  A payload is what it stands for, how many bytes that is, *)
(* and whether it was compressed.  Which literal route is taken depends on *)
(* compressed sizes and value statistics: any route whose size limit is    *)
(* met may be taken.  Compression always succeeds.                         *)
(***************************************************************************)
EXTENDS Integers, Sequences, FiniteSets

CONSTANTS
  MaxChunk,        \* MAX_CHUNK_ELEMENTS_U32
  MinZstd,         \* DEFAULT_MIN_STREAM_SIZE: fewer bytes are stored as is
  MinRich,         \* literals from which a dictionary or a split is tried
  FieldLzWidths,   \* FIELD_LZ_INPUT_WIDTHS
  SplitLanes       \* U32_WIDTH: byte lanes of a transposed literal stream

ASSUME PlannerAssumption ==
  /\ MaxChunk \in Nat \ {0}
  /\ MinZstd \in Nat \ {0}
  /\ MinRich \in Nat \ {0}
  /\ FieldLzWidths = <<4, 2, 4, 4, 4>>
  /\ SplitLanes = 4

VARIABLES
  chunkLen,     \* chunk_num_elements
  entries,      \* entries of each side stream
  delta,        \* append_delta_transform
  phase,        \* "literals", "lanes", "streams", then "planned"
  nextId,       \* next_stream_id
  stored,       \* stored_streams
  transforms,   \* transforms
  lanes,        \* lane_stream_ids of the transposed route
  inputs,       \* field_lz_inputs
  final         \* final_stream_id

planned == <<chunkLen, entries, delta>>
planVars == <<planned, phase, nextId, stored, transforms, lanes, inputs, final>>

U32Width == 4

\* What the bytes of a stream stand for.
Side(k) == <<"side", k>>
Lane(k) == <<"lane", k>>
Table   == <<"table", 0>>
Codes   == <<"codes", 0>>
Parsed  == <<"parsed", 0>>    \* what FieldLZ was run on: values or deltas
ChunkOf == <<"chunk", 0>>
Garbage == <<"garbage", 0>>

Meanings == {Side(k) : k \in DOMAIN FieldLzWidths} \cup {Lane(k) : k \in 1..SplitLanes}
              \cup {Table, Codes, Parsed, ChunkOf, Garbage}

Payload == [means : Meanings, bytes : Nat, zstd : BOOLEAN]

\* The number of entries the FieldLZ encoder may leave in each side stream:
\* one offset a token, at most one extra length of each kind, and tokens
\* that stand for two values or more beside the literals.
SideStreamSizes(n) ==
  {e \in [DOMAIN FieldLzWidths -> 0..n] :
     /\ e[1] + 2 * e[2] <= n
     /\ e[3] = e[2]
     /\ e[4] <= e[2]
     /\ e[5] <= e[2]}

PlanInit ==
  /\ chunkLen \in 1..MaxChunk
  /\ entries \in SideStreamSizes(chunkLen)
  /\ delta \in BOOLEAN
  /\ phase = "literals"
  /\ nextId = 0
  /\ stored = <<>>
  /\ transforms = <<>>
  /\ lanes = <<>>
  /\ inputs = <<>>
  /\ final = 0

-----------------------------------------------------------------------------
\* Routes: what a stream is stored as, and the records that bring it back

StoredStream(id, means, bytes, zstd) ==
  [id |-> id, payload |-> [means |-> means, bytes |-> bytes, zstd |-> zstd]]

\* private is the number the private header holds; 0 for an empty one.
Record(id, ins, out, private) ==
  [id |-> id, ins |-> ins, out |-> out, private |-> private]

\* Faulty variant: the id of the decoded stream is not reserved.
RawRouteReusesId(means, bytes, width, n) ==
  LET zstd == bytes >= MinZstd
      out  == IF zstd THEN n + 1 ELSE n
  IN [stored     |-> <<StoredStream(n, means, bytes, zstd)>>,
      transforms |-> IF zstd THEN <<Record("zstd", <<n>>, out, width)>> ELSE <<>>,
      output     |-> out,
      next       |-> n + 1]

RawRoute(means, bytes, width, n) ==
  LET zstd == bytes >= MinZstd
      out  == IF zstd THEN n + 1 ELSE n
  IN [stored     |-> <<StoredStream(n, means, bytes, zstd)>>,
      transforms |-> IF zstd THEN <<Record("zstd", <<n>>, out, width)>> ELSE <<>>,
      output     |-> out,
      next       |-> out + 1]

\* literal_dict::build_side_stream_route: the table is never compressed.
DictionaryRoute(distinct, width, n) ==
  LET bytes == width * entries[1]
      zstd  == bytes >= MinZstd
      codes == IF zstd THEN n + 2 ELSE n + 1
  IN [stored     |-> <<StoredStream(n, Table, U32Width * distinct, FALSE),
                       StoredStream(n + 1, Codes, bytes, zstd)>>,
      transforms |-> (IF zstd THEN <<Record("zstd", <<n + 1>>, codes, width)>> ELSE <<>>)
                       \o <<Record("literal_dict_u32", <<n, codes>>, codes + 1, width)>>,
      output     |-> codes + 1,
      next       |-> codes + 2]

AppendRoute(route) ==
  /\ stored' = stored \o route.stored
  /\ transforms' = transforms \o route.transforms
  /\ nextId' = route.next

-----------------------------------------------------------------------------
\* The literal stream takes one of three routes

\* A dictionary is only worth it when some value repeats.
PlanDictionary ==
  /\ phase = "literals"
  /\ entries[1] >= MinRich
  /\ \E distinct \in 1..(entries[1] - 1), width \in {1, 2} :
       LET route == DictionaryRoute(distinct, width, nextId)
       IN AppendRoute(route) /\ inputs' = <<route.output>>
  /\ phase' = "streams"
  /\ UNCHANGED <<planned, lanes, final>>

PlanSplit ==
  /\ phase = "literals"
  /\ entries[1] >= MinRich
  /\ phase' = "lanes"
  /\ UNCHANGED <<planned, nextId, stored, transforms, lanes, inputs, final>>

\* Faulty variant: the lanes are listed last first.
AppendLaneReversed ==
  /\ phase = "lanes"
  /\ Len(lanes) < SplitLanes
  /\ LET route == RawRoute(Lane(Len(lanes) + 1), entries[1], 1, nextId)
     IN AppendRoute(route) /\ lanes' = <<route.output>> \o lanes
  /\ UNCHANGED <<planned, phase, inputs, final>>

\* Faulty variant: one turn of the loop too many.
AppendLaneInclusive ==
  /\ phase = "lanes"
  /\ Len(lanes) <= SplitLanes
  /\ LET route == RawRoute(Lane(Len(lanes) + 1), entries[1], 1, nextId)
     IN AppendRoute(route) /\ lanes' = Append(lanes, route.output)
  /\ UNCHANGED <<planned, phase, inputs, final>>

\* Every lane has a byte of every literal.
AppendLane ==
  /\ phase = "lanes"
  /\ Len(lanes) < SplitLanes
  /\ LET route == RawRoute(Lane(Len(lanes) + 1), entries[1], 1, nextId)
     IN AppendRoute(route) /\ lanes' = Append(lanes, route.output)
  /\ UNCHANGED <<planned, phase, inputs, final>>

CloseLanes ==
  /\ phase = "lanes"
  /\ Len(lanes) = SplitLanes
  /\ transforms' = Append(transforms, Record("transpose_split4", lanes, nextId, 0))
  /\ inputs' = <<nextId>>
  /\ nextId' = nextId + 1
  /\ phase' = "streams"
  /\ UNCHANGED <<planned, stored, lanes, final>>

AppendSideStream(k) ==
  LET route == RawRoute(Side(k), entries[k] * FieldLzWidths[k], FieldLzWidths[k], nextId)
  IN AppendRoute(route) /\ inputs' = Append(inputs, route.output)

PlanRawLiterals ==
  /\ phase = "literals"
  /\ AppendSideStream(1)
  /\ phase' = "streams"
  /\ UNCHANGED <<planned, lanes, final>>

-----------------------------------------------------------------------------
\* The other streams, FieldLZ, and delta_int when FieldLZ was run on deltas

AppendRaw ==
  /\ phase = "streams"
  /\ Len(inputs) < Len(FieldLzWidths)
  /\ AppendSideStream(Len(inputs) + 1)
  /\ UNCHANGED <<planned, phase, lanes, final>>

\* Faulty variant: delta_int is written without counting its stream.
CloseGraphUncounted ==
  /\ phase = "streams"
  /\ Len(inputs) = Len(FieldLzWidths)
  /\ LET fieldLz == Record("field_lz", inputs, nextId, chunkLen)
         undo    == Record("delta_int", <<nextId>>, nextId + 1, 0)
     IN transforms' = transforms \o (IF delta THEN <<fieldLz, undo>> ELSE <<fieldLz>>)
  /\ final' = IF delta THEN nextId + 1 ELSE nextId
  /\ nextId' = nextId + 1
  /\ phase' = "planned"
  /\ UNCHANGED <<planned, stored, lanes, inputs>>

CloseGraph ==
  /\ phase = "streams"
  /\ Len(inputs) = Len(FieldLzWidths)
  /\ LET fieldLz == Record("field_lz", inputs, nextId, chunkLen)
         undo    == Record("delta_int", <<nextId>>, nextId + 1, 0)
     IN transforms' = transforms \o (IF delta THEN <<fieldLz, undo>> ELSE <<fieldLz>>)
  /\ final' = IF delta THEN nextId + 1 ELSE nextId
  /\ nextId' = final' + 1
  /\ phase' = "planned"
  /\ UNCHANGED <<planned, stored, lanes, inputs>>

PlanStep ==
  \/ PlanDictionary
  \/ PlanSplit
  \/ AppendLane
  \/ CloseLanes
  \/ PlanRawLiterals
  \/ AppendRaw
  \/ CloseGraph

PlanSpec == PlanInit /\ [][PlanStep]_planVars

-----------------------------------------------------------------------------
\* Properties

StoredIds == {stored[i].id : i \in DOMAIN stored}
OutputIds == {transforms[j].out : j \in DOMAIN transforms}

\* Counters and lists keep their shapes, and every id a list names was
\* handed out before.
PlanTypeOK ==
  /\ chunkLen \in 1..MaxChunk
  /\ entries \in SideStreamSizes(chunkLen)
  /\ delta \in BOOLEAN
  /\ phase \in {"literals", "lanes", "streams", "planned"}
  /\ nextId \in Nat
  /\ stored \in Seq([id : Nat, payload : Payload])
  /\ transforms \in Seq([id : {"zstd", "field_lz", "transpose_split4", "delta_int",
                               "literal_dict_u32"},
                         ins : Seq(Nat), out : Nat, private : Nat])
  /\ lanes \in Seq(0..(nextId - 1))
  /\ inputs \in Seq(0..(nextId - 1))
  /\ Len(lanes) <= SplitLanes
  /\ Len(inputs) <= Len(FieldLzWidths)
  /\ final \in Nat

\* Through every route the counter stays in step with the lists: each id
\* below it was given to exactly one stored stream or one transform output.
StreamIdsAreDense ==
  /\ StoredIds \cup OutputIds = 0..(nextId - 1)
  /\ Len(stored) + Len(transforms) = nextId

\* A record only names streams that were filled before it: stored ones and
\* outputs of records already in the list.
RecordsInDecodeOrder ==
  \A j \in DOMAIN transforms : \A k \in DOMAIN transforms[j].ins :
    \/ transforms[j].ins[k] \in StoredIds
    \/ \E i \in 1..(j - 1) : transforms[i].out = transforms[j].ins[k]

=============================================================================
