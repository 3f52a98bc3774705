----------------------------- MODULE DecodingMap -----------------------------
(***************************************************************************)
(* decode_chunk_encoding and read_and_execute_transform_record of          *)
(* src/frame.rs: a chunk is a small decode graph, read front to back and   *)
(* executed while it is read.  Stored streams fill slots first; every      *)
(* transform takes slots already filled and fills one more; at the end the *)
(* graph is judged and the final slot becomes the chunk.                   *)
(*                                                                         *)
(* Abstractions.  What a reader call returns is chosen by \E when it is    *)
(* read.  A slot's bytes are reduced to two facts later checks depend on:  *)
(* the element width recorded for them, if any, and whether they are       *)
(* exactly chunk_num_elements values long (`full`).  Whether a codec       *)
(* accepts its payload is part of the choice.  Because the bytes can be    *)
(* anything, a call that reads can always fail, so one action stands for   *)
(* all the early error returns, and the checks are the guards of the       *)
(* actions that succeed.                                                   *)
(***************************************************************************)
EXTENDS Integers, Sequences, FiniteSets

CONSTANTS
  MaxSlots,        \* RUNTIME_STREAM_LIMIT
  MaxTransforms,   \* RUNTIME_TRANSFORM_LIMIT
  Width,           \* element widths a stream may be given
  FieldLzWidths,   \* FIELD_LZ_INPUT_WIDTHS, one per FieldLZ input
  SplitLanes       \* inputs of transpose_split4

ASSUME MapAssumption ==
  /\ MaxSlots \in Nat
  /\ MaxTransforms \in Nat
  /\ {1, 2, 4} \subseteq Width
  /\ Width \subseteq Nat \ {0}
  /\ FieldLzWidths \in Seq(Width)
  /\ FieldLzWidths # <<>>
  /\ SplitLanes \in Nat \ {0}

VARIABLES
  status,      \* "header", "reading", then "accepted" or "rejected"
  header,      \* the four counts of the chunk header
  slots,       \* the stream slots
  storedRead,  \* stored streams read so far
  log,         \* transform_log
  inputsOf     \* history: all the inputs of each logged transform

vars == <<status, header, slots, storedRead, log, inputsOf>>

NoWidth == 0   \* element_width: None

TransformId == {"zstd", "field_lz", "transpose_split4", "delta_int", "literal_dict_u32"}

Slot == [defined : BOOLEAN, used : BOOLEAN, width : Width \cup {NoWidth}, full : BOOLEAN]

EmptySlot == [defined |-> FALSE, used |-> FALSE, width |-> NoWidth, full |-> FALSE]

\* TransformLogEntry; the code keeps the first input only.
LogEntry == [id : TransformId, input : Nat, output : Nat]

Defined == {s \in DOMAIN slots : slots[s].defined}
Undefined == DOMAIN slots \ Defined

Init ==
  /\ status = "header"
  /\ header = [slots |-> 0, stored |-> 0, transforms |-> 0, final |-> 0]
  /\ slots = [s \in {} |-> EmptySlot]
  /\ storedRead = 0
  /\ log = <<>>
  /\ inputsOf = <<>>

-----------------------------------------------------------------------------
\* Reading the header and the stored streams

ReadHeader ==
  /\ status = "header"
  /\ \E n \in 0..MaxSlots, t \in 0..MaxTransforms :
       \E stored \in 0..n, final \in 0..(n - 1) :
         /\ header' = [slots |-> n, stored |-> stored,
                       transforms |-> t, final |-> final]
         /\ slots' = [s \in 0..(n - 1) |-> EmptySlot]
  /\ status' = "reading"
  /\ UNCHANGED <<storedRead, log, inputsOf>>

\* Faulty variant: one stored stream more than announced.
ReadStoredInclusive ==
  /\ status = "reading"
  /\ storedRead <= header.stored
  /\ \E s \in Undefined, full \in BOOLEAN :
       slots' = [slots EXCEPT ![s].defined = TRUE, ![s].full = full]
  /\ storedRead' = storedRead + 1
  /\ UNCHANGED <<status, header, log, inputsOf>>

\* A stored stream has no element width and any length.
ReadStored ==
  /\ status = "reading"
  /\ storedRead < header.stored
  /\ \E s \in Undefined, full \in BOOLEAN :
       slots' = [slots EXCEPT ![s].defined = TRUE, ![s].full = full]
  /\ storedRead' = storedRead + 1
  /\ UNCHANGED <<status, header, log, inputsOf>>

-----------------------------------------------------------------------------
\* Executing a transform

Arity(id) ==
  CASE id = "zstd" -> 1
    [] id = "field_lz" -> Len(FieldLzWidths)
    [] id = "transpose_split4" -> SplitLanes
    [] id = "delta_int" -> 1
    [] id = "literal_dict_u32" -> 2

\* The width input k must have, if a width was recorded for it; w is the
\* width the private header names.
AcceptsWidth(id, k, w, actual) ==
  \/ actual = NoWidth
  \/ id = "zstd"
  \/ id = "field_lz" /\ actual = FieldLzWidths[k]
  \/ id = "transpose_split4" /\ actual = 1
  \/ id = "delta_int" /\ actual = 4
  \/ id = "literal_dict_u32" /\ actual = (IF k = 1 THEN 4 ELSE w)

\* The private header: zstd names the width of its output, the dictionary
\* the width of its codes.
AcceptsHeader(id, w) == id = "literal_dict_u32" => w \in {1, 2}

OutputWidth(id, w) == IF id = "zstd" THEN w ELSE 4

\* FieldLZ only ever returns a whole chunk and delta_int keeps the length;
\* the others return any length.
MayReturn(id, ins, full) ==
  /\ id = "field_lz" => full
  /\ id = "delta_int" => full = slots[ins[1]].full

\* Faulty variant: an input may name a slot nobody has filled yet.
InputSlotsUnchecked == DOMAIN slots

\* The inputs a record may name: slots already filled.
InputSlots == Defined

\* Faulty variant: an output may name a slot that is already filled.
OutputSlotsUnchecked == DOMAIN slots

\* The outputs a record may name: one slot nobody has filled.  (The wire
\* format allows several; every transform there is refuses all but one.)
OutputSlots == Undefined

\* Inputs are marked used, then the transform fills its output.
SlotsAfter(ins, out, width, full) ==
  [s \in DOMAIN slots |->
     [defined |-> slots[s].defined \/ s = out,
      used    |-> slots[s].used \/ \E k \in DOMAIN ins : ins[k] = s,
      width   |-> IF s = out THEN width ELSE slots[s].width,
      full    |-> IF s = out THEN full ELSE slots[s].full]]

\* One record that passes every check: w is the width its private header
\* names, full is what its codec returned.
ExecuteRecord(id, ins, out, w, full) ==
  /\ AcceptsHeader(id, w)
  /\ \A k \in 1..Arity(id) : AcceptsWidth(id, k, w, slots[ins[k]].width)
  /\ MayReturn(id, ins, full)
  /\ slots' = SlotsAfter(ins, out, OutputWidth(id, w), full)
  /\ log' = Append(log, [id |-> id, input |-> ins[1], output |-> out])
  /\ inputsOf' = Append(inputsOf, {ins[k] : k \in 1..Arity(id)})

ExecuteTransform ==
  /\ status = "reading"
  /\ storedRead = header.stored
  /\ Len(log) < header.transforms
  /\ \E id \in TransformId :
     \E ins \in [1..Arity(id) -> InputSlots], out \in OutputSlots,
        w \in Width, full \in BOOLEAN :
       ExecuteRecord(id, ins, out, w, full)
  /\ UNCHANGED <<status, header, storedRead>>

\* Any read may hit the end of the frame or a value a check refuses, and any
\* codec may refuse its payload; the call then returns an error.
Fail ==
  /\ status \in {"header", "reading"}
  /\ status' = "rejected"
  /\ UNCHANGED <<header, slots, storedRead, log, inputsOf>>

-----------------------------------------------------------------------------
\* Judging the graph

FieldLzEntries == {k \in DOMAIN log : log[k].id = "field_lz"}

\* Faulty variant: a delta_int makes the final stream whatever it consumes.
ValidFinalAnyDelta ==
  /\ Cardinality(FieldLzEntries) = 1
  /\ \E k \in DOMAIN log : /\ log[k].output = header.final
                           /\ log[k].id \in {"field_lz", "delta_int"}

\* Faulty variant: any transform of the FieldLZ output makes the final stream.
ValidFinalAnyConsumer ==
  /\ Cardinality(FieldLzEntries) = 1
  /\ \E k \in DOMAIN log :
       /\ log[k].output = header.final
       /\ \/ log[k].id = "field_lz"
          \/ \E j \in FieldLzEntries : log[k].input = log[j].output

\* The final stream comes from the one FieldLZ transform, or from a
\* delta_int whose input is the output of that transform.
ValidFinal ==
  /\ Cardinality(FieldLzEntries) = 1
  /\ \E k \in DOMAIN log :
       /\ log[k].output = header.final
       /\ \/ log[k].id = "field_lz"
          \/ /\ log[k].id = "delta_int"
             /\ \E j \in FieldLzEntries : log[k].input = log[j].output

EverySlotDefined == \A s \in DOMAIN slots : slots[s].defined

\* Faulty variant: slots are only required to be defined.
EverySlotUsedDropped == EverySlotDefined

\* Faulty variant: only an unused stored stream is noticed.
EveryStoredSlotUsed ==
  \A s \in DOMAIN slots :
    s # header.final => slots[s].used \/ \E k \in DOMAIN log : log[k].output = s

EverySlotUsed == \A s \in DOMAIN slots : s # header.final => slots[s].used

\* The checks before the last one, on the length of the final stream.
GraphIsValid == ValidFinal /\ EverySlotDefined /\ EverySlotUsed

Judge ==
  /\ status = "reading"
  /\ storedRead = header.stored
  /\ Len(log) = header.transforms
  /\ status' = IF GraphIsValid /\ slots[header.final].full
               THEN "accepted" ELSE "rejected"
  /\ UNCHANGED <<header, slots, storedRead, log, inputsOf>>

\* The function has returned.
Returned == status \in {"accepted", "rejected"} /\ UNCHANGED vars

Next ==
  \/ ReadHeader
  \/ ReadStored
  \/ ExecuteTransform
  \/ Fail
  \/ Judge
  \/ Returned

Spec == Init /\ [][Next]_vars

-----------------------------------------------------------------------------
\* Properties

\* The header, the slots and the log agree in shape: ids are in range, and
\* no more streams or transforms are read than the header announced.
TypeOK ==
  /\ status \in {"header", "reading", "accepted", "rejected"}
  /\ header \in [slots : 0..MaxSlots, stored : 0..MaxSlots,
                 transforms : 0..MaxTransforms, final : 0..MaxSlots]
  /\ status = "header" => header.stored = 0 /\ header.transforms = 0
  /\ slots \in [0..(header.slots - 1) -> Slot]
  /\ storedRead \in 0..header.stored
  /\ log \in Seq(LogEntry)
  /\ Len(log) <= header.transforms
  /\ inputsOf \in Seq(SUBSET (DOMAIN slots))
  /\ Len(inputsOf) = Len(log)
  /\ \A k \in DOMAIN log : log[k].output \in DOMAIN slots

\* A slot is filled once: no later record may overwrite what an earlier
\* transform may already have read, and a consumed slot stays consumed.
SlotsAreWriteOnce ==
  [][status = "reading" =>
       \A s \in DOMAIN slots :
         /\ slots[s].defined => /\ slots'[s].defined
                                /\ slots'[s].width = slots[s].width
                                /\ slots'[s].full = slots[s].full
         /\ slots[s].used => slots'[s].used]_vars

\* Records are in decode order: no transform reads its own output or that
\* of a later one, so the graph has no cycle.
GraphIsAcyclic ==
  \A j, k \in DOMAIN log : log[k].output \in inputsOf[j] => k < j

\* The code never compares positions, yet an accepted graph always ends in
\* its final stream: it is the output of the last transform and nothing
\* consumed it.
FinalIsLastOutput ==
  status = "accepted" =>
    /\ log # <<>>
    /\ log[Len(log)].output = header.final
    /\ ~ slots[header.final].used
    /\ \A k \in DOMAIN log : header.final \notin inputsOf[k]

\* FieldLZ is the last transform, or the one right before a last delta_int:
\* nothing can be slipped in between, and nothing else reads its output.
FieldLzEndsTheGraph ==
  status = "accepted" =>
    \E k \in FieldLzEntries :
      \/ k = Len(log)
      \/ /\ k = Len(log) - 1
         /\ log[Len(log)].id = "delta_int"
         /\ inputsOf[Len(log)] = {log[k].output}
         /\ \A j \in DOMAIN log : log[k].output \in inputsOf[j] => j = Len(log)

\* The code's local test "every non-final slot was used" has a global
\* meaning: in an accepted graph every slot contributes to the final stream.
\* (A set that holds the final slot, and with an output all inputs of the
\* transform that made it, holds every slot.)
EverySlotReachesFinal ==
  status = "accepted" =>
    \A S \in SUBSET DOMAIN slots :
      /\ header.final \in S
      /\ \A k \in DOMAIN log : log[k].output \in S => inputsOf[k] \subseteq S
      => S = DOMAIN slots

\* The last check of the function, on the byte length of the final stream,
\* never refuses a graph the earlier checks accept.
FinalLengthIsImplied ==
  GraphIsValid => slots[header.final].full

\* What the format plan says of the final stream (plan.md, "Chunk
\* validation"): it is the output of the FieldLZ transform itself.
FinalIsFieldLzOutput ==
  status = "accepted" =>
    \E k \in FieldLzEntries : log[k].output = header.final

=============================================================================
