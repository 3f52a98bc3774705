-------------------------- MODULE DecodingMapProofs --------------------------
(***************************************************************************)
(* Proofs about DecodingMap, for every limit, every set of widths and      *)
(* every number of FieldLZ inputs and split lanes.                         *)
(***************************************************************************)
EXTENDS DecodingMap, FiniteSetTheorems, WellFoundedInduction, TLAPS

-----------------------------------------------------------------------------
\* Lemmas about one step

\* Every transform takes at least one input.
LEMMA ArityType ==
  ASSUME NEW id \in TransformId
  PROVE  Arity(id) \in Nat \ {0}
<1>1. Len(FieldLzWidths) \in Nat \ {0}
  BY MapAssumption
<1> QED
  BY <1>1, MapAssumption DEF TransformId, Arity

\* What one executed record does, field by field: its inputs were filled
\* slots and are now used, its one output was empty and is now filled, and
\* every other slot is as it was.
RecordEffect(id, ins, out, w, full) ==
  /\ id \in TransformId
  /\ ins \in [1..Arity(id) -> Defined]
  /\ out \in Undefined
  /\ w \in Width
  /\ full \in BOOLEAN
  /\ MayReturn(id, ins, full)
  /\ DOMAIN slots' = DOMAIN slots
  /\ \A s \in DOMAIN slots :
       /\ slots'[s].used = (slots[s].used \/ \E k \in 1..Arity(id) : ins[k] = s)
       /\ s # out => /\ slots'[s].defined = slots[s].defined
                     /\ slots'[s].width = slots[s].width
                     /\ slots'[s].full = slots[s].full
  /\ slots'[out].defined
  /\ slots'[out].width = OutputWidth(id, w)
  /\ slots'[out].full = full
  /\ slots' \in [DOMAIN slots -> Slot]
  /\ log' = Append(log, [id |-> id, input |-> ins[1], output |-> out])
  /\ inputsOf' = Append(inputsOf, {ins[k] : k \in 1..Arity(id)})
  /\ UNCHANGED <<status, header, storedRead>>

\* A record that passes the checks has the effect described above.
LEMMA ExecuteEffect ==
  ASSUME TypeOK,
         NEW id \in TransformId, NEW ins \in [1..Arity(id) -> InputSlots],
         NEW out \in OutputSlots, NEW w \in Width, NEW full \in BOOLEAN,
         ExecuteRecord(id, ins, out, w, full),
         UNCHANGED <<status, header, storedRead>>
  PROVE  RecordEffect(id, ins, out, w, full)
<1>1. slots \in [DOMAIN slots -> Slot]
  BY DEF TypeOK
<1>2. OutputWidth(id, w) \in Width \cup {NoWidth}
  BY MapAssumption DEF OutputWidth
<1>3. out \in DOMAIN slots
  BY DEF OutputSlots, Undefined
<1>4. slots' = SlotsAfter(ins, out, OutputWidth(id, w), full)
  BY DEF ExecuteRecord
<1>5. slots' \in [DOMAIN slots -> Slot]
  BY <1>1, <1>2, <1>4 DEF SlotsAfter, Slot
<1>6. /\ slots'[out].defined
      /\ slots'[out].width = OutputWidth(id, w)
      /\ slots'[out].full = full
  BY <1>3, <1>4 DEF SlotsAfter
<1>7. \A s \in DOMAIN slots :
        /\ slots'[s].used = (slots[s].used \/ \E k \in 1..Arity(id) : ins[k] = s)
        /\ s # out => /\ slots'[s].defined = slots[s].defined
                      /\ slots'[s].width = slots[s].width
                      /\ slots'[s].full = slots[s].full
  BY <1>1, <1>4 DEF SlotsAfter, Slot
<1> QED
  BY <1>4, <1>5, <1>6, <1>7
  DEF RecordEffect, ExecuteRecord, InputSlots, OutputSlots

-----------------------------------------------------------------------------
\* The type invariant

\* Nothing read yet is well typed.
LEMMA TypeInit == Init => TypeOK
BY MapAssumption DEF Init, TypeOK, LogEntry, Slot

\* Every step of decode_chunk_encoding keeps the shapes.
LEMMA TypeStep ==
  ASSUME TypeOK, [Next]_vars
  PROVE  TypeOK'
<1>1. CASE ReadHeader
  <2>1. PICK n \in 0..MaxSlots, t \in 0..MaxTransforms :
          \E stored \in 0..n, final \in 0..(n - 1) :
            /\ header' = [slots |-> n, stored |-> stored,
                          transforms |-> t, final |-> final]
            /\ slots' = [s \in 0..(n - 1) |-> EmptySlot]
    BY <1>1 DEF ReadHeader
  <2>2. PICK stored \in 0..n, final \in 0..(n - 1) :
          /\ header' = [slots |-> n, stored |-> stored,
                        transforms |-> t, final |-> final]
          /\ slots' = [s \in 0..(n - 1) |-> EmptySlot]
    BY <2>1
  <2>3. EmptySlot \in Slot
    BY DEF EmptySlot, Slot
  <2>4. storedRead = 0 /\ Len(log) = 0 /\ Len(inputsOf) = 0
    BY <1>1 DEF ReadHeader, TypeOK
  <2>5. log = <<>> /\ inputsOf = <<>>
    BY <2>4 DEF TypeOK
  <2>6. slots' \in [0..(header'.slots - 1) -> Slot]
    BY <2>2, <2>3
  <2>7. header' \in [slots : 0..MaxSlots, stored : 0..MaxSlots,
                     transforms : 0..MaxTransforms, final : 0..MaxSlots]
    BY <2>2, MapAssumption
  <2> QED
    BY <1>1, <2>2, <2>4, <2>5, <2>6, <2>7 DEF ReadHeader, TypeOK
<1>2. CASE ReadStored
  <2>1. PICK s \in Undefined, full \in BOOLEAN :
          slots' = [slots EXCEPT ![s].defined = TRUE, ![s].full = full]
    BY <1>2 DEF ReadStored
  <2>2. slots' \in [0..(header.slots - 1) -> Slot]
    <3>1. slots \in [0..(header.slots - 1) -> Slot] /\ s \in DOMAIN slots
      BY <2>1 DEF Undefined, TypeOK
    <3>2. [slots[s] EXCEPT !.defined = TRUE, !.full = full] \in Slot
      BY <3>1 DEF Slot
    <3>3. slots' = [slots EXCEPT ![s] = [slots[s] EXCEPT !.defined = TRUE, !.full = full]]
      BY <2>1, <3>1
    <3> QED
      BY <3>1, <3>2, <3>3
  <2> QED
    BY <1>2, <2>2 DEF ReadStored, TypeOK
<1>3. CASE ExecuteTransform
  <2>1. PICK id \in TransformId :
          \E ins \in [1..Arity(id) -> InputSlots], out \in OutputSlots,
             w \in Width, full \in BOOLEAN :
            ExecuteRecord(id, ins, out, w, full)
    BY <1>3 DEF ExecuteTransform
  <2>2. PICK ins \in [1..Arity(id) -> InputSlots], out \in OutputSlots,
             w \in Width, full \in BOOLEAN :
          ExecuteRecord(id, ins, out, w, full)
    BY <2>1
  <2>3. RecordEffect(id, ins, out, w, full)
    BY <1>3, <2>2, ExecuteEffect DEF ExecuteTransform
  <2>4. slots' \in [0..(header'.slots - 1) -> Slot]
    BY <2>3 DEF RecordEffect, TypeOK
  <2>5. ins[1] \in DOMAIN slots
    BY <2>3, ArityType DEF RecordEffect, Defined
  <2>6. out \in DOMAIN slots
    BY <2>3 DEF RecordEffect, Undefined
  <2>7. [id |-> id, input |-> ins[1], output |-> out] \in LogEntry
    BY <2>5, <2>6 DEF LogEntry, TypeOK
  <2>8. {ins[k] : k \in 1..Arity(id)} \in SUBSET DOMAIN slots
    BY <2>3 DEF RecordEffect, Defined
  <2>9. log' \in Seq(LogEntry) /\ Len(log') = Len(log) + 1
        /\ inputsOf' \in Seq(SUBSET DOMAIN slots')
        /\ Len(inputsOf') = Len(inputsOf) + 1
    BY <2>3, <2>7, <2>8 DEF RecordEffect, TypeOK
  <2>10. Len(log') <= header'.transforms
    BY <1>3, <2>3, <2>9 DEF ExecuteTransform, RecordEffect, TypeOK
  <2>11. \A k \in DOMAIN log' : log'[k].output \in DOMAIN slots'
    BY <2>3, <2>6 DEF RecordEffect, TypeOK
  <2> QED
    BY <2>3, <2>4, <2>9, <2>10, <2>11 DEF RecordEffect, TypeOK
<1>4. CASE Fail
  BY <1>4 DEF Fail, TypeOK
<1>5. CASE Judge
  BY <1>5 DEF Judge, TypeOK
<1>6. CASE Returned
  BY <1>6 DEF Returned, vars, TypeOK
<1>7. CASE UNCHANGED vars
  BY <1>7 DEF vars, TypeOK
<1> QED
  BY <1>1, <1>2, <1>3, <1>4, <1>5, <1>6, <1>7 DEF Next

\* The reader stays in shape: every id in range, no more records than
\* announced, the log and its history in step.
THEOREM TypeCorrect == Spec => []TypeOK
<1>1. Init => TypeOK
  BY TypeInit
<1>2. TypeOK /\ [Next]_vars => TypeOK'
  BY TypeStep
<1> QED
  BY <1>1, <1>2, PTL DEF Spec

-----------------------------------------------------------------------------
\* The graph read so far

\* A slot is marked used exactly when some executed transform took it.
UsedMeansRead ==
  /\ \A s \in DOMAIN slots : slots[s].used => \E k \in DOMAIN log : s \in inputsOf[k]
  /\ \A k \in DOMAIN log : \A s \in inputsOf[k] : slots[s].used /\ slots[s].defined

\* Each transform filled a slot of its own.
OutputsAreOwn ==
  /\ \A k \in DOMAIN log : slots[log[k].output].defined
  /\ \A j, k \in DOMAIN log : log[j].output = log[k].output => j = k

\* The log names the first input, which is all delta_int has.
LogNamesInput ==
  \A k \in DOMAIN log :
    /\ log[k].input \in inputsOf[k]
    /\ log[k].id = "delta_int" => inputsOf[k] = {log[k].input}

\* FieldLZ outputs are whole chunks and delta_int keeps the length.
LengthsFollow ==
  \A k \in DOMAIN log :
    /\ log[k].id = "field_lz" => slots[log[k].output].full
    /\ log[k].id = "delta_int" =>
         slots[log[k].output].full = slots[log[k].input].full

\* Only a graph that passed every check is accepted.
VerdictIsEarned ==
  status = "accepted" => GraphIsValid /\ slots[header.final].full

GraphInv ==
  /\ UsedMeansRead
  /\ OutputsAreOwn
  /\ GraphIsAcyclic
  /\ LogNamesInput
  /\ LengthsFollow
  /\ VerdictIsEarned

\* No slot, no record: the graph invariant holds.
LEMMA GraphInit == Init => GraphInv
BY DEF Init, GraphInv, UsedMeansRead, OutputsAreOwn, GraphIsAcyclic,
       LogNamesInput, LengthsFollow, VerdictIsEarned

\* Appending a record leaves the earlier ones in place.
LEMMA LogGrows ==
  ASSUME TypeOK, NEW id, NEW ins, NEW out, NEW w, NEW full,
         RecordEffect(id, ins, out, w, full)
  PROVE  /\ DOMAIN log = 1..Len(log)
         /\ DOMAIN log' = 1..(Len(log) + 1)
         /\ DOMAIN inputsOf = DOMAIN log
         /\ Len(log) \in Nat
         /\ \A k \in DOMAIN log : log'[k] = log[k] /\ inputsOf'[k] = inputsOf[k]
         /\ log'[Len(log) + 1] = [id |-> id, input |-> ins[1], output |-> out]
         /\ inputsOf'[Len(log) + 1] = {ins[k] : k \in 1..Arity(id)}
<1> DEFINE entry == [id |-> id, input |-> ins[1], output |-> out]
           taken == {ins[k] : k \in 1..Arity(id)}
<1>1. log' = Append(log, entry) /\ inputsOf' = Append(inputsOf, taken)
  BY DEF RecordEffect
<1>2. log \in Seq(LogEntry) /\ inputsOf \in Seq(SUBSET DOMAIN slots)
      /\ Len(inputsOf) = Len(log)
  BY DEF TypeOK
<1> HIDE DEF entry, taken
<1>3. Len(log) \in Nat /\ DOMAIN log = 1..Len(log)
      /\ DOMAIN inputsOf = 1..Len(log)
  BY <1>2
<1>4. /\ DOMAIN log' = 1..(Len(log) + 1)
      /\ \A k \in 1..Len(log) : log'[k] = log[k]
      /\ log'[Len(log) + 1] = entry
  BY <1>1, <1>2, <1>3
<1>5. /\ \A k \in 1..Len(log) : inputsOf'[k] = inputsOf[k]
      /\ inputsOf'[Len(log) + 1] = taken
  BY <1>1, <1>2, <1>3
<1> QED
  BY <1>3, <1>4, <1>5 DEF entry, taken

\* Executing a record keeps slots, log and recorded inputs in agreement.
LEMMA GraphExecute ==
  ASSUME TypeOK, GraphInv,
         NEW id, NEW ins, NEW out, NEW w, NEW full,
         RecordEffect(id, ins, out, w, full), status = "reading"
  PROVE  GraphInv'
<1> DEFINE last == Len(log) + 1
           taken == {ins[k] : k \in 1..Arity(id)}
<1>1. /\ DOMAIN log = 1..Len(log)
      /\ DOMAIN log' = 1..last
      /\ Len(log) \in Nat
      /\ \A k \in DOMAIN log : log'[k] = log[k] /\ inputsOf'[k] = inputsOf[k]
      /\ log'[last] = [id |-> id, input |-> ins[1], output |-> out]
      /\ inputsOf'[last] = taken
  BY LogGrows
<1>2. /\ out \in DOMAIN slots
      /\ ~ slots[out].defined
      /\ taken \subseteq Defined
      /\ taken \subseteq DOMAIN slots
      /\ out \notin taken
      /\ ins[1] \in taken
  <2>1. out \in DOMAIN slots /\ ~ slots[out].defined
    BY DEF RecordEffect, Undefined, Defined
  <2>2. \A k \in 1..Arity(id) : ins[k] \in Defined
    BY DEF RecordEffect
  <2>3. 1 \in 1..Arity(id)
    BY ArityType DEF RecordEffect
  <2> QED
    BY <2>1, <2>2, <2>3 DEF Defined
<1>3. \A k \in DOMAIN log : /\ log[k].output \in DOMAIN slots
                            /\ log[k].output # out
                            /\ inputsOf[k] \subseteq DOMAIN slots
                            /\ out \notin inputsOf[k]
  BY <1>1, <1>2 DEF GraphInv, OutputsAreOwn, UsedMeansRead, TypeOK
<1>4. \A k \in DOMAIN log' : k \in DOMAIN log \/ k = last
  BY <1>1
<1>5. /\ DOMAIN slots' = DOMAIN slots
      /\ slots'[out].defined
      /\ slots'[out].full = full
      /\ \A s \in DOMAIN slots :
           /\ slots'[s].used = (slots[s].used \/ s \in taken)
           /\ s # out => /\ slots'[s].defined = slots[s].defined
                         /\ slots'[s].full = slots[s].full
  BY DEF RecordEffect
<1> HIDE DEF last, taken
<1>6. UsedMeansRead'
  <2>1. ASSUME NEW s \in DOMAIN slots', slots'[s].used
        PROVE  \E k \in DOMAIN log' : s \in inputsOf'[k]
    <3>1. CASE s \in taken
      BY <3>1, <1>1 DEF last
    <3>2. CASE slots[s].used
      BY <3>2, <2>1, <1>1, <1>5 DEF GraphInv, UsedMeansRead, last
    <3> QED
      BY <2>1, <3>1, <3>2, <1>5
  <2>2. ASSUME NEW k \in DOMAIN log', NEW s \in inputsOf'[k]
        PROVE  slots'[s].used /\ slots'[s].defined
    <3>1. CASE k \in DOMAIN log
      BY <3>1, <2>2, <1>1, <1>3, <1>5 DEF GraphInv, UsedMeansRead
    <3>2. CASE k = last
      BY <3>2, <2>2, <1>1, <1>2, <1>5 DEF Defined
    <3> QED
      BY <1>4, <3>1, <3>2
  <2> QED
    BY <2>1, <2>2 DEF UsedMeansRead
<1>7. OutputsAreOwn'
  <2>1. \A k \in DOMAIN log' : slots'[log'[k].output].defined
    BY <1>1, <1>3, <1>4, <1>5 DEF GraphInv, OutputsAreOwn
  <2>2. \A j, k \in DOMAIN log' : log'[j].output = log'[k].output => j = k
    BY <1>1, <1>3, <1>4 DEF GraphInv, OutputsAreOwn
  <2> QED
    BY <2>1, <2>2 DEF OutputsAreOwn
<1>8. GraphIsAcyclic'
  <2> SUFFICES ASSUME NEW j \in DOMAIN log', NEW k \in DOMAIN log',
                      log'[k].output \in inputsOf'[j]
               PROVE  k < j
    BY DEF GraphIsAcyclic
  <2>1. CASE j \in DOMAIN log /\ k \in DOMAIN log
    BY <2>1, <1>1 DEF GraphInv, GraphIsAcyclic
  <2>2. CASE j = last /\ k \in DOMAIN log
    BY <2>2, <1>1 DEF last
  <2>3. CASE k = last
    BY <2>3, <1>1, <1>2, <1>3, <1>4
  <2> QED
    BY <1>4, <2>1, <2>2, <2>3
<1>9. LogNamesInput'
  <2>1. id = "delta_int" => taken = {ins[1]}
    BY DEF Arity, taken
  <2> QED
    BY <2>1, <1>1, <1>2, <1>4 DEF GraphInv, LogNamesInput
<1>10. LengthsFollow'
  <2>1. ASSUME NEW k \in DOMAIN log
        PROVE  /\ log'[k].id = "field_lz" => slots'[log'[k].output].full
               /\ log'[k].id = "delta_int" =>
                    slots'[log'[k].output].full = slots'[log'[k].input].full
    <3>1. log[k].input \in inputsOf[k]
      BY DEF GraphInv, LogNamesInput
    <3>2. log[k].input \in DOMAIN slots /\ log[k].input # out
      BY <3>1, <1>3
    <3> QED
      BY <3>2, <1>1, <1>3, <1>5 DEF GraphInv, LengthsFollow
  <2>2. /\ log'[last].id = "field_lz" => slots'[log'[last].output].full
        /\ log'[last].id = "delta_int" =>
             slots'[log'[last].output].full = slots'[log'[last].input].full
    <3>1. ins[1] \in DOMAIN slots /\ ins[1] # out
      BY <1>2
    <3>2. /\ log'[last].id = id
          /\ log'[last].input = ins[1]
          /\ log'[last].output = out
      BY <1>1
    <3>3. slots'[out].full = full /\ slots'[ins[1]].full = slots[ins[1]].full
      BY <3>1, <1>5
    <3>4. /\ id = "field_lz" => full
          /\ id = "delta_int" => full = slots[ins[1]].full
      BY DEF RecordEffect, MayReturn
    <3> QED
      BY <3>2, <3>3, <3>4, Zenon
  <2> QED
    BY <1>4, <2>1, <2>2 DEF LengthsFollow
<1>11. VerdictIsEarned'
  BY DEF VerdictIsEarned, RecordEffect
<1> QED
  BY <1>6, <1>7, <1>8, <1>9, <1>10, <1>11 DEF GraphInv

\* Every step of decode_chunk_encoding keeps the graph invariant.
LEMMA GraphStep ==
  ASSUME TypeOK, GraphInv, [Next]_vars
  PROVE  GraphInv'
<1>1. CASE ReadHeader
  <2>1. DOMAIN log' = {} /\ DOMAIN log = {}
    <3>1. Len(log) = 0
      BY <1>1 DEF ReadHeader, TypeOK
    <3> QED
      BY <3>1, <1>1 DEF ReadHeader, TypeOK
  <2>2. \A s \in DOMAIN slots' : ~ slots'[s].used
    BY <1>1 DEF ReadHeader, EmptySlot
  <2>3. status' # "accepted"
    BY <1>1 DEF ReadHeader
  <2> QED
    BY <2>1, <2>2, <2>3
    DEF GraphInv, UsedMeansRead, OutputsAreOwn, GraphIsAcyclic,
        LogNamesInput, LengthsFollow, VerdictIsEarned
<1>2. CASE ReadStored
  <2>1. PICK s \in Undefined, full \in BOOLEAN :
          slots' = [slots EXCEPT ![s].defined = TRUE, ![s].full = full]
    BY <1>2 DEF ReadStored
  <2>2. /\ s \in DOMAIN slots
        /\ ~ slots[s].defined
        /\ slots \in [DOMAIN slots -> Slot]
    BY <2>1 DEF Undefined, Defined, TypeOK
  <2>3. /\ DOMAIN slots' = DOMAIN slots
        /\ slots'[s].used = slots[s].used
        /\ \A r \in DOMAIN slots : r # s => slots'[r] = slots[r]
    BY <2>1, <2>2 DEF Slot
  <2>4. UNCHANGED <<status, header, log, inputsOf>> /\ status = "reading"
    BY <1>2 DEF ReadStored
  <2>5. \A k \in DOMAIN log : /\ log[k].output \in DOMAIN slots \ {s}
                              /\ log[k].input \in inputsOf[k]
                              /\ inputsOf[k] \subseteq DOMAIN slots \ {s}
    BY <2>2 DEF GraphInv, OutputsAreOwn, UsedMeansRead, LogNamesInput, TypeOK
  <2>6. UsedMeansRead'
    BY <2>3, <2>4, <2>5 DEF GraphInv, UsedMeansRead
  <2>7. OutputsAreOwn'
    BY <2>3, <2>4, <2>5 DEF GraphInv, OutputsAreOwn
  <2>8. GraphIsAcyclic' /\ LogNamesInput'
    BY <2>4 DEF GraphInv, GraphIsAcyclic, LogNamesInput
  <2>9. LengthsFollow'
    BY <2>3, <2>4, <2>5 DEF GraphInv, LengthsFollow
  <2>10. VerdictIsEarned'
    BY <2>4 DEF VerdictIsEarned
  <2> QED
    BY <2>6, <2>7, <2>8, <2>9, <2>10 DEF GraphInv
<1>3. CASE ExecuteTransform
  <2>1. PICK id \in TransformId :
          \E ins \in [1..Arity(id) -> InputSlots], out \in OutputSlots,
             w \in Width, full \in BOOLEAN :
            ExecuteRecord(id, ins, out, w, full)
    BY <1>3 DEF ExecuteTransform
  <2>2. PICK ins \in [1..Arity(id) -> InputSlots], out \in OutputSlots,
             w \in Width, full \in BOOLEAN :
          ExecuteRecord(id, ins, out, w, full)
    BY <2>1
  <2>3. RecordEffect(id, ins, out, w, full)
    BY <1>3, <2>2, ExecuteEffect DEF ExecuteTransform
  <2> QED
    BY <1>3, <2>3, GraphExecute DEF ExecuteTransform
<1>4. CASE Fail
  BY <1>4 DEF Fail, GraphInv, UsedMeansRead, OutputsAreOwn, GraphIsAcyclic,
              LogNamesInput, LengthsFollow, VerdictIsEarned
<1>5. CASE Judge
  <2>1. UNCHANGED <<header, slots, storedRead, log, inputsOf>>
    BY <1>5 DEF Judge
  <2>2. VerdictIsEarned'
    <3>1. status' = "accepted" => GraphIsValid /\ slots[header.final].full
      BY <1>5 DEF Judge
    <3>2. GraphIsValid' = GraphIsValid
      BY <2>1 DEF GraphIsValid, ValidFinal, FieldLzEntries, EverySlotDefined,
                  EverySlotUsed
    <3> QED
      BY <2>1, <3>1, <3>2 DEF VerdictIsEarned
  <2> QED
    BY <2>1, <2>2 DEF GraphInv, UsedMeansRead, OutputsAreOwn, GraphIsAcyclic,
                      LogNamesInput, LengthsFollow
<1>6. CASE Returned \/ UNCHANGED vars
  <2>1. UNCHANGED vars
    BY <1>6 DEF Returned
  <2>2. GraphIsValid' = GraphIsValid
    BY <2>1 DEF vars, GraphIsValid, ValidFinal, FieldLzEntries,
                EverySlotDefined, EverySlotUsed
  <2> QED
    BY <2>1, <2>2 DEF vars, GraphInv, UsedMeansRead, OutputsAreOwn,
       GraphIsAcyclic, LogNamesInput, LengthsFollow, VerdictIsEarned
<1> QED
  BY <1>1, <1>2, <1>3, <1>4, <1>5, <1>6 DEF Next

\* Slots, log and recorded inputs agree in every state in which a chunk is
\* decoded.
THEOREM GraphCorrect == Spec => [](TypeOK /\ GraphInv)
<1>1. Init => TypeOK /\ GraphInv
  BY TypeInit, GraphInit
<1>2. TypeOK /\ GraphInv /\ [Next]_vars => (TypeOK /\ GraphInv)'
  BY TypeStep, GraphStep
<1> QED
  BY <1>1, <1>2, PTL DEF Spec

-----------------------------------------------------------------------------
\* What the invariant says of a graph that is accepted

\* A slot other than the final one that some record fills is read by a later
\* record, in a graph whose non-final slots are all used.
LEMMA OutputIsReadLater ==
  ASSUME TypeOK, GraphInv, EverySlotUsed,
         NEW k \in DOMAIN log, log[k].output # header.final
  PROVE  \E j \in DOMAIN log : k < j /\ log[k].output \in inputsOf[j]
<1>1. log[k].output \in DOMAIN slots
  BY DEF TypeOK
<1>2. slots[log[k].output].used
  BY <1>1 DEF EverySlotUsed
<1>3. PICK j \in DOMAIN log : log[k].output \in inputsOf[j]
  BY <1>1, <1>2 DEF GraphInv, UsedMeansRead
<1>4. k < j
  BY <1>3 DEF GraphInv, GraphIsAcyclic
<1> QED
  BY <1>3, <1>4

\* In a valid graph the last record fills the final slot.
LEMMA LastFillsFinal ==
  ASSUME TypeOK, GraphInv, GraphIsValid
  PROVE  /\ Len(log) \in DOMAIN log
         /\ log[Len(log)].output = header.final
         /\ header.final \in DOMAIN slots
         /\ \A k \in DOMAIN log : header.final \notin inputsOf[k]
<1>1. DOMAIN log = 1..Len(log) /\ Len(log) \in Nat
  BY DEF TypeOK
<1>2. Len(log) \in DOMAIN log
  BY <1>1 DEF GraphIsValid, ValidFinal
<1>3. log[Len(log)].output = header.final
  <2> SUFFICES ASSUME log[Len(log)].output # header.final PROVE FALSE
    OBVIOUS
  <2>1. PICK j \in DOMAIN log : Len(log) < j
    BY <1>2, OutputIsReadLater DEF GraphIsValid
  <2> QED
    BY <1>1, <2>1
<1>4. \A k \in DOMAIN log : header.final \notin inputsOf[k]
  BY <1>1, <1>2, <1>3 DEF GraphInv, GraphIsAcyclic
<1> QED
  BY <1>2, <1>3, <1>4 DEF TypeOK

\* What the judgement accepts ends in its final stream.
LEMMA FinalIsLastStep ==
  ASSUME TypeOK, GraphInv
  PROVE  FinalIsLastOutput
<1> SUFFICES ASSUME status = "accepted"
             PROVE  /\ log # <<>>
                    /\ log[Len(log)].output = header.final
                    /\ ~ slots[header.final].used
                    /\ \A k \in DOMAIN log : header.final \notin inputsOf[k]
  BY DEF FinalIsLastOutput
<1>1. GraphIsValid
  BY DEF GraphInv, VerdictIsEarned
<1>2. /\ Len(log) \in DOMAIN log
      /\ log[Len(log)].output = header.final
      /\ header.final \in DOMAIN slots
      /\ \A k \in DOMAIN log : header.final \notin inputsOf[k]
  BY <1>1, LastFillsFinal
<1>3. log # <<>>
  BY <1>2
<1>4. ~ slots[header.final].used
  BY <1>2 DEF GraphInv, UsedMeansRead
<1> QED
  BY <1>2, <1>3, <1>4

\* What the judgement accepts has FieldLZ at its end.
LEMMA FieldLzEndsStep ==
  ASSUME TypeOK, GraphInv
  PROVE  FieldLzEndsTheGraph
<1> DEFINE n == Len(log)
<1> SUFFICES ASSUME status = "accepted"
             PROVE  \E k \in FieldLzEntries :
                      \/ k = n
                      \/ /\ k = n - 1
                         /\ log[n].id = "delta_int"
                         /\ inputsOf[n] = {log[k].output}
                         /\ \A j \in DOMAIN log :
                              log[k].output \in inputsOf[j] => j = n
  BY DEF FieldLzEndsTheGraph
<1>1. GraphIsValid
  BY DEF GraphInv, VerdictIsEarned
<1>2. /\ n \in DOMAIN log
      /\ log[n].output = header.final
      /\ DOMAIN log = 1..n
      /\ n \in Nat
  BY <1>1, LastFillsFinal DEF TypeOK
<1>3. PICK k \in DOMAIN log :
        /\ log[k].output = header.final
        /\ \/ log[k].id = "field_lz"
           \/ /\ log[k].id = "delta_int"
              /\ \E j \in FieldLzEntries : log[k].input = log[j].output
  BY <1>1 DEF GraphIsValid, ValidFinal
<1>4. k = n
  BY <1>2, <1>3 DEF GraphInv, OutputsAreOwn
<1>5. CASE log[k].id = "field_lz"
  BY <1>4, <1>5 DEF FieldLzEntries
<1>6. CASE /\ log[k].id = "delta_int"
           /\ \E j \in FieldLzEntries : log[k].input = log[j].output
  <2>1. PICK j \in FieldLzEntries : log[n].input = log[j].output
    BY <1>4, <1>6
  <2>2. j \in DOMAIN log
    BY DEF FieldLzEntries
  <2>3. inputsOf[n] = {log[j].output}
    BY <1>2, <1>4, <1>6, <2>1 DEF GraphInv, LogNamesInput
  <2>4. j < n
    BY <1>2, <2>2, <2>3 DEF GraphInv, GraphIsAcyclic
  <2>5. j = n - 1
    <3>1. n - 1 \in DOMAIN log
      BY <1>2, <2>2, <2>4
    <3>2. log[n - 1].output # header.final
      BY <1>2, <3>1 DEF GraphInv, OutputsAreOwn
    <3>3. PICK i \in DOMAIN log : n - 1 < i /\ log[n - 1].output \in inputsOf[i]
      BY <1>1, <3>1, <3>2, OutputIsReadLater DEF GraphIsValid
    <3>4. i = n
      BY <1>2, <3>3
    <3> QED
      BY <2>2, <2>3, <3>1, <3>3, <3>4 DEF GraphInv, OutputsAreOwn
  <2>6. \A i \in DOMAIN log : log[j].output \in inputsOf[i] => i = n
    BY <1>2, <2>2, <2>5 DEF GraphInv, GraphIsAcyclic
  <2> QED
    BY <1>4, <1>6, <2>3, <2>5, <2>6
<1> QED
  BY <1>3, <1>5, <1>6

\* A non-empty set of naturals below a bound has a greatest element.
LEMMA GreatestNatural ==
  ASSUME NEW n \in Nat, NEW S, S \subseteq 0..n, S # {}
  PROVE  \E x \in S : \A y \in S : y <= x
<1> DEFINE T == {n - y : y \in S}
<1>1. T \subseteq Nat /\ T # {}
  <2>1. ASSUME NEW y \in S PROVE n - y \in Nat
    OBVIOUS
  <2>2. PICK y \in S : TRUE
    OBVIOUS
  <2>3. n - y \in T
    OBVIOUS
  <2> QED
    BY <2>1, <2>3
<1>2. PICK t \in T : \A u \in T : ~ (u < t)
  <2> HIDE DEF T
  <2>1. IsWellFoundedOn(OpToRel(<, Nat), Nat)
    BY NatLessThanWellFounded
  <2>2. PICK t \in T : \A u \in T : ~ (<<u, t>> \in OpToRel(<, Nat))
    BY <1>1, <2>1, WFMin
  <2>3. ASSUME NEW u \in T PROVE ~ (u < t)
    BY <1>1, <2>2 DEF OpToRel
  <2> QED
    BY <2>3
<1>3. PICK x \in S : t = n - x
  OBVIOUS
<1>4. ASSUME NEW y \in S PROVE y <= x
  <2>1. n - y \in T
    OBVIOUS
  <2>2. ~ (n - y < n - x)
    BY <1>2, <1>3, <2>1
  <2>3. x \in 0..n /\ y \in 0..n
    OBVIOUS
  <2> QED
    BY <2>2, <2>3
<1> QED
  BY <1>4

\* In what the judgement accepts every slot contributes to the final stream.
LEMMA EverySlotReachesStep ==
  ASSUME TypeOK, GraphInv
  PROVE  EverySlotReachesFinal
<1> SUFFICES ASSUME status = "accepted",
                    NEW S \in SUBSET DOMAIN slots,
                    header.final \in S,
                    \A k \in DOMAIN log :
                      log[k].output \in S => inputsOf[k] \subseteq S,
                    S # DOMAIN slots
             PROVE  FALSE
  BY DEF EverySlotReachesFinal
<1> DEFINE Outside == {k \in DOMAIN log : log[k].output \notin S}
<1>1. GraphIsValid
  BY DEF GraphInv, VerdictIsEarned
<1>2. Len(log) \in Nat /\ DOMAIN log = 1..Len(log)
  BY DEF TypeOK
<1>3. Outside # {}
  <2>1. PICK s \in DOMAIN slots : s \notin S
    OBVIOUS
  <2>2. slots[s].used
    BY <1>1, <2>1 DEF GraphIsValid, EverySlotUsed
  <2>3. PICK k \in DOMAIN log : s \in inputsOf[k]
    BY <2>2 DEF GraphInv, UsedMeansRead
  <2> QED
    BY <2>1, <2>3
<1>4. Outside \subseteq 0..Len(log)
  BY <1>2
<1>5. PICK last \in Outside : \A k \in Outside : k <= last
  BY <1>2, <1>3, <1>4, GreatestNatural
<1>6. log[last].output # header.final
  BY <1>5
<1>7. PICK j \in DOMAIN log : last < j /\ log[last].output \in inputsOf[j]
  BY <1>1, <1>5, <1>6, OutputIsReadLater DEF GraphIsValid
<1>8. j \notin Outside
  BY <1>2, <1>5, <1>7
<1> QED
  BY <1>5, <1>7, <1>8

\* A valid graph has a final stream as long as the chunk.
LEMMA FinalLengthStep ==
  ASSUME TypeOK, GraphInv
  PROVE  FinalLengthIsImplied
BY Zenon DEF FinalLengthIsImplied, GraphIsValid, ValidFinal, FieldLzEntries,
             GraphInv, LengthsFollow

-----------------------------------------------------------------------------
\* The theorems

\* No transform reads its own output or a later one's.
THEOREM AcyclicGraph == Spec => []GraphIsAcyclic
<1>1. GraphInv => GraphIsAcyclic
  BY DEF GraphInv
<1> QED
  BY <1>1, GraphCorrect, PTL

\* The final stream of an accepted graph is the last thing produced, and
\* nothing consumed it.
THEOREM FinalStreamIsLast == Spec => []FinalIsLastOutput
BY GraphCorrect, FinalIsLastStep, PTL

\* FieldLZ is the last transform of an accepted graph, or the last but one
\* before the delta_int that consumes it.
THEOREM FieldLzIsAtTheEnd == Spec => []FieldLzEndsTheGraph
BY GraphCorrect, FieldLzEndsStep, PTL

\* Every stream of an accepted graph contributes to its final stream.
THEOREM NoDeadStreams == Spec => []EverySlotReachesFinal
BY GraphCorrect, EverySlotReachesStep, PTL

\* The final length check can refuse nothing the other checks let through.
THEOREM FinalLengthFollows == Spec => []FinalLengthIsImplied
BY GraphCorrect, FinalLengthStep, PTL

\* A filled slot keeps its bytes, a used slot stays used.
THEOREM SlotsKeepTheirBytes == Spec => SlotsAreWriteOnce
<1>1. ASSUME TypeOK, [Next]_vars, status = "reading"
      PROVE  \A s \in DOMAIN slots :
               /\ slots[s].defined => /\ slots'[s].defined
                                      /\ slots'[s].width = slots[s].width
                                      /\ slots'[s].full = slots[s].full
               /\ slots[s].used => slots'[s].used
  <2>1. CASE ReadHeader
    BY <1>1, <2>1 DEF ReadHeader
  <2>2. CASE ReadStored
    <3>1. PICK r \in Undefined, full \in BOOLEAN :
            slots' = [slots EXCEPT ![r].defined = TRUE, ![r].full = full]
      BY <2>2 DEF ReadStored
    <3>2. /\ r \in DOMAIN slots
          /\ ~ slots[r].defined
          /\ slots \in [DOMAIN slots -> Slot]
      BY <1>1, <3>1 DEF Undefined, Defined, TypeOK
    <3> QED
      BY <3>1, <3>2 DEF Slot
  <2>3. CASE ExecuteTransform
    <3>1. PICK id \in TransformId :
            \E ins \in [1..Arity(id) -> InputSlots], out \in OutputSlots,
               w \in Width, full \in BOOLEAN :
              ExecuteRecord(id, ins, out, w, full)
      BY <2>3 DEF ExecuteTransform
    <3>2. PICK ins \in [1..Arity(id) -> InputSlots], out \in OutputSlots,
               w \in Width, full \in BOOLEAN :
            ExecuteRecord(id, ins, out, w, full)
      BY <3>1
    <3>3. RecordEffect(id, ins, out, w, full)
      BY <1>1, <2>3, <3>2, ExecuteEffect DEF ExecuteTransform
    <3> QED
      BY <3>3 DEF RecordEffect, Undefined, Defined
  <2>4. CASE Fail \/ Judge \/ Returned \/ UNCHANGED vars
    BY <2>4 DEF Fail, Judge, Returned, vars
  <2> QED
    BY <1>1, <2>1, <2>2, <2>3, <2>4 DEF Next
<1>2. TypeOK /\ [Next]_vars =>
        [status = "reading" =>
           \A s \in DOMAIN slots :
             /\ slots[s].defined => /\ slots'[s].defined
                                    /\ slots'[s].width = slots[s].width
                                    /\ slots'[s].full = slots[s].full
             /\ slots[s].used => slots'[s].used]_vars
  BY <1>1
<1> QED
  BY <1>2, TypeCorrect, PTL DEF Spec, SlotsAreWriteOnce

=============================================================================
