SPECIFICATION Spec
CONSTANTS
  MaxChunk = 5
  MinZstd = 3
  MinRich = 2
  FieldLzWidths <- MCFieldLzWidths
  SplitLanes = 4
  MaxSlots = 19
  MaxTransforms = 11
  Width <- MCWidth
INVARIANTS
  PlanTypeOK
  StreamIdsAreDense
  PlanIsDecoded
PROPERTIES
  EventuallyAccepted
