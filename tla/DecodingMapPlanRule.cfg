SPECIFICATION Spec
CONSTANTS
  MaxSlots = 4
  MaxTransforms = 3
  Width <- MCWidth
  FieldLzWidths <- MCFieldLzWidths
  SplitLanes = 2
INVARIANTS
  FinalIsFieldLzOutput
