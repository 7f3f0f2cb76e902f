SPECIFICATION Spec
CONSTANTS
  NumActivations = 5
  Numels = {1, 3}
  Alignment = 8
  Graphs <- ActivationGraphs
INVARIANTS
  TypeOK
  NothingOverwrittenWhileNeeded
  LiveTogetherApart
  AlignedInsideArena
  PeakBetweenBounds
  EveryActivationPlaced
CHECK_DEADLOCK FALSE
