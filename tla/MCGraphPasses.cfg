SPECIFICATION Spec
CONSTANT Cases <- MCCases
INVARIANTS
  Executable
  Recognized
  NothingDead
  SafeCasesInOrder
PROPERTIES
  SameResults
  Settled
