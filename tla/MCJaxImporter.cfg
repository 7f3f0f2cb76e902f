SPECIFICATION Spec
CONSTANT Programs <- MCPrograms
PROPERTIES SameOutputs DeclaredShapes
INVARIANT RefusedForReason
CHECK_DEADLOCK FALSE
