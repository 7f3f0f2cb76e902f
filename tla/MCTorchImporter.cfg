SPECIFICATION Spec
CONSTANT Programs <- MCPrograms
PROPERTIES SameOutputs DeclaredShapes
CHECK_DEADLOCK FALSE
