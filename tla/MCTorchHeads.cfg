SPECIFICATION Spec
CONSTANT Programs <- HeadPrograms
PROPERTY SameOutputs
CHECK_DEADLOCK FALSE
