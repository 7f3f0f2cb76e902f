SPECIFICATION Spec
CONSTANT Cases <- MCColumnSoftmax
PROPERTY
  SameResults
