CONSTANTS
  SizeMax = 255
  MaxRead = 3
  Inputs <- MCInputs
SPECIFICATION Spec
INVARIANTS
  TypeOK
  StreamPreserved
  TrueMeansWholeBody
  NeverPastBody
  FalseOnlyForCause
PROPERTIES
  EndsOrStarves
