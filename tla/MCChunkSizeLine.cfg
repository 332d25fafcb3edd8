CONSTANTS
  SizeMax = 255
  Alphabet <- MCAlphabet
  MaxLine = 5
SPECIFICATION LineSpec
INVARIANT ParseAgreesWithGrammar
PROPERTY FindCrlfStable
CHECK_DEADLOCK FALSE
