CONSTANTS
  SizeMax = 255
  Alphabet <- MCAlphabet
  MaxLine = 5
SPECIFICATION LineSpec
INVARIANT NoMalformedSize
CHECK_DEADLOCK FALSE
