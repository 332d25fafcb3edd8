CONSTANTS
  Hosts <- MCHosts
  Cases <- MCInterimCases
  RequestBodyLimit = 1
  ResponseBodyLimit = 1
SPECIFICATION Spec
PROPERTY
  AnsweredOrEnded
\* The session stops when its client leaves.
CHECK_DEADLOCK FALSE
