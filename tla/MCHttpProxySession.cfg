CONSTANTS
  Hosts <- MCHosts
  Cases <- MCCases
  RequestBodyLimit = 1
  ResponseBodyLimit = 1
SPECIFICATION Spec
INVARIANTS
  TypeOK
  ResponsesWhole
  RequestsRouted
  ConnectionMatches
  KeepAliveHonoured
  OrderlyBufferIsCurrent
PROPERTIES
  ImplementsOrderedExchanges
  OrderlyAnsweredOrEnded
  LeftClientEnds
\* The session stops when its client leaves.
CHECK_DEADLOCK FALSE
