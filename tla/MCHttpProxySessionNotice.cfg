CONSTANTS
  Hosts <- MCHosts
  Cases <- MCNoticeCases
  RequestBodyLimit = 1
  ResponseBodyLimit = 1
SPECIFICATION Spec
INVARIANT
  RemoteBufferIsCurrent
\* The session stops when its client leaves.
CHECK_DEADLOCK FALSE
