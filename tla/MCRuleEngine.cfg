CONSTANTS
  Lower <- MCLower
  Meaning <- MCMeaning
  Json <- MCJson
  Documents <- MCDocuments
  RequestHeaders <- MCRequestHeaders
  ResponseHeaders <- MCResponseHeaders
  TooLong <- MCTooLong
  ContextMayFail = TRUE
SPECIFICATION Spec
INVARIANTS
  TypeOK
  ProtectedUntouched
  UntargetedKept
  SchemaSuffices
  DocumentHonoured
  ExecutedInOrder
PROPERTY
  ForwardedOrTooLong
\* An exchange ends.
CHECK_DEADLOCK FALSE
