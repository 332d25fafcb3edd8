CONSTANTS
  Lower <- MCLower
  Meaning <- MCMeaning
  Json <- MCJson
  Documents <- MCDocuments
  RequestHeaders <- MCRequestHeaders
  ResponseHeaders <- MCResponseHeaders
  TooLong <- MCTooLong
  ContextMayFail = FALSE
SPECIFICATION Spec
INVARIANT
  EachRuleEvaluated
\* An exchange ends.
CHECK_DEADLOCK FALSE
