CONSTANTS
  Obj = {o01, o02, o03, o04, o05, o06, o07, o08, o09, o10, o11, o12, o13, o14, o15, o16}
  Ctx = {c1}
  Immediate = {"undefined", "null", "bool", "int"}
  Keys = {"ctx", "phase", "request", "response", "method", "target", "version", "headers", "status", "reason", "x-a", "x-b"}
  Index <- MCIndex
  IndexBits = 2
  RequestNames <- MCRequestNames
  ResponseNames <- MCResponseNames
SPECIFICATION Spec
INVARIANTS
  SeesWholeContext
  CleanBetweenMatches
  FirstErrorReported
\* The process ends.
CHECK_DEADLOCK FALSE
