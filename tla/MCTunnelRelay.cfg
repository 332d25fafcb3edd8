CONSTANTS
  Streams <- MCStreams
  Stallable <- MCStallable
  MaxEarly = 1
SPECIFICATION Spec
INVARIANTS
  TypeOK
  StreamsPreserved
  EofLosesNothing
PROPERTIES
  EndTogether
  Unblocked
  ImplementsPipe
\* Two silent peers leave the tunnel waiting for ever.
CHECK_DEADLOCK FALSE
