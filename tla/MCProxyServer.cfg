CONSTANTS
  Ports <- MCPorts
  MaxStarts = 3
  MaxClients = 3
  Descriptors = 3
SPECIFICATION Spec
INVARIANTS
  TypeOK
  ReadyFileWhole
PROPERTY
  ClientsTaken
\* The process is started a bounded number of times.
CHECK_DEADLOCK FALSE
