SPECIFICATION Spec
CONSTANTS
  h1 = h1
  h2 = h2
  NoHost = NoHost
  NoLimit = NoLimit
  Host <- MCHost
  Task <- MCTask
  Priority <- MCPriority
  CpuLimit <- MCCpuLimit
  MemLimit <- MCMemLimit
  ReadableRow <- MCReadableRow
INVARIANTS
  TypeOK
  NeverOverdrawn
  NothingLeftFits
  PlacedWhereAlive
PROPERTY
  ImplementsPassResult
CHECK_DEADLOCK FALSE
