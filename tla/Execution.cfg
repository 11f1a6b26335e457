\* Two executions of one task on two agents, two files.
SPECIFICATION MCSpec
CONSTANTS
  a1 = a1
  a2 = a2
  Agent <- TwoAgents
  File <- TwoFiles
  MaxRuns = 3
PROPERTIES
  EveryExecutionEnds
INVARIANTS
  ExecutionTypeOK
  SuccessIsComplete
  NothingRunsOn
  SuccessServedUnlessMixed
CHECK_DEADLOCK FALSE
