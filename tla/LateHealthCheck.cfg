\* A result that arrives during a health check is overwritten.
SPECIFICATION MCSpec
CONSTANTS
  h1 = h1
  h2 = h2
  w1 = w1
  w2 = w2
  Loop = Loop
  NoTask = NoTask
  NoHost = NoHost
  NoLimit = NoLimit
  Host <- OneHost
  Task <- OneTask
  Thread <- OneThread
  Registered <- OneHost
  Priority <- SamePriority
  CpuLimit <- Unlimited
  MemLimit <- Unlimited
  CpuReport <- Zero
  MemReport <- Zero
  Reported <- OneOutcome
  MaxRequests = 5
PROPERTIES
  FinishedIsNotRequeued
SYMMETRY Interchangeable
CHECK_DEADLOCK FALSE
