\* The loop dies of a row that is deleted while it works.
SPECIFICATION MCSpec
CONSTANTS
  h1 = h1
  h2 = h2
  w1 = w1
  w2 = w2
  Loop = Loop
  NoTask = NoTask
  NoHost = NoHost
  NoLimit = NoLimit
  Host <- OneHost
  Task <- OneTask
  Thread <- TwoThreads
  Registered <- OneHost
  Priority <- SamePriority
  CpuLimit <- Unlimited
  MemLimit <- Unlimited
  CpuReport <- Zero
  MemReport <- Zero
  Reported <- OneOutcome
  MaxRequests = 4
INVARIANTS
  LoopKeepsRunning
SYMMETRY Interchangeable
CHECK_DEADLOCK FALSE
