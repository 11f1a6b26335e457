\* The agent crashes while it executes a task and is restarted.
SPECIFICATION MCFairSpec
CONSTANTS
  h1 = h1
  h2 = h2
  a1 = a1
  a2 = a2
  Loop = Loop
  NoTask = NoTask
  NoHost = NoHost
  NoLimit = NoLimit
  NoCaller = NoCaller
  Host <- OneHost
  Task <- OneTask
  Thread <- OneThread
  Registered <- None
  Priority <- SamePriority
  CpuLimit <- Unlimited
  MemLimit <- Unlimited
  CpuReport <- Zero
  MemReport <- Zero
  Reported <- OneOutcome
  Agent <- OneAgent
  Cancellable <- None
  FailAt <- None
  CrashAt <- Executing
  Restarting <- OneAgent
  Slow <- None
  Mortal <- OneAgent
  MaxFailures = 1
PROPERTIES
  EveryTaskEnds
