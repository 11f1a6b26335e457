\* A host lapses while a pass that read it is under way.
SPECIFICATION MCFairSpec
CONSTANTS
  h1 = h1
  h2 = h2
  a1 = a1
  a2 = a2
  Loop = Loop
  NoTask = NoTask
  NoHost = NoHost
  NoLimit = NoLimit
  NoCaller = NoCaller
  Host <- TwoHosts
  Task <- OneTask
  Thread <- OneThread
  Registered <- None
  Priority <- SamePriority
  CpuLimit <- Unlimited
  MemLimit <- Unlimited
  CpuReport <- Zero
  MemReport <- Zero
  Reported <- OneOutcome
  Agent <- TwoAgents
  Cancellable <- None
  FailAt <- None
  CrashAt <- Anywhere
  Restarting <- None
  Slow <- Passing
  Mortal <- OneAgent
  MaxFailures = 1
PROPERTIES
  EveryTaskEnds
