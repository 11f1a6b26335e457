\* One of two agents dies, or its heartbeat thread does.
SPECIFICATION MCFairSpec
CONSTANTS
  h1 = h1
  h2 = h2
  a1 = a1
  a2 = a2
  Loop = Loop
  NoTask = NoTask
  NoHost = NoHost
  NoLimit = NoLimit
  NoCaller = NoCaller
  Host <- TwoHosts
  Task <- OneTask
  Thread <- OneThread
  Registered <- None
  Priority <- SamePriority
  CpuLimit <- Unlimited
  MemLimit <- Unlimited
  CpuReport <- Zero
  MemReport <- Zero
  Reported <- TwoOutcomes
  Agent <- TwoAgents
  Cancellable <- None
  FailAt <- Beating
  CrashAt <- Anywhere
  Restarting <- None
  Slow <- None
  Mortal <- OneAgent
  MaxFailures = 1
PROPERTIES
  EveryTaskEnds
  RequeuedWithItsHost
