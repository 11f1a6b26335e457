\* One agent that may be restarted between tasks, one or two workers, clients that cancel and delete.
SPECIFICATION MCFairSpec
CONSTANTS
  h1 = h1
  h2 = h2
  a1 = a1
  a2 = a2
  Loop = Loop
  NoTask = NoTask
  NoHost = NoHost
  NoLimit = NoLimit
  NoCaller = NoCaller
  Host <- TwoHosts
  Task <- OneTask
  Thread <- TwoThreads
  Registered <- None
  Priority <- SamePriority
  CpuLimit <- Unlimited
  MemLimit <- Unlimited
  CpuReport <- Zero
  MemReport <- Zero
  Reported <- TwoOutcomes
  Agent <- OneAgent
  Cancellable <- OneTask
  FailAt <- BetweenTasks
  CrashAt <- BetweenTasks
  Restarting <- OneAgent
  Slow <- None
  Mortal <- OneAgent
  MaxFailures = 1
INVARIANTS
  WorkIsHeld
  SwarmTypeOK
PROPERTIES
  EveryTaskEnds
