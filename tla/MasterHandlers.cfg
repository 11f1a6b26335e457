\* Two overlapping handlers and the loop, one host, one task, three requests.
SPECIFICATION MCSpec
CONSTANTS
  h1 = h1
  h2 = h2
  w1 = w1
  w2 = w2
  Loop = Loop
  NoTask = NoTask
  NoHost = NoHost
  NoLimit = NoLimit
  Host <- OneHost
  Task <- OneTask
  Thread <- TwoThreads
  Registered <- OneHost
  Priority <- SamePriority
  CpuLimit <- OneUnit
  MemLimit <- Unlimited
  CpuReport <- OnlyOne
  MemReport <- Zero
  Reported <- OneOutcome
  MaxRequests = 3
INVARIANTS
  TypeOK
  AssignmentMatchesStatus
  SnapshotsSound
  NoDebt
PROPERTIES
  RequeuedWithItsHost
  RevivedByOldNews
  PassesAsAlone
  AssignedWhenReady
SYMMETRY Interchangeable
CHECK_DEADLOCK FALSE
