\* Two images, two polls at a time, two comparisons, one crash.
SPECIFICATION MCSpec
CONSTANTS
  NoFile = NoFile
  Empty = Empty
  Torn = Torn
  p1 = p1
  p2 = p2
  c1 = c1
  c2 = c2
  N = 2
  Poller <- TwoPollers
  Comparer <- TwoComparers
  MaxCrashes = 1
INVARIANTS
  LocalTypeOK
  CompletedIsComplete
  EndedIsAtRest
  BenchmarkIsOwnUnlessMixed
PROPERTIES
  EveryRunEnds
CHECK_DEADLOCK FALSE
