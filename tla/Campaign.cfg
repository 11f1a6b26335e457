\* Two images, two refreshes at a time, one failure.
SPECIFICATION Spec
CONSTANTS
  NoFile = NoFile
  Empty = Empty
  Torn = Torn
  r1 = r1
  r2 = r2
  N = 2
  Refresher <- TwoRefreshers
  MaxFailures = 1
INVARIANTS
  CampaignTypeOK
  CompletedIsFetched
PROPERTIES
  EveryCampaignEnds
CHECK_DEADLOCK FALSE
