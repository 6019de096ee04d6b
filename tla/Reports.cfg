SPECIFICATION Spec
CONSTANTS
  None = None
  SS_MAXLEN = 2
  WINDOW_S = 6
  DISK_FLOOR_GB = 2
  MAX_DOWNLOAD_GB = 2
  MaxRevs = 3
  Unit = 2
  MaxSteps = 3
  MaxLives = 2
  MaxServed = 2
  Times = {1}
  MaxLane = 2
  MaxRuns = 2
  Pauses = {0, 1}
  Small = {0, 1, 2}
  BlobSizes = {0, 1, 9, 10, 11, 195, 392}
  HubSizes = {0, 1, 98, 196}
INVARIANTS GaugesAddUp SampleIsExplained RecentCounts GridKeepsEveryPoint
  RatesSurviveTheWriter PageShowsTheRun ViewsAgree NoFakeZero OneSoakView
  LanesBound BestIsBest PlanAgreesWithGate PercentOfTheBytes
