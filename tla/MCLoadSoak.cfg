\* Two phases, two workers, a telemetry thread.
SPECIFICATION FairSpec
CONSTANTS
  w1 = w1
  w2 = w2
  Worker <- MCWorker
  Phases = 2
  Conc <- MCConc
  None = None
  Empty = Empty
  Torn = Torn
  Old = Old
  MaxPosts = 2
  MaxSamples = 2
INVARIANTS TypeOK CountsAgree ExitTellsTheTruth
PROPERTIES NothingUnpublished RunEnds
CHECK_DEADLOCK FALSE
