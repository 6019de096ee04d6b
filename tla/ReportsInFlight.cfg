SPECIFICATION Spec
CONSTANTS
  None = None
  SS_MAXLEN = 2
  WINDOW_S = 6
  DISK_FLOOR_GB = 2
  MAX_DOWNLOAD_GB = 2
  MaxRevs = 3
  Unit = 2
  MaxSteps = 3
  MaxLives = 1
  MaxServed = 2
  Times = {1, 2}
  MaxLane = 2
  MaxRuns = 2
  Pauses = {0, 1}
  Small = {0, 1, 2}
  BlobSizes = {0, 1}
  HubSizes = {0, 1}
INVARIANT SampleIsARequests
