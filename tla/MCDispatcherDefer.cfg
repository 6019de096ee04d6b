\* Measurements outside the queue come and go, and so do engines; the listener of
\* the port may be another engine than the active unit.
SPECIFICATION FairSpec
CONSTANTS
  Engine = {"glm53", "cruz"}
  Baseline = "glm53"
  None = "none"
  Returning = {"cruz"}
  Apart = TRUE
  ServeFaithful = TRUE
  Tick = {t1}
  Name = {1, 2}
  MaxPosts = 2
  Requests <- MCDeferred
  FreshNames = TRUE
  HistoryCap = 3
  MaxCrashes = 0
  MaxDrifts = 1
  MaxOutside = 2
  MaxFaults = 0
PROPERTIES ReceiptTruthful EverySettles ImplementsBoard
