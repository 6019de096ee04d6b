\* A file operation of the put-back fails.
SPECIFICATION Spec
CONSTANTS
  Engine = {"glm53", "cruz", "exl3"}
  Baseline = "glm53"
  None = "none"
  Returning = {}
  Apart = FALSE
  ServeFaithful = TRUE
  Tick = {t1}
  Name = {1, 2}
  MaxPosts = 2
  Requests <- MCEvals
  FreshNames = TRUE
  HistoryCap = 3
  MaxCrashes = 0
  MaxDrifts = 0
  MaxOutside = 1
  MaxFaults = 1
INVARIANTS NoJobLost
