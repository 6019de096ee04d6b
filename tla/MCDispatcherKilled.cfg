\* A runner outlives its timeout and SIGTERM.
SPECIFICATION Spec
CONSTANTS
  Engine = {"glm53", "cruz", "exl3"}
  Baseline = "glm53"
  None = "none"
  Returning = {}
  Apart = FALSE
  ServeFaithful = TRUE
  Tick = {t1}
  Name = {1, 2}
  MaxPosts = 2
  Requests <- MCEvals
  FreshNames = TRUE
  HistoryCap = 3
  MaxCrashes = 0
  MaxDrifts = 0
  MaxOutside = 0
  MaxFaults = 0
INVARIANTS DoneMeansExitZero
