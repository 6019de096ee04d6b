\* serve.sh keeps its word; a crash and a failing file operation or restore.
SPECIFICATION FairSpec
CONSTANTS
  Engine = {"glm53", "cruz"}
  Baseline = "glm53"
  None = "none"
  Returning = {}
  Apart = FALSE
  ServeFaithful = TRUE
  Tick = {t1}
  Name = {1, 2}
  MaxPosts = 2
  Requests <- MCNoDownloads
  FreshNames = TRUE
  HistoryCap = 4
  MaxCrashes = 1
  MaxDrifts = 0
  MaxOutside = 0
  MaxFaults = 1
INVARIANTS NoJobLost RunsBounded DoneIsAccountedFor
PROPERTIES ImplementsBoard EverySettles BoxComesHome NoGhostRun
