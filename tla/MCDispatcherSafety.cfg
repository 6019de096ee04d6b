\* serve.sh's exit status may lie, everything may fail, put-backs included.
SPECIFICATION Spec
CONSTANTS
  Engine = {"glm53", "cruz"}
  Baseline = "glm53"
  None = "none"
  Returning = {}
  Apart = FALSE
  ServeFaithful = FALSE
  Tick = {t1, t2}
  Name = {1, 2}
  MaxPosts = 2
  Requests <- MCSwitchingEvals
  FreshNames = TRUE
  HistoryCap = 4
  MaxCrashes = 1
  MaxDrifts = 1
  MaxOutside = 1
  MaxFaults = 1
INVARIANTS TypeOK OneTick
PROPERTIES NamedWhileMeasured ReceiptKept LostOnlyInPutBack
SYMMETRY Symmetry
