\* Engines die and restart, stops, starts and calls fail, ports are held.
SPECIFICATION FairSpec
CHECK_DEADLOCK FALSE
CONSTANTS
  MaxCalls = 3
  MaxDeaths = 1
INVARIANTS TypeOK ArmClears
PROPERTIES KeepsContract EveryCallEnds
