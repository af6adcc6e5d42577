\* pid 1 gets a signal
SPECIFICATION Spec
CONSTANTS
  MaxRuns = 3
  MaxOverlaps = 0
  Calm = TRUE
  GrepSeen = TRUE
INVARIANTS InitSpared
CHECK_DEADLOCK FALSE
