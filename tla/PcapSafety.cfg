\* three runs of the manager, two of which may overlap
SPECIFICATION Spec
CONSTANTS
  MaxRuns = 3
  MaxOverlaps = 1
  Calm = TRUE
  GrepSeen = TRUE
INVARIANTS TypeOK OneTcpdump ReadsOwnCapture NewestOnly InitKilledByOrphan
CHECK_DEADLOCK FALSE
