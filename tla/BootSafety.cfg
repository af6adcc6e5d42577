\* boots, stops, new containers and runs by hand
SPECIFICATION FairSpec
CONSTANTS
  Files <- MCFiles
  Services <- MCServices
  WithServices = TRUE
  MaxRuns = 3
INVARIANTS FilesComplete PublishedWhenServing ShapedWhenServing EveryScriptScheduled OverlapCause
PROPERTIES ComesUp
CHECK_DEADLOCK FALSE
