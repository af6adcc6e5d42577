\* services and filter in one container; container restarts
SPECIFICATION Spec
CONSTANTS
  Groups <- MCGroups
  Rules <- MCRules
  NoPort = NoPort
  Hosts = {h1}
  WithServices = TRUE
  WithFiltering = TRUE
  Live = FALSE
  MayFail = {"clear"}
  MaxRuns = 3
  MaxFaults = 2
INVARIANTS TypeOK NeverMisclassified EmulationExact RoundTripExact ReachesService
PROPERTIES EmulationPromise
CHECK_DEADLOCK FALSE
