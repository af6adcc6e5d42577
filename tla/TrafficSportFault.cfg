\* a sport filter is refused
SPECIFICATION Spec
CONSTANTS
  Groups <- MCGroups
  Rules <- MCRules
  NoPort = NoPort
  Hosts = {h1}
  WithServices = TRUE
  WithFiltering = TRUE
  Live = FALSE
  MayFail = {"sport"}
  MaxRuns = 1
  MaxFaults = 1
INVARIANTS AnnouncedMeansFiltered
CHECK_DEADLOCK FALSE
