\* filter container; configure run again in a live namespace
SPECIFICATION Spec
CONSTANTS
  Groups <- MCGroups
  Rules <- MCRules
  NoPort = NoPort
  Hosts = {h1, h2}
  WithServices = FALSE
  WithFiltering = TRUE
  Live = TRUE
  MayFail = {"snat", "clear"}
  MaxRuns = 3
  MaxFaults = 2
INVARIANTS RoundTripExact RetryStartsClean NewestHostWins
CHECK_DEADLOCK FALSE
