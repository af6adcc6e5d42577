\* managers one after the other and at a time
SPECIFICATION Spec
CONSTANTS
  Ports <- MCPorts
  MaxRuns = 3
  MaxRotated = 1
INVARIANTS LossCause LogVisible
CHECK_DEADLOCK FALSE
