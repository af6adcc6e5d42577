\* a child forked while TCP and kill connections are open
SPECIFICATION Spec
CONSTANTS
  TcpClients = {t1}
  KillClients = {k1, k2}
  Main = Main
  Polling = Polling
  Backlog = 2
  MaxChunks <- OneChunk
  MaxPollers = 2
SYMMETRY KillSymmetry
INVARIANTS TypeOK KillIsolation LeaksEndWithChildren PollNeverBlocks
CHECK_DEADLOCK FALSE
