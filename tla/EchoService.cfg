\* what is echoed, and that every connection is accepted and closed in the end
SPECIFICATION FairSpec
CONSTANTS
  TcpClients = {t1}
  KillClients = {k1}
  Main = Main
  Polling = Polling
  Backlog = 2
  MaxChunks <- TwoToKill
  MaxPollers = 1
INVARIANTS EchoInOrder
PROPERTIES Accepted KilledIsReset ClosedIsReleased
CHECK_DEADLOCK FALSE
