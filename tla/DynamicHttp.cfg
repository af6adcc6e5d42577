\* requests that are complete, partial, wrong or abandoned, and parts that arrive in any way
SPECIFICATION FairSpec
CONSTANTS
  t = t
  u = u
  v = v
  Clients = {t, u, v}
  TcpClients = {t}
  EchoClients = {t, u}
  Server = Server
  Stranger = Stranger
  Rounds = 2
  LastPort = 2
  MaxParts <- MCMaxParts
  Nobody = Nobody
  Backlog = 2
INVARIANTS TypeOK EchoConserved PortsDistinct
PROPERTIES ClientEnds OnlyStalledBlocks
CHECK_DEADLOCK FALSE
