\* silent and leaving clients; descriptors run out
SPECIFICATION FairSpec
CONSTANTS
  c1 = c1
  c2 = c2
  c3 = c3
  tls = tls
  mutual = mutual
  None = None
  Clients = {c1, c2, c3}
  Listeners = {tls, mutual}
  ListenerOf <- MCListenerOf
  Mutual = {mutual}
  Certified = {c2, c3}
  Backlog = 2
  MaxFds = 2
  MaxSends = 1
INVARIANTS NoLeak
PROPERTIES NotStarved
CHECK_DEADLOCK FALSE
