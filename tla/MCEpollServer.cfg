SPECIFICATION FairSpec
CONSTANTS
  c1 = c1
  c2 = c2
  Variants <- MCVariants
  Clients = {c1, c2}
  FdLimits = {1, 2}
  MaxEvents = 2
  RecvMax <- MCRecvMax
  MaxSent = 3
  MaxStarts = 2
INVARIANT Inv
PROPERTIES PeersServed ConnectionsAccepted SleepsWhenIdle
CHECK_DEADLOCK FALSE
