SPECIFICATION FairSpec
CONSTANTS
  Node = {n1, n2}
  Seed = seed
  Backlog = 1
INVARIANTS
  TypeOK
  ExitWhenConnected
  ReportsCounted
PROPERTIES
  AllConnectAndExit
  ImplementsRendezvous
CHECK_DEADLOCK FALSE
