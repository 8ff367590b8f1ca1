SPECIFICATION Spec
CONSTANTS
  n1 = n1
  n2 = n2
  n3 = n3
  r1 = r1
  c1 = c1
  c2 = c2
  c3 = c3
  Node = {n1, n2}
  Remote = {}
  Conn = {c1, c2}
  From <- CrossFrom
  To <- CrossTo
  NoEnd = NoEnd
  Starved = {n2}
  Commands <- CrossCommands
  InboxCap = 1
  Backlog = 1
INVARIANTS
  TypeOK
  StreamsHeld
  MutualSessions
PROPERTY ImplementsConnections
CHECK_DEADLOCK FALSE
