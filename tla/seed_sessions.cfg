SPECIFICATION PoliteSpec
CONSTANTS
  n1 = n1
  n2 = n2
  n3 = n3
  r1 = r1
  c1 = c1
  c2 = c2
  c3 = c3
  Node = {n1}
  Remote = {r1}
  Conn = {c1, c2}
  From <- RemoteFrom
  To <- RemoteTo
  NoEnd = NoEnd
  Starved = {n1}
  Commands <- NodeCommands
  InboxCap = 1
  Backlog = 1
INVARIANT ListedServed
PROPERTIES
  SessionReleased
  TerminateHandled
CHECK_DEADLOCK FALSE
