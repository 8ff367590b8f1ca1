SPECIFICATION FairSpec
CONSTANTS
  n1 = n1
  n2 = n2
  n3 = n3
  r1 = r1
  c1 = c1
  c2 = c2
  c3 = c3
  Node = {n1, n2, n3}
  Remote = {}
  Conn = {c1, c2, c3}
  From <- ChainFrom
  To <- ChainTo
  NoEnd = NoEnd
  Starved = {}
  Commands <- ChainDials
  InboxCap = 1
  Backlog = 1
PROPERTIES
  Discovered
CHECK_DEADLOCK FALSE
