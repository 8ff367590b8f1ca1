SPECIFICATION FairSpec
CONSTANTS
  p1 = p1
  p2 = p2
  c1 = c1
  c2 = c2
  Peer = {p1}
  Conn = {c1}
  PeerOf <- SinglePeer
  NoConn = NoConn
  Sends = {"Hello", "AddressBookRequest", "Malformed"}
  SocketCap = 1
  InboxCap = 1
  Backlog = 2
PROPERTIES
  ExitConfirmed
  ConnReleased
  SubTasksExit
  RequestAnswered
CHECK_DEADLOCK FALSE
