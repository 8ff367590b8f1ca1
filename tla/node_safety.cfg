SPECIFICATION Spec
CONSTANTS
  p1 = p1
  p2 = p2
  c1 = c1
  c2 = c2
  Peer = {p1, p2}
  Conn = {c1, c2}
  PeerOf <- OneSessionEach
  NoConn = NoConn
  Sends = {"Hello", "AddressBookRequest", "Malformed"}
  SocketCap = 1
  InboxCap = 1
  Backlog = 1
SYMMETRY Interchange
INVARIANTS
  TypeOK
  NoSendToDisconnected
  RequesterListed
  OrderlyExit
  IdleAgreement
  SessionOrder
PROPERTY ImplementsMembership
CHECK_DEADLOCK FALSE
