SPECIFICATION FairSpec
CONSTANTS
  p1 = p1
  ip1 = ip1
  text1 = text1
  badtext = badtext
  Id = {p1}
  Ip = {ip1}
  Text = {text1, badtext}
  Show <- Ip1Shown
  Parse <- Ip1Parsed
  NoIp = NoIp
  PortLimit = 4
  Message <- Sendable
  Greeting <- MyHello
  AnyMsg <- MCAny
  Encoding <- Bytes
  Foreign <- ForeignFrames
  Base = 3
  MaxLen = 4
  BufCap = 6
  MaxSent = 3
INVARIANTS
  TypeOK
  ReaderInStep
PROPERTIES
  ImplementsChannel
  ReaderEnds
  DroppedPeerDrained
CHECK_DEADLOCK FALSE
