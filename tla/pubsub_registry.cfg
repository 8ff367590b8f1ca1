SPECIFICATION Spec
CONSTANTS
  PeerEventID = {"PeerDisconnect"}
  SubscriptionID = {s1, s2}
  Channel = {ch1, ch2}
  Bounded = {ch1}
  Capacity = 1
  Backlog = 1
INVARIANTS
  TypeOK
  IndicesAgree
PROPERTY ImplementsRegistry
CHECK_DEADLOCK FALSE
