SPECIFICATION Spec
CONSTANTS
  Jvm = Jvm
  Strangers = {s1}
  NoPeer = NoPeer
  MaxPending = 2
  QueueCapacity = 2
  HandshakeRead = 4
  HandshakeTimeout = 1
  MaxPackets = 3
INVARIANTS
  PacketsInOrder
  ClosedMeansComplete
  SweepIsFair
PROPERTIES
  EveryHandshakeEnds
  AllIsReceived
