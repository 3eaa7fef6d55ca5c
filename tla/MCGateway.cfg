SPECIFICATION GatewayFairSpec
CONSTANTS
  Kinds <- AllKinds
  Interjectable <- WithBody
  Vision <- ImageOnly
  Commands <- CommandOnly
  Silent <- NoKind
  MaxQueue = 2
  MaxArrivals = 4
INVARIANTS
  GatewayTypeOK
  ServedInOrder
  NoStrandedMessage
  LostOnlyWhenLate
  
PROPERTIES
  NoDrainCancelled
  ImplementsMailbox
  ImplementsQueue
