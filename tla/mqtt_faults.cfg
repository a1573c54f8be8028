SPECIFICATION FairSpec
CONSTANTS
  MaxEvent = 3
  PublishChannelSize = 1
  RequestCapacity = 1
  Setups <- FaultySetups
CHECK_DEADLOCK FALSE
INVARIANTS
  TypeOK
  DeliveredInOrder
  OnlineWhenSettled
PROPERTIES
  LostOnlyOnReload
  KeptUntilDelivered
  EventuallyOnline
  AtLeastOnce
