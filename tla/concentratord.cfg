SPECIFICATION FairSpec
CONSTANTS
  Task = {t1, t2}
  NoTask = NoTask
  Command = {"down_1", "down_2", "config", "exec", "absent", "stray"}
  None = None
  SocketFailures = 1
  Message <- Messages
  Published <- Events
  Traffic <- Mixes
  ForwardCrc = {"ok"}
  PublishChannelSize = 1
CHECK_DEADLOCK FALSE
INVARIANTS
  TypeOK
  ReplyMatches
  IdleSocketReady
  AcksTruthful
  EventsInOrder
PROPERTIES
  NeverReplacedInUse
  WorkEnds
