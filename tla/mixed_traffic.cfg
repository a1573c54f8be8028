SPECIFICATION Spec
CONSTANTS
  Failure = {"TOO_LATE"}
  DownlinkId = {1, 3, 5}
  Items <- CollidingItems
  TokenModulus = 2
  Task = {t1, t2}
  UdpLoop = udp_loop
  Addr = {a1}
  NoAddr = NoAddr
  Gateway = {gw}
  NoGateway = NoGateway
  ConfiguredId = NoGateway
  PublishChannelSize = 1
  ForwardCrc = {"ok"}
  NoEntry = NoEntry
  Idle = Idle
  PushData <- Datagrams
  Budgets <- MixedBudgets
SYMMETRY TaskSymmetry
INVARIANTS
  TypeOK
  AcksWellFormed
  AbortsOnlyOnCollision
  EntriesInProgress
  UplinksCountedOnce
