SPECIFICATION Spec
CONSTANTS
  Failure = {"TOO_LATE"}
  DownlinkId = {1, 2}
  Items <- MixedItems
  TokenModulus = 4
  Task = {t1}
  UdpLoop = udp_loop
  Addr = {a1, a2}
  NoAddr = NoAddr
  Gateway = {gw}
  NoGateway = NoGateway
  ConfiguredId = NoGateway
  PublishChannelSize = 1
  ForwardCrc = {"ok"}
  NoEntry = NoEntry
  Idle = Idle
  PushData <- StatOnly
  Budgets <- ReliableBudgets
INVARIANTS
  EmissionsNotOvercounted
  ItemsTriedInOrder
PROPERTIES
  DeliverySpec
  GivenUpOnlyOnFault
