SPECIFICATION FairSpec
CONSTANTS
  Failure = {"TOO_LATE"}
  DownlinkId = {1, 2}
  Items <- PlainItems
  TokenModulus = 4
  Task = {t1, t2}
  UdpLoop = udp_loop
  Addr = {a1, a2}
  NoAddr = NoAddr
  Gateway = {gw}
  NoGateway = NoGateway
  ConfiguredId = gw
  PublishChannelSize = 3
  ForwardCrc = {"ok"}
  NoEntry = NoEntry
  Idle = Idle
  PushData <- StatOnly
  Budgets <- LiveBudgets
PROPERTIES
  DownlinkAnswered
  PullAddrSettles
