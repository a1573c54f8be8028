SPECIFICATION Spec
CONSTANTS
  MaxEvent = 2
  PublishChannelSize = 1
  RequestCapacity = 1
  Setups <- ReloadSetups
CHECK_DEADLOCK FALSE
PROPERTY EventsSurviveReload
