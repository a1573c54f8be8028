SPECIFICATION Spec
CONSTANTS
  Byte = 4
  Kilo = 4
  None = None
  Batch <- Batches
  Instant <- Instants
  TimeFallback = TRUE
  Answer <- Answers
  DownlinkId = {3, 19}
  Travel = {1, 60, 70}
  MaxAdvance = 128
  GpsOffset = 21
  Report <- Reports
INVARIANTS
  FskNamedAsDocumented
