SPECIFICATION PipelineSpec
CONSTANTS
  SeqModulus = 8
  MaxPayload = 2
  MaxFragCount = 3
  PacketLengths = {1, 3}
  MaxPackets = 3
  MaxFrames = 1
  MaxWire = 2
  MaySendFail = FALSE
  MayStop = TRUE
  InFlightWindow = 2
  OverflowChecks = FALSE
  Byte <- PayloadByte
  Zeroed = Zeroed
  Datagrams = {}
  RtpHeader = 1
  FragHeader = 1
  Capacity = 4
  ChannelCapacity = 2
  NetLoses = FALSE
  NetDuplicates = FALSE
  NetReorders = FALSE
  MayRecvFail = FALSE
  BufferRunsOut = FALSE
INVARIANT LosslessDelivery
PROPERTY SentIsShownOrDropped
CHECK_DEADLOCK FALSE
