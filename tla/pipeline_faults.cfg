SPECIFICATION PipelineSafetySpec
CONSTANTS
  SeqModulus = 8
  MaxPayload = 2
  MaxFragCount = 3
  PacketLengths = {1, 3}
  MaxPackets = 3
  MaxFrames = 1
  MaxWire = 3
  MaySendFail = FALSE
  MayStop = FALSE
  InFlightWindow = 2
  OverflowChecks = FALSE
  Byte <- PayloadByte
  Zeroed = Zeroed
  Datagrams = {}
  RtpHeader = 1
  FragHeader = 1
  Capacity = 100
  ChannelCapacity = 2
  NetLoses = TRUE
  NetDuplicates = TRUE
  NetReorders = TRUE
  MayRecvFail = FALSE
  BufferRunsOut = FALSE
PROPERTIES ImplementsLossyStream OnlySuperseded
CHECK_DEADLOCK FALSE
