SPECIFICATION PipelineSafetySpec
CONSTANTS
  SeqModulus = 5
  MaxPayload = 2
  MaxFragCount = 3
  PacketLengths = {1, 2, 3}
  MaxPackets = 2
  MaxFrames = 2
  MaxWire = 2
  MaySendFail = FALSE
  MayStop = FALSE
  InFlightWindow = 2
  OverflowChecks = TRUE
  Byte <- PayloadByte
  Zeroed = Zeroed
  Datagrams = {}
  RtpHeader = 2
  FragHeader = 1
  Capacity = 13
  ChannelCapacity = 2
  NetLoses = FALSE
  NetDuplicates = FALSE
  NetReorders = FALSE
  MayRecvFail = TRUE
  BufferRunsOut = TRUE
INVARIANT PacketsIntact
CHECK_DEADLOCK FALSE
