SPECIFICATION PipelineSafetySpec
CONSTANTS
  SeqModulus = 8
  MaxPayload = 2
  MaxFragCount = 3
  PacketLengths = {1, 3}
  MaxPackets = 2
  MaxFrames = 2
  MaxWire = 2
  MaySendFail = FALSE
  MayStop = FALSE
  InFlightWindow = 2
  OverflowChecks = FALSE
  Byte <- PayloadByte
  Zeroed = Zeroed
  Datagrams = {}
  RtpHeader = 1
  FragHeader = 1
  Capacity = 10
  ChannelCapacity = 2
  NetLoses = FALSE
  NetDuplicates = FALSE
  NetReorders = FALSE
  MayRecvFail = FALSE
  BufferRunsOut = TRUE
INVARIANT DatagramsWhole
CHECK_DEADLOCK FALSE
