SPECIFICATION PipelineSafetySpec
CONSTANTS
  SeqModulus = 4
  MaxPayload = 2
  MaxFragCount = 3
  PacketLengths = {1}
  MaxPackets = 3
  MaxFrames = 2
  MaxWire = 2
  MaySendFail = FALSE
  MayStop = FALSE
  InFlightWindow = 2
  OverflowChecks = FALSE
  Byte <- PayloadByte
  Zeroed = Zeroed
  Datagrams = {}
  RtpHeader = 1
  FragHeader = 1
  Capacity = 4
  ChannelCapacity = 2
  NetLoses = FALSE
  NetDuplicates = FALSE
  NetReorders = FALSE
  MayRecvFail = FALSE
  BufferRunsOut = FALSE
INVARIANT LosslessDelivery
CHECK_DEADLOCK FALSE
