SPECIFICATION StreamSpec
CONSTANTS
  SeqModulus = 8
  MaxPayload = 2
  MaxFragCount = 3
  PacketLengths = {0, 1, 4, 5, 7}
  MaxPackets = 2
  MaxFrames = 2
  MaxWire = 12
  MaySendFail = TRUE
  MayStop = TRUE
INVARIANTS StreamTypeOK EmptyFrameNeverEncoded OneNumberPerPacket FragmentsTile
PROPERTIES FramesAdvance FrameEventuallyEncoded StreamEnds
CHECK_DEADLOCK FALSE
