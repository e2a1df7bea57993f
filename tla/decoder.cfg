SPECIFICATION DecoderSpec
CONSTANTS
  SeqModulus = 5
  InFlightWindow = 2
  OverflowChecks = FALSE
  MaxLen = 3
  Lengths = {1, 3}
  FragCounts = {1, 3}
  Zeroed = Zeroed
  Byte = {b1}
  Datagrams <- MCDatagrams
INVARIANTS DecoderTypeOK WindowInv AssemblyInv NoUnwrittenByte FinishedLeaves
PROPERTY CompletedInOrder
CHECK_DEADLOCK FALSE
