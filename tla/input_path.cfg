SPECIFICATION PathSpec
CONSTANTS
  AxisLimit = 32767
  CpadLimit = 156
  Keys <- MCKeys
  Inputs = {}
  Pads <- MCPads
  CppInputs <- MCCppInputs
  MaxWire = 2
INVARIANTS  ExitChordNotPlayed
PROPERTIES HeldStateArrives ClientExits
CHECK_DEADLOCK FALSE
