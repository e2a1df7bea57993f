SPECIFICATION DeviceSpec
CONSTANTS
  AxisLimit = 32767
  CpadLimit = 156
  Keys = {"UP", "DOWN", "LEFT", "RIGHT", "ZL", "ZR", "A"}
  Inputs <- WithoutCPP
INVARIANT CentredWithoutCPP
CHECK_DEADLOCK FALSE
