SPECIFICATION DeviceSpec
CONSTANTS
  AxisLimit = 32767
  CpadLimit = 156
  Keys = {"UP", "DOWN", "LEFT", "RIGHT", "ZL", "ZR", "A"}
  Inputs <- MCInputs
INVARIANTS UInputTypeOK EventsAddUp NoStuckDirection
PROPERTIES CStickMovesAxis CStickMovesThumb
CHECK_DEADLOCK FALSE
