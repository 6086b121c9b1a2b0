SPECIFICATION Spec
CONSTANTS
  Uid = {a, b}
  Listener = {"opamp", "ui", "telemetry"}
  MaxMessages = 2
INVARIANT
  FinalFlushKeepsAll
CHECK_DEADLOCK FALSE
