SPECIFICATION FairSpec
CONSTANTS
  Uid = {a, b}
  Listener = {"opamp", "ui", "telemetry"}
  MaxMessages = 2
INVARIANTS
  TypeOK
  UnreadyBeforeClose
  StartAllOrNothing
  DrainWindowKept

  
CHECK_DEADLOCK FALSE
