SPECIFICATION Spec
CONSTANTS
  Uid = {a}
  Replica = {r1, r2}
  Conn = {r1, r2}
  Section <- mcSection
  EventSection <- mcEventSection
  Description = "description"
  EffectiveConfig = "effective_config"
  v1 = v1
  v2 = v2
  Value = {v1, v2}
  Nil = Nil
  HeartbeatInterval = 1
  StaleMissedHeartbeats = 1
  Bounds <- mcSiblingBounds
SYMMETRY ReplicaSymmetry
CHECK_DEADLOCK FALSE
INVARIANT
  SiblingAnswers
