SPECIFICATION Spec
CONSTANTS
  Uid = {a}
  Conn = {c1}
  Section <- mcSection
  EventSection <- mcEventSection
  Description = "description"
  EffectiveConfig = "effective_config"
  v1 = v1
  v2 = v2
  Value = {v1, v2}
  Nil = Nil
  HeartbeatInterval = 1
  StaleMissedHeartbeats = 1
  Messages <- mcReportMessages
  ShardCount = 1
  ShardOf <- mcOneShard
  SnapshotInterval = 1
  BatchSize = 2
  Overlap = TRUE
  Faults = TRUE
  MaxTime = 3
INVARIANTS
  SessionIffAgent
  ConfigMatchesAgents
PROPERTY
  StoredNeverRegresses
CHECK_DEADLOCK FALSE
