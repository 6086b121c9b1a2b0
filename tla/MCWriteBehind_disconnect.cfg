SPECIFICATION Spec
CONSTANTS
  Uid = {a}
  Conn = {c1}
  Section <- mcSection
  EventSection <- mcEventSection
  Description = "description"
  EffectiveConfig = "effective_config"
  v1 = v1
  v2 = v2
  Value = {v1, v2}
  Nil = Nil
  HeartbeatInterval = 2
  StaleMissedHeartbeats = 1
  Messages <- mcSessionMessages
  ShardCount = 1
  ShardOf <- mcOneShard
  SnapshotInterval = 1
  BatchSize = 2
  Overlap = FALSE
  Faults = FALSE
  MaxTime = 3
INVARIANTS
  DisconnectReachesStore
