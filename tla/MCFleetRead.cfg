\* A read request under up to two changes of the fleet.
SPECIFICATION Spec
CONSTANTS
  Uid <- ReadUid
  Conn <- ReadConn
  Section = {"description", "health", "effective_config"}
  EventSection = {"description", "health", "effective_config"}
  Description = "description"
  EffectiveConfig = "effective_config"
  Health = "health"
  Value <- ReadValue
  Nil = Nil
  HeartbeatInterval = 2
  StaleMissedHeartbeats = 3
  Key <- ReadKey
  Supervisor = 9
  GatewayName = {5}
  GatewayRole = 2
  CollectorRole = 1
  DefaultLimit = 2
  MaxLimit = 2
  Messages <- ReadMessages
  FirstMessage <- ReadFirst
  ShardCount = 2
  ShardOf <- ReadShardOf
  PerAgentLimit = 2
  Limits = {5}
  Matchers <- ReadMatchers
  Sorts <- ReadSorts
  MaxChanges = 2
INVARIANTS
  TypeOK
  ListComplete
  GoneIsGone
  WalkSeesStayers
  ApiPagesPartition
  UiPagesCover
  ConfigNotOlder
