SPECIFICATION FairSpec
CONSTANTS
  a = a
  b = b
  c1 = c1
  c2 = c2
  Uid = {a, b}
  Conn = {c1, c2}
  Relayed <- mcRelayed
  transportFor <- mcTransport
  Nil = Nil
  MaxEvictions = 1
INVARIANTS
  TypeOK
  NoGhostAgent
  GaugeCountsGateways
PROPERTY
  FullStateArrives
CHECK_DEADLOCK FALSE
