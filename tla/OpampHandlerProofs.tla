------------------------- MODULE OpampHandlerProofs -------------------------
(***************************************************************************)
(* NoGhostAgent and GaugeCountsGateways of OpampHandler, for any agents,   *)
(* connections, relays and number of evictions.                            *)
(***************************************************************************)
EXTENDS OpampHandler, FiniteSetTheorems, TLAPS

\* A connection with an onMessage in progress is open and has tracked the
\* message's agent.
CallInv == \A c \in Conn : calls[c] # Nil => HeardOver(c, calls[c].id)

\* An agent's transport is the one of the connection it was last heard over.
TransportInv ==
  /\ \A c \in Conn : conns[c] # Nil => conns[c].transport = transportFor[c]
  /\ \A id \in Uid :
       agents[id] # Nil => agents[id].transport = transportFor[agents[id].conn]

\* A connection that is open has no close in progress.
CloseInv == \A c \in Conn : conns[c] # Nil => closing[c] = {}

Gateways == {c \in Conn : conns[c] # Nil /\ conns[c].viaGateway}

\* The inductive invariant: a close finds every agent of its connection, and
\* a report cannot come after the close of its connection.
HandlerInv ==
  /\ TypeOK
  /\ CallInv
  /\ TransportInv
  /\ CloseInv
  /\ NoGhostAgent
  /\ GaugeCountsGateways

-----------------------------------------------------------------------------
\* The gauge's two steps on the set of gateway connections.
LEMMA GatewaysCounted ==
  ASSUME NEW S \in SUBSET Conn, NEW c \in Conn
  PROVE  /\ Cardinality(S) \in Nat
         /\ c \notin S => Cardinality(S \cup {c}) = Cardinality(S) + 1
         /\ c \in S => Cardinality(S \ {c}) = Cardinality(S) - 1
                       /\ Cardinality(S) - 1 \in Nat
<1>1. IsFiniteSet(S)
  BY HandlerAssumption, FS_Subset
<1>2. IsFiniteSet(S \ {c}) /\ Cardinality(S \ {c}) \in Nat
  BY <1>1, FS_Subset, FS_CardinalityType
<1>3. Cardinality(S) \in Nat
  BY <1>1, FS_CardinalityType
<1>4. c \notin S => Cardinality(S \cup {c}) = Cardinality(S) + 1
  BY <1>1, FS_AddElement
<1>5. ASSUME c \in S
      PROVE  Cardinality(S \ {c}) = Cardinality(S) - 1
  BY <1>1, <1>5, FS_RemoveElement
<1> QED
  BY <1>2, <1>3, <1>4, <1>5

\* A handler without connections satisfies the invariant.
LEMMA InitHandler == Init => HandlerInv
<1> SUFFICES ASSUME Init PROVE HandlerInv
  OBVIOUS
<1>1. TypeOK
  <2>1. evictions \in 0 .. MaxEvictions /\ gatewayConnections \in Nat
    BY HandlerAssumption DEF Init
  <2> QED
    BY <2>1 DEF Init, TypeOK
<1>2. CallInv /\ TransportInv /\ CloseInv /\ NoGhostAgent
  BY DEF Init, CallInv, TransportInv, CloseInv, NoGhostAgent
<1>3. GaugeCountsGateways
  <2>1. {c \in Conn : conns[c] # Nil /\ conns[c].viaGateway} = {}
    BY DEF Init
  <2> QED
    BY <2>1, FS_EmptySet DEF Init, GaugeCountsGateways
<1> QED
  BY <1>1, <1>2, <1>3 DEF HandlerInv

-----------------------------------------------------------------------------
\* onConnecting opens a connection that nothing is left to do for.
LEMMA ConnectingKeeps ==
  ASSUME HandlerInv, NEW c \in Conn, onConnecting(c)
  PROVE  HandlerInv'
<1> USE HandlerAssumption DEF HandlerInv
<1>1. TypeOK'
  BY DEF TypeOK, onConnecting, ConnState
<1>2. CallInv'
  BY DEF TypeOK, onConnecting, CallInv, HeardOver
<1>3. TransportInv'
  BY DEF TypeOK, onConnecting, TransportInv
<1>4. NoGhostAgent'
  BY DEF TypeOK, Agent, onConnecting, NoGhostAgent, HeardOver
<1>5. GaugeCountsGateways'
  <2>1. {d \in Conn : conns'[d] # Nil /\ conns'[d].viaGateway} = Gateways
    BY DEF TypeOK, onConnecting, Gateways
  <2> QED
    BY <2>1 DEF GaugeCountsGateways, Gateways, onConnecting
<1>6. CloseInv'
  BY DEF TypeOK, onConnecting, CloseInv
<1> QED
  BY <1>1, <1>2, <1>3, <1>4, <1>5, <1>6

\* onMessage tracks its agent before anything else.
LEMMA MessageKeeps ==
  ASSUME HandlerInv, NEW c \in Conn, NEW id \in Relayed[c], NEW full \in BOOLEAN,
         onMessage(c, id, full)
  PROVE  HandlerInv'
<1> USE HandlerAssumption DEF HandlerInv
<1>0. id \in Uid
  OBVIOUS
<1>a. conns[c] \in ConnState
  BY DEF TypeOK, onMessage
<1>b. /\ conns'[c] = [conns[c] EXCEPT !.agents = @ \cup {id}]
      /\ conns'[c] \in ConnState
      /\ conns'[c] # Nil
  BY <1>0, <1>a DEF TypeOK, onMessage, trackAgent, ConnState
<1>c. \A d \in Conn : d # c => conns'[d] = conns[d] /\ calls'[d] = calls[d]
  BY DEF TypeOK, onMessage
<1>d. \A d \in Conn, i \in Uid : HeardOver(d, i) => HeardOver(d, i)'
  BY <1>a, <1>b, <1>c DEF HeardOver, ConnState
<1>1. TypeOK'
  BY <1>0, <1>b, <1>c DEF TypeOK, onMessage, Call
<1>2. CallInv'
  <2>1. calls'[c].id = id /\ HeardOver(c, id)'
    BY <1>a, <1>b DEF TypeOK, onMessage, HeardOver, ConnState
  <2>2. ASSUME NEW d \in Conn, d # c, calls'[d] # Nil
        PROVE  HeardOver(d, calls[d].id)'
    BY <1>c, <2>2 DEF CallInv, HeardOver
  <2> QED
    BY <2>1, <2>2 DEF CallInv, HeardOver
<1>3. TransportInv'
  BY <1>a, <1>b, <1>c DEF TransportInv, onMessage, ConnState
<1>4. NoGhostAgent'
  BY <1>d DEF TypeOK, Agent, NoGhostAgent, onMessage
<1>5. GaugeCountsGateways'
  <2>1. {d \in Conn : conns'[d] # Nil /\ conns'[d].viaGateway} = Gateways
    BY <1>a, <1>b, <1>c DEF onMessage, Gateways, ConnState
  <2> QED
    BY <2>1 DEF GaugeCountsGateways, Gateways, onMessage
<1>6. CloseInv'
  BY <1>c DEF onMessage, CloseInv
<1> QED
  BY <1>1, <1>2, <1>3, <1>4, <1>5, <1>6

\* Report puts the agent on the connection whose onMessage it is part of.
LEMMA ReportKeeps ==
  ASSUME HandlerInv, NEW c \in Conn, Report(c)
  PROVE  HandlerInv'
<1> USE HandlerAssumption DEF HandlerInv
<1> DEFINE id == calls[c].id
<1>a. calls[c] \in Call /\ id \in Uid
  BY DEF TypeOK, Report, Call
<1>b. HeardOver(c, id) /\ conns[c] \in ConnState /\ conns[c].transport = transportFor[c]
  BY <1>a DEF TypeOK, Report, CallInv, HeardOver, TransportInv
<1>c. /\ agents'[id].connected = TRUE
      /\ agents'[id].conn = c
      /\ agents'[id].transport = transportFor[c]
      /\ \A i \in Uid : i # id => agents'[i] = agents[i]
  BY <1>a, <1>b DEF TypeOK, Report
<1>d. calls'[c] \in Call /\ calls'[c].id = id
      /\ \A d \in Conn : d # c => calls'[d] = calls[d]
  BY <1>a DEF TypeOK, Report, Call
<1>1. TypeOK'
  <2>1. agents'[id] \in Agent
    <3>1. calls[c].full \/ (agents[id] # Nil /\ agents[id].described) \in BOOLEAN
      BY <1>a DEF Call, TypeOK, Agent
    <3> QED
      BY <1>a, <1>b, <3>1 DEF TypeOK, Report, Agent, ConnState, Call
  <2>2. agents' \in [Uid -> Agent \cup {Nil}]
    BY <1>a, <1>c, <2>1 DEF TypeOK, Report
  <2> QED
    BY <1>d, <2>2 DEF TypeOK, Report
<1>2. CallInv'
  BY <1>b, <1>d DEF CallInv, HeardOver, Report
<1>3. TransportInv'
  BY <1>c DEF TransportInv, Report
<1>4. NoGhostAgent'
  BY <1>b, <1>c DEF NoGhostAgent, HeardOver, Report
<1>5. GaugeCountsGateways'
  BY DEF GaugeCountsGateways, Report
<1>6. CloseInv'
  BY DEF Report, CloseInv
<1> QED
  BY <1>1, <1>2, <1>3, <1>4, <1>5, <1>6

\* Reply ends the onMessage.
LEMMA ReplyKeeps ==
  ASSUME HandlerInv, NEW c \in Conn, Reply(c)
  PROVE  HandlerInv'
<1> USE HandlerAssumption DEF HandlerInv
<1>1. TypeOK'
  BY DEF TypeOK, Reply, Call
<1>2. CallInv'
  BY DEF TypeOK, CallInv, HeardOver, Reply
<1>3. TransportInv' /\ CloseInv' /\ NoGhostAgent' /\ GaugeCountsGateways'
  BY DEF TransportInv, CloseInv, NoGhostAgent, HeardOver, GaugeCountsGateways, Reply
<1> QED
  BY <1>1, <1>2, <1>3

\* onGatewayConnect counts a connection once.
LEMMA GatewayConnectKeeps ==
  ASSUME HandlerInv, NEW c \in Conn, onGatewayConnect(c)
  PROVE  HandlerInv'
<1> USE HandlerAssumption DEF HandlerInv
<1>a. conns[c] \in ConnState
  BY DEF TypeOK, onGatewayConnect
<1>b. /\ conns'[c] = [conns[c] EXCEPT !.viaGateway = TRUE]
      /\ conns'[c] \in ConnState
      /\ conns'[c] # Nil
      /\ \A d \in Conn : d # c => conns'[d] = conns[d]
  BY <1>a DEF TypeOK, onGatewayConnect, ConnState
<1>c. \A d \in Conn : \A i : HeardOver(d, i) => HeardOver(d, i)'
  BY <1>a, <1>b DEF HeardOver, ConnState
<1>1. TypeOK'
  <2>1. gatewayConnections' \in Nat
    BY DEF TypeOK, onGatewayConnect
  <2> QED
    BY <1>b, <2>1 DEF TypeOK, onGatewayConnect
<1>2. CallInv'
  BY <1>c DEF CallInv, onGatewayConnect
<1>3. TransportInv'
  BY <1>a, <1>b DEF TransportInv, onGatewayConnect, ConnState
<1>4. NoGhostAgent'
  BY <1>c DEF TypeOK, Agent, NoGhostAgent, onGatewayConnect
<1>5. GaugeCountsGateways'
  <2>1. {d \in Conn : conns'[d] # Nil /\ conns'[d].viaGateway} = Gateways \cup {c}
    BY <1>a, <1>b DEF Gateways, ConnState
  <2>2. gatewayConnections = Cardinality(Gateways) /\ Gateways \in SUBSET Conn
    BY DEF GaugeCountsGateways, Gateways
  <2>3. CASE conns[c].viaGateway
    <3>1. Gateways \cup {c} = Gateways
      BY <2>3 DEF Gateways, onGatewayConnect
    <3> QED
      BY <2>1, <2>2, <2>3, <3>1 DEF GaugeCountsGateways, onGatewayConnect
  <2>4. CASE ~conns[c].viaGateway
    <3>1. c \notin Gateways
      BY <2>4 DEF Gateways
    <3>2. Cardinality(Gateways \cup {c}) = Cardinality(Gateways) + 1
      BY <2>2, <3>1, GatewaysCounted
    <3> QED
      BY <2>1, <2>2, <2>4, <3>2 DEF GaugeCountsGateways, onGatewayConnect
  <2> QED
    BY <2>3, <2>4
<1>6. CloseInv'
  BY <1>b DEF onGatewayConnect, CloseInv
<1> QED
  BY <1>1, <1>2, <1>3, <1>4, <1>5, <1>6

\* onConnectionClose takes over every agent the connection remembers.
LEMMA CloseKeeps ==
  ASSUME HandlerInv, NEW c \in Conn, onConnectionClose(c)
  PROVE  HandlerInv'
<1> USE HandlerAssumption DEF HandlerInv
<1>a. conns[c] \in ConnState
  BY DEF TypeOK, onConnectionClose
<1>b. conns'[c] = Nil /\ \A d \in Conn : d # c => conns'[d] = conns[d]
  BY DEF TypeOK, onConnectionClose
<1>c. \A d \in Conn : d # c => closing'[d] = closing[d]
  BY DEF TypeOK, onConnectionClose
<1>d. transportFor[c] = "ws" => closing'[c] = conns[c].agents
  BY DEF TypeOK, TransportInv, onConnectionClose
<1>e. gatewayConnections = Cardinality(Gateways) /\ Gateways \in SUBSET Conn
  BY DEF GaugeCountsGateways, Gateways
<1>f. conns[c].viaGateway => /\ Cardinality(Gateways \ {c}) = gatewayConnections - 1
                             /\ gatewayConnections - 1 \in Nat
  <2>1. conns[c].viaGateway => c \in Gateways
    BY <1>a DEF Gateways, onConnectionClose
  <2> QED
    BY <1>e, <2>1, GatewaysCounted
<1>1. TypeOK'
  <2>1. gatewayConnections' \in Nat
    BY <1>f DEF TypeOK, onConnectionClose
  <2>2. closing' \in [Conn -> SUBSET Uid]
    BY <1>a DEF TypeOK, onConnectionClose, ConnState
  <2>3. conns' \in [Conn -> ConnState \cup {Nil}]
    BY DEF TypeOK, onConnectionClose
  <2> QED
    BY <2>1, <2>2, <2>3 DEF TypeOK, onConnectionClose
<1>2. CallInv'
  BY <1>b DEF CallInv, HeardOver, onConnectionClose
<1>3. TransportInv'
  BY <1>b DEF TransportInv, onConnectionClose
<1>4. NoGhostAgent'
  <2> SUFFICES ASSUME NEW id \in Uid, agents[id] # Nil, agents[id].connected,
                      agents[id].transport = "ws"
               PROVE  HeardOver(agents[id].conn, id)'
                      \/ id \in closing'[agents[id].conn]
    BY DEF NoGhostAgent, onConnectionClose
  <2>1. agents[id].conn \in Conn /\ transportFor[agents[id].conn] = "ws"
    BY DEF TypeOK, Agent, TransportInv
  <2>2. HeardOver(agents[id].conn, id) \/ id \in closing[agents[id].conn]
    BY DEF NoGhostAgent
  <2>3. CASE agents[id].conn # c
    BY <1>b, <1>c, <2>1, <2>2, <2>3 DEF HeardOver, onConnectionClose
  <2>4. CASE agents[id].conn = c
    <3>1. closing[c] = {}
      BY DEF CloseInv, onConnectionClose
    <3> QED
      BY <1>d, <2>1, <2>2, <2>4, <3>1 DEF HeardOver
  <2> QED
    BY <2>3, <2>4
<1>5. GaugeCountsGateways'
  <2>1. {d \in Conn : conns'[d] # Nil /\ conns'[d].viaGateway} = Gateways \ {c}
    BY <1>b DEF Gateways
  <2>2. ~conns[c].viaGateway => Gateways \ {c} = Gateways
    BY DEF Gateways
  <2> QED
    BY <1>e, <1>f, <2>1, <2>2 DEF GaugeCountsGateways, onConnectionClose
<1>6. CloseInv'
  BY <1>b, <1>c DEF onConnectionClose, CloseInv
<1> QED
  BY <1>1, <1>2, <1>3, <1>4, <1>5, <1>6

\* An agent leaves closing only by being marked disconnected.
LEMMA SetConnectedKeeps ==
  ASSUME HandlerInv, NEW c \in Conn, NEW id \in Uid, SetConnected(c, id)
  PROVE  HandlerInv'
<1> USE HandlerAssumption DEF HandlerInv
<1>a. /\ \A i \in Uid : i # id => agents'[i] = agents[i]
      /\ agents[id] = Nil => agents'[id] = Nil
      /\ agents[id] # Nil => agents'[id] = [agents[id] EXCEPT !.connected = FALSE]
                             /\ agents'[id] \in Agent
  BY DEF TypeOK, SetConnected, Agent
<1>b. \A d \in Conn, i \in Uid : i # id /\ i \in closing[d] => i \in closing'[d]
  BY DEF TypeOK, SetConnected
<1>1. TypeOK'
  <2>1. agents' \in [Uid -> Agent \cup {Nil}]
    BY <1>a DEF TypeOK, SetConnected
  <2>2. closing' \in [Conn -> SUBSET Uid]
    BY DEF TypeOK, SetConnected
  <2> QED
    BY <2>1, <2>2 DEF TypeOK, SetConnected
<1>2. CallInv' /\ GaugeCountsGateways'
  BY DEF CallInv, HeardOver, GaugeCountsGateways, SetConnected
<1>3. TransportInv'
  BY <1>a DEF TypeOK, Agent, TransportInv, SetConnected
<1>4. CloseInv'
  BY DEF TypeOK, CloseInv, SetConnected
<1>5. NoGhostAgent'
  <2>1. ASSUME NEW i \in Uid, agents'[i] # Nil, agents'[i].connected,
               agents'[i].transport = "ws"
        PROVE  HeardOver(agents[i].conn, i)' \/ i \in closing'[agents'[i].conn]
    <3>1. i # id
      BY <1>a, <2>1 DEF TypeOK, Agent
    <3>2. agents'[i] = agents[i] /\ agents[i].conn \in Conn
      BY <1>a, <2>1, <3>1 DEF TypeOK, Agent
    <3> QED
      BY <1>b, <2>1, <3>1, <3>2 DEF NoGhostAgent, HeardOver, SetConnected
  <2> QED
    BY <2>1 DEF NoGhostAgent
<1> QED
  BY <1>1, <1>2, <1>3, <1>4, <1>5

\* Sweep only disconnects agents and removes them.
LEMMA SweepKeeps ==
  ASSUME HandlerInv, NEW id \in Uid, SweepDisconnect(id) \/ SweepEvict(id)
  PROVE  HandlerInv'
<1> USE HandlerAssumption DEF HandlerInv
<1>a. /\ \A i \in Uid : i # id => agents'[i] = agents[i]
      /\ \/ agents'[id] = Nil
         \/ /\ agents[id] \in Agent
            /\ agents'[id] = [agents[id] EXCEPT !.connected = FALSE]
            /\ agents'[id] \in Agent
  <2>1. agents[id] \in Agent
    BY DEF TypeOK, SweepDisconnect, SweepEvict
  <2>2. CASE SweepDisconnect(id)
    BY <2>1, <2>2 DEF TypeOK, SweepDisconnect, Agent
  <2>3. CASE SweepEvict(id)
    BY <2>3 DEF TypeOK, SweepEvict
  <2> QED
    BY <2>2, <2>3
<1>1. TypeOK'
  <2>1. agents' \in [Uid -> Agent \cup {Nil}]
    BY <1>a DEF TypeOK, SweepDisconnect, SweepEvict
  <2>2. evictions' \in 0 .. MaxEvictions
    <3>1. evictions \in 0 .. MaxEvictions /\ MaxEvictions \in Nat
      BY DEF TypeOK
    <3> QED
      BY <3>1 DEF SweepDisconnect, SweepEvict
  <2> QED
    BY <2>1, <2>2 DEF TypeOK, SweepDisconnect, SweepEvict
<1>2. CallInv' /\ CloseInv' /\ GaugeCountsGateways'
  BY DEF CallInv, CloseInv, HeardOver, GaugeCountsGateways, SweepDisconnect, SweepEvict
<1>3. TransportInv'
  BY <1>a DEF Agent, TransportInv, SweepDisconnect, SweepEvict
<1>4. NoGhostAgent'
  BY <1>a DEF Agent, NoGhostAgent, HeardOver, SweepDisconnect, SweepEvict
<1> QED
  BY <1>1, <1>2, <1>3, <1>4

\* Drain only refuses connections to come.
LEMMA DrainKeeps ==
  ASSUME HandlerInv, Drain \/ UNCHANGED vars
  PROVE  HandlerInv'
<1> USE DEF HandlerInv, Drain, vars
<1>1. TypeOK'
  BY DEF TypeOK
<1>2. CallInv' /\ TransportInv' /\ CloseInv'
  BY DEF CallInv, TransportInv, CloseInv, HeardOver
<1>3. NoGhostAgent' /\ GaugeCountsGateways'
  BY DEF NoGhostAgent, GaugeCountsGateways, HeardOver
<1> QED
  BY <1>1, <1>2, <1>3

-----------------------------------------------------------------------------
\* The invariant holds however the callbacks of the connections interleave.
THEOREM HandlerInvariant == Spec => []HandlerInv
<1>1. HandlerInv /\ [Next]_vars => HandlerInv'
  <2> SUFFICES ASSUME HandlerInv, [Next]_vars PROVE HandlerInv'
    OBVIOUS
  <2>1. CASE Drain \/ UNCHANGED vars
    BY <2>1, DrainKeeps
  <2>2. ASSUME NEW c \in Conn, onConnecting(c) PROVE HandlerInv'
    BY <2>2, ConnectingKeeps
  <2>3. ASSUME NEW c \in Conn, NEW id \in Relayed[c], NEW full \in BOOLEAN,
               onMessage(c, id, full)
        PROVE  HandlerInv'
    BY <2>3, MessageKeeps
  <2>4. ASSUME NEW c \in Conn, Report(c) \/ Reply(c) PROVE HandlerInv'
    BY <2>4, ReportKeeps, ReplyKeeps
  <2>5. ASSUME NEW c \in Conn, onGatewayConnect(c) \/ onConnectionClose(c)
        PROVE  HandlerInv'
    BY <2>5, GatewayConnectKeeps, CloseKeeps
  <2>6. ASSUME NEW c \in Conn, NEW id \in Uid, SetConnected(c, id) PROVE HandlerInv'
    BY <2>6, SetConnectedKeeps
  <2>7. ASSUME NEW id \in Uid, SweepDisconnect(id) \/ SweepEvict(id) PROVE HandlerInv'
    BY <2>7, SweepKeeps
  <2> QED
    BY <2>1, <2>2, <2>3, <2>4, <2>5, <2>6, <2>7 DEF Next
<1> QED
  BY <1>1, InitHandler, PTL DEF Spec

\* What the callbacks keep per connection and in the registry stays typed.
THEOREM HandlerTypes == Spec => []TypeOK
<1>1. HandlerInv => TypeOK
  BY DEF HandlerInv
<1> QED
  BY <1>1, HandlerInvariant, PTL

\* onConnectionClose leaves no agent connected over a socket that is gone,
\* for any agents on any connections, gateways and reconnects included.
THEOREM NoGhostEver == Spec => []NoGhostAgent
<1>1. HandlerInv => NoGhostAgent
  BY DEF HandlerInv
<1> QED
  BY <1>1, HandlerInvariant, PTL

\* grex_opamp_gateway_connections is the number of open gateway connections,
\* for any number of connections: it never drifts and never goes negative.
THEOREM GaugeNeverDrifts == Spec => [](GaugeCountsGateways /\ gatewayConnections \in Nat)
<1>1. HandlerInv => GaugeCountsGateways /\ gatewayConnections \in Nat
  BY DEF HandlerInv, TypeOK
<1> QED
  BY <1>1, HandlerInvariant, PTL
=============================================================================
