---------------------------- MODULE OpampHandler ----------------------------
(***************************************************************************)
(* internal/opamp.Handler: the callbacks of many agent connections on one  *)
(* registry.  opamp-go runs the callbacks of ONE connection serially, those*)
(* of different connections concurrently, and an agent may be heard over   *)
(* several: it reconnected and the old socket's close comes late, or a     *)
(* gateway relays it.                                                      *)
(*                                                                         *)
(* A registry entry is what these callbacks see of it; time is abstracted: *)
(* Sweep may find any agent silent for long enough.  A message with a      *)
(* malformed instance_uid changes nothing and is left out, as is the reply *)
(* to a gateway connect, which depends on the payload alone.               *)
(***************************************************************************)
EXTENDS Integers, FiniteSets

CONSTANTS
  Uid,
  Conn,         \* connections; one that is closed may be opened again
  transportFor, \* "ws" or "http", from the connection's request
  Relayed,      \* the agents that send over a connection: a gateway has many
  Nil,
  MaxEvictions  \* bound on evictions, see FairSpec

ASSUME HandlerAssumption ==
  /\ Nil \notin [transport : {"ws", "http"}, viaGateway : BOOLEAN,
                 agents : SUBSET Uid]
  /\ Nil \notin [id : Uid, full : BOOLEAN, stage : {"report", "reply"}]
  /\ Nil \notin [connected : BOOLEAN, described : BOOLEAN, conn : Conn,
                 transport : {"ws", "http"}]
  /\ transportFor \in [Conn -> {"ws", "http"}]
  /\ Relayed \in [Conn -> SUBSET Uid]
  /\ IsFiniteSet(Conn)
  /\ MaxEvictions \in Nat

VARIABLES
  draining,   \* Handler.draining
  conns,      \* connState per connection, Nil if it is not open
  calls,      \* the onMessage in progress on a connection, Nil if none
  closing,    \* onConnectionClose: agents it has yet to mark disconnected
  agents,     \* the registry
  gatewayConnections,  \* the gauge
  asked,      \* agents told ReportFullState that have not sent it yet
  evictions   \* number of evictions so far

vars == <<draining, conns, calls, closing, agents, gatewayConnections, asked,
          evictions>>

ConnState == [transport : {"ws", "http"}, viaGateway : BOOLEAN,
              agents : SUBSET Uid]
Call  == [id : Uid, full : BOOLEAN, stage : {"report", "reply"}]
Agent == [connected : BOOLEAN, described : BOOLEAN, conn : Conn,
          transport : {"ws", "http"}]

TypeOK ==
  /\ draining \in BOOLEAN
  /\ conns \in [Conn -> ConnState \cup {Nil}]
  /\ calls \in [Conn -> Call \cup {Nil}]
  /\ closing \in [Conn -> SUBSET Uid]
  /\ agents \in [Uid -> Agent \cup {Nil}]
  /\ gatewayConnections \in Nat
  /\ asked \subseteq Uid
  /\ evictions \in 0 .. MaxEvictions

Init ==
  /\ draining = FALSE
  /\ conns = [c \in Conn |-> Nil]
  /\ calls = [c \in Conn |-> Nil]
  /\ closing = [c \in Conn |-> {}]
  /\ agents = [id \in Uid |-> Nil]
  /\ gatewayConnections = 0
  /\ asked = {}
  /\ evictions = 0

-----------------------------------------------------------------------------
Drain ==
  /\ draining' = TRUE
  /\ UNCHANGED <<conns, calls, closing, agents, gatewayConnections, asked,
                 evictions>>

\* A connection nothing is left to do for may stand for a new one.
onConnecting(c) ==
  /\ ~draining
  /\ conns[c] = Nil /\ closing[c] = {}
  /\ conns' = [conns EXCEPT ![c] = [transport  |-> transportFor[c],
                                    viaGateway |-> FALSE,
                                    agents     |-> {}]]
  /\ UNCHANGED <<draining, calls, closing, agents, gatewayConnections, asked,
                 evictions>>

\* Mutant of trackAgent: the connection remembers one agent.
trackAgentOnly(tracked, id) == {id}

trackAgent(tracked, id) == tracked \cup {id}

\* onMessage as far as trackAgent.  A message that is full carries the
\* agent's description.
onMessage(c, id, full) ==
  /\ conns[c] # Nil /\ calls[c] = Nil
  /\ conns' = [conns EXCEPT ![c].agents = trackAgent(@, id)]
  /\ calls' = [calls EXCEPT ![c] = [id |-> id, full |-> full,
                                    stage |-> "report"]]
  /\ asked' = IF full THEN asked \ {id} ELSE asked
  /\ UNCHANGED <<draining, closing, agents, gatewayConnections, evictions>>

\* registry.Report with connMeta.
Report(c) ==
  LET id == calls[c].id
      known == agents[id] # Nil
  IN
  /\ calls[c] # Nil
  /\ calls[c].stage = "report"
  /\ agents' = [agents EXCEPT ![id] =
       [ connected |-> TRUE,
         described |-> calls[c].full \/ (known /\ agents[id].described),
         conn      |-> c,
         transport |-> conns[c].transport ]]
  /\ calls' = [calls EXCEPT ![c].stage = "reply"]
  /\ UNCHANGED <<draining, conns, closing, gatewayConnections, asked, evictions>>

\* Mutant of needsFullState: only agents the registry does not hold.
needsFullStateUnknown(id) == agents[id] = Nil

needsFullState(id) ==
  IF agents[id] = Nil THEN FALSE ELSE ~agents[id].described

\* The end of onMessage: the registry is read again for the reply's flag.
Reply(c) ==
  /\ calls[c] # Nil
  /\ calls[c].stage = "reply"
  /\ asked' = IF needsFullState(calls[c].id)
                THEN asked \cup {calls[c].id} ELSE asked
  /\ calls' = [calls EXCEPT ![c] = Nil]
  /\ UNCHANGED <<draining, conns, closing, agents, gatewayConnections, evictions>>

\* Mutant of onGatewayConnect: every connect message opens the gauge.
onGatewayConnectAlways(c) ==
  /\ conns[c] # Nil /\ calls[c] = Nil
  /\ conns' = [conns EXCEPT ![c].viaGateway = TRUE]
  /\ gatewayConnections' = gatewayConnections + 1
  /\ UNCHANGED <<draining, calls, closing, agents, asked, evictions>>

\* A gateway sends one connect message per agent it relays.
onGatewayConnect(c) ==
  /\ conns[c] # Nil /\ calls[c] = Nil
  /\ conns' = [conns EXCEPT ![c].viaGateway = TRUE]
  /\ gatewayConnections' = IF conns[c].viaGateway THEN gatewayConnections
                           ELSE gatewayConnections + 1
  /\ UNCHANGED <<draining, calls, closing, agents, asked, evictions>>

\* Mutant of onConnectionClose: every close lowers the gauge.
onConnectionCloseAlways(c) ==
  /\ conns[c] # Nil /\ calls[c] = Nil
  /\ closing' = [closing EXCEPT ![c] = IF conns[c].transport = "ws"
                                         THEN conns[c].agents ELSE {}]
  /\ gatewayConnections' = gatewayConnections - 1
  /\ conns' = [conns EXCEPT ![c] = Nil]
  /\ UNCHANGED <<draining, calls, agents, asked, evictions>>

\* onConnectionClose up to its loop.  Only a WebSocket close disconnects.
onConnectionClose(c) ==
  /\ conns[c] # Nil /\ calls[c] = Nil
  /\ closing' = [closing EXCEPT ![c] = IF conns[c].transport = "ws"
                                         THEN conns[c].agents ELSE {}]
  /\ gatewayConnections' = IF conns[c].viaGateway THEN gatewayConnections - 1
                           ELSE gatewayConnections
  /\ conns' = [conns EXCEPT ![c] = Nil]
  /\ UNCHANGED <<draining, calls, agents, asked, evictions>>

\* One registry.SetConnected(id, false) of the loop.
SetConnected(c, id) ==
  /\ id \in closing[c]
  /\ closing' = [closing EXCEPT ![c] = @ \ {id}]
  /\ agents' = IF agents[id] = Nil THEN agents
               ELSE [agents EXCEPT ![id].connected = FALSE]
  /\ UNCHANGED <<draining, conns, calls, gatewayConnections, asked, evictions>>

\* Registry.Sweep finds the agent silent: disconnected, and evicted later.
SweepDisconnect(id) ==
  /\ agents[id] # Nil
  /\ agents[id].connected
  /\ agents' = [agents EXCEPT ![id].connected = FALSE]
  /\ UNCHANGED <<draining, conns, calls, closing, gatewayConnections, asked,
                 evictions>>

SweepEvict(id) ==
  /\ agents[id] # Nil
  /\ evictions < MaxEvictions
  /\ evictions' = evictions + 1
  /\ agents' = [agents EXCEPT ![id] = Nil]
  /\ UNCHANGED <<draining, conns, calls, closing, gatewayConnections, asked>>

Next ==
  \/ Drain
  \/ \E c \in Conn : onConnecting(c)
  \/ \E c \in Conn : \E id \in Relayed[c], full \in BOOLEAN :
       onMessage(c, id, full)
  \/ \E c \in Conn : Report(c) \/ Reply(c)
  \/ \E c \in Conn : onGatewayConnect(c) \/ onConnectionClose(c)
  \/ \E c \in Conn, id \in Uid : SetConnected(c, id)
  \/ \E id \in Uid : SweepDisconnect(id) \/ SweepEvict(id)

Spec == Init /\ [][Next]_vars

\* Agent id sends a message over connection c, on which it was heard before;
\* it describes itself if it has been asked to.
Heartbeat(c, id) ==
  /\ conns[c] # Nil
  /\ id \in conns[c].agents
  /\ onMessage(c, id, id \in asked)

\* opamp-go runs the callbacks of a connection to their end.  The client's
\* side of the protocol: an agent keeps sending heartbeats over a connection
\* that stays open, and answers ReportFullState; its messages queue behind
\* those of other agents on the connection, hence strong fairness.  Evictions
\* are finite in number (MaxEvictions): a registry that evicts an agent
\* between any two of its messages never learns anything.
FairSpec ==
  /\ Spec
  /\ \A c \in Conn :
       /\ WF_vars(Report(c))
       /\ WF_vars(Reply(c))
       /\ \A id \in Relayed[c] : SF_vars(Heartbeat(c, id))

-----------------------------------------------------------------------------
(* Properties.                                                             *)

\* The agent's connection is open and remembers it.
HeardOver(c, id) == conns[c] # Nil /\ id \in conns[c].agents

\* onConnectionClose leaves no ghost: an agent that is connected over a
\* WebSocket is remembered by that connection while it is open, or is about
\* to be marked disconnected, whichever agents share the connection.
NoGhostAgent ==
  \A id \in Uid :
    agents[id] # Nil /\ agents[id].connected /\ agents[id].transport = "ws"
      => HeardOver(agents[id].conn, id) \/ id \in closing[agents[id].conn]

\* grex_opamp_gateway_connections counts the open connections that have sent
\* a gateway connect, however many agents connect through each.
GaugeCountsGateways ==
  gatewayConnections =
    Cardinality({c \in Conn : conns[c] # Nil /\ conns[c].viaGateway})

\* onMessage asks for what is missing: an agent heard over a connection that
\* stays open is eventually described, also if it was evicted in between or
\* first heard after a restart, through a gateway that never reconnects.
FullStateArrives ==
  \A c \in Conn : \A id \in Relayed[c] :
    HeardOver(c, id) ~> \/ ~HeardOver(c, id)
                        \/ agents[id] # Nil /\ agents[id].described
=============================================================================
