----------------------------- MODULE FleetAgent -----------------------------
(***************************************************************************)
(* What internal/fleet does to ONE agent's registry entry: the fold of an  *)
(* OpAMP message into it, a connection close, and the two-stage liveness   *)
(* decision of Sweep.  No variables: WriteBehind applies these operators   *)
(* to one process's registry, SharedStore to every replica's.              *)
(*                                                                         *)
(* A report's content is abstracted to sections (description, health,      *)
(* packages, effective_config, capabilities), each holding a value or Nil. *)
(* sequence_num is display-only in the code and is left out.               *)
(***************************************************************************)
EXTENDS Integers

CONSTANTS
  Uid,                    \* instance_uids
  Conn,                   \* connection metadata values (fleet.ConnMeta)
  Section,                \* sections of an AgentToServer message
  EventSection,           \* the ones whose arrival fires ReportReceived
  Description,            \* the agent_description section
  EffectiveConfig,        \* the effective_config section
  Value,                  \* what a section may hold
  Nil,                    \* absent: no entry, no row, no section, SQL NULL
  HeartbeatInterval,
  StaleMissedHeartbeats

ASSUME SectionAssumption ==
  /\ EventSection \subseteq Section
  /\ Description \in EventSection
  /\ EffectiveConfig \in EventSection
  /\ Description # EffectiveConfig

\* config.validate: both must be positive.
ASSUME TimingAssumption ==
  /\ HeartbeatInterval \in Nat \ {0}
  /\ StaleMissedHeartbeats \in Nat \ {0}

\* fleet.Agent, as far as the durable state and liveness depend on it.
Entry ==
  [ firstSeen : Nat,
    lastSeen  : Nat,
    connected : BOOLEAN,
    conn      : Conn,
    fields    : [Section -> Value \cup {Nil}] ]

\* An AgentToServer message: Nil is a section the message does not carry.
Message == [Section -> Value \cup {Nil}]

ASSUME NilAssumption ==
  /\ Nil \notin Entry
  /\ Nil \notin Value
  /\ Nil \notin Nat

-----------------------------------------------------------------------------
\* Mutant of Reported: registration forgets FirstSeen.
ReportedNoFirstSeen(entry, msg, meta, now) ==
  [ firstSeen |-> IF entry = Nil THEN Nil ELSE entry.firstSeen,
    lastSeen  |-> now,
    connected |-> TRUE,
    conn      |-> meta,
    fields    |-> [s \in Section |->
                     IF msg[s] # Nil THEN msg[s]
                     ELSE IF entry = Nil THEN Nil ELSE entry.fields[s]] ]

\* Registry.Report on an existing entry (or Nil, which is registered first).
\* Sections absent from the message keep what an earlier report said.
Reported(entry, msg, meta, now) ==
  [ firstSeen |-> IF entry = Nil THEN now ELSE entry.firstSeen,
    lastSeen  |-> now,
    connected |-> TRUE,
    conn      |-> meta,
    fields    |-> [s \in Section |->
                     IF msg[s] # Nil THEN msg[s]
                     ELSE IF entry = Nil THEN Nil ELSE entry.fields[s]] ]

\* Mutant of ReportFires: only transitions mark dirty.
ReportFiresOnConnect(entry, msg) ==
  IF entry = Nil THEN TRUE ELSE ~entry.connected

\* Whether Report calls fleet.Events at all: AgentConnected on a transition,
\* ReportReceived per section.  A bare heartbeat of a connected agent and a
\* capabilities change fire nothing.
ReportFires(entry, msg) ==
  \/ entry = Nil
  \/ ~entry.connected
  \/ \E s \in EventSection : msg[s] # Nil

\* Registry.SetConnected: lastSeen is deliberately left alone.
ConnectionSet(entry, connected) ==
  IF entry = Nil THEN Nil ELSE [entry EXCEPT !.connected = connected]

SetConnectedFires(entry, connected) ==
  entry # Nil /\ entry.connected # connected

DisconnectThreshold == HeartbeatInterval + HeartbeatInterval \div 2

EvictAfter == HeartbeatInterval * StaleMissedHeartbeats

\* Registry.Sweep on one entry: disconnect first, then evict.
Swept(entry, now) ==
  LET age == now - entry.lastSeen IN
  IF entry = Nil THEN Nil
  ELSE IF age > EvictAfter THEN Nil
  ELSE IF age > DisconnectThreshold THEN [entry EXCEPT !.connected = FALSE]
  ELSE entry

SweepFires(entry, now) == Swept(entry, now) # entry
=============================================================================
