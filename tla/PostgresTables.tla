--------------------------- MODULE PostgresTables ---------------------------
(***************************************************************************)
(* The statements internal/persistence runs against Postgres, as functions *)
(* from the rows of one instance_uid to the rows after the statement.      *)
(* Postgres runs each statement (and SaveAgent's transaction) atomically,  *)
(* so a specification applies them in one step.                            *)
(***************************************************************************)
EXTENDS FleetAgent

\* The sections that are columns of agents; config files have their own table.
AgentColumn == Section \ {EffectiveConfig}

\* agents: updatedAt stands for last_seen too, both are bound to LastSeen.
AgentRow ==
  [ firstSeen : Nat,
    updatedAt : Nat,
    fields    : [AgentColumn -> Value \cup {Nil}],
    evictedAt : Nat \cup {Nil} ]

SessionRow ==
  [ connected : BOOLEAN,
    conn      : Conn,
    described : BOOLEAN,
    updatedAt : Nat ]

\* All agent_effective_config rows of one agent; Nil when it has none.
ConfigRow == [ files : Value, updatedAt : Nat ]

ASSUME RowAssumption ==
  /\ Nil \notin AgentRow
  /\ Nil \notin SessionRow
  /\ Nil \notin ConfigRow

-----------------------------------------------------------------------------
AgentColumns(entry) == [s \in AgentColumn |-> entry.fields[s]]

\* Mutant of AgentsGuard: the upsert has no WHERE clause.
AgentsGuardAbsent(row, entry) == TRUE

\* RowsAffected() > 0 of the agents upsert: inserted, or strictly newer.
AgentsGuard(row, entry) ==
  IF row = Nil THEN TRUE ELSE row.updatedAt < entry.lastSeen

\* The agents upsert.  first_seen is written by the INSERT only, evicted_at
\* by neither branch.
UpsertAgent(row, entry) ==
  IF ~AgentsGuard(row, entry) THEN row
  ELSE [ firstSeen |-> IF row = Nil THEN entry.firstSeen ELSE row.firstSeen,
         updatedAt |-> entry.lastSeen,
         fields    |-> AgentColumns(entry),
         evictedAt |-> IF row = Nil THEN Nil ELSE row.evictedAt ]

\* Mutant of SessionGuard: the upsert has no WHERE clause.
SessionGuardAbsent(row, entry) == TRUE

\* saveSessionSQL: ties win, so that a disconnect at an unmoved LastSeen lands.
SessionGuard(row, entry) ==
  IF row = Nil THEN TRUE ELSE row.updatedAt <= entry.lastSeen

UpsertSession(row, entry) ==
  IF ~SessionGuard(row, entry) THEN row
  ELSE [ connected |-> entry.connected,
         conn      |-> entry.conn,
         described |-> entry.fields[Description] # Nil,
         updatedAt |-> entry.lastSeen ]

\* Mutant of ReplaceConfig: RowsAffected is not looked at.
ReplaceConfigUngated(agentRow, configRow, entry) ==
  IF entry.fields[EffectiveConfig] = Nil THEN Nil
  ELSE [ files     |-> entry.fields[EffectiveConfig],
         updatedAt |-> entry.lastSeen ]

\* SaveAgent's delete-and-insert of the config files, gated on the agents row.
ReplaceConfig(agentRow, configRow, entry) ==
  IF ~AgentsGuard(agentRow, entry) THEN configRow
  ELSE IF entry.fields[EffectiveConfig] = Nil THEN Nil
  ELSE [ files     |-> entry.fields[EffectiveConfig],
         updatedAt |-> entry.lastSeen ]

\* SoftDeleteAgent: only the first eviction stamps the row.
SoftDelete(row, now) ==
  IF row = Nil THEN Nil
  ELSE IF row.evictedAt # Nil THEN row
  ELSE [row EXCEPT !.evictedAt = now]

\* The purge job's WHERE clause; agent_session and agent_effective_config
\* rows of a purged agent go with it (ON DELETE CASCADE).
Purged(row, before) ==
  IF row = Nil THEN FALSE
  ELSE IF row.evictedAt = Nil THEN FALSE
  ELSE row.evictedAt < before
=============================================================================
