----------------------------- MODULE FleetMerge -----------------------------
(***************************************************************************)
(* The agents a read request has read, from a registry or from the store,  *)
(* and the merge of the two lists.  No variables: FleetRead says what is   *)
(* read and when, FleetQuery what is made of the merged list.              *)
(*                                                                         *)
(* Instance_uids are naturals in the order of the strings.                 *)
(***************************************************************************)
EXTENDS PostgresTables, Sequences, FiniteSetsExt

ASSUME UidAssumption == Uid \subseteq Nat

\* The sequences that hold every element of a finite set once: what a walk of
\* a Go map may yield.
InAnyOrder(S) == Injection(1 .. Cardinality(S), S)

-----------------------------------------------------------------------------
(* One agent, as a registry snapshot or as a row read back.                *)

Snapshot(id, entry) ==
  [ uid |-> id, fields |-> entry.fields, connected |-> entry.connected,
    conn |-> entry.conn, lastSeen |-> entry.lastSeen, sessionAt |-> Nil,
    evictedAt |-> Nil ]

\* Mutant of scanAgent: the row's evicted_at is not copied.
scanAgentLive(id, row, session) ==
  [ uid |-> id,
    fields |-> [s \in Section |-> IF s \in AgentColumn THEN row.fields[s] ELSE Nil],
    connected |-> session.connected, conn |-> session.conn,
    lastSeen |-> row.updatedAt, sessionAt |-> session.updatedAt,
    evictedAt |-> Nil ]

\* The effective config is read by a query of its own.
scanAgent(id, row, session) ==
  [ uid |-> id,
    fields |-> [s \in Section |-> IF s \in AgentColumn THEN row.fields[s] ELSE Nil],
    connected |-> session.connected, conn |-> session.conn,
    lastSeen |-> row.updatedAt, sessionAt |-> session.updatedAt,
    evictedAt |-> row.evictedAt ]

-----------------------------------------------------------------------------
(* The merge of the registry's list with the store's.                      *)

StaleConnected(a, now) ==
  a.connected /\ now - a.sessionAt > DisconnectThreshold

Corrected(a, now) ==
  IF StaleConnected(a, now) THEN [a EXCEPT !.connected = FALSE] ELSE a

Uids(agents) == {a.uid : a \in Range(agents)}

\* Mutant of MergeAgents: the store's rows are not checked against local.
MergeAgentsAll(local, db, now) ==
  LET merged[i \in 0 .. Len(db)] ==
        IF i = 0 THEN local
        ELSE IF db[i].evictedAt # Nil THEN merged[i - 1]
        ELSE Append(merged[i - 1], Corrected(db[i], now))
  IN  merged[Len(db)]

\* local wins on overlap, soft-deleted rows are left out.
MergeAgents(local, db, now) ==
  LET seen == Uids(local)
      merged[i \in 0 .. Len(db)] ==
        IF i = 0 THEN local
        ELSE IF db[i].uid \in seen \/ db[i].evictedAt # Nil THEN merged[i - 1]
        ELSE Append(merged[i - 1], Corrected(db[i], now))
  IN  merged[Len(db)]
=============================================================================
