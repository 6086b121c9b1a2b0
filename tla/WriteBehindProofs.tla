------------------------- MODULE WriteBehindProofs --------------------------
(***************************************************************************)
(* Proofs about WriteBehind for every set of agents, sharding, timing and  *)
(* bound on the clock: its types, the agreement of the three tables and    *)
(* what a statement may do to a row, whatever overlaps or fails; then      *)
(* FlushInv, the inductive invariant behind NoLostUpdate.                  *)
(***************************************************************************)
EXTENDS WriteBehind, TLAPS

(* A leaf goes to Zenon unless it names SMT or starts with ONLY.           *)
USE Zenon

-----------------------------------------------------------------------------
(* What the registry and table operators return and keep.                  *)

\* Registry.Report makes an entry out of an entry or out of nothing.
LEMMA ReportedType ==
  ASSUME NEW entry \in Entry \cup {Nil}, NEW msg \in Message,
         NEW meta \in Conn, NEW now \in Nat
  PROVE  Reported(entry, msg, meta, now) \in Entry
<1>1. [s \in Section |-> IF msg[s] # Nil THEN msg[s]
                         ELSE IF entry = Nil THEN Nil ELSE entry.fields[s]]
        \in [Section -> Value \cup {Nil}]
  BY DEF Entry, Message
<1>2. (IF entry = Nil THEN now ELSE entry.firstSeen) \in Nat
  BY DEF Entry
<1> QED BY <1>1, <1>2 DEF Reported, Entry

\* SetConnected keeps an entry an entry.
LEMMA ConnectionSetType ==
  ASSUME NEW entry \in Entry \cup {Nil}, NEW c \in BOOLEAN
  PROVE  ConnectionSet(entry, c) \in Entry \cup {Nil}
BY DEF ConnectionSet, Entry

\* Sweep keeps an entry or drops it.
LEMMA SweptType ==
  ASSUME NEW entry \in Entry \cup {Nil}, NEW now \in Nat
  PROVE  Swept(entry, now) \in Entry \cup {Nil}
BY DEF Swept, Entry

\* The agents upsert makes a row.
LEMMA UpsertAgentType ==
  ASSUME NEW row \in AgentRow \cup {Nil}, NEW entry \in Entry
  PROVE  UpsertAgent(row, entry) \in AgentRow
<1>1. AgentColumns(entry) \in [AgentColumn -> Value \cup {Nil}]
  BY DEF AgentColumns, AgentColumn, Entry
<1>2. CASE row = Nil
  BY <1>1, <1>2 DEF UpsertAgent, AgentsGuard, AgentRow, Entry
<1>3. CASE row # Nil
  BY <1>1, <1>3 DEF UpsertAgent, AgentsGuard, AgentRow, Entry
<1> QED BY <1>2, <1>3

\* The session upsert makes a row.
LEMMA UpsertSessionType ==
  ASSUME NEW row \in SessionRow \cup {Nil}, NEW entry \in Entry
  PROVE  UpsertSession(row, entry) \in SessionRow
BY DEF UpsertSession, SessionGuard, SessionRow, Entry

\* Replacing the files leaves a row or none.
LEMMA ReplaceConfigType ==
  ASSUME NEW agent, NEW row \in ConfigRow \cup {Nil}, NEW entry \in Entry
  PROVE  ReplaceConfig(agent, row, entry) \in ConfigRow \cup {Nil}
BY SectionAssumption DEF ReplaceConfig, ConfigRow, Entry

\* The soft delete changes a row only in its evicted_at.
LEMMA SoftDeleteType ==
  ASSUME NEW row \in AgentRow \cup {Nil}, NEW now \in Nat
  PROVE  /\ SoftDelete(row, now) \in AgentRow \cup {Nil}
         /\ SoftDelete(row, now) = Nil <=> row = Nil
         /\ row # Nil => /\ SoftDelete(row, now).firstSeen = row.firstSeen
                         /\ SoftDelete(row, now).updatedAt = row.updatedAt
                         /\ SoftDelete(row, now).fields = row.fields
                         /\ SoftDelete(row, now).evictedAt # Nil
                         /\ row.evictedAt # Nil => SoftDelete(row, now) = row
BY NilAssumption, RowAssumption DEF SoftDelete, AgentRow

\* One SaveAgent keeps the files and the row together.
LEMMA SaveMatches ==
  ASSUME NEW row \in AgentRow \cup {Nil}, NEW config \in ConfigRow \cup {Nil},
         NEW entry \in Entry,
         config # Nil => row # Nil /\ config.updatedAt = row.updatedAt
  PROVE  ReplaceConfig(row, config, entry) # Nil =>
           ReplaceConfig(row, config, entry).updatedAt
             = UpsertAgent(row, entry).updatedAt
<1>1. CASE AgentsGuard(row, entry)
  BY <1>1 DEF ReplaceConfig, UpsertAgent
<1>2. CASE ~AgentsGuard(row, entry)
  BY <1>2 DEF ReplaceConfig, UpsertAgent, AgentsGuard
<1> QED BY <1>1, <1>2

\* The agents and config statements of one SaveAgent never move a row back.
LEMMA UpsertAgentAdvances ==
  ASSUME NEW row \in AgentRow, NEW config \in ConfigRow \cup {Nil},
         NEW entry \in Entry
  PROVE  /\ UpsertAgent(row, entry).firstSeen = row.firstSeen
         /\ UpsertAgent(row, entry).evictedAt = row.evictedAt
         /\ \/ UpsertAgent(row, entry).updatedAt > row.updatedAt
            \/ /\ UpsertAgent(row, entry) = row
               /\ ReplaceConfig(row, config, entry) = config
<1>1. row # Nil
  BY RowAssumption
<1>2. CASE AgentsGuard(row, entry)
  BY <1>1, <1>2 DEF UpsertAgent, AgentsGuard, AgentRow, Entry
<1>3. CASE ~AgentsGuard(row, entry)
  BY <1>3 DEF UpsertAgent, ReplaceConfig
<1> QED BY <1>2, <1>3

\* Neither does the session statement.
LEMMA UpsertSessionAdvances ==
  ASSUME NEW row \in SessionRow, NEW entry \in Entry
  PROVE  UpsertSession(row, entry).updatedAt >= row.updatedAt
BY SMT, RowAssumption DEF UpsertSession, SessionGuard, SessionRow, Entry

-----------------------------------------------------------------------------
(* Type correctness.                                                       *)

\* A fresh process with empty tables is well typed.
LEMMA InitType == Init => TypeOK
BY SMT, WriteBehindAssumption DEF Init, TypeOK, NoEntries, NoRows

\* So is whatever a handler, a ticker or a statement leaves behind.
LEMMA NextType == TypeOK /\ [Next]_vars => TypeOK'
<1> SUFFICES ASSUME TypeOK, [Next]_vars PROVE TypeOK'
  OBVIOUS
<1> USE DEF TypeOK, registryVars, sweepVars, flushVars, snapVars, tables
<1>1. CASE Tick
  BY SMT, <1>1 DEF Tick
<1>2. ASSUME NEW id \in Uid, NEW msg \in Messages, NEW meta \in Conn,
             ReportCall(id, msg, meta)
      PROVE  TypeOK'
  BY SMT, <1>2 DEF ReportCall, Pending
<1>3. ASSUME NEW r \in reports, ReportApply(r)
      PROVE  TypeOK'
  <2>1. r \in Pending
    OBVIOUS
  <2>2. Reported(agents[r.id], r.msg, r.meta, r.at) \in Entry
    BY <2>1, ReportedType, WriteBehindAssumption DEF Pending
  <2>3. agents' \in [Uid -> Entry \cup {Nil}]
    BY <1>3, <2>1, <2>2 DEF ReportApply, Pending
  <2>4. dirty' \subseteq Uid
    BY <1>3, <2>1 DEF ReportApply, Pending
  <2> QED BY <1>3, <2>3, <2>4 DEF ReportApply
<1>4. ASSUME NEW id \in Uid, Disconnect(id)
      PROVE  TypeOK'
  <2>1. agents' \in [Uid -> Entry \cup {Nil}]
    BY <1>4, ConnectionSetType DEF Disconnect
  <2> QED BY <1>4, <2>1 DEF Disconnect
<1>5. CASE SweepTick
  BY SMT, <1>5, WriteBehindAssumption DEF SweepTick
<1>6. CASE Sweep
  <2>1. agents' \in [Uid -> Entry \cup {Nil}]
    BY <1>6, SweptType DEF Sweep
  <2>2. dirty' \subseteq Uid
    BY <1>6 DEF Sweep, InShard
  <2>3. sweepNext' \in 0 .. ShardCount
    BY SMT, <1>6, WriteBehindAssumption DEF Sweep
  <2> QED BY <1>6, <2>1, <2>2, <2>3 DEF Sweep
<1>7. CASE FlushDrain
  BY <1>7 DEF FlushDrain
<1>8. ASSUME NEW id \in Uid, FlushGet(id)
      PROVE  TypeOK'
  BY <1>8 DEF FlushGet
<1>9. ASSUME NEW id \in Uid, NEW outcome \in Outcome, SaveAgent(id, outcome)
      PROVE  TypeOK'
  <2>1. saves[id] \in Entry
    BY <1>9 DEF SaveAgent
  <2>2. UpsertAgent(agentRow[id], saves[id]) \in AgentRow
    BY <2>1, UpsertAgentType
  <2>3. UpsertSession(sessionRow[id], saves[id]) \in SessionRow
    BY <2>1, UpsertSessionType
  <2>4. ReplaceConfig(agentRow[id], configRow[id], saves[id])
          \in ConfigRow \cup {Nil}
    BY <2>1, ReplaceConfigType
  <2>5. /\ agentRow' \in [Uid -> AgentRow \cup {Nil}]
        /\ sessionRow' \in [Uid -> SessionRow \cup {Nil}]
        /\ configRow' \in [Uid -> ConfigRow \cup {Nil}]
    BY SMT, <1>9, <2>2, <2>3, <2>4 DEF SaveAgent
  <2> QED BY <1>9, <2>5 DEF SaveAgent
<1>10. ASSUME NEW C \in SUBSET Uid, NEW outcome \in Outcome,
              SoftDeleteBatch(C, outcome)
       PROVE  TypeOK'
  <2>1. agentRow' \in [Uid -> AgentRow \cup {Nil}]
    BY <1>10, SoftDeleteType DEF SoftDeleteBatch
  <2> QED BY <1>10, <2>1 DEF SoftDeleteBatch
<1>11. CASE SnapshotList
  BY SMT, <1>11, WriteBehindAssumption DEF SnapshotList
<1>12. CASE SnapshotDue
  <2>1. due' \in [Uid -> Entry \cup {Nil}]
    BY <1>12 DEF SnapshotDue
  <2>2. written' \in [Uid -> Nat \cup {Nil}]
    BY <1>12 DEF SnapshotDue
  <2> QED BY SMT, <1>12, <2>1, <2>2, WriteBehindAssumption DEF SnapshotDue, NoEntries
<1>13. ASSUME NEW C \in SUBSET Uid, NEW recorded \in SUBSET Uid,
              NEW outcome \in Outcome, SessionBatch(C, outcome, recorded)
       PROVE  TypeOK'
  <2>1. \A id \in C : due[id] \in Entry
    BY <1>13 DEF SessionBatch, IsChunk, Sending
  <2>2. due' \in [Uid -> Entry \cup {Nil}]
    BY <1>13 DEF SessionBatch
  <2>3. sessionRow' \in [Uid -> SessionRow \cup {Nil}]
    BY <1>13, <2>1, UpsertSessionType DEF SessionBatch
  <2>4. written' \in [Uid -> Nat \cup {Nil}]
    BY <1>13, <2>1 DEF SessionBatch, Entry
  <2> QED BY <1>13, <2>2, <2>3, <2>4 DEF SessionBatch
<1>14. CASE UNCHANGED vars
  BY <1>14 DEF vars
<1> QED
  BY <1>1, <1>2, <1>3, <1>4, <1>5, <1>6, <1>7, <1>8, <1>9, <1>10, <1>11,
     <1>12, <1>13, <1>14
  DEF Next, RegistryNext, FlusherNext, SnapshotterNext

\* Every variable of the write-behind pipeline keeps its type: registry
\* entries, saves in flight and rows are whole records, never partial ones.
THEOREM TypeCorrect == Spec => []TypeOK
BY InitType, NextType, PTL DEF Spec

-----------------------------------------------------------------------------
(* The tables.                                                             *)

\* Every step keeps the three tables together.
LEMMA TablesNext ==
  TypeOK /\ ConfigMatchesAgents /\ SessionIffAgent /\ [Next]_vars
    => ConfigMatchesAgents' /\ SessionIffAgent'
<1> SUFFICES ASSUME TypeOK, ConfigMatchesAgents, SessionIffAgent, [Next]_vars
             PROVE  ConfigMatchesAgents' /\ SessionIffAgent'
  OBVIOUS
<1>1. CASE UNCHANGED tables
  BY <1>1 DEF tables, ConfigMatchesAgents, SessionIffAgent
<1>2. ASSUME NEW id \in Uid, NEW outcome \in Outcome, SaveAgent(id, outcome)
      PROVE  ConfigMatchesAgents' /\ SessionIffAgent'
  <2>1. CASE outcome # "ok"
    BY <1>1, <1>2, <2>1 DEF SaveAgent
  <2>2. CASE outcome = "ok"
    <3>1. /\ agentRow'[id] = UpsertAgent(agentRow[id], saves[id])
          /\ sessionRow'[id] = UpsertSession(sessionRow[id], saves[id])
          /\ configRow'[id]
               = ReplaceConfig(agentRow[id], configRow[id], saves[id])
          /\ \A u \in Uid : u # id => /\ agentRow'[u] = agentRow[u]
                                      /\ sessionRow'[u] = sessionRow[u]
                                      /\ configRow'[u] = configRow[u]
      BY <1>2, <2>2 DEF SaveAgent, TypeOK
    <3>2. /\ saves[id] \in Entry
          /\ agentRow[id] \in AgentRow \cup {Nil}
          /\ sessionRow[id] \in SessionRow \cup {Nil}
          /\ configRow[id] \in ConfigRow \cup {Nil}
      BY <1>2 DEF SaveAgent, TypeOK
    <3>3. agentRow'[id] # Nil /\ sessionRow'[id] # Nil
      BY <3>1, <3>2, UpsertAgentType, UpsertSessionType, RowAssumption
    <3>4. configRow'[id] # Nil =>
            configRow'[id].updatedAt = agentRow'[id].updatedAt
      BY <3>1, <3>2, SaveMatches DEF ConfigMatchesAgents
    <3> QED BY <3>1, <3>3, <3>4 DEF ConfigMatchesAgents, SessionIffAgent
  <2> QED BY <2>1, <2>2
<1>3. ASSUME NEW C \in SUBSET Uid, NEW outcome \in Outcome,
             SoftDeleteBatch(C, outcome)
      PROVE  ConfigMatchesAgents' /\ SessionIffAgent'
  <2>1. UNCHANGED <<sessionRow, configRow>>
    BY <1>3 DEF SoftDeleteBatch
  <2>2. ASSUME NEW u \in Uid
        PROVE  /\ agentRow'[u] = Nil <=> agentRow[u] = Nil
               /\ agentRow[u] # Nil =>
                    agentRow'[u].updatedAt = agentRow[u].updatedAt
    <3>1. agentRow[u] \in AgentRow \cup {Nil} /\ clock \in Nat
      BY DEF TypeOK
    <3>2. agentRow'[u] \in {agentRow[u], SoftDelete(agentRow[u], clock)}
      BY <1>3 DEF SoftDeleteBatch, TypeOK
    <3> QED BY SMT, <3>1, <3>2, SoftDeleteType
  <2> QED BY <2>1, <2>2 DEF ConfigMatchesAgents, SessionIffAgent
<1>4. ASSUME NEW C \in SUBSET Uid, NEW recorded \in SUBSET Uid,
             NEW outcome \in Outcome, SessionBatch(C, outcome, recorded)
      PROVE  ConfigMatchesAgents' /\ SessionIffAgent'
  <2>1. UNCHANGED <<agentRow, configRow>>
    BY <1>4 DEF SessionBatch
  <2>2. ASSUME NEW u \in Uid
        PROVE  sessionRow'[u] # Nil <=> sessionRow[u] # Nil
    <3>1. CASE sessionRow'[u] = sessionRow[u]
      BY <3>1
    <3>2. CASE sessionRow'[u] # sessionRow[u]
      <4>1. /\ u \in C /\ agentRow[u] # Nil
            /\ sessionRow'[u] = UpsertSession(sessionRow[u], due[u])
        BY <1>4, <3>2 DEF SessionBatch, TypeOK
      <4>2. due[u] \in Entry /\ sessionRow[u] \in SessionRow \cup {Nil}
        BY <1>4, <4>1 DEF SessionBatch, IsChunk, Sending, TypeOK
      <4>3. sessionRow'[u] # Nil
        BY <4>1, <4>2, UpsertSessionType, RowAssumption
      <4> QED BY <4>1, <4>3 DEF SessionIffAgent
    <3> QED BY <3>1, <3>2
  <2> QED BY <2>1, <2>2 DEF ConfigMatchesAgents, SessionIffAgent
<1>5. CASE RegistryNext \/ FlushDrain \/ SnapshotList \/ SnapshotDue
           \/ (\E id \in Uid : FlushGet(id)) \/ UNCHANGED vars
  <2>1. UNCHANGED tables
    BY <1>5 DEF RegistryNext, Tick, ReportCall, ReportApply, Disconnect,
                SweepTick, Sweep, FlushDrain, SnapshotList, SnapshotDue,
                FlushGet, vars
  <2> QED BY <1>1, <2>1
<1> QED BY <1>2, <1>3, <1>4, <1>5 DEF Next, FlusherNext, SnapshotterNext

\* Configuration files always belong to the stored agents row, and an agents
\* row and its session row exist together, even when writes fail and reports
\* of one agent overlap.
THEOREM TablesAgree == Spec => [](ConfigMatchesAgents /\ SessionIffAgent)
<1>1. Init => ConfigMatchesAgents /\ SessionIffAgent
  BY DEF Init, ConfigMatchesAgents, SessionIffAgent, NoRows
<1> QED BY <1>1, TypeCorrect, TablesNext, PTL DEF Spec

\* The second half of TablesAgree on its own: SaveAgent, SaveSession and the
\* snapshotter's batch never leave an agent with one of its two rows.
THEOREM SessionsAgree == Spec => []SessionIffAgent
BY TablesAgree, PTL

\* Every step moves each row forward or leaves it.
LEMMA RowsAdvance == TypeOK /\ [Next]_vars => [RowsNeverRegress]_vars
<1> SUFFICES ASSUME TypeOK, [Next]_vars PROVE RowsNeverRegress
  OBVIOUS
<1> SUFFICES ASSUME NEW u \in Uid PROVE RowsNeverRegress!(u)
  BY DEF RowsNeverRegress
<1>0. /\ agentRow[u] \in AgentRow \cup {Nil}
      /\ sessionRow[u] \in SessionRow \cup {Nil}
      /\ configRow[u] \in ConfigRow \cup {Nil}
      /\ clock \in Nat
  BY DEF TypeOK
<1>1. CASE UNCHANGED tables
  BY SMT, <1>0, <1>1 DEF tables, AgentRow, SessionRow
<1>2. ASSUME NEW id \in Uid, NEW outcome \in Outcome, SaveAgent(id, outcome)
      PROVE  RowsNeverRegress!(u)
  <2>1. CASE outcome # "ok"
    BY <1>1, <1>2, <2>1 DEF SaveAgent
  <2>2. CASE outcome = "ok" /\ u = id
    <3>1. /\ agentRow'[u] = UpsertAgent(agentRow[u], saves[u])
          /\ sessionRow'[u] = UpsertSession(sessionRow[u], saves[u])
          /\ configRow'[u] = ReplaceConfig(agentRow[u], configRow[u], saves[u])
          /\ saves[u] \in Entry
      BY <1>2, <2>2 DEF SaveAgent, TypeOK
    <3>2. /\ agentRow'[u] # Nil
          /\ sessionRow'[u] # Nil
      BY <1>0, <3>1, UpsertAgentType, UpsertSessionType, RowAssumption
    <3> QED BY <1>0, <3>1, <3>2, UpsertAgentAdvances, UpsertSessionAdvances
  <2>3. CASE outcome = "ok" /\ u # id
    <3>1. /\ agentRow'[u] = agentRow[u] /\ sessionRow'[u] = sessionRow[u]
          /\ configRow'[u] = configRow[u]
      BY SMT, <1>2, <2>3 DEF SaveAgent, TypeOK
    <3> QED BY SMT, <1>0, <3>1 DEF AgentRow, SessionRow
  <2> QED BY <2>1, <2>2, <2>3
<1>3. ASSUME NEW C \in SUBSET Uid, NEW outcome \in Outcome,
             SoftDeleteBatch(C, outcome)
      PROVE  RowsNeverRegress!(u)
  <2>1. /\ agentRow'[u] \in {agentRow[u], SoftDelete(agentRow[u], clock)}
        /\ sessionRow' = sessionRow /\ configRow' = configRow
    BY <1>3 DEF SoftDeleteBatch, TypeOK
  <2> QED BY SMT, <1>0, <2>1, SoftDeleteType DEF AgentRow, SessionRow
<1>4. ASSUME NEW C \in SUBSET Uid, NEW recorded \in SUBSET Uid,
             NEW outcome \in Outcome, SessionBatch(C, outcome, recorded)
      PROVE  RowsNeverRegress!(u)
  <2>1. agentRow' = agentRow /\ configRow' = configRow
    BY <1>4 DEF SessionBatch
  <2>2. CASE sessionRow'[u] = sessionRow[u]
    BY SMT, <1>0, <2>1, <2>2 DEF AgentRow, SessionRow
  <2>3. CASE sessionRow'[u] # sessionRow[u]
    <3>1. u \in C /\ sessionRow'[u] = UpsertSession(sessionRow[u], due[u])
      BY <1>4, <2>3 DEF SessionBatch, TypeOK
    <3>2. due[u] \in Entry
      BY <1>4, <3>1 DEF SessionBatch, IsChunk, Sending, TypeOK
    <3>3. sessionRow'[u] # Nil
      BY <1>0, <3>1, <3>2, UpsertSessionType, RowAssumption
    <3> QED BY <1>0, <2>1, <3>1, <3>2, <3>3, UpsertSessionAdvances
            DEF AgentRow
  <2> QED BY <2>2, <2>3
<1>5. CASE RegistryNext \/ FlushDrain \/ SnapshotList \/ SnapshotDue
           \/ (\E id \in Uid : FlushGet(id)) \/ UNCHANGED vars
  <2>1. UNCHANGED tables
    BY <1>5 DEF RegistryNext, Tick, ReportCall, ReportApply, Disconnect,
                SweepTick, Sweep, FlushDrain, SnapshotList, SnapshotDue,
                FlushGet, vars
  <2> QED BY <1>1, <2>1
<1> QED BY <1>2, <1>3, <1>4, <1>5 DEF Next, FlusherNext, SnapshotterNext

\* No step of the pipeline moves a stored row back in event time, changes the
\* columns without a later one, rewrites first_seen or an evicted_at.
THEOREM StoreAdvances == Spec => StoredNeverRegresses
BY TypeCorrect, RowsAdvance, PTL DEF Spec, StoredNeverRegresses

-----------------------------------------------------------------------------
(* FlushInv under the registry's side of the pipeline: reports, connection  *)
(* changes, the sweeper.                                                   *)

\* No time in the registry, in a save or in a row is ahead of the clock.
BehindClock ==
  /\ clock \in Nat
  /\ \A r \in reports : r.id \in Uid /\ r.at \in Nat /\ r.at <= clock
  /\ \A u \in Uid :
       /\ agents[u] # Nil =>
            agents[u].lastSeen \in Nat /\ agents[u].lastSeen <= clock
       /\ saves[u] # Nil =>
            saves[u].lastSeen \in Nat /\ saves[u].lastSeen <= clock
       /\ agentRow[u] # Nil =>
            agentRow[u].updatedAt \in Nat /\ agentRow[u].updatedAt <= clock

\* The invariant says so.
LEMMA TimesBehindClock ==
  ASSUME TypeOK, FlushInv
  PROVE  BehindClock
<1>1. clock \in Nat /\ \A r \in reports : r.id \in Uid /\ r.at \in Nat
  BY DEF TypeOK, Pending
<1>2. ASSUME NEW u \in Uid
      PROVE  /\ agents[u] # Nil => agents[u].lastSeen \in Nat
             /\ saves[u] # Nil => saves[u].lastSeen \in Nat
             /\ agentRow[u] # Nil => agentRow[u].updatedAt \in Nat
  <2>1. /\ agents[u] \in Entry \cup {Nil} /\ saves[u] \in Entry \cup {Nil}
        /\ agentRow[u] \in AgentRow \cup {Nil}
    BY DEF TypeOK
  <2> QED BY ONLY <2>1 DEF Entry, AgentRow
<1> QED BY <1>1, <1>2 DEF BehindClock, FlushInv, StampInv

\* Reading FlushInv in another state with the same registry, saves and tables.
LEMMA FlushInvStable ==
  ASSUME TypeOK, TypeOK', FlushInv, clock' >= clock,
         UNCHANGED <<registryVars, flushVars, agentRow, configRow>>
  PROVE  FlushInv'
<1> USE DEF registryVars, flushVars
<1>1. \A id \in Uid : StoredContent(id)' = StoredContent(id)
  BY DEF StoredContent
<1>2. SerialInv'
  BY DEF FlushInv, SerialInv
<1>3. StampInv'
  <2>0. /\ clock \in Nat /\ clock' \in Nat /\ clock' >= clock
        /\ UNCHANGED <<reports, agents, saves, agentRow>>
    BY DEF TypeOK
  <2>t. BehindClock
    BY TimesBehindClock
  <2>1. ASSUME NEW r \in reports'
        PROVE  r.at <= clock'
    BY ONLY <2>0, <2>t DEF BehindClock
  <2>2. ASSUME NEW id \in Uid
        PROVE  /\ agents'[id] # Nil => agents'[id].lastSeen <= clock'
               /\ saves'[id] # Nil => saves'[id].lastSeen <= clock'
               /\ agentRow'[id] # Nil => agentRow'[id].updatedAt <= clock'
    BY ONLY <2>0, <2>t, id \in Uid DEF BehindClock
  <2> QED BY <2>0, <2>1, <2>2 DEF FlushInv, StampInv
<1>4. LineInv'
  BY <1>1 DEF FlushInv, LineInv
<1>5. PhaseInv'
  BY DEF FlushInv, PhaseInv
<1>6. NoLostUpdate'
  BY <1>1 DEF FlushInv, NoLostUpdate, Settled
<1> QED BY <1>2, <1>3, <1>4, <1>5, <1>6 DEF FlushInv

\* A report that fires no event changes nothing that events announce.
LEMMA QuietReport ==
  ASSUME NEW entry \in Entry \cup {Nil}, NEW msg \in Message,
         NEW meta \in Conn, NEW now \in Nat, ~ReportFires(entry, msg)
  PROVE  entry # Nil /\ Content(Reported(entry, msg, meta, now)) = Content(entry)
<1>1. entry # Nil
  BY DEF ReportFires
<1>2. \A s \in EventSection : msg[s] = Nil
  BY DEF ReportFires
<1>3. \A s \in EventSection :
        Reported(entry, msg, meta, now).fields[s] = entry.fields[s]
  BY <1>1, <1>2, SectionAssumption DEF Reported, Entry
<1> QED BY <1>1, <1>3 DEF Content

\* A disconnect keeps the event time and the content.
LEMMA ConnectionSetKeeps ==
  ASSUME NEW entry \in Entry, NEW c \in BOOLEAN
  PROVE  /\ ConnectionSet(entry, c) \in Entry
         /\ ConnectionSet(entry, c).lastSeen = entry.lastSeen
         /\ Content(ConnectionSet(entry, c)) = Content(entry)
BY NilAssumption DEF ConnectionSet, Entry, Content

\* What Sweep leaves in the registry keeps its event time and its content.
LEMMA SweptKeeps ==
  ASSUME NEW entry \in Entry \cup {Nil}, NEW now \in Nat,
         Swept(entry, now) # Nil
  PROVE  /\ entry \in Entry
         /\ Swept(entry, now).lastSeen = entry.lastSeen
         /\ Content(Swept(entry, now)) = Content(entry)
BY NilAssumption DEF Swept, Entry, Content

\* SaveAgent's three statements, when the guard lets them through, store the
\* content and the event time of the entry they were given.
LEMMA SaveStores ==
  ASSUME NEW row \in AgentRow \cup {Nil}, NEW config \in ConfigRow \cup {Nil},
         NEW entry \in Entry, AgentsGuard(row, entry)
  PROVE  /\ UpsertAgent(row, entry).updatedAt = entry.lastSeen
         /\ \A s \in EventSection : s # EffectiveConfig =>
              UpsertAgent(row, entry).fields[s] = entry.fields[s]
         /\ (IF ReplaceConfig(row, config, entry) = Nil THEN Nil
             ELSE ReplaceConfig(row, config, entry).files)
              = entry.fields[EffectiveConfig]
<1>1. \A s \in EventSection : s # EffectiveConfig =>
        AgentColumns(entry)[s] = entry.fields[s]
  BY SectionAssumption DEF AgentColumns, AgentColumn
<1>2. entry.fields[EffectiveConfig] \in Value \cup {Nil}
  BY SectionAssumption DEF Entry
<1>3. (IF ReplaceConfig(row, config, entry) = Nil THEN Nil
       ELSE ReplaceConfig(row, config, entry).files)
         = entry.fields[EffectiveConfig]
  <2>1. CASE entry.fields[EffectiveConfig] = Nil
    BY <2>1 DEF ReplaceConfig
  <2>2. CASE entry.fields[EffectiveConfig] # Nil
    <3>1. ReplaceConfig(row, config, entry)
            = [files |-> entry.fields[EffectiveConfig],
               updatedAt |-> entry.lastSeen]
      BY <2>2 DEF ReplaceConfig
    <3>2. ReplaceConfig(row, config, entry) \in ConfigRow
      BY SMT, <3>1, <2>2, <1>2 DEF ConfigRow, Entry
    <3> QED BY SMT, <3>1, <3>2, RowAssumption
  <2> QED BY <2>1, <2>2
<1> QED BY <1>1, <1>3 DEF UpsertAgent

\* A fresh process has nothing to lose.
LEMMA FlushInvInit == Init => FlushInv
BY DEF Init, FlushInv, SerialInv, StampInv, LineInv, PhaseInv, NoLostUpdate,
       NoEntries, NoRows

\* A report reads the clock: its time is newer than every other.
LEMMA FlushInvReportCall ==
  ASSUME TypeOK, TypeOK', FlushInv, ~Overlap,
         NEW id \in Uid, NEW msg \in Messages, NEW meta \in Conn,
         ReportCall(id, msg, meta)
  PROVE  FlushInv'
<1> USE DEF flushVars, tables
<1> DEFINE new == [id |-> id, msg |-> msg, meta |-> meta, at |-> clock + 1]
<1>1. /\ reports' = reports \cup {new} /\ clock' = clock + 1
      /\ \A r \in reports : r.id # id
      /\ UNCHANGED <<agents, dirty, drained, saves, evictedIDs, agentRow,
                     configRow>>
  BY DEF ReportCall
<1>2. \A u \in Uid : StoredContent(u)' = StoredContent(u)
  BY <1>1 DEF StoredContent
<1>3. SerialInv'
  BY SMT, <1>1 DEF FlushInv, SerialInv
<1>4. StampInv'
  <2>t. BehindClock
    BY TimesBehindClock
  <2>1. ASSUME NEW u \in Uid
        PROVE  /\ agents'[u] # Nil => agents'[u].lastSeen < clock'
               /\ saves'[u] # Nil => saves'[u].lastSeen < clock'
               /\ agentRow'[u] # Nil => agentRow'[u].updatedAt < clock'
    BY ONLY <1>1, <2>t, u \in Uid DEF BehindClock
  <2>2. ASSUME NEW r \in reports'
        PROVE  /\ r.at <= clock'
               /\ agents'[r.id] # Nil => agents'[r.id].lastSeen < r.at
               /\ saves'[r.id] # Nil => saves'[r.id].lastSeen < r.at
               /\ agentRow'[r.id] # Nil => agentRow'[r.id].updatedAt < r.at
    <3>1. CASE r \in reports
      <4>1. /\ r.at \in Nat /\ r.at <= clock /\ clock \in Nat
            /\ clock' = clock + 1
        BY <1>1, <2>t, <3>1 DEF BehindClock
      <4>2. r.at <= clock'
        BY ONLY <4>1
      <4> QED BY <1>1, <3>1, <4>2 DEF FlushInv, StampInv
    <3>2. CASE r = new
      <4>1. r.id \in Uid /\ r.at = clock'
        BY <1>1, <3>2
      <4>2. r.at <= clock'
        BY ONLY <2>t, <1>1, <4>1 DEF BehindClock
      <4> QED BY <2>1, <4>1, <4>2
    <3> QED BY <1>1, <3>1, <3>2
  <2>3. ASSUME NEW u \in Uid
        PROVE  /\ agents'[u] # Nil => agents'[u].lastSeen <= clock'
               /\ saves'[u] # Nil => saves'[u].lastSeen <= clock'
               /\ agentRow'[u] # Nil => agentRow'[u].updatedAt <= clock'
    BY ONLY <1>1, <2>t, u \in Uid DEF BehindClock
  <2> QED BY <2>2, <2>3 DEF StampInv
<1>5. LineInv'
  BY <1>1, <1>2 DEF FlushInv, LineInv
<1>6. PhaseInv'
  BY <1>1 DEF FlushInv, PhaseInv
<1>7. NoLostUpdate'
  BY <1>1, <1>2 DEF FlushInv, NoLostUpdate, Settled
<1> QED BY <1>3, <1>4, <1>5, <1>6, <1>7 DEF FlushInv

\* A report takes the lock: its time moves the registry ahead of the saves
\* and the store, and it marks the agent dirty unless its content is the same.
LEMMA FlushInvReportApply ==
  ASSUME TypeOK, TypeOK', FlushInv, NEW r \in reports, ReportApply(r)
  PROVE  FlushInv'
<1> USE DEF flushVars, tables
<1> DEFINE id  == r.id
           new == Reported(agents[id], r.msg, r.meta, r.at)
<1>1. /\ id \in Uid /\ r.msg \in Message /\ r.meta \in Conn /\ r.at \in Nat
  BY WriteBehindAssumption DEF TypeOK, Pending
<1>2. new \in Entry /\ new # Nil /\ new.lastSeen = r.at
  <2>1. new \in Entry
    BY <1>1, ReportedType DEF TypeOK
  <2>2. new.lastSeen = r.at
    BY DEF Reported
  <2> QED BY <2>1, <2>2, NilAssumption
<1>3. /\ reports' = reports \ {r}
      /\ agents' = [agents EXCEPT ![id] = new]
      /\ dirty' = IF ReportFires(agents[id], r.msg) THEN dirty \cup {id}
                  ELSE dirty
      /\ UNCHANGED <<clock, drained, saves, evictedIDs, agentRow, configRow>>
  BY DEF ReportApply
<1>4. agents'[id] = new /\ \A u \in Uid : u # id => agents'[u] = agents[u]
  BY <1>1, <1>3 DEF TypeOK
<1>5. \A u \in Uid : StoredContent(u)' = StoredContent(u)
  BY <1>3 DEF StoredContent
<1>6. \A q \in reports' : q \in reports /\ q.id \in Uid /\ q.id # id
  BY <1>3 DEF FlushInv, SerialInv, TypeOK, Pending
<1>7. /\ r.at <= clock
      /\ saves[id] # Nil => saves[id].lastSeen < r.at
      /\ agentRow[id] # Nil => agentRow[id].updatedAt < r.at
  BY DEF FlushInv, StampInv
<1>8. SerialInv'
  BY <1>3 DEF FlushInv, SerialInv
<1>9. StampInv'
  <2>1. ASSUME NEW u \in Uid
        PROVE  agents'[u] # Nil => agents'[u].lastSeen <= clock'
    <3>1. CASE u = id
      BY <1>2, <1>3, <1>4, <1>7, <3>1
    <3>2. CASE u # id
      BY <1>3, <1>4, <3>2 DEF FlushInv, StampInv
    <3> QED BY <3>1, <3>2
  <2> QED BY <1>3, <1>4, <1>6, <2>1 DEF FlushInv, StampInv
<1>10. LineInv'
  <2> SUFFICES ASSUME NEW u \in Uid PROVE LineInv!(u)'
    BY DEF LineInv
  <2>1. CASE u = id
    BY <1>2, <1>3, <1>4, <1>5, <1>7, <2>1 DEF FlushInv, LineInv
  <2>2. CASE u # id
    BY <1>3, <1>4, <1>5, <2>2 DEF FlushInv, LineInv
  <2> QED BY <2>1, <2>2
<1>11. PhaseInv'
  BY <1>2, <1>3, <1>4 DEF FlushInv, PhaseInv
<1>12. NoLostUpdate'
  <2> SUFFICES ASSUME NEW u \in Uid, Settled(u)' PROVE NoLostUpdate!(u)!2'
    BY DEF NoLostUpdate
  <2>1. Settled(u)
    BY <1>3 DEF Settled
  <2>2. CASE u # id
    BY <1>3, <1>4, <1>5, <2>1, <2>2 DEF FlushInv, NoLostUpdate
  <2>3. CASE u = id
    <3>1. ~ReportFires(agents[id], r.msg)
      BY <1>3, <2>3 DEF Settled
    <3>2. agents[id] # Nil /\ Content(new) = Content(agents[id])
      BY ZenonT(30), <1>1, <3>1, QuietReport DEF TypeOK
    <3> QED BY <1>2, <1>3, <1>4, <1>5, <2>1, <2>3, <3>2
            DEF FlushInv, NoLostUpdate
  <2> QED BY <2>2, <2>3
<1> QED BY <1>8, <1>9, <1>10, <1>11, <1>12 DEF FlushInv

\* Liveness decisions (SetConnected, Sweep): they keep event times and
\* contents, may drop entries, and mark dirty whatever they change.
LEMMA FlushInvLiveness ==
  ASSUME TypeOK, TypeOK', FlushInv,
         \A u \in Uid : agents'[u] # Nil =>
           /\ agents[u] # Nil
           /\ agents'[u].lastSeen = agents[u].lastSeen
           /\ Content(agents'[u]) = Content(agents[u]),
         \A u \in Uid : u \notin dirty' => agents'[u] = agents[u],
         dirty \subseteq dirty',
         UNCHANGED <<clock, reports, flushVars, agentRow, configRow>>
  PROVE  FlushInv'
<1> USE DEF flushVars
<1>1. \A u \in Uid : StoredContent(u)' = StoredContent(u)
  BY DEF StoredContent
<1>2. SerialInv'
  BY DEF FlushInv, SerialInv
<1>3. StampInv'
  <2>1. \A q \in reports : q.id \in Uid
    BY DEF TypeOK, Pending
  <2> QED BY <2>1 DEF FlushInv, StampInv
<1>4. LineInv'
  BY <1>1 DEF FlushInv, LineInv
<1>5. PhaseInv'
  BY DEF FlushInv, PhaseInv
<1>6. NoLostUpdate'
  BY <1>1 DEF FlushInv, NoLostUpdate, Settled
<1> QED BY <1>2, <1>3, <1>4, <1>5, <1>6 DEF FlushInv

\* A closed connection only flips the flag of the entries it carried.
LEMMA FlushInvDisconnect ==
  ASSUME TypeOK, TypeOK', FlushInv, NEW id \in Uid, Disconnect(id)
  PROVE  FlushInv'
<1>1. agents[id] \in Entry
  BY DEF TypeOK, Disconnect, SetConnectedFires
<1>2. /\ agents' = [agents EXCEPT ![id] = ConnectionSet(agents[id], FALSE)]
      /\ dirty' = dirty \cup {id}
      /\ UNCHANGED <<clock, reports, flushVars, agentRow, configRow>>
  BY DEF Disconnect, flushVars, tables
<1>3. \A u \in Uid : agents'[u] # Nil =>
        /\ agents[u] # Nil
        /\ agents'[u].lastSeen = agents[u].lastSeen
        /\ Content(agents'[u]) = Content(agents[u])
  <2>1. ASSUME NEW u \in Uid, u # id PROVE agents'[u] = agents[u]
    BY <1>2, <2>1 DEF TypeOK
  <2>2. agents'[id] = ConnectionSet(agents[id], FALSE)
    BY <1>2 DEF TypeOK
  <2>3. agents[id] # Nil
    BY <1>1, NilAssumption
  <2>4. /\ agents'[id].lastSeen = agents[id].lastSeen
        /\ Content(agents'[id]) = Content(agents[id])
    BY <1>1, <2>2, ConnectionSetKeeps
  <2> QED BY <2>1, <2>3, <2>4
<1>4. \A u \in Uid : u \notin dirty' => agents'[u] = agents[u]
  BY <1>2 DEF TypeOK
<1> QED BY <1>2, <1>3, <1>4, FlushInvLiveness

\* One shard of Sweep only flips flags and drops silent entries.
LEMMA FlushInvSweep ==
  ASSUME TypeOK, TypeOK', FlushInv, Sweep
  PROVE  FlushInv'
<1>1. /\ agents' = [u \in Uid |-> IF u \in InShard(sweepNext)
                                    THEN Swept(agents[u], sweepNow)
                                    ELSE agents[u]]
      /\ dirty' = dirty \cup {u \in InShard(sweepNext) :
                                SweepFires(agents[u], sweepNow)}
      /\ UNCHANGED <<clock, reports, flushVars, agentRow, configRow>>
  BY DEF Sweep, flushVars, tables
<1>2. ASSUME NEW u \in Uid, agents'[u] # Nil
      PROVE  /\ agents[u] # Nil
             /\ agents'[u].lastSeen = agents[u].lastSeen
             /\ Content(agents'[u]) = Content(agents[u])
  <2>1. CASE u \in InShard(sweepNext)
    <3>1. agents'[u] = Swept(agents[u], sweepNow)
      BY <1>1, <2>1
    <3>2. agents[u] \in Entry \cup {Nil} /\ sweepNow \in Nat
      BY DEF TypeOK
    <3> QED BY <1>2, <3>1, <3>2, SweptKeeps, NilAssumption
  <2>2. CASE u \notin InShard(sweepNext)
    BY <1>1, <1>2, <2>2
  <2> QED BY <2>1, <2>2
<1>3. \A u \in Uid : u \notin dirty' => agents'[u] = agents[u]
  BY <1>1 DEF SweepFires
<1> QED BY <1>1, <1>2, <1>3, FlushInvLiveness

-----------------------------------------------------------------------------
(* FlushInv under the Flusher's side.                                       *)

\* Drain moves the dirty ids on; no save is in flight at that moment.
LEMMA FlushInvDrain ==
  ASSUME TypeOK, TypeOK', FlushInv, FlushDrain
  PROVE  FlushInv'
<1>1. /\ drained = {} /\ drained' = dirty /\ dirty' = {}
      /\ UNCHANGED <<clock, agents, reports, saves, evictedIDs, agentRow,
                     configRow>>
  BY DEF FlushDrain, tables
<1>2. \A u \in Uid : saves[u] = Nil
  BY DEF FlushDrain, Saving
<1>3. \A u \in Uid : StoredContent(u)' = StoredContent(u)
  BY <1>1 DEF StoredContent
<1>4. SerialInv' /\ StampInv'
  BY <1>1 DEF FlushInv, SerialInv, StampInv
<1>5. LineInv'
  BY <1>1, <1>3 DEF FlushInv, LineInv
<1>6. PhaseInv'
  BY <1>1, <1>2 DEF PhaseInv
<1>7. NoLostUpdate'
  BY <1>1, <1>3 DEF FlushInv, NoLostUpdate, Settled
<1> QED BY <1>4, <1>5, <1>6, <1>7 DEF FlushInv

\* Get copies the entry of the moment, so the save in flight starts equal.
LEMMA FlushInvGet ==
  ASSUME TypeOK, TypeOK', FlushInv, NEW id \in Uid, FlushGet(id)
  PROVE  FlushInv'
<1>1. /\ id \in drained /\ drained' = drained \ {id}
      /\ UNCHANGED <<clock, agents, reports, dirty, agentRow, configRow>>
  BY DEF FlushGet, registryVars, tables
<1>2. \A u \in Uid : u # id => saves'[u] = saves[u]
  BY DEF FlushGet, TypeOK
<1>3. saves[id] = Nil
  BY <1>1 DEF FlushInv, PhaseInv
<1>4. saves'[id] = agents[id] /\ (agents[id] = Nil => id \in evictedIDs')
  BY <1>3 DEF FlushGet, TypeOK
<1>5. evictedIDs \subseteq evictedIDs'
  BY DEF FlushGet
<1>6. \A u \in Uid : StoredContent(u)' = StoredContent(u)
  BY <1>1 DEF StoredContent
<1>7. SerialInv'
  BY <1>1 DEF FlushInv, SerialInv
<1>8. StampInv'
  <2>1. \A r \in reports : r.id \in Uid
    BY DEF TypeOK, Pending
  <2> QED BY <1>1, <1>2, <1>4, <2>1 DEF FlushInv, StampInv
<1>9. LineInv'
  <2> SUFFICES ASSUME NEW u \in Uid PROVE LineInv!(u)'
    BY DEF LineInv
  <2>1. CASE u = id
    BY <1>1, <1>4, <1>6, <2>1 DEF FlushInv, LineInv
  <2>2. CASE u # id
    BY <1>1, <1>2, <1>6, <2>2 DEF FlushInv, LineInv
  <2> QED BY <2>1, <2>2
<1>10. PhaseInv'
  BY <1>1, <1>2, <1>4 DEF FlushInv, PhaseInv
<1>11. NoLostUpdate'
  <2> SUFFICES ASSUME NEW u \in Uid, Settled(u)' PROVE NoLostUpdate!(u)!2'
    BY DEF NoLostUpdate
  <2>1. CASE u = id
    BY <1>1, <1>4, <2>1
  <2>2. CASE u # id
    BY <1>1, <1>2, <1>5, <1>6, <2>2 DEF FlushInv, NoLostUpdate, Settled
  <2> QED BY <2>1, <2>2
<1> QED BY <1>7, <1>8, <1>9, <1>10, <1>11 DEF FlushInv

\* A save that succeeds stores the content it carries, or finds it stored:
\* the guard can only turn away a save whose event time is already there.
LEMMA FlushInvSave ==
  ASSUME TypeOK, TypeOK', FlushInv, ~Faults,
         NEW id \in Uid, NEW outcome \in Outcome, SaveAgent(id, outcome)
  PROVE  FlushInv'
<1> DEFINE entry == saves[id]
<1>1. /\ entry \in Entry
      /\ agentRow[id] \in AgentRow \cup {Nil}
      /\ configRow[id] \in ConfigRow \cup {Nil}
  BY DEF SaveAgent, TypeOK
<1>2. outcome = "ok"
  BY DEF Outcome
<1>3. /\ UNCHANGED <<clock, agents, reports, dirty, drained, evictedIDs>>
      /\ saves'[id] = Nil /\ drained = {}
      /\ agentRow'[id] = UpsertAgent(agentRow[id], entry)
      /\ configRow'[id] = ReplaceConfig(agentRow[id], configRow[id], entry)
      /\ \A u \in Uid : u # id => /\ saves'[u] = saves[u]
                                  /\ agentRow'[u] = agentRow[u]
                                  /\ configRow'[u] = configRow[u]
  <2>1. /\ drained = {} /\ saves' = [saves EXCEPT ![id] = Nil]
        /\ UNCHANGED <<clock, agents, reports, dirty, drained, evictedIDs>>
        /\ agentRow' = [agentRow EXCEPT ![id] = UpsertAgent(@, entry)]
        /\ configRow' = [configRow EXCEPT ![id] =
                           ReplaceConfig(agentRow[id], @, entry)]
    BY <1>2 DEF SaveAgent, registryVars
  <2>2. /\ saves \in [Uid -> Entry \cup {Nil}]
        /\ agentRow \in [Uid -> AgentRow \cup {Nil}]
        /\ configRow \in [Uid -> ConfigRow \cup {Nil}]
    BY DEF TypeOK
  <2> QED BY ONLY <2>1, <2>2, id \in Uid
<1>4. \A u \in Uid : u # id => StoredContent(u)' = StoredContent(u)
  BY <1>3 DEF StoredContent
<1>5. agentRow'[id] \in AgentRow /\ agentRow'[id] # Nil
  BY <1>1, <1>3, UpsertAgentType, RowAssumption
<1>6. /\ agentRow'[id].updatedAt = entry.lastSeen
      /\ StoredContent(id)' = Content(entry)
  <2>1. CASE AgentsGuard(agentRow[id], entry)
    <3>1. /\ agentRow'[id].updatedAt = entry.lastSeen
          /\ \A s \in EventSection : s # EffectiveConfig =>
               agentRow'[id].fields[s] = entry.fields[s]
          /\ (IF configRow'[id] = Nil THEN Nil ELSE configRow'[id].files)
               = entry.fields[EffectiveConfig]
      <4>1. /\ UpsertAgent(agentRow[id], entry).updatedAt = entry.lastSeen
            /\ \A s \in EventSection : s # EffectiveConfig =>
                 UpsertAgent(agentRow[id], entry).fields[s] = entry.fields[s]
            /\ (IF ReplaceConfig(agentRow[id], configRow[id], entry) = Nil THEN Nil
                ELSE ReplaceConfig(agentRow[id], configRow[id], entry).files)
                 = entry.fields[EffectiveConfig]
        <5> HIDE DEF entry
        <5> QED BY <1>1, <2>1, SaveStores
      <4> HIDE DEF entry
      <4> QED BY <1>3, <4>1
    <3> QED BY ONLY <1>5, <3>1 DEF StoredContent, Content
  <2>2. CASE ~AgentsGuard(agentRow[id], entry)
    <3>1. agentRow'[id] = agentRow[id] /\ configRow'[id] = configRow[id]
      BY <1>3, <2>2 DEF UpsertAgent, ReplaceConfig
    <3>2. agentRow[id] # Nil /\ ~(agentRow[id].updatedAt < entry.lastSeen)
      BY <2>2 DEF AgentsGuard
    <3>3. /\ agentRow[id].updatedAt = entry.lastSeen
          /\ StoredContent(id) = Content(entry)
      BY <1>1, <3>2, NilAssumption DEF FlushInv, LineInv
    <3> QED BY <3>1, <3>3 DEF StoredContent
  <2> QED BY <2>1, <2>2
<1>7. SerialInv'
  BY <1>3 DEF FlushInv, SerialInv
<1>8. StampInv'
  <2>1. \A r \in reports : r.id \in Uid
    BY DEF TypeOK, Pending
  <2>2. entry # Nil
    BY <1>1, NilAssumption
  <2> QED BY <1>3, <1>6, <2>1, <2>2 DEF FlushInv, StampInv
<1>9. LineInv'
  <2> SUFFICES ASSUME NEW u \in Uid PROVE LineInv!(u)'
    BY DEF LineInv
  <2>1. CASE u = id
    BY <1>1, <1>3, <1>6, <2>1, NilAssumption DEF FlushInv, LineInv
  <2>2. CASE u # id
    BY <1>3, <1>4, <2>2 DEF FlushInv, LineInv
  <2> QED BY <2>1, <2>2
<1>10. PhaseInv'
  BY <1>3 DEF FlushInv, PhaseInv
<1>11. NoLostUpdate'
  <2> SUFFICES ASSUME NEW u \in Uid, Settled(u)' PROVE NoLostUpdate!(u)!2'
    BY DEF NoLostUpdate
  <2>1. Settled(u)
    BY <1>3 DEF Settled
  <2>2. CASE u # id
    BY <1>3, <1>4, <2>1, <2>2 DEF FlushInv, NoLostUpdate
  <2>3. CASE u = id
    <3>1. entry # Nil
      BY <1>1, NilAssumption
    <3>2. agents[id] # Nil
      BY <2>1, <2>3, <3>1 DEF FlushInv, PhaseInv, Settled
    <3>3. Content(entry) = Content(agents[id])
      BY <2>1, <2>3, <3>1, <3>2 DEF FlushInv, NoLostUpdate
    <3> QED BY <1>3, <1>5, <1>6, <2>3, <3>2, <3>3
  <2> QED BY <2>2, <2>3
<1> QED BY <1>7, <1>8, <1>9, <1>10, <1>11 DEF FlushInv

\* The soft delete marks the rows of evicted ids and changes no content.
LEMMA FlushInvSoftDelete ==
  ASSUME TypeOK, TypeOK', FlushInv, ~Faults,
         NEW C \in SUBSET Uid, NEW outcome \in Outcome,
         SoftDeleteBatch(C, outcome)
  PROVE  FlushInv'
<1>1. outcome = "ok"
  BY DEF Outcome
<1>2. /\ UNCHANGED <<clock, agents, reports, dirty, drained, saves, configRow>>
      /\ evictedIDs' = evictedIDs \ C
      /\ \A u \in Uid : u \in C => agentRow'[u] = SoftDelete(agentRow[u], clock)
      /\ \A u \in Uid : u \notin C => agentRow'[u] = agentRow[u]
  BY <1>1 DEF SoftDeleteBatch, registryVars, TypeOK
<1>3. ASSUME NEW u \in Uid
      PROVE  /\ agentRow'[u] = Nil <=> agentRow[u] = Nil
             /\ agentRow[u] # Nil =>
                  /\ agentRow'[u].updatedAt = agentRow[u].updatedAt
                  /\ agentRow'[u].fields = agentRow[u].fields
                  /\ agentRow[u].evictedAt # Nil => agentRow'[u].evictedAt # Nil
                  /\ u \in C => agentRow'[u].evictedAt # Nil
  <2>1. agentRow[u] \in AgentRow \cup {Nil} /\ clock \in Nat
    BY DEF TypeOK
  <2>2. CASE u \in C
    <3>1. agentRow'[u] = SoftDelete(agentRow[u], clock)
      BY <1>2, <2>2
    <3>2. /\ SoftDelete(agentRow[u], clock) = Nil <=> agentRow[u] = Nil
          /\ agentRow[u] # Nil =>
               /\ SoftDelete(agentRow[u], clock).updatedAt = agentRow[u].updatedAt
               /\ SoftDelete(agentRow[u], clock).fields = agentRow[u].fields
               /\ SoftDelete(agentRow[u], clock).evictedAt # Nil
      BY <2>1, SoftDeleteType
    <3> QED BY <3>1, <3>2
  <2>3. CASE u \notin C
    BY <1>2, <2>3
  <2> QED BY <2>2, <2>3
<1>4. \A u \in Uid : agentRow[u] # Nil => StoredContent(u)' = StoredContent(u)
  BY <1>2, <1>3 DEF StoredContent
<1>5. SerialInv' /\ PhaseInv'
  BY <1>2 DEF FlushInv, SerialInv, PhaseInv
<1>6. StampInv'
  <2>1. \A r \in reports : r.id \in Uid
    BY DEF TypeOK, Pending
  <2> QED BY <1>2, <1>3, <2>1 DEF FlushInv, StampInv
<1>7. LineInv'
  BY <1>2, <1>3, <1>4 DEF FlushInv, LineInv
<1>8. NoLostUpdate'
  <2> SUFFICES ASSUME NEW u \in Uid, Settled(u)' PROVE NoLostUpdate!(u)!2'
    BY DEF NoLostUpdate
  <2>1. Settled(u)
    BY <1>2 DEF Settled
  <2> QED BY <1>2, <1>3, <1>4, <2>1 DEF FlushInv, NoLostUpdate
<1> QED BY <1>5, <1>6, <1>7, <1>8 DEF FlushInv

\* Every step of the process preserves FlushInv.
LEMMA FlushInvNext ==
  ASSUME ~Overlap, ~Faults
  PROVE  TypeOK /\ TypeOK' /\ FlushInv /\ [Next]_vars => FlushInv'
<1> SUFFICES ASSUME TypeOK, TypeOK', FlushInv, [Next]_vars PROVE FlushInv'
  OBVIOUS
<1>1. CASE Tick \/ SweepTick \/ SnapshotterNext \/ UNCHANGED vars
  <2>1. /\ clock' >= clock
        /\ UNCHANGED <<registryVars, flushVars, agentRow, configRow>>
    <3>t. clock \in Nat
      BY DEF TypeOK
    <3>1. CASE Tick
      <4>1. /\ clock' = clock + 1
            /\ UNCHANGED <<registryVars, flushVars, agentRow, configRow>>
        BY <3>1 DEF Tick, tables
      <4> QED BY ONLY <3>t, <4>1
    <3>2. ASSUME SweepTick \/ SnapshotterNext \/ UNCHANGED vars
          PROVE  UNCHANGED <<clock, registryVars, flushVars, agentRow, configRow>>
      <4>1. CASE SweepTick
        BY <4>1 DEF SweepTick, tables
      <4>2. CASE SnapshotList \/ SnapshotDue
        BY <4>2 DEF SnapshotList, SnapshotDue, tables
      <4>3. ASSUME NEW C \in SUBSET Uid, NEW recorded \in SUBSET Uid,
                   NEW outcome \in Outcome, SessionBatch(C, outcome, recorded)
            PROVE  UNCHANGED <<clock, registryVars, flushVars, agentRow, configRow>>
        BY <4>3 DEF SessionBatch
      <4>4. CASE UNCHANGED vars
        BY <4>4 DEF vars, tables
      <4> QED BY <3>2, <4>1, <4>2, <4>3, <4>4 DEF SnapshotterNext
    <3>3. clock' = clock => clock' >= clock
      BY ONLY <3>t
    <3> QED BY <1>1, <3>1, <3>2, <3>3
  <2> QED BY <2>1, FlushInvStable
<1>2. CASE RegistryNext
  BY <1>1, <1>2, FlushInvReportCall, FlushInvReportApply, FlushInvDisconnect,
     FlushInvSweep DEF RegistryNext
<1>3. CASE FlusherNext
  BY <1>3, FlushInvDrain, FlushInvGet, FlushInvSave, FlushInvSoftDelete
     DEF FlusherNext
<1> QED BY <1>1, <1>2, <1>3 DEF Next

\* When the reports of one agent do not overlap and no write fails, the stages
\* of the pipeline (a report's two halves, dirty ids, drained ids, saves in
\* flight, the row) stay linked: whatever a later stage lacks, an earlier one
\* still holds.
THEOREM PipelineKept ==
  ASSUME ~Overlap, ~Faults
  PROVE  Spec => []FlushInv
BY TypeCorrect, FlushInvInit, FlushInvNext, PTL DEF Spec

\* Then nothing an event announces is lost between the registry and Postgres,
\* for any number of agents and shards, any timing and any interleaving of the
\* OpAMP callbacks, the sweeper, the Flusher and the SessionSnapshotter.
THEOREM NothingLost ==
  ASSUME ~Overlap, ~Faults
  PROVE  Spec => []NoLostUpdate
<1>1. FlushInv => NoLostUpdate
  BY DEF FlushInv
<1> QED BY <1>1, PipelineKept, PTL
=============================================================================
