-------------------------- MODULE SharedStoreProofs -------------------------
(***************************************************************************)
(* Proofs about several replicas on one database, for any replicas, agents,*)
(* messages, crashes, purges and any length of time: types, tables that    *)
(* agree, what a read shows of a dead agent, that SharedStore implements   *)
(* EventTimeRegister, that a late disconnect undoes no connect, and that a *)
(* connected agent keeps an owner.                                         *)
(***************************************************************************)
EXTENDS SharedStore, TLAPS

(* A leaf goes to Zenon unless it names SMT or starts with ONLY.           *)
USE Zenon

\* The state an entry holds, as reported records it.
StateOf(entry) == [at |-> entry.lastSeen, content |-> entry.fields]

\* Whatever a replica knows, has in flight or has stored of an agent is
\* something the agent has reported, and no report is from the future.
KnownInv ==
  \A id \in Uid :
    /\ \A v \in reported[id] : v.at <= clock
    /\ \A r \in Replica :
         /\ agents[r][id] # Nil => StateOf(agents[r][id]) \in reported[id]
         /\ saves[r][id] # Nil => StateOf(saves[r][id]) \in reported[id]
         /\ due[r][id] # Nil => StateOf(due[r][id]) \in reported[id]
    /\ sessionRow[id] # Nil =>
         \E v \in reported[id] : v.at = sessionRow[id].updatedAt

-----------------------------------------------------------------------------
(* What the registry and table operators return and keep.                  *)

\* Registry.Report makes an entry out of an entry or out of nothing.
LEMMA ReportedType ==
  ASSUME NEW entry \in Entry \cup {Nil}, NEW msg \in Message,
         NEW meta \in Conn, NEW now \in Nat
  PROVE  Reported(entry, msg, meta, now) \in Entry
<1>1. [s \in Section |-> IF msg[s] # Nil THEN msg[s]
                         ELSE IF entry = Nil THEN Nil ELSE entry.fields[s]]
        \in [Section -> Value \cup {Nil}]
  BY DEF Entry, Message
<1>2. (IF entry = Nil THEN now ELSE entry.firstSeen) \in Nat
  BY DEF Entry
<1> QED BY <1>1, <1>2 DEF Reported, Entry

\* SetConnected keeps an entry an entry.
LEMMA ConnectionSetType ==
  ASSUME NEW entry \in Entry \cup {Nil}, NEW c \in BOOLEAN
  PROVE  ConnectionSet(entry, c) \in Entry \cup {Nil}
BY DEF ConnectionSet, Entry

\* Sweep keeps an entry or drops it.
LEMMA SweptType ==
  ASSUME NEW entry \in Entry \cup {Nil}, NEW now \in Nat
  PROVE  Swept(entry, now) \in Entry \cup {Nil}
BY DEF Swept, Entry

\* The agents upsert makes a row.
LEMMA UpsertAgentType ==
  ASSUME NEW row \in AgentRow \cup {Nil}, NEW entry \in Entry
  PROVE  UpsertAgent(row, entry) \in AgentRow
<1>1. AgentColumns(entry) \in [AgentColumn -> Value \cup {Nil}]
  BY DEF AgentColumns, AgentColumn, Entry
<1>2. CASE row = Nil
  BY <1>1, <1>2 DEF UpsertAgent, AgentsGuard, AgentRow, Entry
<1>3. CASE row # Nil
  BY <1>1, <1>3 DEF UpsertAgent, AgentsGuard, AgentRow, Entry
<1> QED BY <1>2, <1>3

\* The session upsert makes a row.
LEMMA UpsertSessionType ==
  ASSUME NEW row \in SessionRow \cup {Nil}, NEW entry \in Entry
  PROVE  UpsertSession(row, entry) \in SessionRow
BY DEF UpsertSession, SessionGuard, SessionRow, Entry

\* Replacing the files leaves a row or none.
LEMMA ReplaceConfigType ==
  ASSUME NEW agent, NEW row \in ConfigRow \cup {Nil}, NEW entry \in Entry
  PROVE  ReplaceConfig(agent, row, entry) \in ConfigRow \cup {Nil}
BY SectionAssumption DEF ReplaceConfig, ConfigRow, Entry

\* The soft delete changes a row only in its evicted_at.
LEMMA SoftDeleteType ==
  ASSUME NEW row \in AgentRow \cup {Nil}, NEW now \in Nat
  PROVE  /\ SoftDelete(row, now) \in AgentRow \cup {Nil}
         /\ SoftDelete(row, now) = Nil <=> row = Nil
         /\ row # Nil => /\ SoftDelete(row, now).firstSeen = row.firstSeen
                         /\ SoftDelete(row, now).updatedAt = row.updatedAt
                         /\ SoftDelete(row, now).fields = row.fields
                         /\ SoftDelete(row, now).evictedAt # Nil
                         /\ row.evictedAt # Nil => SoftDelete(row, now) = row
BY NilAssumption, RowAssumption DEF SoftDelete, AgentRow

\* One SaveAgent keeps the files and the row together.
LEMMA SaveMatches ==
  ASSUME NEW row \in AgentRow \cup {Nil}, NEW config \in ConfigRow \cup {Nil},
         NEW entry \in Entry,
         config # Nil => row # Nil /\ config.updatedAt = row.updatedAt
  PROVE  ReplaceConfig(row, config, entry) # Nil =>
           ReplaceConfig(row, config, entry).updatedAt
             = UpsertAgent(row, entry).updatedAt
<1>1. CASE AgentsGuard(row, entry)
  BY <1>1 DEF ReplaceConfig, UpsertAgent
<1>2. CASE ~AgentsGuard(row, entry)
  BY <1>2 DEF ReplaceConfig, UpsertAgent, AgentsGuard
<1> QED BY <1>1, <1>2

-----------------------------------------------------------------------------
(* Types.                                                                  *)

\* Replicas without agents on an empty database are well typed.
LEMMA InitShared == Init => TypeOK
BY SMT DEF Init, TypeOK, NoEntries

\* A report makes an entry and a reported state.
LEMMA ReportType ==
  ASSUME TypeOK, NEW r \in Replica, NEW id \in Uid, NEW msg \in Message,
         Report(r, id, msg)
  PROVE  /\ clock' \in Nat
         /\ reported' \in [Uid -> SUBSET State]
         /\ agents' \in [Replica -> [Uid -> Entry \cup {Nil}]]
         /\ dirty' \in [Replica -> SUBSET Uid]
<1>1. Reported(agents[r][id], msg, r, clock + 1) \in Entry
  <2>1. agents[r][id] \in Entry \cup {Nil} /\ r \in Conn /\ clock + 1 \in Nat
    BY SMT, SharedStoreAssumption DEF TypeOK
  <2> QED
    BY <2>1, ReportedType
<1>2. clock' \in Nat
  BY SMT DEF Report, TypeOK
<1>3. [at |-> clock + 1,
       content |-> Reported(agents[r][id], msg, r, clock + 1).fields] \in State
  BY SMT, <1>1 DEF State, Entry, TypeOK
<1>4. reported' \in [Uid -> SUBSET State]
  BY <1>3 DEF Report, TypeOK
<1>5. agents' \in [Replica -> [Uid -> Entry \cup {Nil}]]
  BY <1>1 DEF Report, TypeOK
<1>6. dirty' \in [Replica -> SUBSET Uid]
  BY DEF Report, TypeOK
<1> QED
  BY <1>2, <1>4, <1>5, <1>6

\* Every step of a replica, a job or the clock is well typed.
LEMMA NextShared == TypeOK /\ [Next]_vars => TypeOK'
<1> SUFFICES ASSUME TypeOK, [Next]_vars PROVE TypeOK'
  OBVIOUS
<1> USE DEF agentVars, flushVars, tables
<1>b. bounds' = bounds /\ bounds \in Bounds
  BY DEF Next, vars, TypeOK
<1>1. CASE Tick
  BY SMT, <1>b, <1>1 DEF Tick, TypeOK
<1>2. ASSUME NEW id \in Uid, NEW msg \in bounds.laterMessages, Send(id, msg)
      PROVE  TypeOK'
  <2>1. msg \in Message /\ holder[id] \in Replica
    BY <1>b, <1>2, SharedStoreAssumption DEF Send, TypeOK
  <2> QED
    BY <1>b, <1>2, <2>1, ReportType DEF Send, Report, TypeOK
<1>3. ASSUME NEW r \in Replica, NEW id \in Uid, NEW msg \in bounds.firstMessages,
             Connect(r, id, msg)
      PROVE  TypeOK'
  <2>1. msg \in Message
    BY <1>b, <1>3, SharedStoreAssumption
  <2>2. holder' \in [Uid -> Replica \cup {Nil}]
    BY <1>3 DEF Connect, TypeOK
  <2> QED
    BY <1>b, <1>3, <2>1, <2>2, ReportType DEF Connect, Report, TypeOK
<1>4. ASSUME NEW r \in Replica, NEW id \in Uid, Close(r, id)
      PROVE  TypeOK'
  <2>1. ConnectionSet(agents[r][id], FALSE) \in Entry \cup {Nil}
    <3>1. agents[r][id] \in Entry \cup {Nil}
      BY SMT DEF TypeOK
    <3> QED
      BY <3>1, ConnectionSetType
  <2>2. agents' \in [Replica -> [Uid -> Entry \cup {Nil}]]
    BY <1>4, <2>1 DEF Close, TypeOK
  <2>3. holder' \in [Uid -> Replica \cup {Nil}] /\ dirty' \in [Replica -> SUBSET Uid]
    BY <1>4 DEF Close, TypeOK
  <2> QED
    BY <1>b, <1>4, <2>2, <2>3 DEF Close, TypeOK
<1>5. ASSUME NEW r \in Replica, Sweep(r)
      PROVE  TypeOK'
  <2>1. \A id \in Uid : Swept(agents[r][id], clock) \in Entry \cup {Nil}
    <3>1. clock \in Nat /\ \A id \in Uid : agents[r][id] \in Entry \cup {Nil}
      BY SMT DEF TypeOK
    <3> QED
      BY <3>1, SweptType
  <2>2. agents' \in [Replica -> [Uid -> Entry \cup {Nil}]]
    BY <1>5, <2>1 DEF Sweep, TypeOK
  <2>3. dirty' \in [Replica -> SUBSET Uid]
    BY <1>5 DEF Sweep, TypeOK
  <2> QED
    BY <1>b, <1>5, <2>2, <2>3 DEF Sweep, TypeOK
<1>6. ASSUME NEW r \in Replica, Crash(r)
      PROVE  TypeOK'
  BY <1>b, <1>6 DEF Crash, TypeOK, NoEntries
<1>7. ASSUME NEW r \in Replica, FlushDrain(r)
      PROVE  TypeOK'
  BY <1>b, <1>7 DEF FlushDrain, TypeOK
<1>8. ASSUME NEW r \in Replica, NEW id \in Uid, FlushGet(r, id)
      PROVE  TypeOK'
  <2>1. drained' \in [Replica -> SUBSET Uid]
    BY <1>8 DEF FlushGet, TypeOK
  <2>2. CASE agents[r][id] = Nil
    <3>1. evictedIDs' = [evictedIDs EXCEPT ![r] = @ \cup {id}]
          /\ UNCHANGED <<saves, upserts>>
      BY <1>8, <2>2 DEF FlushGet
    <3>2. evictedIDs' \in [Replica -> SUBSET Uid]
      BY <3>1 DEF TypeOK
    <3> QED
      BY <1>b, <1>8, <2>1, <3>1, <3>2 DEF FlushGet, TypeOK
  <2>3. CASE agents[r][id] # Nil
    <3>1. /\ saves' = [saves EXCEPT ![r][id] = agents[r][id]]
          /\ \/ upserts' = [upserts EXCEPT ![r] = @ \cup {id}]
             \/ upserts' = upserts
          /\ UNCHANGED evictedIDs
      BY <1>8, <2>3 DEF FlushGet
    <3>2. saves' \in [Replica -> [Uid -> Entry \cup {Nil}]]
      BY SMT, <3>1 DEF TypeOK
    <3>3. upserts' \in [Replica -> SUBSET Uid]
      <4>1. upserts \in [Replica -> SUBSET Uid]
        BY DEF TypeOK
      <4>2. [upserts EXCEPT ![r] = @ \cup {id}] \in [Replica -> SUBSET Uid]
        BY <4>1
      <4> QED
        BY <3>1, <4>1, <4>2
    <3> QED
      BY <1>b, <1>8, <2>1, <3>1, <3>2, <3>3 DEF FlushGet, TypeOK
  <2> QED
    BY <2>2, <2>3
<1>9. ASSUME NEW r \in Replica, NEW id \in Uid, SaveAgent(r, id)
      PROVE  TypeOK'
  <2>1. saves[r][id] \in Entry
    BY SMT, <1>9 DEF SaveAgent, TypeOK
  <2>2. /\ UpsertAgent(agentRow[id], saves[r][id]) \in AgentRow
        /\ UpsertSession(sessionRow[id], saves[r][id]) \in SessionRow
        /\ ReplaceConfig(agentRow[id], configRow[id], saves[r][id])
             \in ConfigRow \cup {Nil}
    BY <2>1, UpsertAgentType, UpsertSessionType, ReplaceConfigType DEF TypeOK
  <2>3. /\ agentRow' \in [Uid -> AgentRow \cup {Nil}]
        /\ sessionRow' \in [Uid -> SessionRow \cup {Nil}]
        /\ configRow' \in [Uid -> ConfigRow \cup {Nil}]
    BY <1>9, <2>2 DEF SaveAgent, TypeOK
  <2>4. saves' \in [Replica -> [Uid -> Entry \cup {Nil}]]
    BY <1>9 DEF SaveAgent, TypeOK
  <2> QED
    BY <1>b, <1>9, <2>3, <2>4 DEF SaveAgent, TypeOK
<1>10. ASSUME NEW r \in Replica, NEW id \in Uid, SoftDeleteAgent(r, id)
       PROVE  TypeOK'
  <2>1. SoftDelete(agentRow[id], clock) \in AgentRow \cup {Nil}
    BY SoftDeleteType DEF TypeOK
  <2>2. agentRow' \in [Uid -> AgentRow \cup {Nil}]
        /\ evictedIDs' \in [Replica -> SUBSET Uid]
    BY <1>10, <2>1 DEF SoftDeleteAgent, TypeOK
  <2> QED
    BY <1>b, <1>10, <2>2 DEF SoftDeleteAgent, TypeOK
<1>11. ASSUME NEW r \in Replica, NEW id \in Uid, UpsertAgentConnection(r, id)
       PROVE  TypeOK'
  BY <1>b, <1>11 DEF UpsertAgentConnection, TypeOK
<1>12. ASSUME NEW r \in Replica, NEW id \in Uid, SnapshotRead(r, id)
       PROVE  TypeOK'
  <2>1. due' \in [Replica -> [Uid -> Entry \cup {Nil}]]
    BY SMT, <1>12 DEF SnapshotRead, TypeOK
  <2> QED
    BY <1>b, <1>12, <2>1 DEF SnapshotRead, TypeOK
<1>13. ASSUME NEW r \in Replica, NEW id \in Uid, SaveSession(r, id)
       PROVE  TypeOK'
  <2>1. due[r][id] \in Entry
    BY <1>13 DEF SaveSession, TypeOK
  <2>2. UpsertSession(sessionRow[id], due[r][id]) \in SessionRow
    BY <2>1, UpsertSessionType DEF TypeOK
  <2>3. sessionRow' \in [Uid -> SessionRow \cup {Nil}]
    BY <1>13, <2>2 DEF SaveSession, TypeOK
  <2>4. due' \in [Replica -> [Uid -> Entry \cup {Nil}]]
    BY <1>13 DEF SaveSession, TypeOK
  <2> QED
    BY <1>b, <1>13, <2>3, <2>4 DEF SaveSession, TypeOK
<1>14. CASE PurgeSchedule
  <2>1. clock - bounds.softDeleteDuration \in Int
    BY SMT, <1>b, SharedStoreAssumption DEF TypeOK
  <2> QED
    BY <1>b, <1>14, <2>1 DEF PurgeSchedule, TypeOK
<1>15. CASE PurgeWork
  <2>1. /\ agentRow' \in [Uid -> AgentRow \cup {Nil}]
        /\ sessionRow' \in [Uid -> SessionRow \cup {Nil}]
        /\ configRow' \in [Uid -> ConfigRow \cup {Nil}]
    BY <1>15 DEF PurgeWork, TypeOK
  <2> QED
    BY <1>b, <1>15, <2>1 DEF PurgeWork, TypeOK
<1>16. CASE UNCHANGED vars
  BY <1>16 DEF vars, TypeOK
<1> QED
  BY <1>1, <1>2, <1>3, <1>4, <1>5, <1>6, <1>7, <1>8, <1>9, <1>10, <1>11,
     <1>12, <1>13, <1>14, <1>15, <1>16
  DEF Next, ReplicaNext, FlusherNext, SnapshotterNext

\* Every variable of every replica and table keeps its type.
THEOREM SharedTypes == Spec => []TypeOK
BY InitShared, NextShared, PTL DEF Spec

-----------------------------------------------------------------------------
(* Nothing but what agents have said.                                      *)

\* A close and a sweep leave an entry's event time and content alone.
LEMMA StateKept ==
  ASSUME NEW entry \in Entry \cup {Nil}, NEW now \in Nat
  PROVE  /\ ConnectionSet(entry, FALSE) # Nil =>
              entry # Nil /\ StateOf(ConnectionSet(entry, FALSE)) = StateOf(entry)
         /\ Swept(entry, now) # Nil =>
              entry # Nil /\ StateOf(Swept(entry, now)) = StateOf(entry)
<1>1. ConnectionSet(entry, FALSE) # Nil =>
        entry # Nil /\ StateOf(ConnectionSet(entry, FALSE)) = StateOf(entry)
  BY DEF ConnectionSet, StateOf, Entry
<1>2. Swept(entry, now) # Nil =>
        entry # Nil /\ StateOf(Swept(entry, now)) = StateOf(entry)
  BY DEF Swept, StateOf, Entry
<1> QED
  BY <1>1, <1>2

\* The session upsert leaves the row's time or takes the entry's.
LEMMA SessionTime ==
  ASSUME NEW row, NEW entry \in Entry
  PROVE  \/ UpsertSession(row, entry) = row
         \/ UpsertSession(row, entry).updatedAt = StateOf(entry).at
BY DEF UpsertSession, StateOf

\* A report adds the state it makes, with a time later than all before.
LEMMA ReportKnown ==
  ASSUME TypeOK, KnownInv, NEW r \in Replica, NEW id \in Uid, NEW msg \in Message,
         Report(r, id, msg)
  PROVE  KnownInv'
<1> DEFINE e == Reported(agents[r][id], msg, r, clock + 1)
           v == [at |-> clock + 1, content |-> e.fields]
<1>1. StateOf(e) = v
  BY DEF StateOf, Reported
<1>2. reported'[id] = reported[id] \cup {v}
      /\ \A i \in Uid : i # id => reported'[i] = reported[i]
  BY DEF Report, TypeOK
<1>3. agents'[r][id] = e
      /\ \A q \in Replica, i \in Uid : q # r \/ i # id => agents'[q][i] = agents[q][i]
  BY DEF Report, TypeOK
<1>4. ASSUME NEW i \in Uid, NEW w \in reported'[i]
      PROVE  w.at <= clock'
  <2>1. clock \in Nat /\ clock' = clock + 1
    BY DEF Report, TypeOK
  <2>2. CASE w \in reported[i]
    <3>1. w.at <= clock /\ w.at \in Nat
      BY SMT, <2>2 DEF KnownInv, TypeOK, State
    <3> QED
      BY SMT, <2>1, <3>1
  <2>3. CASE w = v
    BY SMT, <2>1, <2>3
  <2>4. w \in reported[i] \/ w = v
    BY <1>2, <1>4
  <2> QED
    BY <2>2, <2>3, <2>4
<1>5. ASSUME NEW q \in Replica, NEW i \in Uid, agents'[q][i] # Nil
      PROVE  StateOf(agents'[q][i]) \in reported'[i]
  <2>1. CASE q = r /\ i = id
    BY <1>1, <1>2, <1>3, <2>1
  <2>2. CASE q # r \/ i # id
    <3>1. StateOf(agents[q][i]) \in reported[i] /\ agents'[q][i] = agents[q][i]
      BY <1>3, <1>5, <2>2 DEF KnownInv
    <3> QED
      BY <1>2, <3>1
  <2> QED
    BY <2>1, <2>2
<1>6. \A i \in Uid : reported[i] \subseteq reported'[i]
  BY <1>2
<1>7. UNCHANGED <<saves, due, sessionRow>>
  BY DEF Report, flushVars, tables
<1> QED
  BY <1>4, <1>5, <1>6, <1>7 DEF KnownInv, StateOf

\* Every step keeps what is known within what was reported.
LEMMA KnownNext == TypeOK /\ KnownInv /\ [Next]_vars => KnownInv'
<1> SUFFICES ASSUME TypeOK, KnownInv, [Next]_vars PROVE KnownInv'
  OBVIOUS
<1> USE DEF agentVars, flushVars, tables
<1>b. bounds' = bounds /\ bounds \in Bounds
  BY DEF Next, vars, TypeOK
<1>c. \A q \in Replica, i \in Uid : /\ agents[q][i] \in Entry \cup {Nil}
                                    /\ saves[q][i] \in Entry \cup {Nil}
                                    /\ due[q][i] \in Entry \cup {Nil}
  BY SMT DEF TypeOK
<1>1. CASE Tick
  <2>1. ASSUME NEW i \in Uid, NEW w \in reported[i]
        PROVE  w.at <= clock'
    <3>1. w.at \in Nat /\ w.at <= clock /\ clock \in Nat
      BY SMT DEF TypeOK, State, KnownInv
    <3> QED
      BY SMT, <1>1, <3>1 DEF Tick
  <2> QED
    BY <1>1, <2>1 DEF Tick, KnownInv
<1>2. ASSUME NEW id \in Uid, NEW msg \in bounds.laterMessages, Send(id, msg)
      PROVE  KnownInv'
  <2>1. msg \in Message /\ holder[id] \in Replica
    BY <1>b, <1>2, SharedStoreAssumption DEF Send, TypeOK
  <2> QED
    BY <1>2, <2>1, ReportKnown DEF Send
<1>3. ASSUME NEW r \in Replica, NEW id \in Uid, NEW msg \in bounds.firstMessages,
             Connect(r, id, msg)
      PROVE  KnownInv'
  <2>1. msg \in Message
    BY <1>b, <1>3, SharedStoreAssumption
  <2> QED
    BY <1>3, <2>1, ReportKnown DEF Connect
<1>4. ASSUME NEW r \in Replica, NEW id \in Uid, Close(r, id)
      PROVE  KnownInv'
  <2>1. \A q \in Replica, i \in Uid :
          agents'[q][i] \in {agents[q][i], ConnectionSet(agents[q][i], FALSE)}
    BY <1>4 DEF Close, TypeOK
  <2>2. \A q \in Replica, i \in Uid : agents'[q][i] # Nil =>
          agents[q][i] # Nil /\ StateOf(agents'[q][i]) = StateOf(agents[q][i])
    BY <1>c, <2>1, StateKept
  <2> QED
    BY <1>4, <2>2 DEF Close, KnownInv
<1>5. ASSUME NEW r \in Replica, Sweep(r)
      PROVE  KnownInv'
  <2>1. \A q \in Replica, i \in Uid :
          agents'[q][i] \in {agents[q][i], Swept(agents[q][i], clock)}
    BY <1>5 DEF Sweep, TypeOK
  <2>2. \A q \in Replica, i \in Uid : agents'[q][i] # Nil =>
          agents[q][i] # Nil /\ StateOf(agents'[q][i]) = StateOf(agents[q][i])
    <3>1. clock \in Nat
      BY DEF TypeOK
    <3> TAKE q \in Replica, i \in Uid
    <3>2. agents[q][i] \in Entry \cup {Nil}
      BY <1>c
    <3>3. Swept(agents[q][i], clock) # Nil =>
            /\ agents[q][i] # Nil
            /\ StateOf(Swept(agents[q][i], clock)) = StateOf(agents[q][i])
      BY <3>1, <3>2, StateKept
    <3>4. agents'[q][i] = agents[q][i] \/ agents'[q][i] = Swept(agents[q][i], clock)
      BY <2>1
    <3> QED
      BY <3>3, <3>4
  <2> QED
    BY <1>5, <2>2 DEF Sweep, KnownInv
<1>6. ASSUME NEW r \in Replica, Crash(r)
      PROVE  KnownInv'
  <2>1. \A q \in Replica, i \in Uid : /\ agents'[q][i] \in {agents[q][i], Nil}
                                      /\ saves'[q][i] \in {saves[q][i], Nil}
                                      /\ due'[q][i] \in {due[q][i], Nil}
    BY <1>6 DEF Crash, TypeOK, NoEntries
  <2>2. UNCHANGED <<clock, reported, sessionRow>>
    BY <1>6 DEF Crash
  <2> QED
    BY <2>1, <2>2 DEF KnownInv
<1>7. ASSUME NEW r \in Replica, NEW id \in Uid, FlushGet(r, id)
      PROVE  KnownInv'
  <2>1. \A q \in Replica, i \in Uid : saves'[q][i] \in {saves[q][i], agents[q][i]}
    <3>1. saves' = saves \/ saves' = [saves EXCEPT ![r][id] = agents[r][id]]
      BY <1>7 DEF FlushGet
    <3>2. saves \in [Replica -> [Uid -> Entry \cup {Nil}]]
      BY DEF TypeOK
    <3>3. CASE saves' = [saves EXCEPT ![r][id] = agents[r][id]]
      BY <3>2, <3>3
    <3> QED
      BY <3>1, <3>3
  <2> QED
    BY <1>7, <2>1 DEF FlushGet, KnownInv
<1>8. ASSUME NEW r \in Replica, NEW id \in Uid, SaveAgent(r, id)
      PROVE  KnownInv'
  <2>1. \A q \in Replica, i \in Uid : saves'[q][i] \in {saves[q][i], Nil}
    BY <1>8 DEF SaveAgent, TypeOK
  <2>2. saves[r][id] \in Entry /\ StateOf(saves[r][id]) \in reported[id]
    BY <1>8, <1>c DEF SaveAgent, KnownInv
  <2>3. sessionRow'[id] = UpsertSession(sessionRow[id], saves[r][id])
        /\ \A i \in Uid : i # id => sessionRow'[i] = sessionRow[i]
    BY <1>8 DEF SaveAgent, TypeOK
  <2>4. sessionRow'[id] = sessionRow[id]
        \/ sessionRow'[id].updatedAt = StateOf(saves[r][id]).at
    BY <2>2, <2>3, SessionTime
  <2>5. \A i \in Uid : sessionRow'[i] # Nil =>
          \E v \in reported[i] : v.at = sessionRow'[i].updatedAt
    BY <2>2, <2>3, <2>4 DEF KnownInv
  <2> QED
    BY SMT, <1>8, <2>1, <2>5 DEF SaveAgent, KnownInv
<1>9. ASSUME NEW r \in Replica, NEW id \in Uid, SnapshotRead(r, id)
      PROVE  KnownInv'
  <2>1. \A q \in Replica, i \in Uid : due'[q][i] \in {due[q][i], agents[q][i]}
    BY <1>9 DEF SnapshotRead, TypeOK
  <2> QED
    BY SMT, <1>9, <2>1 DEF SnapshotRead, KnownInv
<1>10. ASSUME NEW r \in Replica, NEW id \in Uid, SaveSession(r, id)
       PROVE  KnownInv'
  <2>1. \A q \in Replica, i \in Uid : due'[q][i] \in {due[q][i], Nil}
    BY <1>10 DEF SaveSession, TypeOK
  <2>2. due[r][id] \in Entry /\ StateOf(due[r][id]) \in reported[id]
    BY <1>10, <1>c DEF SaveSession, KnownInv
  <2>3. sessionRow'[id] \in {sessionRow[id], UpsertSession(sessionRow[id], due[r][id])}
        /\ \A i \in Uid : i # id => sessionRow'[i] = sessionRow[i]
    BY <1>10 DEF SaveSession, TypeOK
  <2>4. sessionRow'[id] = sessionRow[id]
        \/ sessionRow'[id].updatedAt = StateOf(due[r][id]).at
    BY <2>2, <2>3, SessionTime
  <2>5. \A i \in Uid : sessionRow'[i] # Nil =>
          \E v \in reported[i] : v.at = sessionRow'[i].updatedAt
    BY <2>2, <2>3, <2>4 DEF KnownInv
  <2> QED
    BY <1>10, <2>1, <2>5 DEF SaveSession, KnownInv
<1>11. CASE PurgeWork
  <2>1. \A i \in Uid : sessionRow'[i] \in {sessionRow[i], Nil}
    BY <1>11 DEF PurgeWork, TypeOK
  <2> QED
    BY <1>11, <2>1 DEF PurgeWork, KnownInv
<1>12. CASE \/ UNCHANGED vars
            \/ PurgeSchedule
            \/ \E r \in Replica : FlushDrain(r)
            \/ \E r \in Replica, id \in Uid :
                 SoftDeleteAgent(r, id) \/ UpsertAgentConnection(r, id)
  <2>1. UNCHANGED <<clock, reported, agents, saves, due, sessionRow>>
    BY <1>12 DEF vars, PurgeSchedule, FlushDrain, SoftDeleteAgent,
                 UpsertAgentConnection
  <2> QED
    BY <2>1 DEF KnownInv
<1> QED
  BY <1>1, <1>2, <1>3, <1>4, <1>5, <1>6, <1>7, <1>8, <1>9, <1>10, <1>11, <1>12
  DEF Next, ReplicaNext, FlusherNext, SnapshotterNext

\* Registries, writes in flight and session rows hold reported states only.
THEOREM OnlyReported == Spec => []KnownInv
<1>1. Init => KnownInv
  BY DEF Init, KnownInv, NoEntries
<1> QED
  BY <1>1, KnownNext, SharedTypes, PTL DEF Spec

-----------------------------------------------------------------------------
(* The tables.                                                             *)

\* Every step, of whichever replica, keeps the three tables together.
LEMMA SharedTablesNext ==
  TypeOK /\ ConfigMatchesAgents /\ SessionIffAgent /\ [Next]_vars
    => ConfigMatchesAgents' /\ SessionIffAgent'
<1> SUFFICES ASSUME TypeOK, ConfigMatchesAgents, SessionIffAgent, [Next]_vars
             PROVE  ConfigMatchesAgents' /\ SessionIffAgent'
  OBVIOUS
<1>0. \A i \in Uid : /\ agentRow[i] \in AgentRow \cup {Nil}
                     /\ sessionRow[i] \in SessionRow \cup {Nil}
                     /\ configRow[i] \in ConfigRow \cup {Nil}
  BY DEF TypeOK
<1>1. ASSUME NEW r \in Replica, NEW id \in Uid, SaveAgent(r, id)
      PROVE  ConfigMatchesAgents' /\ SessionIffAgent'
  <2>1. /\ agentRow'[id] = UpsertAgent(agentRow[id], saves[r][id])
        /\ sessionRow'[id] = UpsertSession(sessionRow[id], saves[r][id])
        /\ configRow'[id] = ReplaceConfig(agentRow[id], configRow[id], saves[r][id])
        /\ \A i \in Uid : i # id => /\ agentRow'[i] = agentRow[i]
                                    /\ sessionRow'[i] = sessionRow[i]
                                    /\ configRow'[i] = configRow[i]
    BY <1>1 DEF SaveAgent, TypeOK
  <2>2. saves[r][id] \in Entry
    BY SMT, <1>1 DEF SaveAgent, TypeOK
  <2>3. agentRow'[id] # Nil /\ sessionRow'[id] # Nil
    <3>1. /\ UpsertAgent(agentRow[id], saves[r][id]) \in AgentRow
          /\ UpsertSession(sessionRow[id], saves[r][id]) \in SessionRow
      BY <1>0, <2>2, UpsertAgentType, UpsertSessionType
    <3> QED
      BY <2>1, <3>1, RowAssumption
  <2>4. configRow'[id] # Nil => configRow'[id].updatedAt = agentRow'[id].updatedAt
    BY <1>0, <2>1, <2>2, SaveMatches DEF ConfigMatchesAgents
  <2> QED
    BY <2>1, <2>3, <2>4 DEF ConfigMatchesAgents, SessionIffAgent
<1>2. ASSUME NEW r \in Replica, NEW id \in Uid, SoftDeleteAgent(r, id)
      PROVE  ConfigMatchesAgents' /\ SessionIffAgent'
  <2>1. \A i \in Uid : agentRow'[i] \in {agentRow[i], SoftDelete(agentRow[i], clock)}
    BY <1>2 DEF SoftDeleteAgent, TypeOK
  <2>2. ASSUME NEW i \in Uid
        PROVE  /\ agentRow'[i] = Nil <=> agentRow[i] = Nil
               /\ agentRow[i] # Nil => agentRow'[i].updatedAt = agentRow[i].updatedAt
    <3>1. clock \in Nat /\ agentRow[i] \in AgentRow \cup {Nil}
      BY DEF TypeOK
    <3>2. /\ SoftDelete(agentRow[i], clock) = Nil <=> agentRow[i] = Nil
          /\ agentRow[i] # Nil =>
               SoftDelete(agentRow[i], clock).updatedAt = agentRow[i].updatedAt
      BY <3>1, SoftDeleteType
    <3>3. agentRow'[i] = agentRow[i] \/ agentRow'[i] = SoftDelete(agentRow[i], clock)
      BY <2>1
    <3> QED
      BY <3>2, <3>3
  <2> QED
    BY <1>2, <2>2 DEF SoftDeleteAgent, ConfigMatchesAgents, SessionIffAgent
<1>3. ASSUME NEW r \in Replica, NEW id \in Uid, SaveSession(r, id)
      PROVE  ConfigMatchesAgents' /\ SessionIffAgent'
  <2>1. due[r][id] \in Entry
    BY <1>3 DEF SaveSession, TypeOK
  <2>2. UpsertSession(sessionRow[id], due[r][id]) # Nil
    BY <1>0, <2>1, UpsertSessionType, RowAssumption
  <2>3. \A i \in Uid :
          \/ sessionRow'[i] = sessionRow[i]
          \/ i = id /\ agentRow[i] # Nil
             /\ sessionRow'[i] = UpsertSession(sessionRow[id], due[r][id])
    BY <1>3 DEF SaveSession, TypeOK
  <2> QED
    BY <1>3, <2>2, <2>3 DEF SaveSession, ConfigMatchesAgents, SessionIffAgent
<1>4. CASE PurgeWork
  <2>1. \A i \in Uid :
          \/ agentRow'[i] = agentRow[i] /\ sessionRow'[i] = sessionRow[i]
             /\ configRow'[i] = configRow[i]
          \/ agentRow'[i] = Nil /\ sessionRow'[i] = Nil /\ configRow'[i] = Nil
    BY <1>4 DEF PurgeWork
  <2> QED
    BY <2>1 DEF ConfigMatchesAgents, SessionIffAgent
<1>5. CASE UNCHANGED tables
  BY <1>5 DEF tables, ConfigMatchesAgents, SessionIffAgent
<1>6. CASE \/ UNCHANGED vars \/ Tick \/ PurgeSchedule
           \/ \E id \in Uid, msg \in bounds.laterMessages : Send(id, msg)
           \/ \E r \in Replica, id \in Uid, msg \in bounds.firstMessages :
                Connect(r, id, msg)
  BY <1>5, <1>6 DEF vars, Tick, PurgeSchedule, Send, Connect, Report
<1>7. CASE \/ \E r \in Replica : Sweep(r) \/ Crash(r) \/ FlushDrain(r)
           \/ \E r \in Replica, id \in Uid :
                \/ Close(r, id) \/ FlushGet(r, id)
                \/ UpsertAgentConnection(r, id) \/ SnapshotRead(r, id)
  <2>1. UNCHANGED tables
    BY <1>7 DEF Sweep, Crash, FlushDrain, Close, FlushGet, UpsertAgentConnection,
                SnapshotRead
  <2> QED
    BY <1>5, <2>1
<1> QED
  BY <1>1, <1>2, <1>3, <1>4, <1>6, <1>7
  DEF Next, ReplicaNext, FlusherNext, SnapshotterNext

\* Files belong to the stored agents row and agents and session rows exist
\* together, whichever replicas write, crash or purge.
THEOREM SharedTablesAgree == Spec => [](ConfigMatchesAgents /\ SessionIffAgent)
<1>1. Init => ConfigMatchesAgents /\ SessionIffAgent
  BY DEF Init, ConfigMatchesAgents, SessionIffAgent, NoEntries
<1> QED
  BY <1>1, SharedTypes, SharedTablesNext, PTL DEF Spec

\* The second half of SharedTablesAgree on its own: no replica's write and no
\* purge leaves an agent with one of its two rows.
THEOREM SharedSessionsAgree == Spec => []SessionIffAgent
BY SharedTablesAgree, PTL

\* A replica that has only the row shows an agent as connected only if some
\* replica has heard it within the threshold, for any replicas and crashes.
THEOREM OwnersFade == Spec => []CrashedOwnerFades
<1>1. TypeOK /\ KnownInv /\ SessionIffAgent => CrashedOwnerFades
  <2> SUFFICES ASSUME TypeOK, KnownInv, SessionIffAgent, NEW r \in Replica,
                      NEW id \in Uid, agents[r][id] = Nil, Answer(r, id) # Nil,
                      Answer(r, id).connected
               PROVE  \E v \in reported[id] : clock - v.at <= DisconnectThreshold
    BY DEF CrashedOwnerFades
  <2>1. agentRow[id] # Nil
    BY DEF Answer
  <2>2. sessionRow[id] # Nil /\ sessionRow[id] \in SessionRow
    BY <2>1 DEF SessionIffAgent, TypeOK
  <2>3. sessionRow[id].connected /\ ~StaleConnected(sessionRow[id], clock)
    BY <2>1 DEF Answer
  <2>4. PICK v \in reported[id] : v.at = sessionRow[id].updatedAt
    BY <2>2 DEF KnownInv
  <2>5. ~(clock - v.at > DisconnectThreshold)
    BY <2>3, <2>4 DEF StaleConnected
  <2>6. clock - v.at \in Int /\ DisconnectThreshold \in Int
    <3>1. clock \in Nat
      BY DEF TypeOK
    <3>2. v.at \in Nat
      BY <2>2, <2>4 DEF SessionRow
    <3>3. DisconnectThreshold \in Int
      BY SMT, TimingAssumption DEF DisconnectThreshold
    <3> QED
      BY SMT, <3>1, <3>2, <3>3
  <2>7. clock - v.at <= DisconnectThreshold
    BY SMT, <2>5, <2>6
  <2> QED
    BY <2>7
<1> QED
  BY <1>1, SharedTypes, OnlyReported, SharedTablesAgree, PTL

-----------------------------------------------------------------------------
(* Refinement: SharedStore implements EventTimeRegister.                   *)

\* What the register sees of an agent depends on its two durable rows only.
LEMMA StoredDepends ==
  ASSUME NEW i \in Uid,
         agentRow'[i] = Nil <=> agentRow[i] = Nil,
         agentRow[i] # Nil => /\ agentRow'[i].updatedAt = agentRow[i].updatedAt
                              /\ agentRow'[i].fields = agentRow[i].fields,
         configRow'[i] = configRow[i]
  PROVE  Stored'[i] = Stored[i]
BY DEF Stored

\* A SaveAgent that the guard lets through puts the whole entry in the register.
LEMMA StoredByGuard ==
  ASSUME NEW row \in AgentRow \cup {Nil}, NEW config \in ConfigRow \cup {Nil},
         NEW entry \in Entry, AgentsGuard(row, entry)
  PROVE  /\ UpsertAgent(row, entry) # Nil
         /\ UpsertAgent(row, entry).updatedAt = entry.lastSeen
         /\ [s \in Section |->
               IF s # EffectiveConfig THEN UpsertAgent(row, entry).fields[s]
               ELSE IF ReplaceConfig(row, config, entry) = Nil THEN Nil
               ELSE ReplaceConfig(row, config, entry).files] = entry.fields
<1>1. UpsertAgent(row, entry) # Nil
  BY UpsertAgentType, RowAssumption
<1>2. /\ UpsertAgent(row, entry).updatedAt = entry.lastSeen
      /\ UpsertAgent(row, entry).fields = AgentColumns(entry)
  BY DEF UpsertAgent
<1>3. ReplaceConfig(row, config, entry) =
        IF entry.fields[EffectiveConfig] = Nil THEN Nil
        ELSE [files |-> entry.fields[EffectiveConfig], updatedAt |-> entry.lastSeen]
  BY DEF ReplaceConfig
<1>4. (IF ReplaceConfig(row, config, entry) = Nil THEN Nil
       ELSE ReplaceConfig(row, config, entry).files) = entry.fields[EffectiveConfig]
  <2>1. CASE entry.fields[EffectiveConfig] = Nil
    BY <1>3, <2>1
  <2>2. CASE entry.fields[EffectiveConfig] # Nil
    <3>1. [files |-> entry.fields[EffectiveConfig], updatedAt |-> entry.lastSeen]
            \in ConfigRow
      BY <2>2, SectionAssumption DEF Entry, ConfigRow
    <3> QED
      BY SMT, <1>3, <2>2, <3>1, RowAssumption
  <2> QED
    BY <2>1, <2>2
<1>5. \A s \in Section : s # EffectiveConfig =>
        UpsertAgent(row, entry).fields[s] = entry.fields[s]
  BY <1>2 DEF AgentColumns, AgentColumn
<1>6. entry.fields \in [Section -> Value \cup {Nil}]
  BY DEF Entry
<1> QED
  BY <1>1, <1>2, <1>4, <1>5, <1>6

\* A report is the register's Report.
LEMMA ReportRefines ==
  ASSUME TypeOK, KnownInv, NEW r \in Replica, NEW id \in Uid, NEW msg \in Message,
         Report(r, id, msg)
  PROVE  Register!Report(id)
<1> DEFINE v == [at |-> clock + 1,
                 content |-> Reported(agents[r][id], msg, r, clock + 1).fields]
<1>1. v \in Register!State
  <2>1. /\ agents[r][id] \in Entry \cup {Nil} /\ bounds \in Bounds
        /\ clock \in Nat /\ clock + 1 \in Nat
    BY SMT DEF TypeOK
  <2>2. Reported(agents[r][id], msg, r, clock + 1) \in Entry
    BY <2>1, SharedStoreAssumption, ReportedType
  <2>3. clock + 1 \in 0 .. bounds.time
    <3>1. clock < bounds.time /\ bounds.time \in Nat
      BY <2>1, SharedStoreAssumption DEF Report
    <3> QED
      BY SMT, <2>1, <3>1
  <2>4. clock + 1 \in UNION {0 .. b.time : b \in Bounds}
    BY <2>1, <2>3
  <2>5. Reported(agents[r][id], msg, r, clock + 1).fields \in [Section -> Value \cup {Nil}]
    BY <2>2 DEF Entry
  <2> QED
    BY <2>4, <2>5 DEF Register!State
<1>2. \A w \in reported[id] : w.at < v.at
  <2> SUFFICES ASSUME NEW w \in reported[id] PROVE w.at < clock + 1
    OBVIOUS
  <2>1. w \in State /\ clock \in Nat
    BY DEF TypeOK
  <2>2. w.at <= clock /\ w.at \in Nat
    BY <2>1 DEF KnownInv, State
  <2> QED
    BY SMT, <2>1, <2>2
<1>3. reported' = [reported EXCEPT ![id] = @ \cup {v}]
  BY DEF Report
<1>4. Stored' = Stored
  BY DEF Report, tables, Stored
<1> QED
  BY <1>1, <1>2, <1>3, <1>4 DEF Register!Report

\* A SaveAgent is the register's Store, or changes nothing the register has.
LEMMA SaveRefines ==
  ASSUME TypeOK, KnownInv, NEW r \in Replica, NEW id \in Uid, SaveAgent(r, id)
  PROVE  Register!Store(id) \/ UNCHANGED <<reported, Stored>>
<1> DEFINE e == saves[r][id]
<1>1. /\ agentRow'[id] = UpsertAgent(agentRow[id], e)
      /\ configRow'[id] = ReplaceConfig(agentRow[id], configRow[id], e)
      /\ \A i \in Uid : i # id => /\ agentRow'[i] = agentRow[i]
                                  /\ configRow'[i] = configRow[i]
  <2>1. agentRow \in [Uid -> AgentRow \cup {Nil}] /\ configRow \in [Uid -> ConfigRow \cup {Nil}]
    BY DEF TypeOK
  <2> QED
    BY <2>1 DEF SaveAgent
<1>2. /\ e \in Entry
      /\ StateOf(e) \in reported[id]
      /\ agentRow[id] \in AgentRow \cup {Nil}
      /\ configRow[id] \in ConfigRow \cup {Nil}
  <2>1. /\ e \in Entry \cup {Nil}
        /\ agentRow[id] \in AgentRow \cup {Nil}
        /\ configRow[id] \in ConfigRow \cup {Nil}
    BY SMT DEF TypeOK
  <2>2. e # Nil
    BY DEF SaveAgent
  <2>3. StateOf(e) \in reported[id]
    BY <2>2 DEF KnownInv
  <2> QED
    BY <2>1, <2>2, <2>3
<1>3. reported' = reported
  BY DEF SaveAgent, agentVars
<1>4. CASE ~AgentsGuard(agentRow[id], e)
  <2>1. \A i \in Uid : agentRow'[i] = agentRow[i] /\ configRow'[i] = configRow[i]
    BY <1>1, <1>4 DEF UpsertAgent, ReplaceConfig
  <2>2. Stored' = Stored
    BY <2>1 DEF Stored
  <2> QED
    BY <1>3, <2>2
<1>5. CASE AgentsGuard(agentRow[id], e)
  <2>1. Stored'[id] = StateOf(e)
    <3>1. /\ UpsertAgent(agentRow[id], e) # Nil
          /\ UpsertAgent(agentRow[id], e).updatedAt = e.lastSeen
          /\ [s \in Section |->
                IF s # EffectiveConfig THEN UpsertAgent(agentRow[id], e).fields[s]
                ELSE IF ReplaceConfig(agentRow[id], configRow[id], e) = Nil THEN Nil
                ELSE ReplaceConfig(agentRow[id], configRow[id], e).files] = e.fields
      BY <1>2, <1>5, StoredByGuard
    <3>2. /\ agentRow'[id] # Nil
          /\ agentRow'[id].updatedAt = e.lastSeen
          /\ [s \in Section |->
                IF s # EffectiveConfig THEN agentRow'[id].fields[s]
                ELSE IF configRow'[id] = Nil THEN Nil ELSE configRow'[id].files] = e.fields
      BY <1>1, <3>1
    <3>3. agentRow'[id] # Nil =>
            Stored'[id] = [at      |-> agentRow'[id].updatedAt,
                           content |-> [s \in Section |->
                             IF s # EffectiveConfig THEN agentRow'[id].fields[s]
                             ELSE IF configRow'[id] = Nil THEN Nil ELSE configRow'[id].files]]
      BY DEF Stored
    <3> QED
      BY <3>2, <3>3 DEF StateOf
  <2>2. \A i \in Uid : i # id => Stored'[i] = Stored[i]
    BY <1>1 DEF Stored
  <2>3. Stored' = [Stored EXCEPT ![id] = StateOf(e)]
    <3>1. Stored = [i \in Uid |-> Stored[i]] /\ Stored' = [i \in Uid |-> Stored'[i]]
      BY DEF Stored
    <3> HIDE DEF e
    <3> QED
      BY <2>1, <2>2, <3>1
  <2>4. Stored[id] # Nil => Stored[id].at < StateOf(e).at
    BY <1>5 DEF Stored, StateOf, AgentsGuard
  <2> QED
    BY <1>2, <1>3, <2>3, <2>4 DEF Register!Store
<1> QED
  BY <1>4, <1>5

\* A soft delete is invisible to the register, a purge is its Forget.
LEMMA DeleteRefines ==
  ASSUME TypeOK
  PROVE  /\ \A r \in Replica, id \in Uid :
              SoftDeleteAgent(r, id) => UNCHANGED <<reported, Stored>>
         /\ PurgeWork => \E S \in SUBSET Uid : Register!Forget(S)
<1>1. ASSUME NEW r \in Replica, NEW id \in Uid, SoftDeleteAgent(r, id)
      PROVE  UNCHANGED <<reported, Stored>>
  <2>1. reported' = reported /\ configRow' = configRow
    BY <1>1 DEF SoftDeleteAgent, agentVars
  <2>2. ASSUME NEW i \in Uid PROVE Stored'[i] = Stored[i]
    <3>1. agentRow[i] \in AgentRow \cup {Nil} /\ clock \in Nat
      BY DEF TypeOK
    <3>2. agentRow'[i] \in {agentRow[i], SoftDelete(agentRow[i], clock)}
      BY <1>1 DEF SoftDeleteAgent, TypeOK
    <3>3. /\ agentRow'[i] = Nil <=> agentRow[i] = Nil
          /\ agentRow[i] # Nil => /\ agentRow'[i].updatedAt = agentRow[i].updatedAt
                                  /\ agentRow'[i].fields = agentRow[i].fields
      <4>1. /\ SoftDelete(agentRow[i], clock) = Nil <=> agentRow[i] = Nil
            /\ agentRow[i] # Nil =>
                 /\ SoftDelete(agentRow[i], clock).updatedAt = agentRow[i].updatedAt
                 /\ SoftDelete(agentRow[i], clock).fields = agentRow[i].fields
        BY <3>1, SoftDeleteType
      <4>2. agentRow'[i] = agentRow[i] \/ agentRow'[i] = SoftDelete(agentRow[i], clock)
        BY <3>2
      <4> QED
        BY <4>1, <4>2
    <3> QED
      BY <2>1, <3>3, StoredDepends
  <2> QED
    BY <2>1, <2>2 DEF Stored
<1>2. ASSUME PurgeWork
      PROVE  \E S \in SUBSET Uid : Register!Forget(S)
  <2> DEFINE gone == {id \in Uid : Purged(agentRow[id], purgeBefore)}
  <2>1. \A i \in Uid : IF i \in gone
                         THEN agentRow'[i] = Nil
                         ELSE agentRow'[i] = agentRow[i] /\ configRow'[i] = configRow[i]
    BY <1>2 DEF PurgeWork
  <2>2. Stored' = [i \in Uid |-> IF i \in gone THEN Nil ELSE Stored[i]]
    BY <2>1 DEF Stored
  <2>3. reported' = reported
    BY <1>2 DEF PurgeWork, agentVars
  <2> WITNESS gone \in SUBSET Uid
  <2> QED
    BY <2>2, <2>3 DEF Register!Forget
<1> QED
  BY <1>1, <1>2

\* Every step of the replicas is a step of the register or invisible to it.
LEMMA StepRefines ==
  TypeOK /\ KnownInv /\ [Next]_vars => [Register!Next]_<<reported, Stored>>
<1> SUFFICES ASSUME TypeOK, KnownInv, [Next]_vars
             PROVE  [Register!Next]_<<reported, Stored>>
  OBVIOUS
<1>b. bounds \in Bounds
  BY DEF TypeOK
<1>1. ASSUME NEW id \in Uid, NEW msg \in bounds.laterMessages, Send(id, msg)
      PROVE  Register!Next
  <2>1. msg \in Message /\ holder[id] \in Replica
    BY <1>b, <1>1, SharedStoreAssumption DEF Send, TypeOK
  <2> QED
    BY <1>1, <2>1, ReportRefines DEF Send, Register!Next
<1>2. ASSUME NEW r \in Replica, NEW id \in Uid, NEW msg \in bounds.firstMessages,
             Connect(r, id, msg)
      PROVE  Register!Next
  <2>1. msg \in Message
    BY <1>b, <1>2, SharedStoreAssumption
  <2> QED
    BY <1>2, <2>1, ReportRefines DEF Connect, Register!Next
<1>3. ASSUME NEW r \in Replica, NEW id \in Uid, SaveAgent(r, id)
      PROVE  Register!Next \/ UNCHANGED <<reported, Stored>>
  BY <1>3, SaveRefines DEF Register!Next
<1>4. ASSUME NEW r \in Replica, NEW id \in Uid, SoftDeleteAgent(r, id)
      PROVE  UNCHANGED <<reported, Stored>>
  BY <1>4, DeleteRefines
<1>5. CASE PurgeWork
  BY <1>5, DeleteRefines DEF Register!Next
<1>6. UNCHANGED <<reported, agentRow, configRow>> => UNCHANGED <<reported, Stored>>
  BY DEF Stored
<1>7. CASE \/ UNCHANGED vars \/ Tick \/ PurgeSchedule
           \/ \E r \in Replica : Sweep(r) \/ Crash(r) \/ FlushDrain(r)
  BY <1>6, <1>7
  DEF vars, agentVars, tables, Tick, Sweep, Crash, FlushDrain, PurgeSchedule
<1>8. ASSUME NEW r \in Replica, NEW id \in Uid,
             \/ Close(r, id) \/ FlushGet(r, id) \/ UpsertAgentConnection(r, id)
             \/ SnapshotRead(r, id) \/ SaveSession(r, id)
      PROVE  UNCHANGED <<reported, Stored>>
  <2>1. CASE Close(r, id)
    BY <1>6, <2>1 DEF tables, Close
  <2>2. CASE FlushGet(r, id)
    BY <1>6, <2>2 DEF agentVars, tables, FlushGet
  <2>3. CASE UpsertAgentConnection(r, id)
    BY <1>6, <2>3 DEF agentVars, tables, UpsertAgentConnection
  <2>4. CASE SnapshotRead(r, id)
    BY <1>6, <2>4 DEF agentVars, tables, SnapshotRead
  <2>5. CASE SaveSession(r, id)
    BY <1>6, <2>5 DEF agentVars, SaveSession
  <2> QED
    BY <1>8, <2>1, <2>2, <2>3, <2>4, <2>5
<1> QED
  BY <1>1, <1>2, <1>3, <1>4, <1>5, <1>7, <1>8
  DEF Next, ReplicaNext, FlusherNext, SnapshotterNext

\* Replicas that report, crash, flush late and purge behave as one register
\* that holds, per agent, the latest event that was stored: whichever replica
\* reaches Postgres first.
THEOREM StoreImplementsRegister == Spec => StoreIsRegister
<1>1. Init => Register!Init
  BY DEF Init, NoEntries, Stored, Register!Init
<1>2. TypeOK /\ KnownInv /\ [Next]_vars => [Register!Next]_<<reported, Stored>>
  BY StepRefines
<1> QED
  BY <1>1, <1>2, SharedTypes, OnlyReported, PTL DEF Spec, StoreIsRegister, Register!Spec
-----------------------------------------------------------------------------
(* Reconnects: what a replica the agent has left writes late.              *)

\* What replica r still holds of an agent and may write to its session row.
Pieces(r, id) == {agents[r][id], saves[r][id], due[r][id]} \ {Nil}

\* An event time is one replica's; a replica's older copies are no newer than
\* its entry, and of one time with a connected entry only if connected too;
\* an agent's connection is on the replica that heard it last.
OriginInv ==
  \A id \in Uid, r \in Replica :
    /\ \A q \in Replica \ {r} : \A x \in Pieces(q, id), y \in Pieces(r, id) :
         x.lastSeen # y.lastSeen
    /\ agents[r][id] # Nil => \A x \in Pieces(r, id) :
         /\ x.lastSeen <= agents[r][id].lastSeen
         /\ x.lastSeen = agents[r][id].lastSeen /\ agents[r][id].connected
              => x.connected
    /\ holder[id] = r /\ agents[r][id] # Nil => Latest(r, id)

\* Nothing that could still be written at time t or later says disconnected.
Ahead(r, id, t) ==
  /\ \A q \in Replica \ {r} : \A x \in Pieces(q, id) : x.lastSeen < t
  /\ \A x \in Pieces(r, id) : x.connected \/ x.lastSeen < t

\* The agent's connect on replica r is safe: dirty, being saved, or stored, and
\* once it is being saved nothing disconnected can overtake it.
Safe(r, id) ==
  \/ id \in dirty[r] \cup drained[r]
  \/ /\ saves[r][id] # Nil
     /\ Ahead(r, id, saves[r][id].lastSeen)
     /\ \/ sessionRow[id] = Nil
        \/ sessionRow[id].connected
        \/ sessionRow[id].updatedAt <= saves[r][id].lastSeen
  \/ /\ sessionRow[id] # Nil /\ sessionRow[id].connected
     /\ Ahead(r, id, sessionRow[id].updatedAt)

\* So is the connect of every agent on the replica that heard it last.
ConnectInv ==
  Announced /\ bounds.softDeleteDuration >= bounds.time =>
  /\ purgeBefore = Nil
  /\ clock <= bounds.time
  /\ \A r \in Replica, id \in Uid :
       Latest(r, id) /\ agents[r][id].connected => Safe(r, id)

\* A replica with a connected agent is about to upsert its ownership, or the
\* agent has an owner.
OwnerInv ==
  \A r \in Replica, id \in Uid :
    /\ agents[r][id] # Nil
    /\ agents[r][id].connected
    /\ id \notin dirty[r] \cup drained[r] \cup upserts[r]
    => connRow[id] # Nil

\* A step without a report: no agent is heard, no entry gains a time or a
\* connection, and no replica holds anything new to write but its own entry.
KeptEntry(q, i) ==
  agents'[q][i] # Nil =>
    /\ agents[q][i] # Nil
    /\ agents'[q][i].lastSeen = agents[q][i].lastSeen
    /\ agents'[q][i].connected => agents'[q][i] = agents[q][i]

NothingNew(q, i) ==
  \A x \in Pieces(q, i)' : x \in Pieces(q, i) \/ x = agents'[q][i]

Quiet ==
  /\ reported' = reported
  /\ \A q \in Replica, i \in Uid :
       /\ holder'[i] = q => holder[i] = q
       /\ KeptEntry(q, i)
       /\ NothingNew(q, i)

\* A close and a sweep disconnect or drop an entry, or leave it as it is.
LEMMA QuietEntry ==
  ASSUME NEW entry \in Entry \cup {Nil}, NEW now \in Nat,
         NEW new \in {entry, ConnectionSet(entry, FALSE), Swept(entry, now)}, new # Nil
  PROVE  /\ entry # Nil
         /\ new.lastSeen = entry.lastSeen
         /\ new.connected => new = entry
<1>1. CASE new = ConnectionSet(entry, FALSE)
  BY <1>1, NilAssumption DEF ConnectionSet, Entry
<1>2. CASE new = Swept(entry, now)
  BY <1>2, NilAssumption DEF Swept, Entry
<1> QED
  BY <1>1, <1>2

\* Every step is quiet, or is one agent's report to one replica.
LEMMA QuietStep ==
  ASSUME TypeOK, [Next]_vars
  PROVE  \/ Quiet
         \/ \E id \in Uid, msg \in bounds.laterMessages : Send(id, msg)
         \/ \E r \in Replica, id \in Uid, msg \in bounds.firstMessages :
              Connect(r, id, msg)
<1> USE DEF agentVars, flushVars, tables
<1>t. /\ agents \in [Replica -> [Uid -> Entry \cup {Nil}]]
      /\ saves \in [Replica -> [Uid -> Entry \cup {Nil}]]
      /\ due \in [Replica -> [Uid -> Entry \cup {Nil}]]
      /\ clock \in Nat
      /\ holder \in [Uid -> Replica \cup {Nil}]
  BY DEF TypeOK
<1>1. ASSUME NEW r \in Replica, NEW id \in Uid, Close(r, id)
      PROVE  Quiet
  <2>1. /\ reported' = reported /\ saves' = saves /\ due' = due
        /\ holder' = [holder EXCEPT ![id] = IF @ = r THEN Nil ELSE @]
        /\ agents' = [agents EXCEPT ![r][id] = ConnectionSet(@, FALSE)]
    BY <1>1 DEF Close
  <2>2. \A q \in Replica, i \in Uid : holder'[i] = q => holder[i] = q
    BY <1>t, <2>1, SharedStoreAssumption
  <2>3. \A q \in Replica, i \in Uid :
          agents'[q][i] \in {agents[q][i], ConnectionSet(agents[q][i], FALSE)}
    BY <1>t, <2>1
  <2>4. ASSUME NEW q \in Replica, NEW i \in Uid, agents'[q][i] # Nil
        PROVE  /\ agents[q][i] # Nil
               /\ agents'[q][i].lastSeen = agents[q][i].lastSeen
               /\ agents'[q][i].connected => agents'[q][i] = agents[q][i]
    <3>1. agents[q][i] \in Entry \cup {Nil}
      BY <1>t
    <3>2. agents'[q][i] \in {agents[q][i], ConnectionSet(agents[q][i], FALSE),
                             Swept(agents[q][i], clock)}
      BY <2>3
    <3> QED
      BY <1>t, <2>4, <3>1, <3>2, QuietEntry
  <2>5. \A q \in Replica, i \in Uid :
          \A x \in Pieces(q, i)' : x \in Pieces(q, i) \/ x = agents'[q][i]
    BY <2>1 DEF Pieces
  <2> QED
    BY <2>1, <2>2, <2>4, <2>5 DEF Quiet, KeptEntry, NothingNew
<1>2. ASSUME NEW r \in Replica, Sweep(r)
      PROVE  Quiet
  <2>1. /\ reported' = reported /\ holder' = holder /\ saves' = saves /\ due' = due
        /\ agents' = [agents EXCEPT
                        ![r] = [id \in Uid |-> Swept(agents[r][id], clock)]]
    BY <1>2 DEF Sweep
  <2>2. \A q \in Replica, i \in Uid :
          agents'[q][i] \in {agents[q][i], Swept(agents[q][i], clock)}
    BY <1>t, <2>1
  <2>3. ASSUME NEW q \in Replica, NEW i \in Uid, agents'[q][i] # Nil
        PROVE  /\ agents[q][i] # Nil
               /\ agents'[q][i].lastSeen = agents[q][i].lastSeen
               /\ agents'[q][i].connected => agents'[q][i] = agents[q][i]
    <3>1. agents[q][i] \in Entry \cup {Nil}
      BY <1>t
    <3>2. agents'[q][i] \in {agents[q][i], ConnectionSet(agents[q][i], FALSE),
                             Swept(agents[q][i], clock)}
      BY <2>2
    <3> QED
      BY <1>t, <2>3, <3>1, <3>2, QuietEntry
  <2> QED
    BY <2>1, <2>2, <2>3 DEF Quiet, KeptEntry, NothingNew, Pieces
<1>3. ASSUME NEW r \in Replica, Crash(r)
      PROVE  Quiet
  <2>1. \A q \in Replica, i \in Uid :
          /\ agents'[q][i] \in {agents[q][i], Nil}
          /\ saves'[q][i] \in {saves[q][i], Nil}
          /\ due'[q][i] \in {due[q][i], Nil}
    BY <1>3, <1>t DEF Crash, NoEntries
  <2>2. /\ reported' = reported
        /\ \A q \in Replica, i \in Uid : holder'[i] = q => holder[i] = q
    BY <1>3, SharedStoreAssumption DEF Crash
  <2>3. \A q \in Replica, i \in Uid : KeptEntry(q, i)
    BY <2>1 DEF KeptEntry
  <2>4. \A q \in Replica, i \in Uid : NothingNew(q, i)
    BY ONLY <2>1 DEF NothingNew, Pieces
  <2> QED
    BY <2>2, <2>3, <2>4 DEF Quiet
<1>4. ASSUME NEW r \in Replica, NEW id \in Uid, FlushGet(r, id)
      PROVE  Quiet
  <2>1. /\ reported' = reported /\ holder' = holder /\ agents' = agents /\ due' = due
        /\ saves' = saves \/ saves' = [saves EXCEPT ![r][id] = agents[r][id]]
    BY <1>4 DEF FlushGet
  <2>2. \A q \in Replica, i \in Uid : saves'[q][i] \in {saves[q][i], agents[q][i]}
    BY SMT, <1>t, <2>1
  <2> QED
    BY <2>1, <2>2 DEF Quiet, KeptEntry, NothingNew, Pieces
<1>5. ASSUME NEW r \in Replica, NEW id \in Uid, SaveAgent(r, id)
      PROVE  Quiet
  <2>1. /\ reported' = reported /\ holder' = holder /\ agents' = agents /\ due' = due
        /\ saves' = [saves EXCEPT ![r][id] = Nil]
    BY <1>5 DEF SaveAgent
  <2>2. \A q \in Replica, i \in Uid : saves'[q][i] \in {saves[q][i], Nil}
    BY <1>t, <2>1
  <2> QED
    BY <2>1, <2>2 DEF Quiet, KeptEntry, NothingNew, Pieces
<1>6. ASSUME NEW r \in Replica, NEW id \in Uid,
             SnapshotRead(r, id) \/ SaveSession(r, id)
      PROVE  Quiet
  <2>1. /\ reported' = reported /\ holder' = holder /\ agents' = agents
        /\ saves' = saves
        /\ due' \in {[due EXCEPT ![r][id] = agents[r][id]], [due EXCEPT ![r][id] = Nil]}
    BY <1>6 DEF SnapshotRead, SaveSession
  <2>2. \A q \in Replica, i \in Uid : due'[q][i] \in {due[q][i], agents[q][i], Nil}
    <3>1. CASE due' = [due EXCEPT ![r][id] = agents[r][id]]
      BY <1>t, <3>1
    <3>2. CASE due' = [due EXCEPT ![r][id] = Nil]
      BY <1>t, <3>2
    <3> QED
      BY <2>1, <3>1, <3>2
  <2> QED
    BY <2>1, <2>2 DEF Quiet, KeptEntry, NothingNew, Pieces
<1>7. CASE UNCHANGED <<reported, holder, agents, saves, due>>
  <2>1. Quiet
    BY <1>7 DEF Quiet, KeptEntry, NothingNew, Pieces
  <2> QED
    BY <2>1
<1>8. CASE UNCHANGED vars \/ Tick \/ PurgeSchedule \/ PurgeWork
  BY <1>7, <1>8 DEF vars, Tick, PurgeSchedule, PurgeWork
<1>9. ASSUME NEW r \in Replica,
             \/ FlushDrain(r)
             \/ \E id \in Uid : SoftDeleteAgent(r, id) \/ UpsertAgentConnection(r, id)
      PROVE  UNCHANGED <<reported, holder, agents, saves, due>>
  BY <1>9 DEF FlushDrain, SoftDeleteAgent, UpsertAgentConnection
<1> QED
  BY <1>1, <1>2, <1>3, <1>4, <1>5, <1>6, <1>7, <1>8, <1>9
  DEF Next, ReplicaNext, FlusherNext, SnapshotterNext
\* What a replica holds of an agent are entries, of reported times.
LEMMA PieceTimes ==
  ASSUME TypeOK, KnownInv, NEW q \in Replica, NEW i \in Uid, NEW x \in Pieces(q, i)
  PROVE  /\ x \in Entry /\ x.lastSeen \in Nat
         /\ \E v \in reported[i] : v.at = x.lastSeen
         /\ x.lastSeen <= clock
<1>1. x \in Entry
  <2>1. /\ agents[q][i] \in Entry \cup {Nil}
        /\ saves[q][i] \in Entry \cup {Nil}
        /\ due[q][i] \in Entry \cup {Nil}
    BY SMT DEF TypeOK
  <2> QED
    BY <2>1 DEF Pieces
<1>2. StateOf(x) \in reported[i]
  BY DEF KnownInv, Pieces
<1>3. StateOf(x).at = x.lastSeen
  BY DEF StateOf
<1>4. StateOf(x).at <= clock
  BY <1>2 DEF KnownInv
<1> QED
  BY <1>1, <1>2, <1>3, <1>4 DEF Entry

\* What a report changes: the agent's entry on one replica, and its history.
LEMMA ReportEffect ==
  ASSUME TypeOK, NEW r \in Replica, NEW id \in Uid, NEW msg \in Message,
         Report(r, id, msg)
  PROVE  /\ clock' = clock + 1
         /\ agents'[r][id] \in Entry
         /\ agents'[r][id].lastSeen = clock + 1
         /\ agents'[r][id].connected
         /\ \A q \in Replica, i \in Uid : q # r \/ i # id => agents'[q][i] = agents[q][i]
         /\ \E v : v.at = clock + 1 /\ reported'[id] = reported[id] \cup {v}
         /\ \A i \in Uid : i # id => reported'[i] = reported[i]
         /\ saves' = saves /\ due' = due
<1> DEFINE e == Reported(agents[r][id], msg, r, clock + 1)
<1>1. agents \in [Replica -> [Uid -> Entry \cup {Nil}]] /\ clock + 1 \in Nat
  BY SMT DEF TypeOK
<1>2. agents[r][id] \in Entry \cup {Nil} /\ r \in Conn
  BY <1>1, SharedStoreAssumption
<1>3. e \in Entry
  BY <1>1, <1>2, ReportedType
<1>4. e.lastSeen = clock + 1 /\ e.connected
  BY DEF Reported
<1>5. /\ clock' = clock + 1 /\ saves' = saves /\ due' = due
      /\ agents' = [agents EXCEPT ![r][id] = e]
      /\ reported' = [reported EXCEPT ![id] = @ \cup {[at |-> clock + 1, content |-> e.fields]}]
  BY DEF Report, flushVars
<1>6. agents'[r][id] = e
      /\ \A q \in Replica, i \in Uid : q # r \/ i # id => agents'[q][i] = agents[q][i]
  <2> HIDE DEF e
  <2> QED
    BY <1>1, <1>5
<1>7. reported \in [Uid -> SUBSET State]
  BY DEF TypeOK
<1>8. reported'[id] = reported[id] \cup {[at |-> clock + 1, content |-> e.fields]}
      /\ \A i \in Uid : i # id => reported'[i] = reported[i]
  <2> HIDE DEF e
  <2> QED
    BY <1>5, <1>7
<1>9. \E v : v.at = clock + 1 /\ reported'[id] = reported[id] \cup {v}
  <2> WITNESS [at |-> clock + 1, content |-> e.fields]
  <2> HIDE DEF e
  <2> QED
    BY <1>8
<1> HIDE DEF e
<1> QED
  BY <1>3, <1>4, <1>5, <1>6, <1>8, <1>9

\* A report keeps OriginInv: its time is new.
LEMMA ReportOrigin ==
  ASSUME TypeOK, KnownInv, OriginInv, NEW r \in Replica, NEW id \in Uid,
         NEW msg \in Message, Report(r, id, msg),
         holder'[id] = r, \A i \in Uid : i # id => holder'[i] = holder[i]
  PROVE  OriginInv'
<1>1. /\ agents'[r][id].lastSeen = clock + 1
      /\ agents'[r][id].connected
      /\ \A q \in Replica, i \in Uid : q # r \/ i # id => agents'[q][i] = agents[q][i]
      /\ saves' = saves /\ due' = due
  BY ReportEffect
<1>2. PICK v : v.at = clock + 1 /\ reported'[id] = reported[id] \cup {v}
  BY ReportEffect
<1>3. \A i \in Uid : i # id => reported'[i] = reported[i]
  BY ReportEffect
<1>4. ASSUME NEW q \in Replica, NEW i \in Uid, NEW x \in Pieces(q, i)'
      PROVE  \/ x \in Pieces(q, i) /\ x.lastSeen \in Nat /\ x.lastSeen <= clock
             \/ q = r /\ i = id /\ x = agents'[r][id]
  <2>1. x \in Pieces(q, i) \/ (q = r /\ i = id /\ x = agents'[r][id])
    BY <1>1 DEF Pieces
  <2> QED
    BY <2>1, PieceTimes
<1>5. clock \in Nat
  BY DEF TypeOK
<1>6. ASSUME NEW i \in Uid, NEW q \in Replica, NEW p \in Replica \ {q},
             NEW x \in Pieces(p, i)', NEW y \in Pieces(q, i)'
      PROVE  x.lastSeen # y.lastSeen
  <2>1. CASE x \in Pieces(p, i) /\ y \in Pieces(q, i)
    BY <2>1 DEF OriginInv
  <2>2. CASE q = r /\ i = id /\ y = agents'[r][id]
    <3>1. x.lastSeen \in Nat /\ x.lastSeen <= clock
      BY <1>4, <2>2
    <3>2. y.lastSeen = clock + 1
      BY <1>1, <2>2
    <3> QED
      BY ONLY <1>5, <3>1, <3>2
  <2>3. CASE p = r /\ i = id /\ x = agents'[r][id]
    <3>1. y.lastSeen \in Nat /\ y.lastSeen <= clock
      BY <1>4, <2>3
    <3>2. x.lastSeen = clock + 1
      BY <1>1, <2>3
    <3> QED
      BY ONLY <1>5, <3>1, <3>2
  <2> QED
    BY <1>4, <2>1, <2>2, <2>3
<1>7. ASSUME NEW i \in Uid, NEW q \in Replica, agents'[q][i] # Nil,
             NEW x \in Pieces(q, i)'
      PROVE  /\ x.lastSeen <= agents'[q][i].lastSeen
             /\ x.lastSeen = agents'[q][i].lastSeen /\ agents'[q][i].connected
                  => x.connected
  <2>1. CASE q = r /\ i = id
    <3>1. \/ x.lastSeen \in Nat /\ x.lastSeen <= clock
          \/ x = agents'[r][id]
      BY <1>4, <2>1
    <3>2. agents'[q][i].lastSeen = clock + 1 /\ agents'[q][i] = agents'[r][id]
          /\ agents'[q][i].connected
      BY <1>1, <2>1
    <3> QED
      BY ONLY <1>5, <3>1, <3>2
  <2>2. CASE q # r \/ i # id
    <3>1. agents'[q][i] = agents[q][i] /\ x \in Pieces(q, i)
      BY <1>1, <1>4, <2>2
    <3> QED
      BY <1>7, <3>1 DEF OriginInv
  <2> QED
    BY <2>1, <2>2
<1>8. ASSUME NEW i \in Uid, NEW q \in Replica, holder'[i] = q, agents'[q][i] # Nil
      PROVE  Latest(q, i)'
  <2>1. CASE i = id
    <3>1. q = r
      BY <1>8, <2>1
    <3>2. ASSUME NEW w \in reported'[id] PROVE w.at <= clock + 1
      <4>1. CASE w \in reported[id]
        <5>1. w.at <= clock /\ w \in State
          BY <4>1 DEF KnownInv, TypeOK
        <5> QED
          BY SMT, <1>5, <5>1 DEF State
      <4>2. CASE w = v
        <5>1. w.at = clock + 1
          BY <1>2, <4>2
        <5> QED
          BY ONLY <1>5, <5>1
      <4> QED
        BY <1>2, <4>1, <4>2
    <3> QED
      BY <1>1, <1>8, <2>1, <3>1, <3>2 DEF Latest
  <2>2. CASE i # id
    <3>1. holder[i] = q /\ agents'[q][i] = agents[q][i] /\ reported'[i] = reported[i]
      BY <1>1, <1>3, <1>8, <2>2
    <3>2. Latest(q, i)
      BY <1>8, <3>1 DEF OriginInv
    <3> QED
      BY <3>1, <3>2 DEF Latest
  <2> QED
    BY <2>1, <2>2
<1> QED
  BY <1>6, <1>7, <1>8 DEF OriginInv

\* A quiet step keeps it too.
LEMMA QuietOrigin ==
  ASSUME OriginInv, Quiet
  PROVE  OriginInv'
<1>1. ASSUME NEW q \in Replica, NEW i \in Uid, NEW x \in Pieces(q, i)'
      PROVE  \E y \in Pieces(q, i) : y.lastSeen = x.lastSeen
  <2>1. CASE x = agents'[q][i]
    <3>1. x # Nil
      BY DEF Pieces
    <3>2. KeptEntry(q, i)
      BY DEF Quiet
    <3>3. agents[q][i] # Nil /\ agents[q][i].lastSeen = x.lastSeen
      BY <2>1, <3>1, <3>2 DEF KeptEntry
    <3>4. agents[q][i] \in Pieces(q, i)
      BY ONLY <3>3 DEF Pieces
    <3> QED
      BY <3>3, <3>4
  <2>2. NothingNew(q, i)
    BY DEF Quiet
  <2> QED
    BY <2>1, <2>2 DEF NothingNew
<1>2. ASSUME NEW i \in Uid, NEW q \in Replica, NEW p \in Replica \ {q},
             NEW x \in Pieces(p, i)', NEW y \in Pieces(q, i)'
      PROVE  x.lastSeen # y.lastSeen
  <2>1. PICK x0 \in Pieces(p, i) : x0.lastSeen = x.lastSeen
    BY <1>1
  <2>2. PICK y0 \in Pieces(q, i) : y0.lastSeen = y.lastSeen
    BY <1>1
  <2>3. x0.lastSeen # y0.lastSeen
    BY DEF OriginInv
  <2> QED
    BY <2>1, <2>2, <2>3
<1>3. ASSUME NEW i \in Uid, NEW q \in Replica, agents'[q][i] # Nil,
             NEW x \in Pieces(q, i)'
      PROVE  /\ x.lastSeen <= agents'[q][i].lastSeen
             /\ x.lastSeen = agents'[q][i].lastSeen /\ agents'[q][i].connected
                  => x.connected
  <2>1. /\ agents[q][i] # Nil
        /\ agents'[q][i].lastSeen = agents[q][i].lastSeen
        /\ agents'[q][i].connected => agents'[q][i] = agents[q][i]
    <3>1. KeptEntry(q, i)
      BY DEF Quiet
    <3> QED
      BY <1>3, <3>1 DEF KeptEntry
  <2>2. CASE x \in Pieces(q, i)
    BY <2>1, <2>2 DEF OriginInv
  <2>3. CASE x = agents'[q][i]
    <3>1. agents[q][i] \in Pieces(q, i)
      BY <2>1 DEF Pieces
    <3>2. agents[q][i].lastSeen <= agents[q][i].lastSeen
      BY <2>1, <3>1 DEF OriginInv
    <3> QED
      BY <2>1, <2>3, <3>2
  <2>4. NothingNew(q, i)
    BY DEF Quiet
  <2> QED
    BY <2>2, <2>3, <2>4 DEF NothingNew
<1>4. ASSUME NEW i \in Uid, NEW q \in Replica, holder'[i] = q, agents'[q][i] # Nil
      PROVE  Latest(q, i)'
  <2>1. /\ holder[i] = q /\ agents[q][i] # Nil /\ reported' = reported
        /\ agents'[q][i].lastSeen = agents[q][i].lastSeen
    <3>1. KeptEntry(q, i) /\ holder[i] = q /\ reported' = reported
      BY <1>4 DEF Quiet
    <3> QED
      BY <1>4, <3>1 DEF KeptEntry
  <2>2. Latest(q, i)
    BY <2>1 DEF OriginInv
  <2> QED
    BY <1>4, <2>1, <2>2 DEF Latest
<1> QED
  BY <1>2, <1>3, <1>4 DEF OriginInv

\* The origin of what replicas hold, in every behaviour.
THEOREM OriginsKnown == Spec => []OriginInv
<1>1. Init => OriginInv
  <2> SUFFICES ASSUME Init PROVE OriginInv
    OBVIOUS
  <2>1. \A q \in Replica, i \in Uid :
          agents[q][i] = Nil /\ saves[q][i] = Nil /\ due[q][i] = Nil
    BY DEF Init, NoEntries
  <2>2. \A q \in Replica, i \in Uid : Pieces(q, i) = {}
    BY <2>1 DEF Pieces
  <2> QED
    BY ONLY <2>1, <2>2 DEF OriginInv
<1>2. TypeOK /\ KnownInv /\ OriginInv /\ [Next]_vars => OriginInv'
  <2> SUFFICES ASSUME TypeOK, KnownInv, OriginInv, [Next]_vars PROVE OriginInv'
    OBVIOUS
  <2>b. bounds \in Bounds /\ holder \in [Uid -> Replica \cup {Nil}]
    BY DEF TypeOK
  <2>1. ASSUME NEW id \in Uid, NEW msg \in bounds.laterMessages, Send(id, msg)
        PROVE  OriginInv'
    <3>1. msg \in Message /\ holder[id] \in Replica /\ holder' = holder
      BY <2>b, <2>1, SharedStoreAssumption DEF Send
    <3>2. Report(holder[id], id, msg)
      BY <2>1 DEF Send
    <3> QED
      BY <3>1, <3>2, ReportOrigin
  <2>2. ASSUME NEW r \in Replica, NEW id \in Uid, NEW msg \in bounds.firstMessages,
               Connect(r, id, msg)
        PROVE  OriginInv'
    <3>1. msg \in Message
      BY <2>b, SharedStoreAssumption
    <3>2. holder'[id] = r /\ \A i \in Uid : i # id => holder'[i] = holder[i]
      BY <2>b, <2>2 DEF Connect
    <3>3. Report(r, id, msg)
      BY <2>2 DEF Connect
    <3> QED
      BY <3>1, <3>2, <3>3, ReportOrigin
  <2> QED
    BY <2>1, <2>2, QuietStep, QuietOrigin
<1> QED
  BY <1>1, <1>2, SharedTypes, OnlyReported, PTL DEF Spec

-----------------------------------------------------------------------------
\* A write that is connected or old leaves a connected row connected and no
\* older, and a row that a save at time t may overwrite one.
LEMMA SessionWrite ==
  ASSUME NEW row \in SessionRow \cup {Nil}, NEW entry \in Entry, NEW t \in Nat,
         entry.connected \/ entry.lastSeen < t
  PROVE  LET new == UpsertSession(row, entry) IN
         /\ row # Nil /\ row.connected /\ t = row.updatedAt =>
              new # Nil /\ new.connected /\ new.updatedAt \in Nat /\ t <= new.updatedAt
         /\ row = Nil \/ row.connected \/ row.updatedAt <= t =>
              new.connected \/ new.updatedAt <= t
         /\ /\ row = Nil \/ row.connected \/ row.updatedAt <= t
            /\ entry.lastSeen = t
            => new # Nil /\ new.connected /\ new.updatedAt \in Nat /\ t <= new.updatedAt
<1>1. entry.lastSeen \in Nat /\ entry.connected \in BOOLEAN
  BY DEF Entry
<1>2. row # Nil => row.updatedAt \in Nat
  BY DEF SessionRow
<1>3. CASE SessionGuard(row, entry)
  <2>1. /\ UpsertSession(row, entry).connected = entry.connected
        /\ UpsertSession(row, entry).updatedAt = entry.lastSeen
    BY <1>3 DEF UpsertSession
  <2>2. UpsertSession(row, entry) # Nil
    BY UpsertSessionType, RowAssumption
  <2>3. row # Nil => row.updatedAt <= entry.lastSeen
    BY <1>3 DEF SessionGuard
  <2> QED
    BY SMT, <1>1, <1>2, <2>1, <2>2, <2>3
<1>4. CASE ~SessionGuard(row, entry)
  <2>1. UpsertSession(row, entry) = row
    BY <1>4 DEF UpsertSession
  <2>2. row # Nil /\ ~(row.updatedAt <= entry.lastSeen)
    BY <1>4 DEF SessionGuard
  <2> QED
    BY SMT, <1>1, <1>2, <2>1, <2>2
<1> QED
  BY <1>3, <1>4

\* A bound that later times also satisfy.
LEMMA AheadLater ==
  ASSUME TypeOK, KnownInv, NEW r \in Replica, NEW id \in Uid, NEW t \in Nat, NEW u \in Nat,
         t <= u, Ahead(r, id, t)
  PROVE  Ahead(r, id, u)
<1>1. ASSUME NEW q \in Replica \ {r}, NEW x \in Pieces(q, id) PROVE x.lastSeen < u
  <2>1. x.lastSeen \in Nat
    BY PieceTimes
  <2> QED
    BY SMT, <2>1 DEF Ahead
<1>2. ASSUME NEW x \in Pieces(r, id) PROVE x.connected \/ x.lastSeen < u
  <2>1. x.lastSeen \in Nat
    BY PieceTimes
  <2> QED
    BY SMT, <2>1 DEF Ahead
<1> QED
  BY <1>1, <1>2 DEF Ahead

\* A quiet step leaves nothing new to write at time t or later.
LEMMA AheadKept ==
  ASSUME Quiet, NEW r \in Replica, NEW id \in Uid, NEW t,
         agents'[r][id] # Nil, agents'[r][id].connected, Ahead(r, id, t)
  PROVE  /\ \A q \in Replica \ {r} : \A x \in Pieces(q, id)' : x.lastSeen < t
         /\ \A x \in Pieces(r, id)' : x.connected \/ x.lastSeen < t
<1>q. \A q \in Replica : agents'[q][id] # Nil =>
        agents[q][id] # Nil /\ agents'[q][id].lastSeen = agents[q][id].lastSeen
  <2> SUFFICES ASSUME NEW q \in Replica, agents'[q][id] # Nil
               PROVE  /\ agents[q][id] # Nil
                      /\ agents'[q][id].lastSeen = agents[q][id].lastSeen
    OBVIOUS
  <2>1. KeptEntry(q, id)
    BY DEF Quiet
  <2> QED
    BY <2>1 DEF KeptEntry
<1>1. ASSUME NEW q \in Replica \ {r}, NEW x \in Pieces(q, id)'
      PROVE  x.lastSeen < t
  <2>1. CASE x \in Pieces(q, id)
    BY <2>1 DEF Ahead
  <2>2. CASE x = agents'[q][id]
    <3>1. x # Nil
      BY DEF Pieces
    <3>2. q \in Replica /\ agents'[q][id] # Nil
      BY <2>2, <3>1
    <3>3. agents[q][id] # Nil /\ agents'[q][id].lastSeen = agents[q][id].lastSeen
      BY <1>q, <3>2
    <3>4. agents[q][id] \in Pieces(q, id)
      BY ONLY <3>3 DEF Pieces
    <3>5. agents[q][id].lastSeen < t
      BY <3>4 DEF Ahead
    <3> QED
      BY <2>2, <3>3, <3>5
  <2>3. NothingNew(q, id)
    BY DEF Quiet
  <2> QED
    BY <2>1, <2>2, <2>3 DEF NothingNew
<1>2. ASSUME NEW x \in Pieces(r, id)'
      PROVE  x.connected \/ x.lastSeen < t
  <2>1. x \in Pieces(r, id) \/ x = agents'[r][id]
    BY DEF Quiet, NothingNew
  <2> QED
    BY <2>1 DEF Ahead
<1> QED
  BY <1>1, <1>2

\* A step that leaves the agent's flush on r alone, and writes nothing to its
\* session row or something a replica held, keeps its connect safe.
LEMMA QuietSafe ==
  ASSUME TypeOK, KnownInv, Quiet, NEW r \in Replica, NEW id \in Uid, Safe(r, id),
         agents'[r][id] # Nil, agents'[r][id].connected,
         id \in dirty[r] \cup drained[r] => id \in dirty'[r] \cup drained'[r],
         saves'[r][id] = saves[r][id],
         \/ sessionRow'[id] = sessionRow[id]
         \/ \E q \in Replica : \E x \in Pieces(q, id) :
              sessionRow'[id] = UpsertSession(sessionRow[id], x)
  PROVE  Safe(r, id)'
<1>1. sessionRow[id] \in SessionRow \cup {Nil}
  BY DEF TypeOK
<1>2. ASSUME NEW t \in Nat, Ahead(r, id, t)
      PROVE  \A q \in Replica : \A x \in Pieces(q, id) : x.connected \/ x.lastSeen < t
  BY <1>2 DEF Ahead
<1>3. CASE id \in dirty[r] \cup drained[r]
  BY <1>3 DEF Safe
<1>4. CASE /\ saves[r][id] # Nil
           /\ Ahead(r, id, saves[r][id].lastSeen)
           /\ \/ sessionRow[id] = Nil
              \/ sessionRow[id].connected
              \/ sessionRow[id].updatedAt <= saves[r][id].lastSeen
  <2> DEFINE t == saves[r][id].lastSeen
  <2>1. t \in Nat
    <3>1. saves[r][id] \in Pieces(r, id)
      BY <1>4 DEF Pieces
    <3> QED
      BY <3>1, PieceTimes
  <2>2. \/ sessionRow'[id] = Nil
        \/ sessionRow'[id].connected
        \/ sessionRow'[id].updatedAt <= t
    <3>1. ASSUME NEW q \in Replica, NEW x \in Pieces(q, id),
                 sessionRow'[id] = UpsertSession(sessionRow[id], x)
          PROVE  sessionRow'[id].connected \/ sessionRow'[id].updatedAt <= t
      <4>1. x \in Entry
        BY PieceTimes
      <4>2. x.connected \/ x.lastSeen < t
        BY <1>2, <1>4, <2>1
      <4>3. UpsertSession(sessionRow[id], x).connected
            \/ UpsertSession(sessionRow[id], x).updatedAt <= t
        BY <1>1, <1>4, <2>1, <4>1, <4>2, SessionWrite
      <4> QED
        BY <3>1, <4>3
    <3> QED
      BY <1>4, <3>1
  <2>3. Ahead(r, id, saves[r][id].lastSeen)'
    <3>1. /\ \A q \in Replica \ {r} : \A x \in Pieces(q, id)' : x.lastSeen < t
          /\ \A x \in Pieces(r, id)' : x.connected \/ x.lastSeen < t
      BY <1>4, AheadKept
    <3> QED
      BY <3>1 DEF Ahead
  <2> QED
    BY <1>4, <2>2, <2>3 DEF Safe
<1>5. CASE /\ sessionRow[id] # Nil /\ sessionRow[id].connected
           /\ Ahead(r, id, sessionRow[id].updatedAt)
  <2> DEFINE t == sessionRow[id].updatedAt
             u == sessionRow'[id].updatedAt
  <2>1. t \in Nat
    BY <1>1, <1>5 DEF SessionRow
  <2>2. sessionRow'[id] # Nil /\ sessionRow'[id].connected /\ u \in Nat /\ t <= u
    <3>1. ASSUME NEW q \in Replica, NEW x \in Pieces(q, id),
                 sessionRow'[id] = UpsertSession(sessionRow[id], x)
          PROVE  sessionRow'[id] # Nil /\ sessionRow'[id].connected /\ u \in Nat /\ t <= u
      <4>1. x \in Entry
        BY PieceTimes
      <4>2. x.connected \/ x.lastSeen < t
        BY <1>2, <1>5, <2>1
      <4>3. LET new == UpsertSession(sessionRow[id], x) IN
              new # Nil /\ new.connected /\ new.updatedAt \in Nat /\ t <= new.updatedAt
        BY <1>1, <1>5, <2>1, <4>1, <4>2, SessionWrite
      <4> QED
        BY <3>1, <4>3
    <3>2. CASE sessionRow'[id] = sessionRow[id]
      <4>1. t <= t
        BY ONLY <2>1
      <4> QED
        BY <1>5, <2>1, <3>2, <4>1
    <3> QED
      BY <3>1, <3>2
  <2>3. Ahead(r, id, u)
    BY <1>5, <2>1, <2>2, AheadLater
  <2>4. Ahead(r, id, sessionRow[id].updatedAt)'
    <3>1. /\ \A q \in Replica \ {r} : \A x \in Pieces(q, id)' : x.lastSeen < u
          /\ \A x \in Pieces(r, id)' : x.connected \/ x.lastSeen < u
      BY <2>3, AheadKept
    <3> QED
      BY <3>1 DEF Ahead
  <2> QED
    BY <2>2, <2>4 DEF Safe
<1> QED
  BY <1>3, <1>4, <1>5 DEF Safe

\* Reading a connected agent back to save it makes its connect safe: whatever
\* else is held or stored of the agent is older, or connected too.
LEMMA ReadBackSafe ==
  ASSUME TypeOK, KnownInv, OriginInv, Quiet, NEW r \in Replica, NEW id \in Uid,
         Latest(r, id), agents[r][id].connected,
         agents'[r][id] = agents[r][id], saves'[r][id] = agents[r][id],
         sessionRow' = sessionRow
  PROVE  Safe(r, id)'
<1> DEFINE t == agents[r][id].lastSeen
<1>1. agents[r][id] # Nil /\ agents[r][id] \in Pieces(r, id)
  BY DEF Latest, Pieces
<1>2. t \in Nat
  BY <1>1, PieceTimes
<1>3. ASSUME NEW q \in Replica \ {r}, NEW x \in Pieces(q, id) PROVE x.lastSeen < t
  <2>1. x.lastSeen \in Nat /\ \E v \in reported[id] : v.at = x.lastSeen
    BY PieceTimes
  <2>2. x.lastSeen <= t
    BY <2>1 DEF Latest
  <2>3. x.lastSeen # t
    BY <1>1 DEF OriginInv
  <2> QED
    BY ONLY <1>2, <2>1, <2>2, <2>3
<1>4. ASSUME NEW x \in Pieces(r, id) PROVE x.connected \/ x.lastSeen < t
  <2>1. x.lastSeen \in Nat
    BY PieceTimes
  <2>2. x.lastSeen <= t /\ (x.lastSeen = t => x.connected)
    BY <1>1 DEF OriginInv
  <2> QED
    BY ONLY <1>2, <2>1, <2>2
<1>5. Ahead(r, id, t)
  BY <1>3, <1>4 DEF Ahead
<1>6. /\ \A q \in Replica \ {r} : \A x \in Pieces(q, id)' : x.lastSeen < t
      /\ \A x \in Pieces(r, id)' : x.connected \/ x.lastSeen < t
  BY <1>1, <1>5, AheadKept
<1>7. Ahead(r, id, saves[r][id].lastSeen)'
  BY <1>6 DEF Ahead
<1>8. sessionRow[id] # Nil => sessionRow[id].updatedAt <= t
  BY DEF KnownInv, Latest
<1> QED
  BY <1>1, <1>7, <1>8 DEF Safe

\* Saving it stores the connect, or finds a newer one stored.
LEMMA SavedSafe ==
  ASSUME TypeOK, KnownInv, Quiet, NEW r \in Replica, NEW id \in Uid, Safe(r, id),
         agents'[r][id] # Nil, agents'[r][id].connected, saves[r][id] # Nil,
         dirty' = dirty, drained' = drained,
         sessionRow'[id] = UpsertSession(sessionRow[id], saves[r][id])
  PROVE  Safe(r, id)'
<1>1. sessionRow[id] \in SessionRow \cup {Nil}
  BY DEF TypeOK
<1>2. saves[r][id] \in Pieces(r, id)
  BY DEF Pieces
<1>3. saves[r][id] \in Entry /\ saves[r][id].lastSeen \in Nat
  BY <1>2, PieceTimes
<1> DEFINE u == sessionRow'[id].updatedAt
<1>4. CASE id \in dirty[r] \cup drained[r]
  BY <1>4 DEF Safe
<1>5. ASSUME sessionRow'[id] # Nil, sessionRow'[id].connected, Ahead(r, id, u)
      PROVE  Safe(r, id)'
  <2>1. /\ \A q \in Replica \ {r} : \A x \in Pieces(q, id)' : x.lastSeen < u
        /\ \A x \in Pieces(r, id)' : x.connected \/ x.lastSeen < u
    BY <1>5, AheadKept
  <2>2. Ahead(r, id, sessionRow[id].updatedAt)'
    BY <2>1 DEF Ahead
  <2> QED
    BY <1>5, <2>2 DEF Safe
<1>6. CASE /\ Ahead(r, id, saves[r][id].lastSeen)
           /\ \/ sessionRow[id] = Nil
              \/ sessionRow[id].connected
              \/ sessionRow[id].updatedAt <= saves[r][id].lastSeen
  <2> DEFINE t == saves[r][id].lastSeen
  <2>1. saves[r][id].connected \/ saves[r][id].lastSeen < t
    BY <1>2, <1>6 DEF Ahead
  <2>2. LET new == UpsertSession(sessionRow[id], saves[r][id]) IN
          new # Nil /\ new.connected /\ new.updatedAt \in Nat /\ t <= new.updatedAt
    BY <1>1, <1>3, <1>6, <2>1, SessionWrite
  <2>3. sessionRow'[id] # Nil /\ sessionRow'[id].connected /\ u \in Nat /\ t <= u
    BY <2>2
  <2>4. Ahead(r, id, u)
    BY <1>3, <1>6, <2>3, AheadLater
  <2> QED
    BY <1>5, <2>3, <2>4
<1>7. CASE /\ sessionRow[id] # Nil /\ sessionRow[id].connected
           /\ Ahead(r, id, sessionRow[id].updatedAt)
  <2> DEFINE t == sessionRow[id].updatedAt
  <2>1. t \in Nat
    BY <1>1, <1>7 DEF SessionRow
  <2>2. saves[r][id].connected \/ saves[r][id].lastSeen < t
    BY <1>2, <1>7 DEF Ahead
  <2>3. LET new == UpsertSession(sessionRow[id], saves[r][id]) IN
          new # Nil /\ new.connected /\ new.updatedAt \in Nat /\ t <= new.updatedAt
    BY <1>1, <1>3, <1>7, <2>1, <2>2, SessionWrite
  <2>4. sessionRow'[id] # Nil /\ sessionRow'[id].connected /\ u \in Nat /\ t <= u
    BY <2>3
  <2>5. Ahead(r, id, u)
    BY <1>7, <2>1, <2>4, AheadLater
  <2> QED
    BY <1>5, <2>4, <2>5
<1> QED
  BY <1>4, <1>6, <1>7 DEF Safe

\* Nothing but a connected entry of its own is new to the replica.
LEMMA SafeKept ==
  ASSUME NEW q \in Replica, NEW i \in Uid, Safe(q, i),
         \A p \in Replica \ {q} : Pieces(p, i)' \subseteq Pieces(p, i),
         \A x \in Pieces(q, i)' : x \in Pieces(q, i) \/ x.connected,
         i \in dirty[q] \cup drained[q] => i \in dirty'[q] \cup drained'[q],
         saves'[q][i] = saves[q][i], sessionRow'[i] = sessionRow[i]
  PROVE  Safe(q, i)'
<1>1. ASSUME NEW t, Ahead(q, i, t)
      PROVE  /\ \A p \in Replica \ {q} : \A x \in Pieces(p, i)' : x.lastSeen < t
             /\ \A x \in Pieces(q, i)' : x.connected \/ x.lastSeen < t
  BY <1>1 DEF Ahead
<1>2. Ahead(q, i, saves[q][i].lastSeen) => Ahead(q, i, saves[q][i].lastSeen)'
  BY <1>1 DEF Ahead
<1>3. Ahead(q, i, sessionRow[i].updatedAt) => Ahead(q, i, sessionRow[i].updatedAt)'
  BY <1>1 DEF Ahead
<1> QED
  BY <1>2, <1>3 DEF Safe

\* A report leaves connects safe, if it marks the agent dirty or comes from
\* the replica that heard the agent last.
LEMMA ReportSafe ==
  ASSUME TypeOK, KnownInv, NEW r \in Replica, NEW id \in Uid, NEW msg \in Message,
         Report(r, id, msg), ReportFires(agents[r][id], msg) \/ Latest(r, id),
         \A q \in Replica, i \in Uid :
           Latest(q, i) /\ agents[q][i].connected => Safe(q, i),
         NEW q \in Replica, NEW i \in Uid, Latest(q, i)', agents'[q][i].connected
  PROVE  Safe(q, i)'
<1>1. /\ agents'[r][id].connected
      /\ \A p \in Replica, j \in Uid : p # r \/ j # id => agents'[p][j] = agents[p][j]
      /\ saves' = saves /\ due' = due
  BY ReportEffect
<1>2. PICK v : v.at = clock + 1 /\ reported'[id] = reported[id] \cup {v}
  BY ReportEffect
<1>3. \A j \in Uid : j # id => reported'[j] = reported[j]
  BY ReportEffect
<1>4. \A p \in Replica, j \in Uid : p # r \/ j # id => Pieces(p, j)' = Pieces(p, j)
  BY <1>1 DEF Pieces
<1>5. \A x \in Pieces(r, id)' : x \in Pieces(r, id) \/ x.connected
  BY <1>1 DEF Pieces
<1>6. drained' = drained /\ sessionRow' = sessionRow
  BY DEF Report, flushVars, tables
<1>7. /\ \A p \in Replica : dirty[p] \subseteq dirty'[p]
      /\ ReportFires(agents[r][id], msg) => id \in dirty'[r]
  <2>1. dirty \in [Replica -> SUBSET Uid]
    BY DEF TypeOK
  <2>2. dirty' = IF ReportFires(agents[r][id], msg)
                   THEN [dirty EXCEPT ![r] = @ \cup {id}] ELSE dirty
    BY DEF Report
  <2> QED
    BY <2>1, <2>2
<1>8. ASSUME Safe(q, i), i # id \/ q = r
      PROVE  Safe(q, i)'
  <2>1. \A p \in Replica \ {q} : Pieces(p, i)' \subseteq Pieces(p, i)
    BY <1>4, <1>8
  <2>2. \A x \in Pieces(q, i)' : x \in Pieces(q, i) \/ x.connected
    BY <1>4, <1>5, <1>8
  <2>3. /\ i \in dirty[q] \cup drained[q] => i \in dirty'[q] \cup drained'[q]
        /\ saves'[q][i] = saves[q][i] /\ sessionRow'[i] = sessionRow[i]
    BY <1>1, <1>6, <1>7
  <2> QED
    BY <1>8, <2>1, <2>2, <2>3, SafeKept
<1>9. CASE i # id
  <2>1. agents'[q][i] = agents[q][i] /\ reported'[i] = reported[i]
    BY <1>1, <1>3, <1>9
  <2>2. Latest(q, i) /\ agents[q][i].connected
    BY <2>1 DEF Latest
  <2> QED
    BY <1>8, <1>9, <2>2
\* Another replica is then no longer the one that heard the agent last.
<1>10. CASE i = id /\ q # r
  <2>1. /\ agents'[q][id] = agents[q][id] /\ agents'[q][id] # Nil
        /\ clock + 1 <= agents'[q][id].lastSeen
    <3>1. agents'[q][id] = agents[q][id]
      BY <1>1, <1>10
    <3>2. agents'[q][id] # Nil /\ \A w \in reported'[id] : w.at <= agents'[q][id].lastSeen
      BY <1>10 DEF Latest
    <3>3. v \in reported'[id]
      BY <1>2
    <3> QED
      BY <1>2, <3>1, <3>2, <3>3
  <2>2. agents[q][id] \in Pieces(q, id)
    BY <2>1 DEF Pieces
  <2>3. agents[q][id].lastSeen \in Nat /\ agents[q][id].lastSeen <= clock
    BY <2>2, PieceTimes
  <2>4. clock \in Nat
    BY DEF TypeOK
  <2> QED
    BY ONLY <2>1, <2>3, <2>4
<1>11. CASE i = id /\ q = r
  <2>1. CASE ReportFires(agents[r][id], msg)
    BY <1>7, <1>11, <2>1 DEF Safe
  <2>2. CASE ~ReportFires(agents[r][id], msg)
    <3>1. Latest(r, id) /\ agents[r][id].connected
      BY <2>2 DEF ReportFires
    <3> QED
      BY <1>8, <1>11, <3>1
  <2> QED
    BY <2>1, <2>2
<1> QED
  BY <1>9, <1>10, <1>11

\* Every step that is no report keeps connects safe, as long as none is purged.
LEMMA QuietConnects ==
  ASSUME TypeOK, KnownInv, OriginInv, Quiet, [Next]_vars, purgeBefore = Nil,
         ~\E i \in Uid, msg \in bounds.laterMessages : Send(i, msg),
         ~\E q \in Replica, i \in Uid, msg \in bounds.firstMessages : Connect(q, i, msg),
         \A q \in Replica, i \in Uid :
           Latest(q, i) /\ agents[q][i].connected => Safe(q, i),
         NEW r \in Replica, NEW id \in Uid, Latest(r, id)', agents'[r][id].connected
  PROVE  Safe(r, id)'
<1> USE DEF agentVars, flushVars, tables
<1>t. /\ dirty \in [Replica -> SUBSET Uid]
      /\ drained \in [Replica -> SUBSET Uid]
      /\ saves \in [Replica -> [Uid -> Entry \cup {Nil}]]
      /\ sessionRow \in [Uid -> SessionRow \cup {Nil}]
      /\ agents \in [Replica -> [Uid -> Entry \cup {Nil}]]
  BY DEF TypeOK
<1>1. /\ agents'[r][id] # Nil
      /\ agents'[r][id] = agents[r][id]
      /\ Latest(r, id)
      /\ Safe(r, id)
  <2>1. agents'[r][id] # Nil /\ agents'[r][id] = agents[r][id] /\ reported' = reported
    BY DEF Latest, Quiet, KeptEntry
  <2>2. Latest(r, id) /\ agents[r][id].connected
    BY <2>1 DEF Latest
  <2> QED
    BY <2>1, <2>2
<1>2. ASSUME UNCHANGED <<dirty, drained, saves, sessionRow>>
      PROVE  Safe(r, id)'
  BY <1>1, <1>2, QuietSafe
<1>3. ASSUME NEW q \in Replica, Sweep(q) \/ \E i \in Uid : Close(q, i)
      PROVE  Safe(r, id)'
  <2>1. /\ UNCHANGED <<drained, saves, sessionRow>>
        /\ \E S : dirty' = [dirty EXCEPT ![q] = @ \cup S]
    BY <1>3 DEF Close, Sweep
  <2>2. \A p \in Replica : dirty[p] \subseteq dirty'[p]
    BY <1>t, <2>1
  <2> QED
    BY <1>1, <2>1, <2>2, QuietSafe
<1>4. ASSUME NEW q \in Replica, Crash(q)
      PROVE  Safe(r, id)'
  <2>1. q # r
    BY <1>1, <1>4, <1>t DEF Crash, NoEntries
  <2>2. /\ dirty'[r] = dirty[r] /\ drained'[r] = drained[r] /\ saves'[r] = saves[r]
        /\ sessionRow' = sessionRow
    BY <1>4, <1>t, <2>1 DEF Crash
  <2> QED
    BY <1>1, <2>2, QuietSafe
<1>5. ASSUME NEW q \in Replica, FlushDrain(q)
      PROVE  Safe(r, id)'
  <2>1. /\ dirty[r] \cup drained[r] \subseteq dirty'[r] \cup drained'[r]
        /\ UNCHANGED <<saves, sessionRow>>
    BY <1>5, <1>t DEF FlushDrain
  <2> QED
    BY <1>1, <2>1, QuietSafe
<1>6. ASSUME NEW q \in Replica, NEW i \in Uid, FlushGet(q, i)
      PROVE  Safe(r, id)'
  <2>1. CASE q = r /\ i = id
    <3>1. saves'[r][id] = agents[r][id] /\ sessionRow' = sessionRow
      <4>1. /\ saves' = [saves EXCEPT ![r][id] = agents[r][id]]
            /\ sessionRow' = sessionRow
        BY <1>1, <1>6, <2>1 DEF FlushGet
      <4> QED
        BY <1>t, <4>1
    <3> QED
      BY <1>1, <3>1, ReadBackSafe
  <2>2. CASE q # r \/ i # id
    <3>1. /\ dirty' = dirty /\ sessionRow' = sessionRow
          /\ drained' = [drained EXCEPT ![q] = @ \ {i}]
          /\ saves' = saves \/ saves' = [saves EXCEPT ![q][i] = agents[q][i]]
      BY <1>6 DEF FlushGet
    <3>2. id \in drained[r] => id \in drained'[r]
      BY <1>t, <2>2, <3>1
    <3>3. saves'[r][id] = saves[r][id]
      <4>1. CASE saves' = [saves EXCEPT ![q][i] = agents[q][i]]
        BY <1>t, <2>2, <4>1
      <4> QED
        BY <3>1, <4>1
    <3> QED
      BY <1>1, <3>1, <3>2, <3>3, QuietSafe
  <2> QED
    BY <2>1, <2>2
<1>7. ASSUME NEW q \in Replica, NEW i \in Uid, SaveAgent(q, i)
      PROVE  Safe(r, id)'
  <2>1. /\ UNCHANGED <<dirty, drained>>
        /\ saves[q][i] # Nil
        /\ saves' = [saves EXCEPT ![q][i] = Nil]
        /\ sessionRow' = [sessionRow EXCEPT ![i] = UpsertSession(@, saves[q][i])]
    BY <1>7 DEF SaveAgent
  <2>2. /\ sessionRow'[i] = UpsertSession(sessionRow[i], saves[q][i])
        /\ i # id => sessionRow'[id] = sessionRow[id]
    BY <1>t, <2>1
  <2>3. CASE q = r /\ i = id
    BY <1>1, <2>1, <2>2, <2>3, SavedSafe
  <2>4. CASE q # r \/ i # id
    <3>1. saves'[r][id] = saves[r][id]
      BY <1>t, <2>1, <2>4
    <3>2. saves[q][i] \in Pieces(q, i)
      BY <2>1 DEF Pieces
    <3>3. \/ sessionRow'[id] = sessionRow[id]
          \/ \E p \in Replica : \E x \in Pieces(p, id) :
               sessionRow'[id] = UpsertSession(sessionRow[id], x)
      BY <2>2, <3>2
    <3> QED
      BY <1>1, <2>1, <3>1, <3>3, QuietSafe
  <2> QED
    BY <2>3, <2>4
<1>8. ASSUME NEW q \in Replica, NEW i \in Uid, SaveSession(q, i)
      PROVE  Safe(r, id)'
  <2>1. /\ UNCHANGED <<dirty, drained, saves>>
        /\ due[q][i] # Nil
        /\ \/ sessionRow' = sessionRow
           \/ sessionRow' = [sessionRow EXCEPT ![i] = UpsertSession(@, due[q][i])]
    BY <1>8 DEF SaveSession
  <2>2. due[q][i] \in Pieces(q, i)
    BY <2>1 DEF Pieces
  <2>3. \/ sessionRow'[id] = sessionRow[id]
        \/ i = id /\ sessionRow'[id] = UpsertSession(sessionRow[id], due[q][id])
    BY <1>t, <2>1
  <2>4. \/ sessionRow'[id] = sessionRow[id]
        \/ \E p \in Replica : \E x \in Pieces(p, id) :
             sessionRow'[id] = UpsertSession(sessionRow[id], x)
    BY <2>2, <2>3
  <2> QED
    BY <1>1, <2>1, <2>4, QuietSafe
<1>9. CASE UNCHANGED vars \/ Tick \/ PurgeSchedule
  BY <1>2, <1>9 DEF vars, Tick, PurgeSchedule
<1>10. ASSUME NEW q \in Replica, NEW i \in Uid,
              \/ SoftDeleteAgent(q, i) \/ UpsertAgentConnection(q, i)
              \/ SnapshotRead(q, i)
       PROVE  Safe(r, id)'
  BY <1>2, <1>10 DEF SoftDeleteAgent, UpsertAgentConnection, SnapshotRead
<1>11. ~PurgeWork
  BY DEF PurgeWork
<1> QED
  BY <1>3, <1>4, <1>5, <1>6, <1>7, <1>8, <1>9, <1>10, <1>11
  DEF Next, ReplicaNext, FlusherNext, SnapshotterNext

\* Every step keeps ConnectInv: a non-firing report is of the holder.
LEMMA ConnectNext ==
  TypeOK /\ KnownInv /\ OriginInv /\ ConnectInv /\ [Next]_vars => ConnectInv'
<1> SUFFICES ASSUME TypeOK, KnownInv, OriginInv, ConnectInv, [Next]_vars,
                    Announced', (bounds.softDeleteDuration >= bounds.time)'
             PROVE  /\ purgeBefore' = Nil
                    /\ clock' <= bounds'.time
                    /\ \A r \in Replica, id \in Uid :
                         Latest(r, id)' /\ agents'[r][id].connected => Safe(r, id)'
  BY DEF ConnectInv
<1>b. /\ bounds' = bounds /\ bounds \in Bounds
      /\ holder \in [Uid -> Replica \cup {Nil}]
      /\ clock \in Nat
  BY DEF Next, vars, TypeOK
<1>c. /\ bounds.softDeleteDuration \in Nat /\ bounds.time \in Nat
      /\ bounds.firstMessages \subseteq Message /\ bounds.laterMessages \subseteq Message
  BY <1>b, SharedStoreAssumption
<1>1. Announced /\ bounds.softDeleteDuration >= bounds.time
  BY <1>b DEF Announced
<1>2. /\ purgeBefore = Nil
      /\ clock <= bounds.time
      /\ \A q \in Replica, i \in Uid :
           Latest(q, i) /\ agents[q][i].connected => Safe(q, i)
  BY <1>1 DEF ConnectInv
<1>n. /\ clock \in Nat /\ bounds.time \in Nat /\ bounds.softDeleteDuration \in Nat
      /\ clock <= bounds.time /\ bounds.softDeleteDuration >= bounds.time
  BY <1>b, <1>c, <1>1, <1>2
<1>3. ~PurgeSchedule
  <2>1. ~ (clock > bounds.softDeleteDuration)
    BY ONLY <1>n
  <2> QED
    BY <2>1 DEF PurgeSchedule
<1>4. ~PurgeWork
  BY <1>2 DEF PurgeWork
<1>5. clock' <= bounds.time /\ purgeBefore' = Nil
  <2>1. CASE Tick \/ UNCHANGED vars
    <3>1. /\ purgeBefore' = purgeBefore
          /\ clock' = clock \/ (clock < bounds.time /\ clock' = clock + 1)
      BY <2>1 DEF Tick, vars
    <3>2. clock' <= bounds.time
      BY ONLY <1>n, <3>1
    <3> QED
      BY <1>2, <3>1, <3>2
  <2>2. ASSUME NEW r, NEW id, NEW msg, Report(r, id, msg)
        PROVE  clock' <= bounds.time /\ purgeBefore' = Nil
    <3>1. purgeBefore' = purgeBefore /\ clock < bounds.time /\ clock' = clock + 1
      BY <2>2 DEF Report
    <3>2. clock' <= bounds.time
      BY ONLY <1>n, <3>1
    <3> QED
      BY <1>2, <3>1, <3>2
  <2>3. ASSUME NEW r \in Replica, Sweep(r) \/ Crash(r) \/ FlushDrain(r)
        PROVE  UNCHANGED <<clock, purgeBefore>>
    BY <2>3 DEF Sweep, Crash, FlushDrain
  <2>4. ASSUME NEW r \in Replica, NEW id \in Uid,
               \/ Close(r, id) \/ FlushGet(r, id) \/ SaveAgent(r, id)
               \/ SoftDeleteAgent(r, id) \/ UpsertAgentConnection(r, id)
               \/ SnapshotRead(r, id) \/ SaveSession(r, id)
        PROVE  UNCHANGED <<clock, purgeBefore>>
    <3>1. CASE Close(r, id) \/ FlushGet(r, id) \/ SaveAgent(r, id)
      BY <3>1 DEF Close, FlushGet, SaveAgent
    <3>2. CASE \/ SoftDeleteAgent(r, id) \/ UpsertAgentConnection(r, id)
               \/ SnapshotRead(r, id) \/ SaveSession(r, id)
      BY <3>2 DEF SoftDeleteAgent, UpsertAgentConnection, SnapshotRead, SaveSession
    <3> QED
      BY <2>4, <3>1, <3>2
  <2>5. CASE UNCHANGED <<clock, purgeBefore>>
    BY <1>2, <2>5
  <2> QED
    BY <1>3, <1>4, <2>1, <2>2, <2>3, <2>4, <2>5
    DEF Next, ReplicaNext, FlusherNext, SnapshotterNext, Send, Connect
<1>6. ASSUME NEW r \in Replica, NEW id \in Uid, Latest(r, id)', agents'[r][id].connected
      PROVE  Safe(r, id)'
  <2>1. ASSUME NEW i \in Uid, NEW msg \in bounds.laterMessages, Send(i, msg)
        PROVE  Safe(r, id)'
    <3>1. /\ holder[i] \in Replica /\ msg \in Message
          /\ Report(holder[i], i, msg)
      BY <1>b, <1>c, <2>1 DEF Send
    <3>2. ReportFires(agents[holder[i]][i], msg) \/ Latest(holder[i], i)
      BY <3>1 DEF OriginInv, ReportFires
    <3> QED
      BY <1>2, <1>6, <3>1, <3>2, ReportSafe
  <2>2. ASSUME NEW q \in Replica, NEW i \in Uid, NEW msg \in bounds.firstMessages,
               Connect(q, i, msg)
        PROVE  Safe(r, id)'
    <3>1. msg \in Message /\ Report(q, i, msg)
      BY <1>c, <2>2 DEF Connect
    <3>2. ReportFires(agents[q][i], msg)
      BY <1>1 DEF Announced, ReportFires
    <3> QED
      BY <1>2, <1>6, <3>1, <3>2, ReportSafe
  <2>3. CASE /\ ~\E i \in Uid, msg \in bounds.laterMessages : Send(i, msg)
             /\ ~\E q \in Replica, i \in Uid, msg \in bounds.firstMessages :
                   Connect(q, i, msg)
    <3>1. Quiet
      BY <2>3, QuietStep
    <3> QED
      BY <1>2, <1>6, <2>3, <3>1, QuietConnects
  <2> QED
    BY <2>1, <2>2, <2>3
<1> QED
  BY <1>b, <1>5, <1>6

\* A disconnect detected late never undoes the connect of the replica the
\* agent has moved to, for any replicas, crashes, snapshots and messages.
THEOREM ReconnectsSurvive == Spec => []ReconnectSurvives
<1>1. Init => ConnectInv
  <2> SUFFICES ASSUME Init PROVE ConnectInv
    OBVIOUS
  <2>1. \A q \in Replica, i \in Uid : ~ Latest(q, i)
    BY DEF Init, Latest, NoEntries
  <2>2. clock = 0 /\ bounds.time \in Nat /\ purgeBefore = Nil
    BY SharedStoreAssumption DEF Init
  <2>3. clock <= bounds.time
    BY ONLY <2>2
  <2> QED
    BY <2>1, <2>2, <2>3 DEF ConnectInv
<1>2. ConnectInv => ReconnectSurvives
  BY DEF ConnectInv, ReconnectSurvives, Flushed, Safe
<1> QED
  BY <1>1, <1>2, ConnectNext, SharedTypes, OnlyReported, OriginsKnown, PTL DEF Spec
-----------------------------------------------------------------------------
(* Ownership.                                                              *)

\* Every step keeps OwnerInv: the id moves from dirty to drained to upserts to
\* the table, and no step deletes from the table.
LEMMA OwnerNext == TypeOK /\ OwnerInv /\ [Next]_vars => OwnerInv'
<1> SUFFICES ASSUME TypeOK, OwnerInv, [Next]_vars, NEW r \in Replica, NEW id \in Uid,
                    agents'[r][id] # Nil, agents'[r][id].connected,
                    id \notin dirty'[r] \cup drained'[r] \cup upserts'[r]
             PROVE  connRow'[id] # Nil
  BY DEF OwnerInv
<1> USE DEF agentVars, flushVars, tables
<1>t. /\ agents \in [Replica -> [Uid -> Entry \cup {Nil}]]
      /\ dirty \in [Replica -> SUBSET Uid]
      /\ drained \in [Replica -> SUBSET Uid]
      /\ upserts \in [Replica -> SUBSET Uid]
      /\ connRow \in [Uid -> Replica \cup {Nil}]
  BY DEF TypeOK
<1>b. bounds \in Bounds /\ holder \in [Uid -> Replica \cup {Nil}]
  BY DEF TypeOK
<1>c. bounds.firstMessages \subseteq Message /\ bounds.laterMessages \subseteq Message
  BY <1>b, SharedStoreAssumption
<1>1. ASSUME agents[r][id] # Nil, agents[r][id].connected,
             UNCHANGED <<drained, upserts, connRow>>, dirty[r] \subseteq dirty'[r]
      PROVE  connRow'[id] # Nil
  BY <1>1 DEF OwnerInv
<1>2. ASSUME NEW q \in Replica, NEW i \in Uid, NEW msg \in Message, Report(q, i, msg)
      PROVE  connRow'[id] # Nil
  <2>1. /\ agents' = [agents EXCEPT ![q][i] = Reported(@, msg, q, clock + 1)]
        /\ dirty' = IF ReportFires(agents[q][i], msg)
                      THEN [dirty EXCEPT ![q] = @ \cup {i}] ELSE dirty
        /\ UNCHANGED <<drained, upserts, connRow>>
    BY <1>2 DEF Report
  <2>2. /\ dirty[r] \subseteq dirty'[r]
        /\ ReportFires(agents[q][i], msg) => i \in dirty'[q]
    BY <1>t, <2>1
  <2>3. CASE q = r /\ i = id
    <3>1. agents[r][id] # Nil /\ agents[r][id].connected
      BY <2>2, <2>3 DEF ReportFires
    <3> QED
      BY <1>1, <2>1, <2>2, <3>1
  <2>4. CASE q # r \/ i # id
    <3>1. agents'[r][id] = agents[r][id]
      BY <1>t, <2>1, <2>4
    <3> QED
      BY <1>1, <2>1, <2>2, <3>1
  <2> QED
    BY <2>3, <2>4
<1>3. ASSUME NEW i \in Uid, NEW msg \in bounds.laterMessages, Send(i, msg)
      PROVE  connRow'[id] # Nil
  BY <1>b, <1>c, <1>2, <1>3 DEF Send
<1>4. ASSUME NEW q \in Replica, NEW i \in Uid, NEW msg \in bounds.firstMessages,
             Connect(q, i, msg)
      PROVE  connRow'[id] # Nil
  BY <1>c, <1>2, <1>4 DEF Connect
<1>5. CASE Quiet
  <2>1. agents[r][id] # Nil /\ agents'[r][id] = agents[r][id]
    BY <1>5 DEF Quiet, KeptEntry
  <2>2. ASSUME UNCHANGED <<drained, upserts, connRow>>, dirty[r] \subseteq dirty'[r]
        PROVE  connRow'[id] # Nil
    BY <1>1, <2>1, <2>2
  <2>3. ASSUME NEW q \in Replica, Sweep(q) \/ \E i \in Uid : Close(q, i)
        PROVE  connRow'[id] # Nil
    <3>1. /\ UNCHANGED <<drained, upserts, connRow>>
          /\ \E S : dirty' = [dirty EXCEPT ![q] = @ \cup S]
      BY <2>3 DEF Close, Sweep
    <3>2. dirty \in [Replica -> SUBSET Uid]
      BY <1>t
    <3>3. dirty[r] \subseteq dirty'[r]
      BY ONLY <3>1, <3>2, r \in Replica
    <3> QED
      BY <2>2, <3>1, <3>3
  <2>4. ASSUME NEW q \in Replica, Crash(q)
        PROVE  connRow'[id] # Nil
    <3>1. q # r
      BY <1>t, <2>4 DEF Crash, NoEntries
    <3>2. /\ dirty'[r] = dirty[r] /\ drained'[r] = drained[r]
          /\ upserts'[r] = upserts[r] /\ connRow' = connRow
      BY <1>t, <2>4, <3>1 DEF Crash
    <3> QED
      BY <2>1, <3>2 DEF OwnerInv
  <2>5. ASSUME NEW q \in Replica, FlushDrain(q)
        PROVE  connRow'[id] # Nil
    <3>1. /\ dirty[r] \cup drained[r] \subseteq dirty'[r] \cup drained'[r]
          /\ UNCHANGED <<upserts, connRow>>
      BY <1>t, <2>5 DEF FlushDrain
    <3> QED
      BY <2>1, <3>1 DEF OwnerInv
  <2>6. ASSUME NEW q \in Replica, NEW i \in Uid, FlushGet(q, i)
        PROVE  connRow'[id] # Nil
    <3>1. /\ UNCHANGED <<dirty, connRow>>
          /\ drained' = [drained EXCEPT ![q] = @ \ {i}]
          /\ \/ upserts' = upserts
             \/ upserts' = [upserts EXCEPT ![q] = @ \cup {i}]
      BY <2>6 DEF FlushGet
    <3>2. upserts[r] \subseteq upserts'[r]
      BY ONLY <1>t, <3>1, r \in Replica
    <3>3. CASE q = r /\ i = id
      <4>1. upserts' = [upserts EXCEPT ![r] = @ \cup {id}]
        BY <2>1, <2>6, <3>3 DEF FlushGet
      <4>2. id \in upserts'[r]
        BY <1>t, <4>1
      <4> QED
        BY <4>2
    <3>4. CASE q # r \/ i # id
      <4>1. id \in drained[r] => id \in drained'[r]
        BY <1>t, <3>1, <3>4
      <4> QED
        BY <2>1, <3>1, <3>2, <4>1 DEF OwnerInv
    <3> QED
      BY <3>3, <3>4
  <2>7. ASSUME NEW q \in Replica, NEW i \in Uid, UpsertAgentConnection(q, i)
        PROVE  connRow'[id] # Nil
    <3>1. /\ UNCHANGED <<dirty, drained>>
          /\ upserts' = [upserts EXCEPT ![q] = @ \ {i}]
          /\ connRow' = [connRow EXCEPT ![i] = q]
      BY <2>7 DEF UpsertAgentConnection
    <3>2. CASE i = id
      BY <1>t, <3>1, <3>2, SharedStoreAssumption
    <3>3. CASE i # id
      <4>1. connRow'[id] = connRow[id] /\ (id \in upserts[r] => id \in upserts'[r])
        BY <1>t, <3>1, <3>3
      <4> QED
        BY <2>1, <3>1, <4>1 DEF OwnerInv
    <3> QED
      BY <3>2, <3>3
  <2>8. ASSUME UNCHANGED <<dirty, drained, upserts, connRow>>
        PROVE  connRow'[id] # Nil
    BY <2>2, <2>8
  <2>9. CASE UNCHANGED vars \/ Tick \/ PurgeSchedule \/ PurgeWork
    BY <2>8, <2>9 DEF vars, Tick, PurgeSchedule, PurgeWork
  <2>10. ASSUME NEW q \in Replica, NEW i \in Uid,
                \/ SaveAgent(q, i) \/ SoftDeleteAgent(q, i)
                \/ SnapshotRead(q, i) \/ SaveSession(q, i)
         PROVE  connRow'[id] # Nil
    BY <2>8, <2>10 DEF SaveAgent, SoftDeleteAgent, SnapshotRead, SaveSession
  <2> QED
    BY <1>3, <1>4, <2>3, <2>4, <2>5, <2>6, <2>7, <2>9, <2>10
    DEF Next, ReplicaNext, FlusherNext, SnapshotterNext
<1> QED
  BY <1>3, <1>4, <1>5, QuietStep

\* A replica with a live connection that it has flushed finds an owner
\* recorded, whatever other replicas flush late or lose in a crash.
THEOREM OwnersKept == Spec => []OwnershipKept
<1>1. Init => OwnerInv
  BY DEF Init, OwnerInv, NoEntries
<1>2. OwnerInv => OwnershipKept
  BY DEF OwnerInv, OwnershipKept, Latest, Flushed
<1> QED
  BY <1>1, <1>2, OwnerNext, SharedTypes, PTL DEF Spec
=============================================================================
