---------------------------- MODULE SharedStore -----------------------------
(***************************************************************************)
(* Several grex replicas on one Postgres.  An agent has no affinity to a   *)
(* replica: it reconnects anywhere, the replica it left finds out late or  *)
(* only by its Sweep, and a replica may crash between any two writes.      *)
(*                                                                         *)
(* Each replica is WriteBehind's process with its inner concurrency left   *)
(* out where replicas cannot see it: a report, a sweep and a snapshot's    *)
(* read are one step, and batches write one agent per step.  The Flusher   *)
(* keeps its steps (drain, read back, save, soft-delete, agent_connections *)
(* upsert), because other replicas write between them.  Replicas read one  *)
(* clock: skew between hosts is not modelled.                              *)
(***************************************************************************)
EXTENDS PostgresTables, FiniteSets

CONSTANTS
  Replica,             \* grex processes
  Bounds               \* what is explored; a behaviour keeps one of these:
                       \*   firstMessages  of an agent on a new connection
                       \*   laterMessages  that it sends afterwards
                       \*   crashes        may a replica crash?
                       \*   snapshots      session snapshots read, not written
                       \*   time           the last time
                       \*   softDeleteDuration  the setting

ASSUME SharedStoreAssumption ==
  /\ Nil \notin Replica
  /\ Replica \subseteq Conn
  /\ \A b \in Bounds :
       /\ b.firstMessages \subseteq Message
       /\ b.laterMessages \subseteq Message
       /\ b.crashes \in BOOLEAN
       /\ b.snapshots \in Nat
       /\ b.time \in Nat
       /\ b.softDeleteDuration \in Nat

VARIABLES
  bounds,       \* fixed by Init
  clock,
  holder,       \* the replica an agent's connection is on, Nil if none
  reported,     \* history: every state a report has put an agent in
  agents,       \* per replica: the registry
  dirty,        \* per replica: DirtyTracker.dirty
  drained,      \* per replica: ids drained and not yet read back
  saves,        \* per replica: SaveAgent tasks not yet done
  evictedIDs,   \* per replica: ids to soft-delete
  upserts,      \* per replica: connectedAgents, ids to upsert
  due,          \* per replica: session snapshots read and not yet written
  purgeBefore,  \* the queued purge job's Before, Nil if none is queued
  agentRow, sessionRow, configRow,
  connRow       \* table agent_connections: the owner

agentVars == <<holder, reported>>
flushVars == <<drained, saves, evictedIDs, upserts>>
tables    == <<agentRow, sessionRow, configRow>>
vars == <<bounds, clock, agentVars, agents, dirty, flushVars, due, purgeBefore, tables,
          connRow>>

\* An agent's reported state and the event time that brought it about.
State == [at : Nat, content : [Section -> Value \cup {Nil}]]

NoEntries == [id \in Uid |-> Nil]

TypeOK ==
  /\ bounds \in Bounds
  /\ clock \in Nat
  /\ holder \in [Uid -> Replica \cup {Nil}]
  /\ reported \in [Uid -> SUBSET State]
  /\ agents \in [Replica -> [Uid -> Entry \cup {Nil}]]
  /\ dirty \in [Replica -> SUBSET Uid]
  /\ drained \in [Replica -> SUBSET Uid]
  /\ saves \in [Replica -> [Uid -> Entry \cup {Nil}]]
  /\ evictedIDs \in [Replica -> SUBSET Uid]
  /\ upserts \in [Replica -> SUBSET Uid]
  /\ due \in [Replica -> [Uid -> Entry \cup {Nil}]]
  /\ purgeBefore \in Int \cup {Nil}
  /\ agentRow \in [Uid -> AgentRow \cup {Nil}]
  /\ sessionRow \in [Uid -> SessionRow \cup {Nil}]
  /\ configRow \in [Uid -> ConfigRow \cup {Nil}]
  /\ connRow \in [Uid -> Replica \cup {Nil}]

Init ==
  /\ bounds \in Bounds
  /\ clock = 0
  /\ holder = [id \in Uid |-> Nil]
  /\ reported = [id \in Uid |-> {}]
  /\ agents = [r \in Replica |-> NoEntries]
  /\ dirty = [r \in Replica |-> {}]
  /\ drained = [r \in Replica |-> {}]
  /\ saves = [r \in Replica |-> NoEntries]
  /\ evictedIDs = [r \in Replica |-> {}]
  /\ upserts = [r \in Replica |-> {}]
  /\ due = [r \in Replica |-> NoEntries]
  /\ purgeBefore = Nil
  /\ agentRow = NoEntries
  /\ sessionRow = NoEntries
  /\ configRow = NoEntries
  /\ connRow = NoEntries

-----------------------------------------------------------------------------
(* Agents and registries.                                                  *)

Tick ==
  /\ clock < bounds.time
  /\ clock' = clock + 1
  /\ UNCHANGED <<agentVars, agents, dirty, flushVars, due, purgeBefore, tables,
                 connRow>>

\* Registry.Report on replica r, whose id stands for the connection metadata.
Report(r, id, msg) ==
  /\ clock < bounds.time
  /\ clock' = clock + 1
  /\ reported' = [reported EXCEPT ![id] = @ \cup {
       [at      |-> clock + 1,
        content |-> Reported(agents[r][id], msg, r, clock + 1).fields]}]
  /\ agents' = [agents EXCEPT ![r][id] = Reported(@, msg, r, clock + 1)]
  /\ dirty' = IF ReportFires(agents[r][id], msg)
                THEN [dirty EXCEPT ![r] = @ \cup {id}] ELSE dirty
  /\ UNCHANGED <<flushVars, due, purgeBefore, tables, connRow>>

\* The agent (re)connects, to any replica, and sends its first message.
Connect(r, id, msg) ==
  /\ holder' = [holder EXCEPT ![id] = r]
  /\ Report(r, id, msg)

Send(id, msg) ==
  /\ holder[id] # Nil
  /\ Report(holder[id], id, msg)
  /\ UNCHANGED holder

\* onConnectionClose: of the agent's connection, or of one it has left.  An
\* agent that dies without a close, or is cut off, just sends no more.
Close(r, id) ==
  /\ SetConnectedFires(agents[r][id], FALSE)
  /\ holder' = [holder EXCEPT ![id] = IF @ = r THEN Nil ELSE @]
  /\ agents' = [agents EXCEPT ![r][id] = ConnectionSet(@, FALSE)]
  /\ dirty' = [dirty EXCEPT ![r] = @ \cup {id}]
  /\ UNCHANGED <<clock, reported, flushVars, due, purgeBefore, tables, connRow>>

\* Registry.Sweep; a sweep that changes nothing is a stuttering step.
Sweep(r) ==
  LET fired == {id \in Uid : SweepFires(agents[r][id], clock)} IN
  /\ fired # {}
  /\ agents' = [agents EXCEPT
                  ![r] = [id \in Uid |-> Swept(agents[r][id], clock)]]
  /\ dirty' = [dirty EXCEPT ![r] = @ \cup fired]
  /\ UNCHANGED <<clock, agentVars, flushVars, due, purgeBefore, tables, connRow>>

\* The process dies and starts again empty.  Its agents' connections break.
Crash(r) ==
  /\ bounds.crashes
  /\ holder' = [id \in Uid |-> IF holder[id] = r THEN Nil ELSE holder[id]]
  /\ agents' = [agents EXCEPT ![r] = NoEntries]
  /\ dirty' = [dirty EXCEPT ![r] = {}]
  /\ drained' = [drained EXCEPT ![r] = {}]
  /\ saves' = [saves EXCEPT ![r] = NoEntries]
  /\ evictedIDs' = [evictedIDs EXCEPT ![r] = {}]
  /\ upserts' = [upserts EXCEPT ![r] = {}]
  /\ due' = [due EXCEPT ![r] = NoEntries]
  /\ UNCHANGED <<clock, reported, purgeBefore, tables, connRow>>

-----------------------------------------------------------------------------
(* The Flusher of replica r: drain, read back, save, soft-delete, upsert.  *)

Saving(r) == {id \in Uid : saves[r][id] # Nil}

FlushDrain(r) ==
  /\ drained[r] = {} /\ Saving(r) = {}
  /\ evictedIDs[r] = {} /\ upserts[r] = {}
  /\ dirty[r] # {}
  /\ drained' = [drained EXCEPT ![r] = dirty[r]]
  /\ dirty' = [dirty EXCEPT ![r] = {}]
  /\ UNCHANGED <<clock, agentVars, agents, saves, evictedIDs, upserts, due,
                 purgeBefore, tables, connRow>>

\* Mutant of FlushGet: ownership is given up when the agent is disconnected.
FlushGetReleasing(r, id) ==
  /\ id \in drained[r]
  /\ drained' = [drained EXCEPT ![r] = @ \ {id}]
  /\ IF agents[r][id] = Nil
       THEN /\ evictedIDs' = [evictedIDs EXCEPT ![r] = @ \cup {id}]
            /\ connRow' = [connRow EXCEPT ![id] = Nil]
            /\ UNCHANGED <<saves, upserts>>
       ELSE /\ saves' = [saves EXCEPT ![r][id] = agents[r][id]]
            /\ upserts' = IF agents[r][id].connected
                            THEN [upserts EXCEPT ![r] = @ \cup {id}]
                            ELSE upserts
            /\ connRow' = IF agents[r][id].connected THEN connRow
                          ELSE [connRow EXCEPT ![id] = Nil]
            /\ UNCHANGED evictedIDs
  /\ UNCHANGED <<clock, agentVars, agents, dirty, due, purgeBefore, tables>>

FlushGet(r, id) ==
  /\ id \in drained[r]
  /\ drained' = [drained EXCEPT ![r] = @ \ {id}]
  /\ IF agents[r][id] = Nil
       THEN /\ evictedIDs' = [evictedIDs EXCEPT ![r] = @ \cup {id}]
            /\ UNCHANGED <<saves, upserts>>
       ELSE /\ saves' = [saves EXCEPT ![r][id] = agents[r][id]]
            /\ upserts' = IF agents[r][id].connected
                            THEN [upserts EXCEPT ![r] = @ \cup {id}]
                            ELSE upserts
            /\ UNCHANGED evictedIDs
  /\ UNCHANGED <<clock, agentVars, agents, dirty, due, purgeBefore, tables,
                 connRow>>

SaveAgent(r, id) ==
  /\ drained[r] = {}
  /\ saves[r][id] # Nil
  /\ saves' = [saves EXCEPT ![r][id] = Nil]
  /\ agentRow' = [agentRow EXCEPT ![id] = UpsertAgent(@, saves[r][id])]
  /\ sessionRow' = [sessionRow EXCEPT ![id] = UpsertSession(@, saves[r][id])]
  /\ configRow' = [configRow EXCEPT
                     ![id] = ReplaceConfig(agentRow[id], @, saves[r][id])]
  /\ UNCHANGED <<clock, agentVars, agents, dirty, drained, evictedIDs, upserts,
                 due, purgeBefore, connRow>>

SoftDeleteAgent(r, id) ==
  /\ drained[r] = {} /\ Saving(r) = {}
  /\ id \in evictedIDs[r]
  /\ evictedIDs' = [evictedIDs EXCEPT ![r] = @ \ {id}]
  /\ agentRow' = [agentRow EXCEPT ![id] = SoftDelete(@, clock)]
  /\ UNCHANGED <<clock, agentVars, agents, dirty, drained, saves, upserts, due,
                 purgeBefore, sessionRow, configRow, connRow>>

\* The latest upsert owns the row.  Its two times are left out: connected_at
\* moves with the owner, last_seen with every upsert, and nothing reads them.
UpsertAgentConnection(r, id) ==
  /\ drained[r] = {} /\ Saving(r) = {} /\ evictedIDs[r] = {}
  /\ id \in upserts[r]
  /\ upserts' = [upserts EXCEPT ![r] = @ \ {id}]
  /\ connRow' = [connRow EXCEPT ![id] = r]
  /\ UNCHANGED <<clock, agentVars, agents, dirty, drained, saves, evictedIDs,
                 due, purgeBefore, tables>>

-----------------------------------------------------------------------------
(* The SessionSnapshotter of replica r, for an agent it finds due.         *)

Snapshots == {p \in Replica \X Uid : due[p[1]][p[2]] # Nil}

SnapshotRead(r, id) ==
  /\ Cardinality(Snapshots) < bounds.snapshots
  /\ due[r][id] = Nil
  /\ agents[r][id] # Nil
  /\ due' = [due EXCEPT ![r][id] = agents[r][id]]
  /\ UNCHANGED <<clock, agentVars, agents, dirty, flushVars, purgeBefore, tables,
                 connRow>>

\* The foreign key refuses a session row of an agent without an agents row.
SaveSession(r, id) ==
  /\ due[r][id] # Nil
  /\ due' = [due EXCEPT ![r][id] = Nil]
  /\ sessionRow' = IF agentRow[id] = Nil THEN sessionRow
                   ELSE [sessionRow EXCEPT ![id] = UpsertSession(@, due[r][id])]
  /\ UNCHANGED <<clock, agentVars, agents, dirty, flushVars, purgeBefore,
                 agentRow, configRow, connRow>>

-----------------------------------------------------------------------------
(* The purge job: the cut-off is fixed when the job is queued.  A cut-off  *)
(* before time 0 would purge nothing.                                      *)

PurgeSchedule ==
  /\ purgeBefore = Nil
  /\ clock > bounds.softDeleteDuration
  /\ purgeBefore' = clock - bounds.softDeleteDuration
  /\ UNCHANGED <<clock, agentVars, agents, dirty, flushVars, due, tables, connRow>>

\* Mutant of PurgeWork: agent_session does not cascade.
PurgeWorkNoCascade ==
  LET gone == {id \in Uid : Purged(agentRow[id], purgeBefore)}
      without(rows) == [id \in Uid |-> IF id \in gone THEN Nil ELSE rows[id]]
  IN
  /\ purgeBefore # Nil
  /\ purgeBefore' = Nil
  /\ agentRow' = without(agentRow)
  /\ configRow' = without(configRow)
  /\ UNCHANGED <<clock, agentVars, agents, dirty, flushVars, due, sessionRow,
                 connRow>>

PurgeWork ==
  LET gone == {id \in Uid : Purged(agentRow[id], purgeBefore)}
      without(rows) == [id \in Uid |-> IF id \in gone THEN Nil ELSE rows[id]]
  IN
  /\ purgeBefore # Nil
  /\ purgeBefore' = Nil
  /\ agentRow' = without(agentRow)
  /\ sessionRow' = without(sessionRow)
  /\ configRow' = without(configRow)
  /\ UNCHANGED <<clock, agentVars, agents, dirty, flushVars, due, connRow>>

-----------------------------------------------------------------------------
FlusherNext(r) ==
  \/ FlushDrain(r)
  \/ \E id \in Uid : \/ FlushGet(r, id)
                     \/ SaveAgent(r, id)
                     \/ SoftDeleteAgent(r, id)
                     \/ UpsertAgentConnection(r, id)

ReplicaNext(r) ==
  \/ \E id \in Uid, msg \in bounds.firstMessages : Connect(r, id, msg)
  \/ \E id \in Uid : Close(r, id)
  \/ Sweep(r)
  \/ Crash(r)
  \/ FlusherNext(r)

SnapshotterNext(r) ==
  \E id \in Uid : SnapshotRead(r, id) \/ SaveSession(r, id)

Next ==
  /\ UNCHANGED bounds
  /\ \/ Tick
     \/ \E id \in Uid, msg \in bounds.laterMessages : Send(id, msg)
     \/ \E r \in Replica : ReplicaNext(r) \/ SnapshotterNext(r)
     \/ PurgeSchedule
     \/ PurgeWork

Spec == Init /\ [][Next]_vars

-----------------------------------------------------------------------------
(* The read path.                                                          *)

\* Mutant of StaleConnected: the stored flag is trusted, however old.
StaleConnectedNever(row, now) ==
  FALSE

\* api.StaleConnected on a row of another replica.
StaleConnected(row, now) ==
  row.connected /\ now - row.updatedAt > DisconnectThreshold

\* getAgent and MergeAgents, per agent: the local registry wins, a
\* soft-deleted row is no answer, a stale session is not connected.
Answer(r, id) ==
  IF agents[r][id] # Nil THEN [connected |-> agents[r][id].connected]
  ELSE IF agentRow[id] = Nil THEN Nil
  ELSE IF agentRow[id].evictedAt # Nil THEN Nil
  ELSE [connected |-> /\ sessionRow[id].connected
                      /\ ~StaleConnected(sessionRow[id], clock)]

-----------------------------------------------------------------------------
(* Properties.                                                             *)

\* The stored files and the stored agents row come from one SaveAgent, of
\* whichever replica, also across purges.
ConfigMatchesAgents ==
  \A id \in Uid : configRow[id] # Nil =>
    agentRow[id] # Nil /\ configRow[id].updatedAt = agentRow[id].updatedAt

\* The agents and the session row of an agent exist together: SaveAgent
\* inserts both, the purge cascades, the foreign key refuses the rest.
SessionIffAgent ==
  \A id \in Uid : (sessionRow[id] # Nil) <=> (agentRow[id] # Nil)

\* The store as an event-time register (SaveAgent's guard, transaction and
\* gated delete-and-insert; PurgeWorker.Work).
Stored ==
  [id \in Uid |->
     IF agentRow[id] = Nil THEN Nil
     ELSE [at      |-> agentRow[id].updatedAt,
           content |-> [s \in Section |->
             IF s # EffectiveConfig THEN agentRow[id].fields[s]
             ELSE IF configRow[id] = Nil THEN Nil ELSE configRow[id].files]]]

Register == INSTANCE EventTimeRegister
  WITH Content <- [Section -> Value \cup {Nil}],
       Time    <- UNION {0 .. b.time : b \in Bounds},
       stored  <- Stored

\* PostgresStore: writes of several replicas "converge correctly regardless of
\* which one reaches Postgres first".  Replicas, crashes and purges together
\* behave as one event-time register.
StoreIsRegister == Register!Spec

\* The agent's latest message went to replica r, which still knows it.
Latest(r, id) ==
  /\ agents[r][id] # Nil
  /\ \A v \in reported[id] : v.at <= agents[r][id].lastSeen

\* Replica r has nothing left to write about the agent.
Flushed(r, id) ==
  id \notin dirty[r] \cup drained[r] /\ saves[r][id] = Nil

\* Every new connection starts with a message that marks the agent dirty, as
\* opamp-go's client does.  A gateway that reconnects may relay heartbeats only.
Announced ==
  \A msg \in bounds.firstMessages : \E s \in EventSection : msg[s] # Nil

\* Registry.SetConnected's reason to leave LastSeen alone: a disconnect that
\* another replica detects late never undoes the stored connect of the
\* replica the agent has moved to.  Unless rows are purged: the purge may take
\* the row of an agent that has returned, see SiblingAnswers.  And unless the
\* agent comes back to a replica that never missed it, and only beats there:
\* nothing is dirty, and the row waits for the next session snapshot.
ReconnectSurvives ==
  Announced /\ bounds.softDeleteDuration >= bounds.time =>
  \A r \in Replica, id \in Uid :
    /\ Latest(r, id) /\ Flushed(r, id)
    /\ agents[r][id].connected
    => sessionRow[id] # Nil /\ sessionRow[id].connected

\* StaleConnected's purpose: a replica that only has the row never shows an
\* agent as connected that no replica has heard from within the threshold,
\* even if the owner crashed and its disconnect was never written.
CrashedOwnerFades ==
  \A r \in Replica, id \in Uid :
    /\ agents[r][id] = Nil
    /\ Answer(r, id) # Nil
    /\ Answer(r, id).connected
    => \E v \in reported[id] : clock - v.at <= DisconnectThreshold

\* persistence.md: an agent live on a sibling replica and already flushed is
\* "answerable instead of a false 404".
SiblingAnswers ==
  \A r, q \in Replica, id \in Uid :
    /\ Latest(r, id) /\ Flushed(r, id)
    /\ agents[r][id].connected
    => Answer(q, id) # Nil

\* flushOnce's reason never to delete from agent_connections: whatever a
\* replica the agent has left flushes late, the replica that holds a live
\* connection and has flushed it finds an owner recorded.  Who that is, is
\* another matter: the last upsert wins, also a late one.
OwnershipKept ==
  \A r \in Replica, id \in Uid :
    /\ Latest(r, id) /\ Flushed(r, id) /\ id \notin upserts[r]
    /\ agents[r][id].connected
    => connRow[id] # Nil
=============================================================================
