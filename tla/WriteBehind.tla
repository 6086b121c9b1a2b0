---------------------------- MODULE WriteBehind -----------------------------
(***************************************************************************)
(* One grex process: OpAMP callbacks and the sweeper change the sharded    *)
(* registry and mark agents dirty; the Flusher drains the dirty set, reads *)
(* each agent back and saves it; the SessionSnapshotter independently      *)
(* re-writes session rows.  All four run concurrently.                     *)
(*                                                                         *)
(* What is one step.  A critical section under a shard's lock (the body of *)
(* Report, SetConnected, one shard of Sweep, Get, one shard of List) is    *)
(* one step: marking dirty and assigning the fields inside it cannot be    *)
(* told apart, since a Flusher that drains between the two then blocks on  *)
(* the same lock in Get.  Report's clock reading happens BEFORE its lock,  *)
(* and every drain, read-back and write is a step of its own.              *)
(*                                                                         *)
(* agent_connections, which shares no row with these tables, is modelled   *)
(* with the replicas that compete for it, in SharedStore.                  *)
(***************************************************************************)
EXTENDS PostgresTables, FiniteSets

CONSTANTS
  Messages,          \* the AgentToServer messages agents send
  ShardCount,        \* number of registry shards
  ShardOf,           \* shardFor: instance_uid to shard index
  SnapshotInterval,  \* the SessionSnapshotter's tick
  BatchSize,         \* defaultBatchSize
  Overlap,           \* may two reports of one agent be in Report at once?
  Faults,            \* TRUE: a write may fail or time out
  MaxTime            \* bound on the clock

ASSUME WriteBehindAssumption ==
  /\ Messages \subseteq Message
  /\ ShardCount \in Nat \ {0}
  /\ ShardOf \in [Uid -> 0 .. ShardCount - 1]
  /\ SnapshotInterval \in Nat
  /\ BatchSize \in Nat \ {0}
  /\ Overlap \in BOOLEAN
  /\ Faults \in BOOLEAN
  /\ MaxTime \in Nat

VARIABLES
  clock,       \* the process's wall clock
  agents,      \* the registry: entry per instance_uid, Nil if not registered
  reports,     \* Report calls that have read the clock, not yet the lock
  dirty,       \* DirtyTracker.dirty
  sweepNow,    \* the tick time of the latest Sweep
  sweepNext,   \* the shard it locks next; ShardCount when it is done
  drained,     \* flushOnce: ids drained and not yet read back
  saves,       \* flushOnce: SaveAgent tasks not yet done, the entry per id
  evictedIDs,  \* flushOnce: ids to soft-delete
  listNext,    \* snapshotOnce: the shard List locks next
  listed,      \* snapshotOnce: what List has returned so far
  due,         \* snapshotOnce: session writes not yet sent
  written,     \* SessionSnapshotter.written: lastSeen per id
  agentRow,    \* table agents
  sessionRow,  \* table agent_session
  configRow    \* table agent_effective_config

registryVars == <<agents, reports, dirty>>
sweepVars    == <<sweepNow, sweepNext>>
flushVars    == <<drained, saves, evictedIDs>>
snapVars     == <<listNext, listed, due, written>>
tables       == <<agentRow, sessionRow, configRow>>
vars == <<clock, registryVars, sweepVars, flushVars, snapVars, tables>>

NoEntries == [id \in Uid |-> Nil]
NoRows    == [id \in Uid |-> Nil]

Pending == [id : Uid, msg : Messages, meta : Conn, at : Nat]

TypeOK ==
  /\ clock \in Nat
  /\ agents \in [Uid -> Entry \cup {Nil}]
  /\ reports \subseteq Pending
  /\ dirty \subseteq Uid
  /\ sweepNow \in Nat
  /\ sweepNext \in 0 .. ShardCount
  /\ drained \subseteq Uid
  /\ saves \in [Uid -> Entry \cup {Nil}]
  /\ evictedIDs \subseteq Uid
  /\ listNext \in 0 .. ShardCount
  /\ listed \in [Uid -> Entry \cup {Nil}]
  /\ due \in [Uid -> Entry \cup {Nil}]
  /\ written \in [Uid -> Nat \cup {Nil}]
  /\ agentRow \in [Uid -> AgentRow \cup {Nil}]
  /\ sessionRow \in [Uid -> SessionRow \cup {Nil}]
  /\ configRow \in [Uid -> ConfigRow \cup {Nil}]

Init ==
  /\ clock = 0
  /\ agents = NoEntries
  /\ reports = {}
  /\ dirty = {}
  /\ sweepNow = 0
  /\ sweepNext = ShardCount
  /\ drained = {}
  /\ saves = NoEntries
  /\ evictedIDs = {}
  /\ listNext = 0
  /\ listed = NoEntries
  /\ due = NoEntries
  /\ written = [id \in Uid |-> Nil]
  /\ agentRow = NoRows
  /\ sessionRow = NoRows
  /\ configRow = NoRows

-----------------------------------------------------------------------------
(* The registry.                                                           *)

Tick ==
  /\ clock < MaxTime
  /\ clock' = clock + 1
  /\ UNCHANGED <<registryVars, sweepVars, flushVars, snapVars, tables>>

\* Report up to `now := r.now()`.  Readings are nanoseconds apart, so no two
\* are equal: a reading takes a clock value nothing else has.
ReportCall(id, msg, meta) ==
  /\ clock < MaxTime
  /\ Overlap \/ \A r \in reports : r.id # id
  /\ clock' = clock + 1
  /\ reports' = reports \cup
       {[id |-> id, msg |-> msg, meta |-> meta, at |-> clock + 1]}
  /\ UNCHANGED <<agents, dirty, sweepVars, flushVars, snapVars, tables>>

\* Report under the shard lock.
ReportApply(r) ==
  /\ reports' = reports \ {r}
  /\ agents' = [agents EXCEPT ![r.id] = Reported(@, r.msg, r.meta, r.at)]
  /\ dirty' = IF ReportFires(agents[r.id], r.msg)
                THEN dirty \cup {r.id} ELSE dirty
  /\ UNCHANGED <<clock, sweepVars, flushVars, snapVars, tables>>

\* Mutant of Disconnect: the close stamps LastSeen.
DisconnectStamping(id) ==
  /\ SetConnectedFires(agents[id], FALSE)
  /\ agents' = [agents EXCEPT ![id].connected = FALSE, ![id].lastSeen = clock]
  /\ dirty' = dirty \cup {id}
  /\ UNCHANGED <<clock, reports, sweepVars, flushVars, snapVars, tables>>

\* SetConnected(id, false), which onConnectionClose calls.
Disconnect(id) ==
  /\ SetConnectedFires(agents[id], FALSE)
  /\ agents' = [agents EXCEPT ![id] = ConnectionSet(@, FALSE)]
  /\ dirty' = dirty \cup {id}
  /\ UNCHANGED <<clock, reports, sweepVars, flushVars, snapVars, tables>>

\* Registry.Run receives a tick.  Ticks are HeartbeatInterval apart; the
\* shards are swept against the tick's time however late they are reached.
SweepTick ==
  /\ sweepNext = ShardCount
  /\ clock >= sweepNow + HeartbeatInterval
  /\ sweepNow' = clock
  /\ sweepNext' = 0
  /\ UNCHANGED <<clock, registryVars, flushVars, snapVars, tables>>

InShard(n) == {id \in Uid : ShardOf[id] = n}

\* Mutant of Sweep: the shard loop runs one past the end.
SweepPastEnd ==
  /\ sweepNext <= ShardCount
  /\ agents' = [id \in Uid |-> IF id \in InShard(sweepNext)
                                 THEN Swept(agents[id], sweepNow)
                                 ELSE agents[id]]
  /\ dirty' = dirty \cup {id \in InShard(sweepNext) :
                            SweepFires(agents[id], sweepNow)}
  /\ sweepNext' = sweepNext + 1
  /\ UNCHANGED <<clock, reports, sweepNow, flushVars, snapVars, tables>>

Sweep ==
  /\ sweepNext < ShardCount
  /\ agents' = [id \in Uid |-> IF id \in InShard(sweepNext)
                                 THEN Swept(agents[id], sweepNow)
                                 ELSE agents[id]]
  /\ dirty' = dirty \cup {id \in InShard(sweepNext) :
                            SweepFires(agents[id], sweepNow)}
  /\ sweepNext' = sweepNext + 1
  /\ UNCHANGED <<clock, reports, sweepNow, flushVars, snapVars, tables>>

-----------------------------------------------------------------------------
(* Flusher.flushOnce: drain, read back, save, soft-delete, in that order.  *)

Outcome == IF Faults THEN {"ok", "failed"} ELSE {"ok"}

Saving == {id \in Uid : saves[id] # Nil}

FlushDrain ==
  /\ drained = {} /\ Saving = {} /\ evictedIDs = {}
  /\ dirty # {}
  /\ drained' = dirty
  /\ dirty' = {}
  /\ UNCHANGED <<clock, agents, reports, sweepVars, saves, evictedIDs,
                 snapVars, tables>>

\* Mutant of FlushGet: a disconnected agent is not saved.
FlushGetConnected(id) ==
  /\ id \in drained
  /\ drained' = drained \ {id}
  /\ IF agents[id] = Nil
       THEN evictedIDs' = evictedIDs \cup {id} /\ UNCHANGED saves
       ELSE /\ saves' = [saves EXCEPT
                 ![id] = IF agents[id].connected THEN agents[id] ELSE Nil]
            /\ UNCHANGED evictedIDs
  /\ UNCHANGED <<clock, registryVars, sweepVars, snapVars, tables>>

\* registry.Get(id) in the loop over the drained ids.
FlushGet(id) ==
  /\ id \in drained
  /\ drained' = drained \ {id}
  /\ IF agents[id] = Nil
       THEN evictedIDs' = evictedIDs \cup {id} /\ UNCHANGED saves
       ELSE saves' = [saves EXCEPT ![id] = agents[id]] /\ UNCHANGED evictedIDs
  /\ UNCHANGED <<clock, registryVars, sweepVars, snapVars, tables>>

\* One SaveAgent transaction.  A failure is logged and not retried.
SaveAgent(id, outcome) ==
  /\ drained = {}
  /\ saves[id] # Nil
  /\ saves' = [saves EXCEPT ![id] = Nil]
  /\ IF outcome = "ok"
       THEN /\ agentRow' = [agentRow EXCEPT ![id] = UpsertAgent(@, saves[id])]
            /\ sessionRow' =
                 [sessionRow EXCEPT ![id] = UpsertSession(@, saves[id])]
            /\ configRow' = [configRow EXCEPT
                 ![id] = ReplaceConfig(agentRow[id], @, saves[id])]
       ELSE UNCHANGED tables
  /\ UNCHANGED <<clock, registryVars, sweepVars, drained, evictedIDs, snapVars>>

\* The chunks of at most BatchSize that chunk makes, in any order.
IsChunk(C, ids) ==
  /\ C \subseteq ids /\ C # {}
  /\ Cardinality(C) <= BatchSize
  /\ C = ids \/ Cardinality(C) = BatchSize

\* One batch of soft deletes.
SoftDeleteBatch(C, outcome) ==
  /\ drained = {} /\ Saving = {}
  /\ IsChunk(C, evictedIDs)
  /\ evictedIDs' = evictedIDs \ C
  /\ agentRow' = IF outcome = "ok"
                   THEN [id \in Uid |-> IF id \in C
                                          THEN SoftDelete(agentRow[id], clock)
                                          ELSE agentRow[id]]
                   ELSE agentRow
  /\ UNCHANGED <<clock, registryVars, sweepVars, drained, saves, snapVars,
                 sessionRow, configRow>>

-----------------------------------------------------------------------------
(* SessionSnapshotter.snapshotOnce: list, decide what is due, send.        *)

keepaliveInterval(disconnectAfter, tick) ==
  LET twoThirds == (disconnectAfter * 2) \div 3
      limit     == disconnectAfter - tick
      keepalive == IF twoThirds > limit THEN limit ELSE twoThirds
  IN  IF keepalive < 0 THEN 0 ELSE keepalive

Keepalive == keepaliveInterval(DisconnectThreshold, SnapshotInterval)

Sending == {id \in Uid : due[id] # Nil}

\* registry.List, one shard at a time.
SnapshotList ==
  /\ Sending = {}
  /\ listNext < ShardCount
  /\ listed' = [id \in Uid |-> IF id \in InShard(listNext)
                                 THEN agents[id] ELSE listed[id]]
  /\ listNext' = listNext + 1
  /\ UNCHANGED <<clock, registryVars, sweepVars, flushVars, due, written,
                 tables>>

\* The rest of due: agents no longer listed are dropped from written.
SnapshotDue ==
  /\ listNext = ShardCount
  /\ due' = [id \in Uid |->
               IF listed[id] = Nil THEN Nil
               ELSE IF written[id] = Nil THEN listed[id]
               ELSE IF clock - written[id] < Keepalive THEN Nil
               ELSE listed[id]]
  /\ written' = [id \in Uid |-> IF listed[id] = Nil THEN Nil ELSE written[id]]
  /\ listNext' = 0
  /\ listed' = NoEntries
  /\ UNCHANGED <<clock, registryVars, sweepVars, flushVars, tables>>

\* Mutant of SessionBatch: no foreign key.
SessionBatchNoForeignKey(C, outcome, recorded) ==
  /\ IsChunk(C, Sending)
  /\ recorded = C
  /\ due' = [id \in Uid |-> IF id \in C THEN Nil ELSE due[id]]
  /\ sessionRow' = [id \in Uid |-> IF id \in C
                                     THEN UpsertSession(sessionRow[id], due[id])
                                     ELSE sessionRow[id]]
  /\ written' = [id \in Uid |-> IF id \in recorded
                                  THEN due[id].lastSeen ELSE written[id]]
  /\ UNCHANGED <<clock, registryVars, sweepVars, flushVars, listNext, listed,
                 agentRow, configRow>>

\* One batch of session upserts.  SendBatch runs the statements of a batch in
\* one implicit transaction: a statement whose agent has no agents row breaks
\* the foreign key and rolls the batch back.  The results of the statements
\* ahead of it are read as successes, and recordWritten is called for them;
\* ids come from a map, so any of the others may have been ahead.  A batch
\* that is cut off reports any number of successes and rolls back.
SessionBatch(C, outcome, recorded) ==
  LET orphans == {id \in C : agentRow[id] = Nil}
      commits == outcome = "ok" /\ orphans = {}
  IN
  /\ IsChunk(C, Sending)
  /\ recorded \subseteq C \ orphans
  /\ commits => recorded = C
  /\ due' = [id \in Uid |-> IF id \in C THEN Nil ELSE due[id]]
  /\ sessionRow' = IF commits
                     THEN [id \in Uid |-> IF id \in C
                             THEN UpsertSession(sessionRow[id], due[id])
                             ELSE sessionRow[id]]
                     ELSE sessionRow
  /\ written' = [id \in Uid |-> IF id \in recorded
                                  THEN due[id].lastSeen ELSE written[id]]
  /\ UNCHANGED <<clock, registryVars, sweepVars, flushVars, listNext, listed,
                 agentRow, configRow>>

-----------------------------------------------------------------------------
RegistryNext ==
  \/ Tick
  \/ \E id \in Uid, msg \in Messages, meta \in Conn : ReportCall(id, msg, meta)
  \/ \E r \in reports : ReportApply(r)
  \/ \E id \in Uid : Disconnect(id)
  \/ SweepTick
  \/ Sweep

FlusherNext ==
  \/ FlushDrain
  \/ \E id \in Uid : FlushGet(id)
  \/ \E id \in Uid, outcome \in Outcome : SaveAgent(id, outcome)
  \/ \E C \in SUBSET Uid, outcome \in Outcome : SoftDeleteBatch(C, outcome)

SnapshotterNext ==
  \/ SnapshotList
  \/ SnapshotDue
  \/ \E C \in SUBSET Uid, recorded \in SUBSET Uid, outcome \in Outcome :
       SessionBatch(C, outcome, recorded)

Next == RegistryNext \/ FlusherNext \/ SnapshotterNext

Spec == Init /\ [][Next]_vars

\* The behaviours in which the snapshotter never ticks.  It writes only
\* sessionRow and variables of its own, which no other action reads, so what
\* the registry, agentRow and configRow do in Spec they do in FlushSpec.
FlushSpec == Init /\ [][RegistryNext \/ FlusherNext]_vars

\* The Flusher is a loop over a ticker: it always takes its next step.  An
\* agent that reports, a clock that advances and the snapshotter are not
\* assumed to do anything.
FairSpec ==
  /\ FlushSpec
  /\ WF_vars(FlushDrain)
  /\ \A id \in Uid : WF_vars(FlushGet(id))
  /\ \A id \in Uid : WF_vars(\E outcome \in Outcome : SaveAgent(id, outcome))
  /\ WF_vars(\E C \in SUBSET Uid, outcome \in Outcome :
               SoftDeleteBatch(C, outcome))

-----------------------------------------------------------------------------
(* Properties.                                                             *)

\* What a report says that is announced by an event, and what is stored of it.
Content(entry) == [s \in EventSection |-> entry.fields[s]]

StoredContent(id) ==
  [s \in EventSection |->
     IF s # EffectiveConfig THEN agentRow[id].fields[s]
     ELSE IF configRow[id] = Nil THEN Nil ELSE configRow[id].files]

\* No flush has been asked for or is about to read the agent.
Settled(id) == id \notin dirty \cup drained

\* Nothing is lost between an event and its flush (Report, Sweep, Drain, Get,
\* SaveAgent): once an agent is neither dirty nor waiting to be read back,
\* what it last reported is in the save in flight or in the tables; if it was
\* evicted, its row carries an eviction time or is about to.
NoLostUpdate ==
  \A id \in Uid : Settled(id) =>
    IF agents[id] = Nil
      THEN \/ agentRow[id] = Nil
           \/ agentRow[id].evictedAt # Nil
           \/ id \in evictedIDs
    ELSE IF saves[id] # Nil
      THEN Content(saves[id]) = Content(agents[id])
      ELSE agentRow[id] # Nil /\ StoredContent(id) = Content(agents[id])

\* The stored configuration files and the stored agents row come from the same
\* SaveAgent: delete-and-insert never mixes the files of one report with the
\* columns of another.
ConfigMatchesAgents ==
  \A id \in Uid : configRow[id] # Nil =>
    agentRow[id] # Nil /\ configRow[id].updatedAt = agentRow[id].updatedAt

\* SaveAgent writes the agents and the session row together and the session
\* batch only writes under the foreign key, so scanAgent's join never meets an
\* agent that has one row and not the other.
SessionIffAgent ==
  \A id \in Uid : (sessionRow[id] # Nil) <=> (agentRow[id] # Nil)

\* recordWritten "notes what landed in agent_session.updated_at": the row is
\* at least as fresh as the snapshotter believes.
RecordedIsStored ==
  \A id \in Uid : written[id] # Nil =>
    sessionRow[id] # Nil /\ sessionRow[id].updatedAt >= written[id]

\* persistence.md: the connection columns "don't wait for a keepalive".  A
\* disconnect whose flush is over is in agent_session, and no session write
\* that predates it is in flight or can undo it.
DisconnectReachesStore ==
  \A id \in Uid :
    /\ Settled(id) /\ saves[id] = Nil /\ due[id] = Nil
    /\ agents[id] # Nil
    /\ ~agents[id].connected
    => sessionRow[id] # Nil /\ ~sessionRow[id].connected

\* A write may never move a row back: an agents row stays, keeps its
\* first_seen and its first evicted_at, and changes its columns only together
\* with a later updated_at; a session row never takes an older updated_at.
RowsNeverRegress ==
  \A id \in Uid :
    /\ agentRow[id] # Nil =>
         /\ agentRow'[id] # Nil
         /\ agentRow'[id].firstSeen = agentRow[id].firstSeen
         /\ agentRow[id].evictedAt # Nil =>
              agentRow'[id].evictedAt = agentRow[id].evictedAt
         /\ \/ agentRow'[id].updatedAt > agentRow[id].updatedAt
            \/ /\ agentRow'[id].updatedAt = agentRow[id].updatedAt
               /\ agentRow'[id].fields = agentRow[id].fields
               /\ configRow'[id] = configRow[id]
    /\ sessionRow[id] # Nil =>
         /\ sessionRow'[id] # Nil
         /\ sessionRow'[id].updatedAt >= sessionRow[id].updatedAt

\* RowsNeverRegress of every step, whatever fails or overlaps: what
\* PostgresStore's guarded upserts promise of one process's writes.
StoredNeverRegresses == [][RowsNeverRegress]_vars

\* Every reported content is stored unless a later report replaces it or the
\* agent is evicted first: the flush loop cannot overlook an agent for ever.
ReportsReachStore ==
  \A id \in Uid, v \in Value :
    (agents[id] # Nil /\ agents[id].fields[Description] = v)
      ~> \/ agents[id] = Nil
         \/ agents[id].fields[Description] # v
         \/ agentRow[id] # Nil /\ agentRow[id].fields[Description] = v

-----------------------------------------------------------------------------
(* The strengthening of NoLostUpdate that every step preserves when no two *)
(* reports of one agent overlap and no write fails.  NoLostUpdate alone is *)
(* not inductive: it does not say why the guard on updated_at cannot turn  *)
(* the pending save away.                                                  *)

\* Reports of one agent do not overlap.
SerialInv ==
  \A r, q \in reports : r.id = q.id => r = q

\* Event times are in the past, and a report still waiting for the lock is
\* newer than everything known of its agent.
StampInv ==
  /\ \A r \in reports :
       /\ r.at <= clock
       /\ agents[r.id] # Nil => agents[r.id].lastSeen < r.at
       /\ saves[r.id] # Nil => saves[r.id].lastSeen < r.at
       /\ agentRow[r.id] # Nil => agentRow[r.id].updatedAt < r.at
  /\ \A id \in Uid :
       /\ agents[id] # Nil => agents[id].lastSeen <= clock
       /\ saves[id] # Nil => saves[id].lastSeen <= clock
       /\ agentRow[id] # Nil => agentRow[id].updatedAt <= clock

\* Stored, being saved, registered: event times never decrease along that
\* line, and at equal event times the content is the same.
LineInv ==
  \A id \in Uid :
    /\ agents[id] # Nil /\ saves[id] # Nil =>
         \/ saves[id].lastSeen < agents[id].lastSeen
         \/ /\ saves[id].lastSeen = agents[id].lastSeen
            /\ Content(saves[id]) = Content(agents[id])
    /\ agents[id] # Nil /\ agentRow[id] # Nil =>
         \/ agentRow[id].updatedAt < agents[id].lastSeen
         \/ /\ agentRow[id].updatedAt = agents[id].lastSeen
            /\ StoredContent(id) = Content(agents[id])
    /\ saves[id] # Nil /\ agentRow[id] # Nil =>
         \/ agentRow[id].updatedAt < saves[id].lastSeen
         \/ /\ agentRow[id].updatedAt = saves[id].lastSeen
            /\ StoredContent(id) = Content(saves[id])

\* An id waits to be read back or is being saved, not both, and one that was
\* evicted while it was being saved is dirty again.
PhaseInv ==
  \A id \in Uid : saves[id] # Nil =>
    /\ id \notin drained
    /\ agents[id] = Nil => id \in dirty

FlushInv == SerialInv /\ StampInv /\ LineInv /\ PhaseInv /\ NoLostUpdate
=============================================================================
