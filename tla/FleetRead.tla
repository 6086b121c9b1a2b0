------------------------------ MODULE FleetRead -----------------------------
(***************************************************************************)
(* Read requests of one replica while the fleet changes under them.  A     *)
(* list, the status page and a metrics scrape walk the registry shard by   *)
(* shard; a list then queries the store, a scrape may walk a second time;  *)
(* a detail request reads the registry, then the row, then the config      *)
(* files.  Between any two of these reads agents report, are swept, saved, *)
(* soft-deleted and purged, by this replica or by a sibling.               *)
(*                                                                         *)
(* Requests only read, so one at a time is enough.  What they compute from *)
(* what they have read is in FleetMerge and FleetQuery.                    *)
(***************************************************************************)
EXTENDS FleetMerge

CONSTANTS
  Messages,       \* what agents report while requests run
  FirstMessage,   \* per agent: what it had reported before
  ShardCount,
  ShardOf,        \* Registry.shardFor
  PerAgentLimit,  \* metrics.per_agent_series_limit
  MaxChanges      \* bound on the changes under the requests

ASSUME FleetReadAssumption ==
  /\ IsFiniteSet(Uid) /\ Conn # {}
  /\ Messages \subseteq Message
  /\ FirstMessage \in [Uid -> Message]
  /\ ShardCount \in Nat \ {0}
  /\ ShardOf \in [Uid -> 0 .. ShardCount - 1]
  /\ PerAgentLimit \in Nat
  /\ MaxChanges \in Nat

VARIABLES
  clock, changes,
  agents,                           \* this replica's registry
  agentRow, sessionRow, configRow,
  step,     \* what the request has done last
  wanted,   \* the agent of a detail request
  shard,    \* the next shard of a walk
  local,    \* what the first walk has read, in order
  series,   \* what a scrape's second walk has read
  db,       \* what the store has answered
  config,   \* the config files of a detail request
  partial,  \* the store's answer failed
  stayed,   \* history: agents registered here since the request began
  kept,     \* history: agents with a live row since it began
  gone,     \* history: agents with neither since it began
  unpurged  \* history: agents whose row was not purged since it began

tables   == <<agentRow, sessionRow, configRow>>
readVars == <<step, wanted, shard, local, series, db, config, partial>>
seen     == <<stayed, kept, gone, unpurged>>
vars     == <<clock, changes, agents, tables, readVars, seen>>

Live(row) == IF row = Nil THEN FALSE ELSE row.evictedAt = Nil

Registered(entries) == {id \in Uid : entries[id] # Nil}
LiveRows(rows)      == {id \in Uid : Live(rows[id])}

SnapshotOf ==
  [ uid : Uid, fields : [Section -> Value \cup {Nil}], connected : BOOLEAN,
    conn : Conn, lastSeen : Nat, sessionAt : Nat \cup {Nil},
    evictedAt : Nat \cup {Nil} ]

TypeOK ==
  /\ clock \in Nat /\ changes \in 0 .. MaxChanges
  /\ agents \in [Uid -> Entry \cup {Nil}]
  /\ agentRow \in [Uid -> AgentRow \cup {Nil}]
  /\ sessionRow \in [Uid -> SessionRow \cup {Nil}]
  /\ configRow \in [Uid -> ConfigRow \cup {Nil}]
  /\ step \in {"idle", "walk", "listed", "merged", "series", "scraped",
               "missed", "got", "detail", "absent"}
  /\ wanted \in Uid \cup {Nil} /\ shard \in 0 .. ShardCount
  /\ {local, series, db} \subseteq Seq(SnapshotOf)
  /\ config \in ConfigRow \cup {Nil}
  /\ partial \in BOOLEAN
  /\ \A ids \in {stayed, kept, gone, unpurged} : ids \subseteq Uid

\* The fleet a request may meet: agents registered here, agents stored by
\* this or another replica, and agents whose eviction has been stored.
Init ==
  LET now == EvictAfter + 1
      past(id, at) == Reported(Nil, FirstMessage[id],
                               CHOOSE meta \in Conn : TRUE, at)
      at(id, evicted) == IF id \in evicted THEN 0 ELSE now
  IN
  /\ clock = now /\ changes = 0
  /\ \E here, stored \in SUBSET Uid : \E evicted \in SUBSET stored :
       /\ agents = [id \in Uid |-> IF id \in here THEN past(id, now) ELSE Nil]
       /\ agentRow = [id \in Uid |->
            IF id \in evicted THEN SoftDelete(UpsertAgent(Nil, past(id, 0)), now)
            ELSE IF id \in stored THEN UpsertAgent(Nil, past(id, now)) ELSE Nil]
       /\ sessionRow = [id \in Uid |->
            IF id \in stored THEN UpsertSession(Nil, past(id, at(id, evicted)))
            ELSE Nil]
       /\ configRow = [id \in Uid |->
            IF id \in stored THEN ReplaceConfig(Nil, Nil, past(id, at(id, evicted)))
            ELSE Nil]
  /\ step = "idle" /\ wanted = Nil /\ shard = 0
  /\ local = << >> /\ series = << >> /\ db = << >>
  /\ config = Nil /\ partial = FALSE
  /\ stayed = {} /\ kept = {} /\ gone = {} /\ unpurged = {}

-----------------------------------------------------------------------------
(* The fleet changes.                                                      *)

\* What happens once a request has read everything does not alter its answer.
Changing ==
  step \notin {"merged", "scraped", "detail", "absent"} /\ changes < MaxChanges

Change ==
  /\ changes' = changes + 1
  /\ stayed' = stayed \cap Registered(agents')
  /\ kept' = kept \cap LiveRows(agentRow')
  /\ gone' = gone \ (Registered(agents') \cup LiveRows(agentRow'))
  /\ unpurged' = {id \in unpurged : agentRow[id] = Nil \/ agentRow'[id] # Nil}
  /\ UNCHANGED readVars

Report(id, msg, meta) ==
  /\ clock' = clock + 1
  /\ agents' = [agents EXCEPT ![id] = Reported(@, msg, meta, clock + 1)]
  /\ UNCHANGED tables
  /\ Change

\* Silence for longer than one of the thresholds, then a sweep.
Sweep(silence) ==
  /\ clock' = clock + silence
  /\ agents' = [id \in Uid |-> Swept(agents[id], clock')]
  /\ UNCHANGED tables
  /\ Change

\* Mutant of SaveAgent: the config files are left to a later write.
SaveAgentRowOnly(id, entry) ==
  /\ agentRow' = [agentRow EXCEPT ![id] = UpsertAgent(@, entry)]
  /\ sessionRow' = [sessionRow EXCEPT ![id] = UpsertSession(@, entry)]
  /\ clock' = Max({clock, entry.lastSeen})
  /\ UNCHANGED <<agents, configRow>>
  /\ Change

SaveAgent(id, entry) ==
  /\ agentRow' = [agentRow EXCEPT ![id] = UpsertAgent(@, entry)]
  /\ sessionRow' = [sessionRow EXCEPT ![id] = UpsertSession(@, entry)]
  /\ configRow' = [configRow EXCEPT ![id] = ReplaceConfig(agentRow[id], @, entry)]
  /\ clock' = Max({clock, entry.lastSeen})
  /\ UNCHANGED agents
  /\ Change

\* What a flush may write: this replica's entry, or one of a sibling that
\* has just heard from the agent.
Flushable(id) ==
  (IF agents[id] = Nil THEN {} ELSE {agents[id]})
    \cup {Reported(Nil, msg, meta, clock + 1) : msg \in Messages, meta \in Conn}

SoftDeleteAgent(id) ==
  /\ Live(agentRow[id])
  /\ agentRow' = [agentRow EXCEPT ![id] = SoftDelete(@, clock)]
  /\ UNCHANGED <<clock, agents, sessionRow, configRow>>
  /\ Change

PurgeWork ==
  LET due == {id \in Uid : Purged(agentRow[id], clock + 1)}
      without(rows) == [id \in Uid |-> IF id \in due THEN Nil ELSE rows[id]]
  IN
  /\ due # {}
  /\ agentRow' = without(agentRow)
  /\ sessionRow' = without(sessionRow)
  /\ configRow' = without(configRow)
  /\ UNCHANGED <<clock, agents>>
  /\ Change

FleetChanges ==
  /\ Changing
  /\ \/ \E id \in Uid, msg \in Messages, meta \in Conn : Report(id, msg, meta)
     \/ \E silence \in {DisconnectThreshold + 1, EvictAfter + 1} : Sweep(silence)
     \/ \E id \in Uid : \E entry \in Flushable(id) : SaveAgent(id, entry)
     \/ \E id \in Uid : SoftDeleteAgent(id)
     \/ PurgeWork

-----------------------------------------------------------------------------
(* Reading.                                                                *)

fleetVars == <<clock, changes, agents, tables>>

\* A shard under its read lock; a Go map is walked in any order.
InShard(i) == {Snapshot(id, agents[id]) :
                 id \in {u \in Registered(agents) : ShardOf[u] = i}}

Watch ==
  /\ stayed' = Registered(agents)
  /\ kept' = LiveRows(agentRow)
  /\ gone' = Uid \ (stayed' \cup kept')
  /\ unpurged' = Uid

\* A request for the list, the status or the metrics starts to walk.
Begin ==
  /\ step = "idle"
  /\ step' = "walk" /\ shard' = 0
  /\ Watch
  /\ UNCHANGED <<fleetVars, wanted, local, series, db, config, partial>>

\* Mutant of ReadShard: the walk ends at the first empty shard.
ReadShardUntilEmpty ==
  /\ step = "walk" /\ shard < ShardCount
  /\ \E some \in InAnyOrder(InShard(shard)) : local' = local \o some
  /\ shard' = IF InShard(shard) = {} THEN ShardCount ELSE shard + 1
  /\ step' = IF shard' = ShardCount THEN "listed" ELSE "walk"
  /\ UNCHANGED <<fleetVars, wanted, series, db, config, partial, seen>>

\* One turn of Registry.List's or Aggregate's loop.
ReadShard ==
  /\ step = "walk" /\ shard < ShardCount
  /\ \E some \in InAnyOrder(InShard(shard)) : local' = local \o some
  /\ shard' = shard + 1
  /\ step' = IF shard' = ShardCount THEN "listed" ELSE "walk"
  /\ UNCHANGED <<fleetVars, wanted, series, db, config, partial, seen>>

\* The rows of ids, in the order of their instance_uids.
queryAgents(ids) ==
  CHOOSE rows \in InAnyOrder({scanAgent(id, agentRow[id], sessionRow[id]) :
                               id \in {u \in ids : agentRow[u] # Nil}}) :
    \A i, j \in DOMAIN rows : i < j => rows[i].uid < rows[j].uid

\* ListAgents succeeds: one statement, one snapshot.  Its config reads are
\* left out, the views of a list drop them.
ListAgents ==
  /\ step = "listed"
  /\ \A id \in Uid : agentRow[id] # Nil => sessionRow[id] # Nil
  /\ db' = queryAgents(Uid)
  /\ step' = "merged"
  /\ UNCHANGED <<fleetVars, wanted, shard, local, series, config, partial, seen>>

\* The store cannot be read: the request goes on with the local agents.
ListFails ==
  /\ step = "listed"
  /\ partial' = TRUE
  /\ step' = "merged"
  /\ UNCHANGED <<fleetVars, wanted, shard, local, series, db, config, seen>>

\* FleetCollector.Collect: a fleet within the limit is walked again.
Collect ==
  /\ step = "listed"
  /\ IF Len(local) > PerAgentLimit THEN step' = "scraped" /\ UNCHANGED shard
     ELSE step' = "series" /\ shard' = 0
  /\ UNCHANGED <<fleetVars, wanted, local, series, db, config, partial, seen>>

\* One turn of Registry.AgentSeries' loop.
ReadSeries ==
  /\ step = "series" /\ shard < ShardCount
  /\ \E some \in InAnyOrder(InShard(shard)) : series' = series \o some
  /\ shard' = shard + 1
  /\ step' = IF shard' = ShardCount THEN "scraped" ELSE "series"
  /\ UNCHANGED <<fleetVars, wanted, local, db, config, partial, seen>>

\* getAgent: a registry hit is the answer, a miss goes on to the store.
getAgent(id) ==
  /\ step = "idle"
  /\ IF agents[id] # Nil
       THEN step' = "detail" /\ local' = <<Snapshot(id, agents[id])>>
       ELSE step' = "missed" /\ UNCHANGED local
  /\ wanted' = id
  /\ Watch
  /\ UNCHANGED <<fleetVars, shard, series, db, config, partial>>

\* GetAgent's row; one that is not there is a 404.
GetRow ==
  /\ step = "missed"
  /\ db' = queryAgents({wanted})
  /\ step' = IF db' = << >> THEN "absent" ELSE "got"
  /\ UNCHANGED <<fleetVars, wanted, shard, local, series, config, partial,
                 seen>>

\* GetAgent's second query, then what getAgent and agentData do with the two:
\* a soft-deleted row is a 404, a stale session is not connected.
GetConfig ==
  /\ step = "got"
  /\ IF db[1].evictedAt # Nil
       THEN step' = "absent" /\ UNCHANGED <<local, config>>
       ELSE /\ step' = "detail"
            /\ local' = <<Corrected(db[1], clock)>>
            /\ config' = configRow[wanted]
  /\ UNCHANGED <<fleetVars, wanted, shard, series, db, partial, seen>>

\* Either query fails: a 500 of the API, a 404 of the UI.
LookupFails ==
  /\ step \in {"missed", "got"}
  /\ step' = "absent"
  /\ UNCHANGED <<fleetVars, wanted, shard, local, series, db, config, partial,
                 seen>>

\* The answer is sent.
Respond ==
  /\ step \in {"listed", "merged", "scraped", "detail", "absent"}
  /\ step' = "idle" /\ wanted' = Nil /\ shard' = 0
  /\ local' = << >> /\ series' = << >> /\ db' = << >>
  /\ config' = Nil /\ partial' = FALSE
  /\ stayed' = {} /\ kept' = {} /\ gone' = {} /\ unpurged' = {}
  /\ UNCHANGED fleetVars

Requests ==
  \/ Begin \/ ReadShard \/ ListAgents \/ ListFails \/ Collect \/ ReadSeries
  \/ \E id \in Uid : getAgent(id)
  \/ GetRow \/ GetConfig \/ LookupFails \/ Respond

Next == FleetChanges \/ Requests

Spec == Init /\ [][Next]_vars

-----------------------------------------------------------------------------
(* Properties.                                                             *)

Merged == IF partial THEN local ELSE MergeAgents(local, db, clock)

\* A list shows nobody twice; it shows everyone who has been registered here
\* since the request began and, unless it says that it is partial, everyone
\* whose row has been live since then, although the shards and the store are
\* read at different instants.
ListComplete ==
  step = "merged" =>
    /\ IsInjective([i \in DOMAIN Merged |-> Merged[i].uid])
    /\ stayed \subseteq Uids(Merged)
    /\ ~partial => kept \subseteq Uids(Merged)

\* An agent that was evicted before a request began, and has not come back,
\* is on no list and has no page, whether or not its row has been purged.
GoneIsGone ==
  /\ step = "merged" => gone \cap Uids(Merged) = {}
  /\ step = "detail" => wanted \notin gone

\* A walk over the shards reads every agent that is registered throughout,
\* the second walk of a metrics scrape as well as the first.
WalkSeesStayers ==
  /\ step \in {"listed", "scraped"} => stayed \subseteq Uids(local)
  /\ step = "scraped" /\ Len(local) <= PerAgentLimit =>
       stayed \subseteq Uids(series)

\* An agent's page never shows config files that are older than the row it is
\* shown with, although the two are read by two queries.  The exception is a
\* row that is soft-deleted and purged between the two and then written again,
\* by a replica that last heard from the agent before the purged row did.
ConfigNotOlder ==
  step = "detail" /\ config # Nil /\ wanted \in unpurged =>
    config.updatedAt >= local[1].lastSeen
=============================================================================
