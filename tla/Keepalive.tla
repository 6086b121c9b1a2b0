----------------------------- MODULE Keepalive ------------------------------
(***************************************************************************)
(* How old the stored session row of an agent gets that keeps checking in. *)
(* A sibling replica only has the row: api.StaleConnected takes the agent  *)
(* for disconnected once the row is older than the disconnect threshold,   *)
(* and SessionSnapshotter's keepalive has to rewrite it before that.       *)
(*                                                                         *)
(* Times are kept as ages, so that time can go on for ever.  Heartbeats    *)
(* are at most one interval apart, ticks are exactly one apart, a write    *)
(* takes no time.  It may fail, or be rolled back by a later statement of  *)
(* its batch after it was recorded as written (cf. WriteBehind).           *)
(***************************************************************************)
EXTENDS Integers

CONSTANTS
  Settings,     \* [heartbeat : fleet.heartbeat_interval,
                \*  tick      : sessionSnapshotInterval]
  Nil,
  MaxFailures   \* bound on failed and on lost writes in a row

ASSUME KeepaliveAssumption ==
  /\ Settings \subseteq [heartbeat : Nat \ {0}, tick : Nat \ {0}]
  /\ Nil \notin Int
  /\ MaxFailures \in Nat

VARIABLES
  setting,    \* fixed by Init
  seenAge,    \* age of the registry's LastSeen
  rowAge,     \* age of agent_session.updated_at
  wroteAge,   \* age of written[id].lastSeen, Nil if the agent is not tracked
  sinceTick,  \* time since the snapshotter's last tick
  failed,     \* writes that have failed since the last one that landed
  lost        \* writes that were recorded and rolled back since then

vars == <<setting, seenAge, rowAge, wroteAge, sinceTick, failed, lost>>

\* Mutant of DisconnectThreshold: without the half interval of grace.
DisconnectThresholdNoGrace == setting.heartbeat

\* Registry.DisconnectThreshold
DisconnectThreshold == setting.heartbeat + setting.heartbeat \div 2

keepaliveInterval(disconnectAfter, tick) ==
  LET twoThirds == (disconnectAfter * 2) \div 3
      limit     == disconnectAfter - tick
      keepalive == IF twoThirds > limit THEN limit ELSE twoThirds
  IN  IF keepalive < 0 THEN 0 ELSE keepalive

Keepalive == keepaliveInterval(DisconnectThreshold, setting.tick)

\* The agent has just connected and its first flush has stored the row.
Init ==
  /\ setting \in Settings
  /\ seenAge = 0 /\ rowAge = 0 /\ wroteAge = Nil
  /\ sinceTick \in 0 .. setting.tick
  /\ failed = 0 /\ lost = 0

-----------------------------------------------------------------------------
\* Time passes up to the next tick and the latest moment of a heartbeat.
Pass ==
  /\ sinceTick < setting.tick
  /\ seenAge < setting.heartbeat
  /\ seenAge' = seenAge + 1
  /\ rowAge' = rowAge + 1
  /\ wroteAge' = IF wroteAge = Nil THEN Nil ELSE wroteAge + 1
  /\ sinceTick' = sinceTick + 1
  /\ UNCHANGED <<setting, failed, lost>>

\* Registry.Report of a heartbeat.
Heartbeat ==
  /\ seenAge' = 0
  /\ UNCHANGED <<setting, rowAge, wroteAge, sinceTick, failed, lost>>

\* The Flusher saves the agent for another reason; the snapshotter does not
\* know of it.  SaveAgent's session upsert.
Flush ==
  /\ rowAge' = seenAge
  /\ UNCHANGED <<setting, seenAge, wroteAge, sinceTick, failed, lost>>

\* SessionSnapshotter.due
Due == IF wroteAge = Nil THEN TRUE ELSE wroteAge >= Keepalive

\* A tick that finds the row fresh enough, or writes it and records that.
Snapshot ==
  /\ sinceTick = setting.tick
  /\ sinceTick' = 0
  /\ rowAge' = IF Due THEN seenAge ELSE rowAge
  /\ wroteAge' = IF Due THEN seenAge ELSE wroteAge
  /\ failed' = IF Due THEN 0 ELSE failed
  /\ lost' = IF Due THEN 0 ELSE lost
  /\ UNCHANGED <<setting, seenAge>>

\* Mutant of SnapshotFails: the failed write is recorded as well.
SnapshotFailsRecorded ==
  /\ sinceTick = setting.tick
  /\ Due
  /\ failed < MaxFailures
  /\ sinceTick' = 0
  /\ wroteAge' = seenAge
  /\ failed' = failed + 1
  /\ UNCHANGED <<setting, seenAge, rowAge, lost>>

\* A tick whose write fails: recordWritten is not called.
SnapshotFails ==
  /\ sinceTick = setting.tick
  /\ Due
  /\ failed < MaxFailures
  /\ sinceTick' = 0
  /\ failed' = failed + 1
  /\ UNCHANGED <<setting, seenAge, rowAge, wroteAge, lost>>

\* A tick whose write is recorded as its result is read and rolled back with
\* the batch afterwards.
SnapshotRolledBack ==
  /\ sinceTick = setting.tick
  /\ Due
  /\ lost < MaxFailures
  /\ sinceTick' = 0
  /\ wroteAge' = seenAge
  /\ lost' = lost + 1
  /\ UNCHANGED <<setting, seenAge, rowAge, failed>>

Next ==
  \/ Pass \/ Heartbeat \/ Flush
  \/ Snapshot \/ SnapshotFails \/ SnapshotRolledBack

Spec == Init /\ [][Next]_vars

-----------------------------------------------------------------------------
TypeOK ==
  /\ setting \in Settings
  /\ seenAge \in 0 .. setting.heartbeat
  /\ rowAge \in Nat
  /\ wroteAge \in Nat \cup {Nil}
  /\ sinceTick \in 0 .. setting.tick
  /\ failed \in 0 .. MaxFailures
  /\ lost \in 0 .. MaxFailures

\* The longest time between two writes of a row that both seem to land.
Round == setting.heartbeat + setting.tick

\* The inductive strengthening of RowAgeBounded: the row is never younger than
\* the registry (so that the guard of saveSessionSQL lets every write pass), it
\* is older than what the snapshotter has recorded only by the writes that were
\* lost or failed, and a failed tick adds a tick.
AgeInv ==
  /\ TypeOK
  /\ seenAge <= rowAge
  /\ wroteAge # Nil => rowAge <= wroteAge + lost * Round + failed * setting.tick
  /\ rowAge <= setting.heartbeat + lost * Round
                 + failed * setting.tick + sinceTick

\* keepaliveInterval's worst case.  The row of an agent that keeps checking in
\* is never older than one heartbeat and one tick, plus one tick per write that
\* has failed and the same again per write that was recorded and lost, whatever
\* the two intervals are.
RowAgeBounded ==
  rowAge <= (lost + 1) * Round + failed * setting.tick

\* StaleConnected: the keepalive "rewrites the row before it can age past this
\* threshold, as long as the agent keeps checking in at all".  True if no write
\* is lost and the ticks that may fail fit into half a heartbeat; validate does
\* not ask for that, and with a heartbeat below two ticks it is false.
FreshWhileHeard ==
  lost = 0 /\ (failed + 1) * setting.tick <= setting.heartbeat \div 2 =>
    rowAge <= DisconnectThreshold
=============================================================================
