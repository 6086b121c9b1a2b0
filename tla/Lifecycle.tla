------------------------------ MODULE Lifecycle -----------------------------
(***************************************************************************)
(* The life of one grex process with a database (cmd/grex run and          *)
(* internal/server): bind the listeners, serve, and on a signal or a       *)
(* listener failure stop in order: refuse and drain, cancel persistCtx,    *)
(* wait for the final flush, close the listeners.                          *)
(*                                                                         *)
(* The workers waited for are Registry.Run, Flusher.Run and                *)
(* SessionSnapshotter.Run.  Of an agent only the number of messages heard  *)
(* and saved matters here; the Flusher's drain and its read-backs are one  *)
(* step (WriteBehind separates them).  A write is bounded by its context   *)
(* and does not fail by itself: what is lost here is lost by the shutdown. *)
(***************************************************************************)
EXTENDS Naturals, FiniteSets

CONSTANTS
  Uid,
  Listener,     \* opamp, ui, telemetry
  MaxMessages   \* bound on the messages of an agent

ASSUME LifecycleAssumption ==
  /\ IsFiniteSet(Listener)
  /\ MaxMessages \in Nat

VARIABLES
  phase,      \* where run() is
  bound,      \* listeners that are bound and not closed
  failed,     \* Server.fatal: listeners whose Serve has returned an error
  ready,      \* Server.ready, what /readyz answers
  cancelled,  \* persistCtx is cancelled
  sweeper,    \* Registry.Run: "running" or "done"
  snapshotter,\* SessionSnapshotter.Run: "running", "final" or "done"
  flusher,    \* Flusher.Run: "idle", "tick" or "final" flush, "done"
  tick,       \* the Flusher's ticker channel holds a tick
  heard,      \* number of messages heard from an agent
  dirty,      \* DirtyTracker.dirty
  saves,      \* the running flush's writes not yet done: state per agent, or 0
  stored,     \* the state the database has
  due,        \* history: what was heard when the shutdown cancelled persistCtx
  cutOff      \* history: a ticker flush ran on a cancelled context

workerVars == <<sweeper, snapshotter, flusher, tick, saves, cutOff>>
dataVars   == <<heard, dirty, stored>>
vars == <<phase, bound, failed, ready, cancelled, workerVars, dataVars, due>>

Phase == {"starting", "launching", "serving", "draining", "waiting", "closing",
          "stopped", "startFailed", "aborted"}

None == [id \in Uid |-> 0]

TypeOK ==
  /\ phase \in Phase
  /\ bound \subseteq Listener
  /\ failed \subseteq Listener
  /\ ready \in BOOLEAN
  /\ cancelled \in BOOLEAN
  /\ sweeper \in {"running", "done"}
  /\ snapshotter \in {"running", "final", "done"}
  /\ flusher \in {"idle", "tick", "final", "done"}
  /\ tick \in BOOLEAN
  /\ heard \in [Uid -> 0 .. MaxMessages]
  /\ dirty \subseteq Uid
  /\ saves \in [Uid -> 0 .. MaxMessages]
  /\ stored \in [Uid -> 0 .. MaxMessages]
  /\ due \in [Uid -> 0 .. MaxMessages]
  /\ cutOff \in BOOLEAN

Init ==
  /\ phase = "starting"
  /\ bound = {}
  /\ failed = {}
  /\ ready = FALSE
  /\ cancelled = FALSE
  /\ sweeper = "running" /\ snapshotter = "running" /\ flusher = "idle"
  /\ tick = FALSE
  /\ heard = None
  /\ dirty = {}
  /\ saves = None
  /\ stored = None
  /\ due = None
  /\ cutOff = FALSE

-----------------------------------------------------------------------------
(* Server.Start.                                                           *)

Bind(l) ==
  /\ phase = "starting"
  /\ l \notin bound
  /\ bound' = bound \cup {l}
  /\ UNCHANGED <<phase, failed, ready, cancelled, workerVars, dataVars, due>>

\* Mutant of BindFails: what was bound stays bound.
BindFailsLeaking(l) ==
  /\ phase = "starting"
  /\ l \notin bound
  /\ phase' = "startFailed"
  /\ UNCHANGED <<bound, failed, ready, cancelled, workerVars, dataVars, due>>

\* closeListeners, and run returns the error.
BindFails(l) ==
  /\ phase = "starting"
  /\ l \notin bound
  /\ phase' = "startFailed"
  /\ bound' = {}
  /\ UNCHANGED <<failed, ready, cancelled, workerVars, dataVars, due>>

\* All bound: every listener serves, and run starts its three workers.
Serve ==
  /\ phase = "starting"
  /\ bound = Listener
  /\ phase' = "launching"
  /\ ready' = TRUE
  /\ UNCHANGED <<bound, failed, cancelled, workerVars, dataVars, due>>

\* The purge client and the River UI start, and run waits in its select.
Launch ==
  /\ phase = "launching"
  /\ phase' = "serving"
  /\ UNCHANGED <<bound, failed, ready, cancelled, workerVars, dataVars, due>>

\* One of them fails: run returns, the process ends and nobody is waited for.
LaunchFails ==
  /\ phase = "launching"
  /\ phase' = "aborted"
  /\ bound' = {}
  /\ ready' = FALSE
  /\ UNCHANGED <<failed, cancelled, workerVars, dataVars, due>>

\* Serve returns an error, and has closed its listener.
ServeFails(l) ==
  /\ phase \in {"launching", "serving", "draining", "waiting", "closing"}
  /\ l \in bound
  /\ bound' = bound \ {l}
  /\ failed' = failed \cup {l}
  /\ UNCHANGED <<phase, ready, cancelled, workerVars, dataVars, due>>

\* An agent's message over an open connection.  Draining refuses new ones
\* only, and closing a listener does not cut a WebSocket: the process end does.
Message(id) ==
  /\ phase \in {"launching", "serving", "draining", "waiting", "closing"}
  /\ heard[id] < MaxMessages
  /\ heard' = [heard EXCEPT ![id] = @ + 1]
  /\ dirty' = dirty \cup {id}
  /\ UNCHANGED <<phase, bound, failed, ready, cancelled, workerVars, stored, due>>

-----------------------------------------------------------------------------
(* run, from its select on.                                                *)

\* Mutant of Signal: the workers share the signal's context.
SignalCancels ==
  /\ phase = "serving"
  /\ phase' = "draining"
  /\ ready' = FALSE
  /\ cancelled' = TRUE
  /\ UNCHANGED <<bound, failed, workerVars, dataVars, due>>

\* opampHandler.Drain and BeginDraining; the drain delay begins.
Signal ==
  /\ phase = "serving"
  /\ phase' = "draining"
  /\ ready' = FALSE
  /\ UNCHANGED <<bound, failed, cancelled, workerVars, dataVars, due>>

\* cancelPersist, when the delay is over or a serve error is received.
CancelPersist ==
  /\ phase = "draining" \/ (phase = "serving" /\ failed # {})
  /\ phase' = "waiting"
  /\ cancelled' = TRUE
  /\ due' = heard
  /\ UNCHANGED <<bound, failed, ready, workerVars, dataVars>>

WorkersDone == sweeper = "done" /\ snapshotter = "done" /\ flusher = "done"

\* Mutant of Shutdown: /readyz is not flipped.
ShutdownStaysReady ==
  /\ phase = "waiting"
  /\ WorkersDone
  /\ phase' = "closing"
  /\ UNCHANGED <<bound, failed, ready, cancelled, workerVars, dataVars, due>>

\* persistWG.Wait returns; Server.Shutdown begins.
Shutdown ==
  /\ phase = "waiting"
  /\ WorkersDone
  /\ phase' = "closing"
  /\ ready' = FALSE
  /\ UNCHANGED <<bound, failed, cancelled, workerVars, dataVars, due>>

\* One http.Server.Shutdown: it ends when its requests have, or at the grace
\* deadline; the listener is closed in either case.
CloseListener(l) ==
  /\ phase = "closing"
  /\ l \in bound
  /\ bound' = bound \ {l}
  /\ UNCHANGED <<phase, failed, ready, cancelled, workerVars, dataVars, due>>

Return ==
  /\ phase = "closing"
  /\ bound = {}
  /\ phase' = "stopped"
  /\ UNCHANGED <<bound, failed, ready, cancelled, workerVars, dataVars, due>>

-----------------------------------------------------------------------------
(* The workers.                                                            *)

Working == phase \in {"launching", "serving", "draining", "waiting"}


SweeperStops ==
  /\ Working /\ cancelled /\ sweeper = "running"
  /\ sweeper' = "done"
  /\ UNCHANGED <<phase, bound, failed, ready, cancelled, snapshotter, flusher,
                 tick, saves, cutOff, dataVars, due>>

\* SessionSnapshotter.Run's last snapshot (WriteBehind models what it writes).
SnapshotterStops ==
  /\ Working /\ cancelled /\ snapshotter # "done"
  /\ snapshotter' = IF snapshotter = "running" THEN "final" ELSE "done"
  /\ UNCHANGED <<phase, bound, failed, ready, cancelled, sweeper, flusher,
                 tick, saves, cutOff, dataVars, due>>

\* The ticker fires; its channel holds one tick, also during a flush.
FlushTimer ==
  /\ Working /\ flusher # "done" /\ ~tick
  /\ tick' = TRUE
  /\ UNCHANGED <<phase, bound, failed, ready, cancelled, sweeper, snapshotter,
                 flusher, saves, cutOff, dataVars, due>>

Drained == [id \in Uid |-> IF id \in dirty THEN heard[id] ELSE 0]

\* select takes the tick; if the context is done too it may still do so.
FlushTick ==
  /\ Working /\ flusher = "idle" /\ tick
  /\ tick' = FALSE
  /\ flusher' = "tick"
  /\ saves' = Drained
  /\ dirty' = {}
  /\ cutOff' = (cutOff \/ cancelled)
  /\ UNCHANGED <<phase, bound, failed, ready, cancelled, sweeper, snapshotter,
                 heard, stored, due>>

\* select takes ctx.Done(): one more flush, on a context of its own.
FlushFinal ==
  /\ Working /\ flusher = "idle" /\ cancelled
  /\ flusher' = "final"
  /\ saves' = Drained
  /\ dirty' = {}
  /\ UNCHANGED <<phase, bound, failed, ready, cancelled, sweeper, snapshotter,
                 tick, heard, stored, cutOff, due>>

\* Mutant of Save: the row accumulates.
SaveAdds(id) ==
  /\ Working /\ saves[id] # 0
  /\ saves' = [saves EXCEPT ![id] = 0]
  /\ stored' = [stored EXCEPT ![id] = @ + saves[id]]
  /\ UNCHANGED <<phase, bound, failed, ready, cancelled, sweeper, snapshotter,
                 flusher, tick, cutOff, heard, dirty, due>>

\* A write lands.  One that was under way at the cancellation may.
Save(id) ==
  /\ Working /\ saves[id] # 0
  /\ saves' = [saves EXCEPT ![id] = 0]
  /\ stored' = [stored EXCEPT ![id] = saves[id]]
  /\ UNCHANGED <<phase, bound, failed, ready, cancelled, sweeper, snapshotter,
                 flusher, tick, cutOff, heard, dirty, due>>

\* The cancelled context ends a write of a ticker flush: logged, not retried.
SaveCut(id) ==
  /\ Working /\ saves[id] # 0
  /\ flusher = "tick" /\ cancelled
  /\ saves' = [saves EXCEPT ![id] = 0]
  /\ cutOff' = TRUE
  /\ UNCHANGED <<phase, bound, failed, ready, cancelled, sweeper, snapshotter,
                 flusher, tick, dataVars, due>>

\* flushOnce returns: to the loop, or out of Run after the final flush.
FlushReturns ==
  /\ Working /\ flusher \in {"tick", "final"}
  /\ saves = None
  /\ flusher' = IF flusher = "tick" THEN "idle" ELSE "done"
  /\ UNCHANGED <<phase, bound, failed, ready, cancelled, sweeper, snapshotter,
                 tick, saves, cutOff, dataVars, due>>

-----------------------------------------------------------------------------
RunNext ==
  \/ \E l \in Listener : Bind(l) \/ BindFails(l)
  \/ Serve \/ Launch \/ LaunchFails
  \/ \E l \in Listener : ServeFails(l) \/ CloseListener(l)
  \/ \E id \in Uid : Message(id)
  \/ Signal \/ CancelPersist \/ Shutdown \/ Return

WorkerNext ==
  \/ SweeperStops \/ SnapshotterStops
  \/ FlushTimer \/ FlushTick \/ FlushFinal \/ FlushReturns
  \/ \E id \in Uid : Save(id) \/ SaveCut(id)

Next == RunNext \/ WorkerNext

Spec == Init /\ [][Next]_vars

\* run and its workers are goroutines that go on while they can: delays end,
\* writes end by their timeouts, http.Server.Shutdown ends by its deadline.
\* A signal, a failing listener, messages and ticks are not assumed.  select
\* picks among ready cases at random, so it takes ctx.Done() eventually:
\* strong fairness of FlushFinal.
FairSpec ==
  /\ Spec
  /\ WF_vars(CancelPersist) /\ WF_vars(Shutdown) /\ WF_vars(Return)
  /\ WF_vars(\E l \in Listener : CloseListener(l))
  /\ WF_vars(SweeperStops) /\ WF_vars(SnapshotterStops)
  /\ WF_vars(FlushReturns) /\ SF_vars(FlushFinal)
  /\ WF_vars(\E id \in Uid : Save(id) \/ SaveCut(id))

-----------------------------------------------------------------------------
(* Properties.                                                             *)

\* "503 ... before any listener closes" (design.md): grex closes a listener
\* that serves only once /readyz has been flipped, on the failure path too.
UnreadyBeforeClose ==
  phase \in {"serving", "draining", "waiting", "closing", "stopped"}
    /\ bound \cup failed # Listener => ~ready

\* Start "closing whatever was already bound": a start that fails leaves no
\* address bound.
StartAllOrNothing == phase = "startFailed" => bound = {}

\* run waits for the final flush before it closes anything, and nothing the
\* process heard before it cancelled persistCtx is missing from the database,
\* unless the cancellation met a ticker flush.
DrainWindowKept ==
  phase \in {"closing", "stopped"} /\ ~cutOff =>
    \A id \in Uid : stored[id] >= due[id]

\* Flusher.Run: "whatever's dirty at the moment of cancellation (e.g. an
\* agent's last message during a shutdown's drain window) still gets
\* persisted, rather than silently lost".
FinalFlushKeepsAll ==
  phase = "stopped" => \A id \in Uid : stored[id] >= due[id]

=============================================================================
