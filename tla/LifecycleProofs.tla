--------------------------- MODULE LifecycleProofs --------------------------
(***************************************************************************)
(* UnreadyBeforeClose, StartAllOrNothing and DrainWindowKept of Lifecycle, *)
(* for any listeners, agents and numbers of messages.                      *)
(***************************************************************************)
EXTENDS Lifecycle, TLAPS

\* What holds of run and the Flusher in each phase.
RunInv ==
  /\ phase \in {"launching", "serving", "draining", "waiting"}
       => bound \cup failed = Listener
  /\ phase \in {"closing", "stopped"} => ~ready /\ flusher = "done"
  /\ phase = "startFailed" => bound = {}
  /\ cancelled <=> phase \in {"waiting", "closing", "stopped"}
  /\ flusher \in {"final", "done"} => cancelled
  /\ flusher \in {"idle", "done"} => saves = None

\* A write never takes the database back, nor beyond what was heard.
OrderInv ==
  \A id \in Uid :
    /\ stored[id] <= heard[id]
    /\ saves[id] <= heard[id]
    /\ due[id] <= heard[id]
    /\ saves[id] # 0 => stored[id] <= saves[id]

\* Where the last message of an agent is: marked dirty, being written, or in
\* the database; and, once the final flush has drained the tracker, where the
\* last one is that the flush has to keep.
KeptInv ==
  ~cutOff =>
    /\ \A id \in Uid :
         id \in dirty \/ stored[id] = heard[id] \/ saves[id] = heard[id]
    /\ flusher \in {"final", "done"} =>
         \A id \in Uid : stored[id] >= due[id] \/ saves[id] >= due[id]

LifeInv == TypeOK /\ RunInv /\ OrderInv /\ KeptInv

-----------------------------------------------------------------------------
\* A process that has not started satisfies the invariant.
LEMMA InitLife == Init => LifeInv
<1> SUFFICES ASSUME Init PROVE LifeInv
  OBVIOUS
<1>1. \A id \in Uid : None[id] = 0
  BY DEF None
<1>2. TypeOK
  <2>1. None \in [Uid -> 0 .. MaxMessages]
    BY LifecycleAssumption DEF None
  <2> QED
    BY <2>1 DEF Init, TypeOK, Phase
<1>3. RunInv
  BY DEF Init, RunInv
<1>4. OrderInv /\ KeptInv
  BY <1>1 DEF Init, OrderInv, KeptInv
<1> QED
  BY <1>2, <1>3, <1>4 DEF LifeInv

\* Steps of run that touch neither agents nor workers: Start, the signal, the
\* closing of listeners.
Control ==
  \/ \E l \in Listener : Bind(l) \/ BindFails(l)
  \/ Serve \/ Launch \/ LaunchFails
  \/ \E l \in Listener : ServeFails(l) \/ CloseListener(l)
  \/ Signal \/ Shutdown \/ Return

\* They keep the order of shutdown: not ready, flushed, closed.
LEMMA ControlKeeps ==
  ASSUME LifeInv, Control
  PROVE  LifeInv'
<1> USE DEF LifeInv
<1>1. UNCHANGED <<cancelled, workerVars, dataVars, due>>
  BY DEF Control, Bind, BindFails, Serve, Launch, LaunchFails, ServeFails,
         CloseListener, Signal, Shutdown, Return
<1>2. TypeOK'
  <2>1. phase' \in Phase /\ bound' \subseteq Listener /\ failed' \subseteq Listener
        /\ ready' \in BOOLEAN
    BY DEF TypeOK, Phase, Control, Bind, BindFails, Serve, Launch, LaunchFails,
           ServeFails, CloseListener, Signal, Shutdown, Return
  <2> QED
    BY <1>1, <2>1 DEF TypeOK, workerVars, dataVars
<1>3. RunInv'
  <2>1. CASE \E l \in Listener : Bind(l) \/ BindFails(l)
    BY <1>1, <2>1 DEF RunInv, Bind, BindFails, workerVars
  <2>2. CASE Serve \/ Launch \/ LaunchFails
    BY <1>1, <2>2 DEF TypeOK, RunInv, Serve, Launch, LaunchFails, workerVars
  <2>3. CASE \E l \in Listener : ServeFails(l) \/ CloseListener(l)
    BY <1>1, <2>3 DEF RunInv, ServeFails, CloseListener, workerVars
  <2>4. CASE Signal \/ Shutdown \/ Return
    BY <1>1, <2>4 DEF RunInv, Signal, Shutdown, WorkersDone, Return, workerVars
  <2> QED
    BY <2>1, <2>2, <2>3, <2>4 DEF Control
<1>4. OrderInv' /\ KeptInv'
  BY <1>1 DEF OrderInv, KeptInv, workerVars, dataVars
<1> QED
  BY <1>2, <1>3, <1>4

\* cancelPersist fixes what is due before the final flush has begun.
LEMMA CancelKeeps ==
  ASSUME LifeInv, CancelPersist
  PROVE  LifeInv'
<1> USE DEF LifeInv, CancelPersist, workerVars, dataVars
<1>1. TypeOK'
  BY DEF TypeOK, Phase
<1>2. RunInv'
  BY DEF RunInv
<1>3. \A id \in Uid : heard[id] \in Nat
  BY LifecycleAssumption DEF TypeOK
<1>4. OrderInv'
  BY <1>3 DEF OrderInv
<1>5. flusher \notin {"final", "done"}
  BY DEF RunInv
<1>6. KeptInv'
  BY <1>5 DEF KeptInv
<1> QED
  BY <1>1, <1>2, <1>4, <1>6

\* A message is marked dirty with what it adds.
LEMMA MessageKeeps ==
  ASSUME LifeInv, NEW id \in Uid, Message(id)
  PROVE  LifeInv'
<1> USE DEF LifeInv, Message, workerVars
<1>a. \A i \in Uid : /\ heard[i] \in Nat /\ stored[i] \in Nat
                     /\ saves[i] \in Nat /\ due[i] \in Nat
  BY LifecycleAssumption DEF TypeOK
<1>b. heard'[id] = heard[id] + 1 /\ \A i \in Uid : i # id => heard'[i] = heard[i]
  BY DEF TypeOK
<1>1. TypeOK'
  <2>1. heard[id] + 1 \in 0 .. MaxMessages
    BY <1>a, LifecycleAssumption
  <2> QED
    BY <2>1 DEF TypeOK
<1>2. RunInv'
  BY DEF RunInv
<1>3. OrderInv'
  <2> SUFFICES ASSUME NEW i \in Uid
               PROVE  /\ stored[i] <= heard'[i] /\ saves[i] <= heard'[i]
                      /\ due[i] <= heard'[i]
                      /\ saves[i] # 0 => stored[i] <= saves[i]
    BY DEF OrderInv
  <2>1. heard[i] <= heard'[i] /\ heard'[i] \in Nat
    BY <1>a, <1>b
  <2> QED
    BY <1>a, <2>1 DEF OrderInv
<1>4. KeptInv'
  BY <1>b DEF KeptInv
<1> QED
  BY <1>1, <1>2, <1>3, <1>4

\* The other workers and the ticker.
LEMMA OthersKeep ==
  ASSUME LifeInv, SweeperStops \/ SnapshotterStops \/ FlushTimer \/ UNCHANGED vars
  PROVE  LifeInv'
<1> USE DEF LifeInv
<1>1. UNCHANGED <<phase, bound, failed, ready, cancelled, flusher, saves, cutOff,
                  dataVars, due>>
  BY DEF SweeperStops, SnapshotterStops, FlushTimer, vars, workerVars
<1>2. TypeOK'
  <2>1. sweeper' \in {"running", "done"} /\ tick' \in BOOLEAN
        /\ snapshotter' \in {"running", "final", "done"}
    BY DEF TypeOK, SweeperStops, SnapshotterStops, FlushTimer, vars, workerVars
  <2> QED
    BY <1>1, <2>1 DEF TypeOK, dataVars
<1>3. RunInv' /\ OrderInv' /\ KeptInv'
  BY <1>1 DEF RunInv, OrderInv, KeptInv, dataVars
<1> QED
  BY <1>2, <1>3

\* A flush begins: what was dirty is being written.  A ticker flush on the
\* cancelled context is cut off; the final one is not.
LEMMA FlushBeginsKeeps ==
  ASSUME LifeInv, FlushTick \/ FlushFinal
  PROVE  LifeInv'
<1> USE DEF LifeInv
<1>a. \A i \in Uid : /\ heard[i] \in Nat /\ stored[i] \in Nat
                     /\ saves[i] \in Nat /\ due[i] \in Nat
  BY LifecycleAssumption DEF TypeOK
<1>b. /\ flusher = "idle" /\ saves' = Drained /\ dirty' = {}
      /\ UNCHANGED <<phase, bound, failed, ready, cancelled, heard, stored, due>>
      /\ cutOff' = (cutOff \/ (cancelled /\ flusher' = "tick"))
      /\ flusher' \in {"tick", "final"} /\ (flusher' = "final" => cancelled)
      /\ Working
  BY DEF TypeOK, FlushTick, FlushFinal
<1>c. \A i \in Uid : saves'[i] = IF i \in dirty THEN heard[i] ELSE 0
  BY <1>b DEF Drained
<1>d. \A i \in Uid : saves[i] = 0
  BY <1>b DEF RunInv, None
<1>1. TypeOK'
  <2>1. saves' \in [Uid -> 0 .. MaxMessages]
    BY <1>b, LifecycleAssumption DEF Drained, TypeOK
  <2>2. /\ sweeper' = sweeper /\ snapshotter' = snapshotter
        /\ tick' \in BOOLEAN /\ cutOff' \in BOOLEAN
    BY DEF TypeOK, FlushTick, FlushFinal
  <2> QED
    BY <1>b, <2>1, <2>2 DEF TypeOK
<1>2. RunInv'
  BY <1>b DEF RunInv, Working
<1>3. OrderInv'
  BY <1>a, <1>b, <1>c DEF OrderInv
<1>4. KeptInv'
  <2> SUFFICES ASSUME ~cutOff'
               PROVE  \A i \in Uid :
                        /\ stored[i] = heard[i] \/ saves'[i] = heard[i]
                        /\ stored[i] >= due[i] \/ saves'[i] >= due[i]
    BY <1>b DEF KeptInv
  <2>1. \A i \in Uid : i \in dirty \/ stored[i] = heard[i] \/ saves[i] = heard[i]
    BY <1>b DEF KeptInv
  <2>2. TAKE i \in Uid
  <2>3. stored[i] = heard[i] \/ saves'[i] = heard[i]
    BY <1>c, <1>d, <2>1
  <2> QED
    BY <1>a, <2>3 DEF OrderInv
<1> QED
  BY <1>1, <1>2, <1>3, <1>4

\* A write lands with at least what the database had.
LEMMA SaveKeeps ==
  ASSUME LifeInv, NEW id \in Uid, Save(id)
  PROVE  LifeInv'
<1> USE DEF LifeInv, Save
<1>a. \A i \in Uid : /\ heard[i] \in Nat /\ stored[i] \in Nat
                     /\ saves[i] \in Nat /\ due[i] \in Nat
  BY LifecycleAssumption DEF TypeOK
<1>b. /\ saves'[id] = 0 /\ stored'[id] = saves[id]
      /\ \A i \in Uid : i # id => saves'[i] = saves[i] /\ stored'[i] = stored[i]
  BY DEF TypeOK
<1>c. stored[id] <= saves[id] /\ saves[id] <= heard[id]
  BY DEF OrderInv
<1>1. TypeOK'
  <2>1. 0 \in 0 .. MaxMessages
    BY LifecycleAssumption
  <2> QED
    BY <2>1 DEF TypeOK
<1>2. RunInv'
  <2>1. flusher \notin {"idle", "done"}
    BY DEF RunInv, None
  <2> QED
    BY <2>1 DEF RunInv
<1>3. OrderInv'
  BY <1>a, <1>b, <1>c DEF OrderInv
<1>4. KeptInv'
  <2> SUFFICES ASSUME ~cutOff PROVE KeptInv'
    BY DEF KeptInv
  <2>1. ASSUME NEW i \in Uid
        PROVE  i \in dirty \/ stored'[i] = heard[i] \/ saves'[i] = heard[i]
    <3>1. i \in dirty \/ stored[i] = heard[i] \/ saves[i] = heard[i]
      BY DEF KeptInv
    <3>2. CASE i = id
      BY <1>a, <1>b, <1>c, <3>1, <3>2
    <3>3. CASE i # id
      BY <1>b, <3>1, <3>3
    <3> QED
      BY <3>2, <3>3
  <2>2. ASSUME NEW i \in Uid, flusher \in {"final", "done"}
        PROVE  stored'[i] >= due[i] \/ saves'[i] >= due[i]
    <3>1. stored[i] >= due[i] \/ saves[i] >= due[i]
      BY <2>2 DEF KeptInv
    <3>2. CASE i = id
      BY <1>a, <1>b, <1>c, <3>1, <3>2
    <3>3. CASE i # id
      BY <1>b, <3>1, <3>3
    <3> QED
      BY <3>2, <3>3
  <2> QED
    BY <2>1, <2>2 DEF KeptInv
<1> QED
  BY <1>1, <1>2, <1>3, <1>4

\* A write that is cut off is recorded as such.
LEMMA SaveCutKeeps ==
  ASSUME LifeInv, NEW id \in Uid, SaveCut(id)
  PROVE  LifeInv'
<1> USE DEF LifeInv, SaveCut, dataVars
<1>a. saves'[id] = 0 /\ \A i \in Uid : i # id => saves'[i] = saves[i]
  BY DEF TypeOK
<1>b. \A i \in Uid : heard[i] \in Nat
  BY LifecycleAssumption DEF TypeOK
<1>1. TypeOK'
  <2>1. 0 \in 0 .. MaxMessages
    BY LifecycleAssumption
  <2> QED
    BY <2>1 DEF TypeOK
<1>2. RunInv'
  BY DEF RunInv
<1>3. OrderInv'
  BY <1>a, <1>b DEF OrderInv
<1>4. KeptInv'
  BY DEF KeptInv
<1> QED
  BY <1>1, <1>2, <1>3, <1>4

\* A flush returns when its writes are over.
LEMMA FlushReturnsKeeps ==
  ASSUME LifeInv, FlushReturns
  PROVE  LifeInv'
<1> USE DEF LifeInv, FlushReturns, dataVars
<1>1. TypeOK'
  BY DEF TypeOK
<1>2. RunInv'
  BY DEF RunInv, Working
<1>3. OrderInv'
  BY DEF OrderInv
<1>4. KeptInv'
  BY DEF KeptInv
<1> QED
  BY <1>1, <1>2, <1>3, <1>4

-----------------------------------------------------------------------------
\* The invariant holds of every behaviour of run and its workers.
THEOREM LifeInvariant == Spec => []LifeInv
<1>1. LifeInv /\ [Next]_vars => LifeInv'
  <2> SUFFICES ASSUME LifeInv, [Next]_vars PROVE LifeInv'
    OBVIOUS
  <2>1. CASE Control
    BY <2>1, ControlKeeps
  <2>2. CASE CancelPersist
    BY <2>2, CancelKeeps
  <2>3. ASSUME NEW id \in Uid, Message(id) PROVE LifeInv'
    BY <2>3, MessageKeeps
  <2>4. CASE SweeperStops \/ SnapshotterStops \/ FlushTimer \/ UNCHANGED vars
    BY <2>4, OthersKeep
  <2>5. CASE FlushTick \/ FlushFinal
    BY <2>5, FlushBeginsKeeps
  <2>6. ASSUME NEW id \in Uid, Save(id) \/ SaveCut(id) PROVE LifeInv'
    BY <2>6, SaveKeeps, SaveCutKeeps
  <2>7. CASE FlushReturns
    BY <2>7, FlushReturnsKeeps
  <2> QED
    BY <2>1, <2>2, <2>3, <2>4, <2>5, <2>6, <2>7
    DEF Next, RunNext, WorkerNext, Control
<1> QED
  BY <1>1, InitLife, PTL DEF Spec

\* Every counter of messages heard, due, saved and stored stays in its range.
THEOREM LifecycleTypes == Spec => []TypeOK
<1>1. LifeInv => TypeOK
  BY DEF LifeInv
<1> QED
  BY <1>1, LifeInvariant, PTL

\* run closes its listeners only when the database has everything heard
\* before persistCtx was cancelled, unless a ticker flush was cut off, for
\* any agents and any number of messages.
THEOREM DrainWindowAlwaysKept == Spec => []DrainWindowKept
<1>1. LifeInv => DrainWindowKept
  <2> SUFFICES ASSUME LifeInv, phase \in {"closing", "stopped"}, ~cutOff,
                      NEW id \in Uid
               PROVE  stored[id] >= due[id]
    BY DEF DrainWindowKept
  <2>1. flusher = "done" /\ saves[id] = 0
    BY DEF LifeInv, RunInv, None
  <2>2. stored[id] >= due[id] \/ saves[id] >= due[id]
    BY <2>1 DEF LifeInv, KeptInv
  <2>3. stored[id] \in Nat /\ due[id] \in Nat
    BY LifecycleAssumption DEF LifeInv, TypeOK
  <2> QED
    BY <2>1, <2>2, <2>3
<1> QED
  BY <1>1, LifeInvariant, PTL

\* A failed Start leaves nothing bound, whichever listener fails and however
\* many there are.
THEOREM StartsAllOrNothing == Spec => []StartAllOrNothing
<1>1. LifeInv => StartAllOrNothing
  BY DEF LifeInv, RunInv, StartAllOrNothing
<1> QED
  BY <1>1, LifeInvariant, PTL

\* /readyz answers 503 before run closes a listener, after a signal as well as
\* on the failure path, for any set of listeners.
THEOREM UnreadyFirst == Spec => []UnreadyBeforeClose
<1>1. LifeInv => UnreadyBeforeClose
  BY DEF LifeInv, RunInv, UnreadyBeforeClose
<1> QED
  BY <1>1, LifeInvariant, PTL
=============================================================================
