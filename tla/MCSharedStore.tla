--------------------------- MODULE MCSharedStore ----------------------------
(* Instances of SharedStore for TLC.                                       *)
EXTENDS SharedStore, TLC

CONSTANTS v1, v2

mcSection      == {"description", "effective_config"}
mcEventSection == {"description", "effective_config"}

Heartbeat      == [s \in mcSection |-> Nil]
FullState(v)   == [s \in mcSection |-> v]
Described(v)   == [Heartbeat EXCEPT !["description"] = v]

\* opamp-go's client reports its whole state on a new connection; afterwards
\* a report changes the description.
mcRows     == [ firstMessages |-> {FullState(v1)},
                laterMessages |-> {Described(v2)},
                crashes |-> FALSE, snapshots |-> 0, time |-> 4,
                softDeleteDuration |-> 0 ]
\* What the session row depends on, with stale snapshots and crashes.
mcSessions == [ firstMessages |-> {Described(v1)},
                laterMessages |-> {Heartbeat},
                crashes |-> TRUE, snapshots |-> 1, time |-> 3,
                softDeleteDuration |-> 9 ]

mcRegisterBounds == {mcRows, mcSessions}
mcSiblingBounds  == {[mcSessions EXCEPT !.crashes = FALSE, !.snapshots = 0,
                                        !.time = 4]}

ReplicaSymmetry == Permutations(Replica)
=============================================================================
