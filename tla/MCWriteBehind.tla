--------------------------- MODULE MCWriteBehind ----------------------------
(* Instances of WriteBehind for TLC.                                       *)
EXTENDS WriteBehind

CONSTANTS v1, v2

mcSection      == {"description", "effective_config", "capabilities"}
mcEventSection == {"description", "effective_config"}

\* The message that carries value v in the sections of S and nothing else.
Carrying(S, v) == [s \in mcSection |-> IF s \in S THEN v ELSE Nil]

Heartbeat      == Carrying({}, Nil)
FullState(v)   == Carrying({"description", "effective_config"}, v)
Described(v)   == Carrying({"description"}, v)
Reconfigure(v) == Carrying({"effective_config"}, v)
Capable(v)     == Carrying({"capabilities"}, v)

\* A full report, a partial one that changes it, and one that fires no event.
mcContentMessages == {FullState(v1), Reconfigure(v2), Capable(v1)}
\* Reports that change what is stored.
mcReportMessages == {FullState(v1), Reconfigure(v2)}
\* What the session row depends on.
mcSessionMessages == {Heartbeat, Described(v1)}

mcOneShard == [id \in Uid |-> 0]
=============================================================================
