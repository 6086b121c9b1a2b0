------------------------- MODULE EventTimeRegister --------------------------
(***************************************************************************)
(* What PostgresStore promises of an agent's durable state, whoever writes *)
(* it and in whatever order: the store holds, per agent, one complete      *)
(* state that some replica really had, it only ever moves to a later event *)
(* time, and it loses the agent only when it is purged.                    *)
(***************************************************************************)
EXTENDS Naturals

CONSTANTS Uid, Content, Time, Nil

VARIABLES
  reported,  \* per agent: the states it has been in, by event time
  stored     \* per agent: the one the store holds, Nil if none

State == [at : Time, content : Content]

Init ==
  /\ reported = [id \in Uid |-> {}]
  /\ stored = [id \in Uid |-> Nil]

\* A message arrives at some replica, later than every earlier one.
Report(id) ==
  /\ UNCHANGED stored
  /\ \E v \in State :
       /\ \A w \in reported[id] : w.at < v.at
       /\ reported' = [reported EXCEPT ![id] = @ \cup {v}]

\* A save of a reported state lands: last event wins, not last writer.
Store(id) ==
  /\ UNCHANGED reported
  /\ \E v \in reported[id] :
       /\ stored[id] # Nil => stored[id].at < v.at
       /\ stored' = [stored EXCEPT ![id] = v]

\* A purge removes rows.
Forget(S) ==
  /\ UNCHANGED reported
  /\ stored' = [id \in Uid |-> IF id \in S THEN Nil ELSE stored[id]]

Next ==
  \/ \E S \in SUBSET Uid : Forget(S)
  \/ \E id \in Uid : Store(id) \/ Report(id)

Spec == Init /\ [][Next]_<<reported, stored>>
=============================================================================
