---------------------------- MODULE MCFleetRead -----------------------------
(***************************************************************************)
(* Three agents in two shards: 1 is described by its name, 2 carries a     *)
(* shadowed name and no health, 3 has described nothing.                   *)
(***************************************************************************)
EXTENDS FleetPages

ReadUid == 1 .. 3

ReadKey == {"service.name", "host.name", "service.component",
            "service.version", "opamp.managed_by"}

Gatewayed == [viaGateway |-> TRUE, transport |-> 1]

NoAttrs == [k \in ReadKey |-> Nil]

Named(name)       == [NoAttrs EXCEPT !["service.name"] = name]
Described(id, non) == [identifying |-> id, nonIdentifying |-> non]

Plain    == Described(Named(4), NoAttrs)
Shadowed == Described(Named(5), [Named(4) EXCEPT !["service.version"] = 7])

Files == [body |-> 1]

ReadValue == {Plain, Shadowed, [healthy |-> TRUE], [healthy |-> FALSE], Files}

Says(description, health, files) ==
  [s \in {"description", "health", "effective_config"} |->
     CASE s = "description" -> description
       [] s = "health" -> health
       [] s = "effective_config" -> files]

ReadFirst == <<Says(Plain, [healthy |-> FALSE], Files),
               Says(Shadowed, Nil, Files),
               Says(Nil, [healthy |-> TRUE], Nil)>>

ReadMessages == {Says(Shadowed, [healthy |-> TRUE], Files)}

ReadConn == {Gatewayed}

ReadShardOf == <<0, 0, 1>>

ReadMatchers == {[key |-> "service.name", op |-> "=", values |-> {4}],
                 [key |-> "service.version", op |-> "=~", values |-> {7}]}
ReadSorts == {<<"status", Nil>>, <<"name", "desc">>, <<"version", "asc">>,
              <<"last_seen", Nil>>}
=============================================================================
