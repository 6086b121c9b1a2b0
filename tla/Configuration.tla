--------------------------- MODULE Configuration ----------------------------
(***************************************************************************)
(* config.Load: defaults, the YAML file over them, GREX_* variables over   *)
(* both, and validate.  No variables.                                      *)
(*                                                                         *)
(* A setting is the pair of its section and its field.  A file is the      *)
(* function of the settings it gives; a missing or an empty one gives      *)
(* none, and yaml reports it as an error.  The environment is the function *)
(* of the variables that are set, the empty string included.  The value of *)
(* a variable that has to be parsed is the set of its result, {} if it is  *)
(* not a number, duration or bool.  Load returns the empty set for an      *)
(* error.                                                                  *)
(***************************************************************************)
EXTENDS Integers, Sequences, FiniteSetsExt

CONSTANTS
  Addresses,    \* what net.SplitHostPort accepts
  FilesPresent  \* what os.Stat finds

Listeners == {"opamp", "ui", "telemetry"}

\* The TLS section of a listener.
TLSSection == [opamp |-> "opamp_tls", ui |-> "ui_tls", telemetry |-> "telemetry_tls"]

\* setString
TextSetting ==
  {<<"listeners", l>> : l \in Listeners}
    \cup {<<TLSSection[l], f>> : l \in Listeners,
                                f \in {"cert_file", "key_file", "client_ca_file"}}
    \cup {<<"auth", "default_role">>, <<"log", "level">>, <<"log", "format">>}
    \cup {<<"database", f>> : f \in {"host", "user", "password", "dbname", "sslmode"}}

\* setDuration, in seconds, and setInt
NumberSetting ==
  {<<"fleet", f>> : f \in {"heartbeat_interval", "stale_missed_heartbeats",
                           "shard_count", "soft_delete_duration"}}
    \cup {<<"metrics", "per_agent_series_limit">>, <<"ui", "poll_interval">>,
          <<"database", "port">>}

PprofEnabled       == <<"debug", "pprof_enabled">>
RequiredAttributes == <<"fleet", "required_attributes">>
RoleMapping        == <<"auth", "role_mapping">>

\* role_mapping has no variable.
envOverrides == TextSetting \cup NumberSetting \cup {PprofEnabled, RequiredAttributes}

Setting == envOverrides \cup {RoleMapping}

\* The texts that are not empty, and the numbers that are not 0.
defaultText(n) ==
  CASE n = <<"listeners", "opamp">>     -> ":4320"
    [] n = <<"listeners", "ui">>        -> ":8080"
    [] n = <<"listeners", "telemetry">> -> ":9090"
    [] n = <<"auth", "default_role">>   -> "none"
    [] n = <<"log", "level">>           -> "info"
    [] n = <<"log", "format">>          -> "text"
    [] n = <<"database", "sslmode">>    -> "disable"
    [] OTHER                            -> ""

defaultNumber(n) ==
  CASE n = <<"fleet", "heartbeat_interval">>       -> 30
    [] n = <<"fleet", "stale_missed_heartbeats">>  -> 3
    [] n = <<"fleet", "soft_delete_duration">>     -> 7 * 24 * 3600
    [] n = <<"metrics", "per_agent_series_limit">> -> 1000
    [] n = <<"ui", "poll_interval">>               -> 5
    [] n = <<"database", "port">>                  -> 5432
    [] OTHER                                       -> 0

\* True of every string literal; stated because provers know nothing of STRING.
ASSUME ConfigurationAssumption == \A n \in TextSetting : defaultText(n) \in STRING

defaults ==
  [n \in Setting |->
    IF n \in TextSetting THEN defaultText(n)
    ELSE IF n \in NumberSetting THEN defaultNumber(n)
    ELSE IF n = PprofEnabled THEN FALSE
    ELSE << >>]

\* The types of Config's fields, which yaml and the setters keep to.
Typed(n, v) ==
  /\ n \in TextSetting => v \in STRING
  /\ n \in NumberSetting => v \in Int
  /\ n = PprofEnabled => v \in BOOLEAN
  /\ n = RoleMapping =>
       v \in Seq([match : STRING, spiffe_id : Seq(STRING), role : STRING])

\* The set of what a variable's setter stores.
Parsed(n, raw) ==
  IF n \in TextSetting THEN {raw}
  ELSE IF n = RequiredAttributes THEN {SelectSeq(raw, LAMBDA part : part # "")}
  ELSE raw

-----------------------------------------------------------------------------
validTLS(c, section) ==
  LET file(f) == c[<<section, f>>] IN
  /\ file("cert_file") = "" <=> file("key_file") = ""
  /\ file("client_ca_file") # "" => file("cert_file") # ""
  /\ {file(f) : f \in {"cert_file", "key_file", "client_ca_file"}}
       \subseteq FilesPresent \cup {""}

validAuth(c) ==
  /\ c[<<"auth", "default_role">>] \in {"none", "viewer", "admin"}
  /\ \A rule \in Range(c[RoleMapping]) :
       /\ rule.match \in {"exact", "prefix"}
       /\ rule.spiffe_id # << >>
       /\ rule.role \in {"viewer", "admin"}

MaxPort == 65535

\* Mutant of validate: no setting's range is checked.
validateNoRanges(c) ==
  /\ \A l \in Listeners : c[<<"listeners", l>>] \in Addresses
  /\ \A l \in Listeners : validTLS(c, TLSSection[l])
  /\ validAuth(c)

validate(c) ==
  /\ \A l \in Listeners : c[<<"listeners", l>>] \in Addresses
  /\ \A l \in Listeners : validTLS(c, TLSSection[l])
  /\ validAuth(c)
  /\ c[<<"log", "level">>] \in {"debug", "info", "warn", "error"}
  /\ c[<<"log", "format">>] \in {"text", "json"}
  /\ c[<<"fleet", "heartbeat_interval">>] > 0
  /\ c[<<"fleet", "stale_missed_heartbeats">>] > 0
  /\ c[<<"fleet", "soft_delete_duration">>] > 0
  /\ c[<<"fleet", "shard_count">>] >= 0
  /\ c[<<"metrics", "per_agent_series_limit">>] >= 0
  /\ c[<<"ui", "poll_interval">>] > 0
  /\ c[<<"database", "port">>] > 0 /\ c[<<"database", "port">>] <= MaxPort

\* decode refuses a field it does not know.
Load(file, env) ==
  LET over == [n \in DOMAIN env \cap envOverrides |-> Parsed(n, env[n])] IN
  IF \/ DOMAIN file = {} \/ ~(DOMAIN file \subseteq Setting)
     \/ \E n \in DOMAIN over : over[n] = {}
    THEN {}
  ELSE {c \in {[n \in Setting |->
                  IF n \in DOMAIN over THEN CHOOSE v \in over[n] : TRUE
                  ELSE IF n \in DOMAIN file THEN file[n]
                  ELSE defaults[n]]} : validate(c)}
=============================================================================
