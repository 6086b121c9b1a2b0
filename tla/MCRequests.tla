----------------------------- MODULE MCRequests -----------------------------
(***************************************************************************)
(* Small instances of Requests.  Callers meet every setting and variable   *)
(* alone and the TLS settings of a listener together; the submitter has    *)
(* two calls; the browser starts from queries of up to two parameters.     *)
(***************************************************************************)
EXTENDS Requests

mcAddresses == {":4320", ":8080", ":9090", "host:1"}
mcFiles     == {"cert", "key", "ca"}

alice == <<"spiffe://", "td", "/user/", "alice">>
rule(match, id, role) == [match |-> match, spiffe_id |-> id, role |-> role]

\* Rule lists: none, a prefix ahead of the exact rule it covers, two prefixes
\* that end inside a segment, and lists that validate refuses.
mcRules ==
  { << >>,
    <<rule("prefix", SubSeq(alice, 1, 3), "viewer"), rule("exact", alice, "admin")>>,
    <<rule("prefix", SubSeq(alice, 1, 2), "viewer"),
      rule("prefix", SubSeq(alice, 1, 3), "admin")>>,
    <<rule("exact", alice, "none")>>,
    <<rule("regex", alice, "admin")>>,
    <<rule("prefix", << >>, "viewer")>> }

TLSOf(l, cert, key, ca) ==
  ( <<TLSSection[l], "cert_file">> :> cert @@ <<TLSSection[l], "key_file">> :> key
    @@ <<TLSSection[l], "client_ca_file">> :> ca )

NoEnv == << >>
Plain == <<"log", "level">> :> "info"

\* The TLS settings of one listener, in the file or overridden, under every
\* rule list and two default roles.
mcTLSInputs ==
  { [file |-> (RoleMapping :> rules) @@ (<<"auth", "default_role">> :> role)
                @@ TLSOf(l, cert, key, ca),
     env |-> env] :
      l \in Listeners, cert \in {"", "cert"}, key \in {"", "key"},
      ca \in {"", "ca", "gone"}, rules \in mcRules, role \in {"none", "viewer"},
      env \in {NoEnv} \cup {<<TLSSection["ui"], "client_ca_file">> :> v : v \in {"", "ca"}} }

\* Every variable alone, with values that are accepted and refused.
mcEnvs ==
  {n :> v : n \in TextSetting, v \in {"", "host:1", "cert", "debug", "json", "viewer"}}
    \cup {n :> v : n \in NumberSetting, v \in {{}, {-1}, {0}, {1}, {65536}}}
    \cup {PprofEnabled :> v : v \in {{}, {TRUE}, {FALSE}}}
    \cup {RequiredAttributes :> v : v \in {<< >>, <<"a", "">>}}

mcInputs ==
  [ caller    |-> mcTLSInputs
                    \cup {[file |-> Plain, env |-> e] : e \in mcEnvs}
                    \cup {[file |-> f, env |-> NoEnv] :
                            f \in {<< >>, <<"ui", "theme">> :> "dark"}},
    submitter |-> {[file |-> Plain @@ (<<"database", "host">> :> h), env |-> NoEnv] :
                     h \in {"", "db"}}
                    \cup {[file |-> (<<"database", "host">> :> "db")
                             @@ (<<"auth", "default_role">> :> "viewer")
                             @@ TLSOf("ui", "cert", "key", "ca"), env |-> NoEnv]},
    browser   |-> {[file |-> Plain, env |-> NoEnv]} ]

Uri(scheme, host, path) == [scheme |-> scheme, host |-> host, path |-> path]
Cert(trusted, uris) == [trusted |-> trusted, uris |-> uris]
AliceUri == Uri("spiffe", "td", <<"/user/", "alice">>)

mcCerts ==
  [ caller    |-> { {}, {Cert(TRUE, <<AliceUri>>)}, {Cert(FALSE, <<AliceUri>>)},
                    {Cert(TRUE, <<Uri("spiffe", "td", <<"/user/", "bob">>)>>)},
                    {Cert(TRUE, <<Uri("spiffe", "td", <<"/service/", "ci">>)>>)},
                    {Cert(TRUE, <<Uri("https", "td", <<"/user/", "alice">>)>>)},
                    {Cert(TRUE, <<Uri("spiffe", "", <<"/user/", "alice">>)>>)},
                    {Cert(TRUE, <<AliceUri, AliceUri>>)}, {Cert(TRUE, << >>)} },
    submitter |-> { {}, {Cert(TRUE, <<AliceUri>>)} },
    browser   |-> { {} } ]

Body(filter, action, config, by) ==
  [filter |-> filter, action |-> action, action_config |-> config, submitted_by |-> by]

mcBodies ==
  { Nil, Body("f", "restart", Nil, "s"), Body("f", "restart", "{}", "s"),
    Body("f", "restart", "null", "s"),
    Body("", "restart", Nil, "s"), Body("f", "", Nil, "s"), Body("f", "restart", Nil, "") }

-----------------------------------------------------------------------------
mcNumber == ("0" :> 0 @@ "1" :> 1 @@ "10" :> 10 @@ "-1" :> -1)

\* Matcher texts: every operator, with and without blanks and quotes, regexes
\* with a blank, a value that looks like an operator, and texts that are
\* refused.
mcMatches ==
  { <<"k", "=", "v">>, <<"k", " ", "!", "=", " ", "v">>, <<"k", "=", "~", "v">>,
    <<" ", "k", "!", "~", "\"", "v", "\"">>, <<"k", " ", "=", "~", " ", "v", " ", "w">>,
    <<"k", "=", "~", "\"", "v", " ", "w", "\"">>, <<"k", "=", "=", "~", "v">>,
    <<"k", "=", "~", "\\", " ", "w">>, <<"k", "=", " ">>, << >>, <<"=", "v">>,
    <<"k", "=", "~", "(">> }

mcParams ==
  {<<<<"match">>, <<s>>>> : s \in mcMatches}
    \cup {<<<<"match">>, <<<<"k", "=", "v">>, <<"j", "!", "=", "v">>>>>>}
    \cup {<<n, <<s>>>> : n \in {<<"healthy">>, <<"connected">>},
                        s \in {<<"true">>, <<"0">>, <<" ", "false">>, <<"maybe">>}}
    \cup {<<<<"supervisor_managed">>, <<<<"true">>>>>>}
    \cup {<<<<"k">>, <<s>>>> : s \in {<<"v">>, <<" ", "v", " ">>, <<"~", "v">>, << >>}}
    \cup {<<<<"a", "=", "b">>, <<<<"v">>>>>>}
    \cup {<<<<"attr_key">>, <<<<"k">>>>>>, <<<<"attr_value">>, <<<<" ", "v">>>>>>}
    \cup {<<<<"sort">>, <<s>>>> : s \in {<<"last_seen">>, <<"name">>, <<"bogus">>}}
    \cup {<<<<"order">>, <<s>>>> : s \in {<<"desc">>, <<"up">>}}
    \cup {<<<<"limit">>, <<s>>>> : s \in {<<"10">>, <<"0">>, <<"x">>}}
    \cup {<<<<"offset">>, <<s>>>> : s \in {<<"10">>, <<"-1">>}}

\* Each parameter alone and beside one of these.
mcSecond ==
  { <<<<"match">>, <<<<"k", "=", "~", "v", " ", "w">>>>>>, <<<<"healthy">>, <<<<"true">>>>>>,
    <<<<"attr_value">>, <<<<" ", "v">>>>>>, <<<<"order">>, <<<<"desc">>>>>> }

mcQueries ==
  {p[1] :> p[2] : p \in mcParams}
    \cup {(p[1] :> p[2]) @@ (r[1] :> r[2]) : p \in mcParams, r \in mcSecond}

mcAttributes ==
  {[key |-> <<"j">>, value |-> <<"~", "v">>]}

mcColumns == {<<"name">>, <<"last_seen">>}
mcOffsets == {<<"10">>}
=============================================================================
