------------------------------ MODULE Requests ------------------------------
(***************************************************************************)
(* The process as its clients see it: started with some file and           *)
(* environment, drained and stopped or crashed and started again; probed   *)
(* and scraped, asked for a job, browsed.  What is computed is in          *)
(* Configuration, Access and QueryString.                                  *)
(*                                                                         *)
(* A behaviour follows one kind of client.  Clients of different kinds     *)
(* share nothing but the configuration, so this loses nothing.  A page     *)
(* outlives the process that served it and meets the next one with the     *)
(* same query, so for the browser the process just stays up.               *)
(***************************************************************************)
EXTENDS Access, QueryString

CONSTANTS
  Nil,
  Client,       \* the kinds followed, of "caller", "submitter", "browser"
  Inputs,       \* per kind: the files and environments of a start
  Certs,        \* per kind: the sets of certificates presented
  Calls,        \* the submitter's calls
  Bodies,       \* their bodies, Nil if malformed
  Queries,      \* the browser's first queries
  Columns,      \* the table headers clicked
  Offsets,      \* the page links clicked
  Attributes,   \* the attributes clicked in the table: key and value
  MaxChips      \* bound on the chips of a form

\* A call: its body, whether its statement is on the way, the row it was given
\* and the status the client was told.
Call ==
  [body : Bodies, sent : BOOLEAN, id : Nat \cup {Nil}, status : Int \cup {Nil}]

ASSUME RequestsAssumption ==
  /\ Nil \notin Int /\ Nil \notin Call
  /\ Client \subseteq {"caller", "submitter", "browser"}
  /\ \A k \in Client : \A i \in Inputs[k] :
       /\ i # Nil
       /\ \A n \in DOMAIN i.file : Typed(n, i.file[n])
       /\ DOMAIN i.env \subseteq envOverrides
       /\ \A n \in DOMAIN i.env : \A v \in Parsed(n, i.env[n]) : Typed(n, v)
  /\ \A k \in Client : \A certs \in Certs[k] :
       certs \subseteq Certificate /\ \A x, y \in certs : x = y
  /\ Columns \subseteq sortColumns
  /\ Offsets \subseteq {<<token>> : token \in {n \in DOMAIN Number : Number[n] >= 0}}

VARIABLES
  client,   \* fixed by Init
  input,    \* file and environment it was started with, Nil while down
  cfg,      \* the set of the configuration in effect, {} while down
  phase,    \* "starting", "ready", "draining"; Server.ready is the second
  last,     \* the caller's last request and its status
  calls,    \* the submitter's calls of POST /api/jobs
  jobs,     \* the jobs table, in order of insertion
  page      \* what the browser shows

process == <<client, input, cfg, phase>>
vars == <<process, last, calls, jobs, page>>

Init ==
  /\ client \in Client
  /\ input = Nil /\ cfg = {} /\ phase = "starting"
  /\ last = Nil
  /\ calls = [k \in Calls |-> Nil]
  /\ jobs = << >>
  /\ page = Nil

-----------------------------------------------------------------------------
(* The process.                                                            *)

\* run up to the listeners' goroutines in Server.Start; a configuration that
\* Load refuses, or an address that is taken, ends it at once.
Start ==
  /\ cfg = {}
  /\ \E i \in Inputs[client] :
       /\ cfg' = Load(i.file, i.env)
       /\ input' = IF cfg' = {} THEN Nil ELSE i
  /\ UNCHANGED <<client, phase, last, calls, jobs, page>>

\* The end of Server.Start: requests may have been served before.
Started ==
  /\ cfg # {} /\ phase = "starting" /\ client # "browser"
  /\ phase' = "ready"
  /\ UNCHANGED <<client, input, cfg, last, calls, jobs, page>>

BeginDraining ==
  /\ phase = "ready"
  /\ phase' = "draining"
  /\ UNCHANGED <<client, input, cfg, last, calls, jobs, page>>

\* The status of a call the client saw no answer to.
Lost == -1

\* The end of the process, orderly or not.  Calls it has not answered are
\* lost; a statement that Postgres has received may still be committed.
Exit ==
  /\ cfg # {} /\ client # "browser"
  /\ cfg' = {} /\ input' = Nil /\ phase' = "starting" /\ last' = Nil
  /\ calls' = [k \in Calls |->
       IF calls[k] = Nil THEN Nil
       ELSE IF calls[k].status = Nil THEN [calls[k] EXCEPT !.status = Lost]
       ELSE calls[k]]
  /\ UNCHANGED <<client, jobs, page>>

-----------------------------------------------------------------------------
(* The caller: probes, scrapes, pages and connecting agents.               *)

Route ==
  {<<"telemetry", r>> : r \in Probes \cup {"/metrics", "/metrics/fleet",
                                         "/debug/pprof/", "/other"}}
    \cup {<<"ui", "/">>, <<"opamp", "/v1/opamp">>, <<"opamp", "/other">>}

\* One request per process, at any moment: a request changes nothing.
Ask ==
  /\ client = "caller" /\ last = Nil
  /\ \E c \in cfg, r \in Route, certs \in Certs[client] :
       LET status == Status(c, phase = "ready", r[1], r[2], certs) IN
       last' = [ route  |-> r, certs |-> certs, status |-> status,
                 role   |-> IF status = 200 /\ Wrapped(c, r[1], r[2])
                              THEN Granted(c, PeerCertificates(c, r[1], certs))
                            ELSE {} ]
  /\ UNCHANGED <<process, calls, jobs, page>>

-----------------------------------------------------------------------------
(* POST /api/jobs.                                                         *)

\* The row CreateJob inserts: an absent action_config is {}, status and
\* target_mode are the table's defaults.
jobRow(body) ==
  [ filter |-> body.filter, action |-> body.action,
    action_config |-> IF body.action_config = Nil THEN "{}" ELSE body.action_config,
    submitted_by |-> body.submitted_by, status |-> "planned", target_mode |-> Nil ]

\* createJob's answer before it calls CreateJob; Nil if it does.
refusal(c, body, certs) ==
  IF Status(c, phase = "ready", "ui", "/api/jobs", certs) # 200
    THEN Status(c, phase = "ready", "ui", "/api/jobs", certs)
  ELSE IF c[<<"database", "host">>] = "" THEN 503
  ELSE IF body = Nil THEN 400
  ELSE IF "" \in {body.filter, body.action, body.submitted_by} THEN 400
  ELSE Nil

createJob(k) ==
  /\ client = "submitter" /\ calls[k] = Nil
  /\ \E c \in cfg, body \in Bodies, certs \in Certs[client] :
       LET status == refusal(c, body, certs) IN
       calls' = [calls EXCEPT ![k] =
         [body |-> body, sent |-> status = Nil, id |-> Nil, status |-> status]]
  /\ UNCHANGED <<process, last, jobs, page>>

\* Postgres runs the statement, whether anybody waits for it or not.
CreateJob(k) ==
  /\ calls[k] # Nil
  /\ calls[k].sent
  /\ jobs' = Append(jobs, jobRow(calls[k].body))
  /\ calls' = [calls EXCEPT ![k].sent = FALSE, ![k].id = Len(jobs')]
  /\ UNCHANGED <<process, last, page>>

\* Mutant of CreateJobFails: the error is not looked at.
CreateJobFailsUnchecked(k) ==
  /\ calls[k] # Nil
  /\ calls[k].status = Nil
  /\ calls' = [calls EXCEPT ![k].sent = FALSE, ![k].status = 201]
  /\ UNCHANGED <<process, last, jobs, page>>

\* QueryRow returns an error: the statement was refused, or its outcome is not
\* known and it may have been or may yet be committed.
CreateJobFails(k) ==
  /\ calls[k] # Nil
  /\ calls[k].status = Nil
  /\ \E sent \in {FALSE, calls[k].sent} :
       calls' = [calls EXCEPT ![k].sent = sent, ![k].status = 500]
  /\ UNCHANGED <<process, last, jobs, page>>

\* CreateJob returns the row that was inserted.
jobCreated(k) ==
  /\ calls[k] # Nil
  /\ calls[k].status = Nil
  /\ calls[k].id # Nil
  /\ calls' = [calls EXCEPT ![k].status = 201]
  /\ UNCHANGED <<process, last, jobs, page>>

-----------------------------------------------------------------------------
(* The fleet page in a browser.                                            *)

\* fleetPage: the page of a query that is not refused; what led to it is kept.
Loaded(q, via, arg) ==
  IF validPagination(q) /\ ParseFilters(q) # {}
    THEN [query |-> q, form |-> formOf(q), via |-> via, arg |-> arg]
  ELSE Nil

Browsing ==
  /\ client = "browser"
  /\ \E c \in cfg : Status(c, phase = "ready", "ui", "/", {}) = 200

\* A tab of its own.
Open ==
  /\ Browsing /\ page = Nil
  /\ \E q \in Queries : page' = Loaded(q, "open", Nil)
  /\ UNCHANGED <<process, last, calls, jobs>>

Sort ==
  /\ Browsing /\ page # Nil
  /\ \E column \in Columns :
       page' = Loaded(sortHref(page.query, column, parseSort(page.query)),
                      "sort", column)
  /\ UNCHANGED <<process, last, calls, jobs>>

Turn ==
  /\ Browsing /\ page # Nil
  /\ \E offset \in Offsets :
       page' = Loaded(queryWith(page.query, <<"offset">>, offset), "turn", offset)
  /\ UNCHANGED <<process, last, calls, jobs>>

EditChip ==
  /\ client = "browser" /\ page # Nil
  /\ \E chip \in page.form.chips :
       page' = [page EXCEPT !.form = editChip(@, chip), !.via = "edit", !.arg = Nil]
  /\ UNCHANGED <<process, last, calls, jobs>>

RemoveChip ==
  /\ client = "browser" /\ page # Nil
  /\ \E chip \in page.form.chips :
       page' = [page EXCEPT !.form.chips = @ \ {chip}, !.via = "remove", !.arg = Nil]
  /\ UNCHANGED <<process, last, calls, jobs>>

AddMatch ==
  /\ client = "browser" /\ page # Nil
  /\ Cardinality(page.form.chips) < MaxChips
  /\ \E a \in Attributes :
       page' = [page EXCEPT !.form = onAddMatch(@, a.key, a.value),
                            !.via = "add", !.arg = a]
  /\ UNCHANGED <<process, last, calls, jobs>>

Submit ==
  /\ Browsing /\ page # Nil
  /\ page' = Loaded(submitted(page.form), "submit", Nil)
  /\ UNCHANGED <<process, last, calls, jobs>>

-----------------------------------------------------------------------------
Next ==
  \/ Start \/ Started \/ BeginDraining \/ Exit
  \/ Ask
  \/ \E k \in Calls :
       createJob(k) \/ CreateJob(k) \/ CreateJobFails(k) \/ jobCreated(k)
  \/ Open \/ Sort \/ Turn \/ EditChip \/ RemoveChip \/ AddMatch \/ Submit

Spec == Init /\ [][Next]_vars

-----------------------------------------------------------------------------
TypeOK ==
  /\ client \in Client
  /\ \A c \in cfg : /\ Cardinality(cfg) = 1 /\ DOMAIN c = Setting
                    /\ \A n \in TextSetting : c[n] \in STRING
                    /\ \A n \in NumberSetting : c[n] \in Nat
                    /\ c[PprofEnabled] \in BOOLEAN
  /\ phase \in {"starting", "ready", "draining"}
  /\ cfg = {} <=> input = Nil
  /\ last # Nil => last.status \in {0, 200, 403, 404, 501, 503}
  /\ \A k \in Calls : calls[k] # Nil =>
       /\ calls[k].body \in Bodies /\ calls[k].sent \in BOOLEAN
       /\ calls[k].id \in DOMAIN jobs \cup {Nil}
       /\ calls[k].status \in {Nil, Lost, 0, 201, 400, 403, 500, 503}
  /\ \A i \in DOMAIN jobs : jobs[i].status = "planned" /\ jobs[i].target_mode = Nil
  /\ page # Nil => DOMAIN page.form.selects \subseteq boolFields

\* What the operator wrote: the variable if it is set, else the file, else the
\* default.
Written(n) ==
  IF n \in DOMAIN input.env THEN input.env[n]
  ELSE IF n \in DOMAIN input.file THEN input.file[n]
  ELSE defaults[n]

\* The rule for an identity: an exact one before any prefix, the first of its
\* kind.
RoleOf(id) ==
  LET rules == Written(RoleMapping)
      hits  == {i \in DOMAIN rules :
                  IF rules[i].match = "exact" THEN rules[i].spiffe_id = id
                  ELSE HasPrefix(id, rules[i].spiffe_id)}
      beats(i, j) == IF rules[i].match = rules[j].match THEN i <= j
                     ELSE rules[i].match = "exact"
  IN  IF hits = {} THEN Written(<<"auth", "default_role">>)
      ELSE rules[CHOOSE i \in hits : \A j \in hits : beats(i, j)].role

\* requireSPIFFERole behind TLS and validate.  On a listener for which the
\* operator wrote a client CA, in the file or in the environment, exactly the
\* callers get in whose verified certificate names one identity with a role,
\* and their requests carry that role; on the OpAMP listener the certificate
\* is enough.  Without a client CA everybody gets in.
AdmittedByRole ==
  last # Nil /\ last.route \in {<<"telemetry", "/metrics">>, <<"telemetry", "/metrics/fleet">>,
                               <<"ui", "/">>, <<"opamp", "/v1/opamp">>} =>
    LET listener == last.route[1]
        ca       == Written(<<TLSSection[listener], "client_ca_file">>)
        verified == {cert \in last.certs : cert.trusted}
        uris     == {cert.uris[1] : cert \in {x \in verified : Len(x.uris) = 1}}
        roles    == {RoleOf(<<"spiffe://", u.host>> \o u.path) :
                       u \in {x \in uris : /\ x.scheme = "spiffe" /\ x.host # ""
                                           /\ x.path # << >>}} \ {"none"}
    IN  CASE ca = ""             -> last.status = 200 /\ last.role = {}
          [] ca # "" /\ listener = "opamp" -> last.status = 200 <=> verified # {}
          [] OTHER -> (last.status = 200 <=> roles # {}) /\ last.role = roles

\* Server.New: probes are "Never gated behind mTLS: orchestrator health probes
\* cannot present a client certificate".  Under every configuration that is
\* accepted, a caller without one is told by /healthz that the process lives,
\* while it starts and drains too, and by /readyz whether it is ready; it is
\* not before the last listener is up.
ProbesAnswered ==
  last # Nil /\ last.certs = {} =>
    /\ last.route = <<"telemetry", "/healthz">> => last.status = 200
    /\ last.route = <<"telemetry", "/readyz">> =>
         IF phase = "starting" THEN last.status = 503 ELSE last.status \in {200, 503}

\* createJob and CreateJob.  Every 201 names a row of its own with what the call
\* asked for, and there is no row beyond those but for calls whose outcome the
\* client was not told: a 500, or no answer at all.  Also across restarts.
JobsMatchAnswers ==
  LET created == {k \in Calls : calls[k] # Nil /\ calls[k].status = 201}
      unsure  == {k \in Calls : calls[k] # Nil /\ calls[k].status \in {Nil, 500, Lost}}
      rows(r) == Cardinality({i \in DOMAIN jobs : jobs[i] = r})
      of(ks, r) == Cardinality({k \in ks : jobRow(calls[k].body) = r})
  IN  /\ \A k \in created : calls[k].id \in DOMAIN jobs
                            /\ jobs[calls[k].id] = jobRow(calls[k].body)
      /\ \A k, l \in created : k # l => calls[k].id # calls[l].id
      /\ \A i \in DOMAIN jobs :
           rows(jobs[i]) <= of(created, jobs[i]) + of(unsure, jobs[i])

\* sortHref and queryWith.  The links of a page never lead to an error and keep
\* its filters, although they rewrite the query that ParseFilters reads; paging
\* also keeps its order.  A header sorts by its column from the first page on,
\* the other way round if the page is sorted by it already.
LinksKeepFilter ==
  [][ Sort \/ Turn =>
        /\ page' # Nil
        /\ ParseFilters(page'.query) = ParseFilters(page.query)
        /\ page'.via = "turn" =>
             parseSort(page'.query) = parseSort(page.query)
        /\ page'.via = "sort" =>
             LET old == parseSort(page.query)
                 new == parseSort(page'.query)
             IN  /\ new.key = page'.arg
                 /\ new.key = old.key => new.order # old.order
                 /\ Get(page'.query, <<"offset">>) = << >> ]_vars

\* Selects exist for three of the bool fields and echo true and false only.
Echoed(q) ==
  /\ <<"supervisor_managed">> \notin DOMAIN q
  /\ \A n \in boolFields \cap DOMAIN q :
       Get(q, n) \in {<<"true">>, <<"false">>, << >>}

\* formatMatcher escapes in a regex what unquoteMatcherValue leaves escaped.
Escaped(s) ==
  \E m \in matcherRE(TrimSpace(s)) :
    m.op \in Regex /\ Range(m.value) \cap {"\\", "\""} # {}

=============================================================================
