----------------------------- MODULE FleetQuery -----------------------------
(***************************************************************************)
(* What a read request computes from the agents it has read and merged:    *)
(* the filters, sorts and pages of the API and the UI.  No variables.      *)
(*                                                                         *)
(* Strings that are only compared (instance_uids, attribute values, roles, *)
(* transports) are naturals in their order, 0 the empty string; case       *)
(* folding is left out.  A query parameter that is absent is Nil.          *)
(***************************************************************************)
EXTENDS FleetMerge

CONSTANTS
  Key,            \* attribute keys
  Health,         \* the component_health section
  Supervisor,     \* supervisorManagedByValue
  GatewayName,    \* service.names that contain "gateway"
  GatewayRole,
  CollectorRole,
  DefaultLimit,
  MaxLimit

ASSUME QueryAssumption ==
  /\ Conn \subseteq [viaGateway : BOOLEAN, transport : Nat]
  /\ {"service.name", "host.name", "service.component", "service.version",
      "opamp.managed_by"} \subseteq Key
  /\ Health \in Section \ {Description, EffectiveConfig}
  /\ {GatewayRole, CollectorRole} \subseteq Nat
  /\ {DefaultLimit, MaxLimit} \subseteq Nat \ {0}

\* A message whose sections hold attributes and health as those do.
Readable(msg) ==
  /\ \/ msg[Description] = Nil
     \/ msg[Description] \in [identifying    : [Key -> Nat \cup {Nil}],
                              nonIdentifying : [Key -> Nat \cup {Nil}]]
  /\ msg[Health] = Nil \/ msg[Health] \in [healthy : BOOLEAN]

-----------------------------------------------------------------------------
(* One agent.                                                              *)

\* Identifying attributes shadow the others of the same key.
attrValue(a, key) ==
  LET description == a.fields[Description] IN
  IF description = Nil THEN Nil
  ELSE IF description.identifying[key] # Nil THEN description.identifying[key]
  ELSE description.nonIdentifying[key]

Attr(a, key) == IF attrValue(a, key) = Nil THEN 0 ELSE attrValue(a, key)

SupervisorManaged(a) == Attr(a, "opamp.managed_by") = Supervisor

HealthReported(a) == a.fields[Health] # Nil

Healthy(a) == IF HealthReported(a) THEN a.fields[Health].healthy ELSE FALSE

RoleOf(a) ==
  IF Attr(a, "service.component") # 0 THEN Attr(a, "service.component")
  ELSE IF Attr(a, "service.name") \in GatewayName THEN GatewayRole
  ELSE CollectorRole

DisplayNameOf(a) ==
  IF Attr(a, "service.name") # 0 THEN Attr(a, "service.name")
  ELSE IF Attr(a, "host.name") # 0 THEN Attr(a, "host.name")
  ELSE a.uid

-----------------------------------------------------------------------------
(* Filters.  A matcher's values are those it selects: one for = and !=,    *)
(* the full matches of the pattern for =~ and !~.                          *)

matchAttr(a, m) ==
  LET got == attrValue(a, m.key) IN
  IF m.op \in {"=", "=~"} THEN got # Nil /\ got \in m.values
  ELSE got = Nil \/ got \notin m.values

Negation == [op \in {"=", "!=", "=~", "!~"} |->
  CASE op = "=" -> "!=" [] op = "!=" -> "=" [] op = "=~" -> "!~" [] op = "!~" -> "=~"]

boolFields == {"healthy", "connected", "via_gateway", "supervisor_managed"}

boolField(a, key) ==
  CASE key = "healthy"            -> Healthy(a)
    [] key = "connected"          -> a.connected
    [] key = "via_gateway"        -> a.conn.viaGateway
    [] key = "supervisor_managed" -> SupervisorManaged(a)

\* filters: a set of matchers and the wanted values of some bool fields.
AgentMatches(a, f) ==
  /\ \A m \in f.matchers : matchAttr(a, m)
  /\ \A key \in DOMAIN f.bools : boolField(a, key) = f.bools[key]

MatchingAgents(agents, f) ==
  LET matched[i \in 0 .. Len(agents)] ==
        IF i = 0 THEN << >>
        ELSE IF AgentMatches(agents[i], f) THEN Append(matched[i - 1], agents[i])
        ELSE matched[i - 1]
  IN  matched[Len(agents)]

-----------------------------------------------------------------------------
(* Pages.                                                                  *)

Minimum(x, y) == IF x < y THEN x ELSE y

\* Nil when the request is refused.
parsePagination(q) ==
  IF q.limit # Nil /\ q.limit <= 0 THEN Nil
  ELSE IF q.offset # Nil /\ q.offset < 0 THEN Nil
  ELSE [ limit  |-> IF q.limit = Nil THEN DefaultLimit
                    ELSE Minimum(q.limit, MaxLimit),
         offset |-> IF q.offset = Nil THEN 0 ELSE q.offset ]

\* agents[start:end] of a Go slice.
Slice(agents, start, end) == SubSeq(agents, start + 1, end)

\* The agents of a slice, which are distinct, in order.
sortByInstanceUID(S) ==
  CHOOSE s \in InAnyOrder(S) :
    \A i, j \in DOMAIN s : i < j => s[i].uid < s[j].uid

\* Mutant of keepSmallest: the root is compared the other way round.
keepSmallestWrong(h, a, end) ==
  IF Cardinality(h) < end THEN h \cup {a}
  ELSE LET root == CHOOSE b \in h : \A c \in h : c.uid <= b.uid
       IN  IF a.uid > root.uid THEN (h \ {root}) \cup {a} ELSE h

\* One turn of the loop: the heap's root is its largest instance_uid.
keepSmallest(h, a, end) ==
  IF Cardinality(h) < end THEN h \cup {a}
  ELSE LET root == CHOOSE b \in h : \A c \in h : c.uid <= b.uid
       IN  IF a.uid < root.uid THEN (h \ {root}) \cup {a} ELSE h

pageByInstanceUID(agents, start, end) ==
  IF end = 0 THEN << >>
  ELSE IF end >= Len(agents)
    THEN Slice(sortByInstanceUID(Range(agents)), start, end)
  ELSE LET h[i \in 0 .. Len(agents)] ==
             IF i = 0 THEN {} ELSE keepSmallest(h[i - 1], agents[i], end)
       IN  Slice(sortByInstanceUID(h[Len(agents)]), start, end)

\* GET /api/agents, once registry and store are read and merged.
listAgents(merged, q, f) ==
  LET matched == MatchingAgents(merged, f)
      p       == parsePagination(q)
      start   == Minimum(p.offset, Len(matched))
      end     == Minimum(start + p.limit, Len(matched))
  IN  [total |-> Len(matched), page |-> pageByInstanceUID(matched, start, end)]

-----------------------------------------------------------------------------
(* The UI's fleet table.                                                   *)

sortColumns == {"status", "name", "role", "version", "via", "transport",
                "last_seen", "instance"}

parseSort(q) ==
  IF q.sort = Nil THEN [key |-> "instance", order |-> "asc"]
  ELSE LET key == IF q.sort \in sortColumns THEN q.sort ELSE "instance" IN
       [ key   |-> key,
         order |-> IF q.order \in {"asc", "desc"} THEN q.order
                   ELSE IF key = "last_seen" /\ q.order = Nil THEN "desc"
                   ELSE "asc" ]

statusRank(a) ==
  IF ~a.connected THEN 3
  ELSE IF ~HealthReported(a) THEN 2
  ELSE IF Healthy(a) THEN 0 ELSE 1

sortValue(a, key) ==
  CASE key = "status"    -> statusRank(a)
    [] key = "name"      -> DisplayNameOf(a)
    [] key = "role"      -> RoleOf(a)
    [] key = "version"   -> Attr(a, "service.version")
    [] key = "via"       -> IF a.conn.viaGateway THEN 1 ELSE 0
    [] key = "transport" -> a.conn.transport
    [] key = "last_seen" -> a.lastSeen
    [] key = "instance"  -> a.uid

\* Mutant of compare: equal columns compare equal.
compareColumn(a, b, key) == sortValue(a, key) - sortValue(b, key)

compare(a, b, key) ==
  IF sortValue(a, key) # sortValue(b, key)
    THEN sortValue(a, key) - sortValue(b, key) ELSE a.uid - b.uid

\* slices.SortFunc is not stable: any order that compare allows may come out.
sortAgents(agents, sort) ==
  LET before(a, b) == IF sort.order = "desc" THEN compare(a, b, sort.key) >= 0
                      ELSE compare(a, b, sort.key) <= 0
      ordered == {p \in Injection(DOMAIN agents, DOMAIN agents) :
                    \A i, j \in DOMAIN agents :
                      i < j => before(agents[p[i]], agents[p[j]])}
  IN  {[i \in DOMAIN agents |-> agents[p[i]]] : p \in ordered}

\* The pages GET / may show once registry and store are read and merged.
fleetData(merged, q, f) ==
  LET matched == MatchingAgents(merged, f)
      p       == parsePagination(q)
      start   == Minimum(p.offset, Len(matched))
      end     == Minimum(start + p.limit, Len(matched))
  IN  {Slice(s, start, end) : s \in sortAgents(matched, parseSort(q))}

pageCount(total, limit) ==
  IF total <= 0 \/ limit <= 0 THEN 0 ELSE (total + limit - 1) \div limit

pageOffset(page, limit) ==
  IF limit <= 0 THEN 0 ELSE ((IF page < 1 THEN 1 ELSE page) - 1) * limit

pageList(total, limit) == [i \in 1 .. pageCount(total, limit) |-> i]
=============================================================================
