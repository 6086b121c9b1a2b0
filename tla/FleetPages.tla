----------------------------- MODULE FleetPages -----------------------------
(***************************************************************************)
(* What the pages of a fleet list show, between them, of the agents a      *)
(* request of FleetRead has read and merged.                               *)
(***************************************************************************)
EXTENDS FleetRead, FleetQuery

CONSTANTS
  Limits,         \* the limit parameters of the requests
  Matchers,       \* the match parameters of the requests
  Sorts           \* their sort and order parameters

ASSUME FleetPagesAssumption ==
  /\ \A msg \in Messages \cup {FirstMessage[id] : id \in Uid} : Readable(msg)
  /\ Limits \subseteq (Nat \ {0}) \cup {Nil}
  /\ Matchers \subseteq [key : Key, op : DOMAIN Negation, values : SUBSET Nat]

Asking(limit, page, sort, order) ==
  LET size == parsePagination([limit |-> limit, offset |-> Nil]).limit IN
  [ limit |-> limit, offset |-> pageOffset(page, size),
    sort |-> sort, order |-> order ]

PagesOf(total, limit) ==
  Range(pageList(total, parsePagination([limit |-> limit, offset |-> Nil]).limit))

\* Filters that exclude each other: a matcher and its negation, a flag and its
\* opposite.
Opposites ==
  {<< [matchers |-> {m}, bools |-> << >>],
      [matchers |-> {[m EXCEPT !.op = Negation[m.op]]}, bools |-> << >>] >> :
     m \in Matchers}
  \cup
  {<< [matchers |-> {}, bools |-> [k \in {key} |-> TRUE]],
      [matchers |-> {}, bools |-> [k \in {key} |-> FALSE]] >> :
     key \in boolFields}

\* GET /api/agents with a filter and with its opposite, each paged through to
\* its total, between them show every merged agent once: the heap that selects
\* a page loses nobody, and an agent passes exactly one of the two filters,
\* also one that has not reported what they ask about.
ApiPagesPartition ==
  step = "merged" =>
    LET merged == Merged IN
    \A limit \in Limits, pair \in Opposites :
      LET pages(f) ==
            LET ask(page) == listAgents(merged, Asking(limit, page, Nil, Nil), f)
            IN  {<<page, Uids(ask(page).page)>> : page \in PagesOf(ask(1).total, limit)}
          yes == pages(pair[1])
          no  == pages(pair[2])
      IN  \A id \in Uids(merged) :
            Cardinality({p \in yes : id \in p[2]})
              + Cardinality({p \in no : id \in p[2]}) = 1

\* The pages the UI links to, in the order that was asked for, show every
\* agent on exactly one page, although every page is a request that sorts the
\* fleet afresh with a sort that is not stable.
UiPagesCover ==
  step = "merged" =>
    LET merged == Merged IN
    \A limit \in Limits, by \in Sorts :
      LET pages == PagesOf(Len(merged), limit)
          shows(page) == fleetData(merged, Asking(limit, page, by[1], by[2]),
                                   [matchers |-> {}, bools |-> << >>])
          shown == UNION {{<<page, Uids(some)>> : some \in shows(page)} : page \in pages}
      IN  \A id \in Uids(merged) :
            \E home \in pages : \A p \in shown : id \in p[2] <=> p[1] = home
=============================================================================
