---------------------------- MODULE QueryString -----------------------------
(***************************************************************************)
(* The query string of the fleet page as both ends read and write it: the  *)
(* server parses filters and builds the links of the page, the script of   *)
(* the page (matcher.js) turns matchers into chips and chips into form     *)
(* fields.  No variables: Requests says who does what when.                *)
(*                                                                         *)
(* A text is a sequence of tokens: a character that the parsers look for   *)
(* (= ! ~ a blank, quotes, the backslash), or a word standing for any run  *)
(* of others; case folding is left out.  url.Values is a function from     *)
(* names to lists of texts; that Encode and ParseQuery are inverses is     *)
(* net/url's business.  A function that may fail returns the set of its    *)
(* result, and the empty set for an error.                                 *)
(***************************************************************************)
EXTENDS Integers, Sequences, FiniteSetsExt, TLC

CONSTANTS
  Number,       \* the tokens strconv.Atoi accepts, and their values
  BadPattern    \* tokens regexp.Compile refuses

ASSUME QueryStringAssumption ==
  /\ \A token \in DOMAIN Number : Number[token] \in Int

Quote == {"\"", "'"}

TrimSpace(s) ==
  LET solid == {i \in DOMAIN s : s[i] # " "} IN
  IF solid = {} THEN << >> ELSE SubSeq(s, Min(solid), Max(solid))

\* strconv.ParseBool.
ParseBool(s) ==
  CASE s \in {<<"true">>, <<"1">>}  -> {TRUE}
    [] s \in {<<"false">>, <<"0">>} -> {FALSE}
    [] OTHER                        -> {}

\* url.Values.Get, Set and Del.
Get(q, name) == IF name \in DOMAIN q THEN q[name][1] ELSE << >>
Del(q, name) == [n \in DOMAIN q \ {name} |-> q[n]]
Put(q, name, s) ==
  [n \in DOMAIN q \cup {name} |-> IF n = name THEN <<s>> ELSE q[n]]

-----------------------------------------------------------------------------
(* Matchers.                                                               *)

\* (!~|=~|!=|=) at a place, or nothing.
operatorAt(s, i) ==
  IF i \in DOMAIN s /\ i + 1 \in DOMAIN s
     /\ SubSeq(s, i, i + 1) \in {<<"!", "~">>, <<"=", "~">>, <<"!", "=">>}
    THEN SubSeq(s, i, i + 1)
  ELSE IF i \in DOMAIN s /\ s[i] = "=" THEN <<"=">>
  ELSE << >>

\* The first place after i that is not blank.
afterBlanks(s, i) == Min({j \in i + 1 .. Len(s) + 1 : j > Len(s) \/ s[j] # " "})

\* ^(.+?)\s*(!~|=~|!=|=)\s*(.*)$ : the shortest key that leaves an operator.
matcherRE(s) ==
  LET ends == {i \in DOMAIN s : operatorAt(s, afterBlanks(s, i)) # << >>} IN
  IF ends = {} THEN {}
  ELSE LET place == afterBlanks(s, Min(ends))
           op    == operatorAt(s, place)
           value == afterBlanks(s, place + Len(op) - 1)
       IN  {[ key   |-> TrimSpace(SubSeq(s, 1, Min(ends))),
              op    |-> op,
              value |-> SubSeq(s, value, Len(s)) ]}

unquoteMatcherValue(s) ==
  LET t == TrimSpace(s) IN
  IF Len(t) >= 2 /\ t[1] \in Quote /\ t[Len(t)] = t[1]
    THEN SubSeq(t, 2, Len(t) - 1) ELSE t

Regex == {<<"=", "~">>, <<"!", "~">>}

ParseMatcher(s) ==
  {m \in {[parts EXCEPT !.value = unquoteMatcherValue(@)] :
             parts \in matcherRE(TrimSpace(s))} :
     m.op \in Regex => Range(m.value) \cap BadPattern = {}}

-----------------------------------------------------------------------------
(* The server: filters out of a query, and links into one.                 *)

reservedParams ==
  {<<"limit">>, <<"offset">>, <<"sort">>, <<"order">>, <<"match">>,
   <<"attr_key">>, <<"attr_value">>}

boolFields ==
  {<<"healthy">>, <<"connected">>, <<"via_gateway">>, <<"supervisor_managed">>}

\* The matcher texts of the match parameters that are not blank.
matchParams(q) ==
  IF <<"match">> \notin DOMAIN q THEN {}
  ELSE {TrimSpace(s) : s \in Range(q[<<"match">>])} \ {<< >>}

legacyMatch(q) ==
  LET key == TrimSpace(Get(q, <<"attr_key">>)) IN
  IF key = << >> THEN {} ELSE {key \o <<"=">> \o Get(q, <<"attr_value">>)}

\* Matchers are ANDed, so a set of them will do.
ParseFilters(q) ==
  LET set   == {n \in DOMAIN q \ reservedParams : TrimSpace(q[n][1]) # << >>}
      bool  == [n \in set \cap boolFields |-> ParseBool(TrimSpace(q[n][1]))]
      texts == {n \o <<"=">> \o TrimSpace(q[n][1]) : n \in set \ boolFields}
                 \cup matchParams(q) \cup legacyMatch(q)
  IN  IF \/ \E n \in DOMAIN bool : bool[n] = {}
         \/ \E s \in texts : ParseMatcher(s) = {}
        THEN {}
      ELSE {[ matchers |-> UNION {ParseMatcher(s) : s \in texts},
              bools    |-> [n \in DOMAIN bool |-> bool[n] = {TRUE}] ]}

\* The UI's parsePagination; only whether it refuses.
validPagination(q) ==
  /\ Get(q, <<"limit">>) # << >> =>
       \E token \in DOMAIN Number :
         Get(q, <<"limit">>) = <<token>> /\ Number[token] > 0
  /\ Get(q, <<"offset">>) # << >> =>
       \E token \in DOMAIN Number :
         Get(q, <<"offset">>) = <<token>> /\ Number[token] >= 0

sortColumns ==
  {<<"status">>, <<"name">>, <<"role">>, <<"version">>, <<"via">>,
   <<"transport">>, <<"last_seen">>, <<"instance">>}

parseSort(q) ==
  LET column == TrimSpace(Get(q, <<"sort">>))
      key    == IF column \in sortColumns THEN column ELSE <<"instance">>
      order  == TrimSpace(Get(q, <<"order">>))
  IN  IF Get(q, <<"sort">>) = << >> THEN [key |-> <<"instance">>, order |-> <<"asc">>]
      ELSE [ key   |-> key,
             order |-> IF order \in {<<"asc">>, <<"desc">>} THEN order
                       ELSE IF key = <<"last_seen">> /\ Get(q, <<"order">>) = << >>
                         THEN <<"desc">> ELSE <<"asc">> ]

nextOrder(column, sort) ==
  IF sort.key = column
    THEN IF sort.order = <<"asc">> THEN <<"desc">> ELSE <<"asc">>
  ELSE IF column = <<"last_seen">> THEN <<"desc">> ELSE <<"asc">>

\* Mutant of sortHref: the page's query is not taken along.
sortHrefFresh(q, column, sort) ==
  Put(Put(<< >>, <<"sort">>, column), <<"order">>, nextOrder(column, sort))

sortHref(q, column, sort) ==
  Put(Put(Del(q, <<"offset">>), <<"sort">>, column),
      <<"order">>, nextOrder(column, sort))

queryWith(q, name, s) == IF s = << >> THEN Del(q, name) ELSE Put(q, name, s)

\* Its list of reserved names lacks supervisor_managed.
collectMatches(q) ==
  LET reserved ==
        {<<"limit">>, <<"offset">>, <<"sort">>, <<"order">>, <<"healthy">>,
         <<"connected">>, <<"via_gateway">>, <<"match">>, <<"attr_key">>,
         <<"attr_value">>}
  IN  matchParams(q) \cup legacyMatch(q)
        \cup {n \o <<"=">> \o q[n][1] :
                n \in {x \in DOMAIN q \ reserved : TrimSpace(q[x][1]) # << >>}}

-----------------------------------------------------------------------------
(* The page's script.  OP_RE is the server's matcherRE.                    *)


\* A regex with a blank is put in quotes, its own quotes and backslashes
\* escaped.
formatMatcher(key, op, value) ==
  LET quoted  == op \in Regex /\ value # << >> /\ value[1] \notin Quote
                   /\ Range(value) \cap {" ", "#"} # {}
      escaped[i \in 0 .. Len(value)] ==
        IF i = 0 THEN << >>
        ELSE escaped[i - 1] \o IF value[i] \in {"\\", "\""} THEN <<"\\", value[i]>>
                              ELSE <<value[i]>>
  IN  key \o <<" ">> \o op \o <<" ">>
        \o (IF quoted THEN <<"\"">> \o escaped[Len(value)] \o <<"\"">> ELSE value)

\* The input's text as a chip, if it is a whole matcher.
pendingChip(input) ==
  {formatMatcher(m.key, m.op, m.value) : m \in matcherRE(TrimSpace(input))}

\* The form of a page: selects echo only true and false, chips come from
\* data-matches, trimmed and without repetition.
formOf(q) ==
  [ selects |-> [n \in {<<"healthy">>, <<"connected">>, <<"via_gateway">>} |->
                   IF Get(q, n) \in {<<"true">>, <<"false">>}
                     THEN Get(q, n) ELSE << >>],
    chips   |-> {TrimSpace(s) : s \in collectMatches(q)} \ {<< >>},
    input   |-> << >> ]

\* A chip goes back into the input; a whole matcher found there becomes a chip
\* first.
editChip(form, chip) ==
  LET pending == IF TrimSpace(form.input) = chip THEN {} ELSE pendingChip(form.input)
  IN  [form EXCEPT
         !.chips = (form.chips \cup pending) \ {chip},
         !.input = IF matcherRE(chip) = {} THEN chip
                   ELSE CHOOSE s \in pendingChip(chip) : TRUE]

\* The click on an attribute in the table.
onAddMatch(form, key, value) ==
  [form EXCEPT !.chips = @ \cup {formatMatcher(key, <<"=">>, value)},
               !.input = << >>]

\* The query a submit sends.
submitted(form) ==
  LET chips == form.chips \cup pendingChip(form.input) IN
  [n \in DOMAIN form.selects |-> <<form.selects[n]>>]
    @@ [n \in {<<"match">> : chip \in chips} |->
          CHOOSE list \in Bijection(1 .. Cardinality(chips), chips) : TRUE]
=============================================================================
