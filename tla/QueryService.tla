----------------------------- MODULE QueryService -----------------------------
(***************************************************************************)
(* One query through the parser and the plan builder, as the caller drives *)
(* them (spec 2: "a textual query enters B, is validated and dispatched by *)
(* kind; C resolves series ids; D assembles a plan; F constructs the       *)
(* pipeline").  The caller is outside this code: the dispatch on the kind  *)
(* and the order of the calls are taken from the spec; every call is the  *)
(* code's.                                                                 *)
(***************************************************************************)
EXTENDS QueryParser, QueryPlan, FiniteSets

CONSTANT Queries   \* the queries the client may send

VARIABLES
    query,   \* the query received
    kind,    \* QueryParser::get_query_kind's answer
    parsed,  \* the parse function's status and request (or id list)
    plan,    \* the QueryPlan stages, or PanicPlan
    topo,    \* parse_processing_topology's nodes
    phase    \* "idle", "received", "parsed", "planned", "ready",
             \* "listed" (meta query), "rejected" or "crashed"

vars == <<query, kind, parsed, plan, topo, phase>>

NoParse == [st |-> "none", req |-> EmptyRequest]

Init ==
    /\ query = <<>>
    /\ kind = "none"
    /\ parsed = NoParse
    /\ plan = <<>>
    /\ topo = <<>>
    /\ phase = "idle"

\* the client sends a query
Receive ==
    /\ phase = "idle"
    /\ \E q \in Queries : query' = q
    /\ phase' = "received"
    /\ UNCHANGED <<kind, parsed, plan, topo>>

\* get_query_kind, then the parse function of that kind
Dispatch(q, k) ==
    CASE k = "SELECT" -> ParseSelectQuery(q)
      [] k = "AGGREGATE" -> ParseAggregateQuery(q)
      [] k = "JOIN" -> ParseJoinQuery(q)
      [] k = "GROUP_AGGREGATE" -> ParseGroupAggregateQuery(q)

Parse ==
    /\ phase = "received"
    /\ LET gk == GetQueryKind(query)
       IN  /\ kind' = gk.kind
           /\ IF gk.st # OK
              THEN /\ parsed' = Fail(gk.st)
                   /\ phase' = "rejected"
              ELSE IF gk.kind = "SELECT_META"
              THEN LET r == ParseSelectMetaQuery(query)
                   IN  /\ parsed' = [st |-> r.st,
                                     req |-> [EmptyRequest EXCEPT !.columns = <<r.ids>>]]
                       /\ phase' = IF r.st = OK THEN "listed" ELSE "rejected"
              ELSE LET r == Dispatch(query, gk.kind)
                   IN  /\ parsed' = r
                       /\ phase' = CASE r.st = OK -> "parsed"
                                     [] r.st = Panic -> "crashed"
                                     [] OTHER -> "rejected"
    /\ UNCHANGED <<query, plan, topo>>

\* QueryPlan::QueryPlan(request)
BuildPlan ==
    /\ phase = "parsed"
    /\ plan' = CreatePlan(parsed.req)
    /\ phase' = IF plan' = PanicPlan THEN "crashed" ELSE "planned"
    /\ UNCHANGED <<query, kind, parsed, topo>>

\* QueryParser::parse_processing_topology
BuildTopology ==
    /\ phase = "planned"
    /\ topo' = ParseProcessingTopology(query)
    /\ phase' = "ready"
    /\ UNCHANGED <<query, kind, parsed, plan>>

Next == Receive \/ Parse \/ BuildPlan \/ BuildTopology

Spec == Init /\ [][Next]_vars

-----------------------------------------------------------------------------
Statuses == {OK, ParseError, BadArg, Panic, "none"}

TypeOK ==
    /\ query \in Queries \cup {<<>>}
    /\ kind \in {"none", "SELECT", "SELECT_META", "AGGREGATE", "JOIN",
                 "GROUP_AGGREGATE"}
    /\ parsed.st \in Statuses
    /\ phase \in {"idle", "received", "parsed", "planned", "ready", "listed",
                  "rejected", "crashed"}
    /\ plan = PanicPlan \/ plan \in Seq([tier : {1, 2}, op : STRING,
                                         ids : Seq(Nat), matcher : STRING,
                                         funcs : Seq(Funcs), step : Nat,
                                         card : Nat])

Accepted == phase \in {"parsed", "planned", "ready", "listed"}
Planned == phase \in {"planned", "ready"}

\* the where tags of the query, in order
WhereItems == IF Has(query, "where") THEN Get(query, "where") ELSE <<>>

\* the catalog ids a query over metric m selects, by spec 4.C
Selected(m) ==
    {i \in 1 .. Len(Catalog) :
        /\ Catalog[i].metric = m
        /\ \A j \in 1 .. Len(WhereItems) :
               /\ WhereItems[j].tag \in DOMAIN Catalog[i].tags
               /\ Catalog[i].tags[WhereItems[j].tag] \in WhereItems[j].vals}

\* the metric of the kind statement
QueryMetric ==
    CASE kind = "SELECT" -> Get(query, "select").metric
      [] kind = "AGGREGATE" -> Get(query, "aggregate")[1].metric
      [] kind = "JOIN" -> Get(query, "join")[1]
      [] OTHER -> ParseGroupAggregateStmt(query).metric

(***************************************************************************)
(* Where-clause resolution (parse_where_clause, SeriesRetreiver::          *)
(* extract_ids, the plan's tier 1): a planned query whose where tags are   *)
(* distinct scans exactly the series of its (first) metric whose tags take *)
(* one of the listed values for every where tag, each once, in id order.   *)
(***************************************************************************)
Tier1IdsMatchWhere ==
    Planned /\ kind # "JOIN"
    /\ Cardinality({WhereItems[j].tag : j \in 1 .. Len(WhereItems)}) = Len(WhereItems)
    => /\ {plan[1].ids[i] : i \in 1 .. Len(plan[1].ids)} = Selected(QueryMetric)
       /\ \A i \in 1 .. Len(plan[1].ids) - 1 : plan[1].ids[i] < plan[1].ids[i + 1]


(***************************************************************************)
(* Join (SeriesRetreiver::extract_ids for several metrics, the column      *)
(* split of parse_join_query, create_join's interleaving): column c of a   *)
(* planned join holds, row by row, the series of metric c with the tags of *)
(* the row's series of metric 1 (0 when there is none), column 1 being the *)
(* series of metric 1 the where clause selects; tier 1 scans the rows one  *)
(* after another, each row's columns in metric order.                      *)
(***************************************************************************)
JoinRowsAligned ==
    Planned /\ kind = "JOIN" =>
        LET ms   == Get(query, "join")
            cols == parsed.req.columns
            k    == Len(ms)
            n    == Len(cols[1])
        IN  /\ Len(cols) = k
            /\ {cols[1][j] : j \in 1 .. n} = Selected(ms[1])
            /\ \A c \in 1 .. k :
                  /\ Len(cols[c]) = n
                  /\ \A j \in 1 .. n :
                        cols[c][j] = SeriesId(ms[c], Catalog[cols[1][j]].tags)
            /\ Len(plan[1].ids) = n * k
            /\ \A j \in 1 .. n, c \in 1 .. k :
                  plan[1].ids[(j - 1) * k + c] = cols[c][j]

(***************************************************************************)
(* Plan shape (spec 4.D table, create_plan and its builders): the tier-1   *)
(* and tier-2 operators of a planned query are the ones its kind, its      *)
(* order-by and its group-by call for, with the query's functions and      *)
(* step; the request a parser builds never sends a query to the builder   *)
(* of another kind.                                                        *)
(***************************************************************************)
Series == ParseOrderBy(query).order = "series"
GroupBy == ParseGroupBy(query) # <<>>

ExpectedOps ==
    CASE kind = "SELECT" ->
           <<"SCAN_RANGE",
             IF GroupBy THEN IF Series THEN "MERGE_SERIES_ORDER" ELSE "MERGE_TIME_ORDER"
             ELSE IF Series THEN "CHAIN_SERIES" ELSE "MERGE_TIME_ORDER">>
      [] kind = "AGGREGATE" ->
           <<"AGGREGATE_RANGE", IF GroupBy THEN "AGGREGATE_COMBINE" ELSE "AGGREGATE">>
      [] kind = "GROUP_AGGREGATE" ->
           <<"GROUP_AGGREGATE_RANGE",
             IF Series THEN "SERIES_ORDER_AGGREGATE_MATERIALIZER"
             ELSE "TIME_ORDER_AGGREGATE_MATERIALIZER">>
      [] OTHER ->
           <<"SCAN_RANGE",
             IF Series THEN "MERGE_JOIN_SERIES_ORDER" ELSE "MERGE_JOIN_TIME_ORDER">>

PlanMatchesQuery ==
    Planned =>
        /\ <<plan[1].op, plan[2].op>> = ExpectedOps
        /\ kind = "GROUP_AGGREGATE" =>
              /\ plan[1].step = ParseGroupAggregateStmt(query).step
              /\ plan[2].funcs = ParseGroupAggregateStmt(query).funcs
        /\ kind = "AGGREGATE" => plan[2].funcs = <<Get(query, "aggregate")[1].func>>
        /\ kind = "JOIN" => plan[2].card = Len(Get(query, "join"))

(***************************************************************************)
(* Group-by tag (create_scan / create_aggregate with group-by, the         *)
(* transient map of GroupByTag): tier 2 of a planned select or aggregate   *)
(* with a group-by reads one id per tier-1 series, in the same order, and  *)
(* that id is the first series of the metric that agrees with it on the    *)
(* group-by tags.  (parse_join_query drops a group-by: "TODO".)            *)
(***************************************************************************)
GroupByTier2 ==
    Planned /\ GroupBy /\ kind \in {"SELECT", "AGGREGATE"} =>
        LET t1 == plan[1].ids
            t2 == plan[2].ids
            g  == ParseGroupBy(query)
        IN  /\ Len(t2) = Len(t1)
            /\ \A i \in 1 .. Len(t1) :
                  /\ Catalog[t2[i]].metric = Catalog[t1[i]].metric
                  /\ Project(Catalog[t2[i]], g) = Project(Catalog[t1[i]], g)
                  /\ \A r \in 1 .. t2[i] - 1 :
                        Catalog[r].metric = Catalog[t1[i]].metric
                        => Project(Catalog[r], g) # Project(Catalog[t1[i]], g)

-----------------------------------------------------------------------------
(* What the spec says of the parser, checked against the code.             *)

(***************************************************************************)
(* Spec 4.B and 8 (scenario 4): a query with a duplicate statement, or     *)
(* with two of select/aggregate/join/group-aggregate, is refused with      *)
(* EQUERY_PARSING_ERROR (validate_query).                                  *)
(***************************************************************************)
KeysOf(q) == {q[i].key : i \in 1 .. Len(q)}

ValidatorRejectsConflicts ==
    Accepted =>
        /\ Cardinality(KeysOf(query)) = Len(query)
        /\ Cardinality(KeysOf(query) \cap KindKeys) <= 1

(***************************************************************************)
(* Spec 4.B: a where tag appears at most once -- a query that repeats one  *)
(* is not accepted (parse_where_clause, SeriesRetreiver::add_tag).         *)
(***************************************************************************)
WhereTagsDistinct ==
    Accepted =>
        Cardinality({WhereItems[j].tag : j \in 1 .. Len(WhereItems)}) = Len(WhereItems)

(***************************************************************************)
(* Spec 4.E/9: the limiter skips `offset` samples and passes `limit`       *)
(* (parse_limit_offset, parse_processing_topology).                        *)
(***************************************************************************)
LimiterHonoursQuery ==
    phase = "ready" =>
        LET l == IF Has(query, "limit") THEN Get(query, "limit") ELSE 0
            o == IF Has(query, "offset") THEN Get(query, "offset") ELSE 0
        IN  /\ l # 0 \/ o # 0 => topo[1] = [node |-> "limiter", limit |-> l, offset |-> o]
            /\ topo[Len(topo)].node = "terminal"

(***************************************************************************)
(* Spec 4.D: the only accepted query the plan builder aborts on is a       *)
(* group-aggregate with a group-by ("not supported -- fatal"); the parser  *)
(* returns errors as statuses (spec 7), so nothing else crashes.           *)
(***************************************************************************)
CrashOnlyOnUnsupported ==
    phase = "crashed" => kind = "GROUP_AGGREGATE" /\ GroupBy

(***************************************************************************)
(* Spec 4.D: a join with a group-by is not supported ("fatal"): such a     *)
(* query is refused or aborts, it never yields a join plan that ignores    *)
(* the group-by (parse_join_query, create_join).                           *)
(***************************************************************************)
JoinGroupByRefused ==
    Planned /\ kind = "JOIN" => ~GroupBy

=============================================================================
