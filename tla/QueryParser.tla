----------------------------- MODULE QueryParser -----------------------------
(***************************************************************************)
(* QueryParser (query_processing/queryparser.cpp): a JSON query, as the    *)
(* property tree boost reads it, is validated and turned into a            *)
(* ReshapeRequest whose columns hold the series ids resolved against the   *)
(* series matcher.  Every parser function is pure; each is an operator     *)
(* that follows the code's early returns in order.                         *)
(*                                                                         *)
(* Data abstraction.  A query is the sequence of its top-level statements, *)
(* in document order, duplicates kept: [key |-> k, val |-> v].  The values *)
(* are what the parser tells apart:                                        *)
(*   select          [obj: an object?, meta: begins with meta:names?,      *)
(*                    metric: the metric named, or NoMetric]               *)
(*   aggregate       sequence of [metric, func] pairs                      *)
(*   join            sequence of metric names                              *)
(*   group-aggregate sequence of fields [field, step, metric, funcs]       *)
(*   order-by        "time", "series" or any other string "bad"            *)
(*   group-by        sequence of tag names                                 *)
(*   limit, offset   the number                                            *)
(*   range           the subset of {"from", "to"} present and parseable    *)
(*   where           sequence of [tag, vals]                               *)
(* A series name is [metric, tags] with tags a function from tag names to  *)
(* values (the canonical form sorts them); the catalog is the sequence of  *)
(* names in the order they were added, so the id of Catalog[i] is i.       *)
(***************************************************************************)
EXTENDS Integers, Sequences, SequencesExt, TLC

CONSTANTS
    Metrics,    \* metric names
    TagKeys,    \* tag names
    TagValues,  \* tag values
    Funcs,      \* names Aggregation::from_string accepts
    Catalog     \* the series matcher's names, in id order

NoMetric == "none"
NoId == 0

\* DateTimeUtil::parse_duration throws BadDateTimeFormat
BadDuration == -1

KindKeys == {"select", "aggregate", "join", "group-aggregate"}

\* validate_query's ALLOWED_STMTS
AllowedKeys == KindKeys \cup {"output", "order-by", "group-by", "limit",
                              "offset", "range", "where"}

OK == "SUCCESS"
ParseError == "EQUERY_PARSING_ERROR"
BadArg == "EBAD_ARG"
Panic == "PANIC"   \* AKU_PANIC: the process aborts

-----------------------------------------------------------------------------
\* ptree.get_child_optional(key): the first statement with that key
Has(q, k) == \E i \in 1 .. Len(q) : q[i].key = k
Get(q, k) == q[SelectInSeq(q, LAMBDA st : st.key = k)].val

\* validate_query.  The set `keywords` is never inserted into, so the
\* duplicate check and the mutual-exclusion check never fire: only a key
\* outside ALLOWED_STMTS is rejected.
ValidateQuery(q) ==
    IF \E i \in 1 .. Len(q) : q[i].key \notin AllowedKeys THEN ParseError
    ELSE OK

\* QueryParser::get_query_kind: the first kind statement decides
GetQueryKind(q) ==
    LET i == SelectInSeq(q, LAMBDA st : st.key \in KindKeys)
    IN  IF i = 0 THEN [st |-> ParseError, kind |-> "SELECT"]
        ELSE IF q[i].key = "select"
             THEN IF Get(q, "select").obj
                  THEN [st |-> ParseError, kind |-> "SELECT"]
                  ELSE IF Get(q, "select").meta
                  THEN [st |-> OK, kind |-> "SELECT_META"]
                  ELSE [st |-> OK, kind |-> "SELECT"]
        ELSE [st |-> OK,
              kind |-> CASE q[i].key = "aggregate" -> "AGGREGATE"
                         [] q[i].key = "join" -> "JOIN"
                         [] OTHER -> "GROUP_AGGREGATE"]

\* parse_select_stmt: a string value (an object is an error)
SelectStmtOK(q) == Has(q, "select") /\ ~Get(q, "select").obj

\* parse_orderby: default time
ParseOrderBy(q) ==
    IF ~Has(q, "order-by") THEN [st |-> OK, order |-> "time"]
    ELSE IF Get(q, "order-by") \in {"time", "series"}
         THEN [st |-> OK, order |-> Get(q, "order-by")]
    ELSE [st |-> ParseError, order |-> "time"]

\* parse_groupby: the tag names (every item is a string)
ParseGroupBy(q) == IF Has(q, "group-by") THEN Get(q, "group-by") ELSE <<>>

\* parse_range_timestamp: both from and to must parse
RangeOK(q) == Has(q, "range") /\ Get(q, "range") = {"from", "to"}

\* parse_limit_offset
ParseLimitOffset(q) ==
    LET l1 == IF Has(q, "limit") THEN Get(q, "limit") ELSE 0
        l2 == IF Has(q, "offset") THEN Get(q, "offset") ELSE l1
    IN  [limit |-> l2, offset |-> 0]

-----------------------------------------------------------------------------
(* Where-clause resolution: SeriesRetreiver and parse_where_clause.        *)

\* the series matcher: SeriesMatcher::match of a name, 0 when unknown
SeriesId(m, tags) ==
    LET i == SelectInSeq(Catalog, LAMBDA n : n = [metric |-> m, tags |-> tags])
    IN  IF i = 0 THEN NoId ELSE i

\* the regex SeriesRetreiver::extract_ids builds: the metric, then for each
\* tag (std::map order, which is the canonical order) one of its values
\* mutant: a regex that requires each where tag but not its values
NameMatchesAnyValue(n, m, tags_) ==
    /\ n.metric = m
    /\ \A k \in DOMAIN tags_ : k \in DOMAIN n.tags

NameMatches(n, m, tags_) ==
    /\ n.metric = m
    /\ \A k \in DOMAIN tags_ : k \in DOMAIN n.tags /\ n.tags[k] \in tags_[k]

\* regex_match scans the pool in insertion order: ids ascending
MatchingIds(m, tags_) ==
    SelectSeq([i \in 1 .. Len(Catalog) |-> i],
              LAMBDA i : NameMatches(Catalog[i], m, tags_))

\* SeriesRetreiver::add_tag / add_tags over the where items: a tag already
\* set is refused with EBAD_ARG, which parse_where_clause ignores, so the
\* first occurrence of a tag wins.
WhereTags(w) ==
    [k \in {w[i].tag : i \in 1 .. Len(w)} |->
        w[SelectInSeq(w, LAMBDA it : it.tag = k)].vals]

\* SeriesRetreiver::extract_ids.  For every further metric, each matched
\* name's tags are re-matched under that metric (0 when missing); the
\* result is column-major: all ids of metric 1, then all of metric 2 ...
ExtractIds(metrics, tags_) ==
    IF metrics = <<>> THEN [i \in 1 .. Len(Catalog) |-> i]
    ELSE LET ids == MatchingIds(metrics[1], tags_)
             alt(m) == [j \in 1 .. Len(ids) |-> SeriesId(m, Catalog[ids[j]].tags)]
         IN  ids \o FlattenSeq([c \in 1 .. Len(metrics) - 1 |-> alt(metrics[c + 1])])

\* parse_where_clause
ParseWhereClause(q, metrics) ==
    IF Has(q, "where")
    THEN IF metrics = <<>> THEN [st |-> ParseError, ids |-> <<>>]
         ELSE [st |-> OK, ids |-> ExtractIds(metrics, WhereTags(Get(q, "where")))]
    ELSE [st |-> OK, ids |-> ExtractIds(metrics, <<>>)]

-----------------------------------------------------------------------------
(* GroupByTag (a class outside this code, spec 4.B/4.D): the transient map *)
(* sends every series of the metric to the representative of its group --  *)
(* the first series with the same tags on the group-by tag names.          *)
Project(n, gtags) ==
    [k \in {gtags[i] : i \in 1 .. Len(gtags)} \cap DOMAIN n.tags |-> n.tags[k]]

TransientMap(m, gtags) ==
    LET members == {i \in 1 .. Len(Catalog) : Catalog[i].metric = m}
    IN  [i \in members |->
            CHOOSE r \in members :
                /\ Project(Catalog[r], gtags) = Project(Catalog[i], gtags)
                /\ \A r2 \in members :
                       Project(Catalog[r2], gtags) = Project(Catalog[i], gtags)
                       => r <= r2]

\* The ReshapeRequest `result = {}` every parse function starts from
EmptyRequest ==
    [agg      |-> [enabled |-> FALSE, funcs |-> <<>>, step |-> 0],
     columns  |-> <<>>,
     order    |-> "time",
     group_by |-> [enabled |-> FALSE, tmap |-> <<>>, matcher |-> "none"],
     matcher  |-> "none"]

\* the group-by part of a request: tier-1 matcher and transient map
WithGroupBy(req, m, gtags) ==
    IF gtags = <<>> THEN [req EXCEPT !.group_by.enabled = FALSE]
    ELSE [req EXCEPT !.group_by.enabled = TRUE,
                     !.group_by.tmap = TransientMap(m, gtags),
                     !.matcher = "groupby"]

Fail(st) == [st |-> st, req |-> EmptyRequest]

\* QueryParser::parse_select_query
ParseSelectQuery(q) ==
    LET metric == Get(q, "select").metric
        tags   == ParseGroupBy(q)
        ob     == ParseOrderBy(q)
        wh     == ParseWhereClause(q, <<metric>>)
    IN  IF ValidateQuery(q) # OK THEN Fail(ValidateQuery(q))
        ELSE IF ~SelectStmtOK(q) THEN Fail(ParseError)
        ELSE IF ob.st # OK THEN Fail(ob.st)
        ELSE IF wh.st # OK THEN Fail(wh.st)
        ELSE IF ~RangeOK(q) THEN Fail(ParseError)
        ELSE [st |-> OK,
              req |-> WithGroupBy([EmptyRequest EXCEPT !.columns = <<wh.ids>>,
                                                       !.order = ob.order,
                                                       !.matcher = "global"],
                                  metric, tags)]

\* parse_aggregate_stmt: the first metric/function pair
ParseAggregateStmt(q) ==
    IF Has(q, "aggregate") /\ Get(q, "aggregate") # <<>>
    THEN [st |-> OK, metric |-> Get(q, "aggregate")[1].metric,
          func |-> Get(q, "aggregate")[1].func]
    ELSE [st |-> ParseError, metric |-> NoMetric, func |-> "cnt"]

\* QueryParser::parse_aggregate_query (order-by is refused; series order)
ParseAggregateQuery(q) ==
    LET as   == ParseAggregateStmt(q)
        tags == ParseGroupBy(q)
        wh   == ParseWhereClause(q, <<as.metric>>)
    IN  IF ValidateQuery(q) # OK THEN Fail(ValidateQuery(q))
        ELSE IF as.st # OK THEN Fail(as.st)
        ELSE IF as.func \notin Funcs THEN Fail(BadArg)
        ELSE IF Has(q, "order-by") THEN Fail(ParseError)
        ELSE IF wh.st # OK THEN Fail(wh.st)
        ELSE IF ~RangeOK(q) THEN Fail(ParseError)
        ELSE [st |-> OK,
              req |-> WithGroupBy([EmptyRequest EXCEPT
                                      !.agg = [enabled |-> TRUE,
                                               funcs |-> <<as.func>>, step |-> 0],
                                      !.columns = <<wh.ids>>,
                                      !.order = "series",
                                      !.matcher = "global"],
                                  as.metric, tags)]

\* parse_group_aggregate_stmt: one step of the loop over the fields; a
\* duplicate field, or a function name from_string refuses, breaks out;
\* a step that does not parse is logged and skipped.  A func field reads
\* its names through aggregate->get_child("func"), the FIRST func field of
\* the statement (first).
\* mutant: a step that does not parse is stored as it is
GAStepUnchecked(acc, fld, first) ==
    IF acc.stop THEN acc
    ELSE CASE fld.field = "step" ->
              IF acc.c0 THEN [acc EXCEPT !.stop = TRUE]
              ELSE [acc EXCEPT !.step = fld.step, !.c0 = TRUE]
           [] fld.field = "metric" ->
              IF acc.c1 THEN [acc EXCEPT !.stop = TRUE]
              ELSE [acc EXCEPT !.metric = fld.metric, !.c1 = TRUE]
           [] fld.field = "func" ->
              IF acc.c2 THEN [acc EXCEPT !.stop = TRUE]
              ELSE LET bad == SelectInSeq(first, LAMBDA fn : fn \notin Funcs)
                   IN  IF bad # 0
                       THEN [acc EXCEPT !.funcs = @ \o SubSeq(first, 1, bad - 1),
                                        !.stop = TRUE]
                       ELSE [acc EXCEPT !.funcs = @ \o first,
                                        !.c2 = first # <<>>]
           [] OTHER -> acc

GAStep(acc, fld, first) ==
    IF acc.stop THEN acc
    ELSE CASE fld.field = "step" ->
              IF acc.c0 THEN [acc EXCEPT !.stop = TRUE]
              ELSE IF fld.step = BadDuration THEN acc
              ELSE [acc EXCEPT !.step = fld.step, !.c0 = TRUE]
           [] fld.field = "metric" ->
              IF acc.c1 THEN [acc EXCEPT !.stop = TRUE]
              ELSE [acc EXCEPT !.metric = fld.metric, !.c1 = TRUE]
           [] fld.field = "func" ->
              IF acc.c2 THEN [acc EXCEPT !.stop = TRUE]
              ELSE LET bad == SelectInSeq(first, LAMBDA fn : fn \notin Funcs)
                   IN  IF bad # 0
                       THEN [acc EXCEPT !.funcs = @ \o SubSeq(first, 1, bad - 1),
                                        !.stop = TRUE]
                       ELSE [acc EXCEPT !.funcs = @ \o first,
                                        !.c2 = first # <<>>]
           [] OTHER -> acc

\* parse_group_aggregate_stmt: complete when step, metric and func are set
ParseGroupAggregateStmt(q) ==
    LET init == [c0 |-> FALSE, c1 |-> FALSE, c2 |-> FALSE, stop |-> FALSE,
                 step |-> 0, metric |-> NoMetric, funcs |-> <<>>]
        stmt == Get(q, "group-aggregate")
        first == IF \E k \in 1 .. Len(stmt) : stmt[k].field = "func"
                 THEN stmt[SelectInSeq(stmt, LAMBDA f : f.field = "func")].funcs
                 ELSE <<>>
        step(acc, fld) == GAStep(acc, fld, first)
        r    == IF Has(q, "group-aggregate")
                THEN FoldLeft(step, init, stmt)
                ELSE init
    IN  r

\* QueryParser::parse_group_aggregate_query.  An empty function list and
\* a zero step return the status of the statement parse -- SUCCESS --
\* with the empty request.  The status of init_matcher_in_group_aggregate
\* is overwritten; its prefix check cannot fail on ids of the metric.
ParseGroupAggregateQuery(q) ==
    LET ga   == ParseGroupAggregateStmt(q)
        tags == ParseGroupBy(q)
        wh   == ParseWhereClause(q, <<ga.metric>>)
        ob   == ParseOrderBy(q)
    IN  IF ValidateQuery(q) # OK THEN Fail(ValidateQuery(q))
        ELSE IF ~(ga.c0 /\ ga.c1 /\ ga.c2) THEN Fail(ParseError)
        ELSE IF ga.funcs = <<>> THEN Fail(OK)
        ELSE IF ga.step = 0 THEN Fail(OK)
        ELSE IF wh.st # OK THEN Fail(wh.st)
        ELSE IF ~RangeOK(q) THEN Fail(ParseError)
        ELSE IF ob.st # OK THEN Fail(ob.st)
        ELSE [st |-> OK,
              req |-> WithGroupBy([EmptyRequest EXCEPT
                                      !.agg = [enabled |-> TRUE,
                                               funcs |-> ga.funcs, step |-> ga.step],
                                      !.columns = <<wh.ids>>,
                                      !.order = ob.order,
                                      !.matcher = "gagg"],
                                  ga.metric, tags)]

\* parse_join_query's split of the resolved ids into one column per metric:
\* column i holds entries (i-1)*n+1 .. i*n.
JoinColumns(ids, k) ==
    LET n == Len(ids) \div k
    IN  [i \in 1 .. k |-> SubSeq(ids, (i - 1) * n + 1, i * n)]

\* QueryParser::parse_join_query and init_matcher_in_join_query (which
\* refuses fewer than two columns)
ParseJoinQuery(q) ==
    LET metrics == IF Has(q, "join") THEN Get(q, "join") ELSE <<>>
        ob      == ParseOrderBy(q)
        wh      == ParseWhereClause(q, metrics)
    IN  IF ValidateQuery(q) # OK THEN Fail(ValidateQuery(q))
        ELSE IF metrics = <<>> THEN Fail(ParseError)
        ELSE IF ob.st # OK THEN Fail(ob.st)
        ELSE IF wh.st # OK THEN Fail(wh.st)
        ELSE IF ~RangeOK(q) THEN Fail(ParseError)
        ELSE IF Len(wh.ids) % Len(metrics) # 0 THEN Fail(Panic)
        ELSE IF Len(metrics) < 2 THEN Fail(BadArg)
        ELSE [st |-> OK,
              req |-> [EmptyRequest EXCEPT
                          !.columns = JoinColumns(wh.ids, Len(metrics)),
                          !.order = ob.order,
                          !.matcher = "join"]]

\* QueryParser::parse_select_meta_query: "meta:names" lists every series,
\* "meta:names:<metric>" the series of one metric
ParseSelectMetaQuery(q) ==
    LET m       == Get(q, "select").metric
        metrics == IF m = NoMetric THEN <<>> ELSE <<m>>
        wh      == ParseWhereClause(q, metrics)
    IN  IF ValidateQuery(q) # OK THEN [st |-> ValidateQuery(q), ids |-> <<>>]
        ELSE IF ~SelectStmtOK(q) \/ ~Get(q, "select").meta
             THEN [st |-> ParseError, ids |-> <<>>]
        ELSE wh

\* QueryParser::parse_processing_topology: a limiter when limit or offset
\* is non-zero, then the terminal
ParseProcessingTopology(q) ==
    LET lo == ParseLimitOffset(q)
    IN  IF lo.limit # 0 \/ lo.offset # 0
        THEN <<[node |-> "limiter", limit |-> lo.limit, offset |-> lo.offset],
               [node |-> "terminal", limit |-> 0, offset |-> 0]>>
        ELSE <<[node |-> "terminal", limit |-> 0, offset |-> 0]>>

=============================================================================
