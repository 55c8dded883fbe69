----------------------------- MODULE LegacyQuery -----------------------------
(***************************************************************************)
(* The legacy query path of queryprocessor.cpp: Builder::                  *)
(* build_query_processor with its parse helpers, the RegexFilter it builds *)
(* from the where clause, and the MetadataQueryProcessor that lists the    *)
(* filter's ids for a `select: names` query.  The ingest thread interns    *)
(* new series into the string pool while the query runs: the pool is the  *)
(* first `interned` names of Catalog (ids are assigned in order), and a    *)
(* regex scan is modelled by the names it matches.                         *)
(*                                                                         *)
(* A legacy query is the sequence of its top-level statements:             *)
(*   group-by  the duration of its `time` child (0 when none, BadDuration) *)
(*   metric    a metric name                                               *)
(*   select    [leaf: a string value?, names: is it "names"?]              *)
(*   sample    the sequence of its samplers' names (NoName: none given)    *)
(*   where     sequence of [tag, scalar: `tag: v` rather than a list, vals]*)
(*   range     the subset of {"from", "to"} present                        *)
(***************************************************************************)
EXTENDS QueryParser, FiniteSets

CONSTANTS
    LegacyQueries,  \* the queries a client may send
    Budgets,        \* how many puts the cursor accepts before it refuses
    MaxApplies      \* bound on the storage's filter calls (model bound)

\* the cursor's budget is a count of puts
ASSUME LegacyAssumption == Budgets \subseteq Nat

NoTag == "any tag"
NoName == "no name"
\* the null shared_ptr<RegexFilter>
NullFilter == [metric |-> NoMetric, tag |-> "null", vals |-> {}]
NoProbe == [id |-> 0, seen |-> 0]

\* samplers registered with QueryParserToken; the PAA nodes advertise
\* GROUP_BY_REQUIRED
PAANames == {"paa", "median-paa", "max-paa"}
SamplerNames == PAANames \cup {"reservoir"}

-----------------------------------------------------------------------------
\* parse_groupby: the `time` child's duration, 0 without one
ParseGroupByStep(q) == IF Has(q, "group-by") THEN Get(q, "group-by") ELSE 0

\* parse_metric: "" (NoMetric) when absent
ParseMetric(q) == IF Has(q, "metric") THEN Get(q, "metric") ELSE NoMetric

\* parse_select_stmt: a leaf "names", a leaf that throws, or no select (an
\* object value is not a leaf and is ignored)
ParseSelect(q) ==
    IF ~Has(q, "select") \/ ~Get(q, "select").leaf THEN "none"
    ELSE IF Get(q, "select").names THEN "names" ELSE "invalid"

\* the children an item's value has: a scalar value has none
IdList(item) == IF item.scalar THEN {} ELSE item.vals

\* parse_where_clause: every item builds a RegexFilter over its values; an
\* item without children yields the regex ")" that regex_match refuses
WhereThrows(q) ==
    Has(q, "where") /\ \E i \in 1 .. Len(Get(q, "where")) :
                           IdList(Get(q, "where")[i]) = {}

\* parse_where_clause: the filter of the LAST item wins; without a where
\* statement every series of the metric (of any metric when "" -> \w+);
\* `where: {}` leaves the result a null pointer
WhereFilter(q) ==
    IF ~Has(q, "where") THEN [metric |-> ParseMetric(q), tag |-> NoTag, vals |-> {}]
    ELSE IF Get(q, "where") = <<>> THEN NullFilter
    ELSE [metric |-> ParseMetric(q), tag |-> Last(Get(q, "where")).tag,
          vals |-> IdList(Last(Get(q, "where")))]

\* the series regex of a filter: "(metric(?:\s\w+=\w+)*\stag=value...)"
FilterMatches(f, n) ==
    /\ f.metric = NoMetric \/ n.metric = f.metric
    /\ f.tag = NoTag \/ (f.tag \in DOMAIN n.tags /\ n.tags[f.tag] \in f.vals)

\* build_query_processor up to parse_where_clause: "ok" or what threw
BuildFront(q) ==
    CASE ParseGroupByStep(q) = BadDuration -> "groupby"
      [] ParseSelect(q) = "invalid"        -> "select"
      [] WhereThrows(q)                    -> "where"
      [] OTHER                             -> "ok"

\* the rest of build_query_processor and the ScanQueryProcessor
\* constructor: the processor built, or what threw
BuildRest(q) ==
    LET smp == IF Has(q, "sample") THEN Get(q, "sample") ELSE <<>>
        rng == IF Has(q, "range") THEN Get(q, "range") ELSE {}
    IN  CASE Has(q, "sample") /\ ParseSelect(q) = "names" -> "sample_select"
          [] ParseSelect(q) = "names"                    -> "meta"
          [] "from" \notin rng \/ "to" \notin rng        -> "range"
          [] NoName \in Range(smp)                       -> "sampler"
          [] ParseGroupByStep(q) = 0 /\ Range(smp) \cap PAANames # {}
                                                         -> "groupby_required"
          [] OTHER                                       -> "scan"

-----------------------------------------------------------------------------
VARIABLES
    interned,   \* string pool: the first `interned` names of Catalog
    query,      \* the query being built
    phase,      \* "idle", "ctor", an error, "meta", "scan", "started",
                \* "stopped" or "crashed"
    filter,     \* the RegexFilter the builder made (or NullFilter)
    prev_size,  \* RegexFilter::prev_size_
    offset,     \* RegexFilter::offset_: how much of the pool was scanned
    ids,        \* RegexFilter::ids_
    probe,      \* an apply() between its size check and its answer
    answers,    \* every apply() answer: [id, seen: pool size it read, ans]
    applies,    \* apply() calls so far
    calls,      \* cursor: the ids MetadataQueryProcessor::start put to it
    budget,     \* cursor: it accepts the first `budget` puts
    errored     \* cursor: set_error reached it

lvars == <<interned, query, phase, filter, prev_size, offset, ids, probe,
           answers, applies, calls, budget, errored>>

\* mutant: refresh() assigns the new matches to ids_ instead of inserting
RefreshedReplaces == {i \in (offset + 1) .. interned : FilterMatches(filter, Catalog[i])}

\* StringPool::regex_match(regex, &offset) inside RegexFilter::refresh: the
\* names interned past offset that match, inserted into ids_
Refreshed == ids \cup {i \in (offset + 1) .. interned : FilterMatches(filter, Catalog[i])}

Init ==
    /\ interned = 0
    /\ query = <<>>
    /\ phase = "idle"
    /\ filter = NullFilter
    /\ prev_size = 0 /\ offset = 0 /\ ids = {}
    /\ probe = NoProbe /\ answers = {} /\ applies = 0
    /\ calls = <<>>
    /\ budget \in Budgets
    /\ errored = FALSE

\* the ingest thread interns a new series name (SeriesMatcher::add)
Ingest ==
    /\ interned < Len(Catalog)
    /\ interned' = interned + 1
    /\ UNCHANGED <<query, phase, filter, prev_size, offset, ids, probe,
                   answers, applies, calls, budget, errored>>

(***************************************************************************)
(* build_query_processor up to the RegexFilter constructor: the parse      *)
(* helpers run in order and the first that throws fails the query; with a *)
(* filter to build, its constructor reads the pool size into prev_size_.   *)
(* `where: {}` builds no filter and the builder carries on with null.      *)
(***************************************************************************)
Build(q) ==
    /\ phase = "idle"
    /\ query' = q
    /\ IF BuildFront(q) # "ok"
       THEN phase' = BuildFront(q) /\ UNCHANGED <<filter, prev_size>>
       ELSE IF WhereFilter(q) = NullFilter
       THEN phase' = BuildRest(q) /\ filter' = NullFilter /\ UNCHANGED prev_size
       ELSE /\ filter' = WhereFilter(q)
            /\ prev_size' = interned
            /\ phase' = "ctor"
    /\ UNCHANGED <<interned, offset, ids, probe, answers, applies, calls,
                   budget, errored>>

(***************************************************************************)
(* The RegexFilter constructor's refresh() -- a scan of the pool from      *)
(* offset_ to its current end -- and the rest of build_query_processor:    *)
(* the select/sample check, the range, the samplers, and the               *)
(* ScanQueryProcessor constructor's GROUP_BY_REQUIRED check.               *)
(***************************************************************************)
FilterCtor ==
    /\ phase = "ctor"
    /\ ids' = Refreshed
    /\ offset' = interned
    /\ phase' = BuildRest(query)
    /\ UNCHANGED <<interned, query, filter, prev_size, probe, answers,
                   applies, calls, budget, errored>>

(***************************************************************************)
(* RegexFilter::apply(id), called by the storage for each series of the    *)
(* scan: it compares the pool size with prev_size_ (which nothing ever     *)
(* updates) and answers from ids_ unless it must refresh first.            *)
(***************************************************************************)
ApplyCheck(id) ==
    /\ phase = "scan"
    /\ probe = NoProbe
    /\ applies < MaxApplies
    /\ applies' = applies + 1
    /\ IF interned # prev_size
       THEN probe' = [id |-> id, seen |-> interned] /\ UNCHANGED answers
       ELSE /\ answers' = answers \cup {[id |-> id, seen |-> interned, ans |-> id \in ids]}
            /\ UNCHANGED probe
    /\ UNCHANGED <<interned, query, phase, filter, prev_size, offset, ids,
                   calls, budget, errored>>

\* RegexFilter::apply after its size check: refresh(), then ids_.count(id)
ApplyRefresh ==
    /\ probe # NoProbe
    /\ ids' = Refreshed
    /\ offset' = interned
    /\ answers' = answers \cup {[id |-> probe.id, seen |-> probe.seen,
                                 ans |-> probe.id \in Refreshed]}
    /\ probe' = NoProbe
    /\ UNCHANGED <<interned, query, phase, filter, prev_size, applies,
                   calls, budget, errored>>

\* mutant: start() keeps putting after the cursor refused
MetaStartIgnoresRefusal ==
    /\ phase = "meta"
    /\ IF filter = NullFilter
       THEN phase' = "crashed" /\ UNCHANGED calls
       ELSE /\ \E order \in SetToSeqs(ids) : calls' = order
            /\ phase' = "started"
    /\ UNCHANGED <<interned, query, filter, prev_size, offset, ids, probe,
                   answers, applies, budget, errored>>

(***************************************************************************)
(* MetadataQueryProcessor::start: puts an id-only sample for each id of    *)
(* filter_->get_ids() (an unordered_set: any order) until a put returns    *)
(* false.  get_ids does not refresh.  A null filter_ is dereferenced.      *)
(***************************************************************************)
MetaStart ==
    /\ phase = "meta"
    /\ IF filter = NullFilter
       THEN phase' = "crashed" /\ UNCHANGED calls
       ELSE /\ \E order \in SetToSeqs(ids) :
                 calls' = SubSeq(order, 1, Min({Len(order), budget + 1}))
            /\ phase' = "started"
    /\ UNCHANGED <<interned, query, filter, prev_size, offset, ids, probe,
                   answers, applies, budget, errored>>

\* MetadataQueryProcessor::stop -> root_->complete()
MetaStop ==
    /\ phase = "started"
    /\ phase' = "stopped"
    /\ UNCHANGED <<interned, query, filter, prev_size, offset, ids, probe,
                   answers, applies, calls, budget, errored>>

\* MetadataQueryProcessor::set_error -> root_->set_error(): the cursor
MetaSetError ==
    /\ phase \in {"meta", "started"}
    /\ ~errored
    /\ errored' = TRUE
    /\ UNCHANGED <<interned, query, phase, filter, prev_size, offset, ids,
                   probe, answers, applies, calls, budget>>

Next ==
    \/ Ingest
    \/ \E q \in LegacyQueries : Build(q)
    \/ FilterCtor
    \/ \E id \in 1 .. interned : ApplyCheck(id)
    \/ ApplyRefresh
    \/ MetaStart
    \/ MetaStop
    \/ MetaSetError

Spec == Init /\ [][Next]_lvars

-----------------------------------------------------------------------------
Running == {"meta", "scan", "started", "stopped"}
SeriesIds == 1 .. Len(Catalog)

(***************************************************************************)
(* RegexFilter::apply against concurrent ingestion (constructor, refresh,  *)
(* apply): the filter processes only series its regex matches, and every   *)
(* matching series interned before apply read the pool size is processed  *)
(* -- although prev_size_ is read once, before the constructor's scan, and *)
(* the scans run while the ingest thread appends.                          *)
(***************************************************************************)
FilterAnswersExact ==
    \A a \in answers :
        /\ a.ans => FilterMatches(filter, Catalog[a.id])
        /\ FilterMatches(filter, Catalog[a.id]) /\ a.id <= a.seen => a.ans

(***************************************************************************)
(* MetadataQueryProcessor::start (select: names): the cursor receives      *)
(* distinct ids of matching series, nothing after the put it refused, and, *)
(* unless it refused, every matching series interned before the filter was *)
(* built.                                                                  *)
(***************************************************************************)
MetaListsMatches ==
    phase \in {"started", "stopped"} =>
        /\ IsInjective(calls)
        /\ \A k \in 1 .. Len(calls) : FilterMatches(filter, Catalog[calls[k]])
        /\ Len(calls) <= budget + 1
        /\ Len(calls) <= budget =>
               \A i \in 1 .. prev_size :
                   FilterMatches(filter, Catalog[i]) => i \in Range(calls)

(***************************************************************************)
(* Spec 4.B: `where: {tag: value | [v1, ...]}` -- a series is selected     *)
(* when, for EVERY where tag, its value is one of the listed ones.         *)
(* (parse_where_clause, build_query_processor)                             *)
(***************************************************************************)
WhereItems(q) == IF Has(q, "where") THEN Get(q, "where") ELSE <<>>

SpecWhereMatches(q, n) ==
    /\ ParseMetric(q) = NoMetric \/ n.metric = ParseMetric(q)
    /\ \A i \in 1 .. Len(WhereItems(q)) :
           LET it == WhereItems(q)[i]
           IN  it.tag \in DOMAIN n.tags /\ n.tags[it.tag] \in it.vals

LegacyWhereHonoured ==
    phase \in Running /\ filter # NullFilter =>
        \A i \in SeriesIds :
            FilterMatches(filter, Catalog[i]) <=> SpecWhereMatches(query, Catalog[i])

(***************************************************************************)
(* Spec 4.B: a where tag may be given one value as a scalar, `tag: v`.     *)
(* (parse_where_clause) A query is never refused for that.                 *)
(***************************************************************************)
ScalarWhereAccepted ==
    phase = "where" => \A i \in 1 .. Len(WhereItems(query)) :
                           ~WhereItems(query)[i].scalar

(***************************************************************************)
(* A processor the builder returns has a filter (build_query_processor,    *)
(* parse_where_clause): MetadataQueryProcessor::start and the storage's    *)
(* calls of filter() dereference it.                                       *)
(***************************************************************************)
NoNullFilter == phase \in Running => filter # NullFilter

=============================================================================
