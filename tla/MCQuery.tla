------------------------------- MODULE MCQuery -------------------------------
(***************************************************************************)
(* Model values for QueryService: a five-series catalog over two metrics   *)
(* and two tags, and families of queries built from one kind statement and *)
(* optional order-by, group-by, where and range statements.                *)
(***************************************************************************)
EXTENDS QueryService

MCMetrics == {"cpu", "mem"}
MCTagKeys == {"dc", "host"}
MCTagValues == {"a", "b", "x"}
MCFuncs == {"min", "max"}

\* cpu host=b has no mem counterpart; cpu dc=x host=a groups with
\* cpu host=a under group-by host
MCCatalog ==
    << [metric |-> "cpu", tags |-> [host |-> "a"]],
       [metric |-> "mem", tags |-> [host |-> "a"]],
       [metric |-> "cpu", tags |-> [host |-> "b"]],
       [metric |-> "cpu", tags |-> [dc |-> "x", host |-> "a"]],
       [metric |-> "mem", tags |-> [dc |-> "x", host |-> "a"]] >>

St(k, v) == [key |-> k, val |-> v]

GAField(f, s, m, fs) == [field |-> f, step |-> s, metric |-> m, funcs |-> fs]

\* the kind statements
SelectStmts ==
    { St("select", [obj |-> FALSE, meta |-> FALSE, metric |-> "cpu"]),
      St("select", [obj |-> TRUE, meta |-> FALSE, metric |-> NoMetric]) }

MetaStmts ==
    { St("select", [obj |-> FALSE, meta |-> TRUE, metric |-> NoMetric]),
      St("select", [obj |-> FALSE, meta |-> TRUE, metric |-> "mem"]) }

AggregateStmts ==
    { St("aggregate", <<[metric |-> "cpu", func |-> "max"]>>),
      St("aggregate", <<[metric |-> "cpu", func |-> "avg"]>>),
      St("aggregate", <<>>) }

JoinStmts ==
    { St("join", <<"cpu", "mem">>), St("join", <<"cpu">>) }

GAStep10 == GAField("step", 10, NoMetric, <<>>)
GAMetric == GAField("metric", 0, "cpu", <<>>)
GAFuncs == GAField("func", 0, NoMetric, <<"min", "max">>)

GroupAggregateStmts ==
    { St("group-aggregate", <<GAStep10, GAMetric, GAFuncs>>),
      St("group-aggregate", <<GAField("step", 0, NoMetric, <<>>), GAMetric, GAFuncs>>),
      St("group-aggregate", <<GAField("step", BadDuration, NoMetric, <<>>),
                              GAMetric, GAFuncs>>),
      St("group-aggregate", <<GAStep10, GAMetric,
                              GAField("func", 0, NoMetric, <<"min", "avg">>)>>),
      St("group-aggregate", <<GAStep10, GAFuncs>>),
      St("group-aggregate", <<GAStep10, GAMetric, GAFuncs, GAStep10>>) }

\* optional statements: <<>> leaves one out
OrderBys == { <<>>, <<St("order-by", "time")>>, <<St("order-by", "series")>>,
              <<St("order-by", "bad")>> }
GroupBys == { <<>>, <<St("group-by", <<"host">>)>> }
Wheres ==
    { <<>>,
      <<St("where", <<[tag |-> "host", vals |-> {"a"}]>>)>>,
      <<St("where", <<[tag |-> "host", vals |-> {"a", "b"}],
                      [tag |-> "dc", vals |-> {"x"}]>>)>> }
Ranges == { <<St("range", {"from", "to"})>>, <<St("range", {"from"})>> }

Shaped(kinds) ==
    { <<k>> \o o \o g \o w \o r :
        k \in kinds, o \in OrderBys, g \in GroupBys, w \in Wheres, r \in Ranges }

\* every kind, every clause combination
ShapeQueries ==
    Shaped(SelectStmts \cup MetaStmts \cup AggregateStmts \cup JoinStmts
           \cup GroupAggregateStmts)

\* two kind statements, a repeated statement, a repeated where tag
ConflictQueries ==
    { <<St("select", [obj |-> FALSE, meta |-> FALSE, metric |-> "cpu"]), a,
        St("range", {"from", "to"})>> :
        a \in AggregateStmts \cup JoinStmts }
    \cup
    { <<St("select", [obj |-> FALSE, meta |-> FALSE, metric |-> "cpu"]),
        St("where", <<[tag |-> "host", vals |-> {"a"}],
                      [tag |-> "host", vals |-> {"b"}]>>),
        St("range", {"from", "to"})>> }

\* limit and offset on a select
LimitQueries ==
    { <<St("select", [obj |-> FALSE, meta |-> FALSE, metric |-> "cpu"]),
        St("range", {"from", "to"})>> \o l \o o :
        l \in { <<>>, <<St("limit", 2)>> }, o \in { <<>>, <<St("offset", 1)>> } }

=============================================================================
