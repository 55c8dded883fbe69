------------------------------ MODULE MCLegacy ------------------------------
(***************************************************************************)
(* Model values for LegacyQuery: a five-series catalog that the ingest     *)
(* thread interns one name at a time while a legacy query is built and     *)
(* answered, and families of legacy queries.                               *)
(***************************************************************************)
EXTENDS LegacyQuery

LMetrics == {"cpu", "mem"}
LTagKeys == {"dc", "host"}
LTagValues == {"a", "b", "x"}

\* mem dc=x host=b matches dc=x but not host=a
LCatalog ==
    << [metric |-> "cpu", tags |-> [host |-> "a"]],
       [metric |-> "mem", tags |-> [host |-> "a"]],
       [metric |-> "cpu", tags |-> [host |-> "b"]],
       [metric |-> "cpu", tags |-> [dc |-> "x", host |-> "a"]],
       [metric |-> "mem", tags |-> [dc |-> "x", host |-> "b"]] >>

St(k, v) == [key |-> k, val |-> v]
Item(t, s, vs) == [tag |-> t, scalar |-> s, vals |-> vs]

Names == St("select", [leaf |-> TRUE, names |-> TRUE])
FullRange == St("range", {"from", "to"})
HostA == St("where", <<Item("host", FALSE, {"a"})>>)

\* every path through the builder: listings and scans that build, and one
\* query for each check that throws
PassQueries ==
    { <<Names, HostA>>,
      <<Names, St("metric", "cpu")>>,
      <<St("metric", "cpu"), St("where", <<Item("host", FALSE, {"a", "b"})>>), FullRange>>,
      <<St("where", <<Item("dc", FALSE, {"x"})>>), FullRange,
        St("sample", <<"reservoir">>)>>,
      <<St("group-by", 10), St("metric", "mem"), FullRange, St("sample", <<"paa">>)>>,
      <<St("group-by", BadDuration), Names>>,
      <<St("select", [leaf |-> TRUE, names |-> FALSE])>>,
      <<St("select", [leaf |-> FALSE, names |-> FALSE]), HostA, FullRange>>,
      <<Names, St("sample", <<"reservoir">>)>>,
      <<HostA, St("range", {"from"})>>,
      <<HostA, FullRange, St("sample", <<NoName>>)>>,
      <<HostA, FullRange, St("sample", <<"max-paa">>)>> }

\* two where tags: spec 4.B requires both
TwoTagQueries ==
    { <<Names, St("where", <<Item("host", FALSE, {"a"}), Item("dc", FALSE, {"x"})>>)>> }

\* a where value given as a scalar
ScalarQueries ==
    { <<St("metric", "cpu"), St("where", <<Item("host", TRUE, {"a"})>>), FullRange>> }

\* an empty where object
EmptyWhereQueries == { <<Names, St("where", <<>>)>> }
=============================================================================
