------------------------------ MODULE QueryPlan ------------------------------
(***************************************************************************)
(* QueryPlan (query_processing/queryplan.cpp): the hardwired two-tier plan *)
(* built from a ReshapeRequest.  Tier 1 lists per-series storage           *)
(* operators, tier 2 materializes them into one stream.  A request that    *)
(* breaks a builder's guard aborts the process (AKU_PANIC), modelled as    *)
(* the plan PanicPlan.                                                     *)
(***************************************************************************)
EXTENDS Integers, Sequences

PanicPlan == "panic"

\* a QueryPlanStage: the fields a stage of this tier sets, the others at
\* their defaults
Stage(tier, op, ids, matcher, funcs, step, card) ==
    [tier |-> tier, op |-> op, ids |-> ids, matcher |-> matcher,
     funcs |-> funcs, step |-> step, card |-> card]

\* create_scan and create_aggregate, group-by: tier-2 ids are the images
\* of the tier-1 ids under the transient map; unmapped ids are dropped
\* mutant: the tier-2 ids are left untranslated
MapThroughIdentity(ids, tmap) == ids

MapThrough(ids, tmap) ==
    LET kept == SelectSeq(ids, LAMBDA id : id \in DOMAIN tmap)
    IN  [i \in 1 .. Len(kept) |-> tmap[kept[i]]]

\* mutant: series order ignored without a group-by
CreateScanNoChain(req) ==
    LET ids == req.columns[1]
        t1  == Stage(1, "SCAN_RANGE", ids, req.matcher, <<>>, 0, 0)
    IN  IF req.agg.enabled \/ Len(req.columns) # 1 THEN PanicPlan
        ELSE IF req.group_by.enabled
        THEN <<t1, Stage(2, IF req.order = "series" THEN "MERGE_SERIES_ORDER"
                            ELSE "MERGE_TIME_ORDER",
                         MapThrough(ids, req.group_by.tmap),
                         req.group_by.matcher, <<>>, 0, 0)>>
        ELSE <<t1, Stage(2, "MERGE_TIME_ORDER", ids, req.matcher, <<>>, 0, 0)>>

\* create_scan
CreateScan(req) ==
    LET ids == req.columns[1]
        t1  == Stage(1, "SCAN_RANGE", ids, req.matcher, <<>>, 0, 0)
    IN  IF req.agg.enabled \/ Len(req.columns) # 1 THEN PanicPlan
        ELSE IF req.group_by.enabled
        THEN <<t1, Stage(2, IF req.order = "series" THEN "MERGE_SERIES_ORDER"
                            ELSE "MERGE_TIME_ORDER",
                         MapThrough(ids, req.group_by.tmap),
                         req.group_by.matcher, <<>>, 0, 0)>>
        ELSE <<t1, Stage(2, IF req.order = "series" THEN "CHAIN_SERIES"
                            ELSE "MERGE_TIME_ORDER",
                         ids, req.matcher, <<>>, 0, 0)>>

\* create_aggregate
CreateAggregate(req) ==
    LET ids == req.columns[1]
        t1  == Stage(1, "AGGREGATE_RANGE", ids, req.matcher, <<>>, 0, 0)
    IN  IF req.order = "time" THEN PanicPlan
        ELSE IF req.group_by.enabled
        THEN <<t1, Stage(2, "AGGREGATE_COMBINE", MapThrough(ids, req.group_by.tmap),
                         req.group_by.matcher, req.agg.funcs, 0, 0)>>
        ELSE <<t1, Stage(2, "AGGREGATE", ids, req.matcher, req.agg.funcs, 0, 0)>>

\* create_join: tier-1 ids interleave the columns row by row
\* mutant: the columns concatenated instead of interleaved
JoinConcat(cols) ==
    LET n == Len(cols[1])
    IN  [x \in 1 .. Len(cols) * n |->
            cols[((x - 1) \div n) + 1][((x - 1) % n) + 1]]

JoinInterleave(cols) ==
    LET k == Len(cols)
    IN  [x \in 1 .. Len(cols[1]) * k |->
            cols[((x - 1) % k) + 1][((x - 1) \div k) + 1]]

CreateJoin(req) ==
    IF req.agg.enabled \/ req.group_by.enabled \/ Len(req.columns) < 2
    THEN PanicPlan
    ELSE <<Stage(1, "SCAN_RANGE", JoinInterleave(req.columns), req.matcher,
                 <<>>, 0, 0),
           Stage(2, IF req.order = "series" THEN "MERGE_JOIN_SERIES_ORDER"
                    ELSE "MERGE_JOIN_TIME_ORDER",
                 req.columns[1], req.matcher, <<>>, 0, Len(req.columns))>>

\* create_group_aggregate: a group-by is not implemented
CreateGroupAggregate(req) ==
    IF ~req.agg.enabled \/ req.agg.step = 0 \/ req.group_by.enabled
    THEN PanicPlan
    ELSE <<Stage(1, "GROUP_AGGREGATE_RANGE", req.columns[1], req.matcher,
                 <<>>, req.agg.step, 0),
           Stage(2, IF req.order = "series"
                    THEN "SERIES_ORDER_AGGREGATE_MATERIALIZER"
                    ELSE "TIME_ORDER_AGGREGATE_MATERIALIZER",
                 req.columns[1], req.matcher, req.agg.funcs, 0, 0)>>

\* create_plan: the request's shape picks the builder
CreatePlan(req) ==
    IF req.agg.enabled /\ req.agg.step = 0 THEN CreateAggregate(req)
    ELSE IF req.agg.enabled THEN CreateGroupAggregate(req)
    ELSE IF Len(req.columns) > 1 THEN CreateJoin(req)
    ELSE CreateScan(req)

=============================================================================
