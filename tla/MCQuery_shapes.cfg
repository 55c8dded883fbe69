\* Every kind of query with every combination of order-by, group-by, where
\* and range, parsed and planned.  A query's processing ends (accepted and
\* planned, listed, refused or crashed): no deadlock check.
CONSTANTS
    Metrics <- MCMetrics
    TagKeys <- MCTagKeys
    TagValues <- MCTagValues
    Funcs <- MCFuncs
    Catalog <- MCCatalog
    Queries <- ShapeQueries
SPECIFICATION Spec
INVARIANTS
    TypeOK
    Tier1IdsMatchWhere
    JoinRowsAligned
    PlanMatchesQuery
    GroupByTier2
CHECK_DEADLOCK FALSE
