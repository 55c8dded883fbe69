CONSTANTS
    Metrics <- MCMetrics
    TagKeys <- MCTagKeys
    TagValues <- MCTagValues
    Funcs <- MCFuncs
    Catalog <- MCCatalog
    Queries <- LimitQueries
SPECIFICATION Spec
INVARIANT LimiterHonoursQuery
CHECK_DEADLOCK FALSE
