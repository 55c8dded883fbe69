CONSTANTS
    Metrics <- MCMetrics
    TagKeys <- MCTagKeys
    TagValues <- MCTagValues
    Funcs <- MCFuncs
    Catalog <- MCCatalog
    Queries <- ShapeQueries
SPECIFICATION Spec
INVARIANT JoinGroupByRefused
CHECK_DEADLOCK FALSE
