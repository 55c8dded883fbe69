CONSTANTS
    Metrics <- MCMetrics
    TagKeys <- MCTagKeys
    TagValues <- MCTagValues
    Funcs <- MCFuncs
    Catalog <- MCCatalog
    Queries <- ConflictQueries
SPECIFICATION Spec
INVARIANT WhereTagsDistinct
CHECK_DEADLOCK FALSE
