CONSTANTS
    Metrics <- MCMetrics
    TagKeys <- MCTagKeys
    TagValues <- MCTagValues
    Funcs <- MCFuncs
    Catalog <- MCCatalog
    Queries <- ConflictQueries
SPECIFICATION Spec
INVARIANT ValidatorRejectsConflicts
CHECK_DEADLOCK FALSE
