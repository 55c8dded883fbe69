CONSTANTS
    Metrics <- MCMetrics
    TagKeys <- MCTagKeys
    TagValues <- MCTagValues
    Funcs <- MCFuncs
    Catalog <- MCCatalog
    Queries <- ShapeQueries
SPECIFICATION Spec
INVARIANT CrashOnlyOnUnsupported
CHECK_DEADLOCK FALSE
