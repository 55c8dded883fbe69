\* A where clause with two tags: the builder keeps only the last one's filter.
CONSTANTS
    Metrics <- LMetrics
    TagKeys <- LTagKeys
    TagValues <- LTagValues
    Funcs = {}
    Catalog <- LCatalog
    LegacyQueries <- TwoTagQueries
    Budgets = {0, 1, 5}
    MaxApplies = 3
SPECIFICATION Spec
INVARIANT LegacyWhereHonoured
CHECK_DEADLOCK FALSE
