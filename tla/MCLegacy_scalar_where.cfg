\* A where tag given one value as a scalar (spec 4.B allows it).
CONSTANTS
    Metrics <- LMetrics
    TagKeys <- LTagKeys
    TagValues <- LTagValues
    Funcs = {}
    Catalog <- LCatalog
    LegacyQueries <- ScalarQueries
    Budgets = {0, 1, 5}
    MaxApplies = 3
SPECIFICATION Spec
INVARIANT ScalarWhereAccepted
CHECK_DEADLOCK FALSE
