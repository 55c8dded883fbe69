\* An empty where object: parse_where_clause returns a null filter.
CONSTANTS
    Metrics <- LMetrics
    TagKeys <- LTagKeys
    TagValues <- LTagValues
    Funcs = {}
    Catalog <- LCatalog
    LegacyQueries <- EmptyWhereQueries
    Budgets = {0, 1, 5}
    MaxApplies = 3
SPECIFICATION Spec
INVARIANT NoNullFilter
CHECK_DEADLOCK FALSE
