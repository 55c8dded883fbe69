\* RegexFilter and MetadataQueryProcessor racing the ingest thread, over
\* every path of the legacy builder.  A query ends (listed, scanned up to
\* the apply bound, or refused): no deadlock check.
CONSTANTS
    Metrics <- LMetrics
    TagKeys <- LTagKeys
    TagValues <- LTagValues
    Funcs = {}
    Catalog <- LCatalog
    LegacyQueries <- PassQueries
    Budgets = {0, 1, 5}
    MaxApplies = 3
SPECIFICATION Spec
INVARIANTS FilterAnswersExact MetaListsMatches
CHECK_DEADLOCK FALSE
