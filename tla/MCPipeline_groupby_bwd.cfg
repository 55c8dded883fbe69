\* groupby_bwd1
CONSTANTS
    Ids = {1, 2}
    Begin = 7
    End = 0
    Step = 2
    SamplerCap = 0
    Limit = 0
    Offset = 0
    Budgets = {0, 1, 2, 3, 9}
    MaxPuts = 4
SPECIFICATION Spec
INVARIANTS TypeOK NoCallAfterRefusal MarkersAdvance MarkerClosesBucket
PROPERTY MarkerOpensBucket
\* the query ends with stop(): after it no driver call is possible
CHECK_DEADLOCK FALSE
