\* groupby_gap1
CONSTANTS
    Ids = {1, 2}
    Begin = 0
    End = 7
    Step = 2
    SamplerCap = 0
    Limit = 0
    Offset = 0
    Budgets = {9}
    MaxPuts = 3
SPECIFICATION Spec
INVARIANTS MarkerPerBoundary
\* the query ends with stop(): after it no driver call is possible
CHECK_DEADLOCK FALSE
