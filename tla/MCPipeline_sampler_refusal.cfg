\* sampler_refusal1
CONSTANTS
    Ids = {1, 2}
    Begin = 0
    End = 7
    Step = 2
    SamplerCap = 2
    Limit = 0
    Offset = 0
    Budgets = {0, 1, 2}
    MaxPuts = 5
SPECIFICATION Spec
INVARIANTS NoCallAfterRefusal
\* the query ends with stop(): after it no driver call is possible
CHECK_DEADLOCK FALSE
