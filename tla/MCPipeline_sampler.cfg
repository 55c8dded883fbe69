\* sampler topology, cursor refusing at any point: the output is sorted up to
\* the refusal
CONSTANTS
    Ids = {1, 2}
    Begin = 0
    End = 7
    Step = 2
    SamplerCap = 2
    Limit = 0
    Offset = 0
    Budgets = {0, 1, 2, 3, 20}
    MaxPuts = 5
SPECIFICATION Spec
INVARIANTS OutputSorted
CHECK_DEADLOCK FALSE
