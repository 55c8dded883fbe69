\* Every sequence of resets, adds and median evaluations of the three
\* counters, up to four values per flush interval.  The counters are
\* passive objects: in every state some call is possible.
CONSTANTS
    Values <- MCValues
    MaxAdds = 4
SPECIFICATION Spec
INVARIANTS TypeOK MeanValueMatches MaxValueMatches MedianValueIsMedian
