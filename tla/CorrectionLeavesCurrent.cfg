SPECIFICATION Spec
CONSTANTS
    Pools <- MCHomes
    SpanTime <- MCSpanTime
    SpanRole <- MCSpanRole
    Now = 10
    MaxOperations = 2
\* the bound may be reached
CHECK_DEADLOCK FALSE
INVARIANT CorrectionLeavesCurrent
