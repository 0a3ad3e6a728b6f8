SPECIFICATION FairSpec
CONSTANTS
    Releasing = {i1, i2}
    Jobs = {i1, i2, b1}
    Workers = 2
    JobMax = 2
    MaxCrashes = 1
    MaxFaults = 1
    MaxShutdowns = 1
    ThreadsRunOut = TRUE
\* every request may have been answered
CHECK_DEADLOCK FALSE
INVARIANTS
    JobIsAccounted
PROPERTIES
    TerminalIsFinal
    AcceptedEnds
