SPECIFICATION Spec
CONSTANTS
    Commands = {i1, i2}
    Entries = {u1}
    Naming = {}
    MaxCrashes = 0
\* commands have an end
CHECK_DEADLOCK FALSE
INVARIANT ReinstallReplaces
