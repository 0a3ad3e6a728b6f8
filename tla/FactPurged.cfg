SPECIFICATION Spec
CONSTANTS
    Old = {f1}
    Patches = {p1}
    Ingests = {}
    Archives = {}
    Purges = {d1}
    Nil = Nil
    MaxCrashes = 0
\* every request may have been answered
CHECK_DEADLOCK FALSE
INVARIANT PurgedStaysErased
