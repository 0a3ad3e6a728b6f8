SPECIFICATION FairSpec
CONSTANTS
    Requests = {r1, r2}
    Keys = {k1}
    Bootstrap = bootstrap
    Jobs = {1, 2}
    JobMax = 1
    LogMaxes = {0, 1}
\* a server may have nothing left to do
CHECK_DEADLOCK FALSE
INVARIANTS
    RevokedNeverPasses
    RowsAreNewestAccepted
PROPERTIES
    TransactionEnds
