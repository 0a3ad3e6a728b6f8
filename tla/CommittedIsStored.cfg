SPECIFICATION Spec
CONSTANTS
    Callers = {c1, c2}
    Pids = {p1, p2, p3}
    NoPid = NoPid
    Hooks = {h1, h2}
    MaxLines = 3
    MaxJobs = 2
    MaxTurns = 1
    Events = {e1, e2, e3}
    Dispatchers = {d1, d2, d3}
    None = None
    MaxQueue = 2
    Agents = {a1, a2}
    Service = service
    Nobody = nobody
    Turns = {t1, t2}
    Named = {s1}
    Fresh = {f1}
    MaxAdds = 3
    DefaultLimit = 3
    MaxRanked = 4
    MaxTopK = 4
    Commands = {i1, i2}
    Entries = {u1, u2}
    Naming = {u2}
    MaxCrashes = 1
    Operations = {o1, o2}
    Models = {m1}
    PolicyAttempts = 2
    EmptyRetries = 1
    MaxCalls = 1
    MaxOpens = 2
    q1 = q1
    q2 = q2
    q3 = q3
    Questions = {q1, q2, q3}
    Pinned = pinned
    Others = {other}
    NoSummary = NoSummary
    Scopes <- MCScopes
    Anchor <- MCAnchor
    Concurrency = 2
    MaxRuns = 2
    MaxKills = 1
\* commands may have ended, bounds of the transcript may be reached, a server
\* may have nothing left to do
CHECK_DEADLOCK FALSE
INVARIANTS
    CommittedIsStored
