SPECIFICATION ReadingSpec
CONSTANTS
    Evidence <- MCEvidence
    External <- MCExternal
    Text <- MCText
    NoText = NoText
    Claims = {k1, k2}
    Negative = {k2}
    Calls <- MCCalls
    Tool <- MCTool
    Allowed <- MCAllowed
    FirstSearch = "first"
    AutoCall <- MCAutoCall
    MaxSteps = 3
    MaxSelected = 1
    Dups = 1
    ZeroRows = 2
    ZeroNovelty = 2
    FallbackCards = 1
    Configs <- MCConfigs
    MaxCalls = 1
    Handles = {"h"}
    Writers = {"w1", "w2"}
    Searchers = {"s1", "s2"}
    Through <- MCThrough
    MaxAdds = 2
    MaxSearches = 2
    Facts <- MCFacts
    Spans <- MCSpans
    Sources <- MCSources
    LikeId <- MCLikeId
    Summaries = {"m"}
    Expands <- MCExpands
    Entities = {"a", "b"}
    About <- MCAbout
    Event <- MCEvent
    Unclear = "unclear"
    Rich <- MCRich
    Dated = {"f1"}
    Explicit = {"f1", "f2"}
    Archived = {"f3"}
    MaxHeads = 2
    TopK = 2
    Limit = 3
    MaxWrites = 1
    Nearby = {"a"}
    Labels = {"l1", "l2"}
    Undated = {"f2"}
    When <- MCWhen
    DayLength = 2
    Zones <- MCZones
    MaxUnits = 7
    MaxTopK = 3
    Slack = 1
    Factor = 2
    Floor = 3
    MaxDepth = 2
    MaxEdges = 3
    MostEdges = 4
    Searched <- MCSearched
    Looked <- MCLooked
    NoSession = ""
    MaxCards = 2
    MaxExtra = 1
    MaxPicked = 1
    MaxRounds = 2
    Nothing = "none"
\* an answered question stays answered
CHECK_DEADLOCK FALSE
INVARIANTS
    ReadingTypeOK
    VerdictIsEarned
    ClaimsAreSupported
    PoolLosesNothing
    SearchSeesReturned
    SearchIsFaithful
    ToolsTellTheStore
