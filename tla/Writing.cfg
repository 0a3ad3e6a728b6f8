SPECIFICATION WritingSpec
CONSTANTS
    Old = {f1}
    Patches = {p1}
    Ingests = {i1}
    Archives = {a1}
    Purges = {d1}
    Nil = Nil
    MaxCrashes = 1
    Jobs = {"j1", "j2"}
    Turns <- MCTurns
    Brought <- MCBrought
    Configs <- MCConfigs
    MaxTokens = 3
    MaxTurns = 3
    MaxDepth = 1
    MaxDeaths = 1
    Items <- MCItems
    Options <- MCOptions
    Today = 5
    NoDay = 0
    Openers = {"o1", "o2"}
    Builds <- MCBuilds
    MaxCuts = 1
    None = "none"
\* every request may have been answered, every job may have ended, an item is
\* extracted once, every opener may have the store open
CHECK_DEADLOCK FALSE
INVARIANTS
    WritingTypeOK
    EdgesTellSupersession
    IndexAgreesUnlessMuddled
    SessionIsAccounted
    FactIsUsable
    StoresOpenWhole
