SPECIFICATION DerivedSpec
CONSTANTS
    Pools <- MCPools
    SpanTime <- MCSpanTime
    SpanRole <- MCSpanRole
    Now = 10
    MaxOperations = 4
    f1 = f1
    f2 = f2
    f3 = f3
    ada = ada
    bob = bob
    Facts <- MCFacts
    Entities <- MCEntities
    About <- MCAbout
    Time <- MCTime
    ByAssistant <- MCByAssistant
    Anchors <- MCAnchors
    Dreamers = {d1, d2}
    Writers = {w1, w2, w3}
    MaxCrashes = 1
SYMMETRY MCSymmetry
\* the bound of operations may be reached, nothing needs to be dreamed of any
\* more, every ingestion may have ended, the days of sessions are finite
CHECK_DEADLOCK FALSE
INVARIANTS
    DerivedTypeOK
    CurrentIsUnbeaten
    SupersessionAcyclic
    ProfilesAreKept
    RoutableTellsMarked
    DatesAreRight
