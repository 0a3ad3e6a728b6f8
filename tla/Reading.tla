------------------------------ MODULE Reading ------------------------------
(***************************************************************************)
(* How a question is answered: AnswerLoop (the planner's loop),            *)
(* EvidencePool (the rows it gathers), MemoryTools (the tools it calls),   *)
(* Retrieval (one search) and KeywordIndex (the index it looks into).  A   *)
(* search is one call of the loop and reads the index once for each        *)
(* channel, so the five are specified apart: an execution is one of one of *)
(* them, and part says of which.                                           *)
(***************************************************************************)
EXTENDS AnswerLoop

CONSTANTS
    \* of KeywordIndex
    Handles, Writers, Searchers, Through, MaxAdds, MaxSearches,
    \* of Retrieval
    Facts, Spans, Sources, LikeId, Summaries, Expands, Entities, About, Event, Unclear,
    Rich, Dated, Explicit, Archived, MaxHeads, TopK, Limit, MaxWrites,
    \* of MemoryTools, which has the facts of Retrieval
    Nearby, Labels, Undated, When, DayLength, Zones, MaxUnits, MaxTopK, Slack, Factor,
    Floor, MaxDepth, MaxEdges, MostEdges,
    \* of EvidencePool
    Searched, Looked, NoSession, MaxCards, MaxExtra, MaxPicked, MaxRounds,
    Nothing    \* the value of a variable of a part that an execution is not of

VARIABLES
    part,
    rows, version, cache, wat, read, returned, sat, looked, ver, got, due,
    searches, receded,
    route, raw, status, before, stage, heads, members, rank, evidence, dirty,
    wasActive, credited, erased, writes,
    use, ranked, ofSession, topK, offset, pages, more, edges, start, depth,
    frontier, next, visited, told, hops, groups, from, to, zone, card, found,
    purpose, calls, pool, had, picked, asked, seen, rehydrate, unread, cards, readerRows

indexVars == <<rows, version, cache, wat, read, returned, sat, looked, ver, got,
               due, searches, receded>>
searchVars == <<route, raw, status, before, stage, heads, members, rank, evidence,
                dirty, wasActive, credited, erased, writes>>
toolsVars == <<use, ranked, ofSession, topK, offset, pages, more, edges, start,
               depth, frontier, next, visited, told, hops, groups, from, to, zone,
               card, found>>
poolVars == <<purpose, calls, pool, had, picked, asked, seen, rehydrate, unread, cards,
              readerRows>>

K == INSTANCE KeywordIndex WITH MaxWrites <- MaxAdds
R == INSTANCE Retrieval WITH shown <- evidence
T == INSTANCE MemoryTools WITH Entities <- Nearby
P == INSTANCE EvidencePool WITH
        NoIdentity <- Nothing, Found <- Searched, MaxCalls <- MaxRounds,
        shown <- readerRows, pending <- rehydrate

ASSUME ReadingAssumptions ==
    /\ K!IndexAssumption /\ R!RetrievalAssumption
    /\ T!ToolsAssumption /\ P!EvidenceAssumption

(* The variables of the parts that an execution is not of.                 *)
NoIndex ==
    /\ rows = Nothing /\ version = Nothing /\ cache = Nothing /\ wat = Nothing /\ read = Nothing
    /\ returned = Nothing /\ sat = Nothing /\ looked = Nothing /\ ver = Nothing /\ got = Nothing
    /\ due = Nothing /\ searches = Nothing /\ receded = Nothing
NoSearch ==
    /\ route = Nothing /\ raw = Nothing /\ status = Nothing /\ before = Nothing /\ stage = Nothing
    /\ heads = Nothing /\ members = Nothing /\ rank = Nothing /\ evidence = Nothing /\ dirty = Nothing
    /\ wasActive = Nothing /\ credited = Nothing /\ erased = Nothing /\ writes = Nothing
NoTools ==
    /\ use = Nothing /\ ranked = Nothing /\ ofSession = Nothing /\ topK = Nothing /\ offset = Nothing
    /\ pages = Nothing /\ more = Nothing /\ edges = Nothing /\ start = Nothing /\ depth = Nothing
    /\ frontier = Nothing /\ next = Nothing /\ visited = Nothing /\ told = Nothing /\ hops = Nothing
    /\ groups = Nothing /\ from = Nothing /\ to = Nothing /\ zone = Nothing /\ card = Nothing /\ found = Nothing
NoPool ==
    /\ purpose = Nothing /\ calls = Nothing /\ pool = Nothing /\ had = Nothing /\ picked = Nothing
    /\ asked = Nothing /\ seen = Nothing /\ rehydrate = Nothing /\ unread = Nothing
    /\ cards = Nothing /\ readerRows = Nothing

ReadingInit ==
    /\ part \in {"answer", "search", "index", "tools", "pool"}
    /\ Init /\ (part = "answer" \/ config = CHOOSE c \in Configs : TRUE)
    /\ IF part = "index" THEN K!Init ELSE NoIndex
    /\ IF part = "search" THEN R!Init ELSE NoSearch
    /\ IF part = "tools" THEN T!Init ELSE NoTools
    /\ IF part = "pool" THEN P!Init ELSE NoPool

ReadingNext ==
    /\ UNCHANGED part
    /\ \/ /\ part = "answer" /\ Next
          /\ UNCHANGED <<indexVars, searchVars, toolsVars, poolVars>>
       \/ /\ part = "search" /\ R!Next
          /\ UNCHANGED <<vars, indexVars, toolsVars, poolVars>>
       \/ /\ part = "index" /\ K!Next
          /\ UNCHANGED <<vars, searchVars, toolsVars, poolVars>>
       \/ /\ part = "tools" /\ T!Next
          /\ UNCHANGED <<vars, indexVars, searchVars, poolVars>>
       \/ /\ part = "pool" /\ P!Next
          /\ UNCHANGED <<vars, indexVars, searchVars, toolsVars>>

ReadingSpec ==
    ReadingInit /\ [][ReadingNext]_<<part, vars, indexVars, searchVars, toolsVars, poolVars>>

-----------------------------------------------------------------------------
(* The variables of the five parts have their types.                       *)
ReadingTypeOK ==
    CASE part = "answer" -> TypeOK
      [] part = "search" -> R!TypeOK
      [] part = "index" -> K!TypeOK
      [] part = "tools" -> T!TypeOK
      [] part = "pool" -> P!TypeOK

(* A search sees every write that had returned before it (KeywordIndex).   *)
SearchSeesReturned == part = "index" => K!SearchSeesReturned

(* What a search shows was active while it ran, and what a channel of the  *)
(* fusion found is shown, and once (Retrieval).                            *)
SearchIsFaithful == part = "search" => R!ShownWasActive /\ R!FoundIsShownOnce

(* The pages of a search are its ranking, exploring finds the nodes that   *)
(* are near enough, a count has one entry of each fact in its window, and  *)
(* the id on a card finds its row (MemoryTools).                           *)
ToolsTellTheStore ==
    part = "tools" =>
        /\ T!PagesAreTheRanking /\ T!ExploreFindsTheBall
        /\ T!RosterCountsOnce /\ T!CardsAreInspectable

(* A question that ends as sufficient has all that it owes, and one that   *)
(* does not is proven to lack it (AnswerLoop).                             *)
VerdictIsEarned == SufficientIsEarned /\ AbstentionIsProven

(* What supports a claim is selected, and reaches the reader (AnswerLoop). *)
ClaimsAreSupported == SelectionCoversClaims /\ ClaimsReachReader

(* No row of the pool, and no text that was selected or preferred, is lost *)
(* on the way, and no card comes without its text to who has not seen it   *)
(* (EvidencePool).                                                         *)
PoolLosesNothing ==
    part = "pool" => P!KeepsWhatItHad /\ P!ReaderSeesSelected
                        /\ P!CardsAreShared /\ P!NothingIsWithheld
=============================================================================
