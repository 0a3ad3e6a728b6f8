----------------------------- MODULE MemoryTools -----------------------------
(***************************************************************************)
(* sodamem/tools: what a planner calls.  A use of the tools is one of:     *)
(* reading a search page by page, exploring the graph of fact edges,       *)
(* counting evidence by label, or looking up the id of a card.             *)
(*                                                                         *)
(* The rows do not change meanwhile.  A ranking is the numbers 1, 2, ...   *)
(* of its units; the limits of the code are smaller here, in proportion.   *)
(***************************************************************************)
EXTENDS Integers, FiniteSets, Sequences, SequencesExt

CONSTANTS
    Facts, Entities,    \* nodes of the graph
    Labels,             \* labels of an evidence_count
    Undated, When,      \* facts without a date, and when the others were
    DayLength, Zones,   \* moments of a day; moments that zones are ahead
    MaxUnits,           \* bound: units a query ranks
    MaxTopK, Slack, Factor, Floor,  \* 50, 20, 4 and 80 in the code
    MaxDepth,           \* 3 in the code
    MaxEdges,           \* explore's limit, 25 by default
    MostEdges           \* bound: edges between the nodes

Nodes == Facts \cup Entities

ToolsAssumption ==
    /\ Facts \cap Entities = {} /\ Undated \subseteq Facts
    /\ When \in [Facts \ Undated -> Nat] /\ DayLength \in Nat \ {0} /\ Zones \subseteq Int
    /\ MaxUnits \in Nat /\ MaxTopK \in Nat \ {0} /\ Slack \in Nat
    /\ Factor \in Nat \ {0} /\ Floor \in Nat \ {0}
    /\ MaxDepth \in Nat \ {0} /\ MaxEdges \in Nat \ {0} /\ MostEdges \in Nat

(* An id is the segments between its colons; a card's has a prefix too.    *)
SessionIds == {<<"s">>, <<"s", "t">>}
Ids == [kind : {"fact"}, prefix : {"", "ev_fact"}, session : {<<>>}]
        \cup [kind : {"span"}, prefix : {"", "ev_span"}, session : SessionIds]
        \cup [kind : {"turn"}, prefix : {"", "ev_raw", "ev_turn"}, session : SessionIds]

(* The bounds of a window of time, as a caller may write them.             *)
Days == {When[f] \div DayLength : f \in DOMAIN When}
Moments == [day : Days, moment : 0..(DayLength - 1)]
None == [kind |-> "none"]
Boundaries ==
    {None, [kind |-> "malformed"]}
        \cup [kind : {"epoch", "naive"}, on : Moments]
        \cup [kind : {"date"}, on : {m \in Moments : m.moment = 0}]
        \cup [kind : {"aware"}, on : Moments, zone : Zones]

VARIABLES
    use,        \* "search", "explore", "count" or "result"
    ranked, ofSession, topK, offset, pages, more,    \* search
    edges, start, depth, frontier, next, visited, told, hops,   \* explore
    groups, from, to, zone, \* count: what each label's search returned, the
                \* bounds of time, and the zone of the host
    card, found \* result: the id that is looked up, and the row it found

searchVars == <<ranked, ofSession, topK, offset, pages, more>>
exploreVars == <<edges, start, depth, frontier, next, visited, told, hops>>
countVars == <<groups, from, to, zone>>
resultVars == <<card, found>>
vars == <<use, searchVars, exploreVars, countVars, resultVars>>
-----------------------------------------------------------------------------
Init ==
    /\ use \in {"search", "explore", "count", "result"}
    /\ IF use = "search" THEN ranked \in 0..MaxUnits /\ topK \in 1..(MaxTopK + 1)
       ELSE ranked = 0 /\ topK = 1
    /\ ofSession \in SUBSET (1..ranked)
    /\ offset = 0 /\ pages = <<>> /\ more = TRUE
    /\ edges \in SUBSET (Facts \X Nodes)
    /\ Cardinality(edges) <= IF use = "explore" THEN MostEdges ELSE 0
    /\ IF use = "explore" THEN start \in Nodes ELSE start = (CHOOSE n \in Nodes : TRUE)
    /\ IF use = "explore" THEN depth \in 0..(MaxDepth + 1) ELSE depth = 1
    /\ frontier = {start} /\ next = {} /\ visited = {start} /\ told = <<>> /\ hops = 0
    /\ IF use = "count" THEN groups \in [Labels -> SUBSET Facts]
       ELSE groups = [l \in Labels |-> {}]
    /\ IF use = "count" THEN from \in Boundaries /\ to \in Boundaries /\ zone \in Zones
       ELSE from = None /\ to = None /\ zone = (CHOOSE z \in Zones : TRUE)
    /\ IF use = "result" THEN card \in Ids ELSE card = (CHOOSE i \in Ids : TRUE)
    /\ found = "nothing yet"

Least(a, b) == IF a < b THEN a ELSE b
Most(a, b) == IF a > b THEN a ELSE b

-----------------------------------------------------------------------------
(* search.  The ranking is cut first, then filtered by session, then       *)
(* paged.                                                                  *)
K == Most(1, Least(topK, MaxTopK))

MutWindow(o) == Most(K * Factor, Floor)

Window(o) == Most(Most(o + K + Slack, K * Factor), Floor)

Candidates(o) == SetToSortSeq(ofSession \cap 1..Least(ranked, Window(o)), <)

(* The next page, from next_offset on.                                     *)
Page ==
    /\ use = "search" /\ more
    /\ LET all == Candidates(offset)
           page == SubSeq(all, offset + 1, Least(offset + K, Len(all)))
       IN /\ pages' = pages \o page
          /\ offset' = offset + Len(page)
          /\ more' = (offset' < Len(all))
    /\ UNCHANGED <<use, ranked, ofSession, topK, exploreVars, countVars, resultVars>>

-----------------------------------------------------------------------------
(* explore.  get_fact_edges(fact_id) finds the edges that leave a node, so *)
(* an entity has none.                                                     *)
Outgoing(n) == {e \in edges : e[1] = n}

Depth == Most(1, Least(depth, MaxDepth))
Full == Len(told) >= MaxEdges
Exploring == use = "explore" /\ hops < Depth /\ ~Full

(* One node of the frontier.                                               *)
Visit ==
    /\ Exploring
    /\ \E n \in frontier : \E out \in SetToSeqs(Outgoing(n)) :
        LET fresh == {e[2] : e \in Outgoing(n)} \ visited
        IN /\ told' = told \o out
           /\ visited' = visited \cup fresh
           /\ next' = next \cup fresh
           /\ frontier' = frontier \ {n}
    /\ UNCHANGED <<use, edges, start, depth, hops, searchVars, countVars, resultVars>>

Deeper(h) == h + 1

(* The nodes that were met first become the frontier.                      *)
Deepen ==
    /\ Exploring /\ frontier = {}
    /\ frontier' = next /\ next' = {}
    /\ hops' = Deeper(hops)
    /\ UNCHANGED <<use, edges, start, depth, visited, told, searchVars, countVars, resultVars>>

-----------------------------------------------------------------------------
(* evidence_count.  A boundary is a moment, or nothing, or it is refused;  *)
(* what has no zone is in the host's, and a day ends with its last moment. *)
Clock(m) == m.day * DayLength + m.moment

Parsed(b, upper) ==
    CASE b.kind = "epoch" -> Clock(b.on)
      [] b.kind = "naive" -> Clock(b.on) - zone
      [] b.kind = "aware" -> Clock(b.on) - b.zone
      [] b.kind = "date" -> Clock(b.on) - zone + (IF upper THEN DayLength - 1 ELSE 0)

Refused ==
    \/ "malformed" \in {from.kind, to.kind}
    \/ None \notin {from, to} /\ Parsed(from, FALSE) > Parsed(to, TRUE)

InWindow(f) ==
    \/ f \in Undated
    \/ /\ from = None \/ When[f] >= Parsed(from, FALSE)
       /\ to = None \/ When[f] <= Parsed(to, TRUE)

(* _count_roster: one entry of each fact, undated ones last.               *)
AddLabel(roster, label, fact) ==
    IF \E i \in DOMAIN roster : roster[i].fact = fact
    THEN [i \in DOMAIN roster |->
            IF roster[i].fact = fact
            THEN [roster[i] EXCEPT !.labels = @ \cup {label}] ELSE roster[i]]
    ELSE Append(roster, [fact |-> fact, labels |-> {label}])

WithGroup(roster, label) ==
    FoldSet(LAMBDA f, r : AddLabel(r, label, f), roster, {f \in groups[label] : InWindow(f)})

Roster ==
    LET entries == FoldLeft(WithGroup, <<>>, SetToSeq(Labels))
        before(e, f) ==
            IF {e.fact, f.fact} \cap Undated = {} THEN When[e.fact] < When[f.fact]
            ELSE e.fact \notin Undated /\ f.fact \in Undated
    IN SortSeq(entries, before)

-----------------------------------------------------------------------------
(* result: the prefix is stripped and, of what is left, what follows the   *)
(* last colon.  A turn's own id begins with its session's.                 *)
OwnId(i) == CASE i.kind = "fact" -> <<"f">>
              [] OTHER -> SubSeq(i.session, 1, Len(i.session) - 1)
                            \o <<<<i.session[Len(i.session)], i.kind>>>>

Given(i) == IF i.prefix = "ev_turn" THEN i.session \o OwnId(i) ELSE OwnId(i)

LooksUp(i) == <<Given(i)[Len(Given(i))]>>

Result ==
    /\ use = "result" /\ found = "nothing yet"
    /\ found' = IF LooksUp(card) = OwnId(card) THEN card.kind ELSE "memory_not_found"
    /\ UNCHANGED <<use, card, searchVars, exploreVars, countVars>>

Next == Page \/ Visit \/ Deepen \/ Result

Spec == Init /\ [][Next]_vars
-----------------------------------------------------------------------------
TypeOK ==
    /\ use \in {"search", "explore", "count", "result"}
    /\ ranked \in 0..MaxUnits /\ ofSession \subseteq 1..ranked
    /\ topK \in 1..(MaxTopK + 1) /\ offset \in 0..MaxUnits /\ more \in BOOLEAN
    /\ pages \in Seq(1..ranked) /\ offset = Len(pages)
    /\ edges \subseteq Facts \X Nodes /\ start \in Nodes
    /\ depth \in 0..(MaxDepth + 1) /\ hops \in 0..Depth
    /\ frontier \cup next \subseteq visited /\ visited \subseteq Nodes
    /\ told \in Seq(edges)
    /\ groups \in [Labels -> SUBSET Facts] /\ zone \in Zones
    /\ from \in Boundaries /\ to \in Boundaries
    /\ card \in Ids /\ found \in {"nothing yet", "memory_not_found", "fact", "span", "turn"}

(* "preserving memory-core ordering": who reads a search page by page      *)
(* until has_more is false reads every unit of the ranking once, in order. *)
(* Of a session's units it reads a beginning, with all those at least that *)
(* are ranked within the window of the first page.                         *)
PagesAreTheRanking ==
    use = "search" =>
        /\ pages = SubSeq(SetToSortSeq(ofSession, <), 1, Len(pages))
        /\ ~more =>
            \A u \in ofSession \ {pages[i] : i \in DOMAIN pages} :
                ofSession # 1..ranked /\ u > Window(0)

(* Whom edges lead to in so many steps.                                    *)
Ball(n) ==
    LET within[d \in Nat] ==
            IF d = 0 THEN {start}
            ELSE within[d - 1] \cup {e[2] : e \in {x \in edges : x[1] \in within[d - 1]}}
    IN within[n]

(* "Graph BFS over FactEdges": explore finds the nodes within depth, each  *)
(* edge from them once, and less of it when it has edges enough.           *)
ExploreFindsTheBall ==
    use = "explore" =>
        /\ visited \subseteq Ball(Depth)
        /\ \A i, j \in DOMAIN told : i # j => told[i] # told[j]
        /\ hops >= Depth =>
            /\ visited = Ball(Depth)
            /\ {told[i] : i \in DOMAIN told} = {e \in edges : e[1] \in Ball(Depth - 1)}

(* What a boundary says of a moment, by the clock that it is read on.      *)
Said(t, b, holds(_, _)) ==
    CASE b.kind = "none" -> TRUE
      [] b.kind = "epoch" -> holds(t, Clock(b.on))
      [] b.kind = "naive" -> holds(t + zone, Clock(b.on))
      [] b.kind = "aware" -> holds(t + b.zone, Clock(b.on))
      [] b.kind = "date" -> holds((t + zone) \div DayLength, b.on.day)

(* "summing candidate_count double-counts": the roster of a count has an   *)
(* entry for each fact that any label found, with just those labels, by    *)
(* date.  "A missing date is a reason for the reader to look, not to drop  *)
(* the row"; one that is dated is of the days that the window says.        *)
RosterCountsOnce ==
    use = "count" /\ ~Refused =>
        LET inside(f) ==
                f \in Undated \/ (Said(When[f], from, >=) /\ Said(When[f], to, <=))
            counted == {f \in UNION {groups[l] : l \in Labels} : inside(f)}
        IN /\ \A f \in counted :
                \E i \in DOMAIN Roster :
                    Roster[i] = [fact |-> f, labels |-> {l \in Labels : f \in groups[l]}]
           /\ Len(Roster) = Cardinality(counted)
           /\ \A i, j \in DOMAIN Roster :
                i < j /\ Roster[j].fact \notin Undated =>
                    Roster[i].fact \notin Undated /\ When[Roster[i].fact] <= When[Roster[j].fact]

(* "Those result ids must remain inspectable": a card's id finds its row,  *)
(* unless the session's id has a colon in it.                              *)
CardsAreInspectable ==
    found # "nothing yet" /\ Len(card.session) < 2 => found = card.kind
=============================================================================
