------------------------------ MODULE Retrieval ------------------------------
(***************************************************************************)
(* sodamem/memory/retrieval: one search of one user's store, by either     *)
(* route, while other requests archive, erase and store facts.             *)
(*                                                                         *)
(* Every channel reads the store on its own, so the steps are the          *)
(* channels, and the rows may change between any two of them.  Which rows  *)
(* a channel hits, and in which order, is any choice: scores of texts and  *)
(* embeddings are left out.  A row's search heads are a set, since a head  *)
(* counts once for a unit, and weigh what FusionConfig says, in            *)
(* twentieths.                                                             *)
(***************************************************************************)
EXTENDS Integers, FiniteSets, FiniteSetsExt, Sequences, SequencesExt

CONSTANTS
    Facts,
    Spans,      \* source spans; each is one raw turn
    Sources,    \* Sources[f]: the spans of a fact
    LikeId,     \* LikeId[s]: spans in whose id the id of s occurs
    Summaries,
    Expands,    \* Expands[m]: source_fact_ids of a summary
    Entities,
    Archived,   \* facts that are archived as the search begins
    About,      \* About[e]: facts in which the entity has a role
    Event,      \* Event[f]: the fingerprint of a fact, or Unclear
    Unclear,
    Rich,       \* Rich[f]: how complete the fact is
    Dated,      \* facts of a date that the query names
    Explicit,   \* facts of source_type explicit_text
    MaxHeads,   \* max_search_heads_per_channel
    TopK,       \* search_head_rerank_top_k
    Limit,      \* limit
    MaxWrites   \* bound: writes of other requests

RetrievalAssumption ==
    /\ Sources \in [Facts -> SUBSET Spans] /\ LikeId \in [Spans -> SUBSET Spans]
    /\ \A s \in Spans : s \in LikeId[s]
    /\ Expands \in [Summaries -> SUBSET Facts] /\ About \in [Entities -> SUBSET Facts]
    /\ Rich \in [Facts -> Nat] /\ Dated \subseteq Facts /\ Archived \subseteq Facts /\ Explicit \subseteq Facts
    /\ MaxHeads \in Nat \ {0} /\ TopK \in Nat \ {0} /\ Limit \in Nat \ {0}

Unit(kind, id) == [kind |-> kind, id |-> id]
Units == [kind : {"fact"}, id : Facts] \cup [kind : {"span", "raw"}, id : Spans]
FactUnits(S) == {Unit("fact", f) : f \in S}

HeadOf(signal, root) == [signal |-> signal, root |-> root]
Heads == [signal : {"bm25", "vector"}, root : Units]
            \cup [signal : {"summary"}, root : Summaries]
            \cup [signal : {"entity", "mention"}, root : Entities]

VARIABLES
    route,      \* search_route
    raw,        \* raw_recall_enabled
    status,     \* of the rows, now
    before,     \* of the rows as the search began, which an index may hold
    stage,      \* the channel that is next
    heads,      \* head_contributions of each unit
    members,    \* member_fact_ids of each canonical unit
    rank,       \* ranking_confidence
    shown,      \* the evidence
    dirty,      \* summaries marked dirty
    wasActive,  \* history: facts that were active during the search
    credited,   \* history: facts that were given a head
    erased,     \* history: facts erased after same events were merged
    writes

vars == <<route, raw, status, before, stage, heads, members, rank, shown,
          dirty, wasActive, credited, erased, writes>>

Stages == <<"facts", "near facts", "spans", "near spans", "summaries",
            "entities", "turns", "merge", "rank", "show", "shown">>
Is(s) == stage <= Len(Stages) /\ Stages[stage] = s
Active == {f \in Facts : status[f] = "active"}
-----------------------------------------------------------------------------
Init ==
    /\ route \in {"fusion", "wide"} /\ raw \in BOOLEAN
    /\ status = [f \in Facts |-> IF f \in Archived THEN "archived" ELSE "active"]
    /\ before = status
    /\ stage = 1
    /\ heads = [u \in Units |-> {}]
    /\ members = [u \in Units |-> {}]
    /\ rank = [u \in Units |-> 0]
    /\ shown = {}
    /\ dirty = {}
    /\ wasActive = Facts \ Archived
    /\ credited = {}
    /\ erased = {}
    /\ writes = 0

(* Another request archives a fact, erases it, or stores it again.         *)
Write ==
    /\ stage < Len(Stages) /\ writes < MaxWrites
    /\ \E f \in Facts, s \in {"archived", "absent", "active"} :
        /\ status[f] # s
        /\ status' = [status EXCEPT ![f] = s]
        /\ wasActive' = IF s = "active" THEN wasActive \cup {f} ELSE wasActive
        /\ erased' = IF s = "absent" /\ Stages[stage] \in {"rank", "show"}
                     THEN erased \cup {f} ELSE erased
    /\ writes' = writes + 1
    /\ UNCHANGED <<route, raw, before, stage, heads, members, rank, shown, dirty, credited>>

AtMost(n, S) == IF Cardinality(S) <= n THEN {S} ELSE kSubset(n, S)

(* unit_for_fact: the status a hit was read with decides.                  *)
Qualify(S, state) == {f \in S : state[f] = "active"}

(* A channel gives each unit of credit its heads, and is over.             *)
Channel(credit) ==
    /\ heads' = [u \in Units |-> heads[u] \cup {c[2] : c \in {d \in credit : d[1] = u}}]
    /\ credited' = credited \cup {f \in Facts : heads'[Unit("fact", f)] # {}}
    /\ stage' = stage + 1
    /\ UNCHANGED <<route, raw, status, before, members, rank, shown, wasActive, erased, writes>>

(* RRF sums over all hits; the fusion takes so many heads of a channel.    *)
Cap(n, S) == IF route = "fusion" THEN AtMost(n, S) ELSE {S}

(* _direct_fact_channel.  The keyword index may hold a row as it was when  *)
(* the search began (KeywordIndex).                                        *)
FactChannel(signal, state) ==
    \E hits \in SUBSET Facts : \E taken \in Cap(MaxHeads, Qualify(hits, state)) :
        /\ Channel({<<Unit("fact", f), HeadOf(signal, Unit("fact", f))>> : f \in taken})
        /\ UNCHANGED dirty

FactChannels ==
    \/ Is("facts") /\ (FactChannel("bm25", before) \/ FactChannel("bm25", status))
    \/ Is("near facts") /\ FactChannel("vector", status)

(* get_facts_for_span: source_span_ids LIKE %id%, so the span of a longer  *)
(* id will do.                                                             *)
FactsForSpan(s) == {f \in Active : Sources[f] \cap LikeId[s] # {}}

SpanCredit(signal, s, facts) ==
    LET own == {<<Unit("span", s), HeadOf(signal, Unit("span", s))>>}
        linked == {<<Unit("fact", f), HeadOf(signal, Unit("fact", f))>> : f \in facts}
    IN CASE route = "wide" -> own \cup linked
         [] route = "fusion" /\ facts # {} -> linked
         [] route = "fusion" /\ facts = {} -> IF raw THEN {} ELSE own

(* _span_channel: it stops before the span at which it has enough heads,   *)
(* so that the facts of one span may take it past them.                    *)
SpanChannel(signal) ==
    \E hits \in SUBSET Spans :
    \E facts \in [hits -> SUBSET Facts] :
        LET Credit(S) == UNION {SpanCredit(signal, s, facts[s]) : s \in S}
            Enough(S) == Cardinality(Credit(S)) >= MaxHeads
        IN /\ \A s \in hits : facts[s] \in Cap(TopK, FactsForSpan(s))
           /\ \E done \in SUBSET hits :
                /\ IF route = "wide" THEN done = hits
                   ELSE /\ (done = hits \/ Enough(done))
                        /\ (done = {} \/ \E s \in done : ~Enough(done \ {s}))
                /\ Channel(Credit(done))
           /\ UNCHANGED dirty

SpanChannels ==
    \/ Is("spans") /\ SpanChannel("bm25")
    \/ Is("near spans") /\ SpanChannel("vector")

(* _summary_channel: a summary only leads to its facts; one whose facts    *)
(* are all gone is marked dirty.                                           *)
SummaryChannel ==
    /\ Is("summaries")
    /\ \E hits \in SUBSET Summaries :
       \E led \in [hits -> SUBSET Facts] :
        /\ \A m \in hits : led[m] \in Cap(TopK, Expands[m])
        /\ Channel(UNION {{<<Unit("fact", f), HeadOf("summary", m)>> :
                              f \in Qualify(led[m], status)} : m \in hits})
        /\ dirty' = dirty \cup {m \in hits :
                        /\ route = "fusion" /\ led[m] # {}
                        /\ \A f \in led[m] : status[f] = "absent"}

(* Facts two hops away are credited to the entity the query named; who     *)
(* comes first takes them.                                                 *)
Near(e) == Active \cap About[e]
SecondHop(e, seen) == {o \in Entities \ ({e} \cup seen) : About[o] \cap Near(e) # {}}

(* The second hops of the entities up to each place of an order.           *)
SeenAt(order) ==
    LET seen[i \in 0..Len(order)] ==
            IF i = 0 THEN {} ELSE seen[i - 1] \cup SecondHop(order[i], seen[i - 1])
    IN seen

EntityCredit(order) ==
    UNION {LET next == SecondHop(order[i], SeenAt(order)[i - 1])
               facts == Near(order[i]) \cup UNION {Near(o) : o \in next}
           IN {<<u, HeadOf("entity", order[i])>> : u \in FactUnits(facts)} : i \in DOMAIN order}

(* _entity_channel.                                                        *)
EntityChannel ==
    /\ Is("entities") /\ route = "fusion"
    /\ \E named \in SUBSET Entities : \E some \in AtMost(MaxHeads, named) :
       \E order \in SetToSeqs(some) :
        Channel(EntityCredit(order))
    /\ UNCHANGED dirty

(* mention_lookup of the wide route: the span and the fact of a mention.   *)
MentionChannel ==
    /\ Is("entities") /\ route = "wide"
    /\ \E named \in SUBSET Entities :
        Channel(UNION {
            {<<u, HeadOf("mention", e)>> :
                u \in FactUnits(Qualify(About[e], status))
                        \cup {Unit("span", s) : s \in UNION {Sources[f] : f \in About[e]}}} :
            e \in named})
    /\ UNCHANGED dirty

(* _raw_channel.                                                           *)
RawChannel ==
    /\ Is("turns")
    /\ \E words, near \in SUBSET Spans :
       \E b \in AtMost(MaxHeads, words), v \in AtMost(MaxHeads, near) :
        Channel(IF route = "wide" \/ ~raw THEN {}
                ELSE {<<Unit("raw", s), HeadOf("bm25", Unit("raw", s))>> : s \in b}
                        \cup {<<Unit("raw", s), HeadOf("vector", Unit("raw", s))>> : s \in v})
    /\ UNCHANGED dirty

Found == {u \in Units : heads[u] # {}}

(* _event_fingerprint, of a row that is still there.                       *)
SameEvent(f, g) ==
    /\ Event[f] = Event[g] /\ Event[f] # Unclear
    /\ {status[f], status[g]} \subseteq {"active", "archived"}

Better(f, g) ==
    LET n(x) == Cardinality(heads[Unit("fact", x)])
    IN n(f) > n(g) \/ (n(f) = n(g) /\ Rich[f] >= Rich[g])

MutMembers(group, f) == {}

Members(group, f) == group \ {f}

(* _merge_same_event: the best supported fact of an event stands for it.   *)
Merge ==
    /\ Is("merge")
    /\ LET facts == {f \in Facts : Unit("fact", f) \in Found}
           Group(f) == {g \in facts : g = f \/ SameEvent(f, g)}
       IN \E best \in SUBSET facts :
            /\ \A f \in facts : \E b \in Group(f) :
                best \cap Group(f) = {b} /\ \A g \in Group(f) : Better(b, g)
            /\ LET Stands(u) == u.kind = "fact" /\ u.id \in best
                   Merged(u) == u.kind = "fact" /\ u.id \in facts \ best
               IN IF route = "wide" THEN UNCHANGED <<heads, members>>
                  ELSE /\ heads' = [u \in Units |->
                            CASE Stands(u) -> UNION {heads[Unit("fact", g)] : g \in Group(u.id)}
                              [] Merged(u) -> {}
                              [] OTHER -> heads[u]]
                       /\ members' = [u \in Units |->
                            IF Stands(u) THEN Members(Group(u.id), u.id) ELSE {}]
    /\ stage' = stage + 1
    /\ UNCHANGED <<route, raw, status, before, rank, shown, dirty, wasActive, credited, erased, writes>>

Weight(h) ==
    CASE h.signal = "bm25" -> 8 [] h.signal = "vector" -> 4
      [] h.signal = "entity" -> 2 [] OTHER -> 1

MostHeads == 7
Missed(S) == MapThenFoldSet(LAMBDA a, b : a * b, 1, LAMBDA h : 20 - Weight(h), LAMBDA T : CHOOSE h \in T : TRUE, S)

(* connection_density, the noisy or, in 20^-MostHeads.                     *)
Density(S) == 20^MostHeads - Missed(S) * 20^(MostHeads - Cardinality(S))

Boost(u) == IF u.kind = "fact" /\ u.id \in Dated /\ status[u.id] # "absent"
            THEN 6 * 20^(MostHeads - 1) ELSE 0

(* _rank_key: explicit facts, then spans, then inferred facts; scores are  *)
(* left out.                                                               *)
Tier(u) == CASE u.kind # "fact" -> 2 [] u.id \in Explicit -> 3 [] OTHER -> 1

Rank ==
    /\ Is("rank")
    /\ rank' = [u \in Units |->
                    IF heads[u] = {} THEN 0
                    ELSE IF route = "wide" THEN Tier(u) ELSE Density(heads[u]) + Boost(u)]
    /\ stage' = stage + 1
    /\ UNCHANGED <<route, raw, status, before, heads, members, shown, dirty, wasActive, credited, erased, writes>>

(* The row of a unit is read once more, by the fusion only.                *)
Vanished(u) == route = "fusion" /\ u.kind = "fact" /\ status[u.id] = "absent"

(* evidence[:limit], the best; of equals, any.                             *)
Show ==
    /\ Is("show")
    /\ LET there == {u \in Found : ~Vanished(u)}
       IN \E best \in AtMost(Limit, there) :
            /\ \A u \in best, v \in there \ best : rank[u] >= rank[v]
            /\ shown' = best
    /\ stage' = stage + 1
    /\ UNCHANGED <<route, raw, status, before, heads, members, rank, dirty, wasActive, credited, erased, writes>>

Next ==
    \/ FactChannels \/ SpanChannels \/ SummaryChannel \/ EntityChannel
    \/ MentionChannel \/ RawChannel \/ Merge \/ Rank \/ Show \/ Write

Spec == Init /\ [][Next]_vars
-----------------------------------------------------------------------------
TypeOK ==
    /\ route \in {"fusion", "wide"} /\ raw \in BOOLEAN
    /\ status \in [Facts -> {"active", "archived", "absent"}]
    /\ before \in [Facts -> {"active", "archived", "absent"}]
    /\ stage \in 1..Len(Stages)
    /\ heads \in [Units -> SUBSET Heads]
    /\ members \in [Units -> SUBSET Facts]
    /\ rank \in [Units -> Nat]
    /\ shown \subseteq Units
    /\ dirty \subseteq Summaries
    /\ wasActive \subseteq Facts /\ credited \subseteq Facts /\ erased \subseteq Facts

Tells(u) == (IF u.kind = "fact" THEN {u.id} ELSE {}) \cup members[u]
Over == stage = Len(Stages)

(* config.py: only facts that are current are evidence.  What a search     *)
(* shows, and what it merged into it, was active at some time during the   *)
(* search, whatever was archived, erased and stored meanwhile.             *)
ShownWasActive == Over => \A u \in shown : Tells(u) \subseteq wasActive

(* "the fusion merges before it cuts off": a fact that any channel hit is  *)
(* shown, as itself or as a source of the same event, unless better ones   *)
(* fill the limit, it is gone, or the row that stands for it is erased     *)
(* after the merge, which takes its sources with it.  No fact is told      *)
(* twice, and no turn by its span and as itself (fusion.py:250 "a turn is  *)
(* never represented by both").                                            *)
FoundIsShownOnce ==
    Over /\ route = "fusion" =>
        /\ \A f \in credited :
            \/ status[f] = "absent"
            \/ \E u \in shown : f \in Tells(u)
            \/ Cardinality(shown) = Limit
            \/ \E g \in erased : f \in members[Unit("fact", g)]
        /\ \A u, v \in shown :
            u # v => /\ Tells(u) \cap Tells(v) = {}
                     /\ ~(u.kind = "span" /\ v.kind = "raw" /\ u.id = v.id)
=============================================================================
