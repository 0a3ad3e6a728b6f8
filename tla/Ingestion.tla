------------------------------ MODULE Ingestion ------------------------------
(***************************************************************************)
(* sodamem/memory/ingest: IngestClient.ingest_session and the extractor,   *)
(* for jobs that ingest into one user's store at once.                     *)
(*                                                                         *)
(* A session's turns are stored first.  Then they are gathered in windows, *)
(* each of which goes to a language model before the next one is gathered. *)
(* The model may answer anything; an answer that was cut off halves the    *)
(* window.  The facts are kept in memory until every window was extracted, *)
(* and are then stored one by one.  The jobs share the store and, with it, *)
(* the provider, whose last finish reason is one field.                    *)
(***************************************************************************)
EXTENDS Integers, FiniteSets, FiniteSetsExt, Sequences

CONSTANTS
    Jobs,
    Turns,      \* Turns[j]: the turns job j may bring, as their token counts
    Requests,   \* Requests[j]: [session, project, infer], as may be asked
    Nowhere,    \* no project
    Configs,    \* [failFast, emptyIsEmpty, overlap]
    MaxTokens, MaxTurns,    \* of a window
    MaxDepth,   \* _MAX_SPLIT_DEPTH, 3 in the code
    MaxDeaths   \* bound: jobs that die

IngestionAssumption ==
    /\ \A j \in Jobs : Turns[j] \subseteq Seq(Nat)
    /\ MaxTokens \in Nat /\ MaxTurns \in Nat \ {0} /\ {MaxDepth, MaxDeaths} \subseteq Nat
    /\ \A c \in Configs : c.overlap \in Nat

VARIABLES
    config, request,    \* request[j]: what job j was asked to ingest
    size,       \* size[j][t]: tokens of a turn
    at,         \* "store", "gather", "ask", "read", "scope", "maintain", "done",
                \* "failed"
    kept,       \* how many turns of job j are stored, each with its span
    scope,      \* session_scope: the project of a session
    facts,      \* rows: [sources, project]
    window,     \* turns gathered: [from, to, flushed]; flushed for what follows
    todo,       \* segments to extract: [from, to, depth, retry]
    answer,     \* what the model answered job j
    reason,     \* _last_finish_reason of the provider
    drafts,     \* facts in the memory of job j: [sources, project]
    judged,     \* history: the leaves of the extraction, in order
    deaths

jobVars == <<at, kept, window, todo, answer, drafts, judged>>
rowVars == <<scope, facts>>
vars == <<config, request, size, reason, deaths, rowVars, jobVars>>

Asked == UNION {Requests[j] : j \in Jobs}
Projects == {q.project : q \in Asked} \cup {Nowhere}
Sessions == {q.session : q \in Asked}
Id(j, t) == <<request[j].session, t>>
-----------------------------------------------------------------------------
Segment(from, to, depth) == [from |-> from, to |-> to, depth |-> depth, retry |-> FALSE]
Spans(w) == w.from..w.to
Length(w) == w.to - w.from + 1

Unasked == [is |-> "none", cites |-> {}]

Init ==
    /\ config \in Configs
    /\ request \in [Jobs -> Asked] /\ \A j \in Jobs : request[j] \in Requests[j]
    /\ size \in [Jobs -> UNION {Turns[j] : j \in Jobs}] /\ \A j \in Jobs : size[j] \in Turns[j]
    /\ at = [j \in Jobs |-> "store"] /\ kept = [j \in Jobs |-> 0]
    /\ scope = [s \in Sessions |-> Nowhere] /\ facts = {}
    /\ window = [j \in Jobs |-> [from |-> 1, to |-> 0, flushed |-> FALSE]]
    /\ todo = [j \in Jobs |-> <<>>] /\ answer = [j \in Jobs |-> Unasked]
    /\ reason = "stop"
    /\ drafts = [j \in Jobs |-> <<>>] /\ judged = [j \in Jobs |-> <<>>]
    /\ deaths = 0

(* upsert_raw_turn and upsert_source_span; with infer=False that is all.   *)
Store(j) ==
    /\ at[j] = "store"
    /\ IF kept[j] < Len(size[j])
       THEN kept' = [kept EXCEPT ![j] = @ + 1] /\ UNCHANGED at
       ELSE /\ at' = [at EXCEPT ![j] = IF request[j].infer THEN "gather" ELSE "done"]
            /\ UNCHANGED kept
    /\ UNCHANGED <<config, request, size, reason, deaths, rowVars, window, todo, answer, drafts,
                   judged>>

-----------------------------------------------------------------------------
(* ingest_session's windows: a turn that does not fit flushes what is      *)
(* there, and the end of the session what is left.  The last turns of a    *)
(* window are in the next one too.                                         *)
Tokens(j, w) == MapThenSumSet(LAMBDA t : size[j][t], Spans(w))

Ended(j) == window[j].to = Len(size[j])
Over(j) ==
    LET w == window[j]
    IN Length(w) > 0 /\ ~w.flushed /\ Tokens(j, w) + size[j][w.to + 1] > MaxTokens

Overlap(w) == IF config.overlap < Length(w) THEN w.to - config.overlap + 1 ELSE w.from

Extract(j, w, flushed) ==
    /\ at' = [at EXCEPT ![j] = "ask"]
    /\ todo' = [todo EXCEPT ![j] = <<Segment(w.from, w.to, 0)>>]
    /\ window' = [window EXCEPT ![j] = [from |-> Overlap(w), to |-> w.to, flushed |-> flushed]]

Gather(j) ==
    /\ at[j] = "gather" /\ ~Ended(j) /\ ~Over(j)
    /\ LET w == [from |-> window[j].from, to |-> window[j].to + 1, flushed |-> FALSE]
       IN IF Length(w) >= MaxTurns THEN Extract(j, w, FALSE)
          ELSE window' = [window EXCEPT ![j] = w] /\ UNCHANGED <<at, todo>>
    /\ UNCHANGED <<config, request, size, reason, deaths, rowVars, kept, answer, drafts, judged>>

Flush(j) ==
    /\ at[j] = "gather"
    /\ IF Ended(j) THEN Length(window[j]) > 0 /\ ~window[j].flushed ELSE Over(j)
    /\ Extract(j, window[j], TRUE)
    /\ UNCHANGED <<config, request, size, reason, deaths, rowVars, kept, answer, drafts, judged>>

EndWindows(j) ==
    /\ at[j] = "gather" /\ Ended(j) /\ (Length(window[j]) <= 0 \/ window[j].flushed)
    /\ at' = [at EXCEPT ![j] = "scope"]
    /\ UNCHANGED <<config, request, size, reason, deaths, rowVars, kept, window, todo, answer,
                   drafts, judged>>

-----------------------------------------------------------------------------
(* What an answer may cite; what it says of nothing of the segment is      *)
(* dropped, and an answer that says nothing else is as good as none.       *)
Citations(seg) == {Spans(seg), {seg.from}}

(* The extractor: complete(), which leaves its finish reason at the        *)
(* provider ...                                                            *)
Ask(j) ==
    /\ at[j] = "ask"
    /\ \E a \in [is : {"facts"}, cites : Citations(Head(todo[j]))]
                \cup [is : {"nothing", "garbled", "cut", "outage"}, cites : {{}}] :
        /\ answer' = [answer EXCEPT ![j] = a]
        /\ reason' = CASE a.is = "cut" -> "length" [] a.is = "outage" -> reason [] OTHER -> "stop"
    /\ at' = [at EXCEPT ![j] = "read"]
    /\ UNCHANGED <<config, request, size, deaths, rowVars, kept, window, todo, drafts, judged>>

(* ... from where it is read, after another job's perhaps.                 *)
Truncated == reason = "length"
Unparsed(j) == answer[j].is \in {"garbled", "cut"}

Divisible(seg) == Length(seg) > 1 /\ seg.depth < MaxDepth

Goes(j, segments) ==
    /\ todo' = [todo EXCEPT ![j] = segments]
    /\ at' = [at EXCEPT ![j] = IF segments = <<>> THEN "gather" ELSE "ask"]
    /\ answer' = [answer EXCEPT ![j] = Unasked]

(* A segment is done with, and these are its facts.                        *)
Leaf(j, sources) ==
    /\ Goes(j, Tail(todo[j]))
    /\ drafts' = [drafts EXCEPT ![j] = @ \o
            [i \in DOMAIN sources |-> [sources |-> sources[i], project |-> Nowhere]]]
    /\ judged' = [judged EXCEPT ![j] = Append(@,
            [seg |-> Head(todo[j]), cut |-> answer[j].is = "cut" /\ Truncated])]

Cites(j, spans) == {Id(j, t) : t \in spans}
Fallback(j) ==
    LET seg == Head(todo[j]) IN [i \in 1..Length(seg) |-> Cites(j, {seg.from + i - 1})]

Taken(j) ==
    \/ answer[j].is = "facts" /\ Leaf(j, <<Cites(j, answer[j].cites)>>)
    \/ answer[j].is = "nothing" /\ Leaf(j, IF config.emptyIsEmpty THEN <<>> ELSE Fallback(j))
    \/ answer[j].is = "outage" /\ ~config.failFast /\ Leaf(j, Fallback(j))
    \/ Unparsed(j) /\ ~Truncated /\ Leaf(j, Fallback(j))

Half(seg) == Length(seg) \div 2

(* _extract_recursive: halves, then one retry with twice the budget.       *)
Again(j) ==
    LET seg == Head(todo[j])
        left == Segment(seg.from, seg.from + Half(seg) - 1, seg.depth + 1)
        right == Segment(seg.from + Half(seg), seg.to, seg.depth + 1)
    IN /\ Unparsed(j) /\ Truncated
       /\ IF seg.retry THEN Leaf(j, Fallback(j))
          ELSE /\ Goes(j, (IF Divisible(seg) THEN <<left, right>>
                           ELSE <<[seg EXCEPT !.retry = TRUE]>>) \o Tail(todo[j]))
               /\ UNCHANGED <<drafts, judged>>

Read(j) ==
    /\ at[j] = "read"
    /\ Taken(j) \/ Again(j)
    /\ UNCHANGED <<config, request, size, reason, deaths, rowVars, kept, window>>

(* fail_fast: the outage is raised.                                        *)
Outage(j) ==
    /\ at[j] = "read" /\ answer[j].is = "outage" /\ config.failFast
    /\ at' = [at EXCEPT ![j] = "failed"]
    /\ drafts' = [drafts EXCEPT ![j] = <<>>]
    /\ todo' = [todo EXCEPT ![j] = <<>>] /\ answer' = [answer EXCEPT ![j] = Unasked]
    /\ UNCHANGED <<config, request, size, reason, deaths, rowVars, kept, window, judged>>

-----------------------------------------------------------------------------
MutStamp(j, d) == d

Stamp(j, d) == [d EXCEPT !.project = request[j].project]

(* set_session_scope, which writes no empty scope, and the facts' stamps.  *)
Scope(j) ==
    /\ at[j] = "scope"
    /\ scope' = IF request[j].project = Nowhere THEN scope
                ELSE [scope EXCEPT ![request[j].session] = request[j].project]
    /\ drafts' = [drafts EXCEPT ![j] = [i \in DOMAIN @ |-> Stamp(j, @[i])]]
    /\ at' = [at EXCEPT ![j] = "maintain"]
    /\ UNCHANGED <<config, request, size, reason, deaths, facts, kept, window, todo, answer, judged>>

(* maintain: a row of its own, or the sources are merged into a row that   *)
(* tells the same (Maintainer), whose scope stays.                         *)
Maintain(j) ==
    /\ at[j] = "maintain"
    /\ IF drafts[j] = <<>>
       THEN at' = [at EXCEPT ![j] = "done"] /\ UNCHANGED <<facts, drafts>>
       ELSE /\ LET d == Head(drafts[j])
               IN facts' \in {facts \cup {d}} \cup
                      {(facts \ {f}) \cup {[f EXCEPT !.sources = @ \cup d.sources]} : f \in facts}
            /\ drafts' = [drafts EXCEPT ![j] = Tail(@)]
            /\ UNCHANGED at
    /\ UNCHANGED <<config, request, size, reason, deaths, scope, kept, window, todo, answer, judged>>

(* A write fails, or the process ends: what is stored stays.               *)
Die(j) ==
    /\ at[j] \notin {"done", "failed"} /\ deaths < MaxDeaths
    /\ deaths' = deaths + 1
    /\ at' = [at EXCEPT ![j] = "failed"]
    /\ todo' = [todo EXCEPT ![j] = <<>>] /\ answer' = [answer EXCEPT ![j] = Unasked]
    /\ drafts' = [drafts EXCEPT ![j] = <<>>]
    /\ UNCHANGED <<config, request, size, reason, rowVars, kept, window, judged>>

Next ==
    \E j \in Jobs :
        Store(j) \/ Gather(j) \/ Flush(j) \/ EndWindows(j) \/ Ask(j) \/ Read(j) \/ Outage(j) \/ Scope(j) \/ Maintain(j) \/ Die(j)

Spec == Init /\ [][Next]_vars
-----------------------------------------------------------------------------
Stored == UNION {{Id(j, t) : t \in 1..kept[j]} : j \in Jobs}

TypeOK ==
    /\ config \in Configs /\ request \in [Jobs -> Asked]
    /\ at \in [Jobs -> {"store", "gather", "ask", "read", "scope", "maintain", "done", "failed"}]
    /\ \A j \in Jobs : kept[j] \in 0..Len(size[j])
    /\ scope \in [Sessions -> Projects]
    /\ reason \in {"stop", "length"} /\ deaths \in 0..MaxDeaths
    /\ \A d \in facts \cup UNION {{drafts[j][i] : i \in DOMAIN drafts[j]} : j \in Jobs} :
        d.sources \in (SUBSET Stored) \ {{}} /\ d.project \in Projects

(* extractor.py "Rather than degrade the whole window to fallback, halve   *)
(* the spans": every turn of a session is judged, once and in its order    *)
(* unless windows overlap, and a segment whose answer was cut off is given *)
(* up only when it could not be halved any more and twice the budget did   *)
(* not do either.  Only that another job's answer came between may spoil   *)
(* this: its finish reason is taken for one's own.                         *)
EverySpanIsJudged ==
    \A j \in Jobs :
        /\ request[j].infer /\ at[j] \in {"scope", "maintain", "done"} =>
            LET leaves == judged[j]
            IN /\ UNION {Spans(leaves[i].seg) : i \in DOMAIN leaves} = DOMAIN size[j]
               /\ config.overlap = 0 =>
                    \A i, k \in DOMAIN leaves :
                        i < k => \A t \in Spans(leaves[i].seg), u \in Spans(leaves[k].seg) : t < u
        /\ \A i \in DOMAIN judged[j] :
            LET leaf == judged[j][i]
            IN leaf.cut =>
                leaf.seg.retry /\ (Length(leaf.seg) = 1 \/ leaf.seg.depth = MaxDepth)

Tellers(sources) == {j \in Jobs : sources \cap {Id(j, t) : t \in DOMAIN size[j]} # {}}
ToldIn(sources) == {request[j].project : j \in Tellers(sources)}

(* schema.py: scoping a session "fixes that for facts and raw turns at     *)
(* once", that a search narrowed to one project surfaces another's.  A     *)
(* fact is found under a project only where some of its sources were told, *)
(* and so are the turns of an ingestion that has returned.  Turns that     *)
(* were stored without extraction, or whose extraction never ended, have   *)
(* no scope, and every search finds them.                                  *)
ScopeNarrows ==
    /\ \A f \in facts : f.project \in ToldIn(f.sources)
    /\ \A j \in Jobs :
        at[j] \in {"maintain", "done"} /\ request[j].infer /\ request[j].project # Nowhere =>
            scope[request[j].session] \in
                {request[k].project : k \in {k \in Jobs : request[k].session = request[j].session}}
                    \ {Nowhere}
=============================================================================
