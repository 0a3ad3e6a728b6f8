------------------------------- MODULE FactItem -------------------------------
(***************************************************************************)
(* sodamem/memory/ingest/extractor.py: how one item of a language model's  *)
(* answer becomes a fact.  Nothing the model says is trusted: what it      *)
(* cites, how it classifies and which days it names are checked here       *)
(* before the fact is stored.                                              *)
(*                                                                         *)
(* A text is what its tests find in it, and a phrase for a day is what the *)
(* calendar resolves it to (Calendar).                                     *)
(***************************************************************************)
EXTENDS Integers, FiniteSets, FiniteSetsExt, Sequences

CONSTANTS
    Items,      \* the items of answers, each with the segment it is about
    Options,    \* [userOnly, backfill]
    Today,      \* the day of the session
    None        \* no day; before every other

VARIABLES item, option, fact

Modalities == {"past_event", "future_plan", "current_state", "preference",
               "question", "intent", "assistant_advice", "external_info"}
Kinds == {"fact", "event", "state", "preference", "profile"}

Days == {d \in Int : d >= None}
References == [raw : Days, expr : STRING, anchored : BOOLEAN, point : Days,
               range : {<<>>} \cup Days \X Days]

FactItemAssumption ==
    /\ None \in Int /\ Today \in Int /\ Today > None
    /\ \A o \in Options : {o.userOnly, o.backfill} \subseteq BOOLEAN
    /\ \A i \in Items :
        /\ i.cites \subseteq Nat /\ i.roles \in Seq(STRING)
        /\ i.contain \subseteq DOMAIN i.roles /\ i.changes \in BOOLEAN
        /\ i.said \in [DOMAIN i.roles -> Days] /\ i.overlap \in [DOMAIN i.roles -> 0..100]
        /\ {i.occurred, i.from} \subseteq References
        /\ {i.end, i.until, i.scanned} \subseteq Days

Spans == DOMAIN item.roles
-----------------------------------------------------------------------------
(* Sources: the spans of the segment the item cites, or else the one its   *)
(* quote can only be from.                                                 *)
Cited == item.cites \cap Spans

Nearest ==
    {s \in Spans :
        /\ item.overlap[s] >= 80
        /\ \A r \in Spans : item.overlap[r] <= item.overlap[s]
        /\ \A r \in 1..(s - 1) : item.overlap[r] < item.overlap[s]}

Quoted ==
    IF item.quote = "short" THEN {}
    ELSE IF Cardinality(item.contain) = 1 THEN item.contain
    ELSE IF item.contain # {} \/ item.quote = "few words" THEN {}
    ELSE Nearest

Sources == IF Cited # {} THEN Cited ELSE Quoted

AssistantOnly == \A s \in Sources : item.roles[s] = "assistant"

-----------------------------------------------------------------------------
(* _normalize_modality: by what is said, and not by its tense.             *)
KnownKind == IF item.kind \in Kinds THEN item.kind ELSE "fact"

Became == item.modality = "past_event" /\ item.changes

Kind == IF Became /\ KnownKind = "fact" THEN "state" ELSE KnownKind

Modality ==
    LET m == IF Became THEN "current_state" ELSE item.modality
    IN IF Kind = "preference" THEN "preference"
       ELSE IF Kind = "state" /\ m # "preference" THEN "current_state" ELSE m

Dropped ==
    \/ Sources = {}
    \/ option.userOnly /\ AssistantOnly
    \/ Modality \notin Modalities

-----------------------------------------------------------------------------
(* Days.  ref is what the item says of one: raw, the model's own value;    *)
(* expr, its phrase; point and range, what the phrase resolves to.         *)
ToSession(ref) == ref.expr # "" /\ ref.anchored

Period(ref) == IF ToSession(ref) THEN ref.range ELSE <<>>

(* _resolve_date_value: the resolver before the model.                     *)
Resolved(ref, scanned) ==
    IF ref.expr = "session_date" THEN Today
    ELSE IF ref.expr = "before session_date" THEN ref.raw
    ELSE IF ToSession(ref) /\ ref.point # None THEN ref.point
    ELSE IF ref.raw = None THEN scanned ELSE ref.raw

OccurredStart ==
    IF Period(item.occurred) # <<>> THEN item.occurred.range[1]
    ELSE Resolved(item.occurred, item.scanned)

EndRaw == IF Period(item.occurred) # <<>> THEN item.occurred.range[2] ELSE item.end

ValidFrom ==
    IF Period(item.from) # <<>> THEN item.from.range[1] ELSE Resolved(item.from, None)

DocumentTime == Max({item.said[s] : s \in Sources} \cup {None})

TimeSource ==
    IF OccurredStart = None /\ ValidFrom = None THEN "none"
    ELSE IF item.occurred.raw # None \/ item.from.raw # None THEN "explicit"
    ELSE "resolved_relative"

(* The fact with its days as they were resolved, an interval that ends     *)
(* before it starts mended ...                                             *)
MutMended ==
    [start |-> OccurredStart,
     end |-> IF EndRaw # None THEN EndRaw ELSE OccurredStart,
     from |-> ValidFrom,
     until |-> IF item.until < ValidFrom THEN None ELSE item.until,
     source |-> TimeSource]

Mended ==
    LET end == IF EndRaw # None THEN EndRaw ELSE OccurredStart
    IN [start |-> OccurredStart,
        end |-> IF OccurredStart # None /\ end < OccurredStart THEN OccurredStart ELSE end,
        from |-> ValidFrom,
        until |-> IF item.until < ValidFrom THEN None ELSE item.until,
        source |-> TimeSource]

(* ... and, with backfill_session_time, dated by when it was said.         *)
Dated ==
    LET m == Mended
    IN IF option.backfill /\ Kind # "preference" /\ m.start = None /\ m.from = None
            /\ DocumentTime # None
       THEN [(IF Kind = "state" THEN [m EXCEPT !.from = DocumentTime]
              ELSE [m EXCEPT !.start = DocumentTime]) EXCEPT !.source = "inferred_session"]
       ELSE m

-----------------------------------------------------------------------------
Unread == [is |-> "unread"]

Init == item \in Items /\ option \in Options /\ fact = Unread

(* _fact_from_item.                                                        *)
Extract ==
    /\ fact = Unread
    /\ fact' = IF Dropped THEN [is |-> "dropped"]
               ELSE [is |-> "fact", sources |-> Sources, kind |-> Kind, modality |-> Modality,
                     days |-> Dated, said |-> DocumentTime]
    /\ UNCHANGED <<item, option>>

Spec == Init /\ [][Extract]_<<item, option, fact>>

(* extractor.py "never forge provenance": a fact is of spans it was        *)
(* extracted from, which the model cited or of which its quote names one   *)
(* and no other, and one of them is the user's where only users are heard. *)
Grounded ==
    /\ fact.sources # {} /\ fact.sources \subseteq Spans
    /\ fact.sources \cap item.cites = {} =>
        Cardinality(fact.sources) = 1 /\ item.contain \subseteq fact.sources
    /\ option.userOnly => \E s \in fact.sources : item.roles[s] # "assistant"
    /\ \A s \in fact.sources : fact.said >= item.said[s]

(* Its days are in order, so that it does not read as expired or as over   *)
(* before it began; only the day it was told on, taken for want of         *)
(* another, may be later than an end the model gave.  What a search may    *)
(* filter on is a day that the item told.                                  *)
DaysInOrder ==
    LET d == fact.days
    IN IF d.source = "inferred_session" THEN fact.said \in {d.start, d.from}
       ELSE /\ d.start # None => d.end >= d.start
            /\ d.from # None /\ d.until # None => d.until >= d.from
            /\ d.source = "none" <=> d.start = None /\ d.from = None
            /\ d.source = "resolved_relative" => item.occurred.raw = None /\ item.from.raw = None

(* A state is current, or a preference, so that a later one supersedes it, *)
(* and so is what changed a state whatever its tense.                      *)
Classified ==
    /\ fact.kind = "state" => fact.modality \in {"current_state", "preference"}
    /\ fact.kind = "preference" => fact.modality = "preference"
    /\ item.changes /\ item.modality = "past_event" /\ fact.kind # "preference"
        => fact.modality = "current_state"

(* What is stored of a model's answer is grounded, in order and of a kind  *)
(* that later facts can supersede.                                         *)
FactIsUsable == fact.is = "fact" => Grounded /\ DaysInOrder /\ Classified
=============================================================================
