----------------------------- MODULE Maintainer -----------------------------
(***************************************************************************)
(* What GraphMaintainer.maintain() decides about a fact that arrives: it   *)
(* is merged into the row that says the same, extends the row of the same  *)
(* event, contradicts, supersedes, or is superseded on arrival.  One       *)
(* ingestion at a time (the interleavings are FactStore's), so that what   *)
(* is left is the order in which sessions are ingested.                    *)
(*                                                                         *)
(* An assertion is what the extractor makes of a phrase.  Of its text only *)
(* is kept whether it has an update-like word (cue), of its kind and its   *)
(* modality one name, of a number a small one.  Times count half days; 0   *)
(* is an unknown time and no number.  A row is an assertion that was       *)
(* stored, with a status and the entities it is about.                     *)
(***************************************************************************)
EXTENDS Integers, Sequences

CONSTANTS
    Pools,        \* sets of assertions that one user's sessions may make
    SpanTime,     \* when a span was said
    SpanRole,     \* by whom: "user" or "assistant"
    Now,
    MaxOperations \* bound: facts that arrive, and facts that are archived

Kinds == {"state", "preference", "profile", "event", "fact"}
Spans == DOMAIN SpanTime

(* The fields of a FactEvent that are kept.                                *)
Fields ==
    {"kind", "correction", "cue", "predicate", "type", "roles", "unit", "value", "range",
     "occurred", "from", "until", "said", "sig", "spans"}

IsAssertion(a) ==
    /\ DOMAIN a = Fields
    /\ a.kind \in Kinds /\ a.correction \in BOOLEAN /\ a.cue \in BOOLEAN
    /\ \A t \in {a.occurred, a.from, a.until, a.said, a.sig, a.value} : t \in Nat
    /\ a.range \subseteq Nat \ {0}
    /\ a.spans \subseteq Spans /\ a.spans # {}

ASSUME MaintainerAssumption ==
    /\ SpanTime \in [Spans -> Nat \ {0}]
    /\ SpanRole \in [Spans -> {"user", "assistant"}]
    /\ Now \in Nat /\ MaxOperations \in Nat
    /\ \A P \in Pools : \A a \in P : IsAssertion(a)

VARIABLES
    pool,       \* the assertions of this execution
    store,      \* fact_events in the order of their rowids, and fact_edges
    operations, \* how many operations there were, for the bound
    happened    \* history: what else happened than that a row was added

vars == <<pool, store, operations, happened>>

Statuses == {"active", "superseded", "contradicted", "archived"}

-----------------------------------------------------------------------------
(* What a fact says                                                        *)

Day(t) == (t + 1) \div 2

First(S) == CHOOSE i \in S : \A j \in S : i <= j

(* _is_update_like                                                         *)
UpdateLike(f) == f.correction \/ f.kind \in {"profile", "state"} \/ f.cue

Said(f) == {SpanTime[s] : s \in f.spans}

(* _materialize_update_validity, on the fact as the extractor made it: an  *)
(* update without a beginning begins when it was said.                     *)
Materialized(a) ==
    [a EXCEPT !.from = IF a.from = 0 /\ UpdateLike(a) THEN First(Said(a)) ELSE a.from]

AsRow(a) ==
    [x \in DOMAIN a \cup {"status", "objects"} |->
        CASE x = "status" -> "active"
          [] x = "objects" -> {role[2] : role \in a.roles}
          [] OTHER -> a[x]]

(* _loose_signature; _signature has the spans as well.                     *)
Signature(f) ==
    <<f.kind, f.type, f.predicate, Day(f.occurred), Day(f.from), f.unit, f.roles>>

Repeats(e, f) ==
    Signature(e) = Signature(f) /\ (e.spans = f.spans \/ e.spans \cap f.spans # {})

(* get_all_fact_events(active_only): what is over is not active any more.  *)
Visible(e) ==
    /\ e.status = "active"
    /\ ~(e.kind \in {"state", "preference", "profile"} /\ e.until # 0 /\ e.until < Now)

(* _find_same_event_extend                                                 *)
Extends(e, f) ==
    /\ Visible(e)
    /\ e.kind = "event" /\ f.kind = "event"
    /\ e.type = f.type /\ e.predicate = f.predicate
    /\ Day(e.occurred) = Day(f.occurred)
    /\ e.objects \cap f.objects # {}

Either(x, y) == IF x # 0 THEN x ELSE y

MutRevives(e, f) == [e EXCEPT !.spans = @ \cup f.spans, !.status = "active"]

(* _merge                                                                  *)
Merged(e, f) ==
    [e EXCEPT
        !.spans = @ \cup f.spans,
        !.objects = @ \cup f.objects,
        !.occurred = Either(@, f.occurred),
        !.from = Either(@, f.from),
        !.until = Either(@, f.until),
        !.value = Either(@, f.value),
        !.unit = IF e.value = 0 THEN f.unit ELSE @]

-----------------------------------------------------------------------------
(* Which fact takes the place of which                                     *)

NonSlot == {"message_unit_statement", ""}
Generic == {"", "other"}
ValueRoles == {"value", "time", "duration", "count", "quantity", "amount", "number", "score"}
Identity(f) == {role[1] : role \in f.roles} \ ValueRoles

(* _same_update_slot; a fact's unit is "" without one.                     *)
SameSlot(e, f) ==
    /\ {e.predicate, f.predicate} \cap NonSlot = {}
    /\ IF "profile" \in {e.kind, f.kind}
       THEN e.predicate = f.predicate
       ELSE /\ e.unit = f.unit
            /\ \/ /\ e.predicate = f.predicate
                  /\ {} \in {Identity(e), Identity(f)} \/ Identity(e) = Identity(f)
               \/ /\ e.type = f.type /\ e.type \notin Generic
                  /\ Identity(e) # {} /\ Identity(e) = Identity(f)

(* _range_subsumes_point                                                   *)
Subsumes(e, f) ==
    \/ e.range # {} /\ f.range = {} /\ f.value \in e.range
    \/ f.range # {} /\ e.range = {} /\ e.value \in f.range

(* _fact_role                                                              *)
ByUser(f) == \E s \in f.spans : SpanRole[s] = "user"

Since(f) == Either(f.from, f.occurred)

(* _supersede_order_key, compared as tuples; sig orders hashes of content. *)
Before(e, f) ==
    \/ Since(e) < Since(f)
    \/ Since(e) = Since(f) /\ e.said < f.said
    \/ Since(e) = Since(f) /\ e.said = f.said /\ e.sig < f.sig

(* What only the assistant said takes no place of what the user said.      *)
MayClose(w, l) == ByUser(w) \/ ~ByUser(l)

-----------------------------------------------------------------------------
(* maintain(), of a store and an assertion                                 *)

Edge(type, w, ls) == {<<type, w, l>> : l \in ls}

(* _find_existing looks at rows of every status.                           *)
Twins(rows, f) == {i \in DOMAIN rows : Repeats(rows[i], f)}

(* The row that the fact is merged into, or the one that it is added as.   *)
Place(rows, f) ==
    LET twins == Twins(rows, f)
        same == {i \in DOMAIN rows : Extends(rows[i], f)}
    IN  IF twins # {} THEN First(twins)
        ELSE IF same # {} THEN First(same)
        ELSE Len(rows) + 1

(* A fact told again is merged and compared with nothing, whatever became  *)
(* of its row; one that extends an event is compared as the row it is now. *)
Compares(rows, new) == Twins(rows, new) = {}

(* _contradict_prior_facts                                                 *)
Contradicted(rows, f, p) ==
    {i \in DOMAIN rows :
        /\ p \notin DOMAIN rows /\ f.correction
        /\ Visible(rows[i]) /\ SameSlot(rows[i], f)}

MutNeedsCue(rows, f, p, denied) ==
    {i \in DOMAIN rows \ (denied \cup {p}) :
        Visible(rows[i]) /\ UpdateLike(f) /\ rows[i].cue
            /\ SameSlot(rows[i], f) /\ ~Subsumes(rows[i], f)}

(* The stored facts that _supersede_prior_facts compares the fact with.    *)
Rivals(rows, f, p, denied) ==
    {i \in DOMAIN rows \ (denied \cup {p}) :
        /\ Visible(rows[i])
        /\ UpdateLike(f) \/ (f.value # 0 /\ UpdateLike(rows[i]))
        /\ SameSlot(rows[i], f)
        /\ ~Subsumes(rows[i], f)}

Beaten(rows, f, rivals) == {i \in rivals : Before(rows[i], f) /\ MayClose(f, rows[i])}
Better(rows, f, rivals) == {i \in rivals : ~Before(rows[i], f) /\ MayClose(rows[i], f)}

(* The newest of them, the first of equals.                                *)
Newest(rows, S) ==
    First({i \in S : \A j \in S : ~Before(rows[i], rows[j])})

(* _mark_superseded                                                        *)
Closed(l, w) == [l EXCEPT !.status = "superseded", !.until = Since(w)]

Maintained(s, a) ==
    LET new == AsRow(Materialized(a))
        p == Place(s.rows, new)
        f == IF p \in DOMAIN s.rows THEN Merged(s.rows[p], new) ELSE new
        denied == Contradicted(s.rows, f, p)
        rivals == IF Compares(s.rows, new) THEN Rivals(s.rows, f, p, denied) ELSE {}
        beaten == Beaten(s.rows, f, rivals)
        better == Better(s.rows, f, rivals)
        heir == Newest(s.rows, better)
    IN  [rows |-> [i \in DOMAIN s.rows \cup {p} |->
                      IF i = p
                      THEN IF better = {} THEN f ELSE Closed(f, s.rows[heir])
                      ELSE IF i \in denied THEN [s.rows[i] EXCEPT !.status = "contradicted"]
                      ELSE IF i \in beaten THEN Closed(s.rows[i], f)
                      ELSE s.rows[i]],
         edges |-> s.edges
                      \cup Edge("CONTRADICTS", p, denied)
                      \cup Edge("SUPERSEDES", p, beaten)
                      \cup (IF better = {} THEN {} ELSE Edge("SUPERSEDES", heir, {p}))]

-----------------------------------------------------------------------------
Empty == [rows |-> <<>>, edges |-> {}]

Init ==
    /\ pool \in Pools
    /\ store = Empty
    /\ operations = 0
    /\ happened = {}

(* When the row count stays, a told fact was merged or an event extended.  *)
Kinship(a) ==
    CASE Len(store'.rows) > Len(store.rows) -> {}
      [] Twins(store.rows, AsRow(Materialized(a))) # {} -> {"merge"}
      [] OTHER -> {"extend"}

Bounded ==
    /\ operations < MaxOperations
    /\ operations' = operations + 1
    /\ UNCHANGED pool

(* One fact of a session.                                                  *)
Ingest(a) ==
    /\ Bounded
    /\ store' = Maintained(store, a)
    /\ happened' = happened \cup Kinship(a)
                      \cup (IF a.correction THEN {"correction"} ELSE {})

(* The fact that update_memory takes for the correction.                   *)
Fresh(s, now) == Len(now.rows)

(* PATCH of row t, whose text is one assertion.  When nothing was added    *)
(* the answer is 422 and what was ingested stays; else the target is       *)
(* closed, whatever became of either fact meanwhile.                       *)
Patch(t, a) ==
    /\ Bounded
    /\ LET now == Maintained(store, a)
           w == Fresh(store, now)
       IN  store' = IF Len(now.rows) = Len(store.rows) THEN now
                    ELSE [rows |-> [now.rows EXCEPT ![t] = Closed(@, now.rows[w])],
                          edges |-> now.edges \cup Edge("SUPERSEDES", w, {t})]
    /\ happened' = happened \cup Kinship(a) \cup {"patch"}

(* DELETE of a memory                                                      *)
Archive(t) ==
    /\ Bounded
    /\ store.rows[t].status # "archived"
    /\ store' = [store EXCEPT !.rows[t].status = "archived"]
    /\ happened' = happened \cup {"archive"}

Next ==
    \/ \E a \in pool : Ingest(a)
    \/ \E t \in DOMAIN store.rows : Archive(t) \/ \E a \in pool : Patch(t, a)

Spec == Init /\ [][Next]_vars

-----------------------------------------------------------------------------
Rows == store.rows
Active(i) == Rows[i].status = "active"
Supersedes(i, j) == <<"SUPERSEDES", i, j>> \in store.edges

TypeOK ==
    /\ pool \in Pools
    /\ operations \in 0..MaxOperations
    /\ happened \subseteq {"merge", "extend", "correction", "patch", "archive"}
    /\ \A i \in DOMAIN Rows :
        Rows[i].status \in Statuses /\ Rows[i].spans \subseteq Spans
    /\ store.edges \subseteq {"SUPERSEDES", "CONTRADICTS"} \X (DOMAIN Rows) \X (DOMAIN Rows)

(* Every fact updates, none is a range or over, and slots do not overlap.  *)
Comparable ==
    /\ \A i \in DOMAIN Rows :
        UpdateLike(Rows[i]) /\ Rows[i].range = {} /\ (Active(i) => Visible(Rows[i]))
    /\ \A i, j, k \in DOMAIN Rows :
        SameSlot(Rows[i], Rows[j]) /\ SameSlot(Rows[j], Rows[k]) => SameSlot(Rows[i], Rows[k])

(* The newer one, or the first of equals, and by an author who may.        *)
Outranks(i, j) ==
    /\ i # j
    /\ SameSlot(Rows[i], Rows[j])
    /\ MayClose(Rows[i], Rows[j])
    /\ \/ Before(Rows[j], Rows[i])
       \/ ~Before(Rows[i], Rows[j]) /\ i < j

(* maintainer.py:434 "the current value": when sessions only add           *)
(* comparable facts, what is current is what no other fact outranks,       *)
(* whichever order they came in.                                           *)
CurrentIsUnbeaten ==
    happened = {} /\ Comparable =>
        \A i \in DOMAIN Rows : Active(i) <=> ~\E j \in DOMAIN Rows : Outranks(j, i)

(* store.py:938 "derivation a cycle to walk": what took the place of what  *)
(* has no cycle, in every order of ingestion, repetition, extension,       *)
(* correction and archiving (PATCH can close one), and status and edges    *)
(* agree: a fact whose place was taken is never current again, however     *)
(* often it is told, and who is superseded was so by some fact.            *)
SupersessionAcyclic ==
    /\ \A i, j \in DOMAIN Rows : Supersedes(j, i) => ~Active(i)
    /\ \A i \in DOMAIN Rows :
        Rows[i].status = "superseded" => \E j \in DOMAIN Rows : Supersedes(j, i)
    /\ "patch" \notin happened =>
        \A S \in (SUBSET DOMAIN Rows) \ {{}} :
            \E i \in S : \A j \in S : ~Supersedes(j, i)

-----------------------------------------------------------------------------
(* What the documentation says and the code does not do.                   *)

(* store.py:932 "would strand it with no current version": as long as      *)
(* facts are only added and corrected with PATCH, something is current.    *)
CorrectionLeavesCurrent ==
    happened \subseteq {"patch"} /\ Rows # <<>> => \E i \in DOMAIN Rows : Active(i)
=============================================================================
