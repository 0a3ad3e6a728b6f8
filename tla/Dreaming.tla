------------------------------ MODULE Dreaming ------------------------------
(***************************************************************************)
(* sodamem/memory/dreaming: the entity profiles of one user, rebuilt from  *)
(* the facts by dream cycles while ingestion and deletions go on.          *)
(*                                                                         *)
(* Ingestion stores a fact first and sets the dirty bits of its entities   *)
(* at the end of the session.  A cycle lists the dirty entities, reads the *)
(* facts of one, hands the rebuilt profile to GraphMaintainer.maintain and *)
(* clears the bit.  A profile row is identified by its entity and its text *)
(* (the fact id is a hash of both); the text is the set of facts it tells. *)
(***************************************************************************)
EXTENDS Integers, FiniteSets

CONSTANTS
    Facts,
    Entities,
    About,      \* About[f]: the entities in the roles of f
    Time,       \* Time[f]: the day f occurred or became valid
    ByAssistant, \* the facts that only the assistant told
    Dreamers,   \* callers of run_dream: requests and job workers
    MaxCrashes  \* bound: process crashes

DreamingAssumption ==
    /\ IsFiniteSet(Facts)
    /\ About \in [Facts -> SUBSET Entities]
    /\ Time \in [Facts -> Nat]
    /\ ByAssistant \subseteq Facts
    /\ "free" \notin Dreamers
    /\ MaxCrashes \in Nat

VARIABLES
    fact,       \* status of the fact's row, or "absent"
    unmarked,   \* unmarked[f]: the dirty bits its ingestion still has to set
    stale,      \* entity_profile_stale: the dirty bits
    profiles,   \* the PROFILE rows
    holder,     \* the dreamer that holds the user's mutex
    at,         \* how far the dreamer is
    todo,       \* the dirty entities it listed and has not done
    draft,      \* the profile it works on
    covered,    \* history: the facts finished rebuilds have read
    raced,      \* history: bits set between the read and the clear of a rebuild
    crashes

vars == <<fact, unmarked, stale, profiles, holder, at, todo, draft,
          covered, raced, crashes>>

Free == "free"
Blank == [of |-> "none", text |-> {}, spans |-> {}, from |-> 0, open |-> FALSE, rank |-> 0]
Active == {f \in Facts : fact[f] = "active"}
Told(e) == {f \in Active : e \in About[f]}
SameRow(p, q) == p.of = q.of /\ p.text = q.text
Latest(F) == CHOOSE t \in {Time[f] : f \in F} : \A f \in F : Time[f] <= t

-----------------------------------------------------------------------------
Init ==
    /\ fact = [f \in Facts |-> "absent"]
    /\ unmarked = [f \in Facts |-> {}]
    /\ stale = {}
    /\ profiles = {}
    /\ holder = Free
    /\ at = [d \in Dreamers |-> "idle"]
    /\ todo = [d \in Dreamers |-> {}]
    /\ draft = [d \in Dreamers |-> Blank]
    /\ covered = [e \in Entities |-> {}]
    /\ raced = {}
    /\ crashes = 0

dreamVars == <<holder, at, todo, draft>>

(* ingest_session: maintain(fact) for the facts of the session ...         *)
StoreFact(f) ==
    /\ fact[f] = "absent"
    /\ fact' = [fact EXCEPT ![f] = "active"]
    /\ unmarked' = [unmarked EXCEPT ![f] = About[f]]
    /\ UNCHANGED <<stale, profiles, dreamVars, covered, raced, crashes>>

(* ... then mark_entity_stale for every entity it touched.                 *)
MarkStale(f, e) ==
    /\ e \in unmarked[f]
    /\ unmarked' = [unmarked EXCEPT ![f] = @ \ {e}]
    /\ stale' = stale \cup {e}
    /\ raced' = IF \E d \in Dreamers : at[d] \in {"close", "write", "clear"} /\ draft[d].of = e
                THEN raced \cup {<<f, e>>} ELSE raced
    /\ UNCHANGED <<fact, profiles, dreamVars, covered, crashes>>

(* DELETE archives the fact and sets no bit.                               *)
ArchiveFact(f) ==
    /\ fact[f] = "active"
    /\ fact' = [fact EXCEPT ![f] = "archived"]
    /\ UNCHANGED <<unmarked, stale, profiles, dreamVars, covered, raced, crashes>>

-----------------------------------------------------------------------------
Goto(d, phase) == at' = [at EXCEPT ![d] = phase]

MayAcquire == holder = Free

(* The mutex is tried, never waited for: a second cycle returns at once.   *)
Begin(d) ==
    /\ at[d] = "idle"
    /\ MayAcquire
    /\ holder' = d
    /\ todo' = [todo EXCEPT ![d] = stale]
    /\ Goto(d, "next")
    /\ UNCHANGED <<fact, unmarked, stale, profiles, draft, covered, raced, crashes>>

(* The list is done, or the batch is full, or the deadline has passed.     *)
Finish(d) ==
    /\ at[d] = "next"
    /\ holder' = Free
    /\ todo' = [todo EXCEPT ![d] = {}]
    /\ Goto(d, "idle")
    /\ UNCHANGED <<fact, unmarked, stale, profiles, draft, covered, raced, crashes>>

(* rebuild(): the profile of the entity's active facts; without any, none  *)
(* is written and only the bit is cleared.                                 *)
Rebuild(d, e) ==
    /\ at[d] = "next" /\ e \in todo[d]
    /\ todo' = [todo EXCEPT ![d] = @ \ {e}]
    /\ draft' = [draft EXCEPT ![d] =
            [of |-> e, text |-> Told(e), spans |-> Told(e),
             from |-> IF Told(e) = {} THEN 0 ELSE Latest(Told(e)),
             open |-> TRUE, rank |-> Cardinality(profiles) + 1]]
    /\ Goto(d, IF Told(e) = {} THEN "clear" ELSE "close")
    /\ UNCHANGED <<fact, unmarked, stale, profiles, holder, covered, raced, crashes>>

(* _find_existing by the loose signature: another row of the profile's     *)
(* predicate, from the same day, with a span in common.                    *)
Repeated(q) ==
    {p \in profiles : p.of = q.of /\ p.text # q.text
                        /\ p.from = q.from /\ p.spans \cap q.spans # {}}

MutAppendSpans(q) ==
    IF Repeated(q) = {} THEN q
    ELSE LET p == CHOOSE p \in Repeated(q) : \A o \in Repeated(q) : p.rank <= o.rank
         IN  [p EXCEPT !.spans = @ \cup {q.spans}]

(* The first of them in rowid order takes the spans and keeps its text.    *)
Merged(q) ==
    IF Repeated(q) = {} THEN q
    ELSE LET p == CHOOSE p \in Repeated(q) : \A o \in Repeated(q) : p.rank <= o.rank
         IN  [p EXCEPT !.spans = @ \cup q.spans]

Rivals(q) == {p \in profiles : p.of = q.of /\ p.open /\ ~SameRow(p, q)}

(* _supersede_order_key: the day, then the creation.                       *)
Outranks(p, q) == p.from > q.from \/ (p.from = q.from /\ p.rank >= q.rank)

(* What only the assistant told closes nothing that the user told of.      *)
MayClose(w, l) == ~(w.spans \subseteq ByAssistant) \/ l.spans \subseteq ByAssistant

MutClearEarly(d) == stale \ {draft[d].of}

StaleAfterClose(d) == stale

(* maintain(): a profile that is merged is compared with no other.  Else   *)
(* _supersede_prior_facts closes the active rows of the entity that rank   *)
(* lower, and the profile itself when one ranks higher.                    *)
CloseRivals(d) ==
    /\ at[d] = "close"
    /\ LET q == Merged(draft[d])
           rivals == IF Repeated(draft[d]) = {} THEN Rivals(q) ELSE {}
           losers == {p \in rivals : ~Outranks(p, q) /\ MayClose(q, p)}
           better == {p \in rivals : Outranks(p, q) /\ MayClose(p, q)}
       IN  /\ profiles' = (profiles \ losers) \cup {[p EXCEPT !.open = FALSE] : p \in losers}
           /\ draft' = [draft EXCEPT ![d] = [q EXCEPT !.open = @ /\ better = {}]]
    /\ stale' = StaleAfterClose(d)
    /\ Goto(d, "write")
    /\ UNCHANGED <<fact, unmarked, holder, todo, covered, raced, crashes>>

(* upsert_fact_event: a row of the same entity and text is overwritten and *)
(* keeps its place and its creation time.                                  *)
WriteProfile(d) ==
    /\ at[d] = "write"
    /\ LET q == draft[d]
           same == {p \in profiles : SameRow(p, q)}
       IN  profiles' = (profiles \ same) \cup
                {[q EXCEPT !.rank = IF same = {} THEN Cardinality(profiles) + 1
                                    ELSE (CHOOSE p \in same : TRUE).rank]}
    /\ Goto(d, "clear")
    /\ UNCHANGED <<fact, unmarked, stale, holder, todo, draft, covered, raced, crashes>>

Uncleared(d) == stale \ {draft[d].of}

(* clear_entity_stale deletes the bit, whoever set it when.                *)
ClearStale(d) ==
    /\ at[d] = "clear"
    /\ stale' = Uncleared(d)
    /\ covered' = [covered EXCEPT ![draft[d].of] = @ \cup draft[d].spans]
    /\ draft' = [draft EXCEPT ![d] = Blank]
    /\ Goto(d, "next")
    /\ UNCHANGED <<fact, unmarked, profiles, holder, todo, raced, crashes>>

(* The process dies: the rows stay, an ingestion's missing bits are never  *)
(* set.                                                                    *)
Crash ==
    /\ crashes < MaxCrashes
    /\ crashes' = crashes + 1
    /\ unmarked' = [f \in Facts |-> {}]
    /\ holder' = Free
    /\ at' = [d \in Dreamers |-> "idle"]
    /\ todo' = [d \in Dreamers |-> {}]
    /\ draft' = [d \in Dreamers |-> Blank]
    /\ raced' = raced \cup UNION {{f} \X unmarked[f] : f \in Facts}
    /\ UNCHANGED <<fact, stale, profiles, covered>>

Next ==
    \/ \E f \in Facts :
        \/ StoreFact(f) \/ ArchiveFact(f)
        \/ \E e \in Entities : MarkStale(f, e)
    \/ \E d \in Dreamers :
        \/ Begin(d) \/ Finish(d) \/ CloseRivals(d) \/ WriteProfile(d) \/ ClearStale(d)
        \/ \E e \in Entities : Rebuild(d, e)
    \/ Crash

Spec == Init /\ [][Next]_vars

-----------------------------------------------------------------------------
Profile == [of : Entities \cup {"none"}, text : SUBSET Facts, spans : SUBSET Facts,
            from : Nat, open : BOOLEAN, rank : Nat]

TypeOK ==
    /\ fact \in [Facts -> {"absent", "active", "archived"}]
    /\ unmarked \in [Facts -> SUBSET Entities]
    /\ stale \subseteq Entities
    /\ profiles \subseteq Profile
    /\ holder \in Dreamers \cup {Free}
    /\ at \in [Dreamers -> {"idle", "next", "close", "write", "clear"}]
    /\ todo \in [Dreamers -> SUBSET Entities]
    /\ draft \in [Dreamers -> Profile]
    /\ covered \in [Entities -> SUBSET Facts]
    /\ raced \subseteq Facts \X Entities

Current(e) == {p \in profiles : p.of = e /\ p.open}

Whole(e) == \A f \in Facts : e \in About[f] => fact[f] # "archived"

(* At most one current profile of an entity tells what the user told, and  *)
(* at most one is current as long as no fact of it is deleted, whatever    *)
(* cycles are started, cut or killed: the mutex keeps two rebuilds from    *)
(* each missing the other's row.  (After a deletion the assistant's        *)
(* leftovers do not close what the user told of before.)                   *)
OneCurrentProfile ==
    \A e \in Entities : \A p, q \in Current(e) :
        p # q => ~Whole(e) /\ (p.text \subseteq ByAssistant \/ q.text \subseteq ByAssistant)

(* dreaming/__init__.py:10 "killing a cycle mid-way and restarting         *)
(* converges": an entity whose old profile was closed and whose new one    *)
(* was not written is still dirty, so the next cycle writes it (as long as *)
(* nobody deletes facts of it).                                            *)
ProfileOrDirty ==
    \A e \in Entities :
        (\E p \in profiles : p.of = e) /\ Current(e) = {}
            => e \in stale \/ ~Whole(e)

(* A fact whose dirty bit was set is read by a rebuild before the bit goes *)
(* away; the exceptions are bits set while a rebuild of that entity was    *)
(* between its read and its clear, and those a crash kept from being set.  *)
CoveredUnlessRaced ==
    \A f \in Facts : \A e \in About[f] \ (unmarked[f] \cup stale) :
        fact[f] = "active" => f \in covered[e] \/ <<f, e>> \in raced
=============================================================================
