--------------------------- MODULE SummaryRevision ---------------------------
(***************************************************************************)
(* The summary of one session: a materialized view over the session's      *)
(* facts, guarded by a revision (storage/store.py, SummarySynthesizer and  *)
(* GraphMaintainer in ingest/maintainer.py).                               *)
(*                                                                         *)
(* An ingestion into the session stores a fact, marks the summary dirty    *)
(* (which advances scope_revision) and rebuilds it: it reads the revision, *)
(* then the facts, and commits a text built from that revision.  Several   *)
(* ingestions into one session run at once; a writer is also its fact.     *)
(***************************************************************************)
EXTENDS Integers, FiniteSets

CONSTANTS
    Writers,    \* ingestions into the session
    MaxCrashes  \* bound: process crashes

SummaryAssumption == MaxCrashes \in Nat

VARIABLES
    fact,       \* "absent", "active", "closed" (archived or superseded), "erased"
    summary,    \* the row of summary_syntheses
    at,         \* how far the writer is
    target,     \* the revision it builds from
    seen,       \* the facts it builds from
    heard,      \* history: writers whose mark found an active summary
    crashes

vars == <<fact, summary, at, target, seen, heard, crashes>>

Active == {w \in Writers : fact[w] = "active"}
Routable == summary.status = "active" /\ ~summary.dirty /\ summary.built = summary.scope
Goto(w, phase) == at' = [at EXCEPT ![w] = phase]

-----------------------------------------------------------------------------
Init ==
    /\ fact = [w \in Writers |-> "absent"]
    /\ summary = [status |-> "none", text |-> {}, dirty |-> FALSE, scope |-> 0, built |-> 0]
    /\ at = [w \in Writers |-> "store"]
    /\ target = [w \in Writers |-> 0]
    /\ seen = [w \in Writers |-> {}]
    /\ heard = {}
    /\ crashes = 0

(* maintain(): the fact is upserted ...                                    *)
Store(w) ==
    /\ at[w] = "store"
    /\ fact' = [fact EXCEPT ![w] = "active"]
    /\ Goto(w, "mark")
    /\ UNCHANGED <<summary, target, seen, heard, crashes>>

(* mark_summary_dirty: only an active summary has a row to update.         *)
Marked(s) == [s EXCEPT !.dirty = TRUE, !.scope = @ + 1]

(* ... then the summaries that depend on it are marked.                    *)
Mark(w) ==
    /\ at[w] = "mark"
    /\ \/ /\ summary.status = "active"
          /\ summary' = Marked(summary)
          /\ heard' = heard \cup {w}
       \/ /\ summary.status # "active"
          /\ UNCHANGED <<summary, heard>>
    /\ Goto(w, "revision")
    /\ UNCHANGED <<fact, target, seen, crashes>>

(* refresh_session: the revision is read before the facts.                 *)
ReadRevision(w) ==
    /\ at[w] = "revision"
    /\ target' = [target EXCEPT ![w] = summary.scope]
    /\ Goto(w, "read")
    /\ UNCHANGED <<fact, summary, seen, heard, crashes>>

ReadFacts(w) ==
    /\ at[w] = "read"
    /\ seen' = [seen EXCEPT ![w] = Active]
    /\ Goto(w, "commit")
    /\ UNCHANGED <<fact, summary, target, heard, crashes>>

MutRevisionAtCommit(w) == summary.scope

BuiltFrom(w) == target[w]

ScopeAfter(s, built) == IF s.scope > built THEN s.scope ELSE built

(* upsert_summary_synthesis: a summary built from an overtaken revision    *)
(* stays dirty.                                                            *)
Upserted(s, text, built) ==
    [status |-> "active", text |-> text, built |-> built,
     scope |-> IF s.status = "none" THEN built ELSE ScopeAfter(s, built),
     dirty |-> s.status # "none" /\ s.scope > built]

(* archive_summary: nothing active is left in the scope.                   *)
Archived(s) ==
    IF s.status = "active" THEN [s EXCEPT !.status = "archived", !.dirty = FALSE] ELSE s

Commit(w) ==
    /\ at[w] = "commit"
    /\ summary' = IF seen[w] = {} THEN Archived(summary)
                  ELSE Upserted(summary, seen[w], BuiltFrom(w))
    /\ Goto(w, "done")
    /\ UNCHANGED <<fact, target, seen, heard, crashes>>

(* DELETE, PATCH, or a supersession by a fact of another session: the row  *)
(* changes, the summaries that depend on it are not marked.                *)
CloseFact(w) ==
    /\ fact[w] = "active"
    /\ fact' = [fact EXCEPT ![w] = "closed"]
    /\ UNCHANGED <<summary, at, target, seen, heard, crashes>>

EraseFact(w) ==
    /\ fact[w] \in {"active", "closed"}
    /\ fact' = [fact EXCEPT ![w] = "erased"]
    /\ UNCHANGED <<summary, at, target, seen, heard, crashes>>

(* Retrieval meets a summary none of whose facts has a row.                *)
Recall ==
    /\ Routable
    /\ \A w \in summary.text : fact[w] = "erased"
    /\ summary' = Marked(summary)
    /\ UNCHANGED <<fact, at, target, seen, heard, crashes>>

Crash ==
    /\ crashes < MaxCrashes
    /\ crashes' = crashes + 1
    /\ at' = [w \in Writers |-> IF at[w] = "store" THEN "store" ELSE "done"]
    /\ UNCHANGED <<fact, summary, target, seen, heard>>

Next ==
    \/ \E w \in Writers :
        \/ Store(w) \/ Mark(w) \/ ReadRevision(w) \/ ReadFacts(w) \/ Commit(w)
        \/ CloseFact(w) \/ EraseFact(w)
    \/ Recall
    \/ Crash

Spec == Init /\ [][Next]_vars

-----------------------------------------------------------------------------
TypeOK ==
    /\ fact \in [Writers -> {"absent", "active", "closed", "erased"}]
    /\ summary \in [status : {"none", "active", "archived"}, text : SUBSET Writers,
                    dirty : BOOLEAN, scope : Nat, built : Nat]
    /\ at \in [Writers -> {"store", "mark", "revision", "read", "commit", "done"}]
    /\ target \in [Writers -> Nat]
    /\ seen \in [Writers -> SUBSET Writers]
    /\ heard \subseteq Writers

(* store.py:1702 DR-004 #4: a summary that may be recalled tells every     *)
(* active fact whose ingestion marked it dirty, however many rebuilds from *)
(* older reads commit after it.                                            *)
RoutableTellsMarked == Routable => Active \cap heard \subseteq summary.text

=============================================================================
