---------------------------- MODULE KeywordIndex ----------------------------
(***************************************************************************)
(* sodamem/memory/retrieval/bm25.py: the keyword index of a store, cached  *)
(* by user and rebuilt when the store's write version has moved.           *)
(*                                                                         *)
(* Rows are committed under the store's lock; the version is read and      *)
(* written by two plain dict operations after it was given up, and the     *)
(* index is read and replaced with no lock at all.  Every write of one     *)
(* user counts, so a row is how many writes a writer has committed.  Each  *)
(* open Store has a version and an index of its own; the rows, in the      *)
(* file, are one.                                                          *)
(***************************************************************************)
EXTENDS Integers

CONSTANTS
    Handles,    \* open Stores of one user's file
    Writers,    \* threads that write, each through one handle
    Searchers,  \* threads that search, each through one handle
    Through,    \* Through[w]: the handle of a writer or searcher
    MaxWrites,  \* bound: writes of one writer
    MaxSearches \* bound: searches of all searchers

IndexAssumption ==
    /\ Through \in [Writers \cup Searchers -> Handles]
    /\ Writers \cap Searchers = {}
    /\ MaxWrites \in Nat /\ MaxSearches \in Nat

Rows == [Writers -> 0..MaxWrites]

VARIABLES
    rows,       \* committed writes, by writer
    version,    \* _write_version[user] of each handle
    cache,      \* the tuple in _fact_cache: version at build, and the rows
    wat, read,  \* a writer: where, and the version it will add one to
    returned,   \* how many of its writes have returned
    sat, looked, ver, got,  \* a searcher: where, the cached tuple and the
                \* version it read, and the rows it answers with
    due,        \* history: the writes that had returned when it began
    searches,
    receded     \* history: handles whose version went down

writerVars == <<rows, version, wat, read, returned, receded>>
searcherVars == <<cache, sat, looked, ver, got, due, searches>>
vars == <<writerVars, searcherVars>>

NoRows == [w \in Writers |-> 0]
Miss == [ver |-> -1, rows |-> NoRows]
-----------------------------------------------------------------------------
Init ==
    /\ rows = NoRows /\ returned = NoRows
    /\ version = [h \in Handles |-> 0]
    /\ cache = [h \in Handles |-> Miss]
    /\ wat = [w \in Writers |-> "idle"]
    /\ read = [w \in Writers |-> 0]
    /\ sat = [s \in Searchers |-> "idle"]
    /\ looked = [s \in Searchers |-> Miss]
    /\ ver = [s \in Searchers |-> 0]
    /\ got = [s \in Searchers |-> NoRows]
    /\ due = [s \in Searchers |-> NoRows]
    /\ searches = 0
    /\ receded = {}

(* upsert_source_span, upsert_fact_event, archive, delete: the commit ...  *)
Commit(w) ==
    /\ wat[w] = "idle" /\ rows[w] < MaxWrites
    /\ rows' = [rows EXCEPT ![w] = @ + 1]
    /\ wat' = [wat EXCEPT ![w] = "bump"]
    /\ UNCHANGED <<version, read, returned, receded, searcherVars>>

(* ... then _bump_write_version, which reads the version ...               *)
BumpRead(w) ==
    /\ wat[w] = "bump"
    /\ read' = [read EXCEPT ![w] = version[Through[w]]]
    /\ wat' = [wat EXCEPT ![w] = "add"]
    /\ UNCHANGED <<rows, version, returned, receded, searcherVars>>

Bumped(w) == read[w] + 1

(* ... and writes it back one higher, and the write returns.               *)
BumpWrite(w) ==
    /\ wat[w] = "add"
    /\ version' = [version EXCEPT ![Through[w]] = Bumped(w)]
    /\ receded' = IF Bumped(w) < version[Through[w]]
                  THEN receded \cup {Through[w]} ELSE receded
    /\ returned' = [returned EXCEPT ![w] = rows[w]]
    /\ wat' = [wat EXCEPT ![w] = "idle"]
    /\ read' = [read EXCEPT ![w] = 0]
    /\ UNCHANGED <<rows, searcherVars>>

-----------------------------------------------------------------------------
(* search_fact_events, and the same for spans, turns and summaries: the    *)
(* cached tuple ...                                                        *)
Look(s) ==
    /\ sat[s] \in {"idle", "answered"} /\ searches < MaxSearches
    /\ searches' = searches + 1
    /\ got' = [got EXCEPT ![s] = NoRows]
    /\ looked' = [looked EXCEPT ![s] = cache[Through[s]]]
    /\ due' = [due EXCEPT ![s] =
                [w \in Writers |-> IF Through[w] = Through[s] THEN returned[w] ELSE 0]]
    /\ sat' = [sat EXCEPT ![s] = "looked"]
    /\ UNCHANGED <<writerVars, cache, ver>>

MutHit(s) == looked[s].ver # -1
Hit(s) == looked[s].ver = version[Through[s]]

(* ... is compared with the version: it answers ...                        *)
Cached(s) ==
    /\ sat[s] = "looked" /\ Hit(s)
    /\ got' = [got EXCEPT ![s] = looked[s].rows]
    /\ looked' = [looked EXCEPT ![s] = Miss]
    /\ sat' = [sat EXCEPT ![s] = "answered"]
    /\ UNCHANGED <<writerVars, cache, ver, due, searches>>

(* ... or the version is kept ...                                          *)
Stale(s) ==
    /\ sat[s] = "looked" /\ ~Hit(s)
    /\ ver' = [ver EXCEPT ![s] = version[Through[s]]]
    /\ looked' = [looked EXCEPT ![s] = Miss]
    /\ sat' = [sat EXCEPT ![s] = "read"]
    /\ UNCHANGED <<writerVars, cache, got, due, searches>>

(* ... the rows are read, under the store's lock ...                       *)
ReadRows(s) ==
    /\ sat[s] = "read"
    /\ got' = [got EXCEPT ![s] = rows]
    /\ sat' = [sat EXCEPT ![s] = "build"]
    /\ UNCHANGED <<writerVars, cache, looked, ver, due, searches>>

BuiltAt(s) == ver[s]

(* ... and the index built of them replaces what is there by then.         *)
Build(s) ==
    /\ sat[s] = "build"
    /\ cache' = [cache EXCEPT ![Through[s]] = [ver |-> BuiltAt(s), rows |-> got[s]]]
    /\ ver' = [ver EXCEPT ![s] = 0]
    /\ sat' = [sat EXCEPT ![s] = "answered"]
    /\ UNCHANGED <<writerVars, looked, got, due, searches>>

Next ==
    \/ \E w \in Writers : Commit(w) \/ BumpRead(w) \/ BumpWrite(w)
    \/ \E s \in Searchers :
        Look(s) \/ Cached(s) \/ Stale(s) \/ ReadRows(s) \/ Build(s)

Spec == Init /\ [][Next]_vars

-----------------------------------------------------------------------------
Tuples == [ver : Int, rows : Rows]

TypeOK ==
    /\ rows \in Rows /\ returned \in Rows
    /\ version \in [Handles -> Nat]
    /\ cache \in [Handles -> Tuples]
    /\ wat \in [Writers -> {"idle", "bump", "add"}]
    /\ read \in [Writers -> Nat]
    /\ sat \in [Searchers -> {"idle", "looked", "read", "build", "answered"}]
    /\ looked \in [Searchers -> Tuples]
    /\ ver \in [Searchers -> Nat]
    /\ got \in [Searchers -> Rows] /\ due \in [Searchers -> Rows]
    /\ searches \in 0..MaxSearches
    /\ receded \subseteq Handles

(* store.py:471 "the monotonic counter it keys off": a search sees every   *)
(* write that had returned before it began, through the same handle.  The  *)
(* counter is not quite monotonic: the write of a stalled thread may take  *)
(* it back, and then an index built before may pass for a later one.       *)
SearchSeesReturned ==
    \A s \in Searchers :
        sat[s] = "answered" =>
            \/ \A w \in Writers : due[s][w] <= got[s][w]
            \/ Through[s] \in receded
=============================================================================
