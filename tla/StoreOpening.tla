----------------------------- MODULE StoreOpening -----------------------------
(***************************************************************************)
(* sodamem/memory/storage: open_store, for processes that open the same    *)
(* database file.  A store carries the schema and the fingerprints of the  *)
(* prompts and of the embedder it was built with, and one that was built   *)
(* otherwise is refused.  A file that has no store_meta table is new, or a *)
(* legacy one to adopt: tables, columns and stamp are then written one     *)
(* after the other, each of them committed.                                *)
(*                                                                         *)
(* The maintenance lock is taken shared by every opener, so that it keeps  *)
(* none of them from another, and nothing takes it exclusively.            *)
(***************************************************************************)
EXTENDS Integers, FiniteSets

CONSTANTS
    Openers,    \* processes
    Builds,     \* [prompts, embedder]: what the openers are configured with
    None,       \* no stamp, no fingerprint
    MaxCuts     \* bound: openings that raise or whose process ends

OpeningAssumption ==
    /\ MaxCuts \in Nat
    /\ \A b \in Builds :
        /\ b = [prompts |-> b.prompts, embedder |-> b.embedder]
        /\ b.prompts # None /\ b.embedder # None

VARIABLES
    file,       \* the file exists
    metaTable,  \* it has a table store_meta
    tables,     \* it has all the others
    columns,    \* Legacy, or those columns and more
    meta,       \* the rows of store_meta
    at,         \* "closed", "connect", "meta", "tables", "rename", "columns", "stamp",
                \* "adopt", "additive", "open"
    isNew,      \* open_store's is_new
    build,      \* what the opener is configured with
    cuts,
    raced       \* history: first openings overlapped

dbVars == <<file, metaTable, tables, columns, meta>>
vars == <<dbVars, at, isNew, build, cuts, raced>>

Legacy == 0
Renamed == 1    \* graph_entities.dedup_key
Current == 2    \* and the added columns

Unstamped == [prompts |-> None, embedder |-> None]
Provisioning == {"meta", "tables", "rename", "columns", "stamp"}

(* No file, a legacy store, a store from before the embedder's fingerprint *)
(* and the newest tables.                                                  *)
Init ==
    /\ file \in BOOLEAN /\ tables = FALSE
    /\ \/ /\ metaTable = FALSE /\ meta = Unstamped
          /\ columns \in IF file THEN {Legacy, Current} ELSE {Current}
       \/ /\ file /\ metaTable = TRUE /\ columns = Current
          /\ \E b \in Builds : meta = [prompts |-> b.prompts, embedder |-> None]
    /\ at = [o \in Openers |-> "closed"] /\ isNew = [o \in Openers |-> FALSE]
    /\ build \in [Openers -> Builds]
    /\ cuts = 0 /\ raced = FALSE

Goes(o, stage) == at' = [at EXCEPT ![o] = stage]

Begin(o) ==
    /\ at[o] = "closed"
    /\ Goes(o, "connect") /\ isNew' = [isNew EXCEPT ![o] = ~file]
    /\ UNCHANGED <<dbVars, build, cuts, raced>>

(* assert_store_compatible.                                                *)
MutCompatible(b) == meta # Unstamped /\ meta.prompts = b.prompts

Compatible(b) ==
    /\ meta # Unstamped
    /\ meta.prompts = b.prompts
    /\ meta.embedder \in {None, b.embedder}

(* A new file or one without a store_meta table is provisioned; another    *)
(* has to be compatible, or opening it fails.                              *)
Connect(o) ==
    /\ at[o] = "connect" /\ file' = TRUE
    /\ IF isNew[o] \/ ~metaTable
       THEN /\ Goes(o, "meta")
            /\ raced' = (raced \/ metaTable \/ \E p \in Openers \ {o} : at[p] \in Provisioning)
       ELSE /\ Goes(o, IF ~Compatible(build[o]) THEN "closed"
                       ELSE IF meta.embedder = None THEN "adopt" ELSE "additive")
            /\ UNCHANGED raced
    /\ UNCHANGED <<metaTable, tables, columns, meta, isNew, build, cuts>>

(* SCHEMA_DDL creates what is missing, store_meta before any other.        *)
CreateMeta(o) ==
    /\ at[o] = "meta"
    /\ metaTable' = TRUE /\ Goes(o, "tables")
    /\ UNCHANGED <<file, tables, columns, meta, isNew, build, cuts, raced>>

CreateTables(o) ==
    /\ at[o] \in {"tables", "additive"}
    /\ tables' = TRUE /\ Goes(o, IF at[o] = "tables" THEN "rename" ELSE "open")
    /\ UNCHANGED <<file, metaTable, columns, meta, isNew, build, cuts, raced>>

(* The migrations, which look at what is there.                            *)
Migrate(o) ==
    /\ \/ at[o] = "rename" /\ Goes(o, "columns")
          /\ columns' = IF columns = Legacy THEN Renamed ELSE columns
       \/ at[o] = "columns" /\ Goes(o, "stamp")
          /\ columns' = IF columns = Renamed THEN Current ELSE columns
    /\ UNCHANGED <<file, metaTable, tables, meta, isNew, build, cuts, raced>>

(* _write_store_meta replaces what is stamped.                             *)
Stamp(o) ==
    /\ at[o] = "stamp"
    /\ meta' = build[o] /\ Goes(o, "open")
    /\ UNCHANGED <<file, metaTable, tables, columns, isNew, build, cuts, raced>>

(* A store without the embedder's fingerprint takes the opener's.          *)
Adopt(o) ==
    /\ at[o] = "adopt"
    /\ meta' = [meta EXCEPT !.embedder = build[o].embedder] /\ Goes(o, "additive")
    /\ raced' = (raced \/ meta.embedder \notin {None, build[o].embedder})
    /\ UNCHANGED <<file, metaTable, tables, columns, isNew, build, cuts>>

(* A step raises, or the process ends.                                     *)
Cut(o) ==
    /\ at[o] \notin {"closed", "open"} /\ cuts < MaxCuts
    /\ Goes(o, "closed") /\ cuts' = cuts + 1
    /\ UNCHANGED <<dbVars, isNew, build, raced>>

(* The store is closed and opened again later, otherwise configured        *)
(* perhaps.                                                                *)
Close(o) ==
    /\ at[o] = "open" /\ Goes(o, "closed")
    /\ \E b \in Builds : build' = [build EXCEPT ![o] = b]
    /\ UNCHANGED <<dbVars, isNew, cuts, raced>>

Next ==
    \E o \in Openers :
        \/ Begin(o) \/ Connect(o) \/ CreateMeta(o) \/ CreateTables(o) \/ Migrate(o)
        \/ Stamp(o) \/ Adopt(o) \/ Cut(o) \/ Close(o)

Spec == Init /\ [][Next]_vars
-----------------------------------------------------------------------------
TypeOK ==
    /\ {file, metaTable, tables, raced} \subseteq BOOLEAN
    /\ columns \in Legacy..Current /\ build \in [Openers -> Builds] /\ cuts \in 0..MaxCuts
    /\ meta = Unstamped \/ \E b \in Builds :
        meta.prompts = b.prompts /\ meta.embedder \in {None, b.embedder}

(* open_store "A frozen benchmark store must never silently reuse a schema *)
(* it wasn't built with": whoever has the store open has all its tables    *)
(* and columns, and was configured as the store is stamped, so that no two *)
(* embedders ever write into one index; only first openings that overlap,  *)
(* which each stamp the store as theirs, may break this.                   *)
OpenAsStamped ==
    \A o \in Openers :
        at[o] = "open" => tables /\ columns = Current /\ meta # Unstamped /\ (raced \/ meta = build[o])

(* A store that every opener refuses, because it has no stamp, is one      *)
(* whose first opening was cut short or is still going on.                 *)
UnstampedWasCut ==
    metaTable /\ meta = Unstamped => cuts > 0 \/ \E o \in Openers : at[o] \in Provisioning

(* What is opened is whole, and what is not opened was cut.                *)
StoresOpenWhole == OpenAsStamped /\ UnstampedWasCut
=============================================================================
