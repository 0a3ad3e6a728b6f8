------------------------------ MODULE Writing -------------------------------
(***************************************************************************)
(* How a store is opened and written: StoreOpening (open_store), Ingestion *)
(* (the jobs that bring sessions), FactItem (what is taken of a language   *)
(* model's answer) and FactStore (the requests that change facts           *)
(* afterwards).  An execution is one of one of them, and part says of      *)
(* which.                                                                  *)
(***************************************************************************)
EXTENDS FactStore

CONSTANTS
    Jobs, Turns, Brought, Configs, MaxTokens, MaxTurns,     \* of Ingestion
    MaxDepth, MaxDeaths,
    Items, Options, Today, NoDay,                           \* of FactItem
    Openers, Builds, MaxCuts,                               \* of StoreOpening
    None    \* no project, no stamp; the value of a variable of a part that an
            \* execution is not of

VARIABLES
    part,
    config, request, size, stage, kept, scope, facts, window, segments, answer,
    reason, drafts, judged, deaths,
    item, option, drawn,
    file, metaTable, tables, columns, meta, opening, isNew, build, cuts, raced

sessionVars == <<config, request, size, stage, kept, scope, facts, window, segments,
                 answer, reason, drafts, judged, deaths>>
itemVars == <<item, option, drawn>>
openingVars == <<file, metaTable, tables, columns, meta, opening, isNew, build, cuts, raced>>

I == INSTANCE Ingestion WITH
        Requests <- Brought, Nowhere <- None, at <- stage, todo <- segments
X == INSTANCE FactItem WITH None <- NoDay, fact <- drawn
O == INSTANCE StoreOpening WITH at <- opening

ASSUME WritingAssumptions ==
    I!IngestionAssumption /\ X!FactItemAssumption /\ O!OpeningAssumption

(* The variables of the parts that an execution is not of.                 *)
NoSession ==
    /\ config = None /\ request = None /\ size = None /\ stage = None /\ kept = None
    /\ scope = None /\ facts = None /\ window = None /\ segments = None /\ answer = None
    /\ reason = None
    /\ drafts = None /\ judged = None /\ deaths = None
NoItem == item = None /\ option = None /\ drawn = None
NoOpening ==
    /\ file = None /\ metaTable = None /\ tables = None /\ columns = None /\ meta = None
    /\ opening = None /\ isNew = None /\ build = None /\ cuts = None /\ raced = None

WritingInit ==
    /\ part \in {"facts", "sessions", "items", "opening"}
    /\ Init
    /\ IF part = "sessions" THEN I!Init ELSE NoSession
    /\ IF part = "items" THEN X!Init ELSE NoItem
    /\ IF part = "opening" THEN O!Init ELSE NoOpening

WritingNext ==
    /\ UNCHANGED part
    /\ \/ part = "facts" /\ Next /\ UNCHANGED <<sessionVars, itemVars, openingVars>>
       \/ part = "sessions" /\ I!Next /\ UNCHANGED <<vars, itemVars, openingVars>>
       \/ part = "items" /\ X!Extract /\ UNCHANGED <<vars, sessionVars, openingVars>>
       \/ part = "opening" /\ O!Next /\ UNCHANGED <<vars, sessionVars, itemVars>>

WritingSpec ==
    WritingInit /\ [][WritingNext]_<<part, vars, sessionVars, itemVars, openingVars>>

-----------------------------------------------------------------------------
(* The variables of the parts have their types.                            *)
WritingTypeOK ==
    /\ TypeOK
    /\ part = "sessions" => I!TypeOK
    /\ part = "opening" => O!TypeOK

(* Every turn of a session is judged, and given up only when nothing else  *)
(* is left to try; a fact, or a session, is found only in projects it was  *)
(* told in (Ingestion).                                                    *)
SessionIsAccounted == part = "sessions" => I!EverySpanIsJudged /\ I!ScopeNarrows

(* What is taken of an answer is grounded, in order and can be superseded  *)
(* (FactItem).                                                             *)
FactIsUsable == part = "items" => X!FactIsUsable

(* What is opened is whole, and what is not opened was cut (StoreOpening). *)
StoresOpenWhole == part = "opening" => O!StoresOpenWhole
=============================================================================
