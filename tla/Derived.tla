------------------------------- MODULE Derived -------------------------------
(***************************************************************************)
(* What is derived from what users said: Maintainer (which facts are       *)
(* current), Dreaming (the profile of an entity), SummaryRevision (the     *)
(* summary of a session) and Calendar (the days that phrases mean).  They  *)
(* share no state, so an execution is one of one of them: part says of     *)
(* which.                                                                  *)
(***************************************************************************)
EXTENDS Maintainer

CONSTANTS
    Facts, Entities, About, Time, ByAssistant, Dreamers, \* of Dreaming
    Writers,                                 \* of SummaryRevision
    MaxCrashes,                              \* of both
    Anchors                                  \* of Calendar

VARIABLES
    part,
    known, unmarked, stale, profiles, holder, step, todo, draft, covered, raced, killed,
    fact, summary, at, target, seen, heard, crashes,
    anchor

dreamingVars == <<known, unmarked, stale, profiles, holder, step, todo, draft,
                  covered, raced, killed>>
summaryVars == <<fact, summary, at, target, seen, heard, crashes>>
others == <<dreamingVars, summaryVars, anchor>>

D == INSTANCE Dreaming WITH fact <- known, at <- step, crashes <- killed
S == INSTANCE SummaryRevision
K == INSTANCE Calendar

ASSUME DerivedAssumptions ==
    D!DreamingAssumption /\ S!SummaryAssumption /\ K!AnchorAssumption

DerivedInit ==
    /\ part \in {"current", "profiles", "summary", "dates"}
    /\ Init /\ D!Init /\ S!Init
    /\ part = "current" \/ pool = CHOOSE P \in Pools : TRUE
    /\ IF part = "dates" THEN K!Init ELSE anchor = 0

DerivedNext ==
    /\ UNCHANGED part
    /\ \/ part = "current" /\ Next /\ UNCHANGED others
       \/ /\ UNCHANGED vars
          /\ \/ part = "profiles" /\ D!Next /\ UNCHANGED <<summaryVars, anchor>>
             \/ part = "summary" /\ S!Next /\ UNCHANGED <<dreamingVars, anchor>>
             \/ part = "dates" /\ K!Later /\ UNCHANGED <<dreamingVars, summaryVars>>

DerivedSpec == DerivedInit /\ [][DerivedNext]_<<part, vars, others>>

-----------------------------------------------------------------------------
(* The variables of facts, profiles and summaries have their types.        *)
DerivedTypeOK == TypeOK /\ D!TypeOK /\ S!TypeOK

(* An entity has one current profile, unless facts of it were deleted, and *)
(* never two that tell what the user told; one that was dreamed of has one *)
(* or a dirty bit; a fact that is in no profile has its bit, unless it     *)
(* raced (Dreaming).                                                       *)
ProfilesAreKept == D!OneCurrentProfile /\ D!ProfileOrDirty /\ D!CoveredUnlessRaced

(* A summary that is recalled tells the facts that marked it               *)
(* (SummaryRevision).                                                      *)
RoutableTellsMarked == S!RoutableTellsMarked

(* The periods that phrases name meet, and a name without a year means the *)
(* nearest of its kind (Calendar).                                         *)
DatesAreRight == part = "dates" => K!PeriodsMeet /\ K!NearestOccurrence
=============================================================================
