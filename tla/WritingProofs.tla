--------------------------- MODULE WritingProofs ----------------------------
(***************************************************************************)
(* Proofs about Writing, for every value of its constants.                 *)
(*                                                                         *)
(* FactStore, every set of stored facts and of requests at once: rows and  *)
(* SUPERSEDES edges tell the same, and the index agrees with the rows, but *)
(* for what the two properties except.                                     *)
(*                                                                         *)
(* StoreOpening, any number of openers and of builds: what is opened is    *)
(* whole and as it is stamped.                                             *)
(*                                                                         *)
(* FactItem, every item a language model may answer with: what is taken of *)
(* it is grounded, dated in order and of a kind that can be superseded.    *)
(*                                                                         *)
(* Ingestion, any number of jobs, of turns and of windows: every turn is   *)
(* judged, and facts and sessions are found where they were told.          *)
(***************************************************************************)
EXTENDS Writing, SequenceTheorems, FiniteSetTheorems, FunctionTheorems, WellFoundedInduction, TLAPS

(* How far a request is when its index write is taken for done.            *)
Where(r) == IF at[r] = "index" THEN todo[r].next ELSE at[r]

(* What a request has in hand follows from how far it is.                  *)
TodoFits(r) ==
    IF at[r] = "index"
    THEN todo[r].fact \in Facts /\ todo[r].next \in {"edge", "patchedge", "choose", "done"}
    ELSE todo[r] = NoWrite

KindFits(r) ==
    /\ r \notin Writers => Where(r) \in {"idle", "done"}
    /\ Where(r) \in {"snapshot", "choose", "loser", "heir", "patchclose", "patchedge"}
        => r \in Patches
    /\ r \in Patches /\ Where(r) \notin {"idle", "done"} => target[r] \in Facts

FactFits(r) ==
    IF Where(r) \in {"judge", "close", "edge", "store"}
    THEN fact[r] \in Facts /\ copy[r] \in Status
    ELSE fact[r] = Nil /\ copy[r] = "absent"

VictimFits(r) ==
    /\ Where(r) \in {"close", "edge", "heir", "patchclose", "patchedge"}
        => victim[r] \in Facts /\ heir[r] \in Facts
    /\ Where(r) = "store" => victim[r] = Nil \/ (victim[r] \in Facts /\ heir[r] \in Facts)
    /\ Where(r) = "loser" => victim[r] = Nil /\ heir[r] \in Facts
    /\ Where(r) \in {"idle", "snapshot", "extract", "judge", "choose", "done"}
        => victim[r] = Nil

RequestsFit ==
    \A r \in Requests : TodoFits(r) /\ KindFits(r) /\ FactFits(r) /\ VictimFits(r)

(* The winner of a supersession has a row, or is the fact that is stored   *)
(* next; before the store the edge is written.  An erasure may take it.    *)
HeirStands ==
    purged = {} => \A r \in Writers :
        /\ Where(r) \in {"close", "edge"} => heir[r] = fact[r] \/ heir[r] \in Present
        /\ Where(r) = "store" /\ victim[r] # Nil =>
            /\ <<heir[r], victim[r]>> \in edges
            /\ heir[r] = fact[r] \/ heir[r] \in Present
        /\ Where(r) \in {"loser", "heir", "patchclose", "patchedge"} => heir[r] \in Present

(* A fact that reads superseded has an edge to it from a row, or somebody  *)
(* is at it: the first half of EdgesTellSupersession, said also of the     *)
(* copies that are yet to be written.                                      *)
Explained(l) ==
    \/ \E w \in Present : <<w, l>> \in edges
    \/ \E r \in Writers : victim[r] = l /\ at[r] # "done"
    \/ purged # {}

SupersededIsExplained ==
    \A l \in Facts \ cut :
        /\ rows[l] = "superseded" => Explained(l)
        /\ \A r \in Writers : fact[r] = l /\ copy[r] = "superseded" => Explained(l)

(* A fact is closed, was set back or erased, or is about to be stored      *)
(* closed: what holds of a victim once its edge is written, or is next.    *)
Excused(l) == rows[l] \in Closed \/ l \in purged \cup reopened \cup cut

EdgesPointAtClosed ==
    \A e \in edges :
        \/ Excused(e[2])
        \/ \E r \in Writers : at[r] = "store" /\ fact[r] = e[2] /\ copy[r] = "superseded"

VictimsAreClosed ==
    \A r \in Writers :
        Where(r) \in {"edge", "patchedge"} =>
            Excused(victim[r]) \/ (victim[r] = fact[r] /\ copy[r] = "superseded")

(* Of a fact that is not muddled one index write at most is due; it writes *)
(* what the row says, and without one the index says it already.           *)
Due(f) == {r \in Requests : todo[r].fact = f}

IndexFollows ==
    \A f \in Facts \ muddled :
        /\ \A q, r \in Due(f) : q = r
        /\ \A r \in Due(f) :
            /\ todo[r].status = rows[f]
            /\ r \in Archives => vectors[f] # "absent"
        /\ Due(f) = {} => vectors[f] = rows[f]

(* The inductive invariant.                                                *)
FactInv ==
    /\ TypeOK /\ RequestsFit
    /\ HeirStands /\ SupersededIsExplained
    /\ EdgesPointAtClosed /\ VictimsAreClosed
    /\ IndexFollows

-----------------------------------------------------------------------------
LEMMA InitFacts == ASSUME Init PROVE FactInv
<1> USE DEF Init
<1>1. TypeOK
  <2>1. NoWrite \in [fact : Facts \cup {Nil}, status : Status \cup {"absent"}, next : Phase]
    BY DEF NoWrite, Phase
  <2>2. at \in [Requests -> Phase]
    BY DEF Phase
  <2> QED BY <2>1, <2>2 DEF TypeOK, Status
<1>2. RequestsFit
  BY FactStoreAssumption
     DEF RequestsFit, TodoFits, KindFits, FactFits, VictimFits, Where, Requests, Writers, NoWrite
<1>3. HeirStands /\ SupersededIsExplained
  BY DEF HeirStands, SupersededIsExplained, Explained, Where, Requests, Writers
<1>4. EdgesPointAtClosed /\ VictimsAreClosed
  BY DEF EdgesPointAtClosed, VictimsAreClosed, Where, Requests, Writers
<1>5. IndexFollows
  BY FactStoreAssumption DEF IndexFollows, Due, NoWrite
<1> QED BY <1>1, <1>2, <1>3, <1>4, <1>5 DEF FactInv

-----------------------------------------------------------------------------
(* What a step of one request leaves alone of the others.                  *)
Alone(r) ==
    \A q \in Requests \ {r} :
        /\ at'[q] = at[q] /\ todo'[q] = todo[q] /\ target'[q] = target[q]
        /\ fact'[q] = fact[q] /\ copy'[q] = copy[q]
        /\ victim'[q] = victim[q] /\ heir'[q] = heir[q]

LEMMA RequestsStayFit ==
    ASSUME RequestsFit, NEW r \in Requests, Alone(r),
           TodoFits(r)', KindFits(r)', FactFits(r)', VictimFits(r)'
    PROVE  RequestsFit'
<1>1. ASSUME NEW q \in Requests, q # r
      PROVE  (TodoFits(q) /\ KindFits(q) /\ FactFits(q) /\ VictimFits(q))'
  BY <1>1 DEF RequestsFit, TodoFits, KindFits, FactFits, VictimFits, Where, Alone
<1> QED BY <1>1 DEF RequestsFit

(* As long as nothing is erased rows and edges only come: an heir stands.  *)
LEMMA HeirsStayStanding ==
    ASSUME HeirStands, NEW r \in Requests, Alone(r),
           purged' = {} => purged = {} /\ Present \subseteq Present' /\ edges \subseteq edges',
           purged' = {} /\ r \in Writers =>
             /\ Where(r)' \in {"close", "edge"} => heir'[r] = fact'[r] \/ heir'[r] \in Present'
             /\ Where(r)' = "store" /\ victim'[r] # Nil =>
                 /\ <<heir'[r], victim'[r]>> \in edges'
                 /\ heir'[r] = fact'[r] \/ heir'[r] \in Present'
             /\ Where(r)' \in {"loser", "heir", "patchclose", "patchedge"} => heir'[r] \in Present'
    PROVE  HeirStands'
<1> SUFFICES ASSUME purged' = {}, NEW q \in Writers, q # r
             PROVE  /\ Where(q)' \in {"close", "edge"} =>
                         heir'[q] = fact'[q] \/ heir'[q] \in Present'
                    /\ Where(q)' = "store" /\ victim'[q] # Nil =>
                         /\ <<heir'[q], victim'[q]>> \in edges'
                         /\ heir'[q] = fact'[q] \/ heir'[q] \in Present'
                    /\ Where(q)' \in {"loser", "heir", "patchclose", "patchedge"} => heir'[q] \in Present'
  BY DEF HeirStands
<1>1. /\ Where(q)' = Where(q) /\ heir'[q] = heir[q]
      /\ fact'[q] = fact[q] /\ victim'[q] = victim[q]
  BY DEF Alone, Where, Requests
<1> QED BY <1>1 DEF HeirStands

(* An explanation lasts until an erasure, unless it is the request that    *)
(* steps: then the step has to give another.                               *)
LEMMA ExplanationsLast ==
    ASSUME SupersededIsExplained, NEW r \in Requests, Alone(r), cut' = cut,
           purged' = {} => purged = {} /\ Present \subseteq Present' /\ edges \subseteq edges',
           \A l \in Facts : r \in Writers /\ victim[r] = l /\ at[r] # "done" => Explained(l)',
           \A l \in Facts \ cut : rows'[l] = "superseded" =>
             rows[l] = "superseded" \/ (r \in Writers /\ fact[r] = l /\ copy[r] = "superseded")
                \/ Explained(l)',
           \A l \in Facts \ cut : r \in Writers /\ fact'[r] = l /\ copy'[r] = "superseded" =>
             \/ rows[l] = "superseded" \/ Explained(l)'
             \/ fact[r] = l /\ copy[r] = "superseded"
    PROVE  SupersededIsExplained'
<1>1. ASSUME NEW l \in Facts, Explained(l) PROVE Explained(l)'
  <2> SUFFICES ASSUME purged' = {} PROVE Explained(l)'
    BY DEF Explained
  <2>1. CASE \E w \in Present : <<w, l>> \in edges
    BY <2>1 DEF Explained
  <2>2. ASSUME NEW q \in Writers, victim[q] = l, at[q] # "done" PROVE Explained(l)'
    <3>1. CASE q = r
      BY <2>2, <3>1
    <3>2. CASE q # r
      BY <2>2, <3>2 DEF Alone, Explained, Requests
    <3> QED BY <3>1, <3>2
  <2> QED BY <1>1, <2>1, <2>2 DEF Explained
<1>2. ASSUME NEW l \in Facts \ cut, rows'[l] = "superseded" PROVE Explained(l)'
  BY <1>1, <1>2 DEF SupersededIsExplained
<1>3. ASSUME NEW l \in Facts \ cut, NEW q \in Writers, fact'[q] = l, copy'[q] = "superseded"
      PROVE  Explained(l)'
  <2>1. CASE q = r
    BY <1>1, <1>3, <2>1 DEF SupersededIsExplained
  <2>2. CASE q # r
    BY <1>1, <1>3, <2>2 DEF SupersededIsExplained, Alone, Requests
  <2> QED BY <2>1, <2>2
<1> QED BY <1>2, <1>3 DEF SupersededIsExplained

(* A request that is not about to store takes no excuse away.              *)
LEMMA ExcusesLast ==
    ASSUME EdgesPointAtClosed, edges \subseteq Facts \X Facts,
           NEW r \in Requests, Alone(r), at[r] # "store",
           \A l \in Facts : Excused(l) => Excused(l)',
           \A e \in edges' : e \in edges \/ Excused(e[2])'
                \/ (r \in Writers /\ at'[r] = "store" /\ fact'[r] = e[2] /\ copy'[r] = "superseded")
    PROVE  EdgesPointAtClosed'
<1> SUFFICES ASSUME NEW e \in edges', e \in edges, ~Excused(e[2])'
             PROVE  \E q \in Writers : at'[q] = "store" /\ fact'[q] = e[2] /\ copy'[q] = "superseded"
  BY DEF EdgesPointAtClosed
<1>1. e[2] \in Facts
  OBVIOUS
<1>2. PICK q \in Writers : at[q] = "store" /\ fact[q] = e[2] /\ copy[q] = "superseded"
  BY <1>1 DEF EdgesPointAtClosed
<1> QED BY <1>2 DEF Alone, Requests

LEMMA VictimsStayClosed ==
    ASSUME VictimsAreClosed, RequestsFit, NEW r \in Requests, Alone(r),
           \A l \in Facts : Excused(l) => Excused(l)',
           r \in Writers /\ Where(r)' \in {"edge", "patchedge"} =>
             Excused(victim[r])' \/ (victim'[r] = fact'[r] /\ copy'[r] = "superseded")
    PROVE  VictimsAreClosed'
<1> SUFFICES ASSUME NEW q \in Writers, q # r, Where(q)' \in {"edge", "patchedge"}
             PROVE  Excused(victim[q])' \/ (victim'[q] = fact'[q] /\ copy'[q] = "superseded")
  BY DEF VictimsAreClosed
<1>1. /\ Where(q)' = Where(q) /\ victim'[q] = victim[q]
      /\ fact'[q] = fact[q] /\ copy'[q] = copy[q]
  BY DEF Alone, Where, Requests
<1>2. victim[q] \in Facts
  BY <1>1 DEF RequestsFit, VictimFits, Requests
<1>3. ASSUME Excused(victim[q]) PROVE Excused(victim[q])'
  <2>1. \A l : l = victim[q] => (Excused(l)' <=> Excused(victim[q])')
    BY <1>1
  <2> QED BY <1>2, <1>3, <2>1
<1> QED BY <1>1, <1>3 DEF VictimsAreClosed

-----------------------------------------------------------------------------
(* A step that writes neither rows nor index, and is about one request.    *)
LEMMA QuietStep ==
    ASSUME FactInv, NEW r \in Requests, Alone(r),
           UNCHANGED <<storeVars, todo, history>>, at[r] \notin {"store", "index", "edge", "patchedge"},
           TypeOK', TodoFits(r)', KindFits(r)', FactFits(r)', VictimFits(r)',
           r \in Writers /\ victim[r] # Nil /\ at[r] # "done" =>
             purged # {} \/ (victim'[r] = victim[r] /\ at'[r] # "done"),
           purged = {} /\ r \in Writers =>
             /\ Where(r)' \in {"close", "edge"} => heir'[r] = fact'[r] \/ heir'[r] \in Present
             /\ Where(r)' # "store" \/ victim'[r] = Nil
             /\ Where(r)' \in {"loser", "heir", "patchclose", "patchedge"} => heir'[r] \in Present,
           r \in Writers /\ fact'[r] \in Facts /\ copy'[r] = "superseded" =>
             \/ rows[fact'[r]] = "superseded" \/ (victim'[r] = fact'[r] /\ at'[r] # "done")
             \/ fact[r] = fact'[r] /\ copy[r] = "superseded",
           Where(r)' \in {"edge", "patchedge"} => victim'[r] = fact'[r] /\ copy'[r] = "superseded"
    PROVE  FactInv'
<1> USE DEF FactInv, storeVars, history
<1>1. RequestsFit'
  BY RequestsStayFit
<1>2. Present' = Present /\ \A l : Excused(l)' = Excused(l)
  BY DEF Present, Excused
<1>3. HeirStands'
  BY <1>2, HeirsStayStanding
<1>4. SupersededIsExplained'
  <2>1. \A l \in Facts : r \in Writers /\ victim[r] = l /\ at[r] # "done" => Explained(l)'
    BY FactStoreAssumption DEF Explained
  <2>2. \A l \in Facts \ cut : r \in Writers /\ fact'[r] = l /\ copy'[r] = "superseded" =>
          rows[l] = "superseded" \/ Explained(l)' \/ (fact[r] = l /\ copy[r] = "superseded")
    BY DEF Explained
  <2> QED BY <1>2, <2>1, <2>2, ExplanationsLast
<1>5. EdgesPointAtClosed'
  BY <1>2, ExcusesLast DEF TypeOK
<1>6. VictimsAreClosed'
  BY <1>2, VictimsStayClosed
<1>7. IndexFollows'
  BY DEF IndexFollows, Due
<1> QED BY <1>1, <1>3, <1>4, <1>5, <1>6, <1>7

(* What is merged into has a row, with its status.                         *)
LEMMA ExtractStep == ASSUME FactInv, NEW r \in Requests, Extract(r) PROVE FactInv'
<1> USE DEF Extract, Goto, AfterIngest, storeVars, history
<1>1. TodoFits(r) /\ KindFits(r) /\ FactFits(r) /\ VictimFits(r) /\ Where(r) = "extract"
  BY DEF FactInv, RequestsFit, Where
<1>2. r \in Writers /\ (r \in Patches => target[r] \in Facts) /\ victim[r] = Nil
      /\ r \in Facts
  BY <1>1 DEF KindFits, VictimFits, Facts
<1>3. \/ /\ at' = [at EXCEPT ![r] = IF r \in Patches THEN "choose" ELSE "done"]
         /\ fact' = fact /\ copy' = copy
      \/ \E f \in Facts, c \in Status, p \in {"judge", "store"} :
            /\ at' = [at EXCEPT ![r] = p]
            /\ fact' = [fact EXCEPT ![r] = f] /\ copy' = [copy EXCEPT ![r] = c]
            /\ c = "superseded" => rows[f] = "superseded"
  <2>1. ASSUME NEW f \in {r} \cup Present
        PROVE  /\ f \in Facts /\ (IF f = r THEN "active" ELSE rows[f]) \in Status
               /\ (IF f = r THEN "active" ELSE rows[f]) = "superseded" => rows[f] = "superseded"
    BY <1>2 DEF FactInv, TypeOK, Present, Status
  <2> QED BY <2>1
<1> HIDE DEF Extract
<1>4. UNCHANGED <<storeVars, target, victim, heir, known, todo, history, crashes>>
  BY DEF Extract
<1> DEFINE Moved ==
      /\ at' \in [Requests -> Phase] /\ fact' \in [Requests -> Facts \cup {Nil}]
      /\ copy' \in [Requests -> Status \cup {"absent"}]
      /\ \A q \in Requests \ {r} : at'[q] = at[q] /\ fact'[q] = fact[q] /\ copy'[q] = copy[q]
      /\ at'[r] \in {"judge", "store", "choose", "done"} /\ (at'[r] = "choose" => r \in Patches)
      /\ IF at'[r] \in {"judge", "store"} THEN fact'[r] \in Facts /\ copy'[r] \in Status
         ELSE fact'[r] = fact[r] /\ copy'[r] = copy[r]
<1>5. Moved
  <2>1. CASE /\ at' = [at EXCEPT ![r] = IF r \in Patches THEN "choose" ELSE "done"]
             /\ fact' = fact /\ copy' = copy
    BY <2>1 DEF FactInv, TypeOK, Phase
  <2>2. ASSUME NEW f \in Facts, NEW c \in Status, NEW p \in {"judge", "store"},
               at' = [at EXCEPT ![r] = p],
               fact' = [fact EXCEPT ![r] = f], copy' = [copy EXCEPT ![r] = c]
        PROVE  Moved
    BY <2>2 DEF FactInv, TypeOK, Phase
  <2> QED BY <1>3, <2>1, <2>2
<1>6. TypeOK' /\ Alone(r)
  BY <1>4, <1>5 DEF FactInv, TypeOK, Alone
<1>0. at[r] = "extract"
  BY <1>1 DEF TodoFits, Where
<1>7. TodoFits(r)' /\ KindFits(r)' /\ FactFits(r)' /\ VictimFits(r)'
  <2>2. at'[r] # "index" /\ Where(r)' = at'[r]
    BY <1>5 DEF Where
  <2>3. TodoFits(r)'
    BY <1>0, <1>1, <1>4, <2>2 DEF TodoFits
  <2>4. KindFits(r)'
    BY <1>2, <1>4, <1>5, <2>2 DEF KindFits
  <2>5. FactFits(r)'
    BY <1>1, <1>5, <2>2 DEF FactFits
  <2>6. VictimFits(r)'
    BY <1>2, <1>4, <1>5, <2>2 DEF VictimFits
  <2> QED BY <2>3, <2>4, <2>5, <2>6
<1>8. \A l \in Facts : r \in Writers /\ fact'[r] = l /\ copy'[r] = "superseded" =>
        rows[l] = "superseded"
  BY <1>1, <1>3 DEF FactInv, TypeOK, FactFits
<1>9. Where(r)' \in {"judge", "store", "choose", "done"} /\ victim[r] = Nil /\ victim'[r] = Nil
  BY <1>2, <1>4, <1>5 DEF Where
<1> HIDE DEF Moved
<1> QED BY <1>0, <1>4, <1>6, <1>7, <1>8, <1>9, QuietStep DEF FactInv

LEMMA StartPatchStep == ASSUME FactInv, NEW r \in Requests, StartPatch(r) PROVE FactInv'
<1> USE DEF StartPatch, storeVars, history, Requests, Goto
<1>1. TypeOK' /\ Alone(r)
  BY DEF FactInv, TypeOK, Phase, Status, Present, Alone
<1>2. TodoFits(r) /\ KindFits(r) /\ FactFits(r) /\ VictimFits(r)
  BY DEF FactInv, RequestsFit
<1>3. TodoFits(r)' /\ KindFits(r)' /\ FactFits(r)' /\ VictimFits(r)'
  BY <1>2, FactStoreAssumption DEF FactInv, TypeOK, TodoFits, KindFits, FactFits, VictimFits, Where,
     Present, Writers, Status
<1> QED BY <1>1, <1>2, <1>3, QuietStep
       DEF FactInv, TypeOK, FactFits, VictimFits, Where, Present, Writers, Status

LEMMA SnapshotStep == ASSUME FactInv, NEW r \in Requests, Snapshot(r) PROVE FactInv'
<1> USE DEF Snapshot, storeVars, history, Requests, Goto
<1>1. TypeOK' /\ Alone(r)
  BY DEF FactInv, TypeOK, Phase, Status, Present, Alone
<1>2. TodoFits(r) /\ KindFits(r) /\ FactFits(r) /\ VictimFits(r)
  BY DEF FactInv, RequestsFit
<1>3. TodoFits(r)' /\ KindFits(r)' /\ FactFits(r)' /\ VictimFits(r)'
  BY <1>2, FactStoreAssumption DEF FactInv, TypeOK, TodoFits, KindFits, FactFits, VictimFits, Where,
     Present, Writers, Status
<1> QED BY <1>1, <1>2, <1>3, QuietStep
       DEF FactInv, TypeOK, FactFits, VictimFits, Where, Present, Writers, Status

LEMMA JudgeStep == ASSUME FactInv, NEW r \in Requests, Judge(r) PROVE FactInv'
<1> USE DEF Judge, storeVars, history, Requests, Goto
<1>1. TypeOK' /\ Alone(r)
  BY DEF FactInv, TypeOK, Phase, Status, Present, Alone
<1>2. TodoFits(r) /\ KindFits(r) /\ FactFits(r) /\ VictimFits(r)
  BY DEF FactInv, RequestsFit
<1>3. TodoFits(r)' /\ KindFits(r)' /\ FactFits(r)' /\ VictimFits(r)'
  BY <1>2, FactStoreAssumption DEF FactInv, TypeOK, TodoFits, KindFits, FactFits, VictimFits, Where,
     Present, Writers, Status
<1> QED BY <1>1, <1>2, <1>3, QuietStep
       DEF FactInv, TypeOK, FactFits, VictimFits, Where, Present, Writers, Status

LEMMA ChooseStep == ASSUME FactInv, NEW r \in Requests, Choose(r) PROVE FactInv'
<1> USE DEF Choose, storeVars, history, Requests, Goto, Returns, Fresh
<1>1. TypeOK' /\ Alone(r)
  BY DEF FactInv, TypeOK, Phase, Status, Present, Alone
<1>2. TodoFits(r) /\ KindFits(r) /\ FactFits(r) /\ VictimFits(r)
  BY DEF FactInv, RequestsFit
<1>3. TodoFits(r)' /\ KindFits(r)' /\ FactFits(r)' /\ VictimFits(r)'
  BY <1>2, FactStoreAssumption DEF FactInv, TypeOK, TodoFits, KindFits, FactFits, VictimFits, Where,
     Present, Writers, Status
<1> QED BY <1>1, <1>2, <1>3, QuietStep
       DEF FactInv, TypeOK, FactFits, VictimFits, Where, Present, Writers, Status

LEMMA ReadLoserStep == ASSUME FactInv, NEW r \in Requests, ReadLoser(r) PROVE FactInv'
<1> USE DEF storeVars, history
<1>1. TodoFits(r) /\ KindFits(r) /\ FactFits(r) /\ VictimFits(r)
      /\ at[r] = "loser" /\ Where(r) = "loser"
  BY DEF FactInv, RequestsFit, ReadLoser, Where
<1>2. r \in Patches /\ target[r] \in Facts /\ victim[r] = Nil
  BY <1>1 DEF KindFits, VictimFits
<1>3. /\ at'[r] \in {"heir", "done"} /\ Where(r)' = at'[r]
      /\ at'[r] = "heir" => target'[r] = target[r] /\ victim'[r] = target[r] /\ heir'[r] = heir[r]
      /\ at'[r] = "done" => victim'[r] = Nil
      /\ UNCHANGED <<storeVars, fact, copy, known, todo, history, crashes>>
  BY DEF ReadLoser, Goto, Returns, FactInv, TypeOK, Where
<1>4. TypeOK' /\ Alone(r)
  <2>1. at' \in [Requests -> Phase] /\ victim' \in [Requests -> Facts \cup {Nil}]
        /\ heir' \in [Requests -> Facts \cup {Nil}] /\ target' \in [Requests -> Facts \cup {Nil}]
    BY <1>2 DEF ReadLoser, Goto, Returns, FactInv, TypeOK, Phase
  <2>2. Alone(r)
    BY DEF ReadLoser, Goto, Returns, FactInv, TypeOK, Alone
  <2> QED BY <1>3, <2>1, <2>2 DEF FactInv, TypeOK
<1>5. TodoFits(r)' /\ KindFits(r)'
  BY <1>1, <1>2, <1>3 DEF TodoFits, KindFits, Writers
<1>6. FactFits(r)' /\ VictimFits(r)'
  BY <1>1, <1>2, <1>3 DEF FactFits, VictimFits
<1>7. purged = {} /\ r \in Writers /\ Where(r)' = "heir" => heir'[r] \in Present
  BY <1>1, <1>3 DEF FactInv, HeirStands
<1> QED BY <1>1, <1>2, <1>3, <1>4, <1>5, <1>6, <1>7, QuietStep

LEMMA ReadHeirStep == ASSUME FactInv, NEW r \in Requests, ReadHeir(r) PROVE FactInv'
<1> USE DEF ReadHeir, storeVars, history, Requests, Goto, Returns
<1>1. TypeOK' /\ Alone(r)
  BY DEF FactInv, TypeOK, Phase, Status, Present, Alone
<1>2. TodoFits(r) /\ KindFits(r) /\ FactFits(r) /\ VictimFits(r)
  BY DEF FactInv, RequestsFit
<1>3. TodoFits(r)' /\ KindFits(r)' /\ FactFits(r)' /\ VictimFits(r)'
  BY <1>2, FactStoreAssumption DEF FactInv, TypeOK, TodoFits, KindFits, FactFits, VictimFits, Where,
     Present, Writers, Status
<1> QED BY <1>1, <1>2, <1>3, QuietStep
       DEF FactInv, TypeOK, FactFits, VictimFits, Where, Present, Writers, Status, HeirStands

-----------------------------------------------------------------------------
(* A row is written and its index write is due: it is the only one, or the *)
(* fact is muddled.                                                        *)
LEMMA WriteIsDue ==
    ASSUME TypeOK, IndexFollows, NEW r \in Requests, todo[r] = NoWrite,
           NEW f \in Facts, NEW status \in Status \cup {"absent"}, NEW phase \in Phase,
           ThenIndex(r, f, status, phase),
           rows' = [rows EXCEPT ![f] = status], vectors' = vectors,
           r \in Archives => rows[f] # "absent"
    PROVE  /\ IndexFollows'
           /\ muddled' \subseteq Facts
           /\ todo' \in [Requests -> [fact : Facts \cup {Nil},
                                      status : Status \cup {"absent"}, next : Phase]]
           /\ todo'[r] = [fact |-> f, status |-> status, next |-> phase]
           /\ at'[r] = "index" /\ at' \in [Requests -> Phase]
           /\ \A q \in Requests \ {r} : at'[q] = at[q] /\ todo'[q] = todo[q]
<1> USE DEF ThenIndex, Goto
<1>1. /\ todo'[r] = [fact |-> f, status |-> status, next |-> phase]
      /\ \A q \in Requests \ {r} : todo'[q] = todo[q] /\ at'[q] = at[q]
      /\ at'[r] = "index" /\ at' \in [Requests -> Phase]
  BY DEF TypeOK, Phase
<1>2. muddled' \subseteq Facts /\ muddled \subseteq muddled'
      /\ (f \notin muddled' => \A q \in Requests \ {r} : todo[q].fact # f)
  BY DEF TypeOK
<1>3. todo' \in [Requests -> [fact : Facts \cup {Nil}, status : Status \cup {"absent"}, next : Phase]]
  BY DEF TypeOK
<1>4. todo[r].fact \notin Facts
  BY FactStoreAssumption DEF NoWrite
<1>5. ASSUME NEW g \in Facts \ muddled'
      PROVE  /\ \A q, p \in Due(g)' : q = p
             /\ \A q \in Due(g)' :
                  /\ todo'[q].status = rows'[g]
                  /\ q \in Archives => vectors'[g] # "absent"
             /\ Due(g)' = {} => vectors'[g] = rows'[g]
  <2>1. CASE g = f
    <3>1. Due(f) = {} /\ Due(f)' = {r}
      BY <1>1, <1>2, <1>4, <1>5, <2>1 DEF Due
    <3>2. vectors[f] = rows[f]
      BY <1>2, <1>5, <2>1, <3>1 DEF IndexFollows
    <3> QED BY <1>1, <2>1, <3>1, <3>2 DEF TypeOK
  <2>2. CASE g # f
    <3>1. Due(g)' = Due(g)
      BY <1>1, <1>4, <2>2 DEF Due
    <3>2. rows'[g] = rows[g] /\ \A q \in Due(g) : todo'[q] = todo[q]
      BY <1>1, <1>4, <2>2 DEF Due, TypeOK
    <3> QED BY <1>2, <3>1, <3>2 DEF IndexFollows
  <2> QED BY <2>1, <2>2
<1>6. IndexFollows'
  BY <1>5 DEF IndexFollows
<1> QED BY <1>1, <1>2, <1>3, <1>6

(* maintain() writes the row: a fact outranked on arrival becomes closed,  *)
(* a loser has its edge from a row by then.                                *)
LEMMA StoreStep == ASSUME FactInv, NEW r \in Requests, Store(r) PROVE FactInv'
<1> USE DEF FactInv
<1>1. TodoFits(r) /\ KindFits(r) /\ FactFits(r) /\ VictimFits(r)
      /\ at[r] = "store" /\ Where(r) = "store"
  BY DEF RequestsFit, Store, Where
<1>2. r \in Writers /\ fact[r] \in Facts /\ copy[r] \in Status /\ todo[r] = NoWrite
      /\ (victim[r] = Nil \/ (victim[r] \in Facts /\ heir[r] \in Facts))
      /\ (r \in Patches => target[r] \in Facts) /\ r \notin Archives
  BY <1>1, FactStoreAssumption DEF TodoFits, KindFits, FactFits, VictimFits
<1>3. /\ rows' = [rows EXCEPT ![fact[r]] = copy[r]]
      /\ reopened' = IF rows[fact[r]] \in Closed /\ copy[r] = "active"
                     THEN reopened \cup {fact[r]} ELSE reopened
      /\ ThenIndex(r, fact[r], copy[r], AfterIngest(r))
      /\ fact' = [fact EXCEPT ![r] = Nil] /\ copy' = [copy EXCEPT ![r] = "absent"]
      /\ victim' = [victim EXCEPT ![r] = Nil] /\ heir' = [heir EXCEPT ![r] = Nil]
      /\ UNCHANGED <<edges, vectors, target, known, purged, cut, crashes>>
  BY DEF Store, StatusOf
<1>4. AfterIngest(r) \in {"choose", "done"} /\ (AfterIngest(r) = "choose" => r \in Patches)
  BY DEF AfterIngest
<1>5. /\ IndexFollows' /\ muddled' \subseteq Facts
      /\ todo' \in [Requests -> [fact : Facts \cup {Nil},
                                 status : Status \cup {"absent"}, next : Phase]]
      /\ todo'[r] = [fact |-> fact[r], status |-> copy[r], next |-> AfterIngest(r)]
      /\ at'[r] = "index" /\ at' \in [Requests -> Phase]
      /\ \A q \in Requests \ {r} : at'[q] = at[q] /\ todo'[q] = todo[q]
  <2>1. AfterIngest(r) \in Phase /\ copy[r] \in Status \cup {"absent"}
    BY <1>2, <1>4 DEF Phase
  <2>2. vectors' = vectors
    BY <1>3
  <2> HIDE DEF FactInv
  <2>3. TypeOK /\ IndexFollows
    BY DEF FactInv
  <2> QED BY <1>2, <1>3, <2>1, <2>2, <2>3, WriteIsDue
<1>6. TypeOK' /\ Alone(r)
  <2>1. /\ rows' \in [Facts -> Status \cup {"absent"}] /\ reopened' \subseteq Facts
        /\ fact' \in [Requests -> Facts \cup {Nil}] /\ victim' \in [Requests -> Facts \cup {Nil}]
        /\ copy' \in [Requests -> Status \cup {"absent"}] /\ heir' \in [Requests -> Facts \cup {Nil}]
    BY <1>2, <1>3 DEF TypeOK
  <2>2. Alone(r)
    BY <1>3, <1>5 DEF Alone, TypeOK
  <2> QED BY <1>3, <1>5, <2>1, <2>2 DEF TypeOK
<1>7. /\ Where(r)' = AfterIngest(r) /\ fact'[r] = Nil /\ copy'[r] = "absent"
      /\ victim'[r] = Nil /\ target'[r] = target[r]
  BY <1>3, <1>5 DEF Where, TypeOK
<1>8. RequestsFit'
  <2>1. TodoFits(r)' /\ KindFits(r)' /\ FactFits(r)' /\ VictimFits(r)'
    BY <1>2, <1>4, <1>5, <1>7 DEF TodoFits, KindFits, FactFits, VictimFits
  <2> QED BY <1>6, <2>1, RequestsStayFit
<1>9. Present' = Present \cup {fact[r]} /\ edges' = edges /\ purged' = purged /\ cut' = cut
  BY <1>2, <1>3 DEF Present, Status, TypeOK
<1>10. HeirStands'
  BY <1>4, <1>6, <1>7, <1>9, HeirsStayStanding
<1>11. SupersededIsExplained'
  <2>1. \A l \in Facts : r \in Writers /\ victim[r] = l /\ at[r] # "done" => Explained(l)'
    BY <1>1, <1>2, <1>9, FactStoreAssumption DEF HeirStands, Explained
  <2>2. \A l \in Facts \ cut : rows'[l] = "superseded" =>
          rows[l] = "superseded" \/ (r \in Writers /\ fact[r] = l /\ copy[r] = "superseded")
             \/ Explained(l)'
    BY <1>2, <1>3 DEF TypeOK
  <2>3. \A l \in Facts : fact'[r] # l
    BY <1>7, FactStoreAssumption
  <2> QED BY <1>6, <1>9, <2>1, <2>2, <2>3, ExplanationsLast
<1>12. \A l \in Facts : Excused(l) => Excused(l)'
  <2> SUFFICES ASSUME NEW l \in Facts, Excused(l) PROVE Excused(l)'
    OBVIOUS
  <2>1. CASE l # fact[r]
    BY <1>3, <1>9, <2>1 DEF Excused, TypeOK
  <2>2. CASE l = fact[r]
    <3>1. rows'[l] = copy[r]
      BY <1>3, <2>2 DEF TypeOK
    <3>2. CASE copy[r] \in Closed
      BY <3>1, <3>2 DEF Excused
    <3>3. CASE copy[r] = "active"
      BY <1>3, <1>9, <2>2, <3>3 DEF Excused
    <3> QED BY <1>2, <3>2, <3>3 DEF Status, Closed
  <2> QED BY <2>1, <2>2
<1>13. EdgesPointAtClosed'
  <2> SUFFICES ASSUME NEW e \in edges, ~Excused(e[2])'
               PROVE  \E q \in Writers : at'[q] = "store" /\ fact'[q] = e[2] /\ copy'[q] = "superseded"
    BY <1>9 DEF EdgesPointAtClosed
  <2>1. e[2] \in Facts
    BY DEF TypeOK
  <2>2. PICK q \in Writers : at[q] = "store" /\ fact[q] = e[2] /\ copy[q] = "superseded"
    BY <1>12, <2>1 DEF EdgesPointAtClosed
  <2>3. q # r
    <3>1. ASSUME q = r PROVE Excused(e[2])'
      BY <1>3, <2>1, <2>2, <3>1 DEF Excused, Closed, TypeOK
    <3> QED BY <3>1
  <2> QED BY <1>6, <2>2, <2>3 DEF Alone, Requests
<1>14. VictimsAreClosed'
  BY <1>4, <1>6, <1>7, <1>12, VictimsStayClosed
<1> QED BY <1>5, <1>6, <1>8, <1>10, <1>11, <1>13, <1>14

(* The victim is closed: whoever closes it is still at it.                 *)
LEMMA CloseStep == ASSUME FactInv, NEW r \in Requests, Close(r) PROVE FactInv'
<1> USE DEF FactInv
<1> DEFINE next == IF at[r] = "close" THEN "edge" ELSE "patchedge"
<1>1. TodoFits(r) /\ KindFits(r) /\ FactFits(r) /\ VictimFits(r)
      /\ at[r] \in {"close", "patchclose"} /\ Where(r) = at[r]
  BY DEF RequestsFit, Close, Where
<1>2. /\ r \in Writers /\ victim[r] \in Facts /\ heir[r] \in Facts /\ todo[r] = NoWrite
      /\ (r \in Patches => target[r] \in Facts) /\ r \notin Archives
      /\ (at[r] = "patchclose" => r \in Patches)
      /\ IF at[r] = "close" THEN fact[r] \in Facts /\ copy[r] \in Status
         ELSE fact[r] = Nil /\ copy[r] = "absent"
  BY <1>1, FactStoreAssumption DEF TodoFits, KindFits, FactFits, VictimFits
<1>3. /\ rows' = [rows EXCEPT ![victim[r]] = "superseded"]
      /\ ThenIndex(r, victim[r], "superseded", next)
      /\ UNCHANGED <<edges, vectors, target, fact, copy, victim, heir, known,
                     purged, reopened, cut, crashes>>
  BY DEF Close
<1>4. next \in {"edge", "patchedge"} /\ next \in Phase /\ "superseded" \in Status \cup {"absent"}
      /\ (at[r] = "close" <=> next = "edge") /\ (at[r] = "patchclose" <=> next = "patchedge")
  BY <1>1 DEF Phase, Status
<1> HIDE DEF next
<1>5. /\ IndexFollows' /\ muddled' \subseteq Facts
      /\ todo' \in [Requests -> [fact : Facts \cup {Nil},
                                 status : Status \cup {"absent"}, next : Phase]]
      /\ todo'[r] = [fact |-> victim[r], status |-> "superseded", next |-> next]
      /\ at'[r] = "index" /\ at' \in [Requests -> Phase]
      /\ \A q \in Requests \ {r} : at'[q] = at[q] /\ todo'[q] = todo[q]
  <2> HIDE DEF FactInv
  <2>1. TypeOK /\ IndexFollows /\ vectors' = vectors
    BY <1>3 DEF FactInv
  <2> QED BY <1>2, <1>3, <1>4, <2>1, WriteIsDue
<1>6. TypeOK' /\ Alone(r)
  <2>1. rows' \in [Facts -> Status \cup {"absent"}]
    BY <1>2, <1>3, <1>4 DEF TypeOK
  <2>2. Alone(r)
    BY <1>3, <1>5 DEF Alone
  <2> QED BY <1>3, <1>5, <2>1, <2>2 DEF TypeOK
<1>7. /\ Where(r)' = next /\ fact'[r] = fact[r] /\ copy'[r] = copy[r]
      /\ victim'[r] = victim[r] /\ heir'[r] = heir[r] /\ target'[r] = target[r]
  BY <1>3, <1>5 DEF Where
<1>8. RequestsFit'
  <2>1. TodoFits(r)' /\ KindFits(r)'
    BY <1>2, <1>4, <1>5, <1>7 DEF TodoFits, KindFits
  <2>2. FactFits(r)' /\ VictimFits(r)'
    BY <1>1, <1>2, <1>4, <1>7 DEF FactFits, VictimFits
  <2> QED BY <1>6, <2>1, <2>2, RequestsStayFit
<1>9. /\ Present' = Present \cup {victim[r]} /\ edges' = edges /\ purged' = purged
      /\ cut' = cut /\ reopened' = reopened
  BY <1>2, <1>3 DEF Present, TypeOK
<1>10. HeirStands'
  <2>1. purged' = {} /\ r \in Writers =>
          /\ Where(r)' \in {"close", "edge"} => heir'[r] = fact'[r] \/ heir'[r] \in Present'
          /\ Where(r)' # "store"
          /\ Where(r)' \in {"loser", "heir", "patchclose", "patchedge"} => heir'[r] \in Present'
    BY <1>1, <1>4, <1>7, <1>9 DEF HeirStands
  <2> QED BY <1>6, <1>9, <2>1, HeirsStayStanding
<1>11. Explained(victim[r])'
  BY <1>2, <1>5, <1>7 DEF Explained
<1>12. SupersededIsExplained'
  <2>1. \A l \in Facts : l = victim[r] => Explained(l)'
    BY <1>2, <1>5, <1>7 DEF Explained
  <2>2. \A l \in Facts : rows'[l] = "superseded" => rows[l] = "superseded" \/ l = victim[r]
    BY <1>3 DEF TypeOK
  <2> QED BY <1>6, <1>7, <1>9, <2>1, <2>2, ExplanationsLast
<1>13. /\ \A l \in Facts : Excused(l) => Excused(l)'
       /\ Excused(victim[r])'
  BY <1>2, <1>3 DEF Excused, TypeOK, Closed
<1>14. EdgesPointAtClosed'
  BY <1>1, <1>6, <1>9, <1>13, ExcusesLast DEF TypeOK
<1>15. VictimsAreClosed'
  BY <1>6, <1>13, VictimsStayClosed
<1> QED BY <1>5, <1>6, <1>8, <1>10, <1>12, <1>14, <1>15

(* The edge is written, and update_memory is answered.                     *)
LEMMA WriteEdgeStep == ASSUME FactInv, NEW r \in Requests, WriteEdge(r) PROVE FactInv'
<1> USE DEF FactInv
<1>1. TodoFits(r) /\ KindFits(r) /\ FactFits(r) /\ VictimFits(r)
      /\ at[r] \in {"edge", "patchedge"} /\ Where(r) = at[r]
  BY DEF RequestsFit, WriteEdge, Where
<1>2. /\ r \in Writers /\ victim[r] \in Facts /\ heir[r] \in Facts /\ todo[r] = NoWrite
      /\ (r \in Patches => target[r] \in Facts)
      /\ IF at[r] = "edge" THEN fact[r] \in Facts /\ copy[r] \in Status
         ELSE fact[r] = Nil /\ copy[r] = "absent"
  BY <1>1 DEF TodoFits, KindFits, FactFits, VictimFits
<1>3. /\ edges' = edges \cup {<<heir[r], victim[r]>>}
      /\ UNCHANGED <<rows, vectors, fact, copy, known, todo, purged, reopened, muddled, cut, crashes>>
  BY DEF WriteEdge, EdgeOf, history
<1>4. \/ /\ at[r] = "edge" /\ at' = [at EXCEPT ![r] = "store"]
         /\ UNCHANGED <<target, victim, heir>>
      \/ /\ at[r] = "patchedge" /\ at' = [at EXCEPT ![r] = "done"]
         /\ target' = [target EXCEPT ![r] = Nil]
         /\ victim' = [victim EXCEPT ![r] = Nil] /\ heir' = [heir EXCEPT ![r] = Nil]
  BY <1>1 DEF WriteEdge, Goto, Returns
<1>5. TypeOK' /\ Alone(r)
  <2>1. at' \in [Requests -> Phase] /\ victim' \in [Requests -> Facts \cup {Nil}]
        /\ heir' \in [Requests -> Facts \cup {Nil}] /\ target' \in [Requests -> Facts \cup {Nil}]
    <3>1. CASE at[r] = "edge"
      BY <1>4, <3>1 DEF TypeOK, Phase
    <3>2. CASE at[r] = "patchedge"
      BY <1>4, <3>2 DEF TypeOK, Phase
    <3> QED BY <1>1, <3>1, <3>2
  <2>3. edges' \subseteq Facts \X Facts
    BY <1>2, <1>3 DEF TypeOK
  <2>2. Alone(r)
    BY <1>3, <1>4 DEF Alone, TypeOK
  <2> QED BY <1>3, <2>1, <2>2, <2>3 DEF TypeOK
<1>6. /\ Where(r)' = at'[r] /\ fact'[r] = fact[r] /\ copy'[r] = copy[r]
      /\ at[r] = "edge" => at'[r] = "store" /\ victim'[r] = victim[r] /\ heir'[r] = heir[r]
                            /\ target'[r] = target[r]
      /\ at[r] = "patchedge" => at'[r] = "done" /\ victim'[r] = Nil
  BY <1>3, <1>4 DEF Where, TypeOK
<1>7. RequestsFit'
  <2>1. TodoFits(r)' /\ KindFits(r)'
    BY <1>1, <1>2, <1>3, <1>6 DEF TodoFits, KindFits
  <2>2. FactFits(r)' /\ VictimFits(r)'
    BY <1>1, <1>2, <1>6 DEF FactFits, VictimFits
  <2> QED BY <1>5, <2>1, <2>2, RequestsStayFit
<1>8. /\ Present' = Present /\ edges \subseteq edges' /\ purged' = purged
      /\ cut' = cut /\ reopened' = reopened /\ \A l : Excused(l)' = Excused(l)
  BY <1>3 DEF Present, Excused
<1>9. purged = {} => heir[r] = fact[r] \/ heir[r] \in Present
  BY <1>1, <1>2 DEF HeirStands
<1>10. HeirStands'
  <2>1. purged' = {} /\ r \in Writers =>
          /\ Where(r)' \in {"store", "done"}
          /\ Where(r)' = "store" /\ victim'[r] # Nil =>
              /\ <<heir'[r], victim'[r]>> \in edges'
              /\ heir'[r] = fact'[r] \/ heir'[r] \in Present'
    BY <1>1, <1>3, <1>6, <1>8, <1>9
  <2> QED BY <1>5, <1>8, <2>1, HeirsStayStanding
<1>11. SupersededIsExplained'
  <2>1. \A l \in Facts : r \in Writers /\ victim[r] = l /\ at[r] # "done" => Explained(l)'
    <3>1. CASE at[r] = "edge"
      BY <1>2, <1>6, <3>1 DEF Explained
    <3>2. CASE at[r] = "patchedge"
      <4>1. purged = {} => heir[r] \in Present
        BY <1>1, <1>2, <3>2 DEF HeirStands
      <4> QED BY <1>3, <1>8, <4>1 DEF Explained
    <3> QED BY <1>1, <3>1, <3>2
  <2> QED BY <1>3, <1>5, <1>6, <1>8, <2>1, ExplanationsLast
<1>12. Excused(victim[r]) \/ (victim[r] = fact[r] /\ copy[r] = "superseded")
  BY <1>1, <1>2 DEF VictimsAreClosed
<1>13. EdgesPointAtClosed'
  <2>1. ASSUME NEW e \in edges', e \notin edges
        PROVE  Excused(e[2]) \/ (r \in Writers /\ at'[r] = "store" /\ fact'[r] = e[2]
                                 /\ copy'[r] = "superseded")
    <3>1. e[2] = victim[r]
      BY <1>3, <2>1
    <3>2. CASE at[r] = "edge"
      BY <1>2, <1>6, <1>12, <3>1, <3>2
    <3>3. CASE at[r] = "patchedge"
      BY <1>2, <1>12, <3>1, <3>3
    <3> QED BY <1>1, <3>2, <3>3
  <2> QED BY <1>1, <1>5, <1>8, <2>1, ExcusesLast DEF TypeOK
<1>14. VictimsAreClosed'
  BY <1>1, <1>5, <1>6, <1>8, VictimsStayClosed
<1>15. IndexFollows'
  BY <1>3 DEF IndexFollows, Due
<1> QED BY <1>5, <1>7, <1>10, <1>11, <1>13, <1>14, <1>15

-----------------------------------------------------------------------------
(* DELETE closes or erases a row whatever a writer is doing with it.       *)
LEMMA OutsiderWrites ==
    ASSUME FactInv, NEW r \in Requests, r \notin Writers, at[r] = "idle",
           NEW f \in Facts, rows[f] # "absent", NEW status \in {"archived", "absent"},
           rows' = [rows EXCEPT ![f] = status], ThenIndex(r, f, status, "done"),
           \/ status = "archived" /\ edges' = edges /\ purged' = purged
           \/ status = "absent" /\ edges' \subseteq edges /\ purged' = purged \cup {f},
           UNCHANGED <<vectors, target, fact, copy, victim, heir, known, reopened, cut, crashes>>
    PROVE  FactInv'
<1>1. TodoFits(r) /\ KindFits(r) /\ FactFits(r) /\ VictimFits(r) /\ Where(r) = "idle"
  BY DEF FactInv, RequestsFit, Where
<1>2. todo[r] = NoWrite /\ fact[r] = Nil /\ copy[r] = "absent" /\ victim[r] = Nil
  BY <1>1 DEF TodoFits, FactFits, VictimFits
<1>3. r \notin Patches /\ status \in Status \cup {"absent"} /\ "done" \in Phase
  BY DEF Writers, Status, Phase
<1>4. /\ IndexFollows' /\ muddled' \subseteq Facts
      /\ todo' \in [Requests -> [fact : Facts \cup {Nil},
                                 status : Status \cup {"absent"}, next : Phase]]
      /\ todo'[r] = [fact |-> f, status |-> status, next |-> "done"]
      /\ at'[r] = "index" /\ at' \in [Requests -> Phase]
      /\ \A q \in Requests \ {r} : at'[q] = at[q] /\ todo'[q] = todo[q]
  <2>1. TypeOK /\ IndexFollows /\ vectors' = vectors
    BY DEF FactInv
  <2> QED BY <1>2, <1>3, <2>1, WriteIsDue
<1>5. TypeOK' /\ Alone(r)
  <2>1. /\ rows' \in [Facts -> Status \cup {"absent"}]
        /\ edges' \subseteq Facts \X Facts /\ purged' \subseteq Facts
    BY <1>3 DEF FactInv, TypeOK
  <2> QED BY <1>4, <2>1 DEF FactInv, TypeOK, Alone
<1>6. Where(r)' = "done" /\ fact'[r] = Nil /\ copy'[r] = "absent" /\ victim'[r] = Nil
  BY <1>2, <1>4 DEF Where
<1>7. RequestsFit'
  <2>1. TodoFits(r)' /\ KindFits(r)' /\ FactFits(r)' /\ VictimFits(r)'
    BY <1>3, <1>4, <1>6 DEF TodoFits, KindFits, FactFits, VictimFits
  <2> QED BY <1>5, <2>1, RequestsStayFit DEF FactInv
<1>8. /\ purged' = {} => purged = {} /\ Present \subseteq Present' /\ edges \subseteq edges'
      /\ edges' \subseteq edges /\ cut' = cut
      /\ \A l \in Facts : rows'[l] = "superseded" => rows[l] = "superseded"
  BY DEF FactInv, TypeOK, Present
<1>9. HeirStands'
  BY <1>5, <1>8, HeirsStayStanding DEF FactInv
<1>10. SupersededIsExplained'
  BY <1>5, <1>8, ExplanationsLast DEF FactInv
<1>11. \A l \in Facts : Excused(l) => Excused(l)'
  BY DEF FactInv, TypeOK, Excused, Closed
<1>12. EdgesPointAtClosed'
  <2>1. \A e \in edges' : e \in edges
    BY <1>8
  <2> QED BY <1>5, <1>11, <2>1, ExcusesLast DEF FactInv, TypeOK
<1>13. VictimsAreClosed'
  BY <1>5, <1>11, VictimsStayClosed DEF FactInv
<1> QED BY <1>4, <1>5, <1>7, <1>9, <1>10, <1>12, <1>13 DEF FactInv

(* A DELETE of a fact that is not there, or closed already, changes nothing. *)
LEMMA NothingToDelete ==
    ASSUME FactInv, NEW r \in Requests, r \notin Writers, at[r] = "idle", Goto(r, "done"),
           UNCHANGED <<storeVars, target, fact, copy, victim, heir, known, todo, history, crashes>>
    PROVE  FactInv'
<1>1. TodoFits(r) /\ KindFits(r) /\ FactFits(r) /\ VictimFits(r) /\ Where(r) = "idle"
  BY DEF FactInv, RequestsFit, Where
<1>2. at' \in [Requests -> Phase] /\ at'[r] = "done" /\ Where(r)' = "done" /\ Alone(r)
  BY DEF FactInv, TypeOK, Goto, Phase, Where, Alone
<1>3. TypeOK'
  BY <1>2 DEF FactInv, TypeOK, storeVars, history
<1>4. TodoFits(r)' /\ KindFits(r)' /\ FactFits(r)' /\ VictimFits(r)'
  BY <1>1, <1>2 DEF TodoFits, KindFits, FactFits, VictimFits, Writers
<1> QED BY <1>2, <1>3, <1>4, QuietStep

LEMMA ArchiveStep == ASSUME FactInv, NEW r \in Requests, Archive(r) PROVE FactInv'
<1>1. r \notin Writers /\ at[r] = "idle"
  BY FactStoreAssumption DEF Archive
<1>2. PICK f \in Facts :
        \/ /\ Goto(r, "done")
           /\ UNCHANGED <<rows, todo, muddled>>
        \/ /\ rows[f] # "absent"
           /\ rows' = [rows EXCEPT ![f] = "archived"]
           /\ ThenIndex(r, f, "archived", "done")
  BY DEF Archive
<1>3. UNCHANGED <<edges, vectors, target, fact, copy, victim, heir, known,
                  purged, reopened, cut, crashes>>
  BY DEF Archive
<1>4. CASE Goto(r, "done") /\ UNCHANGED <<rows, todo, muddled>>
  BY <1>1, <1>3, <1>4, NothingToDelete DEF storeVars, history
<1>5. CASE rows[f] # "absent" /\ rows' = [rows EXCEPT ![f] = "archived"]
           /\ ThenIndex(r, f, "archived", "done")
  BY <1>1, <1>3, <1>5, OutsiderWrites
<1> QED BY <1>2, <1>4, <1>5

LEMMA PurgeStep == ASSUME FactInv, NEW r \in Requests, Purge(r) PROVE FactInv'
<1>1. r \notin Writers /\ at[r] = "idle"
  BY FactStoreAssumption DEF Purge
<1>2. PICK f \in Facts :
        \/ /\ Goto(r, "done")
           /\ UNCHANGED <<rows, edges, todo, purged, muddled>>
        \/ /\ rows[f] # "absent"
           /\ rows' = [rows EXCEPT ![f] = "absent"]
           /\ edges' = edges \ Touching(f)
           /\ purged' = purged \cup {f}
           /\ ThenIndex(r, f, "absent", "done")
  BY DEF Purge
<1>3. UNCHANGED <<vectors, target, fact, copy, victim, heir, known, reopened, cut, crashes>>
  BY DEF Purge
<1>4. CASE Goto(r, "done") /\ UNCHANGED <<rows, edges, todo, purged, muddled>>
  BY <1>1, <1>3, <1>4, NothingToDelete DEF storeVars, history
<1>5. CASE /\ rows[f] # "absent" /\ rows' = [rows EXCEPT ![f] = "absent"]
           /\ edges' = edges \ Touching(f) /\ purged' = purged \cup {f}
           /\ ThenIndex(r, f, "absent", "done")
  <2>1. edges' \subseteq edges
    BY <1>5
  <2> QED BY <1>1, <1>3, <1>5, <2>1, OutsiderWrites
<1> QED BY <1>2, <1>4, <1>5

(* The index write that was due is done or fails: only the index changes.  *)
LEMMA IndexStep == ASSUME FactInv, NEW r \in Requests, Index(r) PROVE FactInv'
<1>0. PICK f : f = todo[r].fact
  OBVIOUS
<1>1. TodoFits(r) /\ KindFits(r) /\ FactFits(r) /\ VictimFits(r) /\ at[r] = "index"
  BY DEF FactInv, RequestsFit, Index
<1>2. /\ f \in Facts /\ todo[r].next \in {"edge", "patchedge", "choose", "done"}
      /\ todo[r].status \in Status \cup {"absent"} /\ Where(r) = todo[r].next
  BY <1>0, <1>1 DEF FactInv, TypeOK, TodoFits, Where
<1>3. /\ UNCHANGED <<rows, edges, target, fact, copy, victim, heir, known,
                     purged, reopened, cut, crashes>>
      /\ todo' = [todo EXCEPT ![r] = NoWrite] /\ at' = [at EXCEPT ![r] = todo[r].next]
      /\ \/ muddled' = muddled /\ vectors' = IF Skips(r) THEN vectors
                               ELSE [vectors EXCEPT ![f] = todo[r].status]
         \/ muddled' = muddled \cup {f} /\ vectors' = vectors
  BY <1>0 DEF Index, Goto
<1>4. TypeOK' /\ Alone(r)
  <2>1. todo' \in [Requests -> [fact : Facts \cup {Nil},
                                status : Status \cup {"absent"}, next : Phase]]
    <3>1. NoWrite \in [fact : Facts \cup {Nil}, status : Status \cup {"absent"}, next : Phase]
      BY DEF NoWrite, Phase
    <3> QED BY <1>3, <3>1 DEF FactInv, TypeOK
  <2>2. at' \in [Requests -> Phase]
    BY <1>2, <1>3 DEF FactInv, TypeOK, Phase
  <2>3. vectors' \in [Facts -> Status \cup {"absent"}] /\ muddled' \subseteq Facts
    BY <1>2, <1>3 DEF FactInv, TypeOK
  <2>4. Alone(r)
    BY <1>3 DEF FactInv, TypeOK, Alone
  <2> QED BY <1>3, <2>1, <2>2, <2>3, <2>4 DEF FactInv, TypeOK
<1>5. /\ at'[r] = todo[r].next /\ Where(r)' = Where(r) /\ todo'[r] = NoWrite
      /\ target'[r] = target[r] /\ fact'[r] = fact[r] /\ copy'[r] = copy[r]
      /\ victim'[r] = victim[r] /\ heir'[r] = heir[r]
  BY <1>2, <1>3 DEF FactInv, TypeOK, Where
<1>6. RequestsFit'
  <2>1. TodoFits(r)' /\ KindFits(r)' /\ FactFits(r)' /\ VictimFits(r)'
    BY <1>1, <1>2, <1>5 DEF TodoFits, KindFits, FactFits, VictimFits
  <2> QED BY <1>4, <2>1, RequestsStayFit DEF FactInv
<1>7. Present' = Present /\ \A l : Excused(l)' = Excused(l)
  BY <1>3 DEF Present, Excused
<1>8. HeirStands'
  <2>1. purged' = {} /\ r \in Writers =>
          /\ Where(r)' \in {"close", "edge"} => heir'[r] = fact'[r] \/ heir'[r] \in Present'
          /\ Where(r)' # "store"
          /\ Where(r)' \in {"loser", "heir", "patchclose", "patchedge"} => heir'[r] \in Present'
    BY <1>2, <1>3, <1>5, <1>7 DEF FactInv, HeirStands
  <2> QED BY <1>3, <1>4, <1>7, <2>1, HeirsStayStanding DEF FactInv
<1>9. SupersededIsExplained'
  <2>1. ASSUME NEW l \in Facts, r \in Writers, victim[r] = l PROVE Explained(l)'
    <3>1. todo[r].next # "done"
      BY <1>1, <1>2, <2>1, FactStoreAssumption DEF VictimFits
    <3> QED BY <1>5, <2>1, <3>1 DEF Explained
  <2> QED BY <1>3, <1>4, <1>5, <1>7, <2>1, ExplanationsLast DEF FactInv
<1>10. EdgesPointAtClosed'
  BY <1>1, <1>3, <1>4, <1>7, ExcusesLast DEF FactInv, TypeOK
<1>11. VictimsAreClosed'
  <2>1. r \in Writers /\ Where(r)' \in {"edge", "patchedge"} =>
          Excused(victim[r])' \/ (victim'[r] = fact'[r] /\ copy'[r] = "superseded")
    <3>1. Excused(victim[r])' = Excused(victim[r])
      BY <1>3 DEF Excused
    <3> QED BY <1>5, <3>1 DEF FactInv, VictimsAreClosed
  <2> QED BY <1>4, <1>7, <2>1, VictimsStayClosed DEF FactInv
<1>12. ASSUME NEW g \in Facts \ muddled'
       PROVE  /\ \A q, p \in Due(g)' : q = p
              /\ \A q \in Due(g)' :
                   /\ todo'[q].status = rows'[g]
                   /\ q \in Archives => vectors'[g] # "absent"
              /\ Due(g)' = {} => vectors'[g] = rows'[g]
  <2>1. g \in Facts \ muddled
    BY <1>3
  <2>2. CASE g = f
    <3>1. Due(f) = {r}
      BY <1>0, <2>1, <2>2 DEF Due, FactInv, IndexFollows
    <3>2. Due(g)' = {}
      BY <1>2, <1>4, <1>5, <2>2, <3>1, FactStoreAssumption DEF Alone, Due, NoWrite
    <3>3. todo[r].status = rows[f] /\ ~Skips(r)
      BY <1>0, <2>1, <2>2, <3>1 DEF Skips, FactInv, IndexFollows
    <3>4. vectors' = [vectors EXCEPT ![f] = todo[r].status]
      BY <1>3, <1>12, <2>2, <3>3
    <3> QED BY <1>2, <1>3, <2>2, <3>2, <3>3, <3>4 DEF FactInv, TypeOK
  <2>3. CASE g # f
    <3>1. Due(g)' = Due(g) /\ \A q \in Due(g) : todo'[q] = todo[q]
      BY <1>0, <1>3, <1>5, <2>1, <2>3, FactStoreAssumption DEF Due, NoWrite, FactInv, TypeOK
    <3>2. vectors'[g] = vectors[g] /\ rows'[g] = rows[g]
      BY <1>3, <2>3 DEF FactInv, TypeOK
    <3> QED BY <2>1, <3>1, <3>2 DEF FactInv, IndexFollows
  <2> QED BY <2>2, <2>3
<1>13. IndexFollows'
  BY <1>12 DEF IndexFollows
<1> QED BY <1>4, <1>6, <1>8, <1>9, <1>10, <1>11, <1>13 DEF FactInv

(* Everybody's locals go; what they were at is cut, what was due muddled.  *)
LEMMA CrashStep == ASSUME FactInv, Crash PROVE FactInv'
<1>1. /\ UNCHANGED <<rows, edges, vectors, purged, reopened>>
      /\ at' = [r \in Requests |-> IF at[r] = "idle" THEN "idle" ELSE "done"]
      /\ todo' = [r \in Requests |-> NoWrite]
      /\ muddled' = muddled \cup ({todo[r].fact : r \in Requests} \ {Nil})
      /\ target' = [r \in Requests |-> Nil] /\ fact' = [r \in Requests |-> Nil]
      /\ copy' = [r \in Requests |-> "absent"]
      /\ victim' = [r \in Requests |-> Nil] /\ heir' = [r \in Requests |-> Nil]
      /\ known' = [r \in Requests |-> {}]
  BY DEF Crash, storeVars
<1>10. cut' = cut \cup {f \in Facts : \E r \in Requests :
                          at[r] # "done" /\ f \in {victim[r], fact[r]}}
  BY DEF Crash
<1>2. /\ \A r \in Requests : todo[r].fact # Nil => todo[r].fact \in muddled'
      /\ \A r \in Requests : at[r] # "done" =>
            /\ victim[r] # Nil => victim[r] \in cut'
            /\ fact[r] # Nil => fact[r] \in cut'
      /\ muddled \subseteq muddled' /\ cut \subseteq cut'
  <2>1. \A r \in Requests : todo[r].fact # Nil => todo[r].fact \in muddled'
    BY <1>1
  <2>2. \A r \in Requests : {victim[r], fact[r]} \subseteq Facts \cup {Nil}
    BY DEF FactInv, TypeOK
  <2> QED BY <1>10, <1>1, <2>1, <2>2
<1>3. TypeOK'
  <2>1. NoWrite \in [fact : Facts \cup {Nil}, status : Status \cup {"absent"}, next : Phase]
    BY DEF NoWrite, Phase
  <2>2. at' \in [Requests -> Phase]
    BY <1>1 DEF Phase
  <2>3. muddled' \subseteq Facts
    BY <1>1 DEF FactInv, TypeOK
  <2>4. cut' \subseteq Facts
    BY <1>10 DEF FactInv, TypeOK
  <2> QED BY <1>1, <2>1, <2>2, <2>3, <2>4 DEF FactInv, TypeOK
<1>4. \A r \in Requests :
        /\ Where(r)' = at'[r] /\ at'[r] \in {"idle", "done"} /\ todo'[r] = NoWrite
        /\ fact'[r] = Nil /\ copy'[r] = "absent" /\ victim'[r] = Nil
  BY <1>1 DEF Where
<1>5. RequestsFit'
  BY <1>4 DEF RequestsFit, TodoFits, KindFits, FactFits, VictimFits
<1>6. HeirStands' /\ VictimsAreClosed'
  BY <1>4 DEF HeirStands, VictimsAreClosed, Requests
<1>7. SupersededIsExplained'
  <2>1. ASSUME NEW l \in Facts \ cut', rows'[l] = "superseded" PROVE Explained(l)'
    <3>1. Explained(l)
      BY <1>1, <1>2, <2>1 DEF FactInv, SupersededIsExplained
    <3>2. ~\E r \in Writers : victim[r] = l /\ at[r] # "done"
      BY <1>2, <2>1, FactStoreAssumption DEF Requests
    <3> QED BY <1>1, <3>1, <3>2 DEF Explained, Present
  <2>2. \A r \in Writers : copy'[r] # "superseded"
    BY <1>4 DEF Requests
  <2> QED BY <2>1, <2>2 DEF SupersededIsExplained
<1>8. EdgesPointAtClosed'
  <2> SUFFICES ASSUME NEW e \in edges PROVE Excused(e[2])'
    BY <1>1 DEF EdgesPointAtClosed
  <2>1. e[2] \in Facts
    BY DEF FactInv, TypeOK
  <2>2. CASE Excused(e[2])
    BY <1>1, <1>2, <2>2 DEF Excused
  <2>3. CASE \E r \in Writers : at[r] = "store" /\ fact[r] = e[2]
    <3>1. e[2] \in cut'
      BY <1>2, <2>1, <2>3, FactStoreAssumption DEF Requests
    <3> QED BY <3>1 DEF Excused
  <2> QED BY <2>2, <2>3 DEF FactInv, EdgesPointAtClosed
<1>9. IndexFollows'
  <2>1. ASSUME NEW g \in Facts \ muddled' PROVE Due(g)' = {} /\ vectors'[g] = rows'[g]
    <3>1. Due(g) = {}
      BY <1>2, <2>1, FactStoreAssumption DEF Due
    <3>2. Due(g)' = {}
      BY <1>1, FactStoreAssumption DEF Due, NoWrite
    <3> QED BY <1>1, <1>2, <2>1, <3>1, <3>2 DEF FactInv, IndexFollows
  <2> QED BY <2>1 DEF IndexFollows
<1> QED BY <1>3, <1>5, <1>6, <1>7, <1>8, <1>9 DEF FactInv

-----------------------------------------------------------------------------
LEMMA NextFacts == ASSUME FactInv, [Next]_vars PROVE FactInv'
<1>1. CASE UNCHANGED vars
  <2>1. /\ UNCHANGED <<rows, edges, vectors>>
        /\ UNCHANGED <<at, target, fact, copy, victim, heir, known, todo>>
        /\ UNCHANGED <<purged, reopened, muddled, cut>>
    BY <1>1 DEF vars, storeVars, requestVars, history
  <2>2. TypeOK'
    BY <2>1 DEF FactInv, TypeOK
  <2>3. RequestsFit'
    BY <2>1 DEF FactInv, RequestsFit, TodoFits, KindFits, FactFits, VictimFits, Where
  <2>4. HeirStands' /\ SupersededIsExplained'
    BY <2>1 DEF FactInv, HeirStands, SupersededIsExplained, Explained, Present, Where
  <2>5. EdgesPointAtClosed' /\ VictimsAreClosed'
    BY <2>1 DEF FactInv, EdgesPointAtClosed, VictimsAreClosed, Excused, Where
  <2>6. IndexFollows'
    BY <2>1 DEF FactInv, IndexFollows, Due
  <2> QED BY <2>2, <2>3, <2>4, <2>5, <2>6 DEF FactInv
<1>2. CASE Crash
  BY <1>2, CrashStep
<1>3. ASSUME NEW r \in Requests,
             \/ StartPatch(r) \/ Snapshot(r) \/ Extract(r) \/ Judge(r) \/ Store(r)
             \/ Close(r) \/ WriteEdge(r) \/ Choose(r) \/ ReadLoser(r) \/ ReadHeir(r)
             \/ Archive(r) \/ Purge(r) \/ Index(r)
      PROVE FactInv'
  BY <1>3, StartPatchStep, SnapshotStep, ExtractStep, JudgeStep, StoreStep, CloseStep,
     WriteEdgeStep, ChooseStep, ReadLoserStep, ReadHeirStep, ArchiveStep, PurgeStep, IndexStep
<1> QED BY <1>1, <1>2, <1>3 DEF Next

(* The invariant that the other theorems follow from.                      *)
THEOREM FactInvariance == Spec => []FactInv
<1> QED BY InitFacts, NextFacts, PTL DEF Spec

(* store.py:931: whatever requests write, archive and erase facts at once, *)
(* a superseded row is pointed at by the row of its successor and what an  *)
(* edge points at reads closed, but for the exceptions the property names: *)
(* supersede_fact_event and maintain() close a fact and write its edge and *)
(* its successor in separate transactions, and no interleaving tells them  *)
(* apart once they are through.                                            *)
THEOREM EdgesTell == Spec => []EdgesTellSupersession
<1>1. FactInv => EdgesTellSupersession
  BY DEF FactInv, EdgesTellSupersession, SupersededIsExplained, Explained,
     EdgesPointAtClosed, Excused
<1> QED BY <1>1, FactInvariance, PTL

(* store.py:886: the index write that follows each commit outside the lock *)
(* leaves the index saying what the row says, unless two of them overlap,  *)
(* one fails or a crash cuts one off.                                      *)
THEOREM IndexAgrees == Spec => []IndexAgreesUnlessMuddled
<1>1. FactInv => IndexAgreesUnlessMuddled
  BY DEF FactInv, IndexAgreesUnlessMuddled, IndexFollows, Due
<1> QED BY <1>1, FactInvariance, PTL

-----------------------------------------------------------------------------
(* StoreOpening: those that look at the stamp and go on, and those that    *)
(* have gone on.                                                           *)
Entered == {"adopt", "additive", "open"}

StampIsRecord == meta = [prompts |-> meta.prompts, embedder |-> meta.embedder]

(* A stamp is written last.                                                *)
StampedIsWhole == meta # O!Unstamped => metaTable /\ columns = O!Current

(* How far an opener is tells what the file has.                           *)
StageTells ==
    \A o \in Openers :
        /\ opening[o] \in {"tables", "rename", "columns", "stamp"} => metaTable
        /\ opening[o] \in {"rename", "columns", "stamp", "open"} => tables
        /\ opening[o] = "columns" => columns \in {O!Renamed, O!Current}
        /\ opening[o] = "stamp" => columns = O!Current
        /\ opening[o] \in Entered => meta # O!Unstamped

(* Unless first openings overlapped, the first is alone, and who has       *)
(* entered is configured as the stamp says.                                *)
StampIsTheirs ==
    ~raced => \A o \in Openers :
        /\ opening[o] \in O!Provisioning =>
            meta = O!Unstamped /\ \A p \in Openers \ {o} : opening[p] \notin O!Provisioning
        /\ opening[o] \in {"additive", "open"} => meta = build[o]

(* A stamp without an embedder is older than its openers: none of them     *)
(* provisions the store, and who adopts it has its prompts.                *)
OldStampStays ==
    /\ (meta # O!Unstamped /\ meta.embedder = None) \/ (\E o \in Openers : opening[o] = "adopt") =>
        /\ file /\ metaTable
        /\ \A p \in Openers : opening[p] \notin O!Provisioning /\ (opening[p] = "connect" => ~isNew[p])
    /\ \A o \in Openers : opening[o] = "adopt" => meta.prompts = build[o].prompts

(* The inductive invariant.                                                *)
OpeningInv ==
    /\ O!TypeOK
    /\ opening \in [Openers -> {"closed", "connect"} \cup O!Provisioning \cup Entered]
    /\ isNew \in [Openers -> BOOLEAN]
    /\ StampIsRecord /\ StampedIsWhole /\ StageTells /\ StampIsTheirs /\ OldStampStays
    /\ O!UnstampedWasCut

LEMMA InitOpening == ASSUME O!OpeningAssumption, O!Init PROVE OpeningInv
<1> USE DEF O!OpeningAssumption, O!Init, O!Unstamped
<1>1. O!TypeOK
  <2>1. meta = O!Unstamped \/ \E b \in Builds : meta = [prompts |-> b.prompts, embedder |-> None]
    OBVIOUS
  <2>2. columns \in O!Legacy..O!Current /\ cuts \in 0..MaxCuts
    BY DEF O!Legacy, O!Current
  <2>3. meta = O!Unstamped \/ \E b \in Builds :
            meta.prompts = b.prompts /\ meta.embedder \in {None, b.embedder}
    BY <2>1
  <2>4. {file, metaTable, tables, raced} \subseteq BOOLEAN /\ build \in [Openers -> Builds]
    OBVIOUS
  <2> QED BY <2>2, <2>3, <2>4 DEF O!TypeOK
<1>2. opening \in [Openers -> {"closed", "connect"} \cup O!Provisioning \cup Entered]
      /\ isNew \in [Openers -> BOOLEAN]
  OBVIOUS
<1>3. StampIsRecord /\ StampedIsWhole /\ StageTells /\ StampIsTheirs /\ OldStampStays
      /\ O!UnstampedWasCut
  BY DEF StampIsRecord, StampedIsWhole, StageTells, StampIsTheirs, OldStampStays, O!UnstampedWasCut,
         O!Provisioning, Entered
<1> QED BY <1>1, <1>2, <1>3 DEF OpeningInv

LEMMA BeginStep ==
    ASSUME O!OpeningAssumption, OpeningInv, NEW o \in Openers, O!Begin(o) PROVE OpeningInv'
<1> USE DEF O!OpeningAssumption, OpeningInv, O!Begin, O!Goes, O!dbVars
<1>1. O!TypeOK' /\ StampIsRecord' /\ StampedIsWhole'
      /\ opening' \in [Openers -> {"closed", "connect"} \cup O!Provisioning \cup Entered]
      /\ isNew' \in [Openers -> BOOLEAN]
  BY DEF O!TypeOK, StampIsRecord, StampedIsWhole
<1>2. \A p \in Openers : opening'[p] = IF p = o THEN "connect" ELSE opening[p]
  OBVIOUS
<1>3. \A p \in Openers : isNew'[p] = IF p = o THEN ~file ELSE isNew[p]
  OBVIOUS
<1> HIDE DEF O!Begin
<1>4. UNCHANGED <<file, metaTable, tables, columns, meta, build, cuts, raced>>
      /\ opening[o] = "closed"
  BY DEF O!Begin
<1>5. StageTells'
  BY <1>2, <1>4 DEF StageTells, Entered
<1>6. StampIsTheirs'
  BY <1>2, <1>4 DEF StampIsTheirs, O!Provisioning
<1>7. OldStampStays'
  BY <1>2, <1>3, <1>4 DEF OldStampStays, O!Provisioning
<1>8. O!UnstampedWasCut'
  BY <1>2, <1>4 DEF O!UnstampedWasCut, O!Provisioning
<1> QED BY <1>1, <1>5, <1>6, <1>7, <1>8

LEMMA ConnectStep ==
    ASSUME O!OpeningAssumption, OpeningInv, NEW o \in Openers, O!Connect(o) PROVE OpeningInv'
<1> USE DEF O!OpeningAssumption, OpeningInv, O!Connect, O!Goes
<1>1. O!TypeOK' /\ StampIsRecord' /\ StampedIsWhole'
      /\ opening' \in [Openers -> {"closed", "connect"} \cup O!Provisioning \cup Entered]
      /\ isNew' \in [Openers -> BOOLEAN]
  BY DEF O!TypeOK, StampIsRecord, StampedIsWhole, O!Provisioning, Entered
<1>2. StageTells' /\ O!UnstampedWasCut'
  BY DEF StageTells, O!UnstampedWasCut, O!Compatible, O!Provisioning, Entered
<1>3. CASE isNew[o] \/ ~metaTable
  <2>1. \A p \in Openers : opening'[p] = IF p = o THEN "meta" ELSE opening[p]
    BY <1>3
  <2>2. UNCHANGED <<meta, metaTable, isNew, build>>
        /\ (~raced' => ~raced /\ ~metaTable /\ \A p \in Openers \ {o} : opening[p] \notin O!Provisioning)
    BY <1>3
  <2>3. ~metaTable => meta = O!Unstamped
    BY DEF StampedIsWhole
  <2>4. StampIsTheirs'
    BY <2>1, <2>2, <2>3 DEF StampIsTheirs, O!Provisioning
  <2>5. ~((meta # O!Unstamped /\ meta.embedder = None) \/ \E p \in Openers : opening[p] = "adopt")
    BY <1>3 DEF OldStampStays
  <2>6. OldStampStays'
    BY <2>1, <2>2, <2>5 DEF OldStampStays
  <2> QED BY <1>1, <1>2, <2>4, <2>6
<1>4. CASE ~(isNew[o] \/ ~metaTable) /\ ~O!Compatible(build[o])
  BY <1>1, <1>2, <1>4 DEF StampIsTheirs, OldStampStays, O!Provisioning, Entered
<1>5. CASE ~(isNew[o] \/ ~metaTable) /\ O!Compatible(build[o])
  <2>1. build[o] \in Builds /\ UNCHANGED <<metaTable, meta, isNew, build, raced>> /\ file'
    BY <1>5 DEF O!TypeOK
  <2>2. build[o] = [prompts |-> build[o].prompts, embedder |-> build[o].embedder]
    BY <2>1
  <2>3. opening' = [opening EXCEPT ![o] = IF meta.embedder = None THEN "adopt" ELSE "additive"]
    BY <1>5
  <2>4. meta # O!Unstamped /\ meta.prompts = build[o].prompts
        /\ (meta.embedder # None => meta = build[o])
    BY <1>5, <2>2 DEF O!Compatible, StampIsRecord
  <2>5. StampIsTheirs' /\ OldStampStays'
    BY <2>1, <2>3, <2>4 DEF StampIsTheirs, OldStampStays, O!Provisioning, Entered
  <2> QED BY <1>1, <1>2, <2>5
<1> QED BY <1>3, <1>4, <1>5

LEMMA BuildStep ==
    ASSUME O!OpeningAssumption, OpeningInv, NEW o \in Openers,
           O!CreateMeta(o) \/ O!CreateTables(o) \/ O!Migrate(o)
    PROVE  OpeningInv'
<1> USE DEF O!OpeningAssumption, OpeningInv, O!CreateMeta, O!CreateTables, O!Migrate, O!Goes
<1>1. O!TypeOK' /\ StampIsRecord' /\ StampedIsWhole'
      /\ opening' \in [Openers -> {"closed", "connect"} \cup O!Provisioning \cup Entered]
      /\ isNew' \in [Openers -> BOOLEAN]
  <2>1. O!TypeOK'
    <3>1. columns' \in O!Legacy..O!Current /\ UNCHANGED <<meta, build, cuts, file, raced>>
      BY DEF O!TypeOK, O!Legacy, O!Renamed, O!Current
    <3> QED BY <3>1 DEF O!TypeOK
  <2>2. StampIsRecord' /\ StampedIsWhole'
    BY DEF StampIsRecord, StampedIsWhole, O!Legacy, O!Renamed, O!Current
  <2>3. opening' \in [Openers -> {"closed", "connect"} \cup O!Provisioning \cup Entered]
        /\ isNew' \in [Openers -> BOOLEAN]
    BY DEF O!Provisioning, Entered
  <2> QED BY <2>1, <2>2, <2>3
<1>2. StageTells' /\ O!UnstampedWasCut'
  BY DEF StageTells, O!UnstampedWasCut, StampedIsWhole, O!TypeOK, O!Provisioning, Entered, O!Legacy, O!Renamed, O!Current
<1>3. StampIsTheirs' /\ OldStampStays'
  BY DEF StampIsTheirs, OldStampStays, O!Provisioning, Entered
<1> QED BY <1>1, <1>2, <1>3

LEMMA StampStep ==
    ASSUME O!OpeningAssumption, OpeningInv, NEW o \in Openers, O!Stamp(o) PROVE OpeningInv'
<1> USE DEF O!OpeningAssumption, OpeningInv, O!Stamp, O!Goes
<1>1. build[o] \in Builds
  BY DEF O!TypeOK
<1>2. /\ build[o] # O!Unstamped /\ build[o].embedder # None
      /\ build[o] = [prompts |-> build[o].prompts, embedder |-> build[o].embedder]
  BY <1>1 DEF O!Unstamped
<1>3. O!TypeOK' /\ StampIsRecord' /\ StampedIsWhole'
      /\ opening' \in [Openers -> {"closed", "connect"} \cup O!Provisioning \cup Entered]
      /\ isNew' \in [Openers -> BOOLEAN]
  BY <1>1, <1>2 DEF O!TypeOK, StampIsRecord, StampedIsWhole, StageTells, O!Provisioning, Entered
<1>4. StageTells' /\ O!UnstampedWasCut'
  BY <1>2 DEF StageTells, O!UnstampedWasCut, O!Provisioning, Entered
<1>5. StampIsTheirs' /\ OldStampStays'
  BY <1>2 DEF StampIsTheirs, OldStampStays, StageTells, O!Provisioning, Entered
<1> QED BY <1>3, <1>4, <1>5

LEMMA AdoptStep ==
    ASSUME O!OpeningAssumption, OpeningInv, NEW o \in Openers, O!Adopt(o) PROVE OpeningInv'
<1> USE DEF O!OpeningAssumption, OpeningInv, O!Goes
<1>1. /\ opening[o] = "adopt" /\ opening' = [opening EXCEPT ![o] = "additive"]
      /\ meta' = [prompts |-> meta.prompts, embedder |-> build[o].embedder]
      /\ raced' = (raced \/ meta.embedder \notin {None, build[o].embedder})
      /\ UNCHANGED <<file, metaTable, tables, columns, isNew, build, cuts>>
  BY DEF O!Adopt, StampIsRecord
<1>2. /\ build[o] \in Builds /\ build[o].embedder # None
      /\ build[o] = [prompts |-> build[o].prompts, embedder |-> build[o].embedder]
  BY DEF O!TypeOK
<1>3. meta # O!Unstamped /\ meta' # O!Unstamped /\ meta' = build[o]
  BY <1>1, <1>2 DEF StageTells, OldStampStays, O!Unstamped, Entered
<1>4. O!TypeOK' /\ StampIsRecord' /\ StampedIsWhole'
      /\ opening' \in [Openers -> {"closed", "connect"} \cup O!Provisioning \cup Entered]
      /\ isNew' \in [Openers -> BOOLEAN]
  BY <1>1, <1>2, <1>3 DEF O!TypeOK, StampIsRecord, StampedIsWhole, StageTells, O!Provisioning, Entered
<1>5. StageTells' /\ O!UnstampedWasCut'
  BY <1>1, <1>3 DEF StageTells, O!UnstampedWasCut, O!Provisioning, Entered
<1>6. OldStampStays'
  BY <1>1, <1>2, <1>3 DEF OldStampStays, O!Provisioning
<1>7. StampIsTheirs'
  <2>1. CASE meta.embedder = None
    <3>1. ~raced => \A p \in Openers : opening[p] \notin {"additive", "open"}
      BY <2>1 DEF StampIsTheirs, O!TypeOK
    <3> QED BY <1>1, <1>3, <3>1 DEF StampIsTheirs, OldStampStays, O!Provisioning
  <2>2. CASE meta.embedder # None
    <3>1. ~raced' => meta' = meta
      BY <1>1, <2>2 DEF StampIsRecord
    <3> QED BY <1>1, <1>3, <3>1 DEF StampIsTheirs, OldStampStays, O!Provisioning
  <2> QED BY <2>1, <2>2
<1> QED BY <1>4, <1>5, <1>6, <1>7

LEMMA LeaveStep ==
    ASSUME O!OpeningAssumption, OpeningInv, NEW o \in Openers, O!Cut(o) \/ O!Close(o) PROVE OpeningInv'
<1> USE DEF O!OpeningAssumption, OpeningInv, O!Cut, O!Close, O!Goes, O!dbVars
<1>1. O!TypeOK' /\ StampIsRecord' /\ StampedIsWhole'
      /\ opening' \in [Openers -> {"closed", "connect"} \cup O!Provisioning \cup Entered]
      /\ isNew' \in [Openers -> BOOLEAN]
  BY DEF O!TypeOK, StampIsRecord, StampedIsWhole
<1>2. \A p \in Openers : opening'[p] = IF p = o THEN "closed" ELSE opening[p]
  OBVIOUS
<1>3. \A p \in Openers : p # o => build'[p] = build[p]
  BY DEF O!TypeOK
<1>4. UNCHANGED <<file, metaTable, tables, columns, meta, isNew, raced>>
      /\ opening[o] # "closed" /\ cuts \in Nat
      /\ (cuts' = cuts + 1 \/ (opening[o] = "open" /\ cuts' = cuts))
  <2>1. cuts \in Nat
    BY DEF O!TypeOK
  <2>2. CASE O!Cut(o)
    BY <2>1, <2>2
  <2>3. CASE O!Close(o)
    BY <2>1, <2>3
  <2> QED BY <2>2, <2>3
<1> HIDE DEF O!Cut, O!Close
<1>5. StageTells'
  BY <1>2, <1>4 DEF StageTells, Entered
<1>6. StampIsTheirs'
  BY <1>2, <1>3, <1>4 DEF StampIsTheirs, O!Provisioning
<1>7. OldStampStays'
  BY <1>2, <1>3, <1>4 DEF OldStampStays, O!Provisioning
<1>8. O!UnstampedWasCut'
  BY <1>2, <1>4 DEF O!UnstampedWasCut, O!TypeOK, O!Provisioning
<1> QED BY <1>1, <1>5, <1>6, <1>7, <1>8

LEMMA NextOpening == ASSUME O!OpeningAssumption, OpeningInv, [O!Next]_O!vars PROVE OpeningInv'
<1>1. CASE UNCHANGED O!vars
  BY <1>1 DEF O!vars, O!dbVars, OpeningInv, O!TypeOK, StampIsRecord, StampedIsWhole, StageTells,
              StampIsTheirs, OldStampStays, O!UnstampedWasCut
<1>2. CASE O!Next
  BY <1>2, BeginStep, ConnectStep, BuildStep, StampStep, AdoptStep, LeaveStep DEF O!Next
<1> QED BY <1>1, <1>2

LEMMA OpeningIsWhole == ASSUME O!OpeningAssumption, OpeningInv PROVE O!StoresOpenWhole
BY DEF OpeningInv, O!StoresOpenWhole, O!OpenAsStamped, StageTells, StampedIsWhole, StampIsTheirs, Entered

-----------------------------------------------------------------------------
(* storage: open_store lets nobody in but to a whole store that is stamped *)
(* as the opener is configured, and leaves a store without a stamp only    *)
(* when an opening was cut: for any number of openers, configurations,     *)
(* crashes and closes, from a new file, a legacy one and one without the   *)
(* embedder's fingerprint.  First openings that overlap are excepted, as   *)
(* each stamps the store as its own.                                       *)
THEOREM StoresStayWhole == WritingSpec => []StoresOpenWhole
<1> DEFINE Inv == part = "opening" => OpeningInv
<1> USE WritingAssumptions
<1>1. WritingInit => Inv
  BY InitOpening DEF WritingInit
<1>2. Inv /\ [WritingNext]_<<part, vars, sessionVars, itemVars, openingVars>> => Inv'
  <2> SUFFICES ASSUME Inv, [WritingNext]_<<part, vars, sessionVars, itemVars, openingVars>>,
                      part' = "opening"
               PROVE  OpeningInv'
    OBVIOUS
  <2>1. part = "opening" /\ OpeningInv
    BY DEF WritingNext
  <2>2. [O!Next]_O!vars
    BY <2>1 DEF WritingNext, openingVars, O!vars, O!dbVars
  <2> QED BY <2>1, <2>2, NextOpening
<1>3. Inv => StoresOpenWhole
  BY OpeningIsWhole DEF StoresOpenWhole
<1> HIDE DEF Inv
<1> QED BY <1>1, <1>2, <1>3, PTL DEF WritingSpec

-----------------------------------------------------------------------------
(* FactItem.                                                               *)

LEMMA LeastNumber ==
    ASSUME NEW S \in SUBSET Nat, S # {} PROVE \E l \in S : \A m \in S : l <= m
<1>1. PICK l \in S : \A m \in S : <<m, l>> \notin OpToRel(<, Nat)
  BY WFMin, NatLessThanWellFounded, Zenon
<1>2. \A m \in S : ~(m < l)
  BY <1>1, Zenon DEF OpToRel
<1> QED BY <1>2

(* A finite set of numbers has a greatest: one with the fewest above it.   *)
LEMMA GreatestNumber ==
    ASSUME NEW S \in SUBSET Int, IsFiniteSet(S), S # {}
    PROVE  X!Max(S) \in S /\ \A y \in S : X!Max(S) >= y
<1> DEFINE above == [x \in S |-> {y \in S : x < y}]
           counts == {Cardinality(above[x]) : x \in S}
<1>1. \A x \in S : above[x] \in SUBSET S /\ IsFiniteSet(above[x]) /\ Cardinality(above[x]) \in Nat
  BY FS_Subset, FS_CardinalityType
<1>2. PICK x \in S : \A y \in S : Cardinality(above[x]) <= Cardinality(above[y])
  <2>1. counts \in SUBSET Nat /\ counts # {}
    BY <1>1
  <2> HIDE DEF counts, above
  <2>2. PICK l \in counts : \A m \in counts : l <= m
    BY <2>1, LeastNumber
  <2> QED BY <2>2 DEF counts
<1>3. ASSUME NEW y \in S, x < y PROVE FALSE
  <2>1. above[y] \in SUBSET above[x] /\ y \in above[x] /\ y \notin above[y]
    <3>1. x \in Int /\ y \in Int /\ \A z \in S : z \in Int /\ (y < z => x < z)
      BY <1>3
    <3>2. above[x] = {z \in S : x < z} /\ above[y] = {z \in S : y < z}
      BY <1>3
    <3> HIDE DEF above
    <3>3. above[y] \in SUBSET above[x]
      BY <3>1, <3>2
    <3> QED BY <1>3, <3>1, <3>2, <3>3
  <2> HIDE DEF above
  <2>2. Cardinality(above[y]) <= Cardinality(above[x])
    BY <1>1, <2>1, FS_Subset
  <2>3. Cardinality(above[x]) = Cardinality(above[y])
    <3>1. Cardinality(above[x]) <= Cardinality(above[y])
      BY <1>2
    <3>2. Cardinality(above[x]) \in Nat /\ Cardinality(above[y]) \in Nat
      BY <1>1, <1>3
    <3> QED BY <2>2, <3>1, <3>2
  <2> QED BY <1>1, <2>1, <2>3, FS_Subset
<1>4. x \in S /\ \A y \in S : x >= y
  BY <1>3
<1> HIDE DEF above, counts
<1> QED BY <1>4 DEF X!Max

(* What the item of an execution is.                                       *)
ItemFits ==
    /\ item.cites \subseteq Nat /\ item.roles \in Seq(STRING)
    /\ item.contain \subseteq DOMAIN item.roles /\ item.changes \in BOOLEAN
    /\ item.said \in [DOMAIN item.roles -> X!Days] /\ item.overlap \in [DOMAIN item.roles -> 0..100]
    /\ item.occurred \in X!References /\ item.from \in X!References
    /\ item.end \in X!Days /\ item.until \in X!Days /\ item.scanned \in X!Days
    /\ option.userOnly \in BOOLEAN /\ option.backfill \in BOOLEAN

LEMMA ItemsFit == ASSUME X!FactItemAssumption, item \in Items, option \in Options PROVE ItemFits
BY DEF X!FactItemAssumption, ItemFits

LEMMA SpansAreFinite == ASSUME ItemFits PROVE X!Spans \in SUBSET Nat /\ IsFiniteSet(X!Spans)
<1>1. X!Spans = 1..Len(item.roles) /\ Len(item.roles) \in Nat
  BY DEF ItemFits, X!Spans
<1> QED BY <1>1, FS_Interval

(* At most one span is the nearest: the first of those that overlap most.  *)
LEMMA OneIsNearest == ASSUME ItemFits PROVE X!Nearest \subseteq X!Spans /\ \A r, s \in X!Nearest : r = s
<1>1. ASSUME NEW r \in X!Nearest, NEW s \in X!Nearest, r < s PROVE FALSE
  <2>1. r \in Nat /\ s \in Nat /\ r \in X!Spans /\ s \in X!Spans /\ r \in 1..(s - 1)
    BY <1>1 DEF X!Nearest, ItemFits, X!Spans
  <2>2. item.overlap[r] < item.overlap[s] /\ item.overlap[s] <= item.overlap[r]
    BY <2>1 DEF X!Nearest
  <2>3. item.overlap[r] \in Int /\ item.overlap[s] \in Int
    <3>1. \A k \in X!Spans : item.overlap[k] \in 0..100
      BY DEF ItemFits, X!Spans
    <3> QED BY <2>1, <3>1
  <2> QED BY <2>2, <2>3
<1>2. \A r \in X!Nearest : r \in X!Spans /\ r \in Nat
  BY DEF X!Nearest, ItemFits, X!Spans
<1>3. \A r, s \in X!Nearest : ~(r < s)
  BY <1>1
<1> QED BY <1>2, <1>3

(* The instance counts as this module does.                                *)
LEMMA SameSize == \A S : X!Cardinality(S) = Cardinality(S)
BY DEF X!Cardinality, Cardinality

LEMMA SourcesAreGrounded ==
    ASSUME ItemFits, X!Sources # {}
    PROVE  /\ X!Sources \subseteq X!Spans
           /\ X!Sources \cap item.cites = {} => X!Cardinality(X!Sources) = 1 /\ item.contain \subseteq X!Sources
<1>1. CASE X!Cited # {}
  BY <1>1 DEF X!Sources, X!Cited
<1>2. CASE X!Cited = {}
  <2>1. X!Sources = X!Quoted
    BY <1>2 DEF X!Sources
  <2>2. CASE X!Cardinality(item.contain) = 1
    BY <2>1, <2>2 DEF X!Quoted, ItemFits, X!Spans
  <2>3. CASE X!Cardinality(item.contain) # 1
    <3>1. X!Sources = X!Nearest /\ item.contain = {}
      BY <2>1, <2>3 DEF X!Quoted
    <3>2. PICK s \in X!Nearest : X!Nearest = {s}
      BY <3>1, OneIsNearest
    <3> QED BY <3>1, <3>2, OneIsNearest, SameSize, FS_Singleton
  <2> QED BY <2>2, <2>3
<1> QED BY <1>1, <1>2

LEMMA SaidIsLatest ==
    ASSUME X!FactItemAssumption, ItemFits, X!Sources \subseteq X!Spans
    PROVE  /\ X!DocumentTime \in Int
           /\ \A s \in X!Sources : X!DocumentTime >= item.said[s]
<1> DEFINE S == {item.said[s] : s \in X!Sources} \cup {NoDay}
<1>1. \A s \in X!Sources : item.said[s] \in Int
  BY DEF ItemFits, X!Spans, X!Days
<1>2. S \in SUBSET Int /\ S # {}
  BY <1>1 DEF X!FactItemAssumption
<1>3. IsFiniteSet(S)
  <2>1. IsFiniteSet(X!Sources)
    BY SpansAreFinite, FS_Subset
  <2>2. IsFiniteSet({item.said[s] : s \in X!Sources})
    <3> DEFINE f == [s \in X!Sources |-> item.said[s]]
    <3>1. f \in Surjection(X!Sources, {item.said[s] : s \in X!Sources})
      BY Fun_IsSurj
    <3> QED BY <2>1, <3>1, FS_Surjection
  <2> QED BY <2>2, FS_AddElement, FS_Singleton, FS_Union
<1>4. X!Max(S) \in S /\ \A y \in S : X!Max(S) >= y
  <2> HIDE DEF S
  <2> QED BY <1>2, <1>3, GreatestNumber
<1>5. X!DocumentTime = X!Max(S)
  BY DEF X!DocumentTime
<1> HIDE DEF S
<1>6. \A s \in X!Sources : item.said[s] \in S
  BY DEF S
<1> QED BY <1>2, <1>4, <1>5, <1>6

(* The days, as they are resolved, are days.                               *)
LEMMA DaysAreDays ==
    ASSUME X!FactItemAssumption, ItemFits
    PROVE  {X!OccurredStart, X!EndRaw, X!ValidFrom} \subseteq Int
<1>1. \A ref \in X!References : /\ X!Period(ref) # <<>> => ref.range[1] \in Int /\ ref.range[2] \in Int
                              /\ \A d \in Int : X!Resolved(ref, d) \in Int
  BY DEF X!References, X!Days, X!Period, X!Resolved, X!FactItemAssumption
<1> QED BY <1>1 DEF X!OccurredStart, X!EndRaw, X!ValidFrom, ItemFits, X!Days, X!FactItemAssumption

LEMMA DatedInOrder ==
    ASSUME X!FactItemAssumption, ItemFits, X!DocumentTime \in Int
    PROVE  LET d == X!Dated
           IN IF d.source = "inferred_session" THEN X!DocumentTime \in {d.start, d.from}
              ELSE /\ d.start # NoDay => d.end >= d.start
                   /\ d.from # NoDay /\ d.until # NoDay => d.until >= d.from
                   /\ d.source = "none" <=> d.start = NoDay /\ d.from = NoDay
                   /\ d.source = "resolved_relative" => item.occurred.raw = NoDay /\ item.from.raw = NoDay
<1> DEFINE m == X!Mended
<1>1. /\ m.start = X!OccurredStart /\ m.from = X!ValidFrom /\ m.source = X!TimeSource
      /\ m.until = (IF item.until < X!ValidFrom THEN NoDay ELSE item.until)
      /\ m.end = (LET end == IF X!EndRaw # NoDay THEN X!EndRaw ELSE X!OccurredStart
                  IN IF X!OccurredStart # NoDay /\ end < X!OccurredStart THEN X!OccurredStart ELSE end)
  BY DEF X!Mended
<1>a. X!OccurredStart \in Int /\ X!EndRaw \in Int /\ X!ValidFrom \in Int /\ item.until \in Int
  BY DaysAreDays DEF ItemFits, X!Days
<1>2. /\ m.start # NoDay => m.end >= m.start
      /\ m.from # NoDay /\ m.until # NoDay => m.until >= m.from
  <2> HIDE DEF m
  <2> QED BY <1>1, <1>a
<1>3. /\ m.source \in {"none", "explicit", "resolved_relative"}
      /\ m.source = "none" <=> m.start = NoDay /\ m.from = NoDay
      /\ m.source = "resolved_relative" => item.occurred.raw = NoDay /\ item.from.raw = NoDay
  BY <1>1 DEF X!TimeSource
<1>4. m = [start |-> m.start, end |-> m.end, from |-> m.from, until |-> m.until, source |-> m.source]
  BY DEF X!Mended
<1>5. \/ X!Dated = m
      \/ X!Dated = [[m EXCEPT !.from = X!DocumentTime] EXCEPT !.source = "inferred_session"]
      \/ X!Dated = [[m EXCEPT !.start = X!DocumentTime] EXCEPT !.source = "inferred_session"]
  BY DEF X!Dated
<1> HIDE DEF m
<1> QED BY <1>1, <1>2, <1>3, <1>4, <1>5

LEMMA ClassifiedRight ==
    /\ X!Kind = "state" => X!Modality \in {"current_state", "preference"}
    /\ X!Kind = "preference" => X!Modality = "preference"
    /\ item.changes /\ item.modality = "past_event" /\ X!Kind # "preference"
        => X!Modality = "current_state"
BY DEF X!Modality, X!Kind, X!Became, X!KnownKind

(* The inductive invariant.                                                *)
ItemInv == item \in Items /\ option \in Options /\ X!FactIsUsable

LEMMA InitItem == ASSUME X!Init PROVE ItemInv
BY DEF X!Init, ItemInv, X!FactIsUsable, X!Unread

LEMMA NextItem ==
    ASSUME X!FactItemAssumption, ItemInv, [X!Extract]_<<item, option, drawn>> PROVE ItemInv'
<1>1. CASE UNCHANGED <<item, option, drawn>>
  BY <1>1 DEF ItemInv, X!FactIsUsable, X!Grounded, X!DaysInOrder, X!Classified, X!Spans
<1>2. CASE X!Extract
  <2>1. ItemFits /\ item' = item /\ option' = option /\ item \in Items /\ option \in Options
    BY <1>2, ItemsFit DEF X!Extract, ItemInv
  <2>2. CASE X!Dropped
    BY <1>2, <2>1, <2>2 DEF X!Extract, ItemInv, X!FactIsUsable
  <2>3. CASE ~X!Dropped
    <3>1. drawn' = [is |-> "fact", sources |-> X!Sources, kind |-> X!Kind, modality |-> X!Modality,
                   days |-> X!Dated, said |-> X!DocumentTime]
      BY <1>2, <2>3 DEF X!Extract
    <3>2. drawn'.sources = X!Sources /\ drawn'.kind = X!Kind /\ drawn'.modality = X!Modality
          /\ drawn'.days = X!Dated /\ drawn'.said = X!DocumentTime
      BY <3>1
    <3>3. X!Sources # {} /\ (option.userOnly => ~X!AssistantOnly)
      BY <2>3 DEF X!Dropped
    <3>4. X!Sources \subseteq X!Spans
      BY <2>1, <3>3, SourcesAreGrounded
    <3>5. X!Grounded'
      <4>1. X!Spans' = X!Spans
        BY <2>1 DEF X!Spans
      <4>2. option.userOnly => \E s \in X!Sources : item.roles[s] # "assistant"
        BY <3>3 DEF X!AssistantOnly
      <4> QED BY <2>1, <3>2, <3>3, <3>4, <4>1, <4>2, SourcesAreGrounded, SaidIsLatest DEF X!Grounded
    <3>6. X!DaysInOrder'
      <4>1. X!DocumentTime \in Int
        BY <2>1, <3>4, SaidIsLatest
      <4> QED BY <2>1, <3>2, <4>1, DatedInOrder DEF X!DaysInOrder
    <3>7. X!Classified'
      BY <2>1, <3>2, ClassifiedRight DEF X!Classified
    <3> QED BY <2>1, <3>5, <3>6, <3>7 DEF ItemInv, X!FactIsUsable
  <2> QED BY <2>2, <2>3
<1> QED BY <1>1, <1>2

(* extractor.py, _fact_from_item: whatever the model cites, quotes, dates  *)
(* and classifies, a fact that is taken of its answer is of spans that it  *)
(* was extracted from, its days are in order, and a state is current.      *)
THEOREM FactsStayUsable == WritingSpec => []FactIsUsable
<1> DEFINE Inv == part = "items" => ItemInv
<1> USE WritingAssumptions
<1>1. WritingInit => Inv
  BY InitItem DEF WritingInit
<1>2. Inv /\ [WritingNext]_<<part, vars, sessionVars, itemVars, openingVars>> => Inv'
  <2> SUFFICES ASSUME Inv, [WritingNext]_<<part, vars, sessionVars, itemVars, openingVars>>,
                      part' = "items"
               PROVE  ItemInv'
    OBVIOUS
  <2>1. part = "items" /\ (X!Extract \/ UNCHANGED <<item, option, drawn>>)
    BY DEF WritingNext, itemVars
  <2> QED BY <2>1, NextItem
<1>3. Inv => FactIsUsable
  BY DEF ItemInv, FactIsUsable
<1> QED BY <1>1, <1>2, <1>3, PTL DEF WritingSpec

-----------------------------------------------------------------------------
(* Ingestion.                                                              *)
Told(j) == {I!Id(j, t) : t \in DOMAIN size[j]}

(* What is extracted is of turns that were gathered.                       *)
Segments(j) ==
    {seg \in [from : Nat, to : Nat, depth : Nat, retry : BOOLEAN] :
        1 <= seg.from /\ seg.from <= seg.to /\ seg.to <= window[j].to /\ seg.depth <= MaxDepth}

JobFits(j) ==
    /\ request[j] \in Brought[j] /\ size[j] \in Seq(Nat)
    /\ stage[j] \in {"store", "gather", "ask", "read", "scope", "maintain", "done", "failed"}
    /\ window[j] \in [from : Nat \ {0}, to : 0..Len(size[j]), flushed : BOOLEAN]
    /\ window[j].from <= window[j].to + 1
    /\ segments[j] \in Seq(Segments(j)) /\ judged[j] \in Seq([seg : Segments(j), cut : BOOLEAN])
    /\ segments[j] = <<>> <=> stage[j] \notin {"ask", "read"}
    /\ stage[j] \in {"gather", "ask", "read", "scope", "maintain"} => request[j].infer
    /\ answer[j].is = "facts" => stage[j] = "read" /\ answer[j].cites \in I!Citations(Head(segments[j]))

(* A turn that was gathered waits in the window or in a segment, or is     *)
(* judged.                                                                 *)
Waits(j, t) ==
    \/ ~window[j].flushed /\ window[j].from <= t
    \/ \E i \in DOMAIN segments[j] : t \in I!Spans(segments[j][i])
IsJudged(j, t) == \E i \in DOMAIN judged[j] : t \in I!Spans(judged[j][i].seg)

TurnsAreCovered(j) ==
    /\ stage[j] \in {"store", "gather", "ask", "read"} =>
        \A t \in 1..window[j].to : Waits(j, t) \/ IsJudged(j, t)
    /\ stage[j] \in {"scope", "maintain", "done"} /\ request[j].infer =>
        \A t \in 1..Len(size[j]) : IsJudged(j, t)

(* Judged, to be extracted, in the window: in the order of the turns.      *)
TurnsAreOrdered(j) ==
    /\ \A i, k \in DOMAIN judged[j] : i < k => judged[j][i].seg.to < judged[j][k].seg.from
    /\ \A i \in DOMAIN judged[j], k \in DOMAIN segments[j] : judged[j][i].seg.to < segments[j][k].from
    /\ \A i, k \in DOMAIN segments[j] : i < k => segments[j][i].to < segments[j][k].from
    /\ \A i \in DOMAIN judged[j] : judged[j][i].seg.to < window[j].from
    /\ \A i \in DOMAIN segments[j] : segments[j][i].to < window[j].from

GivenUpLast(j) ==
    /\ \A i \in DOMAIN segments[j] : segments[j][i].retry => ~I!Divisible(segments[j][i])
    /\ \A i \in DOMAIN judged[j] :
        judged[j][i].cut => judged[j][i].seg.retry /\ ~I!Divisible(judged[j][i].seg)

ExtractionInv(j) ==
    /\ JobFits(j) /\ TurnsAreCovered(j) /\ GivenUpLast(j)
    /\ config.overlap = 0 => TurnsAreOrdered(j)

DraftsAreTold(j) ==
    /\ drafts[j] \in Seq([sources : (SUBSET Told(j)) \ {{}}, project : I!Projects])
    /\ stage[j] = "maintain" => \A i \in DOMAIN drafts[j] : drafts[j][i].project = request[j].project

Spoken(j) == {request[k].project : k \in {k \in Jobs : request[k].session = request[j].session}}

ScopeIsTold ==
    /\ scope \in [I!Sessions -> I!Projects]
    /\ \A j \in Jobs :
        stage[j] \in {"maintain", "done"} /\ request[j].infer /\ request[j].project # None =>
            scope[request[j].session] \in Spoken(j) \ {None}

FactsAreTold ==
    \A f \in facts :
        /\ f \in [sources : (SUBSET UNION {Told(j) : j \in Jobs}) \ {{}}, project : I!Projects]
        /\ f.project \in I!ToldIn(f.sources)

EveryJob ==
    /\ DOMAIN stage = Jobs /\ DOMAIN window = Jobs /\ DOMAIN segments = Jobs /\ DOMAIN answer = Jobs
    /\ DOMAIN judged = Jobs /\ DOMAIN drafts = Jobs /\ DOMAIN kept = Jobs

(* The inductive invariant.                                                *)
IngestionInv ==
    /\ config \in Configs /\ EveryJob
    /\ \A j \in Jobs : ExtractionInv(j) /\ DraftsAreTold(j)
    /\ ScopeIsTold /\ FactsAreTold

-----------------------------------------------------------------------------
LEMMA SequencesWiden == \A S, T : S \subseteq T => Seq(S) \subseteq Seq(T)
BY SeqMonotonic

LEMMA SequenceItems ==
    \A S : /\ <<>> \in Seq(S)
           /\ \A s \in Seq(S) : /\ Len(s) \in Nat /\ DOMAIN s = 1..Len(s)
                              /\ \A i \in DOMAIN s : s[i] \in S
BY LenProperties, ElementOfSeq, EmptySeq

LEMMA InitIngestion == ASSUME I!IngestionAssumption, I!Init PROVE IngestionInv
<1>1. /\ \A j \in Jobs :
            /\ request[j] \in Brought[j] /\ size[j] \in Seq(Nat) /\ stage[j] = "store"
            /\ window[j] = [from |-> 1, to |-> 0, flushed |-> FALSE]
            /\ segments[j] = <<>> /\ judged[j] = <<>> /\ drafts[j] = <<>> /\ answer[j] = I!Unasked
      /\ facts = {} /\ config \in Configs /\ scope \in [I!Sessions -> I!Projects] /\ EveryJob
  BY DEF I!Init, I!IngestionAssumption, I!Projects, EveryJob
<1>2. ASSUME NEW j \in Jobs PROVE ExtractionInv(j)
  <2>1. \A S : <<>> \in Seq(S)
    BY SequenceItems
  <2>2. Len(size[j]) \in Nat
    BY <1>1, SequenceItems
  <2>3. JobFits(j)
    <3>1. segments[j] \in Seq(Segments(j)) /\ judged[j] \in Seq([seg : Segments(j), cut : BOOLEAN])
      BY <1>1, <2>1
    <3>2. /\ window[j].from = 1 /\ window[j].to = 0
          /\ window[j] \in [from : Nat \ {0}, to : 0..Len(size[j]), flushed : BOOLEAN]
      <4>1. 0 \in 0..Len(size[j]) /\ 1 \in Nat \ {0}
        BY <2>2
      <4>2. window[j] = [from |-> 1, to |-> 0, flushed |-> FALSE]
        BY <1>1
      <4> QED BY ONLY <4>1, <4>2
    <3>3. answer[j].is = "none"
      BY <1>1 DEF I!Unasked
    <3> QED BY <1>1, <3>1, <3>2, <3>3 DEF JobFits
  <2> QED BY <1>1, <2>3 DEF ExtractionInv, TurnsAreCovered, TurnsAreOrdered, GivenUpLast
<1>3. \A j \in Jobs : DraftsAreTold(j)
  BY <1>1, EmptySeq DEF DraftsAreTold
<1> QED BY <1>1, <1>2, <1>3 DEF IngestionInv, ScopeIsTold, FactsAreTold

(* A step of one job leaves the others alone.                              *)
AloneAt(j) ==
    \A k \in Jobs \ {j} :
        /\ stage'[k] = stage[k] /\ window'[k] = window[k] /\ segments'[k] = segments[k]
        /\ answer'[k] = answer[k] /\ drafts'[k] = drafts[k] /\ judged'[k] = judged[k]

LEMMA JobsStay ==
    ASSUME IngestionInv, NEW k \in Jobs, UNCHANGED <<config, request, size>>,
           stage'[k] = stage[k], window'[k] = window[k], segments'[k] = segments[k], answer'[k] = answer[k],
           judged'[k] = judged[k]
    PROVE  ExtractionInv(k)'
<1>1. ExtractionInv(k) /\ Segments(k)' = Segments(k)
  BY DEF IngestionInv, Segments
<1>2. JobFits(k)'
  BY <1>1 DEF ExtractionInv, JobFits
<1>3. TurnsAreCovered(k)'
  BY <1>1 DEF ExtractionInv, TurnsAreCovered, Waits, IsJudged
<1>4. GivenUpLast(k)'
  BY <1>1 DEF ExtractionInv, GivenUpLast
<1>5. config'.overlap = 0 => TurnsAreOrdered(k)'
  BY <1>1 DEF ExtractionInv, TurnsAreOrdered
<1> QED BY <1>2, <1>3, <1>4, <1>5 DEF ExtractionInv

LEMMA DraftsStay ==
    ASSUME IngestionInv, NEW k \in Jobs, UNCHANGED <<request, size>>, drafts'[k] = drafts[k],
           stage'[k] = "maintain" => stage[k] = "maintain"
    PROVE  DraftsAreTold(k)'
BY DEF IngestionInv, DraftsAreTold, Told, I!Id

(* What is stored stays told while nothing is.                             *)
LEMMA ToldStays ==
    ASSUME IngestionInv, UNCHANGED <<request, size, scope, facts>>,
           \A j \in Jobs : stage'[j] \in {"maintain", "done"} /\ request[j].infer
                => stage[j] \in {"maintain", "done"}
    PROVE  (ScopeIsTold /\ FactsAreTold)'
<1>1. ScopeIsTold'
  BY DEF IngestionInv, ScopeIsTold, Spoken
<1>2. FactsAreTold'
  BY DEF IngestionInv, FactsAreTold, Told, I!ToldIn, I!Tellers, I!Id
<1> QED BY <1>1, <1>2

-----------------------------------------------------------------------------
LEMMA KeepTurnStep == ASSUME IngestionInv, NEW j \in Jobs, I!Store(j) PROVE IngestionInv'
<1>1. /\ UNCHANGED <<config, request, size, scope, facts, window, segments, answer, drafts, judged>>
      /\ stage[j] = "store" /\ stage'[j] \in {"store", IF request[j].infer THEN "gather" ELSE "done"}
      /\ \A k \in Jobs \ {j} : stage'[k] = stage[k]
      /\ EveryJob'
  BY DEF I!Store, IngestionInv, EveryJob, I!rowVars
<1>2. \A k \in Jobs \ {j} : ExtractionInv(k)'
  BY <1>1, JobsStay
<1>3. ExtractionInv(j)'
  <2>1. ExtractionInv(j) /\ Segments(j)' = Segments(j)
    BY <1>1 DEF IngestionInv, Segments
  <2>2. JobFits(j)'
    BY <1>1, <2>1 DEF ExtractionInv, JobFits
  <2>3. TurnsAreCovered(j)'
    BY <1>1, <2>1 DEF ExtractionInv, TurnsAreCovered, Waits, IsJudged
  <2>4. GivenUpLast(j)' /\ (config'.overlap = 0 => TurnsAreOrdered(j)')
    BY <1>1, <2>1 DEF ExtractionInv, GivenUpLast, TurnsAreOrdered
  <2> QED BY <2>2, <2>3, <2>4 DEF ExtractionInv
<1>4. \A k \in Jobs : DraftsAreTold(k)'
  BY <1>1, DraftsStay
<1>5. (ScopeIsTold /\ FactsAreTold)'
  BY <1>1, ToldStays
<1> QED BY <1>1, <1>2, <1>3, <1>4, <1>5 DEF IngestionInv

(* A step of the extraction of one job: of the others, and of what is      *)
(* stored, nothing changes.                                                *)
LEMMA ExtractionStep ==
    ASSUME IngestionInv, NEW j \in Jobs, UNCHANGED <<config, request, size, scope, facts>>,
           AloneAt(j), EveryJob', stage'[j] \notin {"maintain", "done"},
           ExtractionInv(j)', drafts'[j] = drafts[j] \/ DraftsAreTold(j)'
    PROVE  IngestionInv'
<1>1. \A k \in Jobs : ExtractionInv(k)'
  BY JobsStay DEF AloneAt
<1>2. \A k \in Jobs : DraftsAreTold(k)'
  BY DraftsStay DEF AloneAt
<1>3. (ScopeIsTold /\ FactsAreTold)'
  BY ToldStays DEF AloneAt
<1> QED BY <1>1, <1>2, <1>3 DEF IngestionInv

(* A window is handed over: what is before it is judged.                   *)
LEMMA HandOver ==
    ASSUME I!IngestionAssumption, IngestionInv, NEW j \in Jobs, NEW to \in Nat, NEW flushed \in BOOLEAN,
           stage[j] = "gather", to \in {window[j].to, window[j].to + 1}, to <= Len(size[j]),
           window[j].from <= to,
           I!Extract(j, [from |-> window[j].from, to |-> to, flushed |-> FALSE], flushed),
           UNCHANGED <<config, request, size, scope, facts, answer, drafts, judged, kept>>
    PROVE  IngestionInv'
<1> DEFINE w == [from |-> window[j].from, to |-> to, flushed |-> FALSE]
           over == I!Overlap(w)
           seg == I!Segment(w.from, w.to, 0)
<1>1. ExtractionInv(j) /\ JobFits(j) /\ config.overlap \in Nat
  BY DEF IngestionInv, ExtractionInv, I!IngestionAssumption
<1>2. /\ over \in Nat \ {0} /\ over >= window[j].from /\ over <= to + 1
      /\ config.overlap = 0 => over = to + 1
  <2>1. over = IF config.overlap < to - window[j].from + 1 THEN to - config.overlap + 1
               ELSE window[j].from
    BY DEF I!Overlap, I!Length
  <2> HIDE DEF over
  <2>2. window[j].from \in Nat \ {0}
    BY <1>1 DEF JobFits
  <2> QED BY <1>1, <2>1, <2>2
<1>3. /\ window'[j] = [from |-> over, to |-> to, flushed |-> flushed] /\ stage'[j] = "ask"
      /\ segments'[j] = <<seg>> /\ AloneAt(j) /\ EveryJob'
  BY DEF I!Extract, IngestionInv, EveryJob, AloneAt
<1> HIDE DEF over
<1>4. JobFits(j)'
  <2>1. Segments(j) \subseteq Segments(j)' /\ seg \in Segments(j)'
    BY <1>1, <1>3 DEF Segments, JobFits, I!Segment, I!IngestionAssumption
  <2>2. segments'[j] \in Seq(Segments(j)') /\ segments'[j] # <<>>
    BY <1>3, <2>1
  <2>3. judged'[j] \in Seq([seg : Segments(j)', cut : BOOLEAN])
    <3>1. [seg : Segments(j), cut : BOOLEAN] \subseteq [seg : Segments(j)', cut : BOOLEAN]
      BY <2>1
    <3>2. Seq([seg : Segments(j), cut : BOOLEAN]) \subseteq Seq([seg : Segments(j)', cut : BOOLEAN])
      BY ONLY <3>1, SequencesWiden
    <3> QED BY <1>1, <3>2 DEF JobFits
  <2> QED BY <1>1, <1>2, <1>3, <2>2, <2>3 DEF JobFits
<1>5. segments[j] = <<>> /\ DOMAIN segments[j] = {} /\ DOMAIN segments'[j] = {1} /\ segments'[j][1] = seg
  BY <1>1, <1>3 DEF JobFits
<1>6. TurnsAreCovered(j)'
  <2>1. \A t \in 1..to : Waits(j, t)' \/ IsJudged(j, t)'
    <3> SUFFICES ASSUME NEW t \in 1..to PROVE Waits(j, t)' \/ IsJudged(j, t)'
      OBVIOUS
    <3>1. CASE window[j].from <= t
      <4>1. t \in I!Spans(segments'[j][1])
        BY <1>5, <3>1 DEF I!Spans, I!Segment
      <4> QED BY <1>5, <4>1 DEF Waits
    <3>2. CASE ~(window[j].from <= t)
      <4>1. t \in 1..window[j].to
        BY <1>1, <3>2 DEF JobFits
      <4>2. Waits(j, t) \/ IsJudged(j, t)
        BY <1>1, <4>1 DEF ExtractionInv, TurnsAreCovered
      <4>3. ~Waits(j, t)
        BY <1>5, <3>2 DEF Waits
      <4> QED BY <4>2, <4>3 DEF IsJudged
    <3> QED BY <3>1, <3>2
  <2> QED BY <1>3, <2>1 DEF TurnsAreCovered
<1>7. GivenUpLast(j)'
  BY <1>1, <1>5 DEF ExtractionInv, GivenUpLast, I!Segment
<1>8. config'.overlap = 0 => TurnsAreOrdered(j)'
  <2> SUFFICES ASSUME config.overlap = 0 PROVE TurnsAreOrdered(j)'
    OBVIOUS
  <2>1. \A i \in DOMAIN judged[j] : judged[j][i].seg.to < window[j].from /\ judged[j][i].seg.to \in Nat
    <3>1. \A i \in DOMAIN judged[j] : judged[j][i] \in [seg : Segments(j), cut : BOOLEAN]
      <4>1. judged[j] \in Seq([seg : Segments(j), cut : BOOLEAN])
        BY <1>1 DEF JobFits
      <4> QED BY ONLY <4>1, SequenceItems
    <3> QED BY <1>1, <3>1 DEF ExtractionInv, TurnsAreOrdered, Segments
  <2> QED BY <1>1, <1>2, <1>3, <1>5, <2>1 DEF ExtractionInv, TurnsAreOrdered, I!Segment, JobFits
<1> QED BY <1>3, <1>4, <1>6, <1>7, <1>8, ExtractionStep DEF ExtractionInv

LEMMA GatherStep ==
    ASSUME I!IngestionAssumption, IngestionInv, NEW j \in Jobs, I!Gather(j) PROVE IngestionInv'
<1> DEFINE w == [from |-> window[j].from, to |-> window[j].to + 1, flushed |-> FALSE]
<1>1. ExtractionInv(j) /\ JobFits(j)
  BY DEF IngestionInv, ExtractionInv
<1>2. /\ UNCHANGED <<config, request, size, scope, facts, answer, drafts, judged, kept>>
      /\ stage[j] = "gather" /\ w.to \in Nat /\ w.to <= Len(size[j]) /\ w.from <= w.to
  BY <1>1 DEF I!Gather, I!rowVars, I!Ended, JobFits
<1>3. CASE I!Extract(j, w, FALSE)
  BY <1>2, <1>3, HandOver
<1>4. CASE window' = [window EXCEPT ![j] = w] /\ UNCHANGED <<stage, segments>>
  <2>1. window'[j] = w /\ AloneAt(j) /\ EveryJob'
    BY <1>2, <1>4 DEF IngestionInv, EveryJob, AloneAt
  <2>2. Segments(j) \subseteq Segments(j)'
    BY <1>1, <2>1 DEF Segments, JobFits
  <2>3. JobFits(j)'
    <3>1. segments'[j] \in Seq(Segments(j)')
      BY <1>1, <1>4, <2>2, SeqMonotonic DEF JobFits
    <3>2. judged'[j] \in Seq([seg : Segments(j)', cut : BOOLEAN])
      <4>1. [seg : Segments(j), cut : BOOLEAN] \subseteq [seg : Segments(j)', cut : BOOLEAN]
        BY <2>2
      <4>2. Seq([seg : Segments(j), cut : BOOLEAN]) \subseteq Seq([seg : Segments(j)', cut : BOOLEAN])
        BY ONLY <4>1, SequencesWiden
      <4> QED BY <1>1, <1>2, <4>2 DEF JobFits
    <3> QED BY <1>1, <1>2, <1>4, <2>1, <3>1, <3>2 DEF JobFits
  <2>4. TurnsAreCovered(j)'
    <3>1. \A t \in 1..w.to : Waits(j, t)' \/ IsJudged(j, t)'
      <4> SUFFICES ASSUME NEW t \in 1..w.to PROVE Waits(j, t)' \/ IsJudged(j, t)'
        OBVIOUS
      <4>1. CASE window[j].from <= t
        BY <2>1, <4>1 DEF Waits
      <4>2. CASE ~(window[j].from <= t)
        <5>1. t \in 1..window[j].to
          BY <1>1, <4>2 DEF JobFits
        <5>2. Waits(j, t) \/ IsJudged(j, t)
          BY <1>1, <1>2, <5>1 DEF ExtractionInv, TurnsAreCovered
        <5> QED BY <1>2, <1>4, <4>2, <5>2 DEF Waits, IsJudged
      <4> QED BY <4>1, <4>2
    <3> QED BY <1>2, <1>4, <2>1, <3>1 DEF TurnsAreCovered
  <2>5. GivenUpLast(j)' /\ (config'.overlap = 0 => TurnsAreOrdered(j)')
    BY <1>1, <1>2, <1>4, <2>1 DEF ExtractionInv, GivenUpLast, TurnsAreOrdered
  <2> QED BY <1>2, <1>4, <2>1, <2>3, <2>4, <2>5, ExtractionStep DEF ExtractionInv
<1> QED BY <1>3, <1>4 DEF I!Gather

LEMMA FlushStep ==
    ASSUME I!IngestionAssumption, IngestionInv, NEW j \in Jobs, I!Flush(j) PROVE IngestionInv'
<1>1. JobFits(j)
  BY DEF IngestionInv, ExtractionInv
<1>2. /\ UNCHANGED <<config, request, size, scope, facts, answer, drafts, judged, kept>>
      /\ stage[j] = "gather" /\ I!Length(window[j]) > 0 /\ ~window[j].flushed
      /\ I!Extract(j, window[j], TRUE)
  BY DEF I!Flush, I!rowVars, I!Over
<1>3. window[j] = [from |-> window[j].from, to |-> window[j].to, flushed |-> FALSE]
  BY <1>1, <1>2 DEF JobFits
<1>4. /\ window[j].to \in Nat /\ window[j].to <= Len(size[j]) /\ window[j].from <= window[j].to
  BY <1>1, <1>2 DEF JobFits, I!Length
<1> QED BY <1>2, <1>3, <1>4, HandOver

LEMMA EndWindowsStep == ASSUME IngestionInv, NEW j \in Jobs, I!EndWindows(j) PROVE IngestionInv'
<1>1. ExtractionInv(j) /\ JobFits(j)
  BY DEF IngestionInv, ExtractionInv
<1>2. /\ UNCHANGED <<config, request, size, scope, facts, window, segments, answer, drafts, judged, kept>>
      /\ stage[j] = "gather" /\ stage'[j] = "scope" /\ AloneAt(j) /\ EveryJob'
      /\ window[j].to = Len(size[j]) /\ (I!Length(window[j]) <= 0 \/ window[j].flushed)
  BY DEF I!EndWindows, I!rowVars, I!Ended, IngestionInv, EveryJob, AloneAt
<1>3. JobFits(j)'
  BY <1>1, <1>2 DEF JobFits, Segments
<1>4. TurnsAreCovered(j)'
  <2>1. DOMAIN segments[j] = {}
    BY <1>1, <1>2 DEF JobFits
  <2>2. ASSUME NEW t \in 1..Len(size[j]) PROVE IsJudged(j, t)'
    <3>1. Waits(j, t) \/ IsJudged(j, t)
      BY <1>1, <1>2 DEF ExtractionInv, TurnsAreCovered
    <3>2. ~Waits(j, t)
      BY <1>1, <1>2, <2>1 DEF Waits, I!Length, JobFits
    <3> QED BY <1>2, <3>1, <3>2 DEF IsJudged
  <2> QED BY <1>2, <2>2 DEF TurnsAreCovered
<1>5. GivenUpLast(j)' /\ (config'.overlap = 0 => TurnsAreOrdered(j)')
  BY <1>1, <1>2 DEF ExtractionInv, GivenUpLast, TurnsAreOrdered
<1> QED BY <1>2, <1>3, <1>4, <1>5, ExtractionStep DEF ExtractionInv

-----------------------------------------------------------------------------
LEMMA AskStep == ASSUME IngestionInv, NEW j \in Jobs, I!Ask(j) PROVE IngestionInv'
<1>1. ExtractionInv(j) /\ JobFits(j)
  BY DEF IngestionInv, ExtractionInv
<1>2. /\ UNCHANGED <<config, request, size, scope, facts, window, segments, drafts, judged, kept>>
      /\ stage[j] = "ask" /\ stage'[j] = "read" /\ AloneAt(j) /\ EveryJob'
      /\ answer'[j].is = "facts" => answer'[j].cites \in I!Citations(Head(segments[j]))
  BY DEF I!Ask, I!rowVars, IngestionInv, EveryJob, AloneAt
<1>3. JobFits(j)'
  BY <1>1, <1>2 DEF JobFits, Segments
<1>4. TurnsAreCovered(j)'
  BY <1>1, <1>2 DEF ExtractionInv, TurnsAreCovered, Waits, IsJudged
<1>5. GivenUpLast(j)' /\ (config'.overlap = 0 => TurnsAreOrdered(j)')
  BY <1>1, <1>2 DEF ExtractionInv, GivenUpLast, TurnsAreOrdered
<1> QED BY <1>2, <1>3, <1>4, <1>5, ExtractionStep DEF ExtractionInv

(* Nothing is left to extract, as the job has failed.                      *)
LEMMA FailStep ==
    ASSUME IngestionInv, NEW j \in Jobs, stage'[j] = "failed", segments'[j] = <<>>, drafts'[j] = <<>>,
           answer'[j] = I!Unasked, AloneAt(j), EveryJob',
           UNCHANGED <<config, request, size, scope, facts, window, judged>>
    PROVE  IngestionInv'
<1>1. ExtractionInv(j) /\ JobFits(j)
  BY DEF IngestionInv, ExtractionInv
<1>2. JobFits(j)'
  BY <1>1, EmptySeq DEF JobFits, Segments, I!Unasked
<1>3. TurnsAreCovered(j)' /\ GivenUpLast(j)' /\ (config'.overlap = 0 => TurnsAreOrdered(j)')
  BY <1>1 DEF ExtractionInv, TurnsAreCovered, GivenUpLast, TurnsAreOrdered
<1>4. DraftsAreTold(j)'
  BY EmptySeq DEF DraftsAreTold
<1> QED BY <1>2, <1>3, <1>4, ExtractionStep DEF ExtractionInv

LEMMA OutageStep == ASSUME IngestionInv, NEW j \in Jobs, I!Outage(j) PROVE IngestionInv'
<1>1. /\ stage'[j] = "failed" /\ segments'[j] = <<>> /\ drafts'[j] = <<>> /\ answer'[j] = I!Unasked
      /\ AloneAt(j) /\ EveryJob' /\ UNCHANGED <<config, request, size, scope, facts, window, judged>>
  BY DEF I!Outage, IngestionInv, EveryJob, AloneAt, I!rowVars
<1> QED BY <1>1, FailStep

LEMMA DieStep == ASSUME IngestionInv, NEW j \in Jobs, I!Die(j) PROVE IngestionInv'
<1>1. /\ stage'[j] = "failed" /\ segments'[j] = <<>> /\ drafts'[j] = <<>> /\ answer'[j] = I!Unasked
      /\ AloneAt(j) /\ EveryJob' /\ UNCHANGED <<config, request, size, scope, facts, window, judged>>
  BY DEF I!Die, IngestionInv, EveryJob, AloneAt, I!rowVars
<1> QED BY <1>1, FailStep

(* What is to be extracted, and what is after the first of it.             *)
LEMMA FirstAndRest ==
    ASSUME IngestionInv, NEW j \in Jobs, stage[j] = "read"
    PROVE  LET n == Len(segments[j]) rest == Tail(segments[j])
           IN /\ n \in Nat \ {0} /\ DOMAIN segments[j] = 1..n
              /\ \A i \in 1..n : segments[j][i] \in Segments(j)
              /\ Head(segments[j]) = segments[j][1] /\ Head(segments[j]) \in Segments(j)
              /\ rest \in Seq(Segments(j)) /\ Len(rest) = n - 1 /\ DOMAIN rest = 1..(n - 1)
              /\ \A i \in 1..(n - 1) : rest[i] = segments[j][i + 1]
<1>1. segments[j] \in Seq(Segments(j)) /\ segments[j] # <<>>
  BY DEF IngestionInv, ExtractionInv, JobFits
<1> DEFINE S == Segments(j)
<1> HIDE DEF S
<1>2. segments[j] \in Seq(S) /\ segments[j] # <<>>
  BY <1>1 DEF S
<1>3. /\ Tail(segments[j]) \in Seq(S) /\ Len(Tail(segments[j])) = Len(segments[j]) - 1
      /\ \A i \in 1..Len(Tail(segments[j])) : Tail(segments[j])[i] = segments[j][i + 1]
  BY <1>2, HeadTailProperties
<1>4. Len(segments[j]) \in Nat \ {0} /\ DOMAIN segments[j] = 1..Len(segments[j])
  BY <1>2, EmptySeq, LenProperties
<1>5. DOMAIN Tail(segments[j]) = 1..Len(Tail(segments[j]))
  BY <1>3, LenProperties
<1>6. \A i \in 1..Len(segments[j]) : segments[j][i] \in S
  BY <1>2, ElementOfSeq
<1>7. Head(segments[j]) = segments[j][1]
  BY <1>2
<1> QED BY <1>3, <1>4, <1>5, <1>6, <1>7 DEF S

LEMMA CitedIsTold ==
    ASSUME IngestionInv, NEW j \in Jobs, NEW seg \in Segments(j), NEW spans \in SUBSET I!Spans(seg),
           spans # {}
    PROVE  I!Cites(j, spans) \in (SUBSET Told(j)) \ {{}}
<1>1. JobFits(j)
  BY DEF IngestionInv, ExtractionInv
<1>2. Len(size[j]) \in Nat /\ DOMAIN size[j] = 1..Len(size[j])
  BY <1>1, SequenceItems DEF JobFits
<1>3. seg.from \in Nat /\ seg.to \in Nat /\ 1 <= seg.from /\ seg.to <= Len(size[j])
  BY <1>1, <1>2 DEF Segments, JobFits
<1>4. \A t \in spans : t \in DOMAIN size[j]
  BY <1>2, <1>3 DEF I!Spans
<1> QED BY <1>4 DEF I!Cites, Told

LEMMA LeafStep ==
    ASSUME IngestionInv, NEW j \in Jobs, stage[j] = "read", NEW sources, I!Leaf(j, sources),
           sources \in Seq((SUBSET Told(j)) \ {{}}),
           answer[j].is = "cut" /\ I!Truncated => Head(segments[j]).retry,
           UNCHANGED <<config, request, size, scope, facts, window, kept>>
    PROVE  IngestionInv'
<1> DEFINE n == Len(segments[j])
           m == Len(judged[j])
           leaf == [seg |-> Head(segments[j]), cut |-> answer[j].is = "cut" /\ I!Truncated]
<1>1. ExtractionInv(j) /\ JobFits(j) /\ EveryJob /\ DraftsAreTold(j) /\ None \in I!Projects
  BY DEF IngestionInv, ExtractionInv, I!Projects
<1>2. /\ segments'[j] = Tail(segments[j]) /\ answer'[j] = I!Unasked /\ EveryJob' /\ AloneAt(j)
      /\ judged'[j] = Append(judged[j], leaf)
      /\ drafts'[j] = drafts[j] \o
            [i \in DOMAIN sources |-> [sources |-> sources[i], project |-> None]]
      /\ stage'[j] = IF Tail(segments[j]) = <<>> THEN "gather" ELSE "ask"
  BY <1>1 DEF I!Leaf, I!Goes, EveryJob, AloneAt
<1>3. /\ n \in Nat \ {0} /\ DOMAIN segments[j] = 1..n /\ Head(segments[j]) = segments[j][1]
      /\ Head(segments[j]) \in Segments(j) /\ \A i \in 1..n : segments[j][i] \in Segments(j)
      /\ segments'[j] \in Seq(Segments(j)) /\ DOMAIN segments'[j] = 1..(n - 1)
      /\ \A i \in 1..(n - 1) : segments'[j][i] = segments[j][i + 1]
  BY <1>2, FirstAndRest
<1> DEFINE L == [seg : Segments(j), cut : BOOLEAN]
<1>4. leaf \in L /\ judged[j] \in Seq(L)
  BY <1>1, <1>3 DEF JobFits
<1>5. /\ m \in Nat /\ DOMAIN judged[j] = 1..m /\ judged'[j] \in Seq(L)
      /\ DOMAIN judged'[j] = 1..(m + 1) /\ judged'[j][m + 1] = leaf
      /\ \A i \in 1..m : judged'[j][i] = judged[j][i] /\ judged[j][i] \in L
  <2> HIDE DEF leaf, L
  <2>1. m \in Nat /\ DOMAIN judged[j] = 1..m /\ \A i \in 1..m : judged[j][i] \in L
    BY <1>4, SequenceItems
  <2> QED BY <1>2, <1>4, <2>1
<1>6. Segments(j)' = Segments(j)
  BY DEF Segments
<1>7. JobFits(j)'
  <2>1. segments'[j] \in Seq(Segments(j)')
    BY <1>3, <1>6
  <2>2. judged'[j] \in Seq([seg : Segments(j)', cut : BOOLEAN])
    BY <1>5, <1>6
  <2>3. request[j].infer /\ answer'[j].is = "none"
    BY <1>1, <1>2 DEF JobFits, I!Unasked
  <2>4. segments'[j] = <<>> <=> stage'[j] \notin {"ask", "read"}
    BY <1>2
  <2>5. stage'[j] \in {"gather", "ask"}
    BY <1>2
  <2> QED BY <1>1, <2>1, <2>2, <2>3, <2>4, <2>5 DEF JobFits
<1>8. TurnsAreCovered(j)'
  <2>1. stage'[j] \notin {"scope", "maintain", "done"}
    BY <1>2
  <2>2. ASSUME NEW t \in 1..window[j].to PROVE Waits(j, t)' \/ IsJudged(j, t)'
    <3>1. Waits(j, t) \/ IsJudged(j, t)
      BY <1>1 DEF ExtractionInv, TurnsAreCovered
    <3>2. CASE IsJudged(j, t)
      BY <1>5, <3>2 DEF IsJudged
    <3>3. CASE ~window[j].flushed /\ window[j].from <= t
      BY <3>3 DEF Waits
    <3>4. ASSUME NEW i \in 1..n, t \in I!Spans(segments[j][i]) PROVE Waits(j, t)' \/ IsJudged(j, t)'
      <4>1. CASE i = 1
        <5>1. m + 1 \in DOMAIN judged'[j] /\ judged'[j][m + 1].seg = segments[j][1]
          BY <1>3, <1>5
        <5> QED BY <3>4, <4>1, <5>1 DEF IsJudged
      <4>2. CASE i # 1
        <5>1. i - 1 \in 1..(n - 1) /\ segments'[j][i - 1] = segments[j][i]
          BY <1>3, <4>2
        <5> QED BY <1>3, <3>4, <5>1 DEF Waits
      <4> QED BY <4>1, <4>2
    <3> QED BY <1>3, <3>1, <3>2, <3>3, <3>4 DEF Waits
  <2> QED BY <2>1, <2>2 DEF TurnsAreCovered
<1>9. GivenUpLast(j)'
  <2>1. \A i \in DOMAIN segments'[j] : segments'[j][i].retry => ~I!Divisible(segments'[j][i])
    <3>1. \A i \in 1..(n - 1) : i + 1 \in 1..n
      BY <1>3
    <3> QED BY <1>1, <1>3, <3>1 DEF ExtractionInv, GivenUpLast
  <2>2. leaf.cut => leaf.seg.retry /\ ~I!Divisible(leaf.seg)
    <3>1. leaf.cut => segments[j][1].retry
      BY <1>3
    <3>2. 1 \in DOMAIN segments[j]
      BY <1>3
    <3> QED BY <1>1, <1>3, <3>1, <3>2 DEF ExtractionInv, GivenUpLast
  <2> HIDE DEF leaf
  <2>3. \A i \in DOMAIN judged'[j] :
            judged'[j][i].cut => judged'[j][i].seg.retry /\ ~I!Divisible(judged'[j][i].seg)
    BY <1>1, <1>5, <2>2 DEF ExtractionInv, GivenUpLast
  <2> QED BY <2>1, <2>3 DEF GivenUpLast, I!Divisible, I!Length
<1>10. ASSUME config.overlap = 0 PROVE TurnsAreOrdered(j)'
  <2>1. TurnsAreOrdered(j)
    BY <1>1, <1>10 DEF ExtractionInv
  <2>2. \A i \in 1..n : segments[j][i].from \in Nat /\ segments[j][i].to \in Nat
    BY <1>3 DEF Segments
  <2>3. \A i \in 1..m : judged[j][i].seg.from \in Nat /\ judged[j][i].seg.to \in Nat
    BY <1>5 DEF Segments
  <2>4. leaf.seg = segments[j][1]
    BY <1>3
  <2> HIDE DEF leaf, n, m
  <2>5. /\ \A i \in 1..(n - 1) : i + 1 \in 1..n /\ i + 1 > 1
        /\ \A i \in 1..(m + 1) : i \in 1..m \/ i = m + 1
        /\ \A i, k \in 1..(m + 1) : i < k => i \in 1..m
        /\ 1 \in 1..n
    BY <1>3, <1>5
  <2>6. \A i, k \in DOMAIN judged'[j] : i < k => judged'[j][i].seg.to < judged'[j][k].seg.from
    <3>1. SUFFICES ASSUME NEW i \in 1..m, NEW k \in 1..(m + 1), i < k
                   PROVE judged[j][i].seg.to < judged'[j][k].seg.from
      BY <1>5, <2>5
    <3>2. CASE k \in 1..m
      BY <1>5, <2>1, <3>1, <3>2 DEF TurnsAreOrdered
    <3>3. CASE k = m + 1
      BY <1>3, <1>5, <2>1, <2>4, <2>5, <3>3 DEF TurnsAreOrdered
    <3> QED BY <2>5, <3>2, <3>3
  <2>7. \A i \in DOMAIN judged'[j], k \in DOMAIN segments'[j] : judged'[j][i].seg.to < segments'[j][k].from
    <3>1. ASSUME NEW i \in 1..(m + 1), NEW k \in 1..(n - 1)
          PROVE  judged'[j][i].seg.to < segments[j][k + 1].from
      <4>1. CASE i \in 1..m
        BY <1>3, <1>5, <2>1, <2>5, <4>1 DEF TurnsAreOrdered
      <4>2. CASE i = m + 1
        BY <1>3, <1>5, <2>1, <2>4, <2>5, <4>2 DEF TurnsAreOrdered
      <4> QED BY <2>5, <4>1, <4>2
    <3>2. DOMAIN judged'[j] = 1..(m + 1) /\ DOMAIN segments'[j] = 1..(n - 1)
          /\ \A k \in 1..(n - 1) : segments'[j][k] = segments[j][k + 1]
      BY <1>3, <1>5
    <3> QED BY <3>1, <3>2
  <2>8. \A i, k \in DOMAIN segments'[j] : i < k => segments'[j][i].to < segments'[j][k].from
    <3>1. SUFFICES ASSUME NEW i \in 1..(n - 1), NEW k \in 1..(n - 1), i < k
                   PROVE segments[j][i + 1].to < segments[j][k + 1].from
      BY <1>3
    <3>2. i + 1 < k + 1
      BY <3>1
    <3> QED BY <1>3, <2>1, <2>5, <3>2 DEF TurnsAreOrdered
  <2>9. \A i \in DOMAIN judged'[j] : judged'[j][i].seg.to < window'[j].from
    BY <1>3, <1>5, <2>1, <2>4, <2>5 DEF TurnsAreOrdered
  <2>10. \A i \in DOMAIN segments'[j] : segments'[j][i].to < window'[j].from
    BY <1>3, <2>1, <2>5 DEF TurnsAreOrdered
  <2> QED BY <2>6, <2>7, <2>8, <2>9, <2>10 DEF TurnsAreOrdered
<1>11. DraftsAreTold(j)'
  <2> DEFINE D == [sources : (SUBSET Told(j)) \ {{}}, project : I!Projects]
             ds == [i \in DOMAIN sources |-> [sources |-> sources[i], project |-> None]]
  <2>1. Told(j)' = Told(j)
    BY DEF Told, I!Id
  <2>2. Len(sources) \in Nat /\ DOMAIN sources = 1..Len(sources)
        /\ \A i \in DOMAIN sources : sources[i] \in (SUBSET Told(j)) \ {{}}
    BY SequenceItems
  <2>3. ds \in [1..Len(sources) -> D]
    BY <1>1, <2>2
  <2>4. drafts[j] \in Seq(D)
    BY <1>1 DEF DraftsAreTold
  <2>5. drafts'[j] \in Seq(D)
    <3> HIDE DEF D
    <3>1. ds \in Seq(D)
      BY <2>2, <2>3, SeqDef
    <3> HIDE DEF ds
    <3>2. drafts[j] \o ds \in Seq(D)
      BY <2>4, <3>1, ConcatProperties
    <3> QED BY <1>2, <3>2 DEF ds
  <2>6. stage'[j] # "maintain"
    BY <1>2
  <2> QED BY <2>1, <2>5, <2>6 DEF DraftsAreTold
<1>12. stage'[j] \notin {"maintain", "done"}
  BY <1>2
<1>13. UNCHANGED <<config, request, size, scope, facts>>
  OBVIOUS
<1> QED BY <1>2, <1>7, <1>8, <1>9, <1>10, <1>11, <1>12, <1>13, ExtractionStep DEF ExtractionInv

LEMMA FallbackIsTold ==
    ASSUME IngestionInv, NEW j \in Jobs, stage[j] = "read"
    PROVE  I!Fallback(j) \in Seq((SUBSET Told(j)) \ {{}})
<1> DEFINE seg == Head(segments[j])
<1>1. seg \in Segments(j)
  BY FirstAndRest
<1>2. I!Length(seg) \in Nat /\ seg.from \in Nat /\ seg.to \in Nat
  BY <1>1 DEF Segments, I!Length
<1>3. \A i \in 1..I!Length(seg) : {seg.from + i - 1} \in SUBSET I!Spans(seg)
  BY <1>2 DEF I!Spans, I!Length
<1> HIDE DEF seg
<1>4. \A i \in 1..I!Length(seg) : I!Cites(j, {seg.from + i - 1}) \in (SUBSET Told(j)) \ {{}}
  BY <1>1, <1>3, CitedIsTold
<1>5. I!Fallback(j) = [i \in 1..I!Length(seg) |-> I!Cites(j, {seg.from + i - 1})]
  BY DEF I!Fallback, seg
<1> DEFINE S == (SUBSET Told(j)) \ {{}}
<1> HIDE DEF S
<1>6. I!Fallback(j) \in [1..I!Length(seg) -> S]
  BY <1>4, <1>5 DEF S
<1>7. I!Fallback(j) \in Seq(S)
  BY <1>2, <1>6, SeqDef
<1> QED BY <1>7 DEF S

(* The first segment is replaced by what it is halved into, or by itself   *)
(* with more room.                                                         *)
LEMMA RequeueStep ==
    ASSUME IngestionInv, NEW j \in Jobs, stage[j] = "read", NEW first \in Seq(Segments(j)),
           first # <<>>, I!Goes(j, first \o Tail(segments[j])),
           LET seg == Head(segments[j])
           IN /\ \A t \in I!Spans(seg) : \E i \in DOMAIN first : t \in I!Spans(first[i])
              /\ \A i \in DOMAIN first :
                    /\ seg.from <= first[i].from /\ first[i].to <= seg.to
                    /\ first[i].retry => ~I!Divisible(first[i])
              /\ \A i, k \in DOMAIN first : i < k => first[i].to < first[k].from,
           UNCHANGED <<config, request, size, scope, facts, window, kept, drafts, judged>>
    PROVE  IngestionInv'
<1> DEFINE n == Len(segments[j])
           f == Len(first)
<1>1. ExtractionInv(j) /\ JobFits(j) /\ EveryJob
  BY DEF IngestionInv, ExtractionInv
<1>2. /\ segments'[j] = first \o Tail(segments[j]) /\ answer'[j] = I!Unasked /\ EveryJob' /\ AloneAt(j)
      /\ stage'[j] = IF first \o Tail(segments[j]) = <<>> THEN "gather" ELSE "ask"
  BY <1>1 DEF I!Goes, EveryJob, AloneAt
<1>3. /\ n \in Nat \ {0} /\ DOMAIN segments[j] = 1..n /\ Head(segments[j]) = segments[j][1]
      /\ Tail(segments[j]) \in Seq(Segments(j)) /\ Len(Tail(segments[j])) = n - 1
      /\ \A i \in 1..n : segments[j][i] \in Segments(j)
      /\ \A i \in 1..(n - 1) : Tail(segments[j])[i] = segments[j][i + 1]
  BY FirstAndRest
<1>4. f \in Nat \ {0} /\ DOMAIN first = 1..f /\ \A i \in 1..f : first[i] \in Segments(j)
  <2> DEFINE S == Segments(j)
  <2>1. first \in Seq(S)
    OBVIOUS
  <2> HIDE DEF S
  <2> QED BY <2>1, EmptySeq, LenProperties, ElementOfSeq DEF S
<1>5. /\ segments'[j] \in Seq(Segments(j)) /\ Len(segments'[j]) = f + n - 1
      /\ DOMAIN segments'[j] = 1..(f + n - 1)
      /\ \A i \in 1..f : segments'[j][i] = first[i]
      /\ \A i \in (f + 1)..(f + n - 1) : segments'[j][i] = segments[j][i - f + 1]
  <2> DEFINE S == Segments(j)
             rest == Tail(segments[j])
  <2>1. first \in Seq(S) /\ rest \in Seq(S) /\ Len(rest) = n - 1
    BY <1>3
  <2> HIDE DEF S, rest
  <2>2. /\ first \o rest \in Seq(S) /\ Len(first \o rest) = Len(first) + Len(rest)
        /\ \A i \in 1..Len(first) + Len(rest) :
                (first \o rest)[i] = IF i <= Len(first) THEN first[i] ELSE rest[i - Len(first)]
    BY <2>1, ConcatProperties
  <2>3. segments'[j] = first \o rest
    BY <1>2 DEF rest
  <2>4. DOMAIN (first \o rest) = 1..Len(first \o rest)
    BY <2>2, LenProperties
  <2>5. f + (n - 1) = f + n - 1
    BY <1>3, <1>4
  <2>6. \A i \in 1..f : i \in 1..f + (n - 1) /\ i <= f
    BY <1>3, <1>4
  <2>7. \A i \in (f + 1)..(f + n - 1) : segments'[j][i] = segments[j][i - f + 1]
    <3>1. ASSUME NEW i \in (f + 1)..(f + n - 1) PROVE segments'[j][i] = segments[j][i - f + 1]
      <4>1. i \in 1..f + (n - 1) /\ ~(i <= f) /\ i - f \in 1..(n - 1)
        BY <1>3, <1>4
      <4> QED BY <1>3, <2>1, <2>2, <2>3, <4>1 DEF rest
    <3> QED BY <3>1
  <2> QED BY <2>1, <2>2, <2>3, <2>4, <2>5, <2>6, <2>7 DEF S
<1>6. Segments(j)' = Segments(j)
  BY DEF Segments
<1> HIDE DEF n, f
<1>7. 1 \in DOMAIN segments'[j] /\ segments'[j] # <<>> /\ stage'[j] = "ask"
  <2>1. 1 \in DOMAIN segments'[j]
    BY <1>3, <1>4, <1>5
  <2>2. segments'[j] # <<>>
    BY <2>1
  <2> QED BY <1>2, <2>1, <2>2
<1>8. JobFits(j)'
  <2>1. segments'[j] \in Seq(Segments(j)')
    BY <1>5, <1>6
  <2>2. judged'[j] \in Seq([seg : Segments(j)', cut : BOOLEAN])
    BY <1>1, <1>6 DEF JobFits
  <2>3. request[j].infer /\ answer'[j].is = "none"
    BY <1>1, <1>2 DEF JobFits, I!Unasked
  <2> QED BY <1>1, <1>7, <2>1, <2>2, <2>3 DEF JobFits
<1>9. TurnsAreCovered(j)'
  <2>1. ASSUME NEW t \in 1..window[j].to PROVE Waits(j, t)' \/ IsJudged(j, t)'
    <3>1. Waits(j, t) \/ IsJudged(j, t)
      BY <1>1 DEF ExtractionInv, TurnsAreCovered
    <3>2. CASE IsJudged(j, t)
      BY <3>2 DEF IsJudged
    <3>3. CASE ~window[j].flushed /\ window[j].from <= t
      BY <3>3 DEF Waits
    <3>4. ASSUME NEW i \in 1..n, t \in I!Spans(segments[j][i]) PROVE Waits(j, t)'
      <4>1. CASE i = 1
        <5>1. PICK k \in DOMAIN first : t \in I!Spans(first[k])
          BY <1>3, <3>4, <4>1
        <5>2. k \in DOMAIN segments'[j] /\ segments'[j][k] = first[k]
          BY <1>3, <1>4, <1>5, <5>1
        <5> QED BY <5>1, <5>2 DEF Waits
      <4>2. CASE i # 1
        <5>1. /\ i + f - 1 \in (f + 1)..(f + n - 1) /\ (i + f - 1) - f + 1 = i
              /\ i + f - 1 \in 1..(f + n - 1)
          BY <1>3, <1>4, <4>2
        <5>2. i + f - 1 \in DOMAIN segments'[j] /\ segments'[j][i + f - 1] = segments[j][i]
          BY <1>5, <5>1
        <5> QED BY <3>4, <5>2 DEF Waits
      <4> QED BY <4>1, <4>2
    <3> QED BY <1>3, <3>1, <3>2, <3>3, <3>4 DEF Waits
  <2> QED BY <1>7, <2>1 DEF TurnsAreCovered
<1>10. \A i \in 1..(f + n - 1) :
          \/ i \in 1..f /\ segments'[j][i] = first[i]
          \/ i \in (f + 1)..(f + n - 1) /\ i - f + 1 \in 2..n /\ segments'[j][i] = segments[j][i - f + 1]
  BY <1>3, <1>4, <1>5
<1>11. GivenUpLast(j)'
  <2>1. \A i \in 2..n : i \in 1..n
    BY <1>3
  <2>2. \A i \in DOMAIN segments'[j] : segments'[j][i].retry => ~I!Divisible(segments'[j][i])
    BY <1>1, <1>3, <1>4, <1>5, <1>10, <2>1 DEF ExtractionInv, GivenUpLast
  <2> QED BY <1>1, <2>2 DEF ExtractionInv, GivenUpLast, I!Divisible, I!Length
<1>12. ASSUME config.overlap = 0 PROVE TurnsAreOrdered(j)'
  <2>1. TurnsAreOrdered(j)
    BY <1>1, <1>12 DEF ExtractionInv
  <2>2. /\ \A i \in 1..n : segments[j][i].from \in Nat /\ segments[j][i].to \in Nat
        /\ \A i \in 1..f : first[i].from \in Nat /\ first[i].to \in Nat
        /\ window[j].from \in Nat
    BY <1>1, <1>3, <1>4 DEF Segments, JobFits
  <2>3. \A i \in DOMAIN judged[j] : judged[j][i].seg.to \in Nat
    <3>1. judged[j] \in Seq([seg : Segments(j), cut : BOOLEAN])
      BY <1>1 DEF JobFits
    <3>2. \A i \in DOMAIN judged[j] : judged[j][i] \in [seg : Segments(j), cut : BOOLEAN]
      BY ONLY <3>1, SequenceItems
    <3> QED BY <3>2 DEF Segments
  <2>4. \A i \in 1..f : segments[j][1].from <= first[i].from /\ first[i].to <= segments[j][1].to
    BY <1>3, <1>4
  <2>5. 1 \in 1..n /\ \A i \in 2..n : i \in 1..n /\ 1 < i
    BY <1>3
  <2>6. \A i \in DOMAIN judged[j], k \in DOMAIN segments'[j] : judged[j][i].seg.to < segments'[j][k].from
    <3>1. SUFFICES ASSUME NEW i \in DOMAIN judged[j], NEW k \in 1..(f + n - 1)
                   PROVE judged[j][i].seg.to < segments'[j][k].from
      BY <1>5
    <3>2. CASE k \in 1..f /\ segments'[j][k] = first[k]
      <4>1. judged[j][i].seg.to < segments[j][1].from
        BY <1>3, <2>1, <2>5 DEF TurnsAreOrdered
      <4> QED BY <2>2, <2>3, <2>4, <2>5, <3>2, <4>1
    <3>3. CASE k - f + 1 \in 2..n /\ segments'[j][k] = segments[j][k - f + 1]
      BY <1>3, <2>1, <2>5, <3>3 DEF TurnsAreOrdered
    <3> QED BY <1>10, <3>2, <3>3
  <2>7. \A i \in DOMAIN segments'[j] : segments'[j][i].to < window[j].from
    <3>1. SUFFICES ASSUME NEW i \in 1..(f + n - 1) PROVE segments'[j][i].to < window[j].from
      BY <1>5
    <3>2. CASE i \in 1..f /\ segments'[j][i] = first[i]
      <4>1. segments[j][1].to < window[j].from
        BY <1>3, <2>1, <2>5 DEF TurnsAreOrdered
      <4> QED BY <2>2, <2>4, <2>5, <3>2, <4>1
    <3>3. CASE i - f + 1 \in 2..n /\ segments'[j][i] = segments[j][i - f + 1]
      BY <1>3, <2>1, <2>5, <3>3 DEF TurnsAreOrdered
    <3> QED BY <1>10, <3>2, <3>3
  <2>8. \A i, k \in DOMAIN segments'[j] : i < k => segments'[j][i].to < segments'[j][k].from
    <3>1. SUFFICES ASSUME NEW i \in 1..(f + n - 1), NEW k \in 1..(f + n - 1), i < k
                   PROVE segments'[j][i].to < segments'[j][k].from
      BY <1>5
    <3>2. CASE k \in 1..f /\ segments'[j][k] = first[k]
      <4>1. i \in 1..f /\ segments'[j][i] = first[i]
        BY <1>4, <1>5, <3>1, <3>2
      <4> QED BY <1>4, <3>1, <3>2, <4>1
    <3>3. CASE k - f + 1 \in 2..n /\ segments'[j][k] = segments[j][k - f + 1]
      <4>1. CASE i \in 1..f /\ segments'[j][i] = first[i]
        <5>1. segments[j][1].to < segments[j][k - f + 1].from
          BY <1>3, <2>1, <2>5, <3>3 DEF TurnsAreOrdered
        <5> QED BY <2>2, <2>4, <2>5, <3>3, <4>1, <5>1
      <4>2. CASE i - f + 1 \in 2..n /\ segments'[j][i] = segments[j][i - f + 1]
        <5>1. i - f + 1 < k - f + 1
          BY <1>4, <3>1
        <5> QED BY <1>3, <2>1, <2>5, <3>3, <4>2, <5>1 DEF TurnsAreOrdered
      <4> QED BY <1>10, <4>1, <4>2
    <3> QED BY <1>10, <3>2, <3>3
  <2> QED BY <2>1, <2>6, <2>7, <2>8 DEF TurnsAreOrdered
<1>13. stage'[j] \notin {"maintain", "done"} /\ drafts'[j] = drafts[j]
  BY <1>7
<1>14. UNCHANGED <<config, request, size, scope, facts>>
  OBVIOUS
<1> QED BY <1>2, <1>8, <1>9, <1>11, <1>12, <1>13, <1>14, ExtractionStep DEF ExtractionInv

LEMMA TakenStep ==
    ASSUME IngestionInv, NEW j \in Jobs, stage[j] = "read", I!Taken(j),
           UNCHANGED <<config, request, size, scope, facts, window, kept>>
    PROVE  IngestionInv'
<1>1. I!Fallback(j) \in Seq((SUBSET Told(j)) \ {{}})
  BY FallbackIsTold
<1>2. CASE answer[j].is = "facts" /\ I!Leaf(j, <<I!Cites(j, answer[j].cites)>>)
  <2> DEFINE seg == Head(segments[j])
  <2>1. answer[j].cites \in I!Citations(seg) /\ seg \in Segments(j)
    BY <1>2, FirstAndRest DEF IngestionInv, ExtractionInv, JobFits
  <2>2. seg.from \in I!Spans(seg)
    BY <2>1 DEF Segments, I!Spans
  <2>3. answer[j].cites \in SUBSET I!Spans(seg) /\ answer[j].cites # {}
    BY <2>1, <2>2 DEF I!Citations
  <2> HIDE DEF seg
  <2>4. I!Cites(j, answer[j].cites) \in (SUBSET Told(j)) \ {{}}
    BY <2>1, <2>3, CitedIsTold
  <2>5. <<I!Cites(j, answer[j].cites)>> \in Seq((SUBSET Told(j)) \ {{}})
    BY <2>4
  <2> QED BY <1>2, <2>5, LeafStep
<1>3. CASE answer[j].is = "nothing" /\ I!Leaf(j, IF config.emptyIsEmpty THEN <<>> ELSE I!Fallback(j))
  <2>1. (IF config.emptyIsEmpty THEN <<>> ELSE I!Fallback(j)) \in Seq((SUBSET Told(j)) \ {{}})
    BY <1>1, SequenceItems
  <2> QED BY <1>3, <2>1, LeafStep
<1>4. CASE answer[j].is = "outage" /\ I!Leaf(j, I!Fallback(j))
  BY <1>1, <1>4, LeafStep
<1>5. CASE ~I!Truncated /\ I!Leaf(j, I!Fallback(j))
  BY <1>1, <1>5, LeafStep
<1> QED BY <1>2, <1>3, <1>4, <1>5 DEF I!Taken

LEMMA AgainStep ==
    ASSUME IngestionInv, NEW j \in Jobs, stage[j] = "read", I!Again(j), MaxDepth \in Nat,
           UNCHANGED <<config, request, size, scope, facts, window, kept>>
    PROVE  IngestionInv'
<1> DEFINE seg == Head(segments[j])
           half == I!Half(seg)
           left == I!Segment(seg.from, seg.from + half - 1, seg.depth + 1)
           right == I!Segment(seg.from + half, seg.to, seg.depth + 1)
<1>1. /\ seg \in Segments(j) /\ seg.from \in Nat /\ seg.to \in Nat /\ seg.depth \in Nat
      /\ 1 <= seg.from /\ seg.from <= seg.to /\ seg.to <= window[j].to /\ seg.depth <= MaxDepth
      /\ window[j].to \in Nat
  <2>1. seg \in Segments(j)
    BY FirstAndRest
  <2>2. window[j].to \in Nat
    <3>1. JobFits(j)
      BY DEF IngestionInv, ExtractionInv
    <3>2. Len(size[j]) \in Nat
      BY <3>1, SequenceItems DEF JobFits
    <3> QED BY <3>1, <3>2 DEF JobFits
  <2> QED BY <2>1, <2>2 DEF Segments
<1>2. CASE seg.retry
  <2>1. I!Leaf(j, I!Fallback(j)) /\ I!Fallback(j) \in Seq((SUBSET Told(j)) \ {{}})
    BY <1>2, FallbackIsTold DEF I!Again
  <2> QED BY <1>2, <2>1, LeafStep
<1>3. CASE ~seg.retry /\ I!Divisible(seg)
  <2>1. I!Length(seg) \in Nat /\ I!Length(seg) > 1 /\ I!Length(seg) = seg.to - seg.from + 1 /\ seg.depth < MaxDepth
    BY <1>1, <1>3 DEF I!Divisible, I!Length
  <2>2. half \in Nat /\ half >= 1 /\ half < I!Length(seg)
    <3>1. half = I!Length(seg) \div 2
      BY DEF I!Half
    <3> HIDE DEF half
    <3> QED BY <2>1, <3>1
  <2> HIDE DEF half, seg
  <2>3. /\ left = [from |-> seg.from, to |-> seg.from + half - 1, depth |-> seg.depth + 1, retry |-> FALSE]
        /\ right = [from |-> seg.from + half, to |-> seg.to, depth |-> seg.depth + 1, retry |-> FALSE]
    BY DEF I!Segment
  <2>4. /\ seg.from + half - 1 \in Nat /\ seg.from + half \in Nat /\ seg.depth + 1 \in Nat
        /\ seg.from <= seg.from + half - 1 /\ seg.from + half - 1 < seg.to
        /\ seg.from + half <= seg.to /\ seg.depth + 1 <= MaxDepth
    BY <1>1, <2>1, <2>2
  <2>5. left \in Segments(j) /\ right \in Segments(j)
    <3>1. seg.from + half - 1 <= window[j].to /\ 1 <= seg.from + half
      BY <1>1, <2>2, <2>4
    <3>2. left \in [from : Nat, to : Nat, depth : Nat, retry : BOOLEAN]
      BY <1>1, <2>4 DEF I!Segment
    <3>3. right \in [from : Nat, to : Nat, depth : Nat, retry : BOOLEAN]
      BY <1>1, <2>4 DEF I!Segment
    <3>4. /\ left.from = seg.from /\ left.to = seg.from + half - 1 /\ left.depth = seg.depth + 1
          /\ right.from = seg.from + half /\ right.to = seg.to /\ right.depth = seg.depth + 1
      BY <2>3
    <3> HIDE DEF left, right
    <3> QED BY <1>1, <2>4, <3>1, <3>2, <3>3, <3>4 DEF Segments
  <2>6. /\ left.from = seg.from /\ left.to = seg.from + half - 1 /\ ~left.retry
        /\ right.from = seg.from + half /\ right.to = seg.to /\ ~right.retry
    BY <2>3
  <2> DEFINE first == <<left, right>>
  <2>7. I!Goes(j, first \o Tail(segments[j])) /\ UNCHANGED <<drafts, judged>>
    BY <1>3 DEF I!Again, seg, half
  <2> HIDE DEF left, right
  <2>8. /\ first \in Seq(Segments(j)) /\ first # <<>> /\ DOMAIN first = {1, 2}
        /\ first[1] = left /\ first[2] = right
    BY <2>5
  <2>9. \A t \in I!Spans(seg) : t \in I!Spans(left) \/ t \in I!Spans(right)
    BY <1>1, <2>2, <2>6 DEF I!Spans
  <2>10. \A i \in DOMAIN first :
            /\ seg.from <= first[i].from /\ first[i].to <= seg.to
            /\ first[i].retry => ~I!Divisible(first[i])
    <3>1. /\ seg.from <= left.from /\ left.to <= seg.to
          /\ seg.from <= right.from /\ right.to <= seg.to
      BY <1>1, <2>2, <2>4, <2>6
    <3> QED BY <2>6, <2>8, <3>1
  <2>11. \A i, k \in DOMAIN first : i < k => first[i].to < first[k].from
    BY <1>1, <2>2, <2>6, <2>8
  <2>12. \A t \in I!Spans(seg) : \E i \in DOMAIN first : t \in I!Spans(first[i])
    BY <2>8, <2>9
  <2> HIDE DEF first
  <2> QED BY <2>7, <2>8, <2>10, <2>11, <2>12, RequeueStep DEF seg
<1>4. CASE ~seg.retry /\ ~I!Divisible(seg)
  <2> DEFINE again == [seg EXCEPT !.retry = TRUE]
             first == <<again>>
  <2>1. I!Goes(j, first \o Tail(segments[j])) /\ UNCHANGED <<drafts, judged>>
    BY <1>4 DEF I!Again
  <2>2. /\ again \in Segments(j) /\ again.from = seg.from /\ again.to = seg.to /\ again.depth = seg.depth
    BY <1>1 DEF Segments
  <2> HIDE DEF again, seg
  <2>3. first \in Seq(Segments(j)) /\ first # <<>> /\ DOMAIN first = {1} /\ first[1] = again
    BY <2>2
  <2>4. I!Spans(again) = I!Spans(seg) /\ ~I!Divisible(again)
    BY <1>4, <2>2 DEF I!Spans, I!Divisible, I!Length
  <2>5. \A t \in I!Spans(seg) : \E i \in DOMAIN first : t \in I!Spans(first[i])
    BY <2>3, <2>4
  <2>6. \A i \in DOMAIN first :
            /\ seg.from <= first[i].from /\ first[i].to <= seg.to
            /\ first[i].retry => ~I!Divisible(first[i])
    BY <1>1, <2>2, <2>3, <2>4
  <2>7. \A i, k \in DOMAIN first : i < k => first[i].to < first[k].from
    BY <2>3
  <2> HIDE DEF first
  <2> QED BY <2>1, <2>3, <2>5, <2>6, <2>7, RequeueStep DEF seg
<1> QED BY <1>2, <1>3, <1>4

LEMMA ReadAnswerStep ==
    ASSUME I!IngestionAssumption, IngestionInv, NEW j \in Jobs, I!Read(j) PROVE IngestionInv'
<1>1. /\ stage[j] = "read" /\ (I!Taken(j) \/ I!Again(j)) /\ MaxDepth \in Nat
      /\ UNCHANGED <<config, request, size, scope, facts, window, kept>>
  BY DEF I!Read, I!rowVars, I!IngestionAssumption
<1> QED BY <1>1, TakenStep, AgainStep

-----------------------------------------------------------------------------
LEMMA SetScopeStep == ASSUME IngestionInv, NEW j \in Jobs, I!Scope(j) PROVE IngestionInv'
<1> DEFINE D == [sources : (SUBSET Told(j)) \ {{}}, project : I!Projects]
<1>1. /\ UNCHANGED <<config, request, size, facts, window, segments, answer, judged, kept>>
      /\ stage[j] = "scope" /\ stage'[j] = "maintain" /\ AloneAt(j) /\ EveryJob'
      /\ scope' = IF request[j].project = None THEN scope
                  ELSE [scope EXCEPT ![request[j].session] = request[j].project]
      /\ drafts'[j] = [i \in DOMAIN drafts[j] |-> I!Stamp(j, drafts[j][i])]
  BY DEF I!Scope, IngestionInv, EveryJob, AloneAt
<1>2. ExtractionInv(j) /\ JobFits(j) /\ drafts[j] \in Seq(D)
  BY DEF IngestionInv, ExtractionInv, DraftsAreTold
<1>3. \A k \in Jobs : request[k] \in I!Asked /\ request[k].project \in I!Projects /\ request[k].session \in I!Sessions
  BY DEF IngestionInv, ExtractionInv, JobFits, I!Asked, I!Projects, I!Sessions
<1>4. ExtractionInv(j)'
  <2>1. JobFits(j)'
    BY <1>1, <1>2 DEF JobFits, Segments
  <2>2. TurnsAreCovered(j)'
    <3>1. request[j].infer /\ \A t \in 1..Len(size[j]) : IsJudged(j, t)
      BY <1>1, <1>2 DEF ExtractionInv, TurnsAreCovered, JobFits
    <3> QED BY <1>1, <3>1 DEF TurnsAreCovered, IsJudged
  <2>3. GivenUpLast(j)' /\ (config'.overlap = 0 => TurnsAreOrdered(j)')
    BY <1>1, <1>2 DEF ExtractionInv, GivenUpLast, TurnsAreOrdered
  <2> QED BY <2>1, <2>2, <2>3 DEF ExtractionInv
<1>5. DraftsAreTold(j)'
  <2> DEFINE d == drafts[j]
  <2>1. Len(d) \in Nat /\ DOMAIN d = 1..Len(d) /\ \A i \in DOMAIN d : d[i] \in D
    <3> HIDE DEF D
    <3> QED BY <1>2, SequenceItems
  <2>2. \A i \in DOMAIN d : I!Stamp(j, d[i]) \in D /\ I!Stamp(j, d[i]).project = request[j].project
    BY <1>3, <2>1 DEF I!Stamp
  <2>3. drafts'[j] \in Seq(D)
    <3> HIDE DEF D, d
    <3>1. drafts'[j] \in [1..Len(d) -> D]
      BY <1>1, <2>1, <2>2 DEF d
    <3> QED BY <2>1, <3>1, SeqDef
  <2>4. \A i \in DOMAIN drafts'[j] : drafts'[j][i].project = request[j].project
    BY <1>1, <2>2
  <2>5. Told(j)' = Told(j)
    BY <1>1 DEF Told, I!Id
  <2> QED BY <1>1, <2>3, <2>4, <2>5 DEF DraftsAreTold
<1>6. \A k \in Jobs \ {j} : ExtractionInv(k)' /\ DraftsAreTold(k)'
  BY <1>1, JobsStay, DraftsStay DEF AloneAt
<1>7. ScopeIsTold'
  <2>1. scope' \in [I!Sessions -> I!Projects]
    BY <1>1, <1>3 DEF IngestionInv, ScopeIsTold
  <2>2. ASSUME NEW k \in Jobs, stage'[k] \in {"maintain", "done"}, request[k].infer,
               request[k].project # None
        PROVE  scope'[request[k].session] \in Spoken(k) \ {None}
    <3>1. CASE request[j].project # None /\ request[k].session = request[j].session
      BY <1>1, <1>3, <3>1 DEF IngestionInv, ScopeIsTold, Spoken
    <3>2. CASE request[j].project # None /\ request[k].session # request[j].session
      <4>1. k # j /\ stage[k] \in {"maintain", "done"}
        BY <1>1, <2>2, <3>2 DEF AloneAt
      <4> QED BY <1>1, <1>3, <2>2, <3>2, <4>1 DEF IngestionInv, ScopeIsTold, Spoken
    <3>3. CASE request[j].project = None
      <4>1. k # j /\ stage[k] \in {"maintain", "done"}
        BY <1>1, <2>2, <3>3 DEF AloneAt
      <4> QED BY <1>1, <2>2, <3>3, <4>1 DEF IngestionInv, ScopeIsTold
    <3> QED BY <3>1, <3>2, <3>3
  <2> QED BY <1>1, <2>1, <2>2 DEF ScopeIsTold, Spoken
<1>8. FactsAreTold'
  BY <1>1 DEF IngestionInv, FactsAreTold, Told, I!ToldIn, I!Tellers, I!Id
<1> QED BY <1>1, <1>4, <1>5, <1>6, <1>7, <1>8 DEF IngestionInv

LEMMA MaintainStep == ASSUME IngestionInv, NEW j \in Jobs, I!Maintain(j) PROVE IngestionInv'
<1>1. /\ UNCHANGED <<config, request, size, scope, window, segments, answer, judged, kept>>
      /\ stage[j] = "maintain" /\ stage'[j] \in {"maintain", "done"} /\ AloneAt(j) /\ EveryJob'
  BY DEF I!Maintain, IngestionInv, EveryJob, AloneAt
<1>2. ExtractionInv(j) /\ JobFits(j) /\ DraftsAreTold(j)
  BY DEF IngestionInv, ExtractionInv
<1>3. ExtractionInv(j)'
  <2>1. JobFits(j)'
    BY <1>1, <1>2 DEF JobFits, Segments
  <2>2. TurnsAreCovered(j)'
    BY <1>1, <1>2 DEF ExtractionInv, TurnsAreCovered, JobFits, IsJudged
  <2>3. GivenUpLast(j)' /\ (config'.overlap = 0 => TurnsAreOrdered(j)')
    BY <1>1, <1>2 DEF ExtractionInv, GivenUpLast, TurnsAreOrdered
  <2> QED BY <2>1, <2>2, <2>3 DEF ExtractionInv
<1>4. \A k \in Jobs \ {j} : ExtractionInv(k)' /\ DraftsAreTold(k)'
  BY <1>1, JobsStay, DraftsStay DEF AloneAt
<1>5. ScopeIsTold'
  <2>1. \A k \in Jobs : stage'[k] \in {"maintain", "done"} => stage[k] \in {"maintain", "done"}
    BY <1>1 DEF AloneAt
  <2> QED BY <1>1, <2>1 DEF IngestionInv, ScopeIsTold, Spoken
<1> DEFINE Tellable == [sources : (SUBSET UNION {Told(k) : k \in Jobs}) \ {{}}, project : I!Projects]
           Sound(f) == f \in Tellable /\ f.project \in I!ToldIn(f.sources)
<1>6. (\A f \in facts' : Sound(f)) => FactsAreTold'
  BY <1>1 DEF FactsAreTold, Told, I!ToldIn, I!Tellers, I!Id
<1>7. \A f \in facts : Sound(f)
  BY DEF IngestionInv, FactsAreTold
<1>8. CASE drafts[j] = <<>>
  <2>1. facts' = facts /\ drafts' = drafts
    BY <1>8 DEF I!Maintain
  <2>2. DraftsAreTold(j)'
    BY <1>1, <2>1, DraftsStay
  <2> QED BY <1>1, <1>3, <1>4, <1>5, <1>6, <1>7, <2>1, <2>2 DEF IngestionInv
<1>9. CASE drafts[j] # <<>>
  <2> DEFINE d == Head(drafts[j])
             D == [sources : (SUBSET Told(j)) \ {{}}, project : I!Projects]
  <2>1. /\ facts' \in {facts \cup {d}} \cup
                {(facts \ {f}) \cup {[f EXCEPT !.sources = @ \cup d.sources]} : f \in facts}
        /\ drafts'[j] = Tail(drafts[j])
    BY <1>9 DEF I!Maintain, IngestionInv, EveryJob
  <2>2. /\ drafts[j] \in Seq(D)
        /\ \A i \in DOMAIN drafts[j] : drafts[j][i].project = request[j].project
    BY <1>1, <1>2 DEF DraftsAreTold
  <2>3. /\ Tail(drafts[j]) \in Seq(D) /\ d \in D /\ d = drafts[j][1] /\ 1 \in DOMAIN drafts[j]
        /\ \A i \in DOMAIN Tail(drafts[j]) :
                i + 1 \in DOMAIN drafts[j] /\ Tail(drafts[j])[i] = drafts[j][i + 1]
    <3> HIDE DEF D
    <3>1. /\ Head(drafts[j]) \in D /\ Tail(drafts[j]) \in Seq(D)
          /\ Len(Tail(drafts[j])) = Len(drafts[j]) - 1
          /\ \A i \in 1..Len(Tail(drafts[j])) : Tail(drafts[j])[i] = drafts[j][i + 1]
      BY <1>9, <2>2, HeadTailProperties
    <3>2. /\ Len(drafts[j]) \in Nat \ {0} /\ DOMAIN drafts[j] = 1..Len(drafts[j])
          /\ Head(drafts[j]) = drafts[j][1]
      BY <1>9, <2>2, EmptySeq, LenProperties
    <3>3. DOMAIN Tail(drafts[j]) = 1..Len(Tail(drafts[j]))
      BY <3>1, LenProperties
    <3> QED BY <3>1, <3>2, <3>3
  <2>4. DraftsAreTold(j)'
    <3>1. Told(j)' = Told(j)
      BY <1>1 DEF Told, I!Id
    <3>2. \A i \in DOMAIN drafts'[j] : drafts'[j][i].project = request[j].project
      BY <2>1, <2>2, <2>3
    <3> QED BY <1>1, <2>1, <2>3, <3>1, <3>2 DEF DraftsAreTold
  <2>5. Sound(d)
    <3>1. d.project = request[j].project /\ d.sources \in (SUBSET Told(j)) \ {{}} /\ d \in D
      BY <2>2, <2>3
    <3>2. d \in Tellable
      BY <3>1
    <3>3. j \in I!Tellers(d.sources)
      BY <3>1 DEF I!Tellers, Told
    <3> QED BY <3>1, <3>2, <3>3 DEF I!ToldIn
  <2>6. ASSUME NEW f \in facts PROVE Sound([f EXCEPT !.sources = @ \cup d.sources])
    <3> DEFINE g == [f EXCEPT !.sources = @ \cup d.sources]
    <3>1. f \in Tellable /\ f.project \in I!ToldIn(f.sources) /\ d \in Tellable
      BY <1>7, <2>5
    <3>2. g \in Tellable /\ g.sources = f.sources \cup d.sources /\ g.project = f.project
      BY <3>1
    <3> HIDE DEF g
    <3>3. I!Tellers(f.sources) \subseteq I!Tellers(g.sources)
      BY <3>2 DEF I!Tellers
    <3>4. g.project \in I!ToldIn(g.sources)
      BY <3>1, <3>2, <3>3 DEF I!ToldIn
    <3> QED BY <3>2, <3>4 DEF g
  <2> HIDE DEF d, D, Sound
  <2>7. \A f \in facts' : Sound(f)
    BY <1>7, <2>1, <2>5, <2>6
  <2> QED BY <1>1, <1>3, <1>4, <1>5, <1>6, <2>4, <2>7 DEF IngestionInv
<1> QED BY <1>8, <1>9

-----------------------------------------------------------------------------
LEMMA NextIngestion ==
    ASSUME I!IngestionAssumption, IngestionInv, [I!Next]_I!vars PROVE IngestionInv'
<1>1. CASE UNCHANGED I!vars
  <2>1. /\ UNCHANGED <<config, request, size, scope, facts, stage, window, segments, answer, drafts, judged, kept>>
    BY <1>1 DEF I!vars, I!jobVars, I!rowVars
  <2>2. \A k \in Jobs : ExtractionInv(k)' /\ DraftsAreTold(k)'
    BY <2>1, JobsStay, DraftsStay
  <2>3. (ScopeIsTold /\ FactsAreTold)'
    BY <2>1, ToldStays
  <2> QED BY <2>1, <2>2, <2>3 DEF IngestionInv, EveryJob
<1>2. ASSUME NEW j \in Jobs,
             \/ I!Store(j) \/ I!Gather(j) \/ I!Flush(j) \/ I!EndWindows(j) \/ I!Ask(j) \/ I!Read(j)
             \/ I!Outage(j) \/ I!Scope(j) \/ I!Maintain(j) \/ I!Die(j)
      PROVE  IngestionInv'
  BY <1>2, KeepTurnStep, GatherStep, FlushStep, EndWindowsStep, AskStep, ReadAnswerStep, OutageStep,
     SetScopeStep, MaintainStep, DieStep
<1> QED BY <1>1, <1>2 DEF I!Next

LEMMA SessionsAreAccounted ==
    ASSUME I!IngestionAssumption, IngestionInv PROVE I!EverySpanIsJudged /\ I!ScopeNarrows
<1>1. ASSUME NEW j \in Jobs
      PROVE  /\ request[j].infer /\ stage[j] \in {"scope", "maintain", "done"} =>
                LET leaves == judged[j]
                IN /\ UNION {I!Spans(leaves[i].seg) : i \in DOMAIN leaves} = DOMAIN size[j]
                   /\ config.overlap = 0 =>
                        \A i, k \in DOMAIN leaves :
                            i < k => \A t \in I!Spans(leaves[i].seg), u \in I!Spans(leaves[k].seg) : t < u
             /\ \A i \in DOMAIN judged[j] :
                    LET leaf == judged[j][i]
                    IN leaf.cut =>
                        leaf.seg.retry /\ (I!Length(leaf.seg) = 1 \/ leaf.seg.depth = MaxDepth)
  <2>1. ExtractionInv(j) /\ JobFits(j)
    BY DEF IngestionInv, ExtractionInv
  <2>2. Len(size[j]) \in Nat /\ DOMAIN size[j] = 1..Len(size[j])
    BY <2>1, SequenceItems DEF JobFits
  <2>3. \A i \in DOMAIN judged[j] : judged[j][i] \in [seg : Segments(j), cut : BOOLEAN]
    <3>1. judged[j] \in Seq([seg : Segments(j), cut : BOOLEAN])
      BY <2>1 DEF JobFits
    <3> QED BY ONLY <3>1, SequenceItems
  <2>4. \A i \in DOMAIN judged[j] :
            LET seg == judged[j][i].seg
            IN /\ seg.from \in Nat /\ seg.to \in Nat /\ seg.depth \in Nat /\ seg.depth <= MaxDepth
               /\ 1 <= seg.from /\ seg.from <= seg.to /\ seg.to <= Len(size[j])
    <3>1. window[j].to \in Nat /\ window[j].to <= Len(size[j])
      BY <2>1, <2>2 DEF JobFits
    <3> QED BY <2>2, <2>3, <3>1 DEF Segments
  <2>5. ASSUME NEW i \in DOMAIN judged[j], judged[j][i].cut
        PROVE  judged[j][i].seg.retry
               /\ (I!Length(judged[j][i].seg) = 1 \/ judged[j][i].seg.depth = MaxDepth)
    <3>1. judged[j][i].seg.retry /\ ~I!Divisible(judged[j][i].seg)
      BY <2>1, <2>5 DEF ExtractionInv, GivenUpLast
    <3> QED BY <2>4, <3>1 DEF I!Divisible, I!Length, I!IngestionAssumption
  <2>6. ASSUME request[j].infer, stage[j] \in {"scope", "maintain", "done"}
        PROVE  UNION {I!Spans(judged[j][i].seg) : i \in DOMAIN judged[j]} = DOMAIN size[j]
    <3>1. \A t \in DOMAIN size[j] : \E i \in DOMAIN judged[j] : t \in I!Spans(judged[j][i].seg)
      BY <2>1, <2>2, <2>6 DEF ExtractionInv, TurnsAreCovered, IsJudged
    <3>2. \A i \in DOMAIN judged[j] : \A t \in I!Spans(judged[j][i].seg) : t \in DOMAIN size[j]
      BY <2>2, <2>4 DEF I!Spans
    <3> QED BY <3>1, <3>2
  <2>7. ASSUME config.overlap = 0, NEW i \in DOMAIN judged[j], NEW k \in DOMAIN judged[j], i < k,
               NEW t \in I!Spans(judged[j][i].seg), NEW u \in I!Spans(judged[j][k].seg)
        PROVE  t < u
    <3>1. judged[j][i].seg.to < judged[j][k].seg.from
      BY <2>1, <2>7 DEF ExtractionInv, TurnsAreOrdered
    <3> QED BY <2>4, <3>1 DEF I!Spans
  <2> QED BY <2>5, <2>6, <2>7
<1>2. I!EverySpanIsJudged
  BY <1>1 DEF I!EverySpanIsJudged
<1>3. I!ScopeNarrows
  BY DEF IngestionInv, FactsAreTold, ScopeIsTold, I!ScopeNarrows, Spoken
<1> QED BY <1>2, <1>3

-----------------------------------------------------------------------------
(* A turn is stored before it is extracted, and what cites it is gone when *)
(* its job fails.                                                          *)
StoredFirst ==
    /\ request \in [Jobs -> I!Asked] /\ kept \in [Jobs -> Nat]
    /\ stage \in [Jobs -> {"store", "gather", "ask", "read", "scope", "maintain", "done", "failed"}]
    /\ reason \in {"stop", "length"} /\ deaths \in 0..MaxDeaths
    /\ \A j \in Jobs :
        /\ kept[j] <= Len(size[j])
        /\ stage[j] \notin {"store", "failed"} => kept[j] = Len(size[j])
        /\ drafts[j] # <<>> => stage[j] \notin {"store", "failed"}
    /\ \A f \in facts : f.sources \subseteq I!Stored

LEMMA InitStored == ASSUME I!IngestionAssumption, I!Init PROVE StoredFirst
<1>1. \A j \in Jobs : Len(size[j]) \in Nat
  BY SequenceItems DEF I!Init, I!IngestionAssumption
<1> QED BY <1>1 DEF I!Init, StoredFirst, I!IngestionAssumption

(* A step that stores neither turns nor facts.                             *)
LEMMA NothingStored ==
    ASSUME StoredFirst, NEW j \in Jobs, NEW s \in {"gather", "ask", "read", "scope", "maintain", "done"},
           stage' = [stage EXCEPT ![j] = s], stage[j] \notin {"store", "failed"}, AloneAt(j),
           reason' \in {"stop", "length"}, UNCHANGED <<request, size, kept, facts, deaths>>
    PROVE  StoredFirst'
<1>1. I!Stored' = I!Stored
  BY DEF I!Stored, I!Id
<1>2. stage' \in [Jobs -> {"store", "gather", "ask", "read", "scope", "maintain", "done", "failed"}]
  BY DEF StoredFirst
<1>3. stage'[j] = s /\ \A k \in Jobs \ {j} : stage'[k] = stage[k] /\ drafts'[k] = drafts[k]
  BY DEF StoredFirst, AloneAt
<1> QED BY <1>1, <1>2, <1>3 DEF StoredFirst

LEMMA FailedStored ==
    ASSUME StoredFirst, NEW j \in Jobs, stage' = [stage EXCEPT ![j] = "failed"], drafts'[j] = <<>>,
           AloneAt(j), reason' = reason, deaths' \in 0..MaxDeaths,
           UNCHANGED <<request, size, kept, facts>>
    PROVE  StoredFirst'
<1>1. I!Stored' = I!Stored
  BY DEF I!Stored, I!Id
<1>2. stage' \in [Jobs -> {"store", "gather", "ask", "read", "scope", "maintain", "done", "failed"}]
  BY DEF StoredFirst
<1>3. stage'[j] = "failed" /\ \A k \in Jobs \ {j} : stage'[k] = stage[k] /\ drafts'[k] = drafts[k]
  BY DEF StoredFirst, AloneAt
<1> QED BY <1>1, <1>2, <1>3 DEF StoredFirst

LEMMA NextStored ==
    ASSUME I!IngestionAssumption, IngestionInv, StoredFirst, [I!Next]_I!vars PROVE StoredFirst'
<1>1. CASE UNCHANGED I!vars
  <2>1. UNCHANGED <<request, size, stage, kept, reason, deaths, drafts, facts>>
    BY <1>1 DEF I!vars, I!jobVars, I!rowVars
  <2>2. I!Stored' = I!Stored
    BY <2>1 DEF I!Stored, I!Id
  <2> QED BY <2>1, <2>2 DEF StoredFirst
<1>2. ASSUME NEW j \in Jobs, I!Store(j) PROVE StoredFirst'
  <2>1. UNCHANGED <<request, size, reason, deaths, facts, drafts>> /\ stage[j] = "store"
    BY <1>2 DEF I!Store, I!rowVars
  <2>2. Len(size[j]) \in Nat /\ kept[j] \in Nat /\ kept[j] <= Len(size[j])
    <3>1. size[j] \in Seq(Nat)
      BY DEF IngestionInv, ExtractionInv, JobFits
    <3> QED BY <3>1, SequenceItems DEF StoredFirst
  <2>3. CASE kept[j] < Len(size[j]) /\ kept' = [kept EXCEPT ![j] = @ + 1] /\ UNCHANGED stage
    <3>1. /\ kept' \in [Jobs -> Nat] /\ kept'[j] = kept[j] + 1
          /\ \A k \in Jobs \ {j} : kept'[k] = kept[k]
      BY <2>3 DEF StoredFirst
    <3>2. \A k \in Jobs : kept[k] <= kept'[k] /\ kept'[k] \in Nat /\ kept[k] \in Nat
      BY <3>1 DEF StoredFirst
    <3>3. I!Stored \subseteq I!Stored'
      BY <2>1, <3>2 DEF I!Stored, I!Id
    <3>4. \A k \in Jobs : kept'[k] <= Len(size[k])
      BY <2>2, <2>3, <3>1 DEF StoredFirst
    <3> QED BY <2>1, <2>3, <3>1, <3>3, <3>4 DEF StoredFirst
  <2>4. CASE ~(kept[j] < Len(size[j])) /\ UNCHANGED kept
             /\ stage' = [stage EXCEPT ![j] = IF request[j].infer THEN "gather" ELSE "done"]
    <3>1. kept[j] = Len(size[j])
      BY <2>2, <2>4
    <3>2. I!Stored' = I!Stored
      BY <2>1, <2>4 DEF I!Stored, I!Id
    <3>3. /\ stage' \in [Jobs -> {"store", "gather", "ask", "read", "scope", "maintain", "done", "failed"}]
          /\ stage'[j] \in {"gather", "done"} /\ \A k \in Jobs \ {j} : stage'[k] = stage[k]
      BY <2>4 DEF StoredFirst
    <3> QED BY <2>1, <2>4, <3>1, <3>2, <3>3 DEF StoredFirst
  <2> QED BY <1>2, <2>2, <2>3, <2>4 DEF I!Store
<1>3. ASSUME NEW j \in Jobs, I!Gather(j) \/ I!Flush(j) \/ I!EndWindows(j) PROVE StoredFirst'
  <2>1. /\ UNCHANGED <<request, size, kept, facts, deaths, reason>> /\ stage[j] = "gather"
        /\ stage' = [stage EXCEPT ![j] = "ask"] \/ stage' = [stage EXCEPT ![j] = "scope"] \/ stage' = stage
        /\ AloneAt(j)
    BY <1>3 DEF I!Gather, I!Flush, I!EndWindows, I!Extract, I!rowVars, IngestionInv, EveryJob, AloneAt
  <2>2. reason' \in {"stop", "length"} /\ (stage' = stage => stage' = [stage EXCEPT ![j] = "gather"])
    BY <2>1 DEF StoredFirst
  <2> QED BY <2>1, <2>2, NothingStored
<1>4. ASSUME NEW j \in Jobs, I!Ask(j) PROVE StoredFirst'
  <2>1. /\ UNCHANGED <<request, size, kept, facts, deaths>> /\ stage[j] = "ask"
        /\ stage' = [stage EXCEPT ![j] = "read"] /\ AloneAt(j)
    BY <1>4 DEF I!Ask, I!rowVars, IngestionInv, EveryJob, AloneAt
  <2>2. reason' \in {"stop", "length"}
    BY <1>4 DEF I!Ask, StoredFirst
  <2> QED BY <2>1, <2>2, NothingStored
<1>5. ASSUME NEW j \in Jobs, I!Read(j) PROVE StoredFirst'
  <2>1. /\ UNCHANGED <<request, size, kept, facts, deaths, reason>> /\ stage[j] = "read"
        /\ stage' = [stage EXCEPT ![j] = "gather"] \/ stage' = [stage EXCEPT ![j] = "ask"]
        /\ AloneAt(j)
    BY <1>5 DEF I!Read, I!Taken, I!Again, I!Leaf, I!Goes, I!rowVars, IngestionInv, EveryJob, AloneAt
  <2>2. reason' \in {"stop", "length"}
    BY <2>1 DEF StoredFirst
  <2> QED BY <2>1, <2>2, NothingStored
<1>6. ASSUME NEW j \in Jobs, I!Outage(j) \/ I!Die(j) PROVE StoredFirst'
  <2>1. /\ UNCHANGED <<request, size, kept, facts, reason>> /\ drafts'[j] = <<>>
        /\ stage' = [stage EXCEPT ![j] = "failed"] /\ AloneAt(j)
        /\ deaths' = deaths \/ (deaths < MaxDeaths /\ deaths' = deaths + 1)
    <3>1. CASE I!Outage(j)
      <4>1. UNCHANGED <<request, size, kept, facts, reason, deaths>>
        BY <3>1 DEF I!Outage, I!rowVars
      <4>2. stage' = [stage EXCEPT ![j] = "failed"] /\ AloneAt(j) /\ drafts'[j] = <<>>
        BY <3>1 DEF I!Outage, IngestionInv, EveryJob, AloneAt
      <4> QED BY <4>1, <4>2
    <3>2. CASE I!Die(j)
      BY <3>2 DEF I!Die, I!rowVars, IngestionInv, EveryJob, AloneAt
    <3> QED BY <1>6, <3>1, <3>2
  <2>2. deaths' \in 0..MaxDeaths
    BY <2>1 DEF StoredFirst, I!IngestionAssumption
  <2> QED BY <2>1, <2>2, FailedStored
<1>7. ASSUME NEW j \in Jobs, I!Scope(j) PROVE StoredFirst'
  <2>1. /\ UNCHANGED <<request, size, kept, facts, deaths, reason>> /\ stage[j] = "scope"
        /\ stage' = [stage EXCEPT ![j] = "maintain"] /\ AloneAt(j)
    BY <1>7 DEF I!Scope, IngestionInv, EveryJob, AloneAt
  <2>2. reason' \in {"stop", "length"}
    BY <2>1 DEF StoredFirst
  <2> QED BY <2>1, <2>2, NothingStored
<1>8. ASSUME NEW j \in Jobs, I!Maintain(j) PROVE StoredFirst'
  <2>1. UNCHANGED <<request, size, kept, deaths, reason>> /\ stage[j] = "maintain" /\ AloneAt(j)
    BY <1>8 DEF I!Maintain, IngestionInv, EveryJob, AloneAt
  <2>2. I!Stored' = I!Stored
    BY <2>1 DEF I!Stored, I!Id
  <2>3. CASE drafts[j] = <<>>
    <3>1. stage' = [stage EXCEPT ![j] = "done"] /\ facts' = facts /\ reason' \in {"stop", "length"}
      BY <1>8, <2>1, <2>3 DEF I!Maintain, StoredFirst
    <3> QED BY <2>1, <3>1, NothingStored
  <2>4. CASE drafts[j] # <<>>
    <3> DEFINE d == Head(drafts[j])
    <3>1. /\ stage' = stage
          /\ facts' \in {facts \cup {d}} \cup
                {(facts \ {f}) \cup {[f EXCEPT !.sources = @ \cup d.sources]} : f \in facts}
      BY <1>8, <2>4 DEF I!Maintain
    <3>2. d.sources \subseteq I!Stored
      <4>1. d.sources \subseteq Told(j)
        <5> DEFINE D == [sources : (SUBSET Told(j)) \ {{}}, project : I!Projects]
        <5>1. drafts[j] \in Seq(D)
          BY DEF IngestionInv, DraftsAreTold
        <5> HIDE DEF D
        <5>2. d \in D
          BY <2>4, <5>1, HeadTailProperties
        <5> QED BY <5>2 DEF D
      <4>2. size[j] \in Seq(Nat)
        BY DEF IngestionInv, ExtractionInv, JobFits
      <4>3. DOMAIN size[j] = 1..Len(size[j])
        BY <4>2, SequenceItems
      <4>4. Told(j) \subseteq I!Stored
        BY <2>1, <4>3 DEF Told, I!Stored, StoredFirst
      <4> QED BY <4>1, <4>4
    <3>3. \A f \in facts : [f EXCEPT !.sources = @ \cup d.sources].sources \subseteq I!Stored
      <4> SUFFICES ASSUME NEW f \in facts
                   PROVE  [f EXCEPT !.sources = @ \cup d.sources].sources \subseteq I!Stored
        OBVIOUS
      <4>1. f \in [sources : (SUBSET UNION {Told(k) : k \in Jobs}) \ {{}}, project : I!Projects]
        BY DEF IngestionInv, FactsAreTold
      <4>2. [f EXCEPT !.sources = @ \cup d.sources].sources = f.sources \cup d.sources
        BY <4>1
      <4> QED BY <3>2, <4>2 DEF StoredFirst
    <3> HIDE DEF d
    <3>4. \A f \in facts' : f.sources \subseteq I!Stored
      BY <3>1, <3>2, <3>3 DEF StoredFirst
    <3> QED BY <2>1, <2>2, <3>1, <3>4 DEF StoredFirst, AloneAt
  <2> QED BY <2>3, <2>4
<1> QED BY <1>1, <1>2, <1>3, <1>4, <1>5, <1>6, <1>7, <1>8 DEF I!Next

LEMMA StoredIsTyped ==
    ASSUME I!IngestionAssumption, IngestionInv, StoredFirst PROVE I!TypeOK
<1>1. ASSUME NEW j \in Jobs, NEW i \in DOMAIN drafts[j]
      PROVE  drafts[j][i].sources \in (SUBSET I!Stored) \ {{}} /\ drafts[j][i].project \in I!Projects
  <2> DEFINE D == [sources : (SUBSET Told(j)) \ {{}}, project : I!Projects]
  <2>1. drafts[j] \in Seq(D) /\ size[j] \in Seq(Nat)
    BY DEF IngestionInv, ExtractionInv, JobFits, DraftsAreTold
  <2> HIDE DEF D
  <2>2. drafts[j][i] \in D /\ drafts[j] # <<>> /\ DOMAIN size[j] = 1..Len(size[j])
    BY <1>1, <2>1, SequenceItems
  <2>3. Told(j) \subseteq I!Stored
    BY <2>2 DEF Told, I!Stored, StoredFirst
  <2> QED BY <2>2, <2>3 DEF D
<1>2. \A f \in facts : f.sources \in (SUBSET I!Stored) \ {{}} /\ f.project \in I!Projects
  BY DEF IngestionInv, FactsAreTold, StoredFirst
<1>3. \A j \in Jobs : kept[j] \in 0..Len(size[j])
  <2>1. \A j \in Jobs : size[j] \in Seq(Nat)
    BY DEF IngestionInv, ExtractionInv, JobFits
  <2>2. \A j \in Jobs : Len(size[j]) \in Nat
    BY <2>1, SequenceItems
  <2> QED BY <2>2 DEF StoredFirst
<1>4. scope \in [I!Sessions -> I!Projects] /\ config \in Configs
  BY DEF IngestionInv, ScopeIsTold
<1> QED BY <1>1, <1>2, <1>3, <1>4 DEF I!TypeOK, StoredFirst

-----------------------------------------------------------------------------
(* sodamem/memory/ingest: whatever the language model answers any number   *)
(* of jobs, and whichever of them fail, every turn of a session is judged, *)
(* in its order, a segment whose answer was cut off is given up last, and  *)
(* facts and sessions are found only in projects they were told in; for    *)
(* every window, overlap and depth of the halving.                         *)
THEOREM SessionsStayAccounted == WritingSpec => []SessionIsAccounted
<1> DEFINE Inv == part = "sessions" => IngestionInv
<1> USE WritingAssumptions
<1>1. WritingInit => Inv
  BY InitIngestion DEF WritingInit
<1>2. Inv /\ [WritingNext]_<<part, vars, sessionVars, itemVars, openingVars>> => Inv'
  <2> SUFFICES ASSUME Inv, [WritingNext]_<<part, vars, sessionVars, itemVars, openingVars>>,
                      part' = "sessions"
               PROVE  IngestionInv'
    OBVIOUS
  <2>1. part = "sessions" /\ [I!Next]_I!vars
    BY DEF WritingNext, sessionVars, I!vars, I!jobVars, I!rowVars
  <2> QED BY <2>1, NextIngestion
<1>3. Inv => SessionIsAccounted
  BY SessionsAreAccounted DEF SessionIsAccounted
<1> QED BY <1>1, <1>2, <1>3, PTL DEF WritingSpec

(* The parts keep their types: rows, edges and index (FactStore), jobs and *)
(* what they bring (Ingestion), files and their stamps (StoreOpening); a   *)
(* fact cites only turns that are stored.                                  *)
THEOREM WritingIsTyped == WritingSpec => []WritingTypeOK
<1> DEFINE Inv ==
        /\ FactInv
        /\ part = "sessions" => IngestionInv /\ StoredFirst
        /\ part = "opening" => OpeningInv
<1> USE WritingAssumptions
<1>1. WritingInit => Inv
  BY InitFacts, InitIngestion, InitStored, InitOpening DEF WritingInit
<1>2. Inv /\ [WritingNext]_<<part, vars, sessionVars, itemVars, openingVars>> => Inv'
  <2> SUFFICES ASSUME Inv, [WritingNext]_<<part, vars, sessionVars, itemVars, openingVars>>
               PROVE  Inv'
    OBVIOUS
  <2>1. [Next]_vars /\ part' = part
    BY DEF WritingNext
  <2>2. FactInv'
    BY <2>1, NextFacts
  <2>3. ASSUME part = "sessions" PROVE (IngestionInv /\ StoredFirst)'
    <3>1. [I!Next]_I!vars
      BY <2>3 DEF WritingNext, sessionVars, I!vars, I!jobVars, I!rowVars
    <3> QED BY <2>3, <3>1, NextIngestion, NextStored
  <2>4. ASSUME part = "opening" PROVE OpeningInv'
    <3>1. [O!Next]_O!vars
      BY <2>4 DEF WritingNext, openingVars, O!vars, O!dbVars
    <3> QED BY <2>4, <3>1, NextOpening
  <2> QED BY <2>1, <2>2, <2>3, <2>4
<1>3. Inv => WritingTypeOK
  BY StoredIsTyped DEF WritingTypeOK, FactInv, OpeningInv
<1> QED BY <1>1, <1>2, <1>3, PTL DEF WritingSpec
=============================================================================
