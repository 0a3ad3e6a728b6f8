------------------------------ MODULE FactStore ------------------------------
(***************************************************************************)
(* The fact rows of one user's store and the requests that change them:    *)
(* PATCH and DELETE of a memory, and the ingestion jobs.                   *)
(*                                                                         *)
(* Each method of Store holds the store's lock for its SQL only.  archive  *)
(* and purge check and write in one such region; everything else reads     *)
(* facts in one region, works on the copies, and writes whole rows back in *)
(* later ones, so the steps below are the lock regions and the writes to   *)
(* the vector index that follow them outside the lock.                     *)
(*                                                                         *)
(* A request that writes memories is also the fact it extracts.            *)
(***************************************************************************)
EXTENDS Integers, FiniteSets

CONSTANTS
    Old,        \* facts stored before
    Patches,    \* PATCH /v1/memories/{id}
    Ingests,    \* ingestion jobs
    Archives,   \* DELETE /v1/memories/{id}
    Purges,     \* DELETE /v1/memories/{id}?purge=true
    Nil,
    MaxCrashes  \* bound: process crashes

Writers == Patches \cup Ingests
Requests == Writers \cup Archives \cup Purges
Facts == Old \cup Writers

ASSUME FactStoreAssumption ==
    /\ IsFiniteSet(Facts)
    /\ Old \cap Writers = {} /\ Patches \cap Ingests = {}
    /\ Archives \cap Purges = {} /\ Writers \cap (Archives \cup Purges) = {}
    /\ Nil \notin Facts
    /\ MaxCrashes \in Nat

VARIABLES
    rows,       \* fact_events: the status of the row, or "absent"
    edges,      \* fact_edges of type SUPERSEDES: <<winner, loser>>
    vectors,    \* the status in the index's metadata, or "absent"
    at,         \* how far the request is
    target,     \* the memory_id of the request
    fact,       \* the fact maintain() works on
    copy,       \* the status in its copy
    victim,     \* the loser of the supersession in progress
    heir,       \* its winner
    known,      \* update_memory's `before'
    todo,       \* the index write the request does next
    purged,     \* history: facts that were erased
    reopened,   \* history: closed facts a merge set back to active
    muddled,    \* history: facts with index writes that overlapped or failed
    cut,        \* history: facts a request was at when it crashed
    crashes

storeVars == <<rows, edges, vectors>>
requestVars == <<at, target, fact, copy, victim, heir, known, todo>>
history == <<purged, reopened, muddled, cut>>
vars == <<storeVars, requestVars, history, crashes>>

Status == {"active", "archived", "superseded"}
Present == {f \in Facts : rows[f] # "absent"}
Closed == {"archived", "superseded"}

Phase == {"idle", "snapshot", "extract", "judge", "close", "edge", "store",
          "choose", "loser", "heir", "patchclose", "patchedge", "index", "done"}

NoWrite == [fact |-> Nil, status |-> "absent", next |-> "done"]
-----------------------------------------------------------------------------
Init ==
    /\ rows = [f \in Facts |-> IF f \in Old THEN "active" ELSE "absent"]
    /\ edges = {}
    /\ vectors = rows
    /\ at = [r \in Requests |-> IF r \in Ingests THEN "extract" ELSE "idle"]
    /\ target = [r \in Requests |-> Nil]
    /\ fact = [r \in Requests |-> Nil]
    /\ copy = [r \in Requests |-> "absent"]
    /\ victim = [r \in Requests |-> Nil]
    /\ heir = [r \in Requests |-> Nil]
    /\ known = [r \in Requests |-> {}]
    /\ todo = [r \in Requests |-> NoWrite]
    /\ purged = {}
    /\ reopened = {}
    /\ muddled = {}
    /\ cut = {}
    /\ crashes = 0

Goto(r, phase) == at' = [at EXCEPT ![r] = phase]

(* A row was committed: the index write comes next, outside the lock.      *)
ThenIndex(r, f, status, phase) ==
    /\ todo' = [todo EXCEPT ![r] = [fact |-> f, status |-> status, next |-> phase]]
    /\ muddled' = IF \E q \in Requests \ {r} : todo[q].fact = f
                  THEN muddled \cup {f} ELSE muddled
    /\ Goto(r, "index")

MutNeverSyncs(r) == r \in Archives

(* _sync_chroma_status, which archive calls, patches an indexed fact only. *)
Skips(r) == r \in Archives /\ vectors[todo[r].fact] = "absent"

(* Every index write is best effort: a failed one is logged.               *)
Index(r) ==
    /\ at[r] = "index"
    /\ \/ /\ vectors' = IF Skips(r) THEN vectors
                         ELSE [vectors EXCEPT ![todo[r].fact] = todo[r].status]
          /\ UNCHANGED muddled
       \/ /\ muddled' = muddled \cup {todo[r].fact}
          /\ UNCHANGED vectors
    /\ todo' = [todo EXCEPT ![r] = NoWrite]
    /\ Goto(r, todo[r].next)
    /\ UNCHANGED <<rows, edges, target, fact, copy, victim, heir, known,
                   purged, reopened, cut, crashes>>

-----------------------------------------------------------------------------
(* GraphMaintainer.maintain(fact), which PATCH and ingestion both run.     *)

AfterIngest(r) == IF r \in Patches THEN "choose" ELSE "done"

(* The extractor asserted nothing, or a new fact, or one that extends an   *)
(* active row, or one told before, whose row, active or not, it is merged  *)
(* into without being compared.                                            *)
Extract(r) ==
    /\ at[r] = "extract"
    /\ \/ /\ Goto(r, AfterIngest(r))
          /\ UNCHANGED <<fact, copy>>
       \/ \E f \in {r} \cup Present :
            /\ fact' = [fact EXCEPT ![r] = f]
            /\ copy' = [copy EXCEPT ![r] = IF f = r THEN "active" ELSE rows[f]]
            /\ \/ (f = r \/ rows[f] = "active") /\ Goto(r, "judge")
               \/ f # r /\ Goto(r, "store")
    /\ UNCHANGED <<storeVars, target, victim, heir, known, todo, history, crashes>>

(* It reads the active facts again: none is of the slot, or the fact       *)
(* outranks one (one is enough for the interleavings), or one outranks it, *)
(* and then it is closed on arrival.  What decides is in Maintainer.       *)
Judge(r) ==
    /\ at[r] = "judge"
    /\ \/ /\ Goto(r, "store")
          /\ UNCHANGED <<copy, victim, heir>>
       \/ \E v \in Present \ {fact[r]} :
            /\ rows[v] = "active"
            /\ \/ /\ victim' = [victim EXCEPT ![r] = v]
                  /\ heir' = [heir EXCEPT ![r] = fact[r]]
                  /\ Goto(r, "close")
                  /\ UNCHANGED copy
               \/ /\ victim' = [victim EXCEPT ![r] = fact[r]]
                  /\ heir' = [heir EXCEPT ![r] = v]
                  /\ copy' = [copy EXCEPT ![r] = "superseded"]
                  /\ Goto(r, "edge")
    /\ UNCHANGED <<storeVars, target, fact, known, todo, history, crashes>>

(* _merge keeps the status of the copy it read.                            *)
StatusOf(r) == copy[r]

(* The whole row is written, whatever became of it meanwhile, and          *)
(* maintain() returns.                                                     *)
Store(r) ==
    /\ at[r] = "store"
    /\ rows' = [rows EXCEPT ![fact[r]] = StatusOf(r)]
    /\ reopened' = IF rows[fact[r]] \in Closed /\ StatusOf(r) = "active"
                   THEN reopened \cup {fact[r]} ELSE reopened
    /\ ThenIndex(r, fact[r], StatusOf(r), AfterIngest(r))
    /\ fact' = [fact EXCEPT ![r] = Nil] /\ copy' = [copy EXCEPT ![r] = "absent"]
    /\ victim' = [victim EXCEPT ![r] = Nil] /\ heir' = [heir EXCEPT ![r] = Nil]
    /\ UNCHANGED <<edges, vectors, target, known, purged, cut, crashes>>

(* _mark_superseded and supersede_fact_event: the copy is closed and the   *)
(* whole row written, whatever became of the row meanwhile ...             *)
Close(r) ==
    /\ at[r] \in {"close", "patchclose"}
    /\ rows' = [rows EXCEPT ![victim[r]] = "superseded"]
    /\ ThenIndex(r, victim[r], "superseded",
                 IF at[r] = "close" THEN "edge" ELSE "patchedge")
    /\ UNCHANGED <<edges, vectors, target, fact, copy, victim, heir, known,
                   purged, reopened, cut, crashes>>

MutEdgeToTarget(r) == {<<heir[r], target[r]>>}
MutReversedEdge(r) == {<<victim[r], heir[r]>>}

EdgeOf(r) == {<<heir[r], victim[r]>>}

(* The request is answered, and its locals go.                             *)
Returns(r) ==
    /\ Goto(r, "done")
    /\ target' = [target EXCEPT ![r] = Nil]
    /\ victim' = [victim EXCEPT ![r] = Nil] /\ heir' = [heir EXCEPT ![r] = Nil]

(* ... then the edge, and in maintain() the fact itself.                   *)
WriteEdge(r) ==
    /\ at[r] \in {"edge", "patchedge"}
    /\ edges' = edges \cup EdgeOf(r)
    /\ IF at[r] = "edge" THEN Goto(r, "store") /\ UNCHANGED <<target, victim, heir>>
       ELSE Returns(r)
    /\ UNCHANGED <<rows, vectors, fact, copy, known, todo, history, crashes>>

-----------------------------------------------------------------------------
(* update_memory                                                           *)

(* The target must exist.                                                  *)
StartPatch(r) ==
    /\ r \in Patches /\ at[r] = "idle"
    /\ \E f \in Present : target' = [target EXCEPT ![r] = f]
    /\ Goto(r, "snapshot")
    /\ UNCHANGED <<storeVars, fact, copy, victim, heir, known, todo, history, crashes>>

Snapshot(r) ==
    /\ at[r] = "snapshot"
    /\ known' = [known EXCEPT ![r] = Present]
    /\ Goto(r, "extract")
    /\ UNCHANGED <<storeVars, target, fact, copy, victim, heir, todo, history, crashes>>

Fresh(r) == Present \ known[r]

(* 422 when nothing is fresh, else the newest fresh fact is the winner     *)
(* (which of them is newest depends on the times of the sessions).         *)
Choose(r) ==
    /\ at[r] = "choose"
    /\ \/ Fresh(r) = {} /\ Returns(r)
       \/ \E w \in Fresh(r) :
            /\ heir' = [heir EXCEPT ![r] = w]
            /\ Goto(r, "loser")
            /\ UNCHANGED <<target, victim>>
    /\ known' = [known EXCEPT ![r] = {}]
    /\ UNCHANGED <<storeVars, fact, copy, todo, history, crashes>>

MayClose(r) == heir[r] # target[r] /\ rows[target[r]] # "absent"

(* supersede_fact_event: get_fact_event(loser), then the winner's.         *)
ReadLoser(r) ==
    /\ at[r] = "loser"
    /\ \/ /\ MayClose(r)
          /\ victim' = [victim EXCEPT ![r] = target[r]]
          /\ Goto(r, "heir")
          /\ UNCHANGED <<target, heir>>
       \/ ~MayClose(r) /\ Returns(r)
    /\ UNCHANGED <<storeVars, fact, copy, known, todo, history, crashes>>

ReadHeir(r) ==
    /\ at[r] = "heir"
    /\ IF rows[heir[r]] = "absent" THEN Returns(r)
       ELSE Goto(r, "patchclose") /\ UNCHANGED <<target, victim, heir>>
    /\ UNCHANGED <<storeVars, fact, copy, known, todo, history, crashes>>

-----------------------------------------------------------------------------
(* delete_memory.  An unknown or already archived fact is a no-op.         *)
Archive(r) ==
    /\ r \in Archives /\ at[r] = "idle"
    /\ \E f \in Facts :
        \/ /\ rows[f] \in {"absent", "archived"}
           /\ Goto(r, "done")
           /\ UNCHANGED <<rows, todo, muddled>>
        \/ /\ rows[f] \in {"active", "superseded"}
           /\ rows' = [rows EXCEPT ![f] = "archived"]
           /\ ThenIndex(r, f, "archived", "done")
    /\ UNCHANGED <<edges, vectors, target, fact, copy, victim, heir, known,
                   purged, reopened, cut, crashes>>

Touching(f) == {e \in edges : e[1] = f \/ e[2] = f}

(* The cascade over roles and edges is in the transaction of the delete.   *)
Purge(r) ==
    /\ r \in Purges /\ at[r] = "idle"
    /\ \E f \in Facts :
        \/ /\ rows[f] = "absent"
           /\ Goto(r, "done")
           /\ UNCHANGED <<rows, edges, todo, purged, muddled>>
        \/ /\ rows[f] # "absent"
           /\ rows' = [rows EXCEPT ![f] = "absent"]
           /\ edges' = edges \ Touching(f)
           /\ purged' = purged \cup {f}
           /\ ThenIndex(r, f, "absent", "done")
    /\ UNCHANGED <<vectors, target, fact, copy, victim, heir, known, reopened, cut, crashes>>

(* The process dies with every request in it; rows and index stay.         *)
Crash ==
    /\ crashes < MaxCrashes
    /\ \E r \in Requests : at[r] \notin {"idle", "done"}
    /\ crashes' = crashes + 1
    /\ at' = [r \in Requests |-> IF at[r] = "idle" THEN "idle" ELSE "done"]
    /\ todo' = [r \in Requests |-> NoWrite]
    /\ muddled' = muddled \cup ({todo[r].fact : r \in Requests} \ {Nil})
    /\ cut' = cut \cup {f \in Facts : \E r \in Requests :
                            at[r] # "done" /\ f \in {victim[r], fact[r]}}
    /\ target' = [r \in Requests |-> Nil] /\ fact' = [r \in Requests |-> Nil]
    /\ copy' = [r \in Requests |-> "absent"]
    /\ victim' = [r \in Requests |-> Nil] /\ heir' = [r \in Requests |-> Nil]
    /\ known' = [r \in Requests |-> {}]
    /\ UNCHANGED <<storeVars, purged, reopened>>

Next ==
    \/ \E r \in Requests :
        \/ StartPatch(r) \/ Snapshot(r) \/ Extract(r) \/ Judge(r) \/ Store(r)
        \/ Close(r) \/ WriteEdge(r) \/ Choose(r) \/ ReadLoser(r) \/ ReadHeir(r)
        \/ Archive(r) \/ Purge(r) \/ Index(r)
    \/ Crash

Spec == Init /\ [][Next]_vars

-----------------------------------------------------------------------------
TypeOK ==
    /\ rows \in [Facts -> Status \cup {"absent"}]
    /\ edges \subseteq Facts \X Facts
    /\ vectors \in [Facts -> Status \cup {"absent"}]
    /\ at \in [Requests -> Phase]
    /\ target \in [Requests -> Facts \cup {Nil}]
    /\ fact \in [Requests -> Facts \cup {Nil}]
    /\ copy \in [Requests -> Status \cup {"absent"}]
    /\ victim \in [Requests -> Facts \cup {Nil}]
    /\ heir \in [Requests -> Facts \cup {Nil}]
    /\ known \in [Requests -> SUBSET Facts]
    /\ todo \in [Requests -> [fact : Facts \cup {Nil},
                              status : Status \cup {"absent"}, next : Phase]]
    /\ purged \subseteq Facts /\ reopened \subseteq Facts
    /\ muddled \subseteq Facts /\ cut \subseteq Facts

(* Rows and SUPERSEDES edges tell the same.  store.py:931 "closing a fact  *)
(* and pointing it at nothing would strand it with no current version": a  *)
(* superseded fact is pointed at by the row of its successor, unless the   *)
(* request that closes it is still at work or somebody erased a fact.  And *)
(* what an edge points at reads closed, unless a merge wrote back an older *)
(* copy, or the fact was erased, or is stored next.  Only a crash of the   *)
(* request that was at the fact leaves one without the other.              *)
EdgesTellSupersession ==
    /\ \A l \in Facts \ cut :
        rows[l] = "superseded" =>
            \/ \E w \in Present : <<w, l>> \in edges
            \/ \E r \in Writers : victim[r] = l /\ at[r] # "done"
            \/ purged # {}
    /\ \A e \in edges :
        \/ rows[e[2]] \in Closed
        \/ e[2] \in purged \cup reopened \cup cut
        \/ \E r \in Writers : at[r] = "store" /\ fact[r] = e[2]

(* store.py:886 "kept in sync": the index agrees with the row of a fact    *)
(* once no index write of it is due, unless two of them were under way at  *)
(* once, one failed, or a crash cut one off.                               *)
IndexAgreesUnlessMuddled ==
    \A f \in Facts \ muddled :
        vectors[f] = rows[f] \/ \E r \in Requests : todo[r].fact = f

-----------------------------------------------------------------------------
(* What the documentation says and the code does not do.                   *)

(* store.py:985 "the irreversible erase": an erased fact is in no row and  *)
(* on no edge.                                                             *)
PurgedStaysErased ==
    \A f \in purged : rows[f] = "absent" /\ Touching(f) = {}
=============================================================================
