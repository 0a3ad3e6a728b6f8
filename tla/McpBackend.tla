----------------------------- MODULE McpBackend -----------------------------
(***************************************************************************)
(* mcp_server/backend.py and main.py: one server process per coding tool,  *)
(* which opens the stores itself (LocalBackend, under the lock of the data *)
(* root) or calls the running service (RemoteBackend).  The tools are the  *)
(* same in both modes.                                                     *)
(*                                                                         *)
(* A remote caller stops waiting while the service goes on with its work;  *)
(* a call without a session id gets a new one each time it is made.        *)
(***************************************************************************)
EXTENDS Integers, FiniteSets, Sequences, SequencesExt

CONSTANTS
    Agents,       \* server processes, with one tool call at a time each
    Service,      \* the HTTP service
    Nobody,
    Turns,        \* what may be remembered
    Named,        \* session ids an agent gives
    Fresh,        \* bound: session ids of new_session_id
    MaxAdds,      \* bound: adds begun
    DefaultLimit, \* RetrievalConfig.default_limit, 80 in the code
    MaxRanked,    \* bound: evidence of a search
    MaxTopK       \* bound of top_k

McpAssumption ==
    /\ Service # Nobody /\ {Service, Nobody} \cap Agents = {} /\ Named \cap Fresh = {}
    /\ {DefaultLimit, MaxRanked, MaxTopK, MaxAdds} \subseteq Nat

VARIABLES
    how,     \* build_backend: "local" or "remote", and whether writes are on
    on,      \* server processes that run
    opener,  \* the process that holds the lock, and so opens the stores
    adds,    \* how many adds were begun
    work,    \* adds in progress: [by, turn, session, at, copy]
    spans,   \* the turn the store has of a session
    row,     \* status of the fact told by a turn of a session
    told,    \* what tools answered: [is, memory]
    doubt,   \* history: turns of adds that ended in an error
    raced    \* history: facts deleted while an add had read their row

vars == <<how, on, opener, adds, work, spans, row, told, doubt, raced>>

Sessions == Named \cup Fresh
Memories == Turns \X Sessions
Remote(a) == how[a].mode = "remote"
MayWrite(a) == a \in on /\ how[a].writes
Reaches(a) == opener = IF Remote(a) THEN Service ELSE a
Working(a) == \E w \in work : w.by = a
Tell(what, m) == told' = told \cup {[is |-> what, memory |-> m]}
Memory(w) == <<w.turn, w.session>>
Unread == "unread"
-----------------------------------------------------------------------------
Init ==
    /\ how \in [Agents -> [mode : {"local", "remote"}, writes : BOOLEAN]]
    /\ on = {} /\ opener = Nobody
    /\ adds = 0 /\ work = {} /\ spans = {} /\ row = [m \in Memories |-> "absent"]
    /\ told = {} /\ doubt = {} /\ raced = {}

(* LocalBackend takes the lock or does not start; RemoteBackend asks       *)
(* nothing of the service yet.                                             *)
Start(a) ==
    /\ a \notin on
    /\ IF Remote(a) THEN UNCHANGED opener
       ELSE opener = Nobody /\ opener' = a
    /\ on' = on \cup {a}
    /\ UNCHANGED <<how, adds, work, spans, row, told, doubt, raced>>

(* An editor ends its server: what the service does for it goes on.        *)
End(a) ==
    /\ a \in on /\ on' = on \ {a}
    /\ opener' = IF opener = a THEN Nobody ELSE opener
    /\ work' = {w \in work : w.by # a}
                \cup {[w EXCEPT !.by = Nobody] : w \in {v \in work : v.by = a /\ Remote(a)}}
    /\ doubt' = doubt \cup {w.turn : w \in {v \in work : v.by = a}}
    /\ UNCHANGED <<how, adds, spans, row, told, raced>>

ServiceStarts ==
    /\ opener = Nobody /\ opener' = Service
    /\ UNCHANGED <<how, adds, on, work, spans, row, told, doubt, raced>>

(* Every caller is told that the service cannot be reached.                *)
ServiceStops ==
    /\ opener = Service /\ opener' = Nobody
    /\ work' = {} /\ doubt' = doubt \cup {w.turn : w \in work}
    /\ UNCHANGED <<how, adds, on, spans, row, told, raced>>

-----------------------------------------------------------------------------
Used == {w.session : w \in work} \cup {m[2] : m \in spans}

(* add_memories: a turn is of one conversation, and is added again only    *)
(* when an error was the answer.  A call that reaches nobody ends at once. *)
Add(a) ==
    /\ MayWrite(a) /\ ~Working(a) /\ Reaches(a)
    /\ adds < MaxAdds /\ adds' = adds + 1
    /\ \E t \in Turns, s \in Named \cup (Fresh \ Used) :
        /\ \A m \in {t} \X Sessions : [is |-> "stored", memory |-> m] \notin told
        /\ \A w \in work : w.turn = t => t \in doubt
        /\ work' = work \cup {[by |-> a, turn |-> t, session |-> s, at |-> "begun", copy |-> Unread]}
    /\ UNCHANGED <<how, on, opener, spans, row, told, doubt, raced>>

Replace(w, v) == work' = (work \ {w}) \cup {v}

(* mem.ingest: the turn first, under the session and its place in this     *)
(* add: what an earlier add to the session kept there is overwritten, ...  *)
StoreTurns(w) ==
    /\ w.at = "begun"
    /\ spans' = {m \in spans : m[2] # w.session} \cup {Memory(w)}
    /\ Replace(w, [w EXCEPT !.at = "stored"])
    /\ UNCHANGED <<how, adds, on, opener, row, told, doubt, raced>>

(* ... then the row the fact is merged into is read, if there is one, ...  *)
ReadRow(w) ==
    /\ w.at = "stored"
    /\ Replace(w, [w EXCEPT !.at = "read", !.copy = row[Memory(w)]])
    /\ UNCHANGED <<how, adds, on, opener, spans, row, told, doubt, raced>>

MutAnswered(w) == w.at # "stored"
Answered(w) == w.at = "read"

(* ... and written with the status it had; or no fact is extracted.        *)
Answer(w) ==
    /\ Answered(w) /\ work' = work \ {w}
    /\ \/ UNCHANGED row
       \/ row' = [row EXCEPT ![Memory(w)] = IF w.copy = "archived" THEN w.copy ELSE "active"]
    /\ IF w.by = Nobody THEN UNCHANGED told ELSE Tell("stored", Memory(w))
    /\ UNCHANGED <<how, adds, on, opener, spans, doubt, raced>>

(* SodaMemError, or the error envelope: no extractor, or no model.         *)
Fail(w) ==
    /\ work' = work \ {w} /\ doubt' = doubt \cup {w.turn}
    /\ UNCHANGED <<how, adds, on, opener, spans, row, told, raced>>

(* INGEST_TIMEOUT_S, or a broken connection.                               *)
GiveUp(a) ==
    /\ Remote(a) /\ \E w \in work :
        /\ w.by = a /\ Replace(w, [w EXCEPT !.by = Nobody])
        /\ doubt' = doubt \cup {w.turn}
    /\ UNCHANGED <<how, adds, on, opener, spans, row, told, raced>>

(* delete_memory; the answer of a service may be lost.  Of an unknown id   *)
(* the local tool says so and the remote one that nothing was deleted:     *)
(* nothing changes.                                                        *)
Deleted(m) == row[m] \in {"active", "archived"}

Delete(a) ==
    /\ MayWrite(a) /\ ~Working(a) /\ Reaches(a)
    /\ \E m \in Memories :
        /\ Deleted(m) /\ row' = [row EXCEPT ![m] = "archived"]
        /\ raced' = IF \E w \in work : Memory(w) = m /\ w.copy \in {"active", "absent"}
                    THEN raced \cup {m} ELSE raced
        /\ Tell("deleted", m) \/ (Remote(a) /\ UNCHANGED told)
    /\ UNCHANGED <<how, adds, on, opener, work, spans, doubt>>

Next ==
    \/ \E a \in Agents : Start(a) \/ End(a) \/ Add(a) \/ GiveUp(a) \/ Delete(a)
    \/ \E w \in work : StoreTurns(w) \/ ReadRow(w) \/ Answer(w) \/ Fail(w)
    \/ ServiceStarts \/ ServiceStops

Spec == Init /\ [][Next]_vars
-----------------------------------------------------------------------------
(* search_memory over the evidence of one search, best first: facts, raw   *)
(* turns without one, and what is of other projects than the one asked     *)
(* for, which is left out after the limit has cut.  A result is the places *)
(* of the facts it has.                                                    *)
Rankings == SeqOf({"fact", "turn", "other"}, MaxRanked)
Places(what, ranked, n) == {i \in DOMAIN ranked : i <= n /\ ranked[i] = what}
FirstOf(k, S) == {i \in S : Cardinality({j \in S : j < i}) < k}

LocalSearch(ranked, k) == FirstOf(k, Places("fact", ranked, DefaultLimit))

MutRemoteLimit(k) == k - 1
RemoteLimit(k) == k
RemoteSearch(ranked, k) == FirstOf(k, Places("fact", ranked, RemoteLimit(k)))

TypeOK ==
    /\ how \in [Agents -> [mode : {"local", "remote"}, writes : BOOLEAN]]
    /\ adds \in 0..MaxAdds /\ on \subseteq Agents /\ opener \in on \cup {Service, Nobody}
    /\ work \subseteq [by : Agents \cup {Nobody}, turn : Turns, session : Sessions,
                       at : {"begun", "stored", "read"},
                       copy : {Unread, "absent", "active", "archived"}]
    /\ spans \subseteq Memories /\ row \in [Memories -> {"absent", "active", "archived"}]
    /\ told \subseteq [is : {"stored", "deleted"}, memory : Memories]
    /\ doubt \subseteq Turns /\ raced \subseteq Memories

(* What a tool answered is so, whatever other tools, a service that is     *)
(* restarted and adds nobody waits for do: what is said to be stored is,   *)
(* unless a later add to its session took its place, which none can do to  *)
(* a session the tool made; what was deleted stays out unless an add was   *)
(* about to write it; and a turn is stored twice only after an error.      *)
AnswersAreTrue ==
    /\ \A e \in told : e.is = "stored" =>
        \/ e.memory \in spans
        \/ e.memory[2] \in Named /\ \E t \in Turns : <<t, e.memory[2]>> \in spans
    /\ \A e \in told : e.is = "deleted" =>
        /\ \E t \in Turns : <<t, e.memory[2]>> \in spans
        /\ row[e.memory] = "archived" \/ e.memory \in raced
    /\ \A t \in Turns : Cardinality(spans \cap ({t} \X Sessions)) > 1 => t \in doubt

(* "a tool whose output depends on which mode the server happens to be in  *)
(* is a bug": the modes find the same facts, except those that raw turns   *)
(* and other projects displace in the service, which cuts before it leaves *)
(* them out, and those past the default limit of the local one.            *)
BeginsWith(S, T) == T \subseteq S /\ \A i \in T, j \in S : j < i => j \in T

ModesFindTheSame ==
    \A ranked \in Rankings, k \in 1..MaxTopK :
        LET here == LocalSearch(ranked, k)
            there == RemoteSearch(ranked, k)
        IN IF k <= DefaultLimit
           THEN /\ BeginsWith(here, there)
                /\ Cardinality(here \ there) <=
                        Cardinality(Places("turn", ranked, k) \cup Places("other", ranked, k))
           ELSE BeginsWith(there, here)
=============================================================================
