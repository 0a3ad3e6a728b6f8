--------------------------- MODULE VectorSystems ----------------------------
(***************************************************************************)
(* sodamem/memory/storage/store.py: the ChromaDB System under each opened  *)
(* store, composed with StoreManager.                                      *)
(*                                                                         *)
(* chromadb keeps one System per directory in a process-wide registry: a   *)
(* PersistentClient on a directory that has an entry shares its System.    *)
(* Store._close_chroma stops the System of the store it closes and drops   *)
(* the directory's entry.  A System is named after the handle that         *)
(* created it.                                                             *)
(***************************************************************************)
EXTENDS StoreManager

VARIABLES
    system,     \* system[h]: the System behind h; NoHandle when h was never
                \* opened
    running,    \* the Systems that have not been stopped
    registry,   \* chromadb's registry: user directory -> System, or NoHandle
    met         \* history: stores of one user that were open together

vectorVars == <<system, running, registry, met>>
allVars == <<vars, vectorVars>>

Init2 ==
    /\ Init
    /\ system = [h \in Handles |-> NoHandle]
    /\ running = {}
    /\ registry = [u \in Users |-> NoHandle]
    /\ met = {}

Turned(before, after) ==
    {h \in Handles : handle[h] # after /\ handle'[h] = after /\ handle[h] \in before}
Opening == Turned({"unused"}, "open")
ClosingNow == Turned({"open"}, "closed")

SystemFor(h) == IF registry[Owner[h]] = NoHandle THEN h ELSE registry[Owner[h]]

StoppedBy(S) == {system[h] : h \in S}

(* The directories whose entry goes when the stores of S are closed.       *)
MutKeepsEntry(S) == {}
DroppedBy(S) == {Owner[h] : h \in S}

Together(status) ==
    {p \in Handles \X Handles :
        /\ p[1] # p[2] /\ Owner[p[1]] = Owner[p[2]]
        /\ status[p[1]] = "open" /\ status[p[2]] = "open"}

(* What opening and closing stores in one step of the manager does to the  *)
(* Systems.  Stopping a System again may raise, which _close_chroma        *)
(* swallows before it reaches the registry: `kept' are those entries.      *)
VectorStep ==
    \E kept \in SUBSET {h \in ClosingNow : system[h] \notin running} :
        LET dropped == DroppedBy(ClosingNow \ kept)
            added == {h \in Opening : SystemFor(h) = h}
        IN  /\ system' = [h \in Handles |->
                            IF h \in Opening THEN SystemFor(h) ELSE system[h]]
            /\ running' = (running \cup added) \ StoppedBy(ClosingNow)
            /\ registry' = [u \in Users |->
                              IF u \in dropped THEN NoHandle
                              ELSE IF Of(Opening, u) = {} THEN registry[u]
                              ELSE SystemFor(CHOOSE h \in Opening : Owner[h] = u)]
            /\ met' = met \cup Together(handle')

Next2 == Next /\ VectorStep

Spec2 == Init2 /\ [][Next2]_allVars

-----------------------------------------------------------------------------
(* The index of an open store answers unless a store of the same user that *)
(* was open together with it has been closed.  Whatever was closed before  *)
(* it was opened, and however often, left no stopped System to be shared:  *)
(* "a later re-open of the same path rebuilds cleanly" (store.py:447).     *)
IndexOutlivesStrangers ==
    \A h \in Handles :
        /\ handle[h] = "open"
        /\ \A g \in Handles : <<g, h>> \in met => handle[g] # "closed"
        => system[h] \in running
=============================================================================
