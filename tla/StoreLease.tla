----------------------------- MODULE StoreLease -----------------------------
(***************************************************************************)
(* What the per-user store manager of server/stores.py promises to the     *)
(* requests that borrow from it: the store handed to a borrower is open    *)
(* and stays open until that borrower gives it back; a closed store is     *)
(* never reopened under the same identity and never handed out.            *)
(*                                                                         *)
(* Nothing is said of caches, counters or eviction: StoreManager.tla has   *)
(* those and implements this module.                                       *)
(***************************************************************************)
CONSTANTS
    Clients,    \* threads that borrow: request handlers and job workers
    Handles,    \* identities of opened SodaMem objects
    NoHandle    \* what a client that borrows nothing holds

VARIABLES
    handle,     \* handle[h]: "unused", "open" or "closed"
    lease       \* lease[c]: the handle client c has borrowed, or NoHandle

leaseVars == <<handle, lease>>

Free(l) == {h \in Handles : \A c \in Clients : l[c] # h}

Init ==
    /\ handle = [h \in Handles |-> "unused"]
    /\ lease = [c \in Clients |-> NoHandle]

(* A step may close stores, but only open ones that nobody has borrowed    *)
(* once the step is done.                                                  *)
Closing(S, opened) ==
    /\ S \subseteq {h \in Handles : h \in opened \/ handle[h] = "open"}
    /\ S \subseteq Free(lease')
    /\ handle' = [h \in Handles |->
                    IF h \in S THEN "closed"
                    ELSE IF h \in opened THEN "open" ELSE handle[h]]

Borrow(c, h) ==
    /\ lease[c] = NoHandle
    /\ handle[h] # "closed"
    /\ lease' = [lease EXCEPT ![c] = h]
    /\ \E S \in SUBSET Handles : Closing(S, {h})

GiveBack(c) ==
    /\ lease[c] # NoHandle
    /\ lease' = [lease EXCEPT ![c] = NoHandle]
    /\ \E S \in SUBSET Handles : Closing(S, {})

Reclaim ==
    /\ UNCHANGED lease
    /\ \E S \in SUBSET Handles : Closing(S, {})

Next ==
    \/ \E c \in Clients, h \in Handles : Borrow(c, h)
    \/ \E c \in Clients : GiveBack(c)
    \/ Reclaim

Spec == Init /\ [][Next]_leaseVars
=============================================================================
