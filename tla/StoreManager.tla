---------------------------- MODULE StoreManager ----------------------------
(***************************************************************************)
(* server/stores.py: the StoreManager, one LRU cache of opened per-user    *)
(* stores shared by the request threads and the job workers.               *)
(*                                                                         *)
(* Every public method runs under one mutex, so each is one action.  The   *)
(* interleaving is that of borrowers: a store may be evicted while it is   *)
(* borrowed, and its user may be opened again before it is given back.     *)
(*                                                                         *)
(* An opened SodaMem is a handle.  Owner[h] is the user whose directory it *)
(* opens; the manager never sees two users share one.  The three tables    *)
(* of the class are keyed by user_id; `cache' and `pending' hold the       *)
(* handles (the values), `inflight' is the counter table with 0 for a      *)
(* missing key.  The OrderedDict's order is the relation `older'.          *)
(***************************************************************************)
EXTENDS Integers, FiniteSets

CONSTANTS
    Users,
    Clients,        \* threads that borrow: request handlers and job workers
    Handles,        \* identities of opened SodaMem objects
    NoHandle,       \* what a client that borrows nothing holds
    Owner,          \* Owner[h] is the user whose store h opens
    Cap,            \* settings.store_cache_max
    MaxAbandoned    \* bound: borrows that are never given back, per user

ASSUME StoreManagerAssumption ==
    /\ Cap \in Nat \ {0}
    /\ MaxAbandoned \in Nat
    /\ IsFiniteSet(Clients)
    /\ NoHandle \notin Handles
    /\ Owner \in [Handles -> Users]

VARIABLES
    cache,      \* _cache: the handles new callers may be given
    older,      \* the order of _cache: <<u, v>> when u is nearer the LRU end
    inflight,   \* _inflight: user -> number of borrows
    pending,    \* _pending_close: evicted while borrowed, to be closed later
    handle,     \* handle[h]: "unused", "open" or "closed"
    lease,      \* lease[c]: the handle client c works with, or NoHandle
    abandoned   \* history: borrows of a user whose route returned without
                \* release()

managerVars == <<cache, older, inflight, pending>>
vars == <<cache, older, inflight, pending, handle, lease, abandoned>>

-----------------------------------------------------------------------------
Of(S, u) == {h \in S : Owner[h] = u}
IdleIn(S, count) == {h \in S : count[Owner[h]] = 0}
Excess(S) == IF Cardinality(S) > Cap THEN Cardinality(S) - Cap ELSE 0

(* The n handles of S nearest the LRU end.                                 *)
Oldest(S, n, order) ==
    {h \in S : Cardinality({g \in S : <<Owner[g], Owner[h]>> \in order}) < n}

(* move_to_end(u), or the insertion of u, in a cache that holds S.         *)

MovedToEnd(u, S) ==
    LET others == {Owner[h] : h \in S} \ {u}
    IN  {p \in older : p[1] # u /\ p[2] # u} \cup (others \X {u})

OrderOf(S, order) ==
    {p \in order : \A i \in {1, 2} : Of(S, p[i]) # {}}

(* _evict_locked, first loop: what is idle goes first, closed at once.     *)
MutEvictWhoeverIsOldest(S, order, count) == Oldest(S, Excess(S), order)

EvictIdle(S, order, count) == Oldest(IdleIn(S, count), Excess(S), order)

(* _evict_locked, second loop: what is still over the cap is borrowed; it  *)
(* leaves the cache and its close waits for the last release.              *)

EvictBorrowed(S, order) == Oldest(S, Excess(S), order)

(* d[Owner[h]] = h for every h of S: an earlier entry of that user is      *)
(* overwritten.                                                            *)
MutForgetEvicted(d, S) == d

Overwrite(d, S) ==
    {h \in d : \A g \in S : Owner[g] # Owner[h]} \cup S

(* release(): the borrow of u is taken off the counter; the last one also  *)
(* closes the store of u that waits for it.                                *)
MutUncountAll(u) == [inflight EXCEPT ![u] = 0]

Uncounted(u) == [inflight EXCEPT ![u] = @ - 1]

Drained(u, count) == IF count[u] = 0 THEN Of(pending, u) ELSE {}

(* close_all(): what nobody holds is closed.                               *)
MutTeardownClosesAll == cache

TeardownCloses == IdleIn(cache, inflight)

Closed(S) == [h \in Handles |-> IF h \in S THEN "closed" ELSE handle[h]]

-----------------------------------------------------------------------------
Init ==
    /\ cache = {}
    /\ older = {}
    /\ inflight = [u \in Users |-> 0]
    /\ pending = {}
    /\ handle = [h \in Handles |-> "unused"]
    /\ lease = [c \in Clients |-> NoHandle]
    /\ abandoned = [u \in Users |-> 0]

(* The part of get() after the store is at hand: cache it as the newest    *)
(* entry, count the borrow, trim the cache.                                *)
HandOut(c, h) ==
    LET u == Owner[h]
        full == cache \cup {h}
        order == MovedToEnd(u, full)
        count == [inflight EXCEPT ![u] = @ + 1]
        closing == EvictIdle(full, order, count)
        deferred == EvictBorrowed(full \ closing, order)
        kept == (full \ closing) \ deferred
    IN  /\ lease' = [lease EXCEPT ![c] = h]
        /\ inflight' = count
        /\ cache' = kept
        /\ older' = OrderOf(kept, order)
        /\ pending' = Overwrite(pending, deferred)
        /\ handle' = [g \in Handles |->
                        IF g \in closing THEN "closed"
                        ELSE IF g = h THEN "open" ELSE handle[g]]
        /\ UNCHANGED abandoned

GetCached(c, h) ==
    /\ lease[c] = NoHandle
    /\ h \in cache
    /\ HandOut(c, h)

(* The open that fails raises before the tables are touched: it changes    *)
(* nothing here and the caller holds nothing.                              *)
GetOpened(c, h) ==
    /\ lease[c] = NoHandle
    /\ Of(cache, Owner[h]) = {}
    /\ handle[h] = "unused"
    /\ HandOut(c, h)

(* release(): called with the user, not with the store.                    *)
Release(c) ==
    /\ lease[c] # NoHandle
    /\ LET u == Owner[lease[c]]
           count == Uncounted(u)
           drained == Drained(u, count)
           evicted == IF count[u] = 0
                      THEN EvictIdle(cache, older, count) ELSE {}
           deferred == IF count[u] = 0
                       THEN EvictBorrowed(cache \ evicted, older) ELSE {}
           kept == (cache \ evicted) \ deferred
       IN  /\ lease' = [lease EXCEPT ![c] = NoHandle]
           /\ inflight' = count
           /\ pending' = Overwrite(pending \ drained, deferred)
           /\ cache' = kept
           /\ older' = OrderOf(kept, older)
           /\ handle' = Closed(drained \cup evicted)
           /\ UNCHANGED abandoned

(* A route that calls get() and returns without release(): the store is    *)
(* no longer used but stays counted for ever.                              *)
Abandon(c) ==
    /\ lease[c] # NoHandle
    /\ abandoned[Owner[lease[c]]] < MaxAbandoned
    /\ lease' = [lease EXCEPT ![c] = NoHandle]
    /\ abandoned' = [abandoned EXCEPT ![Owner[lease[c]]] = @ + 1]
    /\ UNCHANGED <<cache, older, inflight, pending, handle>>

(* close_all(): idle stores are closed; a borrowed one becomes pending,    *)
(* unless its user already has a pending store (setdefault).               *)
CloseAll ==
    LET idle == TeardownCloses
        handedOver == {h \in cache \ idle : Of(pending, Owner[h]) = {}}
        waiting == pending \cup handedOver
        drained == IdleIn(waiting, inflight)
    IN  /\ cache # {} \/ pending # {}
        /\ cache' = {}
        /\ older' = {}
        /\ pending' = waiting \ drained
        /\ handle' = Closed(idle \cup drained)
        /\ UNCHANGED <<inflight, lease, abandoned>>

Next ==
    \/ \E c \in Clients, h \in Handles : GetCached(c, h)
    \/ \E c \in Clients, h \in Handles : GetOpened(c, h)
    \/ \E c \in Clients : Release(c)
    \/ \E c \in Clients : Abandon(c)
    \/ CloseAll

Spec == Init /\ [][Next]_vars

-----------------------------------------------------------------------------
TypeOK ==
    /\ cache \in SUBSET Handles
    /\ older \in SUBSET (Users \X Users)
    /\ inflight \in [Users -> Nat]
    /\ pending \in SUBSET Handles
    /\ handle \in [Handles -> {"unused", "open", "closed"}]
    /\ lease \in [Clients -> Handles \cup {NoHandle}]
    /\ abandoned \in [Users -> Nat]

Borrowers(u) == {c \in Clients : lease[c] # NoHandle /\ Owner[lease[c]] = u}

(* A borrowed store is open: neither eviction, nor the release of another  *)
(* borrower, nor close_all closes it under the borrower (stores.py:227     *)
(* "A store with a non-zero count is never closed, evicted or not").       *)
BorrowedIsOpen ==
    \A c \in Clients : lease[c] # NoHandle => handle[lease[c]] = "open"

(* The counter of a user is the number of its live borrows plus those no   *)
(* route will ever give back: no release is counted twice or lost, across  *)
(* the several handles a user may have at once.                            *)
InflightCountsBorrows ==
    \A u \in Users : inflight[u] = Cardinality(Borrowers(u)) + abandoned[u]

(* Whatever can still be handed out or is still waiting for its close is   *)
(* open, and no handle is both: a drained handle is never handed out, a    *)
(* handle is never closed twice.                                           *)
TablesHoldOpenStores ==
    /\ \A h \in cache \cup pending : handle[h] = "open"
    /\ cache \cap pending = {}

(* The books of the manager, which every operation goes by, tell what is   *)
(* so: the counters who borrows, the tables what can be handed out or is   *)
(* to be closed.                                                           *)
BooksAreExact == InflightCountsBorrows /\ TablesHoldOpenStores

(* No store is forgotten: an open store is cached, or waits for a close    *)
(* that a borrow still to be given back will trigger; one that is in       *)
(* neither table exists only for a user who was opened again while an      *)
(* evicted store of theirs was still borrowed.                             *)
EscapesOnlyByReopening ==
    /\ \A h \in pending : inflight[Owner[h]] > 0
    /\ \A h \in Handles :
          handle[h] = "open" /\ h \notin cache \cup pending
              => \E g \in Of(Handles, Owner[h]) \ {h} : handle[g] # "unused"

(* The inductive invariant behind BorrowedIsOpen.                          *)
IInv == TypeOK /\ BorrowedIsOpen /\ InflightCountsBorrows /\ TablesHoldOpenStores

(* The manager implements the lease contract.                              *)
Contract == INSTANCE StoreLease
LeaseContract == Contract!Spec

-----------------------------------------------------------------------------
(* What the documentation of the class says and the code does not do.      *)

(* stores.py:450 "Deferring is not a leak": every open store is cached,    *)
(* awaits its deferred close, or was abandoned by its route.               *)
DeferringIsNotALeak ==
    \A h \in Handles : handle[h] = "open" => h \in cache \cup pending
=============================================================================
