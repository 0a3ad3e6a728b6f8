------------------------- MODULE StoreManagerProofs -------------------------
(***************************************************************************)
(* Proofs about StoreManager for every set of users, borrowers and stores  *)
(* and every cap: the inductive invariant IInv, the two properties it is   *)
(* there for, the refinement of StoreLease, which stores escape a bounded  *)
(* shutdown, and what the vector index of a store no other shares answers. *)
(***************************************************************************)
EXTENDS VectorSystems, FiniteSetTheorems, WellFoundedInduction, TLAPS

(* The counter of a user somebody borrows from is positive: stated of any  *)
(* lease function and any counters so that it applies before and after a   *)
(* step.                                                                   *)
LEMMA BorrowIsCounted ==
    ASSUME NEW l \in [Clients -> Handles \cup {NoHandle}],
           NEW n, NEW a \in [Users -> Nat],
           \A u \in Users :
               n[u] = Cardinality({c \in Clients :
                        l[c] # NoHandle /\ Owner[l[c]] = u}) + a[u],
           NEW c \in Clients, l[c] # NoHandle
    PROVE  n[Owner[l[c]]] > 0
<1> DEFINE u == Owner[l[c]]
           B == {d \in Clients : l[d] # NoHandle /\ Owner[l[d]] = u}
<1>1. u \in Users
  BY StoreManagerAssumption
<1>2. IsFiniteSet(B)
  <2>1. B \subseteq Clients
    OBVIOUS
  <2> HIDE DEF B
  <2> QED BY <2>1, FS_Subset, StoreManagerAssumption
<1>3. c \in B
  OBVIOUS
<1>4. Cardinality(B) \in Nat /\ Cardinality(B) # 0
  <2> HIDE DEF B
  <2> QED BY <1>2, <1>3, FS_CardinalityType, FS_EmptySet
<1>5. n[u] = Cardinality(B) + a[u]
  BY <1>1
<1>6. a[u] \in Nat
  BY <1>1
<1> HIDE DEF B, u
<1> QED BY <1>4, <1>5, <1>6 DEF u

(* Borrowing adds one to the counter of the owner and to its borrowers.    *)
LEMMA CountAfterBorrow ==
    ASSUME TypeOK, InflightCountsBorrows,
           NEW c \in Clients, NEW h \in Handles, lease[c] = NoHandle,
           lease' = [lease EXCEPT ![c] = h],
           inflight' = [inflight EXCEPT ![Owner[h]] = @ + 1],
           abandoned' = abandoned
    PROVE  InflightCountsBorrows'
<1> SUFFICES ASSUME NEW u \in Users
             PROVE  inflight'[u] = Cardinality(Borrowers(u)') + abandoned'[u]
  BY DEF InflightCountsBorrows
<1>1. Owner[h] \in Users /\ h # NoHandle
  BY StoreManagerAssumption
<1>2. IsFiniteSet(Borrowers(u)) /\ Cardinality(Borrowers(u)) \in Nat
  <2>1. Borrowers(u) \subseteq Clients
    BY DEF Borrowers
  <2> QED BY <2>1, FS_Subset, FS_CardinalityType, StoreManagerAssumption
<1>3. inflight[u] = Cardinality(Borrowers(u)) + abandoned[u] /\ abandoned[u] \in Nat
  BY DEF InflightCountsBorrows, TypeOK
<1>4. CASE u = Owner[h]
  <2>1. Borrowers(u)' = Borrowers(u) \cup {c} /\ c \notin Borrowers(u)
    BY <1>1, <1>4 DEF Borrowers, TypeOK
  <2>2. Cardinality(Borrowers(u)') = Cardinality(Borrowers(u)) + 1
    BY <2>1, <1>2, FS_AddElement
  <2>3. inflight'[u] = inflight[u] + 1
    BY <1>4 DEF TypeOK
  <2> QED BY <2>2, <2>3, <1>2, <1>3
<1>5. CASE u # Owner[h]
  <2>1. Borrowers(u)' = Borrowers(u)
    BY <1>1, <1>5 DEF Borrowers, TypeOK
  <2>2. inflight'[u] = inflight[u]
    BY <1>5 DEF TypeOK
  <2> QED BY <2>1, <2>2, <1>3
<1> QED BY <1>4, <1>5

(* A client that lets go leaves the borrowers of its store's owner, and    *)
(* nobody else's.                                                          *)
LEMMA BorrowersAfterReturn ==
    ASSUME TypeOK, NEW c \in Clients, lease[c] # NoHandle,
           lease' = [lease EXCEPT ![c] = NoHandle],
           NEW u \in Users
    PROVE  /\ Cardinality(Borrowers(u)) \in Nat
           /\ Cardinality(Borrowers(u)') =
                IF u = Owner[lease[c]] THEN Cardinality(Borrowers(u)) - 1
                                       ELSE Cardinality(Borrowers(u))
<1>1. IsFiniteSet(Borrowers(u)) /\ Cardinality(Borrowers(u)) \in Nat
  <2>1. Borrowers(u) \subseteq Clients
    BY DEF Borrowers
  <2> QED BY <2>1, FS_Subset, FS_CardinalityType, StoreManagerAssumption
<1>2. CASE u = Owner[lease[c]]
  <2>1. Borrowers(u)' = Borrowers(u) \ {c} /\ c \in Borrowers(u)
    BY <1>2 DEF Borrowers, TypeOK
  <2> QED BY <2>1, <1>1, <1>2, FS_RemoveElement
<1>3. CASE u # Owner[lease[c]]
  <2>1. Borrowers(u)' = Borrowers(u)
    BY <1>3 DEF Borrowers, TypeOK
  <2> QED BY <2>1, <1>1, <1>3
<1> QED BY <1>2, <1>3

-----------------------------------------------------------------------------
(* get(): whichever stores the two eviction loops pick, what is closed is  *)
(* counted zero after the step, so nobody has borrowed it.                 *)
LEMMA HandOutStep ==
    ASSUME IInv, NEW c \in Clients, NEW h \in Handles, lease[c] = NoHandle,
           h \in cache \/ handle[h] = "unused",
           HandOut(c, h)
    PROVE  IInv' /\ Contract!Borrow(c, h)
<1> DEFINE u == Owner[h]
           full == cache \cup {h}
           order == MovedToEnd(u, full)
           count == [inflight EXCEPT ![u] = @ + 1]
           closing == EvictIdle(full, order, count)
           deferred == EvictBorrowed(full \ closing, order)
           kept == (full \ closing) \ deferred
<1> USE DEF IInv
<1>1. u \in Users /\ h # NoHandle
  BY StoreManagerAssumption
<1>2. closing \subseteq IdleIn(full, count) /\ deferred \subseteq full \ closing
  BY DEF EvictIdle, EvictBorrowed, Oldest
<1>3. /\ lease' = [lease EXCEPT ![c] = h]
      /\ inflight' = count
      /\ cache' = kept
      /\ older' = OrderOf(kept, order)
      /\ pending' = Overwrite(pending, deferred)
      /\ handle' = [g \in Handles |->
                      IF g \in closing THEN "closed"
                      ELSE IF g = h THEN "open" ELSE handle[g]]
      /\ abandoned' = abandoned
  BY DEF HandOut
<1>4. order \in SUBSET (Users \X Users)
  BY <1>1, StoreManagerAssumption DEF MovedToEnd, TypeOK
<1>5. pending' \subseteq pending \cup deferred
  BY <1>3 DEF Overwrite
<1>6. closing \subseteq full /\ \A g \in closing : inflight'[Owner[g]] = 0
  BY <1>2, <1>3 DEF IdleIn
<1>7. full \subseteq Handles
  BY DEF TypeOK
<1>8. older' \in SUBSET (Users \X Users)
  <2> HIDE DEF order, kept
  <2> QED BY <1>3, <1>4 DEF OrderOf
<1> HIDE DEF closing, deferred, kept, full, order
<1>9. TypeOK'
  <2>1. cache' \in SUBSET Handles /\ pending' \in SUBSET Handles
    BY <1>2, <1>3, <1>5, <1>7 DEF kept, TypeOK
  <2>2. inflight' \in [Users -> Nat]
    BY <1>1, <1>3 DEF TypeOK
  <2>3. handle' \in [Handles -> {"unused", "open", "closed"}]
    BY <1>3 DEF TypeOK
  <2>4. lease' \in [Clients -> Handles \cup {NoHandle}] /\ abandoned' \in [Users -> Nat]
    BY <1>3 DEF TypeOK
  <2> QED BY <1>8, <2>1, <2>2, <2>3, <2>4 DEF TypeOK
<1>10. InflightCountsBorrows'
  BY <1>3, CountAfterBorrow
<1>11. \A d \in Clients : lease'[d] # NoHandle => lease'[d] \notin closing
  <2> SUFFICES ASSUME NEW d \in Clients, lease'[d] # NoHandle
               PROVE  inflight'[Owner[lease'[d]]] > 0
    BY <1>6
  <2>1. lease' \in [Clients -> Handles \cup {NoHandle}] /\ abandoned' \in [Users -> Nat]
    BY <1>9 DEF TypeOK
  <2>2. \A v \in Users :
          inflight'[v] = Cardinality({e \in Clients :
                     lease'[e] # NoHandle /\ Owner[lease'[e]] = v}) + abandoned'[v]
    BY <1>10 DEF InflightCountsBorrows, Borrowers
  <2> QED BY <2>1, <2>2, BorrowIsCounted
<1>12. BorrowedIsOpen'
  <2> SUFFICES ASSUME NEW d \in Clients, lease'[d] # NoHandle
               PROVE  handle'[lease'[d]] = "open"
    BY DEF BorrowedIsOpen
  <2>1. lease'[d] \in Handles /\ lease'[d] \notin closing
    BY <1>9, <1>11 DEF TypeOK
  <2>2. lease'[d] = h \/ (lease[d] # NoHandle /\ lease'[d] = lease[d])
    BY <1>3 DEF TypeOK
  <2> QED BY <1>3, <2>1, <2>2 DEF BorrowedIsOpen
<1>13. TablesHoldOpenStores'
  <2>1. \A g \in cache' \cup pending' : g \notin closing
    BY <1>2, <1>3, <1>5, <1>6 DEF kept, full, TablesHoldOpenStores, TypeOK
  <2>2. \A g \in cache' \cup pending' : g = h \/ handle[g] = "open"
    BY <1>2, <1>3, <1>5 DEF kept, full, TablesHoldOpenStores
  <2>3. \A g \in cache' \cup pending' : handle'[g] = "open"
    BY <1>3, <1>9, <2>1, <2>2 DEF TypeOK
  <2>4. cache' \cap pending' = {}
    BY <1>2, <1>3, <1>5 DEF kept, full, TablesHoldOpenStores
  <2> QED BY <2>3, <2>4 DEF TablesHoldOpenStores
<1>14. Contract!Borrow(c, h)
  <2>1. handle[h] # "closed"
    BY DEF TablesHoldOpenStores
  <2>2. closing \subseteq Contract!Free(lease')
    BY <1>6, <1>7, <1>9, <1>11, StoreManagerAssumption DEF Contract!Free, TypeOK
  <2>3. closing \subseteq {g \in Handles : g \in {h} \/ handle[g] = "open"}
    BY <1>6, <1>7 DEF full, TablesHoldOpenStores
  <2>4. handle' = [g \in Handles |->
                    IF g \in closing THEN "closed"
                    ELSE IF g \in {h} THEN "open" ELSE handle[g]]
    BY <1>3
  <2>5. Contract!Closing(closing, {h}) /\ closing \in SUBSET Handles
    BY <2>2, <2>3, <2>4 DEF Contract!Closing
  <2> QED BY <1>3, <2>1, <2>5 DEF Contract!Borrow
<1> QED BY <1>9, <1>10, <1>12, <1>13, <1>14

(* A step that only closes stores counted zero after it disturbs no        *)
(* borrower: what release(), an abandoned borrow and close_all() share.    *)
LEMMA ClosingStep ==
    ASSUME IInv, TypeOK', InflightCountsBorrows',
           NEW S \in SUBSET Handles,
           handle' = Closed(S),
           \A g \in S : handle[g] = "open" /\ inflight'[Owner[g]] = 0,
           \A d \in Clients : lease'[d] \in {lease[d], NoHandle}
    PROVE  BorrowedIsOpen' /\ Contract!Closing(S, {})
<1> USE DEF IInv
<1>1. \A d \in Clients : lease'[d] # NoHandle => lease'[d] \notin S
  <2> SUFFICES ASSUME NEW d \in Clients, lease'[d] # NoHandle
               PROVE  inflight'[Owner[lease'[d]]] > 0
    OBVIOUS
  <2>1. lease' \in [Clients -> Handles \cup {NoHandle}] /\ abandoned' \in [Users -> Nat]
    BY DEF TypeOK
  <2>2. \A v \in Users :
          inflight'[v] = Cardinality({e \in Clients :
                     lease'[e] # NoHandle /\ Owner[lease'[e]] = v}) + abandoned'[v]
    BY DEF InflightCountsBorrows, Borrowers
  <2> QED BY <2>1, <2>2, BorrowIsCounted
<1>2. BorrowedIsOpen'
  <2> SUFFICES ASSUME NEW d \in Clients, lease'[d] # NoHandle
               PROVE  handle'[lease'[d]] = "open"
    BY DEF BorrowedIsOpen
  <2>1. lease'[d] = lease[d] /\ lease'[d] \in Handles /\ lease'[d] \notin S
    BY <1>1 DEF TypeOK
  <2> QED BY <2>1 DEF BorrowedIsOpen, Closed
<1>3. S \subseteq Contract!Free(lease')
  BY <1>1, StoreManagerAssumption DEF Contract!Free
<1>4. handle' = [g \in Handles |->
                  IF g \in S THEN "closed"
                  ELSE IF g \in {} THEN "open" ELSE handle[g]]
  BY DEF Closed
<1>5. Contract!Closing(S, {})
  BY <1>3, <1>4 DEF Contract!Closing
<1> QED BY <1>2, <1>5

LEMMA ReleaseStep ==
    ASSUME IInv, NEW c \in Clients, Release(c)
    PROVE  IInv' /\ Contract!GiveBack(c)
<1> DEFINE u == Owner[lease[c]]
           count == Uncounted(u)
           drained == Drained(u, count)
           evicted == IF count[u] = 0 THEN EvictIdle(cache, older, count) ELSE {}
           deferred == IF count[u] = 0
                       THEN EvictBorrowed(cache \ evicted, older) ELSE {}
           kept == (cache \ evicted) \ deferred
<1> USE DEF IInv
<1>1. /\ lease[c] # NoHandle
      /\ lease' = [lease EXCEPT ![c] = NoHandle]
      /\ inflight' = count
      /\ pending' = Overwrite(pending \ drained, deferred)
      /\ cache' = kept
      /\ older' = OrderOf(kept, older)
      /\ handle' = Closed(drained \cup evicted)
      /\ abandoned' = abandoned
  BY DEF Release
<1>2. u \in Users
  BY <1>1, StoreManagerAssumption DEF TypeOK
<1>3. inflight[u] > 0
  BY <1>1, BorrowIsCounted DEF TypeOK, InflightCountsBorrows, Borrowers
<1>4. /\ count \in [Users -> Nat]
      /\ count[u] = inflight[u] - 1
      /\ \A v \in Users \ {u} : count[v] = inflight[v]
  BY <1>2, <1>3 DEF Uncounted, TypeOK
<1>5. /\ evicted \subseteq IdleIn(cache, count)
      /\ deferred \subseteq cache \ evicted
      /\ drained \subseteq pending
      /\ \A g \in drained : count[Owner[g]] = 0
  BY DEF EvictIdle, EvictBorrowed, Oldest, Drained, Of
<1> HIDE DEF count, drained, evicted, deferred, kept
<1>6. pending' \subseteq (pending \ drained) \cup deferred
  BY <1>1 DEF Overwrite
<1>7. older' \in SUBSET (Users \X Users)
  BY <1>1 DEF OrderOf, TypeOK
<1>8. TypeOK'
  BY <1>1, <1>4, <1>5, <1>6, <1>7 DEF TypeOK, kept, Closed
<1>9. InflightCountsBorrows'
  <2> SUFFICES ASSUME NEW v \in Users
               PROVE  inflight'[v] = Cardinality(Borrowers(v)') + abandoned'[v]
    BY DEF InflightCountsBorrows
  <2>1. inflight[v] = Cardinality(Borrowers(v)) + abandoned[v] /\ abandoned[v] \in Nat
    BY DEF InflightCountsBorrows, TypeOK
  <2>2. /\ Cardinality(Borrowers(v)) \in Nat
        /\ Cardinality(Borrowers(v)') =
               IF v = u THEN Cardinality(Borrowers(v)) - 1 ELSE Cardinality(Borrowers(v))
    BY <1>1, BorrowersAfterReturn
  <2> QED BY <1>1, <1>4, <2>1, <2>2
<1>10. \A g \in drained \cup evicted : handle[g] = "open" /\ inflight'[Owner[g]] = 0
  BY <1>1, <1>5 DEF IdleIn, TablesHoldOpenStores
<1>11. drained \cup evicted \in SUBSET Handles
  BY <1>5 DEF IdleIn, TypeOK
<1>12. \A d \in Clients : lease'[d] \in {lease[d], NoHandle}
  BY <1>1 DEF TypeOK
<1>13. BorrowedIsOpen' /\ Contract!Closing(drained \cup evicted, {})
  BY <1>1, <1>8, <1>9, <1>10, <1>11, <1>12, ClosingStep
<1>14. TablesHoldOpenStores'
  <2>1. \A g \in cache' \cup pending' : g \notin drained \cup evicted
    BY <1>1, <1>5, <1>6 DEF kept, IdleIn, TablesHoldOpenStores
  <2>2. \A g \in cache' \cup pending' : handle'[g] = "open"
    BY <1>1, <1>5, <1>6, <2>1 DEF kept, Closed, TablesHoldOpenStores, TypeOK
  <2>3. cache' \cap pending' = {}
    BY <1>1, <1>5, <1>6 DEF kept, TablesHoldOpenStores
  <2> QED BY <2>2, <2>3 DEF TablesHoldOpenStores
<1>15. Contract!GiveBack(c)
  BY <1>1, <1>11, <1>13 DEF Contract!GiveBack
<1> QED BY <1>8, <1>9, <1>13, <1>14, <1>15

LEMMA AbandonStep ==
    ASSUME IInv, NEW c \in Clients, Abandon(c)
    PROVE  IInv' /\ Contract!GiveBack(c)
<1> USE DEF IInv
<1>1. /\ lease[c] # NoHandle
      /\ lease' = [lease EXCEPT ![c] = NoHandle]
      /\ abandoned' = [abandoned EXCEPT ![Owner[lease[c]]] = @ + 1]
      /\ UNCHANGED <<cache, older, inflight, pending, handle>>
  BY DEF Abandon
<1>2. Owner[lease[c]] \in Users
  BY <1>1, StoreManagerAssumption DEF TypeOK
<1>3. TypeOK'
  BY <1>1, <1>2 DEF TypeOK
<1>4. InflightCountsBorrows'
  <2> SUFFICES ASSUME NEW v \in Users
               PROVE  inflight'[v] = Cardinality(Borrowers(v)') + abandoned'[v]
    BY DEF InflightCountsBorrows
  <2>1. inflight[v] = Cardinality(Borrowers(v)) + abandoned[v] /\ abandoned[v] \in Nat
    BY DEF InflightCountsBorrows, TypeOK
  <2>2. /\ Cardinality(Borrowers(v)) \in Nat
        /\ Cardinality(Borrowers(v)') =
               IF v = Owner[lease[c]] THEN Cardinality(Borrowers(v)) - 1
                                      ELSE Cardinality(Borrowers(v))
    BY <1>1, BorrowersAfterReturn
  <2>3. abandoned'[v] = IF v = Owner[lease[c]] THEN abandoned[v] + 1 ELSE abandoned[v]
    BY <1>1 DEF TypeOK
  <2> QED BY <1>1, <2>1, <2>2, <2>3
<1>5. handle' = Closed({})
  BY <1>1 DEF Closed, TypeOK
<1>6. \A d \in Clients : lease'[d] \in {lease[d], NoHandle}
  BY <1>1 DEF TypeOK
<1>7. BorrowedIsOpen' /\ Contract!Closing({}, {})
  BY <1>3, <1>4, <1>5, <1>6, ClosingStep
<1>8. TablesHoldOpenStores'
  BY <1>1 DEF TablesHoldOpenStores
<1>9. Contract!GiveBack(c)
  BY <1>1, <1>7 DEF Contract!GiveBack
<1> QED BY <1>3, <1>4, <1>7, <1>8, <1>9

LEMMA CloseAllStep ==
    ASSUME IInv, CloseAll
    PROVE  IInv' /\ Contract!Reclaim
<1> DEFINE idle == TeardownCloses
           handedOver == {h \in cache \ idle : Of(pending, Owner[h]) = {}}
           waiting == pending \cup handedOver
           drained == IdleIn(waiting, inflight)
<1> USE DEF IInv
<1>1. /\ cache' = {}
      /\ older' = {}
      /\ pending' = waiting \ drained
      /\ handle' = Closed(idle \cup drained)
      /\ inflight' = inflight
      /\ lease' = lease
      /\ abandoned' = abandoned
  BY DEF CloseAll
<1>2. /\ idle \subseteq cache
      /\ handedOver \subseteq cache \ idle
      /\ drained \subseteq waiting
      /\ \A g \in idle \cup drained : inflight[Owner[g]] = 0
  BY DEF TeardownCloses, IdleIn
<1>3. \A g \in waiting \cup idle : g \in Handles /\ handle[g] = "open"
  BY <1>2 DEF TypeOK, TablesHoldOpenStores
<1>4. idle \cap waiting = {}
  BY <1>2 DEF TablesHoldOpenStores
<1> HIDE DEF idle, handedOver, waiting, drained
<1>5. TypeOK'
  BY <1>1, <1>3 DEF TypeOK, Closed
<1>6. InflightCountsBorrows'
  BY <1>1 DEF InflightCountsBorrows, Borrowers
<1>7. idle \cup drained \in SUBSET Handles
  BY <1>2, <1>3
<1>8. \A g \in idle \cup drained : handle[g] = "open" /\ inflight'[Owner[g]] = 0
  BY <1>1, <1>2, <1>3
<1>9. BorrowedIsOpen' /\ Contract!Closing(idle \cup drained, {})
  BY <1>1, <1>5, <1>6, <1>7, <1>8, ClosingStep
<1>10. TablesHoldOpenStores'
  BY <1>1, <1>3, <1>4 DEF TablesHoldOpenStores, Closed
<1>11. Contract!Reclaim
  BY <1>1, <1>7, <1>9 DEF Contract!Reclaim
<1> QED BY <1>5, <1>6, <1>9, <1>10, <1>11

-----------------------------------------------------------------------------
LEMMA InitIInv == Init => IInv
<1> SUFFICES ASSUME Init PROVE IInv
  OBVIOUS
<1>1. TypeOK
  BY DEF Init, TypeOK
<1>2. InflightCountsBorrows
  <2> SUFFICES ASSUME NEW u \in Users
               PROVE  inflight[u] = Cardinality(Borrowers(u)) + abandoned[u]
    BY DEF InflightCountsBorrows
  <2>1. Borrowers(u) = {}
    BY DEF Init, Borrowers
  <2> QED BY <2>1, FS_EmptySet DEF Init
<1>3. BorrowedIsOpen /\ TablesHoldOpenStores
  BY DEF Init, BorrowedIsOpen, TablesHoldOpenStores
<1> QED BY <1>1, <1>2, <1>3 DEF IInv

(* Every step keeps IInv and is a step, or a stutter, of the contract.     *)
LEMMA NextStep ==
    ASSUME IInv, [Next]_vars
    PROVE  IInv' /\ [Contract!Next]_<<handle, lease>>
<1>1. ASSUME NEW c \in Clients, NEW h \in Handles, GetCached(c, h) \/ GetOpened(c, h)
      PROVE  IInv' /\ [Contract!Next]_<<handle, lease>>
  <2>1. /\ lease[c] = NoHandle
        /\ h \in cache \/ handle[h] = "unused"
        /\ HandOut(c, h)
    BY <1>1 DEF GetCached, GetOpened
  <2> QED BY <2>1, HandOutStep DEF Contract!Next
<1>2. ASSUME NEW c \in Clients, Release(c)
      PROVE  IInv' /\ [Contract!Next]_<<handle, lease>>
  BY <1>2, ReleaseStep DEF Contract!Next
<1>3. ASSUME NEW c \in Clients, Abandon(c)
      PROVE  IInv' /\ [Contract!Next]_<<handle, lease>>
  BY <1>3, AbandonStep DEF Contract!Next
<1>4. CASE CloseAll
  BY <1>4, CloseAllStep DEF Contract!Next
<1>5. CASE UNCHANGED vars
  BY <1>5 DEF vars, IInv, TypeOK, BorrowedIsOpen, InflightCountsBorrows,
              Borrowers, TablesHoldOpenStores
<1> QED BY <1>1, <1>2, <1>3, <1>4, <1>5 DEF Next

(* IInv holds in every reachable state.                                    *)
THEOREM Invariance == Spec => []IInv
<1>1. Init => IInv
  BY InitIInv
<1>2. IInv /\ [Next]_vars => IInv'
  BY NextStep
<1> QED BY <1>1, <1>2, PTL DEF Spec

(* The tables, counters and handles keep their types.                      *)
THEOREM TypeCorrectness == Spec => []TypeOK
<1>1. IInv => TypeOK
  BY DEF IInv
<1> QED BY <1>1, Invariance, PTL

(* No interleaving of get, release, eviction, abandoned borrows and        *)
(* close_all closes a store somebody has borrowed.                         *)
THEOREM NoUseAfterClose == Spec => []BorrowedIsOpen
<1>1. IInv => BorrowedIsOpen
  BY DEF IInv
<1> QED BY <1>1, Invariance, PTL

(* The counters are exact: _inflight is the live borrows plus those their  *)
(* routes dropped.                                                         *)
THEOREM CountersExact == Spec => []InflightCountsBorrows
<1>1. IInv => InflightCountsBorrows
  BY DEF IInv
<1> QED BY <1>1, Invariance, PTL

(* What can be handed out or awaits its close is open, and never both.     *)
THEOREM TablesConsistent == Spec => []TablesHoldOpenStores
<1>1. IInv => TablesHoldOpenStores
  BY DEF IInv
<1> QED BY <1>1, Invariance, PTL

(* Both at once: what the manager has written down is what is so.          *)
THEOREM BooksStayExact == Spec => []BooksAreExact
<1>1. InflightCountsBorrows /\ TablesHoldOpenStores <=> BooksAreExact
  BY DEF BooksAreExact
<1> QED BY <1>1, CountersExact, TablesConsistent, PTL

(* The manager implements the lease contract.                              *)
THEOREM ImplementsLease == Spec => LeaseContract
<1>1. Init => Contract!Init
  BY DEF Init, Contract!Init
<1>2. IInv /\ [Next]_vars => [Contract!Next]_<<handle, lease>>
  BY NextStep
<1> QED BY <1>1, <1>2, Invariance, PTL
        DEF Spec, LeaseContract, Contract!Spec, Contract!leaseVars

-----------------------------------------------------------------------------
(* The order of the cache, on the stores themselves: one store of a user,  *)
(* and one line of users.                                                  *)
Linear(S, order) ==
    /\ \A g, h \in S : Owner[g] = Owner[h] => g = h
    /\ \A g \in S : <<Owner[g], Owner[g]>> \notin order
    /\ \A g, h \in S : g = h \/ <<Owner[g], Owner[h]>> \in order \/ <<Owner[h], Owner[g]>> \in order
    /\ \A f, g, h \in S :
          <<Owner[f], Owner[g]>> \in order /\ <<Owner[g], Owner[h]>> \in order
              => <<Owner[f], Owner[h]>> \in order

Older(S, h, order) == {g \in S : <<Owner[g], Owner[h]>> \in order}

(* A nonempty part of a finite line has an oldest store.                   *)
LEMMA OldestExists ==
    ASSUME NEW S, IsFiniteSet(S), NEW order, Linear(S, order),
           NEW T \in SUBSET S, T # {}
    PROVE  \E x \in T : \A y \in T : <<Owner[y], Owner[x]>> \notin order
<1> DEFINE B == {Older(T, x, order) : x \in T}
           R == StrictSubsetOrdering(T)
<1>1. IsFiniteSet(T)
  BY FS_Subset
<1>2. B # {} /\ B \subseteq FiniteSubsetsOf(T)
  <2>1. ASSUME NEW x \in T PROVE Older(T, x, order) \in FiniteSubsetsOf(T)
    <3>1. Older(T, x, order) \in SUBSET T
      BY DEF Older
    <3> QED BY <1>1, <3>1, FS_Subset DEF FiniteSubsetsOf
  <2> QED BY <2>1
<1>3. PICK b \in B : \A d \in B : <<d, b>> \notin R
  <2> HIDE DEF B, R
  <2>1. IsWellFoundedOn(R, FiniteSubsetsOf(T))
    BY FS_StrictSubsetOrderingWellFounded DEF R
  <2> QED BY <1>2, <2>1, WFMin
<1>4. PICK x \in T : b = Older(T, x, order)
  OBVIOUS
<1>5. ASSUME NEW y \in T, <<Owner[y], Owner[x]>> \in order PROVE FALSE
  <2>1. y \in b /\ y \notin Older(T, y, order)
    <3>1. y \in S /\ <<Owner[y], Owner[y]>> \notin order
      BY DEF Linear
    <3> QED BY <1>4, <1>5, <3>1 DEF Older
  <2>2. Older(T, y, order) \subseteq b
    <3>1. \A g \in T : <<Owner[g], Owner[y]>> \in order => <<Owner[g], Owner[x]>> \in order
      BY <1>5 DEF Linear
    <3> QED BY <1>4, <3>1 DEF Older
  <2>3. Older(T, y, order) \in B
    OBVIOUS
  <2>4. <<Older(T, y, order), b>> \in R
    <3>1. Older(T, y, order) \in SUBSET T /\ b \in SUBSET T
      BY <1>4 DEF Older
    <3> QED BY <2>1, <2>2, <3>1 DEF StrictSubsetOrdering
  <2> HIDE DEF B, R
  <2> QED BY <1>3, <2>3, <2>4
<1> QED BY <1>5

(* _evict_locked: when the first loop leaves an idle store the cache fits, *)
(* so the second loop takes only what is borrowed.                         *)
LEMMA LoopTwoTakesBorrowed ==
    ASSUME NEW S, IsFiniteSet(S), NEW order, Linear(S, order), NEW count,
           NEW h \in EvictBorrowed(S \ EvictIdle(S, order, count), order)
    PROVE  count[Owner[h]] # 0
<1> DEFINE I == IdleIn(S, count)
           n == Excess(S)
           C == EvictIdle(S, order, count)
<1>1. Cap \in Nat
  BY StoreManagerAssumption
<1>2. I \subseteq S /\ C \subseteq I /\ h \in S /\ h \notin C
  BY DEF IdleIn, EvictIdle, EvictBorrowed, Oldest
<1>3. C = {x \in I : Cardinality(Older(I, x, order)) < n}
  BY DEF EvictIdle, Oldest, Older
<1> HIDE DEF I, C, n
<1>4. IsFiniteSet(I) /\ IsFiniteSet(C) /\ Cardinality(C) \in Nat /\ Cardinality(S) \in Nat
  BY <1>2, FS_Subset, FS_CardinalityType
<1>5. Cardinality(S \ C) = Cardinality(S) - Cardinality(C)
  <2>1. S \cap C = C
    BY <1>2
  <2> QED BY <2>1, FS_Difference
<1>6. Excess(S \ C) > 0
  <2>1. Cardinality({g \in S \ C : <<Owner[g], Owner[h]>> \in order}) < Excess(S \ C)
    BY DEF EvictBorrowed, Oldest, C
  <2>2. Cardinality({g \in S \ C : <<Owner[g], Owner[h]>> \in order}) \in Nat
    <3>1. {g \in S \ C : <<Owner[g], Owner[h]>> \in order} \in SUBSET S
      OBVIOUS
    <3> QED BY <3>1, FS_Subset, FS_CardinalityType
  <2>3. Excess(S \ C) \in Int
    BY <1>1, <1>4, <1>5 DEF Excess
  <2> QED BY <2>1, <2>2, <2>3
<1>7. n \in Nat /\ Cardinality(C) < n
  BY <1>1, <1>4, <1>5, <1>6 DEF Excess, n
<1> SUFFICES ASSUME count[Owner[h]] = 0 PROVE FALSE
  OBVIOUS
<1>8. h \in I \ C
  BY <1>2 DEF I, IdleIn
<1>9. PICK x \in I \ C : \A y \in I \ C : <<Owner[y], Owner[x]>> \notin order
  <2>1. I \ C \in SUBSET S /\ I \ C # {}
    BY <1>2, <1>8
  <2> QED BY <2>1, OldestExists
<1>10. Older(I, x, order) \in SUBSET C
  BY <1>9 DEF Older
<1>11. Cardinality(Older(I, x, order)) <= Cardinality(C) /\ Cardinality(Older(I, x, order)) \in Nat
  BY <1>4, <1>10, FS_Subset, FS_CardinalityType
<1>12. x \in C
  BY <1>3, <1>4, <1>7, <1>9, <1>11
<1> QED BY <1>9, <1>12

(* move_to_end and the pops leave a line.                                  *)
LEMMA StaysLinear ==
    ASSUME NEW S, NEW order, Linear(S, order), NEW T \in SUBSET S
    PROVE  Linear(T, OrderOf(T, order))
<1>1. \A g, h \in T : <<Owner[g], Owner[h]>> \in OrderOf(T, order) <=>
                      <<Owner[g], Owner[h]>> \in order
  BY DEF OrderOf, Of
<1> QED BY <1>1 DEF Linear

LEMMA MovedIsLinear ==
    ASSUME Linear(cache, older), NEW h, h \in cache \/ Of(cache, Owner[h]) = {}
    PROVE  Linear(cache \cup {h}, MovedToEnd(Owner[h], cache \cup {h}))
<1> DEFINE u == Owner[h]
           full == cache \cup {h}
           order == MovedToEnd(u, full)
<1>1. \A g \in full : Owner[g] = u => g = h
  BY DEF Linear, Of
<1>2. \A f, g \in full :
        <<Owner[f], Owner[g]>> \in order <=>
          \/ f # h /\ g # h /\ <<Owner[f], Owner[g]>> \in older
          \/ f # h /\ g = h
  <2> SUFFICES ASSUME NEW f \in full, NEW g \in full
               PROVE  <<Owner[f], Owner[g]>> \in order <=>
                        \/ f # h /\ g # h /\ <<Owner[f], Owner[g]>> \in older
                        \/ f # h /\ g = h
    OBVIOUS
  <2>1. f # h <=> Owner[f] # u
    BY <1>1
  <2>2. g # h <=> Owner[g] # u
    BY <1>1
  <2>3. Owner[f] \in {Owner[x] : x \in full}
    OBVIOUS
  <2> QED BY <2>1, <2>2, <2>3 DEF MovedToEnd
<1> HIDE DEF order
<1>3. \A g \in full : g = h \/ g \in cache
  OBVIOUS
<1>4. \A f, g \in full : Owner[f] = Owner[g] => f = g
  BY <1>1, <1>3 DEF Linear
<1>5. \A g \in full : <<Owner[g], Owner[g]>> \notin order
  BY <1>2, <1>3 DEF Linear
<1>6. \A f, g \in full :
        f = g \/ <<Owner[f], Owner[g]>> \in order \/ <<Owner[g], Owner[f]>> \in order
  BY <1>2, <1>3 DEF Linear
<1>7. \A a, b, c \in cache :
        <<Owner[a], Owner[b]>> \in older /\ <<Owner[b], Owner[c]>> \in older
            => <<Owner[a], Owner[c]>> \in older
  BY DEF Linear
<1>8. ASSUME NEW e \in full, NEW f \in full, NEW g \in full,
             <<Owner[e], Owner[f]>> \in order, <<Owner[f], Owner[g]>> \in order
      PROVE  <<Owner[e], Owner[g]>> \in order
  <2>1. e # h /\ f # h
    BY <1>2, <1>8
  <2>2. CASE g = h
    BY <1>2, <2>1, <2>2
  <2>3. CASE g # h
    <3>1. <<Owner[e], Owner[f]>> \in older /\ <<Owner[f], Owner[g]>> \in older
      BY <1>2, <1>8, <2>1, <2>3
    <3>2. e \in cache /\ f \in cache /\ g \in cache
      BY <1>3, <2>1, <2>3
    <3>3. <<Owner[e], Owner[g]>> \in older
      BY <1>7, <3>1, <3>2
    <3> QED BY <1>2, <2>1, <2>3, <3>3
  <2> QED BY <2>2, <2>3
<1>9. Linear(full, order)
  <2> HIDE DEF full
  <2> QED BY <1>4, <1>5, <1>6, <1>8 DEF Linear
<1> QED BY <1>9 DEF order

-----------------------------------------------------------------------------
(* The invariant behind EscapesOnlyByReopening.                            *)
Line == IsFiniteSet(cache) /\ Linear(cache, older)
Used(h) == handle[h] # "unused"

(* A store that leaves both tables open leaves for another of its user.    *)
LEMMA OnlyByReopening ==
    ASSUME IInv, TypeOK', EscapesOnlyByReopening,
           \A h \in Handles : Used(h) => Used(h)',
           \A h \in Handles : handle'[h] = "open" =>
             \/ h \in cache' \cup pending'
             \/ handle[h] = "open" /\ h \notin cache \cup pending
             \/ \E g \in Of(Handles, Owner[h]) \ {h} : handle'[g] # "unused",
           \A h \in pending' : inflight'[Owner[h]] > 0
    PROVE  EscapesOnlyByReopening'
<1>1. ASSUME NEW h \in Handles, handle'[h] = "open", h \notin cache' \cup pending'
      PROVE  \E g \in Of(Handles, Owner[h]) \ {h} : handle'[g] # "unused"
  <2>1. CASE handle[h] = "open" /\ h \notin cache \cup pending
    <3>1. PICK g \in Of(Handles, Owner[h]) \ {h} : handle[g] # "unused"
      BY <2>1 DEF EscapesOnlyByReopening
    <3> QED BY <3>1 DEF Used, Of
  <2> QED BY <1>1, <2>1
<1> QED BY <1>1 DEF EscapesOnlyByReopening

LEMMA HandOutLine ==
    ASSUME IInv, IInv', Line, EscapesOnlyByReopening,
           NEW c \in Clients, NEW h \in Handles,
           h \in cache \/ (handle[h] = "unused" /\ Of(cache, Owner[h]) = {}),
           HandOut(c, h)
    PROVE  Line' /\ EscapesOnlyByReopening'
<1> DEFINE u == Owner[h]
           full == cache \cup {h}
           order == MovedToEnd(u, full)
           count == [inflight EXCEPT ![u] = @ + 1]
           closing == EvictIdle(full, order, count)
           deferred == EvictBorrowed(full \ closing, order)
           kept == (full \ closing) \ deferred
<1>1. /\ inflight' = count /\ cache' = kept /\ older' = OrderOf(kept, order)
      /\ pending' = Overwrite(pending, deferred)
      /\ handle' = [g \in Handles |->
                      IF g \in closing THEN "closed"
                      ELSE IF g = h THEN "open" ELSE handle[g]]
  BY DEF HandOut
<1>2. u \in Users
  BY StoreManagerAssumption
<1>3. Linear(full, order) /\ IsFiniteSet(full)
  BY MovedIsLinear, FS_AddElement DEF Line
<1>4. \A g \in deferred : count[Owner[g]] # 0
  BY <1>3, LoopTwoTakesBorrowed
<1>5. closing \subseteq full /\ deferred \subseteq full \ closing /\ full \subseteq Handles
  BY DEF EvictIdle, IdleIn, EvictBorrowed, Oldest, IInv, TypeOK
<1> HIDE DEF closing, deferred, order, full, count
<1>6. Line'
  <2>1. kept \in SUBSET full
    OBVIOUS
  <2> HIDE DEF kept
  <2> QED BY <1>1, <1>3, <2>1, StaysLinear, FS_Subset DEF Line
<1>7. \A g \in pending' : inflight'[Owner[g]] > 0
  <2> SUFFICES ASSUME NEW g \in pending' PROVE inflight'[Owner[g]] > 0
    OBVIOUS
  <2>1. g \in Handles /\ Owner[g] \in Users /\ inflight'[Owner[g]] \in Nat
    BY StoreManagerAssumption DEF IInv, TypeOK
  <2>2. CASE g \in deferred
    BY <1>1, <1>4, <2>1, <2>2
  <2>3. CASE g \in pending
    <3>1. inflight[Owner[g]] > 0 /\ inflight[Owner[g]] \in Nat
      BY <2>1, <2>3 DEF EscapesOnlyByReopening, IInv, TypeOK
    <3>2. inflight'[Owner[g]] \in {inflight[Owner[g]], inflight[Owner[g]] + 1}
      BY <1>1, <2>1 DEF count, IInv, TypeOK
    <3> QED BY <3>1, <3>2
  <2> QED BY <1>1, <2>2, <2>3 DEF Overwrite
<1>8. \A g \in Handles : Used(g) => Used(g)'
  BY <1>1 DEF Used
<1>9. ASSUME NEW x \in Handles, handle'[x] = "open", x \notin cache' \cup pending'
      PROVE  \/ handle[x] = "open" /\ x \notin cache \cup pending
             \/ \E g \in Of(Handles, Owner[x]) \ {x} : handle'[g] # "unused"
  <2>1. x \notin closing /\ x \notin full
    BY <1>1, <1>5, <1>9 DEF Overwrite
  <2>2. x # h /\ handle[x] = "open" /\ x \notin cache
    BY <1>1, <1>9, <2>1 DEF full
  <2>3. CASE x \in pending
    <3>1. PICK g \in deferred : Owner[g] = Owner[x]
      BY <1>1, <1>9, <2>3 DEF Overwrite
    <3>2. g # x /\ g \in Handles
      BY <1>5, <2>1, <3>1
    <3>3. handle'[g] # "unused"
      <4>1. g \in cache' \cup pending'
        BY <1>1, <3>1 DEF Overwrite
      <4> QED BY <4>1 DEF IInv, TablesHoldOpenStores
    <3> QED BY <3>1, <3>2, <3>3 DEF Of
  <2> QED BY <2>2, <2>3
<1>10. TypeOK'
  BY DEF IInv
<1> QED BY <1>6, <1>7, <1>8, <1>9, <1>10, OnlyByReopening

LEMMA ReleaseLine ==
    ASSUME IInv, IInv', Line, EscapesOnlyByReopening, NEW c \in Clients, Release(c)
    PROVE  Line' /\ EscapesOnlyByReopening'
<1> DEFINE u == Owner[lease[c]]
           count == Uncounted(u)
           drained == Drained(u, count)
           evicted == IF count[u] = 0 THEN EvictIdle(cache, older, count) ELSE {}
           deferred == IF count[u] = 0
                       THEN EvictBorrowed(cache \ evicted, older) ELSE {}
           kept == (cache \ evicted) \ deferred
<1>1. /\ inflight' = count /\ cache' = kept /\ older' = OrderOf(kept, older)
      /\ pending' = Overwrite(pending \ drained, deferred)
      /\ handle' = Closed(drained \cup evicted)
  BY DEF Release
<1>2. \A g \in deferred : count[Owner[g]] # 0
  <2>1. CASE count[u] = 0
    BY <2>1, LoopTwoTakesBorrowed DEF Line
  <2> QED BY <2>1
<1>3. deferred \subseteq cache
  BY DEF EvictBorrowed, Oldest
<1>4. \A v \in Users \ {u} : count[v] = inflight[v]
  BY DEF Uncounted, IInv, TypeOK
<1>5. drained = IF count[u] = 0 THEN {g \in pending : Owner[g] = u} ELSE {}
  BY DEF Drained, Of
<1> HIDE DEF drained, evicted, deferred, count
<1>6. Line'
  <2>1. kept \in SUBSET cache
    OBVIOUS
  <2> HIDE DEF kept
  <2> QED BY <1>1, <2>1, StaysLinear, FS_Subset DEF Line
<1>7. \A g \in pending' : inflight'[Owner[g]] > 0
  <2> SUFFICES ASSUME NEW g \in pending' PROVE inflight'[Owner[g]] > 0
    OBVIOUS
  <2>1. g \in Handles /\ Owner[g] \in Users /\ inflight'[Owner[g]] \in Nat
    BY StoreManagerAssumption DEF IInv, TypeOK
  <2>2. CASE g \in deferred
    BY <1>1, <1>2, <2>1, <2>2
  <2>3. CASE g \in pending \ drained
    BY <1>1, <1>4, <1>5, <2>1, <2>3 DEF EscapesOnlyByReopening
  <2> QED BY <1>1, <2>2, <2>3 DEF Overwrite
<1>8. \A g \in Handles : Used(g) => Used(g)'
  BY <1>1 DEF Used, Closed
<1>9. ASSUME NEW x \in Handles, handle'[x] = "open", x \notin cache' \cup pending'
      PROVE  \/ handle[x] = "open" /\ x \notin cache \cup pending
             \/ \E g \in Of(Handles, Owner[x]) \ {x} : handle'[g] # "unused"
  <2>1. x \notin drained \cup evicted /\ handle[x] = "open"
    BY <1>1, <1>9 DEF Closed
  <2>2. x \notin cache
    BY <1>1, <1>9, <2>1 DEF Overwrite
  <2>3. CASE x \in pending
    <3>1. PICK g \in deferred : Owner[g] = Owner[x]
      BY <1>1, <1>9, <2>1, <2>3 DEF Overwrite
    <3>2. g # x /\ g \in Handles
      BY <1>3, <2>2, <3>1 DEF IInv, TypeOK
    <3>3. handle'[g] # "unused"
      <4>1. g \in cache' \cup pending'
        BY <1>1, <3>1 DEF Overwrite
      <4> QED BY <4>1 DEF IInv, TablesHoldOpenStores
    <3> QED BY <3>1, <3>2, <3>3 DEF Of
  <2> QED BY <2>1, <2>2, <2>3
<1>10. TypeOK'
  BY DEF IInv
<1> QED BY <1>6, <1>7, <1>8, <1>9, <1>10, OnlyByReopening

LEMMA CloseAllLine ==
    ASSUME IInv, IInv', Line, EscapesOnlyByReopening, CloseAll
    PROVE  Line' /\ EscapesOnlyByReopening'
<1> DEFINE idle == TeardownCloses
           handedOver == {h \in cache \ idle : Of(pending, Owner[h]) = {}}
           waiting == pending \cup handedOver
           drained == IdleIn(waiting, inflight)
<1>1. /\ cache' = {} /\ older' = {} /\ pending' = waiting \ drained
      /\ handle' = Closed(idle \cup drained) /\ inflight' = inflight
  BY DEF CloseAll
<1>2. \A g \in waiting \ drained : inflight[Owner[g]] # 0
  BY DEF IdleIn
<1> HIDE DEF idle, drained
<1>3. Line'
  BY <1>1, FS_EmptySet DEF Line, Linear
<1>4. \A g \in pending' : inflight'[Owner[g]] > 0
  <2> SUFFICES ASSUME NEW g \in pending' PROVE inflight'[Owner[g]] > 0
    OBVIOUS
  <2>1. g \in Handles /\ Owner[g] \in Users /\ inflight'[Owner[g]] \in Nat
    BY StoreManagerAssumption DEF IInv, TypeOK
  <2> QED BY <1>1, <1>2, <2>1
<1>5. \A g \in Handles : Used(g) => Used(g)'
  BY <1>1 DEF Used, Closed
<1>6. ASSUME NEW x \in Handles, handle'[x] = "open", x \notin cache' \cup pending'
      PROVE  \/ handle[x] = "open" /\ x \notin cache \cup pending
             \/ \E g \in Of(Handles, Owner[x]) \ {x} : handle'[g] # "unused"
  <2>1. x \notin idle \cup drained /\ handle[x] = "open" /\ x \notin waiting
    BY <1>1, <1>6 DEF Closed
  <2>2. CASE x \in cache
    <3>1. PICK g \in pending : Owner[g] = Owner[x]
      BY <2>1, <2>2 DEF Of
    <3>2. g # x /\ g \in Handles /\ Used(g)
      BY <2>1, <3>1 DEF IInv, TypeOK, TablesHoldOpenStores, Used
    <3> QED BY <1>5, <3>1, <3>2 DEF Of, Used
  <2> QED BY <2>1, <2>2
<1>7. TypeOK'
  BY DEF IInv
<1> QED BY <1>3, <1>4, <1>5, <1>6, <1>7, OnlyByReopening

LEMMA NextLine ==
    ASSUME IInv, Line, EscapesOnlyByReopening, [Next]_vars
    PROVE  Line' /\ EscapesOnlyByReopening'
<1>1. IInv'
  BY NextStep
<1>2. ASSUME NEW c \in Clients, NEW h \in Handles, GetCached(c, h) \/ GetOpened(c, h)
      PROVE  Line' /\ EscapesOnlyByReopening'
  <2>1. /\ h \in cache \/ (handle[h] = "unused" /\ Of(cache, Owner[h]) = {})
        /\ HandOut(c, h)
    BY <1>2 DEF GetCached, GetOpened
  <2> QED BY <1>1, <2>1, HandOutLine
<1>3. ASSUME NEW c \in Clients, Abandon(c) PROVE Line' /\ EscapesOnlyByReopening'
  BY <1>3 DEF Abandon, Line, EscapesOnlyByReopening
<1>4. CASE UNCHANGED vars
  BY <1>4 DEF vars, Line, EscapesOnlyByReopening
<1> QED BY <1>1, <1>2, <1>3, <1>4, ReleaseLine, CloseAllLine DEF Next

(* No store is forgotten: an open store is cached or waits for a close     *)
(* that a release still to come triggers, unless its user was opened again *)
(* while an evicted store of theirs was borrowed.  For every number of     *)
(* stores and every cap it rests on the two loops of _evict_locked: the    *)
(* first leaves no idle store while the cache is over its cap.             *)
THEOREM NoStoreIsForgotten == Spec => []EscapesOnlyByReopening
<1>1. Init => Line /\ EscapesOnlyByReopening
  BY FS_EmptySet DEF Init, Line, Linear, EscapesOnlyByReopening
<1>2. IInv /\ Line /\ EscapesOnlyByReopening /\ [Next]_vars
        => Line' /\ EscapesOnlyByReopening'
  BY NextLine
<1> QED BY <1>1, <1>2, Invariance, PTL DEF Spec

-----------------------------------------------------------------------------
(* The Systems of chromadb: each is named after a store of its directory   *)
(* that was opened and uses it.  What the registry has runs, and who uses  *)
(* it is open; stores with one System met; and a System is stopped by who  *)
(* uses it.                                                                *)
Creators ==
    \A h \in Handles : IF handle[h] = "unused" THEN system[h] = NoHandle
                        ELSE /\ system[h] \in Handles /\ system[system[h]] = system[h]
                             /\ Owner[system[h]] = Owner[h]

EntriesRun ==
    \A u \in Users : registry[u] # NoHandle =>
        /\ registry[u] \in Handles /\ system[registry[u]] = registry[u] /\ Owner[registry[u]] = u
        /\ registry[u] \in running
        /\ \A g \in Handles : system[g] = registry[u] => handle[g] = "open"

SharersMet ==
    \A g, h \in Handles :
        g # h /\ system[h] \in Handles /\ system[g] = system[h] => <<g, h>> \in met

StoppedByUser ==
    \A h \in Handles : handle[h] = "open" =>
        \/ system[h] \in running
        \/ \E g \in Handles : system[g] = system[h] /\ handle[g] = "closed"

SystemsInv == Creators /\ EntriesRun /\ SharersMet /\ StoppedByUser

(* Stores are opened once and closed once.                                 *)
LEMMA HandlesAdvance ==
    ASSUME IInv, [Next]_vars, NEW h \in Handles
    PROVE  /\ handle[h] = "unused" => handle'[h] \in {"unused", "open"}
           /\ handle[h] = "open" => handle'[h] \in {"open", "closed"}
           /\ handle[h] = "closed" => handle'[h] = "closed"
<1>1. IInv /\ TypeOK /\ [Contract!Next]_<<handle, lease>>
  BY NextStep DEF IInv
<1>2. ASSUME NEW S \in SUBSET Handles, NEW O, Contract!Closing(S, O),
             \A g \in O : handle[g] # "closed" /\ g \notin S
      PROVE  /\ handle[h] = "unused" => handle'[h] \in {"unused", "open"}
             /\ handle[h] = "open" => handle'[h] \in {"open", "closed"}
             /\ handle[h] = "closed" => handle'[h] = "closed"
  BY <1>1, <1>2 DEF Contract!Closing, TypeOK
<1>3. ASSUME NEW c \in Clients, NEW g \in Handles, Contract!Borrow(c, g)
      PROVE  \E S \in SUBSET Handles : Contract!Closing(S, {g}) /\ g \notin S /\ handle[g] # "closed"
  <2>1. PICK S \in SUBSET Handles : Contract!Closing(S, {g})
    BY <1>3 DEF Contract!Borrow
  <2>2. lease'[c] = g
    BY <1>1, <1>3 DEF Contract!Borrow, TypeOK
  <2>3. g \notin S /\ handle[g] # "closed"
    BY <1>3, <2>1, <2>2 DEF Contract!Borrow, Contract!Closing, Contract!Free
  <2> QED BY <2>1, <2>3
<1>4. CASE \E c \in Clients, g \in Handles : Contract!Borrow(c, g)
  <2>1. PICK g \in Handles : \E S \in SUBSET Handles :
          Contract!Closing(S, {g}) /\ g \notin S /\ handle[g] # "closed"
    BY <1>3, <1>4
  <2>2. PICK S \in SUBSET Handles :
          Contract!Closing(S, {g}) /\ g \notin S /\ handle[g] # "closed"
    BY <2>1
  <2> QED BY <1>2, <2>2
<1>5. CASE \E S \in SUBSET Handles : Contract!Closing(S, {})
  BY <1>2, <1>5
<1>6. CASE UNCHANGED <<handle, lease>>
  BY <1>1, <1>6 DEF TypeOK
<1> QED BY <1>1, <1>4, <1>5, <1>6 DEF Contract!Next, Contract!GiveBack, Contract!Reclaim

(* No store is closed in the step that opens another of its user.          *)
LEMMA OpenedApart ==
    ASSUME IInv, [Next]_vars, NEW h \in Handles, NEW g \in Handles,
           handle[h] = "unused", handle'[h] = "open", handle[g] = "open", handle'[g] = "closed"
    PROVE  Owner[g] # Owner[h]
<1>1. ASSUME NEW S PROVE Closed(S)[h] # "open"
  BY DEF Closed
<1>2. ASSUME NEW c \in Clients, NEW k \in Handles, HandOut(c, k) PROVE Owner[g] # Owner[h]
  <2> DEFINE count == [inflight EXCEPT ![Owner[k]] = @ + 1]
             full == cache \cup {k}
             closing == EvictIdle(full, MovedToEnd(Owner[k], full), count)
  <2>1. handle' = [x \in Handles |-> IF x \in closing THEN "closed"
                                      ELSE IF x = k THEN "open" ELSE handle[x]]
    BY <1>2 DEF HandOut
  <2>2. h = k /\ g \in closing
    <3> HIDE DEF closing
    <3> QED BY <2>1
  <2>3. count[Owner[g]] = 0
    BY <2>2 DEF EvictIdle, Oldest, IdleIn
  <2>4. count[Owner[k]] # 0
    BY StoreManagerAssumption DEF IInv, TypeOK
  <2> QED BY <2>2, <2>3, <2>4
<1>3. ASSUME NEW c \in Clients, Release(c) PROVE FALSE
  BY <1>1, <1>3 DEF Release
<1>4. CASE CloseAll
  BY <1>1, <1>4 DEF CloseAll
<1>5. ASSUME NEW c \in Clients, Abandon(c) PROVE FALSE
  BY <1>5 DEF Abandon
<1>6. CASE UNCHANGED vars
  BY <1>6 DEF vars
<1> QED BY <1>2, <1>3, <1>4, <1>5, <1>6 DEF Next, GetCached, GetOpened

LEMMA SystemsFollow ==
    ASSUME IInv, SystemsInv, [Next2]_allVars
    PROVE  SystemsInv'
<1>1. CASE UNCHANGED allVars
  BY <1>1 DEF allVars, vars, vectorVars, SystemsInv, Creators, EntriesRun, SharersMet, StoppedByUser
<1>2. CASE Next2
  <2>1. \A h \in Handles :
          /\ h \in Opening <=> handle[h] = "unused" /\ handle'[h] = "open"
          /\ h \in ClosingNow <=> handle[h] = "open" /\ handle'[h] = "closed"
          /\ handle[h] = "unused" => handle'[h] \in {"unused", "open"}
          /\ handle[h] = "open" => handle'[h] \in {"open", "closed"}
          /\ handle[h] = "closed" => handle'[h] = "closed"
          /\ handle[h] \in {"unused", "open", "closed"}
    BY <1>2, HandlesAdvance DEF Next2, Opening, ClosingNow, Turned, IInv, TypeOK
  <2>2. Opening \subseteq Handles /\ ClosingNow \subseteq Handles
    BY DEF Opening, ClosingNow, Turned
  <2>3. \A h \in Opening, g \in ClosingNow : Owner[g] # Owner[h]
    BY <1>2, <2>1, <2>2, OpenedApart DEF Next2
  <2>4. PICK kept \in SUBSET {h \in ClosingNow : system[h] \notin running} :
          /\ system' = [h \in Handles |-> IF h \in Opening THEN SystemFor(h) ELSE system[h]]
          /\ running' = (running \cup {h \in Opening : SystemFor(h) = h}) \ StoppedBy(ClosingNow)
          /\ registry' = [u \in Users |->
                            IF u \in DroppedBy(ClosingNow \ kept) THEN NoHandle
                            ELSE IF Of(Opening, u) = {} THEN registry[u]
                            ELSE SystemFor(CHOOSE h \in Opening : Owner[h] = u)]
          /\ met' = met \cup Together(handle')
    BY <1>2 DEF Next2, VectorStep
  <2> HIDE DEF Opening, ClosingNow
  <2>5. \A h \in Handles : h # NoHandle /\ Owner[h] \in Users
    BY StoreManagerAssumption
  <2>6. \A h \in Handles \ Opening : system'[h] = system[h]
    BY <2>4
  <2>7. \A g \in ClosingNow : system'[g] = system[g] /\ handle'[g] = "closed"
    BY <2>1, <2>2, <2>6
  \* A System of its own is new.
  <2>8. ASSUME NEW h \in Opening, NEW g \in Handles \ Opening PROVE system[g] # h
    <3> SUFFICES ASSUME system[g] = h PROVE FALSE
      OBVIOUS
    <3>1. h \in Handles /\ handle[h] = "unused" /\ system[h] = NoHandle
      BY <2>1, <2>2 DEF SystemsInv, Creators
    <3>2. handle[g] # "unused"
      BY <2>5, <3>1 DEF SystemsInv, Creators
    <3>3. system[h] = h
      BY <3>2 DEF SystemsInv, Creators
    <3> QED BY <2>5, <3>1, <3>3
  <2>9. ASSUME NEW u \in Users, registry[u] # NoHandle
        PROVE  registry[u] \in Handles \ Opening
    <3>1. registry[u] \in Handles /\ system[registry[u]] = registry[u]
      BY <2>9 DEF SystemsInv, EntriesRun
    <3>2. registry[u] \in Opening => system[registry[u]] = NoHandle
      BY <2>1, <3>1 DEF SystemsInv, Creators
    <3> QED BY <2>9, <3>1, <3>2
  \* What opens has a System that runs, of its directory, and of nobody who
  \* is closed.
  <2>10. ASSUME NEW h \in Opening
         PROVE  /\ system'[h] = SystemFor(h) /\ SystemFor(h) \in Handles
                /\ system'[SystemFor(h)] = SystemFor(h) /\ Owner[SystemFor(h)] = Owner[h]
                /\ SystemFor(h) \in running'
                /\ \A g \in Handles : system'[g] = SystemFor(h) => handle'[g] = "open"
    <3>1. system'[h] = SystemFor(h) /\ h \in Handles /\ Owner[h] \in Users /\ handle'[h] = "open"
      BY <2>1, <2>2, <2>4, <2>5
    <3>2. CASE registry[Owner[h]] = NoHandle
      <4>1. SystemFor(h) = h
        BY <3>2 DEF SystemFor
      <4>2. h \notin StoppedBy(ClosingNow)
        BY <2>1, <2>2, <2>8 DEF StoppedBy
      <4>3. \A g \in Handles : system'[g] = h => handle'[g] = "open"
        <5> SUFFICES ASSUME NEW g \in Handles \ Opening PROVE system'[g] # h
          BY <2>1
        <5> QED BY <2>6, <2>8
      <4> QED BY <2>4, <3>1, <4>1, <4>2, <4>3
    <3>3. CASE registry[Owner[h]] # NoHandle
      <4> DEFINE s == registry[Owner[h]]
      <4>1. /\ SystemFor(h) = s /\ s \in Handles \ Opening /\ system[s] = s /\ Owner[s] = Owner[h]
            /\ s \in running /\ \A g \in Handles : system[g] = s => handle[g] = "open"
        BY <2>9, <3>1, <3>3 DEF SystemFor, SystemsInv, EntriesRun
      <4> HIDE DEF s
      <4>2. ASSUME NEW g \in Handles, system[g] = s PROVE g \notin ClosingNow
        <5>1. handle[g] = "open" /\ Owner[s] = Owner[g]
          BY <4>1, <4>2 DEF SystemsInv, Creators
        <5> QED BY <2>3, <4>1, <5>1
      <4>3. s \notin StoppedBy(ClosingNow)
        BY <2>2, <4>2 DEF StoppedBy
      <4>4. ASSUME NEW g \in Handles \ Opening, system[g] = s PROVE handle'[g] = "open"
        BY <2>1, <4>1, <4>2, <4>4
      <4>5. \A g \in Handles : system'[g] = s => handle'[g] = "open"
        BY <2>1, <2>6, <4>4
      <4> QED BY <2>4, <2>6, <3>1, <4>1, <4>3, <4>5
    <3> QED BY <3>2, <3>3
  <2>11. Creators'
    <3> SUFFICES ASSUME NEW h \in Handles
                 PROVE  IF handle'[h] = "unused" THEN system'[h] = NoHandle
                        ELSE /\ system'[h] \in Handles /\ system'[system'[h]] = system'[h]
                             /\ Owner[system'[h]] = Owner[h]
      BY DEF Creators
    <3>1. CASE h \in Opening
      BY <2>1, <2>10, <3>1
    <3>2. CASE h \notin Opening
      <4>1. system'[h] = system[h] /\ (handle'[h] = "unused" <=> handle[h] = "unused")
        BY <2>1, <2>6, <3>2
      <4>2. handle[h] # "unused" => system[h] \notin Opening
        BY <2>8, <3>2
      <4> QED BY <2>6, <4>1, <4>2 DEF SystemsInv, Creators
    <3> QED BY <3>1, <3>2
  <2>12. EntriesRun'
    <3> SUFFICES ASSUME NEW u \in Users, registry'[u] # NoHandle
                 PROVE  /\ registry'[u] \in Handles /\ system'[registry'[u]] = registry'[u]
                        /\ Owner[registry'[u]] = u /\ registry'[u] \in running'
                        /\ \A g \in Handles : system'[g] = registry'[u] => handle'[g] = "open"
      BY DEF EntriesRun
    <3>1. u \notin DroppedBy(ClosingNow \ kept)
      BY <2>4
    <3>2. CASE Of(Opening, u) = {}
      <4> DEFINE s == registry[u]
      <4>1. /\ registry'[u] = s /\ s \in Handles \ Opening /\ system[s] = s /\ Owner[s] = u
            /\ s \in running /\ \A g \in Handles : system[g] = s => handle[g] = "open"
        BY <2>4, <2>9, <3>1, <3>2 DEF SystemsInv, EntriesRun
      <4> HIDE DEF s
      <4>2. ASSUME NEW g \in Handles, system[g] = s PROVE g \notin ClosingNow
        <5>1. handle[g] = "open" /\ Owner[g] = u
          BY <4>1, <4>2 DEF SystemsInv, Creators
        <5>2. g \notin kept
          BY <4>1, <4>2
        <5> QED BY <3>1, <5>1, <5>2 DEF DroppedBy
      <4>3. s \notin StoppedBy(ClosingNow)
        BY <2>2, <4>2 DEF StoppedBy
      <4>4. ASSUME NEW g \in Handles \ Opening, system[g] = s PROVE handle'[g] = "open"
        BY <2>1, <4>1, <4>2, <4>4
      <4>5. \A g \in Handles : system'[g] = s => handle'[g] = "open"
        BY <2>1, <2>6, <4>4
      <4>6. system'[s] = s
        BY <2>6, <4>1
      <4>7. s \in running'
        BY <2>4, <4>1, <4>3
      <4> QED BY <4>1, <4>5, <4>6, <4>7
    <3>3. CASE Of(Opening, u) # {}
      <4> DEFINE h == CHOOSE x \in Opening : Owner[x] = u
      <4>1. h \in Opening /\ Owner[h] = u
        BY <3>3 DEF Of
      <4>2. registry'[u] = SystemFor(h)
        BY <2>4, <3>1, <3>3
      <4> HIDE DEF h
      <4> QED BY <2>10, <4>1, <4>2
    <3> QED BY <3>2, <3>3
  <2>13. SharersMet'
    <3> SUFFICES ASSUME NEW g \in Handles, NEW h \in Handles, g # h, system'[h] \in Handles,
                        system'[g] = system'[h]
                 PROVE  <<g, h>> \in met'
      BY DEF SharersMet
    <3>1. CASE g \notin Opening /\ h \notin Opening
      BY <2>4, <2>6, <3>1 DEF SystemsInv, SharersMet
    <3>2. CASE g \in Opening \/ h \in Opening
      <4>1. handle'[g] = "open" /\ handle'[h] = "open"
        BY <2>10, <3>2
      <4>2. Owner[g] = Owner[h]
        BY <4>1, <2>11 DEF Creators
      <4> QED BY <2>4, <4>1, <4>2 DEF Together
    <3> QED BY <3>1, <3>2
  <2>14. StoppedByUser'
    <3> SUFFICES ASSUME NEW h \in Handles, handle'[h] = "open"
                 PROVE  \/ system'[h] \in running'
                        \/ \E g \in Handles : system'[g] = system'[h] /\ handle'[g] = "closed"
      BY DEF StoppedByUser
    <3>1. CASE h \in Opening
      BY <2>10, <3>1
    <3>2. CASE h \notin Opening
      <4>1. handle[h] = "open" /\ system'[h] = system[h]
        BY <2>1, <2>6, <3>2
      <4>2. CASE system[h] \in StoppedBy(ClosingNow)
        BY <2>2, <2>7, <4>1, <4>2 DEF StoppedBy
      <4>3. CASE system[h] \in running /\ system[h] \notin StoppedBy(ClosingNow)
        BY <2>4, <4>1, <4>3
      <4>4. CASE system[h] \notin running
        <5>1. PICK g \in Handles : system[g] = system[h] /\ handle[g] = "closed"
          BY <4>1, <4>4 DEF SystemsInv, StoppedByUser
        <5>2. g \notin Opening /\ handle'[g] = "closed"
          BY <2>1, <5>1
        <5> QED BY <2>6, <4>1, <5>1, <5>2
      <4> QED BY <4>2, <4>3, <4>4
    <3> QED BY <3>1, <3>2
  <2> QED BY <2>11, <2>12, <2>13, <2>14 DEF SystemsInv
<1> QED BY <1>1, <1>2

(* The index of an open store answers unless a store of the same user that *)
(* was open together with it has been closed, for any number of stores and *)
(* however often a directory is opened again: what the registry has is     *)
(* used by open stores only, as the close that stops a System takes its    *)
(* entry along, and a second stop that fails leaves the entry of another   *)
(* (Store._close_chroma).                                                  *)
THEOREM IndexStays == Spec2 => []IndexOutlivesStrangers
<1>1. Init2 => Init /\ SystemsInv
  <2> SUFFICES ASSUME Init2 PROVE Init /\ SystemsInv
    OBVIOUS
  <2>1. /\ Init /\ handle = [h \in Handles |-> "unused"] /\ system = [h \in Handles |-> NoHandle]
        /\ registry = [u \in Users |-> NoHandle]
    BY DEF Init2, Init
  <2> QED BY <2>1, StoreManagerAssumption
          DEF SystemsInv, Creators, EntriesRun, SharersMet, StoppedByUser
<1>2. [Next2]_allVars => [Next]_vars
  BY DEF Next2, allVars
<1>3. IInv /\ SystemsInv /\ [Next2]_allVars => SystemsInv'
  BY SystemsFollow
<1>4. SystemsInv => IndexOutlivesStrangers
  <2> SUFFICES ASSUME SystemsInv, NEW h \in Handles, handle[h] = "open",
                      \A g \in Handles : <<g, h>> \in met => handle[g] # "closed"
               PROVE  system[h] \in running
    BY DEF IndexOutlivesStrangers
  <2>1. system[h] \in Handles
    BY DEF SystemsInv, Creators
  <2>2. ASSUME NEW g \in Handles, system[g] = system[h], handle[g] = "closed" PROVE FALSE
    BY <2>1, <2>2 DEF SystemsInv, SharersMet
  <2> QED BY <2>2 DEF SystemsInv, StoppedByUser
<1> QED BY <1>1, <1>2, <1>3, <1>4, Invariance, PTL DEF Spec, Spec2
=============================================================================
