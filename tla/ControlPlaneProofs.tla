------------------------- MODULE ControlPlaneProofs -------------------------
(***************************************************************************)
(* Proofs about ControlPlane for any number of requests, keys and jobs and *)
(* every retention: what callers were told of the tables stays true of     *)
(* them, whatever transaction is left open or rolled back.                 *)
(***************************************************************************)
EXTENDS ControlPlane, FiniteSetTheorems, WellFoundedInduction, TLAPS

(* What was told is two sets, and only so many jobs were ever accepted.    *)
ToldOK ==
    /\ told \in [revoked : SUBSET Keys, accepted : SUBSET Jobs]
    /\ IsFiniteSet(told.accepted)

(* A key is never live again: Mint takes an absent one.                    *)
ToldIsRevoked == \A k \in told.revoked : key[k] = "revoked"

(* A late request that is not yet verified has a key that is told revoked. *)
LateIsRefused ==
    \A r \in late :
        /\ req[r].at # "handle"
        /\ req[r].at = "verify" => req[r].key \in told.revoked

(* The inductive invariant.                                                *)
IInv ==
    /\ TypeOK /\ ToldOK
    /\ ToldIsRevoked /\ LateIsRefused
    /\ RowsAreNewestAccepted

-----------------------------------------------------------------------------
(* The members of S after i.                                               *)
Beyond(S, i) == {x \in S : x > i}

(* A set that has numbers outside N has one after which all are in N.      *)
LEMMA LastOutside ==
    ASSUME NEW S \in SUBSET Nat, IsFiniteSet(S), NEW N, NEW x \in S \ N
    PROVE  \E k \in S \ N : Beyond(S, k) \subseteq N
<1> DEFINE T == {Beyond(S, k) : k \in S \ N}
           R == StrictSubsetOrdering(S)
<1>1. T # {} /\ T \subseteq FiniteSubsetsOf(S)
  <2>1. \A k \in S \ N : Beyond(S, k) \in FiniteSubsetsOf(S)
    BY FS_Subset DEF Beyond, FiniteSubsetsOf
  <2> QED BY <2>1
<1>2. PICK t \in T : \A u \in T : ~(<<u, t>> \in R)
  <2> HIDE DEF T, R
  <2>1. IsWellFoundedOn(R, FiniteSubsetsOf(S))
    BY FS_StrictSubsetOrderingWellFounded DEF R
  <2> QED BY <1>1, <2>1, WFMin
<1>3. PICK k \in S \ N : t = Beyond(S, k)
  OBVIOUS
<1>4. ASSUME NEW y \in Beyond(S, k), y \notin N PROVE FALSE
  <2>1. Beyond(S, y) \in T
    BY <1>4 DEF Beyond
  <2>2. Beyond(S, y) \subseteq t /\ y \in t /\ y \notin Beyond(S, y)
    <3>1. k \in Nat /\ y \in Nat /\ y > k /\ y \in S
      BY <1>4 DEF Beyond
    <3>2. ASSUME NEW z \in Beyond(S, y) PROVE z \in Beyond(S, k)
      <4>1. z \in S /\ z \in Nat /\ z > y
        BY DEF Beyond
      <4> QED BY <3>1, <4>1 DEF Beyond
    <3>3. y \in Beyond(S, k) /\ y \notin Beyond(S, y)
      BY <1>4, <3>1 DEF Beyond
    <3> HIDE DEF T, R
    <3> QED BY <1>3, <3>2, <3>3
  <2>3. <<Beyond(S, y), t>> \in R
    BY <1>3, <2>2 DEF StrictSubsetOrdering, Beyond
  <2> QED BY <1>2, <2>1, <2>3
<1> QED BY <1>4

(* A job that was dropped from the newest would be dropped again: the rows *)
(* after one more insertion are the newest of all that ever came.          *)
LEMMA NewestOfNewest ==
    ASSUME NEW S \in SUBSET Nat, IsFiniteSet(S), NEW j \in Nat
    PROVE  Newest(Newest(S) \cup {j}) = Newest(S \cup {j})
<1> DEFINE N == Newest(S)
           U == N \cup {j}
           T == S \cup {j}
<1>1. N \subseteq S /\ U \subseteq T /\ T \subseteq Nat
  BY DEF Newest
<1>2. IsFiniteSet(T)
  BY FS_AddElement
<1>3. \A X \in SUBSET T, i \in Nat :
        IsFiniteSet(Beyond(X, i)) /\ Cardinality(Beyond(X, i)) \in Nat
  <2> SUFFICES ASSUME NEW X \in SUBSET T, NEW i \in Nat
               PROVE  IsFiniteSet(Beyond(X, i)) /\ Cardinality(Beyond(X, i)) \in Nat
    OBVIOUS
  <2>1. Beyond(X, i) \in SUBSET T
    BY DEF Beyond
  <2>2. IsFiniteSet(Beyond(X, i))
    BY <1>2, <2>1, FS_Subset
  <2> QED BY <2>2, FS_CardinalityType
<1>4. \A X \in SUBSET T, Y \in SUBSET T, i \in Nat, k \in Nat :
        Beyond(X, i) \subseteq Beyond(Y, k)
            => Cardinality(Beyond(X, i)) <= Cardinality(Beyond(Y, k))
  BY <1>3, FS_Subset
<1>5. \A X : Newest(X) = {i \in X : Cardinality(Beyond(X, i)) < JobMax}
  BY DEF Newest, Beyond
<1> HIDE DEF U, T, N
<1>6. ASSUME NEW i \in Newest(T) PROVE i \in Newest(U)
  <2>1. i \in T /\ i \in Nat /\ Cardinality(Beyond(T, i)) < JobMax
    BY <1>1, <1>5
  <2>2. Cardinality(Beyond(U, i)) < JobMax
    <3>1. Beyond(U, i) \subseteq Beyond(T, i)
      BY <1>1 DEF Beyond
    <3> QED BY <1>1, <1>3, <1>4, <2>1, <3>1, ControlAssumption
  <2>3. i \in U
    <3>1. CASE i = j
      BY <3>1 DEF U
    <3>2. CASE i \in S
      <4>1. Beyond(S, i) \subseteq Beyond(T, i) /\ S \subseteq T
        BY DEF Beyond, T
      <4>2. Cardinality(Beyond(S, i)) < JobMax
        BY <1>1, <1>3, <1>4, <2>1, <4>1, ControlAssumption
      <4> QED BY <1>5, <3>2, <4>2 DEF N, U
    <3> QED BY <2>1, <3>1, <3>2 DEF T
  <2> QED BY <1>5, <2>2, <2>3
<1>7. ASSUME NEW i \in Newest(U) PROVE i \in Newest(T)
  <2>1. i \in U /\ i \in T /\ i \in Nat /\ Cardinality(Beyond(U, i)) < JobMax
    BY <1>1, <1>5
  <2>2. Beyond(T, i) \subseteq Beyond(U, i)
    <3> SUFFICES ASSUME NEW x \in Beyond(T, i), x \notin U PROVE FALSE
      BY DEF Beyond
    <3>1. x \in S \ N /\ x > i /\ x \in Nat
      BY <1>1 DEF Beyond, T, U
    <3>2. PICK k \in S \ N : Beyond(S, k) \subseteq N
      BY <3>1, LastOutside
    <3>3. k \in Nat /\ k >= x
      BY <3>1, <3>2 DEF Beyond
    <3>4. Beyond(S, k) \subseteq Beyond(U, i)
      <4> SUFFICES ASSUME NEW y \in Beyond(S, k) PROVE y \in U /\ y > i
        BY DEF Beyond
      <4>1. y \in Nat /\ y > k /\ y \in N
        BY <3>2 DEF Beyond
      <4> QED BY <2>1, <3>1, <3>3, <4>1 DEF U
    <3>5. Cardinality(Beyond(S, k)) >= JobMax
      <4>1. Cardinality(Beyond(S, k)) \in Nat
        BY <1>3, <3>3 DEF T
      <4> QED BY <1>5, <4>1, ControlAssumption DEF N
    <3> QED
      BY <1>1, <1>3, <1>4, <2>1, <3>3, <3>4, <3>5, ControlAssumption DEF T
  <2>3. Beyond(T, i) = Beyond(U, i)
    BY <1>1, <2>2 DEF Beyond
  <2> QED BY <1>5, <2>1, <2>3
<1> QED BY <1>6, <1>7 DEF N, T, U

-----------------------------------------------------------------------------
AllRequests == [at : {"idle", "verify", "handle", "log"}, op : Ops, key : Callers]

LEMMA IdleIsRequest == Idle \in AllRequests
BY DEF Idle, AllRequests, Ops, Callers, Reading

LEMMA InitIInv == ASSUME Init PROVE IInv
<1> USE DEF Init
<1>1. TypeOK
  <2>1. req \in [Requests -> AllRequests]
    BY IdleIsRequest
  <2>2. log \in Nat /\ \E max \in LogMaxes : log <= max
    BY ControlAssumption
  <2> QED BY <2>1, <2>2 DEF TypeOK, AllRequests, NothingTold
<1>2. ToldOK
  BY FS_EmptySet DEF ToldOK, NothingTold
<1>3. ToldIsRevoked /\ LateIsRefused
  BY DEF ToldIsRevoked, LateIsRefused, NothingTold
<1>4. RowsAreNewestAccepted
  BY DEF RowsAreNewestAccepted, NothingTold, Newest
<1> QED BY <1>1, <1>2, <1>3, <1>4 DEF IInv

(* A request that goes on or is answered: it keeps its key until it is     *)
(* idle, and the others stay where they are.                               *)
LEMMA RequestMoves ==
    ASSUME TypeOK, NEW r \in Requests, NEW phase \in {"idle", "verify", "handle", "log"},
           Become(r, phase) \/ Fail(r)
    PROVE  /\ req' \in [Requests -> AllRequests]
           /\ \A q \in Requests : q # r => req'[q] = req[q]
           /\ \/ req'[r].at = phase /\ req'[r].key = req[r].key
              \/ req'[r].at = "idle"
<1>1. req \in [Requests -> AllRequests]
  BY DEF TypeOK, AllRequests
<1>2. CASE Become(r, phase)
  <2>1. req' = [req EXCEPT ![r] = [req[r] EXCEPT !.at = phase]]
    BY <1>2 DEF Become
  <2>2. [req[r] EXCEPT !.at = phase] \in AllRequests
    BY <1>1 DEF AllRequests
  <2>3. [req[r] EXCEPT !.at = phase].at = phase /\ [req[r] EXCEPT !.at = phase].key = req[r].key
    BY <1>1 DEF AllRequests
  <2> QED BY <1>1, <2>1, <2>2, <2>3
<1>3. CASE Fail(r)
  BY <1>1, <1>3, IdleIsRequest DEF Fail, Idle
<1> QED BY <1>2, <1>3

(* What a request does that leaves the tables, and what was told, alone.   *)
LEMMA QuietRequest ==
    ASSUME IInv, NEW r \in Requests, NEW phase \in {"idle", "handle", "log"},
           Become(r, phase) \/ Fail(r),
           phase = "handle" => r \notin late,
           txn' \in {"none", "begun", "snap"}, behind' \in BOOLEAN,
           UNCHANGED <<key, row, told, late, up, logMax, writing>>,
           log' \in Nat, \E max \in LogMaxes : log' <= max
    PROVE  IInv'
<1> USE DEF IInv
<1>1. /\ req' \in [Requests -> AllRequests]
      /\ \A q \in Requests : q # r => req'[q] = req[q]
      /\ req'[r].at = phase \/ req'[r].at = "idle"
  BY RequestMoves
<1>2. TypeOK'
  BY <1>1 DEF TypeOK, AllRequests
<1>3. ToldOK' /\ ToldIsRevoked'
  BY DEF ToldOK, ToldIsRevoked
<1>4. LateIsRefused'
  BY <1>1 DEF LateIsRefused, TypeOK
<1>5. RowsAreNewestAccepted'
  BY DEF RowsAreNewestAccepted, Newest
<1> QED BY <1>2, <1>3, <1>4, <1>5

(* What goes on outside the requests leaves the tables alone too.          *)
LEMMA QuietProcess ==
    ASSUME IInv,
           req' = req \/ req' = [r \in Requests |-> Idle],
           up' \in BOOLEAN, logMax' \in LogMaxes, writing' \in BOOLEAN,
           txn' \in {"none", "begun", "snap"}, behind' \in BOOLEAN,
           UNCHANGED <<key, row, log, told, late>>
    PROVE  IInv'
<1> USE DEF IInv
<1>1. req' \in [Requests -> AllRequests]
  BY IdleIsRequest DEF TypeOK, AllRequests
<1>2. TypeOK'
  BY <1>1 DEF TypeOK, AllRequests
<1>3. ToldOK' /\ ToldIsRevoked'
  BY DEF ToldOK, ToldIsRevoked
<1>4. LateIsRefused'
  BY DEF LateIsRefused, TypeOK, Idle
<1>5. RowsAreNewestAccepted'
  BY DEF RowsAreNewestAccepted, Newest
<1> QED BY <1>2, <1>3, <1>4, <1>5

-----------------------------------------------------------------------------
(* The actions.                                                            *)
LEMMA ArriveStep ==
    ASSUME IInv, NEW r \in Requests, NEW op \in Ops, NEW k \in Callers, Arrive(r, op, k)
    PROVE  IInv'
<1> USE DEF IInv, Arrive, tables, outside, connection
<1>1. req' \in [Requests -> AllRequests]
  BY DEF TypeOK, AllRequests
<1>2. TypeOK'
  BY <1>1 DEF TypeOK, AllRequests
<1>3. ToldOK' /\ ToldIsRevoked'
  BY DEF ToldOK, ToldIsRevoked
<1>4. LateIsRefused'
  BY DEF LateIsRefused, TypeOK
<1>5. RowsAreNewestAccepted'
  BY DEF RowsAreNewestAccepted, Newest
<1> QED BY <1>2, <1>3, <1>4, <1>5

(* A key that is told revoked is not live: its request goes to the log.    *)
LEMMA VerifyStep == ASSUME IInv, NEW r \in Requests, Verify(r) PROVE IInv'
<1> USE DEF Verify
<1>1. /\ txn' \in {"none", "begun", "snap"} /\ behind' \in BOOLEAN
      /\ log' = log /\ log \in Nat /\ \E max \in LogMaxes : log <= max
      /\ UNCHANGED <<key, row, told, late, up, logMax, writing>>
  BY DEF IInv, TypeOK, OnlyRead, Committed, Refused, Snapshot, tables, outside, connection
<1>2. \/ Become(r, "log") \/ Fail(r)
      \/ Become(r, "handle") /\ (req[r].key = Bootstrap \/ Live(req[r].key))
  OBVIOUS
<1>3. req[r].key = Bootstrap \/ Live(req[r].key) => r \notin late
  BY ControlAssumption DEF IInv, TypeOK, LateIsRefused, ToldIsRevoked, Live
<1> QED BY <1>1, <1>2, <1>3, QuietRequest

LEMMA ReadsStep == ASSUME IInv, NEW r \in Requests, Reads(r) PROVE IInv'
<1>1. /\ txn' \in {"none", "begun", "snap"} /\ behind' \in BOOLEAN
      /\ log' = log /\ log \in Nat /\ \E max \in LogMaxes : log <= max
      /\ UNCHANGED <<key, row, told, late, up, logMax, writing>>
  BY DEF Reads, IInv, TypeOK, OnlyRead, Snapshot, tables, outside
<1> QED BY <1>1, QuietRequest DEF Reads

LEMMA MintStep ==
    ASSUME IInv, NEW r \in Requests, NEW k \in Keys, Mint(r, k) PROVE IInv'
<1> USE DEF IInv, Mint
<1>1. /\ txn' \in {"none", "begun", "snap"} /\ behind' \in BOOLEAN
      /\ UNCHANGED <<log, row, told, late, up, logMax, writing>>
  BY DEF TypeOK, Committed, Refused, outside
<1>2. /\ req' \in [Requests -> AllRequests]
      /\ \A q \in Requests : q # r => req'[q] = req[q]
      /\ req'[r].at = "log" \/ req'[r].at = "idle"
  BY RequestMoves
<1>3. TypeOK'
  BY <1>1, <1>2 DEF TypeOK, AllRequests
<1>4. ToldOK' /\ ToldIsRevoked'
  BY <1>1 DEF ToldOK, ToldIsRevoked, TypeOK
<1>5. LateIsRefused'
  BY <1>1, <1>2 DEF LateIsRefused, TypeOK
<1>6. RowsAreNewestAccepted'
  BY <1>1 DEF RowsAreNewestAccepted, Newest
<1> QED BY <1>3, <1>4, <1>5, <1>6

(* Only what is revoked in the table is told.                              *)
LEMMA RevokeStep ==
    ASSUME IInv, NEW r \in Requests, NEW k \in Keys, Revoke(r, k) PROVE IInv'
<1> USE DEF IInv, Revoke
<1>1. /\ txn' \in {"none", "begun", "snap"} /\ behind' \in BOOLEAN
      /\ UNCHANGED <<log, row, late, up, logMax, writing>>
  BY DEF TypeOK, OnlyRead, Snapshot, Committed, Refused, outside
<1>2. /\ req' \in [Requests -> AllRequests]
      /\ \A q \in Requests : q # r => req'[q] = req[q]
      /\ req'[r].at = "log" \/ req'[r].at = "idle"
  BY RequestMoves
<1>3. /\ told' \in [revoked : SUBSET Keys, accepted : SUBSET Jobs]
      /\ told'.accepted = told.accepted
      /\ told.revoked \subseteq told'.revoked
      /\ \A x \in told'.revoked : x \in told.revoked \/ (x = k /\ key'[k] = "revoked")
  BY DEF ToldOK, SayRevoked, TypeOK
<1>4. key' \in [Keys -> {"absent", "live", "revoked"}]
      /\ \A x \in Keys : key[x] = "revoked" => key'[x] = "revoked"
  BY DEF TypeOK
<1>5. TypeOK'
  BY <1>1, <1>2, <1>3, <1>4 DEF TypeOK, AllRequests
<1>6. ToldOK' /\ ToldIsRevoked'
  BY <1>3, <1>4 DEF ToldOK, ToldIsRevoked
<1>7. LateIsRefused'
  BY <1>1, <1>2, <1>3 DEF LateIsRefused, TypeOK
<1>8. RowsAreNewestAccepted'
  BY <1>1, <1>3 DEF RowsAreNewestAccepted, Newest
<1> QED BY <1>5, <1>6, <1>7, <1>8

(* The row and the answer are of one transaction.                          *)
LEMMA SubmitStep ==
    ASSUME IInv, NEW r \in Requests, NEW j \in Jobs, Submit(r, j) PROVE IInv'
<1> USE DEF IInv, Submit
<1>1. /\ txn' \in {"none", "begun", "snap"} /\ behind' \in BOOLEAN
      /\ UNCHANGED <<key, log, late, up, logMax, writing>>
  BY DEF TypeOK, Committed, Refused, outside, connection
<1>2. /\ req' \in [Requests -> AllRequests]
      /\ \A q \in Requests : q # r => req'[q] = req[q]
      /\ req'[r].at = "log" \/ req'[r].at = "idle"
  BY RequestMoves
<1>3. \/ row' = row /\ told' = told
      \/ /\ row' = Inserted(j)
         /\ told' = [told EXCEPT !.accepted = @ \cup {j}]
  OBVIOUS
<1>4. ToldOK' /\ told'.revoked = told.revoked
  <2>1. IsFiniteSet(told.accepted \cup {j})
    BY FS_AddElement DEF ToldOK
  <2> QED BY <1>3, <2>1 DEF ToldOK
<1>5. row' \subseteq Jobs
  BY <1>3 DEF Inserted, Newest, TypeOK
<1>6. TypeOK'
  BY <1>1, <1>2, <1>4, <1>5 DEF TypeOK, ToldOK, AllRequests
<1>7. ToldIsRevoked'
  BY <1>1, <1>4 DEF ToldIsRevoked
<1>8. LateIsRefused'
  BY <1>1, <1>2, <1>4 DEF LateIsRefused, TypeOK
<1>9. RowsAreNewestAccepted'
  <2>1. CASE row' = row /\ told' = told
    BY <2>1 DEF RowsAreNewestAccepted, Newest
  <2>2. CASE row' = Inserted(j) /\ told' = [told EXCEPT !.accepted = @ \cup {j}]
    <3>1. told'.accepted = told.accepted \cup {j}
      BY <2>2 DEF ToldOK
    <3>2. told.accepted \in SUBSET Nat /\ IsFiniteSet(told.accepted) /\ j \in Nat
      BY ControlAssumption DEF ToldOK
    <3>3. Newest(Newest(told.accepted) \cup {j}) = Newest(told.accepted \cup {j})
      BY <3>2, NewestOfNewest
    <3> QED BY <2>2, <3>1, <3>3 DEF RowsAreNewestAccepted, Inserted
  <2> QED BY <1>3, <2>1, <2>2
<1> QED BY <1>4, <1>6, <1>7, <1>8, <1>9

LEMMA RecordStep == ASSUME IInv, NEW r \in Requests, Record(r) PROVE IInv'
<1>1. /\ txn' \in {"none", "begun", "snap"} /\ behind' \in BOOLEAN
      /\ UNCHANGED <<key, row, told, late, up, logMax, writing>>
  BY DEF Record, IInv, TypeOK, RollsBack, outside, connection
<1>2. log' \in Nat /\ \E max \in LogMaxes : log' <= max
  <2>1. log' = log \/ log' = Logged
    BY DEF Record
  <2>2. Logged \in Nat /\ Logged <= logMax /\ logMax \in LogMaxes
    BY ControlAssumption DEF IInv, TypeOK, Logged
  <2> QED BY <2>1, <2>2 DEF IInv, TypeOK
<1>3. Fail(r)
  BY DEF Record, Fail
<1> QED BY <1>1, <1>2, <1>3, QuietRequest

LEMMA ProcessStep ==
    ASSUME IInv, UpdateJob \/ Stop \/ Restart \/ Contend \/ ContendEnds PROVE IInv'
<1> USE DEF IInv, TypeOK, tables, outside, connection
<1>1. CASE UpdateJob
  BY <1>1, QuietProcess DEF UpdateJob, Committed, Refused
<1>2. CASE Stop
  BY <1>2, QuietProcess DEF Stop
<1>3. CASE Restart
  BY <1>3, QuietProcess DEF Restart
<1>4. CASE Contend
  BY <1>4, QuietProcess DEF Contend
<1>5. CASE ContendEnds
  BY <1>5, QuietProcess DEF ContendEnds
<1> QED BY <1>1, <1>2, <1>3, <1>4, <1>5

LEMMA NextStep == ASSUME IInv, [Next]_vars PROVE IInv'
<1>1. CASE UNCHANGED vars
  BY <1>1 DEF vars, IInv, TypeOK, ToldOK, ToldIsRevoked, LateIsRefused,
              RowsAreNewestAccepted, Newest
<1>2. CASE Next
  BY <1>2, ArriveStep, VerifyStep, ReadsStep, MintStep, RevokeStep, SubmitStep,
     RecordStep, ProcessStep DEF Next, Serve
<1> QED BY <1>1, <1>2

(* Every behaviour keeps the inductive invariant.                          *)
THEOREM Invariance == Spec => []IInv
<1>1. Init => IInv
  BY InitIInv
<1>2. IInv /\ [Next]_vars => IInv'
  BY NextStep
<1> QED BY <1>1, <1>2, PTL DEF Spec

(* The variables keep their types: the log is never longer than a bound    *)
(* that was configured.                                                    *)
THEOREM TypeCorrect == Spec => []TypeOK
<1>1. IInv => TypeOK
  BY DEF IInv
<1> QED BY <1>1, Invariance, PTL

(* A request with a key its caller was told is revoked never passes        *)
(* require_api_key.                                                        *)
THEOREM RevokedIsRefused == Spec => []RevokedNeverPasses
<1>1. IInv => RevokedNeverPasses
  BY DEF IInv, LateIsRefused, RevokedNeverPasses
<1> QED BY <1>1, Invariance, PTL

(* The rows are those of the newest jobs that were answered with 202, for  *)
(* every order in which their requests take the lock.                      *)
THEOREM RowsAreRetained == Spec => []RowsAreNewestAccepted
<1>1. IInv => RowsAreNewestAccepted
  BY DEF IInv
<1> QED BY <1>1, Invariance, PTL
=============================================================================
