--------------------------- MODULE DerivedProofs ----------------------------
(***************************************************************************)
(* Proofs about Derived, for every value of its constants.                 *)
(*                                                                         *)
(* Maintainer, stores of any number of memories: what an entry does to     *)
(* them, that no maintenance makes a cycle of what replaced what, and that *)
(* every edge leads to a row and every row has its type.                   *)
(*                                                                         *)
(* SummaryRevision, any number of ingestions into the session and any      *)
(* number of crashes: a summary that may be recalled tells every active    *)
(* fact whose ingestion marked it.                                         *)
(*                                                                         *)
(* Dreaming, any number of facts, entities, dreamers and crashes: who is   *)
(* at work holds the mutex and has read all that was marked, and while no  *)
(* fact of an entity is deleted its profiles follow one another in time.   *)
(***************************************************************************)
EXTENDS Derived, SequenceTheorems, FiniteSetTheorems, WellFoundedInduction, TLAPS

(* The fields that decide about supersession, in a row as in an assertion. *)
Sound(r) ==
    /\ Fields \cup {"status", "objects"} \subseteq DOMAIN r
    /\ {r.from, r.occurred, r.said, r.sig} \subseteq Nat

(* l is the row r, with another status and end.                            *)
Same(l, r) ==
    /\ DOMAIN l = DOMAIN r
    /\ \A x \in DOMAIN r \ {"status", "until"} : l[x] = r[x]

(* What is current is not outranked, and the rest is, by what is current.  *)
Ranking ==
    \A i \in DOMAIN Rows :
        IF Active(i) THEN ~\E j \in DOMAIN Rows : Outranks(j, i)
        ELSE \E j \in DOMAIN Rows : Active(j) /\ Outranks(j, i)

IInv ==
    /\ pool \in Pools
    /\ happened = {} =>
        /\ Rows \in Seq({Rows[i] : i \in DOMAIN Rows})
        /\ \A i \in DOMAIN Rows : Sound(Rows[i])
        /\ Comparable => Ranking

-----------------------------------------------------------------------------
(* A nonempty set of numbers has a least one.                              *)
LEMMA FirstIsLeast ==
    ASSUME NEW U \in SUBSET Nat, U # {}
    PROVE  First(U) \in U /\ \A j \in U : First(U) <= j
<1> DEFINE T == {0..i : i \in U}
           R == StrictSubsetOrdering(Nat)
<1>1. T # {} /\ T \subseteq FiniteSubsetsOf(Nat)
  <2>1. \A i \in U : 0..i \in FiniteSubsetsOf(Nat)
    <3> SUFFICES ASSUME NEW i \in U PROVE 0..i \in FiniteSubsetsOf(Nat)
      OBVIOUS
    <3>1. IsFiniteSet(0..i)
      BY FS_Interval
    <3> QED BY <3>1 DEF FiniteSubsetsOf
  <2> QED BY <2>1
<1>2. PICK x \in T : \A y \in T : ~(<<y, x>> \in R)
  <2> HIDE DEF T, R
  <2>1. IsWellFoundedOn(R, FiniteSubsetsOf(Nat))
    BY FS_StrictSubsetOrderingWellFounded DEF R
  <2> QED BY <1>1, <2>1, WFMin
<1>3. PICK i \in U : x = 0..i
  OBVIOUS
<1>4. ASSUME NEW j \in U PROVE i <= j
  <2> SUFFICES ASSUME j < i PROVE FALSE
    OBVIOUS
  <2>1. 0..j \in T /\ 0..j \subseteq x /\ i \in x /\ i \notin 0..j
    BY <1>3
  <2>2. <<0..j, x>> \in R
    BY <1>3, <2>1 DEF StrictSubsetOrdering
  <2> QED BY <1>2, <2>1, <2>2
<1> QED BY <1>4 DEF First

(* A function on the first n numbers is a sequence of that length.         *)
LEMMA FunctionIsSequence ==
    ASSUME NEW n \in Nat, NEW f, f = [i \in 1..n |-> f[i]]
    PROVE  f \in Seq({f[i] : i \in DOMAIN f}) /\ Len(f) = n
<1> DEFINE U == {f[i] : i \in DOMAIN f}
<1>1. DOMAIN f = 1..n
  OBVIOUS
<1>2. f \in [1..n -> U]
  BY <1>1
<1>3. f \in Seq(U)
  BY <1>2, SeqDef
<1>4. DOMAIN f = 1..Len(f) /\ Len(f) \in Nat
  <2> HIDE DEF U
  <2> QED BY <1>3, LenProperties
<1> QED BY <1>1, <1>3, <1>4

(* Supersession does not look at the status or the end of a row.           *)
LEMMA SameDecides ==
    ASSUME NEW e, NEW f, NEW d, NEW g, Sound(e), Sound(f), Same(d, e), Same(g, f)
    PROVE  /\ Sound(d)
           /\ SameSlot(d, g) <=> SameSlot(e, f)
           /\ MayClose(d, g) <=> MayClose(e, f)
           /\ Before(d, g) <=> Before(e, f)
           /\ UpdateLike(d) <=> UpdateLike(e)
           /\ d.range = e.range
<1>1. /\ d.from = e.from /\ d.occurred = e.occurred /\ d.said = e.said /\ d.sig = e.sig
      /\ d.kind = e.kind /\ d.correction = e.correction /\ d.cue = e.cue
      /\ d.predicate = e.predicate /\ d.type = e.type /\ d.roles = e.roles
      /\ d.unit = e.unit /\ d.range = e.range /\ d.spans = e.spans
  BY DEF Sound, Same, Fields
<1>2. /\ g.from = f.from /\ g.occurred = f.occurred /\ g.said = f.said /\ g.sig = f.sig
      /\ g.kind = f.kind /\ g.correction = f.correction /\ g.cue = f.cue
      /\ g.predicate = f.predicate /\ g.type = f.type /\ g.roles = f.roles
      /\ g.unit = f.unit /\ g.range = f.range /\ g.spans = f.spans
  BY DEF Sound, Same, Fields
<1>3. Sound(d)
  BY <1>1 DEF Sound, Same
<1>4. SameSlot(d, g) <=> SameSlot(e, f)
  BY <1>1, <1>2 DEF SameSlot, Identity
<1>5. MayClose(d, g) <=> MayClose(e, f)
  BY <1>1, <1>2 DEF MayClose, ByUser
<1>6. Before(d, g) <=> Before(e, f)
  BY <1>1, <1>2 DEF Before, Since, Either
<1>7. UpdateLike(d) <=> UpdateLike(e)
  BY <1>1 DEF UpdateLike
<1> QED BY <1>1, <1>3, <1>4, <1>5, <1>6, <1>7

(* What the extractor makes is a row to compare, and it is current.        *)
LEMMA AssertionIsSound ==
    ASSUME NEW a, IsAssertion(a)
    PROVE  LET new == AsRow(Materialized(a)) IN
           Sound(new) /\ new.status = "active" /\ (new.correction <=> a.correction)
<1> DEFINE m == Materialized(a)
<1>1. First(Said(a)) \in Nat
  <2>1. Said(a) \subseteq Nat /\ Said(a) # {}
    BY MaintainerAssumption DEF IsAssertion, Said
  <2> QED BY <2>1, FirstIsLeast
<1>2. /\ DOMAIN m = Fields
      /\ m.from \in Nat
      /\ \A x \in Fields \ {"from"} : m[x] = a[x]
  BY <1>1 DEF IsAssertion, Materialized, Fields
<1>3. {m.from, m.occurred, m.said, m.sig} \subseteq Nat /\ (m.correction <=> a.correction)
  BY <1>2 DEF IsAssertion, Fields
<1> HIDE DEF m
<1>4. /\ DOMAIN AsRow(m) = Fields \cup {"status", "objects"}
      /\ AsRow(m).status = "active"
      /\ \A x \in Fields : AsRow(m)[x] = m[x]
  BY <1>2 DEF AsRow, Fields
<1>5. Sound(AsRow(m)) /\ AsRow(m).correction = m.correction
  BY <1>3, <1>4 DEF Sound, Fields
<1> QED BY <1>3, <1>4, <1>5 DEF m

-----------------------------------------------------------------------------
(* Outranks, of rows and their places.                                     *)
Over(e, i, f, j) ==
    /\ i # j
    /\ SameSlot(e, f)
    /\ MayClose(e, f)
    /\ \/ Before(f, e)
       \/ ~Before(e, f) /\ i < j

LEMMA SlotsAreSymmetric ==
    ASSUME NEW e, NEW f
    PROVE  SameSlot(e, f) <=> SameSlot(f, e)
BY DEF SameSlot

LEMMA BeforeIsAsymmetric ==
    ASSUME NEW e, NEW f, Sound(e), Sound(f), Before(e, f)
    PROVE  ~Before(f, e)
<1>1. {Since(e), Since(f), e.said, f.said, e.sig, f.sig} \subseteq Nat
  BY DEF Sound, Since, Either
<1> QED BY <1>1 DEF Before

(* The order of the keys, and of the places among equal ones, is strict.   *)
LEMMA OverIsAsymmetric ==
    ASSUME NEW e, NEW f, Sound(e), Sound(f), NEW i \in Nat, NEW j \in Nat,
           Over(e, i, f, j)
    PROVE  ~Over(f, j, e, i)
<1>1. {Since(e), Since(f), e.said, f.said, e.sig, f.sig} \subseteq Nat
  BY DEF Sound, Since, Either
<1> QED BY <1>1 DEF Over, Before

LEMMA OverIsTransitive ==
    ASSUME NEW e, NEW f, NEW g, Sound(e), Sound(f), Sound(g),
           NEW i \in Nat, NEW j \in Nat, NEW k \in Nat,
           Over(e, i, f, j), Over(f, j, g, k), SameSlot(e, g), i # k
    PROVE  Over(e, i, g, k)
<1>1. Since(e) \in Nat /\ Since(f) \in Nat /\ Since(g) \in Nat
  BY DEF Sound, Since, Either
<1>2. /\ e.said \in Nat /\ f.said \in Nat /\ g.said \in Nat
      /\ e.sig \in Nat /\ f.sig \in Nat /\ g.sig \in Nat
  BY DEF Sound
<1>3. MayClose(e, g)
  BY DEF Over, MayClose
<1>4. Before(g, e) \/ (~Before(e, g) /\ i < k)
  <2>1. Before(f, e) \/ (~Before(e, f) /\ i < j)
    BY DEF Over
  <2>2. Before(g, f) \/ (~Before(f, g) /\ j < k)
    BY DEF Over
  <2> QED BY <1>1, <1>2, <2>1, <2>2 DEF Before
<1> QED BY <1>3, <1>4 DEF Over

(* R says who of the first n outranks whom, and A who of them is current.  *)
StrictOrder(n, R) ==
    /\ \A i, j \in 1..n : <<i, j>> \in R => <<j, i>> \notin R
    /\ \A i, j, k \in 1..n : <<i, j>> \in R /\ <<j, k>> \in R => <<i, k>> \in R

Ranked(n, A, R) ==
    \A i \in 1..n : IF i \in A THEN \A j \in 1..n : <<j, i>> \notin R
                    ELSE \E j \in A : <<j, i>> \in R

(* What becomes of A when one more comes.                                  *)
Joined(n, A, B, R) ==
    /\ \A i \in 1..n : i \in B <=> i \in A /\ <<n + 1, i>> \notin R
    /\ n + 1 \in B <=> \A j \in A : <<j, n + 1>> \notin R

LEMMA OneMore ==
    ASSUME NEW n \in Nat, NEW A \in SUBSET (1..n), NEW B \in SUBSET (1..(n + 1)), NEW R,
           StrictOrder(n + 1, R), Ranked(n, A, R), Joined(n, A, B, R)
    PROVE  Ranked(n + 1, B, R)
<1> DEFINE p == n + 1
<1> USE DEF StrictOrder, Ranked, Joined
<1>1. 1..p = 1..n \cup {p} /\ p \notin 1..n
  OBVIOUS
<1>2. \A i \in A : <<p, i>> \in R => p \in B
  <2> SUFFICES ASSUME NEW i \in A, <<p, i>> \in R, NEW j \in A, <<j, p>> \in R
               PROVE  FALSE
    OBVIOUS
  <2>1. <<j, i>> \in R
    BY <1>1
  <2> QED BY <2>1
<1>3. ASSUME NEW i \in 1..n, i \in B
      PROVE  \A j \in 1..p : <<j, i>> \notin R
  BY <1>1, <1>3
<1>4. ASSUME NEW i \in 1..n, i \notin B
      PROVE  \E j \in B : <<j, i>> \in R
  <2>1. CASE i \in A
    BY <1>2, <1>4, <2>1
  <2>2. CASE i \notin A
    <3>1. PICK j \in A : <<j, i>> \in R
      BY <2>2
    <3>2. CASE <<p, j>> \in R
      BY <1>1, <1>2, <3>1, <3>2
    <3>3. CASE <<p, j>> \notin R
      BY <3>1, <3>3
    <3> QED BY <3>2, <3>3
  <2> QED BY <2>1, <2>2
<1>5. ASSUME p \in B
      PROVE  \A j \in 1..p : <<j, p>> \notin R
  <2> SUFFICES ASSUME NEW j \in 1..p, <<j, p>> \in R PROVE FALSE
    OBVIOUS
  <2>1. j \in 1..n /\ j \notin A
    BY <1>1, <1>5
  <2>2. PICK k \in A : <<k, j>> \in R
    BY <2>1
  <2>3. <<k, p>> \in R
    BY <1>1, <2>1, <2>2
  <2> QED BY <1>5, <2>3
<1>6. ASSUME p \notin B
      PROVE  \E j \in B : <<j, p>> \in R
  <2>1. PICK j \in A : <<j, p>> \in R
    BY <1>6
  <2>2. <<p, j>> \notin R /\ j \in 1..n
    BY <1>1, <2>1
  <2> QED BY <2>1, <2>2
<1> QED BY <1>1, <1>3, <1>4, <1>5, <1>6

-----------------------------------------------------------------------------
New(a) == AsRow(Materialized(a))
Rivalry(a) == Rivals(Rows, New(a), Len(Rows) + 1, {})

(* A fact that neither merges nor extends nor corrects is added at the     *)
(* end, where it is closed if a rival is better, and closes those it beats.*)
LEMMA IngestAdds ==
    ASSUME IInv, NEW a \in pool, Ingest(a), happened' = {}
    PROVE  LET n == Len(Rows) IN
           /\ n \in Nat /\ DOMAIN Rows = 1..n /\ DOMAIN Rows' = 1..(n + 1)
           /\ Rows' \in Seq({Rows'[i] : i \in DOMAIN Rows'})
           /\ Sound(New(a))
           /\ \A i \in 1..n :
                Rows'[i] = IF i \in Beaten(Rows, New(a), Rivalry(a))
                           THEN Closed(Rows[i], New(a)) ELSE Rows[i]
           /\ Same(Rows'[n + 1], New(a))
           /\ Rows'[n + 1].status = "active" <=> Better(Rows, New(a), Rivalry(a)) = {}
<1> DEFINE n == Len(Rows)
           new == New(a)
           p == Place(Rows, new)
           twins == Twins(Rows, new)
           same == {i \in DOMAIN Rows : Extends(Rows[i], new)}
<1>1. happened = {} /\ Kinship(a) = {} /\ ~a.correction
  BY DEF Ingest
<1>2. n \in Nat /\ DOMAIN Rows = 1..n
  BY <1>1, LenProperties DEF IInv
<1>3. Sound(new) /\ new.status = "active" /\ ~new.correction
  <2>1. IsAssertion(a)
    BY MaintainerAssumption DEF IInv
  <2> QED BY <1>1, <2>1, AssertionIsSound DEF New
<1>4. Len(Rows') > n
  BY <1>1 DEF Kinship, Rows
<1>5. p \in 1..n \/ p = n + 1
  <2>1. twins \subseteq 1..n /\ same \subseteq 1..n
    BY <1>2 DEF Twins
  <2>2. 1..n \subseteq Nat
    BY <1>2
  <2>3. twins # {} => First(twins) \in 1..n
    BY <2>1, <2>2, FirstIsLeast
  <2>4. same # {} => First(same) \in 1..n
    BY <2>1, <2>2, FirstIsLeast
  <2> QED BY <2>3, <2>4 DEF Place
<1>0. twins # {} => p \in 1..n
  <2>1. twins \subseteq 1..n /\ 1..n \subseteq Nat
    BY <1>2 DEF Twins
  <2> QED BY <2>1, FirstIsLeast DEF Place
<1> HIDE DEF new, twins, same
<1> DEFINE f == IF p \in DOMAIN Rows THEN Merged(Rows[p], new) ELSE new
           denied == Contradicted(Rows, f, p)
           rivals == IF Compares(Rows, new) THEN Rivals(Rows, f, p, denied) ELSE {}
           beaten == Beaten(Rows, f, rivals)
           better == Better(Rows, f, rivals)
           closed == Closed(f, Rows[Newest(Rows, better)])
<1>6. Rows' = [i \in DOMAIN Rows \cup {p} |->
                  IF i = p THEN IF better = {} THEN f ELSE closed
                  ELSE IF i \in denied THEN [Rows[i] EXCEPT !.status = "contradicted"]
                  ELSE IF i \in beaten THEN Closed(Rows[i], f)
                  ELSE Rows[i]]
  BY DEF Ingest, Maintained, Rows, new, New
<1> HIDE DEF p, f, denied, rivals, beaten, better, closed
<1>7. p = n + 1
  <2> SUFFICES ASSUME p \in 1..n PROVE FALSE
    BY <1>5
  <2>1. DOMAIN Rows' = 1..n
    BY <1>2, <1>6
  <2>2. Rows' = [i \in 1..n |-> Rows'[i]]
    BY <1>6, <2>1
  <2>3. Len(Rows') = n
    BY <1>2, <2>2, FunctionIsSequence
  <2> QED BY <1>2, <1>4, <2>3
<1>8. DOMAIN Rows' = 1..(n + 1)
  BY <1>2, <1>6, <1>7
<1>9. Rows' \in Seq({Rows'[i] : i \in DOMAIN Rows'})
  <2>1. Rows' = [i \in 1..(n + 1) |-> Rows'[i]]
    BY <1>6, <1>8
  <2> QED BY <1>2, <2>1, FunctionIsSequence
<1>10. f = new /\ denied = {}
  BY <1>2, <1>3, <1>7 DEF f, denied, Contradicted
<1>11. beaten = Beaten(Rows, new, Rivalry(a)) /\ better = Better(Rows, new, Rivalry(a))
  <2>1. Compares(Rows, new)
    BY <1>0, <1>2, <1>7 DEF Compares, twins
  <2> QED BY <1>7, <1>10, <2>1 DEF beaten, better, rivals, Rivalry, new
<1>12. ASSUME NEW i \in 1..n
       PROVE  Rows'[i] = IF i \in beaten THEN Closed(Rows[i], new) ELSE Rows[i]
  BY <1>2, <1>6, <1>7, <1>10
<1>13. Same(Rows'[n + 1], new) /\ (Rows'[n + 1].status = "active" <=> better = {})
  <2>1. CASE better = {}
    BY <1>2, <1>3, <1>6, <1>7, <1>10, <2>1 DEF Same
  <2>2. CASE better # {}
    <3>1. Rows'[n + 1] = closed
      BY <1>2, <1>6, <1>7, <2>2
    <3>2. closed.status = "superseded" /\ Same(closed, new)
      BY <1>3, <1>10 DEF closed, Closed, Same, Sound
    <3> QED BY <2>2, <3>1, <3>2
  <2> QED BY <2>1, <2>2
<1> QED BY <1>2, <1>3, <1>8, <1>9, <1>11, <1>12, <1>13 DEF new

(* A fact that is added to comparable facts joins their ranking.           *)
LEMMA IngestRanks ==
    ASSUME IInv, NEW a \in pool, Ingest(a), happened' = {}
    PROVE  IInv'
<1> DEFINE n == Len(Rows)
           new == New(a)
           beaten == Beaten(Rows, new, Rivalry(a))
           better == Better(Rows, new, Rivalry(a))
<1>1. happened = {} /\ pool' = pool
  BY DEF Ingest, Bounded
<1>2. /\ n \in Nat /\ DOMAIN Rows = 1..n /\ DOMAIN Rows' = 1..(n + 1)
      /\ Rows' \in Seq({Rows'[i] : i \in DOMAIN Rows'})
      /\ Sound(new)
      /\ \A i \in 1..n :
           Rows'[i] = IF i \in beaten THEN Closed(Rows[i], new) ELSE Rows[i]
      /\ Same(Rows'[n + 1], new)
      /\ Rows'[n + 1].status = "active" <=> better = {}
  BY IngestAdds
<1>3. \A i \in 1..n : Sound(Rows[i])
  BY <1>1, <1>2 DEF IInv
<1> HIDE DEF n, new, beaten, better
<1>4. \A i \in 1..n : Same(Rows'[i], Rows[i])
  BY <1>2, <1>3 DEF Same, Sound, Closed
<1>5. \A i \in 1..(n + 1) : Sound(Rows'[i])
  <2>1. Sound(Rows'[n + 1])
    BY <1>2, SameDecides
  <2>2. \A i \in 1..n : Sound(Rows'[i])
    BY <1>3, <1>4, SameDecides
  <2> QED BY <1>2, <2>1, <2>2
<1>6. ASSUME Comparable' PROVE Ranking'
  <2> DEFINE R == {r \in (1..(n + 1)) \X (1..(n + 1)) : Outranks(r[1], r[2])'}
             A == {i \in 1..n : Active(i)}
             B == {i \in 1..(n + 1) : Active(i)'}
  <2>1. \A i, j \in 1..(n + 1) : <<i, j>> \in R <=> Over(Rows'[i], i, Rows'[j], j)
    BY DEF Outranks, Over
  <2>2. \A i, j \in 1..(n + 1) : Outranks(i, j)' <=> <<i, j>> \in R
    OBVIOUS
  <2> HIDE DEF R
  <2>3. 1..(n + 1) = 1..n \cup {n + 1} /\ n + 1 \notin 1..n
    BY <1>2
  <2>4. ASSUME NEW i \in 1..n, NEW j \in 1..n
        PROVE  /\ SameSlot(Rows'[i], Rows'[j]) <=> SameSlot(Rows[i], Rows[j])
               /\ Outranks(i, j) <=> <<i, j>> \in R
    <3>1. /\ SameSlot(Rows'[i], Rows'[j]) <=> SameSlot(Rows[i], Rows[j])
          /\ MayClose(Rows'[i], Rows'[j]) <=> MayClose(Rows[i], Rows[j])
          /\ Before(Rows'[i], Rows'[j]) <=> Before(Rows[i], Rows[j])
          /\ Before(Rows'[j], Rows'[i]) <=> Before(Rows[j], Rows[i])
      BY <1>3, <1>4, SameDecides
    <3>2. <<i, j>> \in R <=> Over(Rows'[i], i, Rows'[j], j)
      BY <2>1, <2>3
    <3> QED BY <3>1, <3>2 DEF Outranks, Over
  <2>5. ASSUME NEW i \in 1..n
        PROVE  /\ <<n + 1, i>> \in R <=> Over(new, n + 1, Rows[i], i)
               /\ <<i, n + 1>> \in R <=> Over(Rows[i], i, new, n + 1)
    <3>1. /\ SameSlot(Rows'[i], Rows'[n + 1]) <=> SameSlot(Rows[i], new)
          /\ MayClose(Rows'[i], Rows'[n + 1]) <=> MayClose(Rows[i], new)
          /\ Before(Rows'[i], Rows'[n + 1]) <=> Before(Rows[i], new)
      BY <1>2, <1>3, <1>4, SameDecides
    <3>2. /\ SameSlot(Rows'[n + 1], Rows'[i]) <=> SameSlot(new, Rows[i])
          /\ MayClose(Rows'[n + 1], Rows'[i]) <=> MayClose(new, Rows[i])
          /\ Before(Rows'[n + 1], Rows'[i]) <=> Before(new, Rows[i])
      BY <1>2, <1>3, <1>4, SameDecides
    <3>3. /\ <<n + 1, i>> \in R <=> Over(Rows'[n + 1], n + 1, Rows'[i], i)
          /\ <<i, n + 1>> \in R <=> Over(Rows'[i], i, Rows'[n + 1], n + 1)
      BY <2>1, <2>3
    <3> QED BY <3>1, <3>2, <3>3 DEF Over
  <2>6. /\ UpdateLike(new) /\ new.range = {}
        /\ \A i \in 1..n : UpdateLike(Rows[i]) /\ Rows[i].range = {}
    <3>1. \A i \in 1..(n + 1) : UpdateLike(Rows'[i]) /\ Rows'[i].range = {}
      BY <1>2, <1>6 DEF Comparable
    <3>2. UpdateLike(new) /\ new.range = {}
      BY <1>2, <2>3, <3>1, SameDecides
    <3>3. \A i \in 1..n : UpdateLike(Rows[i]) /\ Rows[i].range = {}
      BY <1>3, <1>4, <2>3, <3>1, SameDecides
    <3> QED BY <3>2, <3>3
  <2>7. /\ \A i \in 1..n : i \in beaten \cup better => i \in Rivalry(a)
        /\ \A i \in 1..n : i \in Rivalry(a) => Visible(Rows[i])
        /\ better \subseteq 1..n
    BY <1>2 DEF beaten, better, Beaten, Better, Rivalry, Rivals
  <2>8. ASSUME NEW i \in 1..n
        PROVE  i \in B <=> i \in A /\ i \notin beaten
    <3>1. Closed(Rows[i], new).status = "superseded"
      BY <1>3 DEF Closed, Sound
    <3> QED BY <1>2, <2>3, <3>1 DEF Active
  <2>9. ASSUME NEW i \in A PROVE Visible(Rows[i])
    <3> SUFFICES ASSUME i \notin beaten PROVE Visible(Rows[i])
      BY <2>7
    <3>1. Rows'[i] = Rows[i] /\ i \in B
      BY <1>2, <2>8
    <3>2. i \in DOMAIN Rows'
      BY <1>2, <2>3
    <3> QED BY <1>6, <3>1, <3>2 DEF Comparable
  <2>10. Comparable
    <3>1. \A i, j, k \in 1..n :
            SameSlot(Rows'[i], Rows'[j]) /\ SameSlot(Rows'[j], Rows'[k])
                => SameSlot(Rows'[i], Rows'[k])
      BY <1>2, <1>6, <2>3 DEF Comparable
    <3>2. \A i, j, k \in 1..n :
            SameSlot(Rows[i], Rows[j]) /\ SameSlot(Rows[j], Rows[k])
                => SameSlot(Rows[i], Rows[k])
      BY <2>4, <3>1
    <3> QED BY <1>2, <2>6, <2>9, <3>2 DEF Comparable
  <2>11. ASSUME NEW i \in A
         PROVE  /\ i \in beaten <=> <<n + 1, i>> \in R
                /\ i \in better <=> <<i, n + 1>> \in R
    <3>1. i \in Rivalry(a) <=> SameSlot(Rows[i], new)
      <4>1. i \in DOMAIN Rows \ {n + 1} /\ Visible(Rows[i]) /\ UpdateLike(new)
        BY <1>2, <2>3, <2>6, <2>9
      <4>2. ~Subsumes(Rows[i], new)
        BY <2>6 DEF Subsumes
      <4> QED BY <4>1, <4>2 DEF Rivalry, Rivals, n, new
    <3>2. Before(new, Rows[i]) => ~Before(Rows[i], new)
      BY <1>2, <1>3, BeforeIsAsymmetric
    <3>3. i < n + 1
      BY <1>2
    <3>4. SameSlot(Rows[i], new) <=> SameSlot(new, Rows[i])
      BY SlotsAreSymmetric
    <3>5. /\ i \in beaten <=> i \in Rivalry(a) /\ Before(Rows[i], new) /\ MayClose(new, Rows[i])
          /\ i \in better <=> i \in Rivalry(a) /\ ~Before(Rows[i], new) /\ MayClose(Rows[i], new)
      BY DEF beaten, better, Beaten, Better
    <3>6. /\ <<n + 1, i>> \in R <=> Over(new, n + 1, Rows[i], i)
          /\ <<i, n + 1>> \in R <=> Over(Rows[i], i, new, n + 1)
      BY <2>5
    <3>7. i \in Nat /\ n + 1 \in Nat
      BY <1>2
    <3>8. Over(new, n + 1, Rows[i], i) <=> i \in beaten
      BY <3>1, <3>3, <3>4, <3>5, <3>7 DEF Over
    <3>9. Over(Rows[i], i, new, n + 1) <=> i \in better
      BY <3>1, <3>2, <3>3, <3>5, <3>7 DEF Over
    <3> QED BY <3>6, <3>8, <3>9
  <2>12. \A i, j \in 1..(n + 1) : <<i, j>> \in R => <<j, i>> \notin R
    <3> SUFFICES ASSUME NEW i \in 1..(n + 1), NEW j \in 1..(n + 1), <<i, j>> \in R
                 PROVE  ~Over(Rows'[j], j, Rows'[i], i)
      BY <2>1
    <3>1. Over(Rows'[i], i, Rows'[j], j) /\ i \in Nat /\ j \in Nat
      BY <1>2, <2>1
    <3> QED BY <1>5, <3>1, OverIsAsymmetric
  <2>13. \A i, j, k \in 1..(n + 1) :
            <<i, j>> \in R /\ <<j, k>> \in R => <<i, k>> \in R
    <3> SUFFICES ASSUME NEW i \in 1..(n + 1), NEW j \in 1..(n + 1), NEW k \in 1..(n + 1),
                        <<i, j>> \in R, <<j, k>> \in R
                 PROVE  Over(Rows'[i], i, Rows'[k], k)
      BY <2>1
    <3>1. i # k
      BY <2>12
    <3>2. Over(Rows'[i], i, Rows'[j], j) /\ Over(Rows'[j], j, Rows'[k], k)
      BY <2>1
    <3>3. SameSlot(Rows'[i], Rows'[k])
      BY <1>2, <1>6, <3>2 DEF Comparable, Over
    <3>4. i \in Nat /\ j \in Nat /\ k \in Nat
      BY <1>2
    <3> QED BY <1>5, <3>1, <3>2, <3>3, <3>4, OverIsTransitive
  <2>14. StrictOrder(n + 1, R)
    BY <2>12, <2>13 DEF StrictOrder
  <2>15. Ranked(n, A, R)
    <3>1. Ranking
      BY <1>1, <2>10 DEF IInv
    <3> QED BY <1>2, <2>4, <3>1 DEF Ranking, Ranked
  <2>16. Joined(n, A, B, R)
    <3>1. \A i \in 1..n : i \in B <=> i \in A /\ <<n + 1, i>> \notin R
      BY <2>8, <2>11
    <3>2. n + 1 \in B <=> better = {}
      BY <1>2, <2>3 DEF Active
    <3>3. better \subseteq A
      BY <2>7 DEF Visible, Active
    <3>4. n + 1 \in B <=> \A j \in A : <<j, n + 1>> \notin R
      BY <2>11, <3>2, <3>3
    <3> HIDE DEF A, B
    <3> QED BY <3>1, <3>4 DEF Joined
  <2>17. Ranked(n + 1, B, R)
    <3>1. n \in Nat /\ A \in SUBSET (1..n) /\ B \in SUBSET (1..(n + 1))
      BY <1>2
    <3> HIDE DEF A, B
    <3> QED BY <2>14, <2>15, <2>16, <3>1, OneMore
  <2> QED BY <1>2, <2>2, <2>17 DEF Ranking, Ranked
<1> QED BY <1>1, <1>2, <1>5, <1>6 DEF IInv

-----------------------------------------------------------------------------
LEMMA InitRanks == Init => IInv
<1> SUFFICES ASSUME Init PROVE IInv
  OBVIOUS
<1>1. Rows = <<>> /\ DOMAIN Rows = {}
  BY DEF Init, Empty, Rows
<1>2. Rows \in Seq({Rows[i] : i \in DOMAIN Rows})
  BY <1>1, EmptySeq
<1> QED BY <1>1, <1>2 DEF Init, IInv, Ranking

LEMMA NextRanks == IInv /\ [Next]_vars => IInv'
<1> SUFFICES ASSUME IInv, [Next]_vars PROVE IInv'
  OBVIOUS
<1>1. ASSUME NEW a \in pool, Ingest(a) PROVE IInv'
  <2>1. CASE happened' = {}
    BY <1>1, <2>1, IngestRanks
  <2>2. CASE happened' # {}
    BY <1>1, <2>2 DEF Ingest, Bounded, IInv
  <2> QED BY <2>1, <2>2
<1>2. ASSUME NEW t \in DOMAIN store.rows, Archive(t) PROVE IInv'
  BY <1>2 DEF Archive, Bounded, IInv
<1>3. ASSUME NEW t \in DOMAIN store.rows, NEW a \in pool, Patch(t, a) PROVE IInv'
  <2>1. happened' # {} /\ pool' = pool
    BY <1>3 DEF Patch, Bounded
  <2> QED BY <2>1 DEF IInv
<1>4. CASE UNCHANGED vars
  BY <1>4 DEF vars, IInv, Ranking, Comparable, Outranks, Active, Rows
<1> QED BY <1>1, <1>2, <1>3, <1>4 DEF Next

(* Whatever the users say, and whenever it was said: as long as only       *)
(* comparable facts were added, those are current that no other outranks,  *)
(* in whichever order maintain() saw them.                                 *)
THEOREM CurrentIsWhatIsUnbeaten == Spec => []CurrentIsUnbeaten
<1>1. IInv => CurrentIsUnbeaten
  BY DEF IInv, Ranking, CurrentIsUnbeaten
<1> QED BY <1>1, InitRanks, NextRanks, PTL DEF Spec

-----------------------------------------------------------------------------
(* Rows are ordered by their keys, and of several there is a newest one.   *)
LEMMA BeforeIsWeakOrder ==
    ASSUME NEW e, NEW f, NEW g, Sound(e), Sound(f), Sound(g)
    PROVE  /\ ~Before(e, e)
           /\ Before(e, f) /\ Before(f, g) => Before(e, g)
           /\ Before(e, g) => Before(e, f) \/ Before(f, g)
<1>1. Since(e) \in Nat /\ Since(f) \in Nat /\ Since(g) \in Nat
  BY DEF Sound, Since, Either
<1>2. /\ e.said \in Nat /\ f.said \in Nat /\ g.said \in Nat
      /\ e.sig \in Nat /\ f.sig \in Nat /\ g.sig \in Nat
  BY DEF Sound
<1> QED BY <1>1, <1>2 DEF Before

(* Of several rows there is a newest one.                                  *)
LEMMA NewestExists ==
    ASSUME NEW n \in Nat, NEW rows, NEW U \in SUBSET (1..n), U # {},
           \A i \in U : Sound(rows[i])
    PROVE  Newest(rows, U) \in U
<1> DEFINE Later(i) == {j \in U : Before(rows[i], rows[j])}
           B == {Later(i) : i \in U}
           R == StrictSubsetOrdering(U)
<1>1. IsFiniteSet(U)
  <2>1. IsFiniteSet(1..n)
    BY FS_Interval
  <2> QED BY <2>1, FS_Subset
<1>2. B # {} /\ B \subseteq FiniteSubsetsOf(U)
  <2>1. ASSUME NEW i \in U PROVE Later(i) \in FiniteSubsetsOf(U)
    <3>1. Later(i) \in SUBSET U
      OBVIOUS
    <3> HIDE DEF Later
    <3> QED BY <1>1, <3>1, FS_Subset DEF FiniteSubsetsOf
  <2> HIDE DEF Later
  <2> QED BY <2>1
<1>3. PICK b \in B : \A d \in B : <<d, b>> \notin R
  <2> HIDE DEF B, R
  <2>1. IsWellFoundedOn(R, FiniteSubsetsOf(U))
    BY FS_StrictSubsetOrderingWellFounded DEF R
  <2> QED BY <1>2, <2>1, WFMin
<1>4. PICK i \in U : b = Later(i)
  OBVIOUS
<1>5. ASSUME NEW j \in U, Before(rows[i], rows[j]) PROVE FALSE
  <2>1. j \in Later(i) /\ j \notin Later(j)
    BY <1>5, BeforeIsWeakOrder
  <2>2. Later(j) \subseteq Later(i)
    BY <1>5, BeforeIsWeakOrder
  <2>3. Later(j) \in B
    OBVIOUS
  <2>4. <<Later(j), b>> \in R
    <3>1. Later(j) \in SUBSET U /\ Later(i) \in SUBSET U
      OBVIOUS
    <3> HIDE DEF Later
    <3> QED BY <1>4, <2>1, <2>2, <3>1 DEF StrictSubsetOrdering
  <2> HIDE DEF B, R, Later
  <2> QED BY <1>3, <2>3, <2>4
<1> DEFINE N == {k \in U : \A j \in U : ~Before(rows[k], rows[j])}
<1>6. N # {} /\ N \in SUBSET Nat /\ N \subseteq U
  <2>1. i \in N
    BY <1>5
  <2>2. U \subseteq Nat
    OBVIOUS
  <2> QED BY <2>1, <2>2
<1> HIDE DEF N
<1>7. First(N) \in N
  BY <1>6, FirstIsLeast
<1> QED BY <1>6, <1>7 DEF Newest, N

-----------------------------------------------------------------------------
(* What every row and every store is, whatever was patched or extended.    *)
GoodRow(r) == Sound(r) /\ r.status \in Statuses /\ r.spans \subseteq Spans

Edges(n) == {"SUPERSEDES", "CONTRADICTS"} \X (1..n) \X (1..n)

GoodStore(s) ==
    /\ s = [rows |-> s.rows, edges |-> s.edges]
    /\ s.rows \in Seq({s.rows[i] : i \in DOMAIN s.rows})
    /\ \A i \in DOMAIN s.rows : GoodRow(s.rows[i])
    /\ s.edges \subseteq Edges(Len(s.rows))

LEMMA GoodRowsStay ==
    ASSUME NEW r, GoodRow(r)
    PROVE  /\ \A w : Sound(w) => GoodRow(Closed(r, w))
           /\ \A status \in Statuses : GoodRow([r EXCEPT !.status = status])
           /\ \A f : GoodRow(f) => GoodRow(Merged(r, f)) /\ Merged(r, f).status = r.status
<1>1. ASSUME NEW w PROVE GoodRow(Closed(r, w))
  BY DEF GoodRow, Sound, Closed, Fields, Statuses
<1>2. ASSUME NEW status \in Statuses PROVE GoodRow([r EXCEPT !.status = status])
  BY DEF GoodRow, Sound, Fields
<1>3. ASSUME NEW f, GoodRow(f) PROVE GoodRow(Merged(r, f)) /\ Merged(r, f).status = r.status
  <2> DEFINE m == Merged(r, f)
  <2>1. /\ DOMAIN m = DOMAIN r
        /\ m.spans = r.spans \cup f.spans
        /\ m.occurred = Either(r.occurred, f.occurred) /\ m.from = Either(r.from, f.from)
        /\ m.said = r.said /\ m.sig = r.sig /\ m.status = r.status
    BY DEF GoodRow, Sound, Fields, Merged
  <2>2. \A x, y \in Nat : Either(x, y) \in Nat
    BY DEF Either
  <2> HIDE DEF m
  <2>3. {m.from, m.occurred, m.said, m.sig} \subseteq Nat
    BY <1>3, <2>1, <2>2 DEF GoodRow, Sound
  <2> QED BY <1>3, <2>1, <2>3 DEF GoodRow, Sound, m
<1> QED BY <1>1, <1>2, <1>3

LEMMA NewIsGood ==
    ASSUME NEW a, IsAssertion(a) PROVE GoodRow(New(a)) /\ New(a).status = "active"
<1>1. Sound(New(a)) /\ New(a).status = "active"
  BY AssertionIsSound DEF New
<1>2. New(a).spans = a.spans
  BY DEF New, AsRow, Materialized, IsAssertion, Fields
<1> QED BY <1>1, <1>2 DEF GoodRow, IsAssertion, Statuses

(* A function on 1..m whose values are good rows is the rows of a store.   *)
LEMMA RowsMakeStore ==
    ASSUME NEW m \in Nat, NEW rows, NEW edges,
           DOMAIN rows = 1..m, rows = [i \in 1..m |-> rows[i]],
           \A i \in 1..m : GoodRow(rows[i]), edges \subseteq Edges(m)
    PROVE  GoodStore([rows |-> rows, edges |-> edges]) /\ Len(rows) = m
<1>1. rows \in Seq({rows[i] : i \in DOMAIN rows}) /\ Len(rows) = m
  BY FunctionIsSequence
<1> QED BY <1>1 DEF GoodStore

(* What maintenance does to n rows: the fact f is put at p, new or merged  *)
(* into the row there; what it denies, it beats, or is closed by was       *)
(* active, and so was the row at p if any of them was compared with it.    *)
IsPut(s, now, p, f, denied, beaten, better, heir) ==
    LET n == Len(s.rows)
    IN  /\ p \in 1..(n + 1) /\ GoodRow(f)
        /\ f.status = IF p \in 1..n THEN s.rows[p].status ELSE "active"
        /\ denied \cup beaten \cup better \subseteq 1..n \ {p}
        /\ beaten \cap (denied \cup better) = {}
        /\ \A i \in beaten \cup better : s.rows[i].status = "active"
        /\ better # {} => heir \in better
        /\ beaten \cup better # {} => f.status = "active"
        /\ now = [rows |-> now.rows, edges |-> now.edges]
        /\ now.rows = [i \in 1..n \cup {p} |->
                          IF i = p
                          THEN IF better = {} THEN f ELSE Closed(f, s.rows[heir])
                          ELSE IF i \in denied THEN [s.rows[i] EXCEPT !.status = "contradicted"]
                          ELSE IF i \in beaten THEN Closed(s.rows[i], f)
                          ELSE s.rows[i]]
        /\ now.edges = s.edges
                          \cup Edge("CONTRADICTS", p, denied)
                          \cup Edge("SUPERSEDES", p, beaten)
                          \cup (IF better = {} THEN {} ELSE Edge("SUPERSEDES", heir, {p}))

LEMMA MaintainedPuts ==
    ASSUME NEW s, GoodStore(s), NEW a, IsAssertion(a)
    PROVE  /\ Len(s.rows) \in Nat /\ DOMAIN s.rows = 1..Len(s.rows)
           /\ \A i \in 1..Len(s.rows) : GoodRow(s.rows[i])
           /\ \E p, f, denied, beaten, better, heir :
                IsPut(s, Maintained(s, a), p, f, denied, beaten, better, heir)
<1> DEFINE n == Len(s.rows)
           new == New(a)
           p == Place(s.rows, new)
           twins == Twins(s.rows, new)
           same == {i \in DOMAIN s.rows : Extends(s.rows[i], new)}
           f == IF p \in DOMAIN s.rows THEN Merged(s.rows[p], new) ELSE new
           denied == Contradicted(s.rows, f, p)
           rivals == IF Compares(s.rows, new) THEN Rivals(s.rows, f, p, denied) ELSE {}
           beaten == Beaten(s.rows, f, rivals)
           better == Better(s.rows, f, rivals)
           heir == Newest(s.rows, better)
           rows == Maintained(s, a).rows
           edges == Maintained(s, a).edges
<1>1. /\ n \in Nat /\ DOMAIN s.rows = 1..n
      /\ \A i \in 1..n : GoodRow(s.rows[i])
  BY LenProperties DEF GoodStore
<1>2. /\ Maintained(s, a) = [rows |-> rows, edges |-> edges]
      /\ rows = [i \in 1..n \cup {p} |->
                   IF i = p
                   THEN IF better = {} THEN f ELSE Closed(f, s.rows[heir])
                   ELSE IF i \in denied THEN [s.rows[i] EXCEPT !.status = "contradicted"]
                   ELSE IF i \in beaten THEN Closed(s.rows[i], f)
                   ELSE s.rows[i]]
      /\ edges = s.edges
                   \cup Edge("CONTRADICTS", p, denied)
                   \cup Edge("SUPERSEDES", p, beaten)
                   \cup (IF better = {} THEN {} ELSE Edge("SUPERSEDES", heir, {p}))
  BY <1>1 DEF Maintained, New
<1>3. /\ p \in 1..n \/ p = n + 1
      /\ twins = {} => p = n + 1 \/ s.rows[p].status = "active"
  <2>1. twins \subseteq 1..n /\ same \subseteq 1..n
    BY <1>1 DEF Twins
  <2>2. 1..n \subseteq Nat
    BY <1>1
  <2>3. twins # {} => First(twins) \in twins
    BY <2>1, <2>2, FirstIsLeast
  <2>4. same # {} => First(same) \in same
    BY <2>1, <2>2, FirstIsLeast
  <2>5. \A i \in same : s.rows[i].status = "active"
    BY DEF Extends, Visible
  <2> HIDE DEF twins, same
  <2>6. p = IF twins # {} THEN First(twins) ELSE IF same # {} THEN First(same) ELSE n + 1
    BY DEF Place, twins, same
  <2> QED BY <2>1, <2>3, <2>4, <2>5, <2>6
<1>4. GoodRow(new) /\ new.status = "active"
  BY NewIsGood
<1>5. GoodRow(f) /\ f.status = IF p \in 1..n THEN s.rows[p].status ELSE "active"
  <2> HIDE DEF new, p
  <2> QED BY <1>1, <1>4, GoodRowsStay
<1>6. Compares(s.rows, new) <=> twins = {}
  BY DEF Compares
<1> HIDE DEF new, p, f, twins
<1>7. /\ denied \subseteq 1..n \ {p} /\ rivals \subseteq 1..n \ (denied \cup {p})
      /\ \A i \in rivals : s.rows[i].status = "active"
      /\ rivals # {} => twins = {}
  BY <1>1, <1>6 DEF Contradicted, Rivals, Visible
<1> HIDE DEF denied, rivals
<1>8. beaten \subseteq rivals /\ better \subseteq rivals /\ beaten \cap better = {}
  BY DEF Beaten, Better
<1> HIDE DEF beaten, better
<1>9. better # {} => heir \in better
  <2>1. better \in SUBSET (1..n) /\ \A i \in better : Sound(s.rows[i])
    BY <1>1, <1>7, <1>8 DEF GoodRow
  <2> QED BY <1>1, <2>1, NewestExists
<1> HIDE DEF heir, rows, edges, n
<1>10. beaten \cup better # {} => f.status = "active"
  <2> SUFFICES ASSUME beaten \cup better # {} PROVE f.status = "active"
    OBVIOUS
  <2>1. twins = {}
    BY <1>7, <1>8
  <2>2. p = n + 1 \/ s.rows[p].status = "active"
    BY <1>3, <2>1
  <2>3. n + 1 \notin 1..n
    BY <1>1 DEF n
  <2> QED BY <1>5, <2>2, <2>3
<1>11. p \in 1..(n + 1)
  BY <1>1, <1>3
<1>12. /\ denied \cup beaten \cup better \subseteq 1..n \ {p}
       /\ beaten \cap (denied \cup better) = {}
       /\ \A i \in beaten \cup better : s.rows[i].status = "active"
  BY <1>7, <1>8
<1>13. IsPut(s, Maintained(s, a), p, f, denied, beaten, better, heir)
  BY <1>2, <1>5, <1>9, <1>10, <1>11, <1>12 DEF IsPut, n
<1> QED BY <1>1, <1>13 DEF n

LEMMA MaintainedIsGood ==
    ASSUME NEW s, GoodStore(s), NEW a, IsAssertion(a)
    PROVE  /\ GoodStore(Maintained(s, a))
           /\ Len(Maintained(s, a).rows) \in {Len(s.rows), Len(s.rows) + 1}
           /\ Len(s.rows) \in Nat /\ DOMAIN s.rows = 1..Len(s.rows)
<1> DEFINE n == Len(s.rows)
           now == Maintained(s, a)
           rows == now.rows
           edges == now.edges
<1>1. /\ n \in Nat /\ DOMAIN s.rows = 1..n /\ s.edges \subseteq Edges(n)
      /\ \A i \in 1..n : GoodRow(s.rows[i])
  BY MaintainedPuts DEF GoodStore
<1> HIDE DEF now
<1>2. PICK p, f, denied, beaten, better, heir :
        IsPut(s, now, p, f, denied, beaten, better, heir)
  BY MaintainedPuts DEF now
<1> HIDE DEF n
<1>3. /\ p \in 1..(n + 1) /\ GoodRow(f)
      /\ denied \cup beaten \cup better \subseteq 1..n
      /\ better # {} => heir \in 1..n
  BY <1>2 DEF IsPut, n
<1>4. PICK m \in {n, n + 1} : 1..n \cup {p} = 1..m
  BY <1>1, <1>3
<1>5. \A i \in 1..m : GoodRow(rows[i])
  <2> SUFFICES ASSUME NEW i \in 1..m PROVE GoodRow(rows[i])
    OBVIOUS
  <2>1. CASE i = p
    <3>1. better # {} => Sound(s.rows[heir])
      BY <1>1, <1>3 DEF GoodRow
    <3>2. rows[i] = IF better = {} THEN f ELSE Closed(f, s.rows[heir])
      BY <1>2, <2>1 DEF IsPut, n
    <3> QED BY <1>3, <3>1, <3>2, GoodRowsStay
  <2>2. CASE i # p
    <3>1. i \in 1..n
      BY <1>4, <2>2
    <3>2. rows[i] = IF i \in denied THEN [s.rows[i] EXCEPT !.status = "contradicted"]
                    ELSE IF i \in beaten THEN Closed(s.rows[i], f) ELSE s.rows[i]
      BY <1>2, <2>2, <3>1 DEF IsPut, n
    <3>3. "contradicted" \in Statuses /\ Sound(f) /\ GoodRow(s.rows[i])
      BY <1>1, <1>3, <3>1 DEF Statuses, GoodRow
    <3> QED BY <3>2, <3>3, GoodRowsStay
  <2> QED BY <2>1, <2>2
<1>6. edges \subseteq Edges(m)
  <2>1. p \in 1..m /\ 1..n \subseteq 1..m
    BY <1>4
  <2>2. s.edges \subseteq Edges(m)
    BY <1>1, <2>1 DEF Edges
  <2>3. Edge("CONTRADICTS", p, denied) \subseteq Edges(m)
        /\ Edge("SUPERSEDES", p, beaten) \subseteq Edges(m)
    BY <1>3, <2>1 DEF Edge, Edges
  <2>4. better # {} => Edge("SUPERSEDES", heir, {p}) \subseteq Edges(m)
    BY <1>3, <2>1 DEF Edge, Edges
  <2>5. edges = s.edges
                  \cup Edge("CONTRADICTS", p, denied)
                  \cup Edge("SUPERSEDES", p, beaten)
                  \cup (IF better = {} THEN {} ELSE Edge("SUPERSEDES", heir, {p}))
    BY <1>2 DEF IsPut
  <2> QED BY <2>2, <2>3, <2>4, <2>5
<1>7. now = [rows |-> rows, edges |-> edges]
  BY <1>2 DEF IsPut
<1>8. DOMAIN rows = 1..m /\ rows = [i \in 1..m |-> rows[i]] /\ m \in Nat
  BY <1>1, <1>2, <1>4 DEF IsPut, n
<1> HIDE DEF rows, edges
<1>9. GoodStore([rows |-> rows, edges |-> edges]) /\ Len(rows) = m
  BY ONLY <1>5, <1>6, <1>8, RowsMakeStore
<1> QED BY <1>1, <1>4, <1>7, <1>9 DEF n, now, rows

(* The type invariant, which needs that rows are sound for a newest of     *)
(* them to be one of them.                                                 *)
TypeInv == GoodStore(store) /\ TypeOK

LEMMA InitIsTyped == Init => TypeInv
<1> SUFFICES ASSUME Init PROVE TypeInv
  OBVIOUS
<1>1. /\ store.rows = <<>> /\ DOMAIN store.rows = {} /\ store.edges = {}
      /\ store = [rows |-> store.rows, edges |-> store.edges]
  BY DEF Init, Empty
<1>2. store.rows \in Seq({store.rows[i] : i \in DOMAIN store.rows})
  BY <1>1, EmptySeq
<1> QED BY <1>1, <1>2, MaintainerAssumption DEF TypeInv, GoodStore, TypeOK, Init, Rows

(* The part of the type that is of the store follows from what it is.      *)
LEMMA StoreIsTyped ==
    ASSUME NEW s, GoodStore(s)
    PROVE  /\ \A i \in DOMAIN s.rows : s.rows[i].status \in Statuses /\ s.rows[i].spans \subseteq Spans
           /\ s.edges \subseteq {"SUPERSEDES", "CONTRADICTS"} \X (DOMAIN s.rows) \X (DOMAIN s.rows)
           /\ Len(s.rows) \in Nat /\ DOMAIN s.rows = 1..Len(s.rows)
<1>1. Len(s.rows) \in Nat /\ DOMAIN s.rows = 1..Len(s.rows)
  BY LenProperties DEF GoodStore
<1> QED BY <1>1 DEF GoodStore, GoodRow, Edges

LEMMA PatchIsGood ==
    ASSUME GoodStore(store), NEW t \in DOMAIN store.rows, NEW a, IsAssertion(a), Patch(t, a)
    PROVE  GoodStore(store')
<1> DEFINE now == Maintained(store, a)
           w == Len(now.rows)
           n == Len(store.rows)
<1>1. /\ GoodStore(now) /\ w \in {n, n + 1} /\ n \in Nat /\ DOMAIN store.rows = 1..n
  BY MaintainedIsGood
<1>2. store' = IF w = n THEN now
               ELSE [rows |-> [now.rows EXCEPT ![t] = Closed(@, now.rows[w])],
                     edges |-> now.edges \cup Edge("SUPERSEDES", w, {t})]
  BY DEF Patch, Fresh
<1> HIDE DEF now
<1>3. CASE w = n
  BY <1>1, <1>2, <1>3
<1>4. CASE w # n
  <2> DEFINE rows == [now.rows EXCEPT ![t] = Closed(@, now.rows[w])]
             edges == now.edges \cup Edge("SUPERSEDES", w, {t})
  <2>1. w \in Nat /\ t \in 1..w /\ w \in 1..w
    BY <1>1, <1>4
  <2>2. /\ DOMAIN now.rows = 1..w /\ now.edges \subseteq Edges(w)
        /\ \A i \in 1..w : GoodRow(now.rows[i])
        /\ now.rows \in Seq({now.rows[i] : i \in DOMAIN now.rows})
    BY <1>1, LenProperties DEF GoodStore
  <2>3. GoodRow(Closed(now.rows[t], now.rows[w]))
    <3>1. GoodRow(now.rows[t]) /\ Sound(now.rows[w])
      BY <2>1, <2>2 DEF GoodRow
    <3> QED BY <3>1, GoodRowsStay
  <2>4. DOMAIN rows = 1..w /\ rows = [i \in 1..w |-> rows[i]] /\ \A i \in 1..w : GoodRow(rows[i])
    <3> HIDE DEF w
    <3>1. DOMAIN rows = 1..w
      BY <2>2
    <3>2. \A i \in 1..w : rows[i] = IF i = t THEN Closed(now.rows[t], now.rows[w]) ELSE now.rows[i]
      BY <2>2
    <3>3. rows = [i \in 1..w |-> rows[i]]
      BY <3>1
    <3> QED BY <2>2, <2>3, <3>1, <3>2, <3>3
  <2>5. edges \subseteq Edges(w)
    <3> HIDE DEF w
    <3> QED BY <2>1, <2>2 DEF Edge, Edges
  <2> HIDE DEF rows, edges, w
  <2>6. GoodStore([rows |-> rows, edges |-> edges])
    BY ONLY <2>1, <2>4, <2>5, RowsMakeStore
  <2> QED BY <1>2, <1>4, <2>6 DEF rows, edges
<1> QED BY <1>3, <1>4

LEMMA ArchiveIsGood ==
    ASSUME GoodStore(store), NEW t \in DOMAIN store.rows, Archive(t)
    PROVE  GoodStore(store')
<1> DEFINE n == Len(store.rows)
           row == [store.rows[t] EXCEPT !.status = "archived"]
           rows == [store.rows EXCEPT ![t] = row]
           edges == store.edges
<1>1. /\ n \in Nat /\ DOMAIN store.rows = 1..n /\ edges \subseteq Edges(n)
      /\ \A i \in 1..n : GoodRow(store.rows[i])
  BY LenProperties DEF GoodStore
<1>2. store' = [rows |-> rows, edges |-> edges]
  BY DEF Archive, GoodStore
<1>3. GoodRow(row)
  BY <1>1, GoodRowsStay DEF Statuses
<1> HIDE DEF row, n
<1>4. DOMAIN rows = 1..n /\ \A i \in 1..n : rows[i] = IF i = t THEN row ELSE store.rows[i]
  BY <1>1
<1>5. rows = [i \in 1..n |-> rows[i]] /\ \A i \in 1..n : GoodRow(rows[i])
  BY <1>1, <1>3, <1>4
<1> HIDE DEF rows, edges
<1>6. GoodStore([rows |-> rows, edges |-> edges])
  BY ONLY <1>1, <1>4, <1>5, RowsMakeStore
<1> QED BY <1>2, <1>6

LEMMA NextIsTyped == TypeInv /\ [Next]_vars => TypeInv'
<1> SUFFICES ASSUME TypeInv, [Next]_vars PROVE TypeInv'
  OBVIOUS
<1>1. \A a \in pool : IsAssertion(a)
  BY MaintainerAssumption DEF TypeInv, TypeOK
<1>2. ASSUME GoodStore(store'), Bounded,
             happened' \subseteq {"merge", "extend", "correction", "patch", "archive"}
      PROVE  TypeInv'
  <2>1. pool' \in Pools /\ operations' \in 0..MaxOperations
    BY <1>2, MaintainerAssumption DEF TypeInv, TypeOK, Bounded
  <2>2. /\ \A i \in DOMAIN Rows' : Rows'[i].status \in Statuses /\ Rows'[i].spans \subseteq Spans
        /\ store'.edges \subseteq {"SUPERSEDES", "CONTRADICTS"} \X (DOMAIN Rows') \X (DOMAIN Rows')
    BY <1>2, StoreIsTyped DEF Rows
  <2> QED BY <1>2, <2>1, <2>2 DEF TypeInv, TypeOK
<1>3. ASSUME NEW a PROVE Kinship(a) \subseteq {"merge", "extend"}
  BY DEF Kinship
<1>4. ASSUME NEW a \in pool, Ingest(a) PROVE TypeInv'
  <2>1. GoodStore(store')
    BY <1>1, <1>4, MaintainedIsGood DEF TypeInv, Ingest
  <2>2. Bounded /\ happened' \subseteq {"merge", "extend", "correction", "patch", "archive"}
    BY <1>3, <1>4 DEF Ingest, TypeInv, TypeOK
  <2> QED BY <1>2, <2>1, <2>2
<1>5. ASSUME NEW t \in DOMAIN store.rows, NEW a \in pool, Patch(t, a) PROVE TypeInv'
  <2>1. GoodStore(store')
    BY <1>1, <1>5, PatchIsGood DEF TypeInv
  <2>2. Bounded /\ happened' \subseteq {"merge", "extend", "correction", "patch", "archive"}
    BY <1>3, <1>5 DEF Patch, TypeInv, TypeOK
  <2> QED BY <1>2, <2>1, <2>2
<1>6. ASSUME NEW t \in DOMAIN store.rows, Archive(t) PROVE TypeInv'
  <2>1. GoodStore(store')
    BY <1>6, ArchiveIsGood DEF TypeInv
  <2>2. Bounded /\ happened' \subseteq {"merge", "extend", "correction", "patch", "archive"}
    BY <1>6 DEF Archive, TypeInv, TypeOK
  <2> QED BY <1>2, <2>1, <2>2
<1>7. CASE UNCHANGED vars
  BY <1>7 DEF vars, TypeInv, TypeOK, Rows
<1> QED BY <1>4, <1>5, <1>6, <1>7 DEF Next

(* However facts are told, corrected and deleted, a row has one of the     *)
(* four statuses and an edge leads from a row to a row: the heir that a    *)
(* fact is closed by, and the fact that a correction is closed by, exist.  *)
THEOREM EdgesLeadToRows == Spec => []TypeOK
<1>1. TypeInv => TypeOK
  BY DEF TypeInv
<1> QED BY <1>1, InitIsTyped, NextIsTyped, PTL DEF Spec

-----------------------------------------------------------------------------
(* Status and edges agree: the invariant behind SupersessionAcyclic.  What *)
(* takes the place of rows, and what takes its place, was active, so that  *)
(* no edge led to it: no cycle can be closed.                              *)
Replaced(s, j, i) == <<"SUPERSEDES", j, i>> \in s.edges

Agrees(s) ==
    /\ \A i, j \in DOMAIN s.rows : Replaced(s, j, i) => s.rows[i].status # "active"
    /\ \A i \in DOMAIN s.rows :
        s.rows[i].status = "superseded" => \E j \in DOMAIN s.rows : Replaced(s, j, i)

Acyclic(s) ==
    \A X \in (SUBSET DOMAIN s.rows) \ {{}} : \E i \in X : \A j \in X : ~Replaced(s, j, i)

LEMMA PutChains ==
    ASSUME NEW s, GoodStore(s), Agrees(s), NEW now, NEW p, NEW f, NEW denied, NEW beaten,
           NEW better, NEW heir, IsPut(s, now, p, f, denied, beaten, better, heir)
    PROVE  Agrees(now) /\ (Acyclic(s) => Acyclic(now))
<1> DEFINE n == Len(s.rows)
<1>1. /\ n \in Nat /\ DOMAIN s.rows = 1..n
      /\ \A i \in 1..n : GoodRow(s.rows[i])
      /\ \A i, j : Replaced(s, j, i) => i \in 1..n /\ j \in 1..n
  BY LenProperties DEF GoodStore, Edges, Replaced
<1> HIDE DEF n
<1>2. /\ DOMAIN now.rows = 1..n \cup {p}
      /\ now.rows[p] = IF better = {} THEN f ELSE Closed(f, s.rows[heir])
      /\ \A i \in 1..n \ {p} :
           now.rows[i] = IF i \in denied THEN [s.rows[i] EXCEPT !.status = "contradicted"]
                         ELSE IF i \in beaten THEN Closed(s.rows[i], f) ELSE s.rows[i]
  BY DEF IsPut, n
<1>3. /\ p \in 1..(n + 1) /\ GoodRow(f)
      /\ f.status = IF p \in 1..n THEN s.rows[p].status ELSE "active"
      /\ denied \cup beaten \cup better \subseteq 1..n \ {p}
      /\ beaten \cap (denied \cup better) = {}
      /\ \A i \in beaten \cup better : s.rows[i].status = "active"
      /\ better # {} => heir \in better
      /\ beaten \cup better # {} => f.status = "active"
  BY DEF IsPut, n
<1>4. \A i, j : Replaced(now, j, i) <=>
        \/ Replaced(s, j, i) \/ (j = p /\ i \in beaten) \/ (better # {} /\ j = heir /\ i = p)
  BY DEF IsPut, Replaced, Edge
<1>5. \A r, w : GoodRow(r) => Closed(r, w).status = "superseded"
                              /\ [r EXCEPT !.status = "contradicted"].status = "contradicted"
  BY DEF GoodRow, Sound, Fields, Closed
<1>6. /\ now.rows[p].status = IF better = {} THEN f.status ELSE "superseded"
      /\ \A i \in 1..n \ {p} :
           now.rows[i].status = IF i \in denied THEN "contradicted"
                                ELSE IF i \in beaten THEN "superseded" ELSE s.rows[i].status
  <2>1. now.rows[p].status = IF better = {} THEN f.status ELSE "superseded"
    BY <1>2, <1>3, <1>5
  <2>2. ASSUME NEW i \in 1..n \ {p}
        PROVE  now.rows[i].status = IF i \in denied THEN "contradicted"
                                    ELSE IF i \in beaten THEN "superseded" ELSE s.rows[i].status
    <3>1. /\ [s.rows[i] EXCEPT !.status = "contradicted"].status = "contradicted"
          /\ Closed(s.rows[i], f).status = "superseded"
      BY <1>1, <1>5
    <3>2. now.rows[i] = IF i \in denied THEN [s.rows[i] EXCEPT !.status = "contradicted"]
                        ELSE IF i \in beaten THEN Closed(s.rows[i], f) ELSE s.rows[i]
      BY <1>2
    <3> QED BY <3>1, <3>2
  <2> QED BY <2>1, <2>2
<1>7. \A i, j : Replaced(s, j, i) => s.rows[i].status # "active"
  BY <1>1 DEF Agrees
<1>8. Agrees(now)
  <2>1. ASSUME NEW i, NEW j, Replaced(now, j, i) PROVE now.rows[i].status # "active"
    <3>1. CASE Replaced(s, j, i)
      BY <1>1, <1>3, <1>6, <1>7, <3>1
    <3>2. CASE j = p /\ i \in beaten
      BY <1>3, <1>6, <3>2
    <3>3. CASE better # {} /\ i = p
      BY <1>6, <3>3
    <3> QED BY <1>4, <2>1, <3>1, <3>2, <3>3
  <2>2. ASSUME NEW i \in 1..n \cup {p}, now.rows[i].status = "superseded"
        PROVE  \E j \in 1..n \cup {p} : Replaced(now, j, i)
    <3>1. CASE i = p /\ better # {}
      <4>1. Replaced(now, heir, i) /\ heir \in 1..n
        BY <1>3, <1>4, <3>1
      <4> QED BY <4>1
    <3>2. CASE i \in beaten
      <4>1. Replaced(now, p, i)
        BY <1>4, <3>2
      <4> QED BY <4>1
    <3>3. CASE i \in 1..n /\ s.rows[i].status = "superseded"
      <4>1. PICK j \in 1..n : Replaced(s, j, i)
        BY <1>1, <3>3 DEF Agrees
      <4> QED BY <1>4, <4>1
    <3>4. i = p /\ better = {} => i \in 1..n /\ s.rows[i].status = "superseded"
      BY <1>3, <1>6, <2>2
    <3>5. i # p => i \in beaten \/ (s.rows[i].status = "superseded" /\ i \in 1..n)
      BY <1>6, <2>2
    <3> QED BY <3>1, <3>2, <3>3, <3>4, <3>5
  <2> QED BY <1>2, <2>1, <2>2 DEF Agrees
<1>9. ASSUME Acyclic(s), NEW X \in (SUBSET (1..n \cup {p})) \ {{}}
      PROVE  \E i \in X : \A j \in X : ~Replaced(now, j, i)
  <2>1. ASSUME NEW i, f.status = "active", i = p \/ i \in better
        PROVE  \A j : ~Replaced(s, j, i)
    BY <1>1, <1>3, <1>7, <2>1
  <2>2. CASE better # {} /\ heir \in X
    <3>1. \A j : ~Replaced(now, j, heir)
      <4>1. heir \in better /\ heir # p /\ heir \notin beaten /\ f.status = "active"
        BY <1>3, <2>2
      <4> QED BY <1>4, <2>1, <4>1
    <3> QED BY <2>2, <3>1
  <2>3. CASE beaten \cup better # {} /\ ~(better # {} /\ heir \in X) /\ p \in X
    <3>1. f.status = "active" /\ p \notin beaten
      BY <1>3, <2>3
    <3>2. \A j \in X : ~Replaced(now, j, p)
      BY <1>4, <2>1, <2>3, <3>1
    <3> QED BY <2>3, <3>2
  <2>4. CASE beaten \cup better = {} \/ p \notin X
    <3>1. \A i, j \in X : Replaced(now, j, i) <=> Replaced(s, j, i)
      <4>1. \A i, j \in X : ~(j = p /\ i \in beaten) /\ ~(better # {} /\ i = p)
        BY <2>4
      <4> QED BY <1>4, <4>1
    <3>2. CASE X \cap 1..n = {}
      <4>1. PICK i \in X : TRUE
        OBVIOUS
      <4>2. i \notin 1..n
        BY <3>2
      <4>3. \A j \in X : ~Replaced(now, j, i)
        BY <1>1, <3>1, <4>2
      <4> QED BY <4>3
    <3>3. CASE X \cap 1..n # {}
      <4>1. X \cap 1..n \in (SUBSET DOMAIN s.rows) \ {{}}
        BY <1>1, <3>3
      <4>2. PICK i \in X \cap 1..n : \A j \in X \cap 1..n : ~Replaced(s, j, i)
        BY <1>9, <4>1 DEF Acyclic
      <4>3. \A j \in X : ~Replaced(now, j, i)
        BY <1>1, <3>1, <4>2
      <4> QED BY <4>2, <4>3
    <3> QED BY <3>2, <3>3
  <2> QED BY <2>2, <2>3, <2>4
<1> QED BY <1>2, <1>8, <1>9 DEF Acyclic

LEMMA MaintainedChains ==
    ASSUME NEW s, GoodStore(s), Agrees(s), NEW a, IsAssertion(a)
    PROVE  Agrees(Maintained(s, a)) /\ (Acyclic(s) => Acyclic(Maintained(s, a)))
<1> DEFINE now == Maintained(s, a)
<1> HIDE DEF now
<1>1. PICK p, f, denied, beaten, better, heir :
        IsPut(s, now, p, f, denied, beaten, better, heir)
  BY MaintainedPuts DEF now
<1>2. Agrees(now) /\ (Acyclic(s) => Acyclic(now))
  BY <1>1, PutChains
<1> QED BY <1>2 DEF now

(* A row that is closed by hand, with the edge that says so.               *)
LEMMA PatchAgrees ==
    ASSUME GoodStore(store), Agrees(store), NEW t \in DOMAIN store.rows, NEW a,
           IsAssertion(a), Patch(t, a)
    PROVE  Agrees(store')
<1> DEFINE now == Maintained(store, a)
           w == Len(now.rows)
           n == Len(store.rows)
<1>1. /\ GoodStore(now) /\ w \in {n, n + 1} /\ n \in Nat /\ DOMAIN store.rows = 1..n
  BY MaintainedIsGood
<1>2. Agrees(now)
  BY MaintainedChains
<1>3. store' = IF w = n THEN now
               ELSE [rows |-> [now.rows EXCEPT ![t] = Closed(@, now.rows[w])],
                     edges |-> now.edges \cup Edge("SUPERSEDES", w, {t})]
  BY DEF Patch, Fresh
<1> HIDE DEF now
<1>4. DOMAIN now.rows = 1..w /\ \A i \in 1..w : GoodRow(now.rows[i])
  BY <1>1, LenProperties DEF GoodStore
<1>5. CASE w = n
  BY <1>2, <1>3, <1>5
<1>6. CASE w # n
  <2>1. t \in 1..w /\ w \in 1..w
    BY <1>1, <1>6
  <2>2. /\ DOMAIN store'.rows = 1..w
        /\ \A i \in 1..w : store'.rows[i] = IF i = t THEN Closed(now.rows[t], now.rows[w])
                                            ELSE now.rows[i]
        /\ store'.edges = now.edges \cup Edge("SUPERSEDES", w, {t})
    BY <1>3, <1>4, <1>6, <2>1
  <2>3. \A i, j : Replaced(store', j, i) <=> Replaced(now, j, i) \/ (j = w /\ i = t)
    BY <2>2 DEF Replaced, Edge
  <2>4. \A i \in 1..w : store'.rows[i].status = IF i = t THEN "superseded" ELSE now.rows[i].status
    BY <1>4, <2>1, <2>2 DEF GoodRow, Sound, Fields, Closed
  <2> QED BY <1>2, <1>4, <2>1, <2>2, <2>3, <2>4 DEF Agrees
<1> QED BY <1>5, <1>6

LEMMA ArchiveChains ==
    ASSUME GoodStore(store), Agrees(store), NEW t \in DOMAIN store.rows, Archive(t)
    PROVE  Agrees(store') /\ (Acyclic(store) => Acyclic(store'))
<1>1. /\ DOMAIN store'.rows = DOMAIN store.rows /\ store'.edges = store.edges
      /\ \A i \in DOMAIN store.rows :
           store'.rows[i] = IF i = t THEN [store.rows[i] EXCEPT !.status = "archived"]
                            ELSE store.rows[i]
  BY DEF Archive, GoodStore
<1>2. \A i \in DOMAIN store.rows :
        store'.rows[i].status = IF i = t THEN "archived" ELSE store.rows[i].status
  BY <1>1 DEF GoodStore, GoodRow, Sound
<1>3. \A i, j : Replaced(store', j, i) <=> Replaced(store, j, i)
  BY <1>1 DEF Replaced
<1> QED BY <1>1, <1>2, <1>3 DEF Agrees, Acyclic

(* store.py:938: whatever is said, told again, extended, corrected or      *)
(* archived, in whichever order, a fact whose place was taken is not       *)
(* current again, whoever is superseded was so by some fact, and, without  *)
(* PATCH, no cycle of them is closed.                                      *)
THEOREM NoCycleOfSupersession == Spec => []SupersessionAcyclic
<1> DEFINE Chain == Agrees(store) /\ ("patch" \notin happened => Acyclic(store))
<1>1. Init => Chain
  <2> SUFFICES ASSUME Init PROVE Chain
    OBVIOUS
  <2>1. DOMAIN store.rows = {}
    BY DEF Init, Empty
  <2>2. (SUBSET DOMAIN store.rows) \ {{}} = {}
    BY <2>1
  <2> QED BY <2>1, <2>2 DEF Agrees, Acyclic
<1>2. TypeInv /\ Chain /\ [Next]_vars => Chain'
  <2> SUFFICES ASSUME TypeInv, Chain, [Next]_vars PROVE Chain'
    OBVIOUS
  <2>1. GoodStore(store) /\ \A a \in pool : IsAssertion(a)
    BY MaintainerAssumption DEF TypeInv, TypeOK
  <2>2. ASSUME NEW a \in pool, Ingest(a) PROVE Chain'
    <3>1. store' = Maintained(store, a) /\ ("patch" \notin happened' => "patch" \notin happened)
      BY <2>2 DEF Ingest
    <3>2. Agrees(store') /\ (Acyclic(store) => Acyclic(store'))
      BY <2>1, <3>1, MaintainedChains
    <3> QED BY <3>1, <3>2
  <2>3. ASSUME NEW t \in DOMAIN store.rows, NEW a \in pool, Patch(t, a) PROVE Chain'
    <3>1. "patch" \in happened'
      BY <2>3 DEF Patch
    <3>2. Agrees(store')
      BY <2>1, <2>3, PatchAgrees
    <3> QED BY <3>1, <3>2
  <2>4. ASSUME NEW t \in DOMAIN store.rows, Archive(t) PROVE Chain'
    <3>1. "patch" \notin happened' => "patch" \notin happened
      BY <2>4 DEF Archive
    <3>2. Agrees(store') /\ (Acyclic(store) => Acyclic(store'))
      BY <2>1, <2>4, ArchiveChains
    <3> QED BY <3>1, <3>2
  <2>5. CASE UNCHANGED vars
    BY <2>5 DEF vars
  <2> QED BY <2>2, <2>3, <2>4, <2>5 DEF Next
<1>3. Chain => SupersessionAcyclic
  BY DEF Agrees, Acyclic, Replaced, SupersessionAcyclic, Supersedes, Active, Rows
<1> HIDE DEF Chain
<1> QED BY <1>1, <1>2, <1>3, InitIsTyped, NextIsTyped, PTL DEF Spec
-----------------------------------------------------------------------------
(* A writer is heard by its mark, which comes after its fact is stored.    *)
HeardIsStored == \A w \in heard : at[w] \notin {"store", "mark"}

(* The revision starts at 0 and no rebuild is from a later one than is.    *)
TargetsAreReached ==
    /\ summary.status = "none" => summary.scope = 0
    /\ \A w \in Writers : target[w] <= summary.scope

(* A rebuild whose revision is still the revision has read every fact that *)
(* was heard: whoever was heard since has advanced the revision.           *)
SeenIsCurrent ==
    \A w \in Writers :
        at[w] = "commit" /\ target[w] = summary.scope => S!Active \cap heard \subseteq seen[w]

(* The inductive invariant.                                                *)
SummaryInv ==
    /\ S!TypeOK
    /\ HeardIsStored /\ TargetsAreReached /\ SeenIsCurrent
    /\ S!RoutableTellsMarked

Summaries == [status : {"none", "active", "archived"}, text : SUBSET Writers,
              dirty : BOOLEAN, scope : Nat, built : Nat]

-----------------------------------------------------------------------------
LEMMA InitSummary == ASSUME S!Init PROVE SummaryInv
<1>1. S!TypeOK
  BY DEF S!Init, S!TypeOK
<1>2. HeardIsStored /\ TargetsAreReached /\ SeenIsCurrent /\ S!RoutableTellsMarked
  BY DEF S!Init, HeardIsStored, TargetsAreReached, SeenIsCurrent, S!RoutableTellsMarked, S!Routable
<1> QED BY <1>1, <1>2 DEF SummaryInv

(* What Marked does to a summary: it is not routable until a rebuild, and  *)
(* no rebuild under way is of its revision.                                *)
LEMMA MarkedSummary ==
    ASSUME NEW s \in Summaries
    PROVE  /\ S!Marked(s) \in Summaries
           /\ S!Marked(s).scope = s.scope + 1 /\ S!Marked(s).dirty
           /\ S!Marked(s).status = s.status
<1> DEFINE t == [s EXCEPT !.dirty = TRUE]
<1>1. t \in Summaries /\ t.scope = s.scope /\ s.scope \in Nat
  BY DEF Summaries
<1>2. S!Marked(s) = [t EXCEPT !.scope = s.scope + 1]
  BY DEF S!Marked, Summaries
<1>3. S!Marked(s) \in Summaries
  <2> HIDE DEF t
  <2> QED BY <1>1, <1>2 DEF Summaries
<1>4. S!Marked(s).scope = s.scope + 1 /\ S!Marked(s).dirty /\ S!Marked(s).status = s.status
  BY DEF S!Marked, Summaries
<1> QED BY <1>3, <1>4

(* The fact of a writer that is not heard may appear.                      *)
LEMMA StoreStep == ASSUME SummaryInv, NEW w \in Writers, S!Store(w) PROVE SummaryInv'
<1> USE DEF SummaryInv, S!Store, S!Goto
<1>1. S!TypeOK'
  BY DEF S!TypeOK
<1>2. HeardIsStored' /\ TargetsAreReached'
  BY DEF S!TypeOK, HeardIsStored, TargetsAreReached
<1>3. S!Active' \cap heard \subseteq S!Active \cap heard
  BY DEF S!Active, HeardIsStored, S!TypeOK
<1>4. SeenIsCurrent' /\ S!RoutableTellsMarked'
  BY <1>3 DEF S!TypeOK, SeenIsCurrent, S!RoutableTellsMarked, S!Routable
<1> QED BY <1>1, <1>2, <1>4

LEMMA MarkStep == ASSUME SummaryInv, NEW w \in Writers, S!Mark(w) PROVE SummaryInv'
<1> USE DEF SummaryInv, S!Mark, S!Goto
<1>1. summary \in Summaries
  BY DEF S!TypeOK, Summaries
<1>2. CASE summary.status = "active"
  <2>1. /\ summary' \in Summaries /\ summary'.scope = summary.scope + 1
        /\ summary'.dirty /\ summary'.status = "active"
    BY <1>1, <1>2, MarkedSummary
  <2>2. heard' = heard \cup {w}
    BY <1>2
  <2>3. S!TypeOK'
    BY <2>1, <2>2 DEF S!TypeOK, Summaries
  <2>4. HeardIsStored'
    BY <2>2 DEF S!TypeOK, HeardIsStored
  <2>5. TargetsAreReached' /\ SeenIsCurrent'
    BY <2>1 DEF S!TypeOK, TargetsAreReached, SeenIsCurrent
  <2>6. S!RoutableTellsMarked'
    BY <2>1 DEF S!RoutableTellsMarked, S!Routable
  <2> QED BY <2>3, <2>4, <2>5, <2>6
<1>3. CASE summary.status # "active"
  <2>1. summary' = summary /\ heard' = heard /\ S!Active' = S!Active
    BY <1>3 DEF S!Active
  <2> QED BY <2>1 DEF S!TypeOK, HeardIsStored, TargetsAreReached, SeenIsCurrent,
                      S!RoutableTellsMarked, S!Routable
<1> QED BY <1>2, <1>3

LEMMA ReadRevisionStep == ASSUME SummaryInv, NEW w \in Writers, S!ReadRevision(w) PROVE SummaryInv'
<1> USE DEF SummaryInv, S!ReadRevision, S!Goto
<1>1. S!Active' = S!Active
  BY DEF S!Active
<1> QED BY <1>1 DEF S!TypeOK, HeardIsStored, TargetsAreReached, SeenIsCurrent,
                    S!RoutableTellsMarked, S!Routable

LEMMA ReadFactsStep == ASSUME SummaryInv, NEW w \in Writers, S!ReadFacts(w) PROVE SummaryInv'
<1> USE DEF SummaryInv, S!ReadFacts, S!Goto
<1>1. S!Active' = S!Active /\ S!Active \subseteq Writers
  BY DEF S!Active
<1>2. S!TypeOK' /\ HeardIsStored' /\ TargetsAreReached'
  BY <1>1 DEF S!TypeOK, HeardIsStored, TargetsAreReached
<1>3. SeenIsCurrent' /\ S!RoutableTellsMarked'
  BY <1>1 DEF S!TypeOK, SeenIsCurrent, S!RoutableTellsMarked, S!Routable
<1> QED BY <1>2, <1>3

(* A rebuild commits: the summary is routable after it only if its         *)
(* revision was not overtaken.                                             *)
LEMMA CommitStep == ASSUME SummaryInv, NEW w \in Writers, S!Commit(w) PROVE SummaryInv'
<1> USE DEF SummaryInv, S!Commit, S!Goto
<1>1. summary \in Summaries /\ target[w] \in Nat /\ target[w] <= summary.scope
  BY DEF S!TypeOK, Summaries, TargetsAreReached
<1>2. /\ summary' \in Summaries /\ summary'.scope = summary.scope
      /\ summary'.status # "none" \/ summary'.status = summary.status
      /\ S!Routable' => target[w] = summary.scope /\ summary'.text = seen[w]
  <2>1. CASE seen[w] = {}
    <3>1. summary' = S!Archived(summary)
      BY <2>1
    <3>2. CASE summary.status = "active"
      <4>1. summary' = [summary EXCEPT !.status = "archived", !.dirty = FALSE]
        BY <3>1, <3>2 DEF S!Archived
      <4> QED BY <1>1, <4>1 DEF Summaries, S!Routable
    <3>3. CASE summary.status # "active"
      BY <1>1, <3>1, <3>3 DEF S!Archived, S!Routable
    <3> QED BY <3>2, <3>3
  <2>2. CASE seen[w] # {}
    <3>1. summary' = S!Upserted(summary, seen[w], target[w])
      BY <2>2 DEF S!BuiltFrom
    <3>2. summary' \in Summaries
      <4> DEFINE late == summary.status # "none" /\ summary.scope > target[w]
                 scope == IF summary.status = "none" THEN target[w]
                          ELSE S!ScopeAfter(summary, target[w])
      <4>1. late \in BOOLEAN
        OBVIOUS
      <4>2. scope \in Nat /\ seen[w] \in SUBSET Writers
        BY <1>1 DEF S!ScopeAfter, Summaries, S!TypeOK
      <4>3. summary' = [status |-> "active", text |-> seen[w], built |-> target[w],
                        scope |-> scope, dirty |-> late]
        BY <3>1 DEF S!Upserted
      <4> HIDE DEF late, scope
      <4> QED BY <1>1, <4>1, <4>2, <4>3 DEF Summaries
    <3>3. /\ summary'.scope = summary.scope /\ summary'.status = "active"
          /\ summary'.built = target[w] /\ summary'.text = seen[w]
      BY <1>1, <3>1 DEF S!Upserted, S!ScopeAfter, TargetsAreReached, Summaries
    <3> QED BY <3>2, <3>3 DEF S!Routable
  <2> QED BY <2>1, <2>2
<1>3. S!Active' = S!Active
  BY DEF S!Active
<1>4. S!TypeOK' /\ HeardIsStored' /\ TargetsAreReached'
  BY <1>2 DEF S!TypeOK, Summaries, HeardIsStored, TargetsAreReached
<1>5. SeenIsCurrent'
  BY <1>2, <1>3 DEF S!TypeOK, SeenIsCurrent
<1>6. S!RoutableTellsMarked'
  BY <1>2, <1>3 DEF S!RoutableTellsMarked, SeenIsCurrent
<1> QED BY <1>4, <1>5, <1>6

(* Facts that are closed or erased are no longer active.                   *)
LEMMA ClosedStep ==
    ASSUME SummaryInv, NEW w \in Writers, S!CloseFact(w) \/ S!EraseFact(w) PROVE SummaryInv'
<1> USE DEF SummaryInv, S!CloseFact, S!EraseFact
<1>1. S!Active' \subseteq S!Active
  BY DEF S!Active, S!TypeOK
<1>2. S!TypeOK' /\ HeardIsStored' /\ TargetsAreReached'
  BY DEF S!TypeOK, HeardIsStored, TargetsAreReached
<1>3. SeenIsCurrent' /\ S!RoutableTellsMarked'
  BY <1>1 DEF SeenIsCurrent, S!RoutableTellsMarked, S!Routable
<1> QED BY <1>2, <1>3

LEMMA RecallStep == ASSUME SummaryInv, S!Recall PROVE SummaryInv'
<1> USE DEF SummaryInv, S!Recall
<1>1. /\ summary' \in Summaries /\ summary'.scope = summary.scope + 1
      /\ summary'.dirty /\ summary'.status = "active"
  BY MarkedSummary DEF S!TypeOK, Summaries, S!Routable
<1>2. S!TypeOK' /\ HeardIsStored'
  BY <1>1 DEF S!TypeOK, Summaries, HeardIsStored
<1>3. TargetsAreReached' /\ SeenIsCurrent' /\ S!RoutableTellsMarked'
  BY <1>1 DEF S!TypeOK, TargetsAreReached, SeenIsCurrent, S!RoutableTellsMarked, S!Routable
<1> QED BY <1>2, <1>3

LEMMA CrashStep == ASSUME SummaryInv, S!Crash PROVE SummaryInv'
<1> USE DEF SummaryInv, S!Crash
<1>1. S!Active' = S!Active
  BY DEF S!Active
<1> QED BY <1>1 DEF S!TypeOK, HeardIsStored, TargetsAreReached, SeenIsCurrent,
                    S!RoutableTellsMarked, S!Routable

LEMMA NextSummary == ASSUME SummaryInv, [S!Next]_S!vars PROVE SummaryInv'
<1>1. CASE UNCHANGED S!vars
  BY <1>1 DEF S!vars, SummaryInv, S!TypeOK, HeardIsStored, TargetsAreReached, SeenIsCurrent,
              S!RoutableTellsMarked, S!Routable, S!Active
<1>2. CASE S!Next
  BY <1>2, StoreStep, MarkStep, ReadRevisionStep, ReadFactsStep, CommitStep,
     ClosedStep, RecallStep, CrashStep DEF S!Next
<1> QED BY <1>1, <1>2

(* Every behaviour keeps the inductive invariant.                          *)
THEOREM SummaryInvariance == S!Spec => []SummaryInv
<1>1. S!Init => SummaryInv
  BY InitSummary
<1>2. SummaryInv /\ [S!Next]_S!vars => SummaryInv'
  BY NextSummary
<1> QED BY <1>1, <1>2, PTL DEF S!Spec

(* A summary that may be recalled tells every active fact whose ingestion  *)
(* marked it dirty, however the rebuilds of concurrent ingestions commit.  *)
THEOREM RecalledTellsMarked == DerivedSpec => []RoutableTellsMarked
<1>1. DerivedInit => SummaryInv
  BY InitSummary DEF DerivedInit
<1>2. SummaryInv /\ [DerivedNext]_<<part, vars, others>> => SummaryInv'
  <2> SUFFICES ASSUME SummaryInv, [DerivedNext]_<<part, vars, others>> PROVE SummaryInv'
    OBVIOUS
  <2>1. S!Next \/ UNCHANGED S!vars
    BY DEF DerivedNext, others, summaryVars, S!vars
  <2> QED BY <2>1, NextSummary
<1>3. SummaryInv => RoutableTellsMarked
  BY DEF SummaryInv, RoutableTellsMarked
<1> QED BY <1>1, <1>2, <1>3, PTL DEF DerivedSpec

-----------------------------------------------------------------------------
(* Dreaming: a dreamer at work on an entity, whose bit is not yet cleared. *)
AtWork(d) == step[d] \in {"close", "write", "clear"}

(* No fact about the entity was deleted.                                   *)
Whole(e) == \A f \in Facts : e \in About[f] => known[f] # "archived"

RowsOf(e) == {p \in profiles : p.of = e}

(* A profile tells facts about its entity, to the last of its days.        *)
IsTold(p) ==
    /\ p.text # {} /\ p.text \subseteq p.spans
    /\ \A f \in p.spans : p.of \in About[f] /\ known[f] # "absent" /\ Time[f] <= p.from
    /\ \E f \in p.text : Time[f] = p.from

(* Only who holds the mutex is at work, and on entities that are dirty.    *)
HolderWorks ==
    \A d \in Dreamers :
        /\ step[d] # "idle" => holder = d
        /\ step[d] = "idle" => todo[d] = {}
        /\ todo[d] \subseteq stale
        /\ AtWork(d) => draft[d].of \in stale \ todo[d]

(* No two current profiles of an entity tell what the user told, and while *)
(* no fact of it is deleted there are no two.                              *)
OneOpen ==
    \A p, q \in profiles : p.open /\ q.open /\ p.of = q.of /\ p # q =>
        ~Whole(p.of) /\ (p.text \subseteq ByAssistant \/ q.text \subseteq ByAssistant)

(* While no fact of an entity is deleted its profiles are each of another  *)
(* day, and a closed one is older than a fact.                             *)
DaysDiffer == \A p, q \in profiles : p.of = q.of /\ p.from = q.from /\ Whole(p.of) => p = q

ClosedAreOlder ==
    \A p \in profiles : ~p.open /\ Whole(p.of) =>
        \E f \in Facts : known[f] = "active" /\ p.of \in About[f] /\ p.from < Time[f]

RowsAreTold == \A p \in profiles : IsTold(p)

(* What a draft is before the rivals are closed, before it is written and  *)
(* after.                                                                  *)
Drafted(d) ==
    LET q == draft[d] IN
    /\ step[d] \in {"close", "write"} => IsTold(q)
    /\ step[d] = "close" =>
        /\ q.open
        /\ Whole(q.of) => \A p \in RowsOf(q.of) :
            p.spans \subseteq q.text /\ (p.open \/ p.from < q.from)
    /\ step[d] = "write" =>
        /\ q.open => \A p \in RowsOf(q.of) : p.open =>
            D!SameRow(p, q) \/ p.text \subseteq ByAssistant \/ q.text \subseteq ByAssistant
        /\ Whole(q.of) => q.open /\ \A p \in RowsOf(q.of) :
            p.open \/ p.from = q.from => D!SameRow(p, q)
    /\ step[d] = "clear" =>
        (Whole(q.of) /\ RowsOf(q.of) # {} => D!Current(q.of) # {})

DraftsAre == \A d \in Dreamers : Drafted(d)

(* A rebuild has read what was marked when it began.                       *)
SpansTell ==
    \A d \in Dreamers : AtWork(d) => \A f \in Facts :
        known[f] = "active" /\ draft[d].of \in About[f] \ unmarked[f] =>
            f \in draft[d].spans \/ <<f, draft[d].of>> \in raced

(* The inductive invariant.                                                *)
DreamInv ==
    /\ D!TypeOK /\ IsFiniteSet(profiles)
    /\ HolderWorks /\ OneOpen /\ DaysDiffer /\ ClosedAreOlder /\ RowsAreTold /\ DraftsAre
    /\ SpansTell /\ D!ProfileOrDirty /\ D!CoveredUnlessRaced

(* The instance counts as this module does.                                *)
LEMMA SameSizes == \A X : D!Cardinality(X) = Cardinality(X) /\ (D!IsFiniteSet(X) <=> IsFiniteSet(X))
BY DEF D!Cardinality, Cardinality, D!IsFiniteSet, IsFiniteSet

LEMMA LeastNumber ==
    ASSUME NEW X \in SUBSET Nat, X # {} PROVE \E l \in X : \A m \in X : l <= m
<1>1. PICK l \in X : \A m \in X : <<m, l>> \notin OpToRel(<, Nat)
  BY WFMin, NatLessThanWellFounded, Zenon
<1>2. \A m \in X : ~(m < l)
  BY <1>1, Zenon DEF OpToRel
<1> QED BY <1>2

(* The last day of facts is one of theirs.                                 *)
LEMMA LatestIsLast ==
    ASSUME D!DreamingAssumption, NEW F \in SUBSET Facts, F # {}
    PROVE  (\E f \in F : Time[f] = D!Latest(F)) /\ \A f \in F : Time[f] <= D!Latest(F)
<1> DEFINE later == [f \in F |-> {g \in F : Time[f] < Time[g]}]
           counts == {Cardinality(later[f]) : f \in F}
<1>1. IsFiniteSet(F) /\ \A f \in F : Time[f] \in Nat
  BY SameSizes, FS_Subset DEF D!DreamingAssumption
<1>2. \A f \in F : later[f] \in SUBSET F /\ IsFiniteSet(later[f])
  BY <1>1, FS_Subset
<1>3. \A f \in F : Cardinality(later[f]) \in Nat
  BY <1>2, FS_CardinalityType
<1>4. PICK f \in F : \A g \in F : Cardinality(later[f]) <= Cardinality(later[g])
  <2>1. counts \in SUBSET Nat /\ counts # {}
    BY <1>3
  <2> HIDE DEF counts, later
  <2>2. PICK l \in counts : \A m \in counts : l <= m
    BY <2>1, LeastNumber
  <2> QED BY <2>2 DEF counts
<1>5. ASSUME NEW g \in F, Time[f] < Time[g] PROVE FALSE
  <2>1. later[g] \in SUBSET later[f] /\ g \in later[f] /\ g \notin later[g]
    BY <1>1, <1>5
  <2>2. Cardinality(later[g]) <= Cardinality(later[f])
    BY <1>2, <2>1, FS_Subset
  <2>3. Cardinality(later[f]) = Cardinality(later[g])
    BY <1>3, <1>4, <2>2
  <2>4. later[f] = later[g]
    <3> HIDE DEF later
    <3> QED BY <1>2, <2>1, <2>3, FS_Subset
  <2> QED BY <2>1, <2>4
<1>6. \A g \in F : Time[g] <= Time[f]
  BY <1>1, <1>5
<1>7. D!Latest(F) \in {Time[g] : g \in F} /\ \A g \in F : Time[g] <= D!Latest(F)
  <2> DEFINE Days == {Time[g] : g \in F}
  <2>1. Time[f] \in Days /\ \A g \in F : Time[g] <= Time[f]
    BY <1>6
  <2>2. D!Latest(F) = CHOOSE t \in Days : \A g \in F : Time[g] <= t
    BY DEF D!Latest
  <2> HIDE DEF Days
  <2>3. D!Latest(F) \in Days /\ \A g \in F : Time[g] <= D!Latest(F)
    BY <2>1, <2>2
  <2> QED BY <2>3 DEF Days
<1> QED BY <1>7

(* What maintain() makes of a draft: itself, or the row it repeats with    *)
(* its spans.                                                              *)
LEMMA MergedIs ==
    ASSUME D!TypeOK, NEW q \in D!Profile
    PROVE  \/ D!Repeated(q) = {} /\ D!Merged(q) = q
           \/ \E p \in D!Repeated(q) : D!Merged(q) = [p EXCEPT !.spans = @ \cup q.spans]
<1>1. CASE D!Repeated(q) = {}
  BY <1>1 DEF D!Merged
<1>2. CASE D!Repeated(q) # {}
  <2> DEFINE first(p) == \A o \in D!Repeated(q) : p.rank <= o.rank
             ranks == {p.rank : p \in D!Repeated(q)}
  <2>1. \A p \in D!Repeated(q) : p.rank \in Nat
    BY DEF D!Repeated, D!TypeOK, D!Profile
  <2>2. ranks \in SUBSET Nat /\ ranks # {}
    BY <1>2, <2>1
  <2>3. PICK l \in ranks : \A m \in ranks : l <= m
    <3> HIDE DEF ranks
    <3> QED BY <2>2, LeastNumber
  <2>4. \E p \in D!Repeated(q) : first(p)
    BY <2>3
  <2>5. D!Merged(q) = LET p == CHOOSE p \in D!Repeated(q) : first(p) IN [p EXCEPT !.spans = @ \cup q.spans]
    BY <1>2 DEF D!Merged
  <2> HIDE DEF first
  <2> QED BY <2>4, <2>5
<1> QED BY <1>1, <1>2

LEMMA MergedHas ==
    ASSUME D!TypeOK, NEW q \in D!Profile, RowsAreTold, IsTold(q)
    PROVE  /\ D!Merged(q) \in D!Profile /\ IsTold(D!Merged(q))
           /\ D!Merged(q).of = q.of /\ D!Merged(q).from = q.from /\ q.spans \subseteq D!Merged(q).spans
<1>1. CASE D!Merged(q) = q
  BY <1>1
<1>2. ASSUME NEW p \in D!Repeated(q), D!Merged(q) = [p EXCEPT !.spans = @ \cup q.spans]
      PROVE  /\ D!Merged(q) \in D!Profile /\ IsTold(D!Merged(q))
             /\ D!Merged(q).of = q.of /\ D!Merged(q).from = q.from /\ q.spans \subseteq D!Merged(q).spans
  <2>1. p \in D!Profile /\ p.of = q.of /\ p.from = q.from /\ IsTold(p)
    BY DEF D!Repeated, D!TypeOK, RowsAreTold
  <2>2. D!Merged(q) = [of |-> p.of, text |-> p.text, spans |-> p.spans \cup q.spans,
                     from |-> p.from, open |-> p.open, rank |-> p.rank]
    BY <1>2, <2>1 DEF D!Profile
  <2> QED BY <2>1, <2>2 DEF D!Profile, IsTold
<1> QED BY <1>1, <1>2, MergedIs

-----------------------------------------------------------------------------
LEMMA InitDream == ASSUME D!DreamingAssumption, D!Init PROVE DreamInv
<1> USE DEF D!Init
<1>1. D!TypeOK /\ IsFiniteSet(profiles)
  BY FS_EmptySet DEF D!TypeOK, D!Profile, D!Blank, D!Free
<1>2. HolderWorks /\ OneOpen /\ DaysDiffer /\ ClosedAreOlder /\ RowsAreTold /\ DraftsAre
  BY DEF HolderWorks, OneOpen, DaysDiffer, ClosedAreOlder, RowsAreTold, DraftsAre, Drafted, AtWork
<1>3. SpansTell /\ D!ProfileOrDirty /\ D!CoveredUnlessRaced
  BY DEF SpansTell, AtWork, D!ProfileOrDirty, D!Whole, D!CoveredUnlessRaced
<1> QED BY <1>1, <1>2, <1>3 DEF DreamInv

(* While rows and facts stay, so does what is said of them.                *)
LEMMA RowsStay ==
    ASSUME DreamInv, UNCHANGED <<known, profiles>>
    PROVE  /\ IsFiniteSet(profiles)' /\ OneOpen' /\ DaysDiffer' /\ ClosedAreOlder' /\ RowsAreTold'
           /\ \A d \in Dreamers : step'[d] = step[d] /\ draft'[d] = draft[d] => Drafted(d)'
           /\ \A d \in Dreamers : step'[d] \in {"idle", "next"} => Drafted(d)'
<1>1. \A e : Whole(e)' = Whole(e) /\ RowsOf(e)' = RowsOf(e) /\ D!Current(e)' = D!Current(e)
  BY DEF Whole, RowsOf, D!Current
<1>2. \A p : IsTold(p)' = IsTold(p)
  BY DEF IsTold
<1>3. \A d \in Dreamers : Drafted(d)
  BY DEF DreamInv, DraftsAre
<1>4. ClosedAreOlder' /\ RowsAreTold' /\ OneOpen' /\ DaysDiffer' /\ IsFiniteSet(profiles)'
  BY <1>1, <1>2 DEF DreamInv, ClosedAreOlder, RowsAreTold, OneOpen, DaysDiffer
<1>5. ASSUME NEW d \in Dreamers, step'[d] = step[d], draft'[d] = draft[d] PROVE Drafted(d)'
  BY <1>1, <1>2, <1>3, <1>5 DEF Drafted
<1>6. ASSUME NEW d \in Dreamers, step'[d] \in {"idle", "next"} PROVE Drafted(d)'
  BY <1>6 DEF Drafted
<1> QED BY <1>4, <1>5, <1>6

(* A fact is stored, marked or archived.                                   *)
LEMMA FactsMove ==
    ASSUME D!DreamingAssumption, DreamInv,
           UNCHANGED <<profiles, holder, step, todo, draft, covered>>,
           D!TypeOK', stale \subseteq stale', SpansTell', D!CoveredUnlessRaced',
           \A f \in Facts : known'[f] = known[f] \/ (known[f] = "absent" /\ known'[f] = "active")
                            \/ (known[f] = "active" /\ known'[f] = "archived")
    PROVE  DreamInv'
<1>1. \A e : (Whole(e)' => Whole(e)) /\ RowsOf(e)' = RowsOf(e) /\ D!Current(e)' = D!Current(e)
  BY DEF Whole, RowsOf, D!Current
<1>2. \A p \in D!Profile : IsTold(p) => IsTold(p)'
  BY DEF IsTold, D!Profile
<1>3. HolderWorks' /\ OneOpen' /\ IsFiniteSet(profiles)'
  <2>1. OneOpen'
    BY <1>1 DEF DreamInv, OneOpen
  <2> QED BY <2>1 DEF DreamInv, HolderWorks, AtWork
<1>4. DaysDiffer' /\ RowsAreTold'
  BY <1>1, <1>2 DEF DreamInv, DaysDiffer, RowsAreTold, D!TypeOK
<1>5. ClosedAreOlder'
  <2> SUFFICES ASSUME NEW p \in profiles, ~p.open, Whole(p.of)'
               PROVE  \E f \in Facts : known'[f] = "active" /\ p.of \in About[f] /\ p.from < Time[f]
    BY DEF ClosedAreOlder
  <2>1. PICK f \in Facts : known[f] = "active" /\ p.of \in About[f] /\ p.from < Time[f]
    BY <1>1 DEF DreamInv, ClosedAreOlder
  <2> QED BY <2>1 DEF Whole
<1>6. DraftsAre'
  <2> SUFFICES ASSUME NEW d \in Dreamers PROVE Drafted(d)'
    BY DEF DraftsAre
  <2>1. Drafted(d) /\ draft[d] \in D!Profile /\ draft'[d] = draft[d] /\ step'[d] = step[d]
    BY DEF DreamInv, DraftsAre, D!TypeOK
  <2> QED BY <1>1, <1>2, <2>1 DEF Drafted
<1>7. D!ProfileOrDirty'
  <2> SUFFICES ASSUME NEW e \in Entities, NEW p \in profiles, p.of = e, D!Current(e) = {}
               PROVE  e \in stale' \/ \E f \in Facts : e \in About[f] /\ known'[f] = "archived"
    BY <1>1 DEF D!ProfileOrDirty, D!Whole
  <2>1. e \in stale \/ \E f \in Facts : e \in About[f] /\ known[f] = "archived"
    BY DEF DreamInv, D!ProfileOrDirty, D!Whole
  <2> QED BY <2>1
<1> QED BY <1>3, <1>4, <1>5, <1>6, <1>7 DEF DreamInv

LEMMA StoreFactStep ==
    ASSUME D!DreamingAssumption, DreamInv, NEW f \in Facts, D!StoreFact(f) PROVE DreamInv'
<1> USE DEF D!StoreFact, D!dreamVars
<1>1. D!TypeOK'
  BY DEF DreamInv, D!TypeOK, D!DreamingAssumption
<1>2. SpansTell' /\ D!CoveredUnlessRaced'
  BY DEF DreamInv, D!TypeOK, SpansTell, AtWork, D!CoveredUnlessRaced
<1>3. \A g \in Facts : known'[g] = known[g] \/ (known[g] = "absent" /\ known'[g] = "active")
  BY DEF DreamInv, D!TypeOK
<1> QED BY <1>1, <1>2, <1>3, FactsMove

LEMMA MarkStaleStep ==
    ASSUME D!DreamingAssumption, DreamInv, NEW f \in Facts, NEW e \in Entities, D!MarkStale(f, e)
    PROVE  DreamInv'
<1> USE DEF D!MarkStale, D!dreamVars
<1>1. D!TypeOK'
  BY DEF DreamInv, D!TypeOK
<1>2. SpansTell'
  BY DEF DreamInv, D!TypeOK, SpansTell, AtWork
<1>3. D!CoveredUnlessRaced'
  BY DEF DreamInv, D!TypeOK, D!CoveredUnlessRaced
<1> QED BY <1>1, <1>2, <1>3, FactsMove

LEMMA ArchiveFactStep ==
    ASSUME D!DreamingAssumption, DreamInv, NEW f \in Facts, D!ArchiveFact(f) PROVE DreamInv'
<1> USE DEF D!ArchiveFact, D!dreamVars
<1>1. D!TypeOK'
  BY DEF DreamInv, D!TypeOK
<1>2. SpansTell' /\ D!CoveredUnlessRaced'
  BY DEF DreamInv, D!TypeOK, SpansTell, AtWork, D!CoveredUnlessRaced
<1>3. \A g \in Facts : known'[g] = known[g] \/ (known[g] = "active" /\ known'[g] = "archived")
  BY DEF DreamInv, D!TypeOK
<1> QED BY <1>1, <1>2, <1>3, FactsMove

-----------------------------------------------------------------------------
LEMMA BeginStep ==
    ASSUME D!DreamingAssumption, DreamInv, NEW d \in Dreamers, D!Begin(d) PROVE DreamInv'
<1> USE DEF D!Begin, D!Goto, D!MayAcquire
<1>1. D!TypeOK'
  BY DEF DreamInv, D!TypeOK
<1>2. \A c \in Dreamers : step[c] = "idle"
  BY DEF DreamInv, HolderWorks, D!DreamingAssumption, D!Free
<1>3. HolderWorks'
  BY <1>2 DEF DreamInv, D!TypeOK, HolderWorks, AtWork
<1>4. DraftsAre'
  BY <1>2, RowsStay DEF DreamInv, D!TypeOK, DraftsAre
<1>5. SpansTell' /\ D!ProfileOrDirty' /\ D!CoveredUnlessRaced'
  BY <1>2 DEF DreamInv, D!TypeOK, SpansTell, AtWork, D!ProfileOrDirty, D!Whole, D!Current, D!CoveredUnlessRaced
<1> QED BY <1>1, <1>3, <1>4, <1>5, RowsStay DEF DreamInv

LEMMA FinishStep ==
    ASSUME D!DreamingAssumption, DreamInv, NEW d \in Dreamers, D!Finish(d) PROVE DreamInv'
<1> USE DEF D!Finish, D!Goto
<1>1. D!TypeOK'
  BY DEF DreamInv, D!TypeOK
<1>2. \A c \in Dreamers \ {d} : step[c] = "idle"
  BY DEF DreamInv, HolderWorks
<1>3. HolderWorks'
  BY <1>2 DEF DreamInv, D!TypeOK, HolderWorks, AtWork
<1>4. DraftsAre'
  BY <1>2, RowsStay DEF DreamInv, D!TypeOK, DraftsAre
<1>5. SpansTell' /\ D!ProfileOrDirty' /\ D!CoveredUnlessRaced'
  BY <1>2 DEF DreamInv, D!TypeOK, SpansTell, AtWork, D!ProfileOrDirty, D!Whole, D!Current, D!CoveredUnlessRaced
<1> QED BY <1>1, <1>3, <1>4, <1>5, RowsStay DEF DreamInv

LEMMA RebuildStep ==
    ASSUME D!DreamingAssumption, DreamInv, NEW d \in Dreamers, NEW e \in Entities, D!Rebuild(d, e)
    PROVE  DreamInv'
<1> DEFINE q == [of |-> e, text |-> D!Told(e), spans |-> D!Told(e),
                 from |-> IF D!Told(e) = {} THEN 0 ELSE D!Latest(D!Told(e)),
                 open |-> TRUE, rank |-> Cardinality(profiles) + 1]
<1>1. /\ step[d] = "next" /\ e \in todo[d] /\ todo' = [todo EXCEPT ![d] = @ \ {e}]
      /\ draft' = [draft EXCEPT ![d] = q]
      /\ step' = [step EXCEPT ![d] = IF D!Told(e) = {} THEN "clear" ELSE "close"]
      /\ UNCHANGED <<known, unmarked, stale, profiles, holder, covered, raced>>
  BY SameSizes DEF D!Rebuild, D!Goto
<1>2. D!Told(e) \subseteq Facts /\ \A f \in D!Told(e) : known[f] = "active" /\ e \in About[f]
  BY DEF D!Told, D!Active
<1>3. D!Told(e) # {} => /\ \E f \in D!Told(e) : Time[f] = q.from
                      /\ \A f \in D!Told(e) : Time[f] <= q.from
  BY <1>2, LatestIsLast
<1>4. q \in D!Profile
  <2>1. Cardinality(profiles) \in Nat
    BY FS_CardinalityType DEF DreamInv
  <2>2. q.from \in Nat
    BY <1>2, <1>3 DEF D!DreamingAssumption
  <2> QED BY <1>2, <2>1, <2>2 DEF D!Profile
<1>5. q.of = e /\ q.text = D!Told(e) /\ q.spans = D!Told(e) /\ q.open
  OBVIOUS
<1> HIDE DEF q
<1>6. D!TypeOK'
  BY <1>1, <1>4 DEF DreamInv, D!TypeOK
<1>7. \A c \in Dreamers \ {d} : step[c] = "idle"
  BY <1>1 DEF DreamInv, HolderWorks
<1>8. HolderWorks'
  BY <1>1, <1>5, <1>7 DEF DreamInv, D!TypeOK, HolderWorks, AtWork
<1>9. ASSUME NEW p \in RowsOf(e), Whole(e)
      PROVE  p.spans \subseteq D!Told(e) /\ p.spans # {} /\ (p.open \/ p.from < q.from)
  <2>1. p \in profiles /\ p \in D!Profile /\ p.of = e /\ IsTold(p)
    BY <1>9 DEF RowsOf, DreamInv, D!TypeOK, RowsAreTold
  <2>2. p.spans \subseteq D!Told(e) /\ p.spans # {}
    BY <1>9, <2>1 DEF IsTold, D!Profile, D!Told, D!Active, Whole, DreamInv, D!TypeOK
  <2>3. ASSUME ~p.open PROVE p.from < q.from
    <3>1. PICK f \in Facts : known[f] = "active" /\ e \in About[f] /\ p.from < Time[f]
      BY <1>9, <2>1, <2>3 DEF DreamInv, ClosedAreOlder
    <3>2. f \in D!Told(e)
      BY <3>1 DEF D!Told, D!Active
    <3> QED BY <1>3, <1>4, <2>1, <3>1, <3>2 DEF D!Profile, D!DreamingAssumption
  <2> QED BY <2>2, <2>3
<1>10. DraftsAre'
  <2> SUFFICES ASSUME NEW c \in Dreamers PROVE Drafted(c)'
    BY DEF DraftsAre
  <2>1. CASE c # d
    BY <1>1, <1>7, <2>1, RowsStay DEF DreamInv, D!TypeOK
  <2>2. CASE c = d
    <3>1. draft'[d] = q /\ step'[d] = (IF D!Told(e) = {} THEN "clear" ELSE "close")
      BY <1>1 DEF DreamInv, D!TypeOK
    <3>2. Whole(e)' = Whole(e) /\ RowsOf(e)' = RowsOf(e)
      BY <1>1 DEF Whole, RowsOf
    <3>3. CASE D!Told(e) = {}
      BY <1>5, <1>9, <2>2, <3>1, <3>2, <3>3 DEF Drafted
    <3>4. CASE D!Told(e) # {}
      <4>1. IsTold(draft[d])'
        BY <1>1, <1>2, <1>3, <1>5, <3>1, <3>4 DEF IsTold
      <4> QED BY <1>5, <1>9, <2>2, <3>1, <3>2, <3>4, <4>1 DEF Drafted
    <3> QED BY <3>3, <3>4
  <2> QED BY <2>1, <2>2
<1>11. SpansTell'
  <2> SUFFICES ASSUME NEW c \in Dreamers, AtWork(c)', NEW f \in Facts, known[f] = "active",
                      draft'[c].of \in About[f] \ unmarked[f]
               PROVE  f \in draft'[c].spans
    BY <1>1 DEF SpansTell
  <2>1. c = d
    BY <1>1, <1>7 DEF AtWork, DreamInv, D!TypeOK
  <2> QED BY <1>1, <1>5, <2>1 DEF DreamInv, D!TypeOK, D!Told, D!Active
<1>12. D!ProfileOrDirty' /\ D!CoveredUnlessRaced'
  BY <1>1 DEF DreamInv, D!ProfileOrDirty, D!Whole, D!Current, D!CoveredUnlessRaced
<1> QED BY <1>1, <1>6, <1>8, <1>10, <1>11, <1>12, RowsStay DEF DreamInv

LEMMA CloseStep ==
    ASSUME D!DreamingAssumption, DreamInv, NEW d \in Dreamers, D!CloseRivals(d) PROVE DreamInv'
<1> DEFINE e == draft[d].of
           q == D!Merged(draft[d])
           rivals == IF D!Repeated(draft[d]) = {} THEN D!Rivals(q) ELSE {}
           losers == {p \in rivals : ~D!Outranks(p, q) /\ D!MayClose(q, p)}
           better == {p \in rivals : D!Outranks(p, q) /\ D!MayClose(p, q)}
           Shut(p) == [p EXCEPT !.open = FALSE]
           open == q.open /\ better = {}
<1>1. /\ step[d] = "close" /\ step' = [step EXCEPT ![d] = "write"]
      /\ profiles' = (profiles \ losers) \cup {Shut(p) : p \in losers}
      /\ draft' = [draft EXCEPT ![d] = [q EXCEPT !.open = @ /\ better = {}]]
      /\ UNCHANGED <<known, unmarked, stale, holder, todo, covered, raced>>
  BY DEF D!CloseRivals, D!Goto, D!StaleAfterClose
<1>2. /\ draft[d] \in D!Profile /\ IsTold(draft[d]) /\ draft[d].open
      /\ Whole(e) => \A p \in RowsOf(e) :
            p.spans \subseteq draft[d].text /\ (p.open \/ p.from < draft[d].from)
      /\ e \in stale
  BY <1>1 DEF DreamInv, D!TypeOK, DraftsAre, Drafted, HolderWorks, AtWork
<1>3. /\ q \in D!Profile /\ IsTold(q) /\ q.of = e /\ q.from = draft[d].from
      /\ draft[d].spans \subseteq q.spans
  BY <1>2, MergedHas DEF DreamInv
<1>0. D!Repeated(draft[d]) # {} =>
        \E r \in profiles : r \in RowsOf(e) /\ r.from = draft[d].from
                             /\ q.text = r.text /\ q.open = r.open
  <2>1. ASSUME NEW r \in D!Repeated(draft[d]), q = [r EXCEPT !.spans = @ \cup draft[d].spans]
        PROVE  r \in profiles /\ r \in RowsOf(e) /\ r.from = draft[d].from
                 /\ q.text = r.text /\ q.open = r.open
    <3>1. r \in D!Profile /\ r \in RowsOf(e) /\ r.from = draft[d].from
      BY DEF D!Repeated, DreamInv, D!TypeOK, RowsOf
    <3> QED BY <2>1, <3>1 DEF D!Profile, RowsOf
  <2> QED BY <1>2, <2>1, MergedIs DEF DreamInv
<1>4. /\ draft'[d] \in D!Profile /\ draft'[d].of = e /\ draft'[d].from = q.from
      /\ draft'[d].text = q.text /\ draft'[d].spans = q.spans /\ (draft'[d].open <=> open)
  <2> HIDE DEF q, better
  <2>1. draft'[d] = [of |-> q.of, text |-> q.text, spans |-> q.spans,
                     from |-> q.from, open |-> open, rank |-> q.rank]
    BY <1>1, <1>3 DEF DreamInv, D!TypeOK, D!Profile
  <2>2. open \in BOOLEAN
    BY <1>3 DEF D!Profile
  <2> HIDE DEF open
  <2> QED BY <1>3, <2>1, <2>2 DEF D!Profile
<1>5. losers \subseteq D!Rivals(q) /\ D!Rivals(q) \subseteq {p \in profiles : p.of = e /\ p.open}
  BY <1>3 DEF D!Rivals
<1>6. \A p \in losers : /\ Shut(p) \in D!Profile /\ ~Shut(p).open /\ Shut(p).of = p.of
                        /\ Shut(p).text = p.text /\ Shut(p).spans = p.spans
                        /\ Shut(p).from = p.from
  <2> SUFFICES ASSUME NEW p \in losers
               PROVE  /\ Shut(p) \in D!Profile /\ ~Shut(p).open /\ Shut(p).of = p.of
                      /\ Shut(p).text = p.text /\ Shut(p).spans = p.spans
                      /\ Shut(p).from = p.from
    OBVIOUS
  <2>1. p \in D!Profile
    BY <1>5 DEF DreamInv, D!TypeOK
  <2> QED BY <2>1 DEF D!Profile
<1>7. IsFiniteSet(profiles')
  <2>1. IsFiniteSet(losers) /\ IsFiniteSet(profiles \ losers)
    BY <1>5, FS_Subset DEF DreamInv
  <2> DEFINE T == {Shut(p) : p \in losers}
             g == [p \in losers |-> Shut(p)]
  <2>2. g \in Surjection(losers, T)
    BY DEF Surjection
  <2> HIDE DEF g, T, Shut, losers
  <2>3. IsFiniteSet(T)
    BY <2>1, <2>2, FS_Surjection
  <2> QED BY <1>1, <2>1, <2>3, FS_Union DEF T
<1> DEFINE after == [p \in profiles |-> IF p \in losers THEN Shut(p) ELSE p]
<1>8. /\ \A r \in profiles' : \E p \in profiles : r = after[p]
      /\ \A p \in profiles : after[p] \in profiles'
  BY <1>1, <1>5
<1>9. \A p \in profiles : /\ after[p] \in D!Profile /\ after[p].of = p.of /\ after[p].text = p.text
                          /\ after[p].spans = p.spans /\ after[p].from = p.from
                          /\ after[p].open => p.open /\ p \notin losers /\ after[p] = p
                          /\ ~after[p].open => ~p.open \/ p \in losers
  BY <1>6 DEF DreamInv, D!TypeOK
<1> HIDE DEF after, Shut, losers, better, rivals, q, open
<1>10. \A c \in Dreamers \ {d} : step[c] = "idle"
  BY <1>1 DEF DreamInv, HolderWorks
<1>11. D!TypeOK'
  <2>1. profiles' \subseteq D!Profile
    BY <1>8, <1>9
  <2>2. draft' \in [Dreamers -> D!Profile]
    BY <1>1, <1>4 DEF DreamInv, D!TypeOK
  <2> QED BY <1>1, <2>1, <2>2 DEF DreamInv, D!TypeOK
<1>12. \A x : Whole(x)' = Whole(x)
  BY <1>1 DEF Whole
<1>13. HolderWorks'
  BY <1>1, <1>4, <1>10 DEF DreamInv, D!TypeOK, HolderWorks, AtWork
<1>14. OneOpen'
  <2> SUFFICES ASSUME NEW r \in profiles', NEW s \in profiles',
                      r.open, s.open, r.of = s.of, r # s
               PROVE  ~Whole(r.of) /\ (r.text \subseteq ByAssistant \/ s.text \subseteq ByAssistant)
    BY <1>1, <1>12 DEF OneOpen
  <2>1. PICK p \in profiles : r = after[p]
    BY <1>8
  <2>2. PICK o \in profiles : s = after[o]
    BY <1>8
  <2>3. r = p /\ s = o
    BY <1>9, <2>1, <2>2
  <2> QED BY <2>3 DEF DreamInv, OneOpen
<1>15. DaysDiffer'
  <2> SUFFICES ASSUME NEW r \in profiles', NEW s \in profiles',
                      r.of = s.of, r.from = s.from, Whole(r.of)
               PROVE  r = s
    BY <1>12 DEF DaysDiffer
  <2>1. PICK p \in profiles : r = after[p]
    BY <1>8
  <2>2. PICK o \in profiles : s = after[o]
    BY <1>8
  <2>3. p = o
    BY <1>9, <2>1, <2>2 DEF DreamInv, DaysDiffer
  <2> QED BY <2>1, <2>2, <2>3
<1>16. RowsAreTold'
  <2> SUFFICES ASSUME NEW r \in profiles' PROVE IsTold(r)'
    BY DEF RowsAreTold
  <2>1. PICK p \in profiles : r = after[p]
    BY <1>8
  <2>2. IsTold(p)
    BY DEF DreamInv, RowsAreTold
  <2> QED BY <1>1, <1>9, <2>1, <2>2 DEF IsTold
<1>17. ASSUME Whole(e), NEW p \in D!Rivals(q) PROVE p.from < q.from
  <2>1. p \in profiles /\ p \in D!Profile /\ p.of = e /\ IsTold(p) /\ p \in RowsOf(e) /\ p.open
        /\ ~D!SameRow(p, q)
    BY <1>3, <1>17 DEF D!Rivals, RowsOf, DreamInv, D!TypeOK, RowsAreTold
  <2>2. p.text \subseteq draft[d].text
    BY <1>2, <1>17, <2>1 DEF IsTold
  <2>3. p.from <= draft[d].from
    BY <1>2, <2>1, <2>2 DEF IsTold
  <2>4. ASSUME p.from = draft[d].from PROVE FALSE
    <3>1. CASE D!Repeated(draft[d]) = {} /\ q = draft[d]
      <4>1. p.text # draft[d].text
        BY <2>1, <3>1, <1>3 DEF D!SameRow
      <4>2. p.spans \cap draft[d].spans # {}
        BY <1>2, <2>1, <2>2 DEF IsTold
      <4> QED BY <2>1, <2>4, <3>1, <4>1, <4>2 DEF D!Repeated
    <3>2. ASSUME NEW r \in D!Repeated(draft[d]), q = [r EXCEPT !.spans = @ \cup draft[d].spans]
          PROVE  FALSE
      <4>1. r \in profiles /\ r \in D!Profile /\ r.of = e /\ r.from = draft[d].from
        BY DEF D!Repeated, DreamInv, D!TypeOK
      <4>2. p = r
        BY <1>17, <2>1, <2>4, <4>1 DEF DreamInv, DaysDiffer
      <4>3. q.text = r.text
        BY <3>2, <4>1 DEF D!Profile
      <4> QED BY <1>3, <2>1, <4>2, <4>3 DEF D!SameRow
    <3> QED BY <1>2, <3>1, <3>2, MergedIs DEF DreamInv, q
  <2> QED BY <1>2, <1>3, <2>1, <2>3, <2>4 DEF D!Profile
<1>18. ASSUME Whole(e)
       PROVE  open /\ \A p \in profiles : p.of = e /\ p.open /\ p \notin losers => D!SameRow(p, q)
  <2>1. better = {}
    <3>1. \A p \in D!Rivals(q) : p.from \in Nat /\ q.from \in Nat /\ p.from < q.from
      BY <1>3, <1>17, <1>18 DEF D!Rivals, DreamInv, D!TypeOK, D!Profile
    <3> QED BY <3>1 DEF better, rivals, D!Outranks
  <2>2. q.open
    <3>1. CASE D!Repeated(draft[d]) = {}
      BY <1>2, <3>1, MergedIs DEF DreamInv, q
    <3>2. CASE D!Repeated(draft[d]) # {}
      <4>1. PICK r \in profiles : r \in RowsOf(e) /\ r.from = draft[d].from /\ q.open = r.open
        BY <1>0, <3>2
      <4>2. r.open \/ r.from < r.from
        BY <1>2, <1>18, <4>1
      <4>3. r.from \in Nat
        BY DEF DreamInv, D!TypeOK, D!Profile
      <4> QED BY <4>1, <4>2, <4>3
    <3> QED BY <3>1, <3>2
  <2>3. ASSUME NEW p \in profiles, p.of = e, p.open, p \notin losers PROVE D!SameRow(p, q)
    <3>1. CASE D!Repeated(draft[d]) = {}
      <4> SUFFICES ASSUME p \in D!Rivals(q) PROVE FALSE
        BY <1>3, <2>3 DEF D!Rivals
      <4>1. p.from < q.from /\ p.from \in Nat /\ q.from \in Nat
        BY <1>3, <1>17, <1>18 DEF DreamInv, D!TypeOK, D!Profile
      <4>2. p.spans \subseteq q.spans
        BY <1>2, <1>3, <1>18, <2>3 DEF RowsOf, IsTold
      <4>3. p \in losers
        BY <3>1, <4>1, <4>2 DEF losers, rivals, D!Outranks, D!MayClose
      <4> QED BY <2>3, <4>3
    <3>2. CASE D!Repeated(draft[d]) # {}
      <4>1. PICK r \in profiles : r \in RowsOf(e) /\ q.text = r.text /\ q.open = r.open
        BY <1>0, <3>2
      <4>2. p = r
        BY <1>18, <2>2, <2>3, <4>1 DEF RowsOf, DreamInv, OneOpen
      <4> QED BY <1>3, <2>3, <4>1, <4>2 DEF D!SameRow
    <3> QED BY <3>1, <3>2
  <2> QED BY <2>1, <2>2, <2>3 DEF open
<1>19. ClosedAreOlder'
  <2> SUFFICES ASSUME NEW r \in profiles', ~r.open, Whole(r.of)
               PROVE  \E f \in Facts : known[f] = "active" /\ r.of \in About[f] /\ r.from < Time[f]
    BY <1>1, <1>12 DEF ClosedAreOlder
  <2>1. PICK p \in profiles : r = after[p]
    BY <1>8
  <2>2. CASE ~p.open
    BY <1>9, <2>1, <2>2 DEF DreamInv, ClosedAreOlder
  <2>3. CASE p \in losers
    <3>1. p \in D!Rivals(q) /\ p.of = e
      BY <1>5, <2>3 DEF rivals
    <3>2. p.from < q.from
      BY <1>9, <1>17, <2>1, <3>1
    <3>3. PICK f \in q.text : Time[f] = q.from /\ e \in About[f] /\ known[f] # "absent"
      BY <1>3 DEF IsTold
    <3>4. f \in Facts /\ known[f] = "active"
      BY <1>3, <1>9, <2>1, <3>1, <3>3 DEF D!Profile, Whole, DreamInv, D!TypeOK
    <3> QED BY <1>9, <2>1, <3>1, <3>2, <3>3, <3>4
  <2> QED BY <1>9, <2>1, <2>2, <2>3
<1>20. DraftsAre'
  <2> SUFFICES ASSUME NEW c \in Dreamers PROVE Drafted(c)'
    BY DEF DraftsAre
  <2>1. CASE c # d
    BY <1>1, <1>10, <2>1 DEF Drafted, DreamInv, D!TypeOK
  <2>2. CASE c = d
    <3>1. step'[d] = "write"
      BY <1>1 DEF DreamInv, D!TypeOK
    <3>2. IsTold(draft[d])'
      BY <1>1, <1>3, <1>4 DEF IsTold
    <3>3. ASSUME NEW r \in RowsOf(e)', r.open, open
          PROVE  D!SameRow(r, draft'[d]) \/ r.text \subseteq ByAssistant
                   \/ draft'[d].text \subseteq ByAssistant
      <4>1. PICK p \in profiles : r = after[p]
        BY <1>4, <1>8, <3>3 DEF RowsOf
      <4>2. r = p /\ p.open /\ p.of = e /\ p \notin losers
        BY <1>4, <1>9, <3>3, <4>1 DEF RowsOf
      <4>3. IsTold(p) /\ p.text \subseteq p.spans /\ q.text \subseteq q.spans
        BY <1>3 DEF DreamInv, RowsAreTold, IsTold
      <4>4. CASE D!Repeated(draft[d]) = {}
        <5>1. CASE p \in D!Rivals(q)
          <6>1. ~D!MayClose(p, q) \/ ~D!MayClose(q, p)
            BY <3>3, <4>2, <4>4, <5>1 DEF open, better, losers, rivals
          <6> QED BY <1>4, <4>2, <4>3, <6>1 DEF D!MayClose
        <5>2. CASE p \notin D!Rivals(q)
          BY <1>3, <1>4, <4>1, <4>2, <5>2 DEF D!Rivals, D!SameRow
        <5> QED BY <5>1, <5>2
      <4>5. CASE D!Repeated(draft[d]) # {}
        <5>1. PICK o \in profiles : o \in RowsOf(e) /\ q.text = o.text /\ q.open = o.open
          BY <1>0, <4>5
        <5>2. o.open
          BY <3>3, <5>1 DEF open
        <5>3. p = o \/ p.text \subseteq ByAssistant \/ o.text \subseteq ByAssistant
          BY <4>2, <5>1, <5>2 DEF RowsOf, DreamInv, OneOpen
        <5> QED BY <1>3, <1>4, <4>2, <5>1, <5>3 DEF D!SameRow
      <4> QED BY <4>4, <4>5
    <3>4. ASSUME NEW r \in RowsOf(e)', Whole(e), r.open \/ r.from = q.from
          PROVE  D!SameRow(r, draft'[d])
      <4>1. PICK p \in profiles : r = after[p]
        BY <1>4, <1>8, <3>4 DEF RowsOf
      <4>2. p.of = e /\ p \in RowsOf(e) /\ p \in D!Profile /\ r.text = p.text
            /\ r.of = e /\ r.from = p.from
        BY <1>4, <1>9, <3>4, <4>1 DEF RowsOf, DreamInv, D!TypeOK
      <4>3. CASE r.open
        <5>1. p.open /\ p \notin losers
          BY <1>9, <4>1, <4>3
        <5> QED BY <1>3, <1>4, <1>18, <3>4, <4>2, <5>1 DEF D!SameRow
      <4>4. CASE r.from = q.from
        <5>0. p.from = q.from /\ p.from \in Nat /\ p \in RowsOf(e) /\ Whole(e)
          BY <3>4, <4>2, <4>4 DEF D!Profile
        <5>1. p.open
          BY <1>2, <1>3, <5>0
        <5>2. p \notin D!Rivals(q)
          BY <1>17, <5>0
        <5> QED BY <1>3, <1>4, <4>2, <5>1, <5>2 DEF D!Rivals, D!SameRow
      <4> QED BY <3>4, <4>3, <4>4
    <3> QED BY <1>4, <1>12, <1>18, <2>2, <3>1, <3>2, <3>3, <3>4 DEF Drafted
  <2> QED BY <2>1, <2>2
<1>21. SpansTell'
  <2> SUFFICES ASSUME NEW c \in Dreamers, AtWork(c)', NEW f \in Facts, known[f] = "active",
                      draft'[c].of \in About[f] \ unmarked[f]
               PROVE  f \in draft'[c].spans \/ <<f, draft'[c].of>> \in raced
    BY <1>1 DEF SpansTell
  <2>1. c = d
    BY <1>1, <1>10 DEF AtWork, DreamInv, D!TypeOK
  <2>2. f \in draft[d].spans \/ <<f, e>> \in raced
    BY <1>1, <1>4, <2>1 DEF DreamInv, SpansTell, AtWork
  <2> QED BY <1>3, <1>4, <2>1, <2>2
<1>22. D!ProfileOrDirty'
  <2> SUFFICES ASSUME NEW x \in Entities, NEW r \in profiles', r.of = x, D!Current(x)' = {}, x \notin stale
               PROVE  \E f \in Facts : x \in About[f] /\ known[f] = "archived"
    BY <1>1 DEF D!ProfileOrDirty, D!Whole
  <2>1. x # e
    BY <1>2
  <2>2. \E p \in profiles : p.of = x
    BY <1>8, <1>9
  <2>3. D!Current(x) = {}
    <3> SUFFICES ASSUME NEW p \in profiles, p.of = x, p.open PROVE FALSE
      BY DEF D!Current
    <3>1. after[p] = p
      BY <1>5, <2>1 DEF after
    <3> QED BY <1>8, <3>1 DEF D!Current
  <2> QED BY <2>2, <2>3 DEF DreamInv, D!ProfileOrDirty, D!Whole
<1>23. D!CoveredUnlessRaced'
  BY <1>1 DEF DreamInv, D!CoveredUnlessRaced
<1> QED BY <1>7, <1>11, <1>13, <1>14, <1>15, <1>16, <1>19, <1>20, <1>21, <1>22, <1>23 DEF DreamInv

LEMMA WriteStep ==
    ASSUME D!DreamingAssumption, DreamInv, NEW d \in Dreamers, D!WriteProfile(d) PROVE DreamInv'
<1> DEFINE q == draft[d]
           e == draft[d].of
           same == {p \in profiles : D!SameRow(p, q)}
           rank == IF same = {} THEN Cardinality(profiles) + 1 ELSE (CHOOSE p \in same : TRUE).rank
           new == [q EXCEPT !.rank = rank]
<1>1. /\ step[d] = "write" /\ step' = [step EXCEPT ![d] = "clear"]
      /\ profiles' = (profiles \ same) \cup {new}
      /\ UNCHANGED <<known, unmarked, stale, holder, todo, draft, covered, raced>>
  BY SameSizes DEF D!WriteProfile, D!Goto
<1>2. /\ q \in D!Profile /\ IsTold(q) /\ e \in stale
      /\ q.open => \A p \in RowsOf(e) : p.open =>
            D!SameRow(p, q) \/ p.text \subseteq ByAssistant \/ q.text \subseteq ByAssistant
      /\ Whole(e) => q.open /\ \A p \in RowsOf(e) :
            p.open \/ p.from = q.from => D!SameRow(p, q)
  BY <1>1 DEF DreamInv, D!TypeOK, DraftsAre, Drafted, HolderWorks, AtWork
<1>3. rank \in Nat
  <2>1. Cardinality(profiles) \in Nat
    BY FS_CardinalityType DEF DreamInv
  <2>2. same # {} => (CHOOSE p \in same : TRUE) \in same
    OBVIOUS
  <2>3. \A p \in same : p.rank \in Nat
    BY DEF DreamInv, D!TypeOK, D!Profile
  <2> HIDE DEF same
  <2> QED BY <2>1, <2>2, <2>3
<1>4. /\ new \in D!Profile /\ new.of = e /\ new.text = q.text /\ new.spans = q.spans
      /\ new.from = q.from /\ new.open = q.open
  <2> HIDE DEF rank
  <2> QED BY <1>2, <1>3 DEF D!Profile
<1>5. IsTold(new)
  <2> HIDE DEF new
  <2> QED BY <1>2, <1>4 DEF IsTold
<1> HIDE DEF new, rank
<1>6. same \subseteq RowsOf(e)
  BY DEF D!SameRow, RowsOf
<1>7. IsFiniteSet(profiles')
  BY <1>1, FS_Subset, FS_AddElement DEF DreamInv
<1>8. \A c \in Dreamers \ {d} : step[c] = "idle"
  BY <1>1 DEF DreamInv, HolderWorks
<1>9. D!TypeOK'
  BY <1>1, <1>4 DEF DreamInv, D!TypeOK
<1>10. \A x : Whole(x)' = Whole(x)
  BY <1>1 DEF Whole
<1>11. HolderWorks'
  BY <1>1, <1>8 DEF DreamInv, D!TypeOK, HolderWorks, AtWork
<1>12. ASSUME NEW p \in profiles \ same, p.of = e PROVE ~D!SameRow(p, q) /\ p \in RowsOf(e)
  BY <1>12 DEF RowsOf
<1>13. OneOpen'
  <2>1. \A p \in profiles \ same : p.of = e /\ p.open /\ new.open =>
            ~Whole(e) /\ (p.text \subseteq ByAssistant \/ new.text \subseteq ByAssistant)
    BY <1>2, <1>4, <1>12
  <2> QED BY <1>1, <1>4, <1>10, <2>1 DEF DreamInv, OneOpen
<1>14. DaysDiffer'
  <2>1. \A p \in profiles \ same : p.of = e /\ Whole(e) => p.from # new.from
    BY <1>2, <1>4, <1>12
  <2> QED BY <1>1, <1>4, <1>10, <2>1 DEF DreamInv, DaysDiffer
<1>15. ClosedAreOlder'
  <2>1. Whole(e) => new.open
    BY <1>2, <1>4
  <2> QED BY <1>1, <1>4, <1>10, <2>1 DEF DreamInv, ClosedAreOlder
<1>16. RowsAreTold'
  BY <1>1, <1>5 DEF DreamInv, RowsAreTold, IsTold
<1>17. DraftsAre'
  <2> SUFFICES ASSUME NEW c \in Dreamers PROVE Drafted(c)'
    BY DEF DraftsAre
  <2>1. CASE c # d
    BY <1>1, <1>8, <2>1 DEF Drafted, DreamInv, D!TypeOK
  <2>2. CASE c = d
    <3>1. step'[d] = "clear" /\ draft'[d] = draft[d]
      BY <1>1 DEF DreamInv, D!TypeOK
    <3>2. Whole(e) => new \in D!Current(e)'
      BY <1>1, <1>2, <1>4 DEF D!Current
    <3> QED BY <1>1, <1>10, <2>2, <3>1, <3>2 DEF Drafted
  <2> QED BY <2>1, <2>2
<1>18. SpansTell'
  <2> SUFFICES ASSUME NEW c \in Dreamers, AtWork(c)' PROVE AtWork(c)
    BY <1>1 DEF SpansTell, DreamInv
  <2> QED BY <1>1, <1>8 DEF AtWork, DreamInv, D!TypeOK
<1>19. D!ProfileOrDirty'
  <2> SUFFICES ASSUME NEW x \in Entities, NEW r \in profiles', r.of = x, D!Current(x)' = {}, x \notin stale
               PROVE  \E f \in Facts : x \in About[f] /\ known[f] = "archived"
    BY <1>1 DEF D!ProfileOrDirty, D!Whole
  <2>1. x # e
    BY <1>2
  <2>2. r \in profiles
    BY <1>1, <1>4, <2>1
  <2>3. D!Current(x) = {}
    BY <1>1, <1>6, <2>1 DEF D!Current, RowsOf
  <2> QED BY <2>2, <2>3 DEF DreamInv, D!ProfileOrDirty, D!Whole
<1>20. D!CoveredUnlessRaced'
  BY <1>1 DEF DreamInv, D!CoveredUnlessRaced
<1> QED BY <1>7, <1>9, <1>11, <1>13, <1>14, <1>15, <1>16, <1>17, <1>18, <1>19, <1>20 DEF DreamInv

LEMMA ClearStep ==
    ASSUME D!DreamingAssumption, DreamInv, NEW d \in Dreamers, D!ClearStale(d) PROVE DreamInv'
<1> DEFINE e == draft[d].of
<1>1. /\ step[d] = "clear" /\ step' = [step EXCEPT ![d] = "next"] /\ stale' = stale \ {e}
      /\ covered' = [covered EXCEPT ![e] = @ \cup draft[d].spans]
      /\ draft' = [draft EXCEPT ![d] = D!Blank]
      /\ UNCHANGED <<known, unmarked, profiles, holder, todo, raced>>
  BY DEF D!ClearStale, D!Goto, D!Uncleared
<1>2. draft[d] \in D!Profile /\ e \in stale \ todo[d] /\ e \in Entities
  BY <1>1 DEF DreamInv, D!TypeOK, HolderWorks, AtWork
<1>3. D!Blank \in D!Profile
  BY DEF D!Blank, D!Profile
<1>4. \A c \in Dreamers \ {d} : step[c] = "idle"
  BY <1>1 DEF DreamInv, HolderWorks
<1>5. D!TypeOK'
  <2>1. covered' \in [Entities -> SUBSET Facts]
    BY <1>1, <1>2 DEF DreamInv, D!TypeOK, D!Profile
  <2> QED BY <1>1, <1>3, <2>1 DEF DreamInv, D!TypeOK
<1>6. HolderWorks'
  BY <1>1, <1>2, <1>4 DEF DreamInv, D!TypeOK, HolderWorks, AtWork
<1>7. DraftsAre'
  BY <1>1, <1>4, RowsStay DEF DreamInv, D!TypeOK, DraftsAre
<1>8. SpansTell'
  BY <1>1, <1>4 DEF SpansTell, AtWork, DreamInv, D!TypeOK
<1>9. D!ProfileOrDirty'
  <2> SUFFICES ASSUME NEW x \in Entities, NEW p \in profiles, p.of = x, D!Current(x) = {}, x \notin stale'
               PROVE  \E f \in Facts : x \in About[f] /\ known[f] = "archived"
    BY <1>1 DEF D!ProfileOrDirty, D!Whole, D!Current
  <2>1. CASE x = e
    <3>1. Whole(e) /\ RowsOf(e) # {} => D!Current(e) # {}
      BY <1>1 DEF DreamInv, DraftsAre, Drafted
    <3>2. ~Whole(e)
      BY <2>1, <3>1 DEF RowsOf
    <3> QED BY <2>1, <3>2 DEF Whole
  <2>2. CASE x # e
    BY <1>1, <2>2 DEF DreamInv, D!ProfileOrDirty, D!Whole
  <2> QED BY <2>1, <2>2
<1>10. D!CoveredUnlessRaced'
  <2> SUFFICES ASSUME NEW f \in Facts, NEW x \in About[f] \ (unmarked[f] \cup stale'), known[f] = "active"
               PROVE  f \in covered'[x] \/ <<f, x>> \in raced
    BY <1>1 DEF D!CoveredUnlessRaced
  <2>1. CASE x = e
    <3>1. f \in draft[d].spans \/ <<f, e>> \in raced
      BY <1>1, <2>1 DEF DreamInv, SpansTell, AtWork
    <3> QED BY <1>1, <1>2, <2>1, <3>1 DEF DreamInv, D!TypeOK
  <2>2. CASE x # e
    <3>1. x \in Entities
      BY DEF D!DreamingAssumption
    <3> QED BY <1>1, <2>2, <3>1 DEF DreamInv, D!TypeOK, D!CoveredUnlessRaced
  <2> QED BY <2>1, <2>2
<1> QED BY <1>1, <1>5, <1>6, <1>7, <1>8, <1>9, <1>10, RowsStay DEF DreamInv

LEMMA DreamDiesStep == ASSUME D!DreamingAssumption, DreamInv, D!Crash PROVE DreamInv'
<1> USE DEF D!Crash
<1>1. D!TypeOK'
  <2>1. raced' \subseteq Facts \X Entities
    BY DEF DreamInv, D!TypeOK
  <2> QED BY <2>1 DEF DreamInv, D!TypeOK, D!Blank, D!Profile
<1>2. HolderWorks' /\ SpansTell' /\ DraftsAre'
  BY RowsStay DEF HolderWorks, SpansTell, AtWork, DraftsAre
<1>3. D!ProfileOrDirty'
  BY DEF DreamInv, D!ProfileOrDirty, D!Whole, D!Current
<1>4. D!CoveredUnlessRaced'
  <2> SUFFICES ASSUME NEW f \in Facts, NEW x \in About[f] \ stale, known[f] = "active"
               PROVE  f \in covered[x] \/ <<f, x>> \in raced'
    BY DEF D!CoveredUnlessRaced
  <2>1. CASE x \in unmarked[f]
    <3>1. <<f, x>> \in {f} \X unmarked[f]
      BY <2>1
    <3>2. <<f, x>> \in UNION {{g} \X unmarked[g] : g \in Facts}
      BY <3>1
    <3> QED BY <3>2
  <2>2. CASE x \notin unmarked[f]
    BY <2>2 DEF DreamInv, D!CoveredUnlessRaced
  <2> QED BY <2>1, <2>2
<1> QED BY <1>1, <1>2, <1>3, <1>4, RowsStay DEF DreamInv

LEMMA NextDream == ASSUME D!DreamingAssumption, DreamInv, [D!Next]_D!vars PROVE DreamInv'
<1>1. CASE UNCHANGED D!vars
  <2>1. UNCHANGED <<known, unmarked, stale, profiles, holder, step, todo, draft, covered, raced>>
    BY <1>1 DEF D!vars
  <2>2. HolderWorks' /\ SpansTell' /\ D!ProfileOrDirty' /\ D!CoveredUnlessRaced' /\ D!TypeOK'
    BY <2>1 DEF DreamInv, HolderWorks, SpansTell, AtWork, D!ProfileOrDirty, D!Whole, D!Current,
                D!CoveredUnlessRaced, D!TypeOK
  <2> QED BY <2>1, <2>2, RowsStay DEF DreamInv, DraftsAre
<1>2. CASE D!Next
  BY <1>2, StoreFactStep, ArchiveFactStep, MarkStaleStep, BeginStep, FinishStep, CloseStep, WriteStep,
     ClearStep, RebuildStep, DreamDiesStep DEF D!Next
<1> QED BY <1>1, <1>2

LEMMA ProfilesKept ==
    ASSUME DreamInv PROVE D!OneCurrentProfile /\ D!ProfileOrDirty /\ D!CoveredUnlessRaced
BY DEF DreamInv, OneOpen, Whole, D!OneCurrentProfile, D!Current, D!Whole

(* dreaming/__init__.py: whatever cycles are begun, cut or killed while    *)
(* facts are stored, marked and deleted, no two current profiles of an     *)
(* entity tell what the user told, and none has two or is left without one *)
(* while its facts are not deleted; no bit is cleared before its fact was  *)
(* read, but for those that were set meanwhile.                            *)
THEOREM ProfilesStayKept == DerivedSpec => []ProfilesAreKept
<1> USE DerivedAssumptions
<1>1. DerivedInit => DreamInv
  BY InitDream DEF DerivedInit
<1>2. DreamInv /\ [DerivedNext]_<<part, vars, others>> => DreamInv'
  <2>1. [DerivedNext]_<<part, vars, others>> => [D!Next]_D!vars
    BY DEF DerivedNext, others, dreamingVars, D!vars
  <2> QED BY <2>1, NextDream
<1>3. DreamInv => ProfilesAreKept
  BY ProfilesKept DEF ProfilesAreKept
<1> QED BY <1>1, <1>2, <1>3, PTL DEF DerivedSpec

-----------------------------------------------------------------------------
(* Facts, profiles and summaries have their types in every execution.      *)
THEOREM DerivedIsTyped == DerivedSpec => []DerivedTypeOK
<1> USE DerivedAssumptions
<1>1. DerivedInit => TypeInv /\ DreamInv /\ SummaryInv
  BY InitIsTyped, InitDream, InitSummary DEF DerivedInit
<1>2. TypeInv /\ DreamInv /\ SummaryInv /\ [DerivedNext]_<<part, vars, others>>
        => (TypeInv /\ DreamInv /\ SummaryInv)'
  <2>1. [DerivedNext]_<<part, vars, others>> => [Next]_vars /\ [D!Next]_D!vars /\ [S!Next]_S!vars
    BY DEF DerivedNext, others, dreamingVars, summaryVars, vars, D!vars, S!vars
  <2> QED BY <2>1, NextIsTyped, NextDream, NextSummary
<1>3. TypeInv /\ DreamInv /\ SummaryInv => DerivedTypeOK
  BY DEF TypeInv, DreamInv, SummaryInv, DerivedTypeOK
<1> QED BY <1>1, <1>2, <1>3, PTL DEF DerivedSpec
=============================================================================
