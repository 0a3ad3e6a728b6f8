------------------------- MODULE BenchmarkProofs ---------------------------
(***************************************************************************)
(* Proofs about BenchmarkRun in Processes, for every value of the          *)
(* constants, any number of questions, runs and kills: no answer is paid   *)
(* for twice, and the score is of the answers.  At the beginning what all  *)
(* proofs about Processes need of numbers.                                 *)
(***************************************************************************)
EXTENDS Processes, FiniteSetTheorems, SequenceTheorems, WellFoundedInduction, TLAPS

(* A set of numbers that is not empty has a least one.                     *)
LEMMA LeastNumber ==
    ASSUME NEW S \in SUBSET Nat, S # {} PROVE \E l \in S : \A m \in S : l <= m
<1>1. PICK l \in S : \A m \in S : <<m, l>> \notin OpToRel(<, Nat)
  BY WFMin, NatLessThanWellFounded, Zenon
<1>2. \A m \in S : ~(m < l)
  BY <1>1, Zenon DEF OpToRel
<1> QED BY <1>2

(* A finite one has a greatest: one with the fewest above it.              *)
LEMMA GreatestNumber ==
    ASSUME NEW S \in SUBSET Int, IsFiniteSet(S), S # {}
    PROVE  I!Max(S) \in S /\ \A y \in S : I!Max(S) >= y
<1> DEFINE above == [x \in S |-> {y \in S : x < y}]
           sizes == {Cardinality(above[x]) : x \in S}
<1>1. \A x \in S : above[x] \in SUBSET S /\ IsFiniteSet(above[x]) /\ Cardinality(above[x]) \in Nat
  BY FS_Subset, FS_CardinalityType
<1>2. PICK x \in S : \A y \in S : Cardinality(above[x]) <= Cardinality(above[y])
  <2>1. sizes \in SUBSET Nat /\ sizes # {}
    BY <1>1
  <2> HIDE DEF sizes, above
  <2>2. PICK l \in sizes : \A m \in sizes : l <= m
    BY <2>1, LeastNumber
  <2> QED BY <2>2 DEF sizes
<1>3. ASSUME NEW y \in S, x < y PROVE FALSE
  <2>1. above[y] \in SUBSET above[x] /\ y \in above[x] /\ y \notin above[y]
    <3>1. x \in Int /\ y \in Int /\ \A z \in S : z \in Int /\ (y < z => x < z)
      BY <1>3
    <3>2. above[x] = {z \in S : x < z} /\ above[y] = {z \in S : y < z}
      BY <1>3
    <3> HIDE DEF above
    <3>3. above[y] \in SUBSET above[x]
      BY <3>1, <3>2
    <3> QED BY <1>3, <3>1, <3>2, <3>3
  <2> HIDE DEF above
  <2>2. Cardinality(above[y]) <= Cardinality(above[x])
    BY <1>1, <2>1, FS_Subset
  <2>3. Cardinality(above[x]) = Cardinality(above[y])
    <3>1. Cardinality(above[x]) <= Cardinality(above[y])
      BY <1>2
    <3>2. Cardinality(above[x]) \in Nat /\ Cardinality(above[y]) \in Nat
      BY <1>1, <1>3
    <3> QED BY <2>2, <3>1, <3>2
  <2> QED BY <1>1, <2>1, <2>3, FS_Subset
<1>4. x \in S /\ \A y \in S : x >= y
  BY <1>3
<1> HIDE DEF above, sizes
<1> QED BY <1>4 DEF I!Max

-----------------------------------------------------------------------------
(* BenchmarkRun.  The answers in the file, and their questions.            *)
CleanRows == {r \in B!ToSet(answers) : ~r.error}
HasAnswer == {r.q : r \in CleanRows}
Single(rows) == \A r, s \in rows : r.q = s.q => r = s

(* How many answers may be lost yet for kills that were counted: a torn    *)
(* line takes the next row with it, an open one its own row too.           *)
Weight == CASE end = "whole" -> 0 [] end = "torn" -> 1 [] end = "open" -> 2

RunIsIdle == phase = "idle" => busy = {} /\ todo = {}

AskedAreOpen == todo \cap busy = {} /\ (todo \cup busy) \cap HasAnswer = {}

AnswersWereSaid ==
    /\ Single(CleanRows) /\ Single(done)
    /\ CleanRows \subseteq B!ToSet(said) /\ done \subseteq B!ToSet(said)
    /\ \A i \in DOMAIN said : ~said[i].error

LostIsBounded == Len(said) - Cardinality(CleanRows) <= 2 * kills - Weight

(* A run that is never killed loses nothing.                               *)
NothingIsLost ==
    kills = 0 =>
        /\ end = "whole" /\ B!ToSet(said) = CleanRows /\ done \subseteq CleanRows
        /\ \A i, j \in DOMAIN said : said[i].q = said[j].q => i = j
        /\ asked \subseteq busy \cup HasAnswer \cup B!Failed(answers)

ScopeIsAsked == phase # "idle" => scope \subseteq todo \cup asked \cup B!Asked(done) \cup left

FreshArePinned == phase = "asking" => \A r \in fresh : r \in over \/ r.model = Pinned

ScoreStands == scored => phase = "idle" /\ B!ScoreIsEarned

RunInv ==
    /\ B!TypeOK
    /\ RunIsIdle /\ AskedAreOpen /\ AnswersWereSaid /\ LostIsBounded /\ NothingIsLost
    /\ ScopeIsAsked /\ FreshArePinned /\ ScoreStands

(* The instance counts as this module does.                                *)
LEMMA RunCounts == \A X : B!Cardinality(X) = Cardinality(X)
                          /\ (B!IsFiniteSet(X) <=> IsFiniteSet(X))
BY DEF B!Cardinality, Cardinality, B!IsFiniteSet, IsFiniteSet

LEMMA RowsOfSequence ==
    ASSUME NEW S, NEW f \in Seq(S)
    PROVE  /\ Len(f) \in Nat /\ DOMAIN f = 1..Len(f)
           /\ B!ToSet(f) \subseteq S /\ IsFiniteSet(B!ToSet(f))
           /\ Cardinality(B!ToSet(f)) <= Len(f)
<1>1. Len(f) \in Nat /\ DOMAIN f = 1..Len(f) /\ f \in [1..Len(f) -> S]
  BY LenProperties
<1>2. B!ToSet(f) = {f[i] : i \in 1..Len(f)} /\ B!ToSet(f) \subseteq S
  BY <1>1 DEF B!ToSet
<1>3. IsFiniteSet(1..Len(f)) /\ Cardinality(1..Len(f)) = Len(f)
  <2>1. IsFiniteSet(1..Len(f)) /\ Cardinality(1..Len(f)) = IF 1 > Len(f) THEN 0 ELSE Len(f) - 1 + 1
    BY <1>1, FS_Interval
  <2> QED BY <1>1, <2>1
<1>4. f \in Surjection(1..Len(f), B!ToSet(f))
  BY <1>1, <1>2 DEF Surjection
<1>5. IsFiniteSet(B!ToSet(f)) /\ Cardinality(B!ToSet(f)) <= Cardinality(1..Len(f))
  BY <1>3, <1>4, FS_Surjection
<1> QED BY <1>1, <1>2, <1>3, <1>5

(* What a row more, and a row less at the end, do to the rows.             *)
LEMMA RowIsAppended ==
    ASSUME NEW S, NEW f \in Seq(S), NEW r \in S
    PROVE  /\ Append(f, r) \in Seq(S) /\ Len(Append(f, r)) = Len(f) + 1
           /\ B!ToSet(Append(f, r)) = B!ToSet(f) \cup {r}
           /\ \A i \in DOMAIN f : Append(f, r)[i] = f[i]
           /\ DOMAIN Append(f, r) = DOMAIN f \cup {Len(f) + 1}
           /\ Append(f, r)[Len(f) + 1] = r
<1>1. /\ Append(f, r) \in Seq(S) /\ Len(Append(f, r)) = Len(f) + 1
      /\ \A i \in 1..Len(f) : Append(f, r)[i] = f[i]
      /\ Append(f, r)[Len(f) + 1] = r
  BY AppendProperties
<1>2. Len(f) \in Nat /\ DOMAIN f = 1..Len(f) /\ DOMAIN Append(f, r) = 1..(Len(f) + 1)
  BY <1>1, LenProperties
<1>3. 1..(Len(f) + 1) = 1..Len(f) \cup {Len(f) + 1}
  BY <1>2
<1> QED BY <1>1, <1>2, <1>3 DEF B!ToSet

LEMMA RowIsCut ==
    ASSUME NEW S, NEW f \in Seq(S)
    PROVE  /\ B!Front(f) \in Seq(S)
           /\ B!ToSet(B!Front(f)) \subseteq B!ToSet(f)
           /\ \E l : B!ToSet(f) \subseteq B!ToSet(B!Front(f)) \cup {l}
<1> DEFINE n == Len(f)
           g == B!Front(f)
<1>1. n \in Nat /\ DOMAIN f = 1..n /\ \A i \in 1..n : f[i] \in S
  BY LenProperties
<1>2. \A i \in 1..(n - 1) : f[i] \in S
  BY <1>1
<1>3. /\ g \in Seq(S) /\ Len(g) = IF 1 <= n - 1 THEN n - 1 - 1 + 1 ELSE 0
      /\ \A i \in 1..(n - 1 - 1 + 1) : g[i] = f[1 + i - 1]
  <2>1. 1 \in Int /\ n - 1 \in Int
    BY <1>1
  <2> HIDE DEF n
  <2> QED BY <1>2, <2>1, SubSeqProperties DEF B!Front, n
<1>4. DOMAIN g = 1..(n - 1) /\ \A i \in 1..(n - 1) : g[i] = f[i]
  <2>1. DOMAIN g = 1..Len(g)
    BY <1>3, LenProperties
  <2> HIDE DEF g, n
  <2> QED BY <1>1, <1>3, <2>1
<1> HIDE DEF g
<1>5. \A i \in 1..n : i \in 1..(n - 1) \/ i = n
  <2> HIDE DEF n
  <2> QED BY <1>1
<1>6. B!ToSet(f) \subseteq B!ToSet(g) \cup {f[n]}
  BY <1>1, <1>4, <1>5 DEF B!ToSet
<1>7. B!ToSet(g) \subseteq B!ToSet(f)
  BY <1>1, <1>4 DEF B!ToSet
<1> QED BY <1>3, <1>6, <1>7 DEF g

(* A set of one element more, or less.                                     *)
LEMMA OneMoreRow ==
    ASSUME NEW X, IsFiniteSet(X), NEW Y, NEW l, Y \subseteq X \cup {l}
    PROVE  /\ IsFiniteSet(Y) /\ Cardinality(Y) <= Cardinality(X) + 1
           /\ Cardinality(X) \in Nat /\ Cardinality(Y) \in Nat
           /\ l \notin X /\ Y = X \cup {l} => Cardinality(Y) = Cardinality(X) + 1
<1>1. IsFiniteSet(X \cup {l}) /\ Cardinality(X) \in Nat /\ Cardinality(X \cup {l}) \in Nat
  BY FS_AddElement, FS_CardinalityType
<1>2. Cardinality(X \cup {l}) = Cardinality(X) \/ Cardinality(X \cup {l}) = Cardinality(X) + 1
  BY FS_AddElement
<1>3. IsFiniteSet(Y) /\ Cardinality(Y) <= Cardinality(X \cup {l})
  BY <1>1, FS_Subset
<1>4. Cardinality(Y) \in Nat
  BY <1>3, FS_CardinalityType
<1>5. l \notin X => Cardinality(X \cup {l}) = Cardinality(X) + 1
  BY FS_AddElement
<1> QED BY <1>1, <1>2, <1>3, <1>4, <1>5

(* The last answer of a question, and the first.                           *)
LEMMA LastAnswer ==
    ASSUME NEW S, NEW f \in Seq(S), NEW q
    PROVE  LET places == {i \in DOMAIN f : f[i].q = q /\ ~f[i].error}
           IN /\ B!LastOf(f, q) = 0 <=> places = {}
              /\ B!LastOf(f, q) # 0 => B!LastOf(f, q) \in places
<1> DEFINE places == {i \in DOMAIN f : f[i].q = q /\ ~f[i].error}
<1>1. Len(f) \in Nat /\ DOMAIN f = 1..Len(f)
  BY LenProperties
<1>2. B!LastOf(f, q) = IF places # {} THEN B!Max(places) ELSE 0
  BY <1>1 DEF B!LastOf, B!SelectLastInSeq, B!Resumes
<1>3. places # {} => B!Max(places) \in places
  <2> SUFFICES ASSUME places # {} PROVE B!Max(places) \in places
    OBVIOUS
  <2>1. IsFiniteSet(places) /\ places \subseteq Int
    <3>1. IsFiniteSet(1..Len(f)) /\ places \subseteq 1..Len(f) /\ 1..Len(f) \subseteq Int
      BY <1>1, FS_Interval
    <3> HIDE DEF places
    <3> QED BY <3>1, FS_Subset
  <2> HIDE DEF places
  <2>2. I!Max(places) \in places
    BY <2>1, GreatestNumber
  <2>3. I!Max(places) = B!Max(places)
    BY DEF I!Max, B!Max
  <2> QED BY <2>2, <2>3
<1>4. 0 \notin places
  BY <1>1
<1> QED BY <1>2, <1>3, <1>4

LEMMA FirstAnswer ==
    ASSUME NEW S, NEW f \in Seq(S), NEW q, \E i \in DOMAIN f : f[i].q = q /\ ~f[i].error
    PROVE  LET k == B!SelectInSeq(f, LAMBDA r : r.q = q /\ ~r.error)
           IN k \in DOMAIN f /\ f[k].q = q /\ ~f[k].error
<1> DEFINE places == {i \in 1..Len(f) : f[i].q = q /\ ~f[i].error}
<1>1. Len(f) \in Nat /\ DOMAIN f = 1..Len(f)
  BY LenProperties
<1>2. B!SelectInSeq(f, LAMBDA r : r.q = q /\ ~r.error) = IF places # {} THEN B!Min(places) ELSE 0
  BY <1>1 DEF B!SelectInSeq
<1>3. places # {} /\ places \subseteq Nat
  BY <1>1
<1>4. B!Min(places) \in places
  <2> HIDE DEF places
  <2>1. PICK m \in places : \A i \in places : m <= i
    BY <1>3, LeastNumber
  <2> QED BY <2>1 DEF B!Min
<1> QED BY <1>1, <1>2, <1>3, <1>4

(* What a run resumes from is every answer that is in the file, and what   *)
(* it is scored by is that with the answers to other questions.            *)
LEMMA ResumesFromAnswers ==
    ASSUME NEW S, NEW f \in Seq(S), {r.q : r \in S} \subseteq Questions,
           Single({r \in B!ToSet(f) : ~r.error})
    PROVE  B!Clean(f) = {r \in B!ToSet(f) : ~r.error}
<1> DEFINE C == {r \in B!ToSet(f) : ~r.error}
<1>1. ASSUME NEW q \in Questions, B!LastOf(f, q) # 0 PROVE f[B!LastOf(f, q)] \in C
  BY <1>1, LastAnswer DEF B!ToSet
<1>2. ASSUME NEW r \in C
      PROVE  r.q \in Questions /\ B!LastOf(f, r.q) # 0 /\ f[B!LastOf(f, r.q)] = r
  <2>1. PICK i \in DOMAIN f : r = f[i]
    BY DEF B!ToSet
  <2>2. r \in S
    BY RowsOfSequence
  <2>3. B!LastOf(f, r.q) # 0
    BY <2>1, LastAnswer
  <2>4. f[B!LastOf(f, r.q)] \in C /\ f[B!LastOf(f, r.q)].q = r.q
    BY <2>3, LastAnswer DEF B!ToSet
  <2> QED BY <2>2, <2>3, <2>4 DEF Single
<1> HIDE DEF C
<1>3. B!Clean(f) = C
  BY <1>1, <1>2 DEF B!Clean
<1> QED BY <1>3 DEF C

LEMMA ScoredByAnswers ==
    ASSUME NEW S, answers \in Seq(S), Single(CleanRows)
    PROVE  B!Rows = done \cup {r \in CleanRows : r.q \notin B!Asked(done)}
<1> DEFINE Q == {q \in HasAnswer : q \notin B!Asked(done)}
           First(q) == answers[B!SelectInSeq(answers, LAMBDA r : r.q = q /\ ~r.error)]
<1>1. ASSUME NEW q \in HasAnswer PROVE First(q) \in CleanRows /\ First(q).q = q
  <2>1. \E i \in DOMAIN answers : answers[i].q = q /\ ~answers[i].error
    BY DEF HasAnswer, CleanRows, B!ToSet
  <2> QED BY <2>1, FirstAnswer DEF CleanRows, B!ToSet
<1>2. B!Rows = done \cup {First(q) : q \in Q}
  BY DEF B!Rows, HasAnswer, CleanRows
<1>3. ASSUME NEW r \in CleanRows PROVE r.q \in HasAnswer /\ First(r.q) = r
  <2>1. r.q \in HasAnswer
    BY DEF HasAnswer
  <2> HIDE DEF First
  <2> QED BY <1>1, <2>1 DEF Single
<1> HIDE DEF First
<1> QED BY <1>1, <1>2, <1>3

LEMMA RowsAreRows ==
    /\ \A r \in B!AllRows :
        /\ r.q \in Questions /\ r.error \in BOOLEAN /\ r.label \in BOOLEAN
        /\ r.error => r.model = Pinned
    /\ \A q \in Questions :
        /\ B!Failure(q) \in B!AllRows /\ B!Failure(q).q = q /\ B!Failure(q).error
        /\ \A r \in B!Answers(q) : r \in B!AllRows /\ r.q = q /\ ~r.error
<1>1. ASSUME NEW q \in Questions
      PROVE  /\ B!Failure(q).q = q /\ B!Failure(q).error = TRUE /\ B!Failure(q).label = FALSE
             /\ B!Failure(q).model = Pinned
             /\ \A r \in B!Answers(q) : r.q = q /\ r.error = FALSE /\ r.label \in BOOLEAN
  BY DEF B!Answers, B!Failure
<1>2. \A r \in B!AllRows : \E q \in Questions : r \in B!Answers(q) \/ r = B!Failure(q)
  BY DEF B!AllRows
<1>3. \A q \in Questions : B!Failure(q) \in B!AllRows /\ B!Answers(q) \subseteq B!AllRows
  BY DEF B!AllRows
<1>4. ASSUME NEW r \in B!AllRows
      PROVE  /\ r.q \in Questions /\ r.error \in BOOLEAN /\ r.label \in BOOLEAN
             /\ r.error => r.model = Pinned
  <2>1. PICK q \in Questions : r \in B!Answers(q) \/ r = B!Failure(q)
    BY <1>2
  <2>2. r.q = q /\ r.error \in BOOLEAN /\ r.label \in BOOLEAN
    BY <1>1, <2>1
  <2> QED BY <1>1, <2>1, <2>2
<1>5. \A q \in Questions : \A r \in B!Answers(q) : r \in B!AllRows /\ r.q = q /\ ~r.error
  BY <1>1, <1>3
<1>6. \A q \in Questions : B!Failure(q) \in B!AllRows /\ B!Failure(q).q = q /\ B!Failure(q).error
  BY <1>1, <1>3
<1> QED BY <1>4, <1>5, <1>6

LEMMA FileIsRows ==
    ASSUME B!TypeOK
    PROVE  /\ IsFiniteSet(CleanRows) /\ Cardinality(CleanRows) \in Nat
           /\ CleanRows \subseteq B!AllRows /\ HasAnswer \subseteq Questions
           /\ IsFiniteSet(B!ToSet(answers)) /\ B!ToSet(answers) \subseteq B!AllRows
           /\ Len(said) \in Nat /\ kills \in Nat /\ Weight \in 0..2
<1>1. IsFiniteSet(B!ToSet(answers)) /\ B!ToSet(answers) \subseteq B!AllRows /\ Len(said) \in Nat
  BY RowsOfSequence DEF B!TypeOK
<1>2. CleanRows \subseteq B!ToSet(answers)
  BY DEF CleanRows
<1>3. IsFiniteSet(CleanRows) /\ Cardinality(CleanRows) \in Nat
  BY <1>1, <1>2, FS_Subset, FS_CardinalityType
<1>4. HasAnswer \subseteq Questions
  BY <1>1, <1>2, RowsAreRows DEF HasAnswer
<1>5. kills \in Nat /\ Weight \in 0..2
  BY DEF B!TypeOK, Weight
<1> QED BY <1>1, <1>2, <1>3, <1>4, <1>5

LEMMA InitRun == ASSUME B!BenchmarkAssumption, B!Init PROVE RunInv
<1>1. /\ answers = <<>> /\ said = <<>> /\ end = "whole" /\ kills = 0 /\ runs = 0
      /\ phase = "idle" /\ scope = {} /\ done = {} /\ todo = {} /\ busy = {} /\ over = {}
      /\ asked = {} /\ fresh = {} /\ left = {} /\ ~scored /\ score = NoSummary
  BY DEF B!Init
<1>2. answers \in Seq(B!AllRows) /\ said \in Seq(B!AllRows) /\ Len(said) = 0 /\ DOMAIN said = {}
      /\ B!ToSet(answers) = {} /\ B!ToSet(said) = {}
  <2>1. DOMAIN <<>> = {}
    OBVIOUS
  <2> QED BY <1>1, <2>1, EmptySeq DEF B!ToSet
<1>3. CleanRows = {} /\ HasAnswer = {} /\ Cardinality(CleanRows) = 0
  <2>1. CleanRows = {} /\ HasAnswer = {}
    BY <1>2 DEF CleanRows, HasAnswer
  <2> QED BY <2>1, FS_EmptySet
<1>4. B!TypeOK
  <2>1. 0 \in 0..MaxRuns /\ 0 \in 0..MaxKills
    BY DEF B!BenchmarkAssumption
  <2>2. phase \in {"idle", "asking", "aborting"} /\ end \in {"whole", "torn", "open"}
        /\ scored \in BOOLEAN
    BY <1>1 DEF B!Init
  <2> QED BY <1>1, <1>2, <2>1, <2>2 DEF B!TypeOK
<1>5. Weight = 0
  BY <1>1 DEF Weight
<1> QED BY <1>1, <1>2, <1>3, <1>4, <1>5
        DEF RunInv, RunIsIdle, AskedAreOpen, AnswersWereSaid, Single, LostIsBounded, NothingIsLost,
            ScopeIsAsked, FreshArePinned, ScoreStands

LEMMA RunLaunches == ASSUME B!BenchmarkAssumption, RunInv, B!Launch PROVE RunInv'
<1>1. /\ phase = "idle" /\ phase' = "asking" /\ done' = B!Clean(answers)
      /\ runs < MaxRuns /\ runs' = runs + 1
      /\ asked' = {} /\ fresh' = {} /\ scored' = FALSE
      /\ UNCHANGED <<busy, over, answers, end, score, kills, said>>
  BY DEF B!Launch
<1>2. PICK S \in Scopes : \E some \in SUBSET S :
        /\ some \subseteq S \ B!Asked(B!Clean(answers))
        /\ scope' = S /\ todo' = some
        /\ left' = (S \ B!Asked(B!Clean(answers))) \ some
  BY DEF B!Launch, B!Counted
<1>3. /\ done' = CleanRows /\ S \subseteq Questions /\ B!Asked(done)' = HasAnswer
      /\ scope' = S /\ todo' \subseteq S \ HasAnswer /\ left' = (S \ HasAnswer) \ todo'
  <2>1. {r.q : r \in B!AllRows} \subseteq Questions /\ answers \in Seq(B!AllRows)
        /\ Single({r \in B!ToSet(answers) : ~r.error})
    BY RowsAreRows DEF RunInv, B!TypeOK, AnswersWereSaid, CleanRows
  <2>2. B!Clean(answers) = CleanRows
    BY <2>1, ResumesFromAnswers DEF CleanRows
  <2> QED BY <1>1, <1>2, <2>2 DEF B!Asked, HasAnswer, B!BenchmarkAssumption
<1>4. CleanRows' = CleanRows /\ HasAnswer' = HasAnswer /\ Weight' = Weight
      /\ B!ToSet(said)' = B!ToSet(said)
  BY <1>1 DEF CleanRows, HasAnswer, Weight
<1>5. B!TypeOK'
  <2>1. CleanRows \subseteq B!AllRows
    BY FileIsRows DEF RunInv
  <2>2. runs' \in 0..MaxRuns
    BY <1>1 DEF RunInv, B!TypeOK, B!BenchmarkAssumption
  <2> QED BY <1>1, <1>2, <1>3, <2>1, <2>2 DEF RunInv, B!TypeOK
<1>6. busy' = {} /\ RunIsIdle' /\ AskedAreOpen'
  BY <1>1, <1>3, <1>4 DEF RunInv, RunIsIdle, AskedAreOpen
<1>7. AnswersWereSaid' /\ LostIsBounded'
  BY <1>1, <1>3, <1>4 DEF RunInv, AnswersWereSaid, LostIsBounded
<1>8. NothingIsLost' /\ FreshArePinned' /\ ScoreStands'
  BY <1>1, <1>3, <1>4 DEF RunInv, NothingIsLost, FreshArePinned, ScoreStands
<1>9. ScopeIsAsked'
  BY <1>3 DEF ScopeIsAsked
<1> QED BY <1>5, <1>6, <1>7, <1>8, <1>9 DEF RunInv

LEMMA RunAsks == ASSUME B!BenchmarkAssumption, RunInv, NEW q \in Questions, B!Ask(q) PROVE RunInv'
<1>1. /\ q \in todo /\ todo' = todo \ {q} /\ busy' = busy \cup {q} /\ asked' = asked \cup {q}
      /\ UNCHANGED <<phase, scope, done, over, answers, end, score, runs, kills, said, fresh, scored,
                   left>>
  BY DEF B!Ask
<1>2. CleanRows' = CleanRows /\ HasAnswer' = HasAnswer /\ Weight' = Weight
      /\ B!ToSet(said)' = B!ToSet(said) /\ B!Failed(answers)' = B!Failed(answers)
  BY <1>1 DEF CleanRows, HasAnswer, Weight
<1>3. B!TypeOK'
  BY <1>1 DEF RunInv, B!TypeOK
<1>4. phase # "idle" /\ RunIsIdle' /\ AskedAreOpen'
  BY <1>1, <1>2 DEF RunInv, RunIsIdle, AskedAreOpen
<1>5. AnswersWereSaid' /\ LostIsBounded'
  BY <1>1, <1>2 DEF RunInv, AnswersWereSaid, LostIsBounded
<1>6. NothingIsLost' /\ FreshArePinned'
  BY <1>1, <1>2 DEF RunInv, NothingIsLost, FreshArePinned
<1>7. ScopeIsAsked' /\ ScoreStands'
  BY <1>1, <1>4 DEF RunInv, ScopeIsAsked, B!Asked, ScoreStands
<1> QED BY <1>3, <1>4, <1>5, <1>6, <1>7 DEF RunInv

LEMMA RunLooks == ASSUME B!BenchmarkAssumption, RunInv, B!Look PROVE RunInv'
<1>1. PICK r \in over :
        /\ over' = over \ {r}
        /\ phase' = IF B!Substituted(r) THEN "aborting" ELSE phase
  BY DEF B!Look
<1>2. /\ phase = "asking" /\ phase' \in {"asking", "aborting"}
      /\ UNCHANGED <<scope, done, todo, busy, answers, end, score, runs, kills, said, asked, fresh, scored,
                   left>>
  BY <1>1 DEF B!Look
<1>3. CleanRows' = CleanRows /\ HasAnswer' = HasAnswer /\ Weight' = Weight
      /\ B!ToSet(said)' = B!ToSet(said) /\ B!Failed(answers)' = B!Failed(answers)
  BY <1>2 DEF CleanRows, HasAnswer, Weight
<1>4. B!TypeOK'
  BY <1>1, <1>2 DEF RunInv, B!TypeOK
<1>5. RunIsIdle' /\ AskedAreOpen' /\ AnswersWereSaid' /\ LostIsBounded' /\ NothingIsLost'
  BY <1>2, <1>3 DEF RunInv, RunIsIdle, AskedAreOpen, AnswersWereSaid, LostIsBounded, NothingIsLost
<1>6. ScopeIsAsked' /\ ScoreStands'
  BY <1>2 DEF RunInv, ScopeIsAsked, B!Asked, ScoreStands
<1>7. FreshArePinned'
  <2>1. r \in B!AllRows
    BY DEF RunInv, B!TypeOK
  <2>2. phase' = "asking" => r.model = Pinned
    BY <1>1, <2>1, RowsAreRows DEF B!Substituted
  <2> QED BY <1>1, <1>2, <2>2 DEF RunInv, FreshArePinned
<1> QED BY <1>4, <1>5, <1>6, <1>7 DEF RunInv

(* What becomes of the answers in the file when a row is written, and when *)
(* the last line is spoilt.                                                *)
LEMMA RowIsWritten ==
    ASSUME B!TypeOK, NEW r \in B!AllRows, answers' = Append(answers, r)
    PROVE  /\ answers' \in Seq(B!AllRows) /\ B!ToSet(answers)' = B!ToSet(answers) \cup {r}
           /\ CleanRows' = IF r.error THEN CleanRows ELSE CleanRows \cup {r}
           /\ ~r.error /\ r.q \notin HasAnswer =>
                Cardinality(CleanRows') = Cardinality(CleanRows) + 1
<1>1. answers' \in Seq(B!AllRows) /\ B!ToSet(answers)' = B!ToSet(answers) \cup {r}
  BY RowIsAppended DEF B!TypeOK
<1>2. CleanRows' = IF r.error THEN CleanRows ELSE CleanRows \cup {r}
  BY <1>1 DEF CleanRows
<1>3. r.q \notin HasAnswer => r \notin CleanRows
  BY DEF HasAnswer
<1>4. IsFiniteSet(CleanRows)
  BY FileIsRows
<1> QED BY <1>1, <1>2, <1>3, <1>4, OneMoreRow

LEMMA LineIsSpoilt ==
    ASSUME B!TypeOK, answers' = B!Front(answers)
    PROVE  /\ answers' \in Seq(B!AllRows) /\ CleanRows' \subseteq CleanRows
           /\ Cardinality(CleanRows') \in Nat
           /\ Cardinality(CleanRows) <= Cardinality(CleanRows') + 1
<1>1. /\ answers' \in Seq(B!AllRows) /\ B!ToSet(answers)' \subseteq B!ToSet(answers)
      /\ \E l : B!ToSet(answers) \subseteq B!ToSet(answers)' \cup {l}
  BY RowIsCut DEF B!TypeOK
<1>2. PICK l : B!ToSet(answers) \subseteq B!ToSet(answers)' \cup {l}
  BY <1>1
<1>3. CleanRows' \subseteq CleanRows /\ CleanRows \subseteq CleanRows' \cup {l}
  BY <1>1, <1>2 DEF CleanRows
<1>4. IsFiniteSet(CleanRows')
  BY <1>3, FileIsRows, FS_Subset
<1> QED BY <1>1, <1>3, <1>4, OneMoreRow

LEMMA AnswerIsSaid ==
    ASSUME B!TypeOK, NEW r \in B!AllRows, said' = Append(said, r)
    PROVE  /\ said' \in Seq(B!AllRows) /\ Len(said') = Len(said) + 1 /\ Len(said) \in Nat
           /\ B!ToSet(said)' = B!ToSet(said) \cup {r}
           /\ DOMAIN said' = DOMAIN said \cup {Len(said) + 1} /\ said'[Len(said) + 1] = r
           /\ \A i \in DOMAIN said : said'[i] = said[i]
BY RowIsAppended, RowsOfSequence DEF B!TypeOK

(* The file takes the row of a question that is over.                      *)
TakesRow(r) ==
    answers' = CASE end = "whole" -> Append(answers, r)
                 [] end = "torn" -> answers
                 [] end = "open" -> B!Front(answers)

LEMMA FileTakesRow ==
    ASSUME B!TypeOK, NEW r \in B!AllRows, r.q \notin HasAnswer, TakesRow(r)
    PROVE  /\ answers' \in Seq(B!AllRows) /\ CleanRows' \subseteq CleanRows \cup {r}
           /\ r.error => CleanRows' \subseteq CleanRows
           /\ end = "whole" =>
                /\ B!ToSet(answers)' = B!ToSet(answers) \cup {r}
                /\ CleanRows' = IF r.error THEN CleanRows ELSE CleanRows \cup {r}
           /\ Cardinality(CleanRows') \in Nat
           /\ Cardinality(CleanRows) + (IF r.error THEN 0 ELSE 1) <= Cardinality(CleanRows') + Weight
<1>0. Cardinality(CleanRows) \in Nat
  BY FileIsRows
<1>1. CASE end = "whole"
  <2>1. answers' = Append(answers, r) /\ Weight = 0
    BY <1>1 DEF TakesRow, Weight
  <2>2. /\ answers' \in Seq(B!AllRows) /\ B!ToSet(answers)' = B!ToSet(answers) \cup {r}
        /\ CleanRows' = IF r.error THEN CleanRows ELSE CleanRows \cup {r}
        /\ ~r.error => Cardinality(CleanRows') = Cardinality(CleanRows) + 1
    BY <2>1, RowIsWritten
  <2> QED BY <1>0, <2>1, <2>2
<1>2. CASE end = "torn"
  <2>1. answers' = answers /\ Weight = 1 /\ CleanRows' = CleanRows
    BY <1>2 DEF TakesRow, Weight, CleanRows
  <2> QED BY <1>0, <1>2, <2>1 DEF B!TypeOK
<1>3. CASE end = "open"
  <2>1. answers' = B!Front(answers) /\ Weight = 2
    BY <1>3 DEF TakesRow, Weight
  <2> QED BY <1>0, <1>3, <2>1, LineIsSpoilt
<1> QED BY <1>1, <1>2, <1>3 DEF B!TypeOK

LEMMA RunReplies == ASSUME B!BenchmarkAssumption, RunInv, NEW q \in Questions, B!Reply(q) PROVE RunInv'
<1>1. /\ q \in busy /\ busy' = busy \ {q} /\ end' = "whole"
      /\ UNCHANGED <<phase, scope, done, todo, score, runs, kills, asked, scored, left>>
  BY DEF B!Reply
<1>2. PICK r \in B!Answers(q) \cup {B!Failure(q)} :
        /\ over' = over \cup {r} /\ B!Noted(r)
        /\ answers' = CASE end = "whole" -> Append(answers, r)
                        [] end = "torn" -> answers
                        [] end = "open" -> B!Front(answers)
  BY DEF B!Reply
<1>3. r \in B!AllRows /\ r.q = q /\ r.error \in BOOLEAN
  BY RowsAreRows
<1>4. /\ r.error => UNCHANGED <<said, fresh>>
      /\ ~r.error => said' = Append(said, r) /\ fresh' = fresh \cup {r}
  BY <1>2 DEF B!Noted
<1>5. q \notin HasAnswer /\ q \notin todo
  BY <1>1 DEF RunInv, AskedAreOpen
<1>6. TakesRow(r)
  BY <1>2 DEF TakesRow
<1>7. /\ answers' \in Seq(B!AllRows) /\ CleanRows' \subseteq CleanRows \cup {r}
      /\ r.error => CleanRows' \subseteq CleanRows
      /\ end = "whole" =>
            /\ B!ToSet(answers)' = B!ToSet(answers) \cup {r}
            /\ CleanRows' = IF r.error THEN CleanRows ELSE CleanRows \cup {r}
      /\ Cardinality(CleanRows') \in Nat
      /\ Cardinality(CleanRows) + (IF r.error THEN 0 ELSE 1) <= Cardinality(CleanRows') + Weight
  BY <1>3, <1>5, <1>6, FileTakesRow DEF RunInv
<1>8. HasAnswer' \subseteq HasAnswer \cup {q}
  BY <1>3, <1>7 DEF HasAnswer
<1>9. ~r.error =>
        /\ said' \in Seq(B!AllRows) /\ Len(said') = Len(said) + 1
        /\ B!ToSet(said)' = B!ToSet(said) \cup {r}
        /\ DOMAIN said' = DOMAIN said \cup {Len(said) + 1} /\ said'[Len(said) + 1] = r
        /\ \A i \in DOMAIN said : said'[i] = said[i]
  BY <1>3, <1>4, AnswerIsSaid DEF RunInv
<1>10. B!TypeOK'
  <2>1. (done' \cup over' \cup fresh') \subseteq B!AllRows /\ (todo' \cup busy' \cup asked' \cup left') \subseteq Questions
    BY <1>1, <1>2, <1>3, <1>4 DEF RunInv, B!TypeOK
  <2>2. said' \in Seq(B!AllRows)
    BY <1>4, <1>9 DEF RunInv, B!TypeOK
  <2> QED BY <1>1, <1>7, <2>1, <2>2 DEF RunInv, B!TypeOK
<1>11. phase # "idle" /\ RunIsIdle' /\ AskedAreOpen'
  BY <1>1, <1>5, <1>8 DEF RunInv, RunIsIdle, AskedAreOpen
<1>12. AnswersWereSaid'
  <2>1. Single(CleanRows')
    BY <1>3, <1>5, <1>7 DEF RunInv, AnswersWereSaid, Single, HasAnswer
  <2>2. CleanRows' \subseteq B!ToSet(said)' /\ done' \subseteq B!ToSet(said)'
        /\ \A i \in DOMAIN said' : ~said'[i].error
    <3>1. CASE r.error
      <4>1. said' = said
        BY <1>4, <3>1
      <4> QED BY <1>1, <1>7, <3>1, <4>1 DEF RunInv, AnswersWereSaid, B!ToSet
    <3>2. CASE ~r.error
      BY <1>1, <1>7, <1>9, <3>2 DEF RunInv, AnswersWereSaid
    <3> QED BY <3>1, <3>2
  <2> QED BY <1>1, <2>1, <2>2 DEF RunInv, AnswersWereSaid
<1>13. LostIsBounded'
  <2>1. Len(said') = Len(said) + (IF r.error THEN 0 ELSE 1) /\ Weight' = 0 /\ kills' = kills
    BY <1>1, <1>4, <1>9, FileIsRows DEF Weight, RunInv
  <2>2. Cardinality(CleanRows) \in Nat /\ Len(said) \in Nat /\ kills \in Nat /\ Weight \in 0..2
    BY FileIsRows DEF RunInv
  <2> QED BY <1>7, <2>1, <2>2 DEF RunInv, LostIsBounded
<1>14. NothingIsLost'
  <2> SUFFICES ASSUME kills = 0 PROVE NothingIsLost'
    BY <1>1 DEF NothingIsLost
  <2>1. /\ end = "whole" /\ B!ToSet(said) = CleanRows /\ done \subseteq CleanRows
        /\ \A i, j \in DOMAIN said : said[i].q = said[j].q => i = j
        /\ asked \subseteq busy \cup HasAnswer \cup B!Failed(answers)
    BY DEF RunInv, NothingIsLost
  <2>2. \A i \in DOMAIN said : said[i].q # q
    BY <1>5, <2>1 DEF B!ToSet, HasAnswer
  <2>3. CASE r.error
    <3>1. CleanRows' = CleanRows /\ said' = said /\ B!ToSet(said)' = B!ToSet(said)
      BY <1>4, <1>7, <2>1, <2>3 DEF B!ToSet
    <3>2. HasAnswer' = HasAnswer /\ B!Failed(answers)' = B!Failed(answers) \cup {q}
      BY <1>3, <1>7, <2>1, <2>3, <3>1 DEF HasAnswer, B!Failed
    <3> QED BY <1>1, <2>1, <3>1, <3>2 DEF NothingIsLost
  <2>4. CASE ~r.error
    <3>1. HasAnswer' = HasAnswer \cup {q} /\ B!Failed(answers)' = B!Failed(answers)
      BY <1>3, <1>7, <2>1, <2>4 DEF HasAnswer, B!Failed
    <3>2. \A i, j \in DOMAIN said' : said'[i].q = said'[j].q => i = j
      BY <1>3, <1>9, <2>1, <2>2, <2>4
    <3> QED BY <1>1, <1>7, <1>9, <2>1, <2>4, <3>1, <3>2 DEF NothingIsLost
  <2> QED BY <2>3, <2>4
<1>15. ScopeIsAsked' /\ ScoreStands'
  BY <1>1, <1>11 DEF RunInv, ScopeIsAsked, B!Asked, ScoreStands
<1>16. FreshArePinned'
  BY <1>1, <1>2, <1>4 DEF RunInv, FreshArePinned
<1> QED BY <1>10, <1>11, <1>12, <1>13, <1>14, <1>15, <1>16 DEF RunInv

(* Who stops asking knows nothing of a run any more; of the file and what  *)
(* was said this is left.                                                  *)
LEMMA RunEnds ==
    ASSUME RunInv, B!Idle, ~scored, scored' = scored,
           answers' \in Seq(B!AllRows), said' \in Seq(B!AllRows),
           end' \in {"whole", "torn", "open"}, runs' = runs, score' = score, left' = left,
           kills' \in 0..MaxKills, kills' = 0 => kills = 0 /\ UNCHANGED <<answers, end, said>>,
           CleanRows' \subseteq B!ToSet(said'), Single(CleanRows'),
           \A i \in DOMAIN said' : ~said'[i].error, LostIsBounded'
    PROVE  RunInv'
<1>1. /\ phase' = "idle" /\ scope' = {} /\ done' = {} /\ todo' = {} /\ busy' = {} /\ over' = {}
      /\ asked' = {} /\ fresh' = {}
  BY DEF B!Idle
<1>2. B!TypeOK'
  BY <1>1 DEF RunInv, B!TypeOK
<1>3. RunIsIdle' /\ AskedAreOpen' /\ ScopeIsAsked' /\ FreshArePinned' /\ ScoreStands'
  BY <1>1 DEF RunIsIdle, AskedAreOpen, ScopeIsAsked, FreshArePinned, ScoreStands
<1>4. AnswersWereSaid'
  BY <1>1 DEF AnswersWereSaid, Single, B!ToSet
<1>5. NothingIsLost'
  <2> SUFFICES ASSUME kills' = 0 PROVE NothingIsLost'
    BY DEF NothingIsLost
  <2>1. CleanRows' = CleanRows /\ B!ToSet(said)' = B!ToSet(said) /\ end' = end /\ said' = said
    BY DEF CleanRows
  <2> QED BY <1>1, <2>1 DEF RunInv, NothingIsLost
<1> QED BY <1>2, <1>3, <1>4, <1>5 DEF RunInv

LEMMA RunAborts == ASSUME B!BenchmarkAssumption, RunInv, B!Abort PROVE RunInv'
<1>1. /\ phase = "aborting" /\ B!Idle
      /\ UNCHANGED <<answers, end, score, runs, kills, said, scored, left>>
  BY DEF B!Abort
<1>2. CleanRows' = CleanRows /\ Weight' = Weight /\ B!ToSet(said)' = B!ToSet(said)
  BY <1>1 DEF CleanRows, Weight, B!ToSet
<1>3. ~scored
  BY <1>1 DEF RunInv, ScoreStands
<1>4. CleanRows' \subseteq B!ToSet(said') /\ Single(CleanRows') /\ LostIsBounded'
      /\ \A i \in DOMAIN said' : ~said'[i].error
  BY <1>1, <1>2 DEF RunInv, AnswersWereSaid, LostIsBounded
<1>5. /\ answers' \in Seq(B!AllRows) /\ said' \in Seq(B!AllRows)
      /\ end' \in {"whole", "torn", "open"} /\ kills' \in 0..MaxKills
  BY <1>1 DEF RunInv, B!TypeOK
<1> QED BY <1>1, <1>3, <1>4, <1>5, RunEnds

LEMMA RunIsKilled == ASSUME B!BenchmarkAssumption, RunInv, B!Kill PROVE RunInv'
<1>1. /\ phase # "idle" /\ kills < MaxKills /\ kills' = kills + 1 /\ B!Idle
      /\ UNCHANGED <<score, runs, scored, left>>
  BY DEF B!Kill
<1>2. kills' \in 0..MaxKills /\ kills' # 0 /\ ~scored /\ kills \in Nat
  BY <1>1, FileIsRows DEF RunInv, B!TypeOK, B!BenchmarkAssumption, ScoreStands
<1>3. Cardinality(CleanRows) \in Nat /\ Len(said) \in Nat /\ Weight \in 0..2
      /\ Len(said) - Cardinality(CleanRows) <= 2 * kills - Weight
  BY FileIsRows DEF RunInv, LostIsBounded
<1>4. /\ Single(CleanRows) /\ CleanRows \subseteq B!ToSet(said)
      /\ \A i \in DOMAIN said : ~said[i].error
      /\ answers \in Seq(B!AllRows) /\ said \in Seq(B!AllRows) /\ end \in {"whole", "torn", "open"}
  BY DEF RunInv, AnswersWereSaid, B!TypeOK
<1>5. CASE UNCHANGED <<answers, end, said>>
  <2>1. CleanRows' = CleanRows /\ Weight' = Weight /\ B!ToSet(said)' = B!ToSet(said)
    BY <1>5 DEF CleanRows, Weight, B!ToSet
  <2>2. LostIsBounded'
    BY <1>1, <1>2, <1>3, <1>5, <2>1 DEF LostIsBounded
  <2> QED BY <1>1, <1>2, <1>4, <1>5, <2>1, <2>2, RunEnds
<1>6. ASSUME NEW q \in busy, NEW r \in B!Answers(q), said' = Append(said, r),
             \/ end' = "torn" /\ answers' = IF end = "open" THEN B!Front(answers) ELSE answers
             \/ end = "whole" /\ end' = "open" /\ answers' = Append(answers, r)
      PROVE  RunInv'
  <2>1. r \in B!AllRows /\ r.q = q /\ ~r.error /\ q \notin HasAnswer
    BY RowsAreRows DEF RunInv, B!TypeOK, AskedAreOpen
  <2>2. /\ said' \in Seq(B!AllRows) /\ Len(said') = Len(said) + 1
        /\ B!ToSet(said)' = B!ToSet(said) \cup {r}
        /\ \A i \in DOMAIN said' : ~said'[i].error
    <3>1. /\ said' \in Seq(B!AllRows) /\ Len(said') = Len(said) + 1
          /\ B!ToSet(said)' = B!ToSet(said) \cup {r}
          /\ DOMAIN said' = DOMAIN said \cup {Len(said) + 1} /\ said'[Len(said) + 1] = r
          /\ \A i \in DOMAIN said : said'[i] = said[i]
      BY <1>6, <2>1, AnswerIsSaid DEF RunInv
    <3> QED BY <1>4, <2>1, <3>1
  <2>3. /\ answers' \in Seq(B!AllRows) /\ CleanRows' \subseteq CleanRows \cup {r}
        /\ Cardinality(CleanRows') \in Nat /\ end' \in {"whole", "torn", "open"}
        /\ 1 + Weight' + Cardinality(CleanRows) <= 2 + Weight + Cardinality(CleanRows')
    <3>1. CASE end = "whole" /\ end' = "open" /\ answers' = Append(answers, r)
      <4>1. /\ answers' \in Seq(B!AllRows) /\ CleanRows' = CleanRows \cup {r}
            /\ Cardinality(CleanRows') = Cardinality(CleanRows) + 1
        BY <2>1, <3>1, RowIsWritten DEF RunInv
      <4>2. Weight = 0 /\ Weight' = 2
        BY <3>1 DEF Weight
      <4> QED BY <1>3, <3>1, <4>1, <4>2
    <3>2. CASE end' = "torn" /\ answers' = IF end = "open" THEN B!Front(answers) ELSE answers
      <4>1. Weight' = 1
        BY <3>2 DEF Weight
      <4>2. CASE end = "open"
        <5>1. /\ answers' \in Seq(B!AllRows) /\ CleanRows' \subseteq CleanRows
              /\ Cardinality(CleanRows') \in Nat
              /\ Cardinality(CleanRows) <= Cardinality(CleanRows') + 1
          BY <3>2, <4>2, LineIsSpoilt DEF RunInv
        <5>2. Weight = 2
          BY <4>2 DEF Weight
        <5> QED BY <1>3, <3>2, <4>1, <5>1, <5>2
      <4>3. CASE end # "open"
        <5>1. answers' = answers /\ CleanRows' = CleanRows
          BY <3>2, <4>3 DEF CleanRows
        <5> QED BY <1>3, <1>4, <3>2, <4>1, <5>1
      <4> QED BY <4>2, <4>3
    <3> QED BY <1>6, <3>1, <3>2
  <2>4. LostIsBounded'
    <3>1. Weight' \in 0..2
      BY <2>3 DEF Weight
    <3> QED BY <1>1, <1>2, <1>3, <2>2, <2>3, <3>1 DEF LostIsBounded
  <2>5. CleanRows' \subseteq B!ToSet(said') /\ Single(CleanRows')
    <3>1. CleanRows' \subseteq B!ToSet(said')
      BY <1>4, <2>2, <2>3
    <3>2. \A s \in CleanRows : s.q # r.q
      BY <2>1 DEF HasAnswer
    <3> QED BY <1>4, <2>3, <3>1, <3>2 DEF Single
  <2> QED BY <1>1, <1>2, <2>2, <2>3, <2>4, <2>5, RunEnds
<1> QED BY <1>5, <1>6 DEF B!Kill

(* Rows of different questions are as many as their questions.             *)
LEMMA SingleRowsCount ==
    ASSUME NEW R, IsFiniteSet(R), Single(R)
    PROVE  IsFiniteSet(B!Asked(R)) /\ Cardinality(B!Asked(R)) = Cardinality(R)
<1> DEFINE f == [r \in R |-> r.q]
<1>1. f \in Bijection(R, B!Asked(R))
  <2>1. f \in [R -> B!Asked(R)] /\ \A r \in R : f[r] = r.q
    BY DEF B!Asked
  <2>2. \A q \in B!Asked(R) : \E r \in R : q = r.q
    BY DEF B!Asked
  <2> HIDE DEF f
  <2>3. f \in Injection(R, B!Asked(R))
    BY <2>1 DEF Injection, IsInjective, Single
  <2>4. f \in Surjection(R, B!Asked(R))
    BY <2>1, <2>2 DEF Surjection
  <2> QED BY <2>3, <2>4 DEF Bijection
<1>2. ExistsBijection(R, B!Asked(R))
  BY <1>1 DEF ExistsBijection
<1> QED BY <1>2, FS_Bijection

LEMMA AnsweredWereSaid ==
    ASSUME B!TypeOK
    PROVE  /\ IsFiniteSet(B!Answered) /\ Cardinality(B!Answered) \in Nat
           /\ Cardinality(B!Answered) <= Len(said)
           /\ B!Answered = B!Asked(B!ToSet(said))
<1>1. /\ Len(said) \in Nat /\ DOMAIN said = 1..Len(said)
      /\ IsFiniteSet(B!ToSet(said)) /\ Cardinality(B!ToSet(said)) <= Len(said)
  BY RowsOfSequence DEF B!TypeOK
<1>2. B!Answered = B!Asked(B!ToSet(said))
  BY DEF B!Answered, B!Asked, B!ToSet
<1> DEFINE f == [r \in B!ToSet(said) |-> r.q]
<1>3. f \in Surjection(B!ToSet(said), B!Answered)
  BY <1>2 DEF Surjection, B!Asked
<1>4. IsFiniteSet(B!Answered) /\ Cardinality(B!Answered) <= Cardinality(B!ToSet(said))
  BY <1>1, <1>3, FS_Surjection
<1>5. Cardinality(B!Answered) \in Nat /\ Cardinality(B!ToSet(said)) \in Nat
  BY <1>1, <1>4, FS_CardinalityType
<1> QED BY <1>1, <1>2, <1>4, <1>5

(* The rows that a run is scored by.                                       *)
LEMMA ScoredRows ==
    ASSUME RunInv
    PROVE  LET R == B!Rows IN
           /\ {r \in R : ~r.error} = R
           /\ R = done \cup {r \in CleanRows : r.q \notin B!Asked(done)}
           /\ IsFiniteSet(R) /\ Single(R) /\ R \subseteq B!ToSet(said)
           /\ HasAnswer \subseteq B!Asked(R) /\ B!Asked(done) \subseteq B!Asked(R)
<1> DEFINE R == B!Rows
<1>1. R = done \cup {r \in CleanRows : r.q \notin B!Asked(done)}
  BY ScoredByAnswers DEF RunInv, B!TypeOK, AnswersWereSaid
<1>2. R \subseteq B!ToSet(said)
  BY <1>1 DEF RunInv, AnswersWereSaid
<1>3. IsFiniteSet(B!ToSet(said))
  BY RowsOfSequence DEF RunInv, B!TypeOK
<1>4. Single(R)
  BY <1>1 DEF RunInv, AnswersWereSaid, Single, B!Asked
<1>5. \A r \in R : ~r.error
  BY <1>2 DEF RunInv, AnswersWereSaid, B!ToSet
<1>6. HasAnswer \subseteq B!Asked(R) /\ B!Asked(done) \subseteq B!Asked(R)
  <2>1. \A r \in CleanRows : r.q \in B!Asked(done) \/ r \in R
    BY <1>1
  <2>2. B!Asked(done) \subseteq B!Asked(R)
    BY <1>1 DEF B!Asked
  <2> HIDE DEF R
  <2> QED BY <2>1, <2>2 DEF HasAnswer, B!Asked
<1> HIDE DEF R
<1>7. IsFiniteSet(R)
  BY <1>2, <1>3, FS_Subset
<1>8. {r \in R : ~r.error} = R
  BY <1>5
<1> QED BY <1>1, <1>2, <1>4, <1>6, <1>7, <1>8 DEF R

(* A run that is never killed is scored by every answer, once.             *)
LEMMA UnkilledRows ==
    ASSUME RunInv, kills = 0
    PROVE  /\ B!Rows = B!ToSet(said)
           /\ Cardinality({r \in B!Rows : r.label}) = Cardinality({i \in DOMAIN said : said[i].label})
<1>1. B!ToSet(said) = CleanRows /\ done \subseteq CleanRows /\ Single(CleanRows)
      /\ \A i, j \in DOMAIN said : said[i].q = said[j].q => i = j
  BY DEF RunInv, NothingIsLost, AnswersWereSaid
<1>2. B!Rows = B!ToSet(said)
  <2>1. B!Rows = done \cup {r \in CleanRows : r.q \notin B!Asked(done)}
    BY ScoredRows
  <2>2. \A r \in CleanRows : r.q \in B!Asked(done) => r \in done
    BY <1>1 DEF Single, B!Asked
  <2> QED BY <1>1, <2>1, <2>2
<1> DEFINE rights == {i \in DOMAIN said : said[i].label}
           rightRows == {r \in B!Rows : r.label}
           f == [i \in rights |-> said[i]]
<1>3. f \in Bijection(rights, rightRows)
  <2>1. \A i \in rights : said[i] \in rightRows
    BY <1>2 DEF B!ToSet
  <2>2. \A r \in rightRows : \E i \in rights : said[i] = r
    BY <1>2 DEF B!ToSet
  <2>3. \A i, j \in rights : said[i] = said[j] => i = j
    BY <1>1
  <2> HIDE DEF rights, rightRows
  <2>4. f \in [rights -> rightRows] /\ \A i \in rights : f[i] = said[i]
    BY <2>1
  <2> HIDE DEF f
  <2>5. f \in Injection(rights, rightRows)
    BY <2>3, <2>4 DEF Injection, IsInjective
  <2>6. f \in Surjection(rights, rightRows)
    BY <2>2, <2>4 DEF Surjection
  <2> QED BY <2>5, <2>6 DEF Bijection
<1>4. IsFiniteSet(rights)
  <2>1. IsFiniteSet(DOMAIN said)
    BY RowsOfSequence, FS_Interval DEF RunInv, B!TypeOK
  <2>2. rights \subseteq DOMAIN said
    OBVIOUS
  <2> HIDE DEF rights
  <2> QED BY <2>1, <2>2, FS_Subset
<1>5. ExistsBijection(rights, rightRows)
  BY <1>3 DEF ExistsBijection
<1>6. Cardinality(rights) = Cardinality(rightRows)
  <2> HIDE DEF rights, rightRows
  <2> QED BY <1>4, <1>5, FS_Bijection
<1> QED BY <1>2, <1>6

LEMMA ScoreIsRight ==
    ASSUME B!BenchmarkAssumption, RunInv, phase = "asking", todo = {}, busy = {}, over = {},
           score'.answered = Cardinality(B!Rows),
           score'.correct = Cardinality({r \in B!Rows : r.label}),
           score'.errors = Cardinality(B!Failed(answers)),
           score'.incomplete <=> Cardinality(B!Rows) < Cardinality(scope),
           score'.substituted <=> {r.model : r \in B!Rows} \notin {{}, {Pinned}},
           UNCHANGED <<scope, kills, said, asked, fresh, left>>
    PROVE  B!ScoreIsEarned'
<1> DEFINE R == B!Rows
<1>1. /\ IsFiniteSet(R) /\ Single(R) /\ R \subseteq B!ToSet(said)
      /\ HasAnswer \subseteq B!Asked(R) /\ B!Asked(done) \subseteq B!Asked(R)
  BY ScoredRows
<1> HIDE DEF R
<1>2. /\ IsFiniteSet(B!Asked(R)) /\ Cardinality(B!Asked(R)) = Cardinality(R)
      /\ Cardinality(R) \in Nat
  BY <1>1, SingleRowsCount, FS_CardinalityType
<1>3. /\ IsFiniteSet(B!Answered) /\ Cardinality(B!Answered) \in Nat
      /\ Cardinality(B!Answered) <= Len(said)
      /\ B!Answered = B!Asked(B!ToSet(said))
  BY AnsweredWereSaid DEF RunInv
<1>4. B!Asked(R) \subseteq B!Answered
  BY <1>1, <1>3 DEF B!Asked
<1>5. Cardinality(R) <= Cardinality(B!Answered)
  BY <1>2, <1>3, <1>4, FS_Subset
<1>6. Cardinality(B!Answered) <= Cardinality(R) + 2 * kills
  <2>1. IsFiniteSet(CleanRows) /\ Cardinality(CleanRows) \in Nat /\ Single(CleanRows)
        /\ kills \in Nat /\ Weight \in 0..2 /\ Len(said) \in Nat
    BY FileIsRows DEF RunInv, AnswersWereSaid
  <2>2. HasAnswer = B!Asked(CleanRows)
    BY DEF HasAnswer, B!Asked
  <2>3. Cardinality(CleanRows) = Cardinality(HasAnswer)
    BY <2>1, <2>2, SingleRowsCount
  <2>4. Cardinality(HasAnswer) <= Cardinality(B!Asked(R))
    BY <1>1, <1>2, FS_Subset
  <2>5. Len(said) - Cardinality(CleanRows) <= 2 * kills - Weight
    BY DEF RunInv, LostIsBounded
  <2> QED BY <1>2, <1>3, <2>1, <2>3, <2>4, <2>5
<1>7. IsFiniteSet(Questions) /\ IsFiniteSet(scope) /\ Cardinality(scope) \in Nat
  <2>1. IsFiniteSet(Questions) /\ scope \subseteq Questions
    BY RunCounts DEF B!BenchmarkAssumption, RunInv, B!TypeOK
  <2> QED BY <2>1, FS_Subset, FS_CardinalityType
<1>8. ~score'.incomplete => scope \subseteq B!Answered \/ ~(B!Answered \subseteq scope)
  <2> SUFFICES ASSUME ~(Cardinality(R) < Cardinality(scope)), B!Answered \subseteq scope
               PROVE  scope \subseteq B!Answered
    BY DEF R
  <2>1. B!Asked(R) \subseteq scope /\ Cardinality(B!Asked(R)) <= Cardinality(scope)
    BY <1>4, <1>7, FS_Subset
  <2>2. Cardinality(B!Asked(R)) = Cardinality(scope)
    BY <1>2, <1>7, <2>1
  <2>3. B!Asked(R) = scope
    BY <1>7, <2>1, <2>2, FS_Subset
  <2> QED BY <1>4, <2>3
<1>9. \A q \in scope : q \in asked \/ q \in B!Answered \/ q \in left
  BY <1>1, <1>4 DEF RunInv, ScopeIsAsked
<1>10. \A r \in fresh : r.model = Pinned
  BY DEF RunInv, FreshArePinned
<1>11. ASSUME kills = 0
       PROVE  /\ Cardinality({r \in R : r.label}) = Cardinality({i \in DOMAIN said : said[i].label})
              /\ {r.model : r \in R} \notin {{}, {Pinned}} <=> \E i \in DOMAIN said : said[i].model # Pinned
              /\ Cardinality(B!Failed(answers)) >= Cardinality((scope \ left) \ B!Answered)
  <2>1. /\ R = B!ToSet(said)
        /\ Cardinality({r \in R : r.label}) = Cardinality({i \in DOMAIN said : said[i].label})
    BY <1>11, UnkilledRows DEF R
  <2>2. {r.model : r \in R} \notin {{}, {Pinned}} <=> \E i \in DOMAIN said : said[i].model # Pinned
    <3>1. {r.model : r \in R} = {said[i].model : i \in DOMAIN said}
      BY <2>1 DEF B!ToSet
    <3> DEFINE models == {r.model : r \in R}
    <3>2. models \notin {{}, {Pinned}} <=> \E m \in models : m # Pinned
      OBVIOUS
    <3>3. (\E m \in models : m # Pinned) <=> \E i \in DOMAIN said : said[i].model # Pinned
      BY <3>1
    <3> QED BY <3>2, <3>3
  <2>3. (scope \ left) \ B!Answered \subseteq B!Failed(answers)
    <3>1. asked \subseteq HasAnswer \cup B!Failed(answers)
      BY <1>11 DEF RunInv, NothingIsLost
    <3>2. HasAnswer \subseteq B!Answered
      BY <1>1, <1>4
    <3> QED BY <1>9, <3>1, <3>2
  <2>4. IsFiniteSet(B!Failed(answers))
    <3>1. B!Failed(answers) \subseteq Questions
      BY FileIsRows, RowsAreRows DEF RunInv, B!Failed
    <3> QED BY <1>7, <3>1, FS_Subset
  <2>5. Cardinality((scope \ left) \ B!Answered) <= Cardinality(B!Failed(answers))
    BY <2>3, <2>4, FS_Subset
  <2>6. Cardinality((scope \ left) \ B!Answered) \in Nat /\ Cardinality(B!Failed(answers)) \in Nat
    BY <1>7, <2>3, <2>4, FS_Subset, FS_CardinalityType
  <2> QED BY <2>1, <2>2, <2>5, <2>6
<1>12. B!Answered' = B!Answered
  BY DEF B!Answered
<1> QED BY <1>5, <1>6, <1>8, <1>9, <1>10, <1>11, <1>12, RunCounts DEF B!ScoreIsEarned, R

-----------------------------------------------------------------------------
(* Recursion.  A function on the natural numbers is defined by its value   *)
(* for 0 and by the step from each number to the next.                     *)
StepsIn(V, step) == \A n \in Nat : \A v \in V : step[<<n, v>>] \in V
Recurs(V, base, step, f) == f \in [Nat -> V] /\ f[0] = base /\ \A n \in Nat : f[n + 1] = step[<<n, f[n]>>]

LEMMA NumbersRecur ==
    ASSUME NEW V, NEW base, base \in V, NEW step, StepsIn(V, step)
    PROVE  \E f : Recurs(V, base, step, f)
<1>0. \A n \in Nat : \A v \in V : step[<<n, v>>] \in V
  BY DEF StepsIn
<1> DEFINE Begun(n) == {g \in [0..n -> V] : g[0] = base /\ \A k \in 0..(n - 1) : g[k + 1] = step[<<k, g[k]>>]}
<1>1. \A n \in Nat : Begun(n) # {}
  <2> DEFINE Missing == {n \in Nat : Begun(n) = {}}
  <2> SUFFICES ASSUME Missing # {} PROVE FALSE
    OBVIOUS
  <2>1. PICK m \in Missing : \A n \in Missing : m <= n
    <3>1. Missing \in SUBSET Nat
      OBVIOUS
    <3> HIDE DEF Missing
    <3> QED BY <3>1, LeastNumber
  <2>2. CASE m = 0
    <3>1. [k \in 0..0 |-> base] \in Begun(0)
      BY DEF Begun
    <3> QED BY <2>2, <3>1
  <2>3. CASE m # 0
    <3>1. m - 1 \in Nat /\ m - 1 \notin Missing
      <4>1. m \in Nat
        BY <2>1
      <4> HIDE DEF Missing
      <4> QED BY <2>1, <2>3, <4>1
    <3>2. PICK g \in Begun(m - 1) : TRUE
      BY <3>1
    <3> DEFINE h == [k \in 0..m |-> IF k = m THEN step[<<m - 1, g[m - 1]>>] ELSE g[k]]
    <3>3. h \in Begun(m)
      <4>1. g \in [0..(m - 1) -> V] /\ g[0] = base /\ \A k \in 0..(m - 2) : g[k + 1] = step[<<k, g[k]>>]
        BY <3>2 DEF Begun
      <4>2. step[<<m - 1, g[m - 1]>>] \in V
        BY <1>0, <3>1, <4>1
      <4>3. h \in [0..m -> V]
        <5>1. \A k \in 0..m : k # m => k \in 0..(m - 1)
          BY <3>1
        <5> QED BY <4>1, <4>2, <5>1
      <4>4. h[0] = base
        BY <2>3, <4>1
      <4>5. ASSUME NEW k \in 0..(m - 1) PROVE h[k + 1] = step[<<k, h[k]>>]
        <5>1. k \in 0..m /\ k + 1 \in 0..m /\ k # m /\ h[k] = g[k]
          BY <3>1
        <5>2. CASE k = m - 1
          BY <3>1, <5>1, <5>2
        <5>3. CASE k # m - 1
          <6>1. k \in 0..(m - 2) /\ k + 1 # m
            BY <3>1, <5>3
          <6> QED BY <4>1, <5>1, <6>1
        <5> QED BY <5>2, <5>3
      <4> HIDE DEF h
      <4> QED BY <4>3, <4>4, <4>5 DEF Begun
    <3> QED BY <3>3
  <2> QED BY <2>2, <2>3
<1>2. ASSUME NEW n \in Nat, NEW m \in Nat, n <= m, NEW g \in Begun(n), NEW h \in Begun(m)
      PROVE  \A k \in 0..n : g[k] = h[k]
  <2> DEFINE Apart == {k \in 0..n : g[k] # h[k]}
  <2> SUFFICES ASSUME Apart # {} PROVE FALSE
    OBVIOUS
  <2>1. PICK k \in Apart : \A l \in Apart : k <= l
    <3>1. Apart \in SUBSET Nat
      OBVIOUS
    <3> HIDE DEF Apart
    <3> QED BY <3>1, LeastNumber
  <2>2. CASE k = 0
    BY <2>1, <2>2
  <2>3. CASE k # 0
    <3>1. k - 1 \in 0..n /\ k - 1 \notin Apart /\ k - 1 \in 0..(n - 1) /\ k - 1 \in 0..(m - 1)
      BY <1>2, <2>1, <2>3
    <3>2. g[(k - 1) + 1] = step[<<k - 1, g[k - 1]>>] /\ h[(k - 1) + 1] = step[<<k - 1, h[k - 1]>>]
      BY <3>1
    <3>3. (k - 1) + 1 = k
      BY <2>1
    <3> QED BY <2>1, <3>1, <3>2, <3>3
  <2> QED BY <2>2, <2>3
<1> DEFINE f == [n \in Nat |-> (CHOOSE g \in Begun(n) : TRUE)[n]]
<1>3. ASSUME NEW n \in Nat, NEW g \in Begun(n) PROVE f[n] = g[n]
  <2>1. (CHOOSE h \in Begun(n) : TRUE) \in Begun(n)
    BY <1>1
  <2>2. n \in 0..n /\ n <= n
    OBVIOUS
  <2> HIDE DEF Begun
  <2>3. (CHOOSE h \in Begun(n) : TRUE)[n] = g[n]
    BY <1>2, <2>1, <2>2
  <2> QED BY <2>3
<1>4. f \in [Nat -> V] /\ f[0] = base
  <2>1. ASSUME NEW n \in Nat PROVE f[n] \in V
    <3>1. PICK g \in Begun(n) : TRUE
      BY <1>1
    <3>2. g[n] \in V
      BY <3>1
    <3> HIDE DEF Begun
    <3> QED BY <1>3, <3>1, <3>2
  <2>2. PICK g \in Begun(0) : TRUE
    BY <1>1
  <2>3. f[0] = base
    BY <1>3, <2>2
  <2> HIDE DEF Begun
  <2> QED BY <2>1, <2>3
<1>5. ASSUME NEW n \in Nat PROVE f[n + 1] = step[<<n, f[n]>>]
  <2>1. PICK g \in Begun(n + 1) : TRUE
    <3>1. n + 1 \in Nat
      OBVIOUS
    <3> HIDE DEF Begun
    <3> QED BY <1>1, <3>1
  <2>2. PICK h \in Begun(n) : TRUE
    BY <1>1
  <2>3. h[n] = g[n]
    <3>1. n + 1 \in Nat /\ n <= n + 1 /\ n \in 0..n
      OBVIOUS
    <3> HIDE DEF Begun
    <3> QED BY <1>2, <2>1, <2>2, <3>1
  <2>4. g[n + 1] = step[<<n, g[n]>>]
    BY <2>1
  <2>5. f[n + 1] = g[n + 1] /\ f[n] = h[n]
    <3>1. n + 1 \in Nat
      OBVIOUS
    <3> HIDE DEF Begun, f
    <3> QED BY <1>3, <2>1, <2>2, <3>1
  <2> HIDE DEF f
  <2> QED BY <2>3, <2>4, <2>5
<1> HIDE DEF f
<1> QED BY <1>4, <1>5 DEF Recurs

(* A sum over the subsets of a finite set, one element after another.      *)
Picks(S, pick) == \A s \in SUBSET S : s # {} => pick[s] \in s
Sums(S, pick, value, f) ==
    f = [s \in SUBSET S |-> IF s = {} THEN 0 ELSE value[pick[s]] + f[s \ {pick[s]}]]

LEMMA SubsetsRecur ==
    ASSUME NEW S, IsFiniteSet(S), NEW pick, Picks(S, pick), NEW value, value \in [S -> Int]
    PROVE  \E f : Sums(S, pick, value, f)
<1>0. \A s \in SUBSET S : s # {} => pick[s] \in s
  BY DEF Picks
<1> DEFINE V == [SUBSET S -> Int]
           next(g) == [s \in SUBSET S |-> IF s = {} THEN 0 ELSE value[pick[s]] + g[s \ {pick[s]}]]
           step == [p \in Nat \X V |-> next(p[2])]
           base == [s \in SUBSET S |-> 0]
<1>1. ASSUME NEW g \in V PROVE next(g) \in V
  <2>1. ASSUME NEW s \in SUBSET S, s # {} PROVE value[pick[s]] + g[s \ {pick[s]}] \in Int
    <3>1. pick[s] \in S /\ s \ {pick[s]} \in SUBSET S
      BY <1>0, <2>1
    <3> QED BY <3>1
  <2> QED BY <2>1
<1>2. base \in V
  OBVIOUS
<1>3. \A n \in Nat : \A g \in V : step[<<n, g>>] = next(g) /\ step[<<n, g>>] \in V
  <2> HIDE DEF V, next
  <2> QED BY <1>1
<1>4. PICK F : F \in [Nat -> V] /\ F[0] = base /\ \A n \in Nat : F[n + 1] = step[<<n, F[n]>>]
  <2> HIDE DEF V, next, base, step
  <2>1. StepsIn(V, step)
    BY <1>3 DEF StepsIn
  <2>2. \E f : Recurs(V, base, step, f)
    BY <1>2, <2>1, NumbersRecur
  <2> QED BY <2>2 DEF Recurs
<1> DEFINE f == [s \in SUBSET S |-> F[Cardinality(s)][s]]
<1>5. ASSUME NEW s \in SUBSET S
      PROVE  f[s] = IF s = {} THEN 0 ELSE value[pick[s]] + f[s \ {pick[s]}]
  <2>1. IsFiniteSet(s) /\ Cardinality(s) \in Nat /\ f[s] = F[Cardinality(s)][s]
    BY FS_Subset, FS_CardinalityType
  <2>2. CASE s = {}
    <3>1. Cardinality(s) = 0
      BY <2>2, FS_EmptySet
    <3>2. base[s] = 0
      OBVIOUS
    <3> HIDE DEF V, base, step, f
    <3> QED BY <1>4, <2>1, <2>2, <3>1, <3>2
  <2>3. CASE s # {}
    <3> DEFINE x == pick[s]
               n == Cardinality(s \ {x})
    <3>1. x \in s /\ s \ {x} \in SUBSET S
      BY <1>0, <2>3
    <3>2. n \in Nat /\ Cardinality(s) = n + 1
      <4>1. IsFiniteSet(s \ {x}) /\ Cardinality(s \ {x}) = Cardinality(s) - 1
        BY <2>1, <3>1, FS_RemoveElement
      <4> HIDE DEF x
      <4> QED BY <2>1, <4>1, FS_CardinalityType
    <3>3. f[s \ {x}] = F[n][s \ {x}]
      BY <3>1
    <3>4. F[n] \in V
      <4> HIDE DEF V
      <4> QED BY <1>4, <3>2
    <3>5. F[n + 1] = next(F[n])
      <4> HIDE DEF V, next, step, n
      <4> QED BY <1>3, <1>4, <3>2, <3>4
    <3>6. next(F[n])[s] = value[x] + F[n][s \ {x}]
      <4> HIDE DEF n
      <4> QED BY <2>3
    <3> HIDE DEF f, next, n, x
    <3> QED BY <2>1, <2>3, <3>2, <3>3, <3>5, <3>6 DEF x
  <2> QED BY <2>2, <2>3
<1>6. f = [s \in SUBSET S |-> f[s]]
  OBVIOUS
<1> HIDE DEF f
<1>7. f = [s \in SUBSET S |-> IF s = {} THEN 0 ELSE value[pick[s]] + f[s \ {pick[s]}]]
  BY <1>5, <1>6
<1> QED BY <1>7 DEF Sums

LEMMA SumsAreNumbers ==
    ASSUME NEW S, IsFiniteSet(S), NEW pick, Picks(S, pick), NEW value, value \in [S -> Int],
           NEW f, Sums(S, pick, value, f)
    PROVE  f[S] \in Int
<1> DEFINE sizes == {Cardinality(s) : s \in {t \in SUBSET S : f[t] \notin Int}}
<1>0. \A s \in SUBSET S : f[s] = IF s = {} THEN 0 ELSE value[pick[s]] + f[s \ {pick[s]}]
  BY DEF Sums
<1>1. SUFFICES ASSUME f[S] \notin Int PROVE FALSE
  OBVIOUS
<1>2. sizes \in SUBSET Nat /\ sizes # {}
  <2>1. \A s \in SUBSET S : Cardinality(s) \in Nat
    BY FS_Subset, FS_CardinalityType
  <2>2. S \in SUBSET S
    OBVIOUS
  <2>3. Cardinality(S) \in sizes
    BY <1>1, <2>2
  <2>4. \A c \in sizes : c \in Nat
    BY <2>1
  <2> HIDE DEF sizes
  <2> QED BY <2>3, <2>4
<1>3. PICK l \in sizes : \A m \in sizes : l <= m
  <2> HIDE DEF sizes
  <2> QED BY <1>2, LeastNumber
<1>4. PICK s \in SUBSET S : f[s] \notin Int /\ Cardinality(s) = l
  BY <1>3
<1>5. s # {}
  <2>1. CASE s = {}
    <3>1. f[s] = 0
      BY <1>0, <2>1
    <3> QED BY <1>4, <3>1
  <2> QED BY <2>1
<1> DEFINE t == s \ {pick[s]}
<1>6. t \in SUBSET S /\ pick[s] \in s /\ value[pick[s]] \in Int
  BY <1>5 DEF Picks
<1>7. f[t] \in Int
  <2>1. IsFiniteSet(s) /\ Cardinality(s) \in Nat /\ Cardinality(t) = Cardinality(s) - 1
    BY <1>6, FS_Subset, FS_CardinalityType, FS_RemoveElement
  <2>2. Cardinality(t) \notin sizes
    <3> HIDE DEF sizes, t
    <3> QED BY <1>2, <1>3, <1>4, <2>1
  <2> HIDE DEF t
  <2> QED BY <1>6, <2>2
<1>8. f[s] = value[pick[s]] + f[t]
  BY <1>0, <1>5
<1> QED BY <1>4, <1>6, <1>7, <1>8

LEMMA FactorialsArePositive == \A n \in Nat : B!factorial[n] \in Nat \ {0}
<1>1. \E f : f = [n \in Nat |-> IF n = 0 THEN 1 ELSE n * f[n - 1]]
  <2> DEFINE step == [p \in Nat \X Nat |-> (p[1] + 1) * p[2]]
  <2>1. \A n \in Nat : \A v \in Nat : step[<<n, v>>] = (n + 1) * v /\ step[<<n, v>>] \in Nat
    OBVIOUS
  <2>2. PICK f \in [Nat -> Nat] : f[0] = 1 /\ \A n \in Nat : f[n + 1] = step[<<n, f[n]>>]
    <3> HIDE DEF step
    <3>1. (\A n \in Nat : \A v \in Nat : step[<<n, v>>] \in Nat) /\ 1 \in Nat
      BY <2>1
    <3>2. StepsIn(Nat, step)
      BY <3>1 DEF StepsIn
    <3>3. \E f : Recurs(Nat, 1, step, f)
      BY <3>1, <3>2, NumbersRecur
    <3> QED BY <2>1, <3>3 DEF Recurs
  <2>3. ASSUME NEW n \in Nat PROVE f[n] = IF n = 0 THEN 1 ELSE n * f[n - 1]
    <3>1. CASE n # 0
      <4>1. n - 1 \in Nat /\ (n - 1) + 1 = n
        BY <3>1
      <4>2. f[(n - 1) + 1] = ((n - 1) + 1) * f[n - 1]
        <5> HIDE DEF step
        <5> QED BY <2>1, <2>2, <4>1
      <4> QED BY <3>1, <4>1, <4>2
    <3> QED BY <2>2, <3>1
  <2>4. f = [n \in Nat |-> f[n]]
    OBVIOUS
  <2>5. f = [n \in Nat |-> IF n = 0 THEN 1 ELSE n * f[n - 1]]
    BY <2>3, <2>4
  <2> QED BY <2>5
<1>2. B!factorial = [n \in Nat |-> IF n = 0 THEN 1 ELSE n * B!factorial[n - 1]]
  BY <1>1 DEF B!factorial
<1> DEFINE Bad == {n \in Nat : B!factorial[n] \notin Nat \ {0}}
<1>3. SUFFICES ASSUME Bad # {} PROVE FALSE
  OBVIOUS
<1>4. PICK n \in Bad : \A m \in Bad : n <= m
  <2>1. Bad \in SUBSET Nat
    OBVIOUS
  <2> HIDE DEF Bad
  <2> QED BY <1>3, <2>1, LeastNumber
<1>5. n \in Nat /\ B!factorial[n] = IF n = 0 THEN 1 ELSE n * B!factorial[n - 1]
  BY <1>2, <1>4
<1>6. n # 0
  BY <1>4, <1>5
<1>7. n - 1 \in Nat /\ n - 1 \notin Bad
  <2> HIDE DEF Bad
  <2> QED BY <1>4, <1>5, <1>6
<1>8. B!factorial[n - 1] \in Nat \ {0}
  BY <1>7
<1>9. n * B!factorial[n - 1] \in Nat \ {0}
  <2> DEFINE v == B!factorial[n - 1]
  <2>1. v \in Nat \ {0} /\ n \in Nat \ {0}
    BY <1>5, <1>6, <1>8
  <2> HIDE DEF v, Bad
  <2>2. n * v \in Nat /\ n * v > 0
    BY <2>1
  <2> QED BY <2>2 DEF v
<1> QED BY <1>4, <1>5, <1>6, <1>9

LEMMA ChoicesAreNumbers ==
    ASSUME NEW n \in Nat, NEW k \in 0..n PROVE B!choose(n, k) \in Int
<1> DEFINE d == B!factorial[k] * B!factorial[n - k]
<1>1. k \in Nat /\ n - k \in Nat
  OBVIOUS
<1>2. d \in Nat /\ d > 0
  <2> DEFINE a == B!factorial[k]
             b == B!factorial[n - k]
  <2>1. a \in Nat \ {0} /\ b \in Nat \ {0}
    BY <1>1, FactorialsArePositive
  <2> HIDE DEF a, b
  <2>2. a * b \in Nat /\ a * b > 0
    BY <2>1
  <2> QED BY <2>2 DEF a, b
<1>3. B!factorial[n] \in Int
  BY FactorialsArePositive
<1> HIDE DEF d
<1>4. B!factorial[n] \div d \in Int
  BY <1>2, <1>3
<1> QED BY <1>4 DEF B!choose, d

LEMMA TailIsNumber ==
    ASSUME NEW n \in Nat, NEW m \in 0..n
    PROVE  B!MapThenSumSet(LAMBDA i : B!choose(n, i), 0..m) \in Int
<1> DEFINE S == 0..m
           value == [i \in S |-> B!choose(n, i)]
           pick == [s \in SUBSET S |-> CHOOSE x \in s : TRUE]
<1>1. IsFiniteSet(S)
  BY FS_Interval
<1>2. value \in [S -> Int]
  BY ChoicesAreNumbers
<1>3. Picks(S, pick)
  BY DEF Picks
<1> DEFINE F(f) == [s \in SUBSET S |-> IF s = {} THEN 0 ELSE value[pick[s]] + f[s \ {pick[s]}]]
           G(f) == [s \in SUBSET S |-> IF s = {} THEN 0
                        ELSE LET x == CHOOSE y \in s : TRUE IN B!choose(n, x) + f[s \ {x}]]
<1>4. ASSUME NEW f PROVE F(f) = G(f)
  <2>1. ASSUME NEW s \in SUBSET S, s # {}
        PROVE  value[pick[s]] + f[s \ {pick[s]}]
                = LET x == CHOOSE y \in s : TRUE IN B!choose(n, x) + f[s \ {x}]
    <3>1. pick[s] = (CHOOSE y \in s : TRUE) /\ pick[s] \in S
      BY <1>3, <2>1 DEF Picks
    <3> HIDE DEF pick
    <3>2. value[pick[s]] = B!choose(n, pick[s])
      BY <3>1
    <3> QED BY <3>1, <3>2
  <2> QED BY <2>1
<1>5. \E f : f = F(f)
  <2> HIDE DEF S, value, pick
  <2>1. \E f : Sums(S, pick, value, f)
    BY <1>1, <1>2, <1>3, SubsetsRecur
  <2> QED BY <2>1 DEF Sums
<1> DEFINE iter == CHOOSE f : f = G(f)
<1>6. iter = G(iter)
  <2>1. \E f : f = G(f)
    <3> HIDE DEF F, G
    <3> QED BY <1>4, <1>5
  <2> HIDE DEF G
  <2> QED BY <2>1
<1>7. iter[S] \in Int
  <2>1. iter = F(iter)
    <3> HIDE DEF F, G, iter
    <3> QED BY <1>4, <1>6
  <2> HIDE DEF S, value, pick, iter
  <2>2. Sums(S, pick, value, iter)
    BY <2>1 DEF Sums
  <2> QED BY <1>1, <1>2, <1>3, <2>2, SumsAreNumbers
<1>8. B!MapThenSumSet(LAMBDA i : B!choose(n, i), 0..m) = iter[S]
  BY DEF B!MapThenSumSet, B!MapThenFoldSet
<1> QED BY <1>7, <1>8

LEMMA ChanceIsNumber == ASSUME NEW b \in Nat, NEW c \in Nat PROVE B!McNemar(b, c) \in Int
<1> DEFINE n == b + c
           m == B!Min({b, c})
           tail == B!MapThenSumSet(LAMBDA i : B!choose(n, i), 0..m)
<1>1. n \in Nat /\ m \in 0..n
  <2>1. m = b \/ m = c
    BY DEF B!Min
  <2> HIDE DEF m
  <2> QED BY <2>1
<1>2. tail \in Int
  <2> HIDE DEF n, m
  <2> QED BY <1>1, TailIsNumber
<1>3. 2 ^ n \in Int
  <2> HIDE DEF n
  <2> QED BY <1>1
<1> DEFINE outcomes == {2 ^ n, 2 * tail}
<1>4. B!Min(outcomes) \in Int
  <2> DEFINE all == 2 ^ n
             twice == 2 * tail
  <2>1. all \in Int /\ twice \in Int
    <3> HIDE DEF tail, n
    <3> QED BY <1>2, <1>3
  <2> HIDE DEF all, twice
  <2>2. B!Min({all, twice}) \in Int
    BY <2>1 DEF B!Min
  <2> QED BY <2>2 DEF all, twice
<1>5. B!McNemar(b, c) = IF n = 0 THEN 1 ELSE B!Min(outcomes)
  BY DEF B!McNemar
<1> HIDE DEF n, outcomes
<1> QED BY <1>4, <1>5

(* The score is written when every question of the run is over.            *)
LEMMA RunIsScored == ASSUME B!BenchmarkAssumption, RunInv, B!Score PROVE RunInv'
<1> DEFINE R == B!Rows
           Q == {r \in R : ~r.error}
<1>1. /\ phase = "asking" /\ todo = {} /\ busy = {} /\ over = {}
      /\ phase' = "idle" /\ scored' = TRUE /\ over' = {}
      /\ UNCHANGED <<scope, done, todo, busy, answers, end, runs, kills, said, asked, fresh, left>>
      /\ score' =
            [answered |-> Cardinality(Q),
             correct |-> Cardinality({r \in Q : r.label}),
             errors |-> Cardinality(B!Failed(answers)),
             asked |-> Cardinality(scope),
             incomplete |-> Cardinality(Q) < Cardinality(scope),
             substituted |-> {r.model : r \in Q} \notin {{}, {Pinned}},
             p |-> IF B!Asked(Q) \cap DOMAIN Anchor = {} THEN -1
                   ELSE B!McNemar(Cardinality(B!Wrong(Q, FALSE)), Cardinality(B!Wrong(Q, TRUE)))]
  BY RunCounts DEF B!Score
<1>2. Q = R /\ IsFiniteSet(R)
  BY ScoredRows
<1>3. score'.p \in Int
  <2>1. B!Wrong(R, FALSE) \subseteq R /\ B!Wrong(R, TRUE) \subseteq R
    BY DEF B!Wrong
  <2> DEFINE b == Cardinality(B!Wrong(R, FALSE))
             c == Cardinality(B!Wrong(R, TRUE))
  <2>2. b \in Nat /\ c \in Nat
    BY <1>2, <2>1, FS_Subset, FS_CardinalityType
  <2>3. B!McNemar(b, c) \in Int
    <3> HIDE DEF b, c
    <3> QED BY <2>2, ChanceIsNumber
  <2>4. score'.p = -1 \/ score'.p = B!McNemar(b, c)
    <3> HIDE DEF R
    <3> QED BY <1>1, <1>2
  <2> HIDE DEF R, b, c
  <2> QED BY <2>3, <2>4
<1>4. B!ScoreIsEarned'
  <2>1. /\ score'.answered = Cardinality(R)
        /\ score'.correct = Cardinality({r \in R : r.label})
        /\ score'.errors = Cardinality(B!Failed(answers))
        /\ score'.incomplete <=> Cardinality(R) < Cardinality(scope)
        /\ score'.substituted <=> {r.model : r \in R} \notin {{}, {Pinned}}
    <3> HIDE DEF R
    <3> QED BY <1>1, <1>2
  <2> HIDE DEF R, Q
  <2>2. UNCHANGED <<scope, kills, said, asked, fresh, left>>
    BY <1>1
  <2> QED BY <1>1, <2>1, <2>2, ScoreIsRight DEF R
<1> HIDE DEF R, Q
<1>5. /\ B!ToSet(said)' = B!ToSet(said) /\ B!Failed(answers)' = B!Failed(answers)
      /\ CleanRows' = CleanRows /\ HasAnswer' = HasAnswer /\ Weight' = Weight
      /\ B!Asked(done)' = B!Asked(done)
  BY <1>1 DEF B!ToSet, B!Failed, CleanRows, HasAnswer, Weight, B!Asked
<1>6. B!TypeOK'
  <2>1. phase' \in {"idle", "asking", "aborting"}
    BY <1>1
  <2> QED BY <1>1, <1>3, <2>1 DEF RunInv, B!TypeOK
<1>7. RunIsIdle' /\ ScopeIsAsked' /\ FreshArePinned'
  BY <1>1 DEF RunIsIdle, ScopeIsAsked, FreshArePinned
<1>8. AskedAreOpen' /\ AnswersWereSaid' /\ LostIsBounded'
  BY <1>1, <1>5 DEF RunInv, AskedAreOpen, AnswersWereSaid, LostIsBounded, Single
<1>9. NothingIsLost'
  BY <1>1, <1>5 DEF RunInv, NothingIsLost
<1>10. ScoreStands'
  BY <1>1, <1>4 DEF ScoreStands
<1> QED BY <1>6, <1>7, <1>8, <1>9, <1>10 DEF RunInv

LEMMA RunGoesOn == ASSUME B!BenchmarkAssumption, RunInv, [B!Next]_(B!vars) PROVE RunInv'
<1>1. CASE B!Launch
  BY <1>1, RunLaunches
<1>2. CASE B!Look
  BY <1>2, RunLooks
<1>3. CASE B!Abort
  BY <1>3, RunAborts
<1>4. CASE B!Kill
  BY <1>4, RunIsKilled
<1>5. CASE B!Score
  BY <1>5, RunIsScored
<1>6. ASSUME NEW q \in Questions, B!Ask(q) PROVE RunInv'
  BY <1>6, RunAsks
<1>7. ASSUME NEW q \in Questions, B!Reply(q) PROVE RunInv'
  BY <1>7, RunReplies
<1>8. CASE UNCHANGED B!vars
  <2>1. UNCHANGED <<phase, scope, done, todo, busy, over, answers, end, score, runs, kills,
                    said, asked, fresh, scored, left>>
    BY <1>8 DEF B!vars
  <2>2. /\ B!ToSet(said)' = B!ToSet(said) /\ B!Failed(answers)' = B!Failed(answers)
        /\ CleanRows' = CleanRows /\ HasAnswer' = HasAnswer /\ Weight' = Weight
        /\ B!Asked(done)' = B!Asked(done) /\ B!Answered' = B!Answered
    BY <2>1 DEF B!ToSet, B!Failed, CleanRows, HasAnswer, Weight, B!Asked, B!Answered
  <2>3. B!TypeOK' /\ RunIsIdle' /\ AskedAreOpen' /\ ScopeIsAsked' /\ FreshArePinned'
    BY <2>1, <2>2 DEF RunInv, B!TypeOK, RunIsIdle, AskedAreOpen, ScopeIsAsked, FreshArePinned
  <2>4. AnswersWereSaid' /\ LostIsBounded' /\ NothingIsLost'
    BY <2>1, <2>2 DEF RunInv, AnswersWereSaid, LostIsBounded, NothingIsLost, Single
  <2>5. ScoreStands'
    BY <2>1, <2>2 DEF RunInv, ScoreStands, B!ScoreIsEarned
  <2> QED BY <2>3, <2>4, <2>5 DEF RunInv
<1> QED BY <1>1, <1>2, <1>3, <1>4, <1>5, <1>6, <1>7, <1>8 DEF B!Next

LEMMA RunIsPaidOnce == ASSUME RunInv PROVE B!PaidOnce /\ B!ScoreIsEarned
<1>1. CleanRows = {r \in B!ToSet(answers) : ~r.error}
      /\ HasAnswer = {r.q : r \in {s \in B!ToSet(answers) : ~s.error}}
  BY DEF CleanRows, HasAnswer
<1>2. IsFiniteSet(CleanRows) /\ Cardinality(CleanRows) \in Nat /\ Len(said) \in Nat
      /\ kills \in Nat /\ Weight \in 0..2
  BY FileIsRows DEF RunInv
<1>3. Len(said) - Cardinality(CleanRows) <= 2 * kills
  BY <1>2 DEF RunInv, LostIsBounded
<1>4. busy \cap HasAnswer = {}
  BY DEF RunInv, AskedAreOpen
<1>5. B!PaidOnce
  BY <1>1, <1>3, <1>4, RunCounts DEF B!PaidOnce
<1>6. B!ScoreIsEarned
  BY DEF RunInv, ScoreStands, B!ScoreIsEarned
<1> QED BY <1>5, <1>6

-----------------------------------------------------------------------------
(* benchmarking/run_s500.py: however often a run is begun, killed or       *)
(* refuses a row, whatever it selects, however few questions --count lets  *)
(* it ask and whoever answers, no question is asked whose answer is in the *)
(* file, each kill loses at most two answers, and the score that is        *)
(* written is of the answers.                                              *)
THEOREM AnswersStayScored == Spec => []ScoreIsEarned
<1> DEFINE Inv == part = "benchmark" => RunInv
<1>1. Init => Inv
  BY ProcessAssumptions, InitRun DEF Init
<1>2. Inv /\ [Next]_vars => Inv'
  <2> SUFFICES ASSUME Inv, [Next]_vars, part' = "benchmark" PROVE RunInv'
    OBVIOUS
  <2>1. part = "benchmark" /\ (B!Next \/ UNCHANGED B!vars)
    BY DEF Next, vars, runVars, B!vars
  <2> QED BY <2>1, ProcessAssumptions, RunGoesOn
<1>3. Inv => ScoreIsEarned
  BY RunIsPaidOnce DEF ScoreIsEarned
<1> QED BY <1>1, <1>2, <1>3, PTL DEF Spec
=============================================================================
