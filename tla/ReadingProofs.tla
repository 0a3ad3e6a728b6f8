--------------------------- MODULE ReadingProofs ----------------------------
(***************************************************************************)
(* Proofs about Reading, for every value of its constants.                 *)
(*                                                                         *)
(* KeywordIndex, any number of open Stores, writers and searchers: what a  *)
(* stalled write cannot do to a search unless it takes the version back.   *)
(*                                                                         *)
(* AnswerLoop, for every setting: what an answer says of itself, and that  *)
(* what it rests on reaches the reader.                                    *)
(*                                                                         *)
(* Retrieval, any scores, groups of an event and writes beside the search: *)
(* what is shown was current, and what was found is shown once.            *)
(***************************************************************************)
EXTENDS Reading, FiniteSetTheorems, TLAPS

Near(h) == {w \in Writers : Through[w] = h}

(* An index t may stand in the cache of h, or be on its way there or from  *)
(* there: were the version its own, it would have every returned write,    *)
(* and it has the rows of a writer that read the version before it did.    *)
(* That writer may yet write the very version of t; any other writes a     *)
(* later one, or takes the version back.                                   *)
Good(t, h) ==
    /\ t.ver <= version[h]
    /\ t.ver = version[h] => \A w \in Near(h) : returned[w] <= t.rows[w]
    /\ \A w \in Near(h) : wat[w] = "add" /\ read[w] < t.ver => rows[w] <= t.rows[w]

Built(s) == [ver |-> ver[s], rows |-> got[s]]

ReturnedIsCommitted == \A w \in Writers : returned[w] <= rows[w]

DueHasReturned ==
    \A s \in Searchers, w \in Writers :
        due[s][w] <= (IF Through[w] = Through[s] THEN returned[w] ELSE 0)

CacheIsGood == \A h \in Handles \ receded : Good(cache[h], h)

SearchIsGood ==
    \A s \in Searchers :
        Through[s] \notin receded =>
            /\ sat[s] = "looked" => Good(looked[s], Through[s])
            /\ sat[s] = "read" => ver[s] <= version[Through[s]]
            /\ sat[s] = "build" => Good(Built(s), Through[s])
            /\ sat[s] \in {"build", "answered"} =>
                \A w \in Writers : due[s][w] <= got[s][w]

(* The inductive invariant.                                                *)
IndexInv ==
    /\ K!TypeOK
    /\ ReturnedIsCommitted
    /\ DueHasReturned
    /\ CacheIsGood
    /\ SearchIsGood

-----------------------------------------------------------------------------
LEMMA InitIndex == ASSUME K!IndexAssumption, K!Init PROVE IndexInv
<1> USE DEF K!IndexAssumption
<1>1. K!TypeOK
  BY DEF K!Init, K!TypeOK, K!Rows, K!NoRows, K!Tuples, K!Miss
<1>2. ReturnedIsCommitted /\ DueHasReturned
  BY DEF K!Init, ReturnedIsCommitted, DueHasReturned, K!NoRows
<1>3. CacheIsGood
  <2>1. ASSUME NEW h \in Handles PROVE Good(K!Miss, h)
    <3>1. K!Miss.ver = -1 /\ version[h] = 0
      BY DEF K!Init, K!Miss
    <3>2. \A w \in Near(h) : read[w] = 0
      BY DEF K!Init, Near
    <3> QED BY <3>1, <3>2 DEF Good
  <2> QED BY <2>1 DEF K!Init, CacheIsGood
<1>4. SearchIsGood
  BY DEF K!Init, SearchIsGood
<1> QED BY <1>1, <1>2, <1>3, <1>4 DEF IndexInv

(* A write is committed and not yet returned: its writer is at "bump", so  *)
(* no index is asked for it.                                               *)
LEMMA CommitStep ==
    ASSUME K!IndexAssumption, IndexInv, NEW w \in Writers, K!Commit(w) PROVE IndexInv'
<1> USE DEF K!IndexAssumption, IndexInv, K!Commit, K!writerVars, K!searcherVars
<1>1. K!TypeOK'
  BY DEF K!TypeOK, K!Rows
<1>2. ReturnedIsCommitted'
  BY DEF K!TypeOK, K!Rows, ReturnedIsCommitted
<1>3. DueHasReturned'
  BY DEF DueHasReturned
<1>4. ASSUME NEW h \in Handles, NEW t \in K!Tuples, Good(t, h) PROVE Good(t, h)'
  BY <1>4 DEF Good, Near, K!TypeOK, K!Rows, K!Tuples
<1>5. CacheIsGood'
  BY <1>4 DEF CacheIsGood, K!TypeOK
<1>6. SearchIsGood'
  BY <1>4 DEF SearchIsGood, K!TypeOK, Built, K!Tuples
<1> QED BY <1>1, <1>2, <1>3, <1>5, <1>6

(* A writer reads the version, and no index in the cache is of a later one.*)
LEMMA BumpReadStep ==
    ASSUME K!IndexAssumption, IndexInv, NEW w \in Writers, K!BumpRead(w) PROVE IndexInv'
<1> USE DEF K!IndexAssumption, IndexInv, K!BumpRead, K!writerVars, K!searcherVars
<1>1. K!TypeOK'
  BY DEF K!TypeOK, K!Rows
<1>2. ReturnedIsCommitted' /\ DueHasReturned'
  BY DEF ReturnedIsCommitted, DueHasReturned
<1>4. ASSUME NEW h \in Handles, NEW t \in K!Tuples, Good(t, h) PROVE Good(t, h)'
  BY <1>4 DEF Good, Near, K!TypeOK, K!Rows, K!Tuples
<1>5. CacheIsGood'
  BY <1>4 DEF CacheIsGood, K!TypeOK
<1>6. SearchIsGood'
  BY <1>4 DEF SearchIsGood, K!TypeOK, Built, K!Tuples
<1> QED BY <1>1, <1>2, <1>5, <1>6

(* The version a writer writes is later than that of any index, or one the *)
(* index was promised to be right for, or the version recedes.             *)
LEMMA BumpWriteStep ==
    ASSUME K!IndexAssumption, IndexInv, NEW w \in Writers, K!BumpWrite(w) PROVE IndexInv'
<1> USE DEF K!IndexAssumption, IndexInv, K!BumpWrite, K!Bumped, K!writerVars, K!searcherVars
<1>1. K!TypeOK'
  BY DEF K!TypeOK, K!Rows
<1>2. ReturnedIsCommitted'
  BY DEF K!TypeOK, K!Rows, ReturnedIsCommitted
<1>3. DueHasReturned'
  BY DEF K!TypeOK, K!Rows, ReturnedIsCommitted, DueHasReturned
<1>4. ASSUME NEW h \in Handles, h \notin receded', NEW t \in K!Tuples, Good(t, h)
      PROVE  Good(t, h)'
  <2>1. CASE h = Through[w]
    <3>1. version'[h] = read[w] + 1 /\ version[h] <= read[w] + 1 /\ read[w] \in Nat
          /\ version[h] \in Nat
      BY <1>4, <2>1 DEF K!TypeOK
    <3>2. t.ver <= version[h] /\ t.ver \in Int
      BY <1>4 DEF Good, K!Tuples
    <3>3. t.ver <= version'[h]
      BY <3>1, <3>2
    <3>4. ASSUME t.ver = version'[h], NEW v \in Near(h) PROVE returned'[v] <= t.rows[v]
      <4>1. t.ver = version[h] /\ read[w] < t.ver
        BY <3>1, <3>2, <3>4
      <4>2. CASE v = w
        BY <1>4, <2>1, <4>1, <4>2 DEF Good, Near, K!TypeOK, K!Rows
      <4>3. CASE v # w
        BY <1>4, <4>1, <4>3, <3>4 DEF Good, Near, K!TypeOK, K!Rows
      <4> QED BY <4>2, <4>3
    <3>5. \A v \in Near(h) : wat'[v] = "add" /\ read'[v] < t.ver => rows'[v] <= t.rows[v]
      BY <1>4 DEF Good, Near, K!TypeOK
    <3> QED BY <3>3, <3>4, <3>5 DEF Good, Near
  <2>2. CASE h # Through[w]
    BY <1>4, <2>2 DEF Good, Near, K!TypeOK, K!Rows, K!Tuples
  <2> QED BY <2>1, <2>2
<1>5. receded \subseteq receded'
  OBVIOUS
<1>6. CacheIsGood'
  BY <1>4, <1>5 DEF CacheIsGood, K!TypeOK
<1>7. SearchIsGood'
  <2> SUFFICES ASSUME NEW s \in Searchers, Through[s] \notin receded'
               PROVE  /\ sat[s] = "looked" => Good(looked[s], Through[s])'
                      /\ sat[s] = "read" => ver[s] <= version'[Through[s]]
                      /\ sat[s] = "build" => Good(Built(s), Through[s])'
                      /\ sat[s] \in {"build", "answered"} =>
                           \A v \in Writers : due[s][v] <= got[s][v]
    BY DEF SearchIsGood, Built
  <2>1. Through[s] \in Handles /\ Through[s] \notin receded
    BY <1>5
  <2>2. version[Through[s]] <= version'[Through[s]]
    BY <2>1 DEF K!TypeOK
  <2>3. sat[s] = "read" => ver[s] <= version'[Through[s]]
    BY <2>1, <2>2 DEF SearchIsGood, K!TypeOK
  <2>4. Built(s) \in K!Tuples /\ looked[s] \in K!Tuples
    BY DEF K!TypeOK, Built, K!Tuples
  <2>5. sat[s] = "build" => Good(Built(s), Through[s])'
    BY <1>4, <2>1, <2>4 DEF SearchIsGood, Built
  <2>6. sat[s] = "looked" => Good(looked[s], Through[s])'
    BY <1>4, <2>1, <2>4 DEF SearchIsGood
  <2> QED BY <2>1, <2>3, <2>5, <2>6 DEF SearchIsGood
<1> QED BY <1>1, <1>2, <1>3, <1>6, <1>7

-----------------------------------------------------------------------------
(* What one searcher does leaves the index of the others as good as it was.*)
LEMMA LookStep ==
    ASSUME K!IndexAssumption, IndexInv, NEW s \in Searchers, K!Look(s) PROVE IndexInv'
<1> USE DEF K!IndexAssumption, IndexInv, K!Look, K!writerVars
<1>1. K!TypeOK'
  BY DEF K!TypeOK, K!Rows, K!NoRows
<1>2. ReturnedIsCommitted' /\ DueHasReturned'
  BY DEF ReturnedIsCommitted, DueHasReturned, K!TypeOK, K!Rows
<1>3. \A h \in Handles, t \in K!Tuples : Good(t, h)' = Good(t, h)
  BY DEF Good
<1>4. CacheIsGood'
  BY <1>3 DEF CacheIsGood, K!TypeOK
<1>5. SearchIsGood'
  BY <1>3 DEF SearchIsGood, CacheIsGood, Built, K!TypeOK, K!Tuples
<1> QED BY <1>1, <1>2, <1>4, <1>5

LEMMA CachedStep ==
    ASSUME K!IndexAssumption, IndexInv, NEW s \in Searchers, K!Cached(s) PROVE IndexInv'
<1> USE DEF K!IndexAssumption, IndexInv, K!Cached, K!Hit, K!writerVars
<1>1. K!TypeOK'
  BY DEF K!TypeOK, K!Tuples, K!Rows, K!Miss, K!NoRows
<1>2. ReturnedIsCommitted' /\ DueHasReturned'
  BY DEF ReturnedIsCommitted, DueHasReturned
<1>3. \A h \in Handles, t \in K!Tuples : Good(t, h)' = Good(t, h)
  BY DEF Good
<1>4. CacheIsGood'
  BY <1>3 DEF CacheIsGood, K!TypeOK
<1>5. Through[s] \notin receded => \A w \in Writers : due[s][w] <= looked[s].rows[w]
  <2> SUFFICES ASSUME Through[s] \notin receded, NEW w \in Writers
               PROVE  due[s][w] <= looked[s].rows[w]
    OBVIOUS
  <2>1. due[s][w] \in Nat /\ looked[s].rows[w] \in Nat /\ returned[w] \in Nat
    BY DEF K!TypeOK, K!Tuples, K!Rows
  <2>2. CASE Through[w] = Through[s]
    BY <2>1, <2>2 DEF DueHasReturned, SearchIsGood, Good, Near
  <2>3. CASE Through[w] # Through[s]
    BY <2>1, <2>3 DEF DueHasReturned
  <2> QED BY <2>2, <2>3
<1>6. SearchIsGood'
  BY <1>3, <1>5 DEF SearchIsGood, Built, K!TypeOK, K!Tuples
<1> QED BY <1>1, <1>2, <1>4, <1>6

LEMMA StaleStep ==
    ASSUME K!IndexAssumption, IndexInv, NEW s \in Searchers, K!Stale(s) PROVE IndexInv'
<1> USE DEF K!IndexAssumption, IndexInv, K!Stale, K!Hit, K!writerVars
<1>1. K!TypeOK'
  BY DEF K!TypeOK, K!Tuples, K!Rows, K!Miss, K!NoRows
<1>2. ReturnedIsCommitted' /\ DueHasReturned'
  BY DEF ReturnedIsCommitted, DueHasReturned
<1>3. \A h \in Handles, t \in K!Tuples : Good(t, h)' = Good(t, h)
  BY DEF Good
<1>4. CacheIsGood'
  BY <1>3 DEF CacheIsGood, K!TypeOK
<1>5. SearchIsGood'
  BY <1>3 DEF SearchIsGood, Built, K!TypeOK, K!Tuples
<1> QED BY <1>1, <1>2, <1>4, <1>5

(* The rows are read after the version was: they are right for it.         *)
LEMMA ReadRowsStep ==
    ASSUME K!IndexAssumption, IndexInv, NEW s \in Searchers, K!ReadRows(s) PROVE IndexInv'
<1> USE DEF K!IndexAssumption, IndexInv, K!ReadRows, K!writerVars
<1>1. K!TypeOK'
  BY DEF K!TypeOK, K!Tuples, K!Rows
<1>2. ReturnedIsCommitted' /\ DueHasReturned'
  BY DEF ReturnedIsCommitted, DueHasReturned
<1>3. \A h \in Handles, t \in K!Tuples : Good(t, h)' = Good(t, h)
  BY DEF Good
<1>4. CacheIsGood'
  BY <1>3 DEF CacheIsGood, K!TypeOK
<1>5. \A w \in Writers : rows[w] \in Nat /\ rows[w] <= rows[w] /\ due[s][w] <= rows[w]
  BY DEF DueHasReturned, ReturnedIsCommitted, K!TypeOK, K!Rows
<1>6. Through[s] \notin receded => Good([ver |-> ver[s], rows |-> rows], Through[s])'
  BY <1>5 DEF SearchIsGood, Good, Near, ReturnedIsCommitted
<1>7. SearchIsGood'
  <2> SUFFICES ASSUME NEW q \in Searchers, Through[q] \notin receded
               PROVE  /\ sat'[q] = "looked" => Good(looked[q], Through[q])'
                      /\ sat'[q] = "read" => ver[q] <= version[Through[q]]
                      /\ sat'[q] = "build" => Good(Built(q), Through[q])'
                      /\ sat'[q] \in {"build", "answered"} =>
                           \A w \in Writers : due[q][w] <= got'[q][w]
    BY DEF SearchIsGood
  <2>1. CASE q = s
    BY <2>1, <1>5, <1>6 DEF Built, K!TypeOK
  <2>2. CASE q # s
    BY <2>2, <1>3 DEF SearchIsGood, Built, K!TypeOK, K!Tuples
  <2> QED BY <2>1, <2>2
<1> QED BY <1>1, <1>2, <1>4, <1>7

LEMMA BuildStep ==
    ASSUME K!IndexAssumption, IndexInv, NEW s \in Searchers, K!Build(s) PROVE IndexInv'
<1> USE DEF K!IndexAssumption, IndexInv, K!Build, K!BuiltAt, K!writerVars
<1>1. K!TypeOK'
  BY DEF K!TypeOK, K!Tuples, K!Rows
<1>2. ReturnedIsCommitted' /\ DueHasReturned'
  BY DEF ReturnedIsCommitted, DueHasReturned
<1>3. \A h \in Handles, t \in K!Tuples : Good(t, h)' = Good(t, h)
  BY DEF Good
<1>4. CacheIsGood'
  BY <1>3 DEF CacheIsGood, SearchIsGood, Built, K!TypeOK, K!Tuples
<1>5. SearchIsGood'
  BY <1>3 DEF SearchIsGood, Built, K!TypeOK, K!Tuples
<1> QED BY <1>1, <1>2, <1>4, <1>5

-----------------------------------------------------------------------------
LEMMA NextIndex == ASSUME K!IndexAssumption, IndexInv, [K!Next]_K!vars PROVE IndexInv'
<1>1. CASE UNCHANGED K!vars
  BY <1>1 DEF IndexInv, K!vars, K!writerVars, K!searcherVars, K!TypeOK, ReturnedIsCommitted,
              DueHasReturned, CacheIsGood, SearchIsGood, Good, Near, Built
<1>2. CASE K!Next
  BY <1>2, CommitStep, BumpReadStep, BumpWriteStep, LookStep, CachedStep, StaleStep,
     ReadRowsStep, BuildStep DEF K!Next
<1> QED BY <1>1, <1>2

(* Every behaviour keeps the inductive invariant.                          *)
THEOREM IndexInvariance == K!IndexAssumption => (K!Spec => []IndexInv)
<1> SUFFICES ASSUME K!IndexAssumption PROVE K!Spec => []IndexInv
  OBVIOUS
<1>1. K!Init => IndexInv
  BY InitIndex
<1>2. IndexInv /\ [K!Next]_K!vars => IndexInv'
  BY NextIndex
<1> QED BY <1>1, <1>2, PTL DEF K!Spec

(* A search answers with every write that had returned, through the same   *)
(* open Store, before it began, unless the version of that Store has ever  *)
(* gone down: for every number of threads and of Stores of the file.       *)
THEOREM SearchesSeeReturned == ReadingSpec => []SearchSeesReturned
<1> DEFINE Inv == part = "index" => IndexInv
           all == <<part, vars, indexVars, searchVars, toolsVars, poolVars>>
<1>1. ReadingInit => Inv
  BY ReadingAssumptions, InitIndex DEF ReadingInit
<1>2. Inv /\ [ReadingNext]_all => Inv'
  <2> SUFFICES ASSUME Inv, [ReadingNext]_all, part' = "index" PROVE IndexInv'
    OBVIOUS
  <2>1. part = "index" /\ (K!Next \/ UNCHANGED K!vars)
    BY DEF ReadingNext, indexVars, K!vars, K!writerVars, K!searcherVars
  <2> QED BY <2>1, ReadingAssumptions, NextIndex
<1>3. Inv => SearchSeesReturned
  BY DEF IndexInv, SearchIsGood, SearchSeesReturned, K!SearchSeesReturned
<1> QED BY <1>1, <1>2, <1>3, PTL DEF ReadingSpec

-----------------------------------------------------------------------------
(* AnswerLoop.                                                             *)

AnswerTypes ==
    /\ phase \in {"consult", "decide", "calls", "settle", "cut", "done", "read"}
    /\ records \subseteq Evidence /\ history \subseteq Calls
    /\ claims \in [Claims -> [status : {"none", "hypothesis", "supported"},
                              ev : SUBSET Evidence, material : BOOLEAN]]
    /\ pending \in Seq(Calls)
    /\ draft \in [end : {"none", "proposed", "planner_final", "stall_stop", "max_steps"},
                  sufficient : BOOLEAN, selected : SUBSET Evidence, why : BOOLEAN]

(* Nothing is retrieved before the question's own search.                  *)
SearchIsFirst ==
    "search" \notin caps =>
        /\ records = {} /\ pending \in {<<>>, <<FirstSearch>>}
        /\ phase # "settle" /\ (Ended => draft.selected = {})

(* Claims rest on rows that were retrieved.                                *)
ClaimsAreRetrieved == \A c \in Claims : claims[c].ev \subseteq records

Verdict ==
    /\ SufficientIsEarned /\ AbstentionIsProven
    /\ SelectionCoversClaims /\ ClaimsReachReader

(* The inductive invariant.                                                *)
AnswerInv == AnswerTypes /\ SearchIsFirst /\ ClaimsAreRetrieved /\ Verdict

(* Until a question is answered there is no verdict to be right about.     *)
LEMMA NoVerdictYet ==
    ASSUME phase \in {"consult", "decide", "calls", "settle", "cut"} PROVE Verdict /\ ~Ended
BY DEF Verdict, SufficientIsEarned, AbstentionIsProven, SelectionCoversClaims,
       ClaimsReachReader, Ended

LEMMA InitAnswer == ASSUME Init PROVE AnswerInv
BY NoVerdictYet DEF Init, AnswerInv, AnswerTypes, SearchIsFirst, ClaimsAreRetrieved, NoClaim,
                    NoDecision

LEMMA QuietStep ==
    ASSUME AnswerInv, Garbled \/ Rebuff \/ EndStep PROVE AnswerInv'
<1>1. phase' \in {"consult", "cut"} /\ pending' = pending /\ claims' = claims /\ draft' = draft
        /\ records' = records /\ history' = history /\ caps' = caps
  BY DEF Garbled, Rebuff, EndStep, NextStep, plannerVars, toolVars
<1>2. (Verdict /\ ~Ended)'
  BY <1>1 DEF Verdict, SufficientIsEarned, AbstentionIsProven, SelectionCoversClaims,
               ClaimsReachReader, Ended
<1> QED BY <1>1, <1>2 DEF AnswerInv, AnswerTypes, SearchIsFirst, ClaimsAreRetrieved

LEMMA UpdateStep == ASSUME AnswerInv, Update PROVE AnswerInv'
<1>1. phase' = "decide" /\ UNCHANGED <<pending, draft, records, history, caps>>
  BY DEF Update, toolVars
<1>2. (Verdict /\ ~Ended)'
  BY <1>1 DEF Verdict, SufficientIsEarned, AbstentionIsProven, SelectionCoversClaims,
               ClaimsReachReader, Ended
<1>3. \A ids \in SUBSET Evidence, m \in BOOLEAN :
        /\ Asserted(ids, m) \in [status : {"none", "hypothesis", "supported"},
                                 ev : SUBSET Evidence, material : BOOLEAN]
        /\ Asserted(ids, m).ev \subseteq records
  BY DEF Asserted, NoClaim
<1>4. claims' \in [Claims -> [status : {"none", "hypothesis", "supported"},
                              ev : SUBSET Evidence, material : BOOLEAN]]
        /\ \A c \in Claims : claims'[c].ev \subseteq records
  <2> DEFINE Some == [status : {"none", "hypothesis", "supported"},
                      ev : SUBSET Evidence, material : BOOLEAN]
  <2>1. NoClaim \in Some /\ [NoClaim EXCEPT !.status = "hypothesis"] \in Some
          /\ NoClaim.ev = {} /\ [NoClaim EXCEPT !.status = "hypothesis"].ev = {}
    BY DEF NoClaim
  <2>2. claims' = claims
          \/ \E c \in Claims, n \in Some : claims' = [claims EXCEPT ![c] = n] /\ n.ev \subseteq records
    BY <1>3, <2>1 DEF Update
  <2> QED BY <2>2 DEF AnswerInv, AnswerTypes, ClaimsAreRetrieved
<1> QED BY <1>1, <1>2, <1>4 DEF AnswerInv, AnswerTypes, SearchIsFirst, ClaimsAreRetrieved

LEMMA ProposeCallsStep == ASSUME AnswerInv, ProposeCalls PROVE AnswerInv'
<1>1. phase' = "calls" /\ UNCHANGED <<claims, draft, records, history, caps>>
  BY DEF ProposeCalls, toolVars, plannerVars
<1>2. (Verdict /\ ~Ended)'
  BY <1>1 DEF Verdict, SufficientIsEarned, AbstentionIsProven, SelectionCoversClaims,
               ClaimsReachReader, Ended
<1>3. PICK n \in 1..MaxCalls : \E s \in [1..n -> Calls] : pending' = Enforced(s)
  BY DEF ProposeCalls
<1>5. PICK cs \in [1..n -> Calls] : pending' = Enforced(cs)
  BY <1>3
<1>4. n \in Nat /\ cs \in Seq(Calls)
  BY ConfigAssumption
<1>6. pending' \in Seq(Calls) /\ ("search" \notin caps => pending' = <<FirstSearch>>)
  BY <1>5, <1>4, CallAssumption DEF Enforced
<1> QED BY <1>1, <1>2, <1>6 DEF AnswerInv, AnswerTypes, SearchIsFirst, ClaimsAreRetrieved

(* The calls that a final owes are calls.                                  *)
LEMMA AutoCallsAreCalls == AutoCalls \in Seq(Calls)
BY CallAssumption DEF AutoCalls, Families

LEMMA ProposeFinalStep == ASSUME AnswerInv, ProposeFinal PROVE AnswerInv'
<1>1. phase' = "settle" /\ "search" \in caps /\ UNCHANGED <<claims, records, history, caps>>
  BY DEF ProposeFinal, toolVars, plannerVars
<1>2. (Verdict /\ ~Ended)'
  BY <1>1 DEF Verdict, SufficientIsEarned, AbstentionIsProven, SelectionCoversClaims,
               ClaimsReachReader, Ended
<1>3. pending' \in Seq(Calls)
  BY AutoCallsAreCalls DEF ProposeFinal
<1>4. draft' \in [end : {"none", "proposed", "planner_final", "stall_stop", "max_steps"},
                  sufficient : BOOLEAN, selected : SUBSET Evidence, why : BOOLEAN]
  BY DEF ProposeFinal
<1> QED BY <1>1, <1>2, <1>3, <1>4 DEF AnswerInv, AnswerTypes, SearchIsFirst, ClaimsAreRetrieved

(* The first search proves "search"; other calls only add to it.           *)
LEMMA RunAdds ==
    ASSUME AnswerInv, NEW c \in Calls, Run(c)
    PROVE  /\ records \subseteq records' /\ records' \subseteq Evidence /\ history' \subseteq Calls
           /\ caps \subseteq caps' /\ (c = FirstSearch /\ records' # records => "search" \in caps')
BY CallAssumption DEF AnswerInv, AnswerTypes, Run, Proven, Proves

LEMMA CallStep == ASSUME AnswerInv, CallTool \/ SettleDebt PROVE AnswerInv'
<1> DEFINE c == Head(pending)
<1>1. /\ pending # <<>> /\ pending' = Tail(pending) /\ phase \in {"calls", "settle"}
      /\ UNCHANGED <<phase, claims, draft>>
      /\ Run(c) \/ UNCHANGED <<records, history, caps>>
  BY DEF CallTool, SettleDebt, toolVars, plannerVars
<1>2. (Verdict /\ ~Ended)'
  BY <1>1 DEF Verdict, SufficientIsEarned, AbstentionIsProven, SelectionCoversClaims,
               ClaimsReachReader, Ended
<1>3. c \in Calls /\ Tail(pending) \in Seq(Calls)
  BY <1>1 DEF AnswerInv, AnswerTypes
<1>4. /\ records \subseteq records' /\ records' \subseteq Evidence /\ history' \subseteq Calls
      /\ caps \subseteq caps' /\ (c = FirstSearch /\ records' # records => "search" \in caps')
  BY <1>1, <1>3, RunAdds DEF AnswerInv, AnswerTypes
<1>5. AnswerTypes' /\ ClaimsAreRetrieved'
  BY <1>1, <1>3, <1>4 DEF AnswerInv, AnswerTypes, ClaimsAreRetrieved
<1>6. SearchIsFirst'
  <2> SUFFICES ASSUME "search" \notin caps' PROVE SearchIsFirst'
    BY DEF SearchIsFirst
  <2>1. records = {} /\ pending = <<FirstSearch>> /\ phase # "settle"
    BY <1>1, <1>4 DEF AnswerInv, SearchIsFirst
  <2>2. c = FirstSearch /\ pending' = <<>>
    BY <1>1, <2>1
  <2> QED BY <1>1, <1>2, <1>4, <2>1, <2>2 DEF SearchIsFirst
<1> QED BY <1>2, <1>5, <1>6 DEF AnswerInv

(* What a final may select was retrieved, and what it selects is some of   *)
(* its picks and of the evidence of its claims.                            *)
LEMMA SelectionIsRetrieved ==
    ASSUME AnswerInv, NEW picks \in SUBSET records, NEW S \in Selections(picks)
    PROVE  S \subseteq records
<1>1. EvidenceOf(Material) \subseteq records
  BY DEF AnswerInv, ClaimsAreRetrieved, EvidenceOf, Material, Supported
<1> QED BY <1>1 DEF Selections

LEMMA JudgeStep == ASSUME AnswerInv, Judge PROVE AnswerInv'
<1>0. phase = "settle" /\ UNCHANGED <<config, records, claims, kind, unsettled, caps, history, emptied, pending>>
  BY DEF Judge, toolVars, plannerVars
<1>1. PICK S \in Selections(draft.selected) :
        LET final == [draft EXCEPT !.end = "planner_final", !.selected = S]
        IN  IF draft.selected \subseteq records /\ Accepts(final)
            THEN draft' = final /\ phase' = "done" /\ UNCHANGED step
            ELSE draft' = NoDecision /\ NextStep
  BY DEF Judge
<1> DEFINE final == [draft EXCEPT !.end = "planner_final", !.selected = S]
<1>2. CASE draft.selected \subseteq records /\ Accepts(final)
  <2>1. draft' = final /\ phase' = "done"
    BY <1>1, <1>2
  <2>2. S \subseteq records
    BY <1>2, SelectionIsRetrieved
  <2>3. draft'.end = "planner_final" /\ draft'.selected = S /\ draft'.sufficient = draft.sufficient
    BY <2>1 DEF AnswerInv, AnswerTypes
  <2>4. "search" \in caps
    BY <1>0 DEF AnswerInv, SearchIsFirst
  <2>5. AnswerTypes'
    BY <1>0, <2>1, <2>2 DEF AnswerInv, AnswerTypes
  <2>6. ~Owes /\ Accepts(draft')
    BY <1>2, <2>1 DEF Accepts
  <2>7. SufficientIsEarned'
    BY <1>0, <2>2, <2>3, <2>4, <2>6
    DEF SufficientIsEarned, Accepts, Owes, Missing, Material, Supported
  <2>8. AbstentionIsProven'
    BY <1>0, <2>6 DEF AbstentionIsProven, Accepts, Unproven
  <2>9. SelectionCoversClaims' /\ ClaimsReachReader'
    BY <1>0, <2>1, <2>3, <2>6
    DEF SelectionCoversClaims, ClaimsReachReader, Accepts, EvidenceOf, Material, Supported
  <2> QED BY <1>0, <2>4, <2>5, <2>7, <2>8, <2>9 DEF AnswerInv, Verdict, SearchIsFirst, ClaimsAreRetrieved
<1>3. CASE ~(draft.selected \subseteq records /\ Accepts(final))
  <2>1. draft' = NoDecision /\ phase' = "consult"
    BY <1>1, <1>3 DEF NextStep
  <2>2. (Verdict /\ ~Ended)'
    BY <2>1 DEF Verdict, SufficientIsEarned, AbstentionIsProven, SelectionCoversClaims,
               ClaimsReachReader, Ended
  <2> QED BY <1>0, <2>1, <2>2
          DEF AnswerInv, AnswerTypes, SearchIsFirst, ClaimsAreRetrieved, NoDecision
<1> QED BY <1>2, <1>3

LEMMA FallbackStep == ASSUME AnswerInv, Fallback PROVE AnswerInv'
<1>0. phase' = "done" /\ UNCHANGED <<config, records, claims, kind, unsettled, caps, history, emptied, pending>>
  BY DEF Fallback, toolVars, plannerVars
<1>1. PICK S \in FallbackPool :
        LET insufficient == Lacking(S) /\ ~Overridden(S)
        IN  draft' = [end |-> IF phase = "cut" THEN "stall_stop" ELSE "max_steps",
                      sufficient |-> ~insufficient, selected |-> S,
                      why |-> SaysWhy(S, insufficient)]
  BY DEF Fallback
<1>2. S \subseteq records
  BY DEF FallbackPool, AnswerInv, ClaimsAreRetrieved, EvidenceOf, Supported
<1>3. /\ draft'.end \in {"stall_stop", "max_steps"} /\ draft'.selected = S
      /\ draft'.sufficient = (~Lacking(S) \/ Overridden(S))
  BY <1>1
<1>4. AnswerTypes'
  <2>1. \A i : SaysWhy(S, i) \in BOOLEAN
    BY DEF SaysWhy
  <2> QED BY <1>0, <1>1, <1>2, <2>1 DEF AnswerInv, AnswerTypes
<1>5. S # {} => "search" \in caps
  BY <1>2 DEF AnswerInv, SearchIsFirst
<1>6. SufficientIsEarned'
  BY <1>0, <1>2, <1>3, <1>5 DEF SufficientIsEarned, Lacking, Overridden, Owes, Missing
<1>7. AbstentionIsProven'
  BY <1>0, <1>3 DEF AbstentionIsProven, Lacking, Overridden, Unproven, Owes, Missing
<1>8. SelectionCoversClaims'
  <2>1. EvidenceOf(Material) \subseteq EvidenceOf(Supported)
    BY DEF EvidenceOf, Material
  <2>2. EvidenceOf(Material) \subseteq S
    BY <2>1 DEF FallbackPool
  <2> QED BY <1>0, <1>3, <2>2 DEF SelectionCoversClaims, EvidenceOf, Material, Supported
<1>9. ClaimsReachReader'
  BY <1>0 DEF ClaimsReachReader
<1> QED BY <1>0, <1>2, <1>3, <1>4, <1>6, <1>7, <1>8, <1>9
        DEF AnswerInv, Verdict, SearchIsFirst, ClaimsAreRetrieved

LEMMA ReadStep == ASSUME AnswerInv, Read PROVE AnswerInv'
<1>1. phase = "done" /\ phase' = "read"
        /\ UNCHANGED <<config, records, claims, kind, unsettled, caps, history, emptied, pending, draft>>
  BY DEF Read, toolVars, plannerVars
<1>2. ClaimsReachReader'
  <2>1. PICK recall \in BOOLEAN :
            LET there == Kept(Pool, recall)
            IN  \A e \in there : Text[e] # NoText =>
                    Cardinality({r \in shown' : Text[r] = Text[e]}) = 1
    BY DEF Read
  <2>2. \A e \in EvidenceOf(Supported) \ External : e \in Kept(Pool, recall)
    BY DEF AnswerInv, ClaimsAreRetrieved, EvidenceOf, Supported, Kept, Pool
  <2>3. \A e : Cardinality({r \in shown' : Text[r] = Text[e]}) = 1
                => \E r \in shown' : Text[r] = Text[e]
    <3>1. Cardinality({}) = 0
      BY FS_EmptySet
    <3> QED BY <3>1
  <2>4. \A e \in EvidenceOf(Supported) \ External :
            Text[e] # NoText => \E r \in shown' : Text[r] = Text[e]
    BY <2>1, <2>2, <2>3
  <2>5. EvidenceOf(Supported)' = EvidenceOf(Supported)
    BY <1>1 DEF EvidenceOf, Supported
  <2> QED BY <2>4, <2>5 DEF ClaimsReachReader
<1> QED BY <1>1, <1>2 DEF AnswerInv, AnswerTypes, SearchIsFirst, ClaimsAreRetrieved, Verdict,
        SufficientIsEarned, AbstentionIsProven, SelectionCoversClaims, Ended, Owes, Missing,
        EvidenceOf, Material, Supported

LEMMA NextAnswer == ASSUME AnswerInv, [Next]_vars PROVE AnswerInv'
<1>1. CASE UNCHANGED vars
  BY <1>1 DEF vars, toolVars, plannerVars, AnswerInv, AnswerTypes, SearchIsFirst, ClaimsAreRetrieved,
              Verdict, SufficientIsEarned, AbstentionIsProven, SelectionCoversClaims,
              ClaimsReachReader, Ended, Owes, Missing, EvidenceOf, Material, Supported
<1>2. CASE Next
  BY <1>2, QuietStep, UpdateStep, ProposeCallsStep, ProposeFinalStep, CallStep, JudgeStep,
     FallbackStep, ReadStep DEF Next
<1> QED BY <1>1, <1>2

(* The verdict holds in every state of an answer.                          *)
THEOREM VerdictHolds == ReadingSpec => []Verdict
<1> DEFINE all == <<part, vars, indexVars, searchVars, toolsVars, poolVars>>
<1>1. ReadingInit => AnswerInv
  BY InitAnswer DEF ReadingInit
<1>2. AnswerInv /\ [ReadingNext]_all => AnswerInv'
  <2>1. [ReadingNext]_all => [Next]_vars
    BY DEF ReadingNext
  <2> QED BY <2>1, NextAnswer
<1>3. AnswerInv => Verdict
  BY DEF AnswerInv
<1> QED BY <1>1, <1>2, <1>3, PTL DEF ReadingSpec

(* Whatever the planner proposes and the tools return, for every setting   *)
(* and every number of rows, claims and calls: sufficient is what has all  *)
(* that it owes, and with the gate insufficient is what lacks it.          *)
THEOREM VerdictsAreEarned == ReadingSpec => []VerdictIsEarned
<1>1. Verdict => VerdictIsEarned
  BY DEF Verdict, VerdictIsEarned
<1> QED BY <1>1, VerdictHolds, PTL

(* What a sufficient answer claims it selects, and the reader sees what    *)
(* the claims rest on.                                                     *)
THEOREM ClaimsHoldUp == ReadingSpec => []ClaimsAreSupported
<1>1. Verdict => ClaimsAreSupported
  BY DEF Verdict, ClaimsAreSupported
<1> QED BY <1>1, VerdictHolds, PTL

-----------------------------------------------------------------------------
(* Retrieval.  A unit of a fact is found only if the fact was active, and  *)
(* until the merge who is credited is found.                               *)
ActiveIsNoted ==
    /\ status \in [Facts -> {"active", "archived", "absent"}]
    /\ \A f \in Facts : "active" \in {status[f], before[f]} => f \in wasActive

FoundWasActive ==
    /\ \A f \in Facts : heads[R!Unit("fact", f)] # {} => f \in wasActive
    /\ \A u \in R!Units : members[u] \subseteq wasActive

CreditedIsFound ==
    stage <= 8 =>
        /\ credited = {f \in Facts : heads[R!Unit("fact", f)] # {}}
        /\ \A u \in R!Units : members[u] = {}

(* The turns of raw recall and the spans are never both in the fusion.     *)
RawOrSpan ==
    route = "fusion" =>
        \A s \in Spans : /\ heads[R!Unit("span", s)] # {} => ~raw
                         /\ heads[R!Unit("raw", s)] # {} => raw

(* From the merge on each credited fact is told by one unit that is found; *)
(* a unit whose row is gone stands for no other fact unless the row was    *)
(* erased since.                                                           *)
MergedTellOnce ==
    route = "fusion" /\ stage > 8 =>
        /\ \A f \in credited : \E g \in Facts :
                heads[R!Unit("fact", g)] # {} /\ f \in R!Tells(R!Unit("fact", g))
        /\ \A u, v \in R!Found : u # v => R!Tells(u) \cap R!Tells(v) = {}
        /\ \A g \in Facts : status[g] = "absent" => g \in erased \/ members[R!Unit("fact", g)] = {}

RetrievalInv ==
    /\ stage \in 1..11 /\ route \in {"fusion", "wide"}
    /\ ActiveIsNoted /\ FoundWasActive /\ CreditedIsFound /\ RawOrSpan /\ MergedTellOnce
    /\ R!ShownWasActive /\ R!FoundIsShownOnce

-----------------------------------------------------------------------------
LEMMA StageNumbers == ASSUME NEW i \in 1..11
                      PROVE  /\ i > 7 => i \in {8, 9, 10, 11}
                             /\ i \notin {8, 9, 10} => i \in {1, 2, 3, 4, 5, 6, 7, 11}
                             /\ i > 7 \/ i <= 7
OBVIOUS

LEMMA StageNames ==
    ASSUME NEW i \in 1..11, NEW S, S[1] = "facts", S[2] = "near facts", S[3] = "spans",
           S[4] = "near spans", S[5] = "summaries", S[6] = "entities", S[7] = "turns",
           S[8] = "merge", S[9] = "rank", S[10] = "show", S[11] = "shown"
    PROVE  /\ S[i] = "merge" <=> i = 8
           /\ S[i] = "rank" <=> i = 9
           /\ S[i] = "show" <=> i = 10
           /\ i > 7 => S[i] \in {"merge", "rank", "show", "shown"}
<1>0. i > 7 => i \in {8, 9, 10, 11}
  BY ONLY StageNumbers, i \in 1..11
<1> DEFINE Late == {"merge", "rank", "show"}
<1>1. S[1] \notin Late /\ S[2] \notin Late /\ S[3] \notin Late /\ S[4] \notin Late
  BY Zenon
<1>2. S[5] \notin Late /\ S[6] \notin Late /\ S[7] \notin Late /\ S[11] \notin Late
  BY Zenon
<1>3. S[8] = "merge" /\ S[9] # "merge" /\ S[10] # "merge"
  BY Zenon
<1>4. S[9] = "rank" /\ S[8] # "rank" /\ S[10] # "rank"
  BY Zenon
<1>5. S[10] = "show" /\ S[8] # "show" /\ S[9] # "show"
  BY Zenon
<1>6. ASSUME i \notin {8, 9, 10} PROVE S[i] \notin Late
  <2> HIDE DEF Late
  <2>1. i \in {1, 2, 3, 4, 5, 6, 7, 11}
    BY ONLY <1>6, StageNumbers, i \in 1..11
  <2> QED BY <1>1, <1>2, <2>1, Zenon
<1>7. "merge" \in Late /\ "rank" \in Late /\ "show" \in Late
  BY Zenon
<1>8. S[11] = "shown"
  OBVIOUS
<1> HIDE DEF Late
<1>9. CASE i \notin {8, 9, 10}
  <2>1. S[i] \notin Late /\ (i > 7 => i = 11)
    BY <1>0, <1>6, <1>9
  <2>2. S[i] # "merge" /\ S[i] # "rank" /\ S[i] # "show"
    BY <1>7, <2>1, Zenon
  <2> QED BY <1>9, <2>1, <2>2, Zenon
<1>10. CASE i \in {8, 9, 10}
  <2>1. 8 # 9 /\ 8 # 10 /\ 9 # 10
    OBVIOUS
  <2> QED BY <1>3, <1>4, <1>5, <1>10, <2>1, Zenon
<1> QED BY <1>9, <1>10

LEMMA StagesAre ==
    /\ Len(R!Stages) = 11
    /\ stage \in 1..11 =>
        /\ R!Is("merge") <=> stage = 8
        /\ R!Is("rank") <=> stage = 9
        /\ R!Is("show") <=> stage = 10
        /\ stage > 7 => \A s : R!Is(s) => s \in {"merge", "rank", "show", "shown"}
<1>1. Len(R!Stages) = 11
  BY DEF R!Stages
<1>2. /\ R!Stages[1] = "facts" /\ R!Stages[2] = "near facts" /\ R!Stages[3] = "spans"
      /\ R!Stages[4] = "near spans" /\ R!Stages[5] = "summaries" /\ R!Stages[6] = "entities"
      /\ R!Stages[7] = "turns" /\ R!Stages[8] = "merge" /\ R!Stages[9] = "rank"
      /\ R!Stages[10] = "show" /\ R!Stages[11] = "shown"
  BY DEF R!Stages
<1>3. ASSUME stage \in 1..11
      PROVE  /\ R!Stages[stage] = "merge" <=> stage = 8
             /\ R!Stages[stage] = "rank" <=> stage = 9
             /\ R!Stages[stage] = "show" <=> stage = 10
             /\ stage > 7 => R!Stages[stage] \in {"merge", "rank", "show", "shown"}
  BY ONLY <1>2, <1>3, StageNames, Zenon
<1>4. ASSUME stage \in 1..11, NEW s PROVE R!Is(s) <=> R!Stages[stage] = s
  BY <1>1, <1>4 DEF R!Is
<1> QED BY <1>1, <1>3, <1>4

(* The channels come before the merge.                                     *)
LEMMA ChannelsAreEarly ==
    ASSUME stage \in 1..11,
           NEW s \in {"facts", "near facts", "spans", "near spans", "summaries", "entities", "turns"},
           R!Is(s)
    PROVE  stage <= 7
<1>1. stage > 7 => s \in {"merge", "rank", "show", "shown"}
  BY StagesAre
<1>2. s \notin {"merge", "rank", "show", "shown"}
  BY Zenon
<1>3. stage > 7 \/ stage <= 7
  BY StageNumbers
<1> QED BY <1>1, <1>2, <1>3, Zenon

LEMMA UnitsAre ==
    /\ \A f \in Facts : R!Unit("fact", f) \in R!Units /\ R!Unit("fact", f).kind = "fact" /\ R!Unit("fact", f).id = f
    /\ \A s \in Spans, k \in {"span", "raw"} :
            R!Unit(k, s) \in R!Units /\ R!Unit(k, s).kind = k /\ R!Unit(k, s).id = s
    /\ \A u \in R!Units :
            \/ u.kind = "fact" /\ u.id \in Facts /\ u = R!Unit("fact", u.id)
            \/ u.kind \in {"span", "raw"} /\ u.id \in Spans /\ u = R!Unit(u.kind, u.id)
BY DEF R!Unit, R!Units

LEMMA AtMostTakes == ASSUME NEW n, NEW S, NEW U \in R!AtMost(n, S)
                     PROVE  U \subseteq S /\ (U = S \/ R!Cardinality(U) = n)
BY DEF R!AtMost, R!kSubset

LEMMA CapTakes == ASSUME NEW n, NEW S, NEW U \in R!Cap(n, S) PROVE U \subseteq S
BY AtMostTakes DEF R!Cap

LEMMA InitRetrieval == ASSUME R!RetrievalAssumption, R!Init PROVE RetrievalInv
<1>1. ActiveIsNoted
  BY DEF R!Init, ActiveIsNoted, R!RetrievalAssumption
<1>2. FoundWasActive /\ CreditedIsFound /\ RawOrSpan
  BY UnitsAre DEF R!Init, FoundWasActive, CreditedIsFound, RawOrSpan
<1>3. MergedTellOnce /\ R!ShownWasActive /\ R!FoundIsShownOnce
  BY StagesAre DEF R!Init, MergedTellOnce, R!ShownWasActive, R!FoundIsShownOnce, R!Over
<1> QED BY <1>1, <1>2, <1>3 DEF R!Init, RetrievalInv

(* What a channel may credit: facts that were read as active, and spans    *)
(* or turns as the mode has them.                                          *)
Sound(credit) ==
    /\ \A f \in Facts : \A h : <<R!Unit("fact", f), h>> \in credit => "active" \in {status[f], before[f]}
    /\ route = "fusion" => \A s \in Spans : \A h :
            /\ <<R!Unit("span", s), h>> \in credit => ~raw
            /\ <<R!Unit("raw", s), h>> \in credit => raw
    /\ \A c \in credit : \E u \in R!Units : \E h : c = <<u, h>>

LEMMA ChannelStep ==
    ASSUME RetrievalInv, stage <= 7, NEW credit, R!Channel(credit), Sound(credit)
    PROVE  RetrievalInv'
<1>1. /\ heads' = [u \in R!Units |-> heads[u] \cup {c[2] : c \in {d \in credit : d[1] = u}}]
      /\ credited' = credited \cup {f \in Facts : heads'[R!Unit("fact", f)] # {}}
      /\ stage' = stage + 1
      /\ UNCHANGED <<route, raw, status, before, members, rank, evidence, wasActive, erased, writes>>
  BY DEF R!Channel
<1>2. ASSUME NEW u \in R!Units, heads'[u] # {}, heads[u] = {} PROVE \E h : <<u, h>> \in credit
  <2>1. PICK c \in credit : c[1] = u
    BY <1>1, <1>2
  <2>2. PICK v \in R!Units : \E h : c = <<v, h>>
    BY DEF Sound
  <2> QED BY <2>1, <2>2
<1>3. \A u \in R!Units : heads[u] \subseteq heads'[u]
  BY <1>1
<1>4. stage' \in 1..8
  BY <1>1 DEF RetrievalInv
<1>5. ActiveIsNoted'
  BY <1>1 DEF RetrievalInv, ActiveIsNoted
<1>6. FoundWasActive'
  <2>1. ASSUME NEW f \in Facts, heads'[R!Unit("fact", f)] # {} PROVE f \in wasActive
    <3>1. CASE heads[R!Unit("fact", f)] # {}
      BY <3>1 DEF RetrievalInv, FoundWasActive
    <3>2. CASE heads[R!Unit("fact", f)] = {}
      <4>1. \E h : <<R!Unit("fact", f), h>> \in credit
        BY <1>2, <2>1, <3>2, UnitsAre
      <4> QED BY <4>1 DEF Sound, RetrievalInv, ActiveIsNoted
    <3> QED BY <3>1, <3>2
  <2> QED BY <1>1, <2>1 DEF RetrievalInv, FoundWasActive
<1>7. CreditedIsFound'
  <2>1. credited = {f \in Facts : heads[R!Unit("fact", f)] # {}} /\ \A u \in R!Units : members[u] = {}
    BY DEF RetrievalInv, CreditedIsFound
  <2>2. credited \subseteq {f \in Facts : heads'[R!Unit("fact", f)] # {}}
    BY <1>3, <2>1, UnitsAre
  <2> QED BY <1>1, <2>1, <2>2 DEF CreditedIsFound
<1>8. RawOrSpan'
  <2>1. ASSUME route = "fusion", NEW s \in Spans, NEW k \in {"span", "raw"}, heads'[R!Unit(k, s)] # {}
        PROVE  raw <=> k = "raw"
    <3>0. (raw => k # "span") /\ (~raw => k # "raw") => (raw <=> k = "raw")
      BY <2>1
    <3>1. CASE heads[R!Unit(k, s)] # {}
      BY <2>1, <3>0, <3>1 DEF RetrievalInv, RawOrSpan
    <3>2. CASE heads[R!Unit(k, s)] = {}
      <4>1. \E h : <<R!Unit(k, s), h>> \in credit
        BY <1>2, <2>1, <3>2, UnitsAre
      <4> QED BY <2>1, <3>0, <4>1 DEF Sound
    <3> QED BY <3>1, <3>2
  <2> QED BY <1>1, <2>1 DEF RawOrSpan
<1>9. MergedTellOnce' /\ R!ShownWasActive' /\ R!FoundIsShownOnce'
  <2>1. ~(stage' > 8) /\ stage' # 11
    BY <1>4
  <2> QED BY <2>1, StagesAre DEF MergedTellOnce, R!ShownWasActive, R!FoundIsShownOnce, R!Over
<1> QED BY <1>1, <1>4, <1>5, <1>6, <1>7, <1>8, <1>9 DEF RetrievalInv

(* The pairs that link facts to a head.                                    *)
LEMMA FactsAreSound ==
    ASSUME NEW S \in SUBSET Facts, \A f \in S : "active" \in {status[f], before[f]}, NEW h
    PROVE  Sound({<<u, h>> : u \in R!FactUnits(S)})
<1>1. R!FactUnits(S) \subseteq R!Units
  BY UnitsAre DEF R!FactUnits
<1>2. \A f \in Facts : R!Unit("fact", f) \in R!FactUnits(S) => f \in S
  BY UnitsAre DEF R!FactUnits
<1>3. \A s \in Spans, k \in {"span", "raw"} : R!Unit(k, s) \notin R!FactUnits(S)
  BY UnitsAre DEF R!FactUnits
<1> QED BY <1>1, <1>2, <1>3 DEF Sound

LEMMA UnionIsSound == ASSUME NEW X, \A c \in X : Sound(c) PROVE Sound(UNION X)
BY DEF Sound

LEMMA BothAreSound == ASSUME NEW c, NEW d, Sound(c), Sound(d) PROVE Sound(c \cup d)
BY DEF Sound

LEMMA NothingIsSound == Sound({})
BY DEF Sound

LEMMA EachIsSound ==
    ASSUME NEW S \in SUBSET Facts, \A f \in S : "active" \in {status[f], before[f]}, NEW signal
    PROVE  Sound({<<R!Unit("fact", f), R!HeadOf(signal, R!Unit("fact", f))>> : f \in S})
<1>1. \A f \in Facts : \A h :
            <<R!Unit("fact", f), h>> \in {<<R!Unit("fact", e), R!HeadOf(signal, R!Unit("fact", e))>> : e \in S}
                => f \in S
  BY UnitsAre
<1>2. \A s \in Spans, k \in {"span", "raw"} : \A h :
            <<R!Unit(k, s), h>> \notin {<<R!Unit("fact", e), R!HeadOf(signal, R!Unit("fact", e))>> : e \in S}
  BY UnitsAre
<1> QED BY <1>1, <1>2, UnitsAre DEF Sound

LEMMA FactChannelsStep == ASSUME R!RetrievalAssumption, RetrievalInv, R!FactChannels PROVE RetrievalInv'
<1>1. stage <= 7
  BY ChannelsAreEarly DEF R!FactChannels, RetrievalInv
<1>2. ASSUME NEW signal, NEW state, state \in {status, before}, R!FactChannel(signal, state)
      PROVE  RetrievalInv'
  <2>1. PICK hits \in SUBSET Facts : \E taken \in R!Cap(MaxHeads, R!Qualify(hits, state)) :
            R!Channel({<<R!Unit("fact", f), R!HeadOf(signal, R!Unit("fact", f))>> : f \in taken})
    BY <1>2 DEF R!FactChannel
  <2>2. PICK taken \in R!Cap(MaxHeads, R!Qualify(hits, state)) :
            R!Channel({<<R!Unit("fact", f), R!HeadOf(signal, R!Unit("fact", f))>> : f \in taken})
    BY <2>1
  <2>3. taken \in SUBSET Facts /\ \A f \in taken : state[f] = "active"
    BY CapTakes DEF R!Qualify
  <2>4. Sound({<<R!Unit("fact", f), R!HeadOf(signal, R!Unit("fact", f))>> : f \in taken})
    BY <1>2, <2>3, EachIsSound
  <2> QED BY <1>1, <2>2, <2>4, ChannelStep
<1> QED BY <1>2 DEF R!FactChannels

LEMMA SpanCreditIsSound ==
    ASSUME RetrievalInv, NEW signal, NEW s \in Spans, NEW facts \in SUBSET R!Active
    PROVE  Sound(R!SpanCredit(signal, s, facts))
<1> DEFINE own == {<<R!Unit("span", s), R!HeadOf(signal, R!Unit("span", s))>>}
           linked == {<<R!Unit("fact", f), R!HeadOf(signal, R!Unit("fact", f))>> : f \in facts}
<1>1. Sound(linked)
  BY EachIsSound DEF R!Active
<1>2. route = "wide" \/ ~raw => Sound(own)
  BY UnitsAre DEF Sound
<1>3. R!SpanCredit(signal, s, facts) =
        CASE route = "wide" -> own \cup linked
          [] route = "fusion" /\ facts # {} -> linked
          [] route = "fusion" /\ facts = {} -> IF raw THEN {} ELSE own
  BY DEF R!SpanCredit
<1> HIDE DEF own, linked
<1>4. CASE route = "wide"
  <2>1. Sound(own \cup linked)
    BY <1>1, <1>2, <1>4, BothAreSound
  <2> QED BY <1>3, <1>4, <2>1
<1>5. CASE route = "fusion"
  BY <1>1, <1>2, <1>3, <1>5, NothingIsSound
<1> QED BY <1>4, <1>5 DEF RetrievalInv

LEMMA SpanChannelsStep == ASSUME RetrievalInv, R!SpanChannels PROVE RetrievalInv'
<1>1. stage <= 7
  BY ChannelsAreEarly DEF R!SpanChannels, RetrievalInv
<1>2. ASSUME NEW signal, R!SpanChannel(signal) PROVE RetrievalInv'
  <2> DEFINE Credit(facts, S) == UNION {R!SpanCredit(signal, s, facts[s]) : s \in S}
             Take(hits, facts, done) ==
                /\ \A s \in hits : facts[s] \in R!Cap(TopK, R!FactsForSpan(s))
                /\ R!Channel(Credit(facts, done))
  <2>a. PICK hits \in SUBSET Spans :
            \E facts \in [hits -> SUBSET Facts] : \E done \in SUBSET hits : Take(hits, facts, done)
    BY <1>2 DEF R!SpanChannel
  <2>b. PICK facts \in [hits -> SUBSET Facts] : \E done \in SUBSET hits : Take(hits, facts, done)
    BY <2>a
  <2>c. PICK done \in SUBSET hits : Take(hits, facts, done)
    BY <2>b
  <2>1. /\ \A s \in hits : facts[s] \in R!Cap(TopK, R!FactsForSpan(s))
        /\ R!Channel(UNION {R!SpanCredit(signal, s, facts[s]) : s \in done})
    BY <2>c
  <2>2. \A s \in done : facts[s] \in SUBSET R!Active
    BY <2>1, CapTakes DEF R!FactsForSpan
  <2>3. \A c \in {R!SpanCredit(signal, s, facts[s]) : s \in done} : Sound(c)
    BY <2>2, SpanCreditIsSound
  <2>4. Sound(UNION {R!SpanCredit(signal, s, facts[s]) : s \in done})
    BY <2>3, UnionIsSound
  <2> QED BY <1>1, <2>1, <2>4, ChannelStep
<1> QED BY <1>2 DEF R!SpanChannels

LEMMA SummaryChannelStep ==
    ASSUME R!RetrievalAssumption, RetrievalInv, R!SummaryChannel PROVE RetrievalInv'
<1>1. stage <= 7
  BY ChannelsAreEarly DEF R!SummaryChannel, RetrievalInv
<1> DEFINE credit(led, m) == {<<R!Unit("fact", f), R!HeadOf("summary", m)>> : f \in R!Qualify(led[m], status)}
<1>a. PICK hits \in SUBSET Summaries :
        \E led \in [hits -> SUBSET Facts] : R!Channel(UNION {credit(led, m) : m \in hits})
  BY DEF R!SummaryChannel
<1>2. PICK led \in [hits -> SUBSET Facts] : R!Channel(UNION {credit(led, m) : m \in hits})
  BY <1>a
<1>3. ASSUME NEW m \in hits PROVE Sound(credit(led, m))
  <2>0. led[m] \subseteq Facts
    BY <1>2
  <2>1. R!Qualify(led[m], status) \in SUBSET Facts /\ \A f \in R!Qualify(led[m], status) : status[f] = "active"
    BY <2>0 DEF R!Qualify
  <2>2. Sound({<<u, R!HeadOf("summary", m)>> : u \in R!FactUnits(R!Qualify(led[m], status))})
    BY <2>1, FactsAreSound
  <2>3. credit(led, m) = {<<u, R!HeadOf("summary", m)>> : u \in R!FactUnits(R!Qualify(led[m], status))}
    BY DEF R!FactUnits
  <2> QED BY <2>2, <2>3
<1> HIDE DEF credit
<1>4. Sound(UNION {credit(led, m) : m \in hits})
  BY <1>3, UnionIsSound
<1> QED BY <1>1, <1>2, <1>4, ChannelStep

LEMMA EntityChannelStep ==
    ASSUME R!RetrievalAssumption, RetrievalInv, R!EntityChannel PROVE RetrievalInv'
<1>1. stage <= 7
  BY ChannelsAreEarly DEF R!EntityChannel, RetrievalInv
<1>2. PICK order : R!Channel(R!EntityCredit(order))
  BY DEF R!EntityChannel
<1> DEFINE second(i) == R!SecondHop(order[i], R!SeenAt(order)[i - 1])
           facts(i) == R!Near(order[i]) \cup UNION {R!Near(o) : o \in second(i)}
           credit(i) == {<<u, R!HeadOf("entity", order[i])>> : u \in R!FactUnits(facts(i))}
<1>3. \A i \in DOMAIN order : Sound(credit(i))
  <2>1. \A i : facts(i) \in SUBSET Facts /\ \A f \in facts(i) : status[f] = "active"
    BY DEF R!Near, R!Active
  <2> HIDE DEF facts
  <2> QED BY <2>1, FactsAreSound
<1>4. R!EntityCredit(order) = UNION {credit(i) : i \in DOMAIN order}
  BY DEF R!EntityCredit
<1> HIDE DEF credit
<1>5. Sound(R!EntityCredit(order))
  BY <1>3, <1>4, UnionIsSound
<1> QED BY <1>1, <1>2, <1>5, ChannelStep

LEMMA MentionChannelStep ==
    ASSUME R!RetrievalAssumption, RetrievalInv, R!MentionChannel PROVE RetrievalInv'
<1>1. stage <= 7 /\ route = "wide"
  BY ChannelsAreEarly DEF R!MentionChannel, RetrievalInv
<1> DEFINE spans(e) == {R!Unit("span", s) : s \in UNION {Sources[f] : f \in About[e]}}
           credit(e) == {<<u, R!HeadOf("mention", e)>> :
                            u \in R!FactUnits(R!Qualify(About[e], status)) \cup spans(e)}
<1>2. PICK named \in SUBSET Entities : R!Channel(UNION {credit(e) : e \in named})
  BY DEF R!MentionChannel
<1>3. ASSUME NEW e \in named PROVE Sound(credit(e))
  <2>1. /\ R!Qualify(About[e], status) \in SUBSET Facts
        /\ \A f \in R!Qualify(About[e], status) : status[f] = "active"
    BY DEF R!Qualify, R!RetrievalAssumption
  <2>2. Sound({<<u, R!HeadOf("mention", e)>> : u \in R!FactUnits(R!Qualify(About[e], status))})
    BY <2>1, FactsAreSound
  <2>3. spans(e) \subseteq {R!Unit("span", s) : s \in Spans}
    BY DEF R!RetrievalAssumption
  <2>4. Sound({<<u, R!HeadOf("mention", e)>> : u \in spans(e)})
    <3> HIDE DEF spans
    <3>1. \A f \in Facts : R!Unit("fact", f) \notin spans(e)
      BY <2>3, UnitsAre
    <3>2. spans(e) \subseteq R!Units
      BY <2>3, UnitsAre
    <3> QED BY <1>1, <3>1, <3>2 DEF Sound
  <2>5. credit(e) = {<<u, R!HeadOf("mention", e)>> : u \in R!FactUnits(R!Qualify(About[e], status))}
                        \cup {<<u, R!HeadOf("mention", e)>> : u \in spans(e)}
    OBVIOUS
  <2> QED BY <2>2, <2>4, <2>5, BothAreSound
<1> HIDE DEF credit
<1>4. Sound(UNION {credit(e) : e \in named})
  BY <1>3, UnionIsSound
<1> QED BY <1>1, <1>2, <1>4, ChannelStep

LEMMA RawChannelStep == ASSUME RetrievalInv, R!RawChannel PROVE RetrievalInv'
<1>1. stage <= 7
  BY ChannelsAreEarly DEF R!RawChannel, RetrievalInv
<1>2. PICK b \in SUBSET Spans, v \in SUBSET Spans :
        R!Channel(IF route = "wide" \/ ~raw THEN {}
                ELSE {<<R!Unit("raw", s), R!HeadOf("bm25", R!Unit("raw", s))>> : s \in b}
                        \cup {<<R!Unit("raw", s), R!HeadOf("vector", R!Unit("raw", s))>> : s \in v})
  <2>1. \A S \in SUBSET Spans : \A U \in R!AtMost(MaxHeads, S) : U \in SUBSET Spans
    BY AtMostTakes
  <2> QED BY <2>1 DEF R!RawChannel
<1>3. CASE route = "wide" \/ ~raw
  BY <1>1, <1>2, <1>3, NothingIsSound, ChannelStep
<1>4. CASE ~(route = "wide" \/ ~raw)
  <2>1. \A S \in SUBSET Spans, signal \in {"bm25", "vector"} :
            Sound({<<R!Unit("raw", s), R!HeadOf(signal, R!Unit("raw", s))>> : s \in S})
    BY <1>4, UnitsAre DEF Sound
  <2>2. Sound({<<R!Unit("raw", s), R!HeadOf("bm25", R!Unit("raw", s))>> : s \in b}
                    \cup {<<R!Unit("raw", s), R!HeadOf("vector", R!Unit("raw", s))>> : s \in v})
    BY <2>1, BothAreSound
  <2> QED BY <1>1, <1>2, <1>4, <2>2, ChannelStep
<1> QED BY <1>3, <1>4

(* The facts of one event, as they are merged.                             *)
Same(f, g) == f = g \/ R!SameEvent(f, g)

LEMMA SameIsAnEquivalence ==
    ASSUME NEW f, NEW g, NEW h, Same(f, g)
    PROVE  Same(g, f) /\ (Same(g, h) => Same(f, h))
BY DEF Same, R!SameEvent

LEMMA MergeStep == ASSUME RetrievalInv, R!Merge PROVE RetrievalInv'
<1>1. stage = 8
  BY StagesAre DEF R!Merge, RetrievalInv
<1>2. /\ stage' = 9
      /\ UNCHANGED <<route, raw, status, before, rank, evidence, dirty, wasActive, credited, erased, writes>>
  BY <1>1 DEF R!Merge
<1> DEFINE facts == {f \in Facts : R!Unit("fact", f) \in R!Found}
           Group(f) == {g \in facts : g = f \/ R!SameEvent(f, g)}
           Stands(best, u) == u.kind = "fact" /\ u.id \in best
           Merged(best, u) == u.kind = "fact" /\ u.id \in facts \ best
           One(best) == \A f \in facts : \E b \in Group(f) : best \cap Group(f) = {b}
           Joined(best) ==
                /\ heads' = [u \in R!Units |->
                            CASE Stands(best, u) -> UNION {heads[R!Unit("fact", g)] : g \in Group(u.id)}
                              [] Merged(best, u) -> {}
                              [] OTHER -> heads[u]]
                /\ members' = [u \in R!Units |-> IF Stands(best, u) THEN R!Members(Group(u.id), u.id) ELSE {}]
<1>3. credited = facts /\ \A u \in R!Units : members[u] = {}
  <2>1. facts = {f \in Facts : heads[R!Unit("fact", f)] # {}}
    BY UnitsAre DEF R!Found
  <2> QED BY <1>1, <2>1 DEF RetrievalInv, CreditedIsFound
<1>4. facts \subseteq Facts /\ \A f \in Facts : f \in facts <=> heads[R!Unit("fact", f)] # {}
  BY UnitsAre DEF R!Found
<1>5. facts \subseteq wasActive
  BY <1>4 DEF RetrievalInv, FoundWasActive
<1>6. ActiveIsNoted'
  BY <1>2 DEF RetrievalInv, ActiveIsNoted
<1>7. CreditedIsFound' /\ R!ShownWasActive' /\ R!FoundIsShownOnce'
  BY <1>2, StagesAre DEF CreditedIsFound, R!ShownWasActive, R!FoundIsShownOnce, R!Over
<1>8. CASE route = "wide"
  <2>1. UNCHANGED <<heads, members>>
    BY <1>8 DEF R!Merge
  <2> QED BY <1>2, <1>6, <1>7, <1>8, <2>1 DEF RetrievalInv, FoundWasActive, RawOrSpan, MergedTellOnce
<1>9. CASE route = "fusion"
  <2>1. PICK best \in SUBSET facts : One(best) /\ Joined(best)
    BY <1>9 DEF R!Merge
  <2>2. \A g \in Facts : /\ heads'[R!Unit("fact", g)] # {} <=> g \in best
                         /\ members'[R!Unit("fact", g)] = IF g \in best THEN Group(g) \ {g} ELSE {}
    <3> SUFFICES ASSUME NEW g \in Facts
                 PROVE  /\ heads'[R!Unit("fact", g)] # {} <=> g \in best
                        /\ members'[R!Unit("fact", g)] = IF g \in best THEN Group(g) \ {g} ELSE {}
      OBVIOUS
    <3> DEFINE u == R!Unit("fact", g)
    <3>1. u \in R!Units /\ u.kind = "fact" /\ u.id = g
      BY UnitsAre
    <3> HIDE DEF u
    <3>2. members'[u] = IF g \in best THEN Group(g) \ {g} ELSE {}
      BY <2>1, <3>1 DEF R!Members
    <3>3. CASE g \in best
      <4>1. heads'[u] = UNION {heads[R!Unit("fact", h)] : h \in Group(g)}
        BY <2>1, <3>1, <3>3
      <4>2. g \in Group(g) /\ heads[R!Unit("fact", g)] # {}
        BY <1>4, <2>1, <3>3
      <4>3. heads'[u] # {}
        <5> HIDE DEF Group
        <5> QED BY <4>1, <4>2
      <4> QED BY <3>2, <3>3, <4>3 DEF u
    <3>4. CASE g \in facts \ best
      <4>1. heads'[u] = {}
        BY <2>1, <3>1, <3>4
      <4> QED BY <3>2, <3>4, <4>1 DEF u
    <3>5. CASE g \notin facts
      <4>1. heads'[u] = heads[u]
        BY <2>1, <3>1, <3>5
      <4> QED BY <1>4, <2>1, <3>2, <3>5, <4>1 DEF u
    <3> QED BY <3>3, <3>4, <3>5
  <2>3. \A s \in Spans, k \in {"span", "raw"} :
            heads'[R!Unit(k, s)] = heads[R!Unit(k, s)] /\ members'[R!Unit(k, s)] = {}
    <3> SUFFICES ASSUME NEW s \in Spans, NEW k \in {"span", "raw"}
                 PROVE  heads'[R!Unit(k, s)] = heads[R!Unit(k, s)] /\ members'[R!Unit(k, s)] = {}
      OBVIOUS
    <3>1. R!Unit(k, s) \in R!Units /\ R!Unit(k, s).kind # "fact"
      BY UnitsAre
    <3>2. ~Stands(best, R!Unit(k, s)) /\ ~Merged(best, R!Unit(k, s))
      BY <3>1
    <3> HIDE DEF Stands, Merged, Group, facts
    <3> QED BY <2>1, <3>1, <3>2
  <2>4. \A g \in best : /\ R!Tells(R!Unit("fact", g))' = Group(g)
                        /\ Group(g) \subseteq facts /\ g \in Group(g)
    <3> SUFFICES ASSUME NEW g \in best PROVE R!Tells(R!Unit("fact", g))' = Group(g) /\ g \in Group(g)
      OBVIOUS
    <3>1. g \in Group(g) /\ R!Unit("fact", g).kind = "fact" /\ R!Unit("fact", g).id = g
      BY <1>4, UnitsAre
    <3>2. members'[R!Unit("fact", g)] = Group(g) \ {g}
      BY <1>4, <2>2
    <3> HIDE DEF Group
    <3> QED BY <3>1, <3>2 DEF R!Tells
  <2>5. \A g, h \in facts : h \in Group(g) => g \in Group(h)
    BY DEF R!SameEvent
  <2> HIDE DEF Stands, Merged, Joined
  <2>6. FoundWasActive'
    <3>1. \A u \in R!Units : members'[u] \subseteq facts
      <4>1. ASSUME NEW g \in Facts PROVE members'[R!Unit("fact", g)] \subseteq facts
        <5>1. Group(g) \ {g} \subseteq facts
          OBVIOUS
        <5> HIDE DEF facts, Group
        <5> QED BY <2>2, <5>1
      <4> HIDE DEF facts, Group
      <4> QED BY <2>3, <4>1, UnitsAre
    <3> QED BY <1>2, <1>4, <1>5, <2>2, <3>1 DEF FoundWasActive
  <2>7. RawOrSpan'
    BY <1>2, <2>3 DEF RetrievalInv, RawOrSpan
  <2>8. ASSUME NEW f \in facts
        PROVE  \E g \in Facts : heads'[R!Unit("fact", g)] # {} /\ f \in R!Tells(R!Unit("fact", g))'
    <3>1. PICK b \in Group(f) : best \cap Group(f) = {b}
      BY <2>1
    <3>2. b \in best /\ f \in Group(b)
      BY <2>5, <3>1
    <3> QED BY <1>4, <2>2, <2>4, <3>2
  <2>9. ASSUME NEW g \in best, NEW h \in best, g # h PROVE Group(g) \cap Group(h) = {}
    <3> SUFFICES ASSUME NEW x \in Group(g) \cap Group(h) PROVE FALSE
      OBVIOUS
    <3>1. x \in facts /\ g \in Group(x) /\ h \in Group(x)
      BY <2>4, <2>5
    <3>2. PICK b \in Group(x) : best \cap Group(x) = {b}
      BY <2>1, <3>1
    <3> QED BY <2>9, <3>1, <3>2
  <2>10. ASSUME NEW u \in R!Units, NEW v \in R!Units, heads'[u] # {}, heads'[v] # {}, u # v
         PROVE  R!Tells(u)' \cap R!Tells(v)' = {}
    <3>1. CASE u.kind # "fact" \/ v.kind # "fact"
      <4>1. \A w \in R!Units : w.kind # "fact" => R!Tells(w)' = {}
        BY <2>3, UnitsAre DEF R!Tells
      <4> QED BY <3>1, <4>1
    <3>2. CASE u.kind = "fact" /\ v.kind = "fact"
      <4>1. /\ u.id \in Facts /\ u = R!Unit("fact", u.id)
            /\ v.id \in Facts /\ v = R!Unit("fact", v.id)
        BY <3>2, UnitsAre
      <4>2. u.id \in best /\ v.id \in best /\ u.id # v.id
        BY <2>2, <2>10, <4>1
      <4>3. R!Tells(u)' = Group(u.id) /\ R!Tells(v)' = Group(v.id)
        BY <2>4, <4>1, <4>2
      <4> QED BY <2>9, <4>2, <4>3
    <3> QED BY <3>1, <3>2
  <2>11. ASSUME NEW g \in Facts, status[g] = "absent" PROVE members'[R!Unit("fact", g)] = {}
    <3>1. Group(g) \subseteq {g}
      BY <2>11 DEF R!SameEvent
    <3> HIDE DEF Group
    <3> QED BY <2>2, <3>1
  <2>12. MergedTellOnce'
    <3> HIDE DEF facts, Group
    <3> QED BY <1>2, <1>3, <2>8, <2>10, <2>11 DEF MergedTellOnce, R!Found
  <2> QED BY <1>2, <1>6, <1>7, <2>6, <2>7, <2>12 DEF RetrievalInv
<1> QED BY <1>8, <1>9 DEF RetrievalInv

LEMMA RankStep == ASSUME RetrievalInv, R!Rank PROVE RetrievalInv'
<1>1. stage = 9
  BY StagesAre DEF R!Rank, RetrievalInv
<1>2. /\ stage' = 10
      /\ UNCHANGED <<route, raw, status, before, heads, members, evidence, dirty, wasActive, credited, erased, writes>>
  BY <1>1 DEF R!Rank
<1>3. ActiveIsNoted' /\ FoundWasActive' /\ RawOrSpan'
  BY <1>2 DEF RetrievalInv, ActiveIsNoted, FoundWasActive, RawOrSpan
<1>4. MergedTellOnce'
  BY <1>1, <1>2 DEF RetrievalInv, MergedTellOnce, R!Found, R!Tells
<1>5. CreditedIsFound' /\ R!ShownWasActive' /\ R!FoundIsShownOnce'
  BY <1>2, StagesAre DEF CreditedIsFound, R!ShownWasActive, R!FoundIsShownOnce, R!Over
<1> QED BY <1>2, <1>3, <1>4, <1>5 DEF RetrievalInv

LEMMA ShowStep == ASSUME RetrievalInv, R!Show PROVE RetrievalInv'
<1>1. stage = 10
  BY StagesAre DEF R!Show, RetrievalInv
<1>2. /\ stage' = 11
      /\ UNCHANGED <<route, raw, status, before, heads, members, rank, dirty, wasActive, credited, erased, writes>>
  BY <1>1 DEF R!Show
<1> DEFINE there == {u \in R!Found : ~R!Vanished(u)}
<1>3. evidence' \subseteq there /\ (evidence' = there \/ R!Cardinality(evidence') = Limit)
  BY AtMostTakes DEF R!Show
<1>4. ActiveIsNoted' /\ FoundWasActive' /\ RawOrSpan'
  BY <1>2 DEF RetrievalInv, ActiveIsNoted, FoundWasActive, RawOrSpan
<1>5. MergedTellOnce'
  BY <1>1, <1>2 DEF RetrievalInv, MergedTellOnce, R!Found, R!Tells
<1>6. CreditedIsFound'
  BY <1>2 DEF CreditedIsFound
<1>7. \A u \in R!Units : R!Tells(u)' = R!Tells(u)
  BY <1>2 DEF R!Tells
<1>8. there \subseteq R!Units /\ \A u \in there : heads[u] # {}
  BY DEF R!Found
<1>9. R!ShownWasActive'
  <2>1. ASSUME NEW u \in evidence' PROVE R!Tells(u)' \subseteq wasActive
    <3>1. u \in R!Units /\ heads[u] # {}
      BY <1>3, <1>8
    <3>2. u.kind = "fact" => u.id \in wasActive
      BY <3>1, UnitsAre DEF RetrievalInv, FoundWasActive
    <3> QED BY <1>7, <3>1, <3>2 DEF R!Tells, RetrievalInv, FoundWasActive
  <2> QED BY <1>2, <2>1 DEF R!ShownWasActive
<1>10. ASSUME route = "fusion", NEW f \in credited
       PROVE  \/ status[f] = "absent"
              \/ \E u \in evidence' : f \in R!Tells(u)
              \/ R!Cardinality(evidence') = Limit
              \/ \E g \in erased : f \in members[R!Unit("fact", g)]
  <2>1. PICK g \in Facts : heads[R!Unit("fact", g)] # {} /\ f \in R!Tells(R!Unit("fact", g))
    BY <1>1, <1>10 DEF RetrievalInv, MergedTellOnce
  <2>2. R!Unit("fact", g) \in R!Found /\ R!Unit("fact", g).kind = "fact" /\ R!Unit("fact", g).id = g
    BY <2>1, UnitsAre DEF R!Found
  <2>3. CASE R!Vanished(R!Unit("fact", g))
    <3>1. status[g] = "absent"
      BY <2>2, <2>3 DEF R!Vanished
    <3>2. g \in erased \/ members[R!Unit("fact", g)] = {}
      BY <1>1, <1>10, <3>1 DEF RetrievalInv, MergedTellOnce
    <3>3. f = g \/ f \in members[R!Unit("fact", g)]
      BY <2>1, <2>2 DEF R!Tells
    <3> QED BY <3>1, <3>2, <3>3
  <2>4. CASE ~R!Vanished(R!Unit("fact", g))
    <3>1. R!Unit("fact", g) \in there
      BY <2>2, <2>4
    <3> HIDE DEF there
    <3> QED BY <1>3, <2>1, <3>1
  <2> QED BY <2>3, <2>4
<1>11. ASSUME route = "fusion", NEW u \in evidence', NEW v \in evidence', u # v
       PROVE  /\ R!Tells(u) \cap R!Tells(v) = {}
              /\ ~(u.kind = "span" /\ v.kind = "raw" /\ u.id = v.id)
  <2>1. u \in R!Found /\ v \in R!Found
    BY <1>3
  <2>2. R!Tells(u) \cap R!Tells(v) = {}
    BY <1>1, <1>11, <2>1 DEF RetrievalInv, MergedTellOnce
  <2>3. ASSUME u.kind = "span", v.kind = "raw" PROVE FALSE
    <3>1. u.id \in Spans /\ heads[R!Unit("span", u.id)] # {} /\ v.id \in Spans /\ heads[R!Unit("raw", v.id)] # {}
      BY <2>1, <2>3, UnitsAre DEF R!Found
    <3> QED BY <1>11, <3>1 DEF RetrievalInv, RawOrSpan
  <2> QED BY <2>2, <2>3
<1>12. R!FoundIsShownOnce'
  <2>1. evidence' \subseteq R!Units
    BY <1>3, <1>8
  <2> HIDE DEF there
  <2> QED BY <1>2, <1>7, <1>10, <1>11, <2>1 DEF R!FoundIsShownOnce, R!Tells
<1> QED BY <1>2, <1>4, <1>5, <1>6, <1>9, <1>12 DEF RetrievalInv

LEMMA WriteStep == ASSUME RetrievalInv, R!Write PROVE RetrievalInv'
<1>1. stage \in 1..10
  BY StagesAre DEF R!Write, RetrievalInv
<1>2. UNCHANGED <<route, raw, before, stage, heads, members, rank, evidence, dirty, credited>>
  BY DEF R!Write
<1>3. PICK f \in Facts, s \in {"archived", "absent", "active"} :
        /\ status' = [status EXCEPT ![f] = s]
        /\ wasActive' = IF s = "active" THEN wasActive \cup {f} ELSE wasActive
        /\ erased' = IF s = "absent" /\ R!Stages[stage] \in {"rank", "show"}
                     THEN erased \cup {f} ELSE erased
  BY DEF R!Write
<1>4. wasActive \subseteq wasActive' /\ erased \subseteq erased'
  BY <1>3
<1>5. ActiveIsNoted'
  BY <1>2, <1>3, <1>4 DEF RetrievalInv, ActiveIsNoted
<1>6. FoundWasActive' /\ RawOrSpan' /\ CreditedIsFound'
  BY <1>2, <1>4 DEF RetrievalInv, FoundWasActive, RawOrSpan, CreditedIsFound
<1>7. stage > 8 => R!Stages[stage] \in {"rank", "show"}
  <2>1. ASSUME stage > 8 PROVE stage \in {9, 10}
    BY <1>1, <2>1
  <2>2. (stage = 9 => R!Is("rank")) /\ (stage = 10 => R!Is("show"))
    BY <1>1, StagesAre
  <2> QED BY <2>1, <2>2 DEF R!Is
<1>8. MergedTellOnce'
  <2>1. ASSUME stage > 8, route = "fusion", NEW g \in Facts, status'[g] = "absent"
        PROVE  g \in erased' \/ members[R!Unit("fact", g)] = {}
    <3>1. status[g] = "absent" \/ (g = f /\ s = "absent")
      BY <1>3, <2>1 DEF RetrievalInv, ActiveIsNoted
    <3>2. CASE status[g] = "absent"
      BY <1>4, <2>1, <3>2 DEF RetrievalInv, MergedTellOnce
    <3>3. CASE g = f /\ s = "absent"
      BY <1>3, <1>7, <2>1, <3>3
    <3> QED BY <3>1, <3>2, <3>3
  <2> QED BY <1>2, <2>1 DEF RetrievalInv, MergedTellOnce, R!Found, R!Tells
<1>9. R!ShownWasActive' /\ R!FoundIsShownOnce'
  BY <1>1, <1>2, StagesAre DEF R!ShownWasActive, R!FoundIsShownOnce, R!Over
<1> QED BY <1>2, <1>5, <1>6, <1>8, <1>9 DEF RetrievalInv

LEMMA NextRetrieval == ASSUME R!RetrievalAssumption, RetrievalInv, [R!Next]_R!vars PROVE RetrievalInv'
<1>1. CASE UNCHANGED R!vars
  <2>1. /\ UNCHANGED <<route, raw, status, before, stage, heads, members>>
        /\ UNCHANGED <<evidence, wasActive, credited, erased>>
    BY <1>1 DEF R!vars
  <2>2. ActiveIsNoted' /\ FoundWasActive' /\ CreditedIsFound' /\ RawOrSpan'
    BY <2>1 DEF RetrievalInv, ActiveIsNoted, FoundWasActive, CreditedIsFound, RawOrSpan
  <2>3. MergedTellOnce'
    BY <2>1 DEF RetrievalInv, MergedTellOnce, R!Found, R!Tells
  <2>4. R!ShownWasActive' /\ R!FoundIsShownOnce'
    BY <2>1 DEF RetrievalInv, R!ShownWasActive, R!FoundIsShownOnce, R!Over, R!Tells
  <2> QED BY <2>1, <2>2, <2>3, <2>4 DEF RetrievalInv
<1> QED BY <1>1, FactChannelsStep, SpanChannelsStep, SummaryChannelStep, EntityChannelStep,
           MentionChannelStep, RawChannelStep, MergeStep, RankStep, ShowStep, WriteStep DEF R!Next

(* Whatever the channels hit, in any order and with any ties, and whatever *)
(* other requests archive, erase or store between them: what a search      *)
(* shows was active while it ran, and what the fusion found is shown, and  *)
(* once.                                                                   *)
THEOREM SearchesStayFaithful == ReadingSpec => []SearchIsFaithful
<1> DEFINE Inv == part = "search" => RetrievalInv
           all == <<part, vars, indexVars, searchVars, toolsVars, poolVars>>
<1>1. ReadingInit => Inv
  BY ReadingAssumptions, InitRetrieval DEF ReadingInit
<1>2. Inv /\ [ReadingNext]_all => Inv'
  <2>1. ASSUME part = "search", [ReadingNext]_all PROVE [R!Next]_R!vars /\ part' = part
    BY <2>1 DEF ReadingNext, searchVars, R!vars
  <2>2. part' = "search" /\ [ReadingNext]_all => part = "search"
    BY DEF ReadingNext
  <2> QED BY <2>1, <2>2, ReadingAssumptions, NextRetrieval
<1>3. Inv => SearchIsFaithful
  BY DEF RetrievalInv, SearchIsFaithful
<1> QED BY <1>1, <1>2, <1>3, PTL DEF ReadingSpec
=============================================================================
