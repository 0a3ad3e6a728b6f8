---------------------------- MODULE BenchmarkRun ----------------------------
(***************************************************************************)
(* benchmarking/run_s500.py: a run asks questions in processes of their    *)
(* own, several at once, appends a row for each to answers.jsonl, and      *)
(* writes the score of what the file holds.  A run that was killed, or in  *)
(* which questions failed, is begun again and asks what is missing.        *)
(*                                                                         *)
(* A run that is killed may leave its last line torn, or whole but without *)
(* its end: the next row is then written onto the same line.               *)
(***************************************************************************)
EXTENDS Integers, FiniteSets, FiniteSetsExt, Sequences, SequencesExt, Combinatorics

CONSTANTS
    Questions,
    Scopes,       \* what --category and --only may select
    Pinned,       \* the model that is asked for
    Others,       \* models that may answer in its place
    Anchor,       \* labels of the run it is compared with, of some questions
    Concurrency,
    MaxRuns, MaxKills, \* bounds
    NoSummary

BenchmarkAssumption ==
    /\ Scopes \subseteq SUBSET Questions /\ Pinned \notin Others
    /\ DOMAIN Anchor \subseteq Questions /\ \A q \in DOMAIN Anchor : Anchor[q] \in BOOLEAN
    /\ IsFiniteSet(Questions)
    /\ Concurrency \in Nat \ {0} /\ {MaxRuns, MaxKills} \subseteq Nat

VARIABLES
    phase,    \* "idle", "asking", or "aborting": a row was refused
    scope,    \* the questions of this run
    done,     \* rows it resumes from
    todo, busy,
    over,     \* rows of questions that are over, not looked at yet
    file,     \* rows that can be read
    end,      \* of the last line: "whole", "torn", "open"
    summary,  \* of the last run that was scored
    runs, kills,
    said,     \* history: every answer that was written
    mine,     \* history: questions this run has asked
    fresh,    \* history: answers written in this run
    scored,   \* history: the last run ended with its score
    left      \* history: what the last run left for another, by --count

vars == <<phase, scope, done, todo, busy, over, file, end, summary, runs, kills,
          said, mine, fresh, scored, left>>

Failure(q) == [q |-> q, error |-> TRUE, label |-> FALSE, model |-> Pinned]
Answers(q) == [q : {q}, error : {FALSE}, label : BOOLEAN, model : {Pinned} \cup Others]
Asked(rows) == {r.q : r \in rows}

MutResumesFailures(row) == TRUE
Resumes(row) == ~row.error

(* load_previous_answers: of the answers of a question the last, and the   *)
(* questions that failed once.                                             *)
LastOf(rows, q) == SelectLastInSeq(rows, LAMBDA r : r.q = q /\ Resumes(r))
Clean(rows) == {rows[LastOf(rows, q)] : q \in {p \in Questions : LastOf(rows, p) # 0}}
Failed(rows) == {r.q : r \in {s \in ToSet(rows) : s.error}}
-----------------------------------------------------------------------------
Init ==
    /\ phase = "idle" /\ scope = {} /\ done = {} /\ todo = {} /\ busy = {} /\ over = {}
    /\ file = <<>> /\ end = "whole" /\ summary = NoSummary /\ runs = 0 /\ kills = 0
    /\ said = <<>> /\ mine = {} /\ fresh = {} /\ scored = FALSE /\ left = {}

(* What is asked for is what is open, or with --count some of it; the      *)
(* order of the questions is left open.                                    *)
Counted(open, some) == some \subseteq open /\ (some = {} => open = {})

Launch ==
    /\ phase = "idle" /\ runs < MaxRuns /\ runs' = runs + 1
    /\ phase' = "asking" /\ done' = Clean(file)
    /\ \E S \in Scopes : \E some \in SUBSET S :
        /\ Counted(S \ Asked(Clean(file)), some)
        /\ scope' = S /\ todo' = some
        /\ left' = (S \ Asked(Clean(file))) \ some
    /\ mine' = {} /\ fresh' = {} /\ scored' = FALSE
    /\ UNCHANGED <<busy, over, file, end, summary, kills, said>>

Ask(q) ==
    /\ q \in todo /\ Cardinality(busy) < Concurrency
    /\ todo' = todo \ {q} /\ busy' = busy \cup {q} /\ mine' = mine \cup {q}
    /\ UNCHANGED <<phase, scope, done, over, file, end, summary, runs, kills, said, fresh, scored,
                   left>>

Noted(row) ==
    IF row.error THEN UNCHANGED <<said, fresh>>
    ELSE said' = Append(said, row) /\ fresh' = fresh \cup {row}

(* A question is over, by its answer and the judge's label, by an error or *)
(* by its timeout; its row is appended under the lock.                     *)
Reply(q) ==
    /\ q \in busy /\ busy' = busy \ {q}
    /\ \E row \in Answers(q) \cup {Failure(q)} :
        /\ over' = over \cup {row} /\ Noted(row)
        /\ file' = CASE end = "whole" -> Append(file, row)
                     [] end = "torn" -> file
                     [] end = "open" -> Front(file)
    /\ end' = "whole"
    /\ UNCHANGED <<phase, scope, done, todo, summary, runs, kills, mine, scored, left>>

Substituted(row) == ~row.error /\ row.model # Pinned

(* _assert_model_not_substituted, in the order of completion.  When it     *)
(* refuses a row, what is queued is still asked, and nothing is scored.    *)
Look ==
    /\ phase = "asking" /\ \E row \in over :
        /\ over' = over \ {row}
        /\ phase' = IF Substituted(row) THEN "aborting" ELSE phase
    /\ UNCHANGED <<scope, done, todo, busy, file, end, summary, runs, kills, said, mine, fresh, scored,
                   left>>

Idle ==
    /\ phase' = "idle" /\ scope' = {} /\ done' = {} /\ todo' = {} /\ busy' = {} /\ over' = {}
    /\ mine' = {} /\ fresh' = {}

Abort ==
    /\ phase = "aborting" /\ todo = {} /\ busy = {} /\ Idle
    /\ UNCHANGED <<file, end, summary, runs, kills, said, scored, left>>

(* In the middle of a row, or between two.                                 *)
Kill ==
    /\ phase # "idle" /\ kills < MaxKills /\ kills' = kills + 1 /\ Idle
    /\ \/ UNCHANGED <<file, end, said>>
       \/ \E q \in busy : \E row \in Answers(q) :
            /\ said' = Append(said, row)
            /\ \/ end' = "torn" /\ file' = IF end = "open" THEN Front(file) ELSE file
               \/ end = "whole" /\ end' = "open" /\ file' = Append(file, row)
    /\ UNCHANGED <<summary, runs, scored, left>>

-----------------------------------------------------------------------------
MutOneSided(b, c) == MapThenSumSet(LAMBDA i : choose(b + c, i), 0..Min({b, c}))

(* mcnemar_exact, as a number of outcomes out of 2^n: of b + c pairs that  *)
(* differ, as few or fewer on the smaller side, twice.                     *)
McNemar(b, c) ==
    LET n == b + c
        tail == MapThenSumSet(LAMBDA i : choose(n, i), 0..Min({b, c}))
    IN IF n = 0 THEN 1 ELSE Min({2 ^ n, 2 * tail})

Wrong(rows, own) == {r \in rows : r.q \in DOMAIN Anchor /\ Anchor[r.q] # r.label /\ r.label = own}

(* What was resumed from, and of the file the first answer of any other    *)
(* question.                                                               *)
Rows ==
    done \cup {file[SelectInSeq(file, LAMBDA r : r.q = q /\ ~r.error)] :
                    q \in {r.q : r \in {s \in ToSet(file) : ~s.error}} \ Asked(done)}

Score ==
    /\ phase = "asking" /\ todo = {} /\ busy = {} /\ over = {}
    /\ LET rows == {r \in Rows : ~r.error}
       IN summary' =
            [answered |-> Cardinality(rows),
             correct |-> Cardinality({r \in rows : r.label}),
             errors |-> Cardinality(Failed(file)),
             asked |-> Cardinality(scope),
             incomplete |-> Cardinality(rows) < Cardinality(scope),
             substituted |-> {r.model : r \in rows} \notin {{}, {Pinned}},
             p |-> IF Asked(rows) \cap DOMAIN Anchor = {} THEN -1
                   ELSE McNemar(Cardinality(Wrong(rows, FALSE)), Cardinality(Wrong(rows, TRUE)))]
    /\ phase' = "idle" /\ scored' = TRUE /\ over' = {}
    /\ UNCHANGED <<scope, done, todo, busy, file, end, runs, kills, said, mine, fresh, left>>

Next ==
    \/ Launch \/ Look \/ Abort \/ Kill \/ Score
    \/ \E q \in Questions : Ask(q) \/ Reply(q)

Spec == Init /\ [][Next]_vars
-----------------------------------------------------------------------------
AllRows == UNION {Answers(q) \cup {Failure(q)} : q \in Questions}

TypeOK ==
    /\ phase \in {"idle", "asking", "aborting"} /\ scope \subseteq Questions
    /\ (done \cup over \cup fresh) \subseteq AllRows /\ (todo \cup busy \cup mine \cup left) \subseteq Questions
    /\ file \in Seq(AllRows) /\ end \in {"whole", "torn", "open"} /\ said \in Seq(AllRows)
    /\ runs \in 0..MaxRuns /\ kills \in 0..MaxKills /\ scored \in BOOLEAN
    /\ summary = NoSummary \/ summary.p \in Int

Answered == {said[i].q : i \in DOMAIN said}
ExtremeOutcomes(n, k) == {S \in SUBSET (1..n) : Cardinality(S) <= k \/ Cardinality(S) >= n - k}

(* An answer that was paid for is kept: no question is asked that has an   *)
(* answer in the file, and each time the run is killed at most two answers *)
(* are lost, the one that was being written and the next.                  *)
PaidOnce ==
    /\ busy \cap {r.q : r \in {s \in ToSet(file) : ~s.error}} = {}
    /\ Len(said) - Cardinality({r \in ToSet(file) : ~r.error}) <= 2 * kills

(* The score is of the answers: every answer that was not lost counts,     *)
(* once; "incomplete" is false only if every question was answered, or     *)
(* answers of another selection filled the count; a question that is       *)
(* without an answer was asked in this run, or left for another by         *)
(* --count; no answer of this run is of another model, and if one that it  *)
(* resumed is, the summary says so.                                        *)
ScoreIsEarned ==
    scored /\ phase = "idle" =>
        LET s == summary
        IN /\ s.answered <= Cardinality(Answered)
           /\ Cardinality(Answered) <= s.answered + 2 * kills
           /\ kills = 0 => s.correct = Cardinality({i \in DOMAIN said : said[i].label})
           /\ ~s.incomplete => scope \subseteq Answered \/ ~(Answered \subseteq scope)
           /\ \A q \in scope : q \in mine \/ q \in Answered \/ q \in left
           /\ \A r \in fresh : r.model = Pinned
           /\ kills = 0 => (s.substituted <=> \E i \in DOMAIN said : said[i].model # Pinned)
           /\ kills = 0 => s.errors >= Cardinality((scope \ left) \ Answered)

(* p is how many of the outcomes of the pairs that differ are as extreme.  *)
ChanceIsExact ==
    scored /\ phase = "idle" /\ kills = 0 /\ summary.p # -1 =>
        LET differ == {q \in Answered \cap DOMAIN Anchor :
                        \E i \in DOMAIN said : said[i].q = q /\ said[i].label # Anchor[q]}
            worse == {q \in differ : Anchor[q]}
            n == Cardinality(differ)
        IN summary.p = Cardinality(ExtremeOutcomes(n, Min({Cardinality(worse), n - Cardinality(worse)})))
=============================================================================
