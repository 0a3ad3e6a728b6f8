-------------------------- MODULE JobRunnerProofs ---------------------------
(***************************************************************************)
(* Proofs about JobRunner for every set of requests, size of the pool and  *)
(* retention, and every number of crashes, failed writes and shutdowns: a  *)
(* job is accounted for, and a terminal status is final.                   *)
(***************************************************************************)
EXTENDS JobRunner, TLAPS

(* A job has no row before insert_job(), and a terminal one only once its  *)
(* worker is done with it: no thread is left that would write the row.     *)
RowFitsPhase ==
    \A j \in Jobs :
        /\ phase[j] \in {"idle", "stamped"} => row[j] = "none"
        /\ row[j] \in Terminal => phase[j] \in {"done", "lost"}

(* A worker takes for failed what landed only after a write has failed.    *)
LandedFitsPhase ==
    \A j \in Jobs :
        /\ phase[j] = "landed" => j \in landed
        /\ phase[j] = "raised" /\ j \in landed => faults > 0
        /\ j \in landed => phase[j] \in {"landed", "raised", "done", "lost"}

(* A job is in the pool's queue once, and only while nobody works on it.   *)
QueueHoldsQueued ==
    /\ \A i \in 1..Len(queue) : phase[queue[i]] = "queued"
    /\ \A i, k \in 1..Len(queue) : queue[i] = queue[k] => i = k

(* A crash leaves no thread and no queue.                                  *)
DownIsQuiet ==
    ~up => /\ crashes > 0 /\ queue = <<>>
           /\ \A j \in Jobs : phase[j] \in {"idle", "done", "lost"}

(* The request has the borrow until it hands it over, and a job whose      *)
(* client was answered has it until its work ends.                         *)
BorrowFitsPhase ==
    \A j \in Jobs :
        /\ borrow[j] <= 1
        /\ phase[j] \in OnRequest => borrow[j] = 1
        /\ phase[j] = "inserted" => j \in inserted
        /\ j \in accepted => phase[j] \notin {"idle"} \cup OnRequest
        /\ j \in accepted /\ phase[j] \in {"queued", "working"} => borrow[j] = 1
        /\ phase[j] \in {"queued", "working"} =>
              borrow[j] = 1 \/ (borrow[j] = 0 /\ ThreadsRunOut /\ j \in inserted)

BoundsOK == crashes \in Nat /\ faults \in Nat /\ shutdowns \in Nat

(* The inductive invariant.                                                *)
IInv ==
    /\ TypeOK /\ BoundsOK
    /\ RowFitsPhase /\ LandedFitsPhase /\ QueueHoldsQueued
    /\ DownIsQuiet /\ BorrowFitsPhase
    /\ JobIsAccounted

-----------------------------------------------------------------------------
LEMMA InitIInv == ASSUME Init PROVE IInv
<1> USE DEF Init
<1>1. TypeOK /\ BoundsOK
  BY JobRunnerAssumption DEF TypeOK, BoundsOK, Status, OnRequest, OnWorker
<1>2. RowFitsPhase /\ LandedFitsPhase /\ QueueHoldsQueued
  BY DEF RowFitsPhase, LandedFitsPhase, QueueHoldsQueued, Terminal
<1>3. DownIsQuiet /\ BorrowFitsPhase
  BY DEF DownIsQuiet, BorrowFitsPhase, OnRequest
<1>4. JobIsAccounted
  BY JobRunnerAssumption DEF JobIsAccounted, RowTellsOutcome, UnfinishedHasWorker, BorrowSpansWork,
          Unfinished, Terminal
<1> QED BY <1>1, <1>2, <1>3, <1>4 DEF IInv

(* A job that is stamped has no row yet, and borrows its store.            *)
LEMMA StampStep == ASSUME IInv, NEW j \in Jobs, Stamp(j) PROVE IInv'
<1> USE DEF IInv, Stamp, bounds, history
<1>1. TypeOK' /\ BoundsOK'
  BY JobRunnerAssumption DEF TypeOK, BoundsOK, Status, Terminal, Unfinished, OnRequest, OnWorker
<1>2. RowFitsPhase'
  BY DEF TypeOK, RowFitsPhase, Terminal, OnRequest, OnWorker
<1>3. LandedFitsPhase'
  BY DEF TypeOK, BoundsOK, LandedFitsPhase, OnRequest, OnWorker
<1>4. QueueHoldsQueued'
  BY DEF TypeOK, QueueHoldsQueued, OnRequest, OnWorker
<1>5. DownIsQuiet'
  BY DEF DownIsQuiet
<1>6. BorrowFitsPhase'
  BY DEF TypeOK, BorrowFitsPhase, OnRequest, OnWorker
<1>7. JobIsAccounted'
  <2>1. RowTellsOutcome'
    BY DEF TypeOK, BoundsOK, RowFitsPhase, LandedFitsPhase, JobIsAccounted, RowTellsOutcome, Terminal
  <2>2. UnfinishedHasWorker'
    BY DEF TypeOK, RowFitsPhase, JobIsAccounted, UnfinishedHasWorker, Unfinished, Terminal, OnWorker
  <2>3. BorrowSpansWork'
    BY DEF TypeOK, BorrowFitsPhase, JobIsAccounted, BorrowSpansWork, OnRequest, OnWorker
  <2> QED BY <2>1, <2>2, <2>3 DEF JobIsAccounted
<1> QED BY <1>1, <1>2, <1>3, <1>4, <1>5, <1>6, <1>7

(* Rows leave by retention; the row that comes is not terminal.            *)
LEMMA InsertJobStep == ASSUME IInv, NEW j \in Jobs, InsertJob(j) PROVE IInv'
<1> USE DEF IInv, InsertJob, bounds, history
<1>1. TypeOK' /\ BoundsOK'
  BY JobRunnerAssumption DEF TypeOK, BoundsOK, Status, Terminal, Unfinished, OnRequest, OnWorker
<1>2. RowFitsPhase'
  BY DEF TypeOK, RowFitsPhase, Terminal, OnRequest, OnWorker
<1>3. LandedFitsPhase'
  BY DEF TypeOK, BoundsOK, LandedFitsPhase, OnRequest, OnWorker
<1>4. QueueHoldsQueued'
  BY DEF TypeOK, QueueHoldsQueued, OnRequest, OnWorker
<1>5. DownIsQuiet'
  BY DEF DownIsQuiet
<1>6. BorrowFitsPhase'
  BY DEF TypeOK, BorrowFitsPhase, OnRequest, OnWorker
<1>7. JobIsAccounted'
  <2>1. RowTellsOutcome'
    BY DEF TypeOK, BoundsOK, RowFitsPhase, LandedFitsPhase, JobIsAccounted, RowTellsOutcome, Terminal
  <2>2. UnfinishedHasWorker'
    BY DEF TypeOK, RowFitsPhase, JobIsAccounted, UnfinishedHasWorker, Unfinished, Terminal, OnWorker
  <2>3. BorrowSpansWork'
    BY DEF TypeOK, BorrowFitsPhase, JobIsAccounted, BorrowSpansWork, OnRequest, OnWorker
  <2> QED BY <2>1, <2>2, <2>3 DEF JobIsAccounted
<1> QED BY <1>1, <1>2, <1>3, <1>4, <1>5, <1>6, <1>7

LEMMA InsertFailsStep == ASSUME IInv, NEW j \in Jobs, InsertFails(j) PROVE IInv'
<1> USE DEF IInv, InsertFails, bounds, history, AfterRefusal
<1>1. TypeOK' /\ BoundsOK'
  BY JobRunnerAssumption DEF TypeOK, BoundsOK, Status, Terminal, Unfinished, OnRequest, OnWorker
<1>2. RowFitsPhase'
  BY DEF TypeOK, RowFitsPhase, Terminal, OnRequest, OnWorker
<1>3. LandedFitsPhase'
  BY DEF TypeOK, BoundsOK, LandedFitsPhase, OnRequest, OnWorker
<1>4. QueueHoldsQueued'
  BY DEF TypeOK, QueueHoldsQueued, OnRequest, OnWorker
<1>5. DownIsQuiet'
  BY DEF DownIsQuiet
<1>6. BorrowFitsPhase'
  BY DEF TypeOK, BorrowFitsPhase, OnRequest, OnWorker
<1>7. JobIsAccounted'
  <2>1. RowTellsOutcome'
    BY DEF TypeOK, BoundsOK, RowFitsPhase, LandedFitsPhase, JobIsAccounted, RowTellsOutcome, Terminal
  <2>2. UnfinishedHasWorker'
    BY DEF TypeOK, RowFitsPhase, JobIsAccounted, UnfinishedHasWorker, Unfinished, Terminal, OnWorker
  <2>3. BorrowSpansWork'
    BY DEF TypeOK, BorrowFitsPhase, JobIsAccounted, BorrowSpansWork, OnRequest, OnWorker
  <2> QED BY <2>1, <2>2, <2>3 DEF JobIsAccounted
<1> QED BY <1>1, <1>2, <1>3, <1>4, <1>5, <1>6, <1>7

(* Of an accepted job the worker has the borrow of the request.            *)
LEMMA EnqueueStep == ASSUME IInv, NEW j \in Jobs, Enqueue(j) PROVE IInv'
<1> USE DEF IInv, Enqueue, bounds, history, AfterHandover
<1>1. TypeOK' /\ BoundsOK'
  BY JobRunnerAssumption DEF TypeOK, BoundsOK, Status, Terminal, Unfinished, OnRequest, OnWorker
<1>2. RowFitsPhase'
  BY DEF TypeOK, RowFitsPhase, Terminal, OnRequest, OnWorker
<1>3. LandedFitsPhase'
  BY DEF TypeOK, BoundsOK, LandedFitsPhase, OnRequest, OnWorker
<1>4. QueueHoldsQueued'
  BY DEF TypeOK, QueueHoldsQueued, OnRequest, OnWorker
<1>5. DownIsQuiet'
  BY DEF DownIsQuiet
<1>6. BorrowFitsPhase'
  BY DEF TypeOK, BorrowFitsPhase, OnRequest, OnWorker
<1>7. JobIsAccounted'
  <2>1. RowTellsOutcome'
    BY DEF TypeOK, BoundsOK, RowFitsPhase, LandedFitsPhase, JobIsAccounted, RowTellsOutcome, Terminal
  <2>2. UnfinishedHasWorker'
    BY DEF TypeOK, RowFitsPhase, JobIsAccounted, UnfinishedHasWorker, Unfinished, Terminal, OnWorker
  <2>3. BorrowSpansWork'
    BY DEF TypeOK, BorrowFitsPhase, JobIsAccounted, BorrowSpansWork, OnRequest, OnWorker
  <2> QED BY <2>1, <2>2, <2>3 DEF JobIsAccounted
<1> QED BY <1>1, <1>2, <1>3, <1>4, <1>5, <1>6, <1>7

LEMMA EnqueueRefusedStep == ASSUME IInv, NEW j \in Jobs, EnqueueRefused(j) PROVE IInv'
<1> USE DEF IInv, EnqueueRefused, bounds, history, AfterRefusal
<1>1. TypeOK' /\ BoundsOK'
  BY JobRunnerAssumption DEF TypeOK, BoundsOK, Status, Terminal, Unfinished, OnRequest, OnWorker
<1>2. RowFitsPhase'
  BY DEF TypeOK, RowFitsPhase, Terminal, OnRequest, OnWorker
<1>3. LandedFitsPhase'
  BY DEF TypeOK, BoundsOK, LandedFitsPhase, OnRequest, OnWorker
<1>4. QueueHoldsQueued'
  BY DEF TypeOK, QueueHoldsQueued, OnRequest, OnWorker
<1>5. DownIsQuiet'
  BY DEF DownIsQuiet
<1>6. BorrowFitsPhase'
  BY DEF TypeOK, BorrowFitsPhase, OnRequest, OnWorker
<1>7. JobIsAccounted'
  <2>1. RowTellsOutcome'
    BY DEF TypeOK, BoundsOK, RowFitsPhase, LandedFitsPhase, JobIsAccounted, RowTellsOutcome, Terminal
  <2>2. UnfinishedHasWorker'
    BY DEF TypeOK, RowFitsPhase, JobIsAccounted, UnfinishedHasWorker, Unfinished, Terminal, OnWorker
  <2>3. BorrowSpansWork'
    BY DEF TypeOK, BorrowFitsPhase, JobIsAccounted, BorrowSpansWork, OnRequest, OnWorker
  <2> QED BY <2>1, <2>2, <2>3 DEF JobIsAccounted
<1> QED BY <1>1, <1>2, <1>3, <1>4, <1>5, <1>6, <1>7

(* The work is queued though the request has given the store back: no client *)
(* was answered.                                                           *)
LEMMA EnqueueThreadFailsStep == ASSUME IInv, NEW j \in Jobs, EnqueueThreadFails(j) PROVE IInv'
<1> USE DEF IInv, EnqueueThreadFails, bounds, history, AfterRefusal
<1>1. TypeOK' /\ BoundsOK'
  BY JobRunnerAssumption DEF TypeOK, BoundsOK, Status, Terminal, Unfinished, OnRequest, OnWorker
<1>2. RowFitsPhase'
  BY DEF TypeOK, RowFitsPhase, Terminal, OnRequest, OnWorker
<1>3. LandedFitsPhase'
  BY DEF TypeOK, BoundsOK, LandedFitsPhase, OnRequest, OnWorker
<1>4. QueueHoldsQueued'
  BY DEF TypeOK, QueueHoldsQueued, OnRequest, OnWorker
<1>5. DownIsQuiet'
  BY DEF DownIsQuiet
<1>6. BorrowFitsPhase'
  BY DEF TypeOK, BorrowFitsPhase, OnRequest, OnWorker
<1>7. JobIsAccounted'
  <2>1. RowTellsOutcome'
    BY DEF TypeOK, BoundsOK, RowFitsPhase, LandedFitsPhase, JobIsAccounted, RowTellsOutcome, Terminal
  <2>2. UnfinishedHasWorker'
    BY DEF TypeOK, RowFitsPhase, JobIsAccounted, UnfinishedHasWorker, Unfinished, Terminal, OnWorker
  <2>3. BorrowSpansWork'
    BY DEF TypeOK, BorrowFitsPhase, JobIsAccounted, BorrowSpansWork, OnRequest, OnWorker
  <2> QED BY <2>1, <2>2, <2>3 DEF JobIsAccounted
<1> QED BY <1>1, <1>2, <1>3, <1>4, <1>5, <1>6, <1>7

(* The head of the queue is queued, and not in the queue twice.            *)
LEMMA StartStep == ASSUME IInv, NEW j \in Jobs, Start(j) PROVE IInv'
<1> USE DEF IInv, Start, bounds, history, AtHead, Updated
<1>0. phase[j] = "queued" /\ j \in Jobs
      /\ \A i \in 1..Len(queue') :
           /\ queue'[i] = queue[i + 1] /\ queue'[i] # j /\ i + 1 \in 1..Len(queue)
  <2>1. j = queue[1] /\ 1 \in 1..Len(queue)
    BY DEF TypeOK
  <2>2. phase[j] = "queued"
    BY <2>1 DEF QueueHoldsQueued
  <2>3. ASSUME NEW i \in 1..Len(queue') PROVE queue'[i] = queue[i + 1] /\ i + 1 \in 1..Len(queue)
    BY <2>1, <2>3 DEF TypeOK
  <2>4. ASSUME NEW i \in 1..Len(queue') PROVE queue'[i] # j
    <3>1. queue[i + 1] # queue[1]
      BY <2>1, <2>3 DEF QueueHoldsQueued
    <3> QED BY <2>1, <2>3, <3>1
  <2> QED BY <2>2, <2>3, <2>4
<1>1. TypeOK' /\ BoundsOK'
  BY JobRunnerAssumption DEF TypeOK, BoundsOK, Status, Terminal, Unfinished, OnRequest, OnWorker
<1>2. RowFitsPhase'
  BY <1>0 DEF TypeOK, RowFitsPhase, Terminal, OnRequest, OnWorker
<1>3. LandedFitsPhase'
  BY <1>0 DEF TypeOK, BoundsOK, LandedFitsPhase, OnRequest, OnWorker
<1>4. QueueHoldsQueued'
  BY <1>0 DEF TypeOK, QueueHoldsQueued, OnRequest, OnWorker
<1>5. DownIsQuiet'
  BY DEF DownIsQuiet
<1>6. BorrowFitsPhase'
  BY <1>0 DEF TypeOK, BorrowFitsPhase, OnRequest, OnWorker
<1>7. JobIsAccounted'
  <2>1. RowTellsOutcome'
    BY <1>0 DEF TypeOK, BoundsOK, RowFitsPhase, LandedFitsPhase, JobIsAccounted, RowTellsOutcome, Terminal
  <2>2. UnfinishedHasWorker'
    BY <1>0 DEF TypeOK, RowFitsPhase, JobIsAccounted, UnfinishedHasWorker, Unfinished, Terminal, OnWorker
  <2>3. BorrowSpansWork'
    BY <1>0 DEF TypeOK, BorrowFitsPhase, JobIsAccounted, BorrowSpansWork, OnRequest, OnWorker
  <2> QED BY <2>1, <2>2, <2>3 DEF JobIsAccounted
<1> QED BY <1>1, <1>2, <1>3, <1>4, <1>5, <1>6, <1>7

LEMMA StartFailsStep == ASSUME IInv, NEW j \in Jobs, StartFails(j) PROVE IInv'
<1> USE DEF IInv, StartFails, bounds, history, AtHead
<1>0. phase[j] = "queued" /\ j \in Jobs
      /\ \A i \in 1..Len(queue') :
           /\ queue'[i] = queue[i + 1] /\ queue'[i] # j /\ i + 1 \in 1..Len(queue)
  <2>1. j = queue[1] /\ 1 \in 1..Len(queue)
    BY DEF TypeOK
  <2>2. phase[j] = "queued"
    BY <2>1 DEF QueueHoldsQueued
  <2>3. ASSUME NEW i \in 1..Len(queue') PROVE queue'[i] = queue[i + 1] /\ i + 1 \in 1..Len(queue)
    BY <2>1, <2>3 DEF TypeOK
  <2>4. ASSUME NEW i \in 1..Len(queue') PROVE queue'[i] # j
    <3>1. queue[i + 1] # queue[1]
      BY <2>1, <2>3 DEF QueueHoldsQueued
    <3> QED BY <2>1, <2>3, <3>1
  <2> QED BY <2>2, <2>3, <2>4
<1>1. TypeOK' /\ BoundsOK'
  BY JobRunnerAssumption DEF TypeOK, BoundsOK, Status, Terminal, Unfinished, OnRequest, OnWorker
<1>2. RowFitsPhase'
  BY <1>0 DEF TypeOK, RowFitsPhase, Terminal, OnRequest, OnWorker
<1>3. LandedFitsPhase'
  BY <1>0 DEF TypeOK, BoundsOK, LandedFitsPhase, OnRequest, OnWorker
<1>4. QueueHoldsQueued'
  BY <1>0 DEF TypeOK, QueueHoldsQueued, OnRequest, OnWorker
<1>5. DownIsQuiet'
  BY DEF DownIsQuiet
<1>6. BorrowFitsPhase'
  BY <1>0 DEF TypeOK, BorrowFitsPhase, OnRequest, OnWorker
<1>7. JobIsAccounted'
  <2>1. RowTellsOutcome'
    BY <1>0 DEF TypeOK, BoundsOK, RowFitsPhase, LandedFitsPhase, JobIsAccounted, RowTellsOutcome, Terminal
  <2>2. UnfinishedHasWorker'
    BY <1>0 DEF TypeOK, RowFitsPhase, JobIsAccounted, UnfinishedHasWorker, Unfinished, Terminal, OnWorker
  <2>3. BorrowSpansWork'
    BY <1>0 DEF TypeOK, BorrowFitsPhase, JobIsAccounted, BorrowSpansWork, OnRequest, OnWorker
  <2> QED BY <2>1, <2>2, <2>3 DEF JobIsAccounted
<1> QED BY <1>1, <1>2, <1>3, <1>4, <1>5, <1>6, <1>7

(* The work ends, and the borrow with it where the work gives it back.     *)
LEMMA WorkStep == ASSUME IInv, NEW j \in Jobs, Work(j) PROVE IInv'
<1> USE DEF IInv, Work, bounds, history, AfterWork
<1>1. TypeOK' /\ BoundsOK'
  BY JobRunnerAssumption DEF TypeOK, BoundsOK, Status, Terminal, Unfinished, OnRequest, OnWorker
<1>2. RowFitsPhase'
  BY DEF TypeOK, RowFitsPhase, Terminal, OnRequest, OnWorker
<1>3. LandedFitsPhase'
  BY DEF TypeOK, BoundsOK, LandedFitsPhase, OnRequest, OnWorker
<1>4. QueueHoldsQueued'
  BY DEF TypeOK, QueueHoldsQueued, OnRequest, OnWorker
<1>5. DownIsQuiet'
  BY DEF DownIsQuiet
<1>6. BorrowFitsPhase'
  BY DEF TypeOK, BorrowFitsPhase, OnRequest, OnWorker
<1>7. JobIsAccounted'
  <2>1. RowTellsOutcome'
    BY DEF TypeOK, BoundsOK, RowFitsPhase, LandedFitsPhase, JobIsAccounted, RowTellsOutcome, Terminal
  <2>2. UnfinishedHasWorker'
    BY DEF TypeOK, RowFitsPhase, JobIsAccounted, UnfinishedHasWorker, Unfinished, Terminal, OnWorker
  <2>3. BorrowSpansWork'
    BY DEF TypeOK, BorrowFitsPhase, JobIsAccounted, BorrowSpansWork, OnRequest, OnWorker
  <2> QED BY <2>1, <2>2, <2>3 DEF JobIsAccounted
<1> QED BY <1>1, <1>2, <1>3, <1>4, <1>5, <1>6, <1>7

(* The worker writes the one terminal status of its job, and is done.      *)
LEMMA RecordStep == ASSUME IInv, NEW j \in Jobs, Record(j) PROVE IInv'
<1> USE DEF IInv, Record, bounds, history, Updated, Outcome
<1>1. TypeOK' /\ BoundsOK'
  BY JobRunnerAssumption DEF TypeOK, BoundsOK, Status, Terminal, Unfinished, OnRequest, OnWorker
<1>2. RowFitsPhase'
  BY DEF TypeOK, RowFitsPhase, Terminal, OnRequest, OnWorker
<1>3. LandedFitsPhase'
  BY DEF TypeOK, BoundsOK, LandedFitsPhase, OnRequest, OnWorker
<1>4. QueueHoldsQueued'
  BY DEF TypeOK, QueueHoldsQueued, OnRequest, OnWorker
<1>5. DownIsQuiet'
  BY DEF DownIsQuiet
<1>6. BorrowFitsPhase'
  BY DEF TypeOK, BorrowFitsPhase, OnRequest, OnWorker
<1>7. JobIsAccounted'
  <2>1. RowTellsOutcome'
    BY DEF TypeOK, BoundsOK, RowFitsPhase, LandedFitsPhase, JobIsAccounted, RowTellsOutcome, Terminal
  <2>2. UnfinishedHasWorker'
    BY DEF TypeOK, RowFitsPhase, JobIsAccounted, UnfinishedHasWorker, Unfinished, Terminal, OnWorker
  <2>3. BorrowSpansWork'
    BY DEF TypeOK, BorrowFitsPhase, JobIsAccounted, BorrowSpansWork, OnRequest, OnWorker
  <2> QED BY <2>1, <2>2, <2>3 DEF JobIsAccounted
<1> QED BY <1>1, <1>2, <1>3, <1>4, <1>5, <1>6, <1>7

LEMMA RecordFailsStep == ASSUME IInv, NEW j \in Jobs, RecordFails(j) PROVE IInv'
<1> USE DEF IInv, RecordFails, bounds, history
<1>1. TypeOK' /\ BoundsOK'
  <2>1. phase' \in [Jobs -> OnRequest \cup OnWorker \cup {"idle", "queued", "done", "lost"}]
    BY DEF TypeOK, OnWorker
  <2>2. BoundsOK' /\ orphaned' \subseteq Jobs
    BY DEF TypeOK, BoundsOK
  <2> QED BY <2>1, <2>2 DEF TypeOK
<1>2. RowFitsPhase'
  BY DEF TypeOK, RowFitsPhase, Terminal, OnRequest, OnWorker
<1>3. LandedFitsPhase'
  BY DEF TypeOK, BoundsOK, LandedFitsPhase, OnRequest, OnWorker
<1>4. QueueHoldsQueued'
  BY DEF TypeOK, QueueHoldsQueued, OnRequest, OnWorker
<1>5. DownIsQuiet'
  BY DEF DownIsQuiet
<1>6. BorrowFitsPhase'
  BY DEF TypeOK, BorrowFitsPhase, OnRequest, OnWorker
<1>7. JobIsAccounted'
  <2>1. RowTellsOutcome'
    BY DEF TypeOK, BoundsOK, RowFitsPhase, LandedFitsPhase, JobIsAccounted, RowTellsOutcome, Terminal
  <2>2. UnfinishedHasWorker'
    BY DEF TypeOK, RowFitsPhase, JobIsAccounted, UnfinishedHasWorker, Unfinished, Terminal, OnWorker
  <2>3. BorrowSpansWork'
    <3>1. CASE phase[j] = "landed"
      BY <3>1, JobRunnerAssumption DEF TypeOK, JobIsAccounted, BorrowSpansWork, OnRequest
    <3>2. CASE phase[j] = "raised"
      BY <3>2, JobRunnerAssumption DEF TypeOK, JobIsAccounted, BorrowSpansWork, OnRequest
    <3> QED BY <3>1, <3>2
  <2> QED BY <2>1, <2>2, <2>3 DEF JobIsAccounted
<1> QED BY <1>1, <1>2, <1>3, <1>4, <1>5, <1>6, <1>7

(* What is cancelled is orphaned with its row.                             *)
LEMMA ShutdownStep == ASSUME IInv, Shutdown PROVE IInv'
<1> USE DEF IInv, Shutdown, bounds, history
<1>1. TypeOK' /\ BoundsOK'
  <2>1. queue' \in Seq(Jobs)
    OBVIOUS
  <2>2. phase' \in [Jobs -> OnRequest \cup OnWorker \cup {"idle", "queued", "done", "lost"}]
    BY DEF TypeOK
  <2>3. BoundsOK' /\ orphaned' \subseteq Jobs /\ borrow' \in [Jobs -> Int]
    BY DEF TypeOK, BoundsOK
  <2>4. accepting' \in BOOLEAN /\ up' \in BOOLEAN
    BY DEF TypeOK
  <2> QED BY <2>1, <2>2, <2>3, <2>4 DEF TypeOK
<1>2. RowFitsPhase'
  BY DEF TypeOK, RowFitsPhase, Terminal, OnRequest, OnWorker
<1>3. LandedFitsPhase'
  BY DEF TypeOK, BoundsOK, LandedFitsPhase, OnRequest, OnWorker
<1>4. QueueHoldsQueued'
  BY DEF TypeOK, QueueHoldsQueued, OnRequest, OnWorker
<1>5. DownIsQuiet'
  BY DEF DownIsQuiet
<1>6. BorrowFitsPhase'
  BY DEF TypeOK, BorrowFitsPhase, OnRequest, OnWorker
<1>7. JobIsAccounted'
  <2>1. RowTellsOutcome'
    BY DEF TypeOK, BoundsOK, RowFitsPhase, LandedFitsPhase, JobIsAccounted, RowTellsOutcome, Terminal
  <2>2. UnfinishedHasWorker'
    BY DEF TypeOK, RowFitsPhase, JobIsAccounted, UnfinishedHasWorker, Unfinished, Terminal, OnWorker
  <2>3. BorrowSpansWork'
    <3>1. \A i \in accepted' : phase'[i] = "working" => borrow'[i] = 1
      BY DEF TypeOK, JobIsAccounted, BorrowSpansWork
    <3>2. \A i \in Releasing : borrow'[i] = 1 =>
            phase'[i] \in OnRequest \cup {"queued", "working"} \/ i \in orphaned'
      BY JobRunnerAssumption DEF TypeOK, JobIsAccounted, BorrowSpansWork, OnRequest
    <3>3. \A i \in Jobs : borrow'[i] < 0 =>
            borrow'[i] = -1 /\ ThreadsRunOut /\ i \in inserted' \ accepted'
      BY DEF JobIsAccounted, BorrowSpansWork
    <3> QED BY <3>1, <3>2, <3>3 DEF BorrowSpansWork
  <2> QED BY <2>1, <2>2, <2>3 DEF JobIsAccounted
<1> QED BY <1>1, <1>2, <1>3, <1>4, <1>5, <1>6, <1>7

LEMMA NewRunnerStep == ASSUME IInv, NewRunner PROVE IInv'
<1> USE DEF IInv, NewRunner, bounds, history
<1>1. TypeOK' /\ BoundsOK'
  BY JobRunnerAssumption DEF TypeOK, BoundsOK, Status, Terminal, Unfinished, OnRequest, OnWorker
<1>2. RowFitsPhase'
  BY DEF TypeOK, RowFitsPhase, Terminal, OnRequest, OnWorker
<1>3. LandedFitsPhase'
  BY DEF TypeOK, BoundsOK, LandedFitsPhase, OnRequest, OnWorker
<1>4. QueueHoldsQueued'
  BY DEF TypeOK, QueueHoldsQueued, OnRequest, OnWorker
<1>5. DownIsQuiet'
  BY DEF DownIsQuiet
<1>6. BorrowFitsPhase'
  BY DEF TypeOK, BorrowFitsPhase, OnRequest, OnWorker
<1>7. JobIsAccounted'
  <2>1. RowTellsOutcome'
    BY DEF TypeOK, BoundsOK, RowFitsPhase, LandedFitsPhase, JobIsAccounted, RowTellsOutcome, Terminal
  <2>2. UnfinishedHasWorker'
    BY DEF TypeOK, RowFitsPhase, JobIsAccounted, UnfinishedHasWorker, Unfinished, Terminal, OnWorker
  <2>3. BorrowSpansWork'
    BY DEF TypeOK, BorrowFitsPhase, JobIsAccounted, BorrowSpansWork, OnRequest, OnWorker
  <2> QED BY <2>1, <2>2, <2>3 DEF JobIsAccounted
<1> QED BY <1>1, <1>2, <1>3, <1>4, <1>5, <1>6, <1>7

(* The process is gone: no thread, no queue and no borrow is left.         *)
LEMMA CrashStep == ASSUME IInv, Crash PROVE IInv'
<1> USE DEF IInv, Crash, bounds, history
<1>1. TypeOK' /\ BoundsOK'
  <2>1. queue' \in Seq(Jobs)
    OBVIOUS
  <2>2. phase' \in [Jobs -> OnRequest \cup OnWorker \cup {"idle", "queued", "done", "lost"}]
    BY DEF TypeOK
  <2>3. BoundsOK' /\ orphaned' \subseteq Jobs /\ borrow' \in [Jobs -> Int]
    BY DEF TypeOK, BoundsOK
  <2>4. accepting' \in BOOLEAN /\ up' \in BOOLEAN
    BY DEF TypeOK
  <2> QED BY <2>1, <2>2, <2>3, <2>4 DEF TypeOK
<1>2. RowFitsPhase'
  BY DEF TypeOK, RowFitsPhase, Terminal, OnRequest, OnWorker
<1>3. LandedFitsPhase'
  BY DEF TypeOK, BoundsOK, LandedFitsPhase, OnRequest, OnWorker
<1>4. QueueHoldsQueued'
  BY DEF TypeOK, QueueHoldsQueued, OnRequest, OnWorker
<1>5. DownIsQuiet'
  BY DEF DownIsQuiet, TypeOK, BoundsOK
<1>6. BorrowFitsPhase'
  BY DEF TypeOK, BorrowFitsPhase, OnRequest, OnWorker
<1>7. JobIsAccounted'
  <2>1. RowTellsOutcome'
    BY DEF TypeOK, BoundsOK, RowFitsPhase, LandedFitsPhase, JobIsAccounted, RowTellsOutcome, Terminal
  <2>2. UnfinishedHasWorker'
    BY DEF TypeOK, RowFitsPhase, JobIsAccounted, UnfinishedHasWorker, Unfinished, Terminal, OnWorker
  <2>3. BorrowSpansWork'
    <3>1. \A i \in accepted' : phase'[i] = "working" => borrow'[i] = 1
      BY DEF TypeOK, JobIsAccounted, BorrowSpansWork
    <3>2. \A i \in Releasing : borrow'[i] = 1 =>
            phase'[i] \in OnRequest \cup {"queued", "working"} \/ i \in orphaned'
      BY JobRunnerAssumption DEF TypeOK, JobIsAccounted, BorrowSpansWork, OnRequest
    <3> QED BY <3>1, <3>2 DEF BorrowSpansWork
  <2> QED BY <2>1, <2>2, <2>3 DEF JobIsAccounted
<1> QED BY <1>1, <1>2, <1>3, <1>4, <1>5, <1>6, <1>7

(* No row of an earlier process stays unfinished.                          *)
LEMMA RestartStep == ASSUME IInv, Restart PROVE IInv'
<1> USE DEF IInv, Restart, bounds, history, Interrupted
<1>1. TypeOK' /\ BoundsOK'
  BY JobRunnerAssumption DEF TypeOK, BoundsOK, Status, Terminal, Unfinished, OnRequest, OnWorker
<1>2. RowFitsPhase'
  BY DEF TypeOK, DownIsQuiet, RowFitsPhase, Unfinished, Terminal, OnWorker
<1>3. LandedFitsPhase'
  BY DEF TypeOK, BoundsOK, LandedFitsPhase, OnRequest, OnWorker
<1>4. QueueHoldsQueued'
  BY DEF TypeOK, QueueHoldsQueued, OnRequest, OnWorker
<1>5. DownIsQuiet'
  BY DEF DownIsQuiet
<1>6. BorrowFitsPhase'
  BY DEF TypeOK, BorrowFitsPhase, OnRequest, OnWorker
<1>7. JobIsAccounted'
  <2>1. RowTellsOutcome'
    BY DEF TypeOK, BoundsOK, DownIsQuiet, Unfinished, JobIsAccounted, RowTellsOutcome, Terminal
  <2>2. UnfinishedHasWorker'
    BY DEF TypeOK, RowFitsPhase, JobIsAccounted, UnfinishedHasWorker, Unfinished, Terminal, OnWorker
  <2>3. BorrowSpansWork'
    BY DEF TypeOK, BorrowFitsPhase, JobIsAccounted, BorrowSpansWork, OnRequest, OnWorker
  <2> QED BY <2>1, <2>2, <2>3 DEF JobIsAccounted
<1> QED BY <1>1, <1>2, <1>3, <1>4, <1>5, <1>6, <1>7

-----------------------------------------------------------------------------
LEMMA NextStep == ASSUME IInv, [Next]_vars PROVE IInv'
<1>1. CASE UNCHANGED vars
  BY <1>1 DEF vars, history, bounds, IInv, TypeOK, BoundsOK, RowFitsPhase, LandedFitsPhase,
              QueueHoldsQueued, DownIsQuiet, BorrowFitsPhase, JobIsAccounted,
              RowTellsOutcome, UnfinishedHasWorker, BorrowSpansWork
<1>2. CASE Next
  BY <1>2, StampStep, InsertJobStep, InsertFailsStep, EnqueueStep, EnqueueRefusedStep,
     EnqueueThreadFailsStep, StartStep, StartFailsStep, WorkStep, RecordStep,
     RecordFailsStep, ShutdownStep, NewRunnerStep, CrashStep, RestartStep DEF Next
<1> QED BY <1>1, <1>2

(* Every behaviour keeps the inductive invariant.                          *)
THEOREM Invariance == Spec => []IInv
<1>1. Init => IInv
  BY InitIInv
<1>2. IInv /\ [Next]_vars => IInv'
  BY NextStep
<1> QED BY <1>1, <1>2, PTL DEF Spec

(* The variables keep their types.                                         *)
THEOREM TypeCorrect == Spec => []TypeOK
<1>1. IInv => TypeOK
  BY DEF IInv
<1> QED BY <1>1, Invariance, PTL

(* The row of a job tells its outcome, an unfinished row has its worker    *)
(* while the server is up, and the worker of an answered request has the   *)
(* borrow of its store, whatever crashes and whichever writes fail.        *)
THEOREM JobsAreAccounted == Spec => []JobIsAccounted
<1>1. IInv => JobIsAccounted
  BY DEF IInv
<1> QED BY <1>1, Invariance, PTL

(* No worker, retry or restart changes a terminal status: when the row is  *)
(* terminal no thread has the job, and a restart touches only unfinished   *)
(* rows.                                                                   *)
THEOREM TerminalStaysFinal == Spec => TerminalIsFinal
<1> DEFINE A == \A j \in Jobs : row[j] \in Terminal => row'[j] \in {row[j], "none"}
<1>1. IInv /\ [Next]_vars => [A]_vars
  <2> SUFFICES ASSUME IInv, Next, NEW j \in Jobs, row[j] \in Terminal
               PROVE  row'[j] \in {row[j], "none"}
    OBVIOUS
  <2>1. phase[j] \in {"done", "lost"} /\ row[j] # "none"
    BY DEF IInv, RowFitsPhase, Terminal
  <2>2. ASSUME NEW k \in Jobs, InsertJob(k) PROVE row'[j] \in {row[j], "none"}
    BY <2>1, <2>2 DEF InsertJob
  <2>3. ASSUME NEW k \in Jobs, Start(k) PROVE row'[j] = row[j]
    <3>1. k = queue[1] /\ 1 \in 1..Len(queue)
      BY <2>3 DEF Start, AtHead, IInv, TypeOK
    <3>2. k # j
      BY <2>1, <3>1 DEF IInv, QueueHoldsQueued
    <3> QED BY <2>3, <3>2 DEF Start, Updated, IInv, TypeOK
  <2>4. ASSUME NEW k \in Jobs, Record(k) PROVE row'[j] = row[j]
    BY <2>1, <2>4 DEF Record, Updated, IInv, TypeOK
  <2>5. CASE Restart
    BY <2>5 DEF Restart, Interrupted, Terminal, Unfinished
  <2>6. ASSUME NEW k \in Jobs,
               \/ Stamp(k) \/ InsertFails(k) \/ Enqueue(k) \/ EnqueueRefused(k)
               \/ EnqueueThreadFails(k) \/ StartFails(k) \/ Work(k) \/ RecordFails(k)
        PROVE  row' = row
    BY <2>6 DEF Stamp, InsertFails, Enqueue, EnqueueRefused, EnqueueThreadFails,
                StartFails, Work, RecordFails
  <2>7. CASE Shutdown \/ NewRunner \/ Crash
    BY <2>7 DEF Shutdown, NewRunner, Crash
  <2> QED BY <2>2, <2>3, <2>4, <2>5, <2>6, <2>7 DEF Next
<1> QED BY <1>1, Invariance, PTL DEF Spec, TerminalIsFinal
=============================================================================
