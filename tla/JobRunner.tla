----------------------------- MODULE JobRunner ------------------------------
(***************************************************************************)
(* server/jobs.py and the job table of server/control.py: asynchronous     *)
(* writes.  A route borrows the user's store, JobRunner.submit stamps and  *)
(* inserts a row, then hands the work to a thread pool; a worker moves the *)
(* row to running and to a terminal status; a restart closes the rows of   *)
(* workers that died.  The table keeps the JobMax rows with the newest     *)
(* created_at.                                                             *)
(*                                                                         *)
(* The request threads interleave between stamping, inserting and          *)
(* enqueueing; the process may crash between any two steps; a database     *)
(* write of a worker may fail.  One job is one asynchronous request.       *)
(***************************************************************************)
EXTENDS Integers, FiniteSets, Sequences

CONSTANTS
    Jobs,           \* asynchronous requests
    Releasing,      \* those whose work gives the store back when it ends
                    \* (ingest and dream; a batch never does)
    Workers,        \* size of the thread pool
    JobMax,         \* settings.job_retention_max
    MaxCrashes,     \* bound: process crashes
    MaxFaults,      \* bound: failed database writes
    MaxShutdowns,   \* bound: JobRunner.shutdown calls
    ThreadsRunOut   \* whether the pool may fail to start a thread

ASSUME JobRunnerAssumption ==
    /\ Releasing \subseteq Jobs
    /\ Workers \in Nat \ {0}
    /\ JobMax \in Nat \ {0}
    /\ MaxCrashes \in Nat /\ MaxFaults \in Nat /\ MaxShutdowns \in Nat
    /\ ThreadsRunOut \in BOOLEAN

VARIABLES
    row,        \* jobs.status of the job's row; "none" without a row
    stamp,      \* created_at: 0 before submit() stamps the job
    clock,      \* the next created_at
    phase,      \* how far the request thread or the worker of the job is
    queue,      \* the pool's work queue
    accepting,  \* the pool takes work: FALSE once shutdown() was called
    up,         \* the server process runs
    borrow,     \* borrows of the job's store taken minus given back
    landed,     \* history: jobs whose work finished normally
    inserted,   \* history: jobs whose row was committed
    accepted,   \* history: jobs whose client holds a 202 with the job id
    orphaned,   \* history: jobs cancelled or dropped by a failed write
    crashes, faults, shutdowns

vars == <<row, stamp, clock, phase, queue, accepting, up, borrow, landed,
          inserted, accepted, orphaned, crashes, faults, shutdowns>>
bounds == <<crashes, faults, shutdowns>>
history == <<landed, inserted, accepted, orphaned>>

Unfinished == {"pending", "running"}
Terminal == {"succeeded", "failed"}
Status == Unfinished \cup Terminal
OnRequest == {"stamped", "inserted"}
OnWorker == {"working", "landed", "raised"}

Rows == {j \in Jobs : row[j] # "none"}
Busy == {j \in Jobs : phase[j] \in OnWorker}

-----------------------------------------------------------------------------
Init ==
    /\ row = [j \in Jobs |-> "none"]
    /\ stamp = [j \in Jobs |-> 0]
    /\ clock = 1
    /\ phase = [j \in Jobs |-> "idle"]
    /\ queue = <<>>
    /\ accepting = TRUE
    /\ up = TRUE
    /\ borrow = [j \in Jobs |-> 0]
    /\ landed = {} /\ inserted = {} /\ accepted = {} /\ orphaned = {}
    /\ crashes = 0 /\ faults = 0 /\ shutdowns = 0

(* The store is borrowed for the job, submit() reads the clock.            *)
Stamp(j) ==
    /\ up /\ phase[j] = "idle"
    /\ phase' = [phase EXCEPT ![j] = "stamped"]
    /\ borrow' = [borrow EXCEPT ![j] = 1]
    /\ stamp' = [stamp EXCEPT ![j] = clock]
    /\ clock' = clock + 1
    /\ UNCHANGED <<row, queue, accepting, up, history, bounds>>

(* ORDER BY created_at DESC LIMIT -1 OFFSET JobMax: what insert_job deletes *)
(* of the rows S.                                                          *)

BeyondCap(S) ==
    {j \in S : Cardinality({k \in S : stamp[k] > stamp[j]}) >= JobMax}

InsertJob(j) ==
    /\ up /\ phase[j] = "stamped"
    /\ LET pruned == BeyondCap(Rows \cup {j})
       IN  row' = [k \in Jobs |-> IF k \in pruned THEN "none"
                                  ELSE IF k = j THEN "pending" ELSE row[k]]
    /\ phase' = [phase EXCEPT ![j] = "inserted"]
    /\ inserted' = inserted \cup {j}
    /\ UNCHANGED <<stamp, clock, queue, accepting, up, borrow,
                   landed, accepted, orphaned, bounds>>

(* submit() raised: the route gives the store back where it was written to.*)
AfterRefusal(j) == IF j \in Releasing THEN borrow[j] - 1 ELSE borrow[j]

InsertFails(j) ==
    /\ up /\ phase[j] = "stamped"
    /\ faults < MaxFaults
    /\ faults' = faults + 1
    /\ phase' = [phase EXCEPT ![j] = "done"]
    /\ borrow' = [borrow EXCEPT ![j] = AfterRefusal(j)]
    /\ UNCHANGED <<row, stamp, clock, queue, accepting, up, history,
                   crashes, shutdowns>>

(* A handed-over job keeps the borrow: it outlives the request.            *)
AfterHandover(j) == borrow[j]

Enqueue(j) ==
    /\ up /\ phase[j] = "inserted" /\ accepting
    /\ queue' = Append(queue, j)
    /\ phase' = [phase EXCEPT ![j] = "queued"]
    /\ accepted' = accepted \cup {j}
    /\ borrow' = [borrow EXCEPT ![j] = AfterHandover(j)]
    /\ UNCHANGED <<row, stamp, clock, accepting, up,
                   landed, inserted, orphaned, bounds>>

(* A pool that was shut down refuses the work: the row is left behind.     *)
EnqueueRefused(j) ==
    /\ up /\ phase[j] = "inserted" /\ ~accepting
    /\ phase' = [phase EXCEPT ![j] = "done"]
    /\ borrow' = [borrow EXCEPT ![j] = AfterRefusal(j)]
    /\ orphaned' = orphaned \cup {j}
    /\ UNCHANGED <<row, stamp, clock, queue, accepting, up,
                   landed, inserted, accepted, bounds>>

(* ThreadPoolExecutor.submit queues the work before it starts a thread for *)
(* it, which it does when all are busy: when the thread cannot be started  *)
(* the caller sees an exception and a worker that already runs takes the   *)
(* work all the same.                                                      *)
EnqueueThreadFails(j) ==
    /\ ThreadsRunOut
    /\ up /\ phase[j] = "inserted" /\ accepting
    /\ Busy # {} /\ Cardinality(Busy) + Len(queue) < Workers
    /\ queue' = Append(queue, j)
    /\ phase' = [phase EXCEPT ![j] = "queued"]
    /\ borrow' = [borrow EXCEPT ![j] = AfterRefusal(j)]
    /\ UNCHANGED <<row, stamp, clock, accepting, up, history, bounds>>

-----------------------------------------------------------------------------
(* The rows an update_job touches: none when the row was pruned.           *)
Updated(j, status) == IF row[j] = "none" THEN row ELSE [row EXCEPT ![j] = status]

AtHead(j) ==
    /\ up /\ queue # <<>> /\ Head(queue) = j
    /\ Cardinality(Busy) < Workers

Start(j) ==
    /\ AtHead(j)
    /\ queue' = Tail(queue)
    /\ phase' = [phase EXCEPT ![j] = "working"]
    /\ row' = Updated(j, "running")
    /\ UNCHANGED <<stamp, clock, accepting, up, borrow, history, bounds>>

(* The update to running is outside the try of _run: when it raises, the   *)
(* work is not done, nothing is recorded and the store is not given back.  *)
StartFails(j) ==
    /\ AtHead(j)
    /\ faults < MaxFaults
    /\ faults' = faults + 1
    /\ queue' = Tail(queue)
    /\ phase' = [phase EXCEPT ![j] = "done"]
    /\ orphaned' = orphaned \cup {j}
    /\ UNCHANGED <<row, stamp, clock, accepting, up, borrow,
                   landed, inserted, accepted, crashes, shutdowns>>

MutReleaseOnlyOnSuccess(j, ok) ==
    IF j \in Releasing /\ ok THEN borrow[j] - 1 ELSE borrow[j]

AfterWork(j, ok) == IF j \in Releasing THEN borrow[j] - 1 ELSE borrow[j]

(* fn() returns or raises; its finally gives the store back.               *)
Work(j) ==
    /\ up /\ phase[j] = "working"
    /\ \E ok \in BOOLEAN :
        /\ phase' = [phase EXCEPT ![j] = IF ok THEN "landed" ELSE "raised"]
        /\ borrow' = [borrow EXCEPT ![j] = AfterWork(j, ok)]
        /\ landed' = IF ok THEN landed \cup {j} ELSE landed
    /\ UNCHANGED <<row, stamp, clock, queue, accepting, up,
                   inserted, accepted, orphaned, bounds>>

Outcome(j) == IF phase[j] = "landed" THEN "succeeded" ELSE "failed"

Record(j) ==
    /\ up /\ phase[j] \in {"landed", "raised"}
    /\ row' = Updated(j, Outcome(j))
    /\ phase' = [phase EXCEPT ![j] = "done"]
    /\ UNCHANGED <<stamp, clock, queue, accepting, up, borrow, history, bounds>>

(* A failed write of `succeeded' lands in the except branch, which records *)
(* a failure; a failed write there ends the worker's job unrecorded.       *)
RecordFails(j) ==
    /\ up /\ phase[j] \in {"landed", "raised"}
    /\ faults < MaxFaults
    /\ faults' = faults + 1
    /\ \/ /\ phase[j] = "landed"
          /\ phase' = [phase EXCEPT ![j] = "raised"]
          /\ UNCHANGED orphaned
       \/ /\ phase[j] = "raised"
          /\ phase' = [phase EXCEPT ![j] = "done"]
          /\ orphaned' = orphaned \cup {j}
    /\ UNCHANGED <<row, stamp, clock, queue, accepting, up, borrow,
                   landed, inserted, accepted, crashes, shutdowns>>

-----------------------------------------------------------------------------
(* shutdown(): cancel_futures drops what is queued.  reset_job_runner      *)
(* waits for the workers, then the next caller builds a new pool.          *)
Shutdown ==
    /\ up /\ accepting
    /\ shutdowns < MaxShutdowns
    /\ shutdowns' = shutdowns + 1
    /\ accepting' = FALSE
    /\ queue' = <<>>
    /\ phase' = [j \in Jobs |-> IF phase[j] = "queued" THEN "done" ELSE phase[j]]
    /\ orphaned' = orphaned \cup {j \in Jobs : phase[j] = "queued"}
    /\ UNCHANGED <<row, stamp, clock, up, borrow, landed, inserted, accepted,
                   crashes, faults>>

NewRunner ==
    /\ up /\ ~accepting /\ Busy = {}
    /\ accepting' = TRUE
    /\ UNCHANGED <<row, stamp, clock, phase, queue, up, borrow, history, bounds>>

(* Everything but the database is gone.                                    *)
Crash ==
    /\ up
    /\ crashes < MaxCrashes
    /\ crashes' = crashes + 1
    /\ up' = FALSE
    /\ queue' = <<>>
    /\ phase' = [j \in Jobs |->
                    IF phase[j] \in {"idle", "done"}
                    THEN phase[j] ELSE "lost"]
    /\ borrow' = [j \in Jobs |-> 0]
    /\ UNCHANGED <<row, stamp, clock, accepting, history, faults, shutdowns>>

MutReconcileRunningOnly == {j \in Jobs : row[j] = "running"}
MutReconcileAll == Rows

Interrupted == {j \in Jobs : row[j] \in Unfinished}

(* create_app(): reconcile_orphaned_jobs() runs before the routes exist.   *)
Restart ==
    /\ ~up
    /\ up' = TRUE
    /\ accepting' = TRUE
    /\ row' = [j \in Jobs |-> IF j \in Interrupted THEN "failed" ELSE row[j]]
    /\ UNCHANGED <<stamp, clock, phase, queue, borrow, history, bounds>>

-----------------------------------------------------------------------------
(* What the thread that has the job does when nothing fails.               *)
Proceed(j) ==
    \/ InsertJob(j) \/ Enqueue(j) \/ EnqueueRefused(j)
    \/ Start(j) \/ Work(j) \/ Record(j)

Next ==
    \/ \E j \in Jobs :
        \/ Stamp(j) \/ InsertJob(j) \/ InsertFails(j)
        \/ Enqueue(j) \/ EnqueueRefused(j) \/ EnqueueThreadFails(j)
        \/ Start(j) \/ StartFails(j) \/ Work(j) \/ Record(j) \/ RecordFails(j)
    \/ Shutdown \/ NewRunner \/ Crash \/ Restart

Spec == Init /\ [][Next]_vars

(* Request threads and workers run on, and a server that went down is      *)
(* started again (restart policy of the container or the daemon).          *)
Fairness ==
    /\ \A j \in Jobs : WF_vars(Proceed(j))
    /\ WF_vars(NewRunner) /\ WF_vars(Restart)

FairSpec == Spec /\ Fairness

-----------------------------------------------------------------------------
TypeOK ==
    /\ row \in [Jobs -> Status \cup {"none"}]
    /\ stamp \in [Jobs -> Nat] /\ clock \in Nat
    /\ phase \in [Jobs -> OnRequest \cup OnWorker \cup
                          {"idle", "queued", "done", "lost"}]
    /\ queue \in Seq(Jobs)
    /\ accepting \in BOOLEAN /\ up \in BOOLEAN
    /\ borrow \in [Jobs -> Int]
    /\ landed \subseteq Jobs /\ inserted \subseteq Jobs
    /\ accepted \subseteq Jobs /\ orphaned \subseteq Jobs

(* ADR 0001 par. 3: a terminal status is final.  Once a client has read    *)
(* succeeded or failed, no worker, retry or restart changes it; the row    *)
(* may only leave by retention.                                            *)
TerminalIsFinal ==
    [][ \A j \in Jobs : row[j] \in Terminal => row'[j] \in {row[j], "none"} ]_vars

(* A job that reads `succeeded' did its work, and one that reads `failed'  *)
(* though its data landed was interrupted between the two: by a crash, or  *)
(* by a failed write of its status.  The text reconcile_orphaned_jobs      *)
(* records ("resubmit to retry") makes such a job be ingested twice, and   *)
(* nothing but these two can cause it.                                     *)
RowTellsOutcome ==
    \A j \in Jobs :
        /\ row[j] = "succeeded" => j \in landed
        /\ row[j] = "failed" /\ j \in landed => crashes + faults > 0

(* While the server is up an unfinished row has somebody working towards   *)
(* its end, unless the job was cancelled by shutdown() or dropped by a     *)
(* failed write of its own status: in particular no row of an earlier      *)
(* process stays unfinished.                                               *)
UnfinishedHasWorker ==
    up => \A j \in Jobs :
            row[j] \in Unfinished =>
                \/ phase[j] \in {"inserted", "queued"} \cup OnWorker
                \/ j \in orphaned

(* The borrow outlives the request and ends with the work: the work of a   *)
(* job whose request was answered never runs on a store it no longer       *)
(* borrows, and a borrow whose work gives it back is outstanding only      *)
(* while the job is alive, or was cancelled or dropped before its work.    *)
(* One is given back twice only for a job whose row was inserted and whose *)
(* request was told that it was not submitted ("Never submitted, so        *)
(* nothing will ever release it", memories.py:129), when threads run out.  *)
BorrowSpansWork ==
    /\ \A j \in accepted : phase[j] = "working" => borrow[j] = 1
    /\ \A j \in Releasing :
          borrow[j] = 1 =>
              \/ phase[j] \in OnRequest \cup {"queued", "working"}
              \/ j \in orphaned
    /\ \A j \in Jobs :
          borrow[j] < 0 => borrow[j] = -1 /\ ThreadsRunOut /\ j \in inserted \ accepted

(* A job is accounted for at every moment: its row tells the outcome, an   *)
(* unfinished row has its worker, and the worker its borrow.               *)
JobIsAccounted == RowTellsOutcome /\ UnfinishedHasWorker /\ BorrowSpansWork

(* Every job a client was told about ends: its row becomes terminal, or    *)
(* leaves by retention, or the job was cancelled or dropped.               *)
AcceptedEnds ==
    \A j \in Jobs :
        j \in accepted ~> row[j] \in Terminal \cup {"none"} \/ j \in orphaned
=============================================================================
