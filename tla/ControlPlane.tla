---------------------------- MODULE ControlPlane ----------------------------
(***************************************************************************)
(* The control database of a server (server/control.py): one SQLite        *)
(* connection, one lock, and the requests (server/app.py, server/auth.py,  *)
(* server/routes/admin.py) and workers that write through it.              *)
(*                                                                         *)
(* Every method is one region of the lock, but not always one transaction: *)
(* a statement that finds the database locked raises, and the transaction  *)
(* the connection is in stays open for whoever comes next.  The database   *)
(* is locked while a process that was refused the data root leaves word of *)
(* it (_record_lock_contention), and to a transaction that has read before *)
(* that was committed it stays so: its snapshot is behind.  Waiting for a  *)
(* lock (SQLite's busy timeout) is a step that is not taken yet.           *)
(***************************************************************************)
EXTENDS Integers, FiniteSets

CONSTANTS
    Requests,   \* requests served at a time
    Keys,       \* named API keys
    Bootstrap,  \* the key of the environment, which is in no table
    Jobs,       \* jobs, numbered by their created_at
    JobMax,     \* job_retention_max
    LogMaxes    \* values of request_log_max; 0 turns the log off

ASSUME ControlAssumption ==
    /\ Bootstrap \notin Keys
    /\ Jobs \subseteq Nat /\ JobMax \in Nat \ {0}
    /\ LogMaxes \subseteq Nat

VARIABLES
    up,        \* the server runs
    logMax,    \* its request_log_max
    txn,       \* the connection: "none", "begun", or "snap" once it has read
    behind,    \* another process committed since
    key,       \* api_keys: "absent", "live", "revoked"
    row,       \* the jobs that have a row (what it says is the subject of JobRunner)
    log,       \* the number of rows of request_logs
    writing,   \* a refused process is in its write transaction
    req,       \* a request: how far it is, what it is, and with which key
    told,      \* history: keys callers were told are revoked, jobs accepted
    late       \* history: requests presented after their key was said to be revoked

vars == <<up, logMax, txn, behind, key, row, log, writing, req, told, late>>
connection == <<txn, behind>>
tables == <<key, row, log>>
outside == <<up, logMax, writing>>

Callers == Keys \cup {Bootstrap}
Reading == <<"read", Bootstrap>>
Ops == {Reading} \cup ({"submit"} \X Jobs) \cup ({"mint", "revoke"} \X Keys)
Idle == [at |-> "idle", op |-> Reading, key |-> Bootstrap]
NothingTold == [revoked |-> {}, accepted |-> {}]
Become(r, phase) == req' = [req EXCEPT ![r].at = phase]
(* An exception nobody handles is answered 500, past the middleware.       *)
Fail(r) == req' = [req EXCEPT ![r] = Idle]
Newest(S) == {j \in S : Cardinality({i \in S : i > j}) < JobMax}

-----------------------------------------------------------------------------
Init ==
    /\ up = TRUE /\ logMax \in LogMaxes
    /\ txn = "none" /\ behind = FALSE
    /\ key \in [Keys -> {"absent", "live"}]
    /\ row = {} /\ log = 0
    /\ writing = FALSE
    /\ req = [r \in Requests |-> Idle]
    /\ told = NothingTold
    /\ late = {}

(***************************************************************************)
(* SQLite.                                                                 *)
(***************************************************************************)
(* A read inside a transaction takes its snapshot.                         *)
Snapshot == IF txn = "begun" THEN "snap" ELSE txn

(* A write after which the method commits, from transaction state t.       *)
Locked(t) == writing \/ (t = "snap" /\ behind)
Committed(t) == ~Locked(t) /\ txn' = "none" /\ behind' = FALSE
Refused(t) ==
    /\ Locked(t)
    /\ txn' = IF t = "none" THEN "begun" ELSE t
    /\ UNCHANGED behind
OnlyRead == txn' = Snapshot /\ UNCHANGED behind

(***************************************************************************)
(* A request.                                                              *)
(***************************************************************************)
Unused(op) ==
    /\ \A r \in Requests : req[r].op # op
    /\ op[1] = "mint" => key[op[2]] = "absent"
    /\ op[1] = "submit" => op[2] \notin told.accepted

Arrive(r, op, k) ==
    /\ up /\ req[r].at = "idle"
    /\ op[1] \in {"mint", "submit"} => Unused(op)
    /\ req' = [req EXCEPT ![r] = [at |-> "verify", op |-> op, key |-> k]]
    /\ late' = IF k \in told.revoked THEN late \cup {r} ELSE late \ {r}
    /\ UNCHANGED <<connection, tables, outside, told>>

MutLiveIgnoresRevocation(k) == key[k] # "absent"
Live(k) == key[k] = "live"

(* require_api_key, verify_api_key: a live key's last_used_at is refreshed *)
(* when it is older than a minute.                                         *)
Verify(r) ==
    /\ req[r].at = "verify"
    /\ LET k == req[r].key IN
       \/ k = Bootstrap /\ Become(r, "handle") /\ UNCHANGED connection
       \/ k # Bootstrap /\ ~Live(k) /\ Become(r, "log") /\ OnlyRead
       \/ /\ k # Bootstrap /\ Live(k)
          /\ \/ Become(r, "handle") /\ (OnlyRead \/ Committed(Snapshot))
             \/ Fail(r) /\ Refused(Snapshot)
    /\ UNCHANGED <<tables, outside, told, late>>

Reads(r) ==
    /\ req[r].at = "handle" /\ req[r].op = Reading
    /\ OnlyRead
    /\ Become(r, "log")
    /\ UNCHANGED <<tables, outside, told, late>>

(* create_api_key                                                          *)
Mint(r, k) ==
    /\ req[r].at = "handle" /\ req[r].op = <<"mint", k>>
    /\ key[k] = "absent"
    /\ \/ /\ Committed(txn)
          /\ key' = [key EXCEPT ![k] = "live"]
          /\ Become(r, "log")
       \/ Refused(txn) /\ Fail(r) /\ UNCHANGED key
    /\ UNCHANGED <<row, log, outside, told, late>>

SayRevoked(k) == told' = [told EXCEPT !.revoked = @ \cup {k}]

(* revoke_api_key: a key that is revoked already is answered as it is, one *)
(* that is unknown with 404.                                               *)
Revoke(r, k) ==
    /\ req[r].at = "handle" /\ req[r].op = <<"revoke", k>>
    /\ \/ /\ Live(k) /\ Committed(Snapshot)
          /\ key' = [key EXCEPT ![k] = "revoked"]
          /\ SayRevoked(k) /\ Become(r, "log")
       \/ /\ Live(k) /\ Refused(Snapshot)
          /\ Fail(r)
          /\ UNCHANGED <<key, told>>
       \/ /\ ~Live(k) /\ OnlyRead
          /\ told' = [told EXCEPT !.revoked = @ \cup {x \in {k} : key[x] = "revoked"}]
          /\ Become(r, "log")
          /\ UNCHANGED key
    /\ UNCHANGED <<row, log, outside, late>>

MutInsertDropsNewest(j) == {i \in row \cup {j} : Cardinality({k \in row \cup {j} : k < i}) < JobMax}
(* Retention goes by created_at, which is stamped before the lock is taken:*)
(* rows need not arrive in its order.                                      *)
Inserted(j) == Newest(row \cup {j})

(* insert_job: BEGIN raises inside a transaction, and nothing ends one     *)
(* that a failed INSERT leaves behind.                                     *)
Submit(r, j) ==
    /\ req[r].at = "handle" /\ req[r].op = <<"submit", j>>
    /\ \/ /\ txn = "none" /\ Committed("begun")
          /\ row' = Inserted(j)
          /\ told' = [told EXCEPT !.accepted = @ \cup {j}]
          /\ Become(r, "log")
       \/ /\ IF txn = "none" THEN Refused("begun") ELSE UNCHANGED connection
          /\ Fail(r)
          /\ UNCHANGED <<row, told>>
    /\ UNCHANGED <<key, log, outside, late>>

(* record_request: BEGIN raises inside a transaction too, and then it is   *)
(* rolled back, with this request's own entry.                             *)
MutKeepsTransaction == UNCHANGED connection
RollsBack == txn' = "none" /\ behind' = FALSE
(* Inserted and pruned in one transaction.                                 *)
Logged == IF log < logMax THEN log + 1 ELSE logMax

Record(r) ==
    /\ req[r].at = "log"
    /\ req' = [req EXCEPT ![r] = Idle]
    /\ IF logMax = 0 THEN UNCHANGED <<connection, log>>
       ELSE \/ txn = "none" /\ ~writing /\ log' = Logged /\ UNCHANGED connection
            \/ (txn # "none" \/ writing) /\ RollsBack /\ UNCHANGED log
    /\ UNCHANGED <<key, row, outside, told, late>>

(***************************************************************************)
(* A worker, and the process.                                              *)
(***************************************************************************)
(* update_job, by the worker of some job.                                  *)
UpdateJob ==
    /\ up
    /\ Committed(txn) \/ Refused(txn)
    /\ UNCHANGED <<tables, outside, req, told, late>>

Stop ==
    /\ up /\ up' = FALSE
    /\ txn' = "none" /\ behind' = FALSE
    /\ req' = [r \in Requests |-> Idle]
    /\ UNCHANGED <<tables, logMax, writing, told, late>>

(* create_app: reconcile_orphaned_jobs must get its write through.         *)
Restart ==
    /\ ~up /\ ~writing
    /\ up' = TRUE
    /\ logMax' \in LogMaxes
    /\ UNCHANGED <<connection, tables, writing, req, told, late>>

(* _record_lock_contention in a process that was refused the data root; it *)
(* may be killed before it commits.                                        *)
Contend ==
    /\ ~writing
    /\ writing' = TRUE
    /\ UNCHANGED <<connection, tables, up, logMax, req, told, late>>

ContendEnds ==
    /\ writing /\ writing' = FALSE
    /\ \/ behind' = (txn = "snap")
       \/ UNCHANGED behind
    /\ UNCHANGED <<txn, tables, up, logMax, req, told, late>>

-----------------------------------------------------------------------------
Serve(r) ==
    \/ Verify(r) \/ Reads(r) \/ Record(r)
    \/ \E k \in Keys : Mint(r, k) \/ Revoke(r, k)
    \/ \E j \in Jobs : Submit(r, j)

Next ==
    \/ \E r \in Requests, op \in Ops, k \in Callers : Arrive(r, op, k)
    \/ \E r \in Requests : Serve(r)
    \/ UpdateJob \/ Stop \/ Restart \/ Contend \/ ContendEnds

Spec == Init /\ [][Next]_vars

(* Requests run on to their answer, a stopped server is started again, a   *)
(* refused process ends, and callers with the bootstrap key (a console     *)
(* that polls) do not stop calling.                                        *)
Fairness ==
    /\ \A r \in Requests : WF_vars(Serve(r))
    /\ SF_vars(\E r \in Requests : Arrive(r, Reading, Bootstrap))
    /\ WF_vars(ContendEnds) /\ WF_vars(Restart)

FairSpec == Spec /\ Fairness

-----------------------------------------------------------------------------
TypeOK ==
    /\ up \in BOOLEAN /\ logMax \in LogMaxes
    /\ txn \in {"none", "begun", "snap"} /\ behind \in BOOLEAN
    /\ key \in [Keys -> {"absent", "live", "revoked"}]
    /\ row \subseteq Jobs
    /\ log \in Nat /\ \E max \in LogMaxes : log <= max
    /\ writing \in BOOLEAN
    /\ req \in [Requests -> [at : {"idle", "verify", "handle", "log"}, op : Ops, key : Callers]]
    /\ told.revoked \subseteq Keys /\ told.accepted \subseteq Jobs
    /\ late \subseteq Requests

(* Once a caller was told that a key is revoked no request with it gets    *)
(* past require_api_key, whatever other writes failed, were rolled back or *)
(* interrupted in between ("a revoked key is treated exactly like an       *)
(* unknown one", server/control.py).                                       *)
RevokedNeverPasses == \A r \in late : req[r].at # "handle"

(* The job table holds the newest accepted jobs and no other: a submission *)
(* that was answered with an error leaves no row, not even through the     *)
(* transaction it left open on the shared connection (insert_job).         *)
RowsAreNewestAccepted ==
    row = Newest(told.accepted)

(* As long as requests are logged, a transaction a failed write left open  *)
(* ends: record_request fails in it and rolls it back.  With the log off   *)
(* nothing does.                                                           *)
TransactionEnds == (txn # "none" /\ logMax > 0) ~> (txn = "none" \/ logMax = 0)
=============================================================================
