----------------------------- MODULE HookRetain -----------------------------
(***************************************************************************)
(* retain() of sodamem_cli/hooks.py: after every turn a coding tool runs a *)
(* short-lived process that sends what is new in the transcript to the     *)
(* service as an asynchronous ingestion, and keeps in a file how far it    *)
(* got.  The file has two positions: what is known to be stored, and what  *)
(* the job it waits for would store.  The hook may be killed at any point, *)
(* calls to the service fail before or after it acted on them, and the     *)
(* service keeps the rows of finished jobs only for a while.               *)
(*                                                                         *)
(* A transcript line is a turn or something else (a tool's result, say);   *)
(* the tool may be half way through its last line when a hook reads it.    *)
(***************************************************************************)
EXTENDS Integers, FiniteSets

CONSTANTS
    Hooks,       \* hook processes of the session that may overlap
    MaxLines,    \* bound: lines of the transcript
    MaxJobs,     \* bound: jobs the service accepts
    MaxTurns     \* RETAIN_MAX_TURNS

HookAssumption == {MaxLines, MaxJobs, MaxTurns} \subseteq Nat

Lines == 1..MaxLines
Jobs == 1..MaxJobs
NoJob == 0
Cursors == [committed : 0..MaxLines, pending : 0..MaxLines, job : 0..MaxJobs]
FirstCursor == [committed |-> 0, pending |-> 0, job |-> NoJob]

VARIABLES
    line,     \* what a line of the transcript is: "none", "partial", "turn", "noise"
    file,     \* the cursor file
    job,      \* what became of a job
    sent,     \* the lines of a job
    ingested, \* history: how often a turn went through an ingestion, capped at two
    turns,    \* what the store has of the session: a turn at a position
    hook,     \* a hook: how far it is, its cursor, the turns it read and up to where
    skimmed,  \* history: turns a hook read while the tool was writing them
    doubt     \* history: an outcome was unknown, a failed job had stored, a cursor
              \* was lost or hooks overlapped

vars == <<line, file, job, sent, ingested, turns, hook, skimmed, doubt>>

Idle == [at |-> "idle", cur |-> FirstCursor, got |-> {}, end |-> 0]
Written == {l \in Lines : line[l] # "none"}
Leave(h) == hook' = [hook EXCEPT ![h] = Idle]
Proceed(h, step, cursor) ==
    hook' = [hook EXCEPT ![h] = [Idle EXCEPT !.at = step, !.cur = cursor]]
Doubtful(b) == doubt' = (doubt \/ b)

-----------------------------------------------------------------------------
Init ==
    /\ line = [l \in Lines |-> "none"]
    /\ file = FirstCursor
    /\ job = [j \in Jobs |-> "none"]
    /\ sent = [j \in Jobs |-> {}]
    /\ ingested = [l \in Lines |-> 0]
    /\ turns = {}
    /\ hook = [h \in Hooks |-> Idle]
    /\ skimmed = {}
    /\ doubt = FALSE

(***************************************************************************)
(* The coding tool.                                                        *)
(***************************************************************************)
Append ==
    \E l \in Lines, kind \in {"partial", "turn", "noise"} :
        /\ line[l] = "none"
        /\ \A k \in 1..(l - 1) : line[k] \in {"turn", "noise"}
        /\ line' = [line EXCEPT ![l] = kind]
        /\ UNCHANGED <<file, job, sent, ingested, turns, hook, skimmed, doubt>>

Complete ==
    \E l \in Lines :
        /\ line[l] = "partial"
        /\ line' = [line EXCEPT ![l] = "turn"]
        /\ UNCHANGED <<file, job, sent, ingested, turns, hook, skimmed, doubt>>

(***************************************************************************)
(* The hook.                                                               *)
(***************************************************************************)
(* _read_cursor                                                            *)
Start(h) ==
    /\ hook[h].at = "idle"
    /\ Proceed(h, IF file.job = NoJob THEN "read" ELSE "resolve", file)
    /\ Doubtful(\E g \in Hooks \ {h} : hook[g].at # "idle")
    /\ UNCHANGED <<line, file, job, sent, ingested, turns, skimmed>>

MutPendingIsCount(c, status) ==
    IF status = "succeeded" THEN [committed |-> c.committed + c.pending, pending |-> 0, job |-> NoJob]
    ELSE IF status = "failed" THEN [committed |-> c.committed, pending |-> 0, job |-> NoJob]
    ELSE c
Settled(c, status) ==
    CASE status = "succeeded" -> [committed |-> c.pending, pending |-> 0, job |-> NoJob]
      [] status = "failed"    -> [committed |-> c.committed, pending |-> 0, job |-> NoJob]
      [] OTHER                -> c

(* _resolve_pending: a call that fails is not an answer, and neither is a  *)
(* 404 for a job the service has forgotten.                                *)
Resolve(h) ==
    /\ hook[h].at = "resolve"
    /\ \E status \in {job[hook[h].cur.job], "error"} :
          LET c == Settled(hook[h].cur, status) IN
          Proceed(h, IF c.job = NoJob THEN "read" ELSE "truncate", c)
    /\ UNCHANGED <<line, file, job, sent, ingested, turns, skimmed, doubt>>

TurnsFrom(start, to) == {l \in (start + 1)..to : line[l] = "turn"}

(* read_transcript stops at the line of the last turn it may carry, or at  *)
(* the end of the file; a line it cannot parse is skipped.                 *)
ReadUpTo(start) ==
    LET last == Cardinality(Written)
        full == {l \in (start + 1)..last : Cardinality(TurnsFrom(start, l)) = MaxTurns}
    IN  IF full = {} THEN last ELSE CHOOSE l \in full : \A m \in full : l <= m

Read(h) ==
    /\ hook[h].at = "read"
    /\ LET start == hook[h].cur.committed
           to == ReadUpTo(start)
           new == TurnsFrom(start, to) IN
       \/ new = {} /\ Leave(h) /\ UNCHANGED skimmed
       \/ /\ new # {}
          /\ hook' = [hook EXCEPT ![h].at = "add", ![h].got = new, ![h].end = to]
          /\ skimmed' = skimmed \cup {l \in (start + 1)..to : line[l] = "partial"}
    /\ UNCHANGED <<line, file, job, sent, ingested, turns, doubt>>

MutInFlightCommits(c, to, j) == [committed |-> to, pending |-> to, job |-> j]
InFlight(c, to, j) == [committed |-> c.committed, pending |-> to, job |-> j]

(* client.add with async_mode: accepted, or failed; a call that failed may *)
(* have been accepted.                                                     *)
Add(h) ==
    /\ hook[h].at = "add"
    /\ \/ Leave(h) /\ UNCHANGED <<job, sent, doubt>>
       \/ \E j \in Jobs :
             /\ job[j] = "none" /\ \A i \in 1..(j - 1) : job[i] # "none"
             /\ job' = [job EXCEPT ![j] = "pending"]
             /\ sent' = [sent EXCEPT ![j] = hook[h].got]
             /\ \/ /\ Proceed(h, "truncate", InFlight(hook[h].cur, hook[h].end, j))
                   /\ UNCHANGED doubt
                \/ Leave(h) /\ Doubtful(TRUE)
    /\ UNCHANGED <<line, file, ingested, turns, skimmed>>

(* _write_cursor: write_text empties the file before it fills it, and an   *)
(* empty file reads as a first cursor.  The file may also be unwritable.   *)
Truncate(h) ==
    /\ hook[h].at = "truncate"
    /\ \/ /\ file' = FirstCursor
          /\ Proceed(h, "write", hook[h].cur)
          /\ UNCHANGED doubt
       \/ Leave(h) /\ Doubtful(TRUE) /\ UNCHANGED file
    /\ UNCHANGED <<line, job, sent, ingested, turns, skimmed>>

Write(h) ==
    /\ hook[h].at = "write"
    /\ file' = hook[h].cur
    /\ Leave(h)
    /\ UNCHANGED <<line, job, sent, ingested, turns, skimmed, doubt>>

(* The coding tool kills the hook.                                         *)
Killed(h) ==
    /\ hook[h].at # "idle"
    /\ Leave(h)
    /\ Doubtful(hook[h].at \in {"truncate", "write"})
    /\ UNCHANGED <<line, file, job, sent, ingested, turns, skimmed>>

(***************************************************************************)
(* The service.                                                            *)
(***************************************************************************)
(* Every slice is sent under the id of the session, and a turn is kept     *)
(* under that id and its position in the slice.                            *)
Placed(lines) ==
    turns' = {e \in turns : e[1] > Cardinality(lines)} \cup
             {<<Cardinality({k \in lines : k <= l}), l>> : l \in lines}

Ingest(lines) ==
    /\ ingested' = [l \in Lines |->
                       IF l \in lines /\ ingested[l] < 2 THEN ingested[l] + 1 ELSE ingested[l]]
    /\ Placed(lines)

(* A job that failed may have stored its turns before it did.              *)
JobEnds(j) ==
    /\ job[j] = "pending"
    /\ \/ /\ job' = [job EXCEPT ![j] = "succeeded"]
          /\ Ingest(sent[j])
          /\ UNCHANGED doubt
       \/ /\ job' = [job EXCEPT ![j] = "failed"]
          /\ \/ Ingest(sent[j]) /\ Doubtful(TRUE)
             \/ UNCHANGED <<ingested, turns, doubt>>
    /\ UNCHANGED <<line, file, sent, hook, skimmed>>

(* job_retention_max: the row is deleted.                                  *)
JobForgotten(j) ==
    /\ job[j] \in {"pending", "succeeded", "failed"}
    /\ job' = [job EXCEPT ![j] = "forgotten"]
    /\ \/ job[j] = "pending" /\ Ingest(sent[j])
       \/ UNCHANGED <<ingested, turns>>
    /\ UNCHANGED <<line, file, sent, hook, skimmed, doubt>>

-----------------------------------------------------------------------------
HookNext(h) ==
    \/ Start(h) \/ Resolve(h) \/ Read(h) \/ Add(h) \/ Truncate(h) \/ Write(h) \/ Killed(h)

Next ==
    \/ Append \/ Complete
    \/ \E h \in Hooks : HookNext(h)
    \/ \E j \in Jobs : JobEnds(j) \/ JobForgotten(j)

Spec == Init /\ [][Next]_vars

-----------------------------------------------------------------------------
TypeOK ==
    /\ line \in [Lines -> {"none", "partial", "turn", "noise"}]
    /\ file \in Cursors
    /\ job \in [Jobs -> {"none", "pending", "succeeded", "failed", "forgotten"}]
    /\ sent \in [Jobs -> SUBSET Lines]
    /\ ingested \in [Lines -> 0..2]
    /\ turns \subseteq (1..MaxLines) \X Lines
    /\ hook \in [Hooks -> [at : {"idle", "resolve", "read", "add", "truncate", "write"},
                           cur : Cursors, got : SUBSET Lines, end : 0..MaxLines]]
    /\ skimmed \subseteq Lines
    /\ doubt \in BOOLEAN

(* However often hooks are killed, calls lost and jobs failed, the cursor  *)
(* never passes a turn that was not ingested, unless a hook read its line  *)
(* before the tool had finished it (the two positions of the cursor in     *)
(* sodamem_cli/hooks.py).                                                  *)
CommittedIsIngested ==
    \A l \in 1..file.committed : line[l] = "turn" => ingested[l] > 0 \/ l \in skimmed

(* "resending a job that is mid-extraction would duplicate it" (_resolve_  *)
(* pending): a turn is ingested twice only when an answer was lost, a      *)
(* failed job had stored, the cursor was lost or hooks overlapped.         *)
TwiceOnlyInDoubt == ~doubt => \A l \in Lines : ingested[l] < 2

(* "`committed` is what is known stored" (the comment over the state       *)
(* directory): with a hook at a time and every outcome known, the store    *)
(* has every turn the cursor has passed.                                   *)
CommittedIsStored ==
    ~doubt => \A l \in 1..file.committed :
                 line[l] = "turn" => l \in skimmed \/ \E i \in 1..MaxLines : <<i, l>> \in turns
=============================================================================
