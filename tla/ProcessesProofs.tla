-------------------------- MODULE ProcessesProofs ---------------------------
(***************************************************************************)
(* Proofs about Processes, for every value of its constants.               *)
(*                                                                         *)
(* Daemon, any number of commands run at once and of processes they start: *)
(* one process at most can write to a data root, and a race of them leaves *)
(* one.                                                                    *)
(*                                                                         *)
(* HookRetain, any number of hooks, jobs and lines of a transcript: what   *)
(* the cursor of the file tells.                                           *)
(*                                                                         *)
(* Webhooks, any number of events and dispatchers and a queue of any       *)
(* length: what became of the events a dispatcher accepted.                *)
(*                                                                         *)
(* McpBackend, any number of tool servers, turns and sessions: what the    *)
(* tools answered, and that a search answers the same in both modes.       *)
(*                                                                         *)
(* ModelCalls, any number of operations, models and reopened stores: whose *)
(* the finish reason is that a caller reads, and that what is counted is   *)
(* what was heard.                                                         *)
(*                                                                         *)
(* Install, any number of commands on a file, of its user's entries and of *)
(* crashes: the user keeps what was in it.                                 *)
(***************************************************************************)
EXTENDS BenchmarkProofs

(* Who holds, serves or drains has the lock.                               *)
WriterHolds ==
    \A p \in Pids : proc[p] \in {"holding", "serving", "draining"} => holder = p

(* A command that started a process knows its pid, which is not given away *)
(* before the command has ended; one that is to signal has a pid too.      *)
MineIsMine ==
    \A c \in Callers :
        /\ command[c] \in {"name", "poll", "probe"} =>
            mine[c] \in Pids /\ proc[mine[c]] \notin {"free", "other"}
        /\ command[c] \in {"kill", "unlink"} => mine[c] \in Pids

(* As long as nothing was signalled and nothing died by itself, a process  *)
(* has ended only because another has the lock, and that one runs.         *)
LockIsKept ==
    ~ended =>
        /\ \A p \in Pids : proc[p] # "draining"
        /\ holder # NoPid => proc[holder] \in {"holding", "serving"}
        /\ (\E p \in Pids : proc[p] \in {"dead", "other"}) => holder # NoPid
        /\ (\E c \in Callers : command[c] = "failed") => holder # NoPid

(* The inductive invariant.                                                *)
DaemonInv == D!TypeOK /\ WriterHolds /\ MineIsMine /\ LockIsKept

-----------------------------------------------------------------------------
LEMMA InitDaemon == ASSUME D!Init PROVE DaemonInv
<1>1. D!TypeOK
  BY DEF D!Init, D!TypeOK, D!Phases, D!Ended
<1>2. WriterHolds /\ MineIsMine /\ LockIsKept
  BY DEF D!Init, WriterHolds, MineIsMine, LockIsKept
<1> QED BY <1>1, <1>2 DEF DaemonInv

LEMMA EnsureBeginsStep ==
    ASSUME D!DaemonAssumption, DaemonInv, NEW c \in Callers, D!EnsureBegins(c)
    PROVE  DaemonInv'
<1> USE DEF D!DaemonAssumption, DaemonInv, D!EnsureBegins, D!Goto, D!End
<1>1. D!TypeOK'
  BY DEF D!TypeOK, D!Phases, D!Ended
<1>2. WriterHolds'
  BY DEF D!TypeOK, WriterHolds
<1>3. MineIsMine'
  BY DEF D!TypeOK, MineIsMine, D!Ended
<1>4. LockIsKept'
  BY DEF D!TypeOK, WriterHolds, MineIsMine, LockIsKept
<1> QED BY <1>1, <1>2, <1>3, <1>4

LEMMA SpawnStep ==
    ASSUME D!DaemonAssumption, DaemonInv, NEW c \in Callers, D!Spawn(c)
    PROVE  DaemonInv'
<1> USE DEF D!DaemonAssumption, DaemonInv, D!Spawn, D!Become, D!Take
<1>1. D!TypeOK'
  BY DEF D!TypeOK, D!Phases, D!Ended
<1>2. WriterHolds'
  BY DEF D!TypeOK, WriterHolds
<1>3. MineIsMine'
  BY DEF D!TypeOK, MineIsMine, D!Ended
<1>4. LockIsKept'
  BY DEF D!TypeOK, WriterHolds, MineIsMine, LockIsKept
<1> QED BY <1>1, <1>2, <1>3, <1>4

LEMMA WritePidStep ==
    ASSUME D!DaemonAssumption, DaemonInv, NEW c \in Callers, D!WritePid(c)
    PROVE  DaemonInv'
<1> USE DEF D!DaemonAssumption, DaemonInv, D!WritePid, D!Goto
<1>1. D!TypeOK'
  BY DEF D!TypeOK, D!Phases, D!Ended
<1>2. WriterHolds'
  BY DEF D!TypeOK, WriterHolds
<1>3. MineIsMine'
  BY DEF D!TypeOK, MineIsMine, D!Ended
<1>4. LockIsKept'
  BY DEF D!TypeOK, WriterHolds, MineIsMine, LockIsKept
<1> QED BY <1>1, <1>2, <1>3, <1>4

(* A command that finds its process gone has lost to the one with the lock. *)
LEMMA PollStep ==
    ASSUME D!DaemonAssumption, DaemonInv, NEW c \in Callers, D!Poll(c)
    PROVE  DaemonInv'
<1> USE DEF D!DaemonAssumption, DaemonInv, D!Poll, D!Goto, D!End, D!Alive
<1>1. D!TypeOK'
  BY DEF D!TypeOK, D!Phases, D!Ended
<1>2. WriterHolds'
  BY DEF D!TypeOK, WriterHolds
<1>3. MineIsMine'
  BY DEF D!TypeOK, MineIsMine, D!Ended
<1>4. LockIsKept'
  <2>1. mine[c] \in Pids /\ proc[mine[c]] \in {"booting", "holding", "serving", "draining", "dead"}
    BY DEF D!TypeOK, MineIsMine, D!Phases
  <2>2. CASE D!Alive(mine[c])
    BY <2>2 DEF D!TypeOK, LockIsKept
  <2>3. CASE ~D!Alive(mine[c])
    <3>1. proc[mine[c]] = "dead"
      BY <2>1, <2>3
    <3>2. ~ended => holder # NoPid
      BY <2>1, <3>1 DEF LockIsKept
    <3> QED BY <3>2 DEF D!TypeOK, LockIsKept
  <2> QED BY <2>2, <2>3
<1> QED BY <1>1, <1>2, <1>3, <1>4

LEMMA ProbeStep ==
    ASSUME D!DaemonAssumption, DaemonInv, NEW c \in Callers, D!Probe(c)
    PROVE  DaemonInv'
<1> USE DEF D!DaemonAssumption, DaemonInv, D!Probe, D!Goto, D!End
<1>1. D!TypeOK'
  BY DEF D!TypeOK, D!Phases, D!Ended
<1>2. WriterHolds'
  BY DEF D!TypeOK, WriterHolds
<1>3. MineIsMine'
  BY DEF D!TypeOK, MineIsMine, D!Ended
<1>4. LockIsKept'
  BY DEF D!TypeOK, WriterHolds, MineIsMine, LockIsKept
<1> QED BY <1>1, <1>2, <1>3, <1>4

LEMMA GiveUpStep ==
    ASSUME D!DaemonAssumption, DaemonInv, NEW c \in Callers, D!GiveUp(c)
    PROVE  DaemonInv'
<1> USE DEF D!DaemonAssumption, DaemonInv, D!GiveUp, D!End
<1>1. D!TypeOK'
  BY DEF D!TypeOK, D!Phases, D!Ended
<1>2. WriterHolds'
  BY DEF D!TypeOK, WriterHolds
<1>3. MineIsMine'
  BY DEF D!TypeOK, MineIsMine, D!Ended
<1>4. LockIsKept'
  BY DEF D!TypeOK, WriterHolds, MineIsMine, LockIsKept
<1> QED BY <1>1, <1>2, <1>3, <1>4

LEMMA StopBeginsStep ==
    ASSUME D!DaemonAssumption, DaemonInv, NEW c \in Callers, D!StopBegins(c)
    PROVE  DaemonInv'
<1> USE DEF D!DaemonAssumption, DaemonInv, D!StopBegins, D!End, D!Take
<1>1. D!TypeOK'
  BY DEF D!TypeOK, D!Phases, D!Ended
<1>2. WriterHolds'
  BY DEF D!TypeOK, WriterHolds
<1>3. MineIsMine'
  BY DEF D!TypeOK, MineIsMine, D!Ended
<1>4. LockIsKept'
  BY DEF D!TypeOK, WriterHolds, MineIsMine, LockIsKept
<1> QED BY <1>1, <1>2, <1>3, <1>4

(* A signal to what runs is remembered; the process drains with the lock.  *)
LEMMA KillStep ==
    ASSUME D!DaemonAssumption, DaemonInv, NEW c \in Callers, D!Kill(c)
    PROVE  DaemonInv'
<1> USE DEF D!DaemonAssumption, DaemonInv, D!Kill, D!Become, D!Goto, D!End, D!Alive
<1>1. D!TypeOK'
  BY DEF D!TypeOK, D!Phases, D!Ended
<1>2. WriterHolds'
  BY DEF D!TypeOK, WriterHolds
<1>3. MineIsMine'
  BY DEF D!TypeOK, MineIsMine, D!Ended
<1>4. LockIsKept'
  BY DEF D!TypeOK, WriterHolds, MineIsMine, LockIsKept
<1> QED BY <1>1, <1>2, <1>3, <1>4

LEMMA UnlinkStep ==
    ASSUME D!DaemonAssumption, DaemonInv, NEW c \in Callers, D!Unlink(c)
    PROVE  DaemonInv'
<1> USE DEF D!DaemonAssumption, DaemonInv, D!Unlink, D!End
<1>1. D!TypeOK'
  BY DEF D!TypeOK, D!Phases, D!Ended
<1>2. WriterHolds'
  BY DEF D!TypeOK, WriterHolds
<1>3. MineIsMine'
  BY DEF D!TypeOK, MineIsMine, D!Ended
<1>4. LockIsKept'
  BY DEF D!TypeOK, WriterHolds, MineIsMine, LockIsKept
<1> QED BY <1>1, <1>2, <1>3, <1>4

(* The lock goes to nobody else while somebody has it.                     *)
LEMMA BootStep ==
    ASSUME D!DaemonAssumption, DaemonInv, NEW p \in Pids, D!Boot(p)
    PROVE  DaemonInv'
<1> USE DEF D!DaemonAssumption, DaemonInv, D!Boot, D!TakeLock, D!Become
<1>1. D!TypeOK'
  BY DEF D!TypeOK, D!Phases, D!Ended
<1>2. WriterHolds'
  BY DEF D!TypeOK, WriterHolds
<1>3. MineIsMine'
  BY DEF D!TypeOK, MineIsMine, D!Ended
<1>4. LockIsKept'
  BY DEF D!TypeOK, WriterHolds, MineIsMine, LockIsKept
<1> QED BY <1>1, <1>2, <1>3, <1>4

LEMMA ServeStep ==
    ASSUME D!DaemonAssumption, DaemonInv, NEW p \in Pids, D!Serve(p)
    PROVE  DaemonInv'
<1> USE DEF D!DaemonAssumption, DaemonInv, D!Serve, D!Become
<1>1. D!TypeOK'
  BY DEF D!TypeOK, D!Phases, D!Ended
<1>2. WriterHolds'
  BY DEF D!TypeOK, WriterHolds
<1>3. MineIsMine'
  BY DEF D!TypeOK, MineIsMine, D!Ended
<1>4. LockIsKept'
  BY DEF D!TypeOK, WriterHolds, MineIsMine, LockIsKept
<1> QED BY <1>1, <1>2, <1>3, <1>4

LEMMA ExitStep ==
    ASSUME D!DaemonAssumption, DaemonInv, NEW p \in Pids, D!Exit(p)
    PROVE  DaemonInv'
<1> USE DEF D!DaemonAssumption, DaemonInv, D!Exit, D!Become, D!LeaveLock
<1>1. D!TypeOK'
  BY DEF D!TypeOK, D!Phases, D!Ended
<1>2. WriterHolds'
  BY DEF D!TypeOK, WriterHolds
<1>3. MineIsMine'
  BY DEF D!TypeOK, MineIsMine, D!Ended
<1>4. LockIsKept'
  BY DEF D!TypeOK, WriterHolds, MineIsMine, LockIsKept
<1> QED BY <1>1, <1>2, <1>3, <1>4

LEMMA CrashStep ==
    ASSUME D!DaemonAssumption, DaemonInv, NEW p \in Pids, D!Crash(p)
    PROVE  DaemonInv'
<1> USE DEF D!DaemonAssumption, DaemonInv, D!Crash, D!Become, D!LeaveLock
<1>1. D!TypeOK'
  BY DEF D!TypeOK, D!Phases, D!Ended
<1>2. WriterHolds'
  BY DEF D!TypeOK, WriterHolds
<1>3. MineIsMine'
  BY DEF D!TypeOK, MineIsMine, D!Ended
<1>4. LockIsKept'
  BY DEF D!TypeOK, WriterHolds, MineIsMine, LockIsKept
<1> QED BY <1>1, <1>2, <1>3, <1>4

(* A pid is not given away before the command that started it has ended.   *)
LEMMA RecycleStep ==
    ASSUME D!DaemonAssumption, DaemonInv, NEW p \in Pids, D!Recycle(p)
    PROVE  DaemonInv'
<1> USE DEF D!DaemonAssumption, DaemonInv, D!Recycle, D!Become
<1>1. D!TypeOK'
  BY DEF D!TypeOK, D!Phases, D!Ended
<1>2. WriterHolds'
  BY DEF D!TypeOK, WriterHolds
<1>3. MineIsMine'
  BY DEF D!TypeOK, MineIsMine, D!Ended
<1>4. LockIsKept'
  BY DEF D!TypeOK, WriterHolds, MineIsMine, LockIsKept
<1> QED BY <1>1, <1>2, <1>3, <1>4

-----------------------------------------------------------------------------
LEMMA NextDaemon ==
    ASSUME D!DaemonAssumption, DaemonInv, [D!Next]_D!vars
    PROVE  DaemonInv'
<1>1. CASE UNCHANGED D!vars
  BY <1>1 DEF D!vars, DaemonInv, D!TypeOK, WriterHolds, MineIsMine, LockIsKept
<1>2. ASSUME NEW c \in Callers, D!CallerNext(c) PROVE DaemonInv'
  BY <1>2, EnsureBeginsStep, SpawnStep, WritePidStep, PollStep, ProbeStep, GiveUpStep,
     StopBeginsStep, KillStep, UnlinkStep DEF D!CallerNext
<1>3. ASSUME NEW p \in Pids, D!ProcNext(p) PROVE DaemonInv'
  BY <1>3, BootStep, ServeStep, ExitStep, CrashStep, RecycleStep DEF D!ProcNext
<1> QED BY <1>1, <1>2, <1>3 DEF D!Next

(* Every behaviour keeps the inductive invariant.                          *)
THEOREM DaemonInvariance == D!DaemonAssumption => (D!Spec => []DaemonInv)
<1> SUFFICES ASSUME D!DaemonAssumption PROVE D!Spec => []DaemonInv
  OBVIOUS
<1>1. D!Init => DaemonInv
  BY InitDaemon
<1>2. DaemonInv /\ [D!Next]_D!vars => DaemonInv'
  BY NextDaemon
<1> QED BY <1>1, <1>2, PTL DEF D!Spec

(* However many commands race, one process at most can write to the data   *)
(* root, also while it drains, and a command whose own process has exited  *)
(* leaves one that has the lock.                                           *)
THEOREM OneProcessWrites == Spec => []OneWriter
<1> DEFINE Inv == part = "daemon" => DaemonInv
<1>1. Init => Inv
  BY ProcessAssumptions, InitDaemon DEF Init
<1>2. Inv /\ [Next]_vars => Inv'
  <2> SUFFICES ASSUME Inv, [Next]_vars, part' = "daemon" PROVE DaemonInv'
    OBVIOUS
  <2>1. part = "daemon" /\ (D!Next \/ UNCHANGED D!vars)
    BY DEF Next, vars, daemonVars, D!vars
  <2> QED BY <2>1, ProcessAssumptions, NextDaemon
<1>3. Inv => OneWriter
  BY DEF DaemonInv, D!TypeOK, WriterHolds, LockIsKept, OneWriter, D!OneWriter, D!LoserHasWinner
<1> QED BY <1>1, <1>2, <1>3, PTL DEF Spec

-----------------------------------------------------------------------------
(* HookRetain.                                                             *)

(* All turns up to line n are ingested, or are in S, or a hook had read them *)
(* half written.                                                           *)
Sound(n, S) ==
    \A l \in H!Lines : l <= n => line[l] = "noise" \/ ingested[l] > 0 \/ l \in S \/ l \in skimmed

CursorIsSound(c) ==
    /\ Sound(c.committed, {})
    /\ c.job # H!NoJob => job[c.job] # "none" /\ Sound(c.pending, sent[c.job])

(* The positions of the file and of every hook may be trusted.             *)
CursorsAreSound ==
    /\ CursorIsSound(file)
    /\ \A h \in Hooks :
        /\ CursorIsSound(hook[h].cur)
        /\ hook[h].at = "resolve" => hook[h].cur.job # H!NoJob
        /\ hook[h].at = "add" => Sound(hook[h].end, hook[h].got)

SuccessIsIngested == \A j \in H!Jobs : job[j] = "succeeded" => \A l \in sent[j] : ingested[l] > 0

WrittenInOrder ==
    \A l \in H!Lines : line[l] # "none" => \A k \in 1..(l - 1) : line[k] \in {"turn", "noise"}

(* The cursor c tells all that is ingested and all that may yet be.        *)
Tells(c) ==
    /\ \A j \in H!Jobs : job[j] = "pending" => j = c.job
    /\ c.job # H!NoJob =>
        c.committed <= c.pending /\ sent[c.job] \subseteq (c.committed + 1)..c.pending
    /\ \A l \in H!Lines :
        /\ ingested[l] <= 1
        /\ ingested[l] > 0 =>
            \/ l <= c.committed
            \/ c.job # H!NoJob /\ l \in sent[c.job] /\ job[c.job] \in {"succeeded", "forgotten"}

Saving(h) == hook[h].at \in {"truncate", "write"}

CertainWhenUndoubted ==
    ~doubt =>
        /\ \A g, h \in Hooks : hook[g].at # "idle" /\ hook[h].at # "idle" => g = h
        /\ (\A h \in Hooks : ~Saving(h)) => Tells(file)
        /\ \A h \in Hooks :
            /\ Saving(h) => Tells(hook[h].cur)
            /\ hook[h].at = "resolve" => hook[h].cur = file
            /\ hook[h].at \in {"read", "add"} =>
                /\ \A j \in H!Jobs : job[j] # "pending"
                /\ \A l \in H!Lines : ingested[l] > 0 => l <= hook[h].cur.committed
            /\ hook[h].at = "add" =>
                /\ hook[h].cur.committed <= hook[h].end
                /\ hook[h].got \subseteq (hook[h].cur.committed + 1)..hook[h].end

(* The inductive invariant.                                                *)
HookInv == H!TypeOK /\ CursorsAreSound /\ SuccessIsIngested /\ WrittenInOrder /\ CertainWhenUndoubted

HookStates == [at : {"idle", "resolve", "read", "add", "truncate", "write"},
               cur : H!Cursors, got : SUBSET H!Lines, end : 0..MaxLines]

LEMMA HookBounds == ASSUME H!HookAssumption PROVE MaxLines \in Nat /\ MaxJobs \in Nat /\ MaxTurns \in Nat
BY DEF H!HookAssumption

LEMMA FirstIsCursor ==
    ASSUME H!HookAssumption
    PROVE  H!FirstCursor \in H!Cursors /\ H!FirstCursor.committed = 0 /\ H!FirstCursor.job = H!NoJob
BY HookBounds DEF H!FirstCursor, H!Cursors, H!NoJob

LEMMA IdleIsState ==
    ASSUME H!HookAssumption
    PROVE  H!Idle \in HookStates /\ H!Idle.at = "idle" /\ H!Idle.cur = H!FirstCursor
BY HookBounds, FirstIsCursor DEF H!Idle, HookStates

(* Where a hook is that goes on.                                           *)
LEMMA ProceedsTo ==
    ASSUME H!HookAssumption, NEW c \in H!Cursors, NEW h,
           NEW step \in {"resolve", "read", "truncate", "write"}, H!Proceed(h, step, c)
    PROVE  \E r \in HookStates :
            hook' = [hook EXCEPT ![h] = r] /\ r.at = step /\ r.cur = c
<1> DEFINE r == [H!Idle EXCEPT !.at = step, !.cur = c]
<1>1. r \in HookStates /\ r.at = step /\ r.cur = c
  BY IdleIsState DEF HookStates
<1> QED BY <1>1 DEF H!Proceed

(* A cursor that is sound stays so as more is ingested, or read unfinished.*)
LEMMA SoundStays ==
    ASSUME H!HookAssumption, H!TypeOK, NEW c \in H!Cursors, CursorIsSound(c),
           \A l \in H!Lines : line[l] = "noise" => line'[l] = "noise",
           \A l \in H!Lines : ingested[l] > 0 => ingested'[l] > 0,
           skimmed \subseteq skimmed',
           \A j \in H!Jobs : job[j] # "none" => job'[j] # "none" /\ sent'[j] = sent[j]
    PROVE  CursorIsSound(c)'
<1>1. \A n, S : Sound(n, S) => Sound(n, S)'
  BY DEF Sound
<1>2. c.job # H!NoJob => c.job \in H!Jobs
  BY HookBounds DEF H!Cursors, H!Jobs, H!NoJob
<1> QED BY <1>1, <1>2 DEF CursorIsSound

LEMMA InitHook == ASSUME H!HookAssumption, H!Init PROVE HookInv
<1> USE HookBounds, FirstIsCursor, IdleIsState DEF H!Init
<1>1. H!TypeOK
  <2>1. hook \in [Hooks -> HookStates]
    OBVIOUS
  <2>2. ingested \in [H!Lines -> 0..2] /\ sent \in [H!Jobs -> SUBSET H!Lines]
    OBVIOUS
  <2>3. line \in [H!Lines -> {"none", "partial", "turn", "noise"}]
        /\ job \in [H!Jobs -> {"none", "pending", "succeeded", "failed", "forgotten"}]
    OBVIOUS
  <2> QED BY <2>1, <2>2, <2>3 DEF H!TypeOK, HookStates
<1>2. CursorsAreSound /\ SuccessIsIngested /\ WrittenInOrder
  BY DEF CursorsAreSound, CursorIsSound, Sound, SuccessIsIngested, WrittenInOrder, H!Lines, H!Jobs
<1>3. CertainWhenUndoubted
  BY DEF CertainWhenUndoubted, Tells, Saving, H!Lines, H!Jobs
<1> QED BY <1>1, <1>2, <1>3 DEF HookInv

LEMMA WriteLineStep == ASSUME H!HookAssumption, HookInv, H!Append \/ H!Complete PROVE HookInv'
<1> USE DEF HookInv, H!Append, H!Complete
<1>1. H!TypeOK'
  BY DEF H!TypeOK
<1>2. CursorsAreSound'
  BY DEF H!TypeOK, CursorsAreSound, CursorIsSound, Sound
<1>3. SuccessIsIngested' /\ CertainWhenUndoubted'
  BY DEF SuccessIsIngested, CertainWhenUndoubted, Tells, Saving
<1>4. WrittenInOrder'
  <2> SUFFICES ASSUME NEW l \in H!Lines, line'[l] # "none", NEW k \in 1..(l - 1)
               PROVE  line'[k] \in {"turn", "noise"}
    BY DEF WrittenInOrder
  <2>1. k \in H!Lines
    BY HookBounds DEF H!Lines
  <2>2. PICK m \in H!Lines, as \in {"partial", "turn", "noise"} :
          /\ line' = [line EXCEPT ![m] = as]
          /\ \/ line[m] = "none" /\ \A i \in 1..(m - 1) : line[i] \in {"turn", "noise"}
             \/ line[m] = "partial" /\ as = "turn"
    OBVIOUS
  <2>3. CASE l = m
    BY <2>1, <2>2, <2>3, HookBounds DEF WrittenInOrder, H!TypeOK, H!Lines
  <2>4. CASE l # m
    <3>1. line[l] # "none" /\ line[k] \in {"turn", "noise"}
      BY <2>2, <2>4 DEF WrittenInOrder, H!TypeOK
    <3> QED BY <2>1, <2>2, <3>1 DEF H!TypeOK
  <2> QED BY <2>3, <2>4
<1> QED BY <1>1, <1>2, <1>3, <1>4

LEMMA StartStep == ASSUME H!HookAssumption, HookInv, NEW h \in Hooks, H!Start(h) PROVE HookInv'
<1>1. PICK r \in HookStates :
        /\ hook' = [hook EXCEPT ![h] = r]
        /\ r.at = (IF file.job = H!NoJob THEN "read" ELSE "resolve") /\ r.cur = file
  BY ProceedsTo DEF H!Start, HookInv, H!TypeOK
<1> USE <1>1 DEF HookInv, H!Start, H!Doubtful
<1>2. H!TypeOK'
  BY DEF H!TypeOK, HookStates
<1>3. CursorsAreSound'
  BY DEF H!TypeOK, CursorsAreSound, CursorIsSound, Sound
<1>4. SuccessIsIngested' /\ WrittenInOrder'
  BY DEF SuccessIsIngested, WrittenInOrder
<1>5. CertainWhenUndoubted'
  <2> SUFFICES ASSUME ~doubt' PROVE CertainWhenUndoubted'
    BY DEF CertainWhenUndoubted
  <2>1. ~doubt /\ \A g \in Hooks \ {h} : hook[g].at = "idle"
    BY DEF H!TypeOK
  <2>2. Tells(file)
    BY <2>1 DEF CertainWhenUndoubted, Saving
  <2>3. file.job = H!NoJob => /\ \A j \in H!Jobs : job[j] # "pending"
                            /\ \A l \in H!Lines : ingested[l] > 0 => l <= file.committed
    BY <2>2, HookBounds DEF Tells, H!NoJob, H!Jobs
  <2>4. \A g \in Hooks : hook'[g] = IF g = h THEN r ELSE hook[g]
    BY DEF H!TypeOK
  <2> QED BY <2>1, <2>2, <2>3, <2>4 DEF CertainWhenUndoubted, Saving, Tells
<1> QED BY <1>2, <1>3, <1>4, <1>5

LEMMA SettledIsSound ==
    ASSUME H!HookAssumption, HookInv, NEW c \in H!Cursors, CursorIsSound(c), c.job # H!NoJob,
           NEW status \in {job[c.job], "error"}
    PROVE  H!Settled(c, status) \in H!Cursors /\ CursorIsSound(H!Settled(c, status))
<1>1. c.job \in H!Jobs
  BY HookBounds DEF H!Cursors, H!Jobs, H!NoJob
<1>2. H!Settled(c, status) \in H!Cursors
  BY HookBounds DEF H!Settled, H!Cursors, H!NoJob
<1>3. CASE status = "succeeded"
  <2>1. \A l \in sent[c.job] : ingested[l] > 0
    BY <1>1, <1>3 DEF HookInv, SuccessIsIngested
  <2>2. Sound(c.pending, {})
    BY <2>1 DEF CursorIsSound, Sound
  <2> QED BY <1>2, <1>3, <2>2 DEF CursorIsSound, H!Settled
<1>4. CASE status # "succeeded"
  BY <1>2, <1>4 DEF CursorIsSound, H!Settled
<1> QED BY <1>3, <1>4

LEMMA ResolveStep == ASSUME H!HookAssumption, HookInv, NEW h \in Hooks, H!Resolve(h) PROVE HookInv'
<1> DEFINE c == hook[h].cur
<1>1. c \in H!Cursors /\ CursorIsSound(c) /\ c.job # H!NoJob /\ hook[h].at = "resolve"
  BY DEF H!Resolve, HookInv, H!TypeOK, CursorsAreSound
<1>2. PICK status \in {job[c.job], "error"} :
        H!Proceed(h, IF H!Settled(c, status).job = H!NoJob THEN "read" ELSE "truncate",
                H!Settled(c, status))
  BY DEF H!Resolve
<1> DEFINE d == H!Settled(c, status)
<1>3. d \in H!Cursors /\ CursorIsSound(d)
  BY <1>1, SettledIsSound
<1>4. PICK r \in HookStates :
        /\ hook' = [hook EXCEPT ![h] = r] /\ r.cur = d
        /\ r.at = (IF d.job = H!NoJob THEN "read" ELSE "truncate")
  BY <1>2, <1>3, ProceedsTo
<1>5. UNCHANGED <<line, file, job, sent, ingested, turns, skimmed, doubt>>
  BY DEF H!Resolve
<1>6. H!TypeOK'
  BY <1>4, <1>5 DEF HookInv, H!TypeOK, HookStates
<1>7. CursorsAreSound' /\ SuccessIsIngested' /\ WrittenInOrder'
  BY <1>3, <1>4, <1>5 DEF HookInv, H!TypeOK, CursorsAreSound, CursorIsSound, Sound, SuccessIsIngested, WrittenInOrder
<1>8. CertainWhenUndoubted'
  <2> SUFFICES ASSUME ~doubt PROVE CertainWhenUndoubted'
    BY <1>5 DEF CertainWhenUndoubted
  <2>1. c = file /\ \A g \in Hooks \ {h} : hook[g].at = "idle"
    BY <1>1 DEF HookInv, CertainWhenUndoubted
  <2>2. Tells(c)
    BY <1>1, <2>1 DEF HookInv, CertainWhenUndoubted, Saving
  <2>3. d.job # H!NoJob => d = c
    BY DEF H!Settled
  <2>4. d.job = H!NoJob =>
            \/ status = "succeeded" /\ d.committed = c.pending
            \/ status = "failed" /\ d.committed = c.committed
    BY <1>1 DEF H!Settled
  <2>5. c.job \in H!Jobs /\ c.committed <= c.pending /\ sent[c.job] \subseteq (c.committed + 1)..c.pending
    BY <1>1, <2>2, HookBounds DEF Tells, H!Cursors, H!Jobs, H!NoJob
  <2>6. d.job = H!NoJob => /\ \A j \in H!Jobs : job[j] # "pending"
                         /\ \A l \in H!Lines : ingested[l] > 0 => l <= d.committed
    <3>1. d.job = H!NoJob => job[c.job] # "pending" /\ (status = "failed" => job[c.job] = "failed")
      BY <1>1, <2>4
    <3>2. d.job = H!NoJob => \A l \in H!Lines : ingested[l] > 0 => l <= d.committed
      <4>1. \A l \in sent[c.job] : l <= c.pending
        BY <2>5, <1>1, HookBounds DEF H!Cursors
      <4>2. \A l \in H!Lines : l <= c.committed => l <= c.pending
        BY <1>1, <2>5, HookBounds DEF H!Cursors, H!Lines
      <4> QED BY <2>2, <2>4, <3>1, <4>1, <4>2 DEF Tells
    <3> QED BY <2>2, <3>1, <3>2 DEF Tells
  <2>7. \A g \in Hooks : hook'[g] = IF g = h THEN r ELSE hook[g]
    BY <1>4 DEF HookInv, H!TypeOK
  <2> QED BY <1>4, <1>5, <2>1, <2>2, <2>3, <2>6, <2>7 DEF CertainWhenUndoubted, Saving, Tells
<1> QED BY <1>6, <1>7, <1>8 DEF HookInv

(* A hook leaves: what it knew is lost, and told if it had to be saved.    *)
LEMMA LeaveStep ==
    ASSUME H!HookAssumption, HookInv, NEW h \in Hooks, H!Leave(h),
           UNCHANGED <<line, file, job, sent, ingested, turns, skimmed>>,
           doubt' = TRUE \/ (doubt' = doubt /\ ~Saving(h))
    PROVE  HookInv'
<1>1. \A g \in Hooks : hook'[g] = IF g = h THEN H!Idle ELSE hook[g]
  BY DEF H!Leave, HookInv, H!TypeOK
<1>2. H!TypeOK'
  BY IdleIsState DEF H!Leave, HookInv, H!TypeOK, HookStates
<1>3. CursorsAreSound' /\ SuccessIsIngested' /\ WrittenInOrder'
  BY <1>1, IdleIsState, FirstIsCursor, HookBounds
  DEF HookInv, CursorsAreSound, CursorIsSound, Sound, SuccessIsIngested, WrittenInOrder, H!Lines
<1>4. CertainWhenUndoubted'
  BY <1>1, IdleIsState DEF HookInv, CertainWhenUndoubted, Saving, Tells
<1> QED BY <1>2, <1>3, <1>4 DEF HookInv

(* A job that is accepted is sound, and all there is if no other was       *)
(* pending.                                                                *)
LEMMA AcceptStep ==
    ASSUME H!HookAssumption, HookInv, NEW h \in Hooks, hook[h].at = "add",
           NEW j \in H!Jobs, job[j] = "none", job' = [job EXCEPT ![j] = "pending"],
           sent' = [sent EXCEPT ![j] = hook[h].got],
           UNCHANGED <<line, file, ingested, turns, skimmed>>,
           \/ H!Proceed(h, "truncate", H!InFlight(hook[h].cur, hook[h].end, j)) /\ UNCHANGED doubt
           \/ H!Leave(h) /\ doubt' = TRUE
    PROVE  HookInv'
<1> DEFINE c == hook[h].cur
           d == H!InFlight(c, hook[h].end, j)
<1>1. /\ c \in H!Cursors /\ CursorIsSound(c) /\ hook[h].end \in 0..MaxLines
      /\ hook[h].got \subseteq H!Lines /\ Sound(hook[h].end, hook[h].got)
  BY DEF HookInv, H!TypeOK, CursorsAreSound
<1>2. d \in H!Cursors /\ d.committed = c.committed /\ d.pending = hook[h].end /\ d.job = j
  BY <1>1, HookBounds DEF H!InFlight, H!Cursors, H!Jobs
<1>3. PICK r \in HookStates :
        /\ hook' = [hook EXCEPT ![h] = r]
        /\ \/ r.at = "truncate" /\ r.cur = d /\ UNCHANGED doubt
           \/ r.at = "idle" /\ r.cur = H!FirstCursor /\ doubt' = TRUE
  BY <1>2, IdleIsState, ProceedsTo DEF H!Leave
<1> HIDE DEF d
<1>4. H!TypeOK'
  BY <1>1, <1>3 DEF HookInv, H!TypeOK, HookStates
<1>5. \A g \in Hooks : hook'[g] = IF g = h THEN r ELSE hook[g]
  BY <1>3 DEF HookInv, H!TypeOK
<1>6. \A b \in H!Cursors : CursorIsSound(b) => CursorIsSound(b)'
  BY SoundStays DEF HookInv, H!TypeOK
<1>7. CursorIsSound(r.cur)'
  <2>1. CASE r.cur = d
    <3>1. job'[j] = "pending" /\ sent'[j] = hook[h].got
      BY <1>1 DEF HookInv, H!TypeOK
    <3> QED BY <1>1, <1>2, <2>1, <3>1 DEF CursorIsSound, Sound
  <2>2. CASE r.cur = H!FirstCursor
    BY <2>2, FirstIsCursor, HookBounds DEF CursorIsSound, Sound, H!Lines
  <2> QED BY <1>3, <2>1, <2>2
<1>9. CursorsAreSound'
  <2>1. CursorIsSound(file)'
    BY <1>6 DEF HookInv, H!TypeOK, CursorsAreSound, CursorIsSound
  <2>2. ASSUME NEW g \in Hooks, g # h
        PROVE  /\ CursorIsSound(hook[g].cur)'
               /\ hook'[g].at = "resolve" => hook'[g].cur.job # H!NoJob
               /\ hook'[g].at = "add" => Sound(hook[g].end, hook[g].got)'
    <3>1. hook'[g] = hook[g] /\ hook[g].cur \in H!Cursors /\ CursorIsSound(hook[g].cur)
      BY <1>5, <2>2 DEF HookInv, H!TypeOK, CursorsAreSound
    <3>2. CursorIsSound(hook[g].cur)'
      BY <1>6, <3>1 DEF CursorIsSound, Sound
    <3> QED BY <3>1, <3>2 DEF HookInv, CursorsAreSound, Sound
  <2>3. CursorIsSound(hook[h].cur)' /\ hook'[h].at \in {"truncate", "idle"}
    BY <1>3, <1>5, <1>7 DEF CursorIsSound, Sound
  <2> QED BY <2>1, <2>2, <2>3 DEF CursorsAreSound
<1>10. SuccessIsIngested' /\ WrittenInOrder'
  BY DEF HookInv, H!TypeOK, SuccessIsIngested, WrittenInOrder
<1>11. CertainWhenUndoubted'
  <2> SUFFICES ASSUME ~doubt' PROVE CertainWhenUndoubted'
    BY DEF CertainWhenUndoubted
  <2>1. r.at = "truncate" /\ r.cur = d /\ ~doubt
    BY <1>3
  <2>2. /\ \A g \in Hooks \ {h} : hook[g].at = "idle"
        /\ \A i \in H!Jobs : job[i] # "pending"
        /\ \A l \in H!Lines : ingested[l] > 0 => l <= c.committed
        /\ \A l \in H!Lines : ingested[l] <= 1
        /\ c.committed <= hook[h].end /\ hook[h].got \subseteq (c.committed + 1)..hook[h].end
    BY <2>1 DEF HookInv, CertainWhenUndoubted, Saving, Tells
  <2>3. Tells(r.cur)'
    <3>1. job'[j] = "pending" /\ sent'[j] = hook[h].got /\ \A i \in H!Jobs : i # j => job'[i] = job[i]
      BY <1>1 DEF HookInv, H!TypeOK
    <3> QED BY <1>2, <2>1, <2>2, <3>1 DEF Tells
  <2> QED BY <1>5, <2>1, <2>2, <2>3 DEF CertainWhenUndoubted, Saving, Tells
<1> QED BY <1>4, <1>9, <1>10, <1>11 DEF HookInv

LEMMA AddStep == ASSUME H!HookAssumption, HookInv, NEW h \in Hooks, H!Add(h) PROVE HookInv'
<1>1. CASE H!Leave(h) /\ UNCHANGED <<job, sent, doubt>>
  BY <1>1, LeaveStep DEF H!Add, Saving
<1>2. CASE \E j \in H!Jobs :
             /\ job[j] = "none"
             /\ job' = [job EXCEPT ![j] = "pending"]
             /\ sent' = [sent EXCEPT ![j] = hook[h].got]
             /\ \/ /\ H!Proceed(h, "truncate", H!InFlight(hook[h].cur, hook[h].end, j))
                   /\ UNCHANGED doubt
                \/ H!Leave(h) /\ doubt' = TRUE
  BY <1>2, AcceptStep DEF H!Add
<1> QED BY <1>1, <1>2 DEF H!Add, H!Doubtful

LEMMA KilledStep == ASSUME H!HookAssumption, HookInv, NEW h \in Hooks, H!Killed(h) PROVE HookInv'
<1>1. doubt \in BOOLEAN
  BY DEF HookInv, H!TypeOK
<1> QED BY <1>1, LeaveStep DEF H!Killed, H!Doubtful, Saving

LEMMA TruncateStep == ASSUME H!HookAssumption, HookInv, NEW h \in Hooks, H!Truncate(h) PROVE HookInv'
<1>1. CASE H!Leave(h) /\ H!Doubtful(TRUE) /\ UNCHANGED file
  BY <1>1, LeaveStep DEF H!Truncate, H!Doubtful
<1>2. CASE file' = H!FirstCursor /\ H!Proceed(h, "write", hook[h].cur) /\ UNCHANGED doubt
  <2>1. UNCHANGED <<line, job, sent, ingested, turns, skimmed, doubt>> /\ file' = H!FirstCursor
          /\ hook[h].at = "truncate"
    BY <1>2 DEF H!Truncate
  <2>2. hook[h].cur \in H!Cursors
    BY DEF HookInv, H!TypeOK
  <2>3. PICK r \in HookStates :
          hook' = [hook EXCEPT ![h] = r] /\ r.at = "write" /\ r.cur = hook[h].cur
    BY <1>2, <2>2, ProceedsTo
  <2>4. \A g \in Hooks : hook'[g] = IF g = h THEN r ELSE hook[g]
    BY <2>3 DEF HookInv, H!TypeOK
  <2>5. H!TypeOK'
    BY <2>1, <2>3, FirstIsCursor DEF HookInv, H!TypeOK, HookStates
  <2>6. CursorsAreSound' /\ SuccessIsIngested' /\ WrittenInOrder'
    BY <2>1, <2>3, <2>4, FirstIsCursor, HookBounds
    DEF HookInv, CursorsAreSound, CursorIsSound, Sound, SuccessIsIngested, WrittenInOrder, H!Lines
  <2>7. CertainWhenUndoubted'
    BY <2>1, <2>3, <2>4 DEF HookInv, CertainWhenUndoubted, Saving, Tells
  <2> QED BY <2>5, <2>6, <2>7 DEF HookInv
<1> QED BY <1>1, <1>2 DEF H!Truncate

LEMMA WriteStep == ASSUME H!HookAssumption, HookInv, NEW h \in Hooks, H!Write(h) PROVE HookInv'
<1>1. \A g \in Hooks : hook'[g] = IF g = h THEN H!Idle ELSE hook[g]
  BY DEF H!Write, H!Leave, HookInv, H!TypeOK
<1>2. UNCHANGED <<line, job, sent, ingested, turns, skimmed, doubt>> /\ file' = hook[h].cur
        /\ hook[h].at = "write"
  BY DEF H!Write
<1>3. H!TypeOK'
  BY <1>2, IdleIsState DEF H!Write, H!Leave, HookInv, H!TypeOK, HookStates
<1>4. CursorsAreSound' /\ SuccessIsIngested' /\ WrittenInOrder'
  BY <1>1, <1>2, IdleIsState, FirstIsCursor, HookBounds
  DEF HookInv, CursorsAreSound, CursorIsSound, Sound, SuccessIsIngested, WrittenInOrder, H!Lines
<1>5. CertainWhenUndoubted'
  BY <1>1, <1>2, IdleIsState DEF HookInv, CertainWhenUndoubted, Saving, Tells
<1> QED BY <1>3, <1>4, <1>5 DEF HookInv

(* A turn is kept at a place of its slice.                                 *)
LEMMA PlacedIsTyped ==
    ASSUME H!HookAssumption, H!TypeOK, NEW lines \in SUBSET H!Lines, H!Placed(lines)
    PROVE  turns' \subseteq (1..MaxLines) \X H!Lines
<1> DEFINE place(l) == H!Cardinality({k \in lines : k <= l})
<1>1. ASSUME NEW l \in lines PROVE place(l) \in 1..MaxLines
  <2> DEFINE S == {k \in lines : k <= l}
  <2>1. IsFiniteSet(H!Lines) /\ Cardinality(H!Lines) = MaxLines
    BY HookBounds, FS_Interval DEF H!Lines
  <2>2. S \subseteq H!Lines /\ l \in S
    <3>1. l \in H!Lines
      OBVIOUS
    <3>2. l \in Nat
      BY <3>1, HookBounds DEF H!Lines
    <3>3. l <= l
      BY <3>2
    <3>4. S \subseteq lines /\ lines \subseteq H!Lines
      OBVIOUS
    <3> QED BY <3>3, <3>4
  <2>3. IsFiniteSet(S) /\ Cardinality(S) <= MaxLines /\ Cardinality(S) \in Nat
    BY <2>1, <2>2, FS_Subset, FS_CardinalityType
  <2>4. Cardinality(S) # 0
    BY <2>2, <2>3, FS_EmptySet
  <2>5. H!Cardinality(S) = Cardinality(S)
    BY DEF H!Cardinality, Cardinality
  <2> HIDE DEF S
  <2>6. H!Cardinality(S) \in 1..MaxLines
    BY <2>3, <2>4, <2>5, HookBounds
  <2> QED BY <2>6 DEF S
<1>2. turns \subseteq (1..MaxLines) \X H!Lines
  BY DEF H!TypeOK
<1>4. turns' = {e \in turns : e[1] > H!Cardinality(lines)} \cup {<<place(l), l>> : l \in lines}
  BY DEF H!Placed
<1> HIDE DEF place
<1>3. \A l \in lines : <<place(l), l>> \in (1..MaxLines) \X H!Lines
  BY <1>1
<1> QED BY <1>2, <1>3, <1>4

(* A job ends, or is forgotten, and its turns go through or do not.        *)
LEMMA JobStep ==
    ASSUME H!HookAssumption, HookInv, NEW j \in H!Jobs, H!JobEnds(j) \/ H!JobForgotten(j)
    PROVE  HookInv'
<1>1. UNCHANGED <<line, file, sent, hook, skimmed>>
  BY DEF H!JobEnds, H!JobForgotten
<1>2. \/ /\ job[j] = "pending" /\ job' = [job EXCEPT ![j] = "succeeded"]
         /\ H!Ingest(sent[j]) /\ UNCHANGED doubt
      \/ /\ job[j] = "pending" /\ job' = [job EXCEPT ![j] = "forgotten"]
         /\ H!Ingest(sent[j]) /\ UNCHANGED doubt
      \/ /\ job[j] = "pending" /\ job' = [job EXCEPT ![j] = "failed"]
         /\ H!Ingest(sent[j]) /\ doubt' = TRUE
      \/ /\ job[j] = "pending" /\ job' = [job EXCEPT ![j] = "failed"] /\ UNCHANGED <<ingested, turns, doubt>>
      \/ /\ job[j] \in {"pending", "succeeded", "failed"}
         /\ job' = [job EXCEPT ![j] = "forgotten"] /\ UNCHANGED <<ingested, turns, doubt>>
  BY DEF H!JobEnds, H!JobForgotten, H!Doubtful
<1>3. /\ ingested' \in [H!Lines -> 0..2]
      /\ \A l \in H!Lines : ingested[l] > 0 => ingested'[l] > 0
      /\ H!Ingest(sent[j]) => \A l \in sent[j] : ingested'[l] > 0
  BY <1>2 DEF H!Ingest, HookInv, H!TypeOK
<1>11. turns' \subseteq (1..MaxLines) \X H!Lines
  <2>1. H!Ingest(sent[j]) => turns' \subseteq (1..MaxLines) \X H!Lines
    BY PlacedIsTyped DEF H!Ingest, HookInv, H!TypeOK
  <2> QED BY <1>2, <2>1 DEF HookInv, H!TypeOK
<1>4. H!TypeOK'
  BY <1>1, <1>2, <1>3, <1>11 DEF HookInv, H!TypeOK
<1>5. \A b \in H!Cursors : CursorIsSound(b) => CursorIsSound(b)'
  BY <1>1, <1>2, <1>3, SoundStays DEF HookInv, H!TypeOK
<1>6. CursorsAreSound'
  BY <1>1, <1>3, <1>5 DEF HookInv, H!TypeOK, CursorsAreSound, CursorIsSound, Sound
<1>7. SuccessIsIngested' /\ WrittenInOrder'
  BY <1>1, <1>2, <1>3 DEF HookInv, H!TypeOK, SuccessIsIngested, WrittenInOrder
<1>8. CertainWhenUndoubted'
  <2> SUFFICES ASSUME ~doubt' PROVE CertainWhenUndoubted'
    BY DEF CertainWhenUndoubted
  <2>1. ~doubt
    BY <1>2
  <2>2. ASSUME NEW b \in H!Cursors, Tells(b) PROVE Tells(b)'
    <3>1. b.job # H!NoJob => b.job \in H!Jobs
      BY HookBounds DEF H!Cursors, H!Jobs, H!NoJob
    <3>2. \A i \in H!Jobs : job'[i] = "pending" => i = b.job
      BY <1>2, <2>2 DEF Tells, HookInv, H!TypeOK
    <3>3. CASE ingested' = ingested
      BY <1>1, <1>2, <2>2, <3>1, <3>2, <3>3 DEF Tells, HookInv, H!TypeOK
    <3>4. CASE H!Ingest(sent[j]) /\ job[j] = "pending" /\ job'[j] \in {"succeeded", "forgotten"}
      <4>1. b.job = j /\ j # H!NoJob
        BY <2>2, <3>4, HookBounds DEF Tells, H!Jobs, H!NoJob
      <4>2. \A l \in H!Lines : ingested[l] > 0 => l <= b.committed
        BY <2>2, <3>4, <4>1 DEF Tells
      <4>3. sent[j] \subseteq (b.committed + 1)..b.pending
        BY <2>2, <4>1 DEF Tells
      <4>4. \A l \in H!Lines : ingested'[l] = IF l \in sent[j] /\ ingested[l] < 2 THEN ingested[l] + 1 ELSE ingested[l]
        BY <3>4 DEF H!Ingest
      <4>5. \A l \in H!Lines : l \in sent[j] => ingested[l] = 0
        <5>1. \A l \in H!Lines : l \in Nat /\ ingested[l] \in 0..2
          BY HookBounds DEF HookInv, H!TypeOK, H!Lines
        <5>2. b.committed \in Nat /\ b.pending \in Nat
          BY HookBounds DEF H!Cursors
        <5> QED BY <4>2, <4>3, <5>1, <5>2
      <4>6. \A l \in H!Lines : ingested'[l] <= 1 /\ (ingested'[l] > 0 => l <= b.committed \/ l \in sent[j])
        BY <2>2, <4>2, <4>4, <4>5 DEF Tells, HookInv, H!TypeOK
      <4> QED BY <1>1, <2>2, <3>2, <3>4, <4>1, <4>6 DEF Tells
    <3> QED BY <1>2, <2>1, <3>3, <3>4, <1>4 DEF HookInv, H!TypeOK
  <2>3. ASSUME \A i \in H!Jobs : job[i] # "pending" PROVE UNCHANGED ingested /\ \A i \in H!Jobs : job'[i] # "pending"
    BY <1>2, <2>3 DEF HookInv, H!TypeOK
  <2>4. /\ file \in H!Cursors /\ \A h \in Hooks : hook[h].cur \in H!Cursors
    BY DEF HookInv, H!TypeOK
  <2> QED BY <1>1, <2>1, <2>2, <2>3, <2>4 DEF HookInv, CertainWhenUndoubted, Saving
<1> QED BY <1>4, <1>6, <1>7, <1>8 DEF HookInv

-----------------------------------------------------------------------------
(* The lines that are written are the first ones.                          *)
LEMMA LastIsWritten ==
    ASSUME H!HookAssumption, H!TypeOK, WrittenInOrder
    PROVE  /\ Cardinality(H!Written) \in 0..MaxLines
           /\ \A l \in H!Lines : l <= Cardinality(H!Written) => line[l] # "none"
<1>1. IsFiniteSet(H!Lines) /\ Cardinality(H!Lines) = MaxLines
  BY FS_Interval DEF H!HookAssumption, H!Lines
<1>2. H!Written \subseteq H!Lines
  BY DEF H!Written
<1>3. Cardinality(H!Written) \in Nat /\ Cardinality(H!Written) <= MaxLines
  BY <1>1, <1>2, FS_Subset, FS_CardinalityType
<1>4. ASSUME NEW l \in H!Lines, line[l] = "none" PROVE Cardinality(H!Written) < l
  <2>1. H!Written \subseteq 1..(l - 1)
    BY <1>4 DEF H!Written, WrittenInOrder, H!Lines, H!HookAssumption
  <2>2. IsFiniteSet(1..(l - 1)) /\ Cardinality(1..(l - 1)) = l - 1
    <3>1. l - 1 \in Nat
      BY HookBounds DEF H!Lines
    <3> QED BY <3>1, FS_Interval
  <2>3. Cardinality(H!Written) <= l - 1
    BY <2>1, <2>2, FS_Subset
  <2> QED BY <1>3, <2>3, HookBounds DEF H!Lines
<1> QED BY <1>3, <1>4 DEF H!Lines, H!HookAssumption

(* A hook reads up to a line that is written.                              *)
LEMMA ReadsWhatIsWritten ==
    ASSUME H!HookAssumption, H!TypeOK, WrittenInOrder, NEW start \in 0..MaxLines
    PROVE  /\ H!ReadUpTo(start) \in 0..MaxLines
           /\ \A l \in H!Lines : l <= H!ReadUpTo(start) => line[l] # "none"
<1> DEFINE last == Cardinality(H!Written)
           full == {l \in (start + 1)..last : Cardinality(H!TurnsFrom(start, l)) = MaxTurns}
<1>1. last \in 0..MaxLines /\ \A l \in H!Lines : l <= last => line[l] # "none"
  BY LastIsWritten
<1> HIDE DEF last
<1>2. full # {} => \E l \in full : \A m \in full : l <= m
  <2>1. full \in SUBSET Nat
    BY <1>1, HookBounds
  <2> HIDE DEF full
  <2> QED BY <2>1, LeastNumber
<1>3. H!ReadUpTo(start) = last \/ H!ReadUpTo(start) \in full
  <2>1. \A S : H!Cardinality(S) = Cardinality(S)
    BY DEF H!Cardinality, Cardinality
  <2> QED BY <1>2, <2>1 DEF H!ReadUpTo, last
<1> QED BY <1>1, <1>3 DEF H!HookAssumption, H!Lines

LEMMA ReadStep == ASSUME H!HookAssumption, HookInv, NEW h \in Hooks, H!Read(h) PROVE HookInv'
<1> DEFINE start == hook[h].cur.committed
           to == H!ReadUpTo(start)
           new == H!TurnsFrom(start, to)
<1>1. start \in 0..MaxLines
  BY DEF HookInv, H!TypeOK, H!Cursors
<1>2. to \in 0..MaxLines /\ \A l \in H!Lines : l <= to => line[l] # "none"
  BY <1>1, ReadsWhatIsWritten DEF HookInv
<1>3. UNCHANGED <<line, file, job, sent, ingested, turns, doubt>> /\ hook[h].at = "read"
      /\ \/ hook' = [hook EXCEPT ![h] = H!Idle] /\ UNCHANGED skimmed
         \/ /\ new # {} /\ hook' = [hook EXCEPT ![h].at = "add", ![h].got = new, ![h].end = to]
            /\ skimmed' = skimmed \cup {l \in (start + 1)..to : line[l] = "partial"}
  BY DEF H!Read, H!Leave
<1>4. new \subseteq H!Lines /\ new \subseteq (start + 1)..to
  BY <1>1, <1>2, HookBounds DEF H!TurnsFrom, H!Lines
<1>5. Sound(start, {})
  BY DEF HookInv, CursorsAreSound, CursorIsSound
<1>6. \A l \in H!Lines : l <= to /\ l > start =>
        line[l] \in {"noise", "partial"} \/ l \in new
  BY <1>1, <1>2, HookBounds DEF H!TurnsFrom, HookInv, H!TypeOK, H!Lines
<1> HIDE DEF to, new
<1>7. H!TypeOK'
  <2>1. hook' \in [Hooks -> HookStates]
    BY <1>2, <1>3, <1>4, IdleIsState DEF HookInv, H!TypeOK, HookStates
  <2>2. skimmed' \subseteq H!Lines
    BY <1>1, <1>2, <1>3, HookBounds DEF HookInv, H!TypeOK, H!Lines
  <2> QED BY <1>3, <2>1, <2>2 DEF HookInv, H!TypeOK, HookStates
<1>8. skimmed \subseteq skimmed'
  BY <1>3
<1>9. CursorsAreSound'
  <2>1. \A b \in H!Cursors : CursorIsSound(b) => CursorIsSound(b)'
    BY <1>3, <1>8, SoundStays DEF HookInv
  <2>2. CursorIsSound(file)'
    BY <1>3, <2>1 DEF HookInv, H!TypeOK, CursorsAreSound, CursorIsSound, Sound
  <2>3. ASSUME NEW g \in Hooks, g # h
        PROVE  /\ CursorIsSound(hook[g].cur)'
               /\ hook'[g].at = "resolve" => hook'[g].cur.job # H!NoJob
               /\ hook'[g].at = "add" => Sound(hook[g].end, hook[g].got)'
    <3>1. hook'[g] = hook[g] /\ hook[g].cur \in H!Cursors /\ CursorIsSound(hook[g].cur)
      BY <1>3, <2>3 DEF HookInv, H!TypeOK, CursorsAreSound
    <3>2. CursorIsSound(hook[g].cur)'
      BY <2>1, <3>1 DEF CursorIsSound, Sound
    <3> QED BY <1>3, <1>8, <3>1, <3>2 DEF HookInv, CursorsAreSound, Sound
  <2>4. CASE hook' = [hook EXCEPT ![h] = H!Idle]
    <3>1. hook'[h] = H!Idle
      BY <2>4 DEF HookInv, H!TypeOK
    <3>2. CursorIsSound(hook[h].cur)'
      BY <3>1, IdleIsState, FirstIsCursor, HookBounds DEF CursorIsSound, Sound, H!Lines
    <3> QED BY <2>2, <2>3, <3>1, <3>2, IdleIsState DEF CursorsAreSound
  <2>5. CASE /\ hook' = [hook EXCEPT ![h].at = "add", ![h].got = new, ![h].end = to]
             /\ skimmed' = skimmed \cup {l \in (start + 1)..to : line[l] = "partial"}
    <3>1. hook'[h].at = "add" /\ hook'[h].got = new /\ hook'[h].end = to /\ hook'[h].cur = hook[h].cur
      BY <2>5 DEF HookInv, H!TypeOK
    <3>2. CursorIsSound(hook[h].cur)'
      BY <1>3, <2>1, <3>1 DEF HookInv, H!TypeOK, CursorsAreSound, CursorIsSound, Sound
    <3>3. \A l \in H!Lines : l <= to /\ l > start =>
            line[l] = "noise" \/ l \in new \/ l \in skimmed'
      BY <1>1, <1>2, <1>6, <2>5, HookBounds DEF H!Lines
    <3>4. \A l \in H!Lines : l <= start => line[l] = "noise" \/ ingested[l] > 0 \/ l \in skimmed'
      BY <1>5, <1>8 DEF Sound
    <3>5. \A l \in H!Lines : l <= start \/ l > start
      BY <1>1, HookBounds DEF H!Lines
    <3>6. Sound(hook[h].end, hook[h].got)'
      BY <1>3, <3>1, <3>3, <3>4, <3>5 DEF Sound
    <3> QED BY <2>2, <2>3, <3>1, <3>2, <3>6 DEF CursorsAreSound
  <2> QED BY <1>3, <2>4, <2>5
<1>10. SuccessIsIngested' /\ WrittenInOrder'
  BY <1>3 DEF HookInv, SuccessIsIngested, WrittenInOrder
<1>11. CertainWhenUndoubted'
  <2>1. ASSUME new # {} PROVE start <= to
    <3>1. PICK l \in new : TRUE
      BY <2>1
    <3>2. l \in (start + 1)..to /\ start \in Nat /\ to \in Nat
      BY <1>1, <1>2, <1>4, <3>1, HookBounds
    <3> QED BY <3>2
  <2> QED BY <1>3, <1>4, <2>1 DEF HookInv, H!TypeOK, CertainWhenUndoubted, Tells, Saving, H!Idle
<1> QED BY <1>7, <1>9, <1>10, <1>11 DEF HookInv

LEMMA NextHook == ASSUME H!HookAssumption, HookInv, [H!Next]_H!vars PROVE HookInv'
<1>1. CASE UNCHANGED H!vars
  BY <1>1 DEF H!vars, HookInv, H!TypeOK, CursorsAreSound, CursorIsSound, Sound, SuccessIsIngested,
              WrittenInOrder, CertainWhenUndoubted, Tells, Saving
<1>2. CASE H!Next
  BY <1>2, WriteLineStep, StartStep, ResolveStep, ReadStep, AddStep, TruncateStep,
     WriteStep, KilledStep, JobStep
  DEF H!Next, H!HookNext
<1> QED BY <1>1, <1>2

LEMMA HookIsRight == ASSUME H!HookAssumption, HookInv PROVE H!CommittedIsIngested /\ H!TwiceOnlyInDoubt
<1>1. H!CommittedIsIngested
  BY DEF HookInv, H!TypeOK, CursorsAreSound, CursorIsSound, Sound, H!CommittedIsIngested, H!Cursors, H!Lines,
         H!HookAssumption
<1>2. H!TwiceOnlyInDoubt
  BY DEF HookInv, H!TypeOK, CertainWhenUndoubted, Tells, H!TwiceOnlyInDoubt, H!Lines
<1> QED BY <1>1, <1>2

(* However many hooks overlap, are killed or lose an answer: the cursor    *)
(* passes no turn that was not ingested, but for one that was read half    *)
(* written, and without such an accident no turn is ingested twice.        *)
THEOREM CursorStaysRight == Spec => []CursorIsRight
<1> DEFINE Inv == part = "hook" => HookInv
<1>1. Init => Inv
  BY ProcessAssumptions, InitHook DEF Init
<1>2. Inv /\ [Next]_vars => Inv'
  <2> SUFFICES ASSUME Inv, [Next]_vars, part' = "hook" PROVE HookInv'
    OBVIOUS
  <2>1. part = "hook" /\ (H!Next \/ UNCHANGED H!vars)
    BY DEF Next, vars, hookVars, H!vars
  <2> QED BY <2>1, ProcessAssumptions, NextHook
<1>3. Inv => CursorIsRight
  BY ProcessAssumptions, HookIsRight DEF CursorIsRight
<1> QED BY <1>1, <1>2, <1>3, PTL DEF Spec

-----------------------------------------------------------------------------
(* What is taken from the front of one sequence and put at the end of the  *)
(* one before it leaves both together as they were.                        *)
LEMMA MovesOver ==
    ASSUME NEW S, NEW s \in Seq(S), NEW t \in Seq(S), t # <<>>
    PROVE  Append(s, Head(t)) \o Tail(t) = s \o t
<1>1. Head(t) \in S /\ Tail(t) \in Seq(S) /\ <<Head(t)>> \in Seq(S)
  BY HeadTailProperties
<1>2. <<Head(t)>> \o Tail(t) = t
  BY <1>1
<1>3. (s \o <<Head(t)>>) \o Tail(t) = s \o (<<Head(t)>> \o Tail(t))
  BY <1>1, ConcatAssociative
<1> QED BY <1>1, <1>2, <1>3, AppendIsConcat

(* Counters have no bound.                                                 *)
EventTypes ==
    /\ global \in Dispatchers \cup {None} /\ made \subseteq Dispatchers
    /\ queue \in [Dispatchers -> Seq(Events)]
    /\ hand \in [Dispatchers -> Events \cup {None}]
    /\ counts \in [Dispatchers -> [delivered : Nat, failed : Nat, dropped : Nat]]
    /\ at \in [Events -> {"changed", "make", "dispatch", "answered"}]
    /\ accepted \in [Dispatchers -> Seq(Events)]
    /\ tried \in [Dispatchers -> Seq(Events)]

(* Who dispatches has a dispatcher.                                        *)
DispatcherIsMade == \A e \in Events : at[e] = "dispatch" => global # None

Accounted(d) ==
    /\ Len(queue[d]) <= MaxQueue
    /\ accepted[d] = tried[d] \o queue[d]
    /\ Len(tried[d]) = counts[d].delivered + counts[d].failed + (IF hand[d] = None THEN 0 ELSE 1)

(* The inductive invariant.                                                *)
EventInv == EventTypes /\ DispatcherIsMade /\ \A d \in Dispatchers : Accounted(d)

LEMMA InitEvents == ASSUME W!WebhookAssumption, W!Init PROVE EventInv
BY DEF W!WebhookAssumption, W!Init, EventInv, EventTypes, DispatcherIsMade, Accounted, W!NoCounts

(* A request comes to its dispatcher.                                      *)
LEMMA ArriveStep ==
    ASSUME W!WebhookAssumption, EventInv, NEW e \in Events, W!Look(e) \/ W!Make(e) PROVE EventInv'
<1> USE DEF W!WebhookAssumption, EventInv, W!Look, W!Make, W!Goto
<1>1. EventTypes' /\ DispatcherIsMade'
  BY DEF EventTypes, DispatcherIsMade
<1>2. \A d \in Dispatchers : Accounted(d)'
  BY DEF Accounted
<1> QED BY <1>1, <1>2

LEMMA DispatchStep ==
    ASSUME W!WebhookAssumption, EventInv, NEW e \in Events, W!Dispatch(e) PROVE EventInv'
<1>1. global \in Dispatchers /\ at' = [at EXCEPT ![e] = "answered"]
      /\ UNCHANGED <<global, made, hand, tried>>
  BY DEF EventInv, EventTypes, DispatcherIsMade, W!Dispatch, W!Goto
<1>2. CASE ~W!Full(global) /\ queue' = W!Enqueued(global, e) /\ UNCHANGED counts
           /\ accepted' = [accepted EXCEPT ![global] = Append(@, e)]
  <2>1. EventTypes' /\ DispatcherIsMade'
    BY <1>1, <1>2 DEF EventInv, EventTypes, DispatcherIsMade, W!Enqueued
  <2>2. ASSUME NEW d \in Dispatchers PROVE Accounted(d)'
    <3>1. CASE d # global
      BY <1>1, <1>2, <3>1 DEF EventInv, EventTypes, Accounted, W!Enqueued
    <3>2. CASE d = global
      <4>1. queue'[d] = Append(queue[d], e) /\ accepted'[d] = Append(accepted[d], e)
        BY <1>1, <1>2, <3>2 DEF EventInv, EventTypes, W!Enqueued
      <4>2. queue[d] \in Seq(Events) /\ tried[d] \in Seq(Events) /\ Len(queue[d]) < MaxQueue
        BY <1>2, <3>2 DEF EventInv, EventTypes, W!Full, W!WebhookAssumption
      <4>3. Append(tried[d] \o queue[d], e) = tried[d] \o Append(queue[d], e)
        <5>1. \A s, t \in Seq(Events) : Append(s \o t, e) = s \o Append(t, e)
          OBVIOUS
        <5> QED BY <4>2, <5>1
      <4>4. Len(queue'[d]) <= MaxQueue
        BY <4>1, <4>2 DEF W!WebhookAssumption
      <4> QED BY <1>1, <1>2, <4>1, <4>3, <4>4 DEF EventInv, Accounted
    <3> QED BY <3>1, <3>2
  <2> QED BY <2>1, <2>2 DEF EventInv
<1>3. CASE W!Full(global) /\ W!Counted(global, "dropped") /\ UNCHANGED <<queue, accepted>>
  <2>1. counts' \in [Dispatchers -> [delivered : Nat, failed : Nat, dropped : Nat]]
        /\ \A d \in Dispatchers : counts'[d].delivered = counts[d].delivered
                                  /\ counts'[d].failed = counts[d].failed
    BY <1>1, <1>3 DEF W!Counted, EventInv, EventTypes
  <2> QED BY <1>1, <1>3, <2>1 DEF EventInv, EventTypes, DispatcherIsMade, Accounted
<1> QED BY <1>2, <1>3 DEF W!Dispatch

LEMMA TakeStep ==
    ASSUME W!WebhookAssumption, EventInv, NEW c \in Dispatchers, W!Take(c) PROVE EventInv'
<1> DEFINE e == Head(queue[c])
<1>1. /\ hand[c] = None /\ queue[c] # <<>>
      /\ hand' = [hand EXCEPT ![c] = e] /\ queue' = [queue EXCEPT ![c] = Tail(@)]
      /\ tried' = [tried EXCEPT ![c] = Append(@, e)]
      /\ UNCHANGED <<global, made, counts, at, accepted>>
  BY DEF W!Take
<1>2. queue[c] \in Seq(Events) /\ tried[c] \in Seq(Events)
  BY DEF EventInv, EventTypes
<1>3. e \in Events /\ Tail(queue[c]) \in Seq(Events) /\ Len(Tail(queue[c])) = Len(queue[c]) - 1
  BY <1>1, <1>2
<1>4. tried[c] \o queue[c] = Append(tried[c], e) \o Tail(queue[c])
  BY <1>1, <1>2, MovesOver
<1> HIDE DEF e
<1>5. EventTypes' /\ DispatcherIsMade'
  BY <1>1, <1>3 DEF EventInv, EventTypes, DispatcherIsMade
<1>6. ASSUME NEW d \in Dispatchers PROVE Accounted(d)'
  <2>1. CASE d # c
    BY <1>1, <2>1 DEF EventInv, EventTypes, Accounted
  <2>2. CASE d = c
    <3>1. /\ queue'[c] = Tail(queue[c]) /\ tried'[c] = Append(tried[c], e) /\ hand'[c] = e
          /\ e # None
      BY <1>1, <1>3 DEF EventInv, EventTypes, W!WebhookAssumption
    <3>4. Len(tried'[c]) = Len(tried[c]) + 1 /\ Len(tried[c]) \in Nat
      BY <1>2, <1>3, <3>1, AppendProperties
    <3>2. Accounted(c)
      BY DEF EventInv
    <3>3. counts[c].delivered \in Nat /\ counts[c].failed \in Nat /\ Len(queue[c]) \in Nat
      <4>1. counts[c] \in [delivered : Nat, failed : Nat, dropped : Nat]
        BY DEF EventInv, EventTypes
      <4>2. Len(queue[c]) \in Nat
        BY <1>2, LenProperties
      <4> QED BY <4>1, <4>2
    <3>5. Len(queue'[c]) <= MaxQueue
      BY <1>3, <3>1, <3>2, <3>3 DEF Accounted, W!WebhookAssumption
    <3>7. accepted'[c] = tried'[c] \o queue'[c]
      BY <1>1, <1>4, <3>1, <3>2 DEF Accounted
    <3>6. Len(tried'[c]) = counts'[c].delivered + counts'[c].failed + 1
      BY <1>1, <3>2, <3>3, <3>4 DEF Accounted
    <3> QED BY <2>2, <3>1, <3>5, <3>6, <3>7 DEF Accounted
  <2> QED BY <2>1, <2>2
<1> QED BY <1>5, <1>6 DEF EventInv

LEMMA DeliverStep ==
    ASSUME W!WebhookAssumption, EventInv, NEW c \in Dispatchers, W!Deliver(c) PROVE EventInv'
<1>1. /\ hand[c] # None /\ hand' = [hand EXCEPT ![c] = None]
      /\ UNCHANGED <<global, made, queue, at, accepted, tried>>
  BY DEF W!Deliver
<1>2. /\ counts' \in [Dispatchers -> [delivered : Nat, failed : Nat, dropped : Nat]]
      /\ counts'[c].delivered + counts'[c].failed = counts[c].delivered + counts[c].failed + 1
      /\ \A d \in Dispatchers \ {c} : counts'[d] = counts[d]
  <2>1. counts[c] \in [delivered : Nat, failed : Nat, dropped : Nat]
    BY DEF EventInv, EventTypes
  <2> DEFINE more(what) == [counts[c] EXCEPT ![what] = @ + 1]
  <2>2. \A what \in {"delivered", "failed"} :
            /\ more(what) \in [delivered : Nat, failed : Nat, dropped : Nat]
            /\ more(what).delivered + more(what).failed = counts[c].delivered + counts[c].failed + 1
    BY <2>1
  <2>3. \E what \in {"delivered", "failed"} : counts' = [counts EXCEPT ![c] = more(what)]
    BY DEF W!Deliver, W!Counted
  <2> HIDE DEF more
  <2> QED BY <2>2, <2>3 DEF EventInv, EventTypes
<1>3. EventTypes' /\ DispatcherIsMade'
  BY <1>1, <1>2 DEF EventInv, EventTypes, DispatcherIsMade
<1>4. ASSUME NEW d \in Dispatchers PROVE Accounted(d)'
  <2>1. Accounted(d) /\ (hand'[d] = IF d = c THEN None ELSE hand[d])
    BY <1>1 DEF EventInv, EventTypes
  <2>2. /\ counts[d].delivered \in Nat /\ counts[d].failed \in Nat
        /\ counts'[d].delivered \in Nat /\ counts'[d].failed \in Nat
    BY <1>2 DEF EventInv, EventTypes
  <2> QED BY <1>1, <1>2, <2>1, <2>2 DEF Accounted
<1> QED BY <1>3, <1>4 DEF EventInv

LEMMA NextEvents == ASSUME W!WebhookAssumption, EventInv, [W!Next]_W!vars PROVE EventInv'
<1>1. CASE UNCHANGED W!vars
  BY <1>1 DEF W!vars, EventInv, EventTypes, DispatcherIsMade, Accounted
<1>2. CASE W!Next
  BY <1>2, ArriveStep, DispatchStep, TakeStep, DeliverStep DEF W!Next
<1> QED BY <1>1, <1>2

LEMMA EventsAccounted == ASSUME EventInv PROVE W!EveryEventAccounted
BY DEF EventInv, EventTypes, Accounted, W!EveryEventAccounted

(* Whichever requests race to make the dispatcher, and however the worker  *)
(* threads take turns with them: what a dispatcher accepted is in its      *)
(* queue, in its worker's hand or counted as delivered or failed, in the   *)
(* order in which it came, and the queue never passes max_queue.           *)
THEOREM EventsStayAccounted == Spec => []EveryEventAccounted
<1> DEFINE Inv == part = "webhooks" => EventInv
<1>1. Init => Inv
  BY ProcessAssumptions, InitEvents DEF Init
<1>2. Inv /\ [Next]_vars => Inv'
  <2> SUFFICES ASSUME Inv, [Next]_vars, part' = "webhooks" PROVE EventInv'
    OBVIOUS
  <2>1. part = "webhooks" /\ (W!Next \/ UNCHANGED W!vars)
    BY DEF Next, vars, webhookVars, W!vars
  <2> QED BY <2>1, ProcessAssumptions, NextEvents
<1>3. Inv => EveryEventAccounted
  BY ProcessAssumptions, EventsAccounted DEF EveryEventAccounted
<1> QED BY <1>1, <1>2, <1>3, PTL DEF Spec

-----------------------------------------------------------------------------
(* McpBackend.                                                             *)

WasTold(what, m) == [is |-> what, memory |-> m] \in told

(* The store has a turn of the session of m, and m itself where the tool   *)
(* made the session.                                                       *)
InStore(m) == (\E t \in Turns : <<t, m[2]>> \in spans) /\ (m[2] \in Fresh => m \in spans)

(* A session that a tool made is of one turn.                              *)
FreshIsOwn ==
    \A s \in Fresh :
        /\ \A v, w \in work : v.session = s /\ w.session = s => P!Memory(v) = P!Memory(w)
        /\ \A w \in work, m \in spans : w.session = s /\ m[2] = s => m = P!Memory(w)

(* An add past its first step has its turn stored, and what has a row was  *)
(* stored.                                                                 *)
SpansComeFirst ==
    /\ \A w \in work : w.at # "begun" => InStore(P!Memory(w))
    /\ \A m \in P!Memories : row[m] # "absent" \/ WasTold("stored", m) => InStore(m)

(* A fact is deleted for good when its row says so and no add would write  *)
(* another status.                                                         *)
Gone(m) ==
    /\ row[m] = "archived" /\ InStore(m)
    /\ \A w \in work : P!Memory(w) = m => w.copy \in {P!Unread, "archived"}

AddsHaveRead == \A w \in work : (w.at = "read") <=> (w.copy # P!Unread)

DeletedStaysOut ==
    \A m \in P!Memories \ raced :
        /\ (row[m] = "archived" \/ \E w \in work : P!Memory(w) = m /\ w.copy = "archived") => Gone(m)
        /\ WasTold("deleted", m) => Gone(m)
DeletedWasStored == \A m \in P!Memories : WasTold("deleted", m) => InStore(m)

(* Until an error was the answer a turn is added once: by one add, which   *)
(* is waited for, or by one that was told to be stored.                    *)
AddedOnce(t) ==
    /\ \A w \in work : w.turn = t =>
        /\ w.by # Nobody
        /\ \A v \in work : v.turn = t => v = w
        /\ \A m \in spans : m[1] = t => m = P!Memory(w)
    /\ \A m, n \in spans : m[1] = t /\ n[1] = t => m = n
    /\ \A m \in spans : m[1] = t =>
        \/ \E w \in work : w.turn = t
        \/ \E n \in {t} \X P!Sessions : WasTold("stored", n)

(* The inductive invariant.                                                *)
McpInv ==
    /\ P!TypeOK /\ SpansComeFirst /\ AddsHaveRead /\ FreshIsOwn
    /\ DeletedStaysOut /\ DeletedWasStored
    /\ \A t \in Turns \ unsure : AddedOnce(t)

Works == [by : Agents \cup {Nobody}, turn : Turns, session : P!Sessions,
          at : {"begun", "stored", "read"}, copy : {P!Unread, "absent", "active", "archived"}]
Answers == [is : {"stored", "deleted"}, memory : P!Memories]

LEMMA MemoryOfWork ==
    ASSUME P!TypeOK, NEW w \in work
    PROVE  w \in Works /\ P!Memory(w) \in P!Memories /\ P!Memory(w)[1] = w.turn
BY DEF P!TypeOK, Works, P!Memory, P!Memories

LEMMA InitMcp == ASSUME P!McpAssumption, P!Init PROVE McpInv
BY DEF P!McpAssumption, P!Init, McpInv, P!TypeOK, SpansComeFirst, AddsHaveRead, DeletedStaysOut,
       DeletedWasStored, AddedOnce, WasTold, P!Memories, P!Sessions, Gone, InStore, FreshIsOwn

(* What a tool made a session for is the only turn of it.                  *)
LEMMA FreshStays ==
    ASSUME FreshIsOwn,
           \A v \in work' : \E w \in work : v.turn = w.turn /\ v.session = w.session,
           \A m \in spans' : m \in spans \/ \E w \in work : m = P!Memory(w)
    PROVE  FreshIsOwn'
<1> SUFFICES ASSUME NEW s \in Fresh
             PROVE  /\ \A v, w \in work' : v.session = s /\ w.session = s => P!Memory(v) = P!Memory(w)
                    /\ \A w \in work', m \in spans' : w.session = s /\ m[2] = s => m = P!Memory(w)
  BY DEF FreshIsOwn, P!Memory
<1>1. \A v \in work' : \E w \in work : v.session = w.session /\ P!Memory(v) = P!Memory(w)
  BY DEF P!Memory
<1>2. \A w : P!Memory(w)[2] = w.session
  BY DEF P!Memory
<1> QED BY <1>1, <1>2 DEF FreshIsOwn

(* What only starts or ends a process.                                     *)
LEMMA OnlyProcesses ==
    ASSUME McpInv, UNCHANGED <<how, adds, work, spans, row, told, unsure, raced>>, P!TypeOK'
    PROVE  McpInv'
<1>1. SpansComeFirst' /\ AddsHaveRead' /\ DeletedStaysOut' /\ DeletedWasStored'
  BY DEF McpInv, SpansComeFirst, AddsHaveRead, DeletedStaysOut, DeletedWasStored, WasTold, P!Memory,
     P!Memories, P!Sessions, Gone, InStore
<1>3. FreshIsOwn'
  BY FreshStays DEF McpInv
<1>2. \A t \in Turns \ unsure' : AddedOnce(t)'
  BY DEF McpInv, AddedOnce, WasTold, P!Memory, P!Sessions
<1> QED BY <1>1, <1>2, <1>3 DEF McpInv

(* Adds end, or are no longer waited for: then their turns are in doubt.   *)
LEMMA AddsEnd ==
    ASSUME P!McpAssumption, McpInv, P!TypeOK', UNCHANGED <<spans, row, told, raced>>,
           unsure \subseteq unsure',
           \A v \in work' : \E w \in work :
               /\ v.turn = w.turn /\ v.session = w.session /\ v.at = w.at /\ v.copy = w.copy
               /\ v = w \/ w.turn \in unsure',
           \A w \in work : w \in work' \/ w.turn \in unsure'
    PROVE  McpInv'
<1>0. FreshIsOwn'
  BY FreshStays DEF McpInv
<1>4. \A m : InStore(m)' = InStore(m)
  BY DEF InStore
<1>1. SpansComeFirst' /\ AddsHaveRead'
  BY <1>4 DEF McpInv, SpansComeFirst, AddsHaveRead, P!Memory, WasTold, P!Memories, P!Sessions
<1>2. DeletedStaysOut' /\ DeletedWasStored'
  <2>1. \A m : Gone(m) => Gone(m)'
    BY <1>4 DEF Gone, P!Memory
  <2> QED BY <1>4, <2>1 DEF McpInv, DeletedStaysOut, DeletedWasStored, WasTold, P!Memory, P!Memories, P!Sessions
<1>3. ASSUME NEW t \in Turns \ unsure' PROVE AddedOnce(t)'
  <2>1. AddedOnce(t) /\ (\A v \in work' : v.turn = t => v \in work)
        /\ \A w \in work : w.turn = t => w \in work'
    BY DEF McpInv
  <2> QED BY <2>1 DEF AddedOnce, P!Memory, WasTold, P!Memories, P!Sessions
<1> QED BY <1>0, <1>1, <1>2, <1>3 DEF McpInv

LEMMA EndStep ==
    ASSUME P!McpAssumption, McpInv, NEW a \in Agents, P!End(a) PROVE McpInv'
<1>1. P!TypeOK'
  <2>1. work' \subseteq Works
    <3>1. \A w \in Works : [w EXCEPT !.by = Nobody] \in Works
      BY DEF Works
    <3>2. work \subseteq Works
      BY DEF McpInv, P!TypeOK, Works
    <3> QED BY <3>1, <3>2 DEF P!End
  <2>2. unsure' \subseteq Turns
    BY DEF P!End, McpInv, P!TypeOK
  <2> QED BY <2>1, <2>2 DEF P!End, McpInv, P!TypeOK, Works, P!Memories, P!Sessions
<1>2. \A v \in work' : \E w \in work :
        /\ v.turn = w.turn /\ v.session = w.session /\ v.at = w.at /\ v.copy = w.copy
        /\ v = w \/ w.turn \in unsure'
  <2>1. \A w \in work : LET v == [w EXCEPT !.by = Nobody] IN
            v.turn = w.turn /\ v.session = w.session /\ v.at = w.at /\ v.copy = w.copy
    BY DEF McpInv, P!TypeOK
  <2> DEFINE later == {w \in work : w.by = a /\ P!Remote(a)}
  <2>2. /\ \A v \in work' : v \in work \/ \E w \in later : v = [w EXCEPT !.by = Nobody]
        /\ \A w \in later : w \in work /\ w.turn \in unsure'
    BY DEF P!End
  <2> HIDE DEF later
  <2> QED BY <2>1, <2>2
<1>3. \A w \in work : w \in work' \/ w.turn \in unsure'
  BY DEF P!End
<1> QED BY <1>1, <1>2, <1>3, AddsEnd DEF P!End

LEMMA StopWaitingStep ==
    ASSUME P!McpAssumption, McpInv, NEW a \in Agents, P!GiveUp(a) PROVE McpInv'
<1>1. PICK w \in work : /\ work' = (work \ {w}) \cup {[w EXCEPT !.by = Nobody]}
                        /\ unsure' = unsure \cup {w.turn}
  BY DEF P!GiveUp, P!Replace
<1> DEFINE v == [w EXCEPT !.by = Nobody]
<1>2. v \in Works /\ w \in Works /\ v.turn = w.turn /\ v.session = w.session /\ v.at = w.at
      /\ v.copy = w.copy
  BY MemoryOfWork DEF McpInv, Works
<1> HIDE DEF v
<1>3. P!TypeOK'
  BY <1>1, <1>2 DEF P!GiveUp, McpInv, P!TypeOK, Works, P!Memories, P!Sessions, v
<1>4. \A u \in work' : u = v \/ u \in work
  BY <1>1 DEF v
<1> QED BY <1>1, <1>2, <1>3, <1>4, AddsEnd DEF P!GiveUp

LEMMA ServiceStopsStep == ASSUME P!McpAssumption, McpInv, P!ServiceStops PROVE McpInv'
<1>1. P!TypeOK'
  BY DEF P!ServiceStops, McpInv, P!TypeOK, Works, P!Memories, P!Sessions
<1> QED BY <1>1, AddsEnd DEF P!ServiceStops

LEMMA FailStep == ASSUME P!McpAssumption, McpInv, NEW w \in work, P!Fail(w) PROVE McpInv'
<1>1. P!TypeOK'
  BY DEF P!Fail, McpInv, P!TypeOK, Works, P!Memories, P!Sessions
<1> QED BY <1>1, AddsEnd DEF P!Fail

LEMMA AddMemoriesStep == ASSUME P!McpAssumption, McpInv, NEW a \in Agents, P!Add(a) PROVE McpInv'
<1>1. PICK t \in Turns, s \in Named \cup (Fresh \ P!Used) :
        /\ \A m \in {t} \X P!Sessions : [is |-> "stored", memory |-> m] \notin told
        /\ \A w \in work : w.turn = t => t \in unsure
        /\ work' = work \cup {[by |-> a, turn |-> t, session |-> s, at |-> "begun", copy |-> P!Unread]}
  BY DEF P!Add
<1> DEFINE v == [by |-> a, turn |-> t, session |-> s, at |-> "begun", copy |-> P!Unread]
<1>2. /\ v.turn = t /\ v.by = a /\ v.at = "begun" /\ v.copy = P!Unread /\ P!Memory(v) \in P!Memories
      /\ v \in Works /\ P!Memory(v)[1] = t
  BY DEF Works, P!Sessions, P!Memory, P!Memories
<1> HIDE DEF v
<1>3. work' = work \cup {v} /\ UNCHANGED <<how, on, opener, spans, row, told, unsure, raced>>
      /\ adds < MaxAdds /\ adds' = adds + 1
  BY <1>1 DEF v, P!Add
<1>7. \A m : InStore(m)' = InStore(m)
  BY <1>3 DEF InStore
<1>8. FreshIsOwn'
  <2>1. v.session \in Fresh => /\ \A w \in work : w.session # v.session
                               /\ \A m \in spans : m[2] # v.session
    BY <1>1 DEF v, P!Used, P!McpAssumption
  <2>2. \A w : P!Memory(w)[2] = w.session
    BY DEF P!Memory
  <2> SUFFICES ASSUME NEW z \in Fresh
               PROVE  /\ \A u, w \in work' : u.session = z /\ w.session = z => P!Memory(u) = P!Memory(w)
                      /\ \A w \in work', m \in spans' : w.session = z /\ m[2] = z => m = P!Memory(w)
    BY DEF FreshIsOwn, P!Memory
  <2> QED BY <1>3, <2>1, <2>2 DEF McpInv, FreshIsOwn
<1>4. P!TypeOK' /\ SpansComeFirst' /\ AddsHaveRead'
  <2>1. adds' \in 0..MaxAdds
    BY <1>3 DEF McpInv, P!TypeOK, P!McpAssumption
  <2> QED BY <1>2, <1>3, <1>7, <2>1 DEF McpInv, P!TypeOK, SpansComeFirst, AddsHaveRead, Works, P!Memory,
             WasTold, P!Memories, P!Sessions, P!Unread
<1>5. DeletedStaysOut' /\ DeletedWasStored'
  <2>1. \A m : Gone(m) => Gone(m)'
    BY <1>2, <1>3, <1>7 DEF Gone, P!Memory
  <2>2. \A w \in work' : w.copy = "archived" => w \in work
    BY <1>2, <1>3 DEF P!Unread
  <2> QED BY <1>3, <1>7, <2>1, <2>2 DEF McpInv, DeletedStaysOut, DeletedWasStored, WasTold, P!Memory,
             P!Memories, P!Sessions
<1>6. ASSUME NEW u \in Turns \ unsure' PROVE AddedOnce(u)'
  <2>1. CASE u # t
    <3>1. \A w \in work' : w.turn = u => w \in work
      BY <1>2, <1>3, <2>1
    <3>2. AddedOnce(u) /\ work \subseteq work' /\ UNCHANGED <<spans, told>>
      BY <1>3 DEF McpInv
    <3> QED BY <3>1, <3>2 DEF AddedOnce, P!Memory, WasTold, P!Sessions
  <2>2. CASE u = t
    <3>1. \A w \in work : w.turn # t
      BY <1>1, <1>3, <2>2
    <3>2. \A m \in spans : m[1] # t
      BY <1>1, <1>3, <2>2, <3>1 DEF McpInv, AddedOnce, WasTold
    <3>3. a # Nobody
      BY DEF P!McpAssumption
    <3> QED BY <1>2, <1>3, <2>2, <3>1, <3>2, <3>3 DEF AddedOnce
  <2> QED BY <2>1, <2>2
<1> QED BY <1>4, <1>5, <1>6, <1>8 DEF McpInv

(* An add goes on to v, and everything else stays but what it stores.      *)
LEMMA AddGoesOn ==
    ASSUME P!McpAssumption, McpInv, NEW w \in work, NEW v \in Works,
           v.by = w.by, v.turn = w.turn, v.session = w.session,
           work' = (work \ {w}) \cup {v},
           spans' \subseteq spans \cup {P!Memory(w)},
           UNCHANGED <<told, unsure>>,
           NEW t \in Turns \ unsure'
    PROVE  AddedOnce(t)'
<1>1. AddedOnce(t) /\ P!Memory(v) = P!Memory(w) /\ P!Memory(w)[1] = w.turn
  BY DEF McpInv, P!Memory
<1>2. CASE w.turn # t
  <2>1. \A u \in work' : u.turn = t => u \in work
    BY <1>2
  <2>2. \A u \in work : u.turn = t => u \in work'
    BY <1>2
  <2> QED BY <1>1, <1>2, <2>1, <2>2 DEF AddedOnce, P!Memory, WasTold, P!Memories, P!Sessions
<1>3. CASE w.turn = t
  <2>1. \A u \in work' : u.turn = t => u = v
    BY <1>1, <1>3 DEF AddedOnce
  <2>2. \A m \in spans' : m[1] = t => m = P!Memory(v)
    BY <1>1, <1>3 DEF AddedOnce
  <2> QED BY <1>1, <1>3, <2>1, <2>2 DEF AddedOnce, P!Memory, WasTold, P!Memories, P!Sessions
<1> QED BY <1>2, <1>3

LEMMA StoreTurnsStep == ASSUME P!McpAssumption, McpInv, NEW w \in work, P!StoreTurns(w) PROVE McpInv'
<1> DEFINE v == [w EXCEPT !.at = "stored"]
<1>1. /\ v \in Works /\ w \in Works /\ v.turn = w.turn /\ v.session = w.session /\ v.at = "stored"
      /\ v.copy = w.copy /\ v.by = w.by /\ P!Memory(w) \in P!Memories /\ P!Memory(v) = P!Memory(w)
      /\ w.copy = P!Unread
  BY MemoryOfWork DEF McpInv, Works, P!Memory, P!StoreTurns, AddsHaveRead
<1> HIDE DEF v
<1>2. work' = (work \ {w}) \cup {v}
      /\ spans' = {m \in spans : m[2] # w.session} \cup {P!Memory(w)}
      /\ UNCHANGED <<how, adds, on, opener, row, told, unsure, raced>>
  BY DEF P!StoreTurns, P!Replace, v
<1>6. FreshIsOwn'
  BY <1>1, <1>2, FreshStays DEF McpInv
<1>7. InStore(P!Memory(w))'
  BY <1>1, <1>2 DEF InStore, P!Memory, Works
<1>8. ASSUME NEW m \in P!Memories, InStore(m) PROVE InStore(m)'
  <2>1. CASE m[2] = w.session
    <3>1. m[2] \in Fresh => m \in spans /\ m = P!Memory(w)
      BY <1>8, <2>1 DEF InStore, McpInv, FreshIsOwn
    <3> QED BY <1>2, <1>7, <2>1, <3>1 DEF InStore, P!Memory
  <2>2. CASE m[2] # w.session
    <3>1. \A t : <<t, m[2]>> \in spans => <<t, m[2]>> \in spans'
      BY <1>2, <2>2
    <3>2. m \in spans => m \in spans'
      BY <1>2, <2>2
    <3> QED BY <1>8, <3>1, <3>2 DEF InStore
  <2> QED BY <2>1, <2>2
<1>9. \A u \in work : P!Memory(u) \in P!Memories
  BY MemoryOfWork DEF McpInv
<1>3. P!TypeOK' /\ SpansComeFirst' /\ AddsHaveRead'
  <2>1. P!TypeOK' /\ AddsHaveRead'
    BY <1>1, <1>2 DEF McpInv, P!TypeOK, AddsHaveRead, Works, P!Memory, P!Memories, P!Sessions, P!Unread
  <2>2. ASSUME NEW u \in work', u.at # "begun" PROVE InStore(P!Memory(u))'
    <3>1. CASE u = v
      BY <1>1, <1>7, <3>1 DEF InStore, P!Memory
    <3>2. CASE u \in work
      <4>1. InStore(P!Memory(u)) /\ P!Memory(u) \in P!Memories
        BY <1>9, <2>2, <3>2 DEF McpInv, SpansComeFirst
      <4> QED BY <1>8, <4>1 DEF InStore, P!Memory
    <3> QED BY <1>2, <3>1, <3>2
  <2>3. ASSUME NEW m \in P!Memories, row'[m] # "absent" \/ WasTold("stored", m)' PROVE InStore(m)'
    BY <1>2, <1>8, <2>3 DEF McpInv, SpansComeFirst, WasTold
  <2> QED BY <2>1, <2>2, <2>3 DEF SpansComeFirst, P!Memory, P!Memories, P!Sessions
<1>4. DeletedStaysOut' /\ DeletedWasStored'
  <2>1. \A m \in P!Memories : Gone(m) => Gone(m)'
    BY <1>1, <1>2, <1>8 DEF Gone, P!Memory
  <2>2. \A u \in work' : u.copy = "archived" => u \in work
    BY <1>1, <1>2 DEF P!Unread
  <2> QED BY <1>2, <1>8, <2>1, <2>2 DEF McpInv, DeletedStaysOut, DeletedWasStored, WasTold, P!Memory,
             P!Memories, P!Sessions
<1>5. \A t \in Turns \ unsure' : AddedOnce(t)'
  BY <1>1, <1>2, AddGoesOn
<1> QED BY <1>3, <1>4, <1>5, <1>6 DEF McpInv

LEMMA ReadRowStep == ASSUME P!McpAssumption, McpInv, NEW w \in work, P!ReadRow(w) PROVE McpInv'
<1> DEFINE v == [w EXCEPT !.at = "read", !.copy = row[P!Memory(w)]]
<1>0. w \in Works /\ P!Memory(w) \in P!Memories /\ row[P!Memory(w)] \in {"absent", "active", "archived"}
      /\ InStore(P!Memory(w))
  BY MemoryOfWork DEF McpInv, P!TypeOK, SpansComeFirst, P!ReadRow
<1>1. /\ v \in Works /\ v.turn = w.turn /\ v.session = w.session /\ v.at = "read"
      /\ v.copy = row[P!Memory(w)] /\ v.by = w.by /\ P!Memory(v) = P!Memory(w)
  BY <1>0 DEF Works, P!Memory
<1> HIDE DEF v
<1>2. work' = (work \ {w}) \cup {v}
      /\ UNCHANGED <<how, adds, on, opener, spans, row, told, unsure, raced>>
  BY DEF P!ReadRow, P!Replace, v
<1>6. \A m : InStore(m)' = InStore(m)
  BY <1>2 DEF InStore
<1>7. FreshIsOwn'
  BY <1>1, <1>2, FreshStays DEF McpInv
<1>3. P!TypeOK' /\ SpansComeFirst' /\ AddsHaveRead'
  BY <1>0, <1>1, <1>2, <1>6 DEF McpInv, P!TypeOK, SpansComeFirst, AddsHaveRead, Works, P!Memory, WasTold,
     P!Memories, P!Sessions, P!Unread
<1>4. DeletedStaysOut' /\ DeletedWasStored'
  <2>1. \A m : Gone(m) => Gone(m)'
    BY <1>1, <1>2, <1>6 DEF Gone, P!Memory
  <2>2. ASSUME NEW u \in work', u.copy = "archived"
        PROVE  row[P!Memory(u)] = "archived" \/ (u \in work /\ u.copy = "archived")
    BY <1>1, <1>2, <2>2
  <2> QED BY <1>2, <1>6, <2>1, <2>2 DEF McpInv, DeletedStaysOut, DeletedWasStored, WasTold, P!Memories,
             P!Sessions
<1>5. \A t \in Turns \ unsure' : AddedOnce(t)'
  <2>1. spans' \subseteq spans \cup {P!Memory(w)}
    BY <1>2
  <2> QED BY <1>1, <1>2, <2>1, AddGoesOn
<1> QED BY <1>3, <1>4, <1>5, <1>7 DEF McpInv

LEMMA AnswerStep == ASSUME P!McpAssumption, McpInv, NEW w \in work, P!Answer(w) PROVE McpInv'
<1> DEFINE m == P!Memory(w)
<1>1. w \in Works /\ m \in P!Memories /\ m[1] = w.turn /\ w.at = "read"
      /\ w.copy \in {"absent", "active", "archived"} /\ InStore(m)
  BY MemoryOfWork DEF McpInv, Works, P!Answer, P!Answered, AddsHaveRead, SpansComeFirst
<1>2. work' = work \ {w} /\ UNCHANGED <<how, adds, on, opener, spans, unsure, raced>>
  BY DEF P!Answer
<1>3. told' = told \/ (w.by # Nobody /\ told' = told \cup {[is |-> "stored", memory |-> m]})
  BY DEF P!Answer, P!Tell
<1>4. \/ row' = row
      \/ /\ w.copy = "archived" /\ row' = [row EXCEPT ![m] = "archived"]
      \/ /\ w.copy # "archived" /\ row' = [row EXCEPT ![m] = "active"]
  BY DEF P!Answer
<1>a. w.by # Nobody => [is |-> "stored", memory |-> m] \in told'
  BY DEF P!Answer, P!Tell
<1>b. FreshIsOwn'
  BY <1>2, FreshStays DEF McpInv
<1>c. \A n : InStore(n)' = InStore(n)
  BY <1>2 DEF InStore
<1> HIDE DEF m
<1>5. row' \in [P!Memories -> {"absent", "active", "archived"}]
      /\ \A n \in P!Memories : n # m => row'[n] = row[n]
  BY <1>1, <1>4 DEF McpInv, P!TypeOK
<1>6. P!TypeOK'
  <2>1. told' \subseteq Answers
    BY <1>1, <1>3 DEF Answers, McpInv, P!TypeOK
  <2> QED BY <1>2, <1>5, <2>1 DEF McpInv, P!TypeOK, Answers, P!Memories, P!Sessions
<1>7. SpansComeFirst' /\ AddsHaveRead'
  <2>1. \A n \in P!Memories : WasTold("stored", n)' => WasTold("stored", n) \/ n = m
    BY <1>3 DEF WasTold
  <2> QED BY <1>1, <1>2, <1>5, <1>c, <2>1 DEF McpInv, SpansComeFirst, AddsHaveRead, P!Memory, P!Memories,
             P!Sessions
<1>8. DeletedStaysOut' /\ DeletedWasStored'
  <2>1. \A n \in P!Memories : WasTold("deleted", n)' => WasTold("deleted", n)
    BY <1>3 DEF WasTold
  <2>2. ASSUME NEW n \in P!Memories, Gone(n) PROVE Gone(n)'
    <3>1. n = m => row'[n] = "archived"
      BY <1>1, <1>4, <2>2 DEF Gone, m, McpInv, P!TypeOK, P!Unread
    <3> QED BY <1>2, <1>5, <1>c, <2>2, <3>1 DEF Gone, P!Memory
  <2>3. \A n \in P!Memories : row'[n] = "archived" =>
            row[n] = "archived" \/ (n = P!Memory(w) /\ w.copy = "archived")
    BY <1>1, <1>4 DEF McpInv, P!TypeOK, m
  <2>4. ASSUME NEW n \in P!Memories \ raced',
               \/ row'[n] = "archived" \/ (\E u \in work' : P!Memory(u) = n /\ u.copy = "archived")
               \/ WasTold("deleted", n)'
        PROVE  Gone(n)
    BY <1>2, <2>1, <2>3, <2>4 DEF McpInv, DeletedStaysOut
  <2>5. DeletedStaysOut'
    BY <2>2, <2>4, <1>2 DEF DeletedStaysOut, P!Memory, P!Memories, P!Sessions
  <2>6. DeletedWasStored'
    BY <1>2, <1>c, <2>1 DEF McpInv, DeletedWasStored, P!Memories, P!Sessions
  <2> QED BY <2>5, <2>6
<1>9. ASSUME NEW t \in Turns \ unsure' PROVE AddedOnce(t)'
  <2>1. AddedOnce(t)
    BY <1>2 DEF McpInv
  <2>2. ASSUME NEW k \in spans', k[1] = t
        PROVE  \/ \E u \in work' : u.turn = t
               \/ \E n \in {t} \X P!Sessions : WasTold("stored", n)'
    <3>1. CASE w.turn # t
      <4>1. \A u \in work : u.turn = t => u \in work'
        BY <1>2, <3>1
      <4> QED BY <1>2, <1>3, <2>1, <2>2, <4>1 DEF AddedOnce, WasTold
    <3>2. CASE w.turn = t
      <4>1. w.by # Nobody /\ m \in {t} \X P!Sessions
        BY <1>1, <2>1, <3>2 DEF AddedOnce, P!Memories
      <4> QED BY <1>a, <4>1 DEF WasTold
    <3> QED BY <3>1, <3>2
  <2>3. (\A u \in work : u.turn = t =>
            /\ u.by # Nobody /\ (\A v \in work : v.turn = t => v = u)
            /\ \A k \in spans : k[1] = t => k = P!Memory(u))
        /\ \A k, n \in spans : k[1] = t /\ n[1] = t => k = n
    BY <2>1 DEF AddedOnce
  <2> QED BY <1>2, <2>2, <2>3 DEF AddedOnce, P!Memory, P!Sessions
<1> QED BY <1>6, <1>7, <1>8, <1>9, <1>b DEF McpInv

LEMMA DeleteStep == ASSUME P!McpAssumption, McpInv, NEW a \in Agents, P!Delete(a) PROVE McpInv'
<1>1. PICK m \in P!Memories :
        /\ row[m] \in {"active", "archived"} /\ row' = [row EXCEPT ![m] = "archived"]
        /\ raced' = IF \E w \in work : P!Memory(w) = m /\ w.copy \in {"active", "absent"}
                    THEN raced \cup {m} ELSE raced
        /\ told' = told \/ told' = told \cup {[is |-> "deleted", memory |-> m]}
  BY DEF P!Delete, P!Deleted, P!Tell
<1>2. UNCHANGED <<how, adds, on, opener, work, spans, unsure>> /\ raced \subseteq raced'
  BY <1>1 DEF P!Delete
<1>3. /\ row' \in [P!Memories -> {"absent", "active", "archived"}]
      /\ \A n \in P!Memories : n # m => row'[n] = row[n]
      /\ row'[m] = "archived" /\ row[m] \in {"active", "archived"}
  BY <1>1 DEF McpInv, P!TypeOK
<1>4. P!TypeOK' /\ AddsHaveRead'
  <2>1. told' \subseteq Answers
    BY <1>1 DEF Answers, McpInv, P!TypeOK
  <2> QED BY <1>1, <1>2, <1>3, <2>1 DEF McpInv, P!TypeOK, Answers, AddsHaveRead, P!Memories, P!Sessions
<1>5. \A n \in P!Memories : WasTold("stored", n)' = WasTold("stored", n)
  BY <1>1 DEF WasTold
<1>6. \A n \in P!Memories : WasTold("deleted", n)' =>
            WasTold("deleted", n) \/ (n = m /\ row[m] \in {"active", "archived"})
  BY <1>1 DEF WasTold
<1>12. FreshIsOwn' /\ \A n : InStore(n)' = InStore(n)
  BY <1>2, FreshStays DEF McpInv, InStore
<1>7. \A n \in P!Memories : row[n] # "absent" => InStore(n)
  BY DEF McpInv, SpansComeFirst
<1>8. SpansComeFirst'
  BY <1>2, <1>3, <1>5, <1>7, <1>12 DEF McpInv, SpansComeFirst, P!Memory, P!Memories, P!Sessions
<1>9. DeletedWasStored'
  BY <1>2, <1>6, <1>7, <1>12 DEF McpInv, DeletedWasStored, P!Memories, P!Sessions
<1>10. DeletedStaysOut'
  <2>1. ASSUME NEW n \in P!Memories, Gone(n) PROVE Gone(n)'
    BY <1>2, <1>3, <1>12, <2>1 DEF Gone, P!Memory
  <2>2. ASSUME m \notin raced', row'[m] = "archived" PROVE Gone(m)'
    <3>1. \A w \in work : P!Memory(w) = m => w.copy \in {P!Unread, "archived"}
      BY <1>1, <2>2, MemoryOfWork DEF McpInv, Works
    <3> QED BY <1>2, <1>3, <1>7, <1>12, <2>2, <3>1 DEF Gone, P!Memory
  <2>3. ASSUME NEW n \in P!Memories \ raced',
               \/ row'[n] = "archived" \/ (\E u \in work : P!Memory(u) = n /\ u.copy = "archived")
               \/ WasTold("deleted", n)'
        PROVE  Gone(n)'
    <3>1. CASE n = m /\ row'[m] = "archived"
      BY <2>2, <2>3, <3>1
    <3>2. CASE ~(n = m /\ row'[m] = "archived")
      <4>1. row[n] = "archived" \/ (\E u \in work : P!Memory(u) = n /\ u.copy = "archived")
            \/ WasTold("deleted", n)
        BY <1>3, <1>6, <2>3, <3>2
      <4> QED BY <1>2, <2>1, <4>1 DEF McpInv, DeletedStaysOut
    <3> QED BY <3>1, <3>2
  <2> QED BY <1>2, <2>3 DEF DeletedStaysOut, P!Memory, P!Memories, P!Sessions
<1>11. ASSUME NEW t \in Turns \ unsure' PROVE AddedOnce(t)'
  <2>1. \A n \in {t} \X P!Sessions : WasTold("stored", n)' = WasTold("stored", n)
    BY <1>5 DEF P!Memories
  <2> QED BY <1>2, <2>1 DEF McpInv, AddedOnce, P!Memory, P!Sessions
<1> QED BY <1>4, <1>8, <1>9, <1>10, <1>11, <1>12 DEF McpInv

LEMMA NextMcp == ASSUME P!McpAssumption, McpInv, [P!Next]_P!vars PROVE McpInv'
<1>1. CASE UNCHANGED P!vars
  BY <1>1, OnlyProcesses DEF P!vars, McpInv, P!TypeOK, P!Memories, P!Sessions
<1>2. ASSUME NEW a \in Agents, P!Start(a) PROVE McpInv'
  <2>1. P!TypeOK'
    BY <1>2 DEF P!Start, McpInv, P!TypeOK, P!Memories, P!Sessions
  <2> QED BY <1>2, <2>1, OnlyProcesses DEF P!Start
<1>3. CASE P!ServiceStarts
  <2>1. P!TypeOK'
    BY <1>3 DEF P!ServiceStarts, McpInv, P!TypeOK, P!Memories, P!Sessions
  <2> QED BY <1>3, <2>1, OnlyProcesses DEF P!ServiceStarts
<1> QED BY <1>1, <1>2, <1>3, EndStep, AddMemoriesStep, StopWaitingStep, DeleteStep, StoreTurnsStep,
           ReadRowStep, AnswerStep, FailStep, ServiceStopsStep DEF P!Next

LEMMA AnswersHold == ASSUME McpInv PROVE P!AnswersAreTrue
<1>1. \A e \in told : e = [is |-> e.is, memory |-> e.memory] /\ e.memory \in P!Memories
  BY DEF McpInv, P!TypeOK
<1>2. \A e \in told : WasTold(e.is, e.memory)
  BY <1>1 DEF WasTold
<1>0. \A S : P!Cardinality(S) = Cardinality(S)
  BY DEF P!Cardinality, Cardinality
<1>3. ASSUME NEW t \in Turns, P!Cardinality(spans \cap ({t} \X P!Sessions)) > 1 PROVE t \in unsure
  <2> DEFINE S == spans \cap ({t} \X P!Sessions)
  <2> SUFFICES ASSUME t \notin unsure PROVE FALSE
    OBVIOUS
  <2>1. \A m, n \in S : m = n
    BY DEF McpInv, AddedOnce
  <2>2. S = {} \/ \E m : S = {m}
    <3>1. ASSUME NEW m \in S PROVE S = {m}
      BY <2>1
    <3> QED BY <3>1
  <2> HIDE DEF S
  <2>3. P!Cardinality(S) \in {0, 1}
    <3>1. Cardinality(S) \in {0, 1}
      BY <2>2, FS_EmptySet, FS_Singleton
    <3> QED BY <1>0, <3>1
  <2> QED BY <1>3, <2>3 DEF S
<1>4. ASSUME NEW m \in P!Memories, InStore(m)
      PROVE  /\ \E t \in Turns : <<t, m[2]>> \in spans
             /\ m \in spans \/ m[2] \in Named
  BY <1>4 DEF InStore, P!Memories, P!Sessions
<1>5. \A e \in told : e.is = "stored" => InStore(e.memory)
  BY <1>1, <1>2 DEF McpInv, SpansComeFirst
<1>6. \A e \in told : e.is = "deleted" =>
        InStore(e.memory) /\ (row[e.memory] = "archived" \/ e.memory \in raced)
  BY <1>1, <1>2 DEF McpInv, DeletedStaysOut, DeletedWasStored, Gone
<1> QED BY <1>1, <1>3, <1>4, <1>5, <1>6 DEF P!AnswersAreTrue

(* mcp_server/backend.py: whichever servers and services are started,      *)
(* ended or stopped waiting for, with adds under way in any number: what   *)
(* is said to be stored is, unless a later add to a named session took its *)
(* place; what was deleted stays out unless an add was about to write it;  *)
(* and a turn is stored twice only after an error.                         *)
THEOREM ToolsTellTheTruth == Spec => []ToolsToldTheTruth
<1> DEFINE Inv == part = "mcp" => McpInv
<1>1. Init => Inv
  BY ProcessAssumptions, InitMcp DEF Init
<1>2. Inv /\ [Next]_vars => Inv'
  <2> SUFFICES ASSUME Inv, [Next]_vars, part' = "mcp" PROVE McpInv'
    OBVIOUS
  <2>1. part = "mcp" /\ (P!Next \/ UNCHANGED P!vars)
    BY DEF Next, vars, mcpVars, P!vars
  <2> QED BY <2>1, ProcessAssumptions, NextMcp
<1>3. Inv => ToolsToldTheTruth
  BY ProcessAssumptions, AnswersHold DEF ToolsToldTheTruth
<1> QED BY <1>1, <1>2, <1>3, PTL DEF Spec

-----------------------------------------------------------------------------
(* ModelCalls.                                                             *)

Steps == {"idle", "ready", "asking", "said", "error", "done", "failed"}

CallTypes ==
    /\ sdk \in {"openai", "anthropic"} /\ opened \in 1..MaxOpens
    /\ via \in [Operations -> M!Providers \cup {M!NoProvider}]
    /\ op \in [Operations -> [at : Steps, policy : Nat, empty : Nat]]
    /\ finish \in [M!Providers -> M!Reasons \cup {"none"}]
    /\ seen \in [Operations -> M!Reasons \cup {"none", "unread"}]
    /\ own \in [Operations -> M!Reasons \cup {"none"}]
    /\ mixed \in [Operations -> BOOLEAN]

(* Who is in the middle of a completion has a provider, and has not looked *)
(* at its finish reason yet.                                               *)
ReadsAfter ==
    \A o \in Operations :
        /\ op[o].at \in {"ready", "asking", "said", "error"} => via[o] \in M!Providers
        /\ op[o].at \in {"idle", "asking", "said", "error"} => seen[o] = "unread"

(* What complete() has left at the provider stays until another one that   *)
(* uses it is answered; Anthropic's has no such field.                     *)
ReasonStays ==
    /\ sdk = "anthropic" => \A p \in M!Providers : finish[p] = "none"
    /\ \A o \in Operations :
        sdk = "openai" /\ op[o].at = "said" /\ ~mixed[o] => finish[via[o]] = own[o]

(* The inductive invariant.                                                *)
CallInv == CallTypes /\ ReadsAfter /\ ReasonStays /\ M!FinishReasonIsOwn

LEMMA InitCalls == ASSUME M!ModelAssumption, M!Init PROVE CallInv
BY DEF M!ModelAssumption, M!Init, CallInv, CallTypes, ReadsAfter, ReasonStays, M!FinishReasonIsOwn,
       Steps, M!Idle, M!NoProvider, M!Providers

(* A step of o that nobody answers.                                        *)
LEMMA NobodyAnswers ==
    ASSUME M!ModelAssumption, CallInv, NEW o \in Operations, NEW state,
           state \in [at : Steps, policy : Nat, empty : Nat],
           op' = [op EXCEPT ![o] = state],
           UNCHANGED <<sdk, opened, via, finish, own, mixed, seen>>,
           \/ op[o].at \in {"asking", "said", "error", "ready"} /\ state.at \in {"asking", "error"}
              /\ seen[o] = "unread"
           \/ op[o].at = "error" /\ state.at = "ready"
           \/ state.at \in {"done", "failed"}
    PROVE  CallInv'
<1>1. CallTypes'
  BY DEF CallInv, CallTypes
<1>2. op'[o] = state /\ \A q \in Operations \ {o} : op'[q] = op[q]
  BY DEF CallInv, CallTypes
<1>3. ReadsAfter' /\ ReasonStays' /\ M!FinishReasonIsOwn'
  BY <1>2 DEF CallInv, ReadsAfter, ReasonStays, M!FinishReasonIsOwn, M!Providers
<1> QED BY <1>1, <1>3 DEF CallInv

LEMMA BeginStep == ASSUME M!ModelAssumption, CallInv, NEW o \in Operations, M!Begin(o) PROVE CallInv'
<1>1. /\ op' = [op EXCEPT ![o].at = "ready"] /\ op[o].at = "idle"
      /\ via' = [via EXCEPT ![o] = IF kind[o] = "answer" THEN o ELSE opened]
      /\ UNCHANGED <<sdk, opened, seen, own, mixed, finish>>
  BY DEF M!Begin, M!Goto
<1>2. op'[o].at = "ready" /\ \A q \in Operations \ {o} : op'[q] = op[q] /\ via'[q] = via[q]
  BY <1>1 DEF CallInv, CallTypes
<1>3. via'[o] \in M!Providers
  BY <1>1 DEF CallInv, CallTypes, M!Providers
<1>4. CallTypes'
  BY <1>1, <1>3 DEF CallInv, CallTypes, Steps, M!Providers
<1>5. ReadsAfter' /\ ReasonStays' /\ M!FinishReasonIsOwn'
  BY <1>1, <1>2, <1>3 DEF CallInv, ReadsAfter, ReasonStays, M!FinishReasonIsOwn, M!Providers
<1> QED BY <1>4, <1>5 DEF CallInv

LEMMA AskStep == ASSUME M!ModelAssumption, CallInv, NEW o \in Operations, M!Ask(o) PROVE CallInv'
<1>1. /\ op' = [op EXCEPT ![o] = [at |-> "asking", policy |-> 1, empty |-> 0]] /\ op[o].at = "ready"
      /\ seen' = [seen EXCEPT ![o] = "unread"]
      /\ UNCHANGED <<sdk, opened, via, own, mixed, finish>>
  BY DEF M!Ask
<1>2. op'[o].at = "asking" /\ seen'[o] = "unread"
      /\ \A q \in Operations \ {o} : op'[q] = op[q] /\ seen'[q] = seen[q]
  BY <1>1 DEF CallInv, CallTypes
<1>3. CallTypes'
  BY <1>1 DEF CallInv, CallTypes, Steps
<1>4. ReadsAfter' /\ ReasonStays' /\ M!FinishReasonIsOwn'
  BY <1>1, <1>2 DEF CallInv, ReadsAfter, ReasonStays, M!FinishReasonIsOwn, M!Providers
<1> QED BY <1>3, <1>4 DEF CallInv

(* o is answered; the others of its provider are mixed up with it.         *)
LEMMA SomebodyAnswers ==
    ASSUME M!ModelAssumption, CallInv, NEW o \in Operations, NEW state,
           NEW m, NEW text, NEW reason \in M!Reasons, M!Heard(o, m, text, reason),
           op[o].at = "asking",
           state \in [at : {"asking", "said", "error"}, policy : Nat, empty : Nat],
           op' = [op EXCEPT ![o] = state],
           UNCHANGED <<sdk, opened, via, seen>>
    PROVE  CallInv'
<1>1. /\ finish' = IF sdk = "openai" THEN [finish EXCEPT ![via[o]] = reason] ELSE finish
      /\ own' = [own EXCEPT ![o] = reason]
      /\ mixed' = [q \in Operations |-> IF q = o THEN FALSE ELSE mixed[q] \/ via[q] = via[o]]
  BY DEF M!Heard, M!Reason
<1>2. via[o] \in M!Providers /\ seen[o] = "unread"
  BY DEF CallInv, ReadsAfter
<1>3. CallTypes'
  <2>1. finish' \in [M!Providers -> M!Reasons \cup {"none"}]
    BY <1>1, <1>2 DEF CallInv, CallTypes
  <2>2. op' \in [Operations -> [at : Steps, policy : Nat, empty : Nat]]
    BY DEF CallInv, CallTypes, Steps
  <2>3. own' \in [Operations -> M!Reasons \cup {"none"}] /\ mixed' \in [Operations -> BOOLEAN]
    BY <1>1 DEF CallInv, CallTypes
  <2> QED BY <2>1, <2>2, <2>3 DEF CallInv, CallTypes, M!Providers, M!Reasons
<1>4. op'[o] = state /\ \A q \in Operations \ {o} : op'[q] = op[q] /\ own'[q] = own[q]
  BY <1>1 DEF CallInv, CallTypes
<1>5. ReadsAfter'
  BY <1>2, <1>4 DEF CallInv, ReadsAfter, M!Providers
<1>6. ASSUME NEW q \in Operations, ~mixed'[q], sdk = "openai", op'[q].at = "said"
      PROVE  finish'[via[q]] = own'[q]
  <2>1. CASE q = o
    BY <1>1, <1>2, <1>6, <2>1 DEF CallInv, CallTypes
  <2>2. CASE q # o
    <3>1. ~mixed[q] /\ via[q] # via[o] /\ op[q].at = "said" /\ own'[q] = own[q]
      BY <1>1, <1>4, <1>6, <2>2
    <3>2. via[q] \in M!Providers /\ finish[via[q]] = own[q]
      BY <1>6, <3>1 DEF CallInv, ReadsAfter, ReasonStays
    <3> QED BY <1>1, <1>6, <3>1, <3>2 DEF CallInv, CallTypes
  <2> QED BY <2>1, <2>2
<1>7. ReasonStays'
  BY <1>1, <1>6 DEF CallInv, ReasonStays, M!Providers
<1>8. M!FinishReasonIsOwn'
  BY <1>1, <1>2, <1>4 DEF CallInv, M!FinishReasonIsOwn
<1> QED BY <1>3, <1>5, <1>7, <1>8 DEF CallInv

LEMMA TextStep == ASSUME M!ModelAssumption, CallInv, NEW o \in Operations, M!Text(o) PROVE CallInv'
<1> DEFINE state == [op[o] EXCEPT !.at = "said"]
<1>1. op' = [op EXCEPT ![o] = state]
      /\ state \in [at : {"asking", "said", "error"}, policy : Nat, empty : Nat]
  BY DEF M!Text, M!Goto, CallInv, CallTypes
<1> HIDE DEF state
<1> QED BY <1>1, SomebodyAnswers DEF M!Text

LEMMA EmptyStep == ASSUME M!ModelAssumption, CallInv, NEW o \in Operations, M!Empty(o) PROVE CallInv'
<1>1. op[o] \in [at : Steps, policy : Nat, empty : Nat]
  BY DEF CallInv, CallTypes
<1> DEFINE again == [op[o] EXCEPT !.empty = op[o].empty + 1]
           to(step) == [op[o] EXCEPT !.at = step]
           Answered == [at : {"asking", "said", "error"}, policy : Nat, empty : Nat]
<1>2. again \in Answered /\ to("said") \in Answered /\ to("error") \in Answered
  BY <1>1 DEF M!Empty
<1>3. op' = [op EXCEPT ![o] = again] \/ op' = [op EXCEPT ![o] = to("said")]
      \/ op' = [op EXCEPT ![o] = to("error")]
  <2>1. CASE sdk = "openai"
    <3>1. CASE op[o].empty < EmptyRetries
      BY <2>1, <3>1 DEF M!Empty
    <3>2. CASE ~(op[o].empty < EmptyRetries)
      BY <2>1, <3>2 DEF M!Empty
    <3> QED BY <3>1, <3>2
  <2>2. CASE sdk # "openai"
    BY <2>2 DEF M!Empty, M!Goto
  <2> QED BY <2>1, <2>2
<1>4. PICK m \in Models, reason \in M!Reasons : M!Heard(o, m, FALSE, reason)
  BY DEF M!Empty
<1>5. op[o].at = "asking" /\ UNCHANGED <<sdk, opened, via, seen>>
  BY DEF M!Empty
<1> HIDE DEF again, to
<1> QED BY <1>2, <1>3, <1>4, <1>5, SomebodyAnswers

LEMMA RejectStep == ASSUME M!ModelAssumption, CallInv, NEW o \in Operations, M!Reject(o) PROVE CallInv'
<1>1. op[o] \in [at : Steps, policy : Nat, empty : Nat] /\ op[o].at = "asking" /\ seen[o] = "unread"
  BY DEF CallInv, CallTypes, ReadsAfter, M!Reject
<1> DEFINE again == [at |-> "asking", policy |-> op[o].policy + 1, empty |-> 0]
           stop == [op[o] EXCEPT !.at = "error"]
<1>2. /\ again \in [at : Steps, policy : Nat, empty : Nat] /\ again.at = "asking"
      /\ stop \in [at : Steps, policy : Nat, empty : Nat] /\ stop.at = "error"
  BY <1>1 DEF Steps
<1>3. op' = [op EXCEPT ![o] = again] \/ op' = [op EXCEPT ![o] = stop]
  BY DEF M!Reject
<1> HIDE DEF again, stop
<1> QED BY <1>1, <1>2, <1>3, NobodyAnswers DEF M!Reject

LEMMA GotoStep ==
    ASSUME M!ModelAssumption, CallInv, NEW o \in Operations,
           M!Plain(o) \/ M!Break(o) \/ M!FallBack(o) \/ M!Fail(o) \/ M!Finish(o)
    PROVE  CallInv'
<1>1. op[o] \in [at : Steps, policy : Nat, empty : Nat] /\ (op[o].at = "asking" => seen[o] = "unread")
  BY DEF CallInv, CallTypes, ReadsAfter
<1>2. PICK step \in {"done", "failed", "error", "ready"} :
        /\ op' = [op EXCEPT ![o] = [@ EXCEPT !.at = step]]
        /\ UNCHANGED <<sdk, opened, via, finish, own, mixed, seen>>
        /\ step = "error" => op[o].at = "asking"
        /\ step = "ready" => op[o].at = "error"
  BY DEF M!Plain, M!Break, M!FallBack, M!Fail, M!Finish, M!Goto
<1> DEFINE state == [op[o] EXCEPT !.at = step]
<1>3. state \in [at : Steps, policy : Nat, empty : Nat] /\ state.at = step
      /\ op' = [op EXCEPT ![o] = state]
  BY <1>1, <1>2 DEF Steps
<1> HIDE DEF state
<1> QED BY <1>1, <1>2, <1>3, NobodyAnswers

LEMMA ReadFinishStep ==
    ASSUME M!ModelAssumption, CallInv, NEW o \in Operations, M!ReadFinish(o) PROVE CallInv'
<1>1. /\ op' = [op EXCEPT ![o].at = "ready"] /\ op[o].at = "said"
      /\ seen' = [seen EXCEPT ![o] = finish[via[o]]]
      /\ UNCHANGED <<sdk, opened, via, own, mixed, finish>>
  BY DEF M!ReadFinish, M!Goto
<1>2. via[o] \in M!Providers /\ finish[via[o]] \in M!Reasons \cup {"none"}
  BY <1>1 DEF CallInv, CallTypes, ReadsAfter
<1>3. op'[o].at = "ready" /\ seen'[o] = finish[via[o]]
      /\ \A q \in Operations \ {o} : op'[q] = op[q] /\ seen'[q] = seen[q]
  BY <1>1 DEF CallInv, CallTypes
<1>4. CallTypes'
  BY <1>1, <1>2 DEF CallInv, CallTypes, Steps
<1>5. ReadsAfter' /\ ReasonStays'
  BY <1>1, <1>2, <1>3 DEF CallInv, ReadsAfter, ReasonStays, M!Providers
<1>6. M!FinishReasonIsOwn'
  <2>1. ~mixed[o] => finish[via[o]] = IF sdk = "openai" THEN own[o] ELSE "none"
    BY <1>1, <1>2 DEF CallInv, CallTypes, ReasonStays
  <2> QED BY <1>1, <1>3, <2>1 DEF CallInv, M!FinishReasonIsOwn
<1> QED BY <1>4, <1>5, <1>6 DEF CallInv

LEMMA NextCalls == ASSUME M!ModelAssumption, CallInv, [M!Next]_M!vars PROVE CallInv'
<1>1. CASE UNCHANGED M!vars
  BY <1>1 DEF M!vars, CallInv, CallTypes, ReadsAfter, ReasonStays, M!FinishReasonIsOwn, M!Providers
<1>2. CASE M!Reopen
  BY <1>2 DEF M!Reopen, CallInv, CallTypes, ReadsAfter, ReasonStays, M!FinishReasonIsOwn, M!Providers,
              M!ModelAssumption
<1> QED BY <1>1, <1>2, BeginStep, AskStep, TextStep, EmptyStep, RejectStep, GotoStep,
           ReadFinishStep DEF M!Next

(* extractor.py:681 reads the finish reason from a provider which all jobs *)
(* of a user share, after the completion has returned: it is the reason of *)
(* its own last response unless another job was answered meanwhile.        *)
THEOREM CutOffStaysOwn == Spec => []CutOffIsOwn
<1> DEFINE Inv == part = "models" => CallInv
<1>1. Init => Inv
  BY ProcessAssumptions, InitCalls DEF Init
<1>2. Inv /\ [Next]_vars => Inv'
  <2> SUFFICES ASSUME Inv, [Next]_vars, part' = "models" PROVE CallInv'
    OBVIOUS
  <2>1. part = "models" /\ (M!Next \/ UNCHANGED M!vars)
    BY DEF Next, vars, modelVars, M!vars
  <2> QED BY <2>1, ProcessAssumptions, NextCalls
<1>3. Inv => CutOffIsOwn
  BY DEF CallInv, CutOffIsOwn
<1> QED BY <1>1, <1>2, <1>3, PTL DEF Spec


(* The responses h tells of, of the operations of S.                       *)
ResponsesIn(h, S) == UNION {{o} \X (1..h[o].tokens) : o \in S}
Spent(h, S) == Cardinality(ResponsesIn(h, S))
Heeds == [Operations -> [tokens : Nat, models : SUBSET Models]]

LEMMA FewerResponses ==
    ASSUME NEW h, NEW T, NEW S \in SUBSET T, IsFiniteSet(ResponsesIn(h, T))
    PROVE  /\ IsFiniteSet(ResponsesIn(h, S))
           /\ Spent(h, S) \in Nat
           /\ Spent(h, S) <= Spent(h, T)
<1>1. ResponsesIn(h, S) \subseteq ResponsesIn(h, T)
  BY DEF ResponsesIn
<1> QED BY <1>1, FS_Subset, FS_CardinalityType DEF Spent

LEMMA OneMoreResponse ==
    ASSUME NEW h \in Heeds, IsFiniteSet(ResponsesIn(h, Operations)), NEW o \in Operations, NEW g \in Heeds,
           \A q \in Operations : g[q].tokens = IF q = o THEN h[q].tokens + 1 ELSE h[q].tokens
    PROVE  /\ IsFiniteSet(ResponsesIn(g, Operations))
           /\ \A S \in SUBSET Operations :
                Spent(g, S) =
                    Spent(h, S) + (IF o \in S THEN 1 ELSE 0)
<1> DEFINE new == <<o, h[o].tokens + 1>>
<1>0. \A q \in Operations : h[q].tokens \in Nat /\ g[q].tokens \in Nat
  BY DEF Heeds
<1>1. ASSUME NEW S \in SUBSET Operations
      PROVE  /\ o \in S => ResponsesIn(g, S) = ResponsesIn(h, S) \cup {new} /\ new \notin ResponsesIn(h, S)
             /\ o \notin S => ResponsesIn(g, S) = ResponsesIn(h, S)
  <2>1. \A q, n : <<q, n>> \in ResponsesIn(h, S) <=> q \in S /\ n \in 1..h[q].tokens
    BY DEF ResponsesIn
  <2>2. \A q, n : <<q, n>> \in ResponsesIn(g, S) <=> q \in S /\ n \in 1..g[q].tokens
    BY DEF ResponsesIn
  <2>3. \A x \in ResponsesIn(h, S) \cup ResponsesIn(g, S) \cup {new} : \E q \in Operations, n \in Nat : x = <<q, n>>
    BY <1>0 DEF ResponsesIn
  <2>4. \A q \in Operations, n \in Nat :
            n \in 1..g[q].tokens <=> n \in 1..h[q].tokens \/ (q = o /\ n = h[o].tokens + 1)
    BY <1>0
  <2>5. h[o].tokens + 1 \notin 1..h[o].tokens
    BY <1>0
  <2>6. ASSUME NEW q \in Operations, NEW n \in Nat
        PROVE  <<q, n>> \in ResponsesIn(g, S) <=>
                    <<q, n>> \in ResponsesIn(h, S) \/ (q \in S /\ <<q, n>> = new)
    BY <2>1, <2>2, <2>4
  <2>7. new \notin ResponsesIn(h, S)
    BY <2>1, <2>5
  <2> HIDE DEF new
  <2>8. o \in S => ResponsesIn(g, S) = ResponsesIn(h, S) \cup {new}
    BY <2>3, <2>6 DEF new
  <2>9. o \notin S => ResponsesIn(g, S) = ResponsesIn(h, S)
    BY <2>3, <2>6 DEF new
  <2> QED BY <2>7, <2>8, <2>9
<1>2. ASSUME NEW S \in SUBSET Operations
      PROVE  Spent(g, S) = Spent(h, S) + (IF o \in S THEN 1 ELSE 0)
  <2>1. IsFiniteSet(ResponsesIn(h, S)) /\ Spent(h, S) \in Nat
    BY FewerResponses
  <2> HIDE DEF new
  <2>2. CASE o \in S
    BY <1>1, <2>1, <2>2, FS_AddElement DEF Spent
  <2>3. CASE o \notin S
    BY <1>1, <2>1, <2>3 DEF Spent
  <2> QED BY <2>2, <2>3
<1>3. IsFiniteSet(ResponsesIn(g, Operations))
  BY <1>1, FS_AddElement
<1> QED BY <1>2, <1>3

LEMMA ResponsesAdd ==
    ASSUME NEW h, NEW S \in SUBSET Operations, NEW o \in Operations \ S,
           IsFiniteSet(ResponsesIn(h, Operations))
    PROVE  Spent(h, S \cup {o}) =
                Spent(h, S) + Spent(h, {o})
<1> DEFINE most == ResponsesIn(h, S)
           its == ResponsesIn(h, {o})
<1>1. ResponsesIn(h, S \cup {o}) = most \cup its
  BY DEF ResponsesIn
<1>2. most \cap its = {}
  BY DEF ResponsesIn
<1>3. IsFiniteSet(most) /\ IsFiniteSet(its)
  BY FewerResponses
<1>4. Cardinality(most) \in Nat /\ Cardinality(its) \in Nat
  BY <1>3, FS_CardinalityType
<1> HIDE DEF most, its
<1>5. Cardinality(most \cup its) = Cardinality(most) + Cardinality(its) - Cardinality(most \cap its)
  BY <1>3, FS_Union
<1>6. Cardinality(most \cap its) = 0
  BY <1>2, FS_EmptySet
<1>7. Cardinality(most \cup its) = Cardinality(most) + Cardinality(its)
  BY <1>4, <1>5, <1>6
<1> QED BY <1>1, <1>7 DEF most, its, Spent

Names(h, S) == UNION {h[o].models : o \in S}

LEMMA OneMoreName ==
    ASSUME NEW S \in SUBSET Operations, NEW o \in Operations, NEW m \in Models,
           NEW h \in Heeds, NEW g \in Heeds, g[o].models = h[o].models \cup {m},
           \A q \in Operations \ {o} : g[q] = h[q]
    PROVE  /\ o \in S => Names(g, S) = Names(h, S) \cup {m}
           /\ o \notin S => Names(g, S) = Names(h, S)
<1>1. ASSUME NEW x PROVE x \in Names(g, S) <=> \E q \in S : x \in g[q].models
  BY DEF Names
<1>2. ASSUME NEW x PROVE x \in Names(h, S) <=> \E q \in S : x \in h[q].models
  BY DEF Names
<1>3. ASSUME NEW x, o \in S PROVE x \in Names(g, S) <=> x \in Names(h, S) \cup {m}
  BY <1>1, <1>2, <1>3
<1>4. ASSUME NEW x, o \notin S PROVE x \in Names(g, S) <=> x \in Names(h, S)
  BY <1>1, <1>2, <1>4
<1> QED BY <1>3, <1>4

(* A model that answers is named once.                                     *)
LEMMA NamedOnce ==
    ASSUME NEW s \in Seq(Models), M!IsInjective(s), NEW m \in Models, NEW t,
           t = IF M!Contains(s, m) THEN s ELSE Append(s, m)
    PROVE  t \in Seq(Models) /\ M!IsInjective(t) /\ M!ToSet(t) = M!ToSet(s) \cup {m}
<1>1. M!Contains(s, m) <=> \E i \in 1..Len(s) : s[i] = m
  BY DEF M!Contains
<1>2. CASE M!Contains(s, m)
  BY <1>1, <1>2 DEF M!ToSet
<1>3. CASE ~M!Contains(s, m)
  <2>1. /\ t \in Seq(Models) /\ Len(t) = Len(s) + 1 /\ t[Len(s) + 1] = m
        /\ \A i \in 1..Len(s) : t[i] = s[i]
    BY <1>3
  <2>2. DOMAIN t = 1..(Len(s) + 1) /\ DOMAIN s = 1..Len(s) /\ Len(s) \in Nat
    BY <2>1
  <2>3. M!IsInjective(t)
    BY <1>1, <1>3, <2>1, <2>2 DEF M!IsInjective
  <2>4. M!ToSet(t) = M!ToSet(s) \cup {m}
    BY <2>1, <2>2 DEF M!ToSet
  <2> QED BY <2>1, <2>3, <2>4
<1> QED BY <1>2, <1>3

-----------------------------------------------------------------------------
SpendTypes ==
    /\ kind \in [Operations -> {"ingest", "answer"}]
    /\ heard \in Heeds
    /\ summary \in [M!Providers -> [tokens : Nat, served : Seq(Models)]]
    /\ book \in [{"ingest", "answer"} -> [tokens : Nat, calls : Nat]]
    /\ IsFiniteSet(ResponsesIn(heard, Operations))

(* Who has no provider yet, or none at all, has heard nobody; an answer    *)
(* has a provider of its own.                                              *)
UnbegunIsUnheard ==
    \A o \in Operations :
        /\ op[o].at = "idle" => via[o] = M!NoProvider
        /\ via[o] = M!NoProvider =>
            /\ op[o].at \in {"idle", "done"}
            /\ heard[o].tokens = 0 /\ heard[o].models = {}

ProviderIsOfKind ==
    \A o \in Operations :
        via[o] # M!NoProvider => IF kind[o] = "answer" THEN via[o] = o ELSE via[o] \in 1..MaxOpens

(* What SpendIsCounted says of the providers and of the totals.            *)
ProvidersCount ==
    \A p \in M!Providers :
        /\ summary[p].tokens = Spent(heard, M!Through(p))
        /\ M!IsInjective(summary[p].served)
        /\ M!ToSet(summary[p].served) = UNION {heard[o].models : o \in M!Through(p)}

TotalsCount ==
    /\ book["answer"].tokens = Spent(heard, M!Entered(M!Of("answer")))
    /\ book["ingest"].tokens >= Spent(heard, M!Entered(M!Of("ingest")))
    /\ (\A o \in M!Entered(M!Of("ingest")) : M!Alone(o)) =>
        book["ingest"].tokens = Spent(heard, M!Entered(M!Of("ingest")))

(* The inductive invariant.                                                *)
SpendInv == SpendTypes /\ UnbegunIsUnheard /\ ProviderIsOfKind /\ ProvidersCount /\ TotalsCount

LEMMA CountsAreSpend == ProvidersCount /\ TotalsCount => M!SpendIsCounted
BY DEF ProvidersCount, TotalsCount, Spent, ResponsesIn, M!SpendIsCounted, M!HeardBy, M!Responses,
       M!Cardinality, Cardinality

LEMMA InitSpend == ASSUME M!ModelAssumption, M!Init PROVE SpendInv
<1>1. \A S \in SUBSET Operations : ResponsesIn(heard, S) = {}
  BY DEF M!Init, ResponsesIn
<1>2. SpendTypes
  <2>1. IsFiniteSet(ResponsesIn(heard, Operations))
    BY <1>1, FS_EmptySet
  <2> QED BY <2>1 DEF M!Init, SpendTypes, Heeds
<1>3. UnbegunIsUnheard /\ ProviderIsOfKind
  BY DEF M!Init, M!Idle, UnbegunIsUnheard, ProviderIsOfKind
<1>4. \A S \in SUBSET Operations : Spent(heard, S) = 0
  BY <1>1, FS_EmptySet DEF Spent
<1>5. \A p \in M!Providers :
        /\ M!Through(p) \in SUBSET Operations
        /\ summary[p].tokens = 0 /\ summary[p].served = <<>>
        /\ \A o \in Operations : heard[o].models = {}
  BY DEF M!Init, M!Through
<1>6. M!IsInjective(<<>>) /\ M!ToSet(<<>>) = {}
  BY DEF M!IsInjective, M!ToSet
<1>7. \A k \in {"ingest", "answer"} : book[k].tokens = 0 /\ M!Entered(M!Of(k)) \in SUBSET Operations
  BY DEF M!Init, M!Entered, M!Of
<1>8. \A p \in M!Providers : UNION {heard[o].models : o \in M!Through(p)} = {}
  BY <1>5
<1>9. ProvidersCount /\ TotalsCount
  BY <1>4, <1>5, <1>6, <1>7, <1>8 DEF ProvidersCount, TotalsCount
<1> QED BY <1>2, <1>3, <1>9 DEF SpendInv

(* A step in which nobody is heard and nothing is entered.                 *)
LEMMA NothingIsSpent ==
    ASSUME SpendInv, UNCHANGED <<kind, via, summary, book, heard>>,
           \A o \in Operations :
                /\ op'[o].at = "idle" => op[o].at = "idle"
                /\ via[o] # M!NoProvider => (op'[o].at = "done" <=> op[o].at = "done")
                /\ via[o] = M!NoProvider => op'[o].at \in {"idle", "done"}
    PROVE  SpendInv'
<1>1. SpendTypes' /\ UnbegunIsUnheard' /\ ProviderIsOfKind'
  BY DEF SpendInv, SpendTypes, UnbegunIsUnheard, ProviderIsOfKind, M!Providers, M!NoProvider
<1>2. /\ \A p : M!Through(p)' = M!Through(p)
      /\ \A k : M!Of(k)' = M!Of(k)
      /\ \A o : M!Alone(o)' <=> M!Alone(o)
  BY DEF M!Through, M!Of, M!Alone
<1>3. \A k : M!Entered(M!Of(k))' = M!Entered(M!Of(k))
  BY <1>2 DEF M!Entered, M!Of, M!NoProvider
<1>4. ProvidersCount' /\ TotalsCount'
  BY <1>2, <1>3 DEF SpendInv, ProvidersCount, TotalsCount, M!Providers
<1> QED BY <1>1, <1>4 DEF SpendInv

(* Who begins has heard nobody, so that its provider counts it.            *)
LEMMA BeginSpends ==
    ASSUME M!ModelAssumption, CallInv, SpendInv, NEW o \in Operations, M!Begin(o) PROVE SpendInv'
<1>1. /\ op' = [op EXCEPT ![o].at = "ready"] /\ op[o].at = "idle"
      /\ via' = [via EXCEPT ![o] = IF kind[o] = "answer" THEN o ELSE opened]
      /\ UNCHANGED <<kind, summary, book, heard>>
  BY DEF M!Begin, M!Goto
<1>2. op'[o].at = "ready" /\ \A q \in Operations \ {o} : op'[q] = op[q] /\ via'[q] = via[q]
  BY <1>1 DEF CallInv, CallTypes
<1>3. /\ via'[o] = IF kind[o] = "answer" THEN o ELSE opened
      /\ opened \in 1..MaxOpens /\ via'[o] # M!NoProvider
  BY <1>1 DEF CallInv, CallTypes, M!NoProvider, M!ModelAssumption
<1>4. via[o] = M!NoProvider /\ heard[o].tokens = 0 /\ heard[o].models = {}
  BY <1>1 DEF SpendInv, UnbegunIsUnheard
<1>5. SpendTypes' /\ UnbegunIsUnheard' /\ ProviderIsOfKind'
  BY <1>1, <1>2, <1>3 DEF SpendInv, SpendTypes, UnbegunIsUnheard, ProviderIsOfKind, M!Providers, M!NoProvider
<1>6. ResponsesIn(heard, {o}) = {}
  BY <1>4 DEF ResponsesIn
<1>7. ASSUME NEW p \in M!Providers
      PROVE  /\ ResponsesIn(heard, M!Through(p)') = ResponsesIn(heard, M!Through(p))
             /\ UNION {heard[q].models : q \in M!Through(p)'} = UNION {heard[q].models : q \in M!Through(p)}
  <2>1. M!Through(p) \subseteq M!Through(p)' /\ M!Through(p)' \subseteq M!Through(p) \cup {o}
    <3>1. p # M!NoProvider
      BY DEF M!Providers, M!NoProvider, M!ModelAssumption
    <3> QED BY <1>2, <1>4, <3>1 DEF M!Through
  <2> QED BY <1>4, <1>6, <2>1 DEF ResponsesIn
<1>8. ProvidersCount'
  BY <1>1, <1>7 DEF SpendInv, ProvidersCount, M!Providers, Spent
<1>9. \A k : M!Entered(M!Of(k))' = M!Entered(M!Of(k))
  BY <1>1, <1>2, <1>4 DEF M!Entered, M!Of
<1>10. \A q \in M!Entered(M!Of("ingest")) : M!Alone(q)' => M!Alone(q)
  BY <1>1, <1>2, <1>4 DEF M!Entered, M!Of, M!Alone
<1>11. TotalsCount'
  BY <1>1, <1>9, <1>10 DEF SpendInv, TotalsCount
<1> QED BY <1>5, <1>8, <1>11 DEF SpendInv

(* Each response is counted once, and names its model.                     *)
LEMMA HeardSpends ==
    ASSUME M!ModelAssumption, CallInv, SpendInv, NEW o \in Operations,
           NEW m \in Models, NEW text, NEW reason, M!Heard(o, m, text, reason),
           op[o].at = "asking", UNCHANGED <<kind, via, book>>,
           op'[o].at \in {"asking", "said", "error"}, \A q \in Operations \ {o} : op'[q] = op[q]
    PROVE  SpendInv'
<1>1. /\ via[o] \in M!Providers /\ via[o] # M!NoProvider
      /\ summary' = [summary EXCEPT ![via[o]] = M!Recorded(@, m)]
      /\ heard' = [heard EXCEPT ![o] = [tokens |-> @.tokens + 1, models |-> @.models \cup {m}]]
  <2>1. via[o] \in M!Providers
    BY DEF CallInv, ReadsAfter
  <2> QED BY <2>1 DEF M!Heard, M!Counts, M!Providers, M!NoProvider, M!ModelAssumption
<1>2. /\ heard' \in Heeds
      /\ heard'[o].tokens = heard[o].tokens + 1 /\ heard'[o].models = heard[o].models \cup {m}
      /\ \A q \in Operations \ {o} : heard'[q] = heard[q]
  BY <1>1 DEF SpendInv, SpendTypes, Heeds
<1>3. /\ IsFiniteSet(ResponsesIn(heard', Operations))
      /\ \A S \in SUBSET Operations :
            Spent(heard', S) =
                Spent(heard, S) + (IF o \in S THEN 1 ELSE 0)
  <2>1. \A q \in Operations :
            heard'[q].tokens = IF q = o THEN heard[q].tokens + 1 ELSE heard[q].tokens
    BY <1>2
  <2> QED BY <1>2, <2>1, OneMoreResponse DEF SpendInv, SpendTypes
<1>4. ASSUME NEW p \in M!Providers
      PROVE  /\ summary'[p] \in [tokens : Nat, served : Seq(Models)]
             /\ summary'[p].tokens = summary[p].tokens + (IF p = via[o] THEN 1 ELSE 0)
             /\ M!IsInjective(summary'[p].served)
             /\ M!ToSet(summary'[p].served) =
                    M!ToSet(summary[p].served) \cup (IF p = via[o] THEN {m} ELSE {})
  <2>1. summary[p] \in [tokens : Nat, served : Seq(Models)] /\ M!IsInjective(summary[p].served)
    BY DEF SpendInv, SpendTypes, ProvidersCount
  <2>2. CASE p = via[o]
    <3>1. summary'[p] = [tokens |-> summary[p].tokens + 1,
                         served |-> IF M!Contains(summary[p].served, m) THEN summary[p].served
                                    ELSE Append(summary[p].served, m)]
      BY <1>1, <2>2 DEF M!Recorded, SpendInv, SpendTypes
    <3> DEFINE named == IF M!Contains(summary[p].served, m) THEN summary[p].served
                        ELSE Append(summary[p].served, m)
    <3>2. named \in Seq(Models) /\ M!IsInjective(named)
          /\ M!ToSet(named) = M!ToSet(summary[p].served) \cup {m}
      BY <2>1, NamedOnce
    <3> HIDE DEF named
    <3>3. summary'[p] = [tokens |-> summary[p].tokens + 1, served |-> named]
      BY <3>1 DEF named
    <3> QED BY <2>1, <2>2, <3>2, <3>3
  <2>3. CASE p # via[o]
    <3>1. summary'[p] = summary[p]
      BY <1>1, <2>3 DEF SpendInv, SpendTypes
    <3> QED BY <2>1, <2>3, <3>1
  <2> QED BY <2>2, <2>3
<1>5. SpendTypes'
  <2>1. DOMAIN summary' = M!Providers /\ summary' = [p \in M!Providers |-> summary'[p]]
    BY <1>1 DEF SpendInv, SpendTypes
  <2> QED BY <1>2, <1>3, <1>4, <2>1 DEF SpendInv, SpendTypes, M!Providers
<1>6. UnbegunIsUnheard' /\ ProviderIsOfKind'
  BY <1>1, <1>2 DEF SpendInv, UnbegunIsUnheard, ProviderIsOfKind, M!Providers, M!NoProvider
<1>7. /\ \A p : M!Through(p)' = M!Through(p) /\ M!Through(p) \in SUBSET Operations
      /\ \A p : o \in M!Through(p) <=> p = via[o]
      /\ \A q : M!Alone(q)' <=> M!Alone(q)
      /\ \A k : M!Of(k)' = M!Of(k)
  BY DEF M!Through, M!Alone, M!Of
<1>8. ProvidersCount'
  <2>1. ASSUME NEW p \in M!Providers
        PROVE  summary'[p].tokens = Spent(heard', M!Through(p))
    <3>1. summary[p].tokens = Spent(heard, M!Through(p))
      BY DEF SpendInv, ProvidersCount
    <3> QED BY <1>3, <1>4, <1>7, <3>1
  <2>3. ASSUME NEW p \in M!Providers
        PROVE  M!ToSet(summary'[p].served) = UNION {heard'[q].models : q \in M!Through(p)}
    <3>1. M!ToSet(summary[p].served) = Names(heard, M!Through(p))
      BY DEF SpendInv, ProvidersCount, Names
    <3>2. M!Through(p) \in SUBSET Operations /\ heard \in Heeds
      BY <1>7 DEF SpendInv, SpendTypes
    <3>3. /\ o \in M!Through(p) => Names(heard', M!Through(p)) = Names(heard, M!Through(p)) \cup {m}
          /\ o \notin M!Through(p) => Names(heard', M!Through(p)) = Names(heard, M!Through(p))
      BY <1>2, <3>2, OneMoreName
    <3>4. o \in M!Through(p) <=> p = via[o]
      BY <1>7
    <3>5. M!ToSet(summary'[p].served) = Names(heard', M!Through(p))
      <4>1. CASE p = via[o]
        BY <1>4, <3>1, <3>3, <3>4, <4>1
      <4>2. CASE p # via[o]
        <5>1. M!ToSet(summary'[p].served) = M!ToSet(summary[p].served) \cup {}
          BY <1>4, <4>2
        <5> QED BY <3>1, <3>3, <3>4, <4>2, <5>1
      <4> QED BY <4>1, <4>2
    <3> QED BY <3>5 DEF Names
  <2> QED BY <1>4, <1>7, <2>1, <2>3 DEF ProvidersCount, M!Providers
<1>9. \A k : /\ M!Entered(M!Of(k))' = M!Entered(M!Of(k))
             /\ M!Entered(M!Of(k)) \in SUBSET Operations /\ o \notin M!Entered(M!Of(k))
  BY <1>7 DEF M!Entered, M!Of, M!NoProvider
<1>10. \A k : Spent(heard', M!Entered(M!Of(k))) = Spent(heard, M!Entered(M!Of(k)))
  <2> SUFFICES ASSUME NEW k
               PROVE  ResponsesIn(heard', M!Entered(M!Of(k))) = ResponsesIn(heard, M!Entered(M!Of(k)))
    BY DEF Spent
  <2>1. \A q \in M!Entered(M!Of(k)) : heard'[q] = heard[q]
    BY <1>2, <1>9
  <2> QED BY <2>1 DEF ResponsesIn
<1>11. TotalsCount'
  BY <1>7, <1>9, <1>10 DEF SpendInv, TotalsCount
<1> QED BY <1>5, <1>6, <1>8, <1>11 DEF SpendInv

(* What is entered is what the provider has counted, which is at least     *)
(* what the operation has heard.                                           *)
LEMMA FinishSpends ==
    ASSUME M!ModelAssumption, CallInv, SpendInv, NEW o \in Operations, M!Finish(o) PROVE SpendInv'
<1>1. /\ op' = [op EXCEPT ![o].at = "done"] /\ op[o].at = "ready"
      /\ book' = [book EXCEPT ![kind[o]] =
                   [tokens |-> @.tokens + summary[via[o]].tokens, calls |-> @.calls + 1]]
      /\ UNCHANGED <<kind, via, summary, heard>>
  BY DEF M!Finish, M!Goto, M!Folded
<1>2. op'[o].at = "done" /\ \A q \in Operations \ {o} : op'[q] = op[q]
  BY <1>1 DEF CallInv, CallTypes
<1>3. via[o] \in M!Providers /\ via[o] # M!NoProvider
  BY <1>1 DEF CallInv, ReadsAfter, M!Providers, M!NoProvider, M!ModelAssumption
<1>4. summary[via[o]].tokens \in Nat /\ kind[o] \in {"ingest", "answer"}
  BY <1>3 DEF SpendInv, SpendTypes
<1>5. /\ book' \in [{"ingest", "answer"} -> [tokens : Nat, calls : Nat]]
      /\ \A k \in {"ingest", "answer"} :
            book'[k].tokens = book[k].tokens + (IF k = kind[o] THEN summary[via[o]].tokens ELSE 0)
  BY <1>1, <1>4 DEF SpendInv, SpendTypes
<1>6. SpendTypes' /\ UnbegunIsUnheard' /\ ProviderIsOfKind'
  BY <1>1, <1>2, <1>3, <1>5 DEF SpendInv, SpendTypes, UnbegunIsUnheard, ProviderIsOfKind, M!Providers, M!NoProvider
<1>7. /\ \A p : M!Through(p)' = M!Through(p)
      /\ \A q : M!Alone(q)' <=> M!Alone(q)
      /\ \A k : M!Of(k)' = M!Of(k)
  BY <1>1 DEF M!Through, M!Alone, M!Of
<1>8. ProvidersCount'
  BY <1>1, <1>7 DEF SpendInv, ProvidersCount, M!Providers
<1>9. \A k \in {"ingest", "answer"} :
        /\ M!Entered(M!Of(k)) \in SUBSET (Operations \ {o})
        /\ M!Entered(M!Of(k))' =
                IF k = kind[o] THEN M!Entered(M!Of(k)) \cup {o} ELSE M!Entered(M!Of(k))
  BY <1>1, <1>2, <1>3 DEF M!Entered, M!Of
<1>10. \A k \in {"ingest", "answer"} :
        Spent(heard, M!Entered(M!Of(k))') = Spent(heard, M!Entered(M!Of(k))) + (IF k = kind[o] THEN Spent(heard, {o}) ELSE 0)
  <2> SUFFICES ASSUME NEW k \in {"ingest", "answer"}
               PROVE  Spent(heard, M!Entered(M!Of(k))') =
                        Spent(heard, M!Entered(M!Of(k))) + (IF k = kind[o] THEN Spent(heard, {o}) ELSE 0)
    OBVIOUS
  <2>2. IsFiniteSet(ResponsesIn(heard, Operations))
    BY DEF SpendInv, SpendTypes
  <2>3. Spent(heard, M!Entered(M!Of(k))) \in Nat
    BY <1>9, <2>2, FewerResponses
  <2>4. CASE k = kind[o]
    <3>1. Spent(heard, M!Entered(M!Of(k)) \cup {o}) = Spent(heard, M!Entered(M!Of(k))) + Spent(heard, {o})
      BY <1>9, <2>2, ResponsesAdd
    <3> QED BY <1>9, <2>4, <3>1
  <2>5. CASE k # kind[o]
    <3> QED BY <1>9, <2>3, <2>5
  <2> QED BY <2>4, <2>5
<1>11. /\ Spent(heard, {o}) \in Nat /\ Spent(heard, {o}) <= summary[via[o]].tokens
       /\ M!Through(via[o]) = {o} => Spent(heard, {o}) = summary[via[o]].tokens
  <2>1. summary[via[o]].tokens = Spent(heard, M!Through(via[o]))
    BY <1>3 DEF SpendInv, ProvidersCount
  <2>2. IsFiniteSet(ResponsesIn(heard, Operations)) /\ M!Through(via[o]) \in SUBSET Operations
    BY DEF SpendInv, SpendTypes, M!Through
  <2>3. {o} \in SUBSET M!Through(via[o])
    BY DEF M!Through
  <2>4. IsFiniteSet(ResponsesIn(heard, M!Through(via[o])))
    BY <2>2, FewerResponses
  <2>5. Spent(heard, {o}) \in Nat /\ Spent(heard, {o}) <= Spent(heard, M!Through(via[o]))
    BY <2>3, <2>4, FewerResponses
  <2> QED BY <2>1, <2>5
<1>12. kind[o] = "answer" => M!Through(via[o]) = {o}
  BY <1>3 DEF SpendInv, ProviderIsOfKind, M!Through, M!ModelAssumption, M!NoProvider
<1>13. kind[o] = "ingest" /\ M!Alone(o) => M!Through(via[o]) = {o}
  <2> SUFFICES ASSUME kind[o] = "ingest", M!Alone(o), NEW q \in Operations, via[q] = via[o] PROVE q = o
    BY DEF M!Through
  <2>1. via[o] \in 1..MaxOpens
    BY <1>3 DEF SpendInv, ProviderIsOfKind
  <2>2. kind[q] # "answer"
    BY <1>3, <2>1 DEF SpendInv, ProviderIsOfKind, M!ModelAssumption
  <2>3. kind[q] = "ingest"
    BY <2>2 DEF SpendInv, SpendTypes
  <2> QED BY <2>3 DEF M!Alone, M!Of
<1>14. /\ book["answer"].tokens = Spent(heard, M!Entered(M!Of("answer")))
       /\ book["ingest"].tokens >= Spent(heard, M!Entered(M!Of("ingest")))
       /\ (\A q \in M!Entered(M!Of("ingest")) : M!Alone(q)) =>
            book["ingest"].tokens = Spent(heard, M!Entered(M!Of("ingest")))
  BY DEF SpendInv, TotalsCount
<1>15. \A k \in {"ingest", "answer"} : Spent(heard, M!Entered(M!Of(k))) \in Nat /\ book[k].tokens \in Nat
  BY <1>9, FewerResponses DEF SpendInv, SpendTypes
<1>16. CASE kind[o] = "answer"
  <2>1. Spent(heard, M!Entered(M!Of("answer"))') = Spent(heard, M!Entered(M!Of("answer"))) + summary[via[o]].tokens
    BY <1>10, <1>11, <1>12, <1>16
  <2>2. Spent(heard, M!Entered(M!Of("ingest"))') = Spent(heard, M!Entered(M!Of("ingest")))
    BY <1>10, <1>15, <1>16
  <2>3. book'["answer"].tokens = book["answer"].tokens + summary[via[o]].tokens
        /\ book'["ingest"].tokens = book["ingest"].tokens
    BY <1>5, <1>15, <1>16
  <2>4. M!Entered(M!Of("ingest"))' = M!Entered(M!Of("ingest"))
    BY <1>9, <1>16
  <2> QED BY <1>1, <1>6, <1>7, <1>8, <1>14, <2>1, <2>2, <2>3, <2>4 DEF SpendInv, TotalsCount
<1>17. CASE kind[o] = "ingest"
  <2>1. Spent(heard, M!Entered(M!Of("answer"))') = Spent(heard, M!Entered(M!Of("answer")))
    BY <1>10, <1>15, <1>17
  <2>2. Spent(heard, M!Entered(M!Of("ingest"))') = Spent(heard, M!Entered(M!Of("ingest"))) + Spent(heard, {o})
    BY <1>10, <1>17
  <2>3. book'["answer"].tokens = book["answer"].tokens
        /\ book'["ingest"].tokens = book["ingest"].tokens + summary[via[o]].tokens
    BY <1>5, <1>15, <1>17
  <2>4. M!Entered(M!Of("ingest"))' = M!Entered(M!Of("ingest")) \cup {o}
    BY <1>9, <1>17
  <2>5. book'["ingest"].tokens >= Spent(heard, M!Entered(M!Of("ingest"))')
    BY <1>4, <1>11, <1>14, <1>15, <2>2, <2>3
  <2>6. (\A q \in M!Entered(M!Of("ingest"))' : M!Alone(q)') =>
            book'["ingest"].tokens = Spent(heard, M!Entered(M!Of("ingest"))')
    BY <1>7, <1>11, <1>13, <1>14, <1>17, <2>2, <2>3, <2>4
  <2> QED BY <1>1, <1>6, <1>8, <1>14, <2>1, <2>3, <2>5, <2>6 DEF SpendInv, TotalsCount
<1> QED BY <1>4, <1>16, <1>17

LEMMA NextSpend == ASSUME M!ModelAssumption, CallInv, SpendInv, [M!Next]_M!vars PROVE SpendInv'
<1>1. CASE UNCHANGED M!vars
  <2>1. UNCHANGED <<kind, via, summary, book, heard>> /\ UNCHANGED op
    BY <1>1 DEF M!vars
  <2> QED BY <2>1, NothingIsSpent DEF SpendInv, UnbegunIsUnheard
<1>2. CASE M!Reopen
  BY <1>2, NothingIsSpent DEF M!Reopen, SpendInv, UnbegunIsUnheard
<1>3. ASSUME NEW o \in Operations, NEW state, op' = [op EXCEPT ![o] = state],
             UNCHANGED <<kind, via, summary, book, heard>>,
             \/ op[o].at = "idle" /\ state.at = "done"
             \/ /\ op[o].at \in {"ready", "asking", "said", "error"}
                /\ state.at \in {"ready", "asking", "error", "failed"}
      PROVE  SpendInv'
  <2>1. op'[o] = state /\ \A q \in Operations \ {o} : op'[q] = op[q]
    BY <1>3 DEF CallInv, CallTypes
  <2>2. /\ op[o].at = "idle" => via[o] = M!NoProvider
        /\ op[o].at \in {"ready", "asking", "said", "error"} => via[o] # M!NoProvider
    BY DEF SpendInv, UnbegunIsUnheard
  <2> QED BY <1>3, <2>1, <2>2, NothingIsSpent DEF SpendInv, UnbegunIsUnheard
<1>4. ASSUME NEW o \in Operations, NEW step PROVE [op[o] EXCEPT !.at = step].at = step
  BY DEF CallInv, CallTypes
<1>5. ASSUME NEW o \in Operations, M!Plain(o) \/ M!Break(o) \/ M!FallBack(o) \/ M!Fail(o) \/ M!ReadFinish(o)
      PROVE  SpendInv'
  <2>1. PICK step \in {"done", "error", "ready", "failed"} :
            /\ op' = [op EXCEPT ![o] = [op[o] EXCEPT !.at = step]]
            /\ UNCHANGED <<kind, via, summary, book, heard>>
            /\ \/ op[o].at = "idle" /\ step = "done"
               \/ /\ op[o].at \in {"ready", "asking", "said", "error"}
                  /\ step \in {"ready", "asking", "error", "failed"}
    BY <1>5 DEF M!Plain, M!Break, M!FallBack, M!Fail, M!ReadFinish, M!Goto
  <2> QED BY <1>3, <1>4, <2>1
<1>6. ASSUME NEW o \in Operations, M!Ask(o) PROVE SpendInv'
  BY <1>3, <1>6 DEF M!Ask
<1>7. ASSUME NEW o \in Operations, M!Reject(o) PROVE SpendInv'
  <2>1. \/ op' = [op EXCEPT ![o] = [at |-> "asking", policy |-> op[o].policy + 1, empty |-> 0]]
        \/ op' = [op EXCEPT ![o] = [op[o] EXCEPT !.at = "error"]]
    BY <1>7 DEF M!Reject
  <2>2. op[o].at = "asking" /\ UNCHANGED <<kind, via, summary, book, heard>>
    BY <1>7 DEF M!Reject
  <2> QED BY <1>3, <1>4, <2>1, <2>2
<1>8. ASSUME NEW o \in Operations, M!Text(o) PROVE SpendInv'
  <2>1. op' = [op EXCEPT ![o] = [op[o] EXCEPT !.at = "said"]] /\ op[o].at = "asking"
        /\ UNCHANGED <<kind, via, book>>
    BY <1>8 DEF M!Text, M!Goto
  <2>2. op'[o].at = "said" /\ \A q \in Operations \ {o} : op'[q] = op[q]
    BY <2>1 DEF CallInv, CallTypes
  <2> QED BY <1>8, <2>1, <2>2, HeardSpends DEF M!Text
<1>9. ASSUME NEW o \in Operations, M!Empty(o) PROVE SpendInv'
  <2>1. op[o].at = "asking" /\ UNCHANGED <<kind, via, book>>
    BY <1>9 DEF M!Empty
  <2>2. \/ op' = [op EXCEPT ![o] = [op[o] EXCEPT !.empty = op[o].empty + 1]]
        \/ \E step \in {"said", "error"} : op' = [op EXCEPT ![o] = [op[o] EXCEPT !.at = step]]
    <3>1. CASE sdk = "openai"
      <4>1. CASE op[o].empty < EmptyRetries
        BY <1>9, <3>1, <4>1 DEF M!Empty
      <4>2. CASE ~(op[o].empty < EmptyRetries)
        BY <1>9, <3>1, <4>2 DEF M!Empty
      <4> QED BY <4>1, <4>2
    <3>2. CASE sdk # "openai"
      BY <1>9, <3>2 DEF M!Empty, M!Goto
    <3> QED BY <3>1, <3>2
  <2>3. op'[o].at \in {"asking", "said", "error"} /\ \A q \in Operations \ {o} : op'[q] = op[q]
    BY <2>1, <2>2 DEF CallInv, CallTypes
  <2> QED BY <1>9, <2>1, <2>3, HeardSpends DEF M!Empty
<1> QED BY <1>1, <1>2, <1>5, <1>6, <1>7, <1>8, <1>9, BeginSpends, FinishSpends DEF M!Next

(* "what this deployment has spent" (server/routes/usage.py:1): for any    *)
(* number of operations, models, retries and openings of the store, each   *)
(* provider counts every response it gets, once, and names who gave it;    *)
(* the answers' total is what they cost, the ingestions' never less, and   *)
(* exact where no two of them shared a provider.                           *)
THEOREM ResponsesStayCounted == Spec => []ResponsesAreCounted
<1> DEFINE Inv == part = "models" => CallInv /\ SpendInv
<1>1. Init => Inv
  BY ProcessAssumptions, InitCalls, InitSpend DEF Init
<1>2. Inv /\ [Next]_vars => Inv'
  <2> SUFFICES ASSUME Inv, [Next]_vars, part' = "models" PROVE CallInv' /\ SpendInv'
    OBVIOUS
  <2>1. part = "models" /\ (M!Next \/ UNCHANGED M!vars)
    BY DEF Next, vars, modelVars, M!vars
  <2> QED BY <2>1, ProcessAssumptions, NextCalls, NextSpend
<1>3. Inv => ResponsesAreCounted
  BY CountsAreSpend DEF SpendInv, ResponsesAreCounted
<1> QED BY <1>1, <1>2, <1>3, PTL DEF Spec

-----------------------------------------------------------------------------
(* McpBackend: one search, of either mode.                                 *)


LEMMA PlacesAreFinite ==
    ASSUME NEW n \in Nat, NEW S \in SUBSET (1..n) PROVE IsFiniteSet(S) /\ Cardinality(S) \in Nat
<1>1. IsFiniteSet(1..n)
  BY FS_Interval
<1> QED BY <1>1, FS_Subset, FS_CardinalityType

(* The first of a set of places.                                           *)
LEMMA AtMostTheFirst ==
    ASSUME NEW n \in Nat, NEW S \in SUBSET (1..n), NEW k \in Nat
    PROVE  IsFiniteSet(P!FirstOf(k, S)) /\ Cardinality(P!FirstOf(k, S)) <= k
<1> DEFINE F == P!FirstOf(k, S)
<1>0. \A T : P!Cardinality(T) = Cardinality(T)
  BY DEF P!Cardinality, Cardinality
<1>1. F \subseteq S /\ \A i \in F : Cardinality({j \in S : j < i}) < k
  BY <1>0 DEF P!FirstOf
<1>2. \A T \in SUBSET (1..n) : IsFiniteSet(T) /\ Cardinality(T) \in Nat
  BY PlacesAreFinite
<1>3. CASE F = {}
  BY <1>3, FS_EmptySet
<1>4. CASE F # {}
  <2> HIDE DEF F
  <2>0. F \in SUBSET (1..n)
    BY <1>1
  <2>1. {n - i : i \in F} \in SUBSET Nat /\ {n - i : i \in F} # {}
    <3>1. \A i \in F : n - i \in Nat
      <4>1. \A i \in 1..n : n - i \in Nat
        OBVIOUS
      <4> QED BY <2>0, <4>1
    <3> QED BY <1>4, <3>1
  <2>2. PICK l \in {n - i : i \in F} : \A m \in {n - i : i \in F} : l <= m
    BY <2>1, LeastNumber
  <2>3. PICK i \in F : l = n - i
    BY <2>2
  <2>4. \A j \in F : j <= i
    BY <1>1, <2>2, <2>3
  <2> DEFINE below == {j \in S : j < i}
  <2>5. F \subseteq below \cup {i} /\ i \notin below /\ below \in SUBSET (1..n)
    <3>1. \A j \in F : j \in S /\ j \in 1..n /\ (j = i \/ j < i)
      BY <1>1, <2>0, <2>4
    <3>2. i \notin below /\ below \subseteq S
      BY <2>0
    <3> QED BY <3>1, <3>2
  <2>6. IsFiniteSet(below) /\ Cardinality(below) \in Nat /\ Cardinality(below) < k
    BY <1>1, <1>2, <2>5
  <2> HIDE DEF below
  <2>7. IsFiniteSet(below \cup {i}) /\ Cardinality(below \cup {i}) = Cardinality(below) + 1
    BY <2>5, <2>6, FS_AddElement
  <2>8. Cardinality(F) <= Cardinality(below \cup {i}) /\ IsFiniteSet(F)
    BY <2>5, <2>7, FS_Subset
  <2>9. Cardinality(F) \in Nat
    BY <2>8, FS_CardinalityType
  <2> QED BY <2>6, <2>7, <2>8, <2>9 DEF F
<1> QED BY <1>3, <1>4

LEMMA NoMoreThanTheFirst ==
    ASSUME NEW n \in Nat, NEW S \in SUBSET (1..n), NEW k \in Nat \ {0},
           \A i \in S : i <= k
    PROVE  P!FirstOf(k, S) = S
<1>0. \A T : P!Cardinality(T) = Cardinality(T)
  BY DEF P!Cardinality, Cardinality
<1>1. ASSUME NEW i \in S PROVE Cardinality({j \in S : j < i}) < k
  <2>0. i \in 1..n /\ \A j \in S : j \in 1..n
    OBVIOUS
  <2>1. {j \in S : j < i} \subseteq 1..(i - 1)
    <3> SUFFICES ASSUME NEW j \in S, j < i PROVE j \in 1..(i - 1)
      OBVIOUS
    <3>1. i \in Int /\ j \in Int /\ 1 <= j
      BY <2>0
    <3> QED BY <3>1
  <2>2. IsFiniteSet(1..(i - 1)) /\ Cardinality(1..(i - 1)) = i - 1
    BY FS_Interval
  <2>3. Cardinality({j \in S : j < i}) <= i - 1 /\ IsFiniteSet({j \in S : j < i})
    BY <2>1, <2>2, FS_Subset
  <2>4. Cardinality({j \in S : j < i}) \in Nat
    BY <2>3, FS_CardinalityType
  <2> QED BY <2>3, <2>4
<1> QED BY <1>0, <1>1 DEF P!FirstOf

(* The two searches of one ranking.                                        *)
LEMMA SearchesAgree ==
    ASSUME P!McpAssumption, NEW n \in Nat, NEW ranked \in [1..n -> {"fact", "turn", "other"}],
           NEW k \in Nat \ {0}
    PROVE  LET here == P!LocalSearch(ranked, k)
               there == P!RemoteSearch(ranked, k)
           IN IF k <= DefaultLimit
              THEN /\ P!BeginsWith(here, there)
                   /\ P!Cardinality(here \ there) <=
                                  P!Cardinality(P!Places("turn", ranked, k) \cup P!Places("other", ranked, k))
              ELSE P!BeginsWith(there, here)
<1> DEFINE here == P!LocalSearch(ranked, k)
           there == P!RemoteSearch(ranked, k)
           near == P!Places("fact", ranked, k)
           far == P!Places("fact", ranked, DefaultLimit)
           rest == P!Places("turn", ranked, k) \cup P!Places("other", ranked, k)
<1>0. \A T : P!Cardinality(T) = Cardinality(T)
  BY DEF P!Cardinality, Cardinality
<1>1. /\ near \in SUBSET (1..n) /\ far \in SUBSET (1..n) /\ rest \in SUBSET (1..n)
      /\ \A i \in near : i <= k
      /\ DefaultLimit \in Nat
      /\ \A i \in far : i <= DefaultLimit
  BY DEF P!Places, P!McpAssumption
<1>2. there = near
  BY <1>1, NoMoreThanTheFirst DEF P!RemoteSearch, P!RemoteLimit
<1>3. here = P!FirstOf(k, far)
  BY DEF P!LocalSearch
<1>4. CASE k <= DefaultLimit
  <2>1. \A i \in 1..n : i \in near <=> i \in far /\ i <= k
    BY <1>1, <1>4 DEF P!Places
  <2>2. near \subseteq here
    <3> SUFFICES ASSUME NEW i \in near PROVE i \in here
      OBVIOUS
    <3>1. {j \in far : j < i} = {j \in near : j < i}
      BY <1>1, <2>1
    <3>2. i \in P!FirstOf(k, near)
      BY <1>1, NoMoreThanTheFirst
    <3> HIDE DEF near, far
    <3> QED BY <1>1, <1>3, <2>1, <3>1, <3>2 DEF P!FirstOf
  <2>3. P!BeginsWith(here, near)
    <3> HIDE DEF near, far, here
    <3>1. here \subseteq far
      BY <1>3 DEF P!FirstOf
    <3> QED BY <1>1, <2>1, <2>2, <3>1 DEF P!BeginsWith
  <2>4. Cardinality(here \ near) <= Cardinality(rest)
    <3> HIDE DEF near, far, here, rest
    <3>1. IsFiniteSet(here) /\ Cardinality(here) <= k /\ Cardinality(here) \in Nat /\ here \subseteq far
      BY <1>1, <1>3, AtMostTheFirst, FS_CardinalityType DEF P!FirstOf
    <3>2. IsFiniteSet(near) /\ IsFiniteSet(rest) /\ Cardinality(near) \in Nat /\ Cardinality(rest) \in Nat
      BY <1>1, PlacesAreFinite
    <3>3. Cardinality(here \ near) = Cardinality(here) - Cardinality(near)
      <4>1. here \cap near = near
        BY <2>2
      <4> QED BY <3>1, <3>2, <4>1, FS_Difference
    <3>4. CASE n <= k
      <4>1. here \ near = {}
        BY <1>1, <2>1, <3>1, <3>4
      <4>2. Cardinality(here \ near) = 0
        BY <4>1, FS_EmptySet
      <4> QED BY <3>2, <4>2
    <3>5. CASE n > k
      <4>1. near \cup rest = 1..k /\ near \cap rest = {}
        BY <3>5 DEF near, rest, P!Places
      <4>2. Cardinality(1..k) = k
        BY FS_Interval
      <4>3. Cardinality(near \cup rest) = Cardinality(near) + Cardinality(rest) - Cardinality(near \cap rest)
        BY <3>2, FS_Union
      <4>4. Cardinality(near \cap rest) = 0
        BY <4>1, FS_EmptySet
      <4>5. k = Cardinality(near) + Cardinality(rest)
        <5>1. Cardinality(near \cup rest) = k
          BY <4>1, <4>2
        <5> HIDE DEF near, rest
        <5> QED BY ONLY <3>2, <4>3, <4>4, <5>1
      <4> QED BY <3>1, <3>2, <3>3, <4>5
    <3> QED BY <1>1, <3>4, <3>5
  <2> QED BY <1>0, <1>2, <1>4, <2>3, <2>4
<1>5. CASE ~(k <= DefaultLimit)
  <2>0. \A i \in far : i <= k
    BY <1>1, <1>5
  <2>1. here = far
    <3> HIDE DEF far, here
    <3> QED BY <1>1, <1>3, <2>0, NoMoreThanTheFirst
  <2>2. P!BeginsWith(near, far)
    BY <1>1, <1>5 DEF P!BeginsWith, P!Places
  <2> QED BY <1>2, <1>5, <2>1, <2>2
<1> QED BY <1>4, <1>5

(* "a tool whose output depends on which mode the server happens to be in  *)
(* is a bug" (mcp_server/backend.py): for every ranking and every top_k.   *)
THEOREM ModesStayTheSame == Spec => []ModesAgree
<1>1. P!ModesFindTheSame
  <2> SUFFICES ASSUME NEW ranked \in P!Rankings, NEW k \in 1..MaxTopK
               PROVE  LET here == P!LocalSearch(ranked, k)
                          there == P!RemoteSearch(ranked, k)
                      IN IF k <= DefaultLimit
                         THEN /\ P!BeginsWith(here, there)
                              /\ P!Cardinality(here \ there) <=
                                  P!Cardinality(P!Places("turn", ranked, k) \cup P!Places("other", ranked, k))
                         ELSE P!BeginsWith(there, here)
    BY DEF P!ModesFindTheSame
  <2>1. PICK n \in 0..MaxRanked : ranked \in [1..n -> {"fact", "turn", "other"}]
    BY DEF P!Rankings, P!SeqOf
  <2>2. n \in Nat /\ k \in Nat \ {0} /\ P!McpAssumption
    BY ProcessAssumptions DEF P!McpAssumption
  <2> QED BY <2>1, <2>2, SearchesAgree
<1>2. ModesAgree
  BY <1>1 DEF ModesAgree
<1> QED BY <1>2, PTL

-----------------------------------------------------------------------------
(* Install.  A document has finitely many places.                          *)
IsFinal(says) == DOMAIN says \in SUBSET (Nat \ {0}) /\ IsFiniteSet(DOMAIN says)

LEMMA EndIsAfter ==
    ASSUME NEW says, IsFinal(says)
    PROVE  I!End(says) \in Nat \ {0} /\ \A p \in DOMAIN says : p \in Nat \ {0} /\ p < I!End(says)
<1> DEFINE S == {0} \cup DOMAIN says
<1>1. S \in SUBSET Int /\ IsFiniteSet(S) /\ S # {}
  BY FS_AddElement DEF IsFinal
<1>2. I!Max(S) \in S /\ \A y \in S : I!Max(S) >= y
  BY <1>1, GreatestNumber
<1>3. I!End(says) = I!Max(S) + 1
  BY DEF I!End
<1>4. S \subseteq Nat /\ DOMAIN says \subseteq Nat \ {0}
  BY DEF IsFinal
<1>5. \A y \in DOMAIN says : y \in S
  OBVIOUS
<1> HIDE DEF S
<1> DEFINE m == I!Max(S)
<1>6. m \in Nat /\ \A y \in DOMAIN says : y <= m
  BY <1>2, <1>4, <1>5
<1>7. I!End(says) = m + 1
  BY <1>3
<1> HIDE DEF m
<1> QED BY <1>4, <1>6, <1>7

LEMMA StartIsFirst ==
    ASSUME NEW says, IsFinal(says)
    PROVE  /\ I!Start(says) \in Nat \ {0} /\ I!Start(says) <= I!End(says)
           /\ I!Start(says) \in DOMAIN says => says[I!Start(says)].is = "table"
<1> DEFINE S == {p \in DOMAIN says : says[p].is = "table"} \cup {I!End(says)}
<1>1. S \in SUBSET Nat /\ S # {} /\ I!End(says) \in S
  BY EndIsAfter DEF IsFinal
<1>2. PICK l \in S : \A m \in S : l <= m
  BY <1>1, LeastNumber
<1>3. I!Start(says) \in S /\ \A m \in S : I!Start(says) <= m
  BY <1>2 DEF I!Start, I!Min
<1>4. \A p \in S : p \in Nat \ {0} /\ (p \in DOMAIN says => says[p].is = "table")
  BY EndIsAfter
<1> HIDE DEF S
<1> QED BY <1>1, <1>3, <1>4

-----------------------------------------------------------------------------
(* What is to stay in a document.                                          *)
Stays(x) == x.is = "user" /\ I!Spared(x.of)

LEMMA UserTells ==
    ASSUME NEW e, NEW f
    PROVE  /\ I!User(e) = I!User(f) <=> e = f
           /\ Stays(I!User(e)) <=> I!Spared(e)
           /\ I!User(e).is = "user" /\ I!User(e).of = e
BY DEF I!User, Stays

(* A document that has what stays of another, and only this, in its order, *)
(* keeps what the other kept.                                              *)
LEMMA KeepsMoved ==
    ASSUME NEW says, NEW new, NEW entries \in Seq(Entries), NEW to,
           I!Keeps(says, entries),
           \A p \in DOMAIN says : Stays(says[p]) => to[p] \in DOMAIN new /\ new[to[p]] = says[p],
           \A q \in DOMAIN new : Stays(new[q]) =>
                \E p \in DOMAIN says : Stays(says[p]) /\ q = to[p],
           \A p, q \in DOMAIN says : Stays(says[p]) /\ Stays(says[q]) /\ p < q => to[p] < to[q]
    PROVE  I!Keeps(new, entries)
<1> DEFINE Kept == {i \in DOMAIN entries : I!Spared(entries[i])}
           Old(i) == {p \in DOMAIN says : says[p] = I!User(entries[i])}
           New(i) == {p \in DOMAIN new : new[p] = I!User(entries[i])}
<1>1. /\ \A p \in I!UserPlaces(says) : I!Spared(says[p].of) => \E i \in Kept : p \in Old(i)
      /\ \A i \in Kept : \E p \in DOMAIN says : Old(i) = {p}
      /\ \A i, j \in Kept : i < j => \A p \in Old(i), q \in Old(j) : p < q
  BY DEF I!Keeps
<1>2. ASSUME NEW i \in Kept, NEW q \in New(i)
      PROVE  \E p \in Old(i) : q = to[p] /\ Stays(says[p])
  <2>1. Stays(new[q])
    BY <1>2, UserTells
  <2> QED BY <1>2, <2>1
<1>3. ASSUME NEW i \in Kept, NEW p \in Old(i) PROVE to[p] \in New(i) /\ Stays(says[p])
  <2>1. Stays(says[p])
    BY <1>3, UserTells
  <2> QED BY <1>3, <2>1
<1>4. ASSUME NEW q \in I!UserPlaces(new), I!Spared(new[q].of) PROVE \E i \in Kept : q \in New(i)
  <2>1. Stays(new[q]) /\ q \in DOMAIN new
    BY <1>4 DEF Stays, I!UserPlaces
  <2>2. PICK p \in DOMAIN says : Stays(says[p]) /\ q = to[p]
    BY <2>1
  <2>3. p \in I!UserPlaces(says) /\ I!Spared(says[p].of)
    BY <2>2 DEF Stays, I!UserPlaces
  <2>4. PICK i \in Kept : p \in Old(i)
    BY <1>1, <2>3
  <2> QED BY <1>3, <2>2, <2>4
<1>5. ASSUME NEW i \in Kept PROVE \E q \in DOMAIN new : New(i) = {q}
  <2>1. PICK p \in DOMAIN says : Old(i) = {p}
    BY <1>1
  <2>2. to[p] \in New(i)
    BY <1>3, <2>1
  <2>3. \A q \in New(i) : q = to[p]
    BY <1>2, <2>1
  <2> QED BY <2>2, <2>3
<1>6. ASSUME NEW i \in Kept, NEW j \in Kept, i < j, NEW q \in New(i), NEW r \in New(j) PROVE q < r
  <2>1. PICK p \in Old(i) : q = to[p] /\ Stays(says[p])
    BY <1>2
  <2>2. PICK s \in Old(j) : r = to[s] /\ Stays(says[s])
    BY <1>2
  <2>3. p < s
    BY <1>1, <1>6
  <2> QED BY <2>1, <2>2, <2>3
<1> HIDE DEF New, Kept
<1>7. /\ \A p \in I!UserPlaces(new) : I!Spared(new[p].of) => \E i \in Kept : p \in New(i)
      /\ \A i \in Kept : \E p \in DOMAIN new : New(i) = {p}
      /\ \A i, j \in Kept : i < j => \A p \in New(i), q \in New(j) : p < q
  BY <1>4, <1>5, <1>6
<1> QED BY <1>7 DEF I!Keeps, New, Kept

(* An entry more at the end.                                               *)
LEMMA WithMore ==
    ASSUME NEW says, IsFinal(says), NEW x
    PROVE  /\ IsFinal(I!With(says, x))
           /\ DOMAIN I!With(says, x) = DOMAIN says \cup {I!End(says)}
           /\ \A p \in DOMAIN says : I!With(says, x)[p] = says[p]
           /\ I!With(says, x)[I!End(says)] = x
<1>1. I!End(says) \in Nat \ {0} /\ I!End(says) \notin DOMAIN says
  BY EndIsAfter
<1>2. DOMAIN I!With(says, x) = DOMAIN says \cup {I!End(says)}
  BY DEF I!With
<1>3. IsFiniteSet(DOMAIN says \cup {I!End(says)})
  BY FS_AddElement DEF IsFinal
<1>4. IsFinal(I!With(says, x))
  BY <1>1, <1>2, <1>3 DEF IsFinal
<1> QED BY <1>1, <1>2, <1>4 DEF I!With

LEMMA KeepsMore ==
    ASSUME NEW says, IsFinal(says), NEW entries \in Seq(Entries), NEW e \in Entries,
           I!Keeps(says, entries), \A i \in DOMAIN entries : entries[i] # e
    PROVE  I!Keeps(I!With(says, I!User(e)), Append(entries, e))
<1>0. /\ DOMAIN I!With(says, I!User(e)) = DOMAIN says \cup {I!End(says)}
      /\ \A p \in DOMAIN says : I!With(says, I!User(e))[p] = says[p]
      /\ I!With(says, I!User(e))[I!End(says)] = I!User(e)
  BY ONLY WithMore, IsFinal(says)
<1> DEFINE more == Append(entries, e)
           new == I!With(says, I!User(e))
           n == Len(entries) + 1
           Kept == {i \in DOMAIN entries : I!Spared(entries[i])}
           Old(i) == {p \in DOMAIN says : says[p] = I!User(entries[i])}
           KeptNow == {i \in DOMAIN more : I!Spared(more[i])}
           New(i) == {p \in DOMAIN new : new[p] = I!User(more[i])}
<1>1. /\ \A p \in I!UserPlaces(says) : I!Spared(says[p].of) => \E i \in Kept : p \in Old(i)
      /\ \A i \in Kept : \E p \in DOMAIN says : Old(i) = {p}
      /\ \A i, j \in Kept : i < j => \A p \in Old(i), q \in Old(j) : p < q
  BY DEF I!Keeps
<1>2. /\ DOMAIN entries = 1..Len(entries) /\ DOMAIN more = 1..n /\ n \in DOMAIN more /\ n \notin DOMAIN entries
      /\ \A i \in DOMAIN entries : i \in DOMAIN more /\ more[i] = entries[i] /\ i < n
      /\ \A i \in DOMAIN more : i \in DOMAIN entries \/ i = n
      /\ more[n] = e
  OBVIOUS
<1>3. /\ DOMAIN new = DOMAIN says \cup {I!End(says)}
      /\ \A p \in DOMAIN says : new[p] = says[p] /\ p < I!End(says) /\ p # I!End(says)
      /\ new[I!End(says)] = I!User(e)
  <2>1. \A p \in DOMAIN says : p < I!End(says) /\ p # I!End(says)
    BY EndIsAfter
  <2>2. /\ DOMAIN new = DOMAIN says \cup {I!End(says)}
        /\ \A p \in DOMAIN says : new[p] = says[p]
        /\ new[I!End(says)] = I!User(e)
    BY <1>0
  <2> HIDE DEF new
  <2> QED BY <2>1, <2>2
<1> HIDE DEF more, new, n
<1>4. ASSUME NEW i \in DOMAIN entries PROVE New(i) = Old(i)
  <2>1. I!User(more[i]) = I!User(entries[i]) /\ I!User(entries[i]) # I!User(e)
    BY <1>2, UserTells
  <2> QED BY <1>3, <2>1
<1>5. ASSUME I!Spared(e) PROVE New(n) = {I!End(says)}
  <2>1. ASSUME NEW p \in DOMAIN says, says[p] = I!User(e) PROVE FALSE
    <3>1. p \in I!UserPlaces(says) /\ I!Spared(says[p].of)
      BY <1>5, <2>1, UserTells DEF I!UserPlaces
    <3>2. PICK i \in Kept : says[p] = I!User(entries[i])
      BY <1>1, <3>1
    <3>3. I!User(entries[i]) = I!User(e)
      BY <2>1, <3>2
    <3>4. entries[i] = e
      BY ONLY <3>3, UserTells
    <3> QED BY <3>2, <3>4
  <2> QED BY <1>2, <1>3, <2>1
<1>6. \A i \in KeptNow : i \in Kept \/ (i = n /\ I!Spared(e))
  BY <1>2
<1>7. \A i \in Kept : i \in KeptNow /\ i \in DOMAIN entries
  BY <1>2
<1>8. I!Spared(e) => n \in KeptNow
  BY <1>2
<1> HIDE DEF KeptNow, Kept, New, Old
<1>9. ASSUME NEW p \in I!UserPlaces(new), I!Spared(new[p].of) PROVE \E i \in KeptNow : p \in New(i)
  <2>1. CASE p \in DOMAIN says
    <3>1. p \in I!UserPlaces(says) /\ I!Spared(says[p].of)
      BY <1>3, <1>9, <2>1 DEF I!UserPlaces
    <3> QED BY <1>1, <1>4, <1>7, <3>1
  <2>2. CASE p = I!End(says)
    <3>1. I!Spared(e)
      BY <1>3, <1>9, <2>2, UserTells
    <3> QED BY <1>5, <1>8, <2>2, <3>1
  <2> QED BY <1>3, <1>9, <2>1, <2>2 DEF I!UserPlaces
<1>10. ASSUME NEW i \in KeptNow PROVE \E p \in DOMAIN new : New(i) = {p}
  <2>1. CASE i \in Kept
    <3>1. PICK p \in DOMAIN says : Old(i) = {p}
      BY <1>1, <2>1
    <3> QED BY <1>3, <1>4, <1>7, <2>1, <3>1
  <2>2. CASE i = n /\ I!Spared(e)
    BY <1>3, <1>5, <2>2
  <2> QED BY <1>6, <2>1, <2>2
<1>11. ASSUME NEW i \in KeptNow, NEW j \in KeptNow, i < j, NEW p \in New(i), NEW q \in New(j)
       PROVE  p < q
  <2>1. CASE i \in Kept /\ j \in Kept
    BY <1>1, <1>4, <1>7, <1>11, <2>1
  <2>2. CASE i \in Kept /\ j = n /\ I!Spared(e)
    <3>1. p \in DOMAIN says
      BY <1>4, <1>7, <2>2, <1>11 DEF Old
    <3>2. q = I!End(says)
      BY <1>5, <2>2, <1>11
    <3> QED BY <1>3, <3>1, <3>2
  <2>3. CASE i = n
    <3>1. j \in 1..n
      BY <1>2, <1>11 DEF KeptNow
    <3> QED BY <1>2, <1>11, <2>3, <3>1
  <2> QED BY <1>6, <1>11, <2>1, <2>2, <2>3
<1> QED BY <1>9, <1>10, <1>11 DEF I!Keeps, KeptNow, New, more, new

(* What is written of a document keeps what it kept.                       *)
LEMMA OursStaysOut ==
    ASSUME NEW c PROVE ~Stays(I!Ours(c)) /\ \A i \in 1..5 : ~Stays(I!Table(c)[i])
<1>1. ~Stays(I!Ours(c))
  BY DEF Stays, I!Ours
<1>2. ASSUME NEW i \in 1..5 PROVE I!Table(c)[i].is # "user"
  <2> DEFINE names == <<"table", "keys", "list", "env", "vars">>
  <2>1. names[1] # "user" /\ names[2] # "user" /\ names[3] # "user" /\ names[4] # "user"
        /\ names[5] # "user"
    BY Zenon
  <2>2. names[i] # "user"
    <3> HIDE DEF names
    <3>1. i = 1 \/ i = 2 \/ i = 3 \/ i = 4 \/ i = 5
      BY <1>2
    <3> QED BY <2>1, <3>1, Zenon
  <2>3. I!Table(c)[i].is = names[i]
    BY <1>2 DEF I!Table
  <2> QED BY <2>2, <2>3
<1> QED BY <1>1, <1>2 DEF Stays

LEMMA SpliceKeeps ==
    ASSUME NEW says, IsFinal(says), NEW entries \in Seq(Entries), NEW c
    PROVE  /\ IsFinal(I!Spliced(says, c))
           /\ I!Keeps(says, entries) => I!Keeps(I!Spliced(says, c), entries)
<1> DEFINE i == I!Start(says)
           after == I!After(says)
           new == I!Spliced(says, c)
           to == [p \in DOMAIN says |-> IF p < i THEN p ELSE p + 5]
<1>1. i \in Nat \ {0} /\ i <= I!End(says) /\ I!End(says) \in Nat \ {0}
      /\ \A p \in DOMAIN says : p \in Nat \ {0} /\ p < I!End(says)
      /\ (i \in DOMAIN says => says[i].is = "table")
  BY StartIsFirst, EndIsAfter
<1>2. after \subseteq DOMAIN says /\ \A p \in after : i < p
  <2>1. after \subseteq DOMAIN says
    BY DEF I!After
  <2>2. ASSUME NEW p \in after PROVE i < p
    <3>1. PICK q \in DOMAIN says : i < q /\ q <= p
      BY DEF I!After
    <3> QED BY <1>1, <2>1, <3>1
  <2> QED BY <2>1, <2>2
<1>3. ASSUME NEW p \in DOMAIN says, Stays(says[p]) PROVE p < i \/ p \in after
  <2>1. p # i
    BY <1>1, <1>3 DEF Stays
  <2>2. i < p => p \in after
    BY <1>1, <1>3 DEF I!After, I!Stops, Stays
  <2> QED BY <1>1, <2>1, <2>2
<1>4. /\ DOMAIN new = {q \in DOMAIN says : q < i} \cup (i..(i + 4)) \cup {q + 5 : q \in after}
      /\ \A p \in DOMAIN new : new[p] = IF p < i THEN says[p] ELSE
                                        IF p < i + 5 THEN I!Table(c)[p - i + 1] ELSE says[p - 5]
  BY DEF I!Spliced
<1> HIDE DEF i, after, new
<1>5. DOMAIN new \subseteq 1..(I!End(says) + 5)
  BY <1>1, <1>2, <1>4
<1>6. IsFinal(new)
  <2>1. I!End(says) + 5 \in Int
    BY <1>1
  <2>2. IsFiniteSet(1..(I!End(says) + 5))
    BY <2>1, FS_Interval
  <2>3. IsFiniteSet(DOMAIN new)
    BY <1>5, <2>2, FS_Subset
  <2>4. DOMAIN new \in SUBSET (Nat \ {0})
    BY <1>1, <1>5
  <2> QED BY <2>3, <2>4 DEF IsFinal
<1>7. ASSUME NEW p \in DOMAIN says, Stays(says[p])
      PROVE  to[p] \in DOMAIN new /\ new[to[p]] = says[p]
  <2>1. CASE p < i
    BY <1>4, <1>7, <2>1
  <2>2. CASE ~(p < i)
    <3>1. p \in after /\ to[p] = p + 5
      BY <1>3, <1>7, <2>2
    <3>2. p \in Nat /\ i < p /\ i \in Nat
      BY <1>1, <1>2, <3>1
    <3>3. p + 5 \in DOMAIN new
      BY <1>4, <3>1
    <3>4. ~(p + 5 < i) /\ ~(p + 5 < i + 5) /\ (p + 5) - 5 = p
      BY <3>2
    <3> QED BY <1>4, <3>1, <3>3, <3>4
  <2> QED BY <2>1, <2>2
<1>8. ASSUME NEW q \in DOMAIN new, Stays(new[q])
      PROVE  \E p \in DOMAIN says : Stays(says[p]) /\ q = to[p]
  <2>1. CASE q \in DOMAIN says /\ q < i
    BY <1>4, <1>8, <2>1
  <2>2. CASE q \in i..(i + 4)
    <3>1. ~(q < i) /\ q < i + 5 /\ q - i + 1 \in 1..5
      <4>1. i \in Nat
        BY <1>1
      <4> QED BY ONLY <2>2, <4>1
    <3>2. new[q] = I!Table(c)[q - i + 1]
      BY <1>4, <3>1
    <3> QED BY <1>8, <3>1, <3>2, OursStaysOut
  <2>3. CASE q \in {p + 5 : p \in after}
    <3>1. PICK p \in after : q = p + 5
      BY <2>3
    <3>2. p \in Nat /\ i < p /\ i \in Nat /\ p \in DOMAIN says
      BY <1>1, <1>2, <3>1
    <3>3. ~(q < i) /\ ~(q < i + 5) /\ q - 5 = p /\ ~(p < i)
      BY <3>1, <3>2
    <3>4. new[q] = says[p]
      BY <1>4, <1>8, <3>3
    <3> QED BY <1>8, <3>1, <3>2, <3>3, <3>4
  <2> QED BY <1>4, <1>8, <2>1, <2>2, <2>3
<1>9. ASSUME NEW p \in DOMAIN says, NEW q \in DOMAIN says, p < q PROVE to[p] < to[q]
  BY <1>1, <1>9
<1> HIDE DEF to
<1>10. I!Keeps(says, entries) => I!Keeps(new, entries)
  BY <1>7, <1>8, <1>9, KeepsMoved
<1> QED BY <1>6, <1>10 DEF new

LEMMA MergedKeeps ==
    ASSUME NEW says, IsFinal(says), NEW entries \in Seq(Entries), NEW c
    PROVE  /\ IsFinal(I!Merged(says, c))
           /\ I!Keeps(says, entries) => I!Keeps(I!Merged(says, c), entries)
<1> DEFINE theirs == {p \in DOMAIN says : ~I!IsOurs(says[p])}
           rest == I!Restrict(says, theirs)
           new == I!With(rest, I!Ours(c))
<1>1. CASE format = "toml"
  BY <1>1, SpliceKeeps DEF I!Merged
<1>2. CASE format # "toml"
  <2>1. DOMAIN rest = theirs /\ \A p \in theirs : rest[p] = says[p]
    BY DEF I!Restrict
  <2>2. IsFinal(rest)
    <3>1. IsFiniteSet(theirs)
      BY FS_Subset DEF IsFinal
    <3> QED BY <2>1, <3>1 DEF IsFinal
  <2>3. new = I!Merged(says, c)
    BY <1>2 DEF I!Merged
  <2>4. \A p \in DOMAIN says : Stays(says[p]) => p \in theirs
    BY DEF Stays, I!Spared, I!IsOurs
  <2> HIDE DEF theirs, rest
  <2>5. /\ IsFinal(new) /\ DOMAIN new = DOMAIN rest \cup {I!End(rest)}
        /\ \A p \in DOMAIN rest : new[p] = rest[p]
        /\ new[I!End(rest)] = I!Ours(c)
    BY ONLY WithMore, <2>2
  <2> HIDE DEF new
  <2> DEFINE to == [p \in DOMAIN says |-> p]
  <2>6. theirs \subseteq DOMAIN says
    BY DEF theirs
  <2>7. ASSUME NEW p \in DOMAIN says, Stays(says[p]) PROVE to[p] \in DOMAIN new /\ new[to[p]] = says[p]
    BY <2>1, <2>4, <2>5, <2>7
  <2>8. ASSUME NEW q \in DOMAIN new, Stays(new[q])
        PROVE  \E p \in DOMAIN says : Stays(says[p]) /\ q = to[p]
    <3>1. q \in theirs /\ new[q] = says[q]
      BY <2>1, <2>5, <2>8, OursStaysOut
    <3> QED BY <2>6, <2>8, <3>1
  <2>9. \A p, q \in DOMAIN says : p < q => to[p] < to[q]
    OBVIOUS
  <2> HIDE DEF to
  <2>10. I!Keeps(says, entries) => I!Keeps(new, entries)
    BY <2>7, <2>8, <2>9, KeepsMoved
  <2> QED BY <2>3, <2>5, <2>10
<1> QED BY <1>1, <1>2

-----------------------------------------------------------------------------
InstallTypes ==
    /\ I!InstallAssumption
    /\ install \in [Commands -> {"idle", "look", "copy", "copying", "load", "write", "writing",
                            "done", "refused", "dead"}]
    /\ owned \in Seq(Entries) /\ IsFinal(config.says)
    /\ DOMAIN doc = Commands /\ \A c \in Commands : IsFinal(doc[c])
    /\ crashes \in Nat

Past(c) == install[c] \in {"load", "write", "writing", "done", "refused"}

OneInstalls == ~overlapped => \A c, d \in Commands : I!Busy(c) /\ I!Busy(d) => c = d
WhoCrashedIsDead == crashes > 0 <=> \E c \in Commands : install[c] = "dead"
FirstIsOwned == \A i \in DOMAIN first : \E j \in DOMAIN owned : owned[j] = first[i]

(* What the backup, or the file and what is written to it, has.            *)
Secured == \A i \in DOMAIN first : I!Spared(first[i]) => I!Holds(backup, first[i])
Intact ==
    /\ (\A c \in Commands : install[c] # "writing") => I!Keeps(config.says, owned)
    /\ \A c \in Commands : install[c] \in {"write", "writing"} => I!Keeps(doc[c], owned)

IntactOrSecured ==
    ~overlapped => Intact \/ (Secured /\ crashes = 1) \/ crashes > 1

SecuredInTime ==
    ~overlapped /\ crashes = 0 =>
        /\ \A c \in Commands : Past(c) => Secured
        /\ backup.there /\ (\A c \in Commands : install[c] # "copying") => Secured

BackupFits ==
    /\ ~backup.there => backup.says = <<>>
    /\ ~config.there => config.says = <<>>
    /\ ~overlapped =>
        \A c \in Commands : /\ install[c] = "copy" => ~backup.there
                            /\ install[c] = "copying" => backup.says = <<>>
    /\ I!Begun /\ ~created => config.there
    /\ ~I!Begun => first = <<>> /\ ~created /\ ~backup.there /\ (config.there \/ owned = <<>>)

OnlyUsers(says) == \A p \in DOMAIN says : says[p].is = "user"
OursComesLater ==
    ~overlapped /\ ~created /\ crashes = 0 =>
        /\ (\A c \in Commands : ~Past(c)) => OnlyUsers(config.says)
        /\ (\E c \in Commands : Past(c)) =>
            backup.there /\ \A c \in Commands : install[c] \notin {"copy", "copying"}
        /\ OnlyUsers(backup.says)

InstallInv ==
    /\ InstallTypes /\ OneInstalls /\ WhoCrashedIsDead /\ FirstIsOwned
    /\ IntactOrSecured /\ SecuredInTime /\ BackupFits /\ OursComesLater

LEMMA KeptIsHeld ==
    ASSUME FirstIsOwned, I!Keeps(config.says, owned), NEW i \in DOMAIN first, I!Spared(first[i])
    PROVE  I!Holds(config, first[i])
<1>1. PICK j \in DOMAIN owned : owned[j] = first[i]
  BY DEF FirstIsOwned
<1>2. PICK p \in DOMAIN config.says : {q \in DOMAIN config.says : config.says[q] = I!User(owned[j])} = {p}
  BY <1>1 DEF I!Keeps
<1> QED BY <1>1, <1>2 DEF I!Holds

(* The same of the next state.                                             *)
LEMMA KeepsNext ==
    ASSUME format' = format
    PROVE  /\ I!Keeps(config'.says, owned') => I!Keeps(config.says, owned)'
           /\ \A c \in Commands : I!Keeps(doc'[c], owned') => I!Keeps(doc[c], owned)'
BY DEF I!Keeps, I!Spared, I!UserPlaces, I!User

LEMMA SecuredStays ==
    ASSUME format' = format, first' = first, backup'.says = backup.says, Secured
    PROVE  Secured'
BY DEF Secured, I!Spared, I!Holds, I!User

LEMMA InstallHolds == ASSUME InstallInv PROVE I!InstallKeepsTheUsers
<1>1. ASSUME I!Settled, ~overlapped, crashes = 0 PROVE I!Keeps(config.says, owned)
  BY <1>1 DEF InstallInv, IntactOrSecured, Intact, I!Settled, I!Busy
<1>2. ASSUME I!Settled, ~overlapped, crashes <= 1, NEW i \in DOMAIN first, I!Spared(first[i])
      PROVE  I!Holds(config, first[i]) \/ I!Holds(backup, first[i])
  <2>1. CASE Secured
    BY <1>2, <2>1 DEF Secured
  <2>2. CASE Intact
    <3>1. I!Keeps(config.says, owned)
      BY <1>2, <2>2 DEF Intact, I!Settled, I!Busy
    <3> QED BY <1>2, <3>1, KeptIsHeld DEF InstallInv
  <2> QED BY <1>2, <2>1, <2>2 DEF InstallInv, InstallTypes, IntactOrSecured
<1>3. ~overlapped /\ ~created /\ crashes = 0 => OnlyUsers(backup.says)
  BY DEF InstallInv, OursComesLater
<1> QED BY <1>1, <1>2, <1>3 DEF I!InstallKeepsTheUsers, OnlyUsers

LEMMA EmptyIsFinal == DOMAIN <<>> = {} /\ IsFinal(<<>>) /\ OnlyUsers(<<>>)
BY FS_EmptySet DEF IsFinal, OnlyUsers

LEMMA InitInstall == ASSUME I!InstallAssumption, I!Init PROVE InstallInv
<1>1. PICK n \in {0, 1} : owned \in [1..n -> Entries]
  <2>1. CASE owned = <<>>
    BY <2>1
  <2>2. CASE owned # <<>>
    <3>1. PICK e \in Entries : owned = <<e>>
      BY <2>2 DEF I!Init
    <3> QED BY <3>1
  <2> QED BY <2>1, <2>2
<1>2. owned \in Seq(Entries) /\ DOMAIN owned = 1..n
  BY <1>1
<1>3. config.says = [i \in DOMAIN owned |-> I!User(owned[i])]
  <2>1. CASE owned = <<>>
    BY <2>1 DEF I!Init, I!NoFile
  <2> QED BY <2>1 DEF I!Init, I!Whole
<1>4. IsFinal(config.says)
  <2>1. IsFiniteSet(1..n) /\ 1..n \subseteq Nat \ {0}
    BY FS_Interval
  <2> QED BY <1>2, <1>3, <2>1 DEF IsFinal
<1>5. InstallTypes
  BY <1>2, <1>4, EmptyIsFinal DEF I!Init, InstallTypes
<1>6. I!Keeps(config.says, owned)
  <2>1. \A i \in DOMAIN owned : {p \in DOMAIN config.says : config.says[p] = I!User(owned[i])} = {i}
    <3>1. n = 0 \/ n = 1
      BY <1>1
    <3> QED BY <1>2, <1>3, <3>1
  <2>2. \A p \in DOMAIN config.says : p \in DOMAIN owned /\ config.says[p] = I!User(owned[p])
    BY <1>3
  <2>3. DOMAIN config.says = DOMAIN owned
    BY <1>3
  <2>4. \A p \in I!UserPlaces(config.says) : I!Spared(config.says[p].of) => I!Spared(owned[p])
    BY <2>2, UserTells DEF I!UserPlaces
  <2> QED BY <2>1, <2>2, <2>3, <2>4 DEF I!Keeps, I!UserPlaces
<1>7. OnlyUsers(config.says)
  BY <1>3, UserTells DEF OnlyUsers
<1>8. /\ install = [c \in Commands |-> "idle"] /\ backup.there = FALSE /\ backup.says = <<>>
      /\ first = <<>> /\ created = FALSE /\ crashes = 0 /\ (config.there \/ owned = <<>>)
      /\ (~config.there => config.says = <<>>)
  BY DEF I!Init, I!NoFile, I!Whole
<1>9. OneInstalls /\ WhoCrashedIsDead /\ FirstIsOwned
  BY <1>8 DEF OneInstalls, I!Busy, WhoCrashedIsDead, FirstIsOwned
<1>10. IntactOrSecured /\ SecuredInTime
  BY <1>6, <1>8 DEF IntactOrSecured, Intact, SecuredInTime, Past
<1>11. BackupFits /\ OursComesLater
  BY <1>7, <1>8, EmptyIsFinal DEF BackupFits, I!Begun, OursComesLater, Past
<1> QED BY <1>5, <1>9, <1>10, <1>11 DEF InstallInv

-----------------------------------------------------------------------------
LEMMA UserSaves == ASSUME InstallInv, I!Save PROVE InstallInv'
<1>1. PICK e \in Entries :
        /\ \A i \in DOMAIN owned : owned[i] # e
        /\ config' = I!Whole(I!With(config.says, I!User(e))) /\ owned' = Append(owned, e)
        /\ overlapped' = (overlapped \/ \E c \in Commands : I!Busy(c))
        /\ UNCHANGED <<format, backup, install, doc, first, created, crashes>>
  BY DEF I!Save
<1>2. /\ config'.says = I!With(config.says, I!User(e)) /\ config'.there = TRUE
      /\ owned \in Seq(Entries) /\ owned' \in Seq(Entries) /\ IsFinal(config.says)
      /\ \A i \in DOMAIN owned : i \in DOMAIN owned' /\ owned'[i] = owned[i]
  BY <1>1 DEF InstallInv, InstallTypes, I!Whole
<1>3. /\ IsFinal(config'.says) /\ DOMAIN config'.says = DOMAIN config.says \cup {I!End(config.says)}
      /\ \A p \in DOMAIN config.says : config'.says[p] = config.says[p]
      /\ config'.says[I!End(config.says)] = I!User(e)
  <2>1. /\ IsFinal(I!With(config.says, I!User(e)))
        /\ DOMAIN I!With(config.says, I!User(e)) = DOMAIN config.says \cup {I!End(config.says)}
        /\ \A p \in DOMAIN config.says : I!With(config.says, I!User(e))[p] = config.says[p]
        /\ I!With(config.says, I!User(e))[I!End(config.says)] = I!User(e)
    BY ONLY <1>2, WithMore
  <2> QED BY <1>2, <2>1
<1>4. InstallTypes' /\ OneInstalls' /\ WhoCrashedIsDead'
  BY <1>1, <1>2, <1>3 DEF InstallInv, InstallTypes, OneInstalls, WhoCrashedIsDead, I!Busy, IsFinal,
                          I!InstallAssumption
<1>5. FirstIsOwned'
  BY <1>1, <1>2 DEF InstallInv, FirstIsOwned
<1>6. Secured => Secured'
  BY <1>1, SecuredStays
<1>7. ASSUME Intact, ~overlapped' PROVE Intact'
  <2>1. \A c \in Commands : install[c] \notin {"write", "writing"}
    BY <1>1, <1>7 DEF I!Busy
  <2>2. I!Keeps(config.says, owned)
    BY <1>7, <2>1 DEF Intact
  <2>3. I!Keeps(config'.says, owned')
    BY <1>1, <1>2, <2>2, KeepsMore
  <2> QED BY <1>1, <2>1, <2>3, KeepsNext DEF Intact
<1>8. IntactOrSecured' /\ SecuredInTime'
  BY <1>1, <1>6, <1>7 DEF InstallInv, IntactOrSecured, SecuredInTime, Past
<1>9. BackupFits'
  BY <1>1, <1>2 DEF InstallInv, BackupFits, I!Begun
<1>10. OnlyUsers(config.says) => OnlyUsers(config'.says)
  BY <1>3, UserTells DEF OnlyUsers
<1>11. OursComesLater'
  BY <1>1, <1>10 DEF InstallInv, OursComesLater, Past, OnlyUsers
<1> QED BY <1>4, <1>5, <1>8, <1>9, <1>11 DEF InstallInv

LEMMA InstallBegins == ASSUME InstallInv, NEW c \in Commands, I!Begin(c) PROVE InstallInv'
<1>1. /\ install[c] = "idle" /\ install' = [install EXCEPT ![c] = IF config.there THEN "look" ELSE "load"]
      /\ overlapped' = (overlapped \/ \E d \in Commands : I!Busy(d))
      /\ IF \A d \in Commands : install[d] = "idle"
         THEN first' = owned /\ created' = ~config.there
         ELSE UNCHANGED <<first, created>>
      /\ UNCHANGED <<format, config, backup, doc, owned, crashes>>
  BY DEF I!Begin, I!Goto
<1>2. /\ install'[c] = (IF config.there THEN "look" ELSE "load")
      /\ \A d \in Commands \ {c} : install'[d] = install[d]
      /\ DOMAIN install' = Commands
  BY <1>1 DEF InstallInv, InstallTypes
<1>3. InstallTypes' /\ WhoCrashedIsDead'
  BY <1>1, <1>2 DEF InstallInv, InstallTypes, WhoCrashedIsDead, IsFinal, I!InstallAssumption
<1>4. OneInstalls'
  <2>1. ASSUME ~overlapped', NEW d \in Commands \ {c} PROVE ~I!Busy(d)'
    <3>1. ~I!Busy(d)
      BY <1>1, <2>1
    <3> QED BY <1>2, <3>1 DEF I!Busy
  <2> QED BY <2>1 DEF OneInstalls
<1>5. FirstIsOwned'
  BY <1>1 DEF InstallInv, FirstIsOwned
<1>6. Intact => Intact'
  <2>1. /\ (\A d \in Commands : install'[d] # "writing") => \A d \in Commands : install[d] # "writing"
        /\ \A d \in Commands : install'[d] \in {"write", "writing"} => install[d] \in {"write", "writing"}
    BY <1>1, <1>2
  <2> QED BY <1>1, <2>1, KeepsNext DEF Intact
<1>7. I!Begun' /\ (I!Begun <=> ~(\A d \in Commands : install[d] = "idle"))
  BY <1>2 DEF I!Begun
<1>8. Secured /\ I!Begun => Secured'
  BY <1>1, <1>7, SecuredStays
<1>9. crashes = 1 => I!Begun
  BY DEF InstallInv, WhoCrashedIsDead, I!Begun
<1>10. IntactOrSecured'
  <2>1. ~overlapped' => Intact \/ (Secured /\ crashes = 1) \/ crashes > 1
    BY <1>1 DEF InstallInv, IntactOrSecured
  <2>2. crashes' = crashes
    BY <1>1
  <2> QED BY <1>6, <1>8, <1>9, <2>1, <2>2 DEF IntactOrSecured
<1>11. ASSUME ~overlapped', crashes = 0, I!Begun PROVE \E d \in Commands \ {c} : Past(d)
  <2>1. PICK d \in Commands : install[d] # "idle"
    BY <1>11 DEF I!Begun
  <2>2. ~I!Busy(d)
    BY <1>1, <1>11
  <2>3. install[d] # "dead"
    BY <1>11 DEF InstallInv, WhoCrashedIsDead
  <2>4. install[d] \in {"idle", "look", "copy", "copying", "load", "write", "writing",
                  "done", "refused", "dead"}
    BY DEF InstallInv, InstallTypes
  <2> QED BY <1>1, <2>1, <2>2, <2>3, <2>4 DEF Past, I!Busy
<1>12. SecuredInTime'
  <2> SUFFICES ASSUME ~overlapped', crashes = 0
               PROVE  /\ \A d \in Commands : Past(d)' => Secured'
                      /\ backup.there /\ (\A d \in Commands : install'[d] # "copying") => Secured'
    BY <1>1 DEF SecuredInTime
  <2>1. CASE I!Begun
    BY <1>1, <1>8, <1>11, <2>1 DEF InstallInv, SecuredInTime
  <2>2. CASE ~I!Begun
    <3>1. ~backup.there /\ (config.there \/ owned = <<>>)
      BY <2>2 DEF InstallInv, BackupFits
    <3>2. CASE config.there
      BY <1>2, <1>7, <2>2, <3>1, <3>2 DEF Past
    <3>3. CASE owned = <<>>
      BY <1>1, <1>7, <2>2, <3>1, <3>3 DEF Secured
    <3> QED BY <3>1, <3>2, <3>3
  <2> QED BY <2>1, <2>2
<1>13. BackupFits'
  BY <1>1, <1>2, <1>7 DEF InstallInv, BackupFits
<1>14. OursComesLater'
  <2> SUFFICES ASSUME ~overlapped', ~created', crashes = 0
               PROVE  /\ (\A d \in Commands : ~Past(d)') => OnlyUsers(config.says)
                      /\ (\E d \in Commands : Past(d)') =>
                            backup.there /\ \A d \in Commands : install'[d] \notin {"copy", "copying"}
                      /\ OnlyUsers(backup.says)
    BY <1>1 DEF OursComesLater, OnlyUsers
  <2>1. ~overlapped /\ ~created
    BY <1>1, <1>7 DEF InstallInv, BackupFits
  <2>2. OnlyUsers(backup.says)
    BY <2>1 DEF InstallInv, OursComesLater
  <2>3. CASE I!Begun
    <3>1. PICK d \in Commands \ {c} : Past(d)
      BY <1>11, <2>3
    <3>2. backup.there /\ \A f \in Commands : install[f] \notin {"copy", "copying"}
      BY <2>1, <3>1 DEF InstallInv, OursComesLater
    <3>3. Past(d)'
      BY <1>2, <3>1 DEF Past
    <3> QED BY <1>2, <2>2, <3>2, <3>3
  <2>4. CASE ~I!Begun
    <3>1. config.there /\ \A d \in Commands : install[d] = "idle"
      BY <1>1, <1>7, <2>4
    <3>2. \A d \in Commands : ~Past(d)' /\ ~Past(d)
      BY <1>2, <3>1 DEF Past
    <3>3. OnlyUsers(config.says)
      BY <2>1, <3>2 DEF InstallInv, OursComesLater
    <3> QED BY <2>2, <3>2, <3>3
  <2> QED BY <2>3, <2>4
<1> QED BY <1>3, <1>4, <1>5, <1>10, <1>12, <1>13, <1>14 DEF InstallInv

(* What a step of one command leaves of the others.                        *)
LEMMA OnlyOneInstalls ==
    ASSUME InstallInv, NEW c \in Commands, I!Busy(c), NEW step, I!Goto(c, step),
           step \in {"copy", "copying", "load", "write", "writing", "done", "refused", "dead"}
    PROVE  /\ install'[c] = step /\ \A d \in Commands \ {c} : install'[d] = install[d]
           /\ ~overlapped => \A d \in Commands \ {c} : ~I!Busy(d) /\ ~I!Busy(d)'
           /\ overlapped' = overlapped => OneInstalls'
           /\ install' \in [Commands -> {"idle", "look", "copy", "copying", "load", "write", "writing",
                                    "done", "refused", "dead"}]
           /\ I!Begun /\ I!Begun'
<1>1. install' = [install EXCEPT ![c] = step]
      /\ install \in [Commands -> {"idle", "look", "copy", "copying", "load", "write", "writing",
                              "done", "refused", "dead"}]
  BY DEF I!Goto, InstallInv, InstallTypes
<1>2. install'[c] = step /\ \A d \in Commands \ {c} : install'[d] = install[d]
  BY <1>1
<1>3. ASSUME ~overlapped, NEW d \in Commands \ {c} PROVE ~I!Busy(d) /\ ~I!Busy(d)'
  <2>1. ~I!Busy(d)
    BY <1>3 DEF InstallInv, OneInstalls
  <2> QED BY <1>2, <2>1 DEF I!Busy
<1>4. ASSUME overlapped' = overlapped PROVE OneInstalls'
  BY <1>3, <1>4 DEF OneInstalls
<1>5. I!Begun /\ I!Begun'
  <2>1. install[c] # "idle" /\ install'[c] # "idle"
    BY <1>2 DEF I!Busy
  <2> QED BY <2>1 DEF I!Begun
<1> QED BY <1>1, <1>2, <1>3, <1>4, <1>5

(* A step before the command writes, after which the backup has what it    *)
(* had or is secured.                                                      *)
LEMMA FileStands ==
    ASSUME InstallInv, NEW c \in Commands, install[c] \in {"look", "copy", "copying", "load"}, NEW step,
           I!Goto(c, step), step \in {"copy", "copying", "load", "refused"},
           UNCHANGED <<format, config, doc, owned, first, created, overlapped, crashes>>,
           ~overlapped /\ Secured => Secured'
    PROVE  /\ InstallTypes' /\ OneInstalls' /\ WhoCrashedIsDead' /\ FirstIsOwned'
           /\ IntactOrSecured'
<1>1. I!Busy(c) /\ install[c] \notin {"write", "writing", "dead"} /\ install[c] # "writing"
  BY DEF I!Busy
<1>2. /\ install'[c] = step /\ \A d \in Commands \ {c} : install'[d] = install[d]
      /\ OneInstalls' /\ step \notin {"write", "writing", "dead"}
      /\ install' \in [Commands -> {"idle", "look", "copy", "copying", "load", "write", "writing",
                               "done", "refused", "dead"}]
  BY <1>1, OnlyOneInstalls
<1>3. InstallTypes'
  BY <1>2 DEF InstallInv, InstallTypes, IsFinal, I!InstallAssumption
<1>4. WhoCrashedIsDead'
  <2>1. (\E d \in Commands : install[d] = "dead") <=> (\E d \in Commands : install'[d] = "dead")
    BY <1>1, <1>2
  <2> QED BY <2>1 DEF InstallInv, WhoCrashedIsDead
<1>5. FirstIsOwned'
  BY DEF InstallInv, FirstIsOwned
<1>6. Intact => Intact'
  <2>1. /\ (\A d \in Commands : install'[d] # "writing") => \A d \in Commands : install[d] # "writing"
        /\ \A d \in Commands : install'[d] \in {"write", "writing"} => install[d] \in {"write", "writing"}
    BY <1>1, <1>2
  <2> QED BY <2>1, KeepsNext DEF Intact
<1>7. IntactOrSecured'
  <2>1. ~overlapped' => Intact \/ (Secured /\ crashes = 1) \/ crashes > 1
    BY DEF InstallInv, IntactOrSecured
  <2> QED BY <1>6, <2>1 DEF IntactOrSecured
<1> QED BY <1>2, <1>3, <1>4, <1>5, <1>7

LEMMA InstallLooks == ASSUME InstallInv, NEW c \in Commands, I!Look(c) PROVE InstallInv'
<1> DEFINE step == IF ~backup.there THEN "copy" ELSE "load"
<1>1. /\ install[c] = "look" /\ I!Goto(c, step) /\ I!Busy(c) /\ step \in {"copy", "load"}
      /\ UNCHANGED <<format, config, backup, doc, owned, first, created, overlapped, crashes>>
  BY DEF I!Look, I!BacksUp, I!Busy
<1>2. /\ install'[c] = step /\ \A d \in Commands \ {c} : install'[d] = install[d]
      /\ ~overlapped => \A d \in Commands \ {c} : ~I!Busy(d) /\ ~I!Busy(d)'
      /\ I!Begun /\ I!Begun'
  BY <1>1, OnlyOneInstalls
<1>3. Secured => Secured'
  BY <1>1, SecuredStays
<1>4. InstallTypes' /\ OneInstalls' /\ WhoCrashedIsDead' /\ FirstIsOwned' /\ IntactOrSecured'
  BY <1>1, <1>3, FileStands
<1>5. ~overlapped => \A d \in Commands : install[d] # "copying" /\ install[d] # "copy"
  BY <1>1, <1>2 DEF I!Busy
<1>6. SecuredInTime'
  <2> SUFFICES ASSUME ~overlapped, crashes = 0
               PROVE  /\ \A d \in Commands : Past(d)' => Secured'
                      /\ backup.there /\ (\A d \in Commands : install'[d] # "copying") => Secured'
    BY <1>1 DEF SecuredInTime
  <2>1. backup.there => Secured
    BY <1>5 DEF InstallInv, SecuredInTime
  <2>2. \A d \in Commands : Past(d)' => Past(d) \/ backup.there
    BY <1>1, <1>2 DEF Past
  <2> QED BY <1>3, <2>1, <2>2 DEF InstallInv, SecuredInTime
<1>7. BackupFits'
  <2>1. ASSUME ~overlapped, NEW d \in Commands
        PROVE  (install'[d] = "copy" => ~backup.there) /\ install'[d] # "copying"
    BY <1>1, <1>2, <1>5, <2>1
  <2> QED BY <1>1, <1>2, <2>1 DEF InstallInv, BackupFits
<1>8. OursComesLater'
  <2> SUFFICES ASSUME ~overlapped, ~created, crashes = 0
               PROVE  /\ (\A d \in Commands : ~Past(d)') => OnlyUsers(config.says)
                      /\ (\E d \in Commands : Past(d)') =>
                            backup.there /\ \A d \in Commands : install'[d] \notin {"copy", "copying"}
                      /\ OnlyUsers(backup.says)
    BY <1>1 DEF OursComesLater, OnlyUsers
  <2>1. \A d \in Commands : Past(d) => Past(d)'
    BY <1>1, <1>2 DEF Past
  <2>2. \A d \in Commands : Past(d)' => Past(d) \/ backup.there
    BY <1>1, <1>2 DEF Past
  <2>3. backup.there => \A d \in Commands : install'[d] \notin {"copy", "copying"}
    BY <1>1, <1>2, <1>5
  <2> QED BY <2>1, <2>2, <2>3 DEF InstallInv, OursComesLater
<1> QED BY <1>4, <1>6, <1>7, <1>8 DEF InstallInv

LEMMA BackupBegins == ASSUME InstallInv, NEW c \in Commands, I!CopyBegins(c) PROVE InstallInv'
<1>1. /\ install[c] = "copy" /\ I!Goto(c, "copying") /\ I!Busy(c)
      /\ backup'.says = <<>> /\ backup'.there = TRUE
      /\ UNCHANGED <<format, config, doc, owned, first, created, overlapped, crashes>>
  BY DEF I!CopyBegins, I!Busy, I!Whole
<1>2. /\ install'[c] = "copying" /\ \A d \in Commands \ {c} : install'[d] = install[d]
      /\ ~overlapped => \A d \in Commands \ {c} : ~I!Busy(d) /\ ~I!Busy(d)'
      /\ I!Begun /\ I!Begun'
  BY <1>1, OnlyOneInstalls
<1>3. ~overlapped => ~backup.there /\ backup.says = <<>>
  <2>1. ~overlapped => ~backup.there
    BY <1>1 DEF InstallInv, BackupFits
  <2>2. ~backup.there => backup.says = <<>>
    BY DEF InstallInv, BackupFits
  <2> QED BY <2>1, <2>2
<1>4. ~overlapped /\ Secured => Secured'
  BY <1>1, <1>3, SecuredStays
<1>5. InstallTypes' /\ OneInstalls' /\ WhoCrashedIsDead' /\ FirstIsOwned' /\ IntactOrSecured'
  BY <1>1, <1>4, FileStands
<1>6. \A d \in Commands : Past(d)' <=> Past(d)
  BY <1>1, <1>2 DEF Past
<1>7. SecuredInTime'
  BY <1>1, <1>2, <1>4, <1>6 DEF InstallInv, SecuredInTime
<1>8. BackupFits'
  <2>1. ASSUME ~overlapped, NEW d \in Commands PROVE install'[d] # "copy"
    BY <1>2, <2>1 DEF I!Busy
  <2> QED BY <1>1, <1>2, <2>1 DEF InstallInv, BackupFits
<1>9. OursComesLater'
  BY <1>1, <1>6, EmptyIsFinal DEF InstallInv, OursComesLater, OnlyUsers
<1> QED BY <1>5, <1>7, <1>8, <1>9 DEF InstallInv

LEMMA BackupEnds == ASSUME InstallInv, NEW c \in Commands, I!CopyEnds(c) PROVE InstallInv'
<1>1. /\ install[c] = "copying" /\ I!Goto(c, "load") /\ I!Busy(c) /\ backup' = config
      /\ UNCHANGED <<format, config, doc, owned, first, created, overlapped, crashes>>
  BY DEF I!CopyEnds, I!Busy
<1>2. /\ install'[c] = "load" /\ \A d \in Commands \ {c} : install'[d] = install[d]
      /\ ~overlapped => \A d \in Commands \ {c} : ~I!Busy(d) /\ ~I!Busy(d)'
      /\ I!Begun /\ I!Begun'
  BY <1>1, OnlyOneInstalls
<1>3. ~overlapped => backup.says = <<>>
  BY <1>1 DEF InstallInv, BackupFits
<1>4. ASSUME ~overlapped, Secured PROVE Secured'
  <2>1. \A i \in DOMAIN first : ~I!Spared(first[i])
    BY <1>3, <1>4 DEF Secured, I!Holds
  <2> QED BY <1>1, <2>1 DEF Secured, I!Spared
<1>5. InstallTypes' /\ OneInstalls' /\ WhoCrashedIsDead' /\ FirstIsOwned' /\ IntactOrSecured'
  BY <1>1, <1>4, FileStands
<1>6. ASSUME ~overlapped, Intact PROVE Secured'
  <2>1. \A d \in Commands : install[d] # "writing"
    BY <1>1, <1>2, <1>6 DEF I!Busy
  <2>2. I!Keeps(config.says, owned)
    BY <1>6, <2>1 DEF Intact
  <2>3. \A i \in DOMAIN first : I!Spared(first[i]) => I!Holds(config, first[i])
    BY <2>2, KeptIsHeld DEF InstallInv
  <2> QED BY <1>1, <2>3 DEF Secured, I!Spared, I!Holds, I!User
<1>7. ~overlapped /\ crashes = 0 => Intact
  BY DEF InstallInv, IntactOrSecured
<1>8. SecuredInTime'
  BY <1>1, <1>6, <1>7 DEF SecuredInTime
<1>9. ~overlapped => \A d \in Commands : install'[d] # "copy" /\ install'[d] # "copying"
  BY <1>2 DEF I!Busy
<1>10. ~created => config.there
  BY <1>2 DEF InstallInv, BackupFits
<1>11. ASSUME ~overlapped, ~created, crashes = 0 PROVE OnlyUsers(config.says)
  <2>1. \A d \in Commands : ~Past(d)
    BY <1>1, <1>11 DEF InstallInv, OursComesLater
  <2> QED BY <1>11, <2>1 DEF InstallInv, OursComesLater
<1>12. OursComesLater'
  BY <1>1, <1>9, <1>10, <1>11 DEF OursComesLater, OnlyUsers
<1>13. BackupFits'
  BY <1>1, <1>2, <1>9 DEF InstallInv, BackupFits
<1> QED BY <1>5, <1>8, <1>12, <1>13 DEF InstallInv

LEMMA InstallLoads == ASSUME InstallInv, NEW c \in Commands, I!Load(c) PROVE InstallInv'
<1>1. PICK step \in {"refused", "write"} :
        /\ install[c] = "load" /\ I!Goto(c, step) /\ I!Busy(c)
        /\ step = "refused" => doc' = doc
        /\ step = "write" => doc' = [doc EXCEPT ![c] = I!Merged(config.says, c)]
        /\ UNCHANGED <<format, config, backup, owned, first, created, overlapped, crashes>>
  BY DEF I!Load, I!Busy
<1>2. /\ install'[c] = step /\ \A d \in Commands \ {c} : install'[d] = install[d]
      /\ ~overlapped => \A d \in Commands \ {c} : ~I!Busy(d) /\ ~I!Busy(d)'
      /\ OneInstalls' /\ I!Begun /\ I!Begun'
      /\ install' \in [Commands -> {"idle", "look", "copy", "copying", "load", "write", "writing",
                               "done", "refused", "dead"}]
  BY <1>1, OnlyOneInstalls
<1>3. /\ DOMAIN doc' = Commands /\ \A d \in Commands \ {c} : doc'[d] = doc[d]
      /\ doc'[c] = (IF step = "write" THEN I!Merged(config.says, c) ELSE doc[c])
      /\ owned \in Seq(Entries) /\ IsFinal(config.says) /\ \A d \in Commands : IsFinal(doc[d])
  BY <1>1 DEF InstallInv, InstallTypes
<1>4. \A d \in Commands : IsFinal(doc'[d])
  <2>1. IsFinal(I!Merged(config.says, c))
    BY ONLY <1>3, MergedKeeps
  <2> QED BY <1>3, <2>1
<1>5. InstallTypes'
  BY <1>1, <1>2, <1>3, <1>4 DEF InstallInv, InstallTypes, IsFinal, I!InstallAssumption
<1>6. WhoCrashedIsDead' /\ FirstIsOwned'
  <2>1. (\E d \in Commands : install[d] = "dead") <=> (\E d \in Commands : install'[d] = "dead")
    BY <1>1, <1>2
  <2> QED BY <1>1, <2>1 DEF InstallInv, WhoCrashedIsDead, FirstIsOwned
<1>7. Secured => Secured'
  BY <1>1, SecuredStays
<1>8. ASSUME ~overlapped, Intact PROVE Intact'
  <2>1. \A d \in Commands : install[d] # "writing" /\ install'[d] # "writing"
    BY <1>1, <1>2, <1>8 DEF I!Busy
  <2>2. I!Keeps(config.says, owned)
    BY <1>8, <2>1 DEF Intact
  <2>3. ASSUME NEW d \in Commands, install'[d] \in {"write", "writing"} PROVE I!Keeps(doc'[d], owned')
    <3>1. d = c /\ step = "write"
      BY <1>2, <1>8, <2>3 DEF I!Busy
    <3> QED BY <1>1, <1>3, <2>2, <3>1, MergedKeeps
  <2> QED BY <1>1, <2>2, <2>3, KeepsNext DEF Intact
<1>9. IntactOrSecured'
  <2>1. ~overlapped' => Intact \/ (Secured /\ crashes = 1) \/ crashes > 1
    BY <1>1 DEF InstallInv, IntactOrSecured
  <2> QED BY <1>1, <1>7, <1>8, <2>1 DEF IntactOrSecured
<1>10. /\ Past(c) /\ Past(c)' /\ \A d \in Commands \ {c} : Past(d)' <=> Past(d)
       /\ \A d \in Commands : (install'[d] = "copy" <=> install[d] = "copy")
                            /\ (install'[d] = "copying" <=> install[d] = "copying")
  BY <1>1, <1>2 DEF Past
<1>11. SecuredInTime'
  BY <1>1, <1>7, <1>10 DEF InstallInv, SecuredInTime
<1>12. BackupFits'
  BY <1>1, <1>2, <1>10 DEF InstallInv, BackupFits
<1>13. OursComesLater'
  BY <1>1, <1>10 DEF InstallInv, OursComesLater, OnlyUsers
<1> QED BY <1>2, <1>5, <1>6, <1>9, <1>11, <1>12, <1>13 DEF InstallInv

(* A step of a command that writes, or dies.                               *)
LEMMA FileIsWritten ==
    ASSUME InstallInv, NEW c \in Commands, I!Busy(c), Past(c), NEW step, I!Goto(c, step),
           step \in {"writing", "done", "dead"},
           UNCHANGED <<format, backup, doc, owned, first, created, overlapped>>,
           IsFinal(config'.says), config'.there, crashes' = crashes, step # "dead"
    PROVE  /\ InstallTypes' /\ OneInstalls' /\ WhoCrashedIsDead' /\ FirstIsOwned'
           /\ SecuredInTime' /\ BackupFits' /\ OursComesLater'
<1>2. /\ install'[c] = step /\ \A d \in Commands \ {c} : install'[d] = install[d]
      /\ OneInstalls' /\ I!Begun /\ I!Begun'
      /\ install' \in [Commands -> {"idle", "look", "copy", "copying", "load", "write", "writing",
                               "done", "refused", "dead"}]
  BY OnlyOneInstalls
<1>3. InstallTypes'
  BY <1>2 DEF InstallInv, InstallTypes, IsFinal, I!InstallAssumption
<1>4. install[c] # "dead" /\ install[c] # "copy" /\ install[c] # "copying"
  BY DEF I!Busy, Past
<1>5. WhoCrashedIsDead' /\ FirstIsOwned'
  <2>1. (\E d \in Commands : install[d] = "dead") <=> (\E d \in Commands : install'[d] = "dead")
    BY <1>2, <1>4
  <2> QED BY <2>1 DEF InstallInv, WhoCrashedIsDead, FirstIsOwned
<1>6. Secured => Secured'
  BY SecuredStays
<1>7. /\ Past(c)' /\ \A d \in Commands \ {c} : Past(d)' <=> Past(d)
      /\ \A d \in Commands : (install'[d] = "copy" <=> install[d] = "copy")
                           /\ (install'[d] = "copying" <=> install[d] = "copying")
  BY <1>2, <1>4 DEF Past
<1>8. SecuredInTime'
  BY <1>6, <1>7 DEF InstallInv, SecuredInTime
<1>9. BackupFits'
  BY <1>2, <1>7 DEF InstallInv, BackupFits
<1>10. OursComesLater'
  BY <1>7 DEF InstallInv, OursComesLater, OnlyUsers
<1> QED BY <1>2, <1>3, <1>5, <1>8, <1>9, <1>10

LEMMA InstallWriteBegins == ASSUME InstallInv, NEW c \in Commands, I!WriteBegins(c) PROVE InstallInv'
<1>1. /\ install[c] = "write" /\ I!Goto(c, "writing") /\ I!Busy(c) /\ Past(c)
      /\ config'.says = <<>> /\ config'.there
      /\ UNCHANGED <<format, backup, doc, owned, first, created, overlapped, crashes>>
  BY DEF I!WriteBegins, I!Busy, Past, I!Whole
<1>2. install'[c] = "writing" /\ \A d \in Commands \ {c} : install'[d] = install[d]
  BY <1>1, OnlyOneInstalls
<1>3. /\ InstallTypes' /\ OneInstalls' /\ WhoCrashedIsDead' /\ FirstIsOwned'
      /\ SecuredInTime' /\ BackupFits' /\ OursComesLater'
  BY <1>1, FileIsWritten, EmptyIsFinal
<1>4. Secured => Secured'
  BY <1>1, SecuredStays
<1>5. Intact => Intact'
  <2>1. \A d \in Commands : install'[d] \in {"write", "writing"} => install[d] \in {"write", "writing"}
    BY <1>1, <1>2
  <2> QED BY <1>1, <1>2, <2>1, KeepsNext DEF Intact
<1>6. IntactOrSecured'
  BY <1>1, <1>4, <1>5 DEF InstallInv, IntactOrSecured
<1> QED BY <1>3, <1>6 DEF InstallInv

LEMMA InstallWriteEnds == ASSUME InstallInv, NEW c \in Commands, I!WriteEnds(c) PROVE InstallInv'
<1>1. /\ install[c] = "writing" /\ I!Goto(c, "done") /\ I!Busy(c) /\ Past(c)
      /\ config'.says = doc[c] /\ config'.there
      /\ UNCHANGED <<format, backup, doc, owned, first, created, overlapped, crashes>>
  BY DEF I!WriteEnds, I!Busy, Past, I!Whole
<1>2. install'[c] = "done" /\ \A d \in Commands \ {c} : install'[d] = install[d]
  BY <1>1, OnlyOneInstalls
<1>3. /\ InstallTypes' /\ OneInstalls' /\ WhoCrashedIsDead' /\ FirstIsOwned'
      /\ SecuredInTime' /\ BackupFits' /\ OursComesLater'
  <2>1. IsFinal(doc[c])
    BY DEF InstallInv, InstallTypes
  <2> QED BY <1>1, <2>1, FileIsWritten
<1>4. Secured => Secured'
  BY <1>1, SecuredStays
<1>5. Intact => Intact'
  <2>1. \A d \in Commands : install'[d] \in {"write", "writing"} => install[d] \in {"write", "writing"}
    BY <1>1, <1>2
  <2>2. Intact => I!Keeps(doc[c], owned)
    BY <1>1 DEF Intact
  <2> QED BY <1>1, <2>1, <2>2, KeepsNext DEF Intact
<1>6. IntactOrSecured'
  BY <1>1, <1>4, <1>5 DEF InstallInv, IntactOrSecured
<1> QED BY <1>3, <1>6 DEF InstallInv

LEMMA InstallDies == ASSUME InstallInv, NEW c \in Commands, I!Die(c) PROVE InstallInv'
<1>1. /\ I!Busy(c) /\ crashes' = crashes + 1 /\ I!Goto(c, "dead")
      /\ install[c] # "writing" => config' = config
      /\ install[c] = "writing" => \E p \in DOMAIN doc[c] :
            LET came == {q \in DOMAIN doc[c] : q < p}
            IN config' = [there |-> TRUE, says |-> I!Restrict(doc[c], came), torn |-> came # {}]
      /\ UNCHANGED <<format, backup, doc, owned, first, created, overlapped>>
  BY DEF I!Die
<1>2. /\ install'[c] = "dead" /\ \A d \in Commands \ {c} : install'[d] = install[d]
      /\ ~overlapped => \A d \in Commands \ {c} : ~I!Busy(d) /\ ~I!Busy(d)'
      /\ OneInstalls' /\ I!Begun /\ I!Begun'
      /\ install' \in [Commands -> {"idle", "look", "copy", "copying", "load", "write", "writing",
                               "done", "refused", "dead"}]
  BY <1>1, OnlyOneInstalls
<1>3. IsFinal(config.says) /\ IsFinal(doc[c]) /\ crashes \in Nat
  BY DEF InstallInv, InstallTypes
<1>4. IsFinal(config'.says) /\ (install[c] = "writing" => config'.there)
  <2>1. CASE install[c] = "writing"
    <3>1. PICK p \in DOMAIN doc[c] :
            config' = [there |-> TRUE, says |-> I!Restrict(doc[c], {q \in DOMAIN doc[c] : q < p}),
                     torn |-> {q \in DOMAIN doc[c] : q < p} # {}]
      BY <1>1, <2>1
    <3>2. DOMAIN config'.says = {q \in DOMAIN doc[c] : q < p}
      BY <3>1 DEF I!Restrict
    <3>3. IsFiniteSet({q \in DOMAIN doc[c] : q < p})
      BY <1>3, FS_Subset DEF IsFinal
    <3> QED BY <1>3, <3>1, <3>2, <3>3 DEF IsFinal
  <2> QED BY <1>1, <1>3, <2>1
<1>5. InstallTypes'
  BY <1>1, <1>2, <1>3, <1>4 DEF InstallInv, InstallTypes, IsFinal, I!InstallAssumption
<1>6. crashes' > 0 /\ crashes' # 0 /\ (crashes = 0 => crashes' = 1) /\ (crashes # 0 => crashes' > 1)
  BY <1>1, <1>3
<1>7. WhoCrashedIsDead' /\ FirstIsOwned'
  BY <1>1, <1>2, <1>6 DEF InstallInv, WhoCrashedIsDead, FirstIsOwned
<1>8. SecuredInTime' /\ OursComesLater'
  BY <1>6 DEF SecuredInTime, OursComesLater
<1>9. BackupFits'
  <2>1. \A d \in Commands : (install'[d] = "copy" => install[d] = "copy") /\ (install'[d] = "copying" => install[d] = "copying")
    BY <1>2
  <2> QED BY <1>1, <1>2, <1>4, <2>1 DEF InstallInv, BackupFits
<1>10. Secured => Secured'
  BY <1>1, SecuredStays
<1>11. ASSUME ~overlapped, crashes = 0, install[c] # "writing" PROVE Intact'
  <2>1. Intact
    BY <1>11 DEF InstallInv, IntactOrSecured
  <2>2. \A d \in Commands : install[d] # "writing" /\ install'[d] \notin {"write", "writing"}
    BY <1>2, <1>11 DEF I!Busy
  <2>3. I!Keeps(config.says, owned)
    BY <2>1, <2>2 DEF Intact
  <2> QED BY <1>1, <1>11, <2>2, <2>3, KeepsNext DEF Intact
<1>12. ASSUME ~overlapped, crashes = 0, install[c] = "writing" PROVE Secured'
  BY <1>10, <1>12 DEF InstallInv, SecuredInTime, Past
<1>13. IntactOrSecured'
  BY <1>1, <1>6, <1>11, <1>12 DEF IntactOrSecured
<1> QED BY <1>2, <1>5, <1>7, <1>8, <1>9, <1>13 DEF InstallInv

LEMMA NextInstall == ASSUME InstallInv, [I!Next]_I!vars PROVE InstallInv'
<1>1. CASE UNCHANGED I!vars
  <2>1. OneInstalls' /\ WhoCrashedIsDead' /\ FirstIsOwned' /\ InstallTypes'
    BY <1>1 DEF I!vars, InstallInv, InstallTypes, OneInstalls, WhoCrashedIsDead, FirstIsOwned, I!Busy,
                IsFinal, I!InstallAssumption
  <2>2. (Secured => Secured') /\ (Intact => Intact')
    <3>1. Secured => Secured'
      BY <1>1, SecuredStays DEF I!vars
    <3>2. Intact => Intact'
      BY <1>1, KeepsNext DEF I!vars, Intact
    <3> QED BY <3>1, <3>2
  <2>3. IntactOrSecured' /\ SecuredInTime' /\ BackupFits' /\ OursComesLater'
    BY <1>1, <2>2 DEF I!vars, InstallInv, IntactOrSecured, SecuredInTime, BackupFits, I!Begun,
                      OursComesLater, Past, OnlyUsers
  <2> QED BY <2>1, <2>3 DEF InstallInv
<1>2. CASE I!Next
  BY <1>2, UserSaves, InstallBegins, InstallLooks, BackupBegins, BackupEnds, InstallLoads, InstallWriteBegins,
     InstallWriteEnds, InstallDies DEF I!Next
<1> QED BY <1>1, <1>2

(* "Merge, never overwrite" (sodamem_cli/install.py), for any number of    *)
(* commands, entries and crashes: what the user has in a file stays, once  *)
(* and in order, as long as no two commands overlap and none dies; after   *)
(* one has died it is in the file or in the backup, which is of the state  *)
(* before the first.                                                       *)
THEOREM UsersKeepTheirs == Spec => []InstallKeepsTheUsers
<1> DEFINE Inv == part = "install" => InstallInv
<1>1. Init => Inv
  BY ProcessAssumptions, InitInstall DEF Init
<1>2. Inv /\ [Next]_vars => Inv'
  <2> SUFFICES ASSUME Inv, [Next]_vars, part' = "install" PROVE InstallInv'
    OBVIOUS
  <2>1. part = "install" /\ (I!Next \/ UNCHANGED I!vars)
    BY DEF Next, vars, installVars, I!vars
  <2> QED BY <2>1, NextInstall
<1>3. Inv => InstallKeepsTheUsers
  BY InstallHolds DEF InstallKeepsTheUsers
<1> QED BY <1>1, <1>2, <1>3, PTL DEF Spec

(* models/__init__.py: however many operations share a provider, every     *)
(* response is counted, and each is told of its own completion whether it  *)
(* was cut off.                                                            *)
THEOREM CallsStayAccounted == Spec => []CallsAreAccounted
BY ResponsesStayCounted, CutOffStaysOwn, PTL DEF CallsAreAccounted

-----------------------------------------------------------------------------
(* The types.  A request is answered once, so that no dispatcher has       *)
(* counted more events than there are.                                     *)
Ended(c) == c.delivered + c.failed + c.dropped
HadOf(c, q, h) == Ended(c) + Len(q) + (IF h = None THEN 0 ELSE 1)
CountsFit ==
    /\ IsFiniteSet(W!Answered)
    /\ \A d \in Dispatchers : HadOf(counts[d], queue[d], hand[d]) <= Cardinality(W!Answered)

LEMMA HadIsNumber ==
    ASSUME NEW c \in [delivered : Nat, failed : Nat, dropped : Nat], NEW q \in Seq(Events), NEW h
    PROVE  /\ Ended(c) \in Nat /\ Len(q) \in Nat /\ HadOf(c, q, h) \in Nat
           /\ h = None => HadOf(c, q, h) = Ended(c) + Len(q)
           /\ h # None => HadOf(c, q, h) = Ended(c) + Len(q) + 1
<1>1. Len(q) \in Nat
  BY LenProperties
<1>2. Ended(c) \in Nat
  BY DEF Ended
<1> QED BY <1>1, <1>2 DEF HadOf

(* What one step adds.                                                     *)
LEMMA HadGrows ==
    ASSUME NEW c \in [delivered : Nat, failed : Nat, dropped : Nat], NEW q \in Seq(Events), NEW h,
           NEW c2 \in [delivered : Nat, failed : Nat, dropped : Nat], NEW q2 \in Seq(Events), NEW h2
    PROVE  /\ Ended(c2) = Ended(c) + 1 /\ Len(q2) = Len(q) /\ h2 = h => HadOf(c2, q2, h2) = HadOf(c, q, h) + 1
           /\ Ended(c2) = Ended(c) /\ Len(q2) = Len(q) + 1 /\ h2 = h => HadOf(c2, q2, h2) = HadOf(c, q, h) + 1
           /\ Ended(c2) = Ended(c) /\ Len(q2) = Len(q) - 1 /\ h = None => HadOf(c2, q2, h2) <= HadOf(c, q, h)
           /\ Ended(c2) = Ended(c) + 1 /\ Len(q2) = Len(q) /\ h # None /\ h2 = None =>
                  HadOf(c2, q2, h2) <= HadOf(c, q, h)
<1> DEFINE e == Ended(c)
           e2 == Ended(c2)
           l == Len(q)
           l2 == Len(q2)
           x == IF h = None THEN 0 ELSE 1
           x2 == IF h2 = None THEN 0 ELSE 1
<1>1. e \in Nat /\ l \in Nat /\ e2 \in Nat /\ l2 \in Nat
  BY HadIsNumber
<1>2. x \in {0, 1} /\ x2 \in {0, 1} /\ (h2 = h => x2 = x) /\ (h = None => x = 0)
      /\ (h # None => x = 1) /\ (h2 = None => x2 = 0)
  OBVIOUS
<1>3. HadOf(c, q, h) = e + l + x /\ HadOf(c2, q2, h2) = e2 + l2 + x2
  BY DEF HadOf
<1>4. SUFFICES /\ e2 = e + 1 /\ l2 = l /\ h2 = h => e2 + l2 + x2 = e + l + x + 1
               /\ e2 = e /\ l2 = l + 1 /\ h2 = h => e2 + l2 + x2 = e + l + x + 1
               /\ e2 = e /\ l2 = l - 1 /\ h = None => e2 + l2 + x2 <= e + l + x
               /\ e2 = e + 1 /\ l2 = l /\ h # None /\ h2 = None => e2 + l2 + x2 <= e + l + x
  BY <1>3
<1> HIDE DEF e, e2, l, l2, x, x2
<1> QED BY ONLY <1>1, <1>2

LEMMA InitCounts == ASSUME W!WebhookAssumption, W!Init PROVE CountsFit
<1>1. ASSUME NEW d \in Dispatchers PROVE HadOf(counts[d], queue[d], hand[d]) = 0
  <2>1. counts[d] = [delivered |-> 0, failed |-> 0, dropped |-> 0] /\ queue[d] = <<>> /\ hand[d] = None
    BY DEF W!Init, W!NoCounts
  <2>2. Ended(counts[d]) = 0
    BY <2>1 DEF Ended
  <2>3. Len(queue[d]) = 0
    BY <2>1
  <2> QED BY <2>1, <2>2, <2>3 DEF HadOf
<1>2. W!Answered = {}
  BY DEF W!Init, W!Answered
<1>3. IsFiniteSet(W!Answered) /\ Cardinality(W!Answered) = 0
  BY <1>2, FS_EmptySet
<1> QED BY <1>1, <1>3 DEF CountsFit

LEMMA CountsStayFit ==
    ASSUME W!WebhookAssumption, EventInv, CountsFit, [W!Next]_W!vars PROVE CountsFit'
<1> DEFINE Had(d) == HadOf(counts[d], queue[d], hand[d])
           Has(d) == HadOf(counts'[d], queue'[d], hand'[d])
<1>0. EventTypes /\ EventTypes'
  BY NextEvents DEF EventInv
<1>1. ASSUME NEW d \in Dispatchers
      PROVE  /\ counts[d] \in [delivered : Nat, failed : Nat, dropped : Nat] /\ queue[d] \in Seq(Events)
             /\ counts'[d] \in [delivered : Nat, failed : Nat, dropped : Nat] /\ queue'[d] \in Seq(Events)
  BY <1>0 DEF EventTypes
<1> DEFINE Adds(c, q, h) ==
               /\ Ended(c) \in Nat /\ Len(q) \in Nat /\ HadOf(c, q, h) \in Nat
               /\ h = None => HadOf(c, q, h) = Ended(c) + Len(q)
               /\ h # None => HadOf(c, q, h) = Ended(c) + Len(q) + 1
<1>2. ASSUME NEW d \in Dispatchers
      PROVE  Adds(counts[d], queue[d], hand[d]) /\ Adds(counts'[d], queue'[d], hand'[d])
  <2>1. Adds(counts[d], queue[d], hand[d])
    BY <1>1, HadIsNumber
  <2>2. Adds(counts'[d], queue'[d], hand'[d])
    BY <1>1, HadIsNumber
  <2> QED BY <2>1, <2>2
<1>3. IsFiniteSet(W!Answered) /\ Cardinality(W!Answered) \in Nat
  BY FS_CardinalityType DEF CountsFit
<1>4. \A d \in Dispatchers : Had(d) <= Cardinality(W!Answered)
  BY DEF CountsFit
<1>5. CASE UNCHANGED W!vars
  BY <1>5 DEF W!vars, CountsFit, W!Answered
<1>6. ASSUME NEW e \in Events, W!Look(e) \/ W!Make(e) PROVE CountsFit'
  <2>1. /\ UNCHANGED <<queue, hand, counts>> /\ at[e] # "answered"
        /\ \E step \in {"make", "dispatch"} : at' = [at EXCEPT ![e] = step]
    BY <1>6 DEF W!Look, W!Make, W!Goto
  <2>2. W!Answered' = W!Answered
    BY <1>0, <2>1 DEF W!Answered, EventTypes
  <2> QED BY <2>1, <2>2 DEF CountsFit
<1>7. ASSUME NEW e \in Events, W!Dispatch(e) PROVE CountsFit'
  <2>1. /\ global \in Dispatchers /\ at[e] = "dispatch"
        /\ at' = [at EXCEPT ![e] = "answered"] /\ UNCHANGED hand
        /\ \/ queue' = W!Enqueued(global, e) /\ UNCHANGED counts
           \/ W!Counted(global, "dropped") /\ UNCHANGED queue
    BY <1>0, <1>7 DEF W!Dispatch, W!Goto, EventInv, EventTypes, DispatcherIsMade
  <2>2. IsFiniteSet(W!Answered') /\ Cardinality(W!Answered') = Cardinality(W!Answered) + 1
    <3>1. W!Answered' = W!Answered \cup {e} /\ e \notin W!Answered
      BY <1>0, <2>1 DEF W!Answered, EventTypes
    <3> QED BY <1>3, <3>1, FS_AddElement
  <2>3. ASSUME NEW d \in Dispatchers PROVE Has(d) <= Had(d) + 1
    <3>1. CASE d # global
      <4>1. counts'[d] = counts[d] /\ queue'[d] = queue[d] /\ hand'[d] = hand[d]
        BY <1>0, <2>1, <3>1 DEF W!Enqueued, W!Counted, EventTypes
      <4> QED BY <1>2, <4>1
    <3>2. CASE d = global /\ queue' = W!Enqueued(global, e) /\ UNCHANGED counts
      <4>1. queue'[d] = Append(queue[d], e) /\ counts'[d] = counts[d] /\ hand'[d] = hand[d]
        BY <1>0, <2>1, <3>2 DEF W!Enqueued, EventTypes
      <4>2. Len(queue'[d]) = Len(queue[d]) + 1
        BY <1>1, <4>1, AppendProperties
      <4>3. HadOf(counts[d], queue'[d], hand[d]) = HadOf(counts[d], queue[d], hand[d]) + 1
        BY <1>1, <4>2, HadGrows
      <4>4. Has(d) = Had(d) + 1
        BY <4>1, <4>3
      <4>5. Had(d) \in Nat /\ Has(d) \in Nat
        BY <1>2
      <4> HIDE DEF Had, Has
      <4> QED BY <4>4, <4>5
    <3>3. CASE d = global /\ W!Counted(global, "dropped") /\ UNCHANGED queue
      <4>1. /\ counts'[d] = [counts[d] EXCEPT !.dropped = @ + 1]
            /\ queue'[d] = queue[d] /\ hand'[d] = hand[d]
        BY <1>0, <2>1, <3>3 DEF W!Counted, EventTypes
      <4>2. Ended(counts'[d]) = Ended(counts[d]) + 1
        BY <1>1, <4>1 DEF Ended
      <4> QED BY <1>1, <1>2, <4>1, <4>2, HadGrows
    <3> QED BY <2>1, <3>1, <3>2, <3>3
  <2>5. \A d \in Dispatchers : Had(d) \in Nat /\ Has(d) \in Nat
    BY <1>2
  <2> HIDE DEF Had, Has
  <2>4. \A d \in Dispatchers : Has(d) <= Cardinality(W!Answered')
    BY <1>3, <1>4, <2>2, <2>3, <2>5
  <2>6. IsFiniteSet(W!Answered')
    BY <2>2
  <2> QED BY <2>4, <2>6 DEF CountsFit, Has
<1>8. ASSUME NEW c \in Dispatchers, W!Take(c) \/ W!Deliver(c) PROVE CountsFit'
  <2>1. W!Answered' = W!Answered
    BY <1>8 DEF W!Take, W!Deliver, W!Answered
  <2>2. ASSUME NEW d \in Dispatchers PROVE Has(d) <= Had(d)
    <3>1. CASE d # c
      <4>1. counts'[d] = counts[d] /\ queue'[d] = queue[d] /\ hand'[d] = hand[d]
        BY <1>0, <1>8, <3>1 DEF W!Take, W!Deliver, W!Counted, EventTypes
      <4> QED BY <1>2, <4>1
    <3>2. CASE d = c /\ W!Take(c)
      <4>1. /\ hand[d] = None /\ queue[d] # <<>> /\ queue'[d] = Tail(queue[d])
            /\ counts'[d] = counts[d]
        BY <1>0, <3>2 DEF W!Take, EventTypes
      <4>2. Len(queue'[d]) = Len(queue[d]) - 1
        BY <1>1, <4>1
      <4> QED BY <1>1, <1>2, <4>1, <4>2, HadGrows
    <3>3. CASE d = c /\ W!Deliver(c)
      <4>1. /\ hand[d] # None /\ hand'[d] = None /\ queue'[d] = queue[d]
            /\ \E what \in {"delivered", "failed"} : counts'[d] = [counts[d] EXCEPT ![what] = @ + 1]
        BY <1>0, <3>3 DEF W!Deliver, W!Counted, EventTypes
      <4>2. Ended(counts'[d]) = Ended(counts[d]) + 1
        <5>1. counts[d] \in [delivered : Nat, failed : Nat, dropped : Nat]
          BY <1>1
        <5>2. CASE counts'[d] = [counts[d] EXCEPT !["delivered"] = @ + 1]
          BY <5>1, <5>2 DEF Ended
        <5>3. CASE counts'[d] = [counts[d] EXCEPT !["failed"] = @ + 1]
          BY <5>1, <5>3 DEF Ended
        <5> QED BY <4>1, <5>2, <5>3
      <4> QED BY <1>1, <1>2, <4>1, <4>2, HadGrows
    <3> QED BY <1>8, <3>1, <3>2, <3>3
  <2>5. \A d \in Dispatchers : Had(d) \in Nat /\ Has(d) \in Nat
    BY <1>2
  <2> HIDE DEF Had, Has
  <2>4. \A d \in Dispatchers : Has(d) <= Cardinality(W!Answered')
    BY <1>3, <1>4, <2>1, <2>2, <2>5
  <2>6. IsFiniteSet(W!Answered')
    BY <1>3, <2>1
  <2> QED BY <2>4, <2>6 DEF CountsFit, Has
<1> QED BY <1>5, <1>6, <1>7, <1>8 DEF W!Next

LEMMA EventsAreTyped == ASSUME W!WebhookAssumption, EventInv, CountsFit PROVE W!TypeOK
<1>1. EventTypes
  BY DEF EventInv
<1>2. ASSUME NEW d \in Dispatchers
      PROVE  counts[d] \in [{"delivered", "failed", "dropped"} -> 0..W!Cardinality(W!Answered)]
  <2> DEFINE N == W!Cardinality(W!Answered)
             Had == HadOf(counts[d], queue[d], hand[d])
  <2>0. counts[d] \in [delivered : Nat, failed : Nat, dropped : Nat] /\ queue[d] \in Seq(Events)
    BY <1>1 DEF EventTypes
  <2>1. N \in Nat /\ Had <= N
    <3>1. N = Cardinality(W!Answered)
      BY DEF W!Cardinality, Cardinality
    <3>2. Had <= Cardinality(W!Answered)
      BY <2>0 DEF CountsFit
    <3>3. Cardinality(W!Answered) \in Nat
      BY FS_CardinalityType DEF CountsFit
    <3> HIDE DEF N, Had
    <3> QED BY <3>1, <3>2, <3>3
  <2> HIDE DEF N
  <2>2. /\ counts[d].delivered \in 0..N /\ counts[d].failed \in 0..N /\ counts[d].dropped \in 0..N
    <3>1. Len(queue[d]) \in Nat /\ Ended(counts[d]) \in Nat
          /\ (Had = Ended(counts[d]) + Len(queue[d]) \/ Had = Ended(counts[d]) + Len(queue[d]) + 1)
      BY <2>0, HadIsNumber
    <3>4. Ended(counts[d]) <= N
      <4> HIDE DEF Had, N
      <4> QED BY <2>1, <3>1
    <3> DEFINE a == counts[d].delivered
               b == counts[d].failed
               c == counts[d].dropped
    <3>2. a \in Nat /\ b \in Nat /\ c \in Nat /\ a + b + c <= N
      BY <2>0, <3>4 DEF Ended
    <3> HIDE DEF Had, N, a, b, c
    <3>3. a \in 0..N /\ b \in 0..N /\ c \in 0..N
      BY ONLY <2>1, <3>2
    <3> QED BY <3>3 DEF a, b, c
  <2>4. DOMAIN counts[d] = {"delivered", "failed", "dropped"}
        /\ counts[d] = [x \in {"delivered", "failed", "dropped"} |-> counts[d][x]]
    BY <2>0
  <2>5. \A x \in {"delivered", "failed", "dropped"} : counts[d][x] \in 0..N
    BY <2>2
  <2>6. counts[d] \in [{"delivered", "failed", "dropped"} -> 0..N]
    BY <2>4, <2>5
  <2> QED BY <2>6 DEF N
<1> QED BY <1>1, <1>2 DEF W!TypeOK, EventTypes

-----------------------------------------------------------------------------
(* What stands at the places of a file.                                    *)
Sorted(says) == \A p \in DOMAIN says : says[p] \in I!Items

LEMMA SortedMore ==
    ASSUME NEW says, IsFinal(says), Sorted(says)
    PROVE  /\ \A x \in I!Items : Sorted(I!With(says, x))
           /\ \A S : Sorted(I!Restrict(says, S \cap DOMAIN says))
<1>1. ASSUME NEW x \in I!Items PROVE Sorted(I!With(says, x))
  <2>1. /\ DOMAIN I!With(says, x) = DOMAIN says \cup {I!End(says)}
        /\ \A p \in DOMAIN says : I!With(says, x)[p] = says[p]
        /\ I!With(says, x)[I!End(says)] = x
    BY WithMore
  <2> QED BY <2>1 DEF Sorted
<1>2. ASSUME NEW S PROVE Sorted(I!Restrict(says, S \cap DOMAIN says))
  BY DEF Sorted, I!Restrict
<1> QED BY <1>1, <1>2

LEMMA TableIsSorted == ASSUME NEW c \in Commands PROVE \A i \in 1..5 : I!Table(c)[i] \in I!Items
<1> DEFINE names == <<"table", "keys", "list", "env", "vars">>
<1>1. \A i \in 1..5 : names[i] \in {"table", "keys", "list", "env", "vars"}
  <2> SUFFICES ASSUME NEW i \in 1..5 PROVE names[i] \in {"table", "keys", "list", "env", "vars"}
    OBVIOUS
  <2>1. i = 1 \/ i = 2 \/ i = 3 \/ i = 4 \/ i = 5
    OBVIOUS
  <2>2. names[1] = "table" /\ names[2] = "keys" /\ names[3] = "list" /\ names[4] = "env" /\ names[5] = "vars"
    OBVIOUS
  <2> HIDE DEF names
  <2> QED BY <2>1, <2>2
<1>2. \A i \in 1..5 : I!Table(c)[i] = [is |-> names[i], of |-> c]
  BY DEF I!Table
<1> HIDE DEF names
<1> QED BY <1>1, <1>2 DEF I!Items

LEMMA SplicedIsSorted ==
    ASSUME NEW says, IsFinal(says), Sorted(says), NEW c \in Commands
    PROVE  Sorted(I!Spliced(says, c))
<1> DEFINE i == I!Start(says)
           after == I!After(says)
           new == I!Spliced(says, c)
<1>1. i \in Nat /\ after \subseteq DOMAIN says /\ DOMAIN says \subseteq Nat
      /\ \A q \in after : i < q
  <2>1. i \in Nat \ {0}
    BY StartIsFirst
  <2>2. \A q \in after : \E r \in DOMAIN says : i < r /\ r <= q
    BY DEF I!After
  <2>3. after \subseteq DOMAIN says /\ DOMAIN says \subseteq Nat
    BY DEF I!After, IsFinal
  <2> HIDE DEF i, after
  <2> QED BY <2>1, <2>2, <2>3
<1>2. /\ DOMAIN new = {q \in DOMAIN says : q < i} \cup (i..(i + 4)) \cup {q + 5 : q \in after}
      /\ \A p \in DOMAIN new :
            new[p] = IF p < i THEN says[p] ELSE IF p < i + 5 THEN I!Table(c)[p - i + 1] ELSE says[p - 5]
  BY DEF I!Spliced
<1> HIDE DEF i, after, new
<1>3. ASSUME NEW p \in DOMAIN new PROVE new[p] \in I!Items
  <2>1. CASE p \in DOMAIN says /\ p < i
    BY <1>2, <2>1 DEF Sorted
  <2>2. CASE p \in i..(i + 4)
    <3>1. p \in Int /\ ~(p < i) /\ p < i + 5 /\ p - i + 1 \in 1..5
      BY <1>1, <2>2
    <3>2. new[p] = I!Table(c)[p - i + 1]
      BY <1>2, <3>1
    <3> QED BY <3>1, <3>2, TableIsSorted
  <2>3. CASE p \in {q + 5 : q \in after}
    <3>1. PICK q \in after : p = q + 5
      BY <2>3
    <3>2. ~(p < i) /\ ~(p < i + 5) /\ p - 5 = q /\ q \in DOMAIN says
      BY <1>1, <3>1
    <3> QED BY <1>2, <3>2 DEF Sorted
  <2> QED BY <1>2, <2>1, <2>2, <2>3
<1> QED BY <1>3 DEF Sorted, new

LEMMA MergedIsSorted ==
    ASSUME NEW says, IsFinal(says), Sorted(says), NEW c \in Commands
    PROVE  Sorted(I!Merged(says, c))
<1>1. CASE format = "toml"
  BY <1>1, SplicedIsSorted DEF I!Merged
<1>2. CASE format # "toml"
  <2> DEFINE theirs == {p \in DOMAIN says : ~I!IsOurs(says[p])}
             rest == I!Restrict(says, theirs)
  <2>1. theirs \cap DOMAIN says = theirs
    OBVIOUS
  <2>2. Sorted(rest)
    BY <2>1, SortedMore
  <2>3. IsFinal(rest)
    <3>1. DOMAIN rest = theirs /\ theirs \subseteq DOMAIN says
      BY DEF I!Restrict
    <3>2. IsFiniteSet(theirs)
      BY FS_Subset DEF IsFinal
    <3> QED BY <3>1, <3>2 DEF IsFinal
  <2>4. I!Ours(c) \in I!Items
    BY DEF I!Ours, I!Items
  <2> HIDE DEF rest
  <2>5. Sorted(I!With(rest, I!Ours(c)))
    BY <2>2, <2>3, <2>4, SortedMore
  <2> QED BY <1>2, <2>5 DEF I!Merged, rest
<1> QED BY <1>1, <1>2

FilesFit ==
    /\ format \in {"servers", "hooks", "toml"} /\ I!IsFile(config) /\ I!IsFile(backup)
    /\ Sorted(config.says) /\ \A c \in Commands : Sorted(doc[c])
    /\ first \in Seq(Entries) /\ created \in BOOLEAN /\ overlapped \in BOOLEAN
    /\ crashes <= MaxCrashes

LEMMA SortedIsDocument == ASSUME NEW says, IsFinal(says), Sorted(says) PROVE I!IsDocument(says)
BY DEF IsFinal, Sorted, I!IsDocument

LEMMA FileOf ==
    ASSUME NEW says, IsFinal(says), Sorted(says), NEW torn \in BOOLEAN
    PROVE  I!IsFile([there |-> TRUE, says |-> says, torn |-> torn])
BY SortedIsDocument DEF I!IsFile

LEMMA EmptyIsSorted == Sorted(<<>>) /\ I!IsDocument(<<>>)
BY DEF Sorted, I!IsDocument

LEMMA InstallIsTyped == ASSUME InstallInv, FilesFit PROVE I!TypeOK
<1>1. InstallTypes
  BY DEF InstallInv
<1>2. \A c \in Commands : I!IsDocument(doc[c])
  BY <1>1, SortedIsDocument DEF InstallTypes, FilesFit
<1>3. crashes \in 0..MaxCrashes
  BY <1>1 DEF InstallTypes, FilesFit, I!InstallAssumption
<1> QED BY <1>1, <1>2, <1>3 DEF InstallTypes, FilesFit, I!TypeOK

LEMMA InitFiles == ASSUME I!InstallAssumption, I!Init PROVE FilesFit
<1>0. InstallInv
  BY InitInstall
<1>1. config = I!NoFile \/ config = I!Whole([i \in DOMAIN owned |-> I!User(owned[i])])
  BY DEF I!Init
<1>2. Sorted(config.says)
  <2>1. CASE config = I!NoFile
    BY <2>1, EmptyIsSorted DEF I!NoFile
  <2>2. CASE config = I!Whole([i \in DOMAIN owned |-> I!User(owned[i])])
    <3>1. config.says = [i \in DOMAIN owned |-> I!User(owned[i])]
      BY <2>2 DEF I!Whole
    <3>2. owned \in Seq(Entries)
      BY <1>0 DEF InstallInv, InstallTypes
    <3>3. \A i \in DOMAIN owned : owned[i] \in Entries
      BY <3>2
    <3> QED BY <3>1, <3>3 DEF Sorted, I!User, I!Items
  <2> QED BY <1>1, <2>1, <2>2
<1>3. I!IsDocument(config.says)
  BY <1>0, <1>2, SortedIsDocument DEF InstallInv, InstallTypes
<1>4. I!IsFile(config)
  <2>1. CASE config = I!NoFile
    BY <2>1, EmptyIsSorted DEF I!NoFile, I!IsFile
  <2>2. CASE config = I!Whole([i \in DOMAIN owned |-> I!User(owned[i])])
    <3> DEFINE says == [i \in DOMAIN owned |-> I!User(owned[i])]
    <3>1. config = [there |-> TRUE, says |-> says, torn |-> FALSE]
      BY <2>2 DEF I!Whole
    <3> HIDE DEF says
    <3> QED BY <1>3, <3>1 DEF I!IsFile
  <2> QED BY <1>1, <2>1, <2>2
<1>5. I!IsFile(backup)
  BY EmptyIsSorted DEF I!IsFile, I!NoFile, I!Init
<1>6. \A c \in Commands : Sorted(doc[c])
  BY EmptyIsSorted DEF I!Init
<1>7. /\ format \in {"servers", "hooks", "toml"} /\ first \in Seq(Entries)
      /\ created \in BOOLEAN /\ overlapped \in BOOLEAN
  <2>1. format \in {"servers", "hooks", "toml"} /\ first = <<>> /\ created = FALSE /\ overlapped = FALSE
    BY DEF I!Init
  <2>2. <<>> \in Seq(Entries)
    OBVIOUS
  <2> QED BY <2>1, <2>2
<1>8. crashes <= MaxCrashes
  BY DEF I!Init, I!InstallAssumption
<1> QED BY <1>2, <1>4, <1>5, <1>6, <1>7, <1>8 DEF FilesFit

LEMMA FilesStayFit ==
    ASSUME InstallInv, InstallInv', FilesFit, [I!Next]_I!vars PROVE FilesFit'
<1>0. /\ IsFinal(config.says) /\ \A c \in Commands : IsFinal(doc[c])
      /\ DOMAIN doc = Commands /\ owned \in Seq(Entries) /\ crashes \in Nat
      /\ IsFinal(config'.says)
  BY DEF InstallInv, InstallTypes
<1>1. CASE UNCHANGED I!vars
  BY <1>1 DEF I!vars, FilesFit, Sorted, I!IsFile, I!IsDocument, I!Items
<1>2. CASE I!Save
  <2>1. PICK e \in Entries : config' = I!Whole(I!With(config.says, I!User(e)))
    BY <1>2 DEF I!Save
  <2>2. overlapped' \in BOOLEAN /\ UNCHANGED <<format, backup, doc, first, created, crashes>>
    BY <1>2 DEF I!Save, FilesFit, I!Busy
  <2>3. I!User(e) \in I!Items
    BY DEF I!User, I!Items
  <2>4. Sorted(config'.says)
    BY <1>0, <2>1, <2>3, SortedMore DEF FilesFit, I!Whole
  <2>5. I!IsFile(config')
    BY <1>0, <2>1, <2>4, FileOf DEF I!Whole
  <2> QED BY <2>2, <2>4, <2>5 DEF FilesFit
<1>3. ASSUME NEW c \in Commands, I!Begin(c) PROVE FilesFit'
  <2>1. UNCHANGED <<format, config, backup, doc, crashes>> /\ overlapped' \in BOOLEAN
    BY <1>3 DEF I!Begin, FilesFit, I!Busy
  <2>2. first' \in Seq(Entries) /\ created' \in BOOLEAN
    BY <1>0, <1>3 DEF I!Begin, FilesFit
  <2> QED BY <2>1, <2>2 DEF FilesFit
<1>4. ASSUME NEW c \in Commands, I!Look(c) PROVE FilesFit'
  BY <1>4 DEF I!Look, FilesFit
<1>5. ASSUME NEW c \in Commands, I!CopyBegins(c) \/ I!CopyEnds(c) PROVE FilesFit'
  <2>1. backup' = config \/ backup' = [there |-> TRUE, says |-> <<>>, torn |-> TRUE]
    BY <1>5 DEF I!CopyBegins, I!CopyEnds, I!Whole
  <2>2. I!IsFile(backup')
    BY <2>1, FileOf, EmptyIsFinal, EmptyIsSorted DEF FilesFit
  <2>3. UNCHANGED <<format, config, doc, owned, first, created, overlapped, crashes>>
    BY <1>5 DEF I!CopyBegins, I!CopyEnds
  <2> QED BY <2>2, <2>3 DEF FilesFit
<1>6. ASSUME NEW c \in Commands, I!Load(c) PROVE FilesFit'
  <2>1. UNCHANGED <<format, config, backup, first, created, overlapped, crashes>>
        /\ (doc' = doc \/ doc' = [doc EXCEPT ![c] = I!Merged(config.says, c)])
    BY <1>6 DEF I!Load
  <2>2. Sorted(I!Merged(config.says, c))
    BY <1>0, MergedIsSorted DEF FilesFit
  <2>3. \A d \in Commands : doc'[d] = doc[d] \/ doc'[d] = I!Merged(config.says, c)
    BY <1>0, <2>1
  <2>4. \A d \in Commands : Sorted(doc'[d])
    BY <2>2, <2>3 DEF FilesFit
  <2> QED BY <2>1, <2>4 DEF FilesFit
<1>7. ASSUME NEW c \in Commands, I!WriteBegins(c) \/ I!WriteEnds(c) PROVE FilesFit'
  <2>1. /\ UNCHANGED <<format, backup, doc, first, created, overlapped, crashes>>
        /\ config' = I!Whole(<<>>) \/ config' = I!Whole(doc[c])
    BY <1>7 DEF I!WriteBegins, I!WriteEnds
  <2>2. I!IsFile(config') /\ Sorted(config'.says)
    <3>1. ASSUME NEW says, config' = I!Whole(says), IsFinal(says), Sorted(says)
          PROVE  I!IsFile(config') /\ Sorted(config'.says)
      BY <3>1, FileOf DEF I!Whole
    <3> QED BY <1>0, <2>1, <3>1, EmptyIsFinal, EmptyIsSorted DEF FilesFit
  <2> QED BY <2>1, <2>2 DEF FilesFit
<1>8. ASSUME NEW c \in Commands, I!Die(c) PROVE FilesFit'
  <2>1. UNCHANGED <<format, backup, doc, first, created, overlapped>> /\ crashes' <= MaxCrashes
    <3>1. crashes < MaxCrashes /\ crashes' = crashes + 1 /\ MaxCrashes \in Nat
      BY <1>8 DEF I!Die, InstallInv, InstallTypes, I!InstallAssumption
    <3>2. crashes' <= MaxCrashes
      BY <1>0, <3>1
    <3> QED BY <1>8, <3>2 DEF I!Die
  <2>2. CASE config' = config
    BY <2>1, <2>2 DEF FilesFit
  <2>3. CASE config' # config
    <3>1. PICK p \in DOMAIN doc[c] :
            config' = [there |-> TRUE, says |-> I!Restrict(doc[c], {q \in DOMAIN doc[c] : q < p}),
                     torn |-> {q \in DOMAIN doc[c] : q < p} # {}]
      BY <1>8, <2>3 DEF I!Die
    <3> DEFINE came == {q \in DOMAIN doc[c] : q < p}
               torn == came # {}
               says == I!Restrict(doc[c], came)
    <3>2. came \cap DOMAIN doc[c] = came /\ torn \in BOOLEAN
      OBVIOUS
    <3>3. Sorted(says)
      BY <1>0, <3>2, SortedMore DEF FilesFit
    <3>4. config' = [there |-> TRUE, says |-> says, torn |-> torn]
      BY <3>1
    <3> HIDE DEF says, torn
    <3>5. I!IsFile(config') /\ Sorted(config'.says)
      BY <1>0, <3>2, <3>3, <3>4, FileOf
    <3> QED BY <2>1, <3>5 DEF FilesFit
  <2> QED BY <2>2, <2>3
<1> QED BY <1>1, <1>2, <1>3, <1>4, <1>5, <1>6, <1>7, <1>8 DEF I!Next

-----------------------------------------------------------------------------
(* The retries of a completion and the completions of an operation stay    *)
(* within their bounds.                                                    *)
RetriesFit ==
    /\ \A o \in Operations : op[o].policy \in 0..PolicyAttempts /\ op[o].empty \in 0..EmptyRetries
    /\ calls \in [Operations -> 0..MaxCalls]

LEMMA CallsAreTyped ==
    ASSUME CallInv, SpendInv, RetriesFit PROVE M!TypeOK
<1>1. CallTypes /\ SpendTypes
  BY DEF CallInv, SpendInv
<1>2. op \in [Operations -> [at : {"idle", "ready", "asking", "said", "error", "done", "failed"},
                              policy : 0..PolicyAttempts, empty : 0..EmptyRetries]]
  BY <1>1 DEF CallTypes, RetriesFit, Steps
<1>3. \A k \in {"ingest", "answer"} : {book[k].tokens, book[k].calls} \subseteq Nat
  BY <1>1 DEF SpendTypes
<1>4. \A p \in M!Providers : summary[p].tokens \in Nat /\ summary[p].served \in Seq(Models)
  BY <1>1 DEF SpendTypes
<1> QED BY <1>1, <1>2, <1>3, <1>4 DEF CallTypes, SpendTypes, RetriesFit, M!TypeOK

LEMMA InitRetries == ASSUME M!ModelAssumption, M!Init PROVE RetriesFit
BY DEF M!ModelAssumption, M!Init, M!Idle, RetriesFit

LEMMA RetriesStayFit ==
    ASSUME M!ModelAssumption, CallInv, RetriesFit, [M!Next]_M!vars PROVE RetriesFit'
<1>0. /\ op \in [Operations -> [at : Steps, policy : Nat, empty : Nat]]
      /\ PolicyAttempts \in Nat \ {0} /\ EmptyRetries \in Nat /\ MaxCalls \in Nat
  BY DEF CallInv, CallTypes, M!ModelAssumption
<1>1. CASE UNCHANGED <<op, calls>>
  BY <1>1 DEF RetriesFit
<1>2. ASSUME NEW o \in Operations, NEW step, op' = [op EXCEPT ![o].at = step], calls' = calls
      PROVE  RetriesFit'
  <2>1. \A p \in Operations : op'[p].policy = op[p].policy /\ op'[p].empty = op[p].empty
    BY <1>0, <1>2
  <2> QED BY <1>2, <2>1 DEF RetriesFit
<1>3. ASSUME NEW o \in Operations, NEW x, op' = [op EXCEPT ![o] = x], calls' = calls,
             x.policy \in 0..PolicyAttempts, x.empty \in 0..EmptyRetries
      PROVE  RetriesFit'
  <2>1. \A p \in Operations : op'[p] = IF p = o THEN x ELSE op[p]
    BY <1>0, <1>3
  <2> QED BY <1>3, <2>1 DEF RetriesFit
<1>4. ASSUME NEW o \in Operations, M!Ask(o) PROVE RetriesFit'
  <2>1. op' = [op EXCEPT ![o] = [at |-> "asking", policy |-> 1, empty |-> 0]]
        /\ calls' = [calls EXCEPT ![o] = @ + 1] /\ calls[o] < MaxCalls
    BY <1>4 DEF M!Ask
  <2>2. \A p \in Operations : op'[p] = IF p = o THEN [at |-> "asking", policy |-> 1, empty |-> 0] ELSE op[p]
    BY <1>0, <2>1
  <2>3. calls[o] \in 0..MaxCalls /\ calls[o] + 1 \in 0..MaxCalls
    BY <1>0, <2>1 DEF RetriesFit
  <2>4. calls' \in [Operations -> 0..MaxCalls]
    BY <2>1, <2>3 DEF RetriesFit
  <2>5. 1 \in 0..PolicyAttempts /\ 0 \in 0..EmptyRetries
    BY <1>0
  <2> QED BY <2>2, <2>4, <2>5 DEF RetriesFit
<1>5. ASSUME NEW o \in Operations, M!Empty(o) PROVE RetriesFit'
  <2>1. calls' = calls /\ op[o].policy \in 0..PolicyAttempts /\ op[o].empty \in 0..EmptyRetries
        /\ op[o] \in [at : Steps, policy : Nat, empty : Nat]
    BY <1>0, <1>5 DEF M!Empty, RetriesFit
  <2>2. CASE sdk # "openai"
    <3>1. \E step : op' = [op EXCEPT ![o].at = step]
      BY <1>5, <2>2 DEF M!Empty, M!Goto
    <3> QED BY <1>2, <2>1, <3>1
  <2>3. CASE sdk = "openai" /\ op[o].empty < EmptyRetries
    <3> DEFINE x == [op[o] EXCEPT !.empty = op[o].empty + 1]
    <3>1. op' = [op EXCEPT ![o] = x]
      BY <1>5, <2>3 DEF M!Empty
    <3>2. op[o].empty + 1 \in 0..EmptyRetries
      BY <1>0, <2>1, <2>3
    <3>3. x.policy = op[o].policy /\ x.empty = op[o].empty + 1
      BY <2>1
    <3> HIDE DEF x
    <3> QED BY <1>3, <2>1, <3>1, <3>2, <3>3
  <2>4. CASE sdk = "openai" /\ ~(op[o].empty < EmptyRetries)
    <3> DEFINE x == [op[o] EXCEPT !.at = "error"]
    <3>1. op' = [op EXCEPT ![o] = x]
      BY <1>5, <2>4 DEF M!Empty
    <3>3. x.policy = op[o].policy /\ x.empty = op[o].empty
      BY <2>1
    <3> HIDE DEF x
    <3> QED BY <1>3, <2>1, <3>1, <3>3
  <2> QED BY <2>2, <2>3, <2>4
<1>6. ASSUME NEW o \in Operations, M!Reject(o) PROVE RetriesFit'
  <2>1. calls' = calls /\ op[o].policy \in 0..PolicyAttempts /\ op[o].empty \in 0..EmptyRetries
        /\ op[o] \in [at : Steps, policy : Nat, empty : Nat]
    BY <1>0, <1>6 DEF M!Reject, RetriesFit
  <2>2. CASE sdk = "openai" /\ op[o].policy < PolicyAttempts
    <3> DEFINE x == [at |-> "asking", policy |-> op[o].policy + 1, empty |-> 0]
    <3>1. op' = [op EXCEPT ![o] = x]
      BY <1>6, <2>2 DEF M!Reject
    <3>2. op[o].policy + 1 \in 0..PolicyAttempts /\ 0 \in 0..EmptyRetries
      BY <1>0, <2>1, <2>2
    <3>3. x.policy = op[o].policy + 1 /\ x.empty = 0
      OBVIOUS
    <3> HIDE DEF x
    <3> QED BY <1>3, <2>1, <3>1, <3>2, <3>3
  <2>3. CASE ~(sdk = "openai" /\ op[o].policy < PolicyAttempts)
    <3> DEFINE x == [op[o] EXCEPT !.at = "error"]
    <3>1. op' = [op EXCEPT ![o] = x]
      BY <1>6, <2>3 DEF M!Reject
    <3>3. x.policy = op[o].policy /\ x.empty = op[o].empty
      BY <2>1
    <3> HIDE DEF x
    <3> QED BY <1>3, <2>1, <3>1, <3>3
  <2> QED BY <2>2, <2>3
<1>7. ASSUME NEW o \in Operations,
             \/ M!Begin(o) \/ M!Plain(o) \/ M!Text(o) \/ M!Break(o) \/ M!ReadFinish(o)
             \/ M!FallBack(o) \/ M!Fail(o) \/ M!Finish(o)
      PROVE  RetriesFit'
  <2>1. calls' = calls /\ \E step : op' = [op EXCEPT ![o].at = step]
    BY <1>7 DEF M!Begin, M!Plain, M!Text, M!Break, M!ReadFinish, M!FallBack, M!Fail, M!Finish, M!Goto
  <2> QED BY <1>2, <2>1
<1>8. UNCHANGED M!vars \/ M!Reopen => UNCHANGED <<op, calls>>
  BY DEF M!vars, M!Reopen
<1> QED BY <1>1, <1>4, <1>5, <1>6, <1>7, <1>8 DEF M!Next

-----------------------------------------------------------------------------
(* What all parts keep together.                                           *)
PartsFit ==
    /\ part \in {"daemon", "hook", "webhooks", "mcp", "install", "models", "benchmark"}
    /\ part = "daemon" => DaemonInv
    /\ part = "hook" => HookInv
    /\ part = "webhooks" => EventInv /\ CountsFit
    /\ part = "mcp" => McpInv
    /\ part = "install" => InstallInv /\ FilesFit
    /\ part = "models" => CallInv /\ SpendInv /\ RetriesFit
    /\ part = "benchmark" => RunInv

LEMMA InitFits == Init => PartsFit
<1> SUFFICES ASSUME Init PROVE PartsFit
  OBVIOUS
<1> USE ProcessAssumptions
<1>1. part = "daemon" => DaemonInv
  BY InitDaemon DEF Init
<1>2. part = "hook" => HookInv
  BY InitHook DEF Init
<1>3. part = "webhooks" => EventInv /\ CountsFit
  BY InitEvents, InitCounts DEF Init
<1>4. part = "mcp" => McpInv
  BY InitMcp DEF Init
<1>5. part = "install" => InstallInv /\ FilesFit
  BY InitInstall, InitFiles DEF Init
<1>6. part = "models" => CallInv /\ SpendInv /\ RetriesFit
  BY InitCalls, InitSpend, InitRetries DEF Init
<1>7. part = "benchmark" => RunInv
  BY InitRun DEF Init
<1>8. part \in {"daemon", "hook", "webhooks", "mcp", "install", "models", "benchmark"}
  BY DEF Init
<1> QED BY <1>1, <1>2, <1>3, <1>4, <1>5, <1>6, <1>7, <1>8 DEF PartsFit

LEMMA NextFits == PartsFit /\ [Next]_vars => PartsFit'
<1> SUFFICES ASSUME PartsFit, [Next]_vars PROVE PartsFit'
  OBVIOUS
<1> USE ProcessAssumptions
<1>1. CASE part = "daemon"
  <2>1. part' = "daemon" /\ [D!Next]_D!vars
    BY <1>1 DEF Next, vars, daemonVars, D!vars
  <2>2. DaemonInv'
    BY <1>1, <2>1, NextDaemon DEF PartsFit
  <2> QED BY <2>1, <2>2 DEF PartsFit
<1>2. CASE part = "hook"
  <2>1. part' = "hook" /\ [H!Next]_H!vars
    BY <1>2 DEF Next, vars, hookVars, H!vars
  <2>2. HookInv'
    BY <1>2, <2>1, NextHook DEF PartsFit
  <2> QED BY <2>1, <2>2 DEF PartsFit
<1>3. CASE part = "webhooks"
  <2>1. part' = "webhooks" /\ [W!Next]_W!vars
    BY <1>3 DEF Next, vars, webhookVars, W!vars
  <2>2. EventInv' /\ CountsFit'
    BY <1>3, <2>1, NextEvents, CountsStayFit DEF PartsFit
  <2> QED BY <2>1, <2>2 DEF PartsFit
<1>4. CASE part = "mcp"
  <2>1. part' = "mcp" /\ [P!Next]_P!vars
    BY <1>4 DEF Next, vars, mcpVars, P!vars
  <2>2. McpInv'
    BY <1>4, <2>1, NextMcp DEF PartsFit
  <2> QED BY <2>1, <2>2 DEF PartsFit
<1>5. CASE part = "install"
  <2>1. part' = "install" /\ [I!Next]_I!vars
    BY <1>5 DEF Next, vars, installVars, I!vars
  <2>2. InstallInv' /\ FilesFit'
    BY <1>5, <2>1, NextInstall, FilesStayFit DEF PartsFit
  <2> QED BY <2>1, <2>2 DEF PartsFit
<1>6. CASE part = "models"
  <2>1. part' = "models" /\ [M!Next]_M!vars
    BY <1>6 DEF Next, vars, modelVars, M!vars
  <2>2. CallInv' /\ SpendInv' /\ RetriesFit'
    BY <1>6, <2>1, NextCalls, NextSpend, RetriesStayFit DEF PartsFit
  <2> QED BY <2>1, <2>2 DEF PartsFit
<1>7. CASE part = "benchmark"
  <2>1. part' = "benchmark" /\ [B!Next]_B!vars
    BY <1>7 DEF Next, vars, runVars, B!vars
  <2>2. RunInv'
    BY <1>7, <2>1, RunGoesOn DEF PartsFit
  <2> QED BY <2>1, <2>2 DEF PartsFit
<1> QED BY <1>1, <1>2, <1>3, <1>4, <1>5, <1>6, <1>7 DEF PartsFit

(* The variables of every part have their types: files are documents whose *)
(* items are the user's or ours, retries and completions stay within their *)
(* bounds, and no dispatcher has counted more events than there were.      *)
THEOREM ProcessesAreTyped == Spec => []TypeOK
<1>1. PartsFit => TypeOK
  <2> SUFFICES ASSUME PartsFit PROVE TypeOK
    OBVIOUS
  <2>1. part = "daemon" => D!TypeOK
    BY DEF PartsFit, DaemonInv
  <2>2. part = "hook" => H!TypeOK
    BY DEF PartsFit, HookInv
  <2>3. part = "webhooks" => W!TypeOK
    BY ProcessAssumptions, EventsAreTyped DEF PartsFit
  <2>4. part = "mcp" => P!TypeOK
    BY DEF PartsFit, McpInv
  <2>5. part = "install" => I!TypeOK
    BY InstallIsTyped DEF PartsFit
  <2>6. part = "models" => M!TypeOK
    BY CallsAreTyped DEF PartsFit
  <2>7. part = "benchmark" => B!TypeOK
    BY DEF PartsFit, RunInv
  <2>8. part \in {"daemon", "hook", "webhooks", "mcp", "install", "models", "benchmark"}
    BY DEF PartsFit
  <2> QED BY <2>1, <2>2, <2>3, <2>4, <2>5, <2>6, <2>7, <2>8 DEF TypeOK
<1> QED BY InitFits, NextFits, <1>1, PTL DEF Spec
=============================================================================
