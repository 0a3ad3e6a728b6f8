------------------------------- MODULE Daemon -------------------------------
(***************************************************************************)
(* `sodamem daemon ensure` and `sodamem daemon stop` (sodamem_cli/         *)
(* daemon.py), run at once by several editors and hooks, and the server    *)
(* processes they start.  A process serves a data root only while it holds *)
(* the lock on it (acquire_data_root_lock in server/control.py, taken by   *)
(* create_app in server/app.py); the system gives the lock back when the   *)
(* process has exited, which after SIGTERM is when its requests and jobs   *)
(* have ended, and not when it stops answering.                            *)
(*                                                                         *)
(* A pid stands for one process at a time; the system may give the pid of  *)
(* a process that has exited to a program of somebody else.                *)
(***************************************************************************)
EXTENDS Integers, FiniteSets

CONSTANTS
    Callers,    \* invocations of the command that may overlap
    Pids,
    NoPid

DaemonAssumption == NoPid \notin Pids

VARIABLES
    proc,     \* what runs under a pid
    holder,   \* the process that holds the lock of the data root
    pidfile,  \* daemon.pid
    at,       \* how far a caller is
    mine,     \* the process a caller started, or the pid it is about to signal
    ended     \* history: a server process was signalled or died by itself

vars == <<proc, holder, pidfile, at, mine, ended>>

Phases == {"free", "booting", "holding", "serving", "draining", "dead", "other"}
Ended == {"idle", "running", "started", "failed", "timeout", "stopped"}
Alive(p) == proc[p] \in {"booting", "holding", "serving", "draining"}
Serving == {p \in Pids : proc[p] = "serving"}
Become(p, phase) == proc' = [proc EXCEPT ![p] = phase]
Goto(c, step) == at' = [at EXCEPT ![c] = step] /\ UNCHANGED mine
End(c, result) == at' = [at EXCEPT ![c] = result] /\ mine' = [mine EXCEPT ![c] = NoPid]
Take(c, p, step) == at' = [at EXCEPT ![c] = step] /\ mine' = [mine EXCEPT ![c] = p]

-----------------------------------------------------------------------------
Init ==
    /\ proc = [p \in Pids |-> "free"]
    /\ holder = NoPid
    /\ pidfile = NoPid
    /\ at = [c \in Callers |-> "idle"]
    /\ mine = [c \in Callers |-> NoPid]
    /\ ended = FALSE

(***************************************************************************)
(* ensure                                                                  *)
(***************************************************************************)

(* status(): a process that serves may still answer too late.              *)
Answers == Serving # {}

EnsureBegins(c) ==
    /\ at[c] \in Ended
    /\ \/ Answers /\ End(c, "running")
       \/ Goto(c, "spawn")
    /\ UNCHANGED <<proc, holder, pidfile, ended>>

Spawn(c) ==
    /\ at[c] = "spawn"
    /\ \E p \in Pids :
          /\ proc[p] = "free"
          /\ Become(p, "booting")
          /\ Take(c, p, "name")
    /\ UNCHANGED <<holder, pidfile, ended>>

(* Written before it is known whether the process will serve.              *)
WritePid(c) ==
    /\ at[c] = "name"
    /\ pidfile' = mine[c]
    /\ Goto(c, "poll")
    /\ UNCHANGED <<proc, holder, ended>>

(* The process's own end is looked for before a service that answers.      *)
Poll(c) ==
    /\ at[c] = "poll"
    /\ \/ Alive(mine[c]) /\ Goto(c, "probe")
       \/ ~Alive(mine[c]) /\ End(c, "failed")
    /\ UNCHANGED <<proc, holder, pidfile, ended>>

Probe(c) ==
    /\ at[c] = "probe"
    /\ \/ Answers /\ End(c, "started")
       \/ Goto(c, "poll")
    /\ UNCHANGED <<proc, holder, pidfile, ended>>

(* The deadline has passed.                                                *)
GiveUp(c) ==
    /\ at[c] = "poll"
    /\ End(c, "timeout")
    /\ UNCHANGED <<proc, holder, pidfile, ended>>

(***************************************************************************)
(* stop                                                                    *)
(***************************************************************************)
StopBegins(c) ==
    /\ at[c] \in Ended
    /\ \/ pidfile = NoPid /\ End(c, "stopped")
       \/ pidfile # NoPid /\ Take(c, pidfile, "kill")
    /\ UNCHANGED <<proc, holder, pidfile, ended>>

(* os.kill: a process of another owner is not ours to stop, one of the     *)
(* same owner is stopped whatever it is.                                   *)
Kill(c) ==
    /\ at[c] = "kill"
    /\ LET p == mine[c] IN
       \/ proc[p] \in {"holding", "serving", "draining"} /\ Become(p, "draining") /\ Goto(c, "unlink")
       \/ proc[p] \in {"booting", "other"} /\ Become(p, "dead") /\ Goto(c, "unlink")
       \/ proc[p] \in {"free", "dead"} /\ UNCHANGED proc /\ Goto(c, "unlink")
       \/ proc[p] = "other" /\ UNCHANGED proc /\ End(c, "stopped")
    /\ ended' = (ended \/ Alive(mine[c]))
    /\ UNCHANGED <<holder, pidfile>>

Unlink(c) ==
    /\ at[c] = "unlink"
    /\ pidfile' = NoPid
    /\ End(c, "stopped")
    /\ UNCHANGED <<proc, holder, ended>>

(***************************************************************************)
(* A server process.                                                       *)
(***************************************************************************)
MutLockTakesOver(p) == Become(p, "holding") /\ holder' = p

(* acquire_data_root_lock: refused, the process dies with ControlPlaneError.*)
TakeLock(p) ==
    \/ /\ holder = NoPid
       /\ holder' = p
       /\ Become(p, "holding")
    \/ /\ holder # NoPid
       /\ Become(p, "dead")
       /\ UNCHANGED holder

Boot(p) ==
    /\ proc[p] = "booting"
    /\ TakeLock(p)
    /\ UNCHANGED <<pidfile, at, mine, ended>>

Serve(p) ==
    /\ proc[p] = "holding"
    /\ Become(p, "serving")
    /\ UNCHANGED <<holder, pidfile, at, mine, ended>>

LeaveLock(p) == holder' = IF holder = p THEN NoPid ELSE holder

Exit(p) ==
    /\ proc[p] = "draining"
    /\ Become(p, "dead")
    /\ LeaveLock(p)
    /\ UNCHANGED <<pidfile, at, mine, ended>>

Crash(p) ==
    /\ proc[p] \in {"holding", "serving"}
    /\ Become(p, "dead")
    /\ LeaveLock(p)
    /\ ended' = TRUE
    /\ UNCHANGED <<pidfile, at, mine>>

(* A pid is free again once the command that started the process has ended:*)
(* until then it has a parent to be reaped by.                             *)
Recycle(p) ==
    /\ proc[p] \in {"dead", "other"}
    /\ \A c \in Callers : mine[c] = p => at[c] \in {"kill", "unlink"}
    /\ \/ Become(p, "free")
       \/ proc[p] = "dead" /\ Become(p, "other")
    /\ UNCHANGED <<holder, pidfile, at, mine, ended>>

-----------------------------------------------------------------------------
CallerNext(c) ==
    \/ EnsureBegins(c) \/ Spawn(c) \/ WritePid(c) \/ Poll(c) \/ Probe(c) \/ GiveUp(c)
    \/ StopBegins(c) \/ Kill(c) \/ Unlink(c)

ProcNext(p) == Boot(p) \/ Serve(p) \/ Exit(p) \/ Crash(p) \/ Recycle(p)

Next == (\E c \in Callers : CallerNext(c)) \/ (\E p \in Pids : ProcNext(p))

Spec == Init /\ [][Next]_vars

-----------------------------------------------------------------------------
TypeOK ==
    /\ proc \in [Pids -> Phases]
    /\ holder \in Pids \cup {NoPid}
    /\ pidfile \in Pids \cup {NoPid}
    /\ at \in [Callers -> Ended \cup {"spawn", "name", "poll", "probe", "kill", "unlink"}]
    /\ mine \in [Callers -> Pids \cup {NoPid}]
    /\ ended \in BOOLEAN

(* Of several processes started at once one keeps the data root: as long   *)
(* as none was signalled or died by itself, an ensure whose own process    *)
(* has exited leaves a process that holds the lock.                        *)
LoserHasWinner ==
    ~ended /\ (\E c \in Callers : at[c] = "failed") =>
        \E p \in Pids : holder = p /\ proc[p] \in {"holding", "serving"}

(* However the commands and the processes they start race, one process at  *)
(* most can write to the stores, also while it drains after SIGTERM (ADR   *)
(* 0001 par. 2, acquire_data_root_lock), and a race leaves one.            *)
OneWriter ==
    /\ \A p \in Pids : proc[p] \in {"holding", "serving", "draining"} => holder = p
    /\ LoserHasWinner
=============================================================================
