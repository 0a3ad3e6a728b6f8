----------------------------- MODULE Processes ------------------------------
(***************************************************************************)
(* The processes around the stores and their servers: Daemon, HookRetain,  *)
(* Install (the command line), McpBackend (the server of a coding tool),   *)
(* Webhooks and ModelCalls (what a service calls and counts) and           *)
(* BenchmarkRun (the evaluation).  They share no state, so an execution is *)
(* one of one of them: part says of which.                                 *)
(***************************************************************************)
EXTENDS Integers

CONSTANTS
    Callers, Pids, NoPid,                                    \* of Daemon
    Hooks, MaxLines, MaxJobs, MaxTurns,                      \* of HookRetain
    Events, Dispatchers, None, MaxQueue,                     \* of Webhooks
    Agents, Service, Nobody, Turns, Named, Fresh,            \* of McpBackend
    MaxAdds, DefaultLimit, MaxRanked, MaxTopK,
    Commands, Entries, Naming, MaxCrashes,                   \* of Install
    Operations, Models, PolicyAttempts, EmptyRetries,        \* of ModelCalls
    MaxCalls, MaxOpens,
    Questions, Scopes, Pinned, Others, Anchor, Concurrency,  \* of BenchmarkRun
    MaxRuns, MaxKills, NoSummary

VARIABLES
    part,
    proc, holder, pidfile, command, mine, ended,
    line, file, job, sent, ingested, turns, hook, skimmed, doubt,
    global, made, queue, hand, counts, at, accepted, tried,
    how, on, opener, adds, work, spans, row, told, unsure, raced,
    format, config, backup, install, doc, owned, first, created, overlapped, crashes,
    kind, sdk, opened, via, op, calls, summary, finish, seen, book, heard, own, mixed,
    phase, scope, done, todo, busy, over, answers, end, score, runs, kills, said, asked,
    fresh, scored, left

daemonVars == <<proc, holder, pidfile, command, mine, ended>>
hookVars == <<line, file, job, sent, ingested, turns, hook, skimmed, doubt>>
webhookVars == <<global, made, queue, hand, counts, at, accepted, tried>>
mcpVars == <<how, on, opener, adds, work, spans, row, told, unsure, raced>>
installVars ==
    <<format, config, backup, install, doc, owned, first, created, overlapped, crashes>>
modelVars == <<kind, sdk, opened, via, op, calls, summary, finish, seen, book, heard, own, mixed>>
runVars == <<phase, scope, done, todo, busy, over, answers, end, score, runs, kills, said,
             asked, fresh, scored, left>>
vars == <<part, daemonVars, hookVars, webhookVars, mcpVars, installVars, modelVars, runVars>>

D == INSTANCE Daemon WITH at <- command
H == INSTANCE HookRetain
W == INSTANCE Webhooks
P == INSTANCE McpBackend WITH doubt <- unsure
I == INSTANCE Install WITH kind <- format, file <- config, at <- install, mine <- owned
M == INSTANCE ModelCalls
B == INSTANCE BenchmarkRun WITH file <- answers, summary <- score, mine <- asked

ASSUME ProcessAssumptions ==
    /\ D!DaemonAssumption /\ H!HookAssumption /\ W!WebhookAssumption /\ P!McpAssumption
    /\ I!InstallAssumption /\ M!ModelAssumption /\ B!BenchmarkAssumption

(* The variables of the parts that an execution is not of.                 *)
Out == "out"
NoDaemon ==
    /\ proc = Out /\ holder = Out /\ pidfile = Out /\ command = Out /\ mine = Out /\ ended = Out
NoHook ==
    /\ line = Out /\ file = Out /\ job = Out /\ sent = Out /\ ingested = Out /\ turns = Out
    /\ hook = Out /\ skimmed = Out /\ doubt = Out
NoWebhook ==
    /\ global = Out /\ made = Out /\ queue = Out /\ hand = Out /\ counts = Out /\ at = Out
    /\ accepted = Out /\ tried = Out
NoMcp ==
    /\ how = Out /\ on = Out /\ opener = Out /\ adds = Out /\ work = Out /\ spans = Out /\ row = Out
    /\ told = Out /\ unsure = Out /\ raced = Out
NoInstall ==
    /\ format = Out /\ config = Out /\ backup = Out /\ install = Out /\ doc = Out
    /\ owned = Out /\ first = Out /\ created = Out /\ overlapped = Out /\ crashes = Out
NoModel ==
    /\ kind = Out /\ sdk = Out /\ opened = Out /\ via = Out /\ op = Out /\ calls = Out
    /\ summary = Out /\ finish = Out /\ seen = Out /\ book = Out /\ heard = Out
    /\ own = Out /\ mixed = Out
NoRun ==
    /\ phase = Out /\ scope = Out /\ done = Out /\ todo = Out /\ busy = Out /\ over = Out
    /\ answers = Out /\ end = Out /\ score = Out /\ runs = Out /\ kills = Out /\ said = Out
    /\ asked = Out /\ fresh = Out /\ scored = Out /\ left = Out

Init ==
    /\ part \in {"daemon", "hook", "webhooks", "mcp", "install", "models", "benchmark"}
    /\ IF part = "daemon" THEN D!Init ELSE NoDaemon
    /\ IF part = "hook" THEN H!Init ELSE NoHook
    /\ IF part = "webhooks" THEN W!Init ELSE NoWebhook
    /\ IF part = "mcp" THEN P!Init ELSE NoMcp
    /\ IF part = "install" THEN I!Init ELSE NoInstall
    /\ IF part = "models" THEN M!Init ELSE NoModel
    /\ IF part = "benchmark" THEN B!Init ELSE NoRun

Next ==
    /\ UNCHANGED part
    /\ \/ /\ part = "daemon" /\ D!Next
          /\ UNCHANGED <<hookVars, webhookVars, mcpVars, installVars, modelVars, runVars>>
       \/ /\ part = "hook" /\ H!Next
          /\ UNCHANGED <<daemonVars, webhookVars, mcpVars, installVars, modelVars, runVars>>
       \/ /\ part = "webhooks" /\ W!Next
          /\ UNCHANGED <<daemonVars, hookVars, mcpVars, installVars, modelVars, runVars>>
       \/ /\ part = "mcp" /\ P!Next
          /\ UNCHANGED <<daemonVars, hookVars, webhookVars, installVars, modelVars, runVars>>
       \/ /\ part = "install" /\ I!Next
          /\ UNCHANGED <<daemonVars, hookVars, webhookVars, mcpVars, modelVars, runVars>>
       \/ /\ part = "models" /\ M!Next
          /\ UNCHANGED <<daemonVars, hookVars, webhookVars, mcpVars, installVars, runVars>>
       \/ /\ part = "benchmark" /\ B!Next
          /\ UNCHANGED <<daemonVars, hookVars, webhookVars, mcpVars, installVars, modelVars>>

Spec == Init /\ [][Next]_vars

-----------------------------------------------------------------------------
(* The variables of the parts have their types.                            *)
TypeOK ==
    CASE part = "daemon" -> D!TypeOK
      [] part = "hook" -> H!TypeOK
      [] part = "webhooks" -> W!TypeOK
      [] part = "mcp" -> P!TypeOK
      [] part = "install" -> I!TypeOK
      [] part = "models" -> M!TypeOK
      [] part = "benchmark" -> B!TypeOK

(* One process at most may write to the stores, and of several that are    *)
(* started at once one is left (Daemon).                                   *)
OneWriter == part = "daemon" => D!OneWriter

(* The retain cursor passes no turn that was not ingested, and a turn is   *)
(* ingested twice only when an outcome was in doubt (HookRetain).          *)
CursorIsRight == part = "hook" => H!CommittedIsIngested /\ H!TwiceOnlyInDoubt

(* "`committed` is what is known stored" (sodamem_cli/hooks.py): the store *)
(* has the turns the retain cursor has passed (HookRetain).                *)
CommittedIsStored == part = "hook" => H!CommittedIsStored

(* An accepted event is told once, in order, and is accounted for          *)
(* (Webhooks).                                                             *)
EveryEventAccounted == part = "webhooks" => W!EveryEventAccounted

(* What a tool said is stored or deleted is, unless the session was added  *)
(* to again or an add was about to write (McpBackend).                     *)
ToolsToldTheTruth == part = "mcp" => P!AnswersAreTrue

(* A tool finds the same facts whichever way it reaches the stores: this   *)
(* is about two functions, and looked at before any server has run         *)
(* (McpBackend).                                                           *)
NothingRan == on = {} /\ opener = Nobody /\ adds = 0
ModesAgree == part = "mcp" /\ NothingRan => P!ModesFindTheSame

(* An installation keeps what users had in their files (Install).          *)
InstallKeepsTheUsers == part = "install" => I!InstallKeepsTheUsers

(* Every response is counted (ModelCalls).                                 *)
ResponsesAreCounted == part = "models" => M!SpendIsCounted

(* A caller is told of its own completion whether it was cut off           *)
(* (ModelCalls).                                                           *)
CutOffIsOwn == part = "models" => M!FinishReasonIsOwn

(* Both.                                                                   *)
CallsAreAccounted == ResponsesAreCounted /\ CutOffIsOwn

(* Answers are not paid for twice, and the score is of them                *)
(* (BenchmarkRun).                                                         *)
ScoreIsEarned == part = "benchmark" => B!PaidOnce /\ B!ScoreIsEarned

(* The chance that the score is compared with another by (BenchmarkRun).   *)
ChanceIsExact == part = "benchmark" => B!ChanceIsExact
=============================================================================
