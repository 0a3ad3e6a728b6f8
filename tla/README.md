# SodaMem: a verification project in TLA+

SodaMem is a memory layer for agents: a FastAPI server and an MCP server that
keep one store per user (SQLite, and a ChromaDB index beside it), extract facts
from conversations into it, supersede, archive and erase facts, rebuild entity
profiles and session summaries from them, and answer from them. The models here
are about what is hard to test in it: several threads of one process on one
user's store, steps that read in one lock region and write in a later one,
crashes between two writes, and resources that must be given back.

Paths are relative to the root of the repository.

## 1. Inventory

| part | source | state | operations |
|---|---|---|---|
| store manager | `server/stores.py` | `_cache` (LRU), `_inflight`, `_pending_close`, one lock | `get`, `release`, `lease`, `_evict`, `close_all` |
| vector index of a store | `sodamem/memory/storage/store.py` 354-467 | a ChromaDB System, shared by every open store of a directory | `_init_chroma`, `_close_chroma` |
| job runner | `server/jobs.py`, `server/routes/memories.py`, `server/routes/maintenance.py` | thread pool and its queue | `submit`, `_run`, `shutdown`, `reset_job_runner` |
| control plane | `server/control.py` | SQLite: jobs, request log, api keys, lock contention; data-root lock file | `insert_job`, `update_job`, `reconcile_orphaned_jobs`, `record_request`, `verify_api_key`, `acquire_data_root_lock` |
| fact store | `sodamem/memory/storage/store.py` 693-1068, 1368-1397 | `fact_events`, `fact_edges`, roles, index metadata | `upsert_fact_event`, `archive_`, `supersede_`, `delete_fact_event`, `upsert_fact_edge` |
| graph maintainer | `sodamem/memory/ingest/maintainer.py` | none of its own | `maintain`: merge, extend, contradict, supersede, be superseded on arrival |
| date resolution | `sodamem/memory/ingest/calendar_resolve.py` | none | `resolve_date`, `resolve_range` of a phrase and the day it was said |
| store opening | `storage/store.py` 95-238, `schema.py`, `migrations.py`, `sodamem/versioning.py` | the tables of a file and the stamp in `store_meta` | `open_store`, `migrate` |
| ingestion | `ingest/client.py`, `ingest/extractor.py` | turns, spans, facts of a session | `ingest_session`, `extract` |
| dreaming | `dreaming/__init__.py` | dirty bits, per-user mutex | `dream` |
| session summaries | `sodamem/memory/storage/store.py` 1686-1857, `maintainer.py` 645-713 | `summary_syntheses` with two revisions and a dirty flag | mark, build, archive |
| retrieval | `retrieval/search.py`, `fusion.py`, `vector.py` | none | `search` over channels, merging, ranking, showing |
| keyword index | `retrieval/bm25.py` | caches keyed by `write_version` | build, look up |
| tools | `tools/__init__.py` | none | `search`, `explore`, `count`, `inspect`, ... |
| context and evidence | `context/*`, `answer/context_offload.py` | the records and aliases of one question, the cards a planner was sent | `ingest`, `reader_rows`, `compact_cards`, `project`, `build_context` |
| answering | `answer/*` | a bounded tool loop | `answer` |
| language models, usage | `llm/*`, `server/usage.py` | counters of a provider, totals of the server | `complete`, `record` |
| webhooks | `server/webhooks.py` | bounded queue and counters, one worker per dispatcher | `dispatch`, `flush`, `close` |
| metrics, settings | `server/metrics.py`, `settings.py` | counters | per request |
| CLI daemon | `sodamem_cli/daemon.py` | pid file; the server process it starts | `ensure`, `stop`, `status` |
| coding-tool hooks | `sodamem_cli/hooks.py` | a cursor file per session | `retain`, `recall` |
| MCP server | `mcp_server/*` | a store manager of its own, or none | tools |
| CLI installation | `sodamem_cli/install.py`, `targets.py` | configuration files of coding tools and their backups | `install`, `install_hooks` |
| benchmark runs | `benchmarking/run_s500.py` | `answers.jsonl`, `summary.json` | a run, its resumption, its score |
| console, SDK, adapters | `console`, `sdk-ts`, `adapters` | none on the server | |

Interaction. A route borrows a store from the store manager, calls the ingestion
client or the store, and gives the store back; with `async_mode` it hands the
borrow to a job, and the job gives it back. The store manager opens and closes
stores, and with them their chroma Systems. Ingestion hands each fact to the
graph maintainer, which reads and rewrites rows of the fact store, marks
summaries dirty, and at the end of the session sets the dirty bits dreaming
lives on. Dreaming hands its profiles to the same maintainer. A `Store` holds
its lock during one method's SQL and no longer.

What makes each part correct, and what makes it hard:

* **Store manager**: a store is not closed while borrowed; every opened store is
  closed; counts are exact. Hard: eviction, release and reopening of one user
  interleave, counts are kept per user while handles are per opening.
* **Jobs**: a row says what happened; a job that was accepted ends; a borrow ends
  with the work. Hard: crash between work and row, failing writes, retention.
* **Control plane**: a revoked key stays out; a refused submission leaves no row;
  the one connection all requests share is never stuck. Hard: a failed statement
  leaves its transaction to the next caller, and a refused process writes to the
  same file.
* **Fact store**: rows and edges tell the same supersessions, an erased fact
  stays erased. Hard: read-modify-write across lock regions by PATCH, DELETE and
  ingestion jobs.
* **Graph maintainer**: what is current does not depend on the order of
  ingestion, supersession has no cycle. Hard: each fact is compared with what is
  there when it arrives, and is never looked at again.
* **Date resolution**: the periods that phrases name fit together, and a name
  without a year is the nearest. Hard: two calendars, ends of months, leap days
  and months, holidays on the day of the session itself.
* **Dreaming**: an entity has one current profile; every fact gets into it.
  Hard: facts and dirty bits arrive during a rebuild, cycles are cut and killed.
* **Summaries**: a summary that is recalled is not stale. Hard: rebuilds from
  older reads commit after newer ones.
* **Opening**: what is opened has all its tables and is what its stamp says. Hard:
  a first opening or a migration cut in the middle, two processes at once.
* **Ingestion**: every turn of a session is judged by somebody; a fact is grounded
  and dated in order; its project is the one it was told in. Hard: answers cut
  off, garbled or missing, and a merge of sessions told in several projects.
* **Retrieval**: a search sees what was written before it, shows what was current,
  once. Hard: it reads indexes, rows and evidence at different times, and the
  index is cached.
* **Tools**: pages make up the ranking; what is near enough is explored; a count
  counts once. Hard: each page is computed anew; ends of windows and of days.
* **Language models**: what was spent is counted, and a caller learns whether its
  own completion was cut off. Hard: providers are shared between jobs, and
  retried.
* **Answering**: "sufficient" is said only when the rules are met, and what the
  reader is told it can see. Hard: the planner may propose anything, the budget
  ends anywhere, evidence is capped, filtered and merged.
* **Evidence**: what was found stays findable under all its ids, what is selected
  is shown, with its date, and no card is sent without its text before the
  text was. Hard: rows of one source come under several ids, cut in several
  places, and cards lose their places to others between two steps.
* **Daemon and hooks**: one process writes; a turn is neither passed over nor
  ingested twice. Hard: races of short-lived processes, lost answers, killed
  hooks, and slices of a session that are kept under the same keys.
* **MCP server**: what a tool said is so, whichever way it reached the stores. Hard:
  answers that come too late, a service that is restarted, two modes.
* **Installation**: the user's file keeps what the user put there. Hard: our entry
  is found again in a file others edit; the command dies.
* **Benchmark runs**: the score is of the answers, and an answer is paid for once.
  Hard: killed runs, failed questions, other selections.
* **Webhooks**: an accepted event is told once, in order. Hard: a queue at its
  limit, a singleton made without a lock.

## 2. Modules

| module | models | state and actions |
|---|---|---|
| `StoreLease` | what a borrower is promised | a handle is unused, open or closed; open, borrow, give back, close when nobody has borrowed it |
| `StoreManager` | `server/stores.py` | the three tables with the LRU order; `GetCached`, `GetOpened` (with eviction), `Release` (with the deferred close), `Abandon` (a route that has no `release`), `CloseAll`. Each is one region of the manager's lock |
| `VectorSystems` | chroma Systems under the manager's stores | extends `StoreManager`: `Next2` conjoins, to each step of it, what opening and closing do to Systems and to chroma's registry |
| `JobRunner` | jobs and their rows | a request stamps, inserts, enqueues; a worker starts, works, records; `Shutdown`, `Crash`, `Restart`, failing writes |
| `ControlPlane` | the connection to the control database | a request arrives, is verified, handled (`Reads`, `Mint`, `Revoke`, `Submit`) and recorded; `UpdateJob` of a worker; `Contend` of a refused process; `Stop`, `Restart` |
| `FactStore` | fact rows, SUPERSEDES edges, index metadata | one action per lock region of PATCH, DELETE, purge and `maintain` (`Extract`, `Judge`, `Close`, `WriteEdge`, `Store`), and one for each index write after it |
| `Maintainer` | what `maintain()` decides | `Maintained(store, assertion)`, a function of the rows and edges and of a fact that arrives; the actions `Ingest`, `Patch`, `Archive` apply it, one at a time |
| `Calendar` | `resolve_date`, `resolve_range` | the day of a session, `Later` is the next; one operator for each form of phrase gives the day, month or range it means |
| `Dreaming` | dirty bits and profiles | ingestion's `StoreFact`, `MarkStale`; a cycle's `Begin`, `Rebuild`, `CloseRivals`, `WriteProfile`, `ClearStale`, `Finish` |
| `SummaryRevision` | one session's summary | an ingestion's `Store`, `Mark`, `ReadRevision`, `ReadFacts`, `Commit`; closing and erasing of facts; `Recall` |
| `StoreOpening` | `open_store` by two processes | `Begin`, `Connect`, `CreateMeta`, `CreateTables`, `Migrate`, `Stamp`, `Adopt`, `Cut`, `Close`: one action per statement that is durable by itself |
| `Ingestion` | sessions that are brought, and what the model answers | `Store` (turns, spans), `Gather`, `Flush` and `EndWindows` of a window, `Ask`, `Read` of an answer (take, halve, ask again, fall back), `Outage`, `Stamp`, `Maintain`, `Die` |
| `FactItem` | what becomes of one item of an answer | `Extract`: citations, kind, modality, dates, in the order of the code |
| `KeywordIndex` | the cached BM25 index | a writer's write and bump of `write_version`; a searcher's look at the cache, at the version, its read of facts, its entry into the cache |
| `Retrieval` | one search beside a writer | the stages of the fusion and of the wide search: channels, second hop, merging, ranking, showing |
| `MemoryTools` | four tools of the planner | paging a ranking, exploring edges, counting into a roster, looking up the id on a card |
| `EvidencePool` | the rows of one question | `Observe` (merge what a tool returned), `Consult` (cards for the planner, in full or without text), `Read` (rows of the reader), `Build` (a prompt within a budget) |
| `AnswerLoop` | the planner's loop and the reader's context | `Garbled`, `Update`, `Rebuff`, `ProposeCalls`, `CallTool`, `EndStep`, `ProposeFinal`, `SettleDebt`, `Judge`, `Fallback`, `Read` |
| `Daemon` | `sodamem daemon` and the processes it starts | `EnsureBegins`, `Spawn`, `WritePid`, `Poll`, `Probe`, `GiveUp`; `StopBegins`, `Kill`, `Unlink`; of a process `Boot`, `Serve`, `Exit`, `Crash`, `Recycle` |
| `HookRetain` | the retain hook | `Start`, `Resolve`, `Read`, `Add`, `Truncate`, `Write`, `Killed`; the tool's `Append`, `Complete`; the service's `JobEnds`, `JobForgotten` |
| `McpBackend` | tool servers and the service | `Start`, `End`, `ServiceStarts`, `ServiceStops`; of an add `StoreTurns`, `ReadRow`, `Answer`, `Fail`, `GiveUp`; `Delete`; `LocalSearch` and `RemoteSearch` of a ranking |
| `Install` | one configuration file of a coding tool | `Save` by its user; of a command `Begin`, `Look`, `CopyBegins`, `CopyEnds`, `Load`, `WriteBegins`, `WriteEnds`, `Die` |
| `ModelCalls` | completions and what is counted of them | `Ask`, `Text`, `Empty`, `Reject`, `Break`, `ReadFinish`, `FallBack`; `Reopen` of a store, `Finish` of an operation |
| `BenchmarkRun` | a run of the evaluation | `Launch`, `Ask`, `Reply`, `Look`, `Abort`, `Kill`, `Score` |
| `Webhooks` | change events | `Look`, `Make`, `Dispatch` of a request; `Take`, `Deliver` of a worker |
| `Writing`, `Derived`, `Reading`, `Processes` | several of these side by side | the variables of each part, and `part` |
| `StoreManagerProofs`, `JobRunnerProofs`, `ControlPlaneProofs`, `WritingProofs`, `DerivedProofs`, `ReadingProofs`, `BenchmarkProofs`, `ProcessesProofs` | | the theorems of section 4 |

Parts that share no state, or share it only through a call that both sides
model, stand side by side in a module with the constants and the variables of
all of them: an execution of it is one of one of its parts, and `part` says of
which. `Writing` has `FactStore`, `Ingestion`, `FactItem` and
`StoreOpening`; `Derived` has `Maintainer`, `Dreaming`, `SummaryRevision` and
`Calendar`; `Reading` has `AnswerLoop`, `EvidencePool`, `MemoryTools`,
`Retrieval` and `KeywordIndex`; `Processes` has `Daemon`, `HookRetain`, `Webhooks`,
`McpBackend`, `Install`, `ModelCalls` and `BenchmarkRun`. A property of such a
module that begins with `part = ...` is a conjunction of named properties of
that part. `MC*` modules give the constants of the small instances.
Operators named `Mut*` are wrong variants of a definition, each the mistake a
change of that code could make; they are used by nothing in the specifications,
and show that a property can fail.

How the modules fit together. `VectorSystems` is composed with `StoreManager`
step by step, and `StoreManager` implements `StoreLease`. What `JobRunner` calls
`borrow` is what `StoreManager` counts as one borrower. `ControlPlane` has the
rows and the transactions of the job table, `JobRunner` what they say.
`FactStore`, `Maintainer`, `Dreaming` and `SummaryRevision` model the same fact
rows as seen by four users of them; each has the fact operations that matter to
it. `Ingestion` is what comes before them: which facts are extracted and where
they belong; a `Maintain` of it is the run of one `Ingest` of `Maintainer`.
`Retrieval` looks into `KeywordIndex` once for each channel and `MemoryTools`
pages what it returns; a `CallTool` of `AnswerLoop` is one use of a tool, and an
`Observe` of `EvidencePool` what is kept of it.
`ModelCalls` is below `Ingestion` and `AnswerLoop`: where they have an answer
that is cut off or missing, it has the provider that says so. An add of
`McpBackend` is one ingestion of the service, or of the tool's own process.
`Maintainer` has all that `maintain()` decides, run to its end; `FactStore`
has the order of its reads and writes among those of others, and one slot.

Abstractions. Text, embeddings and scores are left out; a profile's or a
summary's text is the set of facts it tells. One job, or one writing request,
is also the fact it extracts. In `Maintainer` a fact's text is whether it has
a word like "now", its times are half days and its numbers small ones. In
`FactItem` days are small numbers, and what a text contains is part of the item.
In `EvidencePool` a text is a name and a length, and a
date has one part, two or three; how well a record fits is any order.
Of a quantity it
keeps whether a row tells one.
An add of `McpBackend` brings one turn, so that what a session has is what the last
add to it brought; of a search it has a ranking in which the scope filter (`search.py:174`)
comes after the limit. The ranking itself is taken not to depend on the limit, which is so of
the default route, the fusion, and not of `wide` (`search.py:243`). `HookRetain` has the turns of one session,
each at its position in the request that brought it.
What `--count` lets a benchmark run ask is any part of what is open, not empty unless that is.
In `Retrieval` scores are any that the code may compute; in `ModelCalls` a
response is one token. In `Install` a file is what it says at each of its places, which are numbers.
Wall-clock stamps are distinct and ordered.
History variables (marked so) are written and never read by a guard.

## 3. Runs

| run | bounds | what it shows |
|---|---|---|
| `store_manager` | 3 borrowers, 3 users, a cache of 2, every user opened at most twice, one abandoned borrow per user | Eviction, deferred closes, abandoned borrows and `close_all` in every order never close a borrowed store, keep the counters exact, and implement `StoreLease`; the index of an open store answers unless a store of the same user that was open together with it was closed |
| `store_leak` | 2 users, a cache of 1 | **violated**: a user evicted twice while borrowed has a store nothing closes |
| `jobs` | 3 requests (one of which never gives its store back), 2 workers, a cap of 2 rows, one crash, one failed write, one shutdown | Rows tell what happened, unfinished rows have a worker, the borrow spans the work and is given back twice only when the pool ran out of threads, terminal is final, accepted jobs end |
| `control` | 2 requests, 1 key and the bootstrap key, 2 jobs, a cap of 1, the log on and off | A revoked key stays out, a refused submission leaves no row, a transaction left open ends as long as requests are logged |
| `fact_store` | facts: one stored fact, a PATCH, an ingestion, an archive, a purge, one crash; sessions: two jobs, three turns in one window or two in two, and one turn, one death; items: about 1500 of them; opening: two processes, three builds, one crash | A closed version has its edge and an edge its closed version, except for what a crash cut off, a purge erased or a merge wrote back; the index agrees when no two writes to it overlapped; every turn is judged, and facts stay in the projects they were told in; what is taken of an answer is grounded and dated in order; a store that is opened is whole and as it is stamped |
| `fact_purged` | one stored fact, a PATCH, a purge | **violated**: a purge is undone by a writer that had read the row |
| `derived` | facts: 4 operations over 3 pools of 5 or 6 assertions; profiles: 2 callers, 3 facts, 2 entities, a crash; summaries: 3 ingestions, a crash; dates: the days of 2022 to 2024, those around 29 February 2000, every new year of 1903 to 2098 | What is current is what no fact outranks; supersession has no cycle, and what was superseded stays so however often it is told; one current profile, but for what only the assistant told, nothing is left closed and clean, a fact in no profile has its bit unless it raced; a summary that is recalled tells every fact that marked it; the periods that phrases name meet without gap or overlap, and a name without a year is the nearest of its kind |
| `correction_stale` | two operations | **violated**: a correction that dates further back than its target leaves no version current |
| `answer` | loop: 3 steps, 2 rows, 2 claims, 5 calls of which a decision names one, a cap of 1 selected row, the default settings and their reverse; search: 3 facts, 2 spans, a summary, 2 entities, one write; index: 2 writers, 2 searchers, 2 writes, 2 searches each; tools: 3 facts, pages of at most 3, 4 edges, days of 2 hours; evidence: 2 calls that return 4 sequences of 5 records or look up 3, one id selected and one added, 2 cards | Verdicts are earned: sufficient covers what is owed, abstention is proven; claims are supported by what is selected and reach the reader, no row of the evidence is lost, no selected text, no date but for a quantity, and no card withheld; a search sees every write that had returned, shows what was active while it ran, and what a channel found, once; the tools tell what the rows say |
| `processes` | daemon: 2 commands, 3 pids; hook: 2 hooks, 3 lines, 2 jobs of 1 turn; webhooks: 3 events, 3 dispatchers, a queue of 2; MCP: 2 tool servers and the service, 2 turns, 3 adds, 2 session ids, rankings of up to 4; install: 2 commands, 2 entries, one death; models: 2 operations, 1 model, 2 openings; benchmark: 3 questions, 2 selections, 2 runs, one kill | One process writes, a refused one leaves a winner; the cursor passes nothing that was not ingested; events are accounted for; what a tool said is stored or deleted is, but for what a later add to its session overwrote, and both modes find the same but for what the limits cut; the user's entries are kept; every response is counted, and a caller is told of its own whether it was cut off; answers are paid for once, the score is of them, and the chance it states of a difference is that of all outcomes counted one by one |
| `turns_overwritten` | as `processes` | **violated**: the store has lost turns that the cursor has passed, though each of their jobs succeeded |
| `toml_reinstall` | 2 commands, 1 entry | **violated**: a second install leaves the rest of the first one's table in the file |

Why the bounds are enough. Each is the least at which the case it is there for
happens. Two openings of one user and three borrowers let a user be evicted
while borrowed, reopened, and evicted again while somebody else holds the first
store. Two rows under the cap and three jobs let retention delete a job that
runs. One purge, one archive, one correction and one ingestion are every pair of
requests there is. Three ingestions let an old rebuild commit after two newer
ones. Four operations on facts let two rows supersede each other by way of a
third, or a closed row be told again between two others. 2022 has the day of
Laba twice, 2023 a lunar leap month, 2024 a leap day, and the years from 1903 to
2098 are those the lunar tables know with two years to either side. Three planner
steps let the loop search, settle a debt, and be cut. Three
pids let a number be used again while two commands still hold numbers of their
own. Two turns of one window let a cut-off answer be halved and one half fail.
Two searchers and two writers let an index be built from facts read before a
write and entered after a newer one. Two commands let an install find what
another left, whole or cut. Two openings of a store let an ingestion go on with
the provider of the old one. Two turns and three adds let an add overwrite what another has said is stored. Two runs and a kill let a run resume from a torn
file. Counters that the code does not bound (crashes, failed writes, shutdowns,
lines, jobs, abandoned borrows, kills, writes, calls) are bounded by constants named `Max...`.

Deadlock is not checked where every request may have been answered, which is
all of the runs: a model without a next step is a server at rest.

Fairness. Only `jobs` and `control` have liveness properties. `jobs`: threads
of requests and workers run on (they wait for nothing but the pool), each job on its own, a
new runner is made when one is asked for, and a server
that went down is started again (the restart policy of the container, or the
next hook that calls `ensure`); nothing is assumed of crashes, failed writes and
shutdowns. `control`: requests run on, a refused process ends, a stopped server is
restarted, and a caller with the bootstrap key keeps calling (strong fairness,
since its request can only arrive while a slot is free): the console polls.

## 4. Proofs

Eight modules hold theorems, for every value of the constants. What is assumed of
these are the named assumptions of the component (`StoreManagerAssumption`,
`MaintainerAssumption`, `JobRunnerAssumption`, `ControlAssumption`,
`FactStoreAssumption`; `ConfigAssumption`, `CallAssumption` and `EvidenceAssumption` of `AnswerLoop`), or of the module it is a part of
(`ReadingAssumptions` for `KeywordIndex`, `WritingAssumptions` for `Ingestion`, `FactItem` and
`StoreOpening`, `DerivedAssumptions` for `Dreaming` and `SummaryRevision`,
`ProcessAssumptions` for `Daemon`, `HookRetain`, `Webhooks`, `McpBackend`, `Install`,
`ModelCalls` and `BenchmarkRun`), which TLC evaluates in the runs. They say that
constants are what their comments say: sets, numbers, markers such as `None` or
"free" that are no member of the sets they stand beside, and of the questions of
the benchmark that they are finitely many.
The theorems about these parts are stated of the module that has them, as the runs
check them: an execution is one of one part, whose inductive invariant holds.
Each inductive invariant was checked by TLC on the bounds of the run before it
was proved.

| module | theorems | property of the runs |
|---|---|---|
| `StoreManagerProofs` | `TypeCorrectness`, `NoUseAfterClose`, `BooksStayExact` | `BorrowedIsOpen`, `BooksAreExact` |
| | `ImplementsLease` | `LeaseContract` |
| | `NoStoreIsForgotten` | `EscapesOnlyByReopening` |
| | `IndexStays` | `IndexOutlivesStrangers` |
| `JobRunnerProofs` | `TypeCorrect`, `JobsAreAccounted` | `JobIsAccounted` |
| | `TerminalStaysFinal` | `TerminalIsFinal` |
| `ControlPlaneProofs` | `TypeCorrect`, `RevokedIsRefused`, `RowsAreRetained` | `RevokedNeverPasses`, `RowsAreNewestAccepted` |
| `WritingProofs` | `EdgesTell`, `IndexAgrees` | `EdgesTellSupersession`, `IndexAgreesUnlessMuddled` |
| | `StoresStayWhole` | `StoresOpenWhole` |
| | `FactsStayUsable` | `FactIsUsable` |
| | `SessionsStayAccounted` | `SessionIsAccounted` |
| | `WritingIsTyped` | `WritingTypeOK` |
| `ReadingProofs` | `SearchesSeeReturned` | `SearchSeesReturned` |
| | `VerdictsAreEarned`, `ClaimsHoldUp` | `VerdictIsEarned`, `ClaimsAreSupported` |
| | `SearchesStayFaithful` | `SearchIsFaithful` |
| `DerivedProofs` | `CurrentIsWhatIsUnbeaten` | `CurrentIsUnbeaten` |
| | `NoCycleOfSupersession` | `SupersessionAcyclic` |
| | `RecalledTellsMarked` | `RoutableTellsMarked` |
| | `ProfilesStayKept` | `ProfilesAreKept` |
| | `EdgesLeadToRows`, `DerivedIsTyped` | `DerivedTypeOK` |
| `BenchmarkProofs` | `AnswersStayScored` | `ScoreIsEarned` |
| `ProcessesProofs` | `OneProcessWrites` | `OneWriter` |
| | `CursorStaysRight` | `CursorIsRight` |
| | `EventsStayAccounted` | `EveryEventAccounted` |
| | `ToolsTellTheTruth` | `ToolsToldTheTruth` |
| | `CutOffStaysOwn`, `ResponsesStayCounted`, `CallsStayAccounted` | `CallsAreAccounted` |
| | `ModesStayTheSame` | `ModesAgree` |
| | `UsersKeepTheirs` | `InstallKeepsTheUsers` |
| | `ProcessesAreTyped` | `TypeOK` |

**The store manager.** `IInv` is the conjunction of the type invariant, `BorrowedIsOpen` and
the two halves of `BooksAreExact`. `BorrowedIsOpen` alone is not inductive: a release closes what
waits for it when the counter of the user reaches zero, so one must know that
the counter is zero only when nobody borrows (`InflightCountsBorrows`, lemma
`BorrowIsCounted`), which rests on cardinalities of sets of borrowers; and a
`get` hands out what is in the cache, so one must know that this is open
(`TablesHoldOpenStores`). Each action has a lemma that it preserves `IInv` and
that it is a step of `StoreLease` or stutters; `NextStep` joins them.

`NoStoreIsForgotten` needs the order of the cache. The second loop of
`_evict_lru()` takes the oldest entry whoever borrows it; that what it moves to
the deferred closes is borrowed, so that a release will come for it, follows only
because the first loop has taken every entry that is not (`LoopTwoTakesBorrowed`),
and that there is an oldest one because the order stays linear on a finite cache
(`Line`, `OldestExists`, by well-founded induction). `IndexStays` is about the
composition with chroma's registry (`Spec2`): its invariant `Creators` says that the
System of a store, like what the registry has for a directory, is one that a
store of the directory was opened on and named after; `EntriesRun`, that an entry of the
registry that belongs to an open store is of a System that runs; and `SharersMet`, that
stores of one user which are open are known to have met. A store that opens shares
the System of the entry, or makes a new one that nobody has; only the close of a store
on a System stops it (`StoppedByUser`), and an open store on it has met that one.

**The maintainer.** `CurrentIsUnbeaten` says of a closed fact that something outranks
it; to close the next one correctly that something must itself be current, since
`maintain()` compares an arriving fact with current ones only. The invariant
`IInv` says so (`Ranking`). Outranking is asymmetric and, where slots do not
overlap without being the same, transitive (`OverIsAsymmetric`,
`OverIsTransitive`: a lexicographic order of three numbers and the row's place,
and authors of whom the user comes first). `OneMore` is the step for any such
relation: whoever was outranked by a fact that is closed now is outranked by the
new one. `IngestAdds` says what `maintain()` does to the rows when nothing is
merged, `SameDecides` that closing a row changes nothing that is compared. That
facts are comparable is not assumed of a state but part of the property, and
shown to have held before whenever it holds after. The right-hand side of the
property does not mention any order of arrival, so there is none that matters.

`NoCycleOfSupersession` allows what the first theorem excludes: slots that overlap,
facts told again, extensions that change when an event happened, archives. Its
invariant is that status and edges agree (`Agrees`): what an edge of supersession leads to is not
current, and who is superseded has such an edge. A cycle would need an edge that closes it.
`maintain()` draws edges from the row it puts to rows that it closes, and from a current row to the one it puts;
both were current when they were compared (`MaintainedPuts`), so that no edge led to them. A fact
that is told again is compared with nothing (`Compares`), and this is what keeps a row that was
superseded from superseding what took its place. PATCH closes its target by hand after
it was compared (`PatchAgrees`); it keeps the agreement and may close a cycle.

`EdgesLeadToRows` is the type of the maintainer's store (`GoodStore`): `maintain()` puts
one row, in a place that is there or the next, and every edge it draws leads from
that place to a row that it has found (`MaintainedIsGood`). `DerivedIsTyped` joins it with
the types of the parts beside it.

**The job runner.** `JobIsAccounted` is about rows, workers and borrows; its
induction needs what the threads have in hand: who has a terminal row is done or
lost (`RowFitsPhase`), the pool's queue holds each queued job once
(`QueueHoldsQueued`), a crash leaves no thread (`DownIsQuiet`), and a borrow is
where the request or the worker has it (`BorrowFitsPhase`). `TerminalStaysFinal` is
an action property: `RowFitsPhase` leaves no thread that would write such a row, and
`restart` reconciles only rows that are not terminal. The type invariant, which no run
lists any more, is proved too (`TypeCorrect`), as is that of the control plane.

**The control plane.** A late request (one that came after the revocation was told)
that is not yet verified has a key that is told revoked (`LateIsRefused`), and a
key that is told revoked is revoked in the table, committed, whatever
transaction is open (`ToldIsRevoked`). `RowsAreRetained` needs that the newest of
the newest and one more are the newest of all (`NewestOfNewest`, from
`LastOutside`, a well-founded induction over finite sets of numbers).

**The fact store.** Each half of `EdgesTellSupersession` is kept by requests that are
between two lock regions. `RequestsFit` says what a request has in hand at each of
them, `HeirStands` that the winner it has chosen still has a row or is the fact it
stores next, `SupersededIsExplained` says the first half also of the copies that are yet to
be written, `VictimsAreClosed` and `EdgesPointAtClosed` the second half of victims whose
edge is next. A step of one request disturbs the others only through rows and
edges, and these change one way as long as nothing is erased (`HeirsStayStanding`,
`ExplanationsLast`, `ExcusesLast`). `IndexFollows` says of a fact that is not muddled
that at most one index write is due, and that this one writes what the row says.

**The keyword index.** A search may use an index whose version equals the store's.
`Good` says of an index, in the cache or on its way there, that were its version
the store's it would have every write that had returned, and that it has the
rows of every writer that read the version before it did: such a writer may yet
write that very version. Where a stalled writer took the version back
(`receded`), nothing is claimed; the property excepts these handles too.

**Session summaries.** `RoutableTellsMarked` is kept by a commit because a rebuild whose
revision is still the revision has read every fact that was heard
(`SeenIsCurrent`), and whoever is heard afterwards advances the revision.

**The daemon.** Whoever serves or drains holds the lock (`WriterHolds`). That a race
leaves a winner needs that, as long as nothing was signalled or died, a process
has ended only because another has the lock (`LockIsKept`), and that a command
knows the pid of its own process and nobody has been given it since (`MineIsMine`).

**The hook's cursor.** A hook copies the file, works for a while and writes back, and
two of them may. `CursorsAreSound` says of every position, in the file or in the
hands of a hook, that the turns up to it are ingested, or sent with the job it waits
for (`SuccessIsIngested`), or were read half written; it holds however hooks overlap.
That nothing is ingested twice holds only while nothing is doubtful: then one hook is
at work, and the position it has, or the file, tells all that is ingested and all that
may yet be (`Tells`). That what is read lies after what was read before rests on
the transcript being written in order (`WrittenInOrder`).

**The webhooks.** What a dispatcher has accepted is what was taken up followed by the queue
(`Accounted`); taking one up moves the head of the queue to the end of the other
(`MovesOver`). The theorem is about each dispatcher there is: nothing is said of
which of two racing requests makes the one that stays.

**Opening a store.** `StoresOpenWhole` needs for each statement of `open_store` what the
ones before it have left (`StageTells`), and that the stamp is the last of them
(`StampedIsWhole`). Who has entered is configured as the stamp says unless two first
openings overlapped (`StampIsTheirs`). An opener that adopts a stamp which names
no embedder may write it without a look at anybody else because such a stamp is
older than all of them: none of them provisions the store (`OldStampStays`).

**Dreaming.** `OneOpen` is kept by a rebuild because it closes all others that it may
first, and only who holds the mutex is at work (`HolderWorks`). What only the assistant told
closes nothing that the user told: a profile of which the user's facts were deleted may be
left beside the one before it. While no fact is deleted a profile tells what the one before
it told, and may close it. That an
entity does not end without a current profile is about the validity of profiles:
a new one is written closed if one that is not older stands. `ClosedAreOlder` and
`DaysDiffer` say that this does not happen while no fact of the entity is deleted,
`RowsAreTold` that a profile's day is that of the last fact it tells, and `Drafted`
what of this the draft has at each statement of the rebuild. `SpansTell` says that a
rebuild has read what was marked when it began, which makes clearing the bit right.

**The planner's loop.** A verdict is about a set of claims, an evidence set and a history
of calls, and is given on four ways out. `Verdict` is what holds once a question has
ended (`NoVerdictYet`: and says nothing before); `ClaimsAreRetrieved` and `SearchIsFirst`,
that no evidence comes before the question's own search has run, are what make
the last resort, where nothing was selected, an honest one.

**The MCP server.** Three hands write one memory: an add that a tool waits for, one that
nobody waits for any more, and a delete. `DeletedStaysOut` says of a memory that is not
raced that once its row is archived, or an add has read that it is, no add at work
has read another status (`Gone`); it is what an add that is about to write relies on. `AddedOnce`
is about turns that no error was told of: one add at most has such a turn in hand,
it is waited for, and what is stored of the turn is this add's or was told. What a tool said
is stored can be overwritten only by an add to the same session, and a session that a tool made has one
turn (`FreshIsOwn`).

**A search.** What a search shows it has read in several looks at the store, between
which facts are archived, erased and stored. The theorem says that what it shows was current
at some time since it began, and that a fact any channel hit is shown, unless better ones fill the
limit or it is gone, and is told once. `FoundWasActive` says the first half of all that is
found at any stage; `CreditedIsFound` that up to the merge the facts that were hit are those that are found;
`MergedTellOnce` that from the merge on each of them is told by one unit that is
found, and no two units tell the same fact. The merge keeps the best of each
group of facts that are the same event, which is an equivalence, so that the groups are
disjoint; that the row of the best may be erased after the merge is why
the theorem excepts the facts that went with it. Scores are any numbers.

**Model calls.** That the finish reason is one's own needs to be said of the time in
which it is not yet read: what `complete()` left at the provider is there
(`ReasonStays`) as long as no other operation of that provider was answered.
`ResponsesAreCounted` is about sums over operations. These are counted as sets of
pairs, an operation and the number of one of its responses, so that one response
more is one pair more and the pairs of disjoint sets of operations are disjoint; what a provider has
counted are the pairs of the operations it answered (`ProvidersCount`), and what is entered in
the totals those of the operations that ended, each with a provider of
its own (`TotalsCount`).

**The modes of the tools.** `ModesAgree` compares what a tool server that has the
store answers to a search with what it answers through the service, which ranks fewer. A
result is the set of places of the facts it has, and to cut one is to take the first of a finite set of
numbers (`FirstOf`). `AtMostTheFirst` and `NoMoreThanTheFirst` say how many these
are and when they are all; `SearchesAgree` joins them.

**Installing.** A file is what it says at its places, so that to remove an entry is to leave
its place out and to put one before another is to move what follows. A document that
has of another what is the user's, and nothing else of the user's, in the same order, keeps what that one
kept (`KeepsMoved`): this is the merge into JSON, and the text surgery on TOML
(`SpliceKeeps`), which removes no item of the user because each begins with a bracket. `IntactOrSecured`
says of a file that at most one command has died on that it, and what a
command is about to write to it, keeps what is the user's, unless the backup has what there was
before the first; this needs that the backup is whole before a command writes
(`SecuredInTime`), and that one that is begun anew has had nothing in it (`BackupFits`).

**Items of an answer.** `FactIsUsable` is about a function of the item, and its proof goes
through the function: at most one span is nearest to a quote (`OneIsNearest`), what
the item is said of is not younger than any of its sources (`GreatestNumber`, by
well-founded induction), and of each way a day may come about that the interval it
ends up in is in order (`DatedInOrder`). The item is any that a model may answer:
`FactItemAssumption` says only of what sorts its fields are.

**Ingestion.** A turn that was gathered is in the window and yet to be handed over, in a
segment that is to be extracted, or judged (`TurnsAreCovered`), whatever the
overlap: what a new window takes over was handed over with the old one. Without overlap these
three follow one another in the order of the turns (`TurnsAreOrdered`). A window that is handed over
(`HandOver`), a segment that is done with (`LeafStep`) and one that is halved or asked for again
(`RequeueStep`) keep both. A retry is of a segment that cannot be halved (`GivenUpLast`). What a job
has drafted cites turns of its own session (`DraftsAreTold`), which are stored by
then (`StoredFirst`); facts that are merged are told by the jobs of both
(`FactsAreTold`). The conjunction of the types of all parts of `Writing` is a theorem as well.

**Types of the processes.** `ProcessesAreTyped` joins the inductive invariants of the seven
parts of `Processes` (`PartsFit`) with what these did not need: of the documents that an installation reads, merges and
writes, that each item is the user's or ours (`FilesStayFit`); of completions, that
retries stay within `POLICY_RETRY_ATTEMPTS` and `empty_content_retries` (`RetriesStayFit`); of
dispatchers, that none has counted more events than requests were answered
(`CountsStayFit`), though two may exist.

**Benchmark runs.** The score is computed from a file to which rows are appended by
several workers, of whom a kill may cut one in the middle of a row, so that the next run
appends to that row's rest. `AnswersWereSaid` says that the rows of the file
without an error are answers that were said, one at most to a question, `AskedAreOpen` that no
question that has one is asked or about to be.
`LostIsBounded` says how many are missing: a kill accounts for two, the row it cut and the one that
is then appended to the rest, and as long as the file ends in such a rest, or in a row without its
newline, part of that has not happened yet (`Weight`). When
nothing was killed every answer is in the file (`NothingIsLost`). `ScopeIsAsked` follows a
question of the selection from what is to do, or is left by `--count`, to what is being asked or has a row, and
`FreshArePinned` what the substitution check is yet to see. `ScoreIsRight`
joins these when the last worker has ended, through the sums that the score is: that of a set of rows, one
for each question, is the number of the questions (`SingleRowsCount`).
That the chance is a number is a theorem too: sums over intervals, factorials and choices
recur as the library's definitions say (`NumbersRecur`, `SubsetsRecur`).

Model-checked only: `DatesAreRight` of `Calendar`, which is a table of years;
`ToolsTellTheStore` and `PoolLosesNothing` of `MemoryTools` and `EvidencePool`, which
compute over sequences with folds: what these return for every input is an
induction over data, which is out of the prover's reach; `ChanceIsExact`, that
McNemar's sum of choices is the number of the outcomes that are as extreme, which
is an induction over sets of subsets; the conjunction of the type invariants of all parts of
`Reading`. Liveness (`AcceptedEnds`, `TransactionEnds`) and
`ENABLED` are out of its reach as well.

## 5. What the code does that its documents do not say

The runs marked **violated** are disagreements with a quoted line:

1. `server/stores.py:450` "Deferring is not a leak". `_pending_close` has one
   place per user, and `_evict` overwrites it, `close_all` keeps the older one.
2. `storage/store.py:985` "irreversible erase". A merge or a supersession that
   read the row before writes all of it back.
3. `sodamem_cli/install.py:141` "Replace (or append) exactly our block". The
   pattern ends at the first bracket after our header, which is that of our own
   `args`, and what follows it is left beside the new table: a second install of
   a TOML target writes a file that is no TOML.
4. `server/routes/memories.py:385`, `storage/store.py:932` "no current version".
   PATCH ingests its text like any other, so that an older date makes it
   superseded on arrival by the very fact it corrects, which is then closed in
   its favour.
5. `sodamem_cli/hooks.py:152` "`committed` is what is known stored". Every slice of a
   transcript is sent under the id of its session, turns and spans are kept under the
   session and their position in the request (`ingest/client.py:208`, 232), and both are
   upserted (`storage/store.py:549`, 642): the second slice overwrites the turns of the
   first. An add of the MCP server to a session it was given does so too, and facts that
   were extracted before then cite other turns.

Others were met while modelling. They are steps of the models, so the
properties above hold in their presence, and no property is stated about them:

* stores: a first opening that is cut between its tables and its stamp leaves a
  file that is refused from then on; two overlapping first openings each stamp
  the store, and the second stamp stays.
* stores: two stores of one user are open at once after an eviction; routes
  without `release` keep a user counted for ever, so that its store is never
  idle; the chroma System is one of all the stores of a path and not "the per-store
  ChromaDB system" (`storage/store.py:442`), so that the store that was opened after an
  eviction loses its index, and is handed out without it, when the older one is closed
  (`IndexOutlivesStrangers` excepts it).
* jobs: a pool that cannot start another thread has queued the work before it
  raises, so that the request ("Never submitted, so nothing will ever release it",
  `server/routes/memories.py:129`) and the worker both give the store back.
  `JobRunner` has this when another worker runs, who takes the work, and
  `JobIsAccounted` says that there is no other way to it; in `StoreManager` a release is
  of a borrow, and what a second one does to the counts of others is not modelled. That
  the very first thread cannot be started, and the work stays queued with nobody to take
  it, is left out.
* jobs: a submission's stamp is read before the insert takes its lock, so that one
  overtaken by `job_retention_max` others is deleted by its own insert
  (`server/settings.py:93` says that the newest are kept).
* control: with the request log off a transaction that failed stays open, and
  every submission fails from then on; a worker's update may ride on it and be
  lost with it.
* facts: a merge that read a row before it was archived sets it back to active; a fact may be closed in
  favour of one that was purged; PATCH may take the fact of another job for its
  own.
* maintainer: PATCH may close a cycle of supersession; a fact that is told again is
  merged into its row and compared with nothing, whatever became of the row
  (`maintainer.py:195`).
* maintainer: `maintainer.py:503` says "the store is INGEST-ORDER-INDEPENDENT". A
  fact that neither reads like an update nor counts anything is not compared with
  the stored ones (line 479), but a later update is compared with it; corrections,
  and facts whose slots overlap without being the same, depend on the order too
  (`CurrentIsUnbeaten` excepts them).
* ingestion: with `infer=False`, and of a job that fails or still runs, a session
  has no scope (`schema.py:64` says when it is recorded); a fact told again in
  another project is merged into its row and keeps that row's stamp; the same
  session brought again under another project changes the scope of the old one.
* items: when the session time is filled in after the intervals were looked at, a
  validity may begin after it ends.
* retrieval: the limit is applied before the session filter; a group that was
  merged loses the boost of its best member; facts of a span are found by a
  `LIKE` that matches longer ids too.
* tools: exploring starts at nodes with outgoing edges only; an id that has a
  colon is looked up by its last segment; the registry has a search-more that
  nothing dispatches; the worker of a tool that ran out of time goes on with a
  store that was given back.
* MCP: the service is asked for `top_k` results and leaves out those that are no
  facts afterwards, a tool of its own process does both the other way and never
  finds more than the default limit; what belongs to other projects is left out after
  the limit in either mode; deleting an unknown id is an error here and
  "not deleted" there; an add that timed out goes on.
* installation: a hook of the user that names sodamem goes; the backup of a file
  we made ourselves has our entry in it; a backup that was cut is never taken
  again; two installs at once may lose the file and its backup.
* language models: an ingestion enters into the totals all that the provider of the
  open store has counted, each time, so that they exceed "what this deployment has
  spent" (`server/routes/usage.py:1`) when two share a provider; whether a completion was cut off is read from a provider that
  other jobs of the user call too; an answer that fails is not in the totals.
* benchmark: `load_arm` ("a refusal if the run did not finish") accepts a killed
  run that has no summary, or an old one; a substituted model ends the run only
  after everything queued was asked; `errors` has questions that succeeded later;
  answers of other selections fill the count behind `incomplete`; a torn line
  costs the next row too; a judge that fails counts as a miss.
* dates: the Laba of a lunar year falls in the January after it, and the code
  takes it for the one of the civil year, so that early in January the bare name
  and "last Laba" are ahead (`calendar_resolve.py:754` says "not after anchor");
  "chinese new year's eve" and "labor day (china)" are found as the American
  days of those names; "last March" said in March is the current month; a
  29 February that cannot be moved into the year before or after stays on the
  wrong side of the session (line 649 says why).
* summaries: the first build misses facts that arrive during it (a summary that
  does not exist cannot be marked dirty); a summary goes on telling facts that
  were closed, until one of another ingestion marks it.
* profiles: the dirty bit is deleted whoever set it when (`storage/store.py:1606`,
  `dreaming/__init__.py:240`), so that a fact stored during a rebuild waits for
  the next mention of its entity.
* profiles: a profile rebuilt on the day of the old one is merged into its row,
  and the old text stays (`maintainer.py:253`; the comment at 294 expects the
  new one), and is compared with no other; one that tells only what the assistant told
  closes none that tells what the user told (`maintainer.py:514`), so that after the
  user's facts were deleted two are current.
* answering: a fallback may call an answer sufficient that rests on a claim that
  nothing was found, which a final may not; external evidence of a claim the
  reader is told is filtered out; calls the runtime makes to settle a debt are
  not held to `allowed_tools`.
* evidence: a search and a look at a fact tell a day where only a year was
  resolved (`search.py:579`, `tools/__init__.py:1292` give no precision to
  `_ts_to_iso`, 1253 does), and the merge keeps the longer date, so that the
  reader sees the day; the comment at `tools/__init__.py:1248` expects that it
  does not.
* evidence: of two rows of one text the later one is shown if it tells a date or a
  quantity and the earlier neither (`context/store.py:541`), so that one with a quantity
  and no date hides the date of a selected one.
* daemon: `ensure` looks whether its own process has exited before it asks who
  answers, so that the loser of a race fails while the winner serves
  (`daemon.py:16` says that it exits happy); the pid file names the last process
  started, also when that one was refused, so that `stop` says "already gone" of a
  service that runs; `stop` signals whatever has the number by now.
* hooks: a line read while the tool is writing it is skipped for good; a job the
  service has forgotten is waited for for ever, and the session is never retained
  again; a hook killed while it writes its cursor makes the next one start over.
* webhooks: two first requests may make two dispatchers, and the counters of one
  are reported nowhere.

## 6. What is not modelled

* Prompts, the grammar of the model's answers, rendering, embeddings, the values
  of scores: text and numbers whose properties are about quality.
* Language models, chroma's own storage, the operating system, except as the
  code uses them.
* I/O errors inside SQLite other than a locked database; equal `created_at`.
* The organizers of the context (`context/organizers/*`, `tools/compute.py`): tables computed from the evidence of one answer.
* Tools that read a few rows and return them; the service's plain reads.
* Metrics and settings: counters under one lock, and constants.
* The argument parsing of the CLI, the console, the SDK, the adapters: clients
  without state of their own.

## 7. Plan

1. The reads of `Retrieval` against `FactStore`'s lock regions, instead of against
   whole writes.
2. What `EvidencePool` and `MemoryTools` fold over sequences, stated without the folds,
   as far as a theorem can be had of it.
3. The types of the parts of `Reading` as a theorem; those of the parts with a
   theorem are conjuncts of their inductive invariants already.
