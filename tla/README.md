# A TLA+ model of PdM AI

PdM AI is a product-management assistant: business data lives as YAML entities
(PMDF) in a Git repository behind an API server, agents propose and execute
changes, people approve them in a web interface, and a learning loop trains the
agents' models. This directory holds TLA+ models of its stateful parts, TLC
configurations that check them on small instances, and proofs of their main
theorems. Paths are relative to the root of the repository; `API`, `AC`, `SCH`,
`PMDF`, `UI`, `GW` and `KB` stand for `src/services/api-server/src/api_server`,
`src/services/agent-core/src/agent_core`, `src/services/scheduler/src/scheduler`,
`src/packages/pmdf/src/pmdf`, `src/services/web-ui/src`,
`src/services/model-gateway/src/model_gateway` and
`src/services/kb-ingest/src/kb_ingest`.

    tlc -workers 2 -config PmdfStore.cfg MCPmdfStore     model-check an instance
    tlapm PmdfStoreProofs.tla                            check the proofs

## 1. The system

### How it runs

Everything that follows about interleaving rests on three facts of the code.

 1. The API server is one process. The bodies of its `async def` handlers run on
    the event loop, and none of the writing ones awaits anything that suspends
    before its last publish, so they never interleave with each other. Its `def`
    handlers and all `def` dependencies run on a pool of threads, in parallel
    with the loop and with each other.
 2. No file but the PMDF repository has a lock. The lock of the repository is
    between processes as well as between threads.
 3. Files are written with `write_text`, which truncates a file when it opens
    it. Nothing is written to a temporary file and renamed.

The runner, the scheduler, the gateway and the indexer are processes of their
own. The first two talk to the API server over HTTP with time-outs; a process that
ends loses everything but its files.

### Components

| component | state | operations | talks to | what makes it correct |
|---|---|---|---|---|
| Approval workflow and L1 gate (`API/routers/approvals.py`, `approval/`, `routers/l1_execution.py`) | `data/proposals.json`, Approval entities | propose, decide, list; four L1 endpoints behind two dependencies | store, audit log, bus | one recorded decision per proposal, final; nothing is executed unapproved or long after a stop |
| Emergency stop (`API/autonomy/emergency_stop.py`) | `data/emergency_stop.json` | trigger, release, `check_not_stopped` | audit log, agents' guards | what is already under way ends, nothing else begins |
| PMDF store and lock (`API/pmdf_store/`, `PMDF/io.py`) | working tree, index, HEAD, lock file | create, update, save_all, load, history, diff | – | the history is a history of whole operations; no writer waits for ever |
| PMDF CRUD API (`API/routers/pmdf.py`) | – | GET, POST, PUT with schema and reference check | store, audit log, bus | committed references resolve |
| Audit log (`API/audit/log.py`) | JSONL records | append, list, verify chain | – | each record holds the hash of the one before |
| Autonomy levels (`API/autonomy/config.py`) | `data/autonomy.json` | get and set a level | audit log | the file and the audit log agree; one entry per key |
| Chat tasks (`API/routers/chat.py`, `chat/`) | `data/chat_tasks.json` | post, list, transition | runner, callers | a finished task stays finished |
| Runner and chat execution (`AC/runner.py`, `chat.py`, `guards.py`) | the list of a cycle | poll, classify, claim, dispatch, report | API server | each instruction is executed once at most and ends; stop interrupts |
| Business graphs (`AC/graphs/`) | graph state in memory | nodes behind a guard, several API requests each | API server, gateway | only a failed request leaves work half done; a stop lets out only what is past its last guard |
| Event bus and live view (`API/events/bus.py`, `routers/ws.py`, `UI/hooks/useWebSocket.ts`, `UI/state/`) | a queue per subscriber; count and activity in the browser | publish, subscribe, reconnect with back-off | every writer | the view converges to the server's state |
| Budget and block (`API/costs/`, `SCH/budget_monitor.py`) | cost ledger, `data/budget_exceeded.json` | record, summarise, block, monitor | runner, learning loop | an exceeded budget blocks learning until it no longer is |
| Scheduler and learning loop (`SCH/`, `AC/learning/`, `AC/evaluation/`) | jobs; the context of a run; the log of trainings | six stages, trainings by hand, monitor | API server, gateway | a training reads what passed; a failed run leaves nothing to the next; the log says what is saved |
| Bundles (`PMDF/bundle/`, `API/routers/bundles.py`, `UI/pages/ImportExport.tsx`) | the browser's preview and resolutions | export, validate, preview, apply | store | what is applied is what was shown |
| Entity editor and viewer (`UI/pages/EntityEditor.tsx`, `YamlJsonEditor.tsx`, `DocumentViewer.tsx`) | draft, mode, error; the query cache | open, type, save, jump in the history | CRUD API | a user reads what he has saved, and reverts nothing he could have seen |
| Users and roles (`API/auth/`, `API/routers/admin.py`) | users file | create, login, scopes | every handler | one user per address; what an administrator was answered is kept |
| Agent task queue (`AC/task_queue.py`) | JSONL file, in-memory queue | submit, run, list | – | submitted tasks survive a restart |
| Model gateway (`GW/router.py`) | configuration | completion with retries and fallback | model servers | bounded attempts; fallback only after failure |
| PMDF algorithms (`PMDF/ids.py`, `migrate/`, `validate.py`, `learning/split.py`) | the last ULID | ids, migration path, validation, split | – | increasing ids; shortest path; fixed split |
| Knowledge ingestion (`KB/`) | vectors in Qdrant | consume events, `ingest`, `recreate` | bus, embedder | the index follows the entities and the files |
| Issue bootstrap script (`src/scripts/bootstrap_issues/create_issues.py`) | nothing of its own; issues and links on GitHub | create, link, run again | GitHub | one issue per title; exit code 0 means complete; repeated runs converge |
| Backup (`src/scripts/backup_restore_lib.py`) | archive directories | back up, restore | files of all | a restored backup is a consistent store |
| Other pages, CLIs, deployment | – | – | – | – |

### What is hard

Four families of behaviour are beyond the unit tests, and `PROJECT.json` lists
each instance with its line:

  * **Half-done handlers.** `decide` makes four durable changes, a store write
    three, a setting and its audit record two. An exception or a crash between
    any two leaves the rest undone, and nobody repairs it on restart.
  * **Threads beside the loop.** L1 requests read files the loop is writing; the
    setting handlers overwrite each other; stop and learning block are read once
    and used later.
  * **Agents on an unreliable network.** A request may be lost, or only its
    answer; several workers hold the same list of tasks; a worker dies with a
    task in hand; a script is killed and started again.
  * **Copies that age.** The page keeps a copy of an entity and a draft made from it,
    the index a vector of its text, the browser the last event it was told of.

## 2. The modules

| module | models | checked by | proved in |
|---|---|---|---|
| `ApprovalGate` | proposals, decisions, gated L1 execution, stop | `MCApprovalGate` | `ApprovalGateProofs` |
| `PmdfStore` | working tree, index, HEAD under the file lock; reference check | `MCPmdfStore` | `PmdfStoreProofs` |
| `BatchHistory` | the abstract specification of the store's history | implemented by `PmdfStore` | `PmdfStoreProofs` |
| `AuditedSettings` | autonomy file, stop file, audit log, written by threads | `MCAuditedSettings` | `AuditedSettingsProofs` |
| `UserStore` | the user file, written by threads | `MCAuditedSettings` | `AuditedSettingsProofs` |
| `RewrittenFile` | what overlapping `write_text`s leave in a file | used by the two above | with them |
| `ChatTasks` | task store, runner, callers, guard | `MCChatTasks` | `ChatTasksProofs` |
| `LiveUpdates` | event bus, WebSocket sessions, the reconnecting hook, what the page shows | `MCRecovery` | `RecoveryProofs` |
| `BootstrapIssues` | the script that creates and links issues, and its repeated runs | `MCRecovery` | `RecoveryProofs` |
| `BudgetLoop` | usage records, budget monitor, file of the block, learning loop | `MCBudgetLoop` | `BudgetAndGraphsProofs` |
| `BundleImport` | the import page, the two import handlers, other writers of entities | `MCBundleImport` | `BundlesAndDocumentsProofs` |
| `AgentGraphs` | the business graphs: guards, requests, failures | `MCAgentGraphs` | `BudgetAndGraphsProofs` |
| `EntityEditing` | editor, viewer, their query cache, GET and PUT, other writers | `MCKnowledgeIndex` | `BundlesAndDocumentsProofs` |
| `KnowledgeIndex` | the indexer behind those writes; `ingest` and `recreate` | `MCKnowledgeIndex` | `BundlesAndDocumentsProofs` |
| `AgentWorker` | task queue, its file, a worker, the gateway's retries and fallback | `MCModelCalls` | `ModelCallsProofs` |
| `LearningPipeline` | runs of the learning loop stage by stage; the log of trainings | `MCModelCalls` | `ModelCallsProofs` |

The modules meet at state they share: `ApprovalGate` holds a coarser copy of the
store (a write is three effects, `SaveEntity`, `AddEntity` and `CommitEntity`, since the one
event loop is its only writer there) and of the stop flag; `AuditedSettings`
holds the stop file in full detail; `ChatTasks` sees the stop as the answer of a
request. `PmdfStore` refines what `ApprovalGate` takes of the store: its writers
are the event loop and other processes, its files may be torn. `BundleImport` takes a
whole operation of the store as one step and looks at what the person at the page was
shown; `AgentGraphs` sees of the approval workflow what an agent's requests find.
`KnowledgeIndex` extends `EntityEditing`: what the indexer takes is the queue of events that
the editor's saves, and other writers, fill. `LearningPipeline` is the detail of the stages
that `BudgetLoop` only counts, and takes from it that a run may be skipped.

Three of the MC modules hold two modules that share no state: `MCAuditedSettings`,
`MCRecovery` and `MCModelCalls`. There a variable `part`, which no step changes, says which of
the two a behaviour steps through; the other keeps its initial state. The state space is the
sum of the two, not their product, and nothing is lost by it, as neither reads what the other
writes; the specifications of the modules are the parts' own, fairness included.

### ApprovalGate

`proposals` is the JSON file of proposals, `worktree`, `index` and `head` are the Approval
files of the store, `audited` the approval ids of the audit log, `stopped` the
flag. `loop` is the body the event loop is executing: after `Decide` (look-up,
transition check, new id) it is at `save`, `add`, `commit`, `audit`, `update`, one step
for each durable effect of `decide` in the order of `routers/approvals.py:150-177`.
`CommitEntity` publishes the index as a whole, with what a body that failed before its
commit has staged. `WriteApproval` is the same write of an Approval through the CRUD API,
which does not exclude that kind. `call[q]` is an L1 request in flight: `RequireApproval`
and `CheckNotStopped` are its dependencies, `Execute` its body (200, or 404 when
no entity of that kind has the id). FastAPI takes a thread of the pool for each of these
calls and gives it back after it, so the number of requests between two of them is bounded
by what is in flight and not by the size of the pool. `Fail` is an exception in a body,
`Restart` the loss of everything but the files. `origin`, `orphans`, `byHand` (targets the
CRUD API had a hand in), `admitted` and `sinceStop` record history; no guard but the
freshness of a new id reads them.

### PmdfStore and BatchHistory

A file is one path; its content is the set of paths it refers to, `None` when it
is missing or `Torn` between truncation and writing. A writer's operation is
`lock`, then `save` and `write` for each file of its batch, `add`, `commit`: the
code of `_commit` and `save_all`, with `Timeout` for `LockTimeoutError` and
`Fail` anywhere. `WriteEntity` is POST and PUT of the CRUD API, which check the
references against the working tree *before* the lock is taken; `WriteBatch` is
`decide` and bundle import, which do not check. `left` and `unchecked` are
history: files a failed operation left, and files written without a check.

`BatchHistory` says what a reader of the Git history may rely on: a batch enters
the index as a whole, and a commit publishes the whole index, with the batch of
its operation in it as it was given. The refinement maps `staged` to the
index and `pending` to each writer's batch, staged from `add` to `commit`. That a
commit may also publish what an abandoned operation staged is part of the abstract
specification because it is what the code does (section 5).

### AuditedSettings and UserStore

`config` is the list of entries in the autonomy file, `stopped` the flag in its
file, either of them `Torn` when `json.loads` would raise. A request loads
(`Request`), truncates (`Open`), writes (`Write`), reads the last hash (`Link`),
appends its record (`AppendRecord`). A hash is the position of the record it
names. An append that fails may leave a piece of its line (`cut`): `read_records` then raises, so
no later request gets as far as its record, and a record that is appended all the same stands on
the broken line and is lost. `Write` of a file that somebody else has written since it was opened may
leave the end of the longer text behind the shorter one: `Written` allows both
outcomes. Handlers of the event loop append too, one at a time (`LoopLink`,
`LoopAppend`). `doubt` is history: the subjects where requests overlapped or failed
after they had set the value.

`UserStore` is the same kind of file with other contents: `AddUser` and `UpdateScopes` load the
whole list, look for the address or the id in it, and hold the list they will write; `Truncate`
and `Save` write it. `answered` is the user as an administrator was last told, `fought` the
users about which another request held an older list at that moment. Both modules take
`Written` from `RewrittenFile`.

### ChatTasks

`tasks` is the file of tasks, oldest first; `worker[w]` is the program counter of
a runner (`CheckStopped` … `EndCycle`, `ReportRaised` for the exception handler of
`poll_once`) or of a caller of `handle_chat_instruction`, with the list of the
cycle, the task and the graph node. `Post` is a transition request: accepted,
refused with 409, lost, or executed with its answer lost; the last two count as
faults. The dispatched graph is a line of `Nodes` nodes, each behind the guard.
`dropped` is history: tasks left running because the worker that was to report them
crashed, the last report it makes was lost, or the answer to an accepted claim was.

### LiveUpdates

`version` counts the changes of each topic (the list of pending proposals, one chat
task): the handlers of `ApprovalGate` and `ChatTasks` are one action here, `Publish`,
because they save and publish without suspending. `closure[u]` is the closure that
the effect of `useWebSocket` made for login `u`: its socket or timer (`at`), the
session the socket has at the server, and `wire`, the subscription's queue and what
is on its way. `hook` holds the refs that all closures share. `Cleaned` is the
cleanup of an effect: it closes the socket and clears the timer the *refs* name,
which need not be all there are. `isUnmountedRef` is no variable: cleanup and next
effect are one commit of React, so no callback ever reads it set while the provider
is mounted. `view`, `connected` are what `AppStateContext` keeps; `told` and `source`
are history.

### BudgetLoop

`spend` counts the usage records of the current month, in units of one record;
`NextMonth` starts it over, as the summary filters by month. `monitor` is the hourly
job: it reads the summary (`ReadSummary`), posts an event unless the status is `ok`
(`PostEvent`) and sets the block to what it has *read* (`OpenFile`, `WriteFile`: the
handler runs on a thread of the API server). `manual` is the same PUT from an
administrator or editor at any time. `file` may be `empty` between truncation and
writing, or `garbled` if the text of a block, one character shorter, was written over
a release; `is_learning_blocked` raises for both, so the loop does not start. `stage` is
the nightly loop, which reads the block once, before its first stage. The monitor's jobs
do not overlap (`max_instances` is 1), and one run's PUT is taken to end before that of
the next, an hour later. `acted` and `trained` are history.

### BundleImport

`selected`, `diffs`, `resolutions` and `panel` (`manualEditTarget`) are the state of
`UI/pages/ImportExport.tsx`; `validation` is its first request, `applying` the second one as
the page sees it, `order[o]` as the server does: a connection that breaks (`ApplyEnds`) does not
take the request back, which may be executed later, or twice over if the button is pressed again. The
handlers (`ImportValidate`, `ImportApply`) suspend only to read the upload, so each is a
step; `ImportFails` is the second one when it raises after any part of its files, which stay;
between them anybody may write an entity (`CreateEntity`, `UpdateEntity`). A file
is a validity and a content for some of the ids: which of two contents an entity has is all
the properties look at. `ShowDiffs` is the `onSuccess` of the validation, which does not
ask which file is selected by then. `decided` and `overtaken` are history, and the request
of `apply` carries a copy of both: what the person had decided, and what had changed, when
they pressed the button.

### AgentGraphs

A graph is the sequence of steps that can fail or write: a `Node` runs behind
`run_node_with_guard`, a `Request` does not. The definitions `Backlog` … `Initiative`
translate each function of `AC/graphs/` into its sequence; whether a KPI is breached, a
decision is needed, and how many risks an initiative has are choices among sequences, as
they are the model's answer. `run[r]` is a run of a graph with the steps it has left, whether
its guard has let it pass, and what it has made. A write may succeed while its answer is
lost (`Write`, second alternative), and anything may raise (`Raise`); no graph retries.
`Confirm` is the L1 endpoint as one step: `ApprovalGate` has its dependencies and body.
The records it looks for come in by a decision or straight through the CRUD API, with or without
a proposal (`Approve`), and may be written over (`Rewrite`). `loose` and `late` are history: the
runs that were past their last guard when the stop was triggered, and those that have written
since. All weekly reports share one target, and a request is not executed after its run has
given up.

### EntityEditing and KnowledgeIndex

An entity is a record of fields; a copy carries the revision it was read at, which the program
does not have. `fetch[e]` is the query for an entity: asked, or answered with a copy that is
not yet in `cache`. The cache follows the defaults of `main.tsx`: one fetch at a time per key
(`FetchOnMount`), and an invalidation that cancels and repeats the fetch of a key in view
(`Invalidate`). `editor` is the component `EntityEditor`: it takes a draft from the first copy
it sees and from none that follows (`Seeded`), keeps it when the history leads from one entity
directly to another (`Jump`), and sends it whole (`SaveDraft`); `puts` are the requests that are not
over, each with what its user had touched. `SaveSucceeds` is `onSuccess`: the draft becomes
what was stored, whatever was typed since the click.

`consumer` is `consume_forever`: it takes an event, fetches the entity, embeds its text and
writes the point; an exception ends it, and a mismatch of dimensions is one. `IngestReads` …
`IngestFails` are the command that splits a file into chunks and upserts them by their index,
`RecreateDeletes` and `RecreateCreates` the two requests of the command `recreate`, in between
of which anybody may write. `ChunkDocument` and `SplitFixedLength` are the algorithm itself, on
lengths. `dropped`, `silent` and `ingested` are history: what the index is not expected to know.

### AgentWorker

`table` is `TaskQueue._tasks`, `saved` what the last line of each task in the file says, `queue` the
`asyncio.Queue`. Each operation sets a status and then writes a line, which may fail with the status
set and a piece of the line in the file (`SetUnsaved`); a crash may tear the line being written, and
a torn line makes the constructor raise, so `Restart` waits for somebody to repair the file. It
reads the table and leaves the queue empty: what was pending is then an orphan. The worker's loop is
external; what it asks the model is `call[t]`, the completion of `GatewayRouter`: each name of the
chain that is deployed is asked `Attempts` times. A line written behind a torn one is lost with it
(`Set`); that a cut falls exactly before the end of a line, which loses nothing but the line break,
is left out. The client's own time-out (`ClientTimeout`) does not reach the gateway, whose attempts
go on.

### LearningPipeline

`stage` is the next stage of `run_learning_loop`, `scenarios`, `trajectories` and `evaluations` its
context. `holder` is `trajectories_holder`, a second list of the same trajectories that a closure
keeps for the stage that joins them with the evaluations by position. A scenario is a value for its
text, an entity in a diff the set of its fields: the rules ask for the fields the schema requires. A
stage fails when the model's answer cannot be read, when the data set's file cannot be written, or
before the training's first line (`StageFails`, `TrainingFails`). `BeginTraining`, `Train` and
`CompleteTraining` are a training with its two lines in the log; trainings by hand share the log
with the loop's. The scheduler may die with its run (`SchedulerCrashes`).

### BootstrapIssues

`issues` and `links` are GitHub's; everything else is the run of the script and gone with it.
`Start` lists the issues (the newest `Limit` of them), then each title that is not found is created,
epics first, then each sub-issue is linked unless its epic already lists it (`SkipLinked`; a failed
listing counts as no links). The listing of sub-issues is one page (`Page`; 30 at GitHub, whose
epics here have eleven at most): a link beyond it is posted again and refused as a duplicate, which
counts as a failure of the run. A request may be carried out and its answer lost, and the run may
end at any point (`CreateAndDie`, `PostAndDie`, `Die`). It is started again after anything but exit
code 0, and may be after that.

## 3. What the runs check

| run | instance | distinct states | shows |
|---|---|---|---|
| `approvals` | 2 proposals, 2 records, 2 targets, 2 requests in flight | 1.7 M | the approval workflow agrees with its records |
| `store` | 2 files, one of which may refer to the other, 2 writers | 262 k | whole batches, clean tree, references, termination |
| `settings` | 2 keys, 2 levels, 2 threads, logs of 2 records; 2 new users, 2 addresses, 2 scopes, 2 threads | 3.5 M | what survives of files that are rewritten without a lock |
| `chat` | 1 runner, 1 caller, 2 tasks, 2 nodes, 2 faults | 174 k | single dispatch, who reports, what a stop interrupts, that tasks end |
| `budget` | budgets 0 and 5, 6 records, 2 PUTs by hand, 2 faults | 536 k | what the block says and stops, and that it follows the budget |
| `import` | 2 entities, 2 contents, 3 files, 1 request of `apply` on its way | 2.2 M | what an import may overwrite |
| `graphs` | 2 runs, 2 targets, 2 risks | 63 k | what is left half done; what goes out during a stop |
| `documents` | 2 entities of 2 fields, 2 contents of a file, 4 inputs | 960 k | what a page shows, what a save reverts, what the index holds |
| `recovery` | 5 titles, listing of 5, page of 1, 1 foreign issue, 7 issues, 2 faults; 2 logins, 1 topic, 3 changes, 2 breaks | 573 k | the script and the page recover from failures |
| `model_calls` | 2 tasks, a chain of 3 names, 1 retry, 3 faults; 2 scenarios, scores 2 and 4, 2 trainings | 192 k | nothing forgotten, retries in order, trainings on what passed |
| `decided_once` | as `approvals` | – | finding 1 |
| `chain_intact` | as `settings` | – | finding 2 |

**approvals.** `DecidedIsRecorded`: a decided proposal points to a record that is
in HEAD and in the audit log and says the same (as long as the CRUD API has not
rewritten it). `OneRecordPerProposal`: of two records of a proposal one was left by
a failed `decide`. `ExecutionIsBacked`: every executed target was approved, by a
proposal, by the `decide` under way, by one that died, or the CRUD API has written, or
written over, an approved record of that very target. `StopDrains`: what is executed from a
stop to its release, and what is still on its way to the body, was past the check when the
stop was triggered.

**store.** `HistoryIsWhole`: no torn file in index or HEAD.
`CleanWhenUnlocked`: without a lock holder, tree, index and HEAD agree but for
failures. `DanglingOnlyAfterFailure`: the early, unlocked reference check is still
good at the commit, because no operation deletes a file. `HistoryOfBatches`: the
refinement. `OperationsEnd`: no operation waits for ever.

**settings.** `AuditAgrees`: a setting is what its last record says unless requests overlapped or
failed, as they all do behind a record that was cut. `UsersAreKept`: a file that can be read has one
user per address, even if two requests have both found it free (the later write replaces the earlier
one's list), and every user as last answered, unless another request held an older list.

**chat.** `DispatchedOnce`, `RunningHasWorker`, `StopInterrupts`
(one node begun after a stop at most), `InstructionsEnd`.

**budget.** `BlockIsVerdict`: until somebody else touches the file it says whether the
budget was used up when the monitor's last complete run read the summary.
`TrainingDrains`: one training at most is still to come once the file says anything but
`clear`. `BlockFollowsBudget`: a month that stays over its budget ends blocked, one that stays
under it ends unblocked and with a file that can be read, whatever failed before.

**import.** `OverwritesAreDecided`: an import changes the text of an entity only if the
person resolved that conflict under the preview they applied. `AppliedAsAnnounced`: it
changes what the preview announced, and nothing else. Both excuse what nobody guards
against: an entity that has changed since its preview was computed, and a preview that
arrived after another file had been chosen. What they do not excuse is the panel that
survives a new preview, the second click on `apply`, or the preview that stays while
another file is chosen, a batch that fails in the middle, or a request that the page has given up
and the server executes later; the first two turn out harmless, the third does not happen, and
the last two change nothing but what was announced.

**graphs.** `HalfDoneOnlyByFailure`: a run that ended regularly has made everything once and
in order, one that was stopped nothing, because all guards stand before the first write;
only a failed request leaves a beginning. `StopSparesOnlyLoose`: what goes out while the stop is
on comes from runs that had their last guard behind them when it was triggered (an initiative
among its risks, a report before its proposal), and from no other, be it between two nodes or
started meanwhile.

**documents.** `ReadYourWrites`: once a save has succeeded in view and its refetch is over,
the cache is not older than the save, although a fetch asked before it may have been under way:
this rests on the invalidation cancelling that fetch. `LostOnlyUnseen`: a PUT, which always
sends the whole draft, reverts a field its user did not touch only if somebody changed it after
the draft was read, or if the draft is another entity's after a jump. `IndexIsCurrent`: a point
has the text of its entity unless the event is on its way, came to nothing or was never sent,
and every character of an ingested file is in a chunk. `EventsAreHandled`: every event is handled
in the end, unless the consumer has died.

**recovery.** `OneIssuePerTitle`: no title has two issues, however often the script was
killed between a request and its answer, as long as the listing shows every issue.
`CleanExitIsComplete`: exit code 0 means that every issue and link is there, those of earlier
failed runs included. `Converges`: run after run, the work is completed on GitHub, also for an
epic of more than a page; for such an epic no run ends with exit code 0.
`LastWordIsCurrent`: a socket that was told of a topic leaves the page with
the server's state; what it was told of before the subscription may be missing, which
is why this is not said of every open socket. `ConnectedIsOpen`: no false
`connected` (a false `disconnected` is possible: a late close of an old socket
overwrites the flag of the new one). `Reconnects`: a good token gets an open socket.

**model_calls.** `TriesInOrder`: a fallback is asked only after every deployed candidate before
it was asked as often as the settings say. `PendingIsQueued`: a pending task is in the queue
once, or with the worker, or an orphan of a restart or a failed write. `EndSurvives`: an end that
was written outlives every restart. `TasksEnd`: a task taken in ends, or is an orphan, or
the process is down. `TrainsOnPassed`: the data set of a training holds each trajectory as often
as it passed rules and judge, although it is put together from two lists.
`RunsAreIndependent`: wherever an earlier run has failed, the two lists a run joins are of its own
scenarios and of one length when it comes to the join.
`LogIsBacked`: the log calls no training completed that has not saved its checkpoint.
`RunsEnd`: a run ends even if the gateway never comes back.

Each property has a mutant of the modelled code that breaks it: the mutants stand in the modules
next to the definitions they replace, and `PROJECT.json` pairs them. Properties that the runs do
not name (the type invariants, `DecisionIsFinal`, `OneEntryPerKey`, `DoneHasResult`, `EndIsFinal`)
stand in the modules and hold of the same instances when they are added to a cfg; section 4
says which of them are proved.

### Bounds, and why they are enough

Nothing in the modules is bounded but what a constant names. `FewAccidents`
(`MCApprovalGate`) admits one orphaned and one directly written record at a time:
the properties quantify over pairs of records, so one accident beside one regular
decision is the interesting case. `StopWhenCalm` keeps apart what does not meet: the stop
is on only while no body is on the loop, and the second request is in flight only while there has
been no accident; one request is enough to see a record between two effects of its write, two are
needed to count. Two
records make the retry of a failed decision possible, two proposals the mixing of
decisions. In `PmdfStore` two paths with one possible reference are the smallest
graph with a dangling edge, and two writers race for the lock. `ShortLog` cuts
`AuditedSettings` after logs of two records, which two overlapping requests need;
its liveness is not at issue. `MaxTasks` and `MaxFaults` of `ChatTasks` allow a lost
request and a crash in one run, and a runner whose list holds a task that the
caller also executes. Symmetry is declared only over sets whose members are not
distinguished, and in no run that checks liveness.

Two logins make two closures, which is what old and new socket need; three changes
let one be lost, one be under way and one be shown. One topic is enough as topics meet
only in the order of a wire, and no property relates two of them.

Five records are the smallest budget whose warning threshold (80 %) and limit are
different whole numbers of records, and six are beyond it; a budget of 0 is the
special case of `check_budget_threshold`. Months are not bounded.

Two entities make a bundle with one conflict beside a new entity; two bundles that say
different things of the same entity make a late preview and a changed file matter; the third
file is refused. One request of `apply` on its way can be given up, and executed or lost after
that; nobody edits a conflict by hand in the meantime (`NoEditBesideStray`), and the theorems hold
for any number. Two runs of graphs compete for one target and leave one for themselves; two
risks are the least that can be half done after the initiative.

Two users beside the administrator the deployment begins with can meet at one address, and two
scopes tell an update from what was there. `MaxInputs` counts what users, operators and failures do
to the pages and to the index, taken together: four let somebody open an editor, another person
write, the first one type and save; or a file change, be ingested, change and be ingested again. The
file has two overlapping chunks or a blank section before its text. Two entities are needed for the
jump and for an event that queues behind another.

One epic with two sub-issues and one with one tell a link that is missing from an epic that has
none. A page of one shows the first epic's links in part and the second one's in full. The listing
is as long as `issues.yaml`, so one foreign issue makes the repository longer than the listing: the
properties then promise nothing, which is the limit of the code (200 at present). Two faults are an
operation half done and its repetition cut short.

Two tasks share queue, file and worker; the chain has a name that nobody deployed between two
that somebody did; one retry makes two attempts. Three faults are a failed write, a crash and a
time-out of the client in one run. Scores of 2 and 4 have a mean on the other side of the
threshold than one of the single scores; two scenarios may be the same one, so data sets hold
doubles; two logged trainings let the loop's and one by hand overlap.

Deadlock is checked in every run but three: an idle page with an expired token and no more events, a
script that has done its work in a full repository (`recovery`), a task queue whose file is torn or
whose tasks are done (`model_calls`), and pages and index once the inputs are used up (`documents`)
do stop. No other system here may.

### Fairness

`OperationsEnd` assumes weak fairness of `Proceed(w)`: a call in progress goes on.
It may always lose the race for the lock; `Timeout` is what ends it, as the lock is
acquired with a time-out (`API/pmdf_store/lock.py:42`). `InstructionsEnd` assumes
weak fairness of each runner's cycle and of every worker's execution: `run_forever`
repeats `poll_once` whatever it raises, and every HTTP request has a time-out. `Reconnects`
assumes weak fairness of `Proceed(u)`: browser and server answer, timers fire. No
fairness is assumed of users, faults, events or releases: the premise of
`InstructionsEnd` is that stop and learning block stay off from some point, and it
excuses the tasks a fault left behind; that of `Reconnects` is a token that stays good.
`BlockFollowsBudget` assumes weak fairness of the hourly job and of a
PUT that has begun; its premise is a good token and a spend that stays on one side of
the budget. `TasksEnd` assumes weak fairness of the worker, whose loop goes on, and of each
completion: a request to a backend is over after its time-out (`GW/router.py:119`). `RunsEnd`
assumes it of the steps of a run, which is code of one thread that the scheduler
runs to its end, not of a gateway that comes back. `EventsAreHandled` assumes it of
`consume_forever` while it lives, `Converges` of the steps of a run of the script and of
somebody who starts it again after a failure, as it asks (`create_issues.py:348`).

## 4. What is proved

Every safety property that a passing run checks, and every type invariant, is a theorem in one of
eight modules. The theorems hold for all values of the constants, from the assumptions the modules
state: `None`, `Torn` and `Direct` are none of the ids, the stop flag is none of the autonomy keys,
a schema is a set of sets of paths for each file, no worker is both runner and caller, bounds and
budgets are natural numbers, files have contents that exist, no title is an epic's and a
sub-issue's, a chain is a sequence of names, there is an entity to edit and the indexed field is
one of its fields, a chunk has at least one character and an overlap is not negative (it may be as
long as the chunk: the code then goes on by one character), and (for counting) the set of requests
in flight is finite. Proof modules that extend two components state two sets of theorems; those of
`LiveUpdates` and `AgentGraphs`, for instance, assume nothing of GitHub or of budgets.

**Approvals** (`TypeCorrect`, `DecisionsAreRecorded`, `OneRecord`,
`ExecutionsAreBacked`, `DecisionsAreFinal`, `StopsDrain`). None of the properties is
inductive. What holds them together is `LoopInv`: the proposal the loop is deciding
is still `proposed` and what the loop has done so far is in the files. From it,
`RecordsInv` says where the record of each proposal is, `FilesInv` that only records
with an origin exist, and `CallsInv` that what a request relies on once it is past
the gate stays true although the files it read may be rewritten. `StopDrains` is
inductive by itself, with a lemma on the cardinality of the set of requests past the check: no
step adds one to it while the stop is on, and each execution takes one away.

**Store** (`TypeCorrect`, `WholeHistory`, `CleanStore`, `ReferencesResolve`,
`StoreImplementsHistory`). `LockInv`: who is past `Acquire` has the lock, so two
writers are never there at once. `ProgressInv`: what the holder has saved is in the
working tree and, after `add`, in the index. `CleanInv`: a difference between the
trees was made by the holder or a failed operation. `RefsInv` follows a reference
from the check through the working tree and the index to HEAD. The refinement is
proved action by action: `Begin`, `Stage`, `Publish`, `Abandon`, or a stutter.

**Chat** (`TypeCorrect`, `OneDispatch`, `DoneHasResults`, `RunningHasWorkers`,
`StopsInterrupt`, `EndsAreFinal`). `StepFollows`, the lemma the others rest on, says that
every step follows the state machine: tasks are added pending and at the end, and those
there are change only as `AllowedTransitions` says. `ClaimInv` is why a task is not
dispatched twice: whoever is past the claim of a task is alone, nobody is past the claim of
a pending one, and a claim succeeds only for a pending one. `DoneInv` says that who is about
to report `done` has a result, `StopInv` that a worker which has passed the guard has not
yet begun another node since the stop. `RunningHasWorker` is inductive with the types; its
proof shows once (`Keeps`) what a step of one worker must leave behind.

**Budget** (`TypeCorrect`, `BlocksAreVerdicts`, `TrainingsDrain`). Both are inductive with
the types, the second beside the fact that nothing has been trained against a file that says
`clear`. `ExceededIsUsedUp` relates what the code compares, a ratio with 1.0, to the budget.

**Import** (`TypeCorrect`, `OverwrittenIsDecided`, `ChangedIsAnnounced`). The argument follows a
comparison from the handler that computes it (`ValidationInv`) to the page (`PageInv`) and into the
request of `apply` (`OrderInv`), whether the page still waits for it or not: it fits the file and
the store, except at the entities recorded as overtaken, so the handler changes what was announced.

**Script** (`TypeCorrect`, `NoDuplicates`, `SuccessIsComplete`). `KnownIsRight` says that a
number the run has is that of an issue with the title, `UnknownIsAbsent` that a title it has no
number for is not on GitHub as long as the listing was complete: together they make `CreateIssue`
safe. `MadeSoFar` and `LinkedSoFar` are why a run without a failure has left nothing out. That
the oldest issue of a title can be chosen at all is the least-element principle of the natural numbers.

**Task queue and gateway** (`TypeCorrect`, `FallbackComesLast`, `NothingIsForgotten`,
`EndsAreKept`). `OneWay` says that a task goes from the queue to the worker to the gateway and
never back, `FileAgrees` that memory and file agree unless a write has failed; so what a restart
reads is what was written. `FallbackComesLast` holds for every chain and number of retries,
negative ones included.

**Settings** (`TypeCorrect`, `EntriesStaySingle`, `SettingsAgree`). The list each thread holds has
one entry per key (`Sound`), so whichever is written last, the file has. `AuditAgrees` is not
inductive: a thread that loaded the file before may write its list after. `AuditInv` says that a
setting nobody doubts is right *wherever it is kept*, in the file and in each list still to be
written, where right is the value of the one request that has set it and not yet recorded it, or
else the last record. A step can break this only by copying a list, which was right, or by setting
a value, which makes the request the only one about its setting or the setting doubted.
`LevelWith` relates `get_level` to `set_level`: setting a key sets that key and no other.

**Users** (`UsersTypeCorrect`, `UsersStayKept`). The argument is the same for a list of users:
what a thread is about to write (`Faithful`) has one user per address, its own user in it, and
everybody else as last answered, unless the user was fought over.

**Live view** (`LiveTypeCorrect`, `LastWordStaysCurrent`, `ConnectedStaysOpen`). `LiveInv` adds
to the two properties that a closure of a later login is unused. They support each other closure by
closure: a wire is read in order, and its last event on a topic has the latest version.

**Learning** (`LearningTypeCorrect`, `RunsStayIndependent`, `TrainingsReadPassed`,
`LogStaysBacked`). `Lists` says, stage by stage, which of the two lists of trajectories is empty,
that `trajectories_holder` is the list of the context from the moment a run begins, and that
evaluations and trajectories are of one length before the stage that joins them; so joining them by
place neither fails nor mixes runs. The data set is then what passed, each as often as it did, by
counting along the list. `LogInv` is a sum: the completed lines of a job and the trainings that are
about to write one are no more than its checkpoints, and those with the trainings that are about
to save no more than the lines that say `started`.

**Graphs** (`GraphsTypeCorrect`, `GraphsFailHalfDone`, `StopsSpareOnlyLoose`). `RunOK` is the place
of a run in its graph: the rest it has is the graph from there on, what it has made are the writes
up to there. The other half is `WellFormed`, which is proved of each of the graphs: no guard stands
behind a write, so the stop can end none in the middle. It holds for every number of risks of an
initiative. `StopSparesOnlyLoose` rests on a step never taking a run past its last guard while the
stop is on: `Guard` ends it, and no other step takes a guard away.

**Editor** (`DocumentsTypeCorrect`, `WritesAreRead`, `OverwritesUnseen`). `AsOf` is the one
relation: a body made from a revision has, in every field but those its user touched, what the store
has, unless the field was changed after that revision. `EditInv` says it of everything that holds a
body (cache, answer under way, draft, save), and every write of the store keeps it. `LostOnlyUnseen`
is an action property that follows from it for the save that arrives. `ReadYourWrites` needs
`AckedRight` too: an answer that is under way is not older than the last save that succeeded in
view, because the success has cancelled those that were.

**Index** (`IndexStaysCurrent`). For entities, `TextRight`: the text being embedded is the entity's
unless another event of it is queued or was never sent. For files, `PartsCover` is about the
algorithm itself: at every length, chunk length and overlap, the parts of a section leave no
character out; `DocumentsAreCovered` carries that through the concatenation of the sections, and
`RevisionsTell` through the time between reading a file and upserting its chunks.

**How recursion and counting were proved.** The library defines filters, concatenations of sequences
of sequences and folds recursively, and its induction theorems take an operator. Where a proof needed
one, the definition is a recursive function on a prefix (`WritesAmong` in `AgentGraphs`,
`PassedOf` in `LearningPipeline`) or the library's own function unfolded (`FlattenHasAll`). That a
function satisfying the recursion exists is shown by extending it one argument at a time, and the
induction, over a set of numbers instead of an operator, is by the least counterexample (`CountUp`).

**Only model-checked**: liveness (`OperationsEnd`, `InstructionsEnd`, `Reconnects`,
`BlockFollowsBudget`, `TasksEnd`, `RunsEnd`, `EventsAreHandled`, `Converges`), which needs
`ENABLED` and fairness.

## 5. Findings

Two runs end in a violation of what the repository says of itself.

 1. `decided_once`. `decide` commits the Approval, appends to the audit log, and
    updates the proposal last. After a failure between the audit record and the proposals
    file the proposal can be decided again, and the other way: HEAD and audit log then have
    two Approvals of it, where `docs/IMPLEMENTATION_STATE.md:217` has one, and 409 for the second.
 2. `chain_intact`. Two handlers that read the last hash before either appends give
    their records the same `prev_hash`; `verify_chain` reports tampering.

Two more are stated as definitions that do not hold; adding them to the cfg shows the
counterexample.

 3. `OneOperationOneCommit` (`PmdfStore`, as a PROPERTY of `PmdfStore.cfg`). An operation that
    fails between `index.add` and `index.commit` leaves its files staged; the next operation
    publishes them as its own.
 4. `FailedHasNoResult` (`ChatTasks`, as an INVARIANT of `ChatTasks.cfg`).
    `handle_chat_instruction` posts a pending task that the resident runner also picks up. The
    loser of the claim reports it `failed`, and the winner's result is refused.

Met while reading, without a run of their own: `useWebSocket` says it does not connect while its URL
is `null`; the close of a socket that a logout has closed arrives when the next effect has already
cleared `isUnmountedRef`, and the old closure connects again with the old token (`logout` is offered
by `AuthContext`; no page has a button for it yet). `lock.py` says a time-out lets the caller answer
503, and nobody maps it, so the answer is 500. A torn entity file makes every later reference check
raise, so that no CRUD write succeeds until it is repaired by hand. PUT `/pmdf/approval/{id}`
rewrites decisions, which `pmdf.py` says are corrected by new records only. `auth/models.py` says an
editor cannot approve; `decide` admits editors. An unreadable autonomy file is answered 422, as
`JSONDecodeError` is a `ValueError`. The default dispatch of the runner raises
`NotImplementedError`, and the production entry point injects no other. A stop during a cycle turns
the remaining tasks of its list to `failed` rather than leaving them pending. An expired token makes
the hook reconnect, and be rejected, for ever. The badge that "always shows" the pending count is
hidden from login to the first event, as the count starts at 0 and is never fetched; the dashboard
prefers the event's count to the API's, as its comment says, unless it is 0. After 200 activities
the oldest task falls out of the list and reads `pending` again. `backup_restore_lib` restores data
to `data/data`. The learning loop's default comparison averages over score keys (`discovery`,
`general_reasoning`) that no `BenchCategory` has, so both averages are 0 and no model is ever
promoted; nothing acts on a promotion either. No caller of `POST /costs/usage` is in the repository.
With the default, empty `SCHEDULER_AUTH_TOKEN` the loop never reads the block, and the monitor is
answered 401; a token, once set, is a JWT that expires and is not renewed. The server sends
`field_diffs` as pairs, the page reads `.current` and `.incoming` of them, so the two columns of a
conflict stay empty. `POST /pmdf/{kind}` does not ask whether the id is taken. The entity editor's
draft is the copy the viewer had cached, is not replaced by the refetch, and is sent whole.
`docs/operations-policy.md:10` says a stop ends all autonomous execution at once; the requests a
graph makes after its last guard (a report and its proposal, an initiative and its risks) still go
out. `weekly_review` proposes the id of its own report, on which no L1 endpoint acts. One approval
opens the gate for its target for ever. Nothing calls the graphs but tests.

*Editor and viewer.* A jump in the history from one entity to another keeps the first one's
draft, and a save then writes it under the second one's id. What is typed between the click and
the answer of a save is overwritten by what was stored. The fetch of a key that no page shows is
not repeated by an invalidation, so a page that opens while it is under way shows the older copy
until it is refetched. An error of the first load shows as loading for ever. `parseError`
survives a switch to the form and back, and a text `null` leaves the draft as it was without an error.

*Index.* An entity whose text becomes blank keeps its old point; chunks beyond the end of a
shortened file stay. Any exception ends `consume_forever`, and nothing starts it: the indexer is
used by tests only. A collection that another process creates between `recreate`'s two
requests makes the second one fail.

*Task queue and gateway.* Neither is used in production (`GW/router.py` calls itself the reference of
the proxy that is). A restart reads the table and not the queue, so pending tasks wait for ever.
A torn last line makes the constructor raise. A status is set in memory before the write that
may fail. A client that gives up after 60 seconds does not stop the gateway's attempts.

*Learning.* The loop asks for `count=1`; the model-checked instance takes two, which is harder. The
story that the default dispatch drafts lacks fields its schema requires, so trajectories of
priorities and backlogs never pass. A failed training writes nothing, so the log says `started` for
ever; the scheduler's container has no `LEARNING_STATUS_PATH` in any case. An empty data set goes to
the training. The promotion command ignores the decision it prints. `_category_avg` averages over
the categories that are present. `assign_split` may leave the training set empty when there are few
groups. The opt-in store is read, changed and written without a lock. Opt-in filter, split, DPO
builder and feedback queue are used by tests only.

*Users.* Two administrators at once lose one's change, and a user who was answered with 201 may be
gone. A torn user file locks everybody out. Changes of users leave no audit record. A refresh of a
token does not ask whether the user still exists. *Backup.* A restore merges into what is there:
files made after the backup stay. The copy of the repository is made without its lock.

## 6. What is not modelled, and the plan

Not modelled at all: pages other than editor, viewer, import page and live view, command lines
but the bootstrap script's, deployment files, prompts and wording, the training of models, and
data conversion (CSV, Markdown, embedding). Torn reads in `ApprovalGate` (a file read during
truncation) are left to `PmdfStore` and `AuditedSettings`: there the gate would raise, which is a
request without an effect. Contents of entities are reduced to their references, or to a few fields.

Left out of otherwise modelled parts: the expiry of the runner's and the loop's own tokens, after
which the API answers 401 for ever (`InstructionsEnd` says nothing of such a runner); the search of
the index and every other handler that only reads; passwords and second factors; the DPO data set,
opt-in, split, feedback queue and promotion command, which nothing but tests calls; torn reads of
the task file.

Left for later, in this order:

 1. The backup as a reader of `PmdfStore` without the lock: that it may copy a torn file follows
    from the store's steps; what a restore into existing directories leaves is the question.
 2. Operators: monotonic ids, migration path, reference validation, dataset split,
    each against a reference definition.
 3. Promotion and its rollback, once something acts on a promotion.

Of what the runs check, nothing but liveness is left without a proof; theorems to come belong to
the items above.
