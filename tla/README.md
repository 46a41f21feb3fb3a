# API Hero in TLA+

Specifications of the execution core of API Hero, a git-first API client for
VS Code: what happens between "run this request / collection / scenario" and
the answer, the history entry and the variables it leaves behind; what a variable
in a request stands for; how a plan of requests gets its order; and the files and
secrets of a project with those who write them.
They are checked with TLC on small instances, and the properties that matter most are
proved with TLAPS for every value of the constants. Paths below are relative to
the repository root.

## 1. The system and its parts

API Hero is one JavaScript event loop (the extension host, the CLI or the MCP
server). Nothing runs in parallel inside it, but every `await` hands control to
whatever else is ready: another request, a timer, a socket event, the user
pressing cancel. Several editor windows are several such processes sharing the
files in global storage and in the workspace.

| Part | State it keeps | Operations | Talks to |
| --- | --- | --- | --- |
| Execution orchestrator (`src/orchestration`) | the slot (`activeRunId`, `activeController`), `nextRunId`, `disposed` | `runAtSourceLocation`, cancel, `dispose`, `resolveAtSourceLocation` | authentication, executor, assertion engine, history recorder, extraction observer, viewer, status bar, Problems |
| Request executor (`src/execution/request-executor.ts`) | controller, `cancellationKind`, timer of one call | `execute` | the HTTP and WebSocket transports |
| WebSocket transport (`src/execution/websocket-transport.ts`) | socket, `settled`, `received`, close timer | `execute`, socket events | the `ws` package |
| HTTP transport (`src/execution/node-http-transport.ts`) | redirect chain and byte counter of one exchange | `execute`, `handleResponse`, `redirectRequest`, `readBody` | `node:http(s)` |
| Collection runner (`src/collection-runner/collection-runner.ts`, `retry-eligibility.ts`, `failure-policies.ts`) | results, attempt number, stop flag, status of one run | `execute` | orchestrator, run variable store |
| Run manager and run context (`collection-run-manager.ts`, `run-variable-context.ts`, `vscode/register-collection-runner.ts`) | active sessions, recent ring, the active run's store, its collection variables | begin, complete, fail, cancel; begin/end of the context | runner, scenarios, extraction |
| Scenario engine (`src/scenarios/execution`) | active set, step results, status of one run | `runScenario`, one runner per step kind | orchestrator, run context |
| Scenario host (`src/scenarios/vscode/register-scenarios.ts`) | `activeAbort`, the single-flight lock | `runScenario`, cancel | engine, run context |
| History store (`src/history/file-history-store.ts`) | cache, cap, write queue; the file shared by windows | append, list, get, delete, clear, setMaxEntries | file system |
| Extraction (`src/extraction`) | none of its own; writers of run, session, collection, environment variables | evaluate, write | stores |
| Authentication (`src/auth`) | repository of secrets with a lock per field, session metadata, configured profiles; a one-shot binding | get, store and delete a secret; enter, clear, apply tokens, save profiles; resolve; bind | Secret Storage, settings |
| Variable resolver (`src/variables/variable-resolver.ts`) | none: from definitions to values, errors and masks | `analyzeVariables`, `resolveRequest` | orchestrator |
| Dependency planning (`src/dependencies`) | none: from a membership plan to an order | resolve `@depends-on`, find cycles, sort | collection runner |
| Project store (`src/project-store`, `src/variables/collection-variable-store.ts`) | documents of `.apihero`, secrets, cached metadata | migrate, save environments, workspace, profiles, collection variables | file system, SecretStorage |
| Collections (`src/collections`) | directories, an order marker per collection, the discovered tree, parse cache | create, rename, move, duplicate, delete, reorder; refresh of the tree | file system |
| Assertions, parser, codegen, import/export | none (pure) | evaluation, conversion | - |
| Views, editors, commands, CLI and MCP hosts | presentation; the request editor mirrors a document | commands | all of the above |

The last two rows are not modelled (extraction only as far as it decides *where*
a run-scoped value goes); `PROJECT.json` lists each with its reason.

### What is hard about it

* **One slot, many callers.** The manual Run command, the request editor, the
  collection runner, scenarios and MCP share one orchestrator. A newer run
  aborts and replaces the active one; the old run is still suspended at an
  `await` and comes back later.
* **Two answers about a retry.** Whether an attempt will be retried is decided
  before it is committed to history and again after it returned, from
  different data. If the answers differ an attempt is committed twice or never.
* **Races for one result.** Transport, timeout and caller race in the executor;
  a WebSocket session may end in nine ways while its socket is in four states.
* **Cancellation anywhere**: during a read, an attempt, a backoff, a delay step,
  a toast.
* **A cache over a file** that other windows write, with reads that do not go
  through the write queue, writes that fail or are cut in two, and a damaged file
  that is moved away some time after it was read.
* **Process-wide state of "the" active run**: the run context and the collection
  variables belong to whoever set them last, and are cleared after a toast.
* **Several files, no lock.** An environment save touches a staging directory, the
  live one, a backup, the overlay of sensitive values and the workspace document;
  a migration touches all of them; extractions write the same overlay. Any file
  operation may fail or be the last before a crash. Only activation waits for its
  migration; the one of an added folder and the one of the Initialize command may
  meet a save, or each other.
* **Two records of one tree.** A command on a collection changes directories, then
  the names in one or two order markers, then asks for the tree to be read again;
  each is awaited on its own, may fail, and may meet another command half way.
* **Redirects**: headers are compared hop by hop, the guarantee is about the
  whole chain; and a response that redirected or was refused is not read but drained:
  its request may stay open as long as the server likes, or fail while the next hop
  is under way, which settles the call and leaves that hop to itself.
* **Recursion with memory**: a variable is resolved through others, each once; what
  is sensitive, missing or circular has to come through every path to it, also the
  paths that were taken before.
* **Credentials on the move**: from the key of an older version to the current one,
  from one profile id to another, in several calls of Secret Storage each of which
  may be rejected or the last before the window is reloaded.

`PROJECT.json` lists these, line by line, as hazards with the properties that
would catch each.

## 2. The modules

| Module | Models | Composes |
| --- | --- | --- |
| `ExecutionOrchestrator` | the slot, replacement, history recorder, presenters | - |
| `RetryEligibility` | the rule table, as pure operators | - |
| `CollectionRunner` | one run over a plan | EXTENDS `RetryEligibility` |
| `PlannedRun` | a run from membership to summary: planner, then runner | EXTENDS `DependencyPlanning`, `CollectionRunner` |
| `HistoryLog` | the contract of `HistoryRepository`: a bounded log | EXTENDS `Filtered` |
| `FileHistoryStore` | store, cache, queue, file, windows | EXTENDS `Filtered` |
| `OneWindowHistory` | the same with one window, seen through what `list` and `get` answer | EXTENDS `FileHistoryStore`, implements `HistoryLog` |
| `Filtered` | `filter` by inequality, as a pure operator | - |
| `ScenarioEngine` | one scenario run over its control flow | - |
| `RequestExecutor` | the race, and the WebSocket session | - |
| `HttpRedirects` | requests and what `redirectRequest` makes of them, as pure operators | - |
| `NodeHttpTransport` | one HTTP exchange with redirects | EXTENDS `HttpRedirects` |
| `HttpExchange` | a call of the executor with the exchange it runs | EXTENDS `RequestExecutor`, `HttpRedirects`; INSTANCE `NodeHttpTransport` WITH `stage <- hop` |
| `VariableResolver` | definitions, recursive resolution, errors and masks | - |
| `RunVariableContext` | sessions, scenarios and single requests sharing context and slot | EXTENDS `Filtered` |
| `DependRefs` | tokens of `@depends-on`, the edges of a plan, as pure operators | - |
| `DependencyPlanning` | graph, cycle search, topological order | EXTENDS `DependRefs` |
| `ProjectStore` | the documents of `.apihero`, migrations and every save | - |
| `CollectionMutation` | directories, order markers and the tree, under the commands of the tree view | EXTENDS `Filtered` |
| `SecretRepository` | get, store and delete under the lock of a field | - |
| `AuthenticationProfiles` | the authentication manager, token capture and resolution | EXTENDS `SecretRepository`, and implements its specification |
| `SharedState_proofs` | theorems and proofs about what the handlers of one window share | EXTENDS `RunVariableContext`, `OneWindowHistory`, `CollectionMutation`, TLAPS |
| other `*_proofs` | theorems and proofs of the module they are named after; those of `HttpExchange` include the exchange, those of `AuthenticationProfiles` the repository of secrets, those of `PlannedRun` the planner, the retry rules and the runner | EXTENDS it and TLAPS |
| `MC*` | the constants' values for TLC | EXTENDS it |

Operators whose comment begins with *Faulty* are no part of any specification.
Each is a plausible slip in the code it stands next to (a dropped guard, a
missing reset, an off-by-one), kept so that every property can be shown to
notice at least one; `PROJECT.json` pairs them under `mutants`.

### ExecutionOrchestrator

A run is a chain of synchronous sections between the awaits of
`runAtSourceLocation`: `resolving`, `executing`, `recording`, `extracting`,
`done`. An action is one section, from an await to the next or to the return,
with everything it does on the way: `Begin` takes the slot and aborts the run in
it; `ResolveReady`, `ExecuteSettles`, `AppendSettles`, `ExtractionSettles`
continue after their await; `ReturnReplaced`, `FinishCancellation`,
`FailPrecondition` and `Catch` are the ways out; `Return` is the `finally`
block. `AfterHistory` and `Present` are the common tails, so their guards
(where the code looks at the slot, and where it does not) are written once.
`Cancel`, `dispose`, suppression of the status presenter and its idle timer
come from outside.

Abstracted: the response is a verdict (success, failed, cancelled);
`commitHistory` is or is not asked for and the append succeeds or fails by
choice; the viewer and Problems remember which run they show.
`resolveAtSourceLocation` starts no run and changes nothing, so it has no action.

### CollectionRunner and RetryEligibility

`stage` follows `execute`/`executeOne`: between requests, reading the file,
attempting, waiting for a retry. An attempt is one call of the orchestrator;
`Answered` takes the facts of a response, asks `EligibleFromContext` before the
commit (the `shouldCommitSideEffects` callback) and `EligibleFromResult` after,
as the code does, instead of deciding once. `AttemptCancelled`,
`AttemptReplaced`, `AttemptInvalid`, `AttemptThrows` are the other outcomes of
`mapOrchestratorResult`. Status codes are reduced to what the tables tell apart.
`requests` is the plan: what each request needs (the implicit edges the preflight
looks at), what the analysis says it produces, and what the text really yields when
it is read.

### PlannedRun

`executeConfiguredCollectionRun` puts planner and runner in sequence. `Enrich` is a
step of the planner; `Start` hands the order to the runner and forgets the
planner's locals; the runner's steps follow. The plan is made from texts read before
the run, and each text is read again when its turn comes, so a request whose text
was unreadable or malformed at first may extract variables (`yields`) that no edge
of the plan accounts for (`produces`). `RunSpec` is the runner alone, over any list
of requests; the theorems about it hold without the planner.

### FileHistoryStore and HistoryLog

A task in the queue is `idle`, `loading` or `writing`; a read takes effect at
one point and completes later, and so does a write, which may fail and may leave
a file that does not parse. Who read such a file moves it away before it goes on, in
an await of its own (`TaskQuarantines`, `ListQuarantines`): what the rename takes is
whatever is there by then. `list`/`get` (`ListAsks`, `ListReads`, `ListCompletes`)
bypass the queue. `Reopen` is the reload of a window, at any point. The file is shared by
all windows (`windows`), each with its own cache. `HistoryLog` says what a client is
promised; `OneWindowHistory` states the refinement, whose mapping sends `log` to what
the store answers (the cache, or the contents of the file) and `cap` to `maxEntries`.
It is for one window: a second one on the same file is told of nothing the first
writes, so neither its cache nor its answers can be right.

### ScenarioEngine

Steps are numbered in execution order; `active` is the set of the engine, filled
by completed predecessors. One action per step kind and per way it may end, the
retry loop of a request step, delay steps, the early end of the loop (`Conclude`
gives every remaining step its result), and `Reject` for the exceptions the
engine does not catch. `Abort` is the signal of the caller or of the timeout.
`mergeSignalWithTimeout` does not look at a signal that is aborted already; no
host aborts that early, so the signal starts out unaborted.

### RequestExecutor and NodeHttpTransport

`RequestExecutor` has the call, the controller with the first cause recorded,
the timer, the promise race and, event by event, the WebSocket session:
`finish` happens once and closes the socket; events after it are ignored. The
HTTP transport appears there as a promise that may do anything, including never
settle; `NodeHttpTransport` has the exchange itself. Between the end of the race
and the continuation of `execute` other microtasks may run, so `CallerAborts`
may come in between.

`NodeHttpTransport` keeps the request of the current hop, with its headers
reduced to the three classes `redirectRequest` treats differently, the origins
visited, and the bytes read. The body of a response that redirected, was refused or
had no status is drained (`response.resume()`): `drains` counts the requests that are
open for this, beside the current hop and after the call has settled, until the server
ends the body (`Drained`), the request reports an error (`FailEarlierHop`) or the signal
destroys it (`Abort`). An origin stands for scheme, host name and
port; two origins may share a host.

### HttpExchange

Puts the exchange in the place of that promise: when `result` becomes something the
executor hears of it (`Heard`), unless another side won the race, and when the
executor's controller is aborted every request of the exchange is destroyed
(`Signalled`). The exchange is sent a microtask after the race began, which is
merged with it; a signal aborted in between destroys the request as it is made. A
WebSocket call has no exchange. There are two ways out of the executor's hands, both
only for a call whose controller nobody aborted. A request whose response redirected
fails while the next hop is under way (`Strayed`): the call reports that failure, the
timer is cleared, and the later hops go on. And responses that redirected or were
refused may be draining when the call settles; nothing ends them but the server.

### VariableResolver

The recursion of `resolveDefinition` is a stack of frames, one action per entry, per
kind of reference met, and per return. A text is reduced to the set of names it
refers to, a value to the scope it comes from and whether it is sensitive. The order
in which names and references are tried is free, so what is shown holds for any
order of definitions in a file. What a request refers to is chosen at the end
(`uses`), as `resolveRequest` works on the finished analysis. Where several errors
fit one name, `find` takes one by position; the model leaves the choice open.

### RunVariableContext

Follows the hosts of collection runs and scenarios through their awaits: the
guard asked twice before `begin`, the load of the collection variables, the run,
the toast, the `finally` block; the single-flight lock of scenarios; and the
requests of everybody through the one slot, as far as extraction is concerned:
`resolveRunStore` picks the store at the moment of writing. The recent ring is cut
to `RecentLimit` sessions (`Kept`). A value is named by who wrote it.

### DependRefs and DependencyPlanning

`DependRefs` has what a `@depends-on` token means: a bare name matches by name
alone, a qualified one by folder and name, and none or several matches stop the
plan. Implicit edges lead from producers to consumers of a variable. A request
whose file cannot be read, or whose tokens cannot be parsed, contributes no edges
of its own (`readable`).

`DependencyPlanning` takes the phases of `enrichRunPlanWithDependencies`. The
recursion of the cycle search is a stack of frames, one action per entry, per
successor and per return; a path is recorded when a successor is in the stack,
unless a cycle with the same nodes is known. `Schedule` is one round of Kahn's
algorithm. The order in which successors are tried is free.

### ProjectStore

Every file operation of a migration and of four kinds of save (environments
with workspace variables, the active environment, authentication profiles, an
extracted collection variable) is an action: it happens, or it fails, possibly
leaving half a file, or the process crashes there and the next one starts with
the migration on activation (`Activation`, `Startup`). Nothing excludes two jobs from
overlapping; only activation awaits its migration. Those of an added folder and of the
Initialize command are jobs like the saves (`kind = "migration"`), the latter with the
second initialisation that follows it (`again`). Contents are named by the job that
wrote them, and what any migration brings bears the name of the one on activation, so
two documents belong together when they bear the same name. A job carries what it
read before an await (`secrets`, `variables`, `seen`) until it writes. `backup` and
`staging` have a directory per save, like the timestamps in their names. Every save
initialises the store first and refreshes the cache (`Ensure` to `Warmed`), writes, and
refreshes the cache again (`Refresh`, `Refreshed`).

A migration that found no marker may write when another job has set it:
`FirstFile` and `LastFile` then put its environments among those of the save (`Mixed`),
a failure or crash half way leaves half of them (`Half`), and one while it writes
`config.json` takes the marker away. `spoiled` is a ghost that says so. `intact` is
another: since activation or since a whole save nothing failed and no jobs overlapped.

Assumed: the settings are not edited between two migrations, so all bring the same;
a marker that was written whole is readable. Merged: the service initialises the store
once more before its writes, which finds the marker the coordinator's call left (unless
a migration that overlaps tore it at that very moment); a refresh reads its files at
one point and replaces the cache later. The migration's `.gitignore` entry and its copy
of the old settings have no state here. Left out: stores of other folders than the
first, which get no settings; formats; the file watcher.

### CollectionMutation

A location is a collection followed by names; the disk and the two order maps of a
marker are functions on locations, so that one operator (`carried`) moves what
stands below a folder in all of them. The methods of the service for collections,
folders and requests are one set of commands (`create`, `rename`, `move`,
`duplicate`, `delete`, `reorder`) whose steps differ where the code differs: which
marker is updated, how (`Updated`), and whether a second one follows (a folder that
goes to another collection, and every move of a request). A command is a chain of
awaits: `apply` on disk, `read` and `write` of the marker, perhaps `readTarget` and
`writeTarget`, `refresh`, and `waiting` for the tree. `Fails` is a rejection at any
of them, with a copy begun or a marker half written.

Merged: the checks before a command with the choice of it (`Begin`; the rename checks
again when it acts, a copy or new file does not), `mkdir` with the change it precedes.
A scan reads everything at one point and is published later. The end of the loop in
`refresh` and the clearing of `refreshInFlight` are one step; in the code a caller that
asks in the microtask between them gets the older result. File watchers call the same
`refresh`; they are left out, so `TreeIsCurrent` holds without their help. Left out:
import and export, numeric prefixes of names, the collection without a directory, the
parse cache.

### SecretRepository and AuthenticationProfiles

`SecretRepository` is the repository by itself, under any callers: a call waits in
the queue of its field (`fieldLocks`) and then makes several calls of Secret Storage,
each of which takes effect or is rejected; the first read of an old credential moves
it from the legacy key to the canonical one. `said` is a ghost: what the calls that
returned amount to.

`AuthenticationProfiles` has the callers: credentials entered and cleared, tokens of
a login response applied or taken away, runs resolving authentication, and the save
of the profile list, which finds out by position which ids were renamed, copies the
fields of each (`copying`), writes the settings, and clears the old ids
(`clearing`), or the new ones when the write failed (`undoing`). Fields are reduced
to two, the credential the user enters and the session token of a login; the others
go the same ways. `Promise.all` over several profiles is taken in any order. `owed`
is a ghost: what the user may expect of a field; nothing once two changes
overlapped. Left out: the default profile, login configuration, the providers that
turn a secret into headers, and the views.

## 3. What TLC checks

Bounds are the constants of the MC modules and `.cfg` files; deadlock is not
checked because every model ends (all runs settled, all entries appended, the
exchange over).

| Run | Bounds | Shows |
| --- | --- | --- |
| `orchestrator` | 2 runs | `StaleRunsAreAborted`: whoever lost the slot was told to stop. `HistoryInRunOrder`: history and queued appends follow the order of starts. `OutcomeIsExplained`: "replaced", "cancelled", "precondition-failed" are told only for their causes and leave nothing behind. `LateAnswerIsInert`: an answer that arrives after replacement changes nothing. Live: `RunsSettle`, `StatusSettles`. |
| `http_exchange` | both protocols, with and without timeout and message; two kinds of failure; 3 origins (two share a host), 2 redirects, 2 bytes | `FirstCauseIsReported`: of transport, timeout and caller the first is told. `NothingOutlivesTheCall`: socket and timers are over when the call is, and so is every request of a call that was aborted; of another, all but a strayed hop and responses that drain. `CredentialsStayAtOrigin` along every chain of redirects. Live: `BoundedCallsEnd` with no help from server or peer. |
| `planned_run` | 3 requests: 64 graphs, plans with shared names, folders and wrong tokens, producers and consumers of variables with an unreadable text; 1 retry, all policies, a DELETE | `OrderRespectsDependencies`: each request once, after all it depends on. `CyclesBlockExactly`: refused for a cycle exactly when there is one. `CommittedAtMostOnce`, `ReportedResponseIsCommitted`, `StatusExplainsResults`, `NothingStartsAfterCancel` of the run. `SkippedConsumersStayWithout`: who was skipped for a missing variable would have missed it at the end as well, so the order served. Live: `RunEnds`. |
| `history_store` | 1 window, 3 entries, caps 1 and 2, 2 queued tasks, reads beside the queue | `CacheMirrorsFile`; the store implements `HistoryLog` until a read, or the move of a damaged file after it, overtakes the queue (`ImplementsHistoryLog`); live: `AppendsSettle`. |
| `scenario_engine` | every connected graph over 4 steps, 1 retry, all failure policies | `RanExactlyTheReached`, `StatusExplainsSteps`, `NothingSentAfterAbort`; live: `RunSettles`. |
| `run_context` | 2 collection runs, 2 scenarios, single requests; symmetric in the runs of a kind | `RunsAreKeptApart`: one collection session at a time, ended ones in a ring of at most `RecentLimit`, and a scenario never takes the context from another. `ContextIsNotLeaked`, `UndisturbedRunsKeepValues`. |
| `project_store` | the migration on activation and 2 saves or later migrations of any kind, failures everywhere, crashes; symmetric in the two | `EnvironmentsSurvive`: a complete set of environments stays on disk, live or as a backup, until a migration writes beside the marker. `MigrationIsWhole`: until another job begins, the marker stands for everything the migration brings. `CredentialsBeforeRedaction`. `UndisturbedStoreIsConsistent`: a save alone heals the store, and undisturbed saves keep documents, overlay and cache together. |
| `collections` | 2 layouts over 2 collections, folders nested twice, 2 requests; 2 commands, failures everywhere | `TreeIsCurrent`: once every command is through, the tree shows what the disk and the markers say. `MarkersMatchDisk`: after commands that did not meet, no marker names what is gone. `OrderSurvives`: siblings that stay siblings keep their order through renames, moves and copies. |
| `variables` | three variables of one scope, each referring to none, one or two of them and of an undefined name; two names defined three times over two scopes, with built-ins referred to and defined | `ResolvesExactly`: a name has a value exactly when it comes down to texts without references, and of the definition that takes precedence. `MaskedExactly`: what is shown is masked exactly when something sensitive went into it. `ErrorsTellWhy`: the chains reported are chains, and every failure leads to one. |
| `authentication` | 2 profile ids, lists of one or both; 3 operations, 2 at a time; one rejection, failed write or reload; symmetric in ids and operations | `ReturnedCallsHold`: a field with no call under way reads as the calls that returned left it; what was deleted does not come back. `CredentialsSurvive`: a configured profile has the credential entered last and the token applied last, also under a new id. |

Why the bounds are enough to be interesting. Two orchestrator runs give every
pair of stages, one replaced at each await of the other; a third adds a chain
of replacements (the safety properties also hold with `MaxRuns = 3`, 3.1 million
states, two minutes) and the proofs cover any number. Three requests are a
producer, a consumer and a consumer of both, so a skip can follow from a skip.
Two redirects lead away and back. Three entries exceed both caps. Four steps
hold a branch, a join and a step behind it. Two scenarios and two collection
runs are one more than the guards admit of each. Three requests also hold two cycles
that share a node, and a node with two producers; the planner's theorems are for any
number. Three variables give a chain of sensitivity through a third, a circle that
is entered from outside, and a name that failed before it is met again. Three
operations on credentials are two that overlap and one that finds what they left
(enter, rename, rename back); a mishap in any of them is followed by another
operation. Configured profiles start with both fields, under either key; empty ones
come from clearing and adding. Two jobs of the project store beside activation
give every overlap of two kinds, saves and migrations, each with the migration on
activation before it or after a crash behind it; the second also shows what the first
left behind (960,764 states). Two commands on collections
give each pair in sequence (a move and the move back, a rename of a moved folder) and
each pair overlapping; the layouts hold an order that is not the alphabetical one and
a folder within a folder, which is what remapping keys can get wrong.

### Fairness

* Synchronous code, microtasks and timers run: the event loop.
* `Resolve`, `Execute`, `Extract`, `Record` of the orchestrator settle:
  authentication, executor and file operations end. For the executor this is
  what `BoundedCallsEnd` shows, provided the request has a timeout
  (`apiHero.requestTimeout` is 30000 by default; 0 turns it off, and then only
  the transport or the user ends a run).
* File operations complete, successfully or not (`FileHistoryStore`).
* A read, an attempt and a delay end (`ScenarioEngine`, and the runner's steps in
  `PlannedSpec`); an attempt because `RunsSettle`. The planner is synchronous but for
  its reads.
* Users, callers, servers, peers and `Reopen` never have to do anything.

## 4. Where code and documentation disagree

Each of these runs ends in a counterexample, and `findings` quotes the sentence
it contradicts.

* `orchestrator_stale_status`: the slot is checked when the response arrives and
  not after the awaits of history and extraction. A run replaced there still
  writes the status bar over that of the newer run. It publishes its
  assertion report to Problems and its result to the viewer, too.
* `project_store_collections`: saving environments or workspace variables writes an
  overlay that starts from an empty one and takes over two of its three parts: the
  sensitive values of all collections are gone.

Observed while modelling and kept in the models, without a run of their own:

* an attempt for which a retry is expected is not committed; if the run is
  cancelled during the backoff, the request that was sent leaves no history entry
  (`src/collection-runner/collection-runner.ts`, line 436, against
  `docs/user/collection-runner.md`, line 276: "History records the final attempt
  for each planned request");
* every window caches the one history file and appends to its own cache, so two
  windows overwrite each other's entries;
* a `list()` that read the file before an append and completes after it puts the
  old cache back, and the next append drops the entry (one window suffices;
  `overtaken` in `FileHistoryStore` marks it, and the refinement holds until then);
* a `list()` that read a damaged file moves away whatever is there when its rename
  comes (`src/history/file-history-store.ts`, lines 144 and 176;
  `src/history/vscode/file-history-repository.ts`, lines 110-113, with
  `overwrite: true`), the document an append has written in between included: the
  entry is gone from the disk while the cache has it (marked by `overtaken`, too);
* an error event during the close handshake loses a WebSocket frame that was
  already received (`src/docs/user/websocket.md`, line 30, promises success);
* a scenario may begin during a collection run and takes its context, so the
  values the collection run extracts land in the scenario's store
  (`UndisturbedRunsKeepValues` is conditional for this reason);
* the `finally` block of a run, reached after its toast was dismissed, clears the
  collection variables of the run started meanwhile
  (`src/collection-runner/vscode/register-collection-runner.ts`, line 348, against
  `src/variables/collection-variable-cache.ts`, lines 16-19);
* while the toast of a finished run is up, a single request extracts into the
  store of that run, which is then cleared;
* an abort during the delay between two attempts of a scenario's request step
  rejects the run instead of concluding it as cancelled (`Reject`);
* between the two renames of an environment save readers find no environments,
  although the comment says "Atomically replaces"; after a crash there only the
  backup has them, and nothing restores it;
* when the overlay write of a save fails the new directory is live already, and the
  rollback, which acts only when the live one is missing, leaves it there next to
  the old sensitive values;
* a migration that failed is repeated on the next activation unless a save came
  first: that one initialises the store with empty documents and sets the marker;
* the migration of an added folder, or by command, that has looked for the marker
  (`src/project-store/migrate.ts`, line 91) before a save set it writes its environment
  files (line 136) into the live set of that save, its workspace document and overlay
  over theirs; a crash in between leaves half of them live, no backup, and a marker that
  keeps every later start from repairing it (marked by `spoiled`; `EnvironmentsSurvive`
  holds until then);
* a document that cannot be read counts as empty, and what was built from it is
  written back;
* `src/dependencies/cycle-detector.ts`, line 15, says "Detects all simple cycles";
  it finds one in every graph that has any (`CyclesBlockExactly`), not all of them:
  nodes left once are not searched again;
* the header of `src/dependencies/topo-sort.ts` says nodes that cannot be scheduled
  are dropped silently; they are appended (`Publish`), and as only graphs without a
  cycle are sorted there are none;
* a request whose file cannot be read is planned without dependencies of its own, and
  the offsets of a plan come from a discovery that is older than the text they are
  applied to (`src/collection-runner/vscode/register-collection-runner.ts`, lines
  188-217);
* a folder that an order marker lists is shown even when its directory is gone
  (`src/collections/discovery.ts`, lines 329-343), and no command can then delete,
  rename or move it; a folder no marker lists disappears from the tree when it becomes
  empty, and its name stays taken;
* a command on a collection that fails after it changed the disk does not refresh the
  tree, and two commands that update one marker at the same time lose an update
  (`intact` in `CollectionMutation` marks both);
* a new request or a copy overwrites a file another command put there after the check;
* a request whose response redirected and then reports an error settles the call
  while the next hop is under way; nothing aborts that hop, and no timer is left for
  it (`src/execution/node-http-transport.ts`, line 79; `Strayed`);
* the body of a response that redirected or was refused is drained, not ended
  (lines 96-136); one that the server does not end keeps its request and socket open
  after the call has settled, its timer cleared, and nothing aborts it (`drains`);
* profiles whose ids are swapped or passed on along a chain are not recognised as
  renamed (`findRenamedProfiles`), so credentials stay with the ids;
* a save that wrote the settings and failed while clearing leaves the panel with the
  list from before; the next rename is then not recognised and its credentials are
  lost, and when the write of that save fails, undoing it can clear those of a
  profile in use;
* the session metadata of a profile that is removed stay behind;
* two captures of one profile that overlap can leave the token of one with the
  expiry of the other;
* a delete that fails between the canonical and the legacy key brings an older
  credential back (`Rejected` sets `said` to it);
* a variable that refers to one which failed before is reported as "not defined"
  (`src/variables/variable-resolver.ts`, lines 120-122 and 489-495).

## 5. What is proved

For every value of the constants, under the assumptions named in the modules
(`MaxRunsAssumption`, `CollectionRunnerAssumption`, `HttpRedirectsAssumption`,
`RequestExecutorAssumption`, `AnyFolderAssumption`, `PlanningAssumption`,
`VariableResolverAssumption`, `SecretRepositoryAssumption`,
`AuthenticationProfilesAssumption`, `ScenarioEngineAssumption`,
`RunVariableContextAssumption`, `PlannedRunAssumption`, `ProjectStoreAssumption`,
`FileHistoryStoreAssumption`, for the history `OneWindow`, for the collections
`NamesAreApart`, `LocaleIsTotal` and `LayoutsAreSound`). They say that values
which stand for "nothing" are none of the others, that bounds are numbers, and what
the code makes sure of before: that the ids of a profile list are distinct, that steps
of a scenario come in the order of their connections, that a name tells a file of a
request from a directory (the extension), that the locale orders all names
(`localeCompare`), and that what the first tree is built from has no directory without
its parents, no marker naming what is not there, and in a marker no empty list
(`src/collections/marker.ts` drops those when it reads one, lines 262-281, and when it
writes one, lines 299-310). TLC evaluates each of them.

| Theorem | Statement |
| --- | --- |
| `TypeCorrect` | type invariant of the orchestrator, any number of runs |
| `SupersededRunsAreAborted` | `[]StaleRunsAreAborted` |
| `LogFollowsRuns` | `[]RecordedInOrder` |
| `HistoryIsInRunOrder` | `[]HistoryInRunOrder` |
| `OutcomesAreExplained`, `LateAnswersAreInert` | `[]OutcomeIsExplained`, `LateAnswerIsInert` |
| `RetryAnswersAgree` | before the commit and after the attempt the same answer is given, for every response and extraction report |
| `CommittedIsNotRetried` | an attempt that was committed is not retried |
| `RunnerTypeCorrect` | `RunSpec => []RunTypeOK`: types of a collection run, any plan and number of retries |
| `CommittedOnce` | `RunSpec => []CommittedAtMostOnce` |
| `ReportedIsCommitted`, `StatusIsExplained` | `RunSpec => []ReportedResponseIsCommitted`, `RunSpec => []StatusExplainsResults` |
| `CancelStopsStarts` | `RunSpec => NothingStartsAfterCancel` |
| `PlannedRunIsSafe`, `CancelStopsPlannedRun` | the planner's two properties and the runner's four hold of the run from the membership plan to the summary |
| `SkipsWereJustified` | `PlannedSpec => []SkippedConsumersStayWithout`, plans of any size |
| `ScenarioTypeCorrect` | type invariant of a scenario run, any steps and connections forward |
| `RunsExactlyTheReached`, `ScenarioStatusIsExplained` | `[]RanExactlyTheReached`, `[]StatusExplainsSteps` |
| `AbortStopsSending` | `NothingSentAfterAbort` |
| `ContextNeverLeaks`, `UndisturbedValuesStay` | `[]ContextIsNotLeaked`, `[]UndisturbedRunsKeepValues`, any number of runs of each kind |
| `ScenariosStayApart`, `RunsStayApart` | one scenario at most is under way; `[]RunsAreKeptApart` |
| `HistoryTypeCorrect`, `CacheIsTheFile` | type invariant of the history store; `[]CacheMirrorsFile`, any entries, caps and length of the queue |
| `StoreImplementsLog` | `HistorySpec => ImplementsHistoryLog`: the store is the log of the contract, step by step |
| `TreeShowsTheDisk` | `TreeSpec => []TreeIsCurrent`, any number of commands, any names and layouts |
| `MarkersFollowTheDisk` | `TreeSpec => []MarkersMatchDisk`, any number of commands, any names, depth and sound layouts |
| `OrderOutlivesCommands` | `TreeSpec => OrderSurvives`, under the same conditions |
| `ProjectStoreTypeCorrect` | type invariant of the project store, any number of saves and migrations |
| `NoSetIsLost` | `EnvironmentsSurvive`, in whatever way they overlap |
| `MarkerMeansMigrated`, `RedactionComesLater` | `[]MigrationIsWhole`, `[]CredentialsBeforeRedaction` |
| `AWholeSaveSettles` | `[]UndisturbedStoreIsConsistent` |
| `TransportTypeCorrect` | type invariant of the exchange; redirects stay within the policy |
| `CredentialsStay`, `HostHeaderStays`, `BodyStaysWithMethod` | the three redirect properties, any origins and any number of hops |
| `ResponsesStayWithinLimit` | a response that is returned has no more than the limit of bytes |
| `CallsRunExchanges`, `CallsAreExecuted` | a call with its exchange implements the specification of the transport, and that of the executor |
| `CallCredentialsStay` | `[]CredentialsStayAtOrigin` of the composition |
| `FirstCauseDecides`, `CallsLeaveNothing` | `[]FirstCauseIsReported`, `[]NothingOutlivesTheCall` |
| `ResolverTypeCorrect` | type invariant of the resolver, any names and definitions |
| `ResolutionIsExact`, `MasksAreExact` | `[]ResolvesExactly`, `[]MaskedExactly` |
| `FailuresAreExplained` | `[]ErrorsTellWhy` |
| `TypesHold` | type invariant of the planner, any number of requests and plans |
| `PlannedOrderIsSafe` | `[]OrderRespectsDependencies` |
| `CycleCheckIsExact` | `[]CyclesBlockExactly`: both directions, and the paths shown are cycles |
| `TiesAreStable` | `[]TiesKeepMembershipOrder` |
| `ReturnedCallsAlwaysHold` | `RepositorySpec => []ReturnedCallsHold`, any callers and any credentials |
| `OperationsCallTheRepository` | `Spec => RepositorySpec`: the operations on profiles keep to what the repository expects of its callers |
| `PanelCallsHold` | so `[]ReturnedCallsHold` holds of them too |
| `CredentialsAreKept` | `[]CredentialsSurvive`, any profiles, lists and number of operations |

These types are proved, so no run spends its time on them; `HostHeaderStays`,
`BodyStaysWithMethod`, `ResponsesStayWithinLimit` and `TiesAreStable` are theorems only.

The arguments:

* *Orchestrator.* The type invariant needs that a run past `executing` has a
  verdict (`HasVerdict`), since the tails branch on it. A run that is live and
  not in the slot is aborted because the only steps that take the slot away from
  a live run are `Begin` and `dispose`, and both abort it. Order of history
  alone is not inductive: nothing in it says that the run about to be recorded
  is newer than those recorded. `RecordedInOrder` adds that only the newest run
  can own the slot, and that recorded runs are past execution; the run that
  records owns the slot, so it is the newest, and it was not recorded before.
  `OutcomeIsExplained` needs what is known of runs that are still open: one
  without the slot was overtaken, no open run has told anything yet, and before it
  is recorded it has left nothing behind. What a step does to a run changes nothing
  of another, so one run can be looked at alone.
* *Collection runner.* `CommittedAtMostOnce` is inductive with `Counters`
  (attempt and loop counters agree with the stage) and `NotYetCommitted` (a
  request that may still be attempted has no commit). The step that could break
  it is `Answered`, where commit and retry must exclude each other: that is
  `CommittedIsNotRetried`, a fact about the rule table.
  A result that says a response was read is pushed only by the step that saw the
  commit. The status is explained by `StatusFitsLoop`, which ties the results pushed
  so far to the stop flag and the signal as the loop goes on; at its end it is the
  property.
* *Planned run.* Until the order is handed over the runner has not begun and the
  planner's invariant holds (`Planning`); afterwards the runner's does, from an entry
  like any other (`Running`), so its theorems carry over. `SkippedConsumersStayWithout`
  needs both: the order puts every known producer of a variable before its consumer
  (`NoLaterProducer`), the store grows only by what the request whose turn it is
  extracts (`StoreGrows`), and requests behind the turn get no other, so what was
  missing at the skip is missing for good.
* *Scenarios.* The loop takes the steps in order and connections lead forward, so
  the steps behind the loop are final and nothing was sent for those ahead; a step
  that is active was chosen by one behind it (`ActiveAreReached`), and in a run that
  was not aborted each step behind the loop ran exactly if it was active.
* *Shared context.* Each guard is tied to the stages of the runs behind it: the
  manager has a session for exactly the collection run being loaded or executed
  (`SessionIsAdmitted`), the lock belongs to exactly the scenario under way
  (`LockIsHeld`). So no two runs of a kind are executed at once, and as long as no
  scenario begins the collection run that is executed has the context
  (`ContextIsHeld`). The ring of recent sessions has runs that have ended, each once
  (`Ring`), and cutting it keeps that; one that ended does not start again, so none is in
  both lists.
* *History.* What a task is about to write is an outcome of the contract applied to
  what the store answers now (`Faithful`). That survives every step because the queue
  holds one task in progress, reads of the queue see the file they are based on, and a
  read outside it can put an old cache back, or move a newer document away, only after a
  write overtook it. Every step
  then changes the answer to an outcome, or not at all.
* *Tree.* Whoever changed the disk or a marker and has not asked for a refresh is still
  under way or failed (`Unasked`). Otherwise the idle tree shows what is there
  (`IdleIsCurrent`), and a scan that has read has seen all of it unless another is
  queued (`ScanIsCurrent`). A scan is under way only while somebody waits for it
  (`SomebodyWaits`), so once every command is through there is none. What is on disk
  does not matter for this.
* *Markers.* `MarkersMatchDisk` says nothing while a command is under way, when a marker
  does speak of what has moved. What is inductive is what the command holds in its
  hands (`Fit`): before it reads, whatever `Updated` makes of the marker it will read
  fits the disk already; once it has read, the document it will write does; and what a
  move to another collection carries fits the collection it goes to. Markers that no
  command is about to rewrite match the disk (`OthersMatch`). Two commands at a time
  would break that, so would a marker misread, which is why `OrderInv` asks for it only
  as long as `intact` holds, that is while commands are alone (`Alone`). The step that
  has to establish it is `Apply`, one lemma for each kind of command: the same
  `carried` and `without` act on the disk and on the keys of the map, so what a marker
  lists moves as the directories do. This rests on the disk being a tree (`isTree`),
  without which a folder that is listed could stay behind when its parent goes. The
  proof found that two cases of `Updated` overlapped for a collection renamed or copied,
  where TLA+ leaves open which is taken; they are apart now, as the code has them.
* *Order.* `OrderSurvives` compares two trees that are published, with a change of the
  disk and up to two of the markers between them. What is inductive is a promise of the
  command under way (`Told`): whatever markers there will be once it has written what it
  has in its hands (`isOutcome` lays that over those on disk now), they keep, together
  with the disk as it is now, the order of what is shown (`Keeps`). Before the change of
  the disk, the promise is that the tree shows what is there (`Untaken` adds that the new
  place is free). `Apply` makes the promise, or `Begin` for a reorder, which changes no
  directory; every later step only moves what is still to come from the hands of the
  command to the disk, and `Publish` redeems it, since the scan saw the disk as it is
  (`ScanIsCurrent`). Making it takes two facts that do not know of each other: `Came`,
  where each thing on disk was before, by its identity (one that was there at first is
  in one place, `Distinct`); and `Slots`, what became of each list of names: a list of
  those that stay keeps every pair (`KeepsPair`), a list taken along is what it was, and
  the one name that changes does so in its place. `KeepsIf` puts them together. A list
  that names a thing and one that leaves it to the locale differ in where they put it,
  so `KeepsPair` compares ranks (`rankIn`), not positions. The proof needs that a marker
  has no empty list: one at the key of a folder that is gone would hide the list a move
  carries there, or be hidden by it, as the file happens to have its keys.
* *Project store.* Each kind of save and a migration has its own route through the
  file operations (`Route`). `Swapped` follows the one set of environments through the
  two renames: whole where it is live, or in the backup of the save that moved it away,
  which is not dropped before another is whole and live. It speaks of stores that are not
  `spoiled`. A backup is there only beside the marker, and a migration writes to the live
  directory on its way from `Ensure`, which saw none, so a step that could break it is
  one that spoils the store; whoever is past its own initialisation finds the marker
  (`MarkerOrder`) if it is alone, where nobody can have taken it away, or if nothing was
  spoiled. A job counts as alone only as long as it is the only one under way
  (`Lonely`). `MarkerOrder` and `Progress` say what is on disk before the marker is
  (all that the migration on activation brings, and not a set of files of two jobs),
  `Promotion` that profiles are rewritten after their credentials went to Secret
  Storage. For jobs that meet nobody, `OneAtATime`, `WholeSave` (what a save of all
  documents has written so far bears its name), `Seeing` (the cache it will publish is
  what is on disk) and `Undisturbed` (documents that belong together stay together
  through smaller saves, and later migrations, which find the marker) lead to the store
  being consistent at the end; `StoreInv` is their conjunction.
* *Transport.* The comparison in `redirectRequest` is between neighbours. With
  the current origin among those visited (`HopIsVisited`), headers that are still
  there have only ever been at one origin (or host), so comparing with the
  previous hop is comparing with the first.
* *Composition.* Every step of `HttpExchange` is a step of the transport or leaves it
  alone, and the same for the executor; so what was proved of the transport holds of
  the composition. `FirstCauseIsReported` follows from `CauseHolds`: the cause
  recorded by the controller is the first one, and the outcome is decided by it.
  `NothingOutlivesTheCall` needs `SessionHolds` (what is left of the socket and the
  timers at each stage) and `ExchangeHolds` (an exchange is over when its side of
  the race has settled or the controller is aborted, unless it strayed; an abort leaves
  nothing to drain, and nothing is sent after it).
* *Resolver.* The values rest on each other (`ValuesRest`: all references of a value
  have values), failures on something without a value or on a circle
  (`FailuresRest`), and each call on the stack agrees with what it has tried
  (`CallHolds`). A value is added after all it refers to, so the set of values stays
  grounded. A mask is exact because the names a value rests on form a closed set:
  sensitivity comes from a name in every closed set around it, and one without any
  sensitive name has a closed set of such names around it.
* *Secrets.* Those in the lock of a field are the callers with a call under way on it,
  each once, and only the first has begun (`FirstIsAlone`); so what it found before
  an await is still there after it (`Found`), and the field reads as was said but
  while it is being deleted (`ReadsAsSaid`). An operation on profiles has one call at
  a time (`OperationHolds`), which is all the repository expects.
* *Credentials.* An operation that changes something and is alone works on fields
  nothing is owed of: the one that is entered (`EntersOne`), those of new ids, into
  which a save copies, and those of ids that are no longer configured (`Clears`). So
  what is owed is read all the time (`Kept`). A save has the old and new id of each
  renamed profile in pairs that share no id (`PairsDiffer`), and what it is done with
  reads under the new id as under the old (`Copied`); when the settings are written all
  of it is done, and what was owed of the old id is owed of the new. Two operations
  that overlap owe nothing (`Overlapping`), which is why the invariant need not follow
  them; a run only reads (`OnlyReads`), so it may come in anywhere.
* *Planning.* That the search misses no cycle rests on the order in which it
  leaves nodes: successors of a node it left were left before, or lie on the stack
  and then a cycle was recorded. So with no cycle recorded the order of leaving is a
  topological one backwards, and the first node of any set to be left has no
  successor in the set: no set can be a cycle. Kahn's algorithm then never runs dry:
  the nodes it has not scheduled have one without a predecessor among them, and
  `blocked[n]` is exactly the set of edges into `n` from nodes not yet scheduled, so
  that node is ready. `TiesAreStable` follows from taking the least of `ready`.

Only model-checked: liveness (`RunsSettle`, `StatusSettles`, `BoundedCallsEnd`,
`RunEnds`, `AppendsSettle`, `RunSettles`), which with ENABLED is outside what TLAPS
proves here. Every safety and action property that a passing run checks is also a
theorem, for every value of the constants.

## 6. Plan

Done, in order of importance: the orchestrator and its proofs; retry rules and
collection runner with proofs; history store and its contract; scenario engine
with proofs; executor and transports with proofs; the context they share with its
proofs; planning with its proofs; the project store; the commands on collections; executor and transport
composed, with proofs; planner and runner composed; variable resolution with proofs;
the secrets and profiles of authentication with proofs; proofs for the project store,
the history and its contract, the tree with its markers and its order, and the planned
run as a whole.

Next, in this order:

1. the runner composed with the orchestrator's slot, and extraction
   (`src/extraction/engine.ts`, the writers of session and environment values);
2. the one-shot binding of authentication (`src/auth/ephemeral-authentication.ts`):
   it is set before the progress indicator of its send has started and taken when
   authentication is resolved, so that a request of a run may take it in between, or
   the end of an older send clear it
   (`src/request-editor/vscode/register-request-editor.ts`, lines 417-441);
3. the request editor against its document, the parse cache against edits, the
   MCP host.

## 7. Not modelled

Serialisation of requests and projection of responses, assertion evaluation,
parsing, format conversions (import, export, code generation) and all views:
data without state shared between actors. The CLI and MCP hosts compose the same
orchestrator and runners; they add no concurrency of their own beyond what the
models allow. Invalid timeouts (a `TypeError` before the race) are not modelled.
The `handshakeTimeout` of `ws` appears as an error event.

## 8. Running

In this directory: `tlc -config MCExecutionOrchestrator.cfg
MCExecutionOrchestrator` (likewise for the other runs, each `.cfg` belongs to
the `MC` module its name starts with), and `tlapm
ExecutionOrchestrator_proofs.tla` for the proofs.
