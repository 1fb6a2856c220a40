# A verification project for ZhiLoop

ZhiLoop is a local, single-user knowledge layer for coding agents. It watches
the transcripts and hooks of Codex sessions, keeps what happens in a ledger of
events, compiles snapshots of that ledger into candidates for knowledge, lets
a person or a policy publish them, keeps them fresh while the code changes,
injects them into later prompts and verifies the end of each turn. One Node
process, the sidecar (`src/apps/sidecar`), composes 71 packages over SQLite
databases and files; a console gateway, a web console and a command line talk to
it over a local socket.

This directory holds TLA+ modules for the parts of that system where order,
crashes and concurrency decide whether it is correct, TLC configurations that
check them on small instances, and proofs, checked by TLAPS, that hold for all
instances.

Contents: [1 inventory](#1-inventory) · [2 modules](#2-modules-and-the-code) ·
[3 runs](#3-runs-bounds-fairness) · [4 disagreements](#4-disagreements-between-code-and-documents) ·
[5 proofs](#5-proofs) · [6 limits](#6-what-is-not-modelled) · [7 plan](#7-what-could-come-next)

## 1 Inventory

The table names the components that keep state or schedule work. `PROJECT.json`
lists every component, with its files and, where it is not modelled, the
reason.

| component | state it keeps | operations | talks to |
|---|---|---|---|
| job store (`packages/job-runtime/src/store.ts`) | four tables: jobs, attempts, checkpoints, commands | enqueue, claimNext (which also recovers expired leases), heartbeat, saveCheckpoint, succeed, fail, cancel, manualRetry, requestCancellation, acknowledge/reject | every background job of the sidecar |
| job worker (`worker.ts`) | one running handler per loop, its timer and abort signal | runOnce | job store, handlers |
| P1 runtime (`apps/sidecar/src/p1-runtime.ts`) | two timers, tails in flight, generation, the open store | start, scan and poll ticks, reconfigure, stop, close | job store, workers, configuration |
| configuration (`packages/configuration-service`) | revisions, drafts, receipts; a queue of commands | validateDraft, activate, rollback, get | the components it prepares, applies to, rolls back |
| automatic ingestion (`packages/automatic-ingestion`) | one checkpoint per session | scan, capture of due sessions, recovery of replaced transcripts | session catalog, transcript capture, backfill |
| transcript capture (`packages/codex-session-capture`) | the cursor in the ledger's database | capture | transcript file, ledger |
| ledger (`packages/conversation-ledger`) | events, unique by identity; ingestion cursors | append, appendBatch, commit a cursor | hooks, capture, compilation |
| hook handler and spool (`packages/hook-runtime`) | one file per event | handle, store, drain | daemon, ledger |
| daemon (`packages/daemon-runtime`) | the shared promise of a cycle | handleHook, runWorkerOnce | spool, ledger |
| compilation scheduler (`packages/knowledge-compilation-scheduler`) | a checkpoint per session and pipeline | runOnce: page, decide, validate, dispatch, record | job store, coordinator, catalog |
| preview coordinator and compile jobs (`apps/sidecar/src/p2-preview-coordinator.ts`, `p2-evolution-jobs.ts`) | calls in progress | plan, coordinate | snapshot store, knowledge jobs, transcript inspection |
| session extraction (`packages/session-extraction`) | snapshots, previews, policy commits | createSnapshot, enqueuePreview, complete, commit | coordinator, knowledge worker |
| knowledge worker (`packages/knowledge-worker-runtime`) | stage checkpoints and the publication outbox of a knowledge job | execute, stage by stage | Markdown, registry, freshness, index |
| governance (`packages/knowledge-governance-service`) | operations with their stage; exclusions | edit, suppress, restore, supersede, execute | Markdown, registry, index |
| formal knowledge (`markdown-repository`, `knowledge-registry`, `knowledge-indexer`) | `versions/n.md`, `current.md`; rows projected from them | publish, tombstone; projectCurrent, replaceAssetHistory; syncAsset | knowledge worker, governance, recall |
| change intake (`packages/knowledge-change-intake`) | live revision, baseline, observations | scan, acknowledge, notify | git, evolution jobs |
| freshness and verification (`packages/knowledge-freshness`, `knowledge-verification`, `knowledge-evolution-jobs`) | freshness rows, transition effects, job checkpoints | freeze, verify, commit a page, gate | change intake, recall |
| rollout (`packages/active-rollout-service`) | one JSON file: effective revision, evidence, history | activateCanary, observe, downgrade, forceShadow | injection |
| injection (`apps/sidecar/src/p4-active-runtime.ts`, `active-knowledge-runtime`, `codex-context-injection`) | injection attempts in the audit store | handle a prompt, acknowledge a delivery | rollout, recall, freshness gate, host |
| closure (`active-knowledge-runtime/src/closure-runtime.ts`, `stop-continuation`, `confirmation-writeback`) | closure operations, audits, confirmations, a counter per turn | execute a Stop, resolve a reply | verifier, host, effects |
| deployment (`packages/local-deployment`, `plugin-runtime`) | releases, the `current` link, manifest, launch agent, hooks.json and two receipts | install, upgrade, uninstall | launchd, Codex, the user's files |
| prewarm, repair drafts, legacy migration, alerts, read model, console operations | rows over SQLite | see `PROJECT.json` | console |

### What is hard here

* **Durable tables and volatile schedulers.** A job, a checkpoint or a spool
  file survives; the timer, the promise or the in-memory flag that would have
  acted on it does not. Every module has the crash between the two.
* **Several databases, no common transaction.** The compile job is enqueued in
  one and the checkpoint that claims it written in another; a version is renamed
  into place, then projected, then indexed; the outcome of a Stop goes into
  three stores.
* **`await` as the unit of atomicity.** Node runs one callback at a time. All
  that happens between two awaits is one step, and everything read before an
  await is old after it: leases, ledger revisions, cursors, rollout decisions.
* **Leases and clocks.** A job's holder is whoever the store would still
  believe, and the clock is read before the database lock is waited for.
* **Retries meet originals.** Idempotency keys everywhere: of jobs, commands,
  hook events, recoveries, snapshots, prompts, Stops and replies.
* **The world outside moves.** Transcripts are replaced, the repository is
  edited between two `git` processes, users edit hooks.json, an effect lands
  after its deadline.
* **Limits.** 100 recovered rows per claim, one drain's batch, worker
  concurrency, outstanding jobs, attempts, continuations.

### What makes the components correct

* job store: at most one holder at a time; the tables agree; a cancelled job
  starts no further attempt; an operator who decided on an old view is refused.
* worker: everything accepted settles, cancellations are honoured.
* runtime: what was started keeps running over a store that is open.
* configuration: components run what the record says; one revision per key.
* ingestion: no change of a transcript is forgotten; the cursor never runs ahead
  of the ledger.
* hooks: what was reported as kept is kept; each event is in the ledger once,
  and gets there.
* compilation: snapshots tile the ledger; what is claimed or succeeded is backed
  by rows; every event is compiled or somebody is told.
* publication: versions are published once and never replaced; COMPLETED means
  published; nothing suppressed is listed.
* revalidation: what the gate lets through was verified at that very tree;
  nothing goes back; the baseline catches up with the repository.
* injection: a context is delivered only under the activation that decided it,
  of knowledge in force, and on record; a failure withdraws only its own
  activation.
* closure: continuations are bounded over concurrent Stops, a Stop has one story
  in all stores, a question has one answer.
* deployment: nothing selected or running is missing; a command leaves a whole
  installation or none; the user's hooks stay.

## 2 Modules and the code

`PROJECT.json` maps every definition to its lines; this is the overview.

**JobLifecycle** is the abstract specification: per key a phase, the executions
left and a token. **JobStore** is the store, one action per public method that
writes, each the whole transaction including what the method does first
(`ClaimNext` settles expired rows, up to `RecoveryLimit`, before it leases).
Times are stored relative to the present, so time can pass for ever in a finite
model; `Tick` ages every stored time. `Readings` are the clock readings a
transaction may act on: 0, or negative for one taken before a wait for the lock.
The constant `Horizon` is where old times are no longer told apart.
`ImplementsLifecycle` is the refinement, with the budget left as
`max - attempt` and the token as the fencing token.

**JobWorker** extends JobStore by the loops of `runOnce`. A loop awaits only its
handler, hence three kinds of steps: claim and call, heartbeat timer, and the
handler's end with its outcome written in the same callback. Processes crash,
heartbeats fail, the shutdown signal aborts.

**P1Runtime** has the two timers, the tails, the concurrent worker loops of a
poll, `#applyConfiguration` with its stop and restart, and close. Promises that
are settled resume before the next timer fires (`Drained`). `Faults` switches
on loops that reject and a close that overlaps a reconfiguration.

**ConfigurationService** has revisions, drafts and receipts as rows and one
command at a time with its awaits: `Check`, `Prepare` and `Apply` per component,
`Undo` in reverse order, `Commit`. A component's apply either takes the new
configuration or keeps the old one. `Malformed` keys stand for receipts the
database refuses, so that the commit throws after everything was applied.

**AutomaticIngestion** has the transcript as (epoch, length): an append moves the
length, a replacement the epoch. A run lists, observes, captures and recovers;
the capture reads, appends, commits the cursor, reports. Time of retries is
abstracted: an eligible session is served at an open time.

**HookDelivery** has the calls of the handler, each with up to two writers of the
same spool file (the sink and the fallback, once the deadline is over), the
files, the cycle that drains them and the ledger. One step per file system call
another actor can see.

**KnowledgeCompilation** joins scheduler, durable adapter, evolution worker,
coordinator and snapshot store. The transcript is a number of records, some of
which are events; `cursor # file` means there is something to capture.
`Plan`, `Inspect`, `Observe`, `Put` and `EnqueuePreview` are the pieces of
`coordinate` between its awaits, for console clients and the worker alike.
AutomaticIngestion's capture is one step here, the job store's attempt and
budget rules are those of JobStore without leases.

**KnowledgePublication** is one asset with everybody who writes it. A task, a
knowledge job or an operator's command, is a durable row that walks through five
stages (`WorkStages`, `OperationStages`); `run[t]` is what a process holds of it
between two awaits. Publishing is split at `link` and `rename`, the index at its
read and its write, so that a second publisher, a sync with old reads or a crash
comes between. The seven planning stages of the worker are one step.

**KnowledgeRevalidation** is one project and its repository: `head` and `tree`
give each file a content; a revision is what git tells of them, HEAD and the
*names* of dirty files. The intake's scan (`idle`, `head`, `status`, `compare`)
asks git twice, so a commit may fall between; an observation becomes a job; the
worker freezes its targets, probes, verifies and acknowledges. `history` is the
auxiliary record of all trees there have been, `live` is `NULL` while PENDING.
All captures of one page are taken together, pages have one size.

**ActiveInjection** is one UserPromptSubmit hook under a moving rollout. The
rollout's operations are synchronous but may save twice, hence each is the set of
its outcomes (`Saves`): a save that throws may have left the new file (`kept`) or
not (`lost`). A hook goes through `retrieve`, `gate`, `finish` and `answer`, and
anything happens between them. TIMEOUT and ERROR are one failure.

**ClosureConfirmation** is the end of one turn: `Begin` reads the count of
continuations and starts to verify, `Verified` claims a continuation and
publishes the outcome to three databases, each write of which may throw
(`Interrupted`), `Repeat` finishes what is on record; `Reply` claims a
confirmation, its effect lands (`Land`) before the deadline or after
(`Abandon`), and `Complete` compares claims.

**LocalDeployment** has a command as a list of steps over the record `disk`, with
the rollbacks of the completed ones. A step fails before its effect, with half of
it or with all of it (`Partly`: a file is renamed into place before its mode is
set); its rollback is registered only when it returns, so what a failing step wrote
stays, unreported (`left`). An undoing may fail in the same ways (`unrestored`), the
process dies anywhere (`died`), the user edits hooks.json or removes our trust at
any moment. hooks.json is read in one step (`ReadHooks`) and written in a later one,
computed from what was read (`View`); an edit made in between is in `raced`. A
command that commits resets `left`, `died` and `unrestored`. Nothing reads a dead
command's journal back, and nothing here does.

Modules whose names end with **Proofs** hold the theorems about the module they
are named after (section 5): there is one for JobStore, HookDelivery,
AutomaticIngestion, KnowledgeCompilation, KnowledgePublication and
KnowledgeRevalidation. **SidecarServicesProofs** has those about the three parts of
MCSidecarServices: ConfigurationService, ActiveInjection and ClosureConfirmation;
**LifecycleProofs** those about P1Runtime and LocalDeployment.
Modules whose names begin with
**MC** are small instances. Two of them put parts side by side that share no
state, one per behaviour, chosen by the variable `service` or `part`:
**MCSidecarServices** has ConfigurationService, ActiveInjection and
ClosureConfirmation, **MCFilesOnDisk** KnowledgePublication and LocalDeployment.
A product of their states would hold nothing new.

How they compose: JobWorker uses JobStore's actions as they are. P1Runtime
starts the loops whose steps are JobWorker's, and the scans whose steps are
AutomaticIngestion's; both take from it the fairness they assume ("jobs keep
coming") and P1Runtime's `PollingContinues` is what justifies that assumption.
KnowledgeCompilation builds on what AutomaticIngestion's capture and JobStore's
transitions do; the jobs it previews are the works of KnowledgePublication; the
freshness rows that these publish are what KnowledgeRevalidation moves, and its
gate is the one a hook of ActiveInjection awaits.

## 3 Runs, bounds, fairness

All runs are exhaustive for their bounds. Every property of every passing run
has a mutant in `PROJECT.json`: a plausible bug put in one definition that makes
TLC report exactly that property.

| run | instance | what it shows |
|---|---|---|
| `job_store` | 2 jobs, 2 priorities, budgets 1 and 2, ceiling 2, recovery limit 1, 1 operator command, 1 checkpoint, symmetric jobs | agreement of the tables, cancellation, one holder; the store implements JobLifecycle |
| `job_worker` | 2 processes, 1 job which one of them cannot handle, 2 clock readings, budgets 1 and 2, ceiling 3 | every job settles, every cancellation is honoured |
| `p1_runtime_scheduling` | concurrency 2, up to 4 loops in flight, 3 reconfigurations, every set of faults | scanning and polling go on, the store is open while used |
| `ingestion_live` | 1 session, 2 replacements, 2 records, an outage, a crash | nothing forgotten, cursor covered by the ledger, everything captured |
| `hook_delivery` | 2 events, 2 calls, batch 1, 1 failing operation or crash | kept, once, never lost, ledgered |
| `compilation_pipeline` | 1 session, 3 records, 1 client request, 1 outstanding job, 2 attempts, 1 crash | snapshots tile, claims and successes are backed, backpressure, every event is compiled or flagged |
| `files_on_disk` | publication: 1 knowledge job and 2 commands (edit, suppress, restore) on one asset of up to 3 versions, 2 stage and 2 job attempts, 1 failing call or crash. deployment: 2 releases, 3 commands, 1 edit, 2 throws, 1 death | published once, immutable, completed, not listed when suppressed; nothing dangles, all or nothing but for what a failing step had written, edits kept but for those overtaken by the installer's write |
| `revalidation` | 2 assets, 2 changes of the repository (commits or edits, also of a file already dirty), 1 publication, 1 fault or crash, 2 attempts, one content that refutes | evidence is of a tree of the revision, decided before acknowledged, rows never go back and neither does the baseline by a job that verified something, catches up |
| `sidecar_services` | configuration: 2 components, GLOBAL and a project, 2 values, 3 keys (one refused), 2 revisions. injection: 1 turn in or out of the canary, 2 calls, 2 fingerprints, 3 policies, 2 versions, 1 failing save, 1 crash. closure: 2 Stops with limits 1 and 2, 2 replies, 1 throwing write, 1 restart | components follow the record, one revision per key; the four of injection; continuations, one story, one answer |

and three runs whose property fails, section 4: `ingestion_lost_wakeup`,
`publication_replay`, `revalidation_left_behind`.

**Why the bounds are enough.** Interactions in the store are between two rows
(recover one, start the other), between a lost and a current lease of one row,
and between a command and its repetition; a recovery limit of 1 with two jobs
makes the limit bite. Budgets of 1 and 2 give the last attempt and the one before
it; the ceiling of 2 is reached by a manual retry. Two loops suffice for one that
rejects and one that goes on; four places for loops let a poll overlap the
leftovers of an earlier one. A configuration command can meet a draft, revision
or receipt of another one with two revisions. In `hook_delivery` a sink and a
fallback of one call race a second call of the same event and the drain: three
writers and a remover of one file. In `compilation_pipeline` the worker and a
client are two coordinate calls, and three records leave room for a snapshot, a
continuation and a growth in between. In publication three publishers of one asset
can plan the same version, and a row, an index entry and an exclusion of each can
be overtaken by those of another. Two releases suffice for the manifest's
retained versions; with three releases and four commands the deployment was
checked once on its own (4.3 million states, no error). Two changes of the
repository give an observation that is overtaken by the next while it is verified;
two assets, one touched by the change and one not. One turn of injection meets
every change of the rollout, as turns share only the rollout; two calls give the
replay. Two Stops are what a claim of the last continuation can be lost between,
two replies what a confirmation can be contended by.

**Fairness.** Everything the process itself schedules is weakly fair: timers
that are armed fire, promises settle, handlers return. In particular:
JobWorker: every loop polls again (completion based timers; P1Runtime checks
it), handlers settle, time passes; not: heartbeats, crashes, operators.
AutomaticIngestion: jobs keep coming, an outage ends, and (strongly) a session
that is due again and again is served and a step that can succeed again and
again does: `listEligible` takes the longest waiting first, and failures are not
for ever. HookDelivery: the process's own steps and, in `Spec` only, `Request`:
somebody keeps asking for cycles, be it the next hook or a client of the
transport. KnowledgeCompilation: scans, jobs, previews and calls are fair, and
captures happen; transcripts need not grow, clients need not ask, processes need
not die. KnowledgeRevalidation: the intake scans on and on, a queued job is
claimed and its steps end (the timers of `p2-evolution-runtime.ts` rearm
themselves); the developer need not do anything. The other modules state safety
only: publication ends in RETRYABLE or DEGRADED rows that a later execution takes
up, a deployment and a rollout wait for their operator, a closure for its host.

Type invariants document the variables of their modules; those of JobStore,
P1Runtime, KnowledgeCompilation, KnowledgePublication, ConfigurationService,
ClosureConfirmation and ActiveInjection are part of what is proved (section 5).

`CHECK_DEADLOCK FALSE` stands where the system may come to rest: P1Runtime after
close, and in `files_on_disk`, `publication_replay` and `sidecar_services` when
all tasks are done, the bounds of commands are reached and nobody calls.

## 4 Disagreements between code and documents

Three have a run with a short counterexample, and a quotation of the document in
`PROJECT.json`.

* `ingestion_lost_wakeup`: with two overlapping scan jobs the report of an older
  capture overwrites `FOLLOW_PENDING` by `CAPTURED_CURRENT`; `#update` reloads
  before it compares versions, so the comparison cannot fail. The session waits
  for its file to change again.
* `publication_replay`: a crash, or a failing save, between the rename of
  `current.md` and the saved outbox item makes every retry conflict with the
  job's own version, and the version that is in Markdown never reaches registry,
  freshness and index. The same happens without a crash to the next version of a
  work after an operator's EDIT, which is never projected to freshness.
* `revalidation_left_behind`: an asset the change does not touch keeps the
  revision it was verified at, and the exact-revision gate excludes it.

The rest was seen while modelling; each is within reach of a module, under the
constants given, without a run of its own.

*Jobs, configuration, ingestion, hooks, compilation*

* `configuration-service/src/service.ts:409`: a rollback closure that rejects
  leaves its component on the refused configuration (the variable `torn`;
  `RuntimeFollowsRecord` is stated for the other components), where
  `docs/design/zhiloop-console-tdd.md:452` excludes half an activation.
* `apps/sidecar/src/p1-runtime.ts:345`: a second `stop` returns while the first
  is draining, so a close during a reconfiguration closes a store in use
  (`"overlap"` in `Faults`). So does a reconfiguration after one loop rejected: the
  `Promise.all` of the poll settles while its other loops run on (`"reject"`).
  `StoreOpenWhileUsed` is stated without both.
* `apps/sidecar/src/control-plane.ts:325`: the in-memory note of a finished
  capture survives the recovery that discards its cursor (`Busy = TRUE`);
  `session-catalog/src/catalog-utils.ts:107` takes a file of the same size for
  the same file (`SameSize = TRUE`); a session that drops out of the catalog and
  returns *unchanged* stays `SOURCE_UNAVAILABLE` (the model's sessions return
  grown). `NothingForgotten` is checked, and proved, without these
  three.
* `hook-runtime/src/spool.ts:261`: a transient read failure moves a good record
  aside as corrupt. A capture slower than the daemon's deadline links its file
  after the only cycle the hook schedules; nothing else scans the spool until the
  next hook (`QuietSpec`, under which `EventuallyLedgered` fails).
* The compilation scan counts new events from the sequence it *queued*; when the
  queued job cannot run because the ledger moved by fewer than `minimumNewEvents`,
  the whole range waits for ever (`MinimumNewEvents = 2`). A console extraction
  and the compile job of one range create two snapshots and two previews when the
  transcript grows between their second inspections.
* `apps/sidecar/src/p2-evolution-jobs.ts:44`: after a crash between the snapshot
  and its preview, the background job's retries find `CURRENT` without a preview
  and run into `FAILED`; only a client's request repairs it. `SuccessBacked`
  holds, `EventuallyCompiled` counts the snapshot as compiled.
* `knowledge-compilation-scheduler/src/service.ts:164`: a scan always starts with
  the first page, so sessions beyond `maxSessionsPerRun` wait for the ones before
  them to leave the list.

*Publication*

* The worker publishes the next version over a tombstone, and recall at run time
  (`apps/sidecar/src/p4-active-runtime.ts:236`) never asks for governance
  exclusions; `openspec/specs/knowledge-governance-console/spec.md:32` and
  `docs/design/zhiloop-console-tdd.md:332` say suppressed knowledge is excluded.
* An exclusion owned by an operation that FAILED stays; a manual edit of
  `current.md` is overwritten by the worker's next version.

*Revalidation*

* `EvidenceMatches` says that the evidence is of *a* tree of the revision. A revision
  names the dirty files and not their content, so a second edit of a dirty file is
  the same revision, and which of its contents was verified nothing tells: the
  evidence may be older than the working tree. (A check that it is what every tree
  of the revision holds fails once a dirty file is edited twice.) Nor would it hold
  of a developer who edits a clean file before a probe and takes the edit back before
  the capture after it: the model's developer only goes forward. The freshness-gate
  specification in `openspec/changes/durabilize-knowledge-revalidation/specs` asks
  for the "exact" code revision.
* The baseline can go back: of three observations, one made of a torn answer of
  git (HEAD of one moment, dirty files of a later one), the last names a revision
  the rows already carry, so that its job has nothing to verify and acknowledges an
  earlier revision again. It takes up to four changes, a version published between
  two freezes and a crash, more than the bounds of `revalidation`; the attempt to
  prove `NeverBackwards` without an exception brought it to light. What the rows
  say never goes back.
* An UNKNOWN outcome that is committed and whose page checkpoint is lost replays as
  FRESH: `FRESHNESS_EFFECT_CONFLICT`, until the job is FAILED.
* A FAILED job is reused as EXISTING by a later observation of the same revision
  (a branch switched back and forth), so nothing verifies it again.
* `knowledge-change-intake/src/git-source.ts` says "Keep this identity aligned with
  GitProjectRevisionPort" but does not exclude `.codegraph` and `.zhiloop` from the
  status as that one does: a file there is a permanent `CODE_REVISION_CONFLICT`.
* A signal notified during a scan is deleted at its end. Of two observations of
  one baseline, the loser's job fails and schedules no new scan. A new version
  carries `publication:<hash>` and becomes eligible only when a later change
  touches its paths.

*Rollout and injection*

* The evidence list is bounded at 1000 and evicts the active canary's own
  evidence: the constructor throws at the next start. Evaluating the same traces
  again gives the same `evidenceId` with another `createdAt`, a "semantic
  conflict", which forces SHADOW.
* An activation whose save failed after the rename is reported as failed yet
  effective after a restart, and every save until then is stale.
* A hook replayed under ACTIVE after its knowledge changed gets an identity
  conflict, an ERROR, and withdraws the activation.
* No production composition calls `activateCanary` or `observeEligibility`; only
  the startup downgrade runs (`apps/sidecar/src/application.ts:739`), and it
  compares a fingerprint of another kind than the evidence carries.

*Closure*

* A crash between `saveOutcome` and `recordClosure` loses the claimed continuation
  from the counter: a second Stop of the turn may continue too, and the repeated
  first Stop tells the host to continue as well (`orphans`, left out of
  `BoundedContinuations`). The counter is rebuilt from the newest 100 closures.
* A CLAIMED confirmation whose reply is never retried stays CLAIMED: other replies
  conflict, and it counts as pending. In production the confirmation effects are
  not configured (`application.ts:772`), so this is a statement about the library.

*Deployment*

* `docs/deployment.md:66` restores the previous state on failure; the failing step
  itself is not undone, since `transaction.ts:49` registers its rollback when it has
  returned. A file whose mode cannot be set after its rename (`secure-files.ts:45-46`)
  stays, be it the manifest of a release that was rolled back, and is not among the
  failures the command reports; a hook or trust step that fails midway leaves a
  PREPARED receipt. After a first install that failed like this, the next one
  refuses. `AllOrNothing` excepts exactly these paths and receipts (`left`).
* Between the installer's last reading of hooks.json and its rename over it lie
  awaits (`installer.ts:196-199` and `222-239` of `plugin-runtime`): an edit of the
  user made there is overwritten unseen. `UserEditsKept` excepts these edits
  (`raced`), in a step and in the rollback of the other.
* A death during a first install leaves unowned targets: the next install refuses,
  and uninstall says NOT_INSTALLED. A death between untrusting and unlinking the
  receipt makes both uninstall and upgrade refuse for good. The command line
  passes no `removalToken`, so a leftover quarantine makes later uninstalls throw.
* A rollback of `switch-current` that fails, followed by the removal of the
  release, leaves `current` dangling; an activation that is not ready and whose
  bootout fails (swallowed) leaves the service running on a release that is then
  deleted (`unrestored`; the first is reported, the second is not).
* The manifest owns the last two previous releases, so the fourth version orphans
  the first.

## 5 Proofs

TLAPS checks them for every value of the constants that the named assumptions
allow: `StoreAssumption` in JobStore; `HookAssumption` in HookDelivery ("nothing" is no
answer of a call, batch sizes are positive); `P1Assumption`; `CompilationAssumption` and
`WorkerAssumption` in KnowledgeCompilation; `PublicationAssumption` in
KnowledgePublication (a job is not a command, there is room for one version, bounds
are numbers); `RevalidationAssumption`; `ConfigurationAssumption` (there is a
component, the default configuration is one it takes); `TurnAssumption` in
ClosureConfirmation; `InjectionAssumption` in ActiveInjection; `IngestionAssumption`
in AutomaticIngestion; `DeploymentAssumption` in LocalDeployment. What they say
besides is that the value which stands for "nothing" is not also a row, a
configuration or a revision. TLC evaluates all of them on its runs.

Every safety proof has the same shape: an inductive invariant which TLC checked
first, one lemma per action that it is preserved, and for each property a short
theorem that follows from it. What is said below is what the invariant adds to the
properties and why they need it.

**JobStoreProofs.** `CancellationDisciplineHolds`, `RetryBudgetHolds`:
`Spec => []Inv`, both from `RowsAlwaysOK`. The invariants are about one row, but
not inductive as they stand: whether a retryable failure is final depends on the
budget left, which depends on waiting rows having an attempt left, which depends
on statuses and lease columns moving together. `RowOK` is the conjunction of what
one row satisfies (the CHECK constraints of the schema among it). Each row
rewriting (`FailedRow`, `Leased`, ...) has a lemma that it preserves `RowOK`
under the guard of its statement; each action has a lemma that it only applies
such rewritings. Clock readings need no assumption beyond being integers: the
row invariants do not depend on clocks being right.

Second part of the module: what a step may do to a row, given `RowsOK`: leave it as it is
for its control (`Same`), submit, start, turn or reopen it. `EveryStep` shows
that each action does one of these to each row, and three theorems follow: the
refinement `ImplementsLifecycleHolds : Spec => JobLifecycle's Spec` under the
mapping, that no change of status, cancellation, attempts, budget, token or
progress leaves the revision alone (`RevisionCoversControlHolds`: a command decided
on an old view of these is refused; the priority is not among them, `enqueue` raises
it without a revision, `store.ts:497`), and that no attempt begins after a
cancellation was requested (`NoAttemptAfterCancelRequestHolds`).

Third part: `SingleHolderHolds` and `AttemptLedgerHolds`, the two
promises that relate the job rows to other records. The first needs only that no
two references of one job carry the same token and none a token the job has not
reached (`GrantsOK`); `Steps` gives that tokens never fall. The second is proved
job by job: `Ledger(row, own)` says that the attempts are all over (`Quiet`), or
the last one runs and is the one the row names (`Running`); `Settles`, `Begins`
and `Notes` are what the statements on `durable_job_attempts` do to it.

**HookDeliveryProofs.** `AnsweredIsKeptHolds`, `OncePerEventHolds` and
`NeverLostHolds`, for any number of events, calls, faults and restarts. `HInv`
adds to the two invariants that calls and rows are of the shape their steps
expect, and `Appended`: a cycle that is about to unlink a record has its row in
the ledger. Every step's lemma gives `HInv'` and `KeepsAll`, that nothing on disk
goes; the only step that could take something away is `UnlinkStep`, and
`Appended` is why it does not. `TypeOK` is not needed in full and only
model-checked.

**KnowledgeCompilationProofs.** `RangesTile`: `Spec => []SnapshotsTile`, and
`TypeCorrect`: `Spec => []TypeOK`. `SnapshotsTile` speaks of rows; what protects
it is knowledge held by calls in progress. The inductive invariant `IInv` adds

* `Counted`: a session has no more events than records, hence bounded ranges;
* `Picked`: a scan that works on a session has capacity left for it;
* `Budgeted`: finite tables, non-empty ranges, queued jobs with an attempt left;
* `CallsOK`: a call that may still create a snapshot and whose ledger revision is
  still the current one `Fits`: it continues the last snapshot, or the last
  snapshot is the very range it planned.

The steps that matter are `CaptureStep` (the ledger only grows, so a call that
went stale stays stale, and `Put`'s comparison refuses it) and `PutStep`: two
calls that both fit on the same revision planned the same range, since a call
that continues a snapshot ending at the newest event would have an empty one.
So the second creates a repetition, never a partial overlap. That there is one
snapshot per range is false (section 4), and this is why `SnapshotsTile` allows
repetitions.

`ClaimBackedHolds`, `SuccessBackedHolds` and `BackpressureHolds` rest on `IInv` and
on what a scan and the worker hold between two of their steps (`BInv`): `Owned`,
the worker's call is the running attempt of its own job and session, so that what
it creates backs that very job; `Recorded`, what a scan is about to claim is
backed before the checkpoint is written; `Metered`, the jobs that wait and the
capacity a scan has set aside for itself do not exceed the limit together. The
last one is what makes a bound read once, at the start of a scan, safe for all the
jobs it enqueues. `TableStep` says what a step may do to the table of jobs
(`JobsSettle`: a status moves on, nothing is removed) and `SnapshotStep` that
snapshots only grow; the three properties are preserved by these two facts in
all steps but the enqueue, the record of a claim and the end of an attempt.

**KnowledgePublicationProofs.** `PublishedOnceHolds`, `VersionsImmutableHolds`,
`CompletedIsPublishedHolds`, `ListedIsNotSuppressedHolds` and `TypeCorrect`, for
any number of jobs, commands, versions, attempts and faults. None of the
properties is inductive, for a publication is spread over files, rows and
processes. `IInv` has, besides types,

* `Files`: `current.md` is the newest version or the one before it, and no version
  below is missing; so a rename never skips a version.
* `Attributed`: each version is the document its author's row asks for, at the
  number the row asks for. A row asks for one number for ever; hence a document is
  published once however often its stage is repeated.
* `RowOK`: a row asks for the version after the one it was planned against, never
  more than one ahead of `current.md`.
* `PlaceOK`: what a process may rely on after an await. About to link, either
  `current.md` is still the version before its own or the link will be refused;
  about to rename, the version is its own and `current.md` still the one before.
  `LinkStep` is where two publishers of one version meet.
* `Excluding`: while `current.md` is a suppression, or one may still become it
  (`Pending`), the exclusion is `Held` by an operation that has not published yet or
  is a suppression itself, and those do not release it. `Included` compares the
  owner, and this is where it matters.

`Mirrors` is proved on top: without a `current.md` there is neither a row nor a
read of one. It gives `ListedIsNotSuppressed` where the asset never had a version.
In the course of the proof a CASE of `Enter` turned out to have two arms that both
apply to a stage without a document, which TLA+ leaves undetermined though TLC
takes the first; its arms exclude each other now.

**KnowledgeRevalidationProofs.** `EvidenceMatchesHolds`, `AcknowledgedIsDecidedHolds`
and `NeverBackwardsHolds`, for a developer who edits, commits and pulls at any
moment. Everything is measured by `NoEarlier`, an order of revisions file by file, which is
`Antisymmetric`: edits, commits and pulls only take a revision forward, so one that
is the same before and after a probe was the same during it. `IInv` says

* `Recorded`, `Evidence`: what a probe of the job in progress read is in a tree of a
  revision between the one captured before and the present; once the capture after
  it found the same revision, it is in a tree of that one (`SeenAt`);
* `IntakeOK`, `BaseOK`, `RowsOK`: observations are made of answers git gave at some
  moment; baseline and rows name revisions that have `Passed`, and a row was seen
  with what its file held in a tree of its revision. An observation itself need not have passed: its
  HEAD and its dirty files may be answers of different moments;
* `JobsOK`: a committed job has `Decided` all it asked for; it, like a job that
  froze nothing to ask for, is about a revision that has passed; if the baseline
  has not changed since and there was something to verify, it is not earlier;
* `WorkerOK`: the job in progress captured its revision before, so neither the
  baseline nor any row is ahead of it (`Bound`), and each item has its `Evidence`. A
  dirty file may be edited meanwhile: that changes its content, not the revision.

**SidecarServicesProofs**, ConfigurationService. `RuntimeFollowsRecordHolds`, `OneRevisionPerKeyHolds`
and `TypeCorrect`, for any number of components, keys, revisions and queued
commands. `Placed` says how far the command being executed has come, and `Runs`
what each component runs at that point: between two steps a component whose undo
never failed works with the newest accepted configuration, or the closure that
undoes its apply holds that one, and all that have applied work with the new one.
`Unanswered` (the key of a command in progress has no receipt) is what keeps
revisions per key apart; `Highests` gives the maxima of `Accounted` and `Effective`
their existence, from the numbering without gaps
(`RevisionsNumbered`).

**AutomaticIngestionProofs.** `CursorCoveredHolds` and `TypeCorrect`, for any number
of sessions, records, replaced files, overlapping runs and troubles, from
`IInv == TypeOK /\ Served /\ Room /\ Covered`: what a capture has read is in the
ledger before it may commit its cursor, who is served has a checkpoint, and a
session that is not listed has room to grow. `NothingForgottenHolds` needs `Calm`:
one run at a time (`ingestion_lost_wakeup` is the counterexample with two),
`~SameSize` and `~Busy` (section 4). Its strengthening `Attended` was checked by TLC
before it was proved. Per session:

* `Past`: no checkpoint and no cursor is ahead of the file;
* `Explained`: CAPTURED_CURRENT and SOURCE_UNAVAILABLE, the two states that are not
  tried again, are true of the file as long as it is the one of the checkpoint;
* `Recoverable`: a recovery that is pending, also behind an outage, still has a
  cursor of another file to discard, or has discarded it and nothing remembers
  the old capture;
* `Still`: a file replaced under a catalog that remembers its capture does not
  move, and once its cursor is gone its checkpoint is of the file as it is. That
  is why the remembered capture is never taken for the new file's: the next scan
  finds the revision `Unchanged` and does not look at it again.

And per run: `SeenOK`, what its listing says of a file holds unless the file has
grown since, and after `BeginCapture` the checkpoint is of the listed revision;
`TurnOK`, the sessions it captures are due, those it recovers pending, and a
capture that read to the end is at the end of the file of the checkpoint, or the
file has moved on and the next scan will see it.

**LifecycleProofs**, P1Runtime. `StoreOpenWhileUsedHolds` and `TypeCorrect`, for any
concurrency and number of reconfigurations. `Orderly` says why a store is not
closed under a loop when nothing rejects or overlaps: reconfiguration and close
exclude each other and a running runtime; all loops in flight are those of the one
poll in flight and use the present store; that poll is the running runtime's, or
whoever stopped it awaits it. `Counted` bounds the generations, whatever the
faults.

**LifecycleProofs**, LocalDeployment. `NothingDanglesHolds`, `AllOrNothingHolds` and
`UserEditsKeptHolds`, for any releases and any number of commands, edits, throws and
deaths, from `DInv`, which TLC checked before it was proved. The three properties say
little of a command that is half done; `DInv` says what the machine is after `Done`
steps have been done and not undone:

* `Planned`: the command's steps are those of an install or an uninstall, each path
  is replaced by exactly one step, and every path by some step. `InstallPlanned` and
  `UninstallPlanned` derive it from the step lists;
* `PathsFollow`: a path is as its step left it, or as it was when the command began;
* `Backed`: a release that was there still is, or lies in the trash under the index of
  a step that is done and can be undone;
* `Staged`, `Running`, `ReceiptsFollow`: the new release is there from the first step
  on; which release may run; which receipts there must be, and may be. Of a command
  being undone, what is in `left` is excepted;
* `EditsOK`: what an installer has read of hooks.json holds every edit but those
  made since, which are in `raced`.

Each step is described once by what it changes (`Effect`), half of it by what it may
change (`HalfEffect`) and its rollback by what it restores (`Reverse`). Three lemmas
carry `Progress` one step on (`ProgressApplied`), half a step (`ProgressHalf`) and one
step back (`ProgressUndone`), and three say what it amounts to anywhere, at the end and
back at the beginning (`ProgressPresent`, `ProgressDone`, `ProgressBack`). A plan that
replaced a path twice, or undid a step to something else than what the plan found,
would break the first three; one that selected the release before it staged it
would break `ProgressPresent`.

**SidecarServicesProofs**, ClosureConfirmation. `BoundedContinuationsHolds`, `OneStoryHolds`,
`OneAnswerHolds`, for any number of Stops, replies, faults and restarts, from
`Inv == ClosureTypes /\ Story /\ Owned /\ OneAnswer /\ Numbered`. `Story` orders the
three stores of one Stop (what is completed was audited, what was audited was
checkpointed, all with one outcome); `Owned` ties effects in flight to the reply
that holds the claim; `Numbered` is what bounds continuations: those counted at
the host have distinct numbers, none above the counter, each below the limit of
its Stop when it was claimed. The counter rebuilt after a restart is a maximum
over the audits; since no induction over finite sets is available to the provers,
`MaxOfCounts` gets its existence from the well-foundedness of strict inclusion of
the sets of Stops with at least a given count.

**SidecarServicesProofs**, ActiveInjection. All four properties of the module, from `AInv`, which
was checked by TLC before it was proved. Its parts:

* `RolloutOK`: memory and file each know every policy revision that was in force
  and have a highest; a controller that was forced to shadow is at most one
  revision ahead of the state, and not at all when the state is SHADOW;
* `Fits`: what a call in flight may conclude from the decision and the controller
  it started with. If the controller is still the same, so is the activation; if
  the policy revision is still the same, the activation is no younger than the
  call. The second rests on policy revisions never coming back, which is what
  `Known` is for in `activateCanary`;
* `AnswerOK`, `RecordsOK`: an answer on its way is that of an attempt on record.

`Carries(r, r2)` says that an operation of the rollout leaves a sound rollout that
calls in flight still fit; it composes (`CarriesOn`), so an operation that saves
twice is proved save by save, each with its outcomes. A restart need not carry
anything, since no call survives it, only `RolloutOK` of the file.

Model-checked only: liveness, since the prover handles neither fairness nor
ENABLED. Every invariant and every action property of a passing run is stated by a
theorem.

## 6 What is not modelled

* Contents: event texts, extraction, ranking, rendering, redaction, model calls.
  They are functions of one immutable input, without state.
* Reads: listings, history, traces, metrics, console views, the HTTP gateway and
  the web console.
* Time as a number, except leases and back-off in JobStore. Deadlines and
  debounce intervals are steps that may be taken at any moment.
* Partial file writes below the granularity of `link`, `rename` and SQLite
  transactions; SQLite's own atomicity is taken for granted.
* Jobs, ingestion, compilation: consumer cursors and retention of the ledger (no
  caller in the applications), the relation scan of ingestion, `INELIGIBLE`
  sources, changes of the pipeline identity and page limits of the compilation
  scan, checkpoint conflicts of the scan (it is the only writer).
* Publication: manual edits of files, drafts of edits, `recoverIndex`,
  `restoreVersion`, outboxes of several items, two processes executing one task.
* Revalidation: the graph revision, targeted verification, repair jobs after a
  CONFLICT, several projects, replacement of the intake, the fingerprint of
  projects without git, missing recipes, a developer who takes edits
  back or switches branches (section 4 has what that does to evidence and to jobs),
  operator cancel and retry; the freshness scheduler, which only tests compose.
* Injection: the canary's percentage, the bounds of evidence (1000) and audit
  (10 000), failures of the audit store, the task contract, MCP expansions,
  feedback and the prewarm cache.
* Closure: the verifier, the interaction policy (whether a Stop asks is free),
  audits of missing evidence, requests of one identity with another hash (refused
  before anything changes).
* Deployment: release verification, `doctor`, the purge of retained data, the
  delegation to the artifact's installer, respawns by launchd during an upgrade,
  two installs at once (there is no lock). Releases of one version have one content.
* Small steps left out because they add no behaviour to what is there: the sync of a
  directory that fails after a link or a rename (`spool.ts:223`, `repository.ts:567`)
  is a crash or a failure there; the await between reading a baseline and the diff
  (`git-source.ts:357-370`) and the one before `captureRevision` (`application.ts:563`)
  are collapsed; INVALID_CONTEXT (`injection-runtime.ts:267`) is one of the failures
  of an injection; identical replies in flight are one in ClosureConfirmation; a
  configuration draft differs from what is in force.
* The components marked `not_modelled` in `PROJECT.json`: pure functions, single
  transactions without a second actor, libraries that no application composes,
  and user interfaces. The code modelled is a tenth of the repository's
  implementation; most of the rest is contracts, parsing, ranking and views.

## 7 What could come next

1. Legacy migration (apply item by item with a resume point) and backfill, which
   share the shape of checkpointed batches.
2. The full rebuild of the registry while a publication is under way.
3. Page limits and changes of pipeline identity in KnowledgeCompilation; several
   pages of a revalidation job with an edit between them.
4. The close overlap of P1Runtime as a property without exceptions once the code
   serializes it.
