------------------------ MODULE KnowledgePublication ------------------------
(* Publication of one knowledge asset: the staged knowledge worker           *)
(* (packages/knowledge-worker-runtime), the operator's governance operations *)
(* (packages/knowledge-governance-service), and what both write: Markdown    *)
(* versions (packages/markdown-repository), the SQLite projection            *)
(* (packages/knowledge-registry), the freshness rows and the index           *)
(* (packages/knowledge-indexer), the exclusions of the eligibility gate.     *)
(* A task is a durable row that walks through five stages; run[t] is what a  *)
(* process holds of it between two awaits and a crash forgets.               *)
EXTENDS Naturals, FiniteSets

CONSTANTS
    Works,          \* knowledge jobs whose candidate is about this asset
    Operations,     \* commands of an operator
    Kinds,          \* which of EDIT, SUPPRESS, RESTORE, SUPERSEDE there are
    MaxVersion,     \* bound: versions of the asset
    StageAttempts,  \* maxStageAttempts of both runtimes
    JobAttempts,    \* attempts of a preview or commit job
    MaxFaults,      \* bound: failing calls and crashes
    NULL

VARIABLES
    versions,   \* versions/<n>.md, written with link(2)
    current,    \* current.md, written with rename(2)
    registry,   \* the active row of knowledge_assets
    fresh,      \* version of the active freshness row, 0 without one
    excluded,   \* governance_eligibility_exclusions of the asset: the operation
    task,       \* knowledge_worker_checkpoints and governance_operations
    run,        \* the volatile part of a task in progress
    faults

vars == <<versions, current, registry, fresh, excluded, task, run, faults>>
files == <<versions, current>>

Tasks == Works \cup Operations
Text == [by : Tasks \cup {NULL}, tomb : BOOLEAN, live : BOOLEAN]
Edition == [version : 1..MaxVersion, doc : Text]
Document(t, tomb, live) == [by |-> t, tomb |-> tomb, live |-> live]
Stored(n, doc) == [version |-> n, doc |-> doc]

\* A job is not a command, there is room for a version, attempts are numbers, and
\* NULL, which stands for what is not there, is no task, text or edition.
ASSUME PublicationAssumption ==
    /\ Works \cap Operations = {} /\ NULL \notin Tasks
    /\ MaxVersion \in Nat \ {0}
    /\ StageAttempts \in Nat /\ JobAttempts \in Nat /\ MaxFaults \in Nat
    /\ NULL \notin Text /\ NULL \notin Edition

WorkStages == <<"PLAN", "MARKDOWN", "REGISTRY", "FRESHNESS", "INDEX">>
OperationStages == <<"EXCLUDE", "MARKDOWN", "REGISTRY", "INDEX", "FINALIZE">>
StageName(t, s) == IF t \in Works THEN WorkStages[s] ELSE OperationStages[s]

\* version = 0: the policy publishes nothing, the outbox is empty.
NoTask == [status |-> "ABSENT", kind |-> "NONE", doc |-> NULL, version |-> 0,
           expected |-> 0, stage |-> 1, attempts |-> 0, retryable |-> FALSE, left |-> 0]

Row == [status : {"ABSENT", "QUEUED", "RUNNING", "RETRYABLE", "AWAITING_COMMIT",
                  "PENDING", "DEGRADED", "FAILED", "COMPLETED"},
        kind : Kinds \cup {"NONE", "WORK"}, doc : Text \cup {NULL},
        version : 0..MaxVersion, expected : 0..MaxVersion, stage : 1..5,
        attempts : Nat, retryable : BOOLEAN, left : Nat]
Process == [pc : {"plan", "publish", "link", "rename", "sync", "compare", "replace", "done"},
            active : Edition \cup {NULL}]

TypeOK ==
    /\ versions \in [1..MaxVersion -> Text \cup {NULL}]
    /\ current \in Edition \cup {NULL} /\ registry \in Edition \cup {NULL}
    /\ fresh \in 0..MaxVersion /\ excluded \in Operations \cup {NULL}
    /\ task \in [Tasks -> Row] /\ run \in [Tasks -> Process \cup {NULL}]
    /\ faults \in 0..MaxFaults

\* The asset is new, or somebody published its first version long ago.
Init ==
    /\ current \in {NULL, Stored(1, Document(NULL, FALSE, TRUE))}
    /\ versions = [n \in 1..MaxVersion |-> IF n = 1 /\ current # NULL THEN current.doc ELSE NULL]
    /\ registry = current /\ excluded = NULL
    /\ fresh = IF current = NULL THEN 0 ELSE 1
    /\ task = [t \in Tasks |-> NoTask]
    /\ run = [t \in Tasks |-> NULL]
    /\ faults = 0

At(pc) == [pc |-> pc, active |-> NULL]
Doing(t, pc) == run[t] # NULL /\ run[t].pc = pc
Fault == faults < MaxFaults /\ faults' = faults + 1
Target(t) == Stored(task[t].version, task[t].doc)

-----------------------------------------------------------------------------
(* Stages.                                                                   *)

\* The catch of either execute: what is retried, and what the row keeps.
Failed(row, t, retryable) ==
    [row EXCEPT !.retryable = retryable,
                !.status = IF ~retryable \/ row.attempts >= StageAttempts THEN "FAILED"
                           ELSE IF t \in Works THEN "RETRYABLE" ELSE "DEGRADED"]

Fails(t, retryable) ==
    /\ task' = [task EXCEPT ![t] = Failed(@, t, retryable)]
    /\ run' = [run EXCEPT ![t] = NULL]

Goes(t, pc) == run' = [run EXCEPT ![t] = At(pc)] /\ UNCHANGED task

\* projectCurrent: the same row again, the first version, or the next one.
Projectable(stored) ==
    \/ registry = stored
    \/ registry = NULL /\ stored.version = 1
    \/ registry # NULL /\ stored.version = registry.version + 1

\* SqliteKnowledgeFreshnessStore.project: the active version again or the next
\* one; only the worker projects, an operation never does.
Refreshable(version) == version \in {fresh, fresh + 1}

\* Mutant of Included: another operation's exclusion goes too.
IncludedOfAnyone(t, doc) == IF ~doc.tomb /\ doc.live THEN NULL ELSE excluded

\* include: DELETE ... WHERE asset_id=? AND operation_id=?
Included(t, doc) ==
    IF ~doc.tomb /\ doc.live /\ excluded = t THEN NULL ELSE excluded

\* A stage saves its attempt and runs up to its first await; "done" is a stage
\* whose effect is there and whose success is not saved yet.
Enter(t, row) ==
    LET stage == StageName(t, row.stage)
        pc == CASE stage = "PLAN" -> "plan"
                [] stage = "MARKDOWN" /\ row.version # 0 -> "publish"
                [] stage = "INDEX" /\ row.version # 0 -> "sync"
                [] OTHER -> "done"
        stored == Stored(row.version, row.doc)
        projects == stage = "REGISTRY" /\ row.version # 0
        refreshes == stage = "FRESHNESS" /\ row.version # 0
        refused == \/ projects /\ ~Projectable(stored)
                   \/ refreshes /\ ~Refreshable(row.version)
    IN  /\ IF refused
           THEN /\ task' = [task EXCEPT ![t] = Failed(row, t, TRUE)]
                /\ run' = [run EXCEPT ![t] = NULL]
           ELSE /\ task' = [task EXCEPT ![t] = row]
                /\ run' = [run EXCEPT ![t] = At(pc)]
        /\ registry' = IF projects /\ ~refused THEN stored ELSE registry
        /\ fresh' = IF refreshes /\ ~refused THEN row.version ELSE fresh
        /\ excluded' = CASE stage = "EXCLUDE" -> t
                         [] stage = "FINALIZE" -> Included(t, row.doc)
                         [] OTHER -> excluded
        /\ UNCHANGED <<files, faults>>

\* The stage is saved as SUCCEEDED, with its item of the outbox; the next begins.
Advance(t) ==
    /\ Doing(t, "done")
    /\ IF task[t].stage = 5
       THEN /\ task' = [task EXCEPT ![t].status = "COMPLETED"]
            /\ run' = [run EXCEPT ![t] = NULL]
            /\ UNCHANGED <<files, registry, fresh, excluded, faults>>
       ELSE Enter(t, [task[t] EXCEPT !.stage = @ + 1, !.attempts = 1])

\* A call inside a stage fails.
Break(t) ==
    /\ run[t] # NULL /\ run[t].pc # "done" /\ Fault
    /\ Fails(t, TRUE)
    /\ UNCHANGED <<files, registry, fresh, excluded>>

-----------------------------------------------------------------------------
(* Markdown: publish and tombstone, one step per call others can see.        *)

LastVersion == Cardinality({n \in 1..MaxVersion : versions[n] # NULL})
Expects(t, n) == task[t].expected \in {0, n}
CurrentVersion == IF current = NULL THEN 0 ELSE current.version

\* publish: current.md is version + 1, or was lost between link and rename.
Follows(t) ==
    IF current # NULL
    THEN Expects(t, CurrentVersion) /\ task[t].version = CurrentVersion + 1
    ELSE /\ task[t].version \in {LastVersion, LastVersion + 1}
         /\ Expects(t, task[t].version - 1)

\* Mutant of Idempotent: the content is not compared.
IdempotentByVersion(t) == CurrentVersion = task[t].version
Idempotent(t) == current = Target(t) /\ Expects(t, CurrentVersion)

\* #alignedCurrent of a governance operation: not aligned is retryable, stale
\* is not, unless it is publish that notices.
Aligned(t) == current # NULL /\ registry = current

Publish(t) ==
    /\ Doing(t, "publish")
    /\ \/ /\ current = Target(t) /\ t \in Operations
          /\ Goes(t, "done")
       \/ /\ t \in Operations /\ current # Target(t)
          /\ ~Aligned(t) \/ CurrentVersion # task[t].expected
          /\ \E retryable \in {~Aligned(t), TRUE} : Fails(t, retryable)
       \/ /\ t \in Operations => current # Target(t) /\ Aligned(t)
                                 /\ CurrentVersion = task[t].expected
          /\ \/ Idempotent(t) /\ Goes(t, "done")
             \/ ~Idempotent(t) /\ Follows(t) /\ Goes(t, "link")
             \/ ~Idempotent(t) /\ ~Follows(t) /\ Fails(t, TRUE)
    /\ UNCHANGED <<files, registry, fresh, excluded, faults>>

\* Mutant of Link: rename instead of link.
LinkOverwrites(t) ==
    /\ Doing(t, "link")
    /\ versions' = [versions EXCEPT ![task[t].version] = task[t].doc]
    /\ Goes(t, "rename")
    /\ UNCHANGED <<current, registry, fresh, excluded, faults>>

\* link(temporary, versions/<n>.md): an existing file must hold the same text.
Link(t) ==
    LET n == task[t].version IN
    /\ Doing(t, "link")
    /\ IF versions[n] \in {NULL, task[t].doc}
       THEN versions' = [versions EXCEPT ![n] = task[t].doc] /\ Goes(t, "rename")
       ELSE Fails(t, TRUE) /\ UNCHANGED versions
    /\ UNCHANGED <<current, registry, fresh, excluded, faults>>

Rename(t) ==
    /\ Doing(t, "rename")
    /\ current' = Target(t)
    /\ Goes(t, "done")
    /\ UNCHANGED <<versions, registry, fresh, excluded, faults>>

-----------------------------------------------------------------------------
(* syncAsset: the read, the comparison with the row, the replacement of the   *)
(* history when the row is not the version before.                           *)

SyncRead(t) ==
    /\ Doing(t, "sync")
    /\ run' = [run EXCEPT ![t] = [pc |-> "compare", active |-> current]]
    /\ UNCHANGED <<task, files, registry, fresh, excluded, faults>>

Synced(t, active) ==
    IF active.version = task[t].version THEN Goes(t, "done") ELSE Fails(t, TRUE)

SyncCompare(t) ==
    LET active == run[t].active IN
    /\ Doing(t, "compare")
    /\ \/ active = NULL /\ Fails(t, TRUE) /\ UNCHANGED registry
       \/ active # NULL /\ registry = active /\ Synced(t, active) /\ UNCHANGED registry
       \/ /\ active # NULL /\ registry # NULL /\ active.version = registry.version + 1
          /\ registry' = active /\ Synced(t, active)
       \/ /\ active # NULL /\ registry # active
          /\ registry = NULL \/ active.version # registry.version + 1
          /\ run' = [run EXCEPT ![t].pc = "replace"] /\ UNCHANGED <<task, registry>>
    /\ UNCHANGED <<files, fresh, excluded, faults>>

SyncReplace(t) ==
    /\ Doing(t, "replace")
    /\ registry' = run[t].active
    /\ Synced(t, run[t].active)
    /\ UNCHANGED <<files, fresh, excluded, faults>>

-----------------------------------------------------------------------------
(* The knowledge worker: one loop, one job at a time.                        *)

Idle == \A w \in Works : run[w] = NULL

Preview(w) ==
    /\ task[w].status = "ABSENT"
    /\ task' = [task EXCEPT ![w] = [@ EXCEPT !.status = "QUEUED", !.kind = "WORK",
                                             !.left = JobAttempts]]
    /\ UNCHANGED <<files, registry, fresh, excluded, run, faults>>

\* Mutant of StartWork: the plan is made anew.
StartWorkRebased(w) ==
    LET row == task[w] IN
    /\ Idle /\ row.left > 0
    /\ row.status \in {"QUEUED", "RUNNING", "RETRYABLE", "FAILED"}
    /\ CurrentVersion < MaxVersion
    /\ Enter(w, [row EXCEPT !.status = "RUNNING", !.left = @ - 1, !.attempts = 1,
                            !.version = IF @ = 0 THEN 0 ELSE CurrentVersion + 1,
                            !.expected = CurrentVersion])

\* The handler runs with retryFailed: a FAILED stage gets one more attempt.
StartWork(w) ==
    LET row == task[w] IN
    /\ Idle
    /\ \/ row.status \in {"QUEUED", "RUNNING", "RETRYABLE"}
       \/ row.status = "FAILED" /\ row.retryable
    /\ row.left > 0
    /\ Enter(w, [row EXCEPT !.status = "RUNNING", !.left = @ - 1,
                            !.attempts = IF row.status = "FAILED" THEN StageAttempts ELSE @ + 1])

\* LEDGER_READ ... CANDIDATE_POLICY: the outbox item is fixed here, against the
\* version read here.
Planned(w, row) ==
    [row EXCEPT !.version = CurrentVersion + 1, !.expected = CurrentVersion,
                !.doc = Document(w, FALSE, TRUE)]

Plan(w) ==
    /\ Doing(w, "plan")
    /\ \E row \in {task[w]} \cup (IF CurrentVersion < MaxVersion
                                  THEN {Planned(w, task[w])} ELSE {}) :
          task' = [task EXCEPT ![w] = [row EXCEPT !.status = "AWAITING_COMMIT",
                                                  !.stage = 2, !.attempts = 0]]
    /\ run' = [run EXCEPT ![w] = NULL]
    /\ UNCHANGED <<files, registry, fresh, excluded, faults>>

Commit(w) ==
    /\ task[w].status = "AWAITING_COMMIT"
    /\ task' = [task EXCEPT ![w].status = "QUEUED", ![w].left = JobAttempts]
    /\ UNCHANGED <<files, registry, fresh, excluded, run, faults>>

-----------------------------------------------------------------------------
(* Operations of an operator.                                                *)

Allowed(kind, doc) ==
    CASE kind = "EDIT" -> TRUE
      [] kind = "SUPPRESS" -> ~doc.tomb
      [] kind = "RESTORE" -> doc.tomb
      [] kind = "SUPERSEDE" -> doc.live

\* An edit that fails its revalidation is published as STALE.
TargetOf(o, kind, live) ==
    Document(o, kind = "SUPPRESS", kind # "SUPERSEDE" /\ (kind = "EDIT" => live))

Request(o, kind, live) ==
    /\ task[o].status = "ABSENT" /\ Aligned(o)
    /\ Allowed(kind, current.doc) /\ CurrentVersion < MaxVersion
    /\ Enter(o, [NoTask EXCEPT !.status = "PENDING", !.kind = kind, !.attempts = 1,
                               !.version = CurrentVersion + 1, !.expected = CurrentVersion,
                               !.doc = TargetOf(o, kind, live)])

\* The same command again: the row is found by its idempotency key.
Resend(o) ==
    /\ task[o].status \in {"PENDING", "DEGRADED"} /\ run[o] = NULL
    /\ Enter(o, [task[o] EXCEPT !.status = "PENDING", !.attempts = @ + 1])

Crash ==
    /\ Fault
    /\ run' = [t \in Tasks |-> NULL]
    /\ UNCHANGED <<files, registry, fresh, excluded, task>>

Next ==
    \/ \E t \in Tasks : \/ Advance(t) \/ Break(t) \/ Publish(t) \/ Link(t) \/ Rename(t)
                        \/ SyncRead(t) \/ SyncCompare(t) \/ SyncReplace(t)
    \/ \E w \in Works : Preview(w) \/ StartWork(w) \/ Plan(w) \/ Commit(w)
    \/ \E o \in Operations : Resend(o) \/ \E kind \in Kinds, live \in BOOLEAN : Request(o, kind, live)
    \/ Crash

Spec == Init /\ [][Next]_vars

-----------------------------------------------------------------------------
(* Properties.                                                               *)

(* A document is published as one version and versions have no gap, whatever  *)
(* is retried, by whom and after which crash: a work's item keeps the version *)
(* it was planned with, an operation looks for its own document first.        *)
PublishedOnce ==
    /\ \A m, n \in 1..MaxVersion :
          versions[m] # NULL /\ versions[n] # NULL /\ versions[m].by = versions[n].by => m = n
    /\ \A n \in 2..MaxVersion : versions[n] # NULL => versions[n - 1] # NULL

(* A version that was linked is never replaced: of two tasks that planned the *)
(* same version, and both saw current.md before either wrote, one is refused. *)
VersionsImmutable ==
    [][\A n \in 1..MaxVersion : versions[n] # NULL => versions'[n] = versions[n]]_vars

(* COMPLETED is said only of a task whose own document is the version it asked *)
(* for, and of a work only if that version also has its freshness row.        *)
CompletedIsPublished ==
    \A t \in Tasks :
        task[t].status = "COMPLETED" /\ task[t].version # 0 =>
            /\ versions[task[t].version] = task[t].doc
            /\ t \in Works => task[t].version <= fresh

\* What query-service.ts:119 lists as eligible.
Listed == registry # NULL /\ ~registry.doc.tomb /\ registry.doc.live /\ excluded = NULL

(* The console lists nothing as eligible that Markdown says is suppressed,    *)
(* though the row lags behind Markdown, syncs with old reads put it back and  *)
(* other operations on the asset take over and release the exclusion.         *)
ListedIsNotSuppressed == Listed => ~current.doc.tomb

(* openspec/changes/track-knowledge-freshness/design.md:5: "A crash is        *)
(* replay-safe".  A work whose document is current.md does not end FAILED.    *)
ReplaySafe ==
    \A w \in Works : task[w].status = "FAILED" => current # Target(w)
=============================================================================
