------------------------------- MODULE JobStore -------------------------------
(***************************************************************************)
(* The durable job table of packages/job-runtime (SqliteDurableJobStore):   *)
(* one SQLite file shared by every worker process.  Each public method of   *)
(* the store reads the wall clock, then runs one BEGIN IMMEDIATE            *)
(* transaction; here a method is one action over the four tables, and the   *)
(* clock reading it acts on is the parameter "now".                         *)
(*                                                                          *)
(* Times are relative to the present, so that time can pass for ever in a   *)
(* finite model: a deadline t > 0 lies in the future, t <= 0 has passed,    *)
(* and Tick moves every stored time one unit closer to (or further into)    *)
(* the past.  A clock reading is 0 when the transaction starts at once and  *)
(* negative when it waited for the database lock (PRAGMA busy_timeout).     *)
(***************************************************************************)
EXTENDS Integers, Sequences, FiniteSets

CONSTANTS
    Jobs,            \* idempotency keys; a key owns at most one row
    Workers,         \* worker identities passed to claimNext
    CommandKeys,     \* idempotency keys of operator commands
    Fingerprints,    \* hashes of (jobType, input, maxAttempts)
    Priorities,      \* BACKGROUND = 0, NORMAL = 10, INTERACTIVE = 20
    Budgets,         \* the maxAttempts callers pass to enqueue
    AttemptCeiling,  \* 1000 in the code
    RecoveryLimit,   \* 100 in the code: rows one claimNext may settle
    LeaseMs,         \* lease granted by claimNext and heartbeat
    Delays,          \* what retryDelay may return
    Readings,        \* clock readings relative to the present
    FullProgress,    \* progress 1.0
    MaxCheckpoints,  \* bound: checkpoints saved per job
    Horizon,         \* bound: times older than this are not told apart
    NULL

ASSUME StoreAssumption ==
    /\ Budgets \subseteq Nat \ {0}
    /\ AttemptCeiling \in Nat /\ \A b \in Budgets : b <= AttemptCeiling
    /\ Priorities \subseteq Nat
    /\ RecoveryLimit \in Nat \ {0}
    /\ LeaseMs \in Nat \ {0}
    /\ Delays \subseteq Nat \ {0}
    /\ Readings \subseteq Int
    /\ FullProgress \in Nat
    /\ MaxCheckpoints \in Nat
    /\ Horizon \in Nat
    /\ NULL \notin Int
    /\ NULL \notin Workers

VARIABLES
    jobs,        \* durable_jobs, one row per key ("ABSENT" before enqueue)
    attempts,    \* durable_job_attempts, in attempt_number order
    checkpoints, \* durable_job_checkpoints (revision 0 before the first)
    commands,    \* durable_job_commands
    granted      \* the lease references claimNext has handed out

vars == <<jobs, attempts, checkpoints, commands, granted>>

Pending   == {"QUEUED", "RETRY_WAIT"}
Terminal  == {"SUCCEEDED", "FAILED", "CANCELLED"}
Statuses  == Pending \cup Terminal \cup {"RUNNING"}
Cancels   == {"NOT_REQUESTED", "REQUESTED", "ACKNOWLEDGED", "REJECTED"}
Failures  == {"NONE", "RETRYABLE", "FINAL"}
AttemptStatuses == {"RUNNING", "SUCCEEDED", "RETRYABLE_FAILED",
                    "TERMINAL_FAILED", "CANCELLED", "LEASE_LOST"}
FailedAttempts  == {"RETRYABLE_FAILED", "TERMINAL_FAILED", "LEASE_LOST"}

JobRow == [status      : Statuses \cup {"ABSENT"},
           fingerprint : Fingerprints \cup {NULL},
           revision    : Nat,
           priority    : Nat,
           attempt     : Nat,              \* attempt_count
           max         : Nat,              \* max_attempts
           fence       : Nat,              \* fencing_token
           progress    : 0..FullProgress,
           attemptId   : Nat \cup {NULL},  \* current_attempt_id
           workerId    : Workers \cup {NULL},
           leaseAt     : Int \cup {NULL},  \* lease_expires_at_ms
           nextAt      : Int \cup {NULL},  \* next_attempt_at_ms
           created     : Int,
           completed   : BOOLEAN,          \* completed_at IS NOT NULL
           cancel      : Cancels,
           failure     : Failures]         \* last_failure_retryable

AttemptRow == [status : AttemptStatuses, worker : Workers, fence : Nat,
               lease : {"ACTIVE", "EXPIRED", "RELEASED"},
               failed : BOOLEAN,           \* failure_code IS NOT NULL
               checkpoint : Nat]

CommandRow == [action : {"NONE", "CANCEL", "RETRY"},
               job : Jobs \cup {NULL},
               disposition : {"NONE", "APPLIED", "NOOP"},
               expected : Nat, after : Nat]

Reference == [job : Jobs, attempt : Nat, worker : Workers, fence : Nat]

TypeOK ==
    /\ jobs \in [Jobs -> JobRow]
    /\ attempts \in [Jobs -> Seq(AttemptRow)]
    /\ checkpoints \in [Jobs -> [revision : Nat, progress : 0..FullProgress]]
    /\ commands \in [CommandKeys -> CommandRow]
    /\ granted \in SUBSET Reference

AbsentJob ==
    [status |-> "ABSENT", fingerprint |-> NULL, revision |-> 0, priority |-> 0,
     attempt |-> 0, max |-> 0, fence |-> 0, progress |-> 0,
     attemptId |-> NULL, workerId |-> NULL, leaseAt |-> NULL, nextAt |-> NULL,
     created |-> 0, completed |-> FALSE,
     cancel |-> "NOT_REQUESTED", failure |-> "NONE"]

NoCommand == [action |-> "NONE", job |-> NULL, disposition |-> "NONE",
              expected |-> 0, after |-> 0]

Init ==
    /\ jobs = [j \in Jobs |-> AbsentJob]
    /\ attempts = [j \in Jobs |-> <<>>]
    /\ checkpoints = [j \in Jobs |-> [revision |-> 0, progress |-> 0]]
    /\ commands = [k \in CommandKeys |-> NoCommand]
    /\ granted = {}

-----------------------------------------------------------------------------
(* Rows as the statements of the store rewrite them.                       *)

NoLease(row) ==
    [row EXCEPT !.attemptId = NULL, !.workerId = NULL, !.leaseAt = NULL]

(* Every terminal UPDATE: revision, lease columns and completed_at.        *)
Closed(row, status) ==
    [NoLease(row) EXCEPT !.status = status, !.revision = @ + 1,
                         !.nextAt = NULL, !.completed = TRUE]

CancelledRow(row) == [Closed(row, "CANCELLED") EXCEPT !.cancel = "ACKNOWLEDGED"]

FailedRow(row, failure) == [Closed(row, "FAILED") EXCEPT !.failure = failure]

SucceededRow(row) ==
    [Closed(row, "SUCCEEDED") EXCEPT
        !.progress = FullProgress,
        !.cancel = IF @ = "REQUESTED" THEN "REJECTED" ELSE @]

WaitingRow(row, at) ==
    [NoLease(row) EXCEPT !.status = "RETRY_WAIT", !.revision = @ + 1,
                         !.nextAt = at, !.failure = "RETRYABLE"]

Settle(a, status, lease) ==
    [a EXCEPT !.status = status, !.lease = lease,
              !.failed = status \in FailedAttempts]

SetAttempt(j, n, status, lease) ==
    attempts' = [attempts EXCEPT ![j][n] = Settle(@, status, lease)]

-----------------------------------------------------------------------------
(* enqueue: an absent key is inserted; an existing one with the same       *)
(* fingerprint only has its priority raised.                                *)

QueuedRow(fp, prio, max) ==
    [AbsentJob EXCEPT !.status = "QUEUED", !.fingerprint = fp,
                      !.priority = prio, !.max = max]

EnqueueNew(j, fp, prio, max) ==
    /\ jobs[j].status = "ABSENT"
    /\ jobs' = [jobs EXCEPT ![j] = QueuedRow(fp, prio, max)]
    /\ UNCHANGED <<attempts, checkpoints, commands, granted>>

EnqueueAgain(j, fp, prio) ==
    /\ jobs[j].status \notin Terminal \cup {"ABSENT"}
    /\ jobs[j].fingerprint = fp
    /\ prio > jobs[j].priority
    /\ jobs' = [jobs EXCEPT ![j].priority = prio]
    /\ UNCHANGED <<attempts, checkpoints, commands, granted>>

-----------------------------------------------------------------------------
(* claimNext: settle the expired rows that cannot be resumed, in claim     *)
(* order, until one row can be leased, the table has nothing due, or the    *)
(* recovery limit is reached.                                               *)

Expired(j, now) == jobs[j].status = "RUNNING" /\ jobs[j].leaseAt <= now

\* Mutant of Due: nobody recovers a lease that ran out.
DueWaitingOnly(j, now) ==
    \/ jobs[j].status = "QUEUED"
    \/ jobs[j].status = "RETRY_WAIT" /\ jobs[j].nextAt <= now

Due(j, now) ==
    \/ jobs[j].status = "QUEUED"
    \/ jobs[j].status = "RETRY_WAIT" /\ jobs[j].nextAt <= now
    \/ Expired(j, now)

Doomed(j, now) ==
    /\ Expired(j, now)
    /\ jobs[j].cancel = "REQUESTED" \/ jobs[j].attempt >= jobs[j].max

ReadyAt(row) ==
    CASE row.status = "RUNNING"    -> row.leaseAt
      [] row.status = "RETRY_WAIT" -> row.nextAt
      [] OTHER                     -> row.created

(* ORDER BY of the claim query; equal keys fall back on job_id, left open.  *)
Before(a, b) ==
    LET x == jobs[a]
        y == jobs[b]
        xr == x.status = "RUNNING"
        yr == y.status = "RUNNING"
    IN \/ xr /\ ~yr
       \/ xr = yr /\ x.priority > y.priority
       \/ xr = yr /\ x.priority = y.priority /\ ReadyAt(x) < ReadyAt(y)
       \/ /\ xr = yr /\ x.priority = y.priority /\ ReadyAt(x) = ReadyAt(y)
          /\ x.created < y.created

(* No due row outside S is ordered before a member of S: S is what the      *)
(* first Cardinality(S) passes of the loop select.                          *)
FirstOf(S, now) ==
    \A j \in Jobs \ S : Due(j, now) => \A s \in S : ~Before(j, s)

\* Mutant of Abandoned: the pending cancellation is forgotten.
AbandonedAsFailed(row) == FailedRow(row, "RETRYABLE")

Abandoned(row) ==
    IF row.cancel = "REQUESTED" THEN CancelledRow(row)
                                ELSE FailedRow(row, "RETRYABLE")

Leased(row, w, now) ==
    [row EXCEPT !.status = "RUNNING", !.revision = @ + 1,
                !.attempt = @ + 1, !.fence = @ + 1,
                !.attemptId = row.attempt + 1, !.workerId = w,
                !.leaseAt = now + LeaseMs, !.nextAt = NULL,
                !.completed = FALSE]

\* Mutant of ExpireAttempt: the lost attempt stays open.
ExpireAttemptSkipped(j) == attempts[j]

ExpireAttempt(j) ==
    [attempts[j] EXCEPT ![jobs[j].attemptId] =
                            Settle(@, "LEASE_LOST", "EXPIRED")]

NewAttempt(j, w) ==
    [status |-> "RUNNING", worker |-> w, fence |-> jobs[j].fence + 1,
     lease |-> "ACTIVE", failed |-> FALSE,
     checkpoint |-> checkpoints[j].revision]

AttemptsAfter(j, now) == IF Expired(j, now) THEN ExpireAttempt(j) ELSE attempts[j]

ClaimNext(w, now, settled, c) ==
    /\ \A j \in settled : Doomed(j, now)
    /\ Due(c, now) /\ ~Doomed(c, now)
    /\ Cardinality(settled) < RecoveryLimit
    /\ FirstOf(settled, now) /\ FirstOf(settled \cup {c}, now)
    /\ jobs' = [j \in Jobs |-> IF j = c THEN Leased(jobs[j], w, now)
                               ELSE IF j \in settled THEN Abandoned(jobs[j])
                               ELSE jobs[j]]
    /\ attempts' = [j \in Jobs |->
                      IF j = c THEN Append(AttemptsAfter(j, now), NewAttempt(j, w))
                      ELSE IF j \in settled THEN ExpireAttempt(j)
                      ELSE attempts[j]]
    /\ granted' = granted \cup
                    {[job |-> c, attempt |-> jobs[c].attempt + 1,
                      worker |-> w, fence |-> jobs[c].fence + 1]}
    /\ UNCHANGED <<checkpoints, commands>>

(* claimNext returns EMPTY: nothing is left to claim, or the limit is hit.  *)
ClaimEmpty(now, settled) ==
    /\ settled # {}
    /\ \A j \in settled : Doomed(j, now)
    /\ FirstOf(settled, now)
    /\ \/ Cardinality(settled) = RecoveryLimit
       \/ /\ Cardinality(settled) < RecoveryLimit
          /\ \A j \in Jobs \ settled : ~Due(j, now)
    /\ jobs' = [j \in Jobs |-> IF j \in settled THEN Abandoned(jobs[j]) ELSE jobs[j]]
    /\ attempts' = [j \in Jobs |-> IF j \in settled THEN ExpireAttempt(j) ELSE attempts[j]]
    /\ UNCHANGED <<checkpoints, commands, granted>>

-----------------------------------------------------------------------------
(* Operations that present a lease reference; #activeLease refuses any      *)
(* other holder, and the transaction then changes nothing.                  *)

\* Mutant of ActiveLease: any lease of the job will do.
ActiveLeaseOfJob(ref, now) ==
    jobs[ref.job].status = "RUNNING" /\ jobs[ref.job].leaseAt > now

ActiveLease(ref, now) ==
    LET row == jobs[ref.job] IN
    /\ row.status = "RUNNING"
    /\ row.attemptId = ref.attempt
    /\ row.workerId = ref.worker
    /\ row.fence = ref.fence
    /\ row.leaseAt > now

Heartbeat(ref, now) ==
    /\ ActiveLease(ref, now)
    /\ jobs' = [jobs EXCEPT ![ref.job].leaseAt = now + LeaseMs]
    /\ UNCHANGED <<attempts, checkpoints, commands, granted>>

ProgressedRow(row, progress) ==
    [row EXCEPT !.revision = @ + 1, !.progress = progress]

SaveCheckpoint(ref, now, progress) ==
    LET revision == checkpoints[ref.job].revision + 1 IN
    /\ ActiveLease(ref, now)
    /\ progress >= jobs[ref.job].progress
    /\ revision <= MaxCheckpoints
    /\ checkpoints' = [checkpoints EXCEPT ![ref.job] =
                         [revision |-> revision, progress |-> progress]]
    /\ jobs' = [jobs EXCEPT ![ref.job] = ProgressedRow(@, progress)]
    /\ attempts' = [attempts EXCEPT ![ref.job][ref.attempt].checkpoint = revision]
    /\ UNCHANGED <<commands, granted>>

Succeed(ref, now) ==
    /\ ActiveLease(ref, now)
    /\ SetAttempt(ref.job, ref.attempt, "SUCCEEDED", "RELEASED")
    /\ jobs' = [jobs EXCEPT ![ref.job] = SucceededRow(@)]
    /\ UNCHANGED <<checkpoints, commands, granted>>

(* fail: a requested cancellation wins over the failure.                    *)
FailCancelled(ref, now) ==
    /\ ActiveLease(ref, now)
    /\ jobs[ref.job].cancel = "REQUESTED"
    /\ SetAttempt(ref.job, ref.attempt, "CANCELLED", "RELEASED")
    /\ jobs' = [jobs EXCEPT ![ref.job] = CancelledRow(@)]
    /\ UNCHANGED <<checkpoints, commands, granted>>

FailRetryable(ref, now, delay) ==
    LET row == jobs[ref.job] IN
    /\ ActiveLease(ref, now)
    /\ row.cancel # "REQUESTED"
    /\ row.attempt < row.max
    /\ SetAttempt(ref.job, ref.attempt, "RETRYABLE_FAILED", "RELEASED")
    /\ jobs' = [jobs EXCEPT ![ref.job] = WaitingRow(@, now + delay)]
    /\ UNCHANGED <<checkpoints, commands, granted>>

FailTerminal(ref, now, retryable) ==
    LET row == jobs[ref.job] IN
    /\ ActiveLease(ref, now)
    /\ row.cancel # "REQUESTED"
    /\ retryable => row.attempt >= row.max
    /\ SetAttempt(ref.job, ref.attempt, "TERMINAL_FAILED", "RELEASED")
    /\ jobs' = [jobs EXCEPT ![ref.job] =
                  FailedRow(@, IF retryable THEN "RETRYABLE" ELSE "FINAL")]
    /\ UNCHANGED <<checkpoints, commands, granted>>

AcknowledgeCancellation(ref, now) ==
    /\ ActiveLease(ref, now)
    /\ jobs[ref.job].cancel = "REQUESTED"
    /\ SetAttempt(ref.job, ref.attempt, "CANCELLED", "RELEASED")
    /\ jobs' = [jobs EXCEPT ![ref.job] = CancelledRow(@)]
    /\ UNCHANGED <<checkpoints, commands, granted>>

RefusedRow(row) == [row EXCEPT !.revision = @ + 1, !.cancel = "REJECTED"]

RejectCancellation(ref, now) ==
    /\ ActiveLease(ref, now)
    /\ jobs[ref.job].cancel = "REQUESTED"
    /\ jobs' = [jobs EXCEPT ![ref.job] = RefusedRow(@)]
    /\ UNCHANGED <<attempts, checkpoints, commands, granted>>

-----------------------------------------------------------------------------
(* Operator commands.  A key that is already recorded replays its receipt   *)
(* and changes nothing; a fresh key must carry the row's own revision.      *)

FreshCommand(k, j, expected) ==
    /\ commands[k].action = "NONE"
    /\ jobs[j].status # "ABSENT"
    /\ jobs[j].revision = expected

Record(k, j, action, disposition, expected, after) ==
    commands' = [commands EXCEPT ![k] =
                   [action |-> action, job |-> j, disposition |-> disposition,
                    expected |-> expected, after |-> after]]

CancelRequestedRow(row) ==
    [row EXCEPT !.revision = @ + 1, !.cancel = "REQUESTED"]

CancelNoop(k, j, expected) ==
    /\ FreshCommand(k, j, expected)
    /\ jobs[j].status \in Terminal \/ jobs[j].cancel = "REQUESTED"
    /\ Record(k, j, "CANCEL", "NOOP", expected, expected)
    /\ UNCHANGED <<jobs, attempts, checkpoints, granted>>

CancelApplied(k, j, expected) ==
    /\ FreshCommand(k, j, expected)
    /\ jobs[j].status \notin Terminal /\ jobs[j].cancel # "REQUESTED"
    /\ jobs' = [jobs EXCEPT ![j] = IF @.status = "RUNNING"
                                   THEN CancelRequestedRow(@) ELSE CancelledRow(@)]
    /\ Record(k, j, "CANCEL", "APPLIED", expected, jobs'[j].revision)
    /\ UNCHANGED <<attempts, checkpoints, granted>>

Retryable(row) ==
    \/ row.status = "RETRY_WAIT"
    \/ row.status = "FAILED" /\ row.failure = "RETRYABLE"

\* Mutant of RetryMax: the whole budget again.
RetryMaxRenewed(row) == row.max + row.attempt

RetryMax(row) ==
    IF row.status = "FAILED" /\ row.attempt + 1 > row.max
    THEN row.attempt + 1 ELSE row.max

RequeuedRow(row) ==
    [row EXCEPT !.status = "QUEUED", !.revision = @ + 1, !.max = RetryMax(row),
                !.nextAt = NULL, !.completed = FALSE]

ManualRetry(k, j, expected) ==
    /\ FreshCommand(k, j, expected)
    /\ Retryable(jobs[j])
    /\ jobs[j].attempt < AttemptCeiling
    /\ jobs' = [jobs EXCEPT ![j] = RequeuedRow(@)]
    /\ Record(k, j, "RETRY", "APPLIED", expected, jobs'[j].revision)
    /\ UNCHANGED <<attempts, checkpoints, granted>>

(* requestCancellation: the in-process path; a rejected request stays       *)
(* rejected here, unlike in the operator command.                           *)
RequestCancellation(j) ==
    /\ jobs[j].status \notin Terminal \cup {"ABSENT"}
    /\ jobs[j].cancel \notin {"REJECTED", "REQUESTED"}
    /\ jobs' = [jobs EXCEPT ![j] = IF @.status = "RUNNING"
                                   THEN CancelRequestedRow(@) ELSE CancelledRow(@)]
    /\ UNCHANGED <<attempts, checkpoints, commands, granted>>

-----------------------------------------------------------------------------
Older(t) == IF t = NULL THEN NULL ELSE IF t > -Horizon THEN t - 1 ELSE t

AgedRow(row) ==
    [row EXCEPT !.leaseAt = Older(@), !.nextAt = Older(@), !.created = Older(@)]

Tick ==
    /\ jobs' = [j \in Jobs |-> IF jobs[j].status = "ABSENT" THEN jobs[j]
                               ELSE AgedRow(jobs[j])]
    /\ UNCHANGED <<attempts, checkpoints, commands, granted>>

Claim ==
    \E w \in Workers, now \in Readings, settled \in SUBSET Jobs :
        \/ \E c \in Jobs : ClaimNext(w, now, settled, c)
        \/ ClaimEmpty(now, settled)

Fenced ==
    \E ref \in granted, now \in Readings :
        \/ Heartbeat(ref, now)
        \/ \E p \in 0..FullProgress : SaveCheckpoint(ref, now, p)
        \/ Succeed(ref, now)
        \/ FailCancelled(ref, now)
        \/ \E d \in Delays : FailRetryable(ref, now, d)
        \/ \E r \in BOOLEAN : FailTerminal(ref, now, r)
        \/ AcknowledgeCancellation(ref, now)
        \/ RejectCancellation(ref, now)

Enqueue ==
    \E j \in Jobs, fp \in Fingerprints, prio \in Priorities :
        \/ \E max \in Budgets : EnqueueNew(j, fp, prio, max)
        \/ EnqueueAgain(j, fp, prio)

Command ==
    \E k \in CommandKeys, j \in Jobs :
        \E expected \in 0..jobs[j].revision :
            \/ CancelNoop(k, j, expected)
            \/ CancelApplied(k, j, expected)
            \/ ManualRetry(k, j, expected)

Next ==
    \/ Enqueue
    \/ Claim
    \/ Fenced
    \/ Command
    \/ \E j \in Jobs : RequestCancellation(j)
    \/ Tick

Spec == Init /\ [][Next]_vars

-----------------------------------------------------------------------------
(* Properties.                                                             *)

(* durable_jobs and durable_job_attempts never disagree: one attempt row    *)
(* per counted attempt, only the newest can be open, it is open exactly     *)
(* while the job runs and it names the job's holder; a closed job's newest  *)
(* attempt says why it closed.                                              *)
AttemptLedger ==
    \A j \in Jobs :
        LET row == jobs[j]
            own == attempts[j]
            last == own[Len(own)]
        IN /\ Len(own) = row.attempt
           /\ \A n \in DOMAIN own :
                 /\ own[n].fence <= row.fence
                 /\ (own[n].status = "RUNNING") = (row.status = "RUNNING" /\ n = Len(own))
                 /\ (own[n].lease = "ACTIVE") = (own[n].status = "RUNNING")
                 /\ own[n].failed = (own[n].status \in FailedAttempts)
           /\ row.status = "RUNNING" =>
                 /\ Len(own) > 0
                 /\ row.attemptId = Len(own)
                 /\ last.worker = row.workerId
                 /\ last.fence = row.fence
           /\ row.status = "SUCCEEDED" => last.status = "SUCCEEDED"
           /\ row.status = "RETRY_WAIT" => last.status = "RETRYABLE_FAILED"
           /\ row.status = "FAILED" => last.status \in {"TERMINAL_FAILED", "LEASE_LOST"}

(* A cancellation is pending only while somebody can still acknowledge it;  *)
(* every path that ends an attempt resolves it, and a cancelled job is one  *)
(* whose cancellation was acknowledged.                                     *)
CancellationDiscipline ==
    \A j \in Jobs :
        /\ jobs[j].cancel = "REQUESTED" => jobs[j].status = "RUNNING"
        /\ (jobs[j].cancel = "ACKNOWLEDGED") = (jobs[j].status = "CANCELLED")

(* A job that failed for a retryable reason has used every attempt it was   *)
(* given, so that a manual retry adds exactly one (store.ts:890); a job     *)
(* that waits always has an attempt left to wait for.                       *)
RetryBudget ==
    \A j \in Jobs :
        LET row == jobs[j] IN
        /\ row.status = "FAILED" /\ row.failure = "RETRYABLE" => row.attempt = row.max
        /\ row.status \in Pending => row.attempt < row.max
        /\ row.status = "RETRY_WAIT" => row.failure = "RETRYABLE"

(* Of all the lease references ever handed out for a job at most one is     *)
(* accepted, whatever the clock reads, and it is the newest.                *)
SingleHolder ==
    \A a, b \in granted :
        a.job = b.job /\ ActiveLease(a, -Horizon - 1) =>
            /\ b.fence <= a.fence
            /\ b # a => ~ActiveLease(b, -Horizon - 1) /\ b.fence < a.fence

(* Every change of status, cancellation, attempts, budget, token or progress  *)
(* moves the revision by one, so a command decided on an older view of these *)
(* is refused as stale.  The priority is not among them: a repeated enqueue  *)
(* raises it and leaves the revision (store.ts:497); nor is the lease.       *)
Control(row) ==
    <<row.status, row.cancel, row.attempt, row.max, row.fence, row.progress>>

RevisionCoversControl ==
    [][\A j \in Jobs :
          /\ jobs'[j].revision \in {jobs[j].revision, jobs[j].revision + 1}
          /\ jobs[j].status # "ABSENT" /\ Control(jobs'[j]) # Control(jobs[j])
                => jobs'[j].revision = jobs[j].revision + 1]_vars

(* Once a cancellation is requested no further attempt of the job starts    *)
(* unless the handler that holds the lease refused it first.                *)
NoAttemptAfterCancelRequest ==
    [][\A j \in Jobs :
          jobs[j].cancel = "REQUESTED" => jobs'[j].attempt = jobs[j].attempt]_vars

(* The store implements the promise it makes to its callers.                *)
Lifecycle == INSTANCE JobLifecycle WITH
                phase <- [j \in Jobs |-> jobs[j].status],
                left  <- [j \in Jobs |-> jobs[j].max - jobs[j].attempt],
                token <- [j \in Jobs |-> jobs[j].fence]

ImplementsLifecycle == Lifecycle!Spec
=============================================================================
