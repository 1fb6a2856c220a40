---------------------------- MODULE JobStoreProofs ----------------------------
(***************************************************************************)
(* Proofs about the job store for any number of jobs, workers, operator     *)
(* commands, budgets and clock readings.                                    *)
(***************************************************************************)
EXTENDS JobStore, TLAPS

(* What every row of durable_jobs satisfies.  It names no other table, so   *)
(* that each action is proved on the one row it rewrites.                   *)
RowOK(row) ==
    /\ row \in JobRow
    /\ row.attempt <= row.max
    /\ row.status \in Pending => row.attempt < row.max
    /\ row.status = "ABSENT" => row.max = 0 /\ row.fence = 0 /\ row.revision = 0
    /\ (row.status = "RUNNING") <=> (row.attemptId # NULL)
    /\ (row.status = "RUNNING") <=> (row.workerId # NULL)
    /\ (row.status = "RUNNING") <=> (row.leaseAt # NULL)
    /\ (row.status = "RETRY_WAIT") <=> (row.nextAt # NULL)
    /\ (row.status \in Terminal) <=> row.completed
    /\ row.cancel = "REQUESTED" => row.status = "RUNNING"
    /\ (row.cancel = "ACKNOWLEDGED") <=> (row.status = "CANCELLED")
    /\ row.status = "FAILED" /\ row.failure = "RETRYABLE" => row.attempt = row.max
    /\ row.status = "RETRY_WAIT" => row.failure = "RETRYABLE"

RowsOK ==
    /\ jobs \in [Jobs -> JobRow]
    /\ granted \in SUBSET Reference
    /\ \A j \in Jobs : RowOK(jobs[j])

(* The counters a statement may increase stay numbers (the provers need the *)
(* fact spelled out before they look at a whole row).                       *)
LEMMA Counters ==
    ASSUME NEW row \in JobRow
    PROVE  /\ row.revision + 1 \in Nat
           /\ row.attempt + 1 \in Nat
           /\ row.fence + 1 \in Nat
           /\ row.attempt \in Nat /\ row.max \in Nat
BY DEF JobRow

LEMMA FailedOK ==
    ASSUME NEW row, RowOK(row), row.status = "RUNNING", row.cancel # "REQUESTED",
           NEW f \in {"RETRYABLE", "FINAL"}, f = "RETRYABLE" => row.attempt >= row.max
    PROVE  RowOK(FailedRow(row, f))
<1>1. FailedRow(row, f) \in JobRow
  BY Counters DEF RowOK, FailedRow, Closed, NoLease, JobRow, Statuses, Terminal, Failures
<1>2. f = "RETRYABLE" => row.attempt = row.max
  BY DEF RowOK, JobRow
<1>. QED
  BY <1>1, <1>2 DEF RowOK, FailedRow, Closed, NoLease, JobRow, Pending, Terminal

LEMMA CancelledOK ==
    ASSUME NEW row, RowOK(row), row.status \in Pending \cup {"RUNNING"}
    PROVE  RowOK(CancelledRow(row))
<1>1. CancelledRow(row) \in JobRow
  BY Counters DEF RowOK, CancelledRow, Closed, NoLease, JobRow, Statuses, Terminal, Cancels
<1>. QED
  BY <1>1 DEF RowOK, CancelledRow, Closed, NoLease, JobRow, Pending, Terminal

LEMMA SucceededOK ==
    ASSUME NEW row, RowOK(row), row.status = "RUNNING"
    PROVE  RowOK(SucceededRow(row))
<1>1. FullProgress \in 0..FullProgress
  BY StoreAssumption
<1>2. SucceededRow(row) \in JobRow
  <2>1. PICK closed, cancel :
          /\ closed = Closed(row, "SUCCEEDED")
          /\ cancel = IF closed.cancel = "REQUESTED" THEN "REJECTED" ELSE closed.cancel
    OBVIOUS
  <2>2. closed \in JobRow
    <3>1. PICK bare : bare = NoLease(row)
      OBVIOUS
    <3>2. bare \in JobRow
      BY <3>1 DEF RowOK, NoLease, JobRow
    <3>3. bare.revision + 1 \in Nat
      BY <3>2, Counters
    <3>. QED
      BY <2>1, <3>1, <3>2, <3>3 DEF Closed, JobRow, Statuses, Terminal
  <2>3. cancel \in Cancels
    BY <2>1, <2>2 DEF JobRow, Cancels
  <2>4. SucceededRow(row) = [closed EXCEPT !.progress = FullProgress, !.cancel = cancel]
    BY <2>1 DEF SucceededRow
  <2>. QED
    BY <1>1, <2>2, <2>3, <2>4 DEF JobRow
<1>. QED
  BY <1>2 DEF RowOK, SucceededRow, Closed, NoLease, JobRow, Pending, Terminal, Cancels

LEMMA LeasedOK ==
    ASSUME NEW row, RowOK(row), NEW w \in Workers, NEW now \in Readings,
           row.status \in Pending \cup {"RUNNING"}, row.attempt < row.max
    PROVE  RowOK(Leased(row, w, now))
<1>1. now + LeaseMs \in Int
  BY StoreAssumption
<1>2. Leased(row, w, now) \in JobRow
  BY <1>1, Counters DEF RowOK, Leased, JobRow, Statuses
<1>3. row.attempt + 1 <= row.max
  BY DEF RowOK, JobRow
<1>4. row.attempt + 1 # NULL /\ w # NULL /\ now + LeaseMs # NULL
  BY <1>1, Counters, StoreAssumption DEF RowOK
<1>5. row.cancel # "ACKNOWLEDGED"
  BY DEF RowOK, Pending
<1>. QED
  BY <1>2, <1>3, <1>4, <1>5 DEF RowOK, Leased, JobRow, Pending, Terminal

LEMMA WaitingOK ==
    ASSUME NEW row, RowOK(row), row.status = "RUNNING", row.cancel # "REQUESTED",
           row.attempt < row.max, NEW at \in Int
    PROVE  RowOK(WaitingRow(row, at))
<1>1. WaitingRow(row, at) \in JobRow
  BY Counters DEF RowOK, WaitingRow, NoLease, JobRow, Statuses, Pending, Failures
<1>2. at # NULL
  BY StoreAssumption
<1>. QED
  BY <1>1, <1>2 DEF RowOK, WaitingRow, NoLease, JobRow, Pending, Terminal

LEMMA RequeuedOK ==
    ASSUME NEW row, RowOK(row), Retryable(row)
    PROVE  RowOK(RequeuedRow(row))
<1>1. RetryMax(row) \in Nat /\ row.attempt < RetryMax(row)
  BY Counters DEF RowOK, Retryable, RetryMax, Pending
<1>2. RequeuedRow(row) \in JobRow
  BY <1>1, Counters DEF RowOK, RequeuedRow, JobRow, Statuses, Pending
<1>. QED
  BY <1>1, <1>2 DEF RowOK, RequeuedRow, Retryable, JobRow, Pending, Terminal

LEMMA RunningCancelOK ==
    ASSUME NEW row, RowOK(row), row.status = "RUNNING"
    PROVE  RowOK(CancelRequestedRow(row)) /\ RowOK(RefusedRow(row))
<1>1. CancelRequestedRow(row) \in JobRow /\ RefusedRow(row) \in JobRow
  BY Counters DEF RowOK, CancelRequestedRow, RefusedRow, JobRow, Cancels
<1>. QED
  BY <1>1 DEF RowOK, CancelRequestedRow, RefusedRow, JobRow, Pending, Terminal

LEMMA AbsentOK == RowOK(AbsentJob)
<1>1. 0 \in 0..FullProgress
  BY StoreAssumption
<1>. QED
  BY <1>1 DEF RowOK, AbsentJob, JobRow, Statuses, Pending, Terminal, Cancels, Failures

LEMMA QueuedOK ==
    ASSUME NEW fp \in Fingerprints, NEW prio \in Priorities, NEW max \in Budgets
    PROVE  RowOK(QueuedRow(fp, prio, max))
<1>1. prio \in Nat /\ max \in Nat /\ 0 < max
  BY StoreAssumption
<1>2. QueuedRow(fp, prio, max) \in JobRow
  BY <1>1, AbsentOK DEF RowOK, QueuedRow, JobRow, Statuses, Pending
<1>. QED
  BY <1>1, <1>2, AbsentOK DEF RowOK, QueuedRow, AbsentJob, JobRow, Pending, Terminal

LEMMA RaisedOK ==
    ASSUME NEW row, RowOK(row), NEW prio \in Priorities
    PROVE  RowOK([row EXCEPT !.priority = prio])
BY StoreAssumption DEF RowOK, JobRow

LEMMA RenewedOK ==
    ASSUME NEW row, RowOK(row), row.status = "RUNNING", NEW at \in Int
    PROVE  RowOK([row EXCEPT !.leaseAt = at])
<1>1. at # NULL
  BY StoreAssumption
<1>. QED
  BY <1>1 DEF RowOK, JobRow, Pending, Terminal

LEMMA ProgressedOK ==
    ASSUME NEW row, RowOK(row), row.status = "RUNNING", NEW p \in 0..FullProgress
    PROVE  RowOK(ProgressedRow(row, p))
<1>1. ProgressedRow(row, p) \in JobRow
  BY Counters DEF RowOK, ProgressedRow, JobRow
<1>. QED
  BY <1>1 DEF RowOK, ProgressedRow, JobRow

LEMMA AgedOK ==
    ASSUME NEW row, RowOK(row)
    PROVE  RowOK(AgedRow(row))
<1>1. \A t \in Int : Older(t) \in Int /\ Older(t) # NULL
  BY StoreAssumption DEF Older
<1>2. Older(NULL) = NULL
  BY DEF Older
<1>3. /\ row.created \in Int
      /\ row.leaseAt \in Int \cup {NULL} /\ row.nextAt \in Int \cup {NULL}
  BY DEF RowOK, JobRow
<1>4. /\ Older(row.created) \in Int
      /\ Older(row.leaseAt) \in Int \cup {NULL}
      /\ Older(row.nextAt) \in Int \cup {NULL}
      /\ Older(row.leaseAt) = NULL <=> row.leaseAt = NULL
      /\ Older(row.nextAt) = NULL <=> row.nextAt = NULL
  BY <1>1, <1>2, <1>3
<1>5. AgedRow(row) \in JobRow
  BY <1>4 DEF RowOK, AgedRow, JobRow
<1>. QED
  BY <1>4, <1>5 DEF RowOK, AgedRow, JobRow, Pending, Terminal

-----------------------------------------------------------------------------
LEMMA OneRow ==
    ASSUME RowsOK, NEW j \in Jobs, NEW row, RowOK(row),
           jobs' = [jobs EXCEPT ![j] = row], granted' = granted
    PROVE  RowsOK'
BY DEF RowsOK, RowOK

LEMMA EnqueueRows == RowsOK /\ Enqueue => RowsOK'
<1>. SUFFICES ASSUME RowsOK, NEW j \in Jobs, NEW fp \in Fingerprints,
                     NEW prio \in Priorities,
                     \/ \E max \in Budgets : EnqueueNew(j, fp, prio, max)
                     \/ EnqueueAgain(j, fp, prio)
              PROVE  RowsOK'
  BY DEF Enqueue
<1>1. CASE \E max \in Budgets : EnqueueNew(j, fp, prio, max)
  BY <1>1, QueuedOK, OneRow DEF EnqueueNew
<1>2. CASE EnqueueAgain(j, fp, prio)
  <2>1. RowOK([jobs[j] EXCEPT !.priority = prio])
    BY RaisedOK DEF RowsOK
  <2>. QED
    BY <1>2, <2>1, OneRow DEF EnqueueAgain, RowsOK
<1>. QED
  BY <1>1, <1>2

LEMMA CommandRows == RowsOK /\ Command => RowsOK'
<1>. SUFFICES ASSUME RowsOK, NEW k \in CommandKeys, NEW j \in Jobs, NEW expected,
                     \/ CancelNoop(k, j, expected)
                     \/ CancelApplied(k, j, expected)
                     \/ ManualRetry(k, j, expected)
              PROVE  RowsOK'
  BY DEF Command
<1>0. RowOK(jobs[j]) /\ jobs[j] \in JobRow
  BY DEF RowsOK
<1>1. CASE CancelNoop(k, j, expected)
  BY <1>1 DEF CancelNoop, RowsOK
<1>2. CASE CancelApplied(k, j, expected)
  <2>. DEFINE new == IF jobs[j].status = "RUNNING"
                     THEN CancelRequestedRow(jobs[j]) ELSE CancelledRow(jobs[j])
  <2>1. jobs[j].status \in Pending \cup {"RUNNING"}
    BY <1>0, <1>2 DEF CancelApplied, FreshCommand, JobRow, Statuses, Pending, Terminal
  <2>2. RowOK(new)
    BY <1>0, <2>1, CancelledOK, RunningCancelOK
  <2>3. jobs' = [jobs EXCEPT ![j] = new] /\ granted' = granted
    BY <1>2 DEF CancelApplied
  <2>. QED
    BY <2>2, <2>3, OneRow
<1>3. CASE ManualRetry(k, j, expected)
  <2>1. Retryable(jobs[j])
    BY <1>3 DEF ManualRetry
  <2>2. RowOK(RequeuedRow(jobs[j]))
    BY <1>0, <2>1, RequeuedOK
  <2>3. jobs' = [jobs EXCEPT ![j] = RequeuedRow(jobs[j])] /\ granted' = granted
    BY <1>3 DEF ManualRetry
  <2>. QED
    BY <2>2, <2>3, OneRow
<1>. QED
  BY <1>1, <1>2, <1>3

LEMMA RequestRows ==
    ASSUME RowsOK, NEW j \in Jobs, RequestCancellation(j)
    PROVE  RowsOK'
<1>. DEFINE new == IF jobs[j].status = "RUNNING"
                   THEN CancelRequestedRow(jobs[j]) ELSE CancelledRow(jobs[j])
<1>1. RowOK(jobs[j]) /\ jobs[j] \in JobRow
  BY DEF RowsOK
<1>2. jobs[j].status \in Pending \cup {"RUNNING"}
  BY <1>1 DEF RequestCancellation, JobRow, Statuses, Pending, Terminal
<1>3. RowOK(new)
  BY <1>1, <1>2, CancelledOK, RunningCancelOK
<1>4. jobs' = [jobs EXCEPT ![j] = new] /\ granted' = granted
  BY DEF RequestCancellation
<1>. QED
  BY <1>3, <1>4, OneRow

(* A fenced operation rewrites the row of a running job that its caller     *)
(* holds.                                                                   *)
LEMMA FencedRows == RowsOK /\ Fenced => RowsOK'
<1>. SUFFICES ASSUME RowsOK, NEW ref \in granted, NEW now \in Readings,
                     \/ Heartbeat(ref, now)
                     \/ \E p \in 0..FullProgress : SaveCheckpoint(ref, now, p)
                     \/ Succeed(ref, now)
                     \/ FailCancelled(ref, now)
                     \/ \E d \in Delays : FailRetryable(ref, now, d)
                     \/ \E r \in BOOLEAN : FailTerminal(ref, now, r)
                     \/ AcknowledgeCancellation(ref, now)
                     \/ RejectCancellation(ref, now)
              PROVE  RowsOK'
  BY DEF Fenced
<1>. DEFINE row == jobs[ref.job]
<1>1. ref.job \in Jobs /\ RowOK(row)
  BY DEF RowsOK, Reference
<1>2. CASE Heartbeat(ref, now)
  <2>1. row.status = "RUNNING" /\ now + LeaseMs \in Int
    BY <1>2, StoreAssumption DEF Heartbeat, ActiveLease
  <2>2. RowOK([row EXCEPT !.leaseAt = now + LeaseMs])
    BY <1>1, <2>1, RenewedOK
  <2>. QED
    BY <1>1, <1>2, <2>2, OneRow DEF Heartbeat, RowsOK
<1>3. CASE \E p \in 0..FullProgress : SaveCheckpoint(ref, now, p)
  <2>1. PICK p \in 0..FullProgress : SaveCheckpoint(ref, now, p)
    BY <1>3
  <2>2. /\ row.status = "RUNNING"
        /\ jobs' = [jobs EXCEPT ![ref.job] = ProgressedRow(row, p)] /\ granted' = granted
    BY <2>1 DEF SaveCheckpoint, ActiveLease
  <2>. QED
    BY <1>1, <2>2, ProgressedOK, OneRow
<1>4. CASE Succeed(ref, now)
  BY <1>1, <1>4, SucceededOK, OneRow DEF Succeed, ActiveLease
<1>5. CASE FailCancelled(ref, now) \/ AcknowledgeCancellation(ref, now)
  BY <1>1, <1>5, CancelledOK, OneRow
     DEF FailCancelled, AcknowledgeCancellation, ActiveLease
<1>6. CASE \E d \in Delays : FailRetryable(ref, now, d)
  <2>1. PICK d \in Delays : FailRetryable(ref, now, d)
    BY <1>6
  <2>2. now + d \in Int
    BY StoreAssumption
  <2>. QED
    BY <1>1, <2>1, <2>2, WaitingOK, OneRow DEF FailRetryable, ActiveLease
<1>7. CASE \E r \in BOOLEAN : FailTerminal(ref, now, r)
  <2>1. PICK r \in BOOLEAN : FailTerminal(ref, now, r)
    BY <1>7
  <2>. DEFINE f == IF r THEN "RETRYABLE" ELSE "FINAL"
  <2>2. f \in {"RETRYABLE", "FINAL"} /\ (f = "RETRYABLE" => row.attempt >= row.max)
    BY <2>1 DEF FailTerminal
  <2>3. RowOK(FailedRow(row, f))
    BY <1>1, <2>1, <2>2, FailedOK DEF FailTerminal, ActiveLease
  <2>. QED
    BY <1>1, <2>1, <2>3, OneRow DEF FailTerminal
<1>8. CASE RejectCancellation(ref, now)
  BY <1>1, <1>8, RunningCancelOK, OneRow DEF RejectCancellation, ActiveLease
<1>. QED
  BY <1>2, <1>3, <1>4, <1>5, <1>6, <1>7, <1>8

LEMMA AbandonedOK ==
    ASSUME NEW j \in Jobs, NEW now \in Readings, RowOK(jobs[j]), Doomed(j, now)
    PROVE  RowOK(Abandoned(jobs[j]))
<1>1. CASE jobs[j].cancel = "REQUESTED"
  BY <1>1, CancelledOK DEF Abandoned, Doomed, Expired
<1>2. CASE jobs[j].cancel # "REQUESTED"
  BY <1>2, FailedOK DEF Abandoned, Doomed, Expired
<1>. QED
  BY <1>1, <1>2

LEMMA ClaimRows == RowsOK /\ Claim => RowsOK'
<1>. SUFFICES ASSUME RowsOK, NEW w \in Workers, NEW now \in Readings,
                     NEW settled \in SUBSET Jobs,
                     \/ \E c \in Jobs : ClaimNext(w, now, settled, c)
                     \/ ClaimEmpty(now, settled)
              PROVE  RowsOK'
  BY DEF Claim
<1>1. CASE \E c \in Jobs : ClaimNext(w, now, settled, c)
  <2>1. PICK c \in Jobs : ClaimNext(w, now, settled, c)
    BY <1>1
  <2>2. \A j \in settled : RowOK(Abandoned(jobs[j]))
    BY <2>1, AbandonedOK DEF ClaimNext, RowsOK
  <2>3. RowOK(Leased(jobs[c], w, now))
    <3>1. RowOK(jobs[c]) /\ jobs[c].status \in Pending \cup {"RUNNING"}
      BY <2>1 DEF ClaimNext, Due, Expired, Pending, RowsOK
    <3>2. jobs[c].attempt < jobs[c].max
      BY <2>1, <3>1 DEF ClaimNext, Due, Doomed, Expired, RowOK, JobRow, Pending
    <3>. QED
      BY <3>1, <3>2, LeasedOK
  <2>4. \A j \in Jobs : RowOK(jobs'[j])
    BY <2>1, <2>2, <2>3 DEF ClaimNext, RowsOK
  <2>5. jobs' \in [Jobs -> JobRow]
    BY <2>1, <2>4 DEF ClaimNext, RowOK
  <2>6. granted' \in SUBSET Reference
    <3>1. jobs[c].attempt + 1 \in Nat /\ jobs[c].fence + 1 \in Nat
      BY Counters DEF RowsOK
    <3>. QED
      BY <2>1, <3>1 DEF ClaimNext, RowsOK, Reference
  <2>. QED
    BY <2>4, <2>5, <2>6 DEF RowsOK
<1>2. CASE ClaimEmpty(now, settled)
  <2>1. \A j \in settled : RowOK(Abandoned(jobs[j]))
    BY <1>2, AbandonedOK DEF ClaimEmpty, RowsOK
  <2>2. \A j \in Jobs : RowOK(jobs'[j])
    BY <1>2, <2>1 DEF ClaimEmpty, RowsOK
  <2>3. jobs' \in [Jobs -> JobRow] /\ granted' = granted
    BY <1>2, <2>2 DEF ClaimEmpty, RowOK
  <2>. QED
    BY <2>2, <2>3 DEF RowsOK
<1>. QED
  BY <1>1, <1>2

LEMMA TickRows == RowsOK /\ Tick => RowsOK'
<1>. SUFFICES ASSUME RowsOK, Tick
              PROVE  RowsOK'
  OBVIOUS
<1>1. \A j \in Jobs : RowOK(jobs'[j])
  BY AgedOK DEF Tick, RowsOK
<1>2. jobs' \in [Jobs -> JobRow] /\ granted' = granted
  BY <1>1 DEF Tick, RowOK
<1>. QED
  BY <1>1, <1>2 DEF RowsOK

LEMMA RowsInductive ==
    /\ Init => RowsOK
    /\ RowsOK /\ [Next]_vars => RowsOK'
<1>1. Init => RowsOK
  BY AbsentOK DEF Init, RowsOK, RowOK
<1>2. ASSUME RowsOK, [Next]_vars
      PROVE  RowsOK'
  <2>1. CASE \E j \in Jobs : RequestCancellation(j)
    BY <1>2, <2>1, RequestRows
  <2>2. CASE UNCHANGED vars
    BY <1>2, <2>2 DEF vars, RowsOK
  <2>. QED
    BY <1>2, <2>1, <2>2, EnqueueRows, ClaimRows, FencedRows, CommandRows, TickRows
       DEF Next
<1>. QED
  BY <1>1, <1>2

THEOREM RowsAlwaysOK == Spec => []RowsOK
BY RowsInductive, PTL DEF Spec

(* No path that ends an attempt leaves a cancellation pending, and a job is *)
(* cancelled exactly when its cancellation was acknowledged (claimNext,     *)
(* succeed, fail, cancel, acknowledgeCancellation).                         *)
THEOREM CancellationDisciplineHolds == Spec => []CancellationDiscipline
<1>1. RowsOK => CancellationDiscipline
  BY DEF RowsOK, RowOK, CancellationDiscipline
<1>. QED
  BY <1>1, RowsAlwaysOK, PTL

(* A retryable failure is terminal only when the budget is used up, and a   *)
(* job that waits to run always has an attempt left (fail, claimNext,       *)
(* manualRetry).                                                            *)
THEOREM RetryBudgetHolds == Spec => []RetryBudget
<1>1. RowsOK => RetryBudget
  BY DEF RowsOK, RowOK, RetryBudget
<1>. QED
  BY <1>1, RowsAlwaysOK, PTL

-----------------------------------------------------------------------------
(***************************************************************************)
(* What a step of the job store may do to a row, and what follows from it:  *)
(* the store implements JobLifecycle, a revision covers what an operator    *)
(* decides on, and a job whose cancellation is pending is not started.      *)
(***************************************************************************)

(* The steps of a row, by what they do to its columns.                      *)
Same(old, new) == Control(new) = Control(old) /\ new.revision = old.revision

Submitted(old, new) ==
    /\ old.status = "ABSENT" /\ new.status = "QUEUED"
    /\ old.revision = 0 /\ new.revision = 0
    /\ old.attempt = 0 /\ new.attempt = 0 /\ old.fence = 0 /\ new.fence = 0
    /\ new.max \in Nat \ {0}

Started(old, new) ==
    /\ old.status \in Pending \cup {"RUNNING"} /\ new.status = "RUNNING"
    /\ old.cancel # "REQUESTED"
    /\ old.attempt < old.max /\ new.max = old.max
    /\ new.attempt = old.attempt + 1 /\ new.fence = old.fence + 1
    /\ new.revision = old.revision + 1

Turned(old, new) ==
    /\ \/ old.status = "RUNNING" /\ new.status \in {"RUNNING", "SUCCEEDED", "FAILED"}
       \/ old.status = "RUNNING" /\ new.status = "RETRY_WAIT" /\ old.attempt < old.max
       \/ old.status \in Pending \cup {"RUNNING"} /\ new.status = "CANCELLED"
       \/ old.status = "RETRY_WAIT" /\ new.status = "QUEUED"
    /\ new.max = old.max /\ new.attempt = old.attempt /\ new.fence = old.fence
    /\ new.revision = old.revision + 1

Reopened(old, new) ==
    /\ old.status = "FAILED" /\ new.status = "QUEUED"
    /\ old.attempt = old.max /\ new.max = old.attempt + 1
    /\ new.attempt = old.attempt /\ new.fence = old.fence
    /\ new.revision = old.revision + 1

RowStep(old, new) ==
    \/ Same(old, new) \/ Submitted(old, new) \/ Started(old, new)
    \/ Turned(old, new) \/ Reopened(old, new)

(* Every row takes such a step, and at most one of them starts.             *)
Steps ==
    /\ \A j \in Jobs : RowStep(jobs[j], jobs'[j])
    /\ \A i, j \in Jobs : jobs'[i].fence # jobs[i].fence /\ jobs'[j].fence # jobs[j].fence => i = j

LEMMA OneRowSteps ==
    ASSUME RowsOK, NEW j \in Jobs, NEW row, RowStep(jobs[j], row),
           jobs' = [jobs EXCEPT ![j] = row]
    PROVE  Steps
<1>1. jobs'[j] = row /\ \A k \in Jobs \ {j} : jobs'[k] = jobs[k]
  BY DEF RowsOK
<1>. QED
  BY <1>1 DEF Steps, RowStep, Same

(* The statements that end an attempt or move it on.                        *)
LEMMA EndedTurns ==
    ASSUME NEW row, RowOK(row), row.status = "RUNNING"
    PROVE  /\ \A f : Turned(row, FailedRow(row, f))
           /\ Turned(row, SucceededRow(row))
           /\ \A p : Turned(row, ProgressedRow(row, p))
           /\ Turned(row, CancelRequestedRow(row)) /\ Turned(row, RefusedRow(row))
           /\ \A at : row.attempt < row.max => Turned(row, WaitingRow(row, at))
<1>1. \A f : Turned(row, FailedRow(row, f))
  BY DEF RowOK, JobRow, Turned, FailedRow, Closed, NoLease
<1>2. Turned(row, SucceededRow(row))
  BY DEF RowOK, JobRow, Turned, SucceededRow, Closed, NoLease
<1>3. \A p : Turned(row, ProgressedRow(row, p))
  BY DEF RowOK, JobRow, Turned, ProgressedRow
<1>4. Turned(row, CancelRequestedRow(row)) /\ Turned(row, RefusedRow(row))
  BY DEF RowOK, JobRow, Turned, CancelRequestedRow, RefusedRow
<1>5. \A at : row.attempt < row.max => Turned(row, WaitingRow(row, at))
  BY DEF RowOK, JobRow, Turned, WaitingRow, NoLease
<1>. QED
  BY <1>1, <1>2, <1>3, <1>4, <1>5

LEMMA CancelledTurns ==
    ASSUME NEW row, RowOK(row), row.status \in Pending \cup {"RUNNING"}
    PROVE  Turned(row, CancelledRow(row))
BY DEF RowOK, JobRow, Turned, CancelledRow, Closed, NoLease

LEMMA RequeuedSteps ==
    ASSUME NEW row, RowOK(row), Retryable(row)
    PROVE  RowStep(row, RequeuedRow(row))
<1>1. row.attempt \in Nat /\ row.max \in Nat /\ row \in JobRow
  BY Counters DEF RowOK
<1>2. CASE row.status = "RETRY_WAIT"
  BY <1>1, <1>2 DEF RowStep, Turned, RequeuedRow, RetryMax, JobRow
<1>3. CASE row.status = "FAILED" /\ row.failure = "RETRYABLE"
  <2>1. row.attempt = row.max /\ RetryMax(row) = row.attempt + 1
    BY <1>1, <1>3 DEF RowOK, RetryMax
  <2>. QED
    BY <1>1, <1>3, <2>1 DEF RowStep, Reopened, RequeuedRow, JobRow
<1>. QED
  BY <1>2, <1>3 DEF Retryable

LEMMA CancelSteps ==
    ASSUME NEW row, RowOK(row), row.status \in Pending \cup {"RUNNING"}
    PROVE  RowStep(row, IF row.status = "RUNNING" THEN CancelRequestedRow(row) ELSE CancelledRow(row))
BY EndedTurns, CancelledTurns DEF RowStep

LEMMA LeasedStarts ==
    ASSUME NEW row, RowOK(row), NEW w, NEW now, row.status \in Pending \cup {"RUNNING"},
           row.cancel # "REQUESTED", row.attempt < row.max
    PROVE  Started(row, Leased(row, w, now))
BY DEF RowOK, JobRow, Started, Leased

-----------------------------------------------------------------------------
LEMMA EnqueueSteps == RowsOK /\ Enqueue => Steps
<1>. SUFFICES ASSUME RowsOK, NEW j \in Jobs, NEW fp \in Fingerprints, NEW prio \in Priorities,
                     \/ \E max \in Budgets : EnqueueNew(j, fp, prio, max)
                     \/ EnqueueAgain(j, fp, prio)
              PROVE  Steps
  BY DEF Enqueue
<1>0. RowOK(jobs[j]) /\ jobs[j] \in JobRow
  BY DEF RowsOK
<1>1. CASE \E max \in Budgets : EnqueueNew(j, fp, prio, max)
  <2>1. PICK max \in Budgets : EnqueueNew(j, fp, prio, max)
    BY <1>1
  <2>2. max \in Nat \ {0}
    BY StoreAssumption
  <2>3. jobs[j].status = "ABSENT" /\ jobs[j].attempt = 0
    BY <1>0, <2>1 DEF EnqueueNew, RowOK, JobRow
  <2>4. Submitted(jobs[j], QueuedRow(fp, prio, max))
    BY <1>0, <2>2, <2>3 DEF Submitted, QueuedRow, AbsentJob, RowOK
  <2>. QED
    BY <2>1, <2>4, OneRowSteps DEF EnqueueNew, RowStep
<1>2. CASE EnqueueAgain(j, fp, prio)
  <2>1. Same(jobs[j], [jobs[j] EXCEPT !.priority = prio])
    BY <1>0 DEF Same, Control, JobRow
  <2>2. jobs' = [jobs EXCEPT ![j] = [jobs[j] EXCEPT !.priority = prio]]
    BY <1>2 DEF EnqueueAgain, RowsOK
  <2>. QED
    BY <2>1, <2>2, OneRowSteps DEF RowStep
<1>. QED
  BY <1>1, <1>2

LEMMA CommandSteps == RowsOK /\ Command => Steps
<1>. SUFFICES ASSUME RowsOK, NEW k \in CommandKeys, NEW j \in Jobs, NEW expected,
                     \/ CancelNoop(k, j, expected)
                     \/ CancelApplied(k, j, expected)
                     \/ ManualRetry(k, j, expected)
              PROVE  Steps
  BY DEF Command
<1>0. RowOK(jobs[j]) /\ jobs[j] \in JobRow
  BY DEF RowsOK
<1>1. CASE CancelNoop(k, j, expected)
  BY <1>1 DEF CancelNoop, Steps, RowStep, Same
<1>2. CASE CancelApplied(k, j, expected)
  <2>1. jobs[j].status \in Pending \cup {"RUNNING"}
    BY <1>0, <1>2 DEF CancelApplied, FreshCommand, JobRow, Statuses, Pending, Terminal
  <2>. QED
    BY <1>0, <1>2, <2>1, CancelSteps, OneRowSteps DEF CancelApplied
<1>3. CASE ManualRetry(k, j, expected)
  BY <1>0, <1>3, RequeuedSteps, OneRowSteps DEF ManualRetry
<1>. QED
  BY <1>1, <1>2, <1>3

LEMMA RequestSteps ==
    ASSUME RowsOK, NEW j \in Jobs, RequestCancellation(j)
    PROVE  Steps
<1>1. RowOK(jobs[j]) /\ jobs[j] \in JobRow
  BY DEF RowsOK
<1>2. jobs[j].status \in Pending \cup {"RUNNING"}
  BY <1>1 DEF RequestCancellation, JobRow, Statuses, Pending, Terminal
<1>. QED
  BY <1>1, <1>2, CancelSteps, OneRowSteps DEF RequestCancellation

LEMMA FencedSteps == RowsOK /\ Fenced => Steps
<1>. SUFFICES ASSUME RowsOK, NEW ref \in granted, NEW now \in Readings,
                     \/ Heartbeat(ref, now)
                     \/ \E p \in 0..FullProgress : SaveCheckpoint(ref, now, p)
                     \/ Succeed(ref, now)
                     \/ FailCancelled(ref, now)
                     \/ \E d \in Delays : FailRetryable(ref, now, d)
                     \/ \E r \in BOOLEAN : FailTerminal(ref, now, r)
                     \/ AcknowledgeCancellation(ref, now)
                     \/ RejectCancellation(ref, now)
              PROVE  Steps
  BY DEF Fenced
<1>. DEFINE row == jobs[ref.job]
<1>1. ref.job \in Jobs /\ RowOK(row) /\ row \in JobRow
  BY DEF RowsOK, Reference
<1>2. row.status = "RUNNING"
  BY DEF Heartbeat, SaveCheckpoint, Succeed, FailCancelled, FailRetryable, FailTerminal,
         AcknowledgeCancellation, RejectCancellation, ActiveLease
<1>3. CASE Heartbeat(ref, now)
  <2>1. Same(row, [row EXCEPT !.leaseAt = now + LeaseMs])
    BY <1>1 DEF Same, Control, JobRow
  <2>2. jobs' = [jobs EXCEPT ![ref.job] = [row EXCEPT !.leaseAt = now + LeaseMs]]
    BY <1>3 DEF Heartbeat, RowsOK
  <2>. QED
    BY <1>1, <2>1, <2>2, OneRowSteps DEF RowStep
<1>4. CASE \E p \in 0..FullProgress : SaveCheckpoint(ref, now, p)
  <2>1. PICK p \in 0..FullProgress : jobs' = [jobs EXCEPT ![ref.job] = ProgressedRow(row, p)]
    BY <1>4 DEF SaveCheckpoint
  <2>. QED
    BY <1>1, <1>2, <2>1, EndedTurns, OneRowSteps DEF RowStep
<1>5. CASE Succeed(ref, now)
  BY <1>1, <1>2, <1>5, EndedTurns, OneRowSteps DEF Succeed, RowStep
<1>6. CASE FailCancelled(ref, now) \/ AcknowledgeCancellation(ref, now)
  BY <1>1, <1>2, <1>6, CancelledTurns, OneRowSteps
     DEF FailCancelled, AcknowledgeCancellation, RowStep
<1>7. CASE \E d \in Delays : FailRetryable(ref, now, d)
  <2>1. PICK d \in Delays : FailRetryable(ref, now, d)
    BY <1>7
  <2>2. row.attempt < row.max /\ jobs' = [jobs EXCEPT ![ref.job] = WaitingRow(row, now + d)]
    BY <2>1 DEF FailRetryable
  <2>. QED
    BY <1>1, <1>2, <2>2, EndedTurns, OneRowSteps DEF RowStep
<1>8. CASE \E r \in BOOLEAN : FailTerminal(ref, now, r)
  <2>1. PICK r \in BOOLEAN : jobs' = [jobs EXCEPT ![ref.job] =
                                        FailedRow(row, IF r THEN "RETRYABLE" ELSE "FINAL")]
    BY <1>8 DEF FailTerminal
  <2>. QED
    BY <1>1, <1>2, <2>1, EndedTurns, OneRowSteps DEF RowStep
<1>9. CASE RejectCancellation(ref, now)
  BY <1>1, <1>2, <1>9, EndedTurns, OneRowSteps DEF RejectCancellation, RowStep
<1>. QED
  BY <1>3, <1>4, <1>5, <1>6, <1>7, <1>8, <1>9

LEMMA AbandonedTurns ==
    ASSUME NEW j \in Jobs, NEW now, RowOK(jobs[j]), Doomed(j, now)
    PROVE  Turned(jobs[j], Abandoned(jobs[j]))
BY EndedTurns, CancelledTurns DEF Abandoned, Doomed, Expired

(* claimNext settles rows, which keep their fence, and leases one.          *)
LEMMA ClaimSteps == RowsOK /\ Claim => Steps
<1>. SUFFICES ASSUME RowsOK, NEW w \in Workers, NEW now \in Readings, NEW settled \in SUBSET Jobs,
                     \/ \E c \in Jobs : ClaimNext(w, now, settled, c)
                     \/ ClaimEmpty(now, settled)
              PROVE  Steps
  BY DEF Claim
<1>0. \A j \in Jobs : RowStep(jobs[j], jobs[j])
  BY DEF RowStep, Same
<1>1. CASE \E c \in Jobs : ClaimNext(w, now, settled, c)
  <2>1. PICK c \in Jobs : ClaimNext(w, now, settled, c)
    BY <1>1
  <2>2. \A j \in settled : Turned(jobs[j], Abandoned(jobs[j]))
    BY <2>1, AbandonedTurns DEF ClaimNext, RowsOK
  <2>3. Started(jobs[c], Leased(jobs[c], w, now))
    <3>1. RowOK(jobs[c]) /\ jobs[c].status \in Pending \cup {"RUNNING"}
      BY <2>1 DEF ClaimNext, Due, Expired, Pending, RowsOK
    <3>2. jobs[c].attempt < jobs[c].max /\ jobs[c].cancel # "REQUESTED"
      BY <2>1, <3>1 DEF ClaimNext, Due, Doomed, Expired, RowOK, JobRow, Pending
    <3>. QED
      BY <3>1, <3>2, LeasedStarts
  <2>4. \A j \in Jobs : jobs'[j] = IF j = c THEN Leased(jobs[j], w, now)
                                   ELSE IF j \in settled THEN Abandoned(jobs[j]) ELSE jobs[j]
    BY <2>1 DEF ClaimNext
  <2>5. \A j \in Jobs \ {c} : jobs'[j].fence = jobs[j].fence
    BY <2>2, <2>4 DEF Turned
  <2>. QED
    BY <1>0, <2>2, <2>3, <2>4, <2>5 DEF Steps, RowStep
<1>2. CASE ClaimEmpty(now, settled)
  <2>1. \A j \in settled : Turned(jobs[j], Abandoned(jobs[j]))
    BY <1>2, AbandonedTurns DEF ClaimEmpty, RowsOK
  <2>2. \A j \in Jobs : jobs'[j] = IF j \in settled THEN Abandoned(jobs[j]) ELSE jobs[j]
    BY <1>2 DEF ClaimEmpty
  <2>3. \A j \in Jobs : jobs'[j].fence = jobs[j].fence
    BY <2>1, <2>2 DEF Turned
  <2>. QED
    BY <1>0, <2>1, <2>2, <2>3 DEF Steps, RowStep
<1>. QED
  BY <1>1, <1>2

LEMMA TickSteps == RowsOK /\ Tick => Steps
<1>. SUFFICES ASSUME RowsOK, Tick
              PROVE  Steps
  OBVIOUS
<1>1. \A j \in Jobs : Same(jobs[j], AgedRow(jobs[j])) /\ Same(jobs[j], jobs[j])
  BY DEF RowsOK, Same, Control, AgedRow, JobRow
<1>2. \A j \in Jobs : Same(jobs[j], jobs'[j])
  BY <1>1 DEF Tick
<1>3. \A j \in Jobs : jobs'[j].fence = jobs[j].fence
  BY <1>2 DEF Same, Control
<1>. QED
  BY <1>2, <1>3 DEF Steps, RowStep

LEMMA EveryStep == RowsOK /\ [Next]_vars => Steps
<1>. SUFFICES ASSUME RowsOK, [Next]_vars
              PROVE  Steps
  OBVIOUS
<1>1. CASE \E j \in Jobs : RequestCancellation(j)
  BY <1>1, RequestSteps
<1>2. CASE UNCHANGED vars
  BY <1>2 DEF vars, Steps, RowStep, Same
<1>. QED
  BY <1>1, <1>2, EnqueueSteps, ClaimSteps, FencedSteps, CommandSteps, TickSteps DEF Next

-----------------------------------------------------------------------------
(* Whatever changes in the status, cancellation, attempts, budget, token or   *)
(* progress of a job moves the revision a command must name, so one decided  *)
(* on an older view of these is refused (claimNext, the fenced operations,   *)
(* cancel, manualRetry).  A priority raised by enqueue moves no revision.    *)
THEOREM RevisionCoversControlHolds == Spec => RevisionCoversControl
<1>. DEFINE A == \A j \in Jobs :
                    /\ jobs'[j].revision \in {jobs[j].revision, jobs[j].revision + 1}
                    /\ jobs[j].status # "ABSENT" /\ Control(jobs'[j]) # Control(jobs[j])
                          => jobs'[j].revision = jobs[j].revision + 1
<1>1. RowsOK /\ [Next]_vars => A
  <2>. SUFFICES ASSUME RowsOK, [Next]_vars, NEW j \in Jobs
                PROVE  /\ jobs'[j].revision \in {jobs[j].revision, jobs[j].revision + 1}
                       /\ jobs[j].status # "ABSENT" /\ Control(jobs'[j]) # Control(jobs[j])
                             => jobs'[j].revision = jobs[j].revision + 1
    OBVIOUS
  <2>1. RowStep(jobs[j], jobs'[j])
    BY EveryStep DEF Steps
  <2>. QED
    BY <2>1 DEF RowStep, Same, Submitted, Started, Turned, Reopened
<1>. QED
  BY <1>1, RowsAlwaysOK, PTL DEF Spec, RevisionCoversControl

(* A job whose cancellation is pending starts no further attempt unless its *)
(* holder refused it first (claimNext, requestCancellation, cancel).        *)
THEOREM NoAttemptAfterCancelRequestHolds == Spec => NoAttemptAfterCancelRequest
<1>. DEFINE A == \A j \in Jobs : jobs[j].cancel = "REQUESTED" => jobs'[j].attempt = jobs[j].attempt
<1>1. RowsOK /\ [Next]_vars => A
  <2>. SUFFICES ASSUME RowsOK, [Next]_vars, NEW j \in Jobs, jobs[j].cancel = "REQUESTED"
                PROVE  jobs'[j].attempt = jobs[j].attempt
    OBVIOUS
  <2>1. RowStep(jobs[j], jobs'[j])
    BY EveryStep DEF Steps
  <2>. QED
    BY <2>1 DEF RowStep, Same, Control, Submitted, Started, Turned, Reopened
<1>. QED
  BY <1>1, RowsAlwaysOK, PTL DEF Spec, NoAttemptAfterCancelRequest

(* A step of a row is a move of its key or leaves the key where it is.      *)
LEMMA RowMoves ==
    ASSUME RowsOK, RowsOK', NEW j \in Jobs, RowStep(jobs[j], jobs'[j])
    PROVE  /\ Lifecycle!Move(j) \/ Lifecycle!Stay(j)
           /\ Lifecycle!Start(j) => jobs'[j].fence # jobs[j].fence
<1>1. /\ jobs[j].attempt \in Nat /\ jobs[j].max \in Nat /\ jobs[j].fence \in Nat
      /\ jobs'[j].attempt \in Nat /\ jobs'[j].max \in Nat
  BY DEF RowsOK, JobRow
<1>. USE DEF Pending
<1>2. CASE Same(jobs[j], jobs'[j])
  BY <1>1, <1>2 DEF Same, Control, Lifecycle!Stay, Lifecycle!Start
<1>3. CASE Submitted(jobs[j], jobs'[j])
  BY <1>1, <1>3 DEF Submitted, Lifecycle!Move, Lifecycle!Submit, Lifecycle!Start, RowsOK, RowOK
<1>4. CASE Started(jobs[j], jobs'[j])
  BY <1>1, <1>4 DEF Started, Lifecycle!Move, Lifecycle!Start, Lifecycle!Open
<1>5. CASE Turned(jobs[j], jobs'[j])
  BY <1>1, <1>5 DEF Turned, Lifecycle!Move, Lifecycle!Stay, Lifecycle!Turn, Lifecycle!Succeed,
       Lifecycle!Fail, Lifecycle!Backoff, Lifecycle!Cancel, Lifecycle!Requeue, Lifecycle!Start,
       Lifecycle!Open
<1>6. CASE Reopened(jobs[j], jobs'[j])
  BY <1>1, <1>6 DEF Reopened, Lifecycle!Move, Lifecycle!Reopen, Lifecycle!Start, Lifecycle!Open
<1>. QED
  BY <1>2, <1>3, <1>4, <1>5, <1>6 DEF RowStep

(* The store keeps the promise of JobLifecycle: executions are counted,     *)
(* their tokens only grow, one starts at a time and outcomes stand.         *)
THEOREM ImplementsLifecycleHolds == Spec => ImplementsLifecycle
<1>1. Init => Lifecycle!Init
  BY DEF Init, AbsentJob, Lifecycle!Init
<1>2. RowsOK /\ RowsOK' /\ [Next]_vars => Lifecycle!Next
  <2>. SUFFICES ASSUME RowsOK, RowsOK', [Next]_vars
                PROVE  Lifecycle!Next
    OBVIOUS
  <2>1. Steps
    BY EveryStep
  <2>2. \A j \in Jobs : /\ Lifecycle!Move(j) \/ Lifecycle!Stay(j)
                        /\ Lifecycle!Start(j) => jobs'[j].fence # jobs[j].fence
    BY <2>1, RowMoves DEF Steps
  <2>. QED
    BY <2>1, <2>2 DEF Steps, Lifecycle!Next
<1>. QED
  BY <1>1, <1>2, RowsAlwaysOK, PTL DEF Spec, ImplementsLifecycle, Lifecycle!Spec

-----------------------------------------------------------------------------
(***************************************************************************)
(* What durable_jobs promises about the other two records of the store: the *)
(* lease references handed out, and the rows of durable_job_attempts.       *)
(***************************************************************************)

(* A reference carries a fencing token the job has reached, and no two of   *)
(* one job carry the same.                                                  *)
GrantsOK ==
    /\ \A a \in granted : a.fence <= jobs[a.job].fence
    /\ \A a, b \in granted : a.job = b.job /\ a.fence = b.fence => a = b

LEMMA FencesGrow ==
    ASSUME RowsOK, [Next]_vars
    PROVE  \A j \in Jobs : jobs[j].fence \in Nat /\ jobs'[j].fence \in Nat
                           /\ jobs[j].fence <= jobs'[j].fence
<1>1. Steps /\ RowsOK'
  BY EveryStep, RowsInductive
<1>2. \A j \in Jobs : jobs[j] \in JobRow /\ jobs'[j] \in JobRow
  BY <1>1 DEF RowsOK
<1>3. \A j \in Jobs : jobs[j].fence \in Nat /\ jobs'[j].fence \in Nat
  BY <1>2 DEF JobRow
<1>4. \A j \in Jobs : jobs'[j].fence \in {jobs[j].fence, jobs[j].fence + 1}
  BY <1>1 DEF Steps, RowStep, Same, Control, Submitted, Started, Turned, Reopened
<1>. QED
  BY <1>3, <1>4

(* Only ClaimNext hands out a reference, with a token nobody had before.    *)
LEMMA GrantedStep ==
    ASSUME RowsOK, [Next]_vars
    PROVE  \/ granted' = granted
           \/ \E c \in Jobs : \E ref : /\ granted' = granted \cup {ref} /\ ref.job = c
                                       /\ ref.fence = jobs[c].fence + 1
                                       /\ jobs'[c].fence = jobs[c].fence + 1
<1>1. CASE \E w \in Workers, now \in Readings, settled \in SUBSET Jobs, c \in Jobs :
             ClaimNext(w, now, settled, c)
  <2>1. PICK w \in Workers, now \in Readings, settled \in SUBSET Jobs, c \in Jobs :
          ClaimNext(w, now, settled, c)
    BY <1>1
  <2>2. PICK ref : ref = [job |-> c, attempt |-> jobs[c].attempt + 1, worker |-> w,
                          fence |-> jobs[c].fence + 1]
    OBVIOUS
  <2>3. granted' = granted \cup {ref} /\ ref.job = c /\ ref.fence = jobs[c].fence + 1
    BY <2>1, <2>2 DEF ClaimNext
  <2>4. jobs'[c] = Leased(jobs[c], w, now) /\ jobs[c] \in JobRow
    BY <2>1 DEF ClaimNext, RowsOK
  <2>5. jobs'[c].fence = jobs[c].fence + 1
    BY <2>4 DEF Leased, JobRow
  <2>. QED
    BY <2>3, <2>5
<1>2. CASE ~\E w \in Workers, now \in Readings, settled \in SUBSET Jobs, c \in Jobs :
              ClaimNext(w, now, settled, c)
  <2>1. CASE Enqueue \/ Tick \/ \E j \in Jobs : RequestCancellation(j)
    BY <2>1 DEF Enqueue, EnqueueNew, EnqueueAgain, Tick, RequestCancellation
  <2>2. CASE Claim
    BY <1>2, <2>2 DEF Claim, ClaimEmpty
  <2>3. CASE Fenced
    <3>1. PICK ref \in granted, now \in Readings :
            \/ Heartbeat(ref, now)
            \/ \E p \in 0..FullProgress : SaveCheckpoint(ref, now, p)
            \/ Succeed(ref, now)
            \/ FailCancelled(ref, now)
            \/ \E d \in Delays : FailRetryable(ref, now, d)
            \/ \E r \in BOOLEAN : FailTerminal(ref, now, r)
            \/ AcknowledgeCancellation(ref, now)
            \/ RejectCancellation(ref, now)
      BY <2>3 DEF Fenced
    <3>2. granted' = granted
      BY <3>1 DEF Heartbeat, SaveCheckpoint, Succeed, FailCancelled, FailRetryable,
         FailTerminal, AcknowledgeCancellation, RejectCancellation
    <3>. QED
      BY <3>2
  <2>4. CASE Command
    BY <2>4 DEF Command, CancelNoop, CancelApplied, ManualRetry
  <2>5. CASE UNCHANGED vars
    BY <2>5 DEF vars
  <2>. QED
    BY <2>1, <2>2, <2>3, <2>4, <2>5 DEF Next
<1>. QED
  BY <1>1, <1>2

LEMMA GrantsInductive ==
    ASSUME RowsOK, GrantsOK, [Next]_vars
    PROVE  GrantsOK'
<1>1. /\ \A j \in Jobs : jobs[j].fence \in Nat /\ jobs'[j].fence \in Nat
                         /\ jobs[j].fence <= jobs'[j].fence
      /\ \A a \in granted : a.job \in Jobs /\ a.fence \in Nat
  BY FencesGrow DEF RowsOK, Reference
<1>2. CASE granted' = granted
  BY <1>1, <1>2 DEF GrantsOK
<1>3. CASE \E c \in Jobs : \E ref : /\ granted' = granted \cup {ref} /\ ref.job = c
                                    /\ ref.fence = jobs[c].fence + 1
                                    /\ jobs'[c].fence = jobs[c].fence + 1
  BY <1>1, <1>3 DEF GrantsOK
<1>. QED
  BY <1>2, <1>3, GrantedStep

(* Of all the lease references ever handed out for a job at most one is     *)
(* accepted by #activeLease, whatever the clock reads, and it is the newest.*)
THEOREM SingleHolderHolds == Spec => []SingleHolder
<1>1. Init => GrantsOK
  BY DEF Init, GrantsOK
<1>2. RowsOK /\ GrantsOK /\ [Next]_vars => GrantsOK'
  BY GrantsInductive
<1>3. RowsOK /\ GrantsOK => SingleHolder
  <2>. SUFFICES ASSUME RowsOK, GrantsOK, NEW a \in granted, NEW b \in granted, a.job = b.job,
                       ActiveLease(a, -Horizon - 1)
                PROVE  /\ b.fence <= a.fence
                       /\ b # a => ~ActiveLease(b, -Horizon - 1) /\ b.fence < a.fence
    BY DEF SingleHolder
  <2>1. a.fence \in Nat /\ b.fence \in Nat /\ a.fence = jobs[a.job].fence
    BY DEF RowsOK, Reference, ActiveLease
  <2>. QED
    BY <2>1 DEF GrantsOK, ActiveLease
<1>. QED
  BY <1>1, <1>2, <1>3, RowsAlwaysOK, PTL DEF Spec

-----------------------------------------------------------------------------
(* The attempts `own' of a job whose row is `row'.                          *)
Entry(a, row) ==
    a.fence <= row.fence /\ (a.failed <=> a.status \in FailedAttempts)

Over(a) == a.status # "RUNNING" /\ a.lease # "ACTIVE"

(* All attempts are over.                                                   *)
Quiet(row, own) ==
    /\ own \in Seq(AttemptRow) /\ Len(own) = row.attempt
    /\ \A n \in 1..Len(own) : Entry(own[n], row) /\ Over(own[n])

(* The last one runs, and it is the one the row names.                      *)
Running(row, own) ==
    /\ own \in Seq(AttemptRow) /\ Len(own) = row.attempt /\ Len(own) > 0
    /\ \A n \in 1..Len(own) : Entry(own[n], row) /\ (n < Len(own) => Over(own[n]))
    /\ own[Len(own)].status = "RUNNING" /\ own[Len(own)].lease = "ACTIVE"
    /\ own[Len(own)].worker = row.workerId /\ own[Len(own)].fence = row.fence
    /\ row.attemptId = Len(own)

(* A closed job's newest attempt says why.                                  *)
Reasoned(row, own) ==
    /\ row.status = "SUCCEEDED" => own[Len(own)].status = "SUCCEEDED"
    /\ row.status = "RETRY_WAIT" => own[Len(own)].status = "RETRYABLE_FAILED"
    /\ row.status = "FAILED" => own[Len(own)].status \in {"TERMINAL_FAILED", "LEASE_LOST"}

Ledger(row, own) ==
    /\ row.status = "RUNNING" => Running(row, own)
    /\ row.status # "RUNNING" => Quiet(row, own)
    /\ Reasoned(row, own)

Ledgers == \A j \in Jobs : Ledger(jobs[j], attempts[j])

LEMMA LedgersSuffice == RowsOK /\ Ledgers => AttemptLedger
<1>. SUFFICES ASSUME RowsOK, Ledgers, NEW j \in Jobs
              PROVE  LET row == jobs[j]
                         own == attempts[j]
                         last == own[Len(own)]
                     IN /\ Len(own) = row.attempt
                        /\ \A n \in DOMAIN own :
                              /\ own[n].fence <= row.fence
                              /\ (own[n].status = "RUNNING") = (row.status = "RUNNING" /\ n = Len(own))
                              /\ (own[n].lease = "ACTIVE") = (own[n].status = "RUNNING")
                              /\ own[n].failed = (own[n].status \in FailedAttempts)
                        /\ row.status = "RUNNING" =>
                              /\ Len(own) > 0
                              /\ row.attemptId = Len(own)
                              /\ last.worker = row.workerId
                              /\ last.fence = row.fence
                        /\ row.status = "SUCCEEDED" => last.status = "SUCCEEDED"
                        /\ row.status = "RETRY_WAIT" => last.status = "RETRYABLE_FAILED"
                        /\ row.status = "FAILED" => last.status \in {"TERMINAL_FAILED", "LEASE_LOST"}
  BY DEF AttemptLedger
<1>1. PICK row, own : row = jobs[j] /\ own = attempts[j]
  OBVIOUS
<1>2. Ledger(row, own)
  BY <1>1 DEF Ledgers
<1>3. own \in Seq(AttemptRow) /\ Len(own) = row.attempt /\ DOMAIN own = 1..Len(own)
  BY <1>2 DEF Ledger, Running, Quiet
<1>4. ASSUME NEW n \in 1..Len(own)
      PROVE  /\ own[n].fence <= row.fence
             /\ (own[n].status = "RUNNING") = (row.status = "RUNNING" /\ n = Len(own))
             /\ (own[n].lease = "ACTIVE") = (own[n].status = "RUNNING")
             /\ own[n].failed = (own[n].status \in FailedAttempts)
  <2>1. own[n] \in AttemptRow /\ Entry(own[n], row)
    BY <1>2, <1>3 DEF Ledger, Running, Quiet
  <2>2. (own[n].status = "RUNNING") <=> (row.status = "RUNNING" /\ n = Len(own))
    BY <1>2, <1>3 DEF Ledger, Running, Quiet, Over
  <2>3. (own[n].lease = "ACTIVE") <=> (own[n].status = "RUNNING")
    BY <1>2, <1>3 DEF Ledger, Running, Quiet, Over
  <2>. QED
    BY <2>1, <2>2, <2>3 DEF Entry, AttemptRow
<1>5. row.status = "RUNNING" => /\ Len(own) > 0 /\ row.attemptId = Len(own)
                                /\ own[Len(own)].worker = row.workerId
                                /\ own[Len(own)].fence = row.fence
  BY <1>2 DEF Ledger, Running
<1>. QED
  BY <1>1, <1>2, <1>3, <1>4, <1>5 DEF Ledger, Reasoned

-----------------------------------------------------------------------------
(* The statements on durable_job_attempts.                                  *)

(* The row changes, its attempts do not.                                    *)
LEMMA RowMovesOn ==
    ASSUME NEW row, NEW row2, NEW own, Ledger(row, own),
           row2.attempt = row.attempt, row2.fence = row.fence,
           \/ row2.status = row.status /\ row2.attemptId = row.attemptId
                                       /\ row2.workerId = row.workerId
           \/ row.status # "RUNNING" /\ row2.status \in {"QUEUED", "CANCELLED"}
    PROVE  Ledger(row2, own)
  BY DEF Ledger, Running, Quiet, Reasoned, Entry

(* The open attempt is settled, and the row with it.                        *)
Settlement(own, n, status, lease) == [own EXCEPT ![n] = Settle(@, status, lease)]

LEMMA Settles ==
    ASSUME NEW row, NEW row2, NEW own, NEW status \in AttemptStatuses \ {"RUNNING"},
           NEW lease \in {"EXPIRED", "RELEASED"},
           Running(row, own), row2.attempt = row.attempt, row2.fence = row.fence,
           NEW own2, own2 = Settlement(own, row.attemptId, status, lease)
    PROVE  Quiet(row2, own2) /\ own2[Len(own2)].status = status
<1>. DEFINE k == row.attemptId
<1>1. PICK a : a = Settle(own[k], status, lease)
  OBVIOUS
<1>2. own \in Seq(AttemptRow) /\ k = Len(own) /\ k \in 1..Len(own) /\ own[k] \in AttemptRow
  BY DEF Running
<1>3. a \in AttemptRow /\ Over(a) /\ Entry(a, row) /\ a.status = status
  <2>1. PICK failed \in BOOLEAN : failed <=> status \in FailedAttempts
    OBVIOUS
  <2>2. a = [own[k] EXCEPT !.status = status, !.lease = lease, !.failed = failed]
    BY <1>1, <2>1 DEF Settle
  <2>3. a \in AttemptRow
    BY <1>2, <2>2 DEF AttemptRow
  <2>4. a.status = status /\ a.lease = lease /\ a.failed = failed /\ a.fence = own[k].fence
    BY <1>2, <2>2 DEF AttemptRow
  <2>5. own[k].fence <= row.fence
    BY <1>2 DEF Running, Entry
  <2>. QED
    BY <2>1, <2>3, <2>4, <2>5 DEF Over, Entry
<1>4. own2 = [own EXCEPT ![k] = a]
  BY <1>1 DEF Settlement
<1>5. /\ own2 \in Seq(AttemptRow) /\ Len(own2) = Len(own) /\ own2[k] = a
      /\ \A n \in 1..Len(own) : n # k => own2[n] = own[n]
  BY <1>2, <1>3, <1>4
<1>6. Quiet(row2, own2)
  BY <1>2, <1>3, <1>5 DEF Quiet, Running, Entry
<1>. QED
  BY <1>2, <1>3, <1>5, <1>6

(* A new attempt is appended once the others are over.                      *)
LEMMA Begins ==
    ASSUME NEW row, NEW row2, NEW own, NEW a \in AttemptRow, Quiet(row, own),
           row.attempt \in Nat, row.fence \in Nat,
           row2.status = "RUNNING", row2.attempt = row.attempt + 1, row2.fence = row.fence + 1,
           row2.attemptId = row.attempt + 1, row2.workerId = a.worker,
           a.fence = row.fence + 1, a.status = "RUNNING", a.lease = "ACTIVE", a.failed = FALSE
    PROVE  Ledger(row2, Append(own, a))
<1>1. PICK own2 : own2 = Append(own, a)
  OBVIOUS
<1>2. /\ own \in Seq(AttemptRow) /\ own2 \in Seq(AttemptRow) /\ Len(own2) = Len(own) + 1
      /\ own2[Len(own) + 1] = a /\ \A n \in 1..Len(own) : own2[n] = own[n]
  BY <1>1 DEF Quiet
<1>3. Entry(a, row2)
  BY DEF Entry, AttemptRow, FailedAttempts
<1>4. ASSUME NEW n \in 1..Len(own)
      PROVE  Entry(own2[n], row2) /\ Over(own2[n])
  <2>1. own2[n] = own[n] /\ own[n] \in AttemptRow /\ Entry(own[n], row) /\ Over(own[n])
    BY <1>2 DEF Quiet
  <2>. QED
    BY <2>1 DEF Entry, AttemptRow
<1>5. Running(row2, own2)
  BY <1>2, <1>3, <1>4 DEF Running, Quiet
<1>. QED
  BY <1>1, <1>5 DEF Ledger, Reasoned

(* A checkpoint is noted in the open attempt.                               *)
LEMMA Notes ==
    ASSUME NEW row, NEW row2, NEW own, NEW c \in Nat, Ledger(row, own), row.status = "RUNNING",
           row2.status = "RUNNING", row2.attempt = row.attempt, row2.fence = row.fence,
           row2.attemptId = row.attemptId, row2.workerId = row.workerId
    PROVE  Ledger(row2, [own EXCEPT ![row.attemptId] = [@ EXCEPT !.checkpoint = c]])
<1>. DEFINE k == row.attemptId
<1>1. PICK a : a = [own[k] EXCEPT !.checkpoint = c]
  OBVIOUS
<1>2. Running(row, own) /\ own \in Seq(AttemptRow) /\ k = Len(own) /\ k \in 1..Len(own)
      /\ own[k] \in AttemptRow
  BY DEF Ledger, Running
<1>3. a \in AttemptRow /\ a.status = own[k].status /\ a.lease = own[k].lease
      /\ a.fence = own[k].fence /\ a.worker = own[k].worker /\ a.failed = own[k].failed
  BY <1>1, <1>2 DEF AttemptRow
<1>4. PICK own2 : own2 = [own EXCEPT ![k] = a]
  OBVIOUS
<1>5. /\ own2 \in Seq(AttemptRow) /\ Len(own2) = Len(own) /\ own2[k] = a
      /\ \A n \in 1..Len(own) : n # k => own2[n] = own[n]
  BY <1>2, <1>3, <1>4
<1>6. Running(row2, own2)
  BY <1>2, <1>3, <1>5 DEF Running, Entry, Over
<1>. QED
  BY <1>1, <1>4, <1>6 DEF Ledger, Reasoned

-----------------------------------------------------------------------------
(* The steps.                                                               *)
LEMMA OneLedger ==
    ASSUME RowsOK, Ledgers, NEW j \in Jobs, NEW row, NEW own, Ledger(row, own),
           jobs' = [jobs EXCEPT ![j] = row],
           attempts \in [Jobs -> Seq(AttemptRow)],
           attempts' = [attempts EXCEPT ![j] = own]
    PROVE  Ledgers'
<1>1. jobs'[j] = row /\ \A k \in Jobs \ {j} : jobs'[k] = jobs[k]
  BY DEF RowsOK
<1>2. attempts'[j] = own /\ \A k \in Jobs \ {j} : attempts'[k] = attempts[k]
  OBVIOUS
<1>. QED
  BY <1>1, <1>2 DEF Ledgers

(* The table of attempts, for EXCEPT to mean what it says.                  *)
Tables ==
    /\ attempts \in [Jobs -> Seq(AttemptRow)]
    /\ checkpoints \in [Jobs -> [revision : Nat, progress : 0..FullProgress]]

LEMMA RowOnly ==
    ASSUME RowsOK, Ledgers, Tables, NEW j \in Jobs, NEW row,
           jobs' = [jobs EXCEPT ![j] = row], attempts' = attempts,
           row.attempt = jobs[j].attempt, row.fence = jobs[j].fence,
           \/ row.status = jobs[j].status /\ row.attemptId = jobs[j].attemptId
                                          /\ row.workerId = jobs[j].workerId
           \/ jobs[j].status # "RUNNING" /\ row.status \in {"QUEUED", "CANCELLED"}
    PROVE  Ledgers'
<1>1. Ledger(row, attempts[j])
  BY RowMovesOn DEF Ledgers
<1>2. attempts' = [attempts EXCEPT ![j] = attempts[j]]
  BY DEF Tables
<1>. QED
  BY <1>1, <1>2, OneLedger DEF Tables

LEMMA EnqueueLedgers ==
    ASSUME RowsOK, Ledgers, Tables, Enqueue
    PROVE  Ledgers'
<1>1. PICK j \in Jobs, fp \in Fingerprints, prio \in Priorities :
        \/ \E max \in Budgets : EnqueueNew(j, fp, prio, max)
        \/ EnqueueAgain(j, fp, prio)
  BY DEF Enqueue
<1>2. jobs[j] \in JobRow /\ RowOK(jobs[j])
  BY DEF RowsOK
<1>3. CASE \E max \in Budgets : EnqueueNew(j, fp, prio, max)
  <2>1. PICK max \in Budgets : EnqueueNew(j, fp, prio, max)
    BY <1>3
  <2>2. PICK row : row = QueuedRow(fp, prio, max)
    OBVIOUS
  <2>3. row.status = "QUEUED" /\ row.attempt = 0 /\ row.fence = 0
    BY <2>2 DEF QueuedRow, AbsentJob
  <2>4. jobs[j].status = "ABSENT" /\ jobs[j].attempt = 0 /\ jobs[j].fence = 0
    BY <1>2, <2>1 DEF EnqueueNew, RowOK, JobRow
  <2>5. jobs' = [jobs EXCEPT ![j] = row] /\ attempts' = attempts
    BY <2>1, <2>2 DEF EnqueueNew
  <2>. QED
    BY <2>3, <2>4, <2>5, RowOnly
<1>4. CASE EnqueueAgain(j, fp, prio)
  <2>1. PICK row : row = [jobs[j] EXCEPT !.priority = prio]
    OBVIOUS
  <2>2. /\ row.status = jobs[j].status /\ row.attempt = jobs[j].attempt
        /\ row.fence = jobs[j].fence /\ row.attemptId = jobs[j].attemptId
        /\ row.workerId = jobs[j].workerId
    BY <1>2, <2>1 DEF JobRow
  <2>3. jobs' = [jobs EXCEPT ![j] = row] /\ attempts' = attempts
    BY <1>4, <2>1 DEF EnqueueAgain, RowsOK
  <2>. QED
    BY <2>2, <2>3, RowOnly
<1>. QED
  BY <1>1, <1>3, <1>4

(* What an operator or a caller does to a row that is cancelled or retried. *)
LEMMA CommandedFields ==
    ASSUME NEW row \in JobRow
    PROVE  /\ CancelledRow(row).status = "CANCELLED" /\ CancelledRow(row).attempt = row.attempt
           /\ CancelledRow(row).fence = row.fence
           /\ CancelRequestedRow(row).status = row.status
           /\ CancelRequestedRow(row).attempt = row.attempt
           /\ CancelRequestedRow(row).fence = row.fence
           /\ CancelRequestedRow(row).attemptId = row.attemptId
           /\ CancelRequestedRow(row).workerId = row.workerId
           /\ RequeuedRow(row).status = "QUEUED" /\ RequeuedRow(row).attempt = row.attempt
           /\ RequeuedRow(row).fence = row.fence
<1>1. /\ CancelledRow(row).status = "CANCELLED" /\ CancelledRow(row).attempt = row.attempt
      /\ CancelledRow(row).fence = row.fence
  BY DEF CancelledRow, Closed, NoLease, JobRow
<1>2. /\ CancelRequestedRow(row).status = row.status
      /\ CancelRequestedRow(row).attempt = row.attempt
      /\ CancelRequestedRow(row).fence = row.fence
      /\ CancelRequestedRow(row).attemptId = row.attemptId
      /\ CancelRequestedRow(row).workerId = row.workerId
  BY DEF CancelRequestedRow, JobRow
<1>3. /\ RequeuedRow(row).status = "QUEUED" /\ RequeuedRow(row).attempt = row.attempt
      /\ RequeuedRow(row).fence = row.fence
  BY DEF RequeuedRow, JobRow
<1>. QED
  BY <1>1, <1>2, <1>3

LEMMA CancelLedgers ==
    ASSUME RowsOK, Ledgers, Tables, NEW j \in Jobs, attempts' = attempts,
           jobs' = [jobs EXCEPT ![j] = IF @.status = "RUNNING"
                                       THEN CancelRequestedRow(@) ELSE CancelledRow(@)]
    PROVE  Ledgers'
<1>1. jobs[j] \in JobRow
  BY DEF RowsOK
<1>2. PICK row : row = IF jobs[j].status = "RUNNING"
                       THEN CancelRequestedRow(jobs[j]) ELSE CancelledRow(jobs[j])
  OBVIOUS
<1>3. jobs' = [jobs EXCEPT ![j] = row]
  BY <1>2
<1>4. CASE jobs[j].status = "RUNNING"
  <2>1. /\ row.status = jobs[j].status /\ row.attempt = jobs[j].attempt
        /\ row.fence = jobs[j].fence /\ row.attemptId = jobs[j].attemptId
        /\ row.workerId = jobs[j].workerId
    BY <1>1, <1>2, <1>4, CommandedFields
  <2>. QED
    BY <1>3, <2>1, RowOnly
<1>5. CASE jobs[j].status # "RUNNING"
  <2>1. row.status = "CANCELLED" /\ row.attempt = jobs[j].attempt /\ row.fence = jobs[j].fence
    BY <1>1, <1>2, <1>5, CommandedFields
  <2>. QED
    BY <1>3, <1>5, <2>1, RowOnly
<1>. QED
  BY <1>4, <1>5

LEMMA CommandLedgers ==
    ASSUME RowsOK, Ledgers, Tables, Command
    PROVE  Ledgers'
<1>1. PICK k \in CommandKeys, j \in Jobs : \E expected \in 0..jobs[j].revision :
            \/ CancelNoop(k, j, expected) \/ CancelApplied(k, j, expected)
            \/ ManualRetry(k, j, expected)
  BY DEF Command
<1>2. PICK expected \in 0..jobs[j].revision :
            \/ CancelNoop(k, j, expected) \/ CancelApplied(k, j, expected)
            \/ ManualRetry(k, j, expected)
  BY <1>1
<1>3. CASE CancelNoop(k, j, expected)
  BY <1>3 DEF CancelNoop, Ledgers
<1>4. CASE CancelApplied(k, j, expected)
  BY <1>4, CancelLedgers DEF CancelApplied
<1>5. CASE ManualRetry(k, j, expected)
  <2>1. jobs[j] \in JobRow /\ jobs[j].status # "RUNNING"
    BY <1>5 DEF RowsOK, ManualRetry, Retryable
  <2>2. PICK row : row = RequeuedRow(jobs[j])
    OBVIOUS
  <2>3. jobs' = [jobs EXCEPT ![j] = row] /\ attempts' = attempts
    BY <1>5, <2>2 DEF ManualRetry
  <2>. QED
    BY <2>1, <2>2, <2>3, CommandedFields, RowOnly
<1>. QED
  BY <1>2, <1>3, <1>4, <1>5

LEMMA TickLedgers ==
    ASSUME RowsOK, Ledgers, Tick
    PROVE  Ledgers'
<1>. SUFFICES ASSUME NEW j \in Jobs
              PROVE  Ledger(jobs'[j], attempts'[j])
  BY DEF Ledgers
<1>1. jobs[j] \in JobRow /\ Ledger(jobs[j], attempts[j])
  BY DEF RowsOK, Ledgers
<1>2. PICK row : row = jobs'[j]
  OBVIOUS
<1>3. /\ row.status = jobs[j].status /\ row.attempt = jobs[j].attempt /\ row.fence = jobs[j].fence
      /\ row.attemptId = jobs[j].attemptId /\ row.workerId = jobs[j].workerId
  BY <1>1, <1>2 DEF Tick, AgedRow, JobRow
<1>4. attempts'[j] = attempts[j]
  BY DEF Tick
<1>. QED
  BY <1>1, <1>2, <1>3, <1>4, RowMovesOn

(* The rows that end or keep an attempt, by the columns the ledger sees.    *)
LEMMA EndedFields ==
    ASSUME NEW row \in JobRow, NEW at, NEW failure, NEW progress
    PROVE  /\ SucceededRow(row).status = "SUCCEEDED" /\ SucceededRow(row).attempt = row.attempt
           /\ SucceededRow(row).fence = row.fence
           /\ FailedRow(row, failure).status = "FAILED"
           /\ FailedRow(row, failure).attempt = row.attempt
           /\ FailedRow(row, failure).fence = row.fence
           /\ WaitingRow(row, at).status = "RETRY_WAIT" /\ WaitingRow(row, at).attempt = row.attempt
           /\ WaitingRow(row, at).fence = row.fence
<1>1. /\ SucceededRow(row).status = "SUCCEEDED" /\ SucceededRow(row).attempt = row.attempt
      /\ SucceededRow(row).fence = row.fence
  BY DEF SucceededRow, Closed, NoLease, JobRow
<1>2. /\ FailedRow(row, failure).status = "FAILED"
      /\ FailedRow(row, failure).attempt = row.attempt
      /\ FailedRow(row, failure).fence = row.fence
  BY DEF FailedRow, Closed, NoLease, JobRow
<1>3. /\ WaitingRow(row, at).status = "RETRY_WAIT" /\ WaitingRow(row, at).attempt = row.attempt
      /\ WaitingRow(row, at).fence = row.fence
  BY DEF WaitingRow, NoLease, JobRow
<1>. QED
  BY <1>1, <1>2, <1>3

LEMMA SettleLedgers ==
    ASSUME RowsOK, Ledgers, Tables, NEW j \in Jobs, NEW n, NEW row,
           NEW status \in AttemptStatuses \ {"RUNNING"},
           jobs[j].status = "RUNNING", n = jobs[j].attemptId,
           SetAttempt(j, n, status, "RELEASED"), jobs' = [jobs EXCEPT ![j] = row],
           row.attempt = jobs[j].attempt, row.fence = jobs[j].fence,
           \/ row.status = "SUCCEEDED" /\ status = "SUCCEEDED"
           \/ row.status = "CANCELLED"
           \/ row.status = "RETRY_WAIT" /\ status = "RETRYABLE_FAILED"
           \/ row.status = "FAILED" /\ status = "TERMINAL_FAILED"
    PROVE  Ledgers'
<1>1. PICK before, old : before = jobs[j] /\ old = attempts[j]
  OBVIOUS
<1>2. Running(before, old) /\ row.attempt = before.attempt /\ row.fence = before.fence
  BY <1>1 DEF Ledgers, Ledger
<1>3. PICK own : own = Settlement(old, before.attemptId, status, "RELEASED")
  OBVIOUS
<1>4. Quiet(row, own) /\ own[Len(own)].status = status
  BY <1>2, <1>3, Settles
<1>5. Ledger(row, own)
  BY <1>4 DEF Ledger, Reasoned
<1>6. attempts' = [attempts EXCEPT ![j] = own]
  BY <1>1, <1>3 DEF SetAttempt, Settlement
<1>. QED
  BY <1>5, <1>6, OneLedger DEF Tables

LEMMA FencedLedgers ==
    ASSUME RowsOK, Ledgers, Tables, Fenced
    PROVE  Ledgers'
<1>1. PICK ref \in granted, now \in Readings :
        \/ Heartbeat(ref, now)
        \/ \E p \in 0..FullProgress : SaveCheckpoint(ref, now, p)
        \/ Succeed(ref, now)
        \/ FailCancelled(ref, now)
        \/ \E d \in Delays : FailRetryable(ref, now, d)
        \/ \E r \in BOOLEAN : FailTerminal(ref, now, r)
        \/ AcknowledgeCancellation(ref, now)
        \/ RejectCancellation(ref, now)
  BY DEF Fenced
<1>2. PICK j, n : j = ref.job /\ n = ref.attempt
  OBVIOUS
<1>3. j \in Jobs /\ jobs[j] \in JobRow /\ jobs[j].status = "RUNNING" /\ n = jobs[j].attemptId
  BY <1>1, <1>2 DEF RowsOK, Reference, Heartbeat, SaveCheckpoint, Succeed, FailCancelled,
     FailRetryable, FailTerminal, AcknowledgeCancellation, RejectCancellation, ActiveLease
<1>4. {"SUCCEEDED", "CANCELLED", "RETRYABLE_FAILED", "TERMINAL_FAILED"}
        \subseteq AttemptStatuses \ {"RUNNING"}
  BY DEF AttemptStatuses
<1>5. CASE Heartbeat(ref, now)
  <2>1. PICK row : row = [jobs[j] EXCEPT !.leaseAt = now + LeaseMs]
    OBVIOUS
  <2>2. /\ row.status = jobs[j].status /\ row.attempt = jobs[j].attempt
        /\ row.fence = jobs[j].fence /\ row.attemptId = jobs[j].attemptId
        /\ row.workerId = jobs[j].workerId
    BY <1>3, <2>1 DEF JobRow
  <2>3. jobs' = [jobs EXCEPT ![j] = row] /\ attempts' = attempts
    BY <1>2, <1>5, <2>1 DEF Heartbeat, RowsOK
  <2>. QED
    BY <1>3, <2>2, <2>3, RowOnly
<1>6. CASE \E p \in 0..FullProgress : SaveCheckpoint(ref, now, p)
  <2>1. PICK p \in 0..FullProgress : SaveCheckpoint(ref, now, p)
    BY <1>6
  <2>2. PICK row, c : row = ProgressedRow(jobs[j], p) /\ c = checkpoints[j].revision + 1
    OBVIOUS
  <2>3. /\ row.status = jobs[j].status /\ row.attempt = jobs[j].attempt
        /\ row.fence = jobs[j].fence /\ row.attemptId = jobs[j].attemptId
        /\ row.workerId = jobs[j].workerId
    BY <1>3, <2>2 DEF ProgressedRow, JobRow
  <2>4. c \in Nat
    BY <1>3, <2>2 DEF Tables
  <2>5. PICK own : own = [attempts[j] EXCEPT ![n] = [@ EXCEPT !.checkpoint = c]]
    OBVIOUS
  <2>6. Ledger(row, own)
    BY <1>3, <2>3, <2>4, <2>5, Notes DEF Ledgers
  <2>7. jobs' = [jobs EXCEPT ![j] = row] /\ attempts' = [attempts EXCEPT ![j] = own]
    BY <1>2, <2>1, <2>2, <2>5 DEF SaveCheckpoint
  <2>. QED
    BY <1>3, <2>6, <2>7, OneLedger DEF Tables
<1>7. CASE Succeed(ref, now)
  <2>1. PICK row : row = SucceededRow(jobs[j])
    OBVIOUS
  <2>2. jobs' = [jobs EXCEPT ![j] = row] /\ SetAttempt(j, n, "SUCCEEDED", "RELEASED")
    BY <1>2, <1>7, <2>1 DEF Succeed
  <2>3. row.status = "SUCCEEDED" /\ row.attempt = jobs[j].attempt /\ row.fence = jobs[j].fence
    BY <1>3, <2>1, EndedFields
  <2>. QED
    BY <1>3, <1>4, <2>2, <2>3, SettleLedgers
<1>8. CASE FailCancelled(ref, now) \/ AcknowledgeCancellation(ref, now)
  <2>1. PICK row : row = CancelledRow(jobs[j])
    OBVIOUS
  <2>2. jobs' = [jobs EXCEPT ![j] = row] /\ SetAttempt(j, n, "CANCELLED", "RELEASED")
    BY <1>2, <1>8, <2>1 DEF FailCancelled, AcknowledgeCancellation
  <2>3. row.status = "CANCELLED" /\ row.attempt = jobs[j].attempt /\ row.fence = jobs[j].fence
    BY <1>3, <2>1, CommandedFields
  <2>. QED
    BY <1>3, <1>4, <2>2, <2>3, SettleLedgers
<1>9. CASE \E d \in Delays : FailRetryable(ref, now, d)
  <2>1. PICK d \in Delays : FailRetryable(ref, now, d)
    BY <1>9
  <2>2. PICK row : row = WaitingRow(jobs[j], now + d)
    OBVIOUS
  <2>3. jobs' = [jobs EXCEPT ![j] = row] /\ SetAttempt(j, n, "RETRYABLE_FAILED", "RELEASED")
    BY <1>2, <2>1, <2>2 DEF FailRetryable
  <2>4. row.status = "RETRY_WAIT" /\ row.attempt = jobs[j].attempt /\ row.fence = jobs[j].fence
    BY <1>3, <2>2, EndedFields
  <2>. QED
    BY <1>3, <1>4, <2>3, <2>4, SettleLedgers
<1>10. CASE \E r \in BOOLEAN : FailTerminal(ref, now, r)
  <2>1. PICK r \in BOOLEAN : FailTerminal(ref, now, r)
    BY <1>10
  <2>2. PICK row : row = FailedRow(jobs[j], IF r THEN "RETRYABLE" ELSE "FINAL")
    OBVIOUS
  <2>3. jobs' = [jobs EXCEPT ![j] = row] /\ SetAttempt(j, n, "TERMINAL_FAILED", "RELEASED")
    BY <1>2, <2>1, <2>2 DEF FailTerminal
  <2>4. row.status = "FAILED" /\ row.attempt = jobs[j].attempt /\ row.fence = jobs[j].fence
    BY <1>3, <2>2, EndedFields
  <2>. QED
    BY <1>3, <1>4, <2>3, <2>4, SettleLedgers
<1>11. CASE RejectCancellation(ref, now)
  <2>1. PICK row : row = RefusedRow(jobs[j])
    OBVIOUS
  <2>2. /\ row.status = jobs[j].status /\ row.attempt = jobs[j].attempt
        /\ row.fence = jobs[j].fence /\ row.attemptId = jobs[j].attemptId
        /\ row.workerId = jobs[j].workerId
    BY <1>3, <2>1 DEF RefusedRow, JobRow
  <2>3. jobs' = [jobs EXCEPT ![j] = row] /\ attempts' = attempts
    BY <1>2, <1>11, <2>1 DEF RejectCancellation
  <2>. QED
    BY <1>3, <2>2, <2>3, RowOnly
<1>. QED
  BY <1>1, <1>5, <1>6, <1>7, <1>8, <1>9, <1>10, <1>11

(* claimNext: the rows it settles, and the one it leases.                   *)
LEMMA ExpiredIsQuiet ==
    ASSUME RowsOK, Ledgers, NEW j \in Jobs, jobs[j].status = "RUNNING", NEW row,
           row.attempt = jobs[j].attempt, row.fence = jobs[j].fence
    PROVE  /\ Quiet(row, ExpireAttempt(j))
           /\ ExpireAttempt(j)[Len(ExpireAttempt(j))].status = "LEASE_LOST"
<1>1. PICK before, old : before = jobs[j] /\ old = attempts[j]
  OBVIOUS
<1>2. Running(before, old)
  BY <1>1 DEF Ledgers, Ledger
<1>3. PICK own : own = Settlement(old, before.attemptId, "LEASE_LOST", "EXPIRED")
  OBVIOUS
<1>4. own = ExpireAttempt(j)
  BY <1>1, <1>3 DEF ExpireAttempt, Settlement
<1>5. "LEASE_LOST" \in AttemptStatuses \ {"RUNNING"}
  BY DEF AttemptStatuses
<1>6. Quiet(row, own) /\ own[Len(own)].status = "LEASE_LOST"
  BY <1>1, <1>2, <1>3, <1>5, Settles
<1>. QED
  BY <1>4, <1>6

LEMMA AbandonedLedger ==
    ASSUME RowsOK, Ledgers, NEW j \in Jobs, NEW now, Doomed(j, now)
    PROVE  Ledger(Abandoned(jobs[j]), ExpireAttempt(j))
<1>1. jobs[j] \in JobRow /\ jobs[j].status = "RUNNING"
  BY DEF RowsOK, Doomed, Expired
<1>2. PICK row, own : row = Abandoned(jobs[j]) /\ own = ExpireAttempt(j)
  OBVIOUS
<1>3. /\ row.status \in {"CANCELLED", "FAILED"} /\ row.attempt = jobs[j].attempt
      /\ row.fence = jobs[j].fence
  BY <1>1, <1>2, CommandedFields, EndedFields DEF Abandoned
<1>4. Quiet(row, own) /\ own[Len(own)].status = "LEASE_LOST"
  BY <1>1, <1>2, <1>3, ExpiredIsQuiet
<1>. QED
  BY <1>2, <1>3, <1>4 DEF Ledger, Reasoned

LEMMA LeasedLedger ==
    ASSUME RowsOK, Ledgers, Tables, NEW j \in Jobs, NEW w \in Workers, NEW now \in Readings,
           Due(j, now)
    PROVE  Ledger(Leased(jobs[j], w, now), Append(AttemptsAfter(j, now), NewAttempt(j, w)))
<1>1. PICK before, row, own, a : /\ before = jobs[j] /\ row = Leased(jobs[j], w, now)
                                 /\ own = AttemptsAfter(j, now) /\ a = NewAttempt(j, w)
  OBVIOUS
<1>2. before \in JobRow /\ before.attempt \in Nat /\ before.fence \in Nat /\ before.fence + 1 \in Nat
  BY <1>1, Counters DEF RowsOK, JobRow
<1>3. Quiet(before, own)
  <2>1. CASE Expired(j, now)
    BY <1>1, <2>1, ExpiredIsQuiet DEF AttemptsAfter, Expired
  <2>2. CASE ~Expired(j, now)
    <3>1. before.status # "RUNNING" /\ own = attempts[j]
      BY <1>1, <2>2 DEF Due, AttemptsAfter
    <3>. QED
      BY <1>1, <3>1 DEF Ledgers, Ledger
  <2>. QED
    BY <2>1, <2>2
<1>4. checkpoints[j].revision \in Nat
  BY DEF Tables
<1>5. /\ a \in AttemptRow /\ a.worker = w /\ a.fence = before.fence + 1 /\ a.status = "RUNNING"
      /\ a.lease = "ACTIVE" /\ a.failed = FALSE
  BY <1>1, <1>2, <1>4 DEF NewAttempt, AttemptRow, AttemptStatuses
<1>6. /\ row.status = "RUNNING" /\ row.attempt = before.attempt + 1
      /\ row.fence = before.fence + 1 /\ row.attemptId = before.attempt + 1 /\ row.workerId = w
  BY <1>1, <1>2 DEF Leased, JobRow
<1>7. Ledger(row, Append(own, a))
  BY <1>2, <1>3, <1>5, <1>6, Begins
<1>. QED
  BY <1>1, <1>7

LEMMA ClaimLedgers ==
    ASSUME RowsOK, Ledgers, Tables, Claim
    PROVE  Ledgers'
<1>1. PICK w \in Workers, now \in Readings, settled \in SUBSET Jobs :
        \/ \E c \in Jobs : ClaimNext(w, now, settled, c)
        \/ ClaimEmpty(now, settled)
  BY DEF Claim
<1>2. CASE \E c \in Jobs : ClaimNext(w, now, settled, c)
  <2>1. PICK c \in Jobs : ClaimNext(w, now, settled, c)
    BY <1>2
  <2>. SUFFICES ASSUME NEW j \in Jobs
                PROVE  Ledger(jobs'[j], attempts'[j])
    BY DEF Ledgers
  <2>2. CASE j = c
    <3>1. jobs'[j] = Leased(jobs[j], w, now)
      BY <2>1, <2>2 DEF ClaimNext
    <3>2. attempts'[j] = Append(AttemptsAfter(j, now), NewAttempt(j, w))
      BY <2>1, <2>2 DEF ClaimNext
    <3>3. Due(j, now)
      BY <2>1, <2>2 DEF ClaimNext
    <3>. QED
      BY <3>1, <3>2, <3>3, LeasedLedger
  <2>3. CASE j # c /\ j \in settled
    <3>1. jobs'[j] = Abandoned(jobs[j]) /\ attempts'[j] = ExpireAttempt(j) /\ Doomed(j, now)
      BY <2>1, <2>3 DEF ClaimNext
    <3>. QED
      BY <3>1, AbandonedLedger
  <2>4. CASE j # c /\ j \notin settled
    <3>1. jobs'[j] = jobs[j] /\ attempts'[j] = attempts[j]
      BY <2>1, <2>4 DEF ClaimNext
    <3>. QED
      BY <3>1 DEF Ledgers
  <2>. QED
    BY <2>2, <2>3, <2>4
<1>3. CASE ClaimEmpty(now, settled)
  <2>. SUFFICES ASSUME NEW j \in Jobs
                PROVE  Ledger(jobs'[j], attempts'[j])
    BY DEF Ledgers
  <2>1. CASE j \in settled
    <3>1. jobs'[j] = Abandoned(jobs[j]) /\ attempts'[j] = ExpireAttempt(j) /\ Doomed(j, now)
      BY <1>3, <2>1 DEF ClaimEmpty
    <3>. QED
      BY <3>1, AbandonedLedger
  <2>2. CASE j \notin settled
    <3>1. jobs'[j] = jobs[j] /\ attempts'[j] = attempts[j]
      BY <1>3, <2>2 DEF ClaimEmpty
    <3>. QED
      BY <3>1 DEF Ledgers
  <2>. QED
    BY <2>1, <2>2
<1>. QED
  BY <1>1, <1>2, <1>3

LEMMA LedgersStep ==
    ASSUME RowsOK, Ledgers, Tables, [Next]_vars
    PROVE  Ledgers'
<1>1. CASE \E j \in Jobs : RequestCancellation(j)
  BY <1>1, CancelLedgers DEF RequestCancellation
<1>2. CASE UNCHANGED vars
  BY <1>2 DEF vars, Ledgers
<1>. QED
  BY <1>1, <1>2, EnqueueLedgers, ClaimLedgers, FencedLedgers, CommandLedgers, TickLedgers DEF Next

LEMMA TablesStep ==
    ASSUME RowsOK, Tables, Ledgers', [Next]_vars
    PROVE  Tables'
<1>1. attempts' = [j \in Jobs |-> attempts'[j]]
  <2>1. CASE UNCHANGED attempts
    BY <2>1 DEF Tables
  <2>2. CASE Claim
    <3>1. PICK w \in Workers, now \in Readings, settled \in SUBSET Jobs :
            \/ \E c \in Jobs : ClaimNext(w, now, settled, c)
            \/ ClaimEmpty(now, settled)
      BY <2>2 DEF Claim
    <3>2. ASSUME NEW c \in Jobs, ClaimNext(w, now, settled, c)
          PROVE  attempts' = [j \in Jobs |-> attempts'[j]]
      <4>1. PICK after : after = [j \in Jobs |->
                      IF j = c THEN Append(AttemptsAfter(j, now), NewAttempt(j, w))
                      ELSE IF j \in settled THEN ExpireAttempt(j)
                      ELSE attempts[j]]
        OBVIOUS
      <4>2. attempts' = after
        BY <3>2, <4>1 DEF ClaimNext
      <4>3. after = [j \in Jobs |-> after[j]]
        BY <4>1
      <4>. QED
        BY <4>2, <4>3
    <3>3. ASSUME ClaimEmpty(now, settled)
          PROVE  attempts' = [j \in Jobs |-> attempts'[j]]
      <4>1. PICK after : after = [j \in Jobs |-> IF j \in settled THEN ExpireAttempt(j)
                                                 ELSE attempts[j]]
        OBVIOUS
      <4>2. attempts' = after
        BY <3>3, <4>1 DEF ClaimEmpty
      <4>3. after = [j \in Jobs |-> after[j]]
        BY <4>1
      <4>. QED
        BY <4>2, <4>3
    <3>. QED
      BY <3>1, <3>2, <3>3
  <2>3. CASE Fenced
    <3>1. \A j, n, status, lease : SetAttempt(j, n, status, lease) =>
             attempts' = [k \in Jobs |-> attempts'[k]]
      BY DEF SetAttempt, Tables
    <3>2. ASSUME NEW ref \in granted, NEW now \in Readings, NEW p \in 0..FullProgress,
                 SaveCheckpoint(ref, now, p)
          PROVE  attempts' = [k \in Jobs |-> attempts'[k]]
      BY <3>2 DEF SaveCheckpoint, Tables
    <3>. QED
      BY <2>1, <2>3, <3>1, <3>2 DEF Fenced, Heartbeat, Succeed, FailCancelled, FailRetryable,
         FailTerminal, AcknowledgeCancellation, RejectCancellation
  <2>. QED
    BY <2>1, <2>2, <2>3 DEF Next, vars, Enqueue, EnqueueNew, EnqueueAgain, Command, CancelNoop,
       CancelApplied, ManualRetry, RequestCancellation, Tick
<1>2. \A j \in Jobs : attempts'[j] \in Seq(AttemptRow)
  BY DEF Ledgers, Ledger, Running, Quiet
<1>3. checkpoints' \in [Jobs -> [revision : Nat, progress : 0..FullProgress]]
  <2>1. CASE UNCHANGED checkpoints
    BY <2>1 DEF Tables
  <2>2. ASSUME NEW ref \in granted, NEW now \in Readings, NEW p \in 0..FullProgress,
               SaveCheckpoint(ref, now, p)
        PROVE  checkpoints' \in [Jobs -> [revision : Nat, progress : 0..FullProgress]]
    <3>1. ref.job \in Jobs
      BY DEF RowsOK, Reference
    <3>2. checkpoints[ref.job].revision + 1 \in Nat
      BY <3>1 DEF Tables
    <3>. QED
      BY <2>2, <3>1, <3>2 DEF SaveCheckpoint, Tables
  <2>3. CASE Enqueue \/ Tick \/ (\E j \in Jobs : RequestCancellation(j)) \/ UNCHANGED vars
    BY <2>1, <2>3 DEF Enqueue, EnqueueNew, EnqueueAgain, Tick, RequestCancellation, vars
  <2>4. CASE Claim
    <3>1. \A w, now, settled, c : ClaimNext(w, now, settled, c) => UNCHANGED checkpoints
      BY DEF ClaimNext
    <3>2. \A now, settled : ClaimEmpty(now, settled) => UNCHANGED checkpoints
      BY DEF ClaimEmpty
    <3>. QED
      BY <2>1, <2>4, <3>1, <3>2 DEF Claim
  <2>5. CASE Command
    BY <2>1, <2>5 DEF Command, CancelNoop, CancelApplied, ManualRetry
  <2>6. CASE Fenced
    BY <2>1, <2>2, <2>6 DEF Fenced, Heartbeat, Succeed, FailCancelled, FailRetryable,
       FailTerminal, AcknowledgeCancellation, RejectCancellation
  <2>. QED
    BY <2>3, <2>4, <2>5, <2>6 DEF Next
<1>. QED
  BY <1>1, <1>2, <1>3 DEF Tables

(* durable_jobs and durable_job_attempts never disagree: claimNext and the  *)
(* fenced operations write both, and only the newest attempt can be open.   *)
THEOREM AttemptLedgerHolds == Spec => []AttemptLedger
<1>1. Init => Ledgers /\ Tables
  <2>. SUFFICES ASSUME Init
                PROVE  Ledgers /\ Tables
    OBVIOUS
  <2>1. Tables
    <3>1. 0 \in 0..FullProgress
      BY StoreAssumption
    <3>2. <<>> \in Seq(AttemptRow)
      OBVIOUS
    <3>. QED
      BY <3>1, <3>2 DEF Init, Tables
  <2>2. \A j \in Jobs : jobs[j].status = "ABSENT" /\ jobs[j].attempt = 0 /\ attempts[j] = <<>>
    BY DEF Init, AbsentJob
  <2>. QED
    <3>1. <<>> \in Seq(AttemptRow) /\ Len(<<>>) = 0 /\ 1..0 = {}
      OBVIOUS
    <3>2. \A j \in Jobs : Quiet(jobs[j], attempts[j])
      BY <2>2, <3>1 DEF Quiet
    <3>3. ASSUME NEW j \in Jobs
          PROVE  Ledger(jobs[j], attempts[j])
      BY <2>2, <3>2 DEF Ledger, Reasoned
    <3>4. Ledgers
      BY <3>3 DEF Ledgers
    <3>. QED
      BY <2>1, <3>4
<1>2. RowsOK /\ Ledgers /\ Tables /\ [Next]_vars => (Ledgers /\ Tables)'
  BY LedgersStep, TablesStep
<1>3. RowsOK /\ Ledgers => AttemptLedger
  BY LedgersSuffice
<1>. QED
  BY <1>1, <1>2, <1>3, RowsAlwaysOK, PTL DEF Spec

=============================================================================
