------------------------- MODULE KnowledgeCompilation -------------------------
(***************************************************************************)
(* How captured events become snapshots with a candidate preview.           *)
(*                                                                         *)
(* The scan of packages/knowledge-compilation-scheduler (service.ts,         *)
(* decision.ts, sqlite-checkpoint.ts) decides when a session is worth         *)
(* compiling and, through the durable adapter of apps/sidecar/src/p2-preview- *)
(* coordinator.ts, enqueues a compile job for a range of its ledger.  The     *)
(* evolution worker runs the job (apps/sidecar/src/p2-evolution-jobs.ts,      *)
(* packages/knowledge-evolution-jobs/src/compile.ts): the coordinator takes   *)
(* an immutable snapshot of the range (packages/session-extraction) and       *)
(* enqueues its preview.  A user may ask for the same through the console     *)
(* at any moment.                                                            *)
(*                                                                         *)
(* Checkpoints, jobs, snapshots and previews are rows; scans and coordinate   *)
(* calls are memory.  Between two awaits of a call others may act: every      *)
(* inspection of the transcript file ends a step.  One pipeline identity; a   *)
(* session's sequence numbers count its own events; one process, one scan at   *)
(* a time (KnowledgeCompilationScheduler.trigger), one compile job at a time  *)
(* (the loop of P2EvolutionRuntime).                                         *)
(***************************************************************************)
EXTENDS Integers, Sequences, FiniteSets

CONSTANTS
    NULL,
    Sessions,
    Clients,          \* console users asking for an extraction
    MinimumNewEvents, \* minimumNewEvents of the configuration
    MaxOutstanding,   \* maxOutstandingJobs of the configuration
    MaxAttempts,      \* attempts of a compile job
    MaxLength,        \* bound: records of a transcript
    MaxRequests,      \* bound: extractions asked for by clients
    MaxCrashes        \* bound: crashes of the process

ASSUME CompilationAssumption ==
    /\ MinimumNewEvents \in Nat \ {0} /\ MaxOutstanding \in Nat \ {0}
    /\ MaxAttempts \in Nat \ {0} /\ MaxLength \in Nat
    /\ MaxRequests \in Nat /\ MaxCrashes \in Nat
    /\ NULL \notin Sessions \cup Clients

Worker == "evolution worker"

ASSUME WorkerAssumption == Worker \notin Clients

Callers == Clients \cup {Worker}

VARIABLES
    file,      \* records of the transcript file
    cursor,    \* records behind the ingestion cursor
    unread,    \* events among the records the cursor has not passed
    ledger,    \* events of the session in the ledger
    quiet,     \* nothing happened for idleAfterMs (or maximumWaitMs is over)
    compiled,  \* checkpoint: lastCompiledLedgerSequence, 0 before the first
    scan,      \* the scan in progress
    jobs,      \* compile jobs, by idempotency key
    snapshots, \* of each session, oldest first
    previews,  \* preview jobs, by snapshot
    calls,     \* coordinate calls in progress
    requests, crashes

source == <<file, cursor, unread, ledger, quiet>>
vars == <<source, compiled, scan, jobs, snapshots, previews, calls, requests, crashes>>

Length == 0..MaxLength
JobKey == [session : Sessions, from : Length, to : Length]
Snapshot == [session : Sessions, from : Length, to : Length, mark : Length]
Statuses == {"QUEUED", "RUNNING", "SUCCEEDED", "FAILED"}
Outstanding == {"QUEUED", "RUNNING"}

Scan == [todo : SUBSET Sessions, version : [Sessions -> Length],
         limit : 0..MaxOutstanding, step : {"next", "validate", "plan", "record"},
         session : Sessions \cup {NULL}, expected : Length, queued : BOOLEAN]
Call == [session : Sessions, expected : Length, job : JobKey \cup {NULL},
         step : {"plan", "inspect", "observe", "put", "preview"},
         from : Length, mark : Length]

TypeOK ==
    /\ file \in [Sessions -> Length] /\ cursor \in [Sessions -> Length]
    /\ unread \in [Sessions -> Length] /\ ledger \in [Sessions -> Length]
    /\ quiet \in [Sessions -> BOOLEAN] /\ compiled \in [Sessions -> Length]
    /\ scan \in Scan \cup {NULL}
    /\ DOMAIN jobs \subseteq JobKey
    /\ \A k \in DOMAIN jobs : jobs[k] \in [status : Statuses, attempt : 0..MaxAttempts]
    /\ snapshots \in [Sessions -> Seq(Snapshot)]
    /\ DOMAIN previews \subseteq Snapshot
    /\ \A sn \in DOMAIN previews : previews[sn] \in {"QUEUED", "DONE"}
    /\ calls \in [Callers -> Call \cup {NULL}]
    /\ calls[Worker] # NULL => calls[Worker].job \in DOMAIN jobs
    /\ requests \in 0..MaxRequests /\ crashes \in 0..MaxCrashes

Init ==
    /\ file = [s \in Sessions |-> 0] /\ cursor = file
    /\ unread = file /\ ledger = file /\ compiled = file
    /\ quiet = [s \in Sessions |-> FALSE]
    /\ scan = NULL /\ jobs = << >>
    /\ snapshots = [s \in Sessions |-> << >>] /\ previews = << >>
    /\ calls = [c \in Callers |-> NULL]
    /\ requests = 0 /\ crashes = 0

With(f, x, y) == [z \in DOMAIN f \cup {x} |-> IF z = x THEN y ELSE f[z]]

-----------------------------------------------------------------------------
(* What others do to a session.                                            *)

\* A record is appended to the transcript; not every record is an event.
Write(s, event) ==
    /\ file[s] < MaxLength
    /\ file' = [file EXCEPT ![s] = @ + 1]
    /\ unread' = [unread EXCEPT ![s] = IF event THEN @ + 1 ELSE @]
    /\ quiet' = [quiet EXCEPT ![s] = FALSE]
    /\ UNCHANGED <<cursor, ledger, compiled, scan, jobs, snapshots, previews, calls, requests, crashes>>

\* The capture of AutomaticIngestion, in one step.
Capture(s) ==
    /\ cursor[s] # file[s]
    /\ cursor' = [cursor EXCEPT ![s] = file[s]]
    /\ ledger' = [ledger EXCEPT ![s] = @ + unread[s]]
    /\ unread' = [unread EXCEPT ![s] = 0]
    /\ UNCHANGED <<file, quiet, compiled, scan, jobs, snapshots, previews, calls, requests, crashes>>

Rest(s) ==
    /\ ~quiet[s]
    /\ quiet' = [quiet EXCEPT ![s] = TRUE]
    /\ UNCHANGED <<file, cursor, unread, ledger, compiled, scan, jobs, snapshots, previews, calls, requests, crashes>>

Current(s) == cursor[s] = file[s]
LastSnapshot(s) == snapshots[s][Len(snapshots[s])]
LastTo(s) == IF snapshots[s] = << >> THEN 0 ELSE LastSnapshot(s).to

-----------------------------------------------------------------------------
(* The scan: KnowledgeCompilationService.runOnce.                           *)

\* Mutant of OutstandingJobs: jobs that wait or run are not counted.
OutstandingJobsQueuedOnly ==
    Cardinality({k \in DOMAIN jobs : jobs[k].status = "QUEUED"})
    + Cardinality({sn \in DOMAIN previews : previews[sn] = "QUEUED"})

OutstandingJobs ==
    Cardinality({k \in DOMAIN jobs : jobs[k].status \in Outstanding})
    + Cardinality({sn \in DOMAIN previews : previews[sn] = "QUEUED"})

\* Read once when a scan begins.
Capacity == IF OutstandingJobs < MaxOutstanding THEN MaxOutstanding - OutstandingJobs ELSE 0

\* The capacity is read once; the page lists the sessions with what the catalog
\* knows of each.
StartScan ==
    /\ scan = NULL
    /\ Capacity > 0
    /\ \E s \in Sessions : Current(s)
    /\ scan' = [todo |-> {s \in Sessions : Current(s)}, version |-> file,
                limit |-> Capacity, step |-> "next",
                session |-> NULL, expected |-> 0, queued |-> FALSE]
    /\ UNCHANGED <<source, compiled, jobs, snapshots, previews, calls, requests, crashes>>

\* Mutant of Eligible: one more event is needed.
EligibleAboveMinimum(s, prompt) ==
    /\ ledger[s] - compiled[s] > MinimumNewEvents
    /\ prompt \/ quiet[s]

\* evaluateKnowledgeCompilationTrigger: the thresholds come before the triggers;
\* a session.ended event or enough turns (prompt) need not wait.
Eligible(s, prompt) ==
    LET newEvents == ledger[s] - compiled[s] IN
    /\ newEvents > 0
    /\ newEvents >= MinimumNewEvents
    /\ prompt \/ quiet[s]

\* The scan is through with a session; the checkpoint says so.
Done(s) == [scan EXCEPT !.todo = @ \ {s}, !.step = "next", !.session = NULL,
                        !.expected = 0, !.queued = FALSE]

\* Mutant of Stale: a lost compare-and-swap counts as won.
StaleClaimed(s) == [scan EXCEPT !.step = "record"]

\* STALE: RETRY_WAIT, and the checkpoint keeps what it claimed before.
Stale(s) == Done(s)

ProcessSession(s, prompt) ==
    /\ scan # NULL /\ scan.step = "next" /\ scan.limit > 0 /\ s \in scan.todo
    /\ scan' = IF Eligible(s, prompt)
               THEN [scan EXCEPT !.session = s, !.step = "validate", !.expected = ledger[s]]
               ELSE Done(s)
    /\ UNCHANGED <<source, compiled, jobs, snapshots, previews, calls, requests, crashes>>

Scanning(step) == scan # NULL /\ scan.step = step

\* validate and the first comparison of plan.
Validate ==
    /\ Scanning("validate")
    /\ LET s == scan.session IN
       scan' = IF Current(s) /\ file[s] = scan.version[s] /\ ledger[s] = scan.expected
               THEN [scan EXCEPT !.step = "plan"]
               ELSE Stale(s)
    /\ UNCHANGED <<source, compiled, jobs, snapshots, previews, calls, requests, crashes>>

\* The rest of plan, after the inspection of the file, and the enqueue of the
\* durable adapter: a known key returns the job there is, whatever its status.
DispatchPreview ==
    /\ Scanning("plan")
    /\ LET s == scan.session
           key == [session |-> s, from |-> LastTo(s) + 1, to |-> scan.expected] IN
       \/ /\ ~Current(s)
          /\ scan' = Stale(s) /\ UNCHANGED jobs
       \/ /\ Current(s) /\ LastTo(s) >= scan.expected
          /\ scan' = [scan EXCEPT !.step = "record"] /\ UNCHANGED jobs
       \/ /\ Current(s) /\ LastTo(s) < scan.expected
          /\ jobs' = IF key \in DOMAIN jobs THEN jobs
                     ELSE With(jobs, key, [status |-> "QUEUED", attempt |-> 0])
          /\ scan' = [scan EXCEPT !.step = "record", !.queued = TRUE]
    /\ UNCHANGED <<source, compiled, snapshots, previews, calls, requests, crashes>>

\* compareAndSwap of the checkpoint; the scan is its only writer.
Record ==
    /\ Scanning("record")
    /\ compiled' = [compiled EXCEPT ![scan.session] = scan.expected]
    /\ scan' = [Done(scan.session) EXCEPT !.limit = IF scan.queued THEN @ - 1 ELSE @]
    /\ UNCHANGED <<source, jobs, snapshots, previews, calls, requests, crashes>>

EndScan ==
    /\ Scanning("next") /\ (scan.todo = {} \/ scan.limit = 0)
    /\ scan' = NULL
    /\ UNCHANGED <<source, compiled, jobs, snapshots, previews, calls, requests, crashes>>

-----------------------------------------------------------------------------
(* P2CandidatePreviewCoordinator.coordinate, for a client or the worker.     *)

NewCall(s, expected, key) ==
    [session |-> s, expected |-> expected, job |-> key, step |-> "plan", from |-> 0, mark |-> 0]

\* #startPreview: a client names the ledger revision it has seen.  (With no event
\* there the answer is INELIGIBLE.)
Extract(c, s) ==
    /\ calls[c] = NULL /\ requests < MaxRequests /\ ledger[s] > 0
    /\ requests' = requests + 1
    /\ calls' = [calls EXCEPT ![c] = NewCall(s, ledger[s], NULL)]
    /\ UNCHANGED <<source, compiled, scan, jobs, snapshots, previews, crashes>>

Retried(job) == [job EXCEPT !.status = IF job.attempt < MaxAttempts THEN "QUEUED" ELSE "FAILED"]

\* The worker takes a job; a ledger that has moved on is STALE at once.
RunJob(k) ==
    /\ calls[Worker] = NULL /\ jobs[k].status = "QUEUED"
    /\ LET taken == [status |-> "RUNNING", attempt |-> jobs[k].attempt + 1] IN
       IF ledger[k.session] = k.to
       THEN /\ jobs' = [jobs EXCEPT ![k] = taken]
            /\ calls' = [calls EXCEPT ![Worker] = NewCall(k.session, k.to, k)]
       ELSE /\ jobs' = [jobs EXCEPT ![k] = Retried(taken)]
            /\ UNCHANGED calls
    /\ UNCHANGED <<source, compiled, scan, snapshots, previews, requests, crashes>>

At(c, step) == calls[c] # NULL /\ calls[c].step = step
Advance(c, call) == calls' = [calls EXCEPT ![c] = call]

\* A call ends; the job of the worker's call is settled with it.
Return(c, outcome) ==
    /\ calls' = [calls EXCEPT ![c] = NULL]
    /\ jobs' = IF c # Worker THEN jobs
               ELSE [jobs EXCEPT ![calls[c].job] =
                        IF outcome = "RETRY" THEN Retried(@) ELSE [@ EXCEPT !.status = outcome]]

Enqueued(sn) == IF sn \in DOMAIN previews THEN previews ELSE With(previews, sn, "QUEUED")

InRange(sn, key) == sn.from = key.from /\ sn.to = key.to

\* Mutant of CurrentOutcome: an older preview will do.
CurrentOutcomeTrusting(call) ==
    IF InRange(LastSnapshot(call.session), call.job) THEN "SUCCEEDED" ELSE "FAILED"

\* startOrResume when the plan says CURRENT: the last snapshot must be the job's
\* and have its preview; the background does not enqueue one.
CurrentOutcome(call) ==
    LET sn == LastSnapshot(call.session) IN
    IF ~InRange(sn, call.job) THEN "FAILED"
    ELSE IF sn \in DOMAIN previews THEN "SUCCEEDED" ELSE "RETRY"

\* After plan's inspection.  CURRENT: the client's answer re-enqueues the preview
\* of the last snapshot.
Plan(c) ==
    /\ At(c, "plan")
    /\ LET call == calls[c]
           s == call.session IN
       \/ /\ ~Current(s)
          /\ Return(c, "RETRY") /\ UNCHANGED previews
       \/ /\ Current(s) /\ LastTo(s) < call.expected
          /\ Advance(c, [call EXCEPT !.step = "inspect", !.from = LastTo(s) + 1])
          /\ UNCHANGED <<jobs, previews>>
       \/ /\ Current(s) /\ LastTo(s) >= call.expected
          /\ IF c # Worker
             THEN Return(c, NULL) /\ previews' = Enqueued(LastSnapshot(s))
             ELSE Return(c, CurrentOutcome(call)) /\ UNCHANGED previews
    /\ UNCHANGED <<source, compiled, scan, snapshots, requests, crashes>>

\* The second inspection gives the snapshot its cursor; it is compared with
\* nothing.
Inspect(c) ==
    /\ At(c, "inspect")
    /\ Advance(c, [calls[c] EXCEPT !.step = "observe", !.mark = file[calls[c].session]])
    /\ UNCHANGED <<source, compiled, scan, jobs, snapshots, previews, requests, crashes>>

\* The third one, by the snapshot source, compares the cursor again.
Observe(c) ==
    /\ At(c, "observe")
    /\ IF file[calls[c].session] = calls[c].mark
       THEN Advance(c, [calls[c] EXCEPT !.step = "put"]) /\ UNCHANGED jobs
       ELSE Return(c, "RETRY")
    /\ UNCHANGED <<source, compiled, scan, snapshots, previews, requests, crashes>>

\* Mutant of Unchanged: the last snapshot is not compared.
UnchangedForgotten(call) == TRUE

\* The capture revision is compared with the planned one as the row is written.
Unchanged(call) == ledger[call.session] = call.expected

Taken(call) == [session |-> call.session, from |-> call.from, to |-> call.expected, mark |-> call.mark]

\* createSnapshot: its identity is the range and the cursor.
Put(c) ==
    /\ At(c, "put")
    /\ LET call == calls[c]
           s == call.session IN
       \/ /\ Unchanged(call)
          /\ snapshots' = IF \E i \in DOMAIN snapshots[s] : snapshots[s][i] = Taken(call)
                          THEN snapshots
                          ELSE [snapshots EXCEPT ![s] = Append(@, Taken(call))]
          /\ Advance(c, [call EXCEPT !.step = "preview"])
          /\ UNCHANGED jobs
       \/ /\ ~Unchanged(call)
          /\ Return(c, "RETRY") /\ UNCHANGED snapshots
    /\ UNCHANGED <<source, compiled, scan, previews, requests, crashes>>

\* enqueueCandidatePreview; then the job's range is compared with the snapshot's.
EnqueuePreview(c) ==
    /\ At(c, "preview")
    /\ previews' = Enqueued(Taken(calls[c]))
    /\ Return(c, IF c = Worker /\ InRange(Taken(calls[c]), calls[c].job) THEN "SUCCEEDED" ELSE "FAILED")
    /\ UNCHANGED <<source, compiled, scan, snapshots, requests, crashes>>

Coordinate(c) == Plan(c) \/ Inspect(c) \/ Observe(c) \/ Put(c) \/ EnqueuePreview(c)

\* The knowledge worker is through with a preview, well or badly.
FinishPreview(sn) ==
    /\ previews[sn] = "QUEUED"
    /\ previews' = [previews EXCEPT ![sn] = "DONE"]
    /\ UNCHANGED <<source, compiled, scan, jobs, snapshots, calls, requests, crashes>>

\* The process dies.  The job it was running is recovered once its lease is over.
Crash ==
    /\ crashes < MaxCrashes
    /\ crashes' = crashes + 1
    /\ scan' = NULL
    /\ calls' = [c \in Callers |-> NULL]
    /\ jobs' = [k \in DOMAIN jobs |-> IF jobs[k].status = "RUNNING" THEN Retried(jobs[k]) ELSE jobs[k]]
    /\ UNCHANGED <<source, compiled, snapshots, previews, requests>>

-----------------------------------------------------------------------------
Scheduler == StartScan \/ Validate \/ DispatchPreview \/ Record \/ EndScan

Next ==
    \/ \E s \in Sessions :
          \/ \E event \in BOOLEAN : Write(s, event)
          \/ Capture(s)
          \/ Rest(s)
          \/ \E prompt \in BOOLEAN : ProcessSession(s, prompt)
          \/ \E c \in Clients : Extract(c, s)
    \/ Scheduler
    \/ \E k \in DOMAIN jobs : RunJob(k)
    \/ \E c \in Callers : Coordinate(c)
    \/ \E sn \in DOMAIN previews : FinishPreview(sn)
    \/ Crash

\* Timers are armed again, promises settle, captures and previews get done; that
\* transcripts grow, clients ask and processes die is nobody's duty.
Fairness ==
    /\ WF_vars(Scheduler)
    /\ WF_vars(\E k \in DOMAIN jobs : RunJob(k))
    /\ WF_vars(\E sn \in DOMAIN previews : FinishPreview(sn))
    /\ \A c \in Callers : WF_vars(Coordinate(c))
    /\ \A s \in Sessions : /\ WF_vars(Capture(s)) /\ WF_vars(Rest(s))
                          /\ WF_vars(\E prompt \in BOOLEAN : ProcessSession(s, prompt))

Spec == Init /\ [][Next]_vars /\ Fairness

-----------------------------------------------------------------------------
(* Properties.                                                             *)

(* The snapshots of a session tile its ledger: each begins where the one      *)
(* before it ended, or repeats its range.  Two calls plan on the same last     *)
(* snapshot and create theirs later, with the ledger moving in between: a gap   *)
(* would hide events from compilation, an overlap would compile them twice.   *)
SnapshotsTile ==
    \A s \in Sessions : \A i \in DOMAIN snapshots[s] :
        LET sn == snapshots[s][i] IN
        IF i = 1 THEN sn.from = 1
        ELSE \/ sn.from = snapshots[s][i - 1].to + 1
             \/ InRange(sn, snapshots[s][i - 1])

(* What the checkpoint claims as compiled is backed by a durable row: a job up   *)
(* to there, or a snapshot.  A crash between the two databases must leave the    *)
(* claim behind the job, never in front of it.                               *)
ClaimBacked ==
    \A s \in Sessions : compiled[s] > 0 =>
        \/ LastTo(s) >= compiled[s]
        \/ \E k \in DOMAIN jobs : k.session = s /\ k.to = compiled[s]

(* A compile job that succeeded left a snapshot of exactly its range, and that    *)
(* snapshot has a preview job: also when an attempt before it died half-way, or a  *)
(* client got there first.                                                   *)
SuccessBacked ==
    \A k \in DOMAIN jobs : jobs[k].status = "SUCCEEDED" =>
        \E sn \in DOMAIN previews : sn.session = k.session /\ InRange(sn, k)

(* Automatic compilation keeps at most maxOutstandingJobs jobs waiting or running *)
(* although the capacity is read once per scan and jobs move on meanwhile.     *)
Backpressure ==
    Cardinality({k \in DOMAIN jobs : jobs[k].status \in Outstanding}) <= MaxOutstanding

(* Two extractions of one range, the automatic one and a client's, come to the    *)
(* same snapshot (openspec/changes/enable-automatic-knowledge-compilation/specs/  *)
(* automatic-knowledge-compilation/spec.md:36).                              *)
OneSnapshotPerRange ==
    \A s \in Sessions : \A i, j \in DOMAIN snapshots[s] :
        InRange(snapshots[s][i], snapshots[s][j]) => i = j

(* Enough events without a snapshot do not stay that way: they get one, or a job    *)
(* that ends where the ledger ends has failed for an operator to see.           *)
Waiting(s) == ledger[s] - LastTo(s) >= MinimumNewEvents
Flagged(s) == \E k \in DOMAIN jobs :
    k.session = s /\ k.to = ledger[s] /\ jobs[k].status = "FAILED"
EventuallyCompiled == \A s \in Sessions : Waiting(s) ~> (~Waiting(s) \/ Flagged(s))
===============================================================================
