---------------------- MODULE KnowledgeCompilationProofs ----------------------
(***************************************************************************)
(* Proofs about the compilation of sessions, for any number of sessions,     *)
(* clients, outstanding jobs, attempts, records, requests and crashes.       *)
(***************************************************************************)
EXTENDS KnowledgeCompilation, FiniteSetTheorems, TLAPS

(* A session has no more events than records.                              *)
Counted == \A s \in Sessions : ledger[s] + unread[s] <= file[s]

(* A scan that has picked a session still has capacity for it.              *)
Picked == scan # NULL /\ scan.step # "next" => scan.session \in Sessions /\ scan.limit > 0

(* The tables are finite; a job's range is not empty, and a queued job has an  *)
(* attempt left.                                                           *)
Budgeted ==
    /\ IsFiniteSet(DOMAIN jobs) /\ IsFiniteSet(DOMAIN previews)
    /\ \A k \in DOMAIN jobs :
          k.to >= 1 /\ (jobs[k].status = "QUEUED" => jobs[k].attempt < MaxAttempts)

(* A call that may still create a snapshot continues the last one, or        *)
(* repeats it because another call was faster, for as long as the ledger is    *)
(* where the call found it.                                                *)
Fits(call) ==
    LET s == call.session IN
    \/ LastTo(s) = call.from - 1
    \/ /\ snapshots[s] # << >>
       /\ LastSnapshot(s).from = call.from /\ LastSnapshot(s).to = call.expected

CallOK(call) ==
    /\ call.expected >= 1 /\ call.expected <= ledger[call.session]
    /\ call.step # "plan" => call.from >= 1 /\ call.from <= call.expected
    /\ call.step \in {"inspect", "observe", "put"} /\ ledger[call.session] = call.expected
          => Fits(call)

CallsOK == \A c \in Callers : calls[c] # NULL => CallOK(calls[c])

IInv == TypeOK /\ Counted /\ Picked /\ Budgeted /\ CallsOK /\ SnapshotsTile

-----------------------------------------------------------------------------
(* Helpers.                                                                *)

LEMMA WithLemma ==
    ASSUME NEW f, NEW x, NEW y
    PROVE  /\ DOMAIN With(f, x, y) = DOMAIN f \cup {x}
           /\ With(f, x, y)[x] = y
           /\ \A z \in DOMAIN f : z # x => With(f, x, y)[z] = f[z]
BY DEF With

LEMMA LastTyped ==
    ASSUME TypeOK, NEW s \in Sessions
    PROVE  /\ LastTo(s) \in Length
           /\ snapshots[s] # << >> => LastSnapshot(s) \in Snapshot /\ LastTo(s) = LastSnapshot(s).to
<1>1. snapshots[s] \in Seq(Snapshot)
  BY DEF TypeOK
<1>2. CASE snapshots[s] = << >>
  BY <1>2, CompilationAssumption DEF LastTo, Length
<1>3. CASE snapshots[s] # << >>
  <2>1. LastSnapshot(s) \in Snapshot
    BY <1>1, <1>3 DEF LastSnapshot
  <2>. QED
    BY <1>3, <2>1 DEF LastTo, Snapshot
<1>. QED
  BY <1>2, <1>3

LEMMA CallTyped ==
    ASSUME TypeOK, NEW c \in Callers, calls[c] # NULL
    PROVE  /\ calls[c] \in Call
           /\ calls[c].session \in Sessions
           /\ calls[c].expected \in Nat /\ calls[c].expected \in Length
           /\ calls[c].from \in Nat /\ calls[c].from \in Length
           /\ calls[c].mark \in Length
<1>1. calls[c] \in Call
  BY DEF TypeOK
<1>. QED
  BY <1>1, CompilationAssumption DEF Call, Length

LEMMA OutstandingNat ==
    ASSUME Budgeted
    PROVE  OutstandingJobs \in Nat
<1>1. IsFiniteSet({k \in DOMAIN jobs : jobs[k].status \in Outstanding})
  BY FS_Subset DEF Budgeted
<1>2. IsFiniteSet({sn \in DOMAIN previews : previews[sn] = "QUEUED"})
  BY FS_Subset DEF Budgeted
<1>. QED
  BY <1>1, <1>2, FS_CardinalityType DEF OutstandingJobs

(* A retried job has the state of a queued one only within its budget.      *)
LEMMA RetriedOK ==
    ASSUME NEW job \in [status : Statuses, attempt : 0..MaxAttempts]
    PROVE  /\ Retried(job) \in [status : Statuses, attempt : 0..MaxAttempts]
           /\ Retried(job).status = "QUEUED" => Retried(job).attempt < MaxAttempts
BY CompilationAssumption DEF Retried, Statuses

LEMMA TilesFramed ==
    ASSUME SnapshotsTile, UNCHANGED snapshots
    PROVE  SnapshotsTile'
BY DEF SnapshotsTile, InRange

(* Steps that leave the ledger, the snapshots and the calls alone.          *)
LEMMA Framed ==
    ASSUME IInv, UNCHANGED <<ledger, snapshots, calls>>
    PROVE  CallsOK' /\ SnapshotsTile'
<1>1. SnapshotsTile'
  BY TilesFramed DEF IInv
<1>2. CallsOK'
  BY DEF IInv, CallsOK, CallOK, Fits, LastTo, LastSnapshot
<1>. QED
  BY <1>1, <1>2

(* One call moves on or ends, with ledger and snapshots as they were.       *)
LEMMA OneCallMoves ==
    ASSUME IInv, UNCHANGED <<ledger, snapshots>>, NEW c \in Callers, NEW v,
           calls' = [calls EXCEPT ![c] = v], v = NULL \/ CallOK(v)
    PROVE  CallsOK' /\ SnapshotsTile'
<1>1. SnapshotsTile'
  BY TilesFramed DEF IInv
<1>2. ASSUME NEW call, CallOK(call)
      PROVE  CallOK(call)'
  BY <1>2 DEF CallOK, Fits, LastTo, LastSnapshot
<1>3. ASSUME NEW d \in Callers, calls'[d] # NULL
      PROVE  CallOK(calls[d])'
  <2>1. CASE d = c
    <3>1. calls'[d] = v
      BY <2>1 DEF IInv, TypeOK
    <3>2. CallOK(v)'
      BY <1>2, <1>3, <3>1
    <3>. QED
      BY <3>1, <3>2 DEF CallOK, Fits, LastTo, LastSnapshot
  <2>2. CASE d # c
    <3>1. calls'[d] = calls[d]
      BY <2>2 DEF IInv, TypeOK
    <3>2. CallOK(calls[d])
      BY <1>3, <3>1 DEF IInv, CallsOK
    <3>. QED
      BY <3>1, <3>2 DEF CallOK, Fits, LastTo, LastSnapshot
  <2>. QED
    BY <2>1, <2>2
<1>. QED
  BY <1>1, <1>3 DEF CallsOK

-----------------------------------------------------------------------------
THEOREM Initially == Init => IInv
<1>. SUFFICES ASSUME Init PROVE IInv
  OBVIOUS
<1>1. TypeOK
  BY CompilationAssumption DEF Init, TypeOK, Length, Callers
<1>2. Counted /\ Picked
  BY DEF Init, Counted, Picked
<1>3. Budgeted
  <2>1. DOMAIN jobs = {} /\ DOMAIN previews = {}
    BY DEF Init
  <2>. QED
    BY <2>1, FS_EmptySet DEF Budgeted
<1>4. CallsOK /\ SnapshotsTile
  BY DEF Init, CallsOK, SnapshotsTile
<1>. QED
  BY <1>1, <1>2, <1>3, <1>4 DEF IInv

LEMMA WriteStep ==
    ASSUME IInv, NEW s \in Sessions, NEW event \in BOOLEAN, Write(s, event)
    PROVE  IInv'
<1>1. TypeOK' /\ Counted'
  <2>1. /\ file[s] + 1 \in Length
        /\ unread[s] + 1 \in Length
    BY CompilationAssumption DEF IInv, TypeOK, Counted, Write, Length
  <2>2. TypeOK'
    BY <2>1 DEF IInv, TypeOK, Write
  <2>3. Counted'
    BY CompilationAssumption DEF IInv, TypeOK, Counted, Write, Length
  <2>. QED
    BY <2>2, <2>3
<1>2. Picked' /\ Budgeted'
  BY DEF IInv, Picked, Budgeted, Write
<1>3. CallsOK' /\ SnapshotsTile'
  BY Framed DEF Write
<1>. QED
  BY <1>1, <1>2, <1>3 DEF IInv

(* The ledger only grows: a call's revision is of the past or still the      *)
(* newest one.                                                             *)
LEMMA CaptureStep ==
    ASSUME IInv, NEW s \in Sessions, Capture(s)
    PROVE  IInv'
<1>1. TypeOK' /\ Counted'
  <2>1. ledger[s] + unread[s] \in Length
    BY CompilationAssumption DEF IInv, TypeOK, Counted, Length
  <2>2. TypeOK'
    BY <2>1, CompilationAssumption DEF IInv, TypeOK, Capture, Length
  <2>3. Counted'
    BY CompilationAssumption DEF IInv, TypeOK, Counted, Capture, Length
  <2>. QED
    BY <2>2, <2>3
<1>2. Picked' /\ Budgeted'
  BY DEF IInv, Picked, Budgeted, Capture
<1>3. SnapshotsTile'
  BY TilesFramed DEF IInv, Capture
<1>4. ASSUME NEW z \in Sessions
      PROVE  ledger[z] \in Nat /\ ledger'[z] \in Nat /\ ledger[z] <= ledger'[z]
  <2>1. ledger'[z] = IF z = s THEN ledger[z] + unread[z] ELSE ledger[z]
    BY DEF IInv, TypeOK, Capture
  <2>2. ledger[z] \in Nat /\ unread[z] \in Nat
    BY CompilationAssumption DEF IInv, TypeOK, Length
  <2>. QED
    BY <2>1, <2>2
<1>5. ASSUME NEW c \in Callers, calls'[c] # NULL
      PROVE  CallOK(calls[c])'
  <2>1. calls' = calls /\ snapshots' = snapshots /\ calls[c] # NULL
    BY <1>5 DEF Capture
  <2>2. CallOK(calls[c])
    BY <2>1 DEF IInv, CallsOK
  <2>3. /\ calls[c].session \in Sessions
        /\ calls[c].expected \in Nat
    BY <2>1, CallTyped DEF IInv
  <2>4. calls[c].expected <= ledger'[calls[c].session]
    BY <1>4, <2>2, <2>3 DEF CallOK
  <2>5. ledger'[calls[c].session] = calls[c].expected
        => ledger[calls[c].session] = calls[c].expected
    BY <1>4, <2>2, <2>3 DEF CallOK
  <2>. QED
    BY <2>1, <2>2, <2>4, <2>5 DEF CallOK, Fits, LastTo, LastSnapshot
<1>6. CallsOK'
  BY <1>5 DEF CallsOK
<1>. QED
  BY <1>1, <1>2, <1>3, <1>6 DEF IInv

-----------------------------------------------------------------------------
(* Steps that leave the source of a session alone.                          *)

JobsOK ==
    /\ IsFiniteSet(DOMAIN jobs) /\ DOMAIN jobs \subseteq JobKey
    /\ \A k \in DOMAIN jobs :
          /\ k.to >= 1
          /\ jobs[k] \in [status : Statuses, attempt : 0..MaxAttempts]
          /\ jobs[k].status = "QUEUED" => jobs[k].attempt < MaxAttempts

PreviewsOK ==
    /\ IsFiniteSet(DOMAIN previews) /\ DOMAIN previews \subseteq Snapshot
    /\ \A sn \in DOMAIN previews : previews[sn] \in {"QUEUED", "DONE"}

WorkerOK == calls[Worker] # NULL => calls[Worker].job \in DOMAIN jobs

LEMMA Parts ==
    ASSUME IInv
    PROVE  JobsOK /\ PreviewsOK /\ WorkerOK
BY DEF IInv, TypeOK, Budgeted, JobsOK, PreviewsOK, WorkerOK

LEMMA Assembled ==
    ASSUME IInv, UNCHANGED source,
           scan' \in Scan \cup {NULL}, Picked', compiled' \in [Sessions -> Length],
           JobsOK', PreviewsOK', WorkerOK', snapshots' \in [Sessions -> Seq(Snapshot)],
           calls' \in [Callers -> Call \cup {NULL}],
           requests' \in 0..MaxRequests, crashes' \in 0..MaxCrashes,
           CallsOK', SnapshotsTile'
    PROVE  IInv'
<1>1. TypeOK'
  BY DEF IInv, TypeOK, source, JobsOK, PreviewsOK, WorkerOK
<1>2. Counted' /\ Budgeted'
  BY DEF IInv, Counted, Budgeted, source, JobsOK, PreviewsOK
<1>. QED
  BY <1>1, <1>2 DEF IInv

(* The scan moves on and may claim.                                         *)
LEMMA ScanMoves ==
    ASSUME IInv, UNCHANGED <<source, jobs, snapshots, previews, calls, requests, crashes>>,
           scan' \in Scan \cup {NULL}, Picked', compiled' \in [Sessions -> Length]
    PROVE  IInv'
<1>1. JobsOK' /\ PreviewsOK' /\ WorkerOK'
  BY Parts DEF JobsOK, PreviewsOK, WorkerOK
<1>2. CallsOK' /\ SnapshotsTile'
  BY Framed DEF source
<1>. QED
  BY <1>1, <1>2, Assembled DEF IInv, TypeOK

LEMMA DoneTyped ==
    ASSUME TypeOK, scan # NULL, NEW s
    PROVE  Done(s) \in Scan /\ Done(s).step = "next"
<1>1. scan \in Scan
  BY DEF TypeOK
<1>2. 0 \in Length /\ scan.todo \ {s} \in SUBSET Sessions
  BY <1>1, CompilationAssumption DEF Scan, Length
<1>. DEFINE a == [scan EXCEPT !.todo = @ \ {s}]
            b == [a EXCEPT !.step = "next"]
            d == [b EXCEPT !.session = NULL]
            e == [d EXCEPT !.expected = 0]
            f == [e EXCEPT !.queued = FALSE]
<1>3. a \in Scan
  BY <1>1, <1>2 DEF Scan
<1>. HIDE DEF a
<1>4. b \in Scan
  BY <1>3 DEF Scan
<1>. HIDE DEF b
<1>5. d \in Scan
  BY <1>4 DEF Scan
<1>. HIDE DEF d
<1>6. e \in Scan
  BY <1>2, <1>5 DEF Scan
<1>. HIDE DEF e
<1>7. f \in Scan
  BY <1>6 DEF Scan
<1>8. f.step = "next"
  BY <1>3, <1>4, <1>5, <1>6 DEF Scan, b, d, e
<1>9. Done(s) = f
  BY DEF Done, a, b, d, e
<1>. QED
  BY <1>7, <1>8, <1>9

LEMMA StartScanStep ==
    ASSUME IInv, StartScan
    PROVE  IInv'
<1>1. Capacity \in 0..MaxOutstanding
  <2>1. OutstandingJobs \in Nat
    BY OutstandingNat DEF IInv
  <2>. QED
    BY <2>1, CompilationAssumption DEF Capacity
<1>2. scan' \in Scan
  BY <1>1, CompilationAssumption DEF IInv, TypeOK, StartScan, Scan, Length
<1>3. Picked'
  BY DEF StartScan, Picked
<1>4. compiled' \in [Sessions -> Length]
  BY DEF IInv, TypeOK, StartScan
<1>. QED
  BY <1>2, <1>3, <1>4, ScanMoves DEF StartScan

LEMMA ProcessSessionStep ==
    ASSUME IInv, NEW s \in Sessions, NEW prompt \in BOOLEAN, ProcessSession(s, prompt)
    PROVE  IInv'
<1>1. scan \in Scan /\ scan.limit > 0
  BY DEF IInv, TypeOK, ProcessSession
<1>2. compiled' \in [Sessions -> Length] /\ ledger[s] \in Length
  BY DEF IInv, TypeOK, ProcessSession
<1>3. scan' \in Scan /\ Picked'
  <2>1. CASE Eligible(s, prompt)
    <3>1. scan' = [scan EXCEPT !.session = s, !.step = "validate", !.expected = ledger[s]]
      BY <2>1 DEF ProcessSession
    <3>. QED
      BY <1>1, <1>2, <3>1 DEF Scan, Picked
  <2>2. CASE ~Eligible(s, prompt)
    BY <2>2, DoneTyped DEF IInv, ProcessSession, Picked
  <2>. QED
    BY <2>1, <2>2
<1>. QED
  BY <1>2, <1>3, ScanMoves DEF ProcessSession

LEMMA ValidateStep ==
    ASSUME IInv, Validate
    PROVE  IInv'
<1>1. scan \in Scan /\ scan.session \in Sessions /\ scan.limit > 0
  BY DEF IInv, TypeOK, Picked, Validate, Scanning
<1>2. compiled' \in [Sessions -> Length]
  BY DEF IInv, TypeOK, Validate
<1>3. \/ scan' = [scan EXCEPT !.step = "plan"]
      \/ scan' = Done(scan.session)
  BY DEF Validate, Stale
<1>4. scan' \in Scan /\ Picked'
  <2>1. CASE scan' = [scan EXCEPT !.step = "plan"]
    BY <1>1, <2>1 DEF Scan, Picked
  <2>2. CASE scan' = Done(scan.session)
    BY <2>2, DoneTyped DEF IInv, Picked, Validate, Scanning
  <2>. QED
    BY <1>3, <2>1, <2>2
<1>. QED
  BY <1>2, <1>4, ScanMoves DEF Validate

LEMMA RecordStep ==
    ASSUME IInv, Record
    PROVE  IInv'
<1>1. scan \in Scan /\ scan.limit > 0
  BY DEF IInv, TypeOK, Picked, Record, Scanning
<1>2. compiled' \in [Sessions -> Length]
  BY <1>1 DEF IInv, TypeOK, Record, Scan
<1>3. scan' \in Scan /\ Picked'
  <2>1. Done(scan.session) \in Scan /\ Done(scan.session).step = "next"
    BY DoneTyped DEF IInv, Record, Scanning
  <2>2. Done(scan.session).limit = scan.limit
    BY <1>1 DEF Done, Scan
  <2>3. scan.limit - 1 \in 0..MaxOutstanding
    BY <1>1, CompilationAssumption DEF Scan
  <2>. QED
    BY <1>1, <2>1, <2>2, <2>3 DEF Record, Scan, Picked
<1>. QED
  BY <1>2, <1>3, ScanMoves DEF Record

LEMMA EndScanStep ==
    ASSUME IInv, EndScan
    PROVE  IInv'
<1>1. scan' \in Scan \cup {NULL} /\ Picked' /\ compiled' \in [Sessions -> Length]
  BY DEF IInv, TypeOK, Picked, EndScan
<1>. QED
  BY <1>1, ScanMoves DEF EndScan

(* The enqueue adds a fresh job to the table.                               *)
LEMMA DispatchPreviewStep ==
    ASSUME IInv, DispatchPreview
    PROVE  IInv'
<1>. DEFINE s == scan.session
            key == [session |-> s, from |-> LastTo(s) + 1, to |-> scan.expected]
            fresh == [status |-> "QUEUED", attempt |-> 0]
<1>1. /\ scan \in Scan /\ scan # NULL /\ s \in Sessions /\ scan.limit > 0
      /\ scan.expected \in Length /\ LastTo(s) \in Length
  BY LastTyped DEF IInv, TypeOK, Picked, DispatchPreview, Scanning, Scan
<1>2. scan' \in Scan /\ Picked'
  <2>1. CASE scan' = Done(s)
    BY <1>1, <2>1, DoneTyped DEF IInv, Picked
  <2>2. CASE scan' = [scan EXCEPT !.step = "record"]
    BY <1>1, <2>2 DEF Scan, Picked
  <2>3. CASE scan' = [scan EXCEPT !.step = "record", !.queued = TRUE]
    BY <1>1, <2>3 DEF Scan, Picked
  <2>. QED
    BY <2>1, <2>2, <2>3 DEF DispatchPreview, Stale
<1>3. JobsOK' /\ WorkerOK'
  <2>1. CASE UNCHANGED jobs
    BY <2>1, Parts DEF JobsOK, WorkerOK, DispatchPreview
  <2>2. CASE jobs' = With(jobs, key, fresh) /\ key \notin DOMAIN jobs /\ LastTo(s) < scan.expected
    <3>1. key \in JobKey /\ key.to >= 1
      BY <1>1, <2>2, CompilationAssumption DEF JobKey, Length
    <3>2. fresh \in [status : Statuses, attempt : 0..MaxAttempts] /\ fresh.attempt < MaxAttempts
      BY CompilationAssumption DEF Statuses
    <3>. HIDE DEF key, fresh
    <3>3. /\ DOMAIN jobs' = DOMAIN jobs \cup {key} /\ jobs'[key] = fresh
          /\ \A k \in DOMAIN jobs : k # key => jobs'[k] = jobs[k]
      BY <2>2 DEF With
    <3>4. IsFiniteSet(DOMAIN jobs')
      BY <3>3, Parts, FS_AddElement DEF JobsOK
    <3>5. JobsOK'
      BY <3>1, <3>2, <3>3, <3>4, Parts DEF JobsOK
    <3>. QED
      BY <3>3, <3>5, Parts DEF WorkerOK, DispatchPreview
  <2>. QED
    BY <2>1, <2>2 DEF DispatchPreview
<1>4. PreviewsOK' /\ CallsOK' /\ SnapshotsTile'
  BY Parts, Framed DEF PreviewsOK, DispatchPreview, source
<1>. QED
  BY <1>2, <1>3, <1>4, Assembled DEF IInv, TypeOK, DispatchPreview

-----------------------------------------------------------------------------
(* The coordinate calls.                                                    *)

LEMMA NewCallOK ==
    ASSUME IInv, NEW s \in Sessions, NEW key \in JobKey \cup {NULL}, ledger[s] >= 1
    PROVE  /\ NewCall(s, ledger[s], key) \in Call
           /\ CallOK(NewCall(s, ledger[s], key))
<1>1. ledger[s] \in Length /\ ledger[s] \in Nat /\ 0 \in Length
  BY CompilationAssumption DEF IInv, TypeOK, Length
<1>. QED
  BY <1>1 DEF NewCall, Call, CallOK

LEMMA ExtractStep ==
    ASSUME IInv, NEW c \in Clients, NEW s \in Sessions, Extract(c, s)
    PROVE  IInv'
<1>. DEFINE v == NewCall(s, ledger[s], NULL)
<1>1. v \in Call /\ CallOK(v)
  BY NewCallOK, CompilationAssumption DEF IInv, TypeOK, Length, Extract
<1>2. c \in Callers /\ c # Worker
  BY WorkerAssumption DEF Callers
<1>. HIDE DEF v
<1>3. calls' = [calls EXCEPT ![c] = v]
  BY DEF Extract, v
<1>4. CallsOK' /\ SnapshotsTile'
  BY <1>1, <1>2, <1>3, OneCallMoves DEF Extract, source
<1>5. calls' \in [Callers -> Call \cup {NULL}]
  BY <1>1, <1>3 DEF IInv, TypeOK
<1>6. JobsOK' /\ PreviewsOK' /\ WorkerOK'
  BY <1>2, <1>3, Parts DEF JobsOK, PreviewsOK, WorkerOK, Extract, IInv, TypeOK
<1>7. requests' \in 0..MaxRequests /\ crashes' \in 0..MaxCrashes
  BY CompilationAssumption DEF IInv, TypeOK, Extract
<1>8. scan' \in Scan \cup {NULL} /\ Picked' /\ compiled' \in [Sessions -> Length]
      /\ snapshots' \in [Sessions -> Seq(Snapshot)] /\ UNCHANGED source
  BY DEF IInv, TypeOK, Picked, Extract
<1>. QED
  BY <1>4, <1>5, <1>6, <1>7, <1>8, Assembled

(* One job of the table is settled or taken.                                *)
LEMMA JobUpdated ==
    ASSUME JobsOK, NEW k \in DOMAIN jobs,
           NEW job \in [status : Statuses, attempt : 0..MaxAttempts],
           job.status = "QUEUED" => job.attempt < MaxAttempts,
           jobs' = [jobs EXCEPT ![k] = job]
    PROVE  JobsOK' /\ DOMAIN jobs' = DOMAIN jobs
<1>1. DOMAIN jobs' = DOMAIN jobs /\ \A j \in DOMAIN jobs : jobs'[j] = IF j = k THEN job ELSE jobs[j]
  OBVIOUS
<1>. QED
  BY <1>1 DEF JobsOK

LEMMA RunJobStep ==
    ASSUME IInv, NEW k \in DOMAIN jobs, RunJob(k)
    PROVE  IInv'
<1>. DEFINE taken == [status |-> "RUNNING", attempt |-> jobs[k].attempt + 1]
<1>1. k \in JobKey /\ k.session \in Sessions /\ k.to >= 1
  BY DEF IInv, TypeOK, Budgeted, JobKey
<1>2. taken \in [status : Statuses, attempt : 0..MaxAttempts] /\ taken.status = "RUNNING"
  BY CompilationAssumption DEF IInv, TypeOK, Budgeted, RunJob, Statuses
<1>3. Worker \in Callers
  BY DEF Callers
<1>4. PreviewsOK' /\ requests' \in 0..MaxRequests /\ crashes' \in 0..MaxCrashes
      /\ scan' \in Scan \cup {NULL} /\ Picked' /\ compiled' \in [Sessions -> Length]
      /\ snapshots' \in [Sessions -> Seq(Snapshot)] /\ UNCHANGED source
  BY Parts DEF IInv, TypeOK, Picked, PreviewsOK, RunJob
<1>5. CASE ledger[k.session] = k.to
  <2>. DEFINE v == NewCall(k.session, ledger[k.session], k)
  <2>1. v \in Call /\ CallOK(v) /\ v.job = k
    BY <1>1, <1>5, NewCallOK DEF NewCall
  <2>2. JobsOK' /\ DOMAIN jobs' = DOMAIN jobs
    <3>1. jobs' = [jobs EXCEPT ![k] = taken]
      BY <1>5 DEF RunJob
    <3>. QED
      BY <1>2, <3>1, Parts, JobUpdated
  <2>3. calls' = [calls EXCEPT ![Worker] = v]
    BY <1>5 DEF RunJob
  <2>. HIDE DEF v
  <2>4. CallsOK' /\ SnapshotsTile'
    BY <1>3, <2>1, <2>3, OneCallMoves DEF RunJob, source
  <2>5. calls' \in [Callers -> Call \cup {NULL}]
    BY <2>1, <2>3 DEF IInv, TypeOK
  <2>6. WorkerOK'
    BY <1>3, <2>1, <2>2, <2>3 DEF WorkerOK, IInv, TypeOK
  <2>. QED
    BY <1>4, <2>2, <2>4, <2>5, <2>6, Assembled
<1>6. CASE ledger[k.session] # k.to
  <2>1. JobsOK' /\ DOMAIN jobs' = DOMAIN jobs
    <3>1. jobs' = [jobs EXCEPT ![k] = Retried(taken)]
      BY <1>6 DEF RunJob
    <3>2. /\ Retried(taken) \in [status : Statuses, attempt : 0..MaxAttempts]
          /\ Retried(taken).status = "QUEUED" => Retried(taken).attempt < MaxAttempts
      BY <1>2, RetriedOK
    <3>. HIDE DEF taken
    <3>. QED
      BY <3>1, <3>2, Parts, JobUpdated
  <2>2. UNCHANGED calls
    BY <1>6 DEF RunJob
  <2>3. CallsOK' /\ SnapshotsTile'
    BY <2>2, Framed DEF RunJob, source
  <2>. QED
    BY <1>4, <2>1, <2>2, <2>3, Parts, Assembled DEF WorkerOK, IInv, TypeOK
<1>. QED
  BY <1>5, <1>6

(* A call moves on.                                                         *)
LEMMA AdvanceStep ==
    ASSUME IInv, NEW c \in Callers, calls[c] # NULL,
           NEW call \in Call, call.job = calls[c].job, CallOK(call), Advance(c, call),
           UNCHANGED <<source, compiled, scan, jobs, snapshots, previews, requests, crashes>>
    PROVE  IInv'
<1>1. CallsOK' /\ SnapshotsTile'
  BY OneCallMoves DEF Advance, source
<1>2. calls' \in [Callers -> Call \cup {NULL}]
  BY DEF IInv, TypeOK, Advance
<1>3. JobsOK' /\ PreviewsOK' /\ WorkerOK'
  <2>1. WorkerOK'
    BY Parts DEF WorkerOK, IInv, TypeOK, Advance
  <2>. QED
    BY <2>1, Parts DEF JobsOK, PreviewsOK
<1>4. scan' \in Scan \cup {NULL} /\ Picked' /\ compiled' \in [Sessions -> Length]
      /\ snapshots' \in [Sessions -> Seq(Snapshot)] /\ UNCHANGED source
      /\ requests' \in 0..MaxRequests /\ crashes' \in 0..MaxCrashes
  BY DEF IInv, TypeOK, Picked
<1>. QED
  BY <1>1, <1>2, <1>3, <1>4, Assembled

(* A call ends.                                                             *)
LEMMA ReturnStep ==
    ASSUME IInv, NEW c \in Callers, calls[c] # NULL, NEW outcome,
           c = Worker => outcome \in {"RETRY", "SUCCEEDED", "FAILED"}, Return(c, outcome),
           PreviewsOK',
           UNCHANGED <<source, compiled, scan, snapshots, requests, crashes>>
    PROVE  IInv'
<1>1. calls' = [calls EXCEPT ![c] = NULL]
  BY DEF Return
<1>2. CallsOK' /\ SnapshotsTile'
  BY <1>1, OneCallMoves DEF source
<1>3. calls' \in [Callers -> Call \cup {NULL}]
  BY <1>1 DEF IInv, TypeOK
<1>4. JobsOK' /\ DOMAIN jobs' = DOMAIN jobs
  <2>1. CASE c # Worker
    BY <2>1, Parts DEF JobsOK, Return
  <2>2. CASE c = Worker
    <3>. DEFINE k == calls[c].job
                job == IF outcome = "RETRY" THEN Retried(jobs[k])
                       ELSE [jobs[k] EXCEPT !.status = outcome]
    <3>1. k \in DOMAIN jobs /\ jobs[k] \in [status : Statuses, attempt : 0..MaxAttempts]
      BY <2>2, Parts DEF WorkerOK, JobsOK
    <3>2. job \in [status : Statuses, attempt : 0..MaxAttempts]
          /\ (job.status = "QUEUED" => job.attempt < MaxAttempts)
      <4>1. CASE outcome = "RETRY"
        BY <3>1, <4>1, RetriedOK
      <4>2. CASE outcome # "RETRY"
        BY <2>2, <3>1, <4>2 DEF Statuses
      <4>. QED
        BY <4>1, <4>2
    <3>3. jobs' = [jobs EXCEPT ![k] = job]
      BY <2>2 DEF Return
    <3>. HIDE DEF job, k
    <3>. QED
      BY <3>1, <3>2, <3>3, Parts, JobUpdated
  <2>. QED
    BY <2>1, <2>2
<1>5. WorkerOK'
  BY <1>1, <1>4, Parts DEF WorkerOK, IInv, TypeOK
<1>6. scan' \in Scan \cup {NULL} /\ Picked' /\ compiled' \in [Sessions -> Length]
      /\ snapshots' \in [Sessions -> Seq(Snapshot)] /\ UNCHANGED source
      /\ requests' \in 0..MaxRequests /\ crashes' \in 0..MaxCrashes
  BY DEF IInv, TypeOK, Picked
<1>. QED
  BY <1>2, <1>3, <1>4, <1>5, <1>6, Assembled

LEMMA EnqueuedOK ==
    ASSUME PreviewsOK, NEW sn \in Snapshot, previews' = Enqueued(sn)
    PROVE  PreviewsOK'
<1>1. CASE sn \in DOMAIN previews
  BY <1>1 DEF PreviewsOK, Enqueued
<1>2. CASE sn \notin DOMAIN previews
  <2>1. /\ DOMAIN previews' = DOMAIN previews \cup {sn} /\ previews'[sn] = "QUEUED"
        /\ \A z \in DOMAIN previews : z # sn => previews'[z] = previews[z]
    BY <1>2 DEF Enqueued, With
  <2>2. IsFiniteSet(DOMAIN previews')
    BY <2>1, FS_AddElement DEF PreviewsOK
  <2>. QED
    BY <2>1, <2>2 DEF PreviewsOK
<1>. QED
  BY <1>1, <1>2

LEMMA PlanStep ==
    ASSUME IInv, NEW c \in Callers, Plan(c)
    PROVE  IInv'
<1>. DEFINE call == calls[c]
            s == call.session
<1>1. /\ call # NULL /\ call \in Call /\ CallOK(call)
      /\ s \in Sessions /\ call.expected \in Nat /\ call.expected \in Length
      /\ LastTo(s) \in Length /\ LastTo(s) \in Nat
  BY CallTyped, LastTyped, CompilationAssumption DEF IInv, CallsOK, Plan, At, Length
<1>2. CASE Return(c, "RETRY") /\ UNCHANGED previews
  BY <1>1, <1>2, Parts, ReturnStep DEF PreviewsOK, Plan
<1>3. CASE LastTo(s) < call.expected
           /\ Advance(c, [call EXCEPT !.step = "inspect", !.from = LastTo(s) + 1])
           /\ UNCHANGED <<jobs, previews>>
  <2>. DEFINE v == [call EXCEPT !.step = "inspect", !.from = LastTo(s) + 1]
  <2>1. LastTo(s) + 1 \in Length
    BY <1>1, <1>3, CompilationAssumption DEF Length
  <2>2. /\ v \in Call /\ v.job = call.job /\ v.session = s /\ v.expected = call.expected
        /\ v.from = LastTo(s) + 1
    BY <1>1, <2>1 DEF Call
  <2>3. v.expected >= 1 /\ v.expected <= ledger[v.session]
    BY <1>1, <2>2 DEF CallOK
  <2>. HIDE DEF v
  <2>4. Fits(v) /\ v.from >= 1 /\ v.from <= v.expected
    BY <1>1, <1>3, <2>2 DEF Fits
  <2>5. CallOK(v)
    BY <2>3, <2>4 DEF CallOK
  <2>. QED
    BY <1>1, <1>3, <2>2, <2>5, AdvanceStep DEF Plan, v
<1>4. CASE LastTo(s) >= call.expected
           /\ IF c # Worker
              THEN Return(c, NULL) /\ previews' = Enqueued(LastSnapshot(s))
              ELSE Return(c, CurrentOutcome(call)) /\ UNCHANGED previews
  <2>1. CASE c # Worker
    <3>1. call.expected # 0
      BY <1>1 DEF CallOK
    <3>2. LastSnapshot(s) \in Snapshot
      BY <1>1, <1>4, <3>1, LastTyped DEF IInv, LastTo
    <3>3. PreviewsOK'
      BY <1>4, <2>1, <3>2, Parts, EnqueuedOK
    <3>. QED
      BY <1>1, <1>4, <2>1, <3>3, ReturnStep DEF Plan
  <2>2. CASE c = Worker
    <3>1. PreviewsOK'
      BY <1>4, <2>2, Parts DEF PreviewsOK
    <3>2. CurrentOutcome(call) \in {"RETRY", "SUCCEEDED", "FAILED"}
      BY DEF CurrentOutcome
    <3>. QED
      BY <1>1, <1>4, <2>2, <3>1, <3>2, ReturnStep DEF Plan
  <2>. QED
    BY <2>1, <2>2
<1>. QED
  BY <1>2, <1>3, <1>4 DEF Plan

LEMMA InspectStep ==
    ASSUME IInv, NEW c \in Callers, Inspect(c)
    PROVE  IInv'
<1>. DEFINE call == calls[c]
            v == [call EXCEPT !.step = "observe", !.mark = file[call.session]]
<1>1. call # NULL /\ call.step = "inspect" /\ call \in Call /\ CallOK(call)
      /\ file[call.session] \in Length
  BY CallTyped DEF IInv, TypeOK, CallsOK, Inspect, At
<1>2. v \in Call
  BY <1>1 DEF Call
<1>3. v.job = call.job /\ CallOK(v)
  BY <1>1 DEF Call, CallOK, Fits
<1>. QED
  BY <1>1, <1>2, <1>3, AdvanceStep DEF Inspect

LEMMA ObserveStep ==
    ASSUME IInv, NEW c \in Callers, Observe(c)
    PROVE  IInv'
<1>. DEFINE call == calls[c]
            v == [call EXCEPT !.step = "put"]
<1>1. call # NULL /\ call.step = "observe" /\ call \in Call /\ CallOK(call)
  BY CallTyped DEF IInv, CallsOK, Observe, At
<1>2. CASE Advance(c, v) /\ UNCHANGED jobs
  <2>1. v \in Call
    BY <1>1 DEF Call
  <2>2. v.job = call.job /\ CallOK(v)
    BY <1>1 DEF Call, CallOK, Fits
  <2>. QED
    BY <1>1, <1>2, <2>1, <2>2, AdvanceStep DEF Observe
<1>3. CASE Return(c, "RETRY")
  BY <1>1, <1>3, Parts, ReturnStep DEF PreviewsOK, Observe
<1>. QED
  BY <1>2, <1>3 DEF Observe

(* What SnapshotsTile says of one place of one sequence.                      *)
Tiled(q, i) ==
    IF i = 1 THEN q[i].from = 1
    ELSE q[i].from = q[i - 1].to + 1 \/ InRange(q[i], q[i - 1])

LEMMA TileLemma ==
    ASSUME SnapshotsTile, NEW s \in Sessions, NEW i \in DOMAIN snapshots[s]
    PROVE  Tiled(snapshots[s], i)
BY DEF SnapshotsTile, Tiled

(* The step that matters.  The snapshot continues the last one because the    *)
(* call Fits; every other call on the same ledger planned the same range, so   *)
(* that the new snapshot is the one it would have created.                  *)
LEMMA PutStep ==
    ASSUME IInv, NEW c \in Callers, Put(c)
    PROVE  IInv'
<1>0. calls[c] # NULL /\ calls[c].session \in Sessions
  BY CallTyped DEF IInv, Put, At
<1>. PICK s \in Sessions : s = calls[c].session
  BY <1>0
<1>. DEFINE call == calls[c]
            v == [call EXCEPT !.step = "preview"]
            sn == Taken(call)
<1>1. /\ call # NULL /\ call.step = "put" /\ call \in Call /\ CallOK(call)
      /\ s = call.session /\ call.expected \in Nat /\ call.from \in Nat
  BY CallTyped DEF IInv, CallsOK, Put, At
<1>2. /\ v \in Call /\ v.job = call.job /\ v.step = "preview" /\ v.session = s
      /\ v.expected = call.expected /\ v.from = call.from
  BY <1>1 DEF Call
<1>3. /\ scan' \in Scan \cup {NULL} /\ Picked' /\ compiled' \in [Sessions -> Length]
      /\ UNCHANGED source /\ PreviewsOK'
      /\ requests' \in 0..MaxRequests /\ crashes' \in 0..MaxCrashes
  BY Parts DEF IInv, TypeOK, Picked, PreviewsOK, Put
<1>4. CASE ~Unchanged(call)
  BY <1>1, <1>4, Parts, ReturnStep DEF PreviewsOK, Put
<1>5. CASE Unchanged(call) /\ snapshots' = snapshots
  <2>1. CallOK(v)
    BY <1>1, <1>2 DEF CallOK
  <2>. HIDE DEF v
  <2>2. Advance(c, v) /\ UNCHANGED jobs
    BY <1>5 DEF Put, v
  <2>. QED
    BY <1>1, <1>2, <1>5, <2>1, <2>2, AdvanceStep DEF Put
<1>6. CASE Unchanged(call) /\ snapshots' = [snapshots EXCEPT ![s] = Append(@, sn)]
  <2>. DEFINE old == snapshots[s]
  <2>1. /\ old \in Seq(Snapshot) /\ Len(old) \in Nat
        /\ sn.session = s /\ sn.from = call.from /\ sn.to = call.expected
    BY <1>1 DEF IInv, TypeOK, Taken
  <2>2. sn \in Snapshot
    BY <1>1 DEF Call, Taken, Snapshot
  <2>3. calls' = [calls EXCEPT ![c] = v] /\ UNCHANGED jobs
    BY <1>6 DEF Put, Advance
  <2>4. ledger[s] = call.expected /\ Fits(call) /\ call.from >= 1 /\ call.from <= call.expected
    BY <1>1, <1>6 DEF Unchanged, CallOK
  <2>. HIDE DEF sn, v
  <2>5. /\ snapshots' \in [Sessions -> Seq(Snapshot)]
        /\ snapshots'[s] = Append(old, sn)
        /\ \A z \in Sessions : z # s => snapshots'[z] = snapshots[z]
    BY <1>1, <1>6, <2>2 DEF IInv, TypeOK
  <2>6. /\ DOMAIN snapshots'[s] = 1 .. Len(old) + 1
        /\ snapshots'[s][Len(old) + 1] = sn
        /\ \A i \in 1 .. Len(old) : snapshots'[s][i] = old[i]
        /\ Len(snapshots'[s]) = Len(old) + 1 /\ snapshots'[s] # << >>
    BY <2>1, <2>2, <2>5
  <2>7. SnapshotsTile'
    <3>1. ASSUME NEW z \in Sessions, NEW i \in DOMAIN snapshots'[z], z # s
          PROVE  Tiled(snapshots'[z], i)
      <4>1. snapshots'[z] = snapshots[z]
        BY <2>5, <3>1
      <4>. QED
        BY <3>1, <4>1, TileLemma DEF IInv
    <3>2. ASSUME NEW i \in 1 .. Len(old)
          PROVE  Tiled(snapshots'[s], i)
      <4>1. i \in DOMAIN old /\ (i # 1 => i - 1 \in 1 .. Len(old))
        BY <2>1
      <4>2. Tiled(old, i)
        BY <4>1, TileLemma DEF IInv
      <4>3. snapshots'[s][i] = old[i] /\ (i # 1 => snapshots'[s][i - 1] = old[i - 1])
        BY <2>6, <4>1
      <4>. QED
        BY <4>2, <4>3 DEF Tiled
    <3>3. Tiled(snapshots'[s], Len(old) + 1)
      <4>1. CASE old = << >>
        BY <2>1, <2>4, <2>6, <4>1 DEF Fits, LastTo, Tiled
      <4>2. CASE old # << >>
        <5>1. Len(old) # 0 /\ Len(old) \in 1 .. Len(old) /\ Len(old) + 1 # 1
              /\ Len(old) + 1 - 1 = Len(old)
          BY <2>1, <4>2
        <5>2. snapshots'[s][Len(old)] = LastSnapshot(s) /\ LastTo(s) = LastSnapshot(s).to
              /\ LastTo(s) \in Nat
          BY <1>1, <2>6, <4>2, <5>1, LastTyped, CompilationAssumption
             DEF IInv, LastSnapshot, LastTo, Length
        <5>3. sn.from = LastSnapshot(s).to + 1 \/ InRange(sn, LastSnapshot(s))
          BY <1>1, <2>1, <2>4, <5>2 DEF Fits, InRange
        <5>. QED
          BY <2>6, <5>1, <5>2, <5>3 DEF Tiled
      <4>. QED
        BY <4>1, <4>2
    <3>4. ASSUME NEW i \in DOMAIN snapshots'[s]
          PROVE  Tiled(snapshots'[s], i)
      <4>1. i \in 1 .. Len(old) \/ i = Len(old) + 1
        BY <2>1, <2>6
      <4>. QED
        BY <3>2, <3>3, <4>1
    <3>. QED
      BY <3>1, <3>4 DEF SnapshotsTile, Tiled
  <2>8. CallsOK'
    <3>1. ASSUME NEW d \in Callers, calls'[d] # NULL
          PROVE  CallOK(calls[d])'
      <4>1. CASE d = c
        <5>1. calls'[d] = v
          BY <2>3, <4>1 DEF IInv, TypeOK
        <5>. QED
          BY <1>1, <1>2, <1>3, <5>1 DEF CallOK, source
      <4>2. CASE d # c
        <5>1. calls'[d] = calls[d] /\ calls[d] # NULL /\ CallOK(calls[d]) /\ ledger' = ledger
          BY <1>3, <2>3, <3>1, <4>2 DEF IInv, TypeOK, CallsOK, source
        <5>2. calls[d].session \in Sessions /\ calls[d].from \in Nat /\ calls[d].expected \in Nat
          BY <5>1, CallTyped DEF IInv
        <5>3. CASE calls[d].session # s
          BY <2>5, <5>1, <5>2, <5>3 DEF CallOK, Fits, LastTo, LastSnapshot
        <5>4. CASE calls[d].session = s
          <6>1. ASSUME calls[d].step \in {"inspect", "observe", "put"}, ledger[s] = calls[d].expected
                PROVE  calls[d].from = call.from /\ calls[d].expected = call.expected
            <7>1. Fits(calls[d]) /\ calls[d].from >= 1 /\ calls[d].from <= calls[d].expected
              BY <5>1, <5>4, <6>1 DEF CallOK
            <7>2. LastTo(s) \in Nat
                  /\ (old # << >> => LastTo(s) = LastSnapshot(s).to)
              BY <1>1, LastTyped, CompilationAssumption DEF IInv, Length
            <7>. QED
              BY <1>1, <2>4, <5>2, <5>4, <6>1, <7>1, <7>2 DEF Fits
          <6>2. LastSnapshot(s)' = sn
            BY <2>6 DEF LastSnapshot
          <6>3. ASSUME calls[d].step \in {"inspect", "observe", "put"}, ledger[s] = calls[d].expected
                PROVE  Fits(calls[d])'
            BY <2>1, <2>6, <5>1, <5>4, <6>1, <6>2, <6>3 DEF Fits
          <6>. QED
            BY <5>1, <5>4, <6>3 DEF CallOK
        <5>. QED
          BY <5>3, <5>4
      <4>. QED
        BY <4>1, <4>2
    <3>. QED
      BY <3>1 DEF CallsOK
  <2>9. calls' \in [Callers -> Call \cup {NULL}] /\ JobsOK' /\ WorkerOK'
    <3>1. calls' \in [Callers -> Call \cup {NULL}]
      BY <1>2, <2>3 DEF IInv, TypeOK
    <3>2. WorkerOK'
      BY <1>1, <1>2, <2>3, Parts DEF WorkerOK, IInv, TypeOK
    <3>. QED
      BY <2>3, <3>1, <3>2, Parts DEF JobsOK
  <2>. QED
    BY <1>3, <2>5, <2>7, <2>8, <2>9, Assembled
<1>. QED
  BY <1>4, <1>5, <1>6 DEF Put

LEMMA EnqueuePreviewStep ==
    ASSUME IInv, NEW c \in Callers, EnqueuePreview(c)
    PROVE  IInv'
<1>. DEFINE call == calls[c]
            outcome == IF c = Worker /\ InRange(Taken(call), call.job) THEN "SUCCEEDED" ELSE "FAILED"
<1>1. call # NULL /\ call \in Call
  BY CallTyped DEF IInv, EnqueuePreview, At
<1>2. Taken(call) \in Snapshot
  BY <1>1 DEF Call, Taken, Snapshot
<1>3. PreviewsOK'
  BY <1>2, Parts, EnqueuedOK DEF EnqueuePreview
<1>4. Return(c, outcome) /\ outcome \in {"RETRY", "SUCCEEDED", "FAILED"}
  BY DEF EnqueuePreview
<1>. HIDE DEF outcome
<1>. QED
  BY <1>1, <1>3, <1>4, ReturnStep DEF EnqueuePreview

LEMMA CoordinateStep ==
    ASSUME IInv, NEW c \in Callers, Coordinate(c)
    PROVE  IInv'
BY PlanStep, InspectStep, ObserveStep, PutStep, EnqueuePreviewStep DEF Coordinate

-----------------------------------------------------------------------------
(* The remaining steps.                                                     *)

LEMMA RestStep ==
    ASSUME IInv, NEW s \in Sessions, Rest(s)
    PROVE  IInv'
<1>1. TypeOK' /\ Counted' /\ Picked' /\ Budgeted'
  BY DEF IInv, TypeOK, Counted, Picked, Budgeted, Rest
<1>2. CallsOK' /\ SnapshotsTile'
  BY Framed DEF Rest
<1>. QED
  BY <1>1, <1>2 DEF IInv

LEMMA FinishPreviewStep ==
    ASSUME IInv, NEW sn \in DOMAIN previews, FinishPreview(sn)
    PROVE  IInv'
<1>1. PreviewsOK'
  BY Parts DEF PreviewsOK, FinishPreview
<1>2. JobsOK' /\ WorkerOK'
  BY Parts DEF JobsOK, WorkerOK, FinishPreview
<1>3. CallsOK' /\ SnapshotsTile'
  BY Framed DEF FinishPreview, source
<1>4. scan' \in Scan \cup {NULL} /\ Picked' /\ compiled' \in [Sessions -> Length]
      /\ snapshots' \in [Sessions -> Seq(Snapshot)] /\ UNCHANGED source
      /\ calls' \in [Callers -> Call \cup {NULL}]
      /\ requests' \in 0..MaxRequests /\ crashes' \in 0..MaxCrashes
  BY DEF IInv, TypeOK, Picked, FinishPreview
<1>. QED
  BY <1>1, <1>2, <1>3, <1>4, Assembled

LEMMA CrashStep ==
    ASSUME IInv, Crash
    PROVE  IInv'
<1>1. calls' = [c \in Callers |-> NULL] /\ scan' = NULL
  BY DEF Crash
<1>2. JobsOK'
  <2>1. DOMAIN jobs' = DOMAIN jobs
        /\ \A k \in DOMAIN jobs :
              jobs'[k] = IF jobs[k].status = "RUNNING" THEN Retried(jobs[k]) ELSE jobs[k]
    BY DEF Crash
  <2>2. ASSUME NEW k \in DOMAIN jobs
        PROVE  /\ k.to >= 1
               /\ jobs'[k] \in [status : Statuses, attempt : 0..MaxAttempts]
               /\ jobs'[k].status = "QUEUED" => jobs'[k].attempt < MaxAttempts
    BY <2>1, Parts, RetriedOK DEF JobsOK
  <2>. QED
    BY <2>1, <2>2, Parts DEF JobsOK
<1>3. WorkerOK' /\ CallsOK' /\ Picked' /\ calls' \in [Callers -> Call \cup {NULL}]
  BY <1>1 DEF WorkerOK, CallsOK, Picked, Callers
<1>4. SnapshotsTile' /\ PreviewsOK'
  BY TilesFramed, Parts DEF IInv, PreviewsOK, Crash
<1>5. scan' \in Scan \cup {NULL} /\ compiled' \in [Sessions -> Length]
      /\ snapshots' \in [Sessions -> Seq(Snapshot)] /\ UNCHANGED source
      /\ requests' \in 0..MaxRequests /\ crashes' \in 0..MaxCrashes
  BY CompilationAssumption DEF IInv, TypeOK, Crash
<1>. QED
  BY <1>2, <1>3, <1>4, <1>5, Assembled

-----------------------------------------------------------------------------
(* Every step of the compilation, a capture and a crash included, keeps the   *)
(* invariant.                                                              *)
THEOREM StepKeeps == IInv /\ [Next]_vars => IInv'
<1>. SUFFICES ASSUME IInv, [Next]_vars PROVE IInv'
  OBVIOUS
<1>1. ASSUME NEW s \in Sessions, NEW event \in BOOLEAN, Write(s, event) PROVE IInv'
  BY <1>1, WriteStep
<1>2. ASSUME NEW s \in Sessions, Capture(s) PROVE IInv'
  BY <1>2, CaptureStep
<1>3. ASSUME NEW s \in Sessions, Rest(s) PROVE IInv'
  BY <1>3, RestStep
<1>4. ASSUME NEW s \in Sessions, NEW prompt \in BOOLEAN, ProcessSession(s, prompt) PROVE IInv'
  BY <1>4, ProcessSessionStep
<1>5. ASSUME NEW s \in Sessions, NEW c \in Clients, Extract(c, s) PROVE IInv'
  BY <1>5, ExtractStep
<1>6. CASE Scheduler
  BY <1>6, StartScanStep, ValidateStep, DispatchPreviewStep, RecordStep, EndScanStep DEF Scheduler
<1>7. ASSUME NEW k \in DOMAIN jobs, RunJob(k) PROVE IInv'
  BY <1>7, RunJobStep
<1>8. ASSUME NEW c \in Callers, Coordinate(c) PROVE IInv'
  BY <1>8, CoordinateStep
<1>9. ASSUME NEW sn \in DOMAIN previews, FinishPreview(sn) PROVE IInv'
  BY <1>9, FinishPreviewStep
<1>10. CASE Crash
  BY <1>10, CrashStep
<1>11. CASE UNCHANGED vars
  <2>1. TypeOK' /\ Counted' /\ Picked' /\ Budgeted'
    BY <1>11 DEF IInv, TypeOK, Counted, Picked, Budgeted, vars, source
  <2>2. CallsOK' /\ SnapshotsTile'
    BY <1>11, Framed DEF vars, source
  <2>. QED
    BY <2>1, <2>2 DEF IInv
<1>. QED
  BY <1>1, <1>2, <1>3, <1>4, <1>5, <1>6, <1>7, <1>8, <1>9, <1>10, <1>11 DEF Next

(* The types of KnowledgeCompilation hold in every reachable state: no budget,  *)
(* capacity or sequence number leaves its range.                            *)
THEOREM TypeCorrect == Spec => []TypeOK
<1>1. IInv => TypeOK
  BY DEF IInv
<1>. QED
  BY <1>1, Initially, StepKeeps, PTL DEF Spec

(* Whatever calls, captures and crashes come between, the snapshots of a        *)
(* session have neither gaps nor partial overlaps: KnowledgeCompilation's       *)
(* SnapshotsTile, the promise of the capture-revision comparison in             *)
(* createSnapshot.                                                         *)
THEOREM RangesTile == Spec => []SnapshotsTile
<1>1. IInv => SnapshotsTile
  BY DEF IInv
<1>. QED
  BY <1>1, Initially, StepKeeps, PTL DEF Spec

-----------------------------------------------------------------------------
(* Jobs, claims and previews.  The three promises need to know what a scan   *)
(* and the worker hold between two of their steps.                           *)

(* Snapshots and calls are of the session they are filed under; the worker's  *)
(* call is the attempt that its job is running.                             *)
Owned ==
    /\ \A s \in Sessions : \A i \in DOMAIN snapshots[s] : snapshots[s][i].session = s
    /\ calls[Worker] # NULL =>
          /\ calls[Worker].job.session = calls[Worker].session
          /\ jobs[calls[Worker].job].status = "RUNNING"

(* What a scan may still enqueue was free when it began and still is.         *)
Waits == {k \in DOMAIN jobs : jobs[k].status \in Outstanding}
Reserved == IF scan = NULL THEN 0 ELSE IF scan.queued THEN scan.limit - 1 ELSE scan.limit

Metered ==
    /\ scan # NULL /\ scan.queued => scan.step = "record"
    /\ Cardinality(Waits) + Reserved <= MaxOutstanding

(* What a scan is about to claim is backed before it claims it.               *)
Backed(s, n) ==
    \/ LastTo(s) >= n
    \/ \E k \in DOMAIN jobs : k.session = s /\ k.to = n

Recorded == scan # NULL /\ scan.step = "record" => Backed(scan.session, scan.expected)

HasPreview(k) == \E sn \in DOMAIN previews : sn.session = k.session /\ InRange(sn, k)

BInv == Owned /\ Metered /\ Recorded /\ ClaimBacked /\ SuccessBacked

(* How a step that is not the enqueue of the scan changes the table of jobs.  *)
JobsSettle ==
    /\ DOMAIN jobs' = DOMAIN jobs
    /\ \A k \in DOMAIN jobs :
          /\ jobs'[k].status \in Outstanding => jobs[k].status \in Outstanding
          /\ jobs'[k].status = "SUCCEEDED" => jobs[k].status = "SUCCEEDED" \/ HasPreview(k)'

LEMMA RetriedStatus ==
    ASSUME NEW job \in [status : Statuses, attempt : 0..MaxAttempts]
    PROVE  Retried(job).status \in {"QUEUED", "FAILED"}
BY DEF Retried

LEMMA JobTyped ==
    ASSUME IInv, NEW k \in DOMAIN jobs
    PROVE  jobs[k] \in [status : Statuses, attempt : 0..MaxAttempts] /\ k \in JobKey
BY DEF IInv, TypeOK

(* The worker's call ends: SUCCEEDED needs a preview of the job's range.      *)
LEMMA ReturnSettles ==
    ASSUME IInv, Owned, NEW c \in Callers, calls[c] # NULL, NEW outcome, Return(c, outcome),
           c = Worker => outcome \in {"RETRY", "SUCCEEDED", "FAILED"},
           NEW k, c = Worker => k = calls[c].job,
           c = Worker /\ outcome = "SUCCEEDED" => HasPreview(k)'
    PROVE  JobsSettle /\ (calls'[Worker] # NULL => calls'[Worker] = calls[Worker] /\ UNCHANGED jobs)
<1>1. CASE c # Worker
  BY <1>1 DEF Return, JobsSettle
<1>2. CASE c = Worker
  <2>. DEFINE job == IF outcome = "RETRY" THEN Retried(jobs[k]) ELSE [jobs[k] EXCEPT !.status = outcome]
  <2>1. k \in DOMAIN jobs /\ jobs[k] \in [status : Statuses, attempt : 0..MaxAttempts]
        /\ jobs[k].status = "RUNNING"
    BY <1>2, Parts, JobTyped DEF Owned, WorkerOK
  <2>2. jobs' = [jobs EXCEPT ![k] = job]
    BY <1>2 DEF Return
  <2>3. job.status \in {"QUEUED", "FAILED", "SUCCEEDED"} /\ (job.status = "SUCCEEDED" => outcome = "SUCCEEDED")
    BY <1>2, <2>1, RetriedStatus
  <2>4. calls'[Worker] = NULL
    BY <1>2 DEF Return, IInv, TypeOK
  <2>. HIDE DEF job
  <2>5. DOMAIN jobs' = DOMAIN jobs /\ \A j \in DOMAIN jobs : jobs'[j] = IF j = k THEN job ELSE jobs[j]
    BY <2>2
  <2>6. outcome = "SUCCEEDED" => HasPreview(k)'
    BY <1>2
  <2>7. jobs[k].status \in Outstanding
    BY <2>1 DEF Outstanding
  <2>. QED
    BY <2>3, <2>4, <2>5, <2>6, <2>7 DEF JobsSettle
<1>. QED
  BY <1>1, <1>2

LEMMA EnqueuedHas ==
    ASSUME NEW sn, previews' = Enqueued(sn)
    PROVE  DOMAIN previews' = DOMAIN previews \cup {sn}
BY DEF Enqueued, With

(* A coordinate call, whatever it does.                                      *)
LEMMA CallSettles ==
    ASSUME IInv, Owned, NEW c \in Callers, Coordinate(c)
    PROVE  /\ JobsSettle
           /\ calls'[Worker] # NULL => /\ calls[Worker] # NULL /\ UNCHANGED jobs
                                       /\ calls'[Worker].job = calls[Worker].job
                                       /\ calls'[Worker].session = calls[Worker].session
           /\ DOMAIN previews \subseteq DOMAIN previews'
           /\ UNCHANGED <<scan, compiled>>
<1>. DEFINE call == calls[c]
            Goal == /\ JobsSettle
                    /\ calls'[Worker] # NULL => /\ calls[Worker] # NULL /\ UNCHANGED jobs
                                                /\ calls'[Worker].job = calls[Worker].job
                                                /\ calls'[Worker].session = calls[Worker].session
<1>1. call # NULL /\ call \in Call /\ call.session \in Sessions /\ calls \in [Callers -> Call \cup {NULL}]
  BY CallTyped DEF IInv, TypeOK, Coordinate, Plan, Inspect, Observe, Put, EnqueuePreview, At
<1>2. /\ UNCHANGED <<scan, compiled>>
      /\ previews' = previews \/ \E sn : previews' = Enqueued(sn)
  BY DEF Coordinate, Plan, Inspect, Observe, Put, EnqueuePreview
<1>3. DOMAIN previews \subseteq DOMAIN previews'
  BY <1>2, EnqueuedHas
<1>. SUFFICES Goal
  BY <1>2, <1>3
<1>4. ASSUME NEW v, Advance(c, v), UNCHANGED jobs, v.job = call.job, v.session = call.session
      PROVE  Goal
  <2>1. calls'[Worker] = IF c = Worker THEN v ELSE calls[Worker]
    BY <1>1, <1>4 DEF Advance, Callers
  <2>. QED
    BY <1>1, <1>4, <2>1 DEF JobsSettle
<1>. PICK k : k = call.job
  OBVIOUS
<1>5. ASSUME NEW outcome, Return(c, outcome), outcome \in {"RETRY", "FAILED"} \/ c # Worker
      PROVE  Goal
  BY <1>1, <1>5, ReturnSettles
<1>6. CASE Plan(c)
  <2>. PICK v : v = [call EXCEPT !.step = "inspect", !.from = LastTo(call.session) + 1]
    OBVIOUS
  <2>0. v.job = call.job /\ v.session = call.session
    BY <1>1 DEF Call
  <2>1. CASE Advance(c, v) /\ UNCHANGED jobs
    BY <1>4, <2>0, <2>1
  <2>2. CASE c = Worker /\ Return(c, CurrentOutcome(call)) /\ UNCHANGED previews
             /\ LastTo(call.session) >= call.expected
    <3>. DEFINE sn == LastSnapshot(call.session)
    <3>1. CallOK(call) /\ call.expected \in Nat /\ call.expected >= 1
      BY <1>1, CallTyped DEF IInv, CallsOK, CallOK
    <3>2. snapshots[call.session] # << >> /\ snapshots[call.session] \in Seq(Snapshot)
      BY <1>1, <2>2, <3>1 DEF LastTo, IInv, TypeOK
    <3>3. sn.session = call.session
      BY <1>1, <3>2 DEF LastSnapshot, Owned
    <3>4. ASSUME CurrentOutcome(call) = "SUCCEEDED"
          PROVE  HasPreview(k)'
      <4>1. InRange(sn, k) /\ sn \in DOMAIN previews
        BY <3>4 DEF CurrentOutcome
      <4>2. k.session = call.session
        BY <1>1, <2>2 DEF Owned
      <4>3. PICK z : z = sn
        OBVIOUS
      <4>4. z \in DOMAIN previews' /\ z.session = k.session /\ InRange(z, k)
        BY <2>2, <3>3, <4>1, <4>2, <4>3
      <4>. QED
        BY <4>4 DEF HasPreview, InRange
    <3>5. CurrentOutcome(call) \in {"RETRY", "SUCCEEDED", "FAILED"}
      BY DEF CurrentOutcome
    <3>6. PICK outcome : outcome = CurrentOutcome(call)
      OBVIOUS
    <3>7. JobsSettle /\ (calls'[Worker] # NULL => calls'[Worker] = calls[Worker] /\ UNCHANGED jobs)
      BY <1>1, <2>2, <3>4, <3>5, <3>6, ReturnSettles
    <3>8. calls'[Worker] = NULL
      BY <1>1, <2>2 DEF Return
    <3>. QED
      BY <3>7, <3>8
  <2>. QED
    BY <1>5, <1>6, <2>1, <2>2 DEF Plan
<1>7. CASE Inspect(c)
  BY <1>1, <1>4, <1>7 DEF Inspect, Call
<1>8. CASE Observe(c)
  <2>. PICK v : v = [call EXCEPT !.step = "put"]
    OBVIOUS
  <2>0. v.job = call.job /\ v.session = call.session
    BY <1>1 DEF Call
  <2>1. CASE Advance(c, v) /\ UNCHANGED jobs
    BY <1>4, <2>0, <2>1
  <2>. QED
    BY <1>5, <1>8, <2>1 DEF Observe
<1>9. CASE Put(c)
  <2>. PICK v : v = [call EXCEPT !.step = "preview"]
    OBVIOUS
  <2>0. v.job = call.job /\ v.session = call.session
    BY <1>1 DEF Call
  <2>1. CASE Advance(c, v) /\ UNCHANGED jobs
    BY <1>4, <2>0, <2>1
  <2>. QED
    BY <1>5, <1>9, <2>1 DEF Put
<1>10. CASE EnqueuePreview(c)
  <2>. DEFINE good == c = Worker /\ InRange(Taken(call), call.job)
  <2>1. Return(c, IF good THEN "SUCCEEDED" ELSE "FAILED") /\ Taken(call) \in DOMAIN previews'
    BY <1>10, EnqueuedHas DEF EnqueuePreview
  <2>2. good => HasPreview(k)'
    <3>1. good => k.session = call.session
      BY <1>1 DEF Owned
    <3>2. ASSUME good
          PROVE  HasPreview(k)'
      <4>1. PICK sn : sn = Taken(call)
        OBVIOUS
      <4>2. sn \in DOMAIN previews' /\ sn.session = k.session /\ InRange(sn, k)
        BY <2>1, <3>1, <3>2, <4>1 DEF InRange, Taken
      <4>. QED
        BY <4>2 DEF HasPreview, InRange
    <3>. QED
      BY <3>2
  <2>3. PICK outcome : outcome = IF good THEN "SUCCEEDED" ELSE "FAILED"
    OBVIOUS
  <2>4. JobsSettle /\ (calls'[Worker] # NULL => calls'[Worker] = calls[Worker] /\ UNCHANGED jobs)
    BY <1>1, <2>1, <2>2, <2>3, ReturnSettles
  <2>5. calls'[Worker] # NULL => calls[Worker] # NULL
    BY <1>1, <2>4
  <2>. QED
    BY <2>4, <2>5
<1>. QED
  BY <1>6, <1>7, <1>8, <1>9, <1>10 DEF Coordinate

(* The enqueue of the scan.                                                  *)
Enqueues ==
    /\ scan # NULL /\ scan.step = "plan" /\ scan' = [scan EXCEPT !.step = "record", !.queued = TRUE]
    /\ \E key : /\ key.session = scan.session /\ key.to = scan.expected
                /\ \/ key \in DOMAIN jobs /\ UNCHANGED jobs
                   \/ /\ key \notin DOMAIN jobs
                      /\ jobs' = With(jobs, key, [status |-> "QUEUED", attempt |-> 0])
    /\ UNCHANGED <<source, compiled, snapshots, previews, calls>>

LEMMA UnchangedSettles ==
    ASSUME UNCHANGED jobs
    PROVE  JobsSettle
BY DEF JobsSettle

LEMMA DispatchEnqueues ==
    ASSUME DispatchPreview
    PROVE  \/ Enqueues
           \/ UNCHANGED jobs /\ scan' = Done(scan.session)
           \/ /\ UNCHANGED jobs /\ scan' = [scan EXCEPT !.step = "record"]
              /\ LastTo(scan.session) >= scan.expected
<1>1. CASE LastTo(scan.session) < scan.expected /\ Current(scan.session)
  <2>. PICK key : key = [session |-> scan.session, from |-> LastTo(scan.session) + 1, to |-> scan.expected]
    OBVIOUS
  <2>. QED
    BY <1>1 DEF DispatchPreview, Enqueues, Scanning, Stale
<1>2. CASE ~(LastTo(scan.session) < scan.expected /\ Current(scan.session))
  BY <1>2 DEF DispatchPreview, Stale
<1>. QED
  BY <1>1, <1>2

LEMMA CrashSettles ==
    ASSUME IInv, Crash
    PROVE  JobsSettle
<1>1. ASSUME NEW k \in DOMAIN jobs
      PROVE  \/ jobs'[k].status = jobs[k].status
             \/ jobs[k].status = "RUNNING" /\ jobs'[k].status \in {"QUEUED", "FAILED"}
  <2>1. jobs'[k] = IF jobs[k].status = "RUNNING" THEN Retried(jobs[k]) ELSE jobs[k]
    BY DEF Crash
  <2>2. Retried(jobs[k]).status \in {"QUEUED", "FAILED"}
    BY JobTyped, RetriedStatus
  <2>. QED
    BY <2>1, <2>2
<1>2. DOMAIN jobs' = DOMAIN jobs
  BY DEF Crash
<1>. QED
  BY <1>1, <1>2 DEF JobsSettle, Outstanding

(* The table of jobs and that of previews only grow; what else may happen to *)
(* a job.                                                                   *)
LEMMA TableStep ==
    ASSUME IInv, Owned, [Next]_vars
    PROVE  /\ DOMAIN previews \subseteq DOMAIN previews'
           /\ Enqueues \/ JobsSettle
<1>1. ASSUME NEW s \in Sessions,
             \/ \E event \in BOOLEAN : Write(s, event)
             \/ Capture(s) \/ Rest(s)
             \/ \E prompt \in BOOLEAN : ProcessSession(s, prompt)
             \/ \E c \in Clients : Extract(c, s)
      PROVE  UNCHANGED <<jobs, previews>>
  BY <1>1 DEF Write, Capture, Rest, ProcessSession, Extract
<1>2. CASE StartScan \/ Validate \/ Record \/ EndScan \/ UNCHANGED vars
  BY <1>2, UnchangedSettles DEF StartScan, Validate, Record, EndScan, vars
<1>3. CASE DispatchPreview
  <2>1. UNCHANGED previews
    BY <1>3 DEF DispatchPreview
  <2>. QED
    BY <1>3, <2>1, DispatchEnqueues, UnchangedSettles
<1>4. ASSUME NEW k \in DOMAIN jobs, RunJob(k)
      PROVE  JobsSettle /\ UNCHANGED previews
  <2>. PICK job : job = IF ledger[k.session] = k.to THEN [status |-> "RUNNING", attempt |-> jobs[k].attempt + 1]
                        ELSE Retried([status |-> "RUNNING", attempt |-> jobs[k].attempt + 1])
    OBVIOUS
  <2>1. jobs' = [jobs EXCEPT ![k] = job] /\ UNCHANGED previews /\ jobs[k].status = "QUEUED"
    BY <1>4 DEF RunJob
  <2>2. [status |-> "RUNNING", attempt |-> jobs[k].attempt + 1] \in [status : Statuses, attempt : 0..MaxAttempts]
    BY <1>4, CompilationAssumption DEF IInv, TypeOK, Budgeted, RunJob, Statuses
  <2>3. job.status \in {"RUNNING", "QUEUED", "FAILED"}
    BY <2>2, RetriedStatus
  <2>4. DOMAIN jobs' = DOMAIN jobs /\ \A j \in DOMAIN jobs : jobs'[j] = IF j = k THEN job ELSE jobs[j]
    BY <2>1
  <2>5. jobs[k].status \in Outstanding
    BY <2>1 DEF Outstanding
  <2>. QED
    BY <2>1, <2>3, <2>4, <2>5 DEF JobsSettle
<1>5. ASSUME NEW c \in Callers, Coordinate(c)
      PROVE  JobsSettle /\ DOMAIN previews \subseteq DOMAIN previews'
  BY <1>5, CallSettles
<1>6. ASSUME NEW sn \in DOMAIN previews, FinishPreview(sn)
      PROVE  UNCHANGED jobs /\ DOMAIN previews' = DOMAIN previews
  BY <1>6 DEF FinishPreview
<1>7. CASE Crash
  BY <1>7, CrashSettles DEF Crash
<1>. QED
  BY <1>1, <1>2, <1>3, <1>4, <1>5, <1>6, <1>7, UnchangedSettles DEF Next, Scheduler

(* A session's last snapshot ends ever later.                                 *)
LEMMA SnapshotStep ==
    ASSUME IInv, Owned, [Next]_vars
    PROVE  /\ \A s \in Sessions : \A i \in DOMAIN snapshots'[s] : snapshots'[s][i].session = s
           /\ \A s \in Sessions : LastTo(s)' \in Nat /\ LastTo(s) <= LastTo(s)'
<1>1. CASE UNCHANGED snapshots
  <2>1. \A s \in Sessions : LastTo(s) \in Nat
    BY LastTyped, CompilationAssumption DEF IInv, Length
  <2>. QED
    BY <1>1, <2>1 DEF Owned, LastTo, LastSnapshot
<1>2. ASSUME NEW c \in Callers, Put(c), snapshots' # snapshots
      PROVE  /\ \A s \in Sessions : \A i \in DOMAIN snapshots'[s] : snapshots'[s][i].session = s
             /\ \A s \in Sessions : LastTo(s)' \in Nat /\ LastTo(s) <= LastTo(s)'
  <2>. DEFINE call == calls[c]
  <2>1. /\ call \in Call /\ call.session \in Sessions /\ call.from \in Nat /\ call.expected \in Nat
        /\ CallOK(call) /\ call.step = "put" /\ Unchanged(call)
        /\ snapshots' = [snapshots EXCEPT ![call.session] = Append(@, Taken(call))]
    BY <1>2, CallTyped DEF IInv, CallsOK, Put, At
  <2>. PICK t \in Sessions : t = call.session
    BY <2>1
  <2>. PICK sn : sn = Taken(call)
    OBVIOUS
  <2>2. call.from <= call.expected /\ Fits(call)
    BY <2>1 DEF CallOK, Unchanged
  <2>3. LastTo(t) <= call.expected
    BY <2>1, <2>2, LastTyped, CompilationAssumption DEF Fits, LastTo, IInv, Length
  <2>4. sn.session = t /\ sn.to = call.expected
    BY DEF Taken
  <2>5. /\ snapshots[t] \in Seq(Snapshot) /\ sn \in Snapshot
        /\ snapshots'[t] = Append(snapshots[t], sn)
        /\ \A s \in Sessions : s # t => snapshots'[s] = snapshots[s]
    BY <2>1 DEF IInv, TypeOK, Taken, Snapshot, Call
  <2>6. /\ DOMAIN snapshots'[t] = 1 .. Len(snapshots[t]) + 1 /\ snapshots'[t] # << >>
        /\ snapshots'[t][Len(snapshots'[t])] = sn
        /\ \A i \in DOMAIN snapshots'[t] : snapshots'[t][i] = sn \/ (i \in DOMAIN snapshots[t] /\ snapshots'[t][i] = snapshots[t][i])
    BY <2>5
  <2>7. LastTo(t)' = call.expected
    BY <2>4, <2>6 DEF LastTo, LastSnapshot
  <2>8. \A s \in Sessions : s # t => LastTo(s)' = LastTo(s) /\ LastTo(s) \in Nat
    BY <2>5, LastTyped, CompilationAssumption DEF LastTo, LastSnapshot, IInv, Length
  <2>9. \A s \in Sessions : \A i \in DOMAIN snapshots'[s] : snapshots'[s][i].session = s
    <3>1. ASSUME NEW i \in DOMAIN snapshots'[t]
          PROVE  snapshots'[t][i].session = t
      <4>1. \A j \in DOMAIN snapshots[t] : snapshots[t][j].session = t
        BY DEF Owned
      <4>. QED
        BY <2>4, <2>6, <4>1, Zenon
    <3>2. ASSUME NEW s \in Sessions, s # t, NEW i \in DOMAIN snapshots'[s]
          PROVE  snapshots'[s][i].session = s
      BY <2>5, <3>2 DEF Owned
    <3>. QED
      BY <3>1, <3>2
  <2>. QED
    BY <2>1, <2>3, <2>7, <2>8, <2>9
<1>3. UNCHANGED snapshots \/ \E c \in Callers : Put(c)
  BY Zenon
     DEF Next, vars, Write, Capture, Rest, ProcessSession, Extract, Scheduler, StartScan, Validate,
         DispatchPreview, Record, EndScan, RunJob, Coordinate, Plan, Inspect, Observe, EnqueuePreview,
         FinishPreview, Crash
<1>. QED
  BY <1>1, <1>2, <1>3

LEMMA OwnedStep ==
    ASSUME IInv, Owned, [Next]_vars
    PROVE  Owned'
<1>. DEFINE Goal == calls'[Worker] # NULL =>
                       /\ calls'[Worker].job.session = calls'[Worker].session
                       /\ jobs'[calls'[Worker].job].status = "RUNNING"
<1>. SUFFICES Goal
  BY SnapshotStep DEF Owned
<1>0. calls \in [Callers -> Call \cup {NULL}] /\ Worker \in Callers
  BY DEF IInv, TypeOK, Callers
<1>1. CASE calls'[Worker] = calls[Worker] /\ UNCHANGED jobs
  BY <1>1 DEF Owned
<1>2. CASE UNCHANGED <<calls, jobs>>
  BY <1>1, <1>2
<1>3. ASSUME NEW c \in Clients, NEW s \in Sessions, Extract(c, s)
      PROVE  Goal
  BY <1>0, <1>1, <1>3, WorkerAssumption DEF Extract
<1>4. CASE DispatchPreview
  <2>1. calls[Worker] # NULL => calls[Worker].job \in DOMAIN jobs
    BY Parts DEF WorkerOK
  <2>2. calls' = calls
    BY <1>4 DEF DispatchPreview
  <2>3. \A k \in DOMAIN jobs : jobs'[k] = jobs[k]
    BY <1>4 DEF DispatchPreview, With
  <2>. QED
    BY <2>1, <2>2, <2>3 DEF Owned
<1>5. ASSUME NEW k \in DOMAIN jobs, RunJob(k)
      PROVE  Goal
  <2>1. CASE ledger[k.session] = k.to
    <3>1. calls'[Worker] = NewCall(k.session, k.to, k) /\ jobs'[k].status = "RUNNING"
      BY <1>0, <1>5, <2>1 DEF RunJob
    <3>. QED
      BY <3>1 DEF NewCall
  <2>2. CASE ledger[k.session] # k.to
    BY <1>5, <2>2 DEF RunJob
  <2>. QED
    BY <2>1, <2>2
<1>6. ASSUME NEW c \in Callers, Coordinate(c)
      PROVE  Goal
  BY <1>6, CallSettles DEF Owned
<1>7. CASE Crash
  BY <1>0, <1>7, Zenon DEF Crash
<1>8. ASSUME \/ StartScan \/ Validate \/ Record \/ EndScan \/ UNCHANGED vars
             \/ \E sn \in DOMAIN previews : FinishPreview(sn)
             \/ \E s \in Sessions : \/ \E event \in BOOLEAN : Write(s, event)
                                    \/ Capture(s) \/ Rest(s)
                                    \/ \E prompt \in BOOLEAN : ProcessSession(s, prompt)
      PROVE  UNCHANGED <<calls, jobs>>
  BY <1>8 DEF StartScan, Validate, Record, EndScan, vars, FinishPreview, Write, Capture, Rest, ProcessSession
<1>. QED
  BY <1>2, <1>3, <1>4, <1>5, <1>6, <1>7, <1>8 DEF Next, Scheduler

(* Jobs are never deleted and snapshots never shrink.                         *)
LEMMA BackedStays ==
    ASSUME IInv, Owned, [Next]_vars, NEW s \in Sessions, NEW n \in Nat, Backed(s, n)
    PROVE  Backed(s, n)'
<1>1. DOMAIN jobs \subseteq DOMAIN jobs'
  <2>1. Enqueues => DOMAIN jobs \subseteq DOMAIN jobs'
    BY DEF Enqueues, With
  <2>. QED
    BY <2>1, TableStep DEF JobsSettle
<1>2. LastTo(s) \in Nat /\ LastTo(s)' \in Nat /\ LastTo(s) <= LastTo(s)'
  BY LastTyped, SnapshotStep, CompilationAssumption DEF IInv, Length
<1>. QED
  BY <1>1, <1>2 DEF Backed

(* What each step of the scan does to it.                                     *)
LEMMA ScanStep ==
    ASSUME IInv, [Next]_vars
    PROVE  \/ UNCHANGED <<scan, compiled>>
           \/ scan' = NULL /\ UNCHANGED compiled
           \/ StartScan
           \/ Enqueues
           \/ /\ scan # NULL /\ UNCHANGED <<compiled, jobs, snapshots>>
              /\ \/ scan' = Done(scan.session) /\ scan.step \in {"validate", "plan"}
                 \/ scan.step = "next" /\ \E s \in Sessions : scan' = Done(s)
                 \/ /\ scan.step = "next"
                    /\ \E s \in Sessions : scan' = [scan EXCEPT !.session = s, !.step = "validate", !.expected = ledger[s]]
                 \/ scan' = [scan EXCEPT !.step = "plan"] /\ scan.step = "validate"
                 \/ /\ scan' = [scan EXCEPT !.step = "record"] /\ scan.step = "plan"
                    /\ LastTo(scan.session) >= scan.expected
           \/ Record
<1>1. CASE DispatchPreview
  BY <1>1, DispatchEnqueues DEF DispatchPreview, Scanning
<1>2. CASE Validate
  BY <1>2 DEF Validate, Scanning, Stale
<1>3. ASSUME NEW s \in Sessions, NEW prompt \in BOOLEAN, ProcessSession(s, prompt)
      PROVE  /\ scan # NULL /\ UNCHANGED <<compiled, jobs, snapshots>> /\ scan.step = "next"
             /\ \/ scan' = Done(s)
                \/ scan' = [scan EXCEPT !.session = s, !.step = "validate", !.expected = ledger[s]]
  BY <1>3 DEF ProcessSession
<1>4. CASE EndScan \/ Crash
  BY <1>4, Zenon DEF EndScan, Crash
<1>5. ASSUME \/ \E sn \in DOMAIN previews : FinishPreview(sn)
             \/ UNCHANGED vars
             \/ \E s \in Sessions : \/ \E event \in BOOLEAN : Write(s, event)
                                    \/ Capture(s) \/ Rest(s)
                                    \/ \E c \in Clients : Extract(c, s)
             \/ \E k \in DOMAIN jobs : RunJob(k)
             \/ \E c \in Callers : Coordinate(c)
      PROVE  UNCHANGED <<scan, compiled>>
  BY <1>5, Zenon DEF vars, FinishPreview, Write, Capture, Rest, Extract, RunJob, Coordinate, Plan, Inspect, Observe,
              Put, EnqueuePreview
<1>. QED
  BY <1>1, <1>2, <1>3, <1>4, <1>5 DEF Next, Scheduler

LEMMA DoneFields ==
    ASSUME IInv, scan # NULL, NEW s
    PROVE  Done(s).step = "next" /\ Done(s).limit = scan.limit /\ ~Done(s).queued
<1>1. scan \in Scan
  BY DEF IInv, TypeOK
<1>. QED
  BY <1>1 DEF Done, Scan

(* A claim is recorded when it is backed, and stays backed.                   *)
LEMMA ClaimStep ==
    ASSUME IInv, BInv, [Next]_vars
    PROVE  Recorded' /\ ClaimBacked'
<1>0. Owned
  BY DEF BInv
<1>1. scan # NULL => scan \in Scan /\ scan.expected \in Nat
  BY CompilationAssumption DEF IInv, TypeOK, Scan, Length
<1>2. scan # NULL /\ scan.step # "next" => scan.session \in Sessions
  BY DEF IInv, Picked
<1>3. compiled \in [Sessions -> Nat]
  BY CompilationAssumption DEF IInv, TypeOK, Length
<1>4. ASSUME UNCHANGED compiled
      PROVE  ClaimBacked'
  <2>1. ASSUME NEW s \in Sessions, compiled[s] > 0
        PROVE  Backed(s, compiled[s])'
    <3>. PICK n \in Nat : n = compiled[s]
      BY <1>3
    <3>1. Backed(s, n)'
      BY <1>0, <2>1, BackedStays DEF BInv, ClaimBacked, Backed
    <3>. QED
      BY <1>4, <3>1 DEF Backed
  <2>. QED
    BY <1>4, <2>1 DEF ClaimBacked, Backed
<1>5. ASSUME scan' # NULL /\ scan'.step # "record"
      PROVE  Recorded'
  BY <1>5 DEF Recorded
<1>6. CASE UNCHANGED <<scan, compiled>>
  <2>1. ASSUME scan # NULL, scan.step = "record"
        PROVE  Backed(scan.session, scan.expected)'
    <3>. PICK s \in Sessions, n \in Nat : s = scan.session /\ n = scan.expected
      BY <1>1, <1>2, <2>1
    <3>1. Backed(s, n)'
      BY <1>0, <2>1, BackedStays DEF BInv, Recorded
    <3>. QED
      BY <1>6, <3>1 DEF Backed
  <2>. QED
    BY <1>4, <1>6, <2>1 DEF Recorded
<1>7. CASE scan' = NULL /\ UNCHANGED compiled
  BY <1>4, <1>7 DEF Recorded
<1>8. CASE StartScan
  BY <1>4, <1>8 DEF StartScan, Recorded
<1>9. CASE Enqueues
  <2>. PICK s, n : s = scan.session /\ n = scan.expected
    OBVIOUS
  <2>1. scan'.session = s /\ scan'.expected = n
    BY <1>1, <1>9 DEF Enqueues, Scan
  <2>2. \E k \in DOMAIN jobs' : k.session = s /\ k.to = n
    BY <1>9 DEF Enqueues, With
  <2>. QED
    BY <1>4, <1>9, <2>1, <2>2 DEF Recorded, Enqueues, Backed
<1>10. CASE scan # NULL /\ UNCHANGED compiled /\ \E s : scan' = Done(s)
  BY <1>4, <1>10, DoneFields DEF Recorded
<1>11. CASE scan # NULL /\ UNCHANGED compiled
            /\ \/ \E s \in Sessions : scan' = [scan EXCEPT !.session = s, !.step = "validate", !.expected = ledger[s]]
               \/ scan' = [scan EXCEPT !.step = "plan"]
  <2>1. scan'.step # "record"
    BY <1>1, <1>11 DEF Scan
  <2>. QED
    BY <1>4, <1>11, <2>1 DEF Recorded
<1>12. CASE /\ scan # NULL /\ UNCHANGED <<compiled, jobs, snapshots>> /\ scan.step = "plan"
            /\ scan' = [scan EXCEPT !.step = "record"] /\ LastTo(scan.session) >= scan.expected
  <2>. PICK s, n : s = scan.session /\ n = scan.expected
    OBVIOUS
  <2>1. scan'.session = s /\ scan'.expected = n
    BY <1>1, <1>12 DEF Scan
  <2>2. LastTo(s)' >= n
    BY <1>12 DEF LastTo, LastSnapshot
  <2>. QED
    BY <1>4, <1>12, <2>1, <2>2 DEF Recorded, Backed, LastTo, LastSnapshot
<1>13. CASE Record
  <2>. PICK s \in Sessions, n \in Nat : s = scan.session /\ n = scan.expected
    BY <1>1, <1>2, <1>13 DEF Record, Scanning
  <2>1. Backed(s, n)'
    BY <1>0, <1>13, BackedStays DEF BInv, Recorded, Record, Scanning
  <2>2. ASSUME NEW z \in Sessions, NEW m \in Nat, m = compiled'[z], m > 0
        PROVE  Backed(z, m)'
    <3>1. CASE z = s
      <4>1. m = n
        BY <1>3, <1>13, <2>2, <3>1 DEF Record
      <4>. QED
        BY <2>1, <3>1, <4>1
    <3>2. CASE z # s
      <4>1. compiled[z] = m
        BY <1>3, <1>13, <2>2, <3>2 DEF Record
      <4>. QED
        BY <1>0, <2>2, <4>1, BackedStays DEF BInv, ClaimBacked, Backed
    <3>. QED
      BY <3>1, <3>2
  <2>3. ClaimBacked'
    <3>1. compiled' \in [Sessions -> Nat]
      BY <1>3, <1>13 DEF Record
    <3>. QED
      BY <2>2, <3>1 DEF ClaimBacked, Backed
  <2>4. scan'.step = "next"
    <3>1. Done(scan.session) \in Scan /\ Done(scan.session).step = "next"
      BY <1>13, DoneTyped DEF IInv, Record, Scanning
    <3>. QED
      BY <1>13, <3>1 DEF Record, Scan
  <2>. QED
    BY <2>3, <2>4 DEF Recorded
<1>. QED
  BY <1>6, <1>7, <1>8, <1>9, <1>10, <1>11, <1>12, <1>13, ScanStep

(* What may still be enqueued after the step was free before it, or is a new  *)
(* job now.                                                                 *)
LEMMA MeterKept ==
    ASSUME IInv, Metered, Waits' \subseteq Waits, Reserved \in Int, Reserved' \in Int, Reserved' <= Reserved,
           scan' # NULL /\ scan'.queued => scan'.step = "record"
    PROVE  Metered'
<1>1. IsFiniteSet(Waits)
  BY FS_Subset DEF IInv, Budgeted, Waits
<1>2. Cardinality(Waits') <= Cardinality(Waits) /\ Cardinality(Waits) \in Nat /\ Cardinality(Waits') \in Nat
  BY <1>1, FS_Subset, FS_CardinalityType
<1>. QED
  BY <1>2, CompilationAssumption DEF Metered

LEMMA MeterStep ==
    ASSUME IInv, BInv, [Next]_vars
    PROVE  Metered'
<1>0. Owned /\ Metered
  BY DEF BInv
<1>1. scan # NULL => scan \in Scan /\ scan.limit \in Nat
  BY CompilationAssumption DEF IInv, TypeOK, Scan
<1>2. scan # NULL /\ scan.step = "record" => scan.limit > 0
  BY DEF IInv, Picked
<1>3. Reserved \in Nat
  BY <1>0, <1>1, <1>2 DEF Reserved, Metered
<1>4. CASE Enqueues
  <2>1. /\ Reserved = scan.limit /\ scan.limit > 0 /\ scan.limit \in Nat
        /\ scan'.step = "record" /\ scan'.queued = TRUE /\ scan'.limit = scan.limit
    BY <1>0, <1>1, <1>4 DEF Enqueues, Reserved, Metered, Scan, IInv, Picked
  <2>2. Reserved' \in {0, scan.limit - 1}
    BY <2>1 DEF Reserved
  <2>3. PICK key : \/ key \in DOMAIN jobs /\ UNCHANGED jobs
                   \/ /\ key \notin DOMAIN jobs
                      /\ jobs' = With(jobs, key, [status |-> "QUEUED", attempt |-> 0])
    BY <1>4 DEF Enqueues
  <2>4. Waits' \subseteq Waits \cup {key}
    BY <2>3 DEF Waits, With
  <2>5. IsFiniteSet(Waits) /\ Cardinality(Waits) \in Nat
    BY FS_Subset, FS_CardinalityType DEF IInv, Budgeted, Waits
  <2>6. Cardinality(Waits') \in Nat /\ Cardinality(Waits') <= Cardinality(Waits) + 1
    <3>1. IsFiniteSet(Waits \cup {key}) /\ Cardinality(Waits \cup {key}) <= Cardinality(Waits) + 1
          /\ Cardinality(Waits \cup {key}) \in Nat
      BY <2>5, FS_AddElement, FS_CardinalityType
    <3>2. Cardinality(Waits') <= Cardinality(Waits \cup {key}) /\ Cardinality(Waits') \in Nat
      BY <2>4, <3>1, FS_Subset, FS_CardinalityType
    <3>. QED
      BY <2>5, <3>1, <3>2
  <2>7. Cardinality(Waits) + scan.limit <= MaxOutstanding
    BY <1>0, <2>1 DEF Metered
  <2>. QED
    BY <2>1, <2>2, <2>5, <2>6, <2>7, CompilationAssumption DEF Metered
<1>5. CASE JobsSettle /\ StartScan
  <2>1. jobs' = jobs /\ scan' # NULL => scan'.limit = Capacity /\ scan'.queued = FALSE
    BY <1>5 DEF StartScan
  <2>2. UNCHANGED jobs /\ (scan' # NULL => scan'.limit = Capacity /\ scan'.queued = FALSE)
    BY <1>5, <2>1 DEF StartScan
  <2>3. OutstandingJobs \in Nat
    BY OutstandingNat DEF IInv
  <2>4. Cardinality(Waits) \in Nat /\ Cardinality(Waits) <= OutstandingJobs
    <3>1. IsFiniteSet(Waits) /\ IsFiniteSet({sn \in DOMAIN previews : previews[sn] = "QUEUED"})
      BY FS_Subset DEF IInv, Budgeted, Waits
    <3>. QED
      BY <3>1, FS_CardinalityType DEF OutstandingJobs, Waits
  <2>5. Cardinality(Waits) + Capacity <= MaxOutstanding /\ Cardinality(Waits) <= MaxOutstanding
    BY <1>5, <2>3, <2>4, CompilationAssumption DEF Capacity, StartScan
  <2>6. Waits' = Waits
    BY <2>2 DEF Waits
  <2>7. Reserved' \in {0, Capacity}
    BY <2>2 DEF Reserved
  <2>. QED
    BY <2>2, <2>4, <2>5, <2>6, <2>7 DEF Metered
<1>6. ASSUME JobsSettle
      PROVE  Waits' \subseteq Waits
  BY <1>6 DEF JobsSettle, Waits
<1>7. CASE JobsSettle /\ UNCHANGED scan
  <2>1. Reserved' = Reserved
    BY <1>7 DEF Reserved
  <2>. QED
    BY <1>0, <1>3, <1>6, <1>7, <2>1, MeterKept DEF Metered
<1>8. CASE JobsSettle /\ scan' = NULL
  <2>1. Reserved' = 0
    BY <1>8 DEF Reserved
  <2>. QED
    BY <1>0, <1>3, <1>6, <1>8, <2>1, MeterKept DEF Metered
<1>9. CASE JobsSettle /\ scan # NULL /\ scan.step # "record" /\ scan'.limit = scan.limit /\ ~scan'.queued
  <2>1. ~scan.queued /\ Reserved = scan.limit
    BY <1>0, <1>9 DEF Metered, Reserved
  <2>2. Reserved' \in {0, scan.limit}
    BY <1>9 DEF Reserved
  <2>. QED
    BY <1>0, <1>1, <1>6, <1>9, <2>1, <2>2, MeterKept
<1>10. CASE JobsSettle /\ Record
  <2>1. /\ Done(scan.session) \in Scan /\ Done(scan.session).limit = scan.limit
        /\ ~Done(scan.session).queued
    BY <1>10, DoneTyped, DoneFields DEF IInv, Record, Scanning
  <2>2. scan'.limit = (IF scan.queued THEN scan.limit - 1 ELSE scan.limit) /\ ~scan'.queued
    BY <1>10, <2>1 DEF Record, Scan
  <2>3. Reserved = IF scan.queued THEN scan.limit - 1 ELSE scan.limit
    BY <1>10 DEF Reserved, Record, Scanning
  <2>4. Reserved' \in {0, Reserved}
    BY <2>2, <2>3 DEF Reserved
  <2>. QED
    BY <1>0, <1>3, <1>6, <1>10, <2>2, <2>4, MeterKept
<1>11. CASE JobsSettle /\ scan # NULL
            /\ \/ scan' = Done(scan.session) /\ scan.step \in {"validate", "plan"}
               \/ scan.step = "next" /\ \E s \in Sessions : scan' = Done(s)
  BY <1>9, <1>11, DoneFields
<1>12. CASE JobsSettle /\ scan # NULL
            /\ \/ /\ scan.step = "next"
                  /\ \E s \in Sessions : scan' = [scan EXCEPT !.session = s, !.step = "validate", !.expected = ledger[s]]
               \/ scan' = [scan EXCEPT !.step = "plan"] /\ scan.step = "validate"
               \/ scan' = [scan EXCEPT !.step = "record"] /\ scan.step = "plan"
  <2>1. scan.step # "record" /\ scan'.limit = scan.limit /\ scan'.queued = scan.queued
    BY <1>1, <1>12 DEF Scan
  <2>2. ~scan.queued
    BY <1>0, <1>12, <2>1 DEF Metered
  <2>. QED
    BY <1>9, <1>12, <2>1, <2>2
<1>13. Enqueues \/ JobsSettle
  BY <1>0, TableStep
<1>. QED
  BY <1>4, <1>5, <1>7, <1>8, <1>10, <1>11, <1>12, <1>13, ScanStep

LEMMA SuccessStep ==
    ASSUME IInv, BInv, [Next]_vars
    PROVE  SuccessBacked'
<1>1. DOMAIN previews \subseteq DOMAIN previews' /\ (Enqueues \/ JobsSettle)
  BY TableStep DEF BInv
<1>2. ASSUME NEW k \in DOMAIN jobs, jobs[k].status = "SUCCEEDED"
      PROVE  HasPreview(k)'
  BY <1>1, <1>2 DEF BInv, SuccessBacked, HasPreview, InRange
<1>3. CASE JobsSettle
  BY <1>2, <1>3 DEF JobsSettle, SuccessBacked, HasPreview
<1>4. CASE Enqueues
  <2>1. ASSUME NEW k \in DOMAIN jobs', jobs'[k].status = "SUCCEEDED"
        PROVE  k \in DOMAIN jobs /\ jobs[k].status = "SUCCEEDED"
    <3>1. PICK key : \/ key \in DOMAIN jobs /\ UNCHANGED jobs
                     \/ /\ key \notin DOMAIN jobs
                        /\ jobs' = With(jobs, key, [status |-> "QUEUED", attempt |-> 0])
      BY <1>4 DEF Enqueues
    <3>. QED
      BY <2>1, <3>1 DEF With
  <2>. QED
    BY <1>2, <2>1 DEF SuccessBacked, HasPreview
<1>. QED
  BY <1>1, <1>3, <1>4

(* The three promises about claims, successes and outstanding jobs hold       *)
(* together: BInv is inductive relative to IInv.                              *)
THEOREM AlwaysBacked == Spec => [](IInv /\ BInv)
<1>1. Init => BInv
  <2>. SUFFICES ASSUME Init
                PROVE  BInv
    OBVIOUS
  <2>1. DOMAIN jobs = {} /\ scan = NULL /\ calls[Worker] = NULL
    BY DEF Init, Callers
  <2>2. Owned /\ Recorded /\ SuccessBacked
    BY <2>1 DEF Init, Owned, Recorded, SuccessBacked
  <2>3. ClaimBacked
    BY DEF Init, ClaimBacked
  <2>4. Waits = {} /\ Reserved = 0
    BY <2>1 DEF Waits, Reserved
  <2>5. Metered
    BY <2>1, <2>4, FS_EmptySet, CompilationAssumption DEF Metered
  <2>. QED
    BY <2>2, <2>3, <2>5 DEF BInv
<1>2. IInv /\ BInv /\ [Next]_vars => BInv'
  BY OwnedStep, MeterStep, ClaimStep, SuccessStep DEF BInv
<1>. QED
  BY <1>1, <1>2, Initially, StepKeeps, PTL DEF Spec

(* A checkpoint never claims more as compiled than a job or a snapshot makes   *)
(* good: ClaimBacked, with a crash between the two databases at any point.    *)
THEOREM ClaimBackedHolds == Spec => []ClaimBacked
<1>1. BInv => ClaimBacked
  BY DEF BInv
<1>. QED
  BY <1>1, AlwaysBacked, PTL

(* A job is SUCCEEDED only with a preview of exactly its range: SuccessBacked, *)
(* whoever took the snapshot and whichever attempt asked for the preview.      *)
THEOREM SuccessBackedHolds == Spec => []SuccessBacked
<1>1. BInv => SuccessBacked
  BY DEF BInv
<1>. QED
  BY <1>1, AlwaysBacked, PTL

(* Reading the capacity once per scan is enough: Backpressure, though jobs are *)
(* retried, recovered and finished while the scan goes on.                    *)
THEOREM BackpressureHolds == Spec => []Backpressure
<1>1. IInv /\ BInv => Backpressure
  <2>. SUFFICES ASSUME IInv, BInv
                PROVE  Backpressure
    OBVIOUS
  <2>1. IsFiniteSet(Waits) /\ Cardinality(Waits) \in Nat
    BY FS_Subset, FS_CardinalityType DEF IInv, Budgeted, Waits
  <2>2. scan # NULL => scan \in Scan /\ scan.limit \in Nat
    BY CompilationAssumption DEF IInv, TypeOK, Scan
  <2>3. Reserved \in Nat
    BY <2>2 DEF BInv, Metered, Reserved, IInv, Picked
  <2>. QED
    BY <2>1, <2>3, CompilationAssumption DEF BInv, Metered, Waits, Backpressure
<1>. QED
  BY <1>1, AlwaysBacked, PTL

===============================================================================
