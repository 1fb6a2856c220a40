--------------------------- MODULE AutomaticIngestion ---------------------------
(***************************************************************************)
(* AutomaticIngestionService (packages/automatic-ingestion/src/service.ts)  *)
(* over its durable checkpoints, the transcript capture it calls            *)
(* (packages/codex-session-capture/src/service.ts) and the ledger's         *)
(* ingestion cursor.                                                        *)
(*                                                                         *)
(* A run lists the catalog, records what it sees in the checkpoints,        *)
(* captures the sessions that are due and recovers the ones whose           *)
(* transcript was replaced.  It gives way to other callbacks only at file   *)
(* and catalog I/O, so a checkpoint's load and compare-and-swap, which      *)
(* await nothing else, are one step.  Runs overlap when two scan jobs are   *)
(* claimed by two loops of the worker.                                      *)
(***************************************************************************)
EXTENDS Integers, FiniteSets, FiniteSetsExt

CONSTANTS
    NULL,
    Sessions, Runs,
    MaxEpoch,        \* files a transcript's path has had
    MaxLength,       \* records in one file
    MaxTroubles,     \* crashes, and times a source is unavailable or not listed
    Vanishes,        \* the catalog may miss a session, until it has grown
    SameSize,        \* a file may have the size that its predecessor had
    Busy             \* a file may change while its recovery is under way

(* What the catalog says of a session: its last activity, which every       *)
(* change of the file moves, and whether the source can be read.  It is     *)
(* also the checkpoint's sourceRevision.                                    *)
Source == [epoch : 0..MaxEpoch, length : 0..MaxLength, available : BOOLEAN]
Cursor == [epoch : 0..MaxEpoch, offset : 0..MaxLength]

CaptureEligible == {"FOLLOW_PENDING", "CAPTURED_PARTIAL", "RETRY_PENDING"}
Status == CaptureEligible \cup
            {"CAPTURED_CURRENT", "SOURCE_UNAVAILABLE", "RECOVERY_PENDING"}
Checkpoint == [revision : Source, status : Status,
               diagnostic : {"NONE", "MUTATION", "CAPTURE_FAILED"},
               key : Source \cup {NULL},      \* recoveryAttemptKey
               completed : BOOLEAN]           \* recoveryCompletedAt

Entry == [revision : Source, current : BOOLEAN]    \* captureStatus CAPTURED_CURRENT
Work == [session : Sessions, epoch : 0..MaxEpoch, upto : 0..MaxLength,
         more : BOOLEAN, stage : {"read", "appended", "committed"}]
Run == [phase : {"idle", "listed", "capture", "recover"},
        seen : [Sessions -> Entry \cup {NULL}],
        todo : SUBSET Sessions,
        picked : [Sessions -> Checkpoint \cup {NULL}],   \* as listed for recovery
        work : Work \cup {NULL}]

(* A transcript has a record when it is found, and NULL, which stands for    *)
(* what is not there, is none of these.                                     *)
ASSUME IngestionAssumption ==
    /\ {MaxEpoch, MaxLength, MaxTroubles} \subseteq Nat /\ MaxLength >= 1
    /\ {Vanishes, SameSize, Busy} \subseteq BOOLEAN
    /\ NULL \notin Source \cup Cursor /\ NULL \notin Checkpoint
    /\ NULL \notin Entry /\ NULL \notin Work

VARIABLES
    source,      \* transcript files
    listed,      \* the catalog lists the session
    ledger,      \* records of each file in the event ledger (a prefix)
    cursor,      \* ingestion_cursors
    known,       \* the catalog's memory of a capture that reached the end
    checkpoint,  \* automatic_ingestion_checkpoints
    run,
    troubles

files == <<source, listed>>
vars == <<files, ledger, cursor, known, checkpoint, run, troubles>>

TypeOK ==
    /\ source \in [Sessions -> Source] /\ listed \in [Sessions -> BOOLEAN]
    /\ ledger \in [Sessions -> [0..MaxEpoch -> 0..MaxLength]]
    /\ cursor \in [Sessions -> Cursor \cup {NULL}]
    /\ known \in [Sessions -> BOOLEAN]
    /\ checkpoint \in [Sessions -> Checkpoint \cup {NULL}]
    /\ run \in [Runs -> Run]
    /\ troubles \in 0..MaxTroubles

Idle == [phase |-> "idle", seen |-> [s \in Sessions |-> NULL], todo |-> {},
         picked |-> [s \in Sessions |-> NULL], work |-> NULL]

Init ==
    /\ source = [s \in Sessions |-> [epoch |-> 0, length |-> 1, available |-> TRUE]]
    /\ listed = [s \in Sessions |-> TRUE]
    /\ ledger = [s \in Sessions |-> [e \in 0..MaxEpoch |-> 0]]
    /\ cursor = [s \in Sessions |-> NULL]
    /\ known = [s \in Sessions |-> FALSE]
    /\ checkpoint = [s \in Sessions |-> NULL]
    /\ run = [r \in Runs |-> Idle]
    /\ troubles = 0

-----------------------------------------------------------------------------
(* The files.                                                              *)
Mutated(s) == cursor[s] # NULL /\ cursor[s].epoch # source[s].epoch
Current(s) == cursor[s] = [epoch |-> source[s].epoch, offset |-> source[s].length]

(* Without Busy: no file changes from its replacement to its new capture.   *)
Settled(s) == Busy \/ ~known[s] \/ (cursor[s] # NULL /\ ~Mutated(s))
AtRest(s) == Busy \/ (source[s].available /\ listed[s] /\ \A r \in Runs : run[r].phase = "idle")

Trouble == troubles < MaxTroubles /\ troubles' = troubles + 1

AppendRecord(s) ==
    /\ Settled(s) /\ listed[s] /\ source[s].length < MaxLength
    /\ source' = [source EXCEPT ![s].length = @ + 1]
    /\ UNCHANGED <<listed, ledger, cursor, known, checkpoint, run, troubles>>

ReplaceFile(s) ==
    /\ Settled(s) /\ AtRest(s) /\ listed[s] /\ source[s].epoch < MaxEpoch
    /\ source' = [source EXCEPT ![s].epoch = @ + 1, ![s].length = 1]
    /\ UNCHANGED <<listed, ledger, cursor, known, checkpoint, run, troubles>>

Outage(s) ==
    /\ Settled(s) /\ Trouble
    /\ source[s].available /\ listed[s]
    /\ \/ source' = [source EXCEPT ![s].available = FALSE] /\ UNCHANGED listed
       \/ /\ Vanishes /\ source[s].length < MaxLength
          /\ listed' = [listed EXCEPT ![s] = FALSE] /\ UNCHANGED source
    /\ UNCHANGED <<ledger, cursor, known, checkpoint, run>>

Return(s) ==
    /\ ~source[s].available \/ ~listed[s]
    /\ source' = [source EXCEPT ![s].available = TRUE,
                                ![s].length = IF listed[s] THEN @ ELSE @ + 1]
    /\ listed' = [listed EXCEPT ![s] = TRUE]
    /\ UNCHANGED <<ledger, cursor, known, checkpoint, run, troubles>>

-----------------------------------------------------------------------------
(* Scan.                                                                   *)
(* captureStatus CAPTURED_CURRENT: the size of the file against the cursor, *)
(* or, where no cursor is, what was noted of the last capture.              *)
LooksCurrent(s) ==
    IF cursor[s] = NULL THEN known[s]
    ELSE cursor[s].offset = source[s].length /\ (SameSize \/ ~Mutated(s))

Catalog == [s \in Sessions |->
              IF listed[s] THEN [revision |-> source[s], current |-> LooksCurrent(s)] ELSE NULL]

List(r) ==
    /\ run[r].phase = "idle"
    /\ run' = [run EXCEPT ![r] = [Idle EXCEPT !.phase = "listed", !.seen = Catalog]]
    /\ UNCHANGED <<files, ledger, cursor, known, checkpoint, troubles>>

PendingRecovery(c) == c # NULL /\ c.diagnostic = "MUTATION" /\ c.key # NULL /\ ~c.completed

(* #observeSession of a new or changed session.                             *)
Observed(c, entry) ==
    [revision |-> entry.revision,
     status |-> IF ~entry.revision.available THEN "SOURCE_UNAVAILABLE"
                ELSE IF PendingRecovery(c) THEN "RECOVERY_PENDING"
                ELSE IF entry.current THEN "CAPTURED_CURRENT" ELSE "FOLLOW_PENDING",
     diagnostic |-> IF PendingRecovery(c) THEN c.diagnostic ELSE "NONE",
     key |-> IF PendingRecovery(c) THEN c.key ELSE NULL,
     completed |-> FALSE]

\* Mutant of Unchanged: the length stands for the file.
UnchangedByLength(c, entry) == c # NULL /\ c.revision.length = entry.revision.length

(* Only a changed revision is looked at again.                              *)
Unchanged(c, entry) == c # NULL /\ c.revision = entry.revision

ObserveAll(r) ==
    [s \in Sessions |->
        IF run[r].seen[s] = NULL \/ Unchanged(checkpoint[s], run[r].seen[s])
        THEN checkpoint[s] ELSE Observed(checkpoint[s], run[r].seen[s])]

(* listEligible: the sessions in these states whose time has come, up to a  *)
(* limit; which ones is left open.                                          *)
Due(checkpoints, states) ==
    SUBSET {s \in Sessions : checkpoints[s] # NULL /\ checkpoints[s].status \in states}

BeginCapture(r, due) ==
    /\ run[r].phase = "listed"
    /\ checkpoint' = ObserveAll(r)
    /\ due \in Due(checkpoint', CaptureEligible)
    /\ run' = [run EXCEPT ![r].phase = "capture", ![r].todo = due]
    /\ UNCHANGED <<files, ledger, cursor, known, troubles>>

-----------------------------------------------------------------------------
(* Capture.                                                                *)
Turn(r, s) == run[r].phase = "capture" /\ run[r].work = NULL /\ s \in run[r].todo

Readable(r, s) ==
    IF run[r].seen[s] # NULL THEN run[r].seen[s].revision.available
    ELSE listed[s] /\ source[s].available

Handled(r, s) == run' = [run EXCEPT ![r].todo = @ \ {s}, ![r].work = NULL]

SourceGone(r, s) ==
    /\ Turn(r, s) /\ ~Readable(r, s)
    /\ checkpoint' = [checkpoint EXCEPT ![s].status = "SOURCE_UNAVAILABLE"]
    /\ Handled(r, s)
    /\ UNCHANGED <<files, ledger, cursor, known, troubles>>

Offset(s) == IF cursor[s] = NULL THEN 0 ELSE cursor[s].offset

(* captureSession serializes the captures of all its callers.               *)
Capturing(r) == run[r].work # NULL /\ run[r].work.stage # "committed"
NoCapture == \A r \in Runs : ~Capturing(r)

(* readTranscriptIncrement from the committed cursor.                       *)
Read(r, s) ==
    /\ Turn(r, s) /\ Readable(r, s) /\ NoCapture
    /\ source[s].available /\ ~Mutated(s)
    /\ \E upto \in Offset(s)..source[s].length :
         /\ upto > Offset(s) \/ upto = source[s].length
         /\ run' = [run EXCEPT ![r].work =
              [session |-> s, epoch |-> source[s].epoch, upto |-> upto,
               more |-> upto < source[s].length, stage |-> "read"]]
    /\ UNCHANGED <<files, ledger, cursor, known, checkpoint, troubles>>

(* appendBatch: an event that is already there is skipped.  The cursor is   *)
(* committed only after the last batch.                                     *)
Appended(w) == [ledger EXCEPT ![w.session][w.epoch] = Max({@, w.upto})]

AppendBatch(r) ==
    LET w == run[r].work IN
    /\ w # NULL /\ w.stage = "read"
    /\ ledger' = Appended(w)
    /\ run' = [run EXCEPT ![r].work.stage = "appended"]
    /\ UNCHANGED <<files, cursor, known, checkpoint, troubles>>

\* Mutant of Committable: the cursor goes first.
CommittableEarly(w) == w.stage \in {"read", "appended"}

Committable(w) == w.stage = "appended"

\* Mutant of Captured: what was observed meanwhile is overwritten.
CapturedIgnoringMore(c, more) ==
    [c EXCEPT !.status = "CAPTURED_CURRENT", !.diagnostic = "NONE", !.key = NULL,
              !.completed = FALSE]

Captured(c, more) ==
    [c EXCEPT !.status = IF more THEN "CAPTURED_PARTIAL" ELSE "CAPTURED_CURRENT",
              !.diagnostic = "NONE", !.key = NULL, !.completed = FALSE]

CommitCursor(r) ==
    LET w == run[r].work IN
    /\ w # NULL /\ Committable(w)
    /\ cursor' = [cursor EXCEPT ![w.session] = [epoch |-> w.epoch, offset |-> w.upto]]
    /\ run' = [run EXCEPT ![r].work.stage = "committed"]
    /\ UNCHANGED <<files, ledger, known, checkpoint, troubles>>

(* The capture has been logged and noted in the catalog before the run      *)
(* hears of it.                                                             *)
Report(r) ==
    LET w == run[r].work IN
    /\ w # NULL /\ w.stage = "committed"
    /\ checkpoint' = [checkpoint EXCEPT ![w.session] = Captured(@, w.more)]
    /\ known' = [known EXCEPT ![w.session] = ~w.more]
    /\ Handled(r, w.session)
    /\ UNCHANGED <<files, ledger, cursor, troubles>>

(* TRANSCRIPT_REPLACED and its like: the first revision that showed it      *)
(* names the recovery.                                                      *)
MutationFound(r, s) ==
    /\ Turn(r, s) /\ Readable(r, s) /\ NoCapture
    /\ source[s].available /\ Mutated(s)
    /\ checkpoint' = [checkpoint EXCEPT
         ![s].status = "RECOVERY_PENDING", ![s].diagnostic = "MUTATION",
         ![s].key = IF @ # NULL THEN @ ELSE checkpoint[s].revision,
         ![s].completed = FALSE]
    /\ Handled(r, s)
    /\ UNCHANGED <<files, ledger, cursor, known, troubles>>

CaptureFails(r, s) ==
    /\ \/ Turn(r, s) /\ Readable(r, s)
       \/ run[r].work # NULL /\ run[r].work.session = s
    /\ checkpoint' = [checkpoint EXCEPT ![s].status = "RETRY_PENDING",
                                        ![s].diagnostic = "CAPTURE_FAILED"]
    /\ Handled(r, s)
    /\ UNCHANGED <<files, ledger, cursor, known, troubles>>

-----------------------------------------------------------------------------
(* Recovery.                                                               *)
BeginRecovery(r, due) ==
    /\ run[r].phase = "capture" /\ run[r].todo = {}
    /\ due \in Due(checkpoint, {"RECOVERY_PENDING"})
    /\ run' = [run EXCEPT ![r].phase = "recover", ![r].todo = due,
         ![r].picked = [s \in Sessions |-> IF s \in due THEN checkpoint[s] ELSE NULL]]
    /\ UNCHANGED <<files, ledger, cursor, known, checkpoint, troubles>>

RecoveryTurn(r, s) == run[r].phase = "recover" /\ s \in run[r].todo
Located(r, s) == run[r].seen[s] # NULL \/ listed[s]

(* A failed recovery is tried again under the key it was listed with.       *)
Unrecovered(r, s) ==
    [checkpoint[s] EXCEPT !.status = "RECOVERY_PENDING", !.key = run[r].picked[s].key]

(* The recovery port of the application discards the ledger's cursor.       *)
Recover(r, s) ==
    /\ RecoveryTurn(r, s) /\ Located(r, s)
    /\ cursor' = [cursor EXCEPT ![s] = NULL]
    /\ checkpoint' = [checkpoint EXCEPT
         ![s].status = "FOLLOW_PENDING", ![s].key = run[r].picked[s].key,
         ![s].completed = TRUE]
    /\ Handled(r, s)
    /\ UNCHANGED <<files, ledger, known, troubles>>

RecoveryFails(r, s) ==
    /\ RecoveryTurn(r, s) /\ Located(r, s)
    /\ checkpoint' = [checkpoint EXCEPT ![s] = Unrecovered(r, s)]
    /\ Handled(r, s)
    /\ UNCHANGED <<files, ledger, cursor, known, troubles>>

RecoverySkipped(r, s) ==
    /\ RecoveryTurn(r, s) /\ ~Located(r, s)
    /\ Handled(r, s)
    /\ UNCHANGED <<files, ledger, cursor, known, checkpoint, troubles>>

End(r) ==
    /\ run[r].phase = "recover" /\ run[r].todo = {}
    /\ run' = [run EXCEPT ![r] = Idle]
    /\ UNCHANGED <<files, ledger, cursor, known, checkpoint, troubles>>

Crash ==
    /\ Trouble /\ \E r \in Runs : run[r].phase # "idle"
    /\ run' = [r \in Runs |-> Idle]
    /\ known' = [s \in Sessions |-> FALSE]
    /\ \/ UNCHANGED cursor
       \/ \E r \in Runs, s \in Sessions :     \* between the rebase and the checkpoint
            /\ RecoveryTurn(r, s) /\ Located(r, s)
            /\ cursor' = [cursor EXCEPT ![s] = NULL]
    /\ UNCHANGED <<files, ledger, checkpoint>>

Begin(r) == \E due \in SUBSET Sessions : BeginCapture(r, due) \/ BeginRecovery(r, due)

Serve(r, s) ==
    \/ SourceGone(r, s) \/ Read(r, s) \/ MutationFound(r, s) \/ CaptureFails(r, s)
    \/ Recover(r, s) \/ RecoveryFails(r, s) \/ RecoverySkipped(r, s)

Next ==
    \/ \E s \in Sessions : AppendRecord(s) \/ ReplaceFile(s) \/ Outage(s) \/ Return(s)
    \/ \E r \in Runs : \/ List(r) \/ Begin(r) \/ AppendBatch(r) \/ CommitCursor(r) \/ Report(r) \/ End(r)
                       \/ \E s \in Sessions : Serve(r, s)
    \/ Crash

(* Jobs keep coming (JobStore, P1Runtime), every call settles, no session   *)
(* is left out for ever when it is due, and no source fails for ever.       *)
Fairness ==
    /\ \A s \in Sessions : WF_vars(Return(s))
    /\ \A r \in Runs :
         /\ WF_vars(List(r)) /\ WF_vars(Begin(r)) /\ WF_vars(End(r))
         /\ SF_vars(AppendBatch(r)) /\ SF_vars(CommitCursor(r)) /\ SF_vars(Report(r))
         /\ \A s \in Sessions :
              /\ SF_vars(\E due \in SUBSET Sessions : s \in due /\ BeginCapture(r, due))
              /\ SF_vars(\E due \in SUBSET Sessions : s \in due /\ BeginRecovery(r, due))
              /\ WF_vars(Serve(r, s)) /\ SF_vars(Read(r, s))
              /\ SF_vars(MutationFound(r, s)) /\ SF_vars(Recover(r, s))

Spec == Init /\ [][Next]_vars /\ Fairness

-----------------------------------------------------------------------------
(* Properties.                                                             *)

(* The committed cursor never runs ahead of the ledger, whatever crashes or *)
(* overlaps: every record before it has been appended.                      *)
CursorCovered ==
    \A s \in Sessions : cursor[s] # NULL => ledger[s][cursor[s].epoch] >= cursor[s].offset

(* No lost wake-up: a session that the next scan will take for unchanged is *)
(* captured to its end, or in a state that is tried again.                  *)
NothingForgotten ==
    \A s \in Sessions :
        /\ \A r \in Runs : run[r].phase = "idle"
        /\ listed[s] /\ source[s].available
        /\ checkpoint[s] # NULL /\ checkpoint[s].revision = source[s]
        => \/ Current(s)
           \/ checkpoint[s].status \in CaptureEligible \cup {"RECOVERY_PENDING"}

(* When the sources come to rest, everything they hold gets captured.       *)
EventuallyCaptured == \A s \in Sessions : []<>Current(s)
=============================================================================
