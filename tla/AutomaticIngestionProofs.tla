----------------------- MODULE AutomaticIngestionProofs -----------------------
(***************************************************************************)
(* Proofs about AutomaticIngestion for any number of sessions, records,     *)
(* replacements and troubles; CursorCovered for any number of overlapping   *)
(* runs.                                                                   *)
(***************************************************************************)
EXTENDS AutomaticIngestion, TLAPS

(* Who is served has a checkpoint, a copy of it where it is recovered; a     *)
(* session that is not listed has grown when it comes back.                 *)
RunOK(r) ==
    /\ run[r].phase # "idle" => \A s \in run[r].todo : checkpoint[s] # NULL
    /\ run[r].phase = "recover" => \A s \in run[r].todo : run[r].picked[s] # NULL
    /\ run[r].work # NULL => run[r].phase = "capture" /\ run[r].work.session \in run[r].todo

Served == \A r \in Runs : RunOK(r)
Room == \A s \in Sessions : ~listed[s] => source[s].length < MaxLength

(* What a capture has read is in the ledger before its cursor is committed.  *)
Covered ==
    /\ CursorCovered
    /\ \A r \in Runs : run[r].work # NULL /\ run[r].work.stage # "read" =>
          ledger[run[r].work.session][run[r].work.epoch] >= run[r].work.upto

IInv == TypeOK /\ Served /\ Room /\ Covered

-----------------------------------------------------------------------------
(* One scan at a time, of files that are told apart by their size and that    *)
(* nobody touches while their recovery is under way.                         *)
Calm == ~SameSize /\ ~Busy /\ \A q, r \in Runs : q = r

Same(old, new) == old.epoch = new.epoch /\ old.length = new.length
Upto(old, new) == old.epoch < new.epoch \/ (old.epoch = new.epoch /\ old.length <= new.length)

(* What was recorded or listed of a file is of its past.                     *)
Past(s) ==
    /\ checkpoint[s] # NULL => Upto(checkpoint[s].revision, source[s])
    /\ cursor[s] # NULL => cursor[s].epoch <= source[s].epoch

(* A session whose checkpoint gives no reason to look at it again is where    *)
(* its checkpoint says, unless its file has moved on from it, or will have   *)
(* when it is listed again.                                                 *)
Explained(s) ==
    LET c == checkpoint[s] IN c # NULL =>
    /\ c.status = "CAPTURED_CURRENT" /\ Same(c.revision, source[s]) => Current(s)
    /\ c.status = "SOURCE_UNAVAILABLE" =>
          ~c.revision.available \/ ~listed[s] \/ ~Same(c.revision, source[s])

(* A recovery that has to be done still has something to recover from.        *)
Recoverable(s) ==
    LET c == checkpoint[s] IN c # NULL =>
    /\ PendingRecovery(c) => c.status \in {"RECOVERY_PENDING", "SOURCE_UNAVAILABLE"}
    /\ PendingRecovery(c) \/ c.status = "RECOVERY_PENDING" =>
          (cursor[s] = NULL /\ ~known[s]) \/ Mutated(s)

(* A file replaced under a catalog that remembers its capture lies still, and *)
(* is known as it is once its cursor is gone.                               *)
Still(s) ==
    /\ known[s] /\ (cursor[s] = NULL \/ Mutated(s)) => source[s].available /\ listed[s]
    /\ known[s] /\ cursor[s] = NULL =>
          checkpoint[s] # NULL /\ checkpoint[s].revision = source[s]

(* What a run has seen.                                                      *)
SeenOK(r, s) ==
    LET entry == run[r].seen[s] IN
    /\ entry = NULL /\ listed[s] =>
          checkpoint[s] = NULL \/ ~Same(checkpoint[s].revision, source[s])
    /\ entry # NULL =>
         /\ Upto(entry.revision, source[s])
         /\ run[r].phase # "listed" => checkpoint[s] # NULL /\ checkpoint[s].revision = entry.revision
         /\ run[r].phase = "listed" /\ entry.current /\ Same(entry.revision, source[s]) =>
               Current(s) \/ (known[s] /\ cursor[s] = NULL)
    /\ known[s] /\ (cursor[s] = NULL \/ Mutated(s)) => entry # NULL /\ entry.revision = source[s]

(* What a run is about to do: the sessions it captures are due, those it       *)
(* recovers pending, and a capture that has read to the end is at the end,    *)
(* unless the file has moved on from its checkpoint since.                  *)
TurnOK(r) ==
    /\ run[r].phase = "capture" => \A s \in run[r].todo : checkpoint[s].status \in CaptureEligible
    /\ run[r].phase = "recover" => \A s \in run[r].todo : checkpoint[s].status = "RECOVERY_PENDING"
    /\ run[r].work # NULL =>
         LET w == run[r].work IN
         /\ w.epoch = source[w.session].epoch
         /\ ~w.more /\ Same(checkpoint[w.session].revision, source[w.session]) =>
               w.upto = source[w.session].length
         /\ w.stage = "committed" => cursor[w.session] = [epoch |-> w.epoch, offset |-> w.upto]

SessionOK(s) == Past(s) /\ Explained(s) /\ Recoverable(s) /\ Still(s)

Attended ==
    /\ \A s \in Sessions : SessionOK(s)
    /\ \A r \in Runs : run[r].phase # "idle" =>
          TurnOK(r) /\ \A s \in Sessions : SeenOK(r, s)

-----------------------------------------------------------------------------
(* Helpers.                                                                 *)

LEMMA MaxOfTwo ==
    ASSUME NEW a \in Int, NEW b \in Int
    PROVE  Max({a, b}) \in {a, b} /\ Max({a, b}) >= a /\ Max({a, b}) >= b
<1>1. \E x \in {a, b} : \A y \in {a, b} : x >= y
  <2>1. CASE a >= b
    BY <2>1
  <2>2. CASE ~(a >= b)
    BY <2>2
  <2>. QED
    BY <2>1, <2>2
<1>. QED
  BY <1>1 DEF Max

LEMMA Bounds ==
    /\ MaxEpoch \in Nat /\ MaxLength \in Nat /\ MaxLength >= 1 /\ MaxTroubles \in Nat
    /\ NULL \notin Source /\ NULL \notin Cursor /\ NULL \notin Checkpoint
    /\ NULL \notin Entry /\ NULL \notin Work
BY IngestionAssumption

LEMMA Typed ==
    ASSUME TypeOK, NEW s \in Sessions
    PROVE  /\ source[s] \in Source /\ listed[s] \in BOOLEAN /\ known[s] \in BOOLEAN
           /\ source[s].epoch \in Nat /\ source[s].length \in Nat
           /\ cursor[s] \in Cursor \cup {NULL} /\ checkpoint[s] \in Checkpoint \cup {NULL}
           /\ cursor[s] # NULL => cursor[s].epoch \in 0..MaxEpoch /\ cursor[s].offset \in 0..MaxLength
           /\ checkpoint[s] # NULL => checkpoint[s] \in Checkpoint /\ checkpoint[s].revision \in Source
           /\ ledger[s] \in [0..MaxEpoch -> 0..MaxLength]
BY DEF TypeOK, Source, Cursor, Checkpoint

LEMMA RunTyped ==
    ASSUME TypeOK, NEW r \in Runs
    PROVE  /\ run[r] \in Run /\ run[r].phase \in {"idle", "listed", "capture", "recover"}
           /\ run[r].seen \in [Sessions -> Entry \cup {NULL}] /\ run[r].todo \subseteq Sessions
           /\ run[r].picked \in [Sessions -> Checkpoint \cup {NULL}]
           /\ run[r].work \in Work \cup {NULL}
           /\ run[r].work # NULL =>
                 /\ run[r].work \in Work /\ run[r].work.session \in Sessions
                 /\ run[r].work.epoch \in 0..MaxEpoch /\ run[r].work.upto \in 0..MaxLength
                 /\ run[r].work.more \in BOOLEAN
BY DEF TypeOK, Run, Work

(* A run moves, and the others do not.                                        *)
LEMMA RunMoves ==
    ASSUME TypeOK, NEW r \in Runs, NEW row \in Run, run' = [run EXCEPT ![r] = row]
    PROVE  /\ run' \in [Runs -> Run] /\ run'[r] = row
           /\ \A q \in Runs : q # r => run'[q] = run[q]
BY DEF TypeOK

LEMMA IdleTyped == Idle \in Run /\ Idle.phase = "idle" /\ Idle.work = NULL
BY DEF Idle, Run

(* A session has been served.                                                *)
LEMMA HandledRun ==
    ASSUME TypeOK, NEW r \in Runs, NEW s, Handled(r, s)
    PROVE  /\ run' \in [Runs -> Run] /\ \A q \in Runs : q # r => run'[q] = run[q]
           /\ run'[r].phase = run[r].phase /\ run'[r].seen = run[r].seen
           /\ run'[r].picked = run[r].picked
           /\ run'[r].todo = run[r].todo \ {s} /\ run'[r].work = NULL
<1>. DEFINE row == [run[r] EXCEPT !.todo = @ \ {s}, !.work = NULL]
<1>1. run[r] \in Run
  BY RunTyped
<1>2. row \in Run /\ row.phase = run[r].phase /\ row.seen = run[r].seen
      /\ row.picked = run[r].picked /\ row.todo = run[r].todo \ {s} /\ row.work = NULL
  BY <1>1 DEF Run
<1>3. run' = [run EXCEPT ![r] = row]
  BY <1>1 DEF Handled, TypeOK
<1>. HIDE DEF row
<1>. QED
  BY <1>2, <1>3, RunMoves

(* No checkpoint is ever deleted, no record of the ledger either.             *)
Kept == \A s \in Sessions : checkpoint[s] # NULL => checkpoint'[s] # NULL
Grown == \A s \in Sessions, e \in 0..MaxEpoch : ledger'[s][e] >= ledger[s][e]

LEMMA ServedOn ==
    ASSUME TypeOK, Served, Kept, NEW r \in Runs,
           \A q \in Runs : q # r => run'[q] = run[q], RunOK(r)'
    PROVE  Served'
<1>. SUFFICES ASSUME NEW q \in Runs, q # r PROVE RunOK(q)'
  BY DEF Served
<1>1. RunOK(q) /\ run'[q] = run[q] /\ run[q].todo \subseteq Sessions
  BY RunTyped DEF Served
<1>. QED
  BY <1>1 DEF RunOK, Kept

LEMMA HandledServed ==
    ASSUME TypeOK, Served, Kept, NEW r \in Runs, NEW s, Handled(r, s)
    PROVE  Served'
<1>1. /\ \A q \in Runs : q # r => run'[q] = run[q]
      /\ run'[r].phase = run[r].phase /\ run'[r].picked = run[r].picked
      /\ run'[r].todo = run[r].todo \ {s} /\ run'[r].work = NULL
  BY HandledRun
<1>2. RunOK(r)'
  <2>1. RunOK(r) /\ run[r].todo \subseteq Sessions
    BY RunTyped DEF Served
  <2>. QED
    BY <1>1, <2>1 DEF RunOK, Kept
<1>. QED
  BY <1>1, <1>2, ServedOn

LEMMA CoveredOn ==
    ASSUME TypeOK, Covered, Grown,
           \A s \in Sessions : \/ cursor'[s] = NULL \/ cursor'[s] = cursor[s]
                               \/ ledger'[s][cursor'[s].epoch] >= cursor'[s].offset,
           \A r \in Runs : \/ run'[r].work = NULL \/ run'[r].work = run[r].work
                           \/ run'[r].work.stage = "read"
                           \/ ledger'[run'[r].work.session][run'[r].work.epoch] >= run'[r].work.upto,
           \A s \in Sessions : ledger'[s] \in [0..MaxEpoch -> 0..MaxLength]
    PROVE  Covered'
<1>0. MaxLength \in Nat
  BY Bounds
<1>1. ASSUME NEW s \in Sessions, cursor'[s] # NULL
      PROVE  ledger'[s][cursor'[s].epoch] >= cursor'[s].offset
  <2>1. CASE cursor'[s] = cursor[s]
    <3>1. /\ cursor[s].epoch \in 0..MaxEpoch /\ cursor[s].offset \in 0..MaxLength
          /\ ledger[s] \in [0..MaxEpoch -> 0..MaxLength]
      BY <1>1, <2>1, Typed
    <3>2. /\ ledger[s][cursor[s].epoch] >= cursor[s].offset
          /\ ledger'[s][cursor[s].epoch] >= ledger[s][cursor[s].epoch]
      BY <1>1, <2>1, <3>1 DEF Covered, CursorCovered, Grown
    <3>3. ledger[s][cursor[s].epoch] \in 0..MaxLength /\ ledger'[s][cursor[s].epoch] \in 0..MaxLength
      BY <3>1
    <3>. QED
      BY <1>0, <2>1, <3>1, <3>2, <3>3
  <2>. QED
    BY <1>1, <2>1
<1>2. ASSUME NEW r \in Runs, run'[r].work # NULL, run'[r].work.stage # "read"
      PROVE  ledger'[run'[r].work.session][run'[r].work.epoch] >= run'[r].work.upto
  <2>1. CASE run'[r].work = run[r].work
    <3>. DEFINE w == run[r].work
    <3>1. w.session \in Sessions /\ w.epoch \in 0..MaxEpoch /\ w.upto \in 0..MaxLength
      BY <1>2, <2>1, RunTyped
    <3>2. ledger[w.session][w.epoch] >= w.upto
      BY <1>2, <2>1 DEF Covered
    <3>3. ledger'[w.session][w.epoch] >= ledger[w.session][w.epoch]
      BY <3>1 DEF Grown
    <3>4. /\ ledger[w.session][w.epoch] \in 0..MaxLength
          /\ ledger'[w.session][w.epoch] \in 0..MaxLength
      BY <3>1, Typed
    <3>. QED
      BY <1>0, <2>1, <3>1, <3>2, <3>3, <3>4
  <2>. QED
    BY <1>2, <2>1
<1>. QED
  BY <1>1, <1>2 DEF Covered, CursorCovered

LEMMA LedgerStays ==
    ASSUME TypeOK, UNCHANGED ledger
    PROVE  Grown /\ \A s \in Sessions : ledger'[s] \in [0..MaxEpoch -> 0..MaxLength]
<1>. SUFFICES ASSUME NEW s \in Sessions, NEW e \in 0..MaxEpoch
              PROVE  ledger[s][e] >= ledger[s][e]
  BY Typed DEF Grown
<1>1. ledger[s][e] \in 0..MaxLength /\ MaxLength \in Nat
  BY Typed, Bounds
<1>. QED
  BY <1>1
-----------------------------------------------------------------------------
(* CursorCovered, one lemma per group of actions.                            *)

LEMMA ServedStays ==
    ASSUME Served, UNCHANGED <<run, checkpoint>>
    PROVE  Served'
BY DEF Served, RunOK

LEMMA FilesMove ==
    ASSUME IInv, UNCHANGED <<ledger, cursor, known, checkpoint, run>>,
           source' \in [Sessions -> Source], listed' \in [Sessions -> BOOLEAN],
           troubles' \in 0..MaxTroubles, Room'
    PROVE  IInv'
<1>1. TypeOK /\ Served /\ Covered
  BY DEF IInv
<1>2. TypeOK'
  BY <1>1 DEF TypeOK
<1>3. Served'
  BY <1>1, ServedStays
<1>4. Covered'
  BY <1>1 DEF Covered, CursorCovered
<1>. QED
  BY <1>2, <1>3, <1>4 DEF IInv

LEMMA TroubleTyped == ASSUME TypeOK, Trouble PROVE troubles' \in 0..MaxTroubles
BY Bounds DEF TypeOK, Trouble

LEMMA AppendRecordStep ==
    ASSUME IInv, NEW s \in Sessions, AppendRecord(s) PROVE IInv'
<1>1. TypeOK /\ Room
  BY DEF IInv
<1>2. source[s] \in Source /\ source[s].length \in Nat /\ source[s].length < MaxLength
  BY <1>1, Typed DEF AppendRecord
<1>. DEFINE row == [source[s] EXCEPT !.length = source[s].length + 1]
<1>3. row \in Source
  BY <1>2, Bounds DEF Source
<1>4. source' = [source EXCEPT ![s] = row]
  BY <1>1 DEF AppendRecord, TypeOK
<1>. HIDE DEF row
<1>5. source' \in [Sessions -> Source]
  BY <1>1, <1>3, <1>4 DEF TypeOK
<1>6. Room'
  BY <1>1, <1>4 DEF AppendRecord, Room, TypeOK
<1>. QED
  BY <1>1, <1>5, <1>6, FilesMove DEF AppendRecord, TypeOK

LEMMA ReplaceFileStep ==
    ASSUME IInv, NEW s \in Sessions, ReplaceFile(s) PROVE IInv'
<1>1. TypeOK /\ Room
  BY DEF IInv
<1>2. source[s] \in Source /\ source[s].epoch \in Nat /\ source[s].epoch < MaxEpoch
  BY <1>1, Typed DEF ReplaceFile
<1>. DEFINE next == source[s].epoch + 1
            row == [source[s] EXCEPT !.epoch = next, !.length = 1]
<1>3. row \in Source
  <2>1. next \in 0..MaxEpoch /\ 1 \in 0..MaxLength
    BY <1>2, Bounds
  <2>. HIDE DEF next
  <2>. QED
    BY <1>2, <2>1 DEF Source
<1>4. source' = [source EXCEPT ![s] = row]
  BY <1>1 DEF ReplaceFile, TypeOK
<1>. HIDE DEF row
<1>5. source' \in [Sessions -> Source]
  BY <1>1, <1>3, <1>4 DEF TypeOK
<1>6. Room'
  BY <1>1, <1>4 DEF ReplaceFile, Room, TypeOK
<1>. QED
  BY <1>1, <1>5, <1>6, FilesMove DEF ReplaceFile, TypeOK

LEMMA OutageStep ==
    ASSUME IInv, NEW s \in Sessions, Outage(s) PROVE IInv'
<1>1. TypeOK /\ Room /\ troubles' \in 0..MaxTroubles
  BY TroubleTyped DEF IInv, Outage
<1>2. source[s] \in Source
  BY <1>1, Typed
<1>3. CASE source' = [source EXCEPT ![s].available = FALSE] /\ UNCHANGED listed
  <2>. DEFINE row == [source[s] EXCEPT !.available = FALSE]
  <2>1. row \in Source /\ row.length = source[s].length
    BY <1>2 DEF Source
  <2>2. source' = [source EXCEPT ![s] = row]
    BY <1>1, <1>3 DEF TypeOK
  <2>. HIDE DEF row
  <2>3. source' \in [Sessions -> Source] /\ Room'
    BY <1>1, <1>3, <2>1, <2>2 DEF TypeOK, Room
  <2>. QED
    BY <1>1, <1>3, <2>3, FilesMove DEF Outage, TypeOK
<1>4. CASE /\ source[s].length < MaxLength
           /\ listed' = [listed EXCEPT ![s] = FALSE] /\ UNCHANGED source
  <2>1. listed' \in [Sessions -> BOOLEAN] /\ Room'
    BY <1>1, <1>4 DEF TypeOK, Room
  <2>. QED
    BY <1>1, <1>4, <2>1, FilesMove DEF Outage, TypeOK
<1>. QED
  BY <1>3, <1>4 DEF Outage

LEMMA ReturnStep ==
    ASSUME IInv, NEW s \in Sessions, Return(s) PROVE IInv'
<1>1. TypeOK /\ Room
  BY DEF IInv
<1>2. source[s] \in Source /\ source[s].length \in Nat
  BY <1>1, Typed
<1>. DEFINE long == IF listed[s] THEN source[s].length ELSE source[s].length + 1
            row == [source[s] EXCEPT !.available = TRUE, !.length = long]
<1>3. long \in 0..MaxLength
  BY <1>1, <1>2, Bounds DEF Room, Source
<1>4. row \in Source
  <2>. HIDE DEF long
  <2>. QED
    BY <1>2, <1>3 DEF Source
<1>5. source' = [source EXCEPT ![s] = row]
  BY <1>1 DEF Return, TypeOK
<1>. HIDE DEF row
<1>6. source' \in [Sessions -> Source] /\ listed' \in [Sessions -> BOOLEAN]
  BY <1>1, <1>4, <1>5 DEF TypeOK, Return
<1>7. Room'
  BY <1>1, <1>5 DEF Return, Room, TypeOK
<1>. QED
  BY <1>1, <1>6, <1>7, FilesMove DEF Return, TypeOK
(* A session's turn ends: its checkpoint is written, and its cursor stays or  *)
(* is discarded.                                                             *)
LEMMA TurnEnds ==
    ASSUME IInv, NEW r \in Runs, NEW s \in Sessions, Handled(r, s),
           NEW row \in Checkpoint, checkpoint' = [checkpoint EXCEPT ![s] = row],
           UNCHANGED <<files, ledger, troubles>>, known' \in [Sessions -> BOOLEAN],
           cursor' \in [Sessions -> Cursor \cup {NULL}],
           \A t \in Sessions : cursor'[t] \in {cursor[t], NULL}
    PROVE  IInv'
<1>1. TypeOK /\ Served /\ Room /\ Covered
  BY DEF IInv
<1>2. run' \in [Runs -> Run] /\ run'[r].work = NULL /\ \A q \in Runs : q # r => run'[q] = run[q]
  BY <1>1, HandledRun
<1>3. checkpoint' \in [Sessions -> Checkpoint \cup {NULL}] /\ Kept
  BY <1>1, Bounds DEF TypeOK, Kept
<1>4. TypeOK'
  BY <1>1, <1>2, <1>3 DEF TypeOK, files
<1>5. Served'
  BY <1>1, <1>3, HandledServed
<1>6. Room'
  BY <1>1 DEF Room, files
<1>7. Covered'
  BY <1>1, <1>2, LedgerStays, CoveredOn
<1>. QED
  BY <1>4, <1>5, <1>6, <1>7 DEF IInv

(* Who is served has a checkpoint.                                           *)
LEMMA HasCheckpoint ==
    ASSUME IInv, NEW r \in Runs, run[r].phase # "idle", NEW s \in run[r].todo
    PROVE  s \in Sessions /\ checkpoint[s] \in Checkpoint /\ checkpoint[s].revision \in Source
<1>1. TypeOK /\ RunOK(r)
  BY DEF IInv, Served
<1>2. s \in Sessions
  BY <1>1, RunTyped
<1>. QED
  BY <1>1, <1>2, Typed DEF RunOK

LEMMA AtWork ==
    ASSUME IInv, NEW r \in Runs, run[r].work # NULL
    PROVE  /\ run[r].phase = "capture" /\ run[r].work.session \in run[r].todo
           /\ run[r].work \in Work /\ run[r].work.session \in Sessions
           /\ run[r].work.epoch \in 0..MaxEpoch /\ run[r].work.upto \in 0..MaxLength
           /\ run[r].work.more \in BOOLEAN
BY RunTyped DEF IInv, Served, RunOK

LEMMA SourceGoneStep ==
    ASSUME IInv, NEW r \in Runs, NEW s \in Sessions, SourceGone(r, s) PROVE IInv'
<1>1. TypeOK /\ checkpoint[s] \in Checkpoint
  BY HasCheckpoint DEF IInv, SourceGone, Turn
<1>. DEFINE row == [checkpoint[s] EXCEPT !.status = "SOURCE_UNAVAILABLE"]
<1>2. row \in Checkpoint
  BY <1>1 DEF Checkpoint, Status
<1>3. checkpoint' = [checkpoint EXCEPT ![s] = row]
  BY <1>1 DEF SourceGone, TypeOK
<1>. HIDE DEF row
<1>4. UNCHANGED <<files, ledger, cursor, known, troubles>> /\ Handled(r, s)
  BY DEF SourceGone
<1>. QED
  BY <1>1, <1>2, <1>3, <1>4, TurnEnds DEF TypeOK

LEMMA CaptureFailsStep ==
    ASSUME IInv, NEW r \in Runs, NEW s \in Sessions, CaptureFails(r, s) PROVE IInv'
<1>1. TypeOK /\ checkpoint[s] \in Checkpoint
  <2>1. CASE run[r].work # NULL /\ run[r].work.session = s
    BY <2>1, HasCheckpoint, AtWork DEF IInv
  <2>. QED
    BY <2>1, HasCheckpoint DEF IInv, CaptureFails, Turn
<1>. DEFINE row == [checkpoint[s] EXCEPT !.status = "RETRY_PENDING", !.diagnostic = "CAPTURE_FAILED"]
<1>2. row \in Checkpoint
  BY <1>1 DEF Checkpoint, Status, CaptureEligible
<1>3. checkpoint' = [checkpoint EXCEPT ![s] = row]
  BY <1>1 DEF CaptureFails, TypeOK
<1>. HIDE DEF row
<1>4. UNCHANGED <<files, ledger, cursor, known, troubles>> /\ Handled(r, s)
  BY DEF CaptureFails
<1>. QED
  BY <1>1, <1>2, <1>3, <1>4, TurnEnds DEF TypeOK

LEMMA MutationFoundStep ==
    ASSUME IInv, NEW r \in Runs, NEW s \in Sessions, MutationFound(r, s) PROVE IInv'
<1>1. TypeOK /\ checkpoint[s] \in Checkpoint /\ checkpoint[s].revision \in Source
  BY HasCheckpoint DEF IInv, MutationFound, Turn
<1>. DEFINE key == IF checkpoint[s].key # NULL THEN checkpoint[s].key ELSE checkpoint[s].revision
            row == [checkpoint[s] EXCEPT !.status = "RECOVERY_PENDING", !.diagnostic = "MUTATION",
                                         !.key = key, !.completed = FALSE]
<1>2. key \in Source
  BY <1>1 DEF Checkpoint
<1>3. row \in Checkpoint
  <2>. HIDE DEF key
  <2>. QED
    BY <1>1, <1>2 DEF Checkpoint, Status
<1>4. checkpoint' = [checkpoint EXCEPT ![s] = row]
  BY <1>1 DEF MutationFound, TypeOK
<1>. HIDE DEF row
<1>5. UNCHANGED <<files, ledger, cursor, known, troubles>> /\ Handled(r, s)
  BY DEF MutationFound
<1>. QED
  BY <1>1, <1>3, <1>4, <1>5, TurnEnds DEF TypeOK

LEMMA CapturedTyped ==
    ASSUME NEW c \in Checkpoint, NEW more \in BOOLEAN
    PROVE  /\ Captured(c, more) \in Checkpoint
           /\ Captured(c, more).revision = c.revision
           /\ Captured(c, more).status = IF more THEN "CAPTURED_PARTIAL" ELSE "CAPTURED_CURRENT"
           /\ Captured(c, more).key = NULL
BY DEF Captured, Checkpoint, Status, CaptureEligible

LEMMA ReportStep ==
    ASSUME IInv, NEW r \in Runs, Report(r) PROVE IInv'
<1>. DEFINE w == run[r].work
            s == w.session
            row == Captured(checkpoint[s], w.more)
<1>1. TypeOK /\ s \in Sessions /\ w.more \in BOOLEAN /\ checkpoint[s] \in Checkpoint
  BY HasCheckpoint, AtWork DEF IInv, Report
<1>2. row \in Checkpoint
  BY <1>1, CapturedTyped
<1>3. checkpoint' = [checkpoint EXCEPT ![s] = row] /\ known' = [known EXCEPT ![s] = ~w.more]
  BY DEF Report
<1>4. UNCHANGED <<files, ledger, cursor, troubles>> /\ Handled(r, s)
  BY DEF Report
<1>. HIDE DEF row, w
<1>5. known' \in [Sessions -> BOOLEAN]
  BY <1>1, <1>3 DEF TypeOK
<1>. QED
  BY <1>1, <1>2, <1>3, <1>4, <1>5, TurnEnds DEF TypeOK

LEMMA Picked ==
    ASSUME IInv, NEW r \in Runs, NEW s \in Sessions, RecoveryTurn(r, s)
    PROVE  /\ checkpoint[s] \in Checkpoint /\ run[r].picked[s] \in Checkpoint
           /\ run[r].picked[s].key \in Source \cup {NULL}
<1>1. TypeOK /\ RunOK(r) /\ checkpoint[s] \in Checkpoint
  BY HasCheckpoint DEF IInv, Served, RecoveryTurn
<1>2. run[r].picked[s] \in Checkpoint
  BY <1>1, RunTyped DEF RunOK, RecoveryTurn
<1>. QED
  BY <1>1, <1>2 DEF Checkpoint

LEMMA RecoverStep ==
    ASSUME IInv, NEW r \in Runs, NEW s \in Sessions, Recover(r, s) PROVE IInv'
<1>. DEFINE key == run[r].picked[s].key
            row == [checkpoint[s] EXCEPT !.status = "FOLLOW_PENDING", !.key = key,
                                         !.completed = TRUE]
<1>1. TypeOK /\ checkpoint[s] \in Checkpoint /\ key \in Source \cup {NULL}
  BY Picked DEF IInv, Recover
<1>2. checkpoint' = [checkpoint EXCEPT ![s] = row]
  BY <1>1 DEF Recover, TypeOK
<1>3. row \in Checkpoint
  <2>. HIDE DEF key
  <2>. QED
    BY <1>1 DEF Checkpoint, Status, CaptureEligible
<1>. HIDE DEF row
<1>4. UNCHANGED <<files, ledger, known, troubles>> /\ Handled(r, s)
      /\ cursor' = [cursor EXCEPT ![s] = NULL]
  BY DEF Recover
<1>. QED
  BY <1>1, <1>2, <1>3, <1>4, TurnEnds DEF TypeOK

LEMMA RecoveryFailsStep ==
    ASSUME IInv, NEW r \in Runs, NEW s \in Sessions, RecoveryFails(r, s) PROVE IInv'
<1>. DEFINE key == run[r].picked[s].key
            row == [checkpoint[s] EXCEPT !.status = "RECOVERY_PENDING", !.key = key]
<1>1. TypeOK /\ checkpoint[s] \in Checkpoint /\ key \in Source \cup {NULL}
  BY Picked DEF IInv, RecoveryFails
<1>2. checkpoint' = [checkpoint EXCEPT ![s] = row]
  BY DEF RecoveryFails, Unrecovered
<1>3. row \in Checkpoint
  <2>. HIDE DEF key
  <2>. QED
    BY <1>1 DEF Checkpoint, Status
<1>. HIDE DEF row
<1>4. UNCHANGED <<files, ledger, cursor, known, troubles>> /\ Handled(r, s)
  BY DEF RecoveryFails
<1>. QED
  BY <1>1, <1>2, <1>3, <1>4, TurnEnds DEF TypeOK

LEMMA RecoverySkippedStep ==
    ASSUME IInv, NEW r \in Runs, NEW s \in Sessions, RecoverySkipped(r, s) PROVE IInv'
<1>1. TypeOK /\ checkpoint[s] \in Checkpoint
  BY Picked DEF IInv, RecoverySkipped
<1>2. checkpoint' = [checkpoint EXCEPT ![s] = checkpoint[s]]
  BY <1>1 DEF RecoverySkipped, TypeOK
<1>3. UNCHANGED <<files, ledger, cursor, known, troubles>> /\ Handled(r, s)
  BY DEF RecoverySkipped
<1>. QED
  BY <1>1, <1>2, <1>3, TurnEnds DEF TypeOK
(* A run goes on to its next phase, with its capture or without one.          *)
LEMMA RunGoesOn ==
    ASSUME IInv, NEW r \in Runs, NEW row \in Run, run' = [run EXCEPT ![r] = row],
           UNCHANGED <<files, ledger, cursor, known, troubles>>, Kept,
           checkpoint' \in [Sessions -> Checkpoint \cup {NULL}],
           row.work = NULL \/ row.work.stage = "read", RunOK(r)'
    PROVE  IInv'
<1>1. TypeOK /\ Served /\ Room /\ Covered
  BY DEF IInv
<1>2. run' \in [Runs -> Run] /\ run'[r] = row /\ \A q \in Runs : q # r => run'[q] = run[q]
  BY <1>1, RunMoves
<1>3. TypeOK'
  BY <1>1, <1>2 DEF TypeOK, files
<1>4. Served'
  BY <1>1, <1>2, ServedOn
<1>5. Room'
  BY <1>1 DEF Room, files
<1>6. Covered'
  BY <1>1, <1>2, LedgerStays, CoveredOn
<1>. QED
  BY <1>3, <1>4, <1>5, <1>6 DEF IInv

LEMMA Unkept == ASSUME UNCHANGED checkpoint PROVE Kept
BY DEF Kept

LEMMA CatalogTyped == ASSUME TypeOK PROVE Catalog \in [Sessions -> Entry \cup {NULL}]
<1>. SUFFICES ASSUME NEW s \in Sessions, listed[s]
              PROVE  [revision |-> source[s], current |-> LooksCurrent(s)] \in Entry
  BY DEF Catalog
<1>1. LooksCurrent(s) \in BOOLEAN
  BY Typed DEF LooksCurrent
<1>. QED
  BY <1>1, Typed DEF Entry

LEMMA ListStep ==
    ASSUME IInv, NEW r \in Runs, List(r) PROVE IInv'
<1>. DEFINE row == [Idle EXCEPT !.phase = "listed", !.seen = Catalog]
<1>1. TypeOK /\ Catalog \in [Sessions -> Entry \cup {NULL}]
  BY CatalogTyped DEF IInv
<1>2. row \in Run /\ row.phase = "listed" /\ row.work = NULL /\ row.todo = {}
  BY <1>1 DEF Run, Idle
<1>3. run' = [run EXCEPT ![r] = row] /\ UNCHANGED <<files, ledger, cursor, known, checkpoint, troubles>>
  BY DEF List
<1>. HIDE DEF row
<1>4. RunOK(r)'
  <2>1. run'[r] = row
    BY <1>1, <1>3 DEF TypeOK
  <2>. QED
    BY <1>2, <2>1 DEF RunOK
<1>. QED
  BY <1>1, <1>2, <1>3, <1>4, Unkept, RunGoesOn DEF TypeOK

LEMMA EndStep ==
    ASSUME IInv, NEW r \in Runs, End(r) PROVE IInv'
<1>1. TypeOK
  BY DEF IInv
<1>2. run' = [run EXCEPT ![r] = Idle] /\ UNCHANGED <<files, ledger, cursor, known, checkpoint, troubles>>
  BY DEF End
<1>3. RunOK(r)'
  BY <1>1, <1>2, IdleTyped DEF RunOK, TypeOK
<1>. QED
  BY <1>1, <1>2, <1>3, IdleTyped, Unkept, RunGoesOn DEF TypeOK

(* What is observed becomes the checkpoint of its session.                    *)
LEMMA ObservedTyped ==
    ASSUME NEW c \in Checkpoint \cup {NULL}, NEW entry \in Entry
    PROVE  /\ Observed(c, entry) \in Checkpoint /\ Observed(c, entry).revision = entry.revision
           /\ Observed(c, entry).status =
                 IF ~entry.revision.available THEN "SOURCE_UNAVAILABLE"
                 ELSE IF PendingRecovery(c) THEN "RECOVERY_PENDING"
                 ELSE IF entry.current THEN "CAPTURED_CURRENT" ELSE "FOLLOW_PENDING"
           /\ PendingRecovery(Observed(c, entry)) <=> PendingRecovery(c)
<1>. DEFINE status == IF ~entry.revision.available THEN "SOURCE_UNAVAILABLE"
                      ELSE IF PendingRecovery(c) THEN "RECOVERY_PENDING"
                      ELSE IF entry.current THEN "CAPTURED_CURRENT" ELSE "FOLLOW_PENDING"
            diagnostic == IF PendingRecovery(c) THEN c.diagnostic ELSE "NONE"
            key == IF PendingRecovery(c) THEN c.key ELSE NULL
<1>1. Observed(c, entry) = [revision |-> entry.revision, status |-> status,
                            diagnostic |-> diagnostic, key |-> key, completed |-> FALSE]
  BY DEF Observed
<1>2. /\ entry.revision \in Source /\ status \in Status /\ diagnostic \in {"NONE", "MUTATION"}
      /\ key \in Source \cup {NULL}
  BY DEF Entry, Status, CaptureEligible, PendingRecovery, Checkpoint
<1>3. PendingRecovery(c) => diagnostic = "MUTATION" /\ key # NULL
  BY DEF PendingRecovery
<1>4. ~PendingRecovery(c) => diagnostic = "NONE"
  OBVIOUS
<1>5. Observed(c, entry) \in Checkpoint
  <2>. HIDE DEF status, diagnostic, key
  <2>. QED
    BY <1>1, <1>2 DEF Checkpoint
<1>6. PendingRecovery(Observed(c, entry)) <=> PendingRecovery(c)
  <2>1. Observed(c, entry) # NULL
    BY <1>5, Bounds
  <2>2. PendingRecovery(Observed(c, entry)) <=> diagnostic = "MUTATION" /\ key # NULL
    <3>. HIDE DEF status, diagnostic, key
    <3>. QED
      BY <1>1, <2>1 DEF PendingRecovery
  <2>. QED
    BY <1>3, <1>4, <2>2
<1>. QED
  BY <1>1, <1>5, <1>6

LEMMA ObserveTyped ==
    ASSUME TypeOK, NEW r \in Runs
    PROVE  /\ ObserveAll(r) \in [Sessions -> Checkpoint \cup {NULL}]
           /\ \A s \in Sessions : checkpoint[s] # NULL => ObserveAll(r)[s] # NULL
<1>. SUFFICES ASSUME NEW s \in Sessions
              PROVE  /\ ObserveAll(r)[s] \in Checkpoint \cup {NULL}
                     /\ checkpoint[s] # NULL => ObserveAll(r)[s] # NULL
  BY DEF ObserveAll
<1>1. checkpoint[s] \in Checkpoint \cup {NULL} /\ run[r].seen[s] \in Entry \cup {NULL}
  BY Typed, RunTyped
<1>2. CASE run[r].seen[s] = NULL \/ Unchanged(checkpoint[s], run[r].seen[s])
  BY <1>1, <1>2 DEF ObserveAll
<1>3. CASE ~(run[r].seen[s] = NULL \/ Unchanged(checkpoint[s], run[r].seen[s]))
  <2>1. Observed(checkpoint[s], run[r].seen[s]) \in Checkpoint
    BY <1>1, <1>3, ObservedTyped
  <2>. QED
    BY <1>3, <2>1, Bounds DEF ObserveAll
<1>. QED
  BY <1>2, <1>3

LEMMA BeginCaptureStep ==
    ASSUME IInv, NEW r \in Runs, NEW due \in SUBSET Sessions, BeginCapture(r, due) PROVE IInv'
<1>. DEFINE row == [run[r] EXCEPT !.phase = "capture", !.todo = due]
<1>1. TypeOK /\ RunOK(r) /\ run[r] \in Run /\ run[r].phase = "listed"
  BY RunTyped DEF IInv, Served, BeginCapture
<1>2. run[r].work = NULL
  BY <1>1 DEF RunOK
<1>3. row \in Run /\ row.work = NULL /\ row.phase = "capture" /\ row.todo = due
  BY <1>1, <1>2 DEF Run
<1>4. run' = [run EXCEPT ![r] = row]
  BY <1>1 DEF BeginCapture, TypeOK
<1>. HIDE DEF row
<1>5. checkpoint' \in [Sessions -> Checkpoint \cup {NULL}] /\ Kept
  BY <1>1, ObserveTyped DEF BeginCapture, Kept
<1>6. RunOK(r)'
  <2>1. \A s \in due : checkpoint'[s] # NULL
    BY DEF BeginCapture, Due
  <2>. QED
    BY <1>1, <1>3, <1>4, <2>1 DEF RunOK, TypeOK
<1>. QED
  BY <1>3, <1>4, <1>5, <1>6, RunGoesOn DEF BeginCapture

LEMMA BeginRecoveryStep ==
    ASSUME IInv, NEW r \in Runs, NEW due \in SUBSET Sessions, BeginRecovery(r, due) PROVE IInv'
<1>. DEFINE picked == [s \in Sessions |-> IF s \in due THEN checkpoint[s] ELSE NULL]
            row == [run[r] EXCEPT !.phase = "recover", !.todo = due, !.picked = picked]
<1>1. TypeOK /\ RunOK(r) /\ run[r] \in Run /\ run[r].phase = "capture" /\ run[r].todo = {}
  BY RunTyped DEF IInv, Served, BeginRecovery
<1>2. run[r].work = NULL
  BY <1>1 DEF RunOK
<1>3. picked \in [Sessions -> Checkpoint \cup {NULL}] /\ \A s \in due : picked[s] = checkpoint[s]
  BY <1>1, Typed
<1>4. run' = [run EXCEPT ![r] = row] /\ UNCHANGED <<files, ledger, cursor, known, checkpoint, troubles>>
  BY <1>1 DEF BeginRecovery, TypeOK
<1>. HIDE DEF picked
<1>5. row \in Run /\ row.work = NULL /\ row.phase = "recover" /\ row.todo = due /\ row.picked = picked
  BY <1>1, <1>2, <1>3 DEF Run
<1>. HIDE DEF row
<1>6. RunOK(r)'
  <2>1. \A s \in due : checkpoint'[s] # NULL /\ picked[s] # NULL
    BY <1>3, <1>4 DEF BeginRecovery, Due
  <2>2. run'[r] = row
    BY <1>1, <1>4 DEF TypeOK
  <2>. QED
    BY <1>5, <2>1, <2>2 DEF RunOK
<1>. QED
  BY <1>1, <1>4, <1>5, <1>6, Unkept, RunGoesOn DEF TypeOK

LEMMA ReadStep ==
    ASSUME IInv, NEW r \in Runs, NEW s \in Sessions, Read(r, s) PROVE IInv'
<1>1. TypeOK /\ RunOK(r) /\ run[r] \in Run /\ run[r].phase = "capture" /\ s \in run[r].todo
  BY RunTyped DEF IInv, Served, Read, Turn
<1>2. PICK upto \in Offset(s)..source[s].length :
         run' = [run EXCEPT ![r].work =
                   [session |-> s, epoch |-> source[s].epoch, upto |-> upto,
                    more |-> upto < source[s].length, stage |-> "read"]]
  BY DEF Read
<1>. DEFINE w == [session |-> s, epoch |-> source[s].epoch, upto |-> upto,
                  more |-> upto < source[s].length, stage |-> "read"]
            row == [run[r] EXCEPT !.work = w]
<1>3. w \in Work /\ w.session = s /\ w.stage = "read"
  <2>1. /\ source[s].epoch \in 0..MaxEpoch /\ source[s].length \in 0..MaxLength
        /\ Offset(s) \in 0..MaxLength
    BY <1>1, Typed, Bounds DEF Source, Offset
  <2>2. upto \in 0..MaxLength
    BY <2>1, Bounds
  <2>. QED
    BY <2>1, <2>2 DEF Work
<1>4. run' = [run EXCEPT ![r] = row]
  BY <1>1, <1>2 DEF TypeOK
<1>. HIDE DEF w
<1>5. row \in Run /\ row.phase = "capture" /\ row.todo = run[r].todo /\ row.work = w
  BY <1>1, <1>3 DEF Run
<1>. HIDE DEF row
<1>6. UNCHANGED <<files, ledger, cursor, known, checkpoint, troubles>> /\ run'[r] = row
  BY <1>1, <1>4 DEF Read, TypeOK
<1>7. RunOK(r)'
  BY <1>1, <1>3, <1>5, <1>6 DEF RunOK
<1>. QED
  BY <1>1, <1>3, <1>4, <1>5, <1>6, <1>7, Unkept, RunGoesOn DEF TypeOK
LEMMA WorkMoves ==
    ASSUME IInv, NEW r \in Runs, run[r].work # NULL, NEW stage \in {"appended", "committed"},
           run' = [run EXCEPT ![r].work.stage = stage], UNCHANGED checkpoint
    PROVE  /\ run' \in [Runs -> Run] /\ \A q \in Runs : q # r => run'[q] = run[q]
           /\ run'[r] = [run[r] EXCEPT !.work = [run[r].work EXCEPT !.stage = stage]]
           /\ run'[r].phase = run[r].phase /\ run'[r].todo = run[r].todo
           /\ run'[r].seen = run[r].seen /\ run'[r].work # NULL
           /\ run'[r].work.session = run[r].work.session /\ run'[r].work.epoch = run[r].work.epoch
           /\ run'[r].work.upto = run[r].work.upto /\ run'[r].work.more = run[r].work.more
           /\ run'[r].work.stage = stage /\ Served'
<1>. DEFINE w == [run[r].work EXCEPT !.stage = stage]
            row == [run[r] EXCEPT !.work = w]
<1>1. TypeOK /\ Served /\ run[r] \in Run /\ run[r].work \in Work
  BY AtWork, RunTyped DEF IInv
<1>2. /\ w \in Work /\ w # NULL /\ w.session = run[r].work.session /\ w.epoch = run[r].work.epoch
      /\ w.upto = run[r].work.upto /\ w.more = run[r].work.more /\ w.stage = stage
  BY <1>1, Bounds DEF Work
<1>3. run' = [run EXCEPT ![r] = row]
  BY <1>1 DEF TypeOK
<1>. HIDE DEF w
<1>4. row \in Run /\ row.phase = run[r].phase /\ row.todo = run[r].todo
      /\ row.seen = run[r].seen /\ row.picked = run[r].picked /\ row.work = w
  BY <1>1, <1>2 DEF Run
<1>5. run'[r] = row
  BY <1>1, <1>3 DEF TypeOK
<1>6. run' \in [Runs -> Run] /\ \A q \in Runs : q # r => run'[q] = run[q]
  <2>. HIDE DEF row
  <2>. QED
    BY <1>1, <1>3, <1>4, RunMoves
<1>7. RunOK(r)'
  <2>1. RunOK(r)
    BY <1>1 DEF Served
  <2>. HIDE DEF row
  <2>. QED
    BY <1>2, <1>4, <1>5, <2>1 DEF RunOK
<1>8. Served'
  BY <1>1, <1>6, <1>7, Unkept, ServedOn
<1>. QED
  BY <1>2, <1>4, <1>5, <1>6, <1>8 DEF w

LEMMA AppendBatchStep ==
    ASSUME IInv, NEW r \in Runs, AppendBatch(r) PROVE IInv'
<1>. DEFINE w == run[r].work
            s == w.session
            old == ledger[s]
            upto == Max({old[w.epoch], w.upto})
            new == [old EXCEPT ![w.epoch] = upto]
<1>1. TypeOK /\ Served /\ Room /\ Covered
  BY DEF IInv
<1>2. /\ w # NULL /\ s \in Sessions /\ w.epoch \in 0..MaxEpoch /\ w.upto \in 0..MaxLength
      /\ w.stage = "read" /\ UNCHANGED <<files, cursor, known, checkpoint, troubles>>
      /\ run' = [run EXCEPT ![r].work.stage = "appended"]
  BY AtWork DEF AppendBatch
<1>3. old \in [0..MaxEpoch -> 0..MaxLength] /\ MaxLength \in Nat
  BY <1>1, <1>2, Typed, Bounds
<1>4. upto \in 0..MaxLength /\ upto >= old[w.epoch] /\ upto >= w.upto
  <2>1. old[w.epoch] \in 0..MaxLength
    BY <1>2, <1>3
  <2>2. old[w.epoch] \in Int /\ w.upto \in Int
    BY <1>2, <1>3, <2>1
  <2>. QED
    BY <1>2, <2>1, <2>2, MaxOfTwo
<1>5. ledger' = [ledger EXCEPT ![s] = new]
  BY <1>1, <1>2 DEF AppendBatch, Appended, TypeOK
<1>. HIDE DEF upto
<1>6. /\ new \in [0..MaxEpoch -> 0..MaxLength] /\ new[w.epoch] = upto
      /\ \A e \in 0..MaxEpoch : new[e] >= old[e]
  <2>1. new \in [0..MaxEpoch -> 0..MaxLength] /\ new[w.epoch] = upto
        /\ \A e \in 0..MaxEpoch : e # w.epoch => new[e] = old[e]
    BY <1>2, <1>3, <1>4
  <2>2. ASSUME NEW e \in 0..MaxEpoch PROVE new[e] >= old[e]
    <3>1. old[e] \in 0..MaxLength
      BY <1>3
    <3>. QED
      BY <1>3, <1>4, <2>1, <3>1
  <2>. QED
    BY <2>1, <2>2
<1>. HIDE DEF new
<1>7. ledger' \in [Sessions -> [0..MaxEpoch -> 0..MaxLength]] /\ ledger'[s] = new
      /\ \A t \in Sessions : t # s => ledger'[t] = ledger[t]
  BY <1>1, <1>2, <1>5, <1>6 DEF TypeOK
<1>8. Grown
  <2>. SUFFICES ASSUME NEW t \in Sessions, NEW e \in 0..MaxEpoch
                PROVE  ledger'[t][e] >= ledger[t][e]
    BY DEF Grown
  <2>1. ledger[t][e] \in 0..MaxLength
    BY <1>1, Typed
  <2>2. CASE t = s
    BY <1>6, <1>7, <2>2
  <2>3. CASE t # s
    <3>1. ledger'[t][e] = ledger[t][e]
      BY <1>7, <2>3
    <3>. QED
      BY <1>3, <2>1, <3>1
  <2>. QED
    BY <2>2, <2>3
<1>9. /\ run' \in [Runs -> Run] /\ \A q \in Runs : q # r => run'[q] = run[q]
      /\ run'[r].work.session = s /\ run'[r].work.epoch = w.epoch
      /\ run'[r].work.upto = w.upto /\ Served'
  BY <1>2, WorkMoves
<1>10. TypeOK'
  BY <1>1, <1>2, <1>7, <1>9 DEF TypeOK, files
<1>11. Room'
  BY <1>1, <1>2 DEF Room, files
<1>12. ledger'[s][w.epoch] >= w.upto
  BY <1>4, <1>6, <1>7
<1>13. Covered'
  <2>1. \A t \in Sessions : cursor'[t] = cursor[t]
    BY <1>2
  <2>2. \A q \in Runs : \/ run'[q].work = run[q].work
                        \/ ledger'[run'[q].work.session][run'[q].work.epoch] >= run'[q].work.upto
    BY <1>9, <1>12
  <2>3. \A t \in Sessions : ledger'[t] \in [0..MaxEpoch -> 0..MaxLength]
    BY <1>7
  <2>. QED
    BY <1>1, <1>8, <2>1, <2>2, <2>3, CoveredOn
<1>. QED
  BY <1>9, <1>10, <1>11, <1>13 DEF IInv

LEMMA CommitCursorStep ==
    ASSUME IInv, NEW r \in Runs, CommitCursor(r) PROVE IInv'
<1>. DEFINE w == run[r].work
            s == w.session
            place == [epoch |-> w.epoch, offset |-> w.upto]
<1>1. TypeOK /\ Served /\ Room /\ Covered
  BY DEF IInv
<1>2. /\ w # NULL /\ s \in Sessions /\ w.epoch \in 0..MaxEpoch /\ w.upto \in 0..MaxLength
      /\ w.stage = "appended" /\ UNCHANGED <<files, ledger, known, checkpoint, troubles>>
      /\ run' = [run EXCEPT ![r].work.stage = "committed"]
      /\ cursor' = [cursor EXCEPT ![s] = place]
  BY AtWork DEF CommitCursor, Committable
<1>3. place \in Cursor /\ place.epoch = w.epoch /\ place.offset = w.upto
  BY <1>2 DEF Cursor
<1>. HIDE DEF place
<1>4. cursor' \in [Sessions -> Cursor \cup {NULL}] /\ cursor'[s] = place
      /\ \A t \in Sessions : t # s => cursor'[t] = cursor[t]
  BY <1>1, <1>2, <1>3 DEF TypeOK
<1>5. /\ run' \in [Runs -> Run] /\ \A q \in Runs : q # r => run'[q] = run[q]
      /\ run'[r].work.session = s /\ run'[r].work.epoch = w.epoch
      /\ run'[r].work.upto = w.upto /\ Served'
  BY <1>2, WorkMoves
<1>6. TypeOK'
  BY <1>1, <1>2, <1>4, <1>5 DEF TypeOK, files
<1>7. Room'
  BY <1>1, <1>2 DEF Room, files
<1>8. ledger'[s][w.epoch] >= w.upto
  BY <1>1, <1>2 DEF Covered
<1>9. Covered'
  <2>1. \A t \in Sessions : cursor'[t] = cursor[t] \/ ledger'[t][cursor'[t].epoch] >= cursor'[t].offset
    BY <1>3, <1>4, <1>8
  <2>2. \A q \in Runs : \/ run'[q].work = run[q].work
                        \/ ledger'[run'[q].work.session][run'[q].work.epoch] >= run'[q].work.upto
    BY <1>5, <1>8
  <2>. QED
    BY <1>1, <1>2, <2>1, <2>2, LedgerStays, CoveredOn
<1>. QED
  BY <1>5, <1>6, <1>7, <1>9 DEF IInv

LEMMA CrashStep ==
    ASSUME IInv, Crash PROVE IInv'
<1>1. TypeOK /\ Served /\ Room /\ Covered
  BY DEF IInv
<1>2. /\ run' = [r \in Runs |-> Idle] /\ known' = [s \in Sessions |-> FALSE]
      /\ UNCHANGED <<files, ledger, checkpoint>> /\ troubles' \in 0..MaxTroubles
  BY <1>1, TroubleTyped DEF Crash
<1>3. cursor' \in [Sessions -> Cursor \cup {NULL}]
      /\ \A t \in Sessions : cursor'[t] \in {cursor[t], NULL}
  <2>1. CASE UNCHANGED cursor
    BY <1>1, <2>1 DEF TypeOK
  <2>2. CASE \E s \in Sessions : cursor' = [cursor EXCEPT ![s] = NULL]
    BY <1>1, <2>2 DEF TypeOK
  <2>. QED
    BY <2>1, <2>2 DEF Crash
<1>4. TypeOK'
  BY <1>1, <1>2, <1>3, IdleTyped DEF TypeOK, files
<1>5. Served'
  BY <1>2, IdleTyped DEF Served, RunOK
<1>6. Room'
  BY <1>1, <1>2 DEF Room, files
<1>7. Covered'
  BY <1>1, <1>2, <1>3, IdleTyped, LedgerStays, CoveredOn
<1>. QED
  BY <1>4, <1>5, <1>6, <1>7 DEF IInv

LEMMA Initially == Init => IInv
<1>. SUFFICES ASSUME Init PROVE IInv
  OBVIOUS
<1>1. [epoch |-> 0, length |-> 1, available |-> TRUE] \in Source
  BY Bounds DEF Source
<1>2. 0 \in 0..MaxEpoch /\ 0 \in 0..MaxLength /\ 0 \in 0..MaxTroubles
  BY Bounds
<1>3. TypeOK
  BY <1>1, <1>2, IdleTyped DEF Init, TypeOK
<1>. QED
  BY <1>3, IdleTyped DEF Init, IInv, Served, RunOK, Room, Covered, CursorCovered

LEMMA Step == IInv /\ [Next]_vars => IInv'
<1>. SUFFICES ASSUME IInv, [Next]_vars PROVE IInv'
  OBVIOUS
<1>1. ASSUME NEW s \in Sessions, AppendRecord(s) \/ ReplaceFile(s) \/ Outage(s) \/ Return(s)
      PROVE  IInv'
  BY <1>1, AppendRecordStep, ReplaceFileStep, OutageStep, ReturnStep
<1>2. ASSUME NEW r \in Runs, List(r) \/ Begin(r) \/ AppendBatch(r) \/ CommitCursor(r) \/ Report(r) \/ End(r)
      PROVE  IInv'
  BY <1>2, ListStep, BeginCaptureStep, BeginRecoveryStep, AppendBatchStep, CommitCursorStep,
     ReportStep, EndStep DEF Begin
<1>3. ASSUME NEW r \in Runs, NEW s \in Sessions, Serve(r, s)
      PROVE  IInv'
  BY <1>3, SourceGoneStep, ReadStep, MutationFoundStep, CaptureFailsStep, RecoverStep,
     RecoveryFailsStep, RecoverySkippedStep DEF Serve
<1>4. CASE UNCHANGED vars
  BY <1>4 DEF vars, files, IInv, TypeOK, Served, RunOK, Room, Covered, CursorCovered
<1>. QED
  BY <1>1, <1>2, <1>3, <1>4, CrashStep DEF Next

(* The committed cursor never runs ahead of the ledger: for any number of      *)
(* runs, whatever crashes or overlaps.                                       *)
THEOREM CursorCoveredHolds == Spec => []CursorCovered
<1>1. IInv => CursorCovered
  BY DEF IInv, Covered
<1>. QED
  BY <1>1, Initially, Step, PTL DEF Spec
-----------------------------------------------------------------------------
(* NothingForgotten, one lemma per group of actions.                         *)
Behind(s) == known[s] /\ (cursor[s] = NULL \/ Mutated(s))

LEMMA SessionStays ==
    ASSUME NEW s \in Sessions, SessionOK(s), source'[s] = source[s], listed'[s] = listed[s],
           cursor'[s] = cursor[s], known'[s] = known[s], checkpoint'[s] = checkpoint[s]
    PROVE  SessionOK(s)' /\ (Behind(s)' <=> Behind(s))
BY DEF SessionOK, Past, Explained, Recoverable, Still, Current, Mutated, PendingRecovery, Behind

LEMMA SeenStays ==
    ASSUME NEW r \in Runs, NEW s \in Sessions, SeenOK(r, s), source'[s] = source[s],
           listed'[s] = listed[s], cursor'[s] = cursor[s], known'[s] = known[s],
           checkpoint'[s] = checkpoint[s],
           run'[r].seen = run[r].seen, run'[r].phase = "listed" <=> run[r].phase = "listed"
    PROVE  SeenOK(r, s)'
BY DEF SeenOK, Current, Mutated

LEMMA Ordered ==
    ASSUME IInv, NEW s \in Sessions
    PROVE  /\ source[s].epoch \in Nat /\ source[s].length \in Nat
           /\ cursor[s] # NULL => cursor[s].epoch \in Nat /\ cursor[s].offset \in Nat
           /\ checkpoint[s] # NULL =>
                 checkpoint[s].revision.epoch \in Nat /\ checkpoint[s].revision.length \in Nat
           /\ \A r \in Runs : run[r].seen[s] # NULL =>
                 run[r].seen[s].revision.epoch \in Nat /\ run[r].seen[s].revision.length \in Nat
<1>1. TypeOK
  BY DEF IInv
<1>2. ASSUME NEW x \in Source PROVE x.epoch \in Nat /\ x.length \in Nat
  BY <1>2, Bounds DEF Source
<1>3. ASSUME NEW r \in Runs, run[r].seen[s] # NULL PROVE run[r].seen[s].revision \in Source
  <2>1. run[r].seen[s] \in Entry
    BY <1>1, <1>3, RunTyped
  <2>. QED
    BY <2>1 DEF Entry
<1>4. cursor[s] # NULL => cursor[s].epoch \in Nat /\ cursor[s].offset \in Nat
  BY <1>1, Typed, Bounds
<1>5. source[s] \in Source /\ (checkpoint[s] # NULL => checkpoint[s].revision \in Source)
  BY <1>1, Typed
<1>. QED
  BY <1>2, <1>3, <1>4, <1>5

(* A file that nothing waits for grows, goes away or comes back.              *)
LEMMA FileMoves ==
    ASSUME IInv, IInv', Attended, NEW s \in Sessions, ~Behind(s),
           UNCHANGED <<ledger, cursor, known, checkpoint, run>>,
           \A t \in Sessions : t # s => source'[t] = source[t] /\ listed'[t] = listed[t],
           source'[s].epoch = source[s].epoch,
           \/ source'[s].length = source[s].length + 1
           \/ source'[s].length = source[s].length /\ (listed'[s] => listed[s])
    PROVE  Attended'
<1>1. ASSUME NEW t \in Sessions PROVE SessionOK(t)'
  <2>. SUFFICES ASSUME t = s PROVE SessionOK(s)'
    BY SessionStays DEF Attended
  <2>1. Past(s) /\ Explained(s) /\ Recoverable(s)
    BY DEF Attended, SessionOK
  <2>2. ~Behind(s)'
    BY DEF Behind, Mutated
  <2>3. Past(s)'
    BY <2>1, Ordered DEF Past, Upto
  <2>4. Explained(s)'
    BY <2>1, Ordered DEF Explained, Past, Upto, Same, Current
  <2>5. Recoverable(s)'
    BY <2>1 DEF Recoverable, Mutated, PendingRecovery
  <2>6. Still(s)'
    BY <2>2 DEF Still, Behind
  <2>. QED
    BY <2>3, <2>4, <2>5, <2>6 DEF SessionOK
<1>2. ASSUME NEW r \in Runs, run[r].phase # "idle", NEW t \in Sessions PROVE SeenOK(r, t)'
  <2>0. SeenOK(r, t)
    BY <1>2 DEF Attended
  <2>1. CASE t # s
    BY <2>0, <2>1, SeenStays
  <2>2. CASE t = s
    <3>. DEFINE entry == run[r].seen[s]
    <3>1. SeenOK(r, s) /\ Past(s) /\ ~Behind(s)'
      BY <2>0, <2>2 DEF Behind, Mutated, Attended, SessionOK
    <3>2. entry = NULL /\ listed'[s] =>
            checkpoint[s] = NULL \/ ~Same(checkpoint[s].revision, source'[s])
      BY <3>1, Ordered DEF SeenOK, Past, Upto, Same
    <3>3. entry # NULL => Upto(entry.revision, source'[s])
      BY <3>1, Ordered DEF SeenOK, Upto
    <3>4. entry # NULL /\ run[r].phase = "listed" /\ entry.current /\ Same(entry.revision, source'[s])
            => Current(s)' \/ (known[s] /\ cursor[s] = NULL)
      BY <3>1, Ordered DEF SeenOK, Upto, Same, Current
    <3>. QED
      BY <2>2, <3>1, <3>2, <3>3, <3>4 DEF SeenOK, Behind
  <2>. QED
    BY <2>1, <2>2
<1>3. ASSUME NEW r \in Runs, run[r].phase # "idle" PROVE TurnOK(r)'
  <2>1. TurnOK(r)
    BY <1>3 DEF Attended
  <2>2. ASSUME run[r].work # NULL
        PROVE  LET w == run[r].work IN
               /\ w.epoch = source'[w.session].epoch
               /\ ~w.more /\ Same(checkpoint[w.session].revision, source'[w.session]) =>
                     w.upto = source'[w.session].length
    <3>. DEFINE w == run[r].work
    <3>1. w.session \in Sessions /\ checkpoint[w.session] # NULL
      BY <2>2, AtWork DEF IInv, Served, RunOK
    <3>2. CASE w.session # s
      BY <2>1, <2>2, <3>1, <3>2 DEF TurnOK
    <3>3. CASE w.session = s
      <4>1. Past(s)
        BY DEF Attended, SessionOK
      <4>. QED
        BY <2>1, <2>2, <3>1, <3>3, <4>1, Ordered DEF TurnOK, Past, Upto, Same
    <3>. QED
      BY <3>2, <3>3
  <2>. QED
    BY <2>1, <2>2 DEF TurnOK
<1>. QED
  BY <1>1, <1>2, <1>3 DEF Attended

LEMMA FilesAttended ==
    ASSUME IInv, IInv', Calm, Attended, NEW s \in Sessions,
           AppendRecord(s) \/ Outage(s) \/ Return(s)
    PROVE  Attended'
<1>1. TypeOK /\ source[s] \in Source
  BY Typed DEF IInv
<1>2. UNCHANGED <<ledger, cursor, known, checkpoint, run>>
  BY DEF AppendRecord, Outage, Return
<1>3. ~Behind(s)
  <2>1. CASE Settled(s)
    BY <2>1 DEF Calm, Settled, Behind
  <2>2. CASE Return(s)
    BY <2>2 DEF Return, Behind, Attended, SessionOK, Still
  <2>. QED
    BY <2>1, <2>2 DEF AppendRecord, Outage
<1>4. \A t \in Sessions : t # s => source'[t] = source[t] /\ listed'[t] = listed[t]
  BY <1>1 DEF AppendRecord, Outage, Return, TypeOK
<1>5. /\ source'[s].epoch = source[s].epoch
      /\ \/ source'[s].length = source[s].length + 1
         \/ source'[s].length = source[s].length /\ (listed'[s] => listed[s])
  <2>1. CASE AppendRecord(s)
    BY <1>1, <2>1 DEF AppendRecord, TypeOK, Source
  <2>2. CASE Outage(s)
    BY <1>1, <2>2 DEF Outage, TypeOK, Source
  <2>3. CASE Return(s)
    BY <1>1, <2>3 DEF Return, TypeOK, Source
  <2>. QED
    BY <2>1, <2>2, <2>3
<1>. QED
  BY <1>2, <1>3, <1>4, <1>5, FileMoves

LEMMA ReplaceFileAttended ==
    ASSUME IInv, IInv', Calm, Attended, NEW s \in Sessions, ReplaceFile(s)
    PROVE  Attended'
<1>1. TypeOK /\ source[s] \in Source /\ source[s].epoch \in Nat
  BY Typed DEF IInv
<1>2. /\ UNCHANGED <<listed, ledger, cursor, known, checkpoint, run>>
      /\ source[s].available /\ listed[s] /\ \A r \in Runs : run[r].phase = "idle"
  BY DEF ReplaceFile, AtRest, Calm
<1>3. /\ \A t \in Sessions : t # s => source'[t] = source[t]
      /\ source'[s].epoch = source[s].epoch + 1 /\ source'[s].available = source[s].available
  BY <1>1 DEF ReplaceFile, TypeOK, Source
<1>4. ~Behind(s)
  BY DEF ReplaceFile, Calm, Settled, Behind
<1>5. ASSUME NEW t \in Sessions PROVE SessionOK(t)'
  <2>. SUFFICES ASSUME t = s PROVE SessionOK(s)'
    BY <1>2, <1>3, SessionStays DEF Attended
  <2>1. Past(s) /\ Explained(s) /\ Recoverable(s)
    BY DEF Attended, SessionOK
  <2>2. Past(s)'
    BY <1>1, <1>2, <1>3, <2>1, Ordered DEF Past, Upto
  <2>3. Explained(s)'
    <3>1. checkpoint[s] # NULL => ~Same(checkpoint[s].revision, source'[s])
      BY <1>1, <1>3, <2>1, Ordered DEF Past, Upto, Same
    <3>. QED
      BY <1>2, <3>1 DEF Explained
  <2>4. Recoverable(s)'
    <3>1. cursor[s] # NULL => Mutated(s)'
      BY <1>1, <1>2, <1>3, <2>1, Ordered DEF Past, Mutated
    <3>2. cursor[s] = NULL => ~Mutated(s)
      BY DEF Mutated
    <3>. QED
      BY <1>2, <2>1, <3>1, <3>2 DEF Recoverable, PendingRecovery
  <2>5. Still(s)'
    BY <1>2, <1>3, <1>4 DEF Still, Behind
  <2>. QED
    BY <2>2, <2>3, <2>4, <2>5 DEF SessionOK
<1>. QED
  BY <1>2, <1>5 DEF Attended
(* A run moves on, and nothing else does.                                    *)
LEMMA RunAttended ==
    ASSUME IInv, Calm, Attended, NEW r \in Runs,
           UNCHANGED <<files, cursor, known, checkpoint>>,
           run'[r].phase # "idle" => TurnOK(r)' /\ \A s \in Sessions : SeenOK(r, s)'
    PROVE  Attended'
<1>1. ASSUME NEW s \in Sessions PROVE SessionOK(s)'
  BY SessionStays DEF Attended, files
<1>2. ASSUME NEW q \in Runs, run'[q].phase # "idle"
      PROVE  TurnOK(q)' /\ \A s \in Sessions : SeenOK(q, s)'
  BY <1>2 DEF Calm
<1>. QED
  BY <1>1, <1>2 DEF Attended

LEMMA ListAttended ==
    ASSUME IInv, Calm, Attended, NEW r \in Runs, List(r) PROVE Attended'
<1>. DEFINE row == [Idle EXCEPT !.phase = "listed", !.seen = Catalog]
<1>1. TypeOK /\ UNCHANGED <<files, cursor, known, checkpoint>>
  BY DEF IInv, List
<1>2. row.phase = "listed" /\ row.seen = Catalog /\ row.todo = {} /\ row.work = NULL
  BY DEF Idle
<1>3. run'[r] = row
  BY <1>1 DEF List, TypeOK
<1>. HIDE DEF row
<1>4. TurnOK(r)'
  BY <1>2, <1>3 DEF TurnOK
<1>5. ASSUME NEW s \in Sessions PROVE SeenOK(r, s)'
  <2>. DEFINE entry == Catalog[s]
  <2>1. run'[r].seen[s] = entry
    BY <1>2, <1>3
  <2>2. source[s] \in Source /\ cursor[s] \in Cursor \cup {NULL}
    BY <1>1, Typed
  <2>3. CASE listed[s]
    <3>1. entry = [revision |-> source[s], current |-> LooksCurrent(s)] /\ entry \in Entry \cup {NULL}
      BY <1>1, <2>3, CatalogTyped DEF Catalog
    <3>2. entry.revision = source[s] /\ (entry.current <=> LooksCurrent(s))
      BY <3>1
    <3>3. entry # NULL
      <4>1. LooksCurrent(s) \in BOOLEAN
        BY <1>1, Typed DEF LooksCurrent
      <4>2. [revision |-> source[s], current |-> LooksCurrent(s)] \in Entry
        BY <2>2, <4>1 DEF Entry
      <4>. QED
        BY <3>1, <4>2, Bounds
    <3>4. LooksCurrent(s) => Current(s) \/ (known[s] /\ cursor[s] = NULL)
      <4>1. CASE cursor[s] = NULL
        BY <4>1 DEF LooksCurrent
      <4>2. CASE cursor[s] # NULL
        <5>1. cursor[s] = [epoch |-> cursor[s].epoch, offset |-> cursor[s].offset]
          BY <2>2, <4>2 DEF Cursor
        <5>. QED
          BY <4>2, <5>1 DEF LooksCurrent, Calm, Mutated, Current
      <4>. QED
        BY <4>1, <4>2
    <3>5. Upto(source[s], source[s])
      BY <2>2, Bounds DEF Upto, Source
    <3>. HIDE DEF entry
    <3>. QED
      BY <1>1, <1>2, <1>3, <2>1, <3>2, <3>3, <3>4, <3>5 DEF SeenOK, Current, Mutated, files
  <2>4. CASE ~listed[s]
    <3>1. entry = NULL
      BY <2>4 DEF Catalog
    <3>2. ~Behind(s)
      BY <2>4 DEF Attended, SessionOK, Still, Behind
    <3>. HIDE DEF entry
    <3>. QED
      BY <1>1, <2>1, <2>4, <3>1, <3>2 DEF SeenOK, Behind, Mutated, files
  <2>. QED
    BY <2>3, <2>4
<1>. QED
  BY <1>1, <1>4, <1>5, RunAttended

LEMMA EndAttended ==
    ASSUME IInv, Calm, Attended, NEW r \in Runs, End(r) PROVE Attended'
<1>1. UNCHANGED <<files, cursor, known, checkpoint>>
  BY DEF End
<1>2. run'[r] = Idle
  BY DEF End, IInv, TypeOK
<1>. QED
  BY <1>1, <1>2, IdleTyped, RunAttended

LEMMA CrashAttended ==
    ASSUME IInv, Calm, Attended, Crash PROVE Attended'
<1>1. /\ \A r \in Runs : run'[r].phase = "idle"
      /\ \A s \in Sessions : ~known'[s]
      /\ UNCHANGED <<files, checkpoint>>
  BY IdleTyped DEF Crash
<1>2. ASSUME NEW s \in Sessions
      PROVE  \/ cursor'[s] = cursor[s]
             \/ cursor'[s] = NULL /\ checkpoint[s].status = "RECOVERY_PENDING"
  <2>1. CASE UNCHANGED cursor
    BY <2>1
  <2>2. ASSUME NEW r \in Runs, NEW t \in Sessions, RecoveryTurn(r, t),
               cursor' = [cursor EXCEPT ![t] = NULL]
        PROVE  \/ cursor'[s] = cursor[s]
               \/ cursor'[s] = NULL /\ checkpoint[s].status = "RECOVERY_PENDING"
    <3>1. TurnOK(r)
      BY <2>2 DEF RecoveryTurn, Attended
    <3>2. checkpoint[t].status = "RECOVERY_PENDING"
      BY <2>2, <3>1 DEF RecoveryTurn, TurnOK
    <3>. QED
      BY <2>2, <3>2 DEF IInv, TypeOK
  <2>. QED
    BY <2>1, <2>2 DEF Crash
<1>3. ASSUME NEW s \in Sessions PROVE SessionOK(s)'
  <2>1. Past(s) /\ Explained(s) /\ Recoverable(s)
    BY DEF Attended, SessionOK
  <2>2. Past(s)'
    BY <1>1, <1>2, <2>1 DEF Past, files
  <2>3. Explained(s)'
    BY <1>1, <1>2, <2>1 DEF Explained, Current, files
  <2>4. Recoverable(s)'
    BY <1>1, <1>2, <2>1 DEF Recoverable, Mutated, PendingRecovery, files
  <2>5. Still(s)'
    BY <1>1 DEF Still
  <2>. QED
    BY <2>2, <2>3, <2>4, <2>5 DEF SessionOK
<1>. QED
  BY <1>1, <1>3 DEF Attended

LEMMA BeginRecoveryAttended ==
    ASSUME IInv, Calm, Attended, NEW r \in Runs, NEW due \in SUBSET Sessions, BeginRecovery(r, due)
    PROVE  Attended'
<1>. DEFINE picked == [s \in Sessions |-> IF s \in due THEN checkpoint[s] ELSE NULL]
            row == [run[r] EXCEPT !.phase = "recover", !.todo = due, !.picked = picked]
<1>1. /\ TypeOK /\ RunOK(r) /\ run[r] \in Run /\ run[r].phase = "capture" /\ run[r].todo = {}
      /\ UNCHANGED <<files, cursor, known, checkpoint>>
  BY RunTyped DEF IInv, Served, BeginRecovery
<1>2. run'[r] = row
  BY <1>1 DEF BeginRecovery, TypeOK
<1>. HIDE DEF picked
<1>3. /\ row.phase = "recover" /\ row.todo = due /\ row.seen = run[r].seen /\ row.work = NULL
  BY <1>1 DEF Run, RunOK
<1>. HIDE DEF row
<1>4. \A s \in due : checkpoint[s].status = "RECOVERY_PENDING"
  BY DEF BeginRecovery, Due
<1>5. TurnOK(r)'
  BY <1>1, <1>2, <1>3, <1>4 DEF TurnOK
<1>6. \A s \in Sessions : SeenOK(r, s)'
  BY <1>1, <1>2, <1>3, SeenStays DEF Attended, files
<1>. QED
  BY <1>1, <1>5, <1>6, RunAttended

LEMMA BeginCaptureAttended ==
    ASSUME IInv, IInv', Calm, Attended, NEW r \in Runs, NEW due \in SUBSET Sessions, BeginCapture(r, due)
    PROVE  Attended'
<1>. DEFINE row == [run[r] EXCEPT !.phase = "capture", !.todo = due]
<1>1. /\ TypeOK /\ RunOK(r) /\ run[r] \in Run /\ run[r].phase = "listed"
      /\ UNCHANGED <<files, cursor, known>>
  BY RunTyped DEF IInv, Served, BeginCapture
<1>2. run'[r] = row
  BY <1>1 DEF BeginCapture, TypeOK
<1>3. row.phase = "capture" /\ row.todo = due /\ row.seen = run[r].seen /\ row.work = NULL
  BY <1>1 DEF Run, RunOK
<1>. HIDE DEF row
<1>4. ASSUME NEW s \in Sessions PROVE SessionOK(s)' /\ SeenOK(r, s)'
  <2>. DEFINE entry == run[r].seen[s]
              c == checkpoint[s]
  <2>1. SessionOK(s) /\ SeenOK(r, s)
    BY <1>1 DEF Attended
  <2>2. c \in Checkpoint \cup {NULL} /\ entry \in Entry \cup {NULL} /\ run'[r].seen[s] = entry
    BY <1>1, <1>2, <1>3, Typed, RunTyped
  <2>3. CASE entry = NULL \/ Unchanged(c, entry)
    <3>1. checkpoint'[s] = c
      BY <2>3 DEF BeginCapture, ObserveAll
    <3>2. SessionOK(s)'
      BY <1>1, <2>1, <3>1, SessionStays DEF files
    <3>3. entry # NULL => c # NULL /\ c.revision = entry.revision
      BY <2>3 DEF Unchanged
    <3>. HIDE DEF entry, c
    <3>4. SeenOK(r, s)'
      BY <1>1, <1>2, <1>3, <2>1, <2>2, <3>1, <3>3 DEF SeenOK, Current, Mutated, files, entry, c
    <3>. QED
      BY <3>2, <3>4
  <2>4. CASE entry # NULL /\ ~Unchanged(c, entry)
    <3>. DEFINE new == Observed(c, entry)
    <3>1. checkpoint'[s] = new
      BY <2>4 DEF BeginCapture, ObserveAll
    <3>2. /\ new \in Checkpoint /\ new # NULL /\ new.revision = entry.revision
          /\ new.status = IF ~entry.revision.available THEN "SOURCE_UNAVAILABLE"
                          ELSE IF PendingRecovery(c) THEN "RECOVERY_PENDING"
                          ELSE IF entry.current THEN "CAPTURED_CURRENT" ELSE "FOLLOW_PENDING"
          /\ PendingRecovery(new) <=> PendingRecovery(c)
      BY <2>2, <2>4, ObservedTyped, Bounds
    <3>. HIDE DEF new
    <3>3. ~(known[s] /\ cursor[s] = NULL)
      BY <2>1, <2>4 DEF SessionOK, Still, SeenOK, Unchanged
    <3>4. Past(s)'
      BY <1>1, <2>1, <2>4, <3>1, <3>2 DEF Past, SeenOK, SessionOK, files
    <3>5. Explained(s)'
      BY <1>1, <2>1, <2>4, <3>1, <3>2, <3>3 DEF Explained, SeenOK, Current, files
    <3>6. Recoverable(s)'
      <4>1. PendingRecovery(c) => c # NULL
        BY DEF PendingRecovery
      <4>2. PendingRecovery(c) => (cursor[s] = NULL /\ ~known[s]) \/ Mutated(s)
        BY <2>1, <4>1 DEF SessionOK, Recoverable
      <4>3. /\ new.status = "RECOVERY_PENDING" => PendingRecovery(c)
            /\ PendingRecovery(c) => new.status \in {"RECOVERY_PENDING", "SOURCE_UNAVAILABLE"}
        BY <3>2
      <4>4. Mutated(s)' <=> Mutated(s)
        BY <1>1 DEF Mutated, files
      <4>5. PendingRecovery(checkpoint[s])' <=> PendingRecovery(new)
        BY <3>1 DEF PendingRecovery
      <4>. QED
        BY <1>1, <3>1, <3>2, <4>2, <4>3, <4>4, <4>5 DEF Recoverable
    <3>7. Still(s)'
      BY <1>1, <2>1, <3>3 DEF SessionOK, Still, Mutated, files
    <3>8. SeenOK(r, s)'
      BY <1>1, <1>2, <1>3, <2>1, <2>2, <2>4, <3>1, <3>2 DEF SeenOK, Mutated, files
    <3>. QED
      BY <3>4, <3>5, <3>6, <3>7, <3>8 DEF SessionOK
  <2>. QED
    BY <2>3, <2>4
<1>5. TurnOK(r)'
  <2>1. \A s \in due : checkpoint'[s].status \in CaptureEligible
    BY DEF BeginCapture, Due
  <2>. QED
    BY <1>2, <1>3, <2>1 DEF TurnOK
<1>. QED
  BY <1>4, <1>5 DEF Attended, Calm
LEMMA ReadAttended ==
    ASSUME IInv, Calm, Attended, NEW r \in Runs, NEW s \in Sessions, Read(r, s)
    PROVE  Attended'
<1>1. /\ TypeOK /\ run[r] \in Run /\ run[r].phase = "capture" /\ s \in run[r].todo
      /\ UNCHANGED <<files, cursor, known, checkpoint>>
  BY RunTyped DEF IInv, Read, Turn
<1>2. PICK upto \in Offset(s)..source[s].length :
         run' = [run EXCEPT ![r].work =
                   [session |-> s, epoch |-> source[s].epoch, upto |-> upto,
                    more |-> upto < source[s].length, stage |-> "read"]]
  BY DEF Read
<1>. DEFINE w == [session |-> s, epoch |-> source[s].epoch, upto |-> upto,
                  more |-> upto < source[s].length, stage |-> "read"]
            row == [run[r] EXCEPT !.work = w]
<1>3. run'[r] = row
  BY <1>1, <1>2 DEF TypeOK
<1>4. /\ w.session = s /\ w.epoch = source[s].epoch /\ w.stage = "read"
      /\ ~w.more => w.upto = source[s].length
  <2>1. source[s].length \in Nat /\ Offset(s) \in Nat
    BY <1>1, Typed, Bounds DEF Offset
  <2>2. ~(upto < source[s].length) => upto = source[s].length
    BY <2>1
  <2>3. w.more <=> upto < source[s].length
    OBVIOUS
  <2>. QED
    BY <2>2, <2>3
<1>. HIDE DEF w
<1>5. row.phase = "capture" /\ row.todo = run[r].todo /\ row.seen = run[r].seen /\ row.work = w
  BY <1>1 DEF Run
<1>. HIDE DEF row
<1>6. TurnOK(r)'
  <2>1. TurnOK(r)
    BY <1>1 DEF Attended
  <2>. QED
    BY <1>1, <1>3, <1>4, <1>5, <2>1 DEF TurnOK, files
<1>7. \A t \in Sessions : SeenOK(r, t)'
  BY <1>1, <1>3, <1>5, SeenStays DEF Attended, files
<1>. QED
  BY <1>1, <1>6, <1>7, RunAttended

LEMMA AppendBatchAttended ==
    ASSUME IInv, Calm, Attended, NEW r \in Runs, AppendBatch(r)
    PROVE  Attended'
<1>1. /\ run[r].work # NULL /\ run[r].phase = "capture"
      /\ UNCHANGED <<files, cursor, known, checkpoint>>
  BY AtWork DEF AppendBatch
<1>2. /\ run'[r].phase = run[r].phase /\ run'[r].todo = run[r].todo
      /\ run'[r].seen = run[r].seen /\ run'[r].work # NULL
      /\ run'[r].work.session = run[r].work.session /\ run'[r].work.epoch = run[r].work.epoch
      /\ run'[r].work.upto = run[r].work.upto /\ run'[r].work.more = run[r].work.more
      /\ run'[r].work.stage = "appended"
  BY <1>1, WorkMoves DEF AppendBatch
<1>3. TurnOK(r)'
  <2>1. TurnOK(r)
    BY <1>1 DEF Attended
  <2>. QED
    BY <1>1, <1>2, <2>1 DEF TurnOK, files
<1>4. \A t \in Sessions : SeenOK(r, t)'
  BY <1>1, <1>2, SeenStays DEF Attended, files
<1>. QED
  BY <1>1, <1>3, <1>4, RunAttended

LEMMA CommitCursorAttended ==
    ASSUME IInv, IInv', Calm, Attended, NEW r \in Runs, CommitCursor(r)
    PROVE  Attended'
<1>0. run[r].work # NULL
  BY DEF CommitCursor
<1>. PICK w \in Work : w = run[r].work
  BY <1>0, AtWork
<1>. PICK s \in Sessions : s = w.session
  BY <1>0, AtWork
<1>. DEFINE place == [epoch |-> w.epoch, offset |-> w.upto]
<1>1. /\ TypeOK /\ w # NULL /\ run[r].phase = "capture" /\ s \in run[r].todo
      /\ w.epoch \in 0..MaxEpoch /\ w.upto \in 0..MaxLength
      /\ UNCHANGED <<files, known, checkpoint>> /\ cursor' = [cursor EXCEPT ![s] = place]
  BY <1>0, AtWork DEF IInv, CommitCursor
<1>2. /\ run'[r].phase = run[r].phase /\ run'[r].todo = run[r].todo
      /\ run'[r].seen = run[r].seen /\ run'[r].work # NULL
      /\ run'[r].work.session = s /\ run'[r].work.epoch = w.epoch
      /\ run'[r].work.upto = w.upto /\ run'[r].work.more = w.more
  BY <1>1, WorkMoves DEF CommitCursor
<1>3. /\ w.epoch = source[s].epoch /\ checkpoint[s].status \in CaptureEligible
      /\ ~w.more /\ Same(checkpoint[s].revision, source[s]) => w.upto = source[s].length
      /\ \A t \in run[r].todo : checkpoint[t].status \in CaptureEligible
  BY <1>1 DEF Attended, TurnOK
<1>4. place # NULL /\ place.epoch = w.epoch /\ place.offset = w.upto
  BY <1>1, Bounds DEF Cursor
<1>5. cursor'[s] = place /\ \A t \in Sessions : t # s => cursor'[t] = cursor[t]
  BY <1>1 DEF TypeOK
<1>6. TurnOK(r)'
  BY <1>1, <1>2, <1>3, <1>5 DEF TurnOK, files
<1>. HIDE DEF place
<1>7. ~Behind(s)'
  BY <1>1, <1>3, <1>4, <1>5 DEF Behind, Mutated, files
<1>8. ASSUME NEW t \in Sessions PROVE SessionOK(t)' /\ SeenOK(r, t)'
  <2>1. SessionOK(t) /\ SeenOK(r, t)
    BY <1>1 DEF Attended
  <2>2. CASE t # s
    BY <1>1, <1>2, <1>5, <2>1, <2>2, SessionStays, SeenStays DEF files
  <2>3. CASE t = s
    <3>1. Past(s)'
      <4>1. Past(s) /\ source[s].epoch \in Nat
        BY <2>1, <2>3, Ordered DEF SessionOK
      <4>2. cursor'[s].epoch = source[s].epoch
        BY <1>3, <1>4, <1>5
      <4>. QED
        BY <1>1, <4>1, <4>2 DEF Past, files
    <3>2. Explained(s)'
      BY <1>1, <1>3, <2>1, <2>3 DEF SessionOK, Explained, CaptureEligible, files
    <3>3. Recoverable(s)'
      <4>1. checkpoint[s] # NULL => ~PendingRecovery(checkpoint[s])
        BY <1>3, <2>1, <2>3 DEF SessionOK, Recoverable, CaptureEligible
      <4>. QED
        BY <1>1, <1>3, <4>1 DEF Recoverable, PendingRecovery, CaptureEligible
    <3>4. Still(s)'
      BY <1>7 DEF Still, Behind
    <3>5. SeenOK(r, s)'
      BY <1>1, <1>2, <1>7, <2>1, <2>3 DEF SeenOK, Behind, files
    <3>. QED
      BY <2>3, <3>1, <3>2, <3>3, <3>4, <3>5 DEF SessionOK
  <2>. QED
    BY <2>2, <2>3
<1>. QED
  BY <1>6, <1>8 DEF Attended, Calm

(* A session's turn ends: what was observed of its file stands, nothing else *)
(* of another session changes, and its own invariant holds.                   *)
LEMMA TurnAttended ==
    ASSUME IInv, IInv', Calm, Attended, NEW r \in Runs, NEW s \in Sessions, Handled(r, s),
           run[r].phase \in {"capture", "recover"},
           NEW row \in Checkpoint, checkpoint' = [checkpoint EXCEPT ![s] = row],
           checkpoint[s] # NULL, row.revision = checkpoint[s].revision,
           UNCHANGED files, \A t \in Sessions : t # s => known'[t] = known[t] /\ cursor'[t] = cursor[t],
           cursor'[s] \in {cursor[s], NULL},
           Explained(s)', Recoverable(s)', Still(s)', Behind(s)' => Behind(s)
    PROVE  Attended'
<1>1. TypeOK /\ row # NULL
  BY Bounds DEF IInv
<1>2. checkpoint'[s] = row /\ \A t \in Sessions : t # s => checkpoint'[t] = checkpoint[t]
  BY <1>1 DEF TypeOK
<1>3. /\ run'[r].phase = run[r].phase /\ run'[r].seen = run[r].seen
      /\ run'[r].todo = run[r].todo \ {s} /\ run'[r].work = NULL
  BY <1>1, HandledRun
<1>4. TurnOK(r)'
  <2>1. TurnOK(r) /\ run[r].todo \subseteq Sessions
    BY <1>1, RunTyped DEF Attended
  <2>. QED
    BY <1>2, <1>3, <2>1 DEF TurnOK
<1>5. ASSUME NEW t \in Sessions PROVE SessionOK(t)' /\ SeenOK(r, t)'
  <2>1. SessionOK(t) /\ SeenOK(r, t)
    BY DEF Attended
  <2>2. CASE t # s
    BY <1>2, <1>3, <2>1, <2>2, SessionStays, SeenStays DEF files
  <2>3. CASE t = s
    <3>1. Past(s)'
      BY <1>1, <1>2, <2>1, <2>3 DEF SessionOK, Past, files
    <3>2. SeenOK(r, s)'
      BY <1>1, <1>2, <1>3, <2>1, <2>3 DEF SeenOK, Behind, files
    <3>. QED
      BY <2>3, <3>1, <3>2 DEF SessionOK
  <2>. QED
    BY <2>2, <2>3
<1>. QED
  BY <1>4, <1>5 DEF Attended, Calm
LEMMA SourceGoneAttended ==
    ASSUME IInv, IInv', Calm, Attended, NEW r \in Runs, NEW s \in Sessions, SourceGone(r, s)
    PROVE  Attended'
<1>. DEFINE c == checkpoint[s]
            row == [c EXCEPT !.status = "SOURCE_UNAVAILABLE"]
            entry == run[r].seen[s]
<1>1. /\ TypeOK /\ c \in Checkpoint /\ c # NULL /\ run[r].phase = "capture" /\ s \in run[r].todo
      /\ UNCHANGED <<files, cursor, known>> /\ Handled(r, s) /\ ~Readable(r, s)
  BY HasCheckpoint, Bounds DEF IInv, SourceGone, Turn
<1>2. SessionOK(s) /\ SeenOK(r, s) /\ c.status \in CaptureEligible
  BY <1>1 DEF Attended, TurnOK
<1>3. /\ row \in Checkpoint /\ row.revision = c.revision /\ row.status = "SOURCE_UNAVAILABLE"
      /\ row.diagnostic = c.diagnostic /\ row.key = c.key /\ row.completed = c.completed
  BY <1>1 DEF Checkpoint, Status
<1>4. checkpoint' = [checkpoint EXCEPT ![s] = row]
  BY <1>1 DEF SourceGone, TypeOK
<1>. HIDE DEF row
<1>5. checkpoint'[s] = row /\ row # NULL
  BY <1>1, <1>3, <1>4, Bounds DEF TypeOK
<1>6. ~c.revision.available \/ ~listed[s] \/ ~Same(c.revision, source[s])
  <2>1. CASE entry # NULL
    BY <1>1, <1>2, <2>1 DEF SeenOK, Readable
  <2>2. CASE entry = NULL
    BY <1>1, <1>2, <2>2 DEF SeenOK, Readable
  <2>. QED
    BY <2>1, <2>2
<1>7. Explained(s)'
  BY <1>1, <1>3, <1>5, <1>6 DEF Explained, files
<1>8. Recoverable(s)'
  <2>1. ~PendingRecovery(c)
    BY <1>1, <1>2 DEF SessionOK, Recoverable, CaptureEligible
  <2>. QED
    BY <1>1, <1>3, <1>5, <2>1 DEF Recoverable, PendingRecovery
<1>9. Still(s)' /\ (Behind(s)' => Behind(s))
  BY <1>1, <1>2, <1>3, <1>5 DEF SessionOK, Still, Behind, Mutated, files
<1>. QED
  BY <1>1, <1>3, <1>4, <1>7, <1>8, <1>9, TurnAttended

LEMMA CaptureFailsAttended ==
    ASSUME IInv, IInv', Calm, Attended, NEW r \in Runs, NEW s \in Sessions, CaptureFails(r, s)
    PROVE  Attended'
<1>. DEFINE c == checkpoint[s]
            row == [c EXCEPT !.status = "RETRY_PENDING", !.diagnostic = "CAPTURE_FAILED"]
<1>1. run[r].phase = "capture" /\ s \in run[r].todo
  BY AtWork DEF CaptureFails, Turn
<1>2. /\ TypeOK /\ c \in Checkpoint /\ c # NULL
      /\ UNCHANGED <<files, cursor, known>> /\ Handled(r, s)
  BY <1>1, HasCheckpoint, Bounds DEF IInv, CaptureFails
<1>3. /\ row \in Checkpoint /\ row.revision = c.revision /\ row.status = "RETRY_PENDING"
      /\ row.diagnostic = "CAPTURE_FAILED"
  BY <1>2 DEF Checkpoint, Status, CaptureEligible
<1>4. checkpoint' = [checkpoint EXCEPT ![s] = row]
  BY <1>2 DEF CaptureFails, TypeOK
<1>. HIDE DEF row
<1>5. checkpoint'[s] = row /\ row # NULL
  BY <1>2, <1>3, <1>4, Bounds DEF TypeOK
<1>6. SessionOK(s)
  BY DEF Attended
<1>7. Explained(s)'
  BY <1>3, <1>5 DEF Explained
<1>8. Recoverable(s)'
  BY <1>3, <1>5 DEF Recoverable, PendingRecovery
<1>9. Still(s)' /\ (Behind(s)' => Behind(s))
  BY <1>2, <1>3, <1>5, <1>6 DEF SessionOK, Still, Behind, Mutated, files
<1>. QED
  BY <1>1, <1>2, <1>3, <1>4, <1>7, <1>8, <1>9, TurnAttended

LEMMA MutationFoundAttended ==
    ASSUME IInv, IInv', Calm, Attended, NEW r \in Runs, NEW s \in Sessions, MutationFound(r, s)
    PROVE  Attended'
<1>. DEFINE c == checkpoint[s]
            key == IF c.key # NULL THEN c.key ELSE c.revision
            row == [c EXCEPT !.status = "RECOVERY_PENDING", !.diagnostic = "MUTATION",
                             !.key = key, !.completed = FALSE]
<1>1. /\ TypeOK /\ run[r].phase = "capture" /\ c \in Checkpoint /\ c.revision \in Source
      /\ c # NULL /\ UNCHANGED <<files, cursor, known>> /\ Handled(r, s) /\ Mutated(s)
  BY HasCheckpoint, Bounds DEF IInv, MutationFound, Turn
<1>2. key \in Source
  BY <1>1 DEF Checkpoint
<1>3. checkpoint' = [checkpoint EXCEPT ![s] = row]
  BY <1>1 DEF MutationFound, TypeOK
<1>. HIDE DEF key
<1>4. row \in Checkpoint /\ row.revision = c.revision /\ row.status = "RECOVERY_PENDING"
  BY <1>1, <1>2 DEF Checkpoint, Status
<1>. HIDE DEF row
<1>5. checkpoint'[s] = row /\ row # NULL
  BY <1>1, <1>3, <1>4, Bounds DEF TypeOK
<1>6. SessionOK(s)
  BY DEF Attended
<1>7. Explained(s)'
  BY <1>4, <1>5 DEF Explained
<1>8. Recoverable(s)'
  BY <1>1, <1>4, <1>5 DEF Recoverable, Mutated, files
<1>9. Still(s)' /\ (Behind(s)' => Behind(s))
  BY <1>1, <1>4, <1>5, <1>6 DEF SessionOK, Still, Behind, Mutated, files
<1>. QED
  BY <1>1, <1>3, <1>4, <1>7, <1>8, <1>9, TurnAttended

LEMMA ReportAttended ==
    ASSUME IInv, IInv', Calm, Attended, NEW r \in Runs, Report(r)
    PROVE  Attended'
<1>0. run[r].work # NULL
  BY DEF Report
<1>. PICK w \in Work : w = run[r].work
  BY <1>0, AtWork
<1>. PICK s \in Sessions : s = w.session
  BY <1>0, AtWork
<1>. DEFINE c == checkpoint[s]
            row == Captured(c, w.more)
<1>1. /\ TypeOK /\ run[r].phase = "capture" /\ s \in run[r].todo /\ w.more \in BOOLEAN
      /\ UNCHANGED <<files, cursor>> /\ Handled(r, s) /\ w.stage = "committed"
      /\ checkpoint' = [checkpoint EXCEPT ![s] = row]
      /\ known' = [known EXCEPT ![s] = ~w.more]
  BY <1>0, AtWork DEF IInv, Report
<1>2. c \in Checkpoint /\ c # NULL
  BY <1>1, HasCheckpoint, Bounds
<1>3. /\ row \in Checkpoint /\ row.revision = c.revision /\ row.key = NULL
      /\ row.status = IF w.more THEN "CAPTURED_PARTIAL" ELSE "CAPTURED_CURRENT"
  BY <1>1, <1>2, CapturedTyped
<1>. HIDE DEF row
<1>4. /\ checkpoint'[s] = row /\ row # NULL /\ (known'[s] <=> ~w.more)
      /\ \A t \in Sessions : t # s => known'[t] = known[t]
  BY <1>1, <1>2, <1>3, Bounds DEF TypeOK
<1>5. /\ w.epoch = source[s].epoch /\ cursor[s] = [epoch |-> w.epoch, offset |-> w.upto]
      /\ ~w.more /\ Same(c.revision, source[s]) => w.upto = source[s].length
  BY <1>0, <1>1 DEF Attended, TurnOK
<1>6. cursor[s] # NULL /\ ~Mutated(s)
  <2>1. [epoch |-> w.epoch, offset |-> w.upto] \in Cursor
    BY <1>0, AtWork DEF Cursor
  <2>. QED
    BY <1>5, <2>1, Bounds DEF Mutated
<1>7. Explained(s)'
  BY <1>1, <1>3, <1>4, <1>5 DEF Explained, Current, files
<1>8. Recoverable(s)'
  BY <1>3, <1>4 DEF Recoverable, PendingRecovery
<1>9. Still(s)' /\ ~Behind(s)'
  BY <1>1, <1>6 DEF Still, Behind, Mutated, files
<1>. QED
  BY <1>1, <1>2, <1>3, <1>4, <1>7, <1>8, <1>9, TurnAttended

LEMMA RecoverAttended ==
    ASSUME IInv, IInv', Calm, Attended, NEW r \in Runs, NEW s \in Sessions, Recover(r, s)
    PROVE  Attended'
<1>. DEFINE c == checkpoint[s]
            key == run[r].picked[s].key
            row == [c EXCEPT !.status = "FOLLOW_PENDING", !.key = key, !.completed = TRUE]
<1>1. /\ TypeOK /\ run[r].phase = "recover" /\ s \in run[r].todo /\ c \in Checkpoint /\ c # NULL
      /\ key \in Source \cup {NULL} /\ UNCHANGED <<files, known>> /\ Handled(r, s)
      /\ cursor' = [cursor EXCEPT ![s] = NULL]
  BY Picked, Bounds DEF IInv, Recover, RecoveryTurn
<1>2. checkpoint' = [checkpoint EXCEPT ![s] = row]
  BY <1>1 DEF Recover, TypeOK
<1>. HIDE DEF key
<1>3. /\ row \in Checkpoint /\ row.revision = c.revision /\ row.status = "FOLLOW_PENDING"
      /\ row.completed
  BY <1>1 DEF Checkpoint, Status, CaptureEligible
<1>. HIDE DEF row
<1>4. /\ checkpoint'[s] = row /\ row # NULL /\ cursor'[s] = NULL
      /\ \A t \in Sessions : t # s => cursor'[t] = cursor[t]
  BY <1>1, <1>2, <1>3, Bounds DEF TypeOK
<1>5. SessionOK(s) /\ SeenOK(r, s) /\ c.status = "RECOVERY_PENDING"
  BY <1>1 DEF Attended, TurnOK
<1>6. known[s] => Mutated(s) /\ Behind(s)
  BY <1>1, <1>5 DEF SessionOK, Recoverable, Behind
<1>7. Explained(s)'
  BY <1>3, <1>4 DEF Explained
<1>8. Recoverable(s)'
  BY <1>3, <1>4 DEF Recoverable, PendingRecovery
<1>9. Still(s)'
  <2>1. known[s] => source[s].available /\ listed[s] /\ c.revision = source[s]
    BY <1>1, <1>5, <1>6 DEF SessionOK, Still, SeenOK
  <2>. QED
    BY <1>1, <1>3, <1>4, <2>1 DEF Still, files
<1>10. Behind(s)' => Behind(s)
  BY <1>1, <1>6 DEF Behind
<1>. QED
  BY <1>1, <1>2, <1>3, <1>4, <1>7, <1>8, <1>9, <1>10, TurnAttended

LEMMA RecoveryFailsAttended ==
    ASSUME IInv, IInv', Calm, Attended, NEW r \in Runs, NEW s \in Sessions, RecoveryFails(r, s)
    PROVE  Attended'
<1>. DEFINE c == checkpoint[s]
            key == run[r].picked[s].key
            row == [c EXCEPT !.status = "RECOVERY_PENDING", !.key = key]
<1>1. /\ TypeOK /\ run[r].phase = "recover" /\ s \in run[r].todo /\ c \in Checkpoint /\ c # NULL
      /\ key \in Source \cup {NULL} /\ UNCHANGED <<files, cursor, known>> /\ Handled(r, s)
  BY Picked, Bounds DEF IInv, RecoveryFails, RecoveryTurn
<1>2. checkpoint' = [checkpoint EXCEPT ![s] = row]
  BY DEF RecoveryFails, Unrecovered
<1>. HIDE DEF key
<1>3. row \in Checkpoint /\ row.revision = c.revision /\ row.status = "RECOVERY_PENDING"
  BY <1>1 DEF Checkpoint, Status
<1>. HIDE DEF row
<1>4. checkpoint'[s] = row /\ row # NULL
  BY <1>1, <1>2, <1>3, Bounds DEF TypeOK
<1>5. SessionOK(s) /\ c.status = "RECOVERY_PENDING"
  BY <1>1 DEF Attended, TurnOK
<1>6. Explained(s)'
  BY <1>3, <1>4 DEF Explained
<1>7. Recoverable(s)'
  BY <1>1, <1>3, <1>4, <1>5 DEF SessionOK, Recoverable, Mutated, files
<1>8. Still(s)' /\ (Behind(s)' => Behind(s))
  BY <1>1, <1>3, <1>4, <1>5 DEF SessionOK, Still, Behind, Mutated, files
<1>. QED
  BY <1>1, <1>2, <1>3, <1>6, <1>7, <1>8, TurnAttended

LEMMA RecoverySkippedAttended ==
    ASSUME IInv, IInv', Calm, Attended, NEW r \in Runs, NEW s \in Sessions, RecoverySkipped(r, s)
    PROVE  Attended'
<1>1. /\ TypeOK /\ run[r].phase = "recover" /\ checkpoint[s] \in Checkpoint /\ checkpoint[s] # NULL
      /\ UNCHANGED <<files, cursor, known, checkpoint>> /\ Handled(r, s)
  BY Picked, Bounds DEF IInv, RecoverySkipped, RecoveryTurn
<1>2. checkpoint' = [checkpoint EXCEPT ![s] = checkpoint[s]]
  BY <1>1 DEF TypeOK
<1>3. SessionOK(s)' /\ (Behind(s)' <=> Behind(s))
  BY <1>1, SessionStays DEF Attended, files
<1>. QED
  BY <1>1, <1>2, <1>3, TurnAttended DEF SessionOK
LEMMA AttendedInitially == Init => Attended
<1>. SUFFICES ASSUME Init PROVE Attended
  OBVIOUS
<1>1. ASSUME NEW s \in Sessions PROVE SessionOK(s)
  BY DEF Init, SessionOK, Past, Explained, Recoverable, Still
<1>2. \A r \in Runs : run[r].phase = "idle"
  BY IdleTyped DEF Init
<1>. QED
  BY <1>1, <1>2 DEF Attended

LEMMA AttendedStep ==
    ASSUME IInv, IInv', Calm, Attended, [Next]_vars
    PROVE  Attended'
<1>1. ASSUME NEW s \in Sessions, AppendRecord(s) \/ ReplaceFile(s) \/ Outage(s) \/ Return(s)
      PROVE  Attended'
  BY <1>1, FilesAttended, ReplaceFileAttended
<1>2. ASSUME NEW r \in Runs, List(r) \/ Begin(r) \/ AppendBatch(r) \/ CommitCursor(r) \/ Report(r) \/ End(r)
      PROVE  Attended'
  BY <1>2, ListAttended, BeginCaptureAttended, BeginRecoveryAttended, AppendBatchAttended,
     CommitCursorAttended, ReportAttended, EndAttended DEF Begin
<1>3. ASSUME NEW r \in Runs, NEW s \in Sessions, Serve(r, s)
      PROVE  Attended'
  BY <1>3, SourceGoneAttended, ReadAttended, MutationFoundAttended, CaptureFailsAttended,
     RecoverAttended, RecoveryFailsAttended, RecoverySkippedAttended DEF Serve
<1>4. CASE UNCHANGED vars
  <2>1. UNCHANGED <<files, cursor, known, checkpoint, run>>
    BY <1>4 DEF vars
  <2>2. ASSUME NEW s \in Sessions PROVE SessionOK(s)'
    BY <2>1, SessionStays DEF Attended, files
  <2>3. ASSUME NEW r \in Runs, run[r].phase # "idle"
        PROVE  TurnOK(r)' /\ \A s \in Sessions : SeenOK(r, s)'
    <3>1. TurnOK(r)'
      BY <2>1, <2>3 DEF Attended, TurnOK, files
    <3>2. \A s \in Sessions : SeenOK(r, s)'
      BY <2>1, <2>3, SeenStays DEF Attended, files
    <3>. QED
      BY <3>1, <3>2
  <2>. QED
    BY <2>1, <2>2, <2>3 DEF Attended
<1>. QED
  BY <1>1, <1>2, <1>3, <1>4, CrashAttended DEF Next

LEMMA AttendedIsNotForgotten == IInv /\ Attended => NothingForgotten
<1>. SUFFICES ASSUME IInv, Attended, NEW s \in Sessions, \A r \in Runs : run[r].phase = "idle",
                     listed[s], source[s].available, checkpoint[s] # NULL,
                     checkpoint[s].revision = source[s]
              PROVE  \/ Current(s)
                     \/ checkpoint[s].status \in CaptureEligible \cup {"RECOVERY_PENDING"}
  BY DEF NothingForgotten
<1>1. checkpoint[s].status \in Status /\ Explained(s)
  BY Typed DEF IInv, Checkpoint, Attended, SessionOK
<1>2. Same(checkpoint[s].revision, source[s])
  BY DEF Same
<1>. QED
  BY <1>1, <1>2 DEF Explained, Status

(* No lost wake-up: with one scan at a time, of files that are told apart by   *)
(* their size and do not change while their recovery is under way, a session  *)
(* that the next scan takes for unchanged is captured to its end or will be   *)
(* tried again, whatever crashes, fails, goes away or comes back.             *)
THEOREM NothingForgottenHolds == ASSUME Calm PROVE Spec => []NothingForgotten
<1>. SUFFICES ASSUME Calm PROVE Spec => []NothingForgotten
  OBVIOUS
<1>1. Init => IInv /\ Attended
  BY Initially, AttendedInitially
<1>2. IInv /\ Attended /\ [Next]_vars => IInv' /\ Attended'
  BY Step, AttendedStep
<1>3. IInv /\ Attended => NothingForgotten
  BY AttendedIsNotForgotten
<1>. QED
  BY <1>1, <1>2, <1>3, PTL DEF Spec

(* Type correctness.                                                         *)
THEOREM TypeCorrect == Spec => []TypeOK
<1>1. IInv => TypeOK
  BY DEF IInv
<1>. QED
  BY <1>1, Initially, Step, PTL DEF Spec
=============================================================================
