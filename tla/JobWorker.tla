------------------------------- MODULE JobWorker -------------------------------
(***************************************************************************)
(* DurableJobWorker.runOnce (packages/job-runtime/src/worker.ts) over the   *)
(* job store.  A slot is one loop that calls runOnce; the slots of one      *)
(* process share its worker id.  runOnce is one asynchronous function: it   *)
(* yields only while the handler is awaited, so what happens between two    *)
(* yields is one action: Poll (claim, start the timer, call the handler),   *)
(* Beat (the heartbeat timer fires), and one of the End actions (the        *)
(* handler settles and its outcome is written at once).                     *)
(***************************************************************************)
EXTENDS JobStore

CONSTANTS
    Slots,       \* loops calling runOnce
    Owner,       \* the worker id each slot claims with
    Unhandled    \* <<worker, job>>: that process has no handler for the job's type

ASSUME WorkerAssumption ==
    /\ Owner \in [Slots -> Workers]
    /\ Unhandled \subseteq Workers \X Jobs

VARIABLE slots

workerVars == <<vars, slots>>

Slot == [busy : BOOLEAN,             \* a claimed job is in the handler
         ref : Reference \cup {NULL},
         timer : BOOLEAN,            \* the heartbeat interval is set
         cancelled : BOOLEAN,        \* cancellationRequested
         lost : BOOLEAN,             \* leaseLost
         stopped : BOOLEAN]          \* signal.aborted or heartbeatFailed

Idle == [busy |-> FALSE, ref |-> NULL, timer |-> FALSE,
         cancelled |-> FALSE, lost |-> FALSE, stopped |-> FALSE]

WorkerTypeOK == TypeOK /\ slots \in [Slots -> Slot]

WorkerInit == Init /\ slots = [s \in Slots |-> Idle]

FinishLeaksSlot(s) == slots' = [slots EXCEPT ![s].timer = FALSE]

Finish(s) == slots' = [slots EXCEPT ![s] = Idle]

-----------------------------------------------------------------------------
Poll(s) ==
    \E now \in Readings, settled \in SUBSET Jobs :
        /\ ~slots[s].busy
        /\ \/ \E c \in Jobs :
                /\ ClaimNext(Owner[s], now, settled, c)
                /\ slots' = [slots EXCEPT ![s] =
                     [Idle EXCEPT !.busy = TRUE, !.timer = TRUE,
                        !.ref = [job |-> c, attempt |-> jobs[c].attempt + 1,
                                 worker |-> Owner[s], fence |-> jobs[c].fence + 1]]]
           \/ ClaimEmpty(now, settled) /\ UNCHANGED slots

(* The heartbeat interval: it renews the lease even when the answer is that *)
(* a cancellation was requested, then stops for good.                       *)
BeatRenews(s) ==
    \E now \in Readings :
        /\ slots[s].timer
        /\ Heartbeat(slots[s].ref, now)
        /\ slots' = IF jobs[slots[s].ref.job].cancel = "REQUESTED"
                    THEN [slots EXCEPT ![s] = [@ EXCEPT !.timer = FALSE,
                                                        !.cancelled = TRUE]]
                    ELSE slots

BeatFails(s) ==
    /\ slots[s].timer
    /\ \/ /\ \E now \in Readings : ~ActiveLease(slots[s].ref, now)
          /\ slots' = [slots EXCEPT ![s] = [@ EXCEPT !.timer = FALSE, !.lost = TRUE]]
       \/ slots' = [slots EXCEPT ![s] = [@ EXCEPT !.timer = FALSE, !.stopped = TRUE]]
    /\ UNCHANGED vars

(* The caller's signal aborts: no more heartbeats.                          *)
Abort(s) ==
    /\ slots[s].busy /\ ~slots[s].stopped
    /\ slots' = [slots EXCEPT ![s] = [@ EXCEPT !.timer = FALSE, !.stopped = TRUE]]
    /\ UNCHANGED vars

Checkpoint(s) ==
    /\ slots[s].busy
    /\ \E now \in Readings, p \in 0..FullProgress : SaveCheckpoint(slots[s].ref, now, p)
    /\ UNCHANGED slots

-----------------------------------------------------------------------------
(* The handler settles.                                                     *)

(* A store call of the outcome finds the lease gone: the job is left to its *)
(* new holder or to the recovery pass of a later claim.                     *)
GiveUp(s) == Finish(s) /\ UNCHANGED vars

Acknowledge(s) ==
    \E now \in Readings :
        \/ AcknowledgeCancellation(slots[s].ref, now) /\ Finish(s)
        \/ ~ActiveLease(slots[s].ref, now) /\ GiveUp(s)

NoHandler(s) ==
    /\ slots[s].busy /\ <<Owner[s], slots[s].ref.job>> \in Unhandled
    /\ \E now \in Readings :
        \/ FailCancelled(slots[s].ref, now) /\ Finish(s)
        \/ FailTerminal(slots[s].ref, now, FALSE) /\ Finish(s)
        \/ ~ActiveLease(slots[s].ref, now) /\ GiveUp(s)

Handling(s) == slots[s].busy /\ <<Owner[s], slots[s].ref.job>> \notin Unhandled

EndReturned(s) ==
    /\ Handling(s)
    /\ IF slots[s].cancelled THEN Acknowledge(s)
       ELSE IF slots[s].stopped \/ slots[s].lost THEN GiveUp(s)
       ELSE \E now \in Readings :
              \/ Succeed(slots[s].ref, now) /\ Finish(s)
              \/ ~ActiveLease(slots[s].ref, now) /\ GiveUp(s)

EndThrew(s) ==
    /\ Handling(s)
    /\ IF slots[s].lost THEN GiveUp(s)
       ELSE IF slots[s].cancelled THEN Acknowledge(s)
       ELSE IF slots[s].stopped THEN GiveUp(s)
       ELSE \E now \in Readings :
              \/ FailCancelled(slots[s].ref, now) /\ Finish(s)
              \/ \E d \in Delays : FailRetryable(slots[s].ref, now, d) /\ Finish(s)
              \/ \E r \in BOOLEAN : FailTerminal(slots[s].ref, now, r) /\ Finish(s)
              \/ ~ActiveLease(slots[s].ref, now) /\ GiveUp(s)

(* The handler asked the store (throwIfCancellationRequested) and let the   *)
(* error through.                                                           *)
EndOnRequest(s) ==
    /\ Handling(s) /\ ~slots[s].lost
    /\ jobs[slots[s].ref.job].cancel = "REQUESTED"
    /\ IF slots[s].stopped /\ ~slots[s].cancelled THEN GiveUp(s) ELSE Acknowledge(s)

End(s) == NoHandler(s) \/ EndReturned(s) \/ EndThrew(s) \/ EndOnRequest(s)

(* The process of worker w dies and starts again with empty slots.          *)
Crash(w) ==
    /\ \E s \in Slots : Owner[s] = w /\ slots[s].busy
    /\ slots' = [s \in Slots |-> IF Owner[s] = w THEN Idle ELSE slots[s]]
    /\ UNCHANGED vars

Outside ==
    /\ Enqueue \/ Command \/ \E j \in Jobs : RequestCancellation(j)
    /\ UNCHANGED slots

Pass == Tick /\ UNCHANGED slots

WorkerNext ==
    \/ \E s \in Slots :
        \/ Poll(s) \/ BeatRenews(s) \/ BeatFails(s) \/ Abort(s) \/ Checkpoint(s)
        \/ End(s)
    \/ \E w \in Workers : Crash(w)
    \/ Outside
    \/ Pass

(* Every loop polls again (completion-based timers of the runtimes), every  *)
(* handler settles, and time passes.                                        *)
Fairness ==
    /\ \A s \in Slots : WF_workerVars(Poll(s)) /\ WF_workerVars(End(s))
    /\ WF_workerVars(Pass)

WorkerSpec == WorkerInit /\ [][WorkerNext]_workerVars /\ Fairness

-----------------------------------------------------------------------------
(* Properties.                                                             *)

(* Whatever crashes, lost leases, failed heartbeats and shutdowns happen,   *)
(* a job that was accepted reaches an outcome: attempts are bounded and     *)
(* every lease that nobody renews runs out and is recovered by a claim.     *)
EventuallySettled ==
    \A j \in Jobs : (jobs[j].status = "QUEUED") ~> (jobs[j].status \in Terminal)

(* An operator's cancellation of a running job ends it cancelled or, when   *)
(* the handler finished first, succeeded; it never turns into a failure     *)
(* and is never left pending.                                               *)
CancellationHonoured ==
    \A j \in Jobs : (jobs[j].cancel = "REQUESTED") ~>
                        (jobs[j].status \in {"CANCELLED", "SUCCEEDED"})

=============================================================================
