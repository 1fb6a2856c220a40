--------------------------- MODULE ClosureConfirmation ---------------------------
(***************************************************************************)
(* The end of one turn: ActiveClosureRuntime (packages/active-knowledge-    *)
(* runtime) verifies each Stop once, lets the turn continue a bounded       *)
(* number of times (packages/stop-continuation) and publishes the outcome   *)
(* to three databases; a later reply of the user then settles what was      *)
(* asked (packages/confirmation-writeback).                                 *)
(*                                                                         *)
(* Stops of the turn are verified concurrently; a Stop is repeated after    *)
(* a failed write or a crash; two replies claim one confirmation; an effect *)
(* lands after its deadline.  A request of the same identity but another    *)
(* hash is refused before it changes anything, so a Stop is its identity.   *)
(***************************************************************************)
EXTENDS Integers, FiniteSets, FiniteSetsExt

CONSTANTS
    None,
    Stops,           \* identities of the turn's Stop requests
    Limit,           \* continuations its risk allows, for each of them
    Replies,         \* events of later turns that name an option
    MaxFaults,       \* writes that throw
    MaxRestarts

(* What a verification concludes of a Stop: the host is told to go on, the  *)
(* user is asked, and the continuations of the turn so far.                 *)
Outcomes == [block : BOOLEAN, asks : BOOLEAN, count : Nat]

ASSUME TurnAssumption ==
    /\ IsFiniteSet(Stops) /\ Limit \in [Stops -> Nat]
    /\ None \notin Replies /\ None \notin Outcomes /\ None \notin Nat

VARIABLES
    operations,      \* active_closure_operations: [status, outcome]
    audits,          \* closure_runs: the outcome recorded for a Stop
    confirmations,   \* confirmation_requests: [status, claim]
    counter,         \* AuditBackedContinuationCounter's entry for the turn
    verifying,       \* #activeOperations: the count each read when it began
    waiting,         \* replies whose handler awaits its effect
    landing,         \* effects begun and not over, awaited or abandoned
    effects,         \* replies whose effect has landed, by confirmation
    told,            \* Stops whose result reached the host
    orphans,         \* (auxiliary) checkpointed and not audited at a crash
    faults, restarts

stores == <<operations, audits, confirmations>>
process == <<counter, verifying, waiting>>
outside == <<landing, effects, told, orphans>>
cvars == <<stores, process, outside, faults, restarts>>

CInit ==
    /\ operations = [s \in Stops |-> [status |-> "NONE", outcome |-> None]]
    /\ audits = [s \in Stops |-> None]
    /\ confirmations = [s \in Stops |-> [status |-> "NONE", claim |-> None]]
    /\ counter = None /\ verifying = [s \in Stops |-> None]
    /\ waiting = {} /\ landing = {} /\ effects = [s \in Stops |-> {}]
    /\ told = {} /\ orphans = {} /\ faults = 0 /\ restarts = 0

-----------------------------------------------------------------------------
(* counters.get: the cache, or the highest count on record.                 *)
Audited == {s \in Stops : audits[s] # None}
Count == IF counter # None THEN counter ELSE Max({audits[s].count : s \in Audited} \cup {0})

Allowed(s, count) == count < Limit[s]

(* What saveOutcome and #publish leave of s when they end, or throw on the  *)
(* way: its operation, audit and confirmation.                              *)
Rows(operation, audit, confirmation) ==
    [operation |-> operation, audit |-> audit, confirmation |-> confirmation]

Checkpointed(s, o) ==
    IF operations[s].status = "COMPLETED" THEN operations[s] ELSE [status |-> "OUTCOME", outcome |-> o]
Completed(o) == [status |-> "COMPLETED", outcome |-> o]
Asked(s, o) ==
    IF o.asks /\ confirmations[s].status = "NONE"
    THEN [status |-> "PENDING", claim |-> None] ELSE confirmations[s]

Published(s, o) == Rows(Completed(o), o, Asked(s, o))

\* Mutant of Interrupted: complete before the outcome is published.
CompletedFirst(s, o) == {Rows(Completed(o), audits[s], confirmations[s])}

Interrupted(s, o) ==
    {Rows(operations[s], audits[s], confirmations[s]),
     Rows(Checkpointed(s, o), audits[s], confirmations[s]),
     Rows(Checkpointed(s, o), o, confirmations[s]),
     Rows(Checkpointed(s, o), o, Asked(s, o))}

Write(s, p) ==
    /\ operations' = [operations EXCEPT ![s] = p.operation]
    /\ audits' = [audits EXCEPT ![s] = p.audit]
    /\ confirmations' = [confirmations EXCEPT ![s] = p.confirmation]

(* The host learns of the outcome, unless it no longer waits.                *)
Publish(s, o) ==
    /\ \/ /\ Write(s, Published(s, o))
          /\ told' \in {told, told \cup {s}} /\ UNCHANGED faults
       \/ /\ faults < MaxFaults /\ faults' = faults + 1
          /\ \E p \in Interrupted(s, o) : Write(s, p)
          /\ UNCHANGED told
    /\ UNCHANGED <<waiting, landing, effects, orphans, restarts>>

Result(block, asks, count) == [block |-> block, asks |-> asks, count |-> count]

(* begin found no outcome.                                                  *)
Fresh(s) == operations[s].outcome = None

(* A Stop whose outcome is known is published again, as it was.             *)
Repeat(s) ==
    /\ ~Fresh(s)
    /\ Publish(s, operations[s].outcome)
    /\ UNCHANGED <<counter, verifying>>

(* The first time, or again when nothing was checkpointed: the turn's limit *)
(* is looked at before the verifiers are awaited.                           *)
Begin(s) ==
    /\ Fresh(s) /\ verifying[s] = None /\ Allowed(s, Count)
    /\ operations' = [operations EXCEPT ![s].status = "PENDING"]
    /\ counter' = Count
    /\ verifying' = [verifying EXCEPT ![s] = Count]
    /\ UNCHANGED <<audits, confirmations, waiting, outside, faults, restarts>>

LimitReached(s) ==
    /\ Fresh(s) /\ verifying[s] = None /\ ~Allowed(s, Count)
    /\ counter' = Count /\ UNCHANGED verifying
    /\ \E asks \in BOOLEAN : Publish(s, Result(FALSE, asks, Count))

\* Mutant of Claimed: the limit looked at in the beginning is enough.
ClaimedUnchecked(s) == TRUE

(* counters.claim: other Stops may have claimed since this one began.       *)
Claimed(s) == Allowed(s, Count)

(* The verifiers answered.  PASS and ASK_USER report the count they began   *)
(* with, a failed or late verification the one it finds.                    *)
Verified(s) ==
    /\ verifying[s] # None
    /\ verifying' = [verifying EXCEPT ![s] = None]
    /\ \E asks \in BOOLEAN :
         \/ /\ Claimed(s)
            /\ counter' = Count + 1
            /\ Publish(s, Result(TRUE, asks, Count + 1))
         \/ /\ \E count \in {verifying[s], Count} : Publish(s, Result(FALSE, asks, count))
            /\ UNCHANGED counter

-----------------------------------------------------------------------------
(* ConfirmationWritebackService.                                            *)
Pending == {s \in Stops : confirmations[s].status \in {"PENDING", "CLAIMED"}}

\* Mutant of MayClaim: the newest reply owns the claim.
MayClaimAnew(s, r) == TRUE

(* repository.claim: CLAIMED, or RETRY by the very reply that claimed.      *)
MayClaim(s, r) == confirmations[s].claim \in {None, r}

(* A reply names its confirmation, or there is only one.                    *)
Reply(s, r) ==
    /\ s \in Pending /\ MayClaim(s, r)
    /\ confirmations' = [confirmations EXCEPT ![s] = [status |-> "CLAIMED", claim |-> r]]
    /\ waiting' = waiting \cup {<<s, r>>}
    /\ landing' = landing \cup {<<s, r>>}
    /\ UNCHANGED <<operations, audits, counter, verifying, effects, told, orphans, faults, restarts>>

Land(s, r) ==
    /\ <<s, r>> \in landing
    /\ landing' = landing \ {<<s, r>>}
    /\ effects' = [effects EXCEPT ![s] = @ \cup {r}]
    /\ UNCHANGED <<stores, process, told, orphans, faults, restarts>>

(* repository.complete by the owner of the claim; one that is resolved      *)
(* already stays as it is.                                                  *)
Complete(s, r) ==
    /\ <<s, r>> \in waiting /\ <<s, r>> \notin landing
    /\ waiting' = waiting \ {<<s, r>>}
    /\ confirmations' = IF confirmations[s].claim = r
                        THEN [confirmations EXCEPT ![s].status = "RESOLVED"] ELSE confirmations
    /\ UNCHANGED <<operations, audits, counter, verifying, outside, faults, restarts>>

(* The deadline passes, or complete throws: RETRYABLE.                      *)
Abandon(s, r) ==
    /\ <<s, r>> \in waiting /\ waiting' = waiting \ {<<s, r>>}
    /\ UNCHANGED <<stores, counter, verifying, outside, faults, restarts>>

Restart ==
    /\ restarts < MaxRestarts /\ restarts' = restarts + 1
    /\ counter' = None /\ verifying' = [s \in Stops |-> None]
    /\ waiting' = {} /\ landing' = {}
    /\ orphans' = orphans \cup {s \in Stops : operations[s].outcome # None /\ audits[s] = None}
    /\ UNCHANGED <<stores, effects, told, faults>>

CNext ==
    \/ \E s \in Stops : Repeat(s) \/ Begin(s) \/ LimitReached(s) \/ Verified(s)
    \/ \E s \in Stops, r \in Replies : Reply(s, r) \/ Land(s, r) \/ Complete(s, r) \/ Abandon(s, r)
    \/ Restart

CSpec == CInit /\ [][CNext]_cvars

-----------------------------------------------------------------------------
(* Properties.                                                             *)

(* The Stops of a turn that told the host to go on are numbered from 1 to   *)
(* what their risk allows, no number twice, however many of them are        *)
(* verified at a time and across restarts; except those whose checkpoint    *)
(* was interrupted before its audit, which the counter cannot know of.      *)
Continued == {s \in told \ orphans : operations[s].outcome.block}

BoundedContinuations ==
    \A s \in Continued :
        /\ operations[s].outcome.count \in 1..Limit[s]
        /\ \A u \in Continued \ {s} : operations[u].outcome.count # operations[s].outcome.count

(* Whatever was interrupted, the three databases tell one story: what is    *)
(* audited and asked is the checkpointed outcome, and a Stop is completed,  *)
(* and the host told, only when all of it is there.                         *)
OneStory ==
    \A s \in Stops :
        LET o == operations[s].outcome IN
        /\ audits[s] # None => audits[s] = o
        /\ confirmations[s].status # "NONE" => audits[s] # None /\ audits[s].asks
        /\ operations[s].status = "COMPLETED" =>
             audits[s] = o /\ (o.asks => confirmations[s].status # "NONE")
        /\ s \in told => operations[s].status = "COMPLETED"

(* One answer takes effect: of all replies to a confirmation, retried,      *)
(* raced or landing late, only the one that owns the claim has an effect,   *)
(* and a resolved confirmation has it.                                      *)
OneAnswer ==
    \A s \in Stops :
        /\ effects[s] \subseteq {confirmations[s].claim}
        /\ confirmations[s].status = "RESOLVED" => effects[s] = {confirmations[s].claim}

=============================================================================
