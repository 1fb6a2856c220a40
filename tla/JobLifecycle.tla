----------------------------- MODULE JobLifecycle -----------------------------
(***************************************************************************)
(* What packages/job-runtime promises to the code that enqueues work,       *)
(* without leases, clocks, attempts or commands: a key is executed a        *)
(* bounded number of times, every execution carries a newer token than the  *)
(* one before it, at most one execution starts in a step, and an outcome,   *)
(* once reached, stands (a failure may be reopened for one more execution). *)
(***************************************************************************)
EXTENDS Naturals

CONSTANT Jobs

VARIABLES
    phase,   \* where each key is in its life
    left,    \* executions the key may still start
    token    \* the fencing token of its newest execution

vars == <<phase, left, token>>

Open   == {"QUEUED", "RETRY_WAIT", "RUNNING"}
Closed == {"SUCCEEDED", "FAILED", "CANCELLED"}
Phases == Open \cup Closed \cup {"ABSENT"}

Init ==
    /\ phase = [j \in Jobs |-> "ABSENT"]
    /\ left = [j \in Jobs |-> 0]
    /\ token = [j \in Jobs |-> 0]

Stay(j) == phase'[j] = phase[j] /\ left'[j] = left[j] /\ token'[j] = token[j]

(* A move that starts no execution and keeps the budget.                    *)
Turn(j, from, to) ==
    /\ phase[j] \in from /\ phase'[j] = to
    /\ left'[j] = left[j]
    /\ token'[j] = token[j]

Submit(j) ==
    /\ phase[j] = "ABSENT" /\ phase'[j] = "QUEUED"
    /\ left'[j] \in Nat \ {0}
    /\ token'[j] = 0

(* Also the takeover of an execution that was lost.                         *)
Start(j) ==
    /\ phase[j] \in Open /\ phase'[j] = "RUNNING"
    /\ left[j] > 0 /\ left'[j] = left[j] - 1
    /\ token'[j] = token[j] + 1

Succeed(j) == Turn(j, {"RUNNING"}, "SUCCEEDED")
Fail(j)    == Turn(j, {"RUNNING"}, "FAILED")
Backoff(j) == left[j] > 0 /\ Turn(j, {"RUNNING"}, "RETRY_WAIT")
Cancel(j)  == Turn(j, Open, "CANCELLED")
Requeue(j) == Turn(j, {"RETRY_WAIT"}, "QUEUED")

(* The comment on manualRetry: exactly one additional attempt.              *)
Reopen(j) ==
    /\ phase[j] = "FAILED" /\ phase'[j] = "QUEUED"
    /\ left[j] = 0 /\ left'[j] = 1
    /\ token'[j] = token[j]

Move(j) ==
    \/ Submit(j) \/ Start(j) \/ Succeed(j) \/ Fail(j)
    \/ Backoff(j) \/ Cancel(j) \/ Requeue(j) \/ Reopen(j)

Next ==
    /\ \A j \in Jobs : Move(j) \/ Stay(j)
    /\ \A i, j \in Jobs : Start(i) /\ Start(j) => i = j

Spec == Init /\ [][Next]_vars
=============================================================================
