----------------------------- MODULE ActiveInjection -----------------------------
(***************************************************************************)
(* What happens to one UserPromptSubmit hook while operators move the       *)
(* injection between SHADOW and ACTIVE: ActiveRolloutService with its file  *)
(* (packages/active-rollout-service), the hook path of                      *)
(* apps/sidecar/src/p4-active-runtime.ts with ActiveKnowledgeInjectionRuntime*)
(* and UserPromptInjectionService, and the injection attempts of            *)
(* packages/runtime-audit-store.                                            *)
(*                                                                         *)
(* A hook awaits the retrieval and the freshness gate; between them the     *)
(* rollout is withdrawn or activated again, the knowledge changes, the      *)
(* deadline passes or the process dies.  The rollout's state is saved by    *)
(* writing a file beside it and renaming it: a save that throws may have    *)
(* left the new state on disk (`kept') or not.                              *)
(***************************************************************************)
EXTENDS Integers, FiniteSets, FiniteSetsExt

CONSTANTS
    NULL,
    Turns,           \* turns of the host; each may submit its prompt again
    Scopes,          \* sets of turns a canary may select
    MaxCalls,        \* bound of the hook calls
    Fingerprints,    \* fingerprints of the configuration the sidecar is composed with
    MaxPolicy,       \* bound of the policy revisions
    MaxEvidence,     \* bound of the evidence on record
    MaxVersions,     \* bound of the asset's versions
    MaxFailures,     \* saves that throw although the file was not stale
    MaxCrashes

(* A row of injection_attempts.  Identities are not part of it.             *)
Statuses == {"PENDING", "FAILED", "INJECTED", "SHADOWED", "NO_CONTEXT", "ROLLED_BACK"}
AttemptRows == [status : Statuses, envelope : Int \cup {NULL}, revision : 0..2]

ASSUME InjectionAssumption == NULL \notin Fingerprints /\ NULL \notin AttemptRows

VARIABLES
    rollout,         \* [memory, file : states, shadowed, runtime, failures]
    composition,     \* fingerprint of the running process, NULL when it is down
    hooks,           \* one hook call per turn
    attempts,        \* injection_attempts, by identity
    asset,           \* the one candidate: [version, suppressed]
    delivered,       \* contexts the host's hook client has written out
    calls, crashes

avars == <<rollout, composition, hooks, attempts, asset, delivered, calls, crashes>>

(* An effective revision.  `since' (auxiliary) is the state revision that   *)
(* made it effective.                                                       *)
ShadowOf(policy, config) ==
    [policy |-> policy, mode |-> "SHADOW", config |-> config,
     canary |-> {}, evidence |-> NULL, since |-> 1]

Idle == [phase |-> "idle", decision |-> NULL, start |-> NULL, seen |-> NULL, admitted |-> FALSE]

AInit ==
    \E config \in Fingerprints :
      LET s == [revision |-> 1, effective |-> ShadowOf(1, config), good |-> ShadowOf(1, config),
                evidence |-> {}, policies |-> {1}]
      IN /\ rollout = [memory |-> s, file |-> s, shadowed |-> FALSE,
                       runtime |-> [revision |-> 1, mode |-> "SHADOW"], failures |-> 0]
         /\ composition = config
         /\ hooks = [t \in Turns |-> Idle]
         /\ attempts = [id \in {} |-> NULL]
         /\ asset = [version |-> 1, suppressed |-> FALSE]
         /\ delivered = {} /\ calls = 0 /\ crashes = 0

-----------------------------------------------------------------------------
(* ActiveRolloutService.  Each operation is synchronous; as it may save     *)
(* twice, it is the set of its outcomes from the rollout r.                 *)

(* FileRolloutStateStore.save under compare-and-set on the file's revision. *)
Saves(r, next) ==
    LET good == [r EXCEPT !.memory = next, !.file = next]
        lost == [r EXCEPT !.failures = @ + 1]
        kept == [lost EXCEPT !.file = next]
    IN IF r.file.revision # r.memory.revision THEN {[ok |-> FALSE, r |-> r]}
       ELSE {[ok |-> TRUE, r |-> good]}
            \cup IF r.failures < MaxFailures THEN {[ok |-> FALSE, r |-> x] : x \in {lost, kept}}
                 ELSE {}

(* The controller only moves to a higher revision.                          *)
Lowered(runtime, revision) ==
    IF runtime.revision < revision THEN [revision |-> revision, mode |-> "SHADOW"] ELSE runtime

\* Mutant of Forced: the decision knows, the controller does not.
ForcedOnPaper(r, revision) == [r EXCEPT !.shadowed = TRUE]

(* forceRuntimeShadow after a save that failed.                             *)
Forced(r, revision) ==
    [r EXCEPT !.shadowed = TRUE, !.runtime = Lowered(@, revision)]

Downgraded(r) ==
    LET m == r.memory
        shadow == [m.good EXCEPT !.mode = "SHADOW", !.since = m.revision + 1]
        next == [m EXCEPT !.revision = @ + 1, !.effective = shadow, !.good = shadow,
                          !.policies = @ \cup {shadow.policy}]
    IN IF m.effective.mode = "SHADOW" THEN {r}
       ELSE {IF o.ok
             THEN [o.r EXCEPT !.shadowed = FALSE, !.runtime = Lowered(@, next.revision)]
             ELSE Forced(o.r, next.revision) : o \in Saves(r, next)}

(* recordEvidence: evidence already there is accepted only unchanged.       *)
Recorded(r, e, same) ==
    IF e \in r.memory.evidence THEN {[ok |-> same, r |-> r]}
    ELSE Saves(r, [r.memory EXCEPT !.revision = @ + 1, !.evidence = @ \cup {e}])

(* observeEligibility.                                                      *)
Observed(r, e, same) ==
    UNION {LET now == o.r.memory.effective IN
           IF ~o.ok THEN {IF now.mode = "ACTIVE" THEN Forced(o.r, o.r.memory.revision + 1) ELSE o.r}
           ELSE IF now.mode = "ACTIVE" /\ (~e.eligible \/ e.config # now.config)
                THEN Downgraded(o.r)
           ELSE {o.r} : o \in Recorded(r, e, same)}

\* Mutant of Known: policies once in force may come back.
KnownNow(m) == Max({m.effective.policy, m.good.policy})

(* The highest policy revision the state remembers.                         *)
Known(m) == Max({m.effective.policy, m.good.policy} \cup m.policies)

(* activateCanary, with the policy revision and the canary the operator     *)
(* chose; the controller throws if it is already past the new revision.     *)
Activated(r, target, config, canary) ==
    LET m == r.memory
        e == [config |-> config, eligible |-> TRUE]
        next == [m EXCEPT !.revision = @ + 1, !.good = m.effective, !.policies = @ \cup {target},
                   !.effective = [policy |-> target, mode |-> "ACTIVE", config |-> config,
                                  canary |-> canary, evidence |-> e, since |-> m.revision + 1]]
    IN IF m.effective.mode # "SHADOW" \/ target <= Known(m) \/ e \notin m.evidence THEN {}
       ELSE {IF o.ok /\ next.revision > o.r.runtime.revision
             THEN [o.r EXCEPT !.runtime = [revision |-> next.revision, mode |-> "ACTIVE"]]
             ELSE o.r : o \in Saves(r, next)}

Up == composition # NULL

(* Evidence is evaluated on the running configuration.                      *)
ObserveEligibility ==
    /\ Up
    /\ \E eligible \in BOOLEAN, same \in BOOLEAN :
         LET e == [config |-> composition, eligible |-> eligible] IN
         /\ Cardinality(rollout.memory.evidence \cup {e}) <= MaxEvidence
         /\ rollout' \in Observed(rollout, e, same)
    /\ UNCHANGED <<composition, hooks, attempts, asset, delivered, calls, crashes>>

(* Policy revisions are compared only: leaving numbers out adds nothing.    *)
ActivateCanary ==
    /\ Up
    /\ \E target \in 1..MaxPolicy, canary \in Scopes :
         /\ target <= Known(rollout.memory) + 1
         /\ rollout' \in Activated(rollout, target, composition, canary)
    /\ UNCHANGED <<composition, hooks, attempts, asset, delivered, calls, crashes>>

-----------------------------------------------------------------------------
(* One hook call.                                                           *)
At(t, phase) == Up /\ hooks[t].phase = phase

Decision(r, t) ==
    [mode |-> IF r.shadowed \/ r.memory.effective.mode = "SHADOW" \/ t \notin r.memory.effective.canary
              THEN "SHADOW" ELSE "ACTIVE",
     policy |-> r.memory.effective.policy]

(* The controller the hook runs under: the service's own, or one made for   *)
(* this call, which nothing moves.                                          *)
Controller(r, d) ==
    IF d.mode = "ACTIVE" THEN r.runtime
    ELSE [revision |-> r.memory.revision, mode |-> "SHADOW"]

(* Capture and scope are done: the decision, and the retrieval starts.      *)
Submit(t) ==
    /\ At(t, "idle") /\ calls < MaxCalls
    /\ calls' = calls + 1
    /\ LET d == Decision(rollout, t) IN
       hooks' = [hooks EXCEPT ![t] = [Idle EXCEPT !.phase = "retrieve", !.decision = d,
                                        !.start = Controller(rollout, d)]]
    /\ UNCHANGED <<rollout, composition, attempts, asset, delivered, crashes>>

(* The candidates come back, and the registry still has this version.       *)
Retrieve(t) ==
    /\ At(t, "retrieve")
    /\ hooks' = [hooks EXCEPT ![t].phase = "gate", ![t].seen = asset.version]
    /\ UNCHANGED <<rollout, composition, attempts, asset, delivered, calls, crashes>>

(* The freshness gate's verdict on that version (KnowledgeRevalidation says *)
(* what it rests on).                                                       *)
Gate(t) ==
    /\ At(t, "gate")
    /\ \E fresh \in BOOLEAN :
         hooks' = [hooks EXCEPT ![t].phase = "finish", ![t].admitted = fresh]
    /\ UNCHANGED <<rollout, composition, attempts, asset, delivered, calls, crashes>>

\* Mutant of Eligible: what the gate admitted stays admitted.
EligibleOnce(h) == h.admitted

(* RegistryEligibility.inspect after the last await.                        *)
Eligible(h) == h.admitted /\ asset.version = h.seen /\ ~asset.suppressed

Envelope(h) == IF Eligible(h) THEN h.seen ELSE NULL

(* UserPromptInjectionService, after the context came back.                 *)
Outcome(h) ==
    IF h.decision.mode = "ACTIVE" /\ rollout.runtime # h.start THEN "ROLLED_BACK"
    ELSE IF Envelope(h) = NULL THEN "NO_CONTEXT"
    ELSE IF h.start.mode = "SHADOW" THEN "SHADOWED" ELSE "INJECTED"

Attempt(t, kind) == <<t, hooks[t].start.revision, kind>>

\* Mutant of Row: an attempt on record is not found.
Overlooked(id) == NULL

(* getInjection: the row, or nothing.                                       *)
Row(id) == IF id \in DOMAIN attempts THEN attempts[id] ELSE NULL

Open(envelope) == [status |-> "PENDING", envelope |-> envelope, revision |-> 0]

Entered(id, status, envelope) ==
    [i \in DOMAIN attempts \cup {id} |->
       IF i # id THEN attempts[i]
       ELSE [status |-> status, envelope |-> envelope,
             revision |-> IF status = "PENDING" THEN 0 ELSE 1]]

(* observeInjectionResult: the failure of a call that ran under the         *)
(* activation in force withdraws it.  What downgrade throws is swallowed.   *)
Withdraws(h, status) ==
    /\ h.decision.mode = "ACTIVE" /\ rollout.memory.effective.mode = "ACTIVE"
    /\ h.decision.policy = rollout.memory.effective.policy
    /\ status = "FAILED"

Answer(t, status) ==
    /\ rollout' \in IF Withdraws(hooks[t], status) THEN Downgraded(rollout) ELSE {rollout}
    /\ hooks' = [hooks EXCEPT ![t] = IF status = "INJECTED" THEN [@ EXCEPT !.phase = "answer"]
                                     ELSE Idle]

(* The attempt is begun and completed in one tick.  An attempt of an        *)
(* earlier call under the same controller is continued when its envelope is *)
(* the same, and its result must be the same too.                           *)
Finish(t) ==
    LET h == hooks[t]
        id == Attempt(t, "retrieved")
        status == Outcome(h)
    IN /\ At(t, "finish")
       /\ \/ /\ Row(id) \in {NULL, Open(Envelope(h))}
             /\ attempts' = Entered(id, status, Envelope(h))
             /\ Answer(t, status)
          \/ /\ Row(id) \notin {NULL, Open(Envelope(h))}
             /\ LET same == attempts[id].envelope = Envelope(h) /\ attempts[id].status = status
                IN Answer(t, IF same THEN status ELSE "FAILED")
             /\ UNCHANGED attempts
       /\ UNCHANGED <<composition, asset, delivered, calls, crashes>>

(* The deadline passes or the retrieval throws: the failure has an attempt  *)
(* of its own.  TIMEOUT and ERROR are one status here, as they are to       *)
(* observeInjectionResult.                                                  *)
Unavailable(t) ==
    LET id == Attempt(t, "unavailable") IN
    /\ Up /\ hooks[t].phase \in {"retrieve", "gate", "finish"}
    /\ attempts' = IF Row(id) = NULL THEN Entered(id, "FAILED", NULL) ELSE attempts
    /\ Answer(t, "FAILED")
    /\ UNCHANGED <<composition, asset, delivered, calls, crashes>>

(* The hook client got the answer and wrote it out, or gave up waiting.     *)
Deliver(t) ==
    /\ At(t, "answer")
    /\ \/ /\ delivered' = delivered \cup {[id |-> Attempt(t, "retrieved"), version |-> hooks[t].seen]}
          /\ hooks' = [hooks EXCEPT ![t].phase = "ack"]
       \/ hooks' = [hooks EXCEPT ![t] = Idle] /\ UNCHANGED delivered
    /\ UNCHANGED <<rollout, composition, attempts, asset, calls, crashes>>

(* acknowledgeInjectionDelivery: once per attempt; a second delivery of the *)
(* same attempt is not acknowledged again.  The call may be lost.           *)
Acknowledge(t) ==
    LET id == Attempt(t, "retrieved") IN
    /\ hooks[t].phase = "ack"
    /\ hooks' = [hooks EXCEPT ![t] = Idle]
    /\ \/ /\ Up /\ attempts[id].status = "INJECTED" /\ attempts[id].revision = 1
          /\ attempts' = [attempts EXCEPT ![id].revision = 2]
       \/ UNCHANGED attempts
    /\ UNCHANGED <<rollout, composition, asset, delivered, calls, crashes>>

-----------------------------------------------------------------------------
(* The environment.                                                         *)
KnowledgeChanges ==
    /\ asset.version < MaxVersions
    /\ \/ asset' = [version |-> asset.version + 1, suppressed |-> FALSE]
       \/ ~asset.suppressed /\ asset' = [asset EXCEPT !.suppressed = TRUE]
    /\ UNCHANGED <<rollout, composition, hooks, attempts, delivered, calls, crashes>>

Aborted == [t \in Turns |-> IF hooks[t].phase = "ack" THEN hooks[t] ELSE Idle]

(* The process dies, at worst between beginInjection and completeInjection. *)
Crash ==
    /\ Up /\ crashes < MaxCrashes
    /\ crashes' = crashes + 1 /\ composition' = NULL /\ hooks' = Aborted
    /\ \/ UNCHANGED attempts
       \/ \E t \in Turns :
            /\ hooks[t].phase = "finish" /\ Row(Attempt(t, "retrieved")) = NULL
            /\ attempts' = Entered(Attempt(t, "retrieved"), "PENDING", Envelope(hooks[t]))
    /\ UNCHANGED <<rollout, asset, delivered, calls>>

(* The sidecar is composed: the file is loaded and the controller hydrated; *)
(* an ACTIVE state of another composition is withdrawn, and a failure to do *)
(* so fails the composition.                                                *)
Start ==
    /\ ~Up
    /\ \E config \in Fingerprints :
       LET f == rollout.file
           loaded == [rollout EXCEPT !.memory = f, !.shadowed = FALSE,
                        !.runtime = [revision |-> f.revision, mode |-> f.effective.mode]]
           foreign == f.effective.mode = "ACTIVE" /\ f.effective.config # config
       IN \E r \in IF foreign THEN Downgraded(loaded) ELSE {loaded} :
            /\ rollout' = r
            /\ composition' = IF foreign /\ r.shadowed THEN NULL ELSE config
    /\ UNCHANGED <<hooks, attempts, asset, delivered, calls, crashes>>

HookStep(t) ==
    \/ Submit(t) \/ Retrieve(t) \/ Gate(t) \/ Finish(t) \/ Unavailable(t)
    \/ Deliver(t) \/ Acknowledge(t)

ANext ==
    \/ ObserveEligibility \/ ActivateCanary
    \/ (\E t \in Turns : HookStep(t))
    \/ KnowledgeChanges \/ Crash \/ Start

ASpec == AInit /\ [][ANext]_avars

-----------------------------------------------------------------------------
(* Properties.                                                             *)

(* What hooks are decided by and what they run under never part: whatever   *)
(* saves failed on the way, a controller that injects stands for the ACTIVE *)
(* revision in force, and a SHADOW one can be activated again (its          *)
(* controller is never ahead of the state, which would make activate throw  *)
(* after the ACTIVE state was saved).                                       *)
ControllerFollowsState ==
    Up => LET now == rollout.memory.effective IN
          /\ (rollout.runtime.mode = "ACTIVE") <=> (now.mode = "ACTIVE" /\ ~rollout.shadowed)
          /\ rollout.runtime.mode = "ACTIVE" => rollout.runtime.revision >= now.since
          /\ now.mode = "SHADOW" => rollout.runtime.revision <= rollout.memory.revision

(* A context is injected only under the activation its hook was decided by, *)
(* still in force for this turn, and only knowledge that is current and not *)
(* suppressed at that moment, however long the retrieval and the gate took. *)
InjectsOnlyInForce ==
    [][\A t \in Turns : (hooks[t].phase = "finish" /\ hooks'[t].phase = "answer") =>
         LET now == rollout.memory.effective IN
         /\ now.mode = "ACTIVE" /\ ~rollout.shadowed
         /\ now.policy = hooks[t].decision.policy /\ t \in now.canary
         /\ asset.version = hooks[t].seen /\ ~asset.suppressed]_avars

(* A hook's failure withdraws no activation but the one it ran under: a     *)
(* late failure of an earlier canary leaves its successor alone.            *)
OwnFailuresOnly ==
    [][\A t \in Turns : (hooks[t].phase \in {"retrieve", "gate", "finish"} /\ hooks'[t] = Idle
                         /\ rollout' # rollout /\ Up /\ composition' # NULL) =>
         rollout.memory.effective.since <= hooks[t].start.revision]_avars

(* What reached the host is on record as injected, with that very content,  *)
(* and only what reached the host is acknowledged.                          *)
DeliveredIsAudited ==
    /\ \A d \in delivered : /\ attempts[d.id].status = "INJECTED"
                            /\ attempts[d.id].envelope = d.version
    /\ \A id \in DOMAIN attempts : attempts[id].revision = 2 => \E d \in delivered : d.id = id

=============================================================================
