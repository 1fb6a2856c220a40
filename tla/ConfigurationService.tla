-------------------------- MODULE ConfigurationService --------------------------
(***************************************************************************)
(* SqliteConfigurationService (packages/configuration-service/src/service.ts)*)
(* and the components it reconfigures (apps/sidecar/src/application.ts).    *)
(*                                                                         *)
(* A revision is one row of configuration_revisions; current_revision is    *)
(* the newest one, whatever its status.  activate and rollback run one at a *)
(* time (#serialized), but each awaits every component's prepare and apply, *)
(* so drafts are saved, capabilities change and the process dies between    *)
(* the steps of one command.                                                *)
(***************************************************************************)
EXTENDS Integers, Sequences, FiniteSetsExt

CONSTANTS
    Nil,
    Size,            \* components, prepared and applied in the order 1..Size
    Plain,           \* values of the fields every build consumes
    Default,         \* the plain fields' default
    Projects,        \* projects with overrides of their own
    Keys,            \* idempotency keys
    Malformed,       \* keys #insertReceipt refuses, so that the commit throws
    MaxRevision, MaxDrafts, MaxQueue

(* "gated" stands for the fields of FUTURE_CAPABILITIES.                    *)
Configuration == [plain : Plain, gated : BOOLEAN]
DefaultConfiguration == [plain |-> Default, gated |-> FALSE]
Paths == {"plain", "gated"}

Scope == Projects \cup {Nil}                  \* Nil: GLOBAL
Command == [type : {"activate", "rollback"}, expected : 0..MaxRevision,
            target : 0..(MaxRevision + MaxDrafts), key : Keys]
Refusal == {"STALE_REVISION", "NOT_FOUND", "CONSUMER_DISABLED"}
Failure == {"COMPONENT_PREPARE_FAILED", "COMPONENT_APPLY_FAILED",
            "COMPONENT_ROLLBACK_FAILED"}
Revision == [status : {"EFFECTIVE", "REJECTED", "ROLLED_BACK"}, base : 0..MaxRevision,
             scope : Scope, cfg : Configuration, paths : SUBSET Paths,
             reason : Failure \cup {Nil}, key : Keys \cup {Nil}]
Draft == [base : 0..MaxRevision, scope : Scope, cfg : Configuration,
          paths : SUBSET Paths, activatable : BOOLEAN]
Receipt == [command : Command, revision : 0..MaxRevision,
            answer : Refusal \cup Failure \cup {"OK"}]
Stage == {"check", "prepare", "apply", "undo", "commit"}

(* There is a component to configure, and Nil, which stands for what is    *)
(* not there, is no draft, receipt or refusal.                              *)
ASSUME ConfigurationAssumption ==
    /\ Size \in Nat \ {0} /\ Default \in Plain
    /\ MaxRevision \in Nat /\ MaxDrafts \in Nat /\ MaxQueue \in Nat
    /\ Nil \notin Draft /\ Nil \notin Receipt /\ Nil \notin Refusal

VARIABLES
    revisions,   \* configuration_revisions
    drafts,      \* configuration_drafts
    receipts,    \* configuration_command_receipts
    ready,       \* the gated fields' capability is READY
    queue,       \* commands in #tail, the head being executed
    stage,       \* where the head command is
    next,        \* the component it works on
    plan,        \* the draft it activates
    previous,    \* what each applied component's rollback closure restores
    failed,      \* rollbackFailed
    running,     \* the configuration each component works with
    torn,        \* components whose rollback failed since they were last applied
    boot         \* current revision when the process started

persistent == <<revisions, drafts, receipts>>
command == <<queue, stage, next, plan, previous, failed>>
runtime == <<running, torn>>
vars == <<persistent, ready, command, runtime, boot>>

Current == Max(DOMAIN revisions)

(* The newest accepted revision of a scope (#latest).                       *)
Accepted(scope) == {r \in DOMAIN revisions :
                      revisions[r].scope = scope /\ revisions[r].status # "REJECTED"}
Latest(scope) == revisions[Max(Accepted(scope))]

Overlay(base, over, paths) ==
    [p \in Paths |-> IF p \in paths THEN over[p] ELSE base[p]]

Effective(scope) ==
    IF scope = Nil \/ Accepted(scope) = {} THEN Latest(Nil).cfg
    ELSE Overlay(Latest(Nil).cfg, Latest(scope).cfg, Latest(scope).paths)

Changed(scope, cfg) ==
    LET base == IF scope = Nil THEN DefaultConfiguration ELSE Latest(Nil).cfg
    IN {p \in Paths : base[p] # cfg[p]}

Disabled(paths) == "gated" \in paths /\ ~ready

TypeOK ==
    /\ DOMAIN revisions = 0..Current /\ Current \in 0..MaxRevision
    /\ \A r \in DOMAIN revisions : revisions[r] \in Revision
    /\ drafts \in Seq(Draft)
    /\ receipts \in [Keys -> Receipt \cup {Nil}]
    /\ ready \in BOOLEAN
    /\ queue \in Seq(Command) /\ Len(queue) <= MaxQueue
    /\ stage \in Stage /\ next \in 1..(Size + 1)
    /\ plan \in Draft \cup {Nil} /\ (plan = Nil <=> stage = "check")
    /\ previous \in Seq(Configuration) /\ failed \in BOOLEAN
    /\ running \in [1..Size -> Configuration] /\ torn \subseteq 1..Size
    /\ boot \in 0..Current

Init ==
    /\ revisions = [r \in {0} |-> [status |-> "EFFECTIVE", base |-> 0, scope |-> Nil,
                                   cfg |-> DefaultConfiguration, paths |-> {},
                                   reason |-> Nil, key |-> Nil]]
    /\ drafts = <<>> /\ receipts = [k \in Keys |-> Nil]
    /\ ready \in BOOLEAN
    /\ queue = <<>> /\ stage = "check" /\ next = 1 /\ plan = Nil /\ previous = <<>> /\ failed = FALSE
    /\ running = [c \in 1..Size |-> DefaultConfiguration] /\ torn = {}
    /\ boot = 0

-----------------------------------------------------------------------------
(* validateDraft on the current revision: the operator's patch over the     *)
(* scope's effective configuration.                                         *)
ValidateDraft ==
    /\ Len(drafts) < MaxDrafts
    /\ \E scope \in Scope, cfg \in Configuration :
         /\ cfg # Effective(scope)
         /\ drafts' = Append(drafts,
              [base |-> Current, scope |-> scope, cfg |-> cfg,
               paths |-> Changed(scope, cfg),
               activatable |-> ~Disabled(Changed(scope, cfg))])
    /\ UNCHANGED <<revisions, receipts, ready, command, runtime, boot>>

Enqueue ==
    /\ Len(queue) < MaxQueue /\ Current + Len(queue) < MaxRevision
    /\ \E type \in {"activate", "rollback"}, expected \in 0..Current, key \in Keys :
       \E target \in IF type = "activate" THEN DOMAIN drafts ELSE 0..Current :
         queue' = Append(queue, [type |-> type, expected |-> expected,
                                 target |-> target, key |-> key])
    /\ UNCHANGED <<persistent, ready, stage, next, plan, previous, failed, runtime, boot>>

-----------------------------------------------------------------------------
(* One command.                                                             *)
Cmd == queue[1]

Standing(s) == queue # <<>> /\ stage = s

(* The answer is returned, or the exception thrown, and #tail goes on.      *)
Done == /\ queue' = Tail(queue) /\ stage' = "check" /\ next' = 1
        /\ plan' = Nil /\ previous' = <<>> /\ failed' = FALSE

Goto(s, n) == stage' = s /\ next' = n /\ UNCHANGED queue

(* #insertReceipt: the first answer to a key stays.                         *)
WithReceipt(k, answer, revision) ==
    IF receipts[k] # Nil THEN receipts
    ELSE [receipts EXCEPT ![k] =
            [command |-> Cmd, revision |-> revision, answer |-> answer]]

(* The receipt lookup: a replay, or CONFLICT for another command.           *)
Replayed == receipts[Cmd.key] # Nil

(* Another command has moved the revision since the operator, or the draft, *)
(* read it.                                                                 *)
Stale(d) == Cmd.expected # Current \/ (d # Nil /\ d.base # Cmd.expected)

Target ==
    IF Cmd.type = "activate"
    THEN IF Cmd.target \in DOMAIN drafts THEN drafts[Cmd.target] ELSE Nil
    ELSE IF \/ Cmd.target \notin DOMAIN revisions
            \/ revisions[Cmd.target].status = "REJECTED" THEN Nil
    ELSE [base |-> Current, scope |-> revisions[Cmd.target].scope,
          cfg |-> revisions[Cmd.target].cfg,
          paths |-> Changed(revisions[Cmd.target].scope, revisions[Cmd.target].cfg),
          activatable |-> TRUE]

Refused ==
    IF Stale(Target) THEN "STALE_REVISION"
    ELSE IF Target = Nil THEN "NOT_FOUND"
    ELSE IF Cmd.type = "activate" /\ (~Target.activatable \/ Disabled(Target.paths))
         THEN "CONSUMER_DISABLED"
    ELSE Nil

Check ==
    /\ Standing("check")
    /\ \/ Replayed /\ Done /\ UNCHANGED receipts
       \/ /\ ~Replayed /\ Refused # Nil
          /\ Done
          /\ receipts' = IF Cmd.key \in Malformed THEN receipts
                         ELSE WithReceipt(Cmd.key, Refused, Current)
       \/ /\ ~Replayed /\ Refused = Nil
          /\ Goto("prepare", 1) /\ plan' = Target
          /\ UNCHANGED <<receipts, previous, failed>>
    /\ UNCHANGED <<revisions, drafts, ready, runtime, boot>>

(* #commitRevision: revision, pointer and receipt in one transaction; it    *)
(* throws, and changes nothing, when the receipt is refused.                *)
Written(status, reason) ==
    [r \in 0..(Current + 1) |->
       IF r <= Current THEN revisions[r]
       ELSE [status |-> status, base |-> plan.base, scope |-> plan.scope, cfg |-> plan.cfg,
             paths |-> plan.paths, reason |-> reason, key |-> Cmd.key]]

\* Mutant of CommitRevision: the receipt is forgotten.
CommitWithoutReceipt(status, answer, reason) ==
    revisions' = Written(status, reason) /\ UNCHANGED receipts

CommitRevision(status, answer, reason) ==
    /\ revisions' = Written(status, reason)
    /\ receipts' = WithReceipt(Cmd.key, answer, Current + 1)

CommitThrows == Cmd.key \in Malformed

Reject(reason) ==
    /\ Done
    /\ \/ ~CommitThrows /\ CommitRevision("REJECTED", reason, reason)
       \/ CommitThrows /\ UNCHANGED <<revisions, receipts>>

Prepare ==
    /\ Standing("prepare")
    /\ \/ /\ IF next < Size THEN Goto("prepare", next + 1) ELSE Goto("apply", 1)
          /\ UNCHANGED <<plan, previous, failed, revisions, receipts>>
       \/ Reject("COMPONENT_PREPARE_FAILED")
    /\ UNCHANGED <<drafts, ready, runtime, boot>>

(* A component's apply swaps its configuration and returns the closure that *)
(* restores the one it had, or fails and keeps the one it had.              *)
Apply ==
    /\ Standing("apply")
    /\ \/ /\ running' = [running EXCEPT ![next] = plan.cfg]
          /\ previous' = Append(previous, running[next])
          /\ IF next < Size THEN Goto("apply", next + 1) ELSE Goto("commit", next)
          /\ UNCHANGED <<plan, failed, revisions, receipts>>
       \/ /\ previous # <<>> /\ Goto("undo", Len(previous))
          /\ UNCHANGED <<plan, previous, failed, revisions, receipts, running>>
       \/ previous = <<>> /\ Reject("COMPONENT_APPLY_FAILED") /\ UNCHANGED running
    /\ UNCHANGED <<drafts, ready, torn, boot>>

Undone(c) == [running EXCEPT ![c] = previous[c]]

(* The reverse order of the rollbacks; one that fails is skipped.  After    *)
(* the last, the failure is committed (apply failed) or rethrown (the       *)
(* commit failed, so all components had been applied).                      *)
Undo ==
    /\ Standing("undo")
    /\ \E fails \in BOOLEAN :
         /\ running' = IF fails THEN running ELSE Undone(next)
         /\ torn' = IF fails THEN torn \cup {next} ELSE torn
         /\ \/ /\ next > 1 /\ Goto("undo", next - 1)
               /\ failed' = (failed \/ fails)
               /\ UNCHANGED <<plan, previous, revisions, receipts>>
            \/ /\ next = 1 /\ Len(previous) < Size
               /\ Reject(IF failed \/ fails THEN "COMPONENT_ROLLBACK_FAILED"
                         ELSE "COMPONENT_APPLY_FAILED")
            \/ /\ next = 1 /\ Len(previous) = Size
               /\ Done /\ UNCHANGED <<revisions, receipts>>
    /\ UNCHANGED <<drafts, ready, boot>>

Commit ==
    /\ Standing("commit")
    /\ \/ /\ ~CommitThrows /\ Done
          /\ CommitRevision(IF Cmd.type = "activate" THEN "EFFECTIVE" ELSE "ROLLED_BACK",
                            "OK", Nil)
          /\ torn' = {}
       \/ /\ CommitThrows /\ Goto("undo", Size)
          /\ UNCHANGED <<plan, previous, failed, revisions, receipts, torn>>
    /\ UNCHANGED <<drafts, ready, running, boot>>

-----------------------------------------------------------------------------
CapabilityChanges == ready' = ~ready /\ UNCHANGED <<persistent, command, runtime, boot>>

\* Mutant of Compose: the newest revision, accepted or not.
RestartOnNewest ==
    /\ running' = [c \in 1..Size |-> revisions[Current].cfg] /\ torn' = {}

(* The components are composed from get().effective.                        *)
Compose == running' = [c \in 1..Size |-> Effective(Nil)] /\ torn' = {}

(* The process dies and is composed again from get().effective.             *)
Recompose ==
    /\ queue' = <<>> /\ stage' = "check" /\ next' = 1 /\ plan' = Nil /\ previous' = <<>>
    /\ failed' = FALSE
    /\ Compose
    /\ boot' = Current
    /\ UNCHANGED <<persistent, ready>>

Step == Check \/ Prepare \/ Apply \/ Undo \/ Commit

Next == ValidateDraft \/ Enqueue \/ Step \/ CapabilityChanges \/ Recompose

(* The components' promises settle.                                         *)
Spec == Init /\ [][Next]_vars /\ WF_vars(Step)

-----------------------------------------------------------------------------
(* Properties.                                                             *)

(* Between commands every component works with the newest configuration     *)
(* accepted since the process started, or with the GLOBAL one it was        *)
(* composed from, unless its own rollback failed: no refused, failed or     *)
(* thrown command leaves a trace in a component.                            *)
Accounted ==
    LET since == {r \in DOMAIN revisions : r > boot /\ revisions[r].status # "REJECTED"}
        origin == {r \in Accepted(Nil) : r <= boot}
    IN revisions[Max(IF since # {} THEN since ELSE origin)].cfg

RuntimeFollowsRecord ==
    stage \in {"check", "prepare"} => \A c \in (1..Size) \ torn : running[c] = Accounted

(* A key buys one revision: every revision a command wrote is the one its   *)
(* receipt names, with the matching answer, so that a retried command is    *)
(* answered from the receipt and never applied again.                       *)
OneRevisionPerKey ==
    \A r \in DOMAIN revisions : revisions[r].key # Nil =>
        LET receipt == receipts[revisions[r].key] IN
        /\ receipt # Nil /\ receipt.revision = r
        /\ (receipt.answer = "OK") <=> (revisions[r].status # "REJECTED")

=============================================================================
