----------------------- MODULE KnowledgeRevalidation -----------------------
(* How code knowledge of one project follows the project's repository: the   *)
(* change intake that scans git, confirms the live revision and queues jobs  *)
(* (packages/knowledge-change-intake), the KNOWLEDGE_REVALIDATE job          *)
(* (packages/knowledge-evolution-jobs, evolution-job-runtime), the revision  *)
(* bound verification (packages/knowledge-verification), the freshness rows  *)
(* and the gate in front of injection (packages/knowledge-freshness), as     *)
(* apps/sidecar/src/p2-evolution-runtime.ts composes them.                   *)
(* The developer works on the repository all the while. A revision is what   *)
(* git tells of it, HEAD and the names of the dirty files, and not the tree. *)
EXTENDS Naturals, FiniteSets

CONSTANTS
    Assets,         \* knowledge assets; each is anchored on a file of its own
    Breaking,       \* <<a, content>> of the file that refute what is known of it
    MaxChanges,     \* bound: edits, commits and pulls
    MaxVersion,     \* bound: the newest version of each asset
    MaxFaults,      \* bound: failing git commands, unavailable tools, crashes
    JobAttempts,    \* maxAttempts of an evolution job
    NULL

\* NULL stands for what is not there: a revision, a frozen set.
ASSUME RevalidationAssumption ==
    /\ NULL \notin [head : [Assets -> Nat], dirty : SUBSET Assets]
    /\ \A S \in SUBSET Assets : NULL \notin [S -> Nat]

VARIABLES
    head,       \* the committed tree: content of each file
    tree,       \* the working tree
    history,    \* what there has been: revisions and their trees
    live,       \* knowledge_change_live_revisions: NULL is PENDING
    base,       \* git_freshness_baseline: its number and revision
    observed,   \* git_change_observations
    acked,      \* those with status ACKNOWLEDGED
    jobs,       \* one KNOWLEDGE_REVALIDATE job for each queued observation
    state,      \* knowledge_freshness_state of the active version of each asset
    effects,    \* knowledge_freshness_transition_effects
    intake,     \* the scan in progress
    worker,     \* the job in progress
    faults

files == <<head, tree, history>>
intakeVars == <<live, base, observed, acked>>
vars == <<files, intakeVars, jobs, state, effects, intake, worker, faults>>

RevisionOf(committed, working) ==
    [head |-> committed, dirty |-> {a \in Assets : working[a] # committed[a]}]
Revision == RevisionOf(head, tree)
Dirty == Revision.dirty
Was(committed, working) == [revision |-> RevisionOf(committed, working), tree |-> working]

\* The project has been watched for a while, every asset verified at its revision;
\* a version published since carries "publication:<hash>", here NULL.
Init ==
    /\ head = [a \in Assets |-> 0] /\ tree = head
    /\ history = {Was(head, tree)}
    /\ live = Revision
    /\ base = [number |-> 1, revision |-> Revision]
    /\ observed = {} /\ acked = {}
    /\ jobs = [o \in {} |-> NULL]
    /\ state = [a \in Assets |-> [version |-> 1, status |-> "FRESH", seen |-> 0, revision |-> Revision]]
    /\ effects = {}
    /\ intake = [pc |-> "idle"] /\ worker = NULL
    /\ faults = 0

Fault == faults < MaxFaults /\ faults' = faults + 1
NoFault == UNCHANGED faults

-----------------------------------------------------------------------------
(* The developer.                                                            *)

Works(committed, working) ==
    /\ Cardinality(history) <= MaxChanges
    /\ head' = committed /\ tree' = working
    /\ history' = history \cup {Was(committed, working)}
    /\ UNCHANGED <<intakeVars, jobs, state, effects, intake, worker, faults>>

Edit(a) == Works(head, [tree EXCEPT ![a] = @ + 1])
Commit == Dirty # {} /\ Works(tree, tree)
Pull(a) == a \notin Dirty /\ Works([head EXCEPT ![a] = @ + 1], [tree EXCEPT ![a] = @ + 1])

\* The knowledge worker projects a new version (module KnowledgePublication).
Publish(a) ==
    /\ state[a].version < MaxVersion[a]
    /\ state' = [state EXCEPT ![a] = [version |-> @.version + 1, status |-> "FRESH",
                                       seen |-> tree[a], revision |-> NULL]]
    /\ UNCHANGED <<files, intakeVars, jobs, effects, intake, worker, faults>>

-----------------------------------------------------------------------------
(* KnowledgeChangeIntake and GitKnowledgeChangeSource.                       *)

\* enqueuePending: a job for each PENDING observation, EXISTING if it has one.
NewJob == [status |-> "QUEUED", attempt |-> 0, frozen |-> NULL, committed |-> FALSE]
\* Mutant of AttachedTo: one job for each baseline is enough.
AttachedPerBase(pending) ==
    LET late == {o \in pending : \E p \in DOMAIN jobs : p.base = o.base}
    IN  [o \in DOMAIN jobs \cup (pending \ late) |-> IF o \in DOMAIN jobs THEN jobs[o] ELSE NewJob]
AttachedTo(pending) ==
    [o \in DOMAIN jobs \cup pending |-> IF o \in DOMAIN jobs THEN jobs[o] ELSE NewJob]
Attached == AttachedTo(observed \ acked)

\* notify: a hook, the console, or schedule() of the gate, which attaches what is
\* pending as well. The scan it asks for is one StartScan may make at any time.
Notify ==
    /\ live' = NULL
    /\ jobs' = Attached
    /\ UNCHANGED <<files, base, observed, acked, state, effects, intake, worker, faults>>

\* performCycle, by the timer, by start or by flush: what was found before is
\* queued, then git is asked two things at once. Either answer may be the first.
StartScan ==
    /\ intake.pc = "idle"
    /\ live' = NULL
    /\ jobs' = Attached
    /\ \/ intake' = [pc |-> "head", head |-> head]
       \/ intake' = [pc |-> "status", dirty |-> Dirty]
    /\ UNCHANGED <<files, base, observed, acked, state, effects, worker, faults>>

SecondAnswer ==
    /\ \/ intake.pc = "head" /\ intake' = [pc |-> "compare", found |-> [head |-> intake.head, dirty |-> Dirty]]
       \/ intake.pc = "status" /\ intake' = [pc |-> "compare", found |-> [head |-> head, dirty |-> intake.dirty]]
    /\ UNCHANGED <<files, intakeVars, jobs, state, effects, worker, faults>>

\* scanProject once git has answered: dirty before, dirty now, or committed
\* in between. The baseline stays, the observation is PENDING.
Changed(from, to) == from.dirty \cup to.dirty \cup {a \in Assets : from.head[a] # to.head[a]}
Observation(found) == [base |-> base.number, revision |-> found, changed |-> Changed(base.revision, found)]
Found == observed' = IF intake.found = base.revision THEN observed
                     ELSE observed \cup {Observation(intake.found)}

\* ... confirmRevision, whatever was notified meanwhile, and the new jobs.
Observe ==
    /\ intake.pc = "compare"
    /\ Found
    /\ live' = intake.found
    /\ jobs' = AttachedTo(observed' \ acked)
    /\ intake' = [pc |-> "idle"]
    /\ UNCHANGED <<files, base, acked, state, effects, worker, faults>>

\* git fails: the revision stays PENDING, the wakeup is deferred.
ScanFails ==
    /\ intake.pc \in {"head", "status"} /\ Fault
    /\ jobs' = Attached
    /\ intake' = [pc |-> "idle"]
    /\ UNCHANGED <<files, intakeVars, state, effects, worker>>

-----------------------------------------------------------------------------
(* The revalidation job.                                                     *)

\* freezeAffectedSnapshot with the default recipe selection: every active
\* version whose row does not carry this revision yet.
Freeze(o) == [a \in {a \in Assets : state[a].revision # o.revision} |-> state[a].version]

\* selectAffectedAssertionIds: of those, the ones anchored on a changed path.
Requested(o, frozen) == DOMAIN frozen \cap o.changed

Pending(o) == o \in DOMAIN jobs /\ jobs[o].status = "QUEUED"

\* The catch of the durable worker; what classify calls retryable or not.
Retried(job) == [job EXCEPT !.status = IF job.attempt >= JobAttempts THEN "FAILED" ELSE "QUEUED"]

\* The handler up to the probes. Each item captures the revision around its own
\* probe; one that finds another fails the job, so they are taken together.
Claim(o) ==
    /\ worker = NULL /\ Pending(o)
    /\ LET frozen == IF jobs[o].frozen = NULL THEN Freeze(o) ELSE jobs[o].frozen
           items == IF jobs[o].committed THEN {} ELSE Requested(o, frozen)
           job == [jobs[o] EXCEPT !.status = "RUNNING", !.attempt = @ + 1, !.frozen = frozen]
       IN  IF items # {} /\ Revision # o.revision   \* CODE_REVISION_CONFLICT
           THEN jobs' = [jobs EXCEPT ![o] = Retried(job)] /\ UNCHANGED worker
           ELSE /\ jobs' = [jobs EXCEPT ![o] = job]
                /\ worker' = [job |-> o, pc |-> IF items = {} THEN "verified" ELSE "probe",
                              items |-> [a \in items |-> NULL]]
    /\ UNCHANGED <<files, intakeVars, state, effects, intake, faults>>

FailJob(retryable) ==
    /\ jobs' = [jobs EXCEPT ![worker.job] = IF retryable THEN Retried(@) ELSE [@ EXCEPT !.status = "FAILED"]]
    /\ worker' = NULL

Working(pc) == worker # NULL /\ worker.pc = pc
Items == DOMAIN worker.items

Verdict(a) == IF <<a, tree[a]>> \in Breaking THEN "CONFLICT" ELSE "FRESH"

\* The probe reads the working tree; a tool that is not available is UNKNOWN.
Probe(a) ==
    /\ Working("probe") /\ a \in Items /\ worker.items[a] = NULL
    /\ \/ /\ NoFault
          /\ worker' = [worker EXCEPT !.items[a] = [seen |-> tree[a], verdict |-> Verdict(a)]]
       \/ /\ Fault
          /\ worker' = [worker EXCEPT !.items[a] = [seen |-> tree[a], verdict |-> "UNKNOWN"]]
    /\ UNCHANGED <<files, intakeVars, jobs, state, effects, intake>>

\* Mutant of CaptureAfter: the revision captured before is good enough.
CaptureAfterTrusting ==
    /\ Working("probe") /\ \A a \in Items : worker.items[a] # NULL
    /\ worker' = [worker EXCEPT !.pc = "verified"]
    /\ UNCHANGED <<files, intakeVars, jobs, state, effects, intake, faults>>

\* verifyBatch captures the revision again: CODE_REVISION_CHANGED.
CaptureAfter ==
    /\ Working("probe") /\ \A a \in Items : worker.items[a] # NULL
    /\ IF Revision = worker.job.revision
       THEN worker' = [worker EXCEPT !.pc = "verified"] /\ UNCHANGED jobs
       ELSE FailJob(TRUE)
    /\ UNCHANGED <<files, intakeVars, state, effects, intake, faults>>

\* An effect belongs to a job and a frozen version of an asset.
Effect(a) == [job |-> worker.job, asset |-> a, version |-> jobs[worker.job].frozen[a],
              verdict |-> worker.items[a].verdict]
Contradicts(a) ==
    \E e \in effects : /\ [e EXCEPT !.verdict = Effect(a).verdict] = Effect(a)
                       /\ e.verdict # Effect(a).verdict
Repeats(a) == Effect(a) \in effects

\* transitionWithEffect of each verified item; the row of an older version than
\* the active one is written too, and nothing here looks at it.
Transitions(written) ==
    /\ effects' = effects \cup {Effect(a) : a \in written}
    /\ state' = [a \in Assets |->
           IF a \in written /\ ~Repeats(a) /\ state[a].version = Effect(a).version
           THEN [state[a] EXCEPT !.status = worker.items[a].verdict, !.seen = worker.items[a].seen,
                                 !.revision = worker.job.revision]
           ELSE state[a]]

\* Mutant of WritePage: what a tool could not tell is not written.
WritePageKnown ==
    /\ Working("verified")
    /\ Transitions({a \in Items : worker.items[a].verdict # "UNKNOWN"})
    /\ jobs' = [jobs EXCEPT ![worker.job].committed = TRUE]
    /\ worker' = [worker EXCEPT !.pc = "acknowledge"]
    /\ UNCHANGED <<files, intakeVars, intake, faults>>

\* The page is written and its checkpoint saved, or an effect of an earlier
\* attempt says otherwise: FRESHNESS_EFFECT_CONFLICT, which is retried.
WritePage ==
    /\ Working("verified")
    /\ LET refused == {a \in Items : Contradicts(a)}
       IN  IF refused = {}
           THEN /\ Transitions(Items)
                /\ jobs' = [jobs EXCEPT ![worker.job].committed = TRUE]
                /\ worker' = [worker EXCEPT !.pc = "acknowledge"]
           ELSE FailJob(TRUE) /\ UNCHANGED <<state, effects>>
    /\ UNCHANGED <<files, intakeVars, intake, faults>>

\* Mutant of Acknowledge: no compare and swap.
AcknowledgeAnyway ==
    /\ Working("acknowledge")
    /\ base' = [number |-> worker.job.base + 1, revision |-> worker.job.revision]
    /\ acked' = acked \cup {worker.job}
    /\ worker' = [worker EXCEPT !.pc = "done"]
    /\ UNCHANGED <<files, live, observed, jobs, state, effects, intake, faults>>

\* acknowledgeSource: the baseline moves if it is the one the scan compared with.
Acknowledge ==
    /\ Working("acknowledge")
    /\ LET o == worker.job
       IN  CASE o \in acked -> worker' = [worker EXCEPT !.pc = "done"] /\ UNCHANGED <<base, acked, jobs>>
             [] o \notin acked /\ base.number # o.base -> FailJob(FALSE) /\ UNCHANGED <<base, acked>>
             [] o \notin acked /\ base.number = o.base ->
                    /\ base' = [number |-> o.base + 1, revision |-> o.revision]
                    /\ acked' = acked \cup {o}
                    /\ worker' = [worker EXCEPT !.pc = "done"]
                    /\ UNCHANGED jobs
    /\ UNCHANGED <<files, live, observed, state, effects, intake, faults>>

Succeed ==
    /\ Working("done")
    /\ jobs' = [jobs EXCEPT ![worker.job].status = "SUCCEEDED"]
    /\ worker' = NULL
    /\ UNCHANGED <<files, intakeVars, state, effects, intake, faults>>

-----------------------------------------------------------------------------
(* The sidecar dies, and is started again: the lease of the job runs out.    *)

Restarted ==
    /\ jobs' = IF worker = NULL THEN jobs ELSE [jobs EXCEPT ![worker.job] = Retried(@)]
    /\ worker' = NULL
    /\ intake' = [pc |-> "idle"]

Crash ==
    /\ Fault /\ (worker # NULL \/ intake.pc # "idle")
    /\ Restarted
    /\ UNCHANGED <<files, intakeVars, state, effects>>

\* Between the observation and the revision, which are rows of two databases.
CrashObserved ==
    /\ Fault /\ intake.pc = "compare"
    /\ Found
    /\ Restarted
    /\ UNCHANGED <<files, live, base, acked, state, effects>>

\* The transitions of a page are transactions of their own.
CrashWriting ==
    /\ Fault /\ Working("verified")
    /\ \E written \in SUBSET Items :
           /\ written # {} /\ \A a \in written : ~Contradicts(a)
           /\ Transitions(written)
    /\ Restarted
    /\ UNCHANGED <<files, intakeVars>>

-----------------------------------------------------------------------------
ClaimAny == \E o \in DOMAIN jobs : Claim(o)
Scan == StartScan \/ SecondAnswer \/ Observe
Work == (\E a \in Assets : Probe(a)) \/ CaptureAfter \/ WritePage \/ Acknowledge \/ Succeed

Next ==
    \/ \E a \in Assets : Edit(a) \/ Pull(a) \/ Publish(a)
    \/ Commit \/ Notify \/ Scan \/ ScanFails \/ ClaimAny \/ Work
    \/ Crash \/ CrashObserved \/ CrashWriting

\* The fallback timer of the intake and the poll of the worker never stop. No
\* job has more than JobAttempts turns, so it matters not which is claimed first.
Spec == Init /\ [][Next]_vars
Fairness == WF_vars(Scan) /\ WF_vars(Work) /\ WF_vars(ClaimAny)
FairSpec == Spec /\ Fairness

-----------------------------------------------------------------------------
(* Properties.                                                               *)

\* SafeFreshnessGate.ensureFresh, exactReason: what recall may inject.
Eligible(a) == live # NULL /\ state[a].revision = live /\ state[a].status = "FRESH"

\* Knowledge the gate lets through at a revision was verified against its file as
\* a tree of that very revision had it (gate.ts, exactReason; verifyBatch captures
\* the revision before and after its probes), never as a tree before or after it
\* did. If the revision calls the file clean, this is what it is committed with. A
\* dirty file may be edited again and the revision stays the same: which of its
\* contents was verified, nothing in the code tells. The developer here never
\* takes an edit back: a file dirtied and reverted around a probe would leave the
\* revision the same, too.
EvidenceMatches ==
    \A a \in Assets : Eligible(a) =>
        \E h \in history : h.revision = live /\ h.tree[a] = state[a].seen

\* How far a file has come at a revision: its commits, and whether it is dirty.
Position(revision, a) == 2 * revision.head[a] + (IF a \in revision.dirty THEN 1 ELSE 0)
NoEarlier(old, new) ==
    old # NULL /\ new # NULL => \A a \in Assets : Position(old, a) <= Position(new, a)

\* No file goes back in what the freshness of a version says, nor in what the
\* baseline says by a job that verified anything, though observations are verified
\* in any order, late or twice (acknowledgeSource compares the baseline, verifyBatch
\* the revision). A job that found nothing to verify may take the baseline back, when
\* a torn answer of git names an earlier revision again that the rows still carry.
NeverBackwards ==
    [][/\ \A a \in Assets : state'[a].version = state[a].version =>
              NoEarlier(state[a].revision, state'[a].revision)
       /\ base' # base /\ Requested(worker.job, jobs[worker.job].frozen) # {} =>
              NoEarlier(base.revision, base'.revision)]_vars

\* A baseline is acknowledged only when every frozen target with a changed path
\* got its outcome, across crashes in the middle of a page and resumed attempts.
AcknowledgedIsDecided ==
    \A o \in acked : \A a \in Requested(o, jobs[o].frozen) :
        \E e \in effects : e.job = o /\ e.asset = a /\ e.version = jobs[o].frozen[a]

\* Once the developer rests, the baseline reaches the repository as it is, or
\* the job that would take it there has failed for good and is there to see.
CaughtUp ==
    \/ base.revision = Revision
    \/ \E o \in DOMAIN jobs : o.base = base.number /\ o.revision = Revision /\ jobs[o].status = "FAILED"
CatchesUp == <>[]CaughtUp

\* code_review.md:254: freezing all current code knowledge was meant to keep
\* assets the change did not touch from staying on an old revision for good.
NoAssetLeftBehind ==
    base.revision = Revision /\ live = Revision /\ observed = acked
        => \A a \in Assets : state[a].revision = Revision
=============================================================================
