--------------------- MODULE KnowledgeRevalidationProofs ---------------------
(***************************************************************************)
(* Proofs about KnowledgeRevalidation for any number of assets, changes of  *)
(* the repository, published versions, faults and attempts.                 *)
(***************************************************************************)
EXTENDS KnowledgeRevalidation, TLAPS

Revisions == [head : [Assets -> Nat], dirty : SUBSET Assets]

(* The repository was at r, or at least nothing of it is before r any more. *)
Passed(r) == r \in Revisions /\ NoEarlier(r, Revision)

Trees ==
    /\ head \in [Assets -> Nat] /\ tree \in [Assets -> Nat]
    /\ \A a \in Assets : head[a] <= tree[a]

(* Every tree there has been is on record with its revision.                *)
Recorded == Was(head, tree) \in history /\ \A h \in history : h.revision \in Revisions

(* The file held n in a tree of revision r.                                 *)
SeenAt(r, a, n) == \E h \in history : h.revision = r /\ h.tree[a] = n

(* Answers of git have their shape; an observation has found something, and *)
(* was compared with the baseline of its number.                            *)
IntakeOK ==
    /\ intake.pc \in {"idle", "head", "status", "compare"}
    /\ intake.pc = "head" => intake.head \in [Assets -> Nat]
    /\ intake.pc = "status" => intake.dirty \in SUBSET Assets
    /\ intake.pc = "compare" => intake.found \in Revisions
    /\ \A o \in observed : /\ o.revision \in Revisions
                           /\ o.changed \subseteq Assets /\ o.changed # {}
                           /\ o.base \in Nat /\ o.base <= base.number
    /\ acked \subseteq DOMAIN jobs /\ DOMAIN jobs \subseteq observed

BaseOK == base.number \in Nat /\ Passed(base.revision)

Frozen == UNION {[S -> Nat] : S \in SUBSET Assets}
Job == [status : {"QUEUED", "RUNNING", "FAILED", "SUCCEEDED"}, attempt : Nat,
        frozen : Frozen \cup {NULL}, committed : BOOLEAN]
Verdicts == {"FRESH", "CONFLICT", "UNKNOWN"}
Row == [version : Nat, status : Verdicts, seen : Nat, revision : Revisions \cup {NULL}]
Item == [seen : Nat, verdict : Verdicts]

(* A row names a revision that has been, with what its file held in a tree   *)
(* of that revision.                                                        *)
RowsOK ==
    /\ state \in [Assets -> Row]
    /\ \A a \in Assets : state[a].revision # NULL =>
          /\ NoEarlier(state[a].revision, Revision)
          /\ SeenAt(state[a].revision, a, state[a].seen)

Decided(o) == \A a \in Requested(o, jobs[o].frozen) :
    \E e \in effects : e.job = o /\ e.asset = a /\ e.version = jobs[o].frozen[a]

(* A job that had nothing to verify, or has it verified, is about a revision *)
(* that has been; a baseline it was compared with and verified is not later. *)
JobOK(o) ==
    /\ jobs[o].frozen # NULL /\ Requested(o, jobs[o].frozen) = {} => Passed(o.revision)
    /\ jobs[o].committed =>
          /\ jobs[o].frozen # NULL
          /\ Decided(o) /\ Passed(o.revision)
          /\ Requested(o, jobs[o].frozen) # {} /\ o.base = base.number
                => NoEarlier(base.revision, o.revision)

JobsOK ==
    /\ jobs \in [DOMAIN jobs -> Job]
    /\ \A o \in DOMAIN jobs : JobOK(o)
    /\ \A o \in acked : jobs[o].committed

(* The job in progress verifies what it asked for at the revision it captured *)
(* before: no row and not the baseline are ahead of it.                      *)
Bound ==
    /\ Passed(worker.job.revision)
    /\ NoEarlier(base.revision, worker.job.revision)
    /\ \A a \in Assets : NoEarlier(state[a].revision, worker.job.revision)

(* What a probe read was there at a revision between that one and the present. *)
Evidence(a) ==
    /\ worker.pc = "probe" /\ worker.items[a] # NULL =>
          \E h \in history : /\ h.tree[a] = worker.items[a].seen
                             /\ NoEarlier(worker.job.revision, h.revision)
                             /\ NoEarlier(h.revision, Revision)
    /\ worker.pc = "verified" => SeenAt(worker.job.revision, a, worker.items[a].seen)

WorkerOK ==
    /\ DOMAIN worker = {"job", "pc", "items"}
    /\ worker.pc \in {"probe", "verified", "acknowledge", "done"}
    /\ worker.job \in DOMAIN jobs /\ jobs[worker.job].frozen # NULL
    /\ Items \subseteq Assets /\ worker.items \in [Items -> Item \cup {NULL}]
    /\ worker.pc \in {"probe", "verified"} =>
          /\ Items = IF jobs[worker.job].committed THEN {}
                     ELSE Requested(worker.job, jobs[worker.job].frozen)
          /\ Items # {} => Bound
    /\ worker.pc \in {"acknowledge", "done"} => jobs[worker.job].committed
    /\ worker.pc = "verified" => \A a \in Items : worker.items[a] # NULL
    /\ \A a \in Items : Evidence(a)

IInv ==
    /\ Trees /\ Recorded /\ IntakeOK /\ BaseOK /\ RowsOK /\ JobsOK
    /\ worker # NULL => WorkerOK

-----------------------------------------------------------------------------
(* Revisions.                                                               *)

LEMMA Measured ==
    ASSUME NEW r \in Revisions, NEW a \in Assets
    PROVE  Position(r, a) \in Nat /\ r # NULL
BY RevalidationAssumption DEF Revisions, Position

(* NoEarlier is transitive through what is a revision.                      *)
LEMMA Chain ==
    ASSUME NEW r \in Revisions \cup {NULL}, NEW s \in Revisions, NEW t \in Revisions,
           NoEarlier(r, s), NoEarlier(s, t)
    PROVE  NoEarlier(r, t)
<1>1. CASE r = NULL
  BY <1>1 DEF NoEarlier
<1>2. CASE r # NULL
  <2>1. r \in Revisions /\ s # NULL /\ t # NULL
    BY <1>2, RevalidationAssumption DEF Revisions
  <2>2. ASSUME NEW a \in Assets PROVE Position(r, a) <= Position(t, a)
    <3>1. Position(r, a) <= Position(s, a) /\ Position(s, a) <= Position(t, a)
      BY <1>2, <2>1 DEF NoEarlier
    <3>. QED
      BY <2>1, <3>1, Measured
  <2>. QED
    BY <2>2 DEF NoEarlier
<1>. QED
  BY <1>1, <1>2

LEMMA RevisionTyped ==
    ASSUME Trees
    PROVE  Revision \in Revisions /\ Passed(Revision)
<1>1. Revision \in Revisions
  BY DEF Trees, Revision, RevisionOf, Revisions
<1>2. NoEarlier(Revision, Revision)
  BY <1>1, Measured DEF NoEarlier
<1>. QED
  BY <1>1, <1>2 DEF Passed

LEMMA PassedOn ==
    ASSUME NEW r \in Revisions \cup {NULL}, NEW s, Passed(s), NoEarlier(r, s), Trees
    PROVE  NoEarlier(r, Revision)
BY RevisionTyped, Chain DEF Passed

(* A revision that is neither earlier nor later is the same.                *)
LEMMA Antisymmetric ==
    ASSUME NEW r \in Revisions, NEW s \in Revisions, NoEarlier(r, s), NoEarlier(s, r)
    PROVE  r = s
<1>1. ASSUME NEW a \in Assets PROVE r.head[a] = s.head[a] /\ (a \in r.dirty <=> a \in s.dirty)
  <2>1. Position(r, a) = Position(s, a)
    BY Measured DEF NoEarlier
  <2>2. r.head[a] \in Nat /\ s.head[a] \in Nat
    BY DEF Revisions
  <2>. QED
    BY <2>1, <2>2 DEF Position
<1>2. r.head = s.head /\ r.dirty = s.dirty
  BY <1>1 DEF Revisions
<1>. QED
  BY <1>2 DEF Revisions

LEMMA SeenNow ==
    ASSUME Recorded, NEW a \in Assets
    PROVE  SeenAt(Revision, a, tree[a])
<1>1. Was(head, tree).revision = Revision /\ Was(head, tree).tree = tree
  BY DEF Was, Revision
<1>. QED
  BY <1>1 DEF Recorded, SeenAt

-----------------------------------------------------------------------------
(* The files only go forward.                                               *)

Developed == (\E a \in Assets : Edit(a) \/ Pull(a)) \/ Commit

Forward ==
    /\ Trees' /\ Recorded'
    /\ \A a \in Assets : tree[a] <= tree'[a]
    /\ NoEarlier(Revision, Revision')
    /\ history \subseteq history'

LEMMA WorksForward ==
    ASSUME Trees, Recorded, NEW c \in [Assets -> Nat], NEW w \in [Assets -> Nat], Works(c, w),
           \A a \in Assets : /\ tree[a] <= w[a]
                             /\ \/ c[a] = head[a] /\ (tree[a] # head[a] => w[a] # c[a])
                                \/ c[a] >= head[a] + 1
                             /\ c[a] <= w[a]
    PROVE  Forward
<1>1. head' = c /\ tree' = w /\ history' = history \cup {Was(c, w)}
  BY DEF Works
<1>2. Trees'
  BY <1>1 DEF Trees
<1>4. Recorded'
  <2>1. Was(c, w).revision \in Revisions
    BY DEF Was, RevisionOf, Revisions
  <2>. QED
    BY <1>1, <2>1 DEF Recorded
<1>5. ASSUME NEW a \in Assets PROVE Position(Revision, a) <= Position(Revision', a)
  <2>1. head[a] \in Nat /\ c[a] \in Nat
    BY DEF Trees
  <2>2. /\ Revision.head = head /\ Revision.dirty = {x \in Assets : tree[x] # head[x]}
        /\ Revision'.head = c /\ Revision'.dirty = {x \in Assets : w[x] # c[x]}
    BY <1>1 DEF Revision, RevisionOf
  <2>3. CASE c[a] = head[a] /\ (tree[a] # head[a] => w[a] # c[a])
    BY <2>1, <2>2, <2>3 DEF Position
  <2>4. CASE c[a] >= head[a] + 1
    BY <2>1, <2>2, <2>4 DEF Position
  <2>. QED
    BY <2>3, <2>4
<1>6. NoEarlier(Revision, Revision')
  BY <1>5 DEF NoEarlier
<1>. QED
  BY <1>1, <1>2, <1>4, <1>6 DEF Forward

LEMMA DeveloperForward ==
    ASSUME Trees, Recorded, Developed
    PROVE  Forward
<1>0. \A a \in Assets : head[a] \in Nat /\ tree[a] \in Nat
  BY DEF Trees
<1>d. Dirty = {x \in Assets : tree[x] # head[x]}
  BY DEF Dirty, Revision, RevisionOf
<1>1. ASSUME NEW a \in Assets, Edit(a) PROVE Forward
  <2>. DEFINE w == [tree EXCEPT ![a] = @ + 1]
  <2>1. Works(head, w)
    BY <1>1 DEF Edit
  <2>2. w \in [Assets -> Nat] /\ head \in [Assets -> Nat]
    BY DEF Trees
  <2>3. \A b \in Assets : w[b] = IF b = a THEN tree[b] + 1 ELSE tree[b]
    BY DEF Trees
  <2>. HIDE DEF w
  <2>6. \A b \in Assets : /\ tree[b] <= w[b] /\ head[b] <= w[b]
                          /\ head[b] = head[b] /\ (tree[b] # head[b] => w[b] # head[b])
    BY <1>0, <2>3 DEF Trees
  <2>. QED
    BY <2>1, <2>2, <2>6, WorksForward
<1>2. ASSUME NEW a \in Assets, Pull(a) PROVE Forward
  <2>. DEFINE c == [head EXCEPT ![a] = @ + 1]
              w == [tree EXCEPT ![a] = @ + 1]
  <2>1. Works(c, w) /\ tree[a] = head[a]
    BY <1>2, <1>d DEF Pull
  <2>2. w \in [Assets -> Nat] /\ c \in [Assets -> Nat]
    BY DEF Trees
  <2>3. \A b \in Assets : /\ w[b] = (IF b = a THEN tree[b] + 1 ELSE tree[b])
                          /\ c[b] = (IF b = a THEN head[b] + 1 ELSE head[b])
    BY DEF Trees
  <2>. HIDE DEF w, c
  <2>6. \A b \in Assets : /\ tree[b] <= w[b] /\ c[b] <= w[b]
                          /\ \/ c[b] = head[b] /\ (tree[b] # head[b] => w[b] # c[b])
                             \/ c[b] >= head[b] + 1
    BY <1>0, <2>1, <2>3 DEF Trees
  <2>. QED
    BY <2>1, <2>2, <2>6, WorksForward
<1>3. ASSUME Commit PROVE Forward
  <2>1. Works(tree, tree) /\ tree \in [Assets -> Nat]
    BY <1>3 DEF Commit, Trees
  <2>2. \A b \in Assets : /\ tree[b] <= tree[b]
                          /\ \/ tree[b] = head[b] /\ (tree[b] # head[b] => tree[b] # tree[b])
                             \/ tree[b] >= head[b] + 1
    BY <1>0 DEF Trees
  <2>. QED
    BY <2>1, <2>2, WorksForward
<1>. QED
  BY <1>1, <1>2, <1>3 DEF Developed
-----------------------------------------------------------------------------
(* What is left alone by a step.                                            *)

LEMMA RevisionGoesOn ==
    ASSUME Trees, Trees', NoEarlier(Revision, Revision'), NEW r \in Revisions \cup {NULL},
           NoEarlier(r, Revision)
    PROVE  NoEarlier(r, Revision')
<1>1. Revision' \in Revisions
  BY DEF Trees, Revision, RevisionOf, Revisions
<1>. QED
  BY <1>1, RevisionTyped, Chain

LEMMA FilesStay ==
    ASSUME Trees, Recorded, UNCHANGED files
    PROVE  Forward /\ Revision' = Revision
<1>1. Revision' = Revision
  BY DEF files, Revision, RevisionOf
<1>. QED
  BY <1>1, RevisionTyped DEF Forward, Trees, Recorded, Passed, files

(* A job keeps what it froze and whether it is committed.                   *)
Keeps(o) == jobs'[o].frozen = jobs[o].frozen /\ jobs'[o].committed = jobs[o].committed

LEMMA JobsStay ==
    ASSUME Trees, Forward, JobsOK, IntakeOK,
           DOMAIN jobs \subseteq DOMAIN jobs', jobs' \in [DOMAIN jobs' -> Job],
           \A o \in DOMAIN jobs : Keeps(o),
           \A o \in DOMAIN jobs' \ DOMAIN jobs : jobs'[o].frozen = NULL /\ ~jobs'[o].committed,
           effects \subseteq effects', UNCHANGED base, UNCHANGED acked
    PROVE  JobsOK'
<1>1. ASSUME NEW o \in DOMAIN jobs' PROVE JobOK(o)'
  <2>1. CASE o \notin DOMAIN jobs
    BY <2>1, <1>1 DEF JobOK
  <2>2. CASE o \in DOMAIN jobs
    <3>1. Keeps(o) /\ JobOK(o) /\ o.revision \in Revisions
      BY <2>2 DEF JobsOK, IntakeOK
    <3>2. Requested(o, jobs'[o].frozen) = Requested(o, jobs[o].frozen)
      BY <3>1 DEF Keeps
    <3>3. Passed(o.revision) => Passed(o.revision)'
      BY <3>1, RevisionGoesOn DEF Passed, Forward
    <3>4. Decided(o) => Decided(o)'
      BY <3>1, <3>2 DEF Decided, Keeps
    <3>. QED
      BY <3>1, <3>2, <3>3, <3>4 DEF JobOK, Keeps
  <2>. QED
    BY <2>1, <2>2
<1>2. \A o \in acked : jobs'[o].committed
  BY DEF JobsOK, IntakeOK, Keeps
<1>. QED
  BY <1>1, <1>2 DEF JobsOK

LEMMA RowsStay ==
    ASSUME Trees, Forward, RowsOK, UNCHANGED state
    PROVE  RowsOK'
<1>1. ASSUME NEW a \in Assets, state[a].revision # NULL
      PROVE  /\ NoEarlier(state[a].revision, Revision')
             /\ SeenAt(state[a].revision, a, state[a].seen)'
  <2>1. state[a].revision \in Revisions
    BY <1>1 DEF RowsOK, Row
  <2>2. SeenAt(state[a].revision, a, state[a].seen)
    BY <1>1 DEF RowsOK
  <2>. QED
    BY <1>1, <2>1, <2>2, RevisionGoesOn DEF RowsOK, Forward, SeenAt
<1>. QED
  BY <1>1 DEF RowsOK

LEMMA BaseStays ==
    ASSUME Trees, Forward, BaseOK, UNCHANGED base
    PROVE  BaseOK'
BY RevisionGoesOn DEF BaseOK, Passed, Forward

(* What git was asked goes on as it was.                                    *)
LEMMA IntakeStays ==
    ASSUME IntakeOK, UNCHANGED <<intake, observed, acked, base>>, DOMAIN jobs' = DOMAIN jobs
    PROVE  IntakeOK'
BY DEF IntakeOK

LEMMA WorkerStays ==
    ASSUME IInv, Forward, UNCHANGED <<worker, base, state>>, worker # NULL,
           DOMAIN jobs \subseteq DOMAIN jobs', \A o \in DOMAIN jobs : Keeps(o)
    PROVE  WorkerOK'
<1>0. WorkerOK /\ Trees /\ IntakeOK
  BY DEF IInv
<1>1. worker.job \in DOMAIN jobs /\ worker.job.revision \in Revisions /\ Keeps(worker.job)
  BY <1>0 DEF WorkerOK, IntakeOK
<1>2. Bound => Bound'
  BY <1>0, <1>1, RevisionGoesOn DEF Bound, Passed, Forward
<1>3. ASSUME NEW a \in Items PROVE Evidence(a)'
  <2>1. Evidence(a)
    BY <1>0 DEF WorkerOK
  <2>2. ASSUME NEW h \in history, NoEarlier(h.revision, Revision)
        PROVE  h \in history' /\ NoEarlier(h.revision, Revision')
    <3>1. h.revision \in Revisions
      BY DEF IInv, Recorded
    <3>. QED
      BY <1>0, <2>2, <3>1, RevisionGoesOn DEF Forward
  <2>. QED
    BY <2>1, <2>2 DEF Evidence, SeenAt, Forward, NoEarlier
<1>. QED
  BY <1>0, <1>1, <1>2, <1>3 DEF WorkerOK, Keeps, Items

-----------------------------------------------------------------------------
LEMMA DeveloperStep ==
    ASSUME IInv, Developed
    PROVE  IInv'
<1>0. Forward /\ Trees /\ Trees' /\ Recorded'
  BY DeveloperForward DEF IInv, Forward
<1>1. UNCHANGED <<intakeVars, jobs, state, effects, intake, worker, faults>>
  BY DEF Developed, Edit, Pull, Commit, Works
<1>2. UNCHANGED <<base, observed, acked, jobs, state, effects, intake, worker>>
  BY <1>1 DEF intakeVars
<1>3. jobs \in [DOMAIN jobs -> Job] /\ \A o \in DOMAIN jobs : Keeps(o)
  BY <1>2 DEF IInv, JobsOK, Keeps
<1>4. JobsOK'
  BY <1>0, <1>2, <1>3, JobsStay DEF IInv
<1>5. RowsOK' /\ BaseOK' /\ IntakeOK'
  BY <1>0, <1>2, RowsStay, BaseStays, IntakeStays DEF IInv
<1>6. worker # NULL => WorkerOK'
  BY <1>0, <1>2, <1>3, WorkerStays
<1>. QED
  BY <1>0, <1>2, <1>4, <1>5, <1>6 DEF IInv

LEMMA PublishStep ==
    ASSUME IInv, NEW a \in Assets, Publish(a)
    PROVE  IInv'
<1>0. UNCHANGED <<files, base, observed, acked, jobs, effects, intake, worker>>
  BY DEF Publish, intakeVars
<1>1. Forward /\ Trees /\ Trees' /\ Recorded' /\ Revision' = Revision
  BY <1>0, FilesStay DEF IInv, Forward
<1>2. jobs \in [DOMAIN jobs -> Job] /\ \A o \in DOMAIN jobs : Keeps(o)
  BY <1>0 DEF IInv, JobsOK, Keeps
<1>3. JobsOK'
  BY <1>0, <1>1, <1>2, JobsStay DEF IInv
<1>4. BaseOK' /\ IntakeOK'
  BY <1>0, <1>1, BaseStays, IntakeStays DEF IInv
<1>5. state \in [Assets -> Row] /\ tree[a] \in Nat
  BY <1>1 DEF IInv, RowsOK, Trees
<1>6. \A b \in Assets : state'[b] = IF b = a
        THEN [version |-> state[a].version + 1, status |-> "FRESH", seen |-> tree[a], revision |-> NULL]
        ELSE state[b]
  BY <1>5 DEF Publish
<1>7. state' \in [Assets -> Row]
  <2>1. [version |-> state[a].version + 1, status |-> "FRESH", seen |-> tree[a], revision |-> NULL] \in Row
    BY <1>5 DEF Row, Verdicts
  <2>. QED
    BY <1>5, <2>1 DEF Publish
<1>8. RowsOK'
  BY <1>0, <1>1, <1>6, <1>7 DEF IInv, RowsOK, SeenAt, files
<1>9. worker # NULL => WorkerOK'
  <2>. SUFFICES ASSUME worker # NULL PROVE WorkerOK'
    OBVIOUS
  <2>1. WorkerOK
    BY DEF IInv
  <2>2. Bound => Bound'
    BY <1>0, <1>1, <1>6 DEF Bound, Passed, NoEarlier
  <2>3. \A b \in Items : Evidence(b) => Evidence(b)'
    BY <1>0, <1>1 DEF Evidence, SeenAt, NoEarlier, files
  <2>. QED
    BY <1>0, <2>1, <2>2, <2>3 DEF WorkerOK, Items
<1>. QED
  BY <1>0, <1>1, <1>3, <1>4, <1>8, <1>9 DEF IInv
-----------------------------------------------------------------------------
(* The intake: it adds jobs and changes none.                               *)

JobsGrow ==
    /\ DOMAIN jobs \subseteq DOMAIN jobs' /\ jobs' \in [DOMAIN jobs' -> Job]
    /\ \A o \in DOMAIN jobs : Keeps(o)
    /\ \A o \in DOMAIN jobs' \ DOMAIN jobs : jobs'[o].frozen = NULL /\ ~jobs'[o].committed

LEMMA AttachedGrow ==
    ASSUME JobsOK, NEW S, jobs' = AttachedTo(S)
    PROVE  JobsGrow /\ DOMAIN jobs' = DOMAIN jobs \cup S
<1>1. NewJob \in Job
  BY DEF NewJob, Job
<1>2. DOMAIN jobs' = DOMAIN jobs \cup S
  BY DEF AttachedTo
<1>3. \A o \in DOMAIN jobs' : jobs'[o] = IF o \in DOMAIN jobs THEN jobs[o] ELSE NewJob
  BY DEF AttachedTo
<1>4. jobs' = [o \in DOMAIN jobs' |-> jobs'[o]]
  BY DEF AttachedTo
<1>5. jobs' \in [DOMAIN jobs' -> Job]
  BY <1>1, <1>3, <1>4 DEF JobsOK
<1>. QED
  BY <1>2, <1>3, <1>5 DEF JobsGrow, Keeps, NewJob

LEMMA Rest ==
    ASSUME IInv, UNCHANGED <<files, base, acked>>, JobsGrow, effects \subseteq effects',
           IntakeOK', RowsOK', \/ worker' = NULL
                               \/ UNCHANGED <<worker, state>>
    PROVE  IInv'
<1>1. Forward /\ Trees /\ Trees' /\ Recorded'
  BY FilesStay DEF IInv, Forward
<1>2. JobsOK' /\ BaseOK'
  BY <1>1, JobsStay, BaseStays DEF IInv, JobsGrow
<1>3. worker' # NULL => WorkerOK'
  BY <1>1, WorkerStays DEF JobsGrow
<1>. QED
  BY <1>1, <1>2, <1>3 DEF IInv

(* A scan finds something, or it finds the baseline.                        *)
LEMMA ChangedSomething ==
    ASSUME NEW from \in Revisions, NEW to \in Revisions, from # to
    PROVE  Changed(from, to) \subseteq Assets /\ Changed(from, to) # {}
<1>1. Changed(from, to) \subseteq Assets
  BY DEF Changed, Revisions
<1>2. SUFFICES ASSUME Changed(from, to) = {} PROVE from = to
  BY <1>1
<1>3. from.dirty = {} /\ to.dirty = {}
  BY <1>2 DEF Changed
<1>4. \A a \in Assets : from.head[a] = to.head[a]
  BY <1>2 DEF Changed
<1>5. from.head = to.head
  BY <1>4 DEF Revisions
<1>. QED
  BY <1>3, <1>5 DEF Revisions

LEMMA FoundTyped ==
    ASSUME IntakeOK, BaseOK, intake.pc = "compare", Found
    PROVE  /\ observed \subseteq observed'
           /\ \A o \in observed' : /\ o.revision \in Revisions
                                   /\ o.changed \subseteq Assets /\ o.changed # {}
                                   /\ o.base \in Nat /\ o.base <= base.number
<1>1. intake.found \in Revisions /\ base.revision \in Revisions /\ base.number \in Nat
  BY DEF IntakeOK, BaseOK, Passed
<1>. DEFINE new == Observation(intake.found)
<1>2. new.revision = intake.found /\ new.base = base.number
      /\ new.changed = Changed(base.revision, intake.found)
  BY DEF Observation
<1>3. intake.found # base.revision => new.changed \subseteq Assets /\ new.changed # {}
  BY <1>1, <1>2, ChangedSomething
<1>4. \/ observed' = observed
      \/ intake.found # base.revision /\ observed' = observed \cup {new}
  BY DEF Found
<1>. HIDE DEF new
<1>. QED
  BY <1>1, <1>2, <1>3, <1>4 DEF IntakeOK

LEMMA ScanStep ==
    ASSUME IInv, Notify \/ StartScan \/ SecondAnswer \/ Observe \/ ScanFails
    PROVE  IInv'
<1>0. Trees /\ IntakeOK /\ BaseOK /\ JobsOK
  BY DEF IInv
<1>1. Revision \in Revisions /\ Revision.dirty \in SUBSET Assets /\ head \in [Assets -> Nat]
  BY <1>0, RevisionTyped DEF Revisions, Trees
<1>s. SUFFICES /\ UNCHANGED <<files, base, acked, state, effects, worker>>
               /\ JobsGrow /\ IntakeOK'
  BY FilesStay, RowsStay, Rest DEF IInv
<1>2. CASE Notify
  <2>1. UNCHANGED <<files, base, observed, acked, state, effects, intake, worker>>
        /\ jobs' = AttachedTo(observed \ acked)
    BY <1>2 DEF Notify, Attached
  <2>2. JobsGrow /\ DOMAIN jobs' = DOMAIN jobs \cup (observed \ acked)
    BY <1>0, <2>1, AttachedGrow
  <2>. QED
    BY <1>0, <2>1, <2>2 DEF IntakeOK
<1>3. CASE StartScan
  <2>1. UNCHANGED <<files, base, observed, acked, state, effects, worker>>
        /\ jobs' = AttachedTo(observed \ acked)
    BY <1>3 DEF StartScan, Attached
  <2>2. JobsGrow /\ DOMAIN jobs' = DOMAIN jobs \cup (observed \ acked)
    BY <1>0, <2>1, AttachedGrow
  <2>3. \/ intake' = [pc |-> "head", head |-> head]
        \/ intake' = [pc |-> "status", dirty |-> Dirty]
    BY <1>3 DEF StartScan
  <2>4. /\ intake'.pc \in {"head", "status"}
        /\ intake'.pc = "head" => intake'.head \in [Assets -> Nat]
        /\ intake'.pc = "status" => intake'.dirty \in SUBSET Assets
    BY <1>1, <2>3 DEF Dirty
  <2>. QED
    BY <1>0, <2>1, <2>2, <2>4 DEF IntakeOK
<1>4. CASE SecondAnswer
  <2>1. UNCHANGED <<files, base, observed, acked, jobs, state, effects, worker>>
    BY <1>4 DEF SecondAnswer, intakeVars
  <2>2. JobsGrow
    BY <1>0, <2>1 DEF JobsGrow, Keeps, JobsOK
  <2>3. \E r \in Revisions : intake' = [pc |-> "compare", found |-> r]
    <3>1. CASE intake.pc = "head"
      <4>1. [head |-> intake.head, dirty |-> Dirty] \in Revisions
        BY <1>0, <1>1, <3>1 DEF IntakeOK, Revisions, Dirty
      <4>. QED
        BY <1>4, <3>1, <4>1 DEF SecondAnswer
    <3>2. CASE intake.pc = "status"
      <4>1. [head |-> head, dirty |-> intake.dirty] \in Revisions
        BY <1>0, <1>1, <3>2 DEF IntakeOK, Revisions
      <4>. QED
        BY <1>4, <3>2, <4>1 DEF SecondAnswer
    <3>. QED
      BY <1>4, <3>1, <3>2 DEF SecondAnswer
  <2>. QED
    BY <1>0, <2>1, <2>2, <2>3 DEF IntakeOK
<1>5. CASE Observe
  <2>1. /\ UNCHANGED <<files, base, acked, state, effects, worker>>
        /\ Found /\ intake.pc = "compare" /\ intake' = [pc |-> "idle"]
        /\ jobs' = AttachedTo(observed' \ acked)
    BY <1>5 DEF Observe
  <2>2. JobsGrow /\ DOMAIN jobs' = DOMAIN jobs \cup (observed' \ acked)
    BY <1>0, <2>1, AttachedGrow
  <2>3. /\ observed \subseteq observed'
        /\ \A o \in observed' : /\ o.revision \in Revisions
                                /\ o.changed \subseteq Assets /\ o.changed # {}
                                /\ o.base \in Nat /\ o.base <= base.number
    BY <1>0, <2>1, FoundTyped
  <2>. QED
    BY <1>0, <2>1, <2>2, <2>3 DEF IntakeOK
<1>6. CASE ScanFails
  <2>1. /\ UNCHANGED <<files, base, observed, acked, state, effects, worker>>
        /\ jobs' = AttachedTo(observed \ acked) /\ intake' = [pc |-> "idle"]
    BY <1>6 DEF ScanFails, Attached, intakeVars
  <2>2. JobsGrow /\ DOMAIN jobs' = DOMAIN jobs \cup (observed \ acked)
    BY <1>0, <2>1, AttachedGrow
  <2>. QED
    BY <1>0, <2>1, <2>2 DEF IntakeOK
<1>. QED
  BY <1>2, <1>3, <1>4, <1>5, <1>6

-----------------------------------------------------------------------------
(* The worker lays a job down.                                              *)

LEMMA RetriedKeeps ==
    ASSUME NEW job \in Job
    PROVE  /\ Retried(job) \in Job
           /\ Retried(job).frozen = job.frozen /\ Retried(job).committed = job.committed
BY DEF Retried, Job

LEMMA LaidDown ==
    ASSUME JobsOK, NEW o \in DOMAIN jobs, NEW job \in Job, jobs' = [jobs EXCEPT ![o] = job],
           job.frozen = jobs[o].frozen, job.committed = jobs[o].committed
    PROVE  JobsGrow /\ DOMAIN jobs' = DOMAIN jobs
<1>1. \A p \in DOMAIN jobs : jobs'[p] = IF p = o THEN job ELSE jobs[p]
  BY DEF JobsOK
<1>2. DOMAIN jobs' = DOMAIN jobs /\ jobs' \in [DOMAIN jobs -> Job]
  BY DEF JobsOK
<1>. QED
  BY <1>1, <1>2 DEF JobsGrow, Keeps

LEMMA FailJobGrow ==
    ASSUME JobsOK, worker.job \in DOMAIN jobs, NEW retryable \in BOOLEAN, FailJob(retryable)
    PROVE  JobsGrow /\ DOMAIN jobs' = DOMAIN jobs /\ worker' = NULL
<1>1. jobs[worker.job] \in Job
  BY DEF JobsOK
<1>. DEFINE job == IF retryable THEN Retried(jobs[worker.job])
                   ELSE [jobs[worker.job] EXCEPT !.status = "FAILED"]
<1>2. job \in Job /\ job.frozen = jobs[worker.job].frozen /\ job.committed = jobs[worker.job].committed
  BY <1>1, RetriedKeeps DEF Job
<1>3. jobs' = [jobs EXCEPT ![worker.job] = job] /\ worker' = NULL
  BY DEF FailJob
<1>. HIDE DEF job
<1>. QED
  BY <1>2, <1>3, LaidDown

LEMMA RestartedGrow ==
    ASSUME IInv, Restarted
    PROVE  JobsGrow /\ DOMAIN jobs' = DOMAIN jobs /\ worker' = NULL /\ intake' = [pc |-> "idle"]
<1>0. JobsOK
  BY DEF IInv
<1>1. CASE worker = NULL
  BY <1>0, <1>1 DEF Restarted, JobsGrow, Keeps, JobsOK
<1>2. CASE worker # NULL
  <2>1. worker.job \in DOMAIN jobs
    BY <1>2 DEF IInv, WorkerOK
  <2>2. jobs[worker.job] \in Job
    BY <1>0, <2>1 DEF JobsOK
  <2>3. jobs' = [jobs EXCEPT ![worker.job] = Retried(jobs[worker.job])]
    BY <1>2 DEF Restarted
  <2>. QED
    BY <1>0, <2>1, <2>2, <2>3, RetriedKeeps, LaidDown DEF Restarted
<1>. QED
  BY <1>1, <1>2
-----------------------------------------------------------------------------
(* The worker at a job.                                                     *)

LEMMA FreezeTyped ==
    ASSUME RowsOK, NEW o
    PROVE  Freeze(o) \in Frozen /\ Freeze(o) # NULL
           /\ DOMAIN Freeze(o) = {a \in Assets : state[a].revision # o.revision}
<1>. DEFINE S == {a \in Assets : state[a].revision # o.revision}
<1>1. Freeze(o) \in [S -> Nat] /\ S \in SUBSET Assets /\ DOMAIN Freeze(o) = S
  BY DEF Freeze, RowsOK, Row
<1>. HIDE DEF S
<1>. QED
  BY <1>1, RevalidationAssumption DEF Frozen, S

(* What had nothing to verify was verified: its revision has been.          *)
LEMMA FreezeOfPast ==
    ASSUME IInv, NEW o \in observed, Requested(o, Freeze(o)) = {}
    PROVE  Passed(o.revision)
<1>1. o.changed \subseteq Assets /\ o.changed # {} /\ o.revision \in Revisions
  BY DEF IInv, IntakeOK
<1>2. PICK a \in Assets : a \in o.changed
  BY <1>1
<1>3. a \notin DOMAIN Freeze(o)
  BY <1>2 DEF Requested
<1>4. state[a].revision = o.revision
  BY <1>3, FreezeTyped DEF IInv
<1>5. o.revision # NULL
  BY <1>1, RevalidationAssumption DEF Revisions
<1>. QED
  BY <1>1, <1>4, <1>5 DEF IInv, RowsOK, Passed

LEMMA ClaimStep ==
    ASSUME IInv, NEW o, Claim(o)
    PROVE  IInv'
<1>. DEFINE frozen == IF jobs[o].frozen = NULL THEN Freeze(o) ELSE jobs[o].frozen
            items == IF jobs[o].committed THEN {} ELSE Requested(o, frozen)
            job == [jobs[o] EXCEPT !.status = "RUNNING", !.attempt = @ + 1, !.frozen = frozen]
            turned == items # {} /\ Revision # o.revision
            row == IF turned THEN Retried(job) ELSE job
<1>0. Trees /\ Recorded /\ IntakeOK /\ BaseOK /\ RowsOK /\ JobsOK
  BY DEF IInv
<1>1. o \in DOMAIN jobs /\ o \in observed /\ jobs[o] \in Job /\ JobOK(o) /\ o.revision \in Revisions
  BY <1>0 DEF Claim, Pending, IntakeOK, JobsOK
<1>2. /\ UNCHANGED <<files, base, observed, acked, state, effects, intake>>
      /\ jobs' = [jobs EXCEPT ![o] = row]
      /\ worker = NULL
      /\ \/ worker' = NULL
         \/ /\ ~turned
            /\ worker' = [job |-> o, pc |-> IF items = {} THEN "verified" ELSE "probe",
                          items |-> [a \in items |-> NULL]]
  BY DEF Claim, intakeVars
<1>3. frozen \in Frozen /\ frozen # NULL
  BY <1>0, <1>1, FreezeTyped DEF Job
<1>. HIDE DEF frozen
<1>4. job \in Job /\ job.frozen = frozen /\ job.committed = jobs[o].committed
  <2>. DEFINE old == jobs[o]
  <2>1. old \in Job
    BY <1>1
  <2>. HIDE DEF old
  <2>2. old.attempt + 1 \in Nat
    BY <2>1 DEF Job
  <2>3. [old EXCEPT !.status = "RUNNING"] \in Job
    BY <2>1 DEF Job
  <2>4. [old EXCEPT !.status = "RUNNING", !.attempt = old.attempt + 1] \in Job
    BY <2>1, <2>2 DEF Job
  <2>5. [old EXCEPT !.status = "RUNNING", !.attempt = old.attempt + 1, !.frozen = frozen] \in Job
    BY <1>3, <2>1, <2>2 DEF Job
  <2>. QED
    BY <2>1, <2>5 DEF Job, old
<1>5. row \in Job /\ row.frozen = frozen /\ row.committed = jobs[o].committed
  BY <1>4, RetriedKeeps
<1>6. items \subseteq Assets
  <2>1. DOMAIN frozen \subseteq Assets
    BY <1>3 DEF Frozen
  <2>. QED
    BY <2>1 DEF Requested
<1>7. Requested(o, frozen) = {} => Passed(o.revision)
  BY <1>1, FreezeOfPast DEF JobOK, frozen
<1>. HIDE DEF row, job, turned
<1>8. /\ DOMAIN jobs' = DOMAIN jobs /\ jobs' \in [DOMAIN jobs' -> Job]
      /\ \A p \in DOMAIN jobs : jobs'[p] = IF p = o THEN row ELSE jobs[p]
  BY <1>0, <1>2, <1>5 DEF JobsOK
<1>9. Forward /\ Revision' = Revision /\ Trees' /\ Recorded'
  BY <1>0, <1>2, FilesStay DEF Forward
<1>10. \A r : Passed(r)' <=> Passed(r)
  BY <1>9 DEF Passed, NoEarlier
<1>11. ASSUME NEW p \in DOMAIN jobs PROVE JobOK(p)'
  <2>1. JobOK(p)
    BY <1>0, <1>11 DEF JobsOK
  <2>2. CASE p # o
    <3>1. jobs'[p] = jobs[p]
      BY <1>8, <1>11, <2>2
    <3>. QED
      BY <1>2, <1>10, <2>1, <3>1 DEF JobOK, Decided
  <2>3. CASE p = o
    <3>1. jobs'[p].frozen = frozen /\ jobs'[p].committed = jobs[p].committed
      BY <1>5, <1>8, <1>11, <2>3
    <3>2. jobs[p].committed => frozen = jobs[p].frozen
      BY <2>1, <2>3 DEF JobOK, frozen
    <3>. QED
      BY <1>2, <1>3, <1>7, <1>10, <2>1, <2>3, <3>1, <3>2 DEF JobOK, Decided
  <2>. QED
    BY <2>2, <2>3
<1>12. JobsOK'
  BY <1>0, <1>2, <1>5, <1>8, <1>11 DEF JobsOK
<1>13. worker' # NULL => WorkerOK'
  <2>. SUFFICES ASSUME worker' # NULL PROVE WorkerOK'
    OBVIOUS
  <2>1. /\ ~turned
        /\ worker' = [job |-> o, pc |-> IF items = {} THEN "verified" ELSE "probe",
                      items |-> [a \in items |-> NULL]]
    BY <1>2
  <2>2. /\ worker'.job = o /\ worker'.items = [a \in items |-> NULL]
        /\ worker'.pc = (IF items = {} THEN "verified" ELSE "probe")
        /\ DOMAIN worker' = {"job", "pc", "items"} /\ Items' = items
    BY <2>1 DEF Items
  <2>3. jobs'[o].frozen = frozen /\ jobs'[o].committed = jobs[o].committed
    BY <1>1, <1>5, <1>8
  <2>4. items = IF jobs'[o].committed THEN {} ELSE Requested(o, jobs'[o].frozen)
    BY <2>3
  <2>5. items # {} => o.revision = Revision
    BY <2>1 DEF turned
  <2>6. items # {} => Bound'
    <3>. SUFFICES ASSUME items # {} PROVE Bound'
      OBVIOUS
    <3>1. o.revision = Revision /\ Passed(Revision)
      BY <1>0, <2>5, RevisionTyped
    <3>2. Passed(o.revision)' /\ NoEarlier(base.revision, o.revision)
      BY <1>0, <1>10, <3>1 DEF BaseOK, Passed
    <3>3. \A a \in Assets : NoEarlier(state[a].revision, o.revision)
      BY <1>0, <3>1 DEF RowsOK, NoEarlier
    <3>. QED
      BY <1>2, <2>2, <3>2, <3>3 DEF Bound, Passed
  <2>7. ASSUME NEW a \in items PROVE Evidence(a)'
    BY <2>2, <2>7 DEF Evidence
  <2>8. worker'.items \in [items -> Item \cup {NULL}]
    BY <2>2
  <2>. HIDE DEF items
  <2>9. worker'.pc = "verified" => items = {}
    BY <2>2
  <2>. QED
    BY <1>1, <1>3, <1>6, <1>8, <2>2, <2>3, <2>4, <2>6, <2>7, <2>8, <2>9 DEF WorkerOK
<1>14. RowsOK' /\ BaseOK' /\ IntakeOK'
  BY <1>0, <1>2, <1>8, <1>9, RowsStay, BaseStays, IntakeStays
<1>. QED
  BY <1>9, <1>12, <1>13, <1>14 DEF IInv

LEMMA ProbeStep ==
    ASSUME IInv, NEW a \in Assets, Probe(a)
    PROVE  IInv'
<1>0. Trees /\ Recorded /\ WorkerOK
  BY DEF IInv, Probe, Working
<1>1. /\ UNCHANGED <<files, base, observed, acked, jobs, state, effects, intake>>
      /\ worker # NULL /\ worker.pc = "probe" /\ a \in Items
  BY DEF Probe, intakeVars, Working
<1>2. PICK item : /\ item \in Item /\ item.seen = tree[a]
                  /\ worker' = [worker EXCEPT !.items[a] = item]
  <2>1. tree[a] \in Nat /\ Verdict(a) \in Verdicts
    BY <1>0 DEF Trees, Verdict, Verdicts
  <2>2. [seen |-> tree[a], verdict |-> Verdict(a)] \in Item
        /\ [seen |-> tree[a], verdict |-> "UNKNOWN"] \in Item
    BY <2>1 DEF Item, Verdicts
  <2>. QED
    BY <2>2 DEF Probe
<1>3. /\ DOMAIN worker' = {"job", "pc", "items"}
      /\ worker'.job = worker.job /\ worker'.pc = "probe" /\ Items' = Items
      /\ worker'.items \in [Items -> Item \cup {NULL}]
      /\ \A b \in Items : worker'.items[b] = IF b = a THEN item ELSE worker.items[b]
  BY <1>0, <1>1, <1>2 DEF WorkerOK, Items
<1>4. Forward /\ Trees' /\ Recorded' /\ Revision' = Revision
  BY <1>0, <1>1, FilesStay DEF Forward
<1>5. jobs \in [DOMAIN jobs -> Job] /\ \A o \in DOMAIN jobs : Keeps(o)
  BY <1>1 DEF IInv, JobsOK, Keeps
<1>6. JobsOK' /\ RowsOK' /\ BaseOK' /\ IntakeOK'
  BY <1>1, <1>4, <1>5, JobsStay, RowsStay, BaseStays, IntakeStays DEF IInv
<1>7. Bound => Bound'
  BY <1>1, <1>3, <1>4 DEF Bound, Passed, NoEarlier
<1>8. ASSUME NEW b \in Items PROVE Evidence(b)'
  <2>1. CASE b = a
    <3>1. /\ worker.job.revision \in Revisions /\ Revision \in Revisions
          /\ NoEarlier(worker.job.revision, Revision)
      BY <1>0, <1>1, RevisionTyped DEF WorkerOK, Bound, Passed
    <3>2. PICK h \in history : h.revision = Revision /\ h.tree[a] = tree[a]
      BY <1>0, SeenNow DEF SeenAt
    <3>3. NoEarlier(Revision, Revision)
      BY <1>0, RevisionTyped DEF Passed
    <3>4. /\ h \in history' /\ Revision' = Revision /\ worker'.items[a].seen = tree[a]
          /\ worker'.job = worker.job /\ worker'.pc = "probe"
      BY <1>1, <1>2, <1>3, <1>4, <2>1 DEF files
    <3>. QED
      BY <2>1, <3>1, <3>2, <3>3, <3>4 DEF Evidence, NoEarlier, Position
  <2>2. CASE b # a
    <3>1. Evidence(b)
      BY <1>0, <1>8 DEF WorkerOK
    <3>2. /\ history' = history /\ Revision' = Revision /\ worker'.items[b] = worker.items[b]
          /\ worker'.job = worker.job /\ worker'.pc = worker.pc
      BY <1>1, <1>3, <1>4, <1>8, <2>2 DEF files
    <3>. QED
      BY <3>1, <3>2 DEF Evidence, NoEarlier, Position, SeenAt
  <2>. QED
    BY <2>1, <2>2
<1>9. WorkerOK'
  BY <1>0, <1>1, <1>3, <1>7, <1>8 DEF WorkerOK
<1>. QED
  BY <1>4, <1>6, <1>9 DEF IInv

LEMMA CaptureStep ==
    ASSUME IInv, CaptureAfter
    PROVE  IInv'
<1>0. Trees /\ Recorded /\ WorkerOK /\ JobsOK
  BY DEF IInv, CaptureAfter, Working
<1>1. /\ UNCHANGED <<files, base, observed, acked, state, effects, intake>>
      /\ worker # NULL /\ worker.pc = "probe" /\ \A a \in Items : worker.items[a] # NULL
  BY DEF CaptureAfter, intakeVars, Working
<1>2. CASE Revision # worker.job.revision
  <2>1. FailJob(TRUE) /\ worker.job \in DOMAIN jobs
    BY <1>0, <1>2 DEF CaptureAfter, WorkerOK
  <2>2. JobsGrow /\ DOMAIN jobs' = DOMAIN jobs /\ worker' = NULL
    BY <1>0, <2>1, FailJobGrow
  <2>3. IntakeOK' /\ RowsOK'
    BY <1>0, <1>1, <2>2, FilesStay, RowsStay, IntakeStays DEF IInv
  <2>. QED
    BY <1>1, <2>2, <2>3, Rest
<1>3. CASE Revision = worker.job.revision
  <2>1. worker' = [worker EXCEPT !.pc = "verified"] /\ jobs' = jobs
    BY <1>3 DEF CaptureAfter
  <2>2. /\ DOMAIN worker' = {"job", "pc", "items"} /\ worker'.job = worker.job
        /\ worker'.pc = "verified" /\ worker'.items = worker.items /\ Items' = Items
    BY <1>0, <2>1 DEF WorkerOK, Items
  <2>3. Forward /\ Trees' /\ Recorded' /\ Revision' = Revision
    BY <1>0, <1>1, FilesStay DEF Forward
  <2>4. jobs \in [DOMAIN jobs -> Job] /\ \A o \in DOMAIN jobs : Keeps(o)
    BY <1>0, <2>1 DEF JobsOK, Keeps
  <2>5. JobsOK' /\ RowsOK' /\ BaseOK' /\ IntakeOK'
    BY <1>1, <2>1, <2>3, <2>4, JobsStay, RowsStay, BaseStays, IntakeStays DEF IInv
  <2>6. Bound => Bound'
    BY <1>1, <2>2, <2>3 DEF Bound, Passed, NoEarlier
  <2>7. ASSUME NEW a \in Items PROVE Evidence(a)'
    <3>1. Evidence(a) /\ worker.items[a] # NULL /\ Passed(worker.job.revision)
      BY <1>0, <1>1, <2>7 DEF WorkerOK, Bound
    <3>2. PICK h \in history : /\ h.tree[a] = worker.items[a].seen
                              /\ NoEarlier(worker.job.revision, h.revision)
                              /\ NoEarlier(h.revision, Revision)
      BY <1>1, <3>1 DEF Evidence
    <3>3. h.revision = worker.job.revision
      <4>1. h.revision \in Revisions /\ worker.job.revision \in Revisions
        BY <1>0, <3>1 DEF Recorded, Passed
      <4>. QED
        BY <1>3, <3>2, <4>1, Antisymmetric
    <3>4. SeenAt(worker.job.revision, a, worker.items[a].seen)
      BY <3>2, <3>3 DEF SeenAt
    <3>5. history' = history
      BY <1>1 DEF files
    <3>. QED
      BY <2>2, <3>4, <3>5 DEF Evidence, SeenAt
  <2>8. WorkerOK'
    BY <1>0, <1>1, <2>1, <2>2, <2>6, <2>7 DEF WorkerOK
  <2>. QED
    BY <2>3, <2>5, <2>8 DEF IInv
<1>. QED
  BY <1>2, <1>3
LEMMA Written ==
    ASSUME IInv, worker # NULL, worker.pc = "verified", UNCHANGED files,
           NEW S \in SUBSET Items, Transitions(S)
    PROVE  /\ RowsOK' /\ effects \subseteq effects'
           /\ \A a \in S : Effect(a) \in effects'
           /\ \A a \in Assets :
                 /\ state'[a].version = state[a].version
                 /\ \/ state'[a].revision = state[a].revision
                    \/ a \in Items /\ state'[a].revision = worker.job.revision
<1>0. Trees /\ Recorded /\ RowsOK /\ IntakeOK /\ WorkerOK
  BY DEF IInv
<1>1. state \in [Assets -> Row] /\ Items \subseteq Assets /\ Revision' = Revision
  BY <1>0, FilesStay DEF RowsOK, WorkerOK
<1>2. ASSUME NEW a \in Items
      PROVE  /\ worker.items[a] \in Item /\ Passed(worker.job.revision)
             /\ SeenAt(worker.job.revision, a, worker.items[a].seen)
  BY <1>0, <1>2 DEF WorkerOK, Bound, Evidence
<1>. DEFINE New(a) == [state[a] EXCEPT !.status = worker.items[a].verdict, !.seen = worker.items[a].seen,
                                       !.revision = worker.job.revision]
<1>3. ASSUME NEW a \in Items
      PROVE  /\ New(a) \in Row /\ New(a).version = state[a].version
             /\ New(a).seen = worker.items[a].seen /\ New(a).revision = worker.job.revision
  <2>1. state[a] \in Row
    BY <1>1, <1>3
  <2>2. /\ worker.items[a].verdict \in Verdicts /\ worker.items[a].seen \in Nat
        /\ worker.job.revision \in Revisions \cup {NULL}
    BY <1>2, <1>3 DEF Item, Passed
  <2>. QED
    BY <2>1, <2>2 DEF Row
<1>4. ASSUME NEW a \in Assets
      PROVE  state'[a] = state[a] \/ (a \in Items /\ state'[a] = New(a))
  BY <1>4 DEF Transitions
<1>5. state' = [a \in Assets |-> state'[a]]
  BY DEF Transitions
<1>. HIDE DEF New
<1>6. state' \in [Assets -> Row]
  <2>1. \A a \in Assets : state'[a] \in Row
    BY <1>1, <1>3, <1>4
  <2>. QED
    BY <1>5, <2>1
<1>7. ASSUME NEW a \in Assets, state'[a].revision # NULL
      PROVE  /\ NoEarlier(state'[a].revision, Revision')
             /\ SeenAt(state'[a].revision, a, state'[a].seen)
  <2>1. CASE state'[a] = state[a]
    BY <1>0, <1>1, <1>7, <2>1 DEF RowsOK
  <2>2. CASE a \in Items /\ state'[a] = New(a)
    BY <1>1, <1>2, <1>3, <2>2 DEF Passed
  <2>. QED
    BY <1>4, <2>1, <2>2
<1>8. RowsOK'
  BY <1>6, <1>7 DEF RowsOK, SeenAt, files
<1>9. effects \subseteq effects' /\ \A a \in S : Effect(a) \in effects'
  BY DEF Transitions
<1>. QED
  BY <1>3, <1>4, <1>8, <1>9

LEMMA WriteStep ==
    ASSUME IInv, WritePage
    PROVE  IInv'
<1>. DEFINE o == worker.job
<1>0. Trees /\ Recorded /\ WorkerOK /\ JobsOK /\ IntakeOK
  BY DEF IInv, WritePage, Working
<1>1. /\ UNCHANGED <<files, base, observed, acked, intake>>
      /\ worker # NULL /\ worker.pc = "verified"
  BY DEF WritePage, intakeVars, Working
<1>2. o \in DOMAIN jobs /\ jobs[o] \in Job /\ JobOK(o) /\ jobs[o].frozen # NULL
  BY <1>0 DEF WorkerOK, JobsOK
<1>3. CASE {a \in Items : Contradicts(a)} # {}
  <2>1. FailJob(TRUE) /\ UNCHANGED <<state, effects>>
    BY <1>3 DEF WritePage
  <2>2. JobsGrow /\ DOMAIN jobs' = DOMAIN jobs /\ worker' = NULL
    BY <1>0, <1>2, <2>1, FailJobGrow
  <2>3. IntakeOK' /\ RowsOK'
    BY <1>0, <1>1, <2>1, <2>2, FilesStay, RowsStay, IntakeStays DEF IInv
  <2>. QED
    BY <1>1, <2>1, <2>2, <2>3, Rest
<1>4. CASE {a \in Items : Contradicts(a)} = {}
  <2>1. /\ Transitions(Items)
        /\ jobs' = [jobs EXCEPT ![o].committed = TRUE]
        /\ worker' = [worker EXCEPT !.pc = "acknowledge"]
    BY <1>4 DEF WritePage
  <2>2. RowsOK' /\ effects \subseteq effects' /\ \A a \in Items : Effect(a) \in effects'
    BY <1>1, <2>1, Written
  <2>3. Forward /\ Trees' /\ Recorded' /\ Revision' = Revision
    BY <1>0, <1>1, FilesStay DEF Forward
  <2>4. /\ DOMAIN jobs' = DOMAIN jobs /\ jobs' \in [DOMAIN jobs' -> Job]
        /\ jobs'[o].frozen = jobs[o].frozen /\ jobs'[o].committed
        /\ \A p \in DOMAIN jobs : p # o => jobs'[p] = jobs[p]
    <3>. DEFINE new == [jobs[o] EXCEPT !.committed = TRUE]
    <3>1. new \in Job /\ new.frozen = jobs[o].frozen /\ new.committed
      BY <1>2 DEF Job
    <3>2. jobs' = [jobs EXCEPT ![o] = new]
      BY <2>1
    <3>. HIDE DEF new
    <3>. QED
      BY <1>0, <1>2, <3>1, <3>2 DEF JobsOK
  <2>5. ASSUME NEW p \in DOMAIN jobs, p # o PROVE JobOK(p)'
    <3>1. JobOK(p) /\ jobs'[p] = jobs[p]
      BY <1>0, <2>4, <2>5 DEF JobsOK
    <3>2. Passed(p.revision)' <=> Passed(p.revision)
      BY <2>3 DEF Passed, NoEarlier
    <3>3. Decided(p) => Decided(p)'
      BY <2>2, <3>1 DEF Decided
    <3>. QED
      BY <1>1, <3>1, <3>2, <3>3 DEF JobOK
  <2>6. /\ Passed(o.revision)
        /\ Requested(o, jobs[o].frozen) # {} /\ o.base = base.number => NoEarlier(base.revision, o.revision)
    <3>1. CASE Items # {}
      BY <1>0, <1>1, <3>1 DEF WorkerOK, Bound
    <3>2. CASE Items = {} /\ jobs[o].committed
      BY <1>2, <3>2 DEF JobOK
    <3>3. CASE Items = {} /\ ~jobs[o].committed
      <4>1. Requested(o, jobs[o].frozen) = {}
        BY <1>0, <1>1, <3>3 DEF WorkerOK
      <4>. QED
        BY <1>2, <4>1 DEF JobOK
    <3>. QED
      BY <3>1, <3>2, <3>3
  <2>7. ASSUME NEW a \in Requested(o, jobs[o].frozen)
        PROVE  \E e \in effects' : e.job = o /\ e.asset = a /\ e.version = jobs[o].frozen[a]
    <3>1. CASE jobs[o].committed
      BY <1>2, <2>2, <2>7, <3>1 DEF JobOK, Decided
    <3>2. CASE ~jobs[o].committed
      <4>1. a \in Items
        BY <1>0, <1>1, <2>7, <3>2 DEF WorkerOK
      <4>2. Effect(a) \in effects'
        BY <2>2, <4>1
      <4>3. Effect(a).job = o /\ Effect(a).asset = a /\ Effect(a).version = jobs[o].frozen[a]
        BY DEF Effect
      <4>. QED
        BY <4>2, <4>3
    <3>. QED
      BY <3>1, <3>2
  <2>8. PICK k \in DOMAIN jobs : k = o
    BY <1>2
  <2>9. JobOK(k)'
    <3>1. /\ jobs'[k].frozen = jobs[k].frozen /\ jobs'[k].committed /\ jobs[k].frozen # NULL
          /\ Passed(k.revision)
          /\ Requested(k, jobs[k].frozen) # {} /\ k.base = base.number => NoEarlier(base.revision, k.revision)
          /\ \A a \in Requested(k, jobs[k].frozen) :
                \E e \in effects' : e.job = k /\ e.asset = a /\ e.version = jobs[k].frozen[a]
      BY <1>2, <2>4, <2>6, <2>7, <2>8
    <3>2. Passed(k.revision)'
      BY <2>3, <3>1 DEF Passed, NoEarlier
    <3>3. Decided(k)'
      BY <3>1 DEF Decided
    <3>. QED
      BY <1>1, <3>1, <3>2, <3>3 DEF JobOK
  <2>10. JobsOK'
    <3>1. \A p \in DOMAIN jobs' : JobOK(p)'
      BY <2>4, <2>5, <2>8, <2>9
    <3>2. \A p \in acked : jobs'[p].committed
      BY <1>0, <2>4 DEF JobsOK, IntakeOK
    <3>. QED
      BY <1>1, <2>4, <3>1, <3>2 DEF JobsOK
  <2>11. BaseOK' /\ IntakeOK'
    BY <1>1, <2>3, <2>4, BaseStays, IntakeStays DEF IInv
  <2>12. WorkerOK'
    <3>1. /\ DOMAIN worker' = {"job", "pc", "items"} /\ worker'.job = o
          /\ worker'.pc = "acknowledge" /\ worker'.items = worker.items /\ Items' = Items
      BY <1>0, <2>1 DEF WorkerOK, Items
    <3>2. \A a \in Items : Evidence(a)'
      BY <3>1 DEF Evidence
    <3>. QED
      BY <1>0, <1>2, <2>4, <3>1, <3>2 DEF WorkerOK
  <2>. QED
    BY <2>2, <2>3, <2>10, <2>11, <2>12 DEF IInv
<1>. QED
  BY <1>3, <1>4

LEMMA AcknowledgeStep ==
    ASSUME IInv, Acknowledge
    PROVE  IInv'
<1>. DEFINE o == worker.job
<1>0. Trees /\ Recorded /\ WorkerOK /\ JobsOK /\ IntakeOK /\ RowsOK /\ BaseOK
  BY DEF IInv, Acknowledge, Working
<1>1. /\ UNCHANGED <<files, observed, state, effects, intake>>
      /\ worker # NULL /\ worker.pc = "acknowledge"
  BY DEF Acknowledge, Working
<1>2. /\ o \in DOMAIN jobs /\ JobOK(o) /\ jobs[o].committed
      /\ o.base \in Nat /\ o \in observed /\ jobs[o].frozen # NULL
  BY <1>0, <1>1 DEF WorkerOK, JobsOK, IntakeOK
<1>3. Forward /\ Trees' /\ Recorded' /\ Revision' = Revision
  BY <1>0, <1>1, FilesStay DEF Forward
<1>4. ASSUME ~(o \in acked), base.number # o.base PROVE IInv'
  <2>1. FailJob(FALSE) /\ UNCHANGED <<base, acked>>
    BY <1>4 DEF Acknowledge
  <2>2. JobsGrow /\ DOMAIN jobs' = DOMAIN jobs /\ worker' = NULL
    BY <1>0, <1>2, <2>1, FailJobGrow
  <2>3. IntakeOK' /\ RowsOK'
    BY <1>0, <1>1, <1>3, <2>1, <2>2, RowsStay, IntakeStays
  <2>. QED
    BY <1>1, <2>1, <2>2, <2>3, Rest
<1>5. ASSUME worker' = [worker EXCEPT !.pc = "done"], UNCHANGED jobs PROVE WorkerOK'
  <2>1. /\ DOMAIN worker' = {"job", "pc", "items"} /\ worker'.job = o
        /\ worker'.pc = "done" /\ worker'.items = worker.items /\ Items' = Items
    BY <1>0, <1>5 DEF WorkerOK, Items
  <2>2. \A a \in Items : Evidence(a)'
    BY <2>1 DEF Evidence
  <2>. QED
    BY <1>0, <1>2, <1>5, <2>1, <2>2 DEF WorkerOK
<1>6. ASSUME o \in acked PROVE IInv'
  <2>1. worker' = [worker EXCEPT !.pc = "done"] /\ UNCHANGED <<base, acked, jobs>>
    BY <1>6 DEF Acknowledge
  <2>2. jobs' \in [DOMAIN jobs' -> Job] /\ \A p \in DOMAIN jobs : Keeps(p)
    BY <1>0, <2>1 DEF JobsOK, Keeps
  <2>3. JobsOK' /\ RowsOK' /\ BaseOK' /\ IntakeOK'
    BY <1>0, <1>1, <1>3, <2>1, <2>2, JobsStay, RowsStay, BaseStays, IntakeStays
  <2>. QED
    BY <1>3, <1>5, <2>1, <2>3 DEF IInv
<1>7. ASSUME ~(o \in acked), base.number = o.base PROVE IInv'
  <2>1. /\ base' = [number |-> o.base + 1, revision |-> o.revision]
        /\ acked' = acked \cup {o} /\ worker' = [worker EXCEPT !.pc = "done"] /\ UNCHANGED jobs
    BY <1>7 DEF Acknowledge
  <2>2. base'.number = o.base + 1 /\ base'.revision = o.revision
    BY <2>1
  <2>3. BaseOK'
    BY <1>2, <1>3, <2>2 DEF BaseOK, JobOK, Passed, NoEarlier
  <2>4. IntakeOK'
    BY <1>0, <1>1, <1>2, <1>7, <2>1, <2>2 DEF IntakeOK
  <2>5. ASSUME NEW p \in DOMAIN jobs PROVE JobOK(p)'
    <3>1. p.base # base'.number /\ JobOK(p)
      BY <1>0, <1>2, <1>7, <2>2, <2>5 DEF IntakeOK, JobsOK
    <3>2. Passed(p.revision)' <=> Passed(p.revision)
      BY <1>3 DEF Passed, NoEarlier
    <3>. QED
      BY <1>1, <2>1, <3>1, <3>2 DEF JobOK, Decided
  <2>6. JobsOK'
    BY <1>0, <1>2, <2>1, <2>5 DEF JobsOK
  <2>7. RowsOK'
    BY <1>0, <1>1, <1>3, RowsStay
  <2>. QED
    BY <1>3, <1>5, <2>1, <2>3, <2>4, <2>6, <2>7 DEF IInv
<1>. QED
  BY <1>4, <1>6, <1>7

LEMMA SucceedStep ==
    ASSUME IInv, Succeed
    PROVE  IInv'
<1>0. Trees /\ Recorded /\ WorkerOK /\ JobsOK /\ IntakeOK /\ RowsOK
  BY DEF IInv, Succeed, Working
<1>1. UNCHANGED <<files, base, observed, acked, state, effects, intake>> /\ worker' = NULL
  BY DEF Succeed, intakeVars
<1>. DEFINE new == [jobs[worker.job] EXCEPT !.status = "SUCCEEDED"]
<1>2. worker.job \in DOMAIN jobs /\ jobs[worker.job] \in Job
  BY <1>0 DEF WorkerOK, JobsOK
<1>3. new \in Job /\ new.frozen = jobs[worker.job].frozen /\ new.committed = jobs[worker.job].committed
  BY <1>2 DEF Job
<1>4. jobs' = [jobs EXCEPT ![worker.job] = new]
  BY DEF Succeed
<1>. HIDE DEF new
<1>5. JobsGrow /\ DOMAIN jobs' = DOMAIN jobs
  BY <1>0, <1>2, <1>3, <1>4, LaidDown
<1>6. IntakeOK' /\ RowsOK'
  BY <1>0, <1>1, <1>5, FilesStay, RowsStay, IntakeStays
<1>. QED
  BY <1>1, <1>5, <1>6, Rest

LEMMA CrashStep ==
    ASSUME IInv, Crash \/ CrashObserved \/ CrashWriting
    PROVE  IInv'
<1>0. Trees /\ Recorded /\ IntakeOK /\ RowsOK /\ BaseOK
  BY DEF IInv
<1>1. JobsGrow /\ DOMAIN jobs' = DOMAIN jobs /\ worker' = NULL /\ intake' = [pc |-> "idle"]
  BY RestartedGrow DEF Crash, CrashObserved, CrashWriting
<1>2. CASE Crash
  <2>1. UNCHANGED <<files, base, observed, acked, state, effects>>
    BY <1>2 DEF Crash, intakeVars
  <2>2. IntakeOK' /\ RowsOK'
    BY <1>0, <1>1, <2>1, FilesStay, RowsStay DEF IntakeOK
  <2>. QED
    BY <1>1, <2>1, <2>2, Rest
<1>3. CASE CrashObserved
  <2>1. UNCHANGED <<files, base, acked, state, effects>> /\ Found /\ intake.pc = "compare"
    BY <1>3 DEF CrashObserved
  <2>2. IntakeOK' /\ RowsOK'
    BY <1>0, <1>1, <2>1, FilesStay, RowsStay, FoundTyped DEF IntakeOK
  <2>. QED
    BY <1>1, <2>1, <2>2, Rest
<1>4. CASE CrashWriting
  <2>1. /\ UNCHANGED <<files, base, observed, acked>> /\ worker # NULL /\ worker.pc = "verified"
        /\ \E S \in SUBSET Items : Transitions(S)
    BY <1>4 DEF CrashWriting, intakeVars, Working
  <2>2. RowsOK' /\ effects \subseteq effects'
    BY <2>1, Written
  <2>3. IntakeOK'
    BY <1>0, <1>1, <2>1 DEF IntakeOK
  <2>. QED
    BY <1>1, <2>1, <2>2, <2>3, Rest
<1>. QED
  BY <1>2, <1>3, <1>4
-----------------------------------------------------------------------------
(* A project that has been watched and verified satisfies the invariant.    *)
THEOREM Initially == Init => IInv
<1>. SUFFICES ASSUME Init PROVE IInv
  OBVIOUS
<1>1. head = [a \in Assets |-> 0] /\ tree = head /\ history = {Was(head, tree)}
  BY DEF Init
<1>2. Trees
  BY <1>1 DEF Trees
<1>3. /\ Revision.head = head /\ Revision.dirty = {}
      /\ Was(head, tree).tree = tree /\ Was(head, tree).revision = Revision
  BY <1>1 DEF Revision, RevisionOf, Was
<1>5. Recorded
  BY <1>1, <1>2, <1>3, RevisionTyped DEF Recorded
<1>6. Revision \in Revisions /\ Passed(Revision)
  BY <1>2, RevisionTyped
<1>7. BaseOK
  BY <1>6 DEF Init, BaseOK
<1>8. IntakeOK /\ JobsOK
  <2>1. /\ jobs = [o \in {} |-> NULL] /\ acked = {} /\ observed = {}
        /\ intake = [pc |-> "idle"]
    BY DEF Init
  <2>2. DOMAIN jobs = {} /\ jobs \in [DOMAIN jobs -> Job]
    BY <2>1
  <2>. QED
    BY <2>1, <2>2 DEF IntakeOK, JobsOK
<1>9. RowsOK
  <2>. DEFINE row == [version |-> 1, status |-> "FRESH", seen |-> 0, revision |-> Revision]
  <2>1. row \in Row /\ row.seen = 0 /\ row.revision = Revision
    BY <1>6 DEF Row, Verdicts
  <2>2. state = [a \in Assets |-> row]
    BY DEF Init
  <2>. HIDE DEF row
  <2>3. \A a \in Assets : SeenAt(Revision, a, 0)
    BY <1>1, <1>5, SeenNow
  <2>. QED
    BY <1>6, <2>1, <2>2, <2>3 DEF RowsOK, Passed
<1>10. worker = NULL
  BY DEF Init
<1>. QED
  BY <1>2, <1>5, <1>7, <1>8, <1>9, <1>10 DEF IInv

(* Every step keeps it: the developer's, git's answers, the worker's, a crash *)
(* between any two of them.                                                 *)
THEOREM StepKeeps == IInv /\ [Next]_vars => IInv'
<1>. SUFFICES ASSUME IInv, [Next]_vars PROVE IInv'
  OBVIOUS
<1>1. ASSUME NEW a \in Assets, Edit(a) \/ Pull(a) PROVE IInv'
  BY <1>1, DeveloperStep DEF Developed
<1>2. ASSUME NEW a \in Assets, Publish(a) PROVE IInv'
  BY <1>2, PublishStep
<1>3. CASE Commit
  BY <1>3, DeveloperStep DEF Developed
<1>4. CASE Notify \/ Scan \/ ScanFails
  BY <1>4, ScanStep DEF Scan
<1>5. CASE ClaimAny
  BY <1>5, ClaimStep DEF ClaimAny
<1>6. CASE Work
  BY <1>6, ProbeStep, CaptureStep, WriteStep, AcknowledgeStep, SucceedStep DEF Work
<1>7. CASE Crash \/ CrashObserved \/ CrashWriting
  BY <1>7, CrashStep
<1>8. CASE UNCHANGED vars
  <2>1. UNCHANGED <<files, base, observed, acked, jobs, state, effects, intake, worker>>
    BY <1>8 DEF vars, intakeVars
  <2>2. JobsGrow /\ RowsOK' /\ IntakeOK'
    BY <2>1, FilesStay, RowsStay DEF IInv, JobsGrow, Keeps, JobsOK, IntakeOK
  <2>. QED
    BY <2>1, <2>2, Rest
<1>. QED
  BY <1>1, <1>2, <1>3, <1>4, <1>5, <1>6, <1>7, <1>8 DEF Next

THEOREM AlwaysSound == Spec => []IInv
BY Initially, StepKeeps, PTL DEF Spec

(* What the gate lets through was verified against its file as a tree of that *)
(* revision had it, whatever was edited, committed and pulled between the    *)
(* capture before the probe, the probe, the capture after it and the write:  *)
(* KnowledgeRevalidation's EvidenceMatches. It rests on a developer who       *)
(* takes no edit back, as all of that module.                               *)
THEOREM EvidenceMatchesHolds == Spec => []EvidenceMatches
<1>1. IInv => EvidenceMatches
  <2>. SUFFICES ASSUME IInv, NEW a \in Assets, Eligible(a)
                PROVE  \E h \in history : h.revision = live /\ h.tree[a] = state[a].seen
    BY DEF EvidenceMatches
  <2>1. state[a].revision = live /\ state[a].revision # NULL
    BY DEF Eligible
  <2>. QED
    BY <2>1 DEF IInv, RowsOK, SeenAt
<1>. QED
  BY <1>1, AlwaysSound, PTL

(* A baseline is acknowledged only with an outcome for every frozen target   *)
(* the change asks for, whatever was retried or died: AcknowledgedIsDecided. *)
THEOREM AcknowledgedIsDecidedHolds == Spec => []AcknowledgedIsDecided
<1>1. IInv => AcknowledgedIsDecided
  <2>. SUFFICES ASSUME IInv, NEW o \in acked
                PROVE  \A a \in Requested(o, jobs[o].frozen) :
                          \E e \in effects : e.job = o /\ e.asset = a /\ e.version = jobs[o].frozen[a]
    BY DEF AcknowledgedIsDecided
  <2>1. o \in DOMAIN jobs /\ jobs[o].committed /\ JobOK(o)
    BY DEF IInv, IntakeOK, JobsOK
  <2>. QED
    BY <2>1 DEF JobOK, Decided
<1>. QED
  BY <1>1, AlwaysSound, PTL
-----------------------------------------------------------------------------
(* What a step does to the rows and the baseline.                           *)

RowsAhead ==
    \A a \in Assets : state'[a].version = state[a].version =>
        NoEarlier(state[a].revision, state'[a].revision)

BaseAhead ==
    base' # base /\ Requested(worker.job, jobs[worker.job].frozen) # {} =>
        NoEarlier(base.revision, base'.revision)

LEMMA SameIsNoEarlier ==
    ASSUME NEW r \in Revisions \cup {NULL}
    PROVE  NoEarlier(r, r)
BY Measured DEF NoEarlier

LEMMA RowsUntouched ==
    ASSUME RowsOK, UNCHANGED state
    PROVE  RowsAhead
BY SameIsNoEarlier DEF RowsOK, Row, RowsAhead

LEMMA RowsForward ==
    ASSUME IInv, Next
    PROVE  RowsAhead
<1>0. RowsOK /\ state \in [Assets -> Row]
  BY DEF IInv, RowsOK
<1>1. ASSUME NEW a \in Assets, Edit(a) \/ Pull(a) PROVE UNCHANGED state
  BY <1>1 DEF Edit, Pull, Works
<1>2. ASSUME NEW a \in Assets, Publish(a) PROVE RowsAhead
  <2>1. \A b \in Assets : b # a => state'[b] = state[b]
    BY <1>0, <1>2 DEF Publish
  <2>2. state'[a].version = state[a].version + 1 /\ state[a].version \in Nat
    BY <1>0, <1>2 DEF Publish, Row
  <2>3. \A b \in Assets : state[b].revision \in Revisions \cup {NULL}
    BY <1>0 DEF Row
  <2>. QED
    BY <2>1, <2>2, <2>3, SameIsNoEarlier DEF RowsAhead
<1>3. CASE Commit \/ Notify \/ Scan \/ ScanFails
  BY <1>0, <1>3, RowsUntouched DEF Commit, Works, Notify, Scan, StartScan, SecondAnswer, Observe, ScanFails
<1>4. CASE ClaimAny \/ CaptureAfter \/ Acknowledge \/ Succeed \/ \E a \in Assets : Probe(a)
  BY <1>0, <1>4, RowsUntouched DEF ClaimAny, Claim, CaptureAfter, Acknowledge, Succeed, Probe
<1>5. CASE Crash \/ CrashObserved
  BY <1>0, <1>5, RowsUntouched DEF Crash, CrashObserved
<1>6. ASSUME worker # NULL, worker.pc = "verified", UNCHANGED files,
             NEW S \in SUBSET Items, Transitions(S)
      PROVE  RowsAhead
  <2>1. \A a \in Assets :
          \/ state'[a].revision = state[a].revision
          \/ a \in Items /\ state'[a].revision = worker.job.revision
    BY <1>6, Written
  <2>2. Items # {} => \A a \in Assets : NoEarlier(state[a].revision, worker.job.revision)
    BY <1>6 DEF IInv, WorkerOK, Bound
  <2>3. \A a \in Assets : state[a].revision \in Revisions \cup {NULL}
    BY <1>0 DEF Row
  <2>. QED
    BY <2>1, <2>2, <2>3, SameIsNoEarlier DEF RowsAhead
<1>7. CASE WritePage
  <2>1. worker # NULL /\ worker.pc = "verified" /\ UNCHANGED files
    BY <1>7 DEF WritePage, Working
  <2>2. Transitions(Items) \/ UNCHANGED state
    BY <1>7 DEF WritePage
  <2>. QED
    BY <1>0, <1>6, <2>1, <2>2, RowsUntouched
<1>8. CASE CrashWriting
  <2>1. /\ worker # NULL /\ worker.pc = "verified" /\ UNCHANGED files
        /\ \E S \in SUBSET Items : Transitions(S)
    BY <1>8 DEF CrashWriting, Working
  <2>. QED
    BY <1>6, <2>1
<1>. QED
  BY <1>0, <1>1, <1>2, <1>3, <1>4, <1>5, <1>7, <1>8, RowsUntouched DEF Next, Work

LEMMA BaseForward ==
    ASSUME IInv, Next
    PROVE  BaseAhead
<1>1. ASSUME NEW a \in Assets, Edit(a) \/ Pull(a) \/ Publish(a) PROVE UNCHANGED base
  BY <1>1 DEF Edit, Pull, Works, Publish, intakeVars
<1>2. CASE Commit \/ Notify \/ Scan \/ ScanFails
  BY <1>2 DEF Commit, Works, Notify, Scan, StartScan, SecondAnswer, Observe, ScanFails, intakeVars, BaseAhead
<1>3. CASE ClaimAny \/ CaptureAfter \/ WritePage \/ Succeed \/ \E a \in Assets : Probe(a)
  BY <1>3 DEF ClaimAny, Claim, CaptureAfter, WritePage, Succeed, Probe, intakeVars, BaseAhead
<1>4. CASE Crash \/ CrashObserved \/ CrashWriting
  BY <1>4 DEF Crash, CrashObserved, CrashWriting, intakeVars, BaseAhead
<1>5. CASE Acknowledge
  <2>1. WorkerOK /\ JobsOK /\ worker.pc = "acknowledge"
    BY <1>5 DEF IInv, Acknowledge, Working
  <2>2. jobs[worker.job].committed /\ JobOK(worker.job)
    BY <2>1 DEF WorkerOK, JobsOK
  <2>3. \/ UNCHANGED base
        \/ /\ base.number = worker.job.base
           /\ base' = [number |-> worker.job.base + 1, revision |-> worker.job.revision]
    BY <1>5 DEF Acknowledge
  <2>. QED
    BY <2>2, <2>3 DEF BaseAhead, JobOK
<1>. QED
  BY <1>1, <1>2, <1>3, <1>4, <1>5 DEF Next, Work, BaseAhead

(* Observations are verified in any order, late or twice, and no file goes    *)
(* back in the rows or, by a job that verified anything, in the baseline.    *)
THEOREM NeverBackwardsHolds == Spec => NeverBackwards
<1>1. IInv /\ [Next]_vars => [RowsAhead /\ BaseAhead]_vars
  BY RowsForward, BaseForward
<1>2. [RowsAhead /\ BaseAhead]_vars =>
      [/\ \A a \in Assets : state'[a].version = state[a].version =>
              NoEarlier(state[a].revision, state'[a].revision)
       /\ base' # base /\ Requested(worker.job, jobs[worker.job].frozen) # {} =>
              NoEarlier(base.revision, base'.revision)]_vars
  BY DEF RowsAhead, BaseAhead
<1>. QED
  BY <1>1, <1>2, AlwaysSound, PTL DEF Spec, NeverBackwards
=============================================================================
