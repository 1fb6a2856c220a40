------------------------ MODULE KnowledgePublicationProofs ------------------------
(* Proofs about KnowledgePublication for any number of knowledge jobs, commands, *)
(* versions, attempts and faults.                                               *)
EXTENDS KnowledgePublication, TLAPS

(* What a row asks for: the version after the one it was planned against, never *)
(* further ahead of current.md than one, and a document of its own.             *)
RowOK(t) ==
    LET row == task[t] IN
    /\ row.version <= CurrentVersion + 1
    /\ row.version # 0 => row.doc \in Text /\ row.doc.by = t /\ row.expected = row.version - 1
    /\ t \in Works /\ row.version # 0 => row.stage >= 2 /\ ~row.doc.tomb
    /\ t \in Operations => (row.status = "ABSENT" <=> row.version = 0)

(* current.md is the newest version or the one before it, and there is no gap.  *)
Files ==
    /\ current # NULL => versions[current.version] = current.doc
    /\ \A n \in 1..MaxVersion : /\ n <= CurrentVersion => versions[n] # NULL
                                /\ n > CurrentVersion + 1 => versions[n] = NULL

(* Every version but the one there was in the beginning is the one its author   *)
(* asked for.                                                                   *)
Attributed ==
    \A n \in 1..MaxVersion : versions[n] # NULL =>
        LET by == versions[n].by IN
        IF by = NULL THEN n = 1
        ELSE task[by].version = n /\ task[by].doc = versions[n] /\ task[by].stage >= 2

Published(t) == task[t].version <= CurrentVersion /\ versions[task[t].version] = task[t].doc

(* What a task in progress knows where it is: about to link, that current.md is *)
(* still the version before or that the link will be refused; about to rename,  *)
(* that the version is its own; past the stages, that their effects are there.  *)
PlaceOK(t) ==
    LET row == task[t] IN
    /\ t \in Operations /\ run[t] # NULL => row.version # 0
    /\ Doing(t, "plan") => t \in Works /\ row.stage = 1
    /\ Doing(t, "publish") \/ Doing(t, "link") \/ Doing(t, "rename") => row.stage = 2 /\ row.version # 0
    /\ Doing(t, "link") => \/ CurrentVersion = row.version - 1
                           \/ versions[row.version] \notin {NULL, row.doc}
    /\ Doing(t, "rename") => CurrentVersion = row.version - 1 /\ versions[row.version] = row.doc
    /\ Doing(t, "sync") \/ Doing(t, "compare") \/ Doing(t, "replace") =>
          row.stage = IF t \in Works THEN 5 ELSE 4
    /\ row.version # 0 /\ (row.stage >= 3 \/ (row.stage = 2 /\ Doing(t, "done"))) => Published(t)
    /\ row.version # 0 /\ t \in Works /\ (row.stage = 5 \/ (row.stage = 4 /\ Doing(t, "done"))) =>
          row.version <= fresh
    /\ row.status = "COMPLETED" => row.stage = 5

(* A suppression that can still be published, or is current.md.                 *)
Pending(o) ==
    /\ task[o].version # 0 /\ task[o].doc.tomb /\ task[o].version = CurrentVersion + 1
    /\ task[o].stage >= 2 \/ run[o] # NULL
Suppressing == (current # NULL /\ current.doc.tomb) \/ \E o \in Operations : Pending(o)

(* An exclusion whose owner will not release it: it has not been published, or  *)
(* is a suppression itself.                                                     *)
Held == excluded # NULL /\ (~Published(excluded) \/ task[excluded].doc.tomb)
Excluding ==
    /\ excluded # NULL => task[excluded].version # 0
    /\ Suppressing => Held

Rows == \A t \in Tasks : RowOK(t)
Places == \A t \in Tasks : PlaceOK(t)

IInv == TypeOK /\ Rows /\ Files /\ Attributed /\ Places /\ Excluding

-----------------------------------------------------------------------------
(* Helpers.                                                                     *)

LEMMA Numbers ==
    ASSUME TypeOK
    PROVE  /\ CurrentVersion \in 0..MaxVersion /\ MaxVersion \in Nat \ {0}
           /\ current = NULL => CurrentVersion = 0
           /\ current # NULL => CurrentVersion = current.version /\ current \in Edition
                                /\ current.version \in 1..MaxVersion /\ current.doc \in Text
BY PublicationAssumption DEF TypeOK, CurrentVersion, Edition

LEMMA StageNames ==
    ASSUME NEW t \in Tasks, NEW s \in 1..5
    PROVE  /\ StageName(t, s) = "PLAN" <=> t \in Works /\ s = 1
           /\ StageName(t, s) = "MARKDOWN" <=> s = 2
           /\ StageName(t, s) = "INDEX" <=> s = IF t \in Works THEN 5 ELSE 4
           /\ StageName(t, s) = "FRESHNESS" <=> t \in Works /\ s = 4
           /\ StageName(t, s) = "EXCLUDE" <=> t \notin Works /\ s = 1
           /\ StageName(t, s) = "FINALIZE" <=> t \notin Works /\ s = 5
<1>1. s = 1 \/ s = 2 \/ s = 3 \/ s = 4 \/ s = 5
  OBVIOUS
<1>. QED
  BY <1>1 DEF StageName, WorkStages, OperationStages

(* What the catch of execute keeps of a row.                                    *)
Same(row, old) ==
    /\ row.version = old.version /\ row.doc = old.doc /\ row.expected = old.expected

LEMMA FailedRow ==
    ASSUME NEW row \in Row, NEW t \in Tasks, NEW retryable \in BOOLEAN
    PROVE  /\ Failed(row, t, retryable) \in Row /\ Same(Failed(row, t, retryable), row)
           /\ Failed(row, t, retryable).stage = row.stage
           /\ Failed(row, t, retryable).status \notin {"ABSENT", "COMPLETED"}
<1>. DEFINE status == IF ~retryable \/ row.attempts >= StageAttempts THEN "FAILED"
                      ELSE IF t \in Works THEN "RETRYABLE" ELSE "DEGRADED"
<1>1. status \in {"FAILED", "RETRYABLE", "DEGRADED"}
  OBVIOUS
<1>2. Failed(row, t, retryable) = [row EXCEPT !.retryable = retryable, !.status = status]
  BY DEF Failed
<1>. HIDE DEF status
<1>3. [row EXCEPT !.retryable = retryable] \in Row
  BY DEF Row
<1>4. [row EXCEPT !.retryable = retryable, !.status = status] \in Row
  BY <1>1, <1>3 DEF Row
<1>5. /\ Same([row EXCEPT !.retryable = retryable, !.status = status], row)
      /\ [row EXCEPT !.retryable = retryable, !.status = status].stage = row.stage
      /\ [row EXCEPT !.retryable = retryable, !.status = status].status = status
  BY DEF Same, Row
<1>. QED
  BY <1>1, <1>2, <1>4, <1>5

(* A process is where its call has got to.                                      *)
LEMMA AtPlace ==
    ASSUME TypeOK, NEW t \in Tasks,
           NEW pc \in {"plan", "publish", "link", "rename", "sync", "compare", "replace", "done"},
           run' = [run EXCEPT ![t] = At(pc)]
    PROVE  /\ run' \in [Tasks -> Process \cup {NULL}]
           /\ \A q : Doing(t, q)' => q = pc
           /\ \A u \in Tasks : u # t => run'[u] = run[u]
<1>1. At(pc) \in Process /\ At(pc).pc = pc
  BY DEF At, Process
<1>2. run \in [Tasks -> Process \cup {NULL}]
  BY DEF TypeOK
<1>3. run' \in [Tasks -> Process \cup {NULL}] /\ run'[t] = At(pc)
      /\ \A u \in Tasks : u # t => run'[u] = run[u]
  BY <1>1, <1>2
<1>. QED
  BY <1>1, <1>3 DEF Doing

LEMMA AtRest ==
    ASSUME TypeOK, NEW t \in Tasks, run' = [run EXCEPT ![t] = NULL]
    PROVE  /\ run' \in [Tasks -> Process \cup {NULL}] /\ run'[t] = NULL
           /\ \A q : ~Doing(t, q)'
           /\ \A u \in Tasks : u # t => run'[u] = run[u]
<1>1. run \in [Tasks -> Process \cup {NULL}]
  BY DEF TypeOK
<1>2. run' \in [Tasks -> Process \cup {NULL}] /\ run'[t] = NULL
      /\ \A u \in Tasks : u # t => run'[u] = run[u]
  BY <1>1
<1>. QED
  BY <1>2 DEF Doing

(* One task moves and the files stay: the others keep what they knew.           *)
LEMMA OneMoves ==
    ASSUME IInv, UNCHANGED files, NEW t \in Tasks, NEW row \in Row,
           task' = [task EXCEPT ![t] = row],
           \A u \in Tasks : u # t => run'[u] = run[u],
           \/ task[t].version = 0
           \/ Same(row, task[t]) /\ row.stage >= task[t].stage,
           fresh' \in Nat, fresh' >= fresh,
           RowOK(t)', PlaceOK(t)'
    PROVE  /\ task' \in [Tasks -> Row] /\ Rows' /\ Files' /\ Attributed' /\ Places'
           /\ CurrentVersion' = CurrentVersion
<1>0. TypeOK /\ Rows /\ Files /\ Attributed /\ Places
  BY DEF IInv
<1>1. UNCHANGED <<versions, current>> /\ CurrentVersion' = CurrentVersion
  BY DEF files, CurrentVersion
<1>2. /\ task \in [Tasks -> Row] /\ task' \in [Tasks -> Row] /\ task'[t] = row
      /\ \A u \in Tasks : u # t => task'[u] = task[u]
  BY <1>0 DEF TypeOK
<1>3. Rows'
  <2>. SUFFICES ASSUME NEW u \in Tasks, u # t PROVE RowOK(u)'
    BY DEF Rows
  <2>1. RowOK(u) /\ task'[u] = task[u]
    BY <1>0, <1>2 DEF Rows
  <2>. QED
    BY <1>1, <2>1 DEF RowOK
<1>4. Files'
  BY <1>0, <1>1 DEF Files
<1>5. Attributed'
  <2>. SUFFICES ASSUME NEW n \in 1..MaxVersion, versions[n] # NULL, versions[n].by # NULL
                PROVE  /\ task'[versions[n].by].version = n
                       /\ task'[versions[n].by].doc = versions[n]
                       /\ task'[versions[n].by].stage >= 2
    BY <1>0, <1>1 DEF Attributed
  <2>1. versions[n].by \in Tasks
    BY <1>0 DEF TypeOK, Text
  <2>2. /\ task[versions[n].by].version = n /\ task[versions[n].by].doc = versions[n]
        /\ task[versions[n].by].stage >= 2
    BY <1>0 DEF Attributed
  <2>3. CASE versions[n].by # t
    BY <1>2, <2>1, <2>2, <2>3
  <2>4. CASE versions[n].by = t
    <3>1. Same(row, task[t]) /\ row.stage >= task[t].stage
      BY <2>2, <2>4
    <3>2. row.stage \in Nat /\ task[t].stage \in Nat
      BY <1>2 DEF Row
    <3>. QED
      BY <1>2, <2>2, <2>4, <3>1, <3>2 DEF Same
  <2>. QED
    BY <2>3, <2>4
<1>6. Places'
  <2>. SUFFICES ASSUME NEW u \in Tasks, u # t PROVE PlaceOK(u)'
    BY DEF Places
  <2>1. PlaceOK(u) /\ task'[u] = task[u] /\ run'[u] = run[u]
    BY <1>0, <1>2 DEF Places
  <2>2. fresh \in Nat /\ task[u].version \in Nat
    BY <1>0, <1>2, PublicationAssumption DEF TypeOK, Row
  <2>. QED
    BY <1>1, <2>1, <2>2 DEF PlaceOK, Doing, Published
<1>. QED
  BY <1>1, <1>2, <1>3, <1>4, <1>5, <1>6

(* The same for what is excluded.                                               *)
LEMMA NobodySuppresses ==
    ASSUME IInv, UNCHANGED files, NEW t \in Tasks, NEW row \in Row,
           task' = [task EXCEPT ![t] = row],
           \A u \in Tasks : u # t => run'[u] = run[u],
           Same(row, task[t]), row.stage >= task[t].stage,
           t \in Operations => \/ task[t].stage >= 2 \/ run[t] # NULL
                               \/ row.stage = 1 /\ run'[t] = NULL
    PROVE  /\ Suppressing' => Suppressing
           /\ \A u \in Tasks : /\ task'[u].version = task[u].version /\ task'[u].doc = task[u].doc
                               /\ Published(u)' <=> Published(u)
           /\ excluded' = excluded => Excluding'
<1>0. TypeOK /\ Excluding
  BY DEF IInv
<1>1. UNCHANGED <<versions, current>> /\ CurrentVersion' = CurrentVersion
  BY DEF files, CurrentVersion
<1>2. /\ task \in [Tasks -> Row] /\ task'[t] = row
      /\ \A u \in Tasks : u # t => task'[u] = task[u]
  BY <1>0 DEF TypeOK
<1>3. ASSUME NEW u \in Tasks
      PROVE  task'[u].version = task[u].version /\ task'[u].doc = task[u].doc
  BY <1>2 DEF Same
<1>4. ASSUME NEW u \in Tasks
      PROVE  Published(u)' <=> Published(u)
  BY <1>1, <1>3 DEF Published
<1>5. ASSUME NEW o \in Operations, Pending(o)'
      PROVE  Pending(o)
  <2>1. o \in Tasks
    BY DEF Tasks
  <2>2. /\ task[o].version # 0 /\ task[o].doc.tomb /\ task[o].version = CurrentVersion + 1
        /\ task'[o].stage >= 2 \/ run'[o] # NULL
    BY <1>1, <1>3, <1>5, <2>1 DEF Pending
  <2>3. task[o].stage >= 2 \/ run[o] # NULL
    <3>1. CASE o # t
      BY <1>2, <2>1, <2>2, <3>1
    <3>2. CASE o = t
      BY <1>2, <2>2, <3>2 DEF Row
    <3>. QED
      BY <3>1, <3>2
  <2>. QED
    BY <2>2, <2>3 DEF Pending
<1>6. Suppressing' => Suppressing
  BY <1>1, <1>5 DEF Suppressing
<1>7. ASSUME excluded' = excluded
      PROVE  Excluding'
  <2>1. excluded # NULL => excluded \in Tasks
    BY <1>0 DEF TypeOK, Tasks
  <2>. QED
    BY <1>0, <1>3, <1>4, <1>6, <1>7, <2>1 DEF Excluding, Held
<1>. QED
  BY <1>3, <1>4, <1>6, <1>7

(* An exclusion is always taken before its document can be published.           *)
LEMMA Excludes ==
    ASSUME NEW t \in Operations, excluded' = t, task'[t].version # 0, ~Published(t)'
    PROVE  Excluding'
<1>1. t # NULL
  BY PublicationAssumption DEF Tasks
<1>. QED
  BY <1>1 DEF Excluding, Held

-----------------------------------------------------------------------------
(* The stages.                                                                  *)

(* A stage begins: it is not refused, or refused and saved as failed.           *)
LEMMA EnterStep ==
    ASSUME IInv, NEW t \in Tasks, NEW row \in Row, Enter(t, row),
           Same(row, task[t]), row.stage >= task[t].stage,
           row.status # "COMPLETED",
           t \in Operations => row.version # 0 /\ row.status # "ABSENT",
           t \in Operations => task[t].stage >= 2 \/ run[t] # NULL \/ row.stage = 1,
           row.version # 0 /\ row.stage >= 3 => Published(t),
           row.version # 0 /\ row.stage = 5 /\ t \in Works => row.version <= fresh
    PROVE  IInv'
<1>0. TypeOK /\ Rows /\ Files /\ Attributed /\ Places /\ Excluding
  BY DEF IInv
<1>. DEFINE stage == StageName(t, row.stage)
            pc == CASE stage = "PLAN" -> "plan"
                    [] stage = "MARKDOWN" /\ row.version # 0 -> "publish"
                    [] stage = "INDEX" /\ row.version # 0 -> "sync"
                    [] OTHER -> "done"
            stored == Stored(row.version, row.doc)
            projects == stage = "REGISTRY" /\ row.version # 0
            refreshes == stage = "FRESHNESS" /\ row.version # 0
            refused == \/ projects /\ ~Projectable(stored)
                       \/ refreshes /\ ~Refreshable(row.version)
            kept == IF refused THEN Failed(row, t, TRUE) ELSE row
<1>1. /\ task' = [task EXCEPT ![t] = kept]
      /\ run' = [run EXCEPT ![t] = IF refused THEN NULL ELSE At(pc)]
      /\ registry' = IF projects /\ ~refused THEN stored ELSE registry
      /\ fresh' = IF refreshes /\ ~refused THEN row.version ELSE fresh
      /\ excluded' = CASE stage = "EXCLUDE" -> t
                       [] stage = "FINALIZE" -> Included(t, row.doc)
                       [] OTHER -> excluded
      /\ UNCHANGED <<files, faults>>
  BY DEF Enter
<1>2. row.stage \in 1..5 /\ row.version \in 0..MaxVersion /\ task[t].stage \in 1..5
  BY <1>0 DEF Row, TypeOK
<1>3. /\ stage = "PLAN" <=> t \in Works /\ row.stage = 1
      /\ stage = "MARKDOWN" <=> row.stage = 2
      /\ stage = "INDEX" <=> row.stage = IF t \in Works THEN 5 ELSE 4
      /\ stage = "FRESHNESS" <=> t \in Works /\ row.stage = 4
      /\ stage = "EXCLUDE" <=> t \notin Works /\ row.stage = 1
      /\ stage = "FINALIZE" <=> t \notin Works /\ row.stage = 5
  BY <1>2, StageNames
<1>4. /\ pc \in {"plan", "publish", "sync", "done"}
      /\ pc = "plan" => stage = "PLAN"
      /\ pc = "publish" => stage = "MARKDOWN" /\ row.version # 0
      /\ pc = "sync" => stage = "INDEX"
      /\ pc = "done" => row.version = 0 \/ stage \notin {"PLAN", "MARKDOWN", "INDEX"}
  <2>. HIDE DEF stage
  <2>. QED
    OBVIOUS
<1>5. /\ fresh' \in Nat /\ fresh' >= fresh /\ fresh' \in 0..MaxVersion
      /\ row.version # 0 /\ t \in Works /\ row.stage = 4 /\ ~refused => fresh' = row.version
  <2>1. fresh \in 0..MaxVersion /\ MaxVersion \in Nat
    BY <1>0, PublicationAssumption DEF TypeOK
  <2>2. CASE refreshes /\ ~refused
    <3>1. row.version \in {fresh, fresh + 1}
      BY <2>2 DEF Refreshable
    <3>. QED
      BY <1>1, <1>2, <2>1, <2>2, <3>1
  <2>3. CASE ~(refreshes /\ ~refused)
    BY <1>1, <1>3, <2>1, <2>3
  <2>. QED
    BY <2>2, <2>3
<1>6. registry' \in Edition \cup {NULL}
  <2>1. row.version # 0 => stored \in Edition
    <3>. SUFFICES ASSUME row.version # 0 PROVE stored \in Edition
      OBVIOUS
    <3>1. row.doc \in Text
      BY <1>0 DEF Rows, RowOK, Same
    <3>. QED
      BY <1>2, <3>1, PublicationAssumption DEF Stored, Edition
  <2>. QED
    BY <1>0, <1>1, <2>1 DEF TypeOK
<1>7. excluded' \in Operations \cup {NULL}
  <2>1. stage = "EXCLUDE" => t \in Operations
    BY <1>3 DEF Tasks
  <2>2. Included(t, row.doc) \in {excluded, NULL}
    BY DEF Included
  <2>. HIDE DEF stage
  <2>. QED
    BY <1>0, <1>1, <2>1, <2>2 DEF TypeOK
<1>8. /\ kept \in Row /\ Same(kept, row) /\ kept.stage = row.stage
      /\ kept.status # "COMPLETED" /\ (t \in Operations => kept.status # "ABSENT")
  <2>1. TRUE \in BOOLEAN
    OBVIOUS
  <2>2. Same(row, row)
    BY DEF Same
  <2>. HIDE DEF refused
  <2>. QED
    BY <2>1, <2>2, FailedRow
<1>9. /\ run' \in [Tasks -> Process \cup {NULL}]
      /\ \A u \in Tasks : u # t => run'[u] = run[u]
      /\ \A q : Doing(t, q)' => q = pc /\ ~refused
  <2>. HIDE DEF pc, refused
  <2>1. CASE refused
    BY <1>0, <1>1, <2>1, AtRest
  <2>2. CASE ~refused
    BY <1>0, <1>1, <1>4, <2>2, AtPlace
  <2>. QED
    BY <2>1, <2>2
<1>. HIDE DEF stage, pc, stored, projects, refreshes, refused, kept
<1>10. /\ Same(kept, task[t]) /\ kept.stage >= task[t].stage
       /\ kept.version = row.version /\ kept.doc = row.doc
  BY <1>8 DEF Same
<1>11. UNCHANGED files /\ UNCHANGED <<versions, current>> /\ CurrentVersion' = CurrentVersion
  BY <1>1 DEF files, CurrentVersion
<1>12. task'[t] = kept
  BY <1>0, <1>1 DEF TypeOK
<1>13. RowOK(t)'
  BY <1>0, <1>8, <1>10, <1>11, <1>12, <1>2 DEF Rows, RowOK, Same
<1>14. PlaceOK(t)'
  <2>1. Published(t)' <=> Published(t)
    BY <1>10, <1>11, <1>12 DEF Published, Same
  <2>2. fresh \in Nat
    BY <1>0 DEF TypeOK
  <2>3. row.version # 0 /\ t \in Works /\ row.stage = 5 => row.version <= fresh'
    BY <1>2, <1>5, <2>2
  <2>4. row.version # 0 /\ t \in Works /\ row.stage = 4 /\ ~refused => row.version <= fresh'
    BY <1>2, <1>5
  <2>. QED
    BY <1>2, <1>3, <1>4, <1>8, <1>9, <1>10, <1>12, <2>1, <2>3, <2>4 DEF PlaceOK
<1>15. /\ task' \in [Tasks -> Row] /\ Rows' /\ Files' /\ Attributed' /\ Places'
  BY <1>1, <1>5, <1>8, <1>9, <1>10, <1>11, <1>13, <1>14, OneMoves
<1>16. TypeOK'
  BY <1>0, <1>1, <1>5, <1>6, <1>7, <1>9, <1>11, <1>15 DEF TypeOK
<1>17. Excluding'
  <2>1. CASE stage = "EXCLUDE"
    <3>1. t \in Operations /\ excluded' = t /\ row.stage = 1 /\ row.version # 0
      BY <1>1, <1>3, <2>1 DEF Tasks
    <3>2. task[t].stage = 1
      BY <1>2, <3>1
    <3>3. ~Published(t)
      <4>. SUFFICES ASSUME Published(t) PROVE FALSE
        OBVIOUS
      <4>1. task[t].version = row.version /\ task[t].version \in 1..MaxVersion
        BY <1>2, <3>1 DEF Same
      <4>2. /\ versions[task[t].version] = task[t].doc
            /\ task[t].doc \in Text /\ task[t].doc.by = t
        BY <1>0, <4>1 DEF Published, Rows, RowOK
      <4>3. versions[task[t].version] # NULL /\ t # NULL
        BY <4>2, PublicationAssumption
      <4>4. task[t].stage >= 2
        BY <1>0, <4>1, <4>2, <4>3 DEF Attributed
      <4>. QED
        BY <3>2, <4>4
    <3>4. ~Published(t)' /\ task'[t].version # 0
      BY <1>10, <1>11, <1>12, <3>1, <3>3 DEF Published, Same
    <3>. QED
      BY <3>1, <3>4, Excludes
  <2>2. CASE stage # "EXCLUDE"
    <3>1. t \in Operations => \/ task[t].stage >= 2 \/ run[t] # NULL
                              \/ kept.stage = 1 /\ run'[t] = NULL
      BY <1>3, <2>2, PublicationAssumption
    <3>2. /\ Suppressing' => Suppressing
          /\ excluded' = excluded => Excluding'
      BY <1>1, <1>8, <1>9, <1>10, <1>11, <3>1, NobodySuppresses
    <3>3. excluded' # excluded =>
             /\ t \notin Works /\ row.stage = 5 /\ excluded = t /\ ~row.doc.tomb
             /\ excluded' = NULL
      BY <1>1, <1>3, <2>2 DEF Included
    <3>4. ASSUME excluded' # excluded PROVE ~Suppressing
      <4>1. t \in Operations /\ excluded = t /\ row.version # 0
        BY <3>3, <3>4 DEF Tasks
      <4>2. Published(t) /\ ~task[t].doc.tomb
        BY <3>3, <3>4, <4>1 DEF Same
      <4>. QED
        BY <1>0, <4>1, <4>2 DEF Excluding, Held
    <3>. QED
      BY <3>2, <3>3, <3>4 DEF Excluding
  <2>. QED
    BY <2>1, <2>2
<1>. QED
  BY <1>15, <1>16, <1>17 DEF IInv

(* A task stops with a failure, or has its row changed while it rests: it       *)
(* keeps what it asked for and where it was.                                    *)
LEMMA RestStep ==
    ASSUME IInv, NEW t \in Tasks, NEW row \in Row,
           task' = [task EXCEPT ![t] = row], Same(row, task[t]), row.stage = task[t].stage,
           \/ run' = [run EXCEPT ![t] = NULL]
           \/ UNCHANGED run,
           t \in Operations => row.status # "ABSENT" /\ task[t].version # 0,
           row.status = "COMPLETED" => row.stage = 5,
           UNCHANGED <<files, fresh, excluded>>, faults' \in 0..MaxFaults,
           registry' \in Edition \cup {NULL}
    PROVE  IInv'
<1>0. TypeOK /\ Rows /\ Places
  BY DEF IInv
<1>1. UNCHANGED <<versions, current, fresh, excluded>> /\ UNCHANGED files
      /\ CurrentVersion' = CurrentVersion
  BY DEF files, CurrentVersion
<1>2. /\ task[t] \in Row /\ task'[t] = row /\ fresh \in Nat
      /\ row.version = task[t].version /\ row.doc = task[t].doc /\ row.expected = task[t].expected
  BY <1>0 DEF TypeOK, Same
<1>3. row.stage \in Nat /\ row.stage >= task[t].stage
  BY <1>2 DEF Row
<1>4. /\ run' \in [Tasks -> Process \cup {NULL}]
      /\ \A u \in Tasks : u # t => run'[u] = run[u]
      /\ run'[t] \in {NULL, run[t]}
      /\ \A q : Doing(t, q)' => Doing(t, q)
  <2>1. CASE run' = [run EXCEPT ![t] = NULL]
    BY <1>0, <2>1, AtRest
  <2>2. CASE UNCHANGED run
    BY <1>0, <2>2 DEF TypeOK, Doing
  <2>. QED
    BY <2>1, <2>2
<1>5. RowOK(t)'
  BY <1>0, <1>1, <1>2, <1>3 DEF Rows, RowOK
<1>6. PlaceOK(t)'
  <2>1. PlaceOK(t)
    BY <1>0 DEF Places
  <2>2. Published(t)' <=> Published(t)
    BY <1>1, <1>2 DEF Published
  <2>. QED
    BY <1>1, <1>2, <1>3, <1>4, <2>1, <2>2 DEF PlaceOK
<1>7. /\ task' \in [Tasks -> Row] /\ Rows' /\ Files' /\ Attributed' /\ Places'
  <2>1. fresh' \in Nat /\ fresh' >= fresh
    BY <1>1, <1>2
  <2>. QED
    BY <1>1, <1>2, <1>3, <1>4, <1>5, <1>6, <2>1, OneMoves
<1>8. TypeOK'
  BY <1>0, <1>1, <1>4, <1>7 DEF TypeOK
<1>9. Excluding'
  <2>1. t \in Operations => \/ task[t].stage >= 2 \/ run[t] # NULL
                            \/ row.stage = 1 /\ run'[t] = NULL
    BY <1>2, <1>3, <1>4 DEF Row
  <2>. QED
    BY <1>1, <1>3, <1>4, <2>1, NobodySuppresses
<1>. QED
  BY <1>7, <1>8, <1>9 DEF IInv

(* A task goes on to another call of its stage.                                 *)
LEMMA GoesStep ==
    ASSUME IInv, NEW t \in Tasks, run[t] # NULL,
           \A u \in Tasks : u # t => run'[u] = run[u],
           run' \in [Tasks -> Process \cup {NULL}],
           UNCHANGED <<task, files, fresh, excluded, faults>>, registry' \in Edition \cup {NULL},
           PlaceOK(t)'
    PROVE  IInv'
<1>0. TypeOK /\ Rows /\ Places /\ task[t] \in Row /\ fresh \in Nat
  BY DEF IInv, TypeOK
<1>1. UNCHANGED <<versions, current>> /\ CurrentVersion' = CurrentVersion
  BY DEF files, CurrentVersion
<1>2. task' = [task EXCEPT ![t] = task[t]] /\ Same(task[t], task[t]) /\ task[t].stage >= task[t].stage
  BY <1>0 DEF TypeOK, Same, Row
<1>3. RowOK(t)'
  BY <1>0, <1>1 DEF Rows, RowOK
<1>4. /\ task' \in [Tasks -> Row] /\ Rows' /\ Files' /\ Attributed' /\ Places'
  <2>1. fresh' \in Nat /\ fresh' >= fresh
    BY <1>0
  <2>. QED
    BY <1>0, <1>2, <1>3, <2>1, OneMoves
<1>5. Excluding'
  BY <1>0, <1>2, NobodySuppresses
<1>6. TypeOK'
  BY <1>0, <1>1, <1>4 DEF TypeOK
<1>. QED
  BY <1>4, <1>5, <1>6 DEF IInv

LEMMA FailsStep ==
    ASSUME IInv, NEW t \in Tasks, run[t] # NULL, NEW retryable \in BOOLEAN, Fails(t, retryable),
           UNCHANGED <<files, fresh, excluded>>, faults' \in 0..MaxFaults,
           registry' \in Edition \cup {NULL}
    PROVE  IInv'
<1>1. /\ task[t] \in Row /\ task \in [Tasks -> Row]
      /\ t \in Operations => task[t].version # 0
  BY DEF IInv, TypeOK, Places, PlaceOK
<1>2. /\ task' = [task EXCEPT ![t] = Failed(task[t], t, retryable)]
      /\ run' = [run EXCEPT ![t] = NULL]
  BY <1>1 DEF Fails
<1>3. /\ Failed(task[t], t, retryable) \in Row /\ Same(Failed(task[t], t, retryable), task[t])
      /\ Failed(task[t], t, retryable).stage = task[t].stage
      /\ Failed(task[t], t, retryable).status \notin {"ABSENT", "COMPLETED"}
  BY <1>1, FailedRow
<1>. QED
  BY <1>1, <1>2, <1>3, RestStep

LEMMA AdvanceStep ==
    ASSUME IInv, NEW t \in Tasks, Advance(t)
    PROVE  IInv'
<1>0. TypeOK /\ Rows /\ Places /\ PlaceOK(t)
  BY DEF IInv, Places
<1>1. /\ Doing(t, "done") /\ run[t] # NULL /\ task[t] \in Row
      /\ t \in Operations => task[t].version # 0
  BY <1>0 DEF Advance, Doing, TypeOK, PlaceOK
<1>2. CASE task[t].stage = 5
  <2>1. /\ task' = [task EXCEPT ![t].status = "COMPLETED"]
        /\ run' = [run EXCEPT ![t] = NULL]
        /\ UNCHANGED <<files, registry, fresh, excluded, faults>>
    BY <1>2 DEF Advance
  <2>. DEFINE row == [task[t] EXCEPT !.status = "COMPLETED"]
  <2>2. row \in Row /\ Same(row, task[t]) /\ row.stage = task[t].stage /\ row.status = "COMPLETED"
    BY <1>1 DEF Row, Same
  <2>3. task' = [task EXCEPT ![t] = row]
    BY <1>0, <2>1 DEF TypeOK
  <2>4. faults' \in 0..MaxFaults /\ registry' \in Edition \cup {NULL}
    BY <1>0, <2>1 DEF TypeOK
  <2>. HIDE DEF row
  <2>. QED
    BY <1>1, <1>2, <2>1, <2>2, <2>3, <2>4, RestStep
<1>3. CASE task[t].stage # 5
  <2>. DEFINE row == [task[t] EXCEPT !.stage = @ + 1, !.attempts = 1]
  <2>1. task[t].stage \in 1..4
    BY <1>1, <1>3 DEF Row
  <2>2. [task[t] EXCEPT !.stage = @ + 1] \in Row
    BY <1>1, <2>1 DEF Row
  <2>3. row \in Row
    BY <1>1, <2>2 DEF Row
  <2>4. Same(row, task[t]) /\ row.stage = task[t].stage + 1 /\ row.status = task[t].status
    BY <1>1 DEF Row, Same
  <2>5. Enter(t, row)
    BY <1>3 DEF Advance
  <2>. HIDE DEF row
  <2>6. /\ row.status # "COMPLETED"
        /\ t \in Operations => row.version # 0 /\ row.status # "ABSENT"
    BY <1>0, <1>1, <1>3, <2>4 DEF PlaceOK, Rows, RowOK, Same
  <2>. QED
    BY <1>0, <1>1, <2>1, <2>3, <2>4, <2>5, <2>6, EnterStep DEF PlaceOK, Same
<1>. QED
  BY <1>2, <1>3

LEMMA BreakStep ==
    ASSUME IInv, NEW t \in Tasks, Break(t)
    PROVE  IInv'
<1>1. faults' \in 0..MaxFaults /\ registry' \in Edition \cup {NULL}
  <2>1. faults \in 0..MaxFaults /\ MaxFaults \in Nat /\ registry \in Edition \cup {NULL}
    BY PublicationAssumption DEF IInv, TypeOK
  <2>. QED
    BY <2>1 DEF Break, Fault
<1>2. TRUE \in BOOLEAN
  OBVIOUS
<1>. QED
  BY <1>1, <1>2, FailsStep DEF Break

-----------------------------------------------------------------------------
(* Markdown.                                                                    *)

(* publish goes on to the link only while current.md is the version before.     *)
LEMMA PublishStep ==
    ASSUME IInv, NEW t \in Tasks, Publish(t)
    PROVE  IInv'
<1>0. TypeOK /\ Rows /\ Files /\ PlaceOK(t) /\ RowOK(t)
  BY DEF IInv, Places, Rows
<1>1. /\ Doing(t, "publish") /\ run[t] # NULL
      /\ UNCHANGED <<files, registry, fresh, excluded, faults>>
      /\ UNCHANGED <<versions, current>> /\ CurrentVersion' = CurrentVersion
      /\ faults' \in 0..MaxFaults /\ registry' \in Edition \cup {NULL}
  BY <1>0 DEF Publish, Doing, files, CurrentVersion, TypeOK
<1>2. /\ task[t].stage = 2 /\ task[t].version # 0 /\ task[t].version \in 1..MaxVersion
      /\ task[t].expected = task[t].version - 1 /\ task[t].version <= CurrentVersion + 1
      /\ task[t].doc \in Text
  BY <1>0, <1>1 DEF PlaceOK, RowOK, TypeOK, Row
<1>3. /\ CurrentVersion \in 0..MaxVersion /\ MaxVersion \in Nat
      /\ current = NULL => CurrentVersion = 0
      /\ current # NULL => CurrentVersion = current.version
  BY <1>0, Numbers
<1>4. ASSUME current = Target(t), Goes(t, "done") PROVE IInv'
  <2>1. Published(t)
    <3>1. Target(t) \in Edition /\ Target(t).version = task[t].version /\ Target(t).doc = task[t].doc
      BY <1>2 DEF Target, Stored, Edition
    <3>2. current # NULL
      BY <1>4, <3>1, PublicationAssumption
    <3>. QED
      BY <1>0, <1>2, <1>3, <1>4, <3>1, <3>2 DEF Published, Files
  <2>2. /\ UNCHANGED task /\ run' \in [Tasks -> Process \cup {NULL}]
        /\ \A q : Doing(t, q)' => q = "done"
        /\ \A u \in Tasks : u # t => run'[u] = run[u]
    BY <1>0, <1>4, AtPlace DEF Goes
  <2>3. Published(t)' /\ PlaceOK(t)'
    BY <1>0, <1>1, <1>2, <2>1, <2>2 DEF Published, PlaceOK
  <2>. QED
    BY <1>1, <2>2, <2>3, GoesStep
<1>5. ASSUME CurrentVersion = task[t].version - 1, Goes(t, "link") PROVE IInv'
  <2>1. /\ UNCHANGED task /\ run' \in [Tasks -> Process \cup {NULL}]
        /\ \A q : Doing(t, q)' => q = "link"
        /\ \A u \in Tasks : u # t => run'[u] = run[u]
    BY <1>0, <1>5, AtPlace DEF Goes
  <2>2. PlaceOK(t)'
    BY <1>0, <1>1, <1>2, <1>5, <2>1 DEF PlaceOK
  <2>. QED
    BY <1>1, <2>1, <2>2, GoesStep
<1>6. ASSUME NEW retryable \in BOOLEAN, Fails(t, retryable) PROVE IInv'
  BY <1>1, <1>6, FailsStep
<1>7. Follows(t) => CurrentVersion = task[t].version - 1
  BY <1>2, <1>3 DEF Follows
<1>8. TRUE \in BOOLEAN /\ (~Aligned(t)) \in BOOLEAN
  BY DEF Aligned
<1>9. Idempotent(t) => current = Target(t)
  BY DEF Idempotent
<1>. QED
  BY <1>4, <1>5, <1>6, <1>7, <1>8, <1>9 DEF Publish

(* A free version is linked while current.md is the one before; a version that  *)
(* is there already is the task's own.                                          *)
LEMMA LinkStep ==
    ASSUME IInv, NEW t \in Tasks, Link(t)
    PROVE  IInv'
<1>0. TypeOK /\ Rows /\ Files /\ Attributed /\ Places /\ Excluding /\ PlaceOK(t) /\ RowOK(t)
  BY DEF IInv, Places, Rows
<1>. DEFINE n == task[t].version
            doc == task[t].doc
<1>1. /\ Doing(t, "link") /\ run[t] # NULL /\ UNCHANGED <<current, registry, fresh, excluded, faults>>
      /\ CurrentVersion' = CurrentVersion
      /\ faults' \in 0..MaxFaults /\ registry' \in Edition \cup {NULL}
  BY <1>0 DEF Link, Doing, CurrentVersion, TypeOK
<1>2. /\ task[t].stage = 2 /\ n # 0 /\ n \in 1..MaxVersion /\ n <= CurrentVersion + 1
      /\ doc \in Text /\ doc.by = t /\ doc # NULL /\ t # NULL
      /\ CurrentVersion = n - 1 \/ versions[n] \notin {NULL, doc}
  BY <1>0, <1>1, PublicationAssumption DEF PlaceOK, RowOK, TypeOK, Row
<1>3. CurrentVersion \in 0..MaxVersion /\ MaxVersion \in Nat
  BY <1>0, Numbers
<1>4. CASE versions[n] \notin {NULL, doc}
  <2>1. Fails(t, TRUE) /\ UNCHANGED files /\ TRUE \in BOOLEAN
    BY <1>1, <1>4 DEF Link, files
  <2>. QED
    BY <1>1, <2>1, FailsStep
<1>5. CASE versions[n] \in {NULL, doc}
  <2>1. /\ versions' = [versions EXCEPT ![n] = doc]
        /\ UNCHANGED task /\ run' \in [Tasks -> Process \cup {NULL}]
        /\ \A q : Doing(t, q)' => q = "rename"
        /\ \A u \in Tasks : u # t => run'[u] = run[u]
    BY <1>0, <1>5, AtPlace DEF Link, Goes
  <2>2. CurrentVersion = n - 1
    BY <1>2, <1>5
  <2>. HIDE DEF n, doc
  <2>3. /\ versions' \in [1..MaxVersion -> Text \cup {NULL}] /\ versions'[n] = doc
        /\ \A m \in 1..MaxVersion : m # n => versions'[m] = versions[m]
        /\ \A m \in 1..MaxVersion : versions[m] # NULL => versions'[m] = versions[m]
    BY <1>0, <1>2, <1>5, <2>1 DEF TypeOK
  <2>4. TypeOK'
    BY <1>0, <1>1, <2>1, <2>3 DEF TypeOK
  <2>5. Rows'
    BY <1>0, <1>1, <2>1 DEF Rows, RowOK
  <2>6. Files'
    <3>1. current # NULL => versions'[current.version] = current.doc
      BY <1>0, <2>3, Numbers, PublicationAssumption DEF Files
    <3>2. ASSUME NEW m \in 1..MaxVersion
          PROVE  /\ m <= CurrentVersion => versions'[m] # NULL
                 /\ m > CurrentVersion + 1 => versions'[m] = NULL
      BY <1>0, <1>2, <1>3, <2>2, <2>3 DEF Files
    <3>. QED
      BY <1>1, <3>1, <3>2 DEF Files
  <2>7. Attributed'
    <3>. SUFFICES ASSUME NEW m \in 1..MaxVersion, versions'[m] # NULL
                  PROVE  LET by == versions'[m].by IN
                         IF by = NULL THEN m = 1
                         ELSE task[by].version = m /\ task[by].doc = versions'[m] /\ task[by].stage >= 2
      BY <2>1 DEF Attributed
    <3>1. CASE m = n
      BY <1>2, <2>3, <3>1 DEF n, doc
    <3>2. CASE m # n
      BY <1>0, <2>3, <3>2 DEF Attributed
    <3>. QED
      BY <3>1, <3>2
  <2>8. ASSUME NEW u \in Tasks, task[u].version # 0
        PROVE  /\ Published(u)' => Published(u)
               /\ Published(u) => Published(u)'
               /\ task[u].version \in 1..MaxVersion /\ task[u].doc \in Text
    <3>1. task[u].version \in 1..MaxVersion /\ task[u].doc \in Text
      BY <1>0, <2>8 DEF TypeOK, Row, Rows, RowOK
    <3>2. Published(u)' <=> task[u].version <= CurrentVersion /\ versions'[task[u].version] = task[u].doc
      BY <1>1, <2>1 DEF Published
    <3>3. CASE task[u].version # n
      BY <2>3, <3>1, <3>2, <3>3 DEF Published
    <3>4. CASE task[u].version = n
      BY <1>3, <2>2, <3>1, <3>2, <3>4 DEF Published
    <3>. QED
      BY <3>1, <3>3, <3>4
  <2>9. Places'
    <3>. SUFFICES ASSUME NEW u \in Tasks PROVE PlaceOK(u)'
      BY DEF Places
    <3>1. CASE u = t
      BY <1>1, <1>2, <2>1, <2>2, <2>3, <3>1, <1>0 DEF PlaceOK, n, doc
    <3>2. CASE u # t
      <4>1. PlaceOK(u) /\ run'[u] = run[u] /\ task'[u] = task[u]
        BY <1>0, <2>1, <3>2 DEF Places
      <4>2. task[u].version # 0 /\ versions[task[u].version] # NULL =>
               versions'[task[u].version] = versions[task[u].version]
        BY <2>3, <2>8
      <4>3. task[u].version # 0 => task[u].doc # NULL
        BY <2>8, PublicationAssumption
      <4>. QED
        BY <1>1, <2>8, <4>1, <4>2, <4>3 DEF PlaceOK, Doing
    <3>. QED
      BY <3>1, <3>2
  <2>10. Excluding'
    <3>1. Suppressing' => Suppressing
      <4>1. ASSUME NEW o \in Operations, Pending(o)' PROVE Pending(o)
        BY <1>1, <2>1, <4>1 DEF Pending, Tasks
      <4>. QED
        BY <1>1, <4>1 DEF Suppressing
    <3>2. excluded # NULL => excluded \in Tasks /\ task[excluded].version # 0
      BY <1>0 DEF TypeOK, Tasks, Excluding
    <3>. QED
      BY <1>0, <1>1, <2>1, <2>8, <3>1, <3>2 DEF Excluding, Held
  <2>. QED
    BY <2>4, <2>5, <2>6, <2>7, <2>9, <2>10 DEF IInv
<1>. QED
  BY <1>4, <1>5

(* The version that becomes current.md is the next one, and its own.             *)
LEMMA RenameStep ==
    ASSUME IInv, NEW t \in Tasks, Rename(t)
    PROVE  IInv'
<1>0. TypeOK /\ Rows /\ Files /\ Attributed /\ Places /\ Excluding /\ PlaceOK(t) /\ RowOK(t)
  BY DEF IInv, Places, Rows
<1>. DEFINE n == task[t].version
            doc == task[t].doc
<1>1. /\ Doing(t, "rename") /\ run[t] # NULL /\ current' = Target(t)
      /\ UNCHANGED <<versions, task, registry, fresh, excluded, faults>>
      /\ run' \in [Tasks -> Process \cup {NULL}]
      /\ \A q : Doing(t, q)' => q = "done"
      /\ \A u \in Tasks : u # t => run'[u] = run[u]
  BY <1>0, AtPlace DEF Rename, Doing, Goes
<1>2. /\ task[t].stage = 2 /\ n # 0 /\ n \in 1..MaxVersion /\ CurrentVersion = n - 1
      /\ doc \in Text /\ doc.by = t /\ versions[n] = doc
  BY <1>0, <1>1 DEF PlaceOK, RowOK, TypeOK, Row
<1>. HIDE DEF n, doc
<1>3. /\ current' \in Edition /\ current' # NULL /\ current'.version = n /\ current'.doc = doc
      /\ CurrentVersion' = n
  <2>1. current' = Stored(n, doc)
    BY <1>1 DEF Target, n, doc
  <2>2. current' \in Edition /\ current'.version = n /\ current'.doc = doc
    BY <1>2, <2>1 DEF Stored, Edition
  <2>. QED
    BY <2>2, PublicationAssumption DEF CurrentVersion
<1>4. TypeOK'
  BY <1>0, <1>1, <1>3 DEF TypeOK
<1>5. ASSUME NEW u \in Tasks
      PROVE  task[u].version \in 0..MaxVersion /\ task[u].version \in Nat /\ n \in Nat
  <2>1. task[u] \in Row /\ MaxVersion \in Nat
    BY <1>0, PublicationAssumption DEF TypeOK
  <2>2. task[u].version \in 0..MaxVersion
    BY <2>1 DEF Row
  <2>. QED
    BY <1>2, <2>1, <2>2
<1>6. Rows'
  <2>. SUFFICES ASSUME NEW u \in Tasks PROVE RowOK(u)'
    BY DEF Rows
  <2>1. RowOK(u)
    BY <1>0 DEF Rows
  <2>. QED
    BY <1>1, <1>2, <1>3, <1>5, <2>1 DEF RowOK
<1>7. Files'
  <2>1. doc # NULL
    BY <1>2, PublicationAssumption
  <2>. QED
    BY <1>0, <1>1, <1>2, <1>3, <2>1, PublicationAssumption DEF Files
<1>8. Attributed'
  BY <1>0, <1>1 DEF Attributed
\* Nobody else has a claim to the version.
<1>9. ASSUME NEW u \in Tasks, task[u].version = n, versions[n] = task[u].doc PROVE u = t
  BY <1>0, <1>2, <1>9 DEF Rows, RowOK
<1>10. Places'
  <2>. SUFFICES ASSUME NEW u \in Tasks PROVE PlaceOK(u)'
    BY DEF Places
  <2>1. CASE u = t
    BY <1>0, <1>1, <1>2, <1>3, <1>5, <2>1 DEF PlaceOK, Published, n, doc
  <2>2. CASE u # t
    <3>1. PlaceOK(u) /\ run'[u] = run[u] /\ task'[u] = task[u]
      BY <1>0, <1>1, <2>2 DEF Places
    <3>2. \A q : Doing(u, q)' <=> Doing(u, q)
      BY <3>1 DEF Doing
    <3>3. Published(u) => Published(u)'
      BY <1>1, <1>2, <1>3, <1>5 DEF Published
    <3>4. Doing(u, "link") => versions[task[u].version] \notin {NULL, task[u].doc} \/ task[u].version = n
      BY <1>2, <1>5, <3>1 DEF PlaceOK
    <3>5. task[u].version = n => versions[n] \notin {NULL, task[u].doc}
      BY <1>2, <1>9, <2>2, PublicationAssumption
    <3>6. ~Doing(u, "rename")
      BY <1>2, <1>5, <1>9, <2>2, <3>1 DEF PlaceOK
    <3>. QED
      BY <1>1, <3>1, <3>2, <3>3, <3>4, <3>5, <3>6 DEF PlaceOK
  <2>. QED
    BY <2>1, <2>2
<1>11. Excluding'
  \* The suppression that becomes current was pending.
  <2>1. ASSUME Suppressing' PROVE Held
    <3>1. ASSUME NEW o \in Operations PROVE ~Pending(o)'
      BY <1>0, <1>1, <1>2, <1>3, <1>5 DEF Pending, Rows, RowOK, Tasks
    <3>2. doc.tomb
      BY <1>3, <2>1, <3>1 DEF Suppressing
    <3>3. t \in Operations
      BY <1>0, <1>2, <3>2 DEF RowOK, Tasks, n, doc
    <3>4. Pending(t)
      BY <1>2, <3>2 DEF Pending, n, doc
    <3>. QED
      BY <1>0, <3>3, <3>4 DEF Excluding, Suppressing
  <2>2. ASSUME Suppressing', Held, Published(excluded)' PROVE task[excluded].doc.tomb
    <3>1. excluded \in Tasks /\ task[excluded].version # 0
      BY <1>0, <2>2 DEF Held, TypeOK, Tasks, Excluding
    <3>2. task[excluded].version <= n /\ versions[task[excluded].version] = task[excluded].doc
      BY <1>1, <1>3, <2>2 DEF Published
    <3>3. CASE Published(excluded)
      BY <2>2, <3>3 DEF Held
    <3>4. CASE ~Published(excluded)
      <4>1. task[excluded].version = n
        BY <1>2, <1>5, <3>1, <3>2, <3>4 DEF Published
      <4>2. excluded = t
        BY <1>9, <3>1, <3>2, <4>1
      <4>3. ASSUME NEW o \in Operations PROVE ~Pending(o)'
        BY <1>0, <1>1, <1>2, <1>3, <1>5 DEF Pending, Rows, RowOK, Tasks
      <4>4. doc.tomb
        BY <1>3, <2>2, <4>3 DEF Suppressing
      <4>. QED
        BY <4>2, <4>4 DEF doc
    <3>. QED
      BY <3>3, <3>4
  <2>. QED
    BY <1>0, <1>1, <2>1, <2>2 DEF Excluding, Held
<1>. QED
  BY <1>4, <1>6, <1>7, <1>8, <1>10, <1>11 DEF IInv

-----------------------------------------------------------------------------
(* The index.                                                                   *)

LEMMA SyncGoesOn ==
    ASSUME IInv, NEW t \in Tasks, Doing(t, "sync") \/ Doing(t, "compare") \/ Doing(t, "replace"),
           NEW process \in Process, process.pc \in {"compare", "replace", "done"},
           run' = [run EXCEPT ![t] = process],
           UNCHANGED <<task, files, fresh, excluded, faults>>, registry' \in Edition \cup {NULL}
    PROVE  IInv'
<1>0. TypeOK /\ PlaceOK(t)
  BY DEF IInv, Places
<1>1. run[t] # NULL /\ task[t].stage = IF t \in Works THEN 5 ELSE 4
  BY <1>0 DEF Doing, PlaceOK
<1>2. UNCHANGED <<versions, current>> /\ CurrentVersion' = CurrentVersion
  BY DEF files, CurrentVersion
<1>3. /\ run' \in [Tasks -> Process \cup {NULL}] /\ run'[t] = process
      /\ \A u \in Tasks : u # t => run'[u] = run[u]
  BY <1>0 DEF TypeOK
<1>4. \A q : Doing(t, q)' => q \in {"compare", "replace", "done"}
  BY <1>3 DEF Doing
<1>5. Published(t)' <=> Published(t)
  BY <1>2 DEF Published
<1>6. PlaceOK(t)'
  BY <1>0, <1>1, <1>2, <1>4, <1>5 DEF PlaceOK
<1>. QED
  BY <1>1, <1>3, <1>6, GoesStep

LEMMA SyncedStep ==
    ASSUME IInv, NEW t \in Tasks, Doing(t, "compare") \/ Doing(t, "replace"),
           NEW active, Synced(t, active),
           UNCHANGED <<files, fresh, excluded, faults>>, registry' \in Edition \cup {NULL}
    PROVE  IInv'
<1>0. TypeOK /\ PlaceOK(t)
  BY DEF IInv, Places
<1>1. CASE Goes(t, "done")
  <2>1. At("done") \in Process /\ At("done").pc = "done"
    BY DEF At, Process
  <2>. QED
    BY <1>1, <2>1, SyncGoesOn DEF Goes
<1>2. CASE Fails(t, TRUE)
  <2>1. run[t] # NULL /\ faults' \in 0..MaxFaults /\ TRUE \in BOOLEAN
    BY <1>0 DEF TypeOK, Doing
  <2>. QED
    BY <1>2, <2>1, FailsStep
<1>. QED
  BY <1>1, <1>2 DEF Synced

LEMMA SyncReadStep ==
    ASSUME IInv, NEW t \in Tasks, SyncRead(t)
    PROVE  IInv'
<1>1. [pc |-> "compare", active |-> current] \in Process
  BY DEF Process, IInv, TypeOK
<1>2. registry' \in Edition \cup {NULL}
  BY DEF SyncRead, IInv, TypeOK
<1>. QED
  BY <1>1, <1>2, SyncGoesOn DEF SyncRead

LEMMA SyncCompareStep ==
    ASSUME IInv, NEW t \in Tasks, SyncCompare(t)
    PROVE  IInv'
<1>. DEFINE active == run[t].active
<1>1. Doing(t, "compare") /\ run[t] # NULL /\ UNCHANGED <<files, fresh, excluded, faults>>
  BY DEF SyncCompare, Doing
<1>2. run[t] \in Process /\ active \in Edition \cup {NULL} /\ registry \in Edition \cup {NULL}
  BY <1>1 DEF IInv, TypeOK, Process
<1>3. CASE Fails(t, TRUE) /\ UNCHANGED registry
  <2>1. faults' \in 0..MaxFaults /\ TRUE \in BOOLEAN
    BY <1>1 DEF IInv, TypeOK
  <2>. QED
    BY <1>1, <1>2, <1>3, <2>1, FailsStep
<1>4. CASE Synced(t, active) /\ registry' \in {registry, active}
  BY <1>1, <1>2, <1>4, SyncedStep
<1>5. CASE run' = [run EXCEPT ![t].pc = "replace"] /\ UNCHANGED <<task, registry>>
  <2>. DEFINE process == [run[t] EXCEPT !.pc = "replace"]
  <2>1. process \in Process /\ process.pc = "replace"
    BY <1>2 DEF Process
  <2>2. run' = [run EXCEPT ![t] = process]
    BY <1>5 DEF IInv, TypeOK
  <2>. HIDE DEF process
  <2>. QED
    BY <1>1, <1>2, <1>5, <2>1, <2>2, SyncGoesOn
<1>. QED
  BY <1>3, <1>4, <1>5 DEF SyncCompare

LEMMA SyncReplaceStep ==
    ASSUME IInv, NEW t \in Tasks, SyncReplace(t)
    PROVE  IInv'
<1>1. Doing(t, "replace") /\ run[t] # NULL
  BY DEF SyncReplace, Doing
<1>2. registry' \in Edition \cup {NULL}
  BY <1>1 DEF SyncReplace, IInv, TypeOK, Process
<1>. QED
  BY <1>1, <1>2, SyncedStep DEF SyncReplace
-----------------------------------------------------------------------------
(* Jobs.                                                                        *)

LEMMA PreviewStep ==
    ASSUME IInv, NEW w \in Works, Preview(w)
    PROVE  IInv'
<1>. DEFINE row == [task[w] EXCEPT !.status = "QUEUED", !.kind = "WORK", !.left = JobAttempts]
<1>1. w \in Tasks /\ w \notin Operations /\ task[w] \in Row /\ task \in [Tasks -> Row]
  BY PublicationAssumption DEF Tasks, IInv, TypeOK
<1>2. row \in Row /\ Same(row, task[w]) /\ row.stage = task[w].stage /\ row.status = "QUEUED"
  <2>1. [task[w] EXCEPT !.status = "QUEUED"] \in Row
    BY <1>1 DEF Row
  <2>2. [task[w] EXCEPT !.status = "QUEUED", !.kind = "WORK"] \in Row
    BY <1>1, <2>1 DEF Row
  <2>3. row \in Row
    BY <1>1, <2>2, PublicationAssumption DEF Row
  <2>. QED
    BY <1>1, <2>3 DEF Row, Same
<1>3. task' = [task EXCEPT ![w] = row] /\ UNCHANGED <<files, registry, fresh, excluded, run>>
  BY <1>1 DEF Preview
<1>4. faults' \in 0..MaxFaults /\ registry' \in Edition \cup {NULL}
  BY DEF Preview, IInv, TypeOK
<1>. HIDE DEF row
<1>. QED
  BY <1>1, <1>2, <1>3, <1>4, RestStep

LEMMA CommitStep ==
    ASSUME IInv, NEW w \in Works, Commit(w)
    PROVE  IInv'
<1>. DEFINE row == [task[w] EXCEPT !.status = "QUEUED", !.left = JobAttempts]
<1>1. w \in Tasks /\ w \notin Operations /\ task[w] \in Row /\ task \in [Tasks -> Row]
  BY PublicationAssumption DEF Tasks, IInv, TypeOK
<1>2. row \in Row /\ Same(row, task[w]) /\ row.stage = task[w].stage /\ row.status = "QUEUED"
  <2>1. [task[w] EXCEPT !.status = "QUEUED"] \in Row
    BY <1>1 DEF Row
  <2>2. row \in Row
    BY <1>1, <2>1, PublicationAssumption DEF Row
  <2>. QED
    BY <1>1, <2>2 DEF Row, Same
<1>3. task' = [task EXCEPT ![w] = row] /\ UNCHANGED <<files, registry, fresh, excluded, run>>
  BY <1>1 DEF Commit
<1>4. faults' \in 0..MaxFaults /\ registry' \in Edition \cup {NULL}
  BY DEF Commit, IInv, TypeOK
<1>. HIDE DEF row
<1>. QED
  BY <1>1, <1>2, <1>3, <1>4, RestStep

LEMMA StartWorkStep ==
    ASSUME IInv, NEW w \in Works, StartWork(w)
    PROVE  IInv'
<1>. DEFINE attempts == IF task[w].status = "FAILED" THEN StageAttempts ELSE task[w].attempts + 1
            row == [task[w] EXCEPT !.status = "RUNNING", !.left = @ - 1, !.attempts = attempts]
<1>1. /\ w \in Tasks /\ w \notin Operations /\ task[w] \in Row /\ task \in [Tasks -> Row]
      /\ PlaceOK(w) /\ task[w].left > 0
  BY PublicationAssumption DEF Tasks, IInv, TypeOK, Places, StartWork
<1>2. attempts \in Nat /\ task[w].left - 1 \in Nat
  BY <1>1, PublicationAssumption DEF Row
<1>3. Enter(w, row)
  BY <1>1 DEF StartWork, Row
<1>. HIDE DEF attempts
<1>4. /\ row \in Row /\ Same(row, task[w]) /\ row.stage = task[w].stage /\ row.status = "RUNNING"
  <2>1. [task[w] EXCEPT !.status = "RUNNING"] \in Row
    BY <1>1 DEF Row
  <2>2. [task[w] EXCEPT !.status = "RUNNING", !.left = @ - 1] \in Row
    BY <1>1, <1>2, <2>1 DEF Row
  <2>3. row \in Row
    BY <1>1, <1>2, <2>2 DEF Row
  <2>. QED
    BY <1>1, <2>3 DEF Row, Same
<1>. HIDE DEF row
<1>5. row.stage >= task[w].stage
  BY <1>4 DEF Row
<1>6. /\ row.version # 0 /\ row.stage >= 3 => Published(w)
      /\ row.version # 0 /\ row.stage = 5 /\ w \in Works => row.version <= fresh
  BY <1>1, <1>4 DEF PlaceOK, Same
<1>. QED
  BY <1>1, <1>3, <1>4, <1>5, <1>6, EnterStep

LEMMA ResendStep ==
    ASSUME IInv, NEW o \in Operations, Resend(o)
    PROVE  IInv'
<1>. DEFINE row == [task[o] EXCEPT !.status = "PENDING", !.attempts = @ + 1]
<1>1. /\ o \in Tasks /\ task[o] \in Row /\ PlaceOK(o) /\ RowOK(o) /\ task[o].version # 0
      /\ o \notin Works
  BY PublicationAssumption DEF Tasks, IInv, TypeOK, Places, Rows, RowOK, Resend
<1>2. Enter(o, row)
  BY DEF Resend
<1>3. /\ row \in Row /\ Same(row, task[o]) /\ row.stage = task[o].stage /\ row.status = "PENDING"
  <2>1. [task[o] EXCEPT !.status = "PENDING"] \in Row
    BY <1>1 DEF Row
  <2>2. task[o].attempts + 1 \in Nat
    BY <1>1 DEF Row
  <2>3. row \in Row
    BY <1>1, <2>1, <2>2 DEF Row
  <2>. QED
    BY <1>1, <2>3 DEF Row, Same
<1>. HIDE DEF row
<1>4. row.stage >= task[o].stage /\ (task[o].stage >= 2 \/ row.stage = 1) /\ row.version # 0
  BY <1>1, <1>3 DEF Row, Same
<1>5. row.version # 0 /\ row.stage >= 3 => Published(o)
  BY <1>1, <1>3 DEF PlaceOK, Same
<1>. QED
  BY <1>1, <1>2, <1>3, <1>4, <1>5, EnterStep

(* The outbox item of a job is fixed, for the version after the one it read.     *)
LEMMA PlanStep ==
    ASSUME IInv, NEW w \in Works, Plan(w)
    PROVE  IInv'
<1>0. TypeOK /\ PlaceOK(w) /\ RowOK(w) /\ Excluding /\ w \in Tasks /\ w \notin Operations
  BY PublicationAssumption DEF IInv, Places, Rows, Tasks
<1>1. /\ Doing(w, "plan") /\ run' = [run EXCEPT ![w] = NULL] /\ UNCHANGED files
      /\ UNCHANGED <<versions, current, registry, fresh, excluded, faults>>
      /\ CurrentVersion' = CurrentVersion
  BY DEF Plan, files, CurrentVersion
<1>2. task[w].stage = 1 /\ task[w].version = 0 /\ task[w] \in Row
  BY <1>0, <1>1 DEF PlaceOK, RowOK, TypeOK
<1>3. CurrentVersion \in 0..MaxVersion /\ MaxVersion \in Nat
  BY <1>0, Numbers
<1>4. PICK base :
         /\ base = task[w] \/ (base = Planned(w, task[w]) /\ CurrentVersion < MaxVersion)
         /\ task' = [task EXCEPT ![w] = [base EXCEPT !.status = "AWAITING_COMMIT", !.stage = 2,
                                                     !.attempts = 0]]
  BY DEF Plan
<1>. DEFINE row == [base EXCEPT !.status = "AWAITING_COMMIT", !.stage = 2, !.attempts = 0]
<1>5. /\ base \in Row
      /\ \/ base.version = 0
         \/ /\ base.version = CurrentVersion + 1 /\ base.expected = CurrentVersion
            /\ base.doc = Document(w, FALSE, TRUE)
  <2>1. CASE base = task[w]
    BY <1>2, <2>1
  <2>2. CASE base = Planned(w, task[w]) /\ CurrentVersion < MaxVersion
    <3>1. CurrentVersion + 1 \in 0..MaxVersion
      BY <1>3, <2>2
    <3>2. Document(w, FALSE, TRUE) \in Text
      BY <1>0 DEF Document, Text
    <3>3. [task[w] EXCEPT !.version = CurrentVersion + 1] \in Row
      BY <1>2, <3>1 DEF Row
    <3>. DEFINE next == [task[w] EXCEPT !.version = CurrentVersion + 1]
                against == [next EXCEPT !.expected = CurrentVersion]
                planned == [against EXCEPT !.doc = Document(w, FALSE, TRUE)]
    <3>. HIDE DEF Document
    <3>4. next \in Row /\ next.version = CurrentVersion + 1
      BY <1>2, <3>3 DEF Row
    <3>5. Planned(w, task[w]) = planned
      BY DEF Planned
    <3>. HIDE DEF next
    <3>6. against \in Row /\ against.version = CurrentVersion + 1 /\ against.expected = CurrentVersion
      BY <1>3, <3>4 DEF Row
    <3>. HIDE DEF against
    <3>7. /\ planned \in Row /\ planned.version = CurrentVersion + 1
          /\ planned.expected = CurrentVersion /\ planned.doc = Document(w, FALSE, TRUE)
      BY <3>2, <3>6 DEF Row
    <3>. HIDE DEF planned
    <3>. QED
      BY <2>2, <3>5, <3>7, Zenon
  <2>. QED
    BY <1>4, <2>1, <2>2
<1>6. /\ row \in Row /\ row.stage = 2 /\ row.status = "AWAITING_COMMIT"
      /\ row.version = base.version /\ row.doc = base.doc /\ row.expected = base.expected
  <2>1. [base EXCEPT !.status = "AWAITING_COMMIT"] \in Row
    BY <1>5 DEF Row
  <2>2. [base EXCEPT !.status = "AWAITING_COMMIT", !.stage = 2] \in Row
    <3>1. 2 \in 1..5
      OBVIOUS
    <3>. QED
      BY <1>5, <2>1, <3>1 DEF Row
  <2>3. row \in Row
    BY <1>5, <2>2 DEF Row
  <2>. QED
    BY <1>5, <2>3 DEF Row
<1>. HIDE DEF row
<1>7. task' = [task EXCEPT ![w] = row] /\ task'[w] = row
      /\ \A u \in Tasks : u # w => task'[u] = task[u]
  BY <1>0, <1>4 DEF row, TypeOK
<1>8. /\ run' \in [Tasks -> Process \cup {NULL}] /\ run'[w] = NULL /\ \A q : ~Doing(w, q)'
      /\ \A u \in Tasks : u # w => run'[u] = run[u]
  BY <1>0, <1>1, AtRest
<1>9. RowOK(w)'
  <2>0. \/ row.version = 0
        \/ /\ row.version = CurrentVersion + 1 /\ row.expected = CurrentVersion
           /\ row.doc = Document(w, FALSE, TRUE)
    BY <1>5, <1>6, Zenon
  <2>1. CASE row.version = 0
    <3>1. 0 <= CurrentVersion + 1
      BY <1>3
    <3>. QED
      BY <1>0, <1>1, <1>6, <1>7, <2>1, <3>1 DEF RowOK
  <2>2. CASE row.version = CurrentVersion + 1 /\ row.expected = CurrentVersion
             /\ row.doc = Document(w, FALSE, TRUE)
    <3>1. /\ Document(w, FALSE, TRUE) \in Text /\ Document(w, FALSE, TRUE).by = w
          /\ ~Document(w, FALSE, TRUE).tomb
      BY <1>0 DEF Document, Text
    <3>2. /\ CurrentVersion + 1 <= CurrentVersion + 1
          /\ CurrentVersion = (CurrentVersion + 1) - 1
      BY <1>3
    <3>3. row.doc \in Text /\ row.doc.by = w /\ ~row.doc.tomb
      BY <2>2, <3>1
    <3>5. row.version <= CurrentVersion + 1
      BY <2>2, <3>2
    <3>6. row.expected = row.version - 1
      <4>1. row.version - 1 = (CurrentVersion + 1) - 1
        BY <2>2
      <4>. QED
        BY <2>2, <3>2, <4>1, Zenon
    <3>4. 2 >= 2
      OBVIOUS
    <3>. QED
      BY <1>0, <1>1, <1>6, <1>7, <3>3, <3>4, <3>5, <3>6, Zenon DEF RowOK
  <2>. QED
    BY <2>0, <2>1, <2>2
<1>10. PlaceOK(w)'
  BY <1>0, <1>6, <1>7, <1>8 DEF PlaceOK
<1>11. /\ task' \in [Tasks -> Row] /\ Rows' /\ Files' /\ Attributed' /\ Places'
  <2>1. fresh' \in Nat /\ fresh' >= fresh
    BY <1>0, <1>1 DEF TypeOK
  <2>. QED
    BY <1>0, <1>1, <1>2, <1>6, <1>7, <1>8, <1>9, <1>10, <2>1, OneMoves
<1>12. TypeOK'
  BY <1>0, <1>1, <1>8, <1>11 DEF TypeOK
<1>13. Excluding'
  <2>1. \A o \in Operations : o \in Tasks /\ task'[o] = task[o] /\ run'[o] = run[o]
    BY <1>0, <1>7, <1>8 DEF Tasks
  <2>2. ASSUME NEW o \in Operations
        PROVE  (Pending(o)' => Pending(o)) /\ (Published(o)' <=> Published(o))
    BY <1>1, <2>1 DEF Pending, Published
  <2>3. excluded # NULL => excluded \in Operations
    BY <1>0 DEF TypeOK
  <2>4. Suppressing' => Suppressing
    BY <1>1, <2>2 DEF Suppressing
  <2>. QED
    BY <1>0, <1>1, <2>1, <2>2, <2>3, <2>4 DEF Excluding, Held
<1>. QED
  BY <1>11, <1>12, <1>13 DEF IInv

-----------------------------------------------------------------------------
(* Commands and crashes.                                                        *)

LEMMA RequestStep ==
    ASSUME IInv, NEW o \in Operations, NEW kind \in Kinds, NEW live \in BOOLEAN,
           Request(o, kind, live)
    PROVE  IInv'
<1>0. /\ TypeOK /\ RowOK(o) /\ PlaceOK(o) /\ Excluding
      /\ o \in Tasks /\ o \notin Works /\ o # NULL
  BY PublicationAssumption DEF IInv, Places, Rows, Tasks
<1>. DEFINE row == [NoTask EXCEPT !.status = "PENDING", !.kind = kind, !.attempts = 1,
                                  !.version = CurrentVersion + 1, !.expected = CurrentVersion,
                                  !.doc = TargetOf(o, kind, live)]
<1>1. task[o].status = "ABSENT" /\ CurrentVersion < MaxVersion /\ Enter(o, row)
  BY DEF Request
<1>2. CurrentVersion \in 0..MaxVersion /\ MaxVersion \in Nat /\ CurrentVersion + 1 \in 1..MaxVersion
  BY <1>0, <1>1, Numbers
<1>3. TargetOf(o, kind, live) \in Text /\ TargetOf(o, kind, live).by = o
  <2>1. /\ (kind = "SUPPRESS") \in BOOLEAN
        /\ (kind # "SUPERSEDE" /\ (kind = "EDIT" => live)) \in BOOLEAN
    OBVIOUS
  <2>. HIDE DEF row
  <2>. QED
    BY <1>0, <2>1 DEF TargetOf, Document, Text
<1>4. /\ row \in Row /\ row.stage = 1 /\ row.version = CurrentVersion + 1
      /\ row.expected = CurrentVersion /\ row.doc = TargetOf(o, kind, live)
      /\ row.status = "PENDING"
  <2>1. NoTask \in Row /\ NoTask.stage = 1
    BY PublicationAssumption DEF NoTask, Row
  <2>2. [NoTask EXCEPT !.status = "PENDING"] \in Row
    BY <2>1 DEF Row
  <2>3. [NoTask EXCEPT !.status = "PENDING", !.kind = kind] \in Row
    BY <2>1, <2>2 DEF Row
  <2>4. [NoTask EXCEPT !.status = "PENDING", !.kind = kind, !.attempts = 1] \in Row
    BY <2>1, <2>3 DEF Row
  <2>5. [NoTask EXCEPT !.status = "PENDING", !.kind = kind, !.attempts = 1,
                       !.version = CurrentVersion + 1] \in Row
    <3>1. CurrentVersion + 1 \in 0..MaxVersion
      BY <1>2
    <3>. QED
      BY <2>1, <2>4, <3>1 DEF Row
  <2>6. [NoTask EXCEPT !.status = "PENDING", !.kind = kind, !.attempts = 1,
                       !.version = CurrentVersion + 1, !.expected = CurrentVersion] \in Row
    BY <1>2, <2>1, <2>5 DEF Row
  <2>7. row \in Row
    BY <1>3, <2>1, <2>6 DEF Row
  <2>. QED
    BY <2>1, <2>7 DEF Row
<1>. HIDE DEF row
<1>5. StageName(o, 1) = "EXCLUDE"
  BY <1>0, StageNames
<1>6. /\ task' = [task EXCEPT ![o] = row] /\ run' = [run EXCEPT ![o] = At("done")]
      /\ excluded' = o /\ UNCHANGED <<registry, fresh, faults>> /\ UNCHANGED files
  BY <1>1, <1>4, <1>5 DEF Enter
<1>7. UNCHANGED <<versions, current>> /\ CurrentVersion' = CurrentVersion
  BY <1>6 DEF files, CurrentVersion
<1>8. /\ run' \in [Tasks -> Process \cup {NULL}]
      /\ \A q : Doing(o, q)' => q = "done"
      /\ \A u \in Tasks : u # o => run'[u] = run[u]
  BY <1>0, <1>6, AtPlace
<1>9. task[o].version = 0 /\ task'[o] = row
  BY <1>0, <1>1, <1>6 DEF RowOK, TypeOK
<1>10. RowOK(o)' /\ PlaceOK(o)'
  BY <1>0, <1>2, <1>3, <1>4, <1>7, <1>8, <1>9 DEF RowOK, PlaceOK
<1>11. /\ task' \in [Tasks -> Row] /\ Rows' /\ Files' /\ Attributed' /\ Places'
  <2>1. fresh' \in Nat /\ fresh' >= fresh
    BY <1>0, <1>6 DEF TypeOK
  <2>. QED
    BY <1>0, <1>4, <1>6, <1>8, <1>9, <1>10, <2>1, OneMoves
<1>12. TypeOK'
  BY <1>0, <1>6, <1>7, <1>8, <1>11 DEF TypeOK
<1>13. Excluding'
  <2>1. ~Published(o)' /\ task'[o].version # 0
    BY <1>2, <1>4, <1>7, <1>9 DEF Published
  <2>. QED
    BY <1>6, <2>1, Excludes
<1>. QED
  BY <1>11, <1>12, <1>13 DEF IInv

(* A crash forgets what was in progress, and nothing else.                      *)
LEMMA CrashStep ==
    ASSUME IInv, Crash
    PROVE  IInv'
<1>0. TypeOK /\ Rows /\ Files /\ Attributed /\ Places /\ Excluding
  BY DEF IInv
<1>1. /\ run' = [t \in Tasks |-> NULL] /\ faults < MaxFaults /\ faults' = faults + 1
      /\ UNCHANGED <<versions, current, registry, fresh, excluded, task>>
      /\ CurrentVersion' = CurrentVersion
  BY DEF Crash, Fault, files, CurrentVersion
<1>2. ASSUME NEW t \in Tasks
      PROVE  /\ run'[t] = NULL /\ \A q : ~Doing(t, q)'
             /\ Published(t)' <=> Published(t)
  BY <1>1 DEF Doing, Published
<1>3. TypeOK'
  <2>1. faults \in 0..MaxFaults /\ MaxFaults \in Nat
    BY <1>0, PublicationAssumption DEF TypeOK
  <2>. QED
    BY <1>0, <1>1, <2>1 DEF TypeOK
<1>4. Rows' /\ Files' /\ Attributed'
  BY <1>0, <1>1 DEF Rows, RowOK, Files, Attributed
<1>5. Places'
  <2>. SUFFICES ASSUME NEW t \in Tasks PROVE PlaceOK(t)'
    BY DEF Places
  <2>1. PlaceOK(t)
    BY <1>0 DEF Places
  <2>. QED
    BY <1>1, <1>2, <2>1 DEF PlaceOK
<1>6. Excluding'
  <2>1. ASSUME NEW o \in Operations, Pending(o)' PROVE Pending(o)
    BY <1>1, <1>2, <2>1 DEF Pending, Tasks
  <2>2. Suppressing' => Suppressing
    BY <1>1, <2>1 DEF Suppressing
  <2>3. excluded # NULL => excluded \in Tasks
    BY <1>0 DEF TypeOK, Tasks
  <2>. QED
    BY <1>0, <1>1, <1>2, <2>2, <2>3 DEF Excluding, Held
<1>. QED
  BY <1>3, <1>4, <1>5, <1>6 DEF IInv

-----------------------------------------------------------------------------
(* The induction.                                                               *)

LEMMA Initially ==
    ASSUME Init
    PROVE  IInv
<1>1. /\ current \in {NULL, Stored(1, Document(NULL, FALSE, TRUE))}
      /\ versions = [n \in 1..MaxVersion |-> IF n = 1 /\ current # NULL THEN current.doc ELSE NULL]
      /\ registry = current /\ excluded = NULL /\ fresh = IF current = NULL THEN 0 ELSE 1
      /\ task = [t \in Tasks |-> NoTask] /\ run = [t \in Tasks |-> NULL] /\ faults = 0
  BY DEF Init
<1>2. MaxVersion \in Nat \ {0} /\ MaxFaults \in Nat /\ 1 \in 1..MaxVersion
  BY PublicationAssumption
<1>3. current # NULL => /\ current \in Edition /\ current.version = 1 /\ current.doc \in Text
                        /\ current.doc.by = NULL /\ current.doc.tomb = FALSE /\ current.doc # NULL
  <2>. SUFFICES ASSUME current # NULL
                PROVE  /\ current \in Edition /\ current.version = 1 /\ current.doc \in Text
                       /\ current.doc.by = NULL /\ current.doc.tomb = FALSE /\ current.doc # NULL
    OBVIOUS
  <2>1. /\ Document(NULL, FALSE, TRUE) \in Text /\ Document(NULL, FALSE, TRUE).by = NULL
        /\ Document(NULL, FALSE, TRUE).tomb = FALSE
    BY DEF Document, Text
  <2>0. current = Stored(1, Document(NULL, FALSE, TRUE))
    BY <1>1
  <2>2. current.version = 1 /\ current.doc = Document(NULL, FALSE, TRUE)
    BY <2>0, Zenon DEF Stored
  <2>3. current \in Edition
    <3>. HIDE DEF Document
    <3>1. Stored(1, Document(NULL, FALSE, TRUE)) \in Edition
      BY <1>2, <2>1 DEF Stored, Edition
    <3>. QED
      BY <2>0, <3>1, Zenon
  <2>. QED
    BY <2>1, <2>2, <2>3, PublicationAssumption
<1>4. NoTask \in Row /\ NoTask.version = 0 /\ NoTask.status = "ABSENT" /\ NoTask.stage = 1
  BY <1>2 DEF NoTask, Row
<1>5. CurrentVersion = IF current = NULL THEN 0 ELSE 1
  BY <1>3 DEF CurrentVersion
<1>6. TypeOK
  <2>1. versions \in [1..MaxVersion -> Text \cup {NULL}]
    BY <1>1, <1>3
  <2>2. fresh \in 0..MaxVersion /\ faults \in 0..MaxFaults
    BY <1>1, <1>2
  <2>. QED
    BY <1>1, <1>3, <1>4, <2>1, <2>2 DEF TypeOK
<1>7. Rows
  <2>1. 0 <= CurrentVersion + 1
    BY <1>5
  <2>. QED
    BY <1>1, <1>4, <2>1 DEF Rows, RowOK
<1>8. Files
  BY <1>1, <1>2, <1>3, <1>5 DEF Files
<1>9. Attributed
  BY <1>1, <1>3 DEF Attributed
<1>10. Places
  BY <1>1, <1>4 DEF Places, PlaceOK, Doing
<1>11. Excluding
  <2>1. ASSUME NEW o \in Operations PROVE ~Pending(o)
    BY <1>1, <1>4 DEF Pending, Tasks
  <2>. QED
    BY <1>1, <1>3, <2>1 DEF Excluding, Suppressing
<1>. QED
  BY <1>6, <1>7, <1>8, <1>9, <1>10, <1>11 DEF IInv

LEMMA StepKeeps ==
    ASSUME IInv, [Next]_vars
    PROVE  IInv'
<1>1. ASSUME NEW t \in Tasks,
             \/ Advance(t) \/ Break(t) \/ Publish(t) \/ Link(t) \/ Rename(t)
             \/ SyncRead(t) \/ SyncCompare(t) \/ SyncReplace(t)
      PROVE  IInv'
  BY <1>1, AdvanceStep, BreakStep, PublishStep, LinkStep, RenameStep,
     SyncReadStep, SyncCompareStep, SyncReplaceStep
<1>2. ASSUME NEW w \in Works, Preview(w) \/ StartWork(w) \/ Plan(w) \/ Commit(w)
      PROVE  IInv'
  BY <1>2, PreviewStep, StartWorkStep, PlanStep, CommitStep
<1>3. ASSUME NEW o \in Operations,
             Resend(o) \/ \E kind \in Kinds, live \in BOOLEAN : Request(o, kind, live)
      PROVE  IInv'
  BY <1>3, ResendStep, RequestStep
<1>4. CASE UNCHANGED vars
  BY <1>4 DEF vars, IInv, TypeOK, Rows, RowOK, Files, Attributed, Places, PlaceOK, Excluding,
     Suppressing, Pending, Held, Published, Doing, CurrentVersion, Zenon
<1>. QED
  BY <1>1, <1>2, <1>3, <1>4, CrashStep DEF Next

LEMMA AlwaysSound == Spec => []IInv
<1>1. Init => IInv
  BY Initially
<1>2. IInv /\ [Next]_vars => IInv'
  BY StepKeeps
<1>. QED
  BY <1>1, <1>2, PTL DEF Spec

-----------------------------------------------------------------------------
(* Theorems.                                                                    *)

(* Every row, file and process keeps to its type, whoever fails or dies.         *)
THEOREM TypeCorrect == Spec => []TypeOK
<1>1. IInv => TypeOK
  BY DEF IInv
<1>. QED
  BY <1>1, AlwaysSound, PTL

(* A document becomes one version and versions have no gap, whatever is retried, *)
(* by whom and after which crash (publish of the Markdown repository, called by  *)
(* the worker's and the governance service's stages).                           *)
THEOREM PublishedOnceHolds == Spec => []PublishedOnce
<1>1. IInv => PublishedOnce
  <2>. SUFFICES ASSUME IInv PROVE PublishedOnce
    OBVIOUS
  <2>0. TypeOK /\ Files /\ Attributed
    BY DEF IInv
  <2>1. ASSUME NEW m \in 1..MaxVersion, NEW n \in 1..MaxVersion,
               versions[m] # NULL, versions[n] # NULL, versions[m].by = versions[n].by
        PROVE  m = n
    BY <2>0, <2>1 DEF Attributed
  <2>2. ASSUME NEW n \in 2..MaxVersion, versions[n] # NULL
        PROVE  versions[n - 1] # NULL
    <3>1. /\ CurrentVersion \in Nat /\ MaxVersion \in Nat
      BY <2>0, Numbers
    <3>2. n \in 1..MaxVersion /\ n - 1 \in 1..MaxVersion
      BY <3>1
    <3>3. n <= CurrentVersion + 1
      BY <2>0, <2>2, <3>1, <3>2 DEF Files
    <3>. QED
      BY <2>0, <3>1, <3>2, <3>3 DEF Files
  <2>. QED
    BY <2>1, <2>2 DEF PublishedOnce
<1>. QED
  BY <1>1, AlwaysSound, PTL

(* COMPLETED is said only of a task whose own document is the version it asked   *)
(* for, and of a job only if that version has its freshness row.                *)
THEOREM CompletedIsPublishedHolds == Spec => []CompletedIsPublished
<1>1. IInv => CompletedIsPublished
  BY DEF IInv, Places, PlaceOK, Published, CompletedIsPublished, Tasks
<1>. QED
  BY <1>1, AlwaysSound, PTL
-----------------------------------------------------------------------------
(* Without a current.md there is no row and no read of one: current.md is never  *)
(* taken away, and a row is written from it or after its own version was.       *)
Unread == \A t \in Tasks : run[t] # NULL => run[t].active = NULL
Mirrors == current = NULL => registry = NULL /\ Unread

LEMMA UnreadStays ==
    ASSUME TypeOK, Unread, NEW t \in Tasks, NEW process,
           process = NULL \/ process.active = NULL, run' = [run EXCEPT ![t] = process]
    PROVE  Unread'
BY DEF TypeOK, Unread

LEMMA StopsUnread ==
    ASSUME TypeOK, Unread, NEW t \in Tasks, NEW pc,
           Goes(t, pc) \/ Fails(t, TRUE) \/ Fails(t, FALSE) \/ run' = [run EXCEPT ![t] = At(pc)]
    PROVE  Unread'
<1>1. run' = [run EXCEPT ![t] = At(pc)] \/ run' = [run EXCEPT ![t] = NULL]
  BY DEF Goes, Fails
<1>2. At(pc).active = NULL
  BY DEF At
<1>. QED
  BY <1>1, <1>2, UnreadStays

LEMMA RenameWrites ==
    ASSUME IInv, NEW t \in Tasks, Rename(t)
    PROVE  current' # NULL
<1>1. task[t] \in Row /\ task[t].version # 0 /\ task[t].doc \in Text
  BY DEF IInv, TypeOK, Rows, RowOK, Places, PlaceOK, Rename
<1>2. task[t].version \in 1..MaxVersion
  BY <1>1, PublicationAssumption DEF Row
<1>3. Target(t) \in Edition
  BY <1>1, <1>2 DEF Target, Stored, Edition
<1>. QED
  BY <1>3, PublicationAssumption DEF Rename

LEMMA EnterMirrors ==
    ASSUME IInv, IInv', current' = NULL, registry = NULL, Unread,
           NEW t \in Tasks, NEW row, Enter(t, row)
    PROVE  registry' = NULL /\ Unread'
<1>. DEFINE stage == StageName(t, row.stage)
            pc == CASE stage = "PLAN" -> "plan"
                    [] stage = "MARKDOWN" /\ row.version # 0 -> "publish"
                    [] stage = "INDEX" /\ row.version # 0 -> "sync"
                    [] OTHER -> "done"
            stored == Stored(row.version, row.doc)
            projects == stage = "REGISTRY" /\ row.version # 0
            refreshes == stage = "FRESHNESS" /\ row.version # 0
            refused == \/ projects /\ ~Projectable(stored)
                       \/ refreshes /\ ~Refreshable(row.version)
<1>1. /\ IF refused
         THEN /\ task' = [task EXCEPT ![t] = Failed(row, t, TRUE)]
              /\ run' = [run EXCEPT ![t] = NULL]
         ELSE /\ task' = [task EXCEPT ![t] = row]
              /\ run' = [run EXCEPT ![t] = At(pc)]
      /\ registry' = IF projects /\ ~refused THEN stored ELSE registry
  BY Zenon DEF Enter
<1>. HIDE DEF refused, pc, stored
<1>2. Unread'
  <2>1. NULL = NULL \/ NULL.active = NULL
    OBVIOUS
  <2>2. TypeOK /\ (run' = [run EXCEPT ![t] = NULL] => Unread')
    BY <2>1, UnreadStays DEF IInv
  <2>. QED
    BY <1>1, <2>2, StopsUnread
<1>3. CASE projects /\ ~refused
  <2>1. task' = [task EXCEPT ![t] = row] /\ task \in [Tasks -> Row]
    BY <1>1, <1>3 DEF IInv, TypeOK
  <2>2. task'[t] = row /\ task'[t] \in Row
    BY <2>1 DEF IInv, TypeOK
  <2>3. row.stage \in 1..5 /\ row.version \in 0..MaxVersion
    BY <2>2 DEF Row
  <2>4. row.stage = 3
    <3>1. row.stage = 1 \/ row.stage = 2 \/ row.stage = 3 \/ row.stage = 4 \/ row.stage = 5
      BY <2>3
    <3>. QED
      BY <1>3, <3>1 DEF StageName, WorkStages, OperationStages
  <2>5. PlaceOK(t)' /\ CurrentVersion' = 0
    BY DEF IInv, Places, CurrentVersion
  <2>6. task'[t].version # 0 /\ task'[t].stage >= 3
    BY <1>3, <2>2, <2>4
  <2>7. task'[t].version <= 0
    BY <2>5, <2>6 DEF PlaceOK, Published
  <2>8. MaxVersion \in Nat
    BY PublicationAssumption
  <2>. QED
    BY <2>2, <2>3, <2>6, <2>7, <2>8
<1>. QED
  BY <1>1, <1>2, <1>3

LEMMA MirrorsStep ==
    ASSUME IInv, IInv', Mirrors, [Next]_vars
    PROVE  Mirrors'
<1>. SUFFICES ASSUME current' = NULL
              PROVE  registry' = NULL /\ Unread'
  BY DEF Mirrors
<1>0. TypeOK /\ \A t \in Tasks : ~Rename(t)
  BY RenameWrites DEF IInv
<1>1. current = NULL
  <2>1. \A t \in Tasks : \A row : Enter(t, row) => current' = current
    BY DEF Enter, files
  <2>2. ASSUME NEW t \in Tasks,
               \/ Advance(t) \/ Break(t) \/ Publish(t) \/ Link(t)
               \/ SyncRead(t) \/ SyncCompare(t) \/ SyncReplace(t)
        PROVE  current' = current
    BY <2>1, <2>2 DEF files, Advance, Break, Publish, Link, SyncRead, SyncCompare, SyncReplace
  <2>3. ASSUME NEW w \in Works, Preview(w) \/ StartWork(w) \/ Plan(w) \/ Commit(w)
        PROVE  current' = current
    BY <2>1, <2>3 DEF Tasks, files, Preview, StartWork, Plan, Commit
  <2>4. ASSUME NEW o \in Operations,
               Resend(o) \/ \E kind \in Kinds, live \in BOOLEAN : Request(o, kind, live)
        PROVE  current' = current
    BY <2>1, <2>4 DEF Tasks, Resend, Request
  <2>5. Crash \/ UNCHANGED vars => current' = current
    BY DEF Crash, vars, files
  <2>. QED
    BY <1>0, <2>2, <2>3, <2>4, <2>5 DEF Next
<1>2. registry = NULL /\ Unread
  BY <1>1 DEF Mirrors
<1>3. \A t \in Tasks : \A row : Enter(t, row) => registry' = NULL /\ Unread'
  BY <1>2, EnterMirrors
<1>4. ASSUME NEW t \in Tasks, Advance(t) PROVE registry' = NULL /\ Unread'
  BY <1>0, <1>2, <1>3, <1>4, UnreadStays DEF Advance
<1>5. ASSUME NEW t \in Tasks, Break(t) \/ Publish(t) \/ Link(t) PROVE registry' = NULL /\ Unread'
  <2>1. UNCHANGED registry
    BY <1>5 DEF Break, Publish, Link
  <2>2. \/ Goes(t, "done") \/ Goes(t, "link") \/ Goes(t, "rename")
        \/ Fails(t, TRUE) \/ Fails(t, FALSE)
    BY <1>5 DEF Break, Publish, Link
  <2>. QED
    BY <1>0, <1>2, <2>1, <2>2, StopsUnread
<1>6. ASSUME NEW t \in Tasks, SyncRead(t) PROVE registry' = NULL /\ Unread'
  <2>. DEFINE process == [pc |-> "compare", active |-> current]
  <2>1. process.active = NULL /\ run' = [run EXCEPT ![t] = process] /\ UNCHANGED registry
    BY <1>1, <1>6 DEF SyncRead
  <2>. HIDE DEF process
  <2>. QED
    BY <1>0, <1>2, <2>1, UnreadStays
<1>7. ASSUME NEW t \in Tasks, SyncCompare(t) \/ SyncReplace(t) PROVE registry' = NULL /\ Unread'
  <2>1. run[t] # NULL /\ run[t].active = NULL
    BY <1>2, <1>7 DEF SyncCompare, SyncReplace, Doing, Unread
  <2>2. registry' = NULL /\ (Goes(t, "done") \/ Fails(t, TRUE))
    BY <1>2, <1>7, <2>1 DEF SyncCompare, SyncReplace, Synced
  <2>. QED
    BY <1>0, <1>2, <2>2, StopsUnread
<1>8. ASSUME NEW w \in Works, Preview(w) \/ StartWork(w) \/ Plan(w) \/ Commit(w)
      PROVE  registry' = NULL /\ Unread'
  <2>1. w \in Tasks
    BY DEF Tasks
  <2>2. CASE Preview(w) \/ Commit(w)
    BY <1>2, <2>2 DEF Preview, Commit, Unread
  <2>3. CASE StartWork(w)
    BY <1>3, <2>1, <2>3 DEF StartWork
  <2>4. CASE Plan(w)
    BY <1>0, <1>2, <2>1, <2>4, UnreadStays DEF Plan
  <2>. QED
    BY <1>8, <2>2, <2>3, <2>4
<1>9. ASSUME NEW o \in Operations,
             Resend(o) \/ \E kind \in Kinds, live \in BOOLEAN : Request(o, kind, live)
      PROVE  registry' = NULL /\ Unread'
  BY <1>3, <1>9 DEF Resend, Request, Tasks
<1>10. CASE Crash
  BY <1>2, <1>10 DEF Crash, Unread
<1>11. CASE UNCHANGED vars
  BY <1>2, <1>11 DEF vars, Unread
<1>. QED
  BY <1>0, <1>4, <1>5, <1>6, <1>7, <1>8, <1>9, <1>10, <1>11 DEF Next

LEMMA AlwaysMirrors == Spec => []Mirrors
<1>1. Init => Mirrors
  BY DEF Init, Mirrors, Unread
<1>2. IInv /\ IInv' /\ Mirrors /\ [Next]_vars => Mirrors'
  BY MirrorsStep
<1>. QED
  BY <1>1, <1>2, AlwaysSound, PTL DEF Spec

(* Nothing that Markdown says is suppressed is listed as eligible: as long as a  *)
(* suppression is current.md, or may still become it, an exclusion stands whose *)
(* owner will not release it, however old the row of the registry is.           *)
THEOREM ListedIsNotSuppressedHolds == Spec => []ListedIsNotSuppressed
<1>1. IInv /\ Mirrors => ListedIsNotSuppressed
  <2>. SUFFICES ASSUME IInv, Mirrors, Listed PROVE ~current.doc.tomb
    BY DEF ListedIsNotSuppressed
  <2>1. current # NULL /\ excluded = NULL
    BY DEF Mirrors, Listed
  <2>2. ~Suppressing
    BY <2>1 DEF IInv, Excluding, Held
  <2>. QED
    BY <2>1, <2>2 DEF Suppressing
<1>. QED
  BY <1>1, AlwaysSound, AlwaysMirrors, PTL

(* A version that was linked is never replaced (link(2) and the comparison with  *)
(* the file that is there).                                                     *)
THEOREM VersionsImmutableHolds == Spec => VersionsImmutable
<1>. DEFINE Kept == \A n \in 1..MaxVersion : versions[n] # NULL => versions'[n] = versions[n]
<1>1. IInv /\ [Next]_vars => [Kept]_vars
  <2>. SUFFICES ASSUME IInv, Next PROVE Kept
    OBVIOUS
  <2>1. ASSUME NEW t \in Tasks, Link(t) PROVE Kept
    <3>1. versions \in [1..MaxVersion -> Text \cup {NULL}]
      BY DEF IInv, TypeOK
    <3>2. \/ versions' = versions
          \/ versions[task[t].version] \in {NULL, task[t].doc}
             /\ versions' = [versions EXCEPT ![task[t].version] = task[t].doc]
      BY <2>1 DEF Link
    <3>. QED
      BY <3>1, <3>2
  <2>2. \A t \in Tasks : \A row : Enter(t, row) => versions' = versions
    BY DEF Enter, files
  <2>. QED
    BY <2>1, <2>2 DEF Next, files, Tasks, Advance, Break, Publish, Rename, SyncRead, SyncCompare,
       SyncReplace, Preview, StartWork, Plan, Commit, Resend, Request, Crash
<1>. QED
  BY <1>1, AlwaysSound, PTL DEF Spec, VersionsImmutable
=============================================================================
