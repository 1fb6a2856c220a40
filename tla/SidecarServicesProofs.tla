------------------------ MODULE SidecarServicesProofs ------------------------
(***************************************************************************)
(* Proofs about the sidecar services that MCSidecarServices composes:       *)
(* ConfigurationService, for any number of components, values, projects,    *)
(* keys, revisions, drafts and queued commands; and what frames a turn, the *)
(* injection at its prompt (ActiveInjection), for any number of turns,      *)
(* calls, configurations, failing saves and crashes, and the closure at its *)
(* end (ClosureConfirmation), for any number of Stops, replies, failed      *)
(* writes and restarts, and any limits.                                     *)
(***************************************************************************)
EXTENDS ConfigurationService, ActiveInjection, ClosureConfirmation, FiniteSetTheorems, TLAPS

(* Revisions are numbered without a gap, and a command waiting has room left. *)
RevisionsNumbered ==
    /\ Current \in Nat /\ DOMAIN revisions = 0..Current
    /\ Current + Len(queue) <= MaxRevision
    /\ boot \in 0..Current

Typed ==
    /\ \A r \in DOMAIN revisions : revisions[r] \in Revision
    /\ drafts \in Seq(Draft) /\ Len(drafts) <= MaxDrafts
    /\ receipts \in [Keys -> Receipt \cup {Nil}]
    /\ ready \in BOOLEAN
    /\ queue \in Seq(Command) /\ Len(queue) <= MaxQueue
    /\ stage \in Stage
    /\ plan \in Draft \cup {Nil} /\ (plan = Nil <=> stage = "check")
    /\ previous \in Seq(Configuration) /\ failed \in BOOLEAN
    /\ running \in [1..Size -> Configuration] /\ torn \subseteq 1..Size

(* How far the command at the head of the queue has come.                   *)
Placed ==
    /\ next \in 1..(Size + 1)
    /\ stage # "check" => queue # <<>> /\ next <= Size
    /\ stage \in {"check", "prepare"} => previous = <<>>
    /\ stage = "apply" => Len(previous) = next - 1
    /\ stage = "commit" => next = Size /\ Len(previous) = Size
    /\ stage = "undo" => next <= Len(previous) /\ Len(previous) <= Size

(* A command being executed has not been answered: its key is still free.   *)
Unanswered == stage # "check" => receipts[Cmd.key] = Nil

(* The sets that Accounted and Effective take a maximum of have one.        *)
Highest(S) == \E m \in S : \A x \in S : x <= m
Since == {r \in DOMAIN revisions : r > boot /\ revisions[r].status # "REJECTED"}
Origin == {r \in Accepted(Nil) : r <= boot}
Highests == Highest(Accepted(Nil)) /\ Highest(Origin) /\ (Since # {} => Highest(Since))

(* Between two steps of a command a component that can be trusted works with *)
(* the newest accepted configuration, or the closure that undoes its apply  *)
(* would give that one back; all applied, they work with the new one.       *)
Trusted == (1..Size) \ torn
Applied == CASE stage \in {"check", "prepare"} -> 0
             [] stage = "apply" -> next - 1
             [] stage = "undo" -> next
             [] stage = "commit" -> Size
Runs ==
    /\ \A c \in Trusted : IF c <= Applied THEN previous[c] = Accounted ELSE running[c] = Accounted
    /\ stage \in {"apply", "commit"} => \A c \in 1..Size : c <= Applied => running[c] = plan.cfg

IInv == RevisionsNumbered /\ Typed /\ Placed /\ Unanswered /\ Highests /\ Runs /\ OneRevisionPerKey
-----------------------------------------------------------------------------
(* Maxima.                                                                  *)

LEMMA MaxIs ==
    ASSUME NEW S \in SUBSET Int, NEW m \in S, \A x \in S : x <= m
    PROVE  Max(S) = m
<1>1. m \in Int /\ \A y \in S : m >= y
  OBVIOUS
<1>2. Max(S) \in S /\ \A y \in S : Max(S) >= y
  BY <1>1 DEF Max
<1>3. Max(S) >= m /\ Max(S) <= m /\ Max(S) \in Int
  BY <1>2
<1>. QED
  BY <1>3

LEMMA MaxOfRange ==
    ASSUME NEW n \in Nat
    PROVE  Max(0..n) = n
BY MaxIs

LEMMA HighestIsMax ==
    ASSUME NEW S \in SUBSET Int, Highest(S)
    PROVE  Max(S) \in S
BY MaxIs DEF Highest

-----------------------------------------------------------------------------
(* The record.                                                              *)

LEMMA RecordStays ==
    ASSUME UNCHANGED <<revisions, boot>>
    PROVE  /\ Current' = Current /\ Accounted' = Accounted
           /\ Highests => Highests'
BY DEF Current, Accounted, Highests, Since, Origin, Accepted

LEMMA AccountedIs ==
    ASSUME RevisionsNumbered, Highests
    PROVE  /\ Max(IF Since # {} THEN Since ELSE Origin) \in 0..Current
           /\ Accounted = revisions[Max(IF Since # {} THEN Since ELSE Origin)]
                             .cfg
<1>1. Since \subseteq 0..Current /\ Origin \subseteq 0..Current /\ 0..Current \subseteq Int
  BY DEF RevisionsNumbered, Since, Origin, Accepted
<1>2. Origin # {}
  BY DEF Highests, Highest
<1>3. Max(IF Since # {} THEN Since ELSE Origin) \in IF Since # {} THEN Since ELSE Origin
  BY <1>1, HighestIsMax DEF Highests
<1>. QED
  BY <1>1, <1>3 DEF Accounted, Since, Origin

(* A revision is added: the receipt is the first of its key, and what the    *)
(* components are held to is the new one exactly if it was accepted.        *)
LEMMA CommitRecord ==
    ASSUME IInv, stage # "check", boot' = boot, queue' = Tail(queue),
           NEW status \in {"EFFECTIVE", "REJECTED", "ROLLED_BACK"},
           NEW answer \in Failure \cup {"OK"}, (answer = "OK") <=> (status # "REJECTED"),
           NEW reason \in Failure \cup {Nil},
           CommitRevision(status, answer, reason)
    PROVE  /\ RevisionsNumbered' /\ Highests' /\ OneRevisionPerKey'
           /\ \A r \in DOMAIN revisions' : revisions'[r] \in Revision
           /\ receipts' \in [Keys -> Receipt \cup {Nil}]
           /\ Accounted' = IF status = "REJECTED" THEN Accounted ELSE plan.cfg
<1>0. RevisionsNumbered /\ Typed /\ Placed /\ Unanswered /\ Highests /\ OneRevisionPerKey
  BY DEF IInv
<1>. DEFINE n == Current + 1
            new == [status |-> status, base |-> plan.base, scope |-> plan.scope, cfg |-> plan.cfg,
                    paths |-> plan.paths, reason |-> reason, key |-> Cmd.key]
            receipt == [command |-> Cmd, revision |-> n, answer |-> answer]
<1>1. Current \in Nat /\ DOMAIN revisions = 0..Current /\ boot \in 0..Current
  BY <1>0 DEF RevisionsNumbered
<1>2. queue # <<>> /\ queue \in Seq(Command) /\ plan \in Draft /\ Cmd \in Command
  BY <1>0 DEF Placed, Typed, Cmd
<1>3. Len(queue) \in Nat \ {0} /\ Len(queue') = Len(queue) - 1
  BY <1>2
<1>4. n \in 0..MaxRevision /\ n + Len(queue') <= MaxRevision
  BY <1>0, <1>1, <1>3, ConfigurationAssumption DEF RevisionsNumbered
<1>5. new \in Revision /\ new.status = status /\ new.key = Cmd.key /\ new.cfg = plan.cfg
      /\ Cmd.key \in Keys /\ new.scope = plan.scope
  BY <1>2 DEF Revision, Draft, Command
<1>6. receipt \in Receipt /\ receipt # Nil /\ receipt.revision = n /\ receipt.answer = answer
  BY <1>2, <1>4, ConfigurationAssumption DEF Receipt
<1>7. /\ DOMAIN revisions' = 0..n /\ revisions'[n] = new
      /\ \A r \in 0..Current : revisions'[r] = revisions[r]
  BY <1>1 DEF CommitRevision, Written
<1>8. Current' = n
  BY <1>1, <1>7, MaxOfRange DEF Current
<1>9. receipts' = [receipts EXCEPT ![Cmd.key] = receipt]
  BY <1>0 DEF Unanswered, CommitRevision, WithReceipt
<1>. HIDE DEF new, receipt, n
<1>10. 0..n = 0..Current \cup {n} /\ n \notin 0..Current /\ n \in Nat /\ n > boot
       /\ \A x \in 0..Current : x <= n
  BY <1>1 DEF n
<1>11. RevisionsNumbered'
  BY <1>1, <1>4, <1>7, <1>8, <1>10 DEF RevisionsNumbered
<1>12. \A r \in DOMAIN revisions' : revisions'[r] \in Revision
  BY <1>0, <1>1, <1>5, <1>7, <1>10 DEF Typed
<1>13. /\ receipts' \in [Keys -> Receipt \cup {Nil}]
       /\ \A k \in Keys : receipts'[k] = IF k = Cmd.key THEN receipt ELSE receipts[k]
  BY <1>0, <1>5, <1>6, <1>9 DEF Typed
<1>14. OneRevisionPerKey'
  <2>. SUFFICES ASSUME NEW r \in 0..n, revisions'[r].key # Nil
                PROVE  /\ receipts'[revisions'[r].key] # Nil
                       /\ receipts'[revisions'[r].key].revision = r
                       /\ (receipts'[revisions'[r].key].answer = "OK")
                             <=> (revisions'[r].status # "REJECTED")
    BY <1>7 DEF OneRevisionPerKey
  <2>1. CASE r = n
    BY <1>5, <1>6, <1>7, <1>13, <2>1
  <2>2. CASE r \in 0..Current
    <3>1. revisions'[r] = revisions[r] /\ revisions[r] \in Revision
      BY <1>0, <1>1, <1>7, <2>2 DEF Typed
    <3>2. /\ receipts[revisions[r].key] # Nil /\ receipts[revisions[r].key].revision = r
          /\ (receipts[revisions[r].key].answer = "OK") <=> (revisions[r].status # "REJECTED")
      BY <1>0, <1>1, <2>2, <3>1 DEF OneRevisionPerKey
    <3>3. revisions[r].key # Cmd.key /\ revisions[r].key \in Keys
      BY <1>0, <3>1, <3>2 DEF Unanswered, Revision
    <3>. QED
      BY <1>13, <3>1, <3>2, <3>3
  <2>. QED
    BY <1>10, <2>1, <2>2
<1>15. /\ Since' = Since \cup (IF status = "REJECTED" THEN {} ELSE {n})
       /\ Origin' = Origin
       /\ Accepted(Nil)' \in {Accepted(Nil), Accepted(Nil) \cup {n}}
  <2>1. Since' = {r \in 0..n : r > boot /\ revisions'[r].status # "REJECTED"}
    BY <1>7 DEF Since
  <2>2. Since = {r \in 0..Current : r > boot /\ revisions[r].status # "REJECTED"}
    BY <1>1 DEF Since
  <2>3. Accepted(Nil)' = {r \in 0..n : revisions'[r].scope = Nil /\ revisions'[r].status # "REJECTED"}
    BY <1>7 DEF Accepted
  <2>4. Accepted(Nil) = {r \in 0..Current : revisions[r].scope = Nil /\ revisions[r].status # "REJECTED"}
    BY <1>1 DEF Accepted
  <2>5. Since' = Since \cup (IF status = "REJECTED" THEN {} ELSE {n})
    BY <1>5, <1>7, <1>10, <2>1, <2>2
  <2>6. Accepted(Nil)' = Accepted(Nil) \cup (IF new.scope = Nil /\ status # "REJECTED" THEN {n} ELSE {})
    BY <1>5, <1>7, <1>10, <2>3, <2>4
  <2>7. Origin' = {r \in Accepted(Nil)' : r <= boot} /\ Origin = {r \in Accepted(Nil) : r <= boot}
    BY DEF Origin
  <2>8. ~(n <= boot)
    BY <1>1, <1>10
  <2>. QED
    BY <2>5, <2>6, <2>7, <2>8
<1>16. Since \subseteq 0..Current /\ Origin \subseteq 0..Current /\ Accepted(Nil) \subseteq 0..Current
  BY <1>1 DEF Since, Origin, Accepted
<1>17. Highests'
  <2>1. Highest(Accepted(Nil) \cup {n}) /\ Highest(Since \cup {n})
    BY <1>10, <1>16 DEF Highest
  <2>2. Highest(Accepted(Nil)) /\ Highest(Origin) /\ (Since # {} => Highest(Since))
    BY <1>0 DEF Highests
  <2>3. Highest(Accepted(Nil)') /\ Highest(Origin') /\ (Since' # {} => Highest(Since'))
    BY <1>15, <2>1, <2>2
  <2>. QED
    BY <2>3 DEF Highests, Highest
<1>18. CASE status = "REJECTED"
  <2>1. Since' = Since /\ Origin' = Origin
    BY <1>15, <1>18
  <2>2. Accounted' = revisions'[Max(IF Since # {} THEN Since ELSE Origin)].cfg
    BY <1>11, <1>17, <2>1, <1>0 DEF Accounted, Since, Origin
  <2>. QED
    BY <1>0, <1>7, <1>11, <1>12, <1>13, <1>14, <1>17, <1>18, <2>2, AccountedIs
<1>19. CASE status # "REJECTED"
  <2>1. Since' = Since \cup {n}
    BY <1>15, <1>19
  <2>2. Max(Since') = n
    <3>1. Since \cup {n} \in SUBSET Int /\ n \in Since \cup {n}
          /\ \A x \in Since \cup {n} : x <= n
      BY <1>1, <1>10, <1>16
    <3>2. Max(Since \cup {n}) = n
      BY <3>1, MaxIs
    <3>. QED
      BY <2>1, <3>2
  <2>3. Accounted' = revisions'[Max(Since')].cfg
    BY <2>1 DEF Accounted, Since
  <2>. QED
    BY <1>5, <1>7, <1>11, <1>12, <1>13, <1>14, <1>17, <1>19, <2>2, <2>3
<1>. QED
  BY <1>18, <1>19
-----------------------------------------------------------------------------
(* A command is over.                                                       *)

Settled == \A c \in (1..Size) \ torn : running[c] = Accounted

LEMMA Finished ==
    ASSUME IInv, stage # "check" \/ queue # <<>>, Done, UNCHANGED <<drafts, ready>>,
           RevisionsNumbered', Highests', OneRevisionPerKey',
           \A r \in DOMAIN revisions' : revisions'[r] \in Revision,
           receipts' \in [Keys -> Receipt \cup {Nil}],
           running' \in [1..Size -> Configuration], torn' \subseteq 1..Size, Settled'
    PROVE  IInv'
<1>0. Typed /\ Placed
  BY DEF IInv
<1>1. queue # <<>> /\ queue \in Seq(Command) /\ Len(queue) <= MaxQueue
  BY <1>0 DEF Placed, Typed
<1>2. /\ queue' = Tail(queue) /\ stage' = "check" /\ next' = 1 /\ plan' = Nil
      /\ previous' = <<>> /\ failed' = FALSE
  BY DEF Done
<1>3. queue' \in Seq(Command) /\ Len(queue') <= MaxQueue
  BY <1>1, <1>2, ConfigurationAssumption
<1>4. Typed'
  <2>1. /\ stage' \in Stage /\ plan' \in Draft \cup {Nil} /\ (plan' = Nil <=> stage' = "check")
        /\ failed' \in BOOLEAN
    BY <1>2 DEF Stage
  <2>2. previous' \in Seq(Configuration)
    BY <1>2
  <2>. QED
    BY <1>0, <1>3, <2>1, <2>2 DEF Typed
<1>5. Placed' /\ Unanswered'
  BY <1>2, ConfigurationAssumption DEF Placed, Unanswered
<1>6. Runs'
  <2>1. Applied' = 0
    BY <1>2 DEF Applied
  <2>2. \A c \in Trusted' : c \in 1..Size /\ ~(c <= 0) /\ running'[c] = Accounted'
    BY DEF Settled, Trusted
  <2>. QED
    BY <1>2, <2>1, <2>2 DEF Runs
<1>. QED
  BY <1>4, <1>5, <1>6 DEF IInv

LEMMA Unrecorded ==
    ASSUME IInv, stage # "check" \/ queue # <<>>, queue' = Tail(queue),
           UNCHANGED <<revisions, receipts, boot>>
    PROVE  RevisionsNumbered' /\ Highests' /\ OneRevisionPerKey' /\ Accounted' = Accounted
<1>0. RevisionsNumbered /\ Typed /\ Placed /\ Highests
  BY DEF IInv
<1>1. queue # <<>> /\ queue \in Seq(Command)
  BY <1>0 DEF Placed, Typed
<1>2. Len(queue) \in Nat \ {0} /\ Len(queue') = Len(queue) - 1
  BY <1>1
<1>3. Current' = Current /\ Accounted' = Accounted /\ Highests'
  BY <1>0, RecordStays
<1>4. Current + Len(queue') <= MaxRevision
  BY <1>0, <1>2, ConfigurationAssumption DEF RevisionsNumbered
<1>. QED
  BY <1>0, <1>3, <1>4 DEF RevisionsNumbered, IInv, OneRevisionPerKey

LEMMA RejectStep ==
    ASSUME IInv, stage # "check", NEW reason \in Failure, Reject(reason),
           UNCHANGED <<drafts, ready, boot>>,
           running' \in [1..Size -> Configuration], torn' \subseteq 1..Size,
           \A c \in (1..Size) \ torn' : running'[c] = Accounted
    PROVE  IInv'
<1>1. Done /\ queue' = Tail(queue)
  BY DEF Reject, Done
<1>2. /\ RevisionsNumbered' /\ Highests' /\ OneRevisionPerKey'
      /\ \A r \in DOMAIN revisions' : revisions'[r] \in Revision
      /\ receipts' \in [Keys -> Receipt \cup {Nil}]
      /\ Accounted' = Accounted
  <2>1. CASE CommitRevision("REJECTED", reason, reason)
    <3>1. reason # "OK"
      BY DEF Failure
    <3>. QED
      BY <1>1, <2>1, <3>1, CommitRecord
  <2>2. CASE UNCHANGED <<revisions, receipts>>
    BY <1>1, <2>2, Unrecorded DEF IInv, Typed
  <2>. QED
    BY <2>1, <2>2 DEF Reject
<1>3. Settled'
  BY <1>2 DEF Settled
<1>. QED
  BY <1>1, <1>2, <1>3, Finished

-----------------------------------------------------------------------------
(* The operator, and the capabilities.                                      *)

LEMMA ValidateStep ==
    ASSUME IInv, ValidateDraft
    PROVE  IInv'
<1>0. RevisionsNumbered /\ Typed /\ Placed /\ Unanswered /\ Highests /\ Runs /\ OneRevisionPerKey
  BY DEF IInv
<1>1. /\ UNCHANGED <<revisions, receipts, ready, queue, stage, next, plan, previous, failed,
                     running, torn, boot>>
      /\ Len(drafts) < MaxDrafts
  BY DEF ValidateDraft, command, runtime
<1>2. Current' = Current /\ Accounted' = Accounted /\ Highests'
  BY <1>0, <1>1, RecordStays
<1>3. PICK scope \in Scope, cfg \in Configuration :
         drafts' = Append(drafts, [base |-> Current, scope |-> scope, cfg |-> cfg,
                                   paths |-> Changed(scope, cfg),
                                   activatable |-> ~Disabled(Changed(scope, cfg))])
  BY DEF ValidateDraft
<1>4. Changed(scope, cfg) \in SUBSET Paths /\ Current \in 0..MaxRevision
  <2>1. Current \in Nat /\ Len(queue) \in Nat /\ Current + Len(queue) <= MaxRevision
    BY <1>0 DEF RevisionsNumbered, Typed
  <2>. QED
    BY <2>1, ConfigurationAssumption DEF Changed
<1>5. [base |-> Current, scope |-> scope, cfg |-> cfg, paths |-> Changed(scope, cfg),
       activatable |-> ~Disabled(Changed(scope, cfg))] \in Draft
  <2>1. (~Disabled(Changed(scope, cfg))) \in BOOLEAN
    BY DEF Disabled
  <2>. QED
    BY <1>4, <2>1 DEF Draft
<1>6. drafts' \in Seq(Draft) /\ Len(drafts') <= MaxDrafts
  BY <1>0, <1>1, <1>3, <1>5, ConfigurationAssumption DEF Typed
<1>7. Typed' /\ RevisionsNumbered' /\ Placed' /\ Unanswered' /\ OneRevisionPerKey'
  BY <1>0, <1>1, <1>2, <1>6 DEF Typed, RevisionsNumbered, Placed, Unanswered, OneRevisionPerKey, Cmd
<1>8. Runs'
  BY <1>0, <1>1, <1>2 DEF Runs, Trusted, Applied
<1>. QED
  BY <1>2, <1>7, <1>8 DEF IInv

LEMMA EnqueueStep ==
    ASSUME IInv, Enqueue
    PROVE  IInv'
<1>0. RevisionsNumbered /\ Typed /\ Placed /\ Unanswered /\ Highests /\ Runs /\ OneRevisionPerKey
  BY DEF IInv
<1>1. /\ UNCHANGED <<revisions, receipts, drafts, ready, stage, next, plan, previous, failed,
                     running, torn, boot>>
      /\ Len(queue) < MaxQueue /\ Current + Len(queue) < MaxRevision
  BY DEF Enqueue, persistent, runtime
<1>2. Current' = Current /\ Accounted' = Accounted /\ Highests'
  BY <1>0, <1>1, RecordStays
<1>3. PICK cmd \in Command : queue' = Append(queue, cmd)
  <2>1. PICK type \in {"activate", "rollback"}, expected \in 0..Current, key \in Keys :
          \E target \in IF type = "activate" THEN DOMAIN drafts ELSE 0..Current :
             queue' = Append(queue, [type |-> type, expected |-> expected,
                                     target |-> target, key |-> key])
    BY DEF Enqueue
  <2>2. PICK target \in IF type = "activate" THEN DOMAIN drafts ELSE 0..Current :
             queue' = Append(queue, [type |-> type, expected |-> expected,
                                     target |-> target, key |-> key])
    BY <2>1
  <2>3. Current \in Nat /\ Len(queue) \in Nat /\ Current + Len(queue) <= MaxRevision
    BY <1>0 DEF RevisionsNumbered, Typed
  <2>4. Len(drafts) \in Nat /\ Len(drafts) <= MaxDrafts /\ DOMAIN drafts = 1..Len(drafts)
    BY <1>0 DEF Typed
  <2>5. expected \in 0..MaxRevision /\ target \in 0..(MaxRevision + MaxDrafts)
    BY <2>1, <2>2, <2>3, <2>4, ConfigurationAssumption
  <2>. QED
    BY <2>2, <2>5 DEF Command
<1>4. /\ queue' \in Seq(Command) /\ Len(queue') = Len(queue) + 1
      /\ queue # <<>> => queue'[1] = queue[1]
      /\ queue' # <<>>
  BY <1>0, <1>3 DEF Typed
<1>5. Len(queue) \in Nat /\ Current \in Nat
  BY <1>0 DEF Typed, RevisionsNumbered
<1>6. Typed' /\ RevisionsNumbered'
  BY <1>0, <1>1, <1>2, <1>4, <1>5, ConfigurationAssumption DEF Typed, RevisionsNumbered
<1>7. Placed' /\ Unanswered' /\ OneRevisionPerKey'
  BY <1>0, <1>1, <1>4 DEF Placed, Unanswered, OneRevisionPerKey, Cmd
<1>8. Runs'
  BY <1>0, <1>1, <1>2 DEF Runs, Trusted, Applied
<1>. QED
  BY <1>2, <1>6, <1>7, <1>8 DEF IInv

LEMMA CapabilityStep ==
    ASSUME IInv, CapabilityChanges \/ UNCHANGED vars
    PROVE  IInv'
<1>0. RevisionsNumbered /\ Typed /\ Placed /\ Unanswered /\ Highests /\ Runs /\ OneRevisionPerKey
  BY DEF IInv
<1>1. UNCHANGED <<revisions, receipts, drafts, queue, stage, next, plan, previous, failed,
                  running, torn, boot>>
  BY DEF CapabilityChanges, vars, persistent, command, runtime
<1>2. Current' = Current /\ Accounted' = Accounted /\ Highests'
  BY <1>0, <1>1, RecordStays
<1>3. ready' \in BOOLEAN
  BY <1>0 DEF CapabilityChanges, vars, Typed
<1>4. Typed' /\ RevisionsNumbered' /\ Placed' /\ Unanswered' /\ OneRevisionPerKey'
  BY <1>0, <1>1, <1>2, <1>3 DEF Typed, RevisionsNumbered, Placed, Unanswered, OneRevisionPerKey, Cmd
<1>5. Runs'
  BY <1>0, <1>1, <1>2 DEF Runs, Trusted, Applied
<1>. QED
  BY <1>2, <1>4, <1>5 DEF IInv

(* Composed again, every component has what is accepted for GLOBAL.         *)
LEMMA RecomposeStep ==
    ASSUME IInv, Recompose
    PROVE  IInv'
<1>0. RevisionsNumbered /\ Typed /\ Highests /\ OneRevisionPerKey
  BY DEF IInv
<1>1. /\ UNCHANGED <<revisions, drafts, receipts, ready>> /\ boot' = Current
      /\ queue' = <<>> /\ stage' = "check" /\ next' = 1 /\ plan' = Nil /\ previous' = <<>>
      /\ failed' = FALSE /\ torn' = {} /\ running' = [c \in 1..Size |-> Effective(Nil)]
  BY DEF Recompose, persistent, Compose
<1>2. Current' = Current /\ Accepted(Nil)' = Accepted(Nil)
  BY <1>1 DEF Current, Accepted
<1>3. Current \in Nat /\ DOMAIN revisions = 0..Current /\ Accepted(Nil) \subseteq 0..Current
  BY <1>0 DEF RevisionsNumbered, Accepted
<1>4. Since' = {} /\ Origin' = Accepted(Nil)
  BY <1>1, <1>2, <1>3 DEF Since, Origin
<1>5. Highests'
  BY <1>0, <1>2, <1>4 DEF Highests, Highest
<1>6. Effective(Nil) = revisions[Max(Accepted(Nil))].cfg
  BY DEF Effective, Latest
<1>7. Accounted' = Effective(Nil)
  BY <1>1, <1>4, <1>6 DEF Accounted, Since, Origin
<1>8. Effective(Nil) \in Configuration
  <2>1. Max(Accepted(Nil)) \in Accepted(Nil)
    BY <1>0, <1>3, HighestIsMax DEF Highests
  <2>2. revisions[Max(Accepted(Nil))] \in Revision
    BY <1>0, <2>1 DEF Typed, Accepted
  <2>. QED
    BY <1>6, <2>2 DEF Revision
<1>9. RevisionsNumbered'
  <2>1. Len(queue) \in Nat /\ Len(queue') = 0
    BY <1>0, <1>1 DEF Typed
  <2>. QED
    BY <1>0, <1>1, <1>2, <1>3, <2>1, ConfigurationAssumption DEF RevisionsNumbered
<1>10. running' \in [1..Size -> Configuration]
  BY <1>1, <1>8
<1>11. Typed'
  <2>1. /\ stage' \in Stage /\ plan' \in Draft \cup {Nil} /\ (plan' = Nil <=> stage' = "check")
        /\ failed' \in BOOLEAN
    BY <1>1 DEF Stage
  <2>2. previous' \in Seq(Configuration) /\ queue' \in Seq(Command) /\ Len(queue') <= MaxQueue
    BY <1>1, ConfigurationAssumption
  <2>. QED
    BY <1>0, <1>1, <1>10, <2>1, <2>2 DEF Typed
<1>12. Placed' /\ Unanswered' /\ OneRevisionPerKey'
  BY <1>0, <1>1, ConfigurationAssumption DEF Placed, Unanswered, OneRevisionPerKey
<1>13. Runs'
  BY <1>1, <1>7 DEF Runs, Trusted, Applied
<1>. QED
  BY <1>5, <1>9, <1>11, <1>12, <1>13 DEF IInv
-----------------------------------------------------------------------------
(* The command at the head of the queue.                                    *)

LEMMA TargetTyped ==
    ASSUME IInv, stage = "check", queue # <<>>, Refused = Nil
    PROVE  Target \in Draft
<1>0. RevisionsNumbered /\ Typed
  BY DEF IInv
<1>1. Target # Nil
  BY ConfigurationAssumption DEF Refused, Refusal
<1>2. CASE Cmd.type = "activate"
  <2>1. Cmd.target \in DOMAIN drafts /\ Target = drafts[Cmd.target]
    BY <1>1, <1>2 DEF Target
  <2>. QED
    BY <1>0, <2>1 DEF Typed
<1>3. CASE Cmd.type # "activate"
  <2>. DEFINE r == revisions[Cmd.target]
  <2>1. /\ Cmd.target \in DOMAIN revisions
        /\ Target = [base |-> Current, scope |-> r.scope, cfg |-> r.cfg,
                     paths |-> Changed(r.scope, r.cfg), activatable |-> TRUE]
    BY <1>1, <1>3 DEF Target
  <2>2. r \in Revision
    BY <1>0, <2>1 DEF Typed
  <2>3. Current \in 0..MaxRevision
    <3>1. Current \in Nat /\ Len(queue) \in Nat /\ Current + Len(queue) <= MaxRevision
      BY <1>0 DEF RevisionsNumbered, Typed
    <3>. QED
      BY <3>1, ConfigurationAssumption
  <2>4. Changed(r.scope, r.cfg) \in SUBSET Paths
    BY DEF Changed
  <2>. HIDE DEF r
  <2>. QED
    BY <2>1, <2>2, <2>3, <2>4 DEF Draft, Revision
<1>. QED
  BY <1>2, <1>3

LEMMA CheckStep ==
    ASSUME IInv, Check
    PROVE  IInv'
<1>0. RevisionsNumbered /\ Typed /\ Placed /\ Unanswered /\ Highests /\ Runs /\ OneRevisionPerKey
  BY DEF IInv
<1>1. UNCHANGED <<revisions, drafts, ready, running, torn, boot>> /\ queue # <<>> /\ stage = "check"
  BY DEF Check, runtime, Standing
<1>2. Current' = Current /\ Accounted' = Accounted /\ Highests'
  BY <1>0, <1>1, RecordStays
<1>3. Settled
  <2>1. Applied = 0
    BY <1>1 DEF Applied
  <2>2. \A c \in Trusted : c \in 1..Size /\ ~(c <= 0)
    BY DEF Trusted
  <2>. QED
    BY <1>0, <2>1, <2>2 DEF Runs, Settled, Trusted
<1>4. Settled'
  BY <1>1, <1>2, <1>3 DEF Settled
<1>5. CASE Done /\ UNCHANGED receipts
  <2>1. queue' = Tail(queue)
    BY <1>5 DEF Done
  <2>. QED
    BY <1>0, <1>1, <1>4, <1>5, <2>1, Unrecorded, Finished DEF Typed
<1>6. ASSUME ~Replayed, Refused # Nil, Done,
             receipts' = WithReceipt(Cmd.key, Refused, Current) PROVE IInv'
  <2>1. queue' = Tail(queue) /\ Cmd \in Command /\ Cmd.key \in Keys
    <3>1. queue' = Tail(queue)
      BY <1>6 DEF Done
    <3>2. queue \in Seq(Command) /\ queue # <<>>
      BY <1>0, <1>1 DEF Typed
    <3>3. Cmd \in Command
      BY <3>2 DEF Cmd
    <3>. QED
      BY <3>1, <3>3 DEF Command
  <2>2. Len(queue) \in Nat \ {0} /\ Len(queue') = Len(queue) - 1
    BY <1>0, <1>1, <2>1 DEF Typed
  <2>3. RevisionsNumbered' /\ Current \in 0..MaxRevision
    BY <1>0, <1>1, <1>2, <2>2, ConfigurationAssumption DEF RevisionsNumbered
  <2>4. Refused \in Refusal
    BY <1>6 DEF Refused, Refusal
  <2>5. receipts' = [receipts EXCEPT ![Cmd.key] = [command |-> Cmd, revision |-> Current, answer |-> Refused]]
    BY <1>6 DEF WithReceipt, Replayed
  <2>6. receipts' \in [Keys -> Receipt \cup {Nil}]
    <3>1. [command |-> Cmd, revision |-> Current, answer |-> Refused] \in Receipt
      BY <2>1, <2>3, <2>4 DEF Receipt
    <3>. QED
      BY <1>0, <2>1, <2>5, <3>1 DEF Typed
  <2>7. OneRevisionPerKey'
    <3>. SUFFICES ASSUME NEW r \in DOMAIN revisions, revisions[r].key # Nil
                  PROVE  receipts'[revisions[r].key] = receipts[revisions[r].key]
      BY <1>0, <1>1 DEF OneRevisionPerKey
    <3>1. receipts[revisions[r].key] # Nil /\ revisions[r].key \in Keys
      BY <1>0 DEF OneRevisionPerKey, Typed, Revision
    <3>2. revisions[r].key # Cmd.key
      BY <1>6, <3>1 DEF Replayed
    <3>. QED
      BY <1>0, <2>5, <3>1, <3>2 DEF Typed
  <2>. QED
    BY <1>0, <1>1, <1>2, <1>4, <1>6, <2>3, <2>6, <2>7, Finished DEF Typed
<1>7. ASSUME ~Replayed, Refused = Nil, Goto("prepare", 1), plan' = Target,
             UNCHANGED <<receipts, previous, failed>> PROVE IInv'
  <2>1. Target \in Draft /\ plan' # Nil
    BY <1>1, <1>7, TargetTyped, ConfigurationAssumption
  <2>2. stage' = "prepare" /\ next' = 1 /\ queue' = queue
    BY <1>7 DEF Goto
  <2>3. Typed' /\ RevisionsNumbered' /\ OneRevisionPerKey'
    BY <1>0, <1>1, <1>2, <1>7, <2>1, <2>2 DEF Typed, RevisionsNumbered, Stage, OneRevisionPerKey
  <2>4. Placed' /\ Unanswered'
    BY <1>0, <1>1, <1>7, <2>2, ConfigurationAssumption DEF Placed, Unanswered, Replayed, Cmd
  <2>5. Runs'
    <3>1. Applied' = 0
      BY <2>2 DEF Applied
    <3>2. \A c \in Trusted' : c \in 1..Size /\ ~(c <= 0) /\ running'[c] = Accounted'
      BY <1>4 DEF Settled, Trusted
    <3>. QED
      BY <2>2, <3>1, <3>2 DEF Runs
  <2>. QED
    BY <1>2, <2>3, <2>4, <2>5 DEF IInv
<1>. QED
  BY <1>5, <1>6, <1>7 DEF Check

LEMMA PrepareStep ==
    ASSUME IInv, Prepare
    PROVE  IInv'
<1>0. RevisionsNumbered /\ Typed /\ Placed /\ Unanswered /\ Highests /\ Runs /\ OneRevisionPerKey
  BY DEF IInv
<1>1. UNCHANGED <<drafts, ready, running, torn, boot>> /\ queue # <<>> /\ stage = "prepare"
  BY DEF Prepare, runtime, Standing
<1>2. \A c \in (1..Size) \ torn : running[c] = Accounted
  <2>1. Applied = 0
    BY <1>1 DEF Applied
  <2>2. \A c \in Trusted : c \in 1..Size /\ ~(c <= 0)
    BY DEF Trusted
  <2>. QED
    BY <1>0, <2>1, <2>2 DEF Runs, Trusted
<1>3. CASE Reject("COMPONENT_PREPARE_FAILED")
  BY <1>0, <1>1, <1>2, <1>3, RejectStep DEF Failure, Typed
<1>4. ASSUME IF next < Size THEN Goto("prepare", next + 1) ELSE Goto("apply", 1),
             UNCHANGED <<plan, previous, failed, revisions, receipts>> PROVE IInv'
  <2>1. /\ queue' = queue /\ next' \in 1..Size /\ stage' \in {"prepare", "apply"}
        /\ stage' = "apply" => next' = 1
    BY <1>0, <1>1, <1>4, ConfigurationAssumption DEF Goto, Placed
  <2>2. Current' = Current /\ Accounted' = Accounted /\ Highests'
    BY <1>0, <1>1, <1>4, RecordStays
  <2>3. Typed' /\ RevisionsNumbered' /\ OneRevisionPerKey'
    BY <1>0, <1>1, <1>4, <2>1, <2>2 DEF Typed, RevisionsNumbered, Stage, OneRevisionPerKey
  <2>4. Placed' /\ Unanswered'
    <3>1. previous' = <<>> /\ Len(previous') = 0
      BY <1>0, <1>1, <1>4 DEF Placed
    <3>. QED
      BY <1>0, <1>1, <1>4, <2>1, <3>1, ConfigurationAssumption DEF Placed, Unanswered, Cmd
  <2>5. Runs'
    <3>1. Applied' = 0
      BY <2>1 DEF Applied
    <3>2. \A c \in Trusted' : c \in 1..Size /\ running'[c] = Accounted'
      BY <1>1, <1>2, <2>2 DEF Trusted
    <3>3. \A c \in 1..Size : ~(c <= 0)
      OBVIOUS
    <3>. QED
      BY <3>1, <3>2, <3>3 DEF Runs
  <2>. QED
    BY <2>2, <2>3, <2>4, <2>5 DEF IInv
<1>. QED
  BY <1>3, <1>4 DEF Prepare

LEMMA ApplyStep ==
    ASSUME IInv, Apply
    PROVE  IInv'
<1>0. RevisionsNumbered /\ Typed /\ Placed /\ Unanswered /\ Highests /\ Runs /\ OneRevisionPerKey
  BY DEF IInv
<1>1. UNCHANGED <<drafts, ready, torn, boot>> /\ queue # <<>> /\ stage = "apply"
  BY DEF Apply, Standing
<1>2. next \in 1..Size /\ Applied = next - 1 /\ Len(previous) = next - 1 /\ previous \in Seq(Configuration)
      /\ running \in [1..Size -> Configuration] /\ plan \in Draft
  BY <1>0, <1>1, ConfigurationAssumption DEF Placed, Applied, Typed
<1>3. ASSUME running' = [running EXCEPT ![next] = plan.cfg],
             previous' = Append(previous, running[next]),
             IF next < Size THEN Goto("apply", next + 1) ELSE Goto("commit", next),
             UNCHANGED <<plan, failed, revisions, receipts>> PROVE IInv'
  <2>1. /\ queue' = queue
        /\ \/ next < Size /\ stage' = "apply" /\ next' = next + 1
           \/ next = Size /\ stage' = "commit" /\ next' = next
    BY <1>2, <1>3, ConfigurationAssumption DEF Goto
  <2>2. Current' = Current /\ Accounted' = Accounted /\ Highests'
    BY <1>0, <1>1, <1>3, RecordStays
  <2>3. /\ previous' \in Seq(Configuration) /\ Len(previous') = next
        /\ previous'[next] = running[next]
        /\ \A c \in 1..(next - 1) : previous'[c] = previous[c]
    BY <1>2, <1>3
  <2>4. /\ running' \in [1..Size -> Configuration] /\ running'[next] = plan.cfg
        /\ \A c \in (1..Size) \ {next} : running'[c] = running[c]
    <3>1. plan.cfg \in Configuration
      BY <1>2 DEF Draft
    <3>. QED
      BY <1>2, <1>3, <3>1
  <2>5. Typed' /\ RevisionsNumbered' /\ OneRevisionPerKey'
    BY <1>0, <1>1, <1>3, <2>1, <2>2, <2>3, <2>4 DEF Typed, RevisionsNumbered, Stage, OneRevisionPerKey
  <2>6. Placed' /\ Unanswered'
    BY <1>0, <1>1, <1>2, <1>3, <2>1, <2>3, ConfigurationAssumption DEF Placed, Unanswered, Cmd
  <2>7. Runs'
    <3>1. Applied' = next
      BY <1>2, <2>1 DEF Applied
    <3>2. ASSUME NEW c \in (1..Size) \ torn
          PROVE  IF c <= next THEN previous'[c] = Accounted ELSE running'[c] = Accounted
      <4>1. IF c <= next - 1 THEN previous[c] = Accounted ELSE running[c] = Accounted
        BY <1>0, <1>2 DEF Runs, Trusted
      <4>. QED
        BY <1>2, <2>3, <2>4, <4>1
    <3>3. ASSUME NEW c \in 1..Size, c <= next PROVE running'[c] = plan.cfg
      <4>1. c <= next - 1 => running[c] = plan.cfg
        BY <1>0, <1>1, <1>2 DEF Runs
      <4>. QED
        BY <1>2, <2>4, <3>3, <4>1
    <3>. QED
      BY <1>1, <1>3, <2>2, <3>1, <3>2, <3>3 DEF Runs, Trusted
  <2>. QED
    BY <2>2, <2>5, <2>6, <2>7 DEF IInv
<1>4. ASSUME previous # <<>>, Goto("undo", Len(previous)),
             UNCHANGED <<plan, previous, failed, revisions, receipts, running>> PROVE IInv'
  <2>1. queue' = queue /\ stage' = "undo" /\ next' = next - 1 /\ next - 1 \in 1..Size
    <3>1. queue' = queue /\ stage' = "undo" /\ next' = Len(previous)
      BY <1>4 DEF Goto
    <3>2. previous \in Seq(Configuration) /\ previous # <<>>
      BY <1>2, <1>4
    <3>3. Len(previous) \in Nat /\ Len(previous) # 0
      BY <3>2
    <3>. QED
      BY <1>2, <3>1, <3>3, ConfigurationAssumption
  <2>2. Current' = Current /\ Accounted' = Accounted /\ Highests'
    BY <1>0, <1>1, <1>4, RecordStays
  <2>3. Typed' /\ RevisionsNumbered' /\ OneRevisionPerKey'
    BY <1>0, <1>1, <1>4, <2>1, <2>2 DEF Typed, RevisionsNumbered, Stage, OneRevisionPerKey
  <2>4. Placed' /\ Unanswered'
    BY <1>0, <1>1, <1>2, <1>4, <2>1, ConfigurationAssumption DEF Placed, Unanswered, Cmd
  <2>5. Runs'
    <3>1. Applied' = Applied
      BY <1>2, <2>1 DEF Applied
    <3>. QED
      BY <1>0, <1>1, <1>4, <2>1, <2>2, <3>1 DEF Runs, Trusted
  <2>. QED
    BY <2>2, <2>3, <2>4, <2>5 DEF IInv
<1>5. ASSUME previous = <<>>, Reject("COMPONENT_APPLY_FAILED"), UNCHANGED running PROVE IInv'
  <2>1. Len(previous) = 0 /\ next = 1
    BY <1>2, <1>5
  <2>2. \A c \in (1..Size) \ torn : running[c] = Accounted
    BY <1>0, <1>2, <2>1 DEF Runs, Trusted
  <2>. QED
    BY <1>0, <1>1, <1>5, <2>2, RejectStep DEF Failure, Typed
<1>. QED
  BY <1>3, <1>4, <1>5 DEF Apply
LEMMA UndoStep ==
    ASSUME IInv, Undo
    PROVE  IInv'
<1>0. RevisionsNumbered /\ Typed /\ Placed /\ Unanswered /\ Highests /\ Runs /\ OneRevisionPerKey
  BY DEF IInv
<1>1. UNCHANGED <<drafts, ready, boot>> /\ queue # <<>> /\ stage = "undo"
  BY DEF Undo, Standing
<1>2. /\ next \in 1..Size /\ Applied = next /\ next <= Len(previous) /\ Len(previous) <= Size
      /\ previous \in Seq(Configuration) /\ Len(previous) \in Nat
      /\ running \in [1..Size -> Configuration] /\ plan \in Draft /\ torn \subseteq 1..Size
      /\ failed \in BOOLEAN
  BY <1>0, <1>1, ConfigurationAssumption DEF Placed, Applied, Typed
<1>3. PICK fails \in BOOLEAN :
         /\ running' = IF fails THEN running ELSE Undone(next)
         /\ torn' = IF fails THEN torn \cup {next} ELSE torn
         /\ \/ /\ next > 1 /\ Goto("undo", next - 1)
               /\ failed' = (failed \/ fails)
               /\ UNCHANGED <<plan, previous, revisions, receipts>>
            \/ /\ next = 1 /\ Len(previous) < Size
               /\ Reject(IF failed \/ fails THEN "COMPONENT_ROLLBACK_FAILED"
                         ELSE "COMPONENT_APPLY_FAILED")
            \/ /\ next = 1 /\ Len(previous) = Size
               /\ Done /\ UNCHANGED <<revisions, receipts>>
  BY <1>1 DEF Undo
\* What the component's closure restores is what it is held to.
<1>4. /\ running' \in [1..Size -> Configuration] /\ torn' \subseteq 1..Size
      /\ \A c \in (1..Size) \ {next} : running'[c] = running[c]
      /\ next \notin torn' => running'[next] = previous[next]
      /\ torn \subseteq torn'
  BY <1>2, <1>3 DEF Undone
<1>5. ASSUME NEW c \in (1..Size) \ torn'
      PROVE  IF c <= next - 1 THEN previous[c] = Accounted ELSE running'[c] = Accounted
  <2>1. IF c <= next THEN previous[c] = Accounted ELSE running[c] = Accounted
    BY <1>0, <1>2, <1>4 DEF Runs, Trusted
  <2>. QED
    BY <1>2, <1>4, <2>1
<1>6. next = 1 => \A c \in (1..Size) \ torn' : running'[c] = Accounted
  BY <1>5
<1>7. ASSUME next > 1, Goto("undo", next - 1), failed' = (failed \/ fails),
             UNCHANGED <<plan, previous, revisions, receipts>> PROVE IInv'
  <2>1. queue' = queue /\ stage' = "undo" /\ next' = next - 1 /\ next - 1 \in 1..Size
    BY <1>2, <1>7, ConfigurationAssumption DEF Goto
  <2>2. Current' = Current /\ Accounted' = Accounted /\ Highests'
    BY <1>0, <1>1, <1>7, RecordStays
  <2>3. failed' \in BOOLEAN
    BY <1>7
  <2>4. Typed' /\ RevisionsNumbered' /\ OneRevisionPerKey'
    BY <1>0, <1>1, <1>4, <1>7, <2>1, <2>2, <2>3 DEF Typed, RevisionsNumbered, Stage, OneRevisionPerKey
  <2>5. Placed' /\ Unanswered'
    BY <1>0, <1>1, <1>2, <1>7, <2>1, ConfigurationAssumption DEF Placed, Unanswered, Cmd
  <2>6. Runs'
    <3>1. Applied' = next - 1
      BY <2>1 DEF Applied
    <3>. QED
      BY <1>5, <1>7, <2>1, <2>2, <3>1 DEF Runs, Trusted
  <2>. QED
    BY <2>2, <2>4, <2>5, <2>6 DEF IInv
<1>8. ASSUME next = 1, NEW reason \in Failure, Reject(reason) PROVE IInv'
  BY <1>1, <1>4, <1>6, <1>8, RejectStep
<1>9. ASSUME next = 1, Done, UNCHANGED <<revisions, receipts>> PROVE IInv'
  <2>1. queue' = Tail(queue)
    BY <1>9 DEF Done
  <2>2. RevisionsNumbered' /\ Highests' /\ OneRevisionPerKey' /\ Accounted' = Accounted
    BY <1>1, <1>9, <2>1, Unrecorded
  <2>3. Settled'
    BY <1>6, <1>9, <2>2 DEF Settled
  <2>. QED
    BY <1>0, <1>1, <1>4, <1>9, <2>2, <2>3, Finished DEF Typed
<1>10. (IF failed \/ fails THEN "COMPONENT_ROLLBACK_FAILED" ELSE "COMPONENT_APPLY_FAILED") \in Failure
  BY DEF Failure
<1>. QED
  BY <1>3, <1>7, <1>8, <1>9, <1>10

LEMMA CommitStep ==
    ASSUME IInv, Commit
    PROVE  IInv'
<1>0. RevisionsNumbered /\ Typed /\ Placed /\ Unanswered /\ Highests /\ Runs /\ OneRevisionPerKey
  BY DEF IInv
<1>1. UNCHANGED <<drafts, ready, running, boot>> /\ queue # <<>> /\ stage = "commit"
  BY DEF Commit, Standing
<1>2. /\ next = Size /\ Applied = Size /\ Len(previous) = Size /\ Size \in Nat \ {0}
      /\ running \in [1..Size -> Configuration]
  BY <1>0, <1>1, ConfigurationAssumption DEF Placed, Applied, Typed
<1>3. ASSUME Done, torn' = {},
             CommitRevision(IF Cmd.type = "activate" THEN "EFFECTIVE" ELSE "ROLLED_BACK", "OK", Nil)
      PROVE  IInv'
  <2>. DEFINE status == IF Cmd.type = "activate" THEN "EFFECTIVE" ELSE "ROLLED_BACK"
  <2>1. status \in {"EFFECTIVE", "REJECTED", "ROLLED_BACK"} /\ status # "REJECTED"
    OBVIOUS
  <2>2. queue' = Tail(queue) /\ CommitRevision(status, "OK", Nil)
    BY <1>3 DEF Done
  <2>. HIDE DEF status
  <2>3. /\ RevisionsNumbered' /\ Highests' /\ OneRevisionPerKey'
        /\ \A r \in DOMAIN revisions' : revisions'[r] \in Revision
        /\ receipts' \in [Keys -> Receipt \cup {Nil}]
        /\ Accounted' = plan.cfg
    BY <1>1, <2>1, <2>2, CommitRecord
  <2>4. \A c \in 1..Size : running[c] = plan.cfg
    BY <1>0, <1>1, <1>2 DEF Runs
  <2>5. Settled'
    BY <1>1, <2>3, <2>4 DEF Settled
  <2>. QED
    BY <1>1, <1>2, <1>3, <2>3, <2>5, Finished
<1>4. ASSUME Goto("undo", Size),
             UNCHANGED <<plan, previous, failed, revisions, receipts, torn>> PROVE IInv'
  <2>1. queue' = queue /\ stage' = "undo" /\ next' = Size
    BY <1>4 DEF Goto
  <2>2. Current' = Current /\ Accounted' = Accounted /\ Highests'
    BY <1>0, <1>1, <1>4, RecordStays
  <2>3. Typed' /\ RevisionsNumbered' /\ OneRevisionPerKey'
    BY <1>0, <1>1, <1>4, <2>1, <2>2 DEF Typed, RevisionsNumbered, Stage, OneRevisionPerKey
  <2>4. Placed' /\ Unanswered'
    BY <1>0, <1>1, <1>2, <1>4, <2>1 DEF Placed, Unanswered, Cmd
  <2>5. Runs'
    <3>1. Applied' = Applied
      BY <1>2, <2>1 DEF Applied
    <3>. QED
      BY <1>0, <1>1, <1>4, <2>1, <2>2, <3>1 DEF Runs, Trusted
  <2>. QED
    BY <2>2, <2>3, <2>4, <2>5 DEF IInv
<1>. QED
  BY <1>3, <1>4 DEF Commit

-----------------------------------------------------------------------------
LEMMA Initially ==
    ASSUME Init
    PROVE  IInv
<1>. DEFINE first == [status |-> "EFFECTIVE", base |-> 0, scope |-> Nil,
                      cfg |-> DefaultConfiguration, paths |-> {}, reason |-> Nil, key |-> Nil]
<1>1. /\ revisions = [r \in {0} |-> first]
      /\ drafts = <<>> /\ receipts = [k \in Keys |-> Nil] /\ ready \in BOOLEAN
      /\ queue = <<>> /\ stage = "check" /\ next = 1 /\ plan = Nil /\ previous = <<>>
      /\ failed = FALSE /\ running = [c \in 1..Size |-> DefaultConfiguration] /\ torn = {}
      /\ boot = 0
  BY DEF Init
<1>2. DefaultConfiguration \in Configuration
  BY ConfigurationAssumption DEF DefaultConfiguration, Configuration
<1>3. first \in Revision /\ first.scope = Nil /\ first.status = "EFFECTIVE"
      /\ first.cfg = DefaultConfiguration /\ first.key = Nil
  BY <1>2, ConfigurationAssumption DEF Revision, Scope
<1>. HIDE DEF first
<1>4. DOMAIN revisions = {0} /\ revisions[0] = first
  BY <1>1
<1>5. Current = 0
  BY <1>4, MaxIs DEF Current
<1>6. RevisionsNumbered
  <2>1. Len(queue) = 0
    BY <1>1
  <2>. QED
    BY <1>1, <1>4, <1>5, <2>1, ConfigurationAssumption DEF RevisionsNumbered
<1>7. Accepted(Nil) = {0} /\ Since = {} /\ Origin = {0}
  <2>1. Accepted(Nil) = {0}
    BY <1>3, <1>4 DEF Accepted
  <2>. QED
    BY <1>1, <1>4, <2>1 DEF Since, Origin
<1>8. Highests
  BY <1>7 DEF Highests, Highest
<1>9. Accounted = DefaultConfiguration
  <2>1. Max({0}) = 0
    BY MaxIs
  <2>2. Accounted = revisions[Max({0})].cfg
    BY <1>7 DEF Accounted, Since, Origin
  <2>. QED
    BY <1>3, <1>4, <2>1, <2>2
<1>10. Typed
  <2>1. /\ stage \in Stage /\ plan \in Draft \cup {Nil} /\ (plan = Nil <=> stage = "check")
        /\ failed \in BOOLEAN /\ ready \in BOOLEAN
    BY <1>1 DEF Stage
  <2>2. previous \in Seq(Configuration) /\ queue \in Seq(Command) /\ Len(queue) <= MaxQueue
        /\ drafts \in Seq(Draft) /\ Len(drafts) <= MaxDrafts
    BY <1>1, ConfigurationAssumption
  <2>3. receipts \in [Keys -> Receipt \cup {Nil}]
    BY <1>1
  <2>4. running \in [1..Size -> Configuration] /\ torn \subseteq 1..Size
    BY <1>1, <1>2
  <2>5. \A r \in DOMAIN revisions : revisions[r] \in Revision
    BY <1>3, <1>4
  <2>. QED
    BY <2>1, <2>2, <2>3, <2>4, <2>5 DEF Typed
<1>11. Placed /\ Unanswered
  BY <1>1, ConfigurationAssumption DEF Placed, Unanswered
<1>12. OneRevisionPerKey
  BY <1>3, <1>4 DEF OneRevisionPerKey
<1>13. Runs
  <2>1. Applied = 0
    BY <1>1 DEF Applied
  <2>2. \A c \in 1..Size : running[c] = Accounted /\ ~(c <= 0)
    BY <1>1, <1>9
  <2>. QED
    BY <1>1, <2>1, <2>2 DEF Runs, Trusted
<1>. QED
  BY <1>6, <1>8, <1>10, <1>11, <1>12, <1>13 DEF IInv

LEMMA StepKeeps ==
    ASSUME IInv, [Next]_vars
    PROVE  IInv'
BY ValidateStep, EnqueueStep, CheckStep, PrepareStep, ApplyStep, UndoStep, CommitStep,
   CapabilityStep, RecomposeStep DEF Next, Step

LEMMA InvariantGivesProperties ==
    ASSUME IInv
    PROVE  RuntimeFollowsRecord /\ OneRevisionPerKey /\ TypeOK
<1>0. RevisionsNumbered /\ Typed /\ Placed /\ Runs /\ OneRevisionPerKey
  BY DEF IInv
<1>1. RuntimeFollowsRecord
  <2>. SUFFICES ASSUME stage \in {"check", "prepare"}
                PROVE  \A c \in (1..Size) \ torn : running[c] = Accounted
    BY DEF RuntimeFollowsRecord
  <2>1. Applied = 0
    BY DEF Applied
  <2>2. \A c \in Trusted : c \in 1..Size /\ ~(c <= 0)
    BY DEF Trusted
  <2>. QED
    BY <1>0, <2>1, <2>2 DEF Runs, Trusted
<1>2. Len(queue) \in Nat /\ Current \in 0..MaxRevision
  <2>1. Len(queue) \in Nat
    BY <1>0 DEF Typed
  <2>. QED
    BY <1>0, <2>1, ConfigurationAssumption DEF RevisionsNumbered
<1>3. TypeOK
  BY <1>0, <1>2 DEF TypeOK, RevisionsNumbered, Typed, Placed
<1>. QED
  BY <1>0, <1>1, <1>3

(* The induction along a behaviour.                                         *)
LEMMA AlwaysSound == Spec => []IInv
<1>1. Init => IInv
  BY Initially
<1>2. IInv /\ [Next]_vars => IInv'
  BY StepKeeps
<1>. QED
  BY <1>1, <1>2, PTL DEF Spec

-----------------------------------------------------------------------------
(* Theorems.                                                                *)

(* Every variable keeps to its type: revisions are numbered 0..Current       *)
(* without a gap, and a plan is held exactly while a command is executed.   *)
THEOREM TypeCorrect == Spec => []TypeOK
<1>1. IInv => TypeOK
  BY InvariantGivesProperties
<1>. QED
  BY <1>1, AlwaysSound, PTL

(* Whatever was refused, failed, thrown or interrupted by a restart, between *)
(* commands (activate and rollback of SqliteConfigurationService) every     *)
(* component whose own rollback did not fail runs with the newest           *)
(* configuration accepted since the process started, or else with the one   *)
(* it was composed from.                                                    *)
THEOREM RuntimeFollowsRecordHolds == Spec => []RuntimeFollowsRecord
<1>1. IInv => RuntimeFollowsRecord
  BY InvariantGivesProperties
<1>. QED
  BY <1>1, AlwaysSound, PTL

(* Every revision a command wrote is the one the receipt of its key names,   *)
(* with the answer that fits its status: a retry is never applied again.    *)
THEOREM OneRevisionPerKeyHolds == Spec => []OneRevisionPerKey
<1>1. IInv => OneRevisionPerKey
  BY InvariantGivesProperties
<1>. QED
  BY <1>1, AlwaysSound, PTL

-----------------------------------------------------------------------------
Modes == {"SHADOW", "ACTIVE"}
Evidence == [config : Fingerprints, eligible : BOOLEAN]
EffectivePolicy == [policy : Int, mode : Modes, config : Fingerprints, canary : Scopes \cup {{}},
              evidence : Evidence \cup {NULL}, since : Int]
State == [revision : Int, effective : EffectivePolicy, good : EffectivePolicy,
          evidence : SUBSET Evidence, policies : SUBSET Int]
Runtime == [revision : Int, mode : Modes]
Rollout == [memory : State, file : State, shadowed : BOOLEAN, runtime : Runtime, failures : Int]

(* A state, in memory or in the file: its effective revision is no younger  *)
(* than itself, and it knows the policies in force and their highest.       *)
StateOK(m) ==
    /\ m \in State
    /\ m.effective.since <= m.revision
    /\ {m.effective.policy, m.good.policy} \subseteq m.policies
    /\ \E p \in m.policies : \A q \in m.policies : q <= p

(* What ControllerFollowsState rests on: a forced controller is at most one *)
(* revision ahead, and never when the state is SHADOW.                      *)
RolloutOK(r) ==
    LET now == r.memory.effective IN
    /\ r \in Rollout /\ StateOK(r.memory) /\ StateOK(r.file)
    /\ r.runtime.revision <= r.memory.revision + 1
    /\ now.mode = "SHADOW" =>
         ~r.shadowed /\ r.runtime.mode = "SHADOW" /\ r.runtime.revision <= r.memory.revision
    /\ now.mode = "ACTIVE" => ((r.runtime.mode = "ACTIVE") <=> ~r.shadowed)
    /\ r.runtime.mode = "ACTIVE" =>
         now.since <= r.runtime.revision /\ r.runtime.revision <= r.memory.revision

InFlight == {"retrieve", "gate", "finish"}
Decisions == [mode : Modes, policy : Int]
Hook == [phase : InFlight \cup {"idle", "answer", "ack"}, decision : Decisions \cup {NULL},
         start : Runtime \cup {NULL}, seen : Int \cup {NULL}, admitted : BOOLEAN]

(* What a call in flight knows of the rollout r: the controller it started  *)
(* under tells whether its activation is still the one in force, and so     *)
(* does the policy revision it was decided by.                              *)
Fits(r, t, decision, start) ==
    LET now == r.memory.effective IN
    /\ decision.mode = start.mode
    /\ decision.mode = "ACTIVE" =>
         /\ start.revision <= r.memory.revision
         /\ decision.policy \in r.memory.policies
         /\ r.runtime = start => now.policy = decision.policy /\ t \in now.canary
         /\ now.mode = "ACTIVE" /\ now.policy = decision.policy => now.since <= start.revision

CallOK(t) ==
    hooks[t].phase \in InFlight =>
        /\ hooks[t].decision \in Decisions /\ hooks[t].start \in Runtime
        /\ Fits(rollout, t, hooks[t].decision, hooks[t].start)
        /\ Up
        /\ hooks[t].phase # "retrieve" => hooks[t].seen \in Int

(* An answer that is on its way, or was written out, is that of an attempt  *)
(* on record as injected.                                                   *)
Recording(id, version) ==
    id \in DOMAIN attempts /\ attempts[id].status = "INJECTED" /\ attempts[id].envelope = version

AnswerOK(t) ==
    hooks[t].phase \in {"answer", "ack"} =>
        /\ Recording(Attempt(t, "retrieved"), hooks[t].seen)
        /\ hooks[t].phase = "ack" => \E d \in delivered : d.id = Attempt(t, "retrieved")

RecordsOK ==
    /\ \A id \in DOMAIN attempts : attempts[id] \in AttemptRows
    /\ \A d \in delivered : Recording(d.id, d.version)
    /\ \A id \in DOMAIN attempts : attempts[id].revision = 2 => \E d \in delivered : d.id = id

Types ==
    /\ composition \in Fingerprints \cup {NULL}
    /\ hooks \in [Turns -> Hook]
    /\ asset \in [version : Int, suppressed : BOOLEAN]
    /\ crashes \in Int /\ calls \in Int

AInv ==
    /\ Types /\ RolloutOK(rollout)
    /\ \A t \in Turns : CallOK(t)
    /\ \A t \in Turns : AnswerOK(t)
    /\ RecordsOK

-----------------------------------------------------------------------------
(* The rollout.  What an operation owes: a sound rollout, that calls in     *)
(* flight still fit.                                                        *)
Carries(r, r2) ==
    /\ RolloutOK(r2)
    /\ \A t \in Turns, d \in Decisions, s \in Runtime : Fits(r, t, d, s) => Fits(r2, t, d, s)

LEMMA CarriesOn ==
    ASSUME NEW r, NEW r1, NEW r2, Carries(r, r1), Carries(r1, r2)
    PROVE  Carries(r, r2)
  BY DEF Carries

LEMMA Fields ==
    ASSUME NEW r \in Rollout, NEW x \in State
    PROVE  /\ [r EXCEPT !.file = x] \in Rollout
           /\ [r EXCEPT !.memory = x, !.file = x] \in Rollout
           /\ [r EXCEPT !.failures = @ + 1] \in Rollout
<1>1. [r EXCEPT !.file = x] \in Rollout
  BY DEF Rollout
<1>2. [r EXCEPT !.memory = x, !.file = x] \in Rollout
  BY DEF Rollout
<1>3. [r EXCEPT !.failures = @ + 1] \in Rollout
  BY DEF Rollout
<1>. QED
  BY <1>1, <1>2, <1>3

LEMMA SavesLeave ==
    ASSUME NEW r \in Rollout, NEW succ \in State, NEW o \in Saves(r, succ)
    PROVE  /\ o.r \in Rollout /\ o.ok \in BOOLEAN
           /\ o.r.shadowed = r.shadowed /\ o.r.runtime = r.runtime
           /\ o.ok => o.r.memory = succ /\ o.r.file = succ
           /\ ~o.ok => o.r.memory = r.memory /\ o.r.file \in {r.file, succ}
<1>1. PICK good, lost, kept :
        /\ good = [r EXCEPT !.memory = succ, !.file = succ]
        /\ lost = [r EXCEPT !.failures = @ + 1]
        /\ kept = [lost EXCEPT !.file = succ]
  OBVIOUS
<1>2. good \in Rollout /\ lost \in Rollout /\ kept \in Rollout
  BY <1>1, Fields
<1>3. \/ o = [ok |-> FALSE, r |-> r] \/ o = [ok |-> TRUE, r |-> good]
      \/ o = [ok |-> FALSE, r |-> lost] \/ o = [ok |-> FALSE, r |-> kept]
  BY <1>1 DEF Saves
<1>4. CASE o = [ok |-> FALSE, r |-> r]
  BY <1>4
<1>5. CASE o = [ok |-> TRUE, r |-> good]
  BY <1>1, <1>2, <1>5 DEF Rollout
<1>6. CASE o = [ok |-> FALSE, r |-> lost]
  BY <1>1, <1>2, <1>6 DEF Rollout
<1>7. CASE o = [ok |-> FALSE, r |-> kept]
  BY <1>1, <1>2, <1>7 DEF Rollout
<1>. QED
  BY <1>3, <1>4, <1>5, <1>6, <1>7

(* A save of a sound state with the effective revision and the policies of  *)
(* before changes nothing that matters, and neither does one that fails.    *)
LEMMA SavedCarries ==
    ASSUME NEW r, RolloutOK(r), NEW succ, StateOK(succ), NEW o \in Saves(r, succ),
           ~o.ok \/ /\ succ.effective = r.memory.effective
                    /\ succ.policies = r.memory.policies
                    /\ succ.revision = r.memory.revision + 1
    PROVE  Carries(r, o.r)
<1>. r \in Rollout /\ succ \in State
  BY DEF RolloutOK, StateOK
<1>1. /\ o.r \in Rollout /\ o.ok \in BOOLEAN
      /\ o.r.shadowed = r.shadowed /\ o.r.runtime = r.runtime
      /\ o.ok => o.r.memory = succ /\ o.r.file = succ
      /\ ~o.ok => o.r.memory = r.memory /\ o.r.file \in {r.file, succ}
  BY SavesLeave
<1>2. RolloutOK(o.r)
  BY <1>1 DEF RolloutOK, Rollout, State, Runtime
<1>3. ASSUME NEW t \in Turns, NEW d \in Decisions, NEW s \in Runtime, Fits(r, t, d, s)
      PROVE  Fits(o.r, t, d, s)
  BY <1>1, <1>3 DEF Fits, Rollout, State, Runtime
<1>. QED
  BY <1>2, <1>3 DEF Carries

LEMMA ForcedCarries ==
    ASSUME NEW r, RolloutOK(r), r.memory.effective.mode = "ACTIVE"
    PROVE  Carries(r, Forced(r, r.memory.revision + 1))
<1>. DEFINE f == Forced(r, r.memory.revision + 1)
<1>0. r \in Rollout /\ r.memory \in State /\ r.runtime \in Runtime
  BY DEF RolloutOK, Rollout
<1>1. /\ f \in Rollout /\ f.memory = r.memory /\ f.file = r.file /\ f.shadowed
      /\ f.runtime = Lowered(r.runtime, r.memory.revision + 1)
  <2>1. PICK lowered : lowered = Lowered(r.runtime, r.memory.revision + 1)
    OBVIOUS
  <2>2. lowered \in Runtime
    BY <1>0, <2>1 DEF Lowered, Runtime, State, Modes
  <2>3. f = [r EXCEPT !.shadowed = TRUE, !.runtime = lowered]
    BY <2>1 DEF Forced
  <2>. QED
    BY <1>0, <2>1, <2>2, <2>3 DEF Rollout
<1>2. f.runtime.mode = "SHADOW" /\ f.runtime.revision = r.memory.revision + 1
  BY <1>0, <1>1 DEF Lowered, RolloutOK, Runtime, State, Modes
<1>3. RolloutOK(f)
  BY <1>0, <1>1, <1>2 DEF RolloutOK, State
<1>4. ASSUME NEW t \in Turns, NEW d \in Decisions, NEW s \in Runtime, Fits(r, t, d, s)
      PROVE  Fits(f, t, d, s)
  BY <1>1, <1>2, <1>4 DEF Fits
<1>. QED
  BY <1>3, <1>4 DEF Carries

(* What a downgrade makes effective, and the state that says so.            *)
Shadow(e, since) == [e EXCEPT !.mode = "SHADOW", !.since = since]
WithdrawnTo(m, sh) == [m EXCEPT !.revision = @ + 1, !.effective = sh, !.good = sh,
                                !.policies = @ \cup {sh.policy}]

LEMMA Shadowed ==
    ASSUME NEW e \in EffectivePolicy, NEW x \in Int
    PROVE  LET sh == Shadow(e, x) IN
           sh \in EffectivePolicy /\ sh.mode = "SHADOW" /\ sh.since = x /\ sh.policy = e.policy
<1>1. Shadow(e, x) \in EffectivePolicy
  BY DEF EffectivePolicy, Modes, Shadow
<1>2. Shadow(e, x).mode = "SHADOW" /\ Shadow(e, x).since = x /\ Shadow(e, x).policy = e.policy
  BY DEF EffectivePolicy, Shadow
<1>. QED
  BY <1>1, <1>2

LEMMA Withdrawn ==
    ASSUME NEW m \in State, NEW sh \in EffectivePolicy, sh.policy \in m.policies
    PROVE  LET succ == WithdrawnTo(m, sh) IN
           /\ succ \in State /\ succ.revision = m.revision + 1 /\ succ.effective = sh
           /\ succ.good = sh /\ succ.policies = m.policies
<1>. DEFINE succ == WithdrawnTo(m, sh)
<1>1. m.policies \cup {sh.policy} = m.policies
  OBVIOUS
<1>2. succ = [m EXCEPT !.revision = @ + 1, !.effective = sh, !.good = sh, !.policies = m.policies]
  BY <1>1 DEF WithdrawnTo
<1>. HIDE DEF succ
<1>3. /\ succ.revision = m.revision + 1 /\ succ.effective = sh /\ succ.good = sh
      /\ succ.policies = m.policies
  BY <1>2 DEF State
<1>4. succ = [revision |-> m.revision + 1, effective |-> sh, good |-> sh,
              evidence |-> m.evidence, policies |-> m.policies]
  BY <1>2 DEF State
<1>5. succ \in State
  BY <1>4 DEF State
<1>. QED
  BY <1>3, <1>5 DEF succ

LEMMA DowngradedCarries ==
    ASSUME NEW r, RolloutOK(r), NEW r2 \in Downgraded(r)
    PROVE  Carries(r, r2)
<1>. DEFINE m == r.memory
            shadow == Shadow(m.good, m.revision + 1)
            succ == WithdrawnTo(m, shadow)
<1>0. r \in Rollout /\ m \in State /\ r.runtime \in Runtime /\ StateOK(m)
  BY DEF RolloutOK, Rollout
<1>1. CASE m.effective.mode = "SHADOW"
  <2>1. r2 = r
    BY <1>1 DEF Downgraded
  <2>. QED
    BY <2>1 DEF Carries
<1>2. CASE m.effective.mode = "ACTIVE"
  <2>1. /\ shadow \in EffectivePolicy /\ shadow.mode = "SHADOW" /\ shadow.since = m.revision + 1
        /\ shadow.policy = m.good.policy
    <3>1. m.good \in EffectivePolicy /\ m.revision + 1 \in Int
      BY <1>0 DEF State
    <3>. QED
      BY <3>1, Shadowed
  <2>2. /\ succ \in State /\ succ.revision = m.revision + 1 /\ succ.effective = shadow
        /\ succ.good = shadow /\ succ.policies = m.policies
    BY <1>0, <2>1, Withdrawn DEF StateOK
  <2>4. PICK o \in Saves(r, succ) :
          r2 = IF o.ok THEN [o.r EXCEPT !.shadowed = FALSE, !.runtime = Lowered(@, succ.revision)]
               ELSE Forced(o.r, succ.revision)
    BY <1>2 DEF Downgraded, Shadow, WithdrawnTo
  <2>. HIDE DEF succ, shadow
  <2>3. StateOK(succ)
    BY <1>0, <2>1, <2>2 DEF StateOK, State
  <2>5. /\ o.r \in Rollout /\ o.ok \in BOOLEAN
        /\ o.r.shadowed = r.shadowed /\ o.r.runtime = r.runtime
        /\ o.ok => o.r.memory = succ /\ o.r.file = succ
        /\ ~o.ok => o.r.memory = r.memory /\ o.r.file \in {r.file, succ}
    BY <1>0, <2>2, SavesLeave
  <2>6. CASE ~o.ok
    <3>1. Carries(r, o.r)
      BY <2>3, <2>6, SavedCarries
    <3>2. Carries(o.r, r2)
      BY <1>2, <2>2, <2>4, <2>5, <2>6, <3>1, ForcedCarries DEF Carries
    <3>. QED
      BY <3>1, <3>2, CarriesOn
  <2>7. CASE o.ok
    <3>1. /\ r2 \in Rollout /\ r2.memory = succ /\ r2.file = succ /\ ~r2.shadowed
          /\ r2.runtime = Lowered(r.runtime, m.revision + 1)
      BY <1>0, <2>2, <2>4, <2>5, <2>7 DEF Rollout, Lowered, Runtime, State, Modes
    <3>2. r2.runtime.mode = "SHADOW" /\ r2.runtime.revision = m.revision + 1
      BY <1>0, <3>1 DEF Lowered, RolloutOK, Runtime, State, Modes
    <3>3. RolloutOK(r2)
      BY <1>0, <2>1, <2>2, <2>3, <3>1, <3>2 DEF RolloutOK, State
    <3>4. ASSUME NEW t \in Turns, NEW d \in Decisions, NEW s \in Runtime, Fits(r, t, d, s)
          PROVE  Fits(r2, t, d, s)
      BY <1>0, <2>1, <2>2, <3>1, <3>2, <3>4 DEF Fits, State, Runtime
    <3>. QED
      BY <3>3, <3>4 DEF Carries
  <2>. QED
    BY <2>5, <2>6, <2>7
<1>. QED
  BY <1>0, <1>1, <1>2 DEF State, EffectivePolicy, Modes

LEMMA Evidenced ==
    ASSUME NEW m, StateOK(m), NEW e \in Evidence
    PROVE  LET succ == [m EXCEPT !.revision = @ + 1, !.evidence = @ \cup {e}] IN
           /\ StateOK(succ) /\ succ.revision = m.revision + 1
           /\ succ.effective = m.effective /\ succ.policies = m.policies
<1>. DEFINE succ == [m EXCEPT !.revision = @ + 1, !.evidence = @ \cup {e}]
<1>1. PICK more : more = m.evidence \cup {e}
  OBVIOUS
<1>2. m \in State
  BY DEF StateOK
<1>3. succ = [m EXCEPT !.revision = @ + 1, !.evidence = more]
  BY <1>1
<1>. HIDE DEF succ
<1>4. succ = [revision |-> m.revision + 1, effective |-> m.effective, good |-> m.good,
              evidence |-> more, policies |-> m.policies]
  BY <1>2, <1>3 DEF State
<1>5. succ = [revision |-> m.revision + 1, effective |-> m.effective, good |-> m.good,
              evidence |-> m.evidence \cup {e}, policies |-> m.policies]
  BY <1>1, <1>4
<1>6. succ \in State
  BY <1>5 DEF StateOK, State
<1>7. StateOK(succ)
  BY <1>5, <1>6 DEF StateOK, State, EffectivePolicy
<1>. QED
  BY <1>5, <1>7 DEF succ

LEMMA ObservedCarries ==
    ASSUME NEW r, RolloutOK(r), NEW e \in Evidence, NEW same \in BOOLEAN,
           NEW r2 \in Observed(r, e, same)
    PROVE  Carries(r, r2)
<1>1. PICK o \in Recorded(r, e, same) :
        r2 \in LET now == o.r.memory.effective IN
               IF ~o.ok THEN {IF now.mode = "ACTIVE" THEN Forced(o.r, o.r.memory.revision + 1) ELSE o.r}
               ELSE IF now.mode = "ACTIVE" /\ (~e.eligible \/ e.config # now.config)
                    THEN Downgraded(o.r)
               ELSE {o.r}
  BY DEF Observed
<1>2. Carries(r, o.r)
  <2>1. CASE e \in r.memory.evidence
    <3>1. o.r = r
      BY <1>1, <2>1 DEF Recorded
    <3>. QED
      BY <3>1 DEF Carries
  <2>2. CASE e \notin r.memory.evidence
    <3>1. PICK succ : succ = [r.memory EXCEPT !.revision = @ + 1, !.evidence = @ \cup {e}]
      OBVIOUS
    <3>2. o \in Saves(r, succ)
      BY <1>1, <2>2, <3>1 DEF Recorded
    <3>3. /\ StateOK(succ) /\ succ.revision = r.memory.revision + 1
          /\ succ.effective = r.memory.effective /\ succ.policies = r.memory.policies
      BY <3>1, Evidenced DEF RolloutOK
    <3>. QED
      BY <3>2, <3>3, SavedCarries
  <2>. QED
    BY <2>1, <2>2
<1>3. RolloutOK(o.r)
  BY <1>2 DEF Carries
<1>4. \/ r2 = o.r
      \/ o.r.memory.effective.mode = "ACTIVE" /\ r2 = Forced(o.r, o.r.memory.revision + 1)
      \/ r2 \in Downgraded(o.r)
  BY <1>1
<1>5. Carries(o.r, r2) \/ r2 = o.r
  BY <1>3, <1>4, ForcedCarries, DowngradedCarries
<1>. QED
  BY <1>2, <1>5, CarriesOn

(* The highest policy revision on record is at least every one of them: a   *)
(* policy past it has never been in force.                                  *)
LEMMA KnownIsHighest ==
    ASSUME NEW m, StateOK(m)
    PROVE  Known(m) \in Int /\ \A q \in m.policies : q <= Known(m)
<1>1. {m.effective.policy, m.good.policy} \cup m.policies = m.policies
  BY DEF StateOK
<1>2. m.policies \subseteq Int /\ \E p \in m.policies : \A q \in m.policies : q <= p
  BY DEF StateOK, State
<1>3. Known(m) = CHOOSE p \in m.policies : \A q \in m.policies : q <= p
  BY <1>1 DEF Known, Max
<1>. QED
  BY <1>2, <1>3

LEMMA ActivatedCarries ==
    ASSUME NEW r, RolloutOK(r), NEW target \in Int, NEW config \in Fingerprints,
           NEW canary \in Scopes, NEW r2 \in Activated(r, target, config, canary)
    PROVE  Carries(r, r2)
<1>. DEFINE m == r.memory
            e == [config |-> config, eligible |-> TRUE]
            active == [policy |-> target, mode |-> "ACTIVE", config |-> config,
                       canary |-> canary, evidence |-> e, since |-> m.revision + 1]
            succ == [m EXCEPT !.revision = @ + 1, !.good = m.effective,
                              !.policies = @ \cup {target}, !.effective = active]
<1>1. r \in Rollout /\ m \in State /\ r.runtime \in Runtime /\ StateOK(m)
  BY DEF RolloutOK, Rollout
<1>2. m.effective.mode = "SHADOW" /\ target > Known(m)
  BY <1>1, KnownIsHighest DEF Activated
<1>3. PICK o \in Saves(r, succ) :
        r2 = IF o.ok /\ succ.revision > o.r.runtime.revision
             THEN [o.r EXCEPT !.runtime = [revision |-> succ.revision, mode |-> "ACTIVE"]]
             ELSE o.r
  BY DEF Activated
<1>4. active \in EffectivePolicy /\ active.mode = "ACTIVE" /\ active.since = m.revision + 1
      /\ active.policy = target
  BY <1>1 DEF EffectivePolicy, Evidence, Modes, State
<1>. HIDE DEF active
<1>5. succ = [revision |-> m.revision + 1, effective |-> active, good |-> m.effective,
              evidence |-> m.evidence, policies |-> m.policies \cup {target}]
  <2>1. PICK known : known = m.policies \cup {target}
    OBVIOUS
  <2>2. PICK before : before = m.effective
    OBVIOUS
  <2>3. succ = [m EXCEPT !.revision = @ + 1, !.good = before, !.policies = known,
                         !.effective = active]
    BY <2>1, <2>2
  <2>. HIDE DEF succ
  <2>4. succ = [revision |-> m.revision + 1, effective |-> active, good |-> before,
                evidence |-> m.evidence, policies |-> known]
    BY <1>1, <2>3 DEF State
  <2>. QED
    BY <2>1, <2>2, <2>4
<1>. HIDE DEF succ
<1>6. succ \in State
  BY <1>1, <1>4, <1>5 DEF State
<1>7. m.policies \subseteq Int /\ \A q \in m.policies : q < target
  BY <1>1, <1>2, KnownIsHighest DEF State
<1>8. StateOK(succ)
  BY <1>1, <1>4, <1>5, <1>6, <1>7 DEF StateOK, State
<1>9. /\ o.r \in Rollout /\ o.ok \in BOOLEAN
      /\ o.r.shadowed = r.shadowed /\ o.r.runtime = r.runtime
      /\ o.ok => o.r.memory = succ /\ o.r.file = succ
      /\ ~o.ok => o.r.memory = m /\ o.r.file \in {r.file, succ}
  BY <1>1, <1>6, SavesLeave
<1>10. CASE ~o.ok
  BY <1>3, <1>8, <1>10, SavedCarries
<1>11. CASE o.ok
  <2>1. r.runtime.revision <= m.revision /\ m.revision \in Int /\ r.runtime.revision \in Int
        /\ ~r.shadowed
    BY <1>1, <1>2 DEF RolloutOK, Runtime, State
  <2>2. PICK rebuilt : rebuilt = [revision |-> m.revision + 1, mode |-> "ACTIVE"]
    OBVIOUS
  <2>3. rebuilt \in Runtime /\ rebuilt.mode = "ACTIVE" /\ rebuilt.revision = m.revision + 1
    BY <2>1, <2>2 DEF Runtime, Modes
  <2>4. r2 = [o.r EXCEPT !.runtime = rebuilt]
    BY <1>3, <1>5, <1>9, <1>11, <2>1, <2>2
  <2>5. /\ r2 \in Rollout /\ r2.memory = succ /\ r2.file = succ /\ ~r2.shadowed
        /\ r2.runtime = rebuilt
    BY <1>9, <1>11, <2>1, <2>3, <2>4 DEF Rollout
  <2>6. RolloutOK(r2)
    BY <1>4, <1>5, <1>8, <2>1, <2>3, <2>5 DEF RolloutOK
  <2>7. ASSUME NEW t \in Turns, NEW d \in Decisions, NEW s \in Runtime, Fits(r, t, d, s)
        PROVE  Fits(r2, t, d, s)
    BY <1>4, <1>5, <1>7, <2>1, <2>3, <2>5, <2>7 DEF Fits, Runtime, Decisions
  <2>. QED
    BY <2>6, <2>7 DEF Carries
<1>. QED
  BY <1>9, <1>10, <1>11

-----------------------------------------------------------------------------
(* What a step leaves alone.                                                *)
LEMMA CallKept ==
    ASSUME AInv, NEW u \in Turns, hooks'[u] = hooks[u], Up', Carries(rollout, rollout')
    PROVE  CallOK(u)'
  BY DEF AInv, CallOK, Carries

LEMMA AnswerKept ==
    ASSUME AInv, NEW u \in Turns, hooks'[u] = hooks[u], delivered \subseteq delivered',
           \A id, version : Recording(id, version) => Recording(id, version)'
    PROVE  AnswerOK(u)'
  BY DEF AInv, AnswerOK, Attempt

LEMMA IdleIsOK ==
    ASSUME NEW t \in Turns, hooks'[t] = Idle
    PROVE  CallOK(t)' /\ AnswerOK(t)'
  BY DEF CallOK, AnswerOK, Idle, InFlight

LEMMA IdleIsHook == Idle \in Hook
  BY DEF Idle, Hook

(* An attempt that is entered is new, or was left pending: no record of an  *)
(* injection changes.                                                       *)
LEMMA EnteredKeeps ==
    ASSUME AInv, NEW id, NEW status \in Statuses, NEW envelope \in Int \cup {NULL},
           Row(id) = NULL \/ Row(id) = Open(envelope),
           attempts' = Entered(id, status, envelope), delivered' = delivered
    PROVE  /\ RecordsOK'
           /\ \A i, version : Recording(i, version) => Recording(i, version)'
           /\ status = "INJECTED" => Recording(id, envelope)'
<1>. DEFINE row == [status |-> status, envelope |-> envelope,
                    revision |-> IF status = "PENDING" THEN 0 ELSE 1]
<1>1. /\ DOMAIN attempts' = DOMAIN attempts \cup {id} /\ attempts'[id] = row
      /\ \A i \in DOMAIN attempts : i # id => attempts'[i] = attempts[i]
  BY DEF Entered
<1>2. row \in AttemptRows /\ row.revision # 2 /\ row.status = status /\ row.envelope = envelope
  BY DEF AttemptRows
<1>. HIDE DEF row
<1>3. id \notin DOMAIN attempts \/ attempts[id].status # "INJECTED"
  BY InjectionAssumption DEF Row, Open, AInv, RecordsOK
<1>4. \A i, version : Recording(i, version) => Recording(i, version)'
  BY <1>1, <1>3 DEF Recording
<1>5. \A i \in DOMAIN attempts' : attempts'[i] \in AttemptRows
  BY <1>1, <1>2 DEF AInv, RecordsOK
<1>6. \A d \in delivered' : Recording(d.id, d.version)'
  BY <1>4 DEF AInv, RecordsOK
<1>7. \A i \in DOMAIN attempts' : attempts'[i].revision = 2 => \E d \in delivered' : d.id = i
  BY <1>1, <1>2 DEF AInv, RecordsOK
<1>8. status = "INJECTED" => Recording(id, envelope)'
  BY <1>1, <1>2 DEF Recording
<1>. QED
  BY <1>4, <1>5, <1>6, <1>7, <1>8 DEF RecordsOK

-----------------------------------------------------------------------------
(* The steps.                                                               *)
LEMMA OnlyRollout ==
    ASSUME AInv, Up, Carries(rollout, rollout'),
           UNCHANGED <<composition, hooks, attempts, asset, delivered, calls, crashes>>
    PROVE  AInv'
<1>1. Up'
  BY DEF Up
<1>2. \A u \in Turns : CallOK(u)'
  BY <1>1, CallKept
<1>3. \A u \in Turns : AnswerOK(u)'
  BY AnswerKept DEF Recording
<1>4. Types' /\ RecordsOK'
  BY DEF AInv, Types, RecordsOK, Recording
<1>. QED
  BY <1>2, <1>3, <1>4 DEF AInv, Carries

LEMMA ObserveStep ==
    ASSUME AInv, ObserveEligibility
    PROVE  AInv'
<1>1. PICK eligible \in BOOLEAN, same \in BOOLEAN :
        rollout' \in Observed(rollout, [config |-> composition, eligible |-> eligible], same)
  BY DEF ObserveEligibility
<1>2. [config |-> composition, eligible |-> eligible] \in Evidence
  BY DEF AInv, Types, ObserveEligibility, Up, Evidence
<1>3. Carries(rollout, rollout')
  BY <1>1, <1>2, ObservedCarries DEF AInv
<1>. QED
  BY <1>3, OnlyRollout DEF ObserveEligibility

LEMMA ActivateStep ==
    ASSUME AInv, ActivateCanary
    PROVE  AInv'
<1>1. PICK target \in 1..MaxPolicy, canary \in Scopes :
        rollout' \in Activated(rollout, target, composition, canary)
  BY DEF ActivateCanary
<1>2. composition \in Fingerprints /\ target \in Int
  BY DEF AInv, Types, ActivateCanary, Up
<1>3. Carries(rollout, rollout')
  BY <1>1, <1>2, ActivatedCarries DEF AInv
<1>. QED
  BY <1>3, OnlyRollout DEF ActivateCanary

(* A step of one call that enters no attempt and leaves the rollout alone.  *)
LEMMA OneCall ==
    ASSUME AInv, Up, NEW t \in Turns, NEW h \in Hook, hooks' = [hooks EXCEPT ![t] = h],
           CallOK(t)', AnswerOK(t)', calls' \in Int,
           UNCHANGED <<rollout, composition, attempts, asset, delivered, crashes>>
    PROVE  AInv'
<1>1. hooks' \in [Turns -> Hook] /\ \A u \in Turns \ {t} : hooks'[u] = hooks[u]
  BY DEF AInv, Types
<1>2. Up' /\ Carries(rollout, rollout')
  BY DEF Up, Carries, AInv
<1>3. \A u \in Turns : CallOK(u)'
  BY <1>1, <1>2, CallKept
<1>4. \A u \in Turns : AnswerOK(u)'
  BY <1>1, AnswerKept DEF Recording
<1>5. Types' /\ RecordsOK'
  BY <1>1 DEF AInv, Types, RecordsOK, Recording
<1>. QED
  BY <1>2, <1>3, <1>4, <1>5 DEF AInv, Carries

(* The call as Submit leaves it.                                            *)
Started(d, s) == [Idle EXCEPT !.phase = "retrieve", !.decision = d, !.start = s]

LEMMA StartedIsHook ==
    ASSUME NEW d \in Decisions, NEW s \in Runtime
    PROVE  LET h == Started(d, s) IN
           h \in Hook /\ h.phase = "retrieve" /\ h.decision = d /\ h.start = s
<1>1. Started(d, s) \in Hook
  BY DEF Started, Idle, Hook, InFlight
<1>2. /\ Started(d, s).phase = "retrieve" /\ Started(d, s).decision = d
      /\ Started(d, s).start = s
  BY DEF Started, Idle
<1>. QED
  BY <1>1, <1>2

LEMMA SubmitStep ==
    ASSUME AInv, NEW t \in Turns, Submit(t)
    PROVE  AInv'
<1>. DEFINE d == Decision(rollout, t)
            s == Controller(rollout, d)
            h == Started(d, s)
<1>0. /\ rollout \in Rollout /\ rollout.memory \in State /\ rollout.memory.effective \in EffectivePolicy
      /\ rollout.runtime \in Runtime /\ RolloutOK(rollout) /\ StateOK(rollout.memory)
  BY DEF AInv, RolloutOK, Rollout, State
<1>1. d \in Decisions
  BY <1>0 DEF Decision, Decisions, Modes, EffectivePolicy
<1>2. s \in Runtime
  BY <1>0 DEF Controller, Runtime, Modes, State
<1>3. Fits(rollout, t, d, s)
  <2>1. CASE d.mode = "SHADOW"
    BY <2>1 DEF Fits, Controller
  <2>2. CASE d.mode = "ACTIVE"
    <3>1. /\ ~rollout.shadowed /\ rollout.memory.effective.mode = "ACTIVE"
          /\ t \in rollout.memory.effective.canary
          /\ d.policy = rollout.memory.effective.policy
      BY <1>0, <2>2 DEF Decision, EffectivePolicy, Modes
    <3>2. s = rollout.runtime
      BY <2>2 DEF Controller
    <3>3. /\ s.mode = "ACTIVE" /\ rollout.memory.effective.since <= s.revision
          /\ s.revision <= rollout.memory.revision
      BY <1>0, <3>1, <3>2 DEF RolloutOK
    <3>4. d.policy \in rollout.memory.policies
      BY <1>0, <3>1 DEF StateOK
    <3>. QED
      BY <2>2, <3>1, <3>2, <3>3, <3>4 DEF Fits
  <2>. QED
    BY <1>1, <2>1, <2>2 DEF Decisions, Modes
<1>. HIDE DEF d, s
<1>4. h \in Hook /\ h.phase = "retrieve" /\ h.decision = d /\ h.start = s
  BY <1>1, <1>2, StartedIsHook
<1>5. hooks' = [hooks EXCEPT ![t] = h]
  BY DEF Submit, Started, d, s
<1>. HIDE DEF h
<1>6. hooks'[t] = h
  BY <1>5 DEF AInv, Types
<1>7. CallOK(t)' /\ AnswerOK(t)'
  BY <1>1, <1>2, <1>3, <1>4, <1>6 DEF CallOK, AnswerOK, Submit, At, Up, InFlight
<1>8. calls' \in Int
  BY DEF Submit, AInv, Types
<1>. QED
  BY <1>4, <1>5, <1>7, <1>8, OneCall DEF Submit, At

LEMMA RetrieveStep ==
    ASSUME AInv, NEW t \in Turns, Retrieve(t)
    PROVE  AInv'
<1>. DEFINE h == [hooks[t] EXCEPT !.phase = "gate", !.seen = asset.version]
<1>1. hooks[t] \in Hook /\ asset.version \in Int /\ CallOK(t) /\ hooks[t].phase = "retrieve"
  BY DEF AInv, Types, Retrieve, At
<1>2. h \in Hook
  BY <1>1 DEF Hook, InFlight
<1>3. /\ h.phase = "gate" /\ h.seen = asset.version
      /\ h.decision = hooks[t].decision /\ h.start = hooks[t].start
  BY <1>1 DEF Hook
<1>4. hooks' = [hooks EXCEPT ![t] = h]
  BY DEF Retrieve, AInv, Types
<1>. HIDE DEF h
<1>5. hooks'[t] = h
  BY <1>4 DEF AInv, Types
<1>6. CallOK(t)' /\ AnswerOK(t)'
  BY <1>1, <1>3, <1>5 DEF CallOK, AnswerOK, Retrieve, Up, InFlight
<1>7. calls' \in Int
  BY DEF Retrieve, AInv, Types
<1>. QED
  BY <1>2, <1>4, <1>6, <1>7, OneCall DEF Retrieve, At

LEMMA GateStep ==
    ASSUME AInv, NEW t \in Turns, Gate(t)
    PROVE  AInv'
<1>1. PICK fresh \in BOOLEAN :
        hooks' = [hooks EXCEPT ![t].phase = "finish", ![t].admitted = fresh]
  BY DEF Gate
<1>. DEFINE h == [hooks[t] EXCEPT !.phase = "finish", !.admitted = fresh]
<1>2. hooks[t] \in Hook /\ CallOK(t) /\ hooks[t].phase = "gate"
  BY DEF AInv, Types, Gate, At
<1>3. h \in Hook
  BY <1>2 DEF Hook, InFlight
<1>4. /\ h.phase = "finish" /\ h.seen = hooks[t].seen
      /\ h.decision = hooks[t].decision /\ h.start = hooks[t].start
  BY <1>2 DEF Hook
<1>5. hooks' = [hooks EXCEPT ![t] = h]
  BY <1>1 DEF AInv, Types
<1>. HIDE DEF h
<1>6. hooks'[t] = h
  BY <1>5 DEF AInv, Types
<1>7. CallOK(t)' /\ AnswerOK(t)'
  BY <1>2, <1>4, <1>6 DEF CallOK, AnswerOK, Gate, Up, InFlight
<1>8. calls' \in Int
  BY DEF Gate, AInv, Types
<1>. QED
  BY <1>3, <1>5, <1>7, <1>8, OneCall DEF Gate, At

(* The status of a finished call, and the context it answers with.          *)
LEMMA OutcomeIsStatus ==
    ASSUME AInv, NEW t \in Turns, At(t, "finish")
    PROVE  /\ Outcome(hooks[t]) \in Statuses
           /\ Envelope(hooks[t]) \in Int \cup {NULL}
           /\ Outcome(hooks[t]) = "INJECTED" => Envelope(hooks[t]) = hooks[t].seen
<1>1. hooks[t].seen \in Int
  BY DEF AInv, CallOK, At, InFlight
<1>. QED
  BY <1>1 DEF Outcome, Envelope, Statuses

(* An answer keeps the invariant once the attempts on record do, and an     *)
(* injection is on record.                                                  *)
LEMMA AnswerStep ==
    ASSUME AInv, NEW t \in Turns, NEW status, Answer(t, status), Up, hooks[t].phase \in InFlight,
           RecordsOK', \A i, version : Recording(i, version) => Recording(i, version)',
           NEW id, NEW seen, id = Attempt(t, "retrieved"), seen = hooks[t].seen,
           status = "INJECTED" => Recording(id, seen)',
           UNCHANGED <<composition, asset, delivered, calls, crashes>>
    PROVE  AInv'
<1>1. PICK h : h = IF status = "INJECTED" THEN [hooks[t] EXCEPT !.phase = "answer"] ELSE Idle
  OBVIOUS
<1>2. hooks' = [hooks EXCEPT ![t] = h] /\ hooks[t] \in Hook /\ hooks \in [Turns -> Hook]
  BY <1>1 DEF Answer, AInv, Types
<1>3. h \in Hook
  <2>1. [hooks[t] EXCEPT !.phase = "answer"] \in Hook
    BY <1>2 DEF Hook
  <2>. QED
    BY <1>1, <2>1, IdleIsHook
<1>4. /\ hooks' \in [Turns -> Hook] /\ hooks'[t] = h
      /\ \A u \in Turns \ {t} : hooks'[u] = hooks[u]
  BY <1>2, <1>3
<1>5. Carries(rollout, rollout')
  <2>1. CASE rollout' \in Downgraded(rollout)
    BY <2>1, DowngradedCarries DEF AInv
  <2>2. CASE rollout' = rollout
    BY <2>2 DEF AInv, Carries
  <2>. QED
    BY <2>1, <2>2 DEF Answer
<1>6. Up'
  BY DEF Up
<1>7. CallOK(t)' /\ AnswerOK(t)'
  <2>1. CASE status = "INJECTED"
    <3>1. h.phase = "answer" /\ h.start = hooks[t].start /\ h.seen = hooks[t].seen
      BY <1>1, <1>2, <2>1 DEF Hook
    <3>2. id = <<t, hooks'[t].start.revision, "retrieved">> /\ seen = hooks'[t].seen
      BY <1>4, <3>1 DEF Attempt
    <3>3. Recording(Attempt(t, "retrieved"), hooks[t].seen)'
      BY <2>1, <3>2 DEF Attempt, Recording
    <3>. QED
      BY <1>4, <3>1, <3>3 DEF CallOK, AnswerOK, InFlight
  <2>2. CASE status # "INJECTED"
    BY <1>1, <1>4, <2>2, IdleIsOK
  <2>. QED
    BY <2>1, <2>2
<1>8. \A u \in Turns : CallOK(u)'
  BY <1>4, <1>5, <1>6, <1>7, CallKept
<1>9. \A u \in Turns : AnswerOK(u)'
  BY <1>4, <1>7, AnswerKept
<1>10. Types'
  BY <1>4 DEF AInv, Types
<1>. QED
  BY <1>5, <1>8, <1>9, <1>10 DEF AInv, Carries

LEMMA FinishStep ==
    ASSUME AInv, NEW t \in Turns, Finish(t)
    PROVE  AInv'
<1>1. PICK id, status, envelope, seen :
        /\ id = Attempt(t, "retrieved") /\ status = Outcome(hooks[t])
        /\ envelope = Envelope(hooks[t]) /\ seen = hooks[t].seen
  OBVIOUS
<1>2. /\ At(t, "finish") /\ Up /\ hooks[t].phase \in InFlight
      /\ UNCHANGED <<composition, asset, delivered, calls, crashes>>
  BY DEF Finish, At, InFlight
<1>3. status \in Statuses /\ envelope \in Int \cup {NULL} /\ (status = "INJECTED" => envelope = seen)
  BY <1>1, <1>2, OutcomeIsStatus
<1>4. CASE /\ Row(id) \in {NULL, Open(envelope)} /\ attempts' = Entered(id, status, envelope)
           /\ Answer(t, status)
  <2>1. /\ RecordsOK' /\ \A i, version : Recording(i, version) => Recording(i, version)'
        /\ status = "INJECTED" => Recording(id, envelope)'
    BY <1>2, <1>3, <1>4, EnteredKeeps
  <2>. QED
    BY <1>1, <1>2, <1>3, <1>4, <2>1, AnswerStep
<1>5. CASE /\ Row(id) \notin {NULL, Open(envelope)} /\ UNCHANGED attempts
           /\ Answer(t, IF attempts[id].envelope = envelope /\ attempts[id].status = status
                        THEN status ELSE "FAILED")
  <2>1. PICK answered : answered = IF attempts[id].envelope = envelope /\ attempts[id].status = status
                                   THEN status ELSE "FAILED"
    OBVIOUS
  <2>2. /\ RecordsOK' /\ \A i, version : Recording(i, version) => Recording(i, version)'
    BY <1>2, <1>5 DEF AInv, RecordsOK, Recording
  <2>3. id \in DOMAIN attempts
    BY <1>5 DEF Row
  <2>4. answered = "INJECTED" => Recording(id, seen)'
    BY <1>3, <1>5, <2>1, <2>3 DEF Recording
  <2>5. Answer(t, answered)
    BY <1>5, <2>1
  <2>. QED
    BY <1>1, <1>2, <2>2, <2>4, <2>5, AnswerStep
<1>. QED
  BY <1>1, <1>4, <1>5 DEF Finish

LEMMA UnavailableStep ==
    ASSUME AInv, NEW t \in Turns, Unavailable(t)
    PROVE  AInv'
<1>0. PICK id, own, seen : /\ id = Attempt(t, "unavailable") /\ own = Attempt(t, "retrieved")
                            /\ seen = hooks[t].seen
  OBVIOUS
<1>1. /\ Up /\ hooks[t].phase \in InFlight /\ Answer(t, "FAILED")
      /\ UNCHANGED <<composition, asset, delivered, calls, crashes>>
  BY DEF Unavailable, InFlight
<1>2. RecordsOK' /\ \A i, version : Recording(i, version) => Recording(i, version)'
  <2>1. CASE Row(id) = NULL
    BY <1>0, <1>1, <2>1, EnteredKeeps DEF Unavailable, Statuses
  <2>2. CASE Row(id) # NULL
    BY <1>0, <1>1, <2>2 DEF Unavailable, AInv, RecordsOK, Recording
  <2>. QED
    BY <2>1, <2>2
<1>. QED
  BY <1>0, <1>1, <1>2, AnswerStep

LEMMA DeliverStep ==
    ASSUME AInv, NEW t \in Turns, Deliver(t)
    PROVE  AInv'
<1>1. PICK id, seen : id = Attempt(t, "retrieved") /\ seen = hooks[t].seen
  OBVIOUS
<1>2. /\ Up /\ hooks[t].phase = "answer" /\ hooks[t] \in Hook /\ hooks \in [Turns -> Hook]
      /\ UNCHANGED <<rollout, composition, attempts, asset, calls, crashes>>
      /\ Recording(id, seen)
  BY <1>1 DEF Deliver, At, AInv, Types, AnswerOK
<1>3. CASE delivered' = delivered /\ hooks' = [hooks EXCEPT ![t] = Idle]
  <2>1. hooks'[t] = Idle
    BY <1>2, <1>3
  <2>. QED
    BY <1>2, <1>3, <2>1, IdleIsOK, IdleIsHook, OneCall DEF AInv, Types
<1>4. CASE /\ delivered' = delivered \cup {[id |-> id, version |-> seen]}
           /\ hooks' = [hooks EXCEPT ![t].phase = "ack"]
  <2>1. PICK h : h = [hooks[t] EXCEPT !.phase = "ack"]
    OBVIOUS
  <2>2. h \in Hook /\ h.phase = "ack" /\ h.start = hooks[t].start /\ h.seen = seen
    BY <1>1, <1>2, <2>1 DEF Hook
  <2>3. /\ hooks' \in [Turns -> Hook] /\ hooks'[t] = h
        /\ \A u \in Turns \ {t} : hooks'[u] = hooks[u]
    BY <1>2, <1>4, <2>1, <2>2
  <2>4. Up' /\ Carries(rollout, rollout')
    BY <1>2 DEF Up, Carries, AInv
  <2>5. PICK d : d = [id |-> id, version |-> seen]
    OBVIOUS
  <2>6. d \in delivered' /\ d.id = id /\ d.version = seen /\ delivered' = delivered \cup {d}
    BY <1>4, <2>5
  <2>7. AnswerOK(t)'
    <3>1. id = Attempt(t, "retrieved")' /\ seen = hooks'[t].seen
      BY <1>1, <2>2, <2>3 DEF Attempt
    <3>2. Recording(id, seen)'
      BY <1>2 DEF Recording
    <3>3. Recording(Attempt(t, "retrieved"), hooks[t].seen)'
      BY <3>1, <3>2 DEF Recording
    <3>. QED
      BY <2>6, <3>1, <3>3 DEF AnswerOK
  <2>8. CallOK(t)'
    BY <2>2, <2>3 DEF CallOK, InFlight
  <2>9. \A u \in Turns : CallOK(u)'
    BY <2>3, <2>4, <2>8, CallKept
  <2>10. \A u \in Turns : AnswerOK(u)'
    BY <1>2, <2>3, <2>6, <2>7, AnswerKept DEF Recording
  <2>11. RecordsOK'
    BY <1>2, <2>6 DEF AInv, RecordsOK, Recording
  <2>12. Types'
    BY <1>2, <2>3 DEF AInv, Types
  <2>. QED
    BY <2>4, <2>9, <2>10, <2>11, <2>12 DEF AInv, Carries
<1>. QED
  BY <1>1, <1>3, <1>4 DEF Deliver

LEMMA AcknowledgeStep ==
    ASSUME AInv, NEW t \in Turns, Acknowledge(t)
    PROVE  AInv'
<1>1. PICK id : id = Attempt(t, "retrieved")
  OBVIOUS
<1>2. /\ hooks[t].phase = "ack" /\ hooks \in [Turns -> Hook] /\ hooks' = [hooks EXCEPT ![t] = Idle]
      /\ UNCHANGED <<rollout, composition, asset, delivered, calls, crashes>>
  BY DEF Acknowledge, AInv, Types
<1>3. id \in DOMAIN attempts /\ attempts[id] \in AttemptRows /\ \E d \in delivered : d.id = id
  BY <1>1, <1>2 DEF AInv, AnswerOK, Recording, RecordsOK
<1>4. /\ hooks' \in [Turns -> Hook] /\ hooks'[t] = Idle
      /\ \A u \in Turns \ {t} : hooks'[u] = hooks[u]
  BY <1>2, IdleIsHook
<1>5. RecordsOK' /\ \A i, version : Recording(i, version) => Recording(i, version)'
  <2>1. CASE attempts' = attempts
    BY <1>2, <2>1 DEF AInv, RecordsOK, Recording
  <2>2. CASE attempts' = [attempts EXCEPT ![id].revision = 2]
    <3>1. PICK row : row = [attempts[id] EXCEPT !.revision = 2]
      OBVIOUS
    <3>2. /\ row \in AttemptRows /\ row.status = attempts[id].status
          /\ row.envelope = attempts[id].envelope
      BY <1>3, <3>1 DEF AttemptRows
    <3>3. /\ DOMAIN attempts' = DOMAIN attempts /\ attempts'[id] = row
          /\ \A i \in DOMAIN attempts : i # id => attempts'[i] = attempts[i]
      BY <1>3, <2>2, <3>1
    <3>4. \A i, version : Recording(i, version) => Recording(i, version)'
      BY <3>2, <3>3 DEF Recording
    <3>5. \A i \in DOMAIN attempts' : attempts'[i] \in AttemptRows
      BY <3>2, <3>3 DEF AInv, RecordsOK
    <3>6. \A d \in delivered' : Recording(d.id, d.version)'
      BY <1>2, <3>4 DEF AInv, RecordsOK
    <3>7. \A i \in DOMAIN attempts' : attempts'[i].revision = 2 => \E d \in delivered' : d.id = i
      BY <1>2, <1>3, <3>3 DEF AInv, RecordsOK
    <3>. QED
      BY <3>4, <3>5, <3>6, <3>7 DEF RecordsOK
  <2>. QED
    BY <1>1, <2>1, <2>2 DEF Acknowledge
<1>6. \A u \in Turns : AnswerOK(u)'
  BY <1>2, <1>4, <1>5, AnswerKept, IdleIsOK
<1>7. Carries(rollout, rollout')
  BY <1>2 DEF Carries, AInv
<1>8. ASSUME NEW u \in Turns
      PROVE  CallOK(u)'
  <2>1. CASE u = t
    BY <1>4, <2>1, IdleIsOK
  <2>2. CASE u # t
    BY <1>2, <1>4, <2>2 DEF AInv, CallOK, Up, Fits
  <2>. QED
    BY <2>1, <2>2
<1>9. Types'
  BY <1>2, <1>4 DEF AInv, Types
<1>. QED
  BY <1>5, <1>6, <1>7, <1>8, <1>9 DEF AInv, Carries

LEMMA ChangesStep ==
    ASSUME AInv, KnowledgeChanges
    PROVE  AInv'
<1>1. UNCHANGED <<rollout, composition, hooks, attempts, delivered, calls, crashes>>
  BY DEF KnowledgeChanges
<1>2. asset' \in [version : Int, suppressed : BOOLEAN]
  <2>1. CASE asset' = [version |-> asset.version + 1, suppressed |-> FALSE]
    BY <2>1 DEF AInv, Types
  <2>2. CASE asset' = [asset EXCEPT !.suppressed = TRUE]
    BY <2>2 DEF AInv, Types
  <2>. QED
    BY <2>1, <2>2 DEF KnowledgeChanges
<1>3. RolloutOK(rollout)' /\ RecordsOK' /\ Types'
  BY <1>1, <1>2 DEF AInv, RecordsOK, Recording, Types, RolloutOK
<1>4. \A t \in Turns : CallOK(t)' /\ AnswerOK(t)'
  BY <1>1 DEF AInv, CallOK, AnswerOK, Fits, Up, Attempt, Recording
<1>. QED
  BY <1>3, <1>4 DEF AInv

LEMMA CrashStep ==
    ASSUME AInv, Crash
    PROVE  AInv'
<1>1. /\ composition' = NULL /\ hooks' = Aborted /\ crashes' = crashes + 1
      /\ UNCHANGED <<rollout, asset, delivered, calls>>
  BY DEF Crash
<1>2. \A u \in Turns : hooks'[u] = IF hooks[u].phase = "ack" THEN hooks[u] ELSE Idle
  BY <1>1 DEF Aborted
<1>3. Types'
  BY <1>1, <1>2, IdleIsHook DEF AInv, Types, Aborted
<1>4. RecordsOK' /\ \A i, version : Recording(i, version) => Recording(i, version)'
  <2>1. CASE attempts' = attempts
    BY <1>1, <2>1 DEF AInv, RecordsOK, Recording
  <2>2. CASE \E t \in Turns :
               /\ hooks[t].phase = "finish" /\ Row(Attempt(t, "retrieved")) = NULL
               /\ attempts' = Entered(Attempt(t, "retrieved"), "PENDING", Envelope(hooks[t]))
    <3>1. PICK t \in Turns :
               /\ hooks[t].phase = "finish" /\ Row(Attempt(t, "retrieved")) = NULL
               /\ attempts' = Entered(Attempt(t, "retrieved"), "PENDING", Envelope(hooks[t]))
      BY <2>2
    <3>2. PICK id, envelope : id = Attempt(t, "retrieved") /\ envelope = Envelope(hooks[t])
      OBVIOUS
    <3>3. At(t, "finish")
      BY <3>1 DEF Crash, At
    <3>4. envelope \in Int \cup {NULL}
      BY <3>2, <3>3, OutcomeIsStatus
    <3>. QED
      BY <1>1, <3>1, <3>2, <3>4, EnteredKeeps DEF Statuses
  <2>. QED
    BY <2>1, <2>2 DEF Crash
<1>5. ASSUME NEW u \in Turns
      PROVE  CallOK(u)' /\ AnswerOK(u)'
  <2>1. CASE hooks[u].phase = "ack"
    <3>1. hooks'[u] = hooks[u]
      BY <1>2, <2>1
    <3>2. AnswerOK(u)'
      BY <1>1, <1>4, <3>1, AnswerKept
    <3>. QED
      BY <2>1, <3>1, <3>2 DEF CallOK, InFlight
  <2>2. CASE hooks[u].phase # "ack"
    BY <1>2, <2>2, IdleIsOK
  <2>. QED
    BY <2>1, <2>2
<1>. QED
  BY <1>1, <1>3, <1>4, <1>5 DEF AInv

(* What Start loads is as sound as the file.                                *)
LEMMA LoadedIsSound ==
    ASSUME NEW r, RolloutOK(r)
    PROVE  RolloutOK([r EXCEPT !.memory = r.file, !.shadowed = FALSE,
                       !.runtime = [revision |-> r.file.revision, mode |-> r.file.effective.mode]])
<1>1. PICK f, rebuilt :
        f = r.file /\ rebuilt = [revision |-> f.revision, mode |-> f.effective.mode]
  OBVIOUS
<1>2. PICK loaded : loaded = [r EXCEPT !.memory = f, !.shadowed = FALSE, !.runtime = rebuilt]
  OBVIOUS
<1>3. f \in State /\ StateOK(f) /\ r \in Rollout
  BY <1>1 DEF RolloutOK, StateOK
<1>4. rebuilt \in Runtime /\ rebuilt.revision = f.revision /\ rebuilt.mode = f.effective.mode
  BY <1>1, <1>3 DEF Runtime, State, EffectivePolicy
<1>5. /\ loaded \in Rollout /\ loaded.memory = f /\ loaded.file = f /\ ~loaded.shadowed
      /\ loaded.runtime = rebuilt
  BY <1>1, <1>2, <1>3, <1>4 DEF Rollout
<1>6. RolloutOK(loaded)
  BY <1>3, <1>4, <1>5 DEF RolloutOK, StateOK, State
<1>. QED
  BY <1>1, <1>2, <1>6

LEMMA StartStep ==
    ASSUME AInv, Start
    PROVE  AInv'
<1>1. ~Up /\ UNCHANGED <<hooks, attempts, asset, delivered, calls, crashes>>
  BY DEF Start
<1>2. PICK loaded :
        loaded = [rollout EXCEPT !.memory = rollout.file, !.shadowed = FALSE,
                    !.runtime = [revision |-> rollout.file.revision,
                                 mode |-> rollout.file.effective.mode]]
  OBVIOUS
<1>3. RolloutOK(loaded)
  BY <1>2, LoadedIsSound DEF AInv
<1>4. PICK config \in Fingerprints :
        /\ rollout' \in Downgraded(loaded) \cup {loaded}
        /\ composition' \in {NULL, config}
  BY <1>2 DEF Start
<1>5. RolloutOK(rollout)'
  <2>1. CASE rollout' = loaded
    BY <1>3, <2>1 DEF RolloutOK
  <2>2. CASE rollout' \in Downgraded(loaded)
    <3>1. RolloutOK(rollout')
      BY <1>3, <2>2, DowngradedCarries DEF Carries
    <3>. QED
      BY <3>1 DEF RolloutOK
  <2>. QED
    BY <1>4, <2>1, <2>2
<1>6. \A u \in Turns : CallOK(u)' /\ AnswerOK(u)'
  BY <1>1 DEF AInv, CallOK, AnswerOK, Attempt, Recording
<1>7. Types' /\ RecordsOK'
  BY <1>1, <1>4 DEF AInv, Types, RecordsOK, Recording
<1>. QED
  BY <1>5, <1>6, <1>7 DEF AInv

LEMMA InitInv ==
    ASSUME AInit
    PROVE  AInv
<1>1. PICK config \in Fingerprints :
      LET s == [revision |-> 1, effective |-> ShadowOf(1, config), good |-> ShadowOf(1, config),
                evidence |-> {}, policies |-> {1}]
      IN /\ rollout = [memory |-> s, file |-> s, shadowed |-> FALSE,
                       runtime |-> [revision |-> 1, mode |-> "SHADOW"], failures |-> 0]
         /\ composition = config
         /\ hooks = [t \in Turns |-> Idle]
         /\ attempts = [id \in {} |-> NULL]
         /\ asset = [version |-> 1, suppressed |-> FALSE]
         /\ delivered = {} /\ calls = 0 /\ crashes = 0
  BY DEF AInit
<1>. DEFINE shadow == ShadowOf(1, config)
            s == [revision |-> 1, effective |-> shadow, good |-> shadow,
                  evidence |-> {}, policies |-> {1}]
            rebuilt == [revision |-> 1, mode |-> "SHADOW"]
<1>2. /\ shadow \in EffectivePolicy /\ shadow.since = 1 /\ shadow.policy = 1
      /\ shadow.mode = "SHADOW"
  BY DEF ShadowOf, EffectivePolicy, Modes
<1>. HIDE DEF shadow
<1>3. s \in State /\ s.revision = 1 /\ s.effective = shadow /\ s.good = shadow /\ s.policies = {1}
  BY <1>2 DEF State
<1>4. rollout = [memory |-> s, file |-> s, shadowed |-> FALSE, runtime |-> rebuilt, failures |-> 0]
  BY <1>1 DEF shadow
<1>. HIDE DEF s
<1>5. rebuilt \in Runtime /\ rebuilt.mode = "SHADOW" /\ rebuilt.revision = 1
  BY DEF Runtime, Modes
<1>. HIDE DEF rebuilt
<1>6. /\ rollout \in Rollout /\ rollout.memory = s /\ rollout.file = s /\ ~rollout.shadowed
      /\ rollout.runtime = rebuilt
  BY <1>3, <1>4, <1>5 DEF Rollout
<1>7. StateOK(s)
  BY <1>2, <1>3 DEF StateOK
<1>8. RolloutOK(rollout)
  BY <1>2, <1>3, <1>5, <1>6, <1>7 DEF RolloutOK
<1>9. \A t \in Turns : CallOK(t) /\ AnswerOK(t)
  BY <1>1 DEF CallOK, AnswerOK, Idle, InFlight
<1>10. Types /\ RecordsOK
  BY <1>1, IdleIsHook DEF Types, RecordsOK
<1>. QED
  BY <1>8, <1>9, <1>10 DEF AInv

LEMMA StepInv ==
    ASSUME AInv, [ANext]_avars
    PROVE  AInv'
<1>1. CASE UNCHANGED avars
  BY <1>1 DEF avars, AInv, Types, RolloutOK, CallOK, AnswerOK, RecordsOK, Recording, Attempt, Fits, Up
<1>2. CASE \E t \in Turns : HookStep(t)
  BY <1>2, SubmitStep, RetrieveStep, GateStep, FinishStep, UnavailableStep, DeliverStep,
     AcknowledgeStep DEF HookStep
<1>. QED
  BY <1>1, <1>2, ObserveStep, ActivateStep, ChangesStep, CrashStep, StartStep DEF ANext

(* The inductive invariant holds of every behaviour.                        *)
THEOREM AlwaysAInv == ASpec => []AInv
<1>1. AInit => AInv
  BY InitInv
<1>2. AInv /\ [ANext]_avars => AInv'
  BY StepInv
<1>. QED
  BY <1>1, <1>2, PTL DEF ASpec

-----------------------------------------------------------------------------
(* What hooks are decided by and what they run under never part: whatever   *)
(* saves of ActiveRolloutService fail, a controller that injects stands for *)
(* the ACTIVE revision in force, and a SHADOW one can be activated again.   *)
THEOREM ControllerFollowsStateHolds == ASpec => []ControllerFollowsState
<1>1. ASSUME AInv
      PROVE  ControllerFollowsState
  <2>1. /\ RolloutOK(rollout) /\ rollout.runtime.mode \in Modes
        /\ rollout.memory.effective.mode \in Modes
    BY <1>1 DEF AInv, RolloutOK, Rollout, Runtime, State, EffectivePolicy
  <2>2. rollout.memory.effective.since \in Int /\ rollout.runtime.revision \in Int
    BY <2>1 DEF RolloutOK, Rollout, Runtime, State, EffectivePolicy
  <2>. QED
    BY <2>1, <2>2 DEF RolloutOK, ControllerFollowsState, Modes
<1>. QED
  BY <1>1, AlwaysAInv, PTL

(* What reached the host is on record in injection_attempts as injected,    *)
(* with that content, and only what reached the host is acknowledged.       *)
THEOREM DeliveredIsAuditedHolds == ASpec => []DeliveredIsAudited
<1>1. ASSUME AInv
      PROVE  DeliveredIsAudited
  BY <1>1 DEF AInv, RecordsOK, Recording, DeliveredIsAudited
<1>. QED
  BY <1>1, AlwaysAInv, PTL

(* A context is injected only under the activation its hook was decided by, *)
(* still in force for this turn, and only knowledge that is current and not *)
(* suppressed at that moment (UserPromptInjectionService after the awaits). *)
THEOREM InjectsOnlyInForceHolds == ASpec => InjectsOnlyInForce
<1>. DEFINE InForce(t) ==
       (hooks[t].phase = "finish" /\ hooks'[t].phase = "answer") =>
         LET now == rollout.memory.effective IN
         /\ now.mode = "ACTIVE" /\ ~rollout.shadowed
         /\ now.policy = hooks[t].decision.policy /\ t \in now.canary
         /\ asset.version = hooks[t].seen /\ ~asset.suppressed
<1>1. ASSUME AInv, [ANext]_avars, NEW t \in Turns,
             hooks[t].phase = "finish", hooks'[t].phase = "answer"
      PROVE  InForce(t)
  <2>0. hooks \in [Turns -> Hook] /\ Idle.phase = "idle"
    BY <1>1 DEF AInv, Types, Idle
  <2>1. Finish(t)
    <3>1. hooks' # hooks /\ hooks'[t] # hooks[t] /\ hooks'[t] # Idle
      BY <1>1, <2>0
    <3>2. ~ObserveEligibility /\ ~ActivateCanary /\ ~KnowledgeChanges /\ ~Start
      BY <3>1 DEF ObserveEligibility, ActivateCanary, KnowledgeChanges, Start
    <3>3. ~Crash
      BY <3>1 DEF Crash, Aborted
    <3>4. PICK u \in Turns : HookStep(u)
      BY <1>1, <3>1, <3>2, <3>3 DEF ANext, avars
    <3>5. u = t
      BY <2>0, <3>1, <3>4 DEF HookStep, Submit, Retrieve, Gate, Finish, Unavailable, Deliver,
         Acknowledge, Answer
    <3>6. ~Submit(t) /\ ~Retrieve(t) /\ ~Gate(t) /\ ~Deliver(t) /\ ~Acknowledge(t)
      BY <1>1 DEF Submit, Retrieve, Gate, Deliver, Acknowledge, At
    <3>7. ~Unavailable(t)
      BY <2>0, <3>1 DEF Unavailable, Answer
    <3>. QED
      BY <3>4, <3>5, <3>6, <3>7 DEF HookStep
  <2>2. Outcome(hooks[t]) = "INJECTED"
    <3>1. PICK status : Answer(t, status) /\ status \in {Outcome(hooks[t]), "FAILED"}
      BY <2>1 DEF Finish
    <3>2. status = "INJECTED"
      BY <1>1, <2>0, <3>1 DEF Answer
    <3>. QED
      BY <3>1, <3>2
  <2>3. /\ CallOK(t) /\ RolloutOK(rollout)
    BY <1>1 DEF AInv
  <2>4. /\ hooks[t].start.mode # "SHADOW" /\ Envelope(hooks[t]) # NULL
        /\ hooks[t].decision.mode = "ACTIVE" => rollout.runtime = hooks[t].start
    BY <2>2 DEF Outcome
  <2>5. /\ hooks[t].decision.mode = "ACTIVE" /\ hooks[t].start.mode = "ACTIVE"
        /\ Fits(rollout, t, hooks[t].decision, hooks[t].start)
    BY <1>1, <2>3, <2>4 DEF CallOK, InFlight, Runtime, Modes, Fits
  <2>6. /\ rollout.memory.effective.policy = hooks[t].decision.policy
        /\ t \in rollout.memory.effective.canary
    BY <2>4, <2>5 DEF Fits
  <2>7. rollout.memory.effective.mode = "ACTIVE" /\ ~rollout.shadowed
    <3>1. rollout.memory.effective.mode \in Modes
      BY <2>3 DEF RolloutOK, StateOK, State, EffectivePolicy
    <3>. QED
      BY <2>3, <2>4, <2>5, <3>1 DEF RolloutOK, Modes
  <2>8. Eligible(hooks[t])
    BY <2>4 DEF Envelope
  <2>. QED
    BY <2>6, <2>7, <2>8 DEF Eligible
<1>2. AInv /\ [ANext]_avars => [\A t \in Turns : InForce(t)]_avars
  BY <1>1
<1>. QED
  BY <1>2, AlwaysAInv, PTL DEF ASpec, InjectsOnlyInForce

(* A hook's failure withdraws no activation but the one it ran under        *)
(* (observeInjectionResult of ActiveRolloutService).                        *)
THEOREM OwnFailuresOnlyHolds == ASpec => OwnFailuresOnly
<1>. DEFINE Own(t) ==
       (hooks[t].phase \in {"retrieve", "gate", "finish"} /\ hooks'[t] = Idle
        /\ rollout' # rollout /\ Up /\ composition' # NULL) =>
         rollout.memory.effective.since <= hooks[t].start.revision
<1>1. ASSUME AInv, [ANext]_avars, NEW t \in Turns,
             hooks[t].phase \in InFlight, hooks'[t] = Idle,
             rollout' # rollout, Up, composition' # NULL
      PROVE  Own(t)
  <2>1. hooks \in [Turns -> Hook] /\ Idle.phase = "idle"
    BY <1>1 DEF AInv, Types, Idle
  <2>2. hooks'[t] # hooks[t]
    BY <1>1, <2>1 DEF InFlight
  <2>3. PICK u \in Turns : Finish(u) \/ Unavailable(u)
    <3>1. ~ObserveEligibility /\ ~ActivateCanary /\ ~KnowledgeChanges /\ ~Crash /\ ~Start
      BY <1>1, <2>2 DEF ObserveEligibility, ActivateCanary, KnowledgeChanges, Crash, Start
    <3>2. PICK u \in Turns : HookStep(u)
      BY <1>1, <3>1 DEF ANext, avars
    <3>3. ~Submit(u) /\ ~Retrieve(u) /\ ~Gate(u) /\ ~Deliver(u) /\ ~Acknowledge(u)
      BY <1>1 DEF Submit, Retrieve, Gate, Deliver, Acknowledge
    <3>. QED
      BY <3>2, <3>3 DEF HookStep
  <2>4. u = t
    BY <2>1, <2>3, <2>2 DEF Finish, Unavailable, Answer
  <2>5. Finish(t) \/ Unavailable(t)
    BY <2>3, <2>4
  <2>6. PICK status : Answer(t, status)
    BY <2>5 DEF Finish, Unavailable
  <2>7. Withdraws(hooks[t], status)
    BY <1>1, <2>6 DEF Answer
  <2>8. Fits(rollout, t, hooks[t].decision, hooks[t].start)
    BY <1>1 DEF AInv, CallOK
  <2>. QED
    BY <2>7, <2>8 DEF Withdraws, Fits
<1>2. AInv /\ [ANext]_avars => [\A t \in Turns : Own(t)]_avars
  BY <1>1 DEF InFlight
<1>. QED
  BY <1>2, AlwaysAInv, PTL DEF ASpec, OwnFailuresOnly

-----------------------------------------------------------------------------
(* ClosureConfirmation.                                                     *)

ClosureTypes ==
    /\ operations \in [Stops -> [status : {"NONE", "PENDING", "OUTCOME", "COMPLETED"},
                                 outcome : Outcomes \cup {None}]]
    /\ audits \in [Stops -> Outcomes \cup {None}]
    /\ confirmations \in [Stops -> [status : {"NONE", "PENDING", "CLAIMED", "RESOLVED"},
                                    claim : Replies \cup {None}]]
    /\ counter \in Nat \cup {None}
    /\ verifying \in [Stops -> Nat \cup {None}]
    /\ waiting \in SUBSET (Stops \X Replies)
    /\ landing \in SUBSET (Stops \X Replies)
    /\ effects \in [Stops -> SUBSET Replies]
    /\ told \in SUBSET Stops /\ orphans \in SUBSET Stops

(* Of one Stop: OneStory, and an operation has an outcome exactly when its   *)
(* status says so, which no Stop that is being verified has.                *)
StopOK(s) ==
    LET o == operations[s].outcome IN
    /\ o # None <=> operations[s].status \in {"OUTCOME", "COMPLETED"}
    /\ verifying[s] # None => o = None
    /\ audits[s] # None => audits[s] = o
    /\ confirmations[s].status # "NONE" => audits[s] # None /\ audits[s].asks
    /\ operations[s].status = "COMPLETED" =>
         audits[s] = o /\ (o.asks => confirmations[s].status # "NONE")
    /\ s \in told => operations[s].status = "COMPLETED"

Story == \A s \in Stops : StopOK(s)

(* Who claims a confirmation is written down before its effect begins.      *)
Owned ==
    /\ \A x \in waiting \cup landing : confirmations[x[1]].claim = x[2]
    /\ \A x \in waiting \ landing : x[2] \in effects[x[1]]
    /\ \A s \in Stops : confirmations[s].status = "NONE" => confirmations[s].claim = None

(* The continuations the counter must know of.                              *)
Counted == {s \in Stops \ orphans : operations[s].outcome # None /\ operations[s].outcome.block}

(* They are numbered, up to the count; and a process that verifies, or has  *)
(* checkpointed what is not audited yet, has read the counter.              *)
Numbered ==
    /\ \A s \in Counted : operations[s].outcome.count \in 1..Limit[s] /\ operations[s].outcome.count <= Count
    /\ \A s, u \in Counted : s # u => operations[s].outcome.count # operations[u].outcome.count
    /\ \A s \in Stops \ orphans : operations[s].outcome # None /\ audits[s] = None => counter # None
    /\ \A s \in Stops : verifying[s] # None => counter # None

-----------------------------------------------------------------------------
(* The highest count on record.  The provers have no induction on finite    *)
(* sets; a smallest set {v : f[v] >= f[u]} gives the maximum instead.       *)
LEMMA MaxOfCounts ==
    ASSUME NEW f, NEW A \in SUBSET Stops, \A s \in A : f[s].count \in Nat
    PROVE  /\ Max({f[s].count : s \in A} \cup {0}) \in Nat
           /\ \A s \in A : f[s].count <= Max({f[s2].count : s2 \in A} \cup {0})
           /\ \A n \in Nat : (\A s \in A : f[s].count <= n) =>
                 Max({f[s].count : s \in A} \cup {0}) <= n
<1>. DEFINE C == {f[s].count : s \in A} \cup {0}
            AtLeast(u) == {v \in A : f[v].count >= f[u].count}
<1>1. IsFiniteSet(A)
  BY TurnAssumption, FS_Subset
<1>2. \E m \in C : \A y \in C : m >= y
  <2>1. CASE A = {}
    BY <2>1
  <2>2. CASE A # {}
    <3>1. {AtLeast(u) : u \in A} \subseteq FiniteSubsetsOf(A)
      BY <1>1, FS_Subset DEF FiniteSubsetsOf
    <3>2. {AtLeast(u) : u \in A} # {}
      BY <2>2
    <3>3. PICK x \in {AtLeast(u) : u \in A} :
             \A y \in {AtLeast(u) : u \in A} : <<y, x>> \notin StrictSubsetOrdering(A)
      BY <3>1, <3>2, FS_StrictSubsetOrderingWellFounded, WFMin
    <3>4. PICK u \in A : x = AtLeast(u)
      BY <3>3
    <3>5. ASSUME NEW v \in A PROVE f[v].count <= f[u].count
      <4>1. SUFFICES ASSUME f[v].count > f[u].count PROVE FALSE
        OBVIOUS
      <4>2. AtLeast(v) \subseteq AtLeast(u) /\ u \in AtLeast(u) /\ u \notin AtLeast(v)
        BY <4>1
      <4>3. <<AtLeast(v), AtLeast(u)>> \in StrictSubsetOrdering(A)
        BY <4>2 DEF StrictSubsetOrdering
      <4>. QED
        BY <3>3, <3>4, <4>3
    <3>. QED
      BY <3>5
  <2>. QED
    BY <2>1, <2>2
<1>3. Max(C) \in C /\ \A y \in C : Max(C) >= y
  BY <1>2 DEF Max
<1>. QED
  BY <1>3

LEMMA CountOK ==
    ASSUME ClosureTypes
    PROVE  /\ Count \in Nat
           /\ counter = None => \A s \in Audited : audits[s].count <= Count
<1>1. Audited \in SUBSET Stops /\ \A s \in Audited : audits[s].count \in Nat
  BY DEF ClosureTypes, Audited, Outcomes
<1>2. /\ Max({audits[s].count : s \in Audited} \cup {0}) \in Nat
      /\ \A s \in Audited : audits[s].count <= Max({audits[s2].count : s2 \in Audited} \cup {0})
  BY <1>1, MaxOfCounts
<1>. QED
  BY <1>2 DEF Count, ClosureTypes

(* What one attempt to publish an outcome, complete or interrupted, leaves. *)
LEMMA PublishWrites ==
    ASSUME NEW s \in Stops, NEW o \in Outcomes, ClosureTypes, Publish(s, o)
    PROVE  /\ \E p \in {Published(s, o)} \cup Interrupted(s, o) : Write(s, p)
           /\ told' # told => told' = told \cup {s} /\ Write(s, Published(s, o))
           /\ UNCHANGED <<waiting, landing, effects, orphans>>
BY DEF Publish

LEMMA PublishTypes ==
    ASSUME NEW s \in Stops, NEW o \in Outcomes, ClosureTypes, Publish(s, o),
           counter' \in Nat \cup {None}, verifying' \in [Stops -> Nat \cup {None}]
    PROVE  ClosureTypes'
<1>. DEFINE Operation == [status : {"NONE", "PENDING", "OUTCOME", "COMPLETED"},
                          outcome : Outcomes \cup {None}]
            Confirmation == [status : {"NONE", "PENDING", "CLAIMED", "RESOLVED"},
                             claim : Replies \cup {None}]
<1>1. operations[s] \in Operation /\ confirmations[s] \in Confirmation
      /\ audits[s] \in Outcomes \cup {None}
  BY DEF ClosureTypes
<1>2. Asked(s, o) \in Confirmation /\ Checkpointed(s, o) \in Operation /\ Completed(o) \in Operation
  BY <1>1 DEF Asked, Checkpointed, Completed
<1>3. PICK p \in {Published(s, o)} \cup Interrupted(s, o) : Write(s, p)
  BY PublishWrites
<1>4. p.operation \in Operation /\ p.confirmation \in Confirmation
      /\ p.audit \in Outcomes \cup {None}
  BY <1>1, <1>2 DEF Published, Interrupted, Rows
<1>5. /\ operations' \in [Stops -> Operation] /\ confirmations' \in [Stops -> Confirmation]
      /\ audits' \in [Stops -> Outcomes \cup {None}]
  BY <1>3, <1>4 DEF Write, ClosureTypes
<1>6. told' \in SUBSET Stops
  BY PublishWrites DEF ClosureTypes
<1>. QED
  BY <1>5, <1>6, PublishWrites DEF ClosureTypes

LEMMA PublishStory ==
    ASSUME NEW s \in Stops, NEW o \in Outcomes, ClosureTypes, Story,
           operations[s].outcome \in {None, o}, Publish(s, o),
           verifying' = [verifying EXCEPT ![s] = None]
    PROVE  /\ Story'
           /\ operations'[s].outcome \in {operations[s].outcome, o}
           /\ audits'[s] \in {audits[s], o}
           /\ \A u \in Stops \ {s} : operations'[u] = operations[u] /\ audits'[u] = audits[u]
<1>1. PICK p \in {Published(s, o)} \cup Interrupted(s, o) : Write(s, p)
  BY PublishWrites
<1>2. /\ operations'[s] = p.operation /\ audits'[s] = p.audit
      /\ confirmations'[s] = p.confirmation
      /\ verifying'[s] = None
      /\ \A u \in Stops \ {s} : /\ operations'[u] = operations[u] /\ audits'[u] = audits[u]
                                /\ confirmations'[u] = confirmations[u]
                                /\ verifying'[u] = verifying[u]
  BY <1>1 DEF Write, ClosureTypes
<1>3. o # None
  BY TurnAssumption
<1>4. s \in told' => p.operation.status = "COMPLETED"
  <2>1. CASE told' = told
    <3>1. s \in told => operations[s].status = "COMPLETED" /\ audits[s] = operations[s].outcome
      BY DEF Story, StopOK
    <3>. QED
      BY <1>1, <2>1, <3>1 DEF Published, Interrupted, Rows, Completed, Checkpointed
  <2>2. CASE told' # told
    BY <1>2, <2>2, PublishWrites DEF Write, Published, Rows, Completed, ClosureTypes
  <2>. QED
    BY <2>1, <2>2
<1>5. /\ p.operation.outcome \in {operations[s].outcome, o}
      /\ p.audit \in {audits[s], o}
      /\ p.operation.outcome # None <=> p.operation.status \in {"OUTCOME", "COMPLETED"}
      /\ p.audit # None => p.audit = p.operation.outcome
  BY <1>1, <1>3 DEF Published, Interrupted, Rows, Completed, Checkpointed, Story, StopOK
<1>6. /\ p.confirmation.status # "NONE" => p.audit # None /\ p.audit.asks
      /\ p.operation.status = "COMPLETED" =>
           p.audit = p.operation.outcome /\ (p.operation.outcome.asks => p.confirmation.status # "NONE")
  BY <1>1, <1>3 DEF Published, Interrupted, Rows, Completed, Checkpointed, Asked, Story, StopOK
<1>7. StopOK(s)'
  BY <1>2, <1>4, <1>5, <1>6 DEF StopOK
<1>8. ASSUME NEW u \in Stops \ {s} PROVE StopOK(u)'
  <2>1. u \in told' => u \in told
    BY PublishWrites
  <2>. QED
    BY <1>2, <2>1 DEF Story, StopOK
<1>. QED
  BY <1>2, <1>5, <1>7, <1>8 DEF Story

Inv == ClosureTypes /\ Story /\ Owned /\ OneAnswer /\ Numbered

LEMMA PublishOwned ==
    ASSUME NEW s \in Stops, NEW o \in Outcomes, ClosureTypes, Owned, OneAnswer, Publish(s, o)
    PROVE  Owned' /\ OneAnswer'
<1>1. PICK p \in {Published(s, o)} \cup Interrupted(s, o) : Write(s, p)
  BY PublishWrites
<1>2. p.confirmation \in {confirmations[s], Asked(s, o)}
  BY DEF Published, Interrupted, Rows
<1>3. /\ p.confirmation.claim = confirmations[s].claim
      /\ p.confirmation.status = "NONE" => confirmations[s].status = "NONE"
      /\ p.confirmation.status = "RESOLVED" => confirmations[s].status = "RESOLVED"
  BY <1>2 DEF Asked, Owned
<1>4. \A u \in Stops :
         /\ confirmations'[u].claim = confirmations[u].claim
         /\ confirmations'[u].status = "NONE" => confirmations[u].status = "NONE"
         /\ confirmations'[u].status = "RESOLVED" => confirmations[u].status = "RESOLVED"
  BY <1>1, <1>3 DEF Write, ClosureTypes
<1>5. UNCHANGED <<waiting, landing, effects>>
  BY PublishWrites
<1>6. \A x \in waiting \cup landing : x[1] \in Stops
  BY DEF ClosureTypes
<1>. QED
  BY <1>4, <1>5, <1>6 DEF Owned, OneAnswer

(* Outcomes that move none of the Counted ones, under the same count.       *)
LEMMA StillNumbered ==
    ASSUME Numbered, Count' = Count, orphans' = orphans,
           counter' # None \/ UNCHANGED <<counter, verifying>>,
           \A u \in Stops :
              /\ operations'[u].outcome = operations[u].outcome
                 \/ (counter' # None /\ ~operations'[u].outcome.block)
              /\ audits'[u] = None => audits[u] = None
    PROVE  Numbered'
<1>1. /\ Counted' \subseteq Counted
      /\ \A u \in Counted' : operations'[u].outcome = operations[u].outcome
  BY DEF Counted
<1>2. \A u \in Counted' : /\ operations'[u].outcome.count \in 1..Limit[u]
                          /\ operations'[u].outcome.count <= Count'
  BY <1>1 DEF Numbered
<1>3. \A u, v \in Counted' : u # v => operations'[u].outcome.count # operations'[v].outcome.count
  BY <1>1 DEF Numbered
<1>4. \A u \in Stops \ orphans' : operations'[u].outcome # None /\ audits'[u] = None => counter' # None
  BY DEF Numbered
<1>5. \A u \in Stops : verifying'[u] # None => counter' # None
  BY DEF Numbered
<1>. QED
  BY <1>2, <1>3, <1>4, <1>5 DEF Numbered

LEMMA BeginInv ==
    ASSUME Inv, NEW s \in Stops, Begin(s)
    PROVE  Inv'
<1>1. Count \in Nat /\ Count # None
  BY CountOK, TurnAssumption DEF Inv
<1>2. ClosureTypes'
  BY <1>1 DEF Inv, ClosureTypes, Begin, outside
<1>3. Story'
  <2>1. operations[s].outcome = None /\ operations[s].status \notin {"OUTCOME", "COMPLETED"}
    BY DEF Begin, Fresh, Inv, Story, StopOK
  <2>2. /\ operations'[s].status = "PENDING" /\ operations'[s].outcome = None
        /\ \A u \in Stops \ {s} : operations'[u] = operations[u] /\ verifying'[u] = verifying[u]
    BY <2>1 DEF Begin, Inv, ClosureTypes
  <2>3. UNCHANGED <<audits, confirmations, told>>
    BY DEF Begin, outside
  <2>4. StopOK(s)'
    BY <2>1, <2>2, <2>3 DEF Inv, Story, StopOK
  <2>5. \A u \in Stops \ {s} : StopOK(u)'
    BY <2>2, <2>3 DEF Inv, Story, StopOK
  <2>. QED
    BY <2>4, <2>5 DEF Story
<1>4. Owned' /\ OneAnswer'
  BY DEF Inv, Owned, OneAnswer, Begin, outside
<1>5. Numbered'
  <2>1. Count' = Count /\ counter' # None /\ orphans' = orphans
    BY <1>1 DEF Begin, Count, outside
  <2>2. \A u \in Stops : operations'[u].outcome = operations[u].outcome /\ audits'[u] = audits[u]
    BY DEF Begin, Inv, ClosureTypes
  <2>. QED
    BY <2>1, <2>2, StillNumbered DEF Inv
<1>. QED
  BY <1>2, <1>3, <1>4, <1>5 DEF Inv

LEMMA RepeatInv ==
    ASSUME Inv, NEW s \in Stops, Repeat(s)
    PROVE  Inv'
<1>. DEFINE o == operations[s].outcome
<1>1. o \in Outcomes /\ o # None
  BY DEF Inv, ClosureTypes, Repeat, Fresh
<1>2. Publish(s, o) /\ UNCHANGED <<counter, verifying>>
  BY DEF Repeat
<1>3. verifying' = [verifying EXCEPT ![s] = None]
  BY <1>1, <1>2 DEF Inv, Story, StopOK, ClosureTypes
<1>4. ClosureTypes' /\ Owned' /\ OneAnswer'
  BY <1>1, <1>2, PublishTypes, PublishOwned DEF Inv, ClosureTypes
<1>5. /\ Story'
      /\ \A u \in Stops : /\ operations'[u].outcome = operations[u].outcome
                          /\ audits'[u] = audits[u] \/ (u = s /\ audits'[u] = o)
  BY <1>1, <1>2, <1>3, PublishStory DEF Inv
<1>6. \A u \in Audited : u \in Audited' /\ audits'[u] = audits[u]
  BY <1>1, <1>5 DEF Inv, Story, StopOK, Audited
<1>7. Count <= Count' /\ Count \in Nat /\ Count' \in Nat
  <2>1. CASE counter # None
    BY <1>2, <2>1, CountOK DEF Count, Inv
  <2>2. CASE counter = None
    <3>1. /\ Audited \in SUBSET Stops /\ \A u \in Audited : audits[u].count \in Nat
          /\ Audited' \in SUBSET Stops /\ \A u \in Audited' : audits'[u].count \in Nat
      BY <1>4 DEF Inv, ClosureTypes, Audited, Outcomes
    <3>2. DEFINE M == Max({audits'[u].count : u \in Audited'} \cup {0})
    <3>3. M \in Nat /\ \A u \in Audited' : audits'[u].count <= M
      BY <3>1, MaxOfCounts
    <3>4. \A u \in Audited : audits[u].count <= M
      BY <1>6, <3>3
    <3>5. Max({audits[u].count : u \in Audited} \cup {0}) <= M
      BY <3>1, <3>3, <3>4, MaxOfCounts
    <3>6. Count' = M
      BY <1>2, <2>2 DEF Count, Audited
    <3>. QED
      BY <2>2, <3>3, <3>5, <3>6, CountOK DEF Count, Inv
  <2>. QED
    BY <2>1, <2>2
<1>8. Numbered'
  <2>1. Counted' = Counted /\ orphans' = orphans
    BY <1>2, <1>5, PublishWrites, <1>1 DEF Counted, Inv
  <2>2. \A u \in Counted : operations'[u].outcome.count \in 1..Limit[u] /\ operations'[u].outcome.count <= Count'
    <3>1. ASSUME NEW u \in Counted
          PROVE  operations'[u].outcome.count \in 1..Limit[u] /\ operations'[u].outcome.count <= Count'
      <4>1. operations[u].outcome.count \in 1..Limit[u] /\ operations[u].outcome.count <= Count
            /\ Limit[u] \in Nat
        BY TurnAssumption DEF Inv, Numbered, Counted
      <4>. QED
        BY <1>5, <1>7, <4>1 DEF Counted
    <3>. QED
      BY <3>1
  <2>3. \A u, v \in Counted : u # v => operations'[u].outcome.count # operations'[v].outcome.count
    BY <1>5 DEF Inv, Numbered, Counted
  <2>4. \A u \in Stops : audits'[u] = None => audits[u] = None
    BY <1>1, <1>5
  <2>5. \A u \in Stops \ orphans' : operations'[u].outcome # None /\ audits'[u] = None => counter' # None
    BY <1>2, <1>5, <2>1, <2>4 DEF Inv, Numbered
  <2>6. \A u \in Stops : verifying'[u] # None => counter' # None
    BY <1>2 DEF Inv, Numbered
  <2>. QED
    BY <2>1, <2>2, <2>3, <2>5, <2>6 DEF Numbered
<1>. QED
  BY <1>4, <1>5, <1>8 DEF Inv

(* An outcome that does not continue the turn.                              *)
LEMMA EndedInv ==
    ASSUME Inv, NEW s \in Stops, Fresh(s), NEW asks \in BOOLEAN, NEW count \in Nat,
           counter' = Count, verifying' = [verifying EXCEPT ![s] = None],
           Publish(s, Result(FALSE, asks, count))
    PROVE  Inv'
<1>. DEFINE o == Result(FALSE, asks, count)
<1>1. o \in Outcomes /\ ~o.block
  BY DEF Result, Outcomes
<1>2. Count \in Nat /\ Count # None
  BY CountOK, TurnAssumption DEF Inv
<1>3. verifying' \in [Stops -> Nat \cup {None}]
  BY DEF Inv, ClosureTypes
<1>4. ClosureTypes' /\ Owned' /\ OneAnswer'
  BY <1>1, <1>2, <1>3, PublishTypes, PublishOwned DEF Inv
<1>5. /\ Story'
      /\ \A u \in Stops : /\ operations'[u].outcome \in {operations[u].outcome, o}
                          /\ audits'[u] \in {audits[u], o}
                          /\ u # s => operations'[u] = operations[u]
  BY <1>1, PublishStory DEF Inv, Fresh
<1>6. Numbered'
  <2>1. Count' = Count /\ counter' # None
    BY <1>2 DEF Count
  <2>2. orphans' = orphans
    BY <1>1, PublishWrites DEF Inv
  <2>3. \A u \in Stops : audits'[u] = None => audits[u] = None
    BY <1>1, <1>5, TurnAssumption
  <2>. QED
    BY <1>1, <1>5, <2>1, <2>2, <2>3, StillNumbered DEF Inv
<1>. QED
  BY <1>4, <1>5, <1>6 DEF Inv

(* One that does takes the next number.                                     *)
LEMMA ContinuedInv ==
    ASSUME Inv, NEW s \in Stops, verifying[s] # None, Claimed(s), NEW asks \in BOOLEAN,
           counter' = Count + 1, verifying' = [verifying EXCEPT ![s] = None],
           Publish(s, Result(TRUE, asks, Count + 1))
    PROVE  Inv'
<1>. DEFINE o == Result(TRUE, asks, Count + 1)
<1>1. Count \in Nat /\ Count + 1 \in Nat /\ Count + 1 # None
  BY CountOK, TurnAssumption DEF Inv
<1>2. o \in Outcomes /\ o.count = Count + 1 /\ o # None
  <2>1. o \in Outcomes /\ o.count = Count + 1
    BY <1>1 DEF Result, Outcomes
  <2>. QED
    BY <2>1, TurnAssumption
<1>3. verifying' \in [Stops -> Nat \cup {None}]
  BY DEF Inv, ClosureTypes
<1>4. operations[s].outcome = None
  BY DEF Inv, Story, StopOK
<1>5. ClosureTypes' /\ Owned' /\ OneAnswer'
  BY <1>1, <1>2, <1>3, PublishTypes, PublishOwned DEF Inv
<1>6. /\ Story'
      /\ operations'[s].outcome \in {None, o}
      /\ \A u \in Stops : u # s => operations'[u] = operations[u]
  BY <1>2, <1>4, PublishStory DEF Inv
<1>7. orphans' = orphans
  BY <1>2, PublishWrites DEF Inv
<1>. HIDE DEF o
<1>8. Numbered'
  <2>1. Count' = Count + 1 /\ counter' # None
    BY <1>1 DEF Count
  <2>2. Counted' \subseteq Counted \cup {s} /\ s \notin Counted
    BY <1>2, <1>4, <1>6, <1>7 DEF Counted
  <2>3. \A u \in Counted : /\ operations'[u].outcome = operations[u].outcome
                           /\ operations[u].outcome.count \in 1..Limit[u]
                           /\ operations[u].outcome.count <= Count
                           /\ Limit[u] \in Nat
    BY <1>6, <2>2, TurnAssumption DEF Inv, Numbered, Counted
  <2>4. s \in Counted' => operations'[s].outcome.count = Count + 1 /\ Count + 1 \in 1..Limit[s]
    <3>1. s \in Counted' => operations'[s].outcome.count = Count + 1
      BY <1>2, <1>6 DEF Counted
    <3>2. Limit[s] \in Nat /\ Count < Limit[s]
      BY TurnAssumption DEF Claimed, Allowed
    <3>. QED
      BY <1>1, <3>1, <3>2
  <2>5. \A u \in Counted' : operations'[u].outcome.count \in 1..Limit[u] /\ operations'[u].outcome.count <= Count'
    <3>1. ASSUME NEW u \in Counted'
          PROVE  operations'[u].outcome.count \in 1..Limit[u] /\ operations'[u].outcome.count <= Count'
      <4>1. CASE u = s
        BY <1>1, <2>1, <2>4, <3>1, <4>1
      <4>2. CASE u \in Counted
        BY <1>1, <2>1, <2>3, <4>2
      <4>. QED
        BY <2>2, <4>1, <4>2
    <3>. QED
      BY <3>1
  <2>6. \A u, v \in Counted' : u # v => operations'[u].outcome.count # operations'[v].outcome.count
    <3>1. ASSUME NEW u \in Counted', NEW v \in Counted', u # v
          PROVE  operations'[u].outcome.count # operations'[v].outcome.count
      <4>1. CASE u \in Counted /\ v \in Counted
        BY <2>3, <3>1, <4>1 DEF Inv, Numbered
      <4>2. CASE u = s /\ v \in Counted
        BY <1>1, <2>3, <2>4, <3>1, <4>2
      <4>3. CASE v = s /\ u \in Counted
        BY <1>1, <2>3, <2>4, <3>1, <4>3
      <4>. QED
        BY <2>2, <3>1, <4>1, <4>2, <4>3
    <3>. QED
      BY <3>1
  <2>. QED
    BY <2>1, <2>5, <2>6 DEF Numbered
<1>. QED
  BY <1>5, <1>6, <1>8 DEF Inv

LEMMA LimitReachedInv ==
    ASSUME Inv, NEW s \in Stops, LimitReached(s)
    PROVE  Inv'
<1>1. Count \in Nat
  BY CountOK DEF Inv
<1>2. verifying' = [verifying EXCEPT ![s] = None] /\ Fresh(s) /\ counter' = Count
  BY DEF LimitReached, Inv, ClosureTypes
<1>. QED
  BY <1>1, <1>2, EndedInv DEF LimitReached

LEMMA VerifiedInv ==
    ASSUME Inv, NEW s \in Stops, Verified(s)
    PROVE  Inv'
<1>1. /\ Count \in Nat /\ verifying[s] \in Nat /\ Fresh(s) /\ verifying[s] # None
      /\ verifying' = [verifying EXCEPT ![s] = None]
  BY CountOK DEF Verified, Fresh, Inv, ClosureTypes, Story, StopOK
<1>2. counter # None /\ counter = Count
  BY <1>1 DEF Inv, Numbered, Count
<1>3. PICK asks \in BOOLEAN :
         \/ /\ Claimed(s)
            /\ counter' = Count + 1
            /\ Publish(s, Result(TRUE, asks, Count + 1))
         \/ /\ \E count \in {verifying[s], Count} : Publish(s, Result(FALSE, asks, count))
            /\ UNCHANGED counter
  BY DEF Verified
<1>4. CASE Claimed(s) /\ counter' = Count + 1 /\ Publish(s, Result(TRUE, asks, Count + 1))
  BY <1>1, <1>4, ContinuedInv
<1>5. CASE (\E count \in {verifying[s], Count} : Publish(s, Result(FALSE, asks, count))) /\ UNCHANGED counter
  BY <1>1, <1>2, <1>5, EndedInv
<1>. QED
  BY <1>3, <1>4, <1>5

(* Steps of the confirmations change nothing the counter looks at.          *)
LEMMA ConfirmationsOnly ==
    ASSUME Inv, UNCHANGED <<operations, audits, counter, verifying, told, orphans>>,
           \A s \in Stops : /\ confirmations'[s].status = "NONE" <=> confirmations[s].status = "NONE"
    PROVE  Story' /\ Numbered'
<1>1. Story'
  BY DEF Inv, Story, StopOK
<1>2. Count' = Count
  BY DEF Count, Audited
<1>. QED
  BY <1>1, <1>2, StillNumbered DEF Inv

LEMMA ReplyInv ==
    ASSUME Inv, NEW s \in Stops, NEW r \in Replies, Reply(s, r)
    PROVE  Inv'
<1>1. /\ confirmations'[s] = [status |-> "CLAIMED", claim |-> r]
      /\ \A u \in Stops \ {s} : confirmations'[u] = confirmations[u]
      /\ confirmations[s].status \in {"PENDING", "CLAIMED"}
      /\ confirmations[s].claim \in {None, r}
  BY DEF Reply, Pending, MayClaim, Inv, ClosureTypes
<1>2. ClosureTypes'
  BY DEF Inv, ClosureTypes, Reply
<1>3. Story' /\ Numbered'
  BY <1>1, ConfirmationsOnly DEF Reply
<1>4. Owned'
  <2>1. \A x \in waiting \cup landing : x[1] \in Stops /\ x[2] # None
    BY TurnAssumption DEF Inv, ClosureTypes
  <2>2. \A x \in waiting' \cup landing' : confirmations'[x[1]].claim = x[2]
    BY <1>1, <2>1 DEF Reply, Inv, Owned
  <2>3. waiting' \ landing' \subseteq waiting \ landing
    BY DEF Reply
  <2>. QED
    BY <1>1, <2>2, <2>3 DEF Reply, Inv, Owned
<1>5. OneAnswer'
  <2>1. effects[s] \subseteq {r}
    BY <1>1, TurnAssumption DEF Inv, ClosureTypes, OneAnswer
  <2>. QED
    BY <1>1, <2>1 DEF Reply, Inv, OneAnswer
<1>. QED
  BY <1>2, <1>3, <1>4, <1>5 DEF Inv

LEMMA LandInv ==
    ASSUME Inv, NEW s \in Stops, NEW r \in Replies, Land(s, r)
    PROVE  Inv'
<1>1. /\ effects'[s] = effects[s] \cup {r}
      /\ \A u \in Stops \ {s} : effects'[u] = effects[u]
      /\ confirmations[s].claim = r
  BY DEF Land, Inv, ClosureTypes, Owned
<1>2. ClosureTypes'
  BY DEF Inv, ClosureTypes, Land, stores, process
<1>3. Story' /\ Numbered'
  BY ConfirmationsOnly DEF Land, stores, process
<1>4. Owned'
  <2>1. \A x \in waiting \cup landing : x[1] \in Stops
    BY DEF Inv, ClosureTypes
  <2>2. \A x \in waiting' \ landing' : x[2] \in effects'[x[1]]
    <3>1. ASSUME NEW x \in waiting, x \notin landing' PROVE x[2] \in effects'[x[1]]
      <4>1. CASE x = <<s, r>>
        BY <1>1, <4>1
      <4>2. CASE x # <<s, r>>
        BY <1>1, <2>1, <3>1, <4>2 DEF Land, Inv, Owned
      <4>. QED
        BY <4>1, <4>2
    <3>. QED
      BY <3>1 DEF Land, process
  <2>. QED
    BY <2>2 DEF Land, stores, process, Inv, Owned
<1>5. OneAnswer'
  BY <1>1 DEF Land, stores, Inv, OneAnswer
<1>. QED
  BY <1>2, <1>3, <1>4, <1>5 DEF Inv

LEMMA CompleteInv ==
    ASSUME Inv, NEW s \in Stops, NEW r \in Replies, Complete(s, r)
    PROVE  Inv'
<1>1. /\ confirmations[s].claim = r /\ r \in effects[s] /\ confirmations[s].status # "NONE"
      /\ confirmations' = [confirmations EXCEPT ![s].status = "RESOLVED"]
  BY TurnAssumption DEF Complete, Inv, Owned
<1>2. /\ confirmations'[s].status = "RESOLVED" /\ confirmations'[s].claim = r
      /\ \A u \in Stops \ {s} : confirmations'[u] = confirmations[u]
  BY <1>1 DEF Inv, ClosureTypes
<1>3. ClosureTypes'
  BY <1>1 DEF Inv, ClosureTypes, Complete, outside
<1>4. Story' /\ Numbered'
  BY <1>1, <1>2, ConfirmationsOnly DEF Complete, outside
<1>5. Owned'
  <2>1. \A x \in waiting \cup landing : x[1] \in Stops
    BY DEF Inv, ClosureTypes
  <2>. QED
    BY <1>1, <1>2, <2>1 DEF Complete, outside, Inv, Owned
<1>6. OneAnswer'
  BY <1>1, <1>2 DEF Complete, outside, Inv, OneAnswer
<1>. QED
  BY <1>3, <1>4, <1>5, <1>6 DEF Inv

LEMMA AbandonInv ==
    ASSUME Inv, NEW s \in Stops, NEW r \in Replies, Abandon(s, r)
    PROVE  Inv'
<1>1. ClosureTypes'
  BY DEF Inv, ClosureTypes, Abandon, stores, outside
<1>2. Story' /\ Numbered'
  BY ConfirmationsOnly DEF Abandon, stores, outside
<1>3. Owned' /\ OneAnswer'
  BY DEF Abandon, stores, outside, Inv, Owned, OneAnswer
<1>. QED
  BY <1>1, <1>2, <1>3 DEF Inv

LEMMA RestartInv ==
    ASSUME Inv, Restart
    PROVE  Inv'
<1>1. ClosureTypes' /\ Owned' /\ OneAnswer'
  BY DEF Inv, ClosureTypes, Owned, OneAnswer, Restart, stores
<1>2. \A s \in Stops : verifying'[s] = None
  BY DEF Restart
<1>3. Story'
  BY <1>2 DEF Inv, Story, StopOK, Restart, stores
<1>4. Numbered'
  <2>1. counter' = None /\ UNCHANGED stores
    BY DEF Restart
  <2>2. \A s \in Stops \ orphans' : operations[s].outcome # None => audits[s] = operations[s].outcome
    BY DEF Restart, Inv, Story, StopOK
  <2>3. Counted' \subseteq Counted /\ orphans \subseteq orphans'
    BY DEF Counted, Restart, stores
  <2>4. \A s \in Counted' : audits[s] # None /\ audits[s] = operations[s].outcome
    BY <2>1, <2>2 DEF Counted, stores
  <2>5. \A s \in Counted' : operations[s].outcome.count <= Count'
    <3>1. Audited \in SUBSET Stops /\ \A s \in Audited : audits[s].count \in Nat
      BY DEF Inv, ClosureTypes, Audited, Outcomes
    <3>2. \A s \in Audited : audits[s].count <= Max({audits[u].count : u \in Audited} \cup {0})
      BY <3>1, MaxOfCounts
    <3>3. Count' = Max({audits[u].count : u \in Audited} \cup {0})
      BY <2>1 DEF Count, Audited, stores
    <3>. QED
      BY <2>4, <3>2, <3>3 DEF Audited, Counted
  <2>. QED
    BY <1>2, <2>1, <2>2, <2>3, <2>5 DEF Inv, Numbered, stores
<1>. QED
  BY <1>1, <1>3, <1>4 DEF Inv

-----------------------------------------------------------------------------
LEMMA ClosureInitially == CInit => Inv
<1>. SUFFICES ASSUME CInit PROVE Inv
  OBVIOUS
<1>1. ClosureTypes
  BY DEF CInit, ClosureTypes
<1>2. Story /\ Owned /\ OneAnswer /\ Numbered
  BY DEF CInit, Story, StopOK, Owned, OneAnswer, Numbered, Counted
<1>. QED
  BY <1>1, <1>2 DEF Inv

LEMMA ClosureStep == Inv /\ [CNext]_cvars => Inv'
<1>. SUFFICES ASSUME Inv, [CNext]_cvars PROVE Inv'
  OBVIOUS
<1>1. CASE \E s \in Stops : Repeat(s) \/ Begin(s) \/ LimitReached(s) \/ Verified(s)
  BY <1>1, RepeatInv, BeginInv, LimitReachedInv, VerifiedInv
<1>2. CASE \E s \in Stops, r \in Replies : Reply(s, r) \/ Land(s, r) \/ Complete(s, r) \/ Abandon(s, r)
  BY <1>2, ReplyInv, LandInv, CompleteInv, AbandonInv
<1>3. CASE Restart
  BY <1>3, RestartInv
<1>4. CASE UNCHANGED cvars
  BY <1>4 DEF cvars, stores, process, outside, Inv, ClosureTypes, Story, StopOK, Owned, OneAnswer,
              Numbered, Counted, Count, Audited
<1>. QED
  BY <1>1, <1>2, <1>3, <1>4 DEF CNext

LEMMA AlwaysInv == CSpec => []Inv
BY ClosureInitially, ClosureStep, PTL DEF CSpec

(* ClosureConfirmation: of any number of replies to a confirmation, named   *)
(* and unnamed, retried, raced or landing after their deadline, only the    *)
(* one that claimed it has an effect, and it has it when it is resolved.    *)
THEOREM OneAnswerHolds == CSpec => []OneAnswer
<1>1. Inv => OneAnswer
  BY DEF Inv
<1>. QED
  BY <1>1, AlwaysInv, PTL

(* ClosureConfirmation: whichever writes fail and whenever the process      *)
(* dies, operation, audit and confirmation of a Stop never contradict one   *)
(* another, and the host hears of an outcome only when all three have it.   *)
THEOREM OneStoryHolds == CSpec => []OneStory
<1>1. Inv => OneStory
  BY DEF Inv, Story, StopOK, OneStory
<1>. QED
  BY <1>1, AlwaysInv, PTL

(* ClosureConfirmation: for any number of concurrent Stops of a turn and    *)
(* any limits, the continuations the host was told of are numbered without  *)
(* repetition up to the limit of their Stop, but for those interrupted      *)
(* between their checkpoint and their audit.                                *)
THEOREM BoundedContinuationsHolds == CSpec => []BoundedContinuations
<1>1. ASSUME Inv PROVE BoundedContinuations
  <2>1. Continued \subseteq Counted
    BY <1>1, TurnAssumption DEF Continued, Counted, Inv, ClosureTypes, Story, StopOK
  <2>. QED
    BY <1>1, <2>1 DEF BoundedContinuations, Inv, Numbered
<1>. QED
  BY <1>1, AlwaysInv, PTL
===============================================================================
