--------------------------- MODULE HookDeliveryProofs ---------------------------
(***************************************************************************)
(* The safety of the way from a hook to the ledger, proved for any number   *)
(* of events, calls, batch sizes, faults and restarts.                      *)
(***************************************************************************)
EXTENDS HookDelivery, TLAPS

(* What the proofs need of the variables' types.                            *)
CallsOK ==
    /\ calls \in Seq(Call \cup {NULL})
    /\ \A c \in DOMAIN calls : Live(c) => calls[c] \in Call

Batch == cycle # NULL => cycle = [todo |-> cycle.todo, appended |-> cycle.appended]

Rows == \E S : ledger \in Seq(S)

(* A record is unlinked only once its row is there.                         *)
Appended == cycle # NULL /\ cycle.appended => InLedger(Eldest.event)

HInv == CallsOK /\ Batch /\ Rows /\ Appended /\ AnsweredIsKept /\ OncePerEvent

KeepsAll == \A e : Kept(e) => Kept(e)'

-----------------------------------------------------------------------------
(* Steps of one call.                                                       *)

LEMMA CallChanges ==
    ASSUME CallsOK, AnsweredIsKept, KeepsAll, NEW c \in DOMAIN calls, NEW call \in Call,
           calls' = [calls EXCEPT ![c] = call],
           call.answer \in {"enqueued", "spooled"} => Kept(call.event)'
    PROVE  CallsOK' /\ AnsweredIsKept'
<1>1. /\ DOMAIN calls' = DOMAIN calls /\ calls'[c] = call
      /\ \A d \in DOMAIN calls : d # c => calls'[d] = calls[d]
  OBVIOUS
<1>2. calls' \in Seq(Call \cup {NULL})
  BY DEF CallsOK
<1>3. CallsOK'
  BY <1>1, <1>2 DEF CallsOK, Live
<1>4. ASSUME NEW d \in DOMAIN calls', Live(d)', calls'[d].answer \in {"enqueued", "spooled"}
      PROVE  Kept(calls[d].event)'
  <2>1. CASE d = c
    <3>1. calls'[d] = call /\ Kept(call.event)'
      BY <1>1, <1>4, <2>1
    <3>. QED
      BY <3>1 DEF Kept, InLedger
  <2>2. CASE d # c
    <3>1. PICK e : e = calls[d].event
      OBVIOUS
    <3>2. Kept(e)
      BY <1>1, <1>4, <2>2, <3>1 DEF AnsweredIsKept, Live
    <3>3. Kept(e)' /\ calls'[d].event = e
      BY <1>1, <1>4, <2>2, <3>1, <3>2 DEF KeepsAll
    <3>. QED
      BY <3>3 DEF Kept, InLedger
  <2>. QED
    BY <2>1, <2>2
<1>5. AnsweredIsKept'
  BY <1>4 DEF AnsweredIsKept
<1>. QED
  BY <1>3, <1>5

LEMMA CallsStay ==
    ASSUME AnsweredIsKept, KeepsAll, CallsOK, calls' = calls
    PROVE  CallsOK' /\ AnsweredIsKept'
<1>1. CallsOK'
  BY DEF CallsOK, Live
<1>2. ASSUME NEW d \in DOMAIN calls', Live(d)', calls'[d].answer \in {"enqueued", "spooled"}
      PROVE  Kept(calls[d].event)'
  <2>1. PICK e : e = calls[d].event
    OBVIOUS
  <2>2. Kept(e)
    BY <1>2, <2>1 DEF AnsweredIsKept, Live
  <2>3. Kept(e)' /\ calls'[d].event = e
    BY <2>1, <2>2 DEF KeepsAll
  <2>. QED
    BY <2>3 DEF Kept, InLedger
<1>3. AnsweredIsKept'
  BY <1>2 DEF AnsweredIsKept
<1>. QED
  BY <1>1, <1>3

(* What the handler makes of a writer that settled.                         *)
LEMMA SettleOK ==
    ASSUME NEW call \in Call, NEW writer \in Writers, NEW outcome \in Written
    PROVE  LET settled == Settle(call, writer, outcome) IN
           /\ settled \in Call /\ settled.event = call.event
           /\ \/ settled.answer = call.answer \/ settled.answer = "dropped"
              \/ outcome = "stored"
<1>1. PICK one : one = [call EXCEPT ![writer] = outcome]
  OBVIOUS
<1>2. one \in Call /\ one.event = call.event /\ one.answer = call.answer
  <2>1. CASE writer = "sink"
    BY <1>1, <2>1 DEF Call, Written
  <2>2. CASE writer = "spool"
    BY <1>1, <2>2 DEF Call, Written
  <2>. QED
    BY <2>1, <2>2 DEF Writers
<1>3. /\ \A a \in Answers : /\ [one EXCEPT !.answer = a] \in Call
                            /\ [one EXCEPT !.answer = a].event = call.event
                            /\ [one EXCEPT !.answer = a].answer = a
      /\ [one EXCEPT !.spool = "look"] \in Call
      /\ [one EXCEPT !.spool = "look"].event = call.event
      /\ [one EXCEPT !.spool = "look"].answer = call.answer
      /\ [call EXCEPT !.sink = NULL] \in Call
      /\ [call EXCEPT !.sink = NULL].event = call.event
      /\ [call EXCEPT !.sink = NULL].answer = call.answer
  <2>1. \A a \in Answers : /\ [one EXCEPT !.answer = a] \in Call
                           /\ [one EXCEPT !.answer = a].event = call.event
                           /\ [one EXCEPT !.answer = a].answer = a
    BY <1>2 DEF Call
  <2>2. /\ [one EXCEPT !.spool = "look"] \in Call
        /\ [one EXCEPT !.spool = "look"].event = call.event
        /\ [one EXCEPT !.spool = "look"].answer = call.answer
    BY <1>2 DEF Call, Writing
  <2>3. /\ [call EXCEPT !.sink = NULL] \in Call
        /\ [call EXCEPT !.sink = NULL].event = call.event
        /\ [call EXCEPT !.sink = NULL].answer = call.answer
    BY DEF Call
  <2>. QED
    BY <2>1, <2>2, <2>3
<1>4. \/ outcome = "stored" /\ Settle(call, writer, outcome) = [one EXCEPT !.answer = "spooled"]
      \/ Settle(call, writer, outcome) = [one EXCEPT !.answer = "dropped"]
      \/ Settle(call, writer, outcome) = [call EXCEPT !.sink = NULL]
      \/ outcome = "stored" /\ Settle(call, writer, outcome) = [one EXCEPT !.answer = "enqueued"]
      \/ Settle(call, writer, outcome) = [one EXCEPT !.spool = "look"]
  BY <1>1 DEF Settle
<1>5. "spooled" \in Answers /\ "dropped" \in Answers /\ "enqueued" \in Answers
  BY DEF Answers
<1>. QED
  BY <1>3, <1>4, <1>5

LEMMA EndsOK ==
    ASSUME CallsOK, AnsweredIsKept, KeepsAll, NEW c \in DOMAIN calls, Live(c),
           NEW writer \in Writers, NEW outcome \in Written, Ends(c, writer, outcome),
           NEW event, event = calls[c].event, outcome = "stored" => Kept(event)'
    PROVE  CallsOK' /\ AnsweredIsKept'
<1>1. PICK call : call = Settle(calls[c], writer, outcome)
  OBVIOUS
<1>2. calls[c] \in Call
  BY DEF CallsOK
<1>3. /\ call \in Call /\ call.event = event
      /\ call.answer = calls[c].answer \/ call.answer = "dropped" \/ outcome = "stored"
  BY <1>1, <1>2, SettleOK
<1>4. call.answer \in {"enqueued", "spooled"} => Kept(event) \/ outcome = "stored"
  BY <1>3 DEF AnsweredIsKept
<1>5. call.answer \in {"enqueued", "spooled"} => Kept(event)'
  BY <1>4 DEF KeepsAll
<1>6. calls' = [calls EXCEPT ![c] = call]
  BY <1>1 DEF Ends
<1>7. call.answer \in {"enqueued", "spooled"} => Kept(call.event)'
  BY <1>3, <1>5 DEF Kept, InLedger
<1>. QED
  BY <1>3, <1>6, <1>7, CallChanges

LEMMA StepOK ==
    ASSUME CallsOK, AnsweredIsKept, KeepsAll, NEW c \in DOMAIN calls, Live(c),
           NEW writer \in Writers, NEW to \in Writing, Step(c, writer, to)
    PROVE  CallsOK' /\ AnsweredIsKept'
<1>1. PICK call, event : call = [calls[c] EXCEPT ![writer] = to] /\ event = calls[c].event
  OBVIOUS
<1>2. calls[c] \in Call
  BY DEF CallsOK
<1>3. call \in Call /\ call.event = event /\ call.answer = calls[c].answer
  <2>1. CASE writer = "sink"
    BY <1>1, <1>2, <2>1 DEF Call
  <2>2. CASE writer = "spool"
    BY <1>1, <1>2, <2>2 DEF Call
  <2>. QED
    BY <2>1, <2>2 DEF Writers
<1>4. calls' = [calls EXCEPT ![c] = call]
  BY <1>1 DEF Step
<1>5. call.answer \in {"enqueued", "spooled"} => Kept(event)
  BY <1>1, <1>3 DEF AnsweredIsKept
<1>6. call.answer \in {"enqueued", "spooled"} => Kept(call.event)'
  BY <1>3, <1>5 DEF KeepsAll, Kept, InLedger
<1>. QED
  BY <1>3, <1>4, <1>6, CallChanges

-----------------------------------------------------------------------------
(* The actions.                                                             *)

LEMMA NothingGoes ==
    ASSUME UNCHANGED disk
    PROVE  KeepsAll
  BY DEF KeepsAll, Kept, InLedger, disk

(* A step that leaves the ledger and the cycle alone.                       *)
LEMMA MemoryOnly ==
    ASSUME HInv, CallsOK', AnsweredIsKept', UNCHANGED <<ledger, cycle>>
    PROVE  HInv'
  BY DEF HInv, Batch, Rows, Appended, InLedger, Eldest, OncePerEvent

LEMMA ObserveStep ==
    ASSUME HInv, NEW e \in Events, Observe(e)
    PROVE  HInv' /\ KeepsAll
<1>1. KeepsAll
  BY NothingGoes DEF Observe
<1>2. PICK call : call = [event |-> e, sink |-> "look", spool |-> NULL,
                          answer |-> NULL, returned |-> FALSE]
  OBVIOUS
<1>3. call \in Call /\ call.answer = NULL
  BY <1>2 DEF Call, Writing
<1>4. calls' = Append(calls, call) /\ calls \in Seq(Call \cup {NULL})
  BY <1>2 DEF Observe, HInv, CallsOK
<1>5. /\ calls' \in Seq(Call \cup {NULL}) /\ DOMAIN calls' = DOMAIN calls \cup {Len(calls) + 1}
      /\ calls'[Len(calls) + 1] = call /\ \A c \in DOMAIN calls : calls'[c] = calls[c]
  BY <1>3, <1>4
<1>6. CallsOK'
  BY <1>3, <1>5 DEF HInv, CallsOK, Live
<1>7. ASSUME NEW d \in DOMAIN calls', Live(d)', calls'[d].answer \in {"enqueued", "spooled"}
      PROVE  Kept(calls[d].event)'
  <2>1. d \in DOMAIN calls \/ calls'[d].answer = NULL
    BY <1>3, <1>5
  <2>2. CASE d \in DOMAIN calls
    <3>1. PICK f : f = calls[d].event
      OBVIOUS
    <3>2. Kept(f) /\ calls'[d].event = f
      BY <1>5, <1>7, <2>2, <3>1 DEF HInv, AnsweredIsKept, Live
    <3>. QED
      BY <1>1, <3>2 DEF KeepsAll, Kept, InLedger
  <2>3. CASE calls'[d].answer = NULL
    BY <1>7, <2>3, HookAssumption DEF Answers
  <2>. QED
    BY <2>1, <2>2, <2>3
<1>8. AnsweredIsKept'
  BY <1>7 DEF AnsweredIsKept
<1>. QED
  BY <1>1, <1>6, <1>8, MemoryOnly DEF Observe, disk

LEMMA DeadlineStep ==
    ASSUME HInv, NEW c \in DOMAIN calls, Deadline(c)
    PROVE  HInv' /\ KeepsAll
<1>1. KeepsAll
  BY NothingGoes DEF Deadline
<1>2. calls[c] \in Call
  BY DEF HInv, CallsOK, Deadline
<1>3. PICK call : call = [calls[c] EXCEPT !.spool = "look"]
  OBVIOUS
<1>4. call \in Call /\ call.answer = calls[c].answer /\ call.event = calls[c].event
  BY <1>2, <1>3 DEF Call, Writing
<1>5. calls' = [calls EXCEPT ![c] = call]
  BY <1>3 DEF Deadline
<1>6. call.answer \in {"enqueued", "spooled"} => Kept(call.event)
  BY <1>4 DEF HInv, AnsweredIsKept, Deadline
<1>7. CallsOK' /\ AnsweredIsKept'
  BY <1>1, <1>4, <1>5, <1>6, CallChanges DEF HInv, KeepsAll
<1>. QED
  BY <1>1, <1>7, MemoryOnly DEF Deadline, disk

LEMMA ReturnStep ==
    ASSUME HInv, NEW c \in DOMAIN calls, Return(c)
    PROVE  HInv' /\ KeepsAll
<1>1. KeepsAll
  BY NothingGoes DEF Return
<1>2. calls[c] \in Call
  BY DEF HInv, CallsOK, Return
<1>3. PICK call : call = [calls[c] EXCEPT !.returned = TRUE]
  OBVIOUS
<1>4. call \in Call /\ call.answer = calls[c].answer /\ call.event = calls[c].event
  BY <1>2, <1>3 DEF Call
<1>5. calls' = [calls EXCEPT ![c] = call]
  BY <1>3 DEF Return
<1>6. call.answer \in {"enqueued", "spooled"} => Kept(call.event)
  BY <1>4 DEF HInv, AnsweredIsKept, Return
<1>7. CallsOK' /\ AnsweredIsKept'
  BY <1>1, <1>4, <1>5, <1>6, CallChanges DEF HInv, KeepsAll
<1>. QED
  BY <1>1, <1>7, MemoryOnly DEF Return, disk

(* A store adds a file at most, and reports it only when it is there.       *)
LEMMA StoreStep ==
    ASSUME HInv, NEW c \in DOMAIN calls, NEW w \in Writers, Store(c, w)
    PROVE  HInv' /\ KeepsAll
<1>1. Live(c) /\ UNCHANGED <<corrupt, ledger, cycle>> /\ CallsOK /\ AnsweredIsKept
  BY DEF Store, HInv
<1>2. DOMAIN files \subseteq DOMAIN files'
  BY DEF Store, Look, Link, Reread, StoreFails
<1>3. KeepsAll
  BY <1>1, <1>2 DEF KeepsAll, Kept, InLedger
<1>4. /\ "stored" \in Written /\ "failed" \in Written
      /\ "link" \in Writing /\ "reread" \in Writing
  BY DEF Written, Writing
<1>5. PICK e : e = calls[c].event
  OBVIOUS
<1>6. \/ \E to \in Writing : Step(c, w, to)
      \/ Ends(c, w, "failed")
      \/ Ends(c, w, "stored") /\ e \in DOMAIN files'
  <2>1. CASE Look(c, w)
    BY <1>4, <1>5, <2>1 DEF Look
  <2>2. CASE Link(c, w)
    BY <1>4, <1>5, <2>2 DEF Link
  <2>3. CASE Reread(c, w)
    BY <1>5, <2>3 DEF Reread
  <2>4. CASE StoreFails(c, w)
    BY <2>4 DEF StoreFails
  <2>. QED
    BY <2>1, <2>2, <2>3, <2>4 DEF Store
<1>7. CASE \E to \in Writing : Step(c, w, to)
  BY <1>1, <1>3, <1>7, StepOK, MemoryOnly
<1>8. CASE Ends(c, w, "failed")
  BY <1>1, <1>3, <1>4, <1>5, <1>8, EndsOK, MemoryOnly
<1>9. CASE Ends(c, w, "stored") /\ e \in DOMAIN files'
  <2>1. Kept(e)'
    BY <1>9 DEF Kept
  <2>. QED
    BY <1>1, <1>3, <1>4, <1>5, <1>9, <2>1, EndsOK, MemoryOnly
<1>. QED
  BY <1>3, <1>6, <1>7, <1>8, <1>9

(* A step of the worker: no call changes.                                   *)
LEMMA WorkerOnly ==
    ASSUME HInv, calls' = calls, KeepsAll, Batch', Rows', Appended', OncePerEvent'
    PROVE  HInv' /\ KeepsAll
  BY CallsStay DEF HInv

LEMMA ContinueOK ==
    ASSUME NEW todo, Continue(todo)
    PROVE  Batch' /\ Appended'
<1>1. cycle' = NULL \/ cycle' = [todo |-> todo, appended |-> FALSE]
  BY DEF Continue
<1>2. CASE cycle' = NULL
  BY <1>2 DEF Batch, Appended
<1>3. CASE cycle' = [todo |-> todo, appended |-> FALSE]
  BY <1>3 DEF Batch, Appended
<1>. QED
  BY <1>1, <1>2, <1>3

(* The row is there before the record is marked.                            *)
LEMMA DeliveredOK ==
    ASSUME HInv, calls' = calls, KeepsAll, Rows', OncePerEvent', cycle # NULL,
           cycle' = [cycle EXCEPT !.appended = TRUE],
           NEW e, e = Eldest.event, InLedger(e)'
    PROVE  HInv' /\ KeepsAll
<1>1. cycle = [todo |-> cycle.todo, appended |-> cycle.appended]
  BY DEF HInv, Batch
<1>2. cycle' = [todo |-> cycle.todo, appended |-> TRUE]
  BY <1>1
<1>3. cycle'.todo = cycle.todo
  BY <1>2
<1>4. Batch'
  BY <1>2 DEF Batch
<1>5. (Eldest.event)' = e
  BY <1>3 DEF Eldest
<1>6. Appended'
  BY <1>5 DEF Appended, InLedger
<1>. QED
  BY <1>4, <1>6, WorkerOnly

LEMMA BeginStep ==
    ASSUME HInv, BeginCycle
    PROVE  HInv' /\ KeepsAll
<1>1. PICK listed, unreadable : Drain(listed, unreadable)
  BY DEF BeginCycle
<1>2. calls' = calls /\ ledger' = ledger
  BY DEF BeginCycle
<1>3. KeepsAll
  BY <1>1, <1>2 DEF Drain, KeepsAll, Kept, InLedger
<1>4. PICK todo : Continue(todo)
  BY <1>1 DEF Drain
<1>5. Batch' /\ Appended'
  BY <1>4, ContinueOK
<1>6. Rows' /\ OncePerEvent'
  BY <1>2 DEF HInv, Rows, OncePerEvent
<1>. QED
  BY <1>2, <1>3, <1>5, <1>6, WorkerOnly

LEMMA DeliverStep ==
    ASSUME HInv, Deliver
    PROVE  HInv' /\ KeepsAll
<1>1. PICK e : e = Eldest.event
  OBVIOUS
<1>2. /\ calls' = calls /\ files' = files /\ corrupt' = corrupt
      /\ cycle' = [cycle EXCEPT !.appended = TRUE] /\ cycle # NULL
      /\ Insert(e)
  BY <1>1 DEF Deliver
<1>3. PICK S : ledger \in Seq(S)
  BY DEF HInv, Rows
<1>4. CASE InLedger(e)
  <2>1. ledger' = ledger
    BY <1>2, <1>4 DEF Insert
  <2>2. InLedger(e)' /\ Rows' /\ OncePerEvent'
    BY <1>4, <2>1 DEF InLedger, HInv, Rows, OncePerEvent
  <2>. QED
    BY <1>1, <1>2, <2>1, <2>2, DeliveredOK, NothingGoes DEF disk
<1>5. CASE ~InLedger(e)
  <2>1. ledger' = Append(ledger, e) /\ ledger \in Seq(S \cup {e})
    BY <1>2, <1>3, <1>5 DEF Insert
  <2>2. /\ ledger' \in Seq(S \cup {e}) /\ DOMAIN ledger' = DOMAIN ledger \cup {Len(ledger) + 1}
        /\ ledger'[Len(ledger) + 1] = e /\ \A s \in DOMAIN ledger : ledger'[s] = ledger[s]
    BY <2>1
  <2>3. InLedger(e)' /\ Rows'
    BY <2>2 DEF InLedger, Rows
  <2>4. OncePerEvent'
    BY <1>5, <2>2 DEF InLedger, HInv, OncePerEvent
  <2>5. KeepsAll
    BY <1>2, <2>2 DEF KeepsAll, Kept, InLedger
  <2>. QED
    BY <1>1, <1>2, <2>3, <2>4, <2>5, DeliveredOK
<1>. QED
  BY <1>4, <1>5

LEMMA UnlinkStep ==
    ASSUME HInv, Unlink
    PROVE  HInv' /\ KeepsAll
<1>1. PICK e : e = Eldest.event
  OBVIOUS
<1>2. /\ calls' = calls /\ corrupt' = corrupt /\ ledger' = ledger
      /\ files' = [f \in DOMAIN files \ {e} |-> files[f]] /\ InLedger(e)
  BY <1>1 DEF Unlink, HInv, Appended
<1>3. KeepsAll
  BY <1>2 DEF KeepsAll, Kept, InLedger
<1>4. PICK todo : Continue(todo)
  BY DEF Unlink
<1>5. Batch' /\ Appended'
  BY <1>4, ContinueOK
<1>6. Rows' /\ OncePerEvent'
  BY <1>2 DEF HInv, Rows, OncePerEvent
<1>. QED
  BY <1>2, <1>3, <1>5, <1>6, WorkerOnly

LEMMA RestartStep ==
    ASSUME HInv, Restart
    PROVE  HInv' /\ KeepsAll
<1>1. /\ calls' = [c \in DOMAIN calls |-> NULL] /\ cycle' = NULL /\ UNCHANGED disk
  BY DEF Restart
<1>2. KeepsAll
  BY <1>1, NothingGoes
<1>3. calls' \in Seq(Call \cup {NULL}) /\ \A c \in DOMAIN calls' : calls'[c] = NULL
  <2>1. calls \in Seq(Call \cup {NULL})
    BY DEF HInv, CallsOK
  <2>. QED
    BY <1>1, <2>1
<1>4. CallsOK' /\ AnsweredIsKept'
  BY <1>3 DEF CallsOK, AnsweredIsKept, Live
<1>5. Batch' /\ Appended' /\ Rows' /\ OncePerEvent'
  BY <1>1 DEF Batch, Appended, HInv, Rows, OncePerEvent, disk
<1>. QED
  BY <1>2, <1>4, <1>5 DEF HInv

LEMMA HookStep ==
    ASSUME HInv, [Next]_vars
    PROVE  HInv' /\ KeepsAll
<1>1. CASE Request \/ CycleFails \/ UNCHANGED vars
  <2>1. calls' = calls /\ UNCHANGED disk /\ cycle' \in {cycle, NULL}
    BY <1>1 DEF Request, CycleFails, vars, disk
  <2>2. KeepsAll
    BY <2>1, NothingGoes
  <2>3. Batch' /\ Rows' /\ OncePerEvent'
    BY <2>1 DEF HInv, Batch, Rows, OncePerEvent, disk
  <2>4. Appended'
    BY <2>1 DEF HInv, Appended, InLedger, Eldest, disk
  <2>. QED
    BY <2>1, <2>2, <2>3, <2>4, WorkerOnly
<1>2. CASE \E c \in DOMAIN calls : Deadline(c) \/ Return(c) \/ \E w \in Writers : Store(c, w)
  BY <1>2, DeadlineStep, ReturnStep, StoreStep
<1>. QED
  BY <1>1, <1>2, ObserveStep, BeginStep, DeliverStep, UnlinkStep, RestartStep DEF Next

(* HInv is inductive: it holds of the empty disk, and HookStep keeps it.    *)
THEOREM AlwaysHInv == Spec => []HInv
<1>1. Init => HInv
  <2>. SUFFICES ASSUME Init
                PROVE  HInv
    OBVIOUS
  <2>1. calls \in Seq(Call \cup {NULL}) /\ DOMAIN calls = {}
    BY DEF Init
  <2>2. ledger \in Seq({}) /\ DOMAIN ledger = {}
    BY DEF Init
  <2>. QED
    BY <2>1, <2>2 DEF Init, HInv, CallsOK, Batch, Rows, Appended, AnsweredIsKept, OncePerEvent
<1>2. HInv /\ [Next]_vars => HInv'
  BY HookStep
<1>. QED
  BY <1>1, <1>2, PTL DEF Spec, QuietSpec

(* An event that handle reported as enqueued or spooled is on disk, whatever *)
(* raced: the two writers of one call, other calls, the drain.              *)
THEOREM AnsweredIsKeptHolds == Spec => []AnsweredIsKept
<1>1. HInv => AnsweredIsKept
  BY DEF HInv
<1>. QED
  BY <1>1, AlwaysHInv, PTL

(* append is idempotent: one event is one row of the ledger, however often  *)
(* its record is delivered.                                                 *)
THEOREM OncePerEventHolds == Spec => []OncePerEvent
<1>1. HInv => OncePerEvent
  BY DEF HInv
<1>. QED
  BY <1>1, AlwaysHInv, PTL

(* What reached the disk never leaves it: the drain unlinks a record only   *)
(* once its row is in the ledger.                                           *)
THEOREM NeverLostHolds == Spec => NeverLost
<1>1. HInv /\ [Next]_vars => [\A e \in Events : Kept(e) => Kept(e)']_vars
  BY HookStep DEF KeepsAll
<1>. QED
  BY <1>1, AlwaysHInv, PTL DEF Spec, QuietSpec, NeverLost

=============================================================================
