----------------------------- MODULE HookDelivery -----------------------------
(***************************************************************************)
(* The way of a Codex hook event to the conversation ledger: CodexHookHandler *)
(* (packages/hook-runtime/src/handler.ts) races the enqueue of an event      *)
(* against its deadline and falls back to the spool; LocalEventSpool         *)
(* (spool.ts) keeps one file per event; a worker cycle of the daemon         *)
(* (packages/daemon-runtime/src/runtime.ts) drains the spool into the ledger *)
(* (packages/conversation-ledger/src/event-ledger.ts).  apps/sidecar/src/    *)
(* application.ts composes them: there, the sink of the handler is the same  *)
(* spool as its fallback, so a late sink and the fallback write one file.    *)
(*                                                                         *)
(* Files and ledger rows survive a crash; the rest is memory of one process. *)
(* An event is its eventId: the adapter derives it from all the fields that  *)
(* identity checks compare, so that two deliveries of one event never        *)
(* conflict.                                                               *)
(***************************************************************************)
EXTENDS Integers, Sequences, FiniteSets, FiniteSetsExt

CONSTANTS
    NULL,
    Events,       \* event identities
    MaxCalls,     \* hook calls; Codex may deliver an event more than once
    DrainLimit,   \* records one cycle delivers at most
    ScanLimit,    \* files one cycle opens at most
    MaxFaults     \* failing file, database and cycle operations, and crashes

Calls == 1..MaxCalls
Writers == {"sink", "spool"}
\* Progress of one LocalEventSpool.store: #existingResult, then the temporary
\* file (nobody else's) and link, then #existingResult again when link found the
\* name taken.
Writing == {"look", "link", "reread"}
Written == {"stored", "failed"}
Answers == {"enqueued", "spooled", "dropped"}

ASSUME HookAssumption ==
    /\ MaxCalls \in Nat /\ MaxFaults \in Nat
    /\ DrainLimit \in Nat \ {0} /\ ScanLimit \in Nat \ {0}
    /\ NULL \notin Answers

VARIABLES
    calls,     \* the hook calls so far, in the order they were observed
    files,     \* active files of the spool: event |-> occurredAt in the record
    corrupt,   \* events whose record was renamed away
    ledger,    \* rows of the ledger, by sequence
    scheduled, \* cycles queued on #workerTail
    cycle,     \* records the running cycle has read and not dealt with
    faults

disk == <<files, corrupt, ledger>>
vars == <<calls, disk, scheduled, cycle, faults>>

Call == [event : Events, sink : Writing \cup Written \cup {NULL},
         spool : Writing \cup Written \cup {NULL}, answer : Answers \cup {NULL},
         returned : BOOLEAN]
Record == [event : Events, at : Calls]

TypeOK ==
    /\ calls \in Seq(Call \cup {NULL}) /\ Len(calls) <= MaxCalls
    /\ DOMAIN files \subseteq Events /\ \A e \in DOMAIN files : files[e] \in Calls
    /\ corrupt \subseteq Events
    /\ ledger \in Seq(Events) /\ Len(ledger) <= Cardinality(Events)
    /\ scheduled \in 0..MaxCalls + 1
    /\ cycle \in [todo : SUBSET Record, appended : BOOLEAN] \cup {NULL}
    /\ cycle # NULL => Cardinality(cycle.todo) <= Min({DrainLimit, ScanLimit})
    /\ faults \in 0..MaxFaults

Init ==
    /\ calls = << >> /\ files = << >> /\ corrupt = {} /\ ledger = << >>
    /\ scheduled = 0 /\ cycle = NULL /\ faults = 0

InLedger(e) == \E s \in DOMAIN ledger : ledger[s] = e
Fault == faults < MaxFaults /\ faults' = faults + 1
NoFault == UNCHANGED faults

-----------------------------------------------------------------------------
(* The handler.                                                            *)

(* A valid hook arrives and the enqueue begins; the clock stamps occurredAt.   *)
(* (Preparation that used up the deadline skips the sink: to the others that   *)
(* is a sink slower than everything else.)                                     *)
Observe(e) ==
    /\ Len(calls) < MaxCalls
    /\ calls' = Append(calls, [event |-> e, sink |-> "look", spool |-> NULL,
                              answer |-> NULL, returned |-> FALSE])
    /\ UNCHANGED <<disk, scheduled, cycle, faults>>

Live(c) == calls[c] # NULL
Raced(call) == call.answer = NULL /\ call.spool = NULL

(* The deadline of the race: the signal no longer reaches the sink, which    *)
(* read it when it started, and the fallback begins beside it.               *)
Deadline(c) ==
    /\ Live(c) /\ Raced(calls[c])
    /\ calls' = [calls EXCEPT ![c].spool = "look"]
    /\ UNCHANGED <<disk, scheduled, cycle, faults>>

\* Mutant of Settle: a failed fallback is reported as spooled.
SettleOptimistic(call, writer, outcome) ==
    LET settled == [call EXCEPT ![writer] = outcome]
    IN  IF writer = "spool" THEN [settled EXCEPT !.answer = "spooled"]
        ELSE IF ~Raced(call) THEN [call EXCEPT !.sink = NULL]
        ELSE IF outcome = "stored" THEN [settled EXCEPT !.answer = "enqueued"]
        ELSE [settled EXCEPT !.spool = "look"]
(* What the handler makes of a writer that settled; nobody waits for a late  *)
(* sink.                                                                   *)
Settle(call, writer, outcome) ==
    LET settled == [call EXCEPT ![writer] = outcome]
    IN  IF writer = "spool"
        THEN [settled EXCEPT !.answer = IF outcome = "stored" THEN "spooled" ELSE "dropped"]
        ELSE IF ~Raced(call) THEN [call EXCEPT !.sink = NULL]
        ELSE IF outcome = "stored" THEN [settled EXCEPT !.answer = "enqueued"]
        ELSE [settled EXCEPT !.spool = "look"]

-----------------------------------------------------------------------------
(* LocalEventSpool.store, one step per file system call that others see.     *)

Step(c, writer, to) == calls' = [calls EXCEPT ![c][writer] = to]
Ends(c, writer, outcome) == calls' = [calls EXCEPT ![c] = Settle(@, writer, outcome)]

Look(c, writer) ==
    /\ calls[c][writer] = "look"
    /\ IF calls[c].event \in DOMAIN files
       THEN Ends(c, writer, "stored")
       ELSE Step(c, writer, "link")
    /\ UNCHANGED files

Link(c, writer) ==
    LET e == calls[c].event IN
    /\ calls[c][writer] = "link"
    /\ IF e \in DOMAIN files
       THEN Step(c, writer, "reread") /\ UNCHANGED files
       ELSE /\ files' = [f \in DOMAIN files \cup {e} |-> IF f = e THEN c ELSE files[f]]
            /\ Ends(c, writer, "stored")

(* The file that made link fail may have been drained since.                 *)
Reread(c, writer) ==
    /\ calls[c][writer] = "reread"
    /\ Ends(c, writer, IF calls[c].event \in DOMAIN files THEN "stored" ELSE "failed")
    /\ UNCHANGED files

StoreFails(c, writer) ==
    /\ calls[c][writer] \in Writing /\ Fault /\ Ends(c, writer, "failed")
    /\ UNCHANGED files

Store(c, writer) ==
    /\ Live(c) /\ calls[c][writer] # NULL
    /\ \/ NoFault /\ (Look(c, writer) \/ Link(c, writer) \/ Reread(c, writer))
       \/ StoreFails(c, writer)
    /\ UNCHANGED <<corrupt, ledger, scheduled, cycle>>

-----------------------------------------------------------------------------
(* The worker.                                                             *)

(* handleHook returns, with the answer or at the daemon's own deadline while *)
(* the capture goes on, and queues a cycle.                                  *)
Return(c) ==
    /\ Live(c) /\ ~calls[c].returned
    /\ calls' = [calls EXCEPT ![c].returned = TRUE]
    /\ scheduled' = scheduled + 1
    /\ UNCHANGED <<disk, cycle, faults>>

(* The transport's request for one cycle.                                    *)
Request ==
    /\ cycle = NULL /\ scheduled = 0 /\ scheduled' = 1
    /\ UNCHANGED <<calls, disk, cycle, faults>>

(* drain: a bounded listing, every listed record read, those that cannot be  *)
(* read renamed away, the oldest of the rest kept for delivery.              *)
Oldest(records, n) ==
    {r \in records : Cardinality({q \in records : q.at < r.at}) < n}

\* The cycle ends with its last record.
Continue(todo) ==
    cycle' = IF todo = {} THEN NULL ELSE [todo |-> todo, appended |-> FALSE]

Drain(listed, unreadable) ==
    /\ Continue(Oldest({[event |-> e, at |-> files[e]] : e \in listed \ unreadable},
                       DrainLimit))
    /\ \E renamed \in SUBSET unreadable :
          /\ corrupt' = corrupt \cup renamed
          /\ files' = [e \in DOMAIN files \ renamed |-> files[e]]

Listings == {l \in SUBSET DOMAIN files :
                Cardinality(l) = Min({ScanLimit, Cardinality(DOMAIN files)})}

BeginCycle ==
    /\ cycle = NULL /\ scheduled > 0 /\ scheduled' = scheduled - 1
    /\ \E listed \in Listings :
          \/ Drain(listed, {}) /\ NoFault
          \/ \E e \in listed : Drain(listed, {e}) /\ Fault
    /\ UNCHANGED <<calls, ledger>>

Eldest == CHOOSE r \in cycle.todo : \A q \in cycle.todo : r.at <= q.at

\* A mutant of Insert: no identity constraint.
InsertAlways(e) == ledger' = Append(ledger, e)

(* INSERT OR IGNORE                                                        *)
Insert(e) == ledger' = IF InLedger(e) THEN ledger ELSE Append(ledger, e)

\* A mutant of Deliver: the file goes before the row is there.
DeliverUnlinkFirst ==
    /\ cycle # NULL /\ cycle.todo # {} /\ ~cycle.appended
    /\ files' = [e \in DOMAIN files \ {Eldest.event} |-> files[e]]
    /\ cycle' = [cycle EXCEPT !.appended = TRUE]
    /\ UNCHANGED <<calls, corrupt, ledger, scheduled, faults>>

Deliver ==
    /\ cycle # NULL /\ cycle.todo # {} /\ ~cycle.appended
    /\ Insert(Eldest.event)
    /\ cycle' = [cycle EXCEPT !.appended = TRUE]
    /\ UNCHANGED <<calls, files, corrupt, scheduled, faults>>

Unlink ==
    /\ cycle # NULL /\ cycle.todo # {} /\ cycle.appended
    /\ files' = [e \in DOMAIN files \ {Eldest.event} |-> files[e]]
    /\ Continue(cycle.todo \ {Eldest})
    /\ UNCHANGED <<calls, corrupt, ledger, scheduled, faults>>

\* A mutant of CycleFails: the rejected #workerPromise stays.
CycleFailsSticky ==
    /\ cycle # NULL /\ Fault /\ cycle' = [todo |-> {}, appended |-> TRUE]
    /\ UNCHANGED <<calls, disk, scheduled>>

(* sink-error and cleanup-error end the cycle with the records still in the  *)
(* spool; so does anything that makes runOnce throw, which #workerTail and   *)
(* the daemon's #workerPromise forget.                                       *)
CycleFails ==
    /\ cycle # NULL /\ Fault /\ cycle' = NULL
    /\ UNCHANGED <<calls, disk, scheduled>>

Restart ==
    /\ Fault
    /\ calls' = [c \in DOMAIN calls |-> NULL]
    /\ scheduled' = 0 /\ cycle' = NULL
    /\ UNCHANGED disk

Next ==
    \/ \E e \in Events : Observe(e)
    \/ \E c \in DOMAIN calls : Deadline(c) \/ Return(c) \/ \E w \in Writers : Store(c, w)
    \/ Request \/ BeginCycle \/ Deliver \/ Unlink \/ CycleFails
    \/ Restart

Internal ==
    /\ \A c \in Calls : WF_vars(c \in DOMAIN calls /\ Deadline(c))
    /\ \A c \in Calls : WF_vars(c \in DOMAIN calls /\ Return(c))
    /\ \A c \in Calls, w \in Writers : WF_vars(c \in DOMAIN calls /\ Store(c, w))
    /\ WF_vars(BeginCycle) /\ WF_vars(Deliver) /\ WF_vars(Unlink)

\* The process schedules its own promises; whether another request for a cycle
\* ever comes is up to its clients.
QuietSpec == Init /\ [][Next]_vars /\ Internal
Spec == QuietSpec /\ WF_vars(Request)

-----------------------------------------------------------------------------
Kept(e) == e \in DOMAIN files \/ e \in corrupt \/ InLedger(e)

(* An event that handle reported as enqueued or spooled is on disk: also when *)
(* the deadline made two writers of one call race each other, another call    *)
(* and the drain that removes the file.                                       *)
AnsweredIsKept ==
    \A c \in DOMAIN calls :
        (Live(c) /\ calls[c].answer \in {"enqueued", "spooled"}) => Kept(calls[c].event)

(* What reached the disk never leaves it, whatever the drain, its failures    *)
(* and a crash between the append and the unlink do.                          *)
NeverLost == [][\A e \in Events : Kept(e) => Kept(e)']_vars

(* append is idempotent: a record delivered again after a failed unlink, a    *)
(* crash or a second hook call is not a second row.                           *)
OncePerEvent == \A s, t \in DOMAIN ledger : ledger[s] = ledger[t] => s = t

(* As long as cycles are asked for, what is in the spool reaches the ledger or *)
(* is set aside: a failed cycle, an unreadable record or a full batch does not *)
(* keep the drain from the records behind it.                                  *)
EventuallyLedgered ==
    \A e \in Events : (e \in DOMAIN files) ~> (InLedger(e) \/ e \in corrupt)

=============================================================================
