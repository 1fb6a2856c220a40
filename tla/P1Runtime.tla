------------------------------- MODULE P1Runtime -------------------------------
(***************************************************************************)
(* P1SidecarRuntime (apps/sidecar/src/p1-runtime.ts): the timers that start *)
(* the automatic scan and the job worker's loops, hot reconfiguration, stop *)
(* and close.  Node runs one callback at a time; what happens between two   *)
(* awaits is one action.  A tail is the promise of a scan or of a poll      *)
(* (Promise.all over the loops): the next timer is armed when it settles.   *)
(*                                                                         *)
(* start and stop are called as apps/sidecar/src/application.ts does: start *)
(* once, reconfigurations one at a time (the configuration service), close  *)
(* at any moment.                                                          *)
(***************************************************************************)
EXTENDS Integers, FiniteSets

CONSTANTS
    NULL,
    Concurrency,     \* workerConcurrency
    MaxLoops,        \* loops that may be in flight at once
    MaxReconfigure,  \* reconfigurations, rollbacks included
    Faults           \* "reject": a loop may reject (a store call throws),
                     \* "overlap": close may find a reconfiguration in progress

Loops == 1..MaxLoops
Stores == 1..(MaxReconfigure + 1)
Generations == 0..(2 * MaxReconfigure + 2)
Kinds == {"scan", "poll"}
Waiting == [was : BOOLEAN,            \* wasStarted
            waits : SUBSET Kinds]     \* the tails stop is awaiting
Polls(generations) == [gen : generations, on : SUBSET Loops]

(* NULL, which stands for what is not there, is no poll and awaits nothing. *)
ASSUME P1Assumption ==
    /\ Concurrency \in Nat \ {0} /\ MaxLoops \in Nat /\ Concurrency <= MaxLoops
    /\ MaxReconfigure \in Nat /\ Faults \subseteq {"reject", "overlap"}
    /\ NULL \notin Waiting /\ NULL \notin Polls(Nat)

VARIABLES
    started, closed, generation,
    timer,       \* the armed timer of each kind, by generation, 0 for none
    scanTail,    \* generation of the scan in flight, 0 for none
    pollTail,    \* the poll in flight and the loops its promise depends on
    loops,       \* the job store each running loop claimed from, 0 for none
    store,       \* #jobStore
    open,        \* job stores whose database is open
    reconfigure, \* the reconfiguration in progress
    closing,     \* close in progress
    applied,     \* reconfigurations begun
    faults       \* those of Faults that this behaviour has

schedule == <<started, closed, generation, timer>>
work == <<scanTail, pollTail, loops>>
stores == <<store, open>>
vars == <<schedule, work, stores, reconfigure, closing, applied, faults>>

TypeOK ==
    /\ started \in BOOLEAN /\ closed \in BOOLEAN /\ generation \in Generations
    /\ timer \in [Kinds -> 0..generation]
    /\ scanTail \in 0..generation
    /\ pollTail \in Polls(1..generation) \cup {NULL}
    /\ loops \in [Loops -> Stores \cup {0}]
    /\ store \in Stores /\ open \subseteq Stores
    /\ reconfigure \in Waiting \cup {NULL} /\ closing \in Waiting \cup {NULL}
    /\ applied \in 0..MaxReconfigure /\ faults \subseteq Faults

Init ==
    /\ started = FALSE /\ closed = FALSE /\ generation = 0
    /\ timer = [k \in Kinds |-> 0] /\ scanTail = 0 /\ pollTail = NULL
    /\ loops = [l \in Loops |-> 0]
    /\ store = 1 /\ open = {1}
    /\ reconfigure = NULL /\ closing = NULL /\ applied = 0
    /\ faults \in SUBSET Faults

(* started = true, a new generation, both timers.                           *)
Launch ==
    /\ started' = TRUE /\ generation' = generation + 1
    /\ timer' = [k \in Kinds |-> generation + 1]

(* Whoever awaits only settled promises resumes before the next timer, I/O  *)
(* or command callback runs.                                                *)
Resumable(waiter) == waiter # NULL /\ waiter.waits = {}
Drained == ~Resumable(reconfigure) /\ (closed \/ ~Resumable(closing))

Start ==
    /\ Drained
    /\ ~closed /\ ~started /\ generation = 0 /\ reconfigure = NULL /\ closing = NULL
    /\ Launch
    /\ UNCHANGED <<closed, work, stores, reconfigure, closing, applied, faults>>

InFlight == {k \in Kinds : IF k = "scan" THEN scanTail # 0 ELSE pollTail # NULL}

\* Mutant of Tails: stop waits for nobody.
TailsForgotten == {}

(* The tails that the call of stop awaits.                                  *)
Tails == IF started THEN InFlight ELSE {}

(* stop, up to its await; it does nothing on a stopped runtime.             *)
Halt ==
    /\ started' = FALSE
    /\ generation' = IF started THEN generation + 1 ELSE generation
    /\ timer' = IF started THEN [k \in Kinds |-> 0] ELSE timer

-----------------------------------------------------------------------------
(* Timers.                                                                 *)
Fresh(gen) == started /\ gen = generation

ScanFires ==
    /\ Drained
    /\ timer["scan"] # 0
    /\ timer' = [timer EXCEPT !["scan"] = 0]
    /\ scanTail' = IF Fresh(timer["scan"]) /\ scanTail = 0 THEN timer["scan"] ELSE scanTail
    /\ UNCHANGED <<started, closed, generation, pollTail, loops, stores,
                   reconfigure, closing, applied, faults>>

(* runJobWorkersOnce: every loop claims from the current store at once; on  *)
(* a closed runtime the promise rejects without a loop.                     *)
Free == {l \in Loops : loops[l] = 0}

PollFires ==
    /\ Drained
    /\ timer["poll"] # 0
    /\ timer' = [timer EXCEPT !["poll"] = 0]
    /\ IF Fresh(timer["poll"]) /\ pollTail = NULL
       THEN \E on \in SUBSET Free :
              /\ Cardinality(on) = IF closed THEN 0 ELSE Concurrency
              /\ pollTail' = [gen |-> timer["poll"], on |-> on]
              /\ loops' = [l \in Loops |-> IF l \in on THEN store ELSE loops[l]]
       ELSE UNCHANGED <<pollTail, loops>>
    /\ UNCHANGED <<started, closed, generation, scanTail, stores,
                   reconfigure, closing, applied, faults>>

\* Mutant of Rearmed: only the scan is armed again.
RearmedScanOnly(k, gen) ==
    [timer EXCEPT ![k] = IF Fresh(gen) /\ k = "scan" THEN gen ELSE @]

(* The finally of a tail: its successor is armed unless the runtime was     *)
(* stopped or restarted meanwhile.                                          *)
Rearmed(k, gen) == [timer EXCEPT ![k] = IF Fresh(gen) THEN gen ELSE @]

Without(waiter, k) == IF waiter = NULL THEN NULL
                      ELSE [waiter EXCEPT !.waits = @ \ {k}]

Settle(k, gen) ==
    /\ timer' = Rearmed(k, gen)
    /\ reconfigure' = Without(reconfigure, k) /\ closing' = Without(closing, k)
    /\ UNCHANGED <<started, closed, generation, stores, applied, faults>>

ScanSettles ==
    /\ Drained
    /\ scanTail # 0
    /\ scanTail' = 0
    /\ Settle("scan", scanTail)
    /\ UNCHANGED <<pollTail, loops>>

(* A loop returns its cycle's result, or rejects; it rejects for sure when  *)
(* its store was closed under it.                                           *)
LoopEnds(l) ==
    /\ Drained
    /\ loops[l] # 0
    /\ loops' = [loops EXCEPT ![l] = 0]
    /\ \E fails \in BOOLEAN :
         /\ fails => "reject" \in faults \/ loops[l] \notin open
         /\ loops[l] \notin open => fails
         /\ pollTail' = IF pollTail = NULL \/ l \notin pollTail.on THEN pollTail
                        ELSE [pollTail EXCEPT !.on = IF fails THEN {} ELSE @ \ {l}]
    /\ UNCHANGED <<schedule, scanTail, stores, reconfigure, closing, applied, faults>>

(* Promise.all settles on the last result or on the first rejection: "on"   *)
(* is then empty, whatever the other loops are doing.                       *)
PollSettles ==
    /\ Drained
    /\ pollTail # NULL /\ pollTail.on = {}
    /\ pollTail' = NULL
    /\ Settle("poll", pollTail.gen)
    /\ UNCHANGED <<scanTail, loops>>

-----------------------------------------------------------------------------
(* Reconfiguration and close.                                              *)
Reconfigure ==
    /\ Drained
    /\ ~closed /\ reconfigure = NULL /\ applied < MaxReconfigure
    /\ "overlap" \in faults \/ closing = NULL
    /\ reconfigure' = [was |-> started, waits |-> Tails]
    /\ applied' = applied + 1
    /\ Halt
    /\ UNCHANGED <<closed, work, stores, closing, faults>>

(* On both outcomes a runtime that ran before runs again.                   *)
Relaunch(done) == IF reconfigure.was THEN Launch
                  ELSE UNCHANGED <<started, generation, timer>>

(* After stop: the new store takes the old one's place, which is closed, or *)
(* opening it fails and everything stays.                                   *)
Swap ==
    /\ reconfigure # NULL /\ reconfigure.waits = {}
    /\ \E done \in BOOLEAN :
         /\ store' = IF done THEN applied + 1 ELSE store
         /\ open' = IF done THEN (open \ {store}) \cup {applied + 1} ELSE open
         /\ Relaunch(done)
    /\ reconfigure' = NULL
    /\ UNCHANGED <<closed, work, closing, applied, faults>>

Close ==
    /\ Drained
    /\ ~closed /\ closing = NULL
    /\ "overlap" \in faults \/ reconfigure = NULL
    /\ closing' = [was |-> started, waits |-> Tails]
    /\ Halt
    /\ UNCHANGED <<closed, work, stores, reconfigure, applied, faults>>

CloseEnds ==
    /\ closing # NULL /\ ~closed /\ closing.waits = {}
    /\ open' = open \ {store} /\ closed' = TRUE
    /\ UNCHANGED <<started, generation, timer, work, store, reconfigure, closing, applied, faults>>

-----------------------------------------------------------------------------
Background == ScanFires \/ PollFires \/ ScanSettles \/ PollSettles
              \/ \E l \in Loops : LoopEnds(l)

Next == Start \/ Background \/ Reconfigure \/ Swap \/ Close \/ CloseEnds

(* Timers fire, handlers settle, and what awaits them resumes.              *)
Fairness ==
    /\ WF_vars(ScanFires) /\ WF_vars(PollFires)
    /\ WF_vars(ScanSettles) /\ WF_vars(PollSettles)
    /\ \A l \in Loops : WF_vars(LoopEnds(l))
    /\ WF_vars(Swap) /\ WF_vars(CloseEnds)

Spec == Init /\ [][Next]_vars /\ Fairness

-----------------------------------------------------------------------------
(* Properties.                                                             *)

(* Scanning and polling go on, whatever failed or was reconfigured on the   *)
(* way: a started runtime scans and polls again and again, and no poll      *)
(* lasts for ever.                                                          *)
PollingContinues ==
    /\ []<>(scanTail # 0 \/ ~started)
    /\ []<>(pollTail # NULL \/ ~started)
    /\ []<>(pollTail = NULL)

(* As long as no loop rejects and close waits for reconfigurations: a job   *)
(* store is closed only when no loop still has a job of it, whose outcome   *)
(* could not be written.                                                    *)
StoreOpenWhileUsed == faults = {} => \A l \in Loops : loops[l] # 0 => loops[l] \in open

=============================================================================
