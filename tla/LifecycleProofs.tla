---------------------------- MODULE LifecycleProofs ----------------------------
(***************************************************************************)
(* Proofs about how the program starts, stops and is replaced: P1Runtime,  *)
(* for any concurrency, number of reconfigurations and set of faults, then *)
(* LocalDeployment, for any releases and any number of commands, edits,    *)
(* throws and deaths.                                                      *)
(***************************************************************************)
EXTENDS P1Runtime, LocalDeployment, SequenceTheorems, TLAPS

(* Two generations per reconfiguration, one for the start and one for close. *)
Counted ==
    /\ generation <= 2 * applied + 2
    /\ started => generation <= 2 * applied + 1
    /\ reconfigure # NULL =>
          ~started /\ applied >= 1 /\ (reconfigure.was => generation <= 2 * applied)

(* Somebody waits for a poll that is not the running runtime's own.          *)
Awaited(waiter, k) == waiter # NULL /\ k \in waiter.waits

(* Without faults: reconfiguration and close exclude each other and the      *)
(* running of timers; the loops in flight are those of the poll in flight,   *)
(* which whoever stopped the runtime is waiting for, and use the store there *)
(* is.                                                                      *)
Orderly ==
    /\ reconfigure = NULL \/ closing = NULL
    /\ closing # NULL => ~started
    /\ closed => closing # NULL /\ closing.waits = {}
    /\ ~closed => store \in open
    /\ pollTail # NULL => started \/ Awaited(reconfigure, "poll") \/ Awaited(closing, "poll")
    /\ \A l \in Loops : loops[l] # 0 => loops[l] = store /\ pollTail # NULL /\ l \in pollTail.on

IInv == TypeOK /\ Counted /\ (faults = {} => Orderly)
-----------------------------------------------------------------------------
LEMMA Bounds ==
    ASSUME TypeOK, Counted
    PROVE  /\ generation \in Nat /\ applied \in Nat /\ MaxReconfigure \in Nat
           /\ applied <= MaxReconfigure
BY P1Assumption DEF TypeOK, Generations

(* Timers and polls of the past keep their type when a generation begins.    *)
LEMMA Grows ==
    ASSUME TypeOK, Counted,
           generation' \in Nat, generation <= generation', generation' <= 2 * MaxReconfigure + 2,
           timer' \in [Kinds -> 0..generation'], UNCHANGED <<scanTail, pollTail>>
    PROVE  /\ generation' \in Generations
           /\ scanTail' \in 0..generation' /\ pollTail' \in Polls(1..generation') \cup {NULL}
<1>1. generation \in Nat /\ MaxReconfigure \in Nat
  BY Bounds
<1>2. 0..generation \subseteq 0..generation' /\ 1..generation \subseteq 1..generation'
  BY <1>1
<1>. QED
  BY <1>1, <1>2 DEF TypeOK, Polls, Generations

LEMMA LaunchGrows ==
    ASSUME TypeOK, Counted, Launch
    PROVE  /\ generation' = generation + 1 /\ started'
           /\ timer' \in [Kinds -> 0..generation']
<1>1. generation \in Nat
  BY Bounds
<1>2. generation + 1 \in 0..(generation + 1)
  BY <1>1
<1>. QED
  BY <1>2 DEF Launch

(* stop, up to its await.                                                    *)
LEMMA HaltGrows ==
    ASSUME TypeOK, Counted, Halt
    PROVE  /\ generation' = IF started THEN generation + 1 ELSE generation
           /\ ~started' /\ timer' \in [Kinds -> 0..generation']
<1>1. generation \in Nat
  BY Bounds
<1>2. 0 \in 0..(generation + 1)
  BY <1>1
<1>. QED
  BY <1>2 DEF Halt, TypeOK

LEMMA StartStep ==
    ASSUME IInv, Start
    PROVE  IInv'
<1>1. TypeOK /\ Counted /\ Launch /\ ~started /\ generation = 0 /\ reconfigure = NULL
      /\ closing = NULL /\ ~closed
      /\ UNCHANGED <<closed, work, stores, reconfigure, closing, applied, faults>>
  BY DEF IInv, Start
<1>2. /\ generation \in Nat /\ applied \in Nat /\ MaxReconfigure \in Nat
      /\ generation' = generation + 1 /\ started' /\ timer' \in [Kinds -> 0..generation']
  BY <1>1, Bounds, LaunchGrows
<1>3. Counted'
  BY <1>1, <1>2 DEF Counted
<1>4. TypeOK'
  <2>1. /\ generation' \in Nat /\ generation <= generation'
        /\ generation' <= 2 * MaxReconfigure + 2
    BY <1>1, <1>2
  <2>2. /\ generation' \in Generations
        /\ scanTail' \in 0..generation' /\ pollTail' \in Polls(1..generation') \cup {NULL}
    BY <1>1, <1>2, <2>1, Grows DEF work
  <2>. QED
    BY <1>1, <1>2, <2>2 DEF TypeOK, Launch, work, stores
<1>5. faults' = {} => Orderly'
  BY <1>1, <1>2 DEF IInv, Orderly, Awaited, work, stores
<1>. QED
  BY <1>3, <1>4, <1>5 DEF IInv
(* A tail that settles leaves the list of whoever awaits it.                 *)
LEMMA WaitsOn ==
    ASSUME NEW waiter \in Waiting \cup {NULL}, NEW k \in Kinds
    PROVE  /\ Without(waiter, k) \in Waiting \cup {NULL}
           /\ Without(waiter, k) = NULL <=> waiter = NULL
           /\ waiter # NULL => Without(waiter, k).was = waiter.was
           /\ waiter # NULL => Without(waiter, k).waits = waiter.waits \ {k}
<1>1. CASE waiter = NULL
  BY <1>1 DEF Without
<1>2. CASE waiter # NULL
  <2>1. waiter \in Waiting
    BY <1>2
  <2>2. Without(waiter, k) = [waiter EXCEPT !.waits = waiter.waits \ {k}]
    BY <1>2 DEF Without
  <2>3. Without(waiter, k) \in Waiting
    BY <2>1, <2>2 DEF Waiting
  <2>. QED
    BY <1>2, <2>1, <2>2, <2>3, P1Assumption DEF Waiting
<1>. QED
  BY <1>1, <1>2

LEMMA SettleStep ==
    ASSUME TypeOK, Counted, NEW k \in Kinds, NEW gen \in 1..generation, Settle(k, gen)
    PROVE  /\ Counted' /\ timer' \in [Kinds -> 0..generation']
           /\ reconfigure' \in Waiting \cup {NULL} /\ closing' \in Waiting \cup {NULL}
           /\ \A j \in Kinds \ {k} : /\ Awaited(reconfigure, j) => Awaited(reconfigure, j)'
                                     /\ Awaited(closing, j) => Awaited(closing, j)'
           /\ reconfigure = NULL <=> reconfigure' = NULL
           /\ closing = NULL <=> closing' = NULL
           /\ closing # NULL /\ closing.waits = {} => closing'.waits = {}
<1>1. /\ UNCHANGED <<started, closed, generation, stores, applied, faults>>
      /\ reconfigure' = Without(reconfigure, k) /\ closing' = Without(closing, k)
      /\ timer' = Rearmed(k, gen)
  BY DEF Settle
<1>2. reconfigure \in Waiting \cup {NULL} /\ closing \in Waiting \cup {NULL}
  BY DEF TypeOK
<1>3. /\ Without(reconfigure, k) \in Waiting \cup {NULL}
      /\ Without(reconfigure, k) = NULL <=> reconfigure = NULL
      /\ reconfigure # NULL => Without(reconfigure, k).was = reconfigure.was
      /\ reconfigure # NULL => Without(reconfigure, k).waits = reconfigure.waits \ {k}
  BY <1>2, WaitsOn
<1>4. /\ Without(closing, k) \in Waiting \cup {NULL}
      /\ Without(closing, k) = NULL <=> closing = NULL
      /\ closing # NULL => Without(closing, k).waits = closing.waits \ {k}
  BY <1>2, WaitsOn
<1>5. timer' \in [Kinds -> 0..generation']
  <2>1. gen \in 0..generation
    BY Bounds
  <2>. QED
    BY <1>1, <2>1 DEF Rearmed, TypeOK
<1>6. Counted'
  BY <1>1, <1>3 DEF Counted
<1>. QED
  BY <1>1, <1>3, <1>4, <1>5, <1>6 DEF Awaited

LEMMA ScanFiresStep ==
    ASSUME IInv, ScanFires
    PROVE  IInv'
<1>1. /\ timer["scan"] \in 0..generation /\ generation \in Nat
      /\ UNCHANGED <<started, closed, generation, pollTail, loops, stores,
                     reconfigure, closing, applied, faults>>
  BY Bounds DEF IInv, TypeOK, ScanFires, Kinds
<1>2. TypeOK'
  <2>0. 0 \in 0..generation /\ timer \in [Kinds -> 0..generation] /\ scanTail \in 0..generation
    BY <1>1 DEF IInv, TypeOK
  <2>1. timer' \in [Kinds -> 0..generation'] /\ scanTail' \in 0..generation'
    BY <1>1, <2>0 DEF ScanFires
  <2>. QED
    BY <1>1, <2>1 DEF IInv, TypeOK, stores
<1>3. Counted'
  BY <1>1 DEF IInv, Counted
<1>4. faults' = {} => Orderly'
  BY <1>1 DEF IInv, Orderly, Awaited, stores
<1>. QED
  BY <1>2, <1>3, <1>4 DEF IInv

LEMMA PollFiresStep ==
    ASSUME IInv, PollFires
    PROVE  IInv'
<1>1. /\ timer["poll"] \in 0..generation /\ timer["poll"] # 0 /\ generation \in Nat
      /\ timer' = [timer EXCEPT !["poll"] = 0]
      /\ UNCHANGED <<started, closed, generation, scanTail, stores,
                     reconfigure, closing, applied, faults>>
  BY Bounds DEF IInv, TypeOK, PollFires, Kinds
<1>2. timer' \in [Kinds -> 0..generation'] /\ Counted'
  <2>1. 0 \in 0..generation /\ timer \in [Kinds -> 0..generation]
    BY <1>1 DEF IInv, TypeOK
  <2>. QED
    BY <1>1, <2>1 DEF IInv, Counted
<1>3. CASE UNCHANGED <<pollTail, loops>>
  BY <1>1, <1>2, <1>3 DEF IInv, TypeOK, Orderly, Awaited, stores
<1>4. CASE Fresh(timer["poll"]) /\ pollTail = NULL
  <2>1. PICK on \in SUBSET Free :
           /\ pollTail' = [gen |-> timer["poll"], on |-> on]
           /\ loops' = [l \in Loops |-> IF l \in on THEN store ELSE loops[l]]
    BY <1>4 DEF PollFires
  <2>2. timer["poll"] \in 1..generation /\ on \in SUBSET Loops /\ started
    BY <1>1, <1>4 DEF Free, Fresh
  <2>3. /\ pollTail' \in Polls(1..generation) /\ pollTail'.on = on
        /\ pollTail' \in Polls(Nat)
    BY <1>1, <2>1, <2>2 DEF Polls
  <2>4. pollTail' # NULL
    BY <2>3, P1Assumption
  <2>5. TypeOK'
    <3>1. loops' \in [Loops -> Stores \cup {0}]
      BY <2>1 DEF IInv, TypeOK
    <3>2. pollTail' \in Polls(1..generation')
      BY <1>1, <2>3
    <3>. QED
      BY <1>1, <1>2, <3>1, <3>2 DEF IInv, TypeOK, stores
  <2>6. faults' = {} => Orderly'
    <3>. SUFFICES ASSUME faults = {} PROVE Orderly'
      BY <1>1
    <3>1. Orderly /\ \A l \in Loops : loops[l] = 0
      BY <1>4 DEF IInv, Orderly
    <3>2. \A l \in Loops : loops'[l] # 0 => loops'[l] = store' /\ l \in pollTail'.on
      BY <1>1, <2>1, <2>3, <3>1 DEF stores
    <3>. QED
      BY <1>1, <2>2, <2>4, <3>1, <3>2 DEF Orderly, stores
  <2>. QED
    BY <1>2, <2>5, <2>6 DEF IInv
<1>. QED
  BY <1>3, <1>4 DEF PollFires

LEMMA ScanSettlesStep ==
    ASSUME IInv, ScanSettles
    PROVE  IInv'
<1>1. /\ scanTail' = 0 /\ UNCHANGED <<pollTail, loops>> /\ Settle("scan", scanTail)
      /\ scanTail \in 1..generation /\ generation \in Nat
      /\ UNCHANGED <<started, closed, generation, stores, applied, faults>>
  BY Bounds DEF IInv, TypeOK, ScanSettles, Settle
<1>2. /\ Counted' /\ timer' \in [Kinds -> 0..generation']
      /\ reconfigure' \in Waiting \cup {NULL} /\ closing' \in Waiting \cup {NULL}
      /\ Awaited(reconfigure, "poll") => Awaited(reconfigure, "poll")'
      /\ Awaited(closing, "poll") => Awaited(closing, "poll")'
      /\ reconfigure = NULL <=> reconfigure' = NULL
      /\ closing = NULL <=> closing' = NULL
      /\ closing # NULL /\ closing.waits = {} => closing'.waits = {}
  BY <1>1, SettleStep DEF IInv, Kinds
<1>3. TypeOK'
  BY <1>1, <1>2 DEF IInv, TypeOK, stores
<1>4. faults' = {} => Orderly'
  BY <1>1, <1>2 DEF IInv, Orderly, stores
<1>. QED
  BY <1>2, <1>3, <1>4 DEF IInv

LEMMA PollSettlesStep ==
    ASSUME IInv, PollSettles
    PROVE  IInv'
<1>1. /\ pollTail # NULL /\ pollTail.on = {} /\ pollTail' = NULL /\ UNCHANGED <<scanTail, loops>>
      /\ Settle("poll", pollTail.gen) /\ pollTail.gen \in 1..generation
      /\ UNCHANGED <<started, closed, generation, stores, applied, faults>>
  BY DEF IInv, TypeOK, PollSettles, Settle, Polls
<1>2. /\ Counted' /\ timer' \in [Kinds -> 0..generation']
      /\ reconfigure' \in Waiting \cup {NULL} /\ closing' \in Waiting \cup {NULL}
      /\ reconfigure = NULL <=> reconfigure' = NULL
      /\ closing = NULL <=> closing' = NULL
      /\ closing # NULL /\ closing.waits = {} => closing'.waits = {}
  BY <1>1, SettleStep DEF IInv, Kinds
<1>3. TypeOK'
  BY <1>1, <1>2 DEF IInv, TypeOK, stores
<1>4. faults' = {} => Orderly'
  BY <1>1, <1>2 DEF IInv, Orderly, stores
<1>. QED
  BY <1>2, <1>3, <1>4 DEF IInv

LEMMA LoopEndsStep ==
    ASSUME IInv, NEW l \in Loops, LoopEnds(l)
    PROVE  IInv'
<1>1. /\ loops[l] # 0 /\ loops' = [loops EXCEPT ![l] = 0]
      /\ UNCHANGED <<schedule, scanTail, stores, reconfigure, closing, applied, faults>>
  BY DEF LoopEnds
<1>2. PICK fails \in BOOLEAN :
         /\ fails => "reject" \in faults \/ loops[l] \notin open
         /\ pollTail' = IF pollTail = NULL \/ l \notin pollTail.on THEN pollTail
                        ELSE [pollTail EXCEPT !.on = IF fails THEN {} ELSE @ \ {l}]
  BY DEF LoopEnds
<1>3. Counted'
  BY <1>1 DEF IInv, Counted, schedule
<1>4. pollTail' \in Polls(1..generation) \cup {NULL}
      /\ (pollTail # NULL => pollTail'.on \in {pollTail.on, {}, pollTail.on \ {l}})
  BY <1>2 DEF IInv, TypeOK, Polls
<1>5. TypeOK'
  <2>1. loops' \in [Loops -> Stores \cup {0}]
    BY <1>1 DEF IInv, TypeOK
  <2>. QED
    BY <1>1, <1>4, <2>1 DEF IInv, TypeOK, schedule, stores
<1>6. faults' = {} => Orderly'
  <2>. SUFFICES ASSUME faults = {} PROVE Orderly'
    BY <1>1
  <2>1. Orderly
    BY DEF IInv
  <2>2. loops[l] = store /\ pollTail # NULL /\ l \in pollTail.on
    BY <1>1, <2>1 DEF Orderly
  <2>3. store \in open
    BY <2>1, <2>2 DEF Orderly, Awaited
  <2>4. ~fails
    BY <1>2, <2>2, <2>3
  <2>5. pollTail \in Polls(Nat) /\ pollTail' = [pollTail EXCEPT !.on = pollTail.on \ {l}]
    <3>1. generation \in Nat /\ pollTail \in Polls(1..generation)
      BY <2>2, Bounds DEF IInv, TypeOK
    <3>. QED
      BY <1>2, <2>2, <2>4, <3>1 DEF Polls
  <2>6. pollTail' \in Polls(Nat) /\ pollTail'.on = pollTail.on \ {l}
    BY <2>5 DEF Polls
  <2>7. pollTail' # NULL
    BY <2>6, P1Assumption
  <2>8. \A k \in Loops : loops'[k] # 0 => k # l /\ loops'[k] = loops[k]
    BY <1>1 DEF IInv, TypeOK
  <2>. QED
    BY <1>1, <2>1, <2>2, <2>6, <2>7, <2>8 DEF Orderly, Awaited, schedule, stores
<1>. QED
  BY <1>3, <1>5, <1>6 DEF IInv
-----------------------------------------------------------------------------
(* Reconfiguration and close.                                                *)

(* Whoever stops a running runtime awaits the poll in flight.                *)
LEMMA StopsWaiting ==
    ASSUME IInv, NEW waiter, waiter = [was |-> started, waits |-> Tails]
    PROVE  /\ waiter \in Waiting /\ waiter # NULL /\ waiter.was = started
           /\ started /\ pollTail # NULL => "poll" \in waiter.waits
<1>1. waiter \in Waiting
  BY DEF IInv, TypeOK, Waiting, Tails, InFlight
<1>. QED
  BY <1>1, P1Assumption DEF Tails, InFlight, Kinds

LEMMA HaltTyped ==
    ASSUME IInv, Halt, UNCHANGED <<scanTail, pollTail>>,
           IF started THEN generation + 1 <= 2 * MaxReconfigure + 2 ELSE TRUE
    PROVE  /\ generation' \in Generations /\ timer' \in [Kinds -> 0..generation']
           /\ scanTail' \in 0..generation' /\ pollTail' \in Polls(1..generation') \cup {NULL}
           /\ generation' = IF started THEN generation + 1 ELSE generation
           /\ ~started' /\ started' \in BOOLEAN
<1>1. TypeOK /\ Counted /\ generation \in Nat /\ MaxReconfigure \in Nat
      /\ generation <= 2 * MaxReconfigure + 2
  BY Bounds DEF IInv, TypeOK, Generations
<1>2. /\ generation' = IF started THEN generation + 1 ELSE generation
      /\ ~started' /\ timer' \in [Kinds -> 0..generation']
  BY <1>1, HaltGrows
<1>3. /\ generation' \in Nat /\ generation <= generation'
      /\ generation' <= 2 * MaxReconfigure + 2
  BY <1>1, <1>2
<1>. QED
  BY <1>1, <1>2, <1>3, Grows DEF Halt

LEMMA ReconfigureStep ==
    ASSUME IInv, Reconfigure
    PROVE  IInv'
<1>1. /\ ~closed /\ reconfigure = NULL /\ applied < MaxReconfigure /\ applied' = applied + 1
      /\ "overlap" \in faults \/ closing = NULL
      /\ reconfigure' = [was |-> started, waits |-> Tails] /\ Halt
      /\ UNCHANGED <<closed, work, stores, closing, faults>>
  BY DEF Reconfigure
<1>2. /\ reconfigure' \in Waiting /\ reconfigure' # NULL /\ reconfigure'.was = started
      /\ started /\ pollTail # NULL => "poll" \in reconfigure'.waits
  BY <1>1, StopsWaiting
<1>3. /\ generation \in Nat /\ applied \in Nat /\ MaxReconfigure \in Nat
      /\ started => generation <= 2 * applied + 1
      /\ generation <= 2 * applied + 2
  BY Bounds DEF IInv, Counted
<1>4. started => generation + 1 <= 2 * MaxReconfigure + 2
  BY <1>1, <1>3
<1>5. /\ generation' \in Generations /\ timer' \in [Kinds -> 0..generation']
      /\ scanTail' \in 0..generation' /\ pollTail' \in Polls(1..generation') \cup {NULL}
      /\ generation' = IF started THEN generation + 1 ELSE generation
      /\ ~started' /\ started' \in BOOLEAN
  BY <1>1, <1>4, HaltTyped DEF work
<1>6. TypeOK'
  <2>1. applied' \in 0..MaxReconfigure
    BY <1>1, <1>3
  <2>. QED
    BY <1>1, <1>2, <1>5, <2>1 DEF IInv, TypeOK, work, stores
<1>7. Counted'
  <2>1. /\ generation' \in Nat /\ generation' <= 2 * applied + 2 /\ (started => generation' <= 2 * applied + 2)
        /\ 2 * applied' = 2 * applied + 2 /\ applied' >= 1
    BY <1>1, <1>3, <1>5
  <2>2. reconfigure'.was => generation' <= 2 * applied'
    BY <1>2, <1>3, <1>5, <2>1
  <2>. QED
    BY <1>1, <1>2, <1>3, <1>5, <2>1, <2>2 DEF Counted
<1>8. faults' = {} => Orderly'
  <2>. SUFFICES ASSUME faults = {} PROVE Orderly'
    BY <1>1
  <2>1. Orderly /\ closing = NULL
    BY <1>1 DEF IInv
  <2>2. pollTail' # NULL => Awaited(reconfigure, "poll")'
    BY <1>1, <1>2, <2>1 DEF Orderly, Awaited, work
  <2>. QED
    BY <1>1, <2>1, <2>2 DEF Orderly, work, stores
<1>. QED
  BY <1>6, <1>7, <1>8 DEF IInv

LEMMA CloseStep ==
    ASSUME IInv, Close
    PROVE  IInv'
<1>1. /\ ~closed /\ closing = NULL
      /\ "overlap" \in faults \/ reconfigure = NULL
      /\ closing' = [was |-> started, waits |-> Tails] /\ Halt
      /\ UNCHANGED <<closed, work, stores, reconfigure, applied, faults>>
  BY DEF Close
<1>2. /\ closing' \in Waiting /\ closing' # NULL
      /\ started /\ pollTail # NULL => "poll" \in closing'.waits
  BY <1>1, StopsWaiting
<1>3. /\ generation \in Nat /\ applied \in Nat /\ MaxReconfigure \in Nat
      /\ applied <= MaxReconfigure
      /\ started => generation <= 2 * applied + 1
  BY Bounds DEF IInv, Counted
<1>4. started => generation + 1 <= 2 * MaxReconfigure + 2
  BY <1>3
<1>5. /\ generation' \in Generations /\ timer' \in [Kinds -> 0..generation']
      /\ scanTail' \in 0..generation' /\ pollTail' \in Polls(1..generation') \cup {NULL}
      /\ generation' = IF started THEN generation + 1 ELSE generation
      /\ ~started' /\ started' \in BOOLEAN
  BY <1>1, <1>4, HaltTyped DEF work
<1>6. TypeOK'
  BY <1>1, <1>2, <1>5 DEF IInv, TypeOK, work, stores
<1>7. Counted'
  BY <1>1, <1>3, <1>5 DEF IInv, Counted
<1>8. faults' = {} => Orderly'
  <2>. SUFFICES ASSUME faults = {} PROVE Orderly'
    BY <1>1
  <2>1. Orderly /\ reconfigure = NULL
    BY <1>1 DEF IInv
  <2>2. pollTail' # NULL => Awaited(closing, "poll")'
    BY <1>1, <1>2, <2>1 DEF Orderly, Awaited, work
  <2>. QED
    BY <1>1, <1>2, <1>5, <2>1, <2>2 DEF Orderly, work, stores
<1>. QED
  BY <1>6, <1>7, <1>8 DEF IInv

(* Swap and CloseEnds close a store only when its last poll has settled.     *)
LEMMA SwapStep ==
    ASSUME IInv, Swap
    PROVE  IInv'
<1>1. PICK done \in BOOLEAN :
         /\ store' = IF done THEN applied + 1 ELSE store
         /\ open' = IF done THEN (open \ {store}) \cup {applied + 1} ELSE open
         /\ Relaunch(done)
  BY DEF Swap
<1>2. /\ reconfigure # NULL /\ reconfigure.waits = {} /\ reconfigure' = NULL
      /\ UNCHANGED <<closed, work, closing, applied, faults>>
  BY DEF Swap
<1>3. /\ generation \in Nat /\ applied \in Nat /\ MaxReconfigure \in Nat
      /\ applied <= MaxReconfigure /\ TypeOK /\ Counted /\ ~started
      /\ reconfigure.was => generation <= 2 * applied
  BY <1>2, Bounds DEF IInv, Counted
<1>4. /\ generation' = IF reconfigure.was THEN generation + 1 ELSE generation
      /\ started' \in BOOLEAN /\ (started' => reconfigure.was)
      /\ timer' \in [Kinds -> 0..generation']
  BY <1>1, <1>3, LaunchGrows DEF Relaunch, TypeOK
<1>5. TypeOK'
  <2>1. /\ generation' \in Nat /\ generation <= generation'
        /\ generation' <= 2 * MaxReconfigure + 2
    BY <1>3, <1>4 DEF TypeOK, Generations
  <2>2. /\ generation' \in Generations
        /\ scanTail' \in 0..generation' /\ pollTail' \in Polls(1..generation') \cup {NULL}
    BY <1>2, <1>3, <1>4, <2>1, Grows DEF work
  <2>3. store' \in Stores /\ open' \subseteq Stores
    <3>1. applied + 1 \in Stores
      BY <1>3 DEF Stores
    <3>. QED
      BY <1>1, <1>3, <3>1 DEF TypeOK
  <2>. QED
    BY <1>2, <1>3, <1>4, <2>2, <2>3 DEF TypeOK, work
<1>6. Counted'
  BY <1>2, <1>3, <1>4 DEF Counted
<1>7. faults' = {} => Orderly'
  <2>. SUFFICES ASSUME faults = {} PROVE Orderly'
    BY <1>2
  <2>1. Orderly /\ closing = NULL /\ ~closed /\ pollTail = NULL
    BY <1>2, <1>3 DEF IInv, Orderly, Awaited
  <2>2. \A l \in Loops : loops[l] = 0
    BY <2>1 DEF Orderly
  <2>3. store' \in open'
    BY <1>1, <2>1 DEF Orderly
  <2>. QED
    BY <1>2, <2>1, <2>2, <2>3 DEF Orderly, work
<1>. QED
  BY <1>5, <1>6, <1>7 DEF IInv

LEMMA CloseEndsStep ==
    ASSUME IInv, CloseEnds
    PROVE  IInv'
<1>1. /\ closing # NULL /\ ~closed /\ closing.waits = {}
      /\ open' = open \ {store} /\ closed' = TRUE
      /\ UNCHANGED <<started, generation, timer, work, store, reconfigure, closing, applied, faults>>
  BY DEF CloseEnds
<1>2. TypeOK'
  BY <1>1 DEF IInv, TypeOK, work
<1>3. Counted'
  BY <1>1 DEF IInv, Counted
<1>4. faults' = {} => Orderly'
  BY <1>1 DEF IInv, Orderly, Awaited, work
<1>. QED
  BY <1>2, <1>3, <1>4 DEF IInv

-----------------------------------------------------------------------------
LEMMA Initially ==
    ASSUME Init
    PROVE  IInv
<1>1. MaxReconfigure \in Nat /\ 0 \in 0..0 /\ 0 \in Generations /\ 1 \in Stores
      /\ 0 \in 0..MaxReconfigure
  BY P1Assumption DEF Generations, Stores
<1>2. TypeOK
  BY <1>1 DEF Init, TypeOK
<1>3. Counted
  BY DEF Init, Counted
<1>4. Orderly
  BY DEF Init, Orderly
<1>. QED
  BY <1>2, <1>3, <1>4 DEF IInv

LEMMA StepKeeps ==
    ASSUME IInv, [Next]_vars
    PROVE  IInv'
<1>1. CASE UNCHANGED vars
  BY <1>1, Zenon DEF vars, schedule, work, stores, IInv, TypeOK, Counted, Orderly, Awaited
<1>. QED
  BY <1>1, StartStep, ScanFiresStep, PollFiresStep, ScanSettlesStep, PollSettlesStep,
     LoopEndsStep, ReconfigureStep, SwapStep, CloseStep, CloseEndsStep DEF Next, Background

LEMMA AlwaysSound == Spec => []IInv
<1>1. Init => IInv
  BY Initially
<1>2. IInv /\ [Next]_vars => IInv'
  BY StepKeeps
<1>. QED
  BY <1>1, <1>2, PTL DEF Spec

(* Every variable keeps its type: generations, and with them timers and tails, *)
(* are bounded by two per reconfiguration, whatever rejects or overlaps.     *)
THEOREM TypeCorrect == Spec => []TypeOK
<1>1. IInv => TypeOK
  BY DEF IInv
<1>. QED
  BY <1>1, AlwaysSound, PTL

(* As long as no loop rejects and close waits for reconfigurations, a job      *)
(* store is closed only when no loop still has a job of it: stop awaits the  *)
(* poll in flight, and the promise of the poll all of its loops.             *)
THEOREM StoreOpenWhileUsedHolds == Spec => []StoreOpenWhileUsed
<1>1. IInv => StoreOpenWhileUsed
  <2>. SUFFICES ASSUME IInv, faults = {}, NEW l \in Loops, loops[l] # 0
                PROVE  loops[l] \in open
    BY DEF StoreOpenWhileUsed
  <2>1. Orderly
    BY DEF IInv
  <2>2. loops[l] = store /\ pollTail # NULL
    BY <2>1 DEF Orderly
  <2>3. ~closed
    BY <2>1, <2>2 DEF Orderly, Awaited
  <2>. QED
    BY <2>1, <2>2, <2>3 DEF Orderly
<1>. QED
  BY <1>1, AlwaysSound, PTL
-----------------------------------------------------------------------------
(***************************************************************************)
(* LocalDeployment.                                                        *)
(***************************************************************************)
Trusted == {Absent, "PREPARED", "ACTIVE"}

(* The machine.                                                              *)
Disk == [at : [Paths -> {Absent} \cup Manifests \cup Versions \cup {Rendered}], releases : SUBSET Versions,
         trash : SUBSET (Versions \X Nat), hooks : Hooks, receipt : Receipts \cup {Absent},
         trust : {"BEFORE", "OURS", "OTHER"}, trusted : Trusted, service : Versions \cup {Absent}]

DiskOK(d) ==
    /\ d \in Disk
    /\ d.at["current"] \in Versions \cup {Absent}
    /\ d.at["manifest"] \in Manifests \cup {Absent}

StepOK(s) ==
    \/ /\ s.do = "replace" /\ s.path \in Paths
       /\ s.path \in Files => s.value \in {Rendered, Absent}
       /\ s.path = "current" => s.value \in Versions \cup {Absent}
       /\ s.path = "manifest" => s.value \in Manifests \cup {Absent}
    \/ s.do = "stage" /\ s.path \in Versions
    \/ s.do = "quarantine" /\ s.path \in Versions /\ s.value \in Nat
    \/ s.do \in {"merge-hooks", "trust-hooks", "unmerge-hooks", "untrust-hooks", "activate", "stop"}

(* A command's plan: what its steps are and where the ones that depend on    *)
(* each other stand.                                                         *)
Plan(steps) ==
    /\ Len(steps) \in Nat
    /\ \A k \in 1..Len(steps) : StepOK(steps[k])
    /\ \A j, k \in 1..Len(steps) :
          steps[j].do = "replace" /\ steps[k].do = "replace" /\ steps[j].path = steps[k].path => j = k
    /\ \A p \in Paths : \E k \in 1..Len(steps) : steps[k].do = "replace" /\ steps[k].path = p

InstallPlan(steps, v) ==
    /\ Len(steps) = 10 /\ v \in Versions
    /\ \A k \in 1..10 :
          /\ steps[k].do \in {"stage", "replace", "merge-hooks", "trust-hooks", "activate"}
          /\ steps[k].do = "stage" <=> k = 1
          /\ steps[k].do = "merge-hooks" <=> k = 7
          /\ steps[k].do = "trust-hooks" <=> k = 8
          /\ steps[k].do = "activate" <=> k = 10
          /\ steps[k].do = "replace" /\ steps[k].path \in Files => steps[k].value = Rendered
    /\ steps[1].path = v
    /\ steps[3].path = "agent" /\ steps[4].path = "current" /\ steps[4].value = v
    /\ steps[9].path = "manifest" /\ steps[9].value \in Manifests /\ steps[9].value.version = v

UninstallPlan(steps) ==
    /\ Len(steps) \in Nat /\ Len(steps) >= 9
    /\ \A k \in 1..Len(steps) :
          /\ steps[k].do \in {"stop", "untrust-hooks", "unmerge-hooks", "replace", "quarantine"}
          /\ steps[k].do = "stop" <=> k = 1
          /\ steps[k].do = "untrust-hooks" <=> k = 2
          /\ steps[k].do = "unmerge-hooks" <=> k = 3
          /\ steps[k].do = "quarantine" <=> k \in 9..(Len(steps) - 1)
          /\ steps[k].do = "replace" => steps[k].value = Absent
    /\ steps[8].path = "current"

(* What a command was planned for: its kind, its steps and the machine then.  *)
Planned(kind, steps, was) ==
    /\ DiskOK(was) /\ Plan(steps)
    /\ \/ /\ kind = "install" /\ \E v \in Versions : InstallPlan(steps, v)
          /\ was.at["manifest"] = Absent => was.receipt = Absent /\ was.trusted = Absent
       \/ /\ kind = "uninstall" /\ UninstallPlan(steps)
          /\ was.at["manifest"] # Absent

(* With n steps done and not undone: paths are as their steps left them, or  *)
(* as they were, save those of `rest' that a step that threw has written.    *)
PathsFollow(steps, was, n, d, rest) ==
    \A k \in 1..Len(steps) : steps[k].do = "replace" /\ steps[k].path \notin rest =>
        d.at[steps[k].path] = IF k <= n THEN steps[k].value ELSE was.at[steps[k].path]

(* Every release that was there still is, or is in the trash.                *)
Backed(steps, was, n, d) ==
    \A x \in was.releases : \/ x \in d.releases
                            \/ \E k \in 1..n : /\ steps[k].do = "quarantine" /\ steps[k].path = x
                                              /\ <<x, steps[k].value>> \in d.trash

Staged(kind, steps, n, d) == kind = "install" /\ n >= 1 => steps[1].path \in d.releases

(* What may be running.                                                      *)
Running(kind, steps, was, n, d) ==
    IF kind = "install"
    THEN IF n = 10 THEN d.service = steps[1].path ELSE d.service \in {was.service, Absent}
    ELSE d.service \in IF n = 0 THEN {was.service, was.at["current"], Absent} ELSE {Absent}

(* The receipts of the two installers.                                       *)
ReceiptsFollow(kind, was, n, d, rest) ==
    IF kind = "install"
    THEN /\ (was.receipt # Absent \/ n >= 7) => d.receipt # Absent
         /\ (was.trusted # Absent \/ n >= 8) => d.trusted # Absent
         /\ was.receipt = Absent /\ n < 7 => d.receipt = Absent \/ "receipt" \in rest
         /\ was.trusted = Absent /\ n < 8 => d.trusted = Absent \/ "trusted" \in rest
    ELSE /\ (was.receipt = Absent \/ n >= 3) => d.receipt = Absent \/ "receipt" \in rest
         /\ (was.trusted = Absent \/ n >= 2) => d.trusted = Absent \/ "trusted" \in rest
         /\ was.receipt # Absent /\ n < 3 => d.receipt # Absent
         /\ was.trusted # Absent /\ n < 2 => d.trusted # Absent

Progress(kind, steps, was, n, d, rest) ==
    /\ PathsFollow(steps, was, n, d, rest) /\ Backed(steps, was, n, d) /\ Staged(kind, steps, n, d)
    /\ Running(kind, steps, was, n, d) /\ ReceiptsFollow(kind, was, n, d, rest)

(* Steps done and not undone, of the running command.                        *)
Done == IF command.phase = "apply" THEN command.at - 1 ELSE command.at

Fields == {"phase", "kind", "steps", "at", "was", "seen"}

PlanOK ==
    command.phase # "idle" =>
        /\ DOMAIN command = Fields /\ command.phase \in {"apply", "undo"}
        /\ command.at \in Int /\ Done \in 0..Len(command.steps)
        /\ command.seen \in Hooks \cup {Absent}
        /\ Planned(command.kind, command.steps, command.was)

Present(d) == {d.at["current"], d.service} \ {Absent} \subseteq d.releases

Leavings == (Paths \ {"current"}) \cup {"receipt", "trusted"}

TypesOK ==
    /\ DiskOK(disk) /\ edits \in Nat /\ left \subseteq Leavings
    /\ died \in BOOLEAN /\ unrestored \in BOOLEAN

(* The edits that nothing may take back are in the file, and in what an      *)
(* installer has read of it.                                                 *)
Kept == (1..edits) \ raced
EditsOK == Kept \subseteq disk.hooks.user /\ (Reading => Kept \subseteq command.seen.user)

(* A command that applies its steps has left nothing; one that undoes them    *)
(* may have, and claims nothing once a rollback has thrown.                  *)
Rest == IF command.phase = "apply" THEN {} ELSE left

Sound(d) == (~unrestored => Present(d)) /\ (~died /\ ~unrestored => Complete(d, left))

DInv ==
    /\ TypesOK /\ PlanOK /\ EditsOK
    /\ IF command.phase = "idle" THEN Sound(disk)
       ELSE /\ Sound(command.was)
            /\ command.phase = "apply" \/ ~unrestored =>
                 Progress(command.kind, command.steps, command.was, Done, disk, Rest)
-----------------------------------------------------------------------------
(* What the operations leave alone.                                          *)
LEMMA Distinct ==
    /\ Absent \notin Versions /\ Absent \notin Manifests /\ Absent \notin Receipts
    /\ Absent \notin Hooks
    /\ Absent # Rendered /\ Absent # "PREPARED" /\ Absent # "ACTIVE"
BY DeploymentAssumption

LEMMA DiskTyped ==
    ASSUME NEW d, DiskOK(d)
    PROVE  /\ d \in Disk /\ d.at \in [Paths -> {Absent} \cup Manifests \cup Versions \cup {Rendered}]
           /\ d.releases \subseteq Versions /\ d.trash \subseteq Versions \X Nat
           /\ d.hooks \in Hooks /\ d.hooks.user \in SUBSET Nat /\ d.receipt \in Receipts \cup {Absent}
           /\ d.trust \in {"BEFORE", "OURS", "OTHER"} /\ d.trusted \in Trusted
           /\ d.service \in Versions \cup {Absent}
           /\ d.at["current"] \in Versions \cup {Absent}
           /\ d.at["manifest"] \in Manifests \cup {Absent}
BY DEF DiskOK, Disk, Hooks

Untouched(d, e) ==
    e.at = d.at /\ e.releases = d.releases /\ e.trash = d.trash /\ e.hooks.user = d.hooks.user

(* The five parts of the machine that the steps write one by one.             *)
LEMMA ServiceWritten ==
    ASSUME NEW d, DiskOK(d), NEW v \in Versions \cup {Absent}
    PROVE  LET e == [d EXCEPT !.service = v] IN
           /\ DiskOK(e) /\ Untouched(d, e) /\ e.receipt = d.receipt /\ e.trusted = d.trusted
           /\ e.service = v
BY DEF DiskOK, Disk, Untouched

LEMMA ReleasesWritten ==
    ASSUME NEW d, DiskOK(d), NEW R \in SUBSET Versions, NEW T \in SUBSET (Versions \X Nat)
    PROVE  LET e == [d EXCEPT !.releases = R, !.trash = T] IN
           /\ DiskOK(e) /\ e.at = d.at /\ e.hooks.user = d.hooks.user /\ e.receipt = d.receipt
           /\ e.trusted = d.trusted /\ e.service = d.service /\ e.releases = R /\ e.trash = T
BY DEF DiskOK, Disk

LEMMA PathWritten ==
    ASSUME NEW d, DiskOK(d), NEW p \in Paths, NEW value,
           value \in {Absent} \cup Manifests \cup Versions \cup {Rendered},
           p = "current" => value \in Versions \cup {Absent},
           p = "manifest" => value \in Manifests \cup {Absent}
    PROVE  LET e == [d EXCEPT !.at[p] = value] IN
           /\ DiskOK(e) /\ e.hooks.user = d.hooks.user /\ e.receipt = d.receipt
           /\ e.trusted = d.trusted /\ e.service = d.service /\ e.releases = d.releases
           /\ e.trash = d.trash /\ e.at[p] = value /\ \A q \in Paths : q # p => e.at[q] = d.at[q]
<1>1. d.at \in [Paths -> {Absent} \cup Manifests \cup Versions \cup {Rendered}]
  BY DiskTyped
<1>. DEFINE at == [d.at EXCEPT ![p] = value]
<1>2. /\ at \in [Paths -> {Absent} \cup Manifests \cup Versions \cup {Rendered}]
      /\ at[p] = value /\ \A q \in Paths : q # p => at[q] = d.at[q]
  BY <1>1
<1>3. at["current"] \in Versions \cup {Absent} /\ at["manifest"] \in Manifests \cup {Absent}
  <2>1. "current" \in Paths /\ "manifest" \in Paths
    BY DEF Paths
  <2>. HIDE DEF at
  <2>. QED
    BY <1>2, <2>1, DiskTyped
<1>4. [d EXCEPT !.at[p] = value] = [d EXCEPT !.at = at]
  BY DEF DiskOK, Disk
<1>. HIDE DEF at
<1>. QED
  BY <1>2, <1>3, <1>4 DEF DiskOK, Disk

LEMMA HooksInstalledOK ==
    ASSUME NEW d, DiskOK(d)
    PROVE  LET e == HooksInstalled(d) IN
           /\ DiskOK(e) /\ Untouched(d, e) /\ e.trusted = d.trusted /\ e.service = d.service
           /\ e.receipt \in Receipts
<1>. DEFINE h == [d.hooks EXCEPT !.ours = "YES"]
            r == Receipt(d, "ACTIVE")
<1>1. h \in Hooks /\ h.user = d.hooks.user
  BY DiskTyped DEF Hooks
<1>2. r \in Receipts /\ r \in Receipts \cup {Absent}
  BY DiskTyped DEF Receipt, Receipts
<1>3. HooksInstalled(d) = [d EXCEPT !.hooks = h, !.receipt = r]
  BY DEF HooksInstalled, DiskOK, Disk
<1>. HIDE DEF h, r
<1>. QED
  BY <1>1, <1>2, <1>3 DEF DiskOK, Disk, Untouched

(* v: the machine d, with hooks.json as an installer has read it.            *)
SameButHooks(d, v) ==
    /\ v.at = d.at /\ v.releases = d.releases /\ v.trash = d.trash /\ v.receipt = d.receipt
    /\ v.trusted = d.trusted /\ v.service = d.service

StartedAs(d) == IF d.at["agent"] = Absent THEN Absent ELSE d.at["current"]

(* Part of a step: no link, no release.                                      *)
HalfEffect(s, d, v, e) ==
    /\ DiskOK(e) /\ e.at["current"] = d.at["current"]
    /\ e.releases = d.releases /\ e.trash = d.trash
    /\ e.hooks.user \in {d.hooks.user, v.hooks.user}
    /\ e.service \in {d.service, Absent} \/ (s.do = "activate" /\ e.service = StartedAs(d))
    /\ d.receipt # Absent => e.receipt # Absent
    /\ d.trusted # Absent => e.trusted # Absent

LEMMA HooksInstalledPartlyOK ==
    ASSUME NEW d, DiskOK(d), NEW v, DiskOK(v), SameButHooks(d, v), NEW s, NEW e \in HooksInstalledPartly(d, v)
    PROVE  HalfEffect(s, d, v, e)
<1>. DEFINE r == Receipt(v, "PREPARED")
            i == HooksInstalled(v)
<1>1. r \in Receipts /\ r \in Receipts \cup {Absent} /\ r # Absent
  BY DiskTyped, Distinct DEF Receipt, Receipts
<1>2. DiskOK(i) /\ Untouched(v, i) /\ i.trusted = v.trusted /\ i.service = v.service /\ i.receipt # Absent
  BY HooksInstalledOK, Distinct
<1>3. e \in {[d EXCEPT !.receipt = r], [i EXCEPT !.receipt = r], i}
  BY DEF HooksInstalledPartly
<1>. HIDE DEF r, i
<1>4. CASE e = [d EXCEPT !.receipt = r]
  <2>1. /\ DiskOK(e) /\ e.at = d.at /\ e.releases = d.releases /\ e.trash = d.trash
        /\ e.hooks = d.hooks /\ e.service = d.service /\ e.receipt = r /\ e.trusted = d.trusted
    BY <1>1, <1>4 DEF DiskOK, Disk
  <2>. QED
    BY <1>1, <2>1 DEF HalfEffect
<1>5. CASE e = [i EXCEPT !.receipt = r]
  <2>1. /\ DiskOK(e) /\ e.at = i.at /\ e.releases = i.releases /\ e.trash = i.trash
        /\ e.hooks = i.hooks /\ e.service = i.service /\ e.receipt = r /\ e.trusted = i.trusted
    BY <1>1, <1>2, <1>5 DEF DiskOK, Disk
  <2>. QED
    BY <1>1, <1>2, <2>1 DEF HalfEffect, SameButHooks, Untouched
<1>6. CASE e = i
  BY <1>2, <1>6 DEF HalfEffect, SameButHooks, Untouched
<1>. QED
  BY <1>3, <1>4, <1>5, <1>6

(* The user's part of hooks.json is the base of the receipt, or stays as it is.*)
LEMMA UnmergedKeeps ==
    ASSUME NEW d, DiskOK(d)
    PROVE  Unmerged(d) \in Hooks /\ Unmerged(d).user = d.hooks.user
<1>1. d.hooks \in Hooks
  BY DiskTyped
<1>2. CASE d.hooks = After(d.receipt)
  <2>1. Unmerged(d) = [user |-> d.receipt.base, ours |-> "NO"]
    BY <1>2 DEF Unmerged, Before
  <2>2. d.hooks.user = d.receipt.base
    BY <1>2 DEF After
  <2>. QED
    BY <1>1, <2>1, <2>2 DEF Hooks
<1>3. CASE d.hooks # After(d.receipt)
  BY <1>1, <1>3 DEF Unmerged, Hooks
<1>. QED
  BY <1>2, <1>3

LEMMA HooksRemovedOK ==
    ASSUME NEW d, DiskOK(d)
    PROVE  LET e == HooksRemoved(d) IN
           /\ DiskOK(e) /\ Untouched(d, e) /\ e.trusted = d.trusted /\ e.service = d.service
           /\ e.receipt = Absent
<1>1. CASE d.receipt = Absent
  BY <1>1 DEF HooksRemoved, Untouched
<1>2. CASE d.receipt # Absent
  <2>1. HooksRemoved(d) = [d EXCEPT !.hooks = Unmerged(d), !.receipt = Absent]
    BY <1>2 DEF HooksRemoved
  <2>2. Unmerged(d) \in Hooks /\ Unmerged(d).user = d.hooks.user
    BY UnmergedKeeps
  <2>. QED
    BY <2>1, <2>2 DEF DiskOK, Disk, Untouched
<1>. QED
  BY <1>1, <1>2

LEMMA TrustInstalledOK ==
    ASSUME NEW d, DiskOK(d)
    PROVE  LET e == TrustInstalled(d) IN
           /\ DiskOK(e) /\ Untouched(d, e) /\ e.receipt = d.receipt /\ e.service = d.service
           /\ e.trusted = "ACTIVE"
<1>1. TrustInstalled(d) = [d EXCEPT !.trusted = "ACTIVE", !.trust = "OURS"] /\ "ACTIVE" \in Trusted
  BY DEF TrustInstalled, Trusted
<1>. QED
  BY <1>1 DEF DiskOK, Disk, Untouched

LEMMA TrustInstalledPartlyOK ==
    ASSUME NEW d, DiskOK(d), NEW e \in TrustInstalledPartly(d) \cup TrustCleanedPartly(d)
    PROVE  /\ DiskOK(e) /\ Untouched(d, e) /\ e.receipt = d.receipt /\ e.service = d.service
           /\ e.trusted \in {"PREPARED", "ACTIVE"}
<1>1. PICK t, u : /\ t \in {"PREPARED", "ACTIVE"} /\ u \in {d.trust, "OURS", "BEFORE"}
                  /\ e = [d EXCEPT !.trusted = t, !.trust = u]
  <2>1. CASE e \in TrustInstalledPartly(d)
    <3>1. PICK p \in {<<"PREPARED", d.trust>>, <<"PREPARED", "OURS">>, <<"ACTIVE", "OURS">>} :
                e = [d EXCEPT !.trusted = p[1], !.trust = p[2]]
      BY <2>1 DEF TrustInstalledPartly
    <3>2. p[1] \in {"PREPARED", "ACTIVE"} /\ p[2] \in {d.trust, "OURS", "BEFORE"}
      OBVIOUS
    <3>. QED
      BY <3>1, <3>2
  <2>2. CASE e \in TrustCleanedPartly(d)
    BY <2>2 DEF TrustCleanedPartly
  <2>. QED
    BY <2>1, <2>2
<1>2. u \in {"BEFORE", "OURS", "OTHER"} /\ t \in Trusted
  BY <1>1, DiskTyped DEF Trusted
<1>. QED
  BY <1>1, <1>2 DEF DiskOK, Disk, Untouched

LEMMA TrustRemovedOK ==
    ASSUME NEW d, DiskOK(d)
    PROVE  LET e == TrustRemoved(d) IN
           /\ DiskOK(e) /\ Untouched(d, e) /\ e.receipt = d.receipt /\ e.service = d.service
           /\ e.trusted = Absent
<1>1. CASE d.trusted = Absent
  BY <1>1 DEF TrustRemoved, Untouched
<1>2. CASE d.trusted # Absent
  <2>1. TrustRemoved(d) = [d EXCEPT !.trusted = Absent, !.trust = "BEFORE"] /\ Absent \in Trusted
    BY <1>2 DEF TrustRemoved, Trusted
  <2>. QED
    BY <2>1 DEF DiskOK, Disk, Untouched
<1>. QED
  BY <1>1, <1>2

LEMMA StoppedOK ==
    ASSUME NEW d, DiskOK(d)
    PROVE  LET e == Stopped(d) IN
           /\ DiskOK(e) /\ Untouched(d, e) /\ e.receipt = d.receipt /\ e.trusted = d.trusted
           /\ e.service = Absent
BY ServiceWritten DEF Stopped

LEMMA StartedOK ==
    ASSUME NEW d, DiskOK(d)
    PROVE  LET e == Started(d) IN
           /\ DiskOK(e) /\ Untouched(d, e) /\ e.receipt = d.receipt /\ e.trusted = d.trusted
           /\ e.service = IF d.service # Absent \/ d.at["agent"] = Absent THEN d.service
                          ELSE d.at["current"]
<1>1. CASE d.service # Absent \/ d.at["agent"] = Absent
  BY <1>1 DEF Started, Untouched
<1>2. CASE ~(d.service # Absent \/ d.at["agent"] = Absent)
  <2>1. Started(d) = [d EXCEPT !.service = d.at["current"]]
    BY <1>2 DEF Started
  <2>. QED
    BY <1>2, <2>1, DiskTyped, ServiceWritten
<1>. QED
  BY <1>1, <1>2
-----------------------------------------------------------------------------
(* What a step does, what half of it does and what undoing it does.           *)
StepKinds == {"replace", "stage", "quarantine", "merge-hooks", "trust-hooks", "unmerge-hooks",
          "untrust-hooks", "activate", "stop"}

Replaced(s, d, e, value) ==
    IF s.do = "replace" THEN e.at[s.path] = value /\ \A q \in Paths : q # s.path => e.at[q] = d.at[q]
    ELSE e.at = d.at

Effect(s, d, e) ==
    /\ DiskOK(e) /\ e.hooks.user = d.hooks.user
    /\ Replaced(s, d, e, s.value)
    /\ e.releases = IF s.do = "stage" THEN d.releases \cup {s.path}
                    ELSE IF s.do = "quarantine" THEN d.releases \ {s.path} ELSE d.releases
    /\ e.trash = IF s.do = "quarantine" /\ s.path \in d.releases
                 THEN d.trash \cup {<<s.path, s.value>>} ELSE d.trash
    /\ e.service = IF s.do = "stop" THEN Absent
                   ELSE IF s.do = "activate" THEN StartedAs(d) ELSE d.service
    /\ IF s.do = "merge-hooks" THEN e.receipt # Absent
       ELSE e.receipt = IF s.do = "unmerge-hooks" THEN Absent ELSE d.receipt
    /\ IF s.do = "trust-hooks" THEN e.trusted # Absent
       ELSE e.trusted = IF s.do = "untrust-hooks" THEN Absent ELSE d.trusted

LEMMA StepKind == ASSUME NEW s, StepOK(s) PROVE s.do \in StepKinds
BY DEF StepOK, StepKinds

LEMMA AppliedOK ==
    ASSUME NEW d, DiskOK(d), NEW s, StepOK(s)
    PROVE  Effect(s, d, Applied(s, d))
<1>. DEFINE e == Applied(s, d)
<1>. SUFFICES Effect(s, d, e)
  OBVIOUS
<1>1. CASE s.do = "replace"
  <2>1. e = [d EXCEPT !.at[s.path] = s.value]
    BY <1>1 DEF Applied
  <2>2. /\ s.path \in Paths /\ s.value \in {Absent} \cup Manifests \cup Versions \cup {Rendered}
        /\ s.path = "current" => s.value \in Versions \cup {Absent}
        /\ s.path = "manifest" => s.value \in Manifests \cup {Absent}
    BY <1>1 DEF StepOK, Paths
  <2>3. /\ DiskOK(e) /\ e.hooks.user = d.hooks.user /\ e.receipt = d.receipt
        /\ e.trusted = d.trusted /\ e.service = d.service /\ e.releases = d.releases
        /\ e.trash = d.trash /\ e.at[s.path] = s.value
        /\ \A q \in Paths : q # s.path => e.at[q] = d.at[q]
    BY <2>1, <2>2, PathWritten
  <2>. HIDE DEF e
  <2>. QED
    BY <1>1, <2>3 DEF Effect, Replaced
<1>2. CASE s.do = "stage"
  <2>1. e = [d EXCEPT !.releases = d.releases \cup {s.path}] /\ s.path \in Versions
    BY <1>2 DEF Applied, StepOK
  <2>2. d.releases \cup {s.path} \in SUBSET Versions
    BY <2>1, DiskTyped
  <2>3. DiskOK(e) /\ e = [d EXCEPT !.releases = d.releases \cup {s.path}, !.trash = d.trash]
    BY <2>1, <2>2 DEF DiskOK, Disk
  <2>4. /\ e.at = d.at /\ e.hooks.user = d.hooks.user /\ e.receipt = d.receipt
        /\ e.trusted = d.trusted /\ e.service = d.service
        /\ e.releases = d.releases \cup {s.path} /\ e.trash = d.trash
    BY <2>1 DEF DiskOK, Disk
  <2>. HIDE DEF e
  <2>. QED
    BY <1>2, <2>3, <2>4 DEF Effect, Replaced
<1>3. CASE s.do = "quarantine"
  <2>1. /\ s.path \in Versions /\ s.value \in Nat
        /\ e = IF s.path \notin d.releases THEN d
               ELSE [d EXCEPT !.releases = d.releases \ {s.path},
                              !.trash = d.trash \cup {<<s.path, s.value>>}]
    BY <1>3 DEF Applied, StepOK
  <2>2. CASE s.path \notin d.releases
    <3>1. e = d /\ d.releases \ {s.path} = d.releases
      BY <2>1, <2>2
    <3>. QED
      BY <1>3, <2>2, <3>1 DEF Effect, Replaced
  <2>3. CASE s.path \in d.releases
    <3>. DEFINE R == d.releases \ {s.path}
                T == d.trash \cup {<<s.path, s.value>>}
    <3>1. R \in SUBSET Versions /\ T \in SUBSET (Versions \X Nat)
      BY <2>1, DiskTyped
    <3>2. e = [d EXCEPT !.releases = R, !.trash = T]
      BY <2>1, <2>3
    <3>. HIDE DEF e, R, T
    <3>3. /\ DiskOK(e) /\ e.at = d.at /\ e.hooks.user = d.hooks.user /\ e.receipt = d.receipt
          /\ e.trusted = d.trusted /\ e.service = d.service /\ e.releases = R /\ e.trash = T
      BY <3>1, <3>2 DEF DiskOK, Disk
    <3>. QED
      BY <1>3, <2>3, <3>3 DEF Effect, Replaced, e, R, T
  <2>. QED
    BY <2>2, <2>3
<1>4. CASE s.do \in {"merge-hooks", "unmerge-hooks"}
  BY <1>4, HooksInstalledOK, HooksRemovedOK, Distinct DEF Applied, Effect, Replaced, Untouched
<1>5. CASE s.do \in {"trust-hooks", "untrust-hooks"}
  BY <1>5, TrustInstalledOK, TrustRemovedOK, Distinct DEF Applied, Effect, Replaced, Untouched
<1>6. CASE s.do = "stop"
  <2>1. e = Stopped(d)
    BY <1>6 DEF Applied
  <2>. QED
    BY <1>6, <2>1, StoppedOK DEF Effect, Replaced, Untouched
<1>7. CASE s.do = "activate"
  <2>1. e = Started(Stopped(d))
    BY <1>7 DEF Applied
  <2>. QED
    BY <1>7, <2>1, StoppedOK, StartedOK DEF Effect, Replaced, Untouched, StartedAs
<1>. QED
  BY <1>1, <1>2, <1>3, <1>4, <1>5, <1>6, <1>7, StepKind DEF StepKinds

LEMMA StepFields ==
    \A do, path, value : /\ Step(do, path, value).do = do
                         /\ Step(do, path, value).path = path
                         /\ Step(do, path, value).value = value
BY DEF Step

LEMMA ReplaceFields ==
    \A path, value : /\ Replace(path, value).do = "replace"
                     /\ Replace(path, value).path = path
                     /\ Replace(path, value).value = value
BY DEF Step, Replace

Writable(s) ==
    s.do = "replace" =>
        /\ s.path \in Paths /\ s.value \in {Absent} \cup Manifests \cup Versions \cup {Rendered}
        /\ s.path = "manifest" => s.value \in Manifests \cup {Absent}

LEMMA PartlyOK ==
    ASSUME NEW d, DiskOK(d), NEW v, DiskOK(v), SameButHooks(d, v), NEW s, Writable(s), NEW e \in Partly(s, d, v)
    PROVE  HalfEffect(s, d, v, e)
<1>1. CASE e = d
  BY <1>1 DEF HalfEffect
<1>2. CASE s.do = "merge-hooks" /\ e \in HooksInstalledPartly(d, v)
  BY <1>2, HooksInstalledPartlyOK
<1>3. CASE s.do = "trust-hooks" /\ e \in TrustInstalledPartly(d) \cup TrustCleanedPartly(d)
  BY <1>3, TrustInstalledPartlyOK, Distinct DEF HalfEffect, Untouched
<1>4. CASE s.do = "unmerge-hooks" /\ e = [d EXCEPT !.hooks = Unmerged(v)]
  <2>1. Unmerged(v) \in Hooks /\ Unmerged(v).user = v.hooks.user
    BY UnmergedKeeps
  <2>2. /\ DiskOK(e) /\ e.at = d.at /\ e.releases = d.releases /\ e.trash = d.trash
        /\ e.hooks.user = v.hooks.user /\ e.receipt = d.receipt /\ e.trusted = d.trusted
        /\ e.service = d.service
    BY <1>4, <2>1 DEF DiskOK, Disk
  <2>. QED
    BY <2>2, <1>4 DEF HalfEffect
<1>5. CASE s.do = "untrust-hooks" /\ e = [d EXCEPT !.trust = "BEFORE"]
  <2>1. /\ DiskOK(e) /\ Untouched(d, e) /\ e.receipt = d.receipt /\ e.trusted = d.trusted
        /\ e.service = d.service
    BY <1>5 DEF DiskOK, Disk, Untouched
  <2>. QED
    BY <2>1, <1>5 DEF HalfEffect, Untouched
<1>6. CASE s.do \in {"activate", "stop"} /\ e = Stopped(d)
  BY <1>6, StoppedOK DEF HalfEffect, Untouched
<1>7. CASE s.do = "activate" /\ e = Started(Stopped(d))
  BY <1>7, StoppedOK, StartedOK DEF HalfEffect, Untouched, StartedAs
<1>8. CASE WrittenLast(s) /\ e = Applied(s, d)
  <2>1. e = [d EXCEPT !.at[s.path] = s.value] /\ s.do = "replace" /\ s.path # "current"
    BY <1>8 DEF Applied, WrittenLast
  <2>2. /\ s.path \in Paths /\ s.value \in {Absent} \cup Manifests \cup Versions \cup {Rendered}
        /\ s.path = "manifest" => s.value \in Manifests \cup {Absent}
    BY <2>1 DEF Writable
  <2>3. /\ DiskOK(e) /\ e.hooks.user = d.hooks.user /\ e.receipt = d.receipt
        /\ e.trusted = d.trusted /\ e.service = d.service /\ e.releases = d.releases
        /\ e.trash = d.trash /\ \A q \in Paths : q # s.path => e.at[q] = d.at[q]
    BY <2>1, <2>2, PathWritten
  <2>. QED
    BY <2>1, <2>3 DEF HalfEffect, Paths
<1>9. \/ e = d
      \/ WrittenLast(s) /\ e = Applied(s, d)
      \/ s.do = "merge-hooks" /\ e \in HooksInstalledPartly(d, v)
      \/ s.do = "trust-hooks" /\ e \in TrustInstalledPartly(d) \cup TrustCleanedPartly(d)
      \/ s.do = "unmerge-hooks" /\ e = [d EXCEPT !.hooks = Unmerged(v)]
      \/ s.do = "untrust-hooks" /\ e = [d EXCEPT !.trust = "BEFORE"]
      \/ s.do \in {"activate", "stop"} /\ e = Stopped(d)
      \/ s.do = "activate" /\ e = Started(Stopped(d))
  BY DEF Partly
<1>. QED
  BY <1>1, <1>2, <1>3, <1>4, <1>5, <1>6, <1>7, <1>8, <1>9

(* Part of a rollback.                                                       *)
LEMMA UndonePartlyOK ==
    ASSUME NEW d, DiskOK(d), NEW v, DiskOK(v), SameButHooks(d, v), NEW was, DiskOK(was), NEW s, StepOK(s),
           NEW e \in UndonePartly(s, d, v, was)
    PROVE  /\ DiskOK(e) /\ e.at["current"] = d.at["current"] /\ e.releases = d.releases
           /\ e.hooks.user \in {d.hooks.user, v.hooks.user}
           /\ e.service \in {d.service, Absent, d.at["current"]}
<1>1. CASE s.do = "replace"
  <2>. DEFINE t == Replace(s.path, was.at[s.path])
  <2>1. t.do = "replace" /\ t.path = s.path /\ t.value = was.at[s.path] /\ s.path \in Paths
    BY <1>1, ReplaceFields DEF StepOK
  <2>2. e \in Partly(t, d, v)
    BY <1>1 DEF UndonePartly
  <2>. HIDE DEF t
  <2>3. Writable(t)
    BY <2>1, DiskTyped DEF Writable
  <2>. QED
    BY <2>1, <2>2, <2>3, PartlyOK DEF HalfEffect
<1>2. CASE s.do = "stop" /\ was.service # Absent
  <2>1. e \in {d, Started(d)}
    BY <1>2 DEF UndonePartly
  <2>. QED
    BY <2>1, StartedOK DEF Untouched
<1>3. CASE s.do = "untrust-hooks" /\ was.trusted # Absent
  <2>1. e = d \/ e \in TrustInstalledPartly(d)
    BY <1>3 DEF UndonePartly
  <2>. QED
    BY <2>1, TrustInstalledPartlyOK DEF Untouched
<1>4. CASE /\ s.do # "replace" /\ ~(s.do = "stop" /\ was.service # Absent)
           /\ ~(s.do = "untrust-hooks" /\ was.trusted # Absent)
  <2>. DEFINE t == Step(Opposite(s, was), Absent, Absent)
  <2>1. t.do = Opposite(s, was)
    BY StepFields
  <2>2. t.do # "replace" /\ t.do # "activate"
    BY <2>1 DEF Opposite
  <2>3. e \in Partly(t, d, v)
    BY <1>4 DEF UndonePartly
  <2>. HIDE DEF t
  <2>. QED
    BY <2>2, <2>3, PartlyOK DEF HalfEffect, Writable
<1>. QED
  BY <1>1, <1>2, <1>3, <1>4

(* The rollback of a step.                                                   *)
Reverse(s, d, e, was) ==
    /\ DiskOK(e) /\ e.hooks.user = d.hooks.user
    /\ Replaced(s, d, e, was.at[s.path])
    /\ e.releases = IF s.do = "stage" /\ s.path \notin was.releases THEN d.releases \ {s.path}
                    ELSE IF s.do = "quarantine" /\ <<s.path, s.value>> \in d.trash
                    THEN d.releases \cup {s.path} ELSE d.releases
    /\ e.trash = IF s.do = "quarantine" THEN d.trash \ {<<s.path, s.value>>} ELSE d.trash
    /\ e.service = IF s.do = "activate" THEN Absent
                   ELSE IF s.do = "stop" /\ was.service # Absent /\ d.service = Absent
                   THEN StartedAs(d) ELSE d.service
    /\ IF s.do = "unmerge-hooks" /\ was.receipt # Absent THEN e.receipt # Absent
       ELSE e.receipt = IF s.do = "merge-hooks" /\ was.receipt = Absent THEN Absent ELSE d.receipt
    /\ IF s.do = "untrust-hooks" /\ was.trusted # Absent THEN e.trusted # Absent
       ELSE e.trusted = IF s.do = "trust-hooks" /\ was.trusted = Absent THEN Absent ELSE d.trusted

LEMMA UndoneOK ==
    ASSUME NEW d, DiskOK(d), NEW was, DiskOK(was), NEW s, StepOK(s)
    PROVE  Reverse(s, d, Undone(s, d, was), was)
<1>. DEFINE e == Undone(s, d, was)
<1>. SUFFICES Reverse(s, d, e, was)
  OBVIOUS
<1>1. CASE s.do = "replace"
  <2>. DEFINE value == was.at[s.path]
  <2>1. e = [d EXCEPT !.at[s.path] = value]
    BY <1>1 DEF Undone, Unlinked
  <2>2. /\ s.path \in Paths /\ value \in {Absent} \cup Manifests \cup Versions \cup {Rendered}
        /\ s.path = "current" => value \in Versions \cup {Absent}
        /\ s.path = "manifest" => value \in Manifests \cup {Absent}
    BY <1>1, DiskTyped DEF StepOK
  <2>. HIDE DEF value
  <2>3. /\ DiskOK(e) /\ e.hooks.user = d.hooks.user /\ e.receipt = d.receipt
        /\ e.trusted = d.trusted /\ e.service = d.service /\ e.releases = d.releases
        /\ e.trash = d.trash /\ e.at[s.path] = value
        /\ \A q \in Paths : q # s.path => e.at[q] = d.at[q]
    BY <2>1, <2>2, PathWritten
  <2>. HIDE DEF e
  <2>. QED
    BY <1>1, <2>3 DEF Reverse, Replaced, value
<1>2. CASE s.do = "stage"
  <2>. DEFINE R == IF s.path \in was.releases THEN d.releases ELSE d.releases \ {s.path}
  <2>1. e = [d EXCEPT !.releases = R]
    BY <1>2 DEF Undone
  <2>2. R \in SUBSET Versions
    BY DiskTyped
  <2>. HIDE DEF R
  <2>3. /\ DiskOK(e) /\ e.at = d.at /\ e.hooks.user = d.hooks.user /\ e.receipt = d.receipt
        /\ e.trusted = d.trusted /\ e.service = d.service /\ e.releases = R /\ e.trash = d.trash
    BY <2>1, <2>2 DEF DiskOK, Disk
  <2>. HIDE DEF e
  <2>. QED
    BY <1>2, <2>3 DEF Reverse, Replaced, R
<1>3. CASE s.do = "quarantine"
  <2>1. /\ s.path \in Versions
        /\ e = IF <<s.path, s.value>> \notin d.trash THEN d
               ELSE [d EXCEPT !.releases = d.releases \cup {s.path},
                              !.trash = d.trash \ {<<s.path, s.value>>}]
    BY <1>3 DEF Undone, StepOK
  <2>2. CASE <<s.path, s.value>> \notin d.trash
    <3>1. e = d /\ d.trash \ {<<s.path, s.value>>} = d.trash
      BY <2>1, <2>2
    <3>. QED
      BY <1>3, <2>2, <3>1 DEF Reverse, Replaced
  <2>3. CASE <<s.path, s.value>> \in d.trash
    <3>. DEFINE R == d.releases \cup {s.path}
                T == d.trash \ {<<s.path, s.value>>}
    <3>1. R \in SUBSET Versions /\ T \in SUBSET (Versions \X Nat)
      BY <2>1, DiskTyped
    <3>2. e = [d EXCEPT !.releases = R, !.trash = T]
      BY <2>1, <2>3
    <3>. HIDE DEF e, R, T
    <3>3. /\ DiskOK(e) /\ e.at = d.at /\ e.hooks.user = d.hooks.user /\ e.receipt = d.receipt
          /\ e.trusted = d.trusted /\ e.service = d.service /\ e.releases = R /\ e.trash = T
      BY <3>1, <3>2 DEF DiskOK, Disk
    <3>. QED
      BY <1>3, <2>3, <3>3 DEF Reverse, Replaced, e, R, T
  <2>. QED
    BY <2>2, <2>3
<1>4. CASE s.do \in {"merge-hooks", "unmerge-hooks"}
  BY <1>4, HooksInstalledOK, HooksRemovedOK, Distinct DEF Undone, Reverse, Replaced, Untouched
<1>5. CASE s.do \in {"trust-hooks", "untrust-hooks"}
  BY <1>5, TrustInstalledOK, TrustRemovedOK, Distinct DEF Undone, Reverse, Replaced, Untouched
<1>6. CASE s.do = "activate"
  <2>1. e = Stopped(d)
    BY <1>6 DEF Undone
  <2>. QED
    BY <1>6, <2>1, StoppedOK DEF Reverse, Replaced, Untouched
<1>7. CASE s.do = "stop"
  <2>1. e = IF was.service # Absent THEN Started(d) ELSE d
    BY <1>7 DEF Undone
  <2>. QED
    BY <1>7, <2>1, StartedOK DEF Reverse, Replaced, Untouched, StartedAs
<1>. QED
  BY <1>1, <1>2, <1>3, <1>4, <1>5, <1>6, <1>7, StepKind DEF StepKinds
-----------------------------------------------------------------------------
(* The plans of the two commands.                                            *)
LEMMA InstallPlanned ==
    ASSUME NEW v \in Versions, NEW m \in Manifests, m.version = v
    PROVE  Plan(InstallSteps(v, m)) /\ InstallPlan(InstallSteps(v, m), v)
<1>. DEFINE steps == InstallSteps(v, m)
<1>1. /\ Len(steps) = 10
      /\ steps[1] = Step("stage", v, Absent) /\ steps[2] = Replace("config", Rendered)
      /\ steps[3] = Replace("agent", Rendered) /\ steps[4] = Replace("current", v)
      /\ steps[5] = Replace("sidecar-launcher", Rendered)
      /\ steps[6] = Replace("cli-launcher", Rendered)
      /\ steps[7] = Step("merge-hooks", Absent, Absent) /\ steps[8] = Step("trust-hooks", Absent, Absent)
      /\ steps[9] = Replace("manifest", m) /\ steps[10] = Step("activate", Absent, Absent)
  BY DEF InstallSteps
<1>. HIDE DEF steps
<1>2. /\ steps[1].do = "stage" /\ steps[1].path = v
      /\ steps[7].do = "merge-hooks" /\ steps[8].do = "trust-hooks" /\ steps[10].do = "activate"
  BY <1>1, StepFields
<1>3. /\ steps[2].do = "replace" /\ steps[2].path = "config" /\ steps[2].value = Rendered
      /\ steps[3].do = "replace" /\ steps[3].path = "agent" /\ steps[3].value = Rendered
      /\ steps[4].do = "replace" /\ steps[4].path = "current" /\ steps[4].value = v
      /\ steps[5].do = "replace" /\ steps[5].path = "sidecar-launcher" /\ steps[5].value = Rendered
      /\ steps[6].do = "replace" /\ steps[6].path = "cli-launcher" /\ steps[6].value = Rendered
      /\ steps[9].do = "replace" /\ steps[9].path = "manifest" /\ steps[9].value = m
  BY <1>1, ReplaceFields
<1>4. \A k \in 1..10 : \/ k = 1 \/ k = 2 \/ k = 3 \/ k = 4 \/ k = 5
                       \/ k = 6 \/ k = 7 \/ k = 8 \/ k = 9 \/ k = 10
  OBVIOUS
<1>5. ASSUME NEW k \in 1..10
      PROVE  /\ steps[k].do \in {"stage", "replace", "merge-hooks", "trust-hooks", "activate"}
             /\ steps[k].do = "stage" <=> k = 1
             /\ steps[k].do = "merge-hooks" <=> k = 7
             /\ steps[k].do = "trust-hooks" <=> k = 8
             /\ steps[k].do = "activate" <=> k = 10
             /\ steps[k].do = "replace" /\ steps[k].path \in Files => steps[k].value = Rendered
             /\ StepOK(steps[k])
  <2>1. CASE k = 1 \/ k = 7 \/ k = 8 \/ k = 10
    BY <1>2, <2>1 DEF StepOK
  <2>2. CASE k = 2 \/ k = 3 \/ k = 4
    BY <1>3, <2>2 DEF StepOK, Paths, Files
  <2>3. CASE k = 5 \/ k = 6 \/ k = 9
    BY <1>3, <2>3 DEF StepOK, Paths, Files
  <2>. QED
    BY <1>4, <2>1, <2>2, <2>3
<1>6. InstallPlan(steps, v)
  BY <1>1, <1>2, <1>3, <1>5 DEF InstallPlan
<1>7. ASSUME NEW j \in 1..10, NEW k \in 1..10,
             steps[j].do = "replace", steps[k].do = "replace", steps[j].path = steps[k].path
      PROVE  j = k
  <2>1. j \in {2, 3, 4, 5, 6, 9} /\ k \in {2, 3, 4, 5, 6, 9}
    BY <1>2, <1>4, <1>7
  <2>. QED
    BY <1>3, <1>7, <2>1
<1>8. ASSUME NEW p \in Paths
      PROVE  \E k \in 1..10 : steps[k].do = "replace" /\ steps[k].path = p
  <2>1. CASE p = "config"
    BY <1>3, <2>1
  <2>2. CASE p = "agent"
    BY <1>3, <2>2
  <2>3. CASE p = "current"
    BY <1>3, <2>3
  <2>4. CASE p = "sidecar-launcher"
    BY <1>3, <2>4
  <2>5. CASE p = "cli-launcher"
    BY <1>3, <2>5
  <2>6. CASE p = "manifest"
    BY <1>3, <2>6
  <2>. QED
    BY <2>1, <2>2, <2>3, <2>4, <2>5, <2>6 DEF Paths, Files
<1>9. Plan(steps)
  BY <1>1, <1>5, <1>7, <1>8 DEF Plan
<1>. QED
  BY <1>6, <1>9 DEF steps

LEMMA UninstallPlanned ==
    ASSUME NEW m \in Manifests
    PROVE  Plan(UninstallSteps(m)) /\ UninstallPlan(UninstallSteps(m))
<1>. DEFINE head == <<Step("stop", Absent, Absent), Step("untrust-hooks", Absent, Absent),
                      Step("unmerge-hooks", Absent, Absent), Replace("agent", Absent),
                      Replace("sidecar-launcher", Absent), Replace("cli-launcher", Absent),
                      Replace("config", Absent), Replace("current", Absent)>>
            body == [i \in DOMAIN m.owned |-> Step("quarantine", m.owned[i], i)]
            tail == <<Replace("manifest", Absent)>>
            steps == UninstallSteps(m)
            L == Len(m.owned)
            Any == {head[k] : k \in 1..8} \cup {body[i] : i \in 1..L} \cup {tail[1]}
            N == 9 + L
<1>1. m.owned \in Seq(Versions) /\ L \in Nat /\ DOMAIN m.owned = 1..L
      /\ \A i \in 1..L : m.owned[i] \in Versions
  BY DEF Manifests
<1>2. /\ Len(head) = 8 /\ Len(tail) = 1 /\ DOMAIN head = 1..8
      /\ head[1] = Step("stop", Absent, Absent) /\ head[2] = Step("untrust-hooks", Absent, Absent)
      /\ head[3] = Step("unmerge-hooks", Absent, Absent) /\ head[4] = Replace("agent", Absent)
      /\ head[5] = Replace("sidecar-launcher", Absent) /\ head[6] = Replace("cli-launcher", Absent)
      /\ head[7] = Replace("config", Absent) /\ head[8] = Replace("current", Absent)
      /\ tail[1] = Replace("manifest", Absent)
  OBVIOUS
<1>3. body = [i \in 1..L |-> Step("quarantine", m.owned[i], i)]
  BY <1>1
<1>4. \A i \in 1..L : body[i] = Step("quarantine", m.owned[i], i)
  BY <1>3
<1>5. steps = head \o body \o tail
  BY DEF UninstallSteps
<1>6. head \in Seq(Any) /\ tail \in Seq(Any)
  <2>1. head \in Seq({head[1], head[2], head[3], head[4], head[5], head[6], head[7], head[8]})
        /\ tail \in Seq({tail[1]})
    OBVIOUS
  <2>2. {head[1], head[2], head[3], head[4], head[5], head[6], head[7], head[8]} \subseteq Any
        /\ {tail[1]} \subseteq Any
    <3>. HIDE DEF head, body, tail, L
    <3>. QED
      OBVIOUS
  <2>. HIDE DEF head, tail, Any
  <2>. QED
    BY <2>1, <2>2
<1>7. body \in Seq(Any) /\ Len(body) = L
  <2>. HIDE DEF head, tail, L
  <2>1. \A i \in 1..L : body[i] \in Any
    OBVIOUS
  <2>. HIDE DEF Any
  <2>. QED
    BY <1>1, <1>3, <2>1
<1>. HIDE DEF head, body, tail, steps, Any, L
<1>8. /\ Len(steps) = N
      /\ \A k \in 1..8 : steps[k] = head[k]
      /\ \A i \in 1..L : steps[8 + i] = body[i]
      /\ steps[9 + L] = tail[1]
  <2>. DEFINE front == head \o body
  <2>1. front \in Seq(Any) /\ Len(front) = Len(head) + Len(body)
    BY <1>6, <1>7, ConcatProperties
  <2>2. \A i \in 1..Len(head) + Len(body) : front[i] = IF i <= Len(head) THEN head[i]
                                                       ELSE body[i - Len(head)]
    BY <1>6, <1>7, ConcatProperties
  <2>3. steps = front \o tail
    BY <1>5
  <2>. HIDE DEF front
  <2>4. Len(steps) = Len(front) + Len(tail)
    BY <1>6, <2>1, <2>3, ConcatProperties
  <2>5. \A i \in 1..Len(front) + Len(tail) : steps[i] = IF i <= Len(front) THEN front[i]
                                                        ELSE tail[i - Len(front)]
    BY <1>6, <2>1, <2>3, ConcatProperties
  <2>6. Len(head) = 8 /\ Len(tail) = 1 /\ Len(body) = L /\ L \in Nat
    BY <1>1, <1>2, <1>7
  <2>7. Len(front) = 8 + L /\ Len(steps) = 9 + L
    BY <2>1, <2>4, <2>6
  <2>8. \A k \in 1..8 : steps[k] = head[k]
    BY <2>2, <2>5, <2>6, <2>7
  <2>9. ASSUME NEW i \in 1..L PROVE steps[8 + i] = body[i]
    <3>1. 8 + i \in 1..8 + L /\ ~(8 + i <= 8) /\ 8 + i - 8 = i
      BY <2>6
    <3>. QED
      BY <2>2, <2>5, <2>6, <2>7, <3>1
  <2>10. steps[9 + L] = tail[1]
    <3>1. ~(9 + L <= 8 + L) /\ 9 + L - (8 + L) = 1 /\ 9 + L \in 1..9 + L
      BY <2>6
    <3>. QED
      BY <2>5, <2>6, <2>7, <3>1
  <2>. QED
    BY <2>7, <2>8, <2>9, <2>10
<1>9. /\ steps[1].do = "stop" /\ steps[2].do = "untrust-hooks" /\ steps[3].do = "unmerge-hooks"
  BY <1>2, <1>8, StepFields
<1>10. /\ steps[4].do = "replace" /\ steps[4].path = "agent" /\ steps[4].value = Absent
       /\ steps[5].do = "replace" /\ steps[5].path = "sidecar-launcher" /\ steps[5].value = Absent
       /\ steps[6].do = "replace" /\ steps[6].path = "cli-launcher" /\ steps[6].value = Absent
       /\ steps[7].do = "replace" /\ steps[7].path = "config" /\ steps[7].value = Absent
       /\ steps[8].do = "replace" /\ steps[8].path = "current" /\ steps[8].value = Absent
  BY <1>2, <1>8, ReplaceFields
<1>11. steps[N].do = "replace" /\ steps[N].path = "manifest" /\ steps[N].value = Absent
  BY <1>2, <1>8, ReplaceFields
<1>12. N \in Nat /\ N >= 9 /\ Len(steps) = N
  BY <1>1, <1>8
<1>13. ASSUME NEW k \in 9..(N - 1)
       PROVE  steps[k].do = "quarantine" /\ steps[k].path \in Versions /\ steps[k].value \in Nat
  <2>1. k - 8 \in 1..L /\ k = 8 + (k - 8)
    BY <1>1
  <2>2. steps[k] = Step("quarantine", m.owned[k - 8], k - 8)
    BY <1>4, <1>8, <2>1
  <2>. QED
    BY <1>1, <2>1, <2>2, StepFields
<1>. HIDE DEF N
<1>14. \A k \in 1..N : \/ k = 1 \/ k = 2 \/ k = 3 \/ k = 4 \/ k = 5 \/ k = 6 \/ k = 7 \/ k = 8
                       \/ k \in 9..(N - 1) \/ k = N
  BY <1>12
<1>15. ASSUME NEW k \in 1..N
       PROVE  /\ steps[k].do \in {"stop", "untrust-hooks", "unmerge-hooks", "replace", "quarantine"}
              /\ steps[k].do = "stop" <=> k = 1
              /\ steps[k].do = "untrust-hooks" <=> k = 2
              /\ steps[k].do = "unmerge-hooks" <=> k = 3
              /\ steps[k].do = "quarantine" <=> k \in 9..(N - 1)
              /\ steps[k].do = "replace" => steps[k].value = Absent
              /\ StepOK(steps[k])
  <2>1. CASE k = 1 \/ k = 2 \/ k = 3
    BY <1>9, <1>12, <2>1 DEF StepOK
  <2>2. CASE k = 4 \/ k = 5 \/ k = 6
    BY <1>10, <1>12, <2>2 DEF StepOK, Paths, Files
  <2>3. CASE k = 7 \/ k = 8
    BY <1>10, <1>12, <2>3 DEF StepOK, Paths, Files
  <2>4. CASE k \in 9..(N - 1)
    <3>1. k # 1 /\ k # 2 /\ k # 3
      BY <1>12, <2>4
    <3>. QED
      BY <1>13, <2>4, <3>1 DEF StepOK
  <2>5. CASE k = N
    <3>1. k # 1 /\ k # 2 /\ k # 3 /\ k \notin 9..(N - 1)
      BY <1>12, <2>5
    <3>. QED
      BY <1>11, <2>5, <3>1 DEF StepOK, Paths, Files
  <2>. QED
    BY <1>14, <2>1, <2>2, <2>3, <2>4, <2>5
<1>16. UninstallPlan(steps)
  BY <1>10, <1>12, <1>15 DEF UninstallPlan
<1>17. ASSUME NEW j \in 1..N, NEW k \in 1..N,
              steps[j].do = "replace", steps[k].do = "replace", steps[j].path = steps[k].path
       PROVE  j = k
  <2>1. \A i \in 1..N : steps[i].do = "replace" => i \in {4, 5, 6, 7, 8, N}
    BY <1>9, <1>13, <1>14
  <2>2. j \in {4, 5, 6, 7, 8, N} /\ k \in {4, 5, 6, 7, 8, N}
    BY <1>17, <2>1
  <2>. QED
    BY <1>10, <1>11, <1>17, <2>2
<1>18. ASSUME NEW p \in Paths
       PROVE  \E k \in 1..N : steps[k].do = "replace" /\ steps[k].path = p
  <2>. 4 \in 1..N /\ 5 \in 1..N /\ 6 \in 1..N /\ 7 \in 1..N /\ 8 \in 1..N /\ N \in 1..N
    BY <1>12
  <2>1. CASE p \in {"agent", "sidecar-launcher", "cli-launcher"}
    BY <1>10, <2>1
  <2>2. CASE p \in {"config", "current"}
    BY <1>10, <2>2
  <2>3. CASE p = "manifest"
    BY <1>11, <2>3
  <2>. QED
    BY <2>1, <2>2, <2>3 DEF Paths, Files
<1>19. Plan(steps)
  BY <1>12, <1>15, <1>17, <1>18 DEF Plan
<1>. QED
  BY <1>16, <1>19 DEF steps
-----------------------------------------------------------------------------
(* What a plan says of a step by its kind.                                    *)
LEMMA InstallStep ==
    ASSUME NEW steps, NEW v, InstallPlan(steps, v), NEW k \in 1..Len(steps)
    PROVE  /\ Len(steps) = 10 /\ k \in 1..10
           /\ steps[k].do \in {"stage", "replace", "merge-hooks", "trust-hooks", "activate"}
           /\ steps[k].do = "stage" <=> k = 1
           /\ steps[k].do = "merge-hooks" <=> k = 7
           /\ steps[k].do = "trust-hooks" <=> k = 8
           /\ steps[k].do = "activate" <=> k = 10
           /\ steps[k].do = "replace" /\ steps[k].path \in Files => steps[k].value = Rendered
           /\ steps[k].do # "quarantine" /\ steps[k].do # "stop"
           /\ steps[k].do # "unmerge-hooks" /\ steps[k].do # "untrust-hooks"
BY DEF InstallPlan

LEMMA InstallPaths ==
    ASSUME NEW steps, NEW v, InstallPlan(steps, v)
    PROVE  /\ Len(steps) = 10 /\ v \in Versions /\ steps[1].path = v
           /\ 3 \in 1..Len(steps) /\ steps[3].do = "replace" /\ steps[3].path = "agent"
           /\ steps[3].value = Rendered
           /\ 4 \in 1..Len(steps) /\ steps[4].do = "replace" /\ steps[4].path = "current"
           /\ steps[4].value = v
           /\ 9 \in 1..Len(steps) /\ steps[9].do = "replace" /\ steps[9].path = "manifest"
           /\ steps[9].value \in Manifests /\ steps[9].value.version = v
<1>1. Len(steps) = 10 /\ 3 \in 1..10 /\ 4 \in 1..10 /\ 9 \in 1..10
  BY DEF InstallPlan
<1>2. steps[3].do = "replace" /\ steps[4].do = "replace" /\ steps[9].do = "replace"
  <2>1. steps[3].do \in {"stage", "replace", "merge-hooks", "trust-hooks", "activate"}
    BY <1>1, InstallStep
  <2>2. steps[4].do \in {"stage", "replace", "merge-hooks", "trust-hooks", "activate"}
    BY <1>1, InstallStep
  <2>3. steps[9].do \in {"stage", "replace", "merge-hooks", "trust-hooks", "activate"}
    BY <1>1, InstallStep
  <2>4. /\ steps[3].do # "stage" /\ steps[3].do # "merge-hooks" /\ steps[3].do # "trust-hooks"
        /\ steps[3].do # "activate"
    BY <1>1 DEF InstallPlan
  <2>5. /\ steps[4].do # "stage" /\ steps[4].do # "merge-hooks" /\ steps[4].do # "trust-hooks"
        /\ steps[4].do # "activate"
    BY <1>1 DEF InstallPlan
  <2>6. /\ steps[9].do # "stage" /\ steps[9].do # "merge-hooks" /\ steps[9].do # "trust-hooks"
        /\ steps[9].do # "activate"
    BY <1>1 DEF InstallPlan
  <2>. QED
    BY <2>1, <2>2, <2>3, <2>4, <2>5, <2>6
<1>3. /\ v \in Versions /\ steps[1].path = v /\ steps[3].path = "agent" /\ steps[4].path = "current"
      /\ steps[4].value = v /\ steps[9].path = "manifest" /\ steps[9].value \in Manifests
      /\ steps[9].value.version = v
  BY DEF InstallPlan
<1>4. steps[3].value = Rendered
  BY <1>1, <1>2, <1>3, InstallStep DEF Files
<1>. QED
  BY <1>1, <1>2, <1>3, <1>4

LEMMA UninstallStep ==
    ASSUME NEW steps, UninstallPlan(steps), NEW k \in 1..Len(steps)
    PROVE  /\ steps[k].do \in {"stop", "untrust-hooks", "unmerge-hooks", "replace", "quarantine"}
           /\ steps[k].do = "stop" <=> k = 1
           /\ steps[k].do = "untrust-hooks" <=> k = 2
           /\ steps[k].do = "unmerge-hooks" <=> k = 3
           /\ steps[k].do = "quarantine" <=> k \in 9..(Len(steps) - 1)
           /\ steps[k].do = "replace" => steps[k].value = Absent
           /\ steps[k].do # "stage" /\ steps[k].do # "activate"
           /\ steps[k].do # "merge-hooks" /\ steps[k].do # "trust-hooks"
BY DEF UninstallPlan

LEMMA UninstallPaths ==
    ASSUME NEW steps, UninstallPlan(steps)
    PROVE  /\ Len(steps) \in Nat /\ Len(steps) >= 9 /\ 8 \in 1..Len(steps)
           /\ steps[8].do = "replace" /\ steps[8].path = "current" /\ steps[8].value = Absent
<1>1. Len(steps) \in Nat /\ Len(steps) >= 9 /\ 8 \in 1..Len(steps)
  BY DEF UninstallPlan
<1>2. /\ steps[8].do # "stop" /\ steps[8].do # "untrust-hooks" /\ steps[8].do # "unmerge-hooks"
      /\ steps[8].do # "quarantine"
  BY <1>1 DEF UninstallPlan
<1>3. steps[8].do \in {"stop", "untrust-hooks", "unmerge-hooks", "replace", "quarantine"}
  BY <1>1, UninstallStep
<1>4. steps[8].do = "replace"
  BY <1>2, <1>3
<1>. QED
  BY <1>1, <1>4 DEF UninstallPlan

LEMMA PlannedPaths ==
    ASSUME NEW kind, NEW steps, NEW was, Planned(kind, steps, was)
    PROVE  /\ Len(steps) \in Nat /\ Len(steps) >= 9
           /\ \A k \in 1..Len(steps) : StepOK(steps[k])
           /\ \E k \in 1..Len(steps) : /\ steps[k].do = "replace" /\ steps[k].path = "current"
           /\ 8 \in 1..Len(steps)
           /\ kind \in {"install", "uninstall"}
           /\ kind = "install" => Len(steps) = 10
<1>1. CASE kind = "install"
  <2>1. PICK v \in Versions : InstallPlan(steps, v)
    BY <1>1 DEF Planned
  <2>. QED
    BY <1>1, <2>1, InstallPaths DEF Planned, Plan
<1>2. CASE kind = "uninstall"
  <2>1. UninstallPlan(steps)
    BY <1>2 DEF Planned
  <2>. QED
    BY <1>2, <2>1, UninstallPaths DEF Planned, Plan
<1>. QED
  BY <1>1, <1>2 DEF Planned
-----------------------------------------------------------------------------
(* One step more, half a step, one step back.                                 *)
LEMMA PathsApplied ==
    ASSUME NEW steps, Plan(steps), NEW was, NEW n \in Nat, n < Len(steps), NEW d, NEW e, NEW rest,
           PathsFollow(steps, was, n, d, rest), Effect(steps[n + 1], d, e)
    PROVE  PathsFollow(steps, was, n + 1, e, rest)
<1>. SUFFICES ASSUME NEW k \in 1..Len(steps), steps[k].do = "replace", steps[k].path \notin rest
              PROVE  e.at[steps[k].path] = IF k <= n + 1 THEN steps[k].value
                                           ELSE was.at[steps[k].path]
  BY DEF PathsFollow
<1>1. d.at[steps[k].path] = IF k <= n THEN steps[k].value ELSE was.at[steps[k].path]
  BY DEF PathsFollow
<1>2. Len(steps) \in Nat /\ n + 1 \in 1..Len(steps)
  BY DEF Plan
<1>3. CASE k = n + 1
  BY <1>2, <1>3 DEF Effect, Replaced
<1>4. CASE k # n + 1
  <2>1. k <= n + 1 <=> k <= n
    BY <1>4
  <2>2. steps[k].path \in Paths
    <3>1. StepOK(steps[k])
      BY DEF Plan
    <3>. QED
      BY <3>1 DEF StepOK
  <2>3. steps[n + 1].do = "replace" => steps[k].path # steps[n + 1].path
    BY <1>2, <1>4 DEF Plan
  <2>4. e.at[steps[k].path] = d.at[steps[k].path]
    BY <2>2, <2>3 DEF Effect, Replaced
  <2>. QED
    BY <1>1, <2>1, <2>4
<1>. QED
  BY <1>3, <1>4

LEMMA PathsUndone ==
    ASSUME NEW steps, Plan(steps), NEW was, NEW n \in 1..Len(steps), NEW d, NEW e, NEW rest,
           PathsFollow(steps, was, n, d, rest), Reverse(steps[n], d, e, was)
    PROVE  PathsFollow(steps, was, n - 1, e, rest)
<1>. SUFFICES ASSUME NEW k \in 1..Len(steps), steps[k].do = "replace", steps[k].path \notin rest
              PROVE  e.at[steps[k].path] = IF k <= n - 1 THEN steps[k].value
                                           ELSE was.at[steps[k].path]
  BY DEF PathsFollow
<1>1. d.at[steps[k].path] = IF k <= n THEN steps[k].value ELSE was.at[steps[k].path]
  BY DEF PathsFollow
<1>2. Len(steps) \in Nat
  BY DEF Plan
<1>3. CASE k = n
  <2>1. ~(k <= n - 1)
    BY <1>3
  <2>2. e.at[steps[k].path] = was.at[steps[k].path]
    BY <1>3 DEF Reverse, Replaced
  <2>. QED
    BY <2>1, <2>2
<1>4. CASE k # n
  <2>1. k <= n - 1 <=> k <= n
    BY <1>4
  <2>2. steps[k].path \in Paths
    <3>1. StepOK(steps[k])
      BY DEF Plan
    <3>. QED
      BY <3>1 DEF StepOK
  <2>3. steps[n].do = "replace" => steps[k].path # steps[n].path
    BY <1>4 DEF Plan
  <2>4. e.at[steps[k].path] = d.at[steps[k].path]
    BY <2>2, <2>3 DEF Reverse, Replaced
  <2>. QED
    BY <1>1, <2>1, <2>4
<1>. QED
  BY <1>3, <1>4

LEMMA BackedApplied ==
    ASSUME NEW steps, NEW was, NEW n \in Nat, NEW d, NEW e,
           Backed(steps, was, n, d), Effect(steps[n + 1], d, e)
    PROVE  Backed(steps, was, n + 1, e)
<1>. SUFFICES ASSUME NEW x \in was.releases, x \notin e.releases
              PROVE  \E k \in 1..(n + 1) : /\ steps[k].do = "quarantine" /\ steps[k].path = x
                                           /\ <<x, steps[k].value>> \in e.trash
  BY DEF Backed
<1>1. CASE x \in d.releases
  <2>1. steps[n + 1].do = "quarantine" /\ steps[n + 1].path = x
    BY <1>1 DEF Effect
  <2>2. <<x, steps[n + 1].value>> \in e.trash
    BY <1>1, <2>1 DEF Effect
  <2>. QED
    BY <2>1, <2>2
<1>2. CASE x \notin d.releases
  <2>1. PICK k \in 1..n : /\ steps[k].do = "quarantine" /\ steps[k].path = x
                          /\ <<x, steps[k].value>> \in d.trash
    BY <1>2 DEF Backed
  <2>2. d.trash \subseteq e.trash
    BY DEF Effect
  <2>. QED
    BY <2>1, <2>2
<1>. QED
  BY <1>1, <1>2

LEMMA BackedUndone ==
    ASSUME NEW steps, NEW was, NEW n \in Nat, n > 0, NEW d, NEW e,
           Backed(steps, was, n, d), Reverse(steps[n], d, e, was)
    PROVE  Backed(steps, was, n - 1, e)
<1>. SUFFICES ASSUME NEW x \in was.releases, x \notin e.releases
              PROVE  \E k \in 1..(n - 1) : /\ steps[k].do = "quarantine" /\ steps[k].path = x
                                           /\ <<x, steps[k].value>> \in e.trash
  BY DEF Backed
<1>1. x \notin d.releases
  BY DEF Reverse
<1>2. PICK k \in 1..n : /\ steps[k].do = "quarantine" /\ steps[k].path = x
                        /\ <<x, steps[k].value>> \in d.trash
  BY <1>1 DEF Backed
<1>3. CASE steps[n].do = "quarantine" /\ <<steps[n].path, steps[n].value>> = <<x, steps[k].value>>
  <2>1. steps[n].path = x /\ <<steps[n].path, steps[n].value>> \in d.trash
    BY <1>2, <1>3
  <2>2. x \in e.releases
    BY <1>3, <2>1 DEF Reverse
  <2>. QED
    BY <2>2
<1>4. CASE ~(steps[n].do = "quarantine" /\ <<steps[n].path, steps[n].value>> = <<x, steps[k].value>>)
  <2>1. <<x, steps[k].value>> \in e.trash
    BY <1>2, <1>4 DEF Reverse
  <2>2. k # n
    BY <1>2, <1>4
  <2>3. k \in 1..(n - 1)
    BY <2>2
  <2>. QED
    BY <1>2, <2>1, <2>3
<1>. QED
  BY <1>3, <1>4
LEMMA ProgressApplied ==
    ASSUME NEW kind, NEW steps, NEW was, Planned(kind, steps, was), NEW n \in Nat, n < Len(steps),
           NEW d, NEW e, Progress(kind, steps, was, n, d, {}), Effect(steps[n + 1], d, e)
    PROVE  Progress(kind, steps, was, n + 1, e, {})
<1>. DEFINE s == steps[n + 1]
<1>1. Len(steps) \in Nat /\ n + 1 \in 1..Len(steps)
  BY PlannedPaths
<1>2. PathsFollow(steps, was, n + 1, e, {})
  BY PathsApplied DEF Progress, Planned
<1>3. Backed(steps, was, n + 1, e)
  BY BackedApplied DEF Progress
<1>4. CASE kind = "install"
  <2>1. PICK v \in Versions : InstallPlan(steps, v)
    BY <1>4 DEF Planned
  <2>2. /\ Len(steps) = 10 /\ (s.do = "stage" <=> n + 1 = 1) /\ (s.do = "merge-hooks" <=> n + 1 = 7)
        /\ (s.do = "trust-hooks" <=> n + 1 = 8) /\ (s.do = "activate" <=> n + 1 = 10)
        /\ s.do # "quarantine" /\ s.do # "stop" /\ s.do # "unmerge-hooks" /\ s.do # "untrust-hooks"
    BY <1>1, <2>1, InstallStep
  <2>3. Staged(kind, steps, n + 1, e)
    <3>1. CASE n = 0
      BY <2>2, <3>1 DEF Effect, Staged
    <3>2. CASE n # 0
      BY <1>4, <2>2, <3>2 DEF Effect, Staged, Progress
    <3>. QED
      BY <3>1, <3>2
  <2>4. Running(kind, steps, was, n + 1, e)
    <3>1. CASE n = 9
      <4>1. e.service = StartedAs(d)
        BY <2>2, <3>1 DEF Effect
      <4>2. /\ 3 \in 1..Len(steps) /\ steps[3].do = "replace" /\ steps[3].path = "agent"
            /\ steps[3].value = Rendered /\ 4 \in 1..Len(steps) /\ steps[4].do = "replace"
            /\ steps[4].path = "current" /\ steps[4].value = v /\ steps[1].path = v
        BY <2>1, InstallPaths
      <4>3. d.at["agent"] = Rendered /\ d.at["current"] = v
        <5>1. PathsFollow(steps, was, 9, d, {})
          BY <3>1 DEF Progress
        <5>. QED
          BY <4>2, <5>1 DEF PathsFollow
      <4>4. e.service = steps[1].path
        BY <4>1, <4>2, <4>3, Distinct DEF StartedAs
      <4>. QED
        BY <1>4, <3>1, <4>4 DEF Running
    <3>2. CASE n # 9
      <4>1. e.service = d.service
        BY <2>2, <3>2 DEF Effect
      <4>2. n # 10 /\ n + 1 # 10
        BY <1>1, <2>2, <3>2
      <4>. QED
        BY <1>4, <4>1, <4>2 DEF Running, Progress
    <3>. QED
      BY <3>1, <3>2
  <2>5. ReceiptsFollow(kind, was, n + 1, e, {})
    <3>1. IF n = 6 THEN e.receipt # Absent ELSE e.receipt = d.receipt
      BY <2>2 DEF Effect
    <3>2. IF n = 7 THEN e.trusted # Absent ELSE e.trusted = d.trusted
      BY <2>2 DEF Effect
    <3>. QED
      BY <1>4, <3>1, <3>2 DEF ReceiptsFollow, Progress
  <2>. QED
    BY <1>2, <1>3, <2>3, <2>4, <2>5 DEF Progress
<1>5. CASE kind # "install"
  <2>1. UninstallPlan(steps)
    BY <1>5 DEF Planned
  <2>2. /\ (s.do = "stop" <=> n + 1 = 1) /\ (s.do = "untrust-hooks" <=> n + 1 = 2)
        /\ (s.do = "unmerge-hooks" <=> n + 1 = 3)
        /\ s.do # "stage" /\ s.do # "activate" /\ s.do # "merge-hooks" /\ s.do # "trust-hooks"
    BY <1>1, <2>1, UninstallStep
  <2>3. Staged(kind, steps, n + 1, e)
    BY <1>5 DEF Staged
  <2>4. Running(kind, steps, was, n + 1, e)
    BY <1>5, <2>2 DEF Effect, Running, Progress
  <2>5. ReceiptsFollow(kind, was, n + 1, e, {})
    <3>1. e.receipt = IF n = 2 THEN Absent ELSE d.receipt
      BY <2>2 DEF Effect
    <3>2. e.trusted = IF n = 1 THEN Absent ELSE d.trusted
      BY <2>2 DEF Effect
    <3>. QED
      BY <1>5, <3>1, <3>2 DEF ReceiptsFollow, Progress
  <2>. QED
    BY <1>2, <1>3, <2>3, <2>4, <2>5 DEF Progress
<1>. QED
  BY <1>4, <1>5

LEMMA ProgressUndone ==
    ASSUME NEW kind, NEW steps, NEW was, Planned(kind, steps, was), NEW n \in 1..Len(steps),
           NEW d, NEW e, NEW rest, "current" \notin rest,
           Progress(kind, steps, was, n, d, rest), Reverse(steps[n], d, e, was)
    PROVE  Progress(kind, steps, was, n - 1, e, rest)
<1>. DEFINE s == steps[n]
<1>1. Len(steps) \in Nat /\ Len(steps) >= 9 /\ 8 \in 1..Len(steps)
  BY PlannedPaths
<1>2. PathsFollow(steps, was, n - 1, e, rest)
  BY PathsUndone DEF Progress, Planned
<1>3. Backed(steps, was, n - 1, e)
  BY BackedUndone DEF Progress
<1>4. CASE kind = "install"
  <2>1. PICK v \in Versions : InstallPlan(steps, v)
    BY <1>4 DEF Planned
  <2>2. /\ Len(steps) = 10 /\ (s.do = "stage" <=> n = 1) /\ (s.do = "merge-hooks" <=> n = 7)
        /\ (s.do = "trust-hooks" <=> n = 8) /\ (s.do = "activate" <=> n = 10)
        /\ s.do # "quarantine" /\ s.do # "stop" /\ s.do # "unmerge-hooks" /\ s.do # "untrust-hooks"
    BY <2>1, InstallStep
  <2>3. Staged(kind, steps, n - 1, e)
    BY <1>4, <2>2 DEF Reverse, Staged, Progress
  <2>4. Running(kind, steps, was, n - 1, e)
    <3>1. n - 1 # 10 /\ e.service \in {d.service, Absent} /\ (n = 10 => e.service = Absent)
      BY <1>1, <2>2 DEF Reverse
    <3>. QED
      BY <1>4, <3>1 DEF Running, Progress
  <2>5. ReceiptsFollow(kind, was, n - 1, e, rest)
    <3>1. e.receipt = IF n = 7 /\ was.receipt = Absent THEN Absent ELSE d.receipt
      BY <2>2 DEF Reverse
    <3>2. e.trusted = IF n = 8 /\ was.trusted = Absent THEN Absent ELSE d.trusted
      BY <2>2 DEF Reverse
    <3>. QED
      BY <1>4, <3>1, <3>2 DEF ReceiptsFollow, Progress
  <2>. QED
    BY <1>2, <1>3, <2>3, <2>4, <2>5 DEF Progress
<1>5. CASE kind # "install"
  <2>1. UninstallPlan(steps)
    BY <1>5 DEF Planned
  <2>2. /\ (s.do = "stop" <=> n = 1) /\ (s.do = "untrust-hooks" <=> n = 2)
        /\ (s.do = "unmerge-hooks" <=> n = 3)
        /\ s.do # "stage" /\ s.do # "activate" /\ s.do # "merge-hooks" /\ s.do # "trust-hooks"
    BY <2>1, UninstallStep
  <2>3. Staged(kind, steps, n - 1, e)
    BY <1>5 DEF Staged
  <2>4. Running(kind, steps, was, n - 1, e)
    <3>1. d.service = Absent
      BY <1>5 DEF Running, Progress
    <3>2. CASE n = 1
      <4>1. /\ 8 \in 1..Len(steps) /\ steps[8].do = "replace" /\ steps[8].path = "current"
        BY <2>1, UninstallPaths
      <4>2. d.at["current"] = was.at["current"]
        <5>1. PathsFollow(steps, was, 1, d, rest)
          BY <3>2 DEF Progress
        <5>. QED
          BY <4>1, <5>1 DEF PathsFollow
      <4>3. e.service \in {Absent, StartedAs(d)}
        BY <2>2, <3>1, <3>2 DEF Reverse
      <4>4. e.service \in {Absent, was.at["current"]}
        BY <4>2, <4>3 DEF StartedAs
      <4>. QED
        BY <1>5, <3>2, <4>4 DEF Running
    <3>3. CASE n # 1
      <4>1. e.service = Absent
        BY <2>2, <3>1, <3>3 DEF Reverse
      <4>. QED
        BY <1>5, <3>3, <4>1 DEF Running
    <3>. QED
      BY <3>2, <3>3
  <2>5. ReceiptsFollow(kind, was, n - 1, e, rest)
    <3>1. IF n = 3 /\ was.receipt # Absent THEN e.receipt # Absent ELSE e.receipt = d.receipt
      BY <2>2 DEF Reverse
    <3>2. IF n = 2 /\ was.trusted # Absent THEN e.trusted # Absent ELSE e.trusted = d.trusted
      BY <2>2 DEF Reverse
    <3>. QED
      BY <1>5, <3>1, <3>2 DEF ReceiptsFollow, Progress
  <2>. QED
    BY <1>2, <1>3, <2>3, <2>4, <2>5 DEF Progress
<1>. QED
  BY <1>4, <1>5
LEMMA ProgressSame ==
    ASSUME NEW kind, NEW steps, NEW was, NEW n, NEW d, NEW e, NEW rest,
           e.at = d.at, e.releases = d.releases, e.trash = d.trash, e.receipt = d.receipt,
           e.trusted = d.trusted, e.service = d.service, Progress(kind, steps, was, n, d, rest)
    PROVE  Progress(kind, steps, was, n, e, rest)
BY DEF Progress, PathsFollow, Backed, Staged, Running, ReceiptsFollow

LEMMA ProgressRest ==
    ASSUME NEW kind, NEW steps, NEW was, NEW n, NEW d, NEW r, NEW rest, r \subseteq rest,
           Progress(kind, steps, was, n, d, r)
    PROVE  Progress(kind, steps, was, n, d, rest)
BY DEF Progress, PathsFollow, ReceiptsFollow

(* Part of a step that threw: what it changed is excepted, and the service    *)
(* was not started half way.                                                 *)
LEMMA ProgressHalf ==
    ASSUME NEW kind, NEW steps, NEW was, Planned(kind, steps, was), NEW n \in Nat, n < Len(steps),
           NEW d, NEW e, NEW v, NEW s, Progress(kind, steps, was, n, d, {}), HalfEffect(s, d, v, e),
           e.service \in {d.service, Absent}, NEW rest, Changed(d, e) \subseteq rest
    PROVE  Progress(kind, steps, was, n, e, rest)
<1>1. PathsFollow(steps, was, n, e, rest)
  <2>1. ASSUME NEW k \in 1..Len(steps), steps[k].do = "replace", steps[k].path \notin rest
        PROVE  e.at[steps[k].path] = d.at[steps[k].path]
    <3>1. StepOK(steps[k])
      BY DEF Planned, Plan
    <3>2. steps[k].path \in Paths /\ steps[k].path \notin Changed(d, e)
      BY <2>1, <3>1 DEF StepOK
    <3>. QED
      BY <3>2 DEF Changed
  <2>. QED
    BY <2>1 DEF Progress, PathsFollow
<1>2. Backed(steps, was, n, e) /\ Staged(kind, steps, n, e)
  BY DEF HalfEffect, Progress, Backed, Staged
<1>3. Running(kind, steps, was, n, e)
  <2>1. kind = "install" => Len(steps) = 10
    BY PlannedPaths
  <2>2. Running(kind, steps, was, n, d) /\ e.service \in {d.service, Absent}
    BY DEF Progress
  <2>3. CASE kind = "install"
    <3>1. n \in Nat /\ n < 10
      BY <2>1, <2>3
    <3>2. n # 10
      BY ONLY <3>1
    <3>. QED
      BY <2>2, <2>3, <3>2 DEF Running
  <2>4. CASE kind # "install"
    BY <2>2, <2>4 DEF Running
  <2>. QED
    BY <2>3, <2>4
<1>4. ReceiptsFollow(kind, was, n, e, rest)
  <2>1. /\ e.receipt = d.receipt \/ "receipt" \in rest
        /\ e.trusted = d.trusted \/ "trusted" \in rest
    BY DEF Changed
  <2>2. (d.receipt # Absent => e.receipt # Absent) /\ (d.trusted # Absent => e.trusted # Absent)
    BY DEF HalfEffect
  <2>. QED
    BY <2>1, <2>2 DEF Progress, ReceiptsFollow
<1>. QED
  BY <1>1, <1>2, <1>3, <1>4 DEF Progress

(* At no point of a command does anything dangle.                             *)
LEMMA ProgressPresent ==
    ASSUME NEW kind, NEW steps, NEW was, Planned(kind, steps, was), Present(was), NEW n \in Nat,
           n <= Len(steps), NEW d, NEW rest, "current" \notin rest,
           Progress(kind, steps, was, n, d, rest)
    PROVE  Present(d)
<1>1. Len(steps) \in Nat /\ Len(steps) >= 9
  BY PlannedPaths
<1>2. CASE kind = "install"
  <2>1. PICK v \in Versions : InstallPlan(steps, v)
    BY <1>2 DEF Planned
  <2>2. /\ Len(steps) = 10 /\ 4 \in 1..Len(steps) /\ steps[4].do = "replace"
        /\ steps[4].path = "current" /\ steps[4].value = v /\ steps[1].path = v
    BY <2>1, InstallPaths
  <2>3. was.releases \subseteq d.releases
    <3>1. ASSUME NEW k \in 1..n PROVE steps[k].do # "quarantine"
      <4>1. k \in 1..Len(steps)
        BY <2>2
      <4>. QED
        BY <2>1, <4>1, InstallStep
    <3>. QED
      BY <3>1 DEF Backed, Progress
  <2>4. d.at["current"] = IF 4 <= n THEN v ELSE was.at["current"]
    BY <2>2 DEF Progress, PathsFollow
  <2>5. n >= 1 => v \in d.releases
    BY <1>2, <2>2 DEF Progress, Staged
  <2>6. d.service \in {was.service, Absent} \/ (n = 10 /\ d.service = v)
    BY <1>2, <2>2 DEF Progress, Running
  <2>. QED
    BY <2>3, <2>4, <2>5, <2>6 DEF Present
<1>3. CASE kind # "install"
  <2>1. UninstallPlan(steps)
    BY <1>3 DEF Planned
  <2>2. /\ 8 \in 1..Len(steps) /\ steps[8].do = "replace"
        /\ steps[8].path = "current" /\ steps[8].value = Absent
    BY <2>1, UninstallPaths
  <2>3. d.at["current"] = IF 8 <= n THEN Absent ELSE was.at["current"]
    BY <2>2 DEF Progress, PathsFollow
  <2>4. n < 8 => was.releases \subseteq d.releases
    <3>1. ASSUME n < 8, NEW k \in 1..n PROVE steps[k].do # "quarantine"
      <4>1. k \in 1..Len(steps) /\ k \notin 9..(Len(steps) - 1)
        BY <1>1, <3>1
      <4>. QED
        BY <2>1, <4>1, UninstallStep
    <3>. QED
      BY <3>1 DEF Backed, Progress
  <2>5. d.service \in IF n = 0 THEN {was.service, was.at["current"], Absent} ELSE {Absent}
    BY <1>3 DEF Progress, Running
  <2>. QED
    BY <2>3, <2>4, <2>5 DEF Present
<1>. QED
  BY <1>2, <1>3

(* All steps done: one whole installation, or none.                           *)
LEMMA ProgressDone ==
    ASSUME NEW kind, NEW steps, NEW was, Planned(kind, steps, was),
           NEW d, Progress(kind, steps, was, Len(steps), d, {})
    PROVE  Complete(d, {})
<1>1. Len(steps) \in Nat /\ Len(steps) >= 9
  BY PlannedPaths
<1>2. \A k \in 1..Len(steps) : steps[k].do = "replace" => d.at[steps[k].path] = steps[k].value
  BY <1>1 DEF Progress, PathsFollow
<1>3. \A p \in Paths : \E k \in 1..Len(steps) : steps[k].do = "replace" /\ steps[k].path = p
  BY DEF Planned, Plan
<1>4. CASE kind = "install"
  <2>1. PICK v \in Versions : InstallPlan(steps, v)
    BY <1>4 DEF Planned
  <2>2. /\ Len(steps) = 10 /\ steps[1].path = v
        /\ 4 \in 1..Len(steps) /\ steps[4].do = "replace" /\ steps[4].path = "current"
        /\ steps[4].value = v /\ 9 \in 1..Len(steps) /\ steps[9].do = "replace"
        /\ steps[9].path = "manifest" /\ steps[9].value \in Manifests /\ steps[9].value.version = v
    BY <2>1, InstallPaths
  <2>3. d.at["current"] = v /\ d.at["manifest"] \in Manifests /\ d.at["manifest"].version = v
    BY <1>2, <2>2
  <2>4. ASSUME NEW f \in Files PROVE d.at[f] = Rendered
    <3>1. PICK k \in 1..Len(steps) : steps[k].do = "replace" /\ steps[k].path = f
      BY <1>3 DEF Paths
    <3>2. steps[k].value = Rendered
      BY <2>1, <3>1, InstallStep
    <3>. QED
      BY <1>2, <3>1, <3>2
  <2>5. v \in d.releases /\ d.service = v
    BY <1>4, <2>2 DEF Progress, Staged, Running
  <2>6. d.receipt # Absent /\ d.trusted # Absent
    BY <1>4, <2>2 DEF Progress, ReceiptsFollow
  <2>7. v \in Versions \cup {Absent} /\ v # Absent /\ v = Owned(d)
    BY <2>3, Distinct DEF Owned
  <2>8. Whole(d, v, {})
    BY <2>3, <2>4, <2>5, <2>6 DEF Whole
  <2>. QED
    BY <2>7, <2>8 DEF Complete
<1>5. CASE kind # "install"
  <2>1. UninstallPlan(steps)
    BY <1>5 DEF Planned
  <2>2. ASSUME NEW p \in Paths PROVE d.at[p] = Absent
    <3>1. PICK k \in 1..Len(steps) : steps[k].do = "replace" /\ steps[k].path = p
      BY <1>3
    <3>2. steps[k].value = Absent
      BY <2>1, <3>1, UninstallStep
    <3>. QED
      BY <1>2, <3>1, <3>2
  <2>3. d.receipt = Absent /\ d.trusted = Absent
    BY <1>1, <1>5 DEF Progress, ReceiptsFollow
  <2>4. d.service = Absent
    BY <1>1, <1>5 DEF Progress, Running
  <2>5. "manifest" \in Paths
    BY DEF Paths
  <2>6. Owned(d) = Absent
    BY <2>2, <2>5 DEF Owned
  <2>7. Nothing(d, {})
    BY <2>2, <2>3, <2>4 DEF Nothing
  <2>. QED
    BY <2>6, <2>7 DEF Complete
<1>. QED
  BY <1>4, <1>5

(* All steps undone: what was complete is again.                              *)
LEMMA ProgressBack ==
    ASSUME NEW kind, NEW steps, NEW was, Planned(kind, steps, was), NEW rest, "current" \notin rest,
           Complete(was, rest), NEW d, Progress(kind, steps, was, 0, d, rest)
    PROVE  Complete(d, rest)
<1>1. ASSUME NEW p \in Paths, p \notin rest PROVE d.at[p] = was.at[p]
  <2>1. PICK k \in 1..Len(steps) : steps[k].do = "replace" /\ steps[k].path = p
    BY DEF Planned, Plan
  <2>2. ~(k <= 0)
    OBVIOUS
  <2>. QED
    BY <1>1, <2>1, <2>2 DEF Progress, PathsFollow
<1>2. "manifest" \in Paths /\ "current" \in Paths /\ Files \subseteq Paths
  BY DEF Paths
<1>3. was.releases \subseteq d.releases
  BY DEF Progress, Backed
<1>4. "manifest" \in rest \/ Owned(d) = Owned(was)
  BY <1>1, <1>2 DEF Owned
<1>5. d.service \in {was.service, was.at["current"], Absent}
  BY DEF Progress, Running
<1>6. PICK v \in Versions \cup {Absent} :
         /\ "manifest" \in rest \/ v = Owned(was)
         /\ IF v = Absent THEN Nothing(was, rest) ELSE Whole(was, v, rest)
  BY DEF Complete
<1>7. CASE v = Absent
  <2>1. Nothing(was, rest)
    BY <1>6, <1>7
  <2>2. \A p \in Paths \ rest : d.at[p] = Absent
    BY <1>1, <2>1 DEF Nothing
  <2>3. d.service = Absent
    BY <1>2, <1>5, <2>1 DEF Nothing
  <2>4. ("receipt" \in rest \/ d.receipt = Absent) /\ ("trusted" \in rest \/ d.trusted = Absent)
    <3>1. "receipt" \in rest \/ was.receipt = Absent
      BY <2>1 DEF Nothing
    <3>2. "trusted" \in rest \/ was.trusted = Absent
      BY <2>1 DEF Nothing
    <3>3. CASE kind = "install"
      BY <3>1, <3>2, <3>3 DEF Progress, ReceiptsFollow
    <3>4. CASE kind # "install"
      BY <3>1, <3>2, <3>4 DEF Progress, ReceiptsFollow
    <3>. QED
      BY <3>3, <3>4
  <2>5. Nothing(d, rest)
    BY <2>2, <2>3, <2>4 DEF Nothing
  <2>. QED
    BY <1>4, <1>6, <1>7, <2>5 DEF Complete
<1>8. CASE v # Absent
  <2>1. Whole(was, v, rest)
    BY <1>6, <1>8
  <2>2. d.receipt # Absent /\ d.trusted # Absent
    BY <2>1 DEF Whole, Progress, ReceiptsFollow
  <2>3. Whole(d, v, rest)
    BY <1>1, <1>2, <1>3, <1>5, <2>1, <2>2 DEF Whole
  <2>. QED
    BY <1>4, <1>6, <1>8, <2>3 DEF Complete
<1>. QED
  BY <1>7, <1>8

(* What is complete is so with more excepted, and nothing dangles in it.      *)
LEMMA CompleteRest ==
    ASSUME NEW d, NEW r, NEW rest, r \subseteq rest, Complete(d, r)
    PROVE  Complete(d, rest)
BY DEF Complete, Whole, Nothing

LEMMA CompletePresent ==
    ASSUME NEW d, Complete(d, {})
    PROVE  Present(d)
<1>1. "current" \in Paths
  BY DEF Paths
<1>. QED
  BY <1>1 DEF Complete, Whole, Nothing, Present

(* Starting what is selected keeps that.                                      *)
LEMMA StartedPresent ==
    ASSUME NEW d, DiskOK(d), Present(d)
    PROVE  Present(Started(d))
<1>. DEFINE e == Started(d)
<1>1. Untouched(d, e) /\ e.service \in {d.service, d.at["current"]}
  BY StartedOK
<1>. HIDE DEF e
<1>2. Present(e)
  BY <1>1 DEF Present, Untouched
<1>. QED
  BY <1>2 DEF e

LEMMA StartedComplete ==
    ASSUME NEW d, DiskOK(d), NEW rest, "current" \notin rest, Complete(d, rest)
    PROVE  Complete(Started(d), rest)
<1>. DEFINE e == Started(d)
<1>1. /\ Untouched(d, e) /\ e.receipt = d.receipt /\ e.trusted = d.trusted
      /\ e.service \in {d.service, d.at["current"]}
  BY StartedOK
<1>. HIDE DEF e
<1>2. "current" \in Paths /\ Owned(e) = Owned(d)
  BY <1>1 DEF Paths, Owned, Untouched
<1>3. ASSUME Nothing(d, rest) PROVE Nothing(e, rest)
  BY <1>1, <1>2, <1>3 DEF Nothing, Untouched
<1>4. ASSUME NEW v, Whole(d, v, rest) PROVE Whole(e, v, rest)
  BY <1>1, <1>4 DEF Whole, Untouched
<1>5. Complete(e, rest)
  BY <1>2, <1>3, <1>4 DEF Complete
<1>. QED
  BY <1>5 DEF e
-----------------------------------------------------------------------------
(* The inductive invariant: initially, and after each action.                 *)
LEMMA DInitInv == DInit => DInv
<1>. SUFFICES ASSUME DInit PROVE DInv
  OBVIOUS
<1>1. /\ disk = [at |-> [p \in Paths |-> Absent], releases |-> {}, trash |-> {},
                 hooks |-> [user |-> {}, ours |-> "NO"], receipt |-> Absent,
                 trust |-> "BEFORE", trusted |-> Absent, service |-> Absent]
      /\ command.phase = "idle" /\ edits = 0 /\ left = {} /\ died = FALSE /\ unrestored = FALSE
  BY DEF DInit, NoCommand
<1>2. /\ disk.at = [p \in Paths |-> Absent] /\ disk.releases = {} /\ disk.receipt = Absent
      /\ disk.trusted = Absent /\ disk.service = Absent /\ disk.hooks.user = {}
  BY <1>1
<1>3. disk \in Disk
  <2>1. [user |-> {}, ours |-> "NO"] \in Hooks /\ Absent \in Trusted
    BY DEF Hooks, Trusted
  <2>2. [p \in Paths |-> Absent] \in [Paths -> {Absent} \cup Manifests \cup Versions \cup {Rendered}]
    OBVIOUS
  <2>. QED
    BY <1>1, <2>1, <2>2 DEF Disk
<1>4. \A p \in Paths : disk.at[p] = Absent
  BY <1>2
<1>5. "manifest" \in Paths /\ "current" \in Paths
  BY DEF Paths
<1>6. DiskOK(disk)
  BY <1>3, <1>4, <1>5 DEF DiskOK
<1>7. Sound(disk)
  <2>1. Owned(disk) = Absent /\ Nothing(disk, left)
    BY <1>1, <1>2, <1>4, <1>5 DEF Owned, Nothing
  <2>. QED
    BY <1>2, <1>4, <1>5, <2>1 DEF Sound, Present, Complete
<1>8. EditsOK
  BY <1>1, <1>2 DEF EditsOK, Kept, Reading
<1>. QED
  BY <1>1, <1>6, <1>7, <1>8 DEF DInv, TypesOK, PlanOK

LEMMA ManifestOK ==
    ASSUME DiskOK(disk), NEW v \in Versions
    PROVE  Manifest(v) \in Manifests /\ Manifest(v).version = v
<1>. DEFINE m == disk.at["manifest"]
<1>1. <<v>> \in Seq(Versions)
  OBVIOUS
<1>2. CASE m = Absent
  <2>1. Manifest(v) = [version |-> v, previous |-> Absent, owned |-> <<v>>]
    BY <1>2 DEF Manifest
  <2>. QED
    BY <1>1, <2>1 DEF Manifests
<1>3. CASE m # Absent
  <2>1. m \in Manifests
    BY <1>3, DiskTyped
  <2>2. m.version \in Versions /\ m.previous \in Versions \cup {Absent}
    BY <2>1 DEF Manifests
  <2>. HIDE DEF m
  <2>3. /\ (IF m.version = v THEN <<>> ELSE <<m.version>>) \in Seq(Versions)
        /\ (IF m.previous \in {v, m.version, Absent} THEN <<>> ELSE <<m.previous>>) \in Seq(Versions)
    BY <2>2
  <2>4. Retained(v, m) \in Seq(Versions)
    BY <2>3, ConcatProperties DEF Retained
  <2>5. <<v>> \o Retained(v, m) \in Seq(Versions)
    BY <1>1, <2>4, ConcatProperties
  <2>6. Manifest(v) = [version |-> v, previous |-> m.version, owned |-> <<v>> \o Retained(v, m)]
    BY <1>3 DEF Manifest, m
  <2>. QED
    BY <2>2, <2>5, <2>6 DEF Manifests
<1>. QED
  BY <1>2, <1>3

LEMMA BeginInv ==
    ASSUME DInv, NEW kind, NEW steps, Begin(kind, steps), Planned(kind, steps, disk)
    PROVE  DInv'
<1>1. /\ command.phase = "idle" /\ disk' = disk /\ edits' = edits /\ raced' = raced /\ left' = left
      /\ died' = died /\ unrestored' = unrestored
      /\ command' = [phase |-> "apply", kind |-> kind, steps |-> steps, at |-> 1, was |-> disk,
                     seen |-> Absent]
  BY DEF Begin, Begun
<1>2. /\ command'.phase = "apply" /\ command'.kind = kind /\ command'.steps = steps
      /\ command'.at = 1 /\ command'.was = disk /\ command'.seen = Absent
      /\ DOMAIN command' = Fields
  BY <1>1 DEF Fields
<1>3. Len(steps) \in Nat
  BY PlannedPaths
<1>4. TypesOK' /\ EditsOK'
  BY <1>1, <1>2 DEF DInv, TypesOK, EditsOK, Kept, Reading, DiskOK
<1>5. Done' = 0 /\ Rest' = {}
  BY <1>2 DEF Done, Rest
<1>6. PlanOK'
  <2>1. Planned(command'.kind, command'.steps, command'.was)
    BY <1>2
  <2>. QED
    BY <1>2, <1>3, <1>5, <2>1 DEF PlanOK
<1>7. Progress(kind, steps, disk, 0, disk, {})
  BY DEF Progress, PathsFollow, Backed, Staged, Running, ReceiptsFollow, Planned
<1>8. Sound(command.was)'
  BY <1>1, <1>2 DEF DInv, Sound
<1>9. Progress(command.kind, command.steps, command.was, Done, disk, Rest)'
  BY <1>1, <1>2, <1>5, <1>7
<1>. QED
  BY <1>2, <1>4, <1>6, <1>8, <1>9 DEF DInv

LEMMA InstallInv ==
    ASSUME DInv, NEW v \in Versions, Install(v)
    PROVE  DInv'
<1>1. DiskOK(disk)
  BY DEF DInv, TypesOK
<1>2. PICK m \in Manifests : m = Manifest(v) /\ m.version = v
  BY <1>1, ManifestOK
<1>3. Begin("install", InstallSteps(v, m))
  BY <1>2 DEF Install
<1>4. disk.at["manifest"] = Absent => disk.receipt = Absent /\ disk.trusted = Absent
  BY DEF Install, NothingUnowned
<1>5. Plan(InstallSteps(v, m)) /\ InstallPlan(InstallSteps(v, m), v)
  BY <1>2, InstallPlanned
<1>6. Planned("install", InstallSteps(v, m), disk)
  BY <1>1, <1>4, <1>5 DEF Planned
<1>. QED
  BY <1>3, <1>6, BeginInv

LEMMA UninstallInv ==
    ASSUME DInv, Uninstall
    PROVE  DInv'
<1>1. DiskOK(disk) /\ disk.at["manifest"] # Absent
  BY DEF DInv, TypesOK, Uninstall
<1>2. PICK m \in Manifests : m = disk.at["manifest"]
  BY <1>1, DiskTyped
<1>3. Begin("uninstall", UninstallSteps(m))
  BY <1>2 DEF Uninstall
<1>4. Plan(UninstallSteps(m)) /\ UninstallPlan(UninstallSteps(m))
  BY UninstallPlanned
<1>5. Planned("uninstall", UninstallSteps(m), disk)
  BY <1>1, <1>4 DEF Planned
<1>. QED
  BY <1>3, <1>5, BeginInv

(* The command moves to another step, or turns back.                          *)
LEMMA CommandMoved ==
    ASSUME NEW c, DOMAIN c = Fields, NEW phase, NEW at
    PROVE  /\ LET e == [c EXCEPT !.phase = phase, !.at = at, !.seen = Absent] IN
              /\ DOMAIN e = Fields /\ e.phase = phase /\ e.at = at /\ e.seen = Absent
              /\ e.kind = c.kind /\ e.steps = c.steps /\ e.was = c.was
           /\ LET e == [c EXCEPT !.at = at, !.seen = Absent] IN
              /\ DOMAIN e = Fields /\ e.phase = c.phase /\ e.at = at /\ e.seen = Absent
              /\ e.kind = c.kind /\ e.steps = c.steps /\ e.was = c.was
BY DEF Fields

(* What such a move has to show.                                              *)
LEMMA MoveInv ==
    ASSUME DInv, command.phase # "idle", UNCHANGED <<edits, raced, died>>,
           DOMAIN command' = Fields, command'.phase \in {"apply", "undo"}, command'.seen = Absent,
           command'.kind = command.kind, command'.steps = command.steps, command'.was = command.was,
           command'.at \in Int, Done' \in 0..Len(command.steps),
           DiskOK(disk'), Kept \subseteq disk'.hooks.user, left \subseteq left', left' \subseteq Leavings,
           unrestored' \in BOOLEAN, ~unrestored' => ~unrestored,
           command'.phase = "apply" \/ ~unrestored' =>
               Progress(command.kind, command.steps, command.was, Done', disk', Rest')
    PROVE  DInv'
<1>1. TypesOK'
  BY DEF DInv, TypesOK, DiskOK
<1>2. EditsOK'
  BY DEF DInv, EditsOK, Kept, Reading
<1>3. Planned(command.kind, command.steps, command.was)
  BY DEF DInv, PlanOK
<1>4. PlanOK'
  <2>1. Planned(command'.kind, command'.steps, command'.was)
    BY <1>3
  <2>. QED
    BY <2>1 DEF PlanOK
<1>5. Sound(command.was)'
  <2>1. Sound(command.was)
    BY DEF DInv
  <2>2. ~unrestored' => Present(command.was)
    BY <2>1 DEF Sound
  <2>3. ~died /\ ~unrestored' => Complete(command.was, left')
    BY <2>1, CompleteRest DEF Sound
  <2>. QED
    BY <2>2, <2>3 DEF Sound
<1>6. command'.phase # "idle"
  OBVIOUS
<1>. QED
  BY <1>1, <1>2, <1>4, <1>5, <1>6 DEF DInv

(* What a command's end, or death, has to show.                               *)
LEMMA EndInv ==
    ASSUME DInv, command.phase # "idle", command' = NoCommand, UNCHANGED <<edits, raced>>,
           left' \subseteq Leavings, died' \in BOOLEAN, unrestored' \in BOOLEAN,
           DiskOK(disk'), Kept \subseteq disk'.hooks.user,
           ~unrestored' => Present(disk'), ~died' /\ ~unrestored' => Complete(disk', left')
    PROVE  DInv'
<1>1. TypesOK'
  BY DEF DInv, TypesOK, DiskOK
<1>2. command'.phase = "idle"
  BY DEF NoCommand
<1>3. EditsOK'
  BY <1>2 DEF EditsOK, Kept, Reading
<1>4. PlanOK'
  BY <1>2 DEF PlanOK
<1>5. Sound(disk)'
  BY DEF Sound
<1>. QED
  BY <1>1, <1>2, <1>3, <1>4, <1>5 DEF DInv

(* What DInv says while a command runs.                                       *)
LEMMA WhileRunning ==
    ASSUME DInv, command.phase # "idle"
    PROVE  /\ DOMAIN command = Fields /\ command.phase \in {"apply", "undo"}
           /\ command.at \in Int /\ Done \in Nat /\ Done <= Len(command.steps)
           /\ Len(command.steps) \in Nat
           /\ Planned(command.kind, command.steps, command.was)
           /\ DiskOK(disk) /\ DiskOK(command.was)
           /\ \A k \in 1..Len(command.steps) : StepOK(command.steps[k])
           /\ "current" \notin Rest /\ "current" \notin left
           /\ command.phase = "apply" \/ ~unrestored =>
                Progress(command.kind, command.steps, command.was, Done, disk, Rest)
           /\ ~unrestored => Present(disk)
<1>1. /\ DOMAIN command = Fields /\ command.phase \in {"apply", "undo"}
      /\ command.at \in Int /\ Done \in 0..Len(command.steps)
      /\ Planned(command.kind, command.steps, command.was)
  BY DEF DInv, PlanOK
<1>2. /\ Len(command.steps) \in Nat /\ DiskOK(command.was)
      /\ \A k \in 1..Len(command.steps) : StepOK(command.steps[k])
  BY <1>1 DEF Planned, Plan
<1>3. "current" \notin Rest /\ "current" \notin left
  BY DEF DInv, TypesOK, Leavings, Rest
<1>4. Done \in Nat /\ Done <= Len(command.steps)
  BY <1>1, <1>2
<1>5. command.phase = "apply" \/ ~unrestored =>
        Progress(command.kind, command.steps, command.was, Done, disk, Rest)
  BY DEF DInv
<1>6. ~unrestored => Present(disk)
  <2>. SUFFICES ASSUME ~unrestored PROVE Present(disk)
    OBVIOUS
  <2>1. Present(command.was)
    BY DEF DInv, Sound
  <2>. QED
    BY <1>1, <1>3, <1>4, <1>5, <2>1, ProgressPresent
<1>. QED
  BY <1>1, <1>2, <1>3, <1>4, <1>5, <1>6 DEF DInv, TypesOK

(* What an installer acts upon is the machine, with an older hooks.json that  *)
(* has every edit that nothing may take back.                                *)
LEMMA ViewOK ==
    ASSUME DInv
    PROVE  DiskOK(View) /\ SameButHooks(disk, View) /\ Kept \subseteq View.hooks.user
<1>1. DiskOK(disk) /\ EditsOK
  BY DEF DInv, TypesOK
<1>2. CASE ~Reading
  BY <1>1, <1>2 DEF View, SameButHooks, EditsOK
<1>3. CASE Reading
  <2>1. command.seen \in Hooks /\ Kept \subseteq command.seen.user
    BY <1>1, <1>3 DEF DInv, PlanOK, EditsOK, Reading
  <2>2. View = [disk EXCEPT !.hooks = command.seen]
    BY <1>3 DEF View
  <2>. QED
    BY <1>1, <2>1, <2>2 DEF DiskOK, Disk, SameButHooks
<1>. QED
  BY <1>2, <1>3

(* The step at hand is the one after those done.                              *)
LEMMA CurrentStep ==
    ASSUME DInv, Applying
    PROVE  /\ command.phase # "idle" /\ command.phase = "apply" /\ Done < Len(command.steps)
           /\ command.at = Done + 1 /\ Current = command.steps[Done + 1] /\ StepOK(Current)
           /\ Writable(Current)
           /\ Progress(command.kind, command.steps, command.was, Done, disk, {})
<1>1. command.phase = "apply" /\ command.at <= Len(command.steps)
  BY DEF Applying
<1>2. Done = command.at - 1 /\ Rest = {}
  BY <1>1 DEF Done, Rest
<1>3. /\ command.at \in Int /\ Done \in Nat /\ Len(command.steps) \in Nat
      /\ \A k \in 1..Len(command.steps) : StepOK(command.steps[k])
      /\ Progress(command.kind, command.steps, command.was, Done, disk, Rest)
  BY <1>1, WhileRunning
<1>4. command.at = Done + 1 /\ command.at \in 1..Len(command.steps)
  BY <1>1, <1>2, <1>3
<1>5. StepOK(Current)
  BY <1>3, <1>4 DEF Current
<1>6. Writable(Current)
  BY <1>5 DEF StepOK, Writable, Paths
<1>. QED
  BY <1>1, <1>2, <1>3, <1>4, <1>5, <1>6 DEF Current

LEMMA ReadInv == DInv /\ ReadHooks => DInv'
<1>. SUFFICES ASSUME DInv, ReadHooks PROVE DInv'
  OBVIOUS
<1>1. command.phase # "idle"
  BY DEF ReadHooks, Rewrites, Merging, Unmerging, Applying, Undoing
<1>2. /\ UNCHANGED <<disk, edits, raced, left, died, unrestored>>
      /\ command' = [command EXCEPT !.seen = disk.hooks]
  BY DEF ReadHooks, counters
<1>3. DOMAIN command = Fields
  BY <1>1, WhileRunning
<1>4. /\ DOMAIN command' = Fields /\ command'.phase = command.phase /\ command'.at = command.at
      /\ command'.kind = command.kind /\ command'.steps = command.steps
      /\ command'.was = command.was /\ command'.seen = disk.hooks
  BY <1>2, <1>3 DEF Fields
<1>5. Done' = Done /\ Rest' = Rest
  BY <1>2, <1>4 DEF Done, Rest
<1>6. TypesOK'
  BY <1>2 DEF DInv, TypesOK, DiskOK
<1>7. EditsOK'
  BY <1>2, <1>4 DEF DInv, EditsOK, Kept
<1>8. PlanOK'
  <2>1. disk.hooks \in Hooks
    BY DiskTyped DEF DInv, TypesOK
  <2>2. Planned(command'.kind, command'.steps, command'.was)
    BY <1>1, <1>4 DEF DInv, PlanOK
  <2>. QED
    BY <1>1, <1>4, <1>5, <2>1, <2>2 DEF DInv, PlanOK
<1>9. Sound(command.was)'
  BY <1>1, <1>2, <1>4 DEF DInv, Sound
<1>10. command.phase = "apply" \/ ~unrestored =>
         Progress(command.kind, command.steps, command.was, Done, disk, Rest)
  BY <1>1 DEF DInv
<1>11. (command.phase = "apply" \/ ~unrestored =>
          Progress(command.kind, command.steps, command.was, Done, disk, Rest))'
  BY <1>2, <1>4, <1>5, <1>10
<1>. QED
  BY <1>1, <1>4, <1>6, <1>7, <1>8, <1>9, <1>11 DEF DInv

LEMMA ApplyInv == DInv /\ Apply => DInv'
<1>. SUFFICES ASSUME DInv, Apply PROVE DInv'
  OBVIOUS
<1>1. /\ command.phase # "idle" /\ command.phase = "apply" /\ Done < Len(command.steps)
      /\ command.at = Done + 1 /\ Current = command.steps[Done + 1] /\ StepOK(Current)
      /\ Progress(command.kind, command.steps, command.was, Done, disk, {})
  BY CurrentStep DEF Apply
<1>2. /\ DOMAIN command = Fields /\ Done \in Nat /\ Len(command.steps) \in Nat
      /\ Planned(command.kind, command.steps, command.was)
  BY <1>1, WhileRunning
<1>3. /\ DOMAIN command' = Fields /\ command'.phase = "apply" /\ command'.at = command.at + 1
      /\ command'.kind = command.kind /\ command'.steps = command.steps
      /\ command'.was = command.was /\ command'.seen = Absent
  BY <1>1, <1>2, CommandMoved DEF Apply
<1>4. Done' = Done + 1 /\ Rest' = {}
  BY <1>1, <1>2, <1>3 DEF Done, Rest
<1>5. DiskOK(View) /\ SameButHooks(disk, View) /\ Kept \subseteq View.hooks.user
  BY ViewOK
<1>6. Effect(Current, View, disk')
  BY <1>1, <1>5, AppliedOK DEF Apply
<1>7. PICK n, d : n = Done /\ d = View
  OBVIOUS
<1>8. Progress(command.kind, command.steps, command.was, n, d, {})
  BY <1>1, <1>5, <1>7, ProgressSame DEF SameButHooks
<1>9. Progress(command.kind, command.steps, command.was, n + 1, disk', {})
  BY <1>1, <1>2, <1>6, <1>7, <1>8, ProgressApplied
<1>10. command'.at \in Int /\ Done' \in 0..Len(command.steps)
  BY <1>1, <1>2, <1>3, <1>4
<1>11. DiskOK(disk') /\ Kept \subseteq disk'.hooks.user
  BY <1>5, <1>6 DEF Effect
<1>12. /\ UNCHANGED <<edits, raced, died>> /\ unrestored' = unrestored /\ unrestored' \in BOOLEAN
       /\ left' = left /\ left' \subseteq Leavings
  BY DEF Apply, DInv, TypesOK, counters
<1>13. Progress(command.kind, command.steps, command.was, Done', disk', Rest')
  BY <1>4, <1>7, <1>9
<1>. QED
  BY <1>1, <1>3, <1>10, <1>11, <1>12, <1>13, MoveInv

LEMMA FailInv == DInv /\ Fail => DInv'
<1>. SUFFICES ASSUME DInv, Fail PROVE DInv'
  OBVIOUS
<1>1. /\ command.phase # "idle" /\ command.phase = "apply" /\ Done < Len(command.steps)
      /\ command.at = Done + 1 /\ Current = command.steps[Done + 1] /\ StepOK(Current)
      /\ Writable(Current)
      /\ Progress(command.kind, command.steps, command.was, Done, disk, {})
  BY CurrentStep DEF Fail
<1>2. /\ DOMAIN command = Fields /\ Done \in Nat /\ Len(command.steps) \in Nat
      /\ Planned(command.kind, command.steps, command.was) /\ DiskOK(disk)
  BY <1>1, WhileRunning
<1>3. PICK n, d : n = Done /\ d = View
  OBVIOUS
<1>4. UNCHANGED <<edits, raced, died>> /\ unrestored \in BOOLEAN /\ left \subseteq Leavings
  BY DEF Fail, DInv, TypesOK
<1>5. ASSUME NEW last \in 0..Len(command.steps), Rollback(last)
      PROVE  /\ DOMAIN command' = Fields /\ command'.phase = "undo" /\ command'.at = last
             /\ command'.kind = command.kind /\ command'.steps = command.steps
             /\ command'.was = command.was /\ command'.seen = Absent
             /\ Done' = last /\ Rest' = left'
             /\ command'.at \in Int /\ Done' \in 0..Len(command.steps)
  <2>1. /\ DOMAIN command' = Fields /\ command'.phase = "undo" /\ command'.at = last
        /\ command'.kind = command.kind /\ command'.steps = command.steps
        /\ command'.was = command.was /\ command'.seen = Absent
    BY <1>2, <1>5, CommandMoved DEF Rollback
  <2>. QED
    BY <2>1 DEF Done, Rest
<1>6. n \in Nat /\ command.at - 1 = n /\ n \in 0..Len(command.steps) /\ n + 1 \in 0..Len(command.steps)
      /\ command.at = n + 1 /\ n < Len(command.steps)
  BY <1>1, <1>2, <1>3
<1>7. DiskOK(d) /\ SameButHooks(disk, d) /\ Kept \subseteq d.hooks.user /\ Kept \subseteq disk.hooks.user
  BY <1>3, ViewOK DEF DInv, EditsOK
<1>8. Progress(command.kind, command.steps, command.was, n, disk, {})
  BY <1>1, <1>3
<1>9. CASE UNCHANGED <<disk, throws, left, unrestored>> /\ Rollback(command.at - 1)
  <2>1. Rollback(n)
    BY <1>6, <1>9
  <2>2. Progress(command.kind, command.steps, command.was, n, disk, left')
    BY <1>8, ProgressRest
  <2>3. Progress(command.kind, command.steps, command.was, Done', disk', Rest')
    BY <1>5, <1>6, <1>9, <2>1, <2>2
  <2>. QED
    BY <1>1, <1>2, <1>4, <1>5, <1>6, <1>7, <1>9, <2>1, <2>3, MoveInv
<1>10. CASE /\ Rollback(command.at - 1) /\ disk' \in Partly(Current, disk, View)
            /\ left' = left \cup Changed(disk, disk')
            /\ unrestored' = (unrestored \/ disk'.service \notin {disk.service, Absent})
  <2>1. Rollback(n)
    BY <1>6, <1>10
  <2>2. PICK e, s : e = disk' /\ s = Current
    OBVIOUS
  <2>3. HalfEffect(s, disk, d, e)
    BY <1>1, <1>2, <1>3, <1>7, <1>10, <2>2, PartlyOK
  <2>4. DiskOK(disk') /\ Kept \subseteq disk'.hooks.user
    BY <1>7, <2>2, <2>3 DEF HalfEffect
  <2>5. unrestored' \in BOOLEAN /\ (~unrestored' => ~unrestored)
    BY <1>4, <1>10
  <2>6. left \subseteq left' /\ left' \subseteq Leavings
    <3>1. "current" \notin Changed(disk, e)
      BY <2>3 DEF HalfEffect, Changed
    <3>2. Changed(disk, e) \subseteq Leavings
      BY <3>1 DEF Changed, Leavings
    <3>. QED
      BY <1>4, <1>10, <2>2, <3>2
  <2>7. ASSUME ~unrestored'
        PROVE  Progress(command.kind, command.steps, command.was, n, e, left')
    <3>1. e.service \in {disk.service, Absent} /\ Changed(disk, e) \subseteq left'
      BY <1>10, <2>2, <2>7
    <3>. QED
      BY <1>2, <1>6, <1>8, <2>3, <3>1, ProgressHalf
  <2>8. ~unrestored' => Progress(command.kind, command.steps, command.was, Done', disk', Rest')
    BY <1>5, <1>6, <2>1, <2>2, <2>7
  <2>. QED
    BY <1>1, <1>4, <1>5, <1>6, <2>1, <2>4, <2>5, <2>6, <2>8, MoveInv
<1>11. CASE Rollback(command.at) /\ disk' = Applied(Current, View) /\ UNCHANGED <<left, unrestored>>
  <2>1. Rollback(n + 1)
    BY <1>6, <1>11
  <2>2. Effect(Current, d, disk')
    BY <1>1, <1>3, <1>7, <1>11, AppliedOK
  <2>3. DiskOK(disk') /\ Kept \subseteq disk'.hooks.user
    BY <1>7, <2>2 DEF Effect
  <2>4. Progress(command.kind, command.steps, command.was, n, d, {})
    BY <1>7, <1>8, ProgressSame DEF SameButHooks
  <2>5. Progress(command.kind, command.steps, command.was, n + 1, disk', {})
    BY <1>1, <1>2, <1>3, <1>6, <2>2, <2>4, ProgressApplied
  <2>6. Progress(command.kind, command.steps, command.was, n + 1, disk', left')
    BY <2>5, ProgressRest
  <2>7. Progress(command.kind, command.steps, command.was, Done', disk', Rest')
    BY <1>5, <1>6, <2>1, <2>6
  <2>. QED
    BY <1>1, <1>4, <1>5, <1>6, <1>11, <2>1, <2>3, <2>7, MoveInv
<1>. QED
  BY <1>9, <1>10, <1>11 DEF Fail

LEMMA CommitInv == DInv /\ CommitCommand => DInv'
<1>. SUFFICES ASSUME DInv, CommitCommand PROVE DInv'
  OBVIOUS
<1>1. command.phase # "idle" /\ command.phase = "apply" /\ command.at > Len(command.steps)
  BY DEF CommitCommand
<1>2. /\ DOMAIN command = Fields /\ Done \in Nat /\ Done <= Len(command.steps)
      /\ Len(command.steps) \in Nat /\ command.at \in Int
      /\ Planned(command.kind, command.steps, command.was) /\ DiskOK(disk)
      /\ Progress(command.kind, command.steps, command.was, Done, disk, Rest)
  BY <1>1, WhileRunning
<1>3. Done = Len(command.steps) /\ Rest = {}
  BY <1>1, <1>2 DEF Done, Rest
<1>4. UNCHANGED <<edits, raced>> /\ Kept \subseteq disk.hooks.user
  BY DEF CommitCommand, DInv, EditsOK
<1>5. Complete(disk, {}) /\ Present(disk)
  BY <1>2, <1>3, ProgressDone, CompletePresent
<1>6. CASE command' = NoCommand /\ disk' = disk /\ left' = {} /\ died' = FALSE /\ unrestored' = FALSE
  BY <1>1, <1>2, <1>4, <1>5, <1>6, EndInv
<1>7. CASE /\ command' = NoCommand /\ disk' = [disk EXCEPT !.trash = {}]
           /\ left' = {} /\ died' = FALSE /\ unrestored' = FALSE
  <2>1. /\ DiskOK(disk') /\ disk'.hooks.user = disk.hooks.user /\ disk'.at = disk.at
        /\ disk'.releases = disk.releases /\ disk'.receipt = disk.receipt
        /\ disk'.trusted = disk.trusted /\ disk'.service = disk.service
    BY <1>2, <1>7 DEF DiskOK, Disk
  <2>2. Present(disk') /\ Complete(disk', left')
    BY <1>5, <1>7, <2>1 DEF Present, Complete, Whole, Nothing, Owned
  <2>. QED
    BY <1>1, <1>4, <1>7, <2>1, <2>2, EndInv
<1>8. CASE Rollback(Len(command.steps)) /\ UNCHANGED <<disk, left, died, unrestored>>
  <2>1. PICK n : n = Len(command.steps)
    OBVIOUS
  <2>2. /\ DOMAIN command' = Fields /\ command'.phase = "undo" /\ command'.at = n
        /\ command'.kind = command.kind /\ command'.steps = command.steps
        /\ command'.was = command.was /\ command'.seen = Absent
    BY <1>2, <1>8, <2>1, CommandMoved DEF Rollback
  <2>3. Done' = n /\ Rest' = left'
    BY <2>2 DEF Done, Rest
  <2>4. Progress(command.kind, command.steps, command.was, n, disk, {})
    BY <1>2, <1>3, <2>1
  <2>5. Progress(command.kind, command.steps, command.was, n, disk, left')
    BY <2>4, ProgressRest
  <2>6. Progress(command.kind, command.steps, command.was, Done', disk', Rest')
    BY <1>8, <2>3, <2>5
  <2>7. unrestored' \in BOOLEAN /\ left' \subseteq Leavings
    BY <1>8 DEF DInv, TypesOK
  <2>. QED
    BY <1>1, <1>2, <1>4, <1>8, <2>1, <2>2, <2>3, <2>6, <2>7, MoveInv
<1>. QED
  BY <1>6, <1>7, <1>8 DEF CommitCommand

LEMMA UndoInv == DInv /\ Undo => DInv'
<1>. SUFFICES ASSUME DInv, Undo PROVE DInv'
  OBVIOUS
<1>1. command.phase # "idle" /\ command.phase = "undo" /\ command.at > 0
  BY DEF Undo, Undoing
<1>2. /\ DOMAIN command = Fields /\ Done \in Nat /\ Done <= Len(command.steps)
      /\ Len(command.steps) \in Nat /\ command.at \in Int
      /\ Planned(command.kind, command.steps, command.was)
      /\ DiskOK(disk) /\ DiskOK(command.was) /\ "current" \notin Rest
      /\ \A k \in 1..Len(command.steps) : StepOK(command.steps[k])
  BY <1>1, WhileRunning
<1>3. PICK n, d, rest : n = command.at /\ d = View /\ rest = left
  OBVIOUS
<1>4. Done = n /\ n \in 1..Len(command.steps) /\ Current = command.steps[n] /\ StepOK(Current)
      /\ Rest = rest
  BY <1>1, <1>2, <1>3 DEF Done, Current, Rest
<1>5. /\ DOMAIN command' = Fields /\ command'.phase = "undo" /\ command'.at = n - 1
      /\ command'.kind = command.kind /\ command'.steps = command.steps
      /\ command'.was = command.was /\ command'.seen = Absent
  BY <1>1, <1>2, <1>3, CommandMoved DEF Undo
<1>6. UNCHANGED <<edits, raced, left, died>> /\ unrestored \in BOOLEAN /\ left' \subseteq Leavings
  BY DEF Undo, DInv, TypesOK
<1>7. Done' = n - 1 /\ Rest' = rest
  BY <1>3, <1>5, <1>6 DEF Done, Rest
<1>8. Done' \in 0..Len(command.steps) /\ command'.at \in Int
  BY <1>2, <1>4, <1>5, <1>7
<1>9. DiskOK(d) /\ SameButHooks(disk, d) /\ Kept \subseteq d.hooks.user /\ Kept \subseteq disk.hooks.user
  BY <1>3, ViewOK DEF DInv, EditsOK
<1>10. CASE disk' = Undone(Current, View, command.was) /\ UNCHANGED unrestored
  <2>1. Reverse(Current, d, disk', command.was)
    BY <1>2, <1>3, <1>4, <1>9, <1>10, UndoneOK
  <2>2. DiskOK(disk') /\ Kept \subseteq disk'.hooks.user
    BY <1>9, <2>1 DEF Reverse
  <2>3. ASSUME ~unrestored
        PROVE  Progress(command.kind, command.steps, command.was, n - 1, disk', rest)
    <3>1. Progress(command.kind, command.steps, command.was, n, disk, rest)
      BY <1>1, <1>4, <2>3, WhileRunning
    <3>2. Progress(command.kind, command.steps, command.was, n, d, rest)
      BY <1>9, <3>1, ProgressSame DEF SameButHooks
    <3>. QED
      BY <1>2, <1>4, <2>1, <3>2, ProgressUndone
  <2>4. ~unrestored' => Progress(command.kind, command.steps, command.was, Done', disk', Rest')
    BY <1>7, <1>10, <2>3
  <2>. QED
    BY <1>1, <1>5, <1>6, <1>8, <1>10, <2>2, <2>4, MoveInv
<1>11. CASE unrestored' = TRUE /\ disk' \in {disk} \cup UndonePartly(Current, disk, View, command.was)
  <2>1. DiskOK(disk') /\ disk'.hooks.user \in {disk.hooks.user, d.hooks.user}
    BY <1>2, <1>3, <1>4, <1>9, <1>11, UndonePartlyOK
  <2>2. Kept \subseteq disk'.hooks.user
    BY <1>9, <2>1
  <2>. QED
    BY <1>1, <1>5, <1>6, <1>8, <1>11, <2>1, <2>2, MoveInv
<1>. QED
  BY <1>10, <1>11 DEF Undo

LEMMA EndOfCommandInv == DInv /\ End => DInv'
<1>. SUFFICES ASSUME DInv, End PROVE DInv'
  OBVIOUS
<1>1. command.phase # "idle" /\ command.phase = "undo" /\ command.at = 0 /\ command' = NoCommand
  BY DEF End
<1>2. /\ Planned(command.kind, command.steps, command.was) /\ DiskOK(disk)
      /\ ~unrestored => /\ Present(disk)
                        /\ Progress(command.kind, command.steps, command.was, Done, disk, Rest)
      /\ "current" \notin left
  BY <1>1, WhileRunning
<1>3. Done = 0 /\ Rest = left
  BY <1>1 DEF Done, Rest
<1>4. /\ UNCHANGED <<edits, raced, left, died, unrestored>> /\ left' \subseteq Leavings
      /\ died' \in BOOLEAN /\ unrestored' \in BOOLEAN /\ Kept \subseteq disk.hooks.user
  BY DEF End, DInv, TypesOK, EditsOK
<1>5. ASSUME ~died, ~unrestored PROVE Complete(disk, left)
  <2>1. Complete(command.was, left)
    BY <1>1, <1>5 DEF DInv, Sound
  <2>2. Progress(command.kind, command.steps, command.was, 0, disk, left)
    BY <1>2, <1>3, <1>5
  <2>. QED
    BY <1>2, <2>1, <2>2, ProgressBack
<1>6. CASE disk' = disk
  BY <1>1, <1>2, <1>4, <1>5, <1>6, EndInv
<1>7. CASE disk' = Started(disk)
  <2>1. DiskOK(disk') /\ disk'.hooks.user = disk.hooks.user
    BY <1>2, <1>7, StartedOK DEF Untouched
  <2>2. ~unrestored' => Present(disk')
    BY <1>2, <1>4, <1>7, StartedPresent
  <2>3. ~died' /\ ~unrestored' => Complete(disk', left')
    BY <1>2, <1>4, <1>5, <1>7, StartedComplete
  <2>. QED
    BY <1>1, <1>4, <2>1, <2>2, <2>3, EndInv
<1>. QED
  BY <1>6, <1>7 DEF End

LEMMA DieInv == DInv /\ Die => DInv'
<1>. SUFFICES ASSUME DInv, Die PROVE DInv'
  OBVIOUS
<1>1. command.phase # "idle" /\ command' = NoCommand
  BY DEF Die
<1>2. DiskOK(disk) /\ (~unrestored => Present(disk)) /\ DiskOK(command.was)
  BY <1>1, WhileRunning
<1>3. /\ UNCHANGED <<edits, raced, left, unrestored>> /\ left' \subseteq Leavings
      /\ unrestored' \in BOOLEAN /\ died' = TRUE
  BY DEF Die, DInv, TypesOK
<1>4. /\ DiskOK(View) /\ SameButHooks(disk, View) /\ Kept \subseteq View.hooks.user
      /\ Kept \subseteq disk.hooks.user
  BY ViewOK DEF DInv, EditsOK
<1>5. ASSUME DiskOK(disk'), disk'.at["current"] = disk.at["current"], disk'.releases = disk.releases,
             disk'.hooks.user \in {disk.hooks.user, View.hooks.user},
             disk'.service \in {disk.service, Absent, disk.at["current"]}
      PROVE  DInv'
  <2>1. Kept \subseteq disk'.hooks.user
    BY <1>4, <1>5
  <2>2. ~unrestored' => Present(disk')
    BY <1>2, <1>3, <1>5 DEF Present
  <2>. QED
    BY <1>1, <1>3, <1>5, <2>1, <2>2, EndInv
<1>6. CASE disk' = disk
  BY <1>2, <1>5, <1>6
<1>7. CASE Applying /\ disk' \in Partly(Current, disk, View)
  <2>1. Writable(Current)
    BY <1>7, CurrentStep
  <2>2. HalfEffect(Current, disk, View, disk')
    BY <1>2, <1>4, <1>7, <2>1, PartlyOK
  <2>. QED
    BY <1>5, <2>2 DEF HalfEffect, StartedAs
<1>8. CASE Undoing /\ disk' \in UndonePartly(Current, disk, View, command.was)
  <2>1. StepOK(Current)
    <3>1. /\ command.phase = "undo" /\ command.at > 0 /\ command.at \in Int
          /\ Done <= Len(command.steps) /\ Len(command.steps) \in Nat
          /\ \A k \in 1..Len(command.steps) : StepOK(command.steps[k])
      BY <1>1, <1>8, WhileRunning DEF Undoing
    <3>2. command.at \in 1..Len(command.steps)
      BY <3>1 DEF Done
    <3>. QED
      BY <3>1, <3>2 DEF Current
  <2>. QED
    BY <1>2, <1>4, <1>5, <1>8, <2>1, UndonePartlyOK
<1>. QED
  BY <1>6, <1>7, <1>8 DEF Die

(* The user's own changes.                                                    *)
LEMMA UserInv ==
    ASSUME DInv, UNCHANGED <<command, left, died, unrestored>>, DiskOK(disk'), edits' \in Nat,
           EditsOK', disk'.at = disk.at, disk'.releases = disk.releases,
           disk'.trash = disk.trash, disk'.receipt = disk.receipt, disk'.trusted = disk.trusted,
           disk'.service = disk.service
    PROVE  DInv'
<1>1. TypesOK'
  BY DEF DInv, TypesOK, DiskOK
<1>2. Done' = Done /\ Rest' = Rest
  BY DEF Done, Rest
<1>3. PlanOK'
  BY <1>2 DEF DInv, PlanOK
<1>4. ASSUME command.phase = "idle"
      PROVE  Sound(disk)'
  <2>1. Sound(disk)
    BY <1>4 DEF DInv
  <2>. QED
    BY <2>1 DEF Sound, Present, Complete, Whole, Nothing, Owned
<1>5. ASSUME command.phase # "idle"
      PROVE  /\ Sound(command.was)'
             /\ (command.phase = "apply" \/ ~unrestored =>
                   Progress(command.kind, command.steps, command.was, Done, disk, Rest))'
  <2>1. /\ Sound(command.was)
        /\ command.phase = "apply" \/ ~unrestored =>
             Progress(command.kind, command.steps, command.was, Done, disk, Rest)
    BY <1>5 DEF DInv
  <2>2. Sound(command.was)'
    BY <2>1 DEF Sound
  <2>3. command.phase = "apply" \/ ~unrestored =>
          Progress(command.kind, command.steps, command.was, Done, disk', Rest)
    BY <2>1, ProgressSame
  <2>. QED
    BY <1>2, <2>2, <2>3
<1>. QED
  BY <1>1, <1>3, <1>4, <1>5 DEF DInv

LEMMA EditInv == DInv /\ Edit => DInv'
<1>. SUFFICES ASSUME DInv, Edit PROVE DInv'
  OBVIOUS
<1>1. DiskOK(disk) /\ edits \in Nat /\ EditsOK
  BY DEF DInv, TypesOK
<1>2. PICK ours \in {"YES", "NO", "ALTERED"} \cup {disk.hooks.ours} :
         disk' = [disk EXCEPT !.hooks = [user |-> disk.hooks.user \cup {edits + 1}, ours |-> ours]]
  BY DEF Edit
<1>3. [user |-> disk.hooks.user \cup {edits + 1}, ours |-> ours] \in Hooks
  BY <1>1, <1>2, DiskTyped DEF Hooks
<1>4. /\ DiskOK(disk') /\ disk'.hooks.user = disk.hooks.user \cup {edits + 1} /\ disk'.at = disk.at
      /\ disk'.releases = disk.releases /\ disk'.trash = disk.trash
      /\ disk'.receipt = disk.receipt /\ disk'.trusted = disk.trusted
      /\ disk'.service = disk.service
  BY <1>1, <1>2, <1>3 DEF DiskOK, Disk
<1>5. /\ UNCHANGED <<command, left, died, unrestored>> /\ edits' = edits + 1
      /\ raced' = IF Reading THEN raced \cup {edits + 1} ELSE raced
  BY DEF Edit
<1>6. EditsOK'
  <2>1. Kept' \subseteq Kept \cup {edits + 1} /\ (Reading => Kept' \subseteq Kept)
    BY <1>1, <1>5 DEF Kept
  <2>2. Reading' = Reading
    BY <1>5 DEF Reading
  <2>. QED
    BY <1>1, <1>4, <1>5, <2>1, <2>2 DEF EditsOK
<1>. QED
  BY <1>1, <1>4, <1>5, <1>6, UserInv

LEMMA DistrustInv == DInv /\ Distrust => DInv'
<1>. SUFFICES ASSUME DInv, Distrust PROVE DInv'
  OBVIOUS
<1>1. DiskOK(disk) /\ edits \in Nat /\ EditsOK
  BY DEF DInv, TypesOK
<1>2. /\ disk' = [disk EXCEPT !.trust = "OTHER"] /\ UNCHANGED <<command, left, died, unrestored>>
      /\ edits' = edits /\ raced' = raced
  BY DEF Distrust, counters
<1>3. /\ DiskOK(disk') /\ disk'.hooks = disk.hooks /\ disk'.at = disk.at
      /\ disk'.releases = disk.releases /\ disk'.trash = disk.trash
      /\ disk'.receipt = disk.receipt /\ disk'.trusted = disk.trusted
      /\ disk'.service = disk.service
  BY <1>1, <1>2 DEF DiskOK, Disk
<1>4. EditsOK'
  BY <1>1, <1>2, <1>3 DEF EditsOK, Kept, Reading
<1>. QED
  BY <1>1, <1>2, <1>3, <1>4, UserInv

LEMMA StutterInv == DInv /\ UNCHANGED dvars => DInv'
<1>. SUFFICES ASSUME DInv, UNCHANGED dvars PROVE DInv'
  OBVIOUS
<1>1. UNCHANGED <<command, left, died, unrestored, raced>> /\ disk' = disk /\ edits' = edits
  BY DEF dvars, counters
<1>2. DiskOK(disk') /\ edits' \in Nat
  BY <1>1 DEF DInv, TypesOK
<1>3. EditsOK'
  BY <1>1 DEF DInv, EditsOK, Kept, Reading
<1>. QED
  BY <1>1, <1>2, <1>3, UserInv

LEMMA DInvInductive == DInv /\ [DNext]_dvars => DInv'
BY InstallInv, UninstallInv, ReadInv, ApplyInv, FailInv, CommitInv, UndoInv, EndOfCommandInv, DieInv,
   EditInv, DistrustInv, StutterInv DEF DNext
-----------------------------------------------------------------------------
(* The machine keeps its shape, and a command its plan: DInv's types.         *)
THEOREM DeploymentTyped == DSpec => [](TypesOK /\ PlanOK)
<1>1. DInv => TypesOK /\ PlanOK
  BY DEF DInv
<1>. QED
  BY <1>1, DInitInv, DInvInductive, PTL DEF DSpec

(* NothingDangles: neither `current' nor the service is ever a release that   *)
(* is not there, unless something could not be undone and nothing committed    *)
(* since; after any number of failed and dead commands of                     *)
(* packages/local-deployment.                                                 *)
THEOREM NothingDanglesHolds == DSpec => []NothingDangles
<1>1. ASSUME DInv PROVE NothingDangles
  <2>1. ~unrestored => Present(disk)
    BY <1>1, WhileRunning DEF DInv, Sound
  <2>. QED
    BY <2>1 DEF Present, NothingDangles
<1>. QED
  BY <1>1, DInitInv, DInvInductive, PTL DEF DSpec

(* AllOrNothing: a command that ends leaves one whole installation or none,   *)
(* and beside it only what a step that threw had already written.             *)
THEOREM AllOrNothingHolds == DSpec => []AllOrNothing
<1>1. DInv => AllOrNothing
  BY DEF DInv, Sound, AllOrNothing
<1>. QED
  BY <1>1, DInitInv, DInvInductive, PTL DEF DSpec

(* UserEditsKept: no command and no rollback takes back an edit of hooks.json *)
(* but one made between an installer's last reading and its write.            *)
THEOREM UserEditsKeptHolds == DSpec => []UserEditsKept
<1>1. DInv => UserEditsKept
  BY DEF DInv, EditsOK, Kept, UserEditsKept
<1>. QED
  BY <1>1, DInitInv, DInvInductive, PTL DEF DSpec
=============================================================================
