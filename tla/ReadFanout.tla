----------------------------- MODULE ReadFanout -----------------------------
(***************************************************************************)
(* Place-name resolution as nested users of the read-cursor pool.          *)
(*                                                                         *)
(* A batch of names (_server_refs) runs each name on a pool worker, inside *)
(* isolated_reads(): the worker holds a slot for its whole run.  For a name *)
(* with place context, resolve_named_place starts a speculative second leg *)
(* on one of the _SPECULATE_WORKERS threads, geocodes on its own thread,   *)
(* and then joins the leg or discards it.  The leg holds a slot too, and   *)
(* fans its places scans out over threads that each want a slot of their   *)
(* own, and waits for them.  A single name, outside a batch, leases a slot *)
(* per query only.  Slots are those of SlotPool, which CursorPool          *)
(* implements.                                                             *)
(***************************************************************************)
EXTENDS Naturals, FiniteSets

CONSTANTS Item,         \* names being resolved, by one or several tool calls
          Batched,      \* those resolved by a batch worker in isolated_reads()
          Scan,         \* names of the scan jobs of one round; bounds a round
          Cap,          \* PLACEROOT_DUCKDB_CURSORS
          SpecWorkers   \* _SPECULATE_WORKERS

ASSUME CapAssumption == Cap \in Nat \ {0}
ASSUME BatchAssumption == Batched \subseteq Item /\ IsFiniteSet(Batched)
ASSUME SpecWorkersAssumption == SpecWorkers \in Nat
ASSUME ScanAssumption == "worker" \notin Scan /\ "leg" \notin Scan

VARIABLES
    speculates, \* PLACEROOT_SPECULATE_RESOLVE is not switched off
    worker,     \* the thread that runs _resolve_location_ref for an item
    leg,        \* the item's speculative leg
    impl,       \* how far _resolve_place_impl has come for the item
    scan,       \* the item's scan threads
    outcome,    \* what geocode() said
    committed,  \* the deferred writes of leg 2 were applied
    holders     \* threads holding a read slot

vars == <<speculates, worker, leg, impl, scan, outcome, committed, holders>>

Worker(i) == <<i, "worker">>
Leg(i) == <<i, "leg">>
Scanner(i, k) == <<i, k>>
Thread == Item \X ({"worker", "leg"} \cup Scan)

Slots == INSTANCE SlotPool

WorkerPC == {"queued", "entering", "starting", "asking", "geocoding",
             "deciding", "joining", "resolving", "leaving", "done"}
LegPC == {"none", "queued", "entering", "resolving", "over", "cancelled"}
ImplPC == {"none", "round1", "scans1", "round2", "scans2", "returned", "raised"}
ScanPC == {"idle", "entering", "reading", "over"}

Init ==
    /\ speculates \in BOOLEAN
    /\ worker = [i \in Item |-> "queued"]
    /\ leg = [i \in Item |-> "none"]
    /\ impl = [i \in Item |-> "none"]
    /\ scan = [i \in Item |-> [k \in Scan |-> "idle"]]
    /\ outcome = [i \in Item |-> "none"]
    /\ committed = [i \in Item |-> FALSE]
    /\ holders = {}

MoveWorker(i, l) == worker' = [worker EXCEPT ![i] = l]
MoveLeg(i, l) == leg' = [leg EXCEPT ![i] = l]
MoveImpl(i, l) == impl' = [impl EXCEPT ![i] = l]

\* A thread leaves isolated_reads(), or goes on without ever having got in.
LetGo(t) == holders' = holders \ {t}

-----------------------------------------------------------------------------
(* The item's own thread: a batch worker, or the tool call's thread.       *)

\* A batch worker picks the item up; a lone name starts on the call's thread.
PickUp(i) ==
    /\ worker[i] = "queued"
    /\ MoveWorker(i, IF i \in Batched THEN "entering" ELSE "starting")
    /\ UNCHANGED <<speculates, leg, impl, scan, outcome, committed, holders>>

\* `with db.isolated_reads():` in the batch worker.
EnterBatch(i) ==
    /\ worker[i] = "entering"
    /\ Slots!Acquire(Worker(i))
    /\ MoveWorker(i, "starting")
    /\ UNCHANGED <<speculates, leg, impl, scan, outcome, committed>>

\* _speculate_place_leg(): submit leg 2, or find that the name gives no place
\* context.  Then geocode: a thread in isolation has its cursor already.
Start(i, context) ==
    /\ worker[i] = "starting"
    /\ leg' = [leg EXCEPT ![i] = IF context /\ speculates THEN "queued" ELSE @]
    /\ MoveImpl(i, IF context /\ ~speculates THEN "round1" ELSE "none")
    /\ MoveWorker(i, IF i \in Batched THEN "geocoding" ELSE "asking")
    /\ UNCHANGED <<speculates, scan, outcome, committed, holders>>

\* read_conn() of a thread outside isolation, around one query.
Ask(i) ==
    /\ worker[i] = "asking"
    /\ Slots!Acquire(Worker(i))
    /\ MoveWorker(i, "geocoding")
    /\ UNCHANGED <<speculates, leg, impl, scan, outcome, committed>>

\* geocode() found a division, found none, or raised.
Geocode(i, found) ==
    /\ worker[i] = "geocoding"
    /\ outcome' = [outcome EXCEPT ![i] = found]
    /\ IF i \in Batched THEN UNCHANGED holders ELSE LetGo(Worker(i))
    /\ MoveWorker(i, "deciding")
    /\ UNCHANGED <<speculates, leg, impl, scan, committed>>

\* future.cancel(): takes a leg that has not started off the queue.
CancelLeg(i) ==
    leg' = [leg EXCEPT ![i] = IF @ = "queued" THEN "cancelled" ELSE @]

\* A geocode that raised taken for one that found nothing.
UseLeg2OnError(i) ==
    outcome[i] # "hit" /\ (leg[i] # "none" \/ impl[i] = "round1")

\* Only a miss uses leg 2: joined when speculated, run here when not.
UseLeg2(i) == outcome[i] = "miss" /\ (leg[i] # "none" \/ impl[i] = "round1")

Decide(i) ==
    /\ worker[i] = "deciding"
    /\ IF UseLeg2(i)
       THEN /\ MoveWorker(i, IF leg[i] = "none" THEN "resolving" ELSE "joining")
            /\ UNCHANGED <<speculates, leg, impl>>
       ELSE /\ MoveWorker(i, "leaving")
            /\ CancelLeg(i)
            /\ impl' = [impl EXCEPT ![i] = IF leg[i] = "none" THEN "none" ELSE @]
    /\ UNCHANGED <<speculates, scan, outcome, committed, holders>>

\* join(): the future is done; commit() unless it re-raises the leg's error.
Join(i) ==
    /\ worker[i] = "joining"
    /\ leg[i] = "over"
    /\ committed' = [committed EXCEPT ![i] = impl[i] = "returned"]
    /\ MoveWorker(i, "leaving")
    /\ UNCHANGED <<speculates, leg, impl, scan, outcome, holders>>

\* Leg 2 run inline ends; its writes were applied as it went.
FinishInline(i) ==
    /\ worker[i] = "resolving"
    /\ impl[i] \in {"returned", "raised"}
    /\ committed' = [committed EXCEPT ![i] = impl[i] = "returned"]
    /\ MoveWorker(i, "leaving")
    /\ UNCHANGED <<speculates, leg, impl, scan, outcome, holders>>

\* The batch worker ends outside the `with` block's clean-up.
LeaveHolding(i) ==
    /\ worker[i] = "leaving"
    /\ MoveWorker(i, "done")
    /\ UNCHANGED <<speculates, leg, impl, scan, outcome, committed, holders>>

\* The answer, or the error, is delivered; isolated_reads() ends.
Leave(i) ==
    /\ worker[i] = "leaving"
    /\ LetGo(Worker(i))
    /\ MoveWorker(i, "done")
    /\ UNCHANGED <<speculates, leg, impl, scan, outcome, committed>>

-----------------------------------------------------------------------------
(* The speculative leg.                                                    *)

\* Program points of a leg that occupy a thread of _SPECULATE_POOL.
OnSpecThread == {"entering", "resolving"}

LegsRunning == {i \in Item : leg[i] \in OnSpecThread}

\* One thread per leg instead of a bounded pool.
StartLegUnbounded(i) ==
    /\ leg[i] = "queued"
    /\ MoveLeg(i, "entering")
    /\ UNCHANGED <<speculates, worker, impl, scan, outcome, committed, holders>>

\* A thread of _SPECULATE_POOL takes a submitted leg.
StartLeg(i) ==
    /\ leg[i] = "queued"
    /\ Cardinality(LegsRunning) < SpecWorkers
    /\ MoveLeg(i, "entering")
    /\ UNCHANGED <<speculates, worker, impl, scan, outcome, committed, holders>>

\* isolated_reads() in the leg; on duckdb.Error the leg runs without it.
EnterLeg(i) ==
    /\ leg[i] = "entering"
    /\ Slots!Acquire(Leg(i))
    /\ MoveLeg(i, "resolving")
    /\ MoveImpl(i, "round1")
    /\ UNCHANGED <<speculates, worker, scan, outcome, committed>>

LegWithoutCursor(i) ==
    /\ leg[i] = "resolving"
    /\ impl[i] = "round1"
    /\ Leg(i) \in holders
    /\ LetGo(Leg(i))
    /\ UNCHANGED <<speculates, worker, leg, impl, scan, outcome, committed>>

FinishLeg(i) ==
    /\ leg[i] = "resolving"
    /\ impl[i] \in {"returned", "raised"}
    /\ LetGo(Leg(i))
    /\ MoveLeg(i, "over")
    /\ UNCHANGED <<speculates, worker, impl, scan, outcome, committed>>

-----------------------------------------------------------------------------
(* _resolve_place_impl, on the leg's thread or inline on the item's: a     *)
(* first round of scans and, unless its rows are confident, one per word.  *)

Leg2Runs(i) == leg[i] = "resolving" \/ worker[i] = "resolving"

\* The thread _resolve_place_impl runs on.
Caller(i) == IF leg[i] = "resolving" THEN Leg(i) ELSE Worker(i)

\* A single job runs on the caller's thread, on its cursor if it has one.
RunsInline(i, jobs) ==
    jobs = {} \/ (Cardinality(jobs) = 1 /\ Caller(i) \in holders)

\* _run_place_scans: with several jobs every job gets a thread at once.  A
\* caller without a cursor leases a slot for its one query as a scan does.
RunRound(i, round, jobs) ==
    /\ Leg2Runs(i)
    /\ impl[i] = (IF round = 1 THEN "round1" ELSE "round2")
    /\ IF RunsInline(i, jobs)
       THEN /\ MoveImpl(i, IF round = 1 THEN "round2" ELSE "returned")
            /\ UNCHANGED scan
       ELSE /\ MoveImpl(i, IF round = 1 THEN "scans1" ELSE "scans2")
            /\ scan' = [scan EXCEPT ![i] =
                          [k \in Scan |-> IF k \in jobs THEN "entering" ELSE "idle"]]
    /\ UNCHANGED <<speculates, worker, leg, outcome, committed, holders>>

\* The caller has collected every future; the first exception is re-raised.
EndRound(i, fails) ==
    /\ impl[i] \in {"scans1", "scans2"}
    /\ \A k \in Scan : scan[i][k] \in {"idle", "over"}
    /\ MoveImpl(i, CASE fails -> "raised"
                     [] ~fails /\ impl[i] = "scans1" -> "round2"
                     [] ~fails /\ impl[i] = "scans2" -> "returned")
    /\ scan' = [scan EXCEPT ![i] = [k \in Scan |-> "idle"]]
    /\ UNCHANGED <<speculates, worker, leg, outcome, committed, holders>>

EnterScan(i, k) ==
    /\ scan[i][k] = "entering"
    /\ Slots!Acquire(Scanner(i, k))
    /\ scan' = [scan EXCEPT ![i][k] = "reading"]
    /\ UNCHANGED <<speculates, worker, leg, impl, outcome, committed>>

\* No private cursor could be opened: the scan goes on without a slot.
ScanWithoutCursor(i, k) ==
    /\ scan[i][k] = "reading"
    /\ Scanner(i, k) \in holders
    /\ LetGo(Scanner(i, k))
    /\ UNCHANGED <<speculates, worker, leg, impl, scan, outcome, committed>>

FinishScan(i, k) ==
    /\ scan[i][k] = "reading"
    /\ scan' = [scan EXCEPT ![i][k] = "over"]
    /\ LetGo(Scanner(i, k))
    /\ UNCHANGED <<speculates, worker, leg, impl, outcome, committed>>

-----------------------------------------------------------------------------
\* A step of the item's threads that waits for no slot and no queue.
Step(i) ==
    \/ PickUp(i) \/ Decide(i) \/ Join(i) \/ FinishInline(i) \/ Leave(i)
    \/ \E context \in BOOLEAN : Start(i, context)
    \/ \E found \in {"hit", "miss", "error"} : Geocode(i, found)
    \/ FinishLeg(i)
    \/ \E round \in {1, 2}, jobs \in SUBSET Scan : RunRound(i, round, jobs)
    \/ \E fails \in BOOLEAN : EndRound(i, fails)
    \/ \E k \in Scan : FinishScan(i, k)

\* A thread gets the slot it waits for.
TakeSlot(i) ==
    \/ EnterBatch(i) \/ Ask(i) \/ EnterLeg(i)
    \/ \E k \in Scan : EnterScan(i, k)

LoseCursor(i) == LegWithoutCursor(i) \/ \E k \in Scan : ScanWithoutCursor(i, k)

AllAnswered ==
    /\ \A i \in Item : worker[i] = "done" /\ leg[i] \in {"none", "over", "cancelled"}
    /\ UNCHANGED vars

Next ==
    \/ \E i \in Item : Step(i) \/ TakeSlot(i) \/ StartLeg(i) \/ LoseCursor(i)
    \/ AllAnswered

Spec == Init /\ [][Next]_vars

\* Threads run, and a free slot, or a free speculation thread, is eventually
\* given to each thread that keeps waiting for one: every wait in this module
\* is made once, so no thread can overtake another without bound.
Fairness ==
    /\ \A i \in Item :
          /\ WF_vars(PickUp(i) \/ Decide(i) \/ Join(i) \/ FinishInline(i) \/ Leave(i))
          /\ WF_vars(\E context \in BOOLEAN : Start(i, context))
          /\ WF_vars(\E found \in {"hit", "miss", "error"} : Geocode(i, found))
          /\ WF_vars(FinishLeg(i))
          /\ WF_vars(\E round \in {1, 2}, jobs \in SUBSET Scan : RunRound(i, round, jobs))
          /\ WF_vars(\E fails \in BOOLEAN : EndRound(i, fails))
          /\ \A k \in Scan : WF_vars(FinishScan(i, k))
    /\ WF_vars(\E i \in Item : TakeSlot(i))
    /\ WF_vars(\E i \in Item : StartLeg(i))

FairSpec == Spec /\ Fairness

-----------------------------------------------------------------------------
TypeOK ==
    /\ speculates \in BOOLEAN
    /\ worker \in [Item -> WorkerPC]
    /\ leg \in [Item -> LegPC]
    /\ impl \in [Item -> ImplPC]
    /\ scan \in [Item -> [Scan -> ScanPC]]
    /\ outcome \in [Item -> {"none", "hit", "miss", "error"}]
    /\ committed \in [Item -> BOOLEAN]
    /\ holders \subseteq Thread
    /\ Cardinality(holders) <= Cap

\* A thread whose next step is some other thread's to make.
Blocked(t) ==
    LET i == t[1] IN
    \/ t = Worker(i) /\ worker[i] = "joining" /\ leg[i] # "over"
    \/ t = Worker(i) /\ worker[i] = "resolving" /\ impl[i] \in {"scans1", "scans2"}
    \/ t = Leg(i) /\ impl[i] \in {"scans1", "scans2"}

\* The cap never locks the resolvers up: when every slot is taken, a thread
\* that holds one can go on and will give it back.  The threads they wait
\* for need slots themselves, so anything else is a deadlock.
SomeHolderRuns ==
    Cardinality(holders) = Cap => \E t \in holders : ~Blocked(t)

\* A slot is held by a thread that is in its isolated_reads() block (or, for a
\* lone name, in its one query), never by one that has left it: a discarded
\* leg gives its slot back although nobody waits for the leg.
HoldersAreInside ==
    \A i \in Item :
        /\ Worker(i) \in holders =>
              /\ i \in Batched => worker[i] \in {"starting", "geocoding", "deciding",
                                                "joining", "resolving", "leaving"}
              /\ i \notin Batched => worker[i] = "geocoding"
        /\ Leg(i) \in holders => leg[i] = "resolving"
        /\ \A k \in Scan : Scanner(i, k) \in holders => scan[i][k] = "reading"

\* "a speculative run that leg 1 makes unnecessary leaves no state behind":
\* the writes of leg 2 are applied exactly when geocode missed and the leg's
\* rows were used, whichever of the two finished first.
CommitsOnlyWhenUsed ==
    \A i \in Item :
        /\ committed[i] => outcome[i] = "miss" /\ impl[i] = "returned"
        /\ worker[i] = "done" /\ outcome[i] = "miss" /\ impl[i] = "returned"
              => committed[i]

\* Every name is answered and every slot and speculation thread comes back.
EverythingEnds ==
    <>[](/\ \A i \in Item : worker[i] = "done"
         /\ LegsRunning = {}
         /\ holders = {})
=============================================================================
