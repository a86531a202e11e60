-------------------------- MODULE ReadFanoutProofs --------------------------
(***************************************************************************)
(* Proofs about ReadFanout, for any names, any scans and any cap: when the *)
(* cap exceeds the batch workers and the speculation threads together, the *)
(* resolvers never lock each other up.                                     *)
(*                                                                         *)
(* A blocked holder is a batch worker or a leg, never a scan.  So the      *)
(* proof bounds the threads that can be blocked holders, and that bound    *)
(* rests on HoldersAreInside: nobody else is left holding a slot.          *)
(***************************************************************************)
EXTENDS ReadFanout, FiniteSetTheorems, TLAPS

\* TypeOK without the cap on holders, which is SlotPool's concern.
TypeBasic ==
    /\ speculates \in BOOLEAN
    /\ worker \in [Item -> WorkerPC]
    /\ leg \in [Item -> LegPC]
    /\ impl \in [Item -> ImplPC]
    /\ scan \in [Item -> [Scan -> ScanPC]]
    /\ outcome \in [Item -> {"none", "hit", "miss", "error"}]
    /\ committed \in [Item -> BOOLEAN]
    /\ holders \subseteq Thread

\* The second leg's progress fits the threads that can be running it.
LegAndImpl ==
    \A i \in Item :
        /\ worker[i] \in {"queued", "entering", "starting"} =>
              leg[i] = "none" /\ impl[i] = "none"
        /\ worker[i] = "entering" => i \in Batched
        /\ leg[i] \in {"queued", "entering", "cancelled"} => impl[i] = "none"
        /\ worker[i] \in {"asking", "geocoding", "deciding"} /\ leg[i] = "none" =>
              impl[i] \in {"none", "round1"}

\* Scans run only between the start and the end of a round.
ScansInRound ==
    \A i \in Item, k \in Scan :
        scan[i][k] # "idle" => impl[i] \in {"scans1", "scans2"}

\* A leg that is over has an answer or an error; a name whose worker is past
\* its miss either had no second leg or has settled with it.
LegSettled ==
    \A i \in Item :
        /\ leg[i] = "over" => impl[i] \in {"returned", "raised"}
        /\ worker[i] \in {"joining", "resolving"} => outcome[i] = "miss"
        /\ worker[i] = "resolving" => leg[i] = "none"
        /\ worker[i] \notin {"leaving", "done"} => ~committed[i]
        /\ worker[i] \in {"leaving", "done"} =>
              \/ outcome[i] # "miss" /\ ~committed[i]
              \/ leg[i] = "none" /\ impl[i] = "none" /\ ~committed[i]
              \/ /\ outcome[i] = "miss" /\ leg[i] \in {"none", "over"}
                 /\ impl[i] \in {"returned", "raised"}
                 /\ committed[i] <=> impl[i] = "returned"

\* _SPECULATE_POOL's size bounds the legs that can be holding a slot.
LegsBounded == IsFiniteSet(LegsRunning) /\ Cardinality(LegsRunning) <= SpecWorkers

IInv ==
    /\ TypeBasic
    /\ LegAndImpl
    /\ ScansInRound
    /\ LegSettled
    /\ HoldersAreInside
    /\ LegsBounded

-----------------------------------------------------------------------------
LEMMA TypeBasicInit == Init => TypeBasic
<1> SUFFICES ASSUME Init PROVE TypeBasic
  OBVIOUS
<1>1. committed \in [Item -> BOOLEAN]
  BY DEF Init
<1>2. QED
  BY <1>1 DEF Init, TypeBasic, WorkerPC, LegPC, ImplPC, ScanPC

LEMMA TypeBasicStep == TypeBasic /\ [Next]_vars => TypeBasic'
<1> SUFFICES ASSUME TypeBasic, [Next]_vars PROVE TypeBasic'
  OBVIOUS
<1> USE DEF TypeBasic, WorkerPC, LegPC, ImplPC, ScanPC, MoveWorker, MoveLeg, MoveImpl,
            LetGo, Slots!Acquire, Thread, Worker, Leg, Scanner
<1>1. ASSUME NEW i \in Item, PickUp(i) PROVE TypeBasic'
  BY <1>1 DEF PickUp
<1>2. ASSUME NEW i \in Item, EnterBatch(i) PROVE TypeBasic'
  BY <1>2 DEF EnterBatch
<1>3. ASSUME NEW i \in Item, Ask(i) PROVE TypeBasic'
  BY <1>3 DEF Ask
<1>4. ASSUME NEW i \in Item, Decide(i) PROVE TypeBasic'
  BY <1>4 DEF Decide, UseLeg2, CancelLeg
<1>5. ASSUME NEW i \in Item, Join(i) PROVE TypeBasic'
  BY <1>5 DEF Join
<1>6. ASSUME NEW i \in Item, FinishInline(i) PROVE TypeBasic'
  BY <1>6 DEF FinishInline
<1>7. ASSUME NEW i \in Item, Leave(i) PROVE TypeBasic'
  BY <1>7 DEF Leave
<1>8. ASSUME NEW i \in Item, StartLeg(i) PROVE TypeBasic'
  BY <1>8 DEF StartLeg
<1>9. ASSUME NEW i \in Item, EnterLeg(i) PROVE TypeBasic'
  BY <1>9 DEF EnterLeg
<1>10. ASSUME NEW i \in Item, LegWithoutCursor(i) PROVE TypeBasic'
  BY <1>10 DEF LegWithoutCursor
<1>11. ASSUME NEW i \in Item, FinishLeg(i) PROVE TypeBasic'
  BY <1>11 DEF FinishLeg
<1>12. ASSUME NEW i \in Item, NEW context \in BOOLEAN, Start(i, context)
      PROVE  TypeBasic'
  BY <1>12 DEF Start
<1>13. ASSUME NEW i \in Item, NEW found \in {"hit", "miss", "error"}, Geocode(i, found)
      PROVE  TypeBasic'
  BY <1>13 DEF Geocode
<1>14. ASSUME NEW i \in Item, NEW round \in {1, 2}, NEW jobs \in SUBSET Scan, RunRound(i, round, jobs)
      PROVE  TypeBasic'
  <2>1. CASE RunsInline(i, jobs)
    <3>1. scan' = scan /\ \E l \in {"round2", "returned"} : MoveImpl(i, l)
      BY <1>14, <2>1 DEF RunRound
    <3>2. QED
      BY <1>14, <3>1 DEF RunRound
  <2>2. CASE ~RunsInline(i, jobs)
    <3>1. /\ \E l \in {"scans1", "scans2"} : MoveImpl(i, l)
          /\ scan' = [scan EXCEPT ![i] =
                        [k \in Scan |-> IF k \in jobs THEN "entering" ELSE "idle"]]
      BY <1>14, <2>2 DEF RunRound
    <3>2. QED
      BY <1>14, <3>1 DEF RunRound
  <2>3. QED
    BY <2>1, <2>2
<1>15. ASSUME NEW i \in Item, NEW fails \in BOOLEAN, EndRound(i, fails)
      PROVE  TypeBasic'
  BY <1>15 DEF EndRound
<1>16. ASSUME NEW i \in Item, NEW k \in Scan, EnterScan(i, k) PROVE TypeBasic'
  BY <1>16 DEF EnterScan
<1>17. ASSUME NEW i \in Item, NEW k \in Scan, ScanWithoutCursor(i, k) PROVE TypeBasic'
  BY <1>17 DEF ScanWithoutCursor
<1>18. ASSUME NEW i \in Item, NEW k \in Scan, FinishScan(i, k) PROVE TypeBasic'
  BY <1>18 DEF FinishScan
<1>19. ASSUME AllAnswered \/ UNCHANGED vars PROVE TypeBasic'
  BY <1>19 DEF AllAnswered, vars
<1>20. QED
  BY <1>1, <1>2, <1>3, <1>4, <1>5, <1>6, <1>7, <1>8, <1>9, <1>10, <1>11,
     <1>12, <1>13, <1>14, <1>15, <1>16, <1>17, <1>18, <1>19 DEF Next, Step,
     TakeSlot, LoseCursor

-----------------------------------------------------------------------------
\* Where the threads of a name stand relative to each other.
PlaceInv == LegAndImpl /\ ScansInRound

LEMMA PlaceInvStep == TypeBasic /\ PlaceInv /\ [Next]_vars => PlaceInv'
<1> SUFFICES ASSUME TypeBasic, PlaceInv, [Next]_vars PROVE PlaceInv'
  OBVIOUS
<1> USE DEF PlaceInv, LegAndImpl, ScansInRound, TypeBasic, WorkerPC, LegPC, ImplPC, ScanPC,
            MoveWorker, MoveLeg, MoveImpl
<1>1. ASSUME NEW i \in Item, PickUp(i) PROVE PlaceInv'
  BY <1>1 DEF PickUp
<1>2. ASSUME NEW i \in Item, EnterBatch(i) PROVE PlaceInv'
  BY <1>2 DEF EnterBatch
<1>3. ASSUME NEW i \in Item, Ask(i) PROVE PlaceInv'
  BY <1>3 DEF Ask
<1>4. ASSUME NEW i \in Item, Decide(i) PROVE PlaceInv'
  <2>1. CASE UseLeg2(i)
    <3>1. \E l \in {"resolving", "joining"} : MoveWorker(i, l)
      BY <1>4, <2>1 DEF Decide
    <3>2. QED
      BY <1>4, <2>1, <3>1 DEF Decide
  <2>2. CASE ~UseLeg2(i)
    <3>1. /\ worker[i] = "deciding" /\ MoveWorker(i, "leaving")
          /\ leg' = [leg EXCEPT ![i] = IF leg[i] = "queued" THEN "cancelled" ELSE leg[i]]
          /\ impl' = [impl EXCEPT ![i] = IF leg[i] = "none" THEN "none" ELSE impl[i]]
          /\ scan' = scan
      BY <1>4, <2>2 DEF Decide, CancelLeg
    <3>2. LegAndImpl'
      BY <3>1
    <3>3. ScansInRound'
      BY <3>1
    <3>4. QED
      BY <3>2, <3>3
  <2>3. QED
    BY <2>1, <2>2
<1>5. ASSUME NEW i \in Item, Join(i) PROVE PlaceInv'
  BY <1>5 DEF Join
<1>6. ASSUME NEW i \in Item, FinishInline(i) PROVE PlaceInv'
  BY <1>6 DEF FinishInline
<1>7. ASSUME NEW i \in Item, Leave(i) PROVE PlaceInv'
  BY <1>7 DEF Leave
<1>8. ASSUME NEW i \in Item, StartLeg(i) PROVE PlaceInv'
  BY <1>8 DEF StartLeg
<1>9. ASSUME NEW i \in Item, EnterLeg(i) PROVE PlaceInv'
  BY <1>9 DEF EnterLeg
<1>10. ASSUME NEW i \in Item, LegWithoutCursor(i) PROVE PlaceInv'
  BY <1>10 DEF LegWithoutCursor
<1>11. ASSUME NEW i \in Item, FinishLeg(i) PROVE PlaceInv'
  BY <1>11 DEF FinishLeg
<1>12. ASSUME NEW i \in Item, NEW context \in BOOLEAN, Start(i, context)
      PROVE  PlaceInv'
  BY <1>12 DEF Start
<1>13. ASSUME NEW i \in Item, NEW found \in {"hit", "miss", "error"}, Geocode(i, found)
      PROVE  PlaceInv'
  BY <1>13 DEF Geocode
<1>14. ASSUME NEW i \in Item, NEW round \in {1, 2}, NEW jobs \in SUBSET Scan, RunRound(i, round, jobs)
      PROVE  PlaceInv'
  <2>1. CASE RunsInline(i, jobs)
    <3>1. scan' = scan /\ \E l \in {"round2", "returned"} : MoveImpl(i, l)
      BY <1>14, <2>1 DEF RunRound
    <3>2. QED
      BY <1>14, <3>1 DEF RunRound, Leg2Runs
  <2>2. CASE ~RunsInline(i, jobs)
    <3>1. /\ \E l \in {"scans1", "scans2"} : MoveImpl(i, l)
          /\ scan' = [scan EXCEPT ![i] =
                        [k \in Scan |-> IF k \in jobs THEN "entering" ELSE "idle"]]
      BY <1>14, <2>2 DEF RunRound
    <3>2. QED
      BY <1>14, <3>1 DEF RunRound, Leg2Runs
  <2>3. QED
    BY <2>1, <2>2
<1>15. ASSUME NEW i \in Item, NEW fails \in BOOLEAN, EndRound(i, fails)
      PROVE  PlaceInv'
  BY <1>15 DEF EndRound
<1>16. ASSUME NEW i \in Item, NEW k \in Scan, EnterScan(i, k) PROVE PlaceInv'
  BY <1>16 DEF EnterScan
<1>17. ASSUME NEW i \in Item, NEW k \in Scan, ScanWithoutCursor(i, k) PROVE PlaceInv'
  BY <1>17 DEF ScanWithoutCursor
<1>18. ASSUME NEW i \in Item, NEW k \in Scan, FinishScan(i, k) PROVE PlaceInv'
  BY <1>18 DEF FinishScan
<1>19. ASSUME AllAnswered \/ UNCHANGED vars PROVE PlaceInv'
  BY <1>19 DEF AllAnswered, vars
<1>20. QED
  BY <1>1, <1>2, <1>3, <1>4, <1>5, <1>6, <1>7, <1>8, <1>9, <1>10, <1>11,
     <1>12, <1>13, <1>14, <1>15, <1>16, <1>17, <1>18, <1>19 DEF Next, Step,
     TakeSlot, LoseCursor

LEMMA ThreadsDiffer ==
    /\ \A i, j : Worker(i) = Worker(j) => i = j
    /\ \A i, j : Leg(i) = Leg(j) => i = j
    /\ \A i, j, k, l : Scanner(i, k) = Scanner(j, l) => i = j /\ k = l
    /\ \A i, j : Worker(i) # Leg(j)
    /\ \A i, j : \A k \in Scan : Scanner(i, k) # Worker(j) /\ Scanner(i, k) # Leg(j)
BY ScanAssumption DEF Worker, Leg, Scanner

\* Slots are held where HoldersAreInside says.
LEMMA HoldersAreInsideStep ==
    TypeBasic /\ PlaceInv /\ HoldersAreInside /\ [Next]_vars => HoldersAreInside'
<1> SUFFICES ASSUME TypeBasic, PlaceInv, HoldersAreInside, [Next]_vars
             PROVE  HoldersAreInside'
  OBVIOUS
<1> USE ThreadsDiffer
        DEF HoldersAreInside, PlaceInv, LegAndImpl, ScansInRound, TypeBasic, WorkerPC, LegPC,
            ImplPC, ScanPC, MoveWorker, MoveLeg, MoveImpl, LetGo, Slots!Acquire
<1>1. ASSUME NEW i \in Item, PickUp(i) PROVE HoldersAreInside'
  BY <1>1 DEF PickUp
<1>2. ASSUME NEW i \in Item, EnterBatch(i) PROVE HoldersAreInside'
  BY <1>2 DEF EnterBatch
<1>3. ASSUME NEW i \in Item, Ask(i) PROVE HoldersAreInside'
  BY <1>3 DEF Ask
<1>4. ASSUME NEW i \in Item, Decide(i) PROVE HoldersAreInside'
  BY <1>4 DEF Decide, UseLeg2, CancelLeg
<1>5. ASSUME NEW i \in Item, Join(i) PROVE HoldersAreInside'
  BY <1>5 DEF Join
<1>6. ASSUME NEW i \in Item, FinishInline(i) PROVE HoldersAreInside'
  BY <1>6 DEF FinishInline
<1>7. ASSUME NEW i \in Item, Leave(i) PROVE HoldersAreInside'
  BY <1>7 DEF Leave
<1>8. ASSUME NEW i \in Item, StartLeg(i) PROVE HoldersAreInside'
  BY <1>8 DEF StartLeg
<1>9. ASSUME NEW i \in Item, EnterLeg(i) PROVE HoldersAreInside'
  BY <1>9 DEF EnterLeg
<1>10. ASSUME NEW i \in Item, LegWithoutCursor(i) PROVE HoldersAreInside'
  BY <1>10 DEF LegWithoutCursor
<1>11. ASSUME NEW i \in Item, FinishLeg(i) PROVE HoldersAreInside'
  BY <1>11 DEF FinishLeg
<1>12. ASSUME NEW i \in Item, NEW context \in BOOLEAN, Start(i, context)
      PROVE  HoldersAreInside'
  BY <1>12 DEF Start
<1>13. ASSUME NEW i \in Item, NEW found \in {"hit", "miss", "error"}, Geocode(i, found)
      PROVE  HoldersAreInside'
  BY <1>13 DEF Geocode
<1>14. ASSUME NEW i \in Item, NEW round \in {1, 2}, NEW jobs \in SUBSET Scan, RunRound(i, round, jobs)
      PROVE  HoldersAreInside'
  BY <1>14 DEF RunRound, Leg2Runs
<1>15. ASSUME NEW i \in Item, NEW fails \in BOOLEAN, EndRound(i, fails)
      PROVE  HoldersAreInside'
  BY <1>15 DEF EndRound
<1>16. ASSUME NEW i \in Item, NEW k \in Scan, EnterScan(i, k) PROVE HoldersAreInside'
  BY <1>16 DEF EnterScan
<1>17. ASSUME NEW i \in Item, NEW k \in Scan, ScanWithoutCursor(i, k) PROVE HoldersAreInside'
  BY <1>17 DEF ScanWithoutCursor
<1>18. ASSUME NEW i \in Item, NEW k \in Scan, FinishScan(i, k) PROVE HoldersAreInside'
  BY <1>18 DEF FinishScan
<1>19. ASSUME AllAnswered \/ UNCHANGED vars PROVE HoldersAreInside'
  BY <1>19 DEF AllAnswered, vars
<1>20. QED
  BY <1>1, <1>2, <1>3, <1>4, <1>5, <1>6, <1>7, <1>8, <1>9, <1>10, <1>11,
     <1>12, <1>13, <1>14, <1>15, <1>16, <1>17, <1>18, <1>19 DEF Next, Step,
     TakeSlot, LoseCursor

\* What a name's answer and its deferred writes come to.
LEMMA LegSettledStep ==
    TypeBasic /\ PlaceInv /\ LegSettled /\ [Next]_vars => LegSettled'
<1> SUFFICES ASSUME TypeBasic, PlaceInv, LegSettled, [Next]_vars PROVE LegSettled'
  OBVIOUS
<1> USE DEF LegSettled, PlaceInv, LegAndImpl, TypeBasic, WorkerPC, LegPC, ImplPC,
            MoveWorker, MoveLeg, MoveImpl
<1>1. ASSUME NEW i \in Item, PickUp(i) PROVE LegSettled'
  BY <1>1 DEF PickUp
<1>2. ASSUME NEW i \in Item, EnterBatch(i) PROVE LegSettled'
  BY <1>2 DEF EnterBatch
<1>3. ASSUME NEW i \in Item, Ask(i) PROVE LegSettled'
  BY <1>3 DEF Ask
<1>4. ASSUME NEW i \in Item, Decide(i) PROVE LegSettled'
  BY <1>4 DEF Decide, UseLeg2, CancelLeg
<1>5. ASSUME NEW i \in Item, Join(i) PROVE LegSettled'
  BY <1>5 DEF Join
<1>6. ASSUME NEW i \in Item, FinishInline(i) PROVE LegSettled'
  BY <1>6 DEF FinishInline
<1>7. ASSUME NEW i \in Item, Leave(i) PROVE LegSettled'
  BY <1>7 DEF Leave
<1>8. ASSUME NEW i \in Item, StartLeg(i) PROVE LegSettled'
  BY <1>8 DEF StartLeg
<1>9. ASSUME NEW i \in Item, EnterLeg(i) PROVE LegSettled'
  BY <1>9 DEF EnterLeg
<1>10. ASSUME NEW i \in Item, LegWithoutCursor(i) PROVE LegSettled'
  BY <1>10 DEF LegWithoutCursor
<1>11. ASSUME NEW i \in Item, FinishLeg(i) PROVE LegSettled'
  BY <1>11 DEF FinishLeg
<1>12. ASSUME NEW i \in Item, NEW context \in BOOLEAN, Start(i, context)
      PROVE  LegSettled'
  BY <1>12 DEF Start
<1>13. ASSUME NEW i \in Item, NEW found \in {"hit", "miss", "error"}, Geocode(i, found)
      PROVE  LegSettled'
  BY <1>13 DEF Geocode
<1>14. ASSUME NEW i \in Item, NEW round \in {1, 2}, NEW jobs \in SUBSET Scan, RunRound(i, round, jobs)
      PROVE  LegSettled'
  BY <1>14 DEF RunRound, Leg2Runs
<1>15. ASSUME NEW i \in Item, NEW fails \in BOOLEAN, EndRound(i, fails)
      PROVE  LegSettled'
  BY <1>15 DEF EndRound
<1>16. ASSUME NEW i \in Item, NEW k \in Scan, EnterScan(i, k) PROVE LegSettled'
  BY <1>16 DEF EnterScan
<1>17. ASSUME NEW i \in Item, NEW k \in Scan, ScanWithoutCursor(i, k) PROVE LegSettled'
  BY <1>17 DEF ScanWithoutCursor
<1>18. ASSUME NEW i \in Item, NEW k \in Scan, FinishScan(i, k) PROVE LegSettled'
  BY <1>18 DEF FinishScan
<1>19. ASSUME AllAnswered \/ UNCHANGED vars PROVE LegSettled'
  BY <1>19 DEF AllAnswered, vars
<1>20. QED
  BY <1>1, <1>2, <1>3, <1>4, <1>5, <1>6, <1>7, <1>8, <1>9, <1>10, <1>11,
     <1>12, <1>13, <1>14, <1>15, <1>16, <1>17, <1>18, <1>19 DEF Next, Step,
     TakeSlot, LoseCursor

LEMMA LegsBoundedStep == TypeBasic /\ LegsBounded /\ [Next]_vars => LegsBounded'
<1> SUFFICES ASSUME TypeBasic, LegsBounded, [Next]_vars PROVE LegsBounded'
  OBVIOUS
<1>1. ASSUME LegsRunning' \in SUBSET LegsRunning PROVE LegsBounded'
  <2>1. /\ IsFiniteSet(LegsRunning') /\ Cardinality(LegsRunning') <= Cardinality(LegsRunning)
        /\ Cardinality(LegsRunning') \in Nat /\ Cardinality(LegsRunning) \in Nat
    BY <1>1, FS_Subset, FS_CardinalityType DEF LegsBounded
  <2>2. QED
    BY <2>1, SpecWorkersAssumption DEF LegsBounded
<1>2. ASSUME NEW i \in Item, StartLeg(i) PROVE LegsBounded'
  <2>1. LegsRunning' = LegsRunning \cup {i}
    BY <1>2 DEF StartLeg, MoveLeg, LegsRunning, OnSpecThread, TypeBasic
  <2>2. Cardinality(LegsRunning) < SpecWorkers /\ Cardinality(LegsRunning) \in Nat
    BY <1>2, FS_CardinalityType DEF StartLeg, LegsBounded
  <2>3. /\ IsFiniteSet(LegsRunning \cup {i})
        /\ Cardinality(LegsRunning \cup {i}) \in {Cardinality(LegsRunning),
                                                 Cardinality(LegsRunning) + 1}
    BY FS_AddElement DEF LegsBounded
  <2>4. QED
    BY <2>1, <2>2, <2>3, SpecWorkersAssumption DEF LegsBounded
<1>3. ASSUME NEW i \in Item,
             \/ FinishLeg(i) \/ EnterLeg(i) \/ Decide(i)
             \/ \E context \in BOOLEAN : Start(i, context)
      PROVE  LegsBounded'
  <2>1. LegsRunning' \in SUBSET LegsRunning
    BY <1>3 DEF FinishLeg, EnterLeg, Start, Decide, CancelLeg, MoveLeg, LegsRunning,
                OnSpecThread, TypeBasic
  <2>2. QED
    BY <1>1, <2>1
<1>4. ASSUME leg' = leg PROVE LegsBounded'
  BY <1>1, <1>4 DEF LegsRunning
<1>5. QED
  BY <1>2, <1>3, <1>4
     DEF Next, Step, TakeSlot, LoseCursor, AllAnswered, vars, PickUp, EnterBatch, Ask,
         Geocode, Join, FinishInline, Leave, LegWithoutCursor, RunRound, EndRound,
         EnterScan, ScanWithoutCursor, FinishScan

-----------------------------------------------------------------------------
(* The invariant, and what follows from it.                                *)

LEMMA IInvInit == Init => IInv
<1> SUFFICES ASSUME Init PROVE IInv
  OBVIOUS
<1>1. LegAndImpl /\ ScansInRound
  BY DEF Init, LegAndImpl, ScansInRound
<1>2. LegSettled
  BY DEF Init, LegSettled
<1>3. HoldersAreInside
  BY DEF Init, HoldersAreInside
<1>4. LegsRunning = {}
  BY DEF Init, LegsRunning, OnSpecThread
<1>5. LegsBounded
  BY <1>4, FS_EmptySet, SpecWorkersAssumption DEF LegsBounded
<1>6. QED
  BY <1>1, <1>2, <1>3, <1>5, TypeBasicInit DEF IInv

LEMMA IInvStep == IInv /\ [Next]_vars => IInv'
BY TypeBasicStep, PlaceInvStep, LegSettledStep, HoldersAreInsideStep, LegsBoundedStep
   DEF IInv, PlaceInv

\* Every state of the resolvers satisfies the strengthened invariant.
THEOREM Inductive == Spec => []IInv
<1>1. Init => IInv
  BY IInvInit
<1>2. IInv /\ [Next]_vars => IInv'
  BY IInvStep
<1>3. QED
  BY <1>1, <1>2, PTL DEF Spec

\* No thread keeps a read slot beyond its isolated_reads() block.
THEOREM Inside == Spec => []HoldersAreInside
<1>1. IInv => HoldersAreInside
  BY DEF IInv
<1>2. QED
  BY <1>1, Inductive, PTL

\* The deferred writes of a speculative leg are applied exactly when it is used.
THEOREM Deferred == Spec => []CommitsOnlyWhenUsed
<1>1. IInv => CommitsOnlyWhenUsed
  BY DEF IInv, TypeBasic, LegSettled, CommitsOnlyWhenUsed, WorkerPC
<1>2. QED
  BY <1>1, Inductive, PTL

LEMMA BlockedHolders ==
    ASSUME IInv, NEW t \in holders, Blocked(t)
    PROVE  \/ \E i \in Batched : t = Worker(i)
           \/ \E i \in LegsRunning : t = Leg(i)
<1>1. t \in Item \X ({"worker", "leg"} \cup Scan)
  BY DEF IInv, TypeBasic, Thread
<1> DEFINE R == {"worker", "leg"} \cup Scan
<1>2. t = <<t[1], t[2]>> /\ t[1] \in Item /\ t[2] \in R
  <2> HIDE DEF R
  <2>1. t \in Item \X R
    BY <1>1 DEF R
  <2>2. QED
    BY <2>1
<1>3. PICK i \in Item, role \in R : t = <<i, role>>
  BY <1>2
<1>4. t[1] = i
  BY <1>3
<1>5. CASE t = Worker(i)
  <2>1. worker[i] \in {"joining", "resolving"}
    BY <1>4, <1>5, ThreadsDiffer DEF Blocked
  <2>2. i \in Batched
    BY <1>5, <2>1 DEF IInv, HoldersAreInside
  <2>3. QED
    BY <1>5, <2>2
<1>6. CASE t = Leg(i)
  BY <1>6 DEF IInv, HoldersAreInside, LegsRunning, OnSpecThread
<1>7. QED
  BY <1>4, <1>5, <1>6 DEF Blocked

\* With more slots than batch workers and speculation threads together, a full
\* pool always has a holder that can go on: _SPECULATE_WORKERS bounds the legs,
\* but nothing in the code bounds a batch accordingly (read_fanout_batch).
THEOREM NoLockup ==
    ASSUME Cardinality(Batched) + SpecWorkers < Cap
    PROVE  Spec => []SomeHolderRuns
<1>1. ASSUME IInv PROVE SomeHolderRuns
  <2>1. SUFFICES ASSUME Cardinality(holders) = Cap, \A t \in holders : Blocked(t)
                 PROVE  FALSE
    BY DEF SomeHolderRuns
  <2> DEFINE workers == {Worker(i) : i \in Batched}
             legs == {Leg(i) : i \in LegsRunning}
             f == [i \in Batched |-> Worker(i)]
             g == [i \in LegsRunning |-> Leg(i)]
  <2>2. IsFiniteSet(Batched) /\ IsFiniteSet(LegsRunning)
    BY <1>1, BatchAssumption DEF IInv, LegsBounded
  <2>3. f \in Surjection(Batched, workers) /\ g \in Surjection(LegsRunning, legs)
    BY DEF Surjection
  <2>4. /\ IsFiniteSet(workers) /\ Cardinality(workers) <= Cardinality(Batched)
        /\ IsFiniteSet(legs) /\ Cardinality(legs) <= Cardinality(LegsRunning)
    BY <2>2, <2>3, FS_Surjection
  <2>5. holders \in SUBSET (workers \cup legs)
    BY <1>1, <2>1, BlockedHolders
  <2>6. /\ IsFiniteSet(workers \cup legs) /\ IsFiniteSet(workers \cap legs)
        /\ Cardinality(workers \cup legs) =
              Cardinality(workers) + Cardinality(legs) - Cardinality(workers \cap legs)
    BY <2>4, FS_Union, FS_Intersection
  <2>7. IsFiniteSet(holders) /\ Cardinality(holders) <= Cardinality(workers \cup legs)
    BY <2>5, <2>6, FS_Subset
  <2>8. /\ Cardinality(workers) \in Nat /\ Cardinality(legs) \in Nat
        /\ Cardinality(workers \cap legs) \in Nat /\ Cardinality(holders) \in Nat
        /\ Cardinality(Batched) \in Nat /\ Cardinality(LegsRunning) \in Nat
    BY <2>2, <2>4, <2>6, <2>7, FS_CardinalityType
  <2>9. Cardinality(LegsRunning) <= SpecWorkers
    BY <1>1 DEF IInv, LegsBounded
  <2>10. QED
    BY <2>1, <2>4, <2>6, <2>7, <2>8, <2>9, CapAssumption, SpecWorkersAssumption
<1>2. QED
  BY <1>1, Inductive, PTL

-----------------------------------------------------------------------------
(* Holders only grow by Acquire, which looks at their number.              *)

WithinCap == IsFiniteSet(holders) /\ Cardinality(holders) <= Cap

LEMMA WithinCapInit == Init => WithinCap
BY FS_EmptySet, CapAssumption DEF Init, WithinCap

LEMMA WithinCapStep == WithinCap /\ [Next]_vars => WithinCap'
<1> SUFFICES ASSUME WithinCap, [Next]_vars PROVE WithinCap'
  OBVIOUS
<1>1. ASSUME holders' \subseteq holders PROVE WithinCap'
  <2>1. /\ IsFiniteSet(holders') /\ Cardinality(holders') <= Cardinality(holders)
        /\ Cardinality(holders') \in Nat /\ Cardinality(holders) \in Nat
    BY <1>1, FS_Subset, FS_CardinalityType DEF WithinCap
  <2>2. QED
    BY <2>1, CapAssumption DEF WithinCap
<1>2. ASSUME NEW t, Slots!Acquire(t) PROVE WithinCap'
  <2>1. Slots!Cardinality(holders) = Cardinality(holders)
    BY Zenon DEF Slots!Cardinality, Cardinality
  <2>2. /\ Cardinality(holders) < Cap /\ t \notin holders /\ holders' = holders \cup {t}
    BY <1>2, <2>1 DEF Slots!Acquire
  <2>3. /\ IsFiniteSet(holders') /\ Cardinality(holders') = Cardinality(holders) + 1
        /\ Cardinality(holders) \in Nat
    BY <2>2, FS_AddElement, FS_CardinalityType DEF WithinCap
  <2>4. QED
    BY <2>2, <2>3, CapAssumption DEF WithinCap
<1>3. ASSUME NEW i \in Item, Step(i) PROVE WithinCap'
  <2>1. CASE PickUp(i) \/ Decide(i) \/ Join(i) \/ FinishInline(i) \/ Leave(i) \/ FinishLeg(i)
    BY <1>1, <2>1 DEF PickUp, Decide, Join, FinishInline, Leave, FinishLeg, LetGo
  <2>2. CASE \E context \in BOOLEAN : Start(i, context)
    BY <1>1, <2>2 DEF Start
  <2>3. CASE \E found \in {"hit", "miss", "error"} : Geocode(i, found)
    BY <1>1, <2>3 DEF Geocode, LetGo
  <2>4. CASE \E round \in {1, 2}, jobs \in SUBSET Scan : RunRound(i, round, jobs)
    BY <1>1, <2>4 DEF RunRound
  <2>5. CASE \E fails \in BOOLEAN : EndRound(i, fails)
    BY <1>1, <2>5 DEF EndRound
  <2>6. CASE \E k \in Scan : FinishScan(i, k)
    BY <1>1, <2>6 DEF FinishScan, LetGo
  <2>7. QED
    BY <1>3, <2>1, <2>2, <2>3, <2>4, <2>5, <2>6 DEF Step
<1>4. ASSUME NEW i \in Item, TakeSlot(i) PROVE WithinCap'
  BY <1>2, <1>4 DEF TakeSlot, EnterBatch, Ask, EnterLeg, EnterScan
<1>5. ASSUME NEW i \in Item, StartLeg(i) \/ LoseCursor(i) PROVE WithinCap'
  BY <1>1, <1>5 DEF StartLeg, LoseCursor, LegWithoutCursor, ScanWithoutCursor, LetGo
<1>6. CASE AllAnswered \/ UNCHANGED vars
  BY <1>1, <1>6 DEF AllAnswered, vars
<1>7. QED
  BY <1>3, <1>4, <1>5, <1>6 DEF Next

\* Every variable keeps its type, and never do more threads than the cap hold a
\* slot, whatever the names, scans and the cap.
THEOREM TypeCorrect == Spec => []TypeOK
<1>1. IInv /\ WithinCap => TypeOK
  BY DEF IInv, TypeBasic, WithinCap, TypeOK
<1>2. QED
  BY <1>1, WithinCapInit, WithinCapStep, Inductive, PTL DEF Spec
=============================================================================
