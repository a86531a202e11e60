-------------------------- MODULE CursorPoolProofs --------------------------
(***************************************************************************)
(* Proofs about CursorPool, for any finite set of threads, any set of      *)
(* cursors, any cap and any nesting depth.                                 *)
(*                                                                         *)
(* None of the safety invariants is inductive by itself.  IInv adds what   *)
(* they rest on: the slot count moves with the threads inside lease(), and *)
(* every open cursor is idle, leased, or being drained.                    *)
(***************************************************************************)
EXTENDS CursorPool, FiniteSetTheorems, TLAPS

\* TypeOK without the upper bound of the semaphore, which the count gives.
TypeBasic ==
    /\ pc \in [Thread -> PC]
    /\ cur \in [Thread -> Cursor \cup {NoCursor}]
    /\ scope \in [Thread -> Scope]
    /\ nest \in [Thread -> 0..MaxNest]
    /\ slots \in Nat
    /\ idle \subseteq Cursor
    /\ closed \in BOOLEAN
    /\ draining \subseteq Cursor
    /\ live \in Int
    /\ open \subseteq Cursor

\* Outside a lease the local `cur` is dead.
CursorIffLeased ==
    \A t \in Thread :
        /\ pc[t] \in WithCursor => cur[t] \in Cursor
        /\ pc[t] \notin WithCursor => cur[t] = NoCursor

\* From the moment it asks for a slot to the end of its block, a thread has a
\* thread-local set, so whatever it enters meanwhile borrows.
ScopeWhileLeasing ==
    \A t \in Thread : pc[t] \in {"waiting", "granted", "opening", "counting", "reading"}
                       => scope[t] # "none"

\* An open cursor is idle, being drained, or the cursor of one lease.
OpenAccounted ==
    /\ idle \subseteq open /\ draining \subseteq open
    /\ idle \cap draining = {}
    /\ IF closed THEN idle = {} ELSE draining = {}
    /\ \A c \in open \ (idle \cup draining) :
          \E t \in Thread : pc[t] \in WithCursor /\ cur[t] = c

\* A slot per idle cursor and per lease that has a cursor or is opening one.
\* A thread past _take_idle() found no idle cursor, so the sum is then at
\* most the number of slots taken; afterwards nothing increases it.
CursorsFitSlots ==
    /\ IsFiniteSet(idle)
    /\ Cardinality(idle) + Cardinality(HoldersAt(WithCursor \cup {"opening"})) <= Cap

\* self.live lags behind the cursors that are open by those just opened, and
\* ahead of them by those just closed.
LiveFollows ==
    /\ IsFiniteSet(open)
    /\ live = Cardinality(open) - Cardinality(HoldersAt({"counting"}))
                                + Cardinality(HoldersAt({"uncounting"}))

IInv ==
    /\ TypeBasic
    /\ SlotsConserved
    /\ CursorIffLeased
    /\ ScopeWhileLeasing
    /\ CursorExclusive
    /\ OpenAccounted
    /\ CursorsFitSlots
    /\ LiveFollows

-----------------------------------------------------------------------------
(* Threads and where they are.                                             *)

LEMMA HoldersFinite ==
    ASSUME NEW S
    PROVE  IsFiniteSet(HoldersAt(S)) /\ Cardinality(HoldersAt(S)) \in Nat
<1>1. HoldersAt(S) \in SUBSET Thread
  BY DEF HoldersAt
<1>2. IsFiniteSet(HoldersAt(S))
  BY <1>1, ThreadAssumption, FS_Subset
<1>3. QED
  BY <1>2, FS_CardinalityType

\* One thread moves from one program point to another.
LEMMA OneThreadMoves ==
    ASSUME NEW t \in Thread, NEW l, NEW S,
           pc \in [Thread -> PC], Goto(t, l)
    PROVE  /\ HoldersAt(S)' = IF l \in S THEN HoldersAt(S) \cup {t} ELSE HoldersAt(S) \ {t}
           /\ Cardinality(HoldersAt(S)') =
                 Cardinality(HoldersAt(S)) + (IF l \in S THEN 1 ELSE 0)
                                           - (IF pc[t] \in S THEN 1 ELSE 0)
<1>1. HoldersAt(S)' = IF l \in S THEN HoldersAt(S) \cup {t} ELSE HoldersAt(S) \ {t}
  BY DEF HoldersAt, Goto
<1>2. t \in HoldersAt(S) <=> pc[t] \in S
  BY DEF HoldersAt
<1>3. IsFiniteSet(HoldersAt(S)) /\ Cardinality(HoldersAt(S)) \in Nat
  BY HoldersFinite
<1>4. Cardinality(HoldersAt(S) \cup {t}) =
        IF t \in HoldersAt(S) THEN Cardinality(HoldersAt(S)) ELSE Cardinality(HoldersAt(S)) + 1
  BY <1>3, FS_AddElement
<1>5. Cardinality(HoldersAt(S) \ {t}) =
        IF t \in HoldersAt(S) THEN Cardinality(HoldersAt(S)) - 1 ELSE Cardinality(HoldersAt(S))
  BY <1>3, FS_RemoveElement
<1>6. QED
  BY <1>1, <1>2, <1>3, <1>4, <1>5

LEMMA NobodyMoves ==
    ASSUME NEW S, pc' = pc
    PROVE  HoldersAt(S)' = HoldersAt(S)
BY DEF HoldersAt

-----------------------------------------------------------------------------
(* Type correctness, with the semaphore only known not to be negative.     *)

LEMMA TypeBasicInit == Init => TypeBasic
<1> SUFFICES ASSUME Init PROVE TypeBasic
  OBVIOUS
<1>1. closed \in BOOLEAN
  BY Zenon DEF Init
<1>2. 0 \in 0..MaxNest /\ slots \in Nat /\ live \in Int
  BY CapAssumption, MaxNestAssumption DEF Init
<1>3. pc \in [Thread -> PC] /\ scope \in [Thread -> Scope]
  BY DEF Init, PC, Scope
<1>4. nest \in [Thread -> 0..MaxNest]
  BY <1>2 DEF Init
<1>5. QED
  BY <1>1, <1>2, <1>3, <1>4 DEF Init, TypeBasic

LEMMA TypeBasicStep == TypeBasic /\ CursorIffLeased /\ [Next]_vars => TypeBasic'
<1> SUFFICES ASSUME TypeBasic, CursorIffLeased, [Next]_vars PROVE TypeBasic'
  OBVIOUS
<1> USE MaxNestAssumption DEF TypeBasic, PC, Scope, Goto
<1>1. ASSUME NEW t \in Thread, NEW kind \in Scope, Enter(t, kind) PROVE TypeBasic'
  BY <1>1 DEF Enter, Reuses, CallerKinds
<1>2. ASSUME NEW t \in Thread, Acquire(t) PROVE TypeBasic'
  BY <1>2 DEF Acquire
<1>3. ASSUME NEW t \in Thread, TakeIdle(t) PROVE TypeBasic'
  BY <1>3 DEF TakeIdle
<1>4. ASSUME NEW t \in Thread, OpenCursor(t) PROVE TypeBasic'
  BY <1>4 DEF OpenCursor
<1>5. ASSUME NEW t \in Thread, OpenFails(t) PROVE TypeBasic'
  BY <1>5 DEF OpenFails
<1>6. ASSUME NEW t \in Thread, CountCursor(t) PROVE TypeBasic'
  BY <1>6 DEF CountCursor
<1>7. ASSUME NEW t \in Thread, NEW raised \in BOOLEAN, Exit(t, raised) PROVE TypeBasic'
  BY <1>7 DEF Exit
<1>8. ASSUME NEW t \in Thread, ExitNested(t) PROVE TypeBasic'
  <2>1. nest[t] - 1 \in 0..MaxNest
    BY <1>8 DEF ExitNested
  <2>2. QED
    BY <1>8, <2>1 DEF ExitNested
<1>9. ASSUME NEW t \in Thread, GiveBack(t) PROVE TypeBasic'
  <2>1. cur[t] \in Cursor
    BY <1>9 DEF GiveBack, CursorIffLeased, WithCursor
  <2>2. QED
    BY <1>9, <2>1 DEF GiveBack
<1>10. ASSUME NEW t \in Thread, CloseCursor(t) PROVE TypeBasic'
  BY <1>10 DEF CloseCursor
<1>11. ASSUME NEW t \in Thread, Uncount(t) PROVE TypeBasic'
  BY <1>11 DEF Uncount
<1>12. ASSUME NEW t \in Thread, ReleaseSlot(t) PROVE TypeBasic'
  BY <1>12 DEF ReleaseSlot
<1>13. CASE Close
  BY <1>13 DEF Close
<1>14. CASE DrainOne
  BY <1>14 DEF DrainOne
<1>15. CASE UNCHANGED vars
  BY <1>15 DEF vars
<1>16. QED
  BY <1>1, <1>2, <1>3, <1>4, <1>5, <1>6, <1>7, <1>8, <1>9, <1>10, <1>11, <1>12,
     <1>13, <1>14, <1>15 DEF Next, Continue

-----------------------------------------------------------------------------
(* The semaphore.                                                          *)

\* Seen from the semaphore a step takes a slot, gives one back, or neither.
LEMMA SlotSteps ==
    ASSUME TypeBasic, ScopeWhileLeasing, [Next]_vars
    PROVE  \/ \E t \in Thread : Acquire(t)
           \/ \E t \in Thread : ReleaseSlot(t)
           \/ slots' = slots /\ HoldersAt(Holding)' = HoldersAt(Holding)
<1> DEFINE Stays == slots' = slots /\ HoldersAt(Holding)' = HoldersAt(Holding)
<1>1. ASSUME NEW t \in Thread, NEW l \in Holding, pc[t] \in Holding, Goto(t, l)
      PROVE  HoldersAt(Holding)' = HoldersAt(Holding)
  BY <1>1 DEF HoldersAt, Goto, TypeBasic
<1>2. ASSUME NEW t \in Thread, NEW kind \in Scope, Enter(t, kind) PROVE Stays
  <2>1. CASE pc' = pc
    BY <1>2, <2>1, NobodyMoves DEF Enter
  <2>2. CASE Goto(t, "waiting")
    <3>1. pc[t] = "out"
      BY <1>2, <2>2 DEF Enter, Goto, Reuses, CallerKinds, TypeBasic, Scope,
                          ScopeWhileLeasing
    <3>2. QED
      BY <1>2, <2>2, <3>1 DEF Enter, Goto, HoldersAt, Holding, TypeBasic, PC
  <2>3. QED
    BY <1>2, <2>1, <2>2 DEF Enter
<1>3. ASSUME NEW t \in Thread, TakeIdle(t) PROVE Stays
  <2>1. \E l \in {"opening", "reading"} : Goto(t, l)
    BY <1>3 DEF TakeIdle
  <2>2. QED
    BY <1>1, <1>3, <2>1 DEF TakeIdle, Holding, PC
<1>4. ASSUME NEW t \in Thread, OpenCursor(t) \/ OpenFails(t) \/ CountCursor(t) PROVE Stays
  <2>1. \E l \in {"counting", "releasing", "reading"} : Goto(t, l)
    BY <1>4 DEF OpenCursor, OpenFails, CountCursor
  <2>2. pc[t] \in Holding /\ slots' = slots
    BY <1>4 DEF OpenCursor, OpenFails, CountCursor, Holding, PC
  <2>3. QED
    BY <1>1, <2>1, <2>2 DEF Holding, PC
<1>5. ASSUME NEW t \in Thread, NEW raised \in BOOLEAN, Exit(t, raised) PROVE Stays
  <2>1. \E l \in {"closing", "returning"} : Goto(t, l)
    BY <1>5 DEF Exit
  <2>2. QED
    BY <1>1, <1>5, <2>1 DEF Exit, Holding, PC
<1>6. ASSUME NEW t \in Thread, GiveBack(t) PROVE Stays
  <2>1. \E l \in {"closing", "releasing"} : Goto(t, l)
    BY <1>6 DEF GiveBack
  <2>2. QED
    BY <1>1, <1>6, <2>1 DEF GiveBack, Holding, PC
<1>7. ASSUME NEW t \in Thread, CloseCursor(t) \/ Uncount(t) PROVE Stays
  <2>1. \E l \in {"uncounting", "releasing"} : Goto(t, l)
    BY <1>7 DEF CloseCursor, Uncount
  <2>2. pc[t] \in Holding /\ slots' = slots
    BY <1>7 DEF CloseCursor, Uncount, Holding, PC
  <2>3. QED
    BY <1>1, <2>1, <2>2 DEF Holding, PC
<1>8. ASSUME NEW t \in Thread, ExitNested(t) PROVE Stays
  BY <1>8, NobodyMoves DEF ExitNested
<1>9. CASE Close \/ DrainOne \/ UNCHANGED vars
  BY <1>9, NobodyMoves DEF Close, DrainOne, vars
<1>10. QED
  BY <1>2, <1>3, <1>4, <1>5, <1>6, <1>7, <1>8, <1>9 DEF Next, Continue

LEMMA SlotsConservedInit == Init => SlotsConserved
<1> SUFFICES ASSUME Init PROVE SlotsConserved
  OBVIOUS
<1>1. HoldersAt(Holding) = {}
  BY DEF Init, HoldersAt, Holding
<1>2. QED
  BY <1>1, FS_EmptySet, CapAssumption DEF Init, SlotsConserved

LEMMA SlotsConservedStep ==
    TypeBasic /\ ScopeWhileLeasing /\ SlotsConserved /\ [Next]_vars => SlotsConserved'
<1> SUFFICES ASSUME TypeBasic, ScopeWhileLeasing, SlotsConserved, [Next]_vars PROVE SlotsConserved'
  OBVIOUS
<1>1. Cardinality(HoldersAt(Holding)) \in Nat
  BY HoldersFinite
<1>2. ASSUME NEW t \in Thread, Acquire(t) PROVE SlotsConserved'
  <2>1. Goto(t, "granted") /\ pc[t] \notin Holding /\ "granted" \in Holding
    BY <1>2 DEF Acquire, Holding, PC
  <2>2. Cardinality(HoldersAt(Holding)') = Cardinality(HoldersAt(Holding)) + 1
    BY <1>1, <2>1, OneThreadMoves DEF TypeBasic
  <2>3. QED
    BY <1>1, <1>2, <2>2, CapAssumption DEF Acquire, SlotsConserved, TypeBasic
<1>3. ASSUME NEW t \in Thread, ReleaseSlot(t) PROVE SlotsConserved'
  <2>1. Goto(t, "out") /\ pc[t] \in Holding /\ "out" \notin Holding
    BY <1>3 DEF ReleaseSlot, Holding, PC
  <2>2. Cardinality(HoldersAt(Holding)') = Cardinality(HoldersAt(Holding)) - 1
    BY <1>1, <2>1, OneThreadMoves DEF TypeBasic
  <2>3. QED
    BY <1>1, <1>3, <2>2, CapAssumption DEF ReleaseSlot, SlotsConserved, TypeBasic
<1>4. CASE slots' = slots /\ HoldersAt(Holding)' = HoldersAt(Holding)
  BY <1>4 DEF SlotsConserved
<1>5. QED
  BY <1>2, <1>3, <1>4, SlotSteps

-----------------------------------------------------------------------------
(* Which cursor is where.                                                  *)

\* What a thread knows of its own cursor and thread-locals.
LeaseInv == CursorIffLeased /\ ScopeWhileLeasing

LEMMA LeaseInvStep == TypeBasic /\ OpenAccounted /\ LeaseInv /\ [Next]_vars => LeaseInv'
<1> SUFFICES ASSUME TypeBasic, OpenAccounted, LeaseInv, [Next]_vars PROVE LeaseInv'
  OBVIOUS
<1> USE DEF LeaseInv, CursorIffLeased, ScopeWhileLeasing, TypeBasic, WithCursor, Scope, Goto
<1>1. ASSUME NEW t \in Thread, NEW kind \in Scope, Enter(t, kind) PROVE LeaseInv'
  <2>1. CASE Reuses(t, kind)
    BY <1>1, <2>1 DEF Enter
  <2>2. CASE ~Reuses(t, kind)
    <3>1. pc[t] = "out" /\ kind # "none"
      BY <1>1, <2>2 DEF Enter, Reuses, CallerKinds
    <3>2. QED
      BY <1>1, <2>2, <3>1 DEF Enter
  <2>3. QED
    BY <2>1, <2>2
<1>2. ASSUME NEW t \in Thread, Acquire(t) PROVE LeaseInv'
  BY <1>2 DEF Acquire
<1>3. ASSUME NEW t \in Thread, TakeIdle(t) PROVE LeaseInv'
  BY <1>3 DEF TakeIdle
<1>4. ASSUME NEW t \in Thread, OpenCursor(t) PROVE LeaseInv'
  BY <1>4 DEF OpenCursor
<1>5. ASSUME NEW t \in Thread, OpenFails(t) PROVE LeaseInv'
  BY <1>5 DEF OpenFails
<1>6. ASSUME NEW t \in Thread, CountCursor(t) PROVE LeaseInv'
  BY <1>6 DEF CountCursor
<1>7. ASSUME NEW t \in Thread, NEW raised \in BOOLEAN, Exit(t, raised) PROVE LeaseInv'
  BY <1>7 DEF Exit
<1>8. ASSUME NEW t \in Thread, ExitNested(t) PROVE LeaseInv'
  BY <1>8 DEF ExitNested
<1>9. ASSUME NEW t \in Thread, GiveBack(t) PROVE LeaseInv'
  BY <1>9 DEF GiveBack
<1>10. ASSUME NEW t \in Thread, CloseCursor(t) PROVE LeaseInv'
  BY <1>10 DEF CloseCursor
<1>11. ASSUME NEW t \in Thread, Uncount(t) PROVE LeaseInv'
  BY <1>11 DEF Uncount
<1>12. ASSUME NEW t \in Thread, ReleaseSlot(t) PROVE LeaseInv'
  BY <1>12 DEF ReleaseSlot
<1>13. CASE Close \/ DrainOne \/ UNCHANGED vars
  BY <1>13 DEF Close, DrainOne, vars
<1>14. QED
  BY <1>1, <1>2, <1>3, <1>4, <1>5, <1>6, <1>7, <1>8, <1>9, <1>10, <1>11, <1>12,
     <1>13 DEF Next, Continue

\* What the pool, the leases and DuckDB agree on.
OwnInv == CursorExclusive /\ OpenAccounted

LEMMA OwnInvStep == TypeBasic /\ LeaseInv /\ OwnInv /\ [Next]_vars => OwnInv'
<1> SUFFICES ASSUME TypeBasic, LeaseInv, OwnInv, [Next]_vars PROVE OwnInv'
  OBVIOUS
<1> USE DEF OwnInv, CursorExclusive, OpenAccounted, LeaseInv, CursorIffLeased,
            TypeBasic, WithCursor, Goto
<1>1. ASSUME NEW t \in Thread, NEW kind \in Scope, Enter(t, kind) PROVE OwnInv'
  <2>1. CASE Reuses(t, kind)
    BY <1>1, <2>1 DEF Enter
  <2>2. CASE ~Reuses(t, kind)
    <3>1. pc[t] = "out"
      BY <1>1, <2>2 DEF Enter, Reuses, CallerKinds, ScopeWhileLeasing, Scope
    <3>2. QED
      BY <1>1, <2>2, <3>1 DEF Enter
  <2>3. QED
    BY <2>1, <2>2
<1>2. ASSUME NEW t \in Thread, Acquire(t) PROVE OwnInv'
  BY <1>2 DEF Acquire
<1>3. ASSUME NEW t \in Thread, TakeIdle(t) PROVE OwnInv'
  <2>1. CASE idle = {}
    BY <1>3, <2>1 DEF TakeIdle
  <2>2. CASE idle # {}
    <3>1. PICK c \in idle : idle' = idle \ {c} /\ cur' = [cur EXCEPT ![t] = c]
                            /\ Goto(t, "reading")
      BY <1>3, <2>2 DEF TakeIdle
    <3>2. UNCHANGED <<open, draining, closed>>
      BY <1>3 DEF TakeIdle
    <3>3. CursorExclusive'
      BY <3>1, <3>2
    <3>4. OpenAccounted'
      BY <1>3, <3>1, <3>2 DEF TakeIdle
    <3>5. QED
      BY <3>3, <3>4
  <2>3. QED
    BY <2>1, <2>2
<1>4. ASSUME NEW t \in Thread, OpenCursor(t) PROVE OwnInv'
  BY <1>4 DEF OpenCursor
<1>5. ASSUME NEW t \in Thread, OpenFails(t) PROVE OwnInv'
  BY <1>5 DEF OpenFails
<1>6. ASSUME NEW t \in Thread, CountCursor(t) PROVE OwnInv'
  BY <1>6 DEF CountCursor
<1>7. ASSUME NEW t \in Thread, NEW raised \in BOOLEAN, Exit(t, raised) PROVE OwnInv'
  BY <1>7 DEF Exit
<1>8. ASSUME NEW t \in Thread, ExitNested(t) PROVE OwnInv'
  BY <1>8 DEF ExitNested
<1>9. ASSUME NEW t \in Thread, GiveBack(t) PROVE OwnInv'
  BY <1>9 DEF GiveBack
<1>10. ASSUME NEW t \in Thread, CloseCursor(t) PROVE OwnInv'
  BY <1>10 DEF CloseCursor
<1>11. ASSUME NEW t \in Thread, Uncount(t) PROVE OwnInv'
  BY <1>11 DEF Uncount
<1>12. ASSUME NEW t \in Thread, ReleaseSlot(t) PROVE OwnInv'
  BY <1>12 DEF ReleaseSlot
<1>13. CASE Close
  BY <1>13 DEF Close
<1>14. CASE DrainOne
  BY <1>14 DEF DrainOne
<1>15. CASE UNCHANGED vars
  BY <1>15 DEF vars
<1>16. QED
  BY <1>1, <1>2, <1>3, <1>4, <1>5, <1>6, <1>7, <1>8, <1>9, <1>10, <1>11, <1>12,
     <1>13, <1>14, <1>15 DEF Next, Continue

-----------------------------------------------------------------------------
(* How many cursors there are.                                             *)

\* Program points at which a lease has, or is about to have, a cursor.
Using == WithCursor \cup {"opening"}

LEMMA CursorsFitSlotsStep ==
    IInv /\ [Next]_vars => CursorsFitSlots'
<1> SUFFICES ASSUME IInv, [Next]_vars PROVE CursorsFitSlots'
  OBVIOUS
<1> DEFINE n == Cardinality(idle)
           k == Cardinality(HoldersAt(Using))
<1>1. /\ pc \in [Thread -> PC] /\ cur \in [Thread -> Cursor \cup {NoCursor}]
      /\ IsFiniteSet(idle) /\ n \in Nat /\ k \in Nat /\ n + k <= Cap /\ Cap \in Nat
  BY CapAssumption, HoldersFinite, FS_CardinalityType
     DEF IInv, TypeBasic, CursorsFitSlots, Using
\* Most steps leave the idle list alone and move no thread into Using.
<1>2. ASSUME NEW t \in Thread, NEW l, Goto(t, l), idle' = idle,
             l \in Using => pc[t] \in Using
      PROVE  Cardinality(idle') + Cardinality(HoldersAt(Using)') <= Cap
  BY <1>1, <1>2, OneThreadMoves
<1>3. ASSUME pc' = pc, idle' = idle
      PROVE  Cardinality(idle') + Cardinality(HoldersAt(Using)') <= Cap
  BY <1>1, <1>3, NobodyMoves
<1>4. ASSUME NEW t \in Thread, NEW kind \in Scope, Enter(t, kind) PROVE CursorsFitSlots'
  <2>1. idle' = idle /\ (pc' = pc \/ Goto(t, "waiting")) /\ "waiting" \notin Using
    BY <1>4 DEF Enter, Using, WithCursor
  <2>2. QED
    BY <1>1, <1>2, <1>3, <2>1 DEF CursorsFitSlots, Using
<1>5. ASSUME NEW t \in Thread, Acquire(t) PROVE CursorsFitSlots'
  <2>1. idle' = idle /\ Goto(t, "granted") /\ "granted" \notin Using
    BY <1>5 DEF Acquire, Using, WithCursor
  <2>2. QED
    BY <1>1, <1>2, <2>1 DEF CursorsFitSlots, Using
<1>6. ASSUME NEW t \in Thread, TakeIdle(t) PROVE CursorsFitSlots'
  <2>1. CASE idle = {}
    <3>1. idle' = {} /\ HoldersAt(Holding)' = HoldersAt(Holding)
      BY <1>1, <1>6, <2>1 DEF TakeIdle, HoldersAt, Holding, PC, Goto
    <3>2. HoldersAt(Using)' \in SUBSET HoldersAt(Holding)
      BY <3>1 DEF HoldersAt, Using, WithCursor, Holding, PC
    <3>3. IsFiniteSet(HoldersAt(Holding)) /\ Cardinality(HoldersAt(Holding)) <= Cap
      BY <1>1, HoldersFinite DEF IInv, TypeBasic, SlotsConserved
    <3>4. /\ Cardinality(HoldersAt(Using)') <= Cardinality(HoldersAt(Holding))
          /\ IsFiniteSet(HoldersAt(Using)')
      BY <3>2, <3>3, FS_Subset
    <3>5. Cardinality(HoldersAt(Using)') \in Nat /\ Cardinality(HoldersAt(Holding)) \in Nat
      BY <3>3, <3>4, FS_CardinalityType
    <3>6. IsFiniteSet(idle') /\ Cardinality(idle') = 0
      BY <3>1, FS_EmptySet
    <3>7. QED
      BY <1>1, <3>3, <3>4, <3>5, <3>6 DEF CursorsFitSlots, Using
  <2>2. CASE idle # {}
    <3>1. PICK c \in idle : idle' = idle \ {c} /\ Goto(t, "reading")
      BY <1>6, <2>2 DEF TakeIdle
    <3>2. IsFiniteSet(idle') /\ Cardinality(idle') = n - 1
      BY <1>1, <3>1, FS_RemoveElement
    <3>3. pc[t] \notin Using /\ "reading" \in Using
      BY <1>6 DEF TakeIdle, Using, WithCursor
    <3>4. Cardinality(HoldersAt(Using)') = k + 1
      BY <1>1, <3>1, <3>3, OneThreadMoves
    <3>5. QED
      BY <1>1, <3>2, <3>4 DEF CursorsFitSlots, Using
  <2>3. QED
    BY <2>1, <2>2
<1>7. ASSUME NEW t \in Thread, OpenCursor(t) \/ OpenFails(t) \/ CountCursor(t)
      PROVE  CursorsFitSlots'
  <2>1. idle' = idle /\ \E l \in {"counting", "releasing", "reading"} : Goto(t, l)
    BY <1>7 DEF OpenCursor, OpenFails, CountCursor
  <2>2. pc[t] \in Using
    BY <1>7 DEF OpenCursor, OpenFails, CountCursor, Using, WithCursor
  <2>3. QED
    BY <1>1, <1>2, <2>1, <2>2 DEF CursorsFitSlots, Using
<1>8. ASSUME NEW t \in Thread, NEW raised \in BOOLEAN, Exit(t, raised) PROVE CursorsFitSlots'
  <2>1. idle' = idle /\ pc[t] \in Using /\ \E l \in {"closing", "returning"} : Goto(t, l)
    BY <1>8 DEF Exit, Using, WithCursor
  <2>2. QED
    BY <1>1, <1>2, <2>1 DEF CursorsFitSlots, Using
<1>9. ASSUME NEW t \in Thread, ExitNested(t) PROVE CursorsFitSlots'
  BY <1>1, <1>3, <1>9 DEF ExitNested, CursorsFitSlots, Using
<1>10. ASSUME NEW t \in Thread, GiveBack(t) PROVE CursorsFitSlots'
  <2>1. CASE closed
    <3>1. idle' = idle /\ Goto(t, "closing") /\ pc[t] \in Using
      BY <1>10, <2>1 DEF GiveBack, Using, WithCursor
    <3>2. QED
      BY <1>1, <1>2, <3>1 DEF CursorsFitSlots, Using
  <2>2. CASE ~closed
    <3>1. idle' = idle \cup {cur[t]} /\ Goto(t, "releasing")
      BY <1>10, <2>2 DEF GiveBack
    <3>2. IsFiniteSet(idle') /\ Cardinality(idle') \in {n, n + 1}
      BY <1>1, <3>1, FS_AddElement
    <3>3. pc[t] \in Using /\ "releasing" \notin Using
      BY <1>10 DEF GiveBack, Using, WithCursor
    <3>4. Cardinality(HoldersAt(Using)') = k - 1
      BY <1>1, <3>1, <3>3, OneThreadMoves
    <3>5. QED
      BY <1>1, <3>2, <3>4 DEF CursorsFitSlots, Using
  <2>3. QED
    BY <2>1, <2>2
<1>11. ASSUME NEW t \in Thread, CloseCursor(t) \/ Uncount(t) \/ ReleaseSlot(t)
       PROVE  CursorsFitSlots'
  <2>1. /\ idle' = idle
        /\ \E l \in {"uncounting", "releasing", "out"} : l \notin Using /\ Goto(t, l)
    BY <1>11 DEF CloseCursor, Uncount, ReleaseSlot, Using, WithCursor
  <2>2. QED
    BY <1>1, <1>2, <2>1 DEF CursorsFitSlots, Using
<1>12. CASE Close
  <2>1. idle' = {} /\ pc' = pc
    BY <1>12 DEF Close
  <2>2. IsFiniteSet(idle') /\ Cardinality(idle') = 0 /\ HoldersAt(Using)' = HoldersAt(Using)
    BY <2>1, FS_EmptySet, NobodyMoves
  <2>3. QED
    BY <1>1, <2>2 DEF CursorsFitSlots, Using
<1>13. CASE DrainOne \/ UNCHANGED vars
  BY <1>1, <1>3, <1>13 DEF DrainOne, vars, CursorsFitSlots, Using
<1>14. QED
  BY <1>4, <1>5, <1>6, <1>7, <1>8, <1>9, <1>10, <1>11, <1>12, <1>13 DEF Next, Continue

LEMMA LiveFollowsStep ==
    IInv /\ [Next]_vars => LiveFollows'
<1> SUFFICES ASSUME IInv, [Next]_vars PROVE LiveFollows'
  OBVIOUS
<1> DEFINE n == Cardinality(open)
           counting == Cardinality(HoldersAt({"counting"}))
           uncounting == Cardinality(HoldersAt({"uncounting"}))
<1>1. /\ pc \in [Thread -> PC]
      /\ IsFiniteSet(open) /\ n \in Nat /\ counting \in Nat /\ uncounting \in Nat
      /\ live = n - counting + uncounting
  BY HoldersFinite, FS_CardinalityType DEF IInv, TypeBasic, LiveFollows
<1>0. ASSUME NEW t \in Thread, NEW l, Goto(t, l)
      PROVE  /\ Cardinality(HoldersAt({"counting"})') =
                   counting + (IF l = "counting" THEN 1 ELSE 0)
                            - (IF pc[t] = "counting" THEN 1 ELSE 0)
             /\ Cardinality(HoldersAt({"uncounting"})') =
                   uncounting + (IF l = "uncounting" THEN 1 ELSE 0)
                              - (IF pc[t] = "uncounting" THEN 1 ELSE 0)
  <2>1. ASSUME NEW p
        PROVE  Cardinality(HoldersAt({p})') =
                 Cardinality(HoldersAt({p})) + (IF l \in {p} THEN 1 ELSE 0)
                                             - (IF pc[t] \in {p} THEN 1 ELSE 0)
    BY <1>0, <1>1, OneThreadMoves
  <2>2. QED
    BY <2>1
<1>2. ASSUME UNCHANGED <<live, open>>, NEW t \in Thread, NEW l, Goto(t, l),
             {pc[t], l} \cap {"counting", "uncounting"} = {}
      PROVE  LiveFollows'
  <2>1. /\ l # "counting" /\ pc[t] # "counting"
        /\ l # "uncounting" /\ pc[t] # "uncounting"
    BY <1>2
  <2>2. /\ Cardinality(HoldersAt({"counting"})') = counting
        /\ Cardinality(HoldersAt({"uncounting"})') = uncounting
    BY <1>0, <1>1, <1>2, <2>1
  <2>3. QED
    BY <1>1, <1>2, <2>2 DEF LiveFollows
<1>3. ASSUME UNCHANGED <<live, open, pc>> PROVE LiveFollows'
  BY <1>1, <1>3, NobodyMoves DEF LiveFollows
<1>4. ASSUME NEW t \in Thread, NEW kind \in Scope, Enter(t, kind) PROVE LiveFollows'
  <2>1. /\ UNCHANGED <<live, open>>
        /\ pc' = pc \/ Goto(t, "waiting")
        /\ pc[t] \in {"out", "reading"}
    BY <1>4 DEF Enter
  <2>2. QED
    BY <1>2, <1>3, <2>1
<1>5. ASSUME NEW t \in Thread, Acquire(t) \/ TakeIdle(t) \/ OpenFails(t) PROVE LiveFollows'
  <2>1. /\ UNCHANGED <<live, open>>
        /\ \E l \in {"granted", "opening", "reading", "releasing"} : Goto(t, l)
        /\ pc[t] \in {"waiting", "granted", "opening"}
    BY <1>5 DEF Acquire, TakeIdle, OpenFails
  <2>2. QED
    BY <1>2, <2>1
<1>6. ASSUME NEW t \in Thread, OpenCursor(t) PROVE LiveFollows'
  <2>1. PICK c \in Cursor \ open : open' = open \cup {c}
    BY <1>6 DEF OpenCursor
  <2>2. IsFiniteSet(open') /\ Cardinality(open') = n + 1
    BY <1>1, <2>1, FS_AddElement
  <2>3. pc[t] = "opening" /\ Goto(t, "counting") /\ live' = live
    BY <1>6 DEF OpenCursor
  <2>4. /\ Cardinality(HoldersAt({"counting"})') = counting + 1
        /\ Cardinality(HoldersAt({"uncounting"})') = uncounting
    BY <1>1, <2>3, <1>0
  <2>5. QED
    BY <1>1, <2>2, <2>3, <2>4 DEF LiveFollows
<1>7. ASSUME NEW t \in Thread, CountCursor(t) PROVE LiveFollows'
  <2>1. pc[t] = "counting" /\ Goto(t, "reading") /\ live' = live + 1 /\ open' = open
    BY <1>7 DEF CountCursor
  <2>2. /\ Cardinality(HoldersAt({"counting"})') = counting - 1
        /\ Cardinality(HoldersAt({"uncounting"})') = uncounting
    BY <1>1, <2>1, <1>0
  <2>3. QED
    BY <1>1, <2>1, <2>2 DEF LiveFollows
<1>8. ASSUME NEW t \in Thread, NEW raised \in BOOLEAN,
             Exit(t, raised) \/ GiveBack(t) \/ ReleaseSlot(t)
      PROVE  LiveFollows'
  <2>1. /\ UNCHANGED <<live, open>>
        /\ \E l \in {"closing", "returning", "releasing", "out"} : Goto(t, l)
        /\ pc[t] \in {"reading", "returning", "releasing"}
    BY <1>8 DEF Exit, GiveBack, ReleaseSlot
  <2>2. QED
    BY <1>2, <2>1
<1>9. ASSUME NEW t \in Thread, ExitNested(t) PROVE LiveFollows'
  BY <1>3, <1>9 DEF ExitNested
<1>10. ASSUME NEW t \in Thread, CloseCursor(t) PROVE LiveFollows'
  <2>1. pc[t] = "closing" /\ Goto(t, "uncounting") /\ live' = live /\ open' = open \ {cur[t]}
    BY <1>10 DEF CloseCursor
  <2>2. cur[t] \in open
    BY <2>1 DEF IInv, CursorExclusive, WithCursor
  <2>3. IsFiniteSet(open') /\ Cardinality(open') = n - 1
    BY <1>1, <2>1, <2>2, FS_RemoveElement
  <2>4. /\ Cardinality(HoldersAt({"counting"})') = counting
        /\ Cardinality(HoldersAt({"uncounting"})') = uncounting + 1
    BY <1>1, <2>1, <1>0
  <2>5. QED
    BY <1>1, <2>1, <2>3, <2>4 DEF LiveFollows
<1>11. ASSUME NEW t \in Thread, Uncount(t) PROVE LiveFollows'
  <2>1. pc[t] = "uncounting" /\ Goto(t, "releasing") /\ live' = live - 1 /\ open' = open
    BY <1>11 DEF Uncount
  <2>2. /\ Cardinality(HoldersAt({"counting"})') = counting
        /\ Cardinality(HoldersAt({"uncounting"})') = uncounting - 1
    BY <1>1, <2>1, <1>0
  <2>3. QED
    BY <1>1, <2>1, <2>2 DEF LiveFollows
<1>12. CASE Close \/ UNCHANGED vars
  BY <1>3, <1>12 DEF Close, vars
<1>13. CASE DrainOne
  <2>1. PICK c \in draining : open' = open \ {c}
    BY <1>13 DEF DrainOne
  <2>2. c \in open
    BY <2>1 DEF IInv, OpenAccounted
  <2>3. IsFiniteSet(open') /\ Cardinality(open') = n - 1
    BY <1>1, <2>1, <2>2, FS_RemoveElement
  <2>4. pc' = pc /\ live' = live - 1
    BY <1>13 DEF DrainOne
  <2>5. QED
    BY <1>1, <2>3, <2>4, NobodyMoves DEF LiveFollows
<1>14. QED
  BY <1>4, <1>5, <1>6, <1>7, <1>8, <1>9, <1>10, <1>11, <1>12, <1>13 DEF Next, Continue

-----------------------------------------------------------------------------
(* The invariant, and what follows from it.                                *)

LEMMA IInvInit == Init => IInv
<1> SUFFICES ASSUME Init PROVE IInv
  OBVIOUS
<1>1. \A S : S \subseteq Holding => HoldersAt(S) = {}
  BY DEF Init, HoldersAt, Holding
<1>2. Using \subseteq Holding /\ {"counting"} \subseteq Holding /\ {"uncounting"} \subseteq Holding
  BY DEF Using, WithCursor, Holding, PC
<1>3. Cardinality({}) = 0 /\ IsFiniteSet({})
  BY FS_EmptySet
<1>4. CursorIffLeased /\ ScopeWhileLeasing /\ CursorExclusive
  BY DEF Init, CursorIffLeased, ScopeWhileLeasing, CursorExclusive, WithCursor
<1>5. OpenAccounted
  BY DEF Init, OpenAccounted
<1>6. CursorsFitSlots
  BY <1>1, <1>2, <1>3, CapAssumption DEF Init, CursorsFitSlots, Using
<1>7. LiveFollows
  BY <1>1, <1>2, <1>3 DEF Init, LiveFollows
<1>8. QED
  BY <1>4, <1>5, <1>6, <1>7, TypeBasicInit, SlotsConservedInit DEF IInv

LEMMA IInvStep == IInv /\ [Next]_vars => IInv'
<1> SUFFICES ASSUME IInv, [Next]_vars PROVE IInv'
  OBVIOUS
<1>1. TypeBasic /\ LeaseInv /\ OwnInv
  BY DEF IInv, LeaseInv, OwnInv
<1>2. TypeBasic' /\ LeaseInv' /\ OwnInv'
  BY <1>1, TypeBasicStep, LeaseInvStep, OwnInvStep DEF LeaseInv, OwnInv
<1>3. SlotsConserved'
  BY SlotsConservedStep DEF IInv
<1>4. QED
  BY <1>2, <1>3, CursorsFitSlotsStep, LiveFollowsStep DEF IInv, LeaseInv, OwnInv

\* Every state of the pool satisfies the strengthened invariant.
THEOREM Inductive == Spec => []IInv
<1>1. Init => IInv
  BY IInvInit
<1>2. IInv /\ [Next]_vars => IInv'
  BY IInvStep
<1>3. QED
  BY <1>1, <1>2, PTL DEF Spec

LEMMA IInvBoundsSlots == IInv => slots \in 0..Cap
BY HoldersFinite, CapAssumption DEF IInv, TypeBasic, SlotsConserved

\* The values of the pool and of the threads stay in their types; the
\* semaphore never exceeds its initial value.
THEOREM TypeCorrect == Spec => []TypeOK
<1>1. IInv => TypeOK
  BY IInvBoundsSlots DEF IInv, TypeBasic, TypeOK
<1>2. QED
  BY <1>1, Inductive, PTL

\* No cursor is ever with two leases, or leased and idle, or leased and about
\* to be closed by close().
THEOREM Exclusive == Spec => []CursorExclusive
<1>1. IInv => CursorExclusive
  BY DEF IInv
<1>2. QED
  BY <1>1, Inductive, PTL

\* No slot of the semaphore is lost or invented.
THEOREM Conserved == Spec => []SlotsConserved
<1>1. IInv => SlotsConserved
  BY DEF IInv
<1>2. QED
  BY <1>1, Inductive, PTL

\* No thread waits for a slot while it has a cursor.
THEOREM NoHoldAndWait == Spec => []NoWaitWhileHolding
<1>1. IInv => NoWaitWhileHolding
  BY DEF IInv, CursorIffLeased, NoWaitWhileHolding, WithCursor
<1>2. QED
  BY <1>1, Inductive, PTL

\* "At most cap cursors": those beyond the ones close() is closing never
\* outnumber the slots.
THEOREM WithinCap == Spec => []OpenWithinCap
<1>1. ASSUME IInv PROVE OpenWithinCap
  <2> DEFINE leasing == HoldersAt(WithCursor)
             leased == {cur[t] : t \in leasing}
             f == [t \in leasing |-> cur[t]]
  <2>1. IsFiniteSet(leasing)
    BY HoldersFinite
  <2>2. f \in Surjection(leasing, leased)
    BY DEF Surjection
  <2>3. IsFiniteSet(leased) /\ Cardinality(leased) <= Cardinality(leasing)
    BY <2>1, <2>2, FS_Surjection
  <2>4. leasing \in SUBSET HoldersAt(Using)
    BY DEF HoldersAt, Using
  <2>5. Cardinality(leasing) <= Cardinality(HoldersAt(Using))
    BY <2>4, FS_Subset, HoldersFinite
  <2>6. IsFiniteSet(idle) /\ Cardinality(idle) + Cardinality(HoldersAt(Using)) <= Cap
    BY <1>1 DEF IInv, CursorsFitSlots, Using
  <2>7. open \ draining \in SUBSET (idle \cup leased)
    BY <1>1 DEF IInv, OpenAccounted, HoldersAt
  <2>8. /\ IsFiniteSet(idle \cup leased)
        /\ Cardinality(idle \cup leased) =
              Cardinality(idle) + Cardinality(leased) - Cardinality(idle \cap leased)
    BY <2>3, <2>6, FS_Union
  <2>9. IsFiniteSet(idle \cap leased)
    BY <2>6, FS_Intersection
  <2>10. /\ IsFiniteSet(open \ draining)
         /\ Cardinality(open \ draining) <= Cardinality(idle \cup leased)
    BY <2>7, <2>8, FS_Subset
  <2>11. /\ Cardinality(idle) \in Nat /\ Cardinality(leased) \in Nat
         /\ Cardinality(idle \cap leased) \in Nat
         /\ Cardinality(open \ draining) \in Nat
         /\ Cardinality(leasing) \in Nat /\ Cardinality(HoldersAt(Using)) \in Nat
    BY <2>1, <2>3, <2>6, <2>9, <2>10, FS_CardinalityType, HoldersFinite
  <2>12. QED
    BY <2>3, <2>5, <2>6, <2>8, <2>10, <2>11, CapAssumption DEF OpenWithinCap
<1>2. QED
  BY <1>1, Inductive, PTL

\* A closed pool whose leases are over has closed and uncounted everything.
THEOREM Drains == Spec => []ClosedPoolDrains
<1>1. ASSUME IInv PROVE ClosedPoolDrains
  <2>1. SUFFICES ASSUME closed, draining = {}, HoldersAt(Holding) = {}
                 PROVE  open = {} /\ live = 0
    BY DEF ClosedPoolDrains
  <2>2. open = {}
    BY <1>1, <2>1 DEF IInv, OpenAccounted, HoldersAt, Holding, WithCursor, PC
  <2>3. HoldersAt({"counting"}) = {} /\ HoldersAt({"uncounting"}) = {}
    BY <2>1 DEF HoldersAt, Holding, PC
  <2>4. QED
    BY <1>1, <2>2, <2>3, FS_EmptySet DEF IInv, LiveFollows
<1>2. QED
  BY <1>1, Inductive, PTL

\* The pool implements the abstract slot holder: threads enter lease() only
\* while fewer than Cap are inside, and one at a time.
THEOREM Refines == Spec => ImplementsSlotPool
<1>1. Init => Slots!Init
  BY DEF Init, Slots!Init, HoldersAt, Holding
<1>2. ASSUME IInv, [Next]_vars PROVE [Slots!Next]_(HoldersAt(Holding))
  <2>1. ASSUME NEW t \in Thread, Acquire(t) PROVE Slots!Acquire(t)
    <3>1. Goto(t, "granted") /\ pc[t] \notin Holding /\ "granted" \in Holding
      BY <2>1 DEF Acquire, Holding, PC
    <3>2. HoldersAt(Holding)' = HoldersAt(Holding) \cup {t} /\ t \notin HoldersAt(Holding)
      BY <1>2, <3>1, OneThreadMoves DEF IInv, TypeBasic, HoldersAt
    <3>3. Cardinality(HoldersAt(Holding)) < Cap
      BY <1>2, <2>1, HoldersFinite, CapAssumption
         DEF IInv, TypeBasic, SlotsConserved, Acquire
    <3>4. QED
      <4>1. Slots!Cardinality(HoldersAt(Holding)) = Cardinality(HoldersAt(Holding))
        BY Zenon DEF Slots!Cardinality, Cardinality
      <4>2. QED
        BY <3>2, <3>3, <4>1 DEF Slots!Acquire
  <2>2. ASSUME NEW t \in Thread, ReleaseSlot(t) PROVE Slots!Release(t)
    <3>1. Goto(t, "out") /\ pc[t] \in Holding /\ "out" \notin Holding
      BY <2>2 DEF ReleaseSlot, Holding, PC
    <3>2. HoldersAt(Holding)' = HoldersAt(Holding) \ {t} /\ t \in HoldersAt(Holding)
      BY <1>2, <3>1, OneThreadMoves DEF IInv, TypeBasic, HoldersAt
    <3>3. QED
      BY <3>2 DEF Slots!Release
  <2>3. QED
    BY <1>2, <2>1, <2>2, SlotSteps DEF IInv, Slots!Next
<1>3. QED
  BY <1>1, <1>2, Inductive, PTL DEF Spec, ImplementsSlotPool, Slots!Spec

=============================================================================
