-------------------------- MODULE GraphCacheProofs --------------------------
(***************************************************************************)
(* Proofs about GraphCache, for any boxes, pickle names, releases and      *)
(* bounds: the registry keeps to one build per area, nobody waits for a    *)
(* build that is not registered, and a graph that is handed out fits what  *)
(* was asked, whatever the pickles and their sidecars have come to hold.   *)
(***************************************************************************)
EXTENDS GraphCache, TLAPS

\* What of TypeOK the arguments need; memory and disk are left untyped.
TypeBasic ==
    /\ inflight \subseteq Call
    /\ pc \in [Call -> PC]
    /\ ask \in [Call -> Ask \cup {NoAsk}]
    /\ builder \in [Call -> Call]
    /\ DOMAIN key = Call
    /\ DOMAIN graph = Call

\* A registered build is past the registry and not yet over.
BuildersWork ==
    \A c \in inflight :
        pc[c] \in {"disk", "loading", "loaded", "writing", "indexing", "storing", "finishing"}

BusyAsks == \A c \in Call : pc[c] # "idle" => ask[c] \in Ask

\* Until a call has found or built its graph it has none in hand.
HandEmpty ==
    \A c \in Call :
        pc[c] \in {"idle", "joining", "waiting", "woken", "disk", "loading"} => graph[c] = NoGraph

WaitsRegistered == \A w \in Call : pc[w] = "waiting" => builder[w] \in inflight

\* From the moment it is found or built, a graph fits; AnswersFit is its end.
FitsInHand ==
    \A c \in Call :
        pc[c] \in {"writing", "indexing", "storing", "finishing", "returning"} /\ graph[c] # NoGraph =>
            Fits(graph[c], ask[c])

IInv ==
    /\ TypeBasic
    /\ BuildersWork
    /\ BusyAsks
    /\ HandEmpty
    /\ WaitsRegistered
    /\ OneBuildPerArea
    /\ FitsInHand

-----------------------------------------------------------------------------
\* A graph built for a request fits it.
LEMMA BuiltFits ==
    ASSUME NEW c \in Call, ask[c] \in Ask
    PROVE  Fits(Built(c), ask[c])
BY AskAssumption DEF Fits, Built

\* A call that finds no build to wait for is not served by any in flight.
LEMMA JoinKeepsOneBuild ==
    ASSUME IInv, NEW c \in Call, Join(c)
    PROVE  OneBuildPerArea'
<1> DEFINE building(d) == [box |-> ask[d].box, shapes |-> ask[d].shapes]
<1>1. ask' = ask /\ key' = key
  BY DEF Join
<1>2. CASE inflight' = inflight
  BY <1>1, <1>2 DEF IInv, OneBuildPerArea, Fits
<1>3. CASE inflight' = inflight \cup {c} /\ \A b \in inflight : ~Serves(b, c)
  <2>1. \A b \in inflight : ~(key[b] = key[c] /\ Fits(building(b), ask[c]))
    BY <1>3 DEF Serves, Fits
  <2>2. SUFFICES ASSUME NEW b \in inflight', NEW d \in inflight', b # d, key[b] = key[d],
                        Fits(building(b), ask[d]), Fits(building(d), ask[b])
                 PROVE  FALSE
    BY <1>1 DEF OneBuildPerArea, Fits
  <2>3. b \in inflight /\ d \in inflight
    BY <2>1, <2>2, <1>3
  <2>4. QED
    BY <2>2, <2>3 DEF IInv, OneBuildPerArea
<1>4. QED
  BY <1>2, <1>3 DEF Join

-----------------------------------------------------------------------------
LEMMA InitInv == Init => IInv
<1> SUFFICES ASSUME Init PROVE IInv
  OBVIOUS
<1>1. TypeBasic
  BY DEF Init, TypeBasic, PC
<1>2. QED
  BY <1>1 DEF Init, IInv, BuildersWork, BusyAsks, HandEmpty, WaitsRegistered,
              OneBuildPerArea, FitsInHand

LEMMA StepInv == IInv /\ [Next]_vars => IInv'
<1> SUFFICES ASSUME IInv, [Next]_vars PROVE IInv'
  OBVIOUS
<1> USE DEF IInv, TypeBasic, PC, BuildersWork, BusyAsks, HandEmpty, WaitsRegistered,
            FitsInHand, Goto, Holds, Fits
<1>1. ASSUME NEW c \in Call, NEW a \in Ask, Start(c, a) PROVE IInv'
  <2>1. OneBuildPerArea'
    BY <1>1 DEF Start, Idle, OneBuildPerArea
  <2>2. CASE LookupHit(c, release, a)
    BY <2>1, <2>2, <1>1 DEF Start, Idle, LookupHit, Hits
  <2>3. CASE LookupMiss(c, release, a)
    BY <2>1, <2>3, <1>1 DEF Start, Idle, LookupMiss
  <2>4. QED
    BY <1>1, <2>2, <2>3 DEF Start
<1>2. ASSUME NEW c \in Call, NEW a \in Ask, Peek(c, a) PROVE IInv'
  <2>1. OneBuildPerArea'
    BY <1>2 DEF Peek, Idle, OneBuildPerArea
  <2>2. QED
    BY <2>1, <1>2 DEF Peek, Idle
<1>3. ASSUME NEW c \in Call, Join(c) PROVE IInv'
  <2>1. OneBuildPerArea'
    BY <1>3, JoinKeepsOneBuild
  <2>2. QED
    BY <2>1, <1>3 DEF Join
<1>4. ASSUME NEW c \in Call, Wake(c) PROVE IInv'
  <2>1. OneBuildPerArea'
    BY <1>4 DEF Wake, OneBuildPerArea
  <2>2. CASE LookupHit(c, key[c], ask[c])
    BY <2>1, <2>2, <1>4 DEF Wake, LookupHit, Hits
  <2>3. CASE LookupMiss(c, key[c], ask[c])
    BY <2>1, <2>3, <1>4 DEF Wake, LookupMiss
  <2>4. QED
    BY <1>4, <2>2, <2>3 DEF Wake
<1>5. ASSUME NEW c \in Call, NEW p \in Path, Consult(c, p) PROVE IInv'
  BY <1>5 DEF Consult, OneBuildPerArea
<1>6. ASSUME NEW c \in Call, Load(c) PROVE IInv'
  BY <1>6 DEF Load, OneBuildPerArea
<1>7. ASSUME NEW c \in Call, Check(c) PROVE IInv'
  BY <1>7 DEF Check, OneBuildPerArea
<1>8. ASSUME NEW c \in Call, NotOnDisk(c) PROVE IInv'
  BY <1>8 DEF NotOnDisk, OneBuildPerArea
<1>9. ASSUME NEW c \in Call, BuildFails(c) PROVE IInv'
  BY <1>9 DEF BuildFails, OneBuildPerArea
<1>10. ASSUME NEW c \in Call, NEW persists \in BOOLEAN, Build(c, persists) PROVE IInv'
  <2>1. Fits(Built(c), ask[c])
    BY <1>10, BuiltFits DEF Build
  <2>2. OneBuildPerArea'
    BY <1>10 DEF Build, OneBuildPerArea
  <2>3. QED
    BY <2>1, <2>2, <1>10 DEF Build
<1>11. ASSUME NEW c \in Call, Publish(c) PROVE IInv'
  BY <1>11 DEF Publish, OneBuildPerArea
<1>12. ASSUME NEW c \in Call, PersistFails(c) PROVE IInv'
  BY <1>12 DEF PersistFails, OneBuildPerArea
<1>13. ASSUME NEW c \in Call, IndexAndEvict(c) PROVE IInv'
  BY <1>13 DEF IndexAndEvict, OneBuildPerArea
<1>14. ASSUME NEW c \in Call, Store(c) PROVE IInv'
  BY <1>14 DEF Store, OneBuildPerArea
<1>15. ASSUME NEW c \in Call, Finish(c) PROVE IInv'
  <2>1. OneBuildPerArea'
    BY <1>15 DEF Finish, Leave, OneBuildPerArea
  <2>2. QED
    BY <2>1, <1>15 DEF Finish, Leave, Waiting
<1>16. ASSUME NEW c \in Call, Return(c) PROVE IInv'
  <2>1. OneBuildPerArea'
    BY <1>16 DEF Return, Leave, OneBuildPerArea
  <2>2. QED
    BY <2>1, <1>16 DEF Return, Leave
<1>17. CASE RollOver
  BY <1>17 DEF RollOver, OneBuildPerArea
<1>18. CASE Restart
  BY <1>18 DEF Restart, OneBuildPerArea
<1>19. CASE UNCHANGED vars
  BY <1>19 DEF vars, OneBuildPerArea
<1>20. QED
  BY <1>1, <1>2, <1>3, <1>4, <1>5, <1>6, <1>7, <1>8, <1>9, <1>10, <1>11, <1>12, <1>13,
     <1>14, <1>15, <1>16, <1>17, <1>18, <1>19 DEF Next, Step

\* The strengthening is an invariant.
THEOREM Inductive == Spec => []IInv
BY InitInv, StepInv, PTL DEF Spec

\* "one build per area at a time", whatever releases the process rolls over
\* to and however builds fail.
THEOREM SingleFlight == Spec => []OneBuildPerArea
<1>1. IInv => OneBuildPerArea
  BY DEF IInv
<1>2. QED
  BY <1>1, Inductive, PTL

\* Every call that waits, waits for a registered build whose caller does not
\* wait: no wake-up is lost and waits never form a cycle.
THEOREM WaitersServed == Spec => []WaitersHaveBuilder
<1>1. IInv => WaitersHaveBuilder
  BY DEF IInv, WaitersHaveBuilder, WaitsRegistered, BuildersWork
<1>2. QED
  BY <1>1, Inductive, PTL

\* A lookup never hands out a graph that does not cover the request, although
\* pickles are replaced and torn and sidecars outlive them.
THEOREM Answers == Spec => []AnswersFit
<1>1. IInv => AnswersFit
  BY DEF IInv, AnswersFit, FitsInHand
<1>2. QED
  BY <1>1, Inductive, PTL

-----------------------------------------------------------------------------
(* The memory.                                                             *)

MemOK ==
    /\ IsOrder(mem, Held) /\ Held \subseteq Entry
    /\ IsFiniteSet(Held) /\ Cardinality(Held) <= MaxSize

\* What a change of the memory must leave, for every entry there was.
Covers(m) ==
    \A e \in Held :
        \/ \E d \in In(m) : d.key = e.key /\ StandsIn(d.graph, e.graph)
        \/ Oldest(mem) = {e} /\ Cardinality(Held) = MaxSize

MemGoodAfter(m) ==
    /\ IsOrder(m, In(m)) /\ In(m) \subseteq Entry
    /\ IsFiniteSet(In(m)) /\ Cardinality(In(m)) <= MaxSize
    /\ \A d, e \in In(m) : d # e /\ d.key = e.key => ~StandsIn(d.graph, e.graph)
    /\ Covers(m)

\* An entry that is served moves to the end, and nothing else changes.
LEMMA UsedKeepsMemory ==
    ASSUME MemOK, NothingHeldTwice, NEW e \in Held
    PROVE  MemGoodAfter(Used(mem, e))
<1>1. IsOrder(Used(mem, e), Held) /\ In(Used(mem, e)) = Held
  <2>1. Held \cup {e} = Held
    OBVIOUS
  <2>2. IsOrder(Used(mem, e), Held \cup {e}) /\ In(Used(mem, e)) = Held \cup {e}
    BY UsedIsOrder DEF MemOK
  <2>3. QED
    BY <2>1, <2>2
<1>2. \A d \in Held : StandsIn(d.graph, d.graph)
  BY DEF StandsIn
<1>3. QED
  BY <1>1, <1>2 DEF MemGoodAfter, MemOK, NothingHeldTwice, Covers

\* The first entry that is better than a graph is in memory.
LEMMA FirstBetterIsHeld ==
    ASSUME MemOK, NEW k, NEW g, Better(k, g) # {}
    PROVE  (CHOOSE e \in Better(k, g) : \A d \in Better(k, g) : <<e, d>> \in mem) \in Held
<1> DEFINE B == Better(k, g)
           o == Without(mem, Held \ B)
<1>1. B \subseteq Held
  BY DEF Better
<1>2. IsFiniteSet(B)
  BY <1>1, FS_Subset DEF MemOK
<1>3. IsOrder(o, B)
  <2>1. Held \ (Held \ B) = B
    BY <1>1
  <2>2. QED
    BY <2>1, WithoutIsOrder DEF MemOK
<1>4. PICK e \in B : Oldest(o) = {e}
  BY <1>2, <1>3, OldestExists
<1>5. \A d \in B : <<e, d>> \in mem
  BY <1>3, <1>4, OrderIsOf DEF Oldest, Without
<1> HIDE DEF B
<1>6. (CHOOSE x \in B : \A d \in B : <<x, d>> \in mem) \in B
  BY <1>5
<1>7. QED
  BY <1>1, <1>6 DEF B

\* A graph that nothing in memory stands in for takes the place of what it
\* stands in for, and beyond the size the oldest entry goes.
LEMMA StoredKeepsMemory ==
    ASSUME MemOK, NothingHeldTwice, NEW k \in Release, NEW g \in Graph
    PROVE  MemGoodAfter(Stored(k, g))
<1> USE DEF MemOK
<1>1. CASE Better(k, g) # {}
  BY <1>1, FirstBetterIsHeld, UsedKeepsMemory DEF Stored
<1>2. CASE Better(k, g) = {}
  <2> DEFINE new == [key |-> k, graph |-> g]
             rest == Held \ Subsumed(k, g)
             u == Used(Without(mem, Subsumed(k, g)), new)
             S == rest \cup {new}
  <2>1. new \in Entry /\ new.key = k /\ new.graph = g /\ \A h : StandsIn(h, h)
    BY DEF Entry, StandsIn
  <2>2. new \notin Held
    BY <1>2, <2>1 DEF Better
  <2>3. IsOrder(Without(mem, Subsumed(k, g)), rest)
    BY WithoutIsOrder
  <2>4. /\ IsOrder(u, S) /\ In(u) = S
        /\ \A y \in S : <<y, new>> \in u
        /\ \A y, z \in rest : <<y, z>> \in u => <<y, z>> \in mem
    <3>1. rest \ {new} = rest
      BY <2>2
    <3>2. \A y, z \in rest : <<y, z>> \in u => <<y, z>> \in Without(mem, Subsumed(k, g))
      BY <2>3, <3>1, UsedIsLast
    <3>3. QED
      BY <2>3, <3>2, UsedIsOrder, UsedIsLast DEF Without
  <2>5. /\ IsFiniteSet(rest) /\ IsFiniteSet(S)
        /\ Cardinality(rest) \in Nat /\ Cardinality(Held) \in Nat
        /\ Cardinality(rest) <= Cardinality(Held)
        /\ Cardinality(rest) = Cardinality(Held) => rest = Held
        /\ Cardinality(S) = Cardinality(rest) + 1
    <3>1. rest \in SUBSET Held /\ new \notin rest
      BY <2>2
    <3>2. IsFiniteSet(rest) /\ Cardinality(rest) \in Nat /\ Cardinality(Held) \in Nat
      BY <3>1, FS_Subset, FS_CardinalityType
    <3>3. QED
      BY <3>1, <3>2, FS_Subset, FS_AddElement
  <2>6. \A d, e \in S : d # e /\ d.key = e.key => ~StandsIn(d.graph, e.graph)
    BY <1>2, <2>1 DEF Better, Subsumed, NothingHeldTwice
  <2>7. S \subseteq Entry
    BY <2>1
  <2>8. Stored(k, g) = Trim(u)
    BY <1>2 DEF Stored
  <2>9. MaxSize \in Nat \ {0}
    BY BoundsAssumption
  <2> HIDE DEF u, S, rest, new
  <2>10. \A e \in Held \ rest : new.key = e.key /\ StandsIn(new.graph, e.graph)
    BY <2>1 DEF rest, Subsumed
  <2>11. CASE Cardinality(S) <= MaxSize
    <3>1. Trim(u) = u
      BY <2>4, <2>5, <2>9, <2>11 DEF Trim
    <3>2. Covers(u)
      BY <2>1, <2>4, <2>10 DEF Covers, S
    <3>3. QED
      BY <2>4, <2>5, <2>6, <2>7, <2>8, <2>11, <3>1, <3>2 DEF MemGoodAfter
  <2>12. CASE ~(Cardinality(S) <= MaxSize)
    <3>1. Trim(u) = Without(u, Oldest(u))
      BY <2>4, <2>5, <2>9, <2>12 DEF Trim
    <3>2. S # {}
      BY DEF S
    <3>3. PICK x \in S :
              /\ \A y \in S : <<x, y>> \in u
              /\ IsOrder(Trim(u), S \ {x}) /\ In(Trim(u)) = S \ {x}
              /\ IsFiniteSet(S \ {x}) /\ Cardinality(S \ {x}) = Cardinality(S) - 1
      BY <2>4, <2>5, <3>1, <3>2, WithoutOldest
    <3>4. rest = Held /\ Cardinality(Held) = MaxSize /\ Cardinality(S \ {x}) <= MaxSize
      BY <2>5, <2>9, <2>12, <3>3
    <3>5. x # new
      <4>1. PICK r : r \in rest
        BY <2>9, <3>4, FS_EmptySet
      <4>2. r \in S /\ r # new /\ new \in S
        BY <2>2, <3>4, <4>1 DEF S
      <4>3. <<r, new>> \in u
        BY <2>4, <4>2
      <4>4. QED
        BY <2>4, <3>3, <4>2, <4>3 DEF IsOrder
    <3>6. x \in Held /\ Oldest(mem) = {x}
      <4>1. x \in Held /\ \A y \in Held : <<x, y>> \in mem
        BY <2>4, <3>3, <3>4, <3>5 DEF S
      <4>2. \A y \in Held : <<y, x>> \in mem => y = x
        BY <4>1 DEF IsOrder
      <4>3. QED
        BY <4>1, <4>2 DEF Oldest, Held
    <3>7. Covers(Trim(u))
      BY <2>1, <3>3, <3>4, <3>6 DEF Covers, S
    <3>8. QED
      BY <2>5, <2>6, <2>7, <2>8, <3>3, <3>4, <3>7 DEF MemGoodAfter
  <2>13. QED
    BY <2>11, <2>12
<1>3. QED
  BY <1>1, <1>2

-----------------------------------------------------------------------------
(* Types.                                                                  *)

\* A call only loads a pickle it listed, and has a graph in hand from when it
\* has loaded or built one until it has stored it.
FileInHand == \A c \in Call : pc[c] \in {"loading", "loaded"} => file[c] \in Path
GraphInHand ==
    \A c \in Call : pc[c] \in {"loaded", "writing", "indexing", "storing"} => graph[c] \in Graph

FullInv == IInv /\ TypeOK /\ FileInHand /\ GraphInHand /\ NothingHeldTwice

\* What a request asks for can be built and named.
LEMMA AskTypes ==
    ASSUME TypeOK, NEW c \in Call, ask[c] \in Ask
    PROVE  Built(c) \in Graph /\ PathOf(c) \in Path /\ ask[c].box \in Box
<1>1. ask[c].box \in Box /\ ask[c].shapes \in BOOLEAN /\ FileOf[ask[c].box] \in File
  BY AskAssumption DEF Box
<1>2. QED
  BY <1>1 DEF Built, Graph, PathOf, Path, TypeOK

LEMMA MemoryStep ==
    ASSUME FullInv, [Next]_vars
    PROVE  mem' = mem \/ mem' = {} \/ MemGoodAfter(mem')
<1> USE DEF FullInv
<1>1. MemOK /\ NothingHeldTwice
  BY DEF TypeOK, MemOK
<1>2. ASSUME NEW c \in Call, NEW k, NEW a, LookupHit(c, k, a) PROVE MemGoodAfter(mem')
  BY <1>1, <1>2, UsedKeepsMemory DEF LookupHit, Hits
<1>3. ASSUME NEW c \in Call, NEW a \in Ask, Start(c, a) PROVE mem' = mem \/ MemGoodAfter(mem')
  BY <1>2, <1>3 DEF Start, LookupMiss
<1>4. ASSUME NEW c \in Call, Wake(c) PROVE mem' = mem \/ MemGoodAfter(mem')
  BY <1>2, <1>4 DEF Wake, LookupMiss
<1>5. ASSUME NEW c \in Call, Store(c) PROVE MemGoodAfter(mem')
  <2>1. key[c] \in Release /\ graph[c] \in Graph
    BY <1>5 DEF Store, GraphInHand, TypeOK
  <2>2. QED
    BY <1>1, <1>5, <2>1, StoredKeepsMemory DEF Store
<1>6. ASSUME NEW c \in Call, Step(c), ~Store(c), ~Wake(c) PROVE mem' = mem
  BY <1>6 DEF Step, Join, Consult, Load, Check, NotOnDisk, BuildFails, Build, Publish, PersistFails,
              IndexAndEvict, Finish, Return, Leave
<1>7. ASSUME NEW c \in Call, NEW a \in Ask, Peek(c, a) PROVE mem' = mem
  BY <1>7 DEF Peek
<1>8. CASE RollOver \/ Restart \/ UNCHANGED vars
  BY <1>8 DEF RollOver, Restart, vars
<1>9. QED
  BY <1>3, <1>4, <1>5, <1>6, <1>7, <1>8 DEF Next

LEMMA MemorySafe ==
    ASSUME FullInv, [Next]_vars
    PROVE  MemOK' /\ NothingHeldTwice'
<1>1. CASE mem' = mem
  BY <1>1 DEF FullInv, TypeOK, MemOK, NothingHeldTwice, Held
<1>2. CASE mem' = {}
  BY <1>2, NoOrder, FS_EmptySet, BoundsAssumption DEF MemOK, NothingHeldTwice, Held
<1>3. CASE MemGoodAfter(mem')
  BY <1>3 DEF MemGoodAfter, MemOK, NothingHeldTwice, Held
<1>4. QED
  BY <1>1, <1>2, <1>3, MemoryStep

\* What of TypeOK is not about the memory.
CallTypes ==
    /\ release \in Release
    /\ inflight \subseteq Call
    /\ pc \in [Call -> PC]
    /\ ask \in [Call -> Ask \cup {NoAsk}]
    /\ key \in [Call -> Release]
    /\ builder \in [Call -> Call]
    /\ graph \in [Call -> Graph \cup {NoGraph}]
    /\ todo \in [Call -> SUBSET Path]
    /\ file \in [Call -> Path \cup {NoPath}]
    /\ unindexed \in [Call -> BOOLEAN]

DiskTypes ==
    /\ tmp \in [Path -> SUBSET Call]
    /\ disk \in [Path -> Graph \cup {NoGraph, Torn}]
    /\ DOMAIN index = Path
    /\ \A p \in Path : index[p] # NoGraph => index[p].box \in Box

Typed == CallTypes /\ DiskTypes /\ FileInHand /\ GraphInHand

LEMMA TypedInit == Init => Typed /\ MemOK /\ NothingHeldTwice
<1> SUFFICES ASSUME Init PROVE Typed /\ MemOK /\ NothingHeldTwice
  OBVIOUS
<1>1. MemOK /\ NothingHeldTwice
  BY NoOrder, FS_EmptySet, BoundsAssumption DEF Init, MemOK, NothingHeldTwice, Held
<1>2. Typed
  BY BoundsAssumption
     DEF Init, Typed, CallTypes, DiskTypes, FileInHand, GraphInHand, Release, PC
<1>3. QED
  BY <1>1, <1>2

\* A sidecar names a box that was built.
LEMMA DescribedTypes ==
    ASSUME DiskTypes, NEW p \in Path, NEW box \in Box
    PROVE  /\ DOMAIN Described(p, box) = Path
           /\ \A r \in Path : Described(p, box)[r] # NoGraph => Described(p, box)[r].box \in Box
BY DEF DiskTypes, Described

LEMMA LookupTypes ==
    ASSUME FullInv, NEW c \in Call, NEW k, NEW a, LookupHit(c, k, a)
    PROVE  graph' \in [Call -> Graph \cup {NoGraph}]
<1>1. PICK e \in Held : graph' = [graph EXCEPT ![c] = e.graph]
  BY DEF LookupHit, Hits, Holds
<1>2. e.graph \in Graph
  BY DEF FullInv, TypeOK, Entry
<1>3. QED
  BY <1>1, <1>2 DEF FullInv, TypeOK

LEMMA ForgetTypes ==
    ASSUME CallTypes, NEW c \in Call, NEW rest \in SUBSET Path, Forget(c, rest)
    PROVE  /\ todo' \in [Call -> SUBSET Path]
           /\ file' \in [Call -> Path \cup {NoPath}]
           /\ unindexed' \in [Call -> BOOLEAN]
           /\ \A d \in Call : d # c => file'[d] = file[d]
BY DEF CallTypes, Forget

LEMMA TypedStep ==
    ASSUME FullInv, [Next]_vars
    PROVE  Typed'
<1>1. Typed
  BY DEF FullInv, TypeOK, Typed, CallTypes, DiskTypes
<1> USE DEF Typed, CallTypes, DiskTypes, FileInHand, GraphInHand, PC, Goto, Holds, lookupVars, diskVars
<1>2. ASSUME NEW c \in Call, NEW a \in Ask, Start(c, a) PROVE Typed'
  <2>1. CASE LookupHit(c, release, a)
    BY <1>1, <1>2, <2>1, LookupTypes DEF Start, LookupHit
  <2>2. CASE LookupMiss(c, release, a)
    BY <1>1, <1>2, <2>2 DEF Start, LookupMiss
  <2>3. QED
    BY <1>2, <2>1, <2>2 DEF Start
<1>3. ASSUME NEW c \in Call, NEW a \in Ask, Peek(c, a) PROVE Typed'
  BY <1>1, <1>3 DEF Peek, Listed
<1>4. ASSUME NEW c \in Call, Join(c) PROVE Typed'
  BY <1>1, <1>4 DEF Join, Listed
<1>5. ASSUME NEW c \in Call, Wake(c) PROVE Typed'
  <2>1. CASE LookupHit(c, key[c], ask[c])
    BY <1>1, <1>5, <2>1, LookupTypes DEF Wake, LookupHit
  <2>2. CASE LookupMiss(c, key[c], ask[c])
    BY <1>1, <1>5, <2>2 DEF Wake, LookupMiss
  <2>3. QED
    BY <1>5, <2>1, <2>2 DEF Wake
<1>6. ASSUME NEW c \in Call, NEW p \in Path, Consult(c, p) PROVE Typed'
  <2>1. PICK b \in BOOLEAN : unindexed' = unindexed \/ unindexed' = [unindexed EXCEPT ![c] = b]
    <3>1. (Sidecar(p) = NoGraph) \in BOOLEAN
      OBVIOUS
    <3>2. unindexed' = unindexed \/ unindexed' = [unindexed EXCEPT ![c] = Sidecar(p) = NoGraph]
      BY <1>6 DEF Consult
    <3>3. QED
      BY <3>1, <3>2
  <2>2. unindexed' \in [Call -> BOOLEAN]
    BY <1>1, <2>1
  <2>3. /\ UNCHANGED <<pc, file>> \/ (file' = [file EXCEPT ![c] = p] /\ pc' = [pc EXCEPT ![c] = "loading"])
        /\ todo' = [todo EXCEPT ![c] = @ \ {p}] /\ pc[c] = "disk"
        /\ UNCHANGED <<release, inflight, ask, key, builder, graph, tmp, disk, index>>
    BY <1>6 DEF Consult
  <2>4. QED
    BY <1>1, <2>2, <2>3
<1>7. ASSUME NEW c \in Call, Load(c) PROVE Typed'
  <2>1. disk[file[c]] \in Graph \cup {NoGraph, Torn}
    BY <1>1, <1>7 DEF Load
  <2>2. CASE disk[file[c]] \in {NoGraph, Torn}
    <3>1. todo[c] \in SUBSET Path /\ Forget(c, todo[c]) /\ pc' = [pc EXCEPT ![c] = "disk"]
      BY <1>1, <1>7, <2>2 DEF Load
    <3>2. UNCHANGED <<release, inflight, ask, key, builder, graph, tmp, disk, index>>
      BY <1>7, <2>2 DEF Load
    <3>3. QED
      BY <1>1, <3>1, <3>2, ForgetTypes
  <2>3. CASE disk[file[c]] \notin {NoGraph, Torn}
    BY <1>1, <1>7, <2>1, <2>3 DEF Load
  <2>4. QED
    BY <2>2, <2>3
<1>8. ASSUME NEW c \in Call, Check(c) PROVE Typed'
  <2>1. file[c] \in Path /\ graph[c].box \in Box
    BY <1>1, <1>8 DEF Check, Graph
  <2>2. DOMAIN index' = Path /\ \A p \in Path : index'[p] # NoGraph => index'[p].box \in Box
    BY <1>1, <1>8, <2>1, DescribedTypes DEF Check
  <2>3. /\ UNCHANGED <<release, inflight, ask, key, builder, tmp, disk>> /\ pc[c] = "loaded"
        /\ \/ pc' = [pc EXCEPT ![c] = "storing"] /\ Forget(c, {}) /\ graph' = graph
           \/ pc' = [pc EXCEPT ![c] = "disk"] /\ Forget(c, todo[c]) /\ graph' = [graph EXCEPT ![c] = NoGraph]
    BY <1>8 DEF Check
  <2>4. CASE pc' = [pc EXCEPT ![c] = "storing"] /\ Forget(c, {}) /\ graph' = graph
    <3>1. {} \in SUBSET Path /\ graph[c] \in Graph
      BY <1>1, <2>3
    <3>2. QED
      BY <1>1, <2>2, <2>3, <2>4, <3>1, ForgetTypes
  <2>5. CASE pc' = [pc EXCEPT ![c] = "disk"] /\ Forget(c, todo[c]) /\ graph' = [graph EXCEPT ![c] = NoGraph]
    <3>1. todo[c] \in SUBSET Path
      BY <1>1
    <3>2. QED
      BY <1>1, <2>2, <2>3, <2>5, <3>1, ForgetTypes
  <2>6. QED
    BY <2>3, <2>4, <2>5
<1>9. ASSUME NEW c \in Call, NotOnDisk(c) \/ BuildFails(c) PROVE Typed'
  BY <1>1, <1>9 DEF NotOnDisk, BuildFails
<1>10. ASSUME NEW c \in Call, NEW persists \in BOOLEAN, Build(c, persists) PROVE Typed'
  <2>1. Built(c) \in Graph /\ PathOf(c) \in Path
    BY <1>10, AskTypes DEF FullInv, IInv, BusyAsks, Build
  <2>2. QED
    BY <1>1, <1>10, <2>1 DEF Build
<1>11. ASSUME NEW c \in Call, Publish(c) PROVE Typed'
  <2>1. Written(c) \subseteq Graph \cup {NoGraph, Torn}
    <3>1. PathOf(c) \in Path
      BY <1>11, AskTypes DEF FullInv, IInv, BusyAsks, Publish
    <3>2. \A w \in tmp[PathOf(c)] : graph[w] \in Graph \cup {NoGraph}
      BY <1>1, <3>1
    <3>3. QED
      BY <3>2 DEF Written
  <2>2. tmp' \in [Path -> SUBSET Call] /\ pc' \in [Call -> PC]
    <3>1. tmp' = [tmp EXCEPT ![PathOf(c)] = {}] /\ {} \in SUBSET Call
      BY <1>11 DEF Publish
    <3>2. pc' = [pc EXCEPT ![c] = "storing"] \/ pc' = [pc EXCEPT ![c] = "indexing"]
      BY <1>11 DEF Publish
    <3>3. tmp' \in [Path -> SUBSET Call]
      BY <1>1, <3>1
    <3>4. QED
      BY <1>1, <3>2, <3>3
  <2>3. disk' \in [Path -> Graph \cup {NoGraph, Torn}]
    BY <1>1, <1>11, <2>1 DEF Publish
  <2>4. QED
    BY <1>1, <1>11, <2>2, <2>3 DEF Publish
<1>12. ASSUME NEW c \in Call, PersistFails(c) PROVE Typed'
  BY <1>1, <1>12 DEF PersistFails
<1>13. ASSUME NEW c \in Call, IndexAndEvict(c) PROVE Typed'
  <2>1. PathOf(c) \in Path /\ graph[c].box \in Box
    <3>1. PathOf(c) \in Path
      BY <1>13, AskTypes DEF FullInv, IInv, BusyAsks, IndexAndEvict
    <3>2. graph[c] \in Graph
      BY <1>1, <1>13 DEF IndexAndEvict
    <3>3. QED
      BY <3>1, <3>2 DEF Graph
  <2>2. DOMAIN index' = Path /\ \A p \in Path : index'[p] # NoGraph => index'[p].box \in Box
    BY <1>1, <1>13, <2>1, DescribedTypes DEF IndexAndEvict
  <2>3. disk' \in [Path -> Graph \cup {NoGraph, Torn}]
    BY <1>1, <1>13 DEF IndexAndEvict
  <2>4. QED
    BY <1>1, <1>13, <2>2, <2>3 DEF IndexAndEvict
<1>14. ASSUME NEW c \in Call, Store(c) PROVE Typed'
  BY <1>1, <1>14 DEF Store
<1>15. ASSUME NEW c \in Call, Finish(c) \/ Return(c) PROVE Typed'
  <2>1. PICK woken \in SUBSET Call : Leave(c, woken)
    BY <1>15 DEF Finish, Return, Waiting
  <2>2. 1 \in Release /\ inflight' \subseteq inflight
    BY <1>15, BoundsAssumption DEF Finish, Return, Release
  <2>3. key' \in [Call -> Release] /\ ask' \in [Call -> Ask \cup {NoAsk}]
    BY <1>1, <2>1, <2>2 DEF Leave
  <2>4. /\ pc' \in [Call -> PC] /\ builder' \in [Call -> Call]
        /\ graph' \in [Call -> Graph \cup {NoGraph}]
    BY <1>1, <2>1 DEF Leave
  <2>5. FileInHand' /\ GraphInHand'
    BY <1>1, <2>1 DEF Leave
  <2>6. QED
    BY <1>1, <2>1, <2>2, <2>3, <2>4, <2>5 DEF Leave
<1>16. CASE RollOver
  BY <1>1, <1>16, BoundsAssumption DEF RollOver, Release
<1>17. CASE Restart
  BY <1>1, <1>17, BoundsAssumption DEF Restart, Release
<1>18. CASE UNCHANGED vars
  BY <1>1, <1>18 DEF vars
<1> HIDE DEF Typed
<1>19. QED
  BY <1>2, <1>3, <1>4, <1>5, <1>6, <1>7, <1>8, <1>9, <1>10, <1>11, <1>12, <1>13, <1>14, <1>15,
     <1>16, <1>17, <1>18 DEF Next, Step

THEOREM FullInductive == Spec => []FullInv
<1>1. Typed /\ MemOK => TypeOK
  BY DEF Typed, CallTypes, DiskTypes, MemOK, TypeOK
<1>2. Init => FullInv
  BY <1>1, InitInv, TypedInit DEF FullInv, Typed
<1>3. FullInv /\ [Next]_vars => FullInv'
  <2>1. ASSUME Typed', MemOK' PROVE TypeOK'
    BY <2>1 DEF Typed, CallTypes, DiskTypes, MemOK, TypeOK
  <2>2. QED
    BY <2>1, StepInv, TypedStep, MemorySafe DEF FullInv, Typed
<1>4. QED
  BY <1>2, <1>3, PTL DEF Spec

\* Types, and what a store relies on: the memory is one order of at most
\* MaxSize entries, whatever calls, rollovers and restarts interleave.
THEOREM TypeCorrect == Spec => []TypeOK
<1>1. FullInv => TypeOK
  BY DEF FullInv
<1>2. QED
  BY <1>1, FullInductive, PTL

\* However builds of overlapping areas end, no graph in memory makes another
\* one superfluous.
THEOREM HeldOnce == Spec => []NothingHeldTwice
<1>1. FullInv => NothingHeldTwice
  BY DEF FullInv
<1>2. QED
  BY <1>1, FullInductive, PTL

\* In no step does an area a request could be served for leave the memory but
\* as the oldest entry of a full LRU, or with the process.
THEOREM Survives == Spec => CoverageSurvives
<1> DEFINE Kept == \A e \in Held :
                      \/ \E d \in Held' : d.key = e.key /\ StandsIn(d.graph, e.graph)
                      \/ Oldest(mem) = {e} /\ Cardinality(Held) = MaxSize
                      \/ mem' = {}
<1>1. FullInv /\ [Next]_vars => Kept
  <2> SUFFICES ASSUME FullInv, [Next]_vars PROVE Kept
    OBVIOUS
  <2>1. CASE mem' = mem
    BY <2>1 DEF Held, StandsIn
  <2>2. CASE MemGoodAfter(mem')
    BY <2>2 DEF MemGoodAfter, Covers, Held
  <2>3. QED
    BY <2>1, <2>2, MemoryStep
<1>2. QED
  BY <1>1, FullInductive, PTL DEF Spec, CoverageSurvives
=============================================================================
