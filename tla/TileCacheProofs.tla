--------------------------- MODULE TileCacheProofs ---------------------------
(***************************************************************************)
(* Proofs about TileCache, for any tiles, queries, caps and bounds: the    *)
(* files stay in one order, no file is torn, and as long as one COPY and   *)
(* one read are shorter than a claim lives, a lone query keeps its tiles.  *)
(***************************************************************************)
EXTENDS TileCache, TLAPS

\* A fetch that is over, whether it succeeded or not, but not yet joined.
Fetched == {"published", "deleting", "returning", "failed"}

\* A query only has fetches for tiles it misses.
FetchesAreMissed ==
    \A q \in Query, t \in Tile :
        job[<<q, t>>] # "none" => query[q] = "fetching" /\ t \in missing[q]

\* What a query's own fetch found or published is there.
FetchedIsThere ==
    \A q \in Query, t \in Tile :
        job[<<q, t>>] \in {"published", "deleting", "returning"} => t \in Disk \cup gone

\* A query that is not at work holds nothing, misses nothing, waits for nothing.
NothingLeft ==
    \A q \in Query :
        /\ query[q] = "idle" => hits[q] = {}
        /\ query[q] # "fetching" => missing[q] = {}
        /\ query[q] # "reading" => patience[q] = 0

\* The claims of a reading query are as old as its read.
ReadIsClaimed ==
    \A q \in Query : query[q] = "reading" =>
        \A t \in hits[q] : claims[t] >= TTL - patience[q]

\* Those of a fetching one are fresh, or as old as one of its COPYs, the next
\* end of which renews them.
ClaimedSince(q, t) ==
    \/ claims[t] = TTL
    \/ \E u \in Tile : job[<<q, u>>] = "copying" /\ claims[t] >= TTL - age[<<q, u>>]
    \/ claims[t] >= TTL - MaxCopy /\ \E u \in Tile : job[<<q, u>>] \in Fetched

FetchIsClaimed ==
    \A q \in Query : query[q] = "fetching" =>
        \A t \in hits[q] \cup missing[q] : ClaimedSince(q, t)

HeldInv ==
    /\ HeldTilesStay
    /\ FetchesAreMissed
    /\ FetchedIsThere
    /\ NothingLeft
    /\ ReadIsClaimed
    /\ FetchIsClaimed

IInv == TypeOK /\ HeldInv

-----------------------------------------------------------------------------
(* Types.                                                                  *)

\* Whatever touches some of the files leaves them all in order.
LEMMA TouchKeepsFiles ==
    ASSUME TypeOK, NEW T \in SUBSET Tile, lru' \in Touched(T)
    PROVE  IsOrder(lru, Disk)' /\ Disk' = Disk \cup T
<1>1. PICK o \in Orders[T] : lru' = Then(lru, o)
  BY DEF Touched
<1>2. IsOrder(lru, Disk) /\ IsOrder(o, T)
  BY DEF TypeOK, Orders
<1>3. IsOrder(lru', Disk \cup T) /\ In(lru') = Disk \cup T
  BY <1>1, <1>2, ThenIsOrder
<1>4. QED
  BY <1>3 DEF Disk

\* And so does whatever removes some.
LEMMA WithoutKeepsFiles ==
    ASSUME TypeOK, NEW T, lru' = Without(lru, T)
    PROVE  IsOrder(lru, Disk)' /\ Disk' = Disk \ T
<1>1. IsOrder(lru', Disk \ T) /\ In(lru') = Disk \ T
  BY WithoutIsOrder DEF TypeOK
<1>2. QED
  BY <1>1 DEF Disk

\* What is looked at was there already.
LEMMA LookKeepsFiles ==
    ASSUME TypeOK, NEW want, lru' \in Touched(want \cap Disk)
    PROVE  IsOrder(lru, Disk)' /\ Disk' = Disk
<1>1. want \cap Disk \in SUBSET Tile
  BY DEF TypeOK
<1>2. IsOrder(lru, Disk)' /\ Disk' = Disk \cup (want \cap Disk)
  BY <1>1, TouchKeepsFiles
<1>3. QED
  BY <1>2

LEMMA ClaimedType ==
    ASSUME NEW old \in [Tile -> 0..TTL], NEW T
    PROVE  Claimed(old, T) \in [Tile -> 0..TTL]
BY BoundsAssumption DEF Claimed

LEMMA ClaimedExistingType ==
    ASSUME TypeOK, NEW want
    PROVE  ClaimedExisting(want) \in [Tile -> 0..TTL]
BY BoundsAssumption DEF ClaimedExisting, TypeOK

LEMMA ScheduledType ==
    ASSUME TypeOK, NEW T
    PROVE  Scheduled(T) \in [Job -> JobPC]
BY DEF Scheduled, TypeOK, JobPC

LEMMA TypeInit == Init => TypeOK
<1> SUFFICES ASSUME Init PROVE TypeOK
  OBVIOUS
<1>1. Disk = {} /\ IsOrder(lru, Disk) /\ \A j \in Job : IsOrder(snap[j], In(snap[j]))
  BY NoOrder DEF Init, Disk
<1>2. QED
  BY <1>1, BoundsAssumption DEF Init, TypeOK, JobPC

LEMMA TypeStep == TypeOK /\ [Next]_vars => TypeOK'
<1> SUFFICES ASSUME TypeOK, [Next]_vars PROVE TypeOK'
  OBVIOUS
<1> USE BoundsAssumption DEF TypeOK, cacheVars, jobVars, queryVars
<1>1. ASSUME NEW q \in Query, NEW want \in (SUBSET Tile) \ {{}}, ResolveHit(q, want) PROVE TypeOK'
  <2>1. IsOrder(lru, Disk)' /\ Disk' = Disk
    BY <1>1, LookKeepsFiles DEF ResolveHit, Look
  <2>2. claims' \in [Tile -> 0..TTL]
    BY <1>1, ClaimedExistingType DEF ResolveHit, Look
  <2>3. QED
    BY <1>1, <2>1, <2>2 DEF ResolveHit, Look
<1>2. ASSUME NEW q \in Query, NEW want \in (SUBSET Tile) \ {{}}, NEW schedule \in BOOLEAN,
             ResolveMiss(q, want, schedule)
      PROVE  TypeOK'
  <2>1. IsOrder(lru, Disk)' /\ Disk' = Disk
    BY <1>2, LookKeepsFiles DEF ResolveMiss, Look
  <2>2. claims' \in [Tile -> 0..TTL] /\ job' \in [Job -> JobPC]
    BY <1>2, ClaimedExistingType, ScheduledType DEF ResolveMiss, Look
  <2>3. QED
    BY <1>2, <2>1, <2>2 DEF ResolveMiss, Look
<1>3. ASSUME NEW q \in Query, NEW want \in (SUBSET Tile) \ {{}}, NEW schedule \in BOOLEAN,
             NEW now \in SUBSET Tile, ResolveInline(q, want, now, schedule)
      PROVE  TypeOK'
  <2>1. IsOrder(lru, Disk)' /\ Disk' = Disk
    BY <1>3, LookKeepsFiles DEF ResolveInline
  <2>2. claims' \in [Tile -> 0..TTL] /\ job' \in [Job -> JobPC]
    BY <1>3, ClaimedExistingType, ClaimedType, ScheduledType DEF ResolveInline
  <2>3. QED
    BY <1>3, <2>1, <2>2 DEF ResolveInline
<1>4. ASSUME NEW q \in Query, FinishInline(q) PROVE TypeOK'
  BY <1>4, ClaimedType DEF FinishInline, Disk
<1>5. ASSUME NEW q \in Query, EndRead(q) PROVE TypeOK'
  BY <1>5 DEF EndRead, Disk
<1>6. ASSUME NEW q \in Query, NEW t \in Tile, StartInline(q, t) PROVE TypeOK'
  BY <1>6 DEF StartInline, Goto, JobPC, Disk
<1>7. ASSUME NEW q \in Query, NEW t \in Tile, ReturnInline(q, t) PROVE TypeOK'
  <2>1. claims' \in [Tile -> 0..TTL]
    BY <1>7, ClaimedType DEF ReturnInline, Refresh
  <2>2. QED
    BY <1>7, <2>1 DEF ReturnInline, Goto, JobPC, Disk
<1>8. ASSUME NEW q \in Query, NEW t \in Tile, FailInline(q, t) PROVE TypeOK'
  BY <1>8 DEF FailInline, JobPC, Disk
<1>9. ASSUME NEW t \in Tile, StartBackground(t) \/ EndBackground(t) PROVE TypeOK'
  BY <1>9 DEF StartBackground, EndBackground, Goto, JobPC, Disk
<1>10. ASSUME NEW j \in Job, Check(j) \/ CopyFails(j) PROVE TypeOK'
  BY <1>10 DEF Check, CopyFails, Goto, JobPC, Disk
<1>11. ASSUME NEW j \in Job, Touch(j) PROVE TypeOK'
  <2>1. CASE j[2] \in Disk /\ lru' \in Touched({j[2]})
    <3>1. IsOrder(lru, Disk)' /\ Disk' = Disk \cup {j[2]}
      BY <2>1, TouchKeepsFiles DEF Job
    <3>2. QED
      BY <1>11, <2>1, <3>1 DEF Touch, Goto, JobPC
  <2>2. CASE j[2] \notin Disk /\ UNCHANGED lru
    BY <1>11, <2>2 DEF Touch, Goto, JobPC, Disk
  <2>3. QED
    BY <1>11, <2>1, <2>2 DEF Touch
<1>12. ASSUME NEW j \in Job, Publish(j) PROVE TypeOK'
  <2>1. {j[2]} \in SUBSET Tile
    BY DEF Job
  <2>2. IsOrder(lru, Disk)' /\ Disk' = Disk \cup {j[2]}
    BY <1>12, <2>1, TouchKeepsFiles DEF Publish
  <2>3. QED
    BY <1>12, <2>1, <2>2 DEF Publish, Goto, JobPC
<1>13. ASSUME NEW j \in Job, Judge(j) PROVE TypeOK'
  <2>1. DOMAIN snap' = Job /\ \A k \in Job : snap'[k] \in {snap[k], lru}
    BY <1>13 DEF Judge
  <2>2. IsOrder(lru, In(lru))
    BY DEF Disk
  <2>3. \A k \in Job : IsOrder(snap'[k], In(snap'[k]))
    BY <2>1, <2>2
  <2>4. QED
    BY <1>13, <2>1, <2>3 DEF Judge, Goto, JobPC, Disk
<1>14. ASSUME NEW j \in Job, Delete(j) PROVE TypeOK'
  <2>1. PICK victims : lru' = Without(lru, victims) /\ torn' = torn \ victims
    BY <1>14 DEF Delete
  <2>2. IsOrder(lru, Disk)' /\ Disk' = Disk \ victims
    BY <2>1, WithoutKeepsFiles
  <2>3. DOMAIN snap' = Job /\ \A k \in Job : snap'[k] \in {snap[k], {}}
    BY <1>14 DEF Delete
  <2>4. IsOrder({}, In({}))
    BY NoOrder
  <2>5. \A k \in Job : IsOrder(snap'[k], In(snap'[k]))
    BY <2>3, <2>4
  <2>6. QED
    BY <1>14, <2>1, <2>2, <2>3, <2>5 DEF Delete, Goto, JobPC
<1>15. CASE Tick
  BY <1>15 DEF Tick, Disk
<1>16. ASSUME NEW t \in Tile, ForeignEvict(t) PROVE TypeOK'
  <2>1. IsOrder(lru, Disk)' /\ Disk' = Disk \ {t}
    BY <1>16, WithoutKeepsFiles DEF ForeignEvict
  <2>2. QED
    BY <1>16, <2>1 DEF ForeignEvict
<1>17. CASE UNCHANGED vars
  BY <1>17 DEF vars, Disk
<1> HIDE DEF TypeOK
<1>18. QED
  BY <1>1, <1>2, <1>3, <1>4, <1>5, <1>6, <1>7, <1>8, <1>9, <1>10, <1>11, <1>12, <1>13, <1>14,
     <1>15, <1>16, <1>17 DEF Next, QueryStep, JobStep

\* For any tiles, queries and bounds: whatever touches, publishes and evicts
\* files in whatever order, the directory stays in one order of use, the
\* walks of it are orders, claims live no longer than their TTL.
THEOREM TypeCorrect == Spec => []TypeOK
BY TypeInit, TypeStep, PTL DEF Spec

\* Every writer copies into a file of its own, so none publishes bytes of two.
THEOREM NeverTorn == Spec => []NoTornTile
<1>1. Init => NoTornTile
  BY DEF Init, NoTornTile
<1>2. ASSUME NoTornTile, [Next]_vars PROVE NoTornTile'
  <2>1. ASSUME NEW j \in Job, Publish(j) PROVE NoTornTile'
    BY <1>2, <2>1 DEF NoTornTile, Publish, Tmp
  <2>2. ASSUME NEW j \in Job, Delete(j) PROVE NoTornTile'
    BY <1>2, <2>2 DEF NoTornTile, Delete
  <2>3. ASSUME NEW t \in Tile, ForeignEvict(t) PROVE NoTornTile'
    BY <1>2, <2>3 DEF NoTornTile, ForeignEvict
  <2>4. QED
    BY <1>2, <2>1, <2>2, <2>3
       DEF NoTornTile, Next, vars, cacheVars, jobVars, queryVars, QueryStep, JobStep, ResolveHit,
           ResolveMiss, ResolveInline, Look, FinishInline, EndRead, StartInline, ReturnInline,
           FailInline, StartBackground, EndBackground, Check, CopyFails, Touch, Judge, Tick
<1>3. QED
  BY <1>1, <1>2, PTL DEF Spec

-----------------------------------------------------------------------------
(* What a query holds.                                                     *)

\* The premises: no other query, whose look could drop a claim, and a COPY and
\* a read that are over before a claim lapses.
OneQuery == \A p, q \in Query : p = q
WithinTTL == MaxCopy < TTL /\ MaxRead < TTL

\* Nothing a query holds or fetches can be evicted by this process.
LEMMA HeldIsClaimed ==
    ASSUME IInv, WithinTTL, NEW q \in Query, NEW t \in hits[q] \cup missing[q]
    PROVE  t \in Tile /\ claims[t] > 0
<1> USE BoundsAssumption DEF IInv, WithinTTL
<1>1. t \in Tile /\ claims[t] \in 0..TTL /\ query[q] \in {"idle", "fetching", "reading"}
  BY DEF TypeOK
<1>2. CASE query[q] = "idle"
  BY <1>2 DEF HeldInv, NothingLeft
<1>3. CASE query[q] = "reading"
  <2>1. t \in hits[q]
    BY <1>3 DEF HeldInv, NothingLeft
  <2>2. patience[q] \in 0..MaxRead /\ claims[t] >= TTL - patience[q]
    BY <1>3, <2>1 DEF HeldInv, ReadIsClaimed, TypeOK
  <2>3. QED
    BY <1>1, <2>2
<1>4. CASE query[q] = "fetching"
  <2>1. ClaimedSince(q, t)
    BY <1>4 DEF HeldInv, FetchIsClaimed
  <2>2. \A u \in Tile : age[<<q, u>>] \in 0..MaxCopy
    BY DEF TypeOK, Job, Owner
  <2>3. MaxCopy \in Nat /\ TTL \in Nat /\ MaxCopy < TTL
    OBVIOUS
  <2>4. ASSUME NEW u \in Tile, claims[t] >= TTL - age[<<q, u>>] PROVE claims[t] > 0
    BY <1>1, <2>2, <2>3, <2>4
  <2>5. claims[t] >= TTL - MaxCopy => claims[t] > 0
    BY <1>1, <2>3
  <2>6. claims[t] = TTL => claims[t] > 0
    BY <2>3
  <2>7. QED
    BY <1>1, <2>1, <2>4, <2>5, <2>6 DEF ClaimedSince
<1>5. QED
  BY <1>1, <1>2, <1>3, <1>4

LEMMA HeldInit == Init => HeldInv
BY DEF Init, HeldInv, HeldTilesStay, FetchesAreMissed, FetchedIsThere, NothingLeft, ReadIsClaimed,
   FetchIsClaimed, Job, Owner

\* A query that begins to read or to fetch claims what it holds.
LEMMA ResolveKeeps ==
    ASSUME IInv, OneQuery, NEW q \in Query, NEW want \in SUBSET Tile,
           \/ ResolveHit(q, want)
           \/ \E schedule \in BOOLEAN :
                  \/ ResolveMiss(q, want, schedule)
                  \/ \E now \in SUBSET Tile : ResolveInline(q, want, now, schedule)
    PROVE  HeldInv'
<1> USE DEF IInv, HeldInv
<1>1. query[q] = "idle" /\ lru' \in Touched(want \cap Disk) /\ UNCHANGED <<gone, age, patience>>
  BY DEF ResolveHit, ResolveMiss, ResolveInline, Look
<1>2. Disk' = Disk
  BY <1>1, LookKeepsFiles
<1>3. \A t \in Tile : job[<<q, t>>] = "none" /\ job'[<<q, t>>] = "none"
  <2>1. \A t \in Tile : job[<<q, t>>] = "none"
    BY <1>1 DEF FetchesAreMissed
  <2>2. \A T \in SUBSET Tile, t \in Tile : Scheduled(T)[<<q, t>>] = job[<<q, t>>]
    BY BackgroundAssumption DEF Scheduled, Job, Owner
  <2>3. job' = job \/ \E T \in SUBSET Tile : job' = Scheduled(T)
    BY DEF ResolveHit, ResolveMiss, ResolveInline, Look
  <2>4. QED
    BY <2>1, <2>2, <2>3
<1>4. hits[q] = {} /\ missing[q] = {} /\ patience[q] = 0
  BY <1>1 DEF NothingLeft
<1>5. FetchesAreMissed' /\ FetchedIsThere'
  BY <1>3 DEF FetchesAreMissed, FetchedIsThere, OneQuery
<1>6. CASE ResolveHit(q, want)
  <2>1. /\ query'[q] = "reading" /\ hits'[q] = want /\ missing'[q] = {} /\ patience'[q] = 0
        /\ want \subseteq Disk
        /\ \A t \in want : claims'[t] = TTL
    BY <1>4, <1>6 DEF ResolveHit, Look, ClaimedExisting, TypeOK
  <2>2. QED
    BY <1>2, <1>5, <2>1, BoundsAssumption
       DEF OneQuery, HeldTilesStay, NothingLeft, ReadIsClaimed, FetchIsClaimed
<1>7. ASSUME NEW schedule \in BOOLEAN, ResolveMiss(q, want, schedule) PROVE HeldInv'
  <2>1. UNCHANGED <<query, hits, missing, patience>>
    BY <1>7 DEF ResolveMiss, Look
  <2>2. QED
    BY <1>1, <1>4, <1>5, <2>1 DEF OneQuery, HeldTilesStay, NothingLeft, ReadIsClaimed, FetchIsClaimed
<1>8. ASSUME NEW schedule \in BOOLEAN, NEW now \in SUBSET Tile, ResolveInline(q, want, now, schedule)
      PROVE  HeldInv'
  <2>1. /\ query'[q] = "fetching" /\ hits'[q] = want \cap Disk /\ missing'[q] = now /\ patience'[q] = 0
        /\ \A t \in (want \cap Disk) \cup now : claims'[t] = TTL
    <3>1. \A t \in (want \cap Disk) \cup now : Claimed(ClaimedExisting(want), now)[t] = TTL
      BY DEF Claimed, ClaimedExisting
    <3>2. QED
      BY <1>4, <1>8, <3>1 DEF ResolveInline, TypeOK
  <2>2. QED
    BY <1>2, <1>5, <2>1
       DEF OneQuery, HeldTilesStay, NothingLeft, ReadIsClaimed, FetchIsClaimed, ClaimedSince
<1>9. QED
  BY <1>6, <1>7, <1>8

\* A fetch that goes on, with the tiles that are held or found left alone.
LEMMA FetchKeeps ==
    ASSUME IInv, NEW j \in Job, NEW l,
           job' = [job EXCEPT ![j] = l],
           \A k \in Job : k # j => age'[k] = age[k],
           UNCHANGED <<claims, query, hits, missing, patience>>,
           \A q \in Query : \A t \in hits[q] \cup missing[q] : t \in Disk \cup gone => t \in (Disk \cup gone)',
           j[1] \in Query =>
              /\ query[j[1]] = "fetching" /\ j[2] \in missing[j[1]]
              /\ l \in {"published", "deleting", "returning"} => j[2] \in (Disk \cup gone)'
              /\ job[j] \in Fetched \cup {"copying"} => l \in Fetched
    PROVE  HeldInv'
<1> USE DEF IInv, HeldInv
<1>1. \A k \in Job : job'[k] = IF k = j THEN l ELSE job[k]
  BY DEF TypeOK
<1>2. \A q \in Query, t \in Tile : <<q, t>> \in Job /\ (<<q, t>> = j => j[1] = q /\ j[2] = t)
  BY DEF Job, Owner
<1>3. HeldTilesStay'
  BY DEF HeldTilesStay
<1>4. FetchesAreMissed'
  BY <1>1, <1>2 DEF FetchesAreMissed
<1>5. FetchedIsThere'
  BY <1>1, <1>2 DEF FetchedIsThere, FetchesAreMissed
<1>6. NothingLeft' /\ ReadIsClaimed'
  BY DEF NothingLeft, ReadIsClaimed
<1>7. FetchIsClaimed'
  <2>1. SUFFICES ASSUME NEW q \in Query, query[q] = "fetching", NEW t \in hits[q] \cup missing[q]
                 PROVE  ClaimedSince(q, t)'
    BY DEF FetchIsClaimed
  <2>2. ClaimedSince(q, t)
    BY <2>1 DEF FetchIsClaimed
  <2>3. CASE claims[t] = TTL
    BY <2>3 DEF ClaimedSince
  <2>4. ASSUME NEW u \in Tile, job[<<q, u>>] = "copying", claims[t] >= TTL - age[<<q, u>>]
        PROVE  ClaimedSince(q, t)'
    <3>1. CASE <<q, u>> = j
      <4>1. job'[<<q, u>>] \in Fetched
        BY <1>1, <1>2, <2>4, <3>1
      <4>2. claims[t] >= TTL - MaxCopy
        <5>1. age[<<q, u>>] \in 0..MaxCopy /\ MaxCopy \in Nat /\ TTL \in Nat /\ claims[t] \in 0..TTL
          BY <1>2, <2>1, BoundsAssumption DEF TypeOK
        <5>2. QED
          BY <2>4, <5>1
      <4>3. QED
        BY <4>1, <4>2 DEF ClaimedSince
    <3>2. CASE <<q, u>> # j
      BY <1>1, <1>2, <2>4, <3>2 DEF ClaimedSince
    <3>3. QED
      BY <3>1, <3>2
  <2>5. ASSUME NEW u \in Tile, job[<<q, u>>] \in Fetched, claims[t] >= TTL - MaxCopy
        PROVE  ClaimedSince(q, t)'
    <3>1. job'[<<q, u>>] \in Fetched
      BY <1>1, <1>2, <2>5
    <3>2. QED
      BY <2>5, <3>1 DEF ClaimedSince
  <2>6. QED
    BY <2>2, <2>3, <2>4, <2>5 DEF ClaimedSince
<1>8. QED
  BY <1>3, <1>4, <1>5, <1>6, <1>7

\* Who has a fetch under way misses its tile.
LEMMA FetchIsMissed ==
    ASSUME IInv, NEW j \in Job, j[1] \in Query, job[j] # "none"
    PROVE  query[j[1]] = "fetching" /\ j[2] \in missing[j[1]] /\ j[2] \in Tile /\ j = <<j[1], j[2]>>
<1>1. j[2] \in Tile /\ j = <<j[1], j[2]>>
  BY DEF Job
<1>2. QED
  BY <1>1 DEF IInv, HeldInv, FetchesAreMissed

LEMMA JobStepKeeps ==
    ASSUME IInv, WithinTTL, NEW j \in Job, JobStep(j)
    PROVE  HeldInv'
<1> USE DEF Goto, Fetched, cacheVars, queryVars
<1>1. job[j] # "none" /\ UNCHANGED <<claims, query, hits, missing, patience>>
  BY DEF JobStep, Check, Touch, Publish, CopyFails, Judge, Delete
<1>2. DOMAIN age = Job /\ j[2] \in Tile
  BY DEF IInv, TypeOK, Job
<1>3. j[1] \in Query => query[j[1]] = "fetching" /\ j[2] \in missing[j[1]]
  BY <1>1, FetchIsMissed
<1>4. CASE Check(j)
  <2>1. PICK l \in {"touching", "copying"} : job' = [job EXCEPT ![j] = l]
    BY <1>4 DEF Check
  <2>2. UNCHANGED <<lru, gone, age>> /\ job[j] = "checking"
    BY <1>4 DEF Check
  <2>3. Disk' = Disk
    BY <2>2 DEF Disk
  <2>4. QED
    BY <1>1, <1>3, <2>1, <2>2, <2>3, FetchKeeps
<1>5. CASE Touch(j)
  <2>1. UNCHANGED <<gone, age>> /\ job[j] = "touching"
    BY <1>5 DEF Touch
  <2>2. CASE j[2] \in Disk
    <3>1. Disk' = Disk \cup {j[2]} /\ job' = [job EXCEPT ![j] = "returning"]
      BY <1>2, <1>5, <2>2, TouchKeepsFiles DEF Touch, IInv
    <3>2. QED
      BY <1>1, <1>3, <2>1, <3>1, FetchKeeps
  <2>3. CASE j[2] \notin Disk
    <3>1. Disk' = Disk /\ job' = [job EXCEPT ![j] = "failed"]
      BY <1>5, <2>3 DEF Touch, Disk
    <3>2. QED
      BY <1>1, <1>3, <2>1, <3>1, FetchKeeps
  <2>4. QED
    BY <2>2, <2>3
<1>6. CASE Publish(j)
  <2>1. /\ job' = [job EXCEPT ![j] = "published"] /\ gone' = gone \ {j[2]}
        /\ \A k \in Job : k # j => age'[k] = age[k]
    BY <1>2, <1>6 DEF Publish
  <2>2. Disk' = Disk \cup {j[2]}
    BY <1>2, <1>6, TouchKeepsFiles DEF Publish, IInv
  <2>3. QED
    BY <1>1, <1>3, <2>1, <2>2, FetchKeeps
<1>7. CASE CopyFails(j)
  <2>1. /\ job' = [job EXCEPT ![j] = "failed"] /\ UNCHANGED <<lru, gone>>
        /\ \A k \in Job : k # j => age'[k] = age[k]
    BY <1>2, <1>7 DEF CopyFails
  <2>2. Disk' = Disk
    BY <2>1 DEF Disk
  <2>3. QED
    BY <1>1, <1>3, <2>1, <2>2, FetchKeeps
<1>8. ASSUME j[1] \in Query, job[j] \in {"published", "deleting", "returning"}
      PROVE  j[2] \in Disk \cup gone
  BY <1>1, <1>8, FetchIsMissed DEF IInv, HeldInv, FetchedIsThere
<1>9. CASE Judge(j)
  <2>1. PICK l \in {"returning", "deleting"} : job' = [job EXCEPT ![j] = l]
    BY <1>9 DEF Judge
  <2>2. UNCHANGED <<lru, gone, age>> /\ job[j] = "published"
    BY <1>9 DEF Judge
  <2>3. Disk' = Disk
    BY <2>2 DEF Disk
  <2>4. QED
    BY <1>1, <1>3, <1>8, <2>1, <2>2, <2>3, FetchKeeps
<1>10. CASE Delete(j)
  <2> DEFINE victims == Victims(snap[j])
  <2>1. /\ job' = [job EXCEPT ![j] = "returning"] /\ UNCHANGED <<gone, age>>
        /\ job[j] = "deleting" /\ lru' = Without(lru, victims)
    BY <1>10 DEF Delete
  <2>2. Disk' = Disk \ victims
    BY <2>1, WithoutKeepsFiles DEF IInv
  <2>3. \A q \in Query : \A t \in hits[q] \cup missing[q] : t \notin victims
    BY HeldIsClaimed DEF Victims, Evictable
  <2> HIDE DEF victims
  <2>4. QED
    BY <1>1, <1>3, <1>8, <2>1, <2>2, <2>3, FetchKeeps
<1>11. QED
  BY <1>4, <1>5, <1>6, <1>7, <1>9, <1>10 DEF JobStep

LEMMA QueryStepKeeps ==
    ASSUME IInv, OneQuery, NEW q \in Query, QueryStep(q)
    PROVE  HeldInv'
<1> USE DEF IInv, HeldInv, Goto, cacheVars, jobVars, queryVars
<1>1. CASE FinishInline(q)
  <2>1. /\ query[q] = "fetching" /\ missing[q] = {} /\ patience[q] = 0
        /\ UNCHANGED <<gone, job, age, missing, patience>> /\ Disk' = Disk
    BY <1>1 DEF FinishInline, NothingLeft, Disk
  <2>2. \A t \in Tile : job[<<q, t>>] = "none"
    BY <2>1 DEF FetchesAreMissed
  <2>3. /\ query'[q] \in {"idle", "reading"}
        /\ query'[q] = "idle" => hits'[q] = {}
        /\ query'[q] = "reading" => hits'[q] = hits[q]
        /\ \A t \in hits[q] : claims'[t] = TTL
    BY <1>1 DEF FinishInline, Claimed, TypeOK
  <2>4. FetchesAreMissed' /\ FetchedIsThere'
    BY <2>1, <2>2 DEF FetchesAreMissed, FetchedIsThere, OneQuery
  <2>5. QED
    BY <2>1, <2>3, <2>4, BoundsAssumption
       DEF OneQuery, HeldTilesStay, NothingLeft, ReadIsClaimed, FetchIsClaimed
<1>2. CASE EndRead(q)
  <2>1. /\ query[q] = "reading" /\ query'[q] = "idle" /\ hits'[q] = {} /\ patience'[q] = 0
        /\ UNCHANGED <<gone, job, age, missing, claims>> /\ Disk' = Disk
    BY <1>2 DEF EndRead, Disk, TypeOK
  <2>2. FetchesAreMissed' /\ FetchedIsThere'
    BY <2>1 DEF FetchesAreMissed, FetchedIsThere, OneQuery
  <2>3. QED
    BY <2>1, <2>2 DEF OneQuery, HeldTilesStay, NothingLeft, ReadIsClaimed, FetchIsClaimed
<1>3. ASSUME NEW t \in Tile, StartInline(q, t) PROVE HeldInv'
  <2>1. /\ query[q] = "fetching" /\ t \in missing[q] /\ job[<<q, t>>] = "none"
        /\ job' = [job EXCEPT ![<<q, t>>] = "checking"]
        /\ UNCHANGED <<lru, gone, age, claims, query, hits, missing, patience>>
    BY <1>3 DEF StartInline
  <2>2. <<q, t>> \in Job /\ Disk' = Disk
    BY <2>1 DEF Job, Owner, Disk
  <2>3. QED
    BY <2>1, <2>2, FetchKeeps DEF Fetched
<1>4. ASSUME NEW t \in Tile, ReturnInline(q, t) PROVE HeldInv'
  <2>1. /\ job[<<q, t>>] = "returning" /\ UNCHANGED <<gone, age, query, patience>> /\ Disk' = Disk
        /\ job' = [job EXCEPT ![<<q, t>>] = "none"] /\ claims' = Refresh(q)
    BY <1>4 DEF ReturnInline, Disk
  <2>2. query[q] = "fetching" /\ t \in missing[q] /\ t \in Disk \cup gone
    BY <2>1 DEF FetchesAreMissed, FetchedIsThere
  <2>3. hits'[q] = hits[q] \cup {t} /\ missing'[q] = missing[q] \ {t}
    BY <1>4 DEF ReturnInline, TypeOK
  <2>4. \A u \in hits'[q] \cup missing'[q] : claims'[u] = TTL
    BY <2>1, <2>2, <2>3 DEF Refresh, Claimed, TypeOK
  <2>5. \A u \in Tile : job'[<<q, u>>] = IF u = t THEN "none" ELSE job[<<q, u>>]
    BY <2>1 DEF TypeOK, Job, Owner
  <2>6. FetchesAreMissed' /\ FetchedIsThere'
    BY <2>1, <2>2, <2>3, <2>5 DEF FetchesAreMissed, FetchedIsThere, OneQuery
  <2>7. QED
    BY <2>1, <2>2, <2>3, <2>4, <2>6
       DEF OneQuery, HeldTilesStay, NothingLeft, ReadIsClaimed, FetchIsClaimed, ClaimedSince
<1>5. ASSUME NEW t \in Tile, FailInline(q, t) PROVE HeldInv'
  <2>1. /\ query'[q] = "idle" /\ hits'[q] = {} /\ missing'[q] = {} /\ patience' = patience
        /\ \A u \in Tile : job'[<<q, u>>] = "none"
    BY <1>5 DEF FailInline, TypeOK, Job, Owner
  <2>2. patience[q] = 0
    BY <1>5 DEF FailInline, FetchesAreMissed, NothingLeft
  <2>3. FetchesAreMissed' /\ FetchedIsThere'
    BY <2>1 DEF FetchesAreMissed, FetchedIsThere, OneQuery
  <2>4. QED
    BY <2>1, <2>2, <2>3 DEF OneQuery, HeldTilesStay, NothingLeft, ReadIsClaimed, FetchIsClaimed
<1>6. QED
  BY <1>1, <1>2, <1>3, <1>4, <1>5 DEF QueryStep

\* A tick ages a read, a COPY and the claims alike, and a fetching query has a
\* COPY under way.
LEMMA TickKeeps ==
    ASSUME IInv, Tick
    PROVE  HeldInv'
<1> USE DEF IInv, HeldInv
<1>1. /\ UNCHANGED <<gone, job, query, hits, missing>> /\ Disk' = Disk
      /\ \A t \in Tile : claims[t] \in 0..TTL /\ claims'[t] >= claims[t] - 1
      /\ \A j \in Job : age[j] \in Nat /\ age'[j] = IF job[j] = "copying" THEN age[j] + 1 ELSE 0
      /\ \A q \in Query : patience[q] \in Nat /\ patience'[q] = IF query[q] = "reading" THEN patience[q] + 1 ELSE 0
      /\ \A q \in Query : hits[q] \subseteq Tile /\ missing[q] \subseteq Tile
  BY BoundsAssumption DEF Tick, TypeOK, Disk
<1>2. TTL \in Nat /\ \A q \in Query, t \in Tile : <<q, t>> \in Job
  BY BoundsAssumption DEF Job, Owner
<1>3. HeldTilesStay' /\ FetchesAreMissed' /\ FetchedIsThere' /\ NothingLeft'
  BY <1>1 DEF HeldTilesStay, FetchesAreMissed, FetchedIsThere, NothingLeft
<1>4. ReadIsClaimed'
  <2>1. SUFFICES ASSUME NEW q \in Query, query[q] = "reading", NEW t \in hits[q]
                 PROVE  claims'[t] >= TTL - patience'[q]
    BY <1>1 DEF ReadIsClaimed
  <2>2. claims[t] >= TTL - patience[q]
    BY <2>1 DEF ReadIsClaimed
  <2>3. /\ claims[t] \in Nat /\ claims'[t] >= claims[t] - 1 /\ claims'[t] \in Nat
        /\ patience[q] \in Nat /\ patience'[q] = patience[q] + 1
    BY <1>1, <2>1 DEF Tick
  <2>4. QED
    BY <1>2, <2>2, <2>3
<1>5. FetchIsClaimed'
  <2>1. SUFFICES ASSUME NEW q \in Query, query[q] = "fetching", NEW t \in hits[q] \cup missing[q]
                 PROVE  ClaimedSince(q, t)'
    BY <1>1 DEF FetchIsClaimed
  <2>2. PICK v \in Tile : job[<<q, v>>] = "copying"
    BY <2>1 DEF Tick
  <2>3. \A u \in Tile : job[<<q, u>>] \notin Fetched
    BY <1>2 DEF Tick, Fetched
  <2>4. PICK u \in Tile : job[<<q, u>>] = "copying" /\ claims[t] >= TTL - age[<<q, u>>]
    <3>1. ClaimedSince(q, t)
      BY <2>1 DEF FetchIsClaimed
    <3>2. claims[t] = TTL => claims[t] >= TTL - age[<<q, v>>]
      BY <1>1, <1>2, <2>2
    <3>3. QED
      BY <2>2, <2>3, <3>1, <3>2 DEF ClaimedSince
  <2>5. /\ claims[t] \in Nat /\ claims'[t] >= claims[t] - 1 /\ claims'[t] \in Nat
        /\ age[<<q, u>>] \in Nat /\ age'[<<q, u>>] = age[<<q, u>>] + 1
    BY <1>1, <1>2, <2>1, <2>4 DEF Tick
  <2>6. claims'[t] >= TTL - age'[<<q, u>>]
    BY <1>2, <2>4, <2>5
  <2>7. QED
    BY <1>1, <2>4, <2>6 DEF ClaimedSince
<1>6. QED
  BY <1>3, <1>4, <1>5

LEMMA HeldStep == ASSUME IInv, OneQuery, WithinTTL, [Next]_vars PROVE HeldInv'
<1>1. ASSUME NEW q \in Query, NEW want \in (SUBSET Tile) \ {{}},
             \/ ResolveHit(q, want)
             \/ \E schedule \in BOOLEAN :
                    \/ ResolveMiss(q, want, schedule)
                    \/ \E now \in SUBSET Tile : ResolveInline(q, want, now, schedule)
      PROVE  HeldInv'
  BY <1>1, ResolveKeeps
<1>2. ASSUME NEW q \in Query, QueryStep(q) PROVE HeldInv'
  BY <1>2, QueryStepKeeps
<1>3. ASSUME NEW j \in Job, JobStep(j) PROVE HeldInv'
  BY <1>3, JobStepKeeps
<1>4. ASSUME NEW t \in Tile, StartBackground(t) \/ EndBackground(t) PROVE HeldInv'
  <2>1. PICK l : job' = [job EXCEPT ![<<Background, t>>] = l]
    BY <1>4 DEF StartBackground, EndBackground, Goto
  <2>2. <<Background, t>> \in Job /\ UNCHANGED <<lru, gone, claims, age, query, hits, missing, patience>>
    BY <1>4 DEF StartBackground, EndBackground, cacheVars, queryVars, Job, Owner
  <2>3. Disk' = Disk
    BY <2>2 DEF Disk
  <2>4. QED
    BY <2>1, <2>2, <2>3, FetchKeeps, BackgroundAssumption
<1>5. ASSUME NEW t \in Tile, ForeignEvict(t) PROVE HeldInv'
  <2>1. Disk' = Disk \ {t} /\ gone' = gone \cup {t}
        /\ UNCHANGED <<claims, job, age, query, hits, missing, patience>>
    BY <1>5, WithoutKeepsFiles DEF ForeignEvict, IInv, jobVars, queryVars
  <2>2. QED
    BY <2>1 DEF IInv, HeldInv, HeldTilesStay, FetchesAreMissed, FetchedIsThere, NothingLeft,
                ReadIsClaimed, FetchIsClaimed, ClaimedSince
<1>6. CASE UNCHANGED vars
  <2>1. UNCHANGED <<lru, gone, claims, job, age, query, hits, missing, patience>> /\ Disk' = Disk
    BY <1>6 DEF vars, cacheVars, jobVars, queryVars, Disk
  <2>2. QED
    BY <2>1 DEF IInv, HeldInv, HeldTilesStay, FetchesAreMissed, FetchedIsThere, NothingLeft,
                ReadIsClaimed, FetchIsClaimed, ClaimedSince
<1>7. QED
  BY <1>1, <1>2, <1>3, <1>4, <1>5, <1>6, TickKeeps DEF Next

\* For any tiles, caps, slots, failures and other processes: when a COPY and a
\* read end within the TTL of a claim, what a lone query was told it has, or
\* has fetched, is on disk until it has read it, however many fetches evict.
THEOREM HeldStay ==
    ASSUME OneQuery, MaxCopy < TTL, MaxRead < TTL
    PROVE  Spec => []HeldTilesStay
<1>1. WithinTTL
  BY DEF WithinTTL
<1>2. Init => IInv
  BY TypeInit, HeldInit DEF IInv
<1>3. IInv /\ [Next]_vars => IInv'
  BY <1>1, TypeStep, HeldStep DEF IInv
<1>4. IInv => HeldTilesStay
  BY DEF IInv, HeldInv
<1>5. QED
  BY <1>2, <1>3, <1>4, PTL DEF Spec
=============================================================================
