------------------------- MODULE ReleaseCacheProofs -------------------------
(***************************************************************************)
(* Proofs about ReleaseCache: for any threads, any history of releases and *)
(* any number of resets, what is cached was resolved after the last reset, *)
(* and one discovery runs at a time.                                       *)
(***************************************************************************)
EXTENDS ReleaseCache, TLAPS

\* A captured generation is never ahead of the current one, so a reset
\* disowns every discovery and every listing that is in flight.
GenerationsBehind == \A a \in Agent : gen[a] <= generation

\* Nothing is refreshed that was never resolved.
ClaimNeedsAnswer == refreshing => cached # None

IInv ==
    /\ TypeOK
    /\ GenerationsBehind
    /\ ClaimNeedsAnswer
    /\ OneDiscovery
    /\ ListingClaimIsOwned
    /\ NothingFromBeforeReset

-----------------------------------------------------------------------------
LEMMA ReleaseFacts ==
    /\ Pinned \in Release /\ Pinned # None /\ None \notin Release
    /\ MaxResets \in Nat /\ 0 \in 0..MaxResets
BY ReleaseAssumption, ResetsAssumption DEF Release, None

LEMMA TypeOKInit == Init => TypeOK
<1> SUFFICES ASSUME Init PROVE TypeOK
  OBVIOUS
<1>1. upstream \in Release
  BY ReleaseAssumption DEF Init, Release
<1>2. {listFresh, listFailed, listing, resetting} \subseteq BOOLEAN
  BY Zenon DEF Init
<1>3. stale \in BOOLEAN /\ fresh \in BOOLEAN /\ refreshing \in BOOLEAN
  BY Zenon DEF Init
<1>4. pc \in [Agent -> PC]
  BY DEF Init, PC
<1>5. gen \in [Agent -> 0..MaxResets] /\ found \in [Agent -> {None} \cup Release]
  BY ReleaseFacts DEF Init
<1>6. QED
  BY <1>1, <1>2, <1>3, <1>4, <1>5, ReleaseFacts DEF Init, TypeOK

LEMMA TypeOKStep == TypeOK /\ [Next]_vars => TypeOK'
<1> SUFFICES ASSUME TypeOK, [Next]_vars PROVE TypeOK'
  OBVIOUS
<1> USE ReleaseFacts DEF TypeOK, PC, Goto, Return, Install, cacheVars, threadVars, listVars
<1>1. ASSUME NEW s \in Starter, FirstResolve(s) PROVE TypeOK'
  BY <1>1 DEF FirstResolve, Agent
<1>2. ASSUME NEW t \in Thread, ExpiredResolve(t) PROVE TypeOK'
  BY <1>2 DEF ExpiredResolve, Agent
<1>3. ASSUME NEW a \in Agent, NEW ok \in BOOLEAN, Discover(a, ok) PROVE TypeOK'
  BY <1>3 DEF Discover
<1>4. ASSUME NEW a \in Agent, FinishFirst(a) PROVE TypeOK'
  BY <1>4 DEF FinishFirst, Disowned, Adopt
<1>5. ASSUME NEW a \in Agent, FinishCheck(a) PROVE TypeOK'
  BY <1>5 DEF FinishCheck, Disowned
<1>6. ASSUME NEW a \in Agent, FinishListing(a) PROVE TypeOK'
  BY <1>6 DEF FinishListing
<1>7. ASSUME NEW t \in Thread, Interrupt(t) PROVE TypeOK'
  BY <1>7 DEF Interrupt, Agent
<1>8. ASSUME NEW t \in Thread, StartListing(t) PROVE TypeOK'
  BY <1>8 DEF StartListing, Agent
<1>9. ASSUME NEW t \in Thread, InterruptListing(t) PROVE TypeOK'
  BY <1>9 DEF InterruptListing, Agent
<1>10. ASSUME NEW t \in Thread, NEW ok \in BOOLEAN, FetchListing(t, ok) PROVE TypeOK'
  BY <1>10 DEF FetchListing, Agent
<1>11. CASE Reset
  <2>1. generation' \in 0..MaxResets
    BY <1>11 DEF Reset
  <2>2. cached' = None /\ source' = "none" /\ fresh' = FALSE /\ refreshing' = FALSE
    BY <1>11 DEF Reset
  <2>3. resetting' = TRUE /\ UNCHANGED <<upstream, stale, origin, threadVars, listVars>>
    BY <1>11 DEF Reset
  <2>4. QED
    BY <2>1, <2>2, <2>3
<1>12. CASE ResetListing
  BY <1>12 DEF ResetListing
<1>13. CASE Expire
  BY <1>13 DEF Expire
<1>14. CASE ExpireListing
  BY <1>14 DEF ExpireListing
<1>15. CASE Publish
  BY <1>15, ReleaseAssumption DEF Publish, Release
<1>16. CASE GrowStale
  BY <1>16 DEF GrowStale
<1>17. CASE UNCHANGED vars
  BY <1>17 DEF vars
<1>18. QED
  BY <1>1, <1>2, <1>3, <1>4, <1>5, <1>6, <1>7, <1>8, <1>9, <1>10, <1>11, <1>12,
     <1>13, <1>14, <1>15, <1>16, <1>17 DEF Next, Resolve, Finish

-----------------------------------------------------------------------------
LEMMA IInvInit == Init => IInv
<1> SUFFICES ASSUME Init PROVE IInv
  OBVIOUS
<1>1. TypeOK
  BY TypeOKInit
<1>2. GenerationsBehind /\ ClaimNeedsAnswer
  BY DEF Init, GenerationsBehind, ClaimNeedsAnswer
<1>3. OneDiscovery
  BY DEF Init, OneDiscovery, Current, Discovering
<1>4. ListingClaimIsOwned /\ NothingFromBeforeReset
  BY DEF Init, ListingClaimIsOwned, NothingFromBeforeReset
<1>5. QED
  BY <1>1, <1>2, <1>3, <1>4 DEF IInv

LEMMA IInvStep == IInv /\ [Next]_vars => IInv'
<1> SUFFICES ASSUME IInv, [Next]_vars PROVE IInv'
  OBVIOUS
<1> DEFINE Rest == GenerationsBehind /\ ClaimNeedsAnswer /\ OneDiscovery
                   /\ ListingClaimIsOwned /\ NothingFromBeforeReset
<1>0. TypeOK /\ Rest /\ TypeOK'
  BY TypeOKStep DEF IInv
<1> USE <1>0, ReleaseFacts
        DEF TypeOK, GenerationsBehind, ClaimNeedsAnswer, OneDiscovery, Current,
            Discovering, ListingClaimIsOwned, NothingFromBeforeReset,
            Goto, Return, Install, cacheVars, threadVars, listVars
<1>1. ASSUME NEW s \in Starter, FirstResolve(s) PROVE Rest'
  BY <1>1 DEF FirstResolve, Agent
<1>2. ASSUME NEW t \in Thread, ExpiredResolve(t) PROVE Rest'
  BY <1>2 DEF ExpiredResolve, Agent
<1>3. ASSUME NEW a \in Agent, NEW ok \in BOOLEAN, Discover(a, ok) PROVE Rest'
  BY <1>3 DEF Discover
<1>4. ASSUME NEW a \in Agent, FinishFirst(a) PROVE Rest'
  BY <1>4 DEF FinishFirst, Disowned, Adopt
<1>5. ASSUME NEW a \in Agent, FinishCheck(a) PROVE Rest'
  BY <1>5 DEF FinishCheck, Disowned
<1>6. ASSUME NEW a \in Agent, FinishListing(a) PROVE Rest'
  BY <1>6 DEF FinishListing
<1>7. ASSUME NEW t \in Thread, Interrupt(t) PROVE Rest'
  BY <1>7 DEF Interrupt, Agent
<1>8. ASSUME NEW t \in Thread, StartListing(t) PROVE Rest'
  BY <1>8 DEF StartListing, Agent
<1>9. ASSUME NEW t \in Thread, InterruptListing(t) PROVE Rest'
  BY <1>9 DEF InterruptListing, Agent
<1>10. ASSUME NEW t \in Thread, NEW ok \in BOOLEAN, FetchListing(t, ok) PROVE Rest'
  BY <1>10 DEF FetchListing, Agent
<1>11. ASSUME Reset PROVE Rest'
  BY <1>11 DEF Reset
<1>12. ASSUME ResetListing PROVE Rest'
  BY <1>12 DEF ResetListing
<1>13. ASSUME Expire \/ ExpireListing \/ Publish \/ GrowStale \/ UNCHANGED vars
       PROVE  Rest'
  BY <1>13 DEF Expire, ExpireListing, Publish, GrowStale, vars
<1>14. QED
  BY <1>0, <1>1, <1>2, <1>3, <1>4, <1>5, <1>6, <1>7, <1>8, <1>9, <1>10, <1>11,
     <1>12, <1>13 DEF Next, Resolve, Finish, IInv

\* Every state of the release cache satisfies the strengthened invariant.
THEOREM Inductive == Spec => []IInv
<1>1. Init => IInv
  BY IInvInit
<1>2. IInv /\ [Next]_vars => IInv'
  BY IInvStep
<1>3. QED
  BY <1>1, <1>2, PTL DEF Spec

\* Types, and: there is a source exactly when there is an answer.
THEOREM TypeCorrect == Spec => []TypeOK
<1>1. IInv => TypeOK
  BY DEF IInv
<1>2. QED
  BY <1>1, Inductive, PTL

\* One discovery at a time, its claim up exactly while it runs, and a listing
\* claim always with a fetch that will release it: an interrupt, a failure or
\* a reset never loses a claim and never leaves one behind.
THEOREM ClaimsOwned == Spec => []ClaimsAreOwned
<1>1. IInv => ClaimsAreOwned
  BY DEF IInv, ClaimsAreOwned
<1>2. QED
  BY <1>1, Inductive, PTL

\* reset_cache() is final: no result of a call that was in flight across it
\* is ever served afterwards.
THEOREM ResetIsFinal == Spec => []NothingFromBeforeReset
<1>1. IInv => NothingFromBeforeReset
  BY DEF IInv
<1>2. QED
  BY <1>1, Inductive, PTL

=============================================================================
