---------------------------- MODULE ReleaseCache ----------------------------
(***************************************************************************)
(* release.py: which Overture release the process answers from.            *)
(*                                                                         *)
(* resolve_release_info() caches its answer for a TTL.  The first call     *)
(* answers with the pin and lets a background thread discover; later, one  *)
(* caller at a time re-checks an expired answer outside the lock while the *)
(* others keep the previous one.  available_releases() caches the listing  *)
(* the same way under a lock of its own.  reset_cache() disowns whatever   *)
(* is in flight by bumping a generation that both compare on return.       *)
(*                                                                         *)
(* Releases are numbered in the order they appear upstream.  The override  *)
(* PLACEROOT_OVERTURE_RELEASE returns before any of this state is read.    *)
(***************************************************************************)
EXTENDS Naturals

CONSTANTS Thread,      \* threads of tool calls
          Starter,     \* background threads for first discoveries
          Pinned,      \* PINNED_RELEASE, which the bundled artifacts target
          MaxRelease,  \* bound: the last release upstream publishes
          MaxResets    \* bound: calls of reset_cache()

ASSUME ThreadAssumption == Thread \cap Starter = {}
ASSUME ReleaseAssumption == Pinned \in Nat \ {0} /\ MaxRelease \in Nat /\ Pinned <= MaxRelease
ASSUME ResetsAssumption == MaxResets \in Nat

VARIABLES
    upstream,     \* the newest release in the listing
    stale,        \* is_stale() of the artifacts' release
    cached,       \* release in _cached, or None
    source,       \* its "source"
    fresh,        \* less than a TTL since _cached_at
    refreshing,   \* _refreshing
    generation,   \* _generation
    origin,       \* history: the generation _cached was resolved in
    pc,           \* what each thread does about discovery
    gen,          \* the generation it captured
    found,        \* what its _discover() found, or None
    listed,       \* newest release of _releases_cached, or None
    listFresh,    \* less than a TTL since _releases_cached_at
    listFailed,   \* the last listing failed less than a minute ago
    listing,      \* _releases_refreshing
    listOrigin,   \* history: the generation _releases_cached was fetched in
    resetting     \* reset_cache() is between its two critical sections

cacheVars == <<cached, source, fresh, refreshing, origin>>
threadVars == <<pc, gen, found>>
listVars == <<listed, listFresh, listFailed, listing, listOrigin>>
vars == <<upstream, stale, cacheVars, generation, threadVars, listVars, resetting>>

None == 0
Release == 1..MaxRelease
Agent == Thread \cup Starter

PC == {"idle", "starting", "started", "checking", "checked", "listing", "listed"}

\* Program points of a discovery for _cached, by a caller or in the background.
Discovering == {"starting", "started", "checking", "checked"}

Init ==
    /\ upstream \in Pinned..MaxRelease
    /\ stale = FALSE
    /\ cached = None /\ source = "none" /\ fresh = FALSE /\ origin = 0
    /\ refreshing = FALSE /\ generation = 0
    /\ pc = [a \in Agent |-> "idle"]
    /\ gen = [a \in Agent |-> 0]
    /\ found = [a \in Agent |-> None]
    /\ listed = None /\ listFresh = FALSE /\ listFailed = FALSE
    /\ listing = FALSE /\ listOrigin = 0
    /\ resetting = FALSE

Goto(a, l) == pc' = [pc EXCEPT ![a] = l]

\* The call (or the background thread) is over: its locals are gone.
Return(a) ==
    /\ Goto(a, "idle")
    /\ gen' = [gen EXCEPT ![a] = 0]
    /\ found' = [found EXCEPT ![a] = None]

Install(release, from) ==
    /\ cached' = release
    /\ source' = from
    /\ origin' = generation

\* _resolved(): a newer release is not adopted while the artifacts are current.
Adopt(release) ==
    IF release # Pinned /\ ~stale
    THEN Install(Pinned, "artifact-pinned")
    ELSE Install(release, "discovered")

-----------------------------------------------------------------------------
(* resolve_release_info()                                                  *)

\* Nothing resolved yet: answer with the pin, start the background discovery.
FirstResolve(s) ==
    /\ s \in Starter
    /\ pc[s] = "idle"
    /\ cached = None
    /\ Install(Pinned, "pinned-fallback")
    /\ fresh' = TRUE
    /\ refreshing' = TRUE
    /\ gen' = [gen EXCEPT ![s] = generation]
    /\ Goto(s, "starting")
    /\ UNCHANGED <<upstream, stale, generation, found, listVars, resetting>>

\* Expired, and nobody is refreshing: this caller does, outside the lock.
ExpiredResolveByAll(t) ==
    /\ t \in Thread
    /\ pc[t] = "idle"
    /\ cached # None /\ ~fresh
    /\ refreshing' = TRUE
    /\ gen' = [gen EXCEPT ![t] = generation]
    /\ Goto(t, "checking")
    /\ UNCHANGED <<upstream, stale, cached, source, fresh, origin, generation,
                   found, listVars, resetting>>

ExpiredResolve(t) ==
    /\ t \in Thread
    /\ pc[t] = "idle"
    /\ cached # None /\ ~fresh /\ ~refreshing
    /\ refreshing' = TRUE
    /\ gen' = [gen EXCEPT ![t] = generation]
    /\ Goto(t, "checking")
    /\ UNCHANGED <<upstream, stale, cached, source, fresh, origin, generation,
                   found, listVars, resetting>>

\* _discover() returns: the newest release, or nothing on any failure.
Discover(a, ok) ==
    /\ pc[a] \in {"starting", "checking"}
    /\ found' = [found EXCEPT ![a] = IF ok THEN upstream ELSE None]
    /\ Goto(a, IF pc[a] = "starting" THEN "started" ELSE "checked")
    /\ UNCHANGED <<upstream, stale, cacheVars, generation, gen, listVars, resetting>>

\* An interrupt escapes a caller's _discover(): the claim is released.
InterruptKeepsClaim(t) ==
    /\ pc[t] = "checking"
    /\ Return(t)
    /\ UNCHANGED <<upstream, stale, cacheVars, generation, listVars, resetting>>

Interrupt(t) ==
    /\ pc[t] = "checking"
    /\ refreshing' = IF gen[t] = generation THEN FALSE ELSE refreshing
    /\ Return(t)
    /\ UNCHANGED <<upstream, stale, cached, source, fresh, origin, generation,
                   listVars, resetting>>

\* reset_cache() disowned the discovery: its answer is not installed.
Disowned(a) ==
    /\ gen[a] # generation
    /\ UNCHANGED cacheVars

\* _first_discovery(), the `finally` under the lock.
FinishFirstAdoptsFailure(s) ==
    /\ pc[s] = "started"
    /\ gen[s] = generation
    /\ refreshing' = FALSE
    /\ Adopt(found[s])
    /\ fresh' = TRUE
    /\ Return(s)
    /\ UNCHANGED <<upstream, stale, generation, listVars, resetting>>

FinishFirst(s) ==
    /\ pc[s] = "started"
    /\ \/ Disowned(s)
       \/ /\ gen[s] = generation
          /\ refreshing' = FALSE
          /\ IF found[s] # None
             THEN Adopt(found[s]) /\ fresh' = TRUE
             ELSE UNCHANGED <<cached, source, fresh, origin>>
    /\ Return(s)
    /\ UNCHANGED <<upstream, stale, generation, listVars, resetting>>

\* The re-check comes back to the lock.  A failed one keeps the previous
\* answer, and either way the next attempt is a TTL away.
FinishCheckUnguarded(t) ==
    /\ pc[t] = "checked"
    /\ refreshing' = FALSE
    /\ IF found[t] # None
       THEN cached' = found[t] /\ source' = "discovered" /\ origin' = gen[t]
       ELSE UNCHANGED <<cached, source, origin>>
    /\ fresh' = TRUE
    /\ Return(t)
    /\ UNCHANGED <<upstream, stale, generation, listVars, resetting>>

FinishCheck(t) ==
    /\ pc[t] = "checked"
    /\ \/ Disowned(t)
       \/ /\ gen[t] = generation
          /\ refreshing' = FALSE
          /\ IF found[t] # None
             THEN Install(found[t], "discovered")
             ELSE UNCHANGED <<cached, source, origin>>
          /\ fresh' = TRUE
    /\ Return(t)
    /\ UNCHANGED <<upstream, stale, generation, listVars, resetting>>

-----------------------------------------------------------------------------
(* available_releases()                                                    *)

StartListing(t) ==
    /\ t \in Thread
    /\ pc[t] = "idle"
    /\ ~(listed # None /\ listFresh)
    /\ ~listing /\ ~listFailed
    /\ listing' = TRUE
    /\ gen' = [gen EXCEPT ![t] = generation]
    /\ Goto(t, "listing")
    /\ UNCHANGED <<upstream, stale, cacheVars, generation, found,
                   listed, listFresh, listFailed, listOrigin, resetting>>

FetchListing(t, ok) ==
    /\ pc[t] = "listing"
    /\ found' = [found EXCEPT ![t] = IF ok THEN upstream ELSE None]
    /\ Goto(t, "listed")
    /\ UNCHANGED <<upstream, stale, cacheVars, generation, gen, listVars, resetting>>

InterruptListingKeepsClaim(t) ==
    /\ pc[t] = "listing"
    /\ Return(t)
    /\ UNCHANGED <<upstream, stale, cacheVars, generation, listVars, resetting>>

InterruptListing(t) ==
    /\ pc[t] = "listing"
    /\ listing' = IF gen[t] = generation THEN FALSE ELSE listing
    /\ Return(t)
    /\ UNCHANGED <<upstream, stale, cacheVars, generation,
                   listed, listFresh, listFailed, listOrigin, resetting>>

FinishListing(t) ==
    /\ pc[t] = "listed"
    /\ IF gen[t] # generation
       THEN UNCHANGED listVars
       ELSE /\ listing' = FALSE
            /\ listFailed' = (found[t] = None)
            /\ IF found[t] = None
               THEN UNCHANGED <<listed, listFresh, listOrigin>>
               ELSE listed' = found[t] /\ listFresh' = TRUE /\ listOrigin' = gen[t]
    /\ Return(t)
    /\ UNCHANGED <<upstream, stale, cacheVars, generation, resetting>>

-----------------------------------------------------------------------------
(* reset_cache(): two critical sections, the generation moves in the first *)

Reset ==
    /\ ~resetting /\ generation < MaxResets
    /\ resetting' = TRUE
    /\ cached' = None /\ source' = "none" /\ fresh' = FALSE
    /\ refreshing' = FALSE
    /\ generation' = generation + 1
    /\ UNCHANGED <<upstream, stale, origin, threadVars, listVars>>

ResetListing ==
    /\ resetting
    /\ resetting' = FALSE
    /\ listed' = None /\ listFresh' = FALSE /\ listFailed' = FALSE
    /\ listing' = FALSE
    /\ UNCHANGED <<upstream, stale, cacheVars, generation, threadVars, listOrigin>>

-----------------------------------------------------------------------------
(* Time and upstream                                                       *)

Expire == fresh' = FALSE /\ fresh /\ UNCHANGED <<upstream, stale, cached, source,
              refreshing, origin, generation, threadVars, listVars, resetting>>

ExpireListing ==
    /\ listFresh \/ listFailed
    /\ listFresh' = FALSE
    /\ listFailed' = FALSE
    /\ UNCHANGED <<upstream, stale, cacheVars, generation, threadVars,
                   listed, listing, listOrigin, resetting>>

\* Overture publishes; the bundled artifacts pass PLACEROOT_STALE_RELEASE_DAYS.
Publish ==
    /\ upstream < MaxRelease
    /\ upstream' = upstream + 1
    /\ UNCHANGED <<stale, cacheVars, generation, threadVars, listVars, resetting>>

GrowStale ==
    /\ ~stale
    /\ stale' = TRUE
    /\ UNCHANGED <<upstream, cacheVars, generation, threadVars, listVars, resetting>>

-----------------------------------------------------------------------------
Resolve ==
    \/ \E s \in Starter : FirstResolve(s)
    \/ \E t \in Thread : ExpiredResolve(t)

Finish(a) == FinishFirst(a) \/ FinishCheck(a) \/ FinishListing(a)

Next ==
    \/ Resolve
    \/ \E a \in Agent, ok \in BOOLEAN : Discover(a, ok)
    \/ \E a \in Agent : Finish(a)
    \/ \E t \in Thread :
          \/ Interrupt(t) \/ StartListing(t) \/ InterruptListing(t)
          \/ \E ok \in BOOLEAN : FetchListing(t, ok)
    \/ Reset \/ ResetListing
    \/ Expire \/ ExpireListing \/ Publish \/ GrowStale

Spec == Init /\ [][Next]_vars

\* Calls that resolve the release keep coming, whatever else threads are busy
\* with; the clock runs, threads go on, and an upstream that is asked again
\* and again answers some day.
Fairness ==
    /\ SF_vars(Resolve)
    /\ WF_vars(Expire)
    /\ WF_vars(ResetListing)
    /\ \A a \in Agent :
          /\ WF_vars(Finish(a))
          /\ WF_vars(\E ok \in BOOLEAN : Discover(a, ok))
          /\ WF_vars(\E ok \in BOOLEAN : FetchListing(a, ok))
    /\ SF_vars(\E a \in Agent : Discover(a, TRUE) /\ gen[a] = generation)

FairSpec == Spec /\ Fairness

-----------------------------------------------------------------------------
TypeOK ==
    /\ upstream \in Release
    /\ stale \in BOOLEAN
    /\ cached \in {None} \cup Release
    /\ source \in {"none", "pinned-fallback", "artifact-pinned", "discovered"}
    /\ source = "none" <=> cached = None
    /\ fresh \in BOOLEAN
    /\ refreshing \in BOOLEAN
    /\ generation \in 0..MaxResets
    /\ origin \in 0..MaxResets
    /\ pc \in [Agent -> PC]
    /\ gen \in [Agent -> 0..MaxResets]
    /\ found \in [Agent -> {None} \cup Release]
    /\ listed \in {None} \cup Release
    /\ {listFresh, listFailed, listing, resetting} \subseteq BOOLEAN
    /\ listOrigin \in 0..MaxResets

\* A discovery that still counts: nothing has disowned it.
Current(a) == pc[a] \in Discovering /\ gen[a] = generation

\* Single flight: the claim _refreshing is up exactly while one discovery of
\* this generation runs.  It is not lost to an interrupt or to a disowned
\* thread (two discoveries), and not kept by one (the cache frozen for life).
OneDiscovery ==
    /\ refreshing <=> \E a \in Agent : Current(a)
    /\ \A a, b \in Agent : Current(a) /\ Current(b) => a = b

\* The claim on the listing belongs to a fetch of this generation: a claim
\* nobody is left to release would serve an old list for ever.
ListingClaimIsOwned ==
    listing /\ ~resetting =>
        \E t \in Thread : pc[t] \in {"listing", "listed"} /\ gen[t] = generation

\* Neither claim is lost, and neither outlives the thread that has to take it
\* down, whichever of discovery, listing and reset_cache() ends first.
ClaimsAreOwned == OneDiscovery /\ ListingClaimIsOwned

\* reset_cache(): "its result is discarded rather than written over the next
\* resolution": whatever is cached was resolved after the last reset.
NothingFromBeforeReset ==
    /\ cached # None => origin = generation
    /\ listed # None /\ ~resetting => listOrigin = generation

\* The docstring of _resolved(): "the artifact release wins while it is still
\* current, and loses once it is stale".
ArtifactsWinWhileCurrent == cached # None /\ ~stale => cached = Pinned

\* "a long-running server rolls over to a new Overture release without a
\* restart": once the artifacts are stale, the newest release is adopted.
RollsOver == (stale /\ upstream = MaxRelease) ~> (cached = MaxRelease)
=============================================================================
