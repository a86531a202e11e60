----------------------------- MODULE GersLookup -----------------------------
(***************************************************************************)
(* gers.py: an id is looked for in one theme after the other, each read    *)
(* from whatever release is active by then, within a box around the hint   *)
(* if the caller gave one; a miss of all themes is remembered.  The joins  *)
(* of a place are started at the hint before it is known where it is.      *)
(***************************************************************************)
EXTENDS Naturals, FiniteSets

CONSTANTS
    Caller, Id,
    Owner,       \* by release, the theme that has each id, 0 for none
    MaxMisses,   \* _MISS_CACHE_MAX_ENTRIES
    MaxFaults,   \* bound: probes that fail
    None

Release == DOMAIN Owner
Theme == 1..3  \* _PROBES: places, divisions, buildings
Places == 1

\* Where the hint is: at the entity, close to it, or 50 km off.
Hint == {"none", "here", "near", "away"}

\* What is assumed of the constants.
Assumptions ==
    /\ Release = 1..Cardinality(Release) /\ 1 \in Release
    /\ Owner \in [Release -> [Id -> Theme \cup {0}]]
    /\ MaxMisses \in Nat \ {0} /\ MaxFaults \in Nat

VARIABLES
    active,   \* the release resolve_release() names
    misses,   \* _miss_cache
    call,     \* the lookups under way
    raced,    \* ghost: misses put together from more than the release they are filed under
    faults

vars == <<active, misses, call, raced, faults>>

NoCall == [at |-> "idle", id |-> None, hint |-> "none", theme |-> Places, from |-> {},
           failed |-> {}, degraded |-> {}, joined |-> None]

Init ==
    /\ active = 1
    /\ misses = {} /\ raced = {}
    /\ call = [c \in Caller |-> NoCall]
    /\ faults = 0

Become(c, k) == call' = [call EXCEPT ![c] = k]

\* _miss_cached() answers only a lookup without a hint; one with a hint starts
\* both joins there.
Ask(c, id, hint) ==
    /\ call[c].at = "idle"
    /\ Become(c, [NoCall EXCEPT !.id = id, !.hint = hint,
                     !.at = IF hint = "none" /\ <<active, id>> \in misses THEN "known_miss" ELSE "probe"])
    /\ UNCHANGED <<active, misses, raced, faults>>

NextTheme(k) == [k EXCEPT !.theme = @ + 1, !.from = @ \cup {active},
                          !.at = IF k.theme = 3 THEN "missed" ELSE "probe"]

\* One probe: the hint bounds it, and a miss inside the box is a miss.
Probe(c) ==
    /\ call[c].at = "probe"
    /\ LET k == call[c] IN
       IF Owner[active][k.id] = k.theme /\ k.hint # "away"
       THEN Become(c, [k EXCEPT !.at = "joins", !.from = @ \cup {active}])
       ELSE Become(c, NextTheme(k))
    /\ UNCHANGED <<active, misses, raced, faults>>

\* Its scan fails, or its dataset lacks the id column or, under a hint, the
\* bbox column: the other themes are still asked.
ProbeFails(c, how) ==
    /\ call[c].at = "probe" /\ faults < MaxFaults
    /\ faults' = faults + 1
    /\ LET k == NextTheme(call[c]) IN
       Become(c, IF how = "failed" THEN [k EXCEPT !.failed = @ \cup {call[c].theme}]
                                   ELSE [k EXCEPT !.degraded = @ \cup {call[c].theme}])
    /\ UNCHANGED <<active, misses, raced>>

\* A miss of the box remembered as a miss of the themes.
ConcludeAny(c) ==
    /\ call[c].at = "missed"
    /\ Become(c, [call[c] EXCEPT !.at = "not_found"])
    /\ misses' = misses \cup {<<active, call[c].id>>}
    /\ UNCHANGED <<active, raced, faults>>

\* No theme claims the id: an error if some could not be asked, else a miss,
\* which _cache_miss() keeps if it was exhaustive, under the release it finds.
Conclude(c) ==
    /\ call[c].at = "missed"
    /\ LET k == call[c]
           clean == k.failed = {} /\ k.degraded = {}
           full == Cardinality(misses) >= MaxMisses
           entry == {<<active, k.id>>}
       IN /\ Become(c, [k EXCEPT !.at = CASE k.failed # {} -> "unavailable"
                                          [] k.failed = {} /\ k.degraded # {} -> "degraded"
                                          [] OTHER -> "not_found"])
          /\ IF clean /\ k.hint = "none"
             THEN /\ misses' = entry \cup IF full THEN {} ELSE misses
                  /\ raced' = (raced \cap misses') \cup IF k.from = {active} THEN {} ELSE entry
             ELSE UNCHANGED <<misses, raced>>
    /\ UNCHANGED <<active, faults>>

\* The joins started at the hint are those of a place that is right there,
\* unless they could not be started or raised; all others are done where the
\* entity is.
Join(c, usable) ==
    /\ call[c].at = "joins"
    /\ LET k == call[c] IN
       /\ usable => k.theme = Places /\ k.hint = "here"
       /\ Become(c, [k EXCEPT !.at = "found", !.joined = IF usable THEN "hint" ELSE "entity"])
    /\ UNCHANGED <<active, misses, raced, faults>>

Over == {"known_miss", "not_found", "found", "unavailable", "degraded"}

Return(c) ==
    /\ call[c].at \in Over
    /\ Become(c, NoCall)
    /\ UNCHANGED <<active, misses, raced, faults>>

Rollover ==
    /\ active + 1 \in Release
    /\ active' = active + 1
    /\ UNCHANGED <<misses, call, raced, faults>>

Next ==
    \/ \E c \in Caller :
          \/ \E id \in Id, hint \in Hint : Ask(c, id, hint)
          \/ Probe(c) \/ Conclude(c) \/ Return(c)
          \/ \E how \in {"failed", "degraded"} : ProbeFails(c, how)
          \/ \E usable \in BOOLEAN : Join(c, usable)
    \/ Rollover

Spec == Init /\ [][Next]_vars

-----------------------------------------------------------------------------
TypeOK ==
    /\ active \in Release
    /\ misses \subseteq Release \X Id /\ raced \subseteq misses
    /\ call \in [Caller -> [at : {"idle", "probe", "missed", "joins"} \cup Over, id : Id \cup {None}, hint : Hint,
                            theme : 1..4, from : SUBSET Release, failed : SUBSET Theme,
                            degraded : SUBSET Theme, joined : {None, "hint", "entity"}]]
    /\ faults \in 0..MaxFaults

\* Whatever lookups, hints, failures and rollovers went before: an id that is
\* remembered as unknown is in no theme of the release it is filed under,
\* unless the release changed during the lookup that filed it.
MissesAreReal == \A m \in misses \ raced : Owner[m[1]][m[2]] = 0

\* An id reported as not found was looked for in every theme: if they were all
\* read from one release, none of them has it, or the box excluded it.
NotFoundIsHonest ==
    \A c \in Caller, r \in Release : call[c].at = "not_found" /\ call[c].from = {r} =>
        Owner[r][call[c].id] = 0 \/ call[c].hint = "away"

\* The miss cache stays within its bound.
MissesAreBounded == Cardinality(misses) <= MaxMisses

LookupsAreHonest == MissesAreReal /\ NotFoundIsHonest /\ MissesAreBounded
=============================================================================
