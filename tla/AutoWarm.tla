------------------------------ MODULE AutoWarm ------------------------------
(***************************************************************************)
(* autowarm.py: a city-scale resolve kicks a background thread that warms  *)
(* the metro's tiles (_prewarm_region of _server_cli.py), marks the metro  *)
(* as warm on disk and builds its walk graph, while releases roll over and *)
(* the process restarts.                                                   *)
(***************************************************************************)
EXTENDS Naturals

CONSTANTS
    Metro,       \* cells of metro_key()
    Theme,       \* _WARMUP_THEMES
    MaxRelease,  \* bound: releases are 1..MaxRelease
    MaxFaults    \* bound: failures and restarts together

\* What is assumed of the constants.
Assumptions == MaxRelease \in Nat \ {0} /\ MaxFaults \in Nat

Release == 1..MaxRelease

VARIABLES
    active,      \* the release resolve_release() names
    marker,      \* .warm files, by release and metro
    tiles,       \* themes once copied whole, by release and metro
    inflight,    \* _inflight
    warm,        \* the threads: metro, where each is, the themes to go
    foreground,  \* metros a request builds a walk graph for
    marks,       \* how often each metro was marked in each release
    raced,       \* marks written under another release than was warmed
    faults

vars == <<active, marker, tiles, inflight, warm, foreground, marks, raced, faults>>

Where == Release \X Metro
Thread == [metro : Metro, at : {"delayed", "warming", "marking", "graph", "building", "leaving"},
           todo : SUBSET Theme, from : SUBSET Release]

Init ==
    /\ active = 1
    /\ marker = {} /\ marks = [w \in Where |-> 0]
    /\ tiles = {}
    /\ inflight = {} /\ warm = {} /\ foreground = {}
    /\ raced = {}
    /\ faults = 0

Started(m) == [metro |-> m, at |-> "delayed", todo |-> Theme, from |-> {}]
Become(t, u) == warm' = (warm \ {t}) \cup {u}

\* A kick that overlooks the threads under way.
Unmarked(m) == <<active, m>> \notin marker

\* schedule_autowarm(): one thread for a metro, and none once it is marked.
Wanted(m) == m \notin inflight /\ <<active, m>> \notin marker

\* A resolve that ends in a city-scale hit, or the home region at startup.
Kick(m) ==
    /\ IF Wanted(m)
       THEN inflight' = inflight \cup {m} /\ warm' = warm \cup {Started(m)}
       ELSE UNCHANGED <<inflight, warm>>
    /\ UNCHANGED <<active, marker, tiles, foreground, marks, raced, faults>>

\* The delay that lets the foreground answer first is over.
Begin(t) ==
    /\ t.at = "delayed"
    /\ Become(t, [t EXCEPT !.at = "warming"])
    /\ UNCHANGED <<active, marker, tiles, inflight, foreground, marks, raced, faults>>

\* prewarm_bbox() for one theme, of the release that is active by then:
\* `warmed' or `already_warm'.
WarmTheme(t, theme) ==
    /\ t.at = "warming" /\ theme \in t.todo
    /\ tiles' = tiles \cup {<<active, t.metro, theme>>}
    /\ Become(t, [t EXCEPT !.todo = @ \ {theme}, !.from = @ \cup {active},
                           !.at = IF t.todo = {theme} THEN "marking" ELSE "warming"])
    /\ UNCHANGED <<active, marker, inflight, foreground, marks, raced, faults>>

\* Upstream is out of reach, the box too large or the copy left partial for
\* some theme: no marker, so that the next resolve tries again.
WarmFails(t) ==
    /\ t.at = "warming" /\ faults < MaxFaults
    /\ faults' = faults + 1
    /\ Become(t, [t EXCEPT !.at = "graph", !.todo = {}])
    /\ UNCHANGED <<active, marker, tiles, inflight, foreground, marks, raced>>

\* write_warm_marker(), under the release active now.
Mark(t) ==
    /\ t.at = "marking"
    /\ marker' = marker \cup {<<active, t.metro>>}
    /\ marks' = [marks EXCEPT ![<<active, t.metro>>] = @ + 1]
    /\ raced' = IF t.from = {active} THEN raced ELSE raced \cup {<<active, t.metro>>}
    /\ Become(t, [t EXCEPT !.at = "graph"])
    /\ UNCHANGED <<active, tiles, inflight, foreground, faults>>

\* An OSError on the marker is logged, and the warm goes on.
MarkFails(t) ==
    /\ t.at = "marking" /\ faults < MaxFaults
    /\ faults' = faults + 1
    /\ Become(t, [t EXCEPT !.at = "graph"])
    /\ UNCHANGED <<active, marker, tiles, inflight, foreground, marks, raced>>

\* graph_build_in_flight(): a build a user is waiting for goes first.
CheckGraph(t) ==
    /\ t.at = "graph"
    /\ Become(t, [t EXCEPT !.at = IF t.metro \in foreground THEN "leaving" ELSE "building"])
    /\ UNCHANGED <<active, marker, tiles, inflight, foreground, marks, raced, faults>>

\* The walk graph goes into the cache of GraphCache.
BuildGraph(t) ==
    /\ t.at = "building"
    /\ Become(t, [t EXCEPT !.at = "leaving"])
    /\ UNCHANGED <<active, marker, tiles, inflight, foreground, marks, raced, faults>>

\* Any exception of the warm-up or of the build is logged.
Fails(t) ==
    /\ t.at \in {"warming", "building"} /\ faults < MaxFaults
    /\ faults' = faults + 1
    /\ Become(t, [t EXCEPT !.at = "leaving", !.todo = {}])
    /\ UNCHANGED <<active, marker, tiles, inflight, foreground, marks, raced>>

\* `finally: _inflight.discard(key)'
Leave(t) ==
    /\ t.at = "leaving"
    /\ inflight' = inflight \ {t.metro}
    /\ warm' = warm \ {t}
    /\ UNCHANGED <<active, marker, tiles, foreground, marks, raced, faults>>

-----------------------------------------------------------------------------
(* The requests around it, the release and the process.                    *)

ForegroundBegins(m) ==
    /\ m \notin foreground
    /\ foreground' = foreground \cup {m}
    /\ UNCHANGED <<active, marker, tiles, inflight, warm, marks, raced, faults>>

ForegroundEnds(m) ==
    /\ m \in foreground
    /\ foreground' = foreground \ {m}
    /\ UNCHANGED <<active, marker, tiles, inflight, warm, marks, raced, faults>>

Rollover ==
    /\ active < MaxRelease
    /\ active' = active + 1
    /\ UNCHANGED <<marker, tiles, inflight, warm, foreground, marks, raced, faults>>

\* The daemon threads and what the process remembers go; the files stay.
Restart ==
    /\ faults < MaxFaults
    /\ faults' = faults + 1
    /\ inflight' = {} /\ warm' = {} /\ foreground' = {}
    /\ UNCHANGED <<active, marker, tiles, marks, raced>>

Next ==
    \/ \E m \in Metro : Kick(m) \/ ForegroundBegins(m) \/ ForegroundEnds(m)
    \/ \E t \in warm :
          \/ Begin(t) \/ (\E theme \in Theme : WarmTheme(t, theme)) \/ WarmFails(t)
          \/ Mark(t) \/ MarkFails(t) \/ CheckGraph(t) \/ BuildGraph(t) \/ Fails(t) \/ Leave(t)
    \/ Rollover
    \/ Restart

Spec == Init /\ [][Next]_vars

-----------------------------------------------------------------------------
TypeOK ==
    /\ active \in Release
    /\ marker \subseteq Where /\ raced \subseteq Where
    /\ tiles \subseteq Release \X Metro \X Theme
    /\ inflight \subseteq Metro /\ foreground \subseteq Metro
    /\ warm \subseteq Thread
    /\ marks \in [Where -> Nat]
    /\ faults \in 0..MaxFaults

\* The threads are what _inflight says, one for a metro.
OneThreadPerMetro ==
    /\ inflight = {t.metro : t \in warm}
    /\ \A t, u \in warm : t.metro = u.metro => t = u

\* However resolves, rollovers and restarts interleave, a metro is warmed and
\* marked at most once for a release: its tiles are not copied again.
MarkedOnce ==
    /\ \A w \in Where : marks[w] = IF w \in marker THEN 1 ELSE 0
    /\ \A t \in warm : t.at = "marking" => <<active, t.metro>> \notin marker

\* A marked metro had all its themes copied in that release, unless the
\* release changed while it was being warmed.
MarkedWasWarm ==
    \A w \in marker \ raced : \A theme \in Theme : <<w[1], w[2], theme>> \in tiles

MarkersAreEarned == OneThreadPerMetro /\ MarkedOnce /\ MarkedWasWarm

-----------------------------------------------------------------------------
(* A thread works on a metro that is not marked yet in the active release, *)
(* and what it is done with it copied in one of the releases it saw.       *)

NoneFromTheFuture == \A w \in marker : w[1] <= active
WorksOnUnmarked ==
    \A t \in warm : t.at \in {"delayed", "warming", "marking"} =>
        /\ <<active, t.metro>> \notin marker
        /\ \A theme \in Theme \ t.todo : \E r \in t.from : <<r, t.metro, theme>> \in tiles
        /\ t.at = "marking" => t.todo = {}

IInv ==
    /\ TypeOK /\ OneThreadPerMetro /\ NoneFromTheFuture /\ WorksOnUnmarked
    /\ MarkedOnce /\ MarkedWasWarm
=============================================================================
