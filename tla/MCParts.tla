------------------------------ MODULE MCParts ------------------------------
(***************************************************************************)
(* Parts of the program that share no state, checked in one run: the first *)
(* state picks one and the others stand still.  Theorems are about all of  *)
(* them (MCPartsProofs), for any values of their constants.                *)
(***************************************************************************)
EXTENDS Preferences, Integers, FiniteSets, Sequences

CONSTANTS
    d1, d2, d3,                            \* calls of Preferences
    Metro, Theme, MaxRelease, MaxFaults,   \* of AutoWarm
    Caller, Isolated, Startup, Cap, Point, Unset,  \* of HomeRegion
    Releases, Query, Center, PinOf, RowCount, SpareCount, Limit, MaxRows, Compacting, MaxRollovers,  \* of Paging
    Session, Ephemeral, MaxSessions, MaxAnswers, City, Leg, Direct, Bare,     \* of SessionStore
    Node, Source, Graph, Length, Height, Penalty, Bound, Target, Infinity,    \* of StreetSearch
    StopCount, Matrix, Estimate, Gaps,                                        \* of StopOrder
    Junction, Survey, Mode, Excluded, Obeys, Tokens, MaxSegments, Distance,   \* of StreetNetwork
    SnapRadius, FallbackRadius, MinNodes,
    Unknown

VARIABLES
    part,
    active, marker, tiles, inflight, warm, foreground, marks, raced, faults,  \* of AutoWarm
    configured, resolved, home, lock, holders, at, nested, asked, seen,       \* of HomeRegion
    served, rollovers, cursor, call, got, sources, noted, slipped, ending,    \* of Paging
    overlays, lastGood, answers, resolves, told,                              \* of SessionStore
    graph, search, bound, targets, rank, time, dist, prev, heap, settled, answer,  \* of StreetSearch
    times, area, widens, start, roundtrip, keepOrder, radius, best, order,    \* of StopOrder
    surveyed, travels, distances, phase, unread, cut, junctions, roads, roadNames, roadShapes, snapped  \* of StreetNetwork

warmVars == <<active, marker, tiles, inflight, warm, foreground, marks, raced, faults>>
homeVars == <<configured, resolved, home, lock, holders, at, nested, asked, seen>>
pagerVars == <<served, rollovers, cursor, call, got, sources, noted, slipped, ending>>
sessionVars == <<overlays, lastGood, answers, resolves, told>>
searchVars == <<graph, search, bound, targets, rank, time, dist, prev, heap, settled, answer>>
tourVars == <<times, area, widens, start, roundtrip, keepOrder, radius, best, order>>
networkVars == <<surveyed, travels, distances, phase, unread, cut, junctions, roads, roadNames, roadShapes, snapped>>

MCRequest == {d1, d2, d3}
MCProcOf == [x \in MCRequest |-> IF x = d3 THEN 2 ELSE 1]
MCUpdate == {[mode |-> "x", note |-> Omitted], [mode |-> Omitted, note |-> "x"], [mode |-> Junk, note |-> Omitted]}

MCPinOf == [near |-> [r1 |-> "c", r2 |-> "d"], at |-> [r1 |-> "c", r2 |-> "c"]]
MCRowCount == [r1 |-> [c |-> 4, d |-> 0], r2 |-> [c |-> 3, d |-> 1]]
MCSpareCount == [r1 |-> [c |-> 0, d |-> 2], r2 |-> [c |-> 0, d |-> 2]]

Warm == INSTANCE AutoWarm
Home == INSTANCE HomeRegion WITH pc <- at
Pager == INSTANCE Paging WITH Release <- Releases, active <- served, raced <- slipped

Store == INSTANCE SessionStore WITH call <- resolves

\* Six streets, each of two lengths or closed.
Streets == {<<"s", "a">>, <<"s", "b">>, <<"a", "b">>, <<"b", "a">>, <<"a", "t">>, <<"b", "t">>}
Towns == UNION {[S -> {1, 3}] : S \in SUBSET Streets}

MCEdge == {"s", "a", "b", "t"} \X {"s", "a", "b", "t"}
MCLength == [e \in MCEdge |-> CASE e[1] = "s" -> 2 [] e[2] = "t" -> 5 [] OTHER -> 1]
MCHeight == [s |-> 0, a |-> 1, b |-> Unknown, t |-> 0]
MCTarget == {{"a", "t"}, {"s", "b"}}

Search == INSTANCE StreetSearch

StopPair == {p \in (1..4) \X (1..4) : p[1] # p[2]}
SlowLegs == {<<1, 2>>, <<2, 3>>, <<3, 4>>, <<4, 1>>, <<1, 3>>, <<4, 2>>}

MCMatrix == {[p \in StopPair |-> IF p \in S THEN 2 ELSE 1] : S \in SUBSET SlowLegs}
MCEstimate == [p \in StopPair |-> p[1] + p[2]]
MCGaps == {{}, {<<1, 2>>}, {<<1, 3>>, <<3, 4>>}}

Tour == INSTANCE StopOrder

\* Segments that meet at their ends or in between, with rules of all kinds.
Connector(x, id) == [at |-> x, id |-> id]
Rule(type, modes, heading) ==
    [type |-> type, modes |-> modes, heading |-> heading, whole |-> TRUE, conditional |-> FALSE]
Segment(connectors, length, rules, line) ==
    [class |-> "road", connectors |-> connectors, length |-> length, pace |-> 1, head |-> "p", tail |-> "q",
     rules |-> rules, name |-> line, line |-> line]
NoEntry == Rule("denied", {}, "backward")
Roads ==
    {Segment(<<Connector(0, "a"), Connector(2, "b")>>, 2, {}, "l1"),
     Segment(<<Connector(2, "b"), Connector(0, "a"), Connector(2, "c")>>, 2,
             {NoEntry, Rule("allowed", {"bicycle"}, "backward")}, "l2"),
     Segment(<<Connector(1, "c"), Connector(0, "a"), Connector(3, "b")>>, 3,
             {Rule("denied", {"truck"}, "both"), Rule("private", {}, "both")}, None),
     Segment(<<Connector(2, "d"), Connector(1, "b")>>, 3,
             {NoEntry, [NoEntry EXCEPT !.heading = "both", !.conditional = TRUE]}, "l4"),
     [Segment(<<Connector(0, "b"), Connector(0, "d"), Connector(1, "c")>>, 1,
              {[NoEntry EXCEPT !.heading = "forward", !.conditional = TRUE], [NoEntry EXCEPT !.whole = FALSE]},
              "l5") EXCEPT !.class = "motorway"],
     [Segment(<<>>, 1, {}, "l6") EXCEPT !.tail = "p", !.pace = 2]}

MCJunction == {"a", "b", "c", "d", "p", "q"}
\* Three of them go over the cap, unless one is excluded.
Crossing == {s \in Roads : s.line \in {"l1", "l2", "l5"}}
MCSurvey == [1..1 -> Roads] \cup [1..2 -> Roads] \cup [1..3 -> Crossing]
MCExcluded == [walk |-> {"motorway"}, cycle |-> {"motorway"}, drive |-> {}]
MCTokens == [walk |-> {}, cycle |-> {"vehicle", "bicycle"}, drive |-> {"vehicle", "car"}]
MCDistance == {[a |-> 1, b |-> 2, c |-> 4, d |-> 1, p |-> 0, q |-> 9],
               [a |-> 5, b |-> 3, c |-> 3, d |-> 2, p |-> 1, q |-> 1]}

Network == INSTANCE StreetNetwork WITH
    Node <- Junction, Rows <- Survey, rows <- surveyed, mode <- travels, distance <- distances,
    at <- phase, todo <- unread, truncated <- cut,
    nodes <- junctions, arcs <- roads, names <- roadNames, shapes <- roadShapes

ASSUME PartsAssumption ==
    /\ Warm!Assumptions
    /\ Pager!Assumptions
    /\ Home!Assumptions
    /\ Store!Assumptions
    /\ Search!Assumptions
    /\ Tour!Assumptions
    /\ Network!Assumptions

-----------------------------------------------------------------------------
(* A part that is not looked at stands still.                              *)

NoNetwork ==
    /\ surveyed = None /\ travels = None /\ distances = None /\ phase = None /\ unread = None
    /\ cut = None /\ junctions = None /\ roads = None /\ roadNames = None /\ roadShapes = None
    /\ snapped = None

NoWarm ==
    /\ active = None /\ marker = None /\ tiles = None /\ inflight = None /\ warm = None
    /\ foreground = None /\ marks = None /\ raced = None /\ faults = None

NoHome ==
    /\ configured = None /\ resolved = None /\ home = None /\ lock = None /\ holders = None
    /\ at = None /\ nested = None /\ asked = None /\ seen = None

NoPager ==
    /\ served = None /\ rollovers = None /\ cursor = None /\ call = None /\ got = None
    /\ sources = None /\ noted = None /\ slipped = None /\ ending = None

NoSessions ==
    /\ overlays = None /\ lastGood = None /\ answers = None /\ resolves = None /\ told = None

NoSearch ==
    /\ graph = None /\ search = None /\ bound = None /\ targets = None /\ rank = None /\ time = None
    /\ dist = None /\ prev = None /\ heap = None /\ settled = None /\ answer = None

NoTour ==
    /\ times = None /\ area = None /\ widens = None /\ start = None /\ roundtrip = None
    /\ keepOrder = None /\ radius = None /\ best = None /\ order = None

\* A process that has preferences and does nothing with them.
NoPreferences ==
    /\ file = Missing /\ tmp = None /\ mutex = [p \in Process |-> None] /\ flock = None
    /\ pc = [x \in Request |-> "idle"] /\ op = [x \in Request |-> ToRead]
    /\ loaded = [x \in Request |-> Empty] /\ crashes = 0

MCInit ==
    \/ /\ part = "preferences" /\ Init
       /\ NoWarm /\ NoHome /\ NoPager /\ NoSessions /\ NoSearch /\ NoTour /\ NoNetwork
    \/ /\ part = "warm" /\ Warm!Init
       /\ NoPreferences /\ NoHome /\ NoPager /\ NoSessions /\ NoSearch /\ NoTour /\ NoNetwork
    \/ /\ part = "home" /\ Home!Init
       /\ NoPreferences /\ NoWarm /\ NoPager /\ NoSessions /\ NoSearch /\ NoTour /\ NoNetwork
    \/ /\ part = "pages" /\ Pager!Init
       /\ NoPreferences /\ NoWarm /\ NoHome /\ NoSessions /\ NoSearch /\ NoTour /\ NoNetwork
    \/ /\ part \in {"overlays", "cities"} /\ Store!Init
       /\ NoPreferences /\ NoWarm /\ NoHome /\ NoPager /\ NoSearch /\ NoTour /\ NoNetwork
    \/ /\ part = "search" /\ Search!Init
       /\ NoPreferences /\ NoWarm /\ NoHome /\ NoPager /\ NoSessions /\ NoTour /\ NoNetwork
    \/ /\ part = "tour" /\ Tour!Init
       /\ NoPreferences /\ NoWarm /\ NoHome /\ NoPager /\ NoSessions /\ NoSearch /\ NoNetwork
    \/ /\ part = "network" /\ Network!Init
       /\ NoPreferences /\ NoWarm /\ NoHome /\ NoPager /\ NoSessions /\ NoSearch /\ NoTour

MCNext ==
    /\ UNCHANGED part
    /\ \/ /\ part = "preferences" /\ Next
          /\ UNCHANGED <<warmVars, homeVars, pagerVars, sessionVars, searchVars, tourVars, networkVars>>
       \/ /\ part = "warm" /\ Warm!Next
          /\ UNCHANGED <<vars, homeVars, pagerVars, sessionVars, searchVars, tourVars, networkVars>>
       \/ /\ part = "home" /\ Home!Next
          /\ UNCHANGED <<vars, warmVars, pagerVars, sessionVars, searchVars, tourVars, networkVars>>
       \/ /\ part = "pages" /\ Pager!Next
          /\ UNCHANGED <<vars, warmVars, homeVars, sessionVars, searchVars, tourVars, networkVars>>
       \/ /\ UNCHANGED <<vars, warmVars, homeVars, pagerVars, searchVars, tourVars, networkVars>>
          /\ \/ part = "overlays" /\ Store!NextPreferences
             \/ part = "cities" /\ Store!NextResolve
       \/ /\ part = "search" /\ Search!Next
          /\ UNCHANGED <<vars, warmVars, homeVars, pagerVars, sessionVars, tourVars, networkVars>>
       \/ /\ part = "tour" /\ Tour!Next
          /\ UNCHANGED <<vars, warmVars, homeVars, pagerVars, sessionVars, searchVars, networkVars>>
       \/ /\ part = "network" /\ Network!Next
          /\ UNCHANGED <<vars, warmVars, homeVars, pagerVars, sessionVars, searchVars, tourVars>>

MCVars == <<part, vars, warmVars, homeVars, pagerVars, sessionVars, searchVars, tourVars, networkVars>>

MCSpec == MCInit /\ [][MCNext]_MCVars

-----------------------------------------------------------------------------
(* What each part is checked for.                                          *)

\* AutoWarm: one warm-up per metro and release, and markers that say so.
WarmMarkersAreEarned == part = "warm" => Warm!TypeOK /\ Warm!MarkersAreEarned

\* Paging: the pages of a client join up.
PagesJoinUp == part = "pages" => Pager!TypeOK /\ Pager!Pages

\* HomeRegion: looked up once, seen by all, and always found.
HomeRegionIsSettled == part = "home" => Home!TypeOK /\ Home!HomeIsSettledOnce

\* SessionStore: a session keeps what is its own.
SessionsAreKept == part \in {"overlays", "cities"} => Store!TypeOK /\ Store!SessionsKeepApart

\* StreetSearch: every search gives the exact answer.
SearchIsExact == part = "search" => Search!TypeOK /\ Search!SearchesAreExact

\* StopOrder: the best graph and the best order.
TourIsBest == part = "tour" => Tour!TypeOK /\ Tour!ToursAreBest

\* StreetNetwork: the graph allows the moves the segments do.
NetworkIsTrue == part = "network" => Network!TypeOK /\ Network!NetworksAreTrue
=============================================================================
