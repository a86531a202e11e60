----------------------------- MODULE MCAnswers -----------------------------
(***************************************************************************)
(* What the tools answer, made of what the parts of MCParts provide: the   *)
(* first state picks a tool and the others stand still.                    *)
(***************************************************************************)
EXTENDS Integers, FiniteSets, Sequences

CONSTANT None

VARIABLES part, v1, v2, v3, v4, v5, v6, v7, v8, v9, v10, v11, v12, v13

shared == <<v1, v2, v3, v4, v5, v6, v7, v8, v9, v10, v11, v12, v13>>

Routing == INSTANCE RouteCall WITH
    Call <- {1, 2}, Base <- "base", Wide <- "wide",
    yields <- v1, widens <- v2, cached <- v3, at <- v4, confirm <- v5, capped <- v6, radius <- v7,
    graph <- v8, snapped <- v9, answer <- v10, tried <- v11, built <- v12, lost <- v13

Gers == INSTANCE GersLookup WITH
    Caller <- {1, 2}, Id <- {"x", "y"},
    Owner <- <<[x |-> 0, y |-> 3], [x |-> 1, y |-> 0]>>, MaxMisses <- 1, MaxFaults <- 1,
    active <- v1, misses <- v2, call <- v3, raced <- v4, faults <- v5

\* A place that stays, changes its name, or changes its category.
PlaceAt(i) ==
    {None, [name |-> "n", category |-> "x"],
     IF i % 2 = 1 THEN [name |-> "m", category |-> "x"] ELSE [name |-> "n", category |-> "y"]}
Areas ==
    {p \in [{"a", "b"} -> [1..4 -> UNION {PlaceAt(i) : i \in 1..2}]] :
        /\ p["a"][1] = [name |-> "n", category |-> "x"] /\ p["b"][4] # None
        /\ \A s \in {"a", "b"}, i \in 1..4 : p[s][i] \in PlaceAt(i)}

Changes == INSTANCE ReleaseDiff WITH
    Id <- 1..4, Name <- {"n", "m"}, Category <- {"x", "y"}, Gone <- None, Places <- Areas,
    Gaps <- {[a |-> {}, b |-> {}], [a |-> {"category"}, b |-> {}]},
    ScanLimit <- 3, MaxRows <- 2, Limit <- {1, 3},
    places <- v1, lacks <- v2, category <- v3, limit <- v4, at <- v5, lists <- v6, counts <- v7,
    truncated <- v8

\* A town for each way the data can hold the name, and questions about them.
Town(as, tier, whole, region, country, loc, populated, popular) ==
    [as |-> as, tier |-> tier, whole |-> whole, region |-> region, country |-> country, loc |-> loc,
     populated |-> populated, popular |-> popular]
Spelled ==
    {Town("plain", 3, FALSE, "US-CA", "US", "A", TRUE, TRUE), Town("plain", 1, FALSE, None, "GB", "B", FALSE, FALSE),
     Town("plain", 3, TRUE, None, "GB", "B", TRUE, FALSE), Town("folded", 3, FALSE, "US-CA", "US", "A", TRUE, TRUE),
     Town("abbrev", 2, FALSE, None, "GB", "B", TRUE, FALSE), Town("typo", 3, FALSE, None, "GB", "B", TRUE, TRUE),
     Town("alternate", 3, FALSE, None, "GB", "B", TRUE, TRUE)}
Suffix(kind, comma, code) == [kind |-> kind, comma |-> comma, code |-> code]
Suffixes ==
    {Suffix("region", c, "US-CA") : c \in BOOLEAN} \cup {Suffix("country", c, "GB") : c \in BOOLEAN}
        \cup {Suffix("unknown", TRUE, None)}
Hint(near, alias, splits, places) == [near |-> near, alias |-> alias, splits |-> splits, places |-> places]
Hints ==
    {Hint(None, None, <<>>, {"A"}), Hint(None, None, <<"B", "A">>, {"A"}), Hint(None, None, <<"B">>, {}),
     Hint("A", None, <<>>, {"A", "B"}), Hint("A", "B", <<>>, {"B"}), Hint(None, "B", <<"A">>, {"A"})}
Posed(rows, q, p, e, h, words, table) ==
    [rows |-> rows, places |-> h.places, qualifier |-> q, postcode |-> p, explicit |-> e, near |-> h.near,
     alias |-> h.alias, splits |-> h.splits, generic |-> words = "generic", feature |-> words = "feature",
     remote |-> words # "feature", table |-> IF table = "plain" THEN "full" ELSE table,
     alt |-> table \in {"full", "bundled"}]
Questions ==
    {Posed(rows, q[1], q[2], e, h, w, t) :
        rows \in {S \in SUBSET Spelled : Cardinality(S) <= 2},
        q \in ({None} \X {"no", "hit", "miss"}) \cup (Suffixes \X {"no"}),
        e \in {None, "US"}, h \in Hints, w \in {"name", "feature", "generic"},
        t \in {"full", "plain", "bundled", "none"}}

Geocode == INSTANCE GeocodeLadder WITH
    Query <- Questions, Location <- {"A", "B"}, Country <- {"US", "GB"},
    CountryOf <- [r \in {"US-CA"} |-> "US"], Limit <- 2,
    query <- v1, at <- v2, text <- v3, region <- v4, country <- v5, divisions <- v6, fuzzy <- v7,
    pending <- v8, places <- v9, scheduled <- v10, qualifierNote <- v11, note <- v12, recalls <- v13

\* Shops that a scan by phrase, by word, by kind or at the pin may find.
Shop(id, loc, prominence, holds, alike, label, alias, kind, covers, words, geocoded) ==
    [id |-> id, loc |-> loc, prominence |-> prominence, holds |-> holds, alike |-> alike, label |-> label,
     alias |-> alias, kind |-> kind, covers |-> covers, words |-> words, geocoded |-> geocoded]
Both == {"phrase", "word"}
Shops ==
    {Shop(1, "P", 1, Both, {}, "exact", FALSE, FALSE, TRUE, "all", FALSE),
     Shop(2, "P", 2, {"word"}, {}, "substring", FALSE, TRUE, TRUE, "rest", TRUE),
     Shop(3, "B", 1, Both, {}, "prefix", FALSE, FALSE, TRUE, "rest", TRUE),
     Shop(4, "A", 0, {"word"}, {}, "substring", FALSE, FALSE, FALSE, "rest", TRUE),
     Shop(5, "A", 0, {}, {"word"}, None, FALSE, FALSE, FALSE, "few", FALSE),
     Shop(6, "P", 1, {}, Both, None, FALSE, FALSE, FALSE, "few", FALSE),
     Shop(7, "A", 3, {"word"}, {}, None, FALSE, TRUE, TRUE, "all", TRUE),
     Shop(8, "P", 2, {"word"}, {}, "exact", TRUE, FALSE, FALSE, "few", FALSE),
     Shop(11, "A", 0, {"word"}, {}, "prefix", FALSE, FALSE, FALSE, "few", FALSE),
     Shop(12, "A", 1, Both, {}, "contains", FALSE, FALSE, TRUE, "few", FALSE)}
Quarters ==
    {[id |-> 9, loc |-> "A", prominence |-> 2, label |-> "prefix"],
     [id |-> 10, loc |-> "B", prominence |-> 3, label |-> "substring"]}
Resolvable ==
    {[places |-> ps, areas |-> as, hint |-> h[1], known |-> h[2], anchor |-> a, typed |-> t, remote |-> h[3], limit |-> l] :
        ps \in {S \in SUBSET Shops : Cardinality(S) <= 2}, as \in SUBSET Quarters,
        h \in {<<"alias", TRUE, TRUE>>, <<"near", FALSE, TRUE>>, <<"city", TRUE, FALSE>>,
               <<"city", FALSE, TRUE>>, <<"none", FALSE, FALSE>>},
        a \in {None, [loc |-> "A", strong |-> FALSE], [loc |-> "B", strong |-> TRUE]}, t \in BOOLEAN, l \in {1, 3}}
OneCity(x, y) == x = y \/ {x, y} = {"P", "A"}

Resolve == INSTANCE ResolveLadder WITH
    Query <- Resolvable, Location <- {"A", "B", "P"}, Near <- OneCity, Pin <- "P", Stated <- "A",
    query <- v1, at <- v2, near <- v3, reference <- v4, guess <- v5, hits <- v6, held <- v7,
    confident <- v8, candidates <- v9

\* Doorways on two streets of a prefix, crossings of two, and cities asked for.
LeadOf ==
    [t \in {"1", "2", "2A", "4", "5", "6", "lot"} |->
        CASE t = "1" -> 1 [] t \in {"2", "2A"} -> 2 [] t = "4" -> 4 [] t = "5" -> 5 [] t = "6" -> 6 [] OTHER -> None]
Door(text, street, local, dist) == [text |-> text, street |-> street, local |-> local, dist |-> dist]
Doors ==
    {Door("1", "NW", TRUE, 3), Door("2A", "NW", TRUE, 1), Door("4", "NW", FALSE, 2), Door("4", "SE", TRUE, 4),
     Door("5", "NW", TRUE, 5), Door("6", "NW", TRUE, 8), Door("lot", "NW", TRUE, 6), Door("2", "SE", FALSE, 7)}
Metropolis(id, country) == [id |-> id, country |-> country]
Metropolises ==
    {<<>>, <<Metropolis("p", "x")>>, <<Metropolis("q", "x"), Metropolis("s", "x"), Metropolis("p", "x")>>,
     <<Metropolis("q", "x"), Metropolis("r", "y"), Metropolis("p", "x")>>, <<Metropolis("s", None), Metropolis("p", None)>>}
Road(to, names) == [to |-> to, names |-> names]
Corners ==
    {[pos |-> 1, arms |-> {Road(2, {"a", "b"}), Road(3, {"b"}), Road(4, {})}],
     [pos |-> 2, arms |-> {Road(1, {"a"}), Road(3, {"b"}), Road(4, {})}],
     [pos |-> 3, arms |-> {Road(2, {"a", "b"}), Road(3, {"b"})}],
     [pos |-> 4, arms |-> {Road(1, {"a"}), Road(2, {"a", "b"}), Road(3, {"b"}), Road(4, {})}],
     [pos |-> 5, arms |-> {Road(2, {"a", "b"}), Road(5, {}), Road(4, {})}]}
Plain == [candidates |-> <<Metropolis("p", "x")>>, number |-> None, limit |-> 1, column |-> TRUE, points |-> {},
          crossing |-> FALSE, nodes |-> {}]
CitySearches == {[Plain EXCEPT !.candidates = c] : c \in Metropolises}
AddressSearches ==
    CitySearches
    \cup {[Plain EXCEPT !.candidates = c, !.crossing = TRUE, !.nodes = Corners] : c \in Metropolises}
    \cup {[Plain EXCEPT !.number = n, !.limit = l, !.points = ps] :
              n \in {"2", "lot"}, l \in {1, 2}, ps \in {S \in SUBSET Doors : Cardinality(S) <= 4}}
    \cup {[Plain EXCEPT !.number = n, !.limit = 2, !.column = (n = None), !.points = ps] :
              n \in {None, "4"}, ps \in {S \in SUBSET Doors : Cardinality(S) = 3}}
    \cup {[Plain EXCEPT !.crossing = TRUE, !.nodes = ns] : ns \in SUBSET Corners}
ExtentIn ==
    [r1 |-> [p |-> "city", q |-> "broad", r |-> "city", s |-> "none"],
     r2 |-> [p |-> "city", q |-> "broad", r |-> "none", s |-> "city"]]

Addresses == INSTANCE AddressSearch WITH
    Release <- DOMAIN ExtentIn, Id <- {"p", "q", "r", "s"}, Extent <- ExtentIn,
    Question <- AddressSearches, Again <- CitySearches, Lead <- LeadOf,
    HalfFetch <- 2, ClusterSize <- 2, MaxCrossings <- 2, MaxCalls <- 2, MaxRollovers <- 1, MaxFaults <- 1,
    active <- v1, memo <- v2, question <- v3, at <- v4, next <- v5, key <- v6, anchor <- v7, rows <- v8,
    match <- v9, distinct <- v10, used <- v11, raced <- v12

\* Trips of three people's kinds: by length, cut short, or not to be made.
NoTrip(how) == [how |-> how, time |-> 0, length |-> 0, truncated |-> FALSE]
Trip(time, length, truncated) == [how |-> "ok", time |-> time, length |-> length, truncated |-> truncated]
Comparison(kind, ends, legs, cold, confirm, limit, circles) ==
    [kind |-> kind, ends |-> ends, legs |-> legs, cold |-> cold, confirm |-> confirm, limit |-> limit, shared |-> circles]
Square == {1, 2} \X {1, 2}
Venue ==
    {<<s, t>> : s \in {Trip(2, 1, FALSE), Trip(4, 3, FALSE), Trip(3, 2, TRUE)},
                t \in {Trip(3, 2, FALSE), Trip(1, 5, FALSE), NoTrip("too_far"), NoTrip("no_route")}}
    \cup {<<NoTrip("no_graph"), Trip(3, 2, FALSE)>>}
Meetings ==
    {Comparison("meet", <<"point", "name">>, legs, {}, TRUE, limit, <<>>) :
        legs \in {<<>>} \cup {<<x, y, <<z, z>>>> : x, y \in Venue, z \in {Trip(2, 1, FALSE), Trip(4, 2, FALSE)}}, limit \in {1, 2}}
    \cup {Comparison("meet", <<"point", "name">>,
                     <<<<Trip(2, 1, FALSE), NoTrip("too_far")>>, <<Trip(2, 1, FALSE), Trip(3, 2, TRUE)>>>>, cold, c, 1, <<>>) :
              cold \in SUBSET Square, c \in BOOLEAN}
    \cup {Comparison(k, ends, <<<<Trip(2, 1, FALSE)>>>>, {<<1, 1>>}, TRUE, 1, <<>>) :
              k \in {"meet", "modes", "matrix"},
              ends \in {<<"wrong", "unknown">>, <<"name", "unknown">>, <<"wrong", "point">>}}
ModeTrips ==
    {Comparison("modes", <<"name", "point">>, <<<<x>>, <<y>>, <<z>>>>, cold, c, 1, <<>>) :
        x, y \in {Trip(2, 3, FALSE), Trip(3, 2, TRUE), NoTrip("too_far"), NoTrip("no_route")},
        z \in {Trip(4, 1, FALSE), NoTrip("no_graph")},
        cold \in {{}, {<<2, 1>>}, {<<1, 1>>, <<2, 1>>, <<3, 1>>}}, c \in BOOLEAN}
Circle(usable, truncated, joins) == [usable |-> usable, truncated |-> truncated, joins |-> joins]
Circles ==
    {Circle(FALSE, FALSE, {})} \cup {Circle(TRUE, FALSE, joins) : joins \in SUBSET Square}
    \cup {Circle(TRUE, TRUE, joins) : joins \in {{}, {<<1, 2>>}, Square \ {<<1, 1>>}, Square}}
Matrix(legs, cold, circles) ==
    Comparison("matrix", <<"name", "point", "point", "point">>, legs, cold, FALSE, 1, circles)
Matrices ==
    {Matrix(<<<<x, y>>, <<z, w>>>>, {<<1, 1>>}, <<>>) :
        x, y, z \in {Trip(2, 1, FALSE), Trip(3, 2, TRUE), NoTrip("no_graph"), NoTrip("too_far")},
        w \in {Trip(2, 1, FALSE), NoTrip("no_graph")}}
    \cup {Matrix([i \in 1..2 |-> [j \in 1..2 |-> Trip(2, 1, FALSE)]], {}, tried) :
              tried \in {<<s>> : s \in Circles} \cup (Circles \X Circles)}
Comparisons == Meetings \cup ModeTrips \cup Matrices

Trips == INSTANCE TripComparison WITH
    Question <- Comparisons, MaxFaults <- 1, MaxEvictions <- 1,
    question <- v1, at <- v2, row <- v3, legs <- v4, done <- v5, best <- v6, cold <- v7, answer <- v8,
    faults <- v9, evictions <- v10, built <- v11

\* A block with a one-way bulge, a pair of parallel streets and a fragment; a
\* long road; fragments alone; nothing.
Way(a, b, length, time, shape, name) ==
    [from |-> a, to |-> b, length |-> length, time |-> time, shape |-> shape, name |-> name]
Blocks ==
    [town |-> [coords |-> <<<<0, 0>>, <<4, 0>>, <<4, 4>>, <<0, 4>>, <<0, -2>>, <<2, -2>>>>,
               ways |-> <<Way(1, 2, 4, 4, <<>>, "A"), Way(2, 1, 4, 4, <<>>, "A"),
                          Way(2, 3, 8, 2, <<<<6, 0>>, <<6, 4>>>>, "A"), Way(2, 3, 4, 4, <<>>, "B"), Way(3, 2, 4, 4, <<>>, "B"),
                          Way(3, 4, 4, 4, <<>>, ""), Way(4, 3, 4, 4, <<>>, ""),
                          Way(4, 1, 8, 6, <<<<-2, 4>>, <<-2, 0>>>>, "A"),
                          Way(5, 6, 2, 2, <<>>, "C"), Way(6, 5, 2, 2, <<>>, "C")>>],
     road |-> [coords |-> <<<<0, 0>>, <<9, 0>>, <<9, 2>>>>,
               ways |-> <<Way(1, 2, 9, 9, <<>>, "A"), Way(2, 1, 9, 9, <<>>, "A"), Way(2, 3, 2, 2, <<>>, "B")>>],
     bits |-> [coords |-> <<<<0, 0>>, <<2, 0>>, <<0, 9>>, <<1, 9>>>>,
               ways |-> <<Way(1, 2, 2, 2, <<>>, "A"), Way(3, 4, 1, 1, <<>>, "B")>>],
     none |-> [coords |-> <<>>, ways |-> <<>>]]
BlockPaths ==
    [n \in DOMAIN Blocks |->
        LET nodes == DOMAIN Blocks[n].coords
            ways == {Blocks[n].ways[i] : i \in DOMAIN Blocks[n].ways}
            all == {p \in UNION {[1..k -> nodes] : k \in 1..Cardinality(nodes)} :
                       /\ \A i, j \in DOMAIN p : i # j => p[i] # p[j]
                       /\ \A i \in 1..(Len(p) - 1) : \E w \in ways : w.from = p[i] /\ w.to = p[i + 1]} IN
        [e \in nodes \X nodes |-> {p \in all : p[1] = e[1] /\ p[Len(p)] = e[2]}]]
TraceOf(points, streets, timed) == [points |-> points, streets |-> streets, timed |-> timed, toowide |-> FALSE, known |-> TRUE]
TownPlaces == {<<0, 0>>, <<3, 0>>, <<6, 2>>, <<-3, 2>>, <<9, 9>>}
RoadPlaces == {<<3, 0>>, <<5, 0>>, <<8, 2>>, <<-2, 0>>}
Traces ==
    {TraceOf(<<x, y, z>>, "town", t) : x, y, z \in TownPlaces, t \in BOOLEAN}
    \cup {TraceOf(<<<<1, -3>>, x, <<2, 5>>>>, "town", t) : x \in TownPlaces, t \in BOOLEAN}
    \cup {TraceOf(<<x, y, z>>, s, FALSE) : x, y, z \in RoadPlaces, s \in {"road", "bits"}}
    \cup {[points |-> p, streets |-> s, timed |-> FALSE, toowide |-> w, known |-> k] :
             p \in {<<>>, <<<<0, 0>>>>, <<<<0, 0>>, None, None>>, <<<<0, 0>>, <<3, 0>>, <<0, 0>>, <<3, 0>>>>},
             s \in {"town", "none"}, w, k \in BOOLEAN}

Trace == INSTANCE MapMatch WITH
    Question <- Traces, Streets <- Blocks, PathsOf <- BlockPaths, SnapRadius <- 3, MinComponent <- 3,
    MaxPoints <- 3, MaxFaults <- 1,
    question <- v1, at <- v2, usable <- v3, snapped <- v4, anchor <- v5, accepted <- v6, unmatched <- v7,
    geometry <- v8, matchedLength <- v9, roads <- v10, answer <- v11, faults <- v12

\* A park that may be near or far, a hidden one, one whose name alone is like
\* it, one beyond every search; claims of each kind, at and past each bound.
WayTo(how, time, cut) == [how |-> how, time |-> time, truncated |-> cut]
VenueAt(id, of, like, named, similar, distance, way) ==
    [id |-> id, of |-> of, like |-> like, named |-> named, similar |-> similar, distance |-> distance, way |-> way]
ClaimVenues ==
    {VenueAt(1, {"park"}, {"park"}, {"n"}, {"n"}, d, WayTo("ok", 6, FALSE)) : d \in {2, 5}}
    \cup {VenueAt(2, {"park"}, {"park"}, {}, {"n"}, 5, WayTo("ok", 9, TRUE)), VenueAt(2, {"park"}, {"park"}, {}, {}, 3, WayTo("no_route", 0, FALSE))}
    \cup {VenueAt(3, {}, {"park"}, {"n"}, {"n"}, 1, WayTo("ok", 1, FALSE)), VenueAt(3, {"park"}, {"park"}, {"n"}, {"n"}, 9, WayTo("ok", 10, FALSE))}
    \cup {VenueAt(4, {"park"}, {"park"}, {}, {}, 13, WayTo("ok", 14, FALSE))}
Claimed(kind, category, name, claimed, radius) == [kind |-> kind, category |-> category, name |-> name, claimed |-> claimed, radius |-> radius]
ClaimTowns == {S \in SUBSET ClaimVenues : \A p, r \in S : p.id = r.id => p = r}
SingleClaims ==
    {Claimed(k, "park", n, c, 0) : k \in {"travel_time", "distance"}, n \in {None, "n"}, c \in {-1, 0, 2, 4, 5, 7}}
    \cup {Claimed(k, None, "n", c, 0) : k \in {"travel_time", "distance"}, c \in {4, 6}}
    \cup {Claimed("count_nearby", t, n, c, r) : t \in {"park", None}, n \in {None, "n"}, c \in {0, 1, 2, 3, 4}, r \in {-1, 5, 10, 12}}
    \cup {Claimed("distance", "park", None, None, 0)}
ClaimLists == {<<c>> : c \in SingleClaims} \cup {<<>>, <<Claimed(None, "park", None, 1, 0)>>}
    \cup {<<c, d, c>> : c \in {Claimed("travel_time", "park", None, 4, 0), Claimed("distance", "park", "n", 5, 0)}, d \in {Claimed("count_nearby", "park", None, 2, 5), Claimed("distance", None, None, 2, 5)}}
    \cup {<<c, c, c>> : c \in {Claimed("travel_time", "park", None, 4, 0)}}
    \cup {<<c, c, c, c>> : c \in {Claimed("distance", "park", None, 4, 0)}}
Listings == {[claims |-> l, places |-> t, degraded |-> FALSE] : l \in ClaimLists, t \in ClaimTowns} \cup
    {[claims |-> <<c>>, places |-> t, degraded |-> TRUE] : c \in {Claimed("distance", "park", None, 4, 0), Claimed("count_nearby", "park", None, 2, 5)}, t \in ClaimTowns}

Claims == INSTANCE ListingClaims WITH
    Question <- Listings, MinSearch <- 3, RouteCap <- 10, CountCap <- 10, DistanceCap <- 12, MaxRows <- 3, MaxCandidates <- 2,
    MaxClaims <- 3, MaxTravelClaims <- 2, MaxFaults <- 1,
    question <- v1, at <- v2, found <- v3, results <- v4, answer <- v5, faults <- v6

\* Areas with more categories than a list holds, empty ones, and one whose mix
\* is another in the next release.
MixOf(a, b, c, loose) == [x \in {"a", "b", "c", "loose"} |-> CASE x = "a" -> a [] x = "b" -> b [] x = "c" -> c [] OTHER -> loose]
Still(m) == [r \in {1, 2} |-> m]
Mixes == {MixOf(0, 0, 0, 0), MixOf(1, 1, 1, 0), MixOf(3, 1, 2, 1), MixOf(0, 4, 1, 0), MixOf(2, 0, 0, 2), MixOf(5, 1, 1, 0)}
PairsOfAreas ==
    {<<Still(m), Still(n)>> : m \in Mixes, n \in Mixes \ {MixOf(1, 1, 1, 0), MixOf(2, 0, 0, 2), MixOf(0, 0, 0, 0)}} \cup {<<Still(m), [Still(n) EXCEPT ![2] = MixOf(1, 0, 3, 0)]>> : m, n \in {MixOf(1, 1, 1, 0), MixOf(0, 4, 1, 0)}}
    \cup {<<Still(m), Still(n), Still(MixOf(1, 1, 1, 0))>> : m, n \in {MixOf(3, 1, 2, 1), MixOf(0, 4, 1, 0)}}
For(c, prefer, weight) == [category |-> c, prefer |-> prefer, weight |-> weight]
PriorityLists ==
    {None, <<>>, <<For(None, "more", 1)>>} \cup {<<For(c, p, 1)>> : c \in {"a", "b", "density"}, p \in {"more", "fewer"}}
    \cup {<<For("a", "more", w), For("c", p, 2)>> : w \in {0, 1, 9}, p \in {"more", "fewer"}}
    \cup {<<For("a", "more", 1), For("c", "more", 1), For("b", "more", 1)>>}
AreaQuestions ==
    {[areas |-> a, known |-> TRUE, priorities |-> p, columns |-> c] : a \in PairsOfAreas, p \in PriorityLists, c \in {"all"}}
    \cup {[areas |-> a, known |-> k, priorities |-> p, columns |-> c] :
            a \in {<<>>, <<Still(MixOf(3, 1, 2, 1)), Still(MixOf(0, 4, 1, 0))>>, [i \in 1..4 |-> Still(MixOf(3, 1, 2, 1))]}, k \in BOOLEAN,
            p \in {None, <<For("a", "more", 1)>>, <<For("density", "more", 1)>>}, c \in {"taxonomy", "none"}}

Sides == INSTANCE AreaComparison WITH
    Question <- AreaQuestions, Category <- {"a", "b", "c"}, Below <- [x \in {"a", "b", "c"} |-> IF x = "a" THEN {"a", "b"} ELSE {x}],
    MaxRows <- 2, TopShown <- 2, MaxAreas <- 3, MaxPriorities <- 2, MinWeight <- 1, MaxWeight <- 3,
    Whole <- 60, Grid <- 7, Extent <- 2, MaxFaults <- 1,
    question <- v1, at <- v2, release <- v3, summaries <- v4, counts <- v5, answer <- v6, faults <- v7

\* Reaches that overlap in one run, in three, or not at all; wards that lie in
\* several of them, one that resolves to nothing, more than are looked at.
Having(count, near) == [count |-> count, near |-> near]
Ward(id, cells, known, park, shop) ==
    [id |-> id, cells |-> cells, known |-> known, has |-> [p \in {"park", "shop"} |-> IF p = "park" THEN park ELSE shop],
     legs |-> IF id = "w" THEN <<"ok", "no_route">> ELSE <<"ok", "ok">>]
Wards ==
    {{}, {Ward("u", {1, 2}, FALSE, Having(1, 1), Having(0, 0))}}
    \cup {{Ward("u", {1, 2}, k, Having(1, 1), Having(0, 0)), Ward("v", {2, 3, 4, 5}, TRUE, p, Having(2, 2)), Ward("w", {5}, TRUE, Having(4, 3), Having(1, 1))}
          : k \in BOOLEAN, p \in {Having(0, 0), Having(2, 1)}}
    \cup {{Ward("u", {1, 2}, TRUE, Having(1, 1), Having(0, 0)), Ward("v", {2, 3, 4, 5}, TRUE, Having(2, 1), Having(2, 2)),
           Ward("w", {5}, TRUE, Having(4, 3), Having(1, 1)), Ward("x", {3, 4}, TRUE, Having(4, 1), Having(0, 0))}}
Reach(shed, cached) == [shed |-> shed, how |-> "ok", cached |-> cached]
Reaches ==
    {<<Reach(s, c)>> : s \in {1..3, 2..5, 6..6}, c \in BOOLEAN}
    \cup {<<Reach(s, c), Reach(t, d)>> : s \in {1..5}, t \in {1..3, {1, 3, 5}, {1, 2, 3, 5}, {6}}, c, d \in BOOLEAN}
    \cup {<<Reach(1..5, FALSE), [Reach({}, TRUE) EXCEPT !.how = f]>> : f \in {"no_graph_nearby", "radius_too_large"}}
    \cup {<<>>, <<Reach(1..5, TRUE), Reach(1..5, TRUE), Reach(1..5, TRUE)>>}
Suggestions ==
    {[anchors |-> a, requirements |-> r, limit |-> l, confirm |-> c, legsCached |-> c, degraded |-> FALSE, divisions |-> w]
        : a \in Reaches, r \in {<<"park">>, <<"subjective">>, <<"park", "subjective", "shop">>}, l \in {1, 2}, c \in BOOLEAN, w \in Wards}
    \cup {[anchors |-> <<Reach(1..5, TRUE)>>, requirements |-> r, limit |-> 0, confirm |-> FALSE, legsCached |-> TRUE, degraded |-> TRUE, divisions |-> w]
        : r \in {<<>>, <<"park">>, <<None>>, <<"park", "park", "park", "park">>, <<"unmatched">>}, w \in Wards}

Suggest == INSTANCE AreaSuggestion WITH
    Question <- Suggestions, Cell <- 1..6, Place <- {"park", "shop"}, MaxAnchors <- 2, MaxRequirements <- 3, MaxLimit <- 2,
    FetchFloor <- 3, MaxRows <- 3, MaxParts <- 2, Saturation <- 3, Radius <- 4, Fine <- 5, MaxFaults <- 1,
    question <- v1, at <- v2, built <- v3, sheds <- v4, parts <- v5, found <- v6, candidates <- v7, scored <- v8,
    answer <- v9, faults <- v10

\* Places in time, beyond it and beyond the reach; a crowd that fills the scan;
\* one that is only found for a need; contexts and overrides of each kind.
SiteOf(id, of, also, distance) == [id |-> id, of |-> of, found |-> of \cup also, distance |-> distance]
Sites ==
    {{}, {SiteOf(1, {"park"}, {}, 2), SiteOf(2, {"transit"}, {}, 5)}}
    \cup {{SiteOf(1, {"park"}, {}, d), SiteOf(2, {}, o, 2), SiteOf(3, {"transit"}, {}, t), SiteOf(4, {"playground"}, {}, 6)}
            : d \in {1, 4, 9}, o \in {{}, {"park"}}, t \in {3, 8}}
    \cup {{SiteOf(1, {"park"}, {}, 1), SiteOf(2, {"park"}, {}, 1), SiteOf(3, {"park"}, {"transit"}, 2), SiteOf(4, {"transit"}, {}, 3), SiteOf(5, {"school"}, {}, 1)}}
Wordings == {{}, {"no car", "car"}, {"toddler", "kid"}, {"bike"}, {"car", "school"}, {"kid"}}
VerdictOf(words, mode, minutes, radius, places, degraded, stop, reach) ==
    [words |-> words, mode |-> mode, minutes |-> minutes, radius |-> radius, places |-> places, degraded |-> degraded, stop |-> stop, reach |-> reach]
Homes ==
    {VerdictOf(w, None, None, None, s, FALSE, t, r) : w \in Wordings, s \in Sites, t \in {None, 4, 7}, r \in {None, 3, 9}}
    \cup {VerdictOf({}, m, n, r, s, d, 4, 5) : m \in {None, "walk", "cycle", "fly"}, n \in {None, 0, 2}, r \in {None, -1, 0, 6, 99}, s \in Sites, d \in BOOLEAN}

Living == INSTANCE NeighborhoodVerdict WITH
    Question <- Homes, Need <- {"park", "transit", "playground", "school"}, Daily <- <<"park", "transit">>,
    Triggers <- <<[words |-> {"toddler"}, need |-> "playground"], [words |-> {"kid", "school"}, need |-> "school"]>>,
    HouseholdOf <- [w \in {"no car", "car", "bike", "toddler", "kid", "school"} |->
        CASE w = "toddler" -> "toddler" [] w = "kid" -> "child" [] OTHER -> None],
    Speed <- [m \in {"walk", "cycle", "drive"} |-> CASE m = "walk" -> 1 [] m = "cycle" -> 2 [] OTHER -> 3],
    CapOf <- [m \in {"walk", "cycle", "drive"} |-> IF m = "walk" THEN 8 ELSE 10],
    Minutes <- 4, Buffer <- 2, MaxChecklist <- 3, MaxPlaces <- 3, MaxFaults <- 1,
    question <- v1, at <- v2, rows <- v3, reach <- v4, checklist <- v5, notes <- v6, answer <- v7, faults <- v8


\* Zigzags, a hook, steps of unlike height, a ring of eight corners, and two lines at once.
Zigzag(a, b, c) == << <<0, 0>>, <<1, a>>, <<2, b>>, <<3, c>>, <<4, 0>> >>
Hook == << <<0, 0>>, <<4, 0>>, <<3, 0>>, <<2, 1>> >>
Ring(a, b) == << <<0, 0>>, <<2, 0 - a>>, <<4, 0>>, <<4 + b, 2>>, <<4, 4>>, <<1, 5>>, <<0, 4>>, <<0, 0>> >>
Steps == << <<0, 0>>, <<0, 3>>, <<10, 4>>, <<18, 3>>, <<20, 0>> >>
Thin == << <<0, 0>>, <<1, 0>>, <<0, 1>>, <<0, 0>> >>
LineShapes == {<<Zigzag(a, b, c)>> : a \in 0..2, b \in 0..2, c \in 0..2} \cup {<<Hook>>, <<Steps>>, <<Hook, Zigzag(1, 0, 2)>>}
RingShapes == {<<Ring(a, b)>> : a \in 0..1, b \in 0..1} \cup {<<Thin>>, <<Ring(1, 0), Thin>>}
Shapes ==
    {[kind |-> "LineString", lines |-> l, size |-> n] : l \in LineShapes, n \in 1..4}
    \cup {[kind |-> "Polygon", lines |-> l, size |-> n] : l \in RingShapes, n \in {3, 5, 6, 9}}
    \cup {[kind |-> "Point", lines |-> << << <<1, 1>> >> >>, size |-> 0],
          [kind |-> "LineString", lines |-> << <<>> >>, size |-> 3], [kind |-> "other", lines |-> <<>>, size |-> 3]}
Thinning == INSTANCE Simplify WITH Question <- Shapes, Unit <- 2, OpBudget <- 40, MaxInputPoints <- 12, MaxExpandIters <- 4, MaxBisectIters <- 4, question <- v1, at <- v2, left <- v3, lo <- v4, hi <- v5, rounds <- v6, best <- v7, answer <- v8


\* What is reached: a frame whose hole is toothed, a horseshoe whose ends
\* touch at a corner, two squares that do or do not, and crossings far apart.
Rect(x1, x2, y1, y2) == {<<x, y>> : x \in x1..x2, y \in y1..y2}
Comb == (Rect(0, 6, -3, 3) \ Rect(1, 5, -2, 2)) \cup Rect(2, 2, -2, 1) \cup Rect(4, 4, -1, 2)
Horseshoe == Rect(0, 3, 0, 3) \ {<<1, 1>>, <<2, 1>>, <<1, 2>>, <<3, 3>>, <<2, 2>>}
Spots ==
    {Horseshoe, Rect(0, 1, 0, 1) \cup Rect(2, 3, 2, 3), Rect(-3, -2, 0, 1) \cup Rect(1, 2, 0, 1) \cup {<<0, 1>>},
     {<<2 * x, 2 * y>> : x \in 0..2, y \in 0..2}, {<<3 * x, 0 - 3 * y>> : x \in -1..1, y \in 0..1},
     {<<0, 0>>, <<1, 1>>, <<2, 2>>, <<1, 3>>}, {<<2, 1>>}, {}}
Asking == [crossings |-> {}, point |-> "point", mode |-> "walk", minutes |-> 4, radius |-> None, snaps |-> TRUE,
           cut |-> FALSE, fails |-> "no"]
Timed(spots, late) ==
    {[at |-> p, time |-> IF p = <<0, 0>> THEN 0 ELSE IF p \in late THEN 5 ELSE 4] : p \in spots \cup {<<0, 0>>}}
Odd == {<<2, 1>>, <<3, -1>>, <<1, 3>>, <<0, 2>>, <<-2, 1>>, <<-1, -3>>, <<2, 3>>}
Asks ==
    {[Asking EXCEPT !.crossings = Timed(s, {})] : s \in Spots}
    \cup {[Asking EXCEPT !.crossings = Timed(s, {}), !.mode = "drive"] : s \in {Comb, Rect(5, 8, 0, 0)}}
    \cup {[Asking EXCEPT !.crossings = Timed(Odd, s)] : s \in SUBSET Odd}
    \cup {[Asking EXCEPT !.crossings = Timed(Odd, {}), !.point = p] : p \in {"where", "unknown", "both", "none"}}
    \cup {[Asking EXCEPT !.crossings = Timed(Odd, {<<0, 2>>}), !.mode = m, !.minutes = n, !.radius = r] :
            m \in {"walk", "drive", "fly"}, n \in {0, 4, 5}, r \in {None, -1, 1, 2, 9}}
    \cup {[Asking EXCEPT !.crossings = Timed(Odd, {}), !.snaps = s, !.cut = s] : s \in BOOLEAN}
    \cup {[Asking EXCEPT !.fails = f, !.snaps = FALSE] : f \in {"no", "upstream_unavailable", "schema_degraded"}}
Outline == INSTANCE ReachOutline WITH Question <- Asks, Speed <- [walk |-> 1, drive |-> 2], CapOf <- [walk |-> 5, drive |-> 8],
    Buffer <- 2, Margin <- 1, CellMin <- 1, CellDivisor <- 4, MaxDoublings <- 1, MinNodes <- 5, MaxCorners <- 20,
    MaxPolygonPoints <- 5, TokenBudget <- 4,
    question <- v1, at <- v2, reached <- v3, size <- v4, doublings <- v5, cells <- v6, untraced <- v7, walk <- v8, loops <- v9, shape <- v10, answer <- v11

\* A bent path of five nodes, one with a long segment, one that comes back, one
\* without a segment; places at its ends, beside it, and too far off.
NodeAt(x, y, along) == [at |-> <<x, y>>, along |-> along]
BentPath == <<NodeAt(0, 0, 0), NodeAt(2, 0, 2), NodeAt(2, 2, 4), NodeAt(4, 2, 6), NodeAt(6, 2, 8)>>
LongPath == <<NodeAt(0, 0, 0), NodeAt(1, 0, 1), NodeAt(6, 0, 7)>>
BackPath == <<NodeAt(0, 0, 0), NodeAt(4, 0, 4), NodeAt(4, 1, 5), NodeAt(0, 1, 9)>>
Stall(id, x, y, doubt) == [id |-> id, at |-> <<x, y>>, matches |-> TRUE, doubt |-> doubt]
Stalls ==
    {Stall(1, 0, 0, 0), Stall(2, 1, 1, 2), Stall(3, 3, 1, 1), Stall(4, 5, 1, 0), Stall(5, 6, 3, 3), Stall(6, 3, 4, 0),
     [Stall(7, 4, 1, 1) EXCEPT !.matches = FALSE]}
OnWay == [known |-> TRUE, detour |-> 1, limit |-> 3, route |-> "found", path |-> BentPath, places |-> Stalls, cut |-> FALSE,
          fails |-> FALSE]
Ways ==
    {[OnWay EXCEPT !.path = p, !.places = s, !.detour = d, !.limit = l] :
        p \in {BentPath, LongPath, BackPath, <<NodeAt(1, 0, 0)>>}, s \in SUBSET Stalls, d \in 1..2, l \in {2, 3, 9}}
    \cup {[OnWay EXCEPT !.known = k, !.detour = d, !.limit = l, !.cut = c] :
            k \in BOOLEAN, d \in {0, 2, 4}, l \in {-1, 0, 1, 4}, c \in BOOLEAN}
    \cup {[OnWay EXCEPT !.route = r] : r \in {"no_route", "no_graph_nearby", "route_too_long", "unsupported_mode"}}
    \cup {[OnWay EXCEPT !.fails = TRUE]}
Stretches == INSTANCE Corridor WITH Question <- Ways, MaxDetour <- 3, MaxPathNodes <- 4, Chunks <- 2, MaxCandidates <- 6, MaxRows <- 4, MaxListed <- 3, MaxVerified <- 2,
    question <- v1, at <- v2, points <- v3, chunk <- v4, candidates <- v5, capped <- v6, rows <- v7, answer <- v8

\* Parks and cafes on both sides of the centre, listings and features of the
\* map; a playground that is a feature beside a listing of it.
Venue0 == [id |-> 1, x |-> 0, layer |-> FALSE, kind |-> "park", also |-> {}, sure |-> 1, site |-> TRUE, spelled |-> "other",
           reached |-> TRUE, inside |-> TRUE]
Venues ==
    {[Venue0 EXCEPT !.x = 3, !.spelled = "literal"],
     [Venue0 EXCEPT !.id = 2, !.x = 2, !.layer = TRUE, !.sure = None, !.spelled = None],
     [Venue0 EXCEPT !.id = 3, !.x = 0 - 2, !.kind = "cafe", !.spelled = "alternate", !.reached = FALSE],
     [Venue0 EXCEPT !.id = 4, !.x = 2, !.kind = "cafe", !.also = {"shop"}, !.spelled = "alternate", !.sure = 2],
     [Venue0 EXCEPT !.id = 5, !.x = 6, !.kind = "playground", !.layer = TRUE, !.site = FALSE, !.spelled = "alike", !.inside = FALSE],
     [Venue0 EXCEPT !.id = 6, !.x = 1, !.kind = "playground", !.spelled = "alike", !.site = FALSE],
     [Venue0 EXCEPT !.id = 7, !.x = 4, !.layer = TRUE, !.sure = 0, !.spelled = "literal", !.reached = FALSE]}
Reach0 == [form |-> "good", mode |-> TRUE, of |-> None, cached |-> TRUE, how |-> "ok"]
Find == [point |-> "good", where |-> None, division |-> None, area |-> None, radius |-> 5, detail |-> None, category |-> None,
         categories |-> {}, grouped |-> FALSE, within |-> None, cursor |-> None, confirm |-> FALSE, named |-> FALSE, least |-> None,
         site |-> None, limit |-> 2, missing |-> {}, layered |-> TRUE, places |-> Venues]
InWard == [Find EXCEPT !.point = None, !.division = "known"]
PageAt(n) == [offset |-> n, old |-> FALSE, fits |-> TRUE]
Searches ==
    {[f EXCEPT !.places = s, !.named = n, !.limit = l] : f \in {Find, InWard}, s \in SUBSET Venues, n \in BOOLEAN, l \in {1, 3}}
    \cup {[f EXCEPT !.categories = c, !.grouped = TRUE, !.limit = l, !.detail = d, !.missing = m] :
            f \in {Find, InWard}, c \in {{"park", "cafe"}, {"shop"}, {"play", "zoo", "park"}, {"a", "b", "c", "d"}, {}}, l \in {1, 2},
            d \in {None, "ids"}, m \in {{}, {"taxonomy"}}}
    \cup {[f EXCEPT !.category = c, !.named = n, !.least = m, !.site = w, !.missing = x, !.layered = y] :
            f \in {Find, InWard}, c \in {None, "park", "shop", "zoo"}, n \in BOOLEAN, m \in {None, 1, 9}, w \in {None, FALSE},
            x \in {{}, {"names", "basic"}, {"taxonomy", "basic", "confidence", "websites"}}, y \in BOOLEAN}
    \cup {[Find EXCEPT !.point = None, !.where = w, !.within = [Reach0 EXCEPT !.of = o, !.cached = k, !.how = h], !.confirm = c] :
            w \in {"point", "name", "unknown"}, o \in {"point", "name", "unknown", None}, k, c \in BOOLEAN,
            h \in {"ok", "no_graph_nearby", "schema_degraded", "radius_too_large"}}
    \cup {[Find EXCEPT !.point = p, !.where = w, !.division = d, !.area = a, !.within = i] :
            p \in {"good", "half", "bad", None}, w \in {"name", None}, d \in {"known", "unknown", None},
            a \in {"known", "unknown", "ambiguous", "blank", None},
            i \in {None, Reach0, [Reach0 EXCEPT !.of = "name"], [Reach0 EXCEPT !.form = "wrong"], [Reach0 EXCEPT !.mode = FALSE]}}
    \cup {[f EXCEPT !.cursor = u, !.named = n, !.category = c, !.detail = d, !.limit = l] :
            f \in {Find, InWard}, u \in {None, PageAt(1), PageAt(2), PageAt(5), [PageAt(1) EXCEPT !.old = TRUE], [PageAt(1) EXCEPT !.fits = FALSE]},
            n \in BOOLEAN, c \in {None, "zoo"}, d \in {None, "ids", "short"}, l \in {0, 2, 9}}
    \cup {[Find EXCEPT !.radius = r, !.category = "park", !.categories = c] : r \in {0, 2, 99}, c \in {{}, {"cafe"}}}
FindPlaces == INSTANCE PlaceSearch WITH Question <- Searches, Kind <- <<"cafe", "park", "playground">>, Term <- {"cafe", "park", "play", "shop", "zoo"},
    Within <- [cafe |-> {"cafe"}, park |-> {"park"}, playground |-> {"play"}], Room <- [compact |-> 2, ids |-> 4],
    MaxSure <- 2, MaxRadius <- 6, DedupRadius <- 1, MaxCategories <- 3, MaxRows <- 4, MaxFaults <- 1,
    question <- v1, at <- v2, center <- v3, of <- v4, cached <- v5, built <- v6, faults <- v7, answer <- v8

\* Waters around the point, near it and twice in the tiles; stops, a platform
\* and what is neither; one that is too far off.
Thing0 == [no |-> 1, known |-> TRUE, x |-> 1, holds |-> FALSE, area |-> 0, wide |-> FALSE, sub |-> "canal", class |-> "canal",
           named |-> TRUE, twice |-> FALSE]
Waters ==
    {[Thing0 EXCEPT !.twice = TRUE],
     [Thing0 EXCEPT !.no = 2, !.x = 0, !.holds = TRUE, !.area = 5, !.sub = "lake", !.class = None],
     [Thing0 EXCEPT !.no = 3, !.x = 0, !.holds = TRUE, !.area = 9, !.wide = TRUE, !.sub = "physical", !.class = "sea", !.named = FALSE],
     [Thing0 EXCEPT !.no = 4, !.x = 2, !.sub = "ocean", !.class = "ocean"],
     [Thing0 EXCEPT !.no = 5, !.sub = None, !.class = None, !.named = FALSE],
     [Thing0 EXCEPT !.no = 6, !.x = 3, !.known = FALSE, !.twice = TRUE, !.sub = "lake", !.class = "sea"]}
Stands ==
    {[Thing0 EXCEPT !.sub = "transit", !.class = "bus_stop", !.twice = TRUE],
     [Thing0 EXCEPT !.no = 2, !.x = 2, !.sub = "transit", !.class = "platform"],
     [Thing0 EXCEPT !.no = 3, !.sub = "canal", !.class = "bus_stop"],
     [Thing0 EXCEPT !.no = 4, !.x = 9, !.sub = "transit", !.class = "bus_stop"],
     [Thing0 EXCEPT !.no = 5, !.x = 2, !.known = FALSE, !.twice = TRUE, !.sub = "transit", !.class = "platform", !.named = FALSE],
     [Thing0 EXCEPT !.no = 6, !.x = 3, !.sub = "transit", !.class = "bus_stop"]}
Nearby0 == [theme |-> "water", good |-> TRUE, radius |-> 5, limit |-> 3, subtype |-> None, class |-> None, kind |-> None,
            missing |-> {}, later |-> {}, features |-> Waters]
Nearbys ==
    {[Nearby0 EXCEPT !.features = s, !.limit = l] : s \in SUBSET Waters, l \in {1, 9}}
    \cup {[Nearby0 EXCEPT !.theme = "transit", !.features = s, !.limit = l] : s \in SUBSET Stands, l \in {0, 4}}
    \cup {[Nearby0 EXCEPT !.theme = h, !.subtype = t, !.class = c, !.missing = m, !.later = n, !.limit = 9] :
            h \in {"water", "infrastructure"}, t \in {None, "ocean", "a", "lake"}, c \in {None, "sea"},
            m \in {{}, {"subtype"}, {"id", "class"}}, n \in {{}, {"subtype"}, {"geometry"}}}
    \cup {[Nearby0 EXCEPT !.theme = "transit", !.kind = k, !.features = s, !.missing = m, !.later = n] :
            k \in {None, "bus_stop", "platform", "bench"}, s \in {Stands, {t \in Stands : t.no \in {2, 3, 5}}},
            m \in {{}, {"subtype", "names"}, {"id"}, {"class"}, {"geometry"}}, n \in {{}, {"class"}}}
    \cup {[Nearby0 EXCEPT !.good = FALSE], [Nearby0 EXCEPT !.radius = 1], [Nearby0 EXCEPT !.radius = 99]}
Nearbies == INSTANCE NearbyFeatures WITH Question <- Nearbys, Subtype <- {"canal", "lake", "ocean", "physical", "transit"},
    Class <- {"bus_stop", "platform", "canal", "ocean", "sea"}, KnownSubtype <- {"canal", "lake", "ocean", "physical"},
    Within <- [n \in {"canal", "lake", "ocean", "physical", "transit", "bus_stop", "platform", "sea"} |->
                 CASE n = "sea" -> {"sea"} [] n = "ocean" -> {"ocean", "a"} [] n \in {"canal", "lake"} -> {n, "a"} [] OTHER -> {}],
    Stop <- {"bus_stop"}, Fallback <- {"platform"}, MaxRadius <- 8, MaxRows <- 4, Room <- 2, MaxFaults <- 1,
    question <- v1, at <- v2, missing <- v3, seen <- v4, tiled <- v5, wanted <- v6, body <- v7, rows <- v8, total <- v9, faults <- v10, answer <- v11

\* A park in a town, next to the edge of a tile; woods, with a lake in them.
Parcel0 == [no |-> 1, known |-> TRUE, area |-> 2, called |-> "park", twice |-> TRUE]
Suburb == [Parcel0 EXCEPT !.no = 2, !.area = 9, !.called = "town", !.twice = FALSE]
Woods == [Parcel0 EXCEPT !.area = 9, !.called = "wood"]
Lake == [Parcel0 EXCEPT !.no = 2, !.called = "lake", !.known = FALSE]
Lands(uses, covers) == [land_use |-> uses, land_cover |-> covers]
Land0 == [good |-> TRUE, enabled |-> TRUE, pinned |-> FALSE, bundled |-> TRUE, cell |-> "wood",
          around |-> Lands({Parcel0, Suburb}, {Woods, Lake}), missing |-> Lands({}, {})]
LandAsks ==
    {[Land0 EXCEPT !.around = Lands(u, c), !.cell = w] :
        u \in {{}, {Parcel0}, {Parcel0, Suburb}}, c \in {{Woods}, {Woods, Lake}}, w \in {"wood", "town"}}
    \cup {[Land0 EXCEPT !.around = Lands({Parcel0}, c), !.cell = w] : c \in {{}, {Lake}}, w \in {"wood", None}}
    \cup {[Land0 EXCEPT !.enabled = e, !.pinned = p, !.bundled = b] : e, p, b \in BOOLEAN}
    \cup {[Land0 EXCEPT !.missing = Lands(m, n)] : m, n \in {{}, {"id"}, {"subtype"}, {"geometry"}}}
    \cup {[Land0 EXCEPT !.good = FALSE]}
LandAt == INSTANCE LandUse WITH Question <- LandAsks, Name <- {"park", "town", "wood", "lake"}, CandidateLimit <- 3, MaxCalls <- 2, MaxFaults <- 1,
    question <- v1, at <- v2, calls <- v3, bundled <- v4, tiles <- v5, wanted <- v6, cell <- v7, found <- v8, warm <- v9, faults <- v10, answer <- v11

ASSUME AnswersAssumption ==
    /\ Routing!Assumptions
    /\ Gers!Assumptions
    /\ Changes!Assumptions
    /\ Geocode!Assumptions
    /\ Resolve!Assumptions
    /\ Addresses!Assumptions
    /\ Trips!Assumptions
    /\ Trace!Assumptions
    /\ Claims!Assumptions
    /\ Sides!Assumptions
    /\ Suggest!Assumptions
    /\ Living!Assumptions
    /\ Thinning!Assumptions
    /\ Outline!Assumptions
    /\ Stretches!Assumptions
    /\ FindPlaces!Assumptions
    /\ Nearbies!Assumptions
    /\ LandAt!Assumptions

-----------------------------------------------------------------------------
\* The variables a part does not use.
From12 == <<v12, v13>>
From9 == <<v9, v10, v11, v12, v13>>
From10 == <<v10, v11, v12, v13>>
From13 == <<v13>>
From7 == <<v7, v8, v9, v10, v11, v12, v13>>
From8 == <<v8, v9, v10, v11, v12, v13>>
From11 == <<v11, v12, v13>>
From6 == <<v6, v7, v8, v9, v10, v11, v12, v13>>

None13 == v13 = None
None12 == v12 = None /\ v13 = None
None11 == v11 = None /\ None12
None10 == v10 = None /\ v11 = None /\ None12
None9 == v9 = None /\ None10
None8 == v8 = None /\ None9
None7 == v7 = None /\ v8 = None /\ None9
None6 == v6 = None /\ v7 = None /\ v8 = None /\ v9 = None /\ None10
None1 == v1 = None /\ v2 = None /\ v3 = None /\ v4 = None /\ v5 = None /\ None6

MCInit ==
    \/ part = "route" /\ Routing!Init
    \/ part = "gers" /\ Gers!Init /\ None6
    \/ part = "changes" /\ Changes!Init /\ None9
    \/ part = "geocode" /\ Geocode!Init
    \/ part = "resolve" /\ Resolve!Init /\ None10
    \/ part = "addresses" /\ Addresses!Init /\ None13
    \/ part = "trips" /\ Trips!Init /\ None12
    \/ part = "trace" /\ Trace!Init /\ None13
    \/ part = "claims" /\ Claims!Init /\ None7
    \/ part = "sides" /\ Sides!Init /\ None8
    \/ part = "suggest" /\ Suggest!Init /\ None11
    \/ part = "living" /\ Living!Init /\ None9
    \/ part = "shapes" /\ Thinning!Init /\ None9
    \/ part = "outline" /\ Outline!Init /\ None12
    \/ part = "corridor" /\ Stretches!Init /\ None9
    \/ part = "places" /\ FindPlaces!Init /\ None9
    \/ part = "nearby" /\ Nearbies!Init /\ None12
    \/ part = "land" /\ LandAt!Init /\ None12

MCNext ==
    \/ part = "route" /\ Routing!Next /\ UNCHANGED <<part>>
    \/ part = "gers" /\ Gers!Next /\ UNCHANGED <<part, From6>>
    \/ part = "changes" /\ Changes!Next /\ UNCHANGED <<part, From9>>
    \/ part = "geocode" /\ Geocode!Next /\ UNCHANGED <<part>>
    \/ part = "resolve" /\ Resolve!Next /\ UNCHANGED <<part, From10>>
    \/ part = "addresses" /\ Addresses!Next /\ UNCHANGED <<part, From13>>
    \/ part = "trips" /\ Trips!Next /\ UNCHANGED <<part, From12>>
    \/ part = "trace" /\ Trace!Next /\ UNCHANGED <<part, From13>>
    \/ part = "claims" /\ Claims!Next /\ UNCHANGED <<part, From7>>
    \/ part = "sides" /\ Sides!Next /\ UNCHANGED <<part, From8>>
    \/ part = "suggest" /\ Suggest!Next /\ UNCHANGED <<part, From11>>
    \/ part = "living" /\ Living!Next /\ UNCHANGED <<part, From9>>
    \/ part = "shapes" /\ Thinning!Next /\ UNCHANGED <<part, From9>>
    \/ part = "outline" /\ Outline!Next /\ UNCHANGED <<part, From12>>
    \/ part = "corridor" /\ Stretches!Next /\ UNCHANGED <<part, From9>>
    \/ part = "places" /\ FindPlaces!Next /\ UNCHANGED <<part, From9>>
    \/ part = "nearby" /\ Nearbies!Next /\ UNCHANGED <<part, From12>>
    \/ part = "land" /\ LandAt!Next /\ UNCHANGED <<part, From12>>

MCSpec == MCInit /\ [][MCNext]_<<part, shared>>

-----------------------------------------------------------------------------
\* RouteCall: the answer follows from the graphs, and no build surprises.
\* TripComparison: trips are set side by side as they are.
\* MapMatch: a trace is joined along the streets it was snapped to.
\* A shape that is made to fit keeps what it can, and tells what it lost.
\* The outline of a reach holds what it is drawn around, and tells what it leaves out.
\* Corridor: what is on the way is found, and what is passed over is told.
JourneysAreRight ==
    /\ part = "route" => Routing!TypeOK /\ Routing!RouteAnswersAreRight
    /\ part = "trips" => Trips!TypeOK /\ Trips!TripsAreCompared
    /\ part = "trace" => Trace!TypeOK /\ Trace!TraceIsMatched
    /\ part = "shapes" => Thinning!TypeOK /\ Thinning!ShapesAreSimplified
    /\ part = "outline" => Outline!TypeOK /\ Outline!ReachIsDrawn
    /\ part = "corridor" => Stretches!TypeOK /\ Stretches!WayIsCovered

\* GersLookup: a miss is a miss of the release it is remembered for.
\* GeocodeLadder: what the caller states holds of the answer, and an empty
\* answer is a true one.
\* ResolveLadder: an answer has to do with the whole question.
\* AddressSearch: an address is in the city, and of the street, that were asked for.
\* PlaceSearch: what is found is what was asked for, and what is left out is told.
\* NearbyFeatures: the rows are the nearest of what was asked for, the counts
\* are true, and what is said of water and of stops is so.
\* LandUse: what is not said to be approximate is exact, and so it becomes.
SearchesAreRight ==
    /\ part = "gers" => Gers!TypeOK /\ Gers!LookupsAreHonest
    /\ part = "geocode" => Geocode!TypeOK /\ Geocode!GeocodesAreHonest
    /\ part = "resolve" => Resolve!TypeOK /\ Resolve!ResolvesAreHonest
    /\ part = "addresses" => Addresses!TypeOK /\ Addresses!AddressesAreHonest
    /\ part = "places" => FindPlaces!TypeOK /\ FindPlaces!PlacesAreFound
    /\ part = "nearby" => Nearbies!TypeOK /\ Nearbies!FeaturesAreNear
    /\ part = "land" => LandAt!TypeOK /\ LandAt!LandIsTrue

\* ListingClaims: a claim is graded by the map, and doubted where the map is cut.
\* NeighborhoodVerdict: what is covered is near, and what is not is told.
\* ReleaseDiff: what is reported as a change is one, and cuts say so.
\* AreaComparison: what is set side by side is there, and the winner is no worse.
\* AreaSuggestion: a suggested area is within reach of all, and the best is told.
VerdictsAreFair ==
    /\ part = "claims" => Claims!TypeOK /\ Claims!ClaimsAreGraded
    /\ part = "living" => Living!TypeOK /\ Living!VerdictIsFair
    /\ part = "changes" => Changes!TypeOK /\ Changes!DiffsAreHonest
    /\ part = "sides" => Sides!TypeOK /\ Sides!AreasAreCompared
    /\ part = "suggest" => Suggest!TypeOK /\ Suggest!AreasAreSuggested
=============================================================================
