------------------------------ MODULE MapMatch ------------------------------
(***************************************************************************)
(* Matching a trace to streets (map_match.py, and the map_match tool of    *)
(* server.py).  The points are snapped one by one to the nearest edge,     *)
(* which a grid of cells finds, and the snapped ones are joined by bounded *)
(* shortest paths; a point whose way is out of proportion is left out.     *)
(* Places lie on an integer plane, edges run along its axes, and distances *)
(* are taken along the axes; one cell of the grid is SnapRadius wide.      *)
(***************************************************************************)
EXTENDS Integers, Sequences, FiniteSets, FiniteSetsExt, SequencesExt

CONSTANTS
    Question,    \* a trace (None is a malformed point), and the streets it is matched to
    Streets,     \* street networks by name
    SnapRadius, MinComponent,
    PathsOf,     \* the paths through distinct nodes of each network
    MaxPoints, MaxFaults,
    None

\* STITCH_OUTLIER_RATIO_K, and STITCH_OUTLIER_MIN_SLACK_M in units of distance.
RatioK == 3
MinSlack == 1

Place == Int \X Int
\* length and time of a way from node to node, the inner vertices of its
\* shape, and its name.
Network == [coords : Seq(Place), ways : Seq([from : Nat, to : Nat, length : Nat, time : Nat, shape : Seq(Place), name : STRING])]
Nodes(net) == DOMAIN net.coords
SimplePaths(net) ==
    {p \in UNION {[1..k -> Nodes(net)] : k \in 1..Cardinality(Nodes(net))} :
        /\ \A i, j \in DOMAIN p : i # j => p[i] # p[j]
        /\ \A i \in 1..(Len(p) - 1) : \E w \in ToSet(net.ways) : w.from = p[i] /\ w.to = p[i + 1]}
Assumptions ==
    /\ \A q \in Question :
          q \in [points : Seq(Place \cup {None}), streets : DOMAIN Streets, timed : BOOLEAN, toowide : BOOLEAN, known : BOOLEAN]
    /\ \A n \in DOMAIN Streets :
          /\ Streets[n] \in Network
          /\ \A w \in ToSet(Streets[n].ways) : {w.from, w.to} \subseteq Nodes(Streets[n])
    /\ PathsOf = [n \in DOMAIN Streets |->
                    LET all == SimplePaths(Streets[n]) IN
                    [e \in Nodes(Streets[n]) \X Nodes(Streets[n]) |-> {p \in all : p[1] = e[1] /\ Last(p) = e[2]}]]
    /\ {SnapRadius, MinComponent, MaxPoints} \subseteq Nat \ {0} /\ MaxFaults \in Nat

VARIABLES
    question, at,
    usable,    \* the pairs of nodes whose edges are snapped to
    snapped,   \* what the points so far are snapped to
    anchor,    \* the index the next leg starts from
    accepted, unmatched, geometry, matchedLength, roads,
    answer, faults

vars == <<question, at, usable, snapped, anchor, accepted, unmatched, geometry, matchedLength, roads, answer, faults>>

Init ==
    /\ question \in Question /\ at = "asked"
    /\ usable = {} /\ snapped = <<>> /\ anchor = None /\ accepted = <<>> /\ unmatched = {}
    /\ geometry = <<>> /\ matchedLength = 0 /\ roads = <<>> /\ answer = None /\ faults = 0

Absolute(n) == IF n < 0 THEN -n ELSE n
Apart(p, q) == Absolute(p[1] - q[1]) + Absolute(p[2] - q[2])
Nearer(x, y) == IF x[1] <= y[1] THEN x ELSE y
Clamp(n, a, b) == IF a <= b THEN Max({a, Min({n, b})}) ELSE Max({b, Min({n, a})})

Joins(net, a, b) == \E w \in ToSet(net.ways) : {w.from, w.to} = {a, b}
Reached(net, seen, n) ==
    FoldFunction(LAMBDA m, S : S \cup {b \in Nodes(net) : \E a \in S : Joins(net, a, b)}, seen, [m \in 1..n |-> m])
Component(net, a) == Reached(net, {a}, Cardinality(Nodes(net)))
Components(net) == {Component(net, a) : a \in Nodes(net)}
\* Fragments do not count, unless there is nothing else: then one of the
\* largest does.
UsableNodes(net) ==
    LET large == {c \in Components(net) : Cardinality(c) >= MinComponent} IN
    IF large # {} THEN {UNION large}
    ELSE {c \in Components(net) : \A d \in Components(net) : Cardinality(d) <= Cardinality(c)}
UsablePairs(net, nodes) == {<<a, b>> \in nodes \X nodes : a <= b /\ Joins(net, a, b)}

\* Of the ways that lead from a to b the cheapest, the first of its cost,
\* gives the shape; a one-way street has none against its direction.
Net == Streets[question.streets]
Cost(w) == IF question.timed THEN w.time ELSE w.length
From(a, b) == {i \in DOMAIN Net.ways : Net.ways[i].from = a /\ Net.ways[i].to = b}
Cheapest(a, b) ==
    LET least == {i \in From(a, b) : \A j \in From(a, b) : Cost(Net.ways[i]) <= Cost(Net.ways[j])} IN Net.ways[Min(least)]
Shape(a, b) == IF From(a, b) = {} THEN <<>> ELSE Cheapest(a, b).shape
Polyline(a, b) == <<Net.coords[a]>> \o Shape(a, b) \o <<Net.coords[b]>>

\* The closest point of a polyline: its distance, how far along it is, and
\* where; the first segment wins a tie.
Along(line, i) == FoldFunction(LAMBDA k, s : s + Apart(line[k], line[k + 1]), 0, [k \in 1..(i - 1) |-> k])
Foot(p, line, i) ==
    LET q == <<Clamp(p[1], line[i][1], line[i + 1][1]), Clamp(p[2], line[i][2], line[i + 1][2])>> IN
    <<Apart(p, q), Along(line, i) + Apart(line[i], q), q>>
ProjectOntoPolyline(p, line) ==
    IF Along(line, Len(line)) = 0 THEN <<Apart(p, line[1]), 0, line[1]>>
    ELSE FoldLeft(LAMBDA best, i : Nearer(best, Foot(p, line, i)), Foot(p, line, 1), [i \in 1..(Len(line) - 1) |-> i])

Cell(n) == n \div SnapRadius

CandidatesHere(p, pairs) ==
    LET Here(pair) ==
            \A axis \in {1, 2} :
                LET span == {v[axis] : v \in ToSet(Polyline(pair[1], pair[2]))} IN
                Cell(Min(span)) <= Cell(p[axis]) /\ Cell(Max(span)) >= Cell(p[axis])
        here == {pair \in pairs : Here(pair)} IN
    IF here = {} THEN pairs ELSE here

\* Pairs are kept in every cell their bounding box overlaps, and looked for
\* in the point's own cell and those around it; in all of them if none is there.
CandidatesNear(p, pairs) ==
    LET Near(pair) ==
            \A axis \in {1, 2} :
                LET span == {v[axis] : v \in ToSet(Polyline(pair[1], pair[2]))} IN
                Cell(Min(span)) <= Cell(p[axis]) + 1 /\ Cell(Max(span)) >= Cell(p[axis]) - 1
        near == {pair \in pairs : Near(pair)} IN
    IF near = {} THEN pairs ELSE near

Answer(a) == answer' = a /\ at' = "answered"
Error(name, index) == [error |-> name, index |-> index]

\* Too many points and the first malformed one come before the mode.
Validate ==
    LET bad == {i \in DOMAIN question.points : question.points[i] = None} IN
    /\ at = "asked"
    /\ IF Len(question.points) > MaxPoints THEN Answer(Error("bad_request", None))
       ELSE IF bad # {} THEN Answer(Error("bad_request", Min(bad)))
       ELSE IF ~question.known THEN Answer(Error("unsupported_mode", None))
       ELSE at' = (IF question.points = <<>> THEN "done" ELSE "build") /\ UNCHANGED answer
    /\ UNCHANGED <<question, usable, snapped, anchor, accepted, unmatched, geometry, matchedLength, roads, faults>>

\* One graph is built for the whole trace.
Build ==
    /\ at = "build"
    /\ \/ /\ question.toowide /\ Answer(Error("radius_too_large", None)) /\ UNCHANGED <<usable, faults>>
       \/ /\ ~question.toowide /\ Net.coords = <<>> /\ Answer(Error("no_graph_nearby", None))
          /\ UNCHANGED <<usable, faults>>
       \/ /\ ~question.toowide /\ Net.coords # <<>> /\ at' = "snap"
          /\ \E nodes \in UsableNodes(Net) : usable' = UsablePairs(Net, nodes)
          /\ UNCHANGED <<answer, faults>>
       \/ /\ ~question.toowide /\ faults < MaxFaults /\ faults' = faults + 1
          /\ \E name \in {"upstream_unavailable", "schema_degraded"} : Answer(Error(name, None))
          /\ UNCHANGED usable
    /\ UNCHANGED <<question, snapped, anchor, accepted, unmatched, geometry, matchedLength, roads>>

Snapped(pair, foot) ==
    [matched |-> foot[1] <= SnapRadius, edge |-> pair, along |-> foot[2], place |-> foot[3], distance |-> foot[1]]
Unsnapped == [matched |-> FALSE, edge |-> None, along |-> 0, place |-> None, distance |-> None]
FootOn(p, pair) == ProjectOntoPolyline(p, Polyline(pair[1], pair[2]))

\* Of pairs that are equally near any may come first.
SnapTo(p, candidates) ==
    IF candidates = {} THEN snapped' = Append(snapped, Unsnapped)
    ELSE \E pair \in candidates :
            /\ \A other \in candidates : FootOn(p, pair)[1] <= FootOn(p, other)[1]
            /\ snapped' = Append(snapped, Snapped(pair, FootOn(p, pair)))

Snap ==
    /\ at = "snap" /\ Len(snapped) < Len(question.points)
    /\ LET p == question.points[Len(snapped) + 1] IN SnapTo(p, CandidatesNear(p, usable))
    /\ UNCHANGED <<question, at, usable, anchor, accepted, unmatched, geometry, matchedLength, roads, answer, faults>>

Matched == {i \in DOMAIN snapped : snapped[i].matched}
AnchorNode(i) ==
    LET e == snapped[i].edge IN
    IF 2 * snapped[i].along < Along(Polyline(e[1], e[2]), Len(Polyline(e[1], e[2]))) THEN e[1] ELSE e[2]

StartStitch ==
    /\ at = "snap" /\ Len(snapped) = Len(question.points)
    /\ unmatched' = DOMAIN snapped \ Matched
    /\ IF Matched = {} THEN at' = "done" /\ UNCHANGED <<anchor, accepted, geometry>>
       ELSE /\ at' = "stitch" /\ anchor' = Min(Matched) /\ accepted' = <<Min(Matched)>>
            /\ geometry' = <<Net.coords[AnchorNode(Min(Matched))]>>
    /\ UNCHANGED <<question, usable, snapped, matchedLength, roads, answer, faults>>

Sum(p, V(_)) == FoldFunction(LAMBDA i, s : s + V(Cheapest(p[i], p[i + 1])), 0, [i \in 1..(Len(p) - 1) |-> i])
PathCost(p) == Sum(p, LAMBDA w : Cost(w))
PathLength(p) == Sum(p, LAMBDA w : w.length)

Threshold(i, j) ==
    LET straight == Apart(snapped[i].place, snapped[j].place) IN Max({RatioK * straight, straight + MinSlack})
\* A cheapest path, or none within the bound.
Routes(i, j, bound) ==
    LET all == PathsOf[question.streets][<<AnchorNode(i), AnchorNode(j)>>]
        least == {p \in all : \A q \in all : PathCost(p) <= PathCost(q)} IN
    {p \in least : PathCost(p) <= bound}

Extend(names, name) == IF name = "" \/ (names # <<>> /\ Last(names) = name) THEN names ELSE Append(names, name)
Drawn(p) == FoldLeft(LAMBDA s, i : s \o Tail(Polyline(p[i], p[i + 1])), <<>>, [i \in 1..(Len(p) - 1) |-> i])
Named(p, names) == FoldLeft(LAMBDA s, i : Extend(s, Cheapest(p[i], p[i + 1]).name), names, [i \in 1..(Len(p) - 1) |-> i])

Waiting == {i \in Matched : i > anchor /\ i \notin unmatched}
Accept(i, p) ==
    /\ anchor' = i /\ accepted' = Append(accepted, i) /\ geometry' = geometry \o Drawn(p)
    /\ matchedLength' = matchedLength + PathLength(p) /\ roads' = Named(p, roads)
    /\ UNCHANGED unmatched
MoveOn(i) == unmatched' = unmatched \cup {i} /\ anchor' = i /\ UNCHANGED <<accepted, geometry, matchedLength, roads>>
Reject(i) == unmatched' = unmatched \cup {i} /\ UNCHANGED <<anchor, accepted, geometry, matchedLength, roads>>

\* A leg is drawn from the last point that was accepted.
Stitch ==
    /\ at = "stitch" /\ Waiting # {}
    /\ LET i == Min(Waiting)
           routes == Routes(anchor, i, Threshold(anchor, i))
           fit == {p \in routes : PathLength(p) <= Threshold(anchor, i)} IN
       IF routes = {} THEN Reject(i)
       ELSE \E p \in routes : IF p \in fit THEN Accept(i, p) ELSE Reject(i)
    /\ UNCHANGED <<question, at, usable, snapped, answer, faults>>

EndStitch ==
    /\ at = "stitch" /\ Waiting = {} /\ at' = "done"
    /\ UNCHANGED <<question, usable, snapped, anchor, accepted, unmatched, geometry, matchedLength, roads, answer, faults>>

\* How much of the trace is in it and how far it lies from the street, as a
\* fraction of (number of points) times SnapRadius.
Confidence ==
    IF accepted = <<>> THEN 0
    ELSE Len(accepted) * SnapRadius - FoldLeft(LAMBDA s, i : s + snapped[i].distance, 0, accepted)

Note ==
    IF roads # <<>> \/ Len(geometry) >= 2 THEN None
    ELSE IF Len(geometry) = 1 THEN "one_point" ELSE "nothing"
Finish ==
    /\ at = "done"
    /\ Answer([line |-> IF Len(geometry) < 2 THEN <<>> ELSE geometry, length |-> matchedLength, roads |-> roads,
               confidence |-> Confidence, unmatched |-> unmatched, note |-> Note])
    /\ UNCHANGED <<question, usable, snapped, anchor, accepted, unmatched, geometry, matchedLength, roads, faults>>

Next == Validate \/ Build \/ Snap \/ StartStitch \/ Stitch \/ EndStitch \/ Finish

Spec == Init /\ [][Next]_vars

-----------------------------------------------------------------------------

Places == {None} \cup (Int \X Int)
TypeOK ==
    /\ question \in Question /\ at \in {"asked", "build", "snap", "stitch", "done", "answered"}
    /\ Len(snapped) <= Len(question.points) /\ anchor \in DOMAIN snapped \cup {None}
    /\ \A i \in DOMAIN snapped : snapped[i].place \in Places
    /\ unmatched \subseteq DOMAIN snapped /\ matchedLength \in Nat /\ faults \in 0..MaxFaults
    /\ answer = None <=> at # "answered"

\* The grid finds what a scan of every usable edge finds, for each point that
\* has an edge within the radius; no other point is matched.
GridIsExact ==
    at = "snap" => \A i \in DOMAIN snapped :
        LET p == question.points[i]
            nearest == Min({FootOn(p, e)[1] : e \in usable}) IN
        /\ snapped[i].matched <=> nearest <= SnapRadius
        /\ snapped[i].matched => snapped[i].edge \in usable /\ snapped[i].distance = nearest

Answered == at = "answered" /\ "error" \notin DOMAIN answer

\* Every point is on the line or among those left out, and not both; the line
\* runs unbroken through the anchors of the points it takes, is as long as the
\* answer says, and no leg of it is out of proportion.
LineIsWhole ==
    /\ Answered /\ question.points # <<>> =>
          /\ ToSet(accepted) \cup answer.unmatched = DOMAIN question.points
          /\ ToSet(accepted) \cap answer.unmatched = {}
          /\ \A n \in 1..(Len(accepted) - 1) : accepted[n] < accepted[n + 1]
    /\ accepted # <<>> =>
          /\ geometry[1] = Net.coords[AnchorNode(accepted[1])] /\ Last(geometry) = Net.coords[AnchorNode(Last(accepted))]
          /\ Along(geometry, Len(geometry)) = matchedLength
    /\ Answered => \A n \in 1..(Len(accepted) - 1) :
          \E p \in PathsOf[question.streets][<<AnchorNode(accepted[n]), AnchorNode(accepted[n + 1])>>] :
              PathLength(p) <= Threshold(accepted[n], accepted[n + 1])

\* A matched point is left out only when no way to it from the last point kept
\* before it is in proportion, or the fastest one is not.
OutliersAreOut ==
    Answered =>
        \A i \in answer.unmatched \cap Matched :
            /\ \E j \in ToSet(accepted) : j < i
            /\ LET from == Max({j \in ToSet(accepted) : j < i}) IN
               \E p \in PathsOf[question.streets][<<AnchorNode(from), AnchorNode(i)>>] \cup {<<>>} :
                  IF p = <<>> THEN PathsOf[question.streets][<<AnchorNode(from), AnchorNode(i)>>] = {}
                  ELSE /\ PathLength(p) > Threshold(from, i)
                       /\ \A q \in PathsOf[question.streets][<<AnchorNode(from), AnchorNode(i)>>] : PathCost(p) <= PathCost(q)

\* Confidence is between nothing and one, one only when every point is on the
\* street and on the line, and nothing only without a point off its edge's limit.
ConfidenceIsFair ==
    Answered =>
        /\ answer.confidence \in 0..(Len(question.points) * SnapRadius)
        /\ answer.confidence = Len(question.points) * SnapRadius =>
              answer.unmatched = {} /\ \A i \in DOMAIN snapped : snapped[i].distance = 0
        /\ answer.confidence = 0 => \A i \in ToSet(accepted) : snapped[i].distance = SnapRadius

\* No two roads in a row are the same, and there are none without a line.
RoadsAreInOrder ==
    Answered =>
        /\ \A n \in 1..(Len(answer.roads) - 1) : answer.roads[n] # answer.roads[n + 1]
        /\ answer.roads # <<>> => answer.line # <<>>
        /\ answer.line = <<>> <=> answer.length = 0 /\ Len(geometry) <= 1
        /\ answer.note = "nothing" <=> answer.unmatched = DOMAIN question.points

TraceIsMatched == GridIsExact /\ LineIsWhole /\ OutliersAreOut /\ ConfidenceIsFair /\ RoadsAreInOrder
=============================================================================
