---------------------------- MODULE ReachOutline ----------------------------
(***************************************************************************)
(* What can be reached in so many minutes, and the shape that is drawn     *)
(* around it (isochrone of routing.py and of server.py).  The crossings    *)
(* that are reached are put into square cells, the cells are made larger   *)
(* until they join up, and the longest edge around them is the outline; a  *)
(* convex hull stands in where there is too little to trace.  The search   *)
(* itself is StreetSearch: a crossing here has the time it takes.  The     *)
(* origin is <<0, 0>> and a distance is the larger of two offsets.         *)
(***************************************************************************)
EXTENDS Integers, Sequences, FiniteSets, FiniteSetsExt, SequencesExt, Folds

CONSTANTS
    Question,       \* a request, and the crossings there are
    Speed, CapOf,   \* of a mode
    Buffer, Margin, \* how much wider a graph is asked for, and built
    CellMin, CellDivisor, MaxDoublings, MinNodes,
    MaxCorners,     \* an outline of more is simplified with a loss
    MaxPolygonPoints, TokenBudget, None

Mode == {"walk", "drive"}
Position == Int \X Int
Crossing == [at : Position, time : Nat]
Asked ==
    [crossings : SUBSET Crossing, point : {"point", "where", "unknown", "both", "none"},
     mode : Mode \cup {"fly"}, minutes : Int, radius : Int \cup {None},
     snaps : BOOLEAN, cut : BOOLEAN, fails : {"no", "upstream_unavailable", "schema_degraded"}]
Magnitude(n) == IF n < 0 THEN 0 - n ELSE n
Far(p) == Max({Magnitude(p[1]), Magnitude(p[2])})
Assumptions ==
    /\ \A q \in Question : q \in Asked
    /\ \A q \in Question : q.mode \in Mode =>
        /\ \A c \in q.crossings : Far(c.at) <= c.time * Speed[q.mode]
        /\ q.snaps => \E c \in q.crossings : c.time = 0
    /\ \A m \in Mode : {Speed[m], CapOf[m]} \subseteq Nat \ {0}
    /\ {Buffer, CellMin, CellDivisor, MaxDoublings, MinNodes, MaxCorners, MaxPolygonPoints, TokenBudget} \subseteq Nat \ {0}
    /\ Margin \in Nat /\ MaxPolygonPoints >= 3 /\ TokenBudget >= 4

VARIABLES
    question, at,
    reached,        \* the positions of the crossings that are reached
    size, doublings,    \* of a cell, and how often it was doubled
    cells,
    untraced,       \* edges around the cells that no loop has taken
    walk,           \* the loop being traced: where it began, where it is, its edges
    loops, shape, answer

vars == <<question, at, reached, size, doublings, cells, untraced, walk, loops, shape, answer>>

Init ==
    /\ question \in Question /\ at = "asked"
    /\ reached = {} /\ size = CellMin /\ doublings = 0 /\ cells = {} /\ untraced = {} /\ walk = None
    /\ loops = {} /\ shape = None /\ answer = None

Answer(a) == answer' = a /\ at' = "answered"
Error(name) == [error |-> name]

AutoRadius == Min({question.minutes * Speed[question.mode] * Buffer, CapOf[question.mode]})
Extraction == IF question.radius = None THEN AutoRadius ELSE question.radius
Validate ==
    /\ at = "asked"
    /\ IF question.point \in {"both", "none"} THEN Answer(Error("bad_request"))
       ELSE IF question.point = "unknown" THEN Answer(Error("not_found"))
       ELSE IF question.minutes <= 0 \/ (question.radius # None /\ question.radius < 0)
            THEN Answer(Error("bad_request"))
       ELSE IF question.mode \notin Mode THEN Answer(Error("unsupported_mode"))
       ELSE IF Extraction > CapOf[question.mode] THEN Answer(Error("radius_too_large"))
       ELSE at' = "graph" /\ UNCHANGED answer
    /\ UNCHANGED <<question, reached, size, doublings, cells, untraced, walk, loops, shape>>

Fail ==
    /\ at = "graph" /\ question.fails # "no" /\ Answer(Error(question.fails))
    /\ UNCHANGED <<question, reached, size, doublings, cells, untraced, walk, loops, shape>>

\* The graph is the one that was asked for, or a wider one that is kept.
Search ==
    /\ at = "graph" /\ question.fails = "no"
    /\ \E wider \in {0, Margin} :
        LET graph == {c \in question.crossings : Far(c.at) <= Extraction + wider} IN
        IF graph = {} \/ ~question.snaps
        THEN Answer(Error("no_graph_nearby")) /\ UNCHANGED reached
        ELSE /\ reached' = {c.at : c \in {c \in graph : c.time <= question.minutes}}
             /\ at' = "polygon" /\ UNCHANGED answer
    /\ UNCHANGED <<question, size, doublings, cells, untraced, walk, loops, shape>>

RadiusReached == Max({Far(p) : p \in reached} \cup {0})
CellsOf(width) == {<<p[1] \div width, p[2] \div width>> : p \in reached}
Neighbors(c) == {<<c[1] + 1, c[2]>>, <<c[1] - 1, c[2]>>, <<c[1], c[2] + 1>>, <<c[1], c[2] - 1>>}
Flood(from, within) ==
    FoldLeft(LAMBDA s, i : s \cup {c \in within : Neighbors(c) \cap s # {}}, from,
             [i \in 1 .. Cardinality(within) |-> i])
Parts(some) == {Flood({c}, some) : c \in some}
\* At least half of the cells are in one part.
Joined(some) == 2 * Max({Cardinality(p) : p \in Parts(some)} \cup {0}) >= Cardinality(some)

\* Too few crossings are not traced at all.
Bucket ==
    /\ at = "polygon"
    /\ IF Cardinality(reached) < MinNodes
       THEN at' = "hull" /\ UNCHANGED <<size, cells>>
       ELSE /\ size' = Max({CellMin, RadiusReached \div CellDivisor})
            /\ cells' = CellsOf(Max({CellMin, RadiusReached \div CellDivisor})) /\ at' = "coarsen"
    /\ UNCHANGED <<question, reached, doublings, untraced, walk, loops, shape, answer>>

\* An edge has the cell on its left; one for each side without a neighbor.
Boundary(some) ==
    UNION {LET x == c[1]  y == c[2] IN
           (IF <<x, y - 1>> \in some THEN {} ELSE {<< <<x, y>>, <<x + 1, y>> >>})
           \cup (IF <<x + 1, y>> \in some THEN {} ELSE {<< <<x + 1, y>>, <<x + 1, y + 1>> >>})
           \cup (IF <<x, y + 1>> \in some THEN {} ELSE {<< <<x + 1, y + 1>>, <<x, y + 1>> >>})
           \cup (IF <<x - 1, y>> \in some THEN {} ELSE {<< <<x, y + 1>>, <<x, y>> >>}) : c \in some}

Coarsen ==
    /\ at = "coarsen"
    /\ IF Joined(cells)
       THEN untraced' = Boundary(cells) /\ at' = "trace" /\ UNCHANGED <<size, doublings, cells>>
       ELSE IF doublings = MaxDoublings THEN at' = "hull" /\ UNCHANGED <<size, doublings, cells, untraced>>
       ELSE /\ size' = 2 * size /\ doublings' = doublings + 1 /\ cells' = CellsOf(2 * size)
            /\ UNCHANGED <<at, untraced>>
    /\ UNCHANGED <<question, reached, walk, loops, shape, answer>>

OutOf(v, edges) == {e \in edges : e[1] = v}
Pinched == \E e, f \in untraced : e # f /\ e[1] = f[1]
\* The order of the edges is that of a hash table.  Where every corner has one
\* way on, it does not matter which of them a loop begins with.
Firsts == IF Pinched THEN untraced ELSE IF untraced = {} THEN {} ELSE {CHOOSE e \in untraced : TRUE}

Take(e, begun) ==
    LET edges == begun.edges \cup {e} IN
    /\ untraced' = untraced \ {e}
    /\ IF e[2] = begun.start
       THEN loops' = loops \cup {edges} /\ walk' = None
       ELSE walk' = [start |-> begun.start, head |-> e[2], edges |-> edges] /\ UNCHANGED loops
BeginLoop ==
    /\ at = "trace" /\ walk = None
    /\ \E e \in Firsts : Take(e, [start |-> e[1], edges |-> {}])
    /\ UNCHANGED <<question, at, reached, size, doublings, cells, shape, answer>>
\* A loop that comes to an end elsewhere than at its start is given up.
FollowEdge ==
    /\ at = "trace" /\ walk # None
    /\ \/ \E e \in OutOf(walk.head, untraced) : Take(e, walk)
       \/ OutOf(walk.head, untraced) = {} /\ walk' = None /\ UNCHANGED <<untraced, loops>>
    /\ UNCHANGED <<question, at, reached, size, doublings, cells, shape, answer>>

FirstFound(some) == some
Longest(some) == {l \in some : \A m \in some : Cardinality(m) <= Cardinality(l)}
Box == [lo |-> <<Min({p[1] : p \in reached}), Min({p[2] : p \in reached})>>,
        hi |-> <<Max({p[1] : p \in reached}), Max({p[2] : p \in reached})>>]
ClampTo(x, lo, hi) == Min({Max({x, lo}), hi})
Clamped(v) == <<ClampTo(v[1] * size, Box.lo[1], Box.hi[1]), ClampTo(v[2] * size, Box.lo[2], Box.hi[2])>>
Turns(loop) == {e \in loop : \E f \in loop : e[2] = f[1] /\ (e[1][1] = e[2][1]) # (f[1][1] = f[2][1])}

\* A side of two cells has a corner too many, and without it the shape counts
\* as simplified.
ChooseOutline ==
    /\ at = "trace" /\ walk = None /\ untraced = {} /\ loops # {}
    /\ \E loop \in Longest(loops) :
        shape' = [method |-> "concave_boundary", outline |-> loop,
                  ring |-> {<<Clamped(e[1]), Clamped(e[2])>> : e \in loop},
                  lossy |-> Cardinality(Turns(loop)) > MaxCorners,
                  truncated |-> Turns(loop) # loop \/ Cardinality(Turns(loop)) > MaxCorners]
    /\ at' = "shaped"
    /\ UNCHANGED <<question, reached, size, doublings, cells, untraced, walk, loops, answer>>

Cross(o, a, b) == (a[1] - o[1]) * (b[2] - o[2]) - (a[2] - o[2]) * (b[1] - o[1])
\* What the chain of p ends with does not turn left is dropped first.
SharpTurn(a, b, p) == Cross(a, b, p) < 0 - 1
RightTurn(a, b, p) == Cross(a, b, p) <= 0
DropTurns(chain, p) ==
    LET n == Len(chain)
        Holds(k) == \A i \in k + 1 .. n : i >= 2 /\ RightTurn(chain[i - 1], chain[i], p) IN
    SubSeq(chain, 1, Min({k \in 0 .. n : Holds(k)}))
HalfHull(points) == FoldLeft(LAMBDA chain, p : Append(DropTurns(chain, p), p), <<>>, points)
ByX(a, b) == a[1] < b[1] \/ (a[1] = b[1] /\ a[2] < b[2])
ConvexHull ==
    LET pts == SetToSortSeq(reached, ByX) IN
    IF Len(pts) <= 2 THEN pts ELSE Front(HalfHull(pts)) \o Front(HalfHull(Reverse(pts)))
Decimate(points, most) ==
    IF most < 3 \/ Len(points) <= most THEN points
    ELSE [i \in 1 .. most |-> points[((i - 1) * Len(points)) \div most + 1]]
\* Halved until it fits, and to no fewer than four.
Halved(points) ==
    FoldLeft(LAMBDA ring, i : IF Len(ring) > 4 /\ Len(ring) > TokenBudget THEN Decimate(ring, Max({4, Len(ring) \div 2}))
                              ELSE ring, points, [i \in 1 .. Len(points) |-> i])
EdgesOf(points) == {<<points[i], points[(i % Len(points)) + 1]>> : i \in DOMAIN points}
Hull ==
    /\ at = "hull"
    /\ LET ring == Halved(Decimate(ConvexHull, MaxPolygonPoints)) IN
       shape' = [method |-> "convex_hull", outline |-> {}, ring |-> EdgesOf(ring),
                 lossy |-> Len(ring) < Len(ConvexHull), truncated |-> Len(ring) < Len(ConvexHull)]
    /\ at' = "shaped"
    /\ UNCHANGED <<question, reached, size, doublings, cells, untraced, walk, loops, answer>>

\* Twice the area within the edges of a ring.
Area2(ring) == Magnitude(FoldSet(LAMBDA e, sum : sum + (e[1][1] * e[2][2] - e[2][1] * e[1][2]), 0, ring))
Finish ==
    /\ at = "shaped"
    /\ Answer([nodes |-> reached, radius |-> RadiusReached, area2 |-> Area2(shape.ring),
               graphTruncated |-> question.cut, truncated |-> shape.truncated \/ question.cut])
    /\ UNCHANGED <<question, reached, size, doublings, cells, untraced, walk, loops, shape>>

Next ==
    \/ Validate \/ Fail \/ Search \/ Bucket \/ Coarsen \/ BeginLoop \/ FollowEdge
    \/ ChooseOutline \/ Hull \/ Finish
Spec == Init /\ [][Next]_vars

-----------------------------------------------------------------------------
TypeOK ==
    /\ question \in Question
    /\ at \in {"asked", "graph", "polygon", "coarsen", "trace", "hull", "shaped", "answered"}
    /\ reached \subseteq {c.at : c \in question.crossings} /\ size >= CellMin /\ doublings \in 0..MaxDoublings
    /\ cells \subseteq Position /\ untraced \subseteq Boundary(cells)
    /\ (at = "answered" <=> answer # None)

\* Every edge around the cells comes to lie in exactly one loop: no walk ever
\* ends away from its start, wherever it began and however it turned where two
\* cells touch at a corner.
EdgesFormLoops ==
    /\ at = "trace" /\ walk # None => OutOf(walk.head, untraced) # {}
    /\ \A l, m \in loops : l # m => l \cap m = {}
    /\ at = "trace" => UNION loops \cup untraced \cup (IF walk = None THEN {} ELSE walk.edges) = Boundary(cells)

\* The cells within a loop: an odd number of its edges is to the right of each.
Within(loop) ==
    {c \in cells : Cardinality({e \in loop : e[1][1] = e[2][1] /\ e[1][1] > c[1]
                                             /\ Min({e[1][2], e[2][2]}) = c[2]}) % 2 = 1}
OuterEdges(part) ==
    LET xs == {c[1] : c \in part}  ys == {c[2] : c \in part}
        around == {<<x, y>> : x \in Min(xs) - 1 .. Max(xs) + 1, y \in Min(ys) - 1 .. Max(ys) + 1} \ part
        outside == Flood({<<Min(xs) - 1, Min(ys) - 1>>}, around) IN
    {<<c, d>> \in part \X outside : d \in Neighbors(c)}
\* A part of the reach that is not drawn has no longer edge than what is: where
\* an inner edge is the longest, it is a hole in the reach that is drawn.
OutlineHoldsItsReach ==
    at = "shaped" /\ shape.method = "concave_boundary" =>
        \A part \in Parts(cells) :
            part \subseteq Within(shape.outline) \/ Cardinality(OuterEdges(part)) <= Cardinality(shape.outline)
\* A hull that is not thinned has its corners in the reach, and all of the
\* reach to its left.
HullHoldsAll ==
    at = "shaped" /\ shape.method = "convex_hull" /\ ~shape.lossy =>
        \A e \in shape.ring : e[1] \in reached /\ \A p \in reached : Cross(e[1], e[2], p) >= 0
\* The area is not that of more than the box around the reach.
AreaIsBounded ==
    at = "answered" /\ "error" \notin DOMAIN answer =>
        answer.area2 <= 2 * (Box.hi[1] - Box.lo[1]) * (Box.hi[2] - Box.lo[2])
\* Where neither the caller nor the cap of the mode bounds the graph, whoever
\* can be reached in time is; and what was cut or thinned is told.
NobodyIsMissed ==
    at = "answered" /\ "error" \notin DOMAIN answer =>
        /\ question.radius = None /\ question.minutes * Speed[question.mode] <= CapOf[question.mode] =>
            \A c \in question.crossings : c.time <= question.minutes => c.at \in answer.nodes
        /\ question.cut \/ shape.lossy => answer.truncated

ReachIsDrawn ==
    /\ EdgesFormLoops /\ OutlineHoldsItsReach /\ HullHoldsAll
    /\ AreaIsBounded /\ NobodyIsMissed
=============================================================================
