--------------------------- MODULE StreetNetwork ---------------------------
(***************************************************************************)
(* build_graph(), Graph and snap_to_graph() of routing.py: the segments of *)
(* an extraction become arcs between their connectors, in the directions   *)
(* their access restrictions leave open to the mode; each pair of nodes    *)
(* keeps the name and the shape of the arc a search would take; and a      *)
(* point snaps to a node of a component that is worth routing on.          *)
(* Positions along a segment are lengths, and a search is StreetSearch.    *)
(***************************************************************************)
EXTENDS Naturals, Sequences, FiniteSets

CONSTANTS
    Node,            \* connectors, and end points that have none
    Rows,            \* extractions: sequences of segments, the nearest first
    Mode,
    Excluded,        \* classes a mode does not use
    Obeys,           \* modes with respects_oneway
    Tokens,          \* RESTRICTION_MODE_TOKENS
    MaxSegments,     \* MAX_GRAPH_SEGMENTS
    Distance,        \* how far the nodes are from the point to snap
    SnapRadius, FallbackRadius,
    MinNodes,        \* MIN_USABLE_COMPONENT_NODES
    None

Pair == Node \X Node
Segment == UNION {{q[i] : i \in DOMAIN q} : q \in Rows}
Connectors(s) == {s.connectors[i] : i \in DOMAIN s.connectors}

\* What is assumed of the constants.
Assumptions ==
    /\ Obeys \subseteq Mode /\ MaxSegments \in Nat \ {0} /\ MinNodes \in Nat
    /\ IsFiniteSet(Node) /\ None \notin Node
    /\ Distance \subseteq [Node -> Nat]
    /\ SnapRadius \in Nat /\ FallbackRadius \in Nat /\ SnapRadius <= FallbackRadius
    /\ Rows \subseteq Seq(Segment)
    /\ \A s \in Segment :
          /\ s.head \in Node /\ s.tail \in Node
          \* A place on it is a fraction of it: the ends are two.
          /\ s.length \in Nat \ {0} /\ s.pace \in Nat
          /\ s.connectors \in Seq([at : 0..s.length, id : Node])
          \* Two at one place inside a segment are tied only by its order.
          /\ \A c, d \in Connectors(s) : c # d /\ c.at = d.at => c.at \in {0, s.length}

VARIABLES
    rows, mode, distance,   \* what is asked
    at,                     \* "asked", "building", "built", "snapped"
    todo,                   \* segments to be added
    truncated,
    nodes, arcs,            \* coords; adjacency, in the order of insertion
    names,                  \* _edge_names.get()
    shapes,                 \* _edge_shapes, a function of the pairs that have one
    snapped

vars == <<rows, mode, distance, at, todo, truncated, nodes, arcs, names, shapes, snapped>>
asked == <<rows, mode, distance>>
graph == <<nodes, arcs, names, shapes>>

Init ==
    /\ rows \in Rows /\ mode \in Mode /\ distance \in Distance
    /\ at = "asked"
    /\ todo = <<>> /\ truncated = FALSE
    /\ nodes = {} /\ arcs = <<>>
    /\ names = [p \in Pair |-> None] /\ shapes = [p \in {} |-> None]
    /\ snapped = None

\* The numbers of a set from the least to the greatest.
Sorted(S) ==
    CHOOSE q \in [1..Cardinality(S) -> S] : \A i, j \in 1..Cardinality(S) : i < j => q[i] < q[j]

\* The query leaves out the excluded classes and reads one row over the cap.
Wanted == Sorted({i \in DOMAIN rows : rows[i].class \notin Excluded[mode]})
Over == Len(Wanted) > MaxSegments
Kept == [k \in 1..(IF Over THEN MaxSegments ELSE Len(Wanted)) |-> rows[Wanted[k]]]
Extract ==
    /\ at = "asked"
    /\ at' = "building"
    /\ truncated' = Over
    /\ todo' = Kept
    /\ UNCHANGED <<asked, graph, snapped>>

-----------------------------------------------------------------------------
(* _oneway_allowed(): a rule has a type, modes, a heading, and may hold on *)
(* part of the segment only or under a condition.                          *)

Applies(rule) ==
    /\ rule.type \in {"denied", "allowed", "designated"}
    /\ rule.modes = {} \/ rule.modes \cap Tokens[mode] # {}
    /\ rule.whole

\* Rules without a condition are the truth at all hours; without any, those
\* with one are taken as if it held.
Ruling(s) ==
    LET applicable == {r \in s.rules : Applies(r)}
        always == {r \in applicable : ~r.conditional}
    IN IF always # {} THEN always ELSE applicable

Open(s, heading) ==
    LET Touching(types) == \E r \in Ruling(s) : r.type \in types /\ r.heading \in {heading, "both"}
    IN mode \notin Obeys \/ ~Touching({"denied"}) \/ Touching({"allowed", "designated"})

-----------------------------------------------------------------------------
(* Graph.add_edge(), one direction of it: name and shape go to the lightest *)
(* arc between two nodes, to the earlier one on a tie.                      *)

Between(g, p) == {i \in DOMAIN g.arcs : <<g.arcs[i].from, g.arcs[i].to>> = p}

AddArc(g, a) ==
    LET p == <<a.from, a.to>>
        shape == [weight |-> a.weight, line |-> a.line, back |-> a.back] IN
    IF a.from = a.to THEN g
    ELSE [arcs |-> Append(g.arcs, a),
          names |-> IF \E i \in Between(g, p) : g.arcs[i].weight <= a.weight THEN g.names
                    ELSE [g.names EXCEPT ![p] = a.name],
          shapes |-> IF p \in DOMAIN g.shapes /\ g.shapes[p].weight <= a.weight THEN g.shapes
                     ELSE [q \in DOMAIN g.shapes \cup {p} |-> IF q = p THEN shape ELSE g.shapes[q]]]

\* The graph after a sequence of arcs.
AddAll(g, new) ==
    LET After[k \in 0..Len(new)] == IF k = 0 THEN g ELSE AddArc(After[k - 1], new[k])
    IN  After[Len(new)]

\* Arcs one after the other, each in the directions given.
Turned(a, heading) ==
    IF heading = "forward" THEN a ELSE [a EXCEPT !.from = a.to, !.to = a.from, !.back = TRUE]
Directed(as, headings) ==
    LET n == Len(headings)
    IN  [k \in 1..(Len(as) * n) |-> Turned(as[(k - 1) \div n + 1], headings[((k - 1) % n) + 1])]
Both == <<"forward", "backward">>

\* The places of a segment that have a node, and the node of a place: its first
\* connector, or an end point.
Here(s, x) == {i \in DOMAIN s.connectors : s.connectors[i].at = x}
Spots(s) == {0, s.length} \cup {c.at : c \in Connectors(s)}
Anchor(s, x) ==
    IF Here(s, x) = {} THEN IF x = 0 THEN s.head ELSE s.tail
    ELSE s.connectors[CHOOSE i \in Here(s, x) : \A j \in Here(s, x) : i <= j].id
Stops(s) == LET spots == Sorted(Spots(s)) IN [i \in DOMAIN spots |-> [at |-> spots[i], id |-> Anchor(s, spots[i])]]

\* Second connectors at an end that stay on their own.
TieNothing(s, x) == <<>>

\* Connectors at one end are one point: they are tied both ways, whatever the
\* segment allows.
Ties(s, x) ==
    LET second == Sorted({i \in Here(s, x) : \E j \in Here(s, x) : j < i})
        Tie(i) == [from |-> Anchor(s, x), to |-> s.connectors[second[i]].id, weight |-> 0, name |-> None,
                   line |-> None, back |-> FALSE]
    IN  Directed([i \in DOMAIN second |-> Tie(i)], Both)

\* One arc for two stops that follow each other, in each open direction.
Headings(s) ==
    IF Open(s, "forward") /\ Open(s, "backward") THEN Both
    ELSE IF Open(s, "forward") THEN <<"forward">> ELSE IF Open(s, "backward") THEN <<"backward">> ELSE <<>>
Ways(s) ==
    LET stops == Stops(s)
        Arc(i) == [from |-> stops[i].id, to |-> stops[i + 1].id, name |-> s.name,
                   weight |-> (stops[i + 1].at - stops[i].at) * s.pace,
                   line |-> <<s.line, i>>, back |-> FALSE]
    IN  Directed([i \in 1..(Len(stops) - 1) |-> Arc(i)], Headings(s))

built == [arcs |-> arcs, names |-> names, shapes |-> shapes]

\* The nodes of a segment are there even if it is closed.
AddSegment ==
    /\ at = "building" /\ todo # <<>>
    /\ LET s == Head(todo)
           g == AddAll(AddAll(AddAll(built, Ties(s, 0)), Ties(s, s.length)), Ways(s))
       IN /\ nodes' = nodes \cup {Anchor(s, x) : x \in Spots(s)} \cup {c.id : c \in Connectors(s)}
          /\ arcs' = g.arcs /\ names' = g.names /\ shapes' = g.shapes
    /\ todo' = Tail(todo)
    /\ UNCHANGED <<asked, at, truncated, snapped>>

Built ==
    /\ at = "building" /\ todo = <<>>
    /\ at' = "built"
    /\ UNCHANGED <<asked, todo, truncated, graph, snapped>>

-----------------------------------------------------------------------------
(* snap_to_graph().                                                        *)

\* What can be reached in a relation: all that is in every set that a relation
\* does not lead out of.
Leads(R, S) == \A e \in R : e[1] \in S => e[2] \in S
Reach(R) ==
    LET around == {S \in SUBSET Node : Leads(R, S)}
    IN  [n \in Node |-> {m \in Node : \A S \in around : n \in S => m \in S}]

\* connected_components(), whatever the directions.
Joined == UNION {{<<arcs[i].from, arcs[i].to>>, <<arcs[i].to, arcs[i].from>>} : i \in DOMAIN arcs}
Component == Reach(Joined)

Large(C) == {n \in nodes : Cardinality(C[n]) >= MinNodes}

\* The first of the largest components, in the order their nodes were added,
\* is any of them here.
Largest(C) == {n \in nodes : \A m \in nodes : Cardinality(C[m]) <= Cardinality(C[n])}

Nearest(S) == {n \in S : \A m \in S : distance[n] <= distance[m]}

\* The nearest node in reach that is in a large component or in the largest;
\* else, farther out, one in a large component.
Snap ==
    /\ at = "built"
    /\ at' = "snapped"
    /\ LET C == Component IN
       \E first \in {C[n] : n \in Largest(C)} \cup IF nodes = {} THEN {{}} ELSE {} :
          LET near == Nearest({n \in Large(C) \cup first : distance[n] <= SnapRadius})
              far == Nearest({n \in Large(C) : distance[n] \in (SnapRadius + 1)..FallbackRadius})
              S == IF near # {} THEN near ELSE IF far # {} THEN far ELSE {None}
          IN snapped' \in S
    /\ UNCHANGED <<asked, todo, truncated, graph>>

Next == Extract \/ AddSegment \/ Built \/ Snap

Spec == Init /\ [][Next]_vars

-----------------------------------------------------------------------------
Label == {s.name : s \in Segment} \cup {None}
Line == ({s.line : s \in Segment} \X Nat) \cup {None}
Arc == [from : Node, to : Node, weight : Nat, name : Label, line : Line, back : BOOLEAN]
Shape == [weight : Nat, line : Line, back : BOOLEAN]

TypeOK ==
    /\ rows \in Rows /\ mode \in Mode /\ distance \in Distance
    /\ at \in {"asked", "building", "built", "snapped"}
    /\ todo \in Seq(Segment) /\ truncated \in BOOLEAN
    /\ nodes \subseteq Node /\ snapped \in nodes \cup {None}
    /\ arcs \in Seq(Arc) /\ \A i \in DOMAIN arcs : {arcs[i].from, arcs[i].to} \subseteq nodes
    /\ names \in [Pair -> Label]
    /\ DOMAIN shapes \subseteq Pair /\ \A p \in DOMAIN shapes : shapes[p] \in Shape

\* Where a connector, or an end without one, is on a segment.
Places(s) ==
    {<<c.at, c.id>> : c \in Connectors(s)}
    \cup {<<0, Anchor(s, 0)>>, <<s.length, Anchor(s, s.length)>>}

\* Moves along one segment: forward, backward, or between connectors at one end.
Moves(s) ==
    {<<pq[1][2], pq[2][2]>> : pq \in
        {pq \in Places(s) \X Places(s) :
            \/ pq[1][1] = pq[2][1]
            \/ pq[1][1] < pq[2][1] /\ Open(s, "forward")
            \/ pq[1][1] > pq[2][1] /\ Open(s, "backward")}}

\* Whatever connectors the segments share, at their ends or in between, one
\* node can be reached from another exactly when there are legal moves along
\* the segments that lead there.
Ends(as) == {<<as[i].from, as[i].to>> : i \in DOMAIN as}
TravelIsLegal ==
    at = "built" => Reach(Ends(arcs)) = Reach(UNION {Moves(Kept[i]) : i \in DOMAIN Kept})

\* Of parallel arcs, the name and the shape of a pair are those of the arc a
\* search would take, which is the earliest of the lightest.
Lightest(g, p, i) ==
    /\ i \in Between(g, p)
    /\ \A j \in Between(g, p) :
        g.arcs[i].weight < g.arcs[j].weight \/ (g.arcs[i].weight = g.arcs[j].weight /\ i <= j)
HasSlot(g, p, a) ==
    /\ g.names[p] = a.name
    /\ p \in DOMAIN g.shapes
    /\ g.shapes[p] = [weight |-> a.weight, line |-> a.line, back |-> a.back]
SlotFollows(g, p) ==
    IF Between(g, p) = {} THEN g.names[p] = None /\ p \notin DOMAIN g.shapes
    ELSE HasSlot(g, p, g.arcs[CHOOSE i \in Between(g, p) : Lightest(g, p, i)])
SlotsFollowTheSearch == \A p \in Pair : SlotFollows(built, p)

\* A point is never snapped to a fragment while a street network is in reach,
\* however close the fragment is, and to nothing only if there is no network.
SnapIsUsable ==
    at = "snapped" =>
        LET C == Component
            usable == {n \in Large(C) : distance[n] <= FallbackRadius}
        IN IF snapped = None THEN usable = {}
           ELSE /\ snapped \in usable \cup Largest(C)
                /\ \A n \in usable : distance[snapped] <= distance[n]

NetworksAreTrue == TravelIsLegal /\ SlotsFollowTheSearch /\ SnapIsUsable

-----------------------------------------------------------------------------
(* What the steps keep: the segments are read in their order, and the arcs  *)
(* join the nodes that those of the segments read so far do.                *)

New(s) == Ends(Ties(s, 0)) \cup Ends(Ties(s, s.length)) \cup Ends(Ways(s))
Read == Len(Kept) - Len(todo)

ReadInOrder ==
    IF at = "asked" THEN todo = <<>> /\ arcs = <<>> /\ nodes = {}
    ELSE /\ Read \in Nat /\ \A k \in 1..Len(todo) : todo[k] = Kept[k + Read]
         /\ at # "building" => todo = <<>>
ArcsAreOfTheRead ==
    at # "asked" => \A p \in Pair : p[1] # p[2] => (p \in Ends(arcs) <=> \E k \in 1..Read : p \in New(Kept[k]))

\* The slots of a pair follow the earliest of its lightest arcs.
SlotKept(g, p) ==
    IF Between(g, p) = {} THEN g.names[p] = None /\ p \notin DOMAIN g.shapes
    ELSE \E i \in DOMAIN g.arcs : Lightest(g, p, i) /\ HasSlot(g, p, g.arcs[i])

IInv == TypeOK /\ ReadInOrder /\ ArcsAreOfTheRead /\ (\A p \in Pair : SlotKept(built, p)) /\ SnapIsUsable
=============================================================================
