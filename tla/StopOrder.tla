----------------------------- MODULE StopOrder -----------------------------
(***************************************************************************)
(* optimize_route() of routing.py: one street graph for all stops, widened *)
(* once if some pair is not connected in it, a matrix of times from its    *)
(* searches (StreetSearch), and the exact order of Held and Karp over it.  *)
(* Times are integers, so that OPTIMIZE_TIE_EPSILON_S is equality.         *)
(***************************************************************************)
EXTENDS Naturals, Sequences, FiniteSets

CONSTANTS
    StopCount, \* how many there are
    Matrix,    \* times between stops that a graph connects
    Estimate,  \* _estimated_cell(): the time between two that it does not
    Gaps       \* sets of pairs that a graph may leave unconnected

Stop == 1..StopCount
Pair == {p \in Stop \X Stop : p[1] # p[2]}

\* What an extraction yields: an error of the upstream, no node at all, a stop
\* that no usable component is near to, or a graph that all stops snap to, with
\* its gaps.
NoAnswer == [kind |-> "failed", gaps |-> {}]
NoNode == [kind |-> "empty", gaps |-> {}]
NoSnap == [kind |-> "unsnapped", gaps |-> {}]
Extraction == {NoAnswer, NoNode, NoSnap} \cup [kind : {"snapped"}, gaps : Gaps]

\* What is assumed of the constants.
Assumptions ==
    /\ StopCount \in Nat /\ StopCount >= 2
    /\ \A m \in Matrix : m \in [Pair -> Nat]
    /\ Estimate \in [Pair -> Nat]
    /\ \A g \in Gaps : g \subseteq Pair

VARIABLES
    times,       \* along streets
    area,        \* what the base radius and the wider one yield
    widens,      \* there is a wider radius below the cap
    start, roundtrip, keepOrder,
    radius,      \* tried last
    best,        \* the radius whose matrix is kept, 0 for none
    order        \* the answer

vars == <<times, area, widens, start, roundtrip, keepOrder, radius, best, order>>

Pending == <<"pending">>
NoGraph == <<"no_graph_nearby">>
Failed == <<"upstream_unavailable">>

Init ==
    /\ times \in Matrix
    /\ area \in [1..2 -> Extraction]
    /\ widens \in BOOLEAN
    /\ start \in Stop /\ roundtrip \in BOOLEAN
    /\ keepOrder \in IF start = 1 THEN BOOLEAN ELSE {FALSE}
    /\ radius = 0 /\ best = 0
    /\ order = Pending

Last == IF widens THEN 2 ELSE 1

\* A wider graph taken whatever it leaves out.
Latest(r) == r

\* The matrix with fewer estimates is kept, the earlier one on a tie.
Better(r) ==
    IF best # 0 /\ Cardinality(area[best].gaps) <= Cardinality(area[r].gaps) THEN best ELSE r

\* _snap_and_cost_stops() at the next radius: an empty graph and a stop that
\* does not snap are passed over, unless it is the last chance; an upstream that
\* fails takes the call with it, whatever the radius before has yielded.
Try ==
    LET r == radius + 1 IN
    /\ order = Pending
    /\ r <= Last
    /\ best # 0 => area[best].gaps # {}
    /\ radius' = r
    /\ \/ area[r].kind = "failed" /\ order' = Failed /\ UNCHANGED best
       \/ area[r].kind = "snapped" /\ best' = Better(r) /\ UNCHANGED order
       \/ /\ area[r] \in {NoNode, NoSnap}
          /\ order' = IF r = Last /\ best = 0 THEN NoGraph ELSE Pending
          /\ UNCHANGED best
    /\ UNCHANGED <<times, area, widens, start, roundtrip, keepOrder>>

\* _cost_matrices(): a pair that is not connected is estimated.
Cost(i, j) == IF <<i, j>> \in area[best].gaps THEN Estimate[<<i, j>>] ELSE times[<<i, j>>]

-----------------------------------------------------------------------------
(* solve_tsp().                                                            *)

\* Of two orders of the same stops.
LexLess(s, t) == \E i \in DOMAIN s : s[i] < t[i] /\ \A j \in 1..(i - 1) : s[j] = t[j]

\* better(): less time, or the smaller order of two that take the same.
Prefers(a, b) == a.cost < b.cost \/ (a.cost = b.cost /\ LexLess(a.order, b.order))
Choice(S) == CHOOSE a \in S : \A b \in S : b = a \/ Prefers(a, b)

Extend(a, k) == [cost |-> a.cost + Cost(a.order[Len(a.order)], k), order |-> Append(a.order, k)]

\* The keys of best: the stops that were visited, and the one of them reached last.
Visits == {v \in (SUBSET Stop) \X Stop : {start, v[2]} \subseteq v[1] /\ (v[2] = start => v[1] = {start})}

\* What was visited before the last stop.
Before(v) ==
    {<<v[1] \ {v[2]}, k>> : k \in IF v[1] = {start, v[2]} THEN {start} ELSE v[1] \ {start, v[2]}}

\* best[(mask, j)]: the prefix that visits the stops of mask and is now at j.
Prefix ==
    LET P[v \in Visits] ==
            IF v[1] = {start} THEN [cost |-> 0, order |-> <<start>>]
            ELSE Choice({Extend(P[u], v[2]) : u \in Before(v)})
    IN P

Closed(a) == IF roundtrip THEN [a EXCEPT !.cost = @ + Cost(a.order[Len(a.order)], start)] ELSE a

SolveTsp == Choice({Closed(Prefix[<<Stop, j>>]) : j \in Stop \ {start}}).order

\* A matrix without gaps, or the last radius: the order is decided.
Decide ==
    /\ order = Pending
    /\ best # 0
    /\ area[best].gaps = {} \/ radius = Last
    /\ order' = IF keepOrder THEN [i \in Stop |-> i] ELSE SolveTsp
    /\ UNCHANGED <<times, area, widens, start, roundtrip, keepOrder, radius, best>>

Next == Try \/ Decide

Spec == Init /\ [][Next]_vars

-----------------------------------------------------------------------------
TypeOK ==
    /\ times \in Matrix /\ area \in [1..2 -> Extraction]
    /\ widens \in BOOLEAN /\ roundtrip \in BOOLEAN /\ keepOrder \in BOOLEAN
    /\ start \in Stop /\ radius \in 0..Last /\ best \in 0..radius
    /\ order \in {Pending, NoGraph, Failed} \cup [Stop -> Stop]

Decided == order \notin {Pending, NoGraph, Failed}
Usable == {r \in 1..Last : area[r].kind = "snapped"}
Complete(r) == area[r].kind = "snapped" /\ area[r].gaps = {}

\* No graph is near only if no radius connects the stops to the streets, and the
\* upstream was asked at all of them.  A call fails for its upstream only if a
\* radius failed that a complete matrix had not made needless.  And a call is
\* answered from the graph that leaves the fewest pairs to be estimated: some
\* are estimated only when every radius was tried and none failed.
BestGraphIsUsed ==
    /\ order = NoGraph => \A r \in 1..Last : area[r] \in {NoNode, NoSnap}
    /\ order = Failed => \E r \in 1..Last : area[r] = NoAnswer /\ \A s \in 1..(r - 1) : ~Complete(s)
    /\ Decided => /\ best \in Usable
                  /\ \A r \in Usable : Cardinality(area[best].gaps) <= Cardinality(area[r].gaps)
                  /\ Complete(best) \/ \A r \in 1..Last : area[r] # NoAnswer

Costs == [p \in Pair |-> Cost(p[1], p[2])]

Along(p, w) ==
    LET upto[i \in 1..Len(p)] == IF i = 1 THEN 0 ELSE upto[i - 1] + w[<<p[i - 1], p[i]>>]
    IN  upto[Len(p)]

TourCost(t) == Along(t, Costs) + IF roundtrip THEN Cost(t[StopCount], start) ELSE 0

Tours == {t \in [Stop -> Stop] : t[1] = start /\ \A i, j \in Stop : t[i] = t[j] => i = j}

\* Every stop is visited once, from the start; no order takes less time, the
\* way back included; and of those that take the same it is the first, so that
\* a tour and its mirror image never alternate.
OrderIsOptimal ==
    Decided /\ ~keepOrder =>
        /\ order \in Tours
        /\ \A t \in Tours : TourCost(order) < TourCost(t)
                            \/ (TourCost(order) = TourCost(t) /\ ~LexLess(t, order))

ToursAreBest == BestGraphIsUsed /\ OrderIsOptimal

-----------------------------------------------------------------------------
(* What holds while radii are tried.                                       *)

\* The matrix kept leaves the fewest estimates of those that were made, and the
\* call went on past a radius only if that yielded no complete one.
BestSoFar ==
    /\ best # 0 => area[best].kind = "snapped"
    /\ \A r \in 1..radius : area[r].kind = "snapped" =>
          best # 0 /\ Cardinality(area[best].gaps) <= Cardinality(area[r].gaps)
    /\ \A r \in 1..(radius - 1) : ~Complete(r)

\* What ends the call: an error, nothing left to try, or nothing left to estimate.
EndsInTime ==
    /\ order = NoGraph => radius = Last /\ best = 0
    /\ order = Failed => radius # 0 /\ area[radius] = NoAnswer
    /\ order # Failed => \A r \in 1..radius : area[r] # NoAnswer
    /\ Decided => best # 0 /\ (radius = Last \/ area[best].gaps = {})

IInv == TypeOK /\ BestSoFar /\ EndsInTime /\ OrderIsOptimal
=============================================================================
