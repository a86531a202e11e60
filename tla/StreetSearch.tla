---------------------------- MODULE StreetSearch ----------------------------
(***************************************************************************)
(* The four Dijkstra searches of routing.py over one street graph:         *)
(*   reach   dijkstra(): every node within a time limit (isochrone)        *)
(*   path    _dijkstra_path_to_target(): one target, up to a cost          *)
(*   flat    _dijkstra_path_to_target_flat(): ranked by time plus climb    *)
(*   costs   _dijkstra_costs_to_targets(): until all targets are settled   *)
(* They differ in what orders the heap, where they stop and what they      *)
(* answer.  Times are whole seconds; equal heap entries pop in any order.  *)
(***************************************************************************)
EXTENDS Naturals, Sequences, FiniteSets, FiniteSetsExt

CONSTANTS
    Node, Source,
    Graph,       \* street graphs: the time along each edge that there is
    Length,      \* metres along an edge
    Height,      \* elevation of a node, or Unknown
    Penalty,     \* FLAT_CLIMB_PENALTY_M_PER_M
    Bound,       \* time limits and highest costs asked for
    Target,      \* sets of targets asked for
    Infinity,    \* math.inf: more than any path costs
    Unknown, None

Edge == Node \X Node

\* Metres of climb along an edge, where both ends are known.
Climb(n, m) ==
    IF Unknown \in {Height[n], Height[m]} \/ Height[m] <= Height[n] THEN 0
    ELSE Height[m] - Height[n]

\* What an edge of g adds to the rank in search s.
Cost(g, s, n, m) == g[<<n, m>>] + IF s = "flat" THEN Penalty * Climb(n, m) ELSE 0
Costs(g, s) == [e \in DOMAIN g |-> Cost(g, s, e[1], e[2])]

-----------------------------------------------------------------------------
(* Paths without a loop, and what adds up along them.                      *)

Paths == {p \in UNION {[1..k -> Node] : k \in 1..Cardinality(Node)} :
              p[1] = Source /\ \A i, j \in DOMAIN p : p[i] = p[j] => i = j}

PathsOf(g) == {p \in Paths : \A i \in 2..Len(p) : <<p[i - 1], p[i]>> \in DOMAIN g}

Along(p, w) ==
    LET upto[i \in 1..Len(p)] == IF i = 1 THEN 0 ELSE upto[i - 1] + w[<<p[i - 1], p[i]>>]
    IN  upto[Len(p)]

\* What is assumed of the constants.
Assumptions ==
    /\ Source \in Node /\ None \notin Node /\ IsFiniteSet(Node)
    /\ \A g \in Graph : DOMAIN g \subseteq Edge /\ g \in [DOMAIN g -> Nat]
    /\ Length \in [Edge -> Nat] /\ Height \in [Node -> Nat \cup {Unknown}] /\ Unknown \notin Nat
    /\ Bound \subseteq Nat /\ Penalty \in Nat /\ Infinity \in Nat
    /\ Target \subseteq SUBSET Node
    /\ \A g \in Graph, s \in {"path", "flat"} : \A p \in PathsOf(g) : Along(p, Costs(g, s)) < Infinity

VARIABLES
    graph,
    search,   \* which of the four
    bound,    \* max_seconds, max_cost
    targets,  \* the target of path and flat, the targets of costs
    rank,     \* what orders the heap, by node
    time, dist, prev,
    heap,
    settled,  \* targets settled so far, with their time and length
    answer

input == <<graph, search, bound, targets>>
labels == <<rank, time, dist, prev>>
vars == <<graph, search, bound, targets, rank, time, dist, prev, heap, settled, answer>>

Pending == [kind |-> "pending"]
NoRoute == [kind |-> "none"]

Init ==
    /\ graph \in Graph
    /\ search \in {"reach", "path", "flat", "costs"}
    /\ bound \in IF search \in {"reach", "path"} THEN Bound ELSE {Infinity}
    /\ targets \in IF search = "costs" THEN Target
                   ELSE IF search = "reach" THEN {{}} ELSE {{n} : n \in Node}
    /\ rank = [n \in Node |-> IF n = Source THEN 0 ELSE Infinity]
    /\ time = rank /\ dist = rank
    /\ prev = [n \in Node |-> None]
    /\ heap = {<<0, Source>>}
    /\ settled = {}
    /\ answer = Pending

RankOf(n, m) == Cost(graph, search, n, m)

Neighbours(n) == {m \in Node : <<n, m>> \in DOMAIN graph}

\* A relaxation that forgets to carry the length along.
ImprovedRankOnly(n, r) ==
    LET better == {m \in Neighbours(n) : r + RankOf(n, m) < rank[m]}
    IN /\ rank' = [m \in Node |-> IF m \in better THEN r + RankOf(n, m) ELSE rank[m]]
       /\ time' = [m \in Node |-> IF m \in better THEN time[n] + graph[<<n, m>>] ELSE time[m]]
       /\ dist' = [m \in Node |-> IF m \in better /\ prev[m] = None THEN dist[n] + Length[<<n, m>>] ELSE dist[m]]
       /\ prev' = [m \in Node |-> IF m \in better THEN n ELSE prev[m]]
       /\ heap' = (heap \ {<<r, n>>}) \cup {<<r + RankOf(n, m), m>> : m \in better}

\* The edges out of a node that is popped: a neighbour's labels move together.
\* Only the reach search compares with its limit here.
Relax(n, r) ==
    LET better == {m \in Neighbours(n) : /\ r + RankOf(n, m) < rank[m]
                                         /\ search = "reach" => r + RankOf(n, m) <= bound}
    IN /\ rank' = [m \in Node |-> IF m \in better THEN r + RankOf(n, m) ELSE rank[m]]
       /\ time' = [m \in Node |-> IF m \in better THEN time[n] + graph[<<n, m>>] ELSE time[m]]
       /\ dist' = [m \in Node |-> IF m \in better THEN dist[n] + Length[<<n, m>>] ELSE dist[m]]
       /\ prev' = [m \in Node |-> IF m \in better THEN n ELSE prev[m]]
       /\ heap' = (heap \ {<<r, n>>}) \cup {<<r + RankOf(n, m), m>> : m \in better}

\* What heappop() may return.
Least(e) == e \in heap /\ \A f \in heap : e[1] <= f[1]
Running == answer = Pending /\ heap # {}

\* An entry from before its node was improved.
Skip(e) ==
    /\ Running /\ Least(e)
    /\ e[1] > rank[e[2]] \/ (search = "reach" /\ e[1] > bound)
    /\ search = "costs" => targets \ {s[1] : s \in settled} # {}
    /\ heap' = heap \ {e}
    /\ UNCHANGED <<input, labels, settled, answer>>

\* The path search stops at its cost bound, whatever the target.
GiveUp(e) ==
    /\ Running /\ Least(e) /\ search = "path" /\ Source \notin targets
    /\ e[1] <= rank[e[2]] /\ e[1] > bound
    /\ answer' = NoRoute
    /\ UNCHANGED <<input, labels, heap, settled>>

\* The nodes from Source to n, read back along prev.
Chain(n) == CHOOSE p \in Paths : p[Len(p)] = n /\ \A i \in 2..Len(p) : p[i - 1] = prev[p[i]]

\* The target of path and flat is settled: its labels are final.
Arrive(e) ==
    /\ Running /\ Least(e) /\ search \in {"path", "flat"}
    /\ e[2] \in targets /\ e[1] <= rank[e[2]]
    /\ e[1] <= bound \/ Source \in targets
    /\ answer' = [kind |-> "route", time |-> time[e[2]], dist |-> dist[e[2]], path |-> Chain(e[2])]
    /\ UNCHANGED <<input, labels, heap, settled>>

\* Any other node: a target of costs is noted, and the edges are relaxed.
Expand(e) ==
    LET n == e[2] IN
    /\ Running /\ Least(e) /\ e[1] <= rank[n]
    /\ search \in {"reach", "path"} => e[1] <= bound
    /\ search \in {"path", "flat"} => n \notin targets
    /\ search = "costs" => targets \ {s[1] : s \in settled} # {}
    /\ settled' = IF search = "costs" /\ n \in targets THEN settled \cup {<<n, e[1], dist[n]>>} ELSE settled
    /\ Relax(n, e[1])
    /\ UNCHANGED <<input, answer>>

\* The heap is empty, or all targets of costs are settled.
Finish ==
    /\ answer = Pending
    /\ heap = {} \/ (search = "costs" /\ targets \subseteq {s[1] : s \in settled})
    /\ answer' = CASE search = "reach" -> [kind |-> "reached", nodes |-> {<<n, rank[n]>> : n \in {m \in Node : rank[m] < Infinity}}]
                   [] search = "costs" -> [kind |-> "costs", nodes |-> settled]
                   [] OTHER -> NoRoute
    /\ UNCHANGED <<input, labels, heap, settled>>

Next ==
    \/ \E e \in heap : Skip(e) \/ GiveUp(e) \/ Arrive(e) \/ Expand(e)
    \/ Finish

Spec == Init /\ [][Next]_vars

-----------------------------------------------------------------------------
(* The reference: every path without a loop.                               *)

Ranks == Costs(graph, search)
PathsTo(n) == {p \in PathsOf(graph) : p[Len(p)] = n}

Shortest(n) == Min({Along(p, graph) : p \in PathsTo(n)})

-----------------------------------------------------------------------------
TypeOK ==
    /\ graph \in Graph /\ search \in {"reach", "path", "flat", "costs"}
    /\ bound \in Nat /\ (search = "flat" => bound = Infinity)
    /\ targets \subseteq Node /\ (search \in {"path", "flat"} => \E n \in Node : targets = {n})
    /\ rank \in [Node -> Nat] /\ time \in [Node -> Nat] /\ dist \in [Node -> Nat]
    /\ prev \in [Node -> Node \cup {None}]
    /\ heap \subseteq Nat \X Node
    /\ settled \subseteq targets \X Nat \X Nat
    /\ answer.kind \in {"pending", "none", "route", "reached", "costs"}

\* The route that is answered is a path of the graph with the least time, or
\* the least time and climb, of all; its duration and length are the true ones
\* of that very path; and there is none only if no path keeps to the bound.
RoutesAreShortest ==
    LET t == CHOOSE t \in targets : TRUE IN
    /\ answer.kind = "route" =>
        /\ answer.path \in PathsTo(t)
        /\ \A p \in PathsTo(t) : Along(answer.path, Ranks) <= Along(p, Ranks)
        /\ answer.time = Along(answer.path, graph)
        /\ answer.dist = Along(answer.path, Length)
    /\ answer.kind = "none" => \A p \in PathsTo(t) : Along(p, graph) > bound

\* An isochrone holds the nodes within the limit, with their least times.
ReachIsExact ==
    answer.kind = "reached" =>
        answer.nodes = {<<n, Shortest(n)>> : n \in {m \in Node : \E p \in PathsTo(m) : Along(p, graph) <= bound}}

\* A row of the matrix holds every target there is a path to, with its least
\* time and the length of some path that takes it.
CostsAreExact ==
    answer.kind = "costs" =>
        /\ {s[1] : s \in answer.nodes} = {n \in targets : PathsTo(n) # {}}
        /\ \A s \in answer.nodes :
              /\ s[2] = Shortest(s[1])
              /\ \E p \in PathsTo(s[1]) : s[2] = Along(p, graph) /\ s[3] = Along(p, Length)

SearchesAreExact == RoutesAreShortest /\ ReachIsExact /\ CostsAreExact

-----------------------------------------------------------------------------
(* What holds while a search runs.                                         *)

\* An entry is its node's label of before or of now.
HeapFits ==
    \A e \in heap : rank[e[2]] <= e[1] /\ e[1] < Infinity /\ (search = "reach" => e[1] <= bound)

\* The labels of a node are those of the path that prev leads back along.  The
\* nodes it passes are settled: no entry is before them.
Labelled(p) ==
    LET n == p[Len(p)] IN
    /\ \A i \in 2..Len(p) : p[i - 1] = prev[p[i]]
    /\ rank[n] = Along(p, Ranks) /\ time[n] = Along(p, graph) /\ dist[n] = Along(p, Length)
    /\ \A i \in 1..(Len(p) - 1) : rank[p[i]] <= rank[n] /\ \A e \in heap : rank[p[i]] <= e[1]

LabelsAreReal ==
    /\ rank[Source] = 0
    /\ \A n \in Node : rank[n] < Infinity =>
          (search = "reach" => rank[n] <= bound) /\ \E p \in PathsTo(n) : Labelled(p)

\* A node that was reached has its entry or its edges have been relaxed.
Expanded(n) ==
    /\ \A m \in Neighbours(n) :
          rank[m] <= rank[n] + RankOf(n, m) \/ (search = "reach" /\ rank[n] + RankOf(n, m) > bound)
    /\ search \in {"path", "flat"} => n \notin targets
    /\ search = "costs" /\ n \in targets => \E s \in settled : s[1] = n

NoneIsForgotten == \A n \in Node : rank[n] < Infinity => <<rank[n], n>> \in heap \/ Expanded(n)

\* What is noted of a target is true of the graph.
SettledIsFinal ==
    \A s \in settled :
        /\ \E p \in PathsTo(s[1]) : s[2] = Along(p, Ranks) /\ s[3] = Along(p, Length)
        /\ \A p \in PathsTo(s[1]) : s[2] <= Along(p, Ranks)

IInv == TypeOK /\ HeapFits /\ LabelsAreReal /\ NoneIsForgotten /\ SettledIsFinal /\ SearchesAreExact
=============================================================================
