----------------------------- MODULE RouteCall -----------------------------
(***************************************************************************)
(* The route() tool of server.py with the gate of _server_confirm.py, and  *)
(* _shortest_path() of routing.py: a peek at the graph cache (GraphCache)  *)
(* decides whether the user is asked first, a confirmed cold build is cut  *)
(* off after twice its ETA while its thread goes on, and a search that     *)
(* fails is tried once more over a wider extraction.                       *)
(***************************************************************************)
EXTENDS Naturals

CONSTANTS
    Call,
    Base, Wide,  \* the two extractions a route may use
    None

Extraction == {Base, Wide}
\* What an extraction yields for the two ends of the route.
Yield == {"empty", "unsnapped", "unconnected", "connected"}

\* What is assumed of the constants.
Assumptions == Base # Wide /\ None \notin Extraction

VARIABLES
    yields,   \* of each extraction
    widens,   \* the wider radius is below the cap of the mode
    cached,   \* extractions in memory or on disk
    at,       \* where each call's thread is
    confirm, capped,
    radius,   \* the extraction it asks for
    graph,    \* the one it got: a wider one serves as well
    snapped,  \* snapped_both
    answer,
    tried,    \* ghost: the graphs it searched
    built,    \* ghost: the extractions it made itself
    lost      \* ghost: what its peek found was evicted since

vars == <<yields, widens, cached, at, confirm, capped, radius, graph, snapped, answer, tried, built, lost>>
fixed == <<yields, widens>>
asked == <<confirm, capped>>
ghosts == <<tried, built, lost>>

Init ==
    /\ yields \in [Extraction -> Yield] /\ widens \in BOOLEAN
    /\ cached \in SUBSET Extraction
    /\ at = [c \in Call |-> "new"]
    /\ confirm = [c \in Call |-> FALSE] /\ capped = confirm /\ snapped = confirm /\ lost = confirm
    /\ radius = [c \in Call |-> None] /\ graph = radius /\ answer = radius
    /\ tried = [c \in Call |-> {}] /\ built = tried

Covering(r) == {g \in cached : g = r \/ g = Wide}

\* route_graph_is_cached(), then the gate: a cold build is confirmed first,
\* and a confirmed one is capped.
Ask(c, confirmed) ==
    /\ at[c] = "new"
    /\ LET cold == Covering(Base) = {} IN
       /\ confirm' = [confirm EXCEPT ![c] = confirmed]
       /\ IF cold /\ ~confirmed
          THEN /\ answer' = [answer EXCEPT ![c] = "needs_confirm"]
               /\ at' = [at EXCEPT ![c] = "over"]
               /\ UNCHANGED <<radius, capped>>
          ELSE /\ at' = [at EXCEPT ![c] = "fetch"]
               /\ radius' = [radius EXCEPT ![c] = Base]
               /\ capped' = [capped EXCEPT ![c] = cold]
               /\ UNCHANGED answer
    /\ UNCHANGED <<fixed, cached, graph, snapped, ghosts>>

Say(c, a) == answer' = IF answer[c] = None THEN [answer EXCEPT ![c] = a] ELSE answer

\* _get_or_build_graph(): a cached graph that covers the radius.
Reuse(c, g) ==
    /\ at[c] = "fetch" /\ g \in Covering(radius[c])
    /\ graph' = [graph EXCEPT ![c] = g]
    /\ at' = [at EXCEPT ![c] = "search"]
    /\ UNCHANGED <<fixed, cached, asked, radius, snapped, answer, ghosts>>

Build(c) ==
    /\ at[c] = "fetch" /\ Covering(radius[c]) = {}
    /\ built' = [built EXCEPT ![c] = @ \cup {radius[c]}]
    /\ graph' = [graph EXCEPT ![c] = radius[c]]
    /\ cached' = cached \cup {radius[c]}
    /\ at' = [at EXCEPT ![c] = "search"]
    /\ UNCHANGED <<fixed, asked, radius, snapped, answer, tried, lost>>

\* Upstream is out of reach; the thread of a capped call has nobody to tell.
BuildFails(c) ==
    /\ at[c] = "fetch" /\ Covering(radius[c]) = {}
    /\ at' = [at EXCEPT ![c] = "over"]
    /\ Say(c, "upstream_unavailable")
    /\ UNCHANGED <<fixed, cached, asked, radius, graph, snapped, ghosts>>

CanWiden(c) == widens /\ radius[c] = Base

\* A wider radius that fails to snap decides the answer.
SearchLast(c) ==
    LET y == yields[graph[c]] IN
    /\ at[c] = "search"
    /\ tried' = [tried EXCEPT ![c] = @ \cup {graph[c]}]
    /\ IF y # "connected" /\ CanWiden(c)
       THEN /\ radius' = [radius EXCEPT ![c] = Wide]
            /\ at' = [at EXCEPT ![c] = "fetch"]
            /\ UNCHANGED answer
       ELSE /\ at' = [at EXCEPT ![c] = "over"]
            /\ Say(c, CASE y = "connected" -> "route" [] y = "unconnected" -> "no_route" [] OTHER -> "no_graph_nearby")
            /\ UNCHANGED radius
    /\ UNCHANGED <<fixed, cached, asked, graph, snapped, built, lost>>

\* One round of _shortest_path(): no route is the answer once both ends have
\* snapped, also if they do not in the wider graph.
Search(c) ==
    LET y == yields[graph[c]]
        both == snapped[c] \/ y \in {"unconnected", "connected"} IN
    /\ at[c] = "search"
    /\ tried' = [tried EXCEPT ![c] = @ \cup {graph[c]}]
    /\ snapped' = [snapped EXCEPT ![c] = both]
    /\ IF y # "connected" /\ CanWiden(c)
       THEN /\ radius' = [radius EXCEPT ![c] = Wide]
            /\ at' = [at EXCEPT ![c] = "fetch"]
            /\ UNCHANGED answer
       ELSE /\ at' = [at EXCEPT ![c] = "over"]
            /\ Say(c, CASE y = "connected" -> "route" [] y # "connected" /\ both -> "no_route" [] OTHER -> "no_graph_nearby")
            /\ UNCHANGED radius
    /\ UNCHANGED <<fixed, cached, asked, graph, built, lost>>

\* fut.result(timeout): the answer is given, the thread goes on.
TimesOut(c) ==
    /\ capped[c] /\ at[c] \in {"fetch", "search"} /\ answer[c] = None
    /\ answer' = [answer EXCEPT ![c] = "eta_exceeded"]
    /\ UNCHANGED <<fixed, cached, at, asked, radius, graph, snapped, ghosts>>

\* Other calls fill the LRU, and the files are cleaned up.
Evict(g) ==
    /\ g \in cached
    /\ cached' = cached \ {g}
    /\ lost' = [c \in Call |-> lost[c] \/ at[c] \in {"fetch", "search"}]
    /\ UNCHANGED <<fixed, at, asked, radius, graph, snapped, answer, tried, built>>

Next ==
    \/ \E c \in Call :
          \/ \E confirmed \in BOOLEAN : Ask(c, confirmed)
          \/ \E g \in Extraction : Reuse(c, g)
          \/ Build(c) \/ BuildFails(c) \/ Search(c) \/ TimesOut(c)
    \/ \E g \in Extraction : Evict(g)

Spec == Init /\ [][Next]_vars

-----------------------------------------------------------------------------
Answer == {"needs_confirm", "route", "no_route", "no_graph_nearby", "upstream_unavailable", "eta_exceeded"}

TypeOK ==
    /\ yields \in [Extraction -> Yield] /\ widens \in BOOLEAN /\ cached \subseteq Extraction
    /\ at \in [Call -> {"new", "fetch", "search", "over"}]
    /\ confirm \in [Call -> BOOLEAN] /\ capped \in [Call -> BOOLEAN] /\ snapped \in [Call -> BOOLEAN]
    /\ lost \in [Call -> BOOLEAN]
    /\ radius \in [Call -> Extraction \cup {None}] /\ graph \in [Call -> Extraction \cup {None}]
    /\ answer \in [Call -> Answer \cup {None}]
    /\ tried \in [Call -> SUBSET Extraction] /\ built \in [Call -> SUBSET Extraction]

\* Whatever graph served a radius, a route is found if the last one searched
\* connects the ends; else the answer says whether they were on the network in
\* any graph searched, and it is not given before the wider radius was tried.
AnswersFollowTheGraphs ==
    \A c \in Call :
        /\ answer[c] = "route" => \E g \in tried[c] : yields[g] = "connected"
        /\ answer[c] \in {"no_route", "no_graph_nearby"} =>
              /\ \A g \in tried[c] : yields[g] # "connected"
              /\ widens => radius[c] = Wide
        /\ answer[c] = "no_route" <=> answer[c] \in {"no_route", "no_graph_nearby"}
                                      /\ \E g \in tried[c] : yields[g] = "unconnected"

\* A call the user has not confirmed extracts the first radius only when what
\* the peek had found was evicted in between, and only confirmed builds are cut.
NoSurpriseBuild ==
    \A c \in Call :
        /\ Base \in built[c] => confirm[c] \/ lost[c]
        /\ answer[c] = "eta_exceeded" => confirm[c]

RouteAnswersAreRight == AnswersFollowTheGraphs /\ NoSurpriseBuild
=============================================================================
