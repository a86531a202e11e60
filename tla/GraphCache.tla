------------------------------ MODULE GraphCache ------------------------------
(***************************************************************************)
(* The street-graph cache of routing.py for one mode: the in-memory LRU,   *)
(* the single-flight registry of builds, and the pickles persisted beside  *)
(* the tiles with their sidecar indexes.                                   *)
(*                                                                         *)
(* A box is a set of cells, so that one bbox contains another when it is a *)
(* superset.  A call needs one box and, when it has to build, extracts a   *)
(* wider one.  A pickle is named after the tile and the rounded radius it  *)
(* was built for, so different boxes may share a name.  Of the cache key   *)
(* (release, upstream, mode, speed, avoid) the release is the part that    *)
(* changes under a running process.                                        *)
(***************************************************************************)
EXTENDS Naturals, FiniteSets, LruOrder

CONSTANTS Call,        \* calls of _get_or_build_graph, or peeks, under way
          Ask,         \* what they ask: [need, box, shapes]
          File,        \* stems of pickle names
          FileOf,      \* the stem a box is persisted under
          MaxRelease,  \* bound: releases the process rolls over to
          MaxSize,     \* GRAPH_CACHE_MAXSIZE
          MaxFiles,    \* GRAPH_DISK_MAX_FILES
          NoGraph,     \* no graph, no file, no sidecar
          Torn         \* a pickle that two writers wrote into

ASSUME AskAssumption ==
    \A a \in Ask : a.shapes \in BOOLEAN /\ a.need \subseteq a.box /\ FileOf[a.box] \in File
ASSUME BoundsAssumption == {MaxRelease, MaxSize, MaxFiles} \subseteq Nat \ {0}

VARIABLES
    release,    \* what resolve_release() answers
    mem,        \* _graph_cache: the order of use of its entries
    inflight,   \* _inflight_builds: the calls that own one
    pc,         \* where each call is
    ask,        \* what it asks for
    key,        \* the release of its key_prefix
    builder,    \* the call whose build it waits for
    graph,      \* the graph it has in hand
    todo,       \* pickles its disk lookup has not tried
    file,       \* the pickle it is loading
    unindexed,  \* that pickle had no usable sidecar
    tmp,        \* the calls that have a pickle's .tmp file open
    disk,       \* the pickles
    index       \* their sidecars: a box, and the pickle whose size they pin

diskVars == <<tmp, disk, index>>
lookupVars == <<todo, file, unindexed>>
vars == <<release, mem, inflight, pc, ask, key, builder, graph, lookupVars, diskVars>>

PC == {"idle", "joining", "waiting", "woken", "disk", "loading", "loaded",
       "writing", "indexing",
       "storing", "finishing", "returning"}

Release == 1..MaxRelease
Path == Release \X File \X BOOLEAN
NoPath == <<0, NoGraph, FALSE>>
NoAsk == [need |-> {}, box |-> {}, shapes |-> FALSE]

Box == {a.box : a \in Ask}
Graph == [box : Box, shapes : BOOLEAN, built : Release]
Entry == [key : Release, graph : Graph]

Idle(c) == pc[c] = "idle"

Init ==
    /\ release = 1
    /\ mem = {}
    /\ inflight = {}
    /\ pc = [c \in Call |-> "idle"]
    /\ ask = [c \in Call |-> NoAsk]
    /\ key = [c \in Call |-> 1]
    /\ builder = [c \in Call |-> c]
    /\ graph = [c \in Call |-> NoGraph]
    /\ todo = [c \in Call |-> {}]
    /\ file = [c \in Call |-> NoPath]
    /\ unindexed = [c \in Call |-> FALSE]
    /\ tmp = [p \in Path |-> {}]
    /\ disk = [p \in Path |-> NoGraph]
    /\ index = [p \in Path |-> NoGraph]

Goto(c, l) == pc' = [pc EXCEPT ![c] = l]
Holds(c, g) == graph' = [graph EXCEPT ![c] = g]

\* A graph answers a request whose box it contains; one without shapes does
\* not answer a request for shapes.
FitsIgnoringShapes(g, a) == a.need \subseteq g.box

Fits(g, a) == a.need \subseteq g.box /\ (a.shapes => g.shapes)

\* Graph g answers every request graph h answers.
StandsIn(g, h) == h.box \subseteq g.box /\ (h.shapes => g.shapes)

-----------------------------------------------------------------------------
(* The in-memory LRU.                                                      *)

\* The entries in memory.
Held == In(mem)

\* _memory_lookup_locked: the entries that fit.  The code serves the oldest of
\* them; which one it is, is left open.
Hits(k, a) == {e \in Held : e.key = k /\ Fits(e.graph, a)}

\* One entry too many.
TrimLate(m) == IF Cardinality(In(m)) > MaxSize + 1 THEN Without(m, Oldest(m)) ELSE m

\* popitem(last=False) when there are too many.
Trim(m) == IF Cardinality(In(m)) > MaxSize THEN Without(m, Oldest(m)) ELSE m

\* The LRU keyed on the tile, as it was before it was keyed on the box.
StoredByTile(k, g) ==
    LET same == {e \in Held : e.key = k /\ FileOf[e.graph.box] = FileOf[g.box]}
    IN  Trim(Used(Without(mem, same), [key |-> k, graph |-> g]))

\* The LRU without subsumption.
StoredBesideSubsumed(k, g) == Trim(Used(mem, [key |-> k, graph |-> g]))

\* Entries that answer what g does, and those that answer nothing g does not.
Better(k, g) == {e \in Held : e.key = k /\ StandsIn(e.graph, g)}
Subsumed(k, g) == {e \in Held : e.key = k /\ StandsIn(g, e.graph)}

\* _store_graph_in_memory: the first entry that stands in for the new graph is
\* touched instead; entries the new graph stands in for go.
Stored(k, g) ==
    IF Better(k, g) # {}
    THEN Used(mem, CHOOSE e \in Better(k, g) : \A d \in Better(k, g) : <<e, d>> \in mem)
    ELSE Trim(Used(Without(mem, Subsumed(k, g)), [key |-> k, graph |-> g]))

-----------------------------------------------------------------------------
(* _get_or_build_graph: memory, then the registry.                         *)

\* The pickles a lookup goes through, listed when it begins.
Listed(k) == {p \in Path : p[1] = k /\ disk[p] # NoGraph}

LookupHit(c, k, a) ==
    /\ \E e \in Hits(k, a) : mem' = Used(mem, e) /\ Holds(c, e.graph)
    /\ Goto(c, "returning")

LookupMiss(c, k, a) ==
    /\ Hits(k, a) = {}
    /\ Goto(c, "joining")
    /\ UNCHANGED <<mem, graph>>

\* The key is taken from the active release; memory is looked at first.
Start(c, a) ==
    /\ Idle(c)
    /\ ask' = [ask EXCEPT ![c] = a]
    /\ key' = [key EXCEPT ![c] = release]
    /\ LookupHit(c, release, a) \/ LookupMiss(c, release, a)
    /\ UNCHANGED <<release, inflight, builder, lookupVars, diskVars>>

\* graph_is_cached(): memory without a touch, then disk; it never builds.
Peek(c, a) ==
    /\ Idle(c)
    /\ Hits(release, a) = {}
    /\ ask' = [ask EXCEPT ![c] = a]
    /\ key' = [key EXCEPT ![c] = release]
    /\ todo' = [todo EXCEPT ![c] = Listed(release)]
    /\ Goto(c, "disk")
    /\ UNCHANGED <<release, mem, inflight, builder, graph, file, unindexed, diskVars>>

\* The boxes compared the wrong way round.
ServesInward(b, c) ==
    key[b] = key[c] /\ ask[b].box \subseteq ask[c].need /\ (ask[c].shapes => ask[b].shapes)

\* _find_inflight_build_locked: b's build will satisfy c's request.
Serves(b, c) ==
    key[b] = key[c] /\ ask[c].need \subseteq ask[b].box /\ (ask[c].shapes => ask[b].shapes)

\* Under _inflight_lock: wait for a build that serves, or register one's own
\* and go to the disk.
Join(c) ==
    /\ pc[c] = "joining"
    /\ \/ /\ \E b \in inflight : Serves(b, c) /\ builder' = [builder EXCEPT ![c] = b]
          /\ Goto(c, "waiting")
          /\ UNCHANGED <<inflight, todo>>
       \/ /\ \A b \in inflight : ~Serves(b, c)
          /\ inflight' = inflight \cup {c}
          /\ todo' = [todo EXCEPT ![c] = Listed(key[c])]
          /\ Goto(c, "disk")
          /\ UNCHANGED builder
    /\ UNCHANGED <<release, mem, ask, key, graph, file, unindexed, diskVars>>

\* After done.wait(): memory again, and back to the registry on a miss.
Wake(c) ==
    /\ pc[c] = "woken"
    /\ LookupHit(c, key[c], ask[c]) \/ LookupMiss(c, key[c], ask[c])
    /\ UNCHANGED <<release, inflight, ask, key, builder, lookupVars, diskVars>>

-----------------------------------------------------------------------------
(* _load_graph_from_disk.                                                  *)

\* _read_graph_disk_index: a sidecar counts only for a pickle of its size.
Sidecar(p) == IF index[p] # NoGraph /\ index[p].of = disk[p] THEN index[p].box ELSE NoGraph

\* A candidate's sidecar rules it out, or it has to be unpickled.  Which
\* candidate comes first only decides which of several fits is found.
Consult(c, p) ==
    /\ pc[c] = "disk"
    /\ p \in todo[c]
    /\ todo' = [todo EXCEPT ![c] = @ \ {p}]
    /\ IF Sidecar(p) # NoGraph /\ ((ask[c].shapes /\ ~p[3]) \/ ~(ask[c].need \subseteq Sidecar(p)))
       THEN UNCHANGED <<pc, file, unindexed>>
       ELSE /\ file' = [file EXCEPT ![c] = p]
            /\ unindexed' = [unindexed EXCEPT ![c] = Sidecar(p) = NoGraph]
            /\ Goto(c, "loading")
    /\ UNCHANGED <<release, mem, inflight, ask, key, builder, graph, diskVars>>

\* The lookup is over with p, and with the candidates rest.
Forget(c, rest) ==
    /\ todo' = [todo EXCEPT ![c] = rest]
    /\ file' = [file EXCEPT ![c] = NoPath]
    /\ unindexed' = [unindexed EXCEPT ![c] = FALSE]

\* _load_one_graph_file: unreadable, vanished or torn, and the next is tried.
Load(c) ==
    /\ pc[c] = "loading"
    /\ IF disk[file[c]] \in {NoGraph, Torn}
       THEN Goto(c, "disk") /\ Forget(c, todo[c]) /\ UNCHANGED graph
       ELSE Goto(c, "loaded") /\ Holds(c, disk[file[c]]) /\ UNCHANGED lookupVars
    /\ UNCHANGED <<release, mem, inflight, ask, key, builder, diskVars>>

\* _write_graph_disk_index: the size it pins is that of whatever pickle has
\* the name by now.
Described(p, box) ==
    IF disk[p] = NoGraph THEN index
    ELSE [index EXCEPT ![p] = [box |-> box, of |-> disk[p]]]

\* The sidecar's word taken for what the pickle holds.
CheckTrustsSidecar(c) ==
    /\ pc[c] = "loaded"
    /\ index' = IF unindexed[c] THEN Described(file[c], graph[c].box) ELSE index
    /\ IF unindexed[c] => Fits(graph[c], ask[c])
       THEN Goto(c, "storing") /\ Forget(c, {}) /\ UNCHANGED graph
       ELSE Goto(c, "disk") /\ Forget(c, todo[c]) /\ Holds(c, NoGraph)
    /\ UNCHANGED <<release, mem, inflight, ask, key, builder, tmp, disk>>

\* A pickle without a sidecar gets one; the graph itself decides.
Check(c) ==
    /\ pc[c] = "loaded"
    /\ index' = IF unindexed[c] THEN Described(file[c], graph[c].box) ELSE index
    /\ IF Fits(graph[c], ask[c])
       THEN Goto(c, "storing") /\ Forget(c, {}) /\ UNCHANGED graph
       ELSE Goto(c, "disk") /\ Forget(c, todo[c]) /\ Holds(c, NoGraph)
    /\ UNCHANGED <<release, mem, inflight, ask, key, builder, tmp, disk>>

\* No candidate is left, and a peek answers no.
NotOnDisk(c) ==
    /\ pc[c] = "disk"
    /\ todo[c] = {}
    /\ c \notin inflight
    /\ Goto(c, "returning")
    /\ UNCHANGED <<release, mem, inflight, ask, key, builder, graph, lookupVars, diskVars>>

-----------------------------------------------------------------------------
(* build_graph and _persist_graph_to_disk.                                 *)

\* What c builds, from the release that is active by the time it builds.
Built(c) == [box |-> ask[c].box, shapes |-> ask[c].shapes, built |-> release]
PathOf(c) == <<key[c], FileOf[ask[c].box], ask[c].shapes>>

BuildFails(c) ==
    /\ pc[c] = "disk"
    /\ todo[c] = {}
    /\ c \in inflight
    /\ Goto(c, "finishing")
    /\ UNCHANGED <<release, mem, inflight, ask, key, builder, graph, lookupVars, diskVars>>

\* The graph goes to disk unless it is empty or the cache is off: open(tmp, "wb"), under one
\* name for every writer of the pickle.
Build(c, persists) ==
    /\ pc[c] = "disk"
    /\ todo[c] = {}
    /\ c \in inflight
    /\ Holds(c, Built(c))
    /\ IF persists
       THEN tmp' = [tmp EXCEPT ![PathOf(c)] = @ \cup {c}] /\ Goto(c, "writing")
       ELSE UNCHANGED tmp /\ Goto(c, "storing")
    /\ UNCHANGED <<release, mem, inflight, ask, key, builder, lookupVars, disk, index>>

\* What the .tmp file of c's pickle may hold.
Written(c) == {graph[w] : w \in tmp[PathOf(c)]} \cup
              IF tmp[PathOf(c)] \subseteq {c} THEN {} ELSE {Torn}

\* os.replace: publishes whatever is under the tmp name, if anything is.  Of
\* two writers that have it open, one's bytes end up in the file, or both's.
Publish(c) ==
    /\ pc[c] = "writing"
    /\ IF tmp[PathOf(c)] = {}
       THEN Goto(c, "storing") /\ UNCHANGED disk
       ELSE /\ \E g \in Written(c) : disk' = [disk EXCEPT ![PathOf(c)] = g]
            /\ Goto(c, "indexing")
    /\ tmp' = [tmp EXCEPT ![PathOf(c)] = {}]
    /\ UNCHANGED <<release, mem, inflight, ask, key, builder, graph, lookupVars, index>>

\* The pickle could not be written: the tmp name is unlinked, whoever has it.
PersistFails(c) ==
    /\ pc[c] = "writing"
    /\ tmp' = [tmp EXCEPT ![PathOf(c)] = {}]
    /\ Goto(c, "storing")
    /\ UNCHANGED <<release, mem, inflight, ask, key, builder, graph, lookupVars, disk, index>>

\* The sidecar, and then _evict_disk_graphs: pickles and their sidecars over
\* the file cap.  Which are the oldest is left open.
IndexAndEvict(c) ==
    /\ pc[c] = "indexing"
    /\ \E stale \in SUBSET Listed(key[c]) :
          /\ Cardinality(Listed(key[c]) \ stale) <= MaxFiles
          /\ stale # {} => Cardinality(Listed(key[c]) \ stale) = MaxFiles
          /\ disk' = [p \in Path |-> IF p \in stale THEN NoGraph ELSE disk[p]]
          /\ index' = [p \in Path |-> IF p \in stale THEN NoGraph
                                     ELSE Described(PathOf(c), graph[c].box)[p]]
    /\ Goto(c, "storing")
    /\ UNCHANGED <<release, mem, inflight, ask, key, builder, graph, lookupVars, tmp>>

-----------------------------------------------------------------------------
(* The way out.                                                            *)

Store(c) ==
    /\ pc[c] = "storing"
    /\ mem' = Stored(key[c], graph[c])
    /\ Goto(c, "finishing")
    /\ UNCHANGED <<release, inflight, ask, key, builder, graph, lookupVars, diskVars>>

Waiting(c) == {w \in Call : pc[w] = "waiting" /\ builder[w] = c}

\* The caller has its graph, or the build's error.
Leave(c, woken) ==
    /\ pc' = [w \in Call |-> IF w = c THEN "idle" ELSE IF w \in woken THEN "woken" ELSE pc[w]]
    /\ Holds(c, NoGraph)
    /\ ask' = [ask EXCEPT ![c] = NoAsk]
    /\ key' = [key EXCEPT ![c] = 1]
    /\ builder' = [w \in Call |-> IF w = c \/ w \in woken THEN w ELSE builder[w]]
    /\ UNCHANGED <<release, mem, lookupVars, diskVars>>

\* Only a build that succeeded signals.
FinishOnSuccess(c) ==
    /\ pc[c] = "finishing"
    /\ inflight' = inflight \ {c}
    /\ Leave(c, IF graph[c] = NoGraph THEN {} ELSE Waiting(c))

\* `finally`: off the registry, and done.set() wakes the waiters.
Finish(c) ==
    /\ pc[c] = "finishing"
    /\ inflight' = inflight \ {c}
    /\ Leave(c, Waiting(c))

\* A graph from memory, or a peek that found none.
Return(c) ==
    /\ pc[c] = "returning"
    /\ Leave(c, {})
    /\ UNCHANGED inflight

-----------------------------------------------------------------------------
(* The environment.                                                        *)

\* release.py rolls the process over to a newer release.
RollOver ==
    /\ release < MaxRelease
    /\ release' = release + 1
    /\ UNCHANGED <<mem, inflight, pc, ask, key, builder, graph, lookupVars, diskVars>>

\* The process ends and a new one starts on the same cache directory.
Restart ==
    /\ mem' = {}
    /\ inflight' = {}
    /\ pc' = [c \in Call |-> "idle"]
    /\ ask' = [c \in Call |-> NoAsk]
    /\ key' = [c \in Call |-> 1]
    /\ builder' = [c \in Call |-> c]
    /\ graph' = [c \in Call |-> NoGraph]
    /\ todo' = [c \in Call |-> {}]
    /\ file' = [c \in Call |-> NoPath]
    /\ unindexed' = [c \in Call |-> FALSE]
    /\ tmp' = [p \in Path |-> {}]
    /\ UNCHANGED <<release, disk, index>>

-----------------------------------------------------------------------------
\* What a call does next without waiting for another.
Step(c) ==
    \/ Join(c) \/ Wake(c)
    \/ \E p \in Path : Consult(c, p)
    \/ Load(c) \/ Check(c) \/ NotOnDisk(c)
    \/ BuildFails(c)
    \/ \E persists \in BOOLEAN : Build(c, persists)
    \/ Publish(c) \/ PersistFails(c) \/ IndexAndEvict(c)
    \/ Store(c) \/ Finish(c) \/ Return(c)

Next ==
    \/ \E c \in Call :
          \/ \E a \in Ask : Start(c, a) \/ Peek(c, a)
          \/ Step(c)
    \/ RollOver
    \/ Restart

Spec == Init /\ [][Next]_vars

-----------------------------------------------------------------------------
TypeOK ==
    /\ release \in Release
    /\ IsOrder(mem, Held) /\ Held \subseteq Entry
    /\ IsFiniteSet(Held) /\ Cardinality(Held) <= MaxSize
    /\ inflight \subseteq Call
    /\ pc \in [Call -> PC]
    /\ ask \in [Call -> Ask \cup {NoAsk}]
    /\ key \in [Call -> Release]
    /\ builder \in [Call -> Call]
    /\ graph \in [Call -> Graph \cup {NoGraph}]
    /\ todo \in [Call -> SUBSET Path]
    /\ file \in [Call -> Path \cup {NoPath}]
    /\ unindexed \in [Call -> BOOLEAN]
    /\ tmp \in [Path -> SUBSET Call]
    /\ disk \in [Path -> Graph \cup {NoGraph, Torn}]
    /\ DOMAIN index = Path
    /\ \A p \in Path : index[p] # NoGraph => index[p].box \in Box

\* A path request is never handed a graph without shapes, nor any request one
\* that does not contain its box, although a pickle may be replaced between
\* the look at its sidecar and its loading, and a sidecar may describe a
\* pickle it was not written for.
AnswersFit ==
    \A c \in Call : pc[c] \in {"storing", "finishing", "returning"} /\ graph[c] # NoGraph =>
        Fits(graph[c], ask[c])

\* "one build per area at a time": of two builds in flight, at most one would
\* have served the other's caller: the one that came later and is wider.
OneBuildPerArea ==
    LET building(c) == [box |-> ask[c].box, shapes |-> ask[c].shapes]
    IN  \A b, c \in inflight : b # c /\ key[b] = key[c] =>
            ~(Fits(building(b), ask[c]) /\ Fits(building(c), ask[b]))

\* "so the area is not held twice": no graph in memory stands in for another.
NothingHeldTwice ==
    \A d, e \in Held : d # e /\ d.key = e.key => ~StandsIn(d.graph, e.graph)

\* A smaller graph never displaces a larger one: what leaves the memory is
\* stood in for by what remains, or was the oldest of a full LRU.
CoverageSurvives ==
    [][\A e \in Held :
          \/ \E d \in Held' : d.key = e.key /\ StandsIn(d.graph, e.graph)
          \/ Oldest(mem) = {e} /\ Cardinality(Held) = MaxSize
          \/ mem' = {}]_vars

\* No wake-up is lost and no two calls wait for each other: a call only waits
\* for a build that is registered, not for one that failed or is over, and the
\* call that builds waits for nobody.
WaitersHaveBuilder ==
    \A w \in Call : pc[w] = "waiting" =>
        builder[w] \in inflight /\ pc[builder[w]] # "waiting"

\* "the cache key (release, ...) matches exactly": a graph filed under a
\* release was built from it.
GraphsMatchTheirKey ==
    /\ \A e \in Held : e.graph.built = e.key
    /\ \A p \in Path : disk[p] \notin {NoGraph, Torn} => disk[p].built = p[1]
=============================================================================
