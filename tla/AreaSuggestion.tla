---------------------------- MODULE AreaSuggestion ----------------------------
(***************************************************************************)
(* Where within reach (suggest_areas of server.py, area_suggest.py,        *)
(* area_score.py and divisions_in_polygon of divisions.py): the reach of   *)
(* each anchor, what all of them share, the divisions that lie in it, and  *)
(* for each of them a score and a route from every anchor.  The plane is a *)
(* line of cells; a part of a shape is a run of them.                      *)
(***************************************************************************)
EXTENDS Integers, Sequences, FiniteSets, FiniteSetsExt, SequencesExt

CONSTANTS
    Question,       \* anchors, wishes, and the map they are about
    Cell, Place,    \* the cells of the line; what the divisions count
    MaxAnchors, MaxRequirements, MaxLimit,
    FetchFloor, MaxRows,    \* how many divisions are looked at for a limit
    MaxParts,       \* no more parts of a shared reach are searched
    Saturation, Radius,     \* more places, and farther ones, score no more
    Fine,           \* scores are rounded to so many parts of one
    MaxFaults, None

\* A graph reaches the cells of a shed or fails as it does; legs may.
Anchor == [shed : SUBSET Cell, how : {"ok", "no_graph_nearby", "radius_too_large"}, cached : BOOLEAN]
\* What a name resolves to, the places near its center and the way there from
\* each anchor.
Division == [id : STRING, cells : SUBSET Cell, known : BOOLEAN, has : [Place -> [count : Nat, near : Nat]], legs : Seq(STRING)]
Requirement == Place \cup {"subjective", "unmatched", None}
Asked ==
    [anchors : Seq(Anchor), requirements : Seq(Requirement), limit : Int, confirm : BOOLEAN, legsCached : BOOLEAN,
     degraded : BOOLEAN, divisions : SUBSET Division]
Assumptions ==
    /\ Cell \subseteq Nat /\ Question \subseteq Asked
    /\ \A q \in Question : \A d, e \in q.divisions : d.cells # {} /\ (d.id = e.id => d = e)
    /\ {MaxAnchors, MaxRequirements, MaxLimit, FetchFloor, MaxRows, MaxParts, Saturation, Radius, Fine} \subseteq Nat \ {0}
    /\ MaxFaults \in Nat

VARIABLES
    question, at,
    built,          \* the anchors whose reach graph this call built, and Leg
    sheds, parts,
    found,          \* the overlap of every division met so far
    candidates, scored, answer, faults

vars == <<question, at, built, sheds, parts, found, candidates, scored, answer, faults>>

Init ==
    /\ question \in Question /\ at = "asked"
    /\ built = {} /\ sheds = <<>> /\ parts = <<>> /\ found = <<>> /\ candidates = <<>> /\ scored = <<>>
    /\ answer = None /\ faults = 0

\* The graphs that a route of a leg builds.
Leg == 0

Answer(a) == answer' = a /\ at' = "answered"
Error(name) == [error |-> name]
Anchors == DOMAIN question.anchors
Limit == Max({1, Min({question.limit, MaxLimit})})
Fetch == Min({Max({3 * Limit, FetchFloor}), MaxRows})
Empty(note) == [results |-> <<>>, note |-> note]

\* Unless the caller agreed to wait, the graph of every anchor must be there
\* before any is built.
FirstCached == question.anchors[1].cached
AllCached == \A i \in Anchors : question.anchors[i].cached

Validate ==
    /\ at = "asked"
    /\ IF Len(question.anchors) \notin 1..MaxAnchors \/ question.requirements = <<>>
             \/ Len(question.requirements) > MaxRequirements \/ None \in ToSet(question.requirements)
       THEN Answer(Error("bad_request"))
       ELSE IF ~question.confirm /\ ~AllCached THEN Answer(Error("needs_confirm"))
       ELSE at' = "shed" /\ UNCHANGED answer
    /\ UNCHANGED <<question, built, sheds, parts, found, candidates, scored, faults>>

Isochrone ==
    /\ at = "shed" /\ Len(sheds) < Len(question.anchors)
    /\ LET i == Len(sheds) + 1
           anchor == question.anchors[i] IN
       /\ built' = IF anchor.cached THEN built ELSE built \cup {i}
       /\ IF anchor.how = "ok" THEN sheds' = Append(sheds, anchor.shed) /\ UNCHANGED <<at, answer>>
          ELSE Answer(Error(anchor.how)) /\ UNCHANGED sheds
    /\ UNCHANGED <<question, parts, found, candidates, scored, faults>>

\* A scan fails: of a reach, of the divisions, of a score; or a route does,
\* whose error nothing between here and the caller turns into an answer.
Fail ==
    /\ at \in {"shed", "divisions", "score"} /\ faults < MaxFaults /\ faults' = faults + 1
    /\ \/ \E name \in {"upstream_unavailable", "schema_degraded"} : Answer(Error(name))
       \/ at = "score" /\ Answer(Error("raised"))
    /\ UNCHANGED <<question, built, sheds, parts, found, candidates, scored>>

\* The runs of a set of cells, in their order.
Runs(S) ==
    LET runs == {a..b : a, b \in S}
        whole == {r \in runs : r # {} /\ r \subseteq S /\ Min(r) - 1 \notin S /\ Max(r) + 1 \notin S} IN
    SetToSortSeq(whole, LAMBDA r, t : Min(r) < Min(t))
Shared == {c \in Cell : \A i \in DOMAIN sheds : c \in sheds[i]}

\* One shed is taken as it is; several are intersected, which may fail on a
\* shape without an inside and then counts as no overlap.
IntersectSheds ==
    /\ at = "shed" /\ Len(sheds) = Len(question.anchors)
    /\ \E whole \in BOOLEAN :
          LET runs == Runs(Shared)
              shared == IF Len(sheds) = 1 THEN sheds ELSE IF whole THEN SubSeq(runs, 1, Min({MaxParts, Len(runs)})) ELSE <<>> IN
          /\ whole \/ (Len(sheds) > 1 /\ faults < MaxFaults)
          /\ faults' = faults + IF whole THEN 0 ELSE 1
          /\ parts' = shared
          /\ IF shared = <<>> THEN Answer(Empty("no overlap")) ELSE at' = "divisions" /\ UNCHANGED answer
    /\ UNCHANGED <<question, built, sheds, found, candidates, scored>>

\* How much of a division lies in a part, in parts of Fine, never zero for a
\* division that meets it.
Rounded(n, d) == (2 * n * Fine + d) \div (2 * d)
Overlap(d, part) == Max({1, Rounded(Cardinality(d.cells \cap part), Cardinality(d.cells))})

\* The most of a set of ids, largest overlap first.
Tops(overlap, n) ==
    LET ids == DOMAIN overlap
        size == Min({n, Cardinality(ids)}) IN
    {top \in [1..size -> ids] :
        /\ \A i, j \in 1..size : i < j => top[i] # top[j] /\ overlap[top[i]] >= overlap[top[j]]
        /\ \A id \in ids \ {top[i] : i \in 1..size} : \A i \in 1..size : overlap[top[i]] >= overlap[id]}
The(id) == CHOOSE d \in question.divisions : d.id = id

MergeLast(overlap) == [id \in DOMAIN found \cup DOMAIN overlap |-> IF id \in DOMAIN overlap THEN overlap[id] ELSE found[id]]

\* A division that meets several parts keeps its largest overlap.
Merge(overlap) ==
    [id \in DOMAIN found \cup DOMAIN overlap |->
        Max({f[id] : f \in {g \in {found, overlap} : id \in DOMAIN g}})]

DivisionsInPolygon ==
    /\ at = "divisions" /\ parts # <<>>
    /\ LET part == Head(parts)
           within == {d \in question.divisions : d.cells \cap part # {}}
           overlap == [id \in {d.id : d \in within} |-> Overlap(The(id), part)] IN
       \E top \in Tops(overlap, Fetch) :
          found' = Merge([id \in ToSet(top) |-> overlap[id]])
    /\ parts' = Tail(parts)
    /\ UNCHANGED <<question, at, built, sheds, candidates, scored, answer, faults>>

Candidates ==
    /\ at = "divisions" /\ parts = <<>>
    /\ IF DOMAIN found = {} THEN Answer(Empty("no divisions")) /\ UNCHANGED candidates
       ELSE (\E top \in Tops(found, Fetch) : candidates' = top) /\ at' = "score" /\ UNCHANGED answer
    /\ UNCHANGED <<question, built, sheds, parts, found, scored, faults>>

\* Half for how many there are, half for how near the nearest is.
RequirementScore(h) ==
    IF h.count = 0 THEN 0
    ELSE Rounded(Min({h.count, Saturation}) * Radius + Max({0, Radius - h.near}) * Saturation, 2 * Saturation * Radius)

Measurable == {i \in DOMAIN question.requirements : question.requirements[i] \in Place /\ ~question.degraded}
Scores(d) == [i \in Measurable |-> RequirementScore(d.has[question.requirements[i]])]
Overall(d) ==
    IF Measurable = {} THEN None
    ELSE LET sum == MapThenSumSet(LAMBDA i : Scores(d)[i], Measurable) IN
         (2 * sum + Cardinality(Measurable)) \div (2 * Cardinality(Measurable))

\* A leg that cannot be routed keeps its place with a note.
Travel(d) == [i \in Anchors |-> d.legs[i]]

\* A division that resolves to nothing is passed over.
ScoreLocality ==
    /\ at = "score" /\ candidates # <<>>
    /\ LET d == The(Head(candidates)) IN
       IF d.known
       THEN /\ scored' = Append(scored, [id |-> d.id, overlap |-> found[d.id], travel |-> Travel(d), overall |-> Overall(d)])
            /\ built' = IF question.legsCached THEN built ELSE built \cup {Leg}
       ELSE UNCHANGED <<scored, built>>
    /\ candidates' = Tail(candidates)
    /\ UNCHANGED <<question, at, sheds, parts, found, answer, faults>>

Key(r) == IF r.overall = None THEN -1 ELSE r.overall
\* By score, then by overlap, and of two alike the one that came first.
Ranked ==
    LET at1(r) == Min({k \in DOMAIN scored : scored[k] = r}) IN
    SetToSortSeq(ToSet(scored),
        LAMBDA r, t : \/ Key(r) > Key(t)
                      \/ Key(r) = Key(t) /\ r.overlap > t.overlap
                      \/ Key(r) = Key(t) /\ r.overlap = t.overlap /\ at1(r) < at1(t))

Finish ==
    /\ at = "score" /\ candidates = <<>>
    /\ Answer(IF scored = <<>> THEN Empty("none scored")
              ELSE [results |-> SubSeq(Ranked, 1, Min({Limit, Len(Ranked)})), note |-> None])
    /\ UNCHANGED <<question, built, sheds, parts, found, candidates, scored, faults>>

Next == Validate \/ Isochrone \/ Fail \/ IntersectSheds \/ DivisionsInPolygon \/ Candidates \/ ScoreLocality \/ Finish

Spec == Init /\ [][Next]_vars

-----------------------------------------------------------------------------

TypeOK ==
    /\ question \in Question /\ at \in {"asked", "shed", "divisions", "score", "answered"}
    /\ Len(sheds) <= Len(question.anchors) /\ Len(parts) <= MaxParts
    /\ DOMAIN found \subseteq {d.id : d \in question.divisions} /\ ToSet(candidates) \subseteq DOMAIN found
    /\ Len(scored) <= Fetch /\ faults \in 0..MaxFaults
    /\ (answer = None) = (at # "answered")

Suggested == at = "answered" /\ "results" \in DOMAIN answer
Results == ToSet(answer.results)
Common == {c \in Cell : \A i \in Anchors : c \in question.anchors[i].shed}

\* Whatever is suggested lies at least partly where every anchor reaches, and
\* as much of it as is told: what lies in the part that holds most of it.
ReachableByAll ==
    Suggested => \A r \in Results :
        LET d == The(r.id)
            shared == Cardinality(d.cells \cap Common) IN
        /\ shared > 0
        /\ r.overlap <= Max({1, Rounded(shared, Cardinality(d.cells))})
        /\ Len(Runs(Common)) <= MaxParts =>
              r.overlap = Max({Rounded(Cardinality(d.cells \cap run), Cardinality(d.cells)) : run \in ToSet(Runs(Common))} \cup {1})

\* The best of what was scored, best first; the ones that cannot be scored are
\* last.  As long as no list was cut on the way, nothing in reach that
\* resolves is better than the last one that is told.
BestAreTold ==
    Suggested =>
        /\ \A k, l \in DOMAIN answer.results : k < l =>
              \/ Key(answer.results[k]) > Key(answer.results[l])
              \/ Key(answer.results[k]) = Key(answer.results[l]) /\ answer.results[k].overlap >= answer.results[l].overlap
        /\ \A k, l \in DOMAIN answer.results : k # l => answer.results[k].id # answer.results[l].id
        /\ LET near == {d \in question.divisions : d.cells \cap Common # {}} IN
           faults = 0 /\ Cardinality(near) <= Fetch /\ Len(Runs(Common)) <= MaxParts =>
              \A d \in near : d.known /\ d.id \notin {r.id : r \in Results} =>
                  /\ Len(answer.results) = Limit
                  /\ \A r \in Results : Overall(d) # None => r.overall >= Overall(d)

\* Without the caller's word no reach graph is built; and when one anchor has
\* none, none is built for the others either.
NoReachUnasked ==
    /\ ~question.confirm => built \subseteq {Leg}
    /\ at = "answered" /\ answer = Error("needs_confirm") => built = {}

\* An empty answer tells which step came to nothing, and is right about it
\* unless that step failed.
EmptySaysWhy ==
    Suggested => \/ answer.note = None /\ answer.results # <<>>
                 \/ answer.note = "no overlap" /\ (Common = {} \/ faults > 0)
                 \/ answer.note = "no divisions" /\ (\A d \in question.divisions : d.cells \cap Common # {} => Len(Runs(Common)) > MaxParts)
                 \/ answer.note = "none scored" /\ \E d \in question.divisions : d.cells \cap Common # {} /\ ~d.known

AreasAreSuggested == ReachableByAll /\ BestAreTold /\ NoReachUnasked /\ EmptySaysWhy
=============================================================================
