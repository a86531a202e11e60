------------------------------ MODULE LandUse ------------------------------
(***************************************************************************)
(* land_use_at: the smallest polygon of land use and of land cover around  *)
(* a point, looked up side by side.  Land cover of an area whose tiles are *)
(* not on disk is answered from a coarse grid that comes with one release, *)
(* said to be approximate, while the tiles are fetched for later calls.    *)
(***************************************************************************)
EXTENDS Integers, FiniteSets, FiniteSetsExt

CONSTANTS
    Question,
    Name,           \* what land is called
    CandidateLimit, \* polygons that are read
    MaxCalls, MaxFaults, None

Type == {"land_use", "land_cover"}
\* A polygon around the point; twice, if it is in both tiles the point is next to.
Polygon == [no : Nat, known : BOOLEAN, area : Nat, called : Name, twice : BOOLEAN]
Assumptions ==
    /\ \A q \in Question :
        /\ q.around \in [Type -> SUBSET Polygon] /\ q.missing \in [Type -> SUBSET {"geometry", "id", "subtype"}]
        /\ \A t \in Type : \A p, r \in q.around[t] : p.no = r.no => p = r
        /\ {q.good, q.enabled, q.pinned, q.bundled} \subseteq BOOLEAN /\ q.cell \in Name \cup {None}
    /\ {CandidateLimit, MaxCalls} \subseteq Nat \ {0} /\ MaxFaults \in Nat

VARIABLES
    question, at, calls,
    bundled,          \* does the grid of the active release come with the code?
    tiles, wanted,    \* the types whose tiles are on disk, and are being fetched
    cell,             \* what the grid said: a name, that there is nothing, or None
    found,            \* what the two lookups found, or None
    warm,             \* were the tiles of land cover there when the call began?
    faults, answer

vars == <<question, at, calls, bundled, tiles, wanted, cell, found, warm, faults, answer>>

Nothing == [of |-> {}, overlap |-> FALSE]
Init ==
    /\ question \in Question /\ at = "asked" /\ calls = 1
    /\ bundled = question.bundled /\ tiles = {} /\ wanted = {} /\ cell = None /\ found = [t \in Type |-> None]
    /\ warm = FALSE /\ faults = 0 /\ answer = None

Answer(a) == answer' = a /\ at' = "answered"
Error(name) == Answer([error |-> name])

Check ==
    /\ at = "asked" /\ warm' = ("land_cover" \in tiles)
    /\ IF question.good THEN at' = "warm" /\ UNCHANGED answer ELSE Error("bad_request")
    /\ UNCHANGED <<question, calls, bundled, tiles, wanted, cell, found, faults>>

\* Without a cache there is nothing to become exact: the grid is not asked.
TilesWarm ==
    /\ at = "warm"
    /\ at' = (IF question.enabled /\ "land_cover" \notin tiles THEN "grid" ELSE "classify")
    /\ UNCHANGED <<question, calls, bundled, tiles, wanted, cell, found, warm, faults, answer>>
GridLandCover ==
    /\ at = "grid"
    /\ IF question.pinned \/ ~bundled THEN at' = "classify" /\ UNCHANGED <<cell, found>>
       ELSE \/ at' = "classify" /\ UNCHANGED <<cell, found>>
            \/ /\ at' = "schedule" /\ cell' = question.cell
               /\ found' = [found EXCEPT !["land_cover"] =
                              [of |-> IF question.cell = None THEN {} ELSE {question.cell}, overlap |-> FALSE]]
    /\ UNCHANGED <<question, calls, bundled, tiles, wanted, warm, faults, answer>>
\* The tiles of the area are fetched in the background; if that cannot be had,
\* the grid has answered.
ScheduleTiles ==
    /\ at = "schedule" /\ at' = "classify"
    /\ wanted' \in {wanted, wanted \cup ({"land_cover"} \ tiles)}
    /\ UNCHANGED <<question, calls, bundled, tiles, cell, found, warm, faults, answer>>

Copies(t, p) == IF p.twice /\ t \in tiles /\ ("id" \in question.missing[t] \/ ~p.known) THEN 2 ELSE 1
CalledBy(t, p) == IF "subtype" \in question.missing[t] THEN {} ELSE {p.called}
FirstRead(p, some) == TRUE
Smallest(p, some) == \A r \in some : p.area <= r[1].area
\* The smallest of the polygons that were read, which are any where there are
\* too many.
Classify(t) ==
    /\ at = "classify" /\ found[t] = None /\ "geometry" \notin question.missing[t]
    /\ LET all == UNION {{<<p, c>> : c \in 1 .. Copies(t, p)} : p \in question.around[t]} IN
       \E some \in kSubset(Min({CandidateLimit, Cardinality(all)}), all) :
           IF some = {} THEN found' = [found EXCEPT ![t] = Nothing]
           ELSE \E r \in some : /\ Smallest(r[1], some)
                                /\ found' = [found EXCEPT ![t] = [of |-> CalledBy(t, r[1]), overlap |-> Cardinality(some) > 1]]
    /\ wanted' = (IF question.enabled THEN wanted \cup ({t} \ tiles) ELSE wanted)
    /\ UNCHANGED <<question, at, calls, bundled, tiles, cell, warm, faults, answer>>
\* A lookup fails; the other one is waited for and lost.
Fail(t) ==
    /\ at = "classify" /\ found[t] = None
    /\ \/ "geometry" \in question.missing[t] /\ Error("schema_degraded")
       \/ "geometry" \notin question.missing[t] /\ Error("upstream_unavailable")
    /\ UNCHANGED <<question, calls, bundled, tiles, wanted, cell, found, warm, faults>>
Reply ==
    /\ at = "classify" /\ \A t \in Type : found[t] # None
    /\ Answer([use |-> found["land_use"].of, cover |-> found["land_cover"].of, degraded |-> UNION {question.missing[t] : t \in Type},
               notes |-> (IF cell # None THEN {"approximate"} ELSE {}) \cup {t \in Type : found[t].overlap}])
    /\ UNCHANGED <<question, calls, bundled, tiles, wanted, cell, found, warm, faults>>

AskAgain ==
    /\ at = "answered" /\ calls < MaxCalls
    /\ at' = "asked" /\ calls' = calls + 1 /\ cell' = None /\ found' = [t \in Type |-> None] /\ answer' = None
    /\ UNCHANGED <<question, bundled, tiles, wanted, warm, faults>>
TilesLand(t) ==
    /\ t \in wanted /\ wanted' = wanted \ {t} /\ tiles' = tiles \cup {t}
    /\ UNCHANGED <<question, at, calls, bundled, cell, found, warm, faults, answer>>
FetchFails(t) ==
    /\ t \in wanted /\ wanted' = wanted \ {t} /\ faults < MaxFaults /\ faults' = faults + 1
    /\ UNCHANGED <<question, at, calls, bundled, tiles, cell, found, warm, answer>>
\* The tiles of the area are evicted, or are those of an older release: then
\* the grid is, too.
Evict(t) ==
    /\ t \in tiles /\ tiles' = tiles \ {t} /\ faults < MaxFaults /\ faults' = faults + 1
    /\ UNCHANGED <<question, at, calls, bundled, wanted, cell, found, warm, answer>>
Rollover ==
    /\ faults < MaxFaults /\ ~question.pinned /\ faults' = faults + 1 /\ tiles' = {} /\ wanted' = {} /\ bundled' = FALSE
    /\ UNCHANGED <<question, at, calls, cell, found, warm, answer>>

Next ==
    \/ Check \/ TilesWarm \/ GridLandCover \/ ScheduleTiles \/ Reply \/ AskAgain \/ Rollover
    \/ \E t \in Type : Classify(t) \/ Fail(t) \/ TilesLand(t) \/ FetchFails(t) \/ Evict(t)
Spec == Init /\ [][Next]_vars

-----------------------------------------------------------------------------
TypeOK ==
    /\ question \in Question /\ at \in {"asked", "warm", "grid", "schedule", "classify", "answered"}
    /\ calls \in 1 .. MaxCalls /\ {bundled, warm} \subseteq BOOLEAN /\ tiles \cap wanted = {} /\ tiles \cup wanted \subseteq Type
    /\ cell \in Name \cup {None} /\ faults \in 0 .. MaxFaults /\ (at = "answered" <=> answer # None)

Answered == at = "answered" /\ "error" \notin DOMAIN answer
\* What the land is called by the polygons nobody would call more specific.
Right(t) ==
    LET least == {p \in question.around[t] : ~\E r \in question.around[t] : r.area < p.area} IN
    IF "subtype" \in question.missing[t] \/ least = {} THEN {{}} ELSE {{p.called} : p \in least}
\* May all polygons be read, each once?
Whole(t) ==
    Cardinality(question.around[t]) * (IF "id" \in question.missing[t] \/ \E p \in question.around[t] : ~p.known THEN 2 ELSE 1)
        <= CandidateLimit

\* A cell that is painted by what is at its centre may be absent where there
\* is land; nothing says that such an answer is a guess.
AbsentCell == question.enabled /\ question.bundled /\ question.cell = None /\ answer.cover = {}
\* What is not said to be approximate is exact.
ExactUnlessSaid ==
    Answered =>
        /\ Whole("land_use") => answer.use \in Right("land_use")
        /\ Whole("land_cover") /\ "approximate" \notin answer.notes => answer.cover \in Right("land_cover") \/ AbsentCell
        /\ "approximate" \in answer.notes => answer.cover = {question.cell}
\* Where the tiles were there when a call began, its answer is from polygons;
\* and so is every answer of who keeps no tiles or brings the data along.
TilesEndGuessing ==
    Answered =>
        LET guess == "approximate" \in answer.notes \/ (Whole("land_cover") /\ answer.cover \notin Right("land_cover")) IN
        guess => question.enabled /\ ~question.pinned /\ question.bundled /\ (warm => faults > 0)
\* Polygons are said to overlap where they do, and not for the sake of a tile's edge.
OverlapsAreTrue ==
    Answered =>
        \A t \in Type :
            LET many == Cardinality(question.around[t]) > 1
                told == "id" \notin question.missing[t] /\ \A p \in question.around[t] : p.known IN
            /\ told /\ t \in answer.notes => many
            /\ many /\ (t = "land_cover" => cell = None) /\ CandidateLimit > 1 =>
                   t \in answer.notes \/ (t = "land_cover" /\ question.cell = None)
LandIsTrue == ExactUnlessSaid /\ TilesEndGuessing /\ OverlapsAreTrue
=============================================================================
