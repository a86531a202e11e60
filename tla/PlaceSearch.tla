---------------------------- MODULE PlaceSearch ----------------------------
(***************************************************************************)
(* find_places of server.py over the queries of overture.py: around a      *)
(* point, in a division or in an area by name, narrowed by filters, by a   *)
(* reach of the street graph, merged into one list or in groups by         *)
(* category, with listings and map features of one place told apart.       *)
(* Places lie on a line with the centre at 0, numbered in the order of     *)
(* their names.  Following a cursor is in Paging.                          *)
(***************************************************************************)
EXTENDS Integers, Sequences, FiniteSets, FiniteSetsExt, SequencesExt

CONSTANTS
    Question,
    Kind,           \* the categories, in order
    Term,           \* what a category may be asked for as
    Within,         \* the terms that are part of a category's name
    Room,           \* rows that fit the token budget, by detail
    MaxSure, MaxRadius, DedupRadius, MaxCategories, MaxRows, MaxFaults, None

\* A listing, or a feature of the map that may be the same place; reached and
\* inside tell whether it lies in the reach and in the division.
Venue ==
    [id : Nat, x : Int, layer : BOOLEAN, kind : ToSet(Kind), also : SUBSET Term, sure : Nat \cup {None},
     site : BOOLEAN, spelled : {"literal", "alternate", "alike", "other", None}, reached : BOOLEAN, inside : BOOLEAN]
Reach == [form : {"good", "wrong"}, mode : BOOLEAN, of : {"point", "name", "unknown", None},
          cached : BOOLEAN, how : {"ok", "no_graph_nearby", "schema_degraded", "radius_too_large"}]
Page == [offset : Nat, old : BOOLEAN, fits : BOOLEAN]
Assumptions ==
    /\ \A q \in Question :
        /\ q.point \in {"good", "half", "bad", None} /\ q.where \in {"point", "name", "unknown", None}
        /\ q.division \in {"known", "unknown", None} /\ q.area \in {"known", "unknown", "ambiguous", "blank", None}
        /\ q.places \subseteq Venue /\ \A p, r \in q.places : p.id = r.id => p = r
        /\ q.within = None \/ q.within \in Reach
        /\ q.cursor = None \/ q.cursor \in Page
        /\ q.missing \subseteq {"names", "taxonomy", "basic", "confidence", "websites"}
        /\ {q.grouped, q.confirm, q.named, q.layered} \subseteq BOOLEAN
    /\ Within \in [ToSet(Kind) -> SUBSET Term]
    /\ "compact" \in DOMAIN Room /\ Room \in [DOMAIN Room -> Nat \ {0}]
    /\ {MaxRadius, MaxCategories, MaxRows} \subseteq Nat \ {0} /\ {MaxSure, DedupRadius, MaxFaults} \subseteq Nat

VARIABLES
    question, at,
    center, of,     \* whether the centre, and what the reach is of, were named
    cached, built, faults,
    answer

vars == <<question, at, center, of, cached, built, faults, answer>>

Init ==
    /\ question \in Question /\ at = "asked"
    /\ center = FALSE /\ of = FALSE
    /\ cached = (question.within # None /\ question.within.cached) /\ built = FALSE /\ faults = 0 /\ answer = None

Answer(a) == answer' = a /\ at' = "answered"
Error(name) == [error |-> name]

Given(arg) == arg # None
\* Is the search by the boundary of a division, whichever way it was named?
ByDivision == Given(question.division) \/ Given(question.area)
Modes ==
    Cardinality({m \in 1..3 : CASE m = 1 -> Given(question.point) \/ Given(question.where)
                                [] m = 2 -> Given(question.division) [] m = 3 -> Given(question.area)})
Malformed ==
    \/ Given(question.where) /\ Given(question.point)
    \/ Modes # 1
    \/ Given(question.detail) /\ question.detail \notin DOMAIN Room
    \/ Given(question.category) /\ question.categories # {}
    \/ Cardinality(question.categories) > MaxCategories
    \/ question.grouped /\ (question.categories = {} \/ Given(question.cursor))
Check ==
    /\ at = "asked"
    /\ IF Malformed THEN Answer(Error("bad_request")) ELSE at' = "center" /\ UNCHANGED answer
    /\ UNCHANGED <<question, center, of, cached, built, faults>>

ResolveCenter ==
    /\ at = "center"
    /\ IF question.where = "unknown"
       THEN \E e \in {"not_found", "ambiguous_place"} : Answer(Error(e)) /\ UNCHANGED center
       ELSE center' = (question.where = "name") /\ at' = "within" /\ UNCHANGED answer
    /\ UNCHANGED <<question, of, cached, built, faults>>

\* Of what the reach is, where it is not told: of the centre.
ReadWithin ==
    /\ at = "within"
    /\ LET w == question.within IN
       \/ ~Given(w) /\ at' = "cursor" /\ UNCHANGED <<of, answer>>
       \/ Given(w) /\ w.form = "wrong" /\ Answer(Error("bad_request")) /\ UNCHANGED of
       \/ Given(w) /\ w.form = "good" /\ ~w.mode /\ Answer(Error("unsupported_mode")) /\ UNCHANGED of
       \/ /\ Given(w) /\ w.form = "good" /\ w.mode
          /\ \/ w.of = "unknown" /\ (\E e \in {"not_found", "ambiguous_place"} : Answer(Error(e))) /\ UNCHANGED of
             \/ w.of = None /\ (ByDivision \/ question.point \in {"half", "bad"}) /\ Answer(Error("bad_request")) /\ UNCHANGED of
             \/ /\ w.of \in {"point", "name"} \/ (w.of = None /\ ~ByDivision /\ question.point \notin {"half", "bad"})
                /\ of' = (w.of = "name") /\ at' = "cursor" /\ UNCHANGED answer
    /\ UNCHANGED <<question, center, cached, built, faults>>

ReadCursor ==
    /\ at = "cursor"
    /\ IF Given(question.cursor) /\ ~question.cursor.fits THEN Answer(Error("bad_cursor"))
       ELSE at' = (IF Given(question.within) THEN "gate" ELSE "area") /\ UNCHANGED answer
    /\ UNCHANGED <<question, center, of, cached, built, faults>>
Offset == IF Given(question.cursor) THEN question.cursor.offset ELSE 0

Gate ==
    /\ at = "gate"
    /\ IF ~cached /\ ~question.confirm THEN Answer(Error("needs_confirm")) ELSE at' = "reach" /\ UNCHANGED answer
    /\ UNCHANGED <<question, center, of, cached, built, faults>>
Isochrone ==
    /\ at = "reach"
    /\ built' = ~cached /\ cached' = TRUE
    /\ IF question.within.how = "ok" THEN at' = "area" /\ UNCHANGED answer ELSE Answer(Error(question.within.how))
    /\ UNCHANGED <<question, center, of, faults>>
\* Other calls push the graph out of the cache.
Evict ==
    /\ at \in {"center", "within", "cursor", "gate", "reach"} /\ cached /\ faults < MaxFaults
    /\ cached' = FALSE /\ faults' = faults + 1
    /\ UNCHANGED <<question, at, center, of, built, answer>>

FindArea ==
    /\ at = "area"
    /\ \/ question.area = "blank" /\ Answer(Error("bad_request"))
       \/ question.area = "ambiguous" /\ Answer(Error("ambiguous_area"))
       \/ "unknown" \in {question.area, question.division} /\ Answer(Error("not_found"))
       \/ /\ question.area \in {"known", None} /\ question.division \in {"known", None}
          /\ IF ~ByDivision /\ question.point \in {"half", "bad"} THEN Answer(Error("bad_request"))
             ELSE at' = "scan" /\ UNCHANGED answer
    /\ UNCHANGED <<question, center, of, cached, built, faults>>

Has(column) == column \notin question.missing
Apart(a, b) == IF a > b THEN a - b ELSE b - a
InRegion(p) ==
    IF ByDivision THEN p.inside /\ (Given(question.within) => p.reached)
    ELSE IF Given(question.within) THEN p.reached
    ELSE Apart(p.x, 0) <= Min({question.radius, MaxRadius})
\* A feature of the map needs no name.
NameFilter(p) == Has("names") => p.spelled # None \/ p.layer
Terms == question.categories \cup ({question.category} \ {None})
CategoryFilter(p) ==
    Terms # {} /\ (Has("basic") \/ Has("taxonomy")) =>
        \E t \in Terms : t \in Within[p.kind] \/ (Has("taxonomy") /\ t \in p.also)
AttributeFilter(p) ==
    Given(question.least) /\ Has("confidence") => p.sure # None /\ p.sure >= question.least
PresenceFilter(p) == Given(question.site) /\ Has("websites") => p.site = question.site
Places == {p \in question.places : p.layer => question.layered}
Base ==
    {p \in Places : InRegion(p) /\ NameFilter(p) /\ CategoryFilter(p) /\ AttributeFilter(p) /\ PresenceFilter(p)}
KeepDoubles(some) == some
\* A feature is dropped where a listing of its category is near it.
DedupRows(some) ==
    {p \in some : ~(p.layer /\ \E q \in some : ~q.layer /\ q.kind = p.kind /\ Apart(q.x, p.x) <= DedupRadius)}
Literal == {p \in Base : question.named /\ Has("names") => p.spelled = "literal"}

Limit == Max({1, Min({question.limit, MaxRows})})
Nearer(p, q) == Apart(p.x, 0) < Apart(q.x, 0) \/ (Apart(p.x, 0) = Apart(q.x, 0) /\ p.id < q.id)
Rank(p, q) == IF ByDivision THEN p.id < q.id ELSE Nearer(p, q)
\* One row more than asked for, to see whether there are more.
Fetch == Min({Limit + 1, MaxRows})
FindPlaces == LET all == SetToSortSeq(DedupRows(Literal), Rank) IN
    SubSeq(all, Offset + 1, Min({Offset + Fetch, Len(all)}))
FallsBackAnywhere(rows) == rows = <<>> /\ question.named /\ Has("names") /\ ~ByDivision
FallsBack(rows) == rows = <<>> /\ question.named /\ Has("names") /\ ~ByDivision /\ Offset = 0
\* First those whose other names are what was asked for, then those alike; of
\* two at one distance either may come first.
NameFallback(lower) ==
    LET some(how) == {p \in DedupRows(Base) : p.spelled = how}
        tier == IF some("alternate") # {} THEN some("alternate") ELSE some("alike")
        all == SetToSortSeq(tier, LAMBDA p, q : Apart(p.x, 0) < Apart(q.x, 0)
                                     \/ (Apart(p.x, 0) = Apart(q.x, 0) /\ (p.id < q.id) = lower)) IN
    SubSeq(all, 1, Min({Fetch, Len(all)}))

\* The nearest of each category, one category after the other.
Group(kind) == LET all == SetToSortSeq({p \in DedupRows(Literal) : p.kind = kind}, Rank) IN
    SubSeq(all, 1, Min({Limit, Len(all)}))
FindGroups ==
    IF Has("taxonomy") THEN FoldLeft(LAMBDA rows, kind : rows \o Group(kind), <<>>, Kind)
    ELSE LET all == SetToSortSeq(DedupRows(Literal), Rank) IN SubSeq(all, 1, Min({Limit, Len(all)}))

Fitting == Room[IF Given(question.detail) THEN question.detail ELSE "compact"]
Ids(rows) == [i \in DOMAIN rows |-> rows[i].id]
Notes(rows, fallback) ==
    (IF fallback /\ rows # <<>> THEN {"spelling"} ELSE {}) \cup (IF Terms # {} /\ rows = <<>> THEN {"category"} ELSE {})
        \cup (IF Given(question.within) THEN {"reach"} ELSE {}) \cup (IF center /\ of THEN {"of"} ELSE {})
        \cup (IF Given(question.cursor) /\ question.cursor.old THEN {"shifted"} ELSE {})
Resolved == IF center THEN "center" ELSE IF of THEN "of" ELSE None
Fail ==
    /\ at = "scan"
    /\ \/ Given(question.least) /\ question.least > MaxSure /\ Answer(Error("bad_request"))
       \/ ~(Given(question.least) /\ question.least > MaxSure) /\ Answer(Error("upstream_unavailable"))
    /\ UNCHANGED <<question, center, of, cached, built, faults>>
Scan ==
    /\ at = "scan" /\ ~question.grouped /\ ~(Given(question.least) /\ question.least > MaxSure)
    /\ \E lower \in BOOLEAN :
        LET fallback == FallsBack(FindPlaces)
            rows == IF fallback THEN NameFallback(lower) ELSE FindPlaces
            kept == SubSeq(rows, 1, Min({Limit, Len(rows)}))
            list == SubSeq(kept, 1, Min({Fitting, Len(kept)}))
            corrected == fallback /\ rows # <<>>
            cut == Len(list) < Len(kept) \/ (Len(rows) > Limit /\ ~corrected) IN
        Answer([rows |-> Ids(list), truncated |-> cut, notes |-> Notes(kept, fallback), resolved |-> Resolved,
                cursor |-> IF cut /\ ~corrected THEN Offset + Len(list) ELSE None])
    /\ UNCHANGED <<question, center, of, cached, built, faults>>
ScanGrouped ==
    /\ at = "scan" /\ question.grouped /\ ~(Given(question.least) /\ question.least > MaxSure)
    /\ LET list == SubSeq(FindGroups, 1, Min({Fitting, Len(FindGroups)})) IN
       Answer([rows |-> Ids(list), truncated |-> Len(list) < Len(FindGroups), notes |-> Notes(list, FALSE),
               resolved |-> Resolved, cursor |-> None])
    /\ UNCHANGED <<question, center, of, cached, built, faults>>

Next ==
    \/ Check \/ ResolveCenter \/ ReadWithin \/ ReadCursor \/ Gate \/ Isochrone \/ Evict \/ FindArea
    \/ Fail \/ Scan \/ ScanGrouped
Spec == Init /\ [][Next]_vars

-----------------------------------------------------------------------------
TypeOK ==
    /\ question \in Question
    /\ at \in {"asked", "center", "within", "cursor", "gate", "reach", "area", "scan", "answered"}
    /\ {center, of, cached, built} \subseteq BOOLEAN /\ faults \in 0..MaxFaults /\ (at = "answered" <=> answer # None)

Answered == at = "answered" /\ "error" \notin DOMAIN answer
Place(id) == CHOOSE p \in question.places : p.id = id
Listed == {Place(answer.rows[i]) : i \in DOMAIN answer.rows}
\* A place that is where it was asked for, is what was asked for, and is as
\* known as was asked for, as far as the data can tell.
Meant(p) ==
    /\ ByDivision => p.inside
    /\ Given(question.within) => p.reached
    /\ ByDivision \/ Given(question.within) \/ Apart(p.x, 0) \in 0 .. Min({MaxRadius, question.radius})
    /\ Terms \cap (Within[p.kind] \cup p.also) # {} \/ Terms = {} \/ question.missing \cap {"taxonomy", "basic"} # {}
    /\ question.least \in {None, p.sure} \/ "confidence" \in question.missing \/ (p.sure # None /\ p.sure > question.least)
    /\ question.site \in {None, p.site} \/ "websites" \in question.missing
    /\ p.layer => question.layered
    /\ p.spelled = None => p.layer \/ "names" \in question.missing
Called(p) == Meant(p) /\ (question.named => p.spelled = "literal" \/ "names" \in question.missing)
\* A feature next to a listing that the same question finds, and of its category.
Doubled(p) == p.layer /\ \E q \in question.places : Called(q) /\ ~q.layer /\ q.kind = p.kind /\ Apart(p.x, q.x) <= DedupRadius

\* Each row is what was asked for, once, and is no second row of one place; a
\* row of another name is there only where no place of the name is, and told.
RowsAreMeant ==
    Answered =>
        /\ Cardinality(Listed) = Len(answer.rows)
        /\ \A p \in Listed : Meant(p)
        /\ "spelling" \notin answer.notes => \A p \in Listed : Called(p) /\ ~Doubled(p)
        /\ "spelling" \in answer.notes => ~ByDivision /\ \A p \in question.places : ~Called(p)
\* What is left out of a first page is told, and farther away than what is not;
\* where as many rows are asked for as a query gives, more cannot be seen.
WholeSchema == question.missing \cap {"taxonomy", "basic"} = {}
NothingIsHidden ==
    Answered /\ ~question.grouped /\ Offset = 0 /\ WholeSchema /\ "spelling" \notin answer.notes =>
        LET rest == {p \in question.places : Called(p) /\ ~Doubled(p)} \ Listed IN
        /\ rest # {} /\ Limit < MaxRows => answer.truncated
        /\ answer.truncated <=> Given(answer.cursor)
        /\ \A p \in rest, r \in Listed : ~ByDivision => Apart(r.x, 0) <= Apart(p.x, 0)
\* In groups, the category that is missing has no place, and that which has
\* fewer than asked for has no more, unless the answer is cut: then those at
\* its end are.
GroupsAreTrue ==
    Answered /\ question.grouped /\ WholeSchema =>
        LET Of(some, kind) == {p \in some : p.kind = kind}
            Found == {p \in question.places : Called(p) /\ ~Doubled(p)} IN
        \A i \in DOMAIN Kind :
            \/ Cardinality(Of(Listed, Kind[i])) = Min({Limit, Cardinality(Of(Found, Kind[i]))})
            \/ answer.truncated /\ \A j \in i + 1 .. Len(Kind) : Of(Listed, Kind[j]) = {}
\* That nothing matched is said when, and only when, nothing is listed; what
\* was resolved is told, of both where both were.
NotesAreTrue ==
    Answered =>
        /\ "category" \in answer.notes <=> Terms # {} /\ answer.rows = <<>>
        /\ question.where = "name" => answer.resolved = "center"
        /\ Given(question.within) => "reach" \in answer.notes
        /\ Given(question.within) /\ question.within.of = "name" => answer.resolved = "of" \/ "of" \in answer.notes
\* A graph is built only for a caller who was ready to wait, or whose graph was
\* lost after it had been found.
BuildsAreConfirmed == built => question.confirm \/ faults > 0
PlacesAreFound == RowsAreMeant /\ NothingIsHidden /\ GroupsAreTrue /\ NotesAreTrue /\ BuildsAreConfirmed
=============================================================================
