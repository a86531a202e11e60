--------------------------- MODULE NearbyFeatures ---------------------------
(***************************************************************************)
(* The nearest features of the base theme around a point: water_near,      *)
(* infrastructure_at and transit_stops_near, each a scan or two of one     *)
(* dataset and an answer that says how much of it is shown.  The dataset   *)
(* is read from tiles, where a feature that crosses an edge is twice, or   *)
(* from upstream; a new release may come between two steps of a call.      *)
(***************************************************************************)
EXTENDS Integers, Sequences, FiniteSets, FiniteSetsExt, SequencesExt

CONSTANTS
    Question,
    Subtype, Class,
    Within,            \* the terms that are part of the name of a subtype or a class
    KnownSubtype,      \* the subtypes the code knows of
    Stop, Fallback,    \* the classes of stops, and those taken where there is none
    MaxRadius, MaxRows, Room, MaxFaults, None

\* x is the distance to the closest point; a body that holds the point has an area.
Feature == [no : Nat, known : BOOLEAN, x : Nat, holds : BOOLEAN, area : Nat, wide : BOOLEAN,
            sub : Subtype \cup {None}, class : Class \cup {None}, named : BOOLEAN, twice : BOOLEAN]
Column == {"geometry", "id", "subtype", "class", "names"}
Assumptions ==
    /\ \A q \in Question :
        /\ q.theme \in {"water", "infrastructure", "transit"} /\ q.good \in BOOLEAN
        /\ q.features \subseteq Feature /\ \A f, g \in q.features : f.no = g.no => f = g
        /\ {q.missing, q.later} \subseteq SUBSET Column
    /\ Within \in [Subtype \cup Class -> SUBSET STRING] /\ KnownSubtype \subseteq Subtype
    /\ Stop \cup Fallback \subseteq Class /\ {MaxRadius, MaxRows, Room} \subseteq Nat \ {0} /\ MaxFaults \in Nat

VARIABLES
    question, at,
    missing,        \* columns the active release lacks
    seen,           \* those that were missing when the call looked
    tiled,          \* are tiles read?
    wanted,         \* the classes of stops that are looked for
    body, rows, total,
    faults, answer

vars == <<question, at, missing, seen, tiled, wanted, body, rows, total, faults, answer>>

Init ==
    /\ question \in Question /\ missing = question.missing /\ tiled \in BOOLEAN
    /\ at = "asked" /\ seen = {} /\ wanted = Stop /\ body = None /\ rows = <<>> /\ total = 0
    /\ faults = 0 /\ answer = None

Error(name) == answer' = [error |-> name] /\ at' = "answered"
Given(arg) == arg # None
Has(column) == column \notin seen

\* The two ways the data changes under a call.
TileLands ==
    /\ at \notin {"asked", "answered"} /\ ~tiled /\ tiled' = TRUE
    /\ UNCHANGED <<question, at, missing, seen, wanted, body, rows, total, faults, answer>>
Rollover ==
    /\ at \notin {"asked", "answered"} /\ faults < MaxFaults /\ missing # question.later
    /\ missing' = question.later /\ tiled' = FALSE /\ faults' = faults + 1
    /\ UNCHANGED <<question, at, seen, wanted, body, rows, total, answer>>

Check ==
    /\ at = "asked"
    /\ \/ ~question.good /\ Error("bad_request") /\ UNCHANGED wanted
       \/ question.good /\ Given(question.kind) /\ question.kind \notin Stop \cup Fallback
            /\ Error("bad_request") /\ UNCHANGED wanted
       \/ /\ question.good /\ (Given(question.kind) => question.kind \in Stop \cup Fallback)
          /\ wanted' = (IF Given(question.kind) THEN {question.kind} ELSE Stop)
          /\ at' = "schema" /\ UNCHANGED answer
    /\ UNCHANGED <<question, missing, seen, tiled, body, rows, total, faults>>

\* Without classes no stop can be told from anything else, and nothing is read.
ReadSchema ==
    /\ at = "schema" /\ seen' = missing
    /\ IF "geometry" \in missing THEN Error("schema_degraded")
       ELSE /\ at' = (IF question.theme = "water" THEN "body"
                      ELSE IF question.theme = "transit" /\ "class" \in missing THEN "reply" ELSE "scan")
            /\ UNCHANGED answer
    /\ UNCHANGED <<question, missing, tiled, wanted, body, rows, total, faults>>
Fail ==
    /\ at \in {"schema", "body", "scan"} /\ Error("upstream_unavailable")
    /\ UNCHANGED <<question, missing, seen, tiled, wanted, body, rows, total, faults>>

Generalized(f) ==
    \/ Has("subtype") /\ f.sub = "ocean"
    \/ Has("class") /\ f.class \in {"sea", "strait"} /\ f.wide
Matches(value, term) == value # None /\ term \in Within[value]
AttributeFilter(f) ==
    /\ Given(question.subtype) /\ Has("subtype") => Matches(f.sub, question.subtype)
    /\ Given(question.class) /\ Has("class") => Matches(f.class, question.class)
StopFilter(f) == f.class \in wanted /\ (Has("subtype") => f.sub = "transit")
OceanOnly ==
    LET matched == {s \in KnownSubtype : Given(question.subtype) /\ question.subtype \in Within[s]} IN matched = {"ocean"}

Named(f) == IF f.named /\ Has("names") THEN "name"
            ELSE IF Given(f.class) /\ Has("class") THEN "class" ELSE IF Given(f.sub) /\ Has("subtype") THEN "subtype" ELSE None
\* The smallest body around the point; a search for oceans ends here.
ContainingBody ==
    /\ at = "body"
    /\ LET some == {f \in question.features : f.holds} IN
       IF some = {} THEN UNCHANGED body
       ELSE \E f \in some : /\ \A g \in some : f.area <= g.area
                            /\ body' = [no |-> f.no, called |-> Named(f), generalized |-> Generalized(f)]
    /\ at' = (IF OceanOnly /\ Has("subtype") THEN "reply" ELSE "scan")
    /\ UNCHANGED <<question, missing, seen, tiled, wanted, rows, total, faults, answer>>

Limit == Max({1, Min({question.limit, MaxRows})})
InRange(f) == f.x <= Min({question.radius, MaxRadius})
EveryCopy(f) == IF f.twice /\ tiled THEN 2 ELSE 1
Copies(f) == IF f.twice /\ tiled /\ (~Has("id") \/ ~f.known) THEN 2 ELSE 1
Filters(f) ==
    CASE question.theme = "water" -> ~Generalized(f) /\ ~f.holds /\ AttributeFilter(f)
      [] question.theme = "infrastructure" -> AttributeFilter(f)
      [] question.theme = "transit" -> StopFilter(f)
\* Nearest first, one way or the other round where two are as near.
Before(a, b, lower) ==
    \/ a[1].x < b[1].x
    \/ a[1].x = b[1].x /\ (IF lower THEN a[1].no < b[1].no ELSE a[1].no > b[1].no)
    \/ a[1] = b[1] /\ a[2] < b[2]
Nearest(some, lower) ==
    [i \in 1 .. Min({Limit, Cardinality(some)}) |-> CHOOSE a \in some : Cardinality({b \in some : Before(b, a, lower)}) = i - 1]
AlwaysFallsBack == question.theme = "transit" /\ wanted = Stop
FallsBack == rows' = <<>> /\ question.theme = "transit" /\ ~Given(question.kind) /\ wanted = Stop
Scan ==
    /\ at = "scan"
    /\ LET some == UNION {{<<f, c>> : c \in 1 .. Copies(f)} : f \in {g \in question.features : Filters(g) /\ InRange(g)}} IN
       /\ \E lower \in BOOLEAN : LET list == Nearest(some, lower) IN rows' = [i \in DOMAIN list |-> list[i][1].no]
       /\ total' = Cardinality(some)
    /\ IF FallsBack THEN wanted' = Fallback /\ at' = "schema" ELSE at' = "reply" /\ UNCHANGED wanted
    /\ UNCHANGED <<question, missing, seen, tiled, body, faults, answer>>

Shown == SubSeq(rows, 1, Min({Room, Len(rows)}))
Trimmed == Len(Shown) < Len(rows)
Cut == total > Len(Shown)
ClassMissing == question.theme = "transit" /\ ~Has("class")
Plain == [rows |-> Shown, degraded |-> missing]
InfrastructureAnswer ==
    Plain @@ [truncated |-> Cut, total |-> IF Cut THEN total ELSE None, body |-> None,
     omitted |-> IF Cut THEN total - Len(Shown) ELSE None, notes |-> IF Cut THEN {"cut"} ELSE {}]
TransitAnswer ==
    Plain @@ [truncated |-> Cut, total |-> total, omitted |-> IF Cut THEN total - Len(Shown) ELSE None, body |-> None,
     notes |-> IF ClassMissing THEN {"no classes"}
               ELSE (IF wanted = Fallback /\ ~Given(question.kind) /\ rows # <<>> THEN {"fallback"}
                     ELSE IF Shown = <<>> THEN {"empty"} ELSE {}) \cup (IF Cut THEN {"cut"} ELSE {})]
\* The columns are looked at anew: a filter that was for oceans only may not
\* have been one for the scan.
WaterAnswer ==
    LET ocean == OceanOnly /\ "subtype" \notin missing
        empty == IF Given(question.subtype) \/ Given(question.class) THEN "no match" ELSE "empty" IN
    Plain @@ [truncated |-> Cut, total |-> total, body |-> body,
     omitted |-> IF Trimmed THEN Len(rows) - Len(Shown) ELSE None,
     notes |-> (IF ocean THEN {"oceans"} ELSE {}) \cup (IF Cut THEN {"cut"} ELSE {})
               \cup (IF Given(body) THEN {IF body.generalized THEN "on or near" ELSE "inside"} ELSE {})
               \cup (IF ~Cut /\ Shown = <<>> /\ ~Given(body) /\ ~ocean THEN {empty} ELSE {})]
Reply ==
    /\ at = "reply" /\ at' = "answered"
    /\ answer' = (CASE question.theme = "water" -> WaterAnswer [] question.theme = "transit" -> TransitAnswer
                    [] question.theme = "infrastructure" -> InfrastructureAnswer)
    /\ UNCHANGED <<question, missing, seen, tiled, wanted, body, rows, total, faults>>

Next ==
    TileLands \/ Rollover \/ Check \/ ReadSchema \/ Fail \/ ContainingBody \/ Scan \/ Reply
Spec == Init /\ [][Next]_vars

-----------------------------------------------------------------------------
TypeOK ==
    /\ question \in Question /\ at \in {"asked", "schema", "body", "scan", "reply", "answered"}
    /\ {missing, seen} \subseteq SUBSET Column /\ tiled \in BOOLEAN /\ wanted \subseteq Class
    /\ faults \in 0 .. MaxFaults /\ total \in Nat /\ (at = "answered" <=> answer # None)

Answered == at = "answered" /\ "error" \notin DOMAIN answer
Thing(no) == CHOOSE f \in question.features : f.no = no
Listed == {Thing(answer.rows[i]) : i \in DOMAIN answer.rows}
Near == {f \in question.features : f.x \in 0 .. Min({MaxRadius, question.radius})}
\* What was asked for: by the names, as far as they could be told; without the
\* bodies around the point and the waters whose edge is not the shore's.
Asked(f) ==
    LET told(column, value, term) == term = None \/ column \in seen \/ (value # None /\ term \in Within[value])
        marine == (f.sub = "ocean" /\ "subtype" \notin seen) \/ (f.wide /\ f.class \in {"sea", "strait"} /\ "class" \notin seen) IN
    IF question.theme = "transit" THEN "class" \notin seen /\ f.sub \in {"transit"} \cup (IF "subtype" \in seen THEN Subtype \cup {None} ELSE {})
    ELSE /\ told("subtype", f.sub, question.subtype) /\ told("class", f.class, question.class)
         /\ question.theme = "water" => ~f.holds /\ ~marine
Stops(classes) == {f \in Near : Asked(f) /\ f.class \in classes}
Wanted ==
    IF question.theme # "transit" THEN {f \in Near : Asked(f)}
    ELSE IF question.kind # None THEN Stops({question.kind}) ELSE IF Stops(Stop) # {} THEN Stops(Stop) ELSE Stops(Fallback)
\* Can each feature be known from its id, so that its copies are?
Told == "id" \notin seen /\ \A f \in question.features : f.known

\* The rows are the nearest of what was asked for; the count is of all of it,
\* each once, and an answer that is cut says so and how much it leaves out.
RowsAreNearest ==
    Answered /\ faults = 0 =>
        /\ Listed \subseteq Wanted
        /\ \A i, j \in DOMAIN answer.rows : i < j => Thing(answer.rows[i]).x <= Thing(answer.rows[j]).x
        /\ \A f \in Wanted \ Listed, g \in Listed : g.x <= f.x
        /\ Listed = {} => Wanted = {}
CountsAreTrue ==
    Answered /\ Told /\ faults = 0 =>
        LET left == Cardinality(Wanted) - Len(answer.rows) IN
        /\ Cardinality(Listed) = Len(answer.rows)
        /\ answer.total \in {Cardinality(Wanted)} \cup (IF left = 0 THEN {None} ELSE {})
        /\ answer.truncated <=> left > 0
        /\ question.theme # "water" => answer.omitted = IF left > 0 THEN left ELSE None
\* That there is no water is said of no point in water, nor where rows are or
\* a filter left something out; and no water around the point is a row.
WaterIsHonest ==
    Answered /\ question.theme = "water" =>
        LET around == {f \in question.features : f.holds} IN
        /\ answer.body # None <=> around # {}
        /\ answer.body # None => \A f \in around : Thing(answer.body.no).area <= f.area
        /\ Listed \cap around = {}
        /\ "empty" \in answer.notes => question.subtype = None /\ question.class = None /\ answer.rows = <<>> /\ around = {}
        /\ "empty" \in answer.notes => \A f \in Near : f.sub = "ocean" \/ f.class \in {"sea", "strait"}
        /\ faults = 0 /\ "oceans" \in answer.notes => answer.rows = <<>>
\* What is no stop is listed only where no stop is, and told.
TransitIsHonest ==
    Answered /\ question.theme = "transit" /\ question.kind = None /\ faults = 0 =>
        /\ "fallback" \in answer.notes <=> \E f \in Listed : f.class \in Fallback
        /\ "fallback" \in answer.notes => Stops(Stop) = {}
        /\ "empty" \in answer.notes => Stops(Stop) \cup Stops(Fallback) = {}
        /\ Listed = {} => answer.notes \cap {"empty", "no classes"} # {}
FeaturesAreNear == RowsAreNearest /\ CountsAreTrue /\ WaterIsHonest /\ TransitIsHonest
=============================================================================
