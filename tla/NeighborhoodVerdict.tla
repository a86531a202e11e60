-------------------------- MODULE NeighborhoodVerdict --------------------------
(***************************************************************************)
(* Should I live here (verdict.py and the neighborhood_verdict tool of     *)
(* server.py): a context is read into needs and a budget; one scan of the  *)
(* places, one reach, and for transit a look at the stops, make a          *)
(* checklist of what is covered.  A unit of speed goes a unit of distance  *)
(* in a unit of time.                                                      *)
(***************************************************************************)
EXTENDS Integers, Sequences, FiniteSets, FiniteSetsExt, SequencesExt

CONSTANTS
    Question,       \* a context with its overrides, and the map it is about
    Need, Daily,    \* what may be needed, and what everybody needs
    Triggers,       \* words, in order, and the need they add
    HouseholdOf,    \* what a word says of the household
    Speed, CapOf,   \* of a mode: how fast it is, and its widest reach
    Minutes, Buffer,    \* the time that is assumed; how much wider a scan is
    MaxChecklist, MaxPlaces,
    MaxFaults, None

Mode == {"walk", "cycle", "drive"}
Word == DOMAIN HouseholdOf
\* A place is shown under some needs, and found by a query for others as well.
Site == [id : Nat, of : SUBSET Need, found : SUBSET Need, distance : Nat]
Asked ==
    [words : SUBSET Word, mode : Mode \cup {None, "fly"}, minutes : Int \cup {None}, radius : Int \cup {None},
     places : SUBSET Site, degraded : BOOLEAN, stop : Nat \cup {None}, reach : Nat \cup {None}]
Assumptions ==
    /\ \A q \in Question : q \in Asked /\ \A p, r \in q.places : p.id = r.id => p = r
    /\ ToSet(Daily) \subseteq Need /\ "transit" \in Need
    /\ \A i \in DOMAIN Triggers : Triggers[i].words \subseteq Word /\ Triggers[i].need \in Need
    /\ \A m \in Mode : {Speed[m], CapOf[m]} \subseteq Nat \ {0}
    /\ {Minutes, Buffer, MaxChecklist, MaxPlaces} \subseteq Nat \ {0} /\ MaxFaults \in Nat

VARIABLES
    question, at,
    rows,           \* the places of the one scan, nearest first
    reach,          \* how far the street graph goes; None without one
    checklist, notes, answer, faults

vars == <<question, at, rows, reach, checklist, notes, answer, faults>>

Init ==
    /\ question \in Question /\ at = "asked"
    /\ rows = <<>> /\ reach = None /\ checklist = <<>> /\ notes = {} /\ answer = None /\ faults = 0

Answer(a) == answer' = a /\ at' = "answered"
Error(name) == [error |-> name]

\* The daily needs, and those that the context adds, up to the cap.
Needs ==
    LET added == FoldLeft(LAMBDA needs, t : IF t.words \cap question.words # {} /\ t.need \notin ToSet(needs)
                                            THEN Append(needs, t.need) ELSE needs, Daily, Triggers) IN
    SubSeq(added, 1, Min({MaxChecklist, Len(added)}))
Household == {HouseholdOf[w] : w \in question.words} \ {None}

\* Whoever says to have no car is not read as driving for the word.
Mobility ==
    IF "no car" \in question.words THEN "walk"
    ELSE IF "bike" \in question.words THEN "cycle"
    ELSE IF "car" \in question.words THEN "drive"
    ELSE "walk"
ModeOf == IF question.mode = None THEN Mobility ELSE question.mode
MinutesOf == IF question.minutes = None THEN Minutes ELSE question.minutes
Radius ==
    IF question.radius # None THEN question.radius
    ELSE Min({MinutesOf * Speed[ModeOf] * Buffer, CapOf[ModeOf]})

DeriveBudget ==
    /\ at = "asked"
    /\ IF ModeOf \notin Mode THEN Answer(Error("unsupported_mode"))
       ELSE IF MinutesOf <= 0 \/ Radius < 0 THEN Answer(Error("bad_request"))
       ELSE IF Radius > CapOf[ModeOf] THEN Answer(Error("radius_too_large"))
       ELSE at' = "places" /\ UNCHANGED answer
    /\ UNCHANGED <<question, rows, reach, checklist, notes, faults>>

\* Every place that is found for one of the needs, nearest first and no more
\* than the cap for all of them; where the dataset has no categories, every
\* place.
Candidates ==
    {p \in question.places : p.distance <= Radius /\ (question.degraded \/ p.found \cap ToSet(Needs) # {})}
Scans ==
    {s \in SetToAllKPermutations(Candidates) :
        /\ Len(s) = Min({MaxPlaces, Cardinality(Candidates)})
        /\ \A i, j \in DOMAIN s : i < j => s[i].distance <= s[j].distance
        /\ \A p \in Candidates \ ToSet(s), i \in DOMAIN s : s[i].distance <= p.distance}

ScanPlaces ==
    /\ at = "places"
    /\ rows' \in Scans /\ at' = "reach"
    /\ UNCHANGED <<question, reach, checklist, notes, answer, faults>>

\* No street graph is a note; any other failure of the reach, and any of the
\* scans before it, is an error.
Isochrone ==
    /\ at = "reach" /\ at' = "needs"
    /\ reach' = question.reach
    /\ notes' = notes \cup (IF question.reach = None THEN {"straight line"} ELSE {})
    /\ UNCHANGED <<question, rows, checklist, answer, faults>>
Fail ==
    /\ at \in {"places", "reach"} /\ faults < MaxFaults /\ faults' = faults + 1
    /\ \E name \in {"upstream_unavailable", "schema_degraded"} : Answer(Error(name))
    /\ UNCHANGED <<question, rows, reach, checklist, notes>>

\* What is shown under the need, or below it; not what is only found for it,
\* and nothing at all where no categories are shown.
NearestForNeed(need) ==
    LET ones == {i \in DOMAIN rows : need \in rows[i].of /\ ~question.degraded} IN
    IF ones = {} THEN None ELSE rows[Min(ones)].distance
StopInRange == IF question.stop = None \/ question.stop > Radius THEN None ELSE question.stop
NearestOf(a, b) == IF a = None THEN b ELSE IF b = None THEN a ELSE Min({a, b})

WithinScan(distance) == distance <= Radius
WithinTime(distance) == distance <= MinutesOf * Speed[ModeOf]
StatusInTime(distance) == IF distance = None THEN "unknown" ELSE IF WithinTime(distance) THEN "covered" ELSE "weak"

\* A place beyond what the graph reaches is not covered.
Status(distance) ==
    IF StatusInTime(distance) = "covered" /\ reach # None /\ distance > reach THEN "weak" ELSE StatusInTime(distance)
Row(need, nearest) == [need |-> need, nearest |-> nearest, status |-> Status(nearest)]

\* The stops may be out of reach of the scan; transit is then told from the
\* places alone.
ScoreNeed ==
    /\ at = "needs" /\ Len(checklist) < Len(Needs)
    /\ LET need == Needs[Len(checklist) + 1]
           nearest == NearestForNeed(need) IN
       \/ /\ checklist' = Append(checklist, Row(need, IF need = "transit" THEN NearestOf(nearest, StopInRange) ELSE nearest))
          /\ UNCHANGED <<notes, faults>>
       \/ /\ need = "transit" /\ faults < MaxFaults /\ faults' = faults + 1
          /\ notes' = notes \cup {"no base layer"}
          /\ checklist' = Append(checklist, Row(need, nearest))
    /\ UNCHANGED <<question, at, rows, reach, answer>>

Uncovered == SelectSeq(checklist, LAMBDA r : r.status # "covered")
Covered == SelectSeq(checklist, LAMBDA r : r.status = "covered")
IsGap(need) == \E i \in DOMAIN Uncovered : Uncovered[i].need = need
FarthestWeak ==
    LET weak == SelectSeq(Uncovered, LAMBDA r : r.status = "weak")
        most == Max({weak[i].nearest : i \in DOMAIN weak}) IN
    IF weak = <<>> THEN None ELSE weak[Min({i \in DOMAIN weak : weak[i].nearest = most})].need

\* What to look at in person: a gap of the household first, or of the mode;
\* else the farthest, else the first of which nothing is known.
VerifyInPerson ==
    IF Household \cap {"toddler", "infant"} # {} /\ IsGap("playground") THEN "playground"
    ELSE IF ModeOf = "walk" /\ IsGap("transit") THEN "transit"
    ELSE IF "child" \in Household /\ IsGap("school") THEN "school"
    ELSE IF FarthestWeak # None THEN FarthestWeak
    ELSE IF Uncovered # <<>> THEN Uncovered[1].need
    ELSE "the block"

Judge ==
    /\ at = "needs" /\ Len(checklist) = Len(Needs)
    /\ Answer([strengths |-> Covered, weak |-> Uncovered, verify |-> VerifyInPerson, checklist |-> checklist, note |-> notes])
    /\ UNCHANGED <<question, rows, reach, checklist, notes, faults>>

Next == DeriveBudget \/ ScanPlaces \/ Isochrone \/ Fail \/ ScoreNeed \/ Judge

Spec == Init /\ [][Next]_vars

-----------------------------------------------------------------------------

TypeOK ==
    /\ question \in Question /\ at \in {"asked", "places", "reach", "needs", "answered"}
    /\ Len(rows) <= MaxPlaces /\ ToSet(rows) \subseteq question.places
    /\ Len(checklist) <= MaxChecklist /\ notes \subseteq {"straight line", "no base layer"}
    /\ faults \in 0..MaxFaults
    /\ (answer = None) = (at # "answered")

Judged == at = "answered" /\ "checklist" \in DOMAIN answer

\* What really is near for a need: a place that is shown under it and, for
\* transit, a stop.
Near(need) ==
    {p.distance : p \in {s \in question.places : need \in s.of /\ s.distance <= Radius}}
        \cup (IF need = "transit" /\ "no base layer" \notin answer.note /\ question.stop # None /\ question.stop <= Radius
              THEN {question.stop} ELSE {})
Crowd(need) == {p \in Candidates : need \notin p.of}

\* The nearest that is told is the nearest there is, although one scan serves
\* all needs.  Nothing is told only when nothing is in range, or when the scan
\* was full of places that have nothing to do with the need.
NearestIsNearest ==
    Judged => \A i \in DOMAIN answer.checklist :
        LET r == answer.checklist[i] IN
        ~question.degraded /\ (\A p \in question.places : p.of \subseteq p.found) =>
            /\ r.nearest # None =>
                  r.nearest \in Near(r.need) /\ (r.nearest = Min(Near(r.need)) \/ Cardinality(Crowd(r.need)) >= MaxPlaces)
            /\ r.nearest = None => Near(r.need) = {} \/ Cardinality(Crowd(r.need)) >= MaxPlaces
            /\ r.status = "unknown" <=> r.nearest = None

\* Covered is what is near enough in time and, with a street graph, within its
\* reach; without one the answer says so.
CoveredIsReached ==
    Judged =>
        /\ \A i \in DOMAIN answer.strengths :
              LET d == answer.strengths[i].nearest IN
              d <= MinutesOf * Speed[ModeOf] /\ (question.reach # None => d <= question.reach)
        /\ question.reach = None <=> "straight line" \in answer.note
        /\ \A i \in DOMAIN answer.weak :
              LET d == answer.weak[i].nearest IN
              d = None \/ d > MinutesOf * Speed[ModeOf] \/ (question.reach # None /\ d > question.reach)

\* Every need is either a strength or a weak point, the daily ones always
\* among them; what is to be verified is a gap as long as there is one.
EveryNeedIsTold ==
    Judged =>
        LET told == {answer.strengths[i].need : i \in DOMAIN answer.strengths}
            gaps == {answer.weak[i].need : i \in DOMAIN answer.weak} IN
        /\ told \cap gaps = {} /\ told \cup gaps = ToSet(Needs)
        /\ ToSet(Daily) \subseteq told \cup gaps
        /\ IF gaps = {} THEN answer.verify = "the block" ELSE answer.verify \in gaps

\* A stop layer that fails takes nothing away but the stops, and says so.
StopsDegrade ==
    Judged =>
        /\ "no base layer" \in answer.note => "transit" \in ToSet(Needs) /\ faults > 0
        /\ \A i \in DOMAIN answer.checklist :
              answer.checklist[i].need = "transit" /\ answer.checklist[i].nearest = None /\ question.stop # None /\ question.stop <= Radius
                  => "no base layer" \in answer.note

VerdictIsFair == NearestIsNearest /\ CoveredIsReached /\ EveryNeedIsTold /\ StopsDegrade
=============================================================================
