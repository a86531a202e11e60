---------------------------- MODULE ListingClaims ----------------------------
(***************************************************************************)
(* Grading the claims of a listing against the map (claims.py, and the     *)
(* verify_claims tool of server.py): each claim is measured by a scan of   *)
(* the places around, a travel-time claim also by a route, in the order    *)
(* they were given; one failure fails the call.  A unit of distance is     *)
(* walked in a unit of time.                                               *)
(***************************************************************************)
EXTENDS Integers, Sequences, FiniteSets, FiniteSetsExt, SequencesExt

CONSTANTS
    Question,        \* the claims and the places they are about
    MinSearch,       \* no search is narrower
    RouteCap,        \* the widest street graph of the mode
    CountCap, DistanceCap,   \* the widest search of a count and of a distance
    MaxRows, MaxCandidates,  \* the most places a scan answers
    MaxClaims, MaxTravelClaims,
    MaxFaults, None

\* A place by the categories it is of and those its own contain as text, the
\* names it contains and those it resembles, and the way there.
Way == [how : {"ok", "no_graph", "no_route"}, time : Nat, truncated : BOOLEAN]
Venue == [id : Nat, of : SUBSET STRING, like : SUBSET STRING, named : SUBSET STRING, similar : SUBSET STRING, distance : Nat, way : Way]
Claim ==
    [kind : {"travel_time", "count_nearby", "distance", None}, category : STRING \cup {None}, name : STRING \cup {None},
     claimed : Int \cup {None}, radius : Int]
Asked == [claims : Seq(Claim), places : SUBSET Venue, degraded : BOOLEAN]
Assumptions ==
    /\ \A q \in Question : q \in Asked /\ \A p, r \in q.places : p.id = r.id => p = r
    /\ {MinSearch, RouteCap, CountCap, DistanceCap, MaxRows, MaxCandidates, MaxClaims, MaxTravelClaims} \subseteq Nat \ {0}
    /\ MaxFaults \in Nat

VARIABLES
    question, at,
    found,      \* the place the claim at hand is measured at
    results,
    answer, faults

vars == <<question, at, found, results, answer, faults>>

Init ==
    /\ question \in Question /\ at = "asked"
    /\ found = None /\ results = <<>> /\ answer = None /\ faults = 0

Answer(a) == answer' = a /\ at' = "answered"
Error(name) == [error |-> name]
Here == question.claims[Len(results) + 1]

\* The kinds and the number of claims are looked at before any is measured;
\* what a claim says only when its turn comes.
Validate ==
    LET kinds == {question.claims[i].kind : i \in DOMAIN question.claims}
        travel == {i \in DOMAIN question.claims : question.claims[i].kind = "travel_time"} IN
    /\ at = "asked"
    /\ IF question.claims = <<>> \/ Len(question.claims) > MaxClaims \/ None \in kinds \/ Cardinality(travel) > MaxTravelClaims
       THEN Answer(Error("bad_request"))
       ELSE at' = "claim" /\ UNCHANGED answer
    /\ UNCHANGED <<question, found, results, faults>>

WellFormed(c) ==
    /\ c.category # None \/ c.name # None
    /\ c.claimed # None
    /\ c.kind # "count_nearby" => c.claimed >= 0
    /\ c.kind = "count_nearby" => c.radius >= 0

\* Within three times what is claimed, or twice; never beyond what a route or
\* a scan may cover.
SearchRadius(c) ==
    IF c.kind = "travel_time" THEN Min({Max({3 * c.claimed, MinSearch}), RouteCap})
    ELSE IF c.kind = "distance" THEN Min({Max({2 * c.claimed, MinSearch}), DistanceCap})
    ELSE Min({c.radius, CountCap})

Around(c) == {p \in question.places : p.distance <= SearchRadius(c)}
\* The nearest places of a set: any of those equally far.
Nearest(S, n) ==
    {T \in SUBSET S : /\ Cardinality(T) = Min({n, Cardinality(S)})
                      /\ \A p \in T, r \in S \ T : p.distance <= r.distance}

\* A place of the category or of one below it: a dataset without category
\* columns has no filter to offer.
OfCategory(S, category) == IF question.degraded THEN S ELSE {p \in S : category \in p.of}
\* find_places compares text, and when a name finds nothing it looks for
\* names like it.
LikeCategory(S, category) == IF question.degraded \/ category = None THEN S ELSE {p \in S : category \in p.like}
ByName(S, name) ==
    LET exact == {p \in S : name \in p.named} IN
    IF name = None THEN S ELSE IF exact # {} THEN exact ELSE {p \in S : name \in p.similar}

\* The nearest match: of a category that has a name besides, among the
\* nearest of the category only.
NearestMatches(c) ==
    IF c.category = None THEN Nearest(ByName(Around(c), c.name), 1)
    ELSE IF c.name = None THEN Nearest(OfCategory(Around(c), c.category), 1)
    ELSE UNION {Nearest({p \in T : c.name \in p.named}, 1) : T \in Nearest(OfCategory(Around(c), c.category), MaxCandidates)}

Result(verdict, measured) == [verdict |-> verdict, measured |-> measured]
Add(r) == results' = Append(results, r) /\ at' = "claim" /\ found' = None

GradeStrictly(measured, claimed) == IF measured <= claimed THEN "confirmed" ELSE "false"

\* Confirmed within 1.15 times the claim, stretched within 1.5 times.
Grade(measured, claimed) ==
    IF claimed <= 0 THEN IF measured <= 0 THEN "confirmed" ELSE "false"
    ELSE IF 100 * measured <= 115 * claimed THEN "confirmed"
    ELSE IF 10 * measured <= 15 * claimed THEN "stretched"
    ELSE "false"
GradeCount(count, claimed) ==
    IF count >= claimed THEN "confirmed" ELSE IF count >= 1 /\ 2 * count >= claimed THEN "stretched" ELSE "false"

\* A count that stops at the row cap decides nothing beyond it.
CountVerdict(count, claimed) ==
    IF count >= MaxRows /\ claimed > count THEN "unverifiable" ELSE GradeCount(count, claimed)

Measure ==
    /\ at = "claim" /\ Len(results) < Len(question.claims)
    /\ LET c == Here IN
       \/ /\ ~WellFormed(c) /\ Answer(Error("bad_request")) /\ UNCHANGED <<found, results, faults>>
       \/ /\ WellFormed(c) /\ c.kind = "count_nearby"
          /\ LET count == Min({MaxRows, Cardinality(ByName(LikeCategory(Around(c), c.category), c.name))}) IN
             Add(Result(CountVerdict(count, c.claimed), count))
          /\ UNCHANGED <<answer, faults>>
       \/ /\ WellFormed(c) /\ c.kind # "count_nearby"
          /\ \E match \in NearestMatches(c) :
                IF match = {} THEN Add(Result("false", None))
                ELSE LET p == CHOOSE p \in match : TRUE IN
                     IF c.kind = "distance" THEN Add(Result(Grade(p.distance, c.claimed), p.distance))
                     ELSE found' = p /\ at' = "route" /\ UNCHANGED results
          /\ UNCHANGED <<answer, faults>>
       \/ /\ WellFormed(c) /\ faults < MaxFaults /\ faults' = faults + 1
          /\ \E name \in {"upstream_unavailable", "schema_degraded"} : Answer(Error(name))
          /\ UNCHANGED <<found, results>>
    /\ UNCHANGED question

GradedAnyRoute(way, claimed) ==
    IF way.how # "ok" THEN Result("unverifiable", None) ELSE Result(Grade(way.time, claimed), way.time)

GradedRoute(way, claimed) ==
    LET grade == Grade(way.time, claimed) IN
    IF way.how # "ok" THEN Result("unverifiable", None)
    ELSE Result(IF way.truncated /\ grade # "confirmed" THEN "unverifiable" ELSE grade, way.time)

RouteThere ==
    /\ at = "route"
    /\ \/ Add(GradedRoute(found.way, Here.claimed)) /\ UNCHANGED <<answer, faults>>
       \/ /\ faults < MaxFaults /\ faults' = faults + 1
          /\ Answer(Error("upstream_unavailable"))
          /\ UNCHANGED <<found, results>>
    /\ UNCHANGED question

Finish ==
    /\ at = "claim" /\ Len(results) = Len(question.claims)
    /\ Answer([results |-> results])
    /\ UNCHANGED <<question, found, results, faults>>

Next == Validate \/ Measure \/ RouteThere \/ Finish

Spec == Init /\ [][Next]_vars

-----------------------------------------------------------------------------

TypeOK ==
    /\ question \in Question /\ at \in {"asked", "claim", "route", "answered"}
    /\ found \in question.places \cup {None} /\ faults \in 0..MaxFaults
    /\ Len(results) <= Len(question.claims)
    /\ at = "route" <=> (found # None /\ answer = None)
    /\ answer = None <=> at # "answered"

Answered == at = "answered" /\ "results" \in DOMAIN answer

\* What the claim is about, and what is true of it on the whole map.
Meant(c) ==
    {p \in question.places : (c.category = None \/ c.category \in p.of) /\ (c.name = None \/ c.name \in p.named)}
Within(S, radius) == {p \in S : p.distance <= radius}
\* No more places of the category are as near as the one that is meant than a
\* scan reads, so the name is looked for in all of them.
InReach(c) ==
    c.category # None /\ c.name # None =>
        Cardinality({p \in Around(c) : c.category \in p.of}) <= MaxCandidates
\* Within 15 percent, within half as much again, or neither.
GradedAs(verdict, measured, claimed) ==
    /\ verdict = "confirmed" <=> 20 * measured <= 23 * claimed
    /\ verdict = "false" <=> 2 * measured > 3 * claimed
\* The category and the name are told as the claim means them.
ToldExactly(c) ==
    /\ ~question.degraded
    /\ \A p \in question.places : (c.name \in p.similar => c.name \in p.named)
    /\ c.kind = "count_nearby" => \A p \in question.places : c.category # None => (c.category \in p.like <=> c.category \in p.of)

\* A distance claim whose search is not cut is graded by the nearest place it
\* means, wherever that is; only one that lies beyond the search, more than
\* twice as far as claimed, is not told.
DistancesAreTrue ==
    Answered => \A i \in DOMAIN results :
        LET c == question.claims[i]
            d == Min({p.distance : p \in Meant(c)}) IN
        c.kind = "distance" /\ ToldExactly(c) /\ InReach(c) /\ 2 * c.claimed <= DistanceCap =>
            IF Meant(c) = {} THEN results[i] = Result("false", None)
            ELSE /\ GradedAs(results[i].verdict, d, c.claimed)
                 /\ results[i].measured = None => d > 2 * c.claimed
                 /\ results[i].measured # None => results[i].measured = d

\* A count is the number of places the claim means, up to the row cap, within
\* the radius the claim names; beyond the cap only what the cap proves is told.
CountsAreTrue ==
    Answered => \A i \in DOMAIN results :
        LET c == question.claims[i]
            truth == Cardinality(Within(Meant(c), c.radius)) IN
        c.kind = "count_nearby" /\ ToldExactly(c) /\ c.radius <= CountCap =>
            /\ results[i].verdict = "confirmed" <=> Min({truth, MaxRows}) >= c.claimed
            /\ results[i].verdict = "false" => truth < c.claimed /\ 2 * truth < Max({2, c.claimed})
            /\ results[i].verdict = "unverifiable" => truth >= MaxRows /\ c.claimed > MaxRows
            /\ results[i].measured = Min({truth, MaxRows})

\* A travel-time claim is false only when nothing it means is within its
\* search, or a whole street graph shows the nearest farther than the claim
\* stretches; a graph cut short can confirm and no more.
TravelIsFair ==
    Answered => \A i \in DOMAIN results :
        LET c == question.claims[i]
            near == {p \in Meant(c) : \A r \in Meant(c) : p.distance <= r.distance} IN
        c.kind = "travel_time" /\ ToldExactly(c) /\ InReach(c) =>
            /\ results[i].verdict = "false" /\ results[i].measured = None => Within(Meant(c), SearchRadius(c)) = {}
            /\ results[i].verdict \in {"false", "stretched"} /\ results[i].measured # None =>
                  \E p \in near : p.way.how = "ok" /\ ~p.way.truncated /\ p.way.time = results[i].measured /\ p.way.time > c.claimed
            /\ results[i].verdict = "confirmed" => \E p \in near : p.way.how = "ok" /\ 100 * p.way.time <= 115 * c.claimed
            /\ results[i].verdict = "unverifiable" => \E p \in near : p.way.how # "ok" \/ p.way.truncated

\* Claims are graded in order, all or none, and two of one wording get one
\* result, whatever was asked between them.
ClaimsStandAlone ==
    Answered =>
        /\ Len(answer.results) = Len(question.claims)
        /\ (\A p, r \in question.places : p.distance = r.distance => p = r)
              => \A i, j \in DOMAIN results : question.claims[i] = question.claims[j] => results[i] = results[j]

ClaimsAreGraded == DistancesAreTrue /\ CountsAreTrue /\ TravelIsFair /\ ClaimsStandAlone
=============================================================================
