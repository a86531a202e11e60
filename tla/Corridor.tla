------------------------------ MODULE Corridor ------------------------------
(***************************************************************************)
(* What is on the way (places_along_route of routing.py and server.py):    *)
(* the path of a route is thinned and cut into stretches, the places near  *)
(* each are looked up, measured against the path, put in the order of the  *)
(* route and, where there are too many, sampled evenly.  Positions are on  *)
(* a plane; distances are squared, and they and the way along the path are *)
(* fractions <<n, d>>.                                                     *)
(***************************************************************************)
EXTENDS Integers, Sequences, FiniteSets, FiniteSetsExt, SequencesExt

CONSTANTS
    Question,       \* a request, the outcome of its route and the places there are
    MaxDetour,      \* no larger detour may be asked for
    MaxPathNodes, Chunks, MaxCandidates, MaxRows,
    MaxListed,      \* rows that fit the token budget
    MaxVerified, None

Position == Int \X Int
Node == [at : Position, along : Nat]
\* A place is what the category or the name asks for, or not; the more doubt
\* there is about it the more it should be checked.
Venue == [id : Nat, at : Position, matches : BOOLEAN, doubt : Nat]
Outcome == {"found", "no_route", "no_graph_nearby", "route_too_long", "unsupported_mode"}
Asked ==
    [known : BOOLEAN, detour : Int, limit : Int, route : Outcome, path : Seq(Node), places : SUBSET Venue,
     cut : BOOLEAN, fails : BOOLEAN]
Assumptions ==
    /\ \A q \in Question :
        /\ q \in Asked
        /\ \A p, r \in q.places : p.id = r.id => p = r
        /\ q.route = "found" =>
            /\ q.path # <<>> /\ q.path[1].along = 0
            /\ \A i \in 1 .. Len(q.path) - 1 : q.path[i].along < q.path[i + 1].along
    /\ {MaxDetour, MaxPathNodes, Chunks, MaxCandidates, MaxRows, MaxListed, MaxVerified} \subseteq Nat \ {0}

VARIABLES
    question, at,
    points,         \* the path, thinned
    chunk,          \* the stretch that is looked up next
    candidates, capped,
    rows, answer

vars == <<question, at, points, chunk, candidates, capped, rows, answer>>

Init ==
    /\ question \in Question /\ at = "asked"
    /\ points = <<>> /\ chunk = 1 /\ candidates = {} /\ capped = FALSE /\ rows = <<>> /\ answer = None

Answer(a) == answer' = a /\ at' = "answered"
Error(name) == [error |-> name]

\* Half goes to the even neighbor.
Rounded(n, d) ==
    IF 2 * (n % d) < d \/ (2 * (n % d) = d /\ (n \div d) % 2 = 0) THEN n \div d ELSE n \div d + 1
SampleEvenly(items, count) ==
    IF count <= 0 THEN <<>>
    ELSE IF Len(items) <= count THEN items
    ELSE IF count = 1 THEN <<items[1]>>
    ELSE [i \in 1..count |-> items[Rounded((i - 1) * (Len(items) - 1), count - 1) + 1]]
SubsamplePath(path) == IF MaxPathNodes < 2 THEN path ELSE SampleEvenly(path, MaxPathNodes)

Limit == Max({0, Min({question.limit, MaxRows})})
Route ==
    /\ at = "asked"
    /\ IF ~question.known \/ question.detour <= 0 \/ question.detour > MaxDetour THEN Answer(Error("bad_request")) /\ UNCHANGED points
       ELSE IF question.route # "found" THEN Answer(Error(question.route)) /\ UNCHANGED points
       ELSE points' = SubsamplePath(question.path) /\ at' = "places" /\ UNCHANGED answer
    /\ UNCHANGED <<question, chunk, candidates, capped, rows>>

\* Stretches of as good as the same length; the last node of one is the first
\* of the next, so that every segment is in one of them.
Segments == Len(points) - 1
ChunkCount == IF Segments < 1 THEN 1 ELSE Min({Chunks, Segments})
ChunkOf(c) ==
    IF Segments < 1 THEN points
    ELSE SubSeq(points, ((c - 1) * Segments) \div ChunkCount + 1, (c * Segments) \div ChunkCount + 1)
ChunkApart(c) ==
    IF Segments < 1 THEN points
    ELSE SubSeq(points, ((c - 1) * Segments) \div ChunkCount + 1, (c * Segments) \div ChunkCount)
PathChunk(c) == ChunkOf(c)

CorridorBox(stretch) ==
    LET xs == {stretch[i].at[1] : i \in DOMAIN stretch}  ys == {stretch[i].at[2] : i \in DOMAIN stretch} IN
    {p \in question.places : /\ p.at[1] \in Min(xs) - question.detour .. Max(xs) + question.detour
                             /\ p.at[2] \in Min(ys) - question.detour .. Max(ys) + question.detour}
Squared(p, q) == (p[1] - q[1]) * (p[1] - q[1]) + (p[2] - q[2]) * (p[2] - q[2])
Share == Max({1, MaxCandidates \div ChunkCount})
OverFull(n) == n > Share
Full(n) == n >= Share
\* Of too many, those nearest to the middle node of the stretch.
FindPlacesInBbox(stretch) ==
    LET mid == stretch[(Len(stretch) \div 2) + 1].at
        ranked == SetToSortSeq({p \in CorridorBox(stretch) : p.matches},
                      LAMBDA p, q : Squared(p.at, mid) < Squared(q.at, mid)
                                    \/ (Squared(p.at, mid) = Squared(q.at, mid) /\ p.id < q.id)) IN
    SubSeq(ranked, 1, Min({Share, Len(ranked)}))

LookUp ==
    /\ at = "places" /\ ~question.fails
    /\ LET found == FindPlacesInBbox(PathChunk(chunk)) IN
        /\ candidates' = candidates \cup ToSet(found)
        /\ capped' = (capped \/ Full(Len(found)))
    /\ IF chunk = ChunkCount THEN at' = "measure" /\ UNCHANGED chunk ELSE chunk' = chunk + 1 /\ UNCHANGED at
    /\ UNCHANGED <<question, points, rows, answer>>
Fail ==
    /\ at = "places" /\ question.fails
    /\ \E name \in {"upstream_unavailable", "schema_degraded"} : Answer(Error(name))
    /\ UNCHANGED <<question, points, chunk, candidates, capped, rows>>

Less(a, b) == a[1] * b[2] < b[1] * a[2]
\* How far p is from a segment, and how far along the path its foot is; the
\* foot is on the segment.
PointToSegment(p, a, b) ==
    LET d == Squared(a.at, b.at)
        t == (p[1] - a.at[1]) * (b.at[1] - a.at[1]) + (p[2] - a.at[2]) * (b.at[2] - a.at[2])
        cross == (b.at[1] - a.at[1]) * (p[2] - a.at[2]) - (b.at[2] - a.at[2]) * (p[1] - a.at[1]) IN
    IF d = 0 \/ t <= 0 THEN [far |-> <<Squared(p, a.at), 1>>, along |-> <<a.along, 1>>]
    ELSE IF t >= d THEN [far |-> <<Squared(p, b.at), 1>>, along |-> <<b.along, 1>>]
    ELSE [far |-> <<cross * cross, d>>, along |-> <<a.along * d + t * (b.along - a.along), d>>]
\* The first of the nearest segments.
NearestOnPath(p) ==
    IF Len(points) = 1 THEN [far |-> <<Squared(p, points[1].at), 1>>, along |-> <<points[1].along, 1>>]
    ELSE LET On(i) == PointToSegment(p, points[i], points[i + 1]) IN
         On(CHOOSE i \in 1..Segments : \A j \in 1..Segments :
                ~Less(On(j).far, On(i).far) /\ (j < i => Less(On(i).far, On(j).far)))
OnTheWay(row) == ~Less(<<question.detour * question.detour, 1>>, row.far)

RouteOrder(r, s) ==
    \/ Less(r.along, s.along)
    \/ ~Less(s.along, r.along) /\ (Less(r.far, s.far) \/ (~Less(s.far, r.far) /\ r.id < s.id))
Measure ==
    /\ at = "measure" /\ at' = "finish"
    /\ LET measured == {[id |-> p.id, doubt |-> p.doubt, far |-> NearestOnPath(p.at).far,
                         along |-> NearestOnPath(p.at).along] : p \in candidates} IN
       rows' = SetToSortSeq({r \in measured : OnTheWay(r)}, RouteOrder)
    /\ UNCHANGED <<question, points, chunk, candidates, capped, answer>>

Ids(some) == [i \in DOMAIN some |-> some[i].id]
\* The one or two of the sample that are most in doubt, before it is made to fit.
VerifyLine(sample) ==
    LET doubted == {i \in DOMAIN sample : sample[i].doubt > 0}
        ranked == SetToSortSeq(doubted, LAMBDA i, j : sample[i].doubt > sample[j].doubt
                                                      \/ (sample[i].doubt = sample[j].doubt /\ i < j)) IN
    {sample[ranked[k]].id : k \in 1 .. Min({MaxVerified, Len(ranked)})}
Finish ==
    /\ at = "finish"
    /\ LET sample == SampleEvenly(rows, Limit)
           notes == (IF question.cut THEN {"graph"} ELSE {}) \cup (IF capped THEN {"candidates"} ELSE {})
                        \cup (IF Len(rows) > Limit THEN {"limit"} ELSE {})
                        \cup (IF Len(sample) > MaxListed THEN {"budget"} ELSE {}) IN
       Answer([results |-> SubSeq(sample, 1, Min({MaxListed, Len(sample)})), verify |-> VerifyLine(sample),
               notes |-> notes, truncated |-> notes # {}])
    /\ UNCHANGED <<question, points, chunk, candidates, capped, rows>>

Next == Route \/ LookUp \/ Fail \/ Measure \/ Finish
Spec == Init /\ [][Next]_vars

-----------------------------------------------------------------------------
TypeOK ==
    /\ question \in Question /\ at \in {"asked", "places", "measure", "finish", "answered"}
    /\ points \in Seq(Node) /\ chunk \in 1..Chunks /\ candidates \subseteq question.places /\ capped \in BOOLEAN
    /\ (at = "answered" <=> answer # None)

Answered == at = "answered" /\ "error" \notin DOMAIN answer
Listed == {answer.results[i].id : i \in DOMAIN answer.results}
\* As near to some segment of the thinned path as was asked for.
IsBeside(p) ==
    LET D == question.detour * question.detour IN
    \/ \E i \in DOMAIN points : Squared(p, points[i].at) <= D
    \/ \E i \in 1..Segments :
        LET a == points[i].at  b == points[i + 1].at
            t == (p[1] - a[1]) * (b[1] - a[1]) + (p[2] - a[2]) * (b[2] - a[2])
            cross == (b[1] - a[1]) * (p[2] - a[2]) - (b[2] - a[2]) * (p[1] - a[1]) IN
        0 <= t /\ t <= Squared(a, b) /\ cross * cross <= D * Squared(a, b)
Wanted == {p \in question.places : p.matches /\ IsBeside(p.at)}

\* What is listed is wanted and beside the path, once; and a wanted place that
\* is not listed is one that a note tells of.  No place falls between two
\* stretches.
NothingIsSkipped ==
    Answered =>
        /\ Listed \subseteq {p.id : p \in Wanted}
        /\ Cardinality(Listed) = Len(answer.results)
        /\ answer.notes \subseteq {"graph"} => Listed = {p.id : p \in Wanted}
        /\ answer.truncated <=> answer.notes # {}
\* The list reads as the route does, and a sample of more than one spans it:
\* unless the rows do not fit, the first and the last on the way are in it.
RouteIsSpanned ==
    Answered =>
        /\ \A i, j \in DOMAIN answer.results : i < j => ~Less(answer.results[j].along, answer.results[i].along)
        /\ Limit >= 2 /\ Len(rows) > 0 /\ "budget" \notin answer.notes =>
            Head(answer.results) = Head(rows) /\ Last(answer.results) = Last(rows)
        /\ "budget" \notin answer.notes => Len(answer.results) = Min({Limit, Len(rows)})
\* Nothing that was sampled and is not named is more in doubt than what is.
DoubtIsNamed ==
    Answered =>
        /\ \A id \in answer.verify : \E p \in Wanted : p.id = id /\ p.doubt > 0
        /\ \A i \in DOMAIN answer.results : answer.results[i].id \notin answer.verify /\ answer.results[i].doubt > 0 =>
            Cardinality({id \in answer.verify :
                \E p \in Wanted : p.id = id /\ p.doubt >= answer.results[i].doubt}) = MaxVerified
WayIsCovered == NothingIsSkipped /\ RouteIsSpanned /\ DoubtIsNamed
=============================================================================
