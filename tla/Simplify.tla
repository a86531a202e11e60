------------------------------ MODULE Simplify ------------------------------
(***************************************************************************)
(* Making a shape fit a size (simplify.py): Ramer-Douglas-Peucker under a  *)
(* tolerance that is widened until the shape fits and then narrowed again. *)
(* All passes of one call share one allowance of distance evaluations.  A  *)
(* position costs one token; squared distances are fractions <<n, d>>.     *)
(***************************************************************************)
EXTENDS Integers, Sequences, FiniteSets, FiniteSetsExt, SequencesExt, Functions

CONSTANTS
    Question,       \* a shape of one or several lines and the size it is to fit
    Unit,           \* tolerances are counted in so small a part of a metre
    OpBudget, MaxInputPoints, MaxExpandIters, MaxBisectIters, None

Position == Int \X Int
Shape == [kind : {"Point", "LineString", "Polygon", "other"}, lines : Seq(Seq(Position))]
Assumptions ==
    /\ \A q \in Question :
        /\ [kind |-> q.kind, lines |-> q.lines] \in Shape /\ q.size \in Nat
        /\ q.kind = "Polygon" => \A i \in DOMAIN q.lines : q.lines[i][1] = Last(q.lines[i])
    /\ {Unit, MaxInputPoints, MaxExpandIters, MaxBisectIters} \subseteq Nat \ {0} /\ OpBudget \in Nat

VARIABLES
    question, at,
    left,           \* of the allowance; negative once it is overdrawn
    lo, hi,         \* the tolerances between which the search is
    rounds,
    best,           \* what the answer would be now
    answer

vars == <<question, at, left, lo, hi, rounds, best, answer>>

Init ==
    /\ question \in Question /\ at = "asked" /\ left = OpBudget
    /\ lo = 0 /\ hi = Unit /\ rounds = 0 /\ best = None /\ answer = None

Answer(a) == answer' = a /\ at' = "answered"
Error(name) == [error |-> name]

Greater(a, b) == a[1] * b[2] > b[1] * a[2]
Squared(p, q) == (p[1] - q[1]) * (p[1] - q[1]) + (p[2] - q[2]) * (p[2] - q[2])
\* From p to the line through two positions, which goes on beyond both.
PerpDist(p, start, end) ==
    IF start = end THEN <<Squared(p, start), 1>>
    ELSE LET cross == (end[2] - start[2]) * p[1] - (end[1] - start[1]) * p[2]
                          + end[1] * start[2] - end[2] * start[1] IN
         <<cross * cross, Squared(start, end)>>
Beyond(d, epsilon) == Greater(d, <<epsilon * epsilon, Unit * Unit>>)

\* The first of the positions between two that is farthest from their line.
Farthest(line, a, b) ==
    LET D(i) == PerpDist(line[i], line[a], line[b]) IN
    CHOOSE i \in a + 1 .. b - 1 :
        \A j \in a + 1 .. b - 1 : ~Greater(D(j), D(i)) /\ (j < i => Greater(D(i), D(j)))

\* One run is split where it is farthest from its chord, the last run first;
\* nothing more is split once the allowance is overdrawn.
Split(line, epsilon, s) ==
    IF s.stack = <<>> THEN s
    ELSE LET run == Last(s.stack)  rest == Front(s.stack)  cost == run[2] - run[1] - 1 IN
         IF cost < 1 THEN [s EXCEPT !.stack = rest]
         ELSE IF s.left < cost THEN [s EXCEPT !.stack = <<>>, !.left = s.left - cost]
         ELSE LET far == Farthest(line, run[1], run[2]) IN
              IF Beyond(PerpDist(line[far], line[run[1]], line[run[2]]), epsilon)
              THEN [stack |-> rest \o << <<run[1], far>>, <<far, run[2]>> >>, keep |-> s.keep \cup {far},
                    left |-> s.left - cost]
              ELSE [s EXCEPT !.stack = rest, !.left = s.left - cost]
KeepIndices(line, epsilon, allowance) ==
    IF Len(line) < 3 THEN [stack |-> <<>>, keep |-> DOMAIN line, left |-> allowance]
    ELSE FoldLeft(LAMBDA s, i : Split(line, epsilon, s),
                  [stack |-> << <<1, Len(line)>> >>, keep |-> {1, Len(line)}, left |-> allowance],
                  [i \in 1 .. 2 * Len(line) |-> i])

\* A ring that has lost too many gets back those farthest from its start.
Unpadded(line, keep) == keep
Padded(line, keep) ==
    LET missing == 4 - Cardinality(keep)
        others == SetToSortSeq(DOMAIN line \ keep,
                      LAMBDA i, j : LET a == PerpDist(line[i], line[1], Last(line))
                                        b == PerpDist(line[j], line[1], Last(line)) IN
                                    Greater(a, b) \/ (~Greater(b, a) /\ i < j)) IN
    IF question.kind # "Polygon" \/ Len(line) < 4 \/ missing <= 0 THEN keep
    ELSE keep \cup ToSet(SubSeq(others, 1, missing))

Worst(ds) == IF ds = {} THEN <<0, 1>> ELSE CHOOSE d \in ds : \A e \in ds : ~Greater(e, d)
\* The kept ends of the run that a dropped position was in.
Chord(keep, i) == <<Max({k \in keep : k < i}), Min({k \in keep : k > i})>>
MaxDeviation(line, keep) ==
    Worst({PerpDist(line[i], line[Chord(keep, i)[1]], line[Chord(keep, i)[2]]) : i \in DOMAIN line \ keep})

\* One pass over all lines: what of each is kept, and what is left for the next.
Walk(epsilon, allowance) ==
    FoldLeft(LAMBDA done, line :
                 LET r == KeepIndices(line, epsilon, done.left)  keep == Padded(line, r.keep) IN
                 [kept |-> Append(done.kept, keep), left |-> r.left,
                  deviation |-> Worst({done.deviation, MaxDeviation(line, keep)})],
             [kept |-> <<>>, left |-> allowance, deviation |-> <<0, 1>>], question.lines)
Count(kept) == FoldLeft(LAMBDA n, keep : n + Cardinality(keep), 0, kept)
Points == FoldLeft(LAMBDA n, line : n + Len(line), 0, question.lines)
Fits(kept) == Count(kept) <= question.size

Result(pass) == [kept |-> pass.kept, deviation |-> pass.deviation]
Validate ==
    /\ at = "asked"
    /\ \/ question.kind = "other" /\ Answer(Error("invalid_geometry"))
       \/ question.kind # "other" /\ Points \notin 1..MaxInputPoints /\ Answer(Error("invalid_geometry"))
       \/ /\ question.kind = "Point" /\ Points \in 1..MaxInputPoints
          /\ Answer([kept |-> [i \in DOMAIN question.lines |-> DOMAIN question.lines[i]], deviation |-> <<0, 1>>])
       \/ question.kind \notin {"Point", "other"} /\ Points \in 1..MaxInputPoints /\ at' = "exact" /\ UNCHANGED answer
    /\ UNCHANGED <<question, left, lo, hi, rounds, best>>

\* Without a tolerance only what lies on the line is dropped.
Exact ==
    /\ at = "exact"
    /\ LET pass == Walk(0, left) IN
        /\ left' = pass.left
        /\ IF Fits(pass.kept) THEN Answer(Result(pass)) ELSE at' = "expand" /\ UNCHANGED answer
    /\ UNCHANGED <<question, lo, hi, rounds, best>>

Expand ==
    /\ at = "expand"
    /\ LET pass == Walk(hi, left) IN
        /\ left' = pass.left
        /\ IF Fits(pass.kept)
           THEN best' = Result(pass) /\ at' = "bisect" /\ rounds' = 0 /\ UNCHANGED hi
           ELSE /\ hi' = 2 * hi
                /\ IF rounds + 1 < MaxExpandIters THEN rounds' = rounds + 1 /\ UNCHANGED <<at, best>>
                   ELSE best' = Result(pass) /\ at' = "bisect" /\ rounds' = 0
    /\ UNCHANGED <<question, lo, answer>>

LowerAlways(fits, mid) == mid
Lower(fits, mid) == IF fits THEN lo ELSE mid
\* The last pass that fits is the answer.
Bisect ==
    /\ at = "bisect"
    /\ IF rounds = MaxBisectIters
       THEN Answer(best) /\ UNCHANGED <<left, lo, hi, rounds, best>>
       ELSE LET mid == (lo + hi) \div 2  pass == Walk(mid, left) IN
            /\ left' = pass.left /\ rounds' = rounds + 1
            /\ lo' = Lower(Fits(pass.kept), mid)
            /\ hi' = IF Fits(pass.kept) THEN mid ELSE hi
            /\ best' = IF Fits(pass.kept) THEN Result(pass) ELSE best
            /\ UNCHANGED <<at, answer>>
    /\ UNCHANGED question

Next == Validate \/ Exact \/ Expand \/ Bisect
Spec == Init /\ [][Next]_vars

-----------------------------------------------------------------------------
TypeOK ==
    /\ question \in Question /\ at \in {"asked", "exact", "expand", "bisect", "answered"}
    /\ left <= OpBudget /\ 0 <= lo /\ lo <= hi
    /\ rounds \in 0 .. MaxExpandIters + MaxBisectIters /\ (at = "answered" <=> answer # None)

Simplified == at = "answered" /\ "error" \notin DOMAIN answer
\* Whatever the tolerance and the allowance, a line keeps its ends and a ring
\* stays one that encloses something, in the order that it had.
ShapesStayShapes ==
    Simplified => \A i \in DOMAIN question.lines :
        LET n == Len(question.lines[i])  keep == answer.kept[i] IN
        /\ {1, n} \subseteq keep /\ keep \subseteq 1..n
        /\ question.kind = "Polygon" /\ n >= 4 => Cardinality(keep) >= 4
\* While the allowance lasts, an answer that does not fit has nothing left to
\* lose, and no other tolerance of the search's grid would have kept more and
\* still fitted.
Smallest == FoldLeft(LAMBDA n, line : n + Min({Len(line), IF question.kind = "Polygon" THEN 4 ELSE 2}), 0,
                     question.lines)
BestThatFits ==
    Simplified /\ question.kind # "Point" /\ left >= 0 =>
        \/ ~Fits(answer.kept) /\ Count(answer.kept) <= Smallest
        \/ /\ Fits(answer.kept)
           /\ \A e \in 0 .. Unit * 2 ^ MaxExpandIters : LET kept == Walk(e, Points * Points).kept IN
                Fits(kept) => Count(kept) <= Count(answer.kept)
\* The deviation that is told holds for every dropped position whose foot lies
\* on what is kept; one beyond the ends of its chord may be farther off.
FootOnChord(p, a, b) ==
    LET t == (p[1] - a[1]) * (b[1] - a[1]) + (p[2] - a[2]) * (b[2] - a[2]) IN 0 <= t /\ t <= Squared(a, b)
DeviationIsTold ==
    Simplified => \A i \in DOMAIN question.lines : \A j \in DOMAIN question.lines[i] \ answer.kept[i] :
        LET line == question.lines[i]  c == Chord(answer.kept[i], j) IN
        FootOnChord(line[j], line[c[1]], line[c[2]]) =>
            \E a \in answer.kept[i], b \in answer.kept[i] :
                a < b /\ ~Greater(PerpDist(line[j], line[a], line[b]), answer.deviation)
ShapesAreSimplified == ShapesStayShapes /\ BestThatFits /\ DeviationIsTold
=============================================================================
