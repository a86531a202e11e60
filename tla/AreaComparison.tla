---------------------------- MODULE AreaComparison ----------------------------
(***************************************************************************)
(* Areas side by side (overture.py compare_areas and what it calls, the    *)
(* compare_areas tool of server.py and its map): one scan per area for the *)
(* mix of categories, one more per area for what the priorities count, and *)
(* a verdict that weighs the priorities.  Each scan reads the release that *)
(* is the newest then.                                                     *)
(***************************************************************************)
EXTENDS Integers, Sequences, FiniteSets, FiniteSetsExt, SequencesExt

CONSTANTS
    Question,       \* the areas, the priorities and the columns there are
    Category, Below,    \* what is counted as a category: it and all below it
    MaxRows,        \* an area lists no more categories
    TopShown,       \* and no more are set side by side
    MaxAreas, MaxPriorities, MinWeight, MaxWeight,
    Whole,          \* the parts of a whole share
    Grid,           \* scores are rounded to so many parts
    Extent,         \* densities are rounded to a place in so large a part
    MaxFaults, None

Release == 1..2
\* The places of an area by category in either release; Loose are of none.
Mix == [Category \cup {"loose"} -> Nat]
Priority == [category : Category \cup {"density", None}, prefer : {"more", "fewer"}, weight : Nat]
Asked ==
    [areas : Seq([Release -> Mix]), known : BOOLEAN, priorities : Seq(Priority) \cup {None},
     columns : {"all", "taxonomy", "none"}]
Assumptions ==
    /\ Question \subseteq Asked /\ Below \in [Category -> SUBSET Category]
    /\ \A c \in Category : c \in Below[c]
    /\ {MaxRows, TopShown, MaxAreas, MaxPriorities, MinWeight, MaxWeight, Whole, Grid, Extent} \subseteq Nat \ {0}
    /\ MaxFaults \in Nat

VARIABLES
    question, at, release,
    summaries,      \* what was read of each area: the top of its mix
    counts,         \* what the priorities count in each
    answer, faults

vars == <<question, at, release, summaries, counts, answer, faults>>

Init ==
    /\ question \in Question /\ at = "asked" /\ release = 1
    /\ summaries = <<>> /\ counts = <<>> /\ answer = None /\ faults = 0

Answer(a) == answer' = a /\ at' = "answered"
Error(name) == [error |-> name]
Areas == DOMAIN question.areas
Given == question.priorities # None /\ question.priorities # <<>>

\* The number of areas first, then their names, then the priorities.
Validate ==
    /\ at = "asked"
    /\ \/ Len(question.areas) \notin 2..MaxAreas /\ Answer(Error("bad_request"))
       \/ Len(question.areas) \in 2..MaxAreas /\ ~question.known /\ Answer(Error("not_found"))
       \/ /\ Len(question.areas) \in 2..MaxAreas /\ question.known
          /\ IF question.priorities # None
                /\ (Len(question.priorities) > MaxPriorities
                    \/ \E i \in DOMAIN question.priorities : question.priorities[i].category = None)
             THEN Answer(Error("bad_request"))
             ELSE at' = "summarize" /\ UNCHANGED answer
    /\ UNCHANGED <<question, release, summaries, counts, faults>>

Roll == at \in {"summarize", "count"} /\ release = 1 /\ release' = 2 /\ UNCHANGED <<question, at, summaries, counts, answer, faults>>

Places(mix) == MapThenSumSet(LAMBDA c : mix[c], DOMAIN mix)

\* The most frequent first; which of two as frequent is open.
Tops(mix) ==
    LET present == IF question.columns = "all" THEN {c \in Category : mix[c] > 0} ELSE {}
        size == Min({MaxRows, Cardinality(present)}) IN
    {top \in [1..size -> present] :
        /\ \A i, j \in 1..size : i < j => top[i] # top[j] /\ mix[top[i]] >= mix[top[j]]
        /\ \A c \in present, i \in 1..size : c \notin {top[j] : j \in 1..size} => mix[top[i]] >= mix[c]}

SummarizeArea ==
    /\ at = "summarize" /\ Len(summaries) < Len(question.areas)
    /\ LET mix == question.areas[Len(summaries) + 1][release] IN
       \E top \in Tops(mix) :
          summaries' = Append(summaries, [top |-> top, count |-> [c \in {top[i] : i \in DOMAIN top} |-> mix[c]], total |-> Places(mix)])
    /\ UNCHANGED <<question, at, release, counts, answer, faults>>

\* Every scan may fail, and then there is no answer but the error.
Fail ==
    /\ at \in {"summarize", "count"} /\ faults < MaxFaults /\ faults' = faults + 1
    /\ \E name \in {"upstream_unavailable", "schema_degraded"} : Answer(Error(name))
    /\ UNCHANGED <<question, release, summaries, counts>>

CountsOf(s, c) == IF c \in DOMAIN s.count THEN s.count[c] ELSE 0
Combined(c) == MapThenSumSet(LAMBDA i : CountsOf(summaries[i], c), Areas)

\* The categories of most places in the lists together; of two as frequent the
\* one that was listed first.
Listed == FlattenSeq([i \in Areas |-> summaries[i].top])
FirstAt(c) == Min({i \in DOMAIN Listed : Listed[i] = c})
Aligned ==
    LET order == SetToSortSeq({Listed[i] : i \in DOMAIN Listed},
                    LAMBDA a, b : Combined(a) > Combined(b) \/ (Combined(a) = Combined(b) /\ FirstAt(a) < FirstAt(b))) IN
    SubSeq(order, 1, Min({TopShown, Len(order)}))

Rounded(n, grid) == (2 * n + grid) \div (2 * grid)
Part(n, of) == (n * Whole) \div of

Density(i) == Rounded(summaries[i].total, Extent)
PerArea(i) ==
    [total |-> summaries[i].total, density |-> Density(i),
     counts |-> [c \in {Aligned[k] : k \in DOMAIN Aligned} |-> CountsOf(summaries[i], c)]]

\* How far apart the areas are in a category, of the larger count.
Differentiator(c) ==
    LET values == {CountsOf(summaries[i], c) : i \in Areas}
        lo == Min(values)
        hi == Max(values) IN
    [category |-> c, lo |-> lo, hi |-> hi, difference |-> IF hi = 0 THEN 0 ELSE Part(hi - lo, hi)]
Differentiators ==
    SetToSortSeq({Differentiator(Aligned[k]) : k \in DOMAIN Aligned},
        LAMBDA a, b : \/ a.difference > b.difference
                      \/ /\ a.difference = b.difference
                         /\ \E i, j \in DOMAIN Aligned : i < j /\ Aligned[i] = a.category /\ Aligned[j] = b.category)

Compared ==
    [areas |-> [i \in Areas |-> PerArea(i)], categories |-> Aligned, differentiators |-> Differentiators]

\* A priority other than the density counts the places of its category and of
\* all below it; a dataset without category columns cannot.
Counted == {question.priorities[i].category : i \in DOMAIN question.priorities} \ {"density"}
Countable == question.columns # "none" \/ Counted = {}

Summarized ==
    /\ at = "summarize" /\ Len(summaries) = Len(question.areas)
    /\ IF Given THEN at' = "count" /\ UNCHANGED answer ELSE Answer(Compared)
    /\ UNCHANGED <<question, release, summaries, counts, faults>>

CountArea ==
    /\ at = "count" /\ Len(counts) < Len(question.areas)
    /\ LET mix == question.areas[Len(counts) + 1][release] IN
       counts' = Append(counts, IF Countable THEN [c \in Counted |-> MapThenSumSet(LAMBDA b : mix[b], Below[c])] ELSE None)
    /\ UNCHANGED <<question, at, release, summaries, answer, faults>>

Measure(i, p) == IF p.category = "density" THEN Density(i) ELSE counts[i][p.category]

FirstBest(values, prefer) ==
    LET best == IF prefer = "more" THEN Max({values[i] : i \in DOMAIN values}) ELSE Min({values[i] : i \in DOMAIN values}) IN
    Min({i \in DOMAIN values : values[i] = best})

UniqueBest(values, prefer) ==
    LET best == IF prefer = "more" THEN Max({values[i] : i \in DOMAIN values}) ELSE Min({values[i] : i \in DOMAIN values})
        ones == {i \in DOMAIN values : values[i] = best} IN
    IF Cardinality(ones) = 1 THEN CHOOSE i \in ones : TRUE ELSE None

ShareOfMost(values, i) ==
    LET most == Max({values[j] : j \in DOMAIN values}) IN IF most = 0 THEN Whole ELSE Part(values[i], most)
ShareOfLeast(values, i) ==
    LET least == Min({values[j] : j \in DOMAIN values}) IN IF values[i] = least THEN Whole ELSE Part(least, values[i])
ShareUnturned(values, prefer, i) == ShareOfMost(values, i)
Share(values, prefer, i) == IF prefer = "more" THEN ShareOfMost(values, i) ELSE ShareOfLeast(values, i)

Weight(p) == Max({MinWeight, Min({MaxWeight, p.weight})})
Measures(k) == [i \in Areas |-> Measure(i, question.priorities[k])]
Score(i) ==
    Rounded(MapThenSumSet(LAMBDA k : Weight(question.priorities[k]) * Share(Measures(k), question.priorities[k].prefer, i),
                          DOMAIN question.priorities), Grid)

Verdict ==
    LET scores == [i \in Areas |-> Score(i)] IN
    IF ~Countable THEN [degraded |-> TRUE, winner |-> None, scores |-> None, reasons |-> <<>>]
    ELSE [degraded |-> FALSE, winner |-> UniqueBest(scores, "more"), scores |-> scores,
          reasons |-> [k \in DOMAIN question.priorities |-> UniqueBest(Measures(k), question.priorities[k].prefer)]]

\* The map has a pin for each area, the winner's its own class.
MapOf(verdict) == [i \in Areas |-> IF verdict.winner = i THEN "winner" ELSE "area"]

Judge ==
    /\ at = "count" /\ Len(counts) = Len(question.areas)
    /\ Answer([verdict |-> Verdict, map |-> MapOf(Verdict)] @@ Compared)
    /\ UNCHANGED <<question, release, summaries, counts, faults>>

Next == Validate \/ Roll \/ SummarizeArea \/ Fail \/ Summarized \/ CountArea \/ Judge

Spec == Init /\ [][Next]_vars

-----------------------------------------------------------------------------

TypeOK ==
    /\ question \in Question /\ at \in {"asked", "summarize", "count", "answered"} /\ release \in Release
    /\ Len(summaries) <= Len(question.areas) /\ Len(counts) <= Len(summaries)
    /\ faults \in 0..MaxFaults
    /\ (answer = None) = (at # "answered")

IsCompared == at = "answered" /\ "areas" \in DOMAIN answer
Judged == IsCompared /\ "verdict" \in DOMAIN answer

\* A count that is shown is the area's own in a release that was the newest
\* meanwhile, and a zero of a category that is there means that the list of
\* the area was full of others at least as frequent.
CountsAreReal ==
    IsCompared => \A i \in Areas : \E r \in 1..release :
        LET mix == question.areas[i][r]
            n == answer.areas[i].counts IN
        /\ answer.areas[i].total = Places(mix)
        /\ \A c \in DOMAIN n :
              n[c] = mix[c] \/ (n[c] = 0 /\ Cardinality({d \in Category \ {c} : mix[d] >= mix[c]}) >= MaxRows)

\* With every list whole, no category that is left out has more places in the
\* areas together than one that is shown.
TheTopIsShown ==
    IsCompared /\ question.columns = "all" /\ release = 1
        /\ (\A i \in Areas : Cardinality({c \in Category : question.areas[i][1][c] > 0}) <= MaxRows) =>
        LET all(c) == MapThenSumSet(LAMBDA i : question.areas[i][1][c], Areas)
            shown == {answer.categories[k] : k \in DOMAIN answer.categories} IN
        \A c \in shown, d \in Category \ shown : all(c) >= all(d)

\* The differences are between the areas shown, the largest first.
DifferencesAreRanked ==
    IsCompared =>
        /\ \A k \in DOMAIN answer.differentiators :
              LET d == answer.differentiators[k]
                  values == {answer.areas[i].counts[d.category] : i \in Areas} IN
              /\ {d.lo, d.hi} \subseteq values /\ \A v \in values : v \in d.lo..d.hi
              /\ d.difference * d.hi <= Whole * (d.hi - d.lo)
        /\ \A k, l \in DOMAIN answer.differentiators :
              k < l => answer.differentiators[k].difference >= answer.differentiators[l].difference

\* What an area really has of a priority, in the one release that was read.
Real(i, p) ==
    LET mix == question.areas[i][1] IN
    IF p.category = "density" THEN Places(mix) ELSE MapThenSumSet(LAMBDA c : mix[c], Below[p.category])
AtLeastAsGood(i, j) ==
    \A k \in DOMAIN question.priorities :
        LET p == question.priorities[k] IN
        IF p.prefer = "more" THEN Real(i, p) >= Real(j, p) ELSE Real(i, p) <= Real(j, p)

\* An area at least as good in every priority has at least the score, whatever
\* the weights and the rounding do; so nobody wins against such an area, and
\* with one priority nobody wins but who is best at it.
WinnerIsEarned ==
    Judged /\ release = 1 /\ ~answer.verdict.degraded =>
        /\ \A i, j \in Areas : AtLeastAsGood(i, j) => answer.verdict.scores[i] >= answer.verdict.scores[j]
        /\ answer.verdict.winner # None =>
              \A i \in Areas \ {answer.verdict.winner} : ~AtLeastAsGood(i, answer.verdict.winner)
        /\ Len(question.priorities) = 1 => answer.verdict.winner \in {answer.verdict.reasons[1], None}

\* Where the categories cannot be counted there is no score and no winner,
\* neither in the verdict nor on the map.
NothingIsFabricated ==
    Judged => (answer.verdict.degraded <=> question.columns = "none" /\ Counted # {})
              /\ (answer.verdict.degraded => answer.verdict.scores = None /\ \A i \in Areas : answer.map[i] = "area")
              /\ \A i \in Areas : answer.map[i] = "winner" =>
                    \A j \in Areas \ {i} : answer.verdict.scores[j] < answer.verdict.scores[i]

AreasAreCompared ==
    CountsAreReal /\ TheTopIsShown /\ DifferencesAreRanked /\ WinnerIsEarned /\ NothingIsFabricated
=============================================================================
