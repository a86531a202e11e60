--------------------------- MODULE TripComparison ---------------------------
(***************************************************************************)
(* The answers of server.py and routing.py that are made of several        *)
(* routes: meeting_point ranks venues by everyone's way to them,           *)
(* compare_modes sets one trip beside itself in other modes, and           *)
(* travel_time_matrix routes all pairs, over one shared street graph when  *)
(* they fit it.  Every leg is a call of route() (RouteCall): it may fail,  *)
(* build a graph, or find evicted what the gate has seen.                  *)
(***************************************************************************)
EXTENDS Integers, Sequences, FiniteSets, FiniteSetsExt, SequencesExt

CONSTANTS
    Question,    \* what is asked, each with the street network it is asked of
    MaxFaults, MaxEvictions,
    None

Failure == {"too_far", "no_graph", "no_route"}
Leg == {[how |-> h, time |-> 0, length |-> 0, truncated |-> FALSE] : h \in Failure}
       \cup [how : {"ok"}, time : Nat, length : Nat, truncated : BOOLEAN]
\* One extraction that covers all points: whether it has nodes and any point
\* snaps to one, and the legs it connects.
Shared == [usable : BOOLEAN, truncated : BOOLEAN, joins : SUBSET (Nat \X Nat)]
Asked ==
    [kind : {"meet", "modes", "matrix"}, ends : Seq({"point", "name", "wrong", "unknown"}),
     legs : Seq(Seq(Leg)),  \* rows are venues, modes or origins
     cold : SUBSET (Nat \X Nat), confirm : BOOLEAN, limit : Nat \ {0},
     shared : Seq(Shared)]  \* radii to be tried, <<>> when the points fit none

Assumptions ==
    /\ \A q \in Question :
          /\ q \in Asked /\ q.legs # <<>> => q.legs[1] # <<>>
          /\ \A i, j \in DOMAIN q.legs : Len(q.legs[i]) = Len(q.legs[j])
          /\ q.kind = "matrix" => q.legs # <<>>
    /\ MaxFaults \in Nat /\ MaxEvictions \in Nat

VARIABLES
    question, at,
    row, legs,  \* the row that is being routed and its legs so far
    done,       \* rows that are over: a sequence of legs, or a reason
    best,       \* the shared graph that joins most so far
    cold,       \* legs whose street graph is neither in memory nor on disk
    answer,
    faults, evictions, built  \* ghosts: counts, and legs whose graph the call built

vars == <<question, at, row, legs, done, best, cold, answer, faults, evictions, built>>

Init ==
    /\ question \in Question /\ at = "asked" /\ cold = question.cold
    /\ row = 1 /\ legs = <<>> /\ done = <<>> /\ best = None /\ answer = None
    /\ faults = 0 /\ evictions = 0 /\ built = {}

Rows == DOMAIN question.legs
Columns == IF question.legs = <<>> THEN {} ELSE DOMAIN question.legs[1]
Fails(ends, kinds) == {i \in DOMAIN ends : ends[i] \in kinds}
Answer(a) == answer' = a /\ at' = "answered"
Error(name, index) == [error |-> name, index |-> index]

\* Ends are resolved side by side, and the first that fails is the error; of a
\* meeting the names come before the points.
BadEnd ==
    LET wrong == Fails(question.ends, {"wrong", "unknown"})
        names == Fails(question.ends, {"unknown"}) IN
    IF question.kind = "meet" /\ names # {} THEN Min(names) ELSE Min(wrong)

Cold(i, j) == question.legs[i][j].how # "too_far" /\ <<i, j>> \in cold
Resolve ==
    /\ at = "asked"
    /\ IF Fails(question.ends, {"wrong", "unknown"}) # {} THEN Answer(Error("bad_end", BadEnd))
       ELSE CASE question.kind = "matrix" /\ question.shared # <<>> -> at' = "share" /\ UNCHANGED answer
              [] question.kind = "meet" -> at' = "venues" /\ UNCHANGED answer
              [] OTHER -> at' = "route" /\ UNCHANGED answer
    /\ UNCHANGED <<question, row, legs, done, best, cold, faults, evictions, built>>

\* Every leg of every venue is peeked at before any is routed.
Venues ==
    /\ at = "venues"
    /\ \/ /\ IF question.legs = <<>> THEN Answer([venues |-> <<>>, reasons |-> {"nothing_near"}])
             ELSE IF ~question.confirm /\ \E i \in Rows, j \in Columns : Cold(i, j)
             THEN Answer(Error("needs_confirm", None))
             ELSE at' = "route" /\ UNCHANGED answer
          /\ UNCHANGED faults
       \/ faults < MaxFaults /\ faults' = faults + 1 /\ Answer(Error("upstream", None))
    /\ UNCHANGED <<question, row, legs, done, best, cold, evictions, built>>

EndRow(entry) == done' = Append(done, entry) /\ row' = row + 1 /\ legs' = <<>>

AddPartial(leg) ==
    LET entry == Append(legs, leg) IN
    IF question.kind = "meet" /\ leg.how # "ok" THEN EndRow(IF legs = <<>> THEN <<leg>> ELSE legs)
    ELSE IF Len(entry) = Cardinality(Columns) THEN EndRow(entry)
    ELSE legs' = entry /\ UNCHANGED <<done, row>>

\* A venue is dropped with the first leg that fails; a pair of a matrix is
\* left open; a mode fails in its own row.
Add(leg) ==
    LET entry == Append(legs, leg) IN
    IF question.kind = "meet" /\ leg.how # "ok" THEN EndRow(<<leg>>)
    ELSE IF Len(entry) = Cardinality(Columns) THEN EndRow(entry)
    ELSE legs' = entry /\ UNCHANGED <<done, row>>

Outcome(how) == [how |-> how, time |-> 0, length |-> 0, truncated |-> FALSE]
Here == <<row, Len(legs) + 1>>
Way == question.legs[row][Len(legs) + 1]

\* Only compare_modes asks before each leg, or gives up on a confirmed build.
Route ==
    /\ at = "route" /\ row \in Rows
    /\ \/ /\ ~Cold(row, Len(legs) + 1) /\ Add(Way)
          /\ UNCHANGED <<cold, built, faults, answer, at>>
       \/ /\ Cold(row, Len(legs) + 1) /\ question.kind = "modes" /\ ~question.confirm /\ Add(Outcome("needs_confirm"))
          /\ UNCHANGED <<cold, built, faults, answer, at>>
       \/ /\ Cold(row, Len(legs) + 1) /\ (question.kind = "modes" => question.confirm) /\ Add(Way)
          /\ cold' = cold \ {Here} /\ built' = built \cup {Here}
          /\ UNCHANGED <<faults, answer, at>>
       \/ /\ Cold(row, Len(legs) + 1) /\ question.kind = "modes" /\ question.confirm
          /\ faults < MaxFaults /\ faults' = faults + 1
          /\ \E how \in {"upstream", "eta_exceeded"} : Add(Outcome(how))
          /\ UNCHANGED <<cold, built, answer, at>>
       \/ /\ Cold(row, Len(legs) + 1) /\ question.kind # "modes"
          /\ faults < MaxFaults /\ faults' = faults + 1
          /\ Answer(Error("upstream", None))
          /\ UNCHANGED <<row, legs, done, cold, built>>
    /\ UNCHANGED <<question, best, evictions>>

Evict ==
    /\ at \in {"venues", "route"} /\ evictions < MaxEvictions /\ evictions' = evictions + 1
    /\ \E p \in (Rows \X Columns) \ cold : cold' = cold \cup {p}
    /\ UNCHANGED <<question, at, row, legs, done, best, answer, faults, built>>

\* The worst way, the difference to the best, and the sum.
Times(entry) == [j \in DOMAIN entry |-> entry[j].time]
Total(s) == FoldSeq(LAMBDA a, b : a + b, 0, s)
Worst(entry) == Max(ToSet(Times(entry)))
Spread(entry) == Worst(entry) - Min(ToSet(Times(entry)))
FairnessKey(entry) == <<Worst(entry), Spread(entry), Total(Times(entry))>>
Before(k, l) == \E n \in DOMAIN k : k[n] < l[n] /\ (\A m \in 1..(n - 1) : k[m] = l[m])

Routed(i) == \A j \in DOMAIN done[i] : done[i][j].how = "ok"
Truncated(entry) == \E j \in DOMAIN entry : entry[j].how = "ok" /\ entry[j].truncated
Take(s, n) == SubSeq(s, 1, IF n < Len(s) THEN n ELSE Len(s))
Fairer(i, j) ==
    LET k == FairnessKey(done[i])
        l == FairnessKey(done[j]) IN Before(k, l) \/ (k = l /\ i < j)
MeetingAnswer ==
    LET ranked == SetToSortSeq({i \in DOMAIN done : Routed(i)}, Fairer)
        shown == Take(ranked, question.limit) IN
    [venues |-> shown, reasons |-> IF ranked = <<>> THEN {done[i][1].how : i \in DOMAIN done} ELSE {},
     truncated |-> \E n \in DOMAIN shown : Truncated(done[shown[n]])]

Lowest(S, V(_)) == IF S = {} THEN None ELSE CHOOSE i \in S : \A j \in S : V(i) < V(j) \/ (V(i) = V(j) /\ i <= j)
ModesAnswer ==
    LET ok == {i \in DOMAIN done : Routed(i)} IN
    [fastest |-> Lowest(ok, LAMBDA i : done[i][1].time), shortest |-> Lowest(ok, LAMBDA i : done[i][1].length)]

\* Nothing but pairs without a graph is an error.
Pairs == Rows \X Columns
FallbackAnswer ==
    IF \A i \in DOMAIN done : \A j \in DOMAIN done[i] : done[i][j].how = "no_graph" THEN Error("no_graph_nearby", None)
    ELSE [open |-> {p \in Pairs : done[p[1]][p[2]].how # "ok"}, truncated |-> \E i \in DOMAIN done : Truncated(done[i])]

Finish ==
    /\ at = "route" /\ row \notin Rows
    /\ Answer(CASE question.kind = "meet" -> MeetingAnswer
                [] question.kind = "modes" -> ModesAnswer
                [] OTHER -> FallbackAnswer)
    /\ UNCHANGED <<question, row, legs, done, best, cold, faults, evictions, built>>

\* One radius of the shared graph: complete, it is the answer, else a wider one
\* is tried, and the one with fewer open pairs is.
Open(s) == Pairs \ s.joins
ShareAnswer(s) == [open |-> Open(s), truncated |-> s.truncated]
ShareLast ==
    LET s == question.shared[row]
        last == row = Len(question.shared)
        found == IF s.usable THEN s ELSE best IN
    /\ at = "share"
    /\ best' = found
    /\ IF found # None /\ (last \/ (s.usable /\ Open(s) = {})) THEN Answer(ShareAnswer(found)) /\ UNCHANGED row
       ELSE IF last THEN Answer(Error("no_graph_nearby", None)) /\ UNCHANGED row
       ELSE row' = row + 1 /\ UNCHANGED <<at, answer>>
    /\ UNCHANGED <<question, legs, done, cold, faults, evictions, built>>

Share ==
    LET s == question.shared[row]
        last == row = Len(question.shared)
        found == IF s.usable /\ (best = None \/ Cardinality(Open(s)) < Cardinality(Open(best))) THEN s ELSE best IN
    /\ at = "share"
    /\ best' = found
    /\ IF found # None /\ (last \/ (s.usable /\ Open(s) = {})) THEN Answer(ShareAnswer(found)) /\ UNCHANGED row
       ELSE IF last THEN Answer(Error("no_graph_nearby", None)) /\ UNCHANGED row
       ELSE row' = row + 1 /\ UNCHANGED <<at, answer>>
    /\ UNCHANGED <<question, legs, done, cold, faults, evictions, built>>

ShareFails ==
    /\ at = "share" /\ faults < MaxFaults /\ faults' = faults + 1
    /\ Answer(Error("upstream", None))
    /\ UNCHANGED <<question, row, legs, done, best, cold, evictions, built>>

Next == Resolve \/ Venues \/ Route \/ Evict \/ Finish \/ Share \/ ShareFails

Spec == Init /\ [][Next]_vars

-----------------------------------------------------------------------------

TypeOK ==
    /\ question \in Question /\ at \in {"asked", "venues", "route", "share", "answered"}
    /\ row \in Nat \ {0} /\ DOMAIN legs \subseteq Nat /\ Len(done) <= Len(question.legs)
    /\ best \in ToSet(question.shared) \cup {None} /\ cold \subseteq Rows \X Columns
    /\ faults \in 0..MaxFaults /\ evictions \in 0..MaxEvictions /\ built \subseteq Rows \X Columns
    /\ answer = None <=> at # "answered"

Answered(kind) == at = "answered" /\ question.kind = kind /\ "error" \notin DOMAIN answer

\* The venues answered are routed for everyone, in the order of fairness, and
\* no venue is after one to which somebody has longer than anyone has to it.
MeetingIsFair ==
    Answered("meet") =>
        LET reach == {i \in Rows : \A j \in Columns : question.legs[i][j].how = "ok"}
            Time(i, j) == question.legs[i][j].time IN
        /\ ToSet(answer.venues) \subseteq reach
        /\ Len(answer.venues) = Min({question.limit, Cardinality(reach)})
        /\ \A n \in DOMAIN answer.venues, i \in reach :
              (\E k \in Columns : \A j \in Columns : Time(i, j) < Time(answer.venues[n], k))
                  => \E m \in 1..(n - 1) : answer.venues[m] = i
        /\ answer.venues = <<>> /\ question.legs # <<>> => answer.reasons # {} /\ answer.reasons \subseteq Failure

\* One mode's failure leaves the others as they are: the fastest is the
\* fastest of all that can be routed, if none was left out for the user's word.
ModesAreCompared ==
    Answered("modes") =>
        LET ways == {i \in Rows : question.legs[i][1].how = "ok"} IN
        /\ Len(done) = Len(question.legs)
        /\ \A i \in Rows : done[i][1].how = question.legs[i][1].how \/ done[i][1].how \in {"needs_confirm", "upstream", "eta_exceeded"}
        /\ answer.fastest # None => Routed(answer.fastest) /\ Routed(answer.shortest)
        /\ faults = 0 /\ (question.confirm \/ (question.cold = {} /\ evictions = 0)) =>
              \A i \in ways : /\ question.legs[answer.fastest][1].time <= question.legs[i][1].time
                              /\ question.legs[answer.shortest][1].length <= question.legs[i][1].length

\* A pair is open only when the street network leaves it so; no radius tried
\* would have left fewer, and a network cut short is said to be; the call fails
\* only when there is no street network for any pair.
MatrixIsComplete ==
    /\ question.kind = "matrix" /\ answer = Error("no_graph_nearby", None) =>
          IF question.shared = <<>> THEN \A i \in Rows, j \in Columns : question.legs[i][j].how = "no_graph"
          ELSE \A n \in DOMAIN question.shared : ~question.shared[n].usable
    /\ Answered("matrix") =>
        IF question.shared = <<>>
        THEN /\ answer.open = {p \in Rows \X Columns : question.legs[p[1]][p[2]].how # "ok"}
             /\ answer.truncated = \E p \in (Rows \X Columns) \ answer.open : question.legs[p[1]][p[2]].truncated
        ELSE \E n \in 1..row :
                LET s == question.shared[n] IN
                /\ s.usable /\ answer.open = (Rows \X Columns) \ s.joins /\ answer.truncated = s.truncated
                /\ \A m \in DOMAIN question.shared :
                      question.shared[m].usable =>
                          Cardinality(question.shared[m].joins \cap (Rows \X Columns)) <= Cardinality(s.joins \cap (Rows \X Columns))

\* Without the user's word a meeting or a comparison builds no graph but one
\* evicted after the peek; with it, none is asked for.
NoSurprise ==
    question.kind # "matrix" =>
        /\ Cardinality(built) > 0 => question.confirm \/ evictions > 0
        /\ question.confirm => \A i \in DOMAIN done, j \in {1} : done[i][1].how # "needs_confirm"
        /\ question.confirm /\ at = "answered" /\ "error" \in DOMAIN answer => answer.error # "needs_confirm"

\* The first end that fails is the error, before anything is routed; a point
\* of a meeting only when no name does.
EndsComeFirst ==
    LET wrong == Fails(question.ends, {"wrong", "unknown"}) IN
    at # "asked" /\ wrong # {} =>
        /\ answer.error = "bad_end" /\ answer.index \in wrong /\ built = {}
        /\ \A i \in wrong :
              IF question.kind = "meet" THEN question.ends[answer.index] = "wrong" => i >= answer.index /\ question.ends[i] = "wrong"
              ELSE i >= answer.index

TripsAreCompared == MeetingIsFair /\ ModesAreCompared /\ MatrixIsComplete /\ NoSurprise /\ EndsComeFirst
=============================================================================
