--------------------------- MODULE AddressSearch ---------------------------
(***************************************************************************)
(* geocode/_addresses.py and _intersections.py: an address or a crossing   *)
(* in a city.  The city is anchored to an extent that is looked up in the  *)
(* dataset and remembered, then the street is scanned inside it; a house   *)
(* number that is not there is bracketed by its neighbours on the street.  *)
(***************************************************************************)
EXTENDS Integers, Sequences, FiniteSets, FiniteSetsExt, SequencesExt

CONSTANTS
    Release, Id,
    Extent,       \* of a division in a release: "none", "city" or "broad"
    Question,     \* addresses asked for, each with what is in the city
    Again,        \* bound: those that a later call may ask for
    Lead,         \* the number a house number begins with
    HalfFetch,    \* neighbours fetched on each side
    ClusterSize, MaxCrossings,
    MaxCalls, MaxRollovers, MaxFaults,
    None

Text == DOMAIN Lead
AddressPoint == [text : Text, street : {"NW", "SE"}, local : BOOLEAN, dist : Nat]
Arm == [to : Nat, names : SUBSET {"a", "b"}]
Node == [pos : Nat, arms : SUBSET Arm]  \* in the order of the distance to the centre
Asked ==
    [candidates : Seq([id : Id, country : {"x", "y", None}]), number : Text \cup {None}, limit : Nat \ {0},
     column : BOOLEAN,  \* the dataset has house numbers
     points : SUBSET AddressPoint, crossing : BOOLEAN, nodes : SUBSET Node]

Assumptions ==
    /\ Extent \in [Release -> [Id -> {"none", "city", "broad"}]] /\ Lead \in [Text -> Nat \cup {None}]
    /\ \A q \in Question :
          /\ q \in Asked /\ Len(q.candidates) <= 3
          /\ \A p, r \in q.points : p.dist = r.dist => p = r
          /\ \A i, j \in DOMAIN q.candidates : q.candidates[i].id = q.candidates[j].id => i = j
    /\ Again \subseteq Question
    /\ HalfFetch \in Nat \ {0} /\ ClusterSize \in Nat /\ MaxCrossings \in Nat \ {0}
    /\ MaxCalls \in Nat /\ MaxRollovers \in Nat /\ MaxFaults \in Nat

VARIABLES
    active, memo,   \* the release; the extents remembered for each
    question, at,
    next,           \* the candidate whose extent is looked up
    key,            \* the release read for the memo before the scan
    anchor, rows, match, distinct,
    used, raced     \* ghosts: faults, rollovers and calls; entries whose release moved on meanwhile

vars == <<active, memo, question, at, next, key, anchor, rows, match, distinct, used, raced>>

Init ==
    /\ active \in Release /\ memo = [r \in Release |-> [i \in Id |-> "unknown"]]
    /\ question = None /\ at = "idle" /\ next = 0 /\ key = None
    /\ anchor = None /\ rows = <<>> /\ match = None /\ distinct = 0
    /\ used = [calls |-> 0, rollovers |-> 0, faults |-> 0] /\ raced = {}

Rollover ==
    /\ used.rollovers < MaxRollovers
    /\ \E r \in Release \ {active} : active' = r
    /\ used' = [used EXCEPT !.rollovers = @ + 1]
    /\ UNCHANGED <<memo, question, at, next, key, anchor, rows, match, distinct, raced>>

Candidates == question.candidates
Top == Candidates[1]
SameCountry(c, d) == c.country # None /\ c.country = d.country

\* A crossing goes to the intersection search, which anchors the city alike.
Ask(q) ==
    /\ at \in {"idle", "answered"} /\ used.calls < MaxCalls
    /\ used.calls = 0 \/ q \in Again
    /\ question' = q /\ next' = 1 /\ key' = active
    /\ at' = IF q.candidates = <<>> THEN "answered" ELSE "warm"
    /\ anchor' = None /\ rows' = <<>> /\ match' = None /\ distinct' = 0
    /\ used' = [used EXCEPT !.calls = @ + 1]
    /\ UNCHANGED <<active, memo, raced>>

\* Looked up in one scan: the best candidate and those of its country.
Wanted ==
    {Candidates[i].id : i \in {j \in DOMAIN Candidates : j = 1 \/ SameCountry(Candidates[j], Top)}}
Missing == {i \in Wanted : memo[key][i] = "unknown"}
Learn(ids) ==
    /\ memo' = [memo EXCEPT ![key] = [i \in Id |-> IF i \in ids THEN Extent[active][i] ELSE @[i]]]
    /\ raced' = IF key = active THEN raced ELSE raced \cup ({key} \X ids)
Fault == used.faults < MaxFaults /\ used' = [used EXCEPT !.faults = @ + 1] /\ UNCHANGED <<memo, raced>>

Warm ==
    /\ at = "warm"
    /\ \/ Cardinality(Missing) < 2 /\ UNCHANGED <<memo, raced, used>>
       \/ Cardinality(Missing) >= 2 /\ Learn(Missing) /\ UNCHANGED used
       \/ Cardinality(Missing) >= 2 /\ Fault
    /\ at' = "look" /\ key' = active
    /\ UNCHANGED <<active, question, next, anchor, rows, match, distinct>>

\* The city is the first candidate that is no larger than one; only the best
\* may be of another country than the best.
Decide(extent) ==
    IF extent = "city" THEN
        /\ anchor' = Candidates[next] /\ next' = next
        /\ at' = IF question.crossing /\ question.number = None THEN "cross" ELSE "scan"
    ELSE
        /\ anchor' = None
        /\ \E n \in (next + 1)..(Len(Candidates) + 1) :
              /\ \A m \in (next + 1)..(n - 1) : ~SameCountry(Candidates[m], Top)
              /\ n <= Len(Candidates) => SameCountry(Candidates[n], Top)
              /\ next' = n /\ at' = IF n > Len(Candidates) THEN "answered" ELSE "look"

RememberFailure ==
    /\ at = "look" /\ memo[key][Candidates[next].id] = "unknown"
    /\ \/ Learn({Candidates[next].id}) /\ Decide(Extent[active][Candidates[next].id]) /\ UNCHANGED used
       \/ /\ used.faults < MaxFaults /\ used' = [used EXCEPT !.faults = @ + 1]
          /\ memo' = [memo EXCEPT ![key][Candidates[next].id] = "none"] /\ Decide("none") /\ UNCHANGED raced
    /\ key' = active
    /\ UNCHANGED <<active, question, rows, match, distinct>>

\* A scan that fails finds no extent, and is not remembered.
LookUp ==
    /\ at = "look" /\ memo[key][Candidates[next].id] = "unknown"
    /\ \/ Learn({Candidates[next].id}) /\ Decide(Extent[active][Candidates[next].id]) /\ UNCHANGED used
       \/ Fault /\ Decide("none")
    /\ key' = active
    /\ UNCHANGED <<active, question, rows, match, distinct>>

Remembered ==
    /\ at = "look" /\ memo[key][Candidates[next].id] # "unknown"
    /\ Decide(memo[key][Candidates[next].id])
    /\ key' = active
    /\ UNCHANGED <<active, memo, question, rows, match, distinct, used, raced>>

Take(s, n) == SubSeq(s, 1, IF n < Len(s) THEN n ELSE Len(s))
LocalFirst(p, r) == p.local /\ ~r.local
Nearest(S) ==
    SetToSortSeq(S, LAMBDA p, r : LocalFirst(p, r) \/ (p.local = r.local /\ p.dist < r.dist))

Filters == question.number # None /\ question.column
Scan ==
    /\ at = "scan"
    /\ LET found == {p \in question.points : Filters => p.text = question.number} IN
       /\ rows' = Take(Nearest(found), question.limit) /\ distinct' = Cardinality(found)
       /\ at' = IF Filters /\ found = {} /\ Lead[question.number] # None THEN "near" ELSE "answered"
       /\ match' = IF question.number # None /\ question.column /\ found # {} THEN "exact" ELSE "street"
    /\ UNCHANGED <<active, memo, question, next, key, anchor, used, raced>>

Target == Lead[question.number]
Abs(n) == IF n < 0 THEN -n ELSE n
Gap(p) == Abs(Lead[p.text] - Target)
Closer(p, r) ==
    LocalFirst(p, r) \/ (p.local = r.local /\ (Gap(p) < Gap(r) \/ (Gap(p) = Gap(r) /\ p.dist < r.dist)))

\* The neighbours of the target, some from each side.
Sides ==
    LET numbered == {p \in question.points : Lead[p.text] # None}
        Side(S) == ToSet(Take(SetToSortSeq(S, Closer), HalfFetch)) IN
    Side({p \in numbered : Lead[p.text] <= Target}) \cup Side({p \in numbered : Lead[p.text] > Target})

\* One street only, that of the closest: the number below and the number
\* above, or two of the one side there is.
BracketAnyStreet(fetched, limit) ==
    LET below == SetToSortSeq({p \in fetched : Lead[p.text] <= Target}, LAMBDA p, r : Gap(p) < Gap(r) \/ (Gap(p) = Gap(r) /\ p.dist < r.dist))
        above == SetToSortSeq({p \in fetched : Lead[p.text] > Target}, LAMBDA p, r : Gap(p) < Gap(r) \/ (Gap(p) = Gap(r) /\ p.dist < r.dist)) IN
    Take(SetToSortSeq(ToSet(Take(below, 1) \o Take(above, 1)), LAMBDA p, r : Gap(p) <= Gap(r)), limit)

Bracket(fetched, limit) ==
    LET first == SetToSortSeq(fetched, Closer)[1]
        street == {p \in fetched : p.street = first.street}
        Near(p, r) == Gap(p) < Gap(r) \/ (Gap(p) = Gap(r) /\ Closer(p, r))
        below == SetToSortSeq({p \in street : Lead[p.text] <= Target}, Near)
        above == SetToSortSeq({p \in street : Lead[p.text] > Target}, Near)
        chosen == IF below # <<>> /\ above # <<>> THEN {below[1], above[1]}
                  ELSE ToSet(Take(below \o above, 2))
        Lower(p, r) == Lead[p.text] < Lead[r.text] \/ (Lead[p.text] = Lead[r.text] /\ Closer(p, r))
        kept == Take(SetToSortSeq(chosen, LAMBDA p, r : Gap(p) < Gap(r) \/ (Gap(p) = Gap(r) /\ Lower(p, r))), limit) IN
    SetToSortSeq(ToSet(kept), Lower)

Neighbours ==
    /\ at = "near"
    /\ IF Sides = {} THEN UNCHANGED <<rows, match>>
       ELSE rows' = Bracket(Sides, question.limit) /\ match' = "nearest_number"
    /\ at' = "answered"
    /\ UNCHANGED <<active, memo, question, next, key, anchor, distinct, used, raced>>

\* A junction of three roads or more where one that matches meets another.
Crosses(n) ==
    /\ Cardinality(n.arms) >= 3
    /\ \E x, y \in n.arms : x # y /\ "a" \in x.names /\ "b" \in y.names

\* Crossings nearest the centre first, one for each cluster.
Cluster(found) ==
    FoldLeft(LAMBDA kept, n : IF Len(kept) = MaxCrossings \/ \E m \in ToSet(kept) : Abs(m.pos - n.pos) < ClusterSize
                              THEN kept ELSE Append(kept, n),
             <<>>, found)

Cross ==
    /\ at = "cross"
    /\ rows' = Cluster(SetToSortSeq({n \in question.nodes : Crosses(n)}, LAMBDA m, n : m.pos < n.pos))
    /\ at' = "answered"
    /\ UNCHANGED <<active, memo, question, next, key, anchor, match, distinct, used, raced>>

Next ==
    \/ Rollover \/ (\E q \in Question : Ask(q))
    \/ Warm \/ LookUp \/ Remembered \/ Scan \/ Neighbours \/ Cross

Spec == Init /\ [][Next]_vars

-----------------------------------------------------------------------------

TypeOK ==
    /\ active \in Release /\ memo \in [Release -> [Id -> {"unknown", "none", "city", "broad"}]]
    /\ question \in Question \cup {None}
    /\ at \in {"idle", "warm", "look", "scan", "near", "cross", "answered"}
    /\ next \in Nat /\ key \in Release \cup {None} /\ distinct \in Nat
    /\ match \in {None, "exact", "street", "nearest_number"} /\ raced \subseteq Release \X Id
    /\ anchor # None => anchor \in ToSet(Candidates)

\* What is remembered of a division is what the release says of it: a failed
\* scan leaves nothing behind, unless the release moved on under the scan.
MemoIsTrue ==
    \A r \in Release, i \in Id :
        memo[r][i] \in {"unknown", Extent[r][i]} \/ <<r, i>> \in raced

\* The city searched is the best candidate, or one of its country when the
\* best has no extent of a city; nothing is scanned without one.
AnchorIsTheCity ==
    /\ anchor # None =>
          /\ \E r \in Release : Extent[r][anchor.id] = "city"
          /\ anchor = Top \/ SameCountry(anchor, Top)
          /\ used.faults = 0 /\ used.rollovers = 0 =>
                \A i \in DOMAIN Candidates :
                    (i < next /\ (i = 1 \/ SameCountry(Candidates[i], Top))) => Extent[active][Candidates[i].id] # "city"
    /\ rows # <<>> => anchor # None

\* A doorway is only called exact when it has the number asked for, and a
\* number is bracketed only when no doorway has it.
MatchIsHonest ==
    at = "answered" /\ anchor # None /\ ~(question.crossing /\ question.number = None) =>
        /\ match = "exact" <=> \E i \in DOMAIN rows : Filters /\ rows[i].text = question.number
        /\ match = "exact" => \A i \in DOMAIN rows : rows[i].text = question.number
        /\ match = "nearest_number" => \A p \in question.points : p.text # question.number
        /\ match = "street" /\ Filters => rows = <<>>

\* Numbers that bracket the target are those of one street, and no doorway of
\* that street comes between, unless one of another town's with the fetch full.
BracketsAreTight ==
    at = "answered" /\ match = "nearest_number" =>
        LET Below(p) == Lead[p.text] <= Target
            street == {p \in question.points : Lead[p.text] # None /\ p.street = rows[1].street}
            Hidden(p) == ~p.local /\ Cardinality(question.points) > HalfFetch IN
        /\ ToSet(rows) \subseteq street
        /\ \A p \in street \ ToSet(rows), r \in ToSet(rows) :
              Below(p) = Below(r) /\ Gap(p) < Gap(r) => Hidden(p)
        /\ Len(rows) = 2 /\ Below(rows[1]) = Below(rows[2]) =>
              \A p \in street : Below(p) = Below(rows[1]) \/ Hidden(p)

\* Crossings are junctions of both streets, apart from each other, and every
\* one that is left out is near one that is not, or the answer is full.
CrossingsAreReal ==
    at = "answered" /\ question.crossing /\ question.number = None =>
        /\ \A i \in DOMAIN rows : \E x, y, z \in rows[i].arms :
              Cardinality({x, y, z}) = 3 /\ "a" \in x.names /\ "b" \in y.names
        /\ \A i, j \in DOMAIN rows : i < j => rows[j].pos - rows[i].pos >= ClusterSize
        /\ anchor # None /\ Len(rows) < MaxCrossings =>
              \A n \in question.nodes : Crosses(n) => \E i \in DOMAIN rows : Abs(n.pos - rows[i].pos) < Max({1, ClusterSize})

AddressesAreHonest ==
    MemoIsTrue /\ AnchorIsTheCity /\ MatchIsHonest /\ BracketsAreTight /\ CrossingsAreReal
=============================================================================
