---------------------------- MODULE ReleaseDiff ----------------------------
(***************************************************************************)
(* changes.py and changes_in_area() of server.py: the places of an area in *)
(* two releases, each read up to SCAN_LIMIT rows in the order of their     *)
(* ids, are compared by id, cut to a limit, to a digest and to the token   *)
(* budget.  Which rows a cut keeps (by confidence, by size) is left open.  *)
(***************************************************************************)
EXTENDS Naturals, FiniteSets

CONSTANTS
    Id,         \* numbers, in the order of ids
    Name, Category,
    Places,     \* what the area may hold: places by release "a", "b" and id
    Gone,       \* the id is not in the release
    Gaps,       \* columns the releases may lack: "name", "category"
    ScanLimit,
    MaxRows,    \* overture.MAX_ROWS
    Limit,      \* limits asked for
    None

Side == {"a", "b"}
Bucket == {"appeared", "disappeared", "changed"}
Place == [name : Name, category : Category]

\* What is assumed of the constants.
Assumptions ==
    /\ Id \subseteq Nat /\ IsFiniteSet(Id)
    /\ Places \subseteq [Side -> [Id -> Place \cup {Gone}]] /\ Gone \notin Place
    /\ Gaps \subseteq [Side -> SUBSET {"name", "category"}]
    /\ ScanLimit \in Nat \ {0} /\ MaxRows \in Nat \ {0} /\ Limit \subseteq Nat
    /\ None \notin Name \cup Category

VARIABLES
    places, lacks,   \* the two releases
    category,        \* the category asked for
    limit,
    at,              \* "asked", "diffed", "answered"
    lists,           \* the three lists
    counts,          \* how many each had, and how many ids are unchanged
    truncated

vars == <<places, lacks, category, limit, at, lists, counts, truncated>>
given == <<places, lacks, category, limit>>

NoRows == [b \in Bucket |-> {}]

Init ==
    /\ places \in Places
    /\ lacks \in Gaps
    /\ category \in Category \cup {None}
    /\ limit \in Limit
    /\ at = "asked"
    /\ lists = NoRows
    /\ counts = [b \in Bucket |-> 0] /\ truncated = FALSE

-----------------------------------------------------------------------------
(* diff_places().                                                          *)

\* _category_filter(): no filter at all where the columns are missing.
Matching(s) ==
    {i \in Id : /\ places[s][i] # Gone
                /\ category = None \/ "category" \in lacks[s] \/ places[s][i].category = category}

\* _scan_release(): ORDER BY id LIMIT SCAN_LIMIT
Scanned(s) == {i \in Matching(s) : Cardinality({j \in Matching(s) : j <= i}) <= ScanLimit}
Capped(s) == Cardinality(Scanned(s)) >= ScanLimit

\* _select_exprs(): a missing column reads as NULL.
Shown(s, i) ==
    [name |-> IF "name" \in lacks[s] THEN None ELSE places[s][i].name,
     category |-> IF "category" \in lacks[s] THEN None ELSE places[s][i].category]

Difference(A, B) ==
    [appeared |-> B \ A, disappeared |-> A \ B, changed |-> {i \in A \cap B : Shown("a", i) # Shown("b", i)}]

Least(m, n) == IF m <= n THEN m ELSE n

\* What is left of a list cut to n rows.
Cuts(S, n) == {T \in SUBSET S : Cardinality(T) = Least(n, Cardinality(S))}

\* Partial views that do not say so.
CutOnly(diff, n) == \E b \in Bucket : Cardinality(diff[b]) > n

\* Either scan was capped, or some list was.
Partial(diff, n) == Capped("a") \/ Capped("b") \/ \E b \in Bucket : Cardinality(diff[b]) > n

\* diff_places() and changes_digest(), which cuts once more.
Diff ==
    LET diff == Difference(Scanned("a"), Scanned("b"))
        n == Least(limit, MaxRows)
    IN /\ at = "asked"
       /\ at' = "diffed"
       /\ \E x \in Cuts(diff["appeared"], n), y \in Cuts(diff["disappeared"], n), z \in Cuts(diff["changed"], n) :
             lists' = [appeared |-> x, disappeared |-> y, changed |-> z]
       /\ counts' = [b \in Bucket |-> Cardinality(diff[b])]
       /\ truncated' = Partial(diff, n)
       /\ UNCHANGED given

\* apply_budget() for each list in turn, which leaves a row of each.
Budget(b) ==
    /\ at = "diffed"
    /\ \E T \in SUBSET lists[b] :
          /\ T # {}
          /\ T # lists[b]
          /\ lists' = [lists EXCEPT ![b] = T]
    /\ truncated' = TRUE
    /\ UNCHANGED <<given, at, counts>>

Answer ==
    /\ at = "diffed"
    /\ at' = "answered"
    /\ UNCHANGED <<given, lists, counts, truncated>>

Next == Diff \/ (\E b \in Bucket : Budget(b)) \/ Answer

Spec == Init /\ [][Next]_vars

-----------------------------------------------------------------------------
TypeOK ==
    /\ places \in Places /\ lacks \in Gaps
    /\ category \in Category \cup {None} /\ limit \in Limit
    /\ at \in {"asked", "diffed", "answered"}
    /\ lists \in [Bucket -> SUBSET Id]
    /\ counts \in [Bucket -> Nat] /\ truncated \in BOOLEAN

\* What is true of the area and the category.
In(s) == {i \in Id : places[s][i] # Gone /\ (category = None \/ places[s][i].category = category)}
Truth ==
    [appeared |-> In("b") \ In("a"), disappeared |-> In("a") \ In("b"),
     changed |-> {i \in In("a") \cap In("b") : places["a"][i] # places["b"][i]}]

WholeSchemas == lacks["a"] \cup lacks["b"] = {}

\* An answer that is not marked as truncated lists exactly what changed.
UnmarkedIsComplete == at = "answered" /\ ~truncated /\ WholeSchemas => lists = Truth

\* The counts are exact whatever the lists were cut to, if no scan was capped.
CountsAreExact ==
    at = "answered" /\ WholeSchemas /\ ~Capped("a") /\ ~Capped("b") =>
        \A b \in Bucket : counts[b] = Cardinality(Truth[b]) /\ lists[b] \subseteq Truth[b]

\* Up to the last id that both scans reached, even capped scans report no
\* appearance, disappearance or change that is not one.
Reached(i) == \A s \in Side : ~Capped(s) \/ \E j \in Scanned(s) : i <= j
WindowIsExact ==
    at = "answered" /\ WholeSchemas =>
        \A b \in Bucket : {i \in lists[b] : Reached(i)} \subseteq Truth[b]

DiffsAreHonest == UnmarkedIsComplete /\ CountsAreExact /\ WindowIsExact
=============================================================================
