--------------------------- MODULE ResolveLadder ---------------------------
(***************************************************************************)
(* geocode/_resolve.py: how resolve_place() finds the places around a      *)
(* reference it was given or had to guess, merges them with what geocode() *)
(* answered, drops what is unrelated, and ranks the rest.  A row is known  *)
(* by what its name has in common with the question; scans are complete    *)
(* within their radius.                                                    *)
(***************************************************************************)
EXTENDS Naturals, FiniteSets, FiniteSetsExt

CONSTANTS
    Query,     \* the questions, each with the data around it
    Location,
    Near(_, _),  \* in one metropolitan area
    Pin, Stated, \* where an alias pins the question; where the caller says
    None

Label == {"exact", "prefix", "contains", "substring"}
Token == {"phrase", "word"}
Place ==
    [id : Nat, loc : Location, prominence : Nat,
     holds : SUBSET Token, alike : SUBSET Token,   \* parts of the question in the name, or close to it
     label : Label \cup {None}, alias : BOOLEAN,   \* earned, if by another spelling of the question
     kind : BOOLEAN,                               \* of the kind its last word names
     covers : BOOLEAN,                             \* every distinctive word of the search
     words : {"all", "rest", "few"},               \* every word of the question; all but the anchor's
     geocoded : BOOLEAN]                           \* among what geocode() answers
Area == [id : Nat, loc : Location, prominence : Nat, label : Label]
Question ==
    [places : SUBSET Place, areas : SUBSET Area, hint : {"alias", "near", "city", "none"},
     known : BOOLEAN,    \* the city of the hint is found
     anchor : [loc : Location, strong : BOOLEAN] \cup {None},  \* a word that may say where
     typed : BOOLEAN, remote : BOOLEAN, limit : Nat \ {0}]

Assumptions ==
    /\ \A l, m \in Location : Near(l, l) /\ (Near(l, m) => Near(m, l))
    /\ Pin \in Location /\ Stated \in Location /\ Near(Pin, Stated)
    /\ \A q \in Query :
          /\ q \in Question
          /\ \A r, s \in q.places \cup q.areas : r.id = s.id => r = s
          /\ \A r \in q.places :
                /\ "phrase" \in r.holds => r.holds = Token /\ r.covers /\ r.label \in {"exact", "prefix", "contains"}
                /\ r.label = "exact" /\ ~r.alias => "phrase" \in r.holds
                /\ r.words = "all" => r.covers

VARIABLES
    query, at,
    near,        \* what bounds the search
    reference,   \* what it is ranked by
    guess,       \* the reference is a guess at which words locate the question
    hits,        \* what geocode() answered
    held,        \* places found, with the token whose fallback found them
    confident,   \* the first round settled the question
    candidates

vars == <<query, at, near, reference, guess, hits, held, confident, candidates>>

Pinned == query.hint = "alias"

Init ==
    /\ query \in Query /\ at = "bound" /\ near = None /\ reference = None /\ guess = FALSE
    /\ hits = {} /\ held = {} /\ confident = FALSE /\ candidates = {}

\* An alias or a hint bounds the search; a city that is not found is ignored.
Bound ==
    /\ at = "bound"
    /\ near' = IF Pinned THEN Pin
               ELSE IF query.hint = "near" \/ (query.hint = "city" /\ query.known) THEN Stated
               ELSE None
    /\ at' = "geocode"
    /\ UNCHANGED <<query, reference, guess, hits, held, confident, candidates>>

Within(rows) == {r \in rows : near = None \/ Near(near, r.loc)}

\* The reference is what was stated, the best division, or a guess.
Geocode ==
    /\ at = "geocode"
    /\ hits' = Within(query.areas \cup {r \in query.places : r.geocoded})
    /\ LET areas == hits' \cap query.areas IN
       /\ guess' = (near = None /\ areas = {} /\ query.anchor # None)
       /\ reference' = IF near # None THEN near
                       ELSE IF areas # {} THEN (CHOOSE a \in areas : \A b \in areas : a.prominence >= b.prominence).loc
                       ELSE IF query.anchor # None THEN query.anchor.loc
                       ELSE None
    /\ at' = "first"
    /\ UNCHANGED <<query, near, held, confident, candidates>>

Around(l) == {r \in query.places : Near(l, r.loc)}
Found(rows, by) == {[place |-> r, by |-> by, typed |-> FALSE] : r \in rows}

\* find_places() by name: what holds the token, or else what comes close.
NameScan(token) ==
    LET holding == {r \in Around(reference) : token \in r.holds} IN
    IF holding # {} THEN Found(holding, None)
    ELSE Found({r \in Around(reference) : token \in r.alike}, token)
TypeScan == IF query.typed THEN {r \in Around(reference) : r.kind /\ "word" \in r.holds} ELSE {}

\* A row already held keeps how it was found first.
Merge(first, second) ==
    first \cup {f \in second : ~\E g \in first : g.place = f.place}
Tag(rows, kinds) ==
    {[f EXCEPT !.typed = f.place \in kinds] : f \in Merge(rows, Found(kinds, None))}

Covered == \* places geocode() found near the reference make the name scans redundant
    Cardinality({r \in hits \cap query.places : r.label # None /\ Near(reference, r.loc)}) >= query.limit
PhraseRows == IF Covered THEN {} ELSE NameScan("phrase")

SettledByAnyLabel == ~Pinned /\ ~guess /\ \E f \in PhraseRows : f.place.label # None

Settled ==
    /\ ~Pinned /\ ~guess
    /\ \/ \E f \in PhraseRows : f.by = None /\ f.place.label = "exact"
       \/ \E r \in TypeScan : r.covers

FirstRound ==
    /\ at = "first"
    /\ IF reference = None THEN UNCHANGED <<held, confident>>
       ELSE held' = PhraseRows /\ confident' = Settled
    /\ at' = "words"
    /\ UNCHANGED <<query, near, reference, guess, hits, candidates>>

Words(skip) ==
    IF reference = None THEN {}
    ELSE Tag(IF skip \/ Covered THEN PhraseRows ELSE Merge(PhraseRows, NameScan("word")), TypeScan)

WordRound ==
    /\ at = "words"
    /\ held' = Words(confident)
    /\ at' = "pin"
    /\ UNCHANGED <<query, near, reference, guess, hits, confident, candidates>>

\* What stands at the pin, whatever its name.
PinScan ==
    /\ at = "pin"
    /\ held' = IF Pinned THEN Merge(held, Found({r \in query.places : r.loc = Pin}, None)) ELSE held
    /\ at' = "merge"
    /\ UNCHANGED <<query, near, reference, guess, hits, confident, candidates>>

GradeTrusting(f) ==
    IF f.typed /\ f.place.covers THEN "exact" ELSE IF f.by = None THEN f.place.label ELSE "fuzzy"

\* A row that only came close to one word must cover the others.
Grade(f) ==
    IF f.typed /\ f.place.covers THEN "exact"
    ELSE IF f.by = None THEN f.place.label
    ELSE IF f.by = "phrase" \/ f.place.covers THEN "fuzzy" ELSE None

\* Near a guess a name has to account for every word but a strong anchor's own.
Accounts(r, excused) ==
    ~guess \/ r.words = "all" \/ (excused /\ query.anchor.strong /\ r.words = "rest")

Candidate(r, label, typed) == [row |-> r, label |-> label, typed |-> typed]
Merged(found) ==
    LET ofScans == {Candidate(f.place, Grade(f), f.typed) : f \in
                       {g \in found : Grade(g) # None /\ Accounts(g.place, TRUE)}}
        ofGeocode == {Candidate(r, r.label, FALSE) : r \in
                         {s \in hits \cap query.places :
                             s.label # None /\ Accounts(s, Near(reference, s.loc))
                             /\ ~\E c \in ofScans : c.row = s}} IN
    {Candidate(a, a.label, FALSE) : a \in hits \cap query.areas} \cup ofScans \cup ofGeocode

MergeRows ==
    /\ at = "merge"
    /\ candidates' = Merged(held)
    /\ at' = IF guess /\ candidates' = {} THEN "retry" ELSE "answered"
    /\ UNCHANGED <<query, near, reference, guess, hits, held, confident>>

\* The guess explained nothing: the question is a bare name, sought everywhere.
Retry ==
    /\ at = "retry"
    /\ reference' = None
    /\ candidates' =
          IF query.remote THEN {}
          ELSE {Candidate(r, r.label, FALSE) : r \in
                   {s \in query.places : s.label \in {"exact", "prefix"} /\ ~s.alias}}
    /\ at' = "answered"
    /\ UNCHANGED <<query, near, guess, hits, held, confident>>

Next == Bound \/ Geocode \/ FirstRound \/ WordRound \/ PinScan \/ MergeRows \/ Retry

Spec == Init /\ [][Next]_vars

\* The ranking: the alias's pin, the label, agreement of rows of the kind,
\* the distance, the prominence, the id.
Rank(c) == CASE c.label = "exact" -> 4 [] c.label = "prefix" -> 3 [] c.label = "contains" -> 2
             [] c.label = "substring" -> 1 [] c.label = "fuzzy" -> 0
Support(c, all) ==
    IF c.typed THEN Cardinality({d \in all \ {c} : d.typed /\ d.row.loc = c.row.loc}) ELSE 0
Far(c) == IF reference = None \/ c.row.loc = reference THEN 0 ELSE IF Near(reference, c.row.loc) THEN 1 ELSE 2
Key(c, all) ==
    <<IF Pinned /\ c.row.loc = Pin THEN 0 ELSE 1, 4 - Rank(c), 10 - Support(c, all), Far(c),
      10 - c.row.prominence, c.row.id>>
Before(k, l) == \E i \in DOMAIN k : k[i] < l[i] /\ \A j \in 1..(i - 1) : k[j] = l[j]
Top(all) == CHOOSE c \in all : \A d \in all \ {c} : Before(Key(c, all), Key(d, all))

-----------------------------------------------------------------------------

TypeOK ==
    /\ query \in Query
    /\ at \in {"bound", "geocode", "first", "words", "pin", "merge", "retry", "answered"}
    /\ near \in Location \cup {None} /\ reference \in Location \cup {None} /\ guess \in BOOLEAN
    /\ hits \subseteq query.areas \cup query.places /\ confident \in BOOLEAN
    /\ held \subseteq [place : query.places, by : Token \cup {None}, typed : BOOLEAN]
    /\ \A c \in candidates : c.row \in query.areas \cup query.places /\ c.label \in Label \cup {"fuzzy"}

Answered == at = "answered"

\* One row per id, and none from outside what bounds the search.
AnswersAreDistinct ==
    Answered =>
        /\ \A c, d \in candidates : c.row.id = d.row.id => c = d
        /\ near # None => \A c \in candidates : Near(near, c.row.loc)

\* Every place has to do with the whole question: its label says so, or its
\* name covers it, or it was close to the phrase itself.
PlacesAreRelated ==
    Answered =>
        \A c \in candidates : c.row \in query.places =>
            \/ c.row.label # None \/ c.row.covers \/ "phrase" \in c.row.alike

\* Near a guess a place accounts for every word of the question, by its name
\* or by where it is; anywhere else it has the question as its name.
GuessesAreHeldToAll ==
    Answered /\ guess =>
        \A c \in candidates :
            \/ c.row.words = "all"
            \/ c.row.words = "rest" /\ query.anchor.strong /\ Near(query.anchor.loc, c.row.loc)
            \/ c.label \in {"exact", "prefix"} /\ ~c.row.alias

\* What geocode() found and the gates accept is answered.
NothingGeocodedIsLost ==
    Answered /\ ~guess =>
        \A r \in hits : (r \in query.areas \/ r.label # None) => \E c \in candidates : c.row = r

\* A landmark that stands at its alias's pin is the first answer.
PinComesFirst ==
    Answered /\ Pinned /\ (\E r \in query.places : r.loc = Pin /\ r.label # None /\ r.alike = {}) =>
        candidates # {} /\ Top(candidates).row.loc = Pin

\* Leaving the words out when the first round settled the question does not
\* change the first answer, unless another spelling of it names something.
SkippedWordsDoNotMatter ==
    at = "merge" /\ confident /\ ~(\E r \in query.places : r.alias) =>
        /\ Merged(held) # {} /\ Top(Merged(Words(FALSE))).row = Top(Merged(held)).row

ResolvesAreHonest ==
    /\ AnswersAreDistinct /\ PlacesAreRelated /\ GuessesAreHeldToAll
    /\ NothingGeocodedIsLost /\ PinComesFirst /\ SkippedWordsDoNotMatter
=============================================================================
