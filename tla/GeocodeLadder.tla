--------------------------- MODULE GeocodeLadder ---------------------------
(***************************************************************************)
(* geocode/_detailed.py: how geocode() goes from pass to pass over the     *)
(* division names and the places until one answers, and which filters and  *)
(* notes survive on the way.  A name is known by how the data spells it    *)
(* next to the question; ranking is left out.                              *)
(***************************************************************************)
EXTENDS Naturals, Sequences, FiniteSets, FiniteSetsExt

CONSTANTS
    Query,      \* the questions, each with the data that answers it
    Location,   \* boxes a near constraint, an anchor or an alias names
    Country,
    CountryOf,  \* the country of each region
    Limit,      \* results asked for
    None

Spelling == {"plain", "alternate", "abbrev", "folded", "typo"}
Division ==
    [as : Spelling, tier : 1..3,  \* substring, prefix, exact
     whole : BOOLEAN,             \* contains the qualifier as well
     region : DOMAIN CountryOf \cup {None}, country : Country,
     loc : Location, populated : BOOLEAN, popular : BOOLEAN]
Qualifier == [kind : {"region", "country", "unknown"}, comma : BOOLEAN,
              code : DOMAIN CountryOf \cup Country \cup {None}]
Question ==
    [rows : SUBSET Division, places : SUBSET Location,  \* where places of that name are
     qualifier : Qualifier \cup {None}, explicit : Country \cup {None},
     near : Location \cup {None}, alias : Location \cup {None},
     splits : Seq(Location), generic : BOOLEAN,  \* anchors in the words; nothing else is in them
     feature : BOOLEAN, remote : BOOLEAN, table : {"full", "bundled", "none"}, alt : BOOLEAN,
     postcode : {"no", "hit", "miss"}]

Assumptions ==
    /\ \A q \in Query :
          /\ q \in Question /\ (q.table = "none" => ~q.alt)
          /\ \A d \in q.rows : (d.popular => d.populated) /\ (d.region # None => CountryOf[d.region] = d.country)
          /\ q.qualifier # None /\ q.qualifier.kind = "unknown" => q.qualifier.comma
    /\ Limit \in Nat \ {0} /\ CountryOf \in [DOMAIN CountryOf -> Country]

VARIABLES
    query, at,
    text,                \* what is searched for: the base name, or the whole query
    region, country,     \* filters
    divisions, fuzzy,    \* rows found; those of them that correct a spelling
    pending,             \* the bundled index may lack the name
    places, scheduled,   \* where places were found; boxes whose tiles are fetched
    qualifierNote, note,
    recalls              \* ghost: unbounded scans made for the bundled index

vars == <<query, at, text, region, country, divisions, fuzzy, pending, places, scheduled,
          qualifierNote, note, recalls>>

Holds(d, t) == t = "base" \/ query.qualifier = None \/ d.whole
Passes(d, r, c, n) == r \in {None, d.region} /\ c \in {None, d.country} /\ n \in {None, d.loc}

\* One pass of _query_divisions() over a table, or over the upstream theme ("none").
Found(table, as, t, r, c, n) ==
    {d \in query.rows : d.as \in as /\ (table = "bundled" => d.popular) /\ Holds(d, t) /\ Passes(d, r, c, n)}
Literal(t, r, c) ==
    Found(query.table, IF query.alt THEN {"plain", "alternate"} ELSE {"plain"}, t, r, c, query.near)

\* A row that answers the whole query is only a prefix match of the base name.
Tier(d) == IF d.whole /\ text = "base" /\ query.qualifier # None /\ d.tier = 3 THEN 2 ELSE d.tier

\* A bare last word is no qualifier of a query that is itself a division's name.
Parsed ==
    IF /\ query.qualifier # None /\ ~query.qualifier.comma /\ query.table # "none"
       /\ \E d \in Found(query.table, {"plain"}, "whole", None, None, None) : d.tier = 3
    THEN None ELSE query.qualifier
Reads(kind) == Parsed # None /\ Parsed.kind = kind
RegionCode == IF Reads("region") THEN Parsed.code ELSE None
CountryCode ==
    IF query.explicit # None THEN query.explicit ELSE IF Reads("country") THEN Parsed.code ELSE None

Conflict ==
    /\ query.explicit # None
    /\ \/ Reads("country") /\ Parsed.code # query.explicit
       \/ Reads("region") /\ CountryOf[Parsed.code] # query.explicit

Init ==
    /\ query \in Query /\ at = "start"
    /\ text = "whole" /\ region = None /\ country = None
    /\ divisions = {} /\ fuzzy = {} /\ pending = FALSE
    /\ places = {} /\ scheduled = {}
    /\ qualifierNote = None /\ note = None /\ recalls = 0

\* A postcode answers at once; a country that contradicts the query is refused.
Leave ==
    /\ at = "start" /\ (query.postcode = "hit" \/ Conflict)
    /\ at' = IF query.postcode = "hit" THEN "postcode" ELSE "refused"
    /\ UNCHANGED <<query, text, region, country, divisions, fuzzy, pending, places, scheduled,
                   qualifierNote, note, recalls>>

Parse ==
    /\ at = "start" /\ query.postcode # "hit" /\ ~Conflict
    /\ LET unread == Reads("unknown") /\ query.explicit = None IN
       /\ text' = IF Reads("region") \/ Reads("country") \/ unread THEN "base" ELSE "whole"
       /\ qualifierNote' = IF unread THEN "unrecognized" ELSE None
    /\ region' = RegionCode /\ country' = CountryCode
    /\ at' = "literal"
    /\ UNCHANGED <<query, divisions, fuzzy, pending, places, scheduled, note, recalls>>

LiteralHit ==
    /\ at = "literal"
    /\ LET found == Literal(text, region, country) IN
       /\ found # {} \/ (region = None /\ (country = None \/ query.explicit # None))
       /\ divisions' = found
    /\ at' = "variants"
    /\ UNCHANGED <<query, text, region, country, fuzzy, pending, places, scheduled, qualifierNote, note, recalls>>

DegradeToWorld ==
    /\ at = "literal" /\ region # None /\ Literal(text, region, country) = {}
    /\ region' = None /\ country' = None /\ text' = "whole"
    /\ divisions' = Literal("whole", None, None)
    /\ at' = "variants"
    /\ UNCHANGED <<query, fuzzy, pending, places, scheduled, qualifierNote, note, recalls>>

\* Nothing inside the region: the whole query is searched, without a note.
DegradeRegion ==
    /\ at = "literal" /\ region # None /\ Literal(text, region, country) = {}
    /\ region' = None /\ country' = query.explicit /\ text' = "whole"
    /\ divisions' = Literal("whole", None, query.explicit)
    /\ at' = "variants"
    /\ UNCHANGED <<query, fuzzy, pending, places, scheduled, qualifierNote, note, recalls>>

\* Nothing inside a country read off the query: the base name, with a note.
DegradeCountry ==
    /\ at = "literal" /\ region = None /\ country # None /\ query.explicit = None
    /\ Literal(text, region, country) = {}
    /\ country' = None /\ text' = (IF Parsed.comma THEN "base" ELSE "whole")
    /\ divisions' = Literal(text', None, None)
    /\ qualifierNote' = "degraded" /\ at' = "variants"
    /\ UNCHANGED <<query, region, fuzzy, pending, places, scheduled, note, recalls>>

\* An exact or prefix match of the best tier that has a population.
GoodEnough ==
    LET best == Max({0} \cup {Tier(d) : d \in divisions}) IN
    best >= 2 /\ \E d \in divisions : Tier(d) = best /\ d.populated

Variants ==
    /\ at = "variants"
    /\ divisions' = divisions
         \cup (IF GoodEnough THEN {} ELSE Found(query.table, {"abbrev"}, text, region, country, query.near))
         \cup (IF GoodEnough /\ (query.near # None \/ query.table = "none") THEN {}
               ELSE Found(query.table, {"plain", "folded"}, text, region, country, query.near))
    /\ at' = "fuzzy"
    /\ UNCHANGED <<query, text, region, country, fuzzy, pending, places, scheduled, qualifierNote, note, recalls>>

\* Names within edit distance of the base name; the name itself is one.
Similar(r, c) ==
    {d \in Found(query.table, {"plain", "folded", "typo"}, "base", r, c, query.near) :
        d.as = "typo" \/ (d.tier = 3 /\ (query.qualifier = None \/ ~d.whole))}

\* The bundled index is skipped, unless a qualifier is to be dropped.
Fuzzy ==
    LET first == IF query.table = "full" THEN Similar(RegionCode, CountryCode) ELSE {}
        drops == RegionCode # None \/ (CountryCode # None /\ query.explicit = None) IN
    IF divisions # {} \/ query.table = "none" THEN {}
    ELSE IF first = {} /\ drops THEN Similar(None, query.explicit) ELSE first

FuzzyPass ==
    /\ at = "fuzzy"
    /\ fuzzy' = Fuzzy /\ divisions' = divisions \cup Fuzzy
    /\ pending' = (divisions' = {} /\ query.table = "bundled")
    /\ at' = "recall"
    /\ UNCHANGED <<query, text, region, country, places, scheduled, qualifierNote, note, recalls>>

Upstream(n) == Found("none", {"plain"}, text, region, country, n)

\* Without an anchor the theme itself is scanned for a name the bundled index
\* lacks; an alias then keeps only the rows around its pin.
Recall ==
    /\ at = "recall"
    /\ LET scans == pending /\ ~query.feature /\ query.near = None /\ query.splits = <<>>
           rows == IF scans THEN Upstream(None) ELSE divisions
           AtPin(D) == {d \in D : query.alias \in {None, d.loc}} IN
       /\ divisions' = AtPin(rows) /\ fuzzy' = AtPin(fuzzy)
       /\ pending' = (pending /\ ~scans)
       /\ recalls' = recalls + IF scans THEN 1 ELSE 0
    /\ at' = "places"
    /\ UNCHANGED <<query, text, region, country, places, scheduled, qualifierNote, note>>

WantsPlaces ==
    Cardinality(divisions) < Limit /\ fuzzy = {} /\ ~\E d \in divisions : Tier(d) = 3

\* Where to look for places, with the best division found at `top'.
Anchors(top) ==
    LET rest == IF query.near # None THEN <<query.near>>
                ELSE IF top # None THEN <<top>> ELSE query.splits IN
    IF query.alias = None THEN rest
    ELSE <<query.alias>> \o SelectSeq(rest, LAMBDA l : l # query.alias)
Nameless ==
    query.generic /\ (query.alias # None \/ (query.near = None /\ divisions = {} /\ query.splits # <<>>))
Guessed == query.near = None /\ query.alias = None /\ divisions = {}

SkipPlaces ==
    /\ at = "places"
    /\ \/ ~WantsPlaces /\ UNCHANGED note
       \/ WantsPlaces /\ Nameless /\ note' = "nothing to name"
       \/ /\ WantsPlaces /\ ~Nameless /\ Guessed /\ query.splits = <<>> /\ query.remote
          /\ note' = "no anchor"
    /\ at' = "last"
    /\ UNCHANGED <<query, text, region, country, divisions, fuzzy, pending, places, scheduled, qualifierNote, recalls>>

TilesAtOnce(anchors, found) == IF anchors = <<>> THEN {{}} ELSE {{anchors[1]}}

\* The first anchor's box, or else those of all the others at once; the tiles
\* of a guessed box are only fetched if it answered.
Tiles(anchors, found) ==
    IF anchors = <<>> THEN {{}}
    ELSE IF ~Guessed THEN {{anchors[1]}}
    ELSE IF found = {} THEN {{}}
    ELSE IF anchors[1] \in found THEN {{anchors[1]}} ELSE {{l} : l \in found}

SearchPlaces ==
    /\ at = "places" /\ WantsPlaces /\ ~Nameless
    /\ ~(Guessed /\ query.splits = <<>> /\ query.remote)
    /\ \E top \in (IF divisions = {} THEN {None} ELSE {d.loc : d \in divisions}) :
          LET anchors == Anchors(top)
              In(S) == query.places \cap S
              others == {anchors[i] : i \in DOMAIN anchors \ {1}} IN
          /\ places' = IF anchors = <<>> THEN query.places
                       ELSE IF In({anchors[1]}) # {} THEN In({anchors[1]}) ELSE In(others)
          /\ \E tiles \in Tiles(anchors, places') : scheduled' = tiles
    /\ at' = "last"
    /\ UNCHANGED <<query, text, region, country, divisions, fuzzy, pending, qualifierNote, note, recalls>>

LastRecall ==
    /\ at = "last"
    /\ LET scans == divisions = {} /\ places = {} /\ pending /\ ~query.feature IN
       /\ divisions' = IF scans THEN Upstream(query.near) ELSE divisions
       /\ recalls' = recalls + IF scans THEN 1 ELSE 0
    /\ at' = "answered"
    /\ UNCHANGED <<query, text, region, country, fuzzy, pending, places, scheduled, qualifierNote, note>>

Next ==
    \/ Leave \/ Parse \/ LiteralHit \/ DegradeRegion \/ DegradeCountry \/ Variants
    \/ FuzzyPass \/ Recall \/ SkipPlaces \/ SearchPlaces \/ LastRecall

Spec == Init /\ [][Next]_vars

\* The note that goes with the answer.
Empty == divisions = {} /\ places = {}
Note ==
    IF Empty /\ query.postcode = "miss" THEN "no postcode"
    ELSE IF Empty /\ note # None THEN note
    ELSE IF fuzzy # {} THEN "corrected" ELSE qualifierNote

-----------------------------------------------------------------------------

TypeOK ==
    /\ query \in Query
    /\ at \in {"start", "refused", "postcode", "literal", "variants", "fuzzy", "recall", "places", "last", "answered"}
    /\ text \in {"base", "whole"} /\ region \in DOMAIN CountryOf \cup {None}
    /\ country \in Country \cup {None}
    /\ fuzzy \subseteq divisions /\ divisions \subseteq query.rows /\ pending \in BOOLEAN
    /\ places \subseteq query.places /\ scheduled \subseteq Location
    /\ qualifierNote \in {None, "unrecognized", "degraded"} /\ note \in {None, "nothing to name", "no anchor"}
    /\ recalls \in 0..1

\* What the caller states is never given up, whatever is retried: an explicit
\* country holds of every division, a near box of every row, unless an alias
\* pins the name elsewhere.
StatedFiltersHold ==
    /\ \A d \in divisions : Passes(d, None, query.explicit, query.near)
    /\ query.near # None /\ query.alias = None => places \subseteq {query.near}

\* A division outside the country or region written in the query comes with a
\* note, or its own name holds the whole query.
LeavingAQualifierIsNoted ==
    at = "answered" =>
        \A d \in divisions :
            \/ Note # None \/ d.whole
            \/ (Reads("country") => d.country = Parsed.code) /\ (Reads("region") => d.region = Parsed.code)

\* An empty answer is a true one: no name that the caller's filters let pass
\* holds what was searched for in the end, as far as the table goes, and one
\* scan of the theme covers what the bundled index lacks.
EmptyIsTrue ==
    at = "answered" /\ Empty /\ query.alias = None =>
        \A d \in Found("none", {"plain", "folded", "abbrev"}, text, None, query.explicit, query.near) :
            query.table = "bundled" /\ ~d.popular /\ (query.feature \/ d.as # "plain")

\* A spelling is corrected only when nothing matches what was searched for,
\* and the box of a guessed anchor is only fetched when a place was in it.
CorrectionsComeLast ==
    fuzzy # {} => Found(query.table, {"plain", "folded", "abbrev"}, text, region, country, query.near) = {}
GuessesArePaidFor == Guessed => scheduled \subseteq places

GeocodesAreHonest ==
    StatedFiltersHold /\ LeavingAQualifierIsNoted /\ EmptyIsTrue /\ CorrectionsComeLast /\ GuessesArePaidFor
=============================================================================
