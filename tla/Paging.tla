------------------------------- MODULE Paging -------------------------------
(***************************************************************************)
(* cursor.py, budget.py and the list tools built on them: find_places and  *)
(* find_near of server.py over the queries of overture.py.  A client       *)
(* follows cursors from page to page while releases roll over.  Rows are   *)
(* positions of the query's order; their sizes, which decide how many the  *)
(* token budget lets through, are left open.                               *)
(***************************************************************************)
EXTENDS Integers, FiniteSets

CONSTANTS
    Release, Query,
    Center,      \* points a query can be about
    PinOf,       \* where a query's place name resolves, by release
    RowCount,    \* rows a search finds, by release and centre
    SpareCount,  \* rows the name fallback finds when there are none
    Limit,       \* page sizes asked for
    MaxRows,     \* overture.MAX_ROWS
    Compacting,  \* queries asked through find_near
    MaxRollovers, \* bound: releases that become active
    None

\* What is assumed of the constants.
Assumptions ==
    /\ PinOf \in [Query -> [Release -> Center]]
    /\ RowCount \in [Release -> [Center -> Nat]] /\ SpareCount \in [Release -> [Center -> Nat]]
    /\ Limit \subseteq Int /\ MaxRows \in Nat \ {0} /\ MaxRollovers \in Nat
    /\ Compacting \subseteq Query
    /\ None \notin Release

VARIABLES
    active,     \* the release resolve_release() names
    rollovers,
    cursor,     \* the cursor the client holds
    call,       \* the call under way
    got,        \* positions the client has received
    sources,    \* the searches its pages were read from
    noted,      \* a page told it that rows may have shifted
    raced,      \* a release came between resolve_cursor() and the scan
    ending      \* how its last answer left it

vars == <<active, rollovers, cursor, call, got, sources, noted, raced, ending>>

\* q of a cursor hashes the search, of which the centre is what can change.
NoCursor == [q |-> None, r |-> None, o |-> 0]
Cursor == {NoCursor} \cup [q : Center, r : Release, o : Nat]

NoCall == [at |-> "idle", query |-> None, center |-> None, release |-> None,
           limit |-> 1, offset |-> 0, rows |-> 0, spare |-> FALSE, more |-> FALSE]

Least(a, b) == IF a <= b THEN a ELSE b
Most(a, b) == IF a >= b THEN a ELSE b
Clamp(n) == Most(1, Least(n, MaxRows))

Init ==
    /\ active \in Release
    /\ rollovers = 0
    /\ cursor = NoCursor
    /\ call = NoCall
    /\ got = {} /\ sources = {}
    /\ noted = FALSE /\ raced = FALSE
    /\ ending = "none"

\* The client starts over, with no cursor.
Forget ==
    /\ call.at = "idle" /\ ending # "none"
    /\ cursor' = NoCursor
    /\ got' = {} /\ sources' = {} /\ noted' = FALSE /\ raced' = FALSE
    /\ ending' = "none"
    /\ UNCHANGED <<active, rollovers, call>>

\* resolve_cursor(): refused when it was issued for another search.
Refused(c) == cursor # NoCursor /\ cursor.q # c
Shifted == cursor # NoCursor /\ cursor.r # active

\* A call up to its scan: the place is resolved, then the release, then the
\* cursor checked against both.
Ask(q, l) ==
    /\ call.at = "idle"
    /\ ending \in {"none", "more"}
    /\ LET c == PinOf[q][active] IN
       IF Refused(c)
       THEN /\ ending' = "refused"
            /\ UNCHANGED <<call, noted>>
       ELSE /\ call' = [NoCall EXCEPT !.at = "scan", !.query = q, !.center = c, !.release = active,
                                      !.limit = Clamp(l), !.offset = cursor.o]
            /\ noted' = (noted \/ Shifted)
            /\ UNCHANGED ending
    /\ UNCHANGED <<active, rollovers, cursor, got, sources, raced>>

\* What a scan of n rows returns of the page after offset, one row over the
\* limit if the clamp of the query layer leaves room for it.
Page(n, offset, limit) == Least(Most(n, offset) - offset, Least(limit + 1, MaxRows))

\* overture.find_places(): the release is resolved again.
Found == Page(RowCount[active][call.center], call.offset, call.limit)

\* Only a first page that finds nothing turns to the alternate and the near
\* spellings.
FallsBack == RowCount[active][call.center] = 0 /\ call.offset = 0
Spare == Page(SpareCount[active][call.center], 0, call.limit)

Scan ==
    /\ call.at = "scan"
    /\ LET rows == IF FallsBack THEN Spare ELSE Found
       IN call' = [call EXCEPT !.at = "answer", !.rows = Least(rows, call.limit),
                               !.spare = FallsBack /\ rows > 0, !.more = rows > call.limit]
    /\ sources' = sources \cup {<<active, call.center>>}
    /\ raced' = (raced \/ active # call.release)
    /\ UNCHANGED <<active, rollovers, cursor, got, noted, ending>>

\* fit_rows() keeps at least one row of those there are.
Trim(n) == IF n = 0 THEN {0} ELSE 1..n

\* A second pass that does not rewind.
KeepCursor(kept, sent, truncated) ==
    IF ~truncated \/ kept = 0 \/ call.spare THEN NoCursor
    ELSE [q |-> call.center, r |-> call.release, o |-> call.offset + kept]

\* attach_cursor() for the rows kept, and rewind_cursor() for those the second
\* pass of find_near dropped.
NextCursor(kept, sent, truncated) ==
    IF ~truncated \/ kept = 0 \/ call.spare THEN NoCursor
    ELSE [q |-> call.center, r |-> call.release,
          o |-> Most(0, call.offset + kept - (kept - sent))]

\* The answer: kept rows within the budget, of which find_near sends `sent`;
\* `stripped` says that fields of the one row left were dropped.
Answer(kept, sent, stripped) ==
    /\ call.at = "answer"
    /\ kept \in Trim(call.rows)
    /\ sent \in IF call.query \in Compacting THEN Trim(kept) ELSE {kept}
    /\ stripped => kept = 1
    /\ cursor' = NextCursor(kept, sent, kept < call.rows \/ stripped \/ call.more)
    /\ got' = got \cup (call.offset + 1)..(call.offset + sent)
    /\ ending' = IF call.spare THEN "spare"
                 ELSE IF cursor' # NoCursor THEN "more"
                 ELSE IF sent < kept THEN "cut"
                 ELSE IF call.limit = MaxRows /\ call.rows = MaxRows THEN "full"
                 ELSE "end"
    /\ call' = NoCall
    /\ UNCHANGED <<active, rollovers, sources, noted, raced>>

Rollover(r) ==
    /\ rollovers < MaxRollovers
    /\ r # active
    /\ active' = r
    /\ rollovers' = rollovers + 1
    /\ UNCHANGED <<cursor, call, got, sources, noted, raced, ending>>

Next ==
    \/ Forget
    \/ \E q \in Query, l \in Limit : Ask(q, l)
    \/ Scan
    \/ \E kept \in 0..MaxRows, sent \in 0..MaxRows, stripped \in BOOLEAN : Answer(kept, sent, stripped)
    \/ \E r \in Release : Rollover(r)

Spec == Init /\ [][Next]_vars

-----------------------------------------------------------------------------
TypeOK ==
    /\ active \in Release
    /\ rollovers \in 0..MaxRollovers
    /\ cursor \in Cursor
    /\ call \in [at : {"idle", "scan", "answer"}, query : Query \cup {None}, center : Center \cup {None},
                 release : Release \cup {None}, limit : 1..MaxRows, offset : Nat, rows : 0..MaxRows,
                 spare : BOOLEAN, more : BOOLEAN]
    /\ got \subseteq Nat \ {0}
    /\ sources \subseteq Release \X Center
    /\ noted \in BOOLEAN /\ raced \in BOOLEAN
    /\ ending \in {"none", "more", "spare", "cut", "full", "end", "refused"}

\* A client that follows cursors receives a prefix of the query's rows, none
\* skipped and none sent twice, whatever the page sizes, the trimming and the
\* second pass did: the cursor it holds is where that prefix ends.
PagesJoin ==
    ending = "more" => cursor.o > 0 /\ got = 1..cursor.o

\* An answer with no cursor after it was the last page: every row of the search
\* has been sent, but for the documented page of MAX_ROWS rows and for rows
\* that the second pass of find_near dropped from an answer of one page.
NothingIsLeftOut ==
    \A s \in sources : ending = "end" /\ sources = {s} => got = 1..RowCount[s[1]][s[2]]

\* Pages read from different releases are announced, unless the release
\* changed between the cursor's check and the scan of one of them.
ShiftsAreNoted ==
    call.at # "scan" /\ ~raced => noted \/ Cardinality({s[1] : s \in sources}) <= 1

\* Pages of one traversal are about one place.
OneSearch == \A s, t \in sources : s[2] = t[2]

Pages == PagesJoin /\ NothingIsLeftOut /\ ShiftsAreNoted /\ OneSearch

-----------------------------------------------------------------------------
(* A call goes on where the cursor says, about the cursor's place, and what *)
(* it read is a page of one of the searches; all pages come from the        *)
(* cursor's release unless a change was noted or slipped in.                *)

CursorFits ==
    /\ ending = "none" => cursor = NoCursor /\ got = {} /\ (call.at # "answer" => sources = {})
    /\ ending = "more" => cursor # NoCursor /\ sources # {}
    /\ cursor # NoCursor => \A s \in sources : s[2] = cursor.q /\ (noted \/ raced \/ s[1] = cursor.r)

CallFits ==
    call.at # "idle" =>
        /\ ending \in {"none", "more"}
        /\ call.center \in Center /\ call.release \in Release
        /\ call.offset = cursor.o
        /\ cursor # NoCursor => cursor.q = call.center /\ (noted \/ cursor.r = call.release)

\* What a scan of search s leaves in the call.
PageOf(s) ==
    LET spare == RowCount[s[1]][s[2]] = 0 /\ call.offset = 0
        rows == IF spare THEN Page(SpareCount[s[1]][s[2]], 0, call.limit)
                ELSE Page(RowCount[s[1]][s[2]], call.offset, call.limit)
    IN /\ call.rows = Least(rows, call.limit)
       /\ call.spare = (spare /\ rows > 0) /\ call.more = (rows > call.limit)

PageFits ==
    call.at = "answer" =>
        /\ \E s \in sources : PageOf(s)
        /\ \A s \in sources : s[2] = call.center /\ (noted \/ raced \/ s[1] = call.release)

OneRelease == noted \/ raced \/ \A s, t \in sources : s[1] = t[1]
NotPastTheEnd == \A s \in sources : ending = "more" /\ sources = {s} => cursor.o <= RowCount[s[1]][s[2]]

IInv ==
    /\ TypeOK /\ CursorFits /\ CallFits /\ PageFits /\ OneRelease /\ NotPastTheEnd
    /\ PagesJoin /\ NothingIsLeftOut /\ OneSearch
=============================================================================
