--------------------------- MODULE MCPartsProofs ---------------------------
(***************************************************************************)
(* What the parts of MCParts promise, for any value of the constants: the  *)
(* inductive invariant of each part (IInv of its module) is kept by its    *)
(* steps, and the other parts leave its variables alone.                   *)
(***************************************************************************)
EXTENDS MCParts, FiniteSetTheorems, WellFoundedInduction, TLAPS

(***************************************************************************)
(* AutoWarm.                                                               *)
(***************************************************************************)

LEMMA WarmInit == ASSUME Warm!Assumptions, Warm!Init PROVE Warm!IInv
BY DEF Warm!Assumptions, Warm!Init, Warm!IInv, Warm!TypeOK, Warm!OneThreadPerMetro,
       Warm!NoneFromTheFuture, Warm!WorksOnUnmarked,
   Warm!MarkedOnce, Warm!MarkedWasWarm, Warm!Where, Warm!Release

\* A thread that goes on with the same metro.
LEMMA WarmGoesOn ==
    ASSUME Warm!IInv, NEW t \in warm, NEW u \in Warm!Thread, u.metro = t.metro, Warm!Become(t, u), UNCHANGED inflight
    PROVE  Warm!OneThreadPerMetro' /\ warm' \subseteq Warm!Thread
BY DEF Warm!IInv, Warm!TypeOK, Warm!OneThreadPerMetro, Warm!Become

LEMMA WarmStep == ASSUME Warm!Assumptions, Warm!IInv, Warm!Next \/ UNCHANGED Warm!vars PROVE Warm!IInv'
<1> USE DEF Warm!Assumptions, Warm!IInv, Warm!TypeOK, Warm!NoneFromTheFuture,
            Warm!WorksOnUnmarked, Warm!MarkedOnce,
            Warm!MarkedWasWarm, Warm!Where, Warm!Release
<1>1. ASSUME NEW m \in Metro, Warm!Kick(m) PROVE Warm!IInv'
  <2>1. CASE Warm!Wanted(m)
    <3>1. Warm!Started(m) \in Warm!Thread
      BY DEF Warm!Started, Warm!Thread
    <3>2. /\ warm' = warm \cup {Warm!Started(m)} /\ inflight' = inflight \cup {m} /\ m \notin inflight
          /\ UNCHANGED <<active, marker, tiles, foreground, marks, raced, faults>>
          /\ <<active, m>> \notin marker
      BY <1>1, <2>1 DEF Warm!Kick, Warm!Wanted
    <3>3. Warm!OneThreadPerMetro'
      <4>1. Warm!Started(m).metro = m
        BY DEF Warm!Started
      <4>2. \A t \in warm : t.metro # m
        BY <3>2 DEF Warm!OneThreadPerMetro
      <4>3. QED
        BY <3>2, <4>1, <4>2 DEF Warm!OneThreadPerMetro
    <3>4. Warm!WorksOnUnmarked'
      <4>1. /\ Warm!Started(m).metro = m /\ Warm!Started(m).todo = Theme
            /\ Warm!Started(m).at = "delayed" /\ Theme \ Theme = {}
        BY DEF Warm!Started
      <4>2. QED
        BY <3>2, <4>1
    <3>5. Warm!TypeOK'
      <4>1. warm' \subseteq Warm!Thread /\ inflight' \subseteq Metro
        BY <3>1, <3>2
      <4>2. QED
        BY <3>2, <4>1
    <3>6. Warm!NoneFromTheFuture' /\ Warm!MarkedWasWarm'
      BY <3>2
    <3>7. Warm!MarkedOnce'
      BY <3>2, <3>4
    <3>8. QED
      BY <3>3, <3>4, <3>5, <3>6, <3>7
  <2>2. CASE ~Warm!Wanted(m)
    BY <1>1, <2>2 DEF Warm!Kick, Warm!OneThreadPerMetro
  <2>3. QED
    BY <2>1, <2>2
<1>2. ASSUME NEW t \in warm, Warm!Begin(t) PROVE Warm!IInv'
  <2>1. Warm!OneThreadPerMetro' /\ warm' \subseteq Warm!Thread
    BY <1>2, WarmGoesOn DEF Warm!Begin, Warm!Thread
  <2>2. QED
    BY <1>2, <2>1 DEF Warm!Begin, Warm!Become, Warm!Thread
<1>3. ASSUME NEW t \in warm, NEW theme \in Theme, Warm!WarmTheme(t, theme) PROVE Warm!IInv'
  <2>1. Warm!OneThreadPerMetro' /\ warm' \subseteq Warm!Thread
    BY <1>3, WarmGoesOn DEF Warm!WarmTheme, Warm!Thread
  <2> DEFINE u == [t EXCEPT !.todo = @ \ {theme}, !.from = @ \cup {active},
                            !.at = IF t.todo = {theme} THEN "marking" ELSE "warming"]
  <2>2. /\ u.metro = t.metro /\ u.todo = t.todo \ {theme} /\ u.from = t.from \cup {active}
        /\ u.at = "marking" => u.todo = {}
    BY <1>3 DEF Warm!WarmTheme, Warm!Thread
  <2>3. Warm!WorksOnUnmarked'
    <3>1. /\ <<active, u.metro>> \notin marker
          /\ \A x \in Theme \ u.todo : \E r \in u.from : <<r, u.metro, x>> \in tiles'
      <4>1. /\ tiles' = tiles \cup {<<active, t.metro, theme>>}
            /\ <<active, t.metro>> \notin marker
            /\ \A x \in Theme \ t.todo : \E r \in t.from : <<r, t.metro, x>> \in tiles
        BY <1>3 DEF Warm!WarmTheme
      <4> HIDE DEF u
      <4>2. ASSUME NEW x \in Theme \ u.todo
            PROVE  \E r \in u.from : <<r, u.metro, x>> \in tiles'
        <5>1. CASE x = theme
          <6>1. <<active, u.metro, x>> \in tiles' /\ active \in u.from
            BY <2>2, <4>1, <5>1
          <6>2. QED
            BY <6>1
        <5>2. CASE x # theme
          <6>1. PICK r \in t.from : <<r, t.metro, x>> \in tiles
            BY <2>2, <4>1, <4>2, <5>2
          <6>2. QED
            BY <2>2, <4>1, <6>1
        <5>3. QED
          BY <5>1, <5>2
      <4>3. QED
        BY <2>2, <4>1, <4>2
    <3>2. QED
      BY <1>3, <2>2, <3>1 DEF Warm!WarmTheme, Warm!Become
  <2>4. Warm!MarkedOnce' /\ Warm!MarkedWasWarm'
    BY <1>3, <2>3 DEF Warm!WarmTheme
  <2>5. tiles' \subseteq Warm!Release \X Metro \X Theme
    BY <1>3 DEF Warm!WarmTheme, Warm!Thread
  <2>6. QED
    BY <1>3, <2>1, <2>3, <2>4, <2>5 DEF Warm!WarmTheme
<1>4. ASSUME NEW t \in warm, Warm!WarmFails(t) \/ Warm!MarkFails(t) \/ Warm!Fails(t) PROVE Warm!IInv'
  <2>1. Warm!OneThreadPerMetro' /\ warm' \subseteq Warm!Thread
    BY <1>4, WarmGoesOn DEF Warm!WarmFails, Warm!MarkFails, Warm!Fails, Warm!Thread
  <2>2. Warm!WorksOnUnmarked'
    <3>1. PICK u \in Warm!Thread : Warm!Become(t, u) /\ u.at \in {"graph", "leaving"}
      <4> DEFINE g == [t EXCEPT !.at = "graph", !.todo = {}]
                 h == [t EXCEPT !.at = "graph"]
                 l == [t EXCEPT !.at = "leaving", !.todo = {}]
      <4>1. {g, h, l} \subseteq Warm!Thread /\ g.at = "graph" /\ h.at = "graph" /\ l.at = "leaving"
        BY DEF Warm!Thread
      <4>2. Warm!Become(t, g) \/ Warm!Become(t, h) \/ Warm!Become(t, l)
        BY <1>4 DEF Warm!WarmFails, Warm!MarkFails, Warm!Fails
      <4>3. QED
        BY <4>1, <4>2
    <3>2. QED
      BY <1>4, <3>1 DEF Warm!WarmFails, Warm!MarkFails, Warm!Fails, Warm!Become
  <2>3. faults' \in 0..MaxFaults
    BY <1>4 DEF Warm!WarmFails, Warm!MarkFails, Warm!Fails
  <2>4. QED
    BY <1>4, <2>1, <2>2, <2>3 DEF Warm!WarmFails, Warm!MarkFails, Warm!Fails
<1>5. ASSUME NEW t \in warm, Warm!Mark(t) PROVE Warm!IInv'
  <2>1. Warm!OneThreadPerMetro' /\ warm' \subseteq Warm!Thread
    BY <1>5, WarmGoesOn DEF Warm!Mark, Warm!Thread
  <2>2. Warm!WorksOnUnmarked'
    BY <1>5 DEF Warm!Mark, Warm!Become, Warm!Thread, Warm!OneThreadPerMetro
  <2>3. Warm!MarkedOnce'
    BY <1>5, <2>2 DEF Warm!Mark, Warm!Become, Warm!Thread, Warm!OneThreadPerMetro
  <2>4. Warm!MarkedWasWarm'
    <3>1. ASSUME t.from = {active}, NEW theme \in Theme PROVE <<active, t.metro, theme>> \in tiles
      BY <1>5, <3>1 DEF Warm!Mark
    <3>2. SUFFICES ASSUME NEW w \in marker' \ raced', NEW theme \in Theme
                   PROVE  <<w[1], w[2], theme>> \in tiles'
      OBVIOUS
    <3>3. CASE w \in marker
      BY <1>5, <3>2, <3>3 DEF Warm!Mark
    <3>4. CASE w = <<active, t.metro>>
      <4>1. t.from = {active}
        BY <1>5, <3>2, <3>4 DEF Warm!Mark
      <4>2. QED
        BY <1>5, <3>1, <3>4, <4>1 DEF Warm!Mark
    <3>5. QED
      BY <1>5, <3>3, <3>4 DEF Warm!Mark
  <2>5. QED
    BY <1>5, <2>1, <2>2, <2>3, <2>4 DEF Warm!Mark, Warm!Thread
<1>6. ASSUME NEW t \in warm, Warm!CheckGraph(t) \/ Warm!BuildGraph(t) PROVE Warm!IInv'
  <2>1. Warm!OneThreadPerMetro' /\ warm' \subseteq Warm!Thread
    BY <1>6, WarmGoesOn DEF Warm!CheckGraph, Warm!BuildGraph, Warm!Thread
  <2>2. QED
    BY <1>6, <2>1 DEF Warm!CheckGraph, Warm!BuildGraph, Warm!Become, Warm!Thread
<1>7. ASSUME NEW t \in warm, Warm!Leave(t) PROVE Warm!IInv'
  <2>1. /\ warm' = warm \ {t} /\ inflight' = inflight \ {t.metro}
        /\ UNCHANGED <<active, marker, tiles, foreground, marks, raced, faults>>
    BY <1>7 DEF Warm!Leave
  <2>2. Warm!OneThreadPerMetro'
    BY <2>1 DEF Warm!OneThreadPerMetro
  <2>3. Warm!TypeOK' /\ Warm!WorksOnUnmarked'
    BY <2>1
  <2>4. Warm!MarkedOnce' /\ Warm!MarkedWasWarm' /\ Warm!NoneFromTheFuture'
    BY <2>1
  <2>5. QED
    BY <2>2, <2>3, <2>4
<1>8. ASSUME NEW m \in Metro, Warm!ForegroundBegins(m) \/ Warm!ForegroundEnds(m) PROVE Warm!IInv'
  BY <1>8 DEF Warm!ForegroundBegins, Warm!ForegroundEnds, Warm!OneThreadPerMetro
<1>9. CASE Warm!Rollover
  <2>1. \A m \in Metro : <<active', m>> \notin marker
    BY <1>9 DEF Warm!Rollover
  <2>2. Warm!WorksOnUnmarked' /\ Warm!MarkedOnce'
    BY <1>9, <2>1 DEF Warm!Rollover, Warm!Thread
  <2>3. active' \in Warm!Release /\ Warm!NoneFromTheFuture'
    BY <1>9 DEF Warm!Rollover
  <2>4. QED
    BY <1>9, <2>2, <2>3 DEF Warm!Rollover, Warm!OneThreadPerMetro
<1>10. CASE Warm!Restart
  BY <1>10 DEF Warm!Restart, Warm!OneThreadPerMetro
<1>11. CASE UNCHANGED Warm!vars
  BY <1>11 DEF Warm!vars, Warm!OneThreadPerMetro
<1>12. QED
  BY <1>1, <1>2, <1>3, <1>4, <1>5, <1>6, <1>7, <1>8, <1>9, <1>10, <1>11 DEF Warm!Next

\* For any metros, themes, rollovers, restarts and failures: a metro is marked
\* at most once for a release, and only when its themes were copied.
THEOREM Earned == MCSpec => []WarmMarkersAreEarned
<1> DEFINE Inv == part = "warm" => Warm!IInv
<1>1. MCInit => Inv
  BY PartsAssumption, WarmInit DEF MCInit
<1>2. Inv /\ [MCNext]_MCVars => Inv'
  <2> SUFFICES ASSUME Warm!IInv, [MCNext]_MCVars, part = "warm" PROVE Warm!IInv'
    BY DEF MCNext, MCVars
  <2>1. Warm!Next \/ UNCHANGED Warm!vars
    BY DEF MCNext, MCVars, warmVars, Warm!vars
  <2>2. QED
    BY <2>1, PartsAssumption, WarmStep
<1>3. Inv => WarmMarkersAreEarned
  BY DEF WarmMarkersAreEarned, Warm!IInv, Warm!MarkersAreEarned
<1> HIDE DEF Inv
<1>4. QED
  BY <1>1, <1>2, <1>3, PTL DEF MCSpec

(***************************************************************************)
(* HomeRegion.                                                             *)
(***************************************************************************)

LEMMA HomeInit == ASSUME Home!Assumptions, Home!Init PROVE Home!IInv
<1>1. Home!TypeOK
  <2>1. configured \in BOOLEAN /\ resolved \in BOOLEAN
    BY DEF Home!Init
  <2>2. QED
    BY <2>1 DEF Home!Init, Home!TypeOK
<1>2. Home!OneFinder /\ Home!UnseenBefore /\ Home!RanksAgree /\ Home!HeldForARead
  BY DEF Home!Init, Home!OneFinder, Home!UnseenBefore, Home!RanksAgree, Home!HeldForARead
<1>3. QED
  BY <1>1, <1>2 DEF Home!IInv

LEMMA HomeStep == ASSUME Home!Assumptions, Home!IInv, Home!Next \/ UNCHANGED Home!vars PROVE Home!IInv'
<1> USE DEF Home!Assumptions, Home!IInv, Home!TypeOK, Home!OneFinder, Home!UnseenBefore,
            Home!RanksAgree, Home!HeldForARead, Home!Thread,
            Home!Go, Home!Reading
<1>1. ASSUME NEW c \in Caller, Home!Begin(c) PROVE Home!IInv'
  BY <1>1 DEF Home!Begin, Home!Slots!Acquire
<1>2. CASE Home!BeginStartup
  BY <1>2 DEF Home!BeginStartup
<1>3. ASSUME NEW t \in Home!Thread, Home!Lease(t) PROVE Home!IInv'
  BY <1>3 DEF Home!Lease, Home!Slots!Acquire
<1>4. ASSUME NEW t \in Home!Thread, Home!Read(t) PROVE Home!IInv'
  BY <1>4 DEF Home!Read
<1>5. ASSUME NEW t \in Home!Thread, Home!RankWithHome(t) PROVE Home!IInv'
  BY <1>5 DEF Home!RankWithHome, Home!Rank
<1>6. ASSUME NEW t \in Home!Thread, Home!Resolve(t) PROVE Home!IInv'
  BY <1>6 DEF Home!Resolve
<1>7. ASSUME NEW t \in Home!Thread, NEW found \in {Point, None}, Home!Settle(t, found) PROVE Home!IInv'
  BY <1>7 DEF Home!Settle
<1>8. ASSUME NEW t \in Home!Thread, Home!End(t) PROVE Home!IInv'
  BY <1>8 DEF Home!End
<1>9. CASE UNCHANGED Home!vars
  BY <1>9 DEF Home!vars
<1>10. QED
  BY <1>1, <1>2, <1>3, <1>4, <1>5, <1>6, <1>7, <1>8, <1>9 DEF Home!Next

\* The module HomeRegion counts as this one does.
LEMMA HomeCounts ==
    /\ \A S : Home!IsFiniteSet(S) <=> IsFiniteSet(S)
    /\ \A S : Home!Cardinality(S) = Cardinality(S)
<1>1. \A S : Home!IsFiniteSet(S) <=> IsFiniteSet(S)
  BY DEF Home!IsFiniteSet, IsFiniteSet
<1>2. \A S : Home!Cardinality(S) = Cardinality(S)
  BY DEF Home!Cardinality, Cardinality, Home!IsFiniteSet, IsFiniteSet
<1>3. QED
  BY <1>1, <1>2

\* With a slot more than threads in isolation, the search for the home text is
\* never shut out by threads that wait for it.
LEMMA FinderGetsASlot ==
    ASSUME Home!Assumptions, Cardinality(Isolated) < Cap, Home!IInv
    PROVE  Home!HomeIsFound
<1> SUFFICES ASSUME ~(Cardinality(holders) < Cap) PROVE \E t \in holders : ~Home!WaitsForHome(t)
  BY HomeCounts DEF Home!HomeIsFound
<1>1. IsFiniteSet(Isolated) /\ Cardinality(Isolated) \in Nat /\ Cap \in Nat
  BY HomeCounts, FS_Subset, FS_CardinalityType DEF Home!Assumptions
<1>2. holders \in SUBSET Isolated => Cardinality(holders) <= Cardinality(Isolated) /\ Cardinality(holders) \in Nat
  BY <1>1, FS_Subset, FS_CardinalityType
<1>3. PICK t \in holders : t \notin Isolated
  BY <1>1, <1>2
<1>4. QED
  BY <1>3 DEF Home!IInv, Home!HeldForARead, Home!WaitsForHome, Home!Reading

\* For any callers, of which fewer are in isolation than there are slots: the
\* home text is geocoded once, every ranking agrees with what was found, and
\* its search always gets a slot.
THEOREM SettledOnce ==
    ASSUME Cardinality(Isolated) < Cap
    PROVE  MCSpec => []HomeRegionIsSettled
<1> DEFINE Inv == part = "home" => Home!IInv
<1>1. MCInit => Inv
  BY PartsAssumption, HomeInit DEF MCInit
<1>2. Inv /\ [MCNext]_MCVars => Inv'
  <2> SUFFICES ASSUME Home!IInv, [MCNext]_MCVars, part = "home" PROVE Home!IInv'
    BY DEF MCNext, MCVars
  <2>1. Home!Next \/ UNCHANGED Home!vars
    BY DEF MCNext, MCVars, homeVars, Home!vars
  <2>2. QED
    BY <2>1, PartsAssumption, HomeStep
<1>3. Inv => HomeRegionIsSettled
  BY PartsAssumption, FinderGetsASlot
     DEF HomeRegionIsSettled, Home!IInv, Home!HomeIsSettledOnce, Home!OneFinder, Home!AskedOnce
<1> HIDE DEF Inv
<1>4. QED
  BY <1>1, <1>2, <1>3, PTL DEF MCSpec

(***************************************************************************)
(* Paging.                                                                 *)
(***************************************************************************)

\* A scan returns no more rows than the query layer allows.
LEMMA PageSize ==
    ASSUME Pager!Assumptions, NEW n \in Nat, NEW o \in Nat, NEW l \in 1..MaxRows
    PROVE  /\ Pager!Page(n, o, l) \in 0..MaxRows
           /\ Pager!Least(Pager!Page(n, o, l), l) \in 0..MaxRows
           /\ o <= n => o + Pager!Least(Pager!Page(n, o, l), l) <= n
           /\ n > o => Pager!Page(n, o, l) > 0
BY DEF Pager!Assumptions, Pager!Page, Pager!Least, Pager!Most

\* A page that is not over the limit, nor one of MaxRows rows, is the last one.
LEMMA LastPage ==
    ASSUME Pager!Assumptions, NEW n \in Nat, NEW o \in Nat, NEW l \in 1..MaxRows, o <= n,
           ~(Pager!Page(n, o, l) > l),
           ~(l = MaxRows /\ Pager!Least(Pager!Page(n, o, l), l) = MaxRows)
    PROVE  o + Pager!Least(Pager!Page(n, o, l), l) = n
<1>1. MaxRows \in Nat \ {0} /\ Pager!Most(n, o) = n
  BY DEF Pager!Assumptions, Pager!Most
<1>2. Pager!Page(n, o, l) = n - o
  BY <1>1 DEF Pager!Page, Pager!Least
<1>3. QED
  BY <1>1, <1>2 DEF Pager!Least

LEMMA PagerInit == ASSUME Pager!Assumptions, Pager!Init PROVE Pager!IInv
<1>1. Pager!TypeOK
  <2>1. 1 \in 1..MaxRows /\ 0 \in 0..MaxRows /\ 0 \in 0..MaxRollovers
    BY DEF Pager!Assumptions
  <2>2. call \in [at : {"idle", "scan", "answer"}, query : Query \cup {None}, center : Center \cup {None},
                  release : Releases \cup {None}, limit : 1..MaxRows, offset : Nat, rows : 0..MaxRows,
                  spare : BOOLEAN, more : BOOLEAN]
    BY <2>1 DEF Pager!Init, Pager!NoCall
  <2>3. QED
    BY <2>1, <2>2 DEF Pager!Init, Pager!TypeOK, Pager!Cursor
<1>2. call.at = "idle" /\ sources = {} /\ ending = "none" /\ cursor = Pager!NoCursor /\ got = {}
  BY DEF Pager!Init, Pager!NoCall
<1>3. QED
  BY <1>1, <1>2
     DEF Pager!IInv, Pager!CursorFits, Pager!CallFits, Pager!PageFits, Pager!OneRelease,
         Pager!NotPastTheEnd, Pager!PagesJoin, Pager!NothingIsLeftOut, Pager!OneSearch

LEMMA AskKeeps ==
    ASSUME Pager!Assumptions, Pager!IInv, NEW q \in Query, NEW l \in Limit, Pager!Ask(q, l)
    PROVE  Pager!IInv'
<1> DEFINE c == PinOf[q][served]
<1> USE DEF Pager!IInv
<1>1. c \in Center /\ served \in Releases /\ Pager!Clamp(l) \in 1..MaxRows
  <2>1. l \in Int /\ MaxRows \in Nat \ {0}
    BY DEF Pager!Assumptions
  <2>2. Pager!Clamp(l) \in 1..MaxRows
    BY <2>1 DEF Pager!Clamp, Pager!Least, Pager!Most
  <2>3. QED
    BY <2>2 DEF Pager!Assumptions, Pager!TypeOK
<1>2. /\ call.at = "idle" /\ ending \in {"none", "more"}
      /\ UNCHANGED <<served, rollovers, cursor, got, sources, slipped>>
  BY DEF Pager!Ask
<1>3. CASE Pager!Refused(c)
  <2>1. ending' = "refused" /\ call' = call /\ noted' = noted
    BY <1>3 DEF Pager!Ask
  <2>2. Pager!TypeOK'
    BY <1>2, <2>1 DEF Pager!TypeOK
  <2>3. QED
    BY <1>2, <2>1, <2>2
       DEF Pager!CursorFits, Pager!CallFits, Pager!PageFits, Pager!OneRelease,
           Pager!NotPastTheEnd, Pager!PagesJoin, Pager!NothingIsLeftOut, Pager!OneSearch
<1>4. CASE ~Pager!Refused(c)
  <2>1. /\ call' = [Pager!NoCall EXCEPT !.at = "scan", !.query = q, !.center = c, !.release = served,
                                        !.limit = Pager!Clamp(l), !.offset = cursor.o]
        /\ noted' = (noted \/ Pager!Shifted) /\ ending' = ending
    BY <1>4 DEF Pager!Ask
  <2>2. /\ call'.at = "scan" /\ call'.center = c /\ call'.release = served
        /\ call'.offset = cursor.o
    BY <2>1 DEF Pager!NoCall
  <2>3. Pager!TypeOK'
    <3>1. cursor.o \in Nat
      BY DEF Pager!TypeOK, Pager!Cursor, Pager!NoCursor
    <3>2. 0 \in 0..MaxRows
      BY DEF Pager!Assumptions
    <3>3. call' \in [at : {"idle", "scan", "answer"}, query : Query \cup {None}, center : Center \cup {None},
                     release : Releases \cup {None}, limit : 1..MaxRows, offset : Nat, rows : 0..MaxRows,
                     spare : BOOLEAN, more : BOOLEAN]
      BY <1>1, <2>1, <3>1, <3>2 DEF Pager!NoCall
    <3>4. noted' \in BOOLEAN
      BY <2>1 DEF Pager!TypeOK, Pager!Shifted
    <3>5. QED
      BY <1>2, <2>1, <3>3, <3>4 DEF Pager!TypeOK
  <2>4. cursor # Pager!NoCursor => cursor.q = c /\ (noted' \/ cursor.r = served)
    BY <1>4, <2>1 DEF Pager!Refused, Pager!Shifted
  <2>5. noted => noted'
    BY <2>1
  <2>6. Pager!CallFits'
    BY <1>1, <1>2, <2>1, <2>2, <2>4 DEF Pager!CallFits, Pager!NoCursor
  <2>7. Pager!CursorFits' /\ Pager!PageFits' /\ Pager!OneRelease' /\ Pager!NotPastTheEnd'
    BY <1>2, <2>1, <2>2, <2>5
       DEF Pager!CursorFits, Pager!PageFits, Pager!OneRelease, Pager!NotPastTheEnd, Pager!NoCursor
  <2>8. QED
    BY <1>2, <2>1, <2>3, <2>6, <2>7 DEF Pager!PagesJoin, Pager!NothingIsLeftOut, Pager!OneSearch
<1>5. QED
  BY <1>3, <1>4

LEMMA ScanKeeps ==
    ASSUME Pager!Assumptions, Pager!IInv, Pager!Scan
    PROVE  Pager!IInv'
<1> USE DEF Pager!IInv
<1> DEFINE rows == IF Pager!FallsBack THEN Pager!Spare ELSE Pager!Found
<1>0. PICK s : s = <<served, call.center>>
  OBVIOUS
<1>1. /\ call.at = "scan" /\ sources' = sources \cup {s} /\ slipped' = (slipped \/ served # call.release)
      /\ UNCHANGED <<served, rollovers, cursor, got, noted, ending>>
      /\ call' = [call EXCEPT !.at = "answer", !.rows = Pager!Least(rows, call.limit),
                              !.spare = Pager!FallsBack /\ rows > 0, !.more = rows > call.limit]
  BY <1>0 DEF Pager!Scan
<1>2. /\ call.center \in Center /\ call.release \in Releases /\ served \in Releases
      /\ call.limit \in 1..MaxRows /\ call.offset \in Nat /\ ending \in {"none", "more"}
  BY <1>1 DEF Pager!TypeOK, Pager!CallFits
<1>3. /\ RowCount[served][call.center] \in Nat /\ SpareCount[served][call.center] \in Nat
      /\ rows \in 0..MaxRows /\ Pager!Least(rows, call.limit) \in 0..MaxRows
  <2>1. RowCount[served][call.center] \in Nat /\ SpareCount[served][call.center] \in Nat
    BY <1>2 DEF Pager!Assumptions
  <2>2. QED
    BY <1>2, <2>1, PageSize DEF Pager!Spare, Pager!Found
<1>4. /\ call'.at = "answer" /\ call'.center = call.center /\ call'.release = call.release
      /\ call'.limit = call.limit /\ call'.offset = call.offset
      /\ call'.rows = Pager!Least(rows, call.limit)
      /\ call'.spare = (Pager!FallsBack /\ rows > 0) /\ call'.more = (rows > call.limit)
  BY <1>1 DEF Pager!TypeOK
<1>5. s \in Releases \X Center /\ s[1] = served /\ s[2] = call.center
  BY <1>0, <1>2
<1>6. Pager!TypeOK'
  <2>1. call' \in [at : {"idle", "scan", "answer"}, query : Query \cup {None}, center : Center \cup {None},
                   release : Releases \cup {None}, limit : 1..MaxRows, offset : Nat, rows : 0..MaxRows,
                   spare : BOOLEAN, more : BOOLEAN]
    <3>1. (Pager!FallsBack /\ rows > 0) \in BOOLEAN /\ (rows > call.limit) \in BOOLEAN
      OBVIOUS
    <3>2. QED
      BY <1>1, <1>3, <3>1 DEF Pager!TypeOK
  <2>2. sources' \subseteq Releases \X Center
    BY <1>1, <1>5 DEF Pager!TypeOK
  <2>3. slipped' \in BOOLEAN
    BY <1>1 DEF Pager!TypeOK
  <2>4. QED
    BY <1>1, <2>1, <2>2, <2>3 DEF Pager!TypeOK
<1>7. Pager!PageOf(s)'
  BY <1>0, <1>1, <1>4, <1>5 DEF Pager!PageOf, Pager!FallsBack, Pager!Spare, Pager!Found
<1>8. /\ slipped => slipped'
      /\ \A t \in sources' : t[2] = call.center /\ (noted \/ slipped' \/ t[1] = call.release)
  <2>1. slipped => slipped'
    BY <1>1
  <2>2. \A t \in sources : t[2] = call.center /\ (noted \/ slipped' \/ t[1] = call.release)
    <3>1. CASE cursor = Pager!NoCursor
      BY <1>1, <1>2, <3>1 DEF Pager!CursorFits
    <3>2. CASE cursor # Pager!NoCursor
      BY <1>1, <2>1, <3>2 DEF Pager!CursorFits, Pager!CallFits
    <3>3. QED
      BY <3>1, <3>2
  <2>3. noted \/ slipped' \/ s[1] = call.release
    BY <1>1, <1>5
  <2>4. QED
    BY <1>1, <1>5, <2>1, <2>2, <2>3
<1> HIDE DEF rows
<1>9. Pager!PageFits' /\ Pager!OneRelease' /\ Pager!OneSearch'
  <2>1. Pager!PageFits'
    BY <1>1, <1>4, <1>7, <1>8 DEF Pager!PageFits
  <2>2. Pager!OneRelease' /\ Pager!OneSearch'
    BY <1>1, <1>8 DEF Pager!OneRelease, Pager!OneSearch
  <2>3. QED
    BY <2>1, <2>2
<1>10. Pager!CursorFits' /\ Pager!CallFits'
  <2>1. Pager!CallFits'
    BY <1>1, <1>4 DEF Pager!CallFits, Pager!NoCursor
  <2>2. cursor # Pager!NoCursor =>
          \A t \in sources' : t[2] = cursor.q /\ (noted \/ slipped' \/ t[1] = cursor.r)
    BY <1>1, <1>8 DEF Pager!CallFits
  <2>3. QED
    BY <1>1, <1>4, <2>1, <2>2 DEF Pager!CursorFits, Pager!NoCursor
<1>11. Pager!NotPastTheEnd'
  <2> SUFFICES ASSUME NEW t \in sources', ending = "more", sources' = {t}
               PROVE  cursor.o <= RowCount[t[1]][t[2]]
    BY <1>1 DEF Pager!NotPastTheEnd
  <2>1. sources = {t}
    BY <1>1 DEF Pager!CursorFits
  <2>2. QED
    BY <2>1 DEF Pager!NotPastTheEnd
<1>12. Pager!PagesJoin' /\ Pager!NothingIsLeftOut'
  BY <1>1, <1>2 DEF Pager!PagesJoin, Pager!NothingIsLeftOut
<1>13. QED
  BY <1>6, <1>9, <1>10, <1>11, <1>12

LEMMA AnswerKeeps ==
    ASSUME Pager!Assumptions, Pager!IInv, NEW kept \in 0..MaxRows, NEW sent \in 0..MaxRows,
           NEW stripped \in BOOLEAN, Pager!Answer(kept, sent, stripped)
    PROVE  Pager!IInv'
<1> USE DEF Pager!IInv
<1> DEFINE truncated == kept < call.rows \/ stripped \/ call.more
           o == call.offset
<1>1. /\ call.at = "answer" /\ kept \in Pager!Trim(call.rows)
      /\ sent \in IF call.query \in Compacting THEN Pager!Trim(kept) ELSE {kept}
      /\ stripped => kept = 1
      /\ cursor' = Pager!NextCursor(kept, sent, truncated)
      /\ got' = got \cup (o + 1)..(o + sent)
      /\ ending' = IF call.spare THEN "spare"
                   ELSE IF cursor' # Pager!NoCursor THEN "more"
                   ELSE IF sent < kept THEN "cut"
                   ELSE IF call.limit = MaxRows /\ call.rows = MaxRows THEN "full"
                   ELSE "end"
      /\ call' = Pager!NoCall
      /\ UNCHANGED <<served, rollovers, sources, noted, slipped>>
  BY DEF Pager!Answer
<1>2. /\ call.center \in Center /\ call.release \in Releases /\ call.limit \in 1..MaxRows /\ o \in Nat
      /\ call.rows \in 0..MaxRows /\ ending \in {"none", "more"} /\ o = cursor.o
      /\ MaxRows \in Nat \ {0}
  BY <1>1 DEF Pager!TypeOK, Pager!CallFits, Pager!Assumptions
<1>3. /\ sent <= kept /\ kept <= call.rows /\ (kept = 0 => call.rows = 0) /\ (sent = 0 => kept = 0)
  <2>1. kept <= call.rows /\ (kept = 0 => call.rows = 0)
    BY <1>1, <1>2 DEF Pager!Trim
  <2>2. sent <= kept /\ (sent = 0 => kept = 0)
    BY <1>1, <1>2 DEF Pager!Trim
  <2>3. QED
    BY <2>1, <2>2
<1>4. got = 1..o
  <2>1. CASE ending = "none"
    <3>1. got = {} /\ o = 0
      BY <1>2, <2>1 DEF Pager!CursorFits, Pager!NoCursor
    <3>2. QED
      BY <3>1
  <2>2. CASE ending = "more"
    BY <1>2, <2>2 DEF Pager!PagesJoin
  <2>3. QED
    BY <1>2, <2>1, <2>2
<1>5. got' = 1..(o + sent)
  BY <1>1, <1>2, <1>4
<1>6. \/ cursor' = Pager!NoCursor
      \/ /\ cursor' = [q |-> call.center, r |-> call.release, o |-> o + sent]
         /\ o + sent > 0 /\ ~call.spare
  <2>1. CASE ~truncated \/ kept = 0 \/ call.spare
    BY <1>1, <2>1 DEF Pager!NextCursor
  <2>2. CASE ~(~truncated \/ kept = 0 \/ call.spare)
    <3>1. cursor' = [q |-> call.center, r |-> call.release, o |-> Pager!Most(0, o + kept - (kept - sent))]
      BY <1>1, <2>2 DEF Pager!NextCursor
    <3>2. Pager!Most(0, o + kept - (kept - sent)) = o + sent /\ o + sent > 0
      BY <1>2, <1>3, <2>2 DEF Pager!Most
    <3>3. QED
      BY <2>2, <3>1, <3>2
  <2>3. QED
    BY <2>1, <2>2
<1> HIDE DEF truncated
<1>7. cursor' # Pager!NoCursor =>
        /\ cursor'.q = call.center /\ cursor'.r = call.release /\ cursor'.o = o + sent
        /\ ~call.spare /\ ending' = "more"
  <2> SUFFICES ASSUME cursor' # Pager!NoCursor
               PROVE  /\ cursor'.q = call.center /\ cursor'.r = call.release /\ cursor'.o = o + sent
                      /\ ~call.spare /\ ending' = "more"
    OBVIOUS
  <2>1. cursor' = [q |-> call.center, r |-> call.release, o |-> o + sent] /\ ~call.spare
    BY <1>6
  <2>2. ending' = "more"
    <3>1. ~call.spare
      BY <2>1
    <3>2. QED
      BY <1>1, <3>1
  <2>3. QED
    BY <2>1, <2>2
<1>8. ending' = "more" => cursor' # Pager!NoCursor
  BY <1>1
<1>9. call'.at = "idle" /\ ending' \in {"spare", "more", "cut", "full", "end"}
  BY <1>1 DEF Pager!NoCall
<1>10. Pager!TypeOK'
  <2>1. cursor' \in Pager!Cursor
    BY <1>2, <1>6 DEF Pager!Cursor
  <2>2. got' \subseteq Nat \ {0}
    BY <1>2, <1>5
  <2>3. call' \in [at : {"idle", "scan", "answer"}, query : Query \cup {None}, center : Center \cup {None},
                   release : Releases \cup {None}, limit : 1..MaxRows, offset : Nat, rows : 0..MaxRows,
                   spare : BOOLEAN, more : BOOLEAN]
    BY <1>1, <1>2 DEF Pager!NoCall
  <2>4. QED
    BY <1>1, <2>1, <2>2, <2>3 DEF Pager!TypeOK
<1>11. PICK s \in sources : Pager!PageOf(s)
  BY <1>1 DEF Pager!PageFits
<1>12. Pager!CursorFits' /\ Pager!CallFits' /\ Pager!PageFits' /\ Pager!OneRelease' /\ Pager!OneSearch'
  <2>1. Pager!CursorFits'
    BY <1>1, <1>7, <1>8, <1>9, <1>11 DEF Pager!CursorFits, Pager!PageFits, Pager!NoCursor
  <2>2. QED
    BY <1>1, <1>9, <2>1
       DEF Pager!CallFits, Pager!PageFits, Pager!OneRelease, Pager!OneSearch
<1>13. Pager!PagesJoin'
  BY <1>5, <1>6, <1>7, <1>8, <1>9 DEF Pager!PagesJoin
<1> DEFINE n == RowCount[s[1]][s[2]]
           spare == n = 0 /\ o = 0
           page == Pager!Page(n, o, call.limit)
<1>14. n \in Nat /\ SpareCount[s[1]][s[2]] \in Nat
  BY <1>11 DEF Pager!Assumptions, Pager!TypeOK
<1>15. sources = {s} => o <= n
  <2> SUFFICES ASSUME sources = {s} PROVE o <= n
    OBVIOUS
  <2>1. CASE ending = "none"
    BY <1>2, <1>14, <2>1 DEF Pager!CursorFits, Pager!NoCursor
  <2>2. CASE ending = "more"
    BY <1>2, <1>11, <2>2 DEF Pager!NotPastTheEnd
  <2>3. QED
    BY <1>2, <2>1, <2>2
<1>16. ~call.spare =>
         /\ call.rows > 0 => ~spare
         /\ ~spare => call.rows = Pager!Least(page, call.limit) /\ call.more = (page > call.limit)
  <2>1. ~spare => call.rows = Pager!Least(page, call.limit) /\ call.more = (page > call.limit)
    BY <1>11 DEF Pager!PageOf
  <2> DEFINE more == Pager!Page(SpareCount[s[1]][s[2]], 0, call.limit)
  <2>2. spare => call.rows = Pager!Least(more, call.limit) /\ (more > 0 => call.spare)
    BY <1>11 DEF Pager!PageOf
  <2>3. more \in 0..MaxRows
    BY <1>2, <1>14, PageSize
  <2> HIDE DEF more, spare
  <2>4. call.rows > 0 /\ spare => more > 0
    BY <1>2, <2>2, <2>3 DEF Pager!Least
  <2>5. QED
    BY <2>1, <2>2, <2>4
<1> HIDE DEF n, page, spare
<1>17. Pager!NotPastTheEnd'
  <2> SUFFICES ASSUME ending' = "more", sources = {s} PROVE cursor'.o <= n
    BY <1>1, <1>11 DEF Pager!NotPastTheEnd, n
  <2>1. ~call.spare /\ cursor'.o = o + sent /\ call.rows > 0
    <3>1. o + sent > 0 /\ ~call.spare /\ cursor'.o = o + sent
      BY <1>6, <1>7, <1>8
    <3>2. kept # 0
      BY <1>1, <1>8 DEF Pager!NextCursor
    <3>3. QED
      BY <1>2, <1>3, <3>1, <3>2
  <2>2. o <= n /\ call.rows = Pager!Least(page, call.limit)
    BY <1>15, <1>16, <2>1
  <2>3. o + call.rows <= n
    BY <1>2, <1>14, <2>2, PageSize DEF page
  <2>4. QED
    BY <1>2, <1>3, <1>14, <2>1, <2>3
<1>18. Pager!NothingIsLeftOut'
  <2> SUFFICES ASSUME ending' = "end", sources = {s} PROVE got' = 1..n
    BY <1>1, <1>11 DEF Pager!NothingIsLeftOut, n
  <2>1. /\ ~call.spare /\ cursor' = Pager!NoCursor /\ ~(sent < kept)
        /\ ~(call.limit = MaxRows /\ call.rows = MaxRows)
    BY <1>1
  <2>2. o <= n
    BY <1>15
  <2>3. ~truncated \/ kept = 0
    <3> SUFFICES ASSUME truncated, kept # 0 PROVE FALSE
      OBVIOUS
    <3>1. cursor'.r = call.release
      BY <1>1, <2>1 DEF Pager!NextCursor
    <3>2. None \notin Releases
      BY DEF Pager!Assumptions
    <3>3. QED
      BY <1>2, <2>1, <3>1, <3>2 DEF Pager!NoCursor
  <2>4. CASE spare
    <3>1. n = 0 /\ o = 0 /\ call.rows = 0
      BY <1>2, <1>16, <2>1, <2>4 DEF spare
    <3>2. sent = 0
      BY <1>3, <3>1
    <3>3. QED
      BY <1>5, <3>1, <3>2
  <2>5. CASE ~spare
    <3>1. call.rows = Pager!Least(page, call.limit) /\ call.more = (page > call.limit)
      BY <1>16, <2>1, <2>5
    <3>2. page \in 0..MaxRows /\ (n > o => page > 0)
      BY <1>2, <1>14, PageSize DEF page
    <3>3. ~call.more /\ sent = call.rows
      <4>1. CASE ~truncated
        BY <1>2, <1>3, <2>1, <4>1 DEF truncated
      <4>2. CASE kept = 0
        <5>1. call.rows = 0 /\ sent = 0
          BY <1>2, <1>3, <4>2
        <5>2. ~(page > call.limit)
          BY <1>2, <3>1, <3>2, <5>1 DEF Pager!Least
        <5>3. QED
          BY <3>1, <5>1, <5>2
      <4>3. QED
        BY <2>3, <4>1, <4>2
    <3>4. o + Pager!Least(page, call.limit) = n
      BY <1>2, <1>14, <2>1, <2>2, <3>1, <3>3, LastPage DEF page
    <3>5. QED
      BY <1>5, <3>1, <3>3, <3>4
  <2>6. QED
    BY <2>4, <2>5
<1>19. QED
  BY <1>10, <1>12, <1>13, <1>17, <1>18

LEMMA PagerStep ==
    ASSUME Pager!Assumptions, Pager!IInv, Pager!Next \/ UNCHANGED Pager!vars
    PROVE  Pager!IInv'
<1> USE DEF Pager!IInv, Pager!CursorFits, Pager!CallFits, Pager!PageFits, Pager!PageOf,
            Pager!OneRelease, Pager!NotPastTheEnd, Pager!PagesJoin, Pager!NothingIsLeftOut,
            Pager!OneSearch, Pager!NoCursor
<1>1. CASE Pager!Forget
  BY <1>1 DEF Pager!Forget, Pager!TypeOK, Pager!Cursor
<1>2. CASE \E r \in Releases : Pager!Rollover(r)
  <2>1. PICK r \in Releases : Pager!Rollover(r)
    BY <1>2
  <2>2. served' \in Releases /\ rollovers' \in 0..MaxRollovers
    BY <2>1 DEF Pager!Rollover, Pager!TypeOK, Pager!Assumptions
  <2>3. UNCHANGED <<cursor, call, got, sources, noted, slipped, ending>>
    BY <2>1 DEF Pager!Rollover
  <2>4. Pager!TypeOK'
    BY <2>2, <2>3 DEF Pager!TypeOK
  <2>5. QED
    BY <2>3, <2>4
<1>3. CASE UNCHANGED Pager!vars
  BY <1>3 DEF Pager!vars, Pager!TypeOK
<1>4. QED
  BY <1>1, <1>2, <1>3, AskKeeps, ScanKeeps, AnswerKeeps DEF Pager!Next

\* The module Paging counts as this one does.
LEMMA PagerCounts == \A S : Pager!Cardinality(S) = Cardinality(S)
BY DEF Pager!Cardinality, Cardinality

\* For any page sizes, row counts, trimming and rollovers: the pages a client
\* follows join up, nothing is left out of them, they are about one place, and
\* a change of release between them is noted.
THEOREM Joined == MCSpec => []PagesJoinUp
<1> DEFINE Inv == part = "pages" => Pager!IInv
<1>1. MCInit => Inv
  BY PartsAssumption, PagerInit DEF MCInit
<1>2. Inv /\ [MCNext]_MCVars => Inv'
  <2> SUFFICES ASSUME Pager!IInv, [MCNext]_MCVars, part = "pages" PROVE Pager!IInv'
    BY DEF MCNext, MCVars
  <2>1. Pager!Next \/ UNCHANGED Pager!vars
    BY DEF MCNext, MCVars, pagerVars, Pager!vars
  <2>2. QED
    BY <2>1, PartsAssumption, PagerStep
<1>3. Inv => PagesJoinUp
  <2> SUFFICES ASSUME Pager!IInv PROVE Pager!TypeOK /\ Pager!Pages
    BY DEF PagesJoinUp
  <2>1. Pager!ShiftsAreNoted
    <3> DEFINE releases == {s[1] : s \in sources}
    <3> SUFFICES ASSUME ~noted, ~slipped PROVE Pager!Cardinality(releases) <= 1
      BY DEF Pager!ShiftsAreNoted
    <3>1. CASE sources = {}
      BY <3>1, FS_EmptySet, PagerCounts
    <3>2. CASE sources # {}
      <4>1. PICK s \in sources : TRUE
        BY <3>2
      <4>2. releases = {s[1]}
        <5>1. \A t \in sources : t[1] = s[1]
          BY <4>1 DEF Pager!IInv, Pager!OneRelease
        <5>2. s[1] \in releases
          BY <4>1
        <5>3. \A x \in releases : x = s[1]
          BY <5>1
        <5>4. QED
          BY <5>2, <5>3
      <4> HIDE DEF releases
      <4>3. Pager!Cardinality(releases) = Cardinality(releases) /\ Cardinality({s[1]}) = 1
        BY FS_Singleton, PagerCounts
      <4>4. QED
        BY <4>2, <4>3
    <3>3. QED
      BY <3>1, <3>2
  <2>2. QED
    BY <2>1 DEF Pager!IInv, Pager!Pages
<1> HIDE DEF Inv
<1>4. QED
  BY <1>1, <1>2, <1>3, PTL DEF MCSpec

(***************************************************************************)
(* SessionStore.                                                           *)
(***************************************************************************)

\* Members of a store that have something in it.
LEMMA HoldersOf ==
    ASSUME NEW F, NEW V, NEW l \in Store!Lru(F, V)
    PROVE  Store!Holders(l) = {s \in Session : l.held[s] # Store!Nothing(F)}
BY DEF Store!Holders, Store!Lru

\* One session uses a store and has n in it: the store, and what all sessions
\* are told of it.
LEMMA UseKeeps ==
    ASSUME Store!Assumptions, NEW F, NEW V, NEW l \in Store!Lru(F, V), NEW g, Store!StoreIsTold(l, g),
           NEW s \in Session \ Ephemeral, NEW n \in [F -> V \cup {Unset}], n # Store!Nothing(F)
    PROVE  LET u == Store!Trim([order |-> Store!Used(l.order, s), held |-> [l.held EXCEPT ![s] = n]])
           IN /\ u \in Store!Lru(F, V) /\ Store!StoreIsTold(u, Store!ToldUse(g, s, n))
              /\ s \in Store!Holders(u) /\ \A t \in Store!Holders(u) : <<t, s>> \in u.order
<1> DEFINE H == Store!Holders(l)
           K == H \cup {s}
           o == Store!Used(l.order, s)
           h == [l.held EXCEPT ![s] = n]
           gone == Store!Surplus(o, MaxSessions)
           u == [order |-> Store!Without(o, gone),
                 held |-> [t \in Session |-> IF t \in gone THEN Store!Nothing(F) ELSE h[t]]]
           since == [t \in Session |-> IF t = s THEN {} ELSE g.since[t] \cup {s}]
<1>1. /\ H = {t \in Session : l.held[t] # Store!Nothing(F)} /\ H \subseteq Session
      /\ Store!IsOrder(l.order, H) /\ Store!IsFiniteSet(H) /\ Store!Cardinality(H) <= MaxSessions
         /\ H \cap Ephemeral = {}
      /\ g.stored = l.held /\ g.since = [t \in Session |-> IF t \in H THEN Store!After(l.order, t) ELSE {}]
  BY HoldersOf DEF Store!StoreIsTold
<1>2. Store!IsOrder(o, K) /\ Store!In(o) = K /\ Store!In(l.order) = H
  BY <1>1, Store!UsedIsOrder, Store!OrderIsOf
<1>3. /\ \A t \in K : <<t, s>> \in o
      /\ \A t, v \in K \ {s} : <<t, v>> \in o <=> <<t, v>> \in l.order
  BY <1>1, Store!UsedIsLast
<1>4. /\ h \in [Session -> [F -> V \cup {Unset}]] /\ h[s] = n /\ \A t \in Session \ {s} : h[t] = l.held[t]
      /\ K = {t \in Session : h[t] # Store!Nothing(F)}
  BY <1>1 DEF Store!Lru
<1>5. Store!IsFiniteSet(K) /\ Store!Cardinality(K) <= MaxSessions + 1 /\ MaxSessions \in Nat \ {0}
  <2>1. Store!Cardinality(H) \in Nat /\ Store!IsFiniteSet(K) /\ Store!Cardinality(K) <= Store!Cardinality(H) + 1
    <3>1. Store!IsFiniteSet(H)
      BY <1>1
    <3> HIDE DEF H
    <3>2. Store!Cardinality(H) \in Nat
      BY <3>1, Store!FS_CardinalityType
    <3>3. Store!IsFiniteSet(K)
          /\ (Store!Cardinality(K) = Store!Cardinality(H) \/ Store!Cardinality(K) = Store!Cardinality(H) + 1)
      BY <3>1, Store!FS_AddElement
    <3>4. QED
      BY <3>2, <3>3
  <2>2. Store!Cardinality(K) \in Nat
    BY <2>1, Store!FS_CardinalityType
  <2>3. QED
    BY <1>1, <2>1, <2>2 DEF Store!Assumptions
<1>6. PICK stay \in SUBSET K :
          /\ stay = K \ gone /\ s \in stay
          /\ Store!IsOrder(Store!Without(o, gone), stay)
          /\ Store!IsFiniteSet(stay) /\ Store!Cardinality(stay) <= MaxSessions
          /\ \A t \in K : t \in stay <=> Store!Cardinality(Store!After(o, t)) < MaxSessions
          /\ \A t \in stay : Store!After(o, t) \subseteq stay
  <2>1. s \in K
    OBVIOUS
  <2> HIDE DEF o, K
  <2>2. QED
    BY <1>2, <1>3, <1>5, <2>1, Store!SurplusGoes
<1>7. \A t \in K : since[t] = Store!After(o, t)
  <2>1. SUFFICES ASSUME NEW t \in K PROVE since[t] = Store!After(o, t)
    OBVIOUS
  <2>2. CASE t = s
    <3>1. \A v \in K : <<s, v>> \in o => v = s
      BY <1>2, <1>3 DEF Store!IsOrder
    <3>2. QED
      BY <1>2, <2>2, <3>1 DEF Store!After
  <2>3. CASE t # s
    <3>1. t \in H /\ t \in Session /\ since[t] = Store!After(l.order, t) \cup {s}
      BY <1>1, <2>3
    <3>2. s \in H => <<t, s>> \in o /\ s # t
      BY <1>3, <2>3
    <3>3. Store!After(o, t) = {v \in K \ {t} : <<t, v>> \in o}
          /\ Store!After(l.order, t) = {v \in H \ {t} : <<t, v>> \in l.order}
      BY <1>2 DEF Store!After
    <3>4. QED
      BY <1>3, <2>3, <3>1, <3>3
  <2>4. QED
    BY <2>2, <2>3
<1>8. gone \subseteq K
  BY <1>2 DEF Store!Surplus, Store!Oldest
<1>9. /\ Store!Trim([order |-> o, held |-> h]) = u /\ u.order = Store!Without(o, gone)
      /\ u \in Store!Lru(F, V) /\ \A t \in Session : u.held[t] = IF t \in stay THEN h[t] ELSE Store!Nothing(F)
  <2>1. \A t \in Session : DOMAIN h[t] = F
    BY <1>4
  <2>2. Store!Trim([order |-> o, held |-> h]) = u
    BY <2>1 DEF Store!Trim
  <2>3. Store!Without(o, gone) \subseteq Session \X Session
    BY <1>1, <1>2 DEF Store!IsOrder, Store!Without
  <2>4. Store!Nothing(F) \in [F -> V \cup {Unset}]
    BY DEF Store!Nothing
  <2>5. u \in Store!Lru(F, V)
    BY <1>4, <2>3, <2>4 DEF Store!Lru
  <2>6. \A t \in Session : t \notin stay /\ t \notin gone => h[t] = Store!Nothing(F)
    BY <1>4, <1>6
  <2>7. \A t \in gone : t \notin stay
    BY <1>6
  <2>8. QED
    BY <2>2, <2>5, <2>6, <2>7
<1>10. Store!Holders(u) = stay
  BY <1>1, <1>4, <1>6, <1>9, HoldersOf
<1>11. \A t \in stay : Store!After(u.order, t) = Store!After(o, t)
  <2> HIDE DEF u, o, gone
  <2>1. Store!In(u.order) = stay /\ u.order \subseteq o
    BY <1>6, <1>9, Store!OrderIsOf DEF Store!Without
  <2>2. SUFFICES ASSUME NEW t \in stay PROVE Store!After(u.order, t) = Store!After(o, t)
    OBVIOUS
  <2>3. \A v \in stay : <<t, v>> \in u.order <=> <<t, v>> \in o
    BY <1>6, <1>9 DEF Store!Without
  <2>4. Store!After(o, t) \subseteq stay
    BY <1>6
  <2>5. QED
    BY <1>2, <2>1, <2>3, <2>4 DEF Store!After
<1>12. Store!ToldUse(g, s, n) = [stored |-> u.held,
                           since |-> [t \in Session |-> IF t \in stay THEN Store!After(u.order, t) ELSE {}]]
  <2> DEFINE Kept(t) == h[t] # Store!Nothing(F) /\ Store!Cardinality(since[t]) < MaxSessions
  <2>1. \A t \in Session : Kept(t) <=> t \in stay
    <3>1. SUFFICES ASSUME NEW t \in Session PROVE Kept(t) <=> t \in stay
      OBVIOUS
    <3>2. CASE t \in K
      <4>1. h[t] # Store!Nothing(F) /\ since[t] = Store!After(o, t)
        BY <1>4, <1>7, <3>2
      <4> HIDE DEF since, h
      <4>2. QED
        BY <1>6, <3>2, <4>1
    <3>3. CASE t \notin K
      <4>1. h[t] = Store!Nothing(F) /\ t \notin stay
        BY <1>4, <1>6, <3>3
      <4>2. QED
        BY <4>1
    <3>4. QED
      BY <3>2, <3>3
  <2>2. [g.stored EXCEPT ![s] = n] = h
    BY <1>1
  <2>4. Store!ToldUse(g, s, n) =
            [stored |-> [t \in Session |-> IF Kept(t) THEN h[t] ELSE Store!Nothing(F)],
             since |-> [t \in Session |-> IF Kept(t) THEN since[t] ELSE {}]]
    <3>1. DOMAIN n = F /\ s \notin Ephemeral
      OBVIOUS
    <3> DEFINE st == [g.stored EXCEPT ![s] = n]
               Stays(t) == st[t] # Store!Nothing(DOMAIN n) /\ Store!Cardinality(since[t]) < MaxSessions
    <3>2. Store!ToldUse(g, s, n) =
              [stored |-> [t \in Session |-> IF Stays(t) THEN st[t] ELSE Store!Nothing(DOMAIN n)],
               since |-> [t \in Session |-> IF Stays(t) THEN since[t] ELSE {}]]
      BY <3>1, Zenon DEF Store!ToldUse
    <3> HIDE DEF h, st, since
    <3>3. st = h
      BY <2>2 DEF st
    <3>4. QED
      BY <3>1, <3>2, <3>3
  <2> HIDE DEF Kept
  <2>5. [t \in Session |-> IF Kept(t) THEN h[t] ELSE Store!Nothing(F)] = u.held
    BY <1>9, <2>1 DEF Store!Lru
  <2>6. \A t \in stay : since[t] = Store!After(u.order, t)
    BY <1>6, <1>7, <1>11
  <2> HIDE DEF since, u
  <2>7. [t \in Session |-> IF Kept(t) THEN since[t] ELSE {}]
          = [t \in Session |-> IF t \in stay THEN Store!After(u.order, t) ELSE {}]
    BY <2>1, <2>6
  <2>8. QED
    BY <2>4, <2>5, <2>7
<1>13. Store!StoreIsTold(u, Store!ToldUse(g, s, n))
  <2>1. stay \cap Ephemeral = {}
    BY <1>1, <1>6
  <2> HIDE DEF u
  <2>2. QED
    BY <1>6, <1>9, <1>10, <1>12, <2>1 DEF Store!StoreIsTold
<1>14. \A t \in stay : <<t, s>> \in u.order
  BY <1>3, <1>6, <1>9 DEF Store!Without
<1>15. QED
  BY <1>6, <1>9, <1>10, <1>13, <1>14

\* A session that uses what it has.
LEMMA TouchKeeps ==
    ASSUME Store!Assumptions, NEW F, NEW V, NEW l \in Store!Lru(F, V), NEW g, Store!StoreIsTold(l, g),
           NEW s \in Session
    PROVE  Store!Touch(l, s) \in Store!Lru(F, V) /\ Store!StoreIsTold(Store!Touch(l, s), Store!ToldRead(g, s))
<1> DEFINE H == Store!Holders(l)  n == l.held[s]
<1>1. /\ H = {t \in Session : l.held[t] # Store!Nothing(F)} /\ H \subseteq Session
      /\ Store!IsOrder(l.order, H) /\ Store!IsFiniteSet(H) /\ Store!Cardinality(H) <= MaxSessions
         /\ H \cap Ephemeral = {}
      /\ g.stored = l.held
  BY HoldersOf DEF Store!StoreIsTold
<1>2. Store!In(l.order) = H /\ n \in [F -> V \cup {Unset}] /\ Store!ToldRead(g, s) = Store!ToldUse(g, s, n)
  BY <1>1, Store!OrderIsOf DEF Store!Lru, Store!ToldRead
<1>3. CASE s \in H
  <2> DEFINE o == Store!Used(l.order, s)
             u == Store!Trim([order |-> o, held |-> [l.held EXCEPT ![s] = n]])
  <2>1. u \in Store!Lru(F, V) /\ Store!StoreIsTold(u, Store!ToldUse(g, s, n))
    <3>1. s \in Session \ Ephemeral /\ n # Store!Nothing(F)
      BY <1>1, <1>3
    <3>2. QED
      BY <1>2, <3>1, UseKeeps
  <2>2. Store!IsOrder(o, H) /\ Store!In(o) = H /\ Store!Surplus(o, MaxSessions) = {}
    <3>1. H \cup {s} = H
      BY <1>3
    <3>2. Store!IsOrder(l.order, H) /\ Store!Cardinality(H) <= MaxSessions
      BY <1>1
    <3> HIDE DEF H
    <3>3. Store!IsOrder(o, H) /\ Store!In(o) = H
      <4>1. Store!IsOrder(o, H \cup {s}) /\ Store!In(o) = H \cup {s}
        BY <3>2, Store!UsedIsOrder
      <4>2. QED
        BY <3>1, <4>1
    <3>4. QED
      BY <3>2, <3>3 DEF Store!Surplus
  <2>3. Store!Without(o, {}) = o
    BY DEF Store!Without
  <2>4. u = [order |-> o, held |-> l.held]
    BY <2>2, <2>3 DEF Store!Trim, Store!Lru
  <2>5. Store!Touch(l, s) = [order |-> o, held |-> l.held]
    BY <1>2, <1>3 DEF Store!Touch, Store!Lru
  <2>6. QED
    BY <1>2, <2>1, <2>4, <2>5
<1>4. CASE s \notin H
  <2>1. Store!Touch(l, s) = l /\ n = Store!Nothing(F)
    BY <1>1, <1>2, <1>4 DEF Store!Touch
  <2>2. Store!ToldUse(g, s, n) = g
    <3>1. DOMAIN n = F
      BY <1>2
    <3>2. QED
      BY <2>1, <3>1 DEF Store!ToldUse
  <2>3. QED
    BY <1>2, <2>1, <2>2
<1>5. QED
  BY <1>3, <1>4

\* What a session stores goes over what it has.
LEMMA MergeStores ==
    ASSUME NEW F, NEW R, NEW old \in [F -> R], NEW new \in [F -> R], new # Store!Nothing(F)
    PROVE  Store!Merge(old, new) \in [F -> R] /\ Store!Merge(old, new) # Store!Nothing(F)
<1>1. Store!Merge(old, new) = [f \in F |-> IF new[f] = Unset THEN old[f] ELSE new[f]]
  BY DEF Store!Merge
<1>2. PICK f \in F : new[f] # Unset
  BY DEF Store!Nothing
<1>3. Store!Merge(old, new)[f] # Store!Nothing(F)[f]
  BY <1>1, <1>2 DEF Store!Nothing
<1>4. QED
  BY <1>1, <1>3

\* A session that stores something.
LEMMA PutKeeps ==
    ASSUME Store!Assumptions, NEW F, NEW V, NEW l \in Store!Lru(F, V), NEW g, Store!StoreIsTold(l, g),
           NEW s \in Session,
           NEW n \in [F -> V \cup {Unset}], n # Store!Nothing(F),
           NEW u, u = IF s \in Ephemeral THEN l
                      ELSE Store!Trim([order |-> Store!Used(l.order, s), held |-> [l.held EXCEPT ![s] = n]])
    PROVE  u \in Store!Lru(F, V) /\ Store!StoreIsTold(u, Store!ToldUse(g, s, n)) /\ Store!Touch(u, s) = u
<1>1. Store!IsOrder(l.order, Store!Holders(l))
  BY DEF Store!StoreIsTold
<1>6. CASE s \in Ephemeral
  <2>1. s \notin Store!In(l.order)
    BY <1>1, <1>6, Store!OrderIsOf DEF Store!StoreIsTold
  <2>2. u = l /\ Store!Touch(u, s) = u
    BY <1>6, <2>1 DEF Store!Touch
  <2>3. Store!ToldUse(g, s, n) = g
    BY <1>6 DEF Store!ToldUse
  <2>4. QED
    BY <2>2, <2>3
<1>7. CASE s \notin Ephemeral
  <2>2. /\ u \in Store!Lru(F, V) /\ Store!StoreIsTold(u, Store!ToldUse(g, s, n))
        /\ s \in Store!Holders(u) /\ \A t \in Store!Holders(u) : <<t, s>> \in u.order
    BY <1>7, UseKeeps
  <2>3. Store!IsOrder(u.order, Store!Holders(u))
    BY <2>2 DEF Store!StoreIsTold
  <2>4. Store!Used(u.order, s) = u.order
    BY <2>2, <2>3, Store!UsedTwice
  <2>5. Store!Touch(u, s) = u
    BY <2>2, <2>4 DEF Store!Touch, Store!Lru
  <2>6. QED
    BY <2>2, <2>5
<1>8. QED
  BY <1>6, <1>7

\* A session that is forgotten.
LEMMA ForgetKeeps ==
    ASSUME Store!Assumptions, NEW F, NEW V, NEW l \in Store!Lru(F, V), NEW g, Store!StoreIsTold(l, g),
           NEW s \in Session
    PROVE  Store!Drop(l, s) \in Store!Lru(F, V) /\ Store!StoreIsTold(Store!Drop(l, s), Store!ToldDrop(g, s))
<1> DEFINE H == Store!Holders(l)
           o == Store!Without(l.order, {s})
           u == [order |-> o, held |-> [l.held EXCEPT ![s] = Store!Nothing(F)]]
           k == [stored |-> [g.stored EXCEPT ![s] = Store!Nothing(F)],
                 since |-> [t \in Session |-> IF t = s THEN {} ELSE g.since[t] \ {s}]]
<1>0. Store!Drop(l, s) = u /\ Store!ToldDrop(g, s) = k
  <2>1. DOMAIN l.held[s] = F /\ g.stored = l.held
    BY DEF Store!Lru, Store!StoreIsTold
  <2>2. QED
    BY <2>1 DEF Store!Drop, Store!ToldDrop
<1>1. /\ H = {t \in Session : l.held[t] # Store!Nothing(F)}
      /\ Store!IsOrder(l.order, H) /\ Store!IsFiniteSet(H) /\ Store!Cardinality(H) <= MaxSessions
         /\ H \cap Ephemeral = {}
      /\ g.stored = l.held /\ g.since = [t \in Session |-> IF t \in H THEN Store!After(l.order, t) ELSE {}]
  BY HoldersOf DEF Store!StoreIsTold
<1>2. u \in Store!Lru(F, V)
  <2>1. o \subseteq Session \X Session /\ Store!Nothing(F) \in [F -> V \cup {Unset}]
    BY DEF Store!Lru, Store!Without, Store!Nothing
  <2>2. QED
    BY <2>1 DEF Store!Lru
<1>3. Store!Holders(u) = H \ {s}
  <2>1. Store!Holders(u) = {t \in Session : u.held[t] # Store!Nothing(F)}
    BY <1>2, HoldersOf
  <2>2. QED
    BY <1>1, <2>1 DEF Store!Lru
<1>4. Store!IsOrder(o, H \ {s}) /\ Store!In(o) = H \ {s} /\ Store!In(l.order) = H
  BY <1>1, Store!WithoutIsOrder, Store!OrderIsOf
<1>5. Store!IsFiniteSet(H \ {s}) /\ Store!Cardinality(H \ {s}) <= MaxSessions
  <2>1. H \ {s} \in SUBSET H
    OBVIOUS
  <2>0. Store!IsFiniteSet(H) /\ Store!Cardinality(H) <= MaxSessions
    BY <1>1
  <2>2. CASE s \in H
    <3> HIDE DEF H
    <3>1. Store!IsFiniteSet(H \ {s}) /\ Store!Cardinality(H \ {s}) = Store!Cardinality(H) - 1
          /\ Store!Cardinality(H) \in Nat
      BY <2>0, <2>2, Store!FS_RemoveElement, Store!FS_CardinalityType
    <3>2. QED
      BY <2>0, <3>1 DEF Store!Assumptions
  <2>3. CASE s \notin H
    <3>1. H \ {s} = H
      BY <2>3
    <3> HIDE DEF H
    <3>2. QED
      BY <1>1, <3>1
  <2>4. QED
    BY <2>2, <2>3
<1>6. k.since = [t \in Session |-> IF t \in H \ {s} THEN Store!After(o, t) ELSE {}]
  <2>1. SUFFICES ASSUME NEW t \in Session
                 PROVE  k.since[t] = IF t \in H \ {s} THEN Store!After(o, t) ELSE {}
    OBVIOUS
  <2>2. CASE t \in H \ {s}
    <3>1. k.since[t] = Store!After(l.order, t) \ {s}
      BY <1>1, <2>2
    <3>2. Store!After(l.order, t) \ {s} = Store!After(o, t)
      BY <1>4, <2>2 DEF Store!After, Store!Without
    <3>3. QED
      BY <2>2, <3>1, <3>2
  <2>3. CASE t \notin H \ {s}
    BY <1>1, <2>3
  <2>4. QED
    BY <2>2, <2>3
<1>7. k = [stored |-> u.held, since |-> k.since]
  BY <1>1
<1>8. QED
  <2>1. (H \ {s}) \cap Ephemeral = {}
    BY <1>1
  <2> HIDE DEF H, k
  <2>2. u.order = o
    OBVIOUS
  <2> HIDE DEF u
  <2>3. Store!StoreIsTold(u, k)
    BY <1>3, <1>4, <1>5, <1>6, <1>7, <2>1, <2>2 DEF Store!StoreIsTold
  <2>4. QED
    BY <1>0, <1>2, <2>3

\* The cache and the key a call uses.
LEMMA TouchAnswerKeeps ==
    ASSUME Store!TypeOK, Store!AnswersFitTheirKeys, NEW key \in Store!Key
    PROVE  LET a == Store!TouchAnswer(key)
           IN /\ a \in [order : SUBSET (Store!Key \X Store!Key), rows : [Store!In(a.order) -> Store!Key]]
              /\ Store!IsOrder(a.order, Store!In(a.order)) /\ Store!IsFiniteSet(Store!In(a.order))
                 /\ Store!Cardinality(Store!In(a.order)) <= MaxAnswers
              /\ \A k \in Store!In(a.order) : a.rows[k] = k
<1> DEFINE a == Store!TouchAnswer(key)  I == Store!In(answers.order)  o == Store!Used(answers.order, key)
<1>1. /\ answers \in [order : SUBSET (Store!Key \X Store!Key), rows : [I -> Store!Key]]
      /\ Store!IsOrder(answers.order, I) /\ Store!IsFiniteSet(I) /\ Store!Cardinality(I) <= MaxAnswers
      /\ \A k \in I : answers.rows[k] = k
  BY DEF Store!TypeOK, Store!AnswersFitTheirKeys
<1>2. CASE key \in I
  <2>1. Store!IsOrder(o, I) /\ Store!In(o) = I
    <3>1. Store!IsOrder(answers.order, I) /\ I \cup {key} = I
      BY <1>1, <1>2
    <3> HIDE DEF I
    <3>2. Store!IsOrder(o, I \cup {key}) /\ Store!In(o) = I \cup {key}
      BY <3>1, Store!UsedIsOrder
    <3> HIDE DEF o
    <3>3. QED
      BY <3>1, <3>2
  <2>2. a = [order |-> o, rows |-> answers.rows]
    BY <1>1, <1>2 DEF Store!TouchAnswer, Store!Cached
  <2>3. o \subseteq Store!Key \X Store!Key
    <3>1. I \subseteq Store!Key
      BY <1>1 DEF Store!In
    <3>2. QED
      BY <2>1, <3>1 DEF Store!IsOrder
  <2> HIDE DEF a, o, I
  <2>4. Store!In(a.order) = I /\ a.order = o /\ a.rows = answers.rows
        /\ a \in [order : {o}, rows : {answers.rows}]
    BY <2>1, <2>2
  <2>5. QED
    BY <1>1, <2>1, <2>3, <2>4 DEF a
<1>3. CASE key \notin I
  BY <1>1, <1>3 DEF Store!TouchAnswer, Store!Cached
<1>4. QED
  BY <1>2, <1>3

LEMMA PutAnswerKeeps ==
    ASSUME Store!Assumptions, Store!TypeOK, Store!AnswersFitTheirKeys, NEW key \in Store!Key
    PROVE  LET a == Store!PutAnswer(key, key)
           IN /\ a \in [order : SUBSET (Store!Key \X Store!Key), rows : [Store!In(a.order) -> Store!Key]]
              /\ Store!IsOrder(a.order, Store!In(a.order)) /\ Store!IsFiniteSet(Store!In(a.order))
                 /\ Store!Cardinality(Store!In(a.order)) <= MaxAnswers
              /\ \A k \in Store!In(a.order) : a.rows[k] = k
<1> DEFINE a == Store!PutAnswer(key, key)
           I == Store!In(answers.order)
           o == Store!Used(answers.order, key)
           K == I \cup {key}
           kept == Store!Without(o, Store!Surplus(o, MaxAnswers))
<1>1. /\ answers \in [order : SUBSET (Store!Key \X Store!Key), rows : [I -> Store!Key]]
      /\ Store!IsOrder(answers.order, I) /\ Store!IsFiniteSet(I) /\ Store!Cardinality(I) <= MaxAnswers
      /\ \A k \in I : answers.rows[k] = k
  BY DEF Store!TypeOK, Store!AnswersFitTheirKeys
<1>2. Store!IsOrder(o, K) /\ Store!In(o) = K /\ \A k \in K : <<k, key>> \in o
  BY <1>1, Store!UsedIsOrder, Store!UsedIsLast
<1>3. Store!IsFiniteSet(K) /\ Store!Cardinality(K) <= MaxAnswers + 1 /\ key \in K /\ MaxAnswers \in Nat \ {0}
  <2>1. MaxAnswers \in Nat \ {0}
    BY DEF Store!Assumptions
  <2> HIDE DEF I
  <2>2. Store!Cardinality(I) \in Nat /\ Store!IsFiniteSet(K)
        /\ (Store!Cardinality(K) = Store!Cardinality(I) \/ Store!Cardinality(K) = Store!Cardinality(I) + 1)
    BY <1>1, Store!FS_CardinalityType, Store!FS_AddElement
  <2>3. QED
    BY <1>1, <2>1, <2>2
<1>4. PICK stay \in SUBSET K : Store!IsOrder(kept, stay) /\ Store!IsFiniteSet(stay)
      /\ Store!Cardinality(stay) <= MaxAnswers
  <2> HIDE DEF o, K
  <2>1. QED
    BY <1>2, <1>3, Store!SurplusGoes
<1>5. Store!In(kept) = stay
  BY <1>4, Store!OrderIsOf
<1>6. a = [order |-> kept, rows |-> [k \in stay |-> IF k = key THEN key ELSE answers.rows[k]]]
  BY <1>5, Zenon DEF Store!PutAnswer
<1>7. \A k \in stay : k \in Store!Key /\ (IF k = key THEN key ELSE answers.rows[k]) = k
  <2>1. I \subseteq Store!Key
    BY <1>1 DEF Store!In
  <2>2. QED
    BY <1>1, <2>1
<1>8. kept \subseteq Store!Key \X Store!Key
  BY <1>4, <1>7 DEF Store!IsOrder
<1>9. a.rows = [k \in stay |-> k]
  BY <1>6, <1>7
<1> HIDE DEF a, kept
<1>10. QED
  BY <1>4, <1>5, <1>6, <1>7, <1>8, <1>9 DEF a

LEMMA TodoBegins == <<>> \in Store!Writes /\ <<"touch">> \in Store!Writes
BY DEF Store!Writes

\* The writes of a call.
LEMMA TodoGrows ==
    ASSUME NEW todo \in Store!Writes
    PROVE  /\ Append(todo, "touchAnswer") \in Store!Writes /\ Append(todo, "touchAnswer") # <<>>
           /\ todo \o <<"put", "remember">> \in Store!Writes /\ todo \o <<"put", "remember">> # <<>>
           /\ todo \o <<"put">> \in Store!Writes /\ todo \o <<"put">> # <<>>
           /\ todo # <<>> => Tail(todo) \in Store!Writes /\ (Len(todo) # 1 => Tail(todo) # <<>>)
<1> DEFINE W == {"touch", "touchAnswer", "put", "remember"}
<1>1. <<>> \in Seq(W) /\ <<"touch">> \in Seq(W) /\ <<"put">> \in Seq(W) /\ <<"put", "remember">> \in Seq(W)
  OBVIOUS
<1>2. Append(todo, "touchAnswer") \in Seq(W) /\ Append(todo, "touchAnswer") # <<>>
  BY DEF Store!Writes
<1>3. ASSUME NEW w \in Seq(W), w # <<>> PROVE todo \o w \in Seq(W) /\ todo \o w # <<>>
  BY <1>3 DEF Store!Writes
<1>4. ASSUME todo # <<>> PROVE Tail(todo) \in Seq(W) /\ (Len(todo) # 1 => Tail(todo) # <<>>)
  <2>1. todo \in Seq(W) /\ Len(todo) \in Nat /\ Len(todo) # 0
    BY <1>4 DEF Store!Writes
  <2> HIDE DEF W
  <2>2. Tail(todo) \in Seq(W) /\ Len(Tail(todo)) = Len(todo) - 1
    BY <1>4, <2>1
  <2>3. Tail(todo) = <<>> => Len(Tail(todo)) = 0
    <3>1. \A q \in Seq(W) : q = <<>> => Len(q) = 0
      OBVIOUS
    <3>2. QED
      BY <2>2, <3>1
  <2>4. Len(todo) # 1 => Len(Tail(todo)) # 0
    BY <2>1, <2>2
  <2>5. QED
    BY <2>2, <2>3, <2>4, Zenon DEF W
<1>5. <<"put">> # <<>> /\ <<"put", "remember">> # <<>>
  OBVIOUS
<1>6. QED
  BY <1>1, <1>2, <1>3, <1>4, <1>5 DEF Store!Writes

LEMMA SessionsInit == ASSUME Store!Assumptions, Store!Init PROVE Store!IInv
<1>1. ASSUME NEW F, NEW V
      PROVE  Store!NewLru(F) \in Store!Lru(F, V) /\ Store!StoreIsTold(Store!NewLru(F), Store!NewTold(F))
  <2> DEFINE l == Store!NewLru(F)
  <2>1. l.order = {} /\ l.held = [s \in Session |-> Store!Nothing(F)] /\ l \in Store!Lru(F, V)
    BY DEF Store!NewLru, Store!Lru, Store!Nothing
  <2>2. Store!Holders(l) = {}
    BY <2>1, HoldersOf
  <2>3. Store!IsFiniteSet({}) /\ Store!Cardinality({}) <= MaxSessions
    BY Store!FS_EmptySet DEF Store!Assumptions
  <2>4. QED
    BY <2>1, <2>2, <2>3, Store!NoOrder DEF Store!StoreIsTold, Store!NewTold
<1>2. Store!NoAnswers.order = {}
      /\ Store!NoAnswers \in [order : SUBSET (Store!Key \X Store!Key), rows : [{} -> Store!Key]]
         /\ Store!In({}) = {}
  BY Store!NoOrder DEF Store!NoAnswers
<1>3. Store!IsFiniteSet({}) /\ Store!Cardinality({}) <= MaxAnswers
  BY Store!FS_EmptySet DEF Store!Assumptions
<1>4. Store!AnswersFitTheirKeys
  BY <1>2, <1>3, Store!NoOrder DEF Store!Init, Store!AnswersFitTheirKeys
<1>5. Store!NoCall \in Store!Resolve /\ Store!NoCall.rows = None /\ Store!NoCall.at = "idle"
  BY TodoBegins DEF Store!NoCall, Store!Resolve
<1>6. resolves \in [Store!Call -> Store!Resolve] /\ Store!AnswersFitTheCity /\ Store!CallsAreWhole
  BY <1>5 DEF Store!Init, Store!AnswersFitTheCity, Store!CallsAreWhole
<1>7. Store!TypeOK
  BY <1>1, <1>2, <1>6 DEF Store!Init, Store!TypeOK
<1>8. QED
  BY <1>1, <1>4, <1>6, <1>7 DEF Store!Init, Store!IInv

\* A call in its new state.
LEMMA CallMoves ==
    ASSUME Store!IInv, NEW c \in Store!Call, NEW k \in Store!Resolve, Store!Become(c, k),
           k.rows # None => k.rows = <<k.text, k.hint>>,
           k.at # "idle" => k.session \in Session /\ k.text \in Store!Text /\ k.hint \in City \cup {Unset},
           k.at \in {"leg", "writing"} => k.rows = <<k.text, k.hint>> /\ k.todo # <<>>
    PROVE  resolves' \in [Store!Call -> Store!Resolve] /\ Store!AnswersFitTheCity' /\ Store!CallsAreWhole'
<1>1. resolves \in [Store!Call -> Store!Resolve] /\ Store!AnswersFitTheCity /\ Store!CallsAreWhole
  BY DEF Store!IInv, Store!TypeOK
<1>2. resolves' = [resolves EXCEPT ![c] = k]
  BY DEF Store!Become
<1>3. resolves' \in [Store!Call -> Store!Resolve] /\ resolves'[c] = k
      /\ \A d \in Store!Call : d # c => resolves'[d] = resolves[d]
  BY <1>1, <1>2
<1>4. Store!AnswersFitTheCity' /\ Store!CallsAreWhole'
  BY <1>1, <1>3 DEF Store!AnswersFitTheCity, Store!CallsAreWhole
<1>5. QED
  BY <1>3, <1>4

\* A step that leaves the calls alone.
LEMMA CallsStay ==
    ASSUME Store!IInv, UNCHANGED resolves
    PROVE  resolves' \in [Store!Call -> Store!Resolve] /\ Store!AnswersFitTheCity' /\ Store!CallsAreWhole'
BY DEF Store!IInv, Store!TypeOK, Store!AnswersFitTheCity, Store!CallsAreWhole

\* A call that goes on.
LEMMA CallGoesOn ==
    ASSUME Store!IInv, NEW c \in Store!Call, resolves[c].at # "idle",
           NEW stage \in {"lookup", "leg", "writing", "over"},
           NEW todo \in Store!Writes, stage \in {"leg", "writing"} => todo # <<>>,
           NEW rows, rows = <<resolves[c].text, resolves[c].hint>>,
           Store!GoOn(c, stage, rows, todo)
    PROVE  resolves' \in [Store!Call -> Store!Resolve] /\ Store!AnswersFitTheCity' /\ Store!CallsAreWhole'
<1> DEFINE k == [at |-> stage, session |-> resolves[c].session,
                 text |-> resolves[c].text, hint |-> resolves[c].hint,
                 rows |-> rows, todo |-> todo]
<1>1. resolves[c].session \in Session /\ resolves[c].text \in Store!Text
      /\ resolves[c].hint \in City \cup {Unset}
  BY DEF Store!IInv, Store!CallsAreWhole
<1>2. k \in Store!Resolve
  BY <1>1 DEF Store!Resolve, Store!Key, Store!Writes
<1>3. Store!Become(c, k)
  BY DEF Store!GoOn
<1>4. QED
  BY <1>1, <1>2, <1>3, CallMoves

LEMMA SessionsStep == ASSUME Store!Assumptions, Store!IInv, Store!Next \/ UNCHANGED Store!vars PROVE Store!IInv'
<1> DEFINE Held == Value \cup {None}
           CallsOK == resolves' \in [Store!Call -> Store!Resolve] /\ Store!AnswersFitTheCity'
           /\ Store!CallsAreWhole'
           PrefsOK == overlays' \in Store!Lru(Field, Held) /\ Store!StoreIsTold(overlays', told'.prefs)
           CityOK == lastGood' \in Store!Lru({"city"}, City) /\ Store!StoreIsTold(lastGood', told'.city)
           ToldOK == told' = [prefs |-> told'.prefs, city |-> told'.city]
           AnswersOK ==
               /\ answers' \in [order : SUBSET (Store!Key \X Store!Key),
                              rows : [Store!In(answers'.order) -> Store!Key]]
               /\ Store!IsOrder(answers'.order, Store!In(answers'.order))
                  /\ Store!IsFiniteSet(Store!In(answers'.order))
               /\ Store!Cardinality(Store!In(answers'.order)) <= MaxAnswers
               /\ \A key \in Store!In(answers'.order) : answers'.rows[key] = key
<1>1. /\ overlays \in Store!Lru(Field, Held) /\ Store!StoreIsTold(overlays, told.prefs)
      /\ lastGood \in Store!Lru({"city"}, City) /\ Store!StoreIsTold(lastGood, told.city)
      /\ resolves \in [Store!Call -> Store!Resolve] /\ told = [prefs |-> told.prefs, city |-> told.city]
      /\ Store!TypeOK /\ Store!AnswersFitTheirKeys /\ Store!AnswersFitTheCity /\ Store!CallsAreWhole
  BY DEF Store!IInv, Store!TypeOK
<1>2. CallsOK /\ PrefsOK /\ CityOK /\ AnswersOK /\ ToldOK => Store!IInv'
  BY DEF Store!IInv, Store!TypeOK, Store!AnswersFitTheirKeys
<1>3. /\ UNCHANGED answers => AnswersOK
      /\ UNCHANGED resolves => CallsOK
      /\ UNCHANGED <<overlays, told>> => PrefsOK
      /\ UNCHANGED <<lastGood, told>> => CityOK
      /\ UNCHANGED told => ToldOK
  <2>1. ASSUME UNCHANGED answers PROVE AnswersOK
    BY <1>1, <2>1 DEF Store!TypeOK, Store!AnswersFitTheirKeys
  <2>2. ASSUME UNCHANGED <<overlays, told>> PROVE PrefsOK
    BY <1>1, <2>2
  <2>3. ASSUME UNCHANGED <<lastGood, told>> PROVE CityOK
    BY <1>1, <2>3
  <2>4. QED
    BY <1>1, <2>1, <2>2, <2>3, CallsStay
<1>4. ASSUME NEW x, told' = [told EXCEPT !.prefs = x]
      PROVE  told'.prefs = x /\ told'.city = told.city /\ ToldOK
  <2>1. told' = [prefs |-> x, city |-> told.city]
    BY <1>1, <1>4
  <2>2. QED
    BY <2>1
<1>5. ASSUME NEW x, told' = [told EXCEPT !.city = x]
      PROVE  told'.city = x /\ told'.prefs = told.prefs /\ ToldOK
  <2>1. told' = [prefs |-> told.prefs, city |-> x]
    BY <1>1, <1>5
  <2>2. QED
    BY <2>1
<1>6. ASSUME NEW s \in Session, NEW new \in [Field -> Value \cup {None, Unset}], Store!UpdatePreferences(s, new)
      PROVE  Store!IInv'
  <2>1. /\ new # Store!Nothing(Field) /\ new \in [Field -> Held \cup {Unset}]
        /\ overlays' = Store!Touch(Store!Put(overlays, s, new, FALSE), s)
        /\ told' = [told EXCEPT !.prefs = Store!ToldWrite(@, s, new)]
        /\ UNCHANGED <<lastGood, answers, resolves>>
    BY <1>6 DEF Store!UpdatePreferences
  <2>2. /\ told'.prefs = Store!ToldUse(told.prefs, s, Store!Merge(told.prefs.stored[s], new))
        /\ told'.city = told.city /\ ToldOK
    BY <1>4, <2>1 DEF Store!ToldWrite
  <2> HIDE DEF Held
  <2>3. overlays' \in Store!Lru(Field, Held) /\ Store!StoreIsTold(overlays', told'.prefs)
    <3> DEFINE n == Store!Merge(told.prefs.stored[s], new)
               u == Store!Put(overlays, s, new, FALSE)
    <3>1. told.prefs.stored[s] \in [Field -> Held \cup {Unset}] /\ told.prefs.stored = overlays.held
      BY <1>1 DEF Store!StoreIsTold, Store!Lru
    <3>2. n \in [Field -> Held \cup {Unset}] /\ n # Store!Nothing(Field)
      <4> DEFINE R == Held \cup {Unset}
      <4>1. new \in [Field -> R] /\ told.prefs.stored[s] \in [Field -> R] /\ new # Store!Nothing(Field)
        BY <2>1, <3>1
      <4> HIDE DEF R
      <4>2. n \in [Field -> R] /\ n # Store!Nothing(Field)
        BY <4>1, MergeStores
      <4>3. QED
        BY <4>2 DEF R
    <3>3. u = IF s \in Ephemeral THEN overlays
              ELSE Store!Trim([order |-> Store!Used(overlays.order, s),
                               held |-> [overlays.held EXCEPT ![s] = n]])
      BY <3>1 DEF Store!Put
    <3> HIDE DEF n, u
    <3>4. u \in Store!Lru(Field, Held) /\ Store!StoreIsTold(u, Store!ToldUse(told.prefs, s, n))
          /\ Store!Touch(u, s) = u
      BY <1>1, <3>2, <3>3, PutKeeps
    <3>5. QED
      BY <2>1, <2>2, <3>4 DEF n, u
  <2>4. CityOK
    BY <1>1, <2>1, <2>2
  <2>5. QED
    BY <1>2, <1>3, <2>1, <2>2, <2>3, <2>4
<1>7. ASSUME NEW s \in Session, Store!ClearPreferences(s) PROVE Store!IInv'
  <2> DEFINE new == [f \in Field |-> None]
  <2>1. new # Store!Nothing(Field) /\ new \in [Field -> Held \cup {Unset}]
    BY DEF Store!Assumptions, Store!Nothing
  <2>2. /\ overlays' = Store!Put(overlays, s, new, TRUE)
        /\ told' = [told EXCEPT !.prefs = Store!ToldUse(@, s, new)]
        /\ UNCHANGED <<lastGood, answers, resolves>>
    BY <1>7 DEF Store!ClearPreferences
  <2> HIDE DEF Held, new
  <2>3. told'.prefs = Store!ToldUse(told.prefs, s, new) /\ told'.city = told.city /\ ToldOK
    BY <1>4, <2>2
  <2>4. overlays' \in Store!Lru(Field, Held) /\ Store!StoreIsTold(overlays', told'.prefs)
    <3>1. overlays' = IF s \in Ephemeral THEN overlays
                      ELSE Store!Trim([order |-> Store!Used(overlays.order, s),
                                       held |-> [overlays.held EXCEPT ![s] = new]])
      BY <2>2 DEF Store!Put
    <3>2. QED
      BY <1>1, <2>1, <2>3, <3>1, PutKeeps
  <2>5. CityOK
    BY <1>1, <2>2, <2>3
  <2>6. QED
    BY <1>2, <1>3, <2>2, <2>3, <2>4, <2>5
<1>8. ASSUME NEW s \in Session, Store!ReadPreferences(s) PROVE Store!IInv'
  <2>1. /\ overlays' = Store!Touch(overlays, s)
        /\ told' = [told EXCEPT !.prefs = Store!ToldRead(@, s)]
        /\ UNCHANGED <<lastGood, answers, resolves>>
    BY <1>8 DEF Store!ReadPreferences
  <2>2. told'.prefs = Store!ToldRead(told.prefs, s) /\ told'.city = told.city /\ ToldOK
    BY <1>4, <2>1
  <2> HIDE DEF Held
  <2>3. overlays' \in Store!Lru(Field, Held) /\ Store!StoreIsTold(overlays', told'.prefs)
    BY <1>1, <2>1, <2>2, TouchKeeps
  <2>4. CityOK
    BY <1>1, <2>1, <2>2
  <2>5. QED
    BY <1>2, <1>3, <2>1, <2>2, <2>3, <2>4
<1>9. ASSUME NEW s \in Session,
             lastGood' = Store!Touch(lastGood, s),
             told' = [told EXCEPT !.city = Store!ToldRead(@, s)], UNCHANGED overlays
      PROVE  PrefsOK /\ CityOK /\ ToldOK
  <2>1. told'.city = Store!ToldRead(told.city, s) /\ told'.prefs = told.prefs /\ ToldOK
    BY <1>5, <1>9
  <2>2. CityOK
    BY <1>1, <1>9, <2>1, TouchKeeps
  <2>3. PrefsOK
    BY <1>1, <1>9, <2>1
  <2>4. QED
    BY <2>1, <2>2, <2>3
<1>10. ASSUME NEW c \in Store!Call, NEW s \in Session, NEW text \in Store!Text, Store!Begin(c, s, text)
      PROVE Store!IInv'
  <2> DEFINE last == lastGood.held[s]["city"]
             Looks(hint, todo) == [at |-> "lookup", session |-> s, text |-> text, hint |-> hint,
                                   rows |-> None, todo |-> todo]
  <2>1. last \in City \cup {Unset}
    BY <1>1 DEF Store!Lru
  <2> HIDE DEF last
  <2>2. ASSUME NEW hint \in City \cup {Unset}, NEW todo \in Store!Writes, NEW k, k = Looks(hint, todo),
               Store!Become(c, k)
        PROVE  CallsOK
    <3>1. k.at = "lookup" /\ k.session = s /\ k.text = text /\ k.hint = hint /\ k.rows = None
          /\ k \in Store!Resolve
      BY <2>2 DEF Store!Resolve
    <3>2. QED
      BY <2>2, <3>1, CallMoves
  <2>3. UNCHANGED <<overlays, answers>>
    BY <1>10 DEF Store!Begin
  <2>4. CASE text \in City
    <3>1. Store!Become(c, Looks(text, <<>>)) /\ UNCHANGED <<lastGood, told>>
      BY <1>10, <2>4 DEF Store!Begin
    <3>2. CallsOK
      <4> DEFINE k == Looks(text, <<>>)
      <4>1. k = Looks(text, <<>>) /\ Store!Become(c, k) /\ <<>> \in Store!Writes
        BY <3>1, TodoBegins
      <4> HIDE DEF k
      <4>2. QED
        BY <2>2, <2>4, <4>1
    <3>3. QED
      BY <1>2, <1>3, <2>3, <3>1, <3>2
  <2>5. CASE text \notin City /\ c \in Leg
    <3>1. Store!Become(c, Looks(last, <<"touch">>)) /\ UNCHANGED <<lastGood, told>>
      BY <1>10, <2>5 DEF Store!Begin, last
    <3>2. CallsOK
      <4> DEFINE k == Looks(last, <<"touch">>)
      <4>1. k = Looks(last, <<"touch">>) /\ Store!Become(c, k) /\ <<"touch">> \in Store!Writes
        BY <3>1, TodoBegins
      <4> HIDE DEF k
      <4>2. QED
        BY <2>1, <2>2, <4>1
    <3>3. QED
      BY <1>2, <1>3, <2>3, <3>1, <3>2
  <2>6. CASE text \notin City /\ c \notin Leg
    <3>1. /\ Store!Become(c, Looks(last, <<>>))
          /\ lastGood' = Store!Touch(lastGood, s) /\ told' = [told EXCEPT !.city = Store!ToldRead(@, s)]
      BY <1>10, <2>6 DEF Store!Begin, last
    <3>2. CallsOK
      <4> DEFINE k == Looks(last, <<>>)
      <4>1. k = Looks(last, <<>>) /\ Store!Become(c, k) /\ <<>> \in Store!Writes
        BY <3>1, TodoBegins
      <4> HIDE DEF k
      <4>2. QED
        BY <2>1, <2>2, <4>1
    <3>3. QED
      BY <1>2, <1>3, <1>9, <2>3, <3>1, <3>2
  <2>7. QED
    BY <2>4, <2>5, <2>6
<1>11. ASSUME NEW c \in Store!Call, resolves[c].at # "idle"
       PROVE  /\ resolves[c] \in Store!Resolve /\ resolves[c].session \in Session
              /\ resolves[c].text \in Store!Text /\ resolves[c].hint \in City \cup {Unset}
              /\ Store!KeyOf(c) = <<resolves[c].text, resolves[c].hint>> /\ Store!KeyOf(c) \in Store!Key
  BY <1>1, <1>11 DEF Store!CallsAreWhole, Store!KeyOf, Store!CacheKey, Store!Key
<1>12. ASSUME NEW c \in Store!Call, Store!Hit(c) PROVE Store!IInv'
  <2> DEFINE rows == answers.rows[Store!KeyOf(c)]
             todo == Append(resolves[c].todo, "touchAnswer")
  <2>1. resolves[c].at = "lookup" /\ Store!Cached(Store!KeyOf(c)) /\ UNCHANGED <<overlays, lastGood, told>>
    BY <1>12 DEF Store!Hit
  <2>2. rows = <<resolves[c].text, resolves[c].hint>>
    BY <1>1, <1>11, <2>1 DEF Store!AnswersFitTheirKeys, Store!Cached
  <2>3. resolves[c].todo \in Store!Writes
    BY <1>11, <2>1 DEF Store!Resolve, Store!Writes
  <2>4. todo \in Store!Writes /\ todo # <<>>
    BY <2>3, TodoGrows
  <2> HIDE DEF rows, todo
  <2>5. CASE c \in Leg
    <3>1. Store!GoOn(c, "leg", rows, todo) /\ UNCHANGED answers
      BY <1>12, <2>5 DEF Store!Hit, rows, todo
    <3>2. CallsOK
      BY <2>1, <2>2, <2>4, <3>1, CallGoesOn
    <3>3. QED
      BY <1>2, <1>3, <2>1, <3>1, <3>2
  <2>6. CASE c \notin Leg
    <3>1. Store!GoOn(c, "over", rows, <<>>) /\ answers' = Store!TouchAnswer(Store!KeyOf(c))
          /\ Store!KeyOf(c) \in Store!Key
      BY <1>11, <1>12, <2>1, <2>6 DEF Store!Hit, rows
    <3>2. CallsOK
      <4>1. <<>> \in Store!Writes /\ "over" \notin {"leg", "writing", "idle"}
        BY TodoBegins
      <4>2. QED
        BY <2>1, <2>2, <3>1, <4>1, CallGoesOn
    <3>3. AnswersOK
      BY <1>1, <3>1, TouchAnswerKeeps
    <3>4. QED
      BY <1>2, <1>3, <2>1, <3>2, <3>3
  <2>7. QED
    BY <2>5, <2>6
<1>13. ASSUME NEW c \in Store!Call, NEW found \in BOOLEAN, Store!Search(c, found) PROVE Store!IInv'
  <2> DEFINE stage == IF c \in Leg THEN "leg" ELSE "writing"
             todo == resolves[c].todo \o (IF found THEN <<"put", "remember">> ELSE <<"put">>)
             rows == <<resolves[c].text, resolves[c].hint>>
  <2>1. resolves[c].at = "lookup" /\ UNCHANGED <<overlays, lastGood, answers, told>>
    BY <1>13 DEF Store!Search
  <2>2. resolves[c].todo \in Store!Writes
    BY <1>11, <2>1 DEF Store!Resolve, Store!Writes
  <2>3. todo \in Store!Writes /\ todo # <<>>
    BY <2>2, TodoGrows
  <2>4. Store!GoOn(c, stage, rows, todo)
    BY <1>13 DEF Store!Search
  <2>5. stage \in {"leg", "writing"}
    OBVIOUS
  <2> HIDE DEF stage, todo, rows
  <2>6. CallsOK
    BY <2>1, <2>3, <2>4, <2>5, CallGoesOn DEF rows
  <2>7. QED
    BY <1>2, <1>3, <2>1, <2>6
<1>14. ASSUME NEW c \in Store!Call, Store!Join(c) PROVE Store!IInv'
  <2>1. /\ resolves[c].at = "leg" /\ Store!GoOn(c, "writing", resolves[c].rows, resolves[c].todo)
        /\ UNCHANGED <<overlays, lastGood, answers, told>>
    BY <1>14 DEF Store!Join
  <2>2. resolves[c].rows = <<resolves[c].text, resolves[c].hint>> /\ resolves[c].todo # <<>>
    BY <1>1, <2>1 DEF Store!CallsAreWhole
  <2>3. resolves[c].todo \in Store!Writes
    BY <1>11, <2>1 DEF Store!Resolve, Store!Writes
  <2>4. CallsOK
    BY <2>1, <2>2, <2>3, CallGoesOn
  <2>5. QED
    BY <1>2, <1>3, <2>1, <2>4
<1>15. ASSUME NEW c \in Store!Call, Store!Discard(c) \/ Store!Answer(c) PROVE Store!IInv'
  <2>1. Store!Become(c, Store!NoCall) /\ UNCHANGED <<overlays, lastGood, answers, told>>
    BY <1>15 DEF Store!Discard, Store!Answer
  <2>2. Store!NoCall \in Store!Resolve /\ Store!NoCall.rows = None /\ Store!NoCall.at = "idle"
    BY TodoBegins DEF Store!NoCall, Store!Resolve
  <2>3. CallsOK
    BY <2>1, <2>2, CallMoves
  <2>4. QED
    BY <1>2, <1>3, <2>1, <2>3
<1>16. ASSUME NEW c \in Store!Call, NEW top \in City, Store!Write(c, top) PROVE Store!IInv'
  <2> DEFINE k == resolves[c]
             city == [f \in {"city"} |-> IF k.hint = Unset THEN top ELSE k.hint]
             stage == IF Len(k.todo) = 1 THEN "over" ELSE "writing"
             todo == Tail(k.todo)
  <2>1. k.at = "writing" /\ Store!GoOn(c, stage, k.rows, todo) /\ UNCHANGED overlays
    BY <1>16 DEF Store!Write
  <2>2. k.rows = <<k.text, k.hint>> /\ k.todo # <<>> /\ k.rows = Store!KeyOf(c)
    BY <1>1, <1>11, <2>1 DEF Store!CallsAreWhole
  <2>3. CallsOK
    <3>1. k.todo \in Store!Writes /\ k.todo # <<>>
      BY <1>11, <2>1, <2>2 DEF Store!Resolve, Store!Writes
    <3>2. /\ todo \in Store!Writes
          /\ stage \in {"over", "writing"} /\ (stage = "writing" => todo # <<>>)
      BY <3>1, TodoGrows
    <3> HIDE DEF stage, todo
    <3>3. QED
      BY <2>1, <2>2, <3>2, CallGoesOn
  <2>4. CASE Head(k.todo) = "touch"
    <3>1. /\ lastGood' = Store!Touch(lastGood, k.session)
             /\ told' = [told EXCEPT !.city = Store!ToldRead(@, k.session)]
          /\ UNCHANGED answers
      BY <1>16, <2>4 DEF Store!Write
    <3>2. k.session \in Session
      BY <1>11, <2>1
    <3>3. QED
      BY <1>2, <1>3, <1>9, <2>1, <2>3, <3>1, <3>2
  <2>5. CASE Head(k.todo) = "touchAnswer"
    <3>1. answers' = Store!TouchAnswer(Store!KeyOf(c)) /\ UNCHANGED <<lastGood, told>>
      BY <1>16, <2>5 DEF Store!Write
    <3>2. Store!KeyOf(c) \in Store!Key
      BY <1>11, <2>1
    <3>3. AnswersOK
      BY <1>1, <3>1, <3>2, TouchAnswerKeeps
    <3>4. QED
      BY <1>2, <1>3, <2>1, <2>3, <3>1, <3>3
  <2>6. CASE Head(k.todo) = "put"
    <3>1. answers' = Store!PutAnswer(Store!KeyOf(c), Store!KeyOf(c)) /\ UNCHANGED <<lastGood, told>>
      BY <1>16, <2>2, <2>6 DEF Store!Write
    <3>2. Store!KeyOf(c) \in Store!Key
      BY <1>11, <2>1
    <3>3. AnswersOK
      BY <1>1, <3>1, <3>2, PutAnswerKeeps
    <3>4. QED
      BY <1>2, <1>3, <2>1, <2>3, <3>1, <3>3
  <2>7. CASE Head(k.todo) \notin {"touch", "touchAnswer", "put"}
    <3>1. /\ lastGood' = Store!Put(lastGood, k.session, city, FALSE)
          /\ told' = [told EXCEPT !.city = Store!ToldWrite(@, k.session, city)]
          /\ UNCHANGED answers
      BY <1>16, <2>7 DEF Store!Write
    <3>2. k.session \in Session /\ k.hint \in City \cup {Unset}
      BY <1>11, <2>1
    <3>3. city["city"] \in City /\ city["city"] # Unset
      BY <3>2 DEF Store!Assumptions
    <3>4. city \in [{"city"} -> City \cup {Unset}] /\ city # Store!Nothing({"city"})
      BY <3>3 DEF Store!Nothing
    <3> HIDE DEF city, k
    <3>5. /\ told'.city = Store!ToldUse(told.city, k.session, Store!Merge(told.city.stored[k.session], city))
          /\ told'.prefs = told.prefs /\ ToldOK
      BY <1>5, <3>1 DEF Store!ToldWrite
    <3>6. CityOK
      <4> DEFINE F == {"city"}
                 n == Store!Merge(told.city.stored[k.session], city)
      <4>1. told.city.stored[k.session] \in [F -> City \cup {Unset}] /\ told.city.stored = lastGood.held
        BY <1>1, <3>2 DEF Store!StoreIsTold, Store!Lru
      <4>2. n \in [F -> City \cup {Unset}] /\ n # Store!Nothing(F)
        <5> DEFINE R == City \cup {Unset}
                   old == told.city.stored[k.session]
        <5>1. city \in [F -> R] /\ old \in [F -> R] /\ city # Store!Nothing(F)
          BY <3>4, <4>1
        <5> HIDE DEF R, F, old
        <5>2. Store!Merge(old, city) \in [F -> R] /\ Store!Merge(old, city) # Store!Nothing(F)
          BY <5>1, MergeStores
        <5>3. QED
          BY <5>2 DEF R, old
      <4>3. lastGood' = IF k.session \in Ephemeral THEN lastGood
                        ELSE Store!Trim([order |-> Store!Used(lastGood.order, k.session),
                                   held |-> [lastGood.held EXCEPT ![k.session] = n]])
        BY <3>1, <4>1 DEF Store!Put
      <4>4. told'.city = Store!ToldUse(told.city, k.session, n)
        BY <3>5
      <4> HIDE DEF n, F
      <4>5. lastGood' \in Store!Lru(F, City) /\ Store!StoreIsTold(lastGood', told'.city)
        BY <1>1, <3>2, <4>2, <4>3, <4>4, PutKeeps DEF F
      <4>6. QED
        BY <4>5 DEF F
    <3>7. PrefsOK
      BY <1>1, <2>1, <3>5
    <3>8. QED
      BY <1>2, <1>3, <2>3, <3>1, <3>5, <3>6, <3>7
  <2>8. QED
    BY <2>4, <2>5, <2>6, <2>7
<1>17. ASSUME NEW s \in Session, Store!Forget(s) PROVE Store!IInv'
  <2>1. /\ answers' = Store!NoAnswers
        /\ lastGood' = Store!Drop(lastGood, s) /\ told' = [told EXCEPT !.city = Store!ToldDrop(@, s)]
        /\ UNCHANGED <<overlays, resolves>>
    BY <1>17 DEF Store!Forget
  <2>3. told'.city = Store!ToldDrop(told.city, s) /\ told'.prefs = told.prefs /\ ToldOK
    BY <1>5, <2>1
  <2>4. CityOK
    BY <1>1, <2>1, <2>3, ForgetKeeps
  <2>5. PrefsOK
    BY <1>1, <2>1, <2>3
  <2>6. AnswersOK
    <3>1. answers'.order = {}
          /\ answers' \in [order : SUBSET (Store!Key \X Store!Key), rows : [{} -> Store!Key]]
      BY <2>1 DEF Store!NoAnswers
    <3>2. Store!IsFiniteSet({}) /\ Store!Cardinality({}) <= MaxAnswers
      BY Store!FS_EmptySet DEF Store!Assumptions
    <3>3. QED
      BY <3>1, <3>2, Store!NoOrder
  <2>7. QED
    BY <1>2, <1>3, <2>1, <2>3, <2>4, <2>5, <2>6
<1>18. ASSUME UNCHANGED Store!vars PROVE Store!IInv'
  BY <1>2, <1>3, <1>18 DEF Store!vars
<1>19. QED
  BY <1>6, <1>7, <1>8, <1>10, <1>12, <1>13, <1>14, <1>15, <1>16, <1>17, <1>18
  DEF Store!Next, Store!NextPreferences, Store!NextResolve

LEMMA SessionsHold == ASSUME Store!IInv PROVE Store!TypeOK /\ Store!SessionsKeepApart
<1>1. \A l, g : Store!StoreIsTold(l, g) =>
          l.held = g.stored /\ Store!In(l.order) = Store!Holders(l)
          /\ Store!Cardinality(Store!In(l.order)) <= MaxSessions
  BY Store!OrderIsOf DEF Store!StoreIsTold
<1>2. QED
  BY <1>1 DEF Store!IInv, Store!AnswersFitTheirKeys, Store!SessionsKeepApart, Store!RecentSessionsKeepState,
     Store!StoresStayBounded

\* For any sessions, fields, cities, bounds and calls in progress: a session
\* finds exactly what it stored, until as many others as there is room for
\* have used the store; an answer was searched for near the city its session
\* was in; and no store outgrows its bound.
THEOREM Kept == MCSpec => []SessionsAreKept
<1> DEFINE Inv == part \in {"overlays", "cities"} => Store!IInv
<1>1. MCInit => Inv
  BY PartsAssumption, SessionsInit DEF MCInit
<1>2. Inv /\ [MCNext]_MCVars => Inv'
  <2> SUFFICES ASSUME Store!IInv, [MCNext]_MCVars, part \in {"overlays", "cities"} PROVE Store!IInv'
    BY DEF MCNext, MCVars
  <2>1. Store!Next \/ UNCHANGED Store!vars
    BY DEF MCNext, MCVars, sessionVars, Store!Next, Store!vars
  <2>2. QED
    BY <2>1, PartsAssumption, SessionsStep
<1>3. Inv => SessionsAreKept
  BY SessionsHold DEF SessionsAreKept
<1> HIDE DEF Inv
<1>4. QED
  BY <1>1, <1>2, <1>3, PTL DEF MCSpec

(***************************************************************************)
(* StreetSearch.  What a recursive definition adds up to is found by its   *)
(* least counterexample: a set of numbers that is not empty has a least    *)
(* one.                                                                    *)
(***************************************************************************)

\* A set of numbers has a least one.
LEMMA LeastNumber ==
    ASSUME NEW S \in SUBSET Nat, S # {}
    PROVE  \E n \in S : \A m \in S : n <= m
<1>1. IsWellFoundedOn(OpToRel(<, Nat), Nat)
  BY NatLessThanWellFounded
<1>2. PICK n \in S : \A m \in S : <<m, n>> \notin OpToRel(<, Nat)
  BY <1>1, WFMin
<1>3. \A m \in S : ~(m < n)
  BY <1>2 DEF OpToRel
<1>4. QED
  BY <1>3

\* The sums along a path, edge by edge.
Adds(s, p, w) == \A i \in DOMAIN s : s[i] = IF i = 1 THEN 0 ELSE s[i - 1] + w[<<p[i - 1], p[i]>>]
Weighs(p, w, k) == \A i \in 2..k : w[<<p[i - 1], p[i]>>] \in Nat

LEMMA SumsExist ==
    ASSUME NEW k \in Nat, NEW p, NEW w, Weighs(p, w, k)
    PROVE  \E s \in [1..k -> Nat] : Adds(s, p, w)
<1> DEFINE has(j) == \E s \in [1..j -> Nat] : Adds(s, p, w)
           bad == {j \in 0..k : ~has(j)}
<1>1. SUFFICES ASSUME bad # {} PROVE FALSE
  OBVIOUS
<1> HIDE DEF has
<1>2. PICK j \in 0..k : ~has(j) /\ \A m \in 0..k : ~has(m) => j <= m
  <2>1. bad \in SUBSET Nat /\ \A j \in bad : j \in 0..k /\ ~has(j)
    OBVIOUS
  <2>2. \A m \in 0..k : ~has(m) => m \in bad
    OBVIOUS
  <2> HIDE DEF bad
  <2>3. PICK j \in bad : \A m \in bad : j <= m
    BY <1>1, <2>1, LeastNumber
  <2>4. QED
    BY <2>1, <2>2, <2>3
<1>3. j \in 0..k /\ ~has(j)
  BY <1>2
<1>4. CASE j = 0
  <2>1. [i \in 1..0 |-> 0] \in [1..0 -> Nat] /\ Adds([i \in 1..0 |-> 0], p, w)
    BY DEF Adds
  <2>2. QED
    BY <1>3, <1>4, <2>1 DEF has
<1>5. CASE j # 0
  <2>1. j - 1 \in 0..k /\ has(j - 1)
    BY <1>2, <1>3, <1>5
  <2>2. PICK s \in [1..(j - 1) -> Nat] : Adds(s, p, w)
    BY <2>1 DEF has
  <2> DEFINE t == [i \in 1..j |-> IF i = j THEN IF i = 1 THEN 0 ELSE s[i - 1] + w[<<p[i - 1], p[i]>>] ELSE s[i]]
  <2>3. j # 1 => w[<<p[j - 1], p[j]>>] \in Nat /\ s[j - 1] \in Nat
    BY <1>3, <1>5 DEF Weighs
  <2>4. t \in [1..j -> Nat]
    <3>1. ASSUME NEW i \in 1..j PROVE t[i] \in Nat
      <4>1. CASE i = j
        BY <1>3, <1>5, <2>3, <4>1
      <4>2. CASE i # j
        BY <1>3, <1>5, <4>2
      <4>3. QED
        BY <4>1, <4>2
    <3>2. QED
      BY <3>1
  <2>5. Adds(t, p, w)
    BY <1>3, <1>5, <2>2 DEF Adds
  <2> HIDE DEF t
  <2>6. has(j)
    BY <2>4, <2>5 DEF has
  <2>7. QED
    BY <1>3, <2>6
<1>6. QED
  BY <1>4, <1>5

\* There is one way to add up.
LEMMA SumsAreOne ==
    ASSUME NEW k \in Nat, NEW p, NEW w, NEW s, NEW t, DOMAIN s = 1..k, DOMAIN t = 1..k,
           Adds(s, p, w), Adds(t, p, w)
    PROVE  \A i \in 1..k : s[i] = t[i]
<1> DEFINE bad == {i \in 1..k : s[i] # t[i]}
<1>1. SUFFICES ASSUME bad # {} PROVE FALSE
  OBVIOUS
<1>2. PICK i \in bad : \A m \in bad : i <= m
  <2>1. bad \in SUBSET Nat
    OBVIOUS
  <2> HIDE DEF bad
  <2>2. QED
    BY <1>1, <2>1, LeastNumber
<1>3. i # 1
  BY DEF Adds
<1>4. i - 1 \in 1..k /\ i - 1 \notin bad
  BY <1>2, <1>3
<1>5. QED
  BY <1>3, <1>4 DEF Adds

LEMMA AlongIs ==
    ASSUME NEW p, NEW w, Len(p) \in Nat \ {0}, NEW s \in [1..Len(p) -> Nat], Adds(s, p, w)
    PROVE  Search!Along(p, w) = s[Len(p)]
<1> DEFINE sums(f) == [i \in 1..Len(p) |-> IF i = 1 THEN 0 ELSE f[i - 1] + w[<<p[i - 1], p[i]>>]]
           upto == CHOOSE f : f = sums(f)
<1>1. s = sums(s)
  BY DEF Adds
<1>2. upto = sums(upto)
  BY <1>1
<1> HIDE DEF upto
<1>3. DOMAIN upto = 1..Len(p) /\ Adds(upto, p, w)
  BY <1>2 DEF Adds
<1>4. upto[Len(p)] = s[Len(p)]
  BY <1>3, SumsAreOne
<1>5. Search!Along(p, w) = upto[Len(p)]
  BY DEF Search!Along, upto
<1>6. QED
  BY <1>4, <1>5

LEMMA AlongFacts ==
    ASSUME NEW p, NEW w, Len(p) \in Nat \ {0}, Weighs(p, w, Len(p))
    PROVE  /\ Search!Along(p, w) \in Nat
           /\ \E s \in [1..Len(p) -> Nat] :
                  Adds(s, p, w) /\ s[Len(p)] = Search!Along(p, w) /\ \A i \in 1..Len(p) : s[i] <= Search!Along(p, w)
<1> DEFINE k == Len(p)
<1>1. PICK s \in [1..k -> Nat] : Adds(s, p, w)
  BY SumsExist
<1>2. Search!Along(p, w) = s[k]
  BY <1>1, AlongIs
<1> DEFINE less(j) == \E i \in 1..j : s[i] > s[j]
           bad == {j \in 1..k : less(j)}
<1>3. bad = {}
  <2>1. SUFFICES ASSUME bad # {} PROVE FALSE
    OBVIOUS
  <2>2. PICK j \in 1..k : less(j) /\ \A m \in 1..k : less(m) => j <= m
    <3> HIDE DEF less
    <3>1. bad \in SUBSET Nat /\ (\A m \in bad : m \in 1..k /\ less(m)) /\ \A m \in 1..k : less(m) => m \in bad
      OBVIOUS
    <3> HIDE DEF bad
    <3>2. PICK j \in bad : \A m \in bad : j <= m
      BY <2>1, <3>1, LeastNumber
    <3>3. QED
      BY <3>1, <3>2
  <2>3. PICK i \in 1..j : s[i] > s[j]
    BY <2>2
  <2>4. i # j /\ i \in 1..(j - 1) /\ j - 1 \in 1..k /\ j \in 2..k
    BY <2>3
  <2>5. s[j] = s[j - 1] + w[<<p[j - 1], p[j]>>]
    BY <1>1, <2>4 DEF Adds
  <2>6. w[<<p[j - 1], p[j]>>] \in Nat
    BY <2>4 DEF Weighs
  <2>7. s[i] \in Nat /\ s[j] \in Nat /\ s[j - 1] \in Nat
    BY <2>4
  <2>8. ~(s[i] > s[j - 1])
    BY <2>2, <2>4
  <2>9. QED
    BY <2>3, <2>5, <2>6, <2>7, <2>8
<1>4. \A i \in 1..k : s[i] <= s[k]
  <2>1. k \in 1..k /\ ~less(k)
    BY <1>3
  <2>2. QED
    BY <2>1
<1>5. QED
  BY <1>1, <1>2, <1>4

LEMMA AlongOne == \A n, w : Search!Along(<<n>>, w) = 0
<1>1. ASSUME NEW n, NEW w PROVE Search!Along(<<n>>, w) = 0
  <2> DEFINE s == [i \in 1..1 |-> 0]
  <2>1. Len(<<n>>) = 1 /\ s \in [1..1 -> Nat] /\ s[1] = 0 /\ Adds(s, <<n>>, w)
    BY DEF Adds
  <2> HIDE DEF s
  <2>2. QED
    BY <2>1, AlongIs
<1>2. QED
  BY <1>1

LEMMA AlongAppend ==
    ASSUME NEW p, NEW q, NEW w, Len(p) \in Nat \ {0}, Weighs(p, w, Len(p)),
           Len(q) = Len(p) + 1, \A i \in 1..Len(p) : q[i] = p[i], w[<<p[Len(p)], q[Len(q)]>>] \in Nat
    PROVE  Search!Along(q, w) = Search!Along(p, w) + w[<<p[Len(p)], q[Len(q)]>>]
<1> DEFINE k == Len(p)
           last == w[<<p[k], q[k + 1]>>]
<1>1. PICK s \in [1..k -> Nat] : Adds(s, p, w) /\ s[k] = Search!Along(p, w)
  BY AlongFacts
<1> DEFINE t == [i \in 1..(k + 1) |-> IF i = k + 1 THEN s[k] + last ELSE s[i]]
<1>2. s[k] \in Nat /\ last \in Nat
  OBVIOUS
<1> HIDE DEF last
<1>3. t \in [1..Len(q) -> Nat]
  BY <1>2
<1>4. Adds(t, q, w)
  <2>1. ASSUME NEW i \in 1..(k + 1) PROVE t[i] = IF i = 1 THEN 0 ELSE t[i - 1] + w[<<q[i - 1], q[i]>>]
    <3>1. CASE i = k + 1
      <4>1. t[k + 1] = s[k] + last /\ t[k] = s[k] /\ k + 1 - 1 = k /\ k + 1 # 1
        OBVIOUS
      <4>2. last = w[<<q[k], q[k + 1]>>]
        BY DEF last
      <4> HIDE DEF t
      <4>3. QED
        BY <3>1, <4>1, <4>2
    <3>2. CASE i # k + 1
      <4>1. i \in 1..k /\ (i # 1 => i - 1 \in 1..k) /\ q[i] = p[i]
        BY <3>2
      <4>2. t[i] = s[i] /\ (i # 1 => t[i - 1] = s[i - 1] /\ q[i - 1] = p[i - 1])
        BY <4>1
      <4>3. s[i] = IF i = 1 THEN 0 ELSE s[i - 1] + w[<<p[i - 1], p[i]>>]
        BY <1>1, <4>1 DEF Adds
      <4>4. QED
        BY <4>1, <4>2, <4>3
    <3>3. QED
      BY <3>1, <3>2
  <2> HIDE DEF t
  <2>2. DOMAIN t = 1..(k + 1)
    BY DEF t
  <2>3. QED
    BY <2>1, <2>2 DEF Adds
<1>5. Search!Along(q, w) = t[k + 1]
  <2> HIDE DEF t
  <2>1. QED
    BY <1>3, <1>4, AlongIs
<1>6. t[k + 1] = Search!Along(p, w) + last
  BY <1>1
<1>7. QED
  BY <1>5, <1>6 DEF last

LEMMA SearchAssumed == Search!Assumptions
BY PartsAssumption

\* The module StreetSearch counts as this one does.
LEMMA SearchCounts ==
    /\ \A S : Search!IsFiniteSet(S) <=> IsFiniteSet(S)
    /\ \A S : Search!Cardinality(S) = Cardinality(S)
<1>1. \A S : Search!IsFiniteSet(S) <=> IsFiniteSet(S)
  BY DEF Search!IsFiniteSet, IsFiniteSet
<1>2. \A S : Search!Cardinality(S) = Cardinality(S)
  BY DEF Search!Cardinality, Cardinality, Search!IsFiniteSet, IsFiniteSet
<1>3. QED
  BY <1>1, <1>2

LEMMA NodesAreFinite ==
    IsFiniteSet(Node) /\ Cardinality(Node) \in Nat /\ Search!Cardinality(Node) = Cardinality(Node)
BY SearchAssumed, SearchCounts, FS_CardinalityType DEF Search!Assumptions

LEMMA PathsAre ==
    ASSUME NEW p \in Search!Paths
    PROVE  /\ Len(p) \in Nat \ {0} /\ p \in [1..Len(p) -> Node]
           /\ p[1] = Source /\ \A i, j \in 1..Len(p) : p[i] = p[j] => i = j
<1>1. Cardinality(Node) \in Nat
  BY NodesAreFinite
<1>2. PICK k \in 1..Cardinality(Node) : p \in [1..k -> Node]
  BY NodesAreFinite DEF Search!Paths
<1>3. Len(p) = k /\ k \in Nat \ {0}
  BY <1>1, <1>2
<1>4. QED
  BY <1>1, <1>2, <1>3 DEF Search!Paths

LEMMA PathFacts ==
    ASSUME NEW g, NEW p \in Search!PathsOf(g)
    PROVE  /\ Len(p) \in Nat \ {0} /\ p \in [1..Len(p) -> Node]
           /\ p[1] = Source /\ \A i, j \in 1..Len(p) : p[i] = p[j] => i = j
           /\ \A i \in 2..Len(p) : <<p[i - 1], p[i]>> \in DOMAIN g
BY PathsAre DEF Search!PathsOf

\* The path that only starts.
LEMMA FirstPath ==
    ASSUME NEW g
    PROVE  <<Source>> \in Search!PathsOf(g)
<1>1. Cardinality(Node) \in Nat \ {0}
  BY SearchAssumed, NodesAreFinite, FS_EmptySet DEF Search!Assumptions
<1>2. <<Source>> \in [1..1 -> Node] /\ Len(<<Source>>) = 1
  BY SearchAssumed DEF Search!Assumptions
<1>3. 1 \in 1..Cardinality(Node)
  BY <1>1
<1>4. <<Source>> \in UNION {[1..k -> Node] : k \in 1..Cardinality(Node)}
  BY <1>2, <1>3
<1>5. QED
  BY <1>2, <1>4, NodesAreFinite DEF Search!PathsOf, Search!Paths

\* A path goes on to a node it has not passed.
LEMMA LongerPath ==
    ASSUME NEW g, NEW p \in Search!PathsOf(g), NEW m \in Node, <<p[Len(p)], m>> \in DOMAIN g,
           \A i \in 1..Len(p) : p[i] # m
    PROVE  \E q \in Search!PathsOf(g) :
               Len(q) = Len(p) + 1 /\ q[Len(q)] = m /\ \A i \in 1..Len(p) : q[i] = p[i]
<1> DEFINE k == Len(p)
           q == [i \in 1..(k + 1) |-> IF i = k + 1 THEN m ELSE p[i]]
<1>1. /\ k \in Nat \ {0} /\ p \in [1..k -> Node] /\ p[1] = Source
      /\ \A i, j \in 1..k : p[i] = p[j] => i = j
      /\ \A i \in 2..k : <<p[i - 1], p[i]>> \in DOMAIN g
  BY PathFacts
<1>2. q \in [1..(k + 1) -> Node] /\ Len(q) = k + 1 /\ q[k + 1] = m /\ \A i \in 1..k : q[i] = p[i]
  BY <1>1
<1> HIDE DEF q
<1>3. \A i, j \in 1..(k + 1) : q[i] = q[j] => i = j
  <2>1. \A i \in 1..(k + 1) : i = k + 1 \/ i \in 1..k
    BY <1>1
  <2>2. QED
    BY <1>1, <1>2, <2>1
<1>4. k + 1 \in 1..Cardinality(Node)
  <2>1. IsFiniteSet(Node) /\ Cardinality(Node) \in Nat
    BY NodesAreFinite
  <2>2. q \in Injection(1..(k + 1), Node)
    BY <1>2, <1>3 DEF Injection, IsInjective
  <2>3. Cardinality(1..(k + 1)) = k + 1
    BY <1>1, FS_Interval
  <2>4. Cardinality(1..(k + 1)) <= Cardinality(Node)
    BY <2>1, <2>2, FS_Injection
  <2>5. QED
    BY <1>1, <2>1, <2>3, <2>4
<1>5. q \in Search!Paths
  BY <1>1, <1>2, <1>3, <1>4, NodesAreFinite DEF Search!Paths
<1>6. \A i \in 2..(k + 1) : <<q[i - 1], q[i]>> \in DOMAIN g
  <2>1. ASSUME NEW i \in 2..(k + 1) PROVE <<q[i - 1], q[i]>> \in DOMAIN g
    <3>1. CASE i = k + 1
      BY <1>1, <1>2, <3>1
    <3>2. CASE i # k + 1
      <4>1. i \in 2..k /\ i \in 1..k /\ i - 1 \in 1..k
        BY <1>1, <3>2
      <4>2. QED
        BY <1>1, <1>2, <4>1
    <3>3. QED
      BY <3>1, <3>2
  <2>2. QED
    BY <2>1
<1>7. q \in Search!PathsOf(g)
  BY <1>2, <1>5, <1>6 DEF Search!PathsOf
<1>8. QED
  BY <1>2, <1>7

LEMMA WeightFacts ==
    ASSUME Search!TypeOK
    PROVE  /\ \A n, m : <<n, m>> \in DOMAIN graph =>
                  /\ n \in Node /\ m \in Node
                  /\ Search!Ranks[<<n, m>>] = Search!RankOf(n, m) /\ Search!RankOf(n, m) \in Nat
                  /\ graph[<<n, m>>] \in Nat /\ Length[<<n, m>>] \in Nat
           /\ search # "flat" => Search!Ranks = graph
<1>1. graph \in Graph /\ DOMAIN graph \subseteq Search!Edge /\ graph \in [DOMAIN graph -> Nat]
  BY SearchAssumed DEF Search!TypeOK, Search!Assumptions
<1>2. ASSUME NEW n \in Node, NEW m \in Node PROVE Penalty * Search!Climb(n, m) \in Nat
  <2>1. Penalty \in Nat /\ Height[n] \in Nat \cup {Unknown} /\ Height[m] \in Nat \cup {Unknown}
    BY SearchAssumed DEF Search!Assumptions
  <2>2. Search!Climb(n, m) \in Nat
    BY <2>1 DEF Search!Climb
  <2> HIDE DEF Search!Climb
  <2>3. QED
    BY <2>1, <2>2
<1>3. ASSUME NEW n, NEW m, <<n, m>> \in DOMAIN graph
      PROVE  /\ n \in Node /\ m \in Node
             /\ Search!Ranks[<<n, m>>] = Search!RankOf(n, m) /\ Search!RankOf(n, m) \in Nat
             /\ graph[<<n, m>>] \in Nat /\ Length[<<n, m>>] \in Nat
  <2>1. <<n, m>> \in Search!Edge /\ n \in Node /\ m \in Node
    BY <1>1, <1>3 DEF Search!Edge
  <2>2. graph[<<n, m>>] \in Nat /\ Length[<<n, m>>] \in Nat
    BY <1>1, <1>3, <2>1, SearchAssumed DEF Search!Assumptions
  <2>3. Search!RankOf(n, m) \in Nat
    <3>1. CASE search = "flat"
      <4>1. Search!RankOf(n, m) = graph[<<n, m>>] + Penalty * Search!Climb(n, m)
        BY <3>1 DEF Search!RankOf, Search!Cost
      <4>2. Penalty * Search!Climb(n, m) \in Nat
        BY <1>2, <2>1
      <4>3. QED
        BY <2>2, <4>1, <4>2
    <3>2. CASE search # "flat"
      BY <2>2, <3>2 DEF Search!RankOf, Search!Cost
    <3>3. QED
      BY <3>1, <3>2
  <2>4. Search!Ranks[<<n, m>>] = Search!RankOf(n, m)
    BY <1>3 DEF Search!Ranks, Search!Costs, Search!RankOf
  <2>5. QED
    BY <2>1, <2>2, <2>3, <2>4
<1>4. search # "flat" => Search!Ranks = graph
  <2>1. SUFFICES ASSUME search # "flat" PROVE Search!Ranks = graph
    OBVIOUS
  <2>2. \A e \in DOMAIN graph : Search!Cost(graph, search, e[1], e[2]) = graph[e]
    <3>1. ASSUME NEW e \in DOMAIN graph PROVE Search!Cost(graph, search, e[1], e[2]) = graph[e]
      <4>1. e \in Node \X Node /\ e = <<e[1], e[2]>> /\ graph[e] \in Nat
        BY <1>1 DEF Search!Edge
      <4>2. QED
        BY <2>1, <4>1 DEF Search!Cost
    <3>2. QED
      BY <3>1
  <2>3. graph = [e \in DOMAIN graph |-> graph[e]]
    BY <1>1
  <2>4. QED
    BY <2>2, <2>3 DEF Search!Ranks, Search!Costs
<1>5. QED
  BY <1>3, <1>4

LEMMA PathsWeigh ==
    ASSUME Search!TypeOK, NEW p \in Search!PathsOf(graph)
    PROVE  /\ Weighs(p, Search!Ranks, Len(p)) /\ Weighs(p, graph, Len(p)) /\ Weighs(p, Length, Len(p))
           /\ Search!Along(p, Search!Ranks) \in Nat /\ Search!Along(p, graph) \in Nat /\ Search!Along(p, Length) \in Nat
<1>1. \A i \in 2..Len(p) : <<p[i - 1], p[i]>> \in DOMAIN graph
  BY PathFacts
<1>2. Weighs(p, Search!Ranks, Len(p)) /\ Weighs(p, graph, Len(p)) /\ Weighs(p, Length, Len(p))
  BY <1>1, WeightFacts DEF Weighs
<1>3. Len(p) \in Nat \ {0}
  BY PathFacts
<1>4. QED
  BY <1>2, <1>3, AlongFacts

\* No path costs as much as Infinity.
LEMMA BelowInfinity ==
    ASSUME Search!TypeOK, NEW p \in Search!PathsOf(graph)
    PROVE  Search!Along(p, Search!Ranks) < Infinity
<1>1. graph \in Graph /\ search \in {"reach", "path", "flat", "costs"}
  BY DEF Search!TypeOK
<1>2. \A s \in {"path", "flat"} : Search!Along(p, Search!Costs(graph, s)) < Infinity
  BY <1>1, SearchAssumed DEF Search!Assumptions
<1>3. search # "flat" => Search!Ranks = Search!Costs(graph, "path")
  BY <1>1 DEF Search!Ranks, Search!Costs, Search!Cost
<1>4. QED
  BY <1>2, <1>3 DEF Search!Ranks

\* What lies before every entry is expanded, and labelled with the least rank.
LEMMA BeforeTheHeap ==
    ASSUME Search!TypeOK, Search!LabelsAreReal, Search!NoneIsForgotten,
           NEW b \in Nat, \A e \in heap : b <= e[1],
           NEW p \in Search!PathsOf(graph), Search!Along(p, Search!Ranks) < b,
           search = "reach" => Search!Along(p, Search!Ranks) <= bound
    PROVE  rank[p[Len(p)]] <= Search!Along(p, Search!Ranks) /\ Search!Expanded(p[Len(p)])
<1> DEFINE k == Len(p)
<1>1. /\ k \in Nat \ {0} /\ p \in [1..k -> Node] /\ p[1] = Source
      /\ \A i \in 2..k : <<p[i - 1], p[i]>> \in DOMAIN graph
  BY PathFacts
<1>2. PICK s \in [1..k -> Nat] :
        Adds(s, p, Search!Ranks) /\ s[k] = Search!Along(p, Search!Ranks)
        /\ \A i \in 1..k : s[i] <= Search!Along(p, Search!Ranks)
  BY <1>1, PathsWeigh, AlongFacts
<1>3. rank \in [Node -> Nat] /\ bound \in Nat /\ heap \subseteq Nat \X Node /\ Infinity \in Nat
  BY SearchAssumed DEF Search!TypeOK, Search!Assumptions
<1>4. Search!Along(p, Search!Ranks) < Infinity /\ Search!Along(p, Search!Ranks) \in Nat
  BY BelowInfinity, PathsWeigh
\* A node whose label is within the path's sum is expanded: its entry would be
\* before all others.
<1>5. ASSUME NEW i \in 1..k, rank[p[i]] <= s[i] PROVE Search!Expanded(p[i])
  <2>1. p[i] \in Node /\ rank[p[i]] \in Nat /\ s[i] \in Nat /\ s[i] <= Search!Along(p, Search!Ranks)
    BY <1>1, <1>2, <1>3
  <2>2. rank[p[i]] < b /\ rank[p[i]] < Infinity
    BY <1>3, <1>4, <1>5, <2>1
  <2>3. <<rank[p[i]], p[i]>> \notin heap
    BY <2>1, <2>2
  <2>4. QED
    BY <2>1, <2>2, <2>3 DEF Search!NoneIsForgotten
<1> DEFINE late(i) == ~(rank[p[i]] <= s[i])
           bad == {i \in 1..k : late(i)}
<1>6. bad = {}
  <2>1. SUFFICES ASSUME bad # {} PROVE FALSE
    OBVIOUS
  <2>2. PICK i \in 1..k : late(i) /\ \A m \in 1..k : late(m) => i <= m
    <3> HIDE DEF late
    <3>1. bad \in SUBSET Nat /\ (\A m \in bad : m \in 1..k /\ late(m)) /\ \A m \in 1..k : late(m) => m \in bad
      BY <1>1
    <3> HIDE DEF bad
    <3>2. PICK i \in bad : \A m \in bad : i <= m
      BY <2>1, <3>1, LeastNumber
    <3>3. QED
      BY <3>1, <3>2
  <2>3. i # 1
    <3>1. 1 \in DOMAIN s
      BY <1>1
    <3>2. s[1] = 0
      BY <1>2, <3>1 DEF Adds
    <3>3. QED
      BY <1>1, <2>2, <3>2 DEF Search!LabelsAreReal
  <2>4. i \in 2..k /\ i - 1 \in 1..k /\ ~late(i - 1)
    BY <1>1, <2>2, <2>3
  <2> DEFINE n == p[i - 1]
             m == p[i]
  <2>5. n \in Node /\ m \in Node /\ <<n, m>> \in DOMAIN graph /\ rank[n] \in Nat /\ rank[m] \in Nat
    BY <1>1, <1>3, <2>4
  <2>6. Search!Expanded(n) /\ rank[n] <= s[i - 1]
    BY <1>5, <2>4
  <2>7. s[i] = s[i - 1] + Search!RankOf(n, m) /\ Search!RankOf(n, m) \in Nat
    <3>1. s[i] = s[i - 1] + Search!Ranks[<<n, m>>]
      BY <1>2, <2>3, <2>4 DEF Adds
    <3>2. QED
      BY <2>5, <3>1, WeightFacts
  <2>8. s[i] \in Nat /\ s[i - 1] \in Nat /\ s[i] <= Search!Along(p, Search!Ranks)
    BY <1>2, <2>4
  <2>9. m \in Search!Neighbours(n)
    BY <2>5 DEF Search!Neighbours
  <2>10. rank[m] <= rank[n] + Search!RankOf(n, m) \/ (search = "reach" /\ rank[n] + Search!RankOf(n, m) > bound)
    BY <2>6, <2>9 DEF Search!Expanded
  <2>11. ~late(i)
    <3> HIDE DEF n
    <3>1. rank[n] + Search!RankOf(n, m) <= s[i]
      BY <2>5, <2>6, <2>7, <2>8
    <3>2. search = "reach" => ~(rank[n] + Search!RankOf(n, m) > bound)
      BY <1>3, <1>4, <2>5, <2>7, <2>8, <3>1
    <3>3. rank[m] <= rank[n] + Search!RankOf(n, m)
      BY <2>10, <3>2
    <3>4. QED
      BY <2>5, <2>7, <2>8, <3>1, <3>3
  <2>12. QED
    BY <2>2, <2>11
<1>7. ~late(k)
  BY <1>1, <1>6
<1>8. QED
  BY <1>1, <1>2, <1>5, <1>7

LEMMA PendingIsExact == answer = Search!Pending => Search!SearchesAreExact
BY DEF Search!Pending, Search!SearchesAreExact, Search!RoutesAreShortest, Search!ReachIsExact, Search!CostsAreExact

LEMMA SearchInit == Search!Init => Search!IInv
<1> SUFFICES ASSUME Search!Init PROVE Search!IInv
  OBVIOUS
<1>1. /\ Source \in Node /\ None \notin Node /\ Infinity \in Nat /\ Bound \subseteq Nat
      /\ Target \subseteq SUBSET Node /\ graph \in Graph
  BY SearchAssumed DEF Search!Init, Search!Assumptions
<1>2. Search!TypeOK
  <2>1. bound \in Nat /\ (search = "flat" => bound = Infinity)
    BY <1>1 DEF Search!Init
  <2>2. targets \subseteq Node /\ (search \in {"path", "flat"} => \E n \in Node : targets = {n})
    BY <1>1 DEF Search!Init
  <2>3. rank \in [Node -> Nat] /\ time = rank /\ dist = rank /\ prev \in [Node -> Node \cup {None}]
    BY <1>1 DEF Search!Init
  <2>4. heap \subseteq Nat \X Node /\ settled = {} /\ answer.kind = "pending"
    BY <1>1 DEF Search!Init, Search!Pending
  <2>5. search \in {"reach", "path", "flat", "costs"}
    BY DEF Search!Init
  <2>6. QED
    BY <1>1, <2>1, <2>2, <2>3, <2>4, <2>5 DEF Search!TypeOK
<1>3. /\ <<Source>> \in Search!PathsOf(graph) /\ Len(<<Source>>) = 1 /\ <<Source>>[1] = Source
      /\ Search!Along(<<Source>>, Search!Ranks) = 0 /\ Search!Along(<<Source>>, graph) = 0
      /\ Search!Along(<<Source>>, Length) = 0
  BY FirstPath, AlongOne
<1>4. 0 < Infinity
  BY <1>2, <1>3, BelowInfinity
<1>5. rank[Source] = 0 /\ time[Source] = 0 /\ dist[Source] = 0 /\ \A n \in Node : rank[n] < Infinity => n = Source
  BY <1>1 DEF Search!Init
<1>6. Search!LabelsAreReal
  <2>1. <<Source>> \in Search!PathsTo(Source) /\ Search!Labelled(<<Source>>)
    BY <1>3, <1>5 DEF Search!PathsTo, Search!Labelled
  <2>2. rank[Source] <= bound
    BY <1>2, <1>5 DEF Search!TypeOK
  <2>3. QED
    BY <1>5, <2>1, <2>2 DEF Search!LabelsAreReal
<1>7. Search!HeapFits
  <2>1. heap = {<<0, Source>>} /\ bound \in Nat
    BY <1>2 DEF Search!Init, Search!TypeOK
  <2>2. QED
    BY <1>4, <1>5, <2>1 DEF Search!HeapFits
<1>8. Search!NoneIsForgotten
  BY <1>5 DEF Search!Init, Search!NoneIsForgotten
<1>9. Search!SettledIsFinal /\ Search!SearchesAreExact
  BY PendingIsExact DEF Search!Init, Search!SettledIsFinal
<1>10. QED
  BY <1>2, <1>6, <1>7, <1>8, <1>9 DEF Search!IInv

\* The least entry, when it is not from before, has its node's label.
LEMMA TopIsCurrent ==
    ASSUME Search!IInv, NEW e \in heap, Search!Least(e), e[1] <= rank[e[2]]
    PROVE  /\ e = <<rank[e[2]], e[2]>> /\ e[2] \in Node /\ rank[e[2]] \in Nat /\ rank[e[2]] < Infinity
           /\ \A f \in heap : rank[e[2]] <= f[1]
<1>1. e \in Nat \X Node /\ rank \in [Node -> Nat] /\ rank[e[2]] <= e[1] /\ e[1] < Infinity
  BY DEF Search!IInv, Search!TypeOK, Search!HeapFits
<1>2. e[1] \in Nat /\ e[2] \in Node /\ e = <<e[1], e[2]>>
  BY <1>1
<1>3. e[1] = rank[e[2]]
  BY <1>1, <1>2
<1>4. QED
  BY <1>1, <1>2, <1>3 DEF Search!Least

\* The label of the least entry's node is the cost of a cheapest path to it.
LEMMA TopIsShortest ==
    ASSUME Search!IInv, NEW e \in heap, Search!Least(e), e[1] <= rank[e[2]]
    PROVE  /\ \E p \in Search!PathsTo(e[2]) : Search!Labelled(p)
           /\ \A p \in Search!PathsTo(e[2]) : rank[e[2]] <= Search!Along(p, Search!Ranks)
<1> DEFINE n == e[2]
<1>1. n \in Node /\ rank[n] \in Nat /\ rank[n] < Infinity /\ \A f \in heap : rank[n] <= f[1]
  BY TopIsCurrent
<1>2. \E p \in Search!PathsTo(n) : Search!Labelled(p)
  BY <1>1 DEF Search!IInv, Search!LabelsAreReal
<1>3. ASSUME NEW p \in Search!PathsTo(n) PROVE rank[n] <= Search!Along(p, Search!Ranks)
  <2>1. p \in Search!PathsOf(graph) /\ p[Len(p)] = n /\ Search!Along(p, Search!Ranks) \in Nat
    BY PathsWeigh DEF Search!PathsTo, Search!IInv
  <2>2. SUFFICES ASSUME Search!Along(p, Search!Ranks) < rank[n] PROVE FALSE
    BY <1>1, <2>1
  <2>3. search = "reach" => Search!Along(p, Search!Ranks) <= bound
    <3>1. search = "reach" => e[1] <= bound /\ e[1] = rank[n]
      BY TopIsCurrent DEF Search!IInv, Search!HeapFits
    <3>2. bound \in Nat
      BY DEF Search!IInv, Search!TypeOK
    <3>3. QED
      BY <1>1, <2>1, <2>2, <3>1, <3>2
  <2>4. rank[n] <= Search!Along(p, Search!Ranks)
    <3> HIDE DEF n
    <3>1. rank[p[Len(p)]] <= Search!Along(p, Search!Ranks)
      BY <1>1, <2>1, <2>2, <2>3, BeforeTheHeap DEF Search!IInv
    <3>2. QED
      BY <2>1, <3>1
  <2>5. QED
    BY <1>1, <2>1, <2>2, <2>4
<1>4. QED
  BY <1>2, <1>3

-----------------------------------------------------------------------------
(* Steps.                                                                  *)

\* What was answered stays true.
LEMMA ExactStays ==
    ASSUME Search!SearchesAreExact, UNCHANGED <<graph, search, bound, targets, answer>>
    PROVE  Search!SearchesAreExact'
<1>1. Search!Ranks' = Search!Ranks /\ \A n : Search!PathsTo(n)' = Search!PathsTo(n)
  BY DEF Search!Ranks, Search!PathsTo
<1>2. \A n : Search!Shortest(n)' = Search!Shortest(n)
  BY <1>1 DEF Search!Shortest
<1>3. Search!RoutesAreShortest'
  BY <1>1 DEF Search!SearchesAreExact, Search!RoutesAreShortest
<1>4. Search!ReachIsExact'
  BY <1>1, <1>2 DEF Search!SearchesAreExact, Search!ReachIsExact
<1>5. Search!CostsAreExact'
  BY <1>1, <1>2 DEF Search!SearchesAreExact, Search!CostsAreExact
<1>6. QED
  BY <1>3, <1>4, <1>5 DEF Search!SearchesAreExact

LEMMA SkipKeeps ==
    ASSUME Search!IInv, NEW e \in heap, Search!Skip(e)
    PROVE  Search!IInv'
<1>1. heap' = heap \ {e} /\ UNCHANGED <<graph, search, bound, targets, rank, time, dist, prev, settled, answer>>
  BY DEF Search!Skip, Search!input, Search!labels
<1>2. e[1] > rank[e[2]]
  BY DEF Search!Skip, Search!IInv, Search!TypeOK, Search!HeapFits
<1>3. Search!TypeOK' /\ Search!HeapFits' /\ Search!SettledIsFinal' /\ Search!SearchesAreExact'
  <2>1. Search!TypeOK'
    BY <1>1 DEF Search!IInv, Search!TypeOK
  <2>2. Search!HeapFits'
    BY <1>1 DEF Search!IInv, Search!HeapFits
  <2>3. Search!Ranks' = Search!Ranks /\ \A n : Search!PathsTo(n)' = Search!PathsTo(n)
    BY <1>1 DEF Search!Ranks, Search!PathsTo
  <2>4. Search!SettledIsFinal'
    BY <1>1, <2>3 DEF Search!IInv, Search!SettledIsFinal
  <2>5. Search!SearchesAreExact'
    BY <1>1, ExactStays DEF Search!IInv
  <2>6. QED
    BY <2>1, <2>2, <2>4, <2>5
<1>4. Search!LabelsAreReal'
  <2>1. \A p : Search!Labelled(p) => Search!Labelled(p)'
    BY <1>1 DEF Search!Labelled, Search!Ranks
  <2>2. QED
    BY <1>1, <2>1 DEF Search!IInv, Search!LabelsAreReal, Search!PathsTo
<1>5. Search!NoneIsForgotten'
  <2>1. \A n \in Node : <<rank[n], n>> # e
    BY <1>2 DEF Search!IInv, Search!TypeOK
  <2>2. \A n : Search!Expanded(n)' = Search!Expanded(n)
    BY <1>1 DEF Search!Expanded, Search!Neighbours, Search!RankOf
  <2>3. QED
    BY <1>1, <2>1, <2>2 DEF Search!IInv, Search!NoneIsForgotten
<1>6. QED
  BY <1>3, <1>4, <1>5 DEF Search!IInv

\* A step that answers changes nothing else.
LEMMA FoundKeeps ==
    ASSUME Search!IInv, UNCHANGED <<Search!input, Search!labels, heap, settled>>,
           answer'.kind \in {"pending", "none", "route", "reached", "costs"}, Search!SearchesAreExact'
    PROVE  Search!IInv'
<1>1. UNCHANGED <<graph, search, bound, targets, rank, time, dist, prev, heap, settled>>
  BY DEF Search!input, Search!labels
<1>2. Search!TypeOK' /\ Search!HeapFits' /\ Search!SettledIsFinal'
  BY <1>1 DEF Search!IInv, Search!TypeOK, Search!HeapFits, Search!SettledIsFinal, Search!PathsTo, Search!Ranks
<1>3. Search!LabelsAreReal' /\ Search!NoneIsForgotten'
  BY <1>1 DEF Search!IInv, Search!LabelsAreReal, Search!NoneIsForgotten, Search!PathsTo, Search!Labelled,
     Search!Ranks, Search!Expanded, Search!Neighbours, Search!RankOf
<1>4. QED
  BY <1>2, <1>3 DEF Search!IInv

\* The one target of path and flat.
LEMMA TheTarget ==
    ASSUME Search!TypeOK, search \in {"path", "flat"}
    PROVE  \E t \in Node : targets = {t} /\ t = CHOOSE u \in targets : TRUE
<1>1. PICK t \in Node : targets = {t}
  BY DEF Search!TypeOK
<1>2. t = CHOOSE u \in targets : TRUE
  BY <1>1
<1>3. QED
  BY <1>1, <1>2

LEMMA GiveUpKeeps ==
    ASSUME Search!IInv, NEW e \in heap, Search!GiveUp(e)
    PROVE  Search!IInv'
<1> USE DEF Search!IInv
<1>1. /\ search = "path" /\ Search!Least(e) /\ e[1] <= rank[e[2]] /\ e[1] > bound
      /\ answer' = Search!NoRoute /\ UNCHANGED <<Search!input, Search!labels, heap, settled>>
  BY DEF Search!GiveUp
<1>2. UNCHANGED <<graph, search, bound, targets>>
  BY <1>1 DEF Search!input
<1>3. PICK t \in Node : targets = {t} /\ t = CHOOSE u \in targets : TRUE
  BY <1>1, TheTarget
<1>4. e[1] \in Nat /\ bound \in Nat /\ (\A f \in heap : e[1] <= f[1]) /\ Search!Ranks = graph
  BY <1>1, WeightFacts DEF Search!Least, Search!TypeOK
<1>5. ASSUME NEW p \in Search!PathsTo(t) PROVE Search!Along(p, graph) > bound
  <2>1. p \in Search!PathsOf(graph) /\ p[Len(p)] = t /\ Search!Along(p, graph) \in Nat
    BY PathsWeigh DEF Search!PathsTo
  <2>2. SUFFICES ASSUME Search!Along(p, graph) <= bound PROVE FALSE
    BY <1>4, <2>1
  <2>3. Search!Along(p, Search!Ranks) < e[1]
    BY <1>1, <1>4, <2>1, <2>2
  <2>4. Search!Expanded(t)
    BY <1>1, <1>4, <2>1, <2>3, BeforeTheHeap
  <2>5. QED
    BY <1>1, <1>3, <2>4 DEF Search!Expanded
<1>6. Search!SearchesAreExact'
  <2>1. \A p \in Search!PathsTo(t)' : Search!Along(p, graph') > bound'
    BY <1>2, <1>5 DEF Search!PathsTo
  <2>2. (CHOOSE u \in targets : TRUE)' = t
    BY <1>2, <1>3
  <2>3. answer'.kind = "none"
    BY <1>1 DEF Search!NoRoute
  <2>4. QED
    BY <2>1, <2>2, <2>3 DEF Search!SearchesAreExact, Search!RoutesAreShortest, Search!ReachIsExact, Search!CostsAreExact
<1>7. answer'.kind = "none"
  BY <1>1 DEF Search!NoRoute
<1>8. QED
  BY <1>1, <1>6, <1>7, FoundKeeps

\* prev leads back from a node along one path.
LEMMA BackTogether ==
    ASSUME NEW p \in Search!Paths, NEW q \in Search!Paths, p[Len(p)] = q[Len(q)], Len(p) <= Len(q),
           \A i \in 2..Len(p) : p[i - 1] = prev[p[i]], \A i \in 2..Len(q) : q[i - 1] = prev[q[i]]
    PROVE  p = q
<1>1. PICK k \in Nat \ {0}, l \in Nat \ {0} :
        /\ k = Len(p) /\ p \in [1..k -> Node] /\ p[1] = Source
        /\ l = Len(q) /\ q \in [1..l -> Node] /\ q[1] = Source
        /\ k <= l /\ p[k] = q[l] /\ \A i, j \in 1..l : q[i] = q[j] => i = j
  BY PathsAre
<1> DEFINE apart(j) == p[k - j] # q[l - j]
           bad == {j \in 0..(k - 1) : apart(j)}
<1>2. bad = {}
  <2>1. SUFFICES ASSUME bad # {} PROVE FALSE
    OBVIOUS
  <2>2. PICK j \in 0..(k - 1) : apart(j) /\ \A m \in 0..(k - 1) : apart(m) => j <= m
    <3> HIDE DEF apart
    <3>1. bad \in SUBSET Nat /\ (\A m \in bad : m \in 0..(k - 1) /\ apart(m))
          /\ \A m \in 0..(k - 1) : apart(m) => m \in bad
      BY <1>1
    <3> HIDE DEF bad
    <3>2. PICK j \in bad : \A m \in bad : j <= m
      BY <2>1, <3>1, LeastNumber
    <3>3. QED
      BY <3>1, <3>2
  <2>3. j # 0
    <3>1. k - 0 = k /\ l - 0 = l
      BY <1>1
    <3>2. ~apart(0)
      BY <1>1, <3>1
    <3>3. QED
      BY <2>2, <3>2
  <2>4. /\ j - 1 \in 0..(k - 1) /\ ~(j <= j - 1)
        /\ k - (j - 1) \in 2..k /\ k - (j - 1) - 1 = k - j
        /\ l - (j - 1) \in 2..l /\ l - (j - 1) - 1 = l - j
    BY <1>1, <2>3
  <2>5. ~apart(j - 1)
    BY <2>2, <2>4
  <2>6. p[k - j] = prev[p[k - (j - 1)]] /\ q[l - j] = prev[q[l - (j - 1)]]
    BY <1>1, <2>4
  <2>7. QED
    BY <2>2, <2>5, <2>6
<1>3. k = l
  <2>1. k - 1 \in 0..(k - 1) /\ k - (k - 1) = 1 /\ l - (k - 1) \in 1..l /\ 1 \in 1..l
    BY <1>1
  <2>2. ~apart(k - 1)
    BY <1>2, <2>1
  <2>3. q[l - (k - 1)] = q[1]
    BY <1>1, <2>1, <2>2
  <2>4. l - (k - 1) = 1
    BY <1>1, <2>1, <2>3
  <2>5. QED
    BY <2>4
<1>4. \A i \in 1..k : p[i] = q[i]
  <2>1. ASSUME NEW i \in 1..k PROVE p[i] = q[i]
    <3>1. k - i \in 0..(k - 1) /\ k - (k - i) = i /\ l - (k - i) = i
      BY <1>1, <1>3
    <3>2. ~apart(k - i)
      BY <1>2, <3>1
    <3>3. QED
      BY <3>1, <3>2
  <2>2. QED
    BY <2>1
<1>5. QED
  BY <1>1, <1>3, <1>4

LEMMA BackIsOne ==
    ASSUME NEW p \in Search!Paths, NEW q \in Search!Paths, p[Len(p)] = q[Len(q)],
           \A i \in 2..Len(p) : p[i - 1] = prev[p[i]], \A i \in 2..Len(q) : q[i - 1] = prev[q[i]]
    PROVE  p = q
<1>1. Len(p) \in Nat /\ Len(q) \in Nat
  BY PathsAre
<1>2. CASE Len(p) <= Len(q)
  BY <1>2, BackTogether
<1>3. CASE Len(q) <= Len(p)
  BY <1>3, BackTogether
<1>4. QED
  BY <1>1, <1>2, <1>3

LEMMA ArriveKeeps ==
    ASSUME Search!IInv, NEW e \in heap, Search!Arrive(e)
    PROVE  Search!IInv'
<1> USE DEF Search!IInv
<1>1. /\ search \in {"path", "flat"} /\ Search!Least(e) /\ e[2] \in targets /\ e[1] <= rank[e[2]]
      /\ answer' = [kind |-> "route", time |-> time[e[2]], dist |-> dist[e[2]], path |-> Search!Chain(e[2])]
      /\ UNCHANGED <<Search!input, Search!labels, heap, settled>>
  BY DEF Search!Arrive
<1>2. UNCHANGED <<graph, search, bound, targets>>
  BY <1>1 DEF Search!input
<1>3. PICK t \in Node : targets = {t} /\ t = CHOOSE u \in targets : TRUE
  BY <1>1, TheTarget
<1>4. e[2] = t
  BY <1>1, <1>3
<1>5. (\E p \in Search!PathsTo(t) : Search!Labelled(p))
      /\ \A p \in Search!PathsTo(t) : rank[t] <= Search!Along(p, Search!Ranks)
  BY <1>1, <1>4, TopIsShortest
<1> DEFINE c == Search!Chain(t)
           back(p) == p[Len(p)] = t /\ \A i \in 2..Len(p) : p[i - 1] = prev[p[i]]
\* prev leads back along one path only, the one that was labelled.
<1>6. PICK q \in Search!PathsTo(t) : Search!Labelled(q)
  BY <1>5
<1>7. q \in Search!Paths /\ back(q)
  BY <1>6 DEF Search!PathsTo, Search!PathsOf, Search!Labelled
<1>8. c \in Search!Paths /\ back(c)
  <2>1. c = CHOOSE p \in Search!Paths : back(p)
    BY DEF Search!Chain
  <2> HIDE DEF c, back
  <2>2. QED
    BY <1>7, <2>1
<1>9. c = q
  <2> HIDE DEF c
  <2>1. q[Len(q)] = t /\ c[Len(c)] = t
    BY <1>7, <1>8
  <2>2. QED
    BY <1>7, <1>8, <2>1, BackIsOne
<1> HIDE DEF c, back
<1>10. c \in Search!PathsTo(t) /\ Search!Labelled(c) /\ c[Len(c)] = t
  BY <1>6, <1>7, <1>9 DEF back
<1>11. answer'.kind = "route" /\ answer'.time = time[t] /\ answer'.dist = dist[t] /\ answer'.path = c
  BY <1>1, <1>4 DEF c
<1>12. Search!SearchesAreExact'
  <2>1. Search!Ranks' = Search!Ranks /\ Search!PathsTo(t)' = Search!PathsTo(t)
    BY <1>2 DEF Search!Ranks, Search!PathsTo
  <2>2. (CHOOSE u \in targets : TRUE)' = t
    BY <1>2, <1>3
  <2>3. rank[t] = Search!Along(c, Search!Ranks) /\ time[t] = Search!Along(c, graph) /\ dist[t] = Search!Along(c, Length)
    BY <1>10 DEF Search!Labelled
  <2>4. Search!RoutesAreShortest'
    BY <1>2, <1>5, <1>10, <1>11, <2>1, <2>2, <2>3 DEF Search!RoutesAreShortest
  <2>5. QED
    BY <1>11, <2>4 DEF Search!SearchesAreExact, Search!ReachIsExact, Search!CostsAreExact
<1>13. QED
  BY <1>1, <1>11, <1>12, FoundKeeps

\* An edge that improves a node's rank.
Better(n, m) ==
    /\ m \in Search!Neighbours(n)
    /\ rank[n] + Search!RankOf(n, m) < rank[m]
    /\ search = "reach" => rank[n] + Search!RankOf(n, m) <= bound

LEMMA ExpandKeeps ==
    ASSUME Search!IInv, NEW e \in heap, Search!Expand(e)
    PROVE  Search!IInv'
<1>1. Search!TypeOK /\ Search!HeapFits /\ Search!LabelsAreReal /\ Search!NoneIsForgotten /\ Search!SettledIsFinal
  BY DEF Search!IInv
<1>2. /\ answer = Search!Pending /\ Search!Least(e) /\ e[1] <= rank[e[2]] /\ Search!Relax(e[2], e[1])
      /\ search \in {"path", "flat"} => e[2] \notin targets
      /\ settled' = IF search = "costs" /\ e[2] \in targets
                    THEN settled \cup {<<e[2], e[1], dist[e[2]]>>} ELSE settled
      /\ UNCHANGED <<graph, search, bound, targets, answer>>
  BY DEF Search!Expand, Search!Running, Search!input
<1>3. PICK n \in Node, r \in Nat :
        e[2] = n /\ e[1] = r /\ e = <<r, n>> /\ r = rank[n] /\ r < Infinity /\ \A f \in heap : r <= f[1]
  BY <1>2, TopIsCurrent
<1>4. /\ rank \in [Node -> Nat] /\ time \in [Node -> Nat] /\ dist \in [Node -> Nat]
      /\ prev \in [Node -> Node \cup {None}] /\ heap \subseteq Nat \X Node
      /\ bound \in Nat /\ Infinity \in Nat
  BY <1>1, SearchAssumed DEF Search!TypeOK, Search!Assumptions
\* What improves is not the node itself, nor one that is before the heap.
<1>5. ASSUME NEW m, Better(n, m)
      PROVE  /\ m \in Node /\ <<n, m>> \in DOMAIN graph /\ Search!RankOf(n, m) \in Nat
             /\ graph[<<n, m>>] \in Nat /\ Length[<<n, m>>] \in Nat
             /\ r + Search!RankOf(n, m) \in Nat /\ r < rank[m] /\ r <= r + Search!RankOf(n, m)
             /\ r + Search!RankOf(n, m) < rank[m]
  <2>1. m \in Node /\ <<n, m>> \in DOMAIN graph
    BY <1>5 DEF Better, Search!Neighbours
  <2>2. Search!RankOf(n, m) \in Nat /\ graph[<<n, m>>] \in Nat /\ Length[<<n, m>>] \in Nat
    BY <1>1, <2>1, WeightFacts
  <2>3. r + Search!RankOf(n, m) < rank[m] /\ rank[m] \in Nat
    BY <1>3, <1>4, <1>5, <2>1 DEF Better
  <2>4. QED
    BY <2>1, <2>2, <2>3
<1>6. ASSUME NEW m \in Node, Better(n, m)
      PROVE  /\ rank'[m] = r + Search!RankOf(n, m) /\ time'[m] = time[n] + graph[<<n, m>>]
             /\ dist'[m] = dist[n] + Length[<<n, m>>] /\ prev'[m] = n
  BY <1>2, <1>3, <1>6 DEF Search!Relax, Better
<1>7. ASSUME NEW m \in Node, ~Better(n, m)
      PROVE  rank'[m] = rank[m] /\ time'[m] = time[m] /\ dist'[m] = dist[m] /\ prev'[m] = prev[m]
  BY <1>2, <1>3, <1>7 DEF Search!Relax, Better
<1>8. heap' = (heap \ {e}) \cup {<<r + Search!RankOf(n, m), m>> : m \in {x \in Search!Neighbours(n) : Better(n, x)}}
  BY <1>2, <1>3 DEF Search!Relax, Better
<1>9. /\ \A f \in heap' : f \in heap \/ \E m \in Node : Better(n, m) /\ f = <<r + Search!RankOf(n, m), m>>
      /\ \A m : Better(n, m) => <<r + Search!RankOf(n, m), m>> \in heap'
      /\ \A f \in heap : f # e => f \in heap'
  BY <1>8 DEF Better, Search!Neighbours
<1>10. \A m \in Node : rank'[m] <= rank[m] /\ rank'[m] \in Nat
  <2>1. ASSUME NEW m \in Node PROVE rank'[m] <= rank[m] /\ rank'[m] \in Nat
    <3>1. rank[m] \in Nat
      BY <1>4
    <3>2. CASE Better(n, m)
      <4>1. Search!RankOf(n, m) \in Nat /\ r + Search!RankOf(n, m) < rank[m]
        BY <1>5, <3>2
      <4>2. rank'[m] = r + Search!RankOf(n, m)
        BY <1>6, <3>2
      <4>3. QED
        BY <3>1, <4>1, <4>2
    <3>3. CASE ~Better(n, m)
      BY <1>7, <3>1, <3>3
    <3>4. QED
      BY <3>2, <3>3
  <2>2. QED
    BY <2>1
<1>11. Search!TypeOK'
  <2>1. rank' \in [Node -> Nat] /\ time' \in [Node -> Nat] /\ dist' \in [Node -> Nat]
        /\ prev' \in [Node -> Node \cup {None}]
    <3>1. ASSUME NEW m \in Node PROVE time'[m] \in Nat /\ dist'[m] \in Nat /\ prev'[m] \in Node \cup {None}
      <4>1. time[n] \in Nat /\ dist[n] \in Nat /\ time[m] \in Nat /\ dist[m] \in Nat
        BY <1>3, <1>4
      <4>2. CASE Better(n, m)
        <5>1. graph[<<n, m>>] \in Nat /\ Length[<<n, m>>] \in Nat
          BY <1>5, <4>2
        <5>2. time'[m] = time[n] + graph[<<n, m>>] /\ dist'[m] = dist[n] + Length[<<n, m>>] /\ prev'[m] = n
          BY <1>6, <4>2
        <5>3. QED
          BY <4>1, <5>1, <5>2
      <4>3. CASE ~Better(n, m)
        BY <1>4, <1>7, <4>1, <4>3
      <4>4. QED
        BY <4>2, <4>3
    <3>2. rank' = [m \in Node |-> rank'[m]] /\ time' = [m \in Node |-> time'[m]]
          /\ dist' = [m \in Node |-> dist'[m]] /\ prev' = [m \in Node |-> prev'[m]]
      BY <1>2 DEF Search!Relax
    <3>3. QED
      BY <1>10, <3>1, <3>2
  <2>2. heap' \subseteq Nat \X Node
    <3>1. ASSUME NEW f \in heap' PROVE f \in Nat \X Node
      <4>1. ASSUME NEW m \in Node, Better(n, m), f = <<r + Search!RankOf(n, m), m>> PROVE f \in Nat \X Node
        BY <1>5, <4>1
      <4>2. QED
        BY <1>4, <1>9, <4>1
    <3>2. QED
      BY <3>1
  <2>3. settled' \subseteq targets' \X Nat \X Nat
    <3>1. dist[n] \in Nat /\ settled \subseteq targets \X Nat \X Nat
      BY <1>1, <1>3, <1>4 DEF Search!TypeOK
    <3>2. QED
      BY <1>2, <1>3, <3>1
  <2>4. QED
    BY <1>1, <1>2, <2>1, <2>2, <2>3 DEF Search!TypeOK
<1>12. Search!Ranks' = Search!Ranks
       /\ \A m : Search!PathsTo(m)' = Search!PathsTo(m) /\ Search!Neighbours(m)' = Search!Neighbours(m)
       /\ \A k : Search!RankOf(m, k)' = Search!RankOf(m, k)
  BY <1>2 DEF Search!Ranks, Search!PathsTo, Search!Neighbours, Search!RankOf
\* The paths that were labelled are before the heap, so they stay as they are.
<1>13. ASSUME NEW p \in Search!PathsOf(graph), Search!Labelled(p), NEW i \in 1..Len(p),
              i < Len(p) \/ p[i] = n \/ ~Better(n, p[i])
       PROVE  ~Better(n, p[i])
  <2>1. SUFFICES ASSUME i < Len(p) \/ p[i] = n PROVE ~Better(n, p[i])
    BY <1>13
  <2>2. Len(p) \in Nat /\ p[i] \in Node
    BY PathFacts
  <2>3. rank[p[i]] <= r
    <3>1. CASE p[i] = n
      BY <1>3, <3>1
    <3>2. CASE i < Len(p)
      <4>1. i \in 1..(Len(p) - 1)
        BY <2>2, <3>2
      <4>2. QED
        BY <1>3, <1>13, <4>1 DEF Search!Labelled
    <3>3. QED
      BY <2>1, <3>1, <3>2
  <2>4. Better(n, p[i]) => r < rank[p[i]]
    BY <1>5
  <2>5. rank[p[i]] \in Nat
    BY <1>4, <2>2
  <2>6. QED
    BY <2>3, <2>4, <2>5
<1>14. ASSUME NEW p \in Search!PathsOf(graph), Search!Labelled(p), ~Better(n, p[Len(p)])
       PROVE  Search!Labelled(p)'
  <2>1. Len(p) \in Nat \ {0} /\ p \in [1..Len(p) -> Node]
    BY PathFacts
  <2>2. ASSUME NEW i \in 1..Len(p)
        PROVE  /\ p[i] \in Node /\ ~Better(n, p[i])
               /\ rank'[p[i]] = rank[p[i]] /\ time'[p[i]] = time[p[i]] /\ dist'[p[i]] = dist[p[i]]
               /\ prev'[p[i]] = prev[p[i]]
    <3>1. i < Len(p) \/ i = Len(p)
      <4>1. Len(p) \in Nat
        BY <2>1
      <4>2. QED
        BY <4>1
    <3>2. p[i] \in Node /\ ~Better(n, p[i])
      BY <1>13, <1>14, <2>1, <3>1
    <3>3. QED
      BY <1>7, <3>2
  <2>3. ASSUME NEW i \in 1..(Len(p) - 1), NEW f \in heap' PROVE rank'[p[i]] <= f[1]
    <3>1. i \in 1..Len(p)
      BY <2>1
    <3>2. \A g \in heap : rank[p[i]] <= g[1]
      BY <1>14, <2>3 DEF Search!Labelled
    <3>3. rank'[p[i]] = rank[p[i]] /\ rank[p[i]] \in Nat
      BY <1>4, <2>1, <2>2, <3>1
    <3>4. ASSUME NEW m \in Node, Better(n, m), f = <<r + Search!RankOf(n, m), m>> PROVE rank[p[i]] <= f[1]
      <4>1. rank[p[i]] <= r
        BY <1>3, <3>2
      <4>2. Search!RankOf(n, m) \in Nat /\ f[1] = r + Search!RankOf(n, m)
        BY <1>5, <3>4
      <4>3. QED
        BY <3>3, <4>1, <4>2
    <3>5. QED
      BY <1>9, <3>2, <3>3, <3>4
  <2>4. Len(p) \in 1..Len(p) /\ 2..Len(p) \subseteq 1..Len(p) /\ 1..(Len(p) - 1) \subseteq 1..Len(p)
    BY <2>1
  <2>5. \A i \in 2..Len(p) : p[i - 1] = prev'[p[i]]
    BY <1>14, <2>2, <2>4 DEF Search!Labelled
  <2>6. /\ rank'[p[Len(p)]] = Search!Along(p, Search!Ranks') /\ time'[p[Len(p)]] = Search!Along(p, graph')
        /\ dist'[p[Len(p)]] = Search!Along(p, Length)
    BY <1>2, <1>12, <1>14, <2>2, <2>4 DEF Search!Labelled
  <2>7. \A i \in 1..(Len(p) - 1) : rank'[p[i]] <= rank'[p[Len(p)]]
    BY <1>14, <2>2, <2>4 DEF Search!Labelled
  <2>8. QED
    BY <2>3, <2>5, <2>6, <2>7 DEF Search!Labelled
\* A node that improves is at the end of the path to n.
<1>15. ASSUME NEW x \in Node, Better(n, x)
       PROVE  /\ r + Search!RankOf(n, x) < Infinity
              /\ \E q \in Search!PathsTo(x) : Search!Labelled(q)'
  <2>1. PICK p \in Search!PathsTo(n) : Search!Labelled(p)
    BY <1>1, <1>3 DEF Search!LabelsAreReal
  <2>2. /\ p \in Search!PathsOf(graph) /\ p[Len(p)] = n
        /\ Len(p) \in Nat \ {0} /\ p \in [1..Len(p) -> Node]
    BY PathFacts DEF Search!PathsTo
  <2>3. ASSUME NEW i \in 1..Len(p) PROVE ~Better(n, p[i]) /\ rank[p[i]] <= r
    <3>1. i < Len(p) \/ p[i] = n
      BY <2>2
    <3>2. i \in 1..(Len(p) - 1) \/ p[i] = n
      BY <2>2, <3>1
    <3>3. QED
      BY <1>3, <1>13, <2>1, <2>2, <3>1, <3>2 DEF Search!Labelled
  <2>4. <<n, x>> \in DOMAIN graph /\ \A i \in 1..Len(p) : p[i] # x
    BY <1>5, <1>15, <2>3
  <2>5. PICK q \in Search!PathsOf(graph) : Len(q) = Len(p) + 1 /\ q[Len(q)] = x /\ \A i \in 1..Len(p) : q[i] = p[i]
    BY <2>2, <2>4, LongerPath
  <2>6. /\ Search!Ranks[<<n, x>>] = Search!RankOf(n, x) /\ Search!RankOf(n, x) \in Nat
        /\ graph[<<n, x>>] \in Nat /\ Length[<<n, x>>] \in Nat
    BY <1>1, <2>4, WeightFacts
  <2>7. /\ Search!Along(q, Search!Ranks) = Search!Along(p, Search!Ranks) + Search!RankOf(n, x)
        /\ Search!Along(q, graph) = Search!Along(p, graph) + graph[<<n, x>>]
        /\ Search!Along(q, Length) = Search!Along(p, Length) + Length[<<n, x>>]
    BY <1>1, <2>2, <2>5, <2>6, PathsWeigh, AlongAppend
  <2>8. r = Search!Along(p, Search!Ranks) /\ time[n] = Search!Along(p, graph) /\ dist[n] = Search!Along(p, Length)
    BY <1>3, <2>1, <2>2 DEF Search!Labelled
  <2>9. r + Search!RankOf(n, x) < Infinity
    BY <1>1, <2>5, <2>7, <2>8, BelowInfinity
  <2>10. /\ rank'[x] = Search!Along(q, Search!Ranks') /\ time'[x] = Search!Along(q, graph')
         /\ dist'[x] = Search!Along(q, Length)
         /\ prev'[x] = n
    BY <1>2, <1>6, <1>12, <1>15, <2>7, <2>8
  <2>11. ASSUME NEW i \in 2..Len(q) PROVE q[i - 1] = prev'[q[i]]
    <3>1. CASE i = Len(q)
      BY <2>2, <2>5, <2>10, <3>1
    <3>2. CASE i # Len(q)
      <4>1. i \in 2..Len(p) /\ i \in 1..Len(p) /\ i - 1 \in 1..Len(p)
        BY <2>2, <2>5, <3>2
      <4>2. p[i - 1] = prev[p[i]]
        BY <2>1, <4>1 DEF Search!Labelled
      <4>3. prev'[p[i]] = prev[p[i]]
        BY <1>7, <2>2, <2>3, <4>1
      <4>4. QED
        BY <2>5, <4>1, <4>2, <4>3
    <3>3. QED
      BY <3>1, <3>2
  <2>12. ASSUME NEW i \in 1..(Len(q) - 1)
         PROVE  rank'[q[i]] <= rank'[x] /\ \A f \in heap' : rank'[q[i]] <= f[1]
    <3>1. i \in 1..Len(p) /\ q[i] = p[i] /\ p[i] \in Node
      BY <2>2, <2>5
    <3>2. rank'[q[i]] = rank[p[i]] /\ rank[p[i]] \in Nat /\ rank[p[i]] <= r
      <4>1. ~Better(n, p[i]) /\ rank[p[i]] <= r
        BY <2>3, <3>1
      <4>2. rank'[p[i]] = rank[p[i]]
        BY <1>7, <3>1, <4>1
      <4>3. QED
        BY <1>4, <3>1, <4>1, <4>2
    <3>3. rank'[x] = r + Search!RankOf(n, x)
      BY <1>6, <1>15
    <3>4. ASSUME NEW f \in heap' PROVE r <= f[1] /\ f[1] \in Nat
      <4>1. f \in Nat \X Node
        BY <1>11 DEF Search!TypeOK
      <4>2. ASSUME NEW m \in Node, Better(n, m), f = <<r + Search!RankOf(n, m), m>> PROVE r <= f[1]
        BY <1>5, <4>2
      <4>3. QED
        BY <1>3, <1>9, <4>1, <4>2
    <3>5. rank'[q[i]] <= rank'[x]
      BY <2>6, <3>2, <3>3
    <3>6. ASSUME NEW f \in heap' PROVE rank'[q[i]] <= f[1]
      BY <3>2, <3>4
    <3>7. QED
      BY <3>5, <3>6
  <2>13. Search!Labelled(q)'
    BY <2>5, <2>10, <2>11, <2>12 DEF Search!Labelled
  <2>14. QED
    BY <2>5, <2>9, <2>13 DEF Search!PathsTo
<1>16. Search!LabelsAreReal'
  <2>1. rank'[Source] = 0
    <3>1. Source \in Node /\ rank[Source] = 0
      BY <1>1, SearchAssumed DEF Search!LabelsAreReal, Search!Assumptions
    <3>2. rank'[Source] <= 0 /\ rank'[Source] \in Nat
      BY <1>10, <3>1
    <3>3. QED
      BY <3>2
  <2>2. ASSUME NEW x \in Node, rank'[x] < Infinity
        PROVE  (search = "reach" => rank'[x] <= bound) /\ \E p \in Search!PathsTo(x)' : Search!Labelled(p)'
    <3>1. CASE Better(n, x)
      <4>1. search = "reach" => rank'[x] <= bound
        BY <1>3, <1>6, <3>1 DEF Better
      <4>2. QED
        BY <1>12, <1>15, <3>1, <4>1
    <3>2. CASE ~Better(n, x)
      <4>1. rank[x] < Infinity
        BY <1>7, <2>2, <3>2
      <4>2. PICK p \in Search!PathsTo(x) : Search!Labelled(p)
        BY <1>1, <4>1 DEF Search!LabelsAreReal
      <4>3. search = "reach" => rank'[x] <= bound
        BY <1>1, <1>7, <3>2, <4>1 DEF Search!LabelsAreReal
      <4>4. p \in Search!PathsOf(graph) /\ p[Len(p)] = x
        BY DEF Search!PathsTo
      <4>5. Search!Labelled(p)'
        BY <1>14, <3>2, <4>2, <4>4
      <4>6. QED
        BY <1>12, <4>3, <4>5
    <3>3. QED
      BY <3>1, <3>2
  <2>3. QED
    BY <1>2, <2>1, <2>2 DEF Search!LabelsAreReal
<1>17. Search!HeapFits'
  <2>1. ASSUME NEW f \in heap'
        PROVE  rank'[f[2]] <= f[1] /\ f[1] < Infinity /\ (search = "reach" => f[1] <= bound)
    <3>1. CASE f \in heap
      <4>1. rank[f[2]] <= f[1] /\ f[1] < Infinity /\ (search = "reach" => f[1] <= bound)
        BY <1>1, <3>1 DEF Search!HeapFits
      <4>2. f[1] \in Nat /\ f[2] \in Node
        BY <1>4, <3>1
      <4>3. rank'[f[2]] <= rank[f[2]] /\ rank'[f[2]] \in Nat /\ rank[f[2]] \in Nat
        BY <1>4, <1>10, <4>2
      <4>4. QED
        BY <4>1, <4>2, <4>3
    <3>2. ASSUME NEW m \in Node, Better(n, m), f = <<r + Search!RankOf(n, m), m>>
          PROVE  rank'[f[2]] <= f[1] /\ f[1] < Infinity /\ (search = "reach" => f[1] <= bound)
      <4>1. f[1] = r + Search!RankOf(n, m) /\ f[2] = m /\ Search!RankOf(n, m) \in Nat
            /\ rank'[m] = r + Search!RankOf(n, m)
        BY <1>5, <1>6, <3>2
      <4>2. r + Search!RankOf(n, m) < Infinity
        BY <1>15, <3>2
      <4>3. search = "reach" => r + Search!RankOf(n, m) <= bound
        BY <1>3, <3>2 DEF Better
      <4>4. QED
        BY <4>1, <4>2, <4>3
    <3>3. QED
      BY <1>9, <3>1, <3>2
  <2>2. QED
    BY <1>2, <2>1 DEF Search!HeapFits
<1>18. Search!NoneIsForgotten'
  <2>1. settled \subseteq settled'
    BY <1>2
  <2>2. ASSUME NEW x \in Node, rank'[x] < Infinity, ~Better(n, x), x # n
        PROVE  <<rank'[x], x>> \in heap' \/ Search!Expanded(x)'
    <3>1. rank'[x] = rank[x] /\ rank[x] < Infinity
      BY <1>7, <2>2
    <3>2. CASE <<rank[x], x>> \in heap
      <4>1. <<rank[x], x>> # e
        BY <1>3, <2>2
      <4>2. QED
        BY <1>9, <3>1, <3>2, <4>1
    <3>3. CASE Search!Expanded(x)
      <4>1. ASSUME NEW m \in Search!Neighbours(x)
            PROVE  \/ rank'[m] <= rank'[x] + Search!RankOf(x, m)
                   \/ search = "reach" /\ rank'[x] + Search!RankOf(x, m) > bound
        <5>1. m \in Node /\ Search!RankOf(x, m) \in Nat
          BY <1>1, WeightFacts DEF Search!Neighbours
        <5>2. rank'[m] <= rank[m] /\ rank'[m] \in Nat /\ rank[m] \in Nat /\ rank[x] \in Nat
          BY <1>4, <1>10, <5>1
        <5>3. rank[m] <= rank[x] + Search!RankOf(x, m) \/ (search = "reach" /\ rank[x] + Search!RankOf(x, m) > bound)
          BY <3>3 DEF Search!Expanded
        <5>4. QED
          BY <3>1, <5>1, <5>2, <5>3
      <4>2. QED
        BY <1>2, <1>12, <2>1, <3>3, <4>1 DEF Search!Expanded
    <3>4. QED
      BY <1>1, <3>1, <3>2, <3>3 DEF Search!NoneIsForgotten
  <2>3. Search!Expanded(n)'
    <3>1. ~Better(n, n)
      <4>1. Better(n, n) => r < rank[n]
        BY <1>5
      <4>2. QED
        BY <1>3, <4>1
    <3>2. rank'[n] = r
      BY <1>3, <1>7, <3>1
    <3>3. ASSUME NEW m \in Search!Neighbours(n)
          PROVE  rank'[m] <= r + Search!RankOf(n, m) \/ (search = "reach" /\ r + Search!RankOf(n, m) > bound)
      <4>1. m \in Node /\ Search!RankOf(n, m) \in Nat
        BY <1>1, WeightFacts DEF Search!Neighbours
      <4>2. rank'[m] \in Nat /\ rank[m] \in Nat /\ rank'[m] <= rank[m]
        BY <1>4, <1>10, <4>1
      <4>3. CASE Better(n, m)
        <5>1. rank'[m] = r + Search!RankOf(n, m)
          BY <1>6, <4>1, <4>3
        <5>2. QED
          BY <4>1, <4>2, <5>1
      <4>4. CASE ~Better(n, m)
        <5>1. ~(r + Search!RankOf(n, m) < rank[m]) \/ ~(search = "reach" => r + Search!RankOf(n, m) <= bound)
          BY <1>3, <4>4 DEF Better
        <5>2. QED
          BY <1>4, <4>1, <4>2, <5>1
      <4>5. QED
        BY <4>3, <4>4
    <3>4. search = "costs" /\ n \in targets => \E s \in settled' : s[1] = n
      <4>1. search = "costs" /\ n \in targets => <<n, r, dist[n]>> \in settled'
        BY <1>2, <1>3
      <4>2. <<n, r, dist[n]>>[1] = n
        OBVIOUS
      <4>3. QED
        BY <4>1, <4>2
    <3>5. QED
      BY <1>2, <1>3, <1>12, <3>2, <3>3, <3>4 DEF Search!Expanded
  <2>4. ASSUME NEW x \in Node, Better(n, x) PROVE <<rank'[x], x>> \in heap'
    BY <1>6, <1>9, <2>4
  <2>5. QED
    BY <2>2, <2>3, <2>4 DEF Search!NoneIsForgotten
<1>19. Search!SettledIsFinal'
  <2>1. ASSUME NEW s \in settled'
        PROVE  /\ \E p \in Search!PathsTo(s[1]) : s[2] = Search!Along(p, Search!Ranks) /\ s[3] = Search!Along(p, Length)
               /\ \A p \in Search!PathsTo(s[1]) : s[2] <= Search!Along(p, Search!Ranks)
    <3>1. CASE s \in settled
      BY <1>1, <3>1 DEF Search!SettledIsFinal
    <3>2. CASE s = <<n, r, dist[n]>>
      <4>1. (\E p \in Search!PathsTo(n) : Search!Labelled(p))
            /\ \A p \in Search!PathsTo(n) : r <= Search!Along(p, Search!Ranks)
        BY <1>2, <1>3, TopIsShortest
      <4>2. PICK p \in Search!PathsTo(n) : Search!Labelled(p)
        BY <4>1
      <4>3. r = Search!Along(p, Search!Ranks) /\ dist[n] = Search!Along(p, Length)
        BY <1>3, <4>2 DEF Search!Labelled, Search!PathsTo
      <4>4. s[1] = n /\ s[2] = r /\ s[3] = dist[n]
        BY <3>2
      <4>5. QED
        BY <4>1, <4>3, <4>4
    <3>3. QED
      BY <1>2, <1>3, <3>1, <3>2
  <2>2. QED
    BY <1>12, <2>1 DEF Search!SettledIsFinal
<1>20. Search!SearchesAreExact'
  <2>1. answer' = Search!Pending
    BY <1>2
  <2>2. answer'.kind = "pending"
    BY <2>1 DEF Search!Pending
  <2>3. QED
    BY <2>2 DEF Search!SearchesAreExact, Search!RoutesAreShortest, Search!ReachIsExact, Search!CostsAreExact
<1>21. QED
  BY <1>11, <1>16, <1>17, <1>18, <1>19, <1>20 DEF Search!IInv

\* With no entry left every node that was reached is expanded.
LEMMA EmptyHeap ==
    ASSUME Search!IInv, heap = {}, NEW n \in Node
    PROVE  /\ rank[n] < Infinity => (\E p \in Search!PathsTo(n) : Search!Labelled(p)) /\ Search!Expanded(n)
           /\ \A p \in Search!PathsTo(n) : (search = "reach" => Search!Along(p, Search!Ranks) <= bound)
              => rank[n] <= Search!Along(p, Search!Ranks)
<1>1. Search!TypeOK /\ Search!LabelsAreReal /\ Search!NoneIsForgotten
  BY DEF Search!IInv
<1>2. rank[n] < Infinity => (\E p \in Search!PathsTo(n) : Search!Labelled(p)) /\ Search!Expanded(n)
  BY <1>1 DEF Search!LabelsAreReal, Search!NoneIsForgotten
<1>3. ASSUME NEW p \in Search!PathsTo(n), search = "reach" => Search!Along(p, Search!Ranks) <= bound
      PROVE  rank[n] <= Search!Along(p, Search!Ranks)
  <2>1. p \in Search!PathsOf(graph) /\ p[Len(p)] = n /\ Search!Along(p, Search!Ranks) \in Nat
    BY <1>1, PathsWeigh DEF Search!PathsTo
  <2>2. Search!Along(p, Search!Ranks) + 1 \in Nat /\ Search!Along(p, Search!Ranks) < Search!Along(p, Search!Ranks) + 1
    BY <2>1
  <2>3. rank[p[Len(p)]] <= Search!Along(p, Search!Ranks)
    BY <1>1, <1>3, <2>1, <2>2, BeforeTheHeap
  <2>4. QED
    BY <2>1, <2>3
<1>4. QED
  BY <1>2, <1>3

LEMMA FinishKeeps ==
    ASSUME Search!IInv, Search!Finish
    PROVE  Search!IInv'
<1>1. Search!TypeOK /\ Search!LabelsAreReal /\ Search!NoneIsForgotten /\ Search!SettledIsFinal
  BY DEF Search!IInv
<1>2. /\ heap = {} \/ (search = "costs" /\ targets \subseteq {s[1] : s \in settled})
      /\ UNCHANGED <<Search!input, Search!labels, heap, settled>>
      /\ UNCHANGED <<graph, search, bound, targets>>
  BY DEF Search!Finish, Search!input
<1>3. rank \in [Node -> Nat] /\ bound \in Nat /\ Infinity \in Nat /\ targets \subseteq Node
      /\ settled \subseteq targets \X Nat \X Nat
  BY <1>1, SearchAssumed DEF Search!TypeOK, Search!Assumptions
<1>4. Search!Ranks' = Search!Ranks
      /\ \A n : Search!PathsTo(n)' = Search!PathsTo(n) /\ Search!Shortest(n)' = Search!Shortest(n)
  BY <1>2 DEF Search!Ranks, Search!PathsTo, Search!Shortest
<1>5. search # "flat" => Search!Ranks = graph
  BY <1>1, WeightFacts
\* A least sum is what Shortest() takes.
<1>6. ASSUME NEW n \in Node, NEW c \in Nat, search # "flat",
             \E p \in Search!PathsTo(n) : c = Search!Along(p, Search!Ranks),
             \A p \in Search!PathsTo(n) : c <= Search!Along(p, Search!Ranks)
      PROVE  Search!Shortest(n) = c
  <2> DEFINE S == {Search!Along(p, graph) : p \in Search!PathsTo(n)}
  <2>1. c \in S /\ \A d \in S : c <= d
    BY <1>5, <1>6
  <2>2. S \subseteq Nat
    BY <1>1, PathsWeigh DEF Search!PathsTo
  <2>3. Search!Shortest(n) = CHOOSE x \in S : \A y \in S : x <= y
    BY DEF Search!Shortest, Search!Min
  <2> HIDE DEF S
  <2>4. Search!Shortest(n) \in S /\ \A y \in S : Search!Shortest(n) <= y
    BY <2>1, <2>3
  <2>5. Search!Shortest(n) <= c /\ c <= Search!Shortest(n)
    BY <2>1, <2>4
  <2>6. Search!Shortest(n) \in Nat
    BY <2>2, <2>4
  <2>7. QED
    BY <2>5, <2>6
<1>7. CASE search = "reach"
  <2>1. heap = {}
    BY <1>2, <1>7
  <2>2. answer'.kind = "reached"
        /\ answer'.nodes = {<<n, rank[n]>> : n \in {m \in Node : rank[m] < Infinity}}
    BY <1>7 DEF Search!Finish
  <2>3. ASSUME NEW n \in Node
        PROVE  /\ rank[n] < Infinity <=> \E p \in Search!PathsTo(n) : Search!Along(p, graph) <= bound
               /\ rank[n] < Infinity => rank[n] = Search!Shortest(n)
    <3>1. rank[n] \in Nat
      BY <1>3
    <3>2. \A p \in Search!PathsTo(n) : Search!Along(p, graph) <= bound => rank[n] <= Search!Along(p, Search!Ranks)
      BY <1>5, <1>7, <2>1, EmptyHeap
    <3>3. ASSUME rank[n] < Infinity
          PROVE  (\E p \in Search!PathsTo(n) : Search!Along(p, graph) <= bound) /\ rank[n] = Search!Shortest(n)
      <4>1. rank[n] <= bound
        BY <1>1, <1>7, <3>3 DEF Search!LabelsAreReal
      <4>2. PICK p \in Search!PathsTo(n) : Search!Labelled(p)
        BY <2>1, <3>3, EmptyHeap
      <4>3. rank[n] = Search!Along(p, Search!Ranks)
        BY <4>2 DEF Search!Labelled, Search!PathsTo
      <4>4. \A q \in Search!PathsTo(n) : rank[n] <= Search!Along(q, Search!Ranks)
        <5>1. ASSUME NEW q \in Search!PathsTo(n) PROVE rank[n] <= Search!Along(q, Search!Ranks)
          <6>1. Search!Along(q, Search!Ranks) \in Nat
            BY <1>1, PathsWeigh DEF Search!PathsTo
          <6>2. CASE Search!Along(q, Search!Ranks) <= bound
            BY <1>5, <1>7, <3>2, <6>2
          <6>3. CASE ~(Search!Along(q, Search!Ranks) <= bound)
            BY <1>3, <3>1, <4>1, <6>1, <6>3
          <6>4. QED
            BY <6>2, <6>3
        <5>2. QED
          BY <5>1
      <4>5. Search!Shortest(n) = rank[n]
        BY <1>6, <1>7, <3>1, <4>3, <4>4
      <4>6. QED
        BY <1>5, <1>7, <4>1, <4>3, <4>5
    <3>4. ASSUME NEW p \in Search!PathsTo(n), Search!Along(p, graph) <= bound PROVE rank[n] < Infinity
      <4>1. Search!Along(p, Search!Ranks) < Infinity /\ Search!Along(p, Search!Ranks) \in Nat
        BY <1>1, PathsWeigh, BelowInfinity DEF Search!PathsTo
      <4>2. rank[n] <= Search!Along(p, Search!Ranks)
        BY <3>2, <3>4
      <4>3. QED
        BY <1>3, <3>1, <4>1, <4>2
    <3>5. QED
      BY <3>3, <3>4
  <2>4. {<<n, rank[n]>> : n \in {m \in Node : rank[m] < Infinity}}
        = {<<n, Search!Shortest(n)>> :
               n \in {m \in Node : \E p \in Search!PathsTo(m) : Search!Along(p, graph) <= bound}}
    BY <2>3
  <2>5. Search!ReachIsExact'
    BY <1>2, <1>4, <2>2, <2>4 DEF Search!ReachIsExact
  <2>6. Search!SearchesAreExact'
    BY <2>2, <2>5 DEF Search!SearchesAreExact, Search!RoutesAreShortest, Search!CostsAreExact
  <2>7. QED
    BY <1>2, <2>2, <2>6, FoundKeeps
<1>8. CASE search = "costs"
  <2>1. answer'.kind = "costs" /\ answer'.nodes = settled
    BY <1>8 DEF Search!Finish
  <2>2. ASSUME NEW s \in settled
        PROVE  /\ s[1] \in targets /\ Search!PathsTo(s[1]) # {} /\ s[2] = Search!Shortest(s[1])
               /\ \E p \in Search!PathsTo(s[1]) : s[2] = Search!Along(p, graph) /\ s[3] = Search!Along(p, Length)
    <3>1. s[1] \in targets /\ s[1] \in Node /\ s[2] \in Nat
      BY <1>3
    <3>2. /\ \E p \in Search!PathsTo(s[1]) : s[2] = Search!Along(p, Search!Ranks) /\ s[3] = Search!Along(p, Length)
          /\ \A p \in Search!PathsTo(s[1]) : s[2] <= Search!Along(p, Search!Ranks)
      BY <1>1 DEF Search!SettledIsFinal
    <3>3. s[2] = Search!Shortest(s[1])
      BY <1>6, <1>8, <3>1, <3>2
    <3>4. QED
      BY <1>5, <1>8, <3>1, <3>2, <3>3
  <2>3. ASSUME NEW n \in targets, NEW p \in Search!PathsTo(n) PROVE n \in {s[1] : s \in settled}
    <3>1. CASE targets \subseteq {s[1] : s \in settled}
      BY <3>1
    <3>2. CASE heap = {}
      <4>1. n \in Node /\ rank[n] \in Nat
        BY <1>3
      <4>2. rank[n] <= Search!Along(p, Search!Ranks) /\ Search!Along(p, Search!Ranks) < Infinity
            /\ Search!Along(p, Search!Ranks) \in Nat
        BY <1>1, <1>8, <3>2, <4>1, EmptyHeap, PathsWeigh, BelowInfinity DEF Search!PathsTo
      <4>3. rank[n] < Infinity
        BY <1>3, <4>1, <4>2
      <4>4. Search!Expanded(n)
        BY <3>2, <4>1, <4>3, EmptyHeap
      <4>5. QED
        BY <1>8, <4>4 DEF Search!Expanded
    <3>3. QED
      BY <1>2, <3>1, <3>2
  <2>4. {s[1] : s \in settled} = {n \in targets : Search!PathsTo(n) # {}}
    BY <2>2, <2>3
  <2>5. Search!CostsAreExact'
    BY <1>2, <1>4, <2>1, <2>2, <2>4 DEF Search!CostsAreExact
  <2>6. Search!SearchesAreExact'
    BY <2>1, <2>5 DEF Search!SearchesAreExact, Search!RoutesAreShortest, Search!ReachIsExact
  <2>7. QED
    BY <1>2, <2>1, <2>6, FoundKeeps
<1>9. CASE search \in {"path", "flat"}
  <2>1. heap = {}
    BY <1>2, <1>9
  <2>2. answer'.kind = "none"
    BY <1>9 DEF Search!Finish, Search!NoRoute
  <2>3. PICK t \in Node : targets = {t} /\ t = CHOOSE u \in targets : TRUE
    BY <1>1, <1>9, TheTarget
  <2>4. ASSUME NEW p \in Search!PathsTo(t) PROVE FALSE
    <3>1. rank[t] <= Search!Along(p, Search!Ranks) /\ Search!Along(p, Search!Ranks) < Infinity
          /\ Search!Along(p, Search!Ranks) \in Nat
      BY <1>1, <1>9, <2>1, EmptyHeap, PathsWeigh, BelowInfinity DEF Search!PathsTo
    <3>2. rank[t] < Infinity
      BY <1>3, <3>1
    <3>3. Search!Expanded(t)
      BY <2>1, <3>2, EmptyHeap
    <3>4. QED
      BY <1>9, <2>3, <3>3 DEF Search!Expanded
  <2>5. (CHOOSE u \in targets : TRUE)' = t
    BY <1>2, <2>3
  <2>6. Search!SearchesAreExact'
    BY <1>4, <2>2, <2>4, <2>5 DEF Search!SearchesAreExact, Search!RoutesAreShortest, Search!ReachIsExact,
       Search!CostsAreExact
  <2>7. QED
    BY <1>2, <2>2, <2>6, FoundKeeps
<1>10. QED
  BY <1>1, <1>7, <1>8, <1>9 DEF Search!TypeOK

LEMMA SearchStep == ASSUME Search!IInv, Search!Next \/ UNCHANGED Search!vars PROVE Search!IInv'
<1>1. ASSUME NEW e \in heap, Search!Skip(e) \/ Search!GiveUp(e) \/ Search!Arrive(e) \/ Search!Expand(e)
      PROVE  Search!IInv'
  BY <1>1, SkipKeeps, GiveUpKeeps, ArriveKeeps, ExpandKeeps
<1>2. CASE Search!Finish
  BY <1>2, FinishKeeps
<1>3. CASE UNCHANGED Search!vars
  <2>1. UNCHANGED <<graph, search, bound, targets, rank, time, dist, prev, heap, settled, answer>>
    BY <1>3 DEF Search!vars
  <2>2. Search!SearchesAreExact' /\ answer'.kind \in {"pending", "none", "route", "reached", "costs"}
    BY <2>1, ExactStays DEF Search!IInv, Search!TypeOK
  <2>3. QED
    BY <2>1, <2>2, FoundKeeps DEF Search!input, Search!labels
<1>4. QED
  BY <1>1, <1>2, <1>3 DEF Search!Next

\* For any street graph, heights, limits and targets, and however equal entries
\* leave the heap: a route is a path with the least time (or time and climb) of
\* all, with its own duration and length, and none is missed within the limit;
\* an isochrone holds exactly the nodes within it; a row of the matrix the
\* targets that are reached, at their least times.
THEOREM Exact == MCSpec => []SearchIsExact
<1> DEFINE Inv == part = "search" => Search!IInv
<1>1. MCInit => Inv
  BY SearchInit DEF MCInit
<1>2. Inv /\ [MCNext]_MCVars => Inv'
  <2> SUFFICES ASSUME Search!IInv, [MCNext]_MCVars, part = "search" PROVE Search!IInv'
    BY DEF MCNext, MCVars
  <2>1. Search!Next \/ UNCHANGED Search!vars
    BY DEF MCNext, MCVars, searchVars, Search!vars
  <2>2. QED
    BY <2>1, SearchStep
<1>3. Inv => SearchIsExact
  BY DEF SearchIsExact, Search!IInv
<1> HIDE DEF Inv
<1>4. QED
  BY <1>1, <1>2, <1>3, PTL DEF MCSpec

(***************************************************************************)
(* StopOrder.  An order that goes on costs what it did and one leg more,   *)
(* and two that end alike keep their preference when they go on to the     *)
(* same stop: the best order of the stops visited is the best of the best  *)
(* before.                                                                 *)
(***************************************************************************)

(* The order of two tours of the same length.                              *)

LEMMA FirstDifference ==
    ASSUME NEW n \in Nat, NEW s \in [1..n -> Nat], NEW t \in [1..n -> Nat], s # t
    PROVE  \E i \in 1..n : s[i] # t[i] /\ \A j \in 1..(i - 1) : s[j] = t[j]
<1> DEFINE apart == {i \in 1..n : s[i] # t[i]}
<1>1. apart \in SUBSET Nat /\ apart # {}
  OBVIOUS
<1>2. PICK i \in apart : \A j \in apart : i <= j
  BY <1>1, LeastNumber
<1>3. i \in 1..n /\ s[i] # t[i]
  OBVIOUS
<1>4. ASSUME NEW j \in 1..(i - 1) PROVE s[j] = t[j]
  <2>1. j \in 1..n /\ ~(i <= j)
    BY <1>3
  <2>2. j \notin apart
    BY <1>2, <2>1
  <2>3. QED
    BY <2>1, <2>2
<1>5. QED
  BY <1>3, <1>4

LEMMA LexTotal ==
    ASSUME NEW n \in Nat, NEW s \in [1..n -> Nat], NEW t \in [1..n -> Nat], s # t
    PROVE  Tour!LexLess(s, t) \/ Tour!LexLess(t, s)
<1>1. PICK i \in 1..n : s[i] # t[i] /\ \A j \in 1..(i - 1) : s[j] = t[j]
  BY FirstDifference
<1>2. s[i] < t[i] \/ t[i] < s[i]
  BY <1>1
<1>3. QED
  BY <1>1, <1>2 DEF Tour!LexLess

LEMMA LexOneWay ==
    ASSUME NEW n \in Nat, NEW s \in [1..n -> Nat], NEW t \in [1..n -> Nat], Tour!LexLess(s, t)
    PROVE  ~Tour!LexLess(t, s)
<1>1. SUFFICES ASSUME Tour!LexLess(t, s) PROVE FALSE
  OBVIOUS
<1>2. PICK i \in 1..n : s[i] < t[i] /\ \A j \in 1..(i - 1) : s[j] = t[j]
  BY DEF Tour!LexLess
<1>3. PICK k \in 1..n : t[k] < s[k] /\ \A j \in 1..(k - 1) : t[j] = s[j]
  BY <1>1 DEF Tour!LexLess
<1>4. i \in Nat /\ k \in Nat /\ s[i] \in Nat /\ t[i] \in Nat /\ s[k] \in Nat /\ t[k] \in Nat
  OBVIOUS
<1>5. CASE i < k
  BY <1>2, <1>3, <1>4, <1>5
<1>6. CASE k < i
  BY <1>2, <1>3, <1>4, <1>6
<1>7. CASE i = k
  BY <1>2, <1>3, <1>4, <1>7
<1>8. QED
  BY <1>4, <1>5, <1>6, <1>7

LEMMA LexTransitive ==
    ASSUME NEW n \in Nat, NEW s \in [1..n -> Nat], NEW t \in [1..n -> Nat], NEW u \in [1..n -> Nat],
           Tour!LexLess(s, t), Tour!LexLess(t, u)
    PROVE  Tour!LexLess(s, u)
<1>1. PICK i \in 1..n : s[i] < t[i] /\ \A j \in 1..(i - 1) : s[j] = t[j]
  BY DEF Tour!LexLess
<1>2. PICK k \in 1..n : t[k] < u[k] /\ \A j \in 1..(k - 1) : t[j] = u[j]
  BY DEF Tour!LexLess
<1> DEFINE m == IF i <= k THEN i ELSE k
<1>3. m \in 1..n /\ s[m] \in Nat /\ t[m] \in Nat /\ u[m] \in Nat
  OBVIOUS
<1>4. s[m] < u[m]
  <2>1. CASE i < k
    <3>1. m = i /\ i \in 1..(k - 1)
      BY <2>1
    <3>2. QED
      BY <1>1, <1>2, <1>3, <3>1
  <2>2. CASE k < i
    <3>1. m = k /\ k \in 1..(i - 1)
      BY <2>2
    <3>2. QED
      BY <1>1, <1>2, <1>3, <3>1
  <2>3. CASE i = k
    BY <1>1, <1>2, <1>3, <2>3
  <2>4. QED
    BY <2>1, <2>2, <2>3
<1>5. \A j \in 1..(m - 1) : s[j] = u[j]
  <2>1. ASSUME NEW j \in 1..(m - 1) PROVE s[j] = u[j]
    <3>1. j \in 1..(i - 1) /\ j \in 1..(k - 1)
      BY <1>3
    <3>2. QED
      BY <1>1, <1>2, <3>1
  <2>2. QED
    BY <2>1
<1> HIDE DEF m
<1>6. QED
  BY <1>3, <1>4, <1>5 DEF Tour!LexLess

\* Both orders go on to the same stop.
LEMMA LexAppend ==
    ASSUME NEW n \in Nat, NEW s \in [1..n -> Nat], NEW t \in [1..n -> Nat], Tour!LexLess(s, t), NEW k
    PROVE  Tour!LexLess(Append(s, k), Append(t, k))
<1>1. PICK i \in 1..n : s[i] < t[i] /\ \A j \in 1..(i - 1) : s[j] = t[j]
  BY DEF Tour!LexLess
<1>2. /\ DOMAIN Append(s, k) = 1..(n + 1)
      /\ \A j \in 1..n : Append(s, k)[j] = s[j] /\ Append(t, k)[j] = t[j]
  OBVIOUS
<1>3. i \in 1..(n + 1) /\ \A j \in 1..(i - 1) : j \in 1..n
  OBVIOUS
<1>4. QED
  BY <1>1, <1>2, <1>3 DEF Tour!LexLess

-----------------------------------------------------------------------------
(* What better() chooses.                                                  *)

\* Orders of n stops with their cost.
Priced(n) == [cost : Nat, order : [1..n -> Nat]]

LEMMA PrefersOneWay ==
    ASSUME NEW n \in Nat, NEW a \in Priced(n), NEW b \in Priced(n), Tour!Prefers(a, b)
    PROVE  ~Tour!Prefers(b, a) /\ a # b
<1>1. /\ a.cost \in Nat /\ b.cost \in Nat
      /\ a.order \in [1..n -> Nat] /\ b.order \in [1..n -> Nat]
  BY DEF Priced
<1>2. Tour!LexLess(a.order, b.order) => ~Tour!LexLess(b.order, a.order)
  BY <1>1, LexOneWay
<1>3. QED
  BY <1>1, <1>2 DEF Tour!Prefers

LEMMA PrefersTransitive ==
    ASSUME NEW n \in Nat, NEW a \in Priced(n), NEW b \in Priced(n), NEW c \in Priced(n),
           Tour!Prefers(a, b), Tour!Prefers(b, c)
    PROVE  Tour!Prefers(a, c)
<1>1. /\ a.cost \in Nat /\ b.cost \in Nat /\ c.cost \in Nat
      /\ a.order \in [1..n -> Nat] /\ b.order \in [1..n -> Nat] /\ c.order \in [1..n -> Nat]
  BY DEF Priced
<1>2. Tour!LexLess(a.order, b.order) /\ Tour!LexLess(b.order, c.order) => Tour!LexLess(a.order, c.order)
  BY <1>1, LexTransitive
<1>3. QED
  BY <1>1, <1>2 DEF Tour!Prefers

LEMMA PrefersTotal ==
    ASSUME NEW n \in Nat, NEW a \in Priced(n), NEW b \in Priced(n)
    PROVE  a = b \/ Tour!Prefers(a, b) \/ Tour!Prefers(b, a)
<1>1. /\ a.cost \in Nat /\ b.cost \in Nat
      /\ a.order \in [1..n -> Nat] /\ b.order \in [1..n -> Nat]
      /\ a = [cost |-> a.cost, order |-> a.order] /\ b = [cost |-> b.cost, order |-> b.order]
  BY DEF Priced
<1>2. a.order # b.order => Tour!LexLess(a.order, b.order) \/ Tour!LexLess(b.order, a.order)
  BY <1>1, LexTotal
<1>3. a.cost = b.cost /\ a.order = b.order => a = b
  BY <1>1
<1>4. QED
  BY <1>1, <1>2, <1>3 DEF Tour!Prefers

\* Whichever is preferred to all others is the choice.
LEMMA ChoiceIs ==
    ASSUME NEW n \in Nat, NEW S \in SUBSET Priced(n), NEW a \in S, \A b \in S : b = a \/ Tour!Prefers(a, b)
    PROVE  Tour!Choice(S) = a
<1>1. Tour!Choice(S) \in S /\ \A b \in S : b = Tour!Choice(S) \/ Tour!Prefers(Tour!Choice(S), b)
  BY DEF Tour!Choice
<1>2. a = Tour!Choice(S) \/ (Tour!Prefers(Tour!Choice(S), a) /\ Tour!Prefers(a, Tour!Choice(S)))
  BY <1>1
<1>3. QED
  BY <1>1, <1>2, PrefersOneWay

\* Of any orders one is the smallest.
LEMMA LexLeast ==
    ASSUME NEW n \in Nat, NEW T \in SUBSET [1..n -> Nat], T # {}
    PROVE  \E t \in T : \A u \in T : u = t \/ Tour!LexLess(t, u)
<1> DEFINE upto(i, t) == \A u \in T : (\A j \in 1..i : u[j] = t[j]) \/ Tour!LexLess(t, u)
           stuck == {i \in 0..n : ~\E t \in T : upto(i, t)}
<1>1. stuck = {}
  <2>1. SUFFICES ASSUME stuck # {} PROVE FALSE
    OBVIOUS
  <2>2. PICK i \in 0..n : (~\E t \in T : upto(i, t)) /\ \A m \in 0..n : (~\E t \in T : upto(m, t)) => i <= m
    <3> HIDE DEF upto
    <3>1. stuck \in SUBSET Nat /\ \A m \in 0..n : m \in stuck <=> ~\E t \in T : upto(m, t)
      OBVIOUS
    <3>2. stuck \subseteq 0..n
      OBVIOUS
    <3> HIDE DEF stuck
    <3>3. PICK i \in stuck : \A m \in stuck : i <= m
      BY <2>1, <3>1, LeastNumber
    <3>4. QED
      BY <3>1, <3>2, <3>3
  <2>3. i # 0
    <3>1. PICK t \in T : TRUE
      OBVIOUS
    <3>2. upto(0, t)
      OBVIOUS
    <3>3. QED
      BY <2>2, <3>2
  <2>4. PICK t \in T : upto(i - 1, t)
    <3> HIDE DEF upto
    <3>1. i - 1 \in 0..n /\ ~(i <= i - 1)
      BY <2>3
    <3>2. QED
      BY <2>2, <3>1
  <2> DEFINE U == {u \in T : \A j \in 1..(i - 1) : u[j] = t[j]}
             N == {u[i] : u \in U}
  <2>5. i \in 1..n
    BY <2>3
  <2>6. N \in SUBSET Nat /\ N # {}
    BY <2>5
  <2>7. PICK m \in N : \A k \in N : m <= k
    <3> HIDE DEF N
    <3>1. QED
      BY <2>6, LeastNumber
  <2>8. PICK s \in U : s[i] = m
    OBVIOUS
  <2>9. s \in T /\ \A j \in 1..(i - 1) : s[j] = t[j]
    OBVIOUS
  <2>10. ASSUME NEW u \in T PROVE (\A j \in 1..i : u[j] = s[j]) \/ Tour!LexLess(s, u)
    <3>1. s \in [1..n -> Nat] /\ u \in [1..n -> Nat] /\ DOMAIN s = 1..n
      OBVIOUS
    <3>2. CASE u \in U
      <4>1. u[i] \in N /\ m <= u[i] /\ \A j \in 1..(i - 1) : u[j] = s[j]
        BY <2>7, <2>9, <3>2
      <4>2. CASE u[i] = m
        <5>1. \A j \in 1..i : j = i \/ j \in 1..(i - 1)
          BY <2>5
        <5>2. QED
          BY <2>8, <4>1, <4>2, <5>1
      <4>3. CASE u[i] # m
        <5>1. s[i] < u[i]
          BY <2>5, <2>8, <3>1, <4>1, <4>3
        <5>2. QED
          BY <2>5, <3>1, <4>1, <5>1 DEF Tour!LexLess
      <4>4. QED
        BY <4>2, <4>3
    <3>3. CASE u \notin U
      <4>1. Tour!LexLess(t, u)
        BY <2>4, <3>3
      <4>2. PICK x \in 1..n : t[x] < u[x] /\ \A j \in 1..(x - 1) : t[j] = u[j]
        BY <4>1 DEF Tour!LexLess
      <4>3. x <= i - 1
        <5>1. SUFFICES ASSUME ~(x <= i - 1) PROVE FALSE
          OBVIOUS
        <5>2. \A j \in 1..(i - 1) : j \in 1..(x - 1)
          BY <2>5, <5>1
        <5>3. QED
          BY <3>3, <4>2, <5>2
      <4>4. s[x] < u[x] /\ \A j \in 1..(x - 1) : s[j] = u[j]
        BY <2>5, <2>9, <4>2, <4>3
      <4>5. QED
        BY <3>1, <4>4 DEF Tour!LexLess
    <3>4. QED
      BY <3>2, <3>3
  <2>11. upto(i, s)
    BY <2>10
  <2>12. QED
    BY <2>2, <2>9, <2>11
<1>2. PICK t \in T : upto(n, t)
  <2> HIDE DEF upto
  <2>1. n \in 0..n
    OBVIOUS
  <2>2. QED
    BY <1>1, <2>1
<1>3. ASSUME NEW u \in T PROVE u = t \/ Tour!LexLess(t, u)
  <2>1. CASE \A j \in 1..n : u[j] = t[j]
    BY <2>1
  <2>2. QED
    BY <1>2, <2>1
<1>4. QED
  BY <1>3

\* There is a choice whenever there is anything to choose from.
LEMMA ChoiceExists ==
    ASSUME NEW n \in Nat, NEW S \in SUBSET Priced(n), S # {}
    PROVE  Tour!Choice(S) \in S /\ \A b \in S : b = Tour!Choice(S) \/ Tour!Prefers(Tour!Choice(S), b)
<1> DEFINE costs == {a.cost : a \in S}
<1>1. costs \in SUBSET Nat /\ costs # {}
  BY DEF Priced
<1>2. PICK c \in costs : \A d \in costs : c <= d
  <2> HIDE DEF costs
  <2>1. QED
    BY <1>1, LeastNumber
<1> DEFINE cheap == {a \in S : a.cost = c}
           orders == {a.order : a \in cheap}
<1>3. orders \in SUBSET [1..n -> Nat] /\ orders # {}
  BY <1>2 DEF Priced
<1>4. PICK o \in orders : \A p \in orders : p = o \/ Tour!LexLess(o, p)
  <2> HIDE DEF orders
  <2>1. QED
    BY <1>3, LexLeast
<1>5. PICK a \in S : a.cost = c /\ a.order = o
  OBVIOUS
<1>6. ASSUME NEW b \in S PROVE b = a \/ Tour!Prefers(a, b)
  <2>1. /\ b.cost \in Nat /\ b = [cost |-> b.cost, order |-> b.order]
        /\ a.cost \in Nat /\ a = [cost |-> a.cost, order |-> a.order]
    BY DEF Priced
  <2>2. c <= b.cost
    BY <1>2
  <2>3. b.cost = c => b.order \in orders
    OBVIOUS
  <2>4. CASE b.cost = c
    <3>1. b.order = o \/ Tour!LexLess(o, b.order)
      BY <1>4, <2>3, <2>4
    <3>2. QED
      BY <1>5, <2>1, <2>4, <3>1 DEF Tour!Prefers
  <2>5. CASE b.cost # c
    BY <1>5, <2>1, <2>2, <2>5 DEF Tour!Prefers
  <2>6. QED
    BY <2>4, <2>5
<1>7. Tour!Choice(S) = a
  BY <1>6, ChoiceIs
<1>8. QED
  BY <1>6, <1>7

-----------------------------------------------------------------------------
LEMMA TourAssumed == Tour!Assumptions
BY PartsAssumption

\* The module StopOrder counts and adds up as this one and StreetSearch do.
LEMMA TourCounts ==
    /\ \A S : Tour!IsFiniteSet(S) <=> IsFiniteSet(S)
    /\ \A S : Tour!Cardinality(S) = Cardinality(S)
<1>1. \A S : Tour!IsFiniteSet(S) <=> IsFiniteSet(S)
  BY DEF Tour!IsFiniteSet, IsFiniteSet
<1>2. \A S : Tour!Cardinality(S) = Cardinality(S)
  BY DEF Tour!Cardinality, Cardinality, Tour!IsFiniteSet, IsFiniteSet
<1>3. QED
  BY <1>1, <1>2

LEMMA SameSums == \A p, w : Tour!Along(p, w) = Search!Along(p, w)
BY DEF Tour!Along, Search!Along

\* The stops are counted, and a leg between two of them takes some time.
LEMMA StopFacts ==
    /\ StopCount \in Nat /\ StopCount >= 2 /\ Tour!Stop \subseteq Nat
    /\ IsFiniteSet(Tour!Stop) /\ Cardinality(Tour!Stop) = StopCount
<1>1. StopCount \in Nat /\ StopCount >= 2
  BY TourAssumed DEF Tour!Assumptions
<1>2. IsFiniteSet(1..StopCount) /\ Cardinality(1..StopCount) = StopCount
  BY <1>1, FS_Interval
<1>3. QED
  BY <1>1, <1>2 DEF Tour!Stop

LEMMA CostFacts ==
    ASSUME Tour!TypeOK, NEW i \in Tour!Stop, NEW j \in Tour!Stop, i # j
    PROVE  Tour!Costs[<<i, j>>] = Tour!Cost(i, j) /\ Tour!Cost(i, j) \in Nat
<1>1. <<i, j>> \in Tour!Pair
  BY DEF Tour!Pair
<1>2. times[<<i, j>>] \in Nat /\ Estimate[<<i, j>>] \in Nat
  BY <1>1, TourAssumed DEF Tour!TypeOK, Tour!Assumptions
<1>3. QED
  BY <1>1, <1>2 DEF Tour!Costs, Tour!Cost

-----------------------------------------------------------------------------
(* The orders of the stops that were visited.                              *)

Orders(v) ==
    {o \in [1..Cardinality(v[1]) -> v[1]] :
        /\ o[1] = start /\ o[Cardinality(v[1])] = v[2]
        /\ \A i, j \in 1..Cardinality(v[1]) : o[i] = o[j] => i = j}

PricedOrders(v) == {[cost |-> Tour!Along(o, Tour!Costs), order |-> o] : o \in Orders(v)}
BestOrder(v) == Tour!Choice(PricedOrders(v))

LEMMA OneLess ==
    ASSUME NEW S, IsFiniteSet(S), NEW x \in S
    PROVE  IsFiniteSet(S \ {x}) /\ Cardinality(S \ {x}) = Cardinality(S) - 1
BY FS_RemoveElement

LEMMA VisitFacts ==
    ASSUME NEW v \in Tour!Visits
    PROVE  /\ v[1] \subseteq Tour!Stop /\ start \in v[1] /\ v[2] \in v[1] /\ IsFiniteSet(v[1])
           /\ Cardinality(v[1]) \in Nat \ {0} /\ (v[2] = start => v[1] = {start})
<1>1. v[1] \subseteq Tour!Stop /\ start \in v[1] /\ v[2] \in v[1] /\ (v[2] = start => v[1] = {start})
  BY DEF Tour!Visits
<1>2. IsFiniteSet(v[1]) /\ Cardinality(v[1]) \in Nat
  BY <1>1, StopFacts, FS_Subset, FS_CardinalityType
<1>3. Cardinality(v[1]) # 0
  BY <1>1, <1>2, FS_EmptySet
<1>4. QED
  BY <1>1, <1>2, <1>3

LEMMA BeforeFacts ==
    ASSUME NEW v \in Tour!Visits, v[1] # {start}
    PROVE  /\ Tour!Before(v) # {} /\ v[2] # start
           /\ \A u \in Tour!Before(v) : /\ u \in Tour!Visits /\ u[1] = v[1] \ {v[2]} /\ u[2] \in u[1]
                                        /\ Cardinality(u[1]) = Cardinality(v[1]) - 1
<1>1. /\ v[1] \subseteq Tour!Stop /\ start \in v[1] /\ v[2] \in v[1] /\ IsFiniteSet(v[1])
      /\ Cardinality(v[1]) \in Nat \ {0} /\ v[2] # start
  BY VisitFacts
<1>2. Cardinality(v[1] \ {v[2]}) = Cardinality(v[1]) - 1
  BY <1>1, OneLess
<1>3. ASSUME NEW u \in Tour!Before(v)
      PROVE  u \in Tour!Visits /\ u[1] = v[1] \ {v[2]} /\ u[2] \in u[1]
  <2>1. PICK k \in IF v[1] = {start, v[2]} THEN {start} ELSE v[1] \ {start, v[2]} : u = <<v[1] \ {v[2]}, k>>
    BY DEF Tour!Before
  <2>2. k \in v[1] \ {v[2]} /\ start \in v[1] \ {v[2]} /\ (k = start => v[1] \ {v[2]} = {start})
    BY <1>1, <2>1
  <2>3. u[1] = v[1] \ {v[2]} /\ u[2] = k
    BY <2>1
  <2>4. u \in (SUBSET Tour!Stop) \X Tour!Stop
    BY <1>1, <2>1, <2>2
  <2>5. QED
    BY <2>2, <2>3, <2>4 DEF Tour!Visits
<1>4. Tour!Before(v) # {}
  <2>1. CASE v[1] = {start, v[2]}
    BY <2>1 DEF Tour!Before
  <2>2. CASE v[1] # {start, v[2]}
    <3>1. PICK k \in v[1] : k \notin {start, v[2]}
      BY <1>1, <2>2
    <3>2. <<v[1] \ {v[2]}, k>> \in Tour!Before(v)
      BY <2>2, <3>1 DEF Tour!Before
    <3>3. QED
      BY <3>2
  <2>3. QED
    BY <2>1, <2>2
<1>5. QED
  BY <1>1, <1>2, <1>3, <1>4

LEMMA OrderFacts ==
    ASSUME Tour!TypeOK, NEW v \in Tour!Visits, NEW o \in Orders(v)
    PROVE  /\ Len(o) = Cardinality(v[1]) /\ Len(o) \in Nat \ {0} /\ o \in [1..Len(o) -> v[1]]
           /\ o[1] = start /\ o[Len(o)] = v[2] /\ \A i, j \in 1..Len(o) : o[i] = o[j] => i = j
           /\ Weighs(o, Tour!Costs, Len(o)) /\ Tour!Along(o, Tour!Costs) \in Nat
<1>1. /\ Cardinality(v[1]) \in Nat \ {0} /\ v[1] \subseteq Tour!Stop
  BY VisitFacts
<1>2. /\ Len(o) = Cardinality(v[1]) /\ Len(o) \in Nat \ {0} /\ o \in [1..Len(o) -> v[1]]
      /\ o[1] = start /\ o[Len(o)] = v[2] /\ \A i, j \in 1..Len(o) : o[i] = o[j] => i = j
  BY <1>1 DEF Orders
<1>3. Weighs(o, Tour!Costs, Len(o))
  <2>1. ASSUME NEW i \in 2..Len(o) PROVE Tour!Costs[<<o[i - 1], o[i]>>] \in Nat
    <3>1. i \in 1..Len(o) /\ i - 1 \in 1..Len(o) /\ i - 1 # i
      BY <1>2
    <3>2. o[i - 1] \in Tour!Stop /\ o[i] \in Tour!Stop /\ o[i - 1] # o[i]
      BY <1>1, <1>2, <3>1
    <3>3. QED
      BY <3>2, CostFacts
  <2>2. QED
    BY <2>1 DEF Weighs
<1>4. Tour!Along(o, Tour!Costs) \in Nat
  BY <1>2, <1>3, AlongFacts, SameSums
<1>5. QED
  BY <1>2, <1>3, <1>4

\* An order goes on to a stop that was not visited.
LEMMA OrderGrows ==
    ASSUME Tour!TypeOK, NEW v \in Tour!Visits, v[1] # {start}, NEW u \in Tour!Before(v), NEW p \in Orders(u)
    PROVE  /\ Append(p, v[2]) \in Orders(v)
           /\ Tour!Along(Append(p, v[2]), Tour!Costs) = Tour!Along(p, Tour!Costs) + Tour!Cost(u[2], v[2])
           /\ Tour!Cost(u[2], v[2]) \in Nat
<1> DEFINE k == Len(p)
           q == Append(p, v[2])
<1>1. /\ u \in Tour!Visits /\ u[1] = v[1] \ {v[2]} /\ u[2] \in u[1] /\ Cardinality(u[1]) = Cardinality(v[1]) - 1
  BY BeforeFacts
<1>2. v[1] \subseteq Tour!Stop /\ v[2] \in v[1] /\ Cardinality(v[1]) \in Nat \ {0}
  BY VisitFacts
<1>3. /\ k = Cardinality(u[1]) /\ k \in Nat \ {0} /\ p \in [1..k -> u[1]]
      /\ p[1] = start /\ p[k] = u[2] /\ \A i, j \in 1..k : p[i] = p[j] => i = j
      /\ Weighs(p, Tour!Costs, k) /\ Tour!Along(p, Tour!Costs) \in Nat
  BY <1>1, OrderFacts
<1> HIDE DEF k
<1>4. Cardinality(v[1]) = k + 1
  BY <1>1, <1>2, <1>3
<1>5. /\ q \in [1..(k + 1) -> v[1]] /\ Len(q) = k + 1 /\ q[k + 1] = v[2]
      /\ \A i \in 1..k : q[i] = p[i] /\ p[i] # v[2]
  <2>1. p \in Seq(v[1]) /\ Len(p) = k /\ \A i \in 1..k : p[i] \in v[1] /\ p[i] # v[2]
    BY <1>1, <1>2, <1>3 DEF k
  <2>2. q = [i \in 1..(k + 1) |-> IF i = k + 1 THEN v[2] ELSE p[i]]
    BY <1>3, <2>1
  <2>3. k + 1 \in Nat /\ \A i \in 1..k : i \in 1..(k + 1) /\ i # k + 1
    BY <1>3
  <2> HIDE DEF q
  <2>4. q \in [1..(k + 1) -> v[1]] /\ q[k + 1] = v[2] /\ \A i \in 1..k : q[i] = p[i]
    BY <1>2, <1>3, <2>1, <2>2, <2>3
  <2>5. Len(q) = k + 1
    BY <2>3, <2>4
  <2>6. QED
    BY <2>1, <2>4, <2>5
<1> HIDE DEF q
<1>6. \A i, j \in 1..(k + 1) : q[i] = q[j] => i = j
  <2>1. \A i \in 1..(k + 1) : i = k + 1 \/ i \in 1..k
    BY <1>3
  <2>2. QED
    BY <1>3, <1>5, <2>1
<1>7. q \in Orders(v)
  BY <1>3, <1>4, <1>5, <1>6 DEF Orders
<1>8. Tour!Cost(u[2], v[2]) \in Nat /\ Tour!Costs[<<u[2], v[2]>>] = Tour!Cost(u[2], v[2])
  BY <1>1, <1>2, CostFacts
<1>9. Tour!Along(q, Tour!Costs) = Tour!Along(p, Tour!Costs) + Tour!Cost(u[2], v[2])
  <2>1. Len(p) = k /\ Len(q) = Len(p) + 1 /\ p[Len(p)] = u[2] /\ q[Len(q)] = v[2]
    BY <1>3, <1>5 DEF k
  <2>2. Tour!Costs[<<p[Len(p)], q[Len(q)]>>] = Tour!Cost(u[2], v[2])
    BY <1>8, <2>1
  <2>3. /\ Len(p) \in Nat \ {0} /\ Weighs(p, Tour!Costs, Len(p)) /\ \A i \in 1..Len(p) : q[i] = p[i]
        /\ Tour!Costs[<<p[Len(p)], q[Len(q)]>>] \in Nat
    BY <1>3, <1>5, <1>8, <2>1, <2>2
  <2>4. Tour!Along(q, Tour!Costs) = Tour!Along(p, Tour!Costs) + Tour!Costs[<<p[Len(p)], q[Len(q)]>>]
    BY <2>1, <2>3, AlongAppend, SameSums
  <2>5. QED
    BY <2>2, <2>4
<1>10. QED
  BY <1>7, <1>8, <1>9 DEF q

\* An order without its last stop.
LEMMA OrderShrinks ==
    ASSUME Tour!TypeOK, NEW v \in Tour!Visits, v[1] # {start}, NEW o \in Orders(v)
    PROVE  \E u \in Tour!Before(v) : \E p \in Orders(u) : o = Append(p, v[2])
<1> DEFINE k == Len(o) - 1
           p == [i \in 1..k |-> o[i]]
           u == <<v[1] \ {v[2]}, o[k]>>
<1>1. v[1] \subseteq Tour!Stop /\ start \in v[1] /\ v[2] \in v[1] /\ v[2] # start /\ IsFiniteSet(v[1])
  BY VisitFacts
<1>2. /\ k + 1 = Cardinality(v[1]) /\ Len(o) = k + 1 /\ o \in [1..(k + 1) -> v[1]] /\ k \in Nat
      /\ o[1] = start /\ o[k + 1] = v[2] /\ \A i, j \in 1..(k + 1) : o[i] = o[j] => i = j
  BY OrderFacts
<1> HIDE DEF k
<1>3. k \in Nat \ {0}
  BY <1>1, <1>2
<1>4. Cardinality(v[1] \ {v[2]}) = k
  <2>1. Cardinality(v[1] \ {v[2]}) = Cardinality(v[1]) - 1
    BY <1>1, OneLess
  <2>2. QED
    BY <1>2, <2>1
<1>5. \A i \in 1..k : i \in 1..(k + 1) /\ o[i] \in v[1] \ {v[2]}
  <2>1. ASSUME NEW i \in 1..k PROVE i \in 1..(k + 1) /\ o[i] \in v[1] \ {v[2]}
    <3>1. i \in 1..(k + 1) /\ k + 1 \in 1..(k + 1) /\ i # k + 1
      BY <1>2
    <3>2. QED
      BY <1>2, <3>1
  <2>2. QED
    BY <2>1
<1>6. u \in Tour!Before(v)
  <2>1. k \in 1..k /\ 1 \in 1..(k + 1)
    BY <1>3
  <2>2. o[k] \in v[1] \ {v[2]}
    BY <1>5, <2>1
  <2>3. CASE v[1] = {start, v[2]}
    BY <2>2, <2>3 DEF Tour!Before
  <2>4. CASE v[1] # {start, v[2]}
    <3>1. k # 1
      <4>1. SUFFICES ASSUME k = 1 PROVE FALSE
        OBVIOUS
      <4>2. v[1] \ {v[2]} = {start}
        <5>1. IsFiniteSet(v[1] \ {v[2]}) /\ start \in v[1] \ {v[2]}
          BY <1>1, OneLess
        <5>2. PICK x : v[1] \ {v[2]} = {x}
          BY <1>4, <4>1, <5>1, FS_Singleton
        <5>3. QED
          BY <5>1, <5>2
      <4>3. QED
        BY <1>1, <2>4, <4>2
    <3>2. o[k] # start
      BY <1>2, <1>5, <2>1, <3>1
    <3>3. QED
      BY <2>2, <2>4, <3>2 DEF Tour!Before
  <2>5. QED
    BY <2>3, <2>4
<1>7. p \in [1..k -> u[1]] /\ p[1] = start /\ p[k] = u[2] /\ \A i, j \in 1..k : p[i] = p[j] => i = j
  BY <1>2, <1>3, <1>5
<1>8. o = Append(p, v[2])
  <2>1. Append(p, v[2]) = [i \in 1..(k + 1) |-> IF i = k + 1 THEN v[2] ELSE p[i]]
    BY <1>3
  <2>2. \A i \in 1..(k + 1) : o[i] = IF i = k + 1 THEN v[2] ELSE p[i]
    BY <1>2
  <2> HIDE DEF p
  <2>3. QED
    BY <1>2, <2>1, <2>2
<1> HIDE DEF p
<1>9. p \in Orders(u)
  BY <1>4, <1>7 DEF Orders
<1>10. QED
  BY <1>6, <1>8, <1>9

\* There is an order of what was visited.
LEMMA OrdersExist ==
    ASSUME Tour!TypeOK, NEW v \in Tour!Visits
    PROVE  Orders(v) # {}
<1> DEFINE stuck == {n \in Nat : \E w \in Tour!Visits : Cardinality(w[1]) = n /\ Orders(w) = {}}
<1>1. SUFFICES ASSUME Orders(v) = {} PROVE FALSE
  OBVIOUS
<1>2. PICK n \in stuck : \A m \in stuck : n <= m
  <2>1. Cardinality(v[1]) \in Nat
    BY VisitFacts
  <2>2. stuck # {} /\ stuck \in SUBSET Nat
    BY <1>1, <2>1
  <2> HIDE DEF stuck
  <2>3. QED
    BY <2>2, LeastNumber
<1>3. PICK w \in Tour!Visits : Cardinality(w[1]) = n /\ Orders(w) = {}
  OBVIOUS
<1>4. w[1] # {start}
  <2>1. SUFFICES ASSUME w[1] = {start} PROVE FALSE
    OBVIOUS
  <2>2. Cardinality(w[1]) = 1 /\ w[2] = start
    BY <2>1, FS_Singleton, VisitFacts
  <2>3. <<start>> \in [1..1 -> {start}] /\ <<start>>[1] = start
    OBVIOUS
  <2>4. <<start>> \in Orders(w)
    <3> HIDE DEF stuck
    <3>1. Orders(w) = {o \in [1..1 -> {start}] : o[1] = start /\ \A i, j \in 1..1 : o[i] = o[j] => i = j}
      BY <2>1, <2>2 DEF Orders
    <3>2. \A i, j \in 1..1 : i = j
      OBVIOUS
    <3> HIDE DEF Orders
    <3>3. QED
      BY <2>3, <3>1, <3>2
  <2>5. QED
    BY <1>3, <2>4
<1>5. PICK u \in Tour!Before(w) : u \in Tour!Visits /\ Cardinality(u[1]) = Cardinality(w[1]) - 1
  BY <1>4, BeforeFacts
<1>6. Cardinality(u[1]) \in Nat /\ Cardinality(w[1]) \in Nat
  BY <1>5, VisitFacts
<1>7. Cardinality(u[1]) \notin stuck
  <2>1. Cardinality(u[1]) < n
    BY <1>3, <1>5, <1>6
  <2> HIDE DEF stuck
  <2>2. QED
    BY <1>2, <1>3, <1>6, <2>1
<1>8. Orders(u) # {}
  BY <1>5, <1>6, <1>7
<1>9. PICK p \in Orders(u) : TRUE
  BY <1>8
<1>10. QED
  BY <1>3, <1>4, <1>9, OrderGrows

\* What the best order is among.
LEMMA OrdersArePriced ==
    ASSUME Tour!TypeOK, NEW v \in Tour!Visits
    PROVE  /\ PricedOrders(v) \in SUBSET Priced(Cardinality(v[1])) /\ PricedOrders(v) # {}
           /\ Cardinality(v[1]) \in Nat
<1>1. Cardinality(v[1]) \in Nat /\ v[1] \subseteq Nat
  BY VisitFacts, StopFacts
<1>2. ASSUME NEW o \in Orders(v) PROVE [cost |-> Tour!Along(o, Tour!Costs), order |-> o] \in Priced(Cardinality(v[1]))
  <2>1. Tour!Along(o, Tour!Costs) \in Nat /\ o \in [1..Cardinality(v[1]) -> v[1]]
    BY OrderFacts DEF Orders
  <2>2. QED
    BY <1>1, <2>1 DEF Priced
<1>3. QED
  BY <1>1, <1>2, OrdersExist DEF PricedOrders

LEMMA BestIsBest ==
    ASSUME Tour!TypeOK, NEW v \in Tour!Visits
    PROVE  /\ BestOrder(v) \in PricedOrders(v)
           /\ \A b \in PricedOrders(v) : b = BestOrder(v) \/ Tour!Prefers(BestOrder(v), b)
BY OrdersArePriced, ChoiceExists DEF BestOrder

\* Two orders keep their preference when both go on to the same stop.
LEMMA ExtendKeeps ==
    ASSUME NEW n \in Nat \ {0}, NEW a \in Priced(n), NEW b \in Priced(n), Tour!Prefers(a, b), NEW k,
           a.order[n] = b.order[n], Tour!Cost(a.order[n], k) \in Nat
    PROVE  Tour!Prefers(Tour!Extend(a, k), Tour!Extend(b, k))
<1>1. /\ a.cost \in Nat /\ b.cost \in Nat /\ a.order \in [1..n -> Nat] /\ b.order \in [1..n -> Nat]
  BY DEF Priced
<1>2. Len(a.order) = n /\ Len(b.order) = n
  BY <1>1
<1> DEFINE c == Tour!Cost(a.order[n], k)
<1>3. /\ Tour!Extend(a, k).cost = a.cost + c /\ Tour!Extend(a, k).order = Append(a.order, k)
      /\ Tour!Extend(b, k).cost = b.cost + c /\ Tour!Extend(b, k).order = Append(b.order, k)
  BY <1>2 DEF Tour!Extend
<1>4. c \in Nat
  OBVIOUS
<1> HIDE DEF c
<1>5. Tour!LexLess(a.order, b.order) => Tour!LexLess(Append(a.order, k), Append(b.order, k))
  BY <1>1, LexAppend
<1>6. a.cost < b.cost \/ (a.cost = b.cost /\ Tour!LexLess(a.order, b.order))
  BY DEF Tour!Prefers
<1>7. QED
  BY <1>1, <1>3, <1>4, <1>5, <1>6 DEF Tour!Prefers

\* An order that goes on, with what it costs.
LEMMA ExtendPrices ==
    ASSUME Tour!TypeOK, NEW v \in Tour!Visits, v[1] # {start}, NEW u \in Tour!Before(v), NEW p \in Orders(u)
    PROVE  /\ Tour!Extend([cost |-> Tour!Along(p, Tour!Costs), order |-> p], v[2])
                = [cost |-> Tour!Along(Append(p, v[2]), Tour!Costs), order |-> Append(p, v[2])]
           /\ Tour!Extend([cost |-> Tour!Along(p, Tour!Costs), order |-> p], v[2]) \in PricedOrders(v)
<1>1. u \in Tour!Visits
  BY BeforeFacts
<1>2. p[Len(p)] = u[2]
  BY <1>1, OrderFacts
<1>3. /\ Append(p, v[2]) \in Orders(v)
      /\ Tour!Along(Append(p, v[2]), Tour!Costs) = Tour!Along(p, Tour!Costs) + Tour!Cost(u[2], v[2])
  BY OrderGrows
<1>4. Tour!Extend([cost |-> Tour!Along(p, Tour!Costs), order |-> p], v[2])
        = [cost |-> Tour!Along(Append(p, v[2]), Tour!Costs), order |-> Append(p, v[2])]
  BY <1>2, <1>3 DEF Tour!Extend
<1>5. QED
  BY <1>3, <1>4 DEF PricedOrders

\* The best order is the best of the best orders before, gone on.
LEMMA BestExtends ==
    ASSUME Tour!TypeOK, NEW v \in Tour!Visits, v[1] # {start}
    PROVE  BestOrder(v) = Tour!Choice({Tour!Extend(BestOrder(u), v[2]) : u \in Tour!Before(v)})
<1> DEFINE S == {Tour!Extend(BestOrder(u), v[2]) : u \in Tour!Before(v)}
           n == Cardinality(v[1])
           a == BestOrder(v)
<1>1. /\ PricedOrders(v) \in SUBSET Priced(n) /\ n \in Nat
      /\ a \in PricedOrders(v) /\ \A b \in PricedOrders(v) : b = a \/ Tour!Prefers(a, b)
  BY OrdersArePriced, BestIsBest
<1>2. S \subseteq PricedOrders(v)
  <2>1. ASSUME NEW u \in Tour!Before(v) PROVE Tour!Extend(BestOrder(u), v[2]) \in PricedOrders(v)
    <3>1. BestOrder(u) \in PricedOrders(u)
      BY BeforeFacts, BestIsBest
    <3>2. PICK p \in Orders(u) : BestOrder(u) = [cost |-> Tour!Along(p, Tour!Costs), order |-> p]
      BY <3>1 DEF PricedOrders
    <3>3. QED
      BY <3>2, ExtendPrices
  <2>2. QED
    BY <2>1
<1>3. a \in S
  <2>1. PICK o \in Orders(v) : a = [cost |-> Tour!Along(o, Tour!Costs), order |-> o]
    BY <1>1 DEF PricedOrders
  <2>2. PICK u \in Tour!Before(v) : \E p \in Orders(u) : o = Append(p, v[2])
    BY OrderShrinks
  <2>3. PICK p \in Orders(u) : o = Append(p, v[2])
    BY <2>2
  <2> DEFINE b == [cost |-> Tour!Along(p, Tour!Costs), order |-> p]
             m == Cardinality(u[1])
  <2>4. u \in Tour!Visits
    BY BeforeFacts
  <2>5. a = Tour!Extend(b, v[2])
    BY <2>1, <2>3, ExtendPrices
  <2>6. /\ PricedOrders(u) \in SUBSET Priced(m) /\ m \in Nat \ {0} /\ b \in PricedOrders(u)
        /\ BestOrder(u) \in PricedOrders(u) /\ (b = BestOrder(u) \/ Tour!Prefers(BestOrder(u), b))
    BY <2>4, OrdersArePriced, BestIsBest, VisitFacts DEF PricedOrders
  <2>7. Tour!Extend(BestOrder(u), v[2]) \in S
    OBVIOUS
  <2>8. CASE b = BestOrder(u)
    BY <2>5, <2>7, <2>8
  <2>9. CASE Tour!Prefers(BestOrder(u), b)
    <3>1. PICK q \in Orders(u) : BestOrder(u) = [cost |-> Tour!Along(q, Tour!Costs), order |-> q]
      BY <2>6 DEF PricedOrders
    <3>2. /\ Len(p) = m /\ p[m] = u[2] /\ Len(q) = m /\ q[m] = u[2]
      BY <2>4, OrderFacts
    <3>3. BestOrder(u).order = q /\ b.order = p
      BY <3>1
    <3>4. Tour!Cost(u[2], v[2]) \in Nat
      BY OrderGrows
    <3> HIDE DEF b
    <3>5. Tour!Prefers(Tour!Extend(BestOrder(u), v[2]), Tour!Extend(b, v[2]))
      BY <2>6, <2>9, <3>2, <3>3, <3>4, ExtendKeeps
    <3>6. Tour!Extend(BestOrder(u), v[2]) = a \/ Tour!Prefers(a, Tour!Extend(BestOrder(u), v[2]))
      BY <1>1, <1>2, <2>7
    <3>7. a \in Priced(n) /\ Tour!Extend(BestOrder(u), v[2]) \in Priced(n)
      BY <1>1, <1>2, <2>7
    <3>8. Tour!Extend(BestOrder(u), v[2]) = a
      BY <1>1, <2>5, <3>5, <3>6, <3>7, PrefersOneWay
    <3>9. QED
      BY <2>7, <3>8
  <2>10. QED
    BY <2>6, <2>8, <2>9
<1>4. S \in SUBSET Priced(n) /\ \A b \in S : b = a \/ Tour!Prefers(a, b)
  BY <1>1, <1>2
<1> HIDE DEF S, a
<1>5. Tour!Choice(S) = a
  BY <1>1, <1>3, <1>4, ChoiceIs
<1>6. QED
  BY <1>5 DEF S, a

\* Before any other stop there is one order.
LEMMA BestStarts ==
    ASSUME Tour!TypeOK, NEW v \in Tour!Visits, v[1] = {start}
    PROVE  BestOrder(v) = [cost |-> 0, order |-> <<start>>]
<1>1. BestOrder(v) \in PricedOrders(v)
  BY BestIsBest
<1>2. PICK o \in Orders(v) : BestOrder(v) = [cost |-> Tour!Along(o, Tour!Costs), order |-> o]
  BY <1>1 DEF PricedOrders
<1>3. Cardinality(v[1]) = 1
  BY FS_Singleton
<1>4. o = <<start>>
  <2>1. o \in [1..1 -> {start}]
    BY <1>3 DEF Orders
  <2>2. QED
    BY <2>1
<1>5. QED
  BY <1>2, <1>4, AlongOne, SameSums

-----------------------------------------------------------------------------
(* What solve_tsp() returns.                                               *)

LEMMA PrefixIs ==
    ASSUME Tour!TypeOK, NEW v \in Tour!Visits
    PROVE  Tour!Prefix[v] = BestOrder(v)
<1> DEFINE body(f) == [w \in Tour!Visits |-> IF w[1] = {start} THEN [cost |-> 0, order |-> <<start>>]
                                        ELSE Tour!Choice({Tour!Extend(f[u], w[2]) : u \in Tour!Before(w)})]
           P == CHOOSE f : f = body(f)
           best0 == [w \in Tour!Visits |-> BestOrder(w)]
<1>1. best0 = body(best0)
  <2>1. ASSUME NEW w \in Tour!Visits, w[1] # {start}
        PROVE  BestOrder(w) = Tour!Choice({Tour!Extend(best0[u], w[2]) : u \in Tour!Before(w)})
    <3>1. \A u \in Tour!Before(w) : best0[u] = BestOrder(u)
      BY <2>1, BeforeFacts
    <3> HIDE DEF best0
    <3>2. {Tour!Extend(best0[u], w[2]) : u \in Tour!Before(w)}
            = {Tour!Extend(BestOrder(u), w[2]) : u \in Tour!Before(w)}
      BY <3>1
    <3>3. QED
      BY <2>1, <3>2, BestExtends
  <2>2. ASSUME NEW w \in Tour!Visits
        PROVE  BestOrder(w) = IF w[1] = {start} THEN [cost |-> 0, order |-> <<start>>]
                              ELSE Tour!Choice({Tour!Extend(best0[u], w[2]) : u \in Tour!Before(w)})
    <3> HIDE DEF best0
    <3>1. QED
      BY <2>1, BestStarts
  <2>3. best0 = [w \in Tour!Visits |-> IF w[1] = {start} THEN [cost |-> 0, order |-> <<start>>]
                                  ELSE Tour!Choice({Tour!Extend(best0[u], w[2]) : u \in Tour!Before(w)})]
    BY <2>2
  <2>4. QED
    BY <2>3
<1>2. P = body(P)
  <2> HIDE DEF best0, body
  <2>1. QED
    BY <1>1
<1>3. Tour!Prefix = P
  BY DEF Tour!Prefix
<1> HIDE DEF best0, P
<1>4. \A w \in Tour!Visits : P[w] = IF w[1] = {start} THEN [cost |-> 0, order |-> <<start>>]
                               ELSE Tour!Choice({Tour!Extend(P[u], w[2]) : u \in Tour!Before(w)})
  BY <1>2
<1> HIDE DEF body
<1> DEFINE wrong == {n \in Nat : \E w \in Tour!Visits : Cardinality(w[1]) = n /\ P[w] # BestOrder(w)}
<1>5. SUFFICES ASSUME P[v] # BestOrder(v) PROVE FALSE
  BY <1>3
<1>6. PICK n \in wrong : \A m \in wrong : n <= m
  <2>1. Cardinality(v[1]) \in Nat
    BY VisitFacts
  <2>2. wrong # {} /\ wrong \in SUBSET Nat
    BY <1>5, <2>1
  <2> HIDE DEF wrong
  <2>3. QED
    BY <2>2, LeastNumber
<1>7. PICK w \in Tour!Visits : Cardinality(w[1]) = n /\ P[w] # BestOrder(w)
  OBVIOUS
<1>8. w[1] # {start}
  BY <1>4, <1>7, BestStarts
<1>9. ASSUME NEW u \in Tour!Before(w) PROVE P[u] = BestOrder(u)
  <2>1. u \in Tour!Visits /\ Cardinality(u[1]) = Cardinality(w[1]) - 1
    BY <1>8, BeforeFacts
  <2>2. Cardinality(u[1]) \in Nat /\ Cardinality(w[1]) \in Nat
    BY <2>1, VisitFacts
  <2>3. Cardinality(u[1]) \notin wrong
    <3>1. Cardinality(u[1]) < n
      BY <1>7, <2>1, <2>2
    <3> HIDE DEF wrong
    <3>2. QED
      BY <1>6, <1>7, <2>2, <3>1
  <2>4. QED
    BY <2>1, <2>2, <2>3
<1>10. {Tour!Extend(P[u], w[2]) : u \in Tour!Before(w)} = {Tour!Extend(BestOrder(u), w[2]) : u \in Tour!Before(w)}
  BY <1>9
<1>11. P[w] = Tour!Choice({Tour!Extend(P[u], w[2]) : u \in Tour!Before(w)})
  BY <1>4, <1>8
<1>12. QED
  BY <1>7, <1>8, <1>10, <1>11, BestExtends

\* Every tour is an order of all stops.
LEMMA ToursAre ==
    ASSUME Tour!TypeOK, NEW t \in Tour!Tours
    PROVE  /\ t[StopCount] \in Tour!Stop \ {start} /\ <<Tour!Stop, t[StopCount]>> \in Tour!Visits
           /\ t \in Orders(<<Tour!Stop, t[StopCount]>>)
<1>1. /\ t \in [1..StopCount -> Tour!Stop] /\ t[1] = start /\ \A i, j \in 1..StopCount : t[i] = t[j] => i = j
  BY DEF Tour!Tours, Tour!Stop
<1>2. 1 \in 1..StopCount /\ StopCount \in 1..StopCount /\ 1 # StopCount
  BY StopFacts
<1>3. t[StopCount] \in Tour!Stop \ {start} /\ start \in Tour!Stop
  BY <1>1, <1>2 DEF Tour!TypeOK
<1>4. <<Tour!Stop, t[StopCount]>> \in Tour!Visits
  BY <1>3 DEF Tour!Visits
<1>5. QED
  BY <1>1, <1>3, <1>4, StopFacts DEF Orders

\* The best order that ends at j, the way back included.
LEMMA ClosedFacts ==
    ASSUME Tour!TypeOK, NEW j \in Tour!Stop \ {start}
    PROVE  /\ <<Tour!Stop, j>> \in Tour!Visits
           /\ \E t \in Tour!Tours :
                  /\ Tour!Closed(Tour!Prefix[<<Tour!Stop, j>>]) = [cost |-> Tour!TourCost(t), order |-> t]
                  /\ t[StopCount] = j
           /\ \A t \in Tour!Tours : t[StopCount] = j =>
                  LET c == [cost |-> Tour!TourCost(t), order |-> t] IN
                  \/ c = Tour!Closed(Tour!Prefix[<<Tour!Stop, j>>])
                  \/ Tour!Prefers(Tour!Closed(Tour!Prefix[<<Tour!Stop, j>>]), c)
<1> DEFINE v == <<Tour!Stop, j>>
           a == BestOrder(v)
           back == IF roundtrip THEN Tour!Cost(j, start) ELSE 0
<1>1. v \in Tour!Visits /\ start \in Tour!Stop /\ v[1] = Tour!Stop /\ v[2] = j /\ Cardinality(v[1]) = StopCount
  BY StopFacts DEF Tour!Visits, Tour!TypeOK
<1>2. back \in Nat /\ StopCount \in Nat \ {0}
  <2>1. Tour!Cost(j, start) \in Nat
    BY <1>1, CostFacts
  <2>2. StopCount \in Nat \ {0}
    BY StopFacts
  <2>3. QED
    BY <2>1, <2>2
<1>3. Tour!Prefix[v] = a
  BY <1>1, PrefixIs
<1>4. /\ a \in PricedOrders(v) /\ PricedOrders(v) \in SUBSET Priced(StopCount)
      /\ \A b \in PricedOrders(v) : b = a \/ Tour!Prefers(a, b)
  BY <1>1, BestIsBest, OrdersArePriced
<1>5. PICK s \in Orders(v) : a = [cost |-> Tour!Along(s, Tour!Costs), order |-> s]
  BY <1>4 DEF PricedOrders
<1>6. ASSUME NEW o \in Orders(v)
      PROVE  /\ o \in Tour!Tours /\ o[StopCount] = j /\ Tour!TourCost(o) = Tour!Along(o, Tour!Costs) + back
             /\ Tour!Along(o, Tour!Costs) \in Nat /\ o \in [1..StopCount -> Nat] /\ Len(o) = StopCount
  <2>1. /\ o \in [1..StopCount -> Tour!Stop] /\ o[1] = start /\ o[StopCount] = j
        /\ \A i, k \in 1..StopCount : o[i] = o[k] => i = k
    BY <1>1 DEF Orders
  <2>2. o \in Tour!Tours
    BY <2>1 DEF Tour!Tours, Tour!Stop
  <2>3. Tour!Along(o, Tour!Costs) \in Nat /\ Len(o) = StopCount
    BY <1>1, OrderFacts
  <2>4. QED
    BY <2>1, <2>2, <2>3, StopFacts DEF Tour!TourCost
<1> DEFINE closed(o) == [cost |-> Tour!TourCost(o), order |-> o]
<1>7. Tour!Closed(a) = closed(s)
  <2>1. a.order[Len(a.order)] = j /\ a.cost = Tour!Along(s, Tour!Costs) /\ a.order = s
    BY <1>2, <1>5, <1>6
  <2>2. CASE roundtrip
    <3>1. Tour!Closed(a) = [a EXCEPT !.cost = Tour!Along(s, Tour!Costs) + Tour!Cost(j, start)]
      BY <2>1, <2>2 DEF Tour!Closed
    <3>2. Tour!TourCost(s) = Tour!Along(s, Tour!Costs) + Tour!Cost(j, start)
      BY <1>6, <2>2
    <3>3. QED
      BY <1>5, <3>1, <3>2
  <2>3. CASE ~roundtrip
    <3>1. Tour!Closed(a) = a
      BY <2>3 DEF Tour!Closed
    <3>2. Tour!TourCost(s) = Tour!Along(s, Tour!Costs)
      BY <1>6, <2>3
    <3>3. QED
      BY <1>5, <3>1, <3>2
  <2>4. QED
    BY <2>2, <2>3
<1>8. ASSUME NEW t \in Tour!Tours, t[StopCount] = j
      PROVE  closed(t) = Tour!Closed(a) \/ Tour!Prefers(Tour!Closed(a), closed(t))
  <2>1. t \in Orders(v)
    BY <1>8, ToursAre
  <2> DEFINE b == [cost |-> Tour!Along(t, Tour!Costs), order |-> t]
  <2>2. b \in PricedOrders(v)
    BY <2>1 DEF PricedOrders
  <2>3. b = a \/ Tour!Prefers(a, b)
    BY <1>4, <2>2
  <2>4. /\ Tour!TourCost(t) = Tour!Along(t, Tour!Costs) + back /\ Tour!Along(t, Tour!Costs) \in Nat
        /\ Tour!TourCost(s) = Tour!Along(s, Tour!Costs) + back /\ Tour!Along(s, Tour!Costs) \in Nat
    BY <1>6, <2>1
  <2>5. CASE b = a
    <3>1. t = s
      BY <1>5, <2>5
    <3>2. QED
      BY <1>7, <3>1
  <2>6. CASE Tour!Prefers(a, b)
    <3>1. /\ a.cost = Tour!Along(s, Tour!Costs) /\ a.order = s /\ b.cost = Tour!Along(t, Tour!Costs) /\ b.order = t
      BY <1>5
    <3>2. \/ Tour!Along(s, Tour!Costs) < Tour!Along(t, Tour!Costs)
          \/ Tour!Along(s, Tour!Costs) = Tour!Along(t, Tour!Costs) /\ Tour!LexLess(s, t)
      BY <2>6, <3>1 DEF Tour!Prefers
    <3>3. \/ Tour!TourCost(s) < Tour!TourCost(t)
          \/ Tour!TourCost(s) = Tour!TourCost(t) /\ Tour!LexLess(s, t)
      BY <1>2, <2>4, <3>2
    <3>4. Tour!Prefers(closed(s), closed(t))
      BY <3>3 DEF Tour!Prefers
    <3>5. QED
      BY <1>7, <3>4
  <2>7. QED
    BY <2>3, <2>5, <2>6
<1>9. QED
  BY <1>1, <1>3, <1>5, <1>6, <1>7, <1>8

\* The order returned is the first of the best.
LEMMA SolveTspIsBest ==
    ASSUME Tour!TypeOK
    PROVE  /\ Tour!SolveTsp \in Tour!Tours
           /\ \A t \in Tour!Tours :
                  \/ Tour!TourCost(Tour!SolveTsp) < Tour!TourCost(t)
                  \/ Tour!TourCost(Tour!SolveTsp) = Tour!TourCost(t) /\ ~Tour!LexLess(t, Tour!SolveTsp)
<1> DEFINE S == {Tour!Closed(Tour!Prefix[<<Tour!Stop, j>>]) : j \in Tour!Stop \ {start}}
           w == Tour!Choice(S)
<1>1. ASSUME NEW t \in Tour!Tours PROVE Tour!TourCost(t) \in Nat /\ t \in [1..StopCount -> Nat]
  <2>1. /\ t \in Orders(<<Tour!Stop, t[StopCount]>>) /\ <<Tour!Stop, t[StopCount]>> \in Tour!Visits
        /\ t[StopCount] \in Tour!Stop \ {start}
    BY ToursAre
  <2>2. Tour!Along(t, Tour!Costs) \in Nat
    BY <2>1, OrderFacts
  <2>3. start \in Tour!Stop /\ Tour!Cost(t[StopCount], start) \in Nat
    BY <2>1, CostFacts DEF Tour!TypeOK
  <2>4. t \in [1..StopCount -> Nat]
    BY StopFacts DEF Tour!Tours, Tour!Stop
  <2>5. QED
    BY <2>2, <2>3, <2>4 DEF Tour!TourCost
<1>2. S \in SUBSET Priced(StopCount)
  <2>1. ASSUME NEW j \in Tour!Stop \ {start} PROVE Tour!Closed(Tour!Prefix[<<Tour!Stop, j>>]) \in Priced(StopCount)
    <3>1. PICK t \in Tour!Tours : Tour!Closed(Tour!Prefix[<<Tour!Stop, j>>]) = [cost |-> Tour!TourCost(t), order |-> t]
      BY ClosedFacts
    <3>2. QED
      BY <1>1, <3>1 DEF Priced
  <2>2. QED
    BY <2>1
<1>3. S # {}
  <2>1. \E j \in Tour!Stop : j # start
    <3>1. 1 \in Tour!Stop /\ 2 \in Tour!Stop
      BY StopFacts DEF Tour!Stop
    <3>2. QED
      BY <3>1
  <2>2. QED
    BY <2>1
<1>4. w \in S /\ \A b \in S : b = w \/ Tour!Prefers(w, b)
  <2> HIDE DEF S
  <2>1. QED
    BY <1>2, <1>3, StopFacts, ChoiceExists
<1>5. PICK s \in Tour!Tours : w = [cost |-> Tour!TourCost(s), order |-> s]
  <2>1. PICK j \in Tour!Stop \ {start} : w = Tour!Closed(Tour!Prefix[<<Tour!Stop, j>>])
    BY <1>4
  <2>2. QED
    BY <2>1, ClosedFacts
<1>6. Tour!SolveTsp = s
  BY <1>5 DEF Tour!SolveTsp
<1>7. ASSUME NEW t \in Tour!Tours
      PROVE  Tour!TourCost(s) < Tour!TourCost(t) \/ (Tour!TourCost(s) = Tour!TourCost(t) /\ ~Tour!LexLess(t, s))
  <2> DEFINE c == [cost |-> Tour!TourCost(t), order |-> t]
             b == Tour!Closed(Tour!Prefix[<<Tour!Stop, t[StopCount]>>])
  <2>1. t[StopCount] \in Tour!Stop \ {start}
    BY ToursAre
  <2>2. c = b \/ Tour!Prefers(b, c)
    BY <2>1, ClosedFacts
  <2>3. b \in S /\ (b = w \/ Tour!Prefers(w, b))
    BY <1>4, <2>1
  <2>4. w \in Priced(StopCount) /\ b \in Priced(StopCount) /\ c \in Priced(StopCount) /\ StopCount \in Nat
    BY <1>1, <1>2, <1>4, <2>3, StopFacts DEF Priced
  <2> HIDE DEF b, w
  <2>5. c = w \/ Tour!Prefers(w, c)
    <3> HIDE DEF c
    <3>1. QED
      BY <2>2, <2>3, <2>4, PrefersTransitive
  <2>6. w.cost = Tour!TourCost(s) /\ w.order = s /\ c.cost = Tour!TourCost(t) /\ c.order = t
    BY <1>5
  <2>7. t \in [1..StopCount -> Nat] /\ s \in [1..StopCount -> Nat] /\ StopCount \in Nat
    BY <1>1, StopFacts
  <2>8. ~Tour!LexLess(s, s)
    BY <2>7, LexOneWay
  <2>9. Tour!LexLess(s, t) => ~Tour!LexLess(t, s)
    BY <2>7, LexOneWay
  <2> HIDE DEF c
  <2>10. CASE c = w
    BY <2>6, <2>8, <2>10
  <2>11. CASE Tour!Prefers(w, c)
    BY <2>6, <2>9, <2>11 DEF Tour!Prefers
  <2>12. QED
    BY <2>5, <2>10, <2>11
<1>8. QED
  BY <1>6, <1>7

-----------------------------------------------------------------------------
(* The call.                                                               *)

LEMMA TourInit == Tour!Init => Tour!IInv
<1> SUFFICES ASSUME Tour!Init PROVE Tour!IInv
  OBVIOUS
<1>1. radius = 0 /\ best = 0 /\ order = Tour!Pending /\ order \notin {Tour!NoGraph, Tour!Failed} /\ ~Tour!Decided
  BY DEF Tour!Init, Tour!Pending, Tour!NoGraph, Tour!Failed, Tour!Decided
<1>2. Tour!TypeOK
  <2>1. keepOrder \in BOOLEAN
    BY DEF Tour!Init
  <2>2. Tour!Last \in {1, 2} /\ radius \in 0..Tour!Last /\ best \in 0..radius
    BY <1>1 DEF Tour!Last
  <2>3. QED
    BY <1>1, <2>1, <2>2 DEF Tour!Init, Tour!TypeOK
<1>3. Tour!BestSoFar /\ Tour!EndsInTime /\ Tour!OrderIsOptimal
  BY <1>1 DEF Tour!BestSoFar, Tour!EndsInTime, Tour!OrderIsOptimal
<1>4. QED
  BY <1>2, <1>3 DEF Tour!IInv

\* The gaps of a graph can be counted.
LEMMA GapsCount ==
    ASSUME Tour!TypeOK, NEW r \in 1..2
    PROVE  Tour!Cardinality(area[r].gaps) \in Nat /\ (area[r].gaps = {} <=> Tour!Cardinality(area[r].gaps) = 0)
<1>1. area[r] \in Tour!Extraction
  BY DEF Tour!TypeOK
<1>2. area[r].gaps \subseteq Tour!Pair
  BY <1>1, TourAssumed DEF Tour!Extraction, Tour!NoAnswer, Tour!NoNode, Tour!NoSnap, Tour!Assumptions
<1>3. IsFiniteSet(Tour!Pair)
  <2>1. IsFiniteSet(Tour!Stop \X Tour!Stop)
    BY StopFacts, FS_Product
  <2>2. QED
    BY <2>1, FS_Subset DEF Tour!Pair
<1>4. QED
  BY <1>2, <1>3, FS_Subset, FS_CardinalityType, FS_EmptySet, TourCounts

\* An extraction that yields no graph fails or is empty in one of two ways.
LEMMA NoGraphIn ==
    ASSUME Tour!TypeOK, NEW r \in 1..2
    PROVE  /\ area[r].kind = "failed" <=> area[r] = Tour!NoAnswer
           /\ area[r].kind # "snapped" /\ area[r] # Tour!NoAnswer => area[r] \in {Tour!NoNode, Tour!NoSnap}
           /\ area[r] \in {Tour!NoAnswer, Tour!NoNode, Tour!NoSnap} => area[r].kind # "snapped"
<1>1. area[r] \in Tour!Extraction
  BY DEF Tour!TypeOK
<1>2. QED
  BY <1>1 DEF Tour!Extraction, Tour!NoAnswer, Tour!NoNode, Tour!NoSnap

LEMMA TryKeeps == ASSUME Tour!IInv, Tour!Try PROVE Tour!IInv'
<1> DEFINE r == radius + 1
<1>1. /\ Tour!TypeOK /\ Tour!BestSoFar /\ order = Tour!Pending /\ r <= Tour!Last /\ (best # 0 => area[best].gaps # {})
      /\ radius' = r /\ UNCHANGED <<times, area, widens, start, roundtrip, keepOrder>>
      /\ area[r].kind = "snapped" => best' = Tour!Better(r) /\ order' = order
      /\ area[r].kind # "snapped" =>
            /\ best' = best
            /\ order' = IF area[r].kind = "failed" THEN Tour!Failed
                        ELSE IF r = Tour!Last /\ best = 0 THEN Tour!NoGraph ELSE Tour!Pending
  BY DEF Tour!Try, Tour!IInv, Tour!NoNode, Tour!NoSnap
<1>2. Tour!Last \in {1, 2} /\ radius \in 0..Tour!Last /\ best \in 0..radius /\ Tour!Last' = Tour!Last
  BY <1>1 DEF Tour!TypeOK, Tour!Last
<1>3. r \in 1..2 /\ radius \in Nat /\ best \in Nat /\ (best # 0 => best \in 1..2 /\ best \in 1..radius)
  BY <1>1, <1>2
<1>4. area[r].kind = "snapped" => best' \in {best, r} /\ best' # 0
  BY <1>1, <1>3 DEF Tour!Better
<1>5. order' \in {Tour!Pending, Tour!NoGraph, Tour!Failed} /\ ~Tour!Decided'
  BY <1>1 DEF Tour!Decided
<1>6. Tour!TypeOK'
  <2>1. best' \in 0..r /\ r \in 0..Tour!Last
    BY <1>1, <1>2, <1>3, <1>4
  <2> HIDE DEF r
  <2>2. QED
    BY <1>1, <1>2, <1>5, <2>1 DEF Tour!TypeOK
<1>7. Tour!BestSoFar'
  <2>1. best' # 0 => area[best'].kind = "snapped"
    <3>1. best # 0 => area[best].kind = "snapped"
      BY <1>1 DEF Tour!BestSoFar
    <3>2. QED
      BY <1>1, <1>4, <3>1
  <2>2. ASSUME NEW i \in 1..r, area[i].kind = "snapped"
        PROVE  best' # 0 /\ Tour!Cardinality(area[best'].gaps) <= Tour!Cardinality(area[i].gaps)
    <3>1. i \in 1..2 /\ (i = r \/ i \in 1..radius)
      BY <1>3
    <3>2. i \in 1..radius => best # 0 /\ Tour!Cardinality(area[best].gaps) <= Tour!Cardinality(area[i].gaps)
      BY <1>1, <2>2 DEF Tour!BestSoFar
    <3>3. /\ Tour!Cardinality(area[r].gaps) \in Nat /\ Tour!Cardinality(area[i].gaps) \in Nat
          /\ best # 0 => Tour!Cardinality(area[best].gaps) \in Nat
      BY <1>1, <1>3, <3>1, GapsCount
    <3> HIDE DEF r
    <3>4. CASE area[r].kind = "snapped"
      <4>1. CASE best # 0 /\ Tour!Cardinality(area[best].gaps) <= Tour!Cardinality(area[r].gaps)
        <5>1. best' = best
          BY <1>1, <3>4, <4>1 DEF Tour!Better
        <5>2. QED
          BY <3>1, <3>2, <4>1, <5>1
      <4>2. CASE ~(best # 0 /\ Tour!Cardinality(area[best].gaps) <= Tour!Cardinality(area[r].gaps))
        <5>1. best' = r
          BY <1>1, <3>4, <4>2 DEF Tour!Better
        <5>2. QED
          BY <1>4, <3>1, <3>2, <3>3, <3>4, <4>2, <5>1
      <4>3. QED
        BY <4>1, <4>2
    <3>5. CASE area[r].kind # "snapped"
      <4>1. i # r /\ best' = best
        BY <1>1, <2>2, <3>5
      <4>2. QED
        BY <3>1, <3>2, <4>1
    <3>6. QED
      BY <3>4, <3>5
  <2>3. ASSUME NEW i \in 1..(r - 1) PROVE ~Tour!Complete(i)
    <3>1. i \in 1..(radius - 1) \/ (i = radius /\ radius \in 1..2)
      BY <1>1, <1>2, <2>3
    <3>2. CASE i \in 1..(radius - 1)
      BY <1>1, <3>2 DEF Tour!BestSoFar
    <3>3. CASE i = radius /\ radius \in 1..2
      <4>1. SUFFICES ASSUME Tour!Complete(i) PROVE FALSE
        OBVIOUS
      <4>2. area[i].kind = "snapped" /\ area[i].gaps = {} /\ i \in 1..radius
        BY <3>3, <4>1 DEF Tour!Complete
      <4>3. best # 0 /\ Tour!Cardinality(area[best].gaps) <= Tour!Cardinality(area[i].gaps)
        BY <1>1, <4>2 DEF Tour!BestSoFar
      <4>4. Tour!Cardinality(area[i].gaps) = 0
        BY <1>1, <3>3, <4>2, GapsCount
      <4>5. Tour!Cardinality(area[best].gaps) \in Nat /\ (area[best].gaps = {} <=> Tour!Cardinality(area[best].gaps) = 0)
        BY <1>1, <1>3, <4>3, GapsCount
      <4>6. QED
        BY <1>1, <4>3, <4>4, <4>5
    <3>4. QED
      BY <3>1, <3>2, <3>3
  <2>4. \A i : Tour!Complete(i)' <=> Tour!Complete(i)
    BY <1>1 DEF Tour!Complete
  <2> HIDE DEF r
  <2>5. QED
    BY <1>1, <2>1, <2>2, <2>3, <2>4 DEF Tour!BestSoFar
<1>8. Tour!EndsInTime'
  <2>1. Tour!Pending # Tour!NoGraph /\ Tour!Pending # Tour!Failed /\ Tour!NoGraph # Tour!Failed
    BY DEF Tour!Pending, Tour!NoGraph, Tour!Failed
  <2>2. area[r].kind = "failed" <=> area[r] = Tour!NoAnswer
    BY <1>1, <1>3, NoGraphIn
  <2>3. \A i \in 1..radius : area[i] # Tour!NoAnswer
    BY <1>1, <2>1 DEF Tour!IInv, Tour!EndsInTime
  <2>4. \A i \in 1..r : i = r \/ i \in 1..radius
    BY <1>3
  <2> HIDE DEF r
  <2>5. order' = Tour!NoGraph => r = Tour!Last /\ best' = 0
    BY <1>1, <2>1
  <2>6. order' = Tour!Failed <=> area[r] = Tour!NoAnswer
    BY <1>1, <2>1, <2>2
  <2>7. QED
    BY <1>1, <1>2, <1>3, <1>5, <2>3, <2>4, <2>5, <2>6 DEF Tour!EndsInTime
<1>9. Tour!OrderIsOptimal'
  BY <1>5 DEF Tour!OrderIsOptimal
<1>10. QED
  BY <1>6, <1>7, <1>8, <1>9 DEF Tour!IInv

LEMMA DecideKeeps == ASSUME Tour!IInv, Tour!Decide PROVE Tour!IInv'
<1>1. /\ Tour!TypeOK /\ Tour!BestSoFar /\ best # 0 /\ (area[best].gaps = {} \/ radius = Tour!Last)
      /\ UNCHANGED <<times, area, widens, start, roundtrip, keepOrder, radius, best>>
      /\ order' = IF keepOrder THEN [i \in Tour!Stop |-> i] ELSE Tour!SolveTsp
  BY DEF Tour!Decide, Tour!IInv
<1>2. /\ Tour!SolveTsp \in Tour!Tours
      /\ \A t \in Tour!Tours : \/ Tour!TourCost(Tour!SolveTsp) < Tour!TourCost(t)
                               \/ Tour!TourCost(Tour!SolveTsp) = Tour!TourCost(t) /\ ~Tour!LexLess(t, Tour!SolveTsp)
  BY <1>1, SolveTspIsBest
<1>3. order' \in [Tour!Stop -> Tour!Stop]
  BY <1>1, <1>2 DEF Tour!Tours
<1>4. order' \notin {Tour!Pending, Tour!NoGraph, Tour!Failed}
  <2>1. \A f \in [Tour!Stop -> Tour!Stop] : DOMAIN f = 1..StopCount /\ 2 \in 1..StopCount
    BY StopFacts DEF Tour!Stop
  <2>2. \A t \in {Tour!Pending, Tour!NoGraph, Tour!Failed} : 2 \notin DOMAIN t
    BY DEF Tour!Pending, Tour!NoGraph, Tour!Failed
  <2>3. QED
    BY <1>3, <2>1, <2>2
<1>5. Tour!TypeOK'
  BY <1>1, <1>3 DEF Tour!TypeOK, Tour!Last
<1>6. Tour!BestSoFar'
  BY <1>1 DEF Tour!BestSoFar, Tour!Complete
<1>7. Tour!EndsInTime'
  <2>1. \A r \in 1..radius : area[r] # Tour!NoAnswer
    BY DEF Tour!IInv, Tour!EndsInTime, Tour!Decide, Tour!Pending, Tour!Failed
  <2>2. QED
    BY <1>1, <1>4, <2>1 DEF Tour!EndsInTime, Tour!Last
<1>8. Tour!OrderIsOptimal'
  <2>1. \A i, j : Tour!Cost(i, j)' = Tour!Cost(i, j)
    BY <1>1 DEF Tour!Cost
  <2>2. Tour!Costs' = Tour!Costs
    BY <2>1 DEF Tour!Costs
  <2>3. Tour!Tours' = Tour!Tours
    BY <1>1 DEF Tour!Tours
  <2>4. \A t : Tour!TourCost(t)' = Tour!TourCost(t)
    BY <1>1, <2>1, <2>2 DEF Tour!TourCost
  <2>5. SUFFICES ASSUME ~keepOrder
        PROVE  /\ Tour!SolveTsp \in Tour!Tours
               /\ \A t \in Tour!Tours : \/ Tour!TourCost(order)' < Tour!TourCost(t)'
                                        \/ Tour!TourCost(order)' = Tour!TourCost(t)' /\ ~Tour!LexLess(t, order')
    BY <1>1, <2>3 DEF Tour!OrderIsOptimal
  <2>6. order' = Tour!SolveTsp
    BY <1>1, <2>5
  <2>7. Tour!TourCost(order)' = Tour!TourCost(Tour!SolveTsp)
    BY <1>1, <2>1, <2>2, <2>6 DEF Tour!TourCost
  <2>8. QED
    BY <1>2, <2>4, <2>6, <2>7
<1>9. QED
  BY <1>5, <1>6, <1>7, <1>8 DEF Tour!IInv

LEMMA TourStays == ASSUME Tour!IInv, UNCHANGED Tour!vars PROVE Tour!IInv'
<1>1. UNCHANGED <<times, area, widens, start, roundtrip, keepOrder, radius, best, order>>
  BY DEF Tour!vars
<1>2. \A i, j : Tour!Cost(i, j)' = Tour!Cost(i, j)
  BY <1>1 DEF Tour!Cost
<1>3. Tour!Costs' = Tour!Costs
  BY <1>2 DEF Tour!Costs
<1>4. Tour!Tours' = Tour!Tours /\ \A t : Tour!TourCost(t)' = Tour!TourCost(t)
  BY <1>1, <1>2, <1>3 DEF Tour!Tours, Tour!TourCost
<1>5. Tour!OrderIsOptimal'
  BY <1>1, <1>4 DEF Tour!IInv, Tour!OrderIsOptimal, Tour!Decided
<1>6. Tour!TypeOK' /\ Tour!BestSoFar' /\ Tour!EndsInTime'
  BY <1>1 DEF Tour!IInv, Tour!TypeOK, Tour!Last, Tour!BestSoFar, Tour!Complete, Tour!EndsInTime, Tour!Decided
<1>7. QED
  BY <1>5, <1>6 DEF Tour!IInv

\* The matrix that was kept is the best of all that could be made, and an error
\* ends the call only where it had to be asked for.
LEMMA TourHolds == ASSUME Tour!IInv PROVE Tour!TypeOK /\ Tour!ToursAreBest
<1>1. Tour!TypeOK /\ Tour!BestSoFar /\ Tour!EndsInTime /\ Tour!OrderIsOptimal
  BY DEF Tour!IInv
<1>2. Tour!Last \in {1, 2} /\ radius \in 0..Tour!Last /\ best \in 0..radius
  BY <1>1 DEF Tour!TypeOK, Tour!Last
<1>3. ASSUME order = Tour!NoGraph, NEW r \in 1..Tour!Last PROVE area[r] \in {Tour!NoNode, Tour!NoSnap}
  <2>1. radius = Tour!Last /\ best = 0 /\ order # Tour!Failed
    BY <1>1, <1>3 DEF Tour!EndsInTime, Tour!NoGraph, Tour!Failed
  <2>2. area[r].kind # "snapped" /\ area[r] # Tour!NoAnswer
    BY <1>1, <1>3, <2>1 DEF Tour!EndsInTime, Tour!BestSoFar
  <2>3. r \in 1..2
    BY <1>2, <1>3
  <2>4. QED
    BY <1>1, <2>2, <2>3, NoGraphIn
<1>4. ASSUME order = Tour!Failed
      PROVE  \E r \in 1..Tour!Last : area[r] = Tour!NoAnswer /\ \A s \in 1..(r - 1) : ~Tour!Complete(s)
  <2>1. radius \in 1..Tour!Last /\ area[radius] = Tour!NoAnswer
    BY <1>1, <1>2, <1>4 DEF Tour!EndsInTime
  <2>2. \A s \in 1..(radius - 1) : ~Tour!Complete(s)
    BY <1>1 DEF Tour!BestSoFar
  <2>3. QED
    BY <2>1, <2>2
<1>5. ASSUME Tour!Decided PROVE best \in Tour!Usable
  BY <1>1, <1>2, <1>5 DEF Tour!EndsInTime, Tour!BestSoFar, Tour!Usable
<1>6. ASSUME Tour!Decided, NEW r \in Tour!Usable
      PROVE  Tour!Cardinality(area[best].gaps) <= Tour!Cardinality(area[r].gaps)
  <2>1. r \in 1..2 /\ best \in 1..2 /\ r \in 1..Tour!Last /\ area[r].kind = "snapped"
    BY <1>2, <1>5, <1>6 DEF Tour!Usable
  <2>2. CASE radius = Tour!Last
    BY <1>1, <2>1, <2>2 DEF Tour!BestSoFar
  <2>3. CASE area[best].gaps = {}
    BY <1>1, <2>1, <2>3, GapsCount
  <2>4. QED
    BY <1>1, <1>6, <2>2, <2>3 DEF Tour!EndsInTime
<1>7. ASSUME Tour!Decided PROVE Tour!Complete(best) \/ \A r \in 1..Tour!Last : area[r] # Tour!NoAnswer
  <2>1. area[best].kind = "snapped"
    BY <1>5, <1>7 DEF Tour!Usable
  <2>2. CASE area[best].gaps = {}
    BY <2>1, <2>2 DEF Tour!Complete
  <2>3. CASE radius = Tour!Last
    BY <1>1, <1>7, <2>3 DEF Tour!EndsInTime, Tour!Decided
  <2>4. QED
    BY <1>1, <1>7, <2>2, <2>3 DEF Tour!EndsInTime
<1>8. QED
  BY <1>1, <1>3, <1>4, <1>5, <1>6, <1>7 DEF Tour!ToursAreBest, Tour!BestGraphIsUsed

\* For any number of stops, times, estimates, gaps and failures of the upstream:
\* no graph is near only if no radius connects the stops to the streets; the call
\* fails for its upstream only if a radius failed that no complete matrix had
\* made needless; it answers from the graph that leaves the fewest pairs to be
\* estimated; and the order is a tour from the start that takes the least time of
\* all tours, the way back included, and the first of those that take the same.
THEOREM Best == MCSpec => []TourIsBest
<1> DEFINE Inv == part = "tour" => Tour!IInv
<1>1. MCInit => Inv
  BY TourInit DEF MCInit
<1>2. Inv /\ [MCNext]_MCVars => Inv'
  <2> SUFFICES ASSUME Tour!IInv, [MCNext]_MCVars, part = "tour" PROVE Tour!IInv'
    BY DEF MCNext, MCVars
  <2>1. Tour!Next \/ UNCHANGED Tour!vars
    BY DEF MCNext, MCVars, tourVars, Tour!vars
  <2>2. QED
    BY <2>1, TryKeeps, DecideKeeps, TourStays DEF Tour!Next
<1>3. Inv => TourIsBest
  BY TourHolds DEF TourIsBest
<1> HIDE DEF Inv
<1>4. QED
  BY <1>1, <1>2, <1>3, PTL DEF MCSpec

(***************************************************************************)
(* StreetNetwork.  Names and shapes follow the arcs as they are added, one *)
(* by one; the arcs of a segment lead out of no set of nodes that its      *)
(* legal moves do not lead out of, and the other way round; and what a     *)
(* point may snap to is a whole component.                                 *)
(***************************************************************************)

\* What is assumed of the constants of the part.
LEMMA NetworkAssumed == Network!Assumptions
BY PartsAssumption

\* The module StreetNetwork counts as this one does.
LEMMA NetworkCounts ==
    /\ \A S : Network!IsFiniteSet(S) <=> IsFiniteSet(S)
    /\ \A S : Network!Cardinality(S) = Cardinality(S)
<1>1. \A S : Network!IsFiniteSet(S) <=> IsFiniteSet(S)
  BY DEF Network!IsFiniteSet, IsFiniteSet
<1>2. \A S : Network!Cardinality(S) = Cardinality(S)
  BY DEF Network!Cardinality, Cardinality, Network!IsFiniteSet, IsFiniteSet
<1>3. QED
  BY <1>1, <1>2

(* Sorting, and adding arcs one by one.                                    *)

Increasing(q, n) == \A i, j \in 1..n : i < j => q[i] < q[j]

\* A finite set of numbers can be listed from the least to the greatest.
LEMMA SortedExists ==
    ASSUME NEW S \in SUBSET Nat, IsFiniteSet(S)
    PROVE  \E q \in [1..Cardinality(S) -> S] : Increasing(q, Cardinality(S))
<1> DEFINE has(n) == \A T \in SUBSET Nat : IsFiniteSet(T) /\ Cardinality(T) = n => \E q \in [1..n -> T] : Increasing(q, n)
           bad == {n \in Nat : ~has(n)}
<1>1. Cardinality(S) \in Nat
  BY FS_CardinalityType
<1>2. SUFFICES ASSUME bad # {} PROVE FALSE
  BY <1>1
<1> HIDE DEF has
<1>3. PICK n \in bad : \A m \in bad : n <= m
  <2>1. bad \in SUBSET Nat
    OBVIOUS
  <2> HIDE DEF bad
  <2>2. QED
    BY <1>2, <2>1, LeastNumber
<1>4. n \in Nat /\ \A m \in Nat : m < n => has(m)
  BY <1>3
<1>5. ASSUME NEW T \in SUBSET Nat, IsFiniteSet(T), Cardinality(T) = n
      PROVE  \E q \in [1..n -> T] : Increasing(q, n)
  <2>1. CASE n = 0
    <3>1. [i \in 1..0 |-> 0] \in [1..n -> T] /\ Increasing([i \in 1..0 |-> 0], n)
      BY <2>1 DEF Increasing
    <3>2. QED
      BY <3>1
  <2>2. CASE n # 0
    <3>1. T # {}
      BY <1>5, <2>2, FS_EmptySet
    <3>2. PICK m \in T : \A x \in T : m <= x
      BY <3>1, LeastNumber
    <3>3. IsFiniteSet(T \ {m}) /\ Cardinality(T \ {m}) = n - 1
      BY <1>5, <3>2, FS_RemoveElement
    <3>4. T \ {m} \in SUBSET Nat /\ n - 1 \in Nat /\ n - 1 < n
      BY <1>4, <2>2
    <3>5. PICK q \in [1..(n - 1) -> T \ {m}] : Increasing(q, n - 1)
      BY <1>4, <3>3, <3>4 DEF has
    <3> DEFINE r == [i \in 1..n |-> IF i = 1 THEN m ELSE q[i - 1]]
    <3>6. \A i \in 1..n : i # 1 => i - 1 \in 1..(n - 1) /\ q[i - 1] \in T \ {m}
      BY <1>4
    <3>7. r \in [1..n -> T]
      BY <3>2, <3>6
    <3>8. ASSUME NEW i \in 1..n, NEW j \in 1..n, i < j PROVE r[i] < r[j]
      <4>1. j # 1 /\ r[j] = q[j - 1] /\ q[j - 1] \in T \ {m} /\ j - 1 \in 1..(n - 1)
        BY <3>6, <3>8
      <4>2. CASE i = 1
        <5>1. r[i] = m /\ m <= q[j - 1] /\ m # q[j - 1] /\ m \in Nat /\ q[j - 1] \in Nat
          BY <3>2, <4>1, <4>2
        <5> HIDE DEF r
        <5>2. QED
          BY <4>1, <5>1
      <4>3. CASE i # 1
        <5>1. r[i] = q[i - 1] /\ i - 1 \in 1..(n - 1) /\ i - 1 < j - 1
          BY <3>6, <3>8, <4>3
        <5> HIDE DEF r
        <5>2. QED
          BY <3>5, <4>1, <5>1 DEF Increasing
      <4>4. QED
        BY <4>2, <4>3
    <3> HIDE DEF r
    <3>9. Increasing(r, n)
      BY <3>8 DEF Increasing
    <3>10. QED
      BY <3>7, <3>9
  <2>3. QED
    BY <2>1, <2>2
<1>6. has(n)
  BY <1>5 DEF has
<1>7. QED
  BY <1>3, <1>6

\* What Sorted lists: the members of the set, each once, in their order.
LEMMA SortedIs ==
    ASSUME NEW S \in SUBSET Nat, IsFiniteSet(S)
    PROVE  /\ Cardinality(S) \in Nat
           /\ Network!Sorted(S) \in [1..Cardinality(S) -> S]
           /\ \A i, j \in 1..Cardinality(S) : i < j => Network!Sorted(S)[i] < Network!Sorted(S)[j]
           /\ \A x \in S : \E i \in 1..Cardinality(S) : Network!Sorted(S)[i] = x
<1> DEFINE n == Cardinality(S)
           q == Network!Sorted(S)
<1>1. n \in Nat
  BY FS_CardinalityType
<1>2. q \in [1..n -> S] /\ \A i, j \in 1..n : i < j => q[i] < q[j]
  BY SortedExists, NetworkCounts DEF Network!Sorted, Increasing
<1> HIDE DEF q
<1>3. q \in Injection(1..n, S)
  <2>1. ASSUME NEW i \in 1..n, NEW j \in 1..n, q[i] = q[j] PROVE i = j
    <3>1. q[i] \in Nat /\ q[j] \in Nat
      BY <1>2
    <3>2. ~(i < j) /\ ~(j < i)
      BY <1>2, <2>1, <3>1
    <3>3. QED
      BY <1>1, <3>2
  <2>2. QED
    BY <1>2, <2>1 DEF Injection, IsInjective
<1>4. Cardinality(1..n) = n
  BY <1>1, FS_Interval
<1>5. q \in Surjection(1..n, S)
  BY <1>3, <1>4, FS_Injection
<1>6. \A x \in S : \E i \in 1..n : q[i] = x
  BY <1>5 DEF Surjection
<1>7. QED
  BY <1>1, <1>2, <1>6 DEF q

\* What adding a sequence of arcs comes to.
Grows(f, g, new, n) == \A k \in 0..n : f[k] = IF k = 0 THEN g ELSE Network!AddArc(f[k - 1], new[k])

Growth(f, g, new, n) == [k \in 0..n |-> IF k = 0 THEN g ELSE Network!AddArc(f[k - 1], new[k])]

\* The graphs after each of a sequence of arcs are the values of a function.
LEMMA GrowthExists ==
    ASSUME NEW g, NEW new, NEW n \in Nat
    PROVE  \E f : f = Growth(f, g, new, n)
<1> USE DEF Growth
<1> DEFINE body(f, m) == Growth(f, g, new, m)
           has(m) == \E f : f = body(f, m)
           bad == {m \in Nat : ~has(m)}
<1>1. SUFFICES ASSUME bad # {} PROVE FALSE
  OBVIOUS
<1>2. PICK m \in bad : \A j \in bad : m <= j
  <2>1. bad \in SUBSET Nat
    OBVIOUS
  <2> HIDE DEF bad
  <2>2. QED
    BY <1>1, <2>1, LeastNumber
<1>3. m \in Nat /\ \A j \in Nat : j < m => has(j)
  <2> HIDE DEF has
  <2>1. QED
    BY <1>2
<1>4. CASE m = 0
  <2>1. [k \in 0..0 |-> g] = body([k \in 0..0 |-> g], 0)
    OBVIOUS
  <2>2. QED
    BY <1>2, <1>4, <2>1
<1>5. CASE m # 0
  <2>1. m - 1 \in Nat /\ m - 1 < m
    BY <1>3, <1>5
  <2> HIDE DEF has
  <2>2. has(m - 1)
    BY <1>3, <2>1
  <2>3. PICK f : f = body(f, m - 1)
    BY <2>2 DEF has
  <2> DEFINE h == [k \in 0..m |-> IF k = m THEN Network!AddArc(f[m - 1], new[m]) ELSE f[k]]
  <2>4. ASSUME NEW k \in 0..m PROVE h[k] = IF k = 0 THEN g ELSE Network!AddArc(h[k - 1], new[k])
    <3>1. CASE k = m
      <4>1. h[k - 1] = f[m - 1]
        BY <1>3, <1>5, <3>1
      <4> HIDE DEF h
      <4>2. h[k] = Network!AddArc(f[m - 1], new[m])
        BY <3>1 DEF h
      <4>3. QED
        BY <1>5, <3>1, <4>1, <4>2
    <3>2. CASE k # m
      <4>1. k \in 0..(m - 1)
        BY <1>3, <3>2
      <4>2. f[k] = IF k = 0 THEN g ELSE Network!AddArc(f[k - 1], new[k])
        BY <2>3, <4>1
      <4>3. h[k] = f[k] /\ (k # 0 => h[k - 1] = f[k - 1])
        BY <1>3, <3>2, <4>1
      <4> HIDE DEF h
      <4>4. QED
        BY <4>2, <4>3
    <3>3. QED
      BY <3>1, <3>2
  <2>5. h = body(h, m)
    <3>1. body(h, m) = [k \in 0..m |-> h[k]]
      <4> HIDE DEF h
      <4>1. QED
        BY <2>4
    <3>2. h = [k \in 0..m |-> h[k]]
      OBVIOUS
    <3> HIDE DEF h, body
    <3>3. QED
      BY <3>1, <3>2
  <2> HIDE DEF h
  <2>6. has(m)
    BY <2>5 DEF has
  <2>7. QED
    BY <1>2, <2>6
<1>6. QED
  BY <1>4, <1>5

\* Adding a sequence of arcs is adding them one after the other.
LEMMA AddAllIs ==
    ASSUME NEW g, NEW new, Len(new) \in Nat
    PROVE  \E f : Grows(f, g, new, Len(new)) /\ Network!AddAll(g, new) = f[Len(new)]
<1> DEFINE F == CHOOSE f : f = Growth(f, g, new, Len(new))
<1>1. F = Growth(F, g, new, Len(new))
  BY GrowthExists
<1>2. Network!AddAll(g, new) = F[Len(new)]
  BY DEF Network!AddAll, Growth
<1> HIDE DEF F
<1>3. Grows(F, g, new, Len(new))
  BY <1>1 DEF Grows, Growth
<1>4. QED
  BY <1>2, <1>3

\* A graph whose names and shapes follow its arcs.
Good(g) ==
    /\ g.arcs \in Seq(Network!Arc) /\ g.names \in [Network!Pair -> Network!Label]
    /\ DOMAIN g.shapes \subseteq Network!Pair /\ \A p \in DOMAIN g.shapes : g.shapes[p] \in Network!Shape
    /\ \A p \in Network!Pair : Network!SlotKept(g, p)

Proper(E) == {e \in E : e[1] # e[2]}

\* An arc is appended, and leaves the slots of all other pairs alone.
LEMMA AddArcAppends ==
    ASSUME NEW g, Good(g), NEW a \in Network!Arc, a.from # a.to
    PROVE  /\ Network!AddArc(g, a).arcs = Append(g.arcs, a)
           /\ Network!AddArc(g, a).names \in [Network!Pair -> Network!Label]
           /\ DOMAIN Network!AddArc(g, a).shapes \subseteq Network!Pair
           /\ \A p \in DOMAIN Network!AddArc(g, a).shapes : Network!AddArc(g, a).shapes[p] \in Network!Shape
           /\ \A p \in Network!Pair : p # <<a.from, a.to>> =>
                 /\ Network!AddArc(g, a).names[p] = g.names[p]
                 /\ p \in DOMAIN Network!AddArc(g, a).shapes <=> p \in DOMAIN g.shapes
                 /\ Network!AddArc(g, a).shapes[p] = g.shapes[p] \/ p \notin DOMAIN g.shapes
<1> DEFINE p == <<a.from, a.to>>
           shape == [weight |-> a.weight, line |-> a.line, back |-> a.back]
           h == Network!AddArc(g, a)
<1>1. p \in Network!Pair /\ shape \in Network!Shape /\ a.name \in Network!Label
  BY DEF Network!Arc, Network!Pair, Network!Shape
<1>2. /\ h.arcs = Append(g.arcs, a)
      /\ h.names = IF \E i \in Network!Between(g, p) : g.arcs[i].weight <= a.weight THEN g.names
                   ELSE [g.names EXCEPT ![p] = a.name]
      /\ h.shapes = IF p \in DOMAIN g.shapes /\ g.shapes[p].weight <= a.weight THEN g.shapes
                    ELSE [q \in DOMAIN g.shapes \cup {p} |-> IF q = p THEN shape ELSE g.shapes[q]]
  BY DEF Network!AddArc
<1> HIDE DEF p, shape, h
<1>3. h.names \in [Network!Pair -> Network!Label] /\ \A q \in Network!Pair : q # p => h.names[q] = g.names[q]
  <2>1. g.names \in [Network!Pair -> Network!Label]
    BY DEF Good
  <2>2. CASE \E i \in Network!Between(g, p) : g.arcs[i].weight <= a.weight
    BY <1>2, <2>1, <2>2
  <2>3. CASE ~\E i \in Network!Between(g, p) : g.arcs[i].weight <= a.weight
    <3>1. h.names = [g.names EXCEPT ![p] = a.name]
      BY <1>2, <2>3
    <3>2. QED
      BY <1>1, <2>1, <3>1
  <2>4. QED
    BY <2>2, <2>3
<1>4. /\ DOMAIN h.shapes \subseteq Network!Pair
      /\ \A q \in DOMAIN h.shapes : h.shapes[q] \in Network!Shape
      /\ \A q \in Network!Pair : q # p => /\ q \in DOMAIN h.shapes <=> q \in DOMAIN g.shapes
                                          /\ h.shapes[q] = g.shapes[q] \/ q \notin DOMAIN g.shapes
  <2>1. DOMAIN g.shapes \subseteq Network!Pair /\ \A q \in DOMAIN g.shapes : g.shapes[q] \in Network!Shape
    BY DEF Good
  <2>2. CASE p \in DOMAIN g.shapes /\ g.shapes[p].weight <= a.weight
    BY <1>2, <2>1, <2>2
  <2>3. CASE ~(p \in DOMAIN g.shapes /\ g.shapes[p].weight <= a.weight)
    <3>1. h.shapes = [q \in DOMAIN g.shapes \cup {p} |-> IF q = p THEN shape ELSE g.shapes[q]]
      BY <1>2, <2>3
    <3>2. QED
      BY <1>1, <2>1, <3>1
  <2>4. QED
    BY <2>2, <2>3
<1>5. QED
  BY <1>2, <1>3, <1>4 DEF p, h

\* After an arc the slots of a pair follow the earliest of its lightest arcs.
LEMMA AddArcSlot ==
    ASSUME NEW g, Good(g), NEW a \in Network!Arc, a.from # a.to, NEW p \in Network!Pair
    PROVE  Network!SlotKept(Network!AddArc(g, a), p)
<1> DEFINE q == <<a.from, a.to>>
           h == Network!AddArc(g, a)
           n == Len(g.arcs)
<1>1. g.arcs \in Seq(Network!Arc) /\ n \in Nat /\ Network!SlotKept(g, p)
  BY DEF Good
<1>2. /\ h.arcs = Append(g.arcs, a)
      /\ p # q => /\ h.names[p] = g.names[p]
                  /\ p \in DOMAIN h.shapes <=> p \in DOMAIN g.shapes
                  /\ h.shapes[p] = g.shapes[p] \/ p \notin DOMAIN g.shapes
  BY AddArcAppends
<1>3. /\ DOMAIN h.arcs = 1..(n + 1) /\ DOMAIN g.arcs = 1..n
      /\ h.arcs[n + 1] = a /\ \A i \in 1..n : h.arcs[i] = g.arcs[i] /\ g.arcs[i] \in Network!Arc
  BY <1>1, <1>2
<1>4. \A i \in 1..n : g.arcs[i].weight \in Nat
  BY <1>3 DEF Network!Arc
<1>5. a.weight \in Nat /\ q \in Network!Pair
  BY DEF Network!Arc, Network!Pair
<1>6. /\ h.names = IF \E i \in Network!Between(g, q) : g.arcs[i].weight <= a.weight THEN g.names
                   ELSE [g.names EXCEPT ![q] = a.name]
      /\ h.shapes = IF q \in DOMAIN g.shapes /\ g.shapes[q].weight <= a.weight THEN g.shapes
                    ELSE [r \in DOMAIN g.shapes \cup {q} |->
                            IF r = q THEN [weight |-> a.weight, line |-> a.line, back |-> a.back] ELSE g.shapes[r]]
  BY DEF Network!AddArc
<1>7. g.names \in [Network!Pair -> Network!Label]
  BY DEF Good
<1> SUFFICES Network!SlotKept(h, p)
  OBVIOUS
<1> HIDE DEF h, n
<1>8. /\ \A i \in 1..n : i \in Network!Between(h, p) <=> i \in Network!Between(g, p)
      /\ n + 1 \in Network!Between(h, p) <=> p = q
      /\ \A i \in Network!Between(h, p) : i \in 1..n \/ i = n + 1
      /\ \A i \in Network!Between(g, p) : i \in 1..n
  BY <1>1, <1>3 DEF Network!Between
<1> HIDE DEF q
<1>9. CASE p # q
  <2>1. Network!Between(h, p) = Network!Between(g, p)
    BY <1>8, <1>9
  <2>2. CASE Network!Between(g, p) = {}
    BY <1>1, <1>2, <1>9, <2>1, <2>2 DEF Network!SlotKept
  <2>3. CASE Network!Between(g, p) # {}
    <3>1. PICK i \in 1..n : Network!Lightest(g, p, i) /\ Network!HasSlot(g, p, g.arcs[i])
      BY <1>1, <1>3, <2>3 DEF Network!SlotKept
    <3>2. Network!Lightest(h, p, i)
      BY <1>3, <1>8, <2>1, <3>1 DEF Network!Lightest
    <3>3. Network!HasSlot(h, p, h.arcs[i])
      BY <1>2, <1>3, <1>9, <3>1 DEF Network!HasSlot
    <3>4. i \in DOMAIN h.arcs
      BY <1>1, <1>3
    <3>5. QED
      BY <2>1, <2>3, <3>2, <3>3, <3>4 DEF Network!SlotKept
  <2>4. QED
    BY <2>2, <2>3
<1>10. CASE p = q /\ \E i \in Network!Between(g, p) : g.arcs[i].weight <= a.weight
  <2>1. PICK j \in Network!Between(g, p) : g.arcs[j].weight <= a.weight
    BY <1>10
  <2>2. PICK i \in 1..n : Network!Lightest(g, p, i) /\ Network!HasSlot(g, p, g.arcs[i])
    BY <1>1, <1>3, <2>1 DEF Network!SlotKept
  <2>3. g.arcs[i].weight <= a.weight
    <3>1. j \in 1..n
      BY <1>8, <2>1
    <3>2. g.arcs[i].weight <= g.arcs[j].weight
      BY <1>4, <2>1, <2>2, <3>1 DEF Network!Lightest
    <3>3. QED
      BY <1>4, <1>5, <2>1, <3>1, <3>2
  <2>4. p \in DOMAIN g.shapes /\ g.shapes[p].weight = g.arcs[i].weight
    BY <2>2 DEF Network!HasSlot
  <2>5. h.names = g.names /\ h.shapes = g.shapes
    BY <1>6, <1>10, <2>3, <2>4
  <2>6. Network!HasSlot(h, p, h.arcs[i])
    BY <1>3, <2>2, <2>5 DEF Network!HasSlot
  <2>7. Network!Lightest(h, p, i)
    <3>1. i \in Network!Between(h, p)
      BY <1>8, <2>2 DEF Network!Lightest
    <3>2. ASSUME NEW k \in Network!Between(h, p)
          PROVE  h.arcs[i].weight < h.arcs[k].weight \/ (h.arcs[i].weight = h.arcs[k].weight /\ i <= k)
      <4>1. CASE k \in 1..n
        <5>1. k \in Network!Between(g, p)
          BY <1>8, <3>2, <4>1
        <5>2. QED
          BY <1>3, <2>2, <4>1, <5>1 DEF Network!Lightest
      <4>2. CASE k = n + 1
        <5>1. h.arcs[k] = a /\ h.arcs[i] = g.arcs[i] /\ i <= k
          BY <1>1, <1>3, <4>2
        <5>2. QED
          BY <1>4, <1>5, <2>3, <5>1
      <4>3. QED
        BY <1>8, <4>1, <4>2
    <3>3. QED
      BY <3>1, <3>2 DEF Network!Lightest
  <2>8. i \in DOMAIN h.arcs /\ Network!Between(h, p) # {}
    BY <1>1, <1>3, <2>7 DEF Network!Lightest
  <2>9. QED
    BY <2>6, <2>7, <2>8 DEF Network!SlotKept
<1>11. CASE p = q /\ ~\E i \in Network!Between(g, p) : g.arcs[i].weight <= a.weight
  <2>1. ~(p \in DOMAIN g.shapes /\ g.shapes[p].weight <= a.weight)
    <3>1. CASE Network!Between(g, p) = {}
      BY <1>1, <3>1 DEF Network!SlotKept
    <3>2. CASE Network!Between(g, p) # {}
      <4>1. PICK i \in 1..n : Network!Lightest(g, p, i) /\ Network!HasSlot(g, p, g.arcs[i])
        BY <1>1, <1>3, <3>2 DEF Network!SlotKept
      <4>2. i \in Network!Between(g, p) /\ g.shapes[p].weight = g.arcs[i].weight
        BY <4>1 DEF Network!Lightest, Network!HasSlot
      <4>3. QED
        BY <1>11, <4>2
    <3>3. QED
      BY <3>1, <3>2
  <2>2. h.names = [g.names EXCEPT ![p] = a.name]
    BY <1>6, <1>11
  <2>3. h.shapes = [r \in DOMAIN g.shapes \cup {q} |->
                      IF r = q THEN [weight |-> a.weight, line |-> a.line, back |-> a.back] ELSE g.shapes[r]]
    BY <1>6, <1>11, <2>1
  <2>4. Network!HasSlot(h, p, h.arcs[n + 1])
    <3>1. h.names[p] = a.name
      BY <1>7, <2>2
    <3>2. p \in DOMAIN h.shapes /\ h.shapes[p] = [weight |-> a.weight, line |-> a.line, back |-> a.back]
      BY <1>11, <2>3
    <3>3. QED
      BY <1>3, <3>1, <3>2 DEF Network!HasSlot
  <2>5. Network!Lightest(h, p, n + 1)
    <3>1. n + 1 \in Network!Between(h, p)
      BY <1>8, <1>11
    <3>2. ASSUME NEW k \in Network!Between(h, p)
          PROVE  h.arcs[n + 1].weight < h.arcs[k].weight \/ (h.arcs[n + 1].weight = h.arcs[k].weight /\ n + 1 <= k)
      <4>1. CASE k \in 1..n
        <5>1. k \in Network!Between(g, p) /\ h.arcs[k] = g.arcs[k]
          BY <1>3, <1>8, <3>2, <4>1
        <5>2. ~(g.arcs[k].weight <= a.weight)
          BY <1>11, <5>1
        <5>3. QED
          BY <1>3, <1>4, <1>5, <4>1, <5>1, <5>2
      <4>2. CASE k = n + 1
        BY <1>1, <4>2
      <4>3. QED
        BY <1>8, <4>1, <4>2
    <3>3. QED
      BY <3>1, <3>2 DEF Network!Lightest
  <2>6. n + 1 \in DOMAIN h.arcs /\ Network!Between(h, p) # {}
    BY <1>1, <1>3, <2>5 DEF Network!Lightest
  <2>7. QED
    BY <2>4, <2>5, <2>6 DEF Network!SlotKept
<1>12. QED
  BY <1>9, <1>10, <1>11

\* An arc keeps a graph good, and adds the move between two nodes that it is.
LEMMA AddArcKeeps ==
    ASSUME NEW g, Good(g), NEW a \in Network!Arc
    PROVE  /\ Good(Network!AddArc(g, a))
           /\ Network!Ends(Network!AddArc(g, a).arcs) = Network!Ends(g.arcs) \cup Proper({<<a.from, a.to>>})
<1>1. CASE a.from = a.to
  <2>1. Network!AddArc(g, a) = g /\ Proper({<<a.from, a.to>>}) = {}
    BY <1>1 DEF Network!AddArc, Proper
  <2>2. QED
    BY <2>1
<1>2. CASE a.from # a.to
  <2> DEFINE h == Network!AddArc(g, a)
             n == Len(g.arcs)
  <2>1. h.arcs = Append(g.arcs, a) /\ g.arcs \in Seq(Network!Arc) /\ n \in Nat
    BY <1>2, AddArcAppends DEF Good
  <2> HIDE DEF h, n
  <2>2. h.arcs \in Seq(Network!Arc)
    BY <2>1
  <2>3. Good(h)
    BY <1>2, <2>2, AddArcAppends, AddArcSlot DEF Good, h
  <2>4. /\ DOMAIN h.arcs = 1..(n + 1) /\ DOMAIN g.arcs = 1..n
        /\ h.arcs[n + 1] = a /\ \A i \in 1..n : h.arcs[i] = g.arcs[i]
    BY <2>1 DEF n
  <2>5. Network!Ends(h.arcs) = Network!Ends(g.arcs) \cup {<<a.from, a.to>>}
    <3>1. 1..(n + 1) = (1..n) \cup {n + 1}
      BY <2>1
    <3>2. QED
      BY <2>4, <3>1 DEF Network!Ends
  <2>6. Proper({<<a.from, a.to>>}) = {<<a.from, a.to>>}
    BY <1>2 DEF Proper
  <2>7. QED
    BY <2>3, <2>5, <2>6 DEF h
<1>3. QED
  BY <1>1, <1>2

\* So does a sequence of arcs.
LEMMA AddAllKeeps ==
    ASSUME NEW g, Good(g), NEW new \in Seq(Network!Arc)
    PROVE  /\ Good(Network!AddAll(g, new))
           /\ Network!Ends(Network!AddAll(g, new).arcs) = Network!Ends(g.arcs) \cup Proper(Network!Ends(new))
<1> DEFINE n == Len(new)
<1>1. n \in Nat /\ DOMAIN new = 1..n /\ \A i \in 1..n : new[i] \in Network!Arc
  OBVIOUS
<1>2. PICK f : Grows(f, g, new, n) /\ Network!AddAll(g, new) = f[n]
  BY <1>1, AddAllIs
<1> HIDE DEF n
<1> DEFINE some(k) == {<<new[i].from, new[i].to>> : i \in 1..k}
           ok(k) == Good(f[k]) /\ Network!Ends(f[k].arcs) = Network!Ends(g.arcs) \cup Proper(some(k))
           bad == {k \in 0..n : ~ok(k)}
<1>3. f[0] = g /\ \A k \in 1..n : f[k] = Network!AddArc(f[k - 1], new[k])
  <2>1. \A k \in 1..n : k \in 0..n /\ k # 0
    BY <1>1
  <2>2. 0 \in 0..n
    BY <1>1
  <2>3. QED
    BY <1>2, <2>1, <2>2 DEF Grows
<1>4. bad = {}
  <2>1. SUFFICES ASSUME bad # {} PROVE FALSE
    OBVIOUS
  <2>2. PICK k \in bad : \A j \in bad : k <= j
    <3>1. bad \in SUBSET Nat
      OBVIOUS
    <3> HIDE DEF bad
    <3>2. QED
      BY <2>1, <3>1, LeastNumber
  <2>3. CASE k = 0
    <3>1. some(0) = {} /\ Proper({}) = {}
      BY DEF Proper
    <3> HIDE DEF some
    <3>2. ok(0)
      BY <1>3, <3>1
    <3>3. QED
      BY <2>2, <2>3, <3>2
  <2>4. CASE k # 0
    <3>1. k \in 1..n /\ k - 1 \in 0..n /\ k - 1 < k
      BY <1>1, <2>2, <2>4
    <3> HIDE DEF ok
    <3>10. ok(k - 1)
      BY <2>2, <3>1
    <3>2. Good(f[k - 1]) /\ Network!Ends(f[k - 1].arcs) = Network!Ends(g.arcs) \cup Proper(some(k - 1))
      BY <3>10 DEF ok
    <3>3. new[k] \in Network!Arc /\ f[k] = Network!AddArc(f[k - 1], new[k])
      BY <1>1, <1>3, <3>1
    <3>4. Good(f[k]) /\ Network!Ends(f[k].arcs) = Network!Ends(f[k - 1].arcs) \cup Proper({<<new[k].from, new[k].to>>})
      BY <3>2, <3>3, AddArcKeeps
    <3>5. some(k) = some(k - 1) \cup {<<new[k].from, new[k].to>>}
      <4>1. 1..k = (1..(k - 1)) \cup {k}
        BY <3>1
      <4>2. QED
        BY <4>1
    <3> HIDE DEF some
    <3>6. Proper(some(k)) = Proper(some(k - 1)) \cup Proper({<<new[k].from, new[k].to>>})
      BY <3>5 DEF Proper
    <3>7. Network!Ends(f[k].arcs) = Network!Ends(g.arcs) \cup Proper(some(k))
      BY <3>2, <3>4, <3>6
    <3>8. ok(k)
      BY <3>4, <3>7 DEF ok
    <3>9. QED
      BY <2>2, <3>8
  <2>5. QED
    BY <2>3, <2>4
<1>5. ok(n)
  <2> HIDE DEF ok
  <2>1. QED
    BY <1>1, <1>4
<1>6. some(n) = Network!Ends(new)
  BY <1>1 DEF Network!Ends
<1>7. QED
  BY <1>2, <1>5, <1>6

\* There is one earliest of the lightest arcs between two nodes.
LEMMA SlotsFollow ==
    ASSUME NEW g, Good(g), NEW p \in Network!Pair
    PROVE  Network!SlotFollows(g, p)
<1>1. CASE Network!Between(g, p) = {}
  BY <1>1 DEF Good, Network!SlotKept, Network!SlotFollows
<1>2. CASE Network!Between(g, p) # {}
  <2>1. PICK i \in DOMAIN g.arcs : Network!Lightest(g, p, i) /\ Network!HasSlot(g, p, g.arcs[i])
    BY <1>2 DEF Good, Network!SlotKept
  <2> DEFINE c == CHOOSE j \in Network!Between(g, p) : Network!Lightest(g, p, j)
  <2>2. c \in Network!Between(g, p) /\ Network!Lightest(g, p, c)
    BY <2>1 DEF Network!Lightest
  <2> HIDE DEF c
  <2>3. \A j \in Network!Between(g, p) : j \in Nat /\ g.arcs[j].weight \in Nat
    <3>1. g.arcs \in Seq(Network!Arc)
      BY DEF Good
    <3>2. \A j \in DOMAIN g.arcs : j \in Nat /\ g.arcs[j] \in Network!Arc
      BY <3>1
    <3>3. QED
      BY <3>2 DEF Network!Between, Network!Arc
  <2>4. c = i
    BY <2>1, <2>2, <2>3 DEF Network!Lightest
  <2>5. QED
    BY <1>2, <2>1, <2>4 DEF Network!SlotFollows, c
<1>3. QED
  BY <1>1, <1>2

(* One segment: its stops, and the arcs it adds.                           *)

\* What a sequence over a set is made of.
LEMMA SeqIs ==
    ASSUME NEW T, NEW q \in Seq(T)
    PROVE  Len(q) \in Nat /\ DOMAIN q = 1..Len(q) /\ \A i \in 1..Len(q) : q[i] \in T
  OBVIOUS

\* A function on the first numbers is a sequence.
LEMMA SeqOf ==
    ASSUME NEW T, NEW n \in Nat, NEW q \in [1..n -> T]
    PROVE  q \in Seq(T) /\ Len(q) = n /\ DOMAIN q = 1..n
  OBVIOUS

\* What is assumed of a segment, and the labels of its arcs.
LEMMA SegmentIs ==
    ASSUME NEW s \in Network!Segment
    PROVE  /\ s.head \in Junction /\ s.tail \in Junction
           /\ s.length \in Nat \ {0} /\ s.pace \in Nat
           /\ s.connectors \in Seq([at : 0..s.length, id : Junction])
           /\ \A c, d \in Network!Connectors(s) : c # d /\ c.at = d.at => c.at \in {0, s.length}
           /\ s.name \in Network!Label /\ None \in Network!Label
           /\ None \in Network!Line /\ \A i \in Nat : <<s.line, i>> \in Network!Line
<1>1. /\ s.name \in Network!Label /\ None \in Network!Label
      /\ None \in Network!Line /\ \A i \in Nat : <<s.line, i>> \in Network!Line
  BY DEF Network!Label, Network!Line
<1>2. QED
  BY <1>1, NetworkAssumed DEF Network!Assumptions

\* The connectors of a segment, by their indices.
LEMMA ConnectorIs ==
    ASSUME NEW s \in Network!Segment
    PROVE  /\ Len(s.connectors) \in Nat /\ DOMAIN s.connectors = 1..Len(s.connectors)
           /\ \A i \in DOMAIN s.connectors :
                 /\ s.connectors[i].at \in 0..s.length /\ s.connectors[i].id \in Junction
                 /\ s.connectors[i] \in Network!Connectors(s)
           /\ \A c \in Network!Connectors(s) : \E i \in DOMAIN s.connectors : c = s.connectors[i]
<1>1. s.connectors \in Seq([at : 0..s.length, id : Junction])
  BY SegmentIs
<1>2. /\ Len(s.connectors) \in Nat /\ DOMAIN s.connectors = 1..Len(s.connectors)
      /\ \A i \in DOMAIN s.connectors : s.connectors[i] \in [at : 0..s.length, id : Junction]
  BY <1>1, SeqIs
<1>3. QED
  BY <1>2 DEF Network!Connectors

\* The connectors at a place; the first of them is its node.
LEMMA HereIs ==
    ASSUME NEW s \in Network!Segment, NEW x
    PROVE  /\ IsFiniteSet(Network!Here(s, x)) /\ Network!Here(s, x) \in SUBSET Nat
           /\ \A i \in Network!Here(s, x) : i \in DOMAIN s.connectors /\ s.connectors[i].at = x
           /\ Network!Here(s, x) # {} =>
                 \E i \in Network!Here(s, x) :
                    /\ Network!Anchor(s, x) = s.connectors[i].id
                    /\ \A j \in Network!Here(s, x) : i <= j
<1>1. IsFiniteSet(1..Len(s.connectors))
  <2>1. Len(s.connectors) \in Nat
    BY ConnectorIs
  <2>2. QED
    BY <2>1, FS_Interval
<1>2. Network!Here(s, x) \subseteq 1..Len(s.connectors)
  BY ConnectorIs DEF Network!Here
<1>3. IsFiniteSet(Network!Here(s, x)) /\ Network!Here(s, x) \in SUBSET Nat
  <2>1. \A i \in 1..Len(s.connectors) : i \in Nat
    BY ConnectorIs
  <2>2. QED
    BY <1>1, <1>2, <2>1, FS_Subset
<1>4. ASSUME Network!Here(s, x) # {}
      PROVE  \E i \in Network!Here(s, x) : Network!Anchor(s, x) = s.connectors[i].id /\ \A j \in Network!Here(s, x) : i <= j
  <2> DEFINE c == CHOOSE i \in Network!Here(s, x) : \A j \in Network!Here(s, x) : i <= j
  <2>1. \E i \in Network!Here(s, x) : \A j \in Network!Here(s, x) : i <= j
    BY <1>3, <1>4, LeastNumber
  <2>2. c \in Network!Here(s, x) /\ \A j \in Network!Here(s, x) : c <= j
    BY <2>1
  <2>3. Network!Anchor(s, x) = s.connectors[c].id
    BY <1>4 DEF Network!Anchor
  <2>4. QED
    BY <2>2, <2>3
<1>5. QED
  BY <1>3, <1>4 DEF Network!Here

\* The places of a segment: its ends, and those of its connectors.
LEMMA SpotsAre ==
    ASSUME NEW s \in Network!Segment
    PROVE  /\ Network!Spots(s) \in SUBSET Nat /\ IsFiniteSet(Network!Spots(s))
           /\ 0 \in Network!Spots(s) /\ s.length \in Network!Spots(s)
           /\ \A i \in DOMAIN s.connectors : s.connectors[i].at \in Network!Spots(s)
           /\ \A x \in Network!Spots(s) : x \notin {0, s.length} => Network!Here(s, x) # {}
<1>1. s.length \in Nat
  BY SegmentIs
<1>2. Network!Spots(s) \subseteq 0..s.length
  BY <1>1, ConnectorIs DEF Network!Spots
<1>3. IsFiniteSet(Network!Spots(s))
  <2>1. IsFiniteSet(0..s.length)
    BY <1>1, FS_Interval
  <2>2. QED
    BY <1>2, <2>1, FS_Subset
<1>4. Network!Spots(s) \in SUBSET Nat
  BY <1>1, <1>2
<1>5. \A x \in Network!Spots(s) : x \notin {0, s.length} => Network!Here(s, x) # {}
  BY ConnectorIs DEF Network!Spots, Network!Here
<1>6. QED
  BY <1>3, <1>4, <1>5, ConnectorIs DEF Network!Spots

\* The node of a place is a node.
LEMMA AnchorIs ==
    ASSUME NEW s \in Network!Segment, NEW x
    PROVE  Network!Anchor(s, x) \in Junction
<1>1. CASE Network!Here(s, x) = {}
  BY <1>1, SegmentIs DEF Network!Anchor
<1>2. CASE Network!Here(s, x) # {}
  BY <1>2, HereIs, ConnectorIs
<1>3. QED
  BY <1>1, <1>2

\* The stops are the places in their order, each once, with their nodes.
LEMMA StopsAre ==
    ASSUME NEW s \in Network!Segment
    PROVE  /\ Len(Network!Stops(s)) \in Nat /\ DOMAIN Network!Stops(s) = 1..Len(Network!Stops(s))
           /\ Network!Stops(s) \in Seq([at : Network!Spots(s), id : Junction])
           /\ \A i \in DOMAIN Network!Stops(s) :
                 /\ Network!Stops(s)[i].at \in Network!Spots(s)
                 /\ Network!Stops(s)[i].id = Network!Anchor(s, Network!Stops(s)[i].at)
           /\ \A i, j \in DOMAIN Network!Stops(s) : i < j => Network!Stops(s)[i].at < Network!Stops(s)[j].at
           /\ \A x \in Network!Spots(s) : \E i \in DOMAIN Network!Stops(s) : Network!Stops(s)[i].at = x
<1> DEFINE q == Network!Sorted(Network!Spots(s))
           n == Cardinality(Network!Spots(s))
<1>1. /\ n \in Nat /\ q \in [1..n -> Network!Spots(s)]
      /\ \A i, j \in 1..n : i < j => q[i] < q[j]
      /\ \A x \in Network!Spots(s) : \E i \in 1..n : q[i] = x
  BY SpotsAre, SortedIs
<1>2. Network!Stops(s) = [i \in DOMAIN q |-> [at |-> q[i], id |-> Network!Anchor(s, q[i])]]
  BY DEF Network!Stops
<1> HIDE DEF q, n
<1>3. Network!Stops(s) = [i \in 1..n |-> [at |-> q[i], id |-> Network!Anchor(s, q[i])]]
  BY <1>1, <1>2
<1>4. \A i \in 1..n : [at |-> q[i], id |-> Network!Anchor(s, q[i])] \in [at : Network!Spots(s), id : Junction]
  BY <1>1, AnchorIs
<1>5. Network!Stops(s) \in [1..n -> [at : Network!Spots(s), id : Junction]]
  BY <1>3, <1>4
<1>6. Network!Stops(s) \in Seq([at : Network!Spots(s), id : Junction]) /\ Len(Network!Stops(s)) = n
  <2> DEFINE D == [at : Network!Spots(s), id : Junction]
             t == Network!Stops(s)
  <2>1. t \in [1..n -> D]
    BY <1>5
  <2> HIDE DEF D, t
  <2>2. t \in Seq(D) /\ Len(t) = n
    BY <1>1, <2>1, SeqOf
  <2>3. QED
    BY <2>2 DEF D, t
<1>7. \A i \in 1..n : Network!Stops(s)[i].at = q[i] /\ Network!Stops(s)[i].id = Network!Anchor(s, q[i])
  BY <1>3
<1>8. DOMAIN Network!Stops(s) = 1..n
  BY <1>3
<1>9. QED
  BY <1>1, <1>6, <1>7, <1>8

(* Arcs in the directions given.                                           *)

Runs(as, x, y) == \E i \in DOMAIN as : as[i].from = x /\ as[i].to = y

\* There is a move between two nodes exactly when an arc runs between them.
LEMMA RunsEnd ==
    ASSUME NEW as, NEW x, NEW y
    PROVE  <<x, y>> \in Network!Ends(as) <=> Runs(as, x, y)
  BY DEF Runs, Network!Ends

\* An arc turned around is an arc between the same nodes the other way.
LEMMA TurnedIs ==
    ASSUME NEW a \in Network!Arc, NEW heading
    PROVE  /\ Network!Turned(a, heading) \in Network!Arc
           /\ heading = "forward" => Network!Turned(a, heading).from = a.from /\ Network!Turned(a, heading).to = a.to
           /\ heading # "forward" => Network!Turned(a, heading).from = a.to /\ Network!Turned(a, heading).to = a.from
  BY DEF Network!Turned, Network!Arc

\* Arcs in one direction run between the same nodes, or all the other way.
LEMMA DirectedOneWay ==
    ASSUME NEW as \in Seq(Network!Arc), NEW heading
    PROVE  /\ Network!Directed(as, <<heading>>) \in Seq(Network!Arc)
           /\ \A x, y : Runs(Network!Directed(as, <<heading>>), x, y) <=>
                 IF heading = "forward" THEN Runs(as, x, y) ELSE Runs(as, y, x)
<1> DEFINE n == Len(as)
           d == Network!Directed(as, <<heading>>)
<1>1. n \in Nat /\ DOMAIN as = 1..n /\ \A i \in 1..n : as[i] \in Network!Arc
  BY SeqIs
<1>2. d = [k \in 1..(n * 1) |-> Network!Turned(as[(k - 1) \div 1 + 1], <<heading>>[((k - 1) % 1) + 1])]
  BY DEF Network!Directed
<1> HIDE DEF n, d
<1>3. n * 1 = n /\ \A k \in 1..n : (k - 1) \div 1 + 1 = k /\ ((k - 1) % 1) + 1 = 1
  BY <1>1
<1>4. d = [k \in 1..n |-> Network!Turned(as[k], heading)]
  <2>1. <<heading>>[1] = heading
    OBVIOUS
  <2>2. \A k \in 1..n :
           Network!Turned(as[(k - 1) \div 1 + 1], <<heading>>[((k - 1) % 1) + 1]) = Network!Turned(as[k], heading)
    BY <1>3, <2>1
  <2>3. QED
    BY <1>2, <1>3, <2>2
<1>5. d \in [1..n -> Network!Arc]
  BY <1>1, <1>4, TurnedIs
<1>6. d \in Seq(Network!Arc) /\ DOMAIN d = 1..n
  BY <1>1, <1>5, SeqOf
<1>7. \A k \in 1..n : /\ heading = "forward" => d[k].from = as[k].from /\ d[k].to = as[k].to
                      /\ heading # "forward" => d[k].from = as[k].to /\ d[k].to = as[k].from
  BY <1>1, <1>4, TurnedIs
<1>8. ASSUME NEW x, NEW y
      PROVE  Runs(d, x, y) <=> IF heading = "forward" THEN Runs(as, x, y) ELSE Runs(as, y, x)
  <2>1. /\ Runs(d, x, y) <=> \E k \in 1..n : d[k].from = x /\ d[k].to = y
        /\ Runs(as, x, y) <=> \E k \in 1..n : as[k].from = x /\ as[k].to = y
        /\ Runs(as, y, x) <=> \E k \in 1..n : as[k].from = y /\ as[k].to = x
    BY <1>1, <1>6, Zenon DEF Runs
  <2>2. CASE heading = "forward"
    <3>1. \A k \in 1..n : d[k].from = as[k].from /\ d[k].to = as[k].to
      BY <1>7, <2>2, Zenon
    <3>2. Runs(d, x, y) <=> Runs(as, x, y)
      BY <2>1, <3>1, Zenon
    <3>3. QED
      BY <2>2, <3>2
  <2>3. CASE heading # "forward"
    <3>1. \A k \in 1..n : d[k].from = as[k].to /\ d[k].to = as[k].from
      BY <1>7, <2>3, Zenon
    <3>2. Runs(d, x, y) <=> Runs(as, y, x)
      BY <2>1, <3>1, Zenon
    <3>3. QED
      BY <2>3, <3>2
  <2>4. QED
    BY <2>2, <2>3
<1>9. QED
  BY <1>6, <1>8 DEF d

\* Arcs in no direction are none.
LEMMA DirectedNoWay ==
    ASSUME NEW as \in Seq(Network!Arc)
    PROVE  Network!Directed(as, <<>>) \in Seq(Network!Arc) /\ \A x, y : ~Runs(Network!Directed(as, <<>>), x, y)
<1> DEFINE n == Len(as)
           d == Network!Directed(as, <<>>)
           e(k) == Network!Turned(as[(k - 1) \div Len(<<>>) + 1], <<>>[((k - 1) % Len(<<>>)) + 1])
<1>1. n \in Nat
  BY SeqIs
<1>2. d = [k \in 1..(n * Len(<<>>)) |-> e(k)]
  BY DEF Network!Directed
<1> HIDE DEF n, d, e
<1>3. Len(<<>>) = 0
  OBVIOUS
<1>4. n * Len(<<>>) = 0
  BY <1>1, <1>3
<1>5. d = [k \in 1..0 |-> e(k)]
  BY <1>2, <1>4
<1>6. d \in [1..0 -> Network!Arc]
  BY <1>5
<1>7. d \in Seq(Network!Arc) /\ DOMAIN d = 1..0
  BY <1>6, SeqOf
<1>8. \A k : k \notin 1..0
  OBVIOUS
<1>9. \A x, y : ~Runs(d, x, y)
  BY <1>7, <1>8, Zenon DEF Runs
<1>10. QED
  BY <1>7, <1>9 DEF d

\* Arcs in both directions run each way.
LEMMA DirectedBoth ==
    ASSUME NEW as \in Seq(Network!Arc)
    PROVE  /\ Network!Directed(as, Network!Both) \in Seq(Network!Arc)
           /\ \A x, y : Runs(Network!Directed(as, Network!Both), x, y) <=> Runs(as, x, y) \/ Runs(as, y, x)
<1> DEFINE n == Len(as)
           d == Network!Directed(as, Network!Both)
           which(k) == IF (k - 1) % 2 = 0 THEN "forward" ELSE "backward"
           from(k) == (k - 1) \div 2 + 1
<1>1. n \in Nat /\ DOMAIN as = 1..n /\ \A i \in 1..n : as[i] \in Network!Arc
  BY SeqIs
<1>2. d = [k \in 1..(n * 2) |-> Network!Turned(as[from(k)], Network!Both[((k - 1) % 2) + 1])]
  BY DEF Network!Directed, Network!Both
<1>3. \A k \in Nat : Network!Both[((k - 1) % 2) + 1] = which(k)
  BY DEF Network!Both
<1>4. \A k \in 1..(n * 2) : from(k) \in 1..n /\ k \in Nat
  <2> HIDE DEF n
  <2>1. QED
    BY <1>1
<1>5. \A i \in 1..n : /\ 2 * i - 1 \in 1..(n * 2) /\ from(2 * i - 1) = i /\ which(2 * i - 1) = "forward"
                      /\ 2 * i \in 1..(n * 2) /\ from(2 * i) = i /\ which(2 * i) = "backward"
  <2> HIDE DEF n
  <2>1. QED
    BY <1>1
<1> HIDE DEF n, d, which, from
<1>6. n * 2 \in Nat
  BY <1>1
<1>7. \A k \in 1..(n * 2) : d[k] = Network!Turned(as[from(k)], which(k)) /\ from(k) \in 1..n
  BY <1>2, <1>3, <1>4
<1>8. d \in [1..(n * 2) -> Network!Arc]
  <2>1. \A k \in 1..(n * 2) : d[k] \in Network!Arc
    BY <1>1, <1>7, TurnedIs
  <2>2. QED
    BY <1>2, <2>1
<1>9. d \in Seq(Network!Arc) /\ DOMAIN d = 1..(n * 2)
  BY <1>6, <1>8, SeqOf
<1>10. ASSUME NEW x, NEW y, Runs(d, x, y) PROVE Runs(as, x, y) \/ Runs(as, y, x)
  <2>1. PICK k \in 1..(n * 2) : d[k].from = x /\ d[k].to = y
    BY <1>9, <1>10 DEF Runs
  <2>2. from(k) \in DOMAIN as /\ as[from(k)] \in Network!Arc /\ d[k] = Network!Turned(as[from(k)], which(k))
    BY <1>1, <1>7
  <2> DEFINE a == as[from(k)]
  <2>3. (a.from = x /\ a.to = y) \/ (a.from = y /\ a.to = x)
    <3>1. a \in Network!Arc /\ d[k] = Network!Turned(a, which(k))
      BY <2>2
    <3> HIDE DEF a
    <3>2. \/ d[k].from = a.from /\ d[k].to = a.to
          \/ d[k].from = a.to /\ d[k].to = a.from
      <4> DEFINE h == which(k)
                 u == Network!Turned(a, h)
      <4>1. /\ h = "forward" => u.from = a.from /\ u.to = a.to
            /\ h # "forward" => u.from = a.to /\ u.to = a.from
        BY <3>1, TurnedIs
      <4>2. d[k] = u
        BY <3>1
      <4> HIDE DEF h, u
      <4>3. QED
        BY <4>1, <4>2
    <3>3. QED
      BY <2>1, <3>2
  <2>4. QED
    BY <2>2, <2>3, Zenon DEF Runs
<1>11. ASSUME NEW i \in DOMAIN as
       PROVE  Runs(d, as[i].from, as[i].to) /\ Runs(d, as[i].to, as[i].from)
  <2>1. as[i] \in Network!Arc /\ i \in 1..n
    BY <1>1
  <2>2. d[2 * i - 1] = Network!Turned(as[i], "forward") /\ d[2 * i] = Network!Turned(as[i], "backward")
    BY <1>5, <1>7, <2>1
  <2>3. 2 * i - 1 \in DOMAIN d /\ 2 * i \in DOMAIN d
    BY <1>5, <1>9, <2>1
  <2>4. /\ d[2 * i - 1].from = as[i].from /\ d[2 * i - 1].to = as[i].to
        /\ d[2 * i].from = as[i].to /\ d[2 * i].to = as[i].from
    <3>1. /\ Network!Turned(as[i], "forward").from = as[i].from /\ Network!Turned(as[i], "forward").to = as[i].to
          /\ Network!Turned(as[i], "backward").from = as[i].to /\ Network!Turned(as[i], "backward").to = as[i].from
      BY <2>1, TurnedIs
    <3>2. QED
      BY <2>2, <3>1
  <2>5. QED
    BY <2>3, <2>4, Zenon DEF Runs
<1>12. \A x, y : Runs(as, x, y) \/ Runs(as, y, x) => Runs(d, x, y)
  BY <1>11 DEF Runs
<1>13. QED
  BY <1>9, <1>10, <1>12 DEF d

(* The moves of a segment are those of its arcs.                           *)

\* The ties at an end join its node with each other connector there, both ways.
LEMMA TiesAre ==
    ASSUME NEW s \in Network!Segment, NEW x
    PROVE  /\ Network!Ties(s, x) \in Seq(Network!Arc)
           /\ \A y, z : Runs(Network!Ties(s, x), y, z) =>
                 \E i \in Network!Here(s, x) : \/ y = Network!Anchor(s, x) /\ z = s.connectors[i].id
                                               \/ z = Network!Anchor(s, x) /\ y = s.connectors[i].id
           /\ \A i \in Network!Here(s, x) :
                 \/ s.connectors[i].id = Network!Anchor(s, x)
                 \/ /\ Runs(Network!Ties(s, x), Network!Anchor(s, x), s.connectors[i].id)
                    /\ Runs(Network!Ties(s, x), s.connectors[i].id, Network!Anchor(s, x))
<1> DEFINE later == {i \in Network!Here(s, x) : \E j \in Network!Here(s, x) : j < i}
           second == Network!Sorted(later)
           n == Cardinality(later)
           Tie(i) == [from |-> Network!Anchor(s, x), to |-> s.connectors[second[i]].id, weight |-> 0, name |-> None,
                      line |-> None, back |-> FALSE]
           base == [i \in DOMAIN second |-> Tie(i)]
           t == Network!Ties(s, x)
<1>1. /\ IsFiniteSet(Network!Here(s, x)) /\ Network!Here(s, x) \in SUBSET Nat
      /\ \A i \in Network!Here(s, x) : i \in DOMAIN s.connectors
  BY HereIs
<1>2. later \in SUBSET Nat /\ IsFiniteSet(later) /\ \A i \in later : i \in Network!Here(s, x)
  BY <1>1, FS_Subset
<1>3. /\ n \in Nat /\ second \in [1..n -> later]
      /\ \A i \in later : \E k \in 1..n : second[k] = i
  <2> HIDE DEF later
  <2>1. QED
    BY <1>2, SortedIs
<1>4. t = Network!Directed(base, Network!Both)
  BY DEF Network!Ties
<1>5. \A i \in Network!Here(s, x) : s.connectors[i].id \in Junction
  BY <1>1, ConnectorIs
<1>6. Network!Anchor(s, x) \in Junction /\ None \in Network!Label /\ None \in Network!Line
  BY AnchorIs, SegmentIs
<1> HIDE DEF later, second, n, t
<1>7. \A k \in 1..n : /\ Tie(k) \in Network!Arc /\ second[k] \in Network!Here(s, x)
                      /\ Tie(k).from = Network!Anchor(s, x) /\ Tie(k).to = s.connectors[second[k]].id
  <2>1. \A k \in 1..n : second[k] \in Network!Here(s, x)
    BY <1>2, <1>3
  <2>2. QED
    BY <1>5, <1>6, <2>1 DEF Network!Arc
<1>8. DOMAIN second = 1..n
  BY <1>3
<1>9. base \in [1..n -> Network!Arc] /\ \A k \in 1..n : base[k] = Tie(k)
  BY <1>7, <1>8
<1> HIDE DEF Tie, base
<1>10. base \in Seq(Network!Arc) /\ DOMAIN base = 1..n
  BY <1>3, <1>9, SeqOf
<1>11. t \in Seq(Network!Arc) /\ \A y, z : Runs(t, y, z) <=> Runs(base, y, z) \/ Runs(base, z, y)
  BY <1>4, <1>10, DirectedBoth
<1>12. \A y, z : Runs(base, y, z) => \E i \in Network!Here(s, x) : y = Network!Anchor(s, x) /\ z = s.connectors[i].id
  BY <1>7, <1>9, <1>10 DEF Runs
<1>13. ASSUME NEW i \in Network!Here(s, x)
       PROVE  s.connectors[i].id = Network!Anchor(s, x) \/ Runs(base, Network!Anchor(s, x), s.connectors[i].id)
  <2>1. PICK c \in Network!Here(s, x) : Network!Anchor(s, x) = s.connectors[c].id /\ \A j \in Network!Here(s, x) : c <= j
    BY <1>13, HereIs
  <2>2. CASE i = c
    BY <2>1, <2>2
  <2>3. CASE i # c
    <3>1. i \in Nat /\ c \in Nat /\ c <= i
      BY <1>1, <2>1
    <3>2. i \in later
      BY <2>1, <2>3, <3>1 DEF later
    <3>3. PICK k \in 1..n : second[k] = i
      BY <1>3, <3>2
    <3>4. base[k].from = Network!Anchor(s, x) /\ base[k].to = s.connectors[i].id /\ k \in DOMAIN base
      BY <1>7, <1>9, <1>10, <3>3
    <3>5. QED
      BY <3>4, Zenon DEF Runs
  <2>4. QED
    BY <2>2, <2>3
<1>14. QED
  BY <1>11, <1>12, <1>13 DEF t

\* The ways join each two stops that follow each other, in the open directions.
LEMMA WaysAre ==
    ASSUME NEW s \in Network!Segment
    PROVE  /\ Len(Network!Stops(s)) \in Nat \ {0} /\ Network!Ways(s) \in Seq(Network!Arc)
           /\ \A y, z : Runs(Network!Ways(s), y, z) <=>
                 \E i \in 1..(Len(Network!Stops(s)) - 1) :
                    \/ Network!Open(s, "forward") /\ y = Network!Stops(s)[i].id /\ z = Network!Stops(s)[i + 1].id
                    \/ Network!Open(s, "backward") /\ z = Network!Stops(s)[i].id /\ y = Network!Stops(s)[i + 1].id
<1> DEFINE stops == Network!Stops(s)
           m == Len(stops)
           Step(i) == [from |-> stops[i].id, to |-> stops[i + 1].id, name |-> s.name,
                       weight |-> (stops[i + 1].at - stops[i].at) * s.pace,
                       line |-> <<s.line, i>>, back |-> FALSE]
           base == [i \in 1..(m - 1) |-> Step(i)]
           w == Network!Ways(s)
<1>1. /\ m \in Nat /\ DOMAIN stops = 1..m
      /\ \A i \in 1..m : stops[i].at \in Network!Spots(s) /\ stops[i].id = Network!Anchor(s, stops[i].at)
      /\ \A i, j \in 1..m : i < j => stops[i].at < stops[j].at
      /\ \A x \in Network!Spots(s) : \E i \in 1..m : stops[i].at = x
  BY StopsAre
<1>2. w = Network!Directed(base, Network!Headings(s))
  BY DEF Network!Ways
<1> HIDE DEF stops, m, w
<1>3. m # 0
  BY <1>1, SpotsAre
<1>4. ASSUME NEW i \in 1..(m - 1) PROVE Step(i) \in Network!Arc
  <2>1. i \in 1..m /\ i + 1 \in 1..m /\ i < i + 1 /\ i \in Nat
    BY <1>1
  <2>2. stops[i].id \in Junction /\ stops[i + 1].id \in Junction
    BY <1>1, <2>1, AnchorIs
  <2>3. stops[i].at \in Nat /\ stops[i + 1].at \in Nat /\ stops[i].at < stops[i + 1].at
    BY <1>1, <2>1, SpotsAre
  <2>4. s.pace \in Nat /\ s.name \in Network!Label /\ <<s.line, i>> \in Network!Line
    BY <2>1, SegmentIs
  <2> DEFINE d == stops[i + 1].at - stops[i].at
  <2>5. d \in Nat
    BY <2>3
  <2> HIDE DEF d
  <2>6. d * s.pace \in Nat
    BY <2>4, <2>5
  <2>7. QED
    BY <2>2, <2>4, <2>6 DEF Network!Arc, d
<1>5. \A i \in 1..(m - 1) : Step(i).from = stops[i].id /\ Step(i).to = stops[i + 1].id
  OBVIOUS
<1> HIDE DEF Step
<1>6. base \in [1..(m - 1) -> Network!Arc] /\ \A i \in 1..(m - 1) : base[i] = Step(i)
  BY <1>4
<1> HIDE DEF base
<1>7. m - 1 \in Nat
  BY <1>1, <1>3
<1>8. base \in Seq(Network!Arc) /\ DOMAIN base = 1..(m - 1)
  BY <1>6, <1>7, SeqOf
<1>9. \A y, z : Runs(base, y, z) <=> \E i \in 1..(m - 1) : y = stops[i].id /\ z = stops[i + 1].id
  <2>1. \A i \in 1..(m - 1) : base[i].from = stops[i].id /\ base[i].to = stops[i + 1].id
    BY <1>5, <1>6
  <2>2. \A y, z : Runs(base, y, z) <=> \E i \in 1..(m - 1) : base[i].from = y /\ base[i].to = z
    BY <1>8, Zenon DEF Runs
  <2>3. QED
    BY <2>1, <2>2
<1> DEFINE forward == Network!Open(s, "forward")
           backward == Network!Open(s, "backward")
           Along(y, z) == (forward /\ Runs(base, y, z)) \/ (backward /\ Runs(base, z, y))
<1>10. Network!Headings(s) = IF forward /\ backward THEN Network!Both
                     ELSE IF forward THEN <<"forward">> ELSE IF backward THEN <<"backward">> ELSE <<>>
  BY DEF Network!Headings
<1> HIDE DEF forward, backward
<1>11. w \in Seq(Network!Arc) /\ \A y, z : Runs(w, y, z) <=> Along(y, z)
  <2>1. CASE forward /\ backward
    <3>1. w = Network!Directed(base, Network!Both)
      BY <1>2, <1>10, <2>1
    <3>2. QED
      BY <1>8, <2>1, <3>1, DirectedBoth
  <2>2. CASE forward /\ ~backward
    <3>1. w = Network!Directed(base, <<"forward">>)
      BY <1>2, <1>10, <2>2
    <3>2. QED
      BY <1>8, <2>2, <3>1, DirectedOneWay
  <2>3. CASE ~forward /\ backward
    <3>1. w = Network!Directed(base, <<"backward">>)
      BY <1>2, <1>10, <2>3
    <3>2. QED
      BY <1>8, <2>3, <3>1, DirectedOneWay
  <2>4. CASE ~forward /\ ~backward
    <3>1. w = Network!Directed(base, <<>>)
      BY <1>2, <1>10, <2>4
    <3>2. QED
      BY <1>8, <2>4, <3>1, DirectedNoWay
  <2>5. QED
    BY <2>1, <2>2, <2>3, <2>4
<1>12. \A y, z : Along(y, z) <=>
          \E i \in 1..(m - 1) : \/ forward /\ y = stops[i].id /\ z = stops[i + 1].id
                                \/ backward /\ z = stops[i].id /\ y = stops[i + 1].id
  BY <1>9
<1>13. QED
  BY <1>1, <1>3, <1>11, <1>12 DEF w, m, stops, forward, backward

\* The places that legal moves are between: the stops and the other connectors
\* there.
LEMMA PlacesAre ==
    ASSUME NEW s \in Network!Segment
    PROVE  /\ \A x \in Network!Spots(s) : <<x, Network!Anchor(s, x)>> \in Network!Places(s)
           /\ \A x : \A i \in Network!Here(s, x) : <<x, s.connectors[i].id>> \in Network!Places(s)
           /\ \A pl \in Network!Places(s) :
                 \E x \in Network!Spots(s), n \in Junction :
                    /\ pl = <<x, n>>
                    /\ n = Network!Anchor(s, x) \/ \E i \in Network!Here(s, x) : n = s.connectors[i].id
<1>1. \A x : \A i \in Network!Here(s, x) : <<x, s.connectors[i].id>> \in Network!Places(s)
  <2> TAKE x
  <2> TAKE i \in Network!Here(s, x)
  <2>1. i \in DOMAIN s.connectors /\ s.connectors[i].at = x
    BY HereIs
  <2>2. s.connectors[i] \in Network!Connectors(s)
    BY <2>1, ConnectorIs
  <2>3. QED
    BY <2>1, <2>2 DEF Network!Places
<1>2. ASSUME NEW x \in Network!Spots(s) PROVE <<x, Network!Anchor(s, x)>> \in Network!Places(s)
  <2>1. CASE x \in {0, s.length}
    BY <2>1 DEF Network!Places
  <2>2. CASE x \notin {0, s.length}
    <3>1. Network!Here(s, x) # {}
      BY <2>2, SpotsAre
    <3>2. QED
      BY <1>1, <3>1, HereIs
  <2>3. QED
    BY <2>1, <2>2
<1>3. ASSUME NEW pl \in Network!Places(s)
      PROVE  \E x \in Network!Spots(s), n \in Junction :
                /\ pl = <<x, n>>
                /\ n = Network!Anchor(s, x) \/ \E i \in Network!Here(s, x) : n = s.connectors[i].id
  <2>1. CASE \E x \in {0, s.length} : pl = <<x, Network!Anchor(s, x)>>
    BY <2>1, SpotsAre, AnchorIs
  <2>2. CASE \E c \in Network!Connectors(s) : pl = <<c.at, c.id>>
    <3>1. PICK c \in Network!Connectors(s) : pl = <<c.at, c.id>>
      BY <2>2
    <3>2. PICK i \in DOMAIN s.connectors : c = s.connectors[i]
      BY ConnectorIs
    <3>3. i \in Network!Here(s, c.at) /\ c.at \in Network!Spots(s) /\ c.id \in Junction
      BY <3>2, ConnectorIs, SpotsAre DEF Network!Here
    <3>4. QED
      BY <3>1, <3>2, <3>3
  <2>3. QED
    BY <2>1, <2>2 DEF Network!Places
<1>4. QED
  BY <1>1, <1>2, <1>3

\* Places with the same position are nodes that can be reached from each other.
LEMMA TiesSuffice ==
    ASSUME NEW s \in Network!Segment, NEW S \in SUBSET Junction, Network!Leads(Network!New(s), S),
           NEW x \in Network!Spots(s), NEW i \in Network!Here(s, x)
    PROVE  s.connectors[i].id \in S <=> Network!Anchor(s, x) \in S
<1> DEFINE n == s.connectors[i].id
           a == Network!Anchor(s, x)
<1>1. CASE x \in {0, s.length}
  <2>1. n = a \/ (Runs(Network!Ties(s, x), a, n) /\ Runs(Network!Ties(s, x), n, a))
    BY TiesAre
  <2>2. Network!Ends(Network!Ties(s, x)) \subseteq Network!New(s)
    BY <1>1 DEF Network!New
  <2> HIDE DEF n, a
  <2>3. n = a \/ (<<a, n>> \in Network!New(s) /\ <<n, a>> \in Network!New(s))
    BY <2>1, <2>2, RunsEnd
  <2>4. QED
    BY <2>3 DEF Network!Leads, n, a
<1>2. CASE x \notin {0, s.length}
  <2>1. PICK j \in Network!Here(s, x) : a = s.connectors[j].id
    BY HereIs
  <2>2. /\ s.connectors[i] \in Network!Connectors(s) /\ s.connectors[i].at = x
        /\ s.connectors[j] \in Network!Connectors(s) /\ s.connectors[j].at = x
    BY HereIs, ConnectorIs
  <2>3. s.connectors[i] = s.connectors[j]
    BY <1>2, <2>2, SegmentIs
  <2>4. QED
    BY <2>1, <2>3
<1>3. QED
  BY <1>1, <1>2

\* In an open direction the stops can be reached one after the other.
LEMMA WaysForward ==
    ASSUME NEW s \in Network!Segment, NEW S \in SUBSET Junction,
           Network!Leads(Network!New(s), S), Network!Open(s, "forward"),
           NEW x \in Network!Spots(s), NEW y \in Network!Spots(s), x < y, Network!Anchor(s, x) \in S
    PROVE  Network!Anchor(s, y) \in S
<1> DEFINE stops == Network!Stops(s)
           m == Len(stops)
<1>1. /\ m \in Nat /\ DOMAIN stops = 1..m
      /\ \A i \in 1..m : stops[i].at \in Network!Spots(s) /\ stops[i].id = Network!Anchor(s, stops[i].at)
      /\ \A i, j \in 1..m : i < j => stops[i].at < stops[j].at
      /\ \A z \in Network!Spots(s) : \E i \in 1..m : stops[i].at = z
  BY StopsAre
<1>2. \A i \in 1..(m - 1) : Runs(Network!Ways(s), stops[i].id, stops[i + 1].id)
  BY WaysAre
<1> HIDE DEF stops, m
<1>3. \A i \in 1..(m - 1) : stops[i].id \in S => stops[i + 1].id \in S
  <2>1. \A i \in 1..(m - 1) : <<stops[i].id, stops[i + 1].id>> \in Network!New(s)
    BY <1>2, RunsEnd DEF Network!New
  <2>2. QED
    BY <2>1 DEF Network!Leads
<1>4. PICK i \in 1..m : stops[i].at = x
  BY <1>1
<1>5. PICK j \in 1..m : stops[j].at = y
  BY <1>1
<1>6. i < j
  <2>1. x \in Nat /\ y \in Nat
    BY SpotsAre
  <2>2. ~(j < i) /\ i # j
    BY <1>1, <1>4, <1>5, <2>1
  <2>3. QED
    BY <1>1, <2>2
<1> DEFINE bad == {k \in i..j : stops[k].id \notin S}
<1>7. bad = {}
  <2>1. SUFFICES ASSUME bad # {} PROVE FALSE
    OBVIOUS
  <2>2. PICK k \in bad : \A l \in bad : k <= l
    <3>1. bad \in SUBSET Nat
      BY <1>1
    <3> HIDE DEF bad
    <3>2. QED
      BY <2>1, <3>1, LeastNumber
  <2>3. stops[i].id \in S
    BY <1>1, <1>4
  <2>4. k - 1 \in i..j /\ k - 1 \in 1..(m - 1) /\ k - 1 < k /\ (k - 1) + 1 = k
    BY <1>1, <2>2, <2>3
  <2>5. stops[k - 1].id \in S
    BY <2>2, <2>4
  <2>6. stops[k].id \in S
    BY <1>3, <2>4, <2>5
  <2>7. QED
    BY <2>2, <2>6
<1>8. QED
  BY <1>1, <1>5, <1>6, <1>7

\* Likewise against the segment, when that direction is open.
LEMMA WaysBackward ==
    ASSUME NEW s \in Network!Segment, NEW S \in SUBSET Junction,
           Network!Leads(Network!New(s), S), Network!Open(s, "backward"),
           NEW x \in Network!Spots(s), NEW y \in Network!Spots(s), x < y, Network!Anchor(s, y) \in S
    PROVE  Network!Anchor(s, x) \in S
<1> DEFINE stops == Network!Stops(s)
           m == Len(stops)
<1>1. /\ m \in Nat /\ DOMAIN stops = 1..m
      /\ \A i \in 1..m : stops[i].at \in Network!Spots(s) /\ stops[i].id = Network!Anchor(s, stops[i].at)
      /\ \A i, j \in 1..m : i < j => stops[i].at < stops[j].at
      /\ \A z \in Network!Spots(s) : \E i \in 1..m : stops[i].at = z
  BY StopsAre
<1>2. \A i \in 1..(m - 1) : Runs(Network!Ways(s), stops[i + 1].id, stops[i].id)
  BY WaysAre
<1> HIDE DEF stops, m
<1>3. \A i \in 1..(m - 1) : stops[i + 1].id \in S => stops[i].id \in S
  <2>1. \A i \in 1..(m - 1) : <<stops[i + 1].id, stops[i].id>> \in Network!New(s)
    BY <1>2, RunsEnd DEF Network!New
  <2>2. QED
    BY <2>1 DEF Network!Leads
<1>4. PICK i \in 1..m : stops[i].at = x
  BY <1>1
<1>5. PICK j \in 1..m : stops[j].at = y
  BY <1>1
<1>6. i < j
  <2>1. x \in Nat /\ y \in Nat
    BY SpotsAre
  <2>2. ~(j < i) /\ i # j
    BY <1>1, <1>4, <1>5, <2>1
  <2>3. QED
    BY <1>1, <2>2
<1> DEFINE good == {k \in i..j : stops[k].id \in S}
<1>7. stops[i].id \in S
  <2>1. j \in good
    BY <1>1, <1>5, <1>6
  <2>2. PICK k \in good : \A l \in good : k <= l
    <3>1. good \in SUBSET Nat
      BY <1>1
    <3> HIDE DEF good
    <3>2. QED
      BY <2>1, <3>1, LeastNumber
  <2>3. CASE k = i
    BY <2>2, <2>3
  <2>4. CASE k # i
    <3>1. k - 1 \in i..j /\ k - 1 \in 1..(m - 1) /\ k - 1 < k /\ (k - 1) + 1 = k
      BY <1>1, <2>2, <2>4
    <3>2. stops[k - 1].id \in S
      BY <1>3, <2>2, <3>1
    <3>3. QED
      BY <2>2, <3>1, <3>2
  <2>5. QED
    BY <2>3, <2>4
<1>8. QED
  BY <1>1, <1>4, <1>7

\* Each arc of a segment is a legal move along it.
LEMMA NewMoves ==
    ASSUME NEW s \in Network!Segment
    PROVE  Network!New(s) \subseteq Network!Moves(s)
<1>1. \A p, q \in Network!Places(s) :
         (p[1] = q[1] \/ (p[1] < q[1] /\ Network!Open(s, "forward")) \/ (p[1] > q[1] /\ Network!Open(s, "backward")))
            => <<p[2], q[2]>> \in Network!Moves(s)
  <2> TAKE p, q \in Network!Places(s)
  <2> HAVE p[1] = q[1] \/ (p[1] < q[1] /\ Network!Open(s, "forward")) \/ (p[1] > q[1] /\ Network!Open(s, "backward"))
  <2>1. <<p, q>> \in Network!Places(s) \X Network!Places(s) /\ <<p, q>>[1] = p /\ <<p, q>>[2] = q
    OBVIOUS
  <2>2. QED
    BY <2>1 DEF Network!Moves
<1>2. ASSUME NEW x \in {0, s.length} PROVE Network!Ends(Network!Ties(s, x)) \subseteq Network!Moves(s)
  <2>1. SUFFICES ASSUME NEW i \in DOMAIN Network!Ties(s, x)
                 PROVE  <<Network!Ties(s, x)[i].from, Network!Ties(s, x)[i].to>> \in Network!Moves(s)
    BY DEF Network!Ends
  <2> DEFINE y == Network!Ties(s, x)[i].from
             z == Network!Ties(s, x)[i].to
  <2>2. Runs(Network!Ties(s, x), y, z)
    BY DEF Runs
  <2>3. x \in Network!Spots(s)
    BY SpotsAre
  <2>4. <<x, y>> \in Network!Places(s) /\ <<x, z>> \in Network!Places(s)
    <3> HIDE DEF y, z
    <3>1. PICK k \in Network!Here(s, x) : \/ y = Network!Anchor(s, x) /\ z = s.connectors[k].id
                                          \/ z = Network!Anchor(s, x) /\ y = s.connectors[k].id
      BY <2>2, TiesAre
    <3>2. QED
      BY <2>3, <3>1, PlacesAre
  <2> HIDE DEF y, z
  <2>5. <<y, z>> \in Network!Moves(s)
    BY <1>1, <2>4
  <2>6. QED
    BY <2>5 DEF y, z
<1>3. Network!Ends(Network!Ways(s)) \subseteq Network!Moves(s)
  <2>1. SUFFICES ASSUME NEW i \in DOMAIN Network!Ways(s)
                 PROVE  <<Network!Ways(s)[i].from, Network!Ways(s)[i].to>> \in Network!Moves(s)
    BY DEF Network!Ends
  <2> DEFINE y == Network!Ways(s)[i].from
             z == Network!Ways(s)[i].to
             stops == Network!Stops(s)
             m == Len(stops)
  <2>2. Runs(Network!Ways(s), y, z)
    BY DEF Runs
  <2>3. /\ m \in Nat /\ DOMAIN stops = 1..m
        /\ \A k \in 1..m : stops[k].at \in Network!Spots(s) /\ stops[k].id = Network!Anchor(s, stops[k].at)
        /\ \A k, l \in 1..m : k < l => stops[k].at < stops[l].at
    BY StopsAre
  <2> HIDE DEF y, z
  <2>4. PICK k \in 1..(m - 1) : \/ Network!Open(s, "forward") /\ y = stops[k].id /\ z = stops[k + 1].id
                                \/ Network!Open(s, "backward") /\ z = stops[k].id /\ y = stops[k + 1].id
    BY <2>2, WaysAre
  <2> HIDE DEF stops, m
  <2> DEFINE a == stops[k].at
             b == stops[k + 1].at
  <2>5. k \in 1..m /\ k + 1 \in 1..m /\ k < k + 1
    BY <2>3
  <2>6. /\ a < b /\ a \in Network!Spots(s) /\ b \in Network!Spots(s)
        /\ stops[k].id = Network!Anchor(s, a) /\ stops[k + 1].id = Network!Anchor(s, b)
    BY <2>3, <2>5
  <2> HIDE DEF a, b
  <2>7. a \in Nat /\ b \in Nat /\ b > a
    BY <2>6, SpotsAre
  <2>8. <<a, stops[k].id>> \in Network!Places(s) /\ <<b, stops[k + 1].id>> \in Network!Places(s)
    BY <2>6, PlacesAre
  <2>9. <<y, z>> \in Network!Moves(s)
    <3>1. CASE Network!Open(s, "forward") /\ y = stops[k].id /\ z = stops[k + 1].id
      BY <1>1, <2>6, <2>8, <3>1
    <3>2. CASE Network!Open(s, "backward") /\ z = stops[k].id /\ y = stops[k + 1].id
      BY <1>1, <2>7, <2>8, <3>2
    <3>3. QED
      BY <2>4, <3>1, <3>2
  <2>10. QED
    BY <2>9 DEF y, z
<1>4. QED
  BY <1>2, <1>3 DEF Network!New

\* The arcs of a segment do not lead out of a set of nodes exactly when its
\* legal moves do not.
LEMMA MovesLead ==
    ASSUME NEW s \in Network!Segment, NEW S \in SUBSET Junction
    PROVE  Network!Leads(Network!New(s), S) <=> Network!Leads(Network!Moves(s), S)
<1>1. ASSUME Network!Leads(Network!New(s), S), NEW p \in Network!Places(s), NEW q \in Network!Places(s), p[2] \in S,
             \/ p[1] = q[1]
             \/ p[1] < q[1] /\ Network!Open(s, "forward")
             \/ p[1] > q[1] /\ Network!Open(s, "backward")
      PROVE  q[2] \in S
  <2>1. PICK x \in Network!Spots(s), n \in Junction :
           p = <<x, n>> /\ (n = Network!Anchor(s, x) \/ \E i \in Network!Here(s, x) : n = s.connectors[i].id)
    BY PlacesAre
  <2>2. PICK y \in Network!Spots(s), o \in Junction :
           q = <<y, o>> /\ (o = Network!Anchor(s, y) \/ \E i \in Network!Here(s, y) : o = s.connectors[i].id)
    BY PlacesAre
  <2>3. p[1] = x /\ p[2] = n /\ q[1] = y /\ q[2] = o
    BY <2>1, <2>2
  <2>4. Network!Anchor(s, x) \in S
    BY <1>1, <2>1, <2>3, TiesSuffice
  <2>5. Network!Anchor(s, y) \in S
    <3>1. CASE x = y
      BY <2>4, <3>1
    <3>2. CASE x < y /\ Network!Open(s, "forward")
      BY <1>1, <2>4, <3>2, WaysForward
    <3>3. CASE y < x /\ Network!Open(s, "backward")
      BY <1>1, <2>4, <3>3, WaysBackward
    <3>4. x \in Nat /\ y \in Nat
      BY SpotsAre
    <3>5. QED
      BY <1>1, <2>3, <3>1, <3>2, <3>3, <3>4
  <2>6. QED
    BY <1>1, <2>2, <2>3, <2>5, TiesSuffice
<1>2. ASSUME Network!Leads(Network!New(s), S) PROVE Network!Leads(Network!Moves(s), S)
  <2>1. SUFFICES ASSUME NEW e \in Network!Moves(s), e[1] \in S PROVE e[2] \in S
    BY DEF Network!Leads
  <2>2. PICK pq \in Network!Places(s) \X Network!Places(s) :
           /\ e = <<pq[1][2], pq[2][2]>>
           /\ \/ pq[1][1] = pq[2][1]
              \/ pq[1][1] < pq[2][1] /\ Network!Open(s, "forward")
              \/ pq[1][1] > pq[2][1] /\ Network!Open(s, "backward")
    BY DEF Network!Moves
  <2>3. pq[1] \in Network!Places(s) /\ pq[2] \in Network!Places(s) /\ pq[1][2] = e[1] /\ pq[2][2] = e[2]
    BY <2>2
  <2>4. QED
    BY <1>1, <1>2, <2>1, <2>2, <2>3
<1>3. Network!New(s) \subseteq Network!Moves(s)
  BY NewMoves
<1>4. QED
  BY <1>2, <1>3 DEF Network!Leads

\* The arcs of a segment join its own nodes.
Own(s) == {Network!Anchor(s, x) : x \in Network!Spots(s)} \cup {c.id : c \in Network!Connectors(s)}

\* The arcs of a segment are between its own nodes.
LEMMA OwnNodes ==
    ASSUME NEW s \in Network!Segment
    PROVE  /\ Own(s) \subseteq Junction
           /\ \A e \in Network!New(s) : e \in Network!Pair /\ e[1] \in Own(s) /\ e[2] \in Own(s)
<1>1. Own(s) \subseteq Junction
  BY AnchorIs, ConnectorIs DEF Own
<1>2. ASSUME NEW pl \in Network!Places(s) PROVE pl[2] \in Own(s)
  <2>1. PICK x \in Network!Spots(s), n \in Junction :
           pl = <<x, n>> /\ (n = Network!Anchor(s, x) \/ \E i \in Network!Here(s, x) : n = s.connectors[i].id)
    BY PlacesAre
  <2>2. \A i \in Network!Here(s, x) : s.connectors[i].id \in Own(s)
    BY HereIs, ConnectorIs DEF Own
  <2>3. Network!Anchor(s, x) \in Own(s)
    BY DEF Own
  <2>4. QED
    BY <2>1, <2>2, <2>3
<1>3. ASSUME NEW e \in Network!Moves(s) PROVE e \in Network!Pair /\ e[1] \in Own(s) /\ e[2] \in Own(s)
  <2>1. PICK pq \in Network!Places(s) \X Network!Places(s) : e = <<pq[1][2], pq[2][2]>>
    BY DEF Network!Moves
  <2>2. pq[1][2] \in Own(s) /\ pq[2][2] \in Own(s)
    BY <1>2, <2>1
  <2>3. QED
    BY <1>1, <2>1, <2>2 DEF Network!Pair
<1>4. QED
  BY <1>1, <1>3, NewMoves

(* What is reached, and components.                                        *)

\* Relations that lead out of the same sets reach the same nodes.
LEMMA SameReach ==
    ASSUME NEW R, NEW Q, \A S \in SUBSET Junction : Network!Leads(R, S) <=> Network!Leads(Q, S)
    PROVE  Network!Reach(R) = Network!Reach(Q)
<1>1. {S \in SUBSET Junction : Network!Leads(R, S)} = {S \in SUBSET Junction : Network!Leads(Q, S)}
  OBVIOUS
<1>2. QED
  BY <1>1 DEF Network!Reach

\* What is reached from a node: the least set with it that the relation does
\* not lead out of.
LEMMA ReachIs ==
    ASSUME NEW R, NEW n \in Junction
    PROVE  /\ Network!Reach(R)[n] \in SUBSET Junction /\ n \in Network!Reach(R)[n]
           /\ \A S \in SUBSET Junction : Network!Leads(R, S) /\ n \in S => Network!Reach(R)[n] \subseteq S
           /\ \A e \in R : e[1] \in Network!Reach(R)[n] /\ e[2] \in Junction => e[2] \in Network!Reach(R)[n]
<1> DEFINE around == {S \in SUBSET Junction : Network!Leads(R, S)}
<1>1. Network!Reach(R)[n] = {m \in Junction : \A S \in around : n \in S => m \in S}
  BY DEF Network!Reach
<1>2. ASSUME NEW e \in R, e[1] \in Network!Reach(R)[n], e[2] \in Junction, NEW S \in around, n \in S
      PROVE  e[2] \in S
  <2>1. e[1] \in S
    BY <1>1, <1>2
  <2>2. QED
    BY <1>2, <2>1 DEF Network!Leads
<1>3. QED
  BY <1>1, <1>2

\* In a symmetric relation what is reached from a node reaches it too.
LEMMA ReachBack ==
    ASSUME NEW R \in SUBSET Network!Pair, \A e \in R : <<e[2], e[1]>> \in R,
           NEW n \in Junction, NEW m \in Network!Reach(R)[n]
    PROVE  m \in Junction /\ Network!Reach(R)[m] = Network!Reach(R)[n]
<1>1. m \in Junction
  BY ReachIs
<1>2. \A o \in Junction : Network!Leads(R, Network!Reach(R)[o])
  <2>1. \A e \in R : e[2] \in Junction
    BY DEF Network!Pair
  <2>2. QED
    BY <2>1, ReachIs DEF Network!Leads
<1>3. Network!Reach(R)[m] \subseteq Network!Reach(R)[n]
  BY <1>1, <1>2, ReachIs
<1>4. n \in Network!Reach(R)[m]
  <2> DEFINE S == Junction \ Network!Reach(R)[m]
  <2>1. Network!Leads(R, S)
    <3>1. SUFFICES ASSUME NEW e \in R, e[1] \in S, e[2] \notin S PROVE FALSE
      BY DEF Network!Leads
    <3>2. e[1] \in Junction /\ e[2] \in Junction
      BY DEF Network!Pair
    <3>3. e[2] \in Network!Reach(R)[m] /\ <<e[2], e[1]>> \in R
      BY <3>1, <3>2
    <3>4. e[1] \in Network!Reach(R)[m]
      <4> DEFINE d == <<e[2], e[1]>>
      <4>1. d \in R /\ d[1] = e[2] /\ d[2] = e[1]
        BY <3>3
      <4> HIDE DEF d
      <4>2. QED
        BY <1>2, <1>1, <3>3, <4>1 DEF Network!Leads
    <3>5. QED
      BY <3>1, <3>4
  <2>2. SUFFICES ASSUME n \in S PROVE FALSE
    OBVIOUS
  <2>3. S \in SUBSET Junction
    OBVIOUS
  <2>4. m \in S
    <3> HIDE DEF S
    <3>1. QED
      BY <2>1, <2>2, <2>3, ReachIs
  <2>5. QED
    BY <1>1, <2>4, ReachIs
<1>5. Network!Reach(R)[n] \subseteq Network!Reach(R)[m]
  BY <1>1, <1>2, <1>4, ReachIs
<1>6. QED
  BY <1>1, <1>3, <1>5

\* Of some nodes one is nearest.
LEMMA NearestExists ==
    ASSUME NEW S \in SUBSET Junction, S # {}, distances \in [Junction -> Nat]
    PROVE  Network!Nearest(S) # {}
<1> DEFINE D == {distances[n] : n \in S}
<1>1. D \in SUBSET Nat /\ D # {}
  OBVIOUS
<1>2. \E d \in D : \A e \in D : d <= e
  <2> HIDE DEF D
  <2>1. QED
    BY <1>1, LeastNumber
<1>3. QED
  BY <1>2 DEF Network!Nearest

(* Snapping.                                                               *)

\* Each node is in a component of nodes of the graph, the same for all its
\* members.
LEMMA ComponentsAre ==
    ASSUME Network!TypeOK, NEW n \in junctions
    PROVE  /\ Network!Component[n] \subseteq junctions /\ n \in Network!Component[n]
           /\ \A m \in Network!Component[n] : Network!Component[m] = Network!Component[n]
<1>1. junctions \in SUBSET Junction /\ n \in Junction
  BY DEF Network!TypeOK
<1>2. \A i \in DOMAIN roads : roads[i].from \in junctions /\ roads[i].to \in junctions
  BY DEF Network!TypeOK
<1>3. \A e \in Network!Joined :
         e[1] \in junctions /\ e[2] \in junctions /\ e \in Network!Pair /\ <<e[2], e[1]>> \in Network!Joined
  BY <1>1, <1>2 DEF Network!Joined, Network!Pair
<1>4. Network!Leads(Network!Joined, junctions) /\ Network!Joined \in SUBSET Network!Pair
  BY <1>3 DEF Network!Leads
<1>5. Network!Component[n] \subseteq junctions /\ n \in Network!Component[n]
  BY <1>1, <1>4, ReachIs DEF Network!Component
<1>6. \A m \in Network!Component[n] : Network!Component[m] = Network!Component[n]
  BY <1>1, <1>3, <1>4, ReachBack DEF Network!Component
<1>7. QED
  BY <1>5, <1>6

\* A point snaps to a node of the graph as SnapIsUsable says.
LEMMA SnapStep ==
    ASSUME Network!TypeOK, Network!Snap
    PROVE  snapped' \in junctions \cup {None} /\ Network!SnapIsUsable'
<1> DEFINE C == Network!Component
           usable == {n \in Network!Large(C) : distances[n] <= FallbackRadius}
<1>1. PICK first \in {C[n] : n \in Network!Largest(C)} \cup IF junctions = {} THEN {{}} ELSE {} :
         LET near == Network!Nearest({n \in Network!Large(C) \cup first : distances[n] <= SnapRadius})
             far == Network!Nearest({n \in Network!Large(C) : distances[n] \in (SnapRadius + 1)..FallbackRadius})
             S == IF near # {} THEN near ELSE IF far # {} THEN far ELSE {None}
         IN snapped' \in S
  BY DEF Network!Snap
<1> DEFINE within == {n \in Network!Large(C) \cup first : distances[n] <= SnapRadius}
           beyond == {n \in Network!Large(C) : distances[n] \in (SnapRadius + 1)..FallbackRadius}
<1>2. snapped' \in IF Network!Nearest(within) # {} THEN Network!Nearest(within)
                   ELSE IF Network!Nearest(beyond) # {} THEN Network!Nearest(beyond) ELSE {None}
  BY <1>1
<1>3. /\ junctions \in SUBSET Junction /\ distances \in [Junction -> Nat] /\ None \notin Junction
      /\ SnapRadius \in Nat /\ FallbackRadius \in Nat /\ SnapRadius <= FallbackRadius
  BY NetworkAssumed DEF Network!TypeOK, Network!Assumptions
<1>4. Network!Large(C) \subseteq junctions /\ Network!Largest(C) \subseteq junctions
  BY DEF Network!Large, Network!Largest
<1>5. first \subseteq junctions /\ first \subseteq Network!Largest(C)
  <2>1. CASE first = {}
    BY <2>1
  <2>2. CASE first # {}
    <3>1. PICK l \in Network!Largest(C) : first = C[l]
      BY <1>1, <2>2
    <3>2. l \in junctions /\ \A m \in junctions : Network!Cardinality(C[m]) <= Network!Cardinality(C[l])
      BY <3>1 DEF Network!Largest
    <3>3. C[l] \subseteq junctions /\ \A m \in C[l] : C[m] = C[l]
      BY <3>2, ComponentsAre
    <3>4. \A n \in first : n \in junctions /\ \A m \in junctions : Network!Cardinality(C[m]) <= Network!Cardinality(C[n])
      BY <3>1, <3>2, <3>3
    <3>5. QED
      BY <3>4 DEF Network!Largest
  <2>3. QED
    BY <2>1, <2>2
<1> DEFINE Fits(n) == /\ n \in junctions /\ n \in usable \cup Network!Largest(C)
                      /\ \A m \in usable : distances[n] <= distances[m]
<1> HIDE DEF C
<1>6. within \in SUBSET Junction /\ beyond \in SUBSET Junction /\ \A n \in junctions : distances[n] \in Nat
  BY <1>3, <1>4, <1>5
<1>7. ASSUME NEW n \in Network!Nearest(within) PROVE Fits(n)
  <2>1. n \in within /\ \A m \in within : distances[n] <= distances[m]
    BY DEF Network!Nearest
  <2>2. n \in junctions /\ n \in usable \cup Network!Largest(C)
    BY <1>3, <1>4, <1>5, <1>6, <2>1
  <2>3. ASSUME NEW m \in usable PROVE distances[n] <= distances[m]
    <3>1. CASE distances[m] <= SnapRadius
      BY <2>1, <3>1
    <3>2. CASE ~(distances[m] <= SnapRadius)
      <4>1. m \in junctions /\ distances[m] \in Nat /\ distances[n] \in Nat /\ distances[n] <= SnapRadius
        BY <1>4, <1>6, <2>1, <2>2
      <4>2. QED
        BY <1>3, <3>2, <4>1
    <3>3. QED
      BY <3>1, <3>2
  <2>4. QED
    BY <2>2, <2>3
<1>8. ASSUME within = {} PROVE \A m \in usable : m \in beyond
  <2> TAKE m \in usable
  <2>1. distances[m] \in Nat /\ m \in Network!Large(C) /\ m \notin within
    BY <1>4, <1>6, <1>8
  <2>2. QED
    BY <1>3, <2>1
<1>9. ASSUME within = {}, NEW n \in Network!Nearest(beyond) PROVE Fits(n)
  <2>1. n \in beyond /\ \A m \in beyond : distances[n] <= distances[m]
    BY DEF Network!Nearest
  <2>2. distances[n] \in Nat
    BY <1>4, <1>6, <2>1
  <2>3. QED
    BY <1>3, <1>4, <1>8, <1>9, <2>1, <2>2
<1> DEFINE Right(x) == IF x = None THEN usable = {} ELSE Fits(x)
<1>11. Right(snapped')
  <2>1. \A n : Fits(n) => Right(n)
    BY <1>3
  <2> HIDE DEF Fits, within, beyond
  <2>2. CASE Network!Nearest(within) # {}
    <3>1. snapped' \in Network!Nearest(within)
      BY <1>2, <2>2
    <3> HIDE DEF Right
    <3>2. QED
      BY <1>7, <2>1, <3>1
  <2>3. CASE Network!Nearest(within) = {}
    <3>1. within = {}
      BY <1>3, <1>6, <2>3, NearestExists
    <3>2. CASE Network!Nearest(beyond) # {}
      <4>1. snapped' \in Network!Nearest(beyond)
        BY <1>2, <2>3, <3>2
      <4> HIDE DEF Right
      <4>2. QED
        BY <1>9, <2>1, <3>1, <4>1
    <3>3. CASE Network!Nearest(beyond) = {}
      <4>1. snapped' = None
        BY <1>2, <2>3, <3>3
      <4>2. beyond = {}
        BY <1>3, <1>6, <3>3, NearestExists
      <4>3. usable = {}
        BY <1>8, <3>1, <4>2
      <4>4. QED
        BY <4>1, <4>3
    <3>4. QED
      BY <3>2, <3>3
  <2>4. QED
    BY <2>2, <2>3
<1>12. snapped' \in junctions \cup {None}
  BY <1>11
<1>13. /\ junctions' = junctions /\ distances' = distances /\ Network!Component' = C
  BY DEF Network!Snap, Network!asked, Network!graph, Network!Component, Network!Joined, C
<1>14. Network!SnapIsUsable'
  <2> DEFINE D == Network!Component
             L == Network!Large(D)
             M == Network!Largest(D)
  <2>1. L' = Network!Large(C) /\ M' = Network!Largest(C)
    BY <1>13 DEF Network!Large, Network!Largest
  <2>2. Network!SnapIsUsable' <=>
           (phase' = "snapped" =>
              IF snapped' = None THEN {n \in L' : distances'[n] <= FallbackRadius} = {}
              ELSE /\ snapped' \in {n \in L' : distances'[n] <= FallbackRadius} \cup M'
                   /\ \A n \in {o \in L' : distances'[o] <= FallbackRadius} : distances'[snapped'] <= distances'[n])
    BY DEF Network!SnapIsUsable
  <2> HIDE DEF L, M
  <2>3. QED
    BY <1>11, <1>13, <2>1, <2>2
<1>15. QED
  BY <1>12, <1>14

(* The invariant.                                                          *)

\* The segments that are kept are a sequence of segments.
LEMMA KeptIs ==
    ASSUME surveyed \in Survey
    PROVE  Network!Kept \in Seq(Network!Segment) /\ Len(Network!Kept) \in Nat /\ DOMAIN Network!Kept = 1..Len(Network!Kept)
<1> DEFINE D == {i \in DOMAIN surveyed : surveyed[i].class \notin Excluded[travels]}
           n == Cardinality(D)
           last == IF Network!Over THEN MaxSegments ELSE Len(Network!Wanted)
<1>1. surveyed \in Seq(Network!Segment) /\ MaxSegments \in Nat
  BY NetworkAssumed DEF Network!Assumptions
<1>2. /\ Len(surveyed) \in Nat /\ DOMAIN surveyed = 1..Len(surveyed)
      /\ \A i \in 1..Len(surveyed) : surveyed[i] \in Network!Segment
  BY <1>1, SeqIs
<1>3. IsFiniteSet(1..Len(surveyed)) /\ 1..Len(surveyed) \subseteq Nat
  BY <1>2, FS_Interval
<1>4. D \in SUBSET Nat /\ IsFiniteSet(D)
  <2>1. D \subseteq 1..Len(surveyed)
    BY <1>2
  <2> HIDE DEF D
  <2>2. QED
    BY <1>3, <2>1, FS_Subset
<1>5. n \in Nat /\ Network!Sorted(D) \in [1..n -> D]
  <2> HIDE DEF D
  <2>1. QED
    BY <1>4, SortedIs
<1>6. Network!Wanted \in [1..n -> D] /\ Len(Network!Wanted) = n
  <2>1. Network!Wanted \in [1..n -> D]
    BY <1>5 DEF Network!Wanted
  <2> HIDE DEF D, n
  <2>2. QED
    BY <1>5, <2>1, SeqOf
<1>7. last \in Nat /\ last <= n
  BY <1>1, <1>5, <1>6 DEF Network!Over
<1>8. Network!Kept = [k \in 1..last |-> surveyed[Network!Wanted[k]]]
  BY DEF Network!Kept
<1>9. \A k \in 1..last : surveyed[Network!Wanted[k]] \in Network!Segment
  <2>1. \A k \in 1..last : k \in 1..n
    BY <1>5, <1>7
  <2>2. QED
    BY <1>2, <1>6, <2>1
<1> HIDE DEF last
<1>10. Network!Kept \in [1..last -> Network!Segment]
  BY <1>8, <1>9
<1>11. QED
  BY <1>7, <1>10, SeqOf

\* The graph so far has the types and the slots the steps of the build rely on.
LEMMA BuiltIsGood ==
    ASSUME Network!IInv
    PROVE  Good(Network!built)
<1>1. Network!built.arcs = roads /\ Network!built.names = roadNames /\ Network!built.shapes = roadShapes
  BY DEF Network!built
<1>2. QED
  BY <1>1 DEF Good, Network!IInv, Network!TypeOK

\* What the arcs of all segments reach is what their legal moves reach.
LEMMA TravelFollows ==
    ASSUME Network!IInv
    PROVE  Network!TravelIsLegal
<1> SUFFICES ASSUME phase = "built"
             PROVE  Network!Reach(Network!Ends(roads)) =
                       Network!Reach(UNION {Network!Moves(Network!Kept[i]) : i \in DOMAIN Network!Kept})
  BY DEF Network!TravelIsLegal
<1> DEFINE n == Len(Network!Kept)
           legal == UNION {Network!Moves(Network!Kept[i]) : i \in DOMAIN Network!Kept}
<1>1. n \in Nat /\ DOMAIN Network!Kept = 1..n /\ \A k \in 1..n : Network!Kept[k] \in Network!Segment
  BY KeptIs, SeqIs DEF Network!IInv, Network!TypeOK
<1>2. unread = <<>>
  BY DEF Network!IInv, Network!ReadInOrder
<1>3. Network!Read = n
  BY <1>1, <1>2 DEF Network!Read
<1>4. \A p \in Network!Pair : p[1] # p[2] =>
         (p \in Network!Ends(roads) <=> \E k \in 1..n : p \in Network!New(Network!Kept[k]))
  BY <1>3 DEF Network!IInv, Network!ArcsAreOfTheRead
<1>5. Network!Ends(roads) \subseteq Network!Pair
  <2>1. roads \in Seq(Network!Arc)
    BY DEF Network!IInv, Network!TypeOK
  <2>2. \A i \in DOMAIN roads : roads[i] \in Network!Arc
    BY <2>1, SeqIs
  <2>3. QED
    BY <2>2 DEF Network!Ends, Network!Arc, Network!Pair
<1>6. ASSUME NEW S \in SUBSET Junction PROVE Network!Leads(Network!Ends(roads), S) <=> Network!Leads(legal, S)
  <2>1. Network!Leads(legal, S) <=> \A k \in 1..n : Network!Leads(Network!Moves(Network!Kept[k]), S)
    BY <1>1 DEF Network!Leads
  <2>2. \A k \in 1..n : Network!Leads(Network!Moves(Network!Kept[k]), S) <=> Network!Leads(Network!New(Network!Kept[k]), S)
    BY <1>1, MovesLead
  <2>3. ASSUME \A k \in 1..n : Network!Leads(Network!New(Network!Kept[k]), S), NEW e \in Network!Ends(roads), e[1] \in S
        PROVE  e[2] \in S
    <3>1. CASE e[1] = e[2]
      BY <2>3, <3>1
    <3>2. CASE e[1] # e[2]
      <4>1. PICK k \in 1..n : e \in Network!New(Network!Kept[k])
        BY <1>4, <1>5, <3>2
      <4>2. QED
        BY <2>3, <4>1 DEF Network!Leads
    <3>3. QED
      BY <3>1, <3>2
  <2>4. ASSUME Network!Leads(Network!Ends(roads), S), NEW k \in 1..n, NEW e \in Network!New(Network!Kept[k]), e[1] \in S
        PROVE  e[2] \in S
    <3>1. CASE e[1] = e[2]
      BY <2>4, <3>1
    <3>2. CASE e[1] # e[2]
      <4>1. e \in Network!Pair
        BY <1>1, OwnNodes
      <4>2. e \in Network!Ends(roads)
        BY <1>4, <3>2, <4>1
      <4>3. QED
        BY <2>4, <4>2 DEF Network!Leads
    <3>3. QED
      BY <3>1, <3>2
  <2>5. Network!Leads(Network!Ends(roads), S) <=> \A k \in 1..n : Network!Leads(Network!New(Network!Kept[k]), S)
    <3>1. ASSUME Network!Leads(Network!Ends(roads), S) PROVE \A k \in 1..n : Network!Leads(Network!New(Network!Kept[k]), S)
      BY <2>4, <3>1 DEF Network!Leads
    <3>2. ASSUME \A k \in 1..n : Network!Leads(Network!New(Network!Kept[k]), S) PROVE Network!Leads(Network!Ends(roads), S)
      BY <2>3, <3>2 DEF Network!Leads
    <3>3. QED
      BY <3>1, <3>2
  <2> HIDE DEF legal, n
  <2>6. QED
    BY <2>1, <2>2, <2>5
<1> HIDE DEF legal
<1>7. Network!Reach(Network!Ends(roads)) = Network!Reach(legal)
  BY <1>6, SameReach
<1>8. QED
  BY <1>7 DEF legal

\* The three properties follow from the invariant.
LEMMA NetworkHolds ==
    ASSUME Network!IInv
    PROVE  Network!NetworksAreTrue
<1>1. Network!SlotsFollowTheSearch
  BY BuiltIsGood, SlotsFollow DEF Network!SlotsFollowTheSearch
<1>2. QED
  BY <1>1, TravelFollows DEF Network!NetworksAreTrue, Network!IInv

\* The invariant holds before the extraction.
LEMMA NetworkInit ==
    ASSUME Network!Init
    PROVE  Network!IInv
<1>1. Network!built.arcs = <<>> /\ Network!built.names = roadNames /\ Network!built.shapes = roadShapes
  BY DEF Network!Init, Network!built
<1>2. DOMAIN roadShapes = {} /\ roadNames = [p \in Network!Pair |-> None]
  BY DEF Network!Init
<1>3. \A p \in Network!Pair : Network!SlotKept(Network!built, p)
  BY <1>1, <1>2 DEF Network!SlotKept, Network!Between
<1>4. None \in Network!Label
  BY DEF Network!Label
<1>5. Network!TypeOK
  <2>1. /\ surveyed \in Survey /\ travels \in Mode /\ distances \in Distance /\ phase = "asked" /\ unread = <<>>
        /\ cut = FALSE /\ junctions = {} /\ roads = <<>> /\ snapped = None
    BY DEF Network!Init
  <2>2. /\ roadNames \in [Network!Pair -> Network!Label]
        /\ DOMAIN roadShapes \subseteq Network!Pair /\ \A p \in DOMAIN roadShapes : roadShapes[p] \in Network!Shape
    BY <1>2, <1>4
  <2>3. <<>> \in Seq(Network!Segment) /\ <<>> \in Seq(Network!Arc) /\ DOMAIN <<>> = {}
    OBVIOUS
  <2>4. QED
    BY <2>1, <2>2, <2>3 DEF Network!TypeOK
<1>6. QED
  BY <1>3, <1>5 DEF Network!Init, Network!IInv, Network!ReadInOrder, Network!ArcsAreOfTheRead, Network!SnapIsUsable

\* The extraction keeps the invariant: nothing is read yet.
LEMMA ExtractKeeps ==
    ASSUME Network!IInv, Network!Extract
    PROVE  Network!IInv'
<1>1. /\ surveyed' = surveyed /\ travels' = travels /\ distances' = distances
      /\ junctions' = junctions /\ roads' = roads /\ roadNames' = roadNames /\ roadShapes' = roadShapes /\ snapped' = snapped
      /\ phase = "asked" /\ phase' = "building" /\ unread' = Network!Kept /\ cut' = Network!Over
  BY DEF Network!Extract, Network!asked, Network!graph
<1>2. Network!Kept \in Seq(Network!Segment) /\ Len(Network!Kept) \in Nat /\ DOMAIN Network!Kept = 1..Len(Network!Kept)
  BY KeptIs DEF Network!IInv, Network!TypeOK
<1>3. Network!Kept' = Network!Kept /\ Network!built' = Network!built
  BY <1>1 DEF Network!Kept, Network!Over, Network!Wanted, Network!built
<1>4. roads = <<>>
  BY <1>1 DEF Network!IInv, Network!ReadInOrder
<1>5. Network!TypeOK'
  <2>1. Network!Over \in BOOLEAN
    BY DEF Network!Over
  <2>2. QED
    BY <1>1, <1>2, <2>1 DEF Network!IInv, Network!TypeOK
<1>6. Network!Read' = 0
  BY <1>1, <1>2, <1>3 DEF Network!Read
<1>7. Network!ReadInOrder'
  BY <1>1, <1>2, <1>3, <1>6 DEF Network!ReadInOrder
<1>8. Network!Ends(roads)' = {}
  BY <1>1, <1>4 DEF Network!Ends
<1>9. Network!ArcsAreOfTheRead'
  <2>1. \A k : k \notin 1..0
    OBVIOUS
  <2>2. QED
    BY <1>6, <1>8, <2>1 DEF Network!ArcsAreOfTheRead
<1>10. \A p \in Network!Pair : Network!SlotKept(Network!built, p)'
  BY <1>3 DEF Network!IInv, Network!SlotKept, Network!Between, Network!Lightest, Network!HasSlot
<1>11. Network!SnapIsUsable'
  BY <1>1 DEF Network!SnapIsUsable
<1>12. QED
  BY <1>5, <1>7, <1>9, <1>10, <1>11 DEF Network!IInv

\* The arcs of a segment depend on the mode only.
LEMMA NewStays ==
    ASSUME travels' = travels, NEW s
    PROVE  Network!New(s)' = Network!New(s)
<1>1. \A h : Network!Open(s, h)' = Network!Open(s, h)
  BY DEF Network!Open, Network!Ruling, Network!Applies
<1>2. Network!Headings(s)' = Network!Headings(s)
  BY <1>1 DEF Network!Headings
<1>3. Network!Ways(s)' = Network!Ways(s)
  BY <1>2 DEF Network!Ways
<1>4. QED
  BY <1>3 DEF Network!New

\* A segment keeps the invariant: its arcs are those of the one that was read
\* next.
LEMMA AddSegmentKeeps ==
    ASSUME Network!IInv, Network!AddSegment
    PROVE  Network!IInv'
<1> DEFINE s == Head(unread)
           g1 == Network!AddAll(Network!built, Network!Ties(s, 0))
           g2 == Network!AddAll(g1, Network!Ties(s, s.length))
           g == Network!AddAll(g2, Network!Ways(s))
           n == Len(Network!Kept)
           r == Network!Read
<1>1. /\ surveyed' = surveyed /\ travels' = travels /\ distances' = distances /\ phase' = phase /\ phase = "building"
      /\ cut' = cut /\ snapped' = snapped /\ unread # <<>> /\ unread' = Tail(unread)
      /\ junctions' = junctions \cup Own(s) /\ roads' = g.arcs /\ roadNames' = g.names /\ roadShapes' = g.shapes
  BY DEF Network!AddSegment, Network!asked, Own
<1>2. n \in Nat /\ DOMAIN Network!Kept = 1..n /\ \A k \in 1..n : Network!Kept[k] \in Network!Segment
  BY KeptIs, SeqIs DEF Network!IInv, Network!TypeOK
<1>3. r \in Nat /\ r = n - Len(unread) /\ \A k \in 1..Len(unread) : unread[k] = Network!Kept[k + r]
  BY <1>1 DEF Network!IInv, Network!ReadInOrder, Network!Read
<1>4. unread \in Seq(Network!Segment) /\ Len(unread) \in Nat /\ Len(unread) # 0
  <2>1. unread \in Seq(Network!Segment)
    BY DEF Network!IInv, Network!TypeOK
  <2>2. QED
    BY <1>1, <2>1
<1>5. /\ s \in Network!Segment /\ s = unread[1]
      /\ Tail(unread) \in Seq(Network!Segment) /\ Len(Tail(unread)) = Len(unread) - 1
      /\ \A k \in 1..(Len(unread) - 1) : Tail(unread)[k] = unread[k + 1]
  BY <1>4
<1>6. s = Network!Kept[r + 1] /\ r + 1 \in 1..n /\ r + 1 \in Nat
  BY <1>2, <1>3, <1>4, <1>5
<1>7. Good(Network!built) /\ Network!built.arcs = roads
  BY BuiltIsGood DEF Network!built
<1>8. Good(g) /\ Network!Ends(g.arcs) = Network!Ends(roads) \cup Proper(Network!New(s))
  <2> HIDE DEF s
  <2>1. /\ Network!Ties(s, 0) \in Seq(Network!Arc) /\ Network!Ties(s, s.length) \in Seq(Network!Arc)
        /\ Network!Ways(s) \in Seq(Network!Arc)
    BY <1>5, TiesAre, WaysAre
  <2>2. Good(g1) /\ Network!Ends(g1.arcs) = Network!Ends(roads) \cup Proper(Network!Ends(Network!Ties(s, 0)))
    BY <1>7, <2>1, AddAllKeeps
  <2> HIDE DEF g1
  <2>3. Good(g2) /\ Network!Ends(g2.arcs) = Network!Ends(g1.arcs) \cup Proper(Network!Ends(Network!Ties(s, s.length)))
    BY <2>1, <2>2, AddAllKeeps
  <2> HIDE DEF g2
  <2>4. Good(g) /\ Network!Ends(g.arcs) = Network!Ends(g2.arcs) \cup Proper(Network!Ends(Network!Ways(s)))
    BY <2>1, <2>3, AddAllKeeps
  <2>5. Proper(Network!New(s)) =
           Proper(Network!Ends(Network!Ties(s, 0))) \cup Proper(Network!Ends(Network!Ties(s, s.length)))
           \cup Proper(Network!Ends(Network!Ways(s)))
    BY DEF Proper, Network!New
  <2> HIDE DEF g
  <2>6. QED
    BY <2>2, <2>3, <2>4, <2>5
<1> HIDE DEF g, s, n, r
<1>9. Own(s) \subseteq Junction /\ \A e \in Network!New(s) : e \in Network!Pair /\ e[1] \in Own(s) /\ e[2] \in Own(s)
  BY <1>5, OwnNodes
<1>10. Network!Ends(roads)' = Network!Ends(g.arcs)
  BY <1>1 DEF Network!Ends
<1>11. Network!TypeOK'
  <2>1. \A e \in Network!Ends(g.arcs) : e[1] \in junctions' /\ e[2] \in junctions'
    <3>1. \A i \in DOMAIN roads : roads[i].from \in junctions /\ roads[i].to \in junctions
      BY DEF Network!IInv, Network!TypeOK
    <3>2. \A e \in Network!Ends(roads) : e[1] \in junctions /\ e[2] \in junctions
      BY <3>1 DEF Network!Ends
    <3>3. \A e \in Proper(Network!New(s)) : e[1] \in Own(s) /\ e[2] \in Own(s)
      BY <1>9 DEF Proper
    <3>4. QED
      BY <1>1, <1>8, <3>2, <3>3
  <2>2. \A i \in DOMAIN roads' : {roads'[i].from, roads'[i].to} \subseteq junctions'
    <3>1. \A i \in DOMAIN roads' : <<roads'[i].from, roads'[i].to>> \in Network!Ends(g.arcs)
      BY <1>1 DEF Network!Ends
    <3>2. QED
      BY <2>1, <3>1
  <2>3. /\ roads' \in Seq(Network!Arc) /\ roadNames' \in [Network!Pair -> Network!Label]
        /\ DOMAIN roadShapes' \subseteq Network!Pair /\ \A p \in DOMAIN roadShapes' : roadShapes'[p] \in Network!Shape
    BY <1>1, <1>8 DEF Good
  <2>4. junctions' \subseteq Junction /\ snapped' \in junctions' \cup {None}
    BY <1>1, <1>9 DEF Network!IInv, Network!TypeOK
  <2>5. unread' \in Seq(Network!Segment)
    BY <1>1, <1>5
  <2>6. QED
    BY <1>1, <2>2, <2>3, <2>4, <2>5 DEF Network!IInv, Network!TypeOK
<1>12. Network!Kept' = Network!Kept
  BY <1>1 DEF Network!Kept, Network!Over, Network!Wanted
<1>13. Network!Read' = r + 1
  BY <1>1, <1>2, <1>3, <1>4, <1>5, <1>12 DEF Network!Read, n
<1>14. Network!ReadInOrder'
  <2>1. ASSUME NEW k \in 1..Len(unread') PROVE unread'[k] = Network!Kept[k + (r + 1)]
    <3>1. k \in 1..(Len(unread) - 1) /\ k + 1 \in 1..Len(unread) /\ (k + 1) + r = k + (r + 1)
      BY <1>1, <1>3, <1>4, <1>5
    <3>2. QED
      BY <1>1, <1>3, <1>5, <3>1
  <2>2. QED
    BY <1>1, <1>6, <1>12, <1>13, <2>1 DEF Network!ReadInOrder
<1>15. Network!ArcsAreOfTheRead'
  <2>1. \A p \in Network!Pair : p[1] # p[2] =>
           (p \in Network!Ends(roads) <=> \E k \in 1..r : p \in Network!New(Network!Kept[k]))
    BY <1>1 DEF Network!IInv, Network!ArcsAreOfTheRead, r
  <2>2. ASSUME NEW p \in Network!Pair, p[1] # p[2]
        PROVE  p \in Network!Ends(g.arcs) <=> \E k \in 1..(r + 1) : p \in Network!New(Network!Kept[k])
    <3>1. p \in Network!Ends(g.arcs) <=> p \in Network!Ends(roads) \/ p \in Network!New(s)
      BY <1>8, <2>2 DEF Proper
    <3>2. (1..(r + 1)) = (1..r) \cup {r + 1}
      BY <1>3
    <3>3. QED
      BY <1>6, <2>1, <2>2, <3>1, <3>2
  <2>3. \A k : Network!New(Network!Kept[k])' = Network!New(Network!Kept[k])
    BY <1>1, <1>12, NewStays
  <2>4. QED
    BY <1>10, <1>13, <2>2, <2>3 DEF Network!ArcsAreOfTheRead
<1>16. \A p \in Network!Pair : Network!SlotKept(Network!built, p)'
  <2>1. Network!built'.arcs = g.arcs /\ Network!built'.names = g.names /\ Network!built'.shapes = g.shapes
    BY <1>1 DEF Network!built
  <2>2. \A p \in Network!Pair : Network!SlotKept(g, p)
    BY <1>8 DEF Good
  <2>3. QED
    BY <2>1, <2>2 DEF Network!SlotKept, Network!Between, Network!Lightest, Network!HasSlot
<1>17. Network!SnapIsUsable'
  BY <1>1 DEF Network!SnapIsUsable
<1>18. QED
  BY <1>11, <1>14, <1>15, <1>16, <1>17 DEF Network!IInv

\* What a step that leaves the segments and the graph alone keeps.
LEMMA NetworkRests ==
    ASSUME Network!IInv, phase # "asked", phase' # "asked", phase' # "building" => unread = <<>>,
           UNCHANGED <<Network!asked, unread, cut, Network!graph>>
    PROVE  /\ Network!ReadInOrder' /\ Network!ArcsAreOfTheRead'
           /\ \A p \in Network!Pair : Network!SlotKept(Network!built, p)'
           /\ phase' \in {"building", "built", "snapped"} /\ snapped' \in junctions \cup {None} => Network!TypeOK'
<1>1. /\ surveyed' = surveyed /\ travels' = travels /\ distances' = distances /\ unread' = unread /\ cut' = cut
      /\ junctions' = junctions /\ roads' = roads /\ roadNames' = roadNames /\ roadShapes' = roadShapes
  BY DEF Network!asked, Network!graph
<1>2. Network!Kept' = Network!Kept /\ Network!built' = Network!built
  BY <1>1 DEF Network!Kept, Network!Over, Network!Wanted, Network!built
<1>3. Network!Read' = Network!Read
  BY <1>1, <1>2 DEF Network!Read
<1>4. Network!ReadInOrder'
  BY <1>1, <1>2, <1>3 DEF Network!IInv, Network!ReadInOrder
<1>5. Network!ArcsAreOfTheRead'
  <2>1. \A k : Network!New(Network!Kept[k])' = Network!New(Network!Kept[k])
    BY <1>1, <1>2, NewStays
  <2>2. Network!Ends(roads)' = Network!Ends(roads)
    BY <1>1 DEF Network!Ends
  <2>3. QED
    BY <1>3, <2>1, <2>2 DEF Network!IInv, Network!ArcsAreOfTheRead
<1>6. \A p \in Network!Pair : Network!SlotKept(Network!built, p)'
  BY <1>2 DEF Network!IInv, Network!SlotKept, Network!Between, Network!Lightest, Network!HasSlot
<1>7. ASSUME phase' \in {"building", "built", "snapped"}, snapped' \in junctions \cup {None} PROVE Network!TypeOK'
  BY <1>1, <1>7 DEF Network!IInv, Network!TypeOK
<1>8. QED
  BY <1>4, <1>5, <1>6, <1>7

\* Every step of the part keeps the invariant.
LEMMA NetworkStep ==
    ASSUME Network!IInv, Network!Next \/ UNCHANGED Network!vars
    PROVE  Network!IInv'
<1>1. CASE Network!Extract
  BY <1>1, ExtractKeeps
<1>2. CASE Network!AddSegment
  BY <1>2, AddSegmentKeeps
<1>3. CASE Network!Built
  <2>1. /\ phase = "building" /\ phase' = "built" /\ unread = <<>> /\ snapped' = snapped
        /\ UNCHANGED <<Network!asked, unread, cut, Network!graph>>
    BY <1>3 DEF Network!Built
  <2>2. snapped' \in junctions \cup {None}
    BY <2>1 DEF Network!IInv, Network!TypeOK
  <2>3. Network!SnapIsUsable'
    BY <2>1 DEF Network!SnapIsUsable
  <2>4. QED
    BY <2>1, <2>2, <2>3, NetworkRests DEF Network!IInv
<1>4. CASE Network!Snap
  <2>1. phase = "built" /\ phase' = "snapped" /\ UNCHANGED <<Network!asked, unread, cut, Network!graph>>
    BY <1>4 DEF Network!Snap
  <2>2. unread = <<>>
    BY <2>1 DEF Network!IInv, Network!ReadInOrder
  <2>3. snapped' \in junctions \cup {None} /\ Network!SnapIsUsable'
    BY <1>4, SnapStep DEF Network!IInv
  <2>4. QED
    BY <2>1, <2>2, <2>3, NetworkRests DEF Network!IInv
<1>5. CASE UNCHANGED Network!vars
  <2>1. /\ UNCHANGED <<Network!asked, unread, cut, Network!graph>> /\ phase' = phase /\ snapped' = snapped
        /\ surveyed' = surveyed /\ travels' = travels /\ distances' = distances /\ unread' = unread /\ cut' = cut
        /\ junctions' = junctions /\ roads' = roads /\ roadNames' = roadNames /\ roadShapes' = roadShapes
    BY <1>5 DEF Network!vars, Network!asked, Network!graph
  <2>2. Network!SnapIsUsable'
    BY <2>1 DEF Network!IInv, Network!SnapIsUsable, Network!Component, Network!Joined, Network!Large, Network!Largest
  <2>3. Network!TypeOK'
    BY <2>1 DEF Network!IInv, Network!TypeOK
  <2>4. CASE phase = "asked"
    <3>1. Network!ReadInOrder' /\ Network!ArcsAreOfTheRead'
      BY <2>1, <2>4 DEF Network!IInv, Network!ReadInOrder, Network!ArcsAreOfTheRead
    <3>2. \A p \in Network!Pair : Network!SlotKept(Network!built, p)'
      BY <2>1 DEF Network!IInv, Network!built, Network!SlotKept, Network!Between, Network!Lightest, Network!HasSlot
    <3>3. QED
      BY <2>2, <2>3, <3>1, <3>2 DEF Network!IInv
  <2>5. CASE phase # "asked"
    <3>1. phase' # "building" => unread = <<>>
      BY <2>1, <2>5 DEF Network!IInv, Network!ReadInOrder
    <3>2. QED
      BY <2>1, <2>2, <2>3, <2>5, <3>1, NetworkRests DEF Network!IInv
  <2>6. QED
    BY <2>4, <2>5
<1>6. QED
  BY <1>1, <1>2, <1>3, <1>4, <1>5 DEF Network!Next

\* For any segments, rules, modes, nodes and distances: one node can be reached
\* from another in the graph exactly when there are legal moves along the
\* segments that lead there; each pair has the name and the shape of the arc a
\* search would take; and a point snaps to the nearest node of a component worth
\* routing on, or to one as near of the largest.
THEOREM StreetsAreTrue == MCSpec => []NetworkIsTrue
<1> DEFINE Inv == part = "network" => Network!IInv
<1>1. MCInit => Inv
  BY NetworkInit DEF MCInit
<1>2. Inv /\ [MCNext]_MCVars => Inv'
  <2> SUFFICES ASSUME Network!IInv, [MCNext]_MCVars, part = "network" PROVE Network!IInv'
    BY DEF MCNext, MCVars
  <2>1. Network!Next \/ UNCHANGED Network!vars
    BY DEF MCNext, MCVars, networkVars, Network!vars
  <2>2. QED
    BY <2>1, NetworkStep
<1>3. Inv => NetworkIsTrue
  BY NetworkHolds DEF NetworkIsTrue, Network!IInv
<1> HIDE DEF Inv
<1>4. QED
  BY <1>1, <1>2, <1>3, PTL DEF MCSpec

(***************************************************************************)
(* Preferences: the file is the document of SharedDocument.                *)
(***************************************************************************)

\* Normalising a document gives one without junk, and leaves such a one alone.
LEMMA NormalizeGivesDoc == \A d \in RawDoc : Normalize(d) \in Doc
BY ValueAssumption DEF RawDoc, Doc, Normalize, Normal

LEMMA NormalizeKeepsDoc == \A d \in Doc : d \in RawDoc /\ Normalize(d) = d
BY ValueAssumption DEF RawDoc, Doc, Normalize, Normal

\* Merging an update into a document gives what may need normalising.
LEMMA MergeGivesRaw == \A d \in Doc, u \in Update : Merge(d, u) \in RawDoc
BY UpdateAssumption, ValueAssumption DEF RawDoc, Doc, Merge

LEMMA EmptyIsDoc == Empty \in Doc
BY DEF Empty, Doc

\* A file that is not torn reads as a document.
LEMMA ParsedIsDoc == \A x \in RawDoc \cup {Missing} : Parsed(x) \in Doc /\ Parsed(x) # Torn
<1> SUFFICES ASSUME NEW x \in RawDoc \cup {Missing} PROVE Parsed(x) \in Doc /\ Parsed(x) # Torn
  OBVIOUS
<1>1. Parsed(x) \in Doc
  BY NormalizeGivesDoc, EmptyIsDoc DEF Parsed
<1>2. Parsed(x) \in RawDoc
  BY <1>1, NormalizeKeepsDoc
<1>3. QED
  BY <1>1, <1>2, FileAssumption DEF RawDoc

LEMMA PreferencesInit == Init => IInv
<1> SUFFICES ASSUME Init PROVE IInv
  OBVIOUS
<1>1. TypeOK
  BY EmptyIsDoc, CrashAssumption DEF Init, TypeOK, PC
<1>2. QED
  BY <1>1 DEF Init, IInv, Exclusive, OnePerProcess, MergeIsWritten, LoadedIsCurrent

LEMMA PreferencesStep == IInv /\ [Next]_vars => IInv'
<1> SUFFICES ASSUME IInv, [Next]_vars PROVE IInv'
  OBVIOUS
<1> USE ProcAssumption DEF IInv, TypeOK, PC, Exclusive, OnePerProcess, MergeIsWritten, LoadedIsCurrent, Go
<1>1. ASSUME NEW c \in Request, NEW o \in Update \cup {ToClear, ToRead}, Ask(c, o) PROVE IInv'
  BY <1>1 DEF Ask
<1>2. ASSUME NEW c \in Request, LockThread(c) PROVE IInv'
  BY <1>2 DEF LockThread
<1>3. ASSUME NEW c \in Request, LockFile(c) PROVE IInv'
  BY <1>3 DEF LockFile
<1>4. ASSUME NEW c \in Request, Load(c) PROVE IInv'
  <2>1. CASE file = Torn
    BY <1>4, <2>1 DEF Load
  <2>2. CASE file # Torn
    <3>1. Parsed(file) \in Doc
      BY <2>2, ParsedIsDoc
    <3>2. QED
      BY <1>4, <2>2, <3>1 DEF Load
  <2>3. QED
    BY <2>1, <2>2
<1>5. ASSUME NEW c \in Request, Unlink(c) PROVE IInv'
  BY <1>5 DEF Unlink
<1>6. ASSUME NEW c \in Request, OpenTmp(c) PROVE IInv'
  BY <1>6 DEF OpenTmp
<1>7. ASSUME NEW c \in Request, WriteTmp(c) PROVE IInv'
  <2>1. Normalize(Merge(loaded[c], op[c])) \in Doc
    BY <1>7, MergeGivesRaw, NormalizeGivesDoc DEF WriteTmp
  <2>2. QED
    BY <1>7, <2>1 DEF WriteTmp
<1>8. ASSUME NEW c \in Request, Replace(c) PROVE IInv'
  <2>1. tmp \in Doc
    BY <1>8, MergeGivesRaw, NormalizeGivesDoc DEF Replace
  <2>2. tmp \in RawDoc
    BY <2>1, NormalizeKeepsDoc
  <2>3. QED
    BY <1>8, <2>2 DEF Replace
<1>9. ASSUME NEW c \in Request, SaveFails(c) PROVE IInv'
  BY <1>9 DEF SaveFails
<1>10. ASSUME NEW c \in Request, Unlock(c) PROVE IInv'
  BY <1>10, EmptyIsDoc DEF Unlock
<1>11. ASSUME NEW p \in Process, Crash(p) PROVE IInv'
  BY <1>11, EmptyIsDoc, CrashAssumption DEF Crash
<1>12. CASE UNCHANGED vars
  BY <1>12 DEF vars
<1>13. QED
  BY <1>1, <1>2, <1>3, <1>4, <1>5, <1>6, <1>7, <1>8, <1>9, <1>10, <1>11, <1>12 DEF Next

\* The steps of the other parts leave the preferences as they are.
LEMMA PreferencesAlone == [MCNext]_MCVars => [Next]_vars
BY DEF MCNext, MCVars, vars

LEMMA NoPreferencesIsInit == NoPreferences => Init
BY DEF NoPreferences, Init

\* The strengthening is an invariant.
THEOREM Inductive == MCSpec => []IInv
<1>1. MCInit => IInv
  BY PreferencesInit, NoPreferencesIsInit DEF MCInit
<1>2. IInv /\ [MCNext]_MCVars => IInv'
  BY PreferencesStep, PreferencesAlone
<1>3. QED
  BY <1>1, <1>2, PTL DEF MCSpec

\* What an update merges into is, when it is written back, still what the file
\* says, whatever other threads and processes do, fail or die in between.
THEOREM NothingIsLost == MCSpec => []LoadedIsCurrent
<1>1. IInv => LoadedIsCurrent
  BY DEF IInv
<1>2. QED
  BY <1>1, Inductive, PTL

\* The document as SharedDocument sees it.
InFile == IF file = Torn THEN Torn ELSE Parsed(file)

LEMMA InitMaps == Init => Document!Init
<1> SUFFICES ASSUME Init PROVE InFile \in Doc \cup {Torn}
  BY DEF Document!Init, Document!Doc, Doc, InFile
<1>1. QED
  BY ParsedIsDoc DEF Init, InFile

\* A replacement is the update, applied to the document as it is.
LEMMA ReplaceApplies ==
    ASSUME IInv, NEW c \in Request, Replace(c)
    PROVE  Document!Apply(Normalize(op[c]))
<1> DEFINE d == loaded[c]  u == op[c]
<1>1. /\ file # Torn /\ d = Parsed(file) /\ d \in Doc /\ u \in Update
      /\ file' = Normalize(Merge(d, u))
  BY DEF IInv, TypeOK, Replace, MergeIsWritten, LoadedIsCurrent
<1>2. InFile = d /\ InFile # Torn
  BY <1>1, ParsedIsDoc DEF InFile, IInv, TypeOK
<1>3. file' \in Doc
  BY <1>1, MergeGivesRaw, NormalizeGivesDoc
<1>4. file' \in RawDoc /\ Normalize(file') = file'
  BY <1>3, NormalizeKeepsDoc
<1>5. file' # Torn /\ file' # Missing
  BY <1>4, FileAssumption DEF RawDoc, Missing
<1>6. InFile' = file'
  BY <1>4, <1>5 DEF InFile, Parsed
<1>7. Normalize(Merge(d, u)) = [f \in Field |-> IF Normalize(u)[f] = Omitted THEN d[f] ELSE Normalize(u)[f]]
  <2> SUFFICES ASSUME NEW f \in Field
               PROVE  Normal(Merge(d, u)[f]) = IF Normalize(u)[f] = Omitted THEN d[f] ELSE Normalize(u)[f]
    BY DEF Normalize
  <2>1. Normalize(u)[f] = Normal(u[f]) /\ Merge(d, u)[f] = IF u[f] = Omitted THEN d[f] ELSE u[f]
    BY DEF Normalize, Merge
  <2>2. d[f] \in Value \cup {None}
    BY <1>1 DEF Doc
  <2>3. QED
    BY <2>1, <2>2, ValueAssumption DEF Normal
<1>8. QED
  BY <1>1, <1>2, <1>6, <1>7 DEF Document!Apply, Document!Merge, InFile

LEMMA StepMaps == IInv /\ [Next]_vars => [Document!Next]_InFile
<1> SUFFICES ASSUME IInv, [Next]_vars PROVE [Document!Next]_InFile
  OBVIOUS
<1>1. ASSUME NEW c \in Request, Replace(c) PROVE Document!Next
  <2>1. op[c] \in Update
    BY <1>1 DEF IInv, MergeIsWritten, Replace
  <2>2. QED
    BY <1>1, <2>1, ReplaceApplies DEF Document!Next
<1>2. ASSUME NEW c \in Request, Unlink(c) PROVE Document!Next
  <2>1. file' = Missing /\ Missing # Torn
    BY <1>2, FileAssumption DEF Unlink, Missing
  <2>2. InFile' = Empty
    BY <2>1 DEF InFile, Parsed
  <2>3. QED
    BY <2>2 DEF Document!Next, Document!Clear, Document!Empty, Empty, InFile
<1>3. CASE UNCHANGED file
  BY <1>3 DEF InFile, Parsed
<1>4. QED
  BY <1>1, <1>2, <1>3 DEF Next, vars, Ask, LockThread, LockFile, Load, OpenTmp, WriteTmp, SaveFails,
     Unlock, Crash

\* For any processes, threads, updates and crashes: the file is one document,
\* into which each update merges in one step.
THEOREM Refines == MCSpec => ImplementsDocument
<1>1. MCInit => Document!Init
  BY NoPreferencesIsInit, InitMaps DEF MCInit
<1>2. IInv /\ [MCNext]_MCVars => [Document!Next]_InFile
  BY PreferencesAlone, StepMaps
<1>3. QED
  BY <1>1, <1>2, Inductive, PTL DEF MCSpec, ImplementsDocument, Document!Spec, InFile
=============================================================================
