----------------------------- MODULE HomeRegion -----------------------------
(***************************************************************************)
(* home_region.py: the home region is geocoded once, by the first caller   *)
(* that ranks a result or by the start-up thread, under a re-entrant lock  *)
(* that everybody else who ranks waits for.  The search for it leases read *)
(* slots (SlotPool), which threads inside isolated_reads() hold while they *)
(* wait for that lock.                                                     *)
(***************************************************************************)
EXTENDS Naturals, FiniteSets

CONSTANTS
    Caller,     \* threads that geocode a name
    Isolated,   \* those inside isolated_reads()
    Startup,    \* the thread of _warm_home_async()
    Cap,        \* read slots
    Point,      \* where the home text resolves
    None,       \* no home, nobody
    Unset       \* not ranked yet

Thread == Caller \cup {Startup}

\* What is assumed of the constants.
Assumptions ==
    /\ IsFiniteSet(Caller) /\ Isolated \subseteq Caller /\ Startup \notin Caller
    /\ None \notin Thread /\ None # Point /\ Unset \notin {None, Point}
    /\ Cap \in Nat \ {0}

VARIABLES
    configured,  \* PLACEROOT_HOME names something
    resolved,    \* _resolved
    home,        \* _home
    lock,        \* _lock
    holders,     \* threads that hold a read slot
    pc,          \* where each thread is in its geocode()
    nested,      \* threads inside the geocode() of the home text
    asked,       \* how often the home text was geocoded
    seen         \* the home each thread ranked with

vars == <<configured, resolved, home, lock, holders, pc, nested, asked, seen>>

Slots == INSTANCE SlotPool

Init ==
    /\ configured \in BOOLEAN
    /\ resolved = FALSE /\ home = None
    /\ lock = None /\ holders = {}
    /\ pc = [t \in Thread |-> "idle"]
    /\ nested = {} /\ asked = 0
    /\ seen = [t \in Thread |-> Unset]

Go(t, l) == pc' = [pc EXCEPT ![t] = l]

\* A tool call, which enters isolated_reads() first if it is of a batch.
Begin(c) ==
    /\ pc[c] = "idle"
    /\ IF c \in Isolated THEN Slots!Acquire(c) ELSE UNCHANGED holders
    /\ Go(c, "search")
    /\ seen' = [seen EXCEPT ![c] = Unset]
    /\ UNCHANGED <<configured, resolved, home, lock, nested, asked>>

\* kick_home_autowarm()
BeginStartup ==
    /\ pc[Startup] = "idle"
    /\ Go(Startup, "rank")
    /\ UNCHANGED <<configured, resolved, home, lock, holders, nested, asked, seen>>

Reading == {"search", "fallback"}

\* read_conn() of a thread that is not in isolation.
Lease(t) ==
    /\ pc[t] \in Reading
    /\ Slots!Acquire(t)
    /\ UNCHANGED <<configured, resolved, home, lock, pc, nested, asked, seen>>

\* The divisions, or after the ranking the places, have been read.
Read(t) ==
    /\ pc[t] \in Reading /\ t \in holders
    /\ holders' = IF t \in Isolated THEN holders ELSE holders \ {t}
    /\ Go(t, IF pc[t] = "search" THEN "rank" ELSE "answer")
    /\ UNCHANGED <<configured, resolved, home, lock, nested, asked, seen>>

Rank(t) ==
    /\ Go(t, IF t = Startup /\ t \notin nested THEN "answer" ELSE "fallback")
    /\ seen' = IF t \in nested THEN seen ELSE [seen EXCEPT ![t] = home]

\* A get_home_region() that reads the flag before it takes the lock.
RankUnlocked(t) ==
    /\ pc[t] = "rank" /\ resolved
    /\ Rank(t)
    /\ UNCHANGED <<configured, resolved, home, lock, holders, nested, asked>>

\* get_home_region(), resolved: with the lock free, or re-entered by the
\* geocode() of the home text itself, which sees no home yet.
RankWithHome(t) ==
    /\ pc[t] = "rank" /\ resolved
    /\ lock \in {None, t}
    /\ Rank(t)
    /\ UNCHANGED <<configured, resolved, home, lock, holders, nested, asked>>

\* get_home_region(), not resolved: marked as resolved at once, so that the
\* geocode() of the home text does not resolve it again.
Resolve(t) ==
    /\ pc[t] = "rank" /\ ~resolved
    /\ lock = None
    /\ resolved' = TRUE
    /\ IF configured
       THEN /\ lock' = t /\ nested' = nested \cup {t} /\ asked' = asked + 1
            /\ Go(t, "search")
       ELSE UNCHANGED <<lock, nested, asked, pc>>
    /\ UNCHANGED <<configured, home, holders, seen>>

\* The geocode() of the home text returned a hit, none, or raised: what it
\* says stays for the life of the process.
Settle(t, found) ==
    /\ pc[t] = "answer" /\ t \in nested
    /\ home' = found
    /\ lock' = None
    /\ nested' = nested \ {t}
    /\ Go(t, "rank")
    /\ UNCHANGED <<configured, resolved, holders, asked, seen>>

\* The call is over; the start-up thread stops.
End(t) ==
    /\ pc[t] = "answer" /\ t \notin nested
    /\ holders' = holders \ {t}
    /\ Go(t, IF t = Startup THEN "stopped" ELSE "idle")
    /\ UNCHANGED <<configured, resolved, home, lock, nested, asked, seen>>

Next ==
    \/ \E c \in Caller : Begin(c)
    \/ BeginStartup
    \/ \E t \in Thread :
          \/ Lease(t) \/ Read(t) \/ RankWithHome(t) \/ Resolve(t) \/ End(t)
          \/ \E found \in {Point, None} : Settle(t, found)

Spec == Init /\ [][Next]_vars

-----------------------------------------------------------------------------
TypeOK ==
    /\ configured \in BOOLEAN /\ resolved \in BOOLEAN
    /\ home \in {Point, None}
    /\ lock \in Thread \cup {None}
    /\ holders \subseteq Thread
    /\ pc \in [Thread -> {"idle", "search", "rank", "fallback", "answer", "stopped"}]
    /\ nested \subseteq Thread
    /\ asked \in Nat
    /\ seen \in [Thread -> {Unset, Point, None}]

\* The home text is geocoded once per process, and its own search does not
\* start another.
AskedOnce == asked <= 1

\* Nobody ranks with `no home' while the home is still being looked up: once
\* it is settled, every ranking has seen the one that was found.
RanksAgree == lock = None => \A t \in Thread : seen[t] \in {Unset, home}

WaitsForSlot(t) == pc[t] \in Reading /\ t \notin holders
WaitsForHome(t) == pc[t] = "rank" /\ lock \notin {None, t}

\* The thread that looks the home up can get the read slot it needs: one is
\* free, or is held by a thread that does not wait for this very lookup.
HomeIsFound ==
    lock # None /\ WaitsForSlot(lock) =>
        Cardinality(holders) < Cap \/ \E t \in holders : ~WaitsForHome(t)

HomeIsSettledOnce == AskedOnce /\ RanksAgree /\ HomeIsFound

-----------------------------------------------------------------------------
(* Until the home is settled nobody has ranked with one, and its finder is *)
(* the one thread inside the lock.  A thread that is not in isolation has  *)
(* a slot for one read only, and wants no lock meanwhile.                  *)

OneFinder ==
    /\ nested = IF lock = None THEN {} ELSE {lock}
    /\ ~resolved => lock = None /\ asked = 0
    /\ asked <= 1
UnseenBefore == ~resolved \/ lock # None => home = None /\ \A t \in Thread : seen[t] = Unset
HeldForARead == \A t \in holders : t \in Isolated \/ pc[t] \in Reading

IInv == TypeOK /\ OneFinder /\ UnseenBefore /\ RanksAgree /\ HeldForARead
=============================================================================
