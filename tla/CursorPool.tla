----------------------------- MODULE CursorPool -----------------------------
(***************************************************************************)
(* db.CursorPool and the two context managers that lease from it,          *)
(* isolated_reads() and read_conn().                                       *)
(*                                                                         *)
(* A lease is a semaphore slot plus a cursor.  The slot is taken first,    *)
(* then an idle cursor is popped or, with none idle, a new one is opened;  *)
(* none of these steps is atomic with another, and opening may fail.  On a *)
(* clean exit the cursor goes back to the idle list, unless close() ran in *)
(* the meantime; on an exception it is closed.  The slot is released last. *)
(*                                                                         *)
(* A thread-local remembers the cursor of the scope a thread is in, so a   *)
(* nested scope borrows that cursor instead of leasing a second slot.      *)
(***************************************************************************)
EXTENDS Integers, FiniteSets

CONSTANTS Thread,     \* threads that read
          Cursor,     \* identities of DuckDB cursors
          NoCursor,   \* "no cursor"
          Cap,        \* PLACEROOT_DUCKDB_CURSORS
          MaxNest     \* bound: how deep a thread nests scopes inside its lease

ASSUME ThreadAssumption == IsFiniteSet(Thread)
ASSUME CapAssumption == Cap \in Nat \ {0}
ASSUME NoCursorAssumption == NoCursor \notin Cursor
ASSUME MaxNestAssumption == MaxNest \in Nat

VARIABLES
    pc,        \* where each thread is in lease()
    cur,       \* the local `cur` of lease()
    scope,     \* the thread-locals: which of the two managers set a cursor
    nest,      \* scopes entered inside the leasing one, all borrowing
    slots,     \* value of the BoundedSemaphore
    idle,      \* self._idle
    closed,    \* self._closed
    draining,  \* cursors close() took out of _idle and has not closed yet
    live,      \* self.live
    open       \* cursors DuckDB has open

vars == <<pc, cur, scope, nest, slots, idle, closed, draining, live, open>>

PC == {"out", "waiting", "granted", "opening", "counting", "reading",
       "returning", "closing", "uncounting", "releasing"}

Scope == {"none", "isolated", "reading"}

\* Program points between _slots.acquire() and _slots.release().
Holding == PC \ {"out", "waiting"}

\* Program points at which the local `cur` is an open cursor of this lease.
WithCursor == {"counting", "reading", "returning", "closing"}

HoldersAt(S) == {t \in Thread : pc[t] \in S}

Init ==
    /\ pc = [t \in Thread |-> "out"]
    /\ cur = [t \in Thread |-> NoCursor]
    /\ scope = [t \in Thread |-> "none"]
    /\ nest = [t \in Thread |-> 0]
    /\ slots = Cap
    /\ idle = {}
    /\ closed = FALSE
    /\ draining = {}
    /\ live = 0
    /\ open = {}

Goto(t, l) == pc' = [pc EXCEPT ![t] = l]

\* read_conn() without its look at _reading.conn.
ReusesOnlyIsolated(t, kind) == scope[t] = "isolated"

\* Does entering `kind` reuse the cursor the thread-locals hold?
\* isolated_reads() looks at _isolation.conn only, read_conn() at both.
Reuses(t, kind) ==
    IF kind = "isolated" THEN scope[t] = "isolated" ELSE scope[t] # "none"

\* isolated_reads() is entered at the top of a pool worker, or inside another
\* isolated scope; no caller enters it inside read_conn().
CallerKinds(t) == IF scope[t] = "reading" THEN {"reading"} ELSE Scope \ {"none"}

-----------------------------------------------------------------------------
\* isolated_reads() or read_conn() is entered: borrow, or start a lease.
Enter(t, kind) ==
    /\ pc[t] \in {"out", "reading"}
    /\ kind \in CallerKinds(t)
    /\ IF Reuses(t, kind)
       THEN /\ nest[t] < MaxNest
            /\ nest' = [nest EXCEPT ![t] = @ + 1]
            /\ UNCHANGED <<pc, scope>>
       ELSE /\ Goto(t, "waiting")
            /\ scope' = [scope EXCEPT ![t] = kind]
            /\ UNCHANGED nest
    /\ UNCHANGED <<cur, slots, idle, closed, draining, live, open>>

\* acquire(blocking=False) with its answer ignored.
AcquireWithoutWaiting(t) ==
    /\ pc[t] = "waiting"
    /\ slots' = IF slots > 0 THEN slots - 1 ELSE 0
    /\ Goto(t, "granted")
    /\ UNCHANGED <<cur, scope, nest, idle, closed, draining, live, open>>

\* self._slots.acquire() returns.
Acquire(t) ==
    /\ pc[t] = "waiting"
    /\ slots > 0
    /\ slots' = slots - 1
    /\ Goto(t, "granted")
    /\ UNCHANGED <<cur, scope, nest, idle, closed, draining, live, open>>

\* The idle cursor is handed out and stays in the list.
TakeIdleKeepsEntry(t) ==
    /\ pc[t] = "granted"
    /\ IF idle = {}
       THEN Goto(t, "opening") /\ UNCHANGED cur
       ELSE \E c \in idle : cur' = [cur EXCEPT ![t] = c] /\ Goto(t, "reading")
    /\ UNCHANGED <<scope, nest, slots, idle, closed, draining, live, open>>

\* Every lease opens a cursor of its own.
TakeNoIdle(t) ==
    /\ pc[t] = "granted"
    /\ Goto(t, "opening")
    /\ UNCHANGED <<cur, scope, nest, slots, idle, closed, draining, live, open>>

\* _take_idle(): pop an idle cursor under the guard, or report there is none.
\* The pop is of the list's end; which idle cursor it is matters to nobody.
TakeIdle(t) ==
    /\ pc[t] = "granted"
    /\ IF idle = {}
       THEN /\ Goto(t, "opening")
            /\ UNCHANGED <<cur, idle>>
       ELSE \E c \in idle :
            /\ idle' = idle \ {c}
            /\ cur' = [cur EXCEPT ![t] = c]
            /\ Goto(t, "reading")
    /\ UNCHANGED <<scope, nest, slots, closed, draining, live, open>>

\* _open_cursor() gave a cursor.
OpenCursor(t) ==
    /\ pc[t] = "opening"
    /\ \E c \in Cursor \ open :
          /\ open' = open \cup {c}
          /\ cur' = [cur EXCEPT ![t] = c]
    /\ Goto(t, "counting")
    /\ UNCHANGED <<scope, nest, slots, idle, closed, draining, live>>

\* The `except BaseException: self._slots.release()` is missing.
OpenFailsKeepsSlot(t) ==
    /\ pc[t] = "opening"
    /\ Goto(t, "out")
    /\ scope' = [scope EXCEPT ![t] = "none"]
    /\ UNCHANGED <<cur, nest, slots, idle, closed, draining, live, open>>

\* The slot is released by the `except` and by the `finally`.
OpenFailsReleasesTwice(t) ==
    /\ pc[t] = "opening"
    /\ Goto(t, "releasing")
    /\ scope' = [scope EXCEPT ![t] = "none"]
    /\ slots' = slots + 1
    /\ UNCHANGED <<cur, nest, idle, closed, draining, live, open>>

\* _open_cursor() raised, closing what it had opened; lease() passes the
\* exception on after releasing the slot.  The scope never started.
OpenFails(t) ==
    /\ pc[t] = "opening"
    /\ Goto(t, "releasing")
    /\ scope' = [scope EXCEPT ![t] = "none"]
    /\ UNCHANGED <<cur, nest, slots, idle, closed, draining, live, open>>

\* _new_cursor(): self.live += 1 under the guard.
CountCursor(t) ==
    /\ pc[t] = "counting"
    /\ live' = live + 1
    /\ Goto(t, "reading")
    /\ UNCHANGED <<cur, scope, nest, slots, idle, closed, draining, open>>

\* A borrowing scope ends: the thread-locals are left as they are.
ExitNested(t) ==
    /\ pc[t] = "reading"
    /\ nest[t] > 0
    /\ nest' = [nest EXCEPT ![t] = @ - 1]
    /\ UNCHANGED <<pc, cur, scope, slots, idle, closed, draining, live, open>>

\* The leasing scope ends, cleanly or with an exception (which unwinds the
\* nested scopes): `finally` clears the thread-local, then lease() resumes.
Exit(t, raised) ==
    /\ pc[t] = "reading"
    /\ nest[t] = 0 \/ raised
    /\ nest' = [nest EXCEPT ![t] = 0]
    /\ scope' = [scope EXCEPT ![t] = "none"]
    /\ Goto(t, IF raised THEN "closing" ELSE "returning")
    /\ UNCHANGED <<cur, slots, idle, closed, draining, live, open>>

\* _give_back() that does not look at _closed.
GiveBackIgnoresClosed(t) ==
    /\ pc[t] = "returning"
    /\ idle' = idle \cup {cur[t]}
    /\ cur' = [cur EXCEPT ![t] = NoCursor]
    /\ Goto(t, "releasing")
    /\ UNCHANGED <<scope, nest, slots, closed, draining, live, open>>

\* _give_back(): append to the idle list under the guard unless closed.
GiveBack(t) ==
    /\ pc[t] = "returning"
    /\ IF closed
       THEN Goto(t, "closing") /\ UNCHANGED <<idle, cur>>
       ELSE /\ idle' = idle \cup {cur[t]}
            /\ cur' = [cur EXCEPT ![t] = NoCursor]
            /\ Goto(t, "releasing")
    /\ UNCHANGED <<scope, nest, slots, closed, draining, live, open>>

\* _close(), first half: _close_quietly(cur).
CloseCursor(t) ==
    /\ pc[t] = "closing"
    /\ open' = open \ {cur[t]}
    /\ cur' = [cur EXCEPT ![t] = NoCursor]
    /\ Goto(t, "uncounting")
    /\ UNCHANGED <<scope, nest, slots, idle, closed, draining, live>>

\* _close(), second half: self.live -= 1 under the guard.
Uncount(t) ==
    /\ pc[t] = "uncounting"
    /\ live' = live - 1
    /\ Goto(t, "releasing")
    /\ UNCHANGED <<cur, scope, nest, slots, idle, closed, draining, open>>

\* `finally: self._slots.release()`.
ReleaseSlot(t) ==
    /\ pc[t] = "releasing"
    /\ slots' = slots + 1
    /\ Goto(t, "out")
    /\ UNCHANGED <<cur, scope, nest, idle, closed, draining, live, open>>

\* close(): the pool is replaced.  Leases already under way, and threads that
\* fetched this pool object before the swap, go on using it.
Close ==
    /\ ~closed
    /\ closed' = TRUE
    /\ draining' = idle
    /\ idle' = {}
    /\ UNCHANGED <<pc, cur, scope, nest, slots, live, open>>

\* close()'s loop over the cursors it took.
DrainOne ==
    /\ \E c \in draining :
          /\ draining' = draining \ {c}
          /\ open' = open \ {c}
    /\ live' = live - 1
    /\ UNCHANGED <<pc, cur, scope, nest, slots, idle, closed>>

-----------------------------------------------------------------------------
\* What a thread inside lease() does next without waiting for anybody.
Continue(t) ==
    \/ TakeIdle(t) \/ OpenCursor(t) \/ OpenFails(t) \/ CountCursor(t)
    \/ Exit(t, FALSE) \/ Exit(t, TRUE) \/ ExitNested(t)
    \/ GiveBack(t) \/ CloseCursor(t) \/ Uncount(t) \/ ReleaseSlot(t)

Next ==
    \/ \E t \in Thread :
          \/ \E kind \in Scope : Enter(t, kind)
          \/ Acquire(t)
          \/ Continue(t)
    \/ Close
    \/ DrainOne

Spec == Init /\ [][Next]_vars

\* Statements end: every query has an HTTP timeout, so a thread inside a lease
\* leaves its block some day, cleanly or with an exception.
\* A free slot is eventually taken by one of the threads waiting for it;
\* nothing is assumed about which one.
Fairness ==
    /\ \A t \in Thread : WF_vars(Continue(t))
    /\ \A t \in Thread : WF_vars(Exit(t, FALSE) \/ Exit(t, TRUE))
    /\ WF_vars(\E t \in Thread : Acquire(t))
    /\ WF_vars(DrainOne)

FairSpec == Spec /\ Fairness

-----------------------------------------------------------------------------
TypeOK ==
    /\ pc \in [Thread -> PC]
    /\ cur \in [Thread -> Cursor \cup {NoCursor}]
    /\ scope \in [Thread -> Scope]
    /\ nest \in [Thread -> 0..MaxNest]
    /\ slots \in 0..Cap
    /\ idle \subseteq Cursor
    /\ closed \in BOOLEAN
    /\ draining \subseteq Cursor
    /\ live \in Int
    /\ open \subseteq Cursor

\* DuckDB cursors are not safe for two threads.  No interleaving of leases,
\* failures and close() gives one cursor to two leases, or leaves a leased
\* cursor where another thread could pop it or close() could close it.
CursorExclusive ==
    \A t \in Thread : pc[t] \in WithCursor =>
        /\ cur[t] \in open \ (idle \cup draining)
        /\ \A u \in Thread \ {t} : pc[u] \in WithCursor => cur[u] # cur[t]

\* The semaphore's count and the threads inside lease() always add up to the
\* cap: no path, failed open and closed pool included, loses or invents a
\* slot (BoundedSemaphore would raise on the latter).
SlotsConserved == slots + Cardinality(HoldersAt(Holding)) = Cap

\* The class's promise, "at most cap cursors": an idle cursor never outlives
\* the slot accounting, although slot and cursor are taken in separate steps.
\* Only close() may briefly have more open, those it is draining.
OpenWithinCap == Cardinality(open \ draining) <= Cap

\* "nested reads reuse it instead of leasing a second slot (which could
\* deadlock at the cap)": a thread waiting for a slot has no cursor already.
NoWaitWhileHolding == \A t \in Thread : pc[t] = "waiting" => cur[t] = NoCursor

\* After close() nothing is parked where no later close() would find it: with
\* the leases over and the drain done, every cursor is closed and uncounted.
ClosedPoolDrains ==
    closed /\ draining = {} /\ HoldersAt(Holding) = {} => open = {} /\ live = 0

\* No slot leaks: while a thread waits, the pool keeps coming back to a state
\* with a free slot, whatever fails in between.
WaitersSeeASlot == (HoldersAt({"waiting"}) # {}) ~> (slots > 0)

\* The pool is the bounded slot holder its callers take it for.
Slots == INSTANCE SlotPool WITH holders <- HoldersAt(Holding)
ImplementsSlotPool == Slots!Spec
=============================================================================
