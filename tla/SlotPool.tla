------------------------------ MODULE SlotPool ------------------------------
(***************************************************************************)
(* What the read-cursor pool of db.py promises to its callers, and nothing *)
(* of how it keeps the promise: at any moment at most Cap threads are      *)
(* inside a `with lease()` block.  CursorPool implements this module and   *)
(* ReadFanout is built on it.                                              *)
(***************************************************************************)
EXTENDS Naturals, FiniteSets

CONSTANTS Thread,   \* the threads of the process
          Cap       \* PLACEROOT_DUCKDB_CURSORS, 8 unless overridden

VARIABLE holders    \* the threads between _slots.acquire() and _slots.release()

Init == holders = {}

\* A semaphore that lets everybody in.
AcquireUnbounded(t) == t \notin holders /\ holders' = holders \cup {t}

\* BoundedSemaphore(cap): the call returns only once a slot is free.
Acquire(t) ==
    /\ t \notin holders
    /\ Cardinality(holders) < Cap
    /\ holders' = holders \cup {t}

Release(t) ==
    /\ t \in holders
    /\ holders' = holders \ {t}

Next == \E t \in Thread : Acquire(t) \/ Release(t)

Spec == Init /\ [][Next]_holders
=============================================================================
