--------------------------- MODULE DivisionsIndex ---------------------------
(***************************************************************************)
(* The local divisions tables of geocode/_index.py for one release: name   *)
(* searches that find, build, check or rebuild them, the background build  *)
(* and the stage-2 upgrade, the .stage1 sentinel, and the three locks they *)
(* meet on: _blocking_build_lock, the background fetch slots of cache.py   *)
(* and the read slots of db.py (SlotPool).                                 *)
(*                                                                         *)
(* The alternate-name and the language table are built by the same code    *)
(* and stand for each other here as `names'.  What is in a table is        *)
(* reduced to its kind: written before #224, stage 1, or full.             *)
(***************************************************************************)
EXTENDS Naturals, FiniteSets

CONSTANTS
    Caller,       \* tool calls that search a name
    Isolated,     \* those that run inside isolated_reads() and hold a slot throughout
    Cap,          \* read slots
    FetchCap,     \* _background_fetch_slots
    Deploy,       \* kinds of deployment
    MaxFaults,    \* bound: restarts, deletions and misreads together
    None          \* nobody holds the lock

Background == {"build", "upgrade"}
Proc == Caller \cup Background

ASSUME CallerAssumption == Isolated \subseteq Caller /\ Caller \cap Background = {} /\ None \notin Proc
ASSUME CapAssumption == IsFiniteSet(Caller) /\ Cap \in Nat \ {0}
ASSUME FetchAssumption == FetchCap \in Nat \ {0}
ASSUME DeployAssumption == Deploy \subseteq {"bundled", "remote", "local"}
ASSUME FaultAssumption == MaxFaults \in Nat

VARIABLES
    deploy,    \* the dataset is remote and the wheel bundles an index for its release,
               \* it is remote and there is none, or it is local
    table,     \* table.parquet
    sentinel,  \* is there a .stage1 file beside it
    names,     \* are there alternate-name and language tables beside it
    started,   \* keys in _build_started and _upgrade_started
    checked,   \* the table is in _DIVISIONS_BBOX_CHECKED
    tried,     \* the side tables are in _ALT_ and _LANG_BUILD_ATTEMPTED
    schema,    \* what probe_schema() remembers of the dataset
    lock,      \* _blocking_build_lock: who holds it
    job,       \* and what for
    fetching,  \* background threads that hold a fetch slot
    holders,   \* threads that hold a read slot
    pc,        \* where each thread is
    restarts,  \* times the process died and started again
    deletes,   \* times an external cleanup removed files (#230)
    misreads   \* times a sound table could not be read

files == <<table, sentinel, names>>
memos == <<started, checked, tried, schema>>
locks == <<lock, job, fetching, holders>>
counts == <<restarts, deletes, misreads>>
vars == <<deploy, files, memos, locks, pc, counts>>

Slots == INSTANCE SlotPool WITH Thread <- Proc

Kind == {"none", "old", "stage1", "full"}
Job == {"none", "first", "rebuild", "build", "upgrade", "names"}
CallerPC == {"idle", "entering", "looking", "wantFirst", "wantCheck", "wantNames",
             "resuming", "answering", "reading"}
WantsLock == {"wantFirst", "wantCheck", "wantNames"}
BuilderPC == {"bbox", "probing", "copying", "marking", "spawning", "siding", "unmarking", "leaving"}
BackgroundPC == {"idle", "delayed", "wantLock", "failed"}

Init ==
    /\ deploy \in Deploy
    /\ table \in {"none", "old"} /\ sentinel = FALSE
    /\ names \in BOOLEAN /\ (names => table = "old")
    /\ started = {} /\ checked = FALSE /\ tried = FALSE /\ schema = "unknown"
    /\ lock = None /\ job = "none" /\ fetching = {} /\ holders = {}
    /\ pc = [p \in Proc |-> "idle"]
    /\ restarts = 0 /\ deletes = 0 /\ misreads = 0

Healthy == restarts + deletes + misreads < MaxFaults

Go(p, l) == pc' = [pc EXCEPT ![p] = l]

-----------------------------------------------------------------------------
(* Locks.                                                                  *)

\* A COPY that holds no lock, as the foreground ones once did.
TakeLockAnyway(p, j) == lock' = p /\ job' = j

\* `with _blocking_build_lock:`, for a job.
TakeLock(p, j) == lock = None /\ lock' = p /\ job' = j

\* A read that never gives its slot back.
LetGoNothing(p) == UNCHANGED holders

\* The end of a read_conn() block: a thread in isolation keeps its slot.
LetGo(p) == holders' = IF p \in Isolated THEN holders ELSE holders \ {p}

\* probe_schema() answers from the manifest or its memos, without a read.
SchemaAtHand == deploy = "bundled" \/ schema # "unknown"

\* A read is next, and the cursor for it is not there yet.
NeedsSlot(p) ==
    /\ p \notin holders
    /\ pc[p] \in {"bbox", "reading"} \/ (pc[p] = "probing" /\ ~SchemaAtHand)

\* read_conn() of a thread that is not in isolation.
Lease(p) ==
    /\ NeedsSlot(p)
    /\ Slots!Acquire(p)
    /\ UNCHANGED <<deploy, files, memos, lock, job, fetching, pc, counts>>

\* The end of the with block: the lock goes, a background thread gives its
\* fetch slot back and stops, a search goes on to l.
Leave(p, l) ==
    /\ lock' = None /\ job' = "none"
    /\ fetching' = fetching \ {p}
    /\ Go(p, l)

-----------------------------------------------------------------------------
(* Background threads.                                                     *)

\* _spawn_divisions_build() and _spawn_divisions_upgrade(), called by p on its
\* way to l: once per table and process.
Spawn(p, b, l) ==
    /\ started' = started \cup {b}
    /\ pc' = [pc EXCEPT ![p] = l, ![b] = IF b \in started THEN @ ELSE "delayed"]

\* A background read outside _background_fetch_slots.
BeginFetchUnbounded(b) ==
    /\ pc[b] = "delayed"
    /\ fetching' = fetching \cup {b}
    /\ Go(b, "wantLock")
    /\ UNCHANGED <<deploy, files, memos, lock, job, holders, counts>>

\* The delay is over and a fetch slot is free.
BeginFetch(b) ==
    /\ pc[b] = "delayed"
    /\ Cardinality(fetching) < FetchCap
    /\ fetching' = fetching \cup {b}
    /\ Go(b, "wantLock")
    /\ UNCHANGED <<deploy, files, memos, lock, job, holders, counts>>

\* Under the lock the build may find that somebody else was faster; the
\* upgrade rebuilds whatever is there.
BeginWork(b) ==
    /\ pc[b] = "wantLock"
    /\ IF b = "build" /\ table # "none"
       THEN lock = None /\ Leave(b, "idle")
       ELSE TakeLock(b, b) /\ Go(b, "probing") /\ UNCHANGED fetching
    /\ UNCHANGED <<deploy, files, memos, holders, counts>>

\* A failed thread that leaves its key behind.
DiscardNothing(b) ==
    /\ pc[b] = "failed"
    /\ Go(b, "idle")
    /\ UNCHANGED <<deploy, files, memos, locks, counts>>

\* The except clause, reached after both locks are gone: the next search may
\* start the thread again.
DiscardKey(b) ==
    /\ pc[b] = "failed"
    /\ started' = started \ {b}
    /\ Go(b, "idle")
    /\ UNCHANGED <<deploy, files, checked, tried, schema, locks, counts>>

-----------------------------------------------------------------------------
(* One materialization, by whoever holds the lock.                         *)

\* probe_schema(): a failure is remembered for a while, and the COPY goes
\* ahead either way.
Probe(p) ==
    /\ pc[p] = "probing"
    /\ \/ /\ SchemaAtHand
          /\ Go(p, "copying")
          /\ UNCHANGED <<schema, holders>>
       \/ /\ schema = "failed" /\ schema' = "unknown"
          /\ UNCHANGED <<pc, holders>>
       \/ /\ ~SchemaAtHand /\ p \in holders
          /\ schema' \in {"known", "failed"}
          /\ LetGo(p)
          /\ Go(p, "copying")
    /\ UNCHANGED <<deploy, files, started, checked, tried, lock, job, fetching, counts>>

\* _materialize_divisions_table() stages what it builds from the network.
Staged == job # "upgrade" /\ deploy # "local"

\* What the COPY writes.
Copied == IF Staged THEN "stage1" ELSE "full"

\* The COPY into a file of its own and the os.replace() that publishes it.
Publish(p) ==
    /\ pc[p] = "copying"
    /\ table' = Copied
    /\ Go(p, IF Staged THEN "marking" ELSE "siding")
    /\ UNCHANGED <<deploy, sentinel, names, memos, locks, counts>>

\* An exception ends a build: in the COPY, at os.replace(), when the caches are
\* emptied after it has published the table, or at the sentinel.
Fails(p, l) ==
    /\ table' \in IF pc[p] = "copying" THEN {table, Copied} ELSE {table}
    /\ Leave(p, l)

\* It is caught: a background thread stops, a first build gives way to upstream,
\* a rebuild goes on with the table that is there.
FailBuild(p) ==
    /\ \/ p \in Background /\ pc[p] \in {"copying", "marking", "unmarking"} /\ Fails(p, "failed")
       \/ p \in Caller /\ pc[p] = "copying" /\ Fails(p, IF job = "first" THEN "reading" ELSE "resuming")
    /\ UNCHANGED <<deploy, sentinel, names, memos, holders, counts>>

\* The handlers of a search catch no OSError: it ends the call, and the
\* isolation it ran in.
FailSearch(c) ==
    /\ pc[c] \in {"copying", "marking"}
    /\ Fails(c, "idle")
    /\ holders' = holders \ {c}
    /\ UNCHANGED <<deploy, sentinel, names, memos, counts>>

\* _stage1_sentinel(path).touch()
Mark(p) ==
    /\ pc[p] = "marking"
    /\ sentinel' = TRUE
    /\ Go(p, "spawning")
    /\ UNCHANGED <<deploy, table, names, memos, locks, counts>>

SpawnUpgrade(p) ==
    /\ pc[p] = "spawning"
    /\ Spawn(p, "upgrade", "leaving")
    /\ UNCHANGED <<deploy, files, checked, tried, schema, locks, counts>>

\* _try_materialize_alt_names_table() and its twin for languages: a failure
\* is swallowed.
BuildNames(p) ==
    /\ pc[p] = "siding"
    /\ names' \in {names, TRUE}
    /\ Go(p, IF job = "upgrade" THEN "unmarking" ELSE "leaving")
    /\ UNCHANGED <<deploy, table, sentinel, memos, locks, counts>>

\* The upgrade is complete.
Unmark(p) ==
    /\ pc[p] = "unmarking"
    /\ sentinel' = FALSE
    /\ Go(p, "leaving")
    /\ UNCHANGED <<deploy, table, names, memos, locks, counts>>

Finish(p) ==
    /\ pc[p] = "leaving"
    /\ Leave(p, IF p \in Background THEN "idle"
                ELSE IF job = "rebuild" THEN "resuming"
                ELSE IF job = "first" THEN "answering" ELSE "reading")
    /\ UNCHANGED <<deploy, files, memos, holders, counts>>

-----------------------------------------------------------------------------
(* A search.                                                               *)

\* geocode_detailed(), or a thread of a fan-out that enters isolation first.
Call(c) ==
    /\ pc[c] = "idle"
    /\ Go(c, IF c \in Isolated THEN "entering" ELSE "looking")
    /\ UNCHANGED <<deploy, files, memos, locks, counts>>

Enter(c) ==
    /\ pc[c] = "entering"
    /\ Slots!Acquire(c)
    /\ Go(c, "looking")
    /\ UNCHANGED <<deploy, files, memos, lock, job, fetching, counts>>

\* _local_divisions_table(): the bundled index answers while the full table
\* is built behind it; a table is checked once per process.
Look(c) ==
    /\ pc[c] = "looking"
    /\ IF table = "none" /\ deploy = "bundled"
       THEN Spawn(c, "build", "reading")
       ELSE /\ Go(c, IF table = "none" THEN "wantFirst"
                     ELSE IF checked THEN "resuming" ELSE "wantCheck")
            /\ UNCHANGED started
    /\ UNCHANGED <<deploy, files, checked, tried, schema, locks, counts>>

\* The blocking first build, unless a parallel search was faster.
BeginFirst(c) ==
    /\ pc[c] = "wantFirst"
    /\ IF table # "none"
       THEN lock = None /\ Go(c, "answering") /\ UNCHANGED <<lock, job>>
       ELSE TakeLock(c, "first") /\ Go(c, "probing")
    /\ UNCHANGED <<deploy, files, memos, fetching, holders, counts>>

\* _rebuild_once_for_bbox_columns(), re-checked under the lock.
BeginCheck(c) ==
    /\ pc[c] = "wantCheck"
    /\ IF checked
       THEN lock = None /\ Go(c, "resuming") /\ UNCHANGED <<lock, job>>
       ELSE TakeLock(c, "rebuild") /\ Go(c, "bbox")
    /\ checked' = TRUE
    /\ UNCHANGED <<deploy, files, started, tried, schema, fetching, holders, counts>>

\* _divisions_table_has_bbox(): no for an old table, and for one that cannot
\* be read.
CheckBbox(c) ==
    /\ pc[c] = "bbox" /\ c \in holders
    /\ LetGo(c)
    /\ \/ /\ table \in {"stage1", "full"}
          /\ Leave(c, "resuming")
          /\ UNCHANGED misreads
       \/ /\ table \in {"none", "old"}
          /\ Go(c, "probing")
          /\ UNCHANGED <<lock, job, fetching, misreads>>
       \/ /\ table \in {"stage1", "full"} /\ Healthy
          /\ misreads' = misreads + 1
          /\ Go(c, "probing")
          /\ UNCHANGED <<lock, job, fetching>>
    /\ UNCHANGED <<deploy, files, memos, restarts, deletes>>

\* A stage-1 table whose upgrade never finished: resume it.
Resume(c) ==
    /\ pc[c] = "resuming"
    /\ IF sentinel
       THEN Spawn(c, "upgrade", "answering")
       ELSE Go(c, "answering") /\ UNCHANGED started
    /\ UNCHANGED <<deploy, files, checked, tried, schema, locks, counts>>

\* _local_alt_names_table(): built here when it is not there, once per process.
FindNames(c) ==
    /\ pc[c] = "answering"
    /\ Go(c, IF names THEN "reading" ELSE "wantNames")
    /\ UNCHANGED <<deploy, files, memos, locks, counts>>

BeginNames(c) ==
    /\ pc[c] = "wantNames"
    /\ IF names \/ tried
       THEN lock = None /\ Go(c, "reading") /\ UNCHANGED <<tried, lock, job>>
       ELSE TakeLock(c, "names") /\ tried' = TRUE /\ Go(c, "siding")
    /\ UNCHANGED <<deploy, files, started, checked, schema, fetching, holders, counts>>

\* An answer whose cursor is not given back.
ReadKeepsSlot(c) ==
    /\ pc[c] = "reading" /\ c \in holders
    /\ Go(c, "idle")
    /\ UNCHANGED <<deploy, files, memos, locks, counts>>

\* The reads of the answer; a table that vanished gives way to upstream.
Read(c) ==
    /\ pc[c] = "reading" /\ c \in holders
    /\ holders' = holders \ {c}
    /\ Go(c, "idle")
    /\ UNCHANGED <<deploy, files, memos, lock, job, fetching, counts>>

-----------------------------------------------------------------------------
(* What happens to the process and its files.                              *)

Restart ==
    /\ Healthy
    /\ restarts' = restarts + 1
    /\ started' = {} /\ checked' = FALSE /\ tried' = FALSE /\ schema' = "unknown"
    /\ lock' = None /\ job' = "none" /\ fetching' = {} /\ holders' = {}
    /\ pc' = [p \in Proc |-> "idle"]
    /\ UNCHANGED <<deploy, files, deletes, misreads>>

\* A cleanup takes the table, or all that lies beside it too.
Delete ==
    /\ Healthy
    /\ table # "none"
    /\ deletes' = deletes + 1
    /\ table' = "none"
    /\ \/ UNCHANGED <<sentinel, names>>
       \/ sentinel' = FALSE /\ names' = FALSE
    /\ UNCHANGED <<deploy, memos, locks, pc, restarts, misreads>>

Materialize(p) ==
    \/ Lease(p) \/ Probe(p) \/ Publish(p) \/ FailBuild(p) \/ Mark(p)
    \/ SpawnUpgrade(p) \/ BuildNames(p) \/ Unmark(p) \/ Finish(p)

Run(b) == BeginFetch(b) \/ BeginWork(b) \/ DiscardKey(b)

Search(c) ==
    \/ Enter(c) \/ Look(c) \/ BeginFirst(c) \/ BeginCheck(c) \/ CheckBbox(c)
    \/ Resume(c) \/ FindNames(c) \/ BeginNames(c) \/ Read(c) \/ FailSearch(c)

\* A thread's own steps; only one of them can be next.
Step(p) ==
    \/ Materialize(p)
    \/ p \in Background /\ Run(p)
    \/ p \in Caller /\ Search(p)

Next ==
    \/ \E p \in Proc : Materialize(p)
    \/ \E b \in Background : Run(b)
    \/ \E c \in Caller : Call(c) \/ Search(c)
    \/ Restart
    \/ Delete

Spec == Init /\ [][Next]_vars

\* A thread that can go on goes on, and one that waits for a lock or a slot
\* which is free again and again gets it.
Fairness == \A p \in Proc : SF_vars(Step(p))

FairSpec == Spec /\ Fairness

-----------------------------------------------------------------------------
TypeOK ==
    /\ deploy \in Deploy
    /\ table \in Kind /\ sentinel \in BOOLEAN /\ names \in BOOLEAN
    /\ started \subseteq Background /\ checked \in BOOLEAN /\ tried \in BOOLEAN
    /\ schema \in {"unknown", "known", "failed"}
    /\ lock \in Proc \cup {None} /\ job \in Job
    /\ fetching \subseteq Background /\ Cardinality(fetching) <= FetchCap
    /\ holders \subseteq Proc /\ Cardinality(holders) <= Cap
    /\ pc \in [Proc -> CallerPC \cup BuilderPC \cup BackgroundPC]

\* Whatever builds, rebuilds and upgrades overlap, fail or start again, none
\* puts a table without admin chains where the full one was; only a full table
\* that could not be read is rebuilt.
ChainsStay == [][table = "full" /\ table' = "stage1" => misreads > 0]_vars

\* With files nobody else touches and tables that can be read, a thread whose
\* key is still registered either runs or has done its work: a failed one is
\* started again by a later search.
NothingIsForgotten ==
    deletes = 0 /\ misreads = 0 =>
        \A b \in started : pc[b] = "idle" =>
            IF b = "build" THEN table # "none" ELSE ~sentinel

\* db.py asks that no thread wait for a cursor slot "while holding a lock that a
\* slot-holder needs".  The build lock's holder does wait for slots; it is safe
\* as long as not every slot is held by a search that wants the lock.
HolderIsNotStarved ==
    lock # None /\ NeedsSlot(lock) =>
        Cardinality(holders) < Cap \/ \E t \in holders : pc[t] \notin WantsLock

\* Every search returns: neither the build lock held across reads nor slots
\* held across the lock can stop it.
EveryCallEnds == \A c \in Caller : pc[c] # "idle" ~> pc[c] = "idle"
=============================================================================
