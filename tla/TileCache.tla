------------------------------ MODULE TileCache ------------------------------
(***************************************************************************)
(* The on-disk tile cache of cache.py for one release and theme: queries   *)
(* that resolve their tiles, inline and background fetches (ensure_tile),  *)
(* and the LRU eviction that claims hold off.                              *)
(*                                                                         *)
(* A query resolves the tiles it needs under _claims_lock, leaves the lock *)
(* and only then reads the files.  Every fetch, whoever started it, ends   *)
(* by evicting when the running size total says the cache is over its cap. *)
(* The claims are what stands between the two.  Tiles all have size one.   *)
(***************************************************************************)
EXTENDS Integers, TLC, LruOrder

CONSTANTS Tile,           \* the tiles of the theme
          Query,          \* queries running at the same time
          CapTiles,       \* PLACEROOT_CACHE_MAX_MB, in tiles
          FetchSlots,     \* PLACEROOT_CACHE_FETCH_CONCURRENCY
          InlineWorkers,  \* 2, or 1 when the caller gives no cursor factory
          InlineMax,      \* HEAVY_SYNC_MAX_TILES
          TTL,            \* _CLAIM_TTL_S, in ticks
          MaxCopy,        \* bound: ticks one COPY takes
          MaxRead,        \* bound: ticks one query reads its files
          Background      \* the owner of background fetches

ASSUME BackgroundAssumption == Background \notin Query
ASSUME BoundsAssumption ==
    /\ {CapTiles, MaxCopy, MaxRead} \subseteq Nat
    /\ {FetchSlots, InlineWorkers, InlineMax, TTL} \subseteq Nat \ {0}

VARIABLES
    lru,      \* the order by mtime of the tiles on disk
    torn,     \* tiles on disk whose bytes mix two writers
    gone,     \* tiles another process evicted since they were last written
    claims,   \* _claims: ticks each tile's claim still lives
    job,      \* ensure_tile() calls in progress, by owner and tile
    age,      \* ticks the COPY of a job has taken
    snap,     \* the sorted walk an evicting job works from, likewise
    query,    \* what each query is doing
    hits,     \* tiles a query holds: found on disk or fetched so far
    missing,  \* tiles it still fetches inline
    partial,  \* some tiles were left to the background: answer None
    patience  \* ticks a query has been reading

cacheVars == <<lru, torn, gone, claims>>
jobVars == <<job, age, snap>>
queryVars == <<query, hits, missing, partial, patience>>
vars == <<cacheVars, jobVars, queryVars>>

Owner == Query \cup {Background}
Job == Owner \X Tile

JobPC == {"none", "queued", "checking", "touching", "copying", "published",
          "deleting", "returning", "failed"}

Disk == In(lru)

Init ==
    /\ lru = {}
    /\ torn = {}
    /\ gone = {}
    /\ claims = [t \in Tile |-> 0]
    /\ job = [j \in Job |-> "none"]
    /\ age = [j \in Job |-> 0]
    /\ snap = [j \in Job |-> {}]
    /\ query = [q \in Query |-> "idle"]
    /\ hits = [q \in Query |-> {}]
    /\ missing = [q \in Query |-> {}]
    /\ partial = [q \in Query |-> FALSE]
    /\ patience = [q \in Query |-> 0]

\* The orders in which files can be touched one after the other.
Orders == [T \in SUBSET Tile |-> {o \in SUBSET (T \X T) : IsOrder(o, T)}]

\* os.utime and a publish both make files the youngest.
TouchedTwice(T) == {lru \cup (Disk \X T) \cup o : o \in Orders[T]}

Touched(T) == {Then(lru, o) : o \in Orders[T]}

\* _claim_locked: extends, never shortens.
Claimed(old, T) == [t \in Tile |-> IF t \in T THEN TTL ELSE old[t]]

\* claim_existing_paths: claim every path, then drop the claim of one that is
\* not there, whoever it belonged to.
ClaimedExisting(want) ==
    [t \in Tile |-> IF t \in want THEN (IF t \in Disk THEN TTL ELSE 0) ELSE claims[t]]

\* _materialize_in_background: one job per tile, deduplicated by _inflight.
Scheduled(T) ==
    [j \in Job |-> IF j[1] = Background /\ j[2] \in T /\ job[j] = "none"
                   THEN "queued" ELSE job[j]]

Goto(j, l) == job' = [job EXCEPT ![j] = l]

-----------------------------------------------------------------------------
(* local_paths_for_query.                                                  *)

\* What every way to resolve begins with: claim_existing_paths.
Look(q, want) ==
    /\ query[q] = "idle"
    /\ lru' \in Touched(want \cap Disk)
    /\ claims' = ClaimedExisting(want)
    /\ UNCHANGED <<torn, gone, age, snap, patience>>

\* Every tile is on disk: the caller reads the paths.
ResolveHit(q, want) ==
    /\ want \subseteq Disk
    /\ Look(q, want)
    /\ query' = [query EXCEPT ![q] = "reading"]
    /\ hits' = [hits EXCEPT ![q] = want]
    /\ UNCHANGED <<job, missing, partial>>

\* Some are not: answer None and, unless the caller said not to, schedule
\* them in the background.  The caller scans upstream.
ResolveMiss(q, want, schedule) ==
    /\ ~(want \subseteq Disk)
    /\ Look(q, want)
    /\ job' = Scheduled(IF schedule THEN want \ Disk ELSE {})
    /\ UNCHANGED <<query, hits, missing, partial>>

\* Some are not, and they are fetched inline: under PLACEROOT_CACHE_SYNC, or
\* for a warm-up, which leaves what exceeds HEAVY_SYNC_MAX_TILES to the
\* background (or to nobody).  claim_paths(held) follows the look, in the same
\* lock's next critical section.
ResolveInline(q, want, now, schedule) ==
    /\ ~(want \subseteq Disk)
    /\ now \subseteq want \ Disk
    /\ now = want \ Disk \/ Cardinality(now) = InlineMax
    /\ query[q] = "idle"
    /\ lru' \in Touched(want \cap Disk)
    /\ claims' = Claimed(ClaimedExisting(want), now)
    /\ query' = [query EXCEPT ![q] = "fetching"]
    /\ hits' = [hits EXCEPT ![q] = want \cap Disk]
    /\ missing' = [missing EXCEPT ![q] = now]
    /\ partial' = [partial EXCEPT ![q] = now # want \ Disk]
    /\ job' = Scheduled(IF schedule THEN want \ (Disk \cup now) ELSE {})
    /\ UNCHANGED <<torn, gone, age, snap, patience>>

\* A worker of the inline pool takes the next missing tile.  The loop without
\* a pool stops at the first failure.
StartInline(q, t) ==
    /\ query[q] = "fetching"
    /\ t \in missing[q]
    /\ job[<<q, t>>] = "none"
    /\ InlineWorkers = 1 => \A u \in Tile : job[<<q, u>>] # "failed"
    /\ Cardinality({u \in Tile : job[<<q, u>>] \notin {"none", "failed"}}) < InlineWorkers
    /\ Goto(<<q, t>>, "checking")
    /\ UNCHANGED <<cacheVars, age, snap, queryVars>>

\* _fetch after ensure_tile: refresh the claim of every tile the query holds
\* or will hold, so that none lapses while the other tiles are copied.
RefreshOwn(q) == Claimed(claims, missing[q])

Refresh(q) == Claimed(claims, hits[q] \cup missing[q])

ReturnInline(q, t) ==
    /\ job[<<q, t>>] = "returning"
    /\ claims' = Refresh(q)
    /\ hits' = [hits EXCEPT ![q] = @ \cup {t}]
    /\ missing' = [missing EXCEPT ![q] = @ \ {t}]
    /\ Goto(<<q, t>>, "none")
    /\ UNCHANGED <<lru, torn, gone, age, snap, query, partial, patience>>

\* A worker raised.  The pool lets running fetches end; the query fails.
FailInline(q, t) ==
    /\ job[<<q, t>>] = "failed"
    /\ \A u \in Tile : job[<<q, u>>] \in {"none", "failed"}
    /\ job' = [j \in Job |-> IF j[1] = q THEN "none" ELSE job[j]]
    /\ query' = [query EXCEPT ![q] = "idle"]
    /\ hits' = [hits EXCEPT ![q] = {}]
    /\ missing' = [missing EXCEPT ![q] = {}]
    /\ partial' = [partial EXCEPT ![q] = FALSE]
    /\ UNCHANGED <<cacheVars, age, snap, patience>>

\* All fetched: claim for a full TTL on the way out and hand over the paths,
\* or answer None when part of the box was left to the background.
FinishInline(q) ==
    /\ query[q] = "fetching"
    /\ missing[q] = {}
    /\ claims' = Claimed(claims, hits[q])
    /\ query' = [query EXCEPT ![q] = IF partial[q] THEN "idle" ELSE "reading"]
    /\ hits' = [hits EXCEPT ![q] = IF partial[q] THEN {} ELSE @]
    /\ partial' = [partial EXCEPT ![q] = FALSE]
    /\ UNCHANGED <<lru, torn, gone, jobVars, missing, patience>>

\* The caller's SELECT over the returned paths is over.
EndRead(q) ==
    /\ query[q] = "reading"
    /\ query' = [query EXCEPT ![q] = "idle"]
    /\ hits' = [hits EXCEPT ![q] = {}]
    /\ patience' = [patience EXCEPT ![q] = 0]
    /\ UNCHANGED <<cacheVars, jobVars, missing, partial>>

-----------------------------------------------------------------------------
(* _materialize_in_background and ensure_tile.                             *)

\* Program points at which a background job holds a fetch slot.
InSlot == JobPC \ {"none", "queued"}

\* The delay is over and a slot of _background_fetch_slots is free.
StartBackground(t) ==
    /\ job[<<Background, t>>] = "queued"
    /\ Cardinality({u \in Tile : job[<<Background, u>>] \in InSlot}) < FetchSlots
    /\ Goto(<<Background, t>>, "checking")
    /\ UNCHANGED <<cacheVars, age, snap, queryVars>>

\* `finally`: the slot is released and the key leaves _inflight, whether the
\* fetch succeeded or its exception was logged.
EndBackground(t) ==
    /\ job[<<Background, t>>] \in {"returning", "failed"}
    /\ Goto(<<Background, t>>, "none")
    /\ UNCHANGED <<cacheVars, age, snap, queryVars>>

\* path.exists()
Check(j) ==
    /\ job[j] = "checking"
    /\ Goto(j, IF j[2] \in Disk THEN "touching" ELSE "copying")
    /\ UNCHANGED <<cacheVars, age, snap, queryVars>>

\* os.utime: raises when the tile was evicted since it was seen.
Touch(j) ==
    /\ job[j] = "touching"
    /\ IF j[2] \in Disk
       THEN lru' \in Touched({j[2]}) /\ Goto(j, "returning")
       ELSE Goto(j, "failed") /\ UNCHANGED lru
    /\ UNCHANGED <<torn, gone, claims, age, snap, queryVars>>

\* The file a writer COPYs into: mkstemp gives every writer its own.
TmpFixed(j) == j[2]

Tmp(j) == j

\* The COPY succeeded and os.replace publishes the file, over any older one.
Publish(j) ==
    /\ job[j] = "copying"
    /\ lru' \in Touched({j[2]})
    /\ torn' = IF \E k \in Job \ {j} : job[k] = "copying" /\ Tmp(k) = Tmp(j)
               THEN torn \cup {j[2]} ELSE torn \ {j[2]}
    /\ gone' = gone \ {j[2]}
    /\ age' = [age EXCEPT ![j] = 0]
    /\ Goto(j, "published")
    /\ UNCHANGED <<claims, snap, queryVars>>

\* Upstream failed; the temporary file is removed.
CopyFails(j) ==
    /\ job[j] = "copying"
    /\ age' = [age EXCEPT ![j] = 0]
    /\ Goto(j, "failed")
    /\ UNCHANGED <<cacheVars, snap, queryVars>>

\* _note_written and evict_if_needed(rescan=False): the running total says the
\* cache is under its cap, or the cache is walked and sorted.  The total may
\* run late or early, so either can happen at any size.
Judge(j) ==
    /\ job[j] = "published"
    /\ \/ Goto(j, "returning") /\ UNCHANGED snap
       \/ Goto(j, "deleting") /\ snap' = [snap EXCEPT ![j] = lru]
    /\ UNCHANGED <<cacheVars, age, queryVars>>

\* The delete loop over the walk: oldest first, until under the cap, passing
\* over claimed tiles and over files that have vanished (not subtracted).
Evictable(t) == claims[t] = 0

Victims(walk) ==
    LET evictable == {t \in In(walk) \cap Disk : Evictable(t)}
        older(t) == {u \in evictable \ {t} : <<u, t>> \in walk}
    IN  {t \in evictable : CapTiles + Cardinality(older(t)) < Cardinality(In(walk))}

\* The loop runs under _claims_lock, atomically with every claim.
Delete(j) ==
    LET victims == Victims(snap[j]) IN
    /\ job[j] = "deleting"
    /\ lru' = Without(lru, victims)
    /\ torn' = torn \ victims
    /\ snap' = [snap EXCEPT ![j] = {}]
    /\ Goto(j, "returning")
    /\ UNCHANGED <<gone, claims, age, queryVars>>

-----------------------------------------------------------------------------
(* The environment: time, and another process.                             *)

\* Only a COPY, a read and a wait take time against the TTL.
Tick ==
    /\ \A j \in Job :
          /\ job[j] \in {"none", "queued", "copying"}
          /\ job[j] = "copying" => age[j] < MaxCopy
    /\ \A q \in Query : query[q] = "reading" => patience[q] < MaxRead
    /\ \A q \in Query : query[q] = "fetching" => \E t \in Tile : job[<<q, t>>] = "copying"
    /\ claims' = [t \in Tile |-> IF claims[t] = 0 THEN 0 ELSE claims[t] - 1]
    /\ age' = [j \in Job |-> IF job[j] = "copying" THEN age[j] + 1 ELSE 0]
    /\ patience' = [q \in Query |-> IF query[q] = "reading" THEN patience[q] + 1 ELSE 0]
    /\ UNCHANGED <<lru, torn, gone, job, snap, query, hits, missing, partial>>

\* A second server process on the same cache directory evicts a tile: the
\* claims table is per process, and so is the running total.
ForeignEvict(t) ==
    /\ t \in Disk
    /\ lru' = Without(lru, {t})
    /\ torn' = torn \ {t}
    /\ gone' = gone \cup {t}
    /\ UNCHANGED <<claims, jobVars, queryVars>>

-----------------------------------------------------------------------------
JobStep(j) ==
    \/ Check(j) \/ Touch(j) \/ Publish(j) \/ CopyFails(j)
    \/ Judge(j) \/ Delete(j)

QueryStep(q) ==
    \/ FinishInline(q) \/ EndRead(q)
    \/ \E t \in Tile : StartInline(q, t) \/ ReturnInline(q, t) \/ FailInline(q, t)

Next ==
    \/ \E q \in Query, want \in (SUBSET Tile) \ {{}} :
          \/ ResolveHit(q, want)
          \/ \E schedule \in BOOLEAN :
                \/ ResolveMiss(q, want, schedule)
                \/ \E now \in SUBSET Tile : ResolveInline(q, want, now, schedule)
    \/ \E q \in Query : QueryStep(q)
    \/ \E j \in Job : JobStep(j)
    \/ \E t \in Tile : StartBackground(t) \/ EndBackground(t) \/ ForeignEvict(t)
    \/ Tick

Spec == Init /\ [][Next]_vars

-----------------------------------------------------------------------------
TypeOK ==
    /\ IsOrder(lru, Disk) /\ Disk \subseteq Tile
    /\ torn \subseteq Disk /\ gone \subseteq Tile
    /\ claims \in [Tile -> 0..TTL]
    /\ job \in [Job -> JobPC]
    /\ age \in [Job -> 0..MaxCopy]
    /\ DOMAIN snap = Job /\ \A j \in Job : IsOrder(snap[j], In(snap[j]))
    /\ query \in [Query -> {"idle", "fetching", "reading"}]
    /\ hits \in [Query -> SUBSET Tile] /\ missing \in [Query -> SUBSET Tile]
    /\ partial \in [Query -> BOOLEAN]
    /\ patience \in [Query -> 0..MaxRead]

\* #142 and #158: the tiles a query was told it has, those it fetched earlier
\* in its own loop included, are on disk until it has read them, whichever
\* fetches evict meanwhile.  Only another process can take them away.
HeldTilesStay == \A q \in Query : hits[q] \subseteq Disk \cup gone

\* No tile is published from a file two fetches wrote.
NoTornTile == torn = {}

\* Neither tiles nor queries are told apart.
Symmetry == Permutations(Tile) \cup Permutations(Query)

=============================================================================
