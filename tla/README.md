# PlaceRoot: specifications, model checks and proofs

PlaceRoot answers geographic questions of agents from Overture Maps data. Two things are
hard to get right around its SQL and its geometry. One is concurrent state: a bounded pool
of read cursors used by nested thread pools, a tile cache that evicts while queries read, a
release that rolls over under running queries, tables and graphs that are built once for
everybody who waits. The other is long ladders of decisions: a geocode that goes from pass
to pass, an answer made of a dozen routes, a list cut three times on its way out, each step
with its own failures, notes and flags. The modules here model both kinds from the code,
check them with TLC on small instances, and prove the most important properties for all
instances with TLAPS.

Paths are relative to `src/placeroot/` in the repository. `PROJECT.json` maps every
definition to the lines it models, and lists the runs, the mutants that show each
property can fail, the hazards, the findings and the theorems.

## Inventory

| component | state | operations | interacts with | hard behaviour | what makes it correct |
|---|---|---|---|---|---|
| read pool, `db.py` | slot semaphore, idle cursors, closed flag, live count, two thread-locals | `lease`, `isolated_reads`, `read_conn`, `close` | everything that queries | slot and cursor taken in separate steps; failing opens; nesting; pool swap under leases | slots conserved, cursors exclusive, no hold-and-wait, a closed pool drains |
| name resolution fan-out, `_server_refs.py`, `geocode/_named_places.py`, `_places.py` | three thread pools, in-flight legs, deferred writes | resolve a batch, speculate, join or discard, scan rounds | read pool | workers that hold slots wait for threads that need slots | never locked up; slots come back; writes exactly when used |
| tile cache, `cache.py` | files by mtime, claims with deadlines, in-flight keys, byte totals | resolve, fetch inline, fetch in background, evict | read pool, overture, other processes | claims against eviction between resolve and read | held tiles stay, no torn tile |
| release, `release.py` | cached release, TTL stamps, two claims, generation | resolve, re-check, list, reset | every cache key | discovery outside the lock, interrupts, reset in flight | single flight, nothing from before a reset, rollover happens, artifact rule |
| graph cache, `routing.py` | LRU, in-flight registry, pickles, sidecars | get or build, peek, persist, evict | release, autowarm, the confirm gate | waiters and failing builders, replaced pickles, rollover in a build | answers fit, one build, no lost wake-up, LRU subsumption |
| division tables, `geocode/_index.py` | table files, stage-1 sentinel, build keys, two locks | build, upgrade, check, rebuild | read pool, fetch slots | lock held across a read slot; restart, deletion, misread | no deadlock; a full table is kept, a failed upgrade is tried again |
| home region, `home_region.py` | configured text, resolved point, an RLock | look up once, rank with it | read pool, geocode | lock held across a geocode that needs a slot | asked once, seen by all, always found |
| warm-up, `autowarm.py`, `_server_cli.py` | markers on disk, delay threads | schedule, yield, warm, build the walk graph | tiles, graphs, release | marker before graph; rollover and restart in a warm-up | a marked metro was warmed |
| preferences, `preferences.py` | document on disk, thread lock, file lock | load, save, update, clear | several processes | lost update; crash in a save | one document into which updates merge |
| sessions, `session.py`, `geocode/_session.py` | overlays, last city, resolve LRU | bind, read, write, clear, defer | fan-out's commit | eviction, ephemeral sessions, put after clear | a session keeps what is its own |
| routing algorithms, `routing.py`, `map_match.py` | graph arrays | build the network, snap, search, order stops, match a trace | graph cache | one-way rules, ties, stop conditions | the moves the segments allow, shortest, best order |
| id lookups, `gers.py` | miss cache | look up theme by theme | release | release read when recording | a miss belongs to the release it was seen in |
| geocoding, `geocode/` | extent memo | geocode, resolve, address, crossing | division tables, overture | passes that drop filters; guesses; corrections | filters that were stated hold, an empty answer is true |
| queries, `overture.py`, `water.py`, `infrastructure.py`, `transit.py`, `land_use.py` | probe caches | one bounded scan each | tiles, release | limits, fallbacks, missing columns, tile edges | rows are the nearest of what was asked for; what is cut is told |
| paging and budget, `cursor.py`, `budget.py` | the cursor the client holds | encode, decode, trim, rewind | every list tool, release | budget cuts behind the query's limit; rollover between pages | pages join up, nothing left out unnoticed |
| composed answers, `server.py`, `claims.py`, `changes.py`, `verdict.py`, `area_*.py` | none | meeting, modes, matrix, claims, diff, compare, suggest, verdict | routes, queries | part of it fails; lists cut on the way | what is told follows from the parts |
| shapes, `simplify.py`, isochrone of `routing.py` | none | simplify to a size, outline a reach, sample a corridor | route, graph cache | allowance runs out; cells that touch at a corner | shapes stay shapes, cuts are told |
| confirm gate, `_server_confirm.py` | a peek thread | peek, ask, cut off after twice the ETA | graph cache | peek against eviction; abandoned thread | no surprise build |
| rendering, categories, progress, tooling | none | | | sequential | not modelled |

The full list of components, with what of each is left out and why, is in
`PROJECT.json`; the list of hazards, each at its line, is there too.

## Modules

    SlotPool  <--- implements ---  CursorPool            db.py
       ^  ^  ^
       |  |  +-- HomeRegion                              home_region.py
       |  +----- DivisionsIndex                          geocode/_index.py
       +-------- ReadFanout                              name resolution
    TileCache, ReleaseCache, GraphCache                  cache.py, release.py, routing.py
    LruOrder   orders of use: mtimes, LRUs               used by TileCache, GraphCache, SessionStore
    SharedDocument  <--- implements ---  Preferences     preferences.py

    MCParts    Preferences, AutoWarm, Paging, HomeRegion, SessionStore,
               StreetSearch, StopOrder, StreetNetwork
    MCAnswers  RouteCall, TripComparison, MapMatch, Simplify, ReachOutline, Corridor,
               GersLookup, GeocodeLadder, ResolveLadder, AddressSearch, PlaceSearch,
               NearbyFeatures, LandUse, ListingClaims, NeighborhoodVerdict,
               ReleaseDiff, AreaComparison, AreaSuggestion

MCGraphCache gives its component the sets a cfg cannot write; the others need only a cfg. A
`*Proofs` module extends a component with its theorems. MCParts and MCAnswers each check many
modules that share no state in one run: the first state picks one, and the others stand still,
so the state graph is the sum and not the product of theirs. In MCParts every part keeps
variables and constants of its own, and `MCPartsProofs` proves its theorems of `MCSpec` for
every value of those.

**LruOrder** is what files sorted by mtime and an `OrderedDict` used as an LRU have in common.
An order is a set of pairs, each member with those used no earlier than it; `Used` is
`move_to_end` or an insertion, `Oldest` what `popitem(last=False)` takes, `Then` several uses
in a row. Sets of pairs are there for the proofs: what `SelectSeq` or `Remove` leave of a
sequence is defined by recursion, what these leave is a set.

### Shared state

**SlotPool** is the promise of the read pool in four lines: at most `Cap` threads hold a
slot. **CursorPool** is `db.CursorPool` with the two context managers. Its `pc` values
are the program points of `lease()`: `waiting` is `_slots.acquire()`, `granted` the call
of `_take_idle`, `opening` and `counting` the two halves of `_new_cursor`, `reading` the
`with` block, `returning` `_give_back`, `closing` and `uncounting` the two halves of
`_close`, `releasing` the `finally`. Nothing between two of these points is atomic in the
code. `Enter`/`ExitNested` are scopes that find a thread-local cursor and borrow it. One
pool object is modelled; `Close` is the swap in `_read_pool` when the instance is
replaced, after which threads that fetched the old pool go on using it.

**ReadFanout** uses SlotPool's `Acquire` for every place where name resolution waits for
a slot: the batch worker (`_resolve_location_refs`, `_resolve_pair`), the speculative leg,
the scan threads of `_run_place_scans`, and the single queries of a thread outside
isolation. `worker`, `leg`, `impl` and `scan` are the program points of these threads,
`outcome` what `geocode` said, `committed` whether leg 2's deferred writes were applied.
What rows are found, whether a first round is confident, and which exception is raised
are nondeterministic. `Batched` are the names that are on a batch worker at the same time
(a pool has at most 8). A scan of a caller without a private cursor leases a slot per
query, like a scan thread.

**TileCache** is one release and theme. `lru` is the directory ordered by mtime (an
order of LruOrder);
`claims` counts down ticks; a job is one `ensure_tile` call, by a query or in the
background, and its `pc` separates the existence check, the `utime`, the COPY, the
eviction's walk and its delete loop. Tiles have size one. The running byte total is
abstracted to "may say over the cap or not" after any write, since concurrent writers and
walkers do make it run late or early. `Tick` is time; only a COPY, a read and a wait take
time. `ForeignEvict` is another server process on the same directory. After a failed
inline fetch the code leaves running fetches to end, and so does `FailInline`.

**ReleaseCache** numbers releases in order of publication. Every critical section of
`resolve_release_info` and `available_releases` is one action, and `_discover` and
`_fetch_listing` are steps outside the lock that may fail or, on a caller's thread, be
interrupted. `reset_cache` is two actions because it takes two locks in turn. `origin`
and `listOrigin` are history variables: the generation a value was resolved in. The
environment override returns before touching any of this.

**GraphCache** is one mode. A box is a set of cells, so that containment of bboxes is
containment of sets. A call is a `_get_or_build_graph` or a peek (`graph_is_cached`);
`mem` is the LRU of
`_cache`, an order of LruOrder. The steps of a call are the lookup, the registry, the disk
lookup file by file (look at the sidecar, load the pickle, check the graph), the build, the
write to `.tmp`, the rename, the sidecar with the eviction, the store in memory and the signal.
Left open where it only picks among equals: which of several fitting entries is served, the
order of candidates on disk, which pickles are the oldest. A sidecar is trusted when the
pickle's size is the one it recorded; two different pickles of the same size are not modelled.
A `.tmp` that two
writers have open may hold either's bytes or a mixture, which fails to load. The release
comes from ReleaseCache's `RollOver` only, and `Restart` ends the process between any two
steps.

**DivisionsIndex** is the tables of one release. What is in a table is its kind: written
before the bbox check existed, stage 1, or full. `pc` are the program points of a search
(plain, or `Isolated`, which keeps a read slot throughout), of the background build and of
the stage-2 upgrade; they meet on `_blocking_build_lock`, on the fetch slots of `cache.py`
and on the read slots, which are SlotPool's. `deploy` is bundled (an index ships with the
release, the full table is built behind it), remote (the first search builds stage 1) or local
(one pass builds the full table). A build may fail in its COPY, at the rename, when the external
file cache is emptied after the rename, or at the sentinel, so a failed one may have published:
`Fails` is where it ends, `FailBuild` what the handlers of the threads and of a search catch, and
`FailSearch` the errors of the file system that they do not and that end the call. Starting a
thread is taken to succeed. `Restart` ends the process at any point, `Delete` removes the
files under it, and a check may misread a table. The alternate-name and the language table
are built by the same code and stand for each other as `names`.

**Preferences** is several processes with several threads each on one document: `mutex` is a
process's thread lock, `flock` the lock file, `tmp` the file that is renamed over the
document. A save may fail, and a process may crash between any two steps; the kernel then
drops its `flock`. Normalisation drops what is junk and happens where the code does it, on
loading and before saving. **SharedDocument** is the promise in a page: an update merges its
fields in one step.

**AutoWarm** is the marker, the thread with its delay, its wait for foreground builds, the
themes it copies one after the other and the graph it builds, with rollovers and restarts
between. `raced` marks what was warmed while the release changed. **HomeRegion** is the
start-up thread and the callers that rank by distance from home, under the RLock, with
SlotPool's read slots. **SessionStore** is the overlays, the last city and the resolve LRU
of sessions, orders of LruOrder; a speculative leg reads and writes them through its deferred
writes. `told` is a history variable: for each session what it last stored, and who has
stored since.
**Paging** follows a client from page to page of `find_places` and `find_near`: fallback,
limit, budget, rewound cursor, and releases that roll over between pages. The two reads of
the release in one page are one step here.

### Graphs and shapes

**StreetNetwork** builds arcs from segments, connectors and access rules, one segment a step,
and snaps points to them; what can be reached is the least set that no arc leads out of, which
is what the search of `_compute_connected_components` finds; **StreetSearch** is the four
Dijkstra searches with their different stops, each compared with all paths of the graph;
**StopOrder** is the Held-Karp order with its one retry over a wider graph, which may fail
upstream and then takes the call with it although a smaller graph has served, compared with all
orders. **MapMatch** snaps a trace by a grid and joins it by bounded searches. **Simplify** is
the search for a tolerance at which a shape fits, with the allowance of work that all its
passes share. **ReachOutline** joins cells and walks around them. **Corridor** cuts a path into
stretches and samples what lies beside it. In these modules positions and times are integers,
and distances that need a root are left squared or taken along the axes.

### Answers

Every one of these modules is one tool, from the checks of its arguments to the truncation of
its answer, with each failure the code catches or lets pass. **RouteCall** has the peek, the
confirm gate, the cut-off builder and the wider retry. **TripComparison** sets routes side by
side (`meeting_point`, `compare_modes`, `travel_time_matrix`). **GersLookup** goes through
the themes and remembers misses. **GeocodeLadder**, **ResolveLadder** and **AddressSearch** are
the passes of `geocode`, `resolve_place`, `geocode_address` and `geocode_intersection`;
a name is known by how the data spells it next to the question. **PlaceSearch** is
`find_places`, **NearbyFeatures** water, infrastructure and transit, **LandUse** the polygons
and the grid that stands in for them. **ListingClaims**, **NeighborhoodVerdict**,
**ReleaseDiff**, **AreaComparison** and **AreaSuggestion** are the tools that judge.
Which rows a scan finds is part of the question that the initial state chooses, so the
properties compare the answer with the whole map and not with what was scanned.

## Runs

| run | instance | what it shows |
|---|---|---|
| `cursor_pool` | 3 threads, cap 2, 4 cursors, nesting 1 | slots conserved, exclusive cursors, cap on open cursors, no hold-and-wait, a closed pool drains, waiting threads keep seeing slots, refinement of SlotPool |
| `read_fanout` | 2 names, one on a batch worker, cap 3, 1 speculation thread, rounds of up to 2 scans | no lock-up within the bound, slots only held inside, commits exactly when used, everything ends |
| `tile_cache` | 3 tiles, 1 query, cap 1, one fetch slot, TTL 2, COPY and read of at most 1 | a query's tiles survive the evictions of its own and of background fetches; no torn tile |
| `release_cache` | 2 callers, 2 background threads, 2 releases, 1 reset | one discovery, both claims owned by who will release them, nothing from before a reset, rollover |
| `graph_cache` | 2 calls, LRU of 2, 1 pickle; 2 requests that share a pickle name across the rollover from release 1 to 2, 3 overlapping requests in release 3 | answers fit, nothing held twice, one build per area, no lost wake-up, coverage survives stores |
| `divisions_index` | a plain and an isolated search, cap 2, one fetch slot, 3 deployments, any failures of builds, 1 restart, deletion or misread | no build takes a full table back to stage 1, failed threads are retried, the holder of the build lock gets its slot, every search ends |
| `parts` | MCParts: 2 processes and 3 requests with 1 crash; 2 metros, 2 releases, 1 fault; up to 4 rows in pages of at most 3, 2 rollovers; 3 callers, 2 isolated, cap 3; 4 sessions, room for 2; all networks of 6 streets with 2 lengths; all matrices of 4 stops; up to 3 of 6 segments | the properties below, one per part, and the refinement of SharedDocument |
| `answers` | MCAnswers: for each tool a set of questions with their maps, data and failures, about 1.4 million states | each tool's own invariants, grouped as journeys, searches and verdicts |
| `read_fanout_batch` | as `read_fanout`, both names on batch workers | **violated**: the slots lock up |
| `tile_cache_claims` | as `tile_cache`, 2 queries | **violated**: a held tile is evicted |
| `release_recheck` | as `release_cache` | **violated**: a re-check bypasses the artifact rule |
| `graph_release` | as `graph_cache` | **violated**: a graph of one release filed under another |

The invariants of `parts`: `WarmMarkersAreEarned` (one warm-up and one marker per metro and
release, and a marked metro had its themes copied), `PagesJoinUp` (a traversal gives every
row once, in order, about one place, and a change of release between pages is noted),
`HomeRegionIsSettled` (asked once, seen by every ranking, never shut out of its slot),
`SessionsAreKept` (a session finds exactly what it stored until as many others as there is
room for have come since, an answer is from near the city its own session was in),
`SearchIsExact`, `TourIsBest`, `NetworkIsTrue` (no way the rules forbid, none they allow left
out; names and shapes those of the arcs a search takes; nothing snapped to a fragment while a
street network is in reach). Each includes its module's type invariant.

The invariants of `answers` are conjunctions over the tools; every conjunct is stated at the
end of its module. The questions they ask are of three kinds: is what is told true of the
whole map (`EmptyIsTrue`, `DistancesAreTrue`, `NearestIsNearest`, `RowsAreNearest`,
`BracketsAreTight`), is what is left out told (`NothingIsHidden`, `NothingIsSkipped`,
`UnmarkedIsComplete`, `ExactUnlessSaid`), and does a failed or cut step stay where it
belongs (`AnswersFollowTheGraphs`, `MissesAreReal`, `StopsDegrade`, `NoSurprise`).

The runs `parts` and `answers` do not check for deadlock, because most of their parts end: a
call is answered, a pager has its last page. The others have no state without a successor.

*Why the bounds are enough.* Each is the smallest at which the interesting case occurs,
and the mutants show that it does. Three threads on two slots: somebody always waits while
two others interleave. Four cursors are more than the cap can open, plus the ones a
`close` is draining. A round of two scans is the smallest that uses threads. Cap 3 with one
batch worker and one leg leaves one slot for scans, the tightest cap the theorem below
allows; the violation run has one batch worker more. A cache of one tile makes every
second write evict. TTL 2 against COPYs and reads of 1 keeps the code's own
assumption that one COPY and one read are shorter than `_CLAIM_TTL_S` (60 s), while a loop
of COPYs outlasts it; with a single COPY longer than the TTL a claim can lapse, and
nothing in the code prevents that. One reset gives a generation before and after; a
second one repeats the first. An LRU of two with three requests evicts, and two
requests that share a pickle name overwrite each other's file. Symmetry is used only in
runs without temporal properties other than `[][A]_vars`.

`tile_cache` has one query because with two the property fails (`tile_cache_claims`). With
one, the inline pool has one worker; the interleavings of fetches are then those with
background jobs. In the model a loop without a pool stops at the first failure, as the
code's does.

`divisions_index` has one isolated search on two slots, the tightest that theorem `LockIsSafe`
allows. Builds may fail any number of times. One fault besides is enough for each sequence the
code guards against: a deletion under a registered key, a misread table, a restart in the
middle of a build; two of them repeat the first. In `parts`, three requests in two processes
are two threads that share a mutex and a third that shares the file only; two releases are one
rollover; room for two of four sessions evicts, and an ephemeral session is one of them. Six
streets with two lengths or closed give every order in which a node's time can be improved,
settled and popped stale. Two segments are what it takes for parallel arcs and for a street
that leads on from another; three of those that cross go over the cap of two, or under it where
the class of one is excluded. Four stops are the smallest tour in which a greedy order is not
the best one.

In `answers` the questions are chosen, not enumerated blindly: each set holds the cases in
which the code's steps interact (a limit that is reached exactly, a name that is on both
sides of a filter, a scan that fails after another has answered, a graph evicted after the
peek), on the smallest map in which they occur. Limits that are 80 or 25 in the code are 2 to
6 there, which keeps their order to each other. What these runs do not show is that no other
question has a case of its own; the theorems have no such bound.

## Findings

Four disagreements are shown by a run.

1. **Name batches can lock up the read pool** (`read_fanout_batch`). Up to 8 batch workers
   hold the 8 default slots while each waits for its speculative leg or its scan threads,
   which wait for a slot. Nothing times out. The bound that makes it impossible is
   theorem `NoLockup`: batch workers and speculation threads together below the cap.
2. **A claim ahead of a fetch can be dropped by another query** (`tile_cache_claims`).
   `claim_existing_paths` pops the claim of a missing path whoever took it.
3. **The re-check ignores the artifact rule** (`release_recheck`). Only the first discovery
   goes through `_resolved`.
4. **Key and content of a graph may be of two releases** (`graph_release`). The release is
   read once for the key and again inside `build_graph`.

The others were met while modelling. The model does what the code does, and the property
beside it is stated with the exception, so that the rest of it is checked; `PROJECT.json`
gives each at its line. They are of six kinds:

- *Locks and slots.* The thread that looks up the home region, and the holder of the build
  lock, need a read slot; when as many isolated searches wait for the lock as there are
  slots, nobody moves. The theorems `SettledOnce` and `LockIsSafe` say that one slot more
  is enough.
- *Release read twice.* Warm markers, remembered misses, the extent memo of addresses, the
  pages of a traversal, the rows and counts of compared areas, the columns of transit stops:
  what was read in one release is filed, continued or explained under the next.
- *An upgrade that is lost.* A stage-1 table is published before its sentinel is touched. If the
  process ends between the two, or emptying the file cache or `touch()` raises, the table passes
  for a full one and nothing upgrades it, in this process or a later one. DivisionsIndex has these
  steps and makes no claim that a stage-1 table is marked. A table rebuilt in the process that
  upgraded it once is not upgraded again before a restart.
- *A cut that is not told.* A group cut at its limit, a stretch that holds exactly its share, a
  reach of more parts than are searched, a filter polygon of a reach that was cut or thinned,
  a grid of times kept where a wider graph was cut short, a scan of 80 rows filled by one need.
- *A fallback that says too much or too little.* An absent land-cover cell is answered as no
  land cover, a claim by name is confirmed by a similar name or a place without category
  columns, a changed place beyond the last id both scans read is reported as gone, the note
  of a flat route that failed stays on one that succeeded.
- *Docs that say more than the code does*, such as `edge_count`, `route_graph_is_cached`
  ("will not extract") and the promises of `geocode` on countries and corrections.

## Fairness

- *CursorPool*: a thread inside `lease` runs and its block ends (queries have HTTP
  timeouts); a free slot is eventually taken by some waiting thread; `close` finishes its
  loop. Nothing is assumed about which waiter gets a slot: `WaitersSeeASlot` says only that
  slots keep becoming free.
- *ReadFanout*: threads run, a free slot goes to some waiter, and a free speculation thread
  takes some queued leg. Weak fairness suffices because every wait occurs once.
- *ReleaseCache*: calls keep coming (strong fairness of `Resolve`: a process with no calls
  has no release to roll over to), the clock runs, threads that hold a claim go on, and an
  upstream that is asked again and again answers some day (strong fairness of a successful,
  current `Discover`). Without the last one `RollsOver` would be false of any program.
- *DivisionsIndex*: strong fairness of each thread's step. A thread that can go on goes on,
  and one that waits for a lock or a slot that is free again and again gets it some day,
  which `threading.Lock` and `BoundedSemaphore` give in practice and the code relies on.
  Calls need not come, and faults need not happen.
- The other modules state safety only and have no fairness.

## Proofs

All are by an inductive invariant `IInv` (or `TypeOK` with it), one step per action, closed
with PTL. Constants are arbitrary except for the named assumptions of each module.

- **CursorPoolProofs** (finitely many threads, a cap of at least 1). None of the invariants
  is inductive alone. `IInv` adds: a cursor local is live exactly between taking and closing
  it; a thread that leases has a thread-local set; every open cursor is idle, draining or
  leased; and idle cursors plus leases that have or are opening a cursor fit the cap (a thread only
  opens after finding no idle cursor, when that sum is at most the number of slots taken).
  From it follow `TypeCorrect`, `Conserved`, `Exclusive`, `WithinCap`, `NoHoldAndWait`,
  `Drains` and `Refines`, which shows that every step is a step or a stutter of SlotPool.
- **ReadFanoutProofs** (finitely many batched names). `Inside`: a slot is only held from
  inside its block. `Deferred`: commits exactly when used. `NoLockup`: if
  `Cardinality(Batched) + SpecWorkers < Cap` then whenever all slots are taken some holder can
  run. A blocked holder is a batch worker or a leg, legs are at most `SpecWorkers`, so some
  holder is a scan or a query, which waits for nobody. With the shipped numbers (cap 8, 4
  speculation threads) that covers up to 3 batch workers. `Batched` counts the names of every
  call in progress: one pair of `_resolve_pair` is within the bound, two concurrent pairs
  (4 batch workers) or a list of more names are not.
  `TypeCorrect` shows besides that never more threads than the cap hold a slot.
- **ReleaseCacheProofs**: `TypeCorrect`, `ClaimsOwned`, `ResetIsFinal`, for any threads,
  releases and number of resets. The invariant adds that captured generations are not from the
  future, so that what a reset disowned stays disowned.
- **GraphCacheProofs** (any calls, requests, boxes and file names): `SingleFlight`,
  `WaitersServed`, `Answers`, from an `IInv` that says which program points own a registry
  entry, that a waiter's builder is registered, and that whatever leaves the disk lookup was
  checked against the graph itself: sidecars and pickles are arbitrary in this proof.
  `FullInv` adds the types of the disk and of the calls, that a call has a file and a graph in
  hand where it uses them (`FileInHand`, `GraphInHand`), and that the memory is an order of at
  most `MaxSize` entries; from it follow `TypeCorrect`, `HeldOnce` and `Survives`. A store
  touches an entry that stands in for the graph, or drops every entry the graph stands in
  for; so no two of what stays stand in for each other. `Survives` is about one step: an
  order over its size has exactly one oldest member (`OldestExists`), so one entry goes and
  no more.
- **DivisionsIndexProofs** (finitely many searches, any caps of at least 1, any number of
  faults): `TypeCorrect` with both caps, `ChainsKept`, `Remembered` and `LockIsSafe`. The
  invariant says which program points own the build lock and hold a slot (`Owner`,
  `HeldForARead`), that what is being built does not take the place of a full table
  (`ReplacesNoChains`: who builds looked at the table under the lock) and that nobody replaces
  a table by a lesser one (`OnlyBetter`). `ChainsKept` excepts a table that its check could not
  read, which is rebuilt from stage 1. `LockIsSafe` has the premise `Cardinality(Isolated) <
  Cap`: a slot holder that waits for the lock is an isolated search, so with one slot more than
  those some slot is free or held by a thread that reads.
- **TileCacheProofs** (any queries, tiles, fetch pools and times): `TypeCorrect` and
  `NeverTorn` without a premise. `HeldStay` has three: one query (finding 2 is what happens with
  two), and copies and reads shorter than the TTL of a claim (`MaxCopy < TTL`, `MaxRead < TTL`:
  the 60 s that `_CLAIM_TTL_S` is chosen for). None of what keeps a held tile is in
  `HeldTilesStay` itself. The invariant adds: a query has
  fetches only for tiles it misses (`FetchesAreMissed`), what its own fetch found or published is
  there (`FetchedIsThere`), and a query that is not at work holds nothing (`NothingLeft`). The
  rest is about age: the claims of a query that reads are as old as its read
  (`ReadIsClaimed`), and those of one that fetches are fresh, or as old as one of its COPYs,
  whose end renews them all (`FetchIsClaimed`). So a claim outlasts the step it protects, and an
  eviction in between skips the tile.
- **MCPartsProofs** proves the parts of `parts` for any values of their constants. Each theorem
  is of `MCSpec`: steps of other parts leave the part's variables alone.
  - `NothingIsLost` and `Refines` (Preferences; any processes, threads, values, failures and
    crashes): what an update merges into is still what the file says when it is written, and
    the file and its locks implement SharedDocument. The rename is the step that updates the
    abstract document; everything else stutters. The invariant says that everybody between
    loading and saving holds both locks, and that what was written to the `.tmp` is the merge
    of what was loaded.
  - `SettledOnce` (HomeRegion; finitely many callers, one slot more than isolated ones): asked
    once, seen by every ranking, never shut out of its slot. The last is the argument of
    `LockIsSafe`; the rest needs that only the thread with the lock looks up (`OneFinder`) and
    that nobody ranks by what was found before it was (`UnseenBefore`, `RanksAgree`).
  - `Earned` (AutoWarm; any metros, themes, releases, restarts and failures): the invariant
    says that a running thread works on a metro nobody marked in its release
    (`WorksOnUnmarked`), in one thread per metro, and that nothing carries a release that is
    not out yet.
  - `Joined` (Paging; any rows, limits, budgets and rollovers): the invariant follows a page
    through its steps (`CursorFits`, `CallFits`, `PageFits`): the rows in hand are those from the
    cursor's offset on of one of the searches that were made, all of one release unless a change
    was noted or slipped in (`OneRelease`), and the next cursor never points past the last row
    (`NotPastTheEnd`).
  - `Kept` (SessionStore; any sessions, bounds, answers and legs). The store says exactly what
    the sessions were told: a session is in it when fewer than the bound came since, with what
    it stored last, and those that came since are those after it in the order
    (`StoreIsTold`). `AnswersFitTheirKeys` and `CallsAreWhole` carry the city of an answer from
    the lookup to the put, across a clear in between and the deferred writes of a leg.
  - `Exact` (StreetSearch; any finite graph, elevations, penalty, limits and targets, and any
    order in which equal heap entries pop): each of the four searches answers what the
    definition by all paths does. The invariant: an entry is its node's label of now or of
    before (`HeapFits`); a node's labels are the rank, time and length of one path, the one
    that `prev` leads back along, and every node on its way is before all entries
    (`LabelsAreReal`); a node that was reached has an entry or its edges are relaxed
    (`NoneIsForgotten`); what was noted of a target is least (`SettledIsFinal`). So the label of
    the least entry's node is the cost of a cheapest path (`TopIsShortest`): the first node of a
    cheaper path whose label is too high follows one that is relaxed. It is assumed that no path
    costs `Infinity` or more, as none costs `math.inf`. Sums along a path are recursive and
    paths are followed to their first bad node without an induction theorem: a set of numbers
    that is not empty has a least one (`LeastNumber`), and the least counterexample is refuted.
  - `Best` (StopOrder; any number of stops from two on, any times, estimates and gaps): no
    graph is near only if no radius reaches all stops; the upstream's error ends the call only
    at a radius that was tried because none before it had connected every pair; an answer is
    from the graph that leaves the fewest pairs to be estimated; and the order is the first of
    the tours that take least time. The order of `better()` is total and transitive
    (`PrefersTotal`, `PrefersTransitive`), so every set of priced orders has one choice, found
    without an induction over sets: the least cost, then the least stop at the least place
    where two orders differ (`LexLeast`, `ChoiceExists`). Two orders that end alike keep their
    preference when both go on to the same stop (`ExtendKeeps`), which is what the docstring of
    `solve_tsp` argues; so the best order of a key is the best of those before it, gone on
    (`BestExtends`), and the table holds the best order of every key (`PrefixIs`): a key with
    fewest stops at which it does not is refuted. Costs are naturals, so
    `OPTIMIZE_TIE_EPSILON_S` is equality; with rounding, ties within an epsilon are not
    transitive and none of this is claimed.
  - `StreetsAreTrue` (StreetNetwork; any finite set of nodes, any segments, rules and classes,
    modes, distances, radii and sizes of components). Reachability is compared, not arcs:
    a stop that lies between two others is no move of its own. The invariant: the segments
    that are left are the rest of those kept, in their order (`ReadInOrder`); between two nodes
    is an arc exactly when a segment that was read makes one (`ArcsAreOfTheRead`); and the
    name and the shape of every pair are those of the earliest of its lightest arcs
    (`SlotKept`), which each arc preserves whether it wins, ties or loses. No path is
    followed: two relations reach the same nodes if they lead out of the same sets
    (`SameReach`), and the arcs of a segment lead out of a set of nodes exactly when its legal
    moves do (`MovesLead`). One half is that every arc is a legal move; for the other, of the
    stops ahead that are outside the set the first one would follow one inside (`WaysForward`,
    `WaysBackward`), and the connectors at one end are tied (`TiesSuffice`). Components are
    symmetric, so one is the same from all its nodes (`ReachBack`, `ComponentsAre`), and the
    nearest usable node is usable from there. It is assumed that two connectors inside a
    segment are not at one place of it (the code ties such two only by the order of their
    ids, and along the segment's one way) and that a segment has a length.
- **LruOrder** holds the lemmas about orders that these proofs share: a use makes an order and
  puts the member last (`UsedIsOrder`, `UsedIsLast`), twice in a row is once (`UsedTwice`), a
  non-empty finite order has one oldest member (`OldestExists`, by the least number of members
  before it, since the naturals are well-founded), and with the surplus gone exactly those stay
  that fewer than the bound were used after (`SurplusGoes`).

Only model-checked:

- the liveness properties (`WaitersSeeASlot`, `EverythingEnds`, `RollsOver`,
  `EveryCallEnds`), because fairness is out of the prover's reach;
- all of MCAnswers (`JourneysAreRight`, `SearchesAreRight`, `VerdictsAreFair`): an answer is
  compared with a definition over a finite map, and the steps between are computed with folds
  over rows, whose values for every input would take an induction over data;
- `HeldTilesStay` beyond one query is not proved because it is false (finding 2).

## Not modelled, and why

- *Pure formulas over floating point*: haversine, point in polygon, areas and centroids,
  elevation, comfort weights, scores of rows, and the native kernels, which compute what
  `routing.py` computes. TLC could only check a transliteration. Where an answer depends on
  their result, the modules take it from the question.
- *Text*: name folding, postcodes, house-number formats, category tokens, wording of notes,
  SQL. A model would need strings put together character by character.
- *Same shape as a module*: buildings, recreation, landmarks, boundaries and street names are a
  scan of one dataset like those of NearbyFeatures; exports and the verify line only format.
- *Maps and links*, registration, schemas, envelopes, profiles and prompts of the server:
  rendering and declaration.
- *Progress and traces*: context-local logs without effect on answers.
- `shared_conn` under `conn_lock` (one lock around sequential code), the replay of settings
  on a new cursor, the environment override of the release, tile arithmetic and schema
  fingerprints: no shared state of their own.
- Windows, where `flock` is missing: the code then has no lock between processes, and
  SharedDocument does not hold across them. Preferences models the systems that have it.
- A second process on the directory of the division tables: the stale-partial cleanup and
  the lock are per process, and the interleavings of two would square the state space.
- `.tmp` files that a crash leaves: disk space only.

Hazards without a property, because the code does not keep them out (where a doc promises more,
see the findings): the drift of the cache's running total between walks; the window between the
two halves of `reset_cache` in which a listing loses its claim (both answers are of the new
generation); anchors put into their memo after a clear (they are the same within a release); a
graph evicted between the peek and the call; a miss, or a warm marker, filed under the release
that is current when it is written; a marker that outlives a failed graph build; releases
compared beyond the last id both scans read; a stage-1 table that was published and not marked.
The models have these steps, and the properties beside them say which states they except
(`lost` in RouteCall, `raced` in AutoWarm and GersLookup, the common window of ReleaseDiff).

## Plan

Done: the shared state of the program (SlotPool to GraphCache, DivisionsIndex, Preferences,
AutoWarm, HomeRegion, SessionStore, Paging), the searches and shapes, the tools of MCAnswers,
and the proofs above. Left, in this order:

1. Proofs: the tools of MCAnswers, whose folds would have to become recursive functions for an
   argument by the least counterexample, as in `Exact`, `Best` and `StreetsAreTrue`; the
   composition of TileCache with SlotPool, with the slot a query keeps while it fetches.
2. The anchor memo and the second process on the tables, as extensions of SessionStore and
   DivisionsIndex.
3. The remaining theme queries and `place_details`, as further instances of NearbyFeatures.
4. Two releases read in one page of Paging.
