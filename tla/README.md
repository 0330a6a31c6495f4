# TLA+ models of the TTC GTFS-Realtime platform

This directory holds the verification project of the platform: TLA+ modules of
its data path (collector, analytics worker, analytics runs, per-trip transform),
of what is shared between processes and threads (the database tables beside a
reset, the static bundle and its caches, the route catalog) and of what the API
and the training export compute about a route (stops, buses, episodes,
forecasts, labels); TLC configurations that check them on small instances; and
TLAPS proofs of the main results for every value of the constants.
`PROJECT.json` lists runs, mutants, hazards, findings, theorems and, definition
by definition, the source lines each models.

    tlc -workers 2 -config Collector_same_feed.cfg CollectorMC
    tlapm Collector_proofs.tla

## 1. The system

Long-running processes around one PostgreSQL database, orchestrated by
`docker-compose`: one collector per feed, the analytics worker, the API, the
dashboard; beside them commands that people run by hand (`--once` collectors,
`apps.analytics.main`, `scripts.db_reset`). They share no memory: every
interaction goes through committed rows, except that the analytics processes and
the API read the same directory of static GTFS files.

| component | state | operations | interacts with | hard behaviour | correct when |
|-|-|-|-|-|-|
| Collector (`apps/collector`) | stop flag, one open transaction; `feed_fetch_logs`, `raw_gtfsrt_snapshots`, rows of each feed | poll: stamp, fetch with retries, parse, normalise, persist in one transaction; loop; signal | HTTP endpoint, database | retries against timeouts, exceptions at every step, unanswered commits, crashes, several collectors of one feed | the tables are an append-only ledger of whole polls; the loop survives every poll and obeys a signal |
| Analytics runner (`runner.py`) | `analytics_runs`, `trip_trajectories` | a run: list instances, and for each derive, delete, insert, commit; finalise; export | reads what the collector commits; other runs on the same rows | READ COMMITTED interleavings of two runs, reads before the writing transaction, failures after partial commits | an instance's rows are always one trajectory of one run; runs end |
| Analytics worker (`worker.py`) | cutoff of the last tick (memory only), stop flag | tick: service dates, one incremental run for each; sleep; signal | calls the runner; the collector's commits race its listing | cutoff against late commits, midnight, failed ticks, restarts | no observation is left out of its trajectory for good |
| Per-trip transform (`pipeline.py`, `trajectory_extract.py`, `project_to_shape.py`, `upsample.py`) | none | extract, project, filter, speed, upsample | called by the runner | repeated, late and fractional report times, teleports, outages | one row per instant, nothing fabricated across outages, no implausible speed |
| Static bundle (`gtfs_static.py`, `stop_projection.py`, `schedule_headways.py`, `GTFS_Update_monitor.py`) | files on disk; caches keyed by a token of their times | load, derive, refresh by download | read by worker and API while a download rewrites it | torn reads, stale caches | what is served after a refresh is the new bundle, whole |
| Anomalies (`anomalies.py`) | none | bunching and idling episodes with hysteresis | API | series with holes, thresholds | episodes are maximal and disjoint |
| API queries (`routers/iroam.py`, `db/queries`) | catalog cache with a time to live, shared by threads | list, slice, group into buses | trajectories | cache races | an answer is no older than the time to live |
| Forecast (`services/forecast*.py`, `bunching_predictor.py`) | model bundle | features, prediction, horizon, alerts | API | cutting the horizon, recomputed alerts | an alert agrees with the series beside it |
| Features and labels (`live_features.py`, `bunching/labels.py`) | none | gap chains, persistence, masks | API, training | two implementations of one definition | serving and training agree |
| Feed health (`feed_stats.py`) | none | status of each feed | reads the ledger | several queries, several snapshots | what the queries of an answer found does not contradict |
| Reset (`scripts/db_reset.py`) | none | TRUNCATE with restarted sequences | every table, beside live writers | ids used again | no row is taken for another's |

Not modelled and not planned: the dashboard (presentation over the API),
training, evaluation and deployment of the predictors (numeric, offline, or
model artefacts), the legacy pipeline (`data_process/arch_legacy`, superseded by
`apps/analytics`), notebooks and analysis scripts (they read what the modelled
parts write), static pages, and the migrations (DDL that runs before the
services; the constraints it creates are part of the models). Most of the
repository's lines are notebooks, generated model files and such scripts: the
models cover the services' own logic.

## 2. The modules

### Collector: `FeedDecoding`, `Collector`, `PollLedger`

`FeedDecoding` holds the pure part: when bytes parse (`parser.py`: binary, text
only behind a `header` prefix), which entities a feed's normaliser selects (the
route allowlist, its absence for the subway feed), which rows they become, and
when a timestamp makes the conversion raise. Payloads and entities are records
of just these facts.

`Collector` has one program counter per process and one action per step that
another process, a failure or a crash can come between: `Begin` (stamps
`fetched_at`), `Received`, `Retry`, `FetchFailed`, `Parse`, `Normalize`,
`FlushLog`, `FlushSnapshot`, `Commit`, `LogFailure`, then `Wake` or `Exit` of
the loop. `DatabaseRaises` is a flush or commit that fails (the sequence keeps
the id it gave), `CommitUnanswered` a commit that is made and reported as an
error, `FailureUnanswered` the same of a failure row, `Crash` and `Restart` the
container. Tables hold committed rows; `txn`
holds the ids that an open transaction has been given. `--loop` processes go on
after an exception, `--once` processes end.

`PollLedger` is the abstract specification: a set of polls to which one whole
entry is added at a time. `Collector` implements it (`ImplementsLedger`) under
the mapping `LedgerOf`, which joins a log row with its snapshot and its rows.

### Runs: `TrajectoryRefresh`, `AtomicRefresh`

`TrajectoryRefresh` is `run_for_date`, any number of runs side by side on one
service date. The DELETE takes two actions, its snapshot (`BeginDelete`) and its
execution once no other transaction holds the rows (`Delete`), because at READ
COMMITTED rows committed in between are not seen; `Insert` waits for open
transactions that hold one of its keys and `InsertCollides` is the unique index
refusing. `Raise`, `FinalizeFailed` and `FinalizeSwallowed` are the handler, and
`Kill` the end of a process. What a run derives from `n` observations is the
constant `Derived`: two runs may have different settings.

`AtomicRefresh` is the promise to readers: the rows of an instance are replaced
in one step by a whole trajectory derived by one run from what was observed.

### Transform: `TripTransform`

What `Derived` stands for: `process_trip_instance` as operators on the set of
reports of one instance (`RouteMismatch`, `Extract`, `OnRoute`, `Keep`, `Pairs`,
`Boundaries`, `RowAt`, `Derive`), with `Observe` and `Refresh` alternating so
that successive derivations can be compared. Times are in fractions of a second
and quotients are kept as pairs, so no rounding is modelled: the floating point
of the code and the final rounding to centimetres are abstracted, as is the
projection, whose result is part of a report. `Keep` is a recursive function,
not a RECURSIVE operator, so that the module can be proved about.

### Worker: `AnalyticsWorker`

The loop of `worker.py` with its two times, `tick` (`tick_started_at`) and
`since` (`last_tick_started_at`), the service dates of a tick, the listing and
one `Refresh` per trip. The collector is seen by its commits: an observation
becomes visible up to `MaxLag` after the `fetched_at` it carries. Which service
date it belongs to is `_EFFECTIVE_START_DATE` (`EffectiveDates`): the feed's
`start_date` as reported (`StartDates`), else the date of the vehicle's clock,
which may be ahead of the fetch or behind it (`Clocks`), else that of the fetch.
`Advance` does not let time pass the deadlines of a tick, a sleep or a restart.
Two local clocks are taken for one: the setting by which a tick finds its dates
(`_service_dates_for_tick`) and the `America/Toronto` written into the query.
`AnalyticsWorkerMC` holds the dates and clocks of the runs.

### Tables: `SharedTables`

The processes that share the database, seen by the table locks of their
transactions: the polls of collectors, runs of the analytics, a status request
(`feed_status`, `recent_fetches`) and the one TRUNCATE of `db_reset.py`, which
takes its exclusive locks table by table (`AskLock`, `GrantLock`) and only then
empties the tables and restarts the sequences (`Truncate`). The lists of tables
are those of the code (`DATA_TABLES`, what a statement locks), and their
opposite orders make real deadlocks: `Detect` is the server's detector, which
fails one statement of the cycle. This is where the components meet: a run
reads what a poll commits, a request reads both, a reset is between any two
statements. Other modules refine the steps it takes as one.

### Static bundle: `BundleCache`, `SafeRegister`, `StopProjection`

`BundleCache` is one process: the files of the directory, each with content and
timestamp; `download_ttc_gtfs` in another process, which truncates and rewrites
them in place one after another (`OpenFile`, `CloseFile`) and may stop anywhere
(`DownloadFails`); and the threads, which stat the files for a token
(`StatFile`), look up three levels of `lru_cache`, read the files in the order
of `_load` (`ReadFile`; a torn file may be rejected, `ReadRaises`) and store
under the token they computed first. `load_all` inside `compute_route_stops`
has a token of its own. `SafeRegister` is the promise: a request that no
rewriting overlaps is answered from the bundle on disk, whole.

`StopProjection` is `_monotone_stop_distances` stop by stop, over shapes that
pass near themselves, and the binary search of `distance_to_stop_index` half by
half.

### Route catalog: `CatalogCache`

Threads that read, fill and replace the process-wide pair of stamp and catalog
without a lock, one access to the pair or to the clock per action; `AskAfresh`
is a request with `use_cache=False`, which queries and stores without a look. A
catalog is known by the time its query saw the database; a step takes at most
`Slow`, a query at most `Agg`. `invalidate_catalog_cache` is left out.

### A route's view: `BusTracks`, `BunchSweep`, `StopCrossings`, `ForecastWindow`, `BunchingLabels`, `RouteView`

Each module is one computation as the code loops over it, its input chosen as
the loop comes to it, so that TLC enumerates inputs and steps together:

- `BusTracks`: `group_into_buses` row by row, `segment_vehicle_points` (stale
  runs cut out, short rests dropped), idle and crowd detection point by point;
- `BunchSweep`: bunching by distance tick by tick, with the two thresholds;
- `StopCrossings`: the first time each bus passes each stop (fractions, not
  floats), and who follows whom within the threshold;
- `ForecastWindow`: `build_bus_window` row by row, eligibility and refusals,
  the horizon cut and the alert recomputed after it. Beside it stands the row
  that `labels.py` computes for the training set (`Recorded`, `TrainedChain`) at
  a tick at which it has a sample; at others it interpolates, which is not
  modelled, and the properties say nothing of them;
- `BunchingLabels`: `extract_labelled_examples` reference by reference and step
  by step, the label debounced over any of `PersistCounts` ticks, the passage of
  the leader.

`RouteView` composes them: a thread is in one computation at a time, and each
takes any input within its bounds, which includes whatever the one before it
hands over. They share no state, so no more is lost by that. The episodes'
midpoints, the wording of answers and the arithmetic of the predictor (its
thresholds may be exceeded at any of a few sets of steps) are abstracted.

## 3. The runs

| run | question | instance |
|-|-|-|
| `collector_same_feed` | does the raw data stay a ledger of whole polls? | a looping and a manual collector of one feed, two polls, five payloads (empty, garbage, text, mixed routes, faulty time), database failures |
| `collector_loops` | does every poll end, does a signal stop a loop, is the subway unfiltered? | subway and detour loops, three attempts, fair |
| `refresh_overlap` | do readers see only whole trajectories, and do runs end? | worker and manual run of a coarser grid, two instances, three observations, failures, fair |
| `refresh_last_writer` | does the last writer win? (no) | two runs of one grid, one instance |
| `trip_transform` | is a derived trajectory sound, and does it only grow? | four reports out of fourteen, in any order |
| `worker_nothing_missed` | does every observation reach a trajectory? | one trip, two observations dated by the feed, by a clock fast or slow, or by the fetch, one midnight, one failed tick, one crash between any two ticks that end |
| `worker_failed_tick` | does the next tick catch up with a failed one? (no) | no crash |
| `shared_tables` | does a reset leave whole polls, traceable trajectories and coherent answers, and does everybody end? | two collectors, an analyst, a status request, one reset, two polls, fair |
| `static_bundle` | is what is served after a download the new bundle, whole? | two files, two threads, one download that may stop anywhere, two requests, caches of one entry |
| `route_catalog` | how old may an answer be? | two threads, TTL 2, query 3, step 1, eight units of time |
| `route_view` | do the loops compute what they promise? | see the bounds |
| `route_stands` | is every long stand an idle event? (no) | the same |

**Bounds.** Two processes or runs are enough for every pairwise interleaving,
and no statement of the code involves a third one; the proofs remove the bound
where it matters. Two polls give a poll that follows a failed, crashed or
unanswered one. Three attempts separate first, middle and last. Three
observations give runs that read none, some and all of what another run reads;
two instances let runs take them in opposite orders (a transaction of the code
holds the locks of one instance only, so that no cycle spans two, in the code or
in the model: what `RunsEnd` excludes are locks kept past the transaction and
waits on keys within an instance). Four reports are the least for a
teleport whose neighbours survive (before, two that agree with each other,
after). The worker's nine units hold four intervals, the grace after a midnight,
the hours outside any grace, the first two units after the next midnight, a
crash and a failed tick at any place. Reported start dates are the day before
the first, clocks one unit fast, right or one slow. What happens to one trip's
observations depends on no other trip's, except that a failure may come before
or after its refresh, which one trip shows.

In `shared_tables` one actor of each kind and a second collector meet the reset
at every pair of statements; `Limit` 1 is a list of fetches that is full, and
one reset gives ids used again. In `static_bundle` two files are the least that
tear, one of them the shapes, which two of the caches are derived from; one
download gives an old, a mixed and a new bundle, and caches of one entry evict.
In `route_catalog` a query may outlast the TTL. In `route_view`: three stops on
a shape of length 4, every walk on a line, so that shapes turn back; six rows
of two keys, of four kinds (moving, standing full, standing long, falling
back), enough for a stand between two moving ends; three buses over four ticks,
the least in which a third bus comes between a pair; three buses and six points
over stops 0 to 2 for crossings; windows of three ticks with two peers whose
recordings have holes, begin and end inside, at the edge of and outside the
window, on a route of three stops four units apart, with buses on a stop, within
and outside the half stop below an edge; grids of five ticks with a history of
two and a horizon of three, so that windows overlap, and labels that are not
debounced, debounced over three ticks, which every label has behind it, and over
four, which it may not have.

`CHECK_DEADLOCK FALSE` in every run but the two of `RouteView`: elsewhere
`--once` processes and runs end, and the bounds stop the rest. `RouteView`
always goes on, and deadlock is checked: no computation can get stuck.

**Time.** In the worker run the interval is 2, the day 7, the grace 5, the slack
3 units; a tick lasts at most 1 and a restart at most 1. Their proportions
matter, not their size, and `CoverAssumption` names the ones the code relies
on: its look-back of two intervals covers the crashes between two ticks that end
(`MaxCrashes` of them) only if these ticks and restarts together take no longer
than one interval, and the grace after midnight must outlast two intervals and
the vehicles' lag. Neither is a guarantee of the code: a container that keeps
crashing for longer than the interval (120 s) leaves a hole. In
`CatalogCache` a step between two accesses is assumed shorter than the TTL
(`Slow < Ttl`, which is 120 s in the code). In `BundleCache` a write is assumed
to give a later timestamp than any before it.

**Fairness.** `FairSpec` of the collector is weak fairness of each process's own
step, not of faults, signals or the clock. An HTTP call ends because of the
client's timeouts, the retries because they are counted, the sleep because it is
timed; database calls are assumed to return. In `TrajectoryRefresh` it is weak
fairness of a run's step: a waiting statement is not enabled until the lock is
released, and PostgreSQL then resumes it. In `SharedTables` what has begun goes
on (a poll, a run, a request, the reset), nothing has to begin, and the
server's deadlock detector runs (`deadlock_timeout`).

**Passing properties.** `IdsAreKeys`: sequences never give an id twice, whatever
rolls back. `SuccessHasOneSnapshot`, `ProvenanceAgrees`: the three tables tell
one story of a poll, the copies of `feed` and `fetched_at` included.
`OutcomeMatchesDatabase`: what the caller is told is what was committed (an
exception claims nothing). `LoopOutlivesPolls`, `PollSettles`, `SignalStops`:
the loop. `SubwayUnfiltered`: the registry gives the subway no allowlist.
`InstanceUnmixed`, `RunsEnd` and the refinement: overlapping runs. The first and
the last follow `runner.py`, which deletes an instance's rows and inserts the new
ones; `trip_trajectory.py:7-9` describes append-only tables, which they are not.
`OneRowPerInstant`: what a run inserts cannot meet itself in the unique index.
`MatchesLegacyLoop`: the vectorised count against the loop of the parity test.
`OutagesNotBridged`, `SpeedsPlausible`: filter, cap and speed column work on the
same points. `UpgradesOnly`: with reports in order a refresh adds rows and
removes none. `NothingMissed`: only three kinds of rows can be missed for good,
those that commit after a tick that began after their poll, those in the window
of a tick that failed (`skipped` is a history of those windows), and those that
are not dated by the time of their fetch (`DatedElsewhere`: a start date that the
feed reported, a vehicle's clock that is ahead or more than `VehicleLag` behind).
The second is finding 2, the others are observations below.

`PollsWhole`: a reset between any two statements of a poll tears none.
`TrajectoriesTraceable`: a trajectory's run is there, was begun by whoever wrote
it, and its observations are there; the foreign key and the order of the locks
carry it. `CoherentStatus`: four queries see four states, and still contradict
each other in one direction only. `EverythingEnds`: the TRUNCATE locks in the
opposite order and nobody waits for ever. `EntriesFresh`: no cache holds an old
bundle under a token the disk still has. `AnsweredFromOneBundle`: the
refinement of `SafeRegister`. `CatalogAge`: an answer is no older than the TTL,
one query and two steps. `StoredValid`: "a slow aggregation can't expire its own
entry".

`StopsPlaced`: stops never go back, and each is nearest to the shape among the
places still ahead. `IndexOfLastPassed`: the binary search against its
definition. `BusesAreRealRuns`, `EpisodesAreRuns`, `EventsAreEpisodes`: single
passes with flushes against maximal runs and stretches. A stretch of
`EventsAreEpisodes` is one of ticks at which the pair is consecutive and its gap
positive and within the exit threshold, so that a third bus between the two, or
a gap of 0, ends it as the code does. `FirstPassage`: crossings are the first.
`FollowersFlagged`: the buses flagged at a stop are exactly those that pass it
after another by less than the threshold, of those that pass together the first
listed. `ServedAsTrained`: where at every tick so far each bus has its sample or
is out of reach of one, a row served is the training row up to the first gap as
long as the sentinel. `ScoredAsTrained`: where that is so of the whole window,
the buses served are those the training set takes, but for the half stop below
either edge of the band. `HorizonUnitFree`: units cancel above the speed floor,
and an alert is one of the steps shown. `PersistMeansHeld`: a debounced label
says that the gap held, over recorded ticks; otherwise it is the plain one, and
only for a debouncing longer than the history and one tick.
`LabelledWhileRecorded`, `HeadwayPositive`: which ticks get a label, and that a
headway is positive however the projection wobbles.

**Findings.** Three runs state what a comment or document says and end in a
counterexample; `PROJECT.json` quotes each.

1. `OverlapIsSafe`: the second of two overlapping writers does not win, the
   unique index aborts its whole run.
2. `FailedTicksCatchUp`: the cutoff advances past the window of a failed tick.
3. `EveryStandShown`: the segmenter cuts a stand of 20 minutes or more out of
   the bus before idle detection looks, although `idle_min` may be up to 60.

**Observations** that the models rest on or came upon, without a run of their
own:

- A timestamp out of range raises in the normaliser, outside the handlers that
  write a failure row (`collector/runner.py:117`): such a poll leaves no row,
  while `feed_fetch_log.py:3` speaks of a row for every poll.
- Two runs whose grids share no instant leave the rows of both in an instance;
  hence the assumption `GridsMeet` of the proofs. A slower run replaces a longer
  trajectory by a shorter one, and an instance whose new derivation is empty
  keeps its old rows (`runner.py:182`).
- `trip_trajectory.py:7-9` ("append-only: re-running ... inserts a new run and new
  rows", the latest point being a `DISTINCT ON` query) is stale: `runner.py:191`
  deletes an instance's rows, the unique index admits one row per instant, and
  no query of trajectories is a `DISTINCT ON`.
- Rows that commit after a listing that began after their poll are older than
  the next cutoff of the worker.
- The slack "covers vehicle clocks lagging the fetch and overnight trips"
  (`pipeline.py:40-45`) in the windows of the queries. The dates that a tick asks
  for (`worker.py:36-52`) end with the hour after midnight: an observation that
  the feed dates yesterday is not looked for after that hour, one dated by a fast
  clock not before midnight. TTC's feed reports no start date (`pipeline.py:72`).
- After a failed download the mixed bundle stays, with a `feed_info` that may
  already be the new one; every download of the repository is started by hand
  and in place.
- After RESTART IDENTITY a run under way in one analyst may own the id that
  another is given; with two analysts `TrajectoriesTraceable` does not hold.
- `invalidate_catalog_cache` is called by tests only; an invalidation may be
  overwritten by a late store.
- Idle detection takes a negative speed for idle (`anomalies.py:122`) while the
  segmenter takes its magnitude. A distance run "only leaves ... once the gap
  exceeds" the exit threshold (`anomalies.py:245-247`), but it also ends at gap 0
  and when another bus comes between.
- Buses at a stop "within ≤ bunch_seconds_threshold of each other"
  (`anomalies.py:6-7`) are not flagged at exactly the threshold, nor for each
  other if they pass together; of two that pass together behind a third, only
  one is flagged.
- The floor of 1 m/s makes the drawn horizon of slow buses depend on the units
  (`forecast.py:387-389`); `forecast.py:343` passes the route length in the
  serving units, against its comment, which the shipped bundle does not notice
  as its features (extras schema 4) hold no distance to the terminus.
- Serving takes the nearest sample (`live_features.py:93-110`), up to its
  tolerance outside a recording too; training interpolates between samples and
  takes nobody outside his recording (`labels.py:257-283`). In a hole, between
  ticks and at the ends of a recording they differ, hence the condition that a
  tick is decided. A gap of 20 km or more is no leader to one and a leader to the
  other (`Cut`). Rounding moves the excluded edges by half a stop
  (`live_features.py:264`), hence `OutOfRounding`.
- The debounced label falls back to the plain one where a trailing tick is not
  recorded (`labels.py:790`). While `persist_ticks` is at most `seq_len + 1`, as
  by default, that is never so; nothing in the code enforces it.

Each mutant in `PROJECT.json` is a plausible slip in one definition (a flush
that commits, an id computed from the table, a handler without rollback, a
missing grace, a closed range, a token computed at the store, a run that the end
cuts off) and is caught by the property it is listed with.

## 4. The proofs

Assumptions are those named in the modules (`AllowlistAssumption`,
`ProcsAssumption`, `BoundsAssumption`, `RunsAssumption`, `SettingsAssumption`,
`TimesAssumption`, `CoverAssumption`, `CountsAssumption`, `ActorsAssumption`,
`BundleAssumption`, `GeometryAssumption`, `SweepAssumption`,
`CrossingsAssumption`, `WindowAssumption`, `LabelsAssumption`,
`TracksAssumption`); TLC evaluates each on the instances of section 3.

**`Collector_proofs`.** For any processes, feeds, payloads and attempts. The
inductive invariant is the conjunction of `TypeOK`, `Progress` (what a process
has at its program counter: a body that parses, ids in its transaction), `Drawn`
(every id in a table or an open transaction is below its sequence), `Fresh` (an
id in an open transaction of a poll under way is in no table and no other
transaction) and the table invariants. `Fresh` is what the visible invariants
lack: without it a commit could write an id that is already there. Theorems:
`TypeCorrect`, `KeysCorrect`, `SuccessCorrect`, `ProvenanceCorrect`,
`OutcomeCorrect`, `LoopCorrect`, `SubwayCorrect`, and `Refinement`: every commit
is one `Record` of the ledger, `Tick` its `Advance`, everything else a stutter;
the lemma `EntriesKept` says that a commit leaves the entries already in the
ledger as they are.

**`TrajectoryRefresh_proofs`.** `TypeCorrect` holds for any runs. `Unmixed` and
`Refinement` assume `GridsMeet`: any two non-empty trajectories of an instance
share an instant (true of one resolution). The invariant says that the table
holds whole trajectories, that a transaction which has inserted holds every row
it must replace (`Replacing`), and that at most one transaction per instance has
inserted (`Alone`): a second one would share a key with it and wait. Hence a
commit replaces the whole instance.

**`TripTransform_proofs`.** For any grid, cap and reports. `BoundaryRange` says
that the boundaries of a pair are the multiples of the resolution from the
second of its first point to before that of its last; it carries the arithmetic
(floor and ceiling by a variable divisor). `PairsOrdered` says that one of two
pairs ends before the other begins. Theorems: `TypeCorrect`, `RowsApart`,
`Parity`, `OutagesKept`.

The filter `Keep` is recursive in the time of the points. That a set obeying its
rule exists is shown for the points up to a time (`KeptUpTo`): were there a first
time without one, the set of the time before could be extended. Two such sets
agree for the same reason, hence `KeepIsKept`, and adding later points leaves
what was kept (`KeepGrows`). `SpeedsKept` follows as neighbours that were kept
are plausible to each other; `UpgradesKept` needs besides that the rows shown are
among those of the reports at hand (`RowsKept`), as a report later than all
others only appends a pair.

**`BundleCache_proofs`.** For any files, threads, requests, capacities and any
number of downloads and requests. Beside types the invariant says that nothing
bears a time still to come (`Past`), that entries are whole (`WholeEntries`) and
fresh (`EntriesFresh`), and of each thread where it is (`Progress`), that the
tokens of its nested calls were taken in order (`Ordered`), that what it holds is
fresh under the token it may be stored with (`HeldFresh`) and that, undisturbed,
it has seen nothing but the disk (`Undisturbed`). The last two are the argument:
a token is computed before the files are read, so whatever is rewritten later
bears a later timestamp than the token, and an entry found under the disk's own
token has no such file. Theorems: `TypeCorrect`, `EntriesAreFresh` and
`ImplementsRegister`, the refinement of `SafeRegister`.

**`CatalogCache_proofs`.** For any threads and durations with `Slow < Ttl`. The
invariant `IInv` bounds the stamp of the pair by the age of its catalog
(`cache.stamp <= cache.catalog + Agg`), so that it does not matter which thread
stored it, and says of each thread what it knows at each point (`Holds`):
`AnswersBounded`, `StoresValid`, `TypeCorrect`.

**`AnalyticsWorker_proofs`.** For any trips, any start dates and clocks, and any
times that satisfy `CoverAssumption`. The invariant says that at every moment
there is an instant up to which every observation is settled (in a trajectory,
late, in the window of a failed tick, or not dated by the time of its fetch),
and what that instant is: asleep it is the cutoff; within a tick, the cutoff
before, and what the tick has yet to refresh is still listed or on a date to
come (`PendingInTick`); after a crash, an instant close enough for a cold
start's look-back to reach. A crash only brings it closer to the edge, which is
where the assumption is used. `NothingIsMissed` reads the invariant at a
sleeping worker.

**`SharedTables_proofs`.** For any number of collectors, analysts, requests,
polls and resets. What a transaction holds follows from the statement it is at
(`LocksFit`), and no table granted to the TRUNCATE is held by anyone
(`Excluded`): when it has all five, every transaction is before its first
statement, and what it found it finds again. Around that stand the invariants of
ids, of polls, of runs and of what a request has seen: `PollsAreWhole`,
`StatusIsCoherent`, and `TrajectoriesAreTraceable`, which assumes a single
analyst; with two it is false (section 3, observations).

**`RouteView_proofs`.** The computations of a route share no variable, so each
step of `RouteView` is a step of one of them and a stutter of the others
(`PartsOfSpec`): what is proved of a part's own specification holds of the whole.
The theorems are of `RouteView`'s `Spec`.

- Stops, for any shape, stops and tolerance. Each stop `Follows` the one before
  it; the search keeps the distance between its two bounds (`SearchBounds`).
  That a nearest place exists is `NearestExists`, from the well-foundedness of
  the naturals. `StopsCorrect`, `IndexCorrect`.
- Buses and episodes, for any rows, keys and thresholds. The loop over the stale
  runs is a recursive function: that there is one is shown by a least
  counterexample over prefixes (`FoundFrom`), as for `Keep` above. It finds the
  whole standstills of the minimum length, in their order (`RangesFrom`), so that
  the gaps between them are the longest intervals without a ghost and what
  survives of the gaps are the `RealRuns`. `SliceInv`: the buses at any row are
  those of the keys that are complete: `BusesCorrect`. `DetectInv`: of each bus
  passed both detectors have reported all runs, of the current one those whose
  end they have seen, and hold the run they are in: `EpisodesCorrect`.
- Distance bunching, for any tracks. After each tick the open episode of a pair
  begins at its latest entry not yet left, and the closed ones are the stretches
  that have ended (`SweepInv`); `EpisodesAreLasting` turns the definition of an
  episode, which speaks of all ticks, into one about the ticks at its ends.
  `EventsCorrect`.
- Time bunching, for any tracks. A stop without a crossing has all points so far
  strictly on one side; one with a crossing was met between the points that say
  so (`CrossInv`). `FirstPassageRight` is stated over fractions, so its last
  part is arithmetic of cross-multiplied products. `FollowersRight`:
  the code compares the first of those that pass together with its nearest
  predecessor, which is within the threshold if any predecessor is.
- Forecast window, for any recordings of any number of buses and any length of
  window. Every row built is the chain of what is served at its tick
  (`RowBuilt`). `ChainsAgree` says that the limited chain of the serving side is
  that of the training side up to its first gap as long as the sentinel, and
  `BuiltAsTrained` that at a decided tick both see the same buses; of the closure,
  which compares two ticks, `ClosureOfCut` says that the cut does not change it:
  `ServedRight`. `VerdictInv` says of each refusal which clause failed and that
  those before it held; `BandOfDistances` turns the rounded index of a bus, not
  within the half stop below an edge, into its distance: `ScoredRight`.
  `HorizonRight` rests on the cancelling of a common factor under integer
  division, above the floor of the speed.
- Labels, for any recording, history, horizon and any counts of ticks to
  persist. `PersistCorrect`: an example's eligibility and its walk leave no tick
  unrecorded from the first of its history on, so that only a label debounced
  over more than the history and one tick can meet one and fall back to the
  plain label. `LabelsComplete`: the walk labels exactly the ticks before the
  first invalid one that lie outside the band, as `LabelsAreRight` and
  `LabelsAreAll` say of every example begun. `HeadwaysPositive`: the running
  maximum reaches a distance for the first time at a tick before the one at
  which the leader is ahead of it.

**Only model-checked.** Liveness (`PollSettles`, `SignalStops`, `RunsEnd`,
`EverythingEnds`): fairness and ENABLED are outside the prover's reach. Every
safety invariant and every action property that a passing run checks is stated
by a theorem.

## 5. Limits and plan

Left out of the components that are modelled in part: `schedule_headways`,
bundle validation and the choice of the canonical trip of a route; the
aggregates of `/analytics` and the other read-only routers; of the per-trip
transform the start time and its offsets and the rounding to centimetres; of
the forecast the arithmetic of the predictor, shadow logging and aggregate
curves; of the features the legacy vendor schema, the other extras (among them
the minute of the day, which wraps at midnight) and the station headway; of the
labels examples without a leader, which the code drops. In `SharedTables` the
tables that no enabled feed fills are left out, the last statement of a
transaction and its commit are one step, and there is one trip instance.

A theorem worth proving next: the composition of `TripTransform` with
`TrajectoryRefresh` (`Derived` given by `Derive` satisfies `RunsAssumption` and,
at one resolution, what `GridsMeet` asks for).
