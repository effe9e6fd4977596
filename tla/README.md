# Verification of vehicle-data-hub

TLA+ models of the program in `src/` (Flask, SQLAlchemy, PostgreSQL, one
scheduler process), the TLC runs that check them and the TLAPS proofs about
them. The program collects listings of used cars from a crawl server and from
CSV files, normalises them, keeps the newest row of each car and serves them
through an API. What can go wrong in it is mostly in the collecting: a walk
over pages some of which the server cannot serve, rows that are stored in many
commits, jobs that several processes start, take over and recover, settings
that tell the next collect where to go on, and writers of one table that
nothing keeps apart. Around that stand the clock that starts a collect each
day, the list that clients read while the table changes, and the accounts and
keys that decide who may.

## Inventory

| component | code | state it keeps | operations |
|---|---|---|---|
| Crawl cursor | `services/crawl_client.py` | locals of a generator: offset, page limit, the zone being probed, ids seen | `iter_crawling_rows`, `_get_with_retry` |
| Crawl import | `services/import_crawl.py` | locals of a collect; `vehicles`, settings, `import_jobs` | `import_from_crawl` with `_flush`, `_checkpoint`, `on_page`, `on_skip`, `crawl_start_offset` |
| Import jobs and scheduler | `services/import_crawl.py`, `scheduler.py`, `services/settings.py` | `import_jobs.status`, settings `crawl_collect_now`, `crawl_cooldown_until` | `request_manual_collect`, `consume_queued_collect`, `recover_interrupted_jobs`, `fail_stale_running_jobs`, `tick`, `main` |
| Row import and upsert | `services/import_csv.py`, `services/filters.py` | `vehicles`, counters of a job | `import_csv_file`, `import_row_dicts`, `_flush_chunk`, `delete_vehicles_missing_keys` |
| Settings store | `services/settings.py` | `app_settings` | `get_setting`, `set_setting`, cooldown and credentials |
| Admin routes | `routes/admin.py` | database, session | `/upload`, `/settings`, `/reset-data`, lists, API keys |
| Administrators | `auth.py`, `cli.py`, `/setup`, `/login` | `users`, session cookie | first administrator, login, `seed-admin` |
| API keys | `services/api_keys.py` | `api_keys` | create, reveal, verify, revoke |
| Public API | `routes/api.py`, `services/db_stats.py` | none of its own | list with filters and pages, search, detail |
| Vehicle codes | `services/encar_codes.py`, `services/encar_seed.py`, `entrypoint.sh` | five code tables, an index cached per process | seed, load, resolve, remap |
| Normalisation | `services/encar_fuel.py`, `services/encar_attrs.py` | none | tables of synonyms |
| Bulk scripts | `scripts/bulk_copy_import.py` | none of its own; `vehicles` | `collect_rows`, the upsert in batches |
| Container start | `entrypoint.sh` | none | migrations, `seed-admin`, seed of the codes |
| Factory, configuration, data model, pages | `__init__.py`, `config.py`, `models.py`, `migrations/`, `templates/` | none while the program runs | wiring, rendering |

**How they interact.** The importer pulls pages out of the cursor (a Python
generator: the two alternate in one process) and is told about skipped ranges
through the `on_skip` callback. It stores rows with `import_row_dicts`, which
commits every `CHUNK_SIZE` rows, and keeps settings and the job up to date in
commits of their own. Two gunicorn workers, the scheduler and any number of
`flask` commands share nothing but the database, at PostgreSQL's default
isolation (READ COMMITTED): each statement sees what is committed by then, and
nothing read is still true when the next commit happens. The admin page
requests a collect by inserting a job; the scheduler polls, takes it up, and
makes every running job pending again when it starts.

**What is hard.** Commits between which a process can die; a start offset that
is computed from two pieces of state written by different commits; handlers
that repeat what may have been done; checks and acts in two transactions; jobs
that expire while they may be alive; a bisection over ids with gaps; an admin
who deletes everything meanwhile; five writers of one table that lock its rows
in different orders; a deadline of a day computed by a process that sleeps and
is restarted; pages cut out of a list that moves. `PROJECT.json` lists each of these hazards
at its line, with the properties that cover it.

**What makes each part correct**

* Cursor: each row of the server is yielded or lies in a reported range, never
  both; a range is skipped because of a broken row; the walk ends, and does
  not give up on broken rows alone.
* Crawl import: no collect starts behind a row that was neither stored nor in
  a skipped range, whatever crashed; a completed job has stored all it was given; everything arrives in
  the end.
* Jobs: requests that race do not pile up; a queued job is taken; a running
  job ends; a completed one stays so; one job has one worker.
* Row import: a run that completes leaves what an undisturbed one would leave;
  the newest row wins; the counters add up; a reset is final.
* Vehicle codes: the codes of a car form a path down the hierarchy and its
  names fit them; matching twice changes nothing; a seed that ends has
  completed what interrupted ones left.
* The table of vehicles: whoever writes beside whom, a row gets older, mixes
  two listings or loses its alias only in the ways that are named, and every
  run ends.
* Scheduler: the daily collect comes once a day and is missed only while the
  scheduler is away or busy; requests keep their distance; a cooldown holds.
* Access: racing requests create no more first administrators than there are
  workers; a revoked key is refused and stays revoked; nobody's password is
  written over unasked.
* Public list: a client that reads all pages lacks no more rows than left its
  list or moved back in it meanwhile; an administrator reaches every row by a page number.

## Modules

| module | models |
|---|---|
| `CrawlFeed` | the abstract promise of the cursor to its consumer |
| `CrawlCursor` | `iter_crawling_rows` and `_get_with_retry`; implements `CrawlFeed` |
| `CrawlCursorProofs` | the TLAPS proofs about `CrawlCursor` |
| `CrawlImport` | `import_from_crawl`, with a feed that behaves like `CrawlFeed` |
| `CrawlImportProofs` | proofs about `CrawlImport` |
| `CollectJobs` | the life of jobs across processes |
| `CollectJobsProofs` | proofs about `CollectJobs` |
| `UpsertImport` | `flask import-csv`: `import_row_dicts`, `_flush_chunk` |
| `UpsertImportProofs` | proofs about `UpsertImport` |
| `EncarCodes` | `EncarCodeIndex`, `apply_codes_to_vehicle`, the remaps, `seed_encar_codes` |
| `EncarCodesProofs` | proofs about `EncarCodes` |
| `FuelNames` | `normalize_fuel`, `infer_fuel`, the attribute tables: pure operators |
| `VehicleStore` | all writers of `vehicles` at once, statement by statement; uses `FuelNames` |
| `VehicleList` | the pages of the API and of the admin list while the table changes |
| `VehicleTableProofs` | proofs about `VehicleStore`, `FuelNames` and `VehicleList` |
| `SchedulerClock` | the time of the scheduler: midnight, sleeps, cooldown, pace |
| `SchedulerClockProofs` | proofs about `SchedulerClock` |
| `Access` | administrators, sessions and API keys |
| `AccessProofs` | proofs about `Access` |
| `MC*` | constants of the TLC instances |

They are layers rather than one composition. `CrawlCursor` is shown to
implement `CrawlFeed`, and `CrawlImport` uses a feed with the same steps
(`FetchPage`, `FetchSkip`, `FetchEnds`, `FetchFails` against `Deliver`,
`Skip`, `Finish`, `Fail`) instead of the cursor's probes. `CollectJobs` keeps
of a collect only what it does to jobs, and allows several at once;
`CrawlImport` keeps one importer and all that a collect does to rows;
`SchedulerClock` keeps of both only when they happen.
`FetchSkip` is looser than `Skip` in one way: it does not say which outage let
a skip end where no broken row is, only that there was one.
`UpsertImport` takes the row decisions of `_flush_chunk` further than
`CrawlImport` needs (rows without stamp or id, counters, reruns), and
`VehicleStore` takes its commits apart into statements and puts them beside
the other writers. `EncarCodes` takes from them only that a row is read and
later written; what `apply_codes_to_vehicle` adds to each stored row is there.
`VehicleList` lets rows change in every way that the writers allow.

### CrawlCursor

A step is one HTTP answer with all that the loop does until the next request:
`Narrow`, `ProbeFailAhead`, `ProbeFailBetween`, `ProbeSucceeds`, `GiveUp`,
`DeliverPage`, `DeliverLast` are the branches of lines 136-197. `Settle` is
the end of both probing branches: either the next bisection or the skip. The
crawl server is external: it holds `rows`, some of them `broken`, answers a
page with the smallest ids from `offset` on and 500 when one of them is
broken, and up to `Outages` times 500 for no such reason. `Retry` and `Raise`
are the attempts of `_get_with_retry`.
Left out: the delay between requests (`SchedulerClock`), the page limit saved in the settings
(the first page limit is any value in range), rows without an id.

### CrawlImport

A step is what one commit makes durable. `vehicles` maps a car to the id of
its stored row (`source_id`), `resume` is `crawl_resume_id`, `job` the status
of the job that was worked on last and `waiting` counts the other pending ones:
`flask import-crawl` is refused only beside a running job, so it may leave a
pending one waiting. `FetchPage` is `on_page` up to the flush, in the order in
which `_flush` hands over the rows: its dict by car puts the last row of a car
in the place of its first. `CommitChunk` is `_flush_chunk`, `ChunkFails` its
rollback, `FlushAgain` the second flush in the handler, `SaveLastId` what
follows a flush. The rest of the handler is two commits: `QueueAgain` saves the
last id and with it the job's new status (`set_setting` commits the session),
`SetCooldown` sets the cooldown and, if there was no id to save, the status.
`DeleteMissing`, `ClearResume` and `CompleteJob` are the end of a collect, and
`Returns` is what is left of its local variables then: nothing. `Crash`,
`Recover`, `LoseDatabase` and `ExpireStale` are what may come in between. The
server may gain rows at any time. Rejected rows (`should_reject_row`) are rows
with `ok = FALSE`; a row the database refuses is in `poison`.

`FetchSkip` gives up the offsets up to a broken row or, after the server has
answered 500 for no such reason (it costs a fault), up to any offset, between
two rows or past the last one. `on_skip` is told this range, and the next start
lies behind it; `givenUp` has all its ids, those too that no row has yet. If a
skip ends past the last row and the next request fails, the handler saves the
end of the skip, and a row that the server adds later with an id inside the
range is never asked for: the one way in which a collect leaves a row behind
with cars listed once. `NothingLeftBehind` and `EveryRowCollected` speak of the
rows outside the ranges (`Wanted`), `CompletedJobStoredAll` of the rows that the
feed gave.

### CollectJobs

A step is one query or commit, because what a process read may have changed
before it writes. Web workers request (`AskRunning`, `AskPending`,
`InsertJob`, `FlagJob`); the scheduler does the same at midnight, polls
(`TickCooling`, `Poll`, `PickPending`, `ClearFlag`) and collects; a command
collects without being queued. `Guard`, `CreateJob` and `StartJob` are the
beginning of `import_from_crawl`, `StorePage` its effect on the job, and
`CompleteJob`, `FailCollect`, `FailForGood` and `Abandon` its four ends.
`Age` makes a job old enough for `fail_stale_running_jobs`, also one that is
still worked on; a page that counts a row ends the idle limit (`StorePage` may
make the job young again), but not the limit of a day. Job ids are taken in
order up to `MaxJobs`; `Room` stops new requests there.

`TypeOK` has besides the types which steps have a job at hand (`Holding`), and
that it was created. `CompletedIsFinal` is checked with a command beside the
scheduler, where it has one exception, and `Shared` says which: a scheduler
that restarts makes the running job of the command pending and takes it up, both
work on it, and when one has completed it the next page of the other makes it
running again (`import_csv.py:273`). A job that expired while its process lives
on, a late page of a job that failed, a reset or a recovery open no completed
one.

### UpsertImport

`AcceptRow` and `RejectRow` read a row each, `StoreChunk` is one
`_flush_chunk` with its commit, `Complete`, `Fail` and `Crash` are the ends of
a run, after which `Start` may run the command again on the same file.
`ResetVehicles` and `ResetJobs` are the two statements of `reset_data`: the
first deletes what it sees, and a chunk with other cars may be committed
before the second. A chunk updates the counters of its job in the same
transaction, so it fails once the job is deleted.
The module checks a run against an undisturbed one of the same file. A second
process that stores rows at the same time is in `VehicleStore`. Not modelled:
the mode `replace=True` of `import_row_dicts`, which nothing calls.

### EncarCodes

One car stands for all, as no row depends on another. `Match` is
`_match_from_list` (first label with the same normal form, else the best token
score), `Resolve` the walk down the five levels, `Applied` what
`apply_codes_to_vehicle` writes. `normalize_label` and the token score are
constants (`Norm`, `Score`). An index holds of each level the sequence of codes
that a SELECT without ORDER BY returned: any order of the table (`Scans`),
which `Order` narrows for each process, so that the two processes of the
instance read siblings in opposite orders. `resolve` looks through lists of
places of that sequence. `SeedBatch` is one `_flush_upsert`; the tables start empty or
with what an earlier edition of the files had seeded. `LoadLevel` is one SELECT
of `EncarCodeIndex.load`, so an index may be loaded between the batches of a
seed; the index of a remap is loaded in one step. `ReadCar` and `StoreCar` or
`RemapCar` are the two ends of a chunk, in between of which the other process
may write: `Updated` is the UPDATE of the ORM, which has only the columns that
differ from what was read. `Canonicalise` is one of the five UPDATEs of
`remap_canonical_names`.

`torn` marks a row whose last write was late, over another's. The codes of such
a row need not form a path: a remap that has read a car as model N, and writes
after the import has made it model M, leaves the model's code of the one and
the detailed grade's of the other. Take `~torn` out of `CodesFormPath` and TLC
shows it. A later undisturbed write heals the row.
What `Match` does with the shipped files is visible in the model too: names of
siblings that differ only in a drive or in brackets get the code of the one
that comes first, and a maker whose own name is a key of `MAKER_ALIASES` is
matched to the alias's maker, the exception in `RemapStable`.

### FuelNames and VehicleStore

`FuelNames` writes a label as the set of fragments that the rules of
`normalize_fuel` look for, and keeps the rules and their order. The attribute
tables (`_MISSION_ALIASES` and the like) are one constant function `Attr` whose
values are their own standard names, an assumption that TLC evaluates.

In `VehicleStore` each process runs one of five kinds of run: `import`
(`_flush_chunk`), `bulk` (the script's upsert), `fuels`, `colors` (the two
remaps) or `reset`. A run has chunks or files to commit (`todo`); `written`
counts the rows of a file that earlier batches have committed. `FlushChunk`,
`UpsertBatch`, `DeleteAll`, `RemapFuels` and `RemapColors` begin a
transaction: they read what is committed and lay down the statements it will
execute (`plan`): the rows that were there are updated in the order of their
ids (`older`), new ones inserted as they came, and of a file the script writes
the newest row of each car (`KeptRows`), in the place of the first. `Leftovers`
is the second SELECT of `remap_vehicle_fuels`.
`Statement` executes one of them on the row as it is by then: an UPDATE of the
session writes only the columns that differ from what was read, an upsert has
its WHERE and leaves out the Korean column, `inspected_at` and
`unique_option_info` (the field `inspected`), an INSERT whose key was taken and
an UPDATE that finds no row are refused (`Refuse`). `own` holds what is written
and not committed, which are the row locks: a process whose statement targets a
row that another one owns waits (`WaitsFor`), and of a circle PostgreSQL aborts
one (`DeadlockAbort`). The statements over many rows, that is the DELETE of the
reset and the UPDATEs of the remaps, write them one by one in any order
(`WriteOne`) and keep each while they wait for the next, so the instance has
circles in the middle of a reset or a remap, too. A row that another process
commits while such a statement waits is taken in as if it had been there when
the statement began, which PostgreSQL would do only for a row it has seen;
`RemapSettles` claims nothing of such a row, and a reset may delete it. `Commit`,
`Crash`, `Finish` and `Rerun` end, cut off and repeat runs. `disturbed` remembers which cars others committed since a
transaction began; it is what the properties mean by a late commit.

`StampFallsOnlyLate` has two exceptions besides a late commit, and both are
what the code says. A row without `source_id` is filled in by any row that has
one, also if an earlier row of the same chunk has taken the id away (`Refills`):
of a newer row without an id and an older one with it, the older is stored. The
script replaces any row by one without a stamp (`StoresUnstamped`).

`MixedOnlyLate` has two parts. The columns that every writer stores come from
one line of an input (`Whole`), but for late commits. With the columns that the
upsert leaves out (`Entire`) there is one more exception, `LeavesInspected`: the
script replaces a row of an import and leaves the inspection of the old listing
beside the new one. No late commit is needed for that.

`Made` is what `_apply_row` makes of a row, and `_row_tuple` but for the columns
above. The names of Korean input columns to which `_apply_row` falls back, and
`_row_tuple` does not, are left out: the input has the English ones.
`StoreTypeOK` has besides the types that no row is written by two transactions,
that the ids order the rows, and that a batch begins at a row of its file
(`InFile`).

### VehicleList

Of a row its id, the day of `scraped_at` and whether its content matches the
other filters of the client (`matches`) matter. `Listed` is the filter by
`created_at_from` and by content, `Before` the order (`vehicle_list_order` sorts
by day only when days alone are filtered, `ByDay`), `Rank` the place of a row in
it and `Slice` the rows whose places OFFSET and LIMIT cut out for one page,
`AdminVehicles` the clamping of the page number in `routes/admin.py`, with the
count, the estimate of `pg_class` and the failed count. A client, with filters
by maker, fuel, price and so on (`coded`) or without, walks all pages, then
again from the day its last walk began, as `docs/api-spec.md` section 7 says; it
is external, all else is code. Rows are stored with any day up to today or none,
change their day or only their content, with which they may leave the list of
the client (`Window`) or enter it, and are deleted, alone or all at once.
`falls` counts the listed rows that left the client's list or moved back in it
while it read: deleted, filtered out or, in a list ordered by day, with an
earlier day. The parameter `created_at_to` is left out: the documented client
does not send it.

### SchedulerClock

`main` and `tick` with the delays of `iter_crawling_rows` and
`_get_with_retry`. `clock` is the time of the day and each delay a count of
what is left of it, so the state space is finite though days go on for ever.
`Pass` is one unit of time, possible only while the process sleeps, waits for
an answer or is down; all other steps take none. `Recover`, `QueueDaily`,
`NotDue`, `TickCooling`, `TickIdle`, `TakeJob` are the branches of the loop,
`Send`, `Page`, `Narrow`, `Retry`, `Fail`, `Complete` those of a collect,
`LoseDatabase`, `RecoverFails`, `QueueFails`, `TickFails` and `Crash` the
faults. The delay of a request depends on the page limit (`narrow`), as in
`_interval_for_limit`.

### Access

A step is one query with the code up to the next, or one commit. `SetupCount`
and `SetupInsert` are the two halves of POST `/setup`, `SeedLook` and
`SeedInsert` those of `seed_admin_user`, `Lookup` and `Accept` those of
`verify_api_key`. A key's row keeps whether it is active, which `SECRET_KEY`
sealed its secret and whether it was used. `Restart` starts the container over,
maybe with another `SECRET_KEY`, which ends all sessions. `late` and `firsts`
only remember what the properties ask for: whether the key had been revoked when
the request came in, and whom `/setup` created.

## Runs

| run | question | bounds |
|---|---|---|
| `CrawlCursor` | is every row settled once, every skip justified, every walk finite, and does the walk implement `CrawlFeed`? | five ids with growing gaps, any of them present, any broken, any start and first limit up to 4; 8 probes, one retry, two outages |
| `CrawlImport` | is a row ever left behind for good, does the next start go back, does every row arrive? | four ids of four cars, the last of which may be rejected, one broken, one that may be refused; pages of up to three rows, a commit after each; two crashes, failures or outages anywhere |
| `CrawlImportRepeated` | and if a car is listed again? It can be left behind | four ids of up to three cars; one fault |
| `CollectJobs` | do racing requests pile up jobs, has every process its job? | two workers and the scheduler, four jobs, one crash, one failure, resets |
| `CollectJobsLive` | is every job taken and ended, by one worker, and does a completed job stay so? | a worker, the scheduler and a command, two jobs, one crash, one failure |
| `UpsertImport` | do reruns, failures and resets leave the table an undisturbed run would leave? | every file of four rows over eight kinds of rows, three tables, chunks of two rows, two failures, crashes or resets |
| `EncarCodes` | do codes form a path, names fit them, remaps change nothing twice, seeds complete the tables? | two models, two detailed models, two grades, one renamed, two details with one normal form; two listings; batches of two codes, seeds, loads, restarts and commands without a bound; a torn row is not read again (`ReadTorn`) |
| `VehicleStore` | what may writers that run at once do to a row, and does each of them end? | three processes: an import, an import or the bulk script, and any of the five; two cars, one of them stored by an older version; chunks of up to three rows, one of them twice about one car, one without a stamp; batches of one row; one run started again |
| `VehicleList` | what does a client miss that pages while the table changes, and can an administrator reach every row? | three ids, two days, pages of two, filters or none, one row deleted, filtered out or moved back during a walk |
| `VehicleListSync` | does a synchronisation by date receive all that is new? No | three ids, two days, pages of one |
| `Access` | do races at `/setup` and revocations do what they should? | two workers and the seeder, three names, two passwords, one key, two values of `SECRET_KEY` |
| `SchedulerClock` | is the daily collect asked for once a day, when is it missed, how close do requests come? | scaled time: a day of 12 units, poll 1, cooling poll 2, retry 2, page delay 4, error delay 2, cooldown 6; two retries |

The bounds are chosen so that each branch is taken. Gaps between ids that
grow are what makes jumps double more than once and the bisection take several
steps; with three rows per page and a commit after every row, a page ends in
every possible number of commits; two faults allow one in the handling of the
other, or in the collect after it. `MaxSkips = 8` is the least that these gaps need
and less than two outages can use up, so `GivesUpOnlyInOutage` is not vacuous:
`GiveUp` happens, and with jumps that do not double it happens without an
outage. In `CollectJobs` two workers and
the scheduler are as many processes as can insert a job, and four jobs are
more than that. In `CollectJobsLive` two jobs are what it takes for one to
wait behind another. As job ids are finite there, an endless flow of newer jobs,
of which each is taken first, cannot starve an older one; in the program a job
is added only by a request that has found none open, or by a command, so such a
flow takes commands that fail without end. In `VehicleStore` two cars are what a deadlock takes, and the
input stores them in two orders; three processes let a third commit between
the read and the write of one that waits for the second. In `VehicleList` three
rows fill a page and begin another, so one row that leaves the list moves
another across its end.
In `SchedulerClock` the delays keep the order that the real ones have: a sleep may be cut
at midnight or not, and a collect, which has no bound, may outlast a day. Every property has a
mutant in `PROJECT.json` that breaks it.

The larger runs are `CollectJobs` (1 638 720 distinct states, half a minute),
`VehicleList` (876 314, two minutes), `Access` (459 924, 20 seconds),
`CrawlImport` (427 297, a minute and a half) and `VehicleStore` (90 875, two
minutes); times are of two workers, and liveness takes most of the last two.

`TypeOK` is checked in `CrawlCursor` and `CollectJobs`, and in `VehicleStore`,
where it is called `StoreTypeOK`: there it relates pieces of state. It is
proved for every module, those whose runs do not check it included.

Deadlock is checked in `EncarCodes`, `Access`, `VehicleList` and
`SchedulerClock`, where some step is always possible, and not in the others: a
generator that has ended, a collect that waits for midnight, an import that is
complete and a run that is done have nothing left to do within the bounds.

### What the violated runs show

* `CrawlImportRepeated`: when a page lists a car twice, its last row is stored
  in the place of its first. A crash between two commits of that page leaves
  the last id stored and earlier ones not, and the next collect starts after
  it.
* `VehicleListSync`: `created_at_from` is compared with the day a listing was
  scraped. A row that is stored after a synchronisation with an older day, or
  with none, is never received by it, though `docs/api-spec.md:204` says that
  newly stored vehicles are.

### What else the code does against its own words

These were met while modelling. The models contain them, and the properties are
stated so that they name them.

* The jump of the cursor looks for any offset that answers 200 and the
  bisection only for the end of the broken range. A healthy row between two
  broken ones is skipped with them, though the docstring
  (`crawl_client.py:117`) has the walk go to the end of the list.
  `EachRowSettledOnce` holds because the row lies in a range that is reported.
* The check for a running job (`import_crawl.py:176`) and the commit that makes
  the new one running are two transactions, so two collects may run at once,
  which `test_import_crawl.py:436` expects to be refused. They never share a job
  (`OneWorkerUntilRestart`).
* A scheduler that restarts cannot tell the job of a process that died from
  that of a live command and makes * `settings.html:41` and `upload.html:31` promise one request in ten minutes.
  While a page is narrow it is one a minute, and the first request of a collect
  comes without a delay, so after a restart or a collect that completed it
  follows the last one at once (`RequestsPaced` names both).
* A day may pass without its collect: the next midnight is computed when the
  scheduler starts, and one that passed while it was down, or while a collect
  lasted past the next one, is not made up for (`MissedOnlyWhileAway`).
* `openapi.py:40` and `api-spec.md:125` call the Korean column of the colour an
  alias of the English one. `remap_vehicle_attrs` and the bulk script write the
  English one alone (`AliasLostOnlyBy`).
* The bulk script leaves `inspected_at` and `unique_option_info` of the row it
  replaces (`bulk_copy_import.py:33-66`, where they are not listed), which an
  import writes (`import_csv.py:124`): the listing that is served then has the
  inspection of an earlier one (`MixedOnlyLate` names it).
* A remap of the fuels reads the rows it could not name and updates each by its
  id. What another writer has committed in between gets the fuel inferred from
  the row before (`encar_fuel.py:136`), a late commit in `RemapSettles`.
* A client that pages a filtered list misses a row when another leaves the
  filter meanwhile, by a new price or a remapped fuel as well as by a deletion
  (`api.py:270`, counted by `MissesExplained`).
* The page number of the admin list is cut to the pages of an estimate. While
  that is behind the table the newest rows fill the first pages and the oldest
  are out of reach (`admin.py:327`, excepted in `AdminReachesAll`).
* Codes are seeded at start only while `vehicle_maker` is empty
  (`entrypoint.sh:61`), and a seed that failed is let pass: what it left stays
  incomplete until somebody runs `flask seed-encar-codes`. As that can be done
  at any time, a seed may begin at any time in `EncarCodes`, and
  `SeedCompletes` speaks of a seed that came to its end.
* A reset clears `crawl_resume_id`, but a collect under way sets it again with
  its next page and goes on behind the deleted rows (`admin.py:144`). Resets are
  in `CollectJobs`, `UpsertImport` and `VehicleStore`, not in `CrawlImport`.
* The newest data should win. The bulk script lets a row without a stamp
  replace one with a stamp, and an import that read a row before another
  process stored a newer one writes over it (`StampFallsOnlyLate`); because it
  writes only the columns that changed for it, the row may then hold columns of
  two listings (`MixedOnlyLate`).

## Fairness

* `CrawlCursor`: weak fairness of `Next`. The generator is driven by one loop
  that always asks for the next row; every request ends, by its timeout if
  need be.
* `CrawlImport`: weak fairness of the importer (the scheduler's loop never
  stops and compose restarts it), of `RequestCollect` (midnight comes) and of
  `CooldownEnds` (a deadline passes). Nothing makes the server gain rows or an
  administrator press a button, and crashes and failures are bounded by
  `MaxFaults`: liveness is claimed for the time after the last of them.
* `CollectJobs`: weak fairness of the scheduler's loop, of a process in the
  middle of an operation, of the end of a collect (a walk terminates:
  `Terminates` of `CrawlCursor`), of cooldowns and of ageing. Nobody has to
  post a request or run a command.
* `VehicleStore`: weak fairness of `Work(p)` of each process. A run that has
  begun goes on: statements return, the server finds deadlocks, a lock is
  released when its transaction ends. Nobody has to start a run again, and a
  crash may end any.
* `SchedulerClock`: weak fairness of the loop, of the restart (compose) and of
  time. `DailyGoesOn` assumes besides that the scheduler is up from some time
  on and keeps coming back to its sleep, that is, that collects end.

`UpsertImport` and `EncarCodes` have liveness of their own only through what a
completed run leaves; `VehicleList` and `Access` claim safety alone: nobody has
to log in or to read a list.

## Proofs

The theorems hold for every value of the constants that the named assumptions
allow. Each module proves an inductive invariant, action by action, and
derives its properties from it.

### CrawlCursorProofs

For every finite set of ids, every assignment of
broken rows, every page limit and every bound on probes, retries and outages
(`IdsAssumption`, `LimitAssumption`, `BoundsAssumption`):

* `TypeCorrect`: `Spec => []TypeOK`
* `RowsSettledOnce`: `Spec => []EachRowSettledOnce`
* `BlamesBrokenRow`: `Spec => []SkipEndsWithBrokenRow`
* `GivesUpLate`: `Spec => []GivesUpOnlyInOutage`, if all ids are below `2^k` and
  `2 * k <= MaxSkips`
* `CursorImplementsFeed`: `Spec => ImplementsFeed`, the safety part of the
  promise to the importer

None of the properties is inductive.
`CursorInv` adds what links the variables of a zone: `ZoneOK` (the zone has a
start, a greatest offset known to fail below the offset being asked and, once
found, a least one known to succeed above it, and pages of one row), `EndsOK`
(the first row from `lo` on is broken, that from `hi` on is not, unless an
outage has lied about it) and `SkipsBehind` (skipped ranges end before the
zone). When the ends of the zone meet, `EndsOK` makes the row at `lo` the broken one;
`SkipsBehind` keeps the new range apart from what was yielded. `CursorStep`
has one lemma per action; `SettleInv` is shared by the two probing actions
that bisect or skip.

`GivesUpLate` counts probes by a second invariant, `Spent`, which holds until
the first outage. After `m + 1` failures at the beginning of a zone the jump is
`2^m` and the offset that failed last no less than `2^m - 1`. As a failing
offset has a broken row ahead of it, `m` does not exceed `k`. From the first
success on the ends of the zone are `2^j` apart, and each answer halves that,
so `m + 1` failures and at most `m` more make no more than `2 * k`: a jump with
`m = k` has passed every row, and nothing fails after it. With
`MAX_CONSECUTIVE_SKIPS = 100` that covers ids below 2^50. Powers of two are a
function that the theorem takes as a parameter (`IsPowers`), as `^` is unknown
to the provers; `PowersExist` shows that there is one for every `k`. The TLC run
is tighter than the theorem: its ids below 2^5 need only 8 probes.

The refinement needs two more facts: bisecting leaves the feed alone and a skip is
a `Skip` (`SettleIsFeedStep`), and a page holds exactly the rows the feed
delivers (`FullPage`, `LastPage`).

### CrawlImportProofs

The central promise of the collect, under the one condition that
`CrawlImportRepeated` shows to be necessary, `OneRowPerCar`: the server lists
each car once.

* `TypeCorrect`: `Spec => []TypeOK`, without that condition
* `NothingBehind`: `Spec => []NothingLeftBehind`
* `CompletedStored`: `Spec => []CompletedJobStoredAll`
* `StartMonotone`: `Spec => StartNeverGoesBack`

from `IdsAssumption`, `CatalogsAssumption`, `SizesAssumption` and
`MaxFaultsAssumption`; any page and chunk size, any crashes and failures.
Rows outside the skipped ranges are meant, which may reach past the last row
and to ids that the server has not given away yet.
`NothingLeftBehind` speaks of the next start and is true for a reason it does
not mention. `ImportInv` gives it. While a collect runs, what is stored and
what is remembered lies before the cursor, and what lies before the cursor is
stored, given up or in the page at hand (`Swept`); the rows of a page that are
not stored yet lie behind all that are, and are flushed in the order of their
ids (`Paged`), which is what a repeated car breaks. So at every commit a row
that is missing is ahead of where the next collect would start (`Gapless`).
`UpsertedIs` and `FlushOrderIs` state what the two helpers do with one row for
each car. `NothingDeleted` shows that the clean-up of a replacing collect from
the start has nothing to delete: it has met every stored car. The greatest
stored id is a `CHOOSE`, whose existence (`GreatestExists`) follows from the
well-foundedness of the subsets of a finite set.

### CollectJobsProofs

From `ProcsAssumption` and `MaxAssumption`:

* `TypeCorrect`: `Spec => []TypeOK`
* `OneWorker`: `Spec => []OneWorkerUntilRestart`
* `CompletedStays`: `Spec => CompletedIsFinal`, commands or not
* `OpenBounded`: `Commands = {}` implies `Spec => []OpenJobsBounded`

`JobsInv` counts (`Counted`): an id is left for every process that may still
create a job, so that a created job is a new one. `Placed` and `Known` say
which process may be where and that a job it holds exists; `Apart` that the
jobs processes work on differ until a restart. `Unfinished` says that,
without commands or until a restart, nobody works on a completed job; with a
command beside a restarted scheduler that is false, as either may have completed
it, and these are the steps that `Shared` excepts.

That racing requests do not pile up jobs takes two more invariants. `Alone`:
one job runs at most, the scheduler's, and none while the scheduler is about to
take or insert one. `Bounded`: the open jobs and the processes about to insert
one are together no more than the processes. A job is inserted only after a
query has seen none running and none pending; but the job that this query did
not see may be the one of a collect that has expired and makes its job running
again with its next page, so `Bounded` counts that job as open all along
(`Alive`). With commands the bound is false, as TLC shows on an instance with
one: each failing collect of a command leaves a pending job of its own.

### UpsertImportProofs

From `StampsAssumption`, `FilesAssumption`, `TablesAssumption` and
`SizesAssumption`: any set of files, of any length, over any cars; any table
before the first run whose rows come from other files; any chunk size and any
number of failures, crashes and resets.

* `TypeCorrect`: `Spec => []TypeOK`
* `RerunsReachSame`: `Spec => []RerunReachesSame`
* `NewestStays`: `Spec => []NewestWins`
* `CountsComplete`: `Spec => []CountsAddUp`
* `ResetStays`: `Spec => ResetSticks`

Whether a row is stored over another (`Newer`, `NeedsBackfill`) is no order: a
row without a stamp is stored over any row without a stamp, itself included.
What holds is less (`KeptOutToo`): what a row is not stored over is in the way
of all that this row would keep out. That is enough to couple two merges of one
file, of which the second starts from what the first has stored up to some row
(`Coupled`, `CoupledNext`): they agree, or the second has done nothing yet, or
what the first holds is in the way of what the second holds. At the row where
the earlier run ended only the first case is left, and the rest of the file
keeps them equal (`MergedTwice`). `UpsertInv` carries this through any number
of attempts. `Reaching`: there is a table from which a whole run reaches what
one from the base does, and what is stored is what a prefix of the file makes
of it. `Counting`: what the session has counted are the rows read, each with an
outcome but those that are pending, so the committed counters lag by less than
a chunk. `_flush_chunk` is a fold over a sequence; `FoldedNext` and
`AfterNext` give what it does with one row more, which is all the invariant
needs, and `LatestUpto` which row of a car a prefix of the file leaves.

### EncarCodesProofs

From `LabelsAssumption`, `ScoreAssumption`, `FilesAssumption`,
`ListingsAssumption`, `BatchAssumption` and `ReadersAssumption`: any two
editions of the code tables in which a number is once and has one parent, any
normalisation and any token score of names, any order of the rows of a SELECT.

* `TypeCorrect`: `Spec => []TypeOK`
* `SeedsComplete`: `Spec => []SeedCompletes`
* `CodesAreAPath`: `Spec => []CodesFormPath`
* `NamesFitCodes`: `Spec => []NamedAsCoded`
* `RemapChangesNothing`: `Spec => RemapStable`

An index that was loaded between the batches of a seed has codes of both
editions, each number once (`IsIndex`). `resolve` takes each code from the list
under the one above it, wherever it looks for it (`ResolveIsPath`), and as a
number has one parent in either edition, the codes it finds are a path in the
tables as they are now (`PathForms`). Matching twice is the harder half: a car
that was matched carries the name of its code, and looked up again among the
siblings that name may first meet another with the same normal form. It does
not, because that other would have come first at the first match, too
(`MatchedAgain`), unless `MAKER_ALIASES` sends the maker's own name elsewhere,
the exception of `RemapStable`. `EncarInv` adds to the types: `Tables` (each
number once), `Seeds` (what the seed under way has written is there),
`Indexes`, `Fresh` (what a process has read is the row, unless another has
written since) and `Coded` (a row that is not torn is as
`apply_codes_to_vehicle` left it). `Fresh` is what makes an UPDATE of only the
columns that differ from what was read write a whole match.

### VehicleTableProofs

The module extends `VehicleStore` and `VehicleList`, whose names do not meet,
and proves each on its own. About the writers, from `InputAssumption` (chunks
and files have rows), `CarsAssumption` (finitely many cars), `OldAssumption`,
`BatchAssumption` and `AttrAssumption` (standard names are their own standard
names), that is for any number of processes and cars, any input, any table at
first and any size of a batch:

* `StoreTypeCorrect`: `StoreSpec => []StoreTypeOK`, and with it that no row is
  written by two transactions at once and that the ids put the rows in one order
* `StampKept`: `StoreSpec => StampFallsOnlyLate`
* `RowsWhole`: `StoreSpec => MixedOnlyLate`
* `AliasKept`: `StoreSpec => AliasLostOnlyBy`
* `RemapDone`: `StoreSpec => RemapSettles`

A row changes only by a commit, but what a transaction commits is decided by
reads, a fold and a plan of statements long before, while others commit. The
four properties say nothing of the states in between, so none is inductive.
`StoreInv` says for each open transaction (`Consistent`): the row that it sees
would follow the committed one if it were committed now (`ViewFollows`: whole,
no older and an alias still, up to the exceptions); each statement to come is
one that its kind of run has, and no two of the session are about one car
(`PlanFits`); an UPDATE of the session was planned from the row that the
transaction sees, unless another has committed that car meanwhile
(`PlanCurrent`); what a remap has not named yet is named by a statement to come
or by the one it is in the middle of (`Settling`). Without `PlanCurrent` an UPDATE could mix its columns with those of
another row; without `PlanFits` one statement could undo what the next was
planned from; without `Settling` nothing would be known of the rows when a
remap commits.

The lemmas follow a transaction from its begin to its end. `MergedRows` is the
fold of `_flush_chunk`, by induction over the chunk: `AfterRows` says of its
first k rows what is known of a row of the session, the `Refills` of
`StampFallsOnlyLate` among it. `FoldLeft` of the library is recursive over sets
of positions, so the function it chooses has to be shown to exist first
(`FoldingExists`). `InferAgain` and `RenamedIs` say that a standard name stands
for the same row. `FlushFits`, `UpsertFits`, `DeleteFits`, `RemapFuelsFits`,
`RemapColorsFits` and `LeftoversFit` show that the plan laid down is consistent,
`StatementKeeps` that a statement keeps the rest of it so, `WriteOneKeeps` that
one of its rows does, and `CommitKeeps` that
the commit of another does: row locks keep it off the rows that this one has
written, and what it changes counts as `disturbed`. These lemmas are about
tables and plans as values, without primes; `StatementKeepsInv` and
`CommitKeepsInv` apply them to the steps.

About the readers, from `BoundsAssumption`, that is for any number of ids and
days, any page size, any filter and any number of rows that leave the list or
move back in it:

* `TypeCorrect`: `Spec => []TypeOK`
* `FewMissed`: `Spec => []MissesExplained`
* `AdminReaches`: `Spec => []AdminReachesAll`

`MissesExplained` speaks of a walk that has ended. `ListInv` says at each page
what that walk will miss: the rows that the client does not have and that are
no longer in the list, or lie ahead of the page it asks for next (`Missed`).
They are no more than left the list or moved back in it. The heart is `MissedGrows`:
if rows are taken from ahead of others, each of the others moves up by at most
their number, and as no two rows have one place, no more rows than that can
pass the beginning of the next page. Rows that come into the list or whose day
rises push others back, where they are only read twice. `EmptyIsLast` shows that an
empty page has no row behind it, and `Waiting` that what was stored since a
walk began has a day that the next one asks for, unless it was stored with a
day before that. `AdminReaches` is arithmetic of the page numbers: the page of
a row is not beyond the last page of the count (`NothingCutOff`).

### SchedulerClockProofs

From `DelaysAssumption` (positive delays, the error delay at most the page
delay, that at most the cooldown):

* `TypeCorrect`: `Spec => []TypeOK`
* `KeepsCooldown`: `Spec => []CooldownKept`
* `Punctual`: `Spec => []MidnightPunctual`, that is, no sleep reaches past
  midnight by more than the shortest one
* `PaceKept`: `Spec => RequestsPaced`
* `OnceADay`: `Spec => OncePerMidnight`
* `MissesOnlyAway`: `Spec => MissedOnlyWhileAway`

`ClockInv` ties the counters together: `Dated` (in the loop `due` is the time to
the next midnight or has run out, and it has run out only if the collect of this day has not been
asked for), `Wakeful` (what is left of a sleep does not reach beyond `due`, or
is the shortest sleep), `Paced` (the time since the last request, with what is
left of a delay or of the cooldown, makes up the delay of its page).

### AccessProofs

From `WorkersAssumption`, `NoneAssumption` and `AdminAssumption`:

* `TypeCorrect`: `Spec => []TypeOK`
* `FirstsBounded`: `Spec => []FirstAdminsBounded`
* `RevokedRefused`: `Spec => []RevokedKeyRefused`
* `RevokedFinal`: `Spec => RevokedIsFinal`
* `KeepsPassword`: `Spec => PasswordKept`

`FirstAdminsBounded` is not inductive: `FirstsCounted` bounds the first
administrators together with the workers that have seen an empty table and
have not inserted yet. `Known` keeps for `RevokedKeyRefused` that a request
that came in late carries a revoked key, which no step makes active again.

### What is only model-checked

* Every liveness property (`Terminates`, `EveryRowCollected`, `JobsGoOn`,
  `RunsEnd`, `DailyGoesOn`), since the prover has neither fairness nor ENABLED.
  All invariants and all action properties that the runs check are proved.
* `OpenJobsBounded` with a command beside the scheduler is false and not
  claimed.

## Not modelled

* Formatting, layout, logging, HTTP headers, credentials of the crawl server,
  the OpenAPI document, the statistics of the front page.
* Search, detail and the code selectors: they read one query and keep no state.
* The application factory, the rewriting of the database URL and of its
  options, error pages: they run once per process.
* The migrations and the wait for the database at start, which run before
  anything else does.
* The obsolete values `"1"` and `"now"` of `crawl_collect_now`, and rows
  without a numeric id.
* The counters of the jobs beside several writers, and the names that codes
  give a row beside the bulk script: each is modelled with one process only
  (`UpsertImport`, `EncarCodes`).
* Spelling, case and brackets of labels: `normalize_label` and the token score
  are constants, the fragments of a fuel a set.
* Hashes and seals: a password stands for its hash, a key for its digest.

## What could follow

* `EachRowSettledOnce` of the cursor composed with `NothingBehind` into one
  theorem on a system that runs both modules.
