# Verification of the console's server

TLA+ models of the stateful parts of the OSINT geospatial console's server
(`src/apps/api/app`), the TLC runs that check them on small instances, and
theorems that TLAPS proves for every instance.  The server is one asyncio
process (FastAPI) with sqlite files and a few JSON files behind it; blocking
work goes to worker threads, background tasks run schedules, downloads and
feeds.  What is hard about it is the same everywhere: **a handler reads, awaits,
and writes**, and between two of its awaits any other handler, task or restart
may come.

## 1. Inventory

| Part | State | Operations | Hard behaviour | What makes it correct |
|---|---|---|---|---|
| **Foundry store**, `foundry/store.py` | `foundry.db`: datasets, versions, rows, checks, check results, transforms, builds, dead letters | upload (snapshot), append, rollback, delete; create/edit/delete a transform or a check | every statement runs on an executor thread and sqlite's module opens a transaction at the first write only, so the statements of requests interleave; retention of rows; crash between commits | versions are numbered without a hole and immutable; exactly the newest `KEEP_VERSIONS` keep their rows; an acknowledged write is there; a failing check blocks the version |
| **Foundry builds**, `foundry/builds.py` | build rows, input versions, dead letters, the objects a bound ontology type holds | `run_transform_build` from the button, the scheduler, the pipeline and the upload cascade | no single flight: builds of one transform overlap; a failure after the commit; a crash; an error outside the `try` | a build that reaches its `try` is recorded as succeeded or failed; a build marked succeeded wrote one version; an output that is not flagged stale is fresh |
| **Foundry graph**, `routes/foundry.py`, `foundry/builds.py` | the transforms as edges between datasets | create, edit, delete with a cycle check; `run_pipeline_build` in topological order | the check is made on a list read earlier; deletions during a pipeline; joins | no cycle; a producer is built before its readers; afterwards nothing is stale |
| **Workflows**, `workflows/engine.py`, `store.py`, `scheduler.py` | workflow rows, run rows, per-workflow memory | run by hand or by schedule, replace the memory, delete | runs overlap; a block fails after the memory was marked; retention removes rows of running runs; one exception must not end the scheduler | an item is alerted once; nothing is lost silently; the answered run is on record |
| **Local models**, `localllm/manager.py` | model directories, job table, claims of deletes, JSON sidecar of roles | download, delete, set active, set hot | jobs on the loop, deletes and role changes in threads; several faults; restart | one writer per directory; no wipe under a writer; no role names a deleted model |
| **Schedules**, `foundry/scheduler.py`, `workflows/scheduler.py` and the schedules of both stores | schedule rows with `last_run` and `last_error`; the task of the loop | tick every 5 s, start, stop; create, edit, delete a schedule, delete its target | a tick works from a list read at its start; a corrupt time is repaired in the middle of a scan; a crash or a locked database before `last_run` is written; a target deleted while a schedule is created | due once per interval, attempted for ever, the last outcome visible |
| Bindings, monitors | object upserts, monitor events | sync, evaluate | cooldown | an event is not repeated within its cooldown |
| **ADS-B snapshot**, `routes/adsb.py` | the aircraft served, the caches of the tiers (readsb feeds, OpenSky, firehose), gates and tasks of their pulls | a 1 s cycle: fan-out, merge, accept or reject; bootstrap by a first caller; pulls that end on their own | tiers answer from caches of any age, flip in coverage, fail; the snapshot is sticky | no contact flies backwards or blinks; what is served is the freshest that is cached; the snapshot never locks itself in; OpenSky's daily budget |
| **Sidecars**, `adsb_sidecar.py`, `ais_sidecar.py`, `main.py` | a node process on one port; the pid that a backend spawned or adopted | start, adopt, evict, supervise, stop | two backends overlap in a restart; a process that hangs or ignores SIGTERM; a probe that is two awaits old | nothing left behind, no respawn storm, the feed comes back |
| **Watches**, `intel/watch.py`, `alert_rules_local.py` | who is inside which rule's area, sessions, rules, the last picture | a sweep every 15 s; create and delete a rule; register a tab | membership moves before it is announced; stores and sinks fail in between; several sources for one contact | announced is what is remembered; edge and level agree; no session starves |
| **Incidents**, `intel/incident_store.py`, `watch_officer.py`, `correlate/runner.py` | the last picture of each scope, the inbox of briefs, the cool-down of each key | diff, file, acknowledge, dismiss, announce | an operator acts while a playbook is awaited; eviction; an incident that fades and comes back | the inbox is current; nothing high passes in silence or twice |
| **Alert bus**, `correlate/bus.py`, `routes/alerts.py` | a ring of alerts, a bounded queue per socket | publish, connect with a backfill, subscribe, send | slow subscribers | in order, and every gap a full queue |
| **TTL cache**, `upstream.py` | cached values and locks, both ordered by use | get or load, shorten, invalidate | waiting for a lock, eviction of locks in use, failing and cancelled loaders | nothing expired is served; loads in turn |
| Correlation rules, `correlate/rules.py`, `store.py` | a ring of observations | evaluate, prune | numerical conditions | |
| Observation history, `history.py` | time series with retention | append, prune, replay | pruning by age and size under writers | replay is ordered and complete in the window |
| Ontology, evidence, `intel/` | object store, append-only custody log | upserts, actions | read-modify-write of objects | custody is append-only |
| Tile cache, memory tiers | disk cache | get, put, evict | eviction under readers | within budget |
| llama.cpp and MAVLink sidecars, AIS firehose | child processes, sockets | start on demand | process death | at most one child |
| Authentication, keys, rate limit, audit | rate windows, key file | per request | little shared state | |
| LLM providers, MCP server, routes, web client, ML services, desktop shell | none of their own, or client state | | | |

**Interactions.**  Routes call the stores; a build calls `add_version` of the
store and then the sync of the bound ontology type; an upload starts the builds
of downstream transforms; the Foundry scheduler calls `run_transform_build`, the
workflow scheduler calls `run_workflow`; blocks of a workflow publish to the
alert bus, and so do the watches, the watch on incidents and the correlation rules;
the watches read the ADS-B snapshot and the brief that the watch officer reads too;
the snapshot's feeds read the ADS-B sidecar; the llama.cpp sidecar reads the roles
of the local models; most routes go through the TTL cache.

`PROJECT.json` lists the parts with their status, and under `hazards` what is
hard to test, at the line where it bites, with the property that covers it.

## 2. Modules

| Module | Models | Run(s) |
|---|---|---|
| `VersionHistory` | *abstract*: a dataset is an append-only history of immutable versions with a window of readable ones | through `FoundryVersions` |
| `FoundryVersions`, `MCFoundryVersions` | the requests that write one dataset, statement by statement | `versions` |
| `FoundryVersions_proofs` | theorems about it | |
| `FoundryBuilds`, `MCFoundryBuilds` | the builds of one transform, await by await; the commit of a version is one step, which `FoundryVersions` justifies | `builds` |
| `FoundryDag`, `MCFoundryDag` | the whole graph; the build of one transform is one step, which `FoundryBuilds` has in detail | `dag` |
| `FoundryBuilds_proofs` | theorems about `FoundryBuilds` and `FoundryDag` | |
| `WorkflowRuns` | the runs of one workflow with its memory, and the scheduler's wait for a run | `workflows` |
| `Schedules` | the schedules of one transform or workflow and the loop that runs them; an attempt is a call that ends, well or badly, which `FoundryBuilds` and `WorkflowRuns` have in detail | `schedules` |
| `SchedulesAndRuns_proofs` | theorems about both | |
| `LocalModels` | downloads, deletes and roles | `local_models` |
| `LocalModels_proofs` | theorems about it | |
| `AdsbSnapshot`, `MCAdsbSnapshot` | the refresh loop, the pulls of its tiers, the bootstrap | `adsb_snapshot` |
| `Sidecar` | one port, its processes, and the backends that overlap on it | `sidecar` |
| `AdsbFeed_proofs` | theorems about the snapshot and the sidecar | |
| `Watch`, `MCWatch` | rules, sessions, sweeps and their announcements | `watch`, `watch_spam` |
| `AlertBus` | the ring and the sockets | through `Incidents` |
| `Incidents`, `MCIncidents` | what the officer and the incident watch make of the briefs; it EXTENDS `AlertBus` and publishes on it | `incidents` |
| `Alerts_proofs` | theorems about `Watch`, `AlertBus` and `Incidents` | |
| `TtlCache`, `MCTtlCache` | one cache with its locks and loaders | `ttl_cache` |
| `TtlCache_proofs` | theorems about it | |
| `Lemmas` | what several proofs cite: sequences by their content, least numbers, induction, and the existence of functions defined step by step | |

Operators whose comment starts with *Slip* are not part of any specification:
each is a plausible mistake in the operator next to it, and shows that the
property named with it in `PROJECT.json` notices that mistake.

### FoundryVersions and the code

A request is a record with a program counter, the next sqlite statement it runs
(`pc`), and its Python locals (`base`, `cand`, `seen`, `mine`, `judged`,
`passed`).  `StartSnapshot`, `StartAppend`, `StartRollback` are the entry points
(`add_version`, `append_version`, `rollback_version`).  An append goes through
`CountBase` (410 when the base lost its rows), `FetchBase` (rows of the base plus
the new ones, row cap), `EvalChecks`, `FindDataset` (404), `ReadMax`,
`InsertVersion` (version, rows, retention, in one transaction; a taken number
fails on the primary key), `RereadDataset`, `RecordResults`.  `ReadDependents`
and `DeleteDataset` are `delete_dataset`; `InsertTransform` and
`DeleteTransform` add or remove a transform that reads or writes the dataset.
Authors enable, disable and delete checks; `Crash` ends every request.

A `SELECT` before the first write of a connection is a step of its own because
Python's `sqlite3` runs it in autocommit; from the first write up to `commit()`
is one step because sqlite has one writer.  Rows are named after the request
that uploaded them, so that a lost row shows whose it was.

### FoundryBuilds and the code

`build[b]` holds the row of a build and the locals of its call; the program
counter names the awaits of `run_transform_build` in order: create, resolve the
inputs, read the rows, write the version, dead letters, sync (read, then apply),
finish.  The transform may be deleted, its input uploaded to or deleted at every
await; with `"crash"` the process stops, with `"overlap"` two builds run at a
time, with `"store"` any store call may raise (`StoreFails`), before it has an
effect, as sqlite does when the database is locked; the read-back after a commit
is taken to succeed.  Where such an error goes is the point of the model.  In the
`try` of `builds.py:148` it leads to an except clause, also after the version is
committed; a binding's error is caught in `auto_sync_dataset` (`SyncFails`).
`create_build` and the two calls that record the input versions stand before the
`try`: an error there is raised to the caller (`aborted`), and the row that may
already be there stays `running`.  So does that of a build whose `finish_build`
raises in an except clause (`unfinished`); the monitors called there catch
everything.  The comment at `builds.py:178`, "surface as a failed build, not a
500", is true of the `try` only.  `now` is the one-second clock that orders
finished builds in `most_recent_successful_build_for_transform`.

### FoundryDag and the code

`stored` is the transforms table, `Edge` the edges `would_cycle` follows,
`Peel` and `WouldCycle` its Kahn count, `TopoOrder` the list of `_topo_order`.  An edit
is two steps, list-and-check and write, because the route awaits between them;
`outdated` remembers that another edit came in between.  A pipeline builds its
list in order; a build that fails is counted, with or without a version it has
committed (`VersionOfFailed`), and with `only` the fresh ones are skipped.  The loop
at `builds.py:261-265` has no `try`, so two things end it with the row `running`: the
404 of a transform deleted meanwhile (`MissingNext`), and an error of the store
(`RaiseNext`) in `transform_is_stale` or in one of the calls of
`run_transform_build` that its own `try` does not cover.  `RaiseAround` is the same
error in the pipeline's own `create_build` and `finish_build`; `raised` remembers it.

### WorkflowRuns and the code

The workflow is the one the memory exists for: a source, a python block that
drops what the memory has seen and remembers the rest, a sink that alerts.
Phases follow `run_workflow`: create the row, validate, load the memory, the
three blocks (each may fail; later blocks are skipped), save the memory, finish
the row with retention.  `RunNow` is the route, `RunScheduled` and `RunReturns`
the scheduler, which awaits a run and survives what it raises: the docstring of
`run_workflow` excludes an exception, but `finish_run` raises one for a row that
a deletion or the retention has removed meanwhile.

### Schedules and the code

The two products have the same tables, requests and loop, the code says so and
differs only in what it awaits, so one module stands for both: a workflow may be
disabled, a transform cannot, and that is the one action (`SwitchWorkflow`) a
transform lacks.  Timestamps are kept as ages: `Row.age` is `now - last_run`, or
the age of `created_at` as long as `last_run` is NULL, and every call of
`set_schedule_result` sets it to 0.  `Scan` reads the table and judges it; these
are one step because `due_schedules` judges the rows it has read, not the table.
`Repair` is the write in the middle of the scan.  `StartAttempt`, `EndAttempt` and
`Record` are the body of `_tick` for one schedule; the target may be disabled or
deleted, and the row edited or deleted, between any two of them.  `StoreFails` is
an exception outside the `try` of the attempt (sqlite's "database is locked"), which
`_run_forever` logs before it goes on; `Crash` is also `stop`, which cancels the
task at an await, with the store call then in progress done or not done.
`checked` holds the schedules whose `POST` has looked up the target and not yet
inserted.  `since`, `cut`, `fixed`, `late` and `told` are history for the
properties.  An id is used again only when nothing names it.  The system clock
does not jump.

### LocalModels and the code

`task[j]` is where the request (`preflight`) or the background task of job `j`
stands, `job[j]` its entry with status, `listed` the ids in `_JOBS`, `deleting`
is `_DELETING`.  `Reserve` is the check-and-reserve of `start_download`;
`PreflightFail`/`PreflightPass` end the preflight and prune; `Start`, `Fetch`,
`Verify`, `Record`, `Finish` are `_run_job`.  A delete claims, lists, unlinks
file by file, lists again, removes the directory, clears the roles under
`_STATE_LOCK` and releases its claim.  A role change takes the lock, reads the
sidecar and checks the directory (`Begin`), and later replaces the sidecar
(`Commit`); the check is not atomic with the wipe, only with other changes of
the sidecar.  The order in which the file system lists the two files is chosen
once (`metaFirst`).  `snapshot_download` is external: it lands weights that
match their digest or not, or fails and leaves the old or a part of the new.
A `metadata.json` cut short by a restart counts as missing; `models_root()`
itself, called before the guarded `mkdir`, is taken to succeed.

### AdsbSnapshot and the code

A tick is 30 s, `_SNAPSHOT_STALE_S`; a cycle takes at most 17 s, so `Tick` waits for
one.  `Cycle` is the body of `_refresh_snapshot_forever` when the fan-out needs no
grid: all it awaits then are tasks that do not touch the tiers, so the union, the
merge and the acceptance are one step.  A thin union waits for the grid
(`CycleThin`, `CycleGrid`) with the union in hand while pulls go on.  `MergeRaw` is
the freshest-wins union (one operator for `_merge_raw_into` and the merge inside
`_readsb_feeds`, which compares ages in the same way), `MergePrevious` and
`Regresses` the merge with the served snapshot, `Accepts` the retention guard.
`Kick` starts the pulls a fan-out asks for; `PullEnds` stores an answer or the
failure, and closes the tier's gate: until midnight for OpenSky, until the next
tick for the rest.  A fix carries two ages, of its body (`seen_at`) and of the
position in it (`seen_pos_s`); all real tiers stamp both, so the branches for
fixes without a stamp are left out.  Position is abstracted to the age of the
observation: an aircraft flies forward, so older means further back, by more than
the 250 m of the guard if a tick lies between.  `Slow` stands for the contacts
the guard skips.

### Sidecar and the code

`kind` chooses which of the two files is meant; they differ in three places, and
so do `Healthy`, `ReadHolder` and `Alive`.  `Probe`, `ReuseHolder`, `ReadHolder`,
`ProbeHolder`, `Evicted`, `Spawn`, `ChildSettles` and `AdoptedSettles` are
`start()`, cut at its awaits; `Supervise` the tick of the watchdog; `Stop`,
`Stopped`, `StopReturns` the teardown in the `finally` of `lifespan`, which runs
only after `start()` has returned once.  `Bind`, `Warm`, `DiesOfTerm` and `Fails` are
the node process as `scraper` starts it: it binds before it warms up, exits when
the port is taken, and may hang.  `ss` and `/health` are taken to be right when
asked; what they said may be outdated when it is used.

### Watch and the code

`Gather` is the part of `evaluate_all` that builds the candidates, `EvaluateSession`
the part of `evaluate_session` up to the first await after `evaluate_rules`,
`Persist` and `Deliver` its loop over the firings.  `inside` is `_STATE.inside`,
`cands` is `_LAST_CANDIDATES`.  `cloud` chooses between a boot with Supabase, where
tabs register sessions and rules live in the cloud, and a keyless one.  A thing
has a sequence of fixes because the picture may hold it twice (the AIS snapshot
and a track, say).  `IdOf` gives an incident the number of its brief, which is
what `uuid4` does.  `AgainstRules` and `AgainstRule` are the two loops of `evaluate_rules`.  `LogFails` is the second, unguarded call of `record_delivery`.
`quiet`, `told` and `lost` are history.  The bus is not part of this module: what
is published is `told`, and the queues are those of `AlertBus`.

### AlertBus, Incidents and the code

An alert is the number of its publication.  `Offer` is `put_nowait` on one queue,
`Publish` the whole of `publish`; a socket sends its backfill one alert per step
before it subscribes.  What is published while it does is in neither the backfill
nor the queue; that is how `alerts_ws` is written, and `StreamExplained` starts at
the subscription.  In `Incidents`, `Changes` is `IncidentStore.record` as its two
callers use it, `OfficerSweep` and `FileNext` are `run_once` cut at the playbook it
awaits, `Drop` is `ack` and `dismiss`, `WatchIncidents` one turn of
`_incident_watch_loop` with `_dedupe` (`Cool`).  Two incidents of a brief may have
one key, since the key is a cell and the domains: the last one counts, which may be
the lesser one.  `risen`, `cleared` and `spoken` are history.

### TtlCache and the code

`Ask` is `get_or_fetch` up to the lock, `Enter` its second look and the start of
the loader, `Loaded`, `Failed` and `GivesUp` the ends.  A lock is an object, so
that a caller may hold one which `_evict_if_needed` has dropped from the table;
`FreeLock` takes an object nobody refers to.  `left` is what remains of an entry's
time, a tick being the unit of `TTL`.

## 3. What the runs show

| Run | Bounds | Shows |
|---|---|---|
| `versions` | 3 requests of any kind, 1 blocking check, 2 kept versions, 3 versions | `RetentionWindow`: numbering and retention survive every race; `RequestsStandAlone`: an acknowledged write is recorded under its own number, a base is read whole unless `KEEP_VERSIONS` commits intervene, verdicts are never filed under an older version; `GateUnlessEdited`: only a check edited after it was read is bypassed; `ImplementsHistory`: the statements implement `VersionHistory` |
| `builds` | 2 builds, input versions 1..2, 2 seconds, each subset of the faults | `SucceededWroteOnce`: a succeeded build wrote one version; `ReplacedTablesFollow`: dead letters belong to a writer, and with builds one after another they are the latest build's and the bound objects in step; `NotStaleIsTrusted`: the staleness flag is right about the build that wrote the latest output, and with builds one after another altogether, whatever else fails; `BuildEnds`: every build ends, and its row says how, unless it is lost with the process, the `finish_build` of an except clause raises, or the store fails before the `try` |
| `dag` | every acyclic graph of up to 3 transforms over 3 datasets, 2 editors, 1 pipeline, 2 further requests or errors of the store | `CheckIsExact`: the cycle check agrees with a definition by walks; `CycleOnlyIfEdited`: a cycle comes only from an edit between check and write; `OrderedAndFresh`: the order is topological, and a successful undisturbed pipeline freshens everything, if no two transforms write one dataset and no join reads a derived one; `StuckOnlyIfBroken`: a pipeline row stays `running` only for a cycle, a deleted transform or an error of the store that leaves the loop, never because builds in it failed, and a row that is finished has its whole list behind it |
| `workflows` | 2 runs, 2 items, 1 row kept, budget of 1 alert, 2 seconds, each subset of the faults | `SerialAlertsOnce`: serial runs alert an item once; `LossIsExplained`: an item that is remembered and was never alerted is explained by a failed run or the alert budget; `RunsOnRecord`: an answered run is on record with its status, and the table is bounded; `SchedulerSurvives`: the scheduler always gets to its next tick |
| `schedules` | 2 schedules, intervals 1 and 2, ages up to 2, 1 crash or failing call | `DueOnce`: a schedule is due once per interval unless a fault kept its time from advancing, and a repaired one only once even then; `AtMostOneLate`: a disabled schedule is attempted at most once more; `ErrorVisible`: the error shown is the last one recorded; `LoopServesAll`: a schedule that outlived its target is seen to fail, and an enabled schedule is attempted for ever |
| `local_models` | 1 model, 2 downloads, 2 deletes, 1 role and the hot set, 1 job kept, all faults | `DirectoryIsExclusive`: one writer per directory, and a wipe that no other delete overlaps has no writer under it; `RolesAreSound`: a role names a deleted model only while the delete has yet to clear it, or after a fault, and no sidecar update is lost; `DoneIsServed`: a finished download stays installed and verified until a delete or a new download; `ModelIsFreed`: a download ends visibly, except when an exception after the fetch leaves it `verifying`, and a claim is given up |
| `adsb_snapshot` | 2 aircraft, one of them slow; 1 feed, OpenSky, firehose, grid; ages up to 5 ticks | `NeverBackwards`, `NoBlink`, `FreshestServed`: whatever the tiers do, a fast contact is not replaced by an older fix before the hold runs out, none disappears inside the carry window, and an accepted cycle serves the freshest fix that is cached; `NotLockedOut`: the snapshot is renewed within the stale limit and sheds its ghosts; `PullBudget`: one OpenSky pull a day |
| `sidecar` | 2 backends, 3 processes, 2 faults, ADS-B or AIS | `LeavesNothing`: after a `stop()` all that the backend spawned or adopted is dead or dying; `NoStorm`: every further spawn of ADS-B answers a fault or the other backend's teardown; `ComesBack`: a backend that runs gets a live sidecar again, and a teardown ends |
| `watch` | 2 users, one with an expired token; an area and a pinned rule; a vessel with up to 2 fixes and an incident; 2 sweeps with a picture and more without; 1 fault | `ToldIsInside`: the announcements add up to what is remembered; `EdgeKnowsLevel`: what the level view shows is inside for the edge view; `SessionsSwept`: each session is evaluated again and again |
| `incidents` | 2 keys, 1 brief of room, cool-down of 2 ticks, 1 socket with a queue of 1, 3 alerts | `InboxIsCurrent`: an actionable incident has its brief unless it was taken since it last rose; `HighIsAnnounced`: a key that turns high in the collapsed picture was announced then or within the cool-down before, and once; `StreamExplained`: a socket gets everything after its subscription in order, or found its queue full |
| `ttl_cache` | 3 callers, 2 keys, 1 entry, TTL 2 | `NeverExpired`: no answer is past its time; `LoadsInTurn`: one loader per key, and no step puts an older value in the place of a stored one, unless a lock in use was evicted |
| `watch_spam` | as `watch` | **refuted**: of one thing a rule has told one enter without an exit; incidents are told anew in each sweep |

**Why the bounds are enough.**  The hazards are races of two actors; the third
request of `versions` is the one that moves retention past a reader, and
`KeepVersions = 2` with three versions is the least at which a version is
pruned while another stays.  Two builds, two runs, two deletes are one more than
the code excludes.  `MaxTime = 1` gives both an equal and a different second.
Three transforms are the least for a join whose right side is itself derived,
and for a cycle through two of them next to a third.  `MaxJobs = 1` with two
jobs makes the prune bite.  With one feed, OpenSky, the firehose and the grid, every
pair of kinds of tier competes for an aircraft; two aircraft are the least for a union that is thin and
one that is not, and with them a fraction of 50 % would let every drop but the one to zero
pass, so `RetainPct` is 100 in the run and a drop from two to one is rejected.  Two
backends are what a restart overlaps; three processes allow one to hold the port,
one to be dying and one to be spawned; the second fault strikes while the first is
answered.  Two keys and a cache of one entry make every load evict the other key's
entry and lock, and the third caller comes between two that load.  One brief of room makes
eviction happen with two keys; a cool-down of two ticks is the least inside which an incident can
fade and come back.  After `MaxSweeps` the picture is empty but the sweeps go on, so that
liveness is not cut short.  Two schedules are the least for one to be late
because of the other; the intervals are the age bound and one less, so that
"not yet due" and "due" are both reached with either, and a fault more than one
only repeats what the first left behind.  Runs that check invariants on interchangeable
requests, editors, models or threads use symmetry; no run that checks a leads-to
property does.

`CHECK_DEADLOCK FALSE` is set for every model with a bounded number of requests,
which stops when they are answered.  `Schedules`, `AdsbSnapshot`, `Sidecar`, `Watch`,
`Incidents` and `TtlCache` have no such bound and are checked for deadlock; in `Sidecar`
a step `Ended` stands for the time after both backends have gone.

**Fairness.**  The environment is never fair: nobody has to upload, delete, or
start a run.  `FoundryBuilds` and `WorkflowRuns` assume weak fairness of a call
that was started: the event loop resumes a coroutine whose await has returned,
each store call is a bounded sqlite statement, and every block has a timeout.
That a store call raises is the environment's step and never has to happen.
`LocalModels` assumes the same of job tasks and of deletes and role changes in
their threads, and strong fairness of `Drop`, the one step that waits for
`_STATE_LOCK`: the lock is held for two small file operations, and no thread
takes it in a loop.  `Schedules` assumes weak fairness of the loop's task, of time,
and of `Start`: a server that stopped is started again, which is the operator's
part, and without which no schedule can be attempted.  `Sidecar` assumes weak fairness
of each backend's coroutine (its waits are capped in the code) and of the operating system, which
starts processes and delivers signals; nobody has to stop a backend, and a site need
never let a sidecar warm up.  `Watch` assumes weak fairness of the loop.  The liveness
properties are `BuildEnds`, `SchedulerSurvives`, `LoopServesAll`, `ModelIsFreed`,
`ComesBack` and `SessionsSwept`.  `AdsbSnapshot`, `Incidents` and `TtlCache` state no
liveness: what the first owes its clients in time is `NotLockedOut`, by counting ticks.

**Disagreements.**  The run `watch_spam` refutes what the docstring of `watch.py` says
of the code; `PROJECT.json` quotes it under `findings`.  Six more statements of the
repository were found not to hold while its code was modelled.  Five of them are
definitions of the modules: give one to TLC as an invariant in place of those of
the run's cfg, and it prints the behaviour.

| Definition, run | The repository says | The code does |
|---|---|---|
| `AppendExtendsLatest`, `versions` | `foundry/store.py:556`: "new version's rows = latest version's rows + `new_rows`" | the latest version is read in one call and the new one written in a later one; a version committed in between is left out |
| `NoDanglingTransform`, `versions` | `docs/foundry-plan.md:145-146`: DELETE "refuses if a transform depends on it" | the dependents are read before the transaction; a transform created in between is stored over a deleted dataset (and a join's right side is not searched at all) |
| `NotStaleMeansFresh`, `builds` | `README.md:258-259`: the graph "flags exactly which outputs went stale" | the build that finished last is consulted, not the one that wrote the latest output |
| `PipelineFreshensAll`, `dag` | `builds.py:185-186`: "an upstream transform's output is built before a downstream transform that consumes it" | the right side of a join is no dependency |
| `WipeExcludesWriter`, `local_models` | `localllm/manager.py:237-239`: claimed "so no writer can slip into the directory mid-wipe" | two deletes of one model share the claim, and the first to end gives it up |

The sixth: the comments at `routes/adsb.py:574-579` and `1568-1571` say that a stale
snapshot is replaced *unconditionally*; `accept` requires `new_count > 0` as well, so
that a total outage keeps the last contacts until one tier answers.  The property
`NotLockedOut` names that case (`dark`).

What the properties excuse is what the code leaves open.  `NoStorm` is about ADS-B:
`start()` of AIS evicts any holder that is not healthy, a sidecar included that the
other backend has just bound.  In `Watch`, two tabs of one user share one session entry,
and the first to close takes it away until the other registers again; a contact that
came in below the floor and rises later is not announced; a vanished contact keeps its
membership; one that two sources put on both sides of a border enters and leaves in each
sweep; and a delivery that succeeded may be logged as failed, when the log fails once.
In `TtlCache` the comment at `upstream.py:65-66` has locks capped in lockstep, but only a
load that succeeds evicts.

## 4. What is proved

All proofs are checked by TLAPS from the named assumptions on the constants and hold
for any number of requests, checks, versions, builds, models, downloads, deletes,
schedules, aircraft, feeds, backends, processes, incidents, sockets, callers and keys.
The assumptions say that bounds and thresholds are numbers, that the sets of actors are
finite where something is counted, and what the code's constants have in common; TLC
evaluates each on the run of its module.  Every invariant below is also checked by TLC
on the instance of its run, before it was proved.

`FoundryVersions_proofs` (`KeepAssumption`, `BoundAssumption`, `ChecksAssumption`)

- `TypeCorrect`: the type invariant.
- `RetentionHolds`: the retention window, for every `KEEP_VERSIONS`.  It is not
  inductive: an insert uses a `MAX(version)` read by an earlier statement.  The
  strengthening `IInv` adds `LocalsOK`, that the number a request remembers is 0
  or one that is still in the table while the dataset is there.  So the number
  it inserts is either taken, and the primary key refuses it, or exactly the next
  (`MaxVersionDense`); then the slice that retention deletes is the complement
  of the new window (`OldVersionsDense`).
- `HistoryImplemented`: `FoundryVersions` refines `VersionHistory`.  An accepted
  insert maps to `Commit`, the deletion to `Discard`, every other statement to a
  stutter; `IInv` provides that the window agrees.
- `EachStandsAlone`: a request that was answered is on record under its own number,
  builds on the whole of the version it read, and judges what it wrote.
  `RaceInv` follows a request through its statements (`LocalRace`: what it holds
  after each of them), and says while the dataset exists whose the numbers are
  (`OwnNumber`) and how the content of a version goes back to the request that
  wrote it (`SharedRace`).
- `GateHolds`: an action property.  A check that a committed version fails was
  enabled after its writer had read the checks; `RaceInv` has it that what was read
  is the verdict of what is about to be inserted.

`FoundryBuilds_proofs`, of `FoundryBuilds` (`BoundAssumption`, `NoBuildAssumption`, `FaultsAssumption`)

- `SucceededOnce`: a succeeded build wrote exactly one version; with the type invariant.
- `NotStaleTrusted`: "not stale" is the truth for a build that wrote the latest output,
  and altogether for builds one after another, even if the process stops or the store
  fails in them.
- `TablesFollow`: the dead letters and the bound objects follow the live version.

  `IInv` is bookkeeping along `run_transform_build`: a build has no version before
  `add_version` and one after it (`RowsInv`); it records the number of its input before
  it reads the rows, so that the number errs on the side of stale (`InputsInv`); builds
  that do not overlap read ever later inputs (`SerialInv`); as long as nothing goes wrong, the build at work is the author of
  the live version between its commit and its end (`CalmInv`), and what is quarantined
  is of a writer in any case (`DeadInv`).

`FoundryBuilds_proofs`, of `FoundryDag` (`BodiesAssumption`, `DagBounds`)

- `CheckExact`: `would_cycle` is exact, whatever the graph.  A closed walk is never
  removed, as each of its datasets has a predecessor on it (`InnerStays`).  Conversely, what
  outlasts `k` rounds has a walk of `k` edges behind it (`WalkBehind`), and one of as many
  edges as there are datasets meets itself, by the pigeonhole principle.  The walks of
  `HasCycle` are bounded in length, so this also shows that the bound loses none.
- `CyclesOnlyByEdits`: an action property; a write closes a cycle only after another has
  made its list out of date.  `CheckedBody` keeps what the check of a candidate said as long
  as nobody writes, and `CandidateIsStored` that what was checked is what is stored.
- `WorksInOrder`: a pipeline build goes through its list in order, and what it leaves
  behind is fresh.  A pass that places nothing leaves transforms each of which waits for another
  one that is left, so their outputs have a cycle (`SortedUnlessCyclic`).  `FreshSoFar` says
  that what the build has passed is not stale while nothing interferes; that building one transform
  does not make an earlier one stale is `PastIsUntouched`, the one place that needs the two
  provisos of `PipelineFreshens`.
- `StuckIsBroken`: a row stays running only over a cycle, a deletion or an error of the store
  that was raised out of `run_pipeline_build`, and a finished row has its whole list behind it
  (`Works`); with the type invariant.

`LocalModels_proofs` (`LocalAssumption`)

- `LocalTypes`: the type invariant, including the five statuses of a job.
- `OneWriterPerModel`: two downloads never write one directory.
- `SoloWipeIsExclusive`: no download runs while a single delete wipes.
- `DirectoryExclusive`: both, the invariant that the run checks.

  Neither exclusion is inductive.  `IInv` adds that a task that may still write has
  its job in `_JOBS` under an active status (`Visible`, for which a prune must
  spare unfinished jobs, `PruneSpares`), that ids not yet used are untouched
  (`Unused`), that a claimed key has no such task (`ClaimExcludes`), and that a
  delete not overlapped by another holds its claim alone (`SoloClaim`).  Each
  step of a job is an instance of one lemma (`MoveKeeps`), each step of a delete
  of another (`DeleteKeeps`).
- `RolesSound`: no update of the sidecar is lost, and a role that names a model which
  is not installed is about to be cleared by its delete.  `RolesInv` says who holds
  `_STATE_LOCK` and what he read (`SetterInv`, `NoLostUpdate`), and that a name whose
  directory is gone has a delete that has not cleaned up (`DeadRefs`, `TodoInv`).
- `DoneServed`: a finished download stays, verified, until a delete or a new download.
  `ServedInv` says what a wipe and a writer have made of `served`, the history that the
  property reads, and that weights once checked stay what they are until then.

`SchedulesAndRuns_proofs`, of `Schedules` (`CapAssumption`, `IntervalsAssumption`, `FaultsAssumption`)

- `ScheduleTypes`: the type invariant.
- `AtMostOneLateAttempt`: a disabled schedule is attempted at most once more.  The
  strengthening (`LateOnce`) is that a schedule which had its late attempt is not
  in the list of the tick any more, and a disabled one cannot come back into it.
- `ErrorsShow`: the error a schedule shows is the last one recorded.
- `NoHotLoop`: a schedule is due again only after its interval, an action property
  that follows from `Paced`: as long as no fault cut its tick short, a stored row
  is never older than the time since it was last found due, and its time is
  sound, unless it still waits in the current tick.  `Phases` (what the loop holds
  at each point) and `CheckedFree` (a schedule about to be inserted is in no list)
  carry it through the requests.

  `IInv` joins these parts; one lemma per action shows that it is kept.

`SchedulesAndRuns_proofs`, of `WorkflowRuns` (`RunsAssumption`, `KeepAssumption`,
`BoundAssumption`)

- `AlertsOnce`: runs in a row alert no item twice.  What was alerted is in the memory
  or in what the run at work is about to save, and what a run is about to alert is new
  (`SerialInv`).
- `LossExplained`: an item is remembered without an alert only because of a run that
  failed or was over its budget.  `LossInv` says so of every memory that a run carries
  and may yet save, whoever has saved meanwhile.
- `RunsRecorded`: what was answered is on record, the table is bounded; with the type
  invariant.  `Newest` prunes by counting newer rows; that this leaves at most `Keep` of
  them (`NewestBound`) and puts back nobody's claim to a place (`NewestKeeps`) follows
  from the order of the rows by a minimum of the counts (`LeastMeasure`).

`AdsbFeed_proofs`, of `AdsbSnapshot` (`AgesAssumption`)

- `AskedOnceADay`: OpenSky's budget, with the type invariant.  `Budget` ties the gate to
  the count: a pull that is due has not been made today.
- `NothingBlinks`, `NothingReverses`, `AcceptedIsFreshest`, `AlwaysRenewed`: action
  properties of the cycle.  They need little of the state before (`NothingYet`: nothing is
  served before the bootstrap is over) and much of the operators: the union of the feeds is
  the freshest fix of each aircraft, which exists because ages are well-founded
  (`LeastMeasure`); the merge carries what is young enough and holds what would go back; and a
  cycle either publishes that merge or keeps the snapshot with its age.

  `NotLockedOut` was too strong when its proof was first tried: TLC refuted it as soon as
  OpenSky had two bodies to answer with.  It now says of the union of the cycle itself (`Renewed`)
  what a renewed snapshot may keep beside it, and the run has both bodies.

`AdsbFeed_proofs`, of `Sidecar` (`SidecarAssumption`)

- `SidecarTypes`: the type invariant.
- `StopLeavesNothing`: a backend that stopped left nothing that lives on.  It rests on
  the port: whoever is past booting holds it (`PortInv`), a holder that was evicted is dead,
  hung or was sent its signal (`SeenInv`), and a process that boots has one parent, which waits
  for it (`ChildInv`).  So nothing that a backend claimed is alive when it decides to spawn, and
  one that stops waits for what it tracks, unless that dies by itself (`TrackInv`).
- `SpawnsHaveCauses`: no storm of respawns.  A spawn is counted when it is decided; as
  long as the holder is doomed or the port is free there is a fault or a teardown
  that no spawn has been counted against (`StormInv`), and causes only accumulate
  (`CausesGrow`).

`Alerts_proofs`, of `AlertBus` and `Incidents` (`BusAssumption`, `IncidentsAssumption`)

- `InboxCurrent`: what a sweep has still to file bridges the states between two sweeps
  (`Inbox`).
- `HighAnnounced`: the dedupe table and the history of what was said agree (`Dedupe`).
- `StreamHolds`: a queue holds what lies between the mark of its socket and the newest
  alert (`BusInv`).

`Alerts_proofs`, of `Watch` (`WatchAssumption`)

- `ToldAndInside`: what was told is what is remembered, with the type invariant.
  `Account` says it of every state: the newest firing of a pair that is still to be
  announced agrees with the membership, and a pair without one is told as it is
  remembered, or lost, or below the floor.  `evaluate_rules` moves the membership of many
  pairs at once.  So the same is shown of what its loops carry, after each candidate
  and each rule (`Memory`; `CrossKeeps`, `RuleKeeps`, `RulesKeep`), by induction
  over the turns.
- `EdgeCoversLevel`: an action property; what one turn put inside stays there, unless a
  candidate on the other side takes it out (`Knows`).

`TtlCache_proofs` (`TtlCacheAssumption`)

- `NothingExpiredServed`: a caller that waited looks again under the lock.
- `LoadsTakeTurns`: an action property.  No two callers share a lock object that is not
  of one key (`LockInv`); as long as the lock of a key was not evicted under a caller,
  all who want the key meet at its entry in the table, and no entry is newer than the answer
  which a loader is about to bring (`TurnInv`).

Where a proof asked for it, a model was changed without a change of what it says:
sequences are built with operators that TLAPS has facts about, unions and prunings are
given in closed form instead of by recursion, constants have their types assumed.  Two
guards name bounds that were implicit: `Spawn` needs a pid that is free, `Midnight`
is left out when it would reset nothing.

`Lemmas` has the facts that these proofs share.  The library's induction takes an
operator, which the provers cannot instantiate; `Induct` takes a set.  tlapm reads a
recursive function as a CHOOSE, so what it is at each argument has to be shown:
`IterationExists` gives a function that holds every step, and what is chosen is one.

**Model-checked only**: all liveness, since fairness and `ENABLED` are beyond the
prover.

## 5. Abstractions, and what is not modelled

- Rows, files and messages are names; the functions on rows (transform steps,
  checks, ingest, SQL) are reduced to the set they keep or the verdict they give.
- In `FoundryVersions` a check's parameters are fixed; it is enabled, disabled or
  deleted.  Reads for the UI change nothing and are left out.  The orphan rows a
  deletion during a write leaves behind are invisible to `VersionHistory`.
- In `FoundryDag` datasets are never deleted, names are fresh, and a listing is one
  step although `list_transforms` reads the ids first.  Two transforms of one
  second keep the order of their creation.
- In `FoundryBuilds` the resolution of objects in a sync is one read and one write.
  That rows stay `running` after a crash or an error outside the `try` is modelled and
  named by `BuildEnds` and `StuckOnlyIfBroken`; nothing in the code repairs them.
- In `WorkflowRuns` one source, one python block and one sink stand for the
  catalogue of blocks; a stored workflow is not edited.
- In `AdsbSnapshot` the pre-rendered blob and its ETag, the WebSocket push, `stop_snapshot`
  and the readers of the snapshot are left out: they read `snap` and leave it alone.
  How aircraft are converted is not modelled.
- `Sidecar` takes `ss` and `/health` to answer truly and a port to have one listener.
- `Watch` does not model the contents of stored alerts, of the delivery log and of
  tip-and-cue, nor the candidates computed from the history.  All drawn areas coincide.
- `Incidents` begins with the picture a brief gives; fusion, promotion to objects and the
  baseline are not modelled.  Of the scopes of the incident store it has the two with a
  loop behind them; the areas of `routes/intel.py` share one history among all who poll them.
- Not modelled at all: monitors; observation history, ontology and custody, whose writes are one
  sqlite transaction each; the tile cache; the correlation rules, which are numerical conditions
  on rows; the optional sidecars.  The sandbox of the python block, authentication, model
  providers, the web client and the machine-learning services are I/O, numerical
  code or user interface.

## 6. Plan

Done: the store and its refinement, builds, graph, workflows, schedules, local models, the live
picture (snapshot, sidecars), what watches it (rules, incidents, bus), the cache before the
upstreams, and the proofs of every safety property of these.  Next:

1. What the theorems of one component assume of the next: the one-step commit of `FoundryBuilds` and
   the one-step build of `FoundryDag`, as refinements.
2. The monitors of Foundry, the one part of its scheduling that is not modelled.
