# Formal models of mongo-ycsb

mongo-ycsb is a YCSB-style benchmark for MongoDB written in Go: it fills a
collection, runs a pool of goroutines that insert, read, update, delete and scan
documents for a while, and reports throughput and latencies. What it reports is
right only if its concurrent parts are: the counters that hand out keys, the pool
and its rate limiter, the metrics that are read while they are written, the
preload, and the scheduler that starts it all again. And it is only what the user
asked for if the configuration that was validated and shown is the one that is
executed. This directory holds TLA+
modules for these parts, TLC configurations that check them on small instances, and
proofs that the TLA+ proof system checks for every value of the constants.

## 1. Inventory

| Component | Source | State | Operations | Modelled in |
|---|---|---|---|---|
| Generator (keys) | `internal/datagen/generator.go` | atomics `nextKey`, `insertedDocs`, `seqCounter`; distributions built once | `ReserveInsertKey`, `AcknowledgeInsert`, `NextExistingKey` | `KeySpace`, `KeyAllocator` |
| Key distributions | `internal/distribution/zipfian.go` | tables built once | `Next`, `NextLatest`, hash | `KeySpace!IndexChoices` (their range) |
| Workers | `internal/worker/worker.go` | locals, the pool's context | `Run`, `RunN`, `execute`, one function per operation | `KeySpace`, `Pool` |
| Pool | `internal/worker/pool.go` | wait group, contexts, worker count | `Run` in modes time, ops and rampup | `Pool` |
| Rate limiter | `internal/worker/pool.go` | token channel, stop channel, ticker | `wait`, refill goroutine, `stop` | `RateLimiter`, `LimiterCap`, `Pool` |
| Recorder | `internal/metrics/metrics.go` | histograms and error samples under a mutex, totals outside of it, the time series | `Record`, `Snapshot`, `RecordDelta`, `Deltas` | `HdrRecorder` |
| Ticker | `internal/metrics/ticker.go` | stop and done channels | `Start`, `Stop` | `HdrRecorder` |
| System sampler | `internal/metrics/system.go` | its samples; stop and done channels | `Start`, `Stop`, `Samples` | `HdrRecorder` |
| Preload | `internal/loader/loader.go` | threads, `errCh`, its own generator, the collection | `Preload`, `insertN`, `CreateIndexes` | `Loader` |
| Orchestrator | `internal/orchestrator/orchestrator.go` | `startingCount`, the phases of a run | `Run`, `getHighestKeyNumber` | `Orchestrator`; hand-overs in `KeySpace` and `HdrRecorder`; what it reads of the configuration in `Commands` |
| Scheduler | `internal/scheduler/scheduler.go`, `cmd/schedule.go` | `completed`, the stop channel, a goroutine per trigger | `Start` | `Scheduler`, `ScheduledRuns` |
| Reporters | `internal/reporter/local.go`, `mongodb.go`, `html.go` | files, a results collection | `Save` | `ResultStore` |
| Comparer | `internal/comparer/comparer.go`, `cmd/compare.go` | none; reads the stores | `Compare`, `CompareByTags` | `ResultStore` |
| Workload selector | `internal/workloads/workloads.go` | thresholds built once | `NewSelector`, `Next` | `Configuration` (the shares); the choice is free in the other models |
| Explorer | `internal/explorer/*` | `app.js`: selected runs, fetched details | handlers; `toggleSelect` | `Explorer` (the selection, not the exports) |
| Configuration and validator | `internal/config/*` | directories that it creates | `Validate`, defaults | `Configuration`, `Commands` |
| Command line | `cmd/*`, `main.go` | one configuration, shared by the runs of a schedule | `dry-run`, `run` with its flags, `schedule` | `Commands`; `compare` in `ResultStore` |
| Documents | `internal/datagen` (rest) | none | `BuildDocument`, `BuildUpdateDoc` | when they panic (`Commands`) |
| MongoDB clients | `internal/db` | the driver's, external | `Connect` | what is refused (`Commands`) |
| HTML templates, result documents, vendored scripts | `comparer/html.go`, `internal/models`, `explorer/web/vendor` | none that matters between calls | data, formatting | no |


**How they interact.** Every command loads the file and has it validated. `cmd/dryrun.go`
prints the plan. `cmd/run.go` changes the configuration by its flags and builds an Orchestrator and calls `Run`;
`cmd/schedule.go` gives the Scheduler a function that does so at every cron
trigger. The configuration is one and the same
object for all of these runs, and so is the collection. `Run` preloads (Loader, with a generator of its own), determines
`startingCount`, builds the Generator, and hands it to two successive pools, warm-up
and benchmark. The workers of a pool share the generator, the limiter and the
recorder. The Ticker goroutine reads the recorder while they write it, the system
sampler collects beside it; `Run` stops both and reads them once the pool returned. Everything ends through contexts: the
pool derives its own from the run's, the run's comes from the scheduler. At its end
`Run` saves the result to up to four stores, which `cmd/compare.go` (Comparer) and
`cmd/explore.go` (a web server and a page) read later, possibly while other processes
save theirs.

**What is hard here.** Inserts are confirmed in another order than their keys are
reserved, and some never; a request whose client gave up may still be executed;
the totals of the recorder are not under its mutex; workers wait for tokens when a
deadline comes; channels must have room for every sender; a run starts from what an
earlier one (possibly failed or killed) left in the collection; the runs of a
schedule overlap on it and share a configuration that they change; a field that
nothing validates fails hours later, after the collection was dropped; stores fail one by one and are read while they are written; the page
awaits answers while the user goes on clicking. `PROJECT.json` lists every such place with its line and the properties
that watch it.

**What makes each part correct.**

* *Keys*: no two inserts get the same key; the limit below which keys are addressed
  counts the acknowledged inserts; no operation addresses a key nobody reserved; the
  run ends.
* *Pool and limiter*: exactly N operations in mode ops; ramp-up steps follow each
  other; a run returns whatever it waits for and leaves no goroutine; no more
  operations than tokens, no more tokens than the ticks are worth.
* *Recorder*: snapshots during the run are off by a bounded amount, the final one is
  exact, the series adds up and is complete when it is read, the report is always made,
  and ticker and sampler never outlive the run.
* *Preload and start of a run*: a run goes on with all of its keys or not at all, and
  its inserts start above every key in the collection.
* *Scheduler*: it stops for its bound, and only for it; runs start within the window;
  a run that no other one overlaps finds its keys where it takes them to be, unless it
  took a number of documents for their end.
* *Configuration and commands*: what is validated is enough for every component; what
  is executed is what the plan showed.
* *Results*: every store that works gets the result, whatever the others do (of the CSV
  file at least something, its write errors being ignored); what is in
  a store that can be read is found by its identifier; a tag finds the most recent
  match.
* *Explorer*: the selection keeps its limit, and what is on the screen catches up with
  it.

## 2. The modules and the code

`map` in `PROJECT.json` gives the lines of every definition. A worker, thread or
goroutine is a process with a program counter; a step is what the code does between
two points at which another process can tell the difference: an atomic operation, a
critical section, a channel operation or a request to MongoDB.

**KeySpace** – one run's key space. `Reserve` is `nextKey.Add(1)`;
`InsertConfirmed`, `InsertFailed` are the two outcomes of `InsertOne`;
`AcknowledgeInsert` the second atomic; `LoadCount` and `PickKey` the two halves of
`NextExistingKey`, between which the counter moves on; `Lookup`, `Delete`,
`ReadModify`, `Write` and `KeyedFailed` the requests on an existing key.
`StartBenchmark` hands the same generator from the warm-up pool to the benchmark
pool. MongoDB is external: `coll` is the set of keys in the collection, and
`ExecuteLateInsert`/`ExecuteLateDelete` execute a request whose client gave up. The
probabilities of the distributions are not modelled, the set of indexes each may
return is (with its clamps). `confirmed` and `lost` are history.

**KeyAllocator** – what the two counters promise, abstractly: a key is reserved
once, then acknowledged or abandoned once, and the limit moves by one exactly when a
key is acknowledged. `KeySpace!Allocator` is the refinement mapping.

**RateLimiter** – the token bucket: `ReceiveTick`, `Deposit` (which discards the
token when the bucket is full) and `Exit` are the refill goroutine, `Fire` the Go
ticker with its channel of one, `Take` the workers' receive. **LimiterCap** composes
it with takers that take whenever they can, a clock and a window that starts
anywhere, to say how many operations pass. **Pool** composes it (`INSTANCE`) with the
pool and its workers: `Start`, `RampStep`, `Joined`, `RampCancelled`, `RampFinished`
are `Pool.Run`; `EnterLoop`, `TakeToken`, `WaitCancelled`, `Complete`,
`ExecuteCancelled`, `LeaveLoop` the loops of `Run` and `RunN`; `Expire` and
`CancelParent` end the contexts. A worker that took an operation's own timeout for
the end of its context stays behind as `"gaveUp"`.

**HdrRecorder** – `RecordHistogram` (critical section), `AddTotalOps`,
`AddTotalErrs` (after it) are `Record`; `SnapshotOps`, `SnapshotErrs`,
`SnapshotHists` are the three reads of `Snapshot`, the mutex being held throughout;
`Tick`, `TickerReturns`, `RecordDelta` the ticker goroutine with its two snapshots
per tick; `Sample`, `SamplerReturns` the sampler; `PoolDone`, `StopTicker`,
`TickerStopped`, `SamplerStopped`, `FinalSnapshot` the orchestrator, for a pool that
returned nil (a report) or an error (none, but both goroutines are stopped all the
same). A histogram is the number of values in it; a value may be out of its
range and refused; a scan that returned documents records twice; an operation that
fails with a cancellation or an exceeded deadline is not recorded and its worker is
over (`Cancelled`).

**Loader**, **Orchestrator** – `Loader` has the preload's threads: `TaskSize` splits
the documents, `ReserveBatchKey` is one turn of the loop that builds a batch,
`InsertBatch` and `InsertBatchFails` the unordered `InsertMany` (which may fail with
any part stored), `ReportError` the send to `errCh`. `Orchestrator` extends it with
successive runs on one collection: the four ways a run finds its `startingCount`,
failures of every call, what a benchmark does to the collection, and `Kill`, a
process that dies anywhere (the program installs no signal handler). `origin`
and `runs` are history. EstimatedDocumentCount is taken to be exact.

**Scheduler** – `Fire` starts a goroutine for a trigger, `StopAtBound`/`StartRun` are
the two branches of its check, `Succeed`/`Fail` the end of its run, `Return` the
`select` of `Start`, `Exit` the end of the process. Check and close of the stop
channel are one step: triggers are at least a minute apart. What a run does is left
open.

**ScheduledRuns** – extends Scheduler with what its runs do to the collection that they
share, in the four setups of the preload: always (`fresh`), unless documents exist
(`ifExists`), never (`disabled`), and `--skip-preload` (`skipPreload`). `BeginRun` starts
a run; `CountDocuments` is the count that `skipIfExists` and `--skip-preload` make;
`KeepCollection` a preload that returns at once, after which the run takes the configured
`documentCount` for the end of the keys; `HighestKey` and `FallBackToCount` the lookup of
the highest key and the count that replaces it when it fails; `Drop`, `LoadKey`,
`Preloaded` the preload; `InsertKey` and `DeleteKey` the benchmark; `RunSucceeds`,
`RunFails` the end. Keys are loaded one by one here (Loader has threads and batches) and a
preload fails at a key that another run has loaded. `Left` are the collections that
earlier commands may have left. `overlapped`, `misjudged` and `hurt` are history:
another run was going on; a number of documents was taken for the end of the keys although
a key lay at or above it; a run found keys missing or taken, or was dropped under. Only
schedules bound by a time window look at the clock (`TimePasses`), since no other bound
reads it. Every
behaviour is one of Scheduler's (`ImplementsScheduler`, proved).

**Configuration** – pure operators: the fields as records (durations and timestamps are
numbers behind a text that may be missing or unparsable), `Errors` with one operator
per section of `Validate`, `Created` for the directories that validation makes,
`Overridden` for the flags of `run`, `Limits`, `Select`, `Shares` for the
selector (in whole percents), `Plan` and `Forecast` for what is printed, `Executed` for what the components make of the same fields (`Counted` is the loop that counts the triggers
of a span and stops at `TriggerLimit`, 10000 in the code), and `Sound`: what they need, read off their own
code and not off the validator's.

**Commands** – a session with one file: `DryRun`, then `Run` or `Schedule`;
`StartScheduler`, `Comes`, `TriggerRun`, `TriggerStops`, `Expire` are the scheduler in
minutes, one run at a time; `Connect`, `Prepare`, `CreateIndexes`, `Reuse`, `Build`,
`WarmUp`, `Benchmark` the steps of `orchestrator.Run` that read the configuration, each with
the errors and panics it may end in (`late` remembers for which fields): a connection string
that does not parse and indexes that the server refuses are among them. `ClusterFails` is a
server that cannot be reached or fails, whatever the configuration. `Build` makes the
change of workload D to the configuration that later runs share.

**ResultStore** – the end of `Run` for several runs, each a process: `BuildResult`
(its timestamp), `SaveToMongo` or `MongoFails` (logged, and no more; MongoDB may have
stored the result all the same), `CreateJSON` and `WriteJSON` (a file that is there
before it is whole), `JSONFails` (after which `LocalReporter.Save` writes no CSV
file), `SaveCSV` (whole or cut short: the errors of its writes are ignored and Save
returns nil) or `CSVFails` (no directory, no file), `SaveHTML` or `HTMLFails`, `Kill`. Against them one comparer: `Ask` starts one of
its questions (a comparison asks two, one after the other), `FindInMongo`, `NotInMongo`
and `MongoUnreachable` are the three outcomes of the lookup in MongoDB,
`ReadRunFile` the lookup of one file, `ReadDir`, `ReadEntry`, `DirRead` the loop over the
directory; `RunFileUnreadable` and `DirUnreadable` end the question, `EntryUnreadable`
skips a file. `tagged` is the set of runs that carry the tags of the question
(`containsAllTags`), `before` remembers the stores as they were when it was asked.

**Explorer** – the page of the explorer. Every action but `Answer` is an event handler
that runs to its end; `filter` is JavaScript's; `Request` is `toggleSelect` up to its `await`, `Answer` the rest
of it, for an answer of any kind. `checked` and `disabled` are the boxes of the
table as it is on the screen, which is what the user clicks on. The contents of
the comparison are left out: `panel` is the sequence of runs it shows.

The operators whose comment says "Mutant of ..." are plausible bugs of the definition
after them. Nothing uses them; putting one in the place of the definition makes TLC
report the property that `mutants` in `PROJECT.json` names.

## 3. The runs

| Run | Shows | Bounds, and why they are enough |
|---|---|---|
| `key_space` | all key properties, the inductive invariant of the proofs, the refinement of KeyAllocator | two workers (every hazard here needs two), warm-up and benchmark, one key preloaded and two to reserve so that confirmations can be out of order and one lost; distribution latest with `recordCount` 5, larger than the collection ever is, so that its clamps act |
| `recorder` | lag, exact report, series, termination | two workers, one scan each (two calls when it returned documents), two ticks with two snapshots each, a sample, and the final snapshot: every order of one writer's step against a reader's |
| `limiter_cap` | conservation, burst, cap | 12 operations/s: a quotient that is rounded down, a bucket of 12 and 14 ticks that fill it and discard |
| `pool` | the three modes | 5 operations among 3 workers (a remainder); a ramp-up 1, 3 towards 4 by 2 (a step that does not divide the climb); limiter on, cancellation anywhere |
| `startup` | preload and start of three successive runs | 5 documents, 2 threads, batches of 2: a remainder, several batches, a last partial one; three runs so that the third meets what a failed second one left |
| `schedule` | the four bounds, overlapping runs on their collection | two runs at a time and `maxRuns` 2: an overshoot is possible; all four setups; two documents and three keys: a preload can be interrupted between two keys, and a benchmark inserts one above them; a collection that is empty or was left with a gap, so that its count is below its highest key |
| `commands` | configuration sound, nothing validated fails late, plan executed, schedule foretold | every file that differs from a plain one in at most two of ten sections, out of 78 variants (2597 files): every variant of a section meets every variant of another; a cron period of 3 minutes and triggers up to minute 12, so that windows hold several triggers, begin and end on them and between them; a limit of 3 triggers where the code has 10000, below and above which spans end; starts at minute 0 or 1 |
| `results` | independence of the stores, lookups by identifier and by tag | two runs, the least for which one is more recent; any stores enabled, any failure, a comparer that asks again and again |
| `explorer` | limit, currency of the view | four runs, two of which may be compared: a full selection and a choice outside of it; two requests per run, so that a run may be selected again before the first answer |
| `key_space_unconfirmed` | refutes that only confirmed keys are addressed | sequential keys, two workers |
| `commands_plan` | refutes that what is printed is what is executed | one file: a ramp-up with a target rate and hashed inserts |
| `results_tag` | refutes that a tag finds the most recent run with it | as `results` |

The bounds that are no part of the code are named as such where the constants are
declared (`MaxKey`, also of ScheduledRuns, `MaxSeq`, `OpsPerWorker`, `MaxTicks`, `MaxSamples`, `Slots`,
`MaxCompleted`, `MaxRuns` of Orchestrator, `Requests` of Explorer, `LatestStart` and
`Horizon` of Commands). Deadlock is checked in every run but `limiter_cap`,
whose clock stops at its bound; a system that may end has a `Terminating` step
that says where.

**Refuted statements** are in `PROJECT.json` under `findings`, with the words of the
repository. The four are: a confirmed key above an unconfirmed one is out of reach
while the unconfirmed one is addressed; a ramp-up ignores the target rate that the plan
prints; the insert ordering that the plan prints is used by nothing; a tag finds an older
run in MongoDB when the newest one is in the files only.

Divergences noticed while modelling and stated, as far as they can be, by a property
that holds of the code as it is:

* `metrics.go:111` calls a snapshot "point-in-time"; its two totals are read one after
  the other and written outside of the mutex, so that it may hold more errors than
  operations: `SnapshotLags` bounds how far off it is.
* `pool.go:149` says that the limiter caps operations per second; every tick is worth at
  least one token, so targets below ten are exceeded: `CapsFromTen`.
* `dryrun.go:236` says that a schedule stops after exactly `maxRuns` completed runs;
  overlapping triggers start, and count, more: `OvershootBounded`.
* `zipfian.go:83` says that `NextLatest` gives the most recent key the highest
  probability; it subtracts a *scrambled* Zipfian offset (`zipfian.go:95`), so the
  likeliest key is wherever the hash of 0 points. Only the range is modelled.
* `metrics.go:97` promises up to five *unique* error messages; `Record` appends
  any message while there are fewer (`HdrRecorder!Sampled`).
* `worker.go:201` records `scan_per_record` through the same call as an operation, so
  a scan that returned documents counts twice in the totals: `FinalExact` says so.
* A run whose preload was skipped because documents exist, or is disabled, starts at the configured
  `documentCount` (`orchestrator.go:113`), whatever the collection holds, also after a
  preload that failed half-way; `NoInsertCollides` is therefore stated of runs that
  preloaded or looked up the highest key, and `OnlyOverlapHurts` excepts the runs that
  started below a key (`misjudged`), which are also those for which the lookup of the highest
  key fell back to a count (`orchestrator.go:506`).
* README.md:230 says that the full config is validated. Of the connection string only the
  presence is checked (`validator.go:13`), of indexes not whether the server takes them
  together (`loader.go:154`), and nothing checks the write concern, the array size, the
  document count, the warm-up duration, the field count and the cron expression: a run with
  a bad one fails late or panics, some after the collection was dropped.
  `LateOnlyUnvalidated` says that no field which is checked is among them, and which of the
  others fail before the drop. It does not say that the list is complete: what the server
  refuses for other reasons is `ClusterFails`.
* dry-run counts at most 10000 triggers (`dryrun.go:225`, `240`) and does not say so: a
  schedule that fires every minute for a week has 10080. `ScheduleForetold` takes an estimate at
  the limit for a lower bound.
* `local.go:79`, `82` and `94` ignore the errors of writing and flushing the CSV file, and
  `Save` prints "CSV saved" over a file that may be empty or cut short: `SavedUnlessFailed`
  promises that there is one.
* `worker.go:69` and `92` take every error that is a cancellation or an exceeded deadline for
  the end of the run. With a `timeoutMS` in the connection string one operation that times out
  ends its worker for good, unrecorded, and a run in mode ops ends with fewer operations than
  README.md:76 promises: `ExactlyN` excepts it.
* The plan's estimate of the runs in a window counts from `startAt`, in the zone in which
  that is written, up to `stopAt` inclusive (`dryrun.go:240`); the cron runs in the local
  zone from whenever the schedule was started: `ScheduleForetold` says when the two agree.
* Workload D changes the key distribution of the configuration that all runs of a
  schedule share (`orchestrator.go:124`), and the plan shows the configured one;
  `PlanIsExecuted` excepts it, the rate and the last step of a ramp-up, the ordering of inserts,
  the distribution of scan lengths (which nothing reads), the record count with
  `--skip-preload`, a default maximum of scan lengths below the minimum, and mixes with
  negative percentages, and holds of everything else that is printed.
* Overlapping runs that preload can fail each other again and again, and runs that fail are
  not counted: `BoundEnds` does not promise the end of a schedule by `maxRuns` for them.
* `cmd/schedule.go:18` describes `runFor`, `maxRuns` and the rest as limits of which the
  first one hit wins; the code reads `bounds.type` and uses only the one it names, and the
  validator refuses others beside it.
* `excel.go` merges delta and system samples by their offsets, which are floating-point
  numbers taken by two goroutines: the rows of one series hold zeros for the other. The
  export is not modelled.
* `pool.go:111` stops at the last step within `maxThreads`, which README.md:567 says
  is reached: `RampClimbs` says where it ends.

## 4. Fairness

Safety is checked of `Spec`, which assumes nothing. `FairSpec` assumes:

* goroutines are scheduled and requests return: the Go
  scheduler is preemptive and the driver honours the context;
* timers fire (`Expire` of Pool, `Limiter!Fire`, `TimePasses`);
* strong fairness where a process competes: a goroutine waiting for the recorder's
  mutex, which Go hands over to a starving waiter; a receiver waiting for tokens,
  which a channel serves in order; a `select` with a closed channel among its ready
  ones, which is chosen at random. Without the last, a ticker that fires again and
  again could hide `stop` for ever;
* in ScheduledRuns, that time passes and the cron keeps firing, that each goroutine is
  scheduled (weak), and that what runs attempt again and again succeeds in one run or
  another (strong, per stage: the drop, each key, the indexes, the benchmark): otherwise
  `maxRuns` need never be reached, because failures do not count. Scheduler alone has no
  fairness;
* nothing is assumed about cancellations, failures, kills and late executions.

## 5. What is proved

`KeySpaceProofs` (for any finite set of workers, any counts and any distribution):

* `Inductive`: `IInv` is an invariant. `NoDuplicateKey` and the rest are not
  inductive; `IInv` adds that the keys from `startingCount` to `nextKey` are
  *divided* among inserts in flight, confirmed and lost (`KeysPartitioned`), that
  `insertedDocs` counts the acknowledged ones (`CountIsAcked`), and that what the
  server and the workers' locals know lags behind the counters (`ServerBehind`,
  `LocalsBehind`). One lemma per group of actions, one step per action.
* From it `TypeCorrect`, `NoInsertCollides`, `CountersTrack`, `AddressedAccounted`,
  `HiddenOnlyByEarlier` (a confirmed key at or above `insertedDocs` is hidden by inserts
  reserved before it, which are counted by cutting the reserved keys at it), and
  `Implements`: KeySpace implements KeyAllocator.
* `CancellationIsFinal`, an action property: a pool's context is done when the run's is
  (`Derived`), and a worker at the top of its loop looks at it first.

`LimiterCapProofs` (for any target and any number of ticks): `TokensConserved`,
`BurstsBounded`, `CapHolds`, from an invariant that adds to the types that the tick
being handed over and the tick being deposited are worth at most one tick each.

`OrchestratorProofs` (any threads, documents, batch size and number of runs): `TypeCorrect`,
`PreloadLoadsAll`, `BatchesApart`, `InsertsAreNew`. The heart is that the threads together
reserve exactly `documentCount` keys. There is no sum in it: a key that a thread has still
to reserve is a *claim*, a pair of the thread and a number; at first the tasks' claims are
in bijection with `1 .. DocumentCount` (`TasksCover`), each reservation removes one
claim and moves the counter by one (`ClaimReserved`), so that the counter and the claims
are `documentCount` together as long as no thread failed, and every key below the counter is
stored or in one batch (`LoadInv`). With no claims and no batch left the collection is complete.

`PoolProofs` (any threads, operations and ramp-up): `TypeCorrect`; `StepsApart`, because
workers run only while the main goroutine waits for all of them (`WorkersKnown`);
`ClimbsToLastStep`, because the number of threads is the first one and a number of
steps, and never past the last step by more than one (`RampKnown`); `CountIsExact`
(mode ops, any split): the operations left to the workers are a set of pairs (`ToDo`), which
`Start` makes as large as the operation count, each completed operation makes smaller by
one, and only a worker that was cancelled or gave up leaves unfinished (`OpsKnown`).

`ScheduledRunsProofs` (any bound, `maxRuns`, goroutines and documents):
`ImplementsScheduler`, which carries `Overshoots`, `StopsForBound` and
`StartsInsideWindow` from the invariant of Scheduler (what closed the stop channel, and
that the runs counted are those that succeeded) to the runs on their collection;
`OverlapHurts`, because a run that nothing overlaps knows which keys are in the collection at
each of its stages (`KnowsItsKeys`): every key of its preload and none above, or, after a
count was taken for their end, none at or above it unless it was misjudged; `AloneNotCutOff`, because after the last run is counted
only runs that overlapped it are going on.

`HdrRecorderProofs` (any workers, operations, ticks and samples): `TypeCorrect`, with the
mutex held by exactly the reader inside of `Snapshot`, and `SeriesWhole`, because the
orchestrator passes each stop only when the goroutine is over (`StoppedInOrder`). The numbers
rest on `SnapshotInv`. Its `Books` relate what is counted where: each call that is in the
histograms is in the totals too, unless its worker is still on the way there, at most
one call for each worker. `Reading` says that what a reader read first is no more than the
histograms hold, which nobody changes while it has the mutex, and no less but for a call per
worker; `Ticking` that the totals of a tick lie between those of the last one and the present
ones; `Settled` that the pool is gone before the final snapshot, and nothing
changes between its parts. From them `SnapshotNeverAhead`, `SeriesAddsUp`, `ReportExact`.

`ResultsProofs`, on ResultStore (any number of runs): `TypeCorrect`; `StoresIndependent`, with what a run
that passed a store has done there (`RunSaved`: the document, the whole file or page, or a CSV
file of any length); `LookupById`; `LookupByTag`, with what
of a directory was read so far (`ReadSoFar`). On Explorer (any runs, limit and number of
requests): `PageTypeCorrect`, `ScreenCatchesUp`, `ShowsOnlySelected`. Here the properties
themselves are together inductive (`PageInv`): a box checked in vain needs a table out of
date, hence a request under way, whose answer renders it. The lemmas before them say what
`filter` returns, by the least argument for which its recursion would return something else.

`CommandsProofs` (any files, flags and directories, so any numbers in any field):
`ValidIsSound` – whatever passes `Validate` is `Sound`, one lemma per component;
`AlwaysSound` – so is the configuration of every command that goes on, until it ends,
flags and the change of workload D included. Beside its invariant `IInv` three more
are inductive:

* `Spared`, for `FailsForUnvalidated`: nothing is late before a command started, a cron is
  refused before the first run, and a client exists only for a known write concern and a
  connection string that parses, so that whatever was dropped was dropped with both. `Counts`
  beside it says that the number from which keys go on is negative only where the preload is
  disabled.
* `Planned`, for `ExecutesThePlan`: what was printed is the plan of the configuration in use up
  to the distribution that workload D replaces (`Foreseen`), and what was executed is
  the execution of it. The percentages need `SharesAsConfigured`: of a hundred numbers each
  operation is selected by as many as it was given, because the recursive thresholds
  (unfolded, there being six) do not decrease and end at the sum.
* `Forecasted`, for `FiresAsForetold`: until a schedule is over, what fired is every
  multiple of the period since its start (`InCycle`), up to its bound (`AtBound`). The plan's count is
  a quotient, and the lemmas before it count multiples in an interval by a bijection with
  the quotients. The limit of triggers cuts the count, from which on it bounds what fired from
  below only.

Sums over workers, intervals or operation types are stated as cardinalities of sets
of pairs (`Counted` and `Total` of HdrRecorder, `ToDo` of Pool): a step adds a pair or takes one
away, which the theorems on finite sets carry, where a recursive sum would call for an
induction over data that the prover cannot do. TLC compares `Total` with a recursive sum
(`TotalIsTheSum`).

The proofs use only the ASSUMEs of the modules, which TLC evaluates in the runs.

`PeriodAssumption` is one of them: a cron expression that parses fires once a minute at
most, that is, its period is not zero. `TriggerLimitAssumption` only says that the limit of
triggers is a positive number.

Every invariant and action property that the runs check is proved. Only model-checked is
liveness, because the prover does not do fairness: `EventuallyReported`, `EventuallyReturns`,
`PreloadReturns`, `BoundEnds`. What is refuted is so by counterexamples of TLC.

## 6. What is not modelled

* The explorer's exports, and what results look like in a file, a table or a chart.
* The threads and batches of overlapping preloads, and the operations of overlapping
  benchmarks: `ScheduledRuns` has them key by key, `Loader` and `KeySpace` have the
  detail for a run that is alone.
* Latencies, quantiles, probabilities, documents, indexes, and text.
* What a sample of the server's or the machine's state holds.
* `Reset` of the recorder and `ShuffledKeyIndices` of the generator, which nothing calls.
* The fields of the configuration that are handed on unread (prefix, padding, tags, pool
  size), and the loading of the file itself.
* Everything listed as `not_modelled` in `PROJECT.json`, with the reason.

## 7. Plan

1. *Core, done*: KeySpace with KeyAllocator, RateLimiter, LimiterCap, Pool,
   HdrRecorder, Scheduler, Loader, Orchestrator, ResultStore, Explorer.
2. *More of the system, done*: ScheduledRuns, Configuration, Commands, the system sampler
   and the pool's error path.
3. *Proofs, done*: the theorems of section 5.
4. *Next*: a refinement from Loader's batches to ScheduledRuns' keys; lemmas about
   `IndexChoices` on their own; shorter proofs where a lemma serves twice.
