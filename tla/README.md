# TLA+ models of the run board

A verification project for runboard-lcp: TLA+ modules of the parts of the run
board that change shared state, the TLC runs that check them on small
instances, and TLAPS proofs of the properties that matter most.

The run board measures language-model engines on one box. At most one engine
can hold port 18300. A web page queues jobs (evaluate, download, switch
engine), a dispatcher started by a timer executes them one at a time, a shell
script moves the port between engines, and several collectors read what the
runs leave on the disk.

## Inventory

| component | source | state it keeps | operations |
|---|---|---|---|
| dispatcher | `dispatcher.py`, `systemd/load-dispatch.*` | queue and done directories, `status.json`, `dispatch_history.json`, the flock, `main`'s locals | one tick: lock, pick, validate, defer or execute, restore the baseline, finish |
| write path of the web server | `live_server.py` `do_POST` | adds queue files | `/api/dispatch`, `/api/download` |
| job rules | `console_core.py` | none (reads the disk's free space and the hf cache) | `validate_job`, `download_allowed`, `download_progress`, `atomic_json` |
| switch script | `scripts/serve.sh` (= `host/serve.sh`), `systemd/*.service` | which units and containers are up, who holds the port, `RESTORE` | one arm per engine: stop the others, start, wait for health, restore on failure |
| catalogue | `registry.py` | `models.json` (rebuilt) | `live_engine`, `build` |
| engine metrics | `engine_metrics.py` | caches per window, the single-stream sampler's last counters and samples, shared by the web server's threads | `block`, `series`, `note_single_stream` |
| live page document | `live_metrics.py` | the spark cache | `build_live`, `cached_sparks` |
| run throughput | `run_throughput.py` | none | `find_run_dir`, `compute`, `block` |
| load soak | `load_soak.py` | `_state`, the request window, `state.json`, `requests.jsonl`; one telemetry thread and up to eight workers | phases, workers, telemetry |
| corrected metrics | `corrected_metrics.py` | none | `summarize`, `rolling_aggregate`, `overlay` |
| history collector | `history_collector.py` | `history.json` | collect runs, rank per evaluation type, quarantine |
| read path, exporter, pages | `live_server.py` `do_GET`, `zgx_exporter.py`, `ui_chrome.py`, `static/` | none | read and format |
| operator scripts | `scripts/deploy.sh`, `monitor/`, `tools/` | none at run time | one-shot |

How they interact. `do_POST` hands a job to the dispatcher through a file in
the queue directory, written with `os.replace`. The dispatcher hands an engine
switch to `serve.sh` and sees an exit status and, if it asks,
`registry.live_engine`. It hands a run to a child process and sees a return
code. It tells the page what happened through `status.json` and
`dispatch_history.json`. The soak and the campaign lanes use the same port and
know nothing of the queue; the dispatcher looks for them with `pgrep`.

What is hard, and what makes each part correct:

- *Dispatcher.* A tick may be killed at any step, by a reboot or by systemd,
  and the next tick finds only files. Correct means: one tick at a time; an
  accepted job is never lost and is finished; nothing is measured while another
  engine than the one asked for is reported as serving; the box comes back to
  the baseline, or the receipt in `status.json` says that it did not; the
  receipt stays until the next job is taken up.
- *serve.sh.* Units die, restart by themselves and release the port in their
  own time; every stop is `|| true`; the health gate asks only whether
  *something* answers. Correct means: an arm starts its engine on a cleared
  box; exit status 0 means the target is serving; every invocation ends.
- *Engine metrics.* The web server's threads share the caches and the sampler
  without a lock. Correct means: a document served is young and of the window
  asked for; a chart answered from the memo is of the engine that serves now; a
  number is what was measured, or a dash.
- *Load soak.* Main, a telemetry thread and a pool of workers share one state
  and its file, partly under a lock. Correct means: a result agrees with the
  logs; exit status 0 says that everything was measured and published; what is
  published stays.
- *Throughput, corrected metrics, history, exporter, read path, downloads.*
  Functions over rows, expositions and files that may be missing, failed or
  half-written. Correct means: nothing measured is dropped, nothing is
  invented, and two places that show one thing show the same.

`PROJECT.json` lists each hazard at its line with the properties that cover it.

## Modules

| module | what it models |
|---|---|
| `ServeContract` | what one invocation of `serve.sh` means to its caller: an exit status and the box it leaves, which is the unit `live_engine` reports, the engine that has the port, and the engines that may yet come back |
| `Dispatcher` | `dispatcher.main` and what interleaves with it: accepted posts, kills, engines that die and come back, a port that another engine keeps, measurements outside the queue, file operations that fail |
| `JobBoard` | the abstract specification: jobs wait, one at a time owns the box, accepted jobs stay accounted for, the engine changes only for the job that owns the box |
| `DispatcherBoard` | the refinement mapping from `Dispatcher` to `JobBoard` |
| `MCDispatcher` | the requests and the symmetry of the instances TLC checks |
| `ServeSwitch` | `serve.sh` itself against the units and containers, and its relation to `ServeContract` |
| `DispatcherProofs` | lemmas on the helpers, the inductive type invariant, mutual exclusion, the engine named while a job measures, the receipt |
| `DispatcherQueueProofs` | what becomes of the jobs: the files of the queue, how often a job is finished, the length of the history |
| `DispatcherBoardProofs` | where a job can be lost, that elsewhere none is, and the refinement of `JobBoard` |
| `ServeSwitchProofs` | its inductive invariant and theorems |
| `LivePage` | the engine block of `/api/live`: threads over the document and chart caches of `engine_metrics` |
| `MCLivePage` | the symmetry of its instance |
| `LivePageProofs` | its inductive invariant and theorems |
| `LoadSoak` | `load_soak.py`: main, telemetry and workers, the lock, `_state` and the files |
| `MCLoadSoak` | the pools of its instance |
| `LoadSoakProofs` | its inductive invariant and theorems |
| `Readings` | a value that may be missing, and rates kept as pairs of numbers |
| `EngineReadings` | `engine_metrics.py`: exposition, names of two families, gauges, the single-stream sampler, the grid, the recency |
| `Throughput` | `run_throughput.py` and `corrected_metrics.py` |
| `Views` | the exporter, the box, job and throughput blocks of the page, the read routes |
| `History` | `history_collector.py`: rates by family and shape, the ranking, the soak block, the index |
| `Downloads` | `console_core.py`: size of a tree, progress, the disk gate, the plan of a repository |
| `Reports` | everything those five read, as inputs, and what must hold of what they then show |
| `ReadingsProofs` | lemmas on sums, maxima, filters, sorts, folds, means and medians of sequences of any length |
| `ReportsProofs` | the thirteen invariants of `Reports` as theorems, for all numbers and histories of any length |

### Dispatcher

One action is one step another process or a kill can come between: a read or a
write of a shared file, the start or the end of a child process.

| in the model | in the code |
|---|---|
| `queue`, `done` | the two directories: file name to nothing, a job, or a torn document |
| `status`, `history` | `status.json` (state, phase, job, `restored_to.ok`, `off_baseline`), `dispatch_history.json` |
| `lock`, `pc`, `path`, `job`, `res` | the flock, and where `main` is with its locals; `res` is the part of `result` and `error` that `finish` depends on |
| `engine`, `port` | `live_engine()["target"]`, the unit that is active; and the engine that answers on :18300, which is all a probe or a run can reach |
| `behind` | the engines `live_engine` will name later on with nobody asking: a unit that is active too, or one that systemd will start again |
| `outside` | whether `pgrep` would find another driver |
| `ask`, `posted` | the request of each accepted job, chosen at the start; jobs `1..posted` have been answered 202 |
| `Post` | `do_POST`, accepted |
| `Start`, `IdleTick`, `Pick`, `ReadUnreadable`, `Read`, `Take`, `Validate`, `NotBusy` | `main`, 510-552; `Read` ends with the blank document that the new `Status()` flushes (538, 82), `Take` is the update that names the job (540-542) |
| `EngineDies`, `EngineReturns`, `PortMoves` | the engines by themselves: a unit dies, systemd starts one again, a listener lets go of the port or binds it |
| `Defer`, `Unlink`, `Rewrite`, `Fill`, `RequeueRaises` | the put-back, 551-564: the `write_text` is an open that truncates and a write |
| `StartServe`, `NoSwitch`, `ServeReturns`, `AssertTook`, `Probe` | the explicit switch, and `do_switch` |
| `StartRun`, `EvalEnds`, `DownloadEnds` | `do_eval`, `do_download` |
| `LeaveExplicit`, `AlreadyBaseline`, `StartRestore`, `RestoreReturns`, `RestoreRaises` | the `finally` clause |
| `Record`, `Publish`, `Archive`, `ArchiveRaises` | `finish` |
| `Crash` | the process is killed: its flock and its locals are gone, its files stay; killed inside `serve.sh` the engine may be anything |

Definitions introduced by the comment *Variant* are plausible mistakes. No
specification uses them; each is the reason to believe that a property would
notice.

Abstractions: a job is its action and its engine; the preset, the workers and
the repository matter only through the return code. Log lines, times and the
queue depth are left out. The answer `validate_job` gives a second time can
differ from the first only through the disk, so only a download can be refused.
A refused post is no step. A tick that finds the lock held returns 0 without a
trace and is no step. `live_engine` never answers "unknown": that answer is
treated like any other that is not the wanted engine. A kill is taken to end
the children too, as systemd does with the unit; a dispatcher an operator
started by hand may leave them behind. Two pairs are one step each, though an
engine can die or come back between them: the end of the restore's `serve.sh`
and the receipt written from its exit status (623-630), and the reading of
`live_engine` in the `finally` clause and the document written from it. What is
true of the receipt is therefore said of the moment its answer was found.
`Returning` and `Apart` are constants of an instance: which engines may come
back, and whether the port may be another engine's than the active unit's.

### ServeSwitch

`active` is what `systemctl is-active` and `docker inspect` report, which is
all `current()` and `live_engine` read; `holder` is the listener on the port,
which is all `health()` reads; `looping` holds the units that died and that
systemd will start again. The script's steps are `Call`, `Stop` (one helper
each), `PollEnds`, `StartTarget`, `Healthy`, `GivesUp`, `Restore`,
`RestoreEnds` and `Killed` (the dispatcher's 2700 s, or a kill). The engines'
steps are `Binds`, `PortInUse`, `Dies`, `UnitRestarts` and `PortFreed`. Each
arm's list of stop helpers and both orders of looking are those of the source.
That at most one engine is up is not claimed: `restore_on_failure` starts the previous
engine beside a target that missed its health gate and that nobody stops, so
the two may be loading at once, although `serve.sh:12-14` says that engines
cannot coexist. `active` and `looping` hold such pairs, and the arm of the next
invocation has to clear them.
The ghost `clean` says that every stop of the invocation worked and that every
poll of the port was answered in its sixty seconds; the script cannot know
either.

### LivePage

One action is what one thread does between two points at which another may
run: one read or write of a cache's dictionary, or one call to a source.

| in the model | in `engine_metrics.py` |
|---|---|
| `docs`, `docAt`, `chart`, `chartAt`, `chartFam` | the five dictionaries of `_cache`, by window; a chart is the window, the family and the moment it was drawn for |
| `pc`, `win`, `at`, `fam`, `cached`, `drawn` | where a call of `block` is, its window, its `now`, the family it saw, the chart it found and the one it will show |
| `Ask`, `Look`, `Serve` | the test of the cached document and the second read that returns it, 583-592 |
| `Scrape`, `RatesAnswered`, `RatesFailed` | the engine and the instant queries; a failure stops all further queries and takes the last chart, 594-656 and 677-681 |
| `ReadChart`, `CheckChart`, `Drew`, `DrewNothing` | `series`, 535-560 |
| `PutChart`, `PutChartAt`, `PutFamily`, `StoreDoc`, `StoreAt` | five separate stores, 556-558 and 689-690 |
| `Tick` | time passes, but no call outlasts `CallMax`, the timeouts of its sources together |
| `Swap` | the dispatcher moves the port, or the engine dies |

`clash` is a ghost: the windows whose chart two calls stored at once. What the
docstring of `series` (530-533) asks for is checked as far as the code keeps it:
`MemoOfThisEngine` says that the memo is answered only with a chart of the
family the call saw, and young, unless calls are storing one at that moment;
the entry is three stores, and what two calls leave there may belong to neither.
The code does not keep the rest, and no property says that it does:

- a range query that fails ends the loop with the lines drawn so far, and that
  half-drawn chart is cached and shown (555-559). A chart of the model is one
  with all its lines or with some;
- when the first query already fails, or the rates did, the chart shown is
  whatever is cached for the window, of the engine before a swap too (560, 681).

### LoadSoak

`main` and `goal`, `tel` and `work` say where the threads are; `lock`, `stop`
and `past` are the lock, the event and the passed deadline; `phase`, `result`,
`samples` and `totals` are `_state`; `window`, `errs`, `read` and `raised` are
main's locals of the phase, `read` the value a worker has read of `errs` and
not yet written back; `file`, `fd` and `dump` are `state.json` and
`state.json.tmp`, the file a writer has open and the text it is about to write.
An open file follows its inode through `os.replace`, so a text may land in the
file that has already been renamed, over a longer one. `write_state` is
therefore three actions of each of its callers (`MainOpens`, `MainFills`,
`MainReplaces`; `TelOpens`, `TelFills`, `TelReplaces`). `posts` and `failed`
are ghosts.

The first write of main is outside the lock. What TLC says of that race: it can
kill main (`MainLosesFile`) or leave a torn file for one period of the
telemetry, but nothing published is lost by it, since nothing is yet.

A full disk under `write_state` is not modelled, and neither is `summary.json`,
which nothing in the repository reads. The cap of 200 logged failures is left
out: a failure that is not logged takes the same steps.

### Reports and the modules it reads through

`EngineReadings`, `Throughput`, `Views`, `History` and `Downloads` hold the
readers as operators, named as in the code. `Reports` has one action for each
kind of thing a reader may find, and its state is that input together with
what really happened: which requests an engine served, how many tokens it made
in each interval, which streams were busy, which job ran. The invariants
compare what is shown with what happened, or two places that show it.

Rates are pairs `<<tokens, seconds>>` compared by cross-multiplication, because
TLA+ has no floating point here; the code's rounding to two decimals is left
out. Means, medians, `sorted(...)[len // 2]`, the stable sort and Python's rounding to
even are what the code computes. A filter and a sort are written through the
indices they keep or move (`Only`, `Sorted`), a form that can be reasoned about.

`SampleStreams` is a sequence of lives: an engine serves some requests, then it
is restarted, or another one is started on the same port, and the counters begin
at 0 again. The handler threads note readings of them in any order, and readings
that find no engine. The two lines that swap `prev` are one step. The
counters are those of the family: TensorFold's token counter counts tokens of
finished requests (`engine_metrics.py:179-185`), vLLM's moves while a request
is in flight (`engine_metrics.py:141`). The sampler takes a restart for one when
a counter went down; one whose counters have already outgrown the last reading
is taken for an interval, and so is a swap. `SampleIsExplained` therefore does
not say that every number is a request's rate. It says what else it may be, and
that it is nothing besides.

`ReadStatus` has run directories for some of the jobs, for all or for none. The
frozen runner writes its rows beside the bench, and `_publish_run` makes
`runs/<id>/` when it has ended (`dispatcher.py:260-304`, 377), so for the whole
of such a run the page shows no rows; `PageShowsTheRun` says that too.

`ViewsAgree` says which views agree. The job block counts a job that was put back as
active (`live_metrics.py:296`, and a test pins it); the exporter, `/api/dispatch`
and the throughput block do not.

`RunDirs` have a preset that the collector does not read. `group_eval_types` puts
all presets of a family into one order, although `console_core.py:104-107` says
that smoke-20 and kit-180 must never be ranked against each other; so what
`BestIsBest` says of the first of that order is that nothing *of its own preset*
beats it.

`zgx_exporter.py:31` says that a metric that cannot be sampled is omitted. A clock
of `[N/A]` is not: `float` raises on it (230), the whole scrape fails, and the
page shows the box as one that did not answer. `NoFakeZero` has that as the one
exception to "what could be sampled is on the card"; what it claims of every box
is that nothing shown was invented.

`MeasureTree` works in bytes: `Unit` is the bytes of a hundredth of a GB (1e7 in
the code, 2 in the instance), what is on the disk is rounded to ten of them and the
hub's size to one. With 1.96 GB of 1.96 the page shows 102 per cent.
`PercentOfTheBytes` bounds the percentage by the two roundings and claims no
more. The docstring of `hf_plan` (`console_core.py:404-405`) still speaks of the
biggest revision; the comment at 412-415 and the tests say that the smallest
decides, and that is what the code does and `PlanAgreesWithGate` checks. The
free space is one number there, though the plan and the post each read it.

## Runs

Passing, with the number of distinct states and the time on two workers:

| run | instance | shows | size |
|---|---|---|---|
| `dispatcher_safety` | 2 processes, 2 engines, 2 evaluations, history of 4, one of each fault, one outside measurement, one engine that dies, untrusted exit status | `TypeOK`, `OneTick`, `NamedWhileMeasured`, `ReceiptKept`, `LostOnlyInPutBack` | 2 220 000, 80 s |
| `dispatcher_recovery` | 1 process, 2 engines, 2 evaluations or switches, one crash, one failing file operation | `NoJobLost`, `RunsBounded`, `DoneIsAccountedFor`, `ImplementsBoard`, `EverySettles`, `BoxComesHome`, `NoGhostRun` | 613 000, 100 s |
| `dispatcher_defer` | 1 process, 2 engines, 2 jobs of any kind, two outside measurements, one engine that dies or comes back, a port that may be another engine's | `ReceiptTruthful`, `EverySettles`, `ImplementsBoard` | 621 000, 100 s |
| `serve_switch` | all 6 engines, 3 invocations, one death | `TypeOK`, `ArmClears`, `KeepsContract`, `EveryCallEnds` | 776 000, 45 s |
| `live_page` | 2 threads, 1 window, 2 families, 4 moments, calls of up to one | `TypeOK`, `ServedAge`, `MemoOfThisEngine` | 3 100 000, 80 s |
| `load_soak` | 2 phases with 1 and 2 workers, 2 posts each, 2 samples told apart | `TypeOK`, `CountsAgree`, `ExitTellsTheTruth`, `NothingUnpublished`, `RunEnds` | 285 000, 60 s |
| `reports` | histories of 3 steps, numbers 0 to 2, 2 engines one after another, 2 boxes, 2 lanes of up to 2 requests with pauses of 0 or 1, 2 runs, 3 revisions, sizes on both sides of each rounding | thirteen invariants, one or two for each reader | 367 000, 75 s |

The invariants of `reports`:

| invariant | of |
|---|---|
| `GaugesAddUp` | requests in flight are streams decoding and pre-filling; what an engine does not publish is a dash |
| `SampleIsExplained` | the single-stream number is the rate of a request that was served, in whatever order threads note; or what two neighbouring readings differ by of which one was of another engine, of the same one restarted, or midway through a request of vLLM |
| `RecentCounts` | the hour's tokens across restarts and missed scrapes, and the age of the last |
| `GridKeepsEveryPoint` | every point of a range query is in the cell of its own time |
| `RatesSurviveTheWriter` | no row is lost to the name its writer gives the time; page and archive agree |
| `PageShowsTheRun` | the rows of the running job's directory, none where it has none, and never another job's |
| `ViewsAgree` | exporter and `/api/dispatch` agree on whether a job runs, the throughput block with them if the document names the job, and the job block is active for these and for a job put back |
| `NoFakeZero` | a number on a box's card was sampled on that box; only a clock that is no number silences one |
| `OneSoakView` | page, exporter and archive show one throughput of a phase, made of the same requests |
| `LanesBound` | utilization is at most one, and scaling is the streams kept busy |
| `BestIsBest` | the best of a family is a scored, valid run that none of its preset beats |
| `PlanAgreesWithGate` | a repository is offered exactly when the gate would take one of its revisions |
| `PercentOfTheBytes` | a download's progress is the share that its blobs have, each once, to within the two roundings |

Violated, each a statement of the repository that its code does not keep:

| run | property | what TLC finds |
|---|---|---|
| `restore_exit_status` | `ReceiptTruthful` | the restore believes the exit status that `do_switch` explains must not be believed; the receipt then says baseline while another engine serves |
| `killed_runner` | `DoneMeansExitZero` | a runner that needed SIGKILL has return code `None`, and its job is recorded as done |
| `putback_fault` | `NoJobLost` | the put-back unlinks first; if the write then fails, the exception is swallowed and the job is in no file |
| `measured_listener` | `MeasuredOnWanted` | an incumbent that keeps the port while the unit of the engine asked for is active is what the run measures: the assertion asks for the unit, and the probe for any answer |
| `single_stream` | `SampleIsARequests` | with vLLM's token counter, which moves while a request is in flight, a reading midway through a request makes the sample a rate at which none was served |

Known and not a run. A download that has switched the engine and is then
killed may be refused when its file is taken up again (the disk has filled up);
the refusal returns before the `finally` clause (`dispatcher.py:544-549`) and
the box stays off the baseline with an empty receipt. `dispatcher_recovery`
therefore has evaluations and switches only, which a second validation cannot
refuse; only `dispatcher_defer` has downloads.

Also known, and said with the modules above: a target that missed its health gate
loads beside the engine put back, a half-drawn chart or one of the engine before
is shown while Prometheus fails, presets are ranked together, a clock of `[N/A]`
silences a box, a percentage passes 100.

Bounds. Two jobs are enough for one to find what another left: an engine off the
baseline, a torn file, a receipt. Two engines are the baseline and one a job
names; with an untrusted exit status either may be found where the other was asked
for. The runs of single violations have a third, which is neither. Two processes
are enough for mutual exclusion (and the theorem holds for any number). One fault
of each kind reaches every recovery path once; two crashes of one job repeat the
same paths, since a restarted tick has no memory. In every run the names are fresh
and the history has room for all verdicts; names that collide and histories that
overflow are what the theorems of the next section allow where they do not say
otherwise. Three invocations of `serve.sh` let the third meet a box that two
earlier ones failed on or were killed in. The bounds that count what goes wrong, and
the bound on posts, are guards of the actions that spend them. A run of
`ServeSwitch` stops when its invocations are used up, so deadlock is not checked
there; `Dispatcher` never stops, because the timer always starts another tick.

`LivePage` needs two threads for every race between a test, a store and a second
read, one window since windows share no entry (that none is filed under another is
proved), and enough time for an entry to expire while a call is under way.
`Horizon` bounds the clock, so it stops there. `LoadSoak` has a phase that another
follows, one worker alone and two that race on `errs`; `MaxPosts` and `MaxSamples`
are guards. `Reports` takes one occasion at a time, and its histories are long
enough for two readings around each event, a restart between two scrapes, a tie in
a ranking and a sampler that overflows. `MaxLane`, `MaxRuns` and `Pauses` bound
the lanes of a soak and the runs of an index apart from the other histories.
`MaxLives` and `MaxServed` of 2 let a sampled engine be restarted, or swapped, and
the second one outgrow the counters of the first; the tokens of two requests
already make their rates differ, so `Times` has one value there, and two where a
rate is to be none of a request's (`single_stream`). `BlobSizes` and `HubSizes`
lie around a tenth of a GB and around 2 GB, where a rounding goes up, goes down
and meets a half.

`MaxDrifts` counts deaths and returns together. `dispatcher_defer` begins on any
engine, so one drift is enough for the box to leave the baseline under a receipt that
stands, or for an engine to come back that a failed switch left active. Engines come
back in that run only; that `NamedWhileMeasured` and the other properties of
`dispatcher_safety` hold with returns too, and for explicit switches, is what the
theorems say.

Fairness. `Dispatcher!FairSpec` has weak fairness of each process's own steps:
the timer fires fifteen seconds after each exit (`OnUnitInactiveSec=15`), and
every wait in the dispatcher has a timeout. It has weak fairness of the end of
an outside measurement, without which a deferred job may wait for ever. Posts,
faults, deaths, returns, moves of the port and crashes have none. That a deferral cannot go on for ever
rests on the bound of outside measurements: with one always running the code
defers for ever, which is what it means to do. `ServeSwitch!FairSpec` has weak
fairness of the script, all of whose waits have a budget, and of a stopped
engine letting go of the port. `LoadSoak!FairSpec` has strong fairness of main and
of each worker, because they wait for the lock: the telemetry thread holds it
for one short section and then sleeps two seconds without it, so whoever waits
gets it. It has weak fairness of the telemetry and of the deadline, which is the
clock. A post answers or runs into its timeout of 900 seconds. `LivePage` and
`Reports` claim no liveness.

What the contract run shows, and what it does not. `KeepsContract` compares
`serve.sh` with `Contract(TRUE)`, the reading of exit status 0 under which
`ReceiptTruthful` is proved. It holds for a switch whose own stops worked and
for "already serving" the baseline. Outside that condition (a stop that
failed, a port held for more than a minute) the exit status may lie, and
`restore_exit_status` shows what the restore makes of it. "Already serving"
another engine may also be wrong about `live_engine` while a failed switch has
left two units active; `NamedWhileMeasured` does not depend on it, since
`do_switch` asks again. Nor does the contract promise that the box stays as it
was left: a faithful "already serving" may leave an engine `behind`, and
`ReceiptTruthful` says what follows from that, which is not that the box is on the
baseline for as long as the receipt stands, but that it leaves it only by a death or
by an engine that comes back with nobody asking.

## Proofs

The theorems hold for every set of engines, names, processes, threads, windows
and workers, every bound, every number read and every set of requests that
satisfies the named assumptions of `Dispatcher`, `ServeContract`, `ServeSwitch`,
`LivePage`, `LoadSoak`, `Readings`, `Reports` and `Downloads` (the six engines
of `ServeSwitch` are those of the script). TLC evaluates these assumptions in
every run. Most say that a bound is a natural number or that the value for
"nothing" is none of the real ones; `LoadSoak` also needs a finite set of
workers, as a pool is.

| theorem | statement | inductive invariant |
|---|---|---|
| `TypeCorrect` | `Spec => []TypeOK` | `TypeInv`: types, and a process that is switching or asserting has a job that names an engine |
| `MutualExclusion` | `Spec => []OneTick` | `LockInv`: a process is alive exactly when it holds the flock, and at most one holds it. `OneTick` alone is not inductive, since it does not say that a free lock means nobody is alive |
| `NamedWhileMeasuredAlways` | `Spec => NamedWhileMeasured` | an action property, from `BaseInv`, which is `TypeInv` and `LockInv`: by mutual exclusion nobody else switches while a job goes from the assertion through the probe to its run. Whether the exit status can be trusted does not matter, nor who has the port |
| `ReceiptAlwaysTruthful` | `ServeFaithful => (Spec => ReceiptTruthful)` | an action property, from `BaseInv` and `ReceiptInv`: while a tick may still change the engine its document has no answer yet, so a "no" is only ever next to an engine that nobody is changing but itself. For every set `Returning` |
| `ReceiptAlwaysKept` | `Spec => ReceiptKept` | an action property, from the type invariant; the blank document of a tick that is killed before it names its job included |
| `DoneAlwaysAccountedFor` | `Spec => []DoneIsAccountedFor` | `DoneInv`: past the `finally` clause the answer is there, unless the job was refused, which is published as failed |
| `RunsAlwaysBounded` | `Spec => []RunsBounded` | `RunsInv`, with `JobsInv` |
| `LostOnlyThere` | `SafeQueue` implies `Spec => LostOnlyInPutBack` | `JobsInv`, `HistoryInv`, `FileKept` |
| `NoJobEverLost` | `KeepsJobs` implies `Spec => []NoJobLost` | `BoardInv` |
| `BoardImplemented` | `KeepsJobs` implies `Spec => ImplementsBoard` | `BoardInv` |
| `SwitchTypeCorrect`, `ArmAlwaysClears`, `ContractAlwaysKept` | `Spec => []TypeOK`, `[]ArmClears`, `KeepsContract` of `ServeSwitch` | `SwitchInv` |
| `PageTypeCorrect`, `ServedAgeAlways`, `MemoAlwaysOfThisEngine` | `Spec => []TypeOK`, `[]ServedAge`, `MemoOfThisEngine` of `LivePage` | `IInv` |
| `SoakTypeCorrect`, `CountsAlwaysAgree`, `ExitAlwaysTellsTheTruth`, `NothingEverUnpublished` | `Spec => []TypeOK`, `[]CountsAgree`, `[]ExitTellsTheTruth`, `NothingUnpublished` of `LoadSoak` | `SoakInv` |
| `ViewsAlwaysAgree`, `NeverAFakeZero`, `PercentAlwaysOfTheBytes`, `GaugesAlwaysAddUp` | `Spec => []ViewsAgree`, `[]NoFakeZero`, `[]PercentOfTheBytes`, `[]GaugesAddUp` of `Reports` | none: each input is read afresh |
| `PageAlwaysShowsTheRun`, `PlanAlwaysAgreesWithGate`, `GridAlwaysKeepsEveryPoint` | `Spec => []PageShowsTheRun`, `[]PlanAgreesWithGate`, `[]GridKeepsEveryPoint` | none; they rest on the three theorems of the last row |
| `RatesAlwaysSurviveTheWriter`, `CountsAlwaysRight` | `Spec => []RatesSurviveTheWriter`, `[]RecentCounts` | none |
| `SampleAlwaysExplained` | `Spec => []SampleIsExplained` | none; `single_stream` shows that the exceptions it names are needed |
| `LanesNeverPastFull`, `ASoakIsShownOnce` | `Spec => []LanesBound`, `[]OneSoakView` | none |
| `TheBestIsTheBest` | `Spec => []BestIsBest` | none |
| `PlanIsTheGates`, `RunDirIsItsOwn`, `GridLosesNothing` | about `hf_plan`, `find_run_dir` and `on_grid`, for all arguments | |

### What becomes of the jobs

`JobsInv` is the base of this part. No job is in two files, the one in hand is
in no file but its own, only posted jobs are anywhere (`FileInv`), and a tick
past `finish()`'s first step has its verdict in the history.

`RunsBounded` counts verdicts of one job. It becomes inductive once a job that
may yet be finished (`Pending`: in a file, or in hand) counts as one verdict
more: a verdict takes the job out of `Pending`, and only a kill or a failed
rename puts it back, which is what the right-hand side pays for. Nothing else
is assumed; job ids may collide and the history may overflow.

Losing a job is different. The code does lose one when a put-back is cut short
(`putback_fault`), when two posts share an id, and when the history overflows
before the job is looked for. `SafeQueue` excludes the last two: names are
fresh, and the history has room for every post and every rerun, so the theorem
speaks of a span of up to two hundred verdicts. That the room is enough is
itself proved (`HistoryInv`: every verdict but the first of a job has used up a
failure). Under `SafeQueue` alone `LostOnlyThere` says that the put-back is the
*only* place: no other step, kill or failed operation of the dispatcher loses an
accepted job. `KeepsJobs` adds that no put-back can be cut short: either nothing
is ever measured outside the queue, so that nothing is put back, or nothing is
killed and nothing fails. `dispatcher_recovery` is an instance of the first case
and `dispatcher_defer` of the second, where a deferred job that vanished would be
no step of the board; `dispatcher_safety` is one of `SafeQueue` alone.

Under `KeepsJobs` the dispatcher implements `JobBoard`, each step of a tick
being one of the board's or none. The lemmas `TickOnBoard`, `PostOnBoard` and
`WorldOnBoard` say which. The step that needs most is the end of `serve.sh`: the
board lets the engine change only while a job owns the box, and `FileKept` with
mutual exclusion says whose it is.

### serve.sh

`SwitchInv` is `TypeOK /\ ArmInv /\ ClearInv /\ FailInv`. `ArmInv`: while an arm
stops the others, whatever is active or about to restart is the target or will
be stopped by a helper still to be called (`Covered`). That is why the order of
the helpers does not matter and their completeness does; `ArmFacts` checks the
six arms of the script for it. `ClearInv`: from the last poll to the end of the
health gate the box is the target's. `FailInv`: the way back is never taken with
exit status 0. For the contract, `NamesAlone` and `NamesBaseline` say when
`current()` and `live_engine` agree: on a box with one engine, and on the
baseline, which `current()` asks for last.

### The live page

`IInv` of `LivePageProofs` is `TypeOK /\ Filed /\ InTime /\ Kept`. `Filed`:
charts and documents are filed under their own window, none is from the future,
and an entry is dated at most `CallMax` after the call that made its document
began. That last part is what `ServedAge` needs and does not say: the document
and its date are stored in two steps, and a slow thread's document may be dated
by a faster one. `InTime`: a call is no older than `CallMax`, and one that
passed the test of `Look` has seen a document young enough, whatever is stored
before it reads again. `Kept`: a call stores the chart it drew, and where no two
calls stored one at once (`clash`) at most one is storing, what it has stored so far
is its own, and when it has done, what is filed with the chart is that chart's family
and moment (`Matched`). `MemoOfThisEngine` follows, since `ChartFresh` compares what is
filed. The proof has one lemma for each of the four parts, with one step per action.

### The load soak

`SoakInv` has a part for each thing the threads share.

- `MainInv`: where main is and which phases have results.
- `LockInv`, `FdInv`: every `write_state` but main's first holds the lock from
  end to end, and a writer has a file and a text exactly while it fills it.
- `CountInv`, `OkInv`, `TotalInv`: as long as no worker is lost, the log is the
  window and the workers between their row and their count; a phase has a
  failure if and only if it counted an error or one is about to be; the totals
  are the requests of all phases. `CountsAgree` follows at the join, when all
  workers are out. The increments of `errs` race and may lose one, so what is
  inductive is whether it is zero and not what it is.
- `FileInv`: no document is ahead of the run (`Documents`); a writer whose open
  file was renamed under it carries a text from before the first result
  (`Slipped`); and once a result is published each writer has a temporary file
  of its own and a text that says no less than `state.json` (`Safe`). This is
  why the unlocked first write, which can tear the file or kill main, can take
  nothing back.
- `LastInv`, `ExitInv`: what the last write holds stays until the verdict, and
  exit status 0 is main's.

### The readers

What an exposition says is handled through the *set* of values it carries under
a name (`Carried`, `CarriedConcat`, `ReadsCarried`), which reduces parsing a
concatenation of gauges to unions. `SumOne` and `SumTwo` add up the lines of
a gauge with at most two of them, `Spelling` that both families' names lead to the same
fields, and `RoundNear` bounds Python's rounding.

Three results are about operators for all arguments and are also what the
invariants of their readers rest on. `GridLosesNothing`: for every window, step
and start, a point less than half a step off is in its own cell and every other
cell is a gap; `RunDirIsItsOwn`: the running job's directory is found among those
of any number of jobs, provided no id is another's followed by a hyphen;
`PlanIsTheGates`: the plan of a repository and the gate of the post agree.

The other invariants speak of sums, filters, sorts and means of sequences of any
length. The library's induction theorems cannot be used (they take an operator),
so `ReadingsProofs` gets its inductions out of two facts proved once about *sets*:
a set of naturals that has 0 and the successor of each of its members has them all
(`EveryNat`, from the least element of its complement), and a set of subsets of
`1..n` that has `{}` and grows with one element has them all (`EverySubset`). Each
induction is then an instance, with a set comprehension for the predicate.

- *Folds and sums.* `FoldExists` and `FoldSame` unfold the function a fold of the
  community modules is chosen to be; `SumRemove`, `SumJoin`, `SumLeq`, `SumSupport`
  and `SumMoved` are the sums over finite sets of indices.
- *Filters.* A filter is the sequence at some of its indices; `OnlyAt` says that it
  keeps their order and misses none, `OnlyHolds` the same of the elements.
- *Sorts.* `FirstOrder` makes of "goes before" and the positions a strict linear
  order, `PlacesAre` a permutation of it, and `SortIs` says that a sorted sequence
  is the same one in an order in which none goes after one it goes before.
  `AheadOrder` is that the key of the ranking is such a relation.
- *Rates.* `MeanIs`, `MeanSame` (the mean of equal rates is that rate) and
  `MedianIs`, with `RankIs`, that the upper median is one of the values.

What each theorem needs beyond them. `CountsAlwaysRight`: between two scrapes
without a restart the counter rises by what was made, and with one by no more
(`CounterRises`). `SampleAlwaysExplained`: a sample is what two readings noted one
after the other differ by, in the count by one (`SamplesAre`, `LifeCounters`); if
both are of one life and neither is midway, that one request is the difference
(`QuietMoves`), and if not the difference is one of those the property names. The
median of the samples is one of them. `LanesNeverPastFull`: a lane's requests do
not overlap, so their times add up to no more than the wall clock (`LaneFull`,
`LanesFull`). `ASoakIsShownOnce`: every usable request has one shape, so the
shapes' counts add up (`ShapesAddUp`). `TheBestIsTheBest`: the elements of the
index are followed through its four filters and two sorts (`RunsAre`,
`EntriesAre`, `FirstOfSorted`).

The proofs take the value for "nothing" to be none of the documents, rows, rates,
names and indexes it stands beside (`DocumentAssumption`, `NameAssumption`,
`IndexAssumption`), as Python's `None` is.

### Only model-checked

- Liveness (`EverySettles`, `BoxComesHome`, `NoGhostRun`, `EveryCallEnds`,
  `RunEnds`) and whatever needs `ENABLED`: out of the prover's reach. Every
  invariant and every action property of a passing run is a theorem.
- What the readers' operators compute for sequences that `Reports` never builds:
  the theorems cover the inputs of its actions, whose lengths and numbers are
  arbitrary, and not every value of the right type. An index of `RankRuns` has one
  evaluation family, and one age for all runs, so that the order by time is shown
  to lose nothing and not to order.

## Not modelled, and what is left

- Rendering (`ui_chrome.py`, `static/`) and the operator scripts: no shared
  state.
- `do_eval`'s loop (timeout, SIGTERM, SIGKILL, log tails) and `_publish_run`:
  one start and one end in `Dispatcher`. A refinement of `EvalEnds` is the next
  thing to write.
- Two posts of one id at one moment, which share `atomic_json`'s temporary name.
- The spark cache of `live_metrics`, which stores and tests as `series` does,
  and half-drawn charts (see `LivePage`).
- PromQL, wording, the rounding of rates, compression, static routes, tokens, the hub's
  search: formatting, or decided by others.
- `history.json` half-written while it is read; the flat index and the coverage
  texts of the archive; a disk that fills up under the soak's `write_state`; a
  size estimate that is not a number, which `download_allowed` lets through.
- `registry.build` and model discovery: read and format.
