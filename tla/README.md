# qmtserver in TLA+

qmtserver is a gateway server in front of MiniQMT (the `xtquant` package: `xtdata` for quotes and
history, `xttrader` for orders). It is a FastAPI application: nearly all endpoints are plain
functions, so requests run in the threads of a pool; downloads run in daemon threads; quotes and
order callbacks arrive in threads of `xtquant`; only the event bus lives on the asyncio loop. This
directory holds TLA+ models of its components, the TLC runs that check them, and TLAPS proofs.

Paths such as `data/jobs.py` are relative to `src/qmtserver/` of the repository.

## 1. Inventory

| component | state | operations | interacts with |
|---|---|---|---|
| Download jobs (`data/jobs.py`, `data/job_results.py`, `data/repository.py`) | tables `data_jobs`, `data_job_chunks`, `data_files`, `data_coverage` | submit, worker, retry-failed, get, list | coverage planner, Parquet writer, xtdata |
| Coverage and chunk planning (`data/coverage.py`, `data/chunks.py`) | none | gaps of a request, chunks of a range | reads `data_files` |
| Parquet files (`data/files.py`) | directory `raw/bars` | write the bars of a chunk | called by the jobs |
| Maintenance (`data/maintenance.py`, `data/compaction.py`, `data/cli.py`) | files and tables above, exports | check, cleanup, rebuild-index, compact | command line, next to the server for exports only |
| Local queries (`data/query.py`, `data/readers.py`), quality (`data_quality/`) | none | paging, deduplication, report | DuckDB, `data_files` |
| RPC endpoint (`rpc/`) | none besides the request | decide, validate, call, count, audit | trading guard, xtdata, xttrader |
| Trading guard (`trading.py`) | counters of the day, a lock | check, count | RPC endpoint |
| Subscriptions (`market/subscription_*.py`) | records, latest quotes, `_event_seq` | create, stop, recover, quote callback | xtdata, event bus |
| History jobs (`jobs/`) | in-memory registry, a lock | submit, cancel, worker | snapshots, xtdata |
| Snapshots (`snapshots/`), exports (`data/exports.py`) | data file and manifest for each id | create, read, delete | market data, local queries |
| Event bus, WebSocket (`events/`, `api/routes_ws.py`) | recent events, client queues, sequence | publish, publish_threadsafe, subscribe, send | everything that announces something |
| Order store (`orders/store.py`, `miniqmt.py`) | bounded deques | callbacks, listings | event bus |
| MiniQMT lifecycle (`services/qmt_service.py`) | quote client, trader, state | connect, reconnect, disconnect, get_target | xtdata, xttrader |
| Stateless parts | none | market and trader queries, serialisation, diagnostics, client, configuration, command line | |

Which behaviours are hard, and what makes each component correct:

* **Download jobs.** Threads of one job or several interleave between SQL statements (each opens its
  own connection and commits on its own), chunks fail one by one, clients retry and poll at any time,
  the process dies and nothing resumes the work. Correct: a job's status, its `partial` flag and its
  report are the verdict of its chunks, a chunk that reports a file has it in the index, nothing that
  succeeded runs again, a job answered from the cache is covered without holes, every job ends.
* **Planning and queries.** Boundaries (a day more or less), overlapping files, a list that grows
  between two pages. Correct: gaps and chunks tile what is missing, paging misses nothing, both
  engines agree.
* **Files, index, maintenance.** A command is many file operations and statements; it may die between
  any two, and in the middle of a file. Correct: recorded bars are never lost; a finished rebuild
  makes tables and directory agree.
* **RPC endpoint and trading guard.** Checks and counts are separate critical sections, with a slow
  call that may fail and midnight in between; the transparent mode opens methods outside the table.
  Correct: nothing is traded that was not allowed and confirmed, no more than the limits allow, and the
  audit says what happened.
* **Subscriptions.** Nothing is locked; requests, callbacks and failures of xtdata interleave.
  Correct: no handle is left behind, a stopped subscription stays stopped, quotes
  are published in the order of their numbers.
* **History jobs, snapshots, exports.** Cancel races the worker; look-up, data file and manifest are
  separate steps, next to a clean-up by another process. Correct: a manifest describes its data file
  and stays what a client was answered, an export is whole or absent.
* **Event bus.** Several threads publish through the loop, slow clients lose events, clients vanish.
  Correct: a client sees the published events in order, and loses the oldest ones only.
* **Lifecycle.** Overlapping connects and disconnects. Correct: no trader is left behind, and the one
  `get_target` hands out runs and is connected.

`PROJECT.json` lists every component with its status, and under `hazards` the places where this code
is hard to test.

## 2. Plan

| step | module | about | state |
|---|---|---|---|
| 1 | `DownloadJobs`, `JobReports` | download jobs on their tables, crashes, retries; reports and polls | done; 10 theorems |
| 2 | `DataLake` | files, index, maintenance commands, crashes | done; 4 theorems |
| 3 | `TradingGuard`, `RpcDispatch` | order limits; the endpoint around them, shown to implement the guard | done; 10 theorems |
| 4 | `Subscriptions` | handles, status, order of quotes | done; 1 theorem |
| 5 | `CoveragePlanner`, `LocalLake`, `DataQuality` | gaps, chunks, paging, both engines, report | done; 7 theorems |
| 6 | `ArtifactFiles`, `Snapshots`, `Exports` | data file and manifest, history jobs, deletion and clean-up | done; 4 theorems on `Snapshots`, 5 on `Exports` |
| 7 | `EventFeed`, `Events` | what the stream promises, the bus that implements it and the handlers of clients | done; 4 theorems |
| 8 | `QmtLifecycle` | connect, reconnect, disconnect | done; 3 theorems |

Every invariant and action property that a passing run checks is also a theorem (section 4). Liveness
stays with TLC. The properties the code does not keep are in section 5.

How the modules build on each other:

    JobReports  -> DownloadJobs                Snapshots -> ArtifactFiles
    RpcDispatch -> TradingGuard                Exports   -> ArtifactFiles
    DataQuality -> LocalLake -> CoveragePlanner    (with DataLake in DataLake_proofs)
    Events: INSTANCE EventFeed (refinement)    RpcDispatch: GuardIsKept (refinement)

## 3. The modules

Each component `X` has an `MCX` with its symmetry set and constant definitions, and an `X_<run>.cfg`
for each of its runs; `TradingGuard` is checked as part of `RpcDispatch`, `CoveragePlanner` and
`DataQuality` as part of `LocalLake`. Some definitions of a module are faulty variants of the definition below them, with a comment that
says which mistake they make; no specification uses them. They are there to confirm that each
property notices such a mistake. Symmetry is used in runs without liveness properties only.

`CHECK_DEADLOCK FALSE` stands where a run ends: its clients have made the requests the bounds allow,
and the server then rests.

### DownloadJobs

The bars of some symbols (of one kind, period and adjust), cut into `NSlices` slices; a slice is the
date range of one chunk of the symbol `SymbolOf[s]`. A thread is a request thread or the worker it starts: `Submit` takes the decision
of `submit_download`, `CreateChunk` is one INSERT, and so on; each action is one SQL statement (the
connection lock of `data/backend.py` is held for a statement) or one call of xtdata, with the local
code around it. `data_files` is a set of pairs `<<slice, content>>` because its key is the hash of the
bars; `summary` is `file_count` of each symbol in `data_coverage`. `pc`, `op`, `mine`, `todo`, `at`,
`failures`, `got` and `seen` are the locals of a thread. `Crash` clears the locals and keeps the
tables.

Abstracted: dates (a slice is covered exactly if a file of it is recorded; the calendar is the
subject of `CoveragePlanner`), row counts, attempts, error texts, and SQL statements that fail for
reasons other than a primary key. In ensure mode each slice of a gap is a chunk of its own.

Run `jobs_hostile`: 2 jobs over 3 slices of one symbol, 2 threads, 1 overlapping retry, 1 crash. Chunks that report
a file are indexed, cached jobs are covered without holes, the coverage row never overcounts. Two jobs
and two threads are enough for the interference the tables allow (they share `data_files` and
`data_coverage` only), three slices for a hole. Every request names the whole range, which keeps the
instance small and still gives holes: a chunk fails, or MiniQMT has no bars for it.

What the tables do not give in this instance, because a retry may overlap with the worker and a
download may be forced, is in section 5.

### JobReports

The reports on top of `DownloadJobs`: `stored` is `result_json`, `tally` what a thread has counted,
`polled` the job row a poll has read before it reads the chunks. Clients retry a job only when nobody
works on it (`SerialClients`); that is why the SELECT of the chunks and the UPDATE of the last report
are one step, and an assumption of the theorems on the reports. A report has the result of each symbol
and its gaps; a symbol of the request that has no chunks, because the planner found it covered, gets a
gap over its whole range there (`ChunkGaps`). Row counts follow file counts and are left out.

Run `jobs_serial`: 2 jobs, 2 threads, 2 slices of two symbols, requests for both and for the first,
1 retry, 1 polled job (about 256 000 states). The stored report accounts for the chunks of all runs,
status and `partial` are the chunks' verdict, two successive answers of a poll do not contradict
each other, what succeeded is not run again, every job ends. Two slices give a job with one good and
one bad chunk, nested ranges give cached and partly cached requests, and with two symbols an ensure
job has one that needs no chunk.

In this instance a symbol has one chunk; that the result of a symbol with several follows all of them
is in the theorem (section 4). That a symbol without chunks is reported as failed is in section 5.

Fairness: `WF(Work(t))` for each thread. Work is local code, a statement under a lock that is always
released (`_LockedDuckDbConnection.close` in a `finally`), or a call of xtdata, which is assumed to
return or raise. Requests and polls are not fair. There is no crash in this run: nothing resumes
after one (section 5).

### DataLake

The Parquet files of one symbol in several series, their tables, and the commands. `disk` maps a path
to rows or to `Torn`; rows are a function from dates to bars. A downloaded file's path contains the
hash of its rows, a compacted one's the series and its first and last date; this is what the
finding rests on. `coverage` is the merged row of a series. A command is a sequence of actions, any
prefix of which may be followed by `Crash`. Commands and downloads do not overlap
(`docs/operations.md:411`). `acked` is a history variable: what a download has recorded.

`reckless` is another: it is set when a compaction is started although an output path is taken, when
orphans are cleaned up although the last command was not a completed rebuild, and when the process
dies while a download writes its file. `RecordedBarsStay` is about runs without any of these: a file
that is downloaded again is truncated in place, a second compaction deletes its own output
(`lake_recompact`), and a clean-up deletes what a rebuild that stopped half way did not register. Row
counts are left out.

Runs: `lake_commands` (2 series, 2 dates, 2 bars, 3 downloads, 3 commands, 1 crash, torn files: a
finished rebuild leaves nothing to report, registered files exist, recorded dates are not lost) and
`lake_recompact` (1 series, no crash: a finding). Two dates give disjoint, nested and equal ranges;
three downloads give a compaction of two files and one after it. `MergeGroup` reads in every order the
query allows.

### CoveragePlanner, LocalLake, DataQuality

`CoveragePlanner` holds the gap sweep of `CoveragePlanner.plan` and the chunks of
`plan_download_chunks` as operators over integer times without holes. For daily bars the next value
after an end is the next day, for intraday bars it is the same instant, as in the code. The gaps, a
list in the code, are a set: nothing depends on their order. `LocalLake` adds the files of
a series, each with the bars of finitely many times, the SQL reader and the Python fallback as operators that give a set of possible pages
(files that agree on symbol and first time come in any order, and which of two bars of one key is
kept is left open), and a client that follows `next_offset` while `Record` adds files. A page is one
action: the list of files is the only shared state it reads. The specification is `ReadSpec`, so that
it can stand beside the `Spec` of `DataLake`. `DataQuality` is the report computed
from the first page.

Abstracted: compact date strings, a coverage that is NULL, forced downloads that replace a file.

Run `local_pages`: 2 symbols, 3 times, 2 prices, up to 2 files, limits 2 and 5 (below and above the
largest page, 3), chunk lengths 0, 2 and 9 days (0 and 9 are clamped). Every lake of that size is
reached, and in it every request is planned: two files overlap, touch, nest or leave a hole, on three
days a hole lies before, between or behind them, and one page is not enough. Paging misses nothing and
repeats nothing while the lake rests; the engines agree; gaps and chunks are exact for daily bars and
never too small for intraday bars; an ensure download that has finished finds nothing missing; the
quality report names exactly the weekdays without bars and the bars that are bad.

### TradingGuard

`CheckOrder` is `_validate_order` and `check_order` (the counters are reset when the day changed),
`CallXtquant` the look-up of the target and the call, `RecordOrder` the count. An order is a function
from the measures (volume, amount) to a number; amounts are natural numbers, not floats. An exception
means that the order was not placed. `Threads` is finite and not empty: the overrun is counted in
threads. `placed` and `overlapped` are history variables; the second one
says that an order was let through while another one was under way.

Its properties are checked where its steps are taken by requests, in the run of `RpcDispatch`: the
limits hold as long as orders do not overlap, with cancellations and refused orders at any moment;
every trade is counted; the overrun is at most one order for each other thread. They are proved for
the guard by itself, whatever requests there are.

### RpcDispatch

The endpoint around the guard: `Decision` is the table of methods and the transparent mode, `Validate`
and `ValidateConfirmation` are `prepare_trading_call` up to the daily limits, and the actions are the
steps of `dispatch`: refusal, dry run, look-up, call, count, audit. The trading steps are steps of
`TradingGuard`, whose variables are shared; `GuardIsKept` says that nothing else happens to them. Names
of methods, accounts and symbols are constants, `wellFormed` stands for the argument checks, and
`level` is the level the audit writes (`"unknown"` when the method may not be called). `took` is a
history variable: xtquant took the order of the thread.

Run `rpc_calls`: 2 threads, 13 calls, 19 settings, volume and amount, 2 days (about 600 000 states).
The calls differ in whatever a check looks at, one at a time: account, symbol, limit, confirmation,
arguments, target, a method that is not in the table with and without a trading marker. Of the orders
two reach the limit of a day by volume or by amount, and one exceeds the limit of an order by volume
only; two threads give an overrun, two days a midnight between any two steps. The settings are those of
the switches `enable_trading` and `trading_dry_run` with and without confirmation, a list of symbols,
and the transparent mode at two degrees; what else it can be opened by is combined with dry runs.

### Subscriptions

Records (`status`, `handles`), what xtdata serves (`live`), and the requests' locals. Each call of
`subscribe_quote` and `unsubscribe_quote` is one action, and so are the read and the write of
`_set_status` where the write keeps what was read. A quote is taken and numbered, cached, published:
three actions, because several threads deliver quotes. `Activate` writes all it changes and reads
nothing it keeps, so it is one action. All subscriptions name the same symbols.

Run `subscriptions_requests`: 2 ids of two symbols, 2 clients, 5 requests, any call of xtdata may
raise. Five requests are enough for create, stop and recover of both ids to overlap with failures
between them; `OnePerId` says that clients wait for an answer before they name an id again. `astray`
is a history variable: the handles an exception left behind, those subscribed before the symbol that
failed and those cancelled before the handle that could not be. They do stay apart from the record,
which no document rules out, so `LiveHandlesAreKnown` exempts them and them only.

Three properties of the module are not kept (section 5). Without `OnePerId` a client may stop a
subscription that another one is still creating, as a record is listed before it is subscribed, and
the creation then writes "active" or "degraded" over "stopped". An exception of xtdata ends a stop
before the status is written. And two threads of xtdata may number their quotes and publish them in
the other order.

### EventFeed, Events

`EventFeed` is the promise: one log, a cursor for each client that only moves forward, a client that
lags more than `Lag` events loses the oldest. `Events` is the code: callbacks that record an order and
then publish it (`hand` is between the two), `publish_threadsafe`, which gives the loop a call that
makes a task, the task (`publish`: number, cache, queues), and the handler of a client, which takes
from its queue, sends, or drops the queue when the send raises. On the loop a callback or task runs to
its next await; `publish` awaits nothing that waits. `Events` implements `EventFeed` with the cursor
`Len(log) - Len(queue[c])`.

Abstracted: trades and errors, whose deques are like that of orders; closing a socket is the client's
doing.

Run `events_stream`: 2 threads and the loop, 2 clients of which one wants orders only, queues, cache
and store of 2, 3 events (`MaxEvents`). Three events overflow a queue of two, in front of and behind an event that
is skipped; two threads and the start of the server give the overlaps of hand-over and loop.

`GoneClientsAreForgotten` says that the queue of a client that left is given up unless its handler
skips unwanted events for ever. The exception is real: each unwanted event starts the wait for a
heartbeat anew (`api/routes_ws.py:34-36`). A run has finitely many events, so TLC checks the rest of
it: whatever is queued when the client leaves and whatever comes later, once the events end the send
of a wanted one or a heartbeat notices.

Fairness: the loop runs what is ready (`WF(RunReady)`), and the handler of a client that is gone
(`WF(conn[c] = "gone" /\ Handle(c))`): its wait ends by itself and its sends raise. A client that is
there may read as slowly as it likes.

### QmtLifecycle

`connect`, `reconnect` and `disconnect` call by call, in several threads, against a MiniQMT that
answers yes or no or raises, and that may drop a connection (`Drop`). `trader` is a number, because
the code speaks of `self.trader` in each step, whoever made it; `made`, `started`, `linked` and
`quoteUp` are the outside world. Exceptions of `stop` and `disconnect` are suppressed as in the code;
`stuck` remembers them. `overlapped`, `everOverlapped` and `dropped` are history variables.

Run `lifecycle_requests`: 2 threads, 3 requests, 1 dropped connection; a trader and an account are
configured, and quotes are switched on or off (`connectQuote`, which is `QMT_CONNECT_QUOTE` and stays as
it is at the start). Requests that never overlap leave no trader and no connection behind; the status
and the last event are true of xtquant again as soon as one request has run alone. With quotes off a
connection that succeeds rests as `partial`, as `_mark_success` wants a quote for `connected`, and
announces `qmt_connected`; with quotes on `partial` means that the trader failed, and the last event is
`qmt_error`. Requests that overlap may leave a trader running that the service does not know (section 5).

### ArtifactFiles, Snapshots, Exports

`ArtifactFiles` is the creation of a data file and its manifest, opened (and truncated), written in two
parts, read back, each step by itself. A part says from which answer of the bars it is.

`Snapshots` adds the requests and the history jobs: submit, cancel, run, mark. Jobs and their registry
are gone after `Crash`, files stay as they were. `mark_succeeded` is seen in two steps, because those
who read a job do so without the lock. Run `snapshots_jobs`: 1 client and 1 job on 2 snapshots with 2
possible answers, 3 requests, 1 restart, any step may raise. Two threads are what a race on one
snapshot takes; two answers tell a data file from one made of two creations. `ManifestDescribesData`
and `AnswersStayTrue` exempt the snapshots of which two creations were under way together
(`overlapped`). A job that has ended has a final status, and a result exactly when it succeeded.
Fairness: `WF(Work(j))`, a job's thread runs as long as the server does. Run `snapshots_cancelled` (a
finding): a job cancelled while it is queued runs all the same.

`Exports` adds deletion, and the clean-up command, a process of its own that lists files and deletes
them afterwards. The server runs on Windows, where a file open for writing cannot be deleted: the
deletion raises. Run `exports_cleanup`: a CSV and a Parquet export, 2 threads, 3 requests, 1 clean-up,
1 crash, 1 answer. Three history variables name the exports that `WholeOrAbsent` exempts: `overlapped`,
those whose creation overlapped with a deletion, a clean-up or another creation; `broken`, those an
exception, a crash or an interrupted clean-up left half-way; `stripped`, whole Parquet exports whose
manifest a clean-up deleted as an orphan. The other properties exempt `overlapped` only, and what they
say of the clean-up they say of CSV exports. That the clean-up takes the manifest of a whole Parquet
export is in section 5.

## 4. Theorems

All are proved for every value of the constants that satisfies the named assumptions of the modules:
any number of threads, jobs, clients, ids and requests, any bounds. Some assume what the runs of the
same properties assume as well: clients that wait (`SerialClients`, `OnePerId`), and no crash
(`MaxCrashes = 0`) where section 5 tells what a crash breaks.

`DownloadJobs_proofs`, for `DownloadJobs` and `JobReports`:

* `TypeCorrect`: `Spec => []TypeOK`, one step for each action.
* `SucceededChunkCorrect` and `CachedJobCorrect`: `SucceededChunkIsIndexed` and `CachedJobIsCovered`.
  Neither is inductive. `IndexInv` follows the bars: a thread past its INSERT of a file works on a slice
  that is in the index, and a thread on the cached path holds a job whose wanted slices are all in it.
  As nothing removes rows from `indexed`, both facts are stable under the steps of other threads and
  under `Crash`, which forgets the thread.
* `SummaryCorrect`: `SummaryNeverOvercounts`, with threads that read, drop and put the row at once. Its
  `CountInv`: what a thread has read was the count of files of its symbol that are in the index, and its
  own new file was not among them.
* `RestingJobCorrect`, `SucceededJobCorrect`, `SucceededChunksKept`, for clients that wait and no crash.
  `SerialInv` says that a job has at most one thread (`Alone`) and what each step of that thread knows
  of its chunks (`Phase`): which it has still to run, which have ended, and whether one has failed.
* `StoredReportCorrect`, `PollsCorrect`, for clients that wait (`ReportsSpec` has no crash). `ReportInv`
  adds that a first run has counted the files of each symbol of its job (`TallyIsTrue`), that chunks are
  planned of what was asked for only (`WantedOnly`, so each of them is in the result of a symbol;
  `ReportsAreTrue` derives from it that the reports are right when they are made), and that a partial report,
  stored or read by a poll some steps ago, names every chunk that has not succeeded (`Fits`): chunks
  that are not settled only become fewer, so an old report errs on that side until the job rests.
* `ReportsKeepToJobs`: `ReportsSpec => Spec`, whatever clients do, so what is proved of the jobs holds
  with reports and polls.

`RpcDispatch_proofs`, for `TradingGuard` and `RpcDispatch`:

* `TypeCorrect`.
* `DailyLimitHolds`: `Spec => []DailyLimit`, where `DailyLimit` is the limit for runs without
  overlapping orders. The invariant is `~overlapped => LimitInv`: at most one thread holds an order, for
  a checked order there is room on the current day, what was placed today is counted but for the order
  in the thread's hands, and nothing is placed on a future day, which is what midnight needs. Threads
  that cancel hold no order, and a refused order only refreshes the counters, so neither disturbs it.
* `TradedIsCountedHolds` and `OverrunBounded`, however orders overlap. `OverrunInv` is about sums over
  threads: what is counted and what is under way together stay within the bound. The sum is a fold over
  a set; its laws are derived from the definition of the fold by induction over finite sets, in the form
  of a set of good subsets that holds the empty set and grows by one element at a time.
* `GuardKept`: `RpcSpec => GuardIsKept`, that is, the endpoint implements `TradingGuard`. Every step
  of a request is a step of the guard or leaves it alone; no invariant is needed.
* `EndpointKeepsDailyLimit` and `EndpointOverrunBounded`: with `GuardKept`, what is proved of the guard
  holds at the endpoint.
* `RpcTypeCorrect`, `OnlyConsentedTradesHolds`, `AuditIsTrueHolds`. The invariant `Tracks` tells for each
  step of a request what its thread holds in the guard (an order only on a trading level, past a check
  only for a call that was consented to) and what is noted for the audit. `ValidIsConsented` is the
  lemma about the checks: a call none of them refuses is allowed and confirmed.

`Events_proofs`:

* `TypeCorrect`, and `FeedImplemented`: `Spec => ImplementsFeed`. The invariant `FeedInv` says that each
  queue is the end of the log (`EndOfLog`), numbered as in the log, and no longer than `QueueSize`.
  The lemmas `GrowsWithLog`, `TakesFromLog` and `EmptyEndsLog` keep it when an event is put, with or
  without loss, and taken; `FeedSimulation` maps each step to a step of the feed or to a stutter.
* `OrderKept`: `ThreadsKeepTheirOrder`. `OrderInv` says that what a thread published, then what the loop
  has to run of it, then what is in its hand follow each other. In the loop's list a later event may
  stand before an earlier one, but only a call before a task (`InOrder`), and the task runs first.
* `PublishedIsStored`: `PublishedOrdersAreStored`. `StoreInv`: each order that was handed over or
  published is in the store, unless the store is full of newer ones.

`Snapshots_proofs`:

* `TypeCorrect`, `ManifestCorrect`, `AnswersCorrect`, `EndedJobCorrect`. The invariant `SnapInv` follows a
  creation: while an id is created by one thread at a time, the step of that thread tells what its
  files hold (`Filled`), and there is no manifest that could be read, so nobody was answered with one
  (`Sound`). A manifest that somebody was answered with is therefore never written again, and a crash
  in the middle leaves none that could be read. `Progress` relates the step of a job's thread to its
  status and result.

`Exports_proofs`:

* `TypeCorrect`, `WholeOrAbsentHolds`, `DeletedIsGoneHolds`, `CleanupSparesTheWholeHolds`. `ExportInv` says
  of an export nothing overlapped with (`Sound`) who is at work on it and what its files hold: its
  creator is alone with it and has filled them as far as its step says; its deletion has removed the
  data file before the manifest; and what a clean-up has in its plan is still there for the same reason,
  for a CSV export all that is left of it (`AllListed`), an orphan without its other file
  (`OrphansOnly`).
* `NoOrphansAfterCleanup`: `CleanupLeavesNoOrphans`. `CalmInv`: during a clean-up with no request served, a
  CSV export either is in the plan with all that is left of it, or has both files or neither.

`DataLake_proofs`:

* `TypeCorrect`, `RebuildCorrect`, `RegisteredFilesCorrect`, `RecordedBarsCorrect`. The arguments share what
  a command holds at its steps (`Held`) and that the path of a downloaded file determines its rows
  (`PartsSound`). `RecountInv` follows a rebuild: the files registered so far are those that the coverage
  rows count and span. `TruthInv` says which rows of `data_files` may differ from the disk while a command
  runs and no process has crashed. `KeepInv` says where recorded bars are while a file is written, files
  are merged, and their sources deleted. That a finite set of dates has a least and a greatest one is
  proved first, for the rows of the coverage table.

and, for `CoveragePlanner`, `LocalLake` and `DataQuality` (`ReadSpec`):

* `GapsExact`: `GapsAreExact`. The sweep is a fold over the sorted segments of a symbol. Its laws are
  derived from the definition of the fold: it goes through one state for each segment (`SweepTrace`), by
  induction over numbers in the form of a set of good numbers. What each state keeps is the loop
  invariant: every time before the cursor is in a gap or spanned (`VisitSkipsNothing`), and for daily
  bars no gap reaches into a segment or to the cursor (`VisitCoversOnce`), because the segments come in
  the order of their starts. `Sorted` chooses by counting what comes before; that it lists each element
  once and in order is `SortedByProperties`.
* `ChunksTileAlways`: `ChunksTileGaps`. The date ranges of a chunked gap split its dates
  (`DateRangesSplit`, a quotient and its remainder), and gaps of one symbol do not meet, so a missing day
  is in one chunk (`ChunksTile`).
* `EnsureConvergesAlways`: `EnsureConverges`. The chunks that were downloaded are segments again
  (`DownloadedSegments`) and span what was missing, so `SymbolGapsAreExact` leaves no gap.
* `ReadTypeCorrect` and `PagesMissNothing`: `ReadTypeOK` and `PagingMissesNothing`, for clients and
  downloads in any order. `PagingMissesNothing` speaks of the end of the reading only and is not
  inductive. `PagingInv` adds where the reading stands: what was there at the beginning and has not been
  given stands at or behind the offset, and as long as no file was recorded, what was given is the keys
  before the offset. A recorded file moves keys back, never forward (`PositionGrows`), so a key can be
  given twice, but not missed.
* `QualityIsTrue`: `QualityTellsTheLake`, from what the first page holds (`FirstPage`).
* `ReadersAgree`: `EnginesAgree`. The rows the fallback collects are as many as those SQL counts
  (`RowsOfFiles`), a stable sort loses none (`StableSort`), and of sorted rows the deduplication keeps
  one of each key, the keys rising (`OneMoreKept`, the loop invariant of its fold). A sequence that lists
  a set in order is the sorted one (`SortedByUnique`), so both readers cut the same sequence of keys.

`QmtLifecycle_proofs`:

* `TypeCorrect`, `NothingIsLeftBehindHolds`, `StatusIsTrueHolds`. Both speak of a service used by one
  request at a time (`NoOverlap`: so far, or since it rested last) and follow that request: `LeftInv` says
  which traders may run at each step and whether xtdata is connected, `StatusInv` what the fields of the
  service say of xtquant there, and at rest for each state (`RestStatus`).

`Subscriptions_proofs`, for clients that wait for an answer before they name an id again:

* `LiveHandlesCorrect`: `LiveHandlesAreKnown`. `HandlesInv` says at each step of a request which handles
  xtdata serves for its id (`Phase`): those of the record that are not cancelled yet, then none, then
  those the request has got so far. A handle belongs to one id (`OwnHandles`), so no request cancels
  those of another.

Model-checked only is liveness (`EveryJobEnds`, `EveryHistoryJobEnds`, `HandedOverIsPublished`,
`GoneClientsAreForgotten`): the prover has no rule for fairness and `ENABLED`.

## 5. Where code and documents disagree

Two runs end with a counterexample to something a document says; `PROJECT.json` quotes the lines
under `findings`.

| run | property | what happens |
|---|---|---|
| `lake_recompact` | `CompactionKeepsBars` | a second compaction over the same dates deletes its own output |
| `snapshots_cancelled` | `CancelledStays` | a job cancelled while queued runs and succeeds |

The properties below are stated in the modules, each with the document it is from, and are in no
configuration: the code does not keep them, and TLC finds that out within seconds when one of them
takes the place of the properties of the configuration named here.

| property | configuration | what happens, and what a document says |
|---|---|---|
| `FailedSymbolHasFailedChunk` | `JobReports_serial` | An ensure job reports a covered symbol as failed, with its whole range as a gap, when another symbol had chunks, even after a successful retry (`data/job_results.py:245`). `docs/operations.md:336-337`: a client can show which symbols are complete and which failed. |
| `AllChunksDoneMeansJobDone` | `DownloadJobs_hostile`, no crash | A retry succeeds while the worker still runs; the worker then marks the job failed, with no failed chunk left (`data/jobs.py:154`). `docs/api.md:519`: when all failed chunks are retried well the job is marked succeeded again. |
| `SucceededJobIsComplete` | `DownloadJobs_hostile`, `SerialClients = TRUE` | A retry after a crash marks a job succeeded that has queued or running chunks. `docs/rfc-market-data-lake-large-downloads.md:207` only plans the recovery. Without a crash and for clients that wait it is a theorem. |
| `DeliveredChunkSucceeds` | `DownloadJobs_hostile` | A forced download of bars that are recorded fails on the primary key (`data/repository.py:235`). The same RFC, line 203: `force=true` downloads the whole range again. |
| `DailyLimitAlways` | `RpcDispatch_calls` | Two orders pass the check before either is counted (`trading.py:119`). `docs/errors.md:18`: an order that would exceed the daily limit is refused. |
| `NoTraderIsForgotten` | `QmtLifecycle_requests` | Of requests that overlap one clears or replaces the trader another has started; it keeps running (`services/qmt_service.py:111`). `docs/archive/milestones/milestone-2-connection-lifecycle.md:16`: repeated connects leak no trader thread. |
| `StoppedUntilRecovered` | `Subscriptions_requests`, `OnePerId = FALSE` | A creation that ends after the stop of its id makes it active again (`market/subscription_service.py:89`). `docs/realtime-subscriptions.md:219-223`: stopped until recovered. |
| `StopEndsStopped` | `Subscriptions_requests` | A stop whose unsubscribe raises leaves the subscription active (`market/subscription_service.py:157`). The same document, lines 100-101: it is marked stopped even if the cancellation fails. |
| `EventSeqIsMonotonic` | `Subscriptions_requests`, two `Callers`, two quotes | Two threads number their quotes and publish them in the other order (`market/subscription_service.py:202`). The same document, line 38: monotonic `event_seq`. |
| `CleanupSparesEveryExport` | `Exports_cleanup` | The clean-up looks for a CSV file only and deletes the manifest of every Parquet export as an orphan (`data/maintenance.py:216`). `docs/operations.md:401-404`: only orphans and what is expired is deleted. |
| `CoveredMeansCached` | `LocalLake_pages` | For intraday bars a range that two adjacent files cover keeps a gap of one instant and is downloaded again; no document speaks of it. |

One more is not stated as a property, because `Events` has no time: each event a client filtered out
starts its wait for a heartbeat anew (`api/routes_ws.py:34-36`), so while only such events arrive, one
that listens hears nothing and one that left is not noticed.
`docs/archive/milestones/milestone-10-order-events.md:23` and `:96` say that the filter does not affect
heartbeats.

Further behaviour that a reader of the models may stumble over, with the place to look at:

* Of two overlapping retries one re-runs a chunk the other finished (`ListChunks`). A job answered from
  the cache may report its symbol as missing, with no files, while another thread replaces the
  coverage row (`JobReports`).
* rebuild-index stops half way when two adjust modes hold equal bars (`InsertRow` in `DataLake`).
* Until the bus knows the loop, by its first client or first event, what threads publish is lost
  (`PublishThreadsafe`).
* The quality report names every weekday as missing for intraday bars, and recorded days as missing
  when the page was cut off; symbols without a row are not looked at (`DataQuality`).
* An export answered from its manifest ignores a later limit and later
  downloads (`Look`). A torn manifest makes that export, or all creations of snapshots, fail.
* `disconnect` keeps `last_error`, and `on_disconnected` of the trader leaves `trader_connected` as it
  is (`SetDisconnected`, `Drop`).
* A method whose name holds no trading marker is a transparent call; that such methods do not trade is
  an assumption of `RpcDispatch`.

## 6. Not modelled

Conversions of arguments and results (`rpc/serializers.py`), market data and trader queries,
job diagnostics, the symbol universe, configuration, health and metrics, logging, the Python client and
the command line's output are stateless: there is no step to get wrong. Market data routes with
storage profiles create their job service by check-then-act; the models need only that a statement is
atomic, so this is listed as a hazard and has no module.

SQL errors other than primary keys, a full disk and corrupted databases are outside the models, and so
is a call of xtdata that never returns. Restarts of the trading counters are by design (they count for
the process).

## 7. Running

    tlc -config JobReports_serial.cfg MCJobReports
    tlc -config DownloadJobs_hostile.cfg MCDownloadJobs
    tlapm Snapshots_proofs.tla

The largest runs take two to four minutes on two workers, the proofs of a module one to
seven.
