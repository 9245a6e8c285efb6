---- MODULE JobReports ----
(***************************************************************************)
(* What the download jobs report: the result a worker stores with the job  *)
(* (data/job_results.py), the progress computed from the chunks            *)
(* (progress_from_chunks in data/chunks.py) and the payload a polling      *)
(* client gets (DataDownloadJobService.get_job).                           *)
(*                                                                         *)
(* The module adds the reports to the steps of DownloadJobs.  It is about  *)
(* clients that retry a job only when nobody works on it: the chunks a     *)
(* worker lists for its last report cannot change before it stores it, so  *)
(* the SELECT and the UPDATE are one step.  A poll is two statements: the  *)
(* row of the job, then its chunks; workers and retries run in between.    *)
(* What is proved of the reports assumes SerialClients for that reason.    *)
(*                                                                         *)
(* Row counts are left out: they follow the file counts.  What the code    *)
(* adds up over the symbols (files) or counts (symbols) is kept as the     *)
(* function or the set it adds up or counts.                               *)
(***************************************************************************)
EXTENDS DownloadJobs

CONSTANT PolledJobs \* the jobs some client polls

ASSUME ReportsAssumption == PolledJobs \subseteq Jobs

VARIABLES stored,  \* result_json of a job: the report, NoReport while it is NULL
          tally,   \* what a thread counted of each symbol: its files; for a cached
                   \* job those of the coverage row it read
          polled   \* the job row a poll has read, NoPoll between two polls

reportVars == <<vars, stored, tally, polled>>

NoFiles == [x \in Symbols |-> 0]

NoProgress == [total |-> 0, finished |-> 0, failed |-> 0, running |-> 0, queued |-> 0,
               files |-> NoFiles, symbols |-> {}, done |-> {}, failing |-> {},
               current |-> {}]

\* symbols is the status in symbol_results, "none" for what was not asked for.
NoReport == [kind |-> "none", downloaded |-> FALSE,
             symbols |-> [x \in Symbols |-> "none"],
             files |-> NoFiles, gaps |-> {}, progress |-> NoProgress]

NoPoll == [job |-> NoJob, status |-> "absent", report |-> NoReport]
----
SymbolsOf(S) == {SymbolOf[s] : s \in S}

ChunksIn(j, status) == {s \in Slices : chunk[j][s] = status}

FilesOf(j) ==
  [x \in Symbols |-> Cardinality({s \in Slices : SymbolOf[s] = x /\ fileCount[j][s] = 1})]

\* current_symbol: of the first running chunk, or else of the first queued one.
CurrentSymbol(j) ==
  LET next == IF ChunksIn(j, "running") # {} THEN "running" ELSE "queued"
  IN SymbolsOf({s \in Slices : IsFirst(s, ChunksIn(j, next))})

ProgressFromChunks(j) ==
  [total    |-> Cardinality(Planned(j)),
   finished |-> Cardinality(ChunksIn(j, "succeeded")),
   failed   |-> Cardinality(ChunksIn(j, "failed")),
   running  |-> Cardinality(ChunksIn(j, "running")),
   queued   |-> Cardinality(ChunksIn(j, "queued")),
   files    |-> FilesOf(j),
   symbols  |-> SymbolsOf(Planned(j)),
   done     |-> SymbolsOf(Planned(j)) \ SymbolsOf(Planned(j) \ ChunksIn(j, "succeeded")),
   failing  |-> SymbolsOf(ChunksIn(j, "failed")),
   current  |-> CurrentSymbol(j)]

\* _cached_progress: no chunks, and a symbol without a coverage row is not finished.
CachedProgress(j, rows) ==
  [NoProgress EXCEPT !.files = rows,
                     !.symbols = SymbolsOf(wanted[j]),
                     !.done = {x \in Symbols : rows[x] > 0}]

\* symbol_results of the symbols the request names.
SymbolResults(j, Status(_)) ==
  [x \in Symbols |-> IF x \in SymbolsOf(wanted[j]) THEN Status(x) ELSE "none"]

\* The report of a first run that went through: what the thread itself wrote.
\* It carries no progress.
DownloadResult(j, count) ==
  [kind |-> "complete", downloaded |-> TRUE,
   symbols |-> SymbolResults(j, LAMBDA x : "succeeded"),
   files |-> count, gaps |-> {}, progress |-> NoProgress]

\* The report of a job that found everything covered: the files of the coverage
\* rows, which another thread may just be replacing.
CachedResult(j, rows) ==
  [kind |-> "cached", downloaded |-> FALSE,
   symbols |-> SymbolResults(j, LAMBDA x : IF rows[x] = 0 THEN "missing" ELSE "cached"),
   files |-> rows, gaps |-> {}, progress |-> CachedProgress(j, rows)]

\* The gaps of the symbols are their failed chunks.  A symbol without chunks,
\* because the planner found it covered, gets its whole range as a gap.
ChunkGaps(j) ==
  ChunksIn(j, "failed")
    \union {s \in wanted[j] : SymbolOf[s] \notin SymbolsOf(Planned(j))}

ChunkResults(j) ==
  SymbolResults(j, LAMBDA x : IF x \in SymbolsOf(ChunkGaps(j)) THEN "failed" ELSE "succeeded")

\* The report of a run with failures: next_step is retry_failed_chunks.
FailedResult(j) ==
  [kind |-> "partial", downloaded |-> ChunksIn(j, "succeeded") # {},
   symbols |-> ChunkResults(j), files |-> FilesOf(j), gaps |-> ChunkGaps(j),
   progress |-> ProgressFromChunks(j)]

\* The report of a retry that left no chunk failed: all chunks of the job.
ChunkedResult(j) ==
  [kind |-> "complete", downloaded |-> Planned(j) # {},
   symbols |-> ChunkResults(j), files |-> FilesOf(j), gaps |-> ChunkGaps(j),
   progress |-> ProgressFromChunks(j)]
----
ReportsInit ==
  /\ Init
  /\ stored = [j \in Jobs |-> NoReport]
  /\ tally = [t \in Threads |-> NoFiles]
  /\ polled = NoPoll

\* The coverage a request reads first is what a cached result reports.
SubmitReported(t, j, S, mode) ==
  /\ Submit(t, j, S, mode)
  /\ tally' = [tally EXCEPT ![t] =
       [x \in Symbols |-> IF IsCached(S, mode) /\ x \in SymbolsOf(S) THEN summary[x] ELSE 0]]
  /\ UNCHANGED <<stored, polled>>

\* files.extend(chunk_files) of the loop over the chunks.
CountFiles(t) ==
  /\ MarkChunkSucceeded(t)
  /\ tally' = [tally EXCEPT ![t][SymbolOf[at[t]]] = IF got[t] = NoContent THEN @ ELSE @ + 1]
  /\ UNCHANGED <<stored, polled>>

Store(t, report) ==
  /\ stored' = [stored EXCEPT ![mine[t]] = report]
  /\ tally' = [tally EXCEPT ![t] = NoFiles]
  /\ UNCHANGED polled

StoreCached(t) == FinishCached(t) /\ Store(t, CachedResult(mine[t], tally[t]))

\* A retry reports the files it wrote itself, as a first run does.
StoreOwnFiles(t) == SucceedJob(t) /\ Store(t, DownloadResult(mine[t], tally[t]))

StoreSucceeded(t) ==
  /\ SucceedJob(t)
  /\ Store(t, IF op[t] = "retry" THEN ChunkedResult(mine[t]) ELSE DownloadResult(mine[t], tally[t]))

StoreFailed(t) == FailJob(t) /\ Store(t, FailedResult(mine[t]))

Unreported(t) ==
  /\ \/ \E j \in Jobs : Retry(t, j)
     \/ CreateChunk(t) \/ ListCached(t) \/ CloseCachedChunk(t)
     \/ MarkRunning(t) \/ ListChunks(t) \/ MarkChunkRunning(t) \/ DownloadBars(t)
     \/ InsertFile(t) \/ ReadSummary(t) \/ DropSummary(t) \/ PutSummary(t)
     \/ MarkChunkFailed(t) \/ VerifyChunks(t)
  /\ UNCHANGED <<stored, tally, polled>>
----
\* get_job: SELECT the row of the job ...
PollJob(j) ==
  /\ polled = NoPoll
  /\ job[j] # "absent"
  /\ polled' = [job |-> j, status |-> job[j], report |-> stored[j]]
  /\ UNCHANGED <<vars, stored, tally>>

\* ... then its chunks: _job_with_chunks answers with both.
PollChunks ==
  /\ polled # NoPoll
  /\ polled' = NoPoll
  /\ UNCHANGED <<vars, stored, tally>>

\* progress of the payload: the chunks decide unless there are none.
PayloadProgress ==
  IF Planned(polled.job) # {} \/ polled.report.kind \notin {"cached", "partial"}
  THEN ProgressFromChunks(polled.job)
  ELSE polled.report.progress
----
ReportWork(t) ==
  CountFiles(t) \/ StoreCached(t) \/ StoreSucceeded(t) \/ StoreFailed(t)

ReportsNext ==
  \/ \E t \in Threads :
       \/ \E j \in Jobs, S \in Ranges, mode \in Modes : SubmitReported(t, j, S, mode)
       \/ ReportWork(t)
       \/ Unreported(t)
  \/ \E j \in PolledJobs : PollJob(j)
  \/ PollChunks

ReportsSpec == ReportsInit /\ [][ReportsNext]_reportVars

\* As FairSpec of DownloadJobs: a started thread runs on; a poll may be abandoned.
FairReportsSpec ==
  ReportsSpec /\ \A t \in Threads : WF_vars(Work(t))
----
\* A report is right about the symbols that have chunks.
ReportIsTrue(report, j) ==
  /\ {s \in report.gaps : SymbolOf[s] \in SymbolsOf(Planned(j))} = ChunksIn(j, "failed")
  /\ report.kind \in {"complete", "partial"} =>
       /\ report.files = FilesOf(j)
       /\ \A x \in SymbolsOf(Planned(j)) :
            report.symbols[x] =
              IF x \in SymbolsOf(ChunksIn(j, "failed")) THEN "failed" ELSE "succeeded"
  /\ report.progress # NoProgress /\ report.kind # "cached"
       => report.progress = ProgressFromChunks(j)

(***************************************************************************)
(* The stored report of a job nobody works on is the truth about its       *)
(* chunks: of a symbol with chunks it lists exactly the failed chunks as   *)
(* gaps, its status is failed if there is one, and its files are those of  *)
(* all runs together; the progress is what the chunks say.  A report that  *)
(* missed a chunk would send the client away without the data, one that    *)
(* listed too many would make it retry for nothing.  Of a symbol without   *)
(* chunks the report is wrong (FailedSymbolHasFailedChunk), and a cached   *)
(* report speaks of the coverage rows (data/job_results.py, jobs.py).      *)
(***************************************************************************)
StoredReportIsTrue ==
  \A j \in Jobs : job[j] # "absent" /\ ~Busy(j) =>
    stored[j].kind = result[j] /\ ReportIsTrue(stored[j], j)

(***************************************************************************)
(* A symbol a report calls failed has a failed chunk, so that the failure  *)
(* of one symbol does not hide what is there of another                    *)
(* (docs/rfc-market-data-lake-large-downloads.md:547 and :553).            *)
(* The code does not keep it: a symbol that an ensure job found covered    *)
(* has no chunks, and ChunkGaps makes up a failed one over its whole       *)
(* range, also in the report of a retry that succeeded.                    *)
(***************************************************************************)
FailedSymbolHasFailedChunk ==
  \A j \in Jobs : ~Busy(j) =>
    \A x \in Symbols :
      stored[j].symbols[x] = "failed" => x \in SymbolsOf(ChunksIn(j, "failed"))

(***************************************************************************)
(* Although get_job reads the row and the chunks in two statements, with   *)
(* workers and retries running in between, its answer does not contradict  *)
(* itself: a payload that says succeeded shows no unfinished chunk, and a  *)
(* payload with a partial result shows no failed chunk that is not among   *)
(* the gaps of that result (retry-failed re-runs only those).              *)
(***************************************************************************)
PollsAreConsistent ==
  [][PollChunks =>
       /\ polled.status = "succeeded" =>
            PayloadProgress.finished = PayloadProgress.total
       /\ polled.report.kind = "partial" =>
            ChunksIn(polled.job, "failed") \subseteq polled.report.gaps]_reportVars
====
