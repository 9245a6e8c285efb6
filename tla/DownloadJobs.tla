---- MODULE DownloadJobs ----
(***************************************************************************)
(* The market-data download jobs of qmtserver: DataDownloadJobService      *)
(* (data/jobs.py) on the DuckDB tables of DataJobRepository                *)
(* (data/repository.py).                                                   *)
(*                                                                         *)
(* A slice is the date range one chunk covers, of one symbol; kind, period *)
(* and adjust are the same for all, so a symbol is a series.  A request    *)
(* asks for slices of one or more symbols, in one order.  A thread runs a  *)
(* submission and the worker it starts (Submit, CreateChunk, ...), or a    *)
(* retry-failed request (Retry, ...).  Every SQL statement opens its       *)
(* own connection under the backend's lock and commits on its own, so one  *)
(* action is one statement together with the thread-local code around it:  *)
(* threads interleave, and the process may die, between any two of them.   *)
(*                                                                         *)
(* A row of data_files is keyed by the hash of the bars it holds, so it is *)
(* the pair <<slice, content>> here; `indexed' is the set of the rows.     *)
(* `summary' holds the file_count of each symbol's row in data_coverage, 0 *)
(* when there is no row.                                                   *)
(***************************************************************************)
EXTENDS Integers, FiniteSets

CONSTANTS Jobs,          \* the job ids of a run
          NoJob,         \* what an idle thread works on
          Threads,       \* request-handling and worker threads
          NSlices,       \* the slices are 1 .. NSlices, those of one symbol in a row
          Symbols,
          SymbolOf,      \* the symbol of a slice
          Contents,      \* the bars MiniQMT may hold for a slice
          NoContent,     \* MiniQMT holds no bars for the slice
          Ranges,        \* the ranges of slices requests ask for
          Modes,         \* the kinds of request clients send: subset of ModeNames
          SerialClients, \* clients retry a job only when no thread works on it
          MaxRetries,    \* bound: retry-failed requests of a run
          MaxCrashes     \* bound: crashes of the server process of a run

ModeNames == {"full", "ensure", "force"}

ASSUME ConstantsAssumption ==
  /\ NoJob \notin Jobs
  /\ NoContent \notin Contents
  /\ NSlices \in Nat \ {0}
  /\ SymbolOf \in [1 .. NSlices -> Symbols]
  /\ Ranges \subseteq SUBSET (1 .. NSlices)
  /\ Modes \subseteq ModeNames
  /\ SerialClients \in BOOLEAN
  /\ MaxRetries \in Nat
  /\ MaxCrashes \in Nat

VARIABLES job,       \* data_jobs.status, "absent" before the row exists
          result,    \* which result_json the row holds
          wanted,    \* the slices the job's request covers
          chunk,     \* data_job_chunks.status of a job's slice, "absent" if not planned
          fileCount, \* data_job_chunks.file_count
          indexed,   \* the rows of data_files
          summary,   \* data_coverage.file_count of a symbol
          pc, op, mine, todo, at, failures, got, seen, \* the threads' local state
          retries, crashes

db      == <<job, result, wanted, chunk, fileCount, indexed, summary>>
locals  == <<op, mine, todo, at, failures, got, seen>>
budgets == <<retries, crashes>>
vars    == <<db, pc, locals, budgets>>

Slices == 1 .. NSlices

JobStatus   == {"absent", "queued", "running", "succeeded", "failed"}
ResultKinds == {"none", "cached", "complete", "partial"}
Pcs == {"idle", "plan", "cached", "start", "list", "loop", "download", "insert",
        "read", "drop", "put", "good", "bad", "finish", "fail"}
Ops == {"none", "cached", "download", "retry"}

\* Chunks run in the order of their ids: symbol by symbol, then by date.
IsFirst(s, S) == s \in S /\ \A r \in S : s <= r

\* A sweep over the merged summary alone would take a hole for covered.
CoveredBySummary(s) ==
  \E a, b \in indexed : /\ a[1] <= s /\ s <= b[1]
                        /\ SymbolOf[a[1]] = SymbolOf[s] /\ SymbolOf[b[1]] = SymbolOf[s]

\* A slice is covered when a recorded file holds bars of it: the planner
\* goes by the files (list_coverage_segments), not by the merged row.
Covered(s) == \E c \in Contents : <<s, c>> \in indexed

FullyCovered(S) == \A s \in S : Covered(s)

Planned(j) == {s \in Slices : chunk[j][s] # "absent"}

Busy(j) == \E t \in Threads : mine[t] = j

\* The thread returns, its locals are gone.
Idle(t) ==
  /\ pc' = [pc EXCEPT ![t] = "idle"]
  /\ op' = [op EXCEPT ![t] = "none"]
  /\ mine' = [mine EXCEPT ![t] = NoJob]
  /\ todo' = [todo EXCEPT ![t] = {}]
  /\ at' = [at EXCEPT ![t] = 1]
  /\ failures' = [failures EXCEPT ![t] = FALSE]
  /\ got' = [got EXCEPT ![t] = NoContent]
  /\ seen' = [seen EXCEPT ![t] = 0]

Goto(t, label) == pc' = [pc EXCEPT ![t] = label]
----
Init ==
  /\ job = [j \in Jobs |-> "absent"]
  /\ result = [j \in Jobs |-> "none"]
  /\ wanted = [j \in Jobs |-> {}]
  /\ chunk = [j \in Jobs |-> [s \in Slices |-> "absent"]]
  /\ fileCount = [j \in Jobs |-> [s \in Slices |-> 0]]
  /\ indexed = {}
  /\ summary = [x \in Symbols |-> 0]
  /\ pc = [t \in Threads |-> "idle"]
  /\ op = [t \in Threads |-> "none"]
  /\ mine = [t \in Threads |-> NoJob]
  /\ todo = [t \in Threads |-> {}]
  /\ at = [t \in Threads |-> 1]
  /\ failures = [t \in Threads |-> FALSE]
  /\ got = [t \in Threads |-> NoContent]
  /\ seen = [t \in Threads |-> 0]
  /\ retries = 0
  /\ crashes = 0
----
(***************************************************************************)
(* submit_download: read the coverage, INSERT the job row.  The two are    *)
(* one action: no other thread knows the new job id before the INSERT.     *)
(***************************************************************************)
PlanChunks(S, mode) ==
  IF mode = "ensure" THEN {s \in S : ~Covered(s)} ELSE S

IsCached(S, mode) == mode # "force" /\ FullyCovered(S)

Submit(t, j, S, mode) ==
  /\ pc[t] = "idle"
  /\ job[j] = "absent"
  /\ job' = [job EXCEPT ![j] = "queued"]
  /\ wanted' = [wanted EXCEPT ![j] = S]
  /\ op' = [op EXCEPT ![t] = IF IsCached(S, mode) THEN "cached" ELSE "download"]
  /\ mine' = [mine EXCEPT ![t] = j]
  /\ todo' = [todo EXCEPT ![t] = PlanChunks(S, mode)]
  /\ Goto(t, "plan")
  /\ UNCHANGED <<result, chunk, fileCount, indexed, summary,
                 at, failures, got, seen, budgets>>

\* create_chunks: one INSERT for each planned chunk.
CreateChunk(t) ==
  /\ pc[t] = "plan"
  /\ \E s \in Slices :
       /\ IsFirst(s, todo[t])
       /\ chunk' = [chunk EXCEPT ![mine[t]][s] = "queued"]
       /\ todo' = [todo EXCEPT ![t] = @ \ {s}]
  /\ UNCHANGED <<job, result, wanted, fileCount, indexed, summary, pc,
                 op, mine, at, failures, got, seen, budgets>>

\* All chunks exist: a cached job lists them to close them, any other job
\* starts its worker, which marks the job running.
ListCached(t) ==
  /\ pc[t] = "plan"
  /\ todo[t] = {}
  /\ op[t] = "cached"
  /\ todo' = [todo EXCEPT ![t] = Planned(mine[t])]
  /\ Goto(t, "cached")
  /\ UNCHANGED <<db, op, mine, at, failures, got, seen, budgets>>

\* _mark_chunks_finished_from_cache.
CloseCachedChunk(t) ==
  /\ pc[t] = "cached"
  /\ \E s \in Slices :
       /\ IsFirst(s, todo[t])
       /\ chunk' = [chunk EXCEPT ![mine[t]][s] = "succeeded"]
       /\ fileCount' = [fileCount EXCEPT ![mine[t]][s] = 0]
       /\ todo' = [todo EXCEPT ![t] = @ \ {s}]
  /\ UNCHANGED <<job, result, wanted, indexed, summary, pc,
                 op, mine, at, failures, got, seen, budgets>>

\* mark_succeeded with cached_result.
FinishCached(t) ==
  /\ pc[t] = "cached"
  /\ todo[t] = {}
  /\ job' = [job EXCEPT ![mine[t]] = "succeeded"]
  /\ result' = [result EXCEPT ![mine[t]] = "cached"]
  /\ Idle(t)
  /\ UNCHANGED <<wanted, chunk, fileCount, indexed, summary, budgets>>
----
(***************************************************************************)
(* retry_failed_chunks: runs in the thread of the request, and only if     *)
(* some chunk is failed.  The code does not ask whether another thread     *)
(* works on the job; SerialClients says that no client makes it happen.    *)
(***************************************************************************)
Retry(t, j) ==
  /\ pc[t] = "idle"
  /\ retries < MaxRetries
  /\ SerialClients => ~Busy(j)
  /\ \E s \in Slices : chunk[j][s] = "failed"
  /\ op' = [op EXCEPT ![t] = "retry"]
  /\ mine' = [mine EXCEPT ![t] = j]
  /\ Goto(t, "start")
  /\ retries' = retries + 1
  /\ UNCHANGED <<db, todo, at, failures, got, seen, crashes>>

MarkRunning(t) ==
  /\ \/ pc[t] = "start"
     \/ pc[t] = "plan" /\ todo[t] = {} /\ op[t] = "download"
  /\ job' = [job EXCEPT ![mine[t]] = "running"]
  /\ Goto(t, "list")
  /\ UNCHANGED <<result, wanted, chunk, fileCount, indexed, summary, locals, budgets>>
----
(***************************************************************************)
(* _run_download_chunks: one snapshot of the chunks, then one at a time.   *)
(***************************************************************************)

\* The retry forgets to filter the chunks it lists.
UnfilteredChunksForRun(t) == Planned(mine[t])

ChunksForRun(t) ==
  IF op[t] = "retry"
  THEN {s \in Slices : chunk[mine[t]][s] = "failed"}
  ELSE Planned(mine[t])

ListChunks(t) ==
  /\ pc[t] = "list"
  /\ todo' = [todo EXCEPT ![t] = ChunksForRun(t)]
  /\ Goto(t, "loop")
  /\ UNCHANGED <<db, op, mine, at, failures, got, seen, budgets>>

MarkChunkRunning(t) ==
  /\ pc[t] = "loop"
  /\ \E s \in Slices :
       /\ IsFirst(s, todo[t])
       /\ chunk' = [chunk EXCEPT ![mine[t]][s] = "running"]
       /\ at' = [at EXCEPT ![t] = s]
       /\ todo' = [todo EXCEPT ![t] = @ \ {s}]
  /\ Goto(t, "download")
  /\ UNCHANGED <<job, result, wanted, fileCount, indexed, summary,
                 op, mine, failures, got, seen, budgets>>

\* The file is written but never recorded.
DownloadBarsUnrecorded(t) ==
  /\ pc[t] = "download"
  /\ \E c \in Contents : got' = [got EXCEPT ![t] = c]
  /\ Goto(t, "good")
  /\ UNCHANGED <<db, op, mine, todo, at, failures, seen, budgets>>

\* download_history, read_bars and write_bars: they raise, or find no bars
\* (no file is written), or leave a file with the bars MiniQMT holds.
DownloadBars(t) ==
  /\ pc[t] = "download"
  /\ \/ /\ got' = [got EXCEPT ![t] = NoContent]
        /\ Goto(t, "bad")
     \/ /\ got' = [got EXCEPT ![t] = NoContent]
        /\ Goto(t, "good")
     \/ \E c \in Contents :
          /\ got' = [got EXCEPT ![t] = c]
          /\ Goto(t, "insert")
  /\ UNCHANGED <<db, op, mine, todo, at, failures, seen, budgets>>

\* The file is counted in data_coverage although its INSERT was refused.
InsertFileTolerant(t) ==
  /\ pc[t] = "insert"
  /\ indexed' = indexed \union {<<at[t], got[t]>>}
  /\ Goto(t, "read")
  /\ UNCHANGED <<job, result, wanted, chunk, fileCount, summary, locals, budgets>>

\* record_file: INSERT INTO data_files; file_id, the hash of the bars, is the
\* primary key, so a file that is already recorded raises.
InsertFile(t) ==
  /\ pc[t] = "insert"
  /\ IF <<at[t], got[t]>> \in indexed
     THEN Goto(t, "bad") /\ UNCHANGED indexed
     ELSE Goto(t, "read") /\ indexed' = indexed \union {<<at[t], got[t]>>}
  /\ UNCHANGED <<job, result, wanted, chunk, fileCount, summary, locals, budgets>>

\* _record_coverage: SELECT the row, DELETE it, INSERT the merged row.
ReadSummary(t) ==
  /\ pc[t] = "read"
  /\ seen' = [seen EXCEPT ![t] = summary[SymbolOf[at[t]]]]
  /\ Goto(t, "drop")
  /\ UNCHANGED <<db, op, mine, todo, at, failures, got, budgets>>

DropSummary(t) ==
  /\ pc[t] = "drop"
  /\ summary' = [summary EXCEPT ![SymbolOf[at[t]]] = 0]
  /\ Goto(t, "put")
  /\ UNCHANGED <<job, result, wanted, chunk, fileCount, indexed, locals, budgets>>

\* The INSERT raises when another thread put the row back in between.
PutSummary(t) ==
  /\ pc[t] = "put"
  /\ IF summary[SymbolOf[at[t]]] # 0
     THEN Goto(t, "bad") /\ UNCHANGED summary
     ELSE /\ Goto(t, "good")
          /\ summary' = [summary EXCEPT ![SymbolOf[at[t]]] = seen[t] + 1]
  /\ seen' = [seen EXCEPT ![t] = 0]
  /\ UNCHANGED <<job, result, wanted, chunk, fileCount, indexed,
                 op, mine, todo, at, failures, got, budgets>>

\* The chunk is given the files of the whole job so far.
MarkChunkSucceededTotal(t) ==
  /\ pc[t] = "good"
  /\ chunk' = [chunk EXCEPT ![mine[t]][at[t]] = "succeeded"]
  /\ fileCount' = [fileCount EXCEPT ![mine[t]][at[t]] =
       IF got[t] = NoContent THEN 0
       ELSE 1 + Cardinality({s \in Slices : fileCount[mine[t]][s] > 0})]
  /\ Goto(t, "loop")
  /\ UNCHANGED <<job, result, wanted, indexed, summary, locals, budgets>>

MarkChunkSucceeded(t) ==
  /\ pc[t] = "good"
  /\ chunk' = [chunk EXCEPT ![mine[t]][at[t]] = "succeeded"]
  /\ fileCount' = [fileCount EXCEPT ![mine[t]][at[t]] = IF got[t] = NoContent THEN 0 ELSE 1]
  /\ Goto(t, "loop")
  /\ UNCHANGED <<job, result, wanted, indexed, summary, locals, budgets>>

\* The failure of a chunk is stored with the chunk but not remembered.
MarkChunkFailedOnly(t) ==
  /\ pc[t] = "bad"
  /\ chunk' = [chunk EXCEPT ![mine[t]][at[t]] = "failed"]
  /\ Goto(t, "loop")
  /\ UNCHANGED <<job, result, wanted, fileCount, indexed, summary, locals, budgets>>

\* The chunk is failed, and the thread goes on with the next one.
MarkChunkFailed(t) ==
  /\ pc[t] = "bad"
  /\ chunk' = [chunk EXCEPT ![mine[t]][at[t]] = "failed"]
  /\ failures' = [failures EXCEPT ![t] = TRUE]
  /\ Goto(t, "loop")
  /\ UNCHANGED <<job, result, wanted, fileCount, indexed, summary,
                 op, mine, todo, at, got, seen, budgets>>
----
\* After its chunks a retry lists them all again: a failed one is an error.
VerifyChunks(t) ==
  /\ pc[t] = "loop"
  /\ todo[t] = {}
  /\ op[t] = "retry"
  /\ ~failures[t]
  /\ Goto(t, IF \E s \in Slices : chunk[mine[t]][s] = "failed" THEN "fail" ELSE "finish")
  /\ UNCHANGED <<db, locals, budgets>>

\* The failures of the chunks are not looked at.
SucceedJobAnyway(t) ==
  /\ \/ pc[t] = "finish"
     \/ pc[t] = "loop" /\ todo[t] = {} /\ op[t] = "download"
  /\ job' = [job EXCEPT ![mine[t]] = "succeeded"]
  /\ result' = [result EXCEPT ![mine[t]] = "complete"]
  /\ Idle(t)
  /\ UNCHANGED <<wanted, chunk, fileCount, indexed, summary, budgets>>

\* mark_succeeded with download_result or chunked_result (partial = False).
SucceedJob(t) ==
  /\ \/ pc[t] = "finish"
     \/ pc[t] = "loop" /\ todo[t] = {} /\ op[t] = "download" /\ ~failures[t]
  /\ job' = [job EXCEPT ![mine[t]] = "succeeded"]
  /\ result' = [result EXCEPT ![mine[t]] = "complete"]
  /\ Idle(t)
  /\ UNCHANGED <<wanted, chunk, fileCount, indexed, summary, budgets>>

\* The thread ends with the exception: nobody marks the job.
FailJobSilently(t) ==
  /\ \/ pc[t] = "fail"
     \/ pc[t] = "loop" /\ todo[t] = {} /\ failures[t]
  /\ Idle(t)
  /\ UNCHANGED <<db, budgets>>

\* mark_failed with failed_result (partial = True).
FailJob(t) ==
  /\ \/ pc[t] = "fail"
     \/ pc[t] = "loop" /\ todo[t] = {} /\ failures[t]
  /\ job' = [job EXCEPT ![mine[t]] = "failed"]
  /\ result' = [result EXCEPT ![mine[t]] = "partial"]
  /\ Idle(t)
  /\ UNCHANGED <<wanted, chunk, fileCount, indexed, summary, budgets>>
----
\* The process dies and is started again.  Worker threads are daemon threads:
\* they are gone, the tables stay, and nothing resumes the jobs.
Crash ==
  /\ crashes < MaxCrashes
  /\ crashes' = crashes + 1
  /\ pc' = [t \in Threads |-> "idle"]
  /\ op' = [t \in Threads |-> "none"]
  /\ mine' = [t \in Threads |-> NoJob]
  /\ todo' = [t \in Threads |-> {}]
  /\ at' = [t \in Threads |-> 1]
  /\ failures' = [t \in Threads |-> FALSE]
  /\ got' = [t \in Threads |-> NoContent]
  /\ seen' = [t \in Threads |-> 0]
  /\ UNCHANGED <<db, retries>>

Work(t) ==
  \/ CreateChunk(t) \/ ListCached(t) \/ CloseCachedChunk(t) \/ FinishCached(t)
  \/ MarkRunning(t) \/ ListChunks(t) \/ MarkChunkRunning(t) \/ DownloadBars(t)
  \/ InsertFile(t) \/ ReadSummary(t) \/ DropSummary(t) \/ PutSummary(t)
  \/ MarkChunkSucceeded(t) \/ MarkChunkFailed(t)
  \/ VerifyChunks(t) \/ SucceedJob(t) \/ FailJob(t)

Request(t) ==
  \E j \in Jobs :
    \/ \E S \in Ranges, mode \in Modes : Submit(t, j, S, mode)
    \/ Retry(t, j)

Next == (\E t \in Threads : Request(t) \/ Work(t)) \/ Crash

Spec == Init /\ [][Next]_vars

\* A started thread runs on: every statement and every call of xtdata returns
\* or raises.  Clients need not send anything.
FairSpec == Spec /\ \A t \in Threads : WF_vars(Work(t))
----
TypeOK ==
  /\ job \in [Jobs -> JobStatus]
  /\ result \in [Jobs -> ResultKinds]
  /\ wanted \in [Jobs -> SUBSET Slices]
  /\ chunk \in [Jobs -> [Slices -> JobStatus]]
  /\ fileCount \in [Jobs -> [Slices -> {0, 1}]]
  /\ indexed \subseteq Slices \X Contents
  /\ summary \in [Symbols -> Nat]
  /\ pc \in [Threads -> Pcs]
  /\ op \in [Threads -> Ops]
  /\ mine \in [Threads -> Jobs \union {NoJob}]
  /\ todo \in [Threads -> SUBSET Slices]
  /\ at \in [Threads -> Slices]
  /\ failures \in [Threads -> BOOLEAN]
  /\ got \in [Threads -> Contents \union {NoContent}]
  /\ seen \in [Threads -> Nat]
  /\ retries \in 0 .. MaxRetries
  /\ crashes \in 0 .. MaxCrashes

RecordedOf(x) == {f \in indexed : SymbolOf[f[1]] = x}

IsIndexed(s) == \E c \in Contents : <<s, c>> \in indexed

(***************************************************************************)
(* A chunk that reports a file (status succeeded, file_count 1) has its    *)
(* file in data_files, whatever other threads, retries and crashes did:    *)
(* _write_files records before mark_chunk_succeeded, and nothing of the    *)
(* job service removes a file.                                             *)
(***************************************************************************)
SucceededChunkIsIndexed ==
  \A j \in Jobs, s \in Slices :
    chunk[j][s] = "succeeded" /\ fileCount[j][s] = 1 => IsIndexed(s)

(***************************************************************************)
(* A job that was answered from the cache downloads nothing, so each slice *)
(* of its request must really be in the index: a hole between the first    *)
(* and the last recorded file is not coverage (data/coverage.py).          *)
(***************************************************************************)
CachedJobIsCovered ==
  \A j \in Jobs : result[j] = "cached" => \A s \in wanted[j] : IsIndexed(s)

(***************************************************************************)
(* The result of a job says partial = False only when no chunk of the job  *)
(* is left failed, queued or running.  It takes clients that do not retry  *)
(* a job somebody works on, and no crash: after a crash retry-failed looks *)
(* at the failed chunks only and the job succeeds with a queued one.       *)
(***************************************************************************)
SucceededJobIsComplete ==
  \A j \in Jobs : job[j] = "succeeded" =>
    \A s \in Slices : chunk[j][s] \in {"absent", "succeeded"}

(***************************************************************************)
(* When no thread works on a job, the job's status is the verdict of its   *)
(* chunks: failed exactly if one of them is failed, so that retry-failed   *)
(* always finds something to do for a failed job and nothing for another.  *)
(***************************************************************************)
RestingJobAgreesWithChunks ==
  \A j \in Jobs : job[j] # "absent" /\ ~Busy(j) =>
    /\ job[j] \in {"succeeded", "failed"}
    /\ job[j] = "failed" <=> \E s \in Slices : chunk[j][s] = "failed"

(***************************************************************************)
(* retry-failed never re-runs or loses a chunk that succeeded.             *)
(***************************************************************************)
SucceededChunksAreKept ==
  [][\A j \in Jobs, s \in Slices :
       chunk[j][s] = "succeeded" => chunk'[j][s] = "succeeded"]_vars

(***************************************************************************)
(* The merged coverage row of a symbol never counts a file that data_files *)
(* does not hold: a refused duplicate is not counted, and threads that     *)
(* merge at once can only lose a file from the row, never count one twice. *)
(***************************************************************************)
SummaryNeverOvercounts ==
  \A x \in Symbols : summary[x] <= Cardinality(RecordedOf(x))

(***************************************************************************)
(* A job a thread works on comes to rest with a verdict, however downloads *)
(* fail and however the threads of one or of several jobs overlap, unless  *)
(* the server crashes meanwhile.                                           *)
(***************************************************************************)
EveryJobEnds ==
  \A j \in Jobs, n \in 0 .. MaxCrashes :
    (Busy(j) /\ crashes = n)
      ~> \/ ~Busy(j) /\ job[j] \in {"succeeded", "failed"}
         \/ crashes > n

(***************************************************************************)
(* When all the chunks of a job have succeeded and the threads that worked *)
(* on it are gone, the job is not left failed: a failed job with nothing   *)
(* to retry stays failed for good.                                         *)
(* The code does not keep it: a retry that overlaps the first worker marks *)
(* the job succeeded, the worker then marks it failed.                     *)
(***************************************************************************)
AllChunksDoneMeansJobDone ==
  \A j \in Jobs :
    /\ ~Busy(j)
    /\ \A s \in wanted[j] : chunk[j][s] = "succeeded"
    => job[j] # "failed"

(***************************************************************************)
(* force = true downloads the whole range again whatever the index holds:  *)
(* when MiniQMT delivered the bars of a chunk, the chunk does not fail.    *)
(* The code does not keep it: the bars that are recorded already are       *)
(* refused by the primary key of data_files (InsertFile).                  *)
(***************************************************************************)
DeliveredChunkSucceeds ==
  \A t \in Threads : pc[t] = "bad" => got[t] = NoContent
====
