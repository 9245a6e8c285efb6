---- MODULE DownloadJobs_proofs ----
(***************************************************************************)
(* Theorems about DownloadJobs, and about the reports JobReports adds, for *)
(* every set of jobs and threads, every number of slices and every bound.  *)
(* What needs clients that wait says so with ASSUME SerialClients.         *)
(***************************************************************************)
EXTENDS JobReports, FiniteSetTheorems, TLAPS

----
(***************************************************************************)
(* What a thread has recorded so far: from the INSERT of its file on, the  *)
(* file is in data_files; a thread answers from the cache only a request   *)
(* whose slices are all there.  This part needs no assumption on clients   *)
(* or crashes.                                                             *)
(***************************************************************************)
Recording == {"read", "drop", "put"}

ThreadOwnsJob ==
  /\ \A t \in Threads : pc[t] # "idle" => mine[t] \in Jobs /\ job[mine[t]] # "absent"
  /\ \A j \in Jobs, s \in Slices : chunk[j][s] # "absent" => job[j] # "absent"

FileIsRecorded ==
  \A t \in Threads :
    /\ pc[t] \in Recording \union {"insert"} => got[t] \in Contents
    /\ pc[t] \in Recording \union {"good"} /\ got[t] # NoContent
         => <<at[t], got[t]>> \in indexed

CachedIsCovered ==
  /\ \A j \in Jobs : result[j] # "none" => job[j] # "absent"
  /\ \A t \in Threads : pc[t] = "cached" => op[t] = "cached"
  /\ \A t \in Threads :
       pc[t] \in {"plan", "cached"} /\ op[t] = "cached"
         => \A s \in wanted[mine[t]] : IsIndexed(s)

IndexInv ==
  /\ TypeOK
  /\ ThreadOwnsJob
  /\ FileIsRecorded
  /\ CachedIsCovered
  /\ SucceededChunkIsIndexed
  /\ CachedJobIsCovered

----
(***************************************************************************)
(* How far a thread is with the chunks of its job, when it is alone with   *)
(* it: behind it every chunk has succeeded or is failed and remembered in  *)
(* failures, ahead of it chunks are queued or (for a retry) failed.        *)
(***************************************************************************)
Settled  == {"absent", "succeeded", "failed"}
Done     == {"absent", "succeeded"}
InChunk  == {"download", "insert", "read", "drop", "put", "good", "bad"}

Alone ==
  \A t, u \in Threads : t # u /\ mine[t] \in Jobs => mine[t] # mine[u]

IdleHasNoJob ==
  \A t \in Threads : mine[t] \in Jobs <=> pc[t] # "idle"

NoFailureYet ==
  \A t \in Threads :
    pc[t] \in {"idle", "plan", "cached", "start", "list"} => failures[t] = FALSE

Planning(t) ==
  /\ job[mine[t]] = "queued"
  /\ op[t] \in {"cached", "download"}
  /\ \A s \in Slices : /\ chunk[mine[t]][s] \in {"absent", "queued"}
                       /\ s \in todo[t] => chunk[mine[t]][s] = "absent"

Closing(t) ==
  /\ job[mine[t]] = "queued"
  /\ \A s \in Slices : chunk[mine[t]][s] \in IF s \in todo[t] THEN {"queued"} ELSE Done

Retrying(t) ==
  /\ job[mine[t]] = "failed"
  /\ op[t] = "retry"
  /\ \A s \in Slices : chunk[mine[t]][s] \in Settled

Listing(t) ==
  /\ job[mine[t]] = "running"
  /\ \/ /\ op[t] = "download"
        /\ \A s \in Slices : chunk[mine[t]][s] \in {"absent", "queued"}
     \/ /\ op[t] = "retry"
        /\ \A s \in Slices : chunk[mine[t]][s] \in Settled

Ahead(t) == todo[t] \union (IF pc[t] = "loop" THEN {} ELSE {at[t]})

Looping(t) ==
  /\ job[mine[t]] = "running"
  /\ op[t] \in {"download", "retry"}
  /\ \A s \in todo[t] : chunk[mine[t]][s] \in {"queued", "failed"}
  /\ pc[t] # "loop" => at[t] \notin todo[t] /\ chunk[mine[t]][at[t]] = "running"
  /\ \A s \in Slices \ Ahead(t) :
       chunk[mine[t]][s] \in IF failures[t] THEN Settled ELSE Done
  /\ failures[t] => \E s \in Slices \ Ahead(t) : chunk[mine[t]][s] = "failed"

Finishing(t) ==
  /\ job[mine[t]] = "running"
  /\ \A s \in Slices : chunk[mine[t]][s] \in Done

Phase(t) ==
  /\ pc[t] = "plan" => Planning(t)
  /\ pc[t] = "cached" => Closing(t)
  /\ pc[t] = "start" => Retrying(t)
  /\ pc[t] = "list" => Listing(t)
  /\ pc[t] \in InChunk \union {"loop"} => Looping(t)
  /\ pc[t] = "finish" => Finishing(t)
  /\ pc[t] # "fail"

\* What a job looks like that no thread works on.
Resting(j) ==
  /\ job[j] \in {"absent", "succeeded", "failed"}
  /\ \A s \in Slices : chunk[j][s] \in Settled
  /\ job[j] = "absent" => \A s \in Slices : chunk[j][s] = "absent"
  /\ job[j] = "succeeded" => \A s \in Slices : chunk[j][s] \in Done
  /\ job[j] = "failed" => \E s \in Slices : chunk[j][s] = "failed"

SerialInv ==
  /\ TypeOK
  /\ Alone
  /\ IdleHasNoJob
  /\ NoFailureYet
  /\ \A t \in Threads : Phase(t)
  /\ \A j \in Jobs : ~Busy(j) => Resting(j)

----
(***************************************************************************)
(* What the requests of Next are.                                          *)
(***************************************************************************)
LEMMA NextCases ==
  ASSUME [Next]_vars
  PROVE  \/ \E t \in Threads, j \in Jobs, S \in SUBSET Slices, mode \in Modes :
               Submit(t, j, S, mode)
         \/ \E t \in Threads, j \in Jobs : Retry(t, j)
         \/ \E t \in Threads : Work(t)
         \/ Crash
         \/ UNCHANGED vars
<1>1. \A S \in Ranges : S \in SUBSET Slices
  BY ConstantsAssumption DEF Slices
<1>2. QED
  BY <1>1 DEF Next, Request

----
(***************************************************************************)
(* Types.                                                                  *)
(***************************************************************************)
LEMMA SymbolOfSlice ==
  /\ \A s \in Slices : SymbolOf[s] \in Symbols
  /\ TypeOK => \A t \in Threads : SymbolOf[at[t]] \in Symbols
BY ConstantsAssumption DEF Slices, TypeOK

LEMMA TypeInit == Init => TypeOK
BY ConstantsAssumption
DEF Init, TypeOK, JobStatus, ResultKinds, Pcs, Ops, Slices

LocalsOK ==
  /\ pc \in [Threads -> Pcs]
  /\ op \in [Threads -> Ops]
  /\ mine \in [Threads -> Jobs \union {NoJob}]
  /\ todo \in [Threads -> SUBSET Slices]
  /\ at \in [Threads -> Slices]
  /\ failures \in [Threads -> BOOLEAN]
  /\ got \in [Threads -> Contents \union {NoContent}]
  /\ seen \in [Threads -> Nat]

LEMMA IdleTypes ==
  ASSUME TypeOK, NEW t \in Threads, Idle(t)
  PROVE  LocalsOK'
<1>1. pc' \in [Threads -> Pcs] /\ op' \in [Threads -> Ops]
  BY DEF TypeOK, Idle, Pcs, Ops
<1>2. /\ mine' \in [Threads -> Jobs \union {NoJob}]
      /\ todo' \in [Threads -> SUBSET Slices]
  BY DEF TypeOK, Idle
<1>3. /\ at' \in [Threads -> Slices]
      /\ failures' \in [Threads -> BOOLEAN]
  BY ConstantsAssumption DEF TypeOK, Idle, Slices
<1>4. /\ got' \in [Threads -> Contents \union {NoContent}]
      /\ seen' \in [Threads -> Nat]
  BY DEF TypeOK, Idle
<1>5. QED
  BY <1>1, <1>2, <1>3, <1>4 DEF LocalsOK

LEMMA TypeWork ==
  ASSUME TypeOK, ThreadOwnsJob, FileIsRecorded, NEW t \in Threads, Work(t)
  PROVE  TypeOK'
<1>0. pc[t] # "idle" => mine[t] \in Jobs
  BY DEF ThreadOwnsJob
<1>1. CASE CreateChunk(t)
  <2>1. mine[t] \in Jobs
    BY <1>0, <1>1 DEF CreateChunk
  <2>2. PICK s \in Slices : /\ chunk' = [chunk EXCEPT ![mine[t]][s] = "queued"]
                            /\ todo' = [todo EXCEPT ![t] = @ \ {s}]
    BY <1>1 DEF CreateChunk
  <2>3. chunk' \in [Jobs -> [Slices -> JobStatus]]
    BY <2>1, <2>2 DEF TypeOK, JobStatus
  <2>4. todo' \in [Threads -> SUBSET Slices]
    BY <2>2 DEF TypeOK
  <2>5. QED
    BY <1>1, <2>3, <2>4 DEF TypeOK, CreateChunk, budgets
<1>2. CASE ListCached(t)
  BY <1>2 DEF TypeOK, ListCached, Goto, Planned, Pcs, db, budgets
<1>3. CASE CloseCachedChunk(t)
  <2>1. mine[t] \in Jobs
    BY <1>0, <1>3 DEF CloseCachedChunk
  <2>2. PICK s \in Slices : /\ chunk' = [chunk EXCEPT ![mine[t]][s] = "succeeded"]
                            /\ fileCount' = [fileCount EXCEPT ![mine[t]][s] = 0]
                            /\ todo' = [todo EXCEPT ![t] = @ \ {s}]
    BY <1>3 DEF CloseCachedChunk
  <2>3. chunk' \in [Jobs -> [Slices -> JobStatus]]
    BY <2>1, <2>2 DEF TypeOK, JobStatus
  <2>4. fileCount' \in [Jobs -> [Slices -> {0, 1}]]
    BY <2>1, <2>2 DEF TypeOK
  <2>5. todo' \in [Threads -> SUBSET Slices]
    BY <2>2 DEF TypeOK
  <2>6. QED
    BY <1>3, <2>3, <2>4, <2>5 DEF TypeOK, CloseCachedChunk, budgets
<1>4. CASE FinishCached(t)
  <2>1. job' \in [Jobs -> JobStatus] /\ result' \in [Jobs -> ResultKinds]
    BY <1>4 DEF TypeOK, FinishCached, JobStatus, ResultKinds
  <2>2. QED
    BY <1>4, <2>1, IdleTypes DEF TypeOK, LocalsOK, FinishCached, budgets
<1>5. CASE MarkRunning(t)
  BY <1>5 DEF TypeOK, MarkRunning, Goto, JobStatus, Pcs, locals, budgets
<1>6. CASE ListChunks(t)
  BY <1>6 DEF TypeOK, ListChunks, ChunksForRun, Planned, Goto, Pcs, db, budgets
<1>7. CASE MarkChunkRunning(t)
  <2>1. mine[t] \in Jobs
    BY <1>0, <1>7 DEF MarkChunkRunning
  <2>2. PICK s \in Slices : /\ chunk' = [chunk EXCEPT ![mine[t]][s] = "running"]
                            /\ at' = [at EXCEPT ![t] = s]
                            /\ todo' = [todo EXCEPT ![t] = @ \ {s}]
    BY <1>7 DEF MarkChunkRunning
  <2>3. chunk' \in [Jobs -> [Slices -> JobStatus]]
    BY <2>1, <2>2 DEF TypeOK, JobStatus
  <2>4. at' \in [Threads -> Slices] /\ todo' \in [Threads -> SUBSET Slices]
    BY <2>2 DEF TypeOK
  <2>5. pc' \in [Threads -> Pcs]
    BY <1>7 DEF TypeOK, MarkChunkRunning, Goto, Pcs
  <2>6. QED
    BY <1>7, <2>3, <2>4, <2>5 DEF TypeOK, MarkChunkRunning, budgets
<1>8. CASE DownloadBars(t)
  <2>1. got' \in [Threads -> Contents \union {NoContent}]
    BY <1>8 DEF TypeOK, DownloadBars
  <2>2. pc' \in [Threads -> Pcs]
    BY <1>8 DEF TypeOK, DownloadBars, Goto, Pcs
  <2>3. QED
    BY <1>8, <2>1, <2>2 DEF TypeOK, DownloadBars, db, budgets
<1>9. CASE InsertFile(t)
  <2>1. got[t] \in Contents
    BY <1>9 DEF InsertFile, FileIsRecorded
  <2>2. indexed' \subseteq Slices \X Contents
    BY <1>9, <2>1 DEF TypeOK, InsertFile
  <2>3. pc' \in [Threads -> Pcs]
    <3>1. \E label \in {"bad", "read"} : pc' = [pc EXCEPT ![t] = label]
      BY <1>9 DEF InsertFile, Goto
    <3>2. QED
      BY <3>1 DEF TypeOK, Pcs
  <2>4. QED
    BY <1>9, <2>2, <2>3 DEF TypeOK, InsertFile, locals, budgets
<1>10. CASE ReadSummary(t)
  BY <1>10, SymbolOfSlice DEF TypeOK, ReadSummary, Goto, Pcs, db, budgets
<1>11. CASE DropSummary(t)
  BY <1>11, SymbolOfSlice DEF TypeOK, DropSummary, Goto, Pcs, locals, budgets
<1>12. CASE PutSummary(t)
  <2>1. summary' \in [Symbols -> Nat] /\ seen' \in [Threads -> Nat]
    BY <1>12, SymbolOfSlice DEF TypeOK, PutSummary
  <2>2. pc' \in [Threads -> Pcs]
    BY <1>12 DEF TypeOK, PutSummary, Goto, Pcs
  <2>3. QED
    BY <1>12, <2>1, <2>2 DEF TypeOK, PutSummary, budgets
<1>13. CASE MarkChunkSucceeded(t)
  <2>1. mine[t] \in Jobs
    BY <1>0, <1>13 DEF MarkChunkSucceeded
  <2>2. chunk' \in [Jobs -> [Slices -> JobStatus]]
    BY <1>13, <2>1 DEF TypeOK, MarkChunkSucceeded, JobStatus
  <2>3. fileCount' \in [Jobs -> [Slices -> {0, 1}]]
    BY <1>13, <2>1 DEF TypeOK, MarkChunkSucceeded
  <2>4. pc' \in [Threads -> Pcs]
    BY <1>13 DEF TypeOK, MarkChunkSucceeded, Goto, Pcs
  <2>5. QED
    BY <1>13, <2>2, <2>3, <2>4 DEF TypeOK, MarkChunkSucceeded, locals, budgets
<1>14. CASE MarkChunkFailed(t)
  <2>1. mine[t] \in Jobs
    BY <1>0, <1>14 DEF MarkChunkFailed
  <2>2. chunk' \in [Jobs -> [Slices -> JobStatus]]
    BY <1>14, <2>1 DEF TypeOK, MarkChunkFailed, JobStatus
  <2>3. pc' \in [Threads -> Pcs] /\ failures' \in [Threads -> BOOLEAN]
    BY <1>14 DEF TypeOK, MarkChunkFailed, Goto, Pcs
  <2>4. QED
    BY <1>14, <2>2, <2>3 DEF TypeOK, MarkChunkFailed, budgets
<1>15. CASE VerifyChunks(t)
  BY <1>15 DEF TypeOK, VerifyChunks, Goto, Pcs, db, locals, budgets
<1>16. CASE SucceedJob(t)
  <2>1. job' \in [Jobs -> JobStatus] /\ result' \in [Jobs -> ResultKinds]
    BY <1>16 DEF TypeOK, SucceedJob, JobStatus, ResultKinds
  <2>2. QED
    BY <1>16, <2>1, IdleTypes DEF TypeOK, LocalsOK, SucceedJob, budgets
<1>17. CASE FailJob(t)
  <2>1. job' \in [Jobs -> JobStatus] /\ result' \in [Jobs -> ResultKinds]
    BY <1>17 DEF TypeOK, FailJob, JobStatus, ResultKinds
  <2>2. QED
    BY <1>17, <2>1, IdleTypes DEF TypeOK, LocalsOK, FailJob, budgets
<1>18. QED
  BY <1>1, <1>2, <1>3, <1>4, <1>5, <1>6, <1>7, <1>8, <1>9, <1>10, <1>11, <1>12,
     <1>13, <1>14, <1>15, <1>16, <1>17 DEF Work

LEMMA TypeStep ==
  ASSUME TypeOK, ThreadOwnsJob, FileIsRecorded, [Next]_vars
  PROVE  TypeOK'
<1>1. ASSUME NEW t \in Threads, NEW j \in Jobs, NEW S \in SUBSET Slices,
             NEW mode \in Modes, Submit(t, j, S, mode)
      PROVE  TypeOK'
  <2>1. job' \in [Jobs -> JobStatus] /\ wanted' \in [Jobs -> SUBSET Slices]
    BY <1>1 DEF TypeOK, Submit, JobStatus
  <2>2. PlanChunks(S, mode) \in SUBSET Slices
    BY DEF PlanChunks
  <2>3. todo' \in [Threads -> SUBSET Slices] /\ op' \in [Threads -> Ops]
    BY <1>1, <2>2 DEF TypeOK, Submit, Ops
  <2>4. mine' \in [Threads -> Jobs \union {NoJob}] /\ pc' \in [Threads -> Pcs]
    BY <1>1 DEF TypeOK, Submit, Goto, Pcs
  <2>5. QED
    BY <1>1, <2>1, <2>3, <2>4 DEF TypeOK, Submit, budgets
<1>2. ASSUME NEW t \in Threads, NEW j \in Jobs, Retry(t, j)
      PROVE  TypeOK'
  <2>1. mine' \in [Threads -> Jobs \union {NoJob}] /\ pc' \in [Threads -> Pcs]
    BY <1>2 DEF TypeOK, Retry, Goto, Pcs
  <2>2. op' \in [Threads -> Ops] /\ retries' \in 0 .. MaxRetries
    BY <1>2, ConstantsAssumption DEF TypeOK, Retry, Ops
  <2>3. QED
    BY <1>2, <2>1, <2>2 DEF TypeOK, Retry, db
<1>3. ASSUME Crash
      PROVE  TypeOK'
  BY <1>3, ConstantsAssumption DEF TypeOK, Crash, Pcs, Ops, Slices, db
<1>4. CASE UNCHANGED vars
  BY <1>4 DEF TypeOK, vars, db, locals, budgets
<1>5. QED
  BY <1>1, <1>2, <1>3, <1>4, NextCases, TypeWork
----
(***************************************************************************)
(* What one statement of a thread leaves alone.                            *)
(***************************************************************************)
OthersUntouched(t) ==
  \A u \in Threads \ {t} :
    /\ pc'[u] = pc[u]
    /\ op'[u] = op[u]
    /\ mine'[u] = mine[u]
    /\ todo'[u] = todo[u]
    /\ at'[u] = at[u]
    /\ failures'[u] = failures[u]
    /\ got'[u] = got[u]

LEMMA WorkIsLocal ==
  ASSUME TypeOK, NEW t \in Threads, Work(t)
  PROVE  OthersUntouched(t)
<1>1. CASE CreateChunk(t)
  BY <1>1 DEF TypeOK, OthersUntouched, CreateChunk
<1>2. CASE ListCached(t)
  BY <1>2 DEF TypeOK, OthersUntouched, ListCached, Goto, db
<1>3. CASE CloseCachedChunk(t)
  BY <1>3 DEF TypeOK, OthersUntouched, CloseCachedChunk
<1>4. CASE FinishCached(t)
  BY <1>4 DEF TypeOK, OthersUntouched, FinishCached, Idle
<1>5. CASE MarkRunning(t)
  BY <1>5 DEF TypeOK, OthersUntouched, MarkRunning, Goto, locals
<1>6. CASE ListChunks(t)
  BY <1>6 DEF TypeOK, OthersUntouched, ListChunks, Goto, db
<1>7. CASE MarkChunkRunning(t)
  BY <1>7 DEF TypeOK, OthersUntouched, MarkChunkRunning, Goto
<1>8. CASE DownloadBars(t)
  BY <1>8 DEF TypeOK, OthersUntouched, DownloadBars, Goto, db
<1>9. CASE InsertFile(t)
  BY <1>9 DEF TypeOK, OthersUntouched, InsertFile, Goto, locals
<1>10. CASE ReadSummary(t)
  BY <1>10 DEF TypeOK, OthersUntouched, ReadSummary, Goto, db
<1>11. CASE DropSummary(t)
  BY <1>11 DEF TypeOK, OthersUntouched, DropSummary, Goto, locals
<1>12. CASE PutSummary(t)
  BY <1>12 DEF TypeOK, OthersUntouched, PutSummary, Goto
<1>13. CASE MarkChunkSucceeded(t)
  BY <1>13 DEF TypeOK, OthersUntouched, MarkChunkSucceeded, Goto, locals
<1>14. CASE MarkChunkFailed(t)
  BY <1>14 DEF TypeOK, OthersUntouched, MarkChunkFailed, Goto
<1>15. CASE VerifyChunks(t)
  BY <1>15 DEF TypeOK, OthersUntouched, VerifyChunks, Goto, db, locals
<1>16. CASE SucceedJob(t)
  BY <1>16 DEF TypeOK, OthersUntouched, SucceedJob, Idle
<1>17. CASE FailJob(t)
  BY <1>17 DEF TypeOK, OthersUntouched, FailJob, Idle
<1>18. QED
  BY <1>1, <1>2, <1>3, <1>4, <1>5, <1>6, <1>7, <1>8, <1>9, <1>10, <1>11,
     <1>12, <1>13, <1>14, <1>15, <1>16, <1>17 DEF Work

LEMMA WorkKeepsJob ==
  ASSUME TypeOK, NEW t \in Threads, Work(t)
  PROVE  /\ pc[t] # "idle"
         /\ pc'[t] # "idle" => mine'[t] = mine[t] /\ op'[t] = op[t]
         /\ pc'[t] = "idle" => mine'[t] = NoJob
<1>1. CASE CreateChunk(t)
  BY <1>1 DEF TypeOK, CreateChunk
<1>2. CASE ListCached(t)
  BY <1>2 DEF TypeOK, ListCached, Goto, db
<1>3. CASE CloseCachedChunk(t)
  BY <1>3 DEF TypeOK, CloseCachedChunk
<1>4. CASE FinishCached(t)
  BY <1>4 DEF TypeOK, FinishCached, Idle
<1>5. CASE MarkRunning(t)
  BY <1>5 DEF TypeOK, MarkRunning, Goto, locals
<1>6. CASE ListChunks(t)
  BY <1>6 DEF TypeOK, ListChunks, Goto, db
<1>7. CASE MarkChunkRunning(t)
  BY <1>7 DEF TypeOK, MarkChunkRunning, Goto
<1>8. CASE DownloadBars(t)
  BY <1>8 DEF TypeOK, DownloadBars, Goto, db
<1>9. CASE InsertFile(t)
  BY <1>9 DEF TypeOK, InsertFile, Goto, locals
<1>10. CASE ReadSummary(t)
  BY <1>10 DEF TypeOK, ReadSummary, Goto, db
<1>11. CASE DropSummary(t)
  BY <1>11 DEF TypeOK, DropSummary, Goto, locals
<1>12. CASE PutSummary(t)
  BY <1>12 DEF TypeOK, PutSummary, Goto
<1>13. CASE MarkChunkSucceeded(t)
  BY <1>13 DEF TypeOK, MarkChunkSucceeded, Goto, locals
<1>14. CASE MarkChunkFailed(t)
  BY <1>14 DEF TypeOK, MarkChunkFailed, Goto
<1>15. CASE VerifyChunks(t)
  BY <1>15 DEF TypeOK, VerifyChunks, Goto, db, locals
<1>16. CASE SucceedJob(t)
  BY <1>16 DEF TypeOK, SucceedJob, Idle
<1>17. CASE FailJob(t)
  BY <1>17 DEF TypeOK, FailJob, Idle
<1>18. QED
  BY <1>1, <1>2, <1>3, <1>4, <1>5, <1>6, <1>7, <1>8, <1>9, <1>10, <1>11,
     <1>12, <1>13, <1>14, <1>15, <1>16, <1>17 DEF Work

LEMMA WorkKeepsRows ==
  ASSUME TypeOK, NEW t \in Threads, Work(t)
  PROVE  /\ wanted' = wanted
         /\ indexed \subseteq indexed'
         /\ \A j \in Jobs : job[j] # "absent" => job'[j] # "absent"
         /\ \A j \in Jobs \ {mine[t]} :
              job'[j] = job[j] /\ chunk'[j] = chunk[j] /\ result'[j] = result[j]
<1>1. CASE CreateChunk(t)
  BY <1>1 DEF TypeOK, CreateChunk
<1>2. CASE ListCached(t)
  BY <1>2 DEF TypeOK, ListCached, Goto, db
<1>3. CASE CloseCachedChunk(t)
  BY <1>3 DEF TypeOK, CloseCachedChunk
<1>4. CASE FinishCached(t)
  BY <1>4 DEF TypeOK, FinishCached, Idle
<1>5. CASE MarkRunning(t)
  BY <1>5 DEF TypeOK, MarkRunning, Goto, locals
<1>6. CASE ListChunks(t)
  BY <1>6 DEF TypeOK, ListChunks, Goto, db
<1>7. CASE MarkChunkRunning(t)
  BY <1>7 DEF TypeOK, MarkChunkRunning, Goto
<1>8. CASE DownloadBars(t)
  BY <1>8 DEF TypeOK, DownloadBars, Goto, db
<1>9. CASE InsertFile(t)
  BY <1>9 DEF TypeOK, InsertFile, Goto, locals
<1>10. CASE ReadSummary(t)
  BY <1>10 DEF TypeOK, ReadSummary, Goto, db
<1>11. CASE DropSummary(t)
  BY <1>11 DEF TypeOK, DropSummary, Goto, locals
<1>12. CASE PutSummary(t)
  BY <1>12 DEF TypeOK, PutSummary, Goto
<1>13. CASE MarkChunkSucceeded(t)
  BY <1>13 DEF TypeOK, MarkChunkSucceeded, Goto, locals
<1>14. CASE MarkChunkFailed(t)
  BY <1>14 DEF TypeOK, MarkChunkFailed, Goto
<1>15. CASE VerifyChunks(t)
  BY <1>15 DEF TypeOK, VerifyChunks, Goto, db, locals
<1>16. CASE SucceedJob(t)
  BY <1>16 DEF TypeOK, SucceedJob, Idle
<1>17. CASE FailJob(t)
  BY <1>17 DEF TypeOK, FailJob, Idle
<1>18. QED
  BY <1>1, <1>2, <1>3, <1>4, <1>5, <1>6, <1>7, <1>8, <1>9, <1>10, <1>11,
     <1>12, <1>13, <1>14, <1>15, <1>16, <1>17 DEF Work

LEMMA IndexedStays ==
  ASSUME NEW s \in Slices, IsIndexed(s), indexed \subseteq indexed'
  PROVE  IsIndexed(s)'
BY DEF IsIndexed

----
(***************************************************************************)
(* One lemma for each part of IndexInv.                                    *)
(***************************************************************************)
LEMMA ThreadOwnsJobStep ==
  ASSUME TypeOK, ThreadOwnsJob, [Next]_vars
  PROVE  ThreadOwnsJob'
<1>1. ASSUME NEW t \in Threads, NEW j \in Jobs, NEW S \in SUBSET Slices,
             NEW mode \in Modes, Submit(t, j, S, mode)
      PROVE  ThreadOwnsJob'
  BY <1>1 DEF TypeOK, ThreadOwnsJob, Submit, Goto
<1>2. ASSUME NEW t \in Threads, NEW j \in Jobs, Retry(t, j)
      PROVE  ThreadOwnsJob'
  <2>1. job[j] # "absent"
    BY <1>2 DEF ThreadOwnsJob, Retry
  <2>2. QED
    BY <1>2, <2>1 DEF TypeOK, ThreadOwnsJob, Retry, Goto, db
<1>3. ASSUME NEW t \in Threads, Work(t)
      PROVE  ThreadOwnsJob'
  <2>1. pc[t] # "idle" /\ mine[t] \in Jobs
    BY <1>3, WorkKeepsJob DEF ThreadOwnsJob
  <2>2. ASSUME NEW u \in Threads, pc'[u] # "idle"
        PROVE  mine'[u] \in Jobs /\ job'[mine'[u]] # "absent"
    <3>1. mine'[u] = mine[u] /\ pc[u] # "idle"
      BY <1>3, <2>1, <2>2, WorkKeepsJob, WorkIsLocal DEF OthersUntouched
    <3>2. QED
      BY <1>3, <3>1, WorkKeepsRows DEF ThreadOwnsJob
  <2>3. ASSUME NEW j \in Jobs, NEW s \in Slices, chunk'[j][s] # "absent"
        PROVE  job'[j] # "absent"
    BY <1>3, <2>1, <2>3, WorkKeepsRows DEF ThreadOwnsJob
  <2>4. QED
    BY <2>2, <2>3 DEF ThreadOwnsJob
<1>4. CASE Crash
  BY <1>4 DEF ThreadOwnsJob, Crash, db
<1>5. CASE UNCHANGED vars
  BY <1>5 DEF ThreadOwnsJob, vars, db, locals
<1>6. QED
  BY <1>1, <1>2, <1>3, <1>4, <1>5, NextCases

LEMMA CachedIsCoveredStep ==
  ASSUME TypeOK, ThreadOwnsJob, CachedIsCovered, CachedJobIsCovered, [Next]_vars
  PROVE  CachedIsCovered' /\ CachedJobIsCovered'
<1>1. ASSUME NEW t \in Threads, NEW j \in Jobs, NEW S \in SUBSET Slices,
             NEW mode \in Modes, Submit(t, j, S, mode)
      PROVE  CachedIsCovered' /\ CachedJobIsCovered'
  <2>1. result[j] = "none" /\ result' = result /\ indexed' = indexed
    BY <1>1 DEF CachedIsCovered, Submit
  <2>2. /\ job' = [job EXCEPT ![j] = "queued"]
        /\ wanted' = [wanted EXCEPT ![j] = S]
    BY <1>1 DEF Submit
  <2>3. op'[t] = "cached" => \A s \in S : IsIndexed(s)
    BY <1>1 DEF TypeOK, Submit, IsCached, FullyCovered, Covered, IsIndexed
  <2>4. /\ mine'[t] = j /\ pc'[t] = "plan"
        /\ \A u \in Threads \ {t} : /\ pc'[u] = pc[u]
                                    /\ op'[u] = op[u]
                                    /\ mine'[u] = mine[u]
    BY <1>1 DEF TypeOK, Submit, Goto
  <2>5. \A u \in Threads \ {t} : pc[u] # "idle" => mine[u] # j
    BY <1>1 DEF ThreadOwnsJob, Submit
  <2>6. ASSUME NEW u \in Threads, pc'[u] \in {"plan", "cached"}, op'[u] = "cached",
               NEW s \in wanted'[mine'[u]]
        PROVE  IsIndexed(s)'
    <3>1. CASE u = t
      BY <2>1, <2>2, <2>3, <2>4, <2>6, <3>1 DEF TypeOK, IsIndexed
    <3>2. CASE u # t
      <4>1. mine'[u] = mine[u] /\ mine[u] \in Jobs \ {j}
        BY <2>4, <2>5, <2>6, <3>2 DEF ThreadOwnsJob
      <4>2. s \in wanted[mine[u]]
        BY <2>2, <2>6, <4>1 DEF TypeOK
      <4>3. IsIndexed(s)
        BY <2>4, <2>6, <3>2, <4>2 DEF CachedIsCovered
      <4>4. QED
        BY <2>1, <4>3 DEF IsIndexed
    <3>3. QED
      BY <3>1, <3>2
  <2>7. \A i \in Jobs : result'[i] # "none" => job'[i] # "absent"
    BY <2>1, <2>2 DEF TypeOK, CachedIsCovered
  <2>8. \A u \in Threads : pc'[u] = "cached" => op'[u] = "cached"
    BY <2>4 DEF CachedIsCovered
  <2>9. CachedJobIsCovered'
    BY <2>1, <2>2 DEF TypeOK, CachedJobIsCovered, IsIndexed
  <2>10. QED
    BY <2>6, <2>7, <2>8, <2>9 DEF CachedIsCovered
<1>2. ASSUME NEW t \in Threads, NEW j \in Jobs, Retry(t, j)
      PROVE  CachedIsCovered' /\ CachedJobIsCovered'
  BY <1>2 DEF TypeOK, CachedIsCovered, CachedJobIsCovered, IsIndexed, Retry, Goto, db
<1>3. ASSUME NEW t \in Threads, Work(t)
      PROVE  CachedIsCovered' /\ CachedJobIsCovered'
  <2>1. /\ pc[t] # "idle" /\ mine[t] \in Jobs
        /\ wanted' = wanted
        /\ indexed \subseteq indexed'
    BY <1>3, WorkKeepsJob, WorkKeepsRows DEF ThreadOwnsJob
  <2>2. ASSUME NEW i \in Jobs, result'[i] # "none"
        PROVE  job'[i] # "absent"
    BY <1>3, <2>1, <2>2, WorkKeepsRows DEF ThreadOwnsJob, CachedIsCovered
  <2>3. /\ pc'[t] = "cached" => pc[t] \in {"plan", "cached"} /\ op[t] = "cached"
        /\ pc'[t] = "plan" => pc[t] = "plan"
    <3>1. CASE CreateChunk(t) \/ CloseCachedChunk(t)
      BY <3>1 DEF CachedIsCovered, CreateChunk, CloseCachedChunk
    <3>2. CASE ListCached(t)
      BY <3>2 DEF TypeOK, ListCached, Goto
    <3>3. CASE FinishCached(t) \/ SucceedJob(t) \/ FailJob(t)
      BY <3>3 DEF TypeOK, FinishCached, SucceedJob, FailJob, Idle
    <3>4. CASE MarkRunning(t) \/ ListChunks(t) \/ MarkChunkRunning(t)
      BY <3>4 DEF TypeOK, MarkRunning, ListChunks, MarkChunkRunning, Goto
    <3>5. CASE DownloadBars(t)
      BY <3>5 DEF TypeOK, DownloadBars, Goto
    <3>6. CASE InsertFile(t) \/ ReadSummary(t) \/ DropSummary(t) \/ PutSummary(t)
      BY <3>6 DEF TypeOK, InsertFile, ReadSummary, DropSummary, PutSummary, Goto
    <3>7. CASE MarkChunkSucceeded(t) \/ MarkChunkFailed(t) \/ VerifyChunks(t)
      BY <3>7 DEF TypeOK, MarkChunkSucceeded, MarkChunkFailed, VerifyChunks, Goto
    <3>8. QED
      BY <1>3, <3>1, <3>2, <3>3, <3>4, <3>5, <3>6, <3>7 DEF Work
  <2>4. \A u \in Threads : pc'[u] = "cached" => op'[u] = "cached"
    BY <1>3, <2>3, WorkIsLocal, WorkKeepsJob DEF OthersUntouched, CachedIsCovered
  <2>5. ASSUME NEW u \in Threads, pc'[u] \in {"plan", "cached"}, op'[u] = "cached",
               NEW s \in wanted'[mine'[u]]
        PROVE  IsIndexed(s)'
    <3>1. /\ pc[u] \in {"plan", "cached"} /\ op[u] = "cached"
          /\ mine'[u] = mine[u] /\ mine[u] \in Jobs
      BY <1>3, <2>3, <2>5, WorkIsLocal, WorkKeepsJob DEF OthersUntouched, ThreadOwnsJob
    <3>2. IsIndexed(s) /\ s \in Slices
      BY <2>1, <2>5, <3>1 DEF TypeOK, CachedIsCovered
    <3>3. QED
      BY <2>1, <3>2, IndexedStays
  <2>6. ASSUME NEW i \in Jobs, result'[i] = "cached", NEW s \in wanted'[i]
        PROVE  IsIndexed(s)'
    <3>1. result[i] = "cached" \/ (i = mine[t] /\ pc[t] = "cached")
      <4>1. CASE FinishCached(t)
        BY <2>6, <4>1 DEF TypeOK, FinishCached
      <4>2. CASE SucceedJob(t) \/ FailJob(t)
        BY <2>6, <4>2 DEF TypeOK, SucceedJob, FailJob
      <4>3. CASE UNCHANGED result
        BY <2>6, <4>3
      <4>4. QED
        BY <1>3, <4>1, <4>2, <4>3
        DEF Work, CreateChunk, ListCached, CloseCachedChunk, MarkRunning, ListChunks,
            MarkChunkRunning, DownloadBars, InsertFile, ReadSummary, DropSummary,
            PutSummary, MarkChunkSucceeded, MarkChunkFailed, VerifyChunks, db
    <3>2. IsIndexed(s) /\ s \in Slices
      BY <2>1, <2>6, <3>1 DEF TypeOK, CachedIsCovered, CachedJobIsCovered
    <3>3. QED
      BY <2>1, <3>2, IndexedStays
  <2>7. QED
    BY <2>2, <2>4, <2>5, <2>6 DEF CachedIsCovered, CachedJobIsCovered
<1>4. CASE Crash
  BY <1>4 DEF CachedIsCovered, CachedJobIsCovered, IsIndexed, Crash, db
<1>5. CASE UNCHANGED vars
  BY <1>5 DEF CachedIsCovered, CachedJobIsCovered, IsIndexed, vars, db, locals
<1>6. QED
  BY <1>1, <1>2, <1>3, <1>4, <1>5, NextCases

LEMMA FileIsRecordedStep ==
  ASSUME TypeOK, FileIsRecorded, [Next]_vars
  PROVE  FileIsRecorded'
<1>1. ASSUME NEW t \in Threads, NEW j \in Jobs, NEW S \in SUBSET Slices,
             NEW mode \in Modes, Submit(t, j, S, mode)
      PROVE  FileIsRecorded'
  BY <1>1 DEF TypeOK, FileIsRecorded, Recording, Submit, Goto
<1>2. ASSUME NEW t \in Threads, NEW j \in Jobs, Retry(t, j)
      PROVE  FileIsRecorded'
  BY <1>2 DEF TypeOK, FileIsRecorded, Recording, Retry, Goto, db
<1>3. ASSUME NEW t \in Threads, Work(t)
      PROVE  FileIsRecorded'
  <2>1. /\ pc'[t] \in Recording \union {"insert"} => got'[t] \in Contents
        /\ pc'[t] \in Recording \union {"good"} /\ got'[t] # NoContent
             => <<at'[t], got'[t]>> \in indexed'
    <3>1. CASE CreateChunk(t) \/ CloseCachedChunk(t)
      BY <3>1 DEF FileIsRecorded, Recording, CreateChunk, CloseCachedChunk
    <3>2. CASE ListCached(t) \/ MarkRunning(t) \/ ListChunks(t)
      BY <3>2 DEF TypeOK, Recording, ListCached, MarkRunning, ListChunks, Goto
    <3>3. CASE FinishCached(t) \/ SucceedJob(t) \/ FailJob(t)
      BY <3>3 DEF TypeOK, Recording, FinishCached, SucceedJob, FailJob, Idle
    <3>4. CASE MarkChunkRunning(t)
      BY <3>4 DEF TypeOK, Recording, MarkChunkRunning, Goto
    <3>5. CASE DownloadBars(t)
      BY <3>5 DEF TypeOK, Recording, DownloadBars, Goto
    <3>6. CASE InsertFile(t)
      BY <3>6 DEF TypeOK, FileIsRecorded, Recording, InsertFile, Goto, locals
    <3>7. CASE ReadSummary(t)
      BY <3>7 DEF TypeOK, FileIsRecorded, Recording, ReadSummary, Goto, db
    <3>8. CASE DropSummary(t)
      BY <3>8 DEF TypeOK, FileIsRecorded, Recording, DropSummary, Goto, locals
    <3>9. CASE PutSummary(t)
      BY <3>9 DEF TypeOK, FileIsRecorded, Recording, PutSummary, Goto
    <3>10. CASE MarkChunkSucceeded(t) \/ MarkChunkFailed(t) \/ VerifyChunks(t)
      BY <3>10 DEF TypeOK, Recording, MarkChunkSucceeded, MarkChunkFailed, VerifyChunks, Goto
    <3>11. QED
      BY <1>3, <3>1, <3>2, <3>3, <3>4, <3>5, <3>6, <3>7, <3>8, <3>9, <3>10 DEF Work
  <2>2. ASSUME NEW u \in Threads \ {t}
        PROVE  /\ pc'[u] \in Recording \union {"insert"} => got'[u] \in Contents
               /\ pc'[u] \in Recording \union {"good"} /\ got'[u] # NoContent
                    => <<at'[u], got'[u]>> \in indexed'
    BY <1>3, WorkIsLocal, WorkKeepsRows DEF OthersUntouched, FileIsRecorded
  <2>3. QED
    BY <2>1, <2>2 DEF FileIsRecorded
<1>4. CASE Crash
  BY <1>4 DEF FileIsRecorded, Recording, Crash
<1>5. CASE UNCHANGED vars
  BY <1>5 DEF FileIsRecorded, Recording, vars, db, locals
<1>6. QED
  BY <1>1, <1>2, <1>3, <1>4, <1>5, NextCases

LEMMA SucceededChunkStep ==
  ASSUME TypeOK, ThreadOwnsJob, FileIsRecorded, SucceededChunkIsIndexed, [Next]_vars
  PROVE  SucceededChunkIsIndexed'
<1>1. ASSUME NEW t \in Threads, NEW j \in Jobs, NEW S \in SUBSET Slices,
             NEW mode \in Modes, Submit(t, j, S, mode)
      PROVE  SucceededChunkIsIndexed'
  BY <1>1 DEF SucceededChunkIsIndexed, IsIndexed, Submit
<1>2. ASSUME NEW t \in Threads, NEW j \in Jobs, Retry(t, j)
      PROVE  SucceededChunkIsIndexed'
  BY <1>2 DEF SucceededChunkIsIndexed, IsIndexed, Retry, db
<1>3. ASSUME NEW t \in Threads, Work(t)
      PROVE  SucceededChunkIsIndexed'
  <2>1. pc[t] # "idle" /\ mine[t] \in Jobs /\ indexed \subseteq indexed'
    BY <1>3, WorkKeepsJob, WorkKeepsRows DEF ThreadOwnsJob
  <2>2. ASSUME NEW j \in Jobs, NEW s \in Slices,
               chunk'[j][s] = "succeeded", fileCount'[j][s] = 1
        PROVE  IsIndexed(s)'
    <3>1. CASE chunk[j][s] = "succeeded" /\ fileCount[j][s] = 1
      BY <2>1, <3>1, IndexedStays DEF SucceededChunkIsIndexed
    <3>2. CASE MarkChunkSucceeded(t) /\ j = mine[t] /\ s = at[t]
      <4>1. got[t] # NoContent
        BY <2>1, <2>2, <3>2 DEF TypeOK, MarkChunkSucceeded
      <4>2. <<at[t], got[t]>> \in indexed
        BY <3>2, <4>1 DEF MarkChunkSucceeded, FileIsRecorded
      <4>3. IsIndexed(s)
        BY <3>2, <4>1, <4>2 DEF TypeOK, IsIndexed
      <4>4. QED
        BY <2>1, <4>3, IndexedStays
    <3>3. CASE MarkChunkSucceeded(t) /\ ~(j = mine[t] /\ s = at[t])
      <4>1. chunk'[j][s] = chunk[j][s] /\ fileCount'[j][s] = fileCount[j][s]
        BY <2>1, <3>3 DEF TypeOK, MarkChunkSucceeded
      <4>2. QED
        BY <2>2, <3>1, <4>1
    <3>4. CASE CreateChunk(t) \/ MarkChunkRunning(t) \/ MarkChunkFailed(t)
      <4>1. PICK r \in Slices, status \in {"queued", "running", "failed"} :
              chunk' = [chunk EXCEPT ![mine[t]][r] = status]
        BY <3>4 DEF TypeOK, CreateChunk, MarkChunkRunning, MarkChunkFailed
      <4>2. chunk[j][s] = "succeeded"
        BY <2>1, <2>2, <4>1 DEF TypeOK
      <4>3. fileCount' = fileCount
        BY <3>4 DEF CreateChunk, MarkChunkRunning, MarkChunkFailed
      <4>4. QED
        BY <2>2, <3>1, <4>2, <4>3
    <3>5. CASE CloseCachedChunk(t)
      <4>1. PICK r \in Slices : /\ chunk' = [chunk EXCEPT ![mine[t]][r] = "succeeded"]
                                /\ fileCount' = [fileCount EXCEPT ![mine[t]][r] = 0]
        BY <3>5 DEF CloseCachedChunk
      <4>2. ~(j = mine[t] /\ s = r)
        BY <2>1, <2>2, <4>1 DEF TypeOK
      <4>3. chunk'[j][s] = chunk[j][s] /\ fileCount'[j][s] = fileCount[j][s]
        BY <2>1, <4>1, <4>2 DEF TypeOK
      <4>4. QED
        BY <2>2, <3>1, <4>3
    <3>6. CASE UNCHANGED <<chunk, fileCount>>
      BY <2>2, <3>1, <3>6
    <3>7. QED
      BY <1>3, <3>2, <3>3, <3>4, <3>5, <3>6
      DEF Work, ListCached, FinishCached, MarkRunning, ListChunks, DownloadBars,
          InsertFile, ReadSummary, DropSummary, PutSummary, VerifyChunks,
          SucceedJob, FailJob, db
  <2>3. QED
    BY <2>2 DEF SucceededChunkIsIndexed
<1>4. CASE Crash
  BY <1>4 DEF SucceededChunkIsIndexed, IsIndexed, Crash, db
<1>5. CASE UNCHANGED vars
  BY <1>5 DEF SucceededChunkIsIndexed, IsIndexed, vars, db
<1>6. QED
  BY <1>1, <1>2, <1>3, <1>4, <1>5, NextCases

----
LEMMA IndexInvInit == Init => IndexInv
<1>1. Init => TypeOK
  BY TypeInit
<1>2. Init => ThreadOwnsJob /\ FileIsRecorded /\ CachedIsCovered
  BY DEF Init, ThreadOwnsJob, FileIsRecorded, Recording, CachedIsCovered
<1>3. Init => SucceededChunkIsIndexed /\ CachedJobIsCovered
  BY DEF Init, SucceededChunkIsIndexed, CachedJobIsCovered
<1>4. QED
  BY <1>1, <1>2, <1>3 DEF IndexInv

LEMMA IndexInvStep == IndexInv /\ [Next]_vars => IndexInv'
BY TypeStep, ThreadOwnsJobStep, FileIsRecordedStep, CachedIsCoveredStep, SucceededChunkStep
DEF IndexInv

LEMMA IndexInvariant == Spec => []IndexInv
BY IndexInvInit, IndexInvStep, PTL DEF Spec

(***************************************************************************)
(* The values of the tables and of the threads stay within their types,    *)
(* under overlapping retries and crashes.                                  *)
(***************************************************************************)
THEOREM TypeCorrect == Spec => []TypeOK
<1>1. IndexInv => TypeOK
  BY DEF IndexInv
<1>2. QED
  BY <1>1, IndexInvariant, PTL

(***************************************************************************)
(* A succeeded chunk that reports a file has a file in data_files, for any *)
(* number of overlapping submissions, retries and crashes.                 *)
(***************************************************************************)
THEOREM SucceededChunkCorrect == Spec => []SucceededChunkIsIndexed
<1>1. IndexInv => SucceededChunkIsIndexed
  BY DEF IndexInv
<1>2. QED
  BY <1>1, IndexInvariant, PTL

(***************************************************************************)
(* A job answered from the cache is covered by recorded files: no hole of  *)
(* the coverage is ever reported as cached.                                *)
(***************************************************************************)
THEOREM CachedJobCorrect == Spec => []CachedJobIsCovered
<1>1. IndexInv => CachedJobIsCovered
  BY DEF IndexInv
<1>2. QED
  BY <1>1, IndexInvariant, PTL

----
(***************************************************************************)
(* The coverage rows.  A file is counted once its thread has put the row   *)
(* back (or lost the race for it): neither the row of its symbol nor what  *)
(* a thread read of it exceeds the number of those.  Rows of data_files    *)
(* are distinct, for the primary key refuses a second one, so the file a    *)
(* thread is about to count is not among them yet.                         *)
(***************************************************************************)
Counted ==
  {f \in indexed : \A t \in Threads : pc[t] \in Recording => f # <<at[t], got[t]>>}

CountedOf(x) == {f \in Counted : SymbolOf[f[1]] = x}

RecordedApart ==
  \A t, u \in Threads :
    t # u /\ pc[t] \in Recording /\ pc[u] \in Recording
      => <<at[t], got[t]>> # <<at[u], got[u]>>

CountInv ==
  /\ IsFiniteSet(indexed)
  /\ RecordedApart
  /\ \A x \in Symbols : summary[x] <= Cardinality(CountedOf(x))
  /\ \A t \in Threads :
       pc[t] \in {"drop", "put"} => seen[t] <= Cardinality(CountedOf(SymbolOf[at[t]]))

LEMMA IndexStaysFinite ==
  ASSUME IsFiniteSet(indexed), [Next]_vars
  PROVE  IsFiniteSet(indexed')
<1>1. ASSUME NEW t \in Threads, Work(t)
      PROVE  indexed' = indexed \/ \E f : indexed' = indexed \union {f}
  BY <1>1
  DEF Work, CreateChunk, ListCached, CloseCachedChunk, FinishCached, MarkRunning,
      ListChunks, MarkChunkRunning, DownloadBars, InsertFile, ReadSummary, DropSummary,
      PutSummary, MarkChunkSucceeded, MarkChunkFailed, VerifyChunks, SucceedJob,
      FailJob, db
<1>2. indexed' = indexed \/ \E f : indexed' = indexed \union {f}
  BY <1>1, NextCases DEF Submit, Retry, Crash, vars, db
<1>3. QED
  BY <1>2, FS_AddElement

\* A thread comes to Recording by an INSERT of a new row only.
LEMMA WorkRecords ==
  ASSUME TypeOK, NEW t \in Threads, Work(t), pc'[t] \in Recording
  PROVE  /\ at'[t] = at[t] /\ got'[t] = got[t]
         /\ pc[t] \in Recording \/ <<at[t], got[t]>> \notin indexed
<1>1. InsertFile(t) \/ ReadSummary(t) \/ DropSummary(t)
  <2>1. CASE CreateChunk(t) \/ CloseCachedChunk(t)
    BY <2>1 DEF Recording, CreateChunk, CloseCachedChunk
  <2>2. CASE ListCached(t) \/ MarkRunning(t) \/ ListChunks(t) \/ MarkChunkRunning(t)
    BY <2>2 DEF TypeOK, Recording, ListCached, MarkRunning, ListChunks, MarkChunkRunning, Goto
  <2>3. CASE FinishCached(t) \/ SucceedJob(t) \/ FailJob(t)
    BY <2>3 DEF TypeOK, Recording, FinishCached, SucceedJob, FailJob, Idle
  <2>4. CASE DownloadBars(t) \/ PutSummary(t)
    BY <2>4 DEF TypeOK, Recording, DownloadBars, PutSummary, Goto
  <2>5. CASE MarkChunkSucceeded(t) \/ MarkChunkFailed(t) \/ VerifyChunks(t)
    BY <2>5 DEF TypeOK, Recording, MarkChunkSucceeded, MarkChunkFailed, VerifyChunks, Goto
  <2>6. QED
    BY <2>1, <2>2, <2>3, <2>4, <2>5 DEF Work
<1>2. CASE InsertFile(t)
  BY <1>2 DEF TypeOK, InsertFile, Goto, Recording, locals
<1>3. CASE ReadSummary(t) \/ DropSummary(t)
  BY <1>3 DEF TypeOK, ReadSummary, DropSummary, Recording, locals
<1>4. QED
  BY <1>1, <1>2, <1>3

\* No step takes a file out of the counted ones, and no two threads ever
\* record the same row.
LEMMA CountedGrows ==
  ASSUME TypeOK, FileIsRecorded, RecordedApart, [Next]_vars
  PROVE  RecordedApart' /\ Counted \subseteq Counted'
<1>1. ASSUME NEW t \in Threads,
             \A u \in Threads \ {t} : /\ pc'[u] = pc[u]
                                      /\ at'[u] = at[u]
                                      /\ got'[u] = got[u],
             indexed \subseteq indexed',
             pc'[t] \in Recording =>
               /\ at'[t] = at[t] /\ got'[t] = got[t]
               /\ pc[t] \in Recording \/ <<at[t], got[t]>> \notin indexed
      PROVE  RecordedApart' /\ Counted \subseteq Counted'
  <2>1. ASSUME NEW u \in Threads, NEW v \in Threads, u # v,
               pc'[u] \in Recording, pc'[v] \in Recording
        PROVE  <<at'[u], got'[u]>> # <<at'[v], got'[v]>>
    <3>1. ASSUME NEW w \in Threads \ {t}, pc'[t] \in Recording, pc'[w] \in Recording
          PROVE  <<at'[t], got'[t]>> # <<at'[w], got'[w]>>
      <4>1. pc[w] \in Recording /\ got[w] \in Contents
        BY <1>1, <3>1 DEF FileIsRecorded
      <4>2. <<at[w], got[w]>> \in indexed
        BY <4>1, ConstantsAssumption DEF FileIsRecorded
      <4>3. QED
        BY <1>1, <3>1, <4>1, <4>2 DEF RecordedApart
    <3>2. CASE u = t \/ v = t
      BY <2>1, <3>1, <3>2
    <3>3. CASE u # t /\ v # t
      BY <1>1, <2>1, <3>3 DEF RecordedApart
    <3>4. QED
      BY <3>2, <3>3
  <2>2. ASSUME NEW f \in Counted, NEW u \in Threads, pc'[u] \in Recording
        PROVE  f # <<at'[u], got'[u]>>
    BY <1>1, <2>2 DEF Counted
  <2>3. Counted \subseteq Counted'
    BY <1>1, <2>2 DEF Counted
  <2>4. QED
    BY <2>1, <2>3 DEF RecordedApart
<1>2. ASSUME NEW t \in Threads, NEW j \in Jobs, NEW S \in SUBSET Slices,
             NEW mode \in Modes, Submit(t, j, S, mode)
      PROVE  RecordedApart' /\ Counted \subseteq Counted'
  BY <1>1, <1>2 DEF TypeOK, Submit, Goto, Recording
<1>3. ASSUME NEW t \in Threads, NEW j \in Jobs, Retry(t, j)
      PROVE  RecordedApart' /\ Counted \subseteq Counted'
  BY <1>1, <1>3 DEF TypeOK, Retry, Goto, Recording, db
<1>4. ASSUME NEW t \in Threads, Work(t)
      PROVE  RecordedApart' /\ Counted \subseteq Counted'
  BY <1>1, <1>4, WorkIsLocal, WorkKeepsRows, WorkRecords DEF OthersUntouched
<1>5. CASE Crash
  BY <1>5 DEF RecordedApart, Counted, Recording, Crash, db
<1>6. CASE UNCHANGED vars
  BY <1>6 DEF RecordedApart, Counted, vars, db, locals
<1>7. QED
  BY <1>2, <1>3, <1>4, <1>5, <1>6, NextCases

LEMMA CountedIsFinite ==
  ASSUME IsFiniteSet(indexed), NEW x
  PROVE  /\ IsFiniteSet(CountedOf(x))
         /\ Cardinality(CountedOf(x)) \in Nat
         /\ Cardinality(RecordedOf(x)) \in Nat
         /\ Cardinality(CountedOf(x)) <= Cardinality(RecordedOf(x))
<1>1. CountedOf(x) \subseteq RecordedOf(x) /\ RecordedOf(x) \subseteq indexed
  BY DEF CountedOf, RecordedOf, Counted
<1>2. IsFiniteSet(RecordedOf(x))
  BY <1>1, FS_Subset
<1>3. IsFiniteSet(CountedOf(x)) /\ Cardinality(CountedOf(x)) <= Cardinality(RecordedOf(x))
  BY <1>1, <1>2, FS_Subset
<1>4. QED
  BY <1>2, <1>3, FS_CardinalityType

\* What the rows and the threads' copies of them may do in a step.
KeptOrDropped == \A x \in Symbols : summary'[x] \in {0, summary[x]}

CopyIsKept(u) == seen'[u] = seen[u] /\ at'[u] = at[u] /\ pc[u] \in {"drop", "put"}

CopyIsRead(u) == at'[u] = at[u] /\ seen'[u] = summary[SymbolOf[at[u]]]

PutsBack(t) ==
  /\ pc[t] = "put" /\ pc'[t] = "good"
  /\ at'[t] = at[t] /\ got'[t] = got[t]
  /\ indexed' = indexed
  /\ summary' = [summary EXCEPT ![SymbolOf[at[t]]] = seen[t] + 1]

LEMMA SummaryCases ==
  ASSUME TypeOK, [Next]_vars
  PROVE  /\ KeptOrDropped \/ \E t \in Threads : PutsBack(t) /\ OthersUntouched(t)
         /\ \A u \in Threads :
              pc'[u] \in {"drop", "put"} => CopyIsRead(u) \/ CopyIsKept(u)
<1>0. summary' = summary => KeptOrDropped
  BY DEF KeptOrDropped
<1>1. ASSUME NEW t \in Threads, NEW j \in Jobs, NEW S \in SUBSET Slices,
             NEW mode \in Modes, Submit(t, j, S, mode)
      PROVE  /\ summary' = summary
             /\ \A u \in Threads : pc'[u] \in {"drop", "put"} => CopyIsKept(u)
  BY <1>1 DEF CopyIsKept, TypeOK, Submit, Goto
<1>2. ASSUME NEW t \in Threads, NEW j \in Jobs, Retry(t, j)
      PROVE  /\ summary' = summary
             /\ \A u \in Threads : pc'[u] \in {"drop", "put"} => CopyIsKept(u)
  BY <1>2 DEF CopyIsKept, TypeOK, Retry, Goto, db
<1>3. ASSUME NEW t \in Threads, ReadSummary(t) \/ DropSummary(t)
      PROVE  /\ KeptOrDropped
             /\ \A u \in Threads :
                  pc'[u] \in {"drop", "put"} => CopyIsRead(u) \/ CopyIsKept(u)
  BY <1>3 DEF KeptOrDropped, CopyIsRead, CopyIsKept, TypeOK, ReadSummary, DropSummary, Goto, db, locals
<1>4. ASSUME NEW t \in Threads, PutSummary(t)
      PROVE  /\ summary' = summary \/ PutsBack(t)
             /\ \A u \in Threads : pc'[u] \in {"drop", "put"} => CopyIsKept(u)
  BY <1>4 DEF PutsBack, CopyIsKept, TypeOK, PutSummary, Goto
<1>5. ASSUME NEW t \in Threads, Work(t),
             ~ReadSummary(t), ~DropSummary(t), ~PutSummary(t)
      PROVE  /\ summary' = summary
             /\ \A u \in Threads : pc'[u] \in {"drop", "put"} => CopyIsKept(u)
  <2>1. CASE CreateChunk(t) \/ CloseCachedChunk(t)
    BY <2>1 DEF CopyIsKept, CreateChunk, CloseCachedChunk
  <2>2. CASE ListCached(t) \/ MarkRunning(t) \/ ListChunks(t) \/ MarkChunkRunning(t)
    BY <2>2 DEF CopyIsKept, TypeOK, ListCached, MarkRunning, ListChunks, MarkChunkRunning, Goto,
                db, locals
  <2>3. CASE FinishCached(t) \/ SucceedJob(t) \/ FailJob(t)
    BY <2>3 DEF CopyIsKept, TypeOK, FinishCached, SucceedJob, FailJob, Idle
  <2>4. CASE DownloadBars(t) \/ InsertFile(t)
    BY <2>4 DEF CopyIsKept, TypeOK, DownloadBars, InsertFile, Goto, db, locals
  <2>5. CASE MarkChunkSucceeded(t) \/ MarkChunkFailed(t) \/ VerifyChunks(t)
    BY <2>5 DEF CopyIsKept, TypeOK, MarkChunkSucceeded, MarkChunkFailed, VerifyChunks, Goto,
                db, locals
  <2>6. QED
    BY <1>5, <2>1, <2>2, <2>3, <2>4, <2>5 DEF Work
<1>6. CASE Crash
  BY <1>0, <1>6 DEF CopyIsKept, Crash, db
<1>7. CASE UNCHANGED vars
  BY <1>0, <1>7 DEF CopyIsKept, vars, db, locals
<1>8. ASSUME NEW t \in Threads, Work(t), PutSummary(t)
      PROVE  OthersUntouched(t)
  BY <1>8, WorkIsLocal
<1>9. QED
  <2>1. ASSUME NEW t \in Threads, Work(t)
        PROVE  /\ KeptOrDropped \/ (PutsBack(t) /\ OthersUntouched(t))
               /\ \A u \in Threads :
                    pc'[u] \in {"drop", "put"} => CopyIsRead(u) \/ CopyIsKept(u)
    <3>1. CASE ReadSummary(t) \/ DropSummary(t)
      BY <1>3, <3>1
    <3>2. CASE PutSummary(t)
      BY <1>0, <1>4, <1>8, <2>1, <3>2
    <3>3. CASE ~ReadSummary(t) /\ ~DropSummary(t) /\ ~PutSummary(t)
      BY <1>0, <1>5, <2>1, <3>3
    <3>4. QED
      BY <3>1, <3>2, <3>3
  <2>2. QED
    BY <1>0, <1>1, <1>2, <1>6, <1>7, <2>1, NextCases

LEMMA CountInvStep ==
  ASSUME IndexInv, CountInv, [Next]_vars
  PROVE  CountInv'
<1>1. /\ TypeOK /\ FileIsRecorded
      /\ IsFiniteSet(indexed) /\ IsFiniteSet(indexed')
  BY IndexStaysFinite DEF IndexInv, CountInv
<1>2. RecordedApart' /\ Counted \subseteq Counted'
  BY <1>1, CountedGrows DEF CountInv
<1>3. ASSUME NEW x \in Symbols
      PROVE  /\ IsFiniteSet(CountedOf(x)')
             /\ Cardinality(CountedOf(x)) \in Nat /\ Cardinality(CountedOf(x)') \in Nat
             /\ Cardinality(CountedOf(x)) <= Cardinality(CountedOf(x)')
  <2>1. CountedOf(x)' \subseteq indexed' /\ CountedOf(x) \subseteq CountedOf(x)'
    BY <1>2 DEF CountedOf, Counted
  <2>2. IsFiniteSet(CountedOf(x)')
    BY <1>1, <2>1, FS_Subset
  <2>3. Cardinality(CountedOf(x)) <= Cardinality(CountedOf(x)')
    BY <2>1, <2>2, FS_Subset
  <2>4. QED
    BY <1>1, <2>2, <2>3, CountedIsFinite, FS_CardinalityType
<1>4. ASSUME NEW x \in Symbols, summary'[x] \in {0, summary[x]}
      PROVE  summary'[x] <= Cardinality(CountedOf(x)')
  <2>1. summary[x] \in Nat /\ summary[x] <= Cardinality(CountedOf(x))
    BY <1>1 DEF CountInv, TypeOK
  <2>2. QED
    BY <1>3, <1>4, <2>1
<1>5. ASSUME NEW x \in Symbols
      PROVE  summary'[x] <= Cardinality(CountedOf(x)')
  <2>1. CASE KeptOrDropped
    BY <1>4, <2>1 DEF KeptOrDropped
  <2>2. ASSUME NEW t \in Threads, PutsBack(t), OthersUntouched(t)
        PROVE  summary'[x] <= Cardinality(CountedOf(x)')
    <3> DEFINE file == <<at[t], got[t]>>
    <3>1. got[t] \in Contents
      BY <1>1, <2>2 DEF FileIsRecorded, Recording, PutsBack
    <3>2. file \in indexed
      BY <1>1, <2>2, <3>1, ConstantsAssumption DEF FileIsRecorded, Recording, PutsBack
    <3>3. file \notin Counted
      BY <2>2 DEF Counted, Recording, PutsBack
    <3>4. ASSUME NEW u \in Threads, pc'[u] \in Recording
          PROVE  file # <<at'[u], got'[u]>>
      <4>1. u # t
        BY <2>2, <3>4 DEF Recording, PutsBack
      <4>2. pc'[u] = pc[u] /\ at'[u] = at[u] /\ got'[u] = got[u]
        BY <2>2, <4>1 DEF OthersUntouched
      <4>3. QED
        BY <2>2, <3>4, <4>1, <4>2 DEF CountInv, RecordedApart, Recording, PutsBack
    <3>5. file \in Counted'
      BY <2>2, <3>2, <3>4 DEF Counted, PutsBack
    <3>6. CASE x = SymbolOf[at[t]]
      <4>1. file \notin CountedOf(x) /\ file[1] = at[t]
        BY <3>3 DEF CountedOf
      <4>2. CountedOf(x) \union {file} \subseteq CountedOf(x)'
        BY <1>2, <3>5, <3>6, <4>1 DEF CountedOf
      <4>3. Cardinality(CountedOf(x) \union {file}) = Cardinality(CountedOf(x)) + 1
        BY <1>1, <4>1, CountedIsFinite, FS_AddElement
      <4>4. Cardinality(CountedOf(x) \union {file}) <= Cardinality(CountedOf(x)')
        BY <1>3, <4>2, FS_Subset
      <4>5. seen[t] <= Cardinality(CountedOf(x)) /\ seen[t] \in Nat
        BY <1>1, <2>2, <3>6 DEF CountInv, TypeOK, PutsBack
      <4>6. summary'[x] = seen[t] + 1
        BY <1>1, <2>2, <3>6 DEF PutsBack, TypeOK
      <4>7. QED
        BY <1>3, <4>3, <4>4, <4>5, <4>6
    <3>7. CASE x # SymbolOf[at[t]]
      <4>1. summary'[x] = summary[x]
        BY <1>1, <2>2, <3>7 DEF PutsBack, TypeOK
      <4>2. QED
        BY <1>4, <4>1
    <3>8. QED
      BY <3>6, <3>7
  <2>3. QED
    BY <1>1, <2>1, <2>2, SummaryCases
<1>6. ASSUME NEW u \in Threads, pc'[u] \in {"drop", "put"}
      PROVE  seen'[u] <= Cardinality(CountedOf(SymbolOf[at[u]]))'
  <2>1. SymbolOf[at[u]] \in Symbols
    BY <1>1, SymbolOfSlice
  <2>2. CopyIsRead(u) \/ CopyIsKept(u)
    BY <1>1, <1>6, SummaryCases
  <2>3. seen'[u] \in Nat /\ seen'[u] <= Cardinality(CountedOf(SymbolOf[at[u]]))
    BY <1>1, <2>1, <2>2 DEF CountInv, TypeOK, CopyIsRead, CopyIsKept
  <2>4. at'[u] = at[u]
    BY <2>2 DEF CopyIsRead, CopyIsKept
  <2>5. ASSUME NEW x \in Symbols, x = SymbolOf[at[u]]
        PROVE  seen'[u] <= Cardinality(CountedOf(x)')
    BY <1>3, <2>3, <2>5
  <2>6. QED
    BY <2>1, <2>4, <2>5 DEF CountedOf, Counted
<1>7. QED
  BY <1>1, <1>2, <1>5, <1>6 DEF CountInv

(***************************************************************************)
(* The merged coverage row of a symbol never counts more files than        *)
(* data_files holds of it, however many threads read, drop and put it at   *)
(* once, and whatever a crash between the DELETE and the INSERT loses.     *)
(***************************************************************************)
THEOREM SummaryCorrect == Spec => []SummaryNeverOvercounts
<1>1. Init => CountInv
  <2>1. ASSUME Init
        PROVE  /\ IsFiniteSet(indexed)
               /\ \A x \in Symbols : Cardinality(CountedOf(x)) \in Nat
    BY <2>1, FS_EmptySet, CountedIsFinite DEF Init
  <2>2. ASSUME Init
        PROVE  CountInv
    BY <2>1, <2>2 DEF Init, CountInv, RecordedApart, Recording
  <2>3. QED
    BY <2>2
<1>2. CountInv /\ TypeOK => SummaryNeverOvercounts
  BY CountedIsFinite DEF CountInv, TypeOK, SummaryNeverOvercounts
<1>3. IndexInv => TypeOK
  BY DEF IndexInv
<1>4. QED
  BY <1>1, <1>2, <1>3, IndexInvariant, CountInvStep, PTL DEF Spec

----
(***************************************************************************)
(* Clients that leave a job alone while somebody works on it, on a server  *)
(* that stays up: SerialInv.  A step concerns the phase of its own thread  *)
(* and the job that thread holds.                                          *)
(***************************************************************************)
LEMMA PhaseStays ==
  ASSUME NEW u \in Threads, Phase(u),
         pc'[u] = pc[u], op'[u] = op[u], mine'[u] = mine[u], todo'[u] = todo[u],
         at'[u] = at[u], failures'[u] = failures[u],
         job'[mine[u]] = job[mine[u]], chunk'[mine[u]] = chunk[mine[u]]
  PROVE  Phase(u)'
BY DEF Phase, Planning, Closing, Retrying, Listing, Looping, Ahead, Finishing

\* What the step of a thread makes of its phase and of its job.
Advanced(t) ==
  /\ Phase(t)'
  /\ pc'[t] \in {"plan", "cached", "start", "list"} => failures'[t] = FALSE
  /\ pc'[t] = "idle" =>
       failures'[t] = FALSE /\ \A j \in Jobs : j = mine[t] => Resting(j)'

LEMMA PlanAdvances ==
  ASSUME TypeOK, NoFailureYet, NEW t \in Threads, Phase(t), mine[t] \in Jobs,
         CreateChunk(t) \/ ListCached(t) \/ CloseCachedChunk(t) \/ FinishCached(t)
  PROVE  Advanced(t)
<1>1. CASE CreateChunk(t)
  <2>1. PICK s \in Slices : /\ s \in todo[t]
                            /\ chunk' = [chunk EXCEPT ![mine[t]][s] = "queued"]
                            /\ todo' = [todo EXCEPT ![t] = @ \ {s}]
    BY <1>1 DEF CreateChunk, IsFirst
  <2>2. /\ chunk'[mine[t]][s] = "queued"
        /\ \A r \in Slices \ {s} : chunk'[mine[t]][r] = chunk[mine[t]][r]
        /\ todo'[t] = todo[t] \ {s}
    BY <2>1 DEF TypeOK
  <2>3. /\ pc[t] = "plan" /\ pc' = pc /\ mine' = mine /\ op' = op /\ job' = job
        /\ failures' = failures
    BY <1>1 DEF CreateChunk
  <2>4. Planning(t)'
    BY <2>2, <2>3 DEF Phase, Planning
  <2>5. QED
    BY <2>3, <2>4 DEF Advanced, Phase, InChunk, NoFailureYet
<1>2. CASE ListCached(t)
  <2>1. /\ pc[t] = "plan" /\ pc'[t] = "cached" /\ mine' = mine /\ job' = job
        /\ chunk' = chunk /\ failures' = failures
        /\ todo'[t] = Planned(mine[t])
    BY <1>2 DEF TypeOK, ListCached, Goto, db
  <2>2. Closing(t)'
    BY <2>1 DEF Phase, Planning, Closing, Planned, Done
  <2>3. QED
    BY <2>1, <2>2 DEF Advanced, Phase, InChunk, NoFailureYet
<1>3. CASE CloseCachedChunk(t)
  <2>1. PICK s \in Slices : /\ s \in todo[t]
                            /\ chunk' = [chunk EXCEPT ![mine[t]][s] = "succeeded"]
                            /\ todo' = [todo EXCEPT ![t] = @ \ {s}]
    BY <1>3 DEF CloseCachedChunk, IsFirst
  <2>2. /\ chunk'[mine[t]][s] = "succeeded"
        /\ \A r \in Slices \ {s} : chunk'[mine[t]][r] = chunk[mine[t]][r]
        /\ todo'[t] = todo[t] \ {s}
    BY <2>1 DEF TypeOK
  <2>3. /\ pc[t] = "cached" /\ pc' = pc /\ mine' = mine /\ job' = job
        /\ failures' = failures
    BY <1>3 DEF CloseCachedChunk
  <2>4. ASSUME NEW r \in Slices
        PROVE  chunk'[mine[t]][r] \in IF r \in todo'[t] THEN {"queued"} ELSE Done
    BY <2>2, <2>3 DEF Phase, Closing, Done
  <2>5. Closing(t)'
    BY <2>3, <2>4 DEF Phase, Closing
  <2>6. QED
    BY <2>3, <2>5 DEF Advanced, Phase, InChunk, NoFailureYet
<1>4. CASE FinishCached(t)
  <2>1. /\ pc[t] = "cached" /\ todo[t] = {} /\ chunk' = chunk
        /\ job'[mine[t]] = "succeeded"
        /\ pc'[t] = "idle" /\ failures'[t] = FALSE
    BY <1>4 DEF TypeOK, FinishCached, Idle
  <2>2. \A j \in Jobs : j = mine[t] => Resting(j)'
    BY <2>1 DEF Phase, Closing, Resting, Done, Settled
  <2>3. QED
    BY <2>1, <2>2 DEF Advanced, Phase, InChunk
<1>5. QED
  BY <1>1, <1>2, <1>3, <1>4

LEMMA StartAdvances ==
  ASSUME TypeOK, NoFailureYet, NEW t \in Threads, Phase(t), mine[t] \in Jobs,
         MarkRunning(t) \/ ListChunks(t) \/ MarkChunkRunning(t)
  PROVE  Advanced(t)
<1>1. CASE MarkRunning(t)
  <2>1. /\ pc'[t] = "list" /\ job'[mine[t]] = "running" /\ chunk' = chunk
        /\ mine' = mine /\ op' = op /\ failures' = failures
        /\ pc[t] = "start" \/ (pc[t] = "plan" /\ op[t] = "download")
    BY <1>1 DEF TypeOK, MarkRunning, Goto, locals
  <2>2. Listing(t)'
    BY <2>1 DEF Phase, Planning, Retrying, Listing
  <2>3. QED
    BY <2>1, <2>2 DEF Advanced, Phase, InChunk, NoFailureYet
<1>2. CASE ListChunks(t)
  <2>1. /\ pc[t] = "list" /\ pc'[t] = "loop" /\ job' = job /\ chunk' = chunk
        /\ mine' = mine /\ op' = op /\ failures' = failures
        /\ failures[t] = FALSE
        /\ todo'[t] = ChunksForRun(t)
    BY <1>2 DEF TypeOK, ListChunks, Goto, db, NoFailureYet
  <2>2. Listing(t)
    BY <2>1 DEF Phase
  <2>3. Looping(t)'
    <3>1. \A s \in todo'[t] : s \in Slices /\ chunk[mine[t]][s] \in {"queued", "failed"}
      BY <2>1, <2>2 DEF Listing, ChunksForRun, Planned
    <3>2. \A s \in Slices \ todo'[t] : chunk[mine[t]][s] \in Done
      BY <2>1, <2>2 DEF Listing, ChunksForRun, Planned, Settled, Done
    <3>3. QED
      BY <2>1, <2>2, <3>1, <3>2 DEF Listing, Looping, Ahead
  <2>4. QED
    BY <2>1, <2>3 DEF Advanced, Phase, InChunk
<1>3. CASE MarkChunkRunning(t)
  <2>1. PICK s \in Slices : /\ s \in todo[t]
                            /\ chunk' = [chunk EXCEPT ![mine[t]][s] = "running"]
                            /\ at' = [at EXCEPT ![t] = s]
                            /\ todo' = [todo EXCEPT ![t] = @ \ {s}]
    BY <1>3 DEF MarkChunkRunning, IsFirst
  <2>2. /\ chunk'[mine[t]][s] = "running"
        /\ \A r \in Slices \ {s} : chunk'[mine[t]][r] = chunk[mine[t]][r]
        /\ todo'[t] = todo[t] \ {s} /\ at'[t] = s
    BY <2>1 DEF TypeOK
  <2>3. /\ pc[t] = "loop" /\ pc'[t] = "download" /\ job' = job
        /\ mine' = mine /\ op' = op /\ failures' = failures
    BY <1>3 DEF TypeOK, MarkChunkRunning, Goto
  <2>4. Looping(t) /\ todo[t] \subseteq Slices
    BY <2>3 DEF Phase, TypeOK
  <2>5. Ahead(t) = todo[t] /\ Ahead(t)' = todo[t]
    BY <2>1, <2>2, <2>3 DEF Ahead
  <2>6. \A r \in todo'[t] : r \in Slices \ {s} /\ chunk'[mine[t]][r] \in {"queued", "failed"}
    BY <2>2, <2>4 DEF Looping
  <2>7. s \notin todo'[t] /\ \A r \in Slices \ todo[t] : r # s
    BY <2>1, <2>2
  <2>8. \A r \in Slices \ todo[t] :
          chunk'[mine[t]][r] \in IF failures[t] THEN Settled ELSE Done
    BY <2>2, <2>4, <2>5, <2>7 DEF Looping
  <2>9. failures[t] => \E r \in Slices \ todo[t] : chunk'[mine[t]][r] = "failed"
    BY <2>2, <2>4, <2>5, <2>7 DEF Looping
  <2>10. Looping(t)'
    BY <2>2, <2>3, <2>4, <2>5, <2>6, <2>7, <2>8, <2>9 DEF Looping
  <2>11. QED
    BY <2>3, <2>10 DEF Advanced, Phase, InChunk
<1>4. QED
  BY <1>1, <1>2, <1>3

LEMMA ChunkAdvances ==
  ASSUME TypeOK, NEW t \in Threads, Phase(t), mine[t] \in Jobs,
         \/ DownloadBars(t) \/ InsertFile(t) \/ ReadSummary(t) \/ DropSummary(t)
         \/ PutSummary(t) \/ MarkChunkSucceeded(t) \/ MarkChunkFailed(t)
  PROVE  Advanced(t)
<1>1. CASE \/ DownloadBars(t) \/ InsertFile(t) \/ ReadSummary(t) \/ DropSummary(t)
           \/ PutSummary(t)
  <2>1. /\ job' = job /\ chunk' = chunk /\ mine' = mine /\ op' = op
        /\ todo' = todo /\ at' = at /\ failures' = failures
    BY <1>1 DEF DownloadBars, InsertFile, ReadSummary, DropSummary, PutSummary, db, locals
  <2>2. pc[t] \in InChunk /\ pc'[t] \in InChunk
    BY <1>1 DEF TypeOK, DownloadBars, InsertFile, ReadSummary, DropSummary, PutSummary,
                Goto, InChunk
  <2>3. Looping(t)'
    BY <2>1, <2>2 DEF Phase, Looping, Ahead, InChunk
  <2>4. QED
    BY <2>2, <2>3 DEF Advanced, Phase, InChunk
<1>2. CASE MarkChunkSucceeded(t) \/ MarkChunkFailed(t)
  <2>1. /\ pc[t] \in {"good", "bad"} /\ pc'[t] = "loop"
        /\ job' = job /\ mine' = mine /\ op' = op /\ todo' = todo
        /\ \A r \in Slices \ {at[t]} : chunk'[mine[t]][r] = chunk[mine[t]][r]
    BY <1>2 DEF TypeOK, MarkChunkSucceeded, MarkChunkFailed, Goto, locals
  <2>2. /\ at[t] \in Slices
        /\ \/ chunk'[mine[t]][at[t]] = "succeeded" /\ failures' = failures
           \/ chunk'[mine[t]][at[t]] = "failed" /\ failures'[t] = TRUE
    BY <1>2 DEF TypeOK, MarkChunkSucceeded, MarkChunkFailed, locals
  <2>3. /\ Looping(t) /\ at[t] \notin todo[t]
        /\ Ahead(t) = todo[t] \union {at[t]} /\ Ahead(t)' = todo[t]
    BY <2>1 DEF Phase, Looping, Ahead, InChunk
  <2>4. \A s \in todo'[t] : chunk'[mine[t]][s] \in {"queued", "failed"}
    BY <2>1, <2>3 DEF Looping, TypeOK
  <2>5. ASSUME NEW s \in Slices \ todo[t]
        PROVE  chunk'[mine[t]][s] \in IF failures'[t] THEN Settled ELSE Done
    BY <2>1, <2>2, <2>3 DEF Looping, Settled, Done
  <2>6. failures'[t] => \E s \in Slices \ todo[t] : chunk'[mine[t]][s] = "failed"
    BY <2>1, <2>2, <2>3 DEF Looping
  <2>7. Looping(t)'
    BY <2>1, <2>3, <2>4, <2>5, <2>6 DEF Looping
  <2>8. QED
    BY <2>1, <2>7 DEF Advanced, Phase, InChunk
<1>3. QED
  BY <1>1, <1>2

LEMMA EndAdvances ==
  ASSUME TypeOK, NEW t \in Threads, Phase(t), mine[t] \in Jobs,
         VerifyChunks(t) \/ SucceedJob(t) \/ FailJob(t)
  PROVE  Advanced(t)
<1>1. CASE VerifyChunks(t)
  <2>1. /\ pc[t] = "loop" /\ todo[t] = {} /\ ~failures[t]
        /\ job' = job /\ chunk' = chunk /\ mine' = mine
    BY <1>1 DEF VerifyChunks, db, locals
  <2>2. Looping(t) /\ Ahead(t) = {}
    BY <2>1 DEF Phase, Ahead
  <2>3. \A s \in Slices : chunk[mine[t]][s] \in Done
    BY <2>1, <2>2 DEF Looping
  <2>4. pc'[t] = "finish"
    BY <1>1, <2>3 DEF TypeOK, VerifyChunks, Goto, Done
  <2>5. Finishing(t)'
    BY <2>1, <2>2, <2>3 DEF Finishing, Looping
  <2>6. QED
    BY <2>4, <2>5 DEF Advanced, Phase, InChunk
<1>2. CASE SucceedJob(t)
  <2>1. /\ job'[mine[t]] = "succeeded" /\ chunk' = chunk
        /\ pc'[t] = "idle" /\ failures'[t] = FALSE
    BY <1>2 DEF TypeOK, SucceedJob, Idle
  <2>2. \A s \in Slices : chunk[mine[t]][s] \in Done
    <3>1. CASE pc[t] = "finish"
      BY <3>1 DEF Phase, Finishing
    <3>2. CASE pc[t] = "loop" /\ todo[t] = {} /\ ~failures[t]
      BY <3>2 DEF Phase, Looping, Ahead
    <3>3. QED
      BY <1>2, <3>1, <3>2 DEF SucceedJob
  <2>3. \A j \in Jobs : j = mine[t] => Resting(j)'
    BY <2>1, <2>2 DEF Resting, Settled, Done
  <2>4. QED
    BY <2>1, <2>3 DEF Advanced, Phase, InChunk
<1>3. CASE FailJob(t)
  <2>1. /\ job'[mine[t]] = "failed" /\ chunk' = chunk
        /\ pc'[t] = "idle" /\ failures'[t] = FALSE
        /\ pc[t] = "loop" /\ todo[t] = {} /\ failures[t]
    BY <1>3 DEF TypeOK, FailJob, Idle, Phase
  <2>2. /\ \A s \in Slices : chunk[mine[t]][s] \in Settled
        /\ \E s \in Slices : chunk[mine[t]][s] = "failed"
    BY <2>1 DEF Phase, Looping, Ahead
  <2>3. \A j \in Jobs : j = mine[t] => Resting(j)'
    BY <2>1, <2>2 DEF Resting
  <2>4. QED
    BY <2>1, <2>3 DEF Advanced, Phase, InChunk
<1>4. QED
  BY <1>1, <1>2, <1>3

LEMMA WorkAdvances ==
  ASSUME TypeOK, NoFailureYet, NEW t \in Threads, Phase(t), mine[t] \in Jobs, Work(t)
  PROVE  Advanced(t)
BY PlanAdvances, StartAdvances, ChunkAdvances, EndAdvances DEF Work

\* A request takes a job that nobody works on and leaves the rest alone.
LEMMA RequestTakesRestingJob ==
  ASSUME SerialClients, SerialInv, NEW t \in Threads, NEW j \in Jobs,
         \/ \E S \in SUBSET Slices, mode \in Modes : Submit(t, j, S, mode)
         \/ Retry(t, j)
  PROVE  /\ pc[t] = "idle" /\ ~Busy(j) /\ Resting(j)
         /\ pc'[t] # "idle" /\ mine'[t] = j
         /\ chunk' = chunk
         /\ \A i \in Jobs \ {j} : job'[i] = job[i]
         /\ OthersUntouched(t)
         /\ failures' = failures
         /\ Phase(t)'
<1>1. TypeOK /\ \A u \in Threads : Phase(u) /\ (mine[u] \in Jobs <=> pc[u] # "idle")
  BY DEF SerialInv, IdleHasNoJob
<1>2. ASSUME NEW S \in SUBSET Slices, NEW mode \in Modes, Submit(t, j, S, mode)
      PROVE  /\ pc[t] = "idle" /\ ~Busy(j) /\ Resting(j)
             /\ pc'[t] # "idle" /\ mine'[t] = j
             /\ chunk' = chunk
             /\ \A i \in Jobs \ {j} : job'[i] = job[i]
             /\ OthersUntouched(t)
             /\ failures' = failures
             /\ Phase(t)'
  <2>1. ~Busy(j)
    <3>1. ASSUME NEW u \in Threads, mine[u] = j
          PROVE  FALSE
      <4>1. job[mine[u]] = "absent" /\ pc[u] \in Pcs \ {"idle"}
        BY <1>1, <1>2, <3>1 DEF TypeOK, Submit
      <4>2. QED
        BY <1>1, <4>1 DEF Pcs, Phase, Planning, Closing, Retrying, Listing, Looping,
                          Finishing, InChunk
    <3>2. QED
      BY <3>1 DEF Busy
  <2>2. Resting(j) /\ job[j] = "absent"
    BY <1>2, <2>1 DEF SerialInv, Submit
  <2>3. /\ pc'[t] = "plan" /\ mine'[t] = j /\ job'[j] = "queued"
        /\ op'[t] \in {"cached", "download"}
    BY <1>1, <1>2 DEF TypeOK, Submit, Goto
  <2>4. chunk' = chunk /\ failures' = failures
    BY <1>2 DEF Submit
  <2>5. Planning(t)'
    BY <2>2, <2>3, <2>4 DEF Planning, Resting
  <2>6. OthersUntouched(t) /\ \A i \in Jobs \ {j} : job'[i] = job[i]
    BY <1>1, <1>2 DEF TypeOK, Submit, Goto, OthersUntouched
  <2>7. Phase(t)'
    BY <2>3, <2>5 DEF Phase, InChunk
  <2>8. QED
    BY <1>2, <2>1, <2>2, <2>3, <2>4, <2>6, <2>7 DEF Submit
<1>3. CASE Retry(t, j)
  <2>1. pc[t] = "idle" /\ ~Busy(j) /\ \E s \in Slices : chunk[j][s] = "failed"
    BY <1>3 DEF Retry
  <2>2. Resting(j) /\ job[j] = "failed"
    <3>1. Resting(j)
      BY <2>1 DEF SerialInv
    <3>2. QED
      BY <2>1, <3>1 DEF Resting, Done
  <2>3. /\ pc'[t] = "start" /\ mine'[t] = j /\ op'[t] = "retry"
        /\ job' = job /\ chunk' = chunk /\ failures' = failures
    BY <1>1, <1>3 DEF TypeOK, Retry, Goto, db
  <2>4. Retrying(t)'
    BY <2>2, <2>3 DEF Retrying, Resting
  <2>5. OthersUntouched(t)
    BY <1>1, <1>3 DEF TypeOK, Retry, Goto, OthersUntouched
  <2>6. Phase(t)'
    BY <2>3, <2>4 DEF Phase, InChunk
  <2>7. QED
    BY <2>1, <2>2, <2>3, <2>5, <2>6
<1>4. QED
  BY <1>2, <1>3

LEMMA SerialInvRequest ==
  ASSUME SerialClients, SerialInv, TypeOK', NEW t \in Threads, NEW j \in Jobs,
         \/ \E S \in SUBSET Slices, mode \in Modes : Submit(t, j, S, mode)
         \/ Retry(t, j)
  PROVE  SerialInv'
<1>1. /\ pc[t] = "idle" /\ ~Busy(j) /\ Resting(j)
      /\ pc'[t] # "idle" /\ mine'[t] = j
      /\ chunk' = chunk
      /\ \A i \in Jobs \ {j} : job'[i] = job[i]
      /\ OthersUntouched(t)
      /\ failures' = failures
      /\ Phase(t)'
  BY RequestTakesRestingJob
<1>2. \A u \in Threads : mine[u] # j
  BY <1>1 DEF Busy
<1>3. Alone' /\ IdleHasNoJob'
  BY <1>1, <1>2 DEF SerialInv, Alone, IdleHasNoJob, OthersUntouched
<1>4. NoFailureYet'
  BY <1>1 DEF SerialInv, NoFailureYet, OthersUntouched
<1>5. ASSUME NEW u \in Threads
      PROVE  Phase(u)'
  <2>1. CASE u = t
    BY <1>1, <2>1
  <2>2. CASE u # t /\ pc[u] = "idle"
    BY <1>1, <2>2 DEF OthersUntouched, Phase, InChunk
  <2>3. CASE u # t /\ pc[u] # "idle"
    <3>1. mine[u] \in Jobs \ {j}
      BY <1>2, <2>3 DEF SerialInv, IdleHasNoJob
    <3>2. Phase(u)
      BY DEF SerialInv
    <3>3. QED
      BY <1>1, <2>3, <3>1, <3>2, PhaseStays DEF OthersUntouched
  <2>4. QED
    BY <2>1, <2>2, <2>3
<1>6. ASSUME NEW i \in Jobs, ~Busy(i)'
      PROVE  Resting(i)'
  <2>1. i # j
    BY <1>1, <1>6 DEF Busy
  <2>2. ~Busy(i)
    BY <1>1, <1>2, <1>6, <2>1 DEF Busy, OthersUntouched, SerialInv, IdleHasNoJob
  <2>3. QED
    BY <1>1, <2>1, <2>2 DEF SerialInv, Resting
<1>7. QED
  BY <1>3, <1>4, <1>5, <1>6 DEF SerialInv

LEMMA SerialInvWork ==
  ASSUME SerialInv, TypeOK', NEW t \in Threads, Work(t)
  PROVE  SerialInv'
<1>1. /\ TypeOK /\ Alone /\ NoFailureYet
      /\ \A u \in Threads : mine[u] \in Jobs <=> pc[u] # "idle"
      /\ \A u \in Threads : Phase(u)
  BY DEF SerialInv, IdleHasNoJob
<1>2. /\ pc[t] # "idle" /\ mine[t] \in Jobs
      /\ pc'[t] # "idle" => mine'[t] = mine[t]
      /\ pc'[t] = "idle" => mine'[t] = NoJob
  BY <1>1, WorkKeepsJob
<1>3. OthersUntouched(t) /\ Advanced(t)
  BY <1>1, <1>2, WorkIsLocal, WorkAdvances
<1>4. \A i \in Jobs \ {mine[t]} : job'[i] = job[i] /\ chunk'[i] = chunk[i]
  BY <1>1, WorkKeepsRows
<1>5. Alone' /\ IdleHasNoJob'
  BY <1>1, <1>2, <1>3, ConstantsAssumption DEF Alone, IdleHasNoJob, OthersUntouched
<1>6. NoFailureYet'
  <2>1. ASSUME NEW u \in Threads,
               pc'[u] \in {"idle", "plan", "cached", "start", "list"}
        PROVE  failures'[u] = FALSE
    BY <1>1, <1>3, <2>1 DEF NoFailureYet, OthersUntouched, Advanced
  <2>2. QED
    BY <2>1 DEF NoFailureYet
<1>7. ASSUME NEW u \in Threads
      PROVE  Phase(u)'
  <2>1. CASE u = t
    BY <1>3, <2>1 DEF Advanced
  <2>2. CASE u # t /\ pc[u] = "idle"
    BY <1>3, <2>2 DEF OthersUntouched, Phase, InChunk
  <2>3. CASE u # t /\ pc[u] # "idle"
    <3>1. mine[u] \in Jobs \ {mine[t]}
      BY <1>1, <1>2, <2>3 DEF Alone
    <3>2. QED
      BY <1>1, <1>3, <1>4, <2>3, <3>1, PhaseStays DEF OthersUntouched
  <2>4. QED
    BY <2>1, <2>2, <2>3
<1>8. ASSUME NEW i \in Jobs, ~Busy(i)'
      PROVE  Resting(i)'
  <2>1. CASE i = mine[t]
    <3>1. pc'[t] = "idle"
      BY <1>2, <1>8, <2>1 DEF Busy
    <3>2. QED
      BY <1>3, <2>1, <3>1 DEF Advanced
  <2>2. CASE i # mine[t]
    <3>1. ~Busy(i)
      BY <1>3, <1>8, <2>2 DEF Busy, OthersUntouched
    <3>2. QED
      BY <1>4, <2>2, <3>1 DEF SerialInv, Resting
  <2>3. QED
    BY <2>1, <2>2
<1>9. QED
  BY <1>5, <1>6, <1>7, <1>8 DEF SerialInv

LEMMA SerialInvStep ==
  ASSUME SerialClients, MaxCrashes = 0, IndexInv, SerialInv, [Next]_vars
  PROVE  SerialInv'
<1>1. TypeOK'
  BY TypeStep DEF IndexInv
<1>2. ~Crash
  BY DEF SerialInv, TypeOK, Crash
<1>3. CASE UNCHANGED vars
  BY <1>3 DEF SerialInv, TypeOK, Alone, IdleHasNoJob, NoFailureYet, Phase, Planning,
      Closing, Retrying, Listing, Looping, Ahead, Finishing, Resting, Busy,
      vars, db, locals, budgets
<1>4. QED
  BY <1>1, <1>2, <1>3, NextCases, SerialInvRequest, SerialInvWork

LEMMA SerialInvInit == Init => SerialInv
<1>1. ASSUME Init
      PROVE  SerialInv
  <2>1. TypeOK
    BY <1>1, TypeInit
  <2>2. Alone /\ IdleHasNoJob /\ NoFailureYet
    BY <1>1, ConstantsAssumption DEF Init, Alone, IdleHasNoJob, NoFailureYet
  <2>3. \A t \in Threads : Phase(t)
    BY <1>1 DEF Init, Phase, InChunk
  <2>4. \A j \in Jobs : Resting(j)
    BY <1>1 DEF Init, Resting, Settled
  <2>5. QED
    BY <2>1, <2>2, <2>3, <2>4 DEF SerialInv
<1>2. QED
  BY <1>1

LEMMA SerialInvariant ==
  ASSUME SerialClients, MaxCrashes = 0
  PROVE  Spec => []SerialInv
<1>1. IndexInv /\ SerialInv /\ [Next]_vars => SerialInv'
  BY SerialInvStep
<1>2. QED
  BY <1>1, SerialInvInit, IndexInvariant, PTL DEF Spec

(***************************************************************************)
(* With clients that wait and a server that stays up, a job nobody works   *)
(* on tells the truth about its chunks: failed exactly if one of them is.  *)
(***************************************************************************)
THEOREM RestingJobCorrect ==
  ASSUME SerialClients, MaxCrashes = 0
  PROVE  Spec => []RestingJobAgreesWithChunks
<1>1. SerialInv => RestingJobAgreesWithChunks
  BY DEF SerialInv, Resting, RestingJobAgreesWithChunks, Done
<1>2. QED
  BY <1>1, SerialInvariant, PTL

LEMMA SucceededJobRests ==
  ASSUME SerialInv, NEW j \in Jobs, job[j] = "succeeded"
  PROVE  ~Busy(j)
<1>1. ASSUME NEW t \in Threads, mine[t] = j
      PROVE  FALSE
  <2>1. pc[t] \in Pcs \ {"idle"} /\ Phase(t)
    BY <1>1 DEF SerialInv, IdleHasNoJob, TypeOK
  <2>2. QED
    BY <1>1, <2>1 DEF Pcs, Phase, Planning, Closing, Retrying, Listing, Looping,
                      Finishing, InChunk
<1>2. QED
  BY <1>1 DEF Busy

(***************************************************************************)
(* Under the same assumptions a succeeded job has no failed, queued or     *)
(* running chunk, also while a thread works on the job.                    *)
(***************************************************************************)
THEOREM SucceededJobCorrect ==
  ASSUME SerialClients, MaxCrashes = 0
  PROVE  Spec => []SucceededJobIsComplete
<1>1. SerialInv => SucceededJobIsComplete
  BY SucceededJobRests DEF SerialInv, Resting, SucceededJobIsComplete, Done
<1>2. QED
  BY <1>1, SerialInvariant, PTL

\* Chunks a thread is still to mark are queued or failed, the one it works on
\* is running.
LEMMA WorkKeepsSucceeded ==
  ASSUME SerialInv, NEW t \in Threads, Work(t), NEW j \in Jobs, NEW s \in Slices,
         chunk[j][s] = "succeeded"
  PROVE  chunk'[j][s] = "succeeded"
<1>1. /\ TypeOK /\ Phase(t)
      /\ mine[t] \in Jobs
  BY WorkKeepsJob DEF SerialInv, IdleHasNoJob
<1>2. CASE CreateChunk(t)
  <2>1. PICK r \in Slices : r \in todo[t] /\ chunk' = [chunk EXCEPT ![mine[t]][r] = "queued"]
    BY <1>2 DEF CreateChunk, IsFirst
  <2>2. chunk[mine[t]][r] = "absent"
    BY <1>1, <1>2, <2>1 DEF CreateChunk, Phase, Planning
  <2>3. QED
    BY <1>1, <2>1, <2>2 DEF TypeOK
<1>3. CASE CloseCachedChunk(t) \/ MarkChunkSucceeded(t)
  <2>1. PICK r \in Slices : chunk' = [chunk EXCEPT ![mine[t]][r] = "succeeded"]
    BY <1>1, <1>3 DEF TypeOK, CloseCachedChunk, MarkChunkSucceeded
  <2>2. QED
    BY <1>1, <2>1 DEF TypeOK
<1>4. CASE MarkChunkRunning(t)
  <2>1. PICK r \in Slices : r \in todo[t] /\ chunk' = [chunk EXCEPT ![mine[t]][r] = "running"]
    BY <1>4 DEF MarkChunkRunning, IsFirst
  <2>2. chunk[mine[t]][r] \in {"queued", "failed"}
    BY <1>1, <1>4, <2>1 DEF MarkChunkRunning, Phase, Looping
  <2>3. QED
    BY <1>1, <2>1, <2>2 DEF TypeOK
<1>5. CASE MarkChunkFailed(t)
  <2>1. chunk[mine[t]][at[t]] = "running"
    BY <1>1, <1>5 DEF MarkChunkFailed, Phase, Looping, InChunk
  <2>2. QED
    BY <1>1, <1>5, <2>1 DEF TypeOK, MarkChunkFailed
<1>6. CASE UNCHANGED chunk
  BY <1>6
<1>7. QED
  BY <1>2, <1>3, <1>4, <1>5, <1>6
  DEF Work, ListCached, FinishCached, MarkRunning, ListChunks, DownloadBars,
      InsertFile, ReadSummary, DropSummary, PutSummary, VerifyChunks, SucceedJob,
      FailJob, db

(***************************************************************************)
(* Under the same assumptions no statement of a retry, or of anybody else, *)
(* touches a chunk that has succeeded: the chunks a thread is still to     *)
(* mark are queued or failed, the one it works on is running.              *)
(***************************************************************************)
THEOREM SucceededChunksKept ==
  ASSUME SerialClients, MaxCrashes = 0
  PROVE  Spec => SucceededChunksAreKept
<1>1. SerialInv /\ [Next]_vars =>
        [\A j \in Jobs, s \in Slices :
           chunk[j][s] = "succeeded" => chunk'[j][s] = "succeeded"]_vars
  <2>1. ASSUME SerialInv, [Next]_vars, NEW j \in Jobs, NEW s \in Slices,
               chunk[j][s] = "succeeded"
        PROVE  chunk'[j][s] = "succeeded"
    BY <2>1, WorkKeepsSucceeded, NextCases DEF Submit, Retry, Crash, vars, db
  <2>2. QED
    BY <2>1
<1>2. QED
  BY <1>1, SerialInvariant, PTL DEF Spec, SucceededChunksAreKept

----
(***************************************************************************)
(* The reports of JobReports, for clients that wait (SerialClients).  The  *)
(* strengthening ReportInv of StoredReportIsTrue says what a first run has *)
(* counted so far, and which chunks a partial report, stored or just read  *)
(* by a poll, speaks of: chunks that are not settled only become fewer, so *)
(* the gaps of a report stay a superset of them.                           *)
(***************************************************************************)
\* Report and kind of result are written by the same statement.
KindIsResult == \A j \in Jobs : stored[j].kind = result[j]

ResultFitsStatus ==
  \A j \in Jobs :
    /\ job[j] \in {"absent", "queued"} => result[j] = "none"
    /\ job[j] = "succeeded" => result[j] # "partial"

OnlySucceededHaveFiles ==
  \A j \in Jobs, s \in Slices : chunk[j][s] # "succeeded" => fileCount[j][s] = 0

\* A first run has counted the files of its job; only a retry verifies.
TallyIsTrue ==
  \A t \in Threads :
    /\ pc[t] # "idle" /\ op[t] = "download" => tally[t] = FilesOf(mine[t])
    /\ pc[t] = "finish" => op[t] = "retry"

Unsettled(j) == {s \in Slices : chunk[j][s] \in {"queued", "running", "failed"}}

\* The report may be older than the chunks of the job.
Fits(report, j) ==
  /\ report.kind = "partial" => Unsettled(j) \subseteq report.gaps
  /\ report.kind = "cached" =>
       report.gaps = {} /\ report.progress.finished = report.progress.total

PolledFits ==
  polled # NoPoll =>
    /\ polled.job \in Jobs
    /\ job[polled.job] # "absent"
    /\ Fits(polled.report, polled.job)
    /\ polled.report.kind = "partial" => job[polled.job] # "queued"
    /\ polled.status = "succeeded" =>
         job[polled.job] = "succeeded" /\ polled.report.kind # "partial"

ReportTypeOK ==
  stored = [j \in Jobs |-> stored[j]] /\ tally \in [Threads -> [Symbols -> Nat]]

\* Chunks are planned of what the request asks for only.
WantedOnly ==
  /\ \A j \in Jobs : Planned(j) \subseteq wanted[j]
  /\ \A t \in Threads : pc[t] = "plan" => todo[t] \subseteq wanted[mine[t]]

ReportInv ==
  /\ SerialInv
  /\ ReportTypeOK
  /\ KindIsResult
  /\ ResultFitsStatus
  /\ OnlySucceededHaveFiles
  /\ WantedOnly
  /\ TallyIsTrue
  /\ \A j \in Jobs : Fits(stored[j], j)
  /\ PolledFits
  /\ StoredReportIsTrue

----
(***************************************************************************)
(* A step of the reports is a request, a poll, or one statement of a       *)
(* thread.                                                                 *)
(***************************************************************************)
ReportRequest(t, j) ==
  \/ \E S \in SUBSET Slices, mode \in Modes : SubmitReported(t, j, S, mode)
  \/ Retry(t, j) /\ UNCHANGED <<stored, tally, polled>>

\* The statements that no report is about.
Quiet(t) ==
  /\ \/ CreateChunk(t) \/ ListCached(t) \/ CloseCachedChunk(t)
     \/ MarkRunning(t) \/ ListChunks(t) \/ MarkChunkRunning(t) \/ DownloadBars(t)
     \/ InsertFile(t) \/ ReadSummary(t) \/ DropSummary(t) \/ PutSummary(t)
     \/ MarkChunkFailed(t) \/ VerifyChunks(t)
  /\ UNCHANGED <<stored, tally, polled>>

Ending(t) == StoreCached(t) \/ StoreSucceeded(t) \/ StoreFailed(t)

ReportStep(t) == Quiet(t) \/ CountFiles(t) \/ Ending(t)

Poll == (\E j \in Jobs : PollJob(j)) \/ PollChunks

LEMMA ReportsNextCases ==
  ASSUME ReportsNext
  PROVE  \/ \E t \in Threads, j \in Jobs : ReportRequest(t, j)
         \/ \E t \in Threads : ReportStep(t)
         \/ Poll
<1>1. ASSUME NEW t \in Threads, NEW j \in Jobs, NEW S \in Ranges, NEW mode \in Modes,
             SubmitReported(t, j, S, mode)
      PROVE  ReportRequest(t, j)
  BY <1>1, ConstantsAssumption DEF ReportRequest, Slices
<1>2. ASSUME NEW t \in Threads, Unreported(t)
      PROVE  ReportStep(t) \/ \E j \in Jobs : ReportRequest(t, j)
  BY <1>2 DEF Unreported, ReportRequest, ReportStep, Quiet
<1>3. ASSUME NEW j \in PolledJobs, PollJob(j)
      PROVE  Poll
  BY <1>3, ReportsAssumption DEF Poll
<1>4. QED
  BY <1>1, <1>2, <1>3 DEF ReportsNext, ReportWork, Poll, ReportStep, Ending

LEMMA ReportStepIsWork ==
  ASSUME NEW t \in Threads, ReportStep(t)
  PROVE  Work(t) /\ UNCHANGED polled
BY DEF ReportStep, Quiet, Ending, CountFiles, StoreCached, StoreSucceeded, StoreFailed,
       Store, Work

LEMMA QuietKeepsResults ==
  ASSUME NEW t \in Threads, Quiet(t)
  PROVE  UNCHANGED <<stored, tally, polled, result>>
BY DEF Quiet, CreateChunk, ListCached, CloseCachedChunk, MarkRunning, ListChunks,
       MarkChunkRunning, DownloadBars, InsertFile, ReadSummary, DropSummary, PutSummary,
       MarkChunkFailed, VerifyChunks, db

\* A thread that ends marks its job, writes the report and lets go of the job.
LEMMA EndingMarks ==
  ASSUME TypeOK, ReportTypeOK, NEW t \in Threads, mine[t] \in Jobs, Ending(t)
  PROVE  /\ pc'[t] = "idle" /\ mine'[t] = NoJob
         /\ UNCHANGED <<chunk, fileCount>>
         /\ \A j \in Jobs \ {mine[t]} : stored'[j] = stored[j]
         /\ stored' = [j \in Jobs |-> stored'[j]]
         /\ tally' \in [Threads -> [Symbols -> Nat]]
         /\ \A u \in Threads \ {t} : tally'[u] = tally[u]
         /\ \/ /\ pc[t] = "cached"
               /\ job'[mine[t]] = "succeeded" /\ result'[mine[t]] = "cached"
               /\ stored'[mine[t]] = CachedResult(mine[t], tally[t])
            \/ /\ pc[t] = "finish" \/ (pc[t] = "loop" /\ op[t] = "download")
               /\ job'[mine[t]] = "succeeded" /\ result'[mine[t]] = "complete"
               /\ stored'[mine[t]] = IF op[t] = "retry" THEN ChunkedResult(mine[t])
                                     ELSE DownloadResult(mine[t], tally[t])
            \/ /\ job'[mine[t]] = "failed" /\ result'[mine[t]] = "partial"
               /\ stored'[mine[t]] = FailedResult(mine[t])
<1> DEFINE j == mine[t]
<1>0. stored = [i \in Jobs |-> stored[i]]
  BY DEF ReportTypeOK
<1>1. ASSUME NEW report, Store(t, report)
      PROVE  /\ stored'[j] = report
             /\ \A i \in Jobs \ {j} : stored'[i] = stored[i]
             /\ stored' = [i \in Jobs |-> stored'[i]]
             /\ tally' \in [Threads -> [Symbols -> Nat]]
             /\ \A u \in Threads \ {t} : tally'[u] = tally[u]
  <2>1. stored' = [i \in Jobs |-> IF i = j THEN report ELSE stored[i]]
    BY <1>0, <1>1 DEF Store
  <2>2. tally' = [tally EXCEPT ![t] = NoFiles]
    BY <1>1 DEF Store
  <2>3. QED
    BY <2>1, <2>2 DEF ReportTypeOK, NoFiles
<1>2. CASE StoreCached(t)
  <2>1. FinishCached(t) /\ Store(t, CachedResult(mine[t], tally[t]))
    BY <1>2 DEF StoreCached
  <2>2. /\ pc[t] = "cached" /\ job'[j] = "succeeded" /\ result'[j] = "cached"
        /\ pc'[t] = "idle" /\ mine'[t] = NoJob /\ UNCHANGED <<chunk, fileCount>>
    BY <2>1 DEF FinishCached, Idle, TypeOK
  <2>3. QED
    BY <1>1, <2>1, <2>2
<1>3. CASE StoreSucceeded(t)
  <2>1. /\ SucceedJob(t)
        /\ Store(t, IF op[t] = "retry" THEN ChunkedResult(j) ELSE DownloadResult(mine[t], tally[t]))
    BY <1>3 DEF StoreSucceeded
  <2>2. pc[t] = "finish" \/ (pc[t] = "loop" /\ op[t] = "download")
    BY <2>1 DEF SucceedJob
  <2>3. /\ job'[j] = "succeeded" /\ result'[j] = "complete"
        /\ pc'[t] = "idle" /\ mine'[t] = NoJob /\ UNCHANGED <<chunk, fileCount>>
    BY <2>1 DEF SucceedJob, Idle, TypeOK
  <2>4. QED
    BY <1>1, <2>1, <2>2, <2>3
<1>4. CASE StoreFailed(t)
  <2>1. FailJob(t) /\ Store(t, FailedResult(j))
    BY <1>4 DEF StoreFailed
  <2>2. /\ job'[j] = "failed" /\ result'[j] = "partial"
        /\ pc'[t] = "idle" /\ mine'[t] = NoJob /\ UNCHANGED <<chunk, fileCount>>
    BY <2>1 DEF FailJob, Idle, TypeOK
  <2>3. QED
    BY <1>1, <2>1, <2>2
<1>5. QED
  BY <1>2, <1>3, <1>4 DEF Ending

\* What a statement leaves of a job and of the chunks that are not settled.
LEMMA AbsentStays ==
  ASSUME SerialInv, NEW t \in Threads, Work(t), NEW j \in Jobs, NEW s \in Slices,
         job[j] # "queued" \/ ~CreateChunk(t), chunk[j][s] = "absent"
  PROVE  chunk'[j][s] = "absent"
<1>1. /\ TypeOK /\ Phase(t) /\ mine[t] \in Jobs
  BY WorkKeepsJob DEF SerialInv, IdleHasNoJob
<1>2. CASE CreateChunk(t)
  <2>1. PICK r \in Slices : chunk' = [chunk EXCEPT ![mine[t]][r] = "queued"]
    BY <1>2 DEF CreateChunk
  <2>2. mine[t] # j
    BY <1>1, <1>2 DEF CreateChunk, Phase, Planning
  <2>3. QED
    BY <1>1, <2>1, <2>2 DEF TypeOK
<1>3. CASE CloseCachedChunk(t)
  <2>1. PICK r \in Slices : r \in todo[t] /\ chunk' = [chunk EXCEPT ![mine[t]][r] = "succeeded"]
    BY <1>3 DEF CloseCachedChunk, IsFirst
  <2>2. chunk[mine[t]][r] = "queued"
    BY <1>1, <1>3, <2>1 DEF CloseCachedChunk, Phase, Closing
  <2>3. QED
    BY <1>1, <2>1, <2>2 DEF TypeOK
<1>4. CASE MarkChunkRunning(t)
  <2>1. PICK r \in Slices : r \in todo[t] /\ chunk' = [chunk EXCEPT ![mine[t]][r] = "running"]
    BY <1>4 DEF MarkChunkRunning, IsFirst
  <2>2. chunk[mine[t]][r] \in {"queued", "failed"}
    BY <1>1, <1>4, <2>1 DEF MarkChunkRunning, Phase, Looping
  <2>3. QED
    BY <1>1, <2>1, <2>2 DEF TypeOK
<1>5. CASE MarkChunkFailed(t) \/ MarkChunkSucceeded(t)
  <2>1. chunk[mine[t]][at[t]] = "running"
    BY <1>1, <1>5 DEF MarkChunkFailed, MarkChunkSucceeded, Phase, Looping, InChunk
  <2>2. PICK verdict : chunk' = [chunk EXCEPT ![mine[t]][at[t]] = verdict]
    BY <1>5 DEF MarkChunkFailed, MarkChunkSucceeded
  <2>3. QED
    BY <1>1, <2>1, <2>2 DEF TypeOK
<1>6. CASE UNCHANGED chunk
  BY <1>6
<1>7. QED
  BY <1>2, <1>3, <1>4, <1>5, <1>6
  DEF Work, ListCached, FinishCached, MarkRunning, ListChunks, DownloadBars,
      InsertFile, ReadSummary, DropSummary, PutSummary, VerifyChunks, SucceedJob,
      FailJob, db

LEMMA UnsettledShrinks ==
  ASSUME SerialInv, TypeOK', NEW t \in Threads, Work(t), NEW j \in Jobs, job[j] # "queued"
  PROVE  Unsettled(j)' \subseteq Unsettled(j)
<1>1. ASSUME NEW s \in Slices, chunk'[j][s] \in {"queued", "running", "failed"}
      PROVE  chunk[j][s] \in {"queued", "running", "failed"}
  <2>1. chunk[j][s] \in JobStatus
    BY DEF SerialInv, TypeOK
  <2>2. QED
    BY <1>1, <2>1, AbsentStays, WorkKeepsSucceeded DEF JobStatus
<1>2. QED
  BY <1>1 DEF Unsettled, Slices


----
(***************************************************************************)
(* The steps of the threads.                                               *)
(***************************************************************************)
LEMMA OnlyCountFilesCounts ==
  ASSUME SerialInv, OnlySucceededHaveFiles, NEW t \in Threads, Quiet(t)
  PROVE  fileCount' = fileCount
<1>1. CASE CloseCachedChunk(t)
  <2>1. TypeOK /\ Phase(t) /\ mine[t] \in Jobs /\ pc[t] = "cached"
    BY <1>1 DEF SerialInv, IdleHasNoJob, CloseCachedChunk
  <2>2. PICK s \in Slices : /\ s \in todo[t]
                            /\ fileCount' = [fileCount EXCEPT ![mine[t]][s] = 0]
    BY <1>1 DEF CloseCachedChunk, IsFirst
  <2>3. chunk[mine[t]][s] = "queued"
    BY <2>1, <2>2 DEF Phase, Closing
  <2>4. fileCount[mine[t]][s] = 0
    BY <2>1, <2>3 DEF OnlySucceededHaveFiles
  <2>5. fileCount \in [Jobs -> [Slices -> {0, 1}]]
    BY <2>1 DEF TypeOK
  <2>6. QED
    BY <2>1, <2>2, <2>4, <2>5
<1>2. CASE ~CloseCachedChunk(t)
  BY <1>2 DEF Quiet, CreateChunk, ListCached, MarkRunning, ListChunks,
       MarkChunkRunning, DownloadBars, InsertFile, ReadSummary, DropSummary, PutSummary,
       MarkChunkFailed, VerifyChunks, db
<1>3. QED
  BY <1>1, <1>2

LEMMA CountingFacts ==
  ASSUME SerialInv, OnlySucceededHaveFiles, ReportTypeOK, NEW t \in Threads, CountFiles(t)
  PROVE  /\ mine[t] \in Jobs /\ at[t] \in Slices
         /\ fileCount[mine[t]][at[t]] = 0
         /\ chunk' = [chunk EXCEPT ![mine[t]][at[t]] = "succeeded"]
         /\ fileCount' = [fileCount EXCEPT ![mine[t]][at[t]] = IF got[t] = NoContent THEN 0 ELSE 1]
         /\ tally' = [tally EXCEPT ![t][SymbolOf[at[t]]] = IF got[t] = NoContent THEN @ ELSE @ + 1]
         /\ pc[t] = "good" /\ pc'[t] = "loop"
         /\ UNCHANGED <<op, mine, stored, polled, result, job>>
<1>1. TypeOK /\ Phase(t) /\ (mine[t] \in Jobs <=> pc[t] # "idle")
  BY DEF SerialInv, IdleHasNoJob
<1>2. MarkChunkSucceeded(t)
  BY DEF CountFiles
<1>3. pc[t] = "good" /\ pc'[t] = "loop" /\ UNCHANGED <<op, mine, result, job>>
  BY <1>1, <1>2 DEF MarkChunkSucceeded, Goto, TypeOK, locals
<1>4. mine[t] \in Jobs /\ at[t] \in Slices /\ chunk[mine[t]][at[t]] = "running"
  BY <1>1, <1>3 DEF Phase, Looping, InChunk, TypeOK
<1>5. fileCount[mine[t]][at[t]] = 0
  BY <1>4 DEF OnlySucceededHaveFiles
<1>6. QED
  BY <1>2, <1>3, <1>4, <1>5 DEF MarkChunkSucceeded, CountFiles

LEMMA OnlySucceededStep ==
  ASSUME SerialInv, OnlySucceededHaveFiles, ReportTypeOK, TypeOK', NEW t \in Threads, ReportStep(t)
  PROVE  OnlySucceededHaveFiles'
<1>1. ASSUME NEW j \in Jobs, NEW s \in Slices, chunk'[j][s] # "succeeded"
      PROVE  fileCount'[j][s] = 0
  <2>1. chunk[j][s] # "succeeded"
    BY <1>1, WorkKeepsSucceeded, ReportStepIsWork
  <2>2. fileCount[j][s] = 0
    BY <2>1 DEF OnlySucceededHaveFiles
  <2>3. CASE Quiet(t)
    BY <2>2, <2>3, OnlyCountFilesCounts
  <2>4. CASE CountFiles(t)
    <3>1. mine[t] # j \/ at[t] # s
      BY <1>1, <2>4, CountingFacts DEF SerialInv, TypeOK
    <3>2. QED
      BY <2>2, <2>4, <3>1, CountingFacts DEF SerialInv, TypeOK
  <2>5. CASE Ending(t)
    BY <2>2, <2>5, EndingMarks, ReportStepIsWork, WorkKeepsJob DEF SerialInv, IdleHasNoJob
  <2>6. QED
    BY <2>3, <2>4, <2>5 DEF ReportStep
<1>2. QED
  BY <1>1 DEF OnlySucceededHaveFiles

LEMMA FilesCounted ==
  ASSUME SerialInv, OnlySucceededHaveFiles, ReportTypeOK, NEW t \in Threads, CountFiles(t)
  PROVE  FilesOf(mine[t])' =
           [FilesOf(mine[t]) EXCEPT ![SymbolOf[at[t]]] = IF got[t] = NoContent THEN @ ELSE @ + 1]
<1> DEFINE F(x)  == {s \in Slices : SymbolOf[s] = x /\ fileCount[mine[t]][s] = 1}
           F2(x) == {s \in Slices : SymbolOf[s] = x /\ fileCount'[mine[t]][s] = 1}
<1>1. /\ mine[t] \in Jobs /\ at[t] \in Slices /\ fileCount[mine[t]][at[t]] = 0
      /\ fileCount' = [fileCount EXCEPT ![mine[t]][at[t]] = IF got[t] = NoContent THEN 0 ELSE 1]
      /\ mine' = mine
  BY CountingFacts
<1>2. fileCount \in [Jobs -> [Slices -> {0, 1}]]
  BY DEF SerialInv, TypeOK
<1>3. /\ FilesOf(mine[t]) = [x \in Symbols |-> Cardinality(F(x))]
      /\ FilesOf(mine[t])' = [x \in Symbols |-> Cardinality(F2(x))]
  BY <1>1 DEF FilesOf, Slices
<1>4. ASSUME NEW x \in Symbols
      PROVE  IsFiniteSet(F(x))
  <2>1. IsFiniteSet(Slices)
    BY FS_Interval, ConstantsAssumption DEF Slices
  <2>2. F(x) \subseteq Slices
    OBVIOUS
  <2>3. QED
    BY <2>1, <2>2, FS_Subset
<1>5. ASSUME NEW x \in Symbols, got[t] = NoContent \/ x # SymbolOf[at[t]]
      PROVE  F2(x) = F(x)
  BY <1>1, <1>2, <1>5
<1>6. ASSUME got[t] # NoContent, NEW x \in Symbols, x = SymbolOf[at[t]]
      PROVE  Cardinality(F2(x)) = Cardinality(F(x)) + 1
  <2>1. F2(x) = F(x) \union {at[t]} /\ at[t] \notin F(x)
    BY <1>1, <1>2, <1>6
  <2>2. QED
    BY <1>4, <2>1, FS_AddElement
<1>7. SymbolOf[at[t]] \in Symbols
  BY <1>1, SymbolOfSlice
<1> HIDE DEF F, F2
<1>8. QED
  BY <1>3, <1>5, <1>6, <1>7

LEMMA FilesType ==
  ASSUME NEW j \in Jobs
  PROVE  FilesOf(j) \in [Symbols -> Nat]
<1>1. ASSUME NEW x \in Symbols
      PROVE  Cardinality({s \in Slices : SymbolOf[s] = x /\ fileCount[j][s] = 1}) \in Nat
  <2>1. IsFiniteSet(Slices)
    BY FS_Interval, ConstantsAssumption DEF Slices
  <2>2. IsFiniteSet({s \in Slices : SymbolOf[s] = x /\ fileCount[j][s] = 1})
    BY <2>1, FS_Subset
  <2>3. QED
    BY <2>2, FS_CardinalityType
<1>2. QED
  BY <1>1 DEF FilesOf

\* The threads' own steps keep the count of a first run.
LEMMA TallyStep ==
  ASSUME SerialInv, OnlySucceededHaveFiles, ReportTypeOK, TallyIsTrue, TypeOK',
         NEW t \in Threads, ReportStep(t)
  PROVE  TallyIsTrue'
<1>1. /\ TypeOK /\ Alone /\ Phase(t)
      /\ \A u \in Threads : mine[u] \in Jobs <=> pc[u] # "idle"
  BY DEF SerialInv, IdleHasNoJob
<1>2. /\ OthersUntouched(t)
      /\ pc[t] # "idle" /\ mine[t] \in Jobs
      /\ pc'[t] # "idle" => mine'[t] = mine[t] /\ op'[t] = op[t]
  BY <1>1, ReportStepIsWork, WorkIsLocal, WorkKeepsJob
<1>3. ASSUME NEW u \in Threads, u # t
      PROVE  /\ pc'[u] # "idle" /\ op'[u] = "download" => tally'[u] = FilesOf(mine[u])'
             /\ pc'[u] = "finish" => op'[u] = "retry"
  <2>1. pc'[u] = pc[u] /\ op'[u] = op[u] /\ mine'[u] = mine[u]
    BY <1>2, <1>3 DEF OthersUntouched
  <2>2. tally'[u] = tally[u]
    <3>1. CASE Quiet(t)
      BY <3>1, QuietKeepsResults
    <3>2. CASE CountFiles(t)
      BY <1>3, <3>2, CountingFacts DEF ReportTypeOK
    <3>3. CASE Ending(t)
      BY <1>1, <1>2, <1>3, <3>3, EndingMarks
    <3>4. QED
      BY <3>1, <3>2, <3>3 DEF ReportStep
  <2>3. ASSUME pc[u] # "idle"
        PROVE  FilesOf(mine[u])' = FilesOf(mine[u])
    <3>1. mine[u] \in Jobs /\ mine[u] # mine[t]
      BY <1>1, <1>2, <1>3, <2>3 DEF Alone
    <3>2. fileCount'[mine[u]] = fileCount[mine[u]]
      <4>1. CASE Quiet(t)
        BY <4>1, OnlyCountFilesCounts
      <4>2. CASE CountFiles(t)
        BY <1>1, <3>1, <4>2, CountingFacts DEF TypeOK
      <4>3. CASE Ending(t)
        BY <1>1, <1>2, <4>3, EndingMarks
      <4>4. QED
        BY <4>1, <4>2, <4>3 DEF ReportStep
    <3>3. QED
      BY <2>1, <3>2 DEF FilesOf, Slices
  <2>4. QED
    BY <2>1, <2>2, <2>3 DEF TallyIsTrue
<1>4. /\ pc'[t] # "idle" /\ op'[t] = "download" => tally'[t] = FilesOf(mine[t])'
      /\ pc'[t] = "finish" => op'[t] = "retry"
  <2>1. CASE Quiet(t)
    <3>1. tally' = tally /\ fileCount' = fileCount
      BY <2>1, QuietKeepsResults, OnlyCountFilesCounts
    <3>2. pc'[t] # "idle" => FilesOf(mine[t])' = FilesOf(mine[t])
      BY <1>2, <3>1 DEF FilesOf, Slices
    <3>3. pc'[t] # "idle" /\ op'[t] = "download" => tally'[t] = FilesOf(mine[t])'
      BY <1>2, <3>1, <3>2 DEF TallyIsTrue
    <3>4. ASSUME pc'[t] = "finish"
          PROVE  op'[t] = "retry"
      <4>1. pc[t] = "finish" \/ op[t] = "retry"
        BY <1>1, <2>1, <3>4
        DEF Quiet, CreateChunk, ListCached, CloseCachedChunk, MarkRunning, ListChunks,
            MarkChunkRunning, DownloadBars, InsertFile, ReadSummary, DropSummary,
            PutSummary, MarkChunkFailed, VerifyChunks, Goto, TypeOK
      <4>2. QED
        BY <1>2, <3>4, <4>1 DEF TallyIsTrue
    <3>5. QED
      BY <3>3, <3>4
  <2>2. CASE CountFiles(t)
    <3>1. FilesOf(mine[t])' =
            [FilesOf(mine[t]) EXCEPT ![SymbolOf[at[t]]] = IF got[t] = NoContent THEN @ ELSE @ + 1]
      BY <2>2, FilesCounted
    <3>2. /\ tally' = [tally EXCEPT ![t][SymbolOf[at[t]]] = IF got[t] = NoContent THEN @ ELSE @ + 1]
          /\ pc'[t] = "loop" /\ op' = op
      BY <2>2, CountingFacts
    <3>3. tally'[t] =
            [tally[t] EXCEPT ![SymbolOf[at[t]]] = IF got[t] = NoContent THEN @ ELSE @ + 1]
      BY <3>2 DEF ReportTypeOK
    <3>4. op[t] = "download" => tally[t] = FilesOf(mine[t])
      BY <1>2 DEF TallyIsTrue
    <3>5. QED
      BY <3>1, <3>2, <3>3, <3>4
  <2>3. CASE Ending(t)
    BY <1>1, <1>2, <2>3, EndingMarks
  <2>4. QED
    BY <2>1, <2>2, <2>3 DEF ReportStep
<1>5. QED
  BY <1>3, <1>4 DEF TallyIsTrue

\* A statement leaves the reports of other jobs and their chunks alone.
LEMMA OtherJobsStay ==
  ASSUME SerialInv, OnlySucceededHaveFiles, ReportTypeOK, NEW t \in Threads, ReportStep(t),
         NEW j \in Jobs, j # mine[t]
  PROVE  /\ job'[j] = job[j] /\ chunk'[j] = chunk[j] /\ result'[j] = result[j]
         /\ fileCount'[j] = fileCount[j] /\ stored'[j] = stored[j]
<1>1. TypeOK /\ mine[t] \in Jobs
  BY ReportStepIsWork, WorkKeepsJob DEF SerialInv, IdleHasNoJob
<1>2. job'[j] = job[j] /\ chunk'[j] = chunk[j] /\ result'[j] = result[j]
  BY <1>1, ReportStepIsWork, WorkKeepsRows
<1>3. fileCount'[j] = fileCount[j] /\ stored'[j] = stored[j]
  <2>1. CASE Quiet(t)
    BY <2>1, OnlyCountFilesCounts, QuietKeepsResults
  <2>2. CASE CountFiles(t)
    BY <1>1, <2>2, CountingFacts DEF TypeOK
  <2>3. CASE Ending(t)
    BY <1>1, <2>3, EndingMarks
  <2>4. QED
    BY <2>1, <2>2, <2>3 DEF ReportStep
<1>4. QED
  BY <1>2, <1>3

\* One more file of one symbol.
LEMMA CountedFiles ==
  ASSUME NEW counts \in [Threads -> [Symbols -> Nat]], NEW t \in Threads, NEW x, NEW P
  PROVE  [counts EXCEPT ![t][x] = IF P THEN @ ELSE @ + 1] \in [Threads -> [Symbols -> Nat]]
<1>1. ASSUME x \in Symbols
      PROVE  (IF P THEN counts[t][x] ELSE counts[t][x] + 1) \in Nat
  <2>1. counts[t][x] \in Nat
    BY <1>1
  <2>2. QED
    BY <2>1
<1>2. [counts[t] EXCEPT ![x] = IF P THEN @ ELSE @ + 1] \in [Symbols -> Nat]
  BY <1>1
<1>3. QED
  BY <1>2

LEMMA ResultStep ==
  ASSUME SerialInv, OnlySucceededHaveFiles, ReportTypeOK, KindIsResult, ResultFitsStatus,
         TypeOK', NEW t \in Threads, ReportStep(t)
  PROVE  KindIsResult' /\ ResultFitsStatus' /\ ReportTypeOK'
<1> DEFINE j == mine[t]
<1>1. TypeOK /\ j \in Jobs
  BY ReportStepIsWork, WorkKeepsJob DEF SerialInv, IdleHasNoJob
<1>2. stored'[j].kind = result'[j]
  <2>1. CASE Quiet(t) \/ CountFiles(t)
    BY <1>1, <2>1, QuietKeepsResults, CountingFacts DEF KindIsResult
  <2>2. CASE Ending(t)
    <3>1. /\ CachedResult(mine[t], tally[t]).kind = "cached"
          /\ DownloadResult(mine[t], tally[t]).kind = "complete"
          /\ ChunkedResult(j).kind = "complete"
          /\ FailedResult(j).kind = "partial"
      BY DEF CachedResult, ChunkedResult, DownloadResult, FailedResult
    <3>2. QED
      BY <1>1, <2>2, <3>1, EndingMarks
  <2>3. QED
    BY <2>1, <2>2 DEF ReportStep
<1>3. /\ job'[j] \in {"absent", "queued"} => result'[j] = "none"
      /\ job'[j] = "succeeded" => result'[j] # "partial"
  <2>1. CASE Quiet(t) \/ CountFiles(t)
    <3>1. result' = result
      BY <2>1, QuietKeepsResults, CountingFacts
    <3>2. job'[j] = job[j] \/ job'[j] = "running"
      BY <1>1, <2>1, CountingFacts
      DEF Quiet, CreateChunk, ListCached, CloseCachedChunk, MarkRunning, ListChunks,
          MarkChunkRunning, DownloadBars, InsertFile, ReadSummary, DropSummary,
          PutSummary, MarkChunkFailed, VerifyChunks, TypeOK, db
    <3>3. QED
      BY <1>1, <3>1, <3>2 DEF ResultFitsStatus
  <2>2. CASE Ending(t)
    BY <1>1, <2>2, EndingMarks
  <2>3. QED
    BY <2>1, <2>2 DEF ReportStep
<1>4. KindIsResult'
  BY <1>2, OtherJobsStay DEF KindIsResult
<1>5. ResultFitsStatus'
  BY <1>3, OtherJobsStay DEF ResultFitsStatus
<1>6. ReportTypeOK'
  <2>1. CASE Quiet(t)
    BY <2>1, QuietKeepsResults DEF ReportTypeOK
  <2>2. CASE CountFiles(t)
    <3>1. stored' = stored /\ tally' = [tally EXCEPT ![t][SymbolOf[at[t]]] = IF got[t] = NoContent THEN @ ELSE @ + 1]
      BY <2>2, CountingFacts
    <3>2. tally' \in [Threads -> [Symbols -> Nat]]
      BY <3>1, CountedFiles DEF ReportTypeOK
    <3>3. QED
      BY <3>1, <3>2 DEF ReportTypeOK
  <2>3. CASE Ending(t)
    BY <1>1, <2>3, EndingMarks DEF ReportTypeOK
  <2>4. QED
    BY <2>1, <2>2, <2>3 DEF ReportStep
<1>7. QED
  BY <1>4, <1>5, <1>6


LEMMA FitsStep ==
  ASSUME SerialInv, OnlySucceededHaveFiles, ReportTypeOK, KindIsResult, ResultFitsStatus,
         \A j \in Jobs : Fits(stored[j], j),
         TypeOK', NEW t \in Threads, ReportStep(t), NEW j \in Jobs
  PROVE  Fits(stored[j], j)'
<1>1. TypeOK /\ mine[t] \in Jobs /\ Work(t) /\ Phase(t)
  BY ReportStepIsWork, WorkKeepsJob DEF SerialInv, IdleHasNoJob
<1>2. Fits(stored[j], j)
  OBVIOUS
<1>3. CASE stored'[j] = stored[j]
  <2>1. stored[j].kind = "partial" => Unsettled(j)' \subseteq Unsettled(j)
    <3>1. stored[j].kind = "partial" => job[j] # "queued"
      BY DEF KindIsResult, ResultFitsStatus
    <3>2. QED
      BY <1>1, <3>1, UnsettledShrinks
  <2>2. QED
    BY <1>2, <1>3, <2>1 DEF Fits
<1>4. CASE Ending(t) /\ j = mine[t]
  <2>1. Resting(j)'
    <3>1. Advanced(t) /\ pc'[t] = "idle"
      BY <1>1, <1>4, WorkAdvances, EndingMarks DEF SerialInv
    <3>2. QED
      BY <1>4, <3>1 DEF Advanced
  <2>2. CASE stored'[j] = FailedResult(j)
    <3>1. chunk' = chunk
      BY <1>1, <1>4, EndingMarks
    <3>2. Unsettled(j)' \subseteq ChunksIn(j, "failed")
      BY <2>1, <3>1 DEF Resting, Settled, Unsettled, ChunksIn
    <3>3. stored'[j].kind = "partial" /\ stored'[j].gaps = ChunkGaps(j)
      BY <2>2 DEF FailedResult
    <3>4. ChunksIn(j, "failed") \subseteq ChunkGaps(j)
      BY DEF ChunkGaps
    <3>5. QED
      BY <3>2, <3>3, <3>4 DEF Fits
  <2>3. CASE stored'[j] = CachedResult(mine[t], tally[t])
    <3> DEFINE progress == CachedProgress(mine[t], tally[t])
    <3> HIDE DEF progress
    <3> DEFINE statuses == SymbolResults(mine[t],
                             LAMBDA x : IF tally[t][x] = 0 THEN "missing" ELSE "cached")
    <3> HIDE DEF statuses
    <3>1. stored'[j].kind = "cached" /\ stored'[j].gaps = {} /\ stored'[j].progress = progress
      <4>1. stored'[j] = [kind |-> "cached", downloaded |-> FALSE, symbols |-> statuses,
                          files |-> tally[t], gaps |-> {}, progress |-> progress]
        BY <2>3 DEF CachedResult, progress, statuses
      <4>2. QED
        BY <4>1
    <3>2. progress.finished = 0 /\ progress.total = 0
      BY DEF progress, CachedProgress, NoProgress
    <3>3. QED
      BY <3>1, <3>2 DEF Fits
  <2>4. CASE stored'[j] = ChunkedResult(j) \/ stored'[j] = DownloadResult(mine[t], tally[t])
    <3>1. ChunkedResult(j).kind = "complete"
      BY DEF ChunkedResult
    <3>2. DownloadResult(mine[t], tally[t]).kind = "complete"
      BY DEF DownloadResult
    <3>3. stored'[j].kind = "complete"
      BY <2>4, <3>1, <3>2
    <3>4. QED
      BY <3>3 DEF Fits
  <2>5. QED
    BY <1>1, <1>4, <2>2, <2>3, <2>4, EndingMarks
<1>5. QED
  BY <1>1, <1>3, <1>4, OtherJobsStay, QuietKeepsResults, CountingFacts DEF ReportStep

\* A poll that is under way keeps to what it read: the chunks have only got
\* better since.
LEMMA PolledFitsStep ==
  ASSUME SerialInv, PolledFits, TypeOK', NEW t \in Threads, ReportStep(t)
  PROVE  PolledFits'
<1> DEFINE j == polled.job
<1>1. TypeOK /\ mine[t] \in Jobs /\ Work(t) /\ polled' = polled
  BY ReportStepIsWork, WorkKeepsJob DEF SerialInv, IdleHasNoJob
<1>2. SUFFICES ASSUME polled # NoPoll
               PROVE  PolledFits'
  BY <1>1 DEF PolledFits
<1>3. j \in Jobs /\ job[j] # "absent" /\ Fits(polled.report, j)
  BY <1>2 DEF PolledFits
<1>4. job'[j] # "absent" /\ (job'[j] = "queued" => job[j] = "queued")
  BY <1>1, <1>3
  DEF Work, CreateChunk, ListCached, CloseCachedChunk, MarkRunning, ListChunks,
      MarkChunkRunning, DownloadBars, InsertFile, ReadSummary, DropSummary, PutSummary,
      MarkChunkFailed, MarkChunkSucceeded, VerifyChunks, FinishCached, SucceedJob, FailJob,
      TypeOK, db
<1>5. polled.report.kind = "partial" => job[j] # "queued"
  BY <1>2 DEF PolledFits
<1>6. polled.report.kind = "partial" => Unsettled(j)' \subseteq Unsettled(j)
  BY <1>1, <1>3, <1>5, UnsettledShrinks
<1>7. Fits(polled.report, j)'
  BY <1>1, <1>3, <1>6 DEF Fits
<1>8. polled.status = "succeeded" => job'[j] = "succeeded" /\ polled.report.kind # "partial"
  <2>1. ASSUME polled.status = "succeeded"
        PROVE  mine[t] # j /\ job[j] = "succeeded" /\ polled.report.kind # "partial"
    BY <1>2, <1>3, <2>1, SucceededJobRests DEF PolledFits, Busy
  <2>2. QED
    BY <1>1, <1>3, <2>1, WorkKeepsRows
<1>9. QED
  BY <1>1, <1>3, <1>4, <1>5, <1>7, <1>8 DEF PolledFits

LEMMA WantedStep ==
  ASSUME SerialInv, WantedOnly, TypeOK', NEW t \in Threads, ReportStep(t)
  PROVE  WantedOnly'
<1>1. /\ TypeOK /\ mine[t] \in Jobs /\ Work(t) /\ OthersUntouched(t) /\ wanted' = wanted
  BY ReportStepIsWork, WorkKeepsJob, WorkIsLocal, WorkKeepsRows DEF SerialInv, IdleHasNoJob
<1>2. CASE CreateChunk(t)
  <2>1. PICK s \in Slices : /\ s \in todo[t]
                            /\ chunk' = [chunk EXCEPT ![mine[t]][s] = "queued"]
                            /\ todo' = [todo EXCEPT ![t] = @ \ {s}]
    BY <1>2 DEF CreateChunk, IsFirst
  <2>2. s \in wanted[mine[t]]
    BY <1>2, <2>1 DEF WantedOnly, CreateChunk
  <2>3. ASSUME NEW j \in Jobs, NEW r \in Slices, chunk'[j][r] # "absent"
        PROVE  r \in wanted[j]
    <3>1. chunk[j][r] # "absent" \/ (j = mine[t] /\ r = s)
      BY <1>1, <2>1, <2>3 DEF TypeOK
    <3>2. QED
      BY <2>2, <3>1 DEF WantedOnly, Planned
  <2>4. \A j \in Jobs : Planned(j)' \subseteq wanted[j]
    BY <2>3 DEF Planned, Slices
  <2>5. \A u \in Threads : pc'[u] = "plan" => todo'[u] \subseteq wanted[mine'[u]]
    BY <1>1, <1>2, <2>1 DEF WantedOnly, CreateChunk, TypeOK
  <2>6. QED
    BY <1>1, <2>4, <2>5 DEF WantedOnly
<1>3. CASE ~CreateChunk(t)
  <2>1. \A j \in Jobs, s \in Slices : chunk'[j][s] # "absent" => chunk[j][s] # "absent"
    BY <1>1, <1>3, AbsentStays
  <2>2. \A j \in Jobs : Planned(j)' \subseteq wanted[j]
    BY <2>1 DEF Planned, Slices, WantedOnly
  <2>3. pc'[t] # "plan"
    BY <1>1, <1>3
    DEF Work, ListCached, CloseCachedChunk, FinishCached, MarkRunning, ListChunks,
        MarkChunkRunning, DownloadBars, InsertFile, ReadSummary, DropSummary, PutSummary,
        MarkChunkSucceeded, MarkChunkFailed, VerifyChunks, SucceedJob, FailJob, Goto, Idle,
        TypeOK
  <2>4. \A u \in Threads : pc'[u] = "plan" => todo'[u] \subseteq wanted[mine'[u]]
    BY <1>1, <2>3 DEF WantedOnly, OthersUntouched
  <2>5. QED
    BY <1>1, <2>2, <2>4 DEF WantedOnly
<1>4. QED
  BY <1>2, <1>3

\* What the reports say of the symbols that have chunks.
LEMMA ReportsAreTrue ==
  ASSUME WantedOnly, NEW j \in Jobs
  PROVE  /\ ReportIsTrue(ChunkedResult(j), j)
         /\ ReportIsTrue(FailedResult(j), j)
         /\ ChunksIn(j, "failed") = {} =>
              /\ ReportIsTrue(DownloadResult(j, FilesOf(j)), j)
              /\ \A rows : ReportIsTrue(CachedResult(j, rows), j)
<1>1. /\ ChunksIn(j, "failed") \subseteq Planned(j)
      /\ Planned(j) \subseteq wanted[j] /\ Planned(j) \subseteq Slices
  BY DEF WantedOnly, ChunksIn, Planned
<1>2. /\ SymbolsOf(ChunksIn(j, "failed")) \subseteq SymbolsOf(Planned(j))
      /\ SymbolsOf(Planned(j)) \subseteq SymbolsOf(wanted[j])
      /\ SymbolsOf(Planned(j)) \subseteq Symbols
  BY <1>1, SymbolOfSlice DEF SymbolsOf
<1>3. {s \in ChunkGaps(j) : SymbolOf[s] \in SymbolsOf(Planned(j))} = ChunksIn(j, "failed")
  BY <1>1 DEF ChunkGaps, SymbolsOf
<1>4. ASSUME NEW x \in SymbolsOf(Planned(j))
      PROVE  /\ x \in SymbolsOf(ChunkGaps(j)) <=> x \in SymbolsOf(ChunksIn(j, "failed"))
             /\ x \in SymbolsOf(wanted[j]) /\ x \in Symbols
  <2>1. x \in SymbolsOf(ChunksIn(j, "failed")) => x \in SymbolsOf(ChunkGaps(j))
    BY DEF SymbolsOf, ChunkGaps
  <2>2. ASSUME NEW s \in ChunkGaps(j), x = SymbolOf[s]
        PROVE  s \in ChunksIn(j, "failed")
    BY <1>3, <2>2
  <2>3. x \in SymbolsOf(ChunkGaps(j)) => x \in SymbolsOf(ChunksIn(j, "failed"))
    BY <2>2 DEF SymbolsOf
  <2>4. QED
    BY <1>2, <2>1, <2>3
<1>5. \A x \in SymbolsOf(Planned(j)) :
        ChunkResults(j)[x] =
          IF x \in SymbolsOf(ChunksIn(j, "failed")) THEN "failed" ELSE "succeeded"
  BY <1>4 DEF ChunkResults, SymbolResults
<1>6. ReportIsTrue(ChunkedResult(j), j) /\ ReportIsTrue(FailedResult(j), j)
  BY <1>3, <1>5 DEF ReportIsTrue, ChunkedResult, FailedResult
<1>7. ASSUME ChunksIn(j, "failed") = {}, NEW rows
      PROVE  ReportIsTrue(CachedResult(j, rows), j)
  BY <1>7 DEF ReportIsTrue, CachedResult
<1>8. ASSUME ChunksIn(j, "failed") = {}
      PROVE  ReportIsTrue(DownloadResult(j, FilesOf(j)), j)
  <2>1. \A x \in SymbolsOf(Planned(j)) :
          SymbolResults(j, LAMBDA y : "succeeded")[x] = "succeeded"
    BY <1>4 DEF SymbolResults
  <2>2. SymbolsOf(ChunksIn(j, "failed")) = {}
    BY <1>8 DEF SymbolsOf
  <2>3. QED
    BY <1>8, <2>1, <2>2 DEF ReportIsTrue, DownloadResult
<1>9. QED
  BY <1>6, <1>7, <1>8

\* A report stays as true as it was while the chunks of its job stay.
ChunksStay(j) == chunk'[j] = chunk[j] /\ fileCount'[j] = fileCount[j]

LEMMA TruthStays ==
  ASSUME NEW report, NEW j \in Jobs, ChunksStay(j)
  PROVE  ReportIsTrue(report, j)' <=> ReportIsTrue(report, j)
<1>1. /\ FilesOf(j)' = FilesOf(j) /\ Planned(j)' = Planned(j)
      /\ \A v : ChunksIn(j, v)' = ChunksIn(j, v)
  BY DEF ChunksStay, FilesOf, ChunksIn, Planned, Slices
<1>2. /\ SymbolsOf(Planned(j))' = SymbolsOf(Planned(j))
      /\ SymbolsOf(ChunksIn(j, "failed"))' = SymbolsOf(ChunksIn(j, "failed"))
  BY <1>1 DEF SymbolsOf
<1>3. ProgressFromChunks(j)' = ProgressFromChunks(j)
  BY <1>1 DEF ProgressFromChunks, SymbolsOf, CurrentSymbol, IsFirst, Slices
<1>4. QED
  BY <1>1, <1>2, <1>3 DEF ReportIsTrue

\* What a thread stores when it ends is the truth about its job.
LEMMA StoredReportStep ==
  ASSUME ReportInv, SerialInv', KindIsResult', NEW t \in Threads, ReportStep(t)
  PROVE  StoredReportIsTrue'
<1>1. /\ TypeOK /\ mine[t] \in Jobs /\ Work(t) /\ OthersUntouched(t)
      /\ SerialInv /\ OnlySucceededHaveFiles /\ ReportTypeOK /\ WantedOnly
      /\ pc'[t] # "idle" => mine'[t] = mine[t]
  BY ReportStepIsWork, WorkKeepsJob, WorkIsLocal DEF ReportInv, SerialInv, IdleHasNoJob
<1>2. ASSUME NEW j \in Jobs, NEW report, report = stored'[j], job'[j] # "absent", ~Busy(j)'
      PROVE  ChunksStay(j) /\ ReportIsTrue(report, j)
  <2>1. CASE j # mine[t]
    <3>1. /\ job'[j] = job[j] /\ ChunksStay(j) /\ report = stored[j]
      BY <1>1, <1>2, <2>1, OtherJobsStay DEF ChunksStay
    <3>2. ~Busy(j)
      BY <1>1, <1>2, <2>1 DEF Busy, OthersUntouched
    <3>3. QED
      BY <1>2, <3>1, <3>2 DEF ReportInv, StoredReportIsTrue
  <2>2. CASE j = mine[t]
    <3>1. pc'[t] = "idle"
      BY <1>1, <1>2, <2>2 DEF Busy
    <3>2. Ending(t)
      BY <1>1, <3>1
      DEF ReportStep, Quiet, CountFiles, CreateChunk, ListCached, CloseCachedChunk, MarkRunning,
          ListChunks, MarkChunkRunning, DownloadBars, InsertFile, ReadSummary, DropSummary,
          PutSummary, MarkChunkFailed, MarkChunkSucceeded, VerifyChunks, Goto, TypeOK
    <3>3. Resting(j)'
      BY <1>2 DEF SerialInv
    <3>4. ChunksStay(j)
      BY <1>1, <3>2, EndingMarks DEF ChunksStay
    <3>5. job'[j] = "succeeded" => ChunksIn(j, "failed") = {}
      BY <3>3, <3>4 DEF Resting, Done, ChunksIn, ChunksStay
    <3>6. CASE job'[j] = "succeeded" /\ report = CachedResult(j, tally[t])
      BY <1>1, <3>4, <3>5, <3>6, ReportsAreTrue
    <3>7. CASE report = ChunkedResult(j) \/ report = FailedResult(j)
      BY <1>1, <3>4, <3>7, ReportsAreTrue
    <3>8. CASE /\ job'[j] = "succeeded" /\ report = DownloadResult(j, tally[t])
               /\ op[t] # "retry"
               /\ pc[t] = "finish" \/ (pc[t] = "loop" /\ op[t] = "download")
      <4>1. pc[t] # "idle" /\ op[t] = "download"
        BY <3>8 DEF ReportInv, TallyIsTrue
      <4>2. tally[t] = FilesOf(j)
        BY <2>2, <4>1 DEF ReportInv, TallyIsTrue
      <4>3. QED
        BY <1>1, <3>4, <3>5, <3>8, <4>2, ReportsAreTrue
    <3>9. QED
      BY <1>1, <1>2, <2>2, <3>2, <3>6, <3>7, <3>8, EndingMarks
  <2>3. QED
    BY <2>1, <2>2
<1>3. ASSUME NEW j \in Jobs, NEW report, report = stored'[j], job'[j] # "absent", ~Busy(j)'
      PROVE  ReportIsTrue(report, j)'
  BY <1>2, <1>3, TruthStays
<1>4. QED
  BY <1>3 DEF StoredReportIsTrue, KindIsResult, ReportIsTrue


----
LEMMA ReportsStepIsNext ==
  ASSUME [ReportsNext]_reportVars
  PROVE  [Next]_vars
<1>1. CASE UNCHANGED reportVars
  BY <1>1 DEF reportVars
<1>2. ASSUME NEW t \in Threads, NEW j \in Jobs, NEW S \in Ranges, NEW mode \in Modes,
             SubmitReported(t, j, S, mode)
      PROVE  Next
  BY <1>2 DEF SubmitReported, Next, Request
<1>3. ASSUME NEW t \in Threads, ReportWork(t)
      PROVE  Next
  BY <1>3 DEF ReportWork, CountFiles, StoreCached, StoreSucceeded, StoreFailed, Next, Work
<1>4. ASSUME NEW t \in Threads, Unreported(t)
      PROVE  Next
  BY <1>4 DEF Unreported, Next, Request, Work
<1>5. ASSUME NEW j \in PolledJobs, PollJob(j) \/ PollChunks
      PROVE  UNCHANGED vars
  BY <1>5 DEF PollJob, PollChunks
<1>6. CASE PollChunks
  BY <1>6 DEF PollChunks
<1>7. QED
  BY <1>1, <1>2, <1>3, <1>4, <1>5, <1>6 DEF ReportsNext

(***************************************************************************)
(* The reports add to the jobs and change nothing about them: what is      *)
(* proved of DownloadJobs holds here as well, whatever clients do.         *)
(***************************************************************************)
THEOREM ReportsKeepToJobs == ReportsSpec => Spec
<1>1. ReportsInit => Init
  BY DEF ReportsInit
<1>2. [ReportsNext]_reportVars => [Next]_vars
  BY ReportsStepIsNext
<1>3. QED
  BY <1>1, <1>2, PTL DEF ReportsSpec, Spec

----
(***************************************************************************)
(* The requests and the polls.                                             *)
(***************************************************************************)
LEMMA ReportRequestStep ==
  ASSUME SerialClients, ReportInv, TypeOK', NEW t \in Threads, NEW j \in Jobs, ReportRequest(t, j)
  PROVE  ReportInv'
<1>1. /\ SerialInv /\ TypeOK /\ ReportTypeOK
      /\ \A u \in Threads : mine[u] \in Jobs <=> pc[u] # "idle"
  BY DEF ReportInv, SerialInv, IdleHasNoJob
<1>2. \/ \E S \in SUBSET Slices, mode \in Modes : Submit(t, j, S, mode)
      \/ Retry(t, j)
  BY DEF ReportRequest, SubmitReported
<1>3. SerialInv'
  BY <1>1, <1>2, SerialInvRequest
<1>4. /\ pc[t] = "idle" /\ ~Busy(j) /\ Resting(j)
      /\ pc'[t] # "idle" /\ mine'[t] = j
      /\ chunk' = chunk
      /\ \A i \in Jobs \ {j} : job'[i] = job[i]
      /\ OthersUntouched(t)
  BY <1>1, <1>2, RequestTakesRestingJob
<1>5. /\ UNCHANGED <<stored, polled, result, fileCount>>
      /\ tally' \in [Threads -> [Symbols -> Nat]]
      /\ \A u \in Threads \ {t} : tally'[u] = tally[u]
  <2>1. ASSUME NEW S \in SUBSET Slices, NEW mode \in Modes, SubmitReported(t, j, S, mode)
        PROVE  /\ UNCHANGED <<stored, polled, result, fileCount>>
               /\ tally' \in [Threads -> [Symbols -> Nat]]
               /\ \A u \in Threads \ {t} : tally'[u] = tally[u]
    <3> DEFINE rows == [x \in Symbols |->
                          IF IsCached(S, mode) /\ x \in SymbolsOf(S) THEN summary[x] ELSE 0]
    <3>1. tally' = [tally EXCEPT ![t] = rows] /\ \A x \in Symbols : summary[x] \in Nat
      BY <1>1, <2>1 DEF SubmitReported, TypeOK
    <3>2. UNCHANGED <<stored, polled, result, fileCount>>
      BY <2>1 DEF SubmitReported, Submit
    <3>3. tally \in [Threads -> [Symbols -> Nat]] /\ rows \in [Symbols -> Nat]
      BY <1>1, <3>1 DEF ReportTypeOK
    <3> HIDE DEF rows
    <3>4. QED
      BY <3>1, <3>2, <3>3
  <2>2. ASSUME Retry(t, j) /\ UNCHANGED <<stored, tally, polled>>
        PROVE  /\ UNCHANGED <<stored, polled, result, fileCount>>
               /\ tally' \in [Threads -> [Symbols -> Nat]]
               /\ \A u \in Threads \ {t} : tally'[u] = tally[u]
    BY <1>1, <2>2 DEF Retry, ReportTypeOK, db
  <2>3. QED
    BY <2>1, <2>2 DEF ReportRequest
<1>6. \/ job[j] = "absent" /\ job'[j] = "queued"
      \/ job' = job
  BY <1>1, <1>2 DEF Submit, Retry, TypeOK, db
<1>7. ReportTypeOK' /\ KindIsResult' /\ OnlySucceededHaveFiles'
  BY <1>1, <1>4, <1>5 DEF ReportInv, ReportTypeOK, KindIsResult, OnlySucceededHaveFiles
<1>8. ResultFitsStatus'
  BY <1>4, <1>5, <1>6 DEF ReportInv, ResultFitsStatus
<1>9. TallyIsTrue'
  <2>1. ASSUME op'[t] = "download"
        PROVE  tally'[t] = FilesOf(mine[t])'
    <3>1. job[j] = "absent" /\ tally'[t] = NoFiles
      <4>1. ASSUME NEW S \in SUBSET Slices, NEW mode \in Modes, SubmitReported(t, j, S, mode)
            PROVE  job[j] = "absent" /\ tally'[t] = NoFiles
        <5>1. op' = [op EXCEPT ![t] = IF IsCached(S, mode) THEN "cached" ELSE "download"]
          BY <4>1 DEF SubmitReported, Submit
        <5>2. ~IsCached(S, mode)
          BY <1>1, <2>1, <5>1 DEF TypeOK
        <5>3. tally' = [tally EXCEPT ![t] =
                [x \in Symbols |-> IF IsCached(S, mode) /\ x \in SymbolsOf(S) THEN summary[x] ELSE 0]]
          BY <4>1 DEF SubmitReported
        <5>4. tally'[t] = [x \in Symbols |-> 0]
          BY <1>1, <5>2, <5>3 DEF ReportTypeOK
        <5>5. QED
          BY <4>1, <5>4 DEF SubmitReported, Submit, NoFiles
      <4>2. ~Retry(t, j)
        BY <1>1, <2>1 DEF Retry, TypeOK
      <4>3. QED
        BY <4>1, <4>2 DEF ReportRequest
    <3>2. \A s \in Slices : fileCount[j][s] = 0
      BY <1>4, <3>1 DEF Resting, ReportInv, OnlySucceededHaveFiles
    <3>3. \A x \in Symbols : {s \in Slices : SymbolOf[s] = x /\ fileCount[j][s] = 1} = {}
      BY <3>2
    <3>4. FilesOf(j) = [x \in Symbols |-> Cardinality({})]
      BY <3>3 DEF FilesOf
    <3>5. FilesOf(mine[t])' = FilesOf(j)
      BY <1>4, <1>5 DEF FilesOf, Slices
    <3>6. QED
      BY <3>1, <3>4, <3>5, FS_EmptySet DEF NoFiles
  <2>2. pc'[t] # "finish"
    BY <1>1, <1>2 DEF Submit, Retry, Goto, TypeOK
  <2>3. ASSUME NEW u \in Threads \ {t}
        PROVE  /\ pc'[u] # "idle" /\ op'[u] = "download" => tally'[u] = FilesOf(mine[u])'
               /\ pc'[u] = "finish" => op'[u] = "retry"
    <3>1. FilesOf(mine[u])' = FilesOf(mine[u])
      BY <1>4, <1>5 DEF FilesOf, Slices, OthersUntouched
    <3>2. QED
      BY <1>4, <1>5, <3>1 DEF OthersUntouched, ReportInv, TallyIsTrue
  <2>4. QED
    BY <2>1, <2>2, <2>3 DEF TallyIsTrue
<1>10. \A i \in Jobs : Fits(stored[i], i)'
  BY <1>4, <1>5 DEF ReportInv, Fits, Unsettled, Slices
<1>11. PolledFits'
  <2>1. SUFFICES ASSUME polled # NoPoll
                 PROVE  PolledFits'
    BY <1>5 DEF PolledFits
  <2>2. polled.job \in Jobs /\ job[polled.job] # "absent" /\ Fits(polled.report, polled.job)
    BY <2>1 DEF ReportInv, PolledFits
  <2>3. job'[polled.job] = job[polled.job]
    BY <1>4, <1>6, <2>2
  <2>4. Fits(polled.report, polled.job)'
    BY <1>4, <1>5, <2>2 DEF Fits, Unsettled, Slices
  <2>5. QED
    BY <1>5, <2>1, <2>2, <2>3, <2>4 DEF ReportInv, PolledFits
<1>12. StoredReportIsTrue'
  <2>1. ASSUME NEW i \in Jobs, job'[i] # "absent", ~Busy(i)', NEW report, report = stored[i]
        PROVE  report.kind = result[i] /\ ReportIsTrue(report, i)'
    <3>1. i # j
      BY <1>4, <2>1 DEF Busy
    <3>2. \A u \in Threads : mine[u] = i => u # t
      BY <1>1, <1>4
    <3>3. ~Busy(i)
      BY <1>4, <2>1, <3>2 DEF Busy, OthersUntouched
    <3>4. job[i] # "absent"
      BY <1>4, <2>1, <3>1
    <3>5. report.kind = result[i] /\ ReportIsTrue(report, i)
      BY <2>1, <3>3, <3>4 DEF ReportInv, StoredReportIsTrue
    <3>6. ChunksStay(i)
      BY <1>4, <1>5 DEF ChunksStay
    <3>7. QED
      BY <3>5, <3>6, TruthStays
  <2>2. QED
    BY <1>5, <2>1 DEF StoredReportIsTrue, ReportIsTrue
<1>13. WantedOnly'
  <2>1. ASSUME NEW S \in SUBSET Slices, NEW mode \in Modes, Submit(t, j, S, mode)
        PROVE  /\ wanted' = [wanted EXCEPT ![j] = S]
               /\ \A s \in Slices : chunk[j][s] = "absent"
               /\ todo'[t] \subseteq S
    <3>1. todo' = [todo EXCEPT ![t] = PlanChunks(S, mode)] /\ wanted' = [wanted EXCEPT ![j] = S]
      BY <2>1 DEF Submit
    <3>2. job[j] = "absent"
      BY <2>1 DEF Submit
    <3>3. PlanChunks(S, mode) \subseteq S
      BY DEF PlanChunks
    <3>4. QED
      BY <1>1, <1>4, <3>1, <3>2, <3>3 DEF Resting, TypeOK
  <2>2. ASSUME Retry(t, j)
        PROVE  wanted' = wanted /\ pc'[t] # "plan"
    BY <1>1, <2>2 DEF Retry, Goto, TypeOK, db
  <2>3. \A i \in Jobs : Planned(i)' = Planned(i)
    BY <1>4 DEF Planned, Slices
  <2>4. ASSUME NEW S \in SUBSET Slices, NEW mode \in Modes, Submit(t, j, S, mode)
        PROVE  WantedOnly'
    <3>1. Planned(j) = {} /\ wanted'[j] = S /\ \A i \in Jobs \ {j} : wanted'[i] = wanted[i]
      BY <1>1, <2>1, <2>4 DEF Planned, TypeOK
    <3>2. \A i \in Jobs : Planned(i)' \subseteq wanted'[i]
      BY <2>3, <3>1 DEF ReportInv, WantedOnly
    <3>3. ASSUME NEW u \in Threads, pc'[u] = "plan", u # t
          PROVE  todo'[u] \subseteq wanted'[mine'[u]]
      <4>1. pc[u] = "plan" /\ mine'[u] = mine[u] /\ todo'[u] = todo[u]
        BY <1>4, <3>3 DEF OthersUntouched
      <4>2. mine[u] \in Jobs \ {j}
        BY <1>1, <1>4, <4>1 DEF Busy
      <4>3. QED
        BY <3>1, <4>1, <4>2 DEF ReportInv, WantedOnly
    <3>4. todo'[t] \subseteq wanted'[mine'[t]]
      BY <1>4, <2>1, <2>4, <3>1
    <3>5. QED
      BY <3>2, <3>3, <3>4 DEF WantedOnly
  <2>5. ASSUME Retry(t, j)
        PROVE  WantedOnly'
    <3>1. \A u \in Threads : pc'[u] = "plan" =>
            u # t /\ pc[u] = "plan" /\ mine'[u] = mine[u] /\ todo'[u] = todo[u]
      BY <1>4, <2>2, <2>5 DEF OthersUntouched
    <3>2. QED
      BY <2>2, <2>3, <2>5, <3>1 DEF ReportInv, WantedOnly
  <2>6. QED
    BY <1>2, <2>4, <2>5
<1>14. QED
  BY <1>3, <1>7, <1>8, <1>9, <1>10, <1>11, <1>12, <1>13 DEF ReportInv

LEMMA ReportWorkStep ==
  ASSUME ReportInv, TypeOK', NEW t \in Threads, ReportStep(t)
  PROVE  ReportInv'
<1>1. /\ SerialInv /\ ReportTypeOK /\ KindIsResult /\ ResultFitsStatus
      /\ OnlySucceededHaveFiles /\ TallyIsTrue /\ PolledFits
      /\ \A j \in Jobs : Fits(stored[j], j)
  BY DEF ReportInv
<1>2. SerialInv'
  BY <1>1, ReportStepIsWork, SerialInvWork
<1>3. ReportTypeOK' /\ KindIsResult' /\ ResultFitsStatus'
  BY <1>1, ResultStep
<1>4. OnlySucceededHaveFiles' /\ TallyIsTrue' /\ PolledFits'
  BY <1>1, OnlySucceededStep, TallyStep, PolledFitsStep
<1>5. \A j \in Jobs : Fits(stored[j], j)'
  BY <1>1, FitsStep
<1>6. StoredReportIsTrue'
  BY <1>2, <1>3, StoredReportStep
<1>7. WantedOnly'
  BY <1>1, WantedStep DEF ReportInv
<1>8. QED
  BY <1>2, <1>3, <1>4, <1>5, <1>6, <1>7 DEF ReportInv

\* What only reads the tables keeps everything but the poll itself.
LEMMA RestKeepsReports ==
  ASSUME ReportInv, UNCHANGED <<vars, stored, tally>>, PolledFits'
  PROVE  ReportInv'
<1>1. /\ UNCHANGED <<job, result, wanted, chunk, fileCount, indexed, summary>>
      /\ UNCHANGED <<pc, op, mine, todo, at, failures, got, seen, retries, crashes>>
      /\ UNCHANGED <<stored, tally>>
  BY DEF vars, db, locals, budgets
<1>2. TypeOK' /\ Alone' /\ IdleHasNoJob' /\ NoFailureYet'
  BY <1>1 DEF ReportInv, SerialInv, TypeOK, Alone, IdleHasNoJob, NoFailureYet
<1>3. (\A t \in Threads : Phase(t))' /\ (\A j \in Jobs : ~Busy(j) => Resting(j))'
  BY <1>1 DEF ReportInv, SerialInv, Phase, Planning, Closing, Retrying, Listing, Looping,
              Ahead, Finishing, Resting, Busy
<1>4. ReportTypeOK' /\ KindIsResult' /\ ResultFitsStatus' /\ OnlySucceededHaveFiles'
  BY <1>1 DEF ReportInv, ReportTypeOK, KindIsResult, ResultFitsStatus, OnlySucceededHaveFiles
<1>5. TallyIsTrue' /\ (\A j \in Jobs : Fits(stored[j], j))'
  BY <1>1 DEF ReportInv, TallyIsTrue, FilesOf, Fits, Unsettled
<1>6. StoredReportIsTrue'
  <2>1. ASSUME NEW j \in Jobs, job[j] # "absent", ~Busy(j), NEW report, report = stored[j]
        PROVE  report.kind = result[j] /\ ReportIsTrue(report, j)'
    <3>1. report.kind = result[j] /\ ReportIsTrue(report, j)
      BY <2>1 DEF ReportInv, StoredReportIsTrue
    <3>2. ChunksStay(j)
      BY <1>1 DEF ChunksStay
    <3>3. QED
      BY <3>1, <3>2, TruthStays
  <2>2. QED
    BY <1>1, <2>1 DEF StoredReportIsTrue, ReportIsTrue, Busy
<1>7. WantedOnly'
  BY <1>1 DEF ReportInv, WantedOnly, Planned
<1>8. QED
  BY <1>2, <1>3, <1>4, <1>5, <1>6, <1>7 DEF ReportInv, SerialInv

LEMMA PollStep ==
  ASSUME ReportInv, Poll
  PROVE  ReportInv'
<1>1. ASSUME NEW j \in Jobs, PollJob(j)
      PROVE  PolledFits'
  <2>1. /\ polled' = [job |-> j, status |-> job[j], report |-> stored[j]]
        /\ job[j] # "absent" /\ job' = job /\ chunk' = chunk
    BY <1>1 DEF PollJob, vars, db
  <2>2. Fits(stored[j], j) /\ stored[j].kind = result[j]
    BY DEF ReportInv, KindIsResult
  <2>3. /\ stored[j].kind = "partial" => job[j] # "queued"
        /\ job[j] = "succeeded" => stored[j].kind # "partial"
    BY <2>2 DEF ReportInv, ResultFitsStatus
  <2>4. polled'.job = j /\ polled'.status = job[j] /\ polled'.report = stored[j]
    BY <2>1
  <2>5. Unsettled(j)' = Unsettled(j)
    BY <2>1 DEF Unsettled, Slices
  <2>6. Fits(polled.report, polled.job)'
    BY <2>2, <2>4, <2>5, <2>1 DEF Fits, Unsettled
  <2>7. QED
    BY <2>1, <2>3, <2>4, <2>6 DEF PolledFits
<1>2. ASSUME PollChunks
      PROVE  PolledFits'
  BY <1>2 DEF PollChunks, PolledFits
<1>3. UNCHANGED <<vars, stored, tally>>
  BY DEF Poll, PollJob, PollChunks
<1>4. QED
  BY <1>1, <1>2, <1>3, RestKeepsReports DEF Poll

LEMMA ReportInvariant ==
  ASSUME SerialClients
  PROVE  ReportsSpec => []ReportInv
<1>1. ASSUME ReportsInit
      PROVE  ReportInv
  <2>1. /\ Init /\ stored = [j \in Jobs |-> NoReport] /\ tally = [t \in Threads |-> NoFiles]
        /\ polled = NoPoll
    BY <1>1 DEF ReportsInit
  <2>2. SerialInv
    BY <2>1, SerialInvInit
  <2>3. \A j \in Jobs : stored[j] = NoReport /\ stored[j].kind = "none"
    BY <2>1 DEF NoReport
  <2>4. ReportTypeOK /\ KindIsResult /\ ResultFitsStatus
    BY <2>1, <2>3 DEF Init, ReportTypeOK, KindIsResult, ResultFitsStatus, NoFiles
  <2>5. OnlySucceededHaveFiles /\ TallyIsTrue
    BY <2>1 DEF Init, OnlySucceededHaveFiles, TallyIsTrue
  <2>6. (\A j \in Jobs : Fits(stored[j], j)) /\ PolledFits
    BY <2>1, <2>3 DEF Fits, PolledFits
  <2>7. StoredReportIsTrue
    BY <2>1 DEF Init, StoredReportIsTrue
  <2>8. WantedOnly
    BY <2>1 DEF Init, WantedOnly, Planned
  <2>9. QED
    BY <2>2, <2>4, <2>5, <2>6, <2>7, <2>8 DEF ReportInv
<1>2. ASSUME IndexInv, ReportInv, [ReportsNext]_reportVars
      PROVE  ReportInv'
  <2>1. TypeOK'
    BY <1>2, ReportsStepIsNext, TypeStep DEF IndexInv
  <2>2. CASE UNCHANGED reportVars
    <3>1. UNCHANGED <<vars, stored, tally, polled>> /\ job' = job /\ chunk' = chunk
      BY <2>2 DEF reportVars, vars, db
    <3>2. PolledFits'
      BY <1>2, <3>1 DEF ReportInv, PolledFits, Fits, Unsettled
    <3>3. QED
      BY <1>2, <3>1, <3>2, RestKeepsReports
  <2>3. QED
    BY <1>2, <2>1, <2>2, ReportsNextCases, ReportRequestStep, ReportWorkStep, PollStep
<1>3. IndexInv /\ ReportInv /\ [ReportsNext]_reportVars => ReportInv'
  BY <1>2
<1>4. ReportsInit => ReportInv
  BY <1>1
<1>5. ReportsSpec => [][ReportsNext]_reportVars /\ ReportsInit
  BY DEF ReportsSpec
<1>6. QED
  BY <1>3, <1>4, <1>5, ReportsKeepToJobs, IndexInvariant, PTL

(***************************************************************************)
(* With clients that wait, the stored report of a job nobody works on      *)
(* tells the truth about its chunks, for any number of jobs, slices,       *)
(* retries and polls.                                                      *)
(***************************************************************************)
THEOREM StoredReportCorrect ==
  ASSUME SerialClients
  PROVE  ReportsSpec => []StoredReportIsTrue
<1>1. ReportInv => StoredReportIsTrue
  BY DEF ReportInv
<1>2. QED
  BY <1>1, ReportInvariant, PTL

(***************************************************************************)
(* With clients that wait, the two statements of a poll never contradict   *)
(* each other, whatever runs between them: a job seen as succeeded keeps   *)
(* its chunks, and the chunks that are not settled only become fewer.      *)
(***************************************************************************)
THEOREM PollsCorrect ==
  ASSUME SerialClients
  PROVE  ReportsSpec => PollsAreConsistent
<1>1. ASSUME ReportInv, PollChunks
      PROVE  /\ polled.status = "succeeded" =>
                  PayloadProgress.finished = PayloadProgress.total
             /\ polled.report.kind = "partial" =>
                  ChunksIn(polled.job, "failed") \subseteq polled.report.gaps
  <2> DEFINE j == polled.job
  <2>1. /\ SerialInv /\ j \in Jobs /\ Fits(polled.report, j)
        /\ polled.status = "succeeded" =>
             job[j] = "succeeded" /\ polled.report.kind # "partial"
    BY <1>1 DEF ReportInv, PolledFits, PollChunks
  <2>2. polled.report.kind = "partial" => ChunksIn(j, "failed") \subseteq polled.report.gaps
    BY <2>1 DEF Fits, Unsettled, ChunksIn
  <2>3. ASSUME polled.status = "succeeded"
        PROVE  PayloadProgress.finished = PayloadProgress.total
    <3>1. \A s \in Slices : chunk[j][s] \in Done
      BY <2>1, <2>3, SucceededJobRests DEF SerialInv, Resting
    <3>2. ChunksIn(j, "succeeded") = Planned(j)
      BY <3>1 DEF ChunksIn, Planned, Done
    <3>3. ProgressFromChunks(j).finished = ProgressFromChunks(j).total
      BY <3>2 DEF ProgressFromChunks
    <3>4. polled.report.kind = "cached" =>
            polled.report.progress.finished = polled.report.progress.total
      BY <2>1 DEF Fits
    <3>5. polled.report.kind # "partial"
      BY <2>1, <2>3
    <3>6. QED
      BY <3>3, <3>4, <3>5 DEF PayloadProgress
  <2>4. QED
    BY <2>2, <2>3
<1>2. ReportInv /\ [ReportsNext]_reportVars =>
        [PollChunks =>
           /\ polled.status = "succeeded" =>
                PayloadProgress.finished = PayloadProgress.total
           /\ polled.report.kind = "partial" =>
                ChunksIn(polled.job, "failed") \subseteq polled.report.gaps]_reportVars
  BY <1>1
<1>3. QED
  BY <1>2, ReportInvariant, PTL DEF ReportsSpec, PollsAreConsistent
====
