---- MODULE Snapshots ----
(***************************************************************************)
(* Snapshots (snapshots/service.py) and the history download jobs that     *)
(* make them (jobs/registry.py, jobs/runner.py, api/routes_jobs.py).       *)
(*                                                                         *)
(* A snapshot is created once and answered from its manifest ever after;   *)
(* nothing deletes it.  A request creates it in its own thread, a job in a *)
(* daemon thread of the job: the job is marked running, the history is     *)
(* downloaded, the snapshot created, the job marked succeeded or failed.   *)
(* The registry of jobs is in memory and has a lock, but those who read a  *)
(* job do so outside of it, so mark_succeeded is seen in two steps.        *)
(***************************************************************************)
EXTENDS ArtifactFiles

CONSTANTS Clients,     \* the threads of requests
          Jobs,        \* the jobs, each with a thread of its own
          MaxRequests, \* bound: snapshots requested, directly or through a job
          MaxCrashes   \* bound: restarts of the server

ASSUME SnapshotAssumption ==
  /\ Threads = Clients \union Jobs
  /\ Clients \intersect Jobs = {}
  /\ MaxRequests \in Nat /\ MaxCrashes \in Nat

VARIABLES status,   \* the status of a job, "absent" if the registry does not have it
          result,   \* its result
          about,    \* the snapshot it asks for
          requests, crashes

registry == <<status, result, about>>
bounds   == <<requests, crashes>>
vars     == <<files, local, overlapped, registry, bounds>>

JobStatus == {"queued", "running", "succeeded", "failed", "cancelled"}

Init ==
  /\ FilesInit
  /\ status = [j \in Jobs |-> "absent"]
  /\ result = [j \in Jobs |-> NoFile]
  /\ about = [j \in Jobs |-> NoId]
  /\ requests = 0 /\ crashes = 0

SetStatus(j, s) == status' = [status EXCEPT ![j] = s]

Begin(t, id, step) ==
  /\ pc[t] = "idle"
  /\ requests < MaxRequests
  /\ requests' = requests + 1
  /\ mine' = [mine EXCEPT ![t] = id]
  /\ Goto(t, step)
  /\ UNCHANGED <<files, bars, hash, got, overlapped, crashes>>
----
(***************************************************************************)
(* SnapshotService.create.                                                 *)
(***************************************************************************)
RequestSnapshot(c, id) ==
  /\ Begin(c, id, "look")
  /\ UNCHANGED registry

\* Nothing is answered from a manifest.
LookNowhere(t) ==
  /\ pc[t] = "look"
  /\ IF \E id \in Ids : manifest[id] = Torn
     THEN Answer(t, NoFile) /\ UNCHANGED overlapped
     ELSE Miss(t)
  /\ UNCHANGED <<files, registry, bounds>>

\* find_by_request_hash reads every manifest of the directory; one that is torn
\* raises.
Look(t) ==
  /\ pc[t] = "look"
  /\ IF \E id \in Ids : manifest[id] = Torn
     THEN Answer(t, NoFile) /\ UNCHANGED overlapped
     ELSE IF manifest[mine[t]] # NoFile
          THEN Answer(t, manifest[mine[t]]) /\ UNCHANGED overlapped
          ELSE Miss(t)
  /\ UNCHANGED <<files, registry, bounds>>

Create(t) ==
  \/ Look(t)
  \/ (CreateStep(t) \/ Raise(t)) /\ UNCHANGED <<registry, bounds>>

Respond(c) ==
  /\ pc[c] = "answered"
  /\ Release(c)
  /\ Goto(c, "idle")
  /\ UNCHANGED <<files, overlapped, registry, bounds>>
----
(***************************************************************************)
(* The jobs.                                                               *)
(***************************************************************************)
SubmitHistoryDownload(j, id) ==
  /\ status[j] = "absent"
  /\ Begin(j, id, "start")
  /\ SetStatus(j, "queued")
  /\ about' = [about EXCEPT ![j] = id]
  /\ UNCHANGED result

\* A job is cancelled before its thread has marked it running, or not at all.
Cancel(j) ==
  /\ status[j] = "queued"
  /\ SetStatus(j, "cancelled")
  /\ UNCHANGED <<files, local, overlapped, result, about, bounds>>

\* The status is not looked at.
MarkRunning(j) ==
  /\ pc[j] = "start"
  /\ SetStatus(j, "running")
  /\ Goto(j, "download")
  /\ UNCHANGED <<files, mine, bars, hash, got, overlapped, result, about, bounds>>

\* The download may raise; what it brings, the bars of the snapshot may or may not show.
DownloadHistory(j) ==
  /\ pc[j] = "download"
  /\ \E step \in {"look", "answered"} : Goto(j, step)
  /\ UNCHANGED <<files, mine, bars, hash, got, overlapped, registry, bounds>>

\* Whatever the creation answered.
MarkSucceededAnyway(j) ==
  /\ pc[j] = "answered"
  /\ SetStatus(j, "succeeded")
  /\ Goto(j, "result")
  /\ UNCHANGED <<files, mine, bars, hash, got, overlapped, result, about, bounds>>

MarkSucceeded(j) ==
  /\ pc[j] = "answered"
  /\ got[j] # NoFile
  /\ SetStatus(j, "succeeded")
  /\ Goto(j, "result")
  /\ UNCHANGED <<files, mine, bars, hash, got, overlapped, result, about, bounds>>

SetResult(j) ==
  /\ pc[j] = "result"
  /\ result' = [result EXCEPT ![j] = got[j]]
  /\ Release(j)
  /\ Goto(j, "ended")
  /\ UNCHANGED <<files, overlapped, status, about, bounds>>

\* The thread ends and says nothing.
MarkFailedSilently(j) ==
  /\ pc[j] = "answered"
  /\ got[j] = NoFile
  /\ Release(j)
  /\ Goto(j, "ended")
  /\ UNCHANGED <<files, overlapped, registry, bounds>>

MarkFailed(j) ==
  /\ pc[j] = "answered"
  /\ got[j] = NoFile
  /\ SetStatus(j, "failed")
  /\ Release(j)
  /\ Goto(j, "ended")
  /\ UNCHANGED <<files, overlapped, result, about, bounds>>

\* The server is killed: threads and registry are gone, the files stay.
Crash ==
  /\ crashes < MaxCrashes
  /\ crashes' = crashes + 1
  /\ pc' = [t \in Threads |-> "idle"]
  /\ mine' = [t \in Threads |-> NoId]
  /\ bars' = [t \in Threads |-> 0]
  /\ hash' = [t \in Threads |-> NoFile]
  /\ got' = [t \in Threads |-> NoFile]
  /\ status' = [j \in Jobs |-> "absent"]
  /\ result' = [j \in Jobs |-> NoFile]
  /\ about' = [j \in Jobs |-> NoId]
  /\ UNCHANGED <<files, overlapped, requests>>

Work(j) ==
  \/ MarkRunning(j) \/ DownloadHistory(j) \/ Create(j)
  \/ MarkSucceeded(j) \/ SetResult(j) \/ MarkFailed(j)

Serve(c) == Create(c) \/ Respond(c)

Next ==
  \/ \E c \in Clients : Serve(c) \/ \E id \in Ids : RequestSnapshot(c, id)
  \/ \E j \in Jobs : Work(j) \/ Cancel(j) \/ \E id \in Ids : SubmitHistoryDownload(j, id)
  \/ Crash

Spec == Init /\ [][Next]_vars

\* The threads of the server run as long as the server does.
FairSpec == Spec /\ \A j \in Jobs : WF_vars(Work(j))
----
TypeOK ==
  /\ FilesTypeOK
  /\ pc \in [Threads -> Steps \union
              {"idle", "look", "start", "download", "answered", "result", "ended"}]
  /\ status \in [Jobs -> JobStatus \union {"absent"}]
  /\ result \in [Jobs -> Manifests \union {NoFile}]
  /\ about \in [Jobs -> Ids \union {NoId}]
  /\ requests \in 0 .. MaxRequests
  /\ crashes \in 0 .. MaxCrashes

(***************************************************************************)
(* A manifest that can be read describes the data file, whatever failed    *)
(* and whenever the server was killed.  Snapshots of which two creations   *)
(* were under way together (`overlapped`) are exempt: the code does not    *)
(* keep it for them.                                                       *)
(***************************************************************************)
ManifestDescribesData ==
  \A id \in Ids \ overlapped : manifest[id] \in Manifests =>
    data[id] # NoFile /\ Describes(manifest[id], data[id])

(***************************************************************************)
(* The manifest a request was answered with, and the one that is the       *)
(* result of a job, is the manifest on the disk, then and later; again     *)
(* but for snapshots of which two creations were under way together: the   *)
(* later manifest replaces the one that was answered.                      *)
(***************************************************************************)
AnswersStayTrue ==
  /\ \A c \in Clients : pc[c] = "answered" /\ got[c] # NoFile /\ mine[c] \notin overlapped =>
       manifest[mine[c]] = got[c]
  /\ \A j \in Jobs : result[j] # NoFile /\ about[j] \notin overlapped =>
       manifest[about[j]] = result[j]

(***************************************************************************)
(* A job whose thread has ended has a final status, and a result exactly   *)
(* when it succeeded: nobody is told of a snapshot that was not made, and  *)
(* no snapshot that was made is lost, whoever cancels and whatever fails.  *)
(***************************************************************************)
EndedJobIsSettled ==
  \A j \in Jobs : pc[j] = "ended" =>
    /\ status[j] \in {"succeeded", "failed", "cancelled"}
    /\ (status[j] = "succeeded") <=> (result[j] # NoFile)

(***************************************************************************)
(* Every job comes to rest, unless a restart forgets it.  One that is      *)
(* cancelled may rest as cancelled or run all the same: which of the two   *)
(* is the matter of CancelledStays.                                        *)
(***************************************************************************)
EveryHistoryJobEnds ==
  \A j \in Jobs : status[j] \in {"queued", "running"} ~>
    status[j] \in {"succeeded", "failed", "cancelled", "absent"}

(***************************************************************************)
(* A job that could be cancelled stays cancelled (docs/api.md:585: that a  *)
(* queued job can be cancelled is guaranteed).                             *)
(* The code does not keep it: mark_running and mark_succeeded do not look  *)
(* at the status, so a job cancelled while queued runs and succeeds.       *)
(***************************************************************************)
CancelledStays ==
  [][\A j \in Jobs : status[j] = "cancelled" => status'[j] \in {"cancelled", "absent"}]_vars
====
