---- MODULE Snapshots_proofs ----
(***************************************************************************)
(* Theorems about Snapshots for any number of snapshots, clients, jobs,    *)
(* answers and restarts.                                                   *)
(*                                                                         *)
(* The argument follows a creation.  As long as an id is created by one    *)
(* thread at a time, what its files hold is told by the step of that       *)
(* thread (Filled), and there is no manifest that could be read; so a      *)
(* manifest that somebody was answered with is never written again.        *)
(***************************************************************************)
EXTENDS Snapshots, TLAPS

\* What a thread holds at its step.
Held(t) ==
  /\ pc[t] \notin {"idle", "ended"} => mine[t] \in Ids
  /\ pc[t] \in {"open", "part1", "part2", "hash", "stat"} => bars[t] \in Answers
  /\ pc[t] \in {"part1", "part2", "hash", "stat", "save"} => data[mine[t]] \in Contents
  /\ pc[t] = "stat" => hash[t] \in Contents
  /\ pc[t] = "save" => got[t] \in Manifests
  /\ pc[t] \notin {"save", "answered", "result"} => got[t] = NoFile

\* How far thread t has filled the files of id.
Filled(t, id) ==
  /\ manifest[id] = IF pc[t] = "save" THEN Torn ELSE NoFile
  /\ pc[t] = "part1" => data[id] = <<0, 0>>
  /\ pc[t] = "part2" => data[id] = <<bars[t], 0>>
  /\ pc[t] \in {"hash", "stat"} => data[id] = <<bars[t], bars[t]>>
  /\ pc[t] = "stat" => hash[t] = data[id]
  /\ pc[t] = "save" => Describes(got[t], data[id])

Answered(t, id) == pc[t] \in {"answered", "result"} /\ mine[t] = id /\ got[t] # NoFile

Sound(id) ==
  /\ \A t, u \in Threads : Creating(t, id) /\ Creating(u, id) => t = u
  /\ \A t \in Threads : Creating(t, id) => Filled(t, id)
  /\ manifest[id] \in Manifests => data[id] # NoFile /\ Describes(manifest[id], data[id])
  /\ \A t \in Threads : Answered(t, id) => manifest[id] = got[t]
  /\ \A j \in Jobs : about[j] = id /\ result[j] # NoFile => manifest[id] = result[j]

\* How far the job of thread j is.
Progress(j) ==
  /\ pc[j] # "idle" => about[j] \in Ids
  /\ pc[j] \notin {"idle", "ended"} => mine[j] = about[j]
  /\ pc[j] \in Steps \union {"download", "look", "answered"} => status[j] = "running"
  /\ pc[j] = "result" => status[j] = "succeeded" /\ got[j] # NoFile
  /\ pc[j] # "ended" => result[j] = NoFile
  /\ pc[j] = "ended" => /\ status[j] \in {"succeeded", "failed"}
                        /\ (status[j] = "succeeded") <=> (result[j] # NoFile)

AllHeld  == \A t \in Threads : Held(t)
AllSound == \A id \in Ids \ overlapped : Sound(id)
AllGo    == \A j \in Jobs : Progress(j)

SnapInv == TypeOK /\ AllHeld /\ AllGo /\ AllSound

LEMMA JobsAreThreads == \A j \in Jobs : j \in Threads
BY SnapshotAssumption

LEMMA Different ==
  /\ NoFile \notin Contents /\ NoFile \notin Manifests
  /\ Torn \notin Contents /\ Torn \notin Manifests /\ Torn # NoFile
BY FilesAssumption

LEMMA SizeType == \A x : Size(x) \in 0 .. 2
BY DEF Size

LEMMA SnapInit == Init => SnapInv
<1> SUFFICES ASSUME Init PROVE SnapInv
  OBVIOUS
<1> USE DEF Init, FilesInit
<1>1. TypeOK
  BY SnapshotAssumption, JobsAreThreads DEF TypeOK, FilesTypeOK
<1>2. AllHeld
  BY DEF AllHeld, Held
<1>3. AllGo
  BY JobsAreThreads DEF AllGo, Progress, Steps
<1>4. AllSound
  BY Different, JobsAreThreads DEF AllSound, Sound, Creating, Steps, Answered
<1> QED BY <1>1, <1>2, <1>3, <1>4 DEF SnapInv
----
(***************************************************************************)
(* A step that leaves the files of an id alone, of a thread that does not  *)
(* create it afterwards: what is answered has to be right.                 *)
(***************************************************************************)
LEMMA FilesAlone ==
  ASSUME NEW id \in Ids, Sound(id), NEW t \in Threads,
         \A u \in Threads \ {t} :
           /\ pc'[u] = pc[u] /\ mine'[u] = mine[u] /\ bars'[u] = bars[u]
           /\ hash'[u] = hash[u] /\ got'[u] = got[u],
         data'[id] = data[id], manifest'[id] = manifest[id],
         ~Creating(t, id)',
         Answered(t, id)' => manifest[id] = got'[t],
         \A j \in Jobs : about'[j] = id /\ result'[j] # NoFile => manifest[id] = result'[j]
  PROVE  Sound(id)'
<1>1. \A u \in Threads : Creating(u, id)' => u # t /\ Creating(u, id)
  BY DEF Creating
<1>2. \A u \in Threads \ {t} : Answered(u, id)' => Answered(u, id)
  BY DEF Answered
<1>3. \A u \in Threads \ {t} : Filled(u, id) => Filled(u, id)'
  BY DEF Filled, Describes
<1>4. \A u, v \in Threads : Creating(u, id)' /\ Creating(v, id)' => u = v
  BY <1>1 DEF Sound
<1>5. \A u \in Threads : Creating(u, id)' => Filled(u, id)'
  BY <1>1, <1>3 DEF Sound
<1>6. manifest'[id] \in Manifests => data'[id] # NoFile /\ Describes(manifest'[id], data'[id])
  BY DEF Sound, Describes
<1>7. \A u \in Threads : Answered(u, id)' => manifest'[id] = got'[u]
  BY <1>2 DEF Sound
<1> QED BY <1>4, <1>5, <1>6, <1>7 DEF Sound, Describes

(***************************************************************************)
(* A step of the one thread that creates an id: it is enough to look at    *)
(* its files and at that thread, because nobody has an answer.             *)
(***************************************************************************)
LEMMA ByCreator ==
  ASSUME TypeOK, NEW t \in Threads, NEW id \in Ids, Sound(id), Creating(t, id),
         UNCHANGED <<mine, result, about>>,
         \A u \in Threads \ {t} :
           /\ pc'[u] = pc[u] /\ bars'[u] = bars[u] /\ hash'[u] = hash[u] /\ got'[u] = got[u],
         Creating(t, id)' => Filled(t, id)',
         manifest'[id] \in Manifests => data'[id] # NoFile /\ Describes(manifest'[id], data'[id]),
         Answered(t, id)' => manifest'[id] = got'[t]
  PROVE  Sound(id)'
<1>1. manifest[id] \notin Manifests
  BY Different DEF Sound, Filled
<1>2. \A u \in Threads \ {t} : ~Creating(u, id)
  BY DEF Sound
<1>3. \A u \in Threads \ {t} : ~Answered(u, id)
  BY <1>1 DEF Sound, Answered, TypeOK, FilesTypeOK
<1>4. \A j \in Jobs : ~(about[j] = id /\ result[j] # NoFile)
  BY <1>1 DEF Sound, TypeOK
<1>5. \A u \in Threads \ {t} : ~Creating(u, id)' /\ ~Answered(u, id)'
  BY <1>2, <1>3 DEF Creating, Answered
<1> QED BY <1>4, <1>5 DEF Sound, Describes
----
(***************************************************************************)
(* Types, and what threads hold.                                           *)
(***************************************************************************)
LEMMA WritePart ==
  ASSUME NEW c \in Contents, NEW a \in Answers
  PROVE  /\ [c EXCEPT ![1] = a] = <<a, c[2]>> /\ [c EXCEPT ![1] = a] \in Contents
         /\ [c EXCEPT ![2] = a] = <<c[1], a>> /\ [c EXCEPT ![2] = a] \in Contents
BY DEF Contents

LEMMA CreationStep ==
  ASSUME TypeOK, AllHeld, NEW t \in Threads, CreateStep(t)
  PROVE  FilesTypeOK' /\ pc' \in [Threads -> Steps \union {"answered"} \union
              {"idle", "look", "start", "download", "result", "ended"}] /\ AllHeld'
<1> USE DEF TypeOK, FilesTypeOK, Steps, Goto
<1>h. Held(t)
  BY DEF AllHeld
<1>0. <<0, 0>> \in Contents
  BY DEF Contents
<1>1. CASE Fetch(t)
  BY <1>1, <1>h DEF Fetch, AllHeld, Held, files
<1>2. CASE OpenData(t)
  BY <1>2, <1>h, <1>0 DEF OpenData, AllHeld, Held
<1>3. CASE WriteFirstPart(t)
  <2> DEFINE c == [data[mine[t]] EXCEPT ![1] = bars[t]]
  <2>1. mine[t] \in Ids /\ data[mine[t]] \in Contents /\ bars[t] \in Answers
    BY <1>3, <1>h DEF WriteFirstPart, Held
  <2>2. data' = [data EXCEPT ![mine[t]] = c]
    BY <1>3 DEF WriteFirstPart
  <2>3. c \in Contents
    BY <2>1, WritePart, Zenon
  <2>4. /\ pc[t] = "part1" /\ pc' = [pc EXCEPT ![t] = "part2"]
        /\ UNCHANGED <<manifest, mine, bars, hash, got, overlapped>>
    BY <1>3 DEF WriteFirstPart
  <2> HIDE DEF c
  <2>5. FilesTypeOK'
    BY <2>2, <2>3, <2>4
  <2>6. \A i \in Ids : data[i] \in Contents => data'[i] \in Contents
    BY <2>2, <2>3
  <2>7. AllHeld'
    <3> SUFFICES ASSUME NEW u \in Threads PROVE Held(u)'
      BY DEF AllHeld
    <3>1. Held(u)
      BY DEF AllHeld
    <3>2. data[mine[u]] \in Contents /\ mine[u] \in Ids => data'[mine[u]] \in Contents
      BY <2>6
    <3>3. CASE u = t
      BY <2>1, <2>4, <3>1, <3>2, <3>3 DEF Held
    <3>4. CASE u # t
      <4>1. pc'[u] = pc[u]
        BY <2>4, <3>4
      <4> QED BY <2>4, <3>1, <3>2, <4>1 DEF Held
    <3> QED BY <3>3, <3>4
  <2> QED BY <2>4, <2>5, <2>7
<1>4. CASE WriteSecondPart(t)
  <2> DEFINE c == [data[mine[t]] EXCEPT ![2] = bars[t]]
  <2>1. mine[t] \in Ids /\ data[mine[t]] \in Contents /\ bars[t] \in Answers
    BY <1>4, <1>h DEF WriteSecondPart, Held
  <2>2. data' = [data EXCEPT ![mine[t]] = c]
    BY <1>4 DEF WriteSecondPart
  <2>3. c \in Contents
    BY <2>1, WritePart, Zenon
  <2>4. /\ pc[t] = "part2" /\ pc' = [pc EXCEPT ![t] = "hash"]
        /\ UNCHANGED <<manifest, mine, bars, hash, got, overlapped>>
    BY <1>4 DEF WriteSecondPart
  <2> HIDE DEF c
  <2>5. FilesTypeOK'
    BY <2>2, <2>3, <2>4
  <2>6. \A i \in Ids : data[i] \in Contents => data'[i] \in Contents
    BY <2>2, <2>3
  <2>7. AllHeld'
    <3> SUFFICES ASSUME NEW u \in Threads PROVE Held(u)'
      BY DEF AllHeld
    <3>1. Held(u)
      BY DEF AllHeld
    <3>2. data[mine[u]] \in Contents /\ mine[u] \in Ids => data'[mine[u]] \in Contents
      BY <2>6
    <3>3. CASE u = t
      BY <2>1, <2>4, <3>1, <3>2, <3>3 DEF Held
    <3>4. CASE u # t
      <4>1. pc'[u] = pc[u]
        BY <2>4, <3>4
      <4> QED BY <2>4, <3>1, <3>2, <4>1 DEF Held
    <3> QED BY <3>3, <3>4
  <2> QED BY <2>4, <2>5, <2>7
<1>5. CASE HashData(t)
  BY <1>5, <1>h DEF HashData, AllHeld, Held, files
<1>6. CASE OpenManifest(t)
  <2> DEFINE m == [hash |-> hash[t], size |-> Size(data[mine[t]]), bars |-> bars[t]]
  <2>1. m \in Manifests
    BY <1>6, <1>h, SizeType DEF OpenManifest, Held, Manifests
  <2>2. got' = [got EXCEPT ![t] = m]
    BY <1>6 DEF OpenManifest
  <2> HIDE DEF m
  <2> QED BY <1>6, <1>h, <2>1, <2>2 DEF OpenManifest, AllHeld, Held
<1>7. CASE WriteManifest(t)
  BY <1>7, <1>h DEF WriteManifest, Answer, AllHeld, Held
<1> QED BY <1>1, <1>2, <1>3, <1>4, <1>5, <1>6, <1>7 DEF CreateStep

LEMMA TypeStep == TypeOK /\ AllHeld /\ [Next]_vars => TypeOK' /\ AllHeld'
<1> SUFFICES ASSUME TypeOK, AllHeld, [Next]_vars PROVE TypeOK' /\ AllHeld'
  OBVIOUS
<1>p. pc \in [Threads -> Steps \union
              {"idle", "look", "start", "download", "answered", "result", "ended"}]
  BY DEF TypeOK
<1> USE DEF TypeOK, FilesTypeOK, Goto, SetStatus, registry, bounds, files, local, JobStatus
<1>1. ASSUME NEW t \in Threads, CreateStep(t), UNCHANGED <<registry, bounds>>
      PROVE  TypeOK' /\ AllHeld'
  <2>1. FilesTypeOK' /\ AllHeld'
        /\ pc' \in [Threads -> Steps \union
             {"idle", "look", "start", "download", "answered", "result", "ended"}]
    BY <1>1, CreationStep
  <2> QED BY <1>1, <2>1
<1> USE DEF AllHeld, Held, Steps, Answer, Release
<1>2. ASSUME NEW t \in Threads, Raise(t), UNCHANGED <<registry, bounds>>
      PROVE  TypeOK' /\ AllHeld'
  BY <1>2 DEF Raise
<1>3. ASSUME NEW t \in Threads, Look(t) PROVE TypeOK' /\ AllHeld'
  <2>1. CASE Answer(t, NoFile) /\ UNCHANGED overlapped
    BY <1>3, <2>1 DEF Look
  <2>2. CASE manifest[mine[t]] # NoFile /\ manifest[mine[t]] # Torn
             /\ Answer(t, manifest[mine[t]]) /\ UNCHANGED overlapped
    BY <1>3, <2>2 DEF Look
  <2>3. CASE Miss(t)
    BY <1>3, <2>3 DEF Look, Miss
  <2> QED BY <1>3, <2>1, <2>2, <2>3 DEF Look
<1>4. ASSUME NEW t \in Threads, Create(t) PROVE TypeOK' /\ AllHeld'
  BY <1>1, <1>2, <1>3, <1>4 DEF Create
<1>5. ASSUME NEW c \in Clients, Respond(c) PROVE TypeOK' /\ AllHeld'
  BY <1>5, SnapshotAssumption DEF Respond
<1>6. ASSUME NEW c \in Clients, NEW id \in Ids, RequestSnapshot(c, id) PROVE TypeOK' /\ AllHeld'
  BY <1>6, SnapshotAssumption DEF RequestSnapshot, Begin
<1>7. ASSUME NEW j \in Jobs, NEW id \in Ids, SubmitHistoryDownload(j, id) PROVE TypeOK' /\ AllHeld'
  BY <1>7, SnapshotAssumption DEF SubmitHistoryDownload, Begin
<1>8. ASSUME NEW j \in Jobs, Cancel(j) PROVE TypeOK' /\ AllHeld'
  BY <1>8 DEF Cancel
<1>9. ASSUME NEW j \in Jobs, MarkRunning(j) PROVE TypeOK' /\ AllHeld'
  BY <1>9, JobsAreThreads DEF MarkRunning
<1>10. ASSUME NEW j \in Jobs, DownloadHistory(j) PROVE TypeOK' /\ AllHeld'
  BY <1>10, JobsAreThreads DEF DownloadHistory
<1>11. ASSUME NEW j \in Jobs, MarkSucceeded(j) PROVE TypeOK' /\ AllHeld'
  BY <1>11, JobsAreThreads DEF MarkSucceeded
<1>12. ASSUME NEW j \in Jobs, SetResult(j) PROVE TypeOK' /\ AllHeld'
  BY <1>12, JobsAreThreads DEF SetResult
<1>13. ASSUME NEW j \in Jobs, MarkFailed(j) PROVE TypeOK' /\ AllHeld'
  BY <1>13, JobsAreThreads DEF MarkFailed
<1>14. CASE Crash
  BY <1>14, SnapshotAssumption DEF Crash
<1>15. CASE UNCHANGED vars
  BY <1>15 DEF vars
<1> QED
  BY <1>4, <1>5, <1>6, <1>7, <1>8, <1>9, <1>10, <1>11, <1>12, <1>13, <1>14, <1>15, JobsAreThreads,
     SnapshotAssumption DEF Next, Serve, Work
----
(***************************************************************************)
(* The jobs.                                                               *)
(***************************************************************************)
\* What every step of a creation has in common.
LEMMA CreateFacts ==
  ASSUME NEW t \in Threads, Create(t)
  PROVE  /\ pc[t] \in Steps \union {"look"}
         /\ \E s \in Steps \union {"answered"} : pc' = [pc EXCEPT ![t] = s]
         /\ UNCHANGED <<mine, registry, bounds>>
<1> USE DEF Steps, Goto, Answer
<1>1. CASE Look(t)
  BY <1>1 DEF Look, Miss
<1>2. CASE Raise(t) /\ UNCHANGED <<registry, bounds>>
  BY <1>2 DEF Raise
<1>3. CASE CreateStep(t) /\ UNCHANGED <<registry, bounds>>
  BY <1>3 DEF CreateStep, Fetch, OpenData, WriteFirstPart, WriteSecondPart, HashData, OpenManifest, WriteManifest
<1> QED BY <1>1, <1>2, <1>3 DEF Create

\* It leaves what other threads hold alone.
LEMMA CreateGot ==
  ASSUME TypeOK, NEW t \in Threads, Create(t)
  PROVE  \A u \in Threads \ {t} :
           bars'[u] = bars[u] /\ hash'[u] = hash[u] /\ got'[u] = got[u]
<1> USE DEF Answer, local, TypeOK, FilesTypeOK
<1>1. CASE Look(t)
  BY <1>1 DEF Look, Miss
<1>2. CASE Raise(t)
  BY <1>2 DEF Raise
<1>3. CASE CreateStep(t)
  BY <1>3 DEF CreateStep, Fetch, OpenData, WriteFirstPart, WriteSecondPart, HashData, OpenManifest, WriteManifest
<1> QED BY <1>1, <1>2, <1>3 DEF Create

LEMMA GoStep == TypeOK /\ AllHeld /\ AllGo /\ [Next]_vars => AllGo'
<1> SUFFICES ASSUME TypeOK, AllHeld, AllGo, [Next]_vars, NEW k \in Jobs PROVE Progress(k)'
  BY DEF AllGo
<1>k. Progress(k) /\ k \in Threads
  BY JobsAreThreads DEF AllGo
<1> USE DEF TypeOK, FilesTypeOK, Goto, SetStatus, registry, bounds, files, local, Progress, Steps, Release
<1>1. ASSUME NEW t \in Threads, Create(t) PROVE Progress(k)'
  <2>1. /\ pc[t] \in Steps \union {"look"}
        /\ \E s \in Steps \union {"answered"} : pc' = [pc EXCEPT ![t] = s]
        /\ UNCHANGED <<mine, registry>>
    BY <1>1, CreateFacts
  <2>2. /\ mine'[k] = mine[k] /\ about'[k] = about[k] /\ status'[k] = status[k] /\ result'[k] = result[k]
    BY <2>1
  <2>3. CASE t = k
    <3>1. pc'[k] \in Steps \union {"answered"}
      BY <1>k, <2>1, <2>3
    <3> QED BY <1>k, <2>1, <2>2, <2>3, <3>1
  <2>4. CASE t # k
    <3>1. pc'[k] = pc[k] /\ (pc[k] = "result" => got'[k] = got[k])
      BY <1>1, <1>k, <2>1, <2>4, CreateGot
    <3> QED BY <1>k, <2>2, <3>1
  <2> QED BY <2>3, <2>4
<1>2. ASSUME NEW c \in Clients, Respond(c) PROVE Progress(k)'
  BY <1>2, <1>k, SnapshotAssumption DEF Respond
<1>3. ASSUME NEW c \in Clients, NEW id \in Ids, RequestSnapshot(c, id) PROVE Progress(k)'
  BY <1>3, <1>k, SnapshotAssumption DEF RequestSnapshot, Begin
<1>4. ASSUME NEW j \in Jobs, NEW id \in Ids, SubmitHistoryDownload(j, id) PROVE Progress(k)'
  BY <1>4, <1>k, JobsAreThreads DEF SubmitHistoryDownload, Begin
<1>5. ASSUME NEW j \in Jobs, Cancel(j) PROVE Progress(k)'
  BY <1>5, <1>k DEF Cancel
<1>6. ASSUME NEW j \in Jobs, MarkRunning(j) PROVE Progress(k)'
  BY <1>6, <1>k DEF MarkRunning
<1>7. ASSUME NEW j \in Jobs, DownloadHistory(j) PROVE Progress(k)'
  BY <1>7, <1>k DEF DownloadHistory
<1>8. ASSUME NEW j \in Jobs, MarkSucceeded(j) PROVE Progress(k)'
  BY <1>8, <1>k DEF MarkSucceeded
<1>9. ASSUME NEW j \in Jobs, SetResult(j) PROVE Progress(k)'
  BY <1>9, <1>k DEF SetResult
<1>10. ASSUME NEW j \in Jobs, MarkFailed(j) PROVE Progress(k)'
  BY <1>10, <1>k DEF MarkFailed
<1>11. CASE Crash
  BY <1>11, <1>k DEF Crash
<1>12. CASE UNCHANGED vars
  BY <1>12, <1>k DEF vars
<1> QED
  BY <1>1, <1>2, <1>3, <1>4, <1>5, <1>6, <1>7, <1>8, <1>9, <1>10, <1>11, <1>12, JobsAreThreads,
     SnapshotAssumption DEF Next, Serve, Work
----
(***************************************************************************)
(* The files.                                                              *)
(***************************************************************************)
\* A creation of another id leaves the files of this one alone.
LEMMA OtherFiles ==
  ASSUME TypeOK, NEW t \in Threads, Create(t), NEW id \in Ids, mine[t] # id
  PROVE  data'[id] = data[id] /\ manifest'[id] = manifest[id]
<1> USE DEF TypeOK, FilesTypeOK, files
<1>1. CASE Look(t)
  BY <1>1 DEF Look
<1>2. CASE Raise(t)
  BY <1>2 DEF Raise
<1>3. CASE CreateStep(t)
  BY <1>3 DEF CreateStep, Fetch, OpenData, WriteFirstPart, WriteSecondPart, HashData, OpenManifest, WriteManifest
<1> QED BY <1>1, <1>2, <1>3 DEF Create

LEMMA OwnFiles ==
  ASSUME TypeOK, AllHeld, NEW t \in Threads, Create(t), NEW id \in Ids, mine[t] = id,
         id \notin overlapped', Sound(id)
  PROVE  Sound(id)'
<1>h. Held(t)
  BY DEF AllHeld
<1>f. /\ pc[t] \in Steps \union {"look"}
      /\ \E s \in Steps \union {"answered"} : pc' = [pc EXCEPT ![t] = s]
      /\ UNCHANGED <<mine, result, about>>
  BY CreateFacts DEF registry
<1>o. \A u \in Threads \ {t} :
        /\ pc'[u] = pc[u] /\ mine'[u] = mine[u] /\ bars'[u] = bars[u]
        /\ hash'[u] = hash[u] /\ got'[u] = got[u]
  BY <1>f, CreateGot DEF TypeOK
<1>r. \A j \in Jobs : about'[j] = id /\ result'[j] # NoFile => manifest[id] = result'[j]
  BY <1>f DEF Sound
<1>t. /\ pc \in [Threads -> Steps \union
              {"idle", "look", "start", "download", "answered", "result", "ended"}]
      /\ data \in [Ids -> Contents \union {NoFile}]
      /\ manifest \in [Ids -> Manifests \union {NoFile, Torn}]
      /\ bars \in [Threads -> Answers \union {0}] /\ hash \in [Threads -> Contents \union {NoFile}]
      /\ got \in [Threads -> Manifests \union {NoFile}]
  BY DEF TypeOK, FilesTypeOK
<1>1. CASE Look(t)
  <2>1. data' = data /\ manifest' = manifest
    BY <1>1 DEF Look, files
  <2>2. CASE Answer(t, NoFile) \/ (manifest[id] # NoFile /\ Answer(t, manifest[id]))
    <3>1. ~Creating(t, id)' /\ (Answered(t, id)' => manifest[id] = got'[t])
      BY <1>t, <2>2 DEF Answer, Goto, Creating, Answered, Steps
    <3> QED BY <1>o, <1>r, <2>1, <3>1, FilesAlone
  <2>3. CASE Miss(t) /\ manifest[id] = NoFile
    <3>1. \A u \in Threads : ~Creating(u, id)
      BY <2>3 DEF Miss
    <3>2. pc' = [pc EXCEPT ![t] = "fetch"]
      BY <2>3 DEF Miss, Goto
    <3>3. \A u \in Threads : Creating(u, id)' => u = t
      BY <1>o, <3>1 DEF Creating
    <3>4. Filled(t, id)'
      BY <1>t, <2>1, <2>3, <3>2 DEF Filled
    <3>5. \A u \in Threads : ~Answered(u, id)
      BY <2>3 DEF Sound, Answered
    <3>6. \A u \in Threads : ~Answered(u, id)'
      BY <1>o, <1>t, <3>2, <3>5 DEF Answered
    <3>7. manifest'[id] \notin Manifests
      BY <2>1, <2>3, Different
    <3>8. \A u \in Threads : Creating(u, id)' => Filled(u, id)'
      BY <3>3, <3>4
    <3>9. \A u, v \in Threads : Creating(u, id)' /\ Creating(v, id)' => u = v
      BY <3>3
    <3> QED BY <1>r, <2>1, <3>6, <3>7, <3>8, <3>9 DEF Sound
  <2>4. \/ Answer(t, NoFile)
        \/ manifest[id] # NoFile /\ Answer(t, manifest[id])
        \/ Miss(t) /\ manifest[id] = NoFile
    BY <1>1 DEF Look
  <2> QED BY <2>2, <2>3, <2>4
<1>2. CASE ~Look(t)
  <2>1. Creating(t, id)
    BY <1>2 DEF Create, Creating, Steps, Raise, CreateStep, Fetch, OpenData, WriteFirstPart,
                WriteSecondPart, HashData, OpenManifest, WriteManifest
  <2>2. Filled(t, id)
    BY <2>1 DEF Sound
  <2>3. manifest[id] \notin Manifests
    BY <2>2, Different DEF Filled
  <2>g. ASSUME Creating(t, id)' => Filled(t, id)',
               manifest'[id] \in Manifests => data'[id] # NoFile /\ Describes(manifest'[id], data'[id]),
               Answered(t, id)' => manifest'[id] = got'[t]
        PROVE  Sound(id)'
    BY <1>f, <1>o, <2>1, <2>g, ByCreator
  <2>4. CASE Raise(t)
    <3>1. ~Creating(t, id)' /\ ~Answered(t, id)' /\ manifest' = manifest
      BY <1>t, <2>4 DEF Raise, Answer, Goto, Creating, Answered, Steps, files
    <3> QED BY <2>3, <2>g, <3>1
  <2>5. CASE Fetch(t)
    <3>1. pc'[t] = "open" /\ manifest' = manifest
      BY <1>t, <2>5 DEF Fetch, Goto, files
    <3>2. Filled(t, id)'
      BY <2>2, <2>5, <3>1 DEF Filled, Fetch
    <3> QED BY <2>3, <2>g, <3>1, <3>2 DEF Answered
  <2>6. CASE OpenData(t)
    <3>1. pc'[t] = "part1" /\ manifest' = manifest /\ data'[id] = <<0, 0>> /\ pc[t] = "open"
      BY <1>t, <2>6 DEF OpenData, Goto
    <3>2. Filled(t, id)'
      BY <2>2, <3>1 DEF Filled
    <3> QED BY <2>3, <2>g, <3>1, <3>2 DEF Answered
  <2>7. CASE WriteFirstPart(t)
    <3>1. /\ pc'[t] = "part2" /\ manifest' = manifest /\ pc[t] = "part1" /\ bars' = bars
          /\ data' = [data EXCEPT ![id] = [data[id] EXCEPT ![1] = bars[t]]]
      BY <1>t, <2>7 DEF WriteFirstPart, Goto
    <3>2. data[id] = <<0, 0>>
      BY <2>2, <3>1 DEF Filled
    <3>3. data'[id] = <<bars[t], 0>>
      BY <1>t, <3>1, <3>2
    <3>4. Filled(t, id)'
      BY <2>2, <3>1, <3>3 DEF Filled
    <3> QED BY <2>3, <2>g, <3>1, <3>4 DEF Answered
  <2>8. CASE WriteSecondPart(t)
    <3>1. /\ pc'[t] = "hash" /\ manifest' = manifest /\ pc[t] = "part2" /\ bars' = bars
          /\ data' = [data EXCEPT ![id] = [data[id] EXCEPT ![2] = bars[t]]]
      BY <1>t, <2>8 DEF WriteSecondPart, Goto
    <3>2. data[id] = <<bars[t], 0>>
      BY <2>2, <3>1 DEF Filled
    <3>3. data'[id] = <<bars[t], bars[t]>>
      BY <1>t, <3>1, <3>2
    <3>4. Filled(t, id)'
      BY <2>2, <3>1, <3>3 DEF Filled
    <3> QED BY <2>3, <2>g, <3>1, <3>4 DEF Answered
  <2>9. CASE HashData(t)
    <3>1. /\ pc'[t] = "stat" /\ manifest' = manifest /\ data' = data /\ bars' = bars
          /\ pc[t] = "hash" /\ hash'[t] = data[id]
      BY <1>t, <2>9 DEF HashData, Goto, files
    <3>2. Filled(t, id)'
      BY <2>2, <3>1 DEF Filled
    <3> QED BY <2>3, <2>g, <3>1, <3>2 DEF Answered
  <2>10. CASE OpenManifest(t)
    <3>1. /\ pc'[t] = "save" /\ manifest'[id] = Torn /\ data' = data /\ pc[t] = "stat"
          /\ got'[t] = [hash |-> hash[t], size |-> Size(data[id]), bars |-> bars[t]]
      BY <1>t, <2>10 DEF OpenManifest, Goto
    <3>2. Describes(got'[t], data[id])
      BY <2>2, <3>1 DEF Filled, Describes
    <3>3. Filled(t, id)'
      BY <3>1, <3>2 DEF Filled, Describes
    <3> QED BY <2>g, <3>1, <3>3, Different DEF Answered
  <2>11. CASE WriteManifest(t)
    <3>1. /\ pc'[t] = "answered" /\ manifest'[id] = got[t] /\ data' = data /\ pc[t] = "save"
          /\ got'[t] = got[t]
      BY <1>t, <2>11 DEF WriteManifest, Answer, Goto
    <3>2. Describes(got[t], data[id]) /\ data[id] # NoFile
      BY <1>h, <2>2, <3>1, Different DEF Filled, Held
    <3>3. ~Creating(t, id)'
      BY <3>1 DEF Creating, Steps
    <3> QED BY <2>g, <3>1, <3>2, <3>3 DEF Describes
  <2> QED
    BY <1>2, <2>4, <2>5, <2>6, <2>7, <2>8, <2>9, <2>10, <2>11 DEF Create, CreateStep
<1> QED BY <1>1, <1>2

LEMMA SoundStep == SnapInv /\ [Next]_vars => AllSound'
<1> SUFFICES ASSUME SnapInv, [Next]_vars, NEW id \in Ids, id \notin overlapped' PROVE Sound(id)'
  BY DEF AllSound
<1> USE DEF SnapInv
<1>s. overlapped \subseteq overlapped'
  BY DEF Next, Serve, Work, Create, Look, Answer, Miss, CreateStep, Fetch, OpenData, WriteFirstPart,
         WriteSecondPart, HashData, OpenManifest, WriteManifest, Raise, Respond, RequestSnapshot,
         SubmitHistoryDownload, Begin, Cancel, MarkRunning, DownloadHistory, MarkSucceeded,
         SetResult, MarkFailed, Crash, vars
<1>i. Sound(id)
  BY <1>s DEF AllSound
<1>t. /\ pc \in [Threads -> Steps \union
              {"idle", "look", "start", "download", "answered", "result", "ended"}]
      /\ mine \in [Threads -> Ids \union {NoId}] /\ got \in [Threads -> Manifests \union {NoFile}]
      /\ bars \in [Threads -> Answers \union {0}] /\ hash \in [Threads -> Contents \union {NoFile}]
      /\ result \in [Jobs -> Manifests \union {NoFile}] /\ about \in [Jobs -> Ids \union {NoId}]
  BY DEF TypeOK, FilesTypeOK
<1>j. \A j \in Jobs : about[j] = id /\ result[j] # NoFile => manifest[id] = result[j]
  BY <1>i DEF Sound
<1> USE DEF Goto, files, registry, local
<1>1. ASSUME NEW t \in Threads, Create(t) PROVE Sound(id)'
  <2>1. CASE mine[t] = id
    BY <1>i, <1>1, <2>1, OwnFiles
  <2>2. CASE mine[t] # id
    <3>1. UNCHANGED <<mine, result, about>>
      BY <1>1, CreateFacts
    <3>2. data'[id] = data[id] /\ manifest'[id] = manifest[id]
      BY <1>1, <2>2, OtherFiles
    <3>3. \A u \in Threads \ {t} :
            /\ pc'[u] = pc[u] /\ mine'[u] = mine[u] /\ bars'[u] = bars[u]
            /\ hash'[u] = hash[u] /\ got'[u] = got[u]
      BY <1>1, <1>t, CreateFacts, CreateGot
    <3>4. ~Creating(t, id)' /\ ~Answered(t, id)'
      BY <2>2, <3>1 DEF Creating, Answered
    <3> QED BY <1>i, <1>j, <3>1, <3>2, <3>3, <3>4, FilesAlone
  <2> QED BY <2>1, <2>2
\* Steps outside of the creation: the files stay.
<1>2. ASSUME NEW t \in Threads, UNCHANGED <<data, manifest>>,
             \E s : pc' = [pc EXCEPT ![t] = s],
             \A u \in Threads \ {t} : mine'[u] = mine[u] /\ got'[u] = got[u],
             UNCHANGED <<bars, hash>>,
             ~Creating(t, id)',
             Answered(t, id)' => manifest[id] = got'[t],
             \A j \in Jobs : about'[j] = id /\ result'[j] # NoFile => manifest[id] = result'[j]
      PROVE  Sound(id)'
  BY <1>2, <1>i, <1>t, FilesAlone
<1> USE SnapshotAssumption DEF Creating, Answered, Steps
<1>3. ASSUME NEW c \in Clients, Respond(c) PROVE Sound(id)'
  <2>1. c \in Threads /\ pc' = [pc EXCEPT ![c] = "idle"] /\ UNCHANGED <<data, manifest, bars, hash, result, about>>
        /\ mine' = [mine EXCEPT ![c] = NoId] /\ got' = [got EXCEPT ![c] = NoFile]
    BY <1>3 DEF Respond, Release
  <2>2. ~Creating(c, id)' /\ ~Answered(c, id)' /\ \A u \in Threads \ {c} : mine'[u] = mine[u] /\ got'[u] = got[u]
    BY <1>t, <2>1
  <2> QED BY <1>2, <1>j, <2>1, <2>2
<1>4. ASSUME NEW t \in Threads, NEW i \in Ids, NEW s \in {"look", "start"}, Begin(t, i, s),
             \A j \in Jobs : about'[j] = id /\ result'[j] # NoFile => manifest[id] = result'[j]
      PROVE  Sound(id)'
  <2>1. pc' = [pc EXCEPT ![t] = s] /\ UNCHANGED <<data, manifest, bars, hash, got>>
        /\ mine' = [mine EXCEPT ![t] = i]
    BY <1>4 DEF Begin
  <2>2. ~Creating(t, id)' /\ ~Answered(t, id)' /\ \A u \in Threads \ {t} : mine'[u] = mine[u] /\ got'[u] = got[u]
    BY <1>t, <2>1
  <2> QED BY <1>2, <1>4, <2>1, <2>2
<1>5. ASSUME NEW c \in Clients, NEW i \in Ids, RequestSnapshot(c, i) PROVE Sound(id)'
  BY <1>4, <1>5, <1>j DEF RequestSnapshot
<1>6. ASSUME NEW j \in Jobs, NEW i \in Ids, SubmitHistoryDownload(j, i) PROVE Sound(id)'
  <2>1. pc[j] = "idle" /\ result[j] = NoFile
    BY <1>6 DEF SubmitHistoryDownload, Begin, AllGo, Progress
  <2>2. about' = [about EXCEPT ![j] = i] /\ result' = result /\ Begin(j, i, "start") /\ j \in Threads
    BY <1>6 DEF SubmitHistoryDownload
  <2>3. \A k \in Jobs : about'[k] = id /\ result'[k] # NoFile => manifest[id] = result'[k]
    BY <1>j, <1>t, <2>1, <2>2
  <2> QED BY <1>4, <2>2, <2>3
<1>7. ASSUME NEW j \in Jobs, Cancel(j) PROVE Sound(id)'
  <2>1. UNCHANGED <<data, manifest, pc, mine, bars, hash, got, result, about>>
    BY <1>7 DEF Cancel
  <2> QED BY <1>i, <2>1 DEF Sound, Filled, Describes
<1>8. ASSUME NEW j \in Jobs, NEW s \in {"download", "look"}, pc' = [pc EXCEPT ![j] = s],
             UNCHANGED <<data, manifest, mine, bars, hash, got, result, about>>
      PROVE  Sound(id)'
  <2>1. j \in Threads /\ ~Creating(j, id)' /\ ~Answered(j, id)'
    BY <1>t, <1>8
  <2> QED BY <1>2, <1>j, <1>8, <2>1
\* The thread has no answer yet, or keeps the one it has.
<1>9. ASSUME NEW j \in Jobs, NEW s \in {"answered", "result"}, pc' = [pc EXCEPT ![j] = s],
             pc[j] \in {"download", "answered"},
             UNCHANGED <<data, manifest, mine, bars, hash, got, result, about>>
      PROVE  Sound(id)'
  <2>1. j \in Threads /\ ~Creating(j, id)'
    BY <1>t, <1>9
  <2>2. Answered(j, id)' => manifest[id] = got'[j]
    BY <1>i, <1>9, <2>1 DEF Sound, AllHeld, Held
  <2> QED BY <1>2, <1>j, <1>9, <2>1, <2>2
<1>10. ASSUME NEW j \in Jobs, SetResult(j) PROVE Sound(id)'
  <2>1. /\ j \in Threads /\ pc[j] = "result" /\ mine[j] = about[j] /\ got[j] # NoFile
        /\ pc' = [pc EXCEPT ![j] = "ended"] /\ result' = [result EXCEPT ![j] = got[j]]
        /\ UNCHANGED <<data, manifest, bars, hash, about>>
        /\ mine' = [mine EXCEPT ![j] = NoId] /\ got' = [got EXCEPT ![j] = NoFile]
    BY <1>10 DEF SetResult, Release, AllGo, Progress
  <2>2. about[j] = id => manifest[id] = got[j]
    BY <1>i, <2>1 DEF Sound
  <2>3. \A k \in Jobs : about'[k] = id /\ result'[k] # NoFile => manifest[id] = result'[k]
    BY <1>j, <1>t, <2>1, <2>2
  <2>4. ~Creating(j, id)' /\ ~Answered(j, id)' /\ \A u \in Threads \ {j} : mine'[u] = mine[u] /\ got'[u] = got[u]
    BY <1>t, <2>1
  <2> QED BY <1>2, <2>1, <2>3, <2>4
<1>11. ASSUME NEW j \in Jobs, MarkFailed(j) PROVE Sound(id)'
  <2>1. /\ j \in Threads /\ pc' = [pc EXCEPT ![j] = "ended"]
        /\ UNCHANGED <<data, manifest, bars, hash, result, about>>
        /\ mine' = [mine EXCEPT ![j] = NoId] /\ got' = [got EXCEPT ![j] = NoFile]
    BY <1>11 DEF MarkFailed, Release
  <2>2. ~Creating(j, id)' /\ ~Answered(j, id)' /\ \A u \in Threads \ {j} : mine'[u] = mine[u] /\ got'[u] = got[u]
    BY <1>t, <2>1
  <2> QED BY <1>2, <1>j, <2>1, <2>2
<1>12. CASE Crash
  <2>1. /\ \A u \in Threads : pc'[u] = "idle"
        /\ \A j \in Jobs : result'[j] = NoFile
        /\ UNCHANGED <<data, manifest>>
    BY <1>12 DEF Crash
  <2> QED BY <1>i, <2>1 DEF Sound, Describes
<1>13. CASE UNCHANGED vars
  BY <1>i, <1>13 DEF vars, Sound, Filled, Describes
<1>14. ASSUME NEW j \in Jobs, MarkRunning(j) \/ DownloadHistory(j) \/ MarkSucceeded(j) PROVE Sound(id)'
  BY <1>8, <1>9, <1>14 DEF MarkRunning, DownloadHistory, MarkSucceeded, bounds
<1> QED
  BY <1>1, <1>3, <1>5, <1>6, <1>7, <1>10, <1>11, <1>12, <1>13, <1>14, JobsAreThreads
     DEF Next, Serve, Work

LEMMA SnapInvHolds == Spec => []SnapInv
<1>1. SnapInv /\ [Next]_vars => SnapInv'
  BY TypeStep, GoStep, SoundStep DEF SnapInv
<1> QED BY SnapInit, <1>1, PTL DEF Spec
----
(***************************************************************************)
(* Type correctness.                                                       *)
(***************************************************************************)
THEOREM TypeCorrect == Spec => []TypeOK
BY SnapInvHolds, PTL DEF SnapInv

(***************************************************************************)
(* A manifest that can be read describes its data file, unless creations   *)
(* of the snapshot overlapped.                                             *)
(***************************************************************************)
THEOREM ManifestCorrect == Spec => []ManifestDescribesData
<1>1. SnapInv => ManifestDescribesData
  BY DEF SnapInv, AllSound, Sound, ManifestDescribesData
<1> QED BY <1>1, SnapInvHolds, PTL

(***************************************************************************)
(* What a client or a job was answered is on the disk, and stays there.    *)
(***************************************************************************)
THEOREM AnswersCorrect == Spec => []AnswersStayTrue
<1>1. SnapInv => AnswersStayTrue
  <2> SUFFICES ASSUME SnapInv PROVE AnswersStayTrue
    OBVIOUS
  <2>1. ASSUME NEW c \in Clients, pc[c] = "answered", got[c] # NoFile, mine[c] \notin overlapped
        PROVE  manifest[mine[c]] = got[c]
    <3>1. c \in Threads /\ mine[c] \in Ids
      BY <2>1, SnapshotAssumption DEF SnapInv, AllHeld, Held
    <3> QED BY <2>1, <3>1 DEF SnapInv, AllSound, Sound, Answered
  <2>2. ASSUME NEW j \in Jobs, result[j] # NoFile, about[j] \notin overlapped
        PROVE  manifest[about[j]] = result[j]
    <3>1. about[j] \in Ids
      BY <2>2 DEF SnapInv, AllGo, Progress
    <3> QED BY <2>2, <3>1 DEF SnapInv, AllSound, Sound
  <2> QED BY <2>1, <2>2 DEF AnswersStayTrue
<1> QED BY <1>1, SnapInvHolds, PTL

(***************************************************************************)
(* A job whose thread has ended is succeeded with a result, or failed or   *)
(* cancelled without one.                                                  *)
(***************************************************************************)
THEOREM EndedJobCorrect == Spec => []EndedJobIsSettled
<1>1. SnapInv => EndedJobIsSettled
  BY DEF SnapInv, AllGo, Progress, EndedJobIsSettled
<1> QED BY <1>1, SnapInvHolds, PTL
====
