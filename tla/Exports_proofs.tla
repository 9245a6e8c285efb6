---- MODULE Exports_proofs ----
(***************************************************************************)
(* Theorems about Exports for any number of exports, threads, answers,     *)
(* clean-ups and crashes.                                                  *)
(*                                                                         *)
(* The argument follows an export that nothing overlapped with.  Who       *)
(* creates it is alone with it and has filled its files as far as its step *)
(* says; who deletes it has removed the data file before the manifest; and *)
(* what a clean-up has listed of a CSV export is all that is left of it.   *)
(***************************************************************************)
EXTENDS Exports, TLAPS

\* Nothing is promised of these.
Flawed == broken \union stripped

\* What a thread holds at its step.
Held(t) ==
  /\ pc[t] # "idle" => mine[t] \in Ids
  /\ pc[t] \in {"open", "part1", "part2", "hash", "stat"} => bars[t] \in Answers
  /\ pc[t] \in {"part1", "part2"} => data[mine[t]] \in Contents
  /\ pc[t] = "stat" => hash[t] \in Contents
  /\ pc[t] = "save" => got[t] \in Manifests

AllHeld == \A t \in Threads : Held(t)

\* How far thread t has filled the files of id.
Filled(t, id) ==
  /\ manifest[id] = IF pc[t] = "save" THEN Torn ELSE NoFile
  /\ pc[t] \in {"fetch", "open"} /\ id \notin Flawed => data[id] = NoFile
  /\ pc[t] = "part1" => data[id] = <<0, 0>>
  /\ pc[t] = "part2" => data[id] = <<bars[t], 0>>
  /\ pc[t] \in {"hash", "stat"} => data[id] = <<bars[t], bars[t]>>
  /\ pc[t] = "stat" => hash[t] = data[id]
  /\ pc[t] = "save" => data[id] # NoFile /\ Describes(got[t], data[id])

\* The creator of id is alone with it.
Alone(id) ==
  \A t \in Threads : Creating(t, id) =>
    /\ id \notin Listed
    /\ \A u \in Threads : ~Removing(u, id) /\ (Creating(u, id) => u = t)

\* All that is left of id is listed, for the reason that holds still.
AllListed(id) ==
  /\ data[id] # NoFile => \E x \in plan : x.kind = "data" /\ x.id = id
  /\ manifest[id] # NoFile => \E x \in plan : x.kind = "manifest" /\ x.id = id

OrphansOnly(id) ==
  \A x \in plan : x.id = id /\ x.why = "orphan" =>
    IF x.kind = "data" THEN manifest[id] = NoFile ELSE data[id] = NoFile

\* The clean-up takes the manifest of a Parquet export for an orphan.
TakenForOrphan(id) ==
  File("manifest", id, "orphan") \in plan \/ id \in Flawed \/ Absent(id)

Quiet(id) ==
  /\ id \notin Listed
  /\ \A t \in Threads : ~Creating(t, id) /\ ~HalfDeleted(t, id)

Sound(id) ==
  /\ Alone(id)
  /\ \A t \in Threads : Creating(t, id) => Filled(t, id)
  /\ \A t \in Threads : HalfDeleted(t, id) => data[id] = NoFile
  /\ id \in Listed => IF id \in Csv THEN AllListed(id) /\ OrphansOnly(id)
                      ELSE TakenForOrphan(id)
  /\ id \notin Flawed /\ Quiet(id) => Whole(id) \/ Absent(id)

\* A clean-up during which no request is served.
CalmInv ==
  Running /\ calm =>
    /\ \A t \in Threads : pc[t] \in {"idle", "answered", "deleted"}
    /\ \A id \in Csv : IF id \in Listed THEN AllListed(id)
                       ELSE (data[id] = NoFile) <=> (manifest[id] = NoFile)

AllSound == \A id \in Ids \ overlapped : Sound(id)

ExportInv == TypeOK /\ AllHeld /\ AllSound /\ CalmInv

LEMMA Different ==
  /\ NoFile \notin Contents /\ NoFile \notin Manifests
  /\ Torn \notin Contents /\ Torn \notin Manifests /\ Torn # NoFile
BY FilesAssumption

LEMMA Csvs == Csv \subseteq Ids
BY ExportAssumption

LEMMA Limits == MaxRequests \in Nat /\ MaxCleanups \in Nat /\ MaxCrashes \in Nat
BY ExportAssumption

\* A plan is not the absence of a plan.
LEMMA PlanRuns == \A S : S \subseteq Listable => S # NoFile
BY ExportAssumption

LEMMA SizeType == \A x : Size(x) \in 0 .. 2
BY DEF Size

LEMMA ExportInit == Init => ExportInv
<1> SUFFICES ASSUME Init PROVE ExportInv
  OBVIOUS
<1> USE DEF Init, FilesInit
<1>1. TypeOK
  <2>1. FilesTypeOK
    BY DEF FilesTypeOK
  <2>2. requests \in 0 .. MaxRequests /\ cleanups \in 0 .. MaxCleanups /\ crashes \in 0 .. MaxCrashes
    BY Limits
  <2>3. calm \in BOOLEAN /\ broken \subseteq Ids /\ stripped \subseteq Ids /\ ~Running
    BY DEF Running
  <2>4. pc \in [Threads -> Steps \union
              {"idle", "look", "find", "unlink data", "unlink manifest", "answered", "deleted"}]
    OBVIOUS
  <2> QED BY <2>1, <2>2, <2>3, <2>4 DEF TypeOK
<1>2. AllHeld
  BY DEF AllHeld, Held
<1>3. ~Running
  BY DEF Running
<1>4. AllSound
  BY <1>3 DEF AllSound, Sound, Alone, Creating, HalfDeleted, Listed, Absent, Steps
<1>5. CalmInv
  BY <1>3 DEF CalmInv
<1> QED BY <1>1, <1>2, <1>4, <1>5 DEF ExportInv
----
(***************************************************************************)
(* Types, and what threads hold.                                           *)
(***************************************************************************)
LEMMA WritePart ==
  ASSUME NEW c \in Contents, NEW a \in Answers
  PROVE  /\ [c EXCEPT ![1] = a] = <<a, c[2]>> /\ [c EXCEPT ![1] = a] \in Contents
         /\ [c EXCEPT ![2] = a] = <<c[1], a>> /\ [c EXCEPT ![2] = a] \in Contents
BY DEF Contents

LEMMA CreationStep ==
  ASSUME TypeOK, AllHeld, NEW t \in Threads, CreateStep(t)
  PROVE  FilesTypeOK' /\ AllHeld' /\ pc' \in [Threads -> Steps \union
            {"idle", "look", "find", "unlink data", "unlink manifest", "answered", "deleted"}]
<1> USE DEF TypeOK, FilesTypeOK, Steps, Goto
<1>h. Held(t)
  BY DEF AllHeld
<1>0. <<0, 0>> \in Contents
  BY DEF Contents
<1>1. CASE Fetch(t)
  BY <1>1, <1>h DEF Fetch, AllHeld, Held, files
<1>2. CASE OpenData(t)
  BY <1>2, <1>h, <1>0 DEF OpenData, AllHeld, Held
<1>3. CASE WriteFirstPart(t)
  <2> DEFINE c == [data[mine[t]] EXCEPT ![1] = bars[t]]
  <2>1. mine[t] \in Ids /\ data[mine[t]] \in Contents /\ bars[t] \in Answers
    BY <1>3, <1>h DEF WriteFirstPart, Held
  <2>2. data' = [data EXCEPT ![mine[t]] = c]
    BY <1>3 DEF WriteFirstPart
  <2>3. c \in Contents
    BY <2>1, WritePart, Zenon
  <2>4. /\ pc[t] = "part1" /\ pc' = [pc EXCEPT ![t] = "part2"]
        /\ UNCHANGED <<manifest, mine, bars, hash, got, overlapped>>
    BY <1>3 DEF WriteFirstPart
  <2> HIDE DEF c
  <2>5. FilesTypeOK'
    BY <2>2, <2>3, <2>4
  <2>6. \A i \in Ids : data[i] \in Contents => data'[i] \in Contents
    BY <2>2, <2>3
  <2>7. AllHeld'
    <3> SUFFICES ASSUME NEW u \in Threads PROVE Held(u)'
      BY DEF AllHeld
    <3>1. Held(u)
      BY DEF AllHeld
    <3>2. data[mine[u]] \in Contents /\ mine[u] \in Ids => data'[mine[u]] \in Contents
      BY <2>6
    <3>3. CASE u = t
      BY <2>1, <2>4, <3>1, <3>2, <3>3 DEF Held
    <3>4. CASE u # t
      <4>1. pc'[u] = pc[u]
        BY <2>4, <3>4
      <4> QED BY <2>4, <3>1, <3>2, <4>1 DEF Held
    <3> QED BY <3>3, <3>4
  <2> QED BY <2>4, <2>5, <2>7
<1>4. CASE WriteSecondPart(t)
  <2> DEFINE c == [data[mine[t]] EXCEPT ![2] = bars[t]]
  <2>1. mine[t] \in Ids /\ data[mine[t]] \in Contents /\ bars[t] \in Answers
    BY <1>4, <1>h DEF WriteSecondPart, Held
  <2>2. data' = [data EXCEPT ![mine[t]] = c]
    BY <1>4 DEF WriteSecondPart
  <2>3. c \in Contents
    BY <2>1, WritePart, Zenon
  <2>4. /\ pc[t] = "part2" /\ pc' = [pc EXCEPT ![t] = "hash"]
        /\ UNCHANGED <<manifest, mine, bars, hash, got, overlapped>>
    BY <1>4 DEF WriteSecondPart
  <2> HIDE DEF c
  <2>5. FilesTypeOK'
    BY <2>2, <2>3, <2>4
  <2>6. \A i \in Ids : data[i] \in Contents => data'[i] \in Contents
    BY <2>2, <2>3
  <2>7. AllHeld'
    <3> SUFFICES ASSUME NEW u \in Threads PROVE Held(u)'
      BY DEF AllHeld
    <3>1. Held(u)
      BY DEF AllHeld
    <3>2. data[mine[u]] \in Contents /\ mine[u] \in Ids => data'[mine[u]] \in Contents
      BY <2>6
    <3>3. CASE u = t
      BY <2>1, <2>4, <3>1, <3>2, <3>3 DEF Held
    <3>4. CASE u # t
      <4>1. pc'[u] = pc[u]
        BY <2>4, <3>4
      <4> QED BY <2>4, <3>1, <3>2, <4>1 DEF Held
    <3> QED BY <3>3, <3>4
  <2> QED BY <2>4, <2>5, <2>7
<1>5. CASE HashData(t)
  BY <1>5, <1>h DEF HashData, AllHeld, Held, files
<1>6. CASE OpenManifest(t)
  <2> DEFINE m == [hash |-> hash[t], size |-> Size(data[mine[t]]), bars |-> bars[t]]
  <2>1. m \in Manifests
    BY <1>6, <1>h, SizeType DEF OpenManifest, Held, Manifests
  <2>2. got' = [got EXCEPT ![t] = m]
    BY <1>6 DEF OpenManifest
  <2> HIDE DEF m
  <2>3. /\ pc' = [pc EXCEPT ![t] = "save"] /\ manifest' = [manifest EXCEPT ![mine[t]] = Torn]
        /\ bars' = [bars EXCEPT ![t] = 0] /\ hash' = [hash EXCEPT ![t] = NoFile]
        /\ UNCHANGED <<data, mine, overlapped>> /\ mine[t] \in Ids
    BY <1>6, <1>h DEF OpenManifest, Held
  <2>4. FilesTypeOK'
    BY <2>1, <2>2, <2>3
  <2>5. AllHeld'
    BY <2>1, <2>2, <2>3 DEF AllHeld, Held
  <2> QED BY <2>3, <2>4, <2>5
<1>7. CASE WriteManifest(t)
  BY <1>7, <1>h DEF WriteManifest, Answer, AllHeld, Held
<1> QED BY <1>1, <1>2, <1>3, <1>4, <1>5, <1>6, <1>7 DEF CreateStep


LEMMA CandidatesType ==
  \A old \in SUBSET Ids : OrphanExportFiles \union ExpiredExportFiles(old) \in SUBSET Listable
BY Csvs DEF OrphanExportFiles, ExpiredExportFiles, File, Listable

LEMMA TypeStep == TypeOK /\ AllHeld /\ [Next]_vars => TypeOK' /\ AllHeld'
<1> SUFFICES ASSUME TypeOK, AllHeld, [Next]_vars PROVE TypeOK' /\ AllHeld'
  OBVIOUS
<1> USE DEF TypeOK, FilesTypeOK, Goto, cleanup, flaws, Mended, bounds, files, local, Running
<1>1. ASSUME NEW t \in Threads, Create(t) PROVE TypeOK' /\ AllHeld'
  <2>1. FilesTypeOK' /\ AllHeld' /\ pc' \in [Threads -> Steps \union
            {"idle", "look", "find", "unlink data", "unlink manifest", "answered", "deleted"}]
    BY <1>1, CreationStep DEF Create
  <2>2. broken' \subseteq Ids /\ stripped' \subseteq Ids /\ UNCHANGED <<plan, calm, cleanups, requests, crashes>>
    BY <1>1 DEF Create
  <2> QED BY <2>1, <2>2
<1> USE DEF AllHeld, Held, Steps, Answer, Release
<1>2. ASSUME NEW t \in Threads, CreateRaises(t) PROVE TypeOK' /\ AllHeld'
  <2>1. mine[t] \in Ids
    BY <1>2 DEF CreateRaises, Raise
  <2> QED BY <1>2, <2>1 DEF CreateRaises, Raise
<1>3. ASSUME NEW t \in Threads, Look(t) PROVE TypeOK' /\ AllHeld'
  <2>0. mine[t] \in Ids /\ UNCHANGED <<files, cleanup, flaws, bounds>>
    BY <1>3 DEF Look
  <2>1. CASE Answer(t, NoFile) /\ UNCHANGED overlapped
    BY <2>0, <2>1
  <2>2. CASE manifest[mine[t]] # NoFile /\ manifest[mine[t]] # Torn
             /\ Answer(t, manifest[mine[t]]) /\ UNCHANGED overlapped
    BY <2>0, <2>2
  <2>3. CASE Goto(t, "fetch") /\ overlapped' \subseteq overlapped \union {mine[t]}
             /\ UNCHANGED <<mine, bars, hash, got>>
    BY <2>0, <2>3
  <2> QED BY <1>3, <2>1, <2>2, <2>3 DEF Look
<1>4. ASSUME NEW t \in Threads, NEW id \in Ids, NEW s \in {"look", "find"}, Begin(t, id, s)
      PROVE  TypeOK' /\ AllHeld'
  <2>1. requests < MaxRequests /\ requests' = requests + 1
    BY <1>4 DEF Begin
  <2>2. requests \in 0 .. MaxRequests
    OBVIOUS
  <2>3. requests' \in 0 .. MaxRequests
    BY ONLY <2>1, <2>2, Limits
  <2>4. UNCHANGED <<files, bars, hash, got, overlapped, plan, cleanups, flaws, crashes>> /\ calm' = FALSE
    BY <1>4 DEF Begin
  <2>5. mine' = [mine EXCEPT ![t] = id] /\ pc' = [pc EXCEPT ![t] = s]
    BY <1>4 DEF Begin
  <2>6. FilesTypeOK'
    BY <2>4, <2>5
  <2>7. AllHeld'
    BY <2>4, <2>5
  <2>8. pc' \in [Threads -> Steps \union
              {"idle", "look", "find", "unlink data", "unlink manifest", "answered", "deleted"}]
    BY <2>5
  <2> QED BY <2>3, <2>4, <2>6, <2>7, <2>8
<1>5. ASSUME NEW t \in Threads, Respond(t) PROVE TypeOK' /\ AllHeld'
  BY <1>5 DEF Respond
<1>6. ASSUME NEW t \in Threads, FindManifest(t) PROVE TypeOK' /\ AllHeld'
  <2>1. /\ pc' = [pc EXCEPT ![t] = "answered"] \/ pc' = [pc EXCEPT ![t] = "unlink data"]
        /\ overlapped' \subseteq overlapped \union {mine[t]} /\ mine[t] \in Ids
        /\ UNCHANGED <<files, mine, bars, hash, got, cleanup, flaws, bounds>>
    BY <1>6 DEF FindManifest
  <2>2. CASE pc' = [pc EXCEPT ![t] = "answered"]
    BY <2>1, <2>2
  <2>3. CASE pc' = [pc EXCEPT ![t] = "unlink data"]
    BY <2>1, <2>3
  <2> QED BY <2>1, <2>2, <2>3
<1>7. ASSUME NEW t \in Threads, UnlinkData(t) PROVE TypeOK' /\ AllHeld'
  BY <1>7 DEF UnlinkData, DataInUse
<1>8. ASSUME NEW t \in Threads, UnlinkManifest(t) PROVE TypeOK' /\ AllHeld'
  BY <1>8 DEF UnlinkManifest
<1>9. ASSUME NEW t \in Threads, DeleteRaises(t) PROVE TypeOK' /\ AllHeld'
  BY <1>9 DEF DeleteRaises
<1>10. CASE ListCandidates
  <2>1. plan' \subseteq Listable
    BY <1>10, CandidatesType DEF ListCandidates
  <2>2. \A x \in plan' : x.id \in Ids
    BY <2>1 DEF Listable
  <2>3. overlapped' \subseteq Ids
    <3>1. overlapped' = overlapped
            \union {id \in {x.id : x \in plan'} : \E t \in Threads : Creating(t, id)}
      BY <1>10 DEF ListCandidates
    <3>2. overlapped \subseteq Ids
      OBVIOUS
    <3> QED BY ONLY <3>1, <3>2, <2>2
  <2>4. calm' \in BOOLEAN
    BY <1>10 DEF ListCandidates
  <2>5. cleanups' \in 0 .. MaxCleanups
    <3>1. cleanups < MaxCleanups /\ cleanups' = cleanups + 1 /\ cleanups \in 0 .. MaxCleanups
      BY <1>10 DEF ListCandidates
    <3> QED BY ONLY <3>1, Limits
  <2>6. UNCHANGED <<files, local, flaws, bounds>>
    BY <1>10 DEF ListCandidates
  <2> QED BY <2>1, <2>3, <2>4, <2>5, <2>6
<1>11. ASSUME NEW x \in plan, Unlink(x) PROVE TypeOK' /\ AllHeld'
  <2>1. x \in Listable
    BY <1>11 DEF Unlink
  <2> QED BY <1>11, <2>1 DEF Unlink, DataInUse, Listable
<1>12. CASE CleanupEnds
  BY <1>12 DEF CleanupEnds
<1>13. CASE CleanupRaises
  <2>1. plan \subseteq Listable
    BY <1>13 DEF CleanupRaises
  <2>2. \A x \in plan : x.id \in Ids
    BY <2>1 DEF Listable
  <2>3. Listed \subseteq Ids
    BY <2>2 DEF Listed
  <2> QED BY <1>13, <2>3 DEF CleanupRaises
<1>14. CASE Crash
  <2>1. crashes < MaxCrashes /\ crashes' = crashes + 1 /\ crashes \in 0 .. MaxCrashes
    BY <1>14 DEF Crash
  <2>2. crashes' \in 0 .. MaxCrashes
    BY ONLY <2>1, Limits
  <2>3. broken' \subseteq Ids /\ stripped' \subseteq Ids /\ UNCHANGED <<files, overlapped, cleanup, stripped, requests>>
    BY <1>14 DEF Crash
  <2>4. /\ pc' = [t \in Threads |-> "idle"] /\ mine' = [t \in Threads |-> NoId]
        /\ bars' = [t \in Threads |-> 0] /\ hash' = [t \in Threads |-> NoFile]
        /\ got' = [t \in Threads |-> NoFile]
    BY <1>14 DEF Crash
  <2>5. FilesTypeOK' /\ AllHeld'
    BY <2>3, <2>4
  <2>6. pc' \in [Threads -> Steps \union
              {"idle", "look", "find", "unlink data", "unlink manifest", "answered", "deleted"}]
    BY <2>4
  <2> QED BY <2>2, <2>3, <2>5, <2>6
<1>15. CASE UNCHANGED vars
  BY <1>15 DEF vars
<1> QED
  BY <1>1, <1>2, <1>3, <1>4, <1>5, <1>6, <1>7, <1>8, <1>9, <1>10, <1>11, <1>12, <1>13, <1>14, <1>15
     DEF Next, Serve, RequestExport, DeleteExport
----
(***************************************************************************)
(* The steps of threads.  A step of thread t that leaves the files of an   *)
(* id and what is listed alone, of a thread that does not work on them     *)
(* afterwards or only begins to delete them.                               *)
(***************************************************************************)
LEMMA FilesAlone ==
  ASSUME NEW id \in Ids, Sound(id), NEW t \in Threads,
         \A u \in Threads \ {t} :
           /\ pc'[u] = pc[u] /\ mine'[u] = mine[u] /\ bars'[u] = bars[u]
           /\ hash'[u] = hash[u] /\ got'[u] = got[u],
         data'[id] = data[id], manifest'[id] = manifest[id], plan' = plan,
         id \in Flawed => id \in Flawed',
         ~Creating(t, id)', ~HalfDeleted(t, id)',
         Removing(t, id)' => \A u \in Threads : ~Creating(u, id),
         Creating(t, id) \/ HalfDeleted(t, id) => id \in Flawed' \/ Whole(id) \/ Absent(id)
  PROVE  Sound(id)'
<1>1. \A u \in Threads \ {t} : /\ Creating(u, id)' <=> Creating(u, id)
                               /\ Removing(u, id)' <=> Removing(u, id)
                               /\ HalfDeleted(u, id)' <=> HalfDeleted(u, id)
                               /\ Filled(u, id) => Filled(u, id)'
  <2> SUFFICES ASSUME NEW u \in Threads \ {t}
               PROVE  /\ Creating(u, id)' <=> Creating(u, id)
                      /\ Removing(u, id)' <=> Removing(u, id)
                      /\ HalfDeleted(u, id)' <=> HalfDeleted(u, id)
                      /\ Filled(u, id) => Filled(u, id)'
    OBVIOUS
  <2>1. (Creating(u, id)' <=> Creating(u, id)) /\ (Removing(u, id)' <=> Removing(u, id))
        /\ (HalfDeleted(u, id)' <=> HalfDeleted(u, id))
    BY DEF Creating, Removing, HalfDeleted
  <2>2. Filled(u, id) => Filled(u, id)'
    BY DEF Filled, Describes
  <2> QED BY <2>1, <2>2
<1>2. Listed' = Listed
  BY DEF Listed, Running
<1>3. Alone(id)'
  BY <1>1, <1>2 DEF Sound, Alone
<1>4. \A u \in Threads : Creating(u, id)' => Filled(u, id)'
  BY <1>1 DEF Sound
<1>5. \A u \in Threads : HalfDeleted(u, id)' => data'[id] = NoFile
  BY <1>1 DEF Sound
<1>6. AllListed(id)' <=> AllListed(id)
  BY DEF AllListed
<1>7. OrphansOnly(id)' <=> OrphansOnly(id)
  BY DEF OrphansOnly
<1>8. (Absent(id)' <=> Absent(id)) /\ (Whole(id)' <=> Whole(id))
  BY DEF Absent, Whole, Describes
<1>9. TakenForOrphan(id) => TakenForOrphan(id)'
  BY <1>8 DEF TakenForOrphan
<1>10. id \in Listed' => IF id \in Csv THEN AllListed(id)' /\ OrphansOnly(id)'
                         ELSE TakenForOrphan(id)'
  BY <1>2, <1>6, <1>7, <1>9 DEF Sound
<1>11. id \notin Flawed' /\ Quiet(id)' => Whole(id)' \/ Absent(id)'
  BY <1>1, <1>2, <1>8 DEF Sound, Quiet
<1> QED BY <1>3, <1>4, <1>5, <1>10, <1>11 DEF Sound

(***************************************************************************)
(* A step of the one thread that creates an id: it is enough to look at    *)
(* its files and at that thread.                                           *)
(***************************************************************************)
LEMMA ByCreator ==
  ASSUME NEW t \in Threads, NEW id \in Ids, Sound(id), Creating(t, id),
         mine' = mine, plan' = plan,
         \A u \in Threads \ {t} : pc'[u] = pc[u],
         ~Removing(t, id)',
         Creating(t, id)' => Filled(t, id)',
         ~Creating(t, id)' /\ id \notin Flawed' => Whole(id)' \/ Absent(id)'
  PROVE  Sound(id)'
<1>1. id \notin Listed' /\ \A u \in Threads : ~Removing(u, id)' /\ (Creating(u, id)' => u = t)
  BY DEF Sound, Alone, Creating, Removing, Listed, Running
<1>2. \A u \in Threads : ~HalfDeleted(u, id)'
  BY <1>1 DEF Removing, HalfDeleted
<1>3. Alone(id)'
  BY <1>1 DEF Alone
<1>4. \A u \in Threads : Creating(u, id)' => Filled(u, id)'
  BY <1>1
<1>5. id \notin Flawed' /\ Quiet(id)' => Whole(id)' \/ Absent(id)'
  BY DEF Quiet
<1> QED BY <1>1, <1>2, <1>3, <1>4, <1>5 DEF Sound

\* What every step of a creation has in common.
LEMMA CreateFacts ==
  ASSUME NEW t \in Threads, CreateStep(t)
  PROVE  /\ pc[t] \in Steps
         /\ \E s \in Steps \union {"answered"} : pc' = [pc EXCEPT ![t] = s]
         /\ UNCHANGED <<mine, overlapped>>
BY DEF CreateStep, Fetch, OpenData, WriteFirstPart, WriteSecondPart, HashData, OpenManifest,
       WriteManifest, Goto, Answer, Steps

\* It leaves what other threads hold alone.
LEMMA CreateGot ==
  ASSUME TypeOK, NEW t \in Threads, CreateStep(t)
  PROVE  \A u \in Threads \ {t} :
           bars'[u] = bars[u] /\ hash'[u] = hash[u] /\ got'[u] = got[u]
BY DEF CreateStep, Fetch, OpenData, WriteFirstPart, WriteSecondPart, HashData, OpenManifest,
       WriteManifest, Answer, TypeOK, FilesTypeOK

LEMMA OtherFiles ==
  ASSUME TypeOK, NEW t \in Threads, NEW id \in Ids, mine[t] # id, CreateStep(t)
  PROVE  data'[id] = data[id] /\ manifest'[id] = manifest[id]
BY DEF CreateStep, Fetch, OpenData, WriteFirstPart, WriteSecondPart, HashData, OpenManifest,
       WriteManifest, TypeOK, FilesTypeOK, files

LEMMA OwnFiles ==
  ASSUME TypeOK, AllHeld, NEW t \in Threads, NEW id \in Ids, mine[t] = id, Sound(id), Create(t)
  PROVE  Sound(id)'
<1>s. CreateStep(t) /\ UNCHANGED <<cleanup, bounds>>
      /\ Flawed' = Flawed \ {i \in {mine[t]} : pc[t] = "save"}
  BY DEF Flawed, flaws, Mended, Create
<1>c. Creating(t, id) /\ mine' = mine /\ plan' = plan
  BY <1>s, CreateFacts DEF Creating, cleanup
<1>f. Filled(t, id)
  BY <1>c DEF Sound
<1>h. Held(t)
  BY DEF AllHeld
<1>t. /\ \A s : pc' = [pc EXCEPT ![t] = s] => pc'[t] = s
      /\ data \in [Ids -> Contents \union {NoFile}]
      /\ manifest \in [Ids -> Manifests \union {NoFile, Torn}]
      /\ bars \in [Threads -> Answers \union {0}] /\ hash \in [Threads -> Contents \union {NoFile}]
      /\ got \in [Threads -> Manifests \union {NoFile}]
  BY DEF TypeOK, FilesTypeOK
<1>p. \A u \in Threads \ {t} : pc'[u] = pc[u]
  BY <1>s, CreateFacts DEF TypeOK
<1>r. ~Removing(t, id)'
  <2>1. pc'[t] \in Steps \union {"answered"}
    BY <1>s, <1>t, CreateFacts
  <2> QED BY <2>1 DEF Removing, Steps
<1>g. ASSUME Filled(t, id)', pc'[t] \in Steps PROVE Sound(id)'
  <2>1. Creating(t, id)'
    BY <1>c, <1>g DEF Creating
  <2> QED BY <1>c, <1>p, <1>r, <1>g, <2>1, ByCreator
<1>b. pc[t] # "save" => (id \in Flawed' <=> id \in Flawed)
  BY <1>s
<1>1. CASE Fetch(t)
  <2>1. pc'[t] = "open" /\ manifest' = manifest /\ data' = data /\ pc[t] = "fetch"
    BY <1>t, <1>1 DEF Fetch, Goto, files
  <2>2. Filled(t, id)'
    BY <1>f, <1>b, <2>1 DEF Filled
  <2> QED BY <1>g, <2>1, <2>2 DEF Steps
<1>2. CASE OpenData(t)
  <2>1. pc'[t] = "part1" /\ manifest' = manifest /\ data'[id] = <<0, 0>> /\ pc[t] = "open"
    BY <1>t, <1>2 DEF OpenData, Goto
  <2>2. Filled(t, id)'
    BY <1>f, <2>1 DEF Filled
  <2> QED BY <1>g, <2>1, <2>2 DEF Steps
<1>3. CASE WriteFirstPart(t)
  <2>1. /\ pc'[t] = "part2" /\ manifest' = manifest /\ pc[t] = "part1" /\ bars' = bars
        /\ data' = [data EXCEPT ![id] = [data[id] EXCEPT ![1] = bars[t]]]
    BY <1>t, <1>3 DEF WriteFirstPart, Goto
  <2>2. data[id] = <<0, 0>>
    BY <1>f, <2>1 DEF Filled
  <2>3. data'[id] = <<bars[t], 0>>
    BY <1>t, <2>1, <2>2
  <2>4. Filled(t, id)'
    BY <1>f, <2>1, <2>3 DEF Filled
  <2> QED BY <1>g, <2>1, <2>4 DEF Steps
<1>4. CASE WriteSecondPart(t)
  <2>1. /\ pc'[t] = "hash" /\ manifest' = manifest /\ pc[t] = "part2" /\ bars' = bars
        /\ data' = [data EXCEPT ![id] = [data[id] EXCEPT ![2] = bars[t]]]
    BY <1>t, <1>4 DEF WriteSecondPart, Goto
  <2>2. data[id] = <<bars[t], 0>>
    BY <1>f, <2>1 DEF Filled
  <2>3. data'[id] = <<bars[t], bars[t]>>
    BY <1>t, <2>1, <2>2
  <2>4. Filled(t, id)'
    BY <1>f, <2>1, <2>3 DEF Filled
  <2> QED BY <1>g, <2>1, <2>4 DEF Steps
<1>5. CASE HashData(t)
  <2>1. /\ pc'[t] = "stat" /\ manifest' = manifest /\ data' = data /\ bars' = bars
        /\ pc[t] = "hash" /\ hash'[t] = data[id]
    BY <1>t, <1>5 DEF HashData, Goto, files
  <2>2. Filled(t, id)'
    BY <1>f, <2>1 DEF Filled
  <2> QED BY <1>g, <2>1, <2>2 DEF Steps
<1>6. CASE OpenManifest(t)
  <2>1. /\ pc'[t] = "save" /\ manifest'[id] = Torn /\ data' = data /\ pc[t] = "stat"
        /\ got'[t] = [hash |-> hash[t], size |-> Size(data[id]), bars |-> bars[t]]
        /\ data[id] # NoFile
    BY <1>t, <1>6 DEF OpenManifest, Goto
  <2>2. Describes(got'[t], data[id])
    BY <1>f, <2>1 DEF Filled, Describes
  <2>3. Filled(t, id)'
    BY <2>1, <2>2 DEF Filled, Describes
  <2> QED BY <1>g, <2>1, <2>3 DEF Steps
<1>7. CASE WriteManifest(t)
  <2>1. /\ pc'[t] = "answered" /\ manifest'[id] = got[t] /\ data' = data /\ pc[t] = "save"
        /\ got[t] \in Manifests
    BY <1>t, <1>h, <1>7 DEF WriteManifest, Answer, Goto, Held
  <2>2. data[id] # NoFile /\ Describes(got[t], data[id])
    BY <1>f, <2>1 DEF Filled
  <2>3. Whole(id)'
    BY <2>1, <2>2 DEF Whole, Describes
  <2>4. ~Creating(t, id)'
    BY <2>1 DEF Creating, Steps
  <2> QED BY <1>c, <1>p, <1>r, <2>3, <2>4, ByCreator
<1> QED BY <1>s, <1>1, <1>2, <1>3, <1>4, <1>5, <1>6, <1>7 DEF CreateStep

LEMMA OverlappedGrows == [Next]_vars => overlapped \subseteq overlapped'
BY DEF Next, Serve, Look, Answer, Create, CreateRaises, CreateStep, Fetch, OpenData, WriteFirstPart,
       WriteSecondPart, HashData, OpenManifest, WriteManifest, Raise, FindManifest, UnlinkData,
       UnlinkManifest, DeleteRaises, Respond, RequestExport, DeleteExport, Begin, ListCandidates,
       CleanupEnds, CleanupRaises, Unlink, Crash, vars

\* The look-up that finds nothing, for the export itself.
LEMMA OwnMiss ==
  ASSUME TypeOK, NEW t \in Threads, NEW id \in Ids, Sound(id), id \notin overlapped',
         Look(t), mine[t] = id, manifest[id] = NoFile
  PROVE  Sound(id)'
<1>1. /\ pc' = [pc EXCEPT ![t] = "fetch"] /\ UNCHANGED <<data, manifest, mine, plan, Flawed>>
      /\ overlapped' = overlapped \union
           {i \in {id} : i \in Listed \/ \E u \in Threads : Creating(u, i) \/ Removing(u, i)}
      /\ pc[t] = "look"
  BY Different DEF Flawed, flaws, Mended, Look, Goto, files, cleanup
<1>2. id \notin Listed /\ \A u \in Threads : ~Creating(u, id) /\ ~Removing(u, id)
  BY <1>1
<1>3. pc'[t] = "fetch" /\ \A u \in Threads \ {t} : pc'[u] = pc[u]
  BY <1>1 DEF TypeOK
<1>4. \A u \in Threads : ~Removing(u, id)' /\ (Creating(u, id)' => u = t)
  BY <1>1, <1>2, <1>3 DEF Creating, Removing
<1>5. id \notin Listed'
  BY <1>1, <1>2 DEF Listed, Running
<1>6. id \notin Flawed => data[id] = NoFile
  <2>1. Quiet(id)
    BY <1>2 DEF Quiet, Removing, HalfDeleted
  <2>2. ~Whole(id)
    BY Different DEF Whole
  <2> QED BY <2>1, <2>2 DEF Sound, Absent
<1>7. Filled(t, id)'
  BY <1>1, <1>3, <1>6 DEF Filled
<1>8. \A u \in Threads : ~HalfDeleted(u, id)'
  BY <1>4 DEF Removing, HalfDeleted
<1>9. ~Quiet(id)'
  BY <1>1, <1>3 DEF Quiet, Creating, Steps
<1> QED BY <1>4, <1>5, <1>7, <1>8, <1>9 DEF Sound, Alone

\* The two files of an export are deleted.
LEMMA OwnDeletion ==
  ASSUME TypeOK, NEW t \in Threads, NEW id \in Ids, Sound(id), mine[t] = id,
         UnlinkData(t) \/ UnlinkManifest(t)
  PROVE  Sound(id)'
<1>0. Removing(t, id) /\ mine' = mine /\ plan' = plan /\ Listed' = Listed
  BY DEF UnlinkData, UnlinkManifest, Removing, cleanup, Listed, Running
<1>1. \A u \in Threads : ~Creating(u, id)
  BY <1>0 DEF Sound, Alone
<1>2. \A u \in Threads \ {t} : pc'[u] = pc[u]
  BY DEF TypeOK, UnlinkData, UnlinkManifest, Goto
<1>3. pc'[t] \in {"unlink manifest", "deleted"}
  BY DEF TypeOK, UnlinkData, UnlinkManifest, Goto
<1>4. \A u \in Threads : ~Creating(u, id)'
  BY <1>0, <1>1, <1>2, <1>3 DEF Creating, Steps
<1>5. (data'[id] = NoFile \/ data'[id] = data[id]) /\ (manifest'[id] = NoFile \/ manifest'[id] = manifest[id])
  BY DEF UnlinkData, UnlinkManifest, TypeOK, FilesTypeOK
<1>6. AllListed(id) => AllListed(id)'
  BY <1>0, <1>5 DEF AllListed
<1>7. OrphansOnly(id) => OrphansOnly(id)'
  BY <1>0, <1>5 DEF OrphansOnly
<1>8. Absent(id) => Absent(id)'
  BY <1>5 DEF Absent
<1>9. CASE UnlinkData(t)
  <2>1. data'[id] = NoFile /\ pc'[t] = "unlink manifest" /\ Flawed' = Flawed
    BY <1>9 DEF Flawed, flaws, Mended, UnlinkData, TypeOK, FilesTypeOK, Goto
  <2>2. ~Quiet(id)'
    BY <1>0, <2>1 DEF Quiet, HalfDeleted
  <2>3. TakenForOrphan(id) => TakenForOrphan(id)'
    BY <1>0, <1>8, <2>1 DEF TakenForOrphan
  <2> QED BY <1>0, <1>4, <1>6, <1>7, <2>1, <2>2, <2>3 DEF Sound, Alone
<1>10. CASE UnlinkManifest(t)
  <2>1. manifest'[id] = NoFile /\ data' = data /\ pc[t] = "unlink manifest"
    BY <1>10 DEF UnlinkManifest, TypeOK, FilesTypeOK
  <2>2. data[id] = NoFile
    BY <2>1 DEF Sound, HalfDeleted
  <2>3. Absent(id)'
    BY <2>1, <2>2 DEF Absent
  <2>4. data'[id] = NoFile
    BY <2>1, <2>2
  <2> QED BY <1>0, <1>4, <1>6, <1>7, <2>3, <2>4 DEF Sound, Alone, TakenForOrphan
<1> QED BY <1>9, <1>10
----
(***************************************************************************)
(* The clean-up.                                                           *)
(***************************************************************************)
LEMMA WhileRunning ==
  ASSUME NEW S, plan' = S, S \subseteq Listable
  PROVE  Running' /\ Listed' = {x.id : x \in plan'}
BY PlanRuns DEF Running, Listed

LEMMA Candidates ==
  ASSUME TypeOK, NEW old \in SUBSET {id \in Ids : manifest[id] \in Manifests}, NEW id \in Ids,
         NEW S, S = OrphanExportFiles \union ExpiredExportFiles(old)
  PROVE  /\ id \in Csv => \/ \A x \in S : x.id # id
                          \/ /\ data[id] # NoFile => \E x \in S : x.kind = "data" /\ x.id = id
                             /\ manifest[id] # NoFile => \E x \in S : x.kind = "manifest" /\ x.id = id
         /\ id \in Csv /\ (\A x \in S : x.id # id) => ((data[id] = NoFile) <=> (manifest[id] = NoFile))
         /\ id \in Csv => \A x \in S : x.id = id /\ x.why = "orphan" =>
              IF x.kind = "data" THEN manifest[id] = NoFile ELSE data[id] = NoFile
         /\ id \notin Csv /\ (\E x \in S : x.id = id) => File("manifest", id, "orphan") \in S
<1> USE DEF File
<1>s. \A x : x \in S <=>
        \/ \E i \in Csv : data[i] # NoFile /\ manifest[i] = NoFile /\ x = File("data", i, "orphan")
        \/ \E i \in Ids : manifest[i] # NoFile /\ (i \notin Csv \/ data[i] = NoFile)
                          /\ x = File("manifest", i, "orphan")
        \/ \E i \in old : x = File("manifest", i, "expired")
        \/ \E i \in old : data[i] # NoFile /\ x = File("data", i, "expired")
  BY DEF OrphanExportFiles, ExpiredExportFiles
<1>o. \A i \in old : manifest[i] \in Manifests /\ manifest[i] # NoFile
  BY Different
<1>e. id \in old => /\ File("manifest", id, "expired") \in S
                    /\ data[id] # NoFile => File("data", id, "expired") \in S
  BY <1>s
<1>d. id \in Csv /\ data[id] # NoFile /\ manifest[id] = NoFile => File("data", id, "orphan") \in S
  BY <1>s
<1>m. manifest[id] # NoFile /\ (id \notin Csv \/ data[id] = NoFile)
        => File("manifest", id, "orphan") \in S
  BY <1>s
<1>x. \A x \in S : x.id = id =>
        \/ id \in Csv /\ data[id] # NoFile /\ manifest[id] = NoFile /\ x.kind = "data"
        \/ manifest[id] # NoFile /\ (id \notin Csv \/ data[id] = NoFile) /\ x.kind = "manifest"
        \/ id \in old /\ x.why = "expired"
  BY <1>s
<1>1. ASSUME id \in Csv
      PROVE  /\ data[id] # NoFile /\ (\E x \in S : x.id = id) => \E x \in S : x.kind = "data" /\ x.id = id
             /\ manifest[id] # NoFile /\ (\E x \in S : x.id = id)
                  => \E x \in S : x.kind = "manifest" /\ x.id = id
  BY <1>1, <1>e, <1>d, <1>m, <1>x
<1>2. ASSUME id \in Csv, \A x \in S : x.id # id PROVE (data[id] = NoFile) <=> (manifest[id] = NoFile)
  BY <1>2, <1>d, <1>m
<1>3. ASSUME id \in Csv, NEW x \in S, x.id = id, x.why = "orphan"
      PROVE  IF x.kind = "data" THEN manifest[id] = NoFile ELSE data[id] = NoFile
  BY <1>3, <1>x
<1>4. ASSUME id \notin Csv, NEW x \in S, x.id = id PROVE File("manifest", id, "orphan") \in S
  BY <1>4, <1>m, <1>o, <1>x
<1> QED BY <1>1, <1>2, <1>3, <1>4

LEMMA SoundListing ==
  ASSUME TypeOK, NEW id \in Ids, Sound(id), ListCandidates, id \notin overlapped'
  PROVE  Sound(id)'
<1>0. UNCHANGED <<data, manifest, pc, mine, bars, hash, got, Flawed>> /\ ~Running
      /\ overlapped' = overlapped \union {i \in {x.id : x \in plan'} : \E t \in Threads : Creating(t, i)}
  BY DEF Flawed, flaws, Mended, ListCandidates, files, local
<1>1. PICK old \in SUBSET {i \in Ids : manifest[i] \in Manifests} :
        plan' = OrphanExportFiles \union ExpiredExportFiles(old)
  BY DEF ListCandidates
<1>2. Running' /\ Listed' = {x.id : x \in plan'}
  <2>1. old \in SUBSET Ids
    OBVIOUS
  <2> QED BY <1>1, <2>1, CandidatesType, WhileRunning
<1>3. id \in Listed' => \A t \in Threads : ~Creating(t, id)
  BY <1>0, <1>2
<1>4. \A t \in Threads : /\ Creating(t, id)' <=> Creating(t, id)
                         /\ Removing(t, id)' <=> Removing(t, id)
                         /\ HalfDeleted(t, id)' <=> HalfDeleted(t, id)
  BY <1>0 DEF Creating, Removing, HalfDeleted
<1>5. \A t \in Threads : Filled(t, id) => Filled(t, id)'
  BY <1>0 DEF Filled, Describes
<1>6. Alone(id)'
  BY <1>3, <1>4 DEF Alone, Sound
<1>7. (id \in Listed') <=> \E x \in plan' : x.id = id
  BY <1>2
<1>8. id \in Listed' /\ id \in Csv => AllListed(id)' /\ OrphansOnly(id)'
  <2> SUFFICES ASSUME id \in Listed', id \in Csv PROVE AllListed(id)' /\ OrphansOnly(id)'
    OBVIOUS
  <2>1. /\ data[id] # NoFile => \E x \in plan' : x.kind = "data" /\ x.id = id
        /\ manifest[id] # NoFile => \E x \in plan' : x.kind = "manifest" /\ x.id = id
    BY <1>1, <1>7, Candidates
  <2>2. \A x \in plan' : x.id = id /\ x.why = "orphan" =>
              IF x.kind = "data" THEN manifest[id] = NoFile ELSE data[id] = NoFile
    BY <1>1, Candidates
  <2> QED BY <1>0, <2>1, <2>2 DEF AllListed, OrphansOnly
<1>9. id \in Listed' /\ id \notin Csv => TakenForOrphan(id)'
  BY <1>1, <1>7, Candidates DEF TakenForOrphan, File
<1>10. id \notin Flawed' /\ Quiet(id)' => Whole(id)' \/ Absent(id)'
  <2> SUFFICES ASSUME id \notin Flawed', Quiet(id)' PROVE Whole(id)' \/ Absent(id)'
    OBVIOUS
  <2>1. id \notin Listed
    BY <1>0 DEF Listed
  <2>2. Quiet(id) /\ id \notin Flawed
    BY <1>0, <1>4, <2>1 DEF Quiet
  <2> QED BY <1>0, <2>2 DEF Sound, Whole, Absent, Describes
<1>11. \A t \in Threads : HalfDeleted(t, id)' => data'[id] = NoFile
  BY <1>0, <1>4 DEF Sound
<1> QED BY <1>4, <1>5, <1>6, <1>8, <1>9, <1>10, <1>11 DEF Sound

LEMMA SoundUnlink ==
  ASSUME TypeOK, NEW id \in Ids, Sound(id), NEW x \in plan, Unlink(x) PROVE Sound(id)'
<1>0. /\ UNCHANGED <<pc, mine, bars, hash, got>> /\ Running /\ plan' = plan \ {x}
      /\ Flawed' = Flawed \union {i \in {x.id} \ Csv : x.why = "orphan"}
      /\ plan \subseteq Listable
  BY DEF Flawed, flaws, Mended, Unlink, local, TypeOK
<1>1. Running' /\ Listed' = {y.id : y \in plan'} /\ Listed = {y.id : y \in plan}
  <2>1. plan \ {x} \subseteq Listable
    BY <1>0
  <2> QED BY <1>0, <2>1, WhileRunning DEF Listed
<1>2. (id \in Listed' <=> \E y \in plan' : y.id = id) /\ (id \in Listed <=> \E y \in plan : y.id = id)
  BY <1>1
<1>3. \A t \in Threads : /\ Creating(t, id)' <=> Creating(t, id)
                         /\ Removing(t, id)' <=> Removing(t, id)
                         /\ HalfDeleted(t, id)' <=> HalfDeleted(t, id)
  BY <1>0 DEF Creating, Removing, HalfDeleted
<1>4. Alone(id)'
  BY <1>0, <1>2, <1>3 DEF Alone, Sound
<1>5. CASE x.id # id
  <2>1. data'[id] = data[id] /\ manifest'[id] = manifest[id]
    BY <1>5 DEF Unlink, TypeOK, FilesTypeOK
  <2>2. (id \in Flawed') <=> (id \in Flawed)
    BY <1>0, <1>5
  <2>3. \A y \in plan : y.id = id => y \in plan'
    BY <1>0, <1>5
  <2>4. (id \in Listed') <=> (id \in Listed)
    BY <1>0, <1>2, <2>3
  <2>5. \A t \in Threads : Filled(t, id) => Filled(t, id)'
    BY <1>0, <2>1, <2>2 DEF Filled, Describes
  <2>6. \A t \in Threads : Creating(t, id)' => Filled(t, id)'
    BY <1>3, <2>5 DEF Sound
  <2>7. \A t \in Threads : HalfDeleted(t, id)' => data'[id] = NoFile
    BY <1>3, <2>1 DEF Sound
  <2>8. AllListed(id) => AllListed(id)'
    BY <2>1, <2>3 DEF AllListed
  <2>9. OrphansOnly(id) => OrphansOnly(id)'
    BY <1>0, <2>1 DEF OrphansOnly
  <2>10. (Absent(id)' <=> Absent(id)) /\ (Whole(id) => Whole(id)')
    BY <2>1 DEF Absent, Whole, Describes
  <2>11. TakenForOrphan(id) => TakenForOrphan(id)'
    BY <2>2, <2>3, <2>10 DEF TakenForOrphan, File
  <2>12. id \in Listed' => IF id \in Csv THEN AllListed(id)' /\ OrphansOnly(id)' ELSE TakenForOrphan(id)'
    BY <2>4, <2>8, <2>9, <2>11 DEF Sound
  <2>13. id \notin Flawed' /\ Quiet(id)' => Whole(id)' \/ Absent(id)'
    BY <1>3, <2>2, <2>4, <2>10 DEF Sound, Quiet
  <2> QED BY <1>4, <2>6, <2>7, <2>12, <2>13 DEF Sound
<1>6. CASE x.id = id
  <2>1. id \in Listed
    BY <1>2, <1>6
  <2>2. \A t \in Threads : ~Creating(t, id)'
    BY <1>3, <2>1 DEF Sound, Alone
  <2>3. /\ x.kind = "data" => data'[id] = NoFile /\ manifest'[id] = manifest[id]
        /\ x.kind # "data" => data'[id] = data[id] /\ manifest'[id] = NoFile
    BY <1>6 DEF Unlink, TypeOK, FilesTypeOK
  <2>4. \A t \in Threads : HalfDeleted(t, id)' => data'[id] = NoFile
    BY <1>3, <2>3 DEF Sound
  <2>5. CASE id \in Csv
    <3>1. AllListed(id) /\ OrphansOnly(id)
      BY <2>1, <2>5 DEF Sound
    <3>2. AllListed(id)'
      BY <1>0, <2>3, <3>1 DEF AllListed
    <3>3. OrphansOnly(id)'
      BY <1>0, <2>3, <3>1 DEF OrphansOnly
    <3>4. id \notin Listed' => Absent(id)'
      BY <1>2, <3>2 DEF AllListed, Absent
    <3>5. Quiet(id)' => Absent(id)'
      BY <3>4 DEF Quiet
    <3> QED BY <1>4, <2>2, <2>4, <2>5, <3>2, <3>3, <3>5 DEF Sound
  <2>6. CASE id \notin Csv
    <3>1. TakenForOrphan(id)
      BY <2>1, <2>6 DEF Sound
    <3>2. Absent(id) => Absent(id)'
      BY <2>3 DEF Absent
    <3>3. id \in Flawed => id \in Flawed'
      BY <1>0
    <3>4. File("manifest", id, "orphan") \in plan => File("manifest", id, "orphan") \in plan' \/ id \in Flawed'
      BY <1>0, <1>6, <2>6 DEF File
    <3>5. TakenForOrphan(id)'
      BY <3>1, <3>2, <3>3, <3>4 DEF TakenForOrphan, File
    <3>6. File("manifest", id, "orphan") \in plan' => id \in Listed'
      BY <1>2 DEF File
    <3>7. id \notin Flawed' /\ Quiet(id)' => Absent(id)'
      BY <3>5, <3>6 DEF Quiet, TakenForOrphan, File
    <3> QED BY <1>4, <2>2, <2>4, <2>6, <3>5, <3>7 DEF Sound
  <2> QED BY <2>5, <2>6
<1> QED BY <1>5, <1>6

\* The end of a clean-up: what it leaves half-way is broken.
LEMMA SoundEnd ==
  ASSUME NEW id \in Ids, Sound(id), CleanupEnds \/ CleanupRaises PROVE Sound(id)'
<1>0. UNCHANGED <<data, manifest, pc, mine, bars, hash, got>> /\ plan' = NoFile
      /\ (id \in Listed \/ id \in Flawed => id \in Flawed') /\ (id \in Flawed' => id \in Flawed \/ id \in Listed)
  BY DEF Flawed, flaws, Mended, CleanupEnds, CleanupRaises, files, local, Listed
<1>1. id \notin Listed'
  BY <1>0 DEF Listed, Running
<1>2. \A t \in Threads : /\ Creating(t, id)' <=> Creating(t, id)
                         /\ Removing(t, id)' <=> Removing(t, id)
                         /\ HalfDeleted(t, id)' <=> HalfDeleted(t, id)
  BY <1>0 DEF Creating, Removing, HalfDeleted
<1>3. \A t \in Threads : Filled(t, id) => Filled(t, id)'
  BY <1>0 DEF Filled, Describes
<1>4. (Absent(id)' <=> Absent(id)) /\ (Whole(id)' <=> Whole(id))
  BY <1>0 DEF Absent, Whole, Describes
<1>5. id \notin Flawed' /\ Quiet(id)' => Whole(id)' \/ Absent(id)'
  BY <1>0, <1>2, <1>4 DEF Quiet, Sound
<1> QED BY <1>0, <1>1, <1>2, <1>3, <1>5 DEF Sound, Alone

LEMMA SoundCrash ==
  ASSUME NEW id \in Ids, Sound(id), Crash PROVE Sound(id)'
<1>0. /\ UNCHANGED <<data, manifest, plan>> /\ \A t \in Threads : pc'[t] = "idle"
      /\ Flawed' = Flawed \union {i \in Ids : \E t \in Threads : HalfCreated(t, i) \/ HalfDeleted(t, i)}
  BY DEF Flawed, flaws, Mended, Crash, files, cleanup
<1>1. \A t \in Threads : ~Creating(t, id)' /\ ~Removing(t, id)' /\ ~HalfDeleted(t, id)'
  BY <1>0 DEF Creating, Removing, HalfDeleted, Steps
<1>2. Listed' = Listed
  BY <1>0 DEF Listed, Running
<1>3. (Absent(id)' <=> Absent(id)) /\ (Whole(id)' <=> Whole(id))
  BY <1>0 DEF Absent, Whole, Describes
<1>4. (AllListed(id) => AllListed(id)') /\ (OrphansOnly(id) => OrphansOnly(id)')
  BY <1>0 DEF AllListed, OrphansOnly
<1>5. TakenForOrphan(id) => TakenForOrphan(id)'
  BY <1>0, <1>3 DEF TakenForOrphan, File
<1>6. id \notin Flawed' /\ Quiet(id)' => Whole(id) \/ Absent(id)
  <2> SUFFICES ASSUME id \notin Flawed', id \notin Listed PROVE Whole(id) \/ Absent(id)
    BY <1>2 DEF Quiet
  <2>1. id \notin Flawed /\ \A t \in Threads : ~HalfCreated(t, id) /\ ~HalfDeleted(t, id)
    BY <1>0
  <2>2. ASSUME NEW t \in Threads, Creating(t, id) PROVE Absent(id)
    <3>1. Filled(t, id) /\ pc[t] \in {"fetch", "open"}
      BY <2>1, <2>2 DEF HalfCreated, Creating, Sound
    <3> QED BY <2>1, <3>1 DEF Filled, Absent
  <2>3. CASE \A t \in Threads : ~Creating(t, id)
    BY <2>1, <2>3 DEF Sound, Quiet
  <2> QED BY <2>2, <2>3
<1> QED BY <1>1, <1>2, <1>3, <1>4, <1>5, <1>6 DEF Sound, Alone

LEMMA SoundStep == ExportInv /\ [Next]_vars => AllSound'
<1> SUFFICES ASSUME ExportInv, [Next]_vars, NEW id \in Ids, id \notin overlapped' PROVE Sound(id)'
  BY DEF AllSound
<1> USE DEF ExportInv
<1>i. Sound(id)
  BY OverlappedGrows DEF AllSound
<1>t. /\ \A t \in Threads : \A s : pc' = [pc EXCEPT ![t] = s] => pc'[t] = s /\ \A u \in Threads \ {t} : pc'[u] = pc[u]
      /\ \A t \in Threads : \A s : mine' = [mine EXCEPT ![t] = s] => mine'[t] = s /\ \A u \in Threads \ {t} : mine'[u] = mine[u]
      /\ \A t \in Threads : \A s : got' = [got EXCEPT ![t] = s] => \A u \in Threads \ {t} : got'[u] = got[u]
      /\ \A t \in Threads : \A s : bars' = [bars EXCEPT ![t] = s] => \A u \in Threads \ {t} : bars'[u] = bars[u]
      /\ \A t \in Threads : \A s : hash' = [hash EXCEPT ![t] = s] => \A u \in Threads \ {t} : hash'[u] = hash[u]
  BY DEF TypeOK, FilesTypeOK
\* A step that leaves all files alone.
<1>f. ASSUME NEW t \in Threads, NEW s, pc' = [pc EXCEPT ![t] = s], UNCHANGED <<data, manifest, plan>>,
             \A u \in Threads \ {t} :
               mine'[u] = mine[u] /\ bars'[u] = bars[u] /\ hash'[u] = hash[u] /\ got'[u] = got[u],
             id \in Flawed => id \in Flawed',
             s \notin Steps \union {"unlink manifest"} \/ mine'[t] # id,
             s = "unlink data" /\ mine'[t] = id => \A u \in Threads : ~Creating(u, id),
             Creating(t, id) \/ HalfDeleted(t, id) => id \in Flawed' \/ Whole(id) \/ Absent(id)
      PROVE  Sound(id)'
  <2>1. pc'[t] = s /\ \A u \in Threads \ {t} : pc'[u] = pc[u]
    BY <1>f, <1>t
  <2>2. ~Creating(t, id)' /\ ~HalfDeleted(t, id)'
    BY <1>f, <2>1 DEF Creating, HalfDeleted
  <2>3. Removing(t, id)' => \A u \in Threads : ~Creating(u, id)
    BY <1>f, <2>1 DEF Removing
  <2> QED BY <1>i, <1>f, <2>1, <2>2, <2>3, FilesAlone
<1>1. ASSUME NEW t \in Threads, Look(t) PROVE Sound(id)'
  <2>0. pc[t] = "look" /\ UNCHANGED <<data, manifest, plan, Flawed, mine>>
    BY <1>1 DEF Flawed, flaws, Mended, Look, Answer, files, cleanup
  <2>n. ~Creating(t, id) /\ ~HalfDeleted(t, id)
    BY <2>0 DEF Creating, HalfDeleted, Steps
  <2>1. ASSUME NEW m, Answer(t, m) PROVE Sound(id)'
    <3>1. pc' = [pc EXCEPT ![t] = "answered"] /\ got' = [got EXCEPT ![t] = m]
          /\ bars' = [bars EXCEPT ![t] = 0] /\ hash' = [hash EXCEPT ![t] = NoFile]
      BY <2>1 DEF Answer, Goto
    <3>2. \A u \in Threads \ {t} :
            mine'[u] = mine[u] /\ bars'[u] = bars[u] /\ hash'[u] = hash[u] /\ got'[u] = got[u]
      BY <1>t, <2>0, <3>1
    <3>3. "answered" \notin Steps \union {"unlink manifest"} /\ "answered" # "unlink data"
      BY DEF Steps
    <3> QED BY <1>f, <2>0, <2>n, <3>1, <3>2, <3>3
  <2>2. CASE manifest[mine[t]] = NoFile /\ mine[t] = id
    BY <1>1, <1>i, <2>2, OwnMiss
  <2>3. CASE pc' = [pc EXCEPT ![t] = "fetch"] /\ UNCHANGED <<mine, bars, hash, got>> /\ mine[t] # id
    BY <1>f, <2>0, <2>n, <2>3
  <2>4. \/ \E m : Answer(t, m)
        \/ manifest[mine[t]] = NoFile /\ pc' = [pc EXCEPT ![t] = "fetch"] /\ UNCHANGED <<mine, bars, hash, got>>
    BY <1>1 DEF Look, Goto
  <2> QED BY <2>1, <2>2, <2>3, <2>4
<1>2. ASSUME NEW t \in Threads, Create(t) PROVE Sound(id)'
  <2>1. CASE mine[t] = id
    BY <1>i, <1>2, <2>1, OwnFiles
  <2>2. CASE mine[t] # id
    <3>1. CreateStep(t) /\ mine' = mine /\ plan' = plan
          /\ Flawed' = Flawed \ {i \in {mine[t]} : pc[t] = "save"}
      BY <1>2, CreateFacts DEF Flawed, flaws, Mended, Create, cleanup
    <3>2. data'[id] = data[id] /\ manifest'[id] = manifest[id]
      BY <2>2, <3>1, OtherFiles
    <3>3. \A u \in Threads \ {t} :
            /\ pc'[u] = pc[u] /\ mine'[u] = mine[u] /\ bars'[u] = bars[u]
            /\ hash'[u] = hash[u] /\ got'[u] = got[u]
      BY <1>t, <3>1, CreateFacts, CreateGot
    <3>4. ~Creating(t, id) /\ ~HalfDeleted(t, id) /\ ~Creating(t, id)' /\ ~HalfDeleted(t, id)' /\ ~Removing(t, id)'
      BY <2>2, <3>1 DEF Creating, HalfDeleted, Removing
    <3>5. id \in Flawed => id \in Flawed'
      BY <2>2, <3>1
    <3> QED BY <1>i, <3>1, <3>2, <3>3, <3>4, <3>5, FilesAlone
  <2> QED BY <2>1, <2>2
<1>3. ASSUME NEW t \in Threads, CreateRaises(t) PROVE Sound(id)'
  <2>1. /\ pc' = [pc EXCEPT ![t] = "answered"] /\ got' = [got EXCEPT ![t] = NoFile]
        /\ bars' = [bars EXCEPT ![t] = 0] /\ hash' = [hash EXCEPT ![t] = NoFile]
        /\ UNCHANGED <<data, manifest, plan, mine>> /\ pc[t] \in Steps
        /\ Flawed' = Flawed \union {i \in {mine[t]} : HalfCreated(t, i)}
    BY <1>3 DEF Flawed, flaws, Mended, CreateRaises, Raise, Answer, Goto, files, cleanup
  <2>2. Creating(t, id) => id \in Flawed' \/ Absent(id)
    <3> SUFFICES ASSUME Creating(t, id), id \notin Flawed' PROVE Absent(id)
      OBVIOUS
    <3>1. pc[t] \in {"fetch", "open"} /\ id \notin Flawed /\ Filled(t, id)
      BY <1>i, <2>1 DEF Creating, HalfCreated, Sound
    <3> QED BY <3>1 DEF Filled, Absent
  <2>3. ~HalfDeleted(t, id) /\ (id \in Flawed => id \in Flawed')
    BY <2>1 DEF HalfDeleted, Steps
  <2>4. \A u \in Threads \ {t} :
          mine'[u] = mine[u] /\ bars'[u] = bars[u] /\ hash'[u] = hash[u] /\ got'[u] = got[u]
    BY <1>t, <2>1
  <2>5. "answered" \notin Steps \union {"unlink manifest"} /\ "answered" # "unlink data"
    BY DEF Steps
  <2> QED BY <1>f, <2>1, <2>2, <2>3, <2>4, <2>5
<1>4. ASSUME NEW t \in Threads, NEW i \in Ids, NEW s \in {"look", "find"}, Begin(t, i, s) PROVE Sound(id)'
  <2>1. /\ pc' = [pc EXCEPT ![t] = s] /\ mine' = [mine EXCEPT ![t] = i] /\ pc[t] = "idle"
        /\ UNCHANGED <<data, manifest, plan, bars, hash, got, Flawed>>
    BY <1>4 DEF Flawed, flaws, Mended, Begin, Goto, files
  <2>2. ~Creating(t, id) /\ ~HalfDeleted(t, id)
    BY <2>1 DEF Creating, HalfDeleted, Steps
  <2>3. \A u \in Threads \ {t} :
          mine'[u] = mine[u] /\ bars'[u] = bars[u] /\ hash'[u] = hash[u] /\ got'[u] = got[u]
    BY <1>t, <2>1
  <2>4. s \notin Steps \union {"unlink manifest"} /\ s # "unlink data"
    BY DEF Steps
  <2> QED BY <1>f, <2>1, <2>2, <2>3, <2>4
<1>5. ASSUME NEW t \in Threads, Respond(t) PROVE Sound(id)'
  <2>1. /\ pc' = [pc EXCEPT ![t] = "idle"] /\ mine' = [mine EXCEPT ![t] = NoId]
        /\ got' = [got EXCEPT ![t] = NoFile] /\ pc[t] \in {"answered", "deleted"}
        /\ UNCHANGED <<data, manifest, plan, bars, hash, Flawed>>
    BY <1>5 DEF Flawed, flaws, Mended, Respond, Release, Goto, files, cleanup
  <2>2. ~Creating(t, id) /\ ~HalfDeleted(t, id)
    BY <2>1 DEF Creating, HalfDeleted, Steps
  <2>3. \A u \in Threads \ {t} :
          mine'[u] = mine[u] /\ bars'[u] = bars[u] /\ hash'[u] = hash[u] /\ got'[u] = got[u]
    BY <1>t, <2>1
  <2>4. "idle" \notin Steps \union {"unlink manifest"} /\ "idle" # "unlink data"
    BY DEF Steps
  <2> QED BY <1>f, <2>1, <2>2, <2>3, <2>4
<1>6. ASSUME NEW t \in Threads, FindManifest(t) PROVE Sound(id)'
  <2>0. pc[t] = "find" /\ UNCHANGED <<data, manifest, mine, bars, hash, got, plan, Flawed>>
    BY <1>6 DEF Flawed, flaws, Mended, FindManifest, files, cleanup
  <2>n. ~Creating(t, id) /\ ~HalfDeleted(t, id)
    BY <2>0 DEF Creating, HalfDeleted, Steps
  <2>1. CASE pc' = [pc EXCEPT ![t] = "answered"]
    BY <1>f, <2>0, <2>1, <2>n DEF Steps
  <2>2. CASE pc' = [pc EXCEPT ![t] = "unlink data"]
             /\ overlapped' = overlapped \union {i \in {mine[t]} : \E u \in Threads : Creating(u, i)}
    <3>1. mine[t] = id => \A u \in Threads : ~Creating(u, id)
      BY <2>2
    <3> QED BY <1>f, <2>0, <2>2, <2>n, <3>1 DEF Steps
  <2> QED BY <1>6, <2>1, <2>2 DEF FindManifest, Goto
<1>7. ASSUME NEW t \in Threads, UnlinkData(t) \/ UnlinkManifest(t) PROVE Sound(id)'
  <2>1. CASE mine[t] = id
    BY <1>i, <1>7, <2>1, OwnDeletion
  <2>2. CASE mine[t] # id
    <3>1. /\ UNCHANGED <<mine, bars, hash, got, plan>>
          /\ \E s : pc' = [pc EXCEPT ![t] = s]
          /\ data'[id] = data[id] /\ manifest'[id] = manifest[id]
          /\ id \in Flawed => id \in Flawed'
      BY <1>7, <2>2 DEF Flawed, flaws, Mended, UnlinkData, UnlinkManifest, Goto, cleanup,
             TypeOK, FilesTypeOK
    <3>2. \A u \in Threads \ {t} : pc'[u] = pc[u]
      BY <1>t, <3>1
    <3>3. ~Creating(t, id) /\ ~HalfDeleted(t, id) /\ ~Creating(t, id)' /\ ~HalfDeleted(t, id)' /\ ~Removing(t, id)'
      BY <2>2, <3>1 DEF Creating, HalfDeleted, Removing
    <3> QED BY <1>i, <3>1, <3>2, <3>3, FilesAlone
  <2> QED BY <2>1, <2>2
<1>8. ASSUME NEW t \in Threads, DeleteRaises(t) PROVE Sound(id)'
  <2>1. /\ pc' = [pc EXCEPT ![t] = "answered"] /\ pc[t] \in {"unlink data", "unlink manifest"}
        /\ UNCHANGED <<data, manifest, plan, mine, bars, hash, got>>
        /\ Flawed' = Flawed \union {i \in {mine[t]} : HalfDeleted(t, i)}
    BY <1>8 DEF Flawed, flaws, Mended, DeleteRaises, Goto, files, cleanup
  <2>2. ~Creating(t, id) /\ (HalfDeleted(t, id) => id \in Flawed') /\ (id \in Flawed => id \in Flawed')
    BY <2>1 DEF Creating, HalfDeleted, Steps
  <2> QED BY <1>f, <2>1, <2>2 DEF Steps
<1>9. CASE ListCandidates
  BY <1>i, <1>9, SoundListing
<1>10. ASSUME NEW x \in plan, Unlink(x) PROVE Sound(id)'
  BY <1>i, <1>10, SoundUnlink
<1>11. CASE CleanupEnds \/ CleanupRaises
  BY <1>i, <1>11, SoundEnd
<1>12. CASE Crash
  BY <1>i, <1>12, SoundCrash
<1>13. CASE UNCHANGED vars
  <2>1. UNCHANGED <<data, manifest, pc, mine, bars, hash, got, plan, Flawed>>
    BY <1>13 DEF Flawed, flaws, Mended, vars, files, local, cleanup
  <2>2. /\ \A t \in Threads : /\ Creating(t, id)' <=> Creating(t, id)
                              /\ Removing(t, id)' <=> Removing(t, id)
                              /\ HalfDeleted(t, id)' <=> HalfDeleted(t, id)
                              /\ Filled(t, id)' <=> Filled(t, id)
        /\ Listed' = Listed
    BY <2>1 DEF Creating, Removing, HalfDeleted, Filled, Describes, Listed, Running
  <2>3. /\ AllListed(id)' <=> AllListed(id)
        /\ OrphansOnly(id)' <=> OrphansOnly(id)
        /\ TakenForOrphan(id)' <=> TakenForOrphan(id)
        /\ Whole(id)' <=> Whole(id)
        /\ Absent(id)' <=> Absent(id)
    BY <2>1 DEF AllListed, OrphansOnly, TakenForOrphan, File, Whole, Absent, Describes
  <2> QED BY <1>i, <2>1, <2>2, <2>3 DEF Sound, Alone, Quiet
<1> QED
  BY <1>1, <1>2, <1>3, <1>4, <1>5, <1>6, <1>7, <1>8, <1>9, <1>10, <1>11, <1>12, <1>13
     DEF Next, Serve, RequestExport, DeleteExport

(***************************************************************************)
(* A clean-up that no request disturbs.                                    *)
(***************************************************************************)
LEMMA CalmStep == TypeOK /\ CalmInv /\ [Next]_vars => CalmInv'
<1> SUFFICES ASSUME TypeOK, CalmInv, [Next]_vars, Running', calm' PROVE CalmInv'
  BY DEF CalmInv
<1> DEFINE Rests  == \A t \in Threads : pc[t] \in {"idle", "answered", "deleted"}
           Fits(id) == IF id \in Listed THEN AllListed(id) ELSE (data[id] = NoFile) <=> (manifest[id] = NoFile)
<1>0. Rests' /\ (\A id \in Csv : Fits(id)') => CalmInv'
  BY DEF CalmInv
<1>1. ASSUME NEW t \in Threads, Respond(t) PROVE CalmInv'
  <2>1. UNCHANGED <<data, manifest, plan, calm>> /\ pc' = [pc EXCEPT ![t] = "idle"]
    BY <1>1 DEF Respond, files, cleanup, Goto
  <2>2. Listed' = Listed /\ Running /\ calm
    BY <2>1 DEF Listed, Running
  <2>3. Rests /\ \A id \in Csv : Fits(id)
    BY <2>2 DEF CalmInv
  <2>4. Rests'
    BY <2>1, <2>3 DEF TypeOK
  <2>5. \A id \in Csv : Fits(id)'
    BY <2>1, <2>2, <2>3 DEF AllListed
  <2> QED BY <1>0, <2>4, <2>5
<1>2. ASSUME NEW t \in Threads, Serve(t), ~Respond(t) PROVE FALSE
  <2>1. pc[t] \notin {"idle", "answered", "deleted"} /\ UNCHANGED <<plan, calm>>
    BY <1>2 DEF Serve, Look, Create, CreateRaises, CreateStep, Fetch, OpenData, WriteFirstPart,
                WriteSecondPart, HashData, OpenManifest, WriteManifest, Raise, Steps, FindManifest,
                UnlinkData, UnlinkManifest, DeleteRaises, cleanup
  <2> QED BY <2>1 DEF CalmInv, Running
<1>3. ASSUME NEW t \in Threads, NEW id \in Ids, RequestExport(t, id) \/ DeleteExport(t, id) PROVE FALSE
  BY <1>3 DEF RequestExport, DeleteExport, Begin
<1>4. CASE ListCandidates
  <2>0. UNCHANGED <<data, manifest, pc>> /\ (calm' = \A t \in Threads : pc[t] \in {"idle", "answered", "deleted"})
    BY <1>4 DEF ListCandidates, files, local
  <2>1. PICK old \in SUBSET {i \in Ids : manifest[i] \in Manifests} :
          plan' = OrphanExportFiles \union ExpiredExportFiles(old)
    BY <1>4 DEF ListCandidates
  <2>2. Listed' = {x.id : x \in plan'}
    <3>1. old \in SUBSET Ids
      OBVIOUS
    <3> QED BY <2>1, <3>1, CandidatesType, WhileRunning
  <2>3. Rests'
    BY <2>0
  <2>4. ASSUME NEW id \in Csv PROVE Fits(id)'
    <3>0. id \in Ids /\ ((id \in Listed') <=> \E x \in plan' : x.id = id)
      BY <2>2, Csvs
    <3>l. \/ (\A x \in plan' : x.id # id) /\ ((data[id] = NoFile) <=> (manifest[id] = NoFile))
          \/ /\ data[id] # NoFile => \E x \in plan' : x.kind = "data" /\ x.id = id
             /\ manifest[id] # NoFile => \E x \in plan' : x.kind = "manifest" /\ x.id = id
      <4> HIDE DEF Rests, Fits
      <4>1. id \in Ids
        BY <3>0
      <4> QED BY <2>1, <4>1, Candidates
    <3>1. CASE id \in Listed'
      <4>1. /\ data[id] # NoFile => \E x \in plan' : x.kind = "data" /\ x.id = id
            /\ manifest[id] # NoFile => \E x \in plan' : x.kind = "manifest" /\ x.id = id
        BY <3>0, <3>1, <3>l
      <4> QED BY <2>0, <3>1, <4>1 DEF AllListed
    <3>2. CASE id \notin Listed'
      <4>1. (data[id] = NoFile) <=> (manifest[id] = NoFile)
        BY <3>0, <3>2, <3>l
      <4> QED BY <2>0, <3>2, <4>1
    <3> QED BY <3>1, <3>2
  <2> QED BY <1>0, <2>3, <2>4
<1>5. ASSUME NEW x \in plan, Unlink(x) PROVE CalmInv'
  <2>0. UNCHANGED <<pc, calm>> /\ Running /\ plan' = plan \ {x} /\ plan \subseteq Listable
    BY <1>5 DEF Unlink, local, TypeOK
  <2>1. Listed' = {y.id : y \in plan'} /\ Listed = {y.id : y \in plan}
    <3>1. plan \ {x} \subseteq Listable
      BY <2>0
    <3> QED BY <2>0, <3>1, WhileRunning DEF Listed
  <2>2. Rests /\ \A id \in Csv : Fits(id)
    BY <2>0 DEF CalmInv
  <2>3. Rests'
    BY <2>0, <2>2
  <2>4. ASSUME NEW id \in Csv PROVE Fits(id)'
    <3>0. id \in Ids /\ (id \in Listed' <=> \E y \in plan' : y.id = id)
          /\ (id \in Listed <=> \E y \in plan : y.id = id) /\ Fits(id)
      BY <2>1, <2>2, Csvs
    <3>1. CASE x.id # id
      <4>1. data'[id] = data[id] /\ manifest'[id] = manifest[id]
        BY <1>5, <3>0, <3>1 DEF Unlink, TypeOK, FilesTypeOK
      <4>2. (id \in Listed' <=> id \in Listed) /\ (AllListed(id) => AllListed(id)')
        BY <2>0, <3>0, <3>1, <4>1 DEF AllListed
      <4> QED BY <3>0, <4>1, <4>2
    <3>2. CASE x.id = id
      <4>1. AllListed(id)
        BY <3>0, <3>2
      <4>2. /\ x.kind = "data" => data'[id] = NoFile /\ manifest'[id] = manifest[id]
            /\ x.kind # "data" => data'[id] = data[id] /\ manifest'[id] = NoFile
        BY <1>5, <3>0, <3>2 DEF Unlink, TypeOK, FilesTypeOK
      <4>3. AllListed(id)'
        BY <2>0, <4>1, <4>2 DEF AllListed
      <4>4. id \notin Listed' => data'[id] = NoFile /\ manifest'[id] = NoFile
        BY <3>0, <4>3 DEF AllListed
      <4> QED BY <4>3, <4>4
    <3> QED BY <3>1, <3>2
  <2> QED BY <1>0, <2>3, <2>4
<1>6. CASE CleanupEnds \/ CleanupRaises
  BY <1>6 DEF CleanupEnds, CleanupRaises, Running
<1>7. CASE Crash
  <2>1. UNCHANGED <<data, manifest, plan, calm>> /\ \A t \in Threads : pc'[t] = "idle"
    BY <1>7 DEF Crash, files, cleanup
  <2>2. Listed' = Listed /\ Running /\ calm
    BY <2>1 DEF Listed, Running
  <2>3. \A id \in Csv : Fits(id)
    BY <2>2 DEF CalmInv
  <2>4. \A id \in Csv : Fits(id)'
    BY <2>1, <2>2, <2>3 DEF AllListed
  <2> QED BY <1>0, <2>1, <2>4
<1>8. CASE UNCHANGED vars
  <2>1. UNCHANGED <<data, manifest, plan, calm, pc>>
    BY <1>8 DEF vars, files, cleanup, local
  <2>2. Listed' = Listed /\ Running /\ calm
    BY <2>1 DEF Listed, Running
  <2>3. Rests /\ \A id \in Csv : Fits(id)
    BY <2>2 DEF CalmInv
  <2>4. \A id \in Csv : Fits(id)'
    BY <2>1, <2>2, <2>3 DEF AllListed
  <2> QED BY <1>0, <2>1, <2>3, <2>4
<1> QED BY <1>1, <1>2, <1>3, <1>4, <1>5, <1>6, <1>7, <1>8 DEF Next

LEMMA ExportInvHolds == Spec => []ExportInv
<1>1. ExportInv /\ [Next]_vars => ExportInv'
  BY TypeStep, SoundStep, CalmStep DEF ExportInv
<1> QED BY ExportInit, <1>1, PTL DEF Spec
----
(***************************************************************************)
(* Type correctness.                                                       *)
(***************************************************************************)
THEOREM TypeCorrect == Spec => []TypeOK
BY ExportInvHolds, PTL DEF ExportInv

(***************************************************************************)
(* An export nobody works on, that nothing overlapped with, that no        *)
(* exception or crash left half-way and whose manifest no clean-up took    *)
(* for an orphan, has both its files, and the manifest describes the data  *)
(* file, or neither.                                                       *)
(***************************************************************************)
THEOREM WholeOrAbsentHolds == Spec => []WholeOrAbsent
<1>1. ExportInv => WholeOrAbsent
  BY DEF Flawed, ExportInv, AllSound, Sound, Quiet, AtRest, Removing, HalfDeleted, WholeOrAbsent
<1> QED BY <1>1, ExportInvHolds, PTL

(***************************************************************************)
(* A deletion that is reported as done leaves nothing of the export.       *)
(***************************************************************************)
THEOREM DeletedIsGoneHolds == Spec => DeletedIsGone
<1>1. ExportInv /\ [Next]_vars =>
        [\A t \in Threads : pc[t] # "deleted" /\ pc'[t] = "deleted" /\ mine[t] \notin overlapped =>
           Absent(mine[t])']_vars
  <2> SUFFICES ASSUME ExportInv, [Next]_vars, NEW t \in Threads,
                      pc[t] # "deleted", pc'[t] = "deleted", mine[t] \notin overlapped
               PROVE  Absent(mine[t])'
    OBVIOUS
  <2>p. pc \in [Threads -> Steps \union
              {"idle", "look", "find", "unlink data", "unlink manifest", "answered", "deleted"}]
    BY DEF ExportInv, TypeOK
  <2>1. UnlinkManifest(t)
    <3>1. \A u \in Threads : \A s : pc' = [pc EXCEPT ![u] = s] => pc'[t] = pc[t] \/ (u = t /\ s = "deleted")
      BY <2>p
    <3>2. ASSUME NEW u \in Threads, Serve(u) PROVE UnlinkManifest(t)
      <4>1. ASSUME ~UnlinkManifest(u) PROVE \E s : s # "deleted" /\ pc' = [pc EXCEPT ![u] = s]
        BY <3>2, <4>1 DEF Serve, Look, Answer, Create, CreateRaises, CreateStep, Fetch, OpenData,
               WriteFirstPart, WriteSecondPart, HashData, OpenManifest, WriteManifest, Raise,
               FindManifest, UnlinkData, DeleteRaises, Respond, Goto
      <4>2. ASSUME UnlinkManifest(u) PROVE u = t
        BY <3>1, <4>2 DEF UnlinkManifest, Goto
      <4> QED BY <3>1, <4>1, <4>2
    <3>3. ASSUME NEW u \in Threads, NEW i \in Ids, RequestExport(u, i) \/ DeleteExport(u, i) PROVE FALSE
      BY <3>1, <3>3 DEF RequestExport, DeleteExport, Begin, Goto
    <3>4. ASSUME UNCHANGED pc \/ Crash PROVE FALSE
      BY <3>4 DEF Crash
    <3> QED BY <3>2, <3>3, <3>4 DEF Next, ListCandidates, CleanupEnds, CleanupRaises, Unlink, vars, local
  <2>2. mine' = mine /\ data' = data /\ mine[t] \in Ids /\ HalfDeleted(t, mine[t])
    BY <2>1 DEF UnlinkManifest, HalfDeleted, ExportInv, AllHeld, Held
  <2>3. manifest'[mine[t]] = NoFile
    BY <2>1, <2>2 DEF UnlinkManifest, ExportInv, TypeOK, FilesTypeOK
  <2>4. data[mine[t]] = NoFile
    BY <2>2 DEF ExportInv, AllSound, Sound
  <2> QED BY <2>2, <2>3, <2>4 DEF Absent
<1> QED BY <1>1, ExportInvHolds, PTL DEF Spec, DeletedIsGone

(***************************************************************************)
(* A clean-up that ends normally while no request is served leaves no CSV  *)
(* export with one of its two files.                                       *)
(***************************************************************************)
THEOREM NoOrphansAfterCleanup == Spec => CleanupLeavesNoOrphans
<1>1. ExportInv => [CleanupEnds /\ calm =>
                      \A id \in Csv : (data[id] = NoFile) <=> (manifest[id] = NoFile)]_vars
  <2> SUFFICES ASSUME ExportInv, CleanupEnds, calm, NEW id \in Csv
               PROVE  (data[id] = NoFile) <=> (manifest[id] = NoFile)
    OBVIOUS
  <2>1. plan = {}
    BY DEF CleanupEnds
  <2>2. Running
    BY <2>1, PlanRuns DEF Running
  <2>3. id \notin Listed
    BY <2>1 DEF Listed
  <2> QED BY <2>2, <2>3 DEF ExportInv, CalmInv
<1> QED BY <1>1, ExportInvHolds, PTL DEF CleanupLeavesNoOrphans

(***************************************************************************)
(* A clean-up takes nothing of a complete CSV export that is not expired,  *)
(* unless it was being created when the files were listed, or since.       *)
(***************************************************************************)
THEOREM CleanupSparesTheWholeHolds == Spec => CleanupSparesTheWhole
<1>1. ExportInv /\ [Next]_vars =>
        [\A id \in Csv \ overlapped : Whole(id) /\ pc' = pc /\ ~Whole(id)' =>
           \E x \in plan : x.id = id /\ x.why = "expired"]_vars
  <2> SUFFICES ASSUME ExportInv, [Next]_vars, NEW id \in Csv \ overlapped,
                      Whole(id), pc' = pc, ~Whole(id)'
               PROVE  \E x \in plan : x.id = id /\ x.why = "expired"
    OBVIOUS
  <2>p. pc \in [Threads -> Steps \union
              {"idle", "look", "find", "unlink data", "unlink manifest", "answered", "deleted"}]
    BY DEF ExportInv, TypeOK
  <2>1. \A t \in Threads : \A s : pc' = [pc EXCEPT ![t] = s] => pc[t] = s
    BY <2>p
  <2>2. ASSUME NEW t \in Threads, Serve(t) PROVE FALSE
    BY <2>1, <2>2 DEF Serve, Look, Answer, Create, CreateRaises, CreateStep, Fetch, OpenData,
           WriteFirstPart, WriteSecondPart, HashData, OpenManifest, WriteManifest, Raise, FindManifest,
           UnlinkData, UnlinkManifest, DeleteRaises, Respond, Goto, Steps
  <2>3. ASSUME NEW t \in Threads, NEW i \in Ids, RequestExport(t, i) \/ DeleteExport(t, i) PROVE FALSE
    BY <2>1, <2>3 DEF RequestExport, DeleteExport, Begin, Goto
  <2>4. data'[id] # data[id] \/ manifest'[id] # manifest[id]
    BY DEF Whole, Describes
  <2>5. PICK x \in plan : Unlink(x)
    BY <2>2, <2>3, <2>4 DEF Next, ListCandidates, CleanupEnds, CleanupRaises, Crash, vars, files
  <2>6. id \in Ids /\ x \in Listable /\ Running
    BY <2>5, Csvs DEF Unlink, ExportInv, TypeOK
  <2>7. x.id = id
    BY <2>4, <2>5, <2>6 DEF Unlink, ExportInv, TypeOK, FilesTypeOK
  <2>8. id \in Listed
    BY <2>6, <2>7 DEF Listed
  <2>9. Sound(id)
    BY <2>6 DEF ExportInv, AllSound
  <2>10. OrphansOnly(id)
    BY <2>8, <2>9 DEF Sound
  <2>11. x.why # "orphan"
    BY <2>7, <2>10, Different DEF OrphansOnly, Whole
  <2>12. x.why \in {"orphan", "expired"}
    BY <2>6 DEF Listable
  <2> QED BY <2>7, <2>11, <2>12
<1> QED BY <1>1, ExportInvHolds, PTL DEF Spec, CleanupSparesTheWhole, Spared
====
