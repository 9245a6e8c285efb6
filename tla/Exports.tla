---- MODULE Exports ----
(***************************************************************************)
(* Data exports (data/exports.py) and their clean-up                       *)
(* (_orphan_export_files, _expired_export_files and cleanup of             *)
(* data/maintenance.py).                                                   *)
(*                                                                         *)
(* An export is a data file with a manifest like a snapshot, but it can be *)
(* deleted: by a request, data file first, and by the command              *)
(* "data cleanup --delete", a process of its own that lists the files and  *)
(* then deletes what it has listed.  The server runs on Windows, where a   *)
(* file that is open for writing cannot be deleted: the deletion raises.   *)
(***************************************************************************)
EXTENDS ArtifactFiles

CONSTANTS Csv,         \* the exports in CSV format, the others are Parquet files
          MaxRequests, \* bound: creations and deletions of a run
          MaxCleanups, \* bound: clean-ups of a run
          MaxCrashes   \* bound: crashes of a run

\* What a clean-up may list.
Listable == [kind : {"data", "manifest"}, id : Ids, why : {"orphan", "expired"}]

ASSUME ExportAssumption ==
  /\ Csv \subseteq Ids
  /\ \A S \in SUBSET Listable : S # NoFile
  /\ MaxRequests \in Nat /\ MaxCleanups \in Nat /\ MaxCrashes \in Nat

VARIABLES plan,    \* the files the clean-up has listed, NoFile while none runs
          calm,    \* history: no request has begun since the clean-up listed its files
          broken,  \* history: exports that an exception, a crash or an interrupted clean-up left half-way
          stripped,\* history: Parquet exports whose manifest a clean-up took for an orphan
          requests, cleanups, crashes

cleanup == <<plan, calm, cleanups>>
flaws   == <<broken, stripped>>
bounds  == <<requests, crashes>>
vars    == <<files, local, overlapped, cleanup, flaws, bounds>>

Running   == plan # NoFile
Listed    == IF Running THEN {x.id : x \in plan} ELSE {}
Removing(t, id) == mine[t] = id /\ pc[t] \in {"unlink data", "unlink manifest"}

\* An exception here leaves something behind.
HalfCreated(t, id) == mine[t] = id /\ pc[t] \in Steps \ {"fetch", "open"}
HalfDeleted(t, id) == mine[t] = id /\ pc[t] = "unlink manifest"

Whole(id)  == manifest[id] \in Manifests /\ data[id] # NoFile /\ Describes(manifest[id], data[id])
Absent(id) == manifest[id] = NoFile /\ data[id] = NoFile
AtRest(id) == id \notin Listed /\ \A t \in Threads : ~Creating(t, id) /\ ~Removing(t, id)

\* Somebody has the file open for writing.
DataInUse(id)     == \E t \in Threads : mine[t] = id /\ pc[t] \in {"part1", "part2"}
ManifestInUse(id) == \E t \in Threads : mine[t] = id /\ pc[t] = "save"

Init ==
  /\ FilesInit
  /\ plan = NoFile
  /\ calm = FALSE
  /\ broken = {} /\ stripped = {}
  /\ requests = 0 /\ cleanups = 0 /\ crashes = 0

Begin(t, id, step) ==
  /\ pc[t] = "idle"
  /\ requests < MaxRequests
  /\ requests' = requests + 1
  /\ mine' = [mine EXCEPT ![t] = id]
  /\ Goto(t, step)
  /\ calm' = FALSE
  /\ UNCHANGED <<files, bars, hash, got, overlapped, plan, cleanups, flaws, crashes>>

Respond(t) ==
  /\ pc[t] \in {"answered", "deleted"}
  /\ Release(t)
  /\ Goto(t, "idle")
  /\ UNCHANGED <<files, overlapped, cleanup, flaws, bounds>>
----
(***************************************************************************)
(* create                                                                  *)
(***************************************************************************)
RequestExport(t, id) == Begin(t, id, "look")

\* The manifest of the export alone is read; if it is torn that raises.
Look(t) ==
  /\ pc[t] = "look"
  /\ LET id == mine[t] IN
     IF manifest[id] = Torn
     THEN Answer(t, NoFile) /\ UNCHANGED overlapped
     ELSE IF manifest[id] # NoFile
          THEN Answer(t, manifest[id]) /\ UNCHANGED overlapped
          ELSE /\ Goto(t, "fetch")
               /\ overlapped' = overlapped \union
                    {i \in {id} : i \in Listed \/ \E u \in Threads : Creating(u, i) \/ Removing(u, i)}
               /\ UNCHANGED <<mine, bars, hash, got>>
  /\ UNCHANGED <<files, cleanup, flaws, bounds>>

Mended(ids) == broken' = broken \ ids /\ stripped' = stripped \ ids

\* What was broken before is whole once a manifest is written for it.
Create(t) ==
  /\ CreateStep(t)
  /\ Mended({id \in {mine[t]} : pc[t] = "save"})
  /\ UNCHANGED <<cleanup, bounds>>

\* query_bars raises, or a file cannot be opened, written or read.
CreateRaises(t) ==
  /\ Raise(t)
  /\ broken' = broken \union {id \in {mine[t]} : HalfCreated(t, id)}
  /\ UNCHANGED <<stripped, cleanup, bounds>>
----
(***************************************************************************)
(* delete: the data file, then the manifest.                               *)
(***************************************************************************)
DeleteExport(t, id) == Begin(t, id, "find")

FindManifest(t) ==
  /\ pc[t] = "find"
  /\ LET id == mine[t] IN
     IF manifest[id] \in Manifests
     THEN /\ Goto(t, "unlink data")
          /\ overlapped' = overlapped \union {i \in {id} : \E u \in Threads : Creating(u, i)}
     ELSE Goto(t, "answered") /\ UNCHANGED overlapped
  /\ UNCHANGED <<files, mine, bars, hash, got, cleanup, flaws, bounds>>

\* The data file is looked for as a CSV file.
UnlinkCsv(t) ==
  /\ pc[t] = "unlink data"
  /\ ~DataInUse(mine[t])
  /\ data' = [data EXCEPT ![mine[t]] = IF mine[t] \in Csv THEN NoFile ELSE @]
  /\ Goto(t, "unlink manifest")
  /\ UNCHANGED <<manifest, mine, bars, hash, got, overlapped, cleanup, flaws, bounds>>

UnlinkData(t) ==
  /\ pc[t] = "unlink data"
  /\ ~DataInUse(mine[t])
  /\ data' = [data EXCEPT ![mine[t]] = NoFile]
  /\ Goto(t, "unlink manifest")
  /\ UNCHANGED <<manifest, mine, bars, hash, got, overlapped, cleanup, flaws, bounds>>

UnlinkManifest(t) ==
  /\ pc[t] = "unlink manifest"
  /\ ~ManifestInUse(mine[t])
  /\ manifest' = [manifest EXCEPT ![mine[t]] = NoFile]
  /\ Mended({mine[t]})
  /\ Goto(t, "deleted")
  /\ UNCHANGED <<data, mine, bars, hash, got, overlapped, cleanup, bounds>>

\* The file is open, here or in a download, or it is gone between exists and unlink.
DeleteRaises(t) ==
  /\ pc[t] \in {"unlink data", "unlink manifest"}
  /\ broken' = broken \union {id \in {mine[t]} : HalfDeleted(t, id)}
  /\ Goto(t, "answered")
  /\ UNCHANGED <<files, mine, bars, hash, got, overlapped, cleanup, stripped, bounds>>
----
(***************************************************************************)
(* data cleanup --delete [--expired-days N].  Which manifests are old      *)
(* enough is left open; a torn one has no generated_at.                    *)
(***************************************************************************)
File(kind, id, why) == [kind |-> kind, id |-> id, why |-> why]

\* A data file is looked at, its manifest is not.
OrphanDataFiles ==
  {File("data", id, "orphan") : id \in {i \in Csv : data[i] # NoFile /\ manifest[i] = NoFile}}

\* Only CSV files count as data files.
OrphanExportFiles ==
  {File("data", id, "orphan") : id \in {i \in Csv : data[i] # NoFile /\ manifest[i] = NoFile}}
  \union
  {File("manifest", id, "orphan") :
     id \in {i \in Ids : manifest[i] # NoFile /\ (i \notin Csv \/ data[i] = NoFile)}}

ExpiredExportFiles(old) ==
  {File("manifest", id, "expired") : id \in old}
  \union {File("data", id, "expired") : id \in {i \in old : data[i] # NoFile}}

\* Every data file of the directory is listed.
ListEverything ==
  /\ ~Running
  /\ cleanups < MaxCleanups
  /\ cleanups' = cleanups + 1
  /\ plan' = {File("data", id, "orphan") : id \in {i \in Csv : data[i] # NoFile}}
  /\ calm' = \A t \in Threads : pc[t] \in {"idle", "answered", "deleted"}
  /\ overlapped' = overlapped
       \union {id \in {x.id : x \in plan'} : \E t \in Threads : Creating(t, id)}
  /\ UNCHANGED <<files, local, flaws, bounds>>

ListCandidates ==
  /\ ~Running
  /\ cleanups < MaxCleanups
  /\ cleanups' = cleanups + 1
  /\ \E old \in SUBSET {id \in Ids : manifest[id] \in Manifests} :
       plan' = OrphanExportFiles \union ExpiredExportFiles(old)
  /\ calm' = \A t \in Threads : pc[t] \in {"idle", "answered", "deleted"}
  /\ overlapped' = overlapped
       \union {id \in {x.id : x \in plan'} : \E t \in Threads : Creating(t, id)}
  /\ UNCHANGED <<files, local, flaws, bounds>>

\* For the manifest of a Parquet export no CSV file was found: its data file stays.
Unlink(x) ==
  /\ Running
  /\ x \in plan
  /\ plan' = plan \ {x}
  /\ IF x.kind = "data"
     THEN ~DataInUse(x.id) /\ data' = [data EXCEPT ![x.id] = NoFile] /\ UNCHANGED manifest
     ELSE ~ManifestInUse(x.id) /\ manifest' = [manifest EXCEPT ![x.id] = NoFile] /\ UNCHANGED data
  /\ stripped' = stripped \union {id \in {x.id} \ Csv : x.why = "orphan"}
  /\ UNCHANGED <<local, overlapped, calm, cleanups, broken, bounds>>

CleanupEnds ==
  /\ plan = {}
  /\ plan' = NoFile
  /\ UNCHANGED <<files, local, overlapped, calm, cleanups, flaws, bounds>>

\* A file is in use, or the command is killed.
CleanupRaises ==
  /\ Running
  /\ plan' = NoFile
  /\ calm' = FALSE
  /\ broken' = broken \union Listed
  /\ UNCHANGED <<files, local, overlapped, cleanups, stripped, bounds>>

Crash ==
  /\ crashes < MaxCrashes
  /\ crashes' = crashes + 1
  /\ broken' = broken \union
       {id \in Ids : \E t \in Threads : HalfCreated(t, id) \/ HalfDeleted(t, id)}
  /\ pc' = [t \in Threads |-> "idle"]
  /\ mine' = [t \in Threads |-> NoId]
  /\ bars' = [t \in Threads |-> 0]
  /\ hash' = [t \in Threads |-> NoFile]
  /\ got' = [t \in Threads |-> NoFile]
  /\ UNCHANGED <<files, overlapped, cleanup, stripped, requests>>

Serve(t) ==
  \/ Look(t) \/ Create(t) \/ CreateRaises(t)
  \/ FindManifest(t) \/ UnlinkData(t) \/ UnlinkManifest(t) \/ DeleteRaises(t)
  \/ Respond(t)

Next ==
  \/ \E t \in Threads : Serve(t) \/ \E id \in Ids : RequestExport(t, id) \/ DeleteExport(t, id)
  \/ ListCandidates \/ CleanupEnds \/ CleanupRaises
  \/ Running /\ \E x \in plan : Unlink(x)
  \/ Crash

Spec == Init /\ [][Next]_vars
----
TypeOK ==
  /\ FilesTypeOK
  /\ pc \in [Threads -> Steps \union
              {"idle", "look", "find", "unlink data", "unlink manifest", "answered", "deleted"}]
  /\ Running => plan \subseteq Listable
  /\ calm \in BOOLEAN
  /\ broken \subseteq Ids /\ stripped \subseteq Ids
  /\ requests \in 0 .. MaxRequests
  /\ cleanups \in 0 .. MaxCleanups
  /\ crashes \in 0 .. MaxCrashes

(***************************************************************************)
(* An export nobody works on has both its files, and the manifest          *)
(* describes the data file, or neither.  The exceptions are exports whose  *)
(* creation overlapped with another creation, a deletion or a clean-up     *)
(* (`overlapped`), those that an exception, a crash or an interrupted      *)
(* clean-up left half-way (`broken`), and whole Parquet exports whose      *)
(* manifest a clean-up deleted (`stripped`, see CleanupSparesEveryExport). *)
(***************************************************************************)
WholeOrAbsent ==
  \A id \in Ids \ (overlapped \union broken \union stripped) :
    AtRest(id) => Whole(id) \/ Absent(id)

(***************************************************************************)
(* A deletion that is reported as done leaves nothing of the export, in    *)
(* either format, unless its creation overlapped with another creation, a  *)
(* deletion or a clean-up (`overlapped`).                                  *)
(***************************************************************************)
DeletedIsGone ==
  [][\A t \in Threads : pc[t] # "deleted" /\ pc'[t] = "deleted" /\ mine[t] \notin overlapped =>
       Absent(mine[t])']_vars

(***************************************************************************)
(* A clean-up that ends normally while no request is served leaves no CSV  *)
(* export with one of its two files, whatever was broken before.           *)
(***************************************************************************)
CleanupLeavesNoOrphans ==
  [][CleanupEnds /\ calm =>
       \A id \in Csv : (data[id] = NoFile) <=> (manifest[id] = NoFile)]_vars

Spared(ids) ==
  \A id \in ids \ overlapped : Whole(id) /\ pc' = pc /\ ~Whole(id)' =>
    \E x \in plan : x.id = id /\ x.why = "expired"

(***************************************************************************)
(* A clean-up takes nothing of a complete CSV export that is not expired,  *)
(* unless it was being created when the files were listed, or since        *)
(* (`overlapped`: such an export may be listed by its first file alone).   *)
(***************************************************************************)
CleanupSparesTheWhole == [][Spared(Csv)]_vars

(***************************************************************************)
(* The same of every export, as docs/operations.md:402-403 has it: only    *)
(* orphans are deleted, and what is expired if that is asked for.  The     *)
(* code does not keep it: the data file of a Parquet export is looked for  *)
(* as a CSV file, so each of its manifests is an orphan.                   *)
(***************************************************************************)
CleanupSparesEveryExport == [][Spared(Ids)]_vars
====
