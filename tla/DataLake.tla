---- MODULE DataLake ----
(***************************************************************************)
(* The Parquet files of the data lake and their index: what a download     *)
(* leaves behind (data/files.py, record_file of data/repository.py) and    *)
(* the maintenance commands rebuild-index, compact and cleanup             *)
(* (data/maintenance.py, data/compaction.py).                              *)
(*                                                                         *)
(* The lake holds one symbol's daily bars in several series (the adjust    *)
(* modes).  The rows of a file are a function from dates to bars; they     *)
(* name the symbol but not the series.  The path of a downloaded file      *)
(* contains the hash of its rows, the path of a compacted one the series   *)
(* and the first and last date.  A row of data_files is <<rows, path>>,    *)
(* with the hash of the rows as its key.                                   *)
(*                                                                         *)
(* One action is one SQL statement or one file operation of a command;     *)
(* the process may die between any two.  A file that is opened for writing *)
(* is truncated first, so it is Torn until its rows are written.  Files    *)
(* are visited in any order.  Commands do not overlap, with each other or  *)
(* with a download (docs/operations.md:411).                               *)
(***************************************************************************)
EXTENDS Integers, FiniteSets, Functions

CONSTANTS Series,        \* the adjust modes of the symbol
          NDates,        \* dates are 1 .. NDates
          Bars,          \* the bars MiniQMT may hold for a date
          NoFile,        \* what is at a path without a file
          Torn,          \* what is in a file whose writer has not finished
          MaxDownloads,  \* bound: downloads of a run
          MaxCommands,   \* bound: maintenance commands of a run
          MaxCrashes     \* bound: crashes of a run

Dates == 1 .. NDates

Rows == UNION {[D -> Bars] : D \in (SUBSET Dates) \ {{}}}

PartPaths    == {<<"part", s, r>> : s \in Series, r \in Rows}
CompactPaths == {<<"compact", s, lo, hi>> : s \in Series, lo \in Dates, hi \in Dates}
Paths        == PartPaths \union CompactPaths

ASSUME LakeAssumption ==
  /\ NDates \in Nat \ {0}
  /\ NoFile \notin Rows
  /\ Torn \notin Rows \union {NoFile}
  /\ MaxDownloads \in Nat /\ MaxCommands \in Nat /\ MaxCrashes \in Nat

VARIABLES disk,      \* the rows in the Parquet file at a path
          index,     \* data_files
          coverage,  \* data_coverage: first and last date and file_count of a series
          pc, cmd, scan, plan, at, rows, merged, \* the running command
          last,      \* how the last command ended
          acked,     \* history: the dates of a series whose download was recorded
          reckless,  \* history: files were endangered, see Compact, Cleanup and Crash
          downloads, commands, crashes

stored == <<disk, index, coverage>>
local  == <<scan, plan, at, rows, merged>>
bounds == <<downloads, commands, crashes>>
history == <<acked, reckless>>
vars   == <<stored, pc, cmd, local, last, history, bounds>>

SeriesOf(p) == p[2]
OnDisk      == {p \in Paths : disk[p] # NoFile}
Readable    == {p \in OnDisk : disk[p] # Torn}
Registered  == {e[2] : e \in index}

IsLeast(x, S)    == x \in S /\ \A y \in S : x <= y
IsGreatest(x, S) == x \in S /\ \A y \in S : y <= x
FirstDate(r)     == CHOOSE d \in DOMAIN r : IsLeast(d, DOMAIN r)
LastDate(r)      == CHOOSE d \in DOMAIN r : IsGreatest(d, DOMAIN r)

NoCoverage == [lo |-> 0, hi |-> 0, files |-> 0]

MergeCoverage(row, r) ==
  IF row.files = 0
  THEN [lo |-> FirstDate(r), hi |-> LastDate(r), files |-> 1]
  ELSE [lo |-> IF FirstDate(r) < row.lo THEN FirstDate(r) ELSE row.lo,
        hi |-> IF LastDate(r) > row.hi THEN LastDate(r) ELSE row.hi,
        files |-> row.files + 1]

Finish(outcome) ==
  /\ pc' = "idle"
  /\ cmd' = "none"
  /\ scan' = {}
  /\ plan' = {}
  /\ at' = NoFile
  /\ rows' = NoFile
  /\ merged' = NoCoverage
  /\ last' = outcome

Init ==
  /\ disk = [p \in Paths |-> NoFile]
  /\ index = {}
  /\ coverage = [s \in Series |-> NoCoverage]
  /\ pc = "idle" /\ cmd = "none"
  /\ scan = {} /\ plan = {} /\ at = NoFile /\ rows = NoFile /\ merged = NoCoverage
  /\ last = "none"
  /\ acked = {}
  /\ reckless = FALSE
  /\ downloads = 0 /\ commands = 0 /\ crashes = 0
----
(***************************************************************************)
(* Recording files: the file of a download, or what rebuild-index found.   *)
(***************************************************************************)

\* write_bars opens the file; the same rows have the same path.
Download(s, r) ==
  /\ pc = "idle"
  /\ downloads < MaxDownloads
  /\ downloads' = downloads + 1
  /\ disk' = [disk EXCEPT ![<<"part", s, r>>] = Torn]
  /\ at' = <<"part", s, r>>
  /\ rows' = r
  /\ scan' = {<<"part", s, r>>}
  /\ cmd' = "download"
  /\ pc' = "write"
  /\ UNCHANGED <<index, coverage, plan, merged, last, history, commands, crashes>>

\* The rows of a download, or those of a compaction, reach the file.
WriteRows ==
  /\ pc = "write"
  /\ disk' = [disk EXCEPT ![at] = rows]
  /\ pc' = IF cmd = "download" THEN "insert" ELSE "unlink"
  /\ at' = NoFile
  /\ rows' = NoFile
  /\ UNCHANGED <<index, coverage, cmd, scan, plan, merged, last, history, bounds>>

\* INSERT INTO data_files.  A second file with the same rows has the same
\* file_id: the exception ends the command.
InsertRow ==
  /\ pc = "insert"
  /\ \E p \in scan :
       IF \E e \in index : e[1] = disk[p]
       THEN Finish("refused") /\ UNCHANGED index
       ELSE /\ index' = index \union {<<disk[p], p>>}
            /\ at' = p
            /\ pc' = "drop"
            /\ UNCHANGED <<cmd, scan, plan, rows, merged, last>>
  /\ UNCHANGED <<disk, coverage, history, bounds>>

\* _record_coverage: read the row, DELETE it, INSERT the merged row.
DropCoverage ==
  /\ pc = "drop"
  /\ merged' = MergeCoverage(coverage[SeriesOf(at)], disk[at])
  /\ coverage' = [coverage EXCEPT ![SeriesOf(at)] = NoCoverage]
  /\ pc' = "put"
  /\ UNCHANGED <<disk, index, cmd, scan, plan, at, rows, last, history, bounds>>

PutCoverage ==
  /\ pc = "put"
  /\ coverage' = [coverage EXCEPT ![SeriesOf(at)] = merged]
  /\ IF cmd = "download"
     THEN /\ acked' = acked \union {<<SeriesOf(at), d>> : d \in DOMAIN disk[at]}
          /\ Finish("recorded")
     ELSE /\ scan' = scan \ {at}
          /\ pc' = "next"
          /\ UNCHANGED <<cmd, plan, at, rows, merged, last, acked>>
  /\ UNCHANGED <<disk, index, reckless, bounds>>

\* rebuild_index: the loop over the files that were found.
NextFile ==
  /\ pc = "next"
  /\ IF scan = {} THEN Finish("rebuilt") ELSE pc' = "insert" /\ UNCHANGED <<cmd, local, last>>
  /\ UNCHANGED <<stored, history, bounds>>
----
(***************************************************************************)
(* rebuild-index --execute: read every file, then clear_file_index.  A     *)
(* file that cannot be read is reported and left out.                      *)
(***************************************************************************)
Rebuild ==
  /\ pc = "idle"
  /\ commands < MaxCommands
  /\ commands' = commands + 1
  /\ scan' = Readable
  /\ cmd' = "rebuild"
  /\ pc' = "clear"
  /\ UNCHANGED <<stored, plan, at, rows, merged, last, history, downloads, crashes>>

\* clear_file_index forgets data_coverage.
ClearFilesOnly ==
  /\ pc = "clear"
  /\ pc' = "clear files"
  /\ UNCHANGED <<stored, cmd, local, last, history, bounds>>

ClearCoverage ==
  /\ pc = "clear"
  /\ coverage' = [s \in Series |-> NoCoverage]
  /\ pc' = "clear files"
  /\ UNCHANGED <<disk, index, cmd, local, last, history, bounds>>

ClearFiles ==
  /\ pc = "clear files"
  /\ index' = {}
  /\ pc' = "next"
  /\ UNCHANGED <<disk, coverage, cmd, local, last, history, bounds>>
----
(***************************************************************************)
(* compact --execute.                                                      *)
(***************************************************************************)
Sources(s) == {e \in index : SeriesOf(e[2]) = s}

Groups == {s \in Series : Cardinality(Sources(s)) >= 2}

OutputPath(s) ==
  LET first == {FirstDate(e[1]) : e \in Sources(s)}
      final == {LastDate(e[1]) : e \in Sources(s)}
  IN  <<"compact", s, CHOOSE lo \in first : IsLeast(lo, first),
                      CHOOSE hi \in final : IsGreatest(hi, final)>>

\* list_all_files orders by the first date; files that begin on the same
\* date come in any order.
Orders(S) ==
  {pos \in Bijection(S, 1 .. Cardinality(S)) :
     \A e, f \in S : pos[e] < pos[f] => FirstDate(e[1]) <= FirstDate(f[1])}

\* Only the rows of the file that begins last are kept.
KeepLast(S, pos) ==
  disk[(CHOOSE e \in S : pos[e] = Cardinality(S))[2]]

\* _deduplicate_rows: of the rows of a date the one read last stays.
Deduplicated(S, pos) ==
  [d \in UNION {DOMAIN disk[e[2]] : e \in S} |->
     LET holders == {e \in S : d \in DOMAIN disk[e[2]]}
         final   == CHOOSE e \in holders : \A f \in holders : pos[f] <= pos[e]
     IN  disk[final[2]][d]]

\* A careful operator reads the plan first: is an output path taken?
Compact ==
  /\ pc = "idle"
  /\ commands < MaxCommands
  /\ commands' = commands + 1
  /\ plan' = Groups
  /\ reckless' = (reckless \/ \E s \in Groups : disk[OutputPath(s)] # NoFile)
  /\ cmd' = "compact"
  /\ pc' = "group"
  /\ UNCHANGED <<stored, scan, at, rows, merged, last, acked, downloads, crashes>>

\* ParquetCompactionEngine.compact reads the sources and opens the output; a
\* source that is not there or cannot be read raises.
MergeGroup ==
  /\ pc = "group"
  /\ \E s \in plan :
       IF \E e \in Sources(s) : e[2] \notin Readable
       THEN Finish("failed") /\ UNCHANGED disk
       ELSE /\ \E pos \in Orders(Sources(s)) : rows' = Deduplicated(Sources(s), pos)
            /\ at' = OutputPath(s)
            /\ disk' = [disk EXCEPT ![OutputPath(s)] = Torn]
            /\ scan' = {e[2] : e \in Sources(s)}
            /\ plan' = plan \ {s}
            /\ pc' = "write"
            /\ UNCHANGED <<cmd, merged, last>>
  /\ UNCHANGED <<index, coverage, history, bounds>>

Unlink ==
  /\ pc = "unlink"
  /\ \E p \in scan :
       /\ disk' = [disk EXCEPT ![p] = NoFile]
       /\ scan' = scan \ {p}
  /\ UNCHANGED <<index, coverage, pc, cmd, plan, at, rows, merged, last, history, bounds>>

NextGroup ==
  /\ pc = "unlink"
  /\ scan = {}
  /\ pc' = "group"
  /\ UNCHANGED <<stored, cmd, local, last, history, bounds>>

\* The command ends with its files merged, and does not rebuild the index.
SkipRebuild ==
  /\ pc = "group"
  /\ plan = {}
  /\ Finish("rebuilt")
  /\ UNCHANGED <<stored, history, bounds>>

RebuildAfterCompact ==
  /\ pc = "group"
  /\ plan = {}
  /\ scan' = Readable
  /\ pc' = "clear"
  /\ UNCHANGED <<stored, cmd, plan, at, rows, merged, last, history, bounds>>
----
(***************************************************************************)
(* cleanup --delete: the Parquet files that are not registered.  A careful *)
(* operator has just rebuilt the index.                                    *)
(***************************************************************************)
Cleanup ==
  /\ pc = "idle"
  /\ commands < MaxCommands
  /\ commands' = commands + 1
  /\ scan' = OnDisk \ Registered
  /\ reckless' = (reckless \/ last # "rebuilt")
  /\ cmd' = "cleanup"
  /\ pc' = "delete"
  /\ UNCHANGED <<stored, plan, at, rows, merged, last, acked, downloads, crashes>>

DeleteOrphan ==
  /\ pc = "delete"
  /\ \E p \in scan :
       /\ disk' = [disk EXCEPT ![p] = NoFile]
       /\ scan' = scan \ {p}
  /\ UNCHANGED <<index, coverage, pc, cmd, plan, at, rows, merged, last, history, bounds>>

EndCleanup ==
  /\ pc = "delete"
  /\ scan = {}
  /\ Finish("cleaned")
  /\ UNCHANGED <<stored, history, bounds>>
----
\* In the middle of a download's file a crash may tear a file that was recorded.
Crash ==
  /\ pc # "idle"
  /\ crashes < MaxCrashes
  /\ crashes' = crashes + 1
  /\ reckless' = (reckless \/ (cmd = "download" /\ pc = "write"))
  /\ Finish("crashed")
  /\ UNCHANGED <<stored, acked, downloads, commands>>

Next ==
  \/ \E s \in Series, r \in Rows : Download(s, r)
  \/ WriteRows \/ InsertRow \/ DropCoverage \/ PutCoverage \/ NextFile
  \/ Rebuild \/ ClearCoverage \/ ClearFiles
  \/ Compact \/ MergeGroup \/ Unlink \/ NextGroup \/ RebuildAfterCompact
  \/ Cleanup \/ DeleteOrphan \/ EndCleanup
  \/ Crash

Spec == Init /\ [][Next]_vars
----
\* What `data check' compares: the registered files with those on disk, and
\* the coverage rows with what the registered files add up to.
MissingRegistered  == Registered \ OnDisk
OrphanParquet      == OnDisk \ Registered
MetadataMismatches == {e \in index : e[2] \in OnDisk /\ disk[e[2]] # e[1]}

CoverageConsistent(s) ==
  IF Sources(s) = {} THEN coverage[s].files = 0
  ELSE /\ coverage[s].files = Cardinality(Sources(s))
       /\ IsLeast(coverage[s].lo, {FirstDate(e[1]) : e \in Sources(s)})
       /\ IsGreatest(coverage[s].hi, {LastDate(e[1]) : e \in Sources(s)})

TypeOK ==
  /\ disk \in [Paths -> Rows \union {NoFile, Torn}]
  /\ index \subseteq Rows \X Paths
  /\ coverage \in [Series -> [lo : 0 .. NDates, hi : 0 .. NDates, files : Nat]]
  /\ pc \in {"idle", "write", "insert", "drop", "put", "next", "clear", "clear files",
             "group", "unlink", "delete"}
  /\ cmd \in {"none", "download", "rebuild", "compact", "cleanup"}
  /\ scan \subseteq Paths
  /\ plan \subseteq Series
  /\ at \in Paths \union {NoFile}
  /\ rows \in Rows \union {NoFile}
  /\ merged \in [lo : 0 .. NDates, hi : 0 .. NDates, files : Nat]
  /\ last \in {"none", "recorded", "refused", "failed", "rebuilt", "cleaned", "crashed"}
  /\ acked \subseteq Series \X Dates
  /\ reckless \in BOOLEAN
  /\ downloads \in 0 .. MaxDownloads
  /\ commands \in 0 .. MaxCommands
  /\ crashes \in 0 .. MaxCrashes

(***************************************************************************)
(* A rebuild that ends normally, alone or at the end of a compaction,      *)
(* leaves nothing for `data check' to report but files a crash left        *)
(* unreadable, whatever state the tables and the directory were in.        *)
(***************************************************************************)
RebuildRestoresIndex ==
  last = "rebuilt" /\ pc = "idle" =>
    /\ MissingRegistered = {} /\ OrphanParquet \intersect Readable = {} /\ MetadataMismatches = {}
    /\ \A s \in Series : CoverageConsistent(s)

(***************************************************************************)
(* A date whose download was recorded is never lost: some file of the      *)
(* series holds a bar of it, between the steps of a compaction and after a *)
(* crash too.  It takes an operator who reads the plan of a compaction,    *)
(* cleans up only after a rebuild, and no crash while a download writes    *)
(* its file: writing the same rows again truncates the recorded file.      *)
(***************************************************************************)
RecordedBarsStay ==
  ~reckless /\ ~(cmd = "download" /\ pc = "write") =>
    \A a \in acked : \E p \in Readable : SeriesOf(p) = a[1] /\ a[2] \in DOMAIN disk[p]

(***************************************************************************)
(* As long as no process crashed, every registered file is there, with the *)
(* rows it is registered with, whenever no command runs: a query never     *)
(* reads a missing file.                                                   *)
(***************************************************************************)
RegisteredFilesExist ==
  crashes = 0 /\ pc = "idle" => MissingRegistered = {} /\ MetadataMismatches = {}

(***************************************************************************)
(* The compaction merges the files of a series into one new file: the      *)
(* bars of the sources are in it when the command ends.                    *)
(***************************************************************************)
CompactionKeepsBars ==
  pc = "idle" /\ last = "rebuilt" =>
    \A a \in acked : \E e \in Sources(a[1]) : a[2] \in DOMAIN e[1]
====
